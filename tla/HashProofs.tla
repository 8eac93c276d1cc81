----------------------------- MODULE HashProofs -----------------------------
(***************************************************************************)
(* HashStream, for every block size, width of counter and alphabet: the    *)
(* stream of update() is whole, and the digest is that of the padded       *)
(* message.                                                                *)
(***************************************************************************)
EXTENDS HashStream, Integers, TLAPS, SequenceTheorems, WellFoundedInduction

-----------------------------------------------------------------------------
(* Induction, over a set instead of an operator.                           *)

LEMMA Least ==
    ASSUME NEW T, T \subseteq Nat, T # {}
    PROVE  \E x \in T : \A y \in T : x <= y
<1>1. \E R : IsWellFoundedOn(R, Nat) /\ \A x, y \in Nat : <<x, y>> \in R <=> x < y
  <2>1. \A x, y \in Nat : <<x, y>> \in OpToRel(<, Nat) <=> x < y
    BY Zenon DEF OpToRel
  <2> QED BY <2>1, NatLessThanWellFounded, Zenon
<1>2. PICK R : IsWellFoundedOn(R, Nat) /\ \A x, y \in Nat : <<x, y>> \in R <=> x < y
  BY <1>1
<1>3. \E x \in T : \A y \in T : ~ (<<y, x>> \in R)
  <2>1. IsWellFoundedOn(R, Nat)
    BY <1>2
  <2> QED BY <2>1, WFMin, Zenon
<1>4. PICK x \in T : \A y \in T : ~ (<<y, x>> \in R)
  BY <1>3
<1>5. \A y \in T : ~ (y < x)
  BY <1>2, <1>4
<1>6. \A y \in T : x <= y
  BY <1>5
<1> QED BY <1>6

LEMMA Induction ==
    ASSUME NEW S, 0 \in S, \A n \in Nat : n \in S => n + 1 \in S
    PROVE  \A n \in Nat : n \in S
<1> SUFFICES ASSUME NEW n \in Nat, n \notin S PROVE FALSE
  OBVIOUS
<1>1. PICK x \in Nat \ S : \A y \in Nat \ S : x <= y
  BY Least
<1>2. x # 0 /\ x - 1 \in Nat /\ x - 1 \notin Nat \ S
  BY <1>1
<1>3. (x - 1) + 1 \in S
  BY <1>2
<1> QED BY <1>1, <1>3

-----------------------------------------------------------------------------
(* Powers.                                                                 *)

IsPower(f, b, n) == f = [k \in 0..n |-> IF k = 0 THEN 1 ELSE b * f[k - 1]]

LEMMA PowerExists == ASSUME NEW b \in Nat, NEW n \in Nat PROVE \E f : IsPower(f, b, n)
<1> DEFINE S == {m \in Nat : \E f : IsPower(f, b, m)}
<1>1. 0 \in S
  <2>1. PICK f : f = [k \in 0..0 |-> 1]
    OBVIOUS
  <2>2. IsPower(f, b, 0)
    BY <2>1 DEF IsPower
  <2> QED BY <2>2
<1>2. ASSUME NEW m \in Nat, m \in S PROVE m + 1 \in S
  <2>1. PICK f : IsPower(f, b, m)
    BY <1>2
  <2>2. PICK g : g = [k \in 0..(m + 1) |-> IF k = m + 1 THEN b * f[m] ELSE f[k]]
    OBVIOUS
  <2>3. \A k \in 0..(m + 1) : g[k] = IF k = 0 THEN 1 ELSE b * g[k - 1]
    BY <2>1, <2>2 DEF IsPower
  <2>4. g = [k \in 0..(m + 1) |-> g[k]]
    BY <2>2
  <2>5. IsPower(g, b, m + 1)
    BY <2>3, <2>4 DEF IsPower
  <2> QED BY <2>5
<1> HIDE DEF S
<1>3. n \in S
  BY <1>1, <1>2, Induction
<1> QED BY <1>3 DEF S

LEMMA PowerAgrees ==
    ASSUME NEW b \in Nat, NEW m \in Nat, NEW n \in Nat, NEW f, NEW g,
           IsPower(f, b, m), IsPower(g, b, n)
    PROVE  \A k \in Nat : k <= m /\ k <= n => f[k] = g[k] /\ f[k] \in Nat /\ (b # 0 => f[k] # 0)
<1> DEFINE S == {k \in Nat : k <= m /\ k <= n => f[k] = g[k] /\ f[k] \in Nat /\ (b # 0 => f[k] # 0)}
<1>1. 0 \in S
  BY DEF IsPower
<1>2. ASSUME NEW k \in Nat, k \in S PROVE k + 1 \in S
  <2> SUFFICES ASSUME k + 1 <= m, k + 1 <= n
               PROVE  f[k + 1] = g[k + 1] /\ f[k + 1] \in Nat /\ (b # 0 => f[k + 1] # 0)
    OBVIOUS
  <2>1. f[k] = g[k] /\ f[k] \in Nat /\ (b # 0 => f[k] # 0)
    BY <1>2
  <2>2. f[k + 1] = b * f[k] /\ g[k + 1] = b * g[k]
    BY DEF IsPower
  <2> QED BY <2>1, <2>2
<1> HIDE DEF S
<1>3. \A k \in Nat : k \in S
  BY <1>1, <1>2, Induction
<1> QED BY <1>3 DEF S

LEMMA PowerIs ==
    ASSUME NEW b \in Nat, NEW n \in Nat
    PROVE  \E f : IsPower(f, b, n) /\ Power(b, n) = f[n]
<1> DEFINE p == CHOOSE f : f = [k \in 0..n |-> IF k = 0 THEN 1 ELSE b * f[k - 1]]
<1>1. \E f : f = [k \in 0..n |-> IF k = 0 THEN 1 ELSE b * f[k - 1]]
  BY PowerExists DEF IsPower
<1>2. IsPower(p, b, n)
  BY <1>1, Zenon DEF IsPower
<1>3. Power(b, n) = p[n]
  BY DEF Power
<1> QED BY <1>2, <1>3

\* What Power is: the two cases of its recursion, and its type.
LEMMA PowerFacts ==
    ASSUME NEW b \in Nat
    PROVE  /\ Power(b, 0) = 1
           /\ \A n \in Nat : /\ Power(b, n) \in Nat
                             /\ b # 0 => Power(b, n) # 0
                             /\ Power(b, n + 1) = b * Power(b, n)
<1>1. ASSUME NEW n \in Nat PROVE Power(b, n) \in Nat /\ (b # 0 => Power(b, n) # 0)
  <2>1. PICK f : IsPower(f, b, n) /\ Power(b, n) = f[n]
    BY PowerIs
  <2>2. \A k \in Nat : k <= n /\ k <= n => f[k] = f[k] /\ f[k] \in Nat /\ (b # 0 => f[k] # 0)
    BY <2>1, PowerAgrees
  <2>3. f[n] \in Nat /\ (b # 0 => f[n] # 0)
    BY <2>2
  <2> QED BY <2>1, <2>3
<1>2. ASSUME NEW n \in Nat PROVE Power(b, n + 1) = b * Power(b, n)
  <2>1. PICK f : IsPower(f, b, n) /\ Power(b, n) = f[n]
    BY PowerIs
  <2>2. PICK g : IsPower(g, b, n + 1) /\ Power(b, n + 1) = g[n + 1]
    BY PowerIs
  <2>3. f[n] = g[n]
    <3>1. n + 1 \in Nat /\ n <= n + 1
      OBVIOUS
    <3>2. \A k \in Nat : k <= n /\ k <= n + 1
                         => f[k] = g[k] /\ f[k] \in Nat /\ (b # 0 => f[k] # 0)
      BY <2>1, <2>2, <3>1, PowerAgrees
    <3> QED BY <3>1, <3>2
  <2>4. g[n + 1] = b * g[n]
    BY <2>2 DEF IsPower
  <2> QED BY <2>1, <2>2, <2>3, <2>4
<1>3. Power(b, 0) = 1
  <2>1. PICK f : IsPower(f, b, 0) /\ Power(b, 0) = f[0]
    BY PowerIs
  <2> QED BY <2>1 DEF IsPower
<1> QED BY <1>1, <1>2, <1>3

LEMMA PowerGrows ==
    ASSUME NEW b \in Nat \ {0}, NEW m \in Nat, NEW n \in Nat, m <= n
    PROVE  Power(b, m) <= Power(b, n)
<1> DEFINE S == {k \in Nat : Power(b, m) <= Power(b, m + k)}
<1>1. 0 \in S
  BY PowerFacts
<1>2. ASSUME NEW k \in Nat, k \in S PROVE k + 1 \in S
  <2>0. m + k \in Nat
    OBVIOUS
  <2>1. /\ Power(b, m + k) \in Nat /\ Power(b, (m + k) + 1) = b * Power(b, m + k)
        /\ Power(b, m) \in Nat
    BY <2>0, PowerFacts
  <2>2. Power(b, m + k) <= b * Power(b, m + k)
    BY <2>1
  <2> QED BY <1>2, <2>1, <2>2
<1> HIDE DEF S
<1>3. n - m \in S
  BY <1>1, <1>2, Induction
<1> QED BY <1>3 DEF S

-----------------------------------------------------------------------------
(* Division.                                                               *)

LEMMA Division ==
    ASSUME NEW b \in Nat \ {0}, NEW q \in Nat, NEW r \in 0..(b - 1), NEW a, a = q * b + r
    PROVE  a \div b = q /\ a % b = r
OBVIOUS

LEMMA Small ==
    ASSUME NEW b \in Nat \ {0}, NEW a \in Nat, a < b
    PROVE  a \div b = 0 /\ a % b = a
<1>1. a = 0 * b + a /\ a \in 0..(b - 1)
  OBVIOUS
<1> QED BY <1>1, Division

\* Two rests that fill a up to multiples of b are the same.
LEMMA FillingIsUnique ==
    ASSUME NEW b \in Nat \ {0}, NEW a \in Nat, NEW j \in 0..(b - 1), NEW k \in 0..(b - 1),
           (a + j) % b = 0, (a + k) % b = 0
    PROVE  j = k
<1>1. PICK p \in Nat : a + j = b * p
  OBVIOUS
<1>2. PICK q \in Nat : a + k = b * q
  OBVIOUS
<1>3. ASSUME p >= q + 1 PROVE FALSE
  <2>1. b * p >= b * (q + 1)
    BY <1>3
  <2> QED BY <1>1, <1>2, <2>1
<1>4. ASSUME q >= p + 1 PROVE FALSE
  <2>1. b * q >= b * (p + 1)
    BY <1>4
  <2> QED BY <1>1, <1>2, <2>1
<1>5. p = q
  BY <1>3, <1>4
<1> QED BY <1>1, <1>2, <1>5

\* A count carried on modulo n is the count modulo n.
LEMMA CountsOn ==
    ASSUME NEW n \in Nat \ {0}, NEW a \in Nat, NEW c \in Nat
    PROVE  ((a % n) + c) % n = (a + c) % n
<1>1. PICK q \in Nat, r \in 0..(n - 1) : a = q * n + r
  <2>1. a \div n \in Nat /\ a % n \in 0..(n - 1) /\ a = (a \div n) * n + (a % n)
    OBVIOUS
  <2> QED BY <2>1
<1>2. PICK p \in Nat, s \in 0..(n - 1) : r + c = p * n + s
  <2>1. /\ (r + c) \div n \in Nat /\ (r + c) % n \in 0..(n - 1)
        /\ r + c = ((r + c) \div n) * n + ((r + c) % n)
    OBVIOUS
  <2> QED BY <2>1
<1>3. a % n = r
  BY <1>1, Division
<1>4. (r + c) % n = s
  BY <1>2, Division, ZenonT(60)
<1>5. a + c = (q + p) * n + s
  <2>1. (q + p) * n = q * n + p * n
    OBVIOUS
  <2>2. q * n \in Nat /\ p * n \in Nat
    OBVIOUS
  <2> QED BY <1>1, <1>2, <2>1, <2>2
<1>6. (a + c) % n = s
  <2>1. q + p \in Nat
    OBVIOUS
  <2> QED BY <1>5, <2>1, Division, ZenonT(60)
<1> QED BY <1>3, <1>4, <1>6

-----------------------------------------------------------------------------
(* Sequences.                                                              *)

LEMMA Joins ==
    ASSUME NEW S, NEW s \in Seq(S), NEW t \in Seq(S)
    PROVE  s \o t \in Seq(S) /\ Len(s) \in Nat /\ Len(s \o t) = Len(s) + Len(t)
BY ConcatProperties, LenProperties

LEMMA Halves ==
    ASSUME NEW S, NEW s \in Seq(S), NEW n \in 0..Len(s)
    PROVE  /\ SubSeq(s, 1, n) \in Seq(S) /\ SubSeq(s, n + 1, Len(s)) \in Seq(S)
           /\ Len(SubSeq(s, 1, n)) = n /\ Len(SubSeq(s, n + 1, Len(s))) = Len(s) - n
           /\ SubSeq(s, 1, n) \o SubSeq(s, n + 1, Len(s)) = s
<1>1. Len(s) \in Nat
  BY LenProperties
<1>2. SubSeq(s, 1, n) \in Seq(S)
  BY <1>1
<1>3. SubSeq(s, n + 1, Len(s)) \in Seq(S)
  BY <1>1
<1>4. 1 \in 1..Len(s) + 1 /\ n \in (1 - 1)..Len(s) /\ Len(s) \in n..Len(s)
  BY <1>1
<1>5. SubSeq(s, 1, n) \o SubSeq(s, n + 1, Len(s)) = SubSeq(s, 1, Len(s))
  BY <1>4, ConcatAdjacentSubSeq
<1>6. SubSeq(s, 1, Len(s)) = s
  BY SubSeqFull
<1>7. Len(SubSeq(s, 1, n)) = n
  BY <1>1
<1>8. Len(SubSeq(s, n + 1, Len(s))) = Len(s) - n
  BY <1>1
<1> QED BY <1>2, <1>3, <1>5, <1>6, <1>7, <1>8

LEMMA Regroup ==
    ASSUME NEW S, NEW s \in Seq(S), NEW x \in Seq(S), NEW y \in Seq(S)
    PROVE  (s \o x) \o y = s \o (x \o y)
BY ConcatAssociative

LEMMA RegroupNat ==
    ASSUME NEW s \in Seq(Nat), NEW x \in Seq(Nat), NEW y \in Seq(Nat)
    PROVE  (s \o x) \o y = s \o (x \o y)
<1>1. PICK N : N = Nat
  OBVIOUS
<1>2. s \in Seq(N) /\ x \in Seq(N) /\ y \in Seq(N)
  BY <1>1, Zenon
<1> QED BY <1>2, Regroup, SMTT(60)

\* Taking the first n of t over to s.
LEMMA Recut ==
    ASSUME NEW S, NEW s \in Seq(S), NEW t \in Seq(S), NEW n \in 0..Len(t)
    PROVE  (s \o SubSeq(t, 1, n)) \o SubSeq(t, n + 1, Len(t)) = s \o t
<1>0. /\ SubSeq(t, 1, n) \in Seq(S) /\ SubSeq(t, n + 1, Len(t)) \in Seq(S)
      /\ SubSeq(t, 1, n) \o SubSeq(t, n + 1, Len(t)) = t
  BY Halves
<1>1. PICK x \in Seq(S), y \in Seq(S) :
          x = SubSeq(t, 1, n) /\ y = SubSeq(t, n + 1, Len(t)) /\ x \o y = t
  BY <1>0, Zenon
<1>2. (s \o x) \o y = s \o (x \o y)
  BY Regroup, SMTT(60)
<1> QED BY <1>1, <1>2

-----------------------------------------------------------------------------
(* The inductive invariant, by the phase of the object.                    *)

HashTypes ==
    /\ alg \in Algorithms /\ finalized \in BOOLEAN
    /\ absorbed \in Seq(Nat) /\ buf \in Seq(Nat) /\ rest \in Seq(Nat)
    /\ fed \in Seq(Nat) /\ message \in Seq(Nat)
    /\ Len(buf) < BlockSize /\ Len(fed) <= MaxBytes /\ totalBits \in Nat /\ bitsLen \in Nat

\* The bits of s as the counter has them.
Bits(s) == (Len(s) * alg.byteBits) % None

\* What digest() feeds to update(): the marker and zeros.
Marker(n) == [i \in 1..n |-> IF i = 1 THEN Radix \div 2 ELSE 0]

\* What is on its way into H: whole blocks behind, less than one in the buffer.
OnTheWay(s) ==
    /\ (absorbed \o buf) \o rest = s
    /\ Len(absorbed) % BlockSize = 0

\* Before digest().
WhileOpen ==
    bitsLen = None /\ ~finalized =>
        digests = <<>> /\ totalBits = Bits(fed) /\ OnTheWay(fed)

\* In the first digest(): the marker and the length will end a block.
WhileClosing ==
    bitsLen # None =>
        /\ ~finalized /\ digests = <<>> /\ message = fed /\ bitsLen = Bits(fed)
        /\ \E n \in 1..BlockSize :
              (Len(fed) + n + LenSize) % BlockSize = 0 /\ OnTheWay(fed \o Marker(n))

\* After digest(): what it returned stays, until an unguarded object is fed again.
OnceClosed ==
    finalized =>
        /\ bitsLen = None
        /\ Len(message) <= Len(fed) /\ (Len(message) = Len(fed) => fed = message)
        /\ digests = <<Padded(message), digests[2]>>
        /\ (alg.guarded \/ fed = message) =>
              rest = <<>> /\ absorbed = Padded(message) /\ digests[2] = Padded(message)

HashInv == HashTypes /\ WhileOpen /\ WhileClosing /\ OnceClosed

-----------------------------------------------------------------------------
(* The widths.                                                             *)

LEMMA Widths ==
    ASSUME alg \in Algorithms
    PROVE  /\ BlockSize \in Nat \ {0} /\ LenSize \in Nat \ {0} /\ LenSize < BlockSize
           /\ alg.count \in Nat \ {0} /\ alg.count <= LenSize /\ alg.byteBits \in Nat \ {0}
           /\ alg.bigEndian \in BOOLEAN /\ alg.guarded \in BOOLEAN
           /\ Radix \in Nat \ {0} /\ None \in Nat \ {0} /\ Bytes \subseteq Nat
<1>1. /\ alg.block \in Nat \ {0} /\ alg.len \in Nat \ {0} /\ alg.count \in Nat \ {0}
      /\ alg.byteBits \in Nat \ {0} /\ alg.bigEndian \in BOOLEAN /\ alg.guarded \in BOOLEAN
      /\ alg.count <= alg.len /\ alg.len < alg.block
      /\ Bytes \subseteq 0..(Power(2, alg.byteBits) - 1)
  BY HashAssumption DEF Algorithm
<1>2. Power(2, alg.byteBits) \in Nat /\ Power(2, alg.byteBits) # 0
  <2>1. \A n \in Nat : Power(2, n) \in Nat /\ (2 # 0 => Power(2, n) # 0)
    BY PowerFacts
  <2> QED BY <1>1, <2>1
<1>3. Radix \in Nat \ {0}
  BY <1>2 DEF Radix
<1>4. None \in Nat /\ None # 0
  <2>1. \A n \in Nat : Power(Radix, n) \in Nat /\ (Radix # 0 => Power(Radix, n) # 0)
    BY <1>3, PowerFacts
  <2> QED BY <1>1, <1>3, <2>1 DEF None
<1>5. Bytes \subseteq Nat
  BY <1>1, <1>2
<1> QED BY <1>1, <1>3, <1>4, <1>5 DEF BlockSize, LenSize

LEMMA RadixPowers ==
    ASSUME alg \in Algorithms, NEW n \in Nat
    PROVE  Power(Radix, n) \in Nat \ {0}
<1>1. Radix \in Nat \ {0}
  BY Widths
<1>2. Power(Radix, n) \in Nat /\ (Radix # 0 => Power(Radix, n) # 0)
  BY <1>1, PowerFacts
<1> QED BY <1>1, <1>2

LEMMA MarkerIs ==
    ASSUME alg \in Algorithms, NEW n \in Nat \ {0}
    PROVE  /\ Marker(n) \in Seq(Nat) /\ Len(Marker(n)) = n /\ Marker(n) # <<>>
           /\ Marker(n) = <<Radix \div 2>> \o [i \in 1..(n - 1) |-> 0]
<1>1. Radix \div 2 \in Nat
  <2>1. Radix \in Nat
    BY Widths
  <2> QED BY <2>1
<1>2. PICK m \in Nat : m = Radix \div 2
  BY <1>1
<1>3. PICK z : z = [i \in 1..(n - 1) |-> 0]
  OBVIOUS
<1>4. z \in Seq(Nat) /\ Len(z) = n - 1
  BY <1>3
<1>5. Marker(n) = [i \in 1..n |-> IF i = 1 THEN m ELSE 0]
  BY <1>2 DEF Marker
<1>6. Marker(n) \in Seq(Nat) /\ Len(Marker(n)) = n
  BY <1>5
<1>7. <<m>> \in Seq(Nat) /\ Len(<<m>>) = 1 /\ <<m>>[1] = m
  OBVIOUS
<1>8. /\ <<m>> \o z \in Seq(Nat) /\ Len(<<m>> \o z) = 1 + (n - 1)
      /\ \A i \in 1..(1 + (n - 1)) :
            (<<m>> \o z)[i] = IF i <= 1 THEN <<m>>[i] ELSE z[i - 1]
  BY <1>4, <1>7, ConcatProperties
<1>9. ASSUME NEW i \in 1..n PROVE Marker(n)[i] = (<<m>> \o z)[i]
  <2>1. (<<m>> \o z)[i] = IF i <= 1 THEN <<m>>[i] ELSE z[i - 1]
    BY <1>8
  <2>2. Marker(n)[i] = IF i = 1 THEN m ELSE 0
    BY <1>5
  <2>3. CASE i = 1
    BY <1>7, <2>1, <2>2, <2>3
  <2>4. CASE i # 1
    <3>1. i - 1 \in 1..(n - 1)
      BY <2>4
    <3>2. z[i - 1] = 0
      BY <1>3, <3>1
    <3>3. ~ (i <= 1)
      BY <2>4
    <3> QED BY <2>1, <2>2, <2>4, <3>2, <3>3
  <2> QED BY <2>3, <2>4
<1>10. Marker(n) = <<m>> \o z
  <2>1. Len(Marker(n)) = Len(<<m>> \o z)
    BY <1>6, <1>8
  <2>2. \A i \in 1..Len(Marker(n)) : Marker(n)[i] = (<<m>> \o z)[i]
    BY <1>6, <1>9
  <2> QED BY <1>6, <1>8, <2>1, <2>2, SeqEqual
<1>11. Marker(n) # <<>>
  BY <1>6
<1> QED BY <1>2, <1>3, <1>6, <1>10, <1>11

LEMMA LenBlockType ==
    ASSUME alg \in Algorithms, NEW c \in Nat
    PROVE  LenBlock(c) \in Seq(Nat) /\ Len(LenBlock(c)) = LenSize
<1>1. LenSize \in Nat /\ Radix \in Nat \ {0} /\ alg.count \in Nat /\ alg.bigEndian \in BOOLEAN
  BY Widths
<1>2. \A i \in 1..LenSize : LET digit == IF alg.bigEndian THEN LenSize - i ELSE i - 1
                            IN  (IF digit < alg.count THEN (c \div Power(Radix, digit)) % Radix
                                 ELSE 0) \in Nat
  <2> SUFFICES ASSUME NEW i \in 1..LenSize,
                      NEW digit, digit = IF alg.bigEndian THEN LenSize - i ELSE i - 1
               PROVE  (IF digit < alg.count THEN (c \div Power(Radix, digit)) % Radix
                       ELSE 0) \in Nat
    BY Zenon
  <2>1. digit \in Nat
    BY <1>1
  <2>2. Power(Radix, digit) \in Nat \ {0}
    BY <2>1, RadixPowers
  <2>3. (c \div Power(Radix, digit)) % Radix \in Nat
    BY <1>1, <2>2
  <2> QED BY <2>3
<1>3. LenBlock(c) \in [1..LenSize -> Nat]
  BY <1>2 DEF LenBlock
<1> QED BY <1>1, <1>3

\* The field of the length and the counter's digits agree, as a counter that is
\* narrower than the field does not wrap.
LEMMA FieldIs ==
    ASSUME alg \in Algorithms, NEW m \in Seq(Nat), Len(m) <= MaxBytes
    PROVE  [i \in 1..LenSize |->
                     LET digit == IF alg.bigEndian THEN LenSize - i ELSE i - 1
                     IN  (((Len(m) * alg.byteBits) % Power(Radix, LenSize))
                            \div Power(Radix, digit)) % Radix]
           = LenBlock(Bits(m))
<1>1. /\ LenSize \in Nat /\ Radix \in Nat \ {0} /\ alg.count \in Nat /\ alg.count <= LenSize
      /\ alg.byteBits \in Nat /\ None \in Nat \ {0} /\ alg.bigEndian \in BOOLEAN
  BY Widths
<1>2. Len(m) \in Nat /\ Len(m) * alg.byteBits \in Nat /\ MaxBytes \in Nat
  BY <1>1, HashAssumption
<1>3. PICK n \in Nat : n = Len(m) * alg.byteBits
  BY <1>2
<1>4. CASE alg.count = LenSize
  <2>1. \A i \in 1..LenSize : (IF alg.bigEndian THEN LenSize - i ELSE i - 1) < alg.count
    BY <1>1, <1>4
  <2>2. Bits(m) = (Len(m) * alg.byteBits) % Power(Radix, LenSize)
    BY <1>4 DEF Bits, None
  <2> QED BY <2>1, <2>2 DEF LenBlock
<1>5. CASE alg.count # LenSize
  <2>1. alg.count < alg.len
    BY <1>1, <1>5 DEF LenSize
  <2>2. MaxBytes * alg.byteBits < None
    BY <2>1, CounterAssumption DEF None, Radix
  <2>3. n <= MaxBytes * alg.byteBits
    BY <1>1, <1>2, <1>3
  <2>4. n < None
    BY <1>1, <1>2, <2>2, <2>3
  <2>5. \A d \in Nat : d >= alg.count => Power(Radix, d) \in Nat \ {0} /\ n < Power(Radix, d)
    <3> SUFFICES ASSUME NEW d \in Nat, d >= alg.count
                 PROVE  Power(Radix, d) \in Nat \ {0} /\ n < Power(Radix, d)
      OBVIOUS
    <3>1. None <= Power(Radix, d)
      BY <1>1, PowerGrows DEF None
    <3>2. Power(Radix, d) \in Nat \ {0}
      BY RadixPowers
    <3> QED BY <1>1, <2>4, <3>1, <3>2
  <2>6. Bits(m) = n
    <3>1. n % None = n
      BY <1>1, <1>2, <1>3, <2>4, Small
    <3> QED BY <1>3, <3>1 DEF Bits
  <2>7. (Len(m) * alg.byteBits) % Power(Radix, LenSize) = n
    <3>1. Power(Radix, LenSize) \in Nat \ {0} /\ n < Power(Radix, LenSize)
      BY <1>1, <2>5
    <3>2. n % Power(Radix, LenSize) = n
      BY <1>2, <1>3, <3>1, Small
    <3> QED BY <1>3, <3>2
  <2>8. ASSUME NEW i \in 1..LenSize, NEW d, d = IF alg.bigEndian THEN LenSize - i ELSE i - 1
        PROVE  (n \div Power(Radix, d)) % Radix
               = IF d < alg.count THEN (n \div Power(Radix, d)) % Radix ELSE 0
    <3>1. d \in Nat
      BY <1>1, <2>8
    <3>2. CASE d >= alg.count
      <4>1. Power(Radix, d) \in Nat \ {0} /\ n < Power(Radix, d)
        BY <2>5, <3>1, <3>2
      <4>2. n \div Power(Radix, d) = 0
        BY <1>2, <1>3, <4>1, Small
      <4>3. 0 % Radix = 0
        BY <1>1
      <4> QED BY <1>1, <3>1, <3>2, <4>2, <4>3
    <3> QED BY <1>1, <3>1, <3>2
  <2> QED BY <2>6, <2>7, <2>8, Zenon DEF LenBlock
<1> QED BY <1>4, <1>5

LEMMA PaddedIs ==
    ASSUME alg \in Algorithms, NEW m \in Seq(Nat), Len(m) <= MaxBytes,
           NEW n \in 1..BlockSize, (Len(m) + n + LenSize) % BlockSize = 0
    PROVE  Padded(m) = (m \o Marker(n)) \o LenBlock(Bits(m))
<1>1. BlockSize \in Nat \ {0} /\ LenSize \in Nat /\ Radix \in Nat \ {0} /\ None \in Nat \ {0}
  BY Widths
<1>2. Len(m) \in Nat
  OBVIOUS
<1>3. (CHOOSE k \in 0..(BlockSize - 1) : (Len(m) + 1 + k + LenSize) % BlockSize = 0) = n - 1
  <2>1. n - 1 \in 0..(BlockSize - 1) /\ (Len(m) + 1 + (n - 1) + LenSize) % BlockSize = 0
    <3>1. Len(m) + 1 + (n - 1) + LenSize = Len(m) + n + LenSize
      BY <1>1, <1>2
    <3> QED BY <1>1, <3>1
  <2>2. ASSUME NEW k \in 0..(BlockSize - 1), (Len(m) + 1 + k + LenSize) % BlockSize = 0
        PROVE  k = n - 1
    <3>1. PICK a \in Nat : a = Len(m) + 1 + LenSize
      BY <1>1, <1>2
    <3>2. a + k = Len(m) + 1 + k + LenSize /\ a + (n - 1) = Len(m) + 1 + (n - 1) + LenSize
      BY <1>1, <1>2, <3>1
    <3>3. (a + k) % BlockSize = 0 /\ (a + (n - 1)) % BlockSize = 0
      BY <2>1, <2>2, <3>2
    <3> QED BY <1>1, <2>1, <3>3, FillingIsUnique
  <2> QED BY <2>1, <2>2
<1>4. Padded(m) = ((m \o <<Radix \div 2>>) \o [i \in 1..(n - 1) |-> 0]) \o LenBlock(Bits(m))
  <2>1. [i \in 1..LenSize |->
                     LET digit == IF alg.bigEndian THEN LenSize - i ELSE i - 1
                     IN  (((Len(m) * alg.byteBits) % Power(Radix, LenSize))
                            \div Power(Radix, digit)) % Radix]
           = LenBlock(Bits(m))
    BY FieldIs
  <2>2. PICK z, f :
           /\ z = [i \in 1..(CHOOSE k \in 0..(BlockSize - 1) :
                             (Len(m) + 1 + k + LenSize) % BlockSize = 0) |-> 0]
           /\ f = [i \in 1..LenSize |->
                     LET digit == IF alg.bigEndian THEN LenSize - i ELSE i - 1
                     IN  (((Len(m) * alg.byteBits) % Power(Radix, LenSize))
                            \div Power(Radix, digit)) % Radix]
           /\ Padded(m) = ((m \o <<Radix \div 2>>) \o z) \o f
    BY Zenon DEF Padded
  <2>3. z = [i \in 1..(n - 1) |-> 0]
    BY <1>3, <2>2
  <2>4. f = LenBlock(Bits(m))
    BY <2>1, <2>2, Zenon
  <2>5. Padded(m) = ((m \o <<Radix \div 2>>) \o z) \o f
    BY <2>2, Zenon
  <2> QED BY <2>3, <2>4, <2>5, Zenon
<1>5. (m \o <<Radix \div 2>>) \o [i \in 1..(n - 1) |-> 0] = m \o Marker(n)
  <2>0. n \in Nat \ {0}
    BY <1>1
  <2>1. Marker(n) = <<Radix \div 2>> \o [i \in 1..(n - 1) |-> 0]
    BY <2>0, MarkerIs
  <2>2. <<Radix \div 2>> \in Seq(Nat)
    BY <1>1
  <2>3. [i \in 1..(n - 1) |-> 0] \in Seq(Nat)
    BY <1>1
  <2> QED BY <2>1, <2>2, <2>3, Regroup, SMTT(60)
<1> QED BY <1>4, <1>5

-----------------------------------------------------------------------------
(* Every step keeps the invariant.                                         *)

LEMMA InitHash == Init => HashInv
<1> SUFFICES ASSUME Init PROVE HashInv
  OBVIOUS
<1>0. alg \in Algorithms
  BY DEF Init
<1>1. None \in Nat \ {0} /\ BlockSize \in Nat \ {0} /\ MaxBytes \in Nat /\ alg.byteBits \in Nat
  BY <1>0, Widths, HashAssumption
<1>2. HashTypes
  <2>1. <<>> \in Seq(Nat) /\ Len(<<>>) = 0 /\ 0 <= MaxBytes
    BY <1>1
  <2>2. /\ absorbed = <<>> /\ buf = <<>> /\ rest = <<>> /\ fed = <<>> /\ message = <<>>
        /\ totalBits = 0 /\ bitsLen = None /\ finalized = FALSE
    BY DEF Init
  <2>3. Len(buf) < BlockSize /\ Len(fed) <= MaxBytes
    BY <1>1, <2>1, <2>2
  <2> QED BY <1>0, <1>1, <2>1, <2>2, <2>3 DEF HashTypes
<1>3. OnTheWay(fed)
  <2>1. (<<>> \o <<>>) \o <<>> = <<>> /\ Len(<<>>) = 0
    OBVIOUS
  <2>2. 0 % BlockSize = 0
    BY <1>1
  <2> QED BY <1>1, <2>1, <2>2 DEF Init, OnTheWay
<1>4. totalBits = Bits(fed)
  <2>1. Len(fed) * alg.byteBits = 0
    BY <1>1 DEF Init
  <2>2. 0 % None = 0
    BY <1>1
  <2> QED BY <2>1, <2>2 DEF Init, Bits
<1> QED BY <1>2, <1>3, <1>4 DEF Init, HashInv, WhileOpen, WhileClosing, OnceClosed

\* The widths do not change with the state.
LEMMA Fixed ==
    ASSUME alg' = alg
    PROVE  /\ BlockSize' = BlockSize /\ LenSize' = LenSize /\ Radix' = Radix /\ None' = None
           /\ \A n : Marker(n)' = Marker(n)
BY DEF BlockSize, LenSize, Radix, None, Marker

LEMMA CountedIs ==
    ASSUME alg \in Algorithms, NEW s \in Seq(Nat), NEW t \in Seq(Nat), totalBits = Bits(s)
    PROVE  Counted(Len(t)) = Bits(s \o t)
<1>1. None \in Nat \ {0} /\ alg.byteBits \in Nat
  BY Widths
<1>2. Len(s) \in Nat /\ Len(t) \in Nat /\ Len(s \o t) = Len(s) + Len(t)
  BY Joins
<1>3. PICK a \in Nat, c \in Nat : a = Len(s) * alg.byteBits /\ c = Len(t) * alg.byteBits
  BY <1>1, <1>2
<1>4. (Len(s) + Len(t)) * alg.byteBits = a + c
  BY <1>1, <1>2, <1>3
<1>5. ((a % None) + c) % None = (a + c) % None
  BY <1>1, CountsOn
<1> QED BY <1>2, <1>3, <1>4, <1>5 DEF Counted, Bits

LEMMA CountedType ==
    ASSUME alg \in Algorithms, totalBits \in Nat, NEW n \in Nat
    PROVE  Counted(n) \in Nat
<1>1. None \in Nat \ {0} /\ alg.byteBits \in Nat
  BY Widths
<1>2. totalBits + n * alg.byteBits \in Nat
  BY <1>1
<1> QED BY <1>1, <1>2 DEF Counted

LEMMA UpdateHash ==
    ASSUME HashInv, Idle, NEW data \in Chunks, update(data)
    PROVE  HashInv'
<1>0. HashTypes /\ rest = <<>> /\ bitsLen = None /\ alg \in Algorithms
  BY DEF HashInv, HashTypes, Idle
<1>1. None \in Nat \ {0} /\ Bytes \subseteq Nat /\ MaxBytes \in Nat
  BY <1>0, Widths, HashAssumption
<1>2. fed \in Seq(Nat) /\ Len(fed) \in Nat /\ message \in Seq(Nat) /\ Len(message) \in Nat
  BY <1>0 DEF HashTypes
<1>3. data \in Seq(Nat) /\ Len(data) \in Nat \ {0} /\ Len(fed) + Len(data) <= MaxBytes
  <2>1. PICK n \in 1..(MaxBytes - Len(fed)) : data \in [1..n -> Bytes]
    BY DEF Chunks
  <2>2. n \in Nat \ {0} /\ Len(fed) + n <= MaxBytes
    BY <1>1, <1>2
  <2>3. data \in [1..n -> Nat]
    BY <1>1, <2>1
  <2>4. data \in Seq(Nat) /\ Len(data) = n
    BY <2>2, <2>3
  <2> QED BY <2>2, <2>4
<1>4. fed \o data \in Seq(Nat) /\ Len(fed \o data) = Len(fed) + Len(data)
  BY <1>2, <1>3, Joins
<1>5. /\ rest' = data /\ fed' = fed \o data /\ totalBits' = Counted(Len(data))
      /\ alg' = alg /\ absorbed' = absorbed /\ buf' = buf /\ finalized' = finalized
      /\ bitsLen' = bitsLen /\ message' = message /\ digests' = digests
      /\ ~(alg.guarded /\ finalized)
  BY DEF update
<1>6. BlockSize' = BlockSize /\ None' = None
  BY <1>5, Fixed
<1>7. Counted(Len(data)) \in Nat
  BY <1>0, <1>3, CountedType DEF HashTypes
<1>8. HashTypes'
  BY <1>0, <1>3, <1>4, <1>5, <1>6, <1>7 DEF HashTypes
<1>9. WhileOpen'
  <2> SUFFICES ASSUME ~finalized
               PROVE  digests = <<>> /\ totalBits' = Bits(fed)' /\ OnTheWay(fed)'
    BY <1>5 DEF WhileOpen
  <2>1. digests = <<>> /\ totalBits = Bits(fed) /\ OnTheWay(fed)
    BY <1>0 DEF HashInv, WhileOpen
  <2>2. totalBits' = Bits(fed \o data)
    BY <1>0, <1>2, <1>3, <1>5, <2>1, CountedIs
  <2>3. Bits(fed)' = Bits(fed \o data)
    BY <1>5, <1>6 DEF Bits
  <2>4. (absorbed \o buf) \o data = fed \o data
    <3>1. absorbed \in Seq(Nat) /\ buf \in Seq(Nat)
      BY <1>0 DEF HashTypes
    <3>2. absorbed \o buf \in Seq(Nat)
      BY <3>1, Joins
    <3>3. (absorbed \o buf) \o <<>> = absorbed \o buf
      BY <3>2
    <3>4. (absorbed \o buf) \o <<>> = fed
      BY <1>0, <2>1 DEF OnTheWay
    <3> QED BY <3>3, <3>4
  <2>5. OnTheWay(fed)'
    BY <1>5, <1>6, <2>1, <2>4 DEF OnTheWay
  <2> QED BY <2>1, <2>2, <2>3, <2>5
<1>10. WhileClosing'
  BY <1>0, <1>5, <1>6 DEF WhileClosing
<1>11. OnceClosed'
  <2> SUFFICES ASSUME finalized
               PROVE  /\ bitsLen = None
                      /\ Len(message) <= Len(fed')
                      /\ (Len(message) = Len(fed') => fed' = message)
                      /\ digests = <<Padded(message)', digests[2]>>
                      /\ ~alg.guarded /\ fed' # message
    BY <1>5, <1>6 DEF OnceClosed
  <2>1. /\ Len(message) <= Len(fed) /\ digests = <<Padded(message), digests[2]>>
    BY DEF HashInv, OnceClosed
  <2>2. Len(message) < Len(fed')
    BY <1>2, <1>3, <1>4, <1>5, <2>1
  <2>3. fed' # message
    BY <1>2, <2>2
  <2>4. Padded(message)' = Padded(message)
    BY <1>5, Fixed DEF Padded
  <2> QED BY <1>0, <1>2, <1>5, <2>1, <2>2, <2>3, <2>4
<1> QED BY <1>8, <1>9, <1>10, <1>11 DEF HashInv

LEMMA NextBlock ==
    ASSUME NEW b \in Nat \ {0}, NEW a \in Nat, a % b = 0
    PROVE  (a + b) % b = 0
<1>1. PICK q \in Nat : a = b * q
  OBVIOUS
<1>2. PICK p \in Nat : p = q + 1
  OBVIOUS
<1>3. PICK c \in Nat : c = p * b
  OBVIOUS
<1>4. c = b * q + b
  BY <1>2, <1>3
<1>5. a + b = c + 0
  BY <1>1, <1>4
<1>6. a + b = p * b + 0
  BY <1>3, <1>5
<1>7. PICK z : z = a + b
  OBVIOUS
<1>8. z = p * b + 0 /\ 0 \in 0..(b - 1)
  BY <1>6, <1>7
<1>9. z % b = 0
  BY <1>8, Division
<1> QED BY <1>7, <1>9

\* The padding ends a block.
LEMMA padLenIs ==
    ASSUME alg \in Algorithms, NEW b \in Nat, b < BlockSize, NEW a \in Nat, a % BlockSize = 0
    PROVE  padLen(b) \in 1..BlockSize /\ (a + b + padLen(b) + LenSize) % BlockSize = 0
<1>1. BlockSize \in Nat \ {0} /\ LenSize \in Nat \ {0} /\ LenSize < BlockSize
  BY Widths
<1>2. (a + BlockSize) % BlockSize = 0
  BY <1>1, NextBlock
<1>3. ((a + BlockSize) + BlockSize) % BlockSize = 0
  <2>1. a + BlockSize \in Nat
    BY <1>1
  <2> QED BY <1>1, <1>2, <2>1, NextBlock
<1>4. CASE b < BlockSize - LenSize
  <2>1. padLen(b) = BlockSize - LenSize - b
    BY <1>4 DEF padLen
  <2>2. padLen(b) \in 1..BlockSize
    BY <1>1, <1>4, <2>1
  <2>3. a + b + padLen(b) + LenSize = a + BlockSize
    BY <1>1, <2>1
  <2> QED BY <1>2, <2>2, <2>3
<1>5. CASE ~(b < BlockSize - LenSize)
  <2>1. padLen(b) = 2 * BlockSize - LenSize - b
    BY <1>5 DEF padLen
  <2>2. padLen(b) \in 1..BlockSize
    BY <1>1, <1>5, <2>1
  <2>3. a + b + padLen(b) + LenSize = (a + BlockSize) + BlockSize
    BY <1>1, <2>1
  <2> QED BY <1>3, <2>2, <2>3
<1> QED BY <1>4, <1>5

LEMMA PadHash ==
    ASSUME HashInv, Idle, Pad
    PROVE  HashInv'
<1> DEFINE n == padLen(Len(buf))
<1>0. HashTypes /\ rest = <<>> /\ bitsLen = None /\ alg \in Algorithms /\ ~finalized
  BY DEF HashInv, HashTypes, Idle, Pad
<1>1. None \in Nat \ {0} /\ BlockSize \in Nat \ {0} /\ alg.byteBits \in Nat /\ LenSize \in Nat
  BY <1>0, Widths
<1>2. /\ fed \in Seq(Nat) /\ absorbed \in Seq(Nat) /\ buf \in Seq(Nat)
      /\ Len(fed) \in Nat /\ Len(absorbed) \in Nat /\ Len(buf) \in Nat
  BY <1>0 DEF HashTypes
<1>3. /\ digests = <<>> /\ totalBits = Bits(fed)
      /\ (absorbed \o buf) \o <<>> = fed
      /\ Len(absorbed) % BlockSize = 0 /\ Len(buf) < BlockSize
  BY <1>0 DEF HashInv, HashTypes, WhileOpen, OnTheWay
<1>4. absorbed \o buf = fed /\ Len(fed) = Len(absorbed) + Len(buf)
  <2>1. absorbed \o buf \in Seq(Nat) /\ Len(absorbed \o buf) = Len(absorbed) + Len(buf)
    BY <1>2, Joins
  <2>2. (absorbed \o buf) \o <<>> = absorbed \o buf
    BY <2>1
  <2> QED BY <1>3, <2>1, <2>2
<1>5. n \in 1..BlockSize /\ (Len(absorbed) + Len(buf) + n + LenSize) % BlockSize = 0
  BY <1>0, <1>2, <1>3, padLenIs
<1>6. n \in Nat \ {0} /\ (Len(fed) + n + LenSize) % BlockSize = 0
  BY <1>1, <1>4, <1>5
<1>7. /\ rest' = Marker(n) /\ bitsLen' = totalBits /\ totalBits' = Counted(n) /\ message' = fed
      /\ alg' = alg /\ absorbed' = absorbed /\ buf' = buf /\ finalized' = finalized
      /\ fed' = fed /\ digests' = digests
  BY DEF Pad, Marker
<1>8. BlockSize' = BlockSize /\ LenSize' = LenSize /\ None' = None /\ \A k : Marker(k)' = Marker(k)
  BY <1>7, Fixed
<1>9. totalBits # None
  <2>1. Len(fed) * alg.byteBits \in Nat
    BY <1>1, <1>2
  <2>2. (Len(fed) * alg.byteBits) % None \in 0..(None - 1)
    BY <1>1, <2>1
  <2> QED BY <1>1, <1>3, <2>2 DEF Bits
<1>10. Marker(n) \in Seq(Nat)
  BY <1>0, <1>6, MarkerIs
<1>11. HashTypes'
  <2>1. Counted(n) \in Nat
    BY <1>0, <1>6, CountedType DEF HashTypes
  <2> QED BY <1>0, <1>7, <1>8, <1>10, <2>1 DEF HashTypes
<1>12. WhileOpen'
  BY <1>7, <1>8, <1>9 DEF WhileOpen
<1>13. WhileClosing'
  <2>1. OnTheWay(fed \o Marker(n))'
    <3>1. (fed \o Marker(n))' = fed \o Marker(n)
      <4>1. Marker(n)' = [i \in 1..n' |-> IF i = 1 THEN Radix' \div 2 ELSE 0]
        BY DEF Marker
      <4>2. n' = n
        BY <1>7, <1>8 DEF padLen
      <4> QED BY <1>7, <1>8, <4>2, Fixed DEF Marker
    <3>2. (absorbed' \o buf') \o rest' = fed \o Marker(n)
      BY <1>4, <1>7
    <3> QED BY <1>3, <1>7, <1>8, <3>1, <3>2 DEF OnTheWay
  <2>2. n' = n
    BY <1>7, <1>8 DEF padLen
  <2>3. bitsLen' = Bits(fed)'
    BY <1>3, <1>7, <1>8 DEF Bits
  <2>4. \E k \in 1..BlockSize' :
          (Len(fed') + k + LenSize') % BlockSize' = 0 /\ OnTheWay(fed \o Marker(k))'
    BY <1>5, <1>6, <1>7, <1>8, <2>1, <2>2
  <2> QED BY <1>0, <1>3, <1>7, <2>3, <2>4 DEF WhileClosing
<1>14. OnceClosed'
  BY <1>0, <1>7 DEF OnceClosed
<1> QED BY <1>11, <1>12, <1>13, <1>14 DEF HashInv

\* A round of the loop of update() does not change what is on its way.
LEMMA CopyOnTheWay ==
    ASSUME HashTypes, Copy
    PROVE  /\ absorbed' \in Seq(Nat) /\ buf' \in Seq(Nat) /\ rest' \in Seq(Nat)
           /\ Len(buf') < BlockSize
           /\ \A s : OnTheWay(s) =>
                 /\ (absorbed' \o buf') \o rest' = s
                 /\ Len(absorbed') % BlockSize = 0
<1>0. /\ alg \in Algorithms /\ absorbed \in Seq(Nat) /\ buf \in Seq(Nat) /\ rest \in Seq(Nat)
      /\ Len(buf) < BlockSize
  BY DEF HashTypes
<1>1. BlockSize \in Nat \ {0}
  BY <1>0, Widths
<1>2. Len(absorbed) \in Nat /\ Len(buf) \in Nat /\ Len(rest) \in Nat
  BY <1>0
<1>3. PICK take : take = IF Len(rest) < BlockSize - Len(buf) THEN Len(rest)
                           ELSE BlockSize - Len(buf)
  OBVIOUS
<1>4. PICK filled : filled = buf \o SubSeq(rest, 1, take)
  OBVIOUS
<1>5. PICK r : r = rest'
  OBVIOUS
<1>6. /\ r = SubSeq(rest, take + 1, Len(rest))
      /\ IF Len(filled) = BlockSize
         THEN absorbed' = absorbed \o filled /\ buf' = <<>>
         ELSE buf' = filled /\ absorbed' = absorbed
  BY <1>3, <1>4, <1>5 DEF Copy, transform
<1>7. take \in 0..Len(rest) /\ Len(buf) + take <= BlockSize
  BY <1>0, <1>1, <1>2, <1>3
<1>8. /\ SubSeq(rest, 1, take) \in Seq(Nat) /\ r \in Seq(Nat)
      /\ Len(SubSeq(rest, 1, take)) = take
  BY <1>0, <1>6, <1>7, Halves
<1>9. filled \in Seq(Nat) /\ Len(filled) = Len(buf) + take
  BY <1>0, <1>4, <1>8, Joins
<1>10. filled \o r = buf \o rest
  BY <1>0, <1>4, <1>6, <1>7, Recut
<1>11. (absorbed \o filled) \o r = absorbed \o (filled \o r)
  <2>1. absorbed \in Seq(Nat) /\ filled \in Seq(Nat) /\ r \in Seq(Nat)
    BY <1>0, <1>8, <1>9
  <2> QED BY <2>1, RegroupNat
<1>12. CASE Len(filled) = BlockSize
  <2>1. absorbed' = absorbed \o filled /\ buf' = <<>>
    BY <1>6, <1>12
  <2>2. absorbed \o filled \in Seq(Nat) /\ Len(absorbed \o filled) = Len(absorbed) + BlockSize
    BY <1>0, <1>9, <1>12, Joins
  <2>3. (absorbed \o filled) \o <<>> = absorbed \o filled
    BY <2>2
  <2>5. (absorbed \o buf) \o rest = absorbed \o (buf \o rest)
    BY <1>0, RegroupNat
  <2>6. (absorbed' \o buf') \o r = (absorbed \o buf) \o rest
    BY <1>10, <1>11, <2>1, <2>3, <2>5
  <2>7. ASSUME Len(absorbed) % BlockSize = 0 PROVE Len(absorbed') % BlockSize = 0
    BY <1>1, <1>2, <2>1, <2>2, <2>7, NextBlock
  <2>8. buf' \in Seq(Nat) /\ Len(buf') < BlockSize
    BY <1>1, <2>1
  <2> QED BY <1>5, <1>8, <2>1, <2>2, <2>6, <2>7, <2>8 DEF OnTheWay
<1>13. CASE Len(filled) # BlockSize
  <2>1. buf' = filled /\ absorbed' = absorbed
    BY <1>6, <1>13
  <2>2. Len(buf') < BlockSize
    BY <1>1, <1>2, <1>7, <1>9, <1>13, <2>1
  <2>4. (absorbed \o buf) \o rest = absorbed \o (buf \o rest)
    BY <1>0, RegroupNat
  <2>5. (absorbed' \o buf') \o r = (absorbed \o buf) \o rest
    BY <1>10, <1>11, <2>1, <2>4
  <2> QED BY <1>0, <1>5, <1>8, <1>9, <2>1, <2>2, <2>5 DEF OnTheWay
<1> QED BY <1>12, <1>13


LEMMA CopyHash ==
    ASSUME HashInv, Copy
    PROVE  HashInv'
<1>0. HashTypes /\ alg \in Algorithms /\ rest # <<>>
  BY DEF HashInv, HashTypes, Copy
<1>1. /\ absorbed' \in Seq(Nat) /\ buf' \in Seq(Nat) /\ rest' \in Seq(Nat)
      /\ Len(buf') < BlockSize
      /\ \A s : OnTheWay(s) =>
            (absorbed' \o buf') \o rest' = s /\ Len(absorbed') % BlockSize = 0
  BY <1>0, CopyOnTheWay
<1>2. /\ alg' = alg /\ totalBits' = totalBits /\ finalized' = finalized /\ bitsLen' = bitsLen
      /\ fed' = fed /\ message' = message /\ digests' = digests
  BY DEF Copy
<1>3. BlockSize' = BlockSize /\ LenSize' = LenSize /\ None' = None /\ \A n : Marker(n)' = Marker(n)
  BY <1>2, Fixed
<1>4. Bits(fed)' = Bits(fed)
  BY <1>2, <1>3 DEF Bits
<1>5. HashTypes'
  BY <1>0, <1>1, <1>2, <1>3 DEF HashTypes
<1>6. WhileOpen'
  <2> SUFFICES ASSUME bitsLen = None, ~finalized
               PROVE  digests = <<>> /\ totalBits = Bits(fed) /\ OnTheWay(fed)'
    BY <1>2, <1>3, <1>4 DEF WhileOpen
  <2>1. digests = <<>> /\ totalBits = Bits(fed) /\ OnTheWay(fed)
    BY DEF HashInv, WhileOpen
  <2>2. OnTheWay(fed)'
    BY <1>1, <1>2, <1>3, <2>1 DEF OnTheWay
  <2> QED BY <2>1, <2>2
<1>7. WhileClosing'
  <2> SUFFICES ASSUME bitsLen # None
               PROVE  /\ ~finalized /\ digests = <<>> /\ message = fed /\ bitsLen = Bits(fed)
                      /\ \E n \in 1..BlockSize :
                            /\ (Len(fed) + n + LenSize) % BlockSize = 0
                            /\ OnTheWay(fed \o Marker(n))'
    BY <1>2, <1>3, <1>4 DEF WhileClosing
  <2>1. ~finalized /\ digests = <<>> /\ message = fed /\ bitsLen = Bits(fed)
    BY DEF HashInv, WhileClosing
  <2>2. PICK n \in 1..BlockSize :
           (Len(fed) + n + LenSize) % BlockSize = 0 /\ OnTheWay(fed \o Marker(n))
    BY DEF HashInv, WhileClosing
  <2>3. (absorbed' \o buf') \o rest' = fed \o Marker(n) /\ Len(absorbed') % BlockSize = 0
    BY <1>1, <2>2
  <2>4. OnTheWay(fed \o Marker(n))'
    BY <1>2, <1>3, <2>3 DEF OnTheWay
  <2> QED BY <2>1, <2>2, <2>4
<1>8. OnceClosed'
  <2> SUFFICES ASSUME finalized
               PROVE  /\ bitsLen = None
                      /\ Len(message) <= Len(fed) /\ (Len(message) = Len(fed) => fed = message)
                      /\ digests = <<Padded(message)', digests[2]>>
                      /\ ~(alg.guarded \/ fed = message)
    BY <1>2, <1>3 DEF OnceClosed
  <2>1. Padded(message)' = Padded(message)
    BY <1>2, Fixed DEF Padded
  <2> QED BY <1>0, <2>1 DEF HashInv, OnceClosed
<1> QED BY <1>5, <1>6, <1>7, <1>8 DEF HashInv

LEMMA FinishHash ==
    ASSUME HashInv, Finish
    PROVE  HashInv'
<1>0. HashTypes /\ alg \in Algorithms /\ rest = <<>> /\ bitsLen # None
  BY DEF HashInv, HashTypes, Finish
<1>1. digests = <<>> /\ message = fed /\ bitsLen = Bits(fed) /\ ~finalized
  BY <1>0 DEF HashInv, WhileClosing
<1>2. PICK n \in 1..BlockSize :
           (Len(fed) + n + LenSize) % BlockSize = 0 /\ OnTheWay(fed \o Marker(n))
  BY <1>0 DEF HashInv, WhileClosing
<1>3. /\ absorbed' = absorbed \o (buf \o LenBlock(bitsLen)) /\ buf' = <<>>
      /\ alg' = alg /\ totalBits' = totalBits /\ finalized' = TRUE /\ bitsLen' = None
      /\ fed' = fed /\ message' = message /\ rest' = rest
      /\ digests' = <<absorbed', absorbed'>>
  BY <1>1 DEF Finish, transform, Returned
<1>4. /\ absorbed \in Seq(Nat) /\ buf \in Seq(Nat) /\ fed \in Seq(Nat) /\ bitsLen \in Nat
      /\ Len(fed) <= MaxBytes
  BY <1>0 DEF HashTypes
<1>5. BlockSize \in Nat \ {0} /\ None \in Nat
  BY <1>0, Widths
<1>6. LenBlock(bitsLen) \in Seq(Nat)
  BY <1>0, <1>4, LenBlockType
<1>7. absorbed' = (absorbed \o buf) \o LenBlock(bitsLen)
  <2>1. PICK block \in Seq(Nat), s \in Seq(Nat), t \in Seq(Nat) :
          block = LenBlock(bitsLen) /\ s = absorbed /\ t = buf
    BY <1>4, <1>6
  <2>2. (s \o t) \o block = s \o (t \o block)
    BY RegroupNat
  <2> QED BY <1>3, <2>1, <2>2
<1>8. absorbed \o buf = fed \o Marker(n)
  <2>1. (absorbed \o buf) \o <<>> = fed \o Marker(n)
    BY <1>0, <1>2 DEF OnTheWay
  <2>2. absorbed \o buf \in Seq(Nat)
    BY <1>4, Joins
  <2> QED BY <2>1, <2>2, SMTT(60)
<1>9. Padded(fed) = (fed \o Marker(n)) \o LenBlock(Bits(fed))
  BY <1>0, <1>2, <1>4, PaddedIs
<1>10. absorbed' = Padded(message)
  BY <1>1, <1>7, <1>8, <1>9
<1>11. absorbed' \in Seq(Nat)
  <2>1. absorbed \o buf \in Seq(Nat)
    BY <1>4, Joins
  <2> QED BY <1>6, <1>7, <2>1, Joins
<1>12. BlockSize' = BlockSize /\ None' = None
  BY <1>3, Fixed
<1>13. HashTypes'
  <2>1. <<>> \in Seq(Nat) /\ Len(<<>>) = 0
    OBVIOUS
  <2> QED BY <1>0, <1>3, <1>5, <1>11, <1>12, <2>1 DEF HashTypes
<1>14. OnceClosed'
  <2>1. Padded(message)' = Padded(message)
    BY <1>3, Fixed DEF Padded
  <2>2. bitsLen' = None' /\ Len(message') <= Len(fed') /\ fed' = message'
    BY <1>1, <1>3, <1>4, <1>12
  <2>3. digests' = <<Padded(message)', digests'[2]>> /\ digests'[2] = Padded(message)'
    BY <1>3, <1>10, <2>1
  <2>4. rest' = <<>> /\ absorbed' = Padded(message)'
    BY <1>0, <1>3, <1>10, <2>1
  <2> QED BY <2>2, <2>3, <2>4 DEF OnceClosed
<1>15. WhileOpen' /\ WhileClosing'
  BY <1>3, <1>12 DEF WhileOpen, WhileClosing
<1> QED BY <1>13, <1>14, <1>15 DEF HashInv

LEMMA AgainHash ==
    ASSUME HashInv, Idle, Again
    PROVE  HashInv'
<1>0. HashTypes /\ finalized /\ digests = <<Padded(message), digests[2]>>
  BY DEF HashInv, HashTypes, Again, OnceClosed
<1>1. /\ alg' = alg /\ absorbed' = absorbed /\ buf' = buf /\ totalBits' = totalBits
      /\ finalized' = finalized /\ rest' = rest /\ bitsLen' = bitsLen
      /\ fed' = fed /\ message' = message
  BY DEF Again
<1>2. digests' = <<Padded(message), absorbed>>
  <2>1. digests # <<>> /\ digests[1] = Padded(message)
    BY <1>0
  <2> QED BY <2>1 DEF Again, Returned
<1>3. BlockSize' = BlockSize /\ None' = None
  BY <1>1, Fixed
<1>4. HashTypes'
  BY <1>0, <1>1, <1>3 DEF HashTypes
<1>5. WhileOpen' /\ WhileClosing'
  BY <1>0, <1>1, <1>3 DEF WhileOpen, WhileClosing, HashInv, OnceClosed
<1>6. OnceClosed'
  <2>1. Padded(message)' = Padded(message)
    BY <1>1, Fixed DEF Padded
  <2>2. digests' = <<Padded(message)', digests'[2]>> /\ digests'[2] = absorbed
    BY <1>2, <2>1
  <2> QED BY <1>0, <1>1, <1>3, <2>1, <2>2 DEF HashInv, OnceClosed
<1> QED BY <1>4, <1>5, <1>6 DEF HashInv

LEMMA StillHash ==
    ASSUME HashInv, UNCHANGED vars
    PROVE  HashInv'
<1>1. /\ alg' = alg /\ absorbed' = absorbed /\ buf' = buf /\ totalBits' = totalBits
      /\ finalized' = finalized /\ rest' = rest /\ bitsLen' = bitsLen
      /\ fed' = fed /\ message' = message /\ digests' = digests
  BY DEF vars
<1>2. /\ BlockSize' = BlockSize /\ LenSize' = LenSize /\ None' = None
      /\ \A n : Marker(n)' = Marker(n)
  BY <1>1, Fixed
<1>3. HashTypes' /\ WhileOpen'
  BY <1>1, <1>2 DEF HashInv, HashTypes, WhileOpen, Bits, OnTheWay
<1>4. WhileClosing'
  <2> SUFFICES ASSUME bitsLen # None PROVE WhileClosing'
    BY <1>1, <1>2 DEF WhileClosing
  <2>1. PICK n \in 1..BlockSize :
           (Len(fed) + n + LenSize) % BlockSize = 0 /\ OnTheWay(fed \o Marker(n))
    BY DEF HashInv, WhileClosing
  <2>2. OnTheWay(fed \o Marker(n))'
    BY <1>1, <1>2, <2>1 DEF OnTheWay
  <2>3. Bits(fed)' = Bits(fed)
    BY <1>1, <1>2 DEF Bits
  <2> QED BY <1>1, <1>2, <2>1, <2>2, <2>3 DEF HashInv, WhileClosing
<1>5. OnceClosed'
  <2>1. Padded(message)' = Padded(message)
    BY <1>1, Fixed DEF Padded
  <2> QED BY <1>1, <1>2, <2>1 DEF HashInv, OnceClosed
<1> QED BY <1>3, <1>4, <1>5 DEF HashInv

LEMMA StepHash == HashInv /\ [Next]_vars => HashInv'
<1> SUFFICES ASSUME HashInv, [Next]_vars PROVE HashInv'
  OBVIOUS
<1>1. CASE Idle /\ \E data \in Chunks : update(data)
  BY <1>1, UpdateHash
<1>2. CASE Idle /\ Pad
  BY <1>2, PadHash
<1>3. CASE Idle /\ Again
  BY <1>3, AgainHash
<1>4. CASE Copy
  BY <1>4, CopyHash
<1>5. CASE Finish
  BY <1>5, FinishHash
<1>6. CASE UNCHANGED vars
  BY <1>6, StillHash
<1> QED BY <1>1, <1>2, <1>3, <1>4, <1>5, <1>6 DEF Next

\* The invariant of an object, by the phase of its life.
THEOREM HashInvariant == Spec => []HashInv
BY InitHash, StepHash, PTL DEF Spec

-----------------------------------------------------------------------------
(* What it implies.                                                        *)

\* However a message is cut into update() calls, for every block size and every
\* length of message, what went into H and what waits is the message, H has
\* whole blocks of it, and no full block waits.
THEOREM WholeStream == Spec => []StreamIsWhole
<1>1. HashInv => StreamIsWhole
  BY DEF HashInv, HashTypes, WhileOpen, OnTheWay, StreamIsWhole
<1> QED BY <1>1, HashInvariant, PTL

\* The first digest of every message is that of the message as RFC 1321 and
\* FIPS 180-4 pad it, though padLen and the counters compute it otherwise.
THEOREM ReferenceDigest == Spec => []DigestIsReference
<1>1. HashInv => DigestIsReference
  <2> SUFFICES ASSUME HashInv, digests # <<>> PROVE digests[1] = Padded(message)
    BY DEF DigestIsReference
  <2>1. finalized
    BY DEF HashInv, WhileOpen, WhileClosing
  <2>2. digests = <<Padded(message), digests[2]>>
    BY <2>1 DEF HashInv, OnceClosed
  <2> QED BY <2>2
<1> QED BY <1>1, HashInvariant, PTL

\* What digest() returned it returns again: MD5 whatever update() is called in
\* between, SHA-384 until it is given more bytes.
THEOREM FinalDigest == Spec => []DigestIsFinal
<1>1. HashInv => DigestIsFinal
  <2> SUFFICES ASSUME HashInv, digests # <<>>, alg.guarded \/ fed = message
               PROVE  digests[2] = digests[1]
    BY DEF DigestIsFinal
  <2>1. finalized
    BY DEF HashInv, WhileOpen, WhileClosing
  <2>2. digests = <<Padded(message), digests[2]>> /\ digests[2] = Padded(message)
    BY <2>1 DEF HashInv, OnceClosed
  <2> QED BY <2>2
<1> QED BY <1>1, HashInvariant, PTL
=============================================================================
