---------------------------- MODULE CipherProofs ----------------------------
(***************************************************************************)
(* CipherTab, for every text and key of Unicode: what is decoded is what   *)
(* was encoded, a letter stays in its alphabet, and as many decryptions as *)
(* encryptions give the text back.                                         *)
(***************************************************************************)
EXTENDS CipherTab, TLAPS, SequenceTheorems, FiniteSetTheorems, NaturalsInduction,
        WellFoundedInduction

-----------------------------------------------------------------------------
(* Induction, over a set instead of an operator.                           *)

LEMMA Least ==
    ASSUME NEW T, T \subseteq Nat, T # {}
    PROVE  \E x \in T : \A y \in T : x <= y
<1>1. \E R : IsWellFoundedOn(R, Nat) /\ \A x, y \in Nat : <<x, y>> \in R <=> x < y
  <2>1. \A x, y \in Nat : <<x, y>> \in OpToRel(<, Nat) <=> x < y
    BY Zenon DEF OpToRel
  <2> QED BY <2>1, NatLessThanWellFounded, Zenon
<1>2. PICK R : IsWellFoundedOn(R, Nat) /\ \A x, y \in Nat : <<x, y>> \in R <=> x < y
  BY <1>1
<1>3. \E x \in T : \A y \in T : ~ (<<y, x>> \in R)
  <2>1. IsWellFoundedOn(R, Nat)
    BY <1>2
  <2> QED BY <2>1, WFMin, Zenon
<1>4. PICK x \in T : \A y \in T : ~ (<<y, x>> \in R)
  BY <1>3
<1>5. \A y \in T : ~ (y < x)
  BY <1>2, <1>4
<1>6. \A y \in T : x <= y
  BY <1>5
<1> QED BY <1>6

LEMMA Induction ==
    ASSUME NEW S, 0 \in S, \A n \in Nat : n \in S => n + 1 \in S
    PROVE  \A n \in Nat : n \in S
<1> SUFFICES ASSUME NEW n \in Nat, n \notin S PROVE FALSE
  OBVIOUS
<1>1. PICK x \in Nat \ S : \A y \in Nat \ S : x <= y
  BY Least
<1>2. x # 0 /\ x - 1 \in Nat /\ x - 1 \notin Nat \ S
  BY <1>1
<1>3. (x - 1) + 1 \in S
  BY <1>2
<1> QED BY <1>1, <1>3

-----------------------------------------------------------------------------
(* One code point.                                                         *)

LEMMA MinOfTwo == \A m, n \in Nat : Min({m, n}) = IF m <= n THEN m ELSE n
<1> SUFFICES ASSUME NEW m \in Nat, NEW n \in Nat
             PROVE  Min({m, n}) = IF m <= n THEN m ELSE n
  OBVIOUS
<1>1. PICK r : r = IF m <= n THEN m ELSE n
  OBVIOUS
<1>2. r \in {m, n} /\ \A y \in {m, n} : r <= y
  BY <1>1
<1>3. \A x \in {m, n} : (\A y \in {m, n} : x <= y) => x = r
  BY <1>2
<1>4. \E x \in {m, n} : \A y \in {m, n} : x <= y
  BY <1>2
<1>5. /\ Min({m, n}) \in {m, n}
      /\ \A y \in {m, n} : Min({m, n}) <= y
  BY <1>4, Zenon DEF Min
<1> QED BY <1>1, <1>3, <1>5

\* The loop that shifts the bits of the continuation bytes in.
Shifts(f, s, i, n) ==
    f = [k \in 0..n |-> IF k = 0 THEN Lead(s[i]) ELSE f[k - 1] * 64 + (s[i + k] % 64)]

LEMMA ShiftsExist == ASSUME NEW s, NEW i, NEW n \in Nat PROVE \E f : Shifts(f, s, i, n)
<1> DEFINE S == {m \in Nat : \E f : Shifts(f, s, i, m)}
<1>1. 0 \in S
  <2>1. PICK f : f = [k \in 0..0 |-> Lead(s[i])]
    OBVIOUS
  <2>2. Shifts(f, s, i, 0)
    BY <2>1 DEF Shifts
  <2> QED BY <2>2
<1>2. ASSUME NEW m \in Nat, m \in S PROVE m + 1 \in S
  <2>1. PICK f : Shifts(f, s, i, m)
    BY <1>2
  <2>2. PICK last : last = f[m] * 64 + (s[i + (m + 1)] % 64)
    OBVIOUS
  <2>3. PICK g : g = [k \in 0..(m + 1) |-> IF k = m + 1 THEN last ELSE f[k]]
    OBVIOUS
  <2>4. ASSUME NEW k \in 0..(m + 1)
        PROVE  g[k] = IF k = 0 THEN Lead(s[i]) ELSE g[k - 1] * 64 + (s[i + k] % 64)
    <3>1. CASE k = m + 1
      <4>1. k # 0 /\ k - 1 = m /\ m \in 0..(m + 1) /\ m # m + 1
        BY <3>1
      <4>2. g[k - 1] = f[m] /\ g[k] = last
        BY <2>3, <3>1, <4>1
      <4> QED BY <2>2, <3>1, <4>1, <4>2
    <3>2. CASE k # m + 1
      <4>1. k \in 0..m /\ g[k] = f[k] /\ (k # 0 => g[k - 1] = f[k - 1])
        BY <2>3, <3>2
      <4>2. f[k] = IF k = 0 THEN Lead(s[i]) ELSE f[k - 1] * 64 + (s[i + k] % 64)
        BY <2>1, <4>1 DEF Shifts
      <4> QED BY <4>1, <4>2
    <3> QED BY <3>1, <3>2
  <2>5. g = [k \in 0..(m + 1) |-> g[k]]
    BY <2>3
  <2>6. Shifts(g, s, i, m + 1)
    BY <2>4, <2>5 DEF Shifts
  <2> QED BY <2>6
<1> HIDE DEF S
<1>3. n \in S
  BY <1>1, <1>2, Induction
<1> QED BY <1>3 DEF S

\* What is decoded at byte i: the bits of its first byte and of n more.
Decodes(s, i, n) == \E f : Shifts(f, s, i, n) /\ CodePoint(s, i) = f[n]

LEMMA CodePointIs ==
    \A s, i : \A n \in Nat : n = Min({SeqLen(s[i]) - 1, Len(s) - i}) => Decodes(s, i, n)
<1> SUFFICES ASSUME NEW s, NEW i, NEW n \in Nat, n = Min({SeqLen(s[i]) - 1, Len(s) - i})
             PROVE  Decodes(s, i, n)
  OBVIOUS
<1>1. \E f : f = [k \in 0..n |-> IF k = 0 THEN Lead(s[i]) ELSE f[k - 1] * 64 + (s[i + k] % 64)]
  <2>1. \E f : Shifts(f, s, i, n)
    BY ShiftsExist
  <2> QED BY <2>1, Zenon DEF Shifts
<1>2. Shifts(CHOOSE f : f = [k \in 0..n |-> IF k = 0 THEN Lead(s[i])
                                            ELSE f[k - 1] * 64 + (s[i + k] % 64)], s, i, n)
  BY <1>1, Zenon DEF Shifts
<1>3. CodePoint(s, i) = (CHOOSE f : f = [k \in 0..n |-> IF k = 0 THEN Lead(s[i])
                                            ELSE f[k - 1] * 64 + (s[i + k] % 64)])[n]
  BY Zenon DEF CodePoint
<1> QED BY <1>2, <1>3, Zenon DEF Decodes

\* The bytes of a code point.
LEMMA BytesOfOne ==
    ASSUME NEW cp \in Unicode
    PROVE  /\ EncodeOne(cp) \in Seq(Byte) /\ Len(EncodeOne(cp)) \in 1..4
           /\ SeqLen(EncodeOne(cp)[1]) = Len(EncodeOne(cp))
<1>1. cp \in Nat /\ cp <= 1114111
  <2>1. MaxUnicode = 1114111 /\ MaxUnicode \in Nat
    BY SMT DEF MaxUnicode
  <2>2. MaxUnicode \in Nat
    BY <2>1
  <2>3. cp \in Nat /\ cp <= MaxUnicode
    BY <2>2 DEF Unicode
  <2> QED BY SMT, <2>1, <2>3
<1>2. \A n \in Nat : Low(n) \in Byte
  BY SMT DEF Low, Byte
<1>3. CASE cp < 128
  <2>1. EncodeOne(cp) = <<cp>>
    BY SMT, <1>3 DEF EncodeOne
  <2>2. cp \in Byte /\ SeqLen(cp) = 1
    BY SMT, <1>1, <1>3 DEF Byte, SeqLen
  <2> QED BY SMT, <2>1, <2>2
<1>4. CASE 128 <= cp /\ cp < 2048
  <2>1. PICK a \in Nat : a = 192 + cp \div 64
    BY SMT, <1>1
  <2>2. a \in Byte /\ SeqLen(a) = 2
    BY SMT, <1>1, <1>4, <2>1 DEF Byte, SeqLen
  <2>3. EncodeOne(cp) = <<a, Low(cp)>>
    BY SMT, <1>1, <1>4, <2>1 DEF EncodeOne
  <2> QED BY SMT, <1>1, <1>2, <2>2, <2>3
<1>5. CASE 2048 <= cp /\ cp < 65536
  <2>1. PICK a \in Nat : a = 224 + cp \div 4096
    BY SMT, <1>1
  <2>2. a \in Byte /\ SeqLen(a) = 3
    BY SMT, <1>1, <1>5, <2>1 DEF Byte, SeqLen
  <2>3. EncodeOne(cp) = <<a, Low(cp \div 64), Low(cp)>>
    BY SMT, <1>1, <1>5, <2>1 DEF EncodeOne
  <2>4. cp \div 64 \in Nat
    BY SMT, <1>1
  <2> QED BY SMT, <1>1, <1>2, <2>2, <2>3, <2>4
<1>6. CASE 65536 <= cp
  <2>1. PICK a \in Nat : a = 240 + cp \div 262144
    BY SMT, <1>1
  <2>2. a \in Byte /\ SeqLen(a) = 4
    BY SMT, <1>1, <1>6, <2>1 DEF Byte, SeqLen
  <2>3. EncodeOne(cp) = <<a, Low(cp \div 4096), Low(cp \div 64), Low(cp)>>
    BY SMT, <1>1, <1>6, <2>1 DEF EncodeOne
  <2>4. cp \div 64 \in Nat /\ cp \div 4096 \in Nat
    BY SMT, <1>1
  <2> QED BY SMT, <1>1, <1>2, <2>2, <2>3, <2>4
<1> QED BY SMT, <1>1, <1>3, <1>4, <1>5, <1>6

\* Wherever the bytes of a code point stand, the code point is read there.
LEMMA OneDecoded ==
    ASSUME NEW cp \in Unicode, NEW s, Len(s) \in Nat, NEW i \in Nat,
           i + Len(EncodeOne(cp)) - 1 <= Len(s),
           \A k \in 1..Len(EncodeOne(cp)) : s[i + k - 1] = EncodeOne(cp)[k]
    PROVE  CodePoint(s, i) = cp
<1>1. cp \in Nat /\ cp <= 1114111
  <2>1. MaxUnicode = 1114111 /\ MaxUnicode \in Nat
    BY SMT DEF MaxUnicode
  <2>2. MaxUnicode \in Nat
    BY <2>1
  <2>3. cp \in Nat /\ cp <= MaxUnicode
    BY <2>2 DEF Unicode
  <2> QED BY SMT, <2>1, <2>3
<1>2. PICK e : e = EncodeOne(cp)
  OBVIOUS
<1>3. e \in Seq(Byte) /\ Len(e) \in 1..4 /\ SeqLen(e[1]) = Len(e)
  BY SMT, <1>2, BytesOfOne
<1>4. PICK n \in 0..3 : n = Len(e) - 1
  BY SMT, <1>3
<1>5. s[i] = e[1] /\ \A k \in 1..n : s[i + k] = e[k + 1]
  <2>1. \A k \in 1..Len(e) : s[i + k - 1] = e[k]
    BY SMT, <1>2
  <2>2. i + 1 - 1 = i /\ 1 \in 1..Len(e)
    BY SMT, <1>3
  <2>3. ASSUME NEW k \in 1..n PROVE s[i + k] = e[k + 1]
    <3>1. k + 1 \in 1..Len(e) /\ i + (k + 1) - 1 = i + k
      BY SMT, <1>3, <1>4
    <3> QED BY SMT, <2>1, <3>1
  <2> QED BY SMT, <2>1, <2>2, <2>3
<1>6. Min({SeqLen(s[i]) - 1, Len(s) - i}) = n
  <2>1. SeqLen(s[i]) - 1 = n
    BY SMT, <1>3, <1>4, <1>5
  <2>2. Len(s) - i \in Nat /\ n <= Len(s) - i
    BY SMT, <1>2, <1>3, <1>4
  <2>3. PICK m \in Nat : m = Len(s) - i
    BY <2>2
  <2>4. Min({n, m}) = IF n <= m THEN n ELSE m
    BY MinOfTwo
  <2>5. n <= m
    BY <2>2, <2>3
  <2>6. Min({n, m}) = n
    BY <2>4, <2>5
  <2> QED BY <2>1, <2>3, <2>6
<1>7. PICK f : Shifts(f, s, i, n) /\ CodePoint(s, i) = f[n]
  <2>1. n \in Nat
    OBVIOUS
  <2>2. Decodes(s, i, n)
    BY <1>6, <2>1, CodePointIs
  <2> QED BY <2>2 DEF Decodes
<1>8. f[0] = Lead(e[1]) /\ \A k \in 1..n : f[k] = f[k - 1] * 64 + (e[k + 1] % 64)
  <2>1. \A k \in 0..n : f[k] = IF k = 0 THEN Lead(s[i]) ELSE f[k - 1] * 64 + (s[i + k] % 64)
    BY SMT, <1>7 DEF Shifts
  <2>2. f[0] = Lead(e[1])
    BY SMT, <1>5, <2>1
  <2>3. ASSUME NEW k \in 1..n PROVE f[k] = f[k - 1] * 64 + (e[k + 1] % 64)
    BY SMT, <1>5, <2>1
  <2> QED BY SMT, <2>2, <2>3
<1>9. \A m \in Nat : Low(m) % 64 = m % 64
  BY SMT DEF Low
<1>10. Lead(e[1]) = CASE n = 1 -> e[1] % 32 [] n = 2 -> e[1] % 16
                      [] n = 3 -> e[1] % 8 [] OTHER -> e[1]
  BY SMT, <1>3, <1>4 DEF Lead
<1>11. CASE cp < 128
  <2>1. e = <<cp>>
    BY SMT, <1>2, <1>11 DEF EncodeOne
  <2>2. n = 0 /\ e[1] = cp
    BY SMT, <1>4, <2>1
  <2> QED BY SMT, <1>7, <1>8, <1>10, <2>2
<1>12. CASE 128 <= cp /\ cp < 2048
  <2>1. e = <<192 + cp \div 64, Low(cp)>>
    BY SMT, <1>1, <1>2, <1>12 DEF EncodeOne
  <2>2. n = 1 /\ e[1] = 192 + cp \div 64 /\ e[2] = Low(cp)
    BY SMT, <1>4, <2>1
  <2>3. f[0] = cp \div 64
    <3>1. f[0] = (192 + cp \div 64) % 32
      BY SMT, <1>8, <1>10, <2>2
    <3> QED BY SMT, <1>1, <1>12, <3>1
  <2>4. f[1] = (cp \div 64) * 64 + (cp % 64)
    <3>1. f[1] = f[0] * 64 + (Low(cp) % 64)
      BY SMT, <1>8, <2>2
    <3> QED BY SMT, <1>1, <1>9, <2>3, <3>1
  <2> QED BY SMT, <1>1, <1>7, <2>2, <2>4
<1>13. CASE 2048 <= cp /\ cp < 65536
  <2>1. e = <<224 + cp \div 4096, Low(cp \div 64), Low(cp)>>
    BY SMT, <1>1, <1>2, <1>13 DEF EncodeOne
  <2>2. n = 2 /\ e[1] = 224 + cp \div 4096 /\ e[2] = Low(cp \div 64) /\ e[3] = Low(cp)
    BY SMT, <1>4, <2>1
  <2>3. f[0] = cp \div 4096
    <3>1. f[0] = (224 + cp \div 4096) % 16
      BY SMT, <1>8, <1>10, <2>2
    <3> QED BY SMT, <1>1, <1>13, <3>1
  <2>4. f[1] = cp \div 64
    <3>1. f[1] = f[0] * 64 + (Low(cp \div 64) % 64)
      BY SMT, <1>8, <2>2
    <3>2. cp \div 64 \in Nat
      BY SMT, <1>1
    <3>3. f[1] = (cp \div 4096) * 64 + ((cp \div 64) % 64)
      BY SMT, <1>9, <2>3, <3>1, <3>2
    <3> QED BY SMT, <1>1, <3>3
  <2>5. f[2] = (cp \div 64) * 64 + (cp % 64)
    <3>1. f[2] = f[1] * 64 + (Low(cp) % 64)
      BY SMT, <1>8, <2>2
    <3> QED BY SMT, <1>1, <1>9, <2>4, <3>1
  <2> QED BY SMT, <1>1, <1>7, <2>2, <2>5
<1>14. CASE 65536 <= cp
  <2>1. e = <<240 + cp \div 262144, Low(cp \div 4096), Low(cp \div 64), Low(cp)>>
    BY SMT, <1>1, <1>2, <1>14 DEF EncodeOne
  <2>2. /\ n = 3 /\ e[1] = 240 + cp \div 262144 /\ e[2] = Low(cp \div 4096)
        /\ e[3] = Low(cp \div 64) /\ e[4] = Low(cp)
    BY SMT, <1>4, <2>1
  <2>3. f[0] = cp \div 262144
    <3>1. f[0] = (240 + cp \div 262144) % 8
      BY SMT, <1>8, <1>10, <2>2
    <3> QED BY SMT, <1>1, <1>14, <3>1
  <2>4. f[1] = cp \div 4096
    <3>1. f[1] = f[0] * 64 + (Low(cp \div 4096) % 64)
      BY SMT, <1>8, <2>2
    <3>2. cp \div 4096 \in Nat
      BY SMT, <1>1
    <3>3. f[1] = (cp \div 262144) * 64 + ((cp \div 4096) % 64)
      BY SMT, <1>9, <2>3, <3>1, <3>2
    <3> QED BY SMT, <1>1, <3>3
  <2>5. f[2] = cp \div 64
    <3>1. f[2] = f[1] * 64 + (Low(cp \div 64) % 64)
      BY SMT, <1>8, <2>2
    <3>2. cp \div 64 \in Nat
      BY SMT, <1>1
    <3>3. f[2] = (cp \div 4096) * 64 + ((cp \div 64) % 64)
      BY SMT, <1>9, <2>4, <3>1, <3>2
    <3> QED BY SMT, <1>1, <3>3
  <2>6. f[3] = (cp \div 64) * 64 + (cp % 64)
    <3>1. f[3] = f[2] * 64 + (Low(cp) % 64)
      BY SMT, <1>8, <2>2
    <3> QED BY SMT, <1>1, <1>9, <2>5, <3>1
  <2>7. cp = (cp \div 64) * 64 + (cp % 64)
    BY SMT, <1>1
  <2> QED BY SMT, <1>7, <2>2, <2>6, <2>7
<1> QED BY SMT, <1>1, <1>11, <1>12, <1>13, <1>14

-----------------------------------------------------------------------------
(* A string of code points.                                                *)

Flattens(f, seqs, n) == f = [i \in 1..n |-> IF i = 1 THEN seqs[i] ELSE f[i - 1] \o seqs[i]]

LEMMA FlattensExists == ASSUME NEW seqs, NEW n \in Nat PROVE \E f : Flattens(f, seqs, n)
<1> DEFINE S == {m \in Nat : \E f : Flattens(f, seqs, m)}
<1>1. 0 \in S
  <2>1. PICK f : f = [i \in 1..0 |-> seqs[i]]
    OBVIOUS
  <2>2. Flattens(f, seqs, 0)
    BY <2>1 DEF Flattens
  <2> QED BY <2>2
<1>2. ASSUME NEW m \in Nat, m \in S PROVE m + 1 \in S
  <2>1. PICK f : Flattens(f, seqs, m)
    BY <1>2
  <2>2. PICK g : g = [i \in 1..(m + 1) |-> IF i <= m THEN f[i]
                                           ELSE IF i = 1 THEN seqs[i] ELSE f[i - 1] \o seqs[i]]
    OBVIOUS
  <2>3. \A i \in 1..(m + 1) : g[i] = IF i = 1 THEN seqs[i] ELSE g[i - 1] \o seqs[i]
    <3> SUFFICES ASSUME NEW i \in 1..(m + 1)
                 PROVE  g[i] = IF i = 1 THEN seqs[i] ELSE g[i - 1] \o seqs[i]
      OBVIOUS
    <3>1. i # 1 => g[i - 1] = f[i - 1]
      BY <2>2
    <3>2. i <= m => g[i] = f[i] /\ f[i] = IF i = 1 THEN seqs[i] ELSE f[i - 1] \o seqs[i]
      <4> SUFFICES ASSUME i <= m
                   PROVE  g[i] = f[i] /\ f[i] = IF i = 1 THEN seqs[i] ELSE f[i - 1] \o seqs[i]
        OBVIOUS
      <4>1. i \in 1..m
        OBVIOUS
      <4>2. g[i] = f[i]
        BY <2>2
      <4>3. f[i] = IF i = 1 THEN seqs[i] ELSE f[i - 1] \o seqs[i]
        BY <2>1, <4>1 DEF Flattens
      <4> QED BY <4>2, <4>3
    <3>3. ~(i <= m) => g[i] = IF i = 1 THEN seqs[i] ELSE f[i - 1] \o seqs[i]
      BY <2>2
    <3> QED BY <3>1, <3>2, <3>3
  <2>4. g = [i \in 1..(m + 1) |-> g[i]]
    BY <2>2
  <2>5. Flattens(g, seqs, m + 1)
    BY <2>3, <2>4 DEF Flattens
  <2> QED BY <2>5
<1> HIDE DEF S
<1>3. n \in S
  BY <1>1, <1>2, Induction
<1> QED BY <1>3 DEF S

\* Part m of what FlattenSeq makes of seqs lies between ends[m - 1] and ends[m].
Parts(seqs, ends, flat, n) ==
    \A m \in 1..n :
        /\ ends[m] = ends[m - 1] + Len(seqs[m]) /\ ends[m] <= Len(flat)
        /\ \A k \in 1..Len(seqs[m]) : flat[ends[m - 1] + k] = seqs[m][k]

LEMMA PartsNext ==
    ASSUME NEW B, NEW n \in Nat, NEW seqs \in Seq(Seq(B)), n < Len(seqs),
           NEW ends, \A m \in 0..n : ends[m] \in Nat,
           NEW flat \in Seq(B), ends[n] = Len(flat), Parts(seqs, ends, flat, n),
           NEW next \in Seq(B), next = seqs[n + 1], ends[n + 1] = ends[n] + Len(next)
    PROVE  Parts(seqs, ends, flat \o next, n + 1)
<1>1. /\ Len(flat) \in Nat /\ Len(next) \in Nat /\ Len(flat \o next) = Len(flat) + Len(next)
      /\ \A k \in 1..Len(flat) : (flat \o next)[k] = flat[k]
      /\ \A k \in 1..Len(next) : (flat \o next)[Len(flat) + k] = next[k]
  <2>1. Len(flat) \in Nat /\ Len(next) \in Nat
    OBVIOUS
  <2>2. Len(flat \o next) = Len(flat) + Len(next)
    OBVIOUS
  <2>3. \A k \in 1..Len(flat) : (flat \o next)[k] = flat[k]
    BY <2>1
  <2>4. ASSUME NEW k \in 1..Len(next) PROVE (flat \o next)[Len(flat) + k] = next[k]
    BY <2>1
  <2> QED BY <2>1, <2>2, <2>3, <2>4
<1> SUFFICES ASSUME NEW m \in 1..(n + 1)
             PROVE  /\ ends[m] = ends[m - 1] + Len(seqs[m]) /\ ends[m] <= Len(flat \o next)
                    /\ \A k \in 1..Len(seqs[m]) : (flat \o next)[ends[m - 1] + k] = seqs[m][k]
  BY DEF Parts
<1>2. CASE m = n + 1
  <2>1. m - 1 = n
    BY <1>2
  <2>2. ends[m] = ends[m - 1] + Len(seqs[m]) /\ ends[m] <= Len(flat \o next)
    <3>1. ends[n + 1] = ends[n] + Len(next) /\ seqs[n + 1] = next
      OBVIOUS
    <3>2. ends[m] = ends[m - 1] + Len(seqs[m]) /\ ends[m] = ends[n] + Len(next)
      BY <1>2, <2>1, <3>1
    <3>3. ends[n] + Len(next) = Len(flat \o next)
      BY <1>1
    <3>4. PICK a \in Nat : a = Len(flat \o next) /\ a <= a
      BY <1>1
    <3> QED BY <3>2, <3>3, <3>4
  <2>3. ASSUME NEW k \in 1..Len(seqs[m]) PROVE (flat \o next)[ends[m - 1] + k] = seqs[m][k]
    BY <1>1, <1>2, <2>1
  <2> QED BY <2>2, <2>3
<1>3. CASE m # n + 1
  <2>1. /\ m \in 1..n /\ m - 1 \in 0..n /\ m \in 0..n
    BY <1>3
  <2>2. /\ ends[m] = ends[m - 1] + Len(seqs[m]) /\ ends[m] <= Len(flat)
        /\ \A k \in 1..Len(seqs[m]) : flat[ends[m - 1] + k] = seqs[m][k]
    BY <2>1 DEF Parts
  <2>3. ends[m] \in Nat /\ ends[m - 1] \in Nat
    BY <2>1
  <2>4. ends[m] <= Len(flat \o next)
    <3>1. PICK a \in Nat, b \in Nat, c \in Nat :
            a = ends[m] /\ b = Len(flat) /\ c = Len(flat \o next) /\ b <= c
      BY <1>1, <2>3
    <3> QED BY <2>2, <3>1
  <2>5. ASSUME NEW k \in 1..Len(seqs[m]) PROVE (flat \o next)[ends[m - 1] + k] = seqs[m][k]
    <3>1. seqs[m] \in Seq(B) /\ Len(seqs[m]) \in Nat
      BY <2>1
    <3>2. ends[m - 1] + k \in 1..Len(flat)
      <4>1. PICK a \in Nat, c \in Nat, l \in Nat :
              a = ends[m - 1] /\ c = Len(flat) /\ l = Len(seqs[m])
        BY <1>1, <2>3, <3>1
      <4>2. k \in 1..l /\ a + l <= c
        BY <2>2, <4>1
      <4>3. a + k \in 1..c
        BY <4>2
      <4> QED BY <4>1, <4>3
    <3> QED BY <1>1, <2>2, <3>2
  <2> QED BY <2>2, <2>4, <2>5
<1> QED BY <1>2, <1>3

\* The parts of a string, and where each one ends in it.
CutUp(seqs, flat, n) ==
    \E ends \in [0..n -> Nat] :
        ends[0] = 0 /\ ends[n] = Len(flat) /\ Parts(seqs, ends, flat, n)

LEMMA FlattenParts ==
    ASSUME NEW B, NEW seqs \in Seq(Seq(B))
    PROVE  FlattenSeq(seqs) \in Seq(B) /\ CutUp(seqs, FlattenSeq(seqs), Len(seqs))
<1>1. PICK n \in Nat : n = Len(seqs)
  OBVIOUS
<1>2. \E g : /\ g[0] = <<>> /\ g[n] = FlattenSeq(seqs)
             /\ \A i \in 0..(n - 1) : g[i + 1] = g[i] \o seqs[i + 1]
  <2>1. CASE n = 0
    <3>1. seqs = <<>>
      BY <1>1, <2>1, EmptySeq
    <3>2. FlattenSeq(seqs) = <<>>
      BY <3>1 DEF FlattenSeq
    <3>3. PICK g : g = [i \in {0} |-> <<>>]
      OBVIOUS
    <3>4. 0 - 1 \notin Nat /\ \A i \in 0..(0 - 1) : FALSE
      OBVIOUS
    <3>5. g[0] = <<>>
      BY <3>3
    <3> QED BY <2>1, <3>2, <3>4, <3>5
  <2>2. CASE n # 0
    <3>1. PICK f : Flattens(f, seqs, n) /\ FlattenSeq(seqs) = f[n]
      <4>1. \E f : f = [i \in 1..n |-> IF i = 1 THEN seqs[i] ELSE f[i - 1] \o seqs[i]]
        BY FlattensExists DEF Flattens
      <4>2. Flattens(CHOOSE f : f = [i \in 1..n |-> IF i = 1 THEN seqs[i] ELSE f[i - 1] \o seqs[i]],
                     seqs, n)
        BY <4>1, Zenon DEF Flattens
      <4>3. FlattenSeq(seqs)
            = (CHOOSE f : f = [i \in 1..n |-> IF i = 1 THEN seqs[i] ELSE f[i - 1] \o seqs[i]])[n]
        BY <1>1, <2>2, Zenon DEF FlattenSeq
      <4> QED BY <4>2, <4>3, Zenon
    <3>2. PICK g : g = [i \in 0..n |-> IF i = 0 THEN <<>> ELSE f[i]]
      OBVIOUS
    <3>3. g[0] = <<>> /\ g[n] = f[n]
      BY <2>2, <3>2
    <3>4. ASSUME NEW i \in 0..(n - 1) PROVE g[i + 1] = g[i] \o seqs[i + 1]
      <4>1. i + 1 \in 1..n /\ (i + 1) - 1 = i /\ i \in 0..n /\ i + 1 # 0
        OBVIOUS
      <4>2. g[i + 1] = f[i + 1]
        BY <3>2, <4>1
      <4>3. CASE i = 0
        <5>1. f[i + 1] = seqs[i + 1]
          BY <3>1, <4>1, <4>3 DEF Flattens
        <5>2. seqs[i + 1] \in Seq(B)
          BY <1>1, <4>1
        <5>3. <<>> \o seqs[i + 1] = seqs[i + 1]
          BY <5>2, ConcatEmptySeq
        <5>4. g[i] = <<>>
          BY <3>3, <4>3
        <5> QED BY <4>2, <5>1, <5>3, <5>4
      <4>4. CASE i # 0
        <5>1. PICK m \in 1..n : m = i + 1 /\ m # 1 /\ m - 1 = i
          BY <4>1, <4>4
        <5>2. f[m] = f[m - 1] \o seqs[m]
          BY <3>1, <5>1 DEF Flattens
        <5>3. f[i + 1] = f[i] \o seqs[i + 1]
          BY <5>1, <5>2
        <5>4. g[i] = f[i]
          BY <3>2, <4>1, <4>4
        <5> QED BY <4>2, <5>3, <5>4
      <4> QED BY <4>3, <4>4
    <3> QED BY <3>1, <3>3, <3>4
  <2> QED BY <2>1, <2>2
<1>3. PICK g : /\ g[0] = <<>> /\ g[n] = FlattenSeq(seqs)
               /\ \A i \in 0..(n - 1) : g[i + 1] = g[i] \o seqs[i + 1]
  BY <1>2
<1>4. \A i \in 0..n : g[i] \in Seq(B)
  <2> DEFINE T == {i \in Nat : i <= n => g[i] \in Seq(B)}
  <2>1. 0 \in T
    <3>1. <<>> \in Seq(B)
      OBVIOUS
    <3> QED BY <1>3, <3>1
  <2>2. ASSUME NEW i \in Nat, i \in T PROVE i + 1 \in T
    <3> SUFFICES ASSUME i + 1 <= n PROVE g[i + 1] \in Seq(B)
      OBVIOUS
    <3>1. i \in 0..(n - 1) /\ i + 1 \in 1..Len(seqs) /\ g[i] \in Seq(B)
      BY <1>1, <2>2
    <3>2. g[i + 1] = g[i] \o seqs[i + 1]
      BY <1>3, <3>1
    <3>3. seqs[i + 1] \in Seq(B)
      BY <3>1
    <3> QED BY <3>1, <3>2, <3>3
  <2> HIDE DEF T
  <2>3. \A i \in Nat : i \in T
    BY <2>1, <2>2, Induction
  <2> QED BY <2>3 DEF T
<1>5. PICK ends : ends = [i \in 0..n |-> Len(g[i])]
  OBVIOUS
<1>6. ends \in [0..n -> Nat] /\ \A i \in 0..n : ends[i] = Len(g[i]) /\ ends[i] \in Nat
  <2>1. \A i \in 0..n : Len(g[i]) \in Nat
    BY <1>4
  <2> QED BY <1>5, <2>1
<1>7. Parts(seqs, ends, g[n], n)
  <2> DEFINE T == {i \in Nat : i <= n => Parts(seqs, ends, g[i], i)}
  <2>1. 0 \in T
    BY DEF Parts
  <2>2. ASSUME NEW i \in Nat, i \in T PROVE i + 1 \in T
    <3> SUFFICES ASSUME i + 1 <= n PROVE Parts(seqs, ends, g[i + 1], i + 1)
      OBVIOUS
    <3>1. /\ i \in 0..(n - 1) /\ i \in 0..n /\ i + 1 \in 0..n /\ i + 1 \in 1..Len(seqs)
          /\ i < Len(seqs)
      BY <1>1
    <3>2. Parts(seqs, ends, g[i], i)
      BY <2>2, <3>1
    <3>3. PICK flat \in Seq(B), next \in Seq(B) : flat = g[i] /\ next = seqs[i + 1]
      BY <1>4, <3>1
    <3>4. g[i + 1] = flat \o next
      BY <1>3, <3>1, <3>3
    <3>5. ends[i] = Len(flat) /\ ends[i + 1] = Len(flat \o next)
      BY <1>6, <3>1, <3>3, <3>4
    <3>6. Len(flat \o next) = Len(flat) + Len(next)
      OBVIOUS
    <3>7. \A m \in 0..i : ends[m] \in Nat
      BY <1>6, <3>1
    <3>8. Parts(seqs, ends, flat, i)
      BY <3>2, <3>3
    <3>9. ends[i + 1] = ends[i] + Len(next)
      BY <3>5, <3>6
    <3>10. Parts(seqs, ends, flat \o next, i + 1)
      BY <3>1, <3>3, <3>5, <3>7, <3>8, <3>9, PartsNext
    <3> QED BY <3>4, <3>10
  <2> HIDE DEF T
  <2>3. n \in T
    BY <2>1, <2>2, Induction
  <2> QED BY <2>3 DEF T
<1>8. ends[0] = 0 /\ ends[n] = Len(g[n]) /\ g[n] \in Seq(B)
  <2>1. 0 \in 0..n /\ n \in 0..n
    OBVIOUS
  <2>2. Len(g[0]) = 0
    BY <1>3
  <2> QED BY <1>4, <1>6, <2>1, <2>2
<1>9. CutUp(seqs, g[n], n)
  BY <1>6, <1>7, <1>8 DEF CutUp
<1> QED BY <1>1, <1>3, <1>8, <1>9

\* The decoding that starts at each byte, the last four stand for its end.
Reads(f, s, l) ==
    f = [i \in 1..(l + 4) |-> IF i > l THEN <<>> ELSE <<CodePoint(s, i)>> \o f[i + SeqLen(s[i])]]

LEMMA SeqLenRange == \A c : SeqLen(c) \in 1..4
BY SMT DEF SeqLen

LEMMA ReadsExist == ASSUME NEW s, NEW l \in Nat PROVE \E f : Reads(f, s, l)
<1> DEFINE Step(g, i) ==
             g[i] = IF i > l THEN <<>> ELSE <<CodePoint(s, i)>> \o g[i + SeqLen(s[i])]
           T == {j \in Nat : j <= l => \E g : \A i \in ((l - j) + 1)..(l + 4) : Step(g, i)}
<1>1. 0 \in T
  <2>1. PICK g : g = [i \in 1..(l + 4) |-> <<>>]
    OBVIOUS
  <2>2. \A i \in ((l - 0) + 1)..(l + 4) : Step(g, i)
    BY <2>1
  <2> QED BY <2>2
<1>2. ASSUME NEW j \in Nat, j \in T PROVE j + 1 \in T
  <2> SUFFICES ASSUME j + 1 <= l
               PROVE  \E g : \A i \in ((l - (j + 1)) + 1)..(l + 4) : Step(g, i)
    OBVIOUS
  <2>1. PICK g : \A i \in ((l - j) + 1)..(l + 4) : Step(g, i)
    BY <1>2
  <2>2. PICK a \in 1..l : a = l - j
    OBVIOUS
  <2>3. PICK first : first = <<CodePoint(s, a)>> \o g[a + SeqLen(s[a])]
    OBVIOUS
  <2>4. PICK h : h = [i \in 1..(l + 4) |-> IF i = a THEN first ELSE g[i]]
    OBVIOUS
  <2>5. ASSUME NEW i \in a..(l + 4) PROVE Step(h, i)
    <3>1. PICK w \in 1..4 : w = SeqLen(s[i])
      BY SeqLenRange
    <3>2. i \in 1..(l + 4) /\ (i <= l => i + w \in 1..(l + 4) /\ i + w # a)
      OBVIOUS
    <3>3. i <= l => h[i + w] = g[i + w]
      BY <2>4, <3>2
    <3>4. CASE i = a
      <4>1. h[i] = first /\ ~(i > l) /\ h[i + w] = g[i + w]
        BY <2>4, <3>2, <3>3, <3>4
      <4>2. first = <<CodePoint(s, i)>> \o g[i + w]
        BY <2>3, <3>1, <3>4
      <4>3. h[i] = <<CodePoint(s, i)>> \o h[i + SeqLen(s[i])]
        BY <3>1, <4>1, <4>2
      <4> QED BY <4>1, <4>3
    <3>5. CASE i # a
      <4>1. i \in ((l - j) + 1)..(l + 4) /\ h[i] = g[i]
        BY <2>2, <2>4, <3>2, <3>5
      <4>2. g[i] = IF i > l THEN <<>> ELSE <<CodePoint(s, i)>> \o g[i + w]
        BY <2>1, <3>1, <4>1
      <4>3. h[i] = IF i > l THEN <<>> ELSE <<CodePoint(s, i)>> \o h[i + w]
        BY <3>3, <4>1, <4>2
      <4> QED BY <3>1, <4>3
    <3> QED BY <3>4, <3>5
  <2>6. (l - (j + 1)) + 1 = a
    BY <2>2
  <2> HIDE DEF Step
  <2> QED BY <2>5, <2>6
<1> HIDE DEF T, Step
<1>3. l \in T
  BY <1>1, <1>2, Induction
<1>4. (l - l) + 1 = 1
  OBVIOUS
<1>5. PICK g : \A i \in 1..(l + 4) : Step(g, i)
  BY <1>3, <1>4 DEF T
<1>6. PICK h : h = [i \in 1..(l + 4) |-> g[i]]
  OBVIOUS
<1>7. ASSUME NEW i \in 1..(l + 4)
      PROVE  h[i] = IF i > l THEN <<>> ELSE <<CodePoint(s, i)>> \o h[i + SeqLen(s[i])]
  <2>1. PICK w \in 1..4 : w = SeqLen(s[i])
    BY SeqLenRange
  <2>2. i <= l => h[i + w] = g[i + w]
    BY <1>6
  <2>3. g[i] = IF i > l THEN <<>> ELSE <<CodePoint(s, i)>> \o g[i + w]
    BY <1>5, <2>1 DEF Step
  <2>4. h[i] = g[i]
    BY <1>6
  <2> QED BY <2>1, <2>2, <2>3, <2>4
<1>8. h = [i \in 1..(l + 4) |-> h[i]]
  BY <1>6
<1>9. Reads(h, s, l)
  BY <1>7, <1>8 DEF Reads
<1> QED BY <1>9

LEMMA DecodeIs == ASSUME NEW s, Len(s) \in Nat
                  PROVE  \E f : Reads(f, s, Len(s)) /\ utf8_decode(s) = f[1]
<1>1. \E f : f = [i \in 1..(Len(s) + 4) |->
                    IF i > Len(s) THEN <<>> ELSE <<CodePoint(s, i)>> \o f[i + SeqLen(s[i])]]
  <2>1. \E f : Reads(f, s, Len(s))
    BY ReadsExist
  <2> QED BY <2>1, Zenon DEF Reads
<1>2. Reads(CHOOSE f : f = [i \in 1..(Len(s) + 4) |->
                    IF i > Len(s) THEN <<>> ELSE <<CodePoint(s, i)>> \o f[i + SeqLen(s[i])]],
            s, Len(s))
  BY <1>1, Zenon DEF Reads
<1>3. utf8_decode(s) =
        (CHOOSE f : f = [i \in 1..(Len(s) + 4) |->
                    IF i > Len(s) THEN <<>> ELSE <<CodePoint(s, i)>> \o f[i + SeqLen(s[i])]])[1]
  BY Zenon DEF utf8_decode
<1> QED BY <1>2, <1>3, Zenon

\* The code points after the n-th.
After(cps, n) == [k \in 1..(Len(cps) - n) |-> cps[n + k]]

LEMMA AfterNext ==
    ASSUME NEW S, NEW cps \in Seq(S), NEW n \in 0..(Len(cps) - 1)
    PROVE  <<cps[n + 1]>> \o After(cps, n + 1) = After(cps, n)
<1>1. PICK l \in Nat : l = Len(cps) /\ n \in 0..(l - 1)
  OBVIOUS
<1>2. PICK m \in Nat : m = l - (n + 1)
  BY <1>1
<1>3. PICK rest : rest = [k \in 1..m |-> cps[(n + 1) + k]]
  OBVIOUS
<1>4. rest \in Seq(S) /\ Len(rest) = m /\ \A k \in 1..m : rest[k] = cps[(n + 1) + k]
  <2>1. \A k \in 1..m : cps[(n + 1) + k] \in S
    BY <1>1, <1>2
  <2> QED BY <1>3, <2>1
<1>5. After(cps, n + 1) = rest
  BY <1>1, <1>2, <1>3 DEF After
<1>6. PICK c \in S : c = cps[n + 1]
  BY <1>1
<1>7. PICK t : t = <<c>> \o rest
  OBVIOUS
<1>8. t \in Seq(S) /\ Len(t) = m + 1
  BY <1>4, <1>6, <1>7
<1>9. t[1] = c /\ \A k \in 1..m : t[k + 1] = rest[k]
  BY <1>4, <1>6, <1>7
<1>10. ASSUME NEW k \in 1..(m + 1) PROVE t[k] = cps[n + k]
  <2>1. CASE k = 1
    BY <1>6, <1>9, <2>1
  <2>2. CASE k # 1
    <3>1. PICK j \in 1..m : k = j + 1
      BY <2>2
    <3>2. (n + 1) + j = n + k
      BY <3>1
    <3>3. t[j + 1] = rest[j] /\ rest[j] = cps[(n + 1) + j]
      BY <1>4, <1>9, <3>1
    <3> QED BY <3>1, <3>2, <3>3
  <2> QED BY <2>1, <2>2
<1>11. t = [k \in 1..(m + 1) |-> t[k]]
  BY <1>8
<1>12. l - n = m + 1
  BY <1>1, <1>2
<1>13. t = After(cps, n)
  BY <1>1, <1>10, <1>11, <1>12 DEF After
<1> QED BY <1>5, <1>6, <1>7, <1>13

\* What was encoded is what is decoded.
LEMMA DecodeEncode ==
    ASSUME NEW cps \in Seq(Unicode)
    PROVE  utf8_decode(utf8_encode(cps)) = cps
<1>1. PICK l \in Nat : l = Len(cps)
  OBVIOUS
<1>2. PICK seqs : seqs = [i \in 1..l |-> EncodeOne(cps[i])]
  OBVIOUS
<1>3. \A i \in 1..l : cps[i] \in Unicode
  BY <1>1
<1>4. \A i \in 1..l : /\ seqs[i] = EncodeOne(cps[i]) /\ seqs[i] \in Seq(Byte)
                      /\ Len(seqs[i]) \in 1..4 /\ SeqLen(seqs[i][1]) = Len(seqs[i])
  BY <1>2, <1>3, BytesOfOne
<1>5. seqs \in Seq(Seq(Byte)) /\ Len(seqs) = l
  BY <1>2, <1>4
<1>6. PICK s : s = utf8_encode(cps)
  OBVIOUS
<1>7. s = FlattenSeq(seqs)
  BY <1>1, <1>2, <1>6 DEF utf8_encode
<1>8. s \in Seq(Byte) /\ CutUp(seqs, s, l)
  BY <1>5, <1>7, FlattenParts
<1>9. PICK ends \in [0..l -> Nat] :
        ends[0] = 0 /\ ends[l] = Len(s) /\ Parts(seqs, ends, s, l)
  BY <1>8 DEF CutUp
<1>10. Len(s) \in Nat
  BY <1>8
<1>11. PICK f : Reads(f, s, Len(s)) /\ utf8_decode(s) = f[1]
  BY <1>10, DecodeIs
<1> DEFINE T == {j \in Nat : j <= l => f[ends[l - j] + 1] = After(cps, l - j)}
<1>12. 0 \in T
  <2>1. Len(s) + 1 \in 1..(Len(s) + 4) /\ Len(s) + 1 > Len(s)
    BY <1>10
  <2>2. f[Len(s) + 1] = <<>>
    BY <1>11, <2>1 DEF Reads
  <2>3. After(cps, l) = <<>>
    BY <1>1 DEF After
  <2>4. l - 0 = l
    OBVIOUS
  <2> QED BY <1>9, <2>2, <2>3, <2>4
<1>13. ASSUME NEW j \in Nat, j \in T PROVE j + 1 \in T
  <2> SUFFICES ASSUME j + 1 <= l
               PROVE  f[ends[l - (j + 1)] + 1] = After(cps, l - (j + 1))
    OBVIOUS
  <2>1. PICK n \in 0..(l - 1) : n = l - (j + 1) /\ l - j = n + 1
    OBVIOUS
  <2>2. f[ends[n + 1] + 1] = After(cps, n + 1)
    BY <1>13, <2>1
  <2>3. n + 1 \in 1..l /\ (n + 1) - 1 = n /\ n \in 0..l /\ n + 1 \in 0..l
    OBVIOUS
  <2>4. PICK e, c : e = seqs[n + 1] /\ c = cps[n + 1]
    OBVIOUS
  <2>5. /\ c \in Unicode /\ e = EncodeOne(c) /\ e \in Seq(Byte)
        /\ Len(e) \in 1..4 /\ SeqLen(e[1]) = Len(e)
    BY <1>3, <1>4, <2>3, <2>4
  <2>6. PICK a \in Nat, b \in Nat, z \in Nat, w \in 1..4 :
          a = ends[n] /\ b = ends[n + 1] /\ z = Len(s) /\ w = Len(e)
    BY <1>9, <1>10, <2>3, <2>5
  <2>7. b = a + w /\ b <= z /\ \A k \in 1..w : s[a + k] = e[k]
    BY <1>9, <2>3, <2>4, <2>6 DEF Parts
  <2>8. CodePoint(s, a + 1) = c
    <3>1. \A k \in 1..w : s[(a + 1) + k - 1] = e[k]
      <4> SUFFICES ASSUME NEW k \in 1..w PROVE s[(a + 1) + k - 1] = e[k]
        OBVIOUS
      <4>1. (a + 1) + k - 1 = a + k
        OBVIOUS
      <4> QED BY <2>7, <4>1
    <3>2. (a + 1) + w - 1 <= z
      BY <2>7
    <3>3. PICK x \in Nat : x = a + 1
      OBVIOUS
    <3>4. Len(EncodeOne(c)) = w /\ Len(s) = z
      BY <2>5, <2>6
    <3>5. x + Len(EncodeOne(c)) - 1 <= Len(s)
      BY <3>2, <3>3, <3>4
    <3>6. \A k \in 1..Len(EncodeOne(c)) : s[x + k - 1] = EncodeOne(c)[k]
      BY <2>5, <3>1, <3>3, <3>4
    <3>7. CodePoint(s, x) = c
      BY <1>10, <2>5, <3>5, <3>6, OneDecoded
    <3> QED BY <3>3, <3>7
  <2>9. SeqLen(s[a + 1]) = w
    <3>1. 1 \in 1..w
      OBVIOUS
    <3> QED BY <2>5, <2>6, <2>7, <3>1
  <2>10. f[a + 1] = <<c>> \o f[b + 1]
    <3>1. a + 1 \in 1..(z + 4) /\ ~(a + 1 > z) /\ (a + 1) + w = b + 1
      BY <2>7
    <3>2. f[a + 1] = <<CodePoint(s, a + 1)>> \o f[(a + 1) + SeqLen(s[a + 1])]
      BY <1>11, <2>6, <3>1 DEF Reads
    <3> QED BY <2>8, <2>9, <3>1, <3>2
  <2>11. f[a + 1] = After(cps, n)
    <3>1. <<cps[n + 1]>> \o After(cps, n + 1) = After(cps, n)
      BY <1>1, AfterNext
    <3> QED BY <2>2, <2>4, <2>6, <2>10, <3>1
  <2> QED BY <2>1, <2>6, <2>11
<1> HIDE DEF T
<1>14. l \in T
  BY <1>12, <1>13, Induction
<1>15. f[ends[l - l] + 1] = After(cps, l - l)
  BY <1>14 DEF T
<1>16. l - l = 0 /\ ends[0] + 1 = 1
  BY <1>9
<1>17. f[1] = After(cps, 0)
  BY <1>15, <1>16
<1>18. After(cps, 0) = cps
  <2>1. l - 0 = l /\ \A k \in 1..l : cps[0 + k] = cps[k]
    OBVIOUS
  <2>2. cps = [k \in 1..l |-> cps[k]]
    BY <1>1
  <2> QED BY <1>1, <2>1, <2>2 DEF After
<1> QED BY <1>6, <1>11, <1>17, <1>18

-----------------------------------------------------------------------------
(* The key.                                                                *)

Letters(f, key, n) ==
    f = [m \in 0..n |-> IF m = 0 THEN <<>>
                        ELSE IF Letter(key[m]) THEN Append(f[m - 1], key[m]) ELSE f[m - 1]]

LEMMA LettersExist == ASSUME NEW key, NEW n \in Nat PROVE \E f : Letters(f, key, n)
<1> DEFINE S == {m \in Nat : \E f : Letters(f, key, m)}
<1>1. 0 \in S
  <2>1. PICK f : f = [m \in 0..0 |-> <<>>]
    OBVIOUS
  <2>2. Letters(f, key, 0)
    BY <2>1 DEF Letters
  <2> QED BY <2>2
<1>2. ASSUME NEW m \in Nat, m \in S PROVE m + 1 \in S
  <2>1. PICK f : Letters(f, key, m)
    BY <1>2
  <2>2. PICK last : last = IF Letter(key[m + 1]) THEN Append(f[m], key[m + 1]) ELSE f[m]
    OBVIOUS
  <2>3. PICK g : g = [k \in 0..(m + 1) |-> IF k = m + 1 THEN last ELSE f[k]]
    OBVIOUS
  <2>4. ASSUME NEW k \in 0..(m + 1)
        PROVE  g[k] = IF k = 0 THEN <<>>
                      ELSE IF Letter(key[k]) THEN Append(g[k - 1], key[k]) ELSE g[k - 1]
    <3>1. CASE k = m + 1
      <4>1. k # 0 /\ k - 1 = m /\ m \in 0..(m + 1) /\ m # m + 1
        BY <3>1
      <4>2. g[k - 1] = f[m] /\ g[k] = last
        BY <2>3, <3>1, <4>1
      <4> QED BY <2>2, <3>1, <4>1, <4>2
    <3>2. CASE k # m + 1
      <4>1. k \in 0..m /\ g[k] = f[k] /\ (k # 0 => g[k - 1] = f[k - 1])
        BY <2>3, <3>2
      <4>2. f[k] = IF k = 0 THEN <<>>
                   ELSE IF Letter(key[k]) THEN Append(f[k - 1], key[k]) ELSE f[k - 1]
        BY <2>1, <4>1 DEF Letters
      <4> QED BY <4>1, <4>2
    <3> QED BY <3>1, <3>2
  <2>5. g = [k \in 0..(m + 1) |-> g[k]]
    BY <2>3
  <2>6. Letters(g, key, m + 1)
    BY <2>4, <2>5 DEF Letters
  <2> QED BY <2>6
<1> HIDE DEF S
<1>3. n \in S
  BY <1>1, <1>2, Induction
<1> QED BY <1>3 DEF S

LEMMA KeyLetters == ASSUME NEW S, NEW key \in Seq(S) PROVE keyLetters(key) \in Seq(S)
<1>1. PICK n \in Nat : n = Len(key)
  OBVIOUS
<1>2. PICK f : Letters(f, key, n) /\ keyLetters(key) = f[n]
  <2>1. \E f : f = [m \in 0..n |-> IF m = 0 THEN <<>>
                        ELSE IF Letter(key[m]) THEN Append(f[m - 1], key[m]) ELSE f[m - 1]]
    BY LettersExist, ZenonT(60) DEF Letters
  <2>2. Letters(CHOOSE f : f = [m \in 0..n |-> IF m = 0 THEN <<>>
                        ELSE IF Letter(key[m]) THEN Append(f[m - 1], key[m]) ELSE f[m - 1]],
                key, n)
    BY <2>1, Zenon DEF Letters
  <2>3. keyLetters(key) =
          (CHOOSE f : f = [m \in 0..n |-> IF m = 0 THEN <<>>
                        ELSE IF Letter(key[m]) THEN Append(f[m - 1], key[m]) ELSE f[m - 1]])[n]
    BY <1>1, Zenon DEF keyLetters
  <2> QED BY <2>2, <2>3, Zenon
<1> DEFINE T == {m \in Nat : m <= n => f[m] \in Seq(S)}
<1>3. 0 \in T
  <2>1. f[0] = <<>>
    BY <1>2 DEF Letters
  <2>2. <<>> \in Seq(S)
    OBVIOUS
  <2> QED BY <2>1, <2>2
<1>4. ASSUME NEW m \in Nat, m \in T PROVE m + 1 \in T
  <2> SUFFICES ASSUME m + 1 <= n PROVE f[m + 1] \in Seq(S)
    OBVIOUS
  <2>1. PICK k \in 1..n : k = m + 1 /\ k # 0 /\ k - 1 = m
    OBVIOUS
  <2>2. f[k] = IF Letter(key[k]) THEN Append(f[k - 1], key[k]) ELSE f[k - 1]
    <3>1. k \in 0..n
      BY <2>1
    <3>2. f[k] = IF k = 0 THEN <<>>
                 ELSE IF Letter(key[k]) THEN Append(f[k - 1], key[k]) ELSE f[k - 1]
      BY <1>2, <3>1 DEF Letters
    <3> QED BY <2>1, <3>2
  <2>3. key[k] \in S /\ f[m] \in Seq(S)
    BY <1>1, <1>4, <2>1
  <2>4. Append(f[m], key[k]) \in Seq(S)
    BY <2>3
  <2> QED BY <2>1, <2>2, <2>3, <2>4
<1> HIDE DEF T
<1>5. n \in T
  BY <1>3, <1>4, Induction
<1> QED BY <1>2, <1>5 DEF T

-----------------------------------------------------------------------------
(* One letter.                                                             *)

Yo == {UpperYo, LowerYo}

\* The place of a letter in its alphabet.
Place(cp) == Diff(cp, classify(cp).base, classify(cp).size)

LEMMA Alphabets ==
    ASSUME NEW cp \in Unicode, Letter(cp)
    PROVE  /\ <<classify(cp).base, classify(cp).size>>
                \in {<<65, 26>>, <<97, 26>>, <<1040, 32>>, <<1072, 32>>}
           /\ cp \notin Yo => cp \in classify(cp).base..(classify(cp).base + classify(cp).size - 1)
BY SMT DEF Letter, classify, Yo

LEMMA DiffRange ==
    ASSUME NEW a \in Int, NEW b \in Int, NEW size \in {26, 32}
    PROVE  Diff(a, b, size) \in 0..(size - 1) /\ (a >= b => Diff(a, b, size) = (a - b) % size)
<1>1. Wrap(26) = 22 /\ Wrap(32) = 0
  BY SMT DEF Wrap
<1>2. CASE size = 26
  BY SMT, <1>1, <1>2 DEF Diff
<1>3. CASE size = 32
  BY SMT, <1>1, <1>3 DEF Diff
<1> QED BY <1>2, <1>3

\* The letters of an alphabet, by their places.
LEMMA LetterAt ==
    ASSUME NEW cp \in Unicode, Letter(cp), NEW m \in 0..(classify(cp).size - 1)
    PROVE  LET r == classify(cp).base + m
           IN  /\ r \in Unicode /\ classify(r) = classify(cp) /\ Letter(r)
               /\ Place(r) = m /\ r \notin Yo
<1>1. PICK b, z : b = classify(cp).base /\ z = classify(cp).size
  OBVIOUS
<1>2. <<b, z>> \in {<<65, 26>>, <<97, 26>>, <<1040, 32>>, <<1072, 32>>}
  BY <1>1, Alphabets
<1>3. b \in Int /\ z \in {26, 32} /\ m \in 0..(z - 1)
  BY <1>1, <1>2
<1>4. PICK r \in Int : r = b + m
  BY <1>3
<1>5. classify(cp) = [base |-> b, size |-> z]
  BY SMT, <1>1 DEF classify
<1>6. r \in Unicode
  <2>1. MaxUnicode \in Nat /\ 5000 <= MaxUnicode
    BY SMT DEF MaxUnicode
  <2> QED BY <1>2, <1>3, <1>4, <2>1 DEF Unicode
<1>7. classify(r) = [base |-> b, size |-> z] /\ r \notin Yo
  BY SMT, <1>2, <1>3, <1>4 DEF classify, Yo, UpperYo, LowerYo
<1>8. Letter(r)
  BY <1>3, <1>7 DEF Letter
<1>9. Place(r) = m
  <2>1. Place(r) = Diff(r, b, z)
    <3>1. classify(r).base = b /\ classify(r).size = z
      BY <1>7
    <3> QED BY <3>1 DEF Place
  <2>2. Diff(r, b, z) = (r - b) % z
    <3>1. r >= b => Diff(r, b, z) = (r - b) % z
      BY <1>3, DiffRange
    <3>2. r >= b
      BY <1>3, <1>4
    <3> QED BY <3>1, <3>2
  <2>3. (r - b) % z = m
    BY <1>3, <1>4
  <2> QED BY <2>1, <2>2, <2>3
<1> QED BY <1>1, <1>4, <1>5, <1>6, <1>7, <1>8, <1>9

\* A letter other than Yo is what its alphabet has at its place.
LEMMA PlaceOfLetter ==
    ASSUME NEW cp \in Unicode, Letter(cp)
    PROVE  /\ Place(cp) \in 0..(classify(cp).size - 1)
           /\ cp \notin Yo => cp = classify(cp).base + Place(cp)
<1>1. PICK b, z : b = classify(cp).base /\ z = classify(cp).size
  OBVIOUS
<1>2. /\ <<b, z>> \in {<<65, 26>>, <<97, 26>>, <<1040, 32>>, <<1072, 32>>}
      /\ cp \notin Yo => cp \in b..(b + z - 1)
  BY <1>1, Alphabets
<1>3. b \in Int /\ z \in {26, 32}
  BY <1>2
<1>4. cp \in Int
  <2>1. MaxUnicode \in Nat
    BY SMT DEF MaxUnicode
  <2> QED BY <2>1 DEF Unicode
<1>5. Place(cp) = Diff(cp, b, z)
  BY <1>1 DEF Place
<1>6. Diff(cp, b, z) \in 0..(z - 1) /\ (cp >= b => Diff(cp, b, z) = (cp - b) % z)
  BY <1>3, <1>4, DiffRange
<1>7. ASSUME cp \notin Yo PROVE cp = b + Place(cp)
  <2>1. cp >= b /\ cp - b \in 0..(z - 1)
    BY <1>2, <1>3, <1>4, <1>7
  <2>2. (cp - b) % z = cp - b
    BY <1>3, <2>1
  <2> QED BY <1>3, <1>4, <1>5, <1>6, <2>1, <2>2
<1> QED BY <1>1, <1>5, <1>6, <1>7

LEMMA Substituted ==
    ASSUME NEW cp \in Unicode, Letter(cp), NEW kcp \in Unicode, NEW enc \in BOOLEAN
    PROVE  LET r == Substitute(cp, kcp, enc)
               z == classify(cp).size
               shift == Shift(kcp, z)
           IN  /\ r \in Unicode /\ classify(r) = classify(cp) /\ r \notin Yo
               /\ shift \in Nat /\ shift <= z
               /\ Place(r) = IF enc THEN (Place(cp) + shift) % z
                                    ELSE (Place(cp) + z - shift) % z
<1>1. PICK b, z : b = classify(cp).base /\ z = classify(cp).size
  OBVIOUS
<1>2. b \in Int /\ z \in {26, 32}
  <2>1. <<b, z>> \in {<<65, 26>>, <<97, 26>>, <<1040, 32>>, <<1072, 32>>}
    BY <1>1, Alphabets
  <2> QED BY <2>1
<1>3. PICK shift \in 0..(z - 1) : shift = Shift(kcp, z)
  <2>1. kcp \in Int /\ classify(kcp).base \in Int
    <3>1. MaxUnicode \in Nat
      BY SMT DEF MaxUnicode
    <3>2. kcp \in Int
      BY <3>1 DEF Unicode
    <3> QED BY SMT, <3>2 DEF classify
  <2>2. Diff(kcp, classify(kcp).base, z) \in 0..(z - 1)
    BY <1>2, <2>1, DiffRange
  <2> QED BY <2>2 DEF Shift
<1>4. PICK p \in 0..(z - 1) : p = Place(cp)
  BY <1>1, PlaceOfLetter
<1>5. PICK m \in 0..(z - 1) : m = IF enc THEN (p + shift) % z ELSE (p + z - shift) % z
  BY <1>2, <1>3, <1>4
<1>6. Substitute(cp, kcp, enc) = b + m
  <2>1. p = Diff(cp, b, z)
    BY <1>1, <1>4 DEF Place
  <2> QED BY <1>1, <1>3, <1>5, <2>1 DEF Substitute
<1>7. PICK r : r = Substitute(cp, kcp, enc)
  OBVIOUS
<1>8. r = classify(cp).base + m /\ m \in 0..(classify(cp).size - 1)
  BY <1>1, <1>6, <1>7
<1>9. r \in Unicode /\ classify(r) = classify(cp) /\ Place(r) = m /\ r \notin Yo
  BY <1>8, LetterAt
<1>10. shift \in Nat /\ shift <= z
  BY <1>2
<1> QED BY <1>1, <1>3, <1>4, <1>5, <1>7, <1>9, <1>10

-----------------------------------------------------------------------------
(* The whole text.                                                         *)

\* How far the key moves the i-th code point of plain at each encryption.
Move(i) ==
    LET kletters == keyLetters(vKey)
    IN  IF kletters = <<>> THEN 0
        ELSE Shift(kletters[(LettersBefore(plain, i) % Len(kletters)) + 1], classify(plain[i]).size)

\* t is plain with every letter moved d times, in its own alphabet.
Moved(t, d, i) ==
    /\ classify(t[i]) = classify(plain[i])
    /\ Place(t[i]) = (Place(plain[i]) + d * Move(i)) % classify(plain[i]).size
    /\ plain[i] \notin Yo => t[i] \notin Yo

Image(t, d) ==
    /\ t \in Seq(Unicode) /\ Len(t) = Len(plain)
    /\ \A i \in 1..Len(plain) : IF Letter(plain[i]) THEN Moved(t, d, i) ELSE t[i] = plain[i]

CipherTypes ==
    /\ plain \in Texts /\ vKey \in Keys
    /\ inDepth \in Int /\ outDepth \in Int

CipherInv == CipherTypes /\ Image(vIn, inDepth) /\ Image(vOut, outDepth)

LEMMA Typed == ASSUME CipherTypes PROVE plain \in Seq(Unicode) /\ vKey \in Seq(Unicode)
BY CipherAssumption DEF CipherTypes

\* The letters of an image stand where those of the text stand, so that every
\* letter meets the same letter of the key again.
LEMMA SameLettersBefore ==
    ASSUME CipherTypes, NEW t, NEW d, Image(t, d), NEW i \in 1..Len(plain)
    PROVE  /\ Letter(t[i]) <=> Letter(plain[i])
           /\ LettersBefore(t, i) = LettersBefore(plain, i)
           /\ LettersBefore(plain, i) \in Nat
<1>1. PICK l \in Nat : l = Len(plain)
  BY Typed
<1>2. ASSUME NEW j \in 1..l PROVE Letter(t[j]) <=> Letter(plain[j])
  <2>1. IF Letter(plain[j]) THEN Moved(t, d, j) ELSE t[j] = plain[j]
    BY <1>1, <1>2 DEF Image
  <2> QED BY <2>1 DEF Moved, Letter
<1>3. PICK U : U = {j \in 1..(i - 1) : Letter(plain[j])}
  OBVIOUS
<1>4. {j \in 1..(i - 1) : Letter(t[j])} = U
  <2>1. \A j \in 1..(i - 1) : Letter(t[j]) <=> Letter(plain[j])
    BY <1>1, <1>2
  <2> QED BY <1>3, <2>1
<1>5. LettersBefore(t, i) = Cardinality(U) /\ LettersBefore(plain, i) = Cardinality(U)
  BY <1>3, <1>4 DEF LettersBefore
<1>6. Cardinality(U) \in Nat
  <2>1. IsFiniteSet(1..(i - 1))
    BY <1>1, FS_Interval
  <2>2. IsFiniteSet(U)
    BY <1>3, <2>1, FS_Subset
  <2> QED BY <2>2, FS_CardinalityType
<1> QED BY <1>1, <1>2, <1>5, <1>6

\* Moving by p and then by one move more, or one less.
LEMMA MoveOnce ==
    ASSUME NEW z \in {26, 32}, NEW p \in Int, NEW d \in Int, NEW m \in Nat, m <= z
    PROVE  /\ (((p + d * m) % z) + m) % z = (p + (d + 1) * m) % z
           /\ (((p + d * m) % z) + z - m) % z = (p + (d - 1) * m) % z
<1>1. PICK x \in Int : x = d * m
  OBVIOUS
<1>2. (d + 1) * m = x + m /\ (d - 1) * m = x - m
  BY <1>1
<1>3. CASE z = 26
  <2>1. (((p + x) % 26) + m) % 26 = (p + (x + m)) % 26
    OBVIOUS
  <2>2. (((p + x) % 26) + 26 - m) % 26 = (p + (x - m)) % 26
    OBVIOUS
  <2> QED BY <1>1, <1>2, <1>3, <2>1, <2>2
<1>4. CASE z = 32
  <2>1. (((p + x) % 32) + m) % 32 = (p + (x + m)) % 32
    OBVIOUS
  <2>2. (((p + x) % 32) + 32 - m) % 32 = (p + (x - m)) % 32
    OBVIOUS
  <2> QED BY <1>1, <1>2, <1>4, <2>1, <2>2
<1> QED BY <1>3, <1>4

LEMMA Transformed ==
    ASSUME CipherTypes, NEW t, NEW d \in Int, Image(t, d), NEW enc \in BOOLEAN,
           keyLetters(vKey) # <<>>
    PROVE  Image(transform(t, keyLetters(vKey), enc), IF enc THEN d + 1 ELSE d - 1)
<1>1. PICK l \in Nat : l = Len(plain)
  BY Typed
<1>2. t \in Seq(Unicode) /\ Len(t) = l
  BY <1>1 DEF Image
<1>3. PICK ks \in Seq(Unicode) : ks = keyLetters(vKey)
  BY Typed, KeyLetters
<1>4. PICK n \in Nat : n = Len(ks) /\ n # 0
  <2>1. Len(ks) \in Nat /\ (Len(ks) = 0 => ks = <<>>)
    BY EmptySeq
  <2> QED BY <1>3, <2>1
<1>5. PICK u : u = transform(t, ks, enc)
  OBVIOUS
<1>6. PICK e \in Int : e = IF enc THEN d + 1 ELSE d - 1
  OBVIOUS
<1>7. u = [i \in 1..l |->
             IF Letter(t[i]) THEN Substitute(t[i], ks[(LettersBefore(t, i) % n) + 1], enc)
             ELSE t[i]]
  BY <1>2, <1>4, <1>5 DEF transform
<1>8. ASSUME NEW i \in 1..l
      PROVE  /\ u[i] \in Unicode
             /\ IF Letter(plain[i]) THEN Moved(u, e, i) ELSE u[i] = plain[i]
  <2>1. t[i] \in Unicode /\ plain[i] \in Unicode
    BY <1>1, <1>2, Typed
  <2>2. /\ Letter(t[i]) <=> Letter(plain[i])
        /\ LettersBefore(t, i) = LettersBefore(plain, i)
        /\ LettersBefore(plain, i) \in Nat
    BY <1>1, SameLettersBefore
  <2>3. IF Letter(plain[i]) THEN Moved(t, d, i) ELSE t[i] = plain[i]
    BY <1>1 DEF Image
  <2>4. CASE ~Letter(plain[i])
    <3>1. u[i] = t[i]
      BY <1>7, <2>2, <2>4
    <3> QED BY <2>1, <2>3, <2>4, <3>1
  <2>5. CASE Letter(plain[i])
    <3>1. PICK k \in Nat : k = (LettersBefore(plain, i) % n) + 1
      BY <1>4, <2>2
    <3>2. k \in 1..n
      <4>1. PICK c \in Nat : c = LettersBefore(plain, i)
        BY <2>2
      <4>2. c % n \in 0..(n - 1)
        BY <1>4
      <4> QED BY <3>1, <4>1, <4>2
    <3>3. PICK kcp \in Unicode : kcp = ks[k]
      BY <1>4, <3>2
    <3>4. u[i] = Substitute(t[i], kcp, enc)
      BY <1>7, <2>2, <2>5, <3>1, <3>3
    <3>5. Moved(t, d, i)
      BY <2>3, <2>5
    <3>6. PICK z : z = classify(plain[i]).size
      OBVIOUS
    <3>7. z \in {26, 32}
      <4>1. PICK b : b = classify(plain[i]).base
        OBVIOUS
      <4>2. <<b, z>> \in {<<65, 26>>, <<97, 26>>, <<1040, 32>>, <<1072, 32>>}
        BY <2>1, <2>5, <3>6, <4>1, Alphabets
      <4> QED BY <4>2
    <3>8. Move(i) = Shift(kcp, z)
      BY <1>3, <1>4, <3>1, <3>3, <3>6 DEF Move
    <3>9. classify(t[i]) = classify(plain[i])
      BY <3>5 DEF Moved
    <3>10. PICK p \in Int : p = Place(plain[i])
      <4>1. Place(plain[i]) \in 0..(z - 1)
        BY <2>1, <2>5, <3>6, PlaceOfLetter
      <4> QED BY <3>7, <4>1
    <3>11. PICK m : m = Move(i)
      OBVIOUS
    <3>12. Place(t[i]) = (p + d * m) % z
      BY <3>5, <3>6, <3>10, <3>11 DEF Moved
    <3>13. /\ u[i] \in Unicode /\ classify(u[i]) = classify(t[i]) /\ u[i] \notin Yo
           /\ m \in Nat /\ m <= z
           /\ Place(u[i]) = IF enc THEN (Place(t[i]) + m) % z ELSE (Place(t[i]) + z - m) % z
      <4>1. classify(t[i]).size = z /\ Letter(t[i])
        BY <2>2, <2>5, <3>6, <3>9
      <4> DEFINE r == Substitute(t[i], kcp, enc)
      <4>2. /\ r \in Unicode /\ classify(r) = classify(t[i]) /\ r \notin Yo
            /\ Shift(kcp, z) \in Nat /\ Shift(kcp, z) <= z
            /\ Place(r) = IF enc THEN (Place(t[i]) + Shift(kcp, z)) % z
                                 ELSE (Place(t[i]) + z - Shift(kcp, z)) % z
        BY <2>1, <4>1, Substituted
      <4> HIDE DEF r
      <4>3. r = u[i]
        BY <3>4 DEF r
      <4> QED BY <3>8, <3>11, <4>2, <4>3
    <3>14. Place(u[i]) = (p + e * m) % z
      <4>1. /\ (((p + d * m) % z) + m) % z = (p + (d + 1) * m) % z
            /\ (((p + d * m) % z) + z - m) % z = (p + (d - 1) * m) % z
        BY <3>7, <3>13, MoveOnce
      <4>2. CASE enc
        <5>1. e = d + 1 /\ Place(u[i]) = (Place(t[i]) + m) % z
          BY <1>6, <3>13, <4>2
        <5> QED BY <3>12, <4>1, <5>1
      <4>3. CASE ~enc
        <5>1. e = d - 1 /\ Place(u[i]) = (Place(t[i]) + z - m) % z
          BY <1>6, <3>13, <4>3
        <5> QED BY <3>12, <4>1, <5>1
      <4> QED BY <4>2, <4>3
    <3>15. Moved(u, e, i)
      BY <3>6, <3>9, <3>10, <3>11, <3>13, <3>14 DEF Moved
    <3> QED BY <2>5, <3>13, <3>15
  <2> QED BY <2>4, <2>5
<1>9. u \in Seq(Unicode) /\ Len(u) = l
  <2>1. \A i \in 1..l : u[i] \in Unicode
    BY <1>8
  <2>2. u = [i \in 1..l |-> u[i]]
    BY <1>7
  <2> QED BY <2>1, <2>2
<1>10. Image(u, e)
  BY <1>1, <1>8, <1>9 DEF Image
<1> QED BY <1>3, <1>5, <1>6, <1>10

LEMMA MoveRange ==
    ASSUME CipherTypes, NEW i \in 1..Len(plain), Letter(plain[i])
    PROVE  Move(i) \in Nat
<1>1. PICK z : z = classify(plain[i]).size
  OBVIOUS
<1>2. z \in {26, 32}
  <2>1. plain[i] \in Unicode
    BY Typed
  <2>2. PICK b : b = classify(plain[i]).base
    OBVIOUS
  <2>3. <<b, z>> \in {<<65, 26>>, <<97, 26>>, <<1040, 32>>, <<1072, 32>>}
    BY <1>1, <2>1, <2>2, Alphabets
  <2> QED BY <2>3
<1>3. CASE keyLetters(vKey) = <<>>
  BY <1>3 DEF Move
<1>4. CASE keyLetters(vKey) # <<>>
  <2>1. PICK ks \in Seq(Unicode) : ks = keyLetters(vKey)
    BY Typed, KeyLetters
  <2>2. PICK n \in Nat : n = Len(ks) /\ n # 0
    <3>1. Len(ks) \in Nat /\ (Len(ks) = 0 => ks = <<>>)
      BY EmptySeq
    <3> QED BY <1>4, <2>1, <3>1
  <2>3. PICK c \in Nat : c = LettersBefore(plain, i)
    <3>1. IsFiniteSet(1..(i - 1))
      BY FS_Interval
    <3>2. IsFiniteSet({j \in 1..(i - 1) : Letter(plain[j])})
      BY <3>1, FS_Subset
    <3> QED BY <3>2, FS_CardinalityType DEF LettersBefore
  <2>4. PICK k \in 1..n : k = (c % n) + 1
    BY <2>2
  <2>5. PICK kcp \in Unicode : kcp = ks[k]
    BY <2>2, <2>4
  <2>6. Move(i) = Shift(kcp, z)
    BY <1>1, <1>4, <2>1, <2>2, <2>3, <2>4, <2>5 DEF Move
  <2>7. kcp \in Int /\ classify(kcp).base \in Int
    <3>1. MaxUnicode \in Nat
      BY SMT DEF MaxUnicode
    <3>2. kcp \in Int
      BY <3>1 DEF Unicode
    <3> QED BY SMT, <3>2 DEF classify
  <2>8. Diff(kcp, classify(kcp).base, z) \in 0..(z - 1)
    BY <1>2, <2>7, DiffRange
  <2>9. Shift(kcp, z) \in 0..(z - 1)
    BY <2>8 DEF Shift
  <2> QED BY <1>2, <2>6, <2>9
<1> QED BY <1>3, <1>4

-----------------------------------------------------------------------------
(* The invariant.                                                          *)

LEMMA StartsAsTyped == Init => CipherInv
<1> SUFFICES ASSUME Init PROVE CipherInv
  OBVIOUS
<1>1. CipherTypes
  BY DEF Init, CipherTypes
<1>2. PICK l \in Nat : l = Len(plain)
  BY <1>1, Typed
<1>3. ASSUME NEW i \in 1..l, Letter(plain[i]) PROVE Moved(plain, 0, i)
  <2>1. PICK p \in Int, z \in {26, 32} :
          p = Place(plain[i]) /\ z = classify(plain[i]).size /\ p \in 0..(z - 1)
    <3>1. plain[i] \in Unicode
      BY <1>1, <1>2, Typed
    <3>2. PICK b, z : b = classify(plain[i]).base /\ z = classify(plain[i]).size
      OBVIOUS
    <3>3. <<b, z>> \in {<<65, 26>>, <<97, 26>>, <<1040, 32>>, <<1072, 32>>}
      BY <1>3, <3>1, <3>2, Alphabets
    <3>4. z \in {26, 32}
      BY <3>3
    <3>5. Place(plain[i]) \in 0..(z - 1)
      BY <1>3, <3>1, <3>2, PlaceOfLetter
    <3> QED BY <3>2, <3>4, <3>5
  <2>2. Move(i) \in Nat
    BY <1>1, <1>2, <1>3, MoveRange
  <2>3. PICK m \in Nat : m = Move(i)
    BY <2>2
  <2>4. (p + 0 * m) % z = p
    BY <2>1
  <2> QED BY <2>1, <2>3, <2>4 DEF Moved
<1>4. Image(plain, 0)
  BY <1>1, <1>2, <1>3, Typed DEF Image
<1> QED BY <1>1, <1>4 DEF Init, CipherInv

\* What the client shows is what cmdVigenere has computed: between them it is
\* bytes, and they are decoded as they were encoded.
LEMMA Answered ==
    ASSUME CipherTypes, NEW t, NEW d \in Int, Image(t, d), NEW enc \in BOOLEAN, NEW out,
           cmdVigenere(t, vKey, enc, out)
    PROVE  Image(out, IF enc THEN d + 1 ELSE d - 1)
<1>1. t \in Seq(Unicode) /\ vKey \in Seq(Unicode)
  BY Typed DEF Image
<1>2. utf8_decode(utf8_encode(t)) = t /\ utf8_decode(utf8_encode(vKey)) = vKey
  BY <1>1, DecodeEncode
<1>3. PICK u : u = transform(t, keyLetters(vKey), enc)
  OBVIOUS
<1>4. keyLetters(vKey) # <<>> /\ out = utf8_decode(utf8_encode(u))
  BY <1>2, <1>3 DEF cmdVigenere
<1>5. Image(u, IF enc THEN d + 1 ELSE d - 1)
  BY <1>3, <1>4, Transformed
<1>6. u \in Seq(Unicode)
  BY <1>5 DEF Image
<1>7. out = u
  BY <1>4, <1>6, DecodeEncode
<1> QED BY <1>5, <1>7

LEMMA StaysMoved == CipherInv /\ [Next]_vars => CipherInv'
<1> SUFFICES ASSUME CipherInv, [Next]_vars PROVE CipherInv'
  OBVIOUS
<1>1. CipherTypes /\ Image(vIn, inDepth) /\ Image(vOut, outDepth)
  BY DEF CipherInv
<1>2. ASSUME NEW enc \in BOOLEAN, onVigenere(enc, IF enc THEN inDepth + 1 ELSE inDepth - 1)
      PROVE  CipherInv'
  <2>1. PICK e \in Int : e = IF enc THEN inDepth + 1 ELSE inDepth - 1
    BY <1>1 DEF CipherTypes
  <2>2. /\ cmdVigenere(vIn, vKey, enc, vOut') /\ outDepth' = e
        /\ UNCHANGED <<plain, vIn, vKey, inDepth>>
    BY <1>2, <2>1 DEF onVigenere
  <2>3. PICK out : out = vOut'
    OBVIOUS
  <2>4. inDepth \in Int
    BY <1>1 DEF CipherTypes
  <2>5. cmdVigenere(vIn, vKey, enc, out)
    BY <2>2, <2>3
  <2>6. Image(out, e)
    BY <1>1, <2>1, <2>4, <2>5, Answered
  <2>7. Image(vOut, outDepth)'
    BY <2>2, <2>3, <2>6 DEF Image, Moved, Move
  <2>8. Image(vIn, inDepth)'
    BY <1>1, <2>2 DEF Image, Moved, Move
  <2>9. CipherTypes'
    BY <1>1, <2>1, <2>2 DEF CipherTypes
  <2> QED BY <2>7, <2>8, <2>9 DEF CipherInv
<1>3. CASE onVigenereEnc
  <2>1. onVigenere(TRUE, IF TRUE THEN inDepth + 1 ELSE inDepth - 1)
    BY <1>3 DEF onVigenereEnc
  <2> QED BY <1>2, <2>1
<1>4. CASE onVigenereDec
  <2>1. onVigenere(FALSE, IF FALSE THEN inDepth + 1 ELSE inDepth - 1)
    BY <1>4 DEF onVigenereDec
  <2> QED BY <1>2, <2>1
<1>5. CASE Copy
  <2>1. CipherTypes'
    BY <1>1, <1>5 DEF Copy, CipherTypes
  <2>2. Image(vOut, outDepth)' /\ Image(vIn, inDepth)'
    BY <1>1, <1>5 DEF Copy, Image, Moved, Move
  <2> QED BY <2>1, <2>2 DEF CipherInv
<1>6. CASE UNCHANGED vars
  BY <1>1, <1>6 DEF vars, CipherInv, CipherTypes, Image, Moved, Move
<1> QED BY <1>3, <1>4, <1>5, <1>6 DEF Next

\* Both texts on the tab are the text typed in, moved by the key as many times
\* as their depths say (onVigenereEnc, onVigenereDec, cmdVigenere).
THEOREM CipherInvariant == Spec => []CipherInv
<1>1. Init => CipherInv
  BY StartsAsTyped
<1>2. CipherInv /\ [Next]_vars => CipherInv'
  BY StaysMoved
<1> QED BY <1>1, <1>2, PTL DEF Spec

\* The cipher keeps every non-letter, and every letter in its alphabet and its
\* case, for every text, every key and any number of passes.
THEOREM Shape == Spec => []ShapeKept
<1>1. ASSUME CipherInv PROVE ShapeKept
  <2>1. Image(vOut, outDepth)
    BY <1>1 DEF CipherInv
  <2> QED BY <2>1 DEF ShapeKept, Image, Moved
<1> QED BY <1>1, CipherInvariant, PTL

\* A text at depth zero has every code point of plain back that is not a Yo.
LEMMA Restored ==
    ASSUME CipherTypes, NEW t, Image(t, 0), NEW i \in 1..Len(plain), plain[i] \notin Yo
    PROVE  t[i] = plain[i]
<1>1. t \in Seq(Unicode) /\ Len(t) = Len(plain) /\ Len(plain) \in Nat
  BY Typed DEF Image
<1>2. t[i] \in Unicode /\ plain[i] \in Unicode
  BY <1>1, Typed
<1>3. IF Letter(plain[i]) THEN Moved(t, 0, i) ELSE t[i] = plain[i]
  BY DEF Image
<1>4. ASSUME Letter(plain[i]) PROVE t[i] = plain[i]
  <2>1. Moved(t, 0, i)
    BY <1>3, <1>4
  <2>2. classify(t[i]) = classify(plain[i]) /\ t[i] \notin Yo
    BY <2>1 DEF Moved
  <2>3. Letter(t[i])
    BY <1>4, <2>2 DEF Letter
  <2>4. PICK b, z : b = classify(plain[i]).base /\ z = classify(plain[i]).size
    OBVIOUS
  <2>5. t[i] = b + Place(t[i]) /\ plain[i] = b + Place(plain[i])
    BY <1>2, <1>4, <2>2, <2>3, <2>4, PlaceOfLetter
  <2>6. Place(plain[i]) \in 0..(z - 1)
    BY <1>2, <1>4, <2>4, PlaceOfLetter
  <2>7. z \in {26, 32}
    <3>1. <<b, z>> \in {<<65, 26>>, <<97, 26>>, <<1040, 32>>, <<1072, 32>>}
      BY <1>2, <1>4, <2>4, Alphabets
    <3> QED BY <3>1
  <2>8. Place(t[i]) = (Place(plain[i]) + 0 * Move(i)) % z
    BY <2>1, <2>4 DEF Moved
  <2>9. Move(i) \in Int
    <3>1. Move(i) \in Nat
      BY <1>4, MoveRange
    <3> QED BY <3>1
  <2> QED BY <2>5, <2>6, <2>7, <2>8, <2>9
<1> QED BY <1>3, <1>4

\* Whatever the user has encrypted, decrypted and copied: a text under as many
\* encryptions as decryptions differs from the text typed in by its Yo only.
THEOREM BackButYo ==
    Spec => [](/\ inDepth = 0 => \A i \in 1..Len(plain) : plain[i] \notin Yo => vIn[i] = plain[i]
               /\ outDepth = 0 => \A i \in 1..Len(plain) : plain[i] \notin Yo => vOut[i] = plain[i])
<1>1. ASSUME CipherInv
      PROVE  /\ inDepth = 0 => \A i \in 1..Len(plain) : plain[i] \notin Yo => vIn[i] = plain[i]
             /\ outDepth = 0 => \A i \in 1..Len(plain) : plain[i] \notin Yo => vOut[i] = plain[i]
  <2>1. CipherTypes /\ Image(vIn, inDepth) /\ Image(vOut, outDepth)
    BY <1>1 DEF CipherInv
  <2>2. inDepth = 0 => Image(vIn, 0)
    BY <2>1
  <2>3. outDepth = 0 => Image(vOut, 0)
    BY <2>1
  <2> QED BY <2>1, <2>2, <2>3, Restored
<1> QED BY <1>1, CipherInvariant, PTL

\* Texts without a Yo, the letter that the cipher folds onto another one.
NoYo == \A t \in Texts : \A n \in 1..Len(t) : t[n] \notin Yo

\* Such a text is back whole.
THEOREM Whole == ASSUME NoYo PROVE Spec => []RoundTrip
<1>1. ASSUME CipherInv PROVE RoundTrip
  <2>1. CipherTypes /\ Image(vIn, inDepth) /\ Image(vOut, outDepth)
    BY <1>1 DEF CipherInv
  <2>2. \A n \in 1..Len(plain) : plain[n] \notin Yo
    BY <2>1 DEF CipherTypes, NoYo
  <2>3. ASSUME NEW t, Image(t, 0) PROVE t = plain
    <3>1. t \in Seq(Unicode) /\ plain \in Seq(Unicode) /\ Len(t) = Len(plain)
      BY <2>1, <2>3, Typed DEF Image
    <3>2. \A i \in 1..Len(plain) : t[i] = plain[i]
      BY <2>1, <2>2, <2>3, Restored
    <3> QED BY <3>1, <3>2, SeqEqual
  <2> QED BY <2>1, <2>3 DEF RoundTrip
<1> QED BY <1>1, CipherInvariant, PTL
=============================================================================
