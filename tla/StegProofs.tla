----------------------------- MODULE StegProofs -----------------------------
(***************************************************************************)
(* StegTab, for every width of the length field, of a byte and of a pixel, *)
(* every picture and every message: what was embedded last is read back,   *)
(* and only low bits change.                                               *)
(***************************************************************************)
EXTENDS StegTab, Integers, TLAPS, SequenceTheorems, WellFoundedInduction

-----------------------------------------------------------------------------
(* Induction, over a set instead of an operator.                           *)

LEMMA Least ==
    ASSUME NEW T, T \subseteq Nat, T # {}
    PROVE  \E x \in T : \A y \in T : x <= y
<1>1. \E R : IsWellFoundedOn(R, Nat) /\ \A x, y \in Nat : <<x, y>> \in R <=> x < y
  <2>1. \A x, y \in Nat : <<x, y>> \in OpToRel(<, Nat) <=> x < y
    BY Zenon DEF OpToRel
  <2> QED BY <2>1, NatLessThanWellFounded, Zenon
<1>2. PICK R : IsWellFoundedOn(R, Nat) /\ \A x, y \in Nat : <<x, y>> \in R <=> x < y
  BY <1>1
<1>3. \E x \in T : \A y \in T : ~ (<<y, x>> \in R)
  <2>1. IsWellFoundedOn(R, Nat)
    BY <1>2
  <2> QED BY <2>1, WFMin, Zenon
<1>4. PICK x \in T : \A y \in T : ~ (<<y, x>> \in R)
  BY <1>3
<1>5. \A y \in T : ~ (y < x)
  BY <1>2, <1>4
<1>6. \A y \in T : x <= y
  BY <1>5
<1> QED BY <1>6

LEMMA Induction ==
    ASSUME NEW S, 0 \in S, \A n \in Nat : n \in S => n + 1 \in S
    PROVE  \A n \in Nat : n \in S
<1> SUFFICES ASSUME NEW n \in Nat, n \notin S PROVE FALSE
  OBVIOUS
<1>1. PICK x \in Nat \ S : \A y \in Nat \ S : x <= y
  BY Least
<1>2. x # 0 /\ x - 1 \in Nat /\ x - 1 \notin Nat \ S
  BY <1>1
<1>3. (x - 1) + 1 \in S
  BY <1>2
<1> QED BY <1>1, <1>3

-----------------------------------------------------------------------------
(* Powers.                                                                 *)

IsPower(f, b, n) == f = [k \in 0..n |-> IF k = 0 THEN 1 ELSE b * f[k - 1]]

LEMMA PowerExists == ASSUME NEW b \in Nat, NEW n \in Nat PROVE \E f : IsPower(f, b, n)
<1> DEFINE S == {m \in Nat : \E f : IsPower(f, b, m)}
<1>1. 0 \in S
  <2>1. PICK f : f = [k \in 0..0 |-> 1]
    OBVIOUS
  <2>2. IsPower(f, b, 0)
    BY <2>1 DEF IsPower
  <2> QED BY <2>2
<1>2. ASSUME NEW m \in Nat, m \in S PROVE m + 1 \in S
  <2>1. PICK f : IsPower(f, b, m)
    BY <1>2
  <2>2. PICK g : g = [k \in 0..(m + 1) |-> IF k = m + 1 THEN b * f[m] ELSE f[k]]
    OBVIOUS
  <2>3. \A k \in 0..(m + 1) : g[k] = IF k = 0 THEN 1 ELSE b * g[k - 1]
    BY <2>1, <2>2 DEF IsPower
  <2>4. g = [k \in 0..(m + 1) |-> g[k]]
    BY <2>2
  <2>5. IsPower(g, b, m + 1)
    BY <2>3, <2>4 DEF IsPower
  <2> QED BY <2>5
<1> HIDE DEF S
<1>3. n \in S
  BY <1>1, <1>2, Induction
<1> QED BY <1>3 DEF S

LEMMA PowerAgrees ==
    ASSUME NEW b \in Nat, NEW m \in Nat, NEW n \in Nat, NEW f, NEW g,
           IsPower(f, b, m), IsPower(g, b, n)
    PROVE  \A k \in Nat : k <= m /\ k <= n => f[k] = g[k] /\ f[k] \in Nat /\ (b # 0 => f[k] # 0)
<1> DEFINE S == {k \in Nat : k <= m /\ k <= n => f[k] = g[k] /\ f[k] \in Nat /\ (b # 0 => f[k] # 0)}
<1>1. 0 \in S
  BY DEF IsPower
<1>2. ASSUME NEW k \in Nat, k \in S PROVE k + 1 \in S
  <2> SUFFICES ASSUME k + 1 <= m, k + 1 <= n
               PROVE  f[k + 1] = g[k + 1] /\ f[k + 1] \in Nat /\ (b # 0 => f[k + 1] # 0)
    OBVIOUS
  <2>1. f[k] = g[k] /\ f[k] \in Nat /\ (b # 0 => f[k] # 0)
    BY <1>2
  <2>2. f[k + 1] = b * f[k] /\ g[k + 1] = b * g[k]
    BY DEF IsPower
  <2> QED BY <2>1, <2>2
<1> HIDE DEF S
<1>3. \A k \in Nat : k \in S
  BY <1>1, <1>2, Induction
<1> QED BY <1>3 DEF S

LEMMA PowerIs ==
    ASSUME NEW b \in Nat, NEW n \in Nat
    PROVE  \E f : IsPower(f, b, n) /\ Power(b, n) = f[n]
<1> DEFINE p == CHOOSE f : f = [k \in 0..n |-> IF k = 0 THEN 1 ELSE b * f[k - 1]]
<1>1. \E f : f = [k \in 0..n |-> IF k = 0 THEN 1 ELSE b * f[k - 1]]
  BY PowerExists DEF IsPower
<1>2. IsPower(p, b, n)
  BY <1>1, Zenon DEF IsPower
<1>3. Power(b, n) = p[n]
  BY DEF Power
<1> QED BY <1>2, <1>3

\* What Power is: the two cases of its recursion, and its type.
LEMMA PowerFacts ==
    ASSUME NEW b \in Nat
    PROVE  /\ Power(b, 0) = 1
           /\ \A n \in Nat : /\ Power(b, n) \in Nat
                             /\ b # 0 => Power(b, n) # 0
                             /\ Power(b, n + 1) = b * Power(b, n)
<1>1. ASSUME NEW n \in Nat PROVE Power(b, n) \in Nat /\ (b # 0 => Power(b, n) # 0)
  <2>1. PICK f : IsPower(f, b, n) /\ Power(b, n) = f[n]
    BY PowerIs
  <2>2. \A k \in Nat : k <= n /\ k <= n => f[k] = f[k] /\ f[k] \in Nat /\ (b # 0 => f[k] # 0)
    BY <2>1, PowerAgrees
  <2>3. f[n] \in Nat /\ (b # 0 => f[n] # 0)
    BY <2>2
  <2> QED BY <2>1, <2>3
<1>2. ASSUME NEW n \in Nat PROVE Power(b, n + 1) = b * Power(b, n)
  <2>1. PICK f : IsPower(f, b, n) /\ Power(b, n) = f[n]
    BY PowerIs
  <2>2. PICK g : IsPower(g, b, n + 1) /\ Power(b, n + 1) = g[n + 1]
    BY PowerIs
  <2>3. f[n] = g[n]
    <3>1. n + 1 \in Nat /\ n <= n + 1
      OBVIOUS
    <3>2. \A k \in Nat : k <= n /\ k <= n + 1
                         => f[k] = g[k] /\ f[k] \in Nat /\ (b # 0 => f[k] # 0)
      BY <2>1, <2>2, <3>1, PowerAgrees
    <3> QED BY <3>1, <3>2
  <2>4. g[n + 1] = b * g[n]
    BY <2>2 DEF IsPower
  <2> QED BY <2>1, <2>2, <2>3, <2>4
<1>3. Power(b, 0) = 1
  <2>1. PICK f : IsPower(f, b, 0) /\ Power(b, 0) = f[0]
    BY PowerIs
  <2> QED BY <2>1 DEF IsPower
<1> QED BY <1>1, <1>2, <1>3

-----------------------------------------------------------------------------
(* Division, and the bits of a number.                                     *)

LEMMA Division ==
    ASSUME NEW b \in Nat \ {0}, NEW q \in Nat, NEW r \in 0..(b - 1), NEW a, a = q * b + r
    PROVE  a \div b = q /\ a % b = r
OBVIOUS

LEMMA Divided ==
    ASSUME NEW b \in Nat \ {0}, NEW a \in Nat
    PROVE  a \div b \in Nat /\ a % b \in 0..(b - 1) /\ a = (a \div b) * b + (a % b)
OBVIOUS

LEMMA Small ==
    ASSUME NEW b \in Nat \ {0}, NEW a \in Nat, a < b
    PROVE  a \div b = 0 /\ a % b = a
<1>1. a = 0 * b + a /\ a \in 0..(b - 1)
  OBVIOUS
<1> QED BY <1>1, Division

LEMMA Powers2 ==
    /\ Power(2, 0) = 1
    /\ \A n \in Nat : Power(2, n) \in Nat \ {0} /\ Power(2, n + 1) = 2 * Power(2, n)
BY PowerFacts

\* One more bit.
LEMMA NextBit ==
    ASSUME NEW v \in Nat, NEW n \in Nat
    PROVE  v % Power(2, n + 1) = (v % Power(2, n)) + Bit(v, n) * Power(2, n)
<1>1. PICK b \in Nat \ {0} : b = Power(2, n) /\ Power(2, n + 1) = 2 * b
  BY Powers2
<1>2. PICK q \in Nat, r \in 0..(b - 1) : q = v \div b /\ r = v % b /\ v = q * b + r
  BY Divided
<1>3. PICK s \in Nat, t \in 0..1 : s = q \div 2 /\ t = q % 2 /\ q = s * 2 + t
  OBVIOUS
<1>4. v = s * (2 * b) + (t * b + r)
  <2>1. q * b = (s * 2) * b + t * b
    BY <1>3
  <2>2. (s * 2) * b = s * (2 * b)
    OBVIOUS
  <2>3. (s * 2) * b \in Nat /\ t * b \in Nat
    OBVIOUS
  <2> QED BY <1>2, <2>1, <2>2, <2>3
<1>5. t * b + r \in 0..(2 * b - 1)
  <2>1. t * b = 0 \/ t * b = b
    OBVIOUS
  <2> QED BY <2>1
<1>6. v % (2 * b) = t * b + r
  <2>1. PICK d \in Nat \ {0} : d = 2 * b
    OBVIOUS
  <2>2. PICK e \in 0..(d - 1) : e = t * b + r
    BY <1>5, <2>1
  <2>3. v = s * d + e
    BY <1>4, <2>1, <2>2
  <2>4. v % d = e
    BY <2>3, Division
  <2> QED BY <2>1, <2>2, <2>4
<1>7. Bit(v, n) = t
  BY <1>1, <1>2, <1>3 DEF Bit
<1> QED BY <1>1, <1>2, <1>6, <1>7

LEMMA BitType ==
    ASSUME NEW v \in Nat, NEW n \in Nat
    PROVE  Bit(v, n) \in 0..1
<1>1. Power(2, n) \in Nat \ {0}
  BY Powers2
<1>2. v \div Power(2, n) \in Nat
  BY <1>1, Divided
<1> QED BY <1>2 DEF Bit

Sums(f, pixels, first, n) ==
    f = [i \in 0..n |-> IF i = 0 THEN 0
                        ELSE f[i - 1] + readBit(pixels[Position(first + i - 1)]) * Power(2, i - 1)]

LEMMA SumsExist ==
    ASSUME NEW pixels, NEW first, NEW n \in Nat
    PROVE  \E f : Sums(f, pixels, first, n)
<1> DEFINE S == {m \in Nat : \E f : Sums(f, pixels, first, m)}
           term(i) == readBit(pixels[Position(first + i - 1)]) * Power(2, i - 1)
<1>1. 0 \in S
  <2>1. PICK f : f = [i \in 0..0 |-> 0]
    OBVIOUS
  <2>2. Sums(f, pixels, first, 0)
    BY <2>1 DEF Sums
  <2> QED BY <2>2
<1>2. ASSUME NEW m \in Nat, m \in S PROVE m + 1 \in S
  <2>1. PICK f : Sums(f, pixels, first, m)
    BY <1>2
  <2> HIDE DEF term
  <2>2. PICK g : g = [i \in 0..(m + 1) |-> IF i = m + 1 THEN f[m] + term(i) ELSE f[i]]
    OBVIOUS
  <2>3. \A i \in 0..m : f[i] = IF i = 0 THEN 0 ELSE f[i - 1] + term(i)
    BY <2>1 DEF Sums, term
  <2>4. \A i \in 0..(m + 1) : g[i] = IF i = 0 THEN 0 ELSE g[i - 1] + term(i)
    BY <2>2, <2>3
  <2>5. g = [i \in 0..(m + 1) |-> g[i]]
    BY <2>2
  <2>6. g = [i \in 0..(m + 1) |-> IF i = 0 THEN 0 ELSE g[i - 1] + term(i)]
    BY <2>4, <2>5
  <2>7. Sums(g, pixels, first, m + 1)
    BY <2>6 DEF Sums, term
  <2> QED BY <2>7
<1> HIDE DEF S
<1>3. n \in S
  BY <1>1, <1>2, Induction
<1> QED BY <1>3 DEF S

LEMMA NumberSums ==
    ASSUME NEW pixels, NEW first, NEW n \in Nat
    PROVE  \E f : Sums(f, pixels, first, n) /\ Number(pixels, first, n) = f[n]
<1>1. Sums(CHOOSE f : Sums(f, pixels, first, n), pixels, first, n)
  BY SumsExist, Zenon
<1>2. Number(pixels, first, n) = (CHOOSE f : Sums(f, pixels, first, n))[n]
  BY DEF Number, Sums
<1> QED BY <1>1, <1>2, Zenon

\* A number of n bits is below 2^n.
LEMMA NumberType ==
    ASSUME NEW n \in Nat, NEW pixels, NEW first \in Nat,
           \A i \in 1..n : pixels[Position(first + i - 1)] \in Nat
    PROVE  Number(pixels, first, n) \in 0..(Power(2, n) - 1)
<1>1. PICK f : Sums(f, pixels, first, n) /\ Number(pixels, first, n) = f[n]
  BY NumberSums
<1> DEFINE S == {i \in Nat : i <= n => f[i] \in 0..(Power(2, i) - 1)}
<1>2. 0 \in S
  BY <1>1, Powers2 DEF Sums
<1>3. ASSUME NEW i \in Nat, i \in S PROVE i + 1 \in S
  <2> SUFFICES ASSUME i + 1 <= n PROVE f[i + 1] \in 0..(Power(2, i + 1) - 1)
    OBVIOUS
  <2>1. i + 1 \in 1..n /\ (i + 1) - 1 = i
    OBVIOUS
  <2>2. PICK b \in Nat \ {0} : b = Power(2, i) /\ Power(2, i + 1) = 2 * b
    BY Powers2
  <2>3. f[i] \in 0..(b - 1)
    BY <1>3, <2>2
  <2>4. PICK t : t = readBit(pixels[Position(first + (i + 1) - 1)])
    OBVIOUS
  <2>5. t \in 0..1
    <3>1. PICK p \in Nat : p = pixels[Position(first + (i + 1) - 1)]
      BY <2>1
    <3>2. p % 2 \in 0..1
      OBVIOUS
    <3> QED BY <2>4, <3>1, <3>2 DEF readBit
  <2>6. f[i + 1] = f[i] + t * b
    BY <1>1, <2>1, <2>2, <2>4 DEF Sums
  <2>7. t * b = 0 \/ t * b = b
    BY <2>5
  <2> QED BY <2>2, <2>3, <2>6, <2>7
<1> HIDE DEF S
<1>4. n \in S
  BY <1>2, <1>3, Induction
<1>5. f[n] \in 0..(Power(2, n) - 1)
  BY <1>4 DEF S
<1> QED BY <1>1, <1>5

\* A number is made of its bits.
LEMMA NumberIs ==
    ASSUME NEW v \in Nat, NEW n \in Nat, v < Power(2, n), NEW pixels, NEW first \in Nat,
           \A i \in 1..n : readBit(pixels[Position(first + i - 1)]) = Bit(v, i - 1)
    PROVE  Number(pixels, first, n) = v
<1>1. PICK f : Sums(f, pixels, first, n) /\ Number(pixels, first, n) = f[n]
  BY NumberSums
<1> DEFINE S == {i \in Nat : i <= n => f[i] = v % Power(2, i)}
<1>2. 0 \in S
  BY <1>1, Powers2 DEF Sums
<1>3. ASSUME NEW i \in Nat, i \in S PROVE i + 1 \in S
  <2> SUFFICES ASSUME i + 1 <= n PROVE f[i + 1] = v % Power(2, i + 1)
    OBVIOUS
  <2>1. i + 1 \in 1..n /\ (i + 1) - 1 = i
    OBVIOUS
  <2>2. f[i] = v % Power(2, i)
    BY <1>3
  <2>3. f[i + 1] = f[i] + readBit(pixels[Position(first + (i + 1) - 1)]) * Power(2, i)
    BY <1>1, <2>1 DEF Sums
  <2>4. readBit(pixels[Position(first + (i + 1) - 1)]) = Bit(v, i)
    BY <2>1
  <2> QED BY <2>2, <2>3, <2>4, NextBit
<1> HIDE DEF S
<1>4. n \in S
  BY <1>2, <1>3, Induction
<1>5. f[n] = v % Power(2, n)
  BY <1>4 DEF S
<1>6. Power(2, n) \in Nat \ {0}
  BY Powers2
<1>7. v % Power(2, n) = v
  BY <1>6, Small
<1> QED BY <1>1, <1>5, <1>7

-----------------------------------------------------------------------------
(* Pixels and messages.                                                    *)

LEMMA Written ==
    ASSUME NEW p \in Nat, NEW bit \in 0..1
    PROVE  /\ writeBit(p, bit) \in Nat /\ readBit(writeBit(p, bit)) = bit
           /\ writeBit(p, bit) \div 2 = p \div 2
           /\ \A n \in Nat : p < 2 * n => writeBit(p, bit) < 2 * n
<1>1. writeBit(p, bit) = (p \div 2) * 2 + bit /\ p \div 2 \in Nat
  BY DEF writeBit
<1>2. p = (p \div 2) * 2 + (p % 2) /\ p % 2 \in 0..1
  OBVIOUS
<1> QED BY <1>1, <1>2 DEF readBit

LEMMA StegWidths ==
    /\ LenBits \in Nat \ {0} /\ CharBits \in Nat \ {0} /\ PixelBits \in Nat \ {0}
    /\ IndexRange \in Nat \ {0} /\ LenBits <= IndexRange
    /\ Char \subseteq Nat /\ Pixel \subseteq Nat
    /\ \A v \in Char : v < Power(2, CharBits)
    /\ \E n \in Nat : Pixel = 0..(2 * n - 1)
<1>1. /\ LenBits \in Nat \ {0} /\ CharBits \in Nat \ {0} /\ PixelBits \in Nat \ {0}
      /\ IndexRange \in Nat \ {0} /\ LenBits <= IndexRange
  BY StegAssumption
<1>2. Power(2, CharBits) \in Nat \ {0} /\ Power(2, PixelBits) \in Nat \ {0}
  BY <1>1, Powers2
<1>3. Char \subseteq Nat /\ Pixel \subseteq Nat /\ \A v \in Char : v < Power(2, CharBits)
  BY <1>2 DEF Char, Pixel
<1>4. \E n \in Nat : Pixel = 0..(2 * n - 1)
  <2>1. PixelBits - 1 \in Nat /\ (PixelBits - 1) + 1 = PixelBits
    BY <1>1
  <2>2. Power(2, PixelBits) = 2 * Power(2, PixelBits - 1) /\ Power(2, PixelBits - 1) \in Nat
    BY <2>1, Powers2
  <2> QED BY <2>2 DEF Pixel
<1> QED BY <1>1, <1>3, <1>4

\* An index past the range comes back to an earlier pixel, one within it stays.
LEMMA PositionIs ==
    ASSUME NEW k \in Nat
    PROVE  Position(k) \in 1..(k + 1) /\ (k < IndexRange => Position(k) = k + 1)
<1>1. IndexRange \in Nat \ {0}
  BY StegWidths
<1>2. PICK q \in Nat, r \in Nat : q = k \div IndexRange /\ r = k % IndexRange
                               /\ k = q * IndexRange + r
  BY <1>1, Divided
<1>3. r <= k
  <2>1. PICK x \in Nat : x = q * IndexRange
    BY <1>1
  <2>2. k = x + r
    BY <1>2, <2>1
  <2> QED BY <2>2
<1>4. k < IndexRange => r = k
  BY <1>1, <1>2, Small
<1>5. Position(k) = r + 1
  BY <1>2 DEF Position
<1> QED BY <1>3, <1>4, <1>5

\* What embed() writes at i: a bit of the length, a bit of the message, or nothing.
LEMMA EmbeddedAt ==
    ASSUME NEW pixels \in Seq(Pixel), NEW msg \in Seq(Char), NEW i \in 1..Len(pixels)
    PROVE  /\ i <= LenBits
                => Embedded(pixels, msg)[i] = writeBit(pixels[i], Bit(LenField(msg), i - 1))
           /\ i > LenBits /\ i - LenBits - 1 < Len(msg) * CharBits =>
                 Embedded(pixels, msg)[i]
                 = writeBit(pixels[i], Bit(msg[((i - LenBits - 1) \div CharBits) + 1],
                                           (i - LenBits - 1) % CharBits))
           /\ i > LenBits /\ ~(i - LenBits - 1 < Len(msg) * CharBits) =>
                 Embedded(pixels, msg)[i] = pixels[i]
<1>1. LenBits \in Nat
  BY StegWidths
<1> QED BY <1>1 DEF Embedded

LEMMA EmbeddedBit ==
    ASSUME NEW pixels \in Seq(Pixel), NEW msg \in Seq(Char), NEW i \in 1..Len(pixels)
    PROVE  \/ Embedded(pixels, msg)[i] = pixels[i]
           \/ \E bit \in 0..1 : Embedded(pixels, msg)[i] = writeBit(pixels[i], bit)
<1>1. LenBits \in Nat /\ CharBits \in Nat \ {0} /\ Char \subseteq Nat
  BY StegWidths
<1>2. Len(msg) \in Nat /\ Power(2, LenBits) \in Nat \ {0}
  <2>1. Power(2, LenBits) \in Nat \ {0}
    BY <1>1, Powers2
  <2> QED BY <2>1
<1>3. CASE i <= LenBits
  <2>1. LenField(msg) \in Nat
    BY <1>2 DEF LenField
  <2>2. Bit(LenField(msg), i - 1) \in 0..1
    BY <2>1, BitType
  <2> QED BY <1>3, <2>2, EmbeddedAt
<1>4. CASE i > LenBits /\ i - LenBits - 1 < Len(msg) * CharBits
  <2>1. PICK k \in Nat : k = i - LenBits - 1 /\ k < Len(msg) * CharBits
    BY <1>1, <1>4
  <2>2. PICK q \in Nat, r \in 0..(CharBits - 1) :
           q = k \div CharBits /\ r = k % CharBits /\ k = q * CharBits + r
    BY <1>1, Divided
  <2>3. q < Len(msg)
    <3>1. ASSUME q >= Len(msg) PROVE FALSE
      <4>1. q * CharBits >= Len(msg) * CharBits
        BY <1>1, <1>2, <3>1
      <4>2. q * CharBits \in Nat /\ Len(msg) * CharBits \in Nat
        BY <1>1, <1>2
      <4> QED BY <1>1, <2>1, <2>2, <4>1, <4>2, SMTT(60)
    <3> QED BY <1>2, <3>1
  <2>4. msg[q + 1] \in Nat
    <3>1. q + 1 \in 1..Len(msg)
      BY <1>2, <2>3
    <3>2. msg[q + 1] \in Char
      BY <3>1
    <3> QED BY <1>1, <3>2
  <2>5. Bit(msg[q + 1], r) \in 0..1
    BY <1>1, <2>4, BitType
  <2>6. Embedded(pixels, msg)[i] = writeBit(pixels[i], Bit(msg[q + 1], r))
    BY <1>4, <2>1, <2>2, EmbeddedAt
  <2> QED BY <2>5, <2>6
<1>5. CASE i > LenBits /\ ~(i - LenBits - 1 < Len(msg) * CharBits)
  BY <1>5, EmbeddedAt
<1> QED BY <1>1, <1>3, <1>4, <1>5

LEMMA EmbeddedKeeps ==
    ASSUME NEW pixels \in Seq(Pixel), NEW msg \in Seq(Char)
    PROVE  /\ Embedded(pixels, msg) \in Seq(Pixel)
           /\ Len(Embedded(pixels, msg)) = Len(pixels)
           /\ \A i \in 1..Len(pixels) : Embedded(pixels, msg)[i] \div 2 = pixels[i] \div 2
<1>1. PICK n \in Nat : Pixel = 0..(2 * n - 1)
  BY StegWidths
<1>2. Len(pixels) \in Nat
  OBVIOUS
<1>3. ASSUME NEW i \in 1..Len(pixels)
      PROVE  /\ Embedded(pixels, msg)[i] \in Pixel
             /\ Embedded(pixels, msg)[i] \div 2 = pixels[i] \div 2
  <2>1. PICK p \in Pixel : p = pixels[i]
    OBVIOUS
  <2>2. p \in Nat /\ p < 2 * n
    BY <1>1
  <2>3. CASE Embedded(pixels, msg)[i] = pixels[i]
    BY <2>1, <2>3
  <2>4. ASSUME NEW bit \in 0..1, Embedded(pixels, msg)[i] = writeBit(pixels[i], bit)
        PROVE  /\ Embedded(pixels, msg)[i] \in Pixel
               /\ Embedded(pixels, msg)[i] \div 2 = pixels[i] \div 2
    <3>1. /\ writeBit(p, bit) \in Nat /\ writeBit(p, bit) \div 2 = p \div 2
          /\ writeBit(p, bit) < 2 * n
      BY <2>2, Written
    <3>2. writeBit(p, bit) \in Pixel
      BY <1>1, <3>1
    <3> QED BY <2>1, <2>4, <3>1, <3>2
  <2> QED BY <2>3, <2>4, EmbeddedBit
<1>4. \E m : Embedded(pixels, msg) = [i \in 1..Len(pixels) |-> m[i]]
  <2>1. Embedded(pixels, msg) = [i \in 1..Len(pixels) |-> Embedded(pixels, msg)[i]]
    BY DEF Embedded
  <2> QED BY <2>1
<1>5. Embedded(pixels, msg) \in [1..Len(pixels) -> Pixel]
  BY <1>3, <1>4
<1>6. Embedded(pixels, msg) \in Seq(Pixel) /\ Len(Embedded(pixels, msg)) = Len(pixels)
  BY <1>2, <1>5
<1> QED BY <1>3, <1>6

LEMMA CapacityType == ASSUME NEW n \in Nat PROVE capacity(n) \in Nat
<1>1. LenBits \in Nat /\ CharBits \in Nat \ {0}
  BY StegWidths
<1>2. CASE n <= LenBits
  BY <1>2 DEF capacity
<1>3. CASE ~(n <= LenBits)
  <2>1. n - LenBits \in Nat
    BY <1>1, <1>3
  <2>2. (n - LenBits) \div CharBits \in Nat
    BY <1>1, <2>1, Divided
  <2> QED BY <1>3, <2>2 DEF capacity
<1> QED BY <1>2, <1>3

\* A message that fits, in the range of the index, comes out as it went in.
LEMMA EmbedThenExtract ==
    ASSUME NEW pixels \in Seq(Pixel), NEW msg \in Seq(Char), Len(msg) < Power(2, LenBits),
           Fits(pixels, msg), InRange(msg)
    PROVE  extract(Embedded(pixels, msg)) = msg
<1> DEFINE e == Embedded(pixels, msg)
<1>1. /\ LenBits \in Nat \ {0} /\ CharBits \in Nat \ {0}
      /\ Char \subseteq Nat /\ Pixel \subseteq Nat
      /\ \A v \in Char : v < Power(2, CharBits)
  BY StegWidths
<1>2. Len(msg) \in Nat /\ Len(pixels) \in Nat /\ Power(2, LenBits) \in Nat \ {0}
  <2>1. Power(2, LenBits) \in Nat \ {0}
    BY <1>1, Powers2
  <2> QED BY <2>1
<1>3. LenField(msg) = Len(msg)
  BY <1>2, Small DEF LenField
<1>4. /\ Len(msg) * CharBits \in Nat /\ LenBits + Len(msg) * CharBits <= Len(pixels)
      /\ IndexRange \in Nat /\ LenBits <= IndexRange /\ LenBits + Len(msg) * CharBits <= IndexRange
  BY <1>1, <1>2, <1>3, StegWidths DEF Fits, InRange
<1>5. Len(e) = Len(pixels) /\ e \in Seq(Pixel)
  BY EmbeddedKeeps
<1>6. Number(e, 0, LenBits) = Len(msg)
  <2>1. ASSUME NEW i \in 1..LenBits
        PROVE  readBit(e[Position(0 + i - 1)]) = Bit(Len(msg), i - 1)
    <3>1. i \in 1..Len(pixels) /\ i - 1 \in Nat /\ Position(0 + i - 1) = i
      <4>1. PICK k \in Nat : k = i - 1 /\ k < IndexRange /\ 0 + i - 1 = k
        BY <1>1, <1>4
      <4>2. Position(k) = k + 1
        BY <4>1, PositionIs
      <4> QED BY <1>1, <1>2, <1>4, <4>1, <4>2
    <3>2. e[i] = writeBit(pixels[i], Bit(Len(msg), i - 1))
      BY <1>3, <3>1, EmbeddedAt
    <3>3. Bit(Len(msg), i - 1) \in 0..1
      BY <1>2, <3>1, BitType
    <3>4. pixels[i] \in Nat
      <4>1. pixels[i] \in Pixel
        BY <3>1
      <4> QED BY <1>1, <4>1
    <3>5. readBit(writeBit(pixels[i], Bit(Len(msg), i - 1))) = Bit(Len(msg), i - 1)
      BY <3>3, <3>4, Written
    <3> QED BY <3>1, <3>2, <3>5
  <2> HIDE DEF e
  <2> QED BY <1>1, <1>2, <2>1, NumberIs
<1>7. ASSUME NEW c \in 1..Len(msg)
      PROVE  Number(e, LenBits + (c - 1) * CharBits, CharBits) = msg[c]
  <2>1. PICK a \in Nat : a = (c - 1) * CharBits
    BY <1>1
  <2>2. msg[c] \in Nat /\ msg[c] < Power(2, CharBits)
    <3>1. msg[c] \in Char
      OBVIOUS
    <3> QED BY <1>1, <3>1
  <2>3. ASSUME NEW j \in 1..CharBits
        PROVE  readBit(e[Position((LenBits + a) + j - 1)]) = Bit(msg[c], j - 1)
    <3>1. PICK i \in Nat : i = LenBits + a + j
      BY <1>1
    <3>2. i - LenBits - 1 = (c - 1) * CharBits + (j - 1) /\ j - 1 \in 0..(CharBits - 1)
      BY <1>1, <2>1, <3>1
    <3>3. (i - LenBits - 1) \div CharBits = c - 1 /\ (i - LenBits - 1) % CharBits = j - 1
      <4>1. PICK k : k = i - LenBits - 1
        OBVIOUS
      <4>2. PICK q \in Nat, r \in 0..(CharBits - 1) : q = c - 1 /\ r = j - 1
        BY <3>2
      <4>3. k = q * CharBits + r
        BY <3>2, <4>1, <4>2
      <4>4. k \div CharBits = q /\ k % CharBits = r
        BY <1>1, <4>3, Division
      <4> QED BY <4>1, <4>2, <4>4
    <3>4. a + CharBits <= Len(msg) * CharBits
      <4>1. c * CharBits = a + CharBits
        BY <1>1, <2>1
      <4>2. c * CharBits <= Len(msg) * CharBits
        BY <1>1, <1>2
      <4> QED BY <4>1, <4>2
    <3>5. i \in 1..Len(pixels) /\ i > LenBits /\ i - LenBits - 1 < Len(msg) * CharBits
      BY <1>1, <1>2, <1>4, <3>1, <3>4
    <3>6. e[i] = writeBit(pixels[i], Bit(msg[(c - 1) + 1], j - 1))
      BY <3>3, <3>5, EmbeddedAt
    <3>7. Bit(msg[c], j - 1) \in 0..1
      BY <2>2, <3>2, BitType
    <3>8. pixels[i] \in Nat
      <4>1. pixels[i] \in Pixel
        BY <3>5
      <4> QED BY <1>1, <4>1
    <3>9. readBit(writeBit(pixels[i], Bit(msg[c], j - 1))) = Bit(msg[c], j - 1)
      BY <3>7, <3>8, Written
    <3>10. Position((LenBits + a) + j - 1) = i
      <4>1. PICK k \in Nat : k = (LenBits + a) + j - 1 /\ i = k + 1
        BY <1>1, <3>1
      <4>2. k < IndexRange
        <5>1. PICK y \in Nat : y = Len(msg) * CharBits
          BY <1>4
        <5> QED BY <1>1, <1>4, <3>1, <3>4, <4>1, <5>1
      <4>3. Position(k) = k + 1
        BY <4>2, PositionIs
      <4> QED BY <4>1, <4>3
    <3> QED BY <3>6, <3>9, <3>10
  <2> HIDE DEF e
  <2>4. LenBits + a \in Nat
    BY <1>1
  <2>5. Number(e, LenBits + a, CharBits) = msg[c]
    BY <1>1, <2>2, <2>3, <2>4, NumberIs
  <2> QED BY <2>1, <2>5
<1>8. Len(msg) <= capacity(Len(e))
  <2>1. CASE Len(pixels) <= LenBits
    <3>1. Len(msg) * CharBits = 0
      BY <1>1, <1>2, <1>4, <2>1
    <3>2. Len(msg) = 0
      <4>1. Len(msg) >= 1 => Len(msg) * CharBits >= CharBits
        BY <1>1, <1>2
      <4> QED BY <1>1, <1>2, <3>1, <4>1
    <3> QED BY <1>5, <2>1, <3>2 DEF capacity
  <2>2. CASE Len(pixels) > LenBits
    <3>1. PICK d \in Nat, y \in Nat : d = Len(pixels) - LenBits /\ y = Len(msg) * CharBits /\ y <= d
      <4>1. Len(pixels) - LenBits \in Nat /\ Len(msg) * CharBits <= Len(pixels) - LenBits
        BY <1>1, <1>2, <1>4, <2>2
      <4> QED BY <1>4, <4>1
    <3>2. PICK q \in Nat, r \in 0..(CharBits - 1) : q = d \div CharBits /\ d = q * CharBits + r
      BY <1>1, Divided
    <3>3. ASSUME Len(msg) >= q + 1 PROVE FALSE
      <4>1. y >= (q + 1) * CharBits
        BY <1>1, <1>2, <3>1, <3>3
      <4>2. PICK x \in Nat : x = q * CharBits
        BY <1>1
      <4>3. (q + 1) * CharBits = x + CharBits
        BY <1>1, <4>2
      <4> QED BY <1>1, <3>1, <3>2, <4>1, <4>2, <4>3
    <3>4. Len(msg) <= q
      BY <1>2, <3>3
    <3>5. capacity(Len(e)) = q
      BY <1>1, <1>2, <1>5, <2>2, <3>1, <3>2 DEF capacity
    <3> QED BY <3>4, <3>5
  <2> QED BY <1>1, <1>2, <2>1, <2>2
<1> HIDE DEF e
<1>9. extract(e) = [c \in 1..Len(msg) |-> Number(e, LenBits + (c - 1) * CharBits, CharBits)]
  <2>1. ~(Len(e) < LenBits \/ Len(e) < LenBits + Len(msg) * CharBits
           \/ Len(msg) > capacity(Len(e)))
    <3>1. capacity(Len(e)) \in Nat
      BY <1>2, <1>5, CapacityType
    <3> QED BY <1>1, <1>2, <1>4, <1>5, <1>8, <3>1, SMTT(60)
  <2> QED BY <1>6, <2>1, Zenon DEF extract
<1>10. extract(e) = msg
  <2>1. extract(e) = [c \in 1..Len(msg) |-> msg[c]]
    BY <1>7, <1>9
  <2>2. msg = [c \in 1..Len(msg) |-> msg[c]]
    OBVIOUS
  <2> QED BY <2>1, <2>2
<1> QED BY <1>10 DEF e

-----------------------------------------------------------------------------
(* The message box.                                                        *)

Flattens(f, seqs, n) == f = [i \in 1..n |-> IF i = 1 THEN seqs[i] ELSE f[i - 1] \o seqs[i]]

LEMMA FlattensExists == ASSUME NEW seqs, NEW n \in Nat PROVE \E f : Flattens(f, seqs, n)
<1> DEFINE S == {m \in Nat : \E f : Flattens(f, seqs, m)}
<1>1. 0 \in S
  <2>1. PICK f : f = [i \in 1..0 |-> seqs[i]]
    OBVIOUS
  <2>2. Flattens(f, seqs, 0)
    BY <2>1 DEF Flattens
  <2> QED BY <2>2
<1>2. ASSUME NEW m \in Nat, m \in S PROVE m + 1 \in S
  <2>1. PICK f : Flattens(f, seqs, m)
    BY <1>2
  <2>2. PICK g : g = [i \in 1..(m + 1) |-> IF i <= m THEN f[i]
                                           ELSE IF i = 1 THEN seqs[i] ELSE f[i - 1] \o seqs[i]]
    OBVIOUS
  <2>3. \A i \in 1..(m + 1) : g[i] = IF i = 1 THEN seqs[i] ELSE g[i - 1] \o seqs[i]
    <3> SUFFICES ASSUME NEW i \in 1..(m + 1)
                 PROVE  g[i] = IF i = 1 THEN seqs[i] ELSE g[i - 1] \o seqs[i]
      OBVIOUS
    <3>1. i # 1 => g[i - 1] = f[i - 1]
      BY <2>2
    <3>2. i <= m => g[i] = f[i] /\ f[i] = IF i = 1 THEN seqs[i] ELSE f[i - 1] \o seqs[i]
      <4> SUFFICES ASSUME i <= m
                   PROVE  g[i] = f[i] /\ f[i] = IF i = 1 THEN seqs[i] ELSE f[i - 1] \o seqs[i]
        OBVIOUS
      <4>1. i \in 1..m
        OBVIOUS
      <4>2. g[i] = f[i]
        BY <2>2
      <4>3. f[i] = IF i = 1 THEN seqs[i] ELSE f[i - 1] \o seqs[i]
        BY <2>1, <4>1 DEF Flattens
      <4> QED BY <4>2, <4>3
    <3>3. ~(i <= m) => g[i] = IF i = 1 THEN seqs[i] ELSE f[i - 1] \o seqs[i]
      BY <2>2
    <3> QED BY <3>1, <3>2, <3>3
  <2>4. g = [i \in 1..(m + 1) |-> g[i]]
    BY <2>2
  <2>5. Flattens(g, seqs, m + 1)
    BY <2>3, <2>4 DEF Flattens
  <2> QED BY <2>5
<1> HIDE DEF S
<1>3. n \in S
  BY <1>1, <1>2, Induction
<1> QED BY <1>3 DEF S

\* Sequences of at most l characters each, one after the other.
LEMMA FlattenIs ==
    ASSUME NEW S, NEW l \in Nat, NEW seqs \in Seq(Seq(S)),
           \A i \in 1..Len(seqs) : Len(seqs[i]) <= l
    PROVE  FlattenSeq(seqs) \in Seq(S) /\ Len(FlattenSeq(seqs)) <= Len(seqs) * l
<1>1. PICK n \in Nat : n = Len(seqs)
  OBVIOUS
<1>2. CASE n = 0
  <2>1. seqs = <<>>
    BY <1>1, <1>2, EmptySeq
  <2>2. FlattenSeq(seqs) = <<>>
    BY <2>1 DEF FlattenSeq
  <2> QED BY <1>1, <1>2, <2>2
<1>3. CASE n # 0
  <2>1. PICK f : Flattens(f, seqs, n) /\ FlattenSeq(seqs) = f[n]
    <3>1. \E f : f = [i \in 1..n |-> IF i = 1 THEN seqs[i] ELSE f[i - 1] \o seqs[i]]
      BY FlattensExists DEF Flattens
    <3>2. Flattens(CHOOSE f : f = [i \in 1..n |-> IF i = 1 THEN seqs[i] ELSE f[i - 1] \o seqs[i]],
                   seqs, n)
      BY <3>1, Zenon DEF Flattens
    <3>3. FlattenSeq(seqs)
          = (CHOOSE f : f = [i \in 1..n |-> IF i = 1 THEN seqs[i] ELSE f[i - 1] \o seqs[i]])[n]
      BY <1>1, <1>3, Zenon DEF FlattenSeq
    <3> QED BY <3>2, <3>3, Zenon
  <2> DEFINE T == {i \in Nat : i \in 1..n => f[i] \in Seq(S) /\ Len(f[i]) <= i * l}
  <2>2. 0 \in T
    OBVIOUS
  <2>3. ASSUME NEW i \in Nat, i \in T PROVE i + 1 \in T
    <3> SUFFICES ASSUME i + 1 \in 1..n
                 PROVE  f[i + 1] \in Seq(S) /\ Len(f[i + 1]) <= (i + 1) * l
      OBVIOUS
    <3>1. seqs[i + 1] \in Seq(S) /\ Len(seqs[i + 1]) <= l /\ Len(seqs[i + 1]) \in Nat
      BY <1>1
    <3>2. PICK x \in Nat : x = i * l /\ (i + 1) * l = x + l
      OBVIOUS
    <3>3. CASE i = 0
      <4>1. f[i + 1] = seqs[i + 1]
        BY <2>1, <3>3 DEF Flattens
      <4>2. (i + 1) * l = l
        BY <3>3
      <4> QED BY <3>1, <4>1, <4>2
    <3>4. CASE i # 0
      <4>1. i \in 1..n /\ (i + 1) - 1 = i /\ i + 1 # 1
        BY <3>4
      <4>2. f[i] \in Seq(S) /\ Len(f[i]) <= i * l
        BY <2>3, <4>1
      <4>3. f[i + 1] = f[i] \o seqs[i + 1]
        BY <2>1, <4>1 DEF Flattens
      <4>4. /\ f[i] \o seqs[i + 1] \in Seq(S)
            /\ Len(f[i] \o seqs[i + 1]) = Len(f[i]) + Len(seqs[i + 1]) /\ Len(f[i]) \in Nat
        BY <3>1, <4>2
      <4>5. Len(f[i + 1]) <= x + l
        <5>1. PICK u \in Nat, w \in Nat : u = Len(f[i]) /\ w = Len(seqs[i + 1])
          BY <3>1, <4>4
        <5>2. u <= x /\ w <= l
          BY <3>1, <3>2, <4>2, <5>1
        <5>3. Len(f[i + 1]) = u + w
          BY <4>3, <4>4, <5>1
        <5> QED BY <5>2, <5>3
      <4> QED BY <3>2, <4>3, <4>4, <4>5
    <3> QED BY <3>3, <3>4
  <2> HIDE DEF T
  <2>4. n \in T
    BY <2>2, <2>3, Induction
  <2>5. f[n] \in Seq(S) /\ Len(f[n]) <= n * l
    BY <1>3, <2>4 DEF T
  <2> QED BY <1>1, <2>1, <2>5
<1> QED BY <1>2, <1>3

\* What the box shows is text, of at most the bytes of U+FFFD for each byte.
LEMMA ShownIs ==
    ASSUME NEW m \in Seq(Char)
    PROVE  Shown(m) \in Seq(Char \ NoText) /\ Len(Shown(m)) <= Len(m) * Len(Replaced)
<1> DEFINE text(i) == IF m[i] \in NoText THEN Replaced ELSE <<m[i]>>
<1>1. Replaced \in Seq(Char \ NoText) /\ Len(Replaced) \in Nat \ {0}
  BY TabAssumption, RoomAssumption
<1>2. ASSUME NEW i \in 1..Len(m)
      PROVE  text(i) \in Seq(Char \ NoText) /\ Len(text(i)) <= Len(Replaced)
  <2>1. CASE m[i] \in NoText
    BY <1>1, <2>1
  <2>2. CASE m[i] \notin NoText
    <3>1. m[i] \in Char \ NoText
      BY <2>2
    <3>2. <<m[i]>> \in Seq(Char \ NoText) /\ Len(<<m[i]>>) = 1
      BY <3>1
    <3> QED BY <1>1, <2>2, <3>2
  <2> QED BY <2>1, <2>2
<1>3. PICK seqs : seqs = [i \in 1..Len(m) |-> text(i)]
  OBVIOUS
<1>4. seqs \in Seq(Seq(Char \ NoText)) /\ Len(seqs) = Len(m)
  BY <1>2, <1>3
<1>5. \A i \in 1..Len(seqs) : Len(seqs[i]) <= Len(Replaced)
  BY <1>2, <1>3, <1>4
<1>6. Shown(m) = FlattenSeq(seqs)
  BY <1>3 DEF Shown
<1>7. PICK l \in Nat : l = Len(Replaced)
  BY <1>1
<1>8. \A i \in 1..Len(seqs) : Len(seqs[i]) <= l
  BY <1>5, <1>7
<1>9. FlattenSeq(seqs) \in Seq(Char \ NoText) /\ Len(FlattenSeq(seqs)) <= Len(seqs) * l
  BY <1>4, <1>8, FlattenIs
<1> QED BY <1>4, <1>6, <1>7, <1>9

\* What extract() returns is no longer than capacity() says.
LEMMA ExtractIs ==
    ASSUME NEW pixels \in Seq(Pixel)
    PROVE  /\ extract(pixels) \in Seq(Char)
           /\ Len(extract(pixels)) <= capacity(Len(pixels)) /\ capacity(Len(pixels)) \in Nat
<1>1. /\ LenBits \in Nat \ {0} /\ CharBits \in Nat \ {0} /\ Pixel \subseteq Nat
  BY StegWidths
<1>2. Len(pixels) \in Nat
  OBVIOUS
<1>3. capacity(Len(pixels)) \in Nat
  BY <1>2, CapacityType
<1>4. PICK len : len = Number(pixels, 0, LenBits)
  OBVIOUS
<1>5. CASE Len(pixels) < LenBits \/ Len(pixels) < LenBits + len * CharBits
           \/ len > capacity(Len(pixels))
  <2>1. extract(pixels) = <<>>
    BY <1>4, <1>5, Zenon DEF extract
  <2>2. <<>> \in Seq(Char) /\ Len(<<>>) = 0
    OBVIOUS
  <2> QED BY <1>3, <2>1, <2>2
<1>6. CASE ~(Len(pixels) < LenBits \/ Len(pixels) < LenBits + len * CharBits
           \/ len > capacity(Len(pixels)))
  <2>1. \A i \in 1..Len(pixels) : pixels[i] \in Nat
    <3>1. \A i \in 1..Len(pixels) : pixels[i] \in Pixel
      OBVIOUS
    <3> QED BY <1>1, <3>1
  <2>2. LenBits <= Len(pixels)
    BY <1>1, <1>2, <1>6
  <2>3. len \in Nat
    <3>1. ASSUME NEW i \in 1..LenBits PROVE pixels[Position(0 + i - 1)] \in Nat
      <4>1. PICK k \in Nat : k = 0 + i - 1 /\ k + 1 <= Len(pixels)
        BY <1>1, <1>2, <2>2
      <4>2. Position(k) \in 1..(k + 1)
        BY PositionIs
      <4>3. Position(k) \in 1..Len(pixels)
        BY <1>2, <4>1, <4>2
      <4> QED BY <2>1, <4>1, <4>3
    <3>2. Number(pixels, 0, LenBits) \in 0..(Power(2, LenBits) - 1)
      BY <1>1, <3>1, NumberType
    <3>3. Power(2, LenBits) \in Nat
      BY <1>1, Powers2
    <3> QED BY <1>4, <3>2, <3>3
  <2>4. LenBits + len * CharBits <= Len(pixels) /\ len <= capacity(Len(pixels))
    BY <1>1, <1>2, <1>3, <1>6, <2>3
  <2>5. ASSUME NEW c \in 1..len
        PROVE  Number(pixels, LenBits + (c - 1) * CharBits, CharBits) \in Char
    <3>1. PICK a \in Nat : a = (c - 1) * CharBits
      BY <1>1, <2>3
    <3>2. a + CharBits <= len * CharBits
      <4>1. c * CharBits = a + CharBits
        BY <1>1, <2>3, <3>1
      <4>2. c * CharBits <= len * CharBits
        BY <1>1, <2>3
      <4> QED BY <4>1, <4>2
    <3>3. PICK y \in Nat : y = len * CharBits
      BY <1>1, <2>3
    <3>4. ASSUME NEW j \in 1..CharBits PROVE pixels[Position((LenBits + a) + j - 1)] \in Nat
      <4>1. PICK k \in Nat : k = (LenBits + a) + j - 1 /\ k + 1 <= Len(pixels)
        BY <1>1, <1>2, <2>4, <3>2, <3>3
      <4>2. Position(k) \in 1..(k + 1)
        BY PositionIs
      <4>3. Position(k) \in 1..Len(pixels)
        BY <1>2, <4>1, <4>2
      <4> QED BY <2>1, <4>1, <4>3
    <3>5. LenBits + a \in Nat
      BY <1>1
    <3>6. Number(pixels, LenBits + a, CharBits) \in 0..(Power(2, CharBits) - 1)
      BY <1>1, <3>4, <3>5, NumberType
    <3> QED BY <3>1, <3>6 DEF Char
  <2>6. extract(pixels)
        = [c \in 1..len |-> Number(pixels, LenBits + (c - 1) * CharBits, CharBits)]
    BY <1>4, <1>6, Zenon DEF extract
  <2>7. extract(pixels) \in [1..len -> Char]
    BY <2>5, <2>6
  <2>8. extract(pixels) \in Seq(Char) /\ Len(extract(pixels)) = len
    BY <2>3, <2>7
  <2> QED BY <1>3, <2>4, <2>8
<1> QED BY <1>5, <1>6

-----------------------------------------------------------------------------
(* The tab.                                                                *)

\* A text that can be in the message box: its length fits the length field.
Text == {m \in Seq(Char \ NoText) : Len(m) < Power(2, LenBits)}

StegTypes ==
    /\ files \in [Paths -> Seq(Pixel) \cup {NoPicture}]
    /\ cover \in [Paths -> Covers \cup {NoPicture}]
    /\ hidden \in [Paths -> {<<>>} \cup {<<m>> : m \in Text}]
    /\ stegMsg \in Text
    /\ \A p \in Paths : files[p] = NoPicture <=> cover[p] = NoPicture
    /\ \A p \in Paths : files[p] = NoPicture => hidden[p] = <<>>

StegInv == StegTypes /\ LastMessageIsRead /\ OnlyLowBitsChange

LEMMA Pictures ==
    /\ Covers \subseteq Seq(Pixel) /\ NoPicture \notin Seq(Pixel)
    /\ Text \subseteq Seq(Char) /\ \A m \in Text : Len(m) < Power(2, LenBits)
    /\ Messages \subseteq Text
<1>1. Text \subseteq Seq(Char)
  <2> SUFFICES ASSUME NEW m \in Text PROVE m \in Seq(Char)
    OBVIOUS
  <2>1. m \in Seq(Char \ NoText)
    BY DEF Text
  <2>2. Len(m) \in Nat /\ m \in [1..Len(m) -> Char]
    BY <2>1
  <2> QED BY <2>2
<1> QED BY <1>1, TabAssumption DEF Text

LEMMA InitSteg == Init => StegInv
<1> SUFFICES ASSUME Init PROVE StegInv
  OBVIOUS
<1>1. /\ files \in [Paths -> Covers \cup {NoPicture}] /\ cover = files
      /\ stegMsg = <<>> /\ hidden = [p \in Paths |-> <<>>]
  BY DEF Init
<1>2. files \in [Paths -> Seq(Pixel) \cup {NoPicture}]
  BY <1>1, Pictures
<1>3. <<>> \in Text
  <2>1. LenBits \in Nat
    BY StegWidths
  <2>2. Power(2, LenBits) \in Nat \ {0}
    BY <2>1, Powers2
  <2>3. <<>> \in Seq(Char \ NoText) /\ Len(<<>>) = 0
    OBVIOUS
  <2> QED BY <2>2, <2>3 DEF Text
<1>4. StegTypes
  <2>1. hidden \in [Paths -> {<<>>} \cup {<<m>> : m \in Text}]
    BY <1>1
  <2>2. \A p \in Paths : hidden[p] = <<>>
    BY <1>1
  <2> QED BY <1>1, <1>2, <1>3, <2>1, <2>2 DEF StegTypes
<1>5. LastMessageIsRead
  BY <1>1 DEF LastMessageIsRead
<1>6. OnlyLowBitsChange
  BY <1>1 DEF OnlyLowBitsChange
<1> QED BY <1>4, <1>5, <1>6 DEF StegInv

\* A step that leaves the files alone.
LEMMA QuietSteg ==
    ASSUME StegInv, UNCHANGED <<files, cover, hidden>>, stegMsg' \in Text
    PROVE  StegInv'
<1>1. files' = files /\ cover' = cover /\ hidden' = hidden
  OBVIOUS
<1>2. StegTypes'
  BY <1>1 DEF StegInv, StegTypes
<1>3. LastMessageIsRead'
  BY <1>1 DEF StegInv, LastMessageIsRead
<1>4. OnlyLowBitsChange'
  BY <1>1 DEF StegInv, OnlyLowBitsChange
<1> QED BY <1>2, <1>3, <1>4 DEF StegInv

\* A message and a picture in which it fits.
LEMMA Embeds ==
    ASSUME StegInv, NEW in \in Paths, files[in] # NoPicture, Fits(files[in], stegMsg)
    PROVE  /\ files[in] \in Seq(Pixel) /\ cover[in] \in Covers
           /\ Embedded(files[in], stegMsg) \in Seq(Pixel)
           /\ InRange(stegMsg) => extract(Embedded(files[in], stegMsg)) = stegMsg
           /\ Len(Embedded(files[in], stegMsg)) = Len(cover[in])
           /\ \A i \in 1..Len(Embedded(files[in], stegMsg)) :
                 Embedded(files[in], stegMsg)[i] \div 2 = cover[in][i] \div 2
<1>1. files[in] \in Seq(Pixel) /\ cover[in] \in Covers /\ stegMsg \in Text
  BY DEF StegInv, StegTypes
<1>2. PICK px \in Seq(Pixel), m \in Seq(Char) :
         px = files[in] /\ m = stegMsg /\ Len(m) < Power(2, LenBits) /\ Fits(px, m)
  <2>1. stegMsg \in Seq(Char) /\ Len(stegMsg) < Power(2, LenBits)
    BY <1>1, Pictures
  <2> QED BY <1>1, <2>1
<1>3. /\ Embedded(px, m) \in Seq(Pixel) /\ Len(Embedded(px, m)) = Len(px)
      /\ \A i \in 1..Len(px) : Embedded(px, m)[i] \div 2 = px[i] \div 2
  BY EmbeddedKeeps
<1>4. InRange(m) => extract(Embedded(px, m)) = m
  BY <1>2, EmbedThenExtract
<1>5. Len(px) = Len(cover[in]) /\ \A i \in 1..Len(px) : px[i] \div 2 = cover[in][i] \div 2
  BY <1>2 DEF StegInv, OnlyLowBitsChange
<1> QED BY <1>1, <1>2, <1>3, <1>4, <1>5

LEMMA SaveSteg ==
    ASSUME StegInv, NEW in \in Paths, NEW out \in Paths, files[in] # NoPicture,
           Fits(files[in], stegMsg), Save(in, out)
    PROVE  StegInv'
<1>0. stegMsg \in Text /\ stegMsg' = stegMsg
  BY DEF StegInv, StegTypes, Save
<1>1. CASE UNCHANGED <<files, cover, hidden>>
  BY <1>0, <1>1, QuietSteg
<1>2. PICK e : e = Embedded(files[in], stegMsg)
  OBVIOUS
<1>3. /\ cover[in] \in Covers /\ e \in Seq(Pixel)
      /\ InRange(stegMsg) => extract(e) = stegMsg
      /\ Len(e) = Len(cover[in])
      /\ \A i \in 1..Len(e) : e[i] \div 2 = cover[in][i] \div 2
  BY <1>2, Embeds
<1>4. CASE /\ files' = [files EXCEPT ![out] = e]
           /\ cover' = [cover EXCEPT ![out] = cover[in]]
           /\ hidden' = [hidden EXCEPT ![out] = <<stegMsg>>]
  <2>1. \A p \in Paths \ {out} : /\ files'[p] = files[p] /\ cover'[p] = cover[p]
                                 /\ hidden'[p] = hidden[p]
    BY <1>4 DEF StegInv, StegTypes
  <2>2. files'[out] = e /\ cover'[out] = cover[in] /\ hidden'[out] = <<stegMsg>>
    BY <1>4 DEF StegInv, StegTypes
  <2>3. e # NoPicture /\ cover[in] # NoPicture
    BY <1>3, Pictures
  <2>4. StegTypes'
    <3>1. /\ files' \in [Paths -> Seq(Pixel) \cup {NoPicture}]
          /\ cover' \in [Paths -> Covers \cup {NoPicture}]
          /\ hidden' \in [Paths -> {<<>>} \cup {<<m>> : m \in Text}]
      BY <1>0, <1>3, <1>4 DEF StegInv, StegTypes
    <3>2. \A p \in Paths : files'[p] = NoPicture <=> cover'[p] = NoPicture
      BY <2>1, <2>2, <2>3 DEF StegInv, StegTypes
    <3>3. \A p \in Paths : files'[p] = NoPicture => hidden'[p] = <<>>
      BY <2>1, <2>2, <2>3 DEF StegInv, StegTypes
    <3> QED BY <1>0, <3>1, <3>2, <3>3 DEF StegTypes
  <2>5. LastMessageIsRead'
    <3> SUFFICES ASSUME NEW p \in Paths, hidden'[p] # <<>>, InRange(hidden'[p][1])
                 PROVE  extract(files'[p]) = hidden'[p][1]
      BY DEF LastMessageIsRead, InRange
    <3>1. CASE p = out
      BY <1>3, <2>2, <3>1
    <3>2. CASE p # out
      BY <2>1, <3>2 DEF StegInv, LastMessageIsRead
    <3> QED BY <3>1, <3>2
  <2>6. OnlyLowBitsChange'
    <3> SUFFICES ASSUME NEW p \in Paths, files'[p] # NoPicture
                 PROVE  /\ Len(files'[p]) = Len(cover'[p])
                        /\ \A i \in 1..Len(files'[p]) : files'[p][i] \div 2 = cover'[p][i] \div 2
      BY DEF OnlyLowBitsChange
    <3>1. CASE p = out
      BY <1>3, <2>2, <3>1
    <3>2. CASE p # out
      BY <2>1, <3>2 DEF StegInv, OnlyLowBitsChange
    <3> QED BY <3>1, <3>2
  <2> QED BY <2>4, <2>5, <2>6 DEF StegInv
<1>5. CASE /\ files' = [files EXCEPT ![out] = NoPicture]
           /\ cover' = [cover EXCEPT ![out] = NoPicture]
           /\ hidden' = [hidden EXCEPT ![out] = <<>>]
  <2>1. \A p \in Paths \ {out} : /\ files'[p] = files[p] /\ cover'[p] = cover[p]
                                 /\ hidden'[p] = hidden[p]
    BY <1>5 DEF StegInv, StegTypes
  <2>2. files'[out] = NoPicture /\ cover'[out] = NoPicture /\ hidden'[out] = <<>>
    BY <1>5 DEF StegInv, StegTypes
  <2>3. StegTypes'
    <3>1. /\ files' \in [Paths -> Seq(Pixel) \cup {NoPicture}]
          /\ cover' \in [Paths -> Covers \cup {NoPicture}]
          /\ hidden' \in [Paths -> {<<>>} \cup {<<m>> : m \in Text}]
      BY <1>5 DEF StegInv, StegTypes
    <3> QED BY <1>0, <2>1, <2>2, <3>1 DEF StegInv, StegTypes
  <2>4. LastMessageIsRead'
    BY <2>1, <2>2 DEF StegInv, LastMessageIsRead
  <2>5. OnlyLowBitsChange'
    BY <2>1, <2>2 DEF StegInv, OnlyLowBitsChange
  <2> QED BY <2>3, <2>4, <2>5 DEF StegInv
<1> QED BY <1>1, <1>2, <1>4, <1>5 DEF Save

\* What extract() finds in any picture fits the length field again once shown.
LEMMA ShownFits ==
    ASSUME StegInv, NEW in \in Paths, files[in] # NoPicture
    PROVE  Shown(extract(files[in])) \in Text
<1>1. PICK px \in Seq(Pixel), c \in Covers : px = files[in] /\ c = cover[in] /\ Len(px) = Len(c)
  BY DEF StegInv, StegTypes, OnlyLowBitsChange
<1>2. PICK m \in Seq(Char) : /\ m = extract(px) /\ Len(m) <= capacity(Len(px))
                             /\ capacity(Len(px)) \in Nat
  BY ExtractIs
<1>3. Shown(m) \in Seq(Char \ NoText) /\ Len(Shown(m)) <= Len(m) * Len(Replaced)
  BY ShownIs
<1>4. capacity(Len(px)) * Len(Replaced) < Power(2, LenBits)
  BY <1>1, RoomAssumption
<1>5. Len(Replaced) \in Nat /\ Len(m) \in Nat /\ Len(Shown(m)) \in Nat
  BY <1>3, TabAssumption
<1>6. Power(2, LenBits) \in Nat
  <2>1. LenBits \in Nat
    BY StegWidths
  <2> QED BY <2>1, Powers2
<1>7. PICK l \in Nat, a \in Nat, n \in Nat :
         l = Len(Replaced) /\ a = Len(m) /\ n = capacity(Len(px)) /\ a <= n
  BY <1>2, <1>5
<1>8. a * l <= n * l /\ a * l \in Nat /\ n * l \in Nat
  BY <1>7
<1>9. Len(Shown(m)) < Power(2, LenBits)
  BY <1>3, <1>4, <1>5, <1>6, <1>7, <1>8
<1> QED BY <1>1, <1>2, <1>3, <1>9 DEF Text

LEMMA StepSteg == StegInv /\ [Next]_vars => StegInv'
<1> SUFFICES ASSUME StegInv, [Next]_vars PROVE StegInv'
  OBVIOUS
<1>0. stegMsg \in Text
  BY DEF StegInv, StegTypes
<1>1. ASSUME NEW m \in Messages, Type(m) PROVE StegInv'
  BY <1>1, QuietSteg, Pictures DEF Type
<1>2. ASSUME NEW in \in Paths, NEW out \in Paths, onStegEmbed(in, out) PROVE StegInv'
  <2>1. CASE files[in] = NoPicture \/ ~Fits(files[in], stegMsg)
    <3>1. UNCHANGED <<files, cover, hidden>> /\ stegMsg' = stegMsg
      BY <1>2, <2>1 DEF onStegEmbed, Refuse
    <3> QED BY <1>0, <3>1, QuietSteg
  <2>2. CASE files[in] # NoPicture /\ Fits(files[in], stegMsg)
    BY <1>2, <2>2, SaveSteg DEF onStegEmbed
  <2> QED BY <2>1, <2>2
<1>3. ASSUME NEW in \in Paths, onStegExtract(in) PROVE StegInv'
  <2>1. CASE files[in] = NoPicture
    <3>1. UNCHANGED <<files, cover, hidden>> /\ stegMsg' = stegMsg
      BY <1>3, <2>1 DEF onStegExtract, Refuse
    <3> QED BY <1>0, <3>1, QuietSteg
  <2>2. CASE files[in] # NoPicture
    <3>1. UNCHANGED <<files, cover, hidden>> /\ stegMsg' = Shown(extract(files[in]))
      BY <1>3, <2>2 DEF onStegExtract
    <3>2. stegMsg' \in Text
      BY <2>2, <3>1, ShownFits
    <3> QED BY <3>1, <3>2, QuietSteg
  <2> QED BY <2>1, <2>2
<1>4. CASE UNCHANGED vars
  <2>1. UNCHANGED <<files, cover, hidden>> /\ stegMsg' = stegMsg
    BY <1>4 DEF vars
  <2> QED BY <1>0, <2>1, QuietSteg
<1> QED BY <1>1, <1>2, <1>3, <1>4 DEF Next

\* The invariant of the tab, with the types that extract() and Shown keep.
THEOREM StegInvariant == Spec => []StegInv
BY InitSteg, StepSteg, PTL DEF Spec

-----------------------------------------------------------------------------
(* What it implies.                                                        *)

\* Whatever was hidden in a picture before and whichever files were overwritten,
\* a file gives back the message embedded into it last, for every width of the
\* length field and every text that ends within the range of extract()'s index,
\* in pictures of any size.
THEOREM LastMessage == Spec => []LastMessageIsRead
<1>1. StegInv => LastMessageIsRead
  BY DEF StegInv
<1> QED BY <1>1, StegInvariant, PTL

\* However often pictures are embedded into and saved over each other, a picture
\* differs from the one it was made from in the low bits of its bytes only.
THEOREM LowBits == Spec => []OnlyLowBitsChange
<1>1. StegInv => OnlyLowBitsChange
  BY DEF StegInv
<1> QED BY <1>1, StegInvariant, PTL

LEMMA FitsIsCapacity ==
    ASSUME NEW n \in Nat, n >= LenBits, NEW len \in Nat
    PROVE  n >= LenBits + len * CharBits <=> ~(len > capacity(n))
<1>1. LenBits \in Nat \ {0} /\ CharBits \in Nat \ {0}
  BY StegWidths
<1>2. PICK d \in Nat : d = n - LenBits
  BY <1>1
<1>3. PICK q \in Nat, r \in 0..(CharBits - 1) : q = d \div CharBits /\ d = q * CharBits + r
  BY <1>1, Divided
<1>4. capacity(n) = q
  <2>1. CASE n <= LenBits
    <3>1. d = 0
      BY <1>1, <1>2, <2>1
    <3>2. 0 \div CharBits = 0
      BY <1>1
    <3> QED BY <1>3, <2>1, <3>1, <3>2 DEF capacity
  <2>2. CASE ~(n <= LenBits)
    BY <1>2, <1>3, <2>2 DEF capacity
  <2> QED BY <2>1, <2>2
<1>5. PICK x \in Nat, y \in Nat : x = q * CharBits /\ y = len * CharBits
  BY <1>1
<1>6. len <= q => y <= x
  BY <1>1, <1>5
<1>7. len >= q + 1 => y >= x + CharBits
  <2> SUFFICES ASSUME len >= q + 1 PROVE y >= x + CharBits
    OBVIOUS
  <2>1. len * CharBits >= (q + 1) * CharBits
    BY <1>1
  <2>2. (q + 1) * CharBits = x + CharBits
    BY <1>1, <1>5
  <2> QED BY <1>5, <2>1, <2>2
<1>8. y <= d <=> len <= q
  BY <1>1, <1>3, <1>5, <1>6, <1>7
<1>9. n >= LenBits + y <=> y <= d
  BY <1>1, <1>2
<1> QED BY <1>4, <1>5, <1>8, <1>9

\* A text is refused as too long exactly when it is longer than capacity() says,
\* for every picture with room for the header and every text of the box.
THEOREM ExactCapacity == Spec => CapacityIsExact
<1>1. ASSUME StegInv, [Next]_vars, NEW in \in Paths, NEW out \in Paths,
             files[in] # NoPicture, Len(files[in]) >= LenBits, onStegEmbed(in, out)
      PROVE  status' = "too small" <=> Len(stegMsg) > capacity(Len(files[in]))
  <2>1. PICK px \in Seq(Pixel), m \in Text : px = files[in] /\ m = stegMsg
    BY <1>1 DEF StegInv, StegTypes
  <2>2. Len(px) \in Nat /\ Len(m) \in Nat /\ Len(m) < Power(2, LenBits) /\ LenBits \in Nat
    BY Pictures, StegWidths DEF Text
  <2>3. LenField(m) = Len(m)
    <3>1. Power(2, LenBits) \in Nat \ {0}
      BY <2>2, Powers2
    <3> QED BY <2>2, <3>1, Small DEF LenField
  <2>4. Fits(px, m) <=> ~(Len(m) > capacity(Len(px)))
    BY <1>1, <2>1, <2>2, <2>3, FitsIsCapacity DEF Fits
  <2>5. status' = "too small" <=> ~Fits(px, m)
    BY <1>1, <2>1 DEF onStegEmbed, Refuse, Save
  <2> QED BY <2>1, <2>4, <2>5
<1>2. StegInv /\ [Next]_vars =>
         [\A in, out \in Paths :
            files[in] # NoPicture /\ Len(files[in]) >= LenBits /\ onStegEmbed(in, out) =>
               (status' = "too small" <=> Len(stegMsg) > capacity(Len(files[in])))]_vars
  BY <1>1
<1> QED BY <1>2, StegInvariant, PTL DEF Spec, CapacityIsExact
=============================================================================
