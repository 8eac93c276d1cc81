----------------------------- MODULE ExprProofs -----------------------------
(***************************************************************************)
(* ExprParser, for every input: the call stack is as deep as parentheses   *)
(* and signs require, and no deeper; plain expressions, however large, are *)
(* evaluated as they are written; nothing that was read on the way to a    *)
(* result is missing from it; and the parser comes to an end.              *)
(***************************************************************************)
EXTENDS ExprSpelling, Integers, TLAPS, SequenceTheorems, FiniteSetTheorems, NaturalsInduction,
        WellFoundedInduction

-----------------------------------------------------------------------------
(* The call stack as a sequence.                                           *)

IsSequence(s) == \E S : s \in Seq(S)

LEMMA Pushed ==
    ASSUME NEW s, IsSequence(s), NEW f
    PROVE  /\ IsSequence(Append(s, f)) /\ Len(s) \in Nat /\ Len(Append(s, f)) = Len(s) + 1
           /\ \A k \in 1..Len(s) : Append(s, f)[k] = s[k]
           /\ Append(s, f)[Len(s) + 1] = f
<1>1. PICK S : s \in Seq(S)
  BY DEF IsSequence
<1>2. PICK T : T = S \cup {f}
  OBVIOUS
<1>3. s \in Seq(T) /\ f \in T
  <2>1. Len(s) \in Nat /\ s \in [1..Len(s) -> S]
    BY <1>1
  <2>2. s \in [1..Len(s) -> T]
    BY <1>2, <2>1
  <2> QED BY <1>2, <2>1, <2>2
<1>4. /\ Append(s, f) \in Seq(T) /\ Len(s) \in Nat /\ Len(Append(s, f)) = Len(s) + 1
      /\ \A k \in 1..Len(s) : Append(s, f)[k] = s[k]
      /\ Append(s, f)[Len(s) + 1] = f
  BY <1>3, AppendProperties
<1> QED BY <1>4 DEF IsSequence

LEMMA Popped ==
    ASSUME NEW s, IsSequence(s), s # <<>>
    PROVE  LET p == SubSeq(s, 1, Len(s) - 1)
           IN  /\ IsSequence(p) /\ Len(s) \in Nat \ {0} /\ Len(p) = Len(s) - 1
               /\ \A k \in 1..Len(p) : p[k] = s[k]
<1>1. PICK S : s \in Seq(S)
  BY DEF IsSequence
<1>2. Len(s) \in Nat \ {0}
  BY <1>1, EmptySeq
<1>3. PICK n \in Nat : n = Len(s) - 1
  BY <1>2
<1>4. PICK p : p = SubSeq(s, 1, n)
  OBVIOUS
<1>5. \A k \in 1..n : s[k] \in S
  BY <1>1, <1>2, <1>3
<1>6. p \in Seq(S) /\ Len(p) = n /\ \A k \in 1..n : p[k] = s[k]
  <2>1. /\ p \in Seq(S) /\ Len(p) = IF 1 <= n THEN n - 1 + 1 ELSE 0
        /\ \A k \in 1..(n - 1 + 1) : p[k] = s[1 + k - 1]
    BY <1>5, <1>4, SubSeqProperties
  <2> QED BY <2>1
<1>7. \A k \in 1..Len(p) : p[k] = s[k]
  BY <1>6
<1> QED BY <1>2, <1>3, <1>6, <1>7, <1>4 DEF IsSequence

\* The calls of a kind among the oldest n.
Calls(s, kind, n) == {k \in 1..n : s[k].in = kind}

Number(s, kind, n) == Cardinality(Calls(s, kind, n))

LEMMA NumberType ==
    ASSUME NEW s, NEW kind, NEW n \in Nat
    PROVE  IsFiniteSet(Calls(s, kind, n)) /\ Number(s, kind, n) \in Nat
<1>1. IsFiniteSet(1..n)
  BY FS_Interval
<1>2. Calls(s, kind, n) \subseteq 1..n
  BY DEF Calls
<1>3. IsFiniteSet(Calls(s, kind, n))
  BY <1>1, <1>2, FS_Subset
<1> QED BY <1>3, FS_CardinalityType DEF Number

LEMMA NumberSame ==
    ASSUME NEW s, NEW t, NEW n \in Nat, \A k \in 1..n : t[k].in = s[k].in
    PROVE  \A kind : Number(t, kind, n) = Number(s, kind, n)
<1>1. \A kind : Calls(t, kind, n) = Calls(s, kind, n)
  BY DEF Calls
<1> QED BY <1>1 DEF Number

LEMMA NumberNext ==
    ASSUME NEW s, NEW kind, NEW n \in Nat
    PROVE  Number(s, kind, n + 1) = Number(s, kind, n) + (IF s[n + 1].in = kind THEN 1 ELSE 0)
<1>1. IsFiniteSet(Calls(s, kind, n)) /\ Number(s, kind, n) \in Nat
  BY NumberType
<1>2. n + 1 \notin Calls(s, kind, n)
  BY DEF Calls
<1>3. CASE s[n + 1].in = kind
  <2>1. Calls(s, kind, n + 1) = Calls(s, kind, n) \cup {n + 1}
    BY <1>3 DEF Calls
  <2>2. Cardinality(Calls(s, kind, n) \cup {n + 1}) = Cardinality(Calls(s, kind, n)) + 1
    BY <1>1, <1>2, FS_AddElement
  <2> QED BY <1>3, <2>1, <2>2 DEF Number
<1>4. CASE s[n + 1].in # kind
  <2>1. Calls(s, kind, n + 1) = Calls(s, kind, n)
    BY <1>4 DEF Calls
  <2> QED BY <1>1, <1>4, <2>1 DEF Number
<1> QED BY <1>3, <1>4

-----------------------------------------------------------------------------
(* What was read.                                                          *)

LEMMA ReadTypes ==
    ASSUME i \in Nat
    PROVE  /\ IsFiniteSet(Opened) /\ IsFiniteSet(Closed) /\ IsFiniteSet(SignsRead)
           /\ Cardinality(Opened) \in Nat /\ Cardinality(Closed) \in Nat
           /\ Cardinality(SignsRead) \in Nat
<1>1. IsFiniteSet(Consumed)
  <2>1. 1 \in Int /\ i - 1 \in Int
    OBVIOUS
  <2> QED BY <2>1, FS_Interval DEF Consumed
<1>2. Opened \subseteq Consumed /\ Closed \subseteq Consumed /\ SignsRead \subseteq Consumed
  BY DEF Opened, Closed, SignsRead
<1>3. IsFiniteSet(Opened) /\ IsFiniteSet(Closed) /\ IsFiniteSet(SignsRead)
  BY <1>1, <1>2, FS_Subset
<1> QED BY <1>3, FS_CardinalityType

LEMMA Grew ==
    ASSUME NEW S, NEW T, IsFiniteSet(S), IsFiniteSet(T), S \subseteq T
    PROVE  /\ Cardinality(S) <= Cardinality(T)
           /\ \A x \in T : x \notin S => Cardinality(S) + 1 <= Cardinality(T)
           /\ \A x : T \subseteq S \cup {x} => Cardinality(T) <= Cardinality(S) + 1
<1>0. Cardinality(S) \in Nat /\ Cardinality(T) \in Nat
  BY FS_CardinalityType
<1>1. Cardinality(S) <= Cardinality(T)
  BY FS_Subset
<1>2. ASSUME NEW x, x \notin S
      PROVE  IsFiniteSet(S \cup {x}) /\ Cardinality(S \cup {x}) = Cardinality(S) + 1
  BY <1>2, FS_AddElement
<1>3. ASSUME NEW x \in T, x \notin S PROVE Cardinality(S) + 1 <= Cardinality(T)
  <2>1. S \cup {x} \subseteq T
    BY <1>3
  <2>2. Cardinality(S \cup {x}) <= Cardinality(T)
    BY <2>1, FS_Subset
  <2> QED BY <1>2, <1>3, <2>2
<1>4. ASSUME NEW x, T \subseteq S \cup {x} PROVE Cardinality(T) <= Cardinality(S) + 1
  <2>1. CASE x \in S
    <3>1. T = S
      BY <1>4, <2>1
    <3> QED BY <1>0, <3>1
  <2>2. CASE x \notin S
    <3>1. IsFiniteSet(S \cup {x}) /\ Cardinality(S \cup {x}) = Cardinality(S) + 1
      BY <1>2, <2>2
    <3>2. Cardinality(T) <= Cardinality(S \cup {x})
      BY <1>4, <3>1, FS_Subset
    <3> QED BY <3>1, <3>2
  <2> QED BY <2>1, <2>2
<1> QED BY <1>1, <1>3, <1>4

\* Reading on only adds to what was read.
LEMMA ReadOn ==
    ASSUME i \in Nat \ {0}, i' \in Nat, i <= i', input' = input
    PROVE  /\ Cardinality(Opened) <= Cardinality(Opened')
           /\ Cardinality(SignsRead) <= Cardinality(SignsRead')
           /\ \A k \in Opened' : k \in i..(i' - 1)
                => Cardinality(Opened) + 1 <= Cardinality(Opened')
           /\ \A k \in SignsRead' : k \in i..(i' - 1)
                => Cardinality(SignsRead) + 1 <= Cardinality(SignsRead')
           /\ (\A k \in i..(i' - 1) : input[k] # ")") => Closed' = Closed
           /\ i' = i + 1 => Cardinality(Closed') <= Cardinality(Closed) + 1
<1>0. /\ IsFiniteSet(Opened) /\ IsFiniteSet(Closed) /\ IsFiniteSet(SignsRead)
      /\ Cardinality(Closed) \in Nat
  BY ReadTypes
<1>1. i' \in Nat
      => /\ IsFiniteSet(Opened') /\ IsFiniteSet(Closed') /\ IsFiniteSet(SignsRead')
  <2> SUFFICES ASSUME i' \in Nat
               PROVE  IsFiniteSet(Opened') /\ IsFiniteSet(Closed') /\ IsFiniteSet(SignsRead')
    OBVIOUS
  <2>1. IsFiniteSet(Consumed')
    <3>1. 1 \in Int /\ i' - 1 \in Int
      OBVIOUS
    <3> QED BY <3>1, FS_Interval DEF Consumed
  <2>2. Opened' \subseteq Consumed' /\ Closed' \subseteq Consumed' /\ SignsRead' \subseteq Consumed'
    BY DEF Opened, Closed, SignsRead
  <2> QED BY <2>1, <2>2, FS_Subset
<1>2. Consumed \subseteq Consumed' /\ \A k \in Consumed' : k \in Consumed \/ k \in i..(i' - 1)
  <2>1. \A m, n \in Nat : m <= n =>
           /\ 1..(m - 1) \subseteq 1..(n - 1)
           /\ \A k \in 1..(n - 1) : k \in 1..(m - 1) \/ k \in m..(n - 1)
    OBVIOUS
  <2>2. /\ 1..(i - 1) \subseteq 1..(i' - 1)
        /\ \A k \in 1..(i' - 1) : k \in 1..(i - 1) \/ k \in i..(i' - 1)
    BY <2>1
  <2> QED BY <2>2 DEF Consumed
<1>3. \A k \in Consumed : k < i
  BY DEF Consumed
<1>4. Opened \subseteq Opened' /\ \A k \in Opened : k < i
  BY <1>2, <1>3 DEF Opened
<1>5. SignsRead \subseteq SignsRead' /\ \A k \in SignsRead : k < i
  BY <1>2, <1>3 DEF SignsRead, InFront
<1>6. Closed \subseteq Closed' /\ \A k \in Closed' : k \in Closed \/ k \in i..(i' - 1)
  BY <1>2 DEF Closed
<1>7. ASSUME NEW k \in Opened', k \in i..(i' - 1)
      PROVE  Cardinality(Opened) + 1 <= Cardinality(Opened')
  <2>1. k \notin Opened
    BY <1>4, <1>7
  <2> QED BY <1>0, <1>1, <1>4, <2>1, Grew
<1>8. ASSUME NEW k \in SignsRead', k \in i..(i' - 1)
      PROVE  Cardinality(SignsRead) + 1 <= Cardinality(SignsRead')
  <2>1. k \notin SignsRead
    BY <1>5, <1>8
  <2> QED BY <1>0, <1>1, <1>5, <2>1, Grew
<1>9. ASSUME \A k \in i..(i' - 1) : input[k] # ")" PROVE Closed' = Closed
  BY <1>6, <1>9 DEF Closed
<1>10. ASSUME i' = i + 1 PROVE Cardinality(Closed') <= Cardinality(Closed) + 1
  <2>1. Closed' \subseteq Closed \cup {i}
    BY <1>6, <1>10
  <2> QED BY <1>0, <1>1, <1>6, <2>1, Grew
<1>11. Cardinality(Opened) <= Cardinality(Opened')
  BY <1>0, <1>1, <1>4, Grew
<1>12. Cardinality(SignsRead) <= Cardinality(SignsRead')
  BY <1>0, <1>1, <1>5, Grew
<1> QED BY <1>7, <1>8, <1>9, <1>10, <1>11, <1>12

-----------------------------------------------------------------------------
(* How deep a call can be.                                                 *)

\* The calls that lead from the parentheses around it to a call of each kind.
Level == [expr |-> 1, term |-> 2, pow |-> 3, sign |-> 3, parens |-> 0]

Kinds == {"expr", "term", "pow", "sign", "parens"}

\* What makes each call, the first of expr apart.
CalledBy == [expr |-> {"parens"}, term |-> {"expr"}, pow |-> {"term"}, unary |-> {"pow", "sign"}]

\* The function that a call of each kind runs.
Runs == [expr |-> "expr", term |-> "term", pow |-> "pow", sign |-> "unary", parens |-> "unary"]

Depth(s, k) == Level[s[k].in] + 4 * Number(s, "parens", k) + Number(s, "sign", k)

Deep(s) == \A k \in 1..Len(s) : s[k].in \in Kinds /\ k <= Depth(s, k)

\* A call of fun can be made with s pending.
CanCall(s, fun) ==
    \/ s = <<>> /\ fun = "expr"
    \/ s # <<>> /\ s[Len(s)].in \in CalledBy[fun]

\* As many calls of each kind.
AsMany(s, t) == \A kind : Number(t, kind, Len(t)) = Number(s, kind, Len(s))

LEMMA LevelIs ==
    /\ \A kind \in Kinds : Level[kind] \in 0..3 /\ Runs[kind] \in DOMAIN CalledBy
    /\ \A kind \in {"sign", "parens"} : Runs[kind] = "unary"
    /\ \A kind \in {"expr", "term", "pow"} : Runs[kind] = kind
    /\ DOMAIN Operand = {"expr", "term", "pow"}
    /\ DOMAIN CalledBy = {"expr", "term", "pow", "unary"}
    /\ \A kind \in DOMAIN Operand :
          Operand[kind] \in DOMAIN CalledBy /\ kind \in CalledBy[Operand[kind]]
BY DEF Level, Kinds, Runs, CalledBy, Operand

\* Depth depends on the calls up to k only.
LEMMA DepthSame ==
    ASSUME NEW s, NEW t, NEW n \in Nat, \A k \in 1..n : t[k].in = s[k].in
    PROVE  \A k \in 1..n : Depth(t, k) = Depth(s, k)
<1> SUFFICES ASSUME NEW k \in 1..n PROVE Depth(t, k) = Depth(s, k)
  OBVIOUS
<1>1. \A j \in 1..k : t[j].in = s[j].in
  OBVIOUS
<1>2. \A kind : Number(t, kind, k) = Number(s, kind, k)
  BY <1>1, NumberSame
<1> QED BY <1>2 DEF Depth

LEMMA PushDeep ==
    ASSUME NEW s, IsSequence(s), Deep(s), NEW f, f.in \in Kinds, CanCall(s, Runs[f.in])
    PROVE  /\ IsSequence(Append(s, f)) /\ Deep(Append(s, f))
           /\ \A kind : Number(Append(s, f), kind, Len(Append(s, f)))
                        = Number(s, kind, Len(s)) + (IF f.in = kind THEN 1 ELSE 0)
<1>1. PICK t : t = Append(s, f)
  OBVIOUS
<1>2. /\ IsSequence(t) /\ Len(s) \in Nat /\ Len(t) = Len(s) + 1
      /\ \A k \in 1..Len(s) : t[k] = s[k]
      /\ t[Len(s) + 1] = f
  BY <1>1, Pushed
<1>3. PICK n \in Nat : n = Len(s)
  BY <1>2
<1>4. \A kind : Number(t, kind, n) = Number(s, kind, n) /\ Number(s, kind, n) \in Nat
  <2>1. \A k \in 1..n : t[k].in = s[k].in
    BY <1>2, <1>3
  <2>2. \A kind : Number(t, kind, n) = Number(s, kind, n)
    BY <2>1, NumberSame
  <2> QED BY <2>2, NumberType
<1>5. \A kind : Number(t, kind, n + 1) = Number(s, kind, n) + (IF f.in = kind THEN 1 ELSE 0)
  <2> SUFFICES ASSUME NEW kind
               PROVE  Number(t, kind, n + 1) = Number(s, kind, n) + (IF f.in = kind THEN 1 ELSE 0)
    OBVIOUS
  <2>1. Number(t, kind, n + 1) = Number(t, kind, n) + (IF t[n + 1].in = kind THEN 1 ELSE 0)
    BY NumberNext
  <2> QED BY <1>2, <1>3, <1>4, <2>1
<1>6. \A k \in 1..n : Depth(t, k) = Depth(s, k)
  <2>1. \A k \in 1..n : t[k].in = s[k].in
    BY <1>2, <1>3
  <2> QED BY <2>1, DepthSame
<1>7. n + 1 <= Depth(t, n + 1)
  <2> DEFINE P == Number(s, "parens", n)
             Q == Number(s, "sign", n)
  <2>1. P \in Nat /\ Q \in Nat
    BY <1>4
  <2>2. /\ Number(t, "parens", n + 1) = P + (IF f.in = "parens" THEN 1 ELSE 0)
        /\ Number(t, "sign", n + 1) = Q + (IF f.in = "sign" THEN 1 ELSE 0)
    BY <1>5
  <2>3. Depth(t, n + 1) = Level[f.in] + 4 * Number(t, "parens", n + 1) + Number(t, "sign", n + 1)
    BY <1>2, <1>3 DEF Depth
  <2> HIDE DEF P, Q
  <2>4. CASE s = <<>>
    <3>1. n = 0 /\ f.in = "expr"
      BY <1>3, <2>4 DEF CanCall, Kinds, Runs
    <3> QED BY <2>1, <2>2, <2>3, <3>1 DEF Level
  <2>5. CASE s # <<>>
    <3>1. n \in 1..n
      <4>1. n # 0
        <5>1. PICK S : s \in Seq(S)
          BY DEF IsSequence
        <5> QED BY <1>3, <2>5, <5>1, EmptySeq
      <4> QED BY <4>1
    <3>2. s[n].in \in Kinds /\ n <= Level[s[n].in] + 4 * P + Q
      BY <1>3, <3>1 DEF Deep, Depth, P, Q
    <3>3. s[n].in \in CalledBy[Runs[f.in]]
      BY <1>3, <2>5 DEF CanCall
    <3>4. \/ f.in = "expr" /\ s[n].in = "parens"
          \/ f.in = "term" /\ s[n].in = "expr"
          \/ f.in = "pow" /\ s[n].in = "term"
          \/ f.in = "sign" /\ s[n].in \in {"pow", "sign"}
          \/ f.in = "parens" /\ s[n].in \in {"pow", "sign"}
      BY <3>3 DEF CalledBy, Runs, Kinds
    <3> QED BY <2>1, <2>2, <2>3, <3>2, <3>4 DEF Level
  <2> QED BY <2>4, <2>5
<1>8. Deep(t)
  <2> SUFFICES ASSUME NEW k \in 1..Len(t) PROVE t[k].in \in Kinds /\ k <= Depth(t, k)
    BY DEF Deep
  <2>1. CASE k = n + 1
    BY <1>2, <1>3, <1>7, <2>1
  <2>2. CASE k # n + 1
    <3>1. k \in 1..n
      BY <1>2, <1>3, <2>2
    <3> QED BY <1>2, <1>3, <1>6, <3>1 DEF Deep
  <2> QED BY <2>1, <2>2
<1> QED BY <1>1, <1>2, <1>3, <1>5, <1>8

LEMMA PopDeep ==
    ASSUME NEW s, IsSequence(s), Deep(s), s # <<>>
    PROVE  LET p == SubSeq(s, 1, Len(s) - 1)
           IN  /\ IsSequence(p) /\ Deep(p)
               /\ \A kind : Number(s, kind, Len(s)) =
                     Number(p, kind, Len(p)) + (IF s[Len(s)].in = kind THEN 1 ELSE 0)
<1>1. PICK p : p = SubSeq(s, 1, Len(s) - 1)
  OBVIOUS
<1>2. /\ IsSequence(p) /\ Len(s) \in Nat \ {0} /\ Len(p) = Len(s) - 1
      /\ \A k \in 1..Len(p) : p[k] = s[k]
  BY <1>1, Popped
<1>3. PICK n \in Nat : n = Len(p) /\ Len(s) = n + 1
  BY <1>2
<1>4. \A k \in 1..n : p[k].in = s[k].in
  BY <1>2, <1>3
<1>5. \A kind : Number(p, kind, n) = Number(s, kind, n)
  BY <1>4, NumberSame
<1>6. \A kind : Number(s, kind, n + 1) = Number(s, kind, n) + (IF s[n + 1].in = kind THEN 1 ELSE 0)
  BY NumberNext
<1>7. \A k \in 1..n : Depth(p, k) = Depth(s, k)
  BY <1>4, DepthSame
<1>8. Deep(p)
  <2> SUFFICES ASSUME NEW k \in 1..n PROVE p[k].in \in Kinds /\ k <= Depth(p, k)
    BY <1>3 DEF Deep
  <2>1. k \in 1..Len(s)
    BY <1>3
  <2> QED BY <1>4, <1>7, <2>1 DEF Deep
<1>9. \A kind : Number(s, kind, Len(s)) =
                    Number(p, kind, Len(p)) + (IF s[Len(s)].in = kind THEN 1 ELSE 0)
  BY <1>3, <1>5, <1>6
<1> QED BY <1>1, <1>2, <1>8, <1>9, Zenon

\* A frame in place of one of its kind.
LEMMA SwapDeep ==
    ASSUME NEW s, IsSequence(s), Deep(s), s # <<>>, NEW f, f.in = s[Len(s)].in
    PROVE  LET t == Append(SubSeq(s, 1, Len(s) - 1), f)
           IN  IsSequence(t) /\ Deep(t) /\ t # <<>> /\ t[Len(t)] = f /\ AsMany(s, t)
<1>1. PICK p : p = SubSeq(s, 1, Len(s) - 1)
  OBVIOUS
<1>2. /\ IsSequence(p) /\ Len(s) \in Nat \ {0} /\ Len(p) = Len(s) - 1
      /\ \A k \in 1..Len(p) : p[k] = s[k]
  BY <1>1, Popped
<1>3. PICK t : t = Append(p, f)
  OBVIOUS
<1>4. /\ IsSequence(t) /\ Len(t) = Len(p) + 1
      /\ \A k \in 1..Len(p) : t[k] = p[k]
      /\ t[Len(p) + 1] = f
  BY <1>2, <1>3, Pushed
<1>5. PICK n \in Nat \ {0} : n = Len(s) /\ Len(t) = n /\ Len(p) = n - 1
  BY <1>2, <1>4
<1>6. t[n] = f
  BY <1>4, <1>5
<1>7. \A k \in 1..n : t[k].in = s[k].in
  <2> SUFFICES ASSUME NEW k \in 1..n PROVE t[k].in = s[k].in
    OBVIOUS
  <2>1. CASE k = n
    BY <1>5, <1>6, <2>1
  <2>2. CASE k # n
    <3>1. k \in 1..Len(p)
      BY <1>5, <2>2
    <3> QED BY <1>2, <1>4, <3>1
  <2> QED BY <2>1, <2>2
<1>8. Deep(t)
  <2>1. \A k \in 1..n : Depth(t, k) = Depth(s, k)
    BY <1>7, DepthSame
  <2> QED BY <1>5, <1>7, <2>1 DEF Deep
<1>9. AsMany(s, t)
  <2>1. \A kind : Number(t, kind, n) = Number(s, kind, n)
    BY <1>7, NumberSame
  <2> QED BY <1>5, <2>1 DEF AsMany
<1>10. t # <<>>
  BY <1>5
<1> QED BY <1>1, <1>3, <1>4, <1>5, <1>6, <1>8, <1>9, <1>10

-----------------------------------------------------------------------------
(* The inductive invariant.                                                *)

ExprTypes == input \in Seq(STRING) /\ i \in Nat \ {0} /\ IsSequence(stack) /\ Deep(stack)

\* A function is entered where an operand is expected, by a call that can make it.
Entered == fn \in DOMAIN CalledBy => CanCall(stack, fn) /\ InFront(i)

\* The pending calls stand for parentheses that are open and signs that were read.
Accounted ==
    /\ Number(stack, "parens", Len(stack)) + Cardinality(Closed) <= Cardinality(Opened)
    /\ Number(stack, "sign", Len(stack)) <= Cardinality(SignsRead)

\* The parenthesis of a function is read with its name.
OwnParens == i > 1 /\ i <= Len(input) /\ input[i] = "(" => input[i - 1] \notin Functions

ExprInv == ExprTypes /\ Entered /\ Accounted /\ OwnParens

LEMMA Numbers ==
    ASSUME ExprTypes
    PROVE  /\ Len(stack) \in Nat /\ Len(input) \in Nat
           /\ \A kind : Number(stack, kind, Len(stack)) \in Nat
           /\ Cardinality(Opened) \in Nat /\ Cardinality(Closed) \in Nat
           /\ Cardinality(SignsRead) \in Nat
<1>1. PICK S : stack \in Seq(S)
  BY DEF ExprTypes, IsSequence
<1>2. Len(stack) \in Nat /\ Len(input) \in Nat
  BY <1>1 DEF ExprTypes
<1>3. i \in Nat
  BY DEF ExprTypes
<1> QED BY <1>2, <1>3, NumberType, ReadTypes

LEMMA InitExpr == Init => ExprInv
<1> SUFFICES ASSUME Init PROVE ExprInv
  OBVIOUS
<1>1. input \in Seq(STRING) /\ i = 1 /\ stack = <<>> /\ fn = "expr"
  BY WrittenAssumption DEF Init
<1>2. IsSequence(stack) /\ Len(stack) = 0
  <2>1. <<>> \in Seq({}) /\ Len(<<>>) = 0
    OBVIOUS
  <2> QED BY <1>1, <2>1 DEF IsSequence
<1>3. ExprTypes /\ Entered /\ OwnParens
  BY <1>1, <1>2 DEF ExprTypes, Deep, Entered, CanCall, InFront, OwnParens
<1>4. Accounted
  <2>1. Consumed = {}
    BY <1>1 DEF Consumed
  <2>2. Opened = {} /\ Closed = {} /\ SignsRead = {}
    BY <2>1 DEF Opened, Closed, SignsRead
  <2>3. Calls(stack, "parens", 0) = {} /\ Calls(stack, "sign", 0) = {}
    BY DEF Calls
  <2>4. Cardinality({}) = 0
    BY FS_EmptySet
  <2>5. Number(stack, "parens", 0) = 0 /\ Number(stack, "sign", 0) = 0
    BY <2>3, <2>4 DEF Number
  <2>6. Number(stack, "parens", Len(stack)) = 0 /\ Number(stack, "sign", Len(stack)) = 0
    BY <1>2, <2>5
  <2>7. Cardinality(Opened) = 0 /\ Cardinality(Closed) = 0 /\ Cardinality(SignsRead) = 0
    BY <2>2, <2>4
  <2> QED BY <2>6, <2>7 DEF Accounted
<1> QED BY <1>3, <1>4 DEF ExprInv

\* Reading tokens none of which is a parenthesis that closes.
LEMMA ReadKeeps ==
    ASSUME ExprInv, i' \in Nat, i <= i', input' = input,
           \A k \in i..(i' - 1) : input[k] # ")"
    PROVE  /\ Closed' = Closed
           /\ Cardinality(Opened) <= Cardinality(Opened')
           /\ Cardinality(SignsRead) <= Cardinality(SignsRead')
           /\ \A k \in i..(i' - 1) :
                 /\ k \in Opened' => Cardinality(Opened) + 1 <= Cardinality(Opened')
                 /\ k \in SignsRead' => Cardinality(SignsRead) + 1 <= Cardinality(SignsRead')
           /\ Cardinality(Opened') \in Nat /\ Cardinality(SignsRead') \in Nat
<1>1. i \in Nat \ {0}
  BY DEF ExprInv, ExprTypes
<1>2. Cardinality(Opened') \in Nat /\ Cardinality(SignsRead') \in Nat
  <2>1. i' \in Nat => Cardinality(Opened') \in Nat /\ Cardinality(SignsRead') \in Nat
    <3> SUFFICES ASSUME i' \in Nat
                 PROVE  Cardinality(Opened') \in Nat /\ Cardinality(SignsRead') \in Nat
      OBVIOUS
    <3>1. IsFiniteSet(Consumed')
      <4>1. 1 \in Int /\ i' - 1 \in Int
        OBVIOUS
      <4> QED BY <4>1, FS_Interval DEF Consumed
    <3>2. Opened' \subseteq Consumed' /\ SignsRead' \subseteq Consumed'
      BY DEF Opened, SignsRead
    <3> QED BY <3>1, <3>2, FS_Subset, FS_CardinalityType
  <2> QED BY <2>1
<1> QED BY <1>1, <1>2, ReadOn

\* The next token, when it is one that the parser knows.
LEMMA TokenIs ==
    ASSUME ExprTypes, tok # "end"
    PROVE  i <= Len(input) /\ tok = input[i] /\ i \in 1..Len(input)
<1>1. i <= Len(input)
  BY DEF tok
<1>2. i \in Nat \ {0} /\ Len(input) \in Nat
  BY Numbers DEF ExprTypes
<1> QED BY <1>1, <1>2 DEF tok

\* Of a token that is not a function's name, the next is nobody's own parenthesis.
LEMMA OwnParensKept ==
    ASSUME i \in Nat \ {0}, i' = i + 1, input' = input, input[i] \notin Functions
    PROVE  OwnParens'
<1>1. (i + 1) - 1 = i
  OBVIOUS
<1> QED BY <1>1 DEF OwnParens

\* A call that is made: what the longer stack is like.
LEMMA Called ==
    ASSUME ExprTypes, NEW f, f.in \in Kinds, CanCall(stack, Runs[f.in]), stack' = Append(stack, f)
    PROVE  /\ IsSequence(stack') /\ Deep(stack')
           /\ \A fun : f.in \in CalledBy[fun] => CanCall(stack', fun)
           /\ Number(stack', "parens", Len(stack')) =
                 Number(stack, "parens", Len(stack)) + (IF f.in = "parens" THEN 1 ELSE 0)
           /\ Number(stack', "sign", Len(stack')) =
                 Number(stack, "sign", Len(stack)) + (IF f.in = "sign" THEN 1 ELSE 0)
<1>1. IsSequence(stack) /\ Deep(stack)
  BY DEF ExprTypes
<1>2. /\ IsSequence(Append(stack, f)) /\ Deep(Append(stack, f))
      /\ \A kind : Number(Append(stack, f), kind, Len(Append(stack, f)))
                   = Number(stack, kind, Len(stack)) + (IF f.in = kind THEN 1 ELSE 0)
  BY <1>1, PushDeep
<1>3. /\ Len(stack) \in Nat /\ Len(Append(stack, f)) = Len(stack) + 1
      /\ Append(stack, f)[Len(stack) + 1] = f
  BY <1>1, Pushed
<1>4. \A fun : f.in \in CalledBy[fun] => CanCall(Append(stack, f), fun)
  <2>1. Append(stack, f) # <<>>
    <3>1. Len(<<>>) = 0
      OBVIOUS
    <3> QED BY <1>3, <3>1
  <2>2. Append(stack, f)[Len(Append(stack, f))] = f
    BY <1>3
  <2> QED BY <2>1, <2>2 DEF CanCall
<1> QED BY <1>2, <1>4

\* A call that returns.
LEMMA Returned ==
    ASSUME ExprTypes, stack # <<>>, stack' = Pop
    PROVE  /\ IsSequence(stack') /\ Deep(stack')
           /\ Number(stack, "parens", Len(stack)) = Number(stack', "parens", Len(stack'))
                 + (IF stack[Len(stack)].in = "parens" THEN 1 ELSE 0)
           /\ Number(stack, "sign", Len(stack)) = Number(stack', "sign", Len(stack'))
                 + (IF stack[Len(stack)].in = "sign" THEN 1 ELSE 0)
           /\ Number(stack', "parens", Len(stack')) \in Nat
           /\ Number(stack', "sign", Len(stack')) \in Nat
<1>1. IsSequence(stack) /\ Deep(stack)
  BY DEF ExprTypes
<1>2. PICK p : p = SubSeq(stack, 1, Len(stack) - 1)
  OBVIOUS
<1>3. /\ IsSequence(p) /\ Deep(p)
      /\ \A kind : Number(stack, kind, Len(stack)) =
            Number(p, kind, Len(p)) + (IF stack[Len(stack)].in = kind THEN 1 ELSE 0)
  BY <1>1, <1>2, PopDeep
<1>4. Number(p, "parens", Len(p)) \in Nat /\ Number(p, "sign", Len(p)) \in Nat
  <2>1. Len(p) \in Nat
    BY <1>3 DEF IsSequence
  <2> QED BY <2>1, NumberType
<1>5. stack' = p
  BY <1>2 DEF Pop
<1> QED BY <1>3, <1>4, <1>5

\* Whatever was read, it was finitely much.
LEMMA CountsLater ==
    i' \in Nat => /\ Cardinality(Opened') \in Nat /\ Cardinality(Closed') \in Nat
                  /\ Cardinality(SignsRead') \in Nat
<1> SUFFICES ASSUME i' \in Nat
             PROVE  /\ Cardinality(Opened') \in Nat /\ Cardinality(Closed') \in Nat
                    /\ Cardinality(SignsRead') \in Nat
  OBVIOUS
<1>1. IsFiniteSet(Consumed')
  <2>1. 1 \in Int /\ i' - 1 \in Int
    OBVIOUS
  <2> QED BY <2>1, FS_Interval DEF Consumed
<1>2. Opened' \subseteq Consumed' /\ Closed' \subseteq Consumed' /\ SignsRead' \subseteq Consumed'
  BY DEF Opened, Closed, SignsRead
<1> QED BY <1>1, <1>2, FS_Subset, FS_CardinalityType

LEMMA DescendExpr ==
    ASSUME ExprInv, Descend
    PROVE  ExprInv'
<1>1. /\ fn \in DOMAIN Operand /\ stack' = Append(stack, Frame(fn, "", Nothing))
      /\ fn' = Operand[fn] /\ input' = input /\ i' = i
  BY DEF Descend, Push
<1>2. ExprTypes /\ fn \in Kinds /\ Runs[fn] = fn /\ fn \in DOMAIN CalledBy
      /\ fn # "parens" /\ fn # "sign"
  BY <1>1, LevelIs DEF ExprInv, Kinds
<1>3. PICK f : f = Frame(fn, "", Nothing)
  OBVIOUS
<1>4. f.in = fn
  BY <1>3 DEF Frame
<1>5. CanCall(stack, Runs[f.in]) /\ InFront(i) /\ stack' = Append(stack, f)
  BY <1>1, <1>2, <1>3, <1>4 DEF ExprInv, Entered
<1>6. /\ IsSequence(stack') /\ Deep(stack')
      /\ \A fun : f.in \in CalledBy[fun] => CanCall(stack', fun)
      /\ Number(stack', "parens", Len(stack')) =
            Number(stack, "parens", Len(stack)) + (IF f.in = "parens" THEN 1 ELSE 0)
      /\ Number(stack', "sign", Len(stack')) =
            Number(stack, "sign", Len(stack)) + (IF f.in = "sign" THEN 1 ELSE 0)
  BY <1>2, <1>4, <1>5, Called
<1>7. ExprTypes'
  BY <1>1, <1>2, <1>6 DEF ExprTypes
<1>8. Entered'
  <2>1. fn \in CalledBy[Operand[fn]]
    BY <1>1, LevelIs
  <2>2. CanCall(stack', fn')
    BY <1>1, <1>4, <1>6, <2>1
  <2> QED BY <1>1, <1>5, <2>2 DEF Entered, InFront
<1>9. Accounted'
  <2>1. /\ Number(stack', "parens", Len(stack')) = Number(stack, "parens", Len(stack))
        /\ Number(stack', "sign", Len(stack')) = Number(stack, "sign", Len(stack))
    <3>1. f.in # "parens" /\ f.in # "sign"
      BY <1>2, <1>4
    <3>2. /\ Number(stack, "parens", Len(stack)) \in Nat
          /\ Number(stack, "sign", Len(stack)) \in Nat
      BY <1>2, Numbers
    <3> QED BY <1>6, <3>1, <3>2
  <2>2. Opened' = Opened /\ Closed' = Closed /\ SignsRead' = SignsRead
    BY <1>1 DEF Opened, Closed, SignsRead, Consumed, InFront
  <2> QED BY <2>1, <2>2 DEF ExprInv, Accounted
<1>10. OwnParens'
  BY <1>1 DEF ExprInv, OwnParens
<1> QED BY <1>7, <1>8, <1>9, <1>10 DEF ExprInv

LEMMA UnaryExpr ==
    ASSUME ExprInv, parseUnary
    PROVE  ExprInv'
<1>1. /\ fn = "unary" /\ tok \in Signs /\ i' = i + 1 /\ fn' = "unary" /\ input' = input
      /\ stack' = Append(stack, Frame("sign", tok, Nothing))
  BY DEF parseUnary, Push
<1>2. ExprTypes /\ i \in Nat \ {0} /\ i' \in Nat \ {0} /\ i' - 1 = i /\ i..(i' - 1) = {i}
  BY <1>1 DEF ExprInv, ExprTypes
<1>3. input[i] \in Signs /\ input[i] # ")" /\ input[i] \notin Functions
      /\ input[i] \notin Atoms \cup {")"}
  <2>1. tok # "end"
    BY <1>1 DEF Signs
  <2>2. tok = input[i]
    BY <1>2, <2>1, TokenIs
  <2> QED BY <1>1, <2>2 DEF Signs, Functions, Atoms
<1>4. PICK f : f = Frame("sign", tok, Nothing)
  OBVIOUS
<1>5. f.in = "sign" /\ f.in \in Kinds /\ Runs[f.in] = "unary" /\ "unary" \in DOMAIN CalledBy
      /\ f.in \in CalledBy["unary"]
  BY <1>4 DEF Frame, Kinds, Runs, CalledBy
<1>6. CanCall(stack, Runs[f.in]) /\ InFront(i) /\ stack' = Append(stack, f)
  BY <1>1, <1>4, <1>5 DEF ExprInv, Entered
<1>7. /\ IsSequence(stack') /\ Deep(stack')
      /\ \A fun : f.in \in CalledBy[fun] => CanCall(stack', fun)
      /\ Number(stack', "parens", Len(stack')) =
            Number(stack, "parens", Len(stack)) + (IF f.in = "parens" THEN 1 ELSE 0)
      /\ Number(stack', "sign", Len(stack')) =
            Number(stack, "sign", Len(stack)) + (IF f.in = "sign" THEN 1 ELSE 0)
  BY <1>2, <1>5, <1>6, Called
<1>8. ExprTypes'
  BY <1>1, <1>2, <1>7 DEF ExprTypes
<1>9. Entered'
  <2>1. CanCall(stack', "unary")
    BY <1>5, <1>7
  <2> QED BY <1>1, <1>2, <1>3, <2>1 DEF Entered, InFront
<1>10. Accounted'
  <2>1. /\ Closed' = Closed
        /\ Cardinality(Opened) <= Cardinality(Opened')
        /\ i \in SignsRead' => Cardinality(SignsRead) + 1 <= Cardinality(SignsRead')
        /\ Cardinality(Opened') \in Nat /\ Cardinality(SignsRead') \in Nat
    <3>1. i' \in Nat /\ i <= i' /\ \A k \in i..(i' - 1) : input[k] # ")"
      BY <1>1, <1>2, <1>3
    <3>2. i \in i..(i' - 1)
      BY <1>2
    <3> QED BY <1>1, <3>1, <3>2, ReadKeeps
  <2>2. i \in SignsRead'
    <3>1. i \in Consumed'
      <4>1. i \in Int /\ i' - 1 \in Int /\ 1 <= i /\ i <= i' - 1
        <5>1. i \in Nat \ {0}
          BY <1>2
        <5> QED BY <1>1, <5>1
      <4> QED BY <4>1 DEF Consumed
    <3>2. input'[i] \in Signs /\ (i = 1 \/ input'[i - 1] \notin Atoms \cup {")"})
      BY <1>1, <1>3, <1>6 DEF InFront
    <3> QED BY <3>1, <3>2 DEF SignsRead, InFront
  <2>3. /\ Number(stack, "parens", Len(stack)) \in Nat
        /\ Number(stack, "sign", Len(stack)) \in Nat
        /\ Cardinality(Opened) \in Nat /\ Cardinality(Closed) \in Nat
        /\ Cardinality(SignsRead) \in Nat
    BY <1>2, Numbers
  <2>4. /\ Number(stack, "parens", Len(stack)) + Cardinality(Closed) <= Cardinality(Opened)
        /\ Number(stack, "sign", Len(stack)) <= Cardinality(SignsRead)
    BY DEF ExprInv, Accounted
  <2>5. /\ Number(stack', "parens", Len(stack')) = Number(stack, "parens", Len(stack))
        /\ Number(stack', "sign", Len(stack')) = Number(stack, "sign", Len(stack)) + 1
    BY <1>5, <1>7, <2>3
  <2>6. Number(stack', "parens", Len(stack')) + Cardinality(Closed') <= Cardinality(Opened')
    BY <2>1, <2>3, <2>4, <2>5
  <2>7. Number(stack', "sign", Len(stack')) <= Cardinality(SignsRead')
    BY <2>1, <2>2, <2>3, <2>4, <2>5
  <2> QED BY <2>6, <2>7 DEF Accounted
<1>11. OwnParens'
  BY <1>1, <1>2, <1>3, OwnParensKept
<1> QED BY <1>8, <1>9, <1>10, <1>11 DEF ExprInv

LEMMA ParensExpr ==
    ASSUME ExprInv, fn = "unary", tok = "(" \/ tok \in Functions, input' = input, fn' = "expr",
           i' = (IF tok \in Functions /\ i < Len(input) /\ input[i + 1] = "("
                 THEN i + 2 ELSE i + 1),
           stack' = Append(stack, Frame("parens", tok, Nothing))
    PROVE  ExprInv'
<1>1. ExprTypes /\ i \in Nat \ {0} /\ Len(input) \in Nat
  BY Numbers DEF ExprInv, ExprTypes
<1>2. i <= Len(input) /\ tok = input[i] /\ (input[i] = "(" \/ input[i] \in Functions)
  <2>1. tok # "end"
    BY DEF Functions
  <2> QED BY <1>1, <2>1, TokenIs
<1>3. \/ i' = i + 1 /\ ~(input[i] \in Functions /\ i < Len(input) /\ input[i + 1] = "(")
      \/ i' = i + 2 /\ input[i + 1] = "("
  BY <1>2
<1>4. i' \in Nat \ {0} /\ i <= i' /\ i \in i..(i' - 1)
  BY <1>1, <1>3
<1>5. \A k \in i..(i' - 1) : input[k] = "(" \/ input[k] \in Functions
  <2>1. i' = i + 1 => i..(i' - 1) = {i}
    BY <1>1
  <2>2. i' = i + 2 => i..(i' - 1) = {i, i + 1}
    BY <1>1
  <2> QED BY <1>2, <1>3, <2>1, <2>2
<1>6. i' - 1 \in i..(i' - 1)
  BY <1>1, <1>3
<1>7. PICK f : f = Frame("parens", tok, Nothing)
  OBVIOUS
<1>8. f.in = "parens" /\ f.in \in Kinds /\ Runs[f.in] = "unary" /\ "unary" \in DOMAIN CalledBy
      /\ f.in \in CalledBy["expr"]
  BY <1>7 DEF Frame, Kinds, Runs, CalledBy
<1>9. CanCall(stack, Runs[f.in]) /\ stack' = Append(stack, f)
  BY <1>7, <1>8 DEF ExprInv, Entered
<1>10. /\ IsSequence(stack') /\ Deep(stack')
       /\ \A fun : f.in \in CalledBy[fun] => CanCall(stack', fun)
       /\ Number(stack', "parens", Len(stack')) =
             Number(stack, "parens", Len(stack)) + (IF f.in = "parens" THEN 1 ELSE 0)
       /\ Number(stack', "sign", Len(stack')) =
             Number(stack, "sign", Len(stack)) + (IF f.in = "sign" THEN 1 ELSE 0)
  BY <1>1, <1>8, <1>9, Called
<1>11. ExprTypes'
  BY <1>1, <1>4, <1>10 DEF ExprTypes
<1>12. Entered'
  <2>1. CanCall(stack', "expr")
    BY <1>8, <1>10
  <2>2. input[i' - 1] \notin Atoms \cup {")"}
    BY <1>5, <1>6 DEF Atoms, Functions
  <2> QED BY <2>1, <2>2 DEF Entered, InFront
<1>13. Accounted'
  <2>1. \A k \in i..(i' - 1) : input[k] # ")"
    BY <1>5 DEF Functions
  <2>2. /\ Closed' = Closed
        /\ i \in Opened' => Cardinality(Opened) + 1 <= Cardinality(Opened')
        /\ Cardinality(SignsRead) <= Cardinality(SignsRead')
        /\ Cardinality(Opened') \in Nat /\ Cardinality(SignsRead') \in Nat
    BY <1>4, <2>1, ReadKeeps
  <2>3. i \in Opened'
    <3>1. i \in Consumed'
      <4>1. i' - 1 \in Int /\ i <= i' - 1 /\ 1 <= i
        BY <1>1, <1>3
      <4> QED BY <1>1, <4>1 DEF Consumed
    <3>2. input[i] = "(" => i = 1 \/ input[i - 1] \notin Functions
      BY <1>1, <1>2 DEF ExprInv, OwnParens
    <3>3. \/ input'[i] \in Functions
          \/ input'[i] = "(" /\ (i = 1 \/ input'[i - 1] \notin Functions)
      <4>1. \/ input[i] \in Functions
            \/ input[i] = "(" /\ (i = 1 \/ input[i - 1] \notin Functions)
        BY <1>2, <3>2
      <4>2. input' = input
        OBVIOUS
      <4>3. input'[i] = input[i] /\ input'[i - 1] = input[i - 1]
        BY <4>2
      <4> QED BY <4>1, <4>3
    <3> QED BY <3>1, <3>3 DEF Opened
  <2>4. /\ Number(stack, "parens", Len(stack)) \in Nat
        /\ Number(stack, "sign", Len(stack)) \in Nat
        /\ Cardinality(Opened) \in Nat /\ Cardinality(Closed) \in Nat
        /\ Cardinality(SignsRead) \in Nat
    BY <1>1, Numbers
  <2>5. /\ Number(stack, "parens", Len(stack)) + Cardinality(Closed) <= Cardinality(Opened)
        /\ Number(stack, "sign", Len(stack)) <= Cardinality(SignsRead)
    BY DEF ExprInv, Accounted
  <2>6. /\ Number(stack', "parens", Len(stack')) = Number(stack, "parens", Len(stack)) + 1
        /\ Number(stack', "sign", Len(stack')) = Number(stack, "sign", Len(stack))
    BY <1>8, <1>10, <2>4
  <2>7. Number(stack', "parens", Len(stack')) + Cardinality(Closed') <= Cardinality(Opened')
    BY <2>2, <2>3, <2>4, <2>5, <2>6
  <2>8. Number(stack', "sign", Len(stack')) <= Cardinality(SignsRead')
    BY <2>2, <2>4, <2>5, <2>6
  <2> QED BY <2>7, <2>8 DEF Accounted
<1>14. OwnParens'
  <2> SUFFICES ASSUME i' > 1, i' <= Len(input), input[i'] = "("
               PROVE  input[i' - 1] \notin Functions
    BY DEF OwnParens
  <2>1. CASE i' = i + 2
    <3>1. i' - 1 = i + 1 /\ input[i + 1] = "("
      BY <1>1, <1>3, <2>1
    <3> QED BY <3>1 DEF Functions
  <2>2. CASE i' = i + 1
    <3>1. i' - 1 = i /\ i < Len(input) /\ i' # i + 2
      BY <1>1, <2>2
    <3> QED BY <1>3, <2>2, <3>1
  <2> QED BY <1>3, <2>1, <2>2
<1> QED BY <1>11, <1>12, <1>13, <1>14 DEF ExprInv

LEMMA AtomExpr ==
    ASSUME ExprInv, parseAtom
    PROVE  ExprInv'
<1>1. fn = "unary" /\ input' = input /\ ExprTypes /\ i \in Nat \ {0}
  BY DEF parseAtom, ExprInv, ExprTypes
<1>2. CASE tok = "(" \/ tok \in Functions
  <2>1. /\ i' = IF tok \in Functions /\ i < Len(input) /\ input[i + 1] = "("
                THEN i + 2 ELSE i + 1
        /\ stack' = Append(stack, Frame("parens", tok, Nothing)) /\ fn' = "expr"
    BY <1>2 DEF parseAtom, Push, Functions, Atoms
  <2> QED BY <1>1, <1>2, <2>1, ParensExpr
<1>3. CASE tok \in Atoms
  <2>1. i' = i + 1 /\ fn' = "return" /\ stack' = stack
    BY <1>3 DEF parseAtom, Functions, Atoms
  <2>2. tok = input[i] /\ input[i] # ")" /\ input[i] \notin Functions
    <3>1. tok # "end"
      BY <1>3 DEF Atoms
    <3>2. tok = input[i]
      BY <1>1, <3>1, TokenIs
    <3> QED BY <1>3, <3>2 DEF Atoms, Functions
  <2>3. i' \in Nat \ {0} /\ i <= i' /\ i..(i' - 1) = {i}
    BY <1>1, <2>1
  <2>4. ExprTypes'
    BY <1>1, <2>1, <2>3 DEF ExprTypes
  <2>5. Entered'
    BY <2>1 DEF Entered, CalledBy
  <2>6. /\ Closed' = Closed
        /\ Cardinality(Opened) <= Cardinality(Opened')
        /\ Cardinality(SignsRead) <= Cardinality(SignsRead')
        /\ Cardinality(Opened') \in Nat /\ Cardinality(SignsRead') \in Nat
    BY <1>1, <2>2, <2>3, ReadKeeps
  <2>7. Accounted'
    <3>1. /\ Number(stack, "parens", Len(stack)) \in Nat
          /\ Number(stack, "sign", Len(stack)) \in Nat
          /\ Cardinality(Opened) \in Nat /\ Cardinality(Closed) \in Nat
          /\ Cardinality(SignsRead) \in Nat
      BY <1>1, Numbers
    <3>2. /\ Number(stack, "parens", Len(stack)) + Cardinality(Closed) <= Cardinality(Opened)
          /\ Number(stack, "sign", Len(stack)) <= Cardinality(SignsRead)
      BY DEF ExprInv, Accounted
    <3>3. /\ Number(stack, "parens", Len(stack)) + Cardinality(Closed') <= Cardinality(Opened')
          /\ Number(stack, "sign", Len(stack)) <= Cardinality(SignsRead')
      BY <2>6, <3>1, <3>2
    <3> QED BY <2>1, <3>3 DEF Accounted
  <2>8. OwnParens'
    BY <1>1, <2>1, <2>2, OwnParensKept
  <2> QED BY <2>4, <2>5, <2>7, <2>8 DEF ExprInv
<1>4. CASE tok \notin Atoms \cup Functions \cup {"("}
  <2>1. fn' = "threw" /\ i' = i /\ stack' = stack
    BY <1>4 DEF parseAtom, Functions, Atoms
  <2>2. Opened' = Opened /\ Closed' = Closed /\ SignsRead' = SignsRead
    BY <1>1, <2>1 DEF Opened, Closed, SignsRead, Consumed, InFront
  <2>3. ExprTypes' /\ Accounted' /\ OwnParens'
    BY <1>1, <2>1, <2>2 DEF ExprInv, ExprTypes, Accounted, OwnParens
  <2>4. Entered'
    BY <2>1 DEF Entered, CalledBy
  <2> QED BY <2>3, <2>4 DEF ExprInv
<1> QED BY <1>2, <1>3, <1>4

LEMMA ContinueExpr ==
    ASSUME ExprInv, Continue
    PROVE  ExprInv'
<1>1. fn = "return" /\ stack # <<>> /\ Top.in \in DOMAIN Operand /\ input' = input
  BY DEF Continue
<1>2. ExprTypes /\ i \in Nat \ {0} /\ IsSequence(stack) /\ Deep(stack)
  BY DEF ExprInv, ExprTypes
<1>3. /\ Number(stack, "parens", Len(stack)) \in Nat
      /\ Number(stack, "sign", Len(stack)) \in Nat
      /\ Cardinality(Opened) \in Nat /\ Cardinality(Closed) \in Nat
      /\ Cardinality(SignsRead) \in Nat
  BY <1>2, Numbers
<1>4. /\ Number(stack, "parens", Len(stack)) + Cardinality(Closed) <= Cardinality(Opened)
      /\ Number(stack, "sign", Len(stack)) <= Cardinality(SignsRead)
  BY DEF ExprInv, Accounted
<1>6. CASE tok \in Operators[Top.in] /\ (Top.in = "pow" => Top.op = "")
  <2>1. /\ i' = i + 1 /\ fn' = Operand[Top.in]
        /\ stack' = Append(Pop, Frame(Top.in, tok, Joined))
    BY <1>6 DEF Continue
  <2>2. PICK f : f = Frame(Top.in, tok, Joined)
    OBVIOUS
  <2>3. f.in = stack[Len(stack)].in /\ stack' = Append(SubSeq(stack, 1, Len(stack) - 1), f)
    BY <2>1, <2>2 DEF Frame, Top, Pop
  <2>4. /\ IsSequence(stack') /\ Deep(stack') /\ stack' # <<>> /\ stack'[Len(stack')] = f
        /\ AsMany(stack, stack')
    <3>1. PICK t : t = Append(SubSeq(stack, 1, Len(stack) - 1), f)
      OBVIOUS
    <3>2. IsSequence(t) /\ Deep(t) /\ t # <<>> /\ t[Len(t)] = f /\ AsMany(stack, t)
      BY <1>1, <1>2, <2>3, <3>1, SwapDeep
    <3>3. stack' = t
      BY <2>3, <3>1
    <3> QED BY <3>2, <3>3
  <2>5. /\ Number(stack', "parens", Len(stack')) = Number(stack, "parens", Len(stack))
        /\ Number(stack', "sign", Len(stack')) = Number(stack, "sign", Len(stack))
    BY <2>4 DEF AsMany
  <2>6. tok \in {"+", "-", "*", "/", "^"}
    <3>1. \A in \in {"expr", "term", "pow"} : Operators[in] \subseteq {"+", "-", "*", "/", "^"}
      BY DEF Operators
    <3>2. Top.in \in {"expr", "term", "pow"}
      BY <1>1, LevelIs
    <3> QED BY <1>6, <3>1, <3>2
  <2>7. /\ input[i] \notin Atoms \cup {")"} /\ input[i] # ")" /\ input[i] \notin Functions
    <3>1. tok # "end"
      BY <2>6
    <3>2. tok = input[i]
      BY <1>2, <3>1, TokenIs
    <3> QED BY <2>6, <3>2 DEF Atoms, Functions
  <2>8. i' \in Nat \ {0} /\ i <= i' /\ i..(i' - 1) = {i} /\ i' - 1 = i
    BY <1>2, <2>1
  <2>9. ExprTypes'
    BY <1>1, <1>2, <2>4, <2>8 DEF ExprTypes
  <2>10. Entered'
    <3>1. f.in \in CalledBy[Operand[Top.in]]
      BY <1>1, <2>3, LevelIs DEF Top
    <3>2. CanCall(stack', fn')
      BY <2>1, <2>4, <3>1 DEF CanCall
    <3> QED BY <1>1, <2>7, <2>8, <3>2 DEF Entered, InFront
  <2>11. Accounted'
    <3>1. /\ Closed' = Closed
          /\ Cardinality(Opened) <= Cardinality(Opened')
          /\ Cardinality(SignsRead) <= Cardinality(SignsRead')
          /\ Cardinality(Opened') \in Nat /\ Cardinality(SignsRead') \in Nat
      BY <1>1, <2>7, <2>8, ReadKeeps
    <3>2. /\ Number(stack, "parens", Len(stack)) + Cardinality(Closed') <= Cardinality(Opened')
          /\ Number(stack, "sign", Len(stack)) <= Cardinality(SignsRead')
      BY <1>3, <1>4, <3>1
    <3> QED BY <2>5, <3>2 DEF Accounted
  <2>12. OwnParens'
    BY <1>1, <1>2, <2>1, <2>7, OwnParensKept
  <2> QED BY <2>9, <2>10, <2>11, <2>12 DEF ExprInv
<1>7. CASE ~(tok \in Operators[Top.in] /\ (Top.in = "pow" => Top.op = ""))
  <2>1. stack' = Pop /\ i' = i /\ fn' = "return"
    BY <1>1, <1>7 DEF Continue
  <2>2. stack[Len(stack)].in # "parens" /\ stack[Len(stack)].in # "sign"
    BY <1>1, LevelIs DEF Top
  <2>3. /\ IsSequence(stack') /\ Deep(stack')
        /\ Number(stack', "parens", Len(stack')) = Number(stack, "parens", Len(stack))
        /\ Number(stack', "sign", Len(stack')) = Number(stack, "sign", Len(stack))
    BY <1>1, <1>2, <2>1, <2>2, Returned
  <2>4. Opened' = Opened /\ Closed' = Closed /\ SignsRead' = SignsRead
    BY <1>1, <2>1 DEF Opened, Closed, SignsRead, Consumed, InFront
  <2>5. ExprTypes'
    BY <1>1, <1>2, <2>1, <2>3 DEF ExprTypes
  <2>6. Entered'
    BY <2>1 DEF Entered, CalledBy
  <2>7. Accounted'
    BY <1>4, <2>3, <2>4 DEF Accounted
  <2>8. OwnParens'
    BY <1>1, <2>1 DEF ExprInv, OwnParens
  <2> QED BY <2>5, <2>6, <2>7, <2>8 DEF ExprInv
<1> QED BY <1>6, <1>7

LEMMA ReturnSignExpr ==
    ASSUME ExprInv, ReturnSign
    PROVE  ExprInv'
<1>1. /\ fn = "return" /\ stack # <<>> /\ stack[Len(stack)].in = "sign" /\ stack' = Pop
      /\ input' = input /\ i' = i /\ fn' = "return"
  BY DEF ReturnSign, Top
<1>2. ExprTypes /\ OwnParens
  BY DEF ExprInv
<1>3. /\ IsSequence(stack') /\ Deep(stack')
      /\ Number(stack', "parens", Len(stack')) = Number(stack, "parens", Len(stack))
      /\ Number(stack', "sign", Len(stack')) + 1 = Number(stack, "sign", Len(stack))
      /\ Number(stack', "sign", Len(stack')) \in Nat
  BY <1>1, <1>2, Returned
<1>4. Opened' = Opened /\ Closed' = Closed /\ SignsRead' = SignsRead
  BY <1>1 DEF Opened, Closed, SignsRead, Consumed, InFront
<1>5. Accounted'
  <2>1. /\ Number(stack, "parens", Len(stack)) + Cardinality(Closed) <= Cardinality(Opened)
        /\ Number(stack, "sign", Len(stack)) <= Cardinality(SignsRead)
    BY DEF ExprInv, Accounted
  <2>2. Cardinality(SignsRead) \in Nat
    BY <1>2, Numbers
  <2>3. Number(stack', "sign", Len(stack')) <= Cardinality(SignsRead)
    BY <1>3, <2>1, <2>2
  <2> QED BY <1>3, <1>4, <2>1, <2>3 DEF Accounted
<1>6. ExprTypes' /\ Entered' /\ OwnParens'
  BY <1>1, <1>2, <1>3 DEF ExprTypes, Entered, CalledBy, OwnParens
<1> QED BY <1>5, <1>6 DEF ExprInv

LEMMA ReturnParensExpr ==
    ASSUME ExprInv, ReturnParens
    PROVE  ExprInv'
<1>1. /\ fn = "return" /\ stack # <<>> /\ stack[Len(stack)].in = "parens" /\ stack' = Pop
      /\ input' = input /\ fn' = "return"
      /\ i' = IF tok = ")" THEN i + 1 ELSE i
  BY DEF ReturnParens, Top
<1>2. ExprTypes /\ OwnParens /\ i \in Nat \ {0}
  BY DEF ExprInv, ExprTypes
<1>3. /\ IsSequence(stack') /\ Deep(stack')
      /\ Number(stack', "parens", Len(stack')) + 1 = Number(stack, "parens", Len(stack))
      /\ Number(stack', "sign", Len(stack')) = Number(stack, "sign", Len(stack))
      /\ Number(stack', "parens", Len(stack')) \in Nat
  BY <1>1, <1>2, Returned
<1>4. /\ Number(stack, "parens", Len(stack)) + Cardinality(Closed) <= Cardinality(Opened)
      /\ Number(stack, "sign", Len(stack)) <= Cardinality(SignsRead)
  BY DEF ExprInv, Accounted
<1>5. /\ Cardinality(Opened) \in Nat /\ Cardinality(Closed) \in Nat
      /\ Cardinality(SignsRead) \in Nat /\ Number(stack, "sign", Len(stack)) \in Nat
  BY <1>2, Numbers
<1>6. Entered'
  BY <1>1 DEF Entered, CalledBy
<1>7. CASE tok = ")"
  <2>1. i' = i + 1 /\ i' \in Nat \ {0} /\ i <= i'
    BY <1>1, <1>2, <1>7
  <2>2. input[i] \notin Functions
    <3>1. tok # "end"
      BY <1>7
    <3>2. tok = input[i]
      BY <1>2, <3>1, TokenIs
    <3> QED BY <1>7, <3>2 DEF Functions
  <2>3. /\ Cardinality(Opened) <= Cardinality(Opened')
        /\ Cardinality(SignsRead) <= Cardinality(SignsRead')
        /\ Cardinality(Closed') <= Cardinality(Closed) + 1
    BY <1>1, <1>2, <2>1, ReadOn
  <2>4. /\ Cardinality(Opened') \in Nat /\ Cardinality(Closed') \in Nat
        /\ Cardinality(SignsRead') \in Nat
    BY <2>1, CountsLater
  <2>5. Number(stack', "parens", Len(stack')) + Cardinality(Closed') <= Cardinality(Opened')
    BY <1>3, <1>4, <1>5, <2>3, <2>4
  <2>6. Number(stack', "sign", Len(stack')) <= Cardinality(SignsRead')
    BY <1>3, <1>4, <1>5, <2>3, <2>4
  <2>7. ExprTypes' /\ Accounted'
    BY <1>1, <1>2, <1>3, <2>1, <2>5, <2>6 DEF ExprTypes, Accounted
  <2>8. OwnParens'
    BY <1>1, <1>2, <2>1, <2>2, OwnParensKept
  <2> QED BY <1>6, <2>7, <2>8 DEF ExprInv
<1>8. CASE tok # ")"
  <2>1. i' = i
    BY <1>1, <1>8
  <2>2. Opened' = Opened /\ Closed' = Closed /\ SignsRead' = SignsRead
    BY <1>1, <2>1 DEF Opened, Closed, SignsRead, Consumed, InFront
  <2>3. Number(stack', "parens", Len(stack')) + Cardinality(Closed) <= Cardinality(Opened)
    BY <1>3, <1>4, <1>5
  <2>4. Accounted'
    BY <1>3, <1>4, <2>2, <2>3 DEF Accounted
  <2>5. ExprTypes' /\ OwnParens'
    BY <1>1, <1>2, <1>3, <2>1 DEF ExprTypes, OwnParens
  <2> QED BY <1>6, <2>4, <2>5 DEF ExprInv
<1> QED BY <1>7, <1>8

LEMMA StepExpr == ExprInv /\ [Next]_vars => ExprInv'
<1> SUFFICES ASSUME ExprInv, [Next]_vars PROVE ExprInv'
  OBVIOUS
<1>1. CASE Descend
  BY <1>1, DescendExpr
<1>2. CASE parseUnary
  BY <1>2, UnaryExpr
<1>3. CASE parseAtom
  BY <1>3, AtomExpr
<1>4. CASE Continue
  BY <1>4, ContinueExpr
<1>5. CASE ReturnSign
  BY <1>5, ReturnSignExpr
<1>6. CASE ReturnParens
  BY <1>6, ReturnParensExpr
<1>7. CASE evalExpr
  <2>1. fn' = "done" /\ input' = input /\ i' = i /\ stack' = stack
    BY <1>7 DEF evalExpr
  <2>2. Opened' = Opened /\ Closed' = Closed /\ SignsRead' = SignsRead
    BY <2>1 DEF Opened, Closed, SignsRead, Consumed, InFront
  <2>3. Entered'
    BY <2>1 DEF Entered, CalledBy
  <2> QED BY <2>1, <2>2, <2>3 DEF ExprInv, ExprTypes, Accounted, OwnParens
<1>8. CASE UNCHANGED vars
  <2>1. fn' = fn /\ input' = input /\ i' = i /\ stack' = stack
    BY <1>8 DEF vars
  <2>2. Opened' = Opened /\ Closed' = Closed /\ SignsRead' = SignsRead
    BY <2>1 DEF Opened, Closed, SignsRead, Consumed, InFront
  <2>3. Entered'
    BY <2>1 DEF ExprInv, Entered, InFront
  <2> QED BY <2>1, <2>2, <2>3 DEF ExprInv, ExprTypes, Accounted, OwnParens
<1> QED BY <1>1, <1>2, <1>3, <1>4, <1>5, <1>6, <1>7, <1>8 DEF Next

\* At every step of the parser, for every input: a function is entered where an
\* operand is expected and by a call that can make it; call k on the stack is as
\* deep as the calls of parentheses and signs up to it allow; and there are no
\* more of these than parentheses open and signs read (core/src/chord.cpp).
THEOREM ExprInvariant == Spec => []ExprInv
BY InitExpr, StepExpr, PTL DEF Spec

LEMMA StackIsBounded == ExprInv => StackBounded
<1> SUFFICES ASSUME ExprInv PROVE StackBounded
  OBVIOUS
<1>1. ExprTypes /\ IsSequence(stack) /\ Deep(stack)
  BY DEF ExprInv, ExprTypes
<1>2. /\ Number(stack, "parens", Len(stack)) + Cardinality(Closed) <= Cardinality(Opened)
      /\ Number(stack, "sign", Len(stack)) <= Cardinality(SignsRead)
  BY DEF ExprInv, Accounted
<1>3. /\ Number(stack, "parens", Len(stack)) \in Nat
      /\ Number(stack, "sign", Len(stack)) \in Nat
      /\ Cardinality(Opened) \in Nat /\ Cardinality(Closed) \in Nat
      /\ Cardinality(SignsRead) \in Nat /\ Len(stack) \in Nat
  BY <1>1, Numbers
<1>4. CASE Len(stack) = 0
  BY <1>2, <1>3, <1>4 DEF StackBounded
<1>5. CASE Len(stack) # 0
  <2>1. Len(stack) \in 1..Len(stack)
    BY <1>3, <1>5
  <2>2. /\ stack[Len(stack)].in \in Kinds
        /\ Len(stack) <= Level[stack[Len(stack)].in] + 4 * Number(stack, "parens", Len(stack))
                         + Number(stack, "sign", Len(stack))
    BY <1>1, <2>1 DEF Deep, Depth
  <2>3. Level[stack[Len(stack)].in] \in 0..3
    BY <2>2, LevelIs
  <2>4. PICK v \in 0..3 : v = Level[stack[Len(stack)].in]
    BY <2>3
  <2>5. Len(stack) <= 3 + 4 * Number(stack, "parens", Len(stack))
                      + Number(stack, "sign", Len(stack))
    <3>1. Len(stack) <= v + 4 * Number(stack, "parens", Len(stack))
                        + Number(stack, "sign", Len(stack))
      BY <2>2, <2>4
    <3> QED BY <1>3, <3>1
  <2>6. Number(stack, "parens", Len(stack)) <= Cardinality(Opened) - Cardinality(Closed)
    BY <1>2, <1>3
  <2> QED BY <1>2, <1>3, <2>5, <2>6 DEF StackBounded
<1> QED BY <1>4, <1>5

\* For every input the parser's recursion is as deep as the parentheses open and
\* the signs read require, however many operators were read: the C++ stack grows
\* with them only (the recursive functions of core/src/chord.cpp).
THEOREM BoundedStack == Spec => []StackBounded
BY ExprInvariant, StackIsBounded, PTL

-----------------------------------------------------------------------------
(* The parser as a function of its configuration: what every step makes    *)
(* of a position, a stack, a function and a value.                         *)

LEMMA TopOfPushed ==
    ASSUME NEW s, IsSequence(s), NEW f
    PROVE  LET t == Append(s, f)
           IN  IsSequence(t) /\ t # <<>> /\ t[Len(t)] = f /\ SubSeq(t, 1, Len(t) - 1) = s
<1>1. PICK t : t = Append(s, f)
  OBVIOUS
<1>2. /\ IsSequence(t) /\ Len(s) \in Nat /\ Len(t) = Len(s) + 1
      /\ \A k \in 1..Len(s) : t[k] = s[k]
      /\ t[Len(s) + 1] = f
  BY <1>1, Pushed
<1>3. t # <<>>
  <2>1. Len(<<>>) = 0
    OBVIOUS
  <2> QED BY <1>2, <2>1
<1>4. PICK S : s \in Seq(S)
  BY DEF IsSequence
<1>5. PICK p : p = SubSeq(t, 1, Len(t) - 1)
  OBVIOUS
<1>6. Len(t) - 1 = Len(s)
  BY <1>2
<1>7. p \in Seq(S) /\ Len(p) = Len(s) /\ \A k \in 1..Len(s) : p[k] = s[k]
  <2>1. p = SubSeq(t, 1, Len(s))
    BY <1>5, <1>6
  <2>2. PICK n \in Nat : n = Len(s)
    BY <1>2
  <2>3. \A k \in 1..n : t[k] \in S
    BY <1>2, <1>4, <2>2
  <2>4. /\ SubSeq(t, 1, n) \in Seq(S)
        /\ Len(SubSeq(t, 1, n)) = IF 1 <= n THEN n - 1 + 1 ELSE 0
        /\ \A k \in 1..(n - 1 + 1) : SubSeq(t, 1, n)[k] = t[1 + k - 1]
    BY <2>3, SubSeqProperties
  <2>5. p \in Seq(S) /\ Len(p) = n /\ \A k \in 1..n : p[k] = t[k]
    BY <2>1, <2>2, <2>4
  <2> QED BY <1>2, <2>2, <2>5
<1>8. p = s
  BY <1>4, <1>7, SeqEqual
<1> QED BY <1>1, <1>2, <1>3, <1>5, <1>6, <1>8

Config(p, s, f, v) == [i |-> p, stack |-> s, fn |-> f, value |-> v]

Now == Config(i, stack, fn, value)

Final(c) == c.fn \in {"done", "threw"}

Text(text, p) == IF p <= Len(text) THEN text[p] ELSE "end"

\* What is returned to a pending call, when it was told v.
Told(f, v) == IF f.op = "" THEN v ELSE Enclosed(f.left \o <<f.op>> \o v)

Signed(f, v) == IF f.op = "-" THEN Enclosed(<<"-">> \o v) ELSE v

Applied(f, v) == IF f.op = "(" THEN v ELSE <<f.op>> \o Enclosed(v)

\* What parseUnary and parseAtom make of their first token.
Starts(text, c) ==
    LET t == Text(text, c.i)
        after == IF t \in Functions /\ c.i < Len(text) /\ text[c.i + 1] = "("
                 THEN c.i + 2 ELSE c.i + 1
    IN  IF t \in Signs
        THEN Config(c.i + 1, Append(c.stack, Frame("sign", t, Nothing)), "unary", c.value)
        ELSE IF t = "(" \/ t \in Functions
             THEN Config(after, Append(c.stack, Frame("parens", t, Nothing)), "expr", c.value)
        ELSE IF t \in Atoms THEN Config(c.i + 1, c.stack, "return", <<t>>)
        ELSE Config(c.i, c.stack, "threw", c.value)

\* What a pending call f goes on with, when those before it are s.
Resumes(text, c, s, f) ==
    LET t == Text(text, c.i)
    IN  IF f.in = "sign" THEN Config(c.i, s, "return", Signed(f, c.value))
        ELSE IF f.in = "parens"
             THEN Config(IF t = ")" THEN c.i + 1 ELSE c.i, s, "return", Applied(f, c.value))
        ELSE IF t \in Operators[f.in] /\ (f.in = "pow" => f.op = "")
             THEN Config(c.i + 1, Append(s, Frame(f.in, t, Told(f, c.value))), Operand[f.in],
                         c.value)
        ELSE Config(c.i, s, "return", Told(f, c.value))

After(text, c) ==
    IF c.fn \in DOMAIN Operand
    THEN Config(c.i, Append(c.stack, Frame(c.fn, "", Nothing)), Operand[c.fn], c.value)
    ELSE IF c.fn = "unary" THEN Starts(text, c)
    ELSE IF c.stack = <<>> THEN Config(c.i, <<>>, "done", c.value)
    ELSE Resumes(text, c, SubSeq(c.stack, 1, Len(c.stack) - 1), c.stack[Len(c.stack)])

LEMMA Parts ==
    \A p, s, f, v : /\ Config(p, s, f, v).i = p /\ Config(p, s, f, v).stack = s
                    /\ Config(p, s, f, v).fn = f /\ Config(p, s, f, v).value = v
BY DEF Config

LEMMA NextIsAfter ==
    Next => /\ Now' = After(input, Now) /\ ~ Final(Now)
            /\ input' = input /\ meant' = meant
<1> SUFFICES ASSUME Next PROVE Now' = After(input, Now) /\ ~ Final(Now)
                               /\ input' = input /\ meant' = meant
  OBVIOUS
<1>0. Now.i = i /\ Now.stack = stack /\ Now.fn = fn /\ Now.value = value
  BY Parts DEF Now
<1>1. Text(input, Now.i) = tok
  BY <1>0 DEF Text, tok
<1>2. DOMAIN Operand = {"expr", "term", "pow"}
  BY LevelIs
<1>3. CASE Descend
  <2>1. /\ fn \in DOMAIN Operand /\ i' = i /\ stack' = Append(stack, Frame(fn, "", Nothing))
        /\ fn' = Operand[fn] /\ value' = value /\ input' = input /\ meant' = meant
    BY <1>3 DEF Descend, Push
  <2>2. Now' = Config(i, Append(stack, Frame(fn, "", Nothing)), Operand[fn], value)
    BY <2>1 DEF Now
  <2> QED BY <1>0, <1>2, <2>1, <2>2 DEF After, Final
<1>4. CASE parseUnary
  <2>1. /\ fn = "unary" /\ tok \in Signs /\ i' = i + 1 /\ fn' = fn
        /\ stack' = Append(stack, Frame("sign", tok, Nothing))
        /\ value' = value /\ input' = input /\ meant' = meant
    BY <1>4 DEF parseUnary, Push
  <2>2. Now' = Config(i + 1, Append(stack, Frame("sign", tok, Nothing)), "unary", value)
    BY <2>1 DEF Now
  <2>3. Starts(input, Now) = Config(i + 1, Append(stack, Frame("sign", tok, Nothing)), "unary", value)
    BY <1>0, <1>1, <2>1 DEF Starts
  <2>4. After(input, Now) = Starts(input, Now)
    BY <1>0, <1>2, <2>1 DEF After
  <2> QED BY <1>0, <2>1, <2>2, <2>3, <2>4 DEF Final
<1>5. CASE parseAtom
  <2>1. fn = "unary" /\ tok \notin Signs /\ input' = input /\ meant' = meant
    BY <1>5 DEF parseAtom
  <2>2. After(input, Now) = Starts(input, Now)
    BY <1>0, <1>2, <2>1 DEF After
  <2>3. CASE tok = "(" \/ tok \in Functions
    <3>1. PICK j : j = IF tok \in Functions /\ i < Len(input) /\ input[i + 1] = "("
                       THEN i + 2 ELSE i + 1
      OBVIOUS
    <3>2. /\ i' = j /\ stack' = Append(stack, Frame("parens", tok, Nothing)) /\ fn' = "expr"
          /\ value' = value
      BY <1>5, <2>3, <3>1 DEF parseAtom, Push, Functions, Atoms
    <3>3. Now' = Config(j, Append(stack, Frame("parens", tok, Nothing)), "expr", value)
      BY <3>2 DEF Now
    <3>4. Starts(input, Now) = Config(j, Append(stack, Frame("parens", tok, Nothing)), "expr", value)
      BY <1>0, <1>1, <2>1, <2>3, <3>1 DEF Starts
    <3> QED BY <1>0, <2>1, <2>2, <3>3, <3>4 DEF Final
  <2>4. CASE tok \in Atoms
    <3>1. tok # "(" /\ tok \notin Functions
      BY <2>4 DEF Atoms, Functions
    <3>2. i' = i + 1 /\ stack' = stack /\ fn' = "return" /\ value' = <<tok>>
      BY <1>5, <2>4, <3>1 DEF parseAtom
    <3>3. Now' = Config(i + 1, stack, "return", <<tok>>)
      BY <3>2 DEF Now
    <3>4. Starts(input, Now) = Config(i + 1, stack, "return", <<tok>>)
      BY <1>0, <1>1, <2>1, <2>4, <3>1 DEF Starts
    <3> QED BY <1>0, <2>1, <2>2, <3>3, <3>4 DEF Final
  <2>5. CASE tok \notin Atoms \cup Functions \cup {"("}
    <3>1. i' = i /\ stack' = stack /\ fn' = "threw" /\ value' = value
      BY <1>5, <2>5 DEF parseAtom
    <3>2. Now' = Config(i, stack, "threw", value)
      BY <3>1 DEF Now
    <3>3. Starts(input, Now) = Config(i, stack, "threw", value)
      BY <1>0, <1>1, <2>1, <2>5 DEF Starts
    <3> QED BY <1>0, <2>1, <2>2, <3>2, <3>3 DEF Final
  <2> QED BY <2>3, <2>4, <2>5
<1>6. CASE Continue \/ ReturnSign \/ ReturnParens
  <2>1. fn = "return" /\ stack # <<>> /\ input' = input /\ meant' = meant
    BY <1>6 DEF Continue, ReturnSign, ReturnParens
  <2>2. PICK s, f : s = Pop /\ f = Top
    OBVIOUS
  <2>3. After(input, Now) = Resumes(input, Now, s, f)
    BY <1>0, <1>2, <2>1, <2>2 DEF After, Pop, Top
  <2>4. CASE Continue
    <3>1. f.in \in {"expr", "term", "pow"} /\ Joined = Told(f, value)
      BY <1>2, <2>2, <2>4 DEF Continue, Joined, Told
    <3>2. CASE tok \in Operators[f.in] /\ (f.in = "pow" => f.op = "")
      <4>1. /\ i' = i + 1 /\ fn' = Operand[f.in] /\ value' = value
            /\ stack' = Append(s, Frame(f.in, tok, Told(f, value)))
        BY <2>2, <2>4, <3>1, <3>2 DEF Continue
      <4>2. Now' = Config(i + 1, Append(s, Frame(f.in, tok, Told(f, value))), Operand[f.in], value)
        BY <4>1 DEF Now
      <4>3. Resumes(input, Now, s, f) =
               Config(i + 1, Append(s, Frame(f.in, tok, Told(f, value))), Operand[f.in], value)
        BY <1>0, <1>1, <3>1, <3>2 DEF Resumes
      <4> QED BY <1>0, <2>1, <2>3, <4>2, <4>3 DEF Final
    <3>3. CASE ~ (tok \in Operators[f.in] /\ (f.in = "pow" => f.op = ""))
      <4>1. i' = i /\ fn' = fn /\ value' = Told(f, value) /\ stack' = s
        BY <2>2, <2>4, <3>1, <3>3 DEF Continue
      <4>2. Now' = Config(i, s, "return", Told(f, value))
        BY <2>1, <4>1 DEF Now
      <4>3. Resumes(input, Now, s, f) = Config(i, s, "return", Told(f, value))
        BY <1>0, <1>1, <3>1, <3>3 DEF Resumes
      <4> QED BY <1>0, <2>1, <2>3, <4>2, <4>3 DEF Final
    <3> QED BY <3>2, <3>3
  <2>5. CASE ReturnSign
    <3>1. f.in = "sign" /\ i' = i /\ fn' = fn /\ stack' = s /\ value' = Signed(f, value)
      BY <2>2, <2>5 DEF ReturnSign, Signed
    <3>2. Now' = Config(i, s, "return", Signed(f, value))
      BY <2>1, <3>1 DEF Now
    <3>3. Resumes(input, Now, s, f) = Config(i, s, "return", Signed(f, value))
      BY <1>0, <3>1 DEF Resumes
    <3> QED BY <1>0, <2>1, <2>3, <3>2, <3>3 DEF Final
  <2>6. CASE ReturnParens
    <3>1. PICK j : j = IF tok = ")" THEN i + 1 ELSE i
      OBVIOUS
    <3>2. f.in = "parens" /\ i' = j /\ fn' = fn /\ stack' = s /\ value' = Applied(f, value)
      BY <2>2, <2>6, <3>1 DEF ReturnParens, Applied
    <3>3. Now' = Config(j, s, "return", Applied(f, value))
      BY <2>1, <3>2 DEF Now
    <3>4. Resumes(input, Now, s, f) = Config(j, s, "return", Applied(f, value))
      BY <1>0, <1>1, <3>1, <3>2 DEF Resumes
    <3> QED BY <1>0, <2>1, <2>3, <3>3, <3>4 DEF Final
  <2> QED BY <1>6, <2>4, <2>5, <2>6
<1>7. CASE evalExpr
  <2>1. /\ fn = "return" /\ stack = <<>> /\ i' = i /\ stack' = stack /\ fn' = "done"
        /\ value' = value /\ input' = input /\ meant' = meant
    BY <1>7 DEF evalExpr
  <2>2. Now' = Config(i, <<>>, "done", value)
    BY <2>1 DEF Now
  <2> QED BY <1>0, <1>2, <2>1, <2>2 DEF After, Final
<1> QED BY <1>3, <1>4, <1>5, <1>6, <1>7 DEF Next

-----------------------------------------------------------------------------
(* What the parser comes to from where.                                    *)

\* d is in every set of configurations that has c and what comes after each of
\* its members: the parser comes from c to d.
Reaches(text, c, d) ==
    \A S : c \in S /\ (\A x \in S : ~ Final(x) => After(text, x) \in S) => d \in S

LEMMA OneStep ==
    ASSUME NEW text, NEW c, ~ Final(c)
    PROVE  Reaches(text, c, After(text, c))
BY DEF Reaches

LEMMA Further ==
    ASSUME NEW text, NEW c, NEW d, NEW e, Reaches(text, c, d), Reaches(text, d, e)
    PROVE  Reaches(text, c, e)
BY DEF Reaches

\* There is one way only.
LEMMA OnTheWay ==
    ASSUME NEW text, NEW c, NEW d, Reaches(text, c, d), Final(d)
    PROVE  /\ Final(c) => c = d
           /\ ~ Final(c) => Reaches(text, After(text, c), d)
<1>1. ASSUME Final(c) PROVE c = d
  <2>1. d \in {c}
    BY <1>1 DEF Reaches
  <2> QED BY <2>1
<1>2. ASSUME ~ Final(c) PROVE Reaches(text, After(text, c), d)
  <2> SUFFICES ASSUME NEW S, After(text, c) \in S,
                      \A x \in S : ~ Final(x) => After(text, x) \in S
               PROVE  d \in S
    BY DEF Reaches
  <2>1. d \in S \cup {c}
    <3>1. PICK T : T = S \cup {c}
      OBVIOUS
    <3>2. c \in T /\ \A x \in T : ~ Final(x) => After(text, x) \in T
      BY <3>1
    <3> QED BY <3>1, <3>2 DEF Reaches
  <2>2. d # c
    BY <1>2
  <2> QED BY <2>1, <2>2
<1> QED BY <1>1, <1>2

LEMMA Descends ==
    ASSUME NEW text, NEW p, NEW s, NEW f \in DOMAIN Operand, NEW v
    PROVE  Reaches(text, Config(p, s, f, v),
                   Config(p, Append(s, Frame(f, "", Nothing)), Operand[f], v))
<1>1. PICK c : c = Config(p, s, f, v)
  OBVIOUS
<1>2. c.i = p /\ c.stack = s /\ c.fn = f /\ c.value = v
  BY <1>1, Parts
<1>3. ~ Final(c) /\ After(text, c) = Config(p, Append(s, Frame(f, "", Nothing)), Operand[f], v)
  BY <1>2, LevelIs DEF Final, After
<1> QED BY <1>1, <1>3, OneStep

LEMMA StartsThere ==
    ASSUME NEW text, NEW p, NEW s, NEW v, NEW c, c = Config(p, s, "unary", v)
    PROVE  /\ Reaches(text, c, Starts(text, c))
           /\ c.i = p /\ c.stack = s /\ c.fn = "unary" /\ c.value = v
<1>1. c.i = p /\ c.stack = s /\ c.fn = "unary" /\ c.value = v
  BY Parts
<1>2. ~ Final(c) /\ After(text, c) = Starts(text, c)
  BY <1>1, LevelIs DEF Final, After
<1>3. Reaches(text, c, Starts(text, c))
  BY <1>2, OneStep
<1> QED BY <1>1, <1>3

LEMMA TakesSign ==
    ASSUME NEW text, NEW p, NEW s, NEW v, Text(text, p) \in Signs
    PROVE  Reaches(text, Config(p, s, "unary", v),
                   Config(p + 1, Append(s, Frame("sign", Text(text, p), Nothing)), "unary", v))
<1>1. PICK c : c = Config(p, s, "unary", v)
  OBVIOUS
<1>2. /\ Reaches(text, c, Starts(text, c))
      /\ c.i = p /\ c.stack = s /\ c.fn = "unary" /\ c.value = v
  BY <1>1, StartsThere
<1>3. Starts(text, c) = Config(p + 1, Append(s, Frame("sign", Text(text, p), Nothing)), "unary", v)
  BY <1>2 DEF Starts
<1> QED BY <1>1, <1>2, <1>3

LEMMA TakesParenthesis ==
    ASSUME NEW text, NEW p, NEW s, NEW v, Text(text, p) = "("
    PROVE  Reaches(text, Config(p, s, "unary", v),
                   Config(p + 1, Append(s, Frame("parens", "(", Nothing)), "expr", v))
<1>1. PICK c : c = Config(p, s, "unary", v)
  OBVIOUS
<1>2. /\ Reaches(text, c, Starts(text, c))
      /\ c.i = p /\ c.stack = s /\ c.fn = "unary" /\ c.value = v
  BY <1>1, StartsThere
<1>3. "(" \notin Signs /\ "(" \notin Functions
  BY DEF Signs, Functions
<1>4. Starts(text, c) = Config(p + 1, Append(s, Frame("parens", "(", Nothing)), "expr", v)
  BY <1>2, <1>3 DEF Starts
<1> QED BY <1>1, <1>2, <1>4

LEMMA TakesFunction ==
    ASSUME NEW text, NEW p, NEW s, NEW v, Text(text, p) \in Functions,
           p < Len(text), text[p + 1] = "("
    PROVE  Reaches(text, Config(p, s, "unary", v),
                   Config(p + 2, Append(s, Frame("parens", Text(text, p), Nothing)), "expr", v))
<1>1. PICK c : c = Config(p, s, "unary", v)
  OBVIOUS
<1>2. /\ Reaches(text, c, Starts(text, c))
      /\ c.i = p /\ c.stack = s /\ c.fn = "unary" /\ c.value = v
  BY <1>1, StartsThere
<1>3. Text(text, p) \notin Signs
  BY DEF Signs, Functions
<1>4. Starts(text, c) = Config(p + 2, Append(s, Frame("parens", Text(text, p), Nothing)), "expr", v)
  BY <1>2, <1>3 DEF Starts
<1> QED BY <1>1, <1>2, <1>4

LEMMA TakesAtom ==
    ASSUME NEW text, NEW p, NEW s, NEW v, Text(text, p) \in Atoms
    PROVE  Reaches(text, Config(p, s, "unary", v),
                   Config(p + 1, s, "return", <<Text(text, p)>>))
<1>1. PICK c : c = Config(p, s, "unary", v)
  OBVIOUS
<1>2. /\ Reaches(text, c, Starts(text, c))
      /\ c.i = p /\ c.stack = s /\ c.fn = "unary" /\ c.value = v
  BY <1>1, StartsThere
<1>3. Text(text, p) \notin Signs /\ Text(text, p) # "(" /\ Text(text, p) \notin Functions
  BY DEF Signs, Functions, Atoms
<1>4. Starts(text, c) = Config(p + 1, s, "return", <<Text(text, p)>>)
  BY <1>2, <1>3 DEF Starts
<1> QED BY <1>1, <1>2, <1>4

LEMMA ResumesThere ==
    ASSUME NEW text, NEW p, NEW s, IsSequence(s), NEW f, NEW v,
           NEW c, c = Config(p, Append(s, f), "return", v)
    PROVE  /\ Reaches(text, c, Resumes(text, c, s, f))
           /\ c.i = p /\ c.value = v
<1>0. PICK t : t = Append(s, f)
  OBVIOUS
<1>1. c.i = p /\ c.stack = t /\ c.fn = "return" /\ c.value = v
  <2>1. c = Config(p, t, "return", v)
    BY <1>0
  <2> QED BY <2>1 DEF Config
<1>2. /\ c.stack # <<>> /\ c.stack[Len(c.stack)] = f
      /\ SubSeq(c.stack, 1, Len(c.stack) - 1) = s
  BY <1>0, <1>1, TopOfPushed
<1>3. ~ Final(c) /\ After(text, c) = Resumes(text, c, s, f)
  BY <1>1, <1>2, LevelIs DEF Final, After
<1>4. Reaches(text, c, Resumes(text, c, s, f))
  BY <1>3, OneStep
<1> QED BY <1>1, <1>4

LEMMA Continues ==
    ASSUME NEW text, NEW p, NEW s, IsSequence(s), NEW f, f.in \in DOMAIN Operand, NEW v,
           Text(text, p) \in Operators[f.in], f.in = "pow" => f.op = ""
    PROVE  Reaches(text, Config(p, Append(s, f), "return", v),
                   Config(p + 1, Append(s, Frame(f.in, Text(text, p), Told(f, v))), Operand[f.in], v))
<1>1. PICK c : c = Config(p, Append(s, f), "return", v)
  OBVIOUS
<1>2. Reaches(text, c, Resumes(text, c, s, f)) /\ c.i = p /\ c.value = v
  BY ONLY <1>1, IsSequence(s), ResumesThere
<1>3. f.in # "sign" /\ f.in # "parens"
  BY LevelIs
<1>4. Resumes(text, c, s, f) =
         Config(p + 1, Append(s, Frame(f.in, Text(text, p), Told(f, v))), Operand[f.in], v)
  BY <1>2, <1>3 DEF Resumes
<1> QED BY <1>1, <1>2, <1>4

LEMMA Closes ==
    ASSUME NEW text, NEW p, NEW s, IsSequence(s), NEW f, f.in \in DOMAIN Operand, NEW v,
           ~ (Text(text, p) \in Operators[f.in] /\ (f.in = "pow" => f.op = ""))
    PROVE  Reaches(text, Config(p, Append(s, f), "return", v), Config(p, s, "return", Told(f, v)))
<1>1. PICK c : c = Config(p, Append(s, f), "return", v)
  OBVIOUS
<1>2. Reaches(text, c, Resumes(text, c, s, f)) /\ c.i = p /\ c.value = v
  BY ONLY <1>1, IsSequence(s), ResumesThere
<1>3. f.in # "sign" /\ f.in # "parens"
  BY LevelIs
<1>4. Resumes(text, c, s, f) = Config(p, s, "return", Told(f, v))
  BY <1>2, <1>3 DEF Resumes
<1> QED BY <1>1, <1>2, <1>4

LEMMA ClosesSign ==
    ASSUME NEW text, NEW p, NEW s, IsSequence(s), NEW f, f.in = "sign", NEW v
    PROVE  Reaches(text, Config(p, Append(s, f), "return", v), Config(p, s, "return", Signed(f, v)))
<1>1. PICK c : c = Config(p, Append(s, f), "return", v)
  OBVIOUS
<1>2. Reaches(text, c, Resumes(text, c, s, f)) /\ c.i = p /\ c.value = v
  BY ONLY <1>1, IsSequence(s), ResumesThere
<1>3. Resumes(text, c, s, f) = Config(p, s, "return", Signed(f, v))
  BY <1>2 DEF Resumes
<1> QED BY <1>1, <1>2, <1>3

LEMMA ClosesParenthesis ==
    ASSUME NEW text, NEW p, NEW s, IsSequence(s), NEW f, f.in = "parens", NEW v, Text(text, p) = ")"
    PROVE  Reaches(text, Config(p, Append(s, f), "return", v),
                   Config(p + 1, s, "return", Applied(f, v)))
<1>1. PICK c : c = Config(p, Append(s, f), "return", v)
  OBVIOUS
<1>2. Reaches(text, c, Resumes(text, c, s, f)) /\ c.i = p /\ c.value = v
  BY ONLY <1>1, IsSequence(s), ResumesThere
<1>3. Resumes(text, c, s, f) = Config(p + 1, s, "return", Applied(f, v))
  BY <1>2 DEF Resumes
<1> QED BY <1>1, <1>2, <1>3

-----------------------------------------------------------------------------
(* Sequences, whatever they are made of.                                   *)

LEMMA OneToken == ASSUME NEW t PROVE IsSequence(<<t>>) /\ Len(<<t>>) = 1 /\ <<t>>[1] = t
<1>1. PICK S : S = {t}
  OBVIOUS
<1>2. <<t>> \in Seq(S)
  BY <1>1
<1> QED BY <1>2 DEF IsSequence

LEMMA SequenceLen == ASSUME NEW s, IsSequence(s) PROVE Len(s) \in Nat
BY DEF IsSequence

LEMMA Together ==
    ASSUME NEW s, NEW t, IsSequence(s), IsSequence(t)
    PROVE  \E S : s \in Seq(S) /\ t \in Seq(S)
<1>1. PICK S : s \in Seq(S)
  BY DEF IsSequence
<1>2. PICK T : t \in Seq(T)
  BY DEF IsSequence
<1>3. PICK U : U = S \cup T
  OBVIOUS
<1>4. S \subseteq U /\ T \subseteq U
  BY <1>3
<1>5. s \in Seq(U)
  BY <1>1, <1>4, SeqMonotonic
<1>6. t \in Seq(U)
  BY <1>2, <1>4, SeqMonotonic
<1> QED BY <1>5, <1>6

LEMMA JoinedSequence ==
    ASSUME NEW s, NEW t, IsSequence(s), IsSequence(t)
    PROVE  /\ IsSequence(s \o t) /\ Len(s \o t) = Len(s) + Len(t)
           /\ \A k \in 1..(Len(s) + Len(t)) :
                 (s \o t)[k] = IF k <= Len(s) THEN s[k] ELSE t[k - Len(s)]
<1>1. PICK S : s \in Seq(S) /\ t \in Seq(S)
  BY Together
<1>2. s \o t \in Seq(S)
  BY <1>1, ConcatProperties
<1> QED BY <1>1, <1>2, ConcatProperties DEF IsSequence

-----------------------------------------------------------------------------
(* How each function reads what it is meant to read.                       *)

\* w stands in text from p on, and q is behind it.
Spans(text, p, w, q) ==
    /\ IsSequence(text) /\ IsSequence(w) /\ p \in Nat \ {0}
    /\ q = p + Len(w) /\ q <= Len(text) + 1
    /\ \A k \in 1..Len(w) : text[p + k - 1] = w[k]

LEMMA SpansBoth ==
    ASSUME NEW text, NEW p, NEW q, NEW w, IsSequence(w), NEW x, IsSequence(x),
           Spans(text, p, w \o x, q)
    PROVE  \E m : Spans(text, p, w, m) /\ Spans(text, m, x, q)
<1>1. PICK a \in Nat, b \in Nat, n \in Nat : a = Len(w) /\ b = Len(x) /\ n = Len(text)
  BY SequenceLen DEF Spans
<1>2. PICK y : y = w \o x
  OBVIOUS
<1>3. /\ Len(y) = a + b
      /\ \A k \in 1..(a + b) : y[k] = IF k <= a THEN w[k] ELSE x[k - a]
  BY <1>1, <1>2, JoinedSequence
<1>4. /\ IsSequence(text) /\ p \in Nat \ {0} /\ q = p + (a + b) /\ q <= n + 1
      /\ \A k \in 1..(a + b) : text[p + k - 1] = y[k]
  BY <1>1, <1>2, <1>3 DEF Spans
<1>5. Spans(text, p, w, p + a)
  <2>1. \A k \in 1..a : text[p + k - 1] = w[k]
    BY <1>3, <1>4
  <2>2. p + a <= n + 1
    BY <1>4
  <2> QED BY <1>1, <1>4, <2>1, <2>2 DEF Spans
<1>6. Spans(text, p + a, x, q)
  <2>1. \A k \in 1..b : text[p + a + k - 1] = x[k]
    <3> SUFFICES ASSUME NEW k \in 1..b PROVE text[p + a + k - 1] = x[k]
      OBVIOUS
    <3>1. a + k \in 1..(a + b) /\ ~ (a + k <= a) /\ (a + k) - a = k
      OBVIOUS
    <3>2. text[p + (a + k) - 1] = x[k]
      BY <1>3, <1>4, <3>1
    <3>3. p + (a + k) - 1 = p + a + k - 1
      BY <1>4
    <3> QED BY <3>2, <3>3
  <2>2. p + a \in Nat \ {0} /\ q = p + a + b
    BY <1>4
  <2> QED BY <1>1, <1>4, <2>1, <2>2 DEF Spans
<1> QED BY <1>5, <1>6

LEMMA SpansToken ==
    ASSUME NEW text, NEW p, NEW q, NEW t, Spans(text, p, <<t>>, q)
    PROVE  /\ q = p + 1 /\ Text(text, p) = t /\ p <= Len(text) /\ text[p] = t
           /\ p \in Nat \ {0} /\ Len(text) \in Nat
<1>1. Len(<<t>>) = 1 /\ <<t>>[1] = t
  BY OneToken
<1>2. /\ IsSequence(text) /\ p \in Nat \ {0} /\ q = p + 1 /\ q <= Len(text) + 1
      /\ \A k \in 1..1 : text[p + k - 1] = <<t>>[k]
  BY <1>1 DEF Spans
<1>3. Len(text) \in Nat /\ p <= Len(text)
  BY <1>2, SequenceLen
<1>4. text[p] = t
  <2>1. 1 \in 1..1 /\ p + 1 - 1 = p
    BY <1>2
  <2> QED BY <1>1, <1>2, <2>1
<1> QED BY <1>2, <1>3, <1>4 DEF Text

\* w and x with a token between them.
LEMMA SpansThree ==
    ASSUME NEW text, NEW p, NEW q, NEW w, IsSequence(w), NEW t, NEW x, IsSequence(x),
           Spans(text, p, w \o <<t>> \o x, q)
    PROVE  \E m : /\ Spans(text, p, w, m) /\ Text(text, m) = t /\ m <= Len(text)
                  /\ Spans(text, m + 1, x, q)
<1>1. IsSequence(<<t>>)
  BY OneToken
<1>2. IsSequence(w \o <<t>>)
  BY <1>1, JoinedSequence
<1>3. PICK j : Spans(text, p, w \o <<t>>, j) /\ Spans(text, j, x, q)
  BY <1>2, SpansBoth
<1>4. PICK m : Spans(text, p, w, m) /\ Spans(text, m, <<t>>, j)
  BY <1>1, <1>3, SpansBoth
<1>5. j = m + 1 /\ Text(text, m) = t /\ m <= Len(text)
  BY <1>4, SpansToken
<1> QED BY <1>3, <1>4, <1>5

LEMMA EnclosedType == ASSUME NEW w, IsSequence(w) PROVE IsSequence(Enclosed(w))
<1>1. IsSequence(<<"(">>) /\ IsSequence(<<")">>)
  BY OneToken
<1>2. IsSequence(<<"(">> \o w)
  BY <1>1, JoinedSequence
<1> QED BY <1>1, <1>2, JoinedSequence DEF Enclosed

\* w in parentheses.
LEMMA SpansEnclosed ==
    ASSUME NEW text, NEW p, NEW q, NEW w, IsSequence(w), Spans(text, p, Enclosed(w), q)
    PROVE  \E m : /\ Text(text, p) = "(" /\ p <= Len(text) /\ text[p] = "("
                  /\ Spans(text, p + 1, w, m)
                  /\ Text(text, m) = ")" /\ q = m + 1
<1>1. IsSequence(<<"(">>) /\ IsSequence(<<")">>)
  BY OneToken
<1>2. IsSequence(<<"(">> \o w)
  BY <1>1, JoinedSequence
<1>3. PICK m : Spans(text, p, <<"(">> \o w, m) /\ Spans(text, m, <<")">>, q)
  BY <1>1, <1>2, SpansBoth DEF Enclosed
<1>4. PICK j : Spans(text, p, <<"(">>, j) /\ Spans(text, j, w, m)
  BY <1>1, <1>3, SpansBoth
<1>5. j = p + 1 /\ Text(text, p) = "(" /\ p <= Len(text) /\ text[p] = "("
  BY <1>4, SpansToken
<1>6. q = m + 1 /\ Text(text, m) = ")"
  BY <1>3, SpansToken
<1> QED BY <1>4, <1>5, <1>6

\* The tokens that each function does not look at but must not be followed by:
\* an operator that binds more would take the end of what it has read.
Follow == [expr |-> {"^", "*", "/"}, term |-> {"^"}, pow |-> {"^"}, unary |-> {}]

\* From f on, with w to be read, v is returned.
Returns(f, w, v) ==
    \A text, p, q, s, u :
        Spans(text, p, w, q) /\ IsSequence(s) /\ Text(text, q) \notin Follow[f]
        => Reaches(text, Config(p, s, f, u), Config(q, s, "return", v))

\* From c on, f has v at q and looks for an operator.
Has(text, c, q, s, f, v) ==
    \E op, l, r : /\ Told(Frame(f, op, l), r) = v
                  /\ Reaches(text, c, Config(q, Append(s, Frame(f, op, l)), "return", r))

\* From f on, with w to be read, f has v.
Gathers(f, w, v) ==
    \A text, p, q, s, u :
        Spans(text, p, w, q) /\ IsSequence(s) /\ Text(text, q) \notin Follow[f]
        => Has(text, Config(p, s, f, u), q, s, f, v)

\* From f on, wherever x begins, y is returned to s.
ReturnsTo(text, s, f, x, q, y) ==
    \A m, z : Spans(text, m, x, q)
               => Reaches(text, Config(m, s, f, z), Config(q, s, "return", y))

LEMMA Tables ==
    /\ DOMAIN Operand = {"expr", "term", "pow"}
    /\ Operand["expr"] = "term" /\ Operand["term"] = "pow" /\ Operand["pow"] = "unary"
    /\ Operators["expr"] = {"+", "-"} /\ Operators["term"] = {"*", "/"} /\ Operators["pow"] = {"^"}
    /\ Follow["expr"] = {"^", "*", "/"} /\ Follow["term"] = {"^"}
    /\ Follow["pow"] = {"^"} /\ Follow["unary"] = {}
BY DEF Operand, Operators, Follow

\* A function that has v returns it when no operator of its own follows.
LEMMA GathersReturns ==
    ASSUME NEW f \in {"expr", "term"}, NEW w, NEW v, Gathers(f, w, v),
           NEW text, NEW p, NEW q, NEW s, NEW u, Spans(text, p, w, q), IsSequence(s),
           Text(text, q) \notin Follow[f] \cup Operators[f]
    PROVE  Reaches(text, Config(p, s, f, u), Config(q, s, "return", v))
<1>1. PICK op, l, r : /\ Told(Frame(f, op, l), r) = v
                      /\ Reaches(text, Config(p, s, f, u),
                                 Config(q, Append(s, Frame(f, op, l)), "return", r))
  BY DEF Gathers, Has
<1>2. PICK x : x = Frame(f, op, l)
  OBVIOUS
<1>3. x.in = f /\ x.in \in DOMAIN Operand
  BY <1>2, Tables DEF Frame
<1>4. ~ (Text(text, q) \in Operators[x.in] /\ (x.in = "pow" => x.op = ""))
  BY <1>3
<1>5. Reaches(text, Config(q, Append(s, x), "return", r), Config(q, s, "return", Told(x, r)))
  BY <1>3, <1>4, Closes
<1> QED BY <1>1, <1>2, <1>5, Further

LEMMA UnaryIsPow ==
    ASSUME NEW w, NEW v, Returns("unary", w, v)
    PROVE  Returns("pow", w, v)
<1> SUFFICES ASSUME NEW text, NEW p, NEW q, NEW s, NEW u,
                    Spans(text, p, w, q), IsSequence(s), Text(text, q) \notin Follow["pow"]
             PROVE  Reaches(text, Config(p, s, "pow", u), Config(q, s, "return", v))
  BY DEF Returns
<1>1. PICK x : x = Frame("pow", "", Nothing)
  OBVIOUS
<1>2. x.in = "pow" /\ x.op = "" /\ Told(x, v) = v
  BY <1>1 DEF Frame, Told
<1>3. Reaches(text, Config(p, s, "pow", u), Config(p, Append(s, x), "unary", u))
  <2>1. "pow" \in DOMAIN Operand /\ Operand["pow"] = "unary"
    BY Tables
  <2> QED BY <1>1, <2>1, Descends
<1>4. IsSequence(Append(s, x))
  BY Pushed
<1>5. Reaches(text, Config(p, Append(s, x), "unary", u), Config(q, Append(s, x), "return", v))
  BY <1>4, Tables DEF Returns
<1>6. Reaches(text, Config(q, Append(s, x), "return", v), Config(q, s, "return", Told(x, v)))
  <2>1. x.in \in DOMAIN Operand /\ Text(text, q) \notin Operators[x.in]
    BY <1>2, Tables
  <2> QED BY <2>1, Closes
<1>7. Reaches(text, Config(p, s, "pow", u), Config(q, Append(s, x), "return", v))
  BY <1>3, <1>5, Further
<1>8. Reaches(text, Config(q, Append(s, x), "return", v), Config(q, s, "return", v))
  BY <1>2, <1>6
<1> QED BY <1>7, <1>8, Further

LEMMA PowerIsPow ==
    ASSUME NEW w, IsSequence(w), NEW x, IsSequence(x), NEW v, NEW y,
           Returns("unary", w, v), Returns("unary", x, y)
    PROVE  Returns("pow", w \o <<"^">> \o x, Enclosed(v \o <<"^">> \o y))
<1> SUFFICES ASSUME NEW text, NEW p, NEW q, NEW s, NEW u,
                    Spans(text, p, w \o <<"^">> \o x, q), IsSequence(s)
             PROVE  Reaches(text, Config(p, s, "pow", u),
                            Config(q, s, "return", Enclosed(v \o <<"^">> \o y)))
  BY DEF Returns
<1>1. PICK m : Spans(text, p, w, m) /\ Text(text, m) = "^" /\ Spans(text, m + 1, x, q)
  BY SpansThree
<1>2. PICK f, g : f = Frame("pow", "", Nothing) /\ g = Frame("pow", "^", v)
  OBVIOUS
<1>3. /\ f.in = "pow" /\ f.op = "" /\ g.in = "pow" /\ g.op = "^" /\ g.left = v
      /\ "pow" \in DOMAIN Operand /\ Operand["pow"] = "unary"
  <2>1. f.in = "pow" /\ f.op = "" /\ g.in = "pow" /\ g.op = "^" /\ g.left = v
    BY <1>2 DEF Frame
  <2> QED BY <2>1, Tables
<1>0. Told(f, v) = v /\ Told(g, y) = Enclosed(v \o <<"^">> \o y)
  BY <1>3 DEF Told
<1>4. IsSequence(Append(s, f)) /\ IsSequence(Append(s, g))
  BY Pushed
<1>5. Reaches(text, Config(p, s, "pow", u), Config(p, Append(s, f), "unary", u))
  BY <1>2, <1>3, Descends
<1>6. Reaches(text, Config(p, Append(s, f), "unary", u), Config(m, Append(s, f), "return", v))
  BY <1>1, <1>4, Tables DEF Returns
<1>7. Reaches(text, Config(m, Append(s, f), "return", v), Config(m + 1, Append(s, g), "unary", v))
  <2>1. Text(text, m) \in Operators[f.in]
    BY <1>1, <1>3, Tables
  <2>2. Reaches(text, Config(m, Append(s, f), "return", v),
                Config(m + 1, Append(s, Frame(f.in, Text(text, m), Told(f, v))), Operand[f.in], v))
    BY <1>3, <2>1, Continues
  <2> QED BY <1>0, <1>1, <1>2, <1>3, <2>2
<1>8. Reaches(text, Config(m + 1, Append(s, g), "unary", v), Config(q, Append(s, g), "return", y))
  BY <1>1, <1>4, Tables DEF Returns
<1>9. Reaches(text, Config(q, Append(s, g), "return", y), Config(q, s, "return", Told(g, y)))
  <2>1. ~ (Text(text, q) \in Operators[g.in] /\ (g.in = "pow" => g.op = ""))
    BY <1>3
  <2> QED BY <1>3, <2>1, Closes
<1>10. Reaches(text, Config(p, s, "pow", u), Config(m + 1, Append(s, g), "unary", v))
  BY <1>5, <1>6, <1>7, Further
<1> QED BY <1>0, <1>8, <1>9, <1>10, Further

LEMMA PowIsTerm ==
    ASSUME NEW w, NEW v, Returns("pow", w, v)
    PROVE  Gathers("term", w, v)
<1> SUFFICES ASSUME NEW text, NEW p, NEW q, NEW s, NEW u,
                    Spans(text, p, w, q), IsSequence(s), Text(text, q) \notin Follow["term"]
             PROVE  Has(text, Config(p, s, "term", u), q, s, "term", v)
  BY DEF Gathers
<1>1. PICK x : x = Frame("term", "", Nothing)
  OBVIOUS
<1>2. Reaches(text, Config(p, s, "term", u), Config(p, Append(s, x), "pow", u))
  <2>1. "term" \in DOMAIN Operand /\ Operand["term"] = "pow"
    BY Tables
  <2> QED BY <1>1, <2>1, Descends
<1>3. Reaches(text, Config(p, Append(s, x), "pow", u), Config(q, Append(s, x), "return", v))
  <2>1. IsSequence(Append(s, x)) /\ Text(text, q) \notin Follow["pow"]
    BY Pushed, Tables
  <2> QED BY <2>1 DEF Returns
<1>4. Reaches(text, Config(p, s, "term", u), Config(q, Append(s, x), "return", v))
  BY <1>2, <1>3, Further
<1>5. Told(x, v) = v
  BY <1>1 DEF Frame, Told
<1> QED BY <1>1, <1>4, <1>5 DEF Has

LEMMA TermIsExpr ==
    ASSUME NEW w, NEW v, Gathers("term", w, v)
    PROVE  Gathers("expr", w, v)
<1> SUFFICES ASSUME NEW text, NEW p, NEW q, NEW s, NEW u,
                    Spans(text, p, w, q), IsSequence(s), Text(text, q) \notin Follow["expr"]
             PROVE  Has(text, Config(p, s, "expr", u), q, s, "expr", v)
  BY DEF Gathers
<1>1. PICK x : x = Frame("expr", "", Nothing)
  OBVIOUS
<1>2. Reaches(text, Config(p, s, "expr", u), Config(p, Append(s, x), "term", u))
  <2>1. "expr" \in DOMAIN Operand /\ Operand["expr"] = "term"
    BY Tables
  <2> QED BY <1>1, <2>1, Descends
<1>3. Reaches(text, Config(p, Append(s, x), "term", u), Config(q, Append(s, x), "return", v))
  <2>1. IsSequence(Append(s, x))
    BY Pushed
  <2>2. Text(text, q) \notin Follow["term"] \cup Operators["term"]
    BY Tables
  <2> QED BY <2>1, <2>2, GathersReturns
<1>4. Reaches(text, Config(p, s, "expr", u), Config(q, Append(s, x), "return", v))
  BY <1>2, <1>3, Further
<1>5. Told(x, v) = v
  BY <1>1 DEF Frame, Told
<1> QED BY <1>1, <1>4, <1>5 DEF Has

\* One more operand of an operator that the function looks for.
LEMMA OneMore ==
    ASSUME NEW f \in {"expr", "term"}, NEW op \in Operators[f],
           NEW w, IsSequence(w), NEW x, IsSequence(x), NEW v, NEW y, Gathers(f, w, v),
           NEW text, NEW p, NEW q, NEW s, NEW u, Spans(text, p, w \o <<op>> \o x, q), IsSequence(s),
           ReturnsTo(text, Append(s, Frame(f, op, v)), Operand[f], x, q, y)
    PROVE  Has(text, Config(p, s, f, u), q, s, f, Enclosed(v \o <<op>> \o y))
<1>0. op # "" /\ op \notin Follow[f]
  <2>1. CASE f = "expr"
    BY <2>1, Tables
  <2>2. CASE f = "term"
    BY <2>2, Tables
  <2> QED BY <2>1, <2>2
<1>1. PICK m : Spans(text, p, w, m) /\ Text(text, m) = op /\ Spans(text, m + 1, x, q)
  BY ONLY IsSequence(w), IsSequence(x), Spans(text, p, w \o <<op>> \o x, q), SpansThree
<1>2. PICK o, l, r : /\ Told(Frame(f, o, l), r) = v
                     /\ Reaches(text, Config(p, s, f, u),
                                Config(m, Append(s, Frame(f, o, l)), "return", r))
  BY ONLY <1>0, <1>1, IsSequence(s), Gathers(f, w, v), ZenonT(60) DEF Gathers, Has
<1>3. PICK g : g = Frame(f, o, l)
  OBVIOUS
<1>4. g.in = f /\ f \in DOMAIN Operand /\ f # "pow" /\ Told(g, r) = v
  BY <1>2, <1>3, Tables DEF Frame
<1>5. Reaches(text, Config(m, Append(s, g), "return", r),
              Config(m + 1, Append(s, Frame(f, op, v)), Operand[f], r))
  <2>1. Reaches(text, Config(m, Append(s, g), "return", r),
                Config(m + 1, Append(s, Frame(g.in, Text(text, m), Told(g, r))), Operand[g.in], r))
    BY <1>1, <1>4, Continues
  <2> QED BY <1>1, <1>4, <2>1
<1>6. Reaches(text, Config(m + 1, Append(s, Frame(f, op, v)), Operand[f], r),
              Config(q, Append(s, Frame(f, op, v)), "return", y))
  BY <1>1 DEF ReturnsTo
<1>7. Reaches(text, Config(p, s, f, u), Config(q, Append(s, Frame(f, op, v)), "return", y))
  BY <1>2, <1>3, <1>5, <1>6, Further
<1>8. Told(Frame(f, op, v), y) = Enclosed(v \o <<op>> \o y)
  <2>1. PICK h : h = Frame(f, op, v)
    OBVIOUS
  <2>2. h.op = op /\ h.left = v
    BY <2>1 DEF Frame
  <2>3. Told(h, y) = Enclosed(v \o <<op>> \o y)
    BY <1>0, <2>2 DEF Told
  <2> QED BY <2>1, <2>3
<1> QED BY <1>7, <1>8 DEF Has

LEMMA ProductIsTerm ==
    ASSUME NEW op \in {"*", "/"}, NEW w, IsSequence(w), NEW x, IsSequence(x), NEW v, NEW y,
           Gathers("term", w, v), Returns("pow", x, y)
    PROVE  Gathers("term", w \o <<op>> \o x, Enclosed(v \o <<op>> \o y))
<1>1. op \in Operators["term"] /\ Operand["term"] = "pow" /\ Follow["term"] = Follow["pow"]
  BY Tables
<1> SUFFICES ASSUME NEW text, NEW p, NEW q, NEW s, NEW u, IsSequence(s),
                    Spans(text, p, w \o <<op>> \o x, q), Text(text, q) \notin Follow["term"]
             PROVE  Has(text, Config(p, s, "term", u), q, s, "term", Enclosed(v \o <<op>> \o y))
  BY DEF Gathers
<1>2. PICK t : t = Append(s, Frame("term", op, v))
  OBVIOUS
<1>3. ReturnsTo(text, t, "pow", x, q, y)
  <2>1. IsSequence(t) /\ Text(text, q) \notin Follow["pow"]
    BY <1>1, <1>2, Pushed
  <2> QED BY <2>1 DEF Returns, ReturnsTo
<1> QED BY <1>1, <1>2, <1>3, OneMore

LEMMA SumIsExpr ==
    ASSUME NEW op \in {"+", "-"}, NEW w, IsSequence(w), NEW x, IsSequence(x), NEW v, NEW y,
           Gathers("expr", w, v), Gathers("term", x, y)
    PROVE  Gathers("expr", w \o <<op>> \o x, Enclosed(v \o <<op>> \o y))
<1>1. op \in Operators["expr"] /\ Operand["expr"] = "term"
      /\ Follow["term"] \cup Operators["term"] = Follow["expr"]
  BY Tables
<1> SUFFICES ASSUME NEW text, NEW p, NEW q, NEW s, NEW u, IsSequence(s),
                    Spans(text, p, w \o <<op>> \o x, q), Text(text, q) \notin Follow["expr"]
             PROVE  Has(text, Config(p, s, "expr", u), q, s, "expr", Enclosed(v \o <<op>> \o y))
  BY DEF Gathers
<1>2. PICK t : t = Append(s, Frame("expr", op, v))
  OBVIOUS
<1>3. ReturnsTo(text, t, "term", x, q, y)
  <2>1. IsSequence(t) /\ Text(text, q) \notin Follow["term"] \cup Operators["term"]
    BY <1>1, <1>2, Pushed
  <2>2. ASSUME NEW m, NEW z, Spans(text, m, x, q)
        PROVE  Reaches(text, Config(m, t, "term", z), Config(q, t, "return", y))
    BY <2>1, <2>2, GathersReturns
  <2> QED BY <2>2 DEF ReturnsTo
<1> QED BY <1>1, <1>2, <1>3, OneMore

LEMMA AtomIsUnary ==
    ASSUME NEW a \in Atoms
    PROVE  Returns("unary", <<a>>, <<a>>)
<1> SUFFICES ASSUME NEW text, NEW p, NEW q, NEW s, NEW u, Spans(text, p, <<a>>, q)
             PROVE  Reaches(text, Config(p, s, "unary", u), Config(q, s, "return", <<a>>))
  BY DEF Returns
<1>1. q = p + 1 /\ Text(text, p) = a
  BY SpansToken
<1> QED BY <1>1, TakesAtom

LEMMA NegationIsUnary ==
    ASSUME NEW w, IsSequence(w), NEW v, Returns("unary", w, v)
    PROVE  Returns("unary", <<"-">> \o w, Enclosed(<<"-">> \o v))
<1> SUFFICES ASSUME NEW text, NEW p, NEW q, NEW s, NEW u, IsSequence(s),
                    Spans(text, p, <<"-">> \o w, q)
             PROVE  Reaches(text, Config(p, s, "unary", u),
                            Config(q, s, "return", Enclosed(<<"-">> \o v)))
  BY DEF Returns
<1>1. IsSequence(<<"-">>)
  BY OneToken
<1>2. PICK m : Spans(text, p, <<"-">>, m) /\ Spans(text, m, w, q)
  BY <1>1, SpansBoth
<1>3. m = p + 1 /\ Text(text, p) = "-"
  BY <1>2, SpansToken
<1>4. PICK f : f = Frame("sign", "-", Nothing)
  OBVIOUS
<1>5. f.in = "sign" /\ Signed(f, v) = Enclosed(<<"-">> \o v)
  BY <1>4 DEF Frame, Signed
<1>6. Reaches(text, Config(p, s, "unary", u), Config(m, Append(s, f), "unary", u))
  <2>1. Text(text, p) \in Signs
    BY <1>3 DEF Signs
  <2> QED BY <1>3, <1>4, <2>1, TakesSign
<1>7. Reaches(text, Config(m, Append(s, f), "unary", u), Config(q, Append(s, f), "return", v))
  <2>1. IsSequence(Append(s, f))
    BY Pushed
  <2> QED BY <1>2, <2>1, Tables DEF Returns
<1>8. Reaches(text, Config(q, Append(s, f), "return", v), Config(q, s, "return", Signed(f, v)))
  BY <1>5, ClosesSign
<1> QED BY <1>5, <1>6, <1>7, <1>8, Further

\* Between parentheses.
LEMMA Inside ==
    ASSUME NEW w, IsSequence(w), NEW v, Gathers("expr", w, v), NEW text, NEW p, NEW m, NEW s, NEW u,
           NEW op, IsSequence(s), Spans(text, p, w, m), Text(text, m) = ")"
    PROVE  LET f == Frame("parens", op, Nothing)
           IN  Reaches(text, Config(p, Append(s, f), "expr", u),
                       Config(m + 1, s, "return", Applied(f, v)))
<1>1. PICK f : f = Frame("parens", op, Nothing)
  OBVIOUS
<1>2. f.in = "parens"
  BY <1>1 DEF Frame
<1>3. Text(text, m) \notin Follow["expr"] \cup Operators["expr"]
  BY Tables
<1>4. Reaches(text, Config(p, Append(s, f), "expr", u), Config(m, Append(s, f), "return", v))
  BY <1>3, Pushed, GathersReturns
<1>5. Reaches(text, Config(m, Append(s, f), "return", v), Config(m + 1, s, "return", Applied(f, v)))
  BY <1>2, ClosesParenthesis
<1> QED BY <1>1, <1>4, <1>5, Further

LEMMA EnclosedIsUnary ==
    ASSUME NEW w, IsSequence(w), NEW v, Gathers("expr", w, v)
    PROVE  Returns("unary", Enclosed(w), v)
<1> SUFFICES ASSUME NEW text, NEW p, NEW q, NEW s, NEW u, IsSequence(s),
                    Spans(text, p, Enclosed(w), q)
             PROVE  Reaches(text, Config(p, s, "unary", u), Config(q, s, "return", v))
  BY DEF Returns
<1>1. PICK m : /\ Text(text, p) = "(" /\ Spans(text, p + 1, w, m)
               /\ Text(text, m) = ")" /\ q = m + 1
  BY SpansEnclosed
<1>2. PICK f : f = Frame("parens", "(", Nothing)
  OBVIOUS
<1>3. Applied(f, v) = v
  BY <1>2 DEF Frame, Applied
<1>4. Reaches(text, Config(p, s, "unary", u), Config(p + 1, Append(s, f), "expr", u))
  BY <1>1, <1>2, TakesParenthesis
<1>5. Reaches(text, Config(p + 1, Append(s, f), "expr", u), Config(q, s, "return", Applied(f, v)))
  BY <1>1, <1>2, Inside
<1> QED BY <1>3, <1>4, <1>5, Further

LEMMA CallIsUnary ==
    ASSUME NEW name \in Functions, NEW w, IsSequence(w), NEW v, Gathers("expr", w, v)
    PROVE  Returns("unary", <<name>> \o Enclosed(w), <<name>> \o Enclosed(v))
<1> SUFFICES ASSUME NEW text, NEW p, NEW q, NEW s, NEW u, IsSequence(s),
                    Spans(text, p, <<name>> \o Enclosed(w), q)
             PROVE  Reaches(text, Config(p, s, "unary", u),
                            Config(q, s, "return", <<name>> \o Enclosed(v)))
  BY DEF Returns
<1>1. IsSequence(<<name>>) /\ name # "("
  BY OneToken DEF Functions
<1>2. PICK j : Spans(text, p, <<name>>, j) /\ Spans(text, j, Enclosed(w), q)
  BY <1>1, EnclosedType, SpansBoth
<1>3. j = p + 1 /\ Text(text, p) = name /\ p <= Len(text) /\ p \in Nat \ {0} /\ Len(text) \in Nat
  BY <1>2, SpansToken
<1>4. PICK m : /\ j <= Len(text) /\ text[j] = "(" /\ Spans(text, j + 1, w, m)
               /\ Text(text, m) = ")" /\ q = m + 1
  BY <1>2, SpansEnclosed
<1>5. PICK f : f = Frame("parens", name, Nothing)
  OBVIOUS
<1>6. Applied(f, v) = <<name>> \o Enclosed(v)
  <2>1. f.op = name
    BY <1>5 DEF Frame
  <2> QED BY <1>1, <2>1 DEF Applied
<1>7. p < Len(text) /\ text[p + 1] = "(" /\ j + 1 = p + 2
  BY <1>3, <1>4
<1>8. Reaches(text, Config(p, s, "unary", u), Config(p + 2, Append(s, f), "expr", u))
  BY <1>3, <1>5, <1>7, TakesFunction
<1>9. Reaches(text, Config(p + 2, Append(s, f), "expr", u), Config(q, s, "return", Applied(f, v)))
  BY <1>4, <1>5, <1>7, Inside
<1> QED BY <1>6, <1>8, <1>9, Further

LEMMA Least ==
    ASSUME NEW T, T \subseteq Nat, T # {}
    PROVE  \E x \in T : \A y \in T : x <= y
<1>1. \E R : IsWellFoundedOn(R, Nat) /\ \A x, y \in Nat : <<x, y>> \in R <=> x < y
  <2>1. \A x, y \in Nat : <<x, y>> \in OpToRel(<, Nat) <=> x < y
    BY Zenon DEF OpToRel
  <2> QED BY <2>1, NatLessThanWellFounded, Zenon
<1>2. PICK R : IsWellFoundedOn(R, Nat) /\ \A x, y \in Nat : <<x, y>> \in R <=> x < y
  BY <1>1
<1>3. \E x \in T : \A y \in T : ~ (<<y, x>> \in R)
  <2>1. IsWellFoundedOn(R, Nat)
    BY <1>2
  <2> QED BY <2>1, WFMin, Zenon
<1>4. PICK x \in T : \A y \in T : ~ (<<y, x>> \in R)
  BY <1>3
<1>5. \A y \in T : ~ (y < x)
  BY <1>2, <1>4
<1>6. \A y \in T : x <= y
  BY <1>5
<1> QED BY <1>6

LEMMA Induction ==
    ASSUME NEW S, 0 \in S, \A n \in Nat : n \in S => n + 1 \in S
    PROVE  \A n \in Nat : n \in S
<1> SUFFICES ASSUME NEW n \in Nat, n \notin S PROVE FALSE
  OBVIOUS
<1>1. PICK x \in Nat \ S : \A y \in Nat \ S : x <= y
  BY Least
<1>2. x # 0 /\ x - 1 \in Nat /\ x - 1 \notin Nat \ S
  BY <1>1
<1>3. (x - 1) + 1 \in S
  BY <1>2
<1> QED BY <1>1, <1>3

-----------------------------------------------------------------------------
(* Every plain expression is read as what is meant by it.                  *)

LEMMA ExpressionParts ==
    ASSUME NEW w, NEW m, NEW b, NEW pl, NEW e, e = Expression(w, m, b, pl)
    PROVE  e.written = w /\ e.means = m /\ e.binds = b /\ e.plain = pl
BY DEF Expression

\* Where an expression that binds as e does may stand, e is read.
Readable(e) ==
    /\ IsSequence(e.written) /\ e.binds \in 1..5
    /\ Gathers("expr", e.written, e.means)
    /\ e.binds >= 2 => Gathers("term", e.written, e.means)
    /\ e.binds >= 3 => Returns("pow", e.written, e.means)
    /\ e.binds \in {3, 5} => Returns("unary", e.written, e.means)

LEMMA PowIsReadable ==
    ASSUME NEW e, IsSequence(e.written), e.binds = 4, Returns("pow", e.written, e.means)
    PROVE  Readable(e)
<1>1. Gathers("term", e.written, e.means)
  BY PowIsTerm
<1>2. Gathers("expr", e.written, e.means)
  BY <1>1, TermIsExpr
<1> QED BY <1>1, <1>2 DEF Readable

LEMMA UnaryIsReadable ==
    ASSUME NEW e, IsSequence(e.written), e.binds \in {3, 5}, Returns("unary", e.written, e.means)
    PROVE  Readable(e)
<1>1. Returns("pow", e.written, e.means)
  BY UnaryIsPow
<1>2. Gathers("term", e.written, e.means)
  BY <1>1, PowIsTerm
<1>3. Gathers("expr", e.written, e.means)
  BY <1>2, TermIsExpr
<1> QED BY <1>1, <1>2, <1>3 DEF Readable

\* Parentheses are written where they are needed for that.
LEMMA ReadableAs ==
    ASSUME NEW e, Readable(e)
    PROVE  /\ \A n : IsSequence(As(e, n))
           /\ Gathers("expr", As(e, 1), e.means) /\ Gathers("term", As(e, 2), e.means)
           /\ Returns("pow", As(e, 3), e.means) /\ Returns("unary", As(e, 5), e.means)
           /\ e.binds # 4 => Returns("unary", As(e, 3), e.means)
<1>1. PICK w : w = Enclosed(e.written)
  OBVIOUS
<1>2. IsSequence(e.written) /\ e.binds \in 1..5 /\ Gathers("expr", e.written, e.means)
  BY DEF Readable
<1>3. IsSequence(w) /\ Returns("unary", w, e.means)
  BY <1>1, <1>2, EnclosedType, EnclosedIsUnary
<1>4. Returns("pow", w, e.means)
  BY <1>3, UnaryIsPow
<1>5. Gathers("term", w, e.means)
  BY <1>4, PowIsTerm
<1>6. \A n : As(e, n) = IF e.binds >= n THEN e.written ELSE w
  BY <1>1 DEF As
<1>7. Gathers("expr", As(e, 1), e.means)
  BY <1>2, <1>6
<1>8. Gathers("term", As(e, 2), e.means)
  BY <1>2, <1>5, <1>6 DEF Readable
<1>9. Returns("pow", As(e, 3), e.means)
  BY <1>2, <1>4, <1>6 DEF Readable
<1>10. Returns("unary", As(e, 5), e.means)
  BY <1>2, <1>3, <1>6 DEF Readable
<1>11. e.binds # 4 => Returns("unary", As(e, 3), e.means)
  BY <1>2, <1>3, <1>6 DEF Readable
<1>12. \A n : IsSequence(As(e, n))
  BY <1>2, <1>3, <1>6
<1> QED BY <1>7, <1>8, <1>9, <1>10, <1>11, <1>12

LEMMA BetweenTwo ==
    ASSUME NEW w, IsSequence(w), NEW x, IsSequence(x), NEW t
    PROVE  IsSequence(w \o <<t>> \o x) /\ IsSequence(<<t>> \o w)
<1>1. IsSequence(<<t>>)
  BY OneToken
<1>2. IsSequence(w \o <<t>>)
  BY <1>1, JoinedSequence
<1> QED BY <1>1, <1>2, JoinedSequence

LEMMA AtomReadable == ASSUME NEW a \in Atoms PROVE Readable(Atom(a))
<1>1. PICK e : e = Atom(a)
  OBVIOUS
<1>2. e.written = <<a>> /\ e.means = <<a>> /\ e.binds = 5
  BY <1>1 DEF Atom, Expression
<1>3. IsSequence(e.written) /\ Returns("unary", e.written, e.means)
  BY <1>2, OneToken, AtomIsUnary
<1> QED BY <1>1, <1>2, <1>3, UnaryIsReadable

LEMMA BinaryReadable ==
    ASSUME NEW op \in DOMAIN Binding, NEW e, NEW f, Readable(e), Readable(f)
    PROVE  Readable(Binary(op, e, f))
<1>1. PICK d : d = Binary(op, e, f)
  OBVIOUS
<1>2. PICK v : v = Enclosed(e.means \o <<op>> \o f.means)
  OBVIOUS
<1>3. DOMAIN Binding = {"+", "-", "*", "/"}
  BY DEF Binding, Operators
<1>4. CASE op \in {"+", "-"}
  <2>1. Binding[op] = 1
    BY <1>4 DEF Binding, Operators
  <2>2. PICK w : w = As(e, 1) \o <<op>> \o As(f, 2)
    OBVIOUS
  <2>3. d.written = w /\ d.means = v /\ d.binds = 1
    BY <1>1, <1>2, <2>1, <2>2 DEF Binary, Expression
  <2>4. IsSequence(w) /\ Gathers("expr", w, v)
    BY <1>2, <1>4, <2>2, ReadableAs, BetweenTwo, SumIsExpr
  <2> QED BY <1>1, <2>3, <2>4 DEF Readable
<1>5. CASE op \in {"*", "/"}
  <2>1. Binding[op] = 2
    BY <1>5 DEF Binding, Operators
  <2>2. PICK w : w = As(e, 2) \o <<op>> \o As(f, 3)
    OBVIOUS
  <2>3. d.written = w /\ d.means = v /\ d.binds = 2
    BY <1>1, <1>2, <2>1, <2>2 DEF Binary, Expression
  <2>4. IsSequence(w) /\ Gathers("term", w, v)
    BY <1>2, <1>5, <2>2, ReadableAs, BetweenTwo, ProductIsTerm
  <2>5. Gathers("expr", w, v)
    BY <2>4, TermIsExpr
  <2> QED BY <1>1, <2>3, <2>4, <2>5 DEF Readable
<1> QED BY <1>3, <1>4, <1>5

LEMMA PowerReadable ==
    ASSUME NEW e, NEW f, Readable(e), Readable(f), f.binds # 4
    PROVE  Readable(Power(e, f))
<1>1. PICK d : d = Power(e, f)
  OBVIOUS
<1>2. PICK w, v : w = As(e, 5) \o <<"^">> \o As(f, 3) /\ v = Enclosed(e.means \o <<"^">> \o f.means)
  OBVIOUS
<1>3. d.written = w /\ d.means = v /\ d.binds = 4
  BY <1>1, <1>2 DEF Power, Expression
<1>4. IsSequence(As(e, 5)) /\ IsSequence(As(f, 3))
  BY ReadableAs
<1>5. Returns("unary", As(e, 5), e.means) /\ Returns("unary", As(f, 3), f.means)
  BY ReadableAs
<1>6. IsSequence(w) /\ Returns("pow", w, v)
  BY <1>2, <1>4, <1>5, BetweenTwo, PowerIsPow
<1> QED BY <1>1, <1>3, <1>6, PowIsReadable

LEMMA NegatedReadable ==
    ASSUME NEW e, Readable(e), e.binds # 4
    PROVE  Readable(Negated(e))
<1>1. PICK d : d = Negated(e)
  OBVIOUS
<1>2. PICK w, v : w = <<"-">> \o As(e, 3) /\ v = Enclosed(<<"-">> \o e.means)
  OBVIOUS
<1>3. d.written = w /\ d.means = v /\ d.binds = 3
  BY <1>1, <1>2 DEF Negated, Expression
<1>4. IsSequence(As(e, 3)) /\ Returns("unary", As(e, 3), e.means)
  BY ReadableAs
<1>5. IsSequence(w) /\ Returns("unary", w, v)
  BY <1>2, <1>4, BetweenTwo, NegationIsUnary
<1> QED BY <1>1, <1>3, <1>5, UnaryIsReadable

LEMMA CallReadable ==
    ASSUME NEW name \in Functions, NEW e, Readable(e)
    PROVE  Readable(Call(name, e))
<1>1. PICK d : d = Call(name, e)
  OBVIOUS
<1>2. PICK x, w, v : x = Enclosed(e.written) /\ w = <<name>> \o x /\ v = <<name>> \o Enclosed(e.means)
  OBVIOUS
<1>3. d.written = w /\ d.means = v /\ d.binds = 5
  BY <1>1, <1>2 DEF Call, Expression
<1>4. IsSequence(e.written) /\ Gathers("expr", e.written, e.means)
  BY DEF Readable
<1>5. IsSequence(x)
  BY <1>2, <1>4, EnclosedType
<1>6. IsSequence(w) /\ Returns("unary", w, v)
  BY <1>2, <1>4, <1>5, BetweenTwo, CallIsUnary
<1> QED BY <1>1, <1>3, <1>6, UnaryIsReadable

LEMMA GrownReadable ==
    ASSUME NEW S, \A e \in S : e.plain => Readable(e)
    PROVE  \A e \in Grown(S) : e.plain => Readable(e)
<1> SUFFICES ASSUME NEW d \in Grown(S), d.plain PROVE Readable(d)
  OBVIOUS
<1>1. \/ \E op \in DOMAIN Binding, e \in S, f \in S : d = Binary(op, e, f)
      \/ \E e \in S, f \in S : d = Power(e, f)
      \/ \E e \in S : d = Negated(e)
      \/ \E name \in Functions, e \in S : d = Call(name, e)
  BY DEF Grown
<1>2. CASE \E op \in DOMAIN Binding, e \in S, f \in S : d = Binary(op, e, f)
  <2>1. PICK op \in DOMAIN Binding, e \in S, f \in S : d = Binary(op, e, f)
    BY <1>2
  <2>2. e.plain /\ f.plain
    BY <2>1 DEF Binary, Expression
  <2> QED BY <2>1, <2>2, BinaryReadable
<1>3. CASE \E e \in S, f \in S : d = Power(e, f)
  <2>1. PICK e \in S, f \in S : d = Power(e, f)
    BY <1>3
  <2>2. e.plain /\ f.plain /\ f.binds # 4
    BY <2>1 DEF Power, Expression
  <2> QED BY <2>1, <2>2, PowerReadable
<1>4. CASE \E e \in S : d = Negated(e)
  <2>1. PICK e \in S : d = Negated(e)
    BY <1>4
  <2>2. e.plain /\ e.binds # 4
    BY <2>1 DEF Negated, Expression
  <2> QED BY <2>1, <2>2, NegatedReadable
<1>5. CASE \E name \in Functions, e \in S : d = Call(name, e)
  <2>1. PICK name \in Functions, e \in S : d = Call(name, e)
    BY <1>5
  <2>2. e.plain
    BY <2>1 DEF Call, Expression
  <2> QED BY <2>1, <2>2, CallReadable
<1> QED BY <1>1, <1>2, <1>3, <1>4, <1>5

\* The levels of Spelled.
Nested(g, n) ==
    g = [k \in 0..n |-> IF k = 0 THEN {Atom(w) : w \in Atoms} ELSE g[k - 1] \cup Grown(g[k - 1])]

LEMMA NestedReadable ==
    ASSUME NEW n \in Nat, NEW g, Nested(g, n)
    PROVE  \A k \in 0..n : \A e \in g[k] : e.plain => Readable(e)
<1>1. PICK S : S = {k \in Nat : k <= n => \A e \in g[k] : e.plain => Readable(e)}
  OBVIOUS
<1>2. ASSUME NEW k \in 0..n
      PROVE  g[k] = IF k = 0 THEN {Atom(w) : w \in Atoms} ELSE g[k - 1] \cup Grown(g[k - 1])
  <2>1. k \in 0..n /\ Nested(g, n)
    OBVIOUS
  <2> QED BY <2>1, Zenon DEF Nested
<1>3. 0 \in S
  <2>1. g[0] = {Atom(w) : w \in Atoms}
    <3>1. PICK z \in 0..n : z = 0
      OBVIOUS
    <3>2. g[z] = {Atom(w) : w \in Atoms}
      BY <1>2, <3>1
    <3> QED BY <3>1, <3>2
  <2>2. \A e \in g[0] : Readable(e)
    BY <2>1, AtomReadable
  <2> QED BY <1>1, <2>2
<1>4. ASSUME NEW k \in Nat, k \in S PROVE k + 1 \in S
  <2> SUFFICES ASSUME k + 1 <= n, NEW e \in g[k + 1], e.plain PROVE Readable(e)
    BY <1>1
  <2>1. \A d \in g[k] : d.plain => Readable(d)
    <3>1. k <= n
      OBVIOUS
    <3> QED BY <1>1, <1>4, <3>1
  <2>2. g[k + 1] = g[k] \cup Grown(g[k])
    <3>1. k + 1 \in 0..n /\ k + 1 # 0 /\ (k + 1) - 1 = k
      OBVIOUS
    <3>2. PICK j \in 0..n : j = k + 1
      BY <3>1
    <3>3. g[j] = g[j - 1] \cup Grown(g[j - 1])
      BY <1>2, <3>1, <3>2
    <3>4. j - 1 = k
      BY <3>2
    <3> QED BY <3>2, <3>3, <3>4
  <2>3. \A d \in Grown(g[k]) : d.plain => Readable(d)
    BY <2>1, GrownReadable
  <2> QED BY <2>1, <2>2, <2>3
<1>5. \A k \in Nat : k \in S
  BY <1>3, <1>4, Induction
<1> QED BY <1>1, <1>5

LEMMA NestedExists == ASSUME NEW n \in Nat PROVE \E g : Nested(g, n)
<1>1. PICK S : S = {m \in Nat : \E g : Nested(g, m)}
  OBVIOUS
<1>2. 0 \in S
  <2>1. PICK g : g = [k \in 0..0 |-> {Atom(w) : w \in Atoms}]
    OBVIOUS
  <2>2. [k \in 0..0 |-> IF k = 0 THEN {Atom(w) : w \in Atoms} ELSE g[k - 1] \cup Grown(g[k - 1])]
        = [k \in 0..0 |-> {Atom(w) : w \in Atoms}]
    <3>1. \A k \in 0..0 : k = 0
      OBVIOUS
    <3> QED BY <3>1
  <2>3. Nested(g, 0)
    BY <2>1, <2>2 DEF Nested
  <2> QED BY <1>1, <2>3
<1>3. ASSUME NEW m \in Nat, m \in S PROVE m + 1 \in S
  <2>1. PICK g : Nested(g, m)
    BY <1>1, <1>3
  <2>2. PICK h : h = [k \in 0..(m + 1) |-> IF k = m + 1 THEN g[m] \cup Grown(g[m]) ELSE g[k]]
    OBVIOUS
  <2>3. \A k \in 0..m : h[k] = g[k]
    BY <2>2
  <2>4. h[m + 1] = g[m] \cup Grown(g[m])
    BY <2>2
  <2>5. \A k \in 0..(m + 1) :
           h[k] = IF k = 0 THEN {Atom(w) : w \in Atoms} ELSE h[k - 1] \cup Grown(h[k - 1])
    <3> SUFFICES ASSUME NEW k \in 0..(m + 1)
                 PROVE  h[k] = IF k = 0 THEN {Atom(w) : w \in Atoms}
                               ELSE h[k - 1] \cup Grown(h[k - 1])
      OBVIOUS
    <3>1. CASE k = m + 1
      <4>1. k # 0 /\ k - 1 = m /\ m \in 0..m
        BY <3>1
      <4>2. h[k - 1] = g[m] /\ h[k] = g[m] \cup Grown(g[m])
        BY <2>3, <2>4, <3>1, <4>1
      <4> QED BY <4>1, <4>2
    <3>2. CASE k # m + 1
      <4>1. k \in 0..m
        BY <3>2
      <4>2. g[k] = IF k = 0 THEN {Atom(w) : w \in Atoms} ELSE g[k - 1] \cup Grown(g[k - 1])
        BY <2>1, <4>1, Zenon DEF Nested
      <4>3. k # 0 => k - 1 \in 0..m
        BY <4>1
      <4>4. h[k] = g[k] /\ (k # 0 => h[k - 1] = g[k - 1])
        BY <2>3, <4>1, <4>3
      <4> QED BY <4>2, <4>4
    <3> QED BY <3>1, <3>2
  <2>6. h = [k \in 0..(m + 1) |-> h[k]]
    BY <2>2
  <2>7. Nested(h, m + 1)
    <3>1. [k \in 0..(m + 1) |-> h[k]] =
             [k \in 0..(m + 1) |-> IF k = 0 THEN {Atom(w) : w \in Atoms}
                                   ELSE h[k - 1] \cup Grown(h[k - 1])]
      BY <2>5
    <3> QED BY <2>6, <3>1 DEF Nested
  <2> QED BY <1>1, <2>7
<1>4. \A m \in Nat : m \in S
  BY <1>2, <1>3, Induction
<1> QED BY <1>1, <1>4

LEMMA SpelledReadable ==
    ASSUME NEW n \in Nat, NEW e \in Spelled(n), e.plain
    PROVE  Readable(e)
<1>1. \E g : Nested(g, n)
  BY NestedExists
<1>2. PICK g : /\ Nested(g, n)
               /\ g = CHOOSE h : h = [k \in 0..n |-> IF k = 0 THEN {Atom(w) : w \in Atoms}
                                                     ELSE h[k - 1] \cup Grown(h[k - 1])]
  BY <1>1, Zenon DEF Nested
<1>3. Spelled(n) = g[n]
  BY <1>2, Zenon DEF Spelled
<1>4. n \in 0..n
  OBVIOUS
<1> QED BY <1>2, <1>3, <1>4, NestedReadable

-----------------------------------------------------------------------------
(* What a text was written for is what is evaluated.                       *)

Meant == Config(Len(input) + 1, <<>>, "done", meant)

\* The parser is on its way to what is meant.
Underway == meant # Nothing => Reaches(input, Now, Meant)

LEMMA FinalReached ==
    ASSUME NEW text, NEW e, Readable(e), text = e.written, NEW u
    PROVE  Reaches(text, Config(1, <<>>, "expr", u), Config(Len(text) + 1, <<>>, "done", e.means))
<1>1. PICK q : q = Len(text) + 1
  OBVIOUS
<1>2. IsSequence(text) /\ Gathers("expr", text, e.means)
  BY DEF Readable
<1>3. Len(text) \in Nat
  BY <1>2, SequenceLen
<1>4. Spans(text, 1, text, q)
  <2>1. \A k \in 1..Len(text) : 1 + k - 1 = k
    BY <1>3
  <2>2. \A k \in 1..Len(text) : text[1 + k - 1] = text[k]
    BY <2>1
  <2> QED BY <1>1, <1>2, <1>3, <2>2 DEF Spans
<1>5. Text(text, q) = "end"
  BY <1>1, <1>3 DEF Text
<1>6. Text(text, q) \notin Follow["expr"] \cup Operators["expr"]
  BY <1>5, Tables
<1>7. IsSequence(<<>>)
  <2>1. <<>> \in Seq({})
    OBVIOUS
  <2> QED BY <2>1 DEF IsSequence
<1>8. Reaches(text, Config(1, <<>>, "expr", u), Config(q, <<>>, "return", e.means))
  BY <1>2, <1>4, <1>6, <1>7, GathersReturns
<1>9. Reaches(text, Config(q, <<>>, "return", e.means), Config(q, <<>>, "done", e.means))
  <2>1. PICK c : c = Config(q, <<>>, "return", e.means)
    OBVIOUS
  <2>2. c.i = q /\ c.stack = <<>> /\ c.fn = "return" /\ c.value = e.means
    BY <2>1 DEF Config
  <2>3. After(text, c) = Config(q, <<>>, "done", e.means) /\ ~ Final(c)
    BY <2>2, Tables DEF After, Final
  <2> QED BY <2>1, <2>3, OneStep
<1> QED BY <1>1, <1>8, <1>9, Further

LEMMA InitUnderway == ASSUME PlainlyWritten PROVE Init => Underway
<1> SUFFICES ASSUME Init, meant # Nothing PROVE Reaches(input, Now, Meant)
  BY DEF Underway
<1>1. PICK w \in Written : input = w[1] /\ meant = w[2]
  BY DEF Init
<1>2. PICK n \in Nat : \E e \in Spelled(n) : e.plain /\ w[1] = e.written /\ w[2] = e.means
  BY <1>1 DEF PlainlyWritten
<1>3. PICK e \in Spelled(n) : e.plain /\ w[1] = e.written /\ w[2] = e.means
  BY <1>2
<1>4. Readable(e)
  BY <1>3, SpelledReadable
<1>5. Now = Config(1, <<>>, "expr", Nothing)
  BY DEF Init, Now
<1>6. input = e.written /\ meant = e.means
  BY <1>1, <1>3
<1> QED BY <1>4, <1>5, <1>6, FinalReached DEF Meant

LEMMA StepUnderway == Underway /\ [Next]_vars => Underway'
<1> SUFFICES ASSUME Underway, [Next]_vars, meant' # Nothing PROVE Reaches(input, Now, Meant)'
  BY DEF Underway
<1>1. CASE UNCHANGED vars
  <2>1. Now' = Now /\ Meant' = Meant /\ input' = input /\ meant' = meant
    BY <1>1 DEF vars, Now, Meant
  <2> QED BY <2>1 DEF Underway, Reaches
<1>2. CASE Next
  <2>1. Now' = After(input, Now) /\ ~ Final(Now) /\ input' = input /\ meant' = meant
    BY <1>2, NextIsAfter
  <2>2. Meant' = Meant /\ Final(Meant)
    BY <2>1 DEF Meant, Config, Final
  <2>3. Reaches(input, Now, Meant)
    BY <2>1 DEF Underway
  <2>4. Reaches(input, After(input, Now), Meant)
    BY <2>1, <2>2, <2>3, OnTheWay
  <2>5. PICK x, y, z : x = input /\ y = After(input, Now) /\ z = Meant
    OBVIOUS
  <2>6. Reaches(x, y, z)
    BY <2>4, <2>5
  <2>7. input' = x /\ Now' = y /\ Meant' = z
    BY <2>1, <2>2, <2>5
  <2> QED BY <2>6, <2>7 DEF Reaches
<1> QED BY <1>1, <1>2

LEMMA UnderwayArrives == Underway => ParsesAsWritten
<1> SUFFICES ASSUME Underway, fn \in {"done", "threw"}, meant # Nothing
             PROVE  fn = "done" /\ value = meant
  BY DEF ParsesAsWritten
<1>1. Now.fn = fn /\ Now.value = value /\ Meant.fn = "done" /\ Meant.value = meant
  BY DEF Now, Meant, Config
<1>2. Final(Now) /\ Final(Meant)
  BY <1>1 DEF Final
<1>3. Now = Meant
  BY <1>2, OnTheWay DEF Underway
<1> QED BY <1>1, <1>3

\* Every expression, however large, that has no power directly after a sign and no
\* power for an exponent is evaluated as the usual conventions read it, when it is
\* written with the parentheses they require (core/src/chord.cpp:38-56).
THEOREM PlainExpressions == ASSUME PlainlyWritten PROVE Spec => []ParsesAsWritten
<1>1. Init => Underway
  BY InitUnderway
<1> QED BY <1>1, StepUnderway, UnderwayArrives, PTL DEF Spec

-----------------------------------------------------------------------------
(* Sequences of sequences, put one behind the other.                       *)

\* The partial results of FlattenSeq.
Chain(h, t, n) == h = [k \in 1..n |-> IF k = 1 THEN t[k] ELSE h[k - 1] \o t[k]]

LEMMA ChainAt ==
    ASSUME NEW n \in Nat, NEW h, NEW t, Chain(h, t, n), NEW k \in 1..n
    PROVE  h[k] = IF k = 1 THEN t[k] ELSE h[k - 1] \o t[k]
<1>1. k \in 1..n /\ Chain(h, t, n)
  OBVIOUS
<1> QED BY <1>1, Zenon DEF Chain

\* With one more at its end, a chain is still a chain.
LEMMA ChainNext ==
    ASSUME NEW n \in Nat, NEW h, NEW t, Chain(h, t, n)
    PROVE  \E g : Chain(g, t, n + 1)
<1>1. PICK y : y = IF n = 0 THEN t[1] ELSE h[n] \o t[n + 1]
  OBVIOUS
<1>2. PICK g : g = [k \in 1..(n + 1) |-> IF k = n + 1 THEN y ELSE h[k]]
  OBVIOUS
<1>3. g[n + 1] = y /\ \A k \in 1..n : g[k] = h[k]
  BY <1>2
<1>4. \A k \in 1..(n + 1) : g[k] = IF k = 1 THEN t[k] ELSE g[k - 1] \o t[k]
  <2> SUFFICES ASSUME NEW k \in 1..(n + 1)
               PROVE  g[k] = IF k = 1 THEN t[k] ELSE g[k - 1] \o t[k]
    OBVIOUS
  <2>1. CASE k = n + 1 /\ n = 0
    BY <1>1, <1>3, <2>1
  <2>2. CASE k = n + 1 /\ n # 0
    <3>1. k # 1 /\ k - 1 = n /\ n \in 1..n
      BY <2>2
    <3>2. g[k - 1] = h[n] /\ g[k] = h[n] \o t[k]
      BY <1>1, <1>3, <2>2, <3>1
    <3> QED BY <3>1, <3>2
  <2>3. CASE k # n + 1
    <3>1. k \in 1..n /\ (k # 1 => k - 1 \in 1..n)
      BY <2>3
    <3>2. h[k] = IF k = 1 THEN t[k] ELSE h[k - 1] \o t[k]
      BY <3>1, ChainAt
    <3>3. g[k] = h[k] /\ (k # 1 => g[k - 1] = h[k - 1])
      BY <1>3, <3>1
    <3> QED BY <3>2, <3>3
  <2> QED BY <2>1, <2>2, <2>3
<1>5. g = [k \in 1..(n + 1) |-> g[k]]
  BY <1>2
<1>6. [k \in 1..(n + 1) |-> g[k]] =
          [k \in 1..(n + 1) |-> IF k = 1 THEN t[k] ELSE g[k - 1] \o t[k]]
  BY <1>4
<1> QED BY <1>5, <1>6 DEF Chain

LEMMA ChainExists == ASSUME NEW t, NEW n \in Nat PROVE \E h : Chain(h, t, n)
<1>1. PICK S : S = {m \in Nat : \E h : Chain(h, t, m)}
  OBVIOUS
<1>2. 0 \in S
  <2>1. PICK h : h = [k \in 1..0 |-> t[k]]
    OBVIOUS
  <2>2. [k \in 1..0 |-> IF k = 1 THEN t[k] ELSE h[k - 1] \o t[k]] = [k \in 1..0 |-> t[k]]
    <3>1. \A k \in 1..0 : FALSE
      OBVIOUS
    <3> QED BY <3>1
  <2>3. Chain(h, t, 0)
    BY <2>1, <2>2 DEF Chain
  <2> QED BY <1>1, <2>3
<1>3. ASSUME NEW m \in Nat, m \in S PROVE m + 1 \in S
  BY <1>1, <1>3, ChainNext
<1>4. \A m \in Nat : m \in S
  BY <1>2, <1>3, Induction
<1> QED BY <1>1, <1>4

LEMMA ChainsAgree ==
    ASSUME NEW n \in Nat, NEW m \in Nat, n <= m, NEW h, NEW t, Chain(h, t, n),
           NEW g, NEW u, Chain(g, u, m), \A k \in 1..n : u[k] = t[k]
    PROVE  \A k \in 1..n : g[k] = h[k]
<1>1. PICK S : S = {k \in Nat : k \in 1..n => g[k] = h[k]}
  OBVIOUS
<1>2. 0 \in S
  BY <1>1
<1>3. ASSUME NEW k \in Nat, k \in S PROVE k + 1 \in S
  <2> SUFFICES ASSUME k + 1 \in 1..n PROVE g[k + 1] = h[k + 1]
    BY <1>1
  <2>1. PICK j \in 1..n : j = k + 1
    OBVIOUS
  <2>2. j \in 1..m
    OBVIOUS
  <2>3. h[j] = IF j = 1 THEN t[j] ELSE h[j - 1] \o t[j]
    BY ChainAt
  <2>4. g[j] = IF j = 1 THEN u[j] ELSE g[j - 1] \o u[j]
    BY <2>2, ChainAt
  <2>5. j # 1 => g[j - 1] = h[j - 1]
    <3>1. j # 1 => k \in 1..n /\ j - 1 = k
      BY <2>1
    <3> QED BY <1>1, <1>3, <3>1
  <2> QED BY <2>1, <2>3, <2>4, <2>5
<1>4. \A k \in Nat : k \in S
  BY <1>2, <1>3, Induction
<1> QED BY <1>1, <1>4

LEMMA ChainSequences ==
    ASSUME NEW n \in Nat, NEW h, NEW t, Chain(h, t, n), \A k \in 1..n : IsSequence(t[k])
    PROVE  \A k \in 1..n : IsSequence(h[k])
<1>1. PICK S : S = {k \in Nat : k \in 1..n => IsSequence(h[k])}
  OBVIOUS
<1>2. 0 \in S
  BY <1>1
<1>3. ASSUME NEW k \in Nat, k \in S PROVE k + 1 \in S
  <2> SUFFICES ASSUME k + 1 \in 1..n PROVE IsSequence(h[k + 1])
    BY <1>1
  <2>1. PICK j \in 1..n : j = k + 1
    OBVIOUS
  <2>2. h[j] = IF j = 1 THEN t[j] ELSE h[j - 1] \o t[j]
    BY ChainAt
  <2>3. IsSequence(t[j])
    OBVIOUS
  <2>4. CASE j = 1
    BY <2>1, <2>2, <2>3, <2>4
  <2>5. CASE j # 1
    <3>1. k \in 1..n /\ j - 1 = k
      BY <2>1, <2>5
    <3>2. IsSequence(h[j - 1])
      BY <1>1, <1>3, <3>1
    <3>3. IsSequence(h[j - 1] \o t[j])
      BY <2>3, <3>2, JoinedSequence
    <3> QED BY <2>1, <2>2, <2>5, <3>3
  <2> QED BY <2>4, <2>5
<1>4. \A k \in Nat : k \in S
  BY <1>2, <1>3, Induction
<1> QED BY <1>1, <1>4

LEMMA EmptySequence == IsSequence(<<>>) /\ Len(<<>>) = 0
<1>1. <<>> \in Seq({}) /\ Len(<<>>) = 0
  OBVIOUS
<1> QED BY <1>1 DEF IsSequence

LEMMA IsEmpty == ASSUME NEW s, IsSequence(s), Len(s) = 0 PROVE s = <<>>
<1>1. PICK S : s \in Seq(S)
  BY DEF IsSequence
<1> QED BY <1>1, EmptySeq

LEMMA FlattenIs ==
    ASSUME NEW t, IsSequence(t), Len(t) # 0
    PROVE  \E h : Chain(h, t, Len(t)) /\ FlattenSeq(t) = h[Len(t)]
<1>1. \E h : Chain(h, t, Len(t))
  BY SequenceLen, ChainExists
<1>2. PICK h : /\ Chain(h, t, Len(t))
               /\ h = CHOOSE g : g = [k \in 1..Len(t) |-> IF k = 1 THEN t[k] ELSE g[k - 1] \o t[k]]
  BY <1>1, Zenon DEF Chain
<1>3. FlattenSeq(t) = h[Len(t)]
  BY <1>2, Zenon DEF FlattenSeq
<1> QED BY <1>2, <1>3

LEMMA FlattenEmpty == FlattenSeq(<<>>) = <<>>
BY EmptySequence DEF FlattenSeq

LEMMA BesideEmpty == ASSUME NEW s, IsSequence(s) PROVE <<>> \o s = s /\ s \o <<>> = s
<1>1. PICK S : s \in Seq(S)
  BY DEF IsSequence
<1> QED BY <1>1, ConcatEmptySeq

LEMMA Associative ==
    ASSUME NEW s, NEW t, NEW u, IsSequence(s), IsSequence(t), IsSequence(u)
    PROVE  (s \o t) \o u = s \o (t \o u)
<1>1. PICK S : s \in Seq(S) /\ t \in Seq(S)
  BY Together
<1>2. PICK T : u \in Seq(T)
  BY DEF IsSequence
<1>3. PICK U : U = S \cup T
  OBVIOUS
<1>4. S \subseteq U /\ T \subseteq U
  BY <1>3
<1>5. s \in Seq(U) /\ t \in Seq(U)
  BY <1>1, <1>4, SeqMonotonic
<1>6. u \in Seq(U)
  BY <1>2, <1>4, SeqMonotonic
<1> QED BY <1>5, <1>6, ConcatAssociative

LEMMA FlattenType ==
    ASSUME NEW t, IsSequence(t), \A k \in 1..Len(t) : IsSequence(t[k])
    PROVE  IsSequence(FlattenSeq(t))
<1>1. CASE Len(t) = 0
  <2>1. t = <<>>
    BY <1>1, IsEmpty
  <2> QED BY <2>1, FlattenEmpty, EmptySequence
<1>2. CASE Len(t) # 0
  <2>1. PICK h : Chain(h, t, Len(t)) /\ FlattenSeq(t) = h[Len(t)]
    BY <1>2, FlattenIs
  <2>2. Len(t) \in Nat /\ Len(t) \in 1..Len(t)
    BY <1>2, SequenceLen
  <2>3. \A k \in 1..Len(t) : IsSequence(h[k])
    BY <2>1, <2>2, ChainSequences
  <2> QED BY <2>1, <2>2, <2>3
<1> QED BY <1>1, <1>2

\* Another sequence behind the others.
LEMMA FlattenNext ==
    ASSUME NEW t, IsSequence(t), NEW u, IsSequence(u), NEW n \in Nat, Len(t) = n, Len(u) = n + 1,
           \A k \in 1..n : u[k] = t[k], \A k \in 1..(n + 1) : IsSequence(u[k])
    PROVE  FlattenSeq(u) = FlattenSeq(t) \o u[n + 1]
<1>0. IsSequence(u[n + 1]) /\ Len(u) # 0
  OBVIOUS
<1>1. PICK g : Chain(g, u, n + 1) /\ FlattenSeq(u) = g[n + 1]
  BY <1>0, FlattenIs
<1>2. g[n + 1] = IF n + 1 = 1 THEN u[n + 1] ELSE g[(n + 1) - 1] \o u[n + 1]
  BY <1>1, ChainAt
<1>3. CASE n = 0
  <2>1. t = <<>>
    BY <1>3, IsEmpty
  <2>2. FlattenSeq(t) = <<>>
    BY <2>1, FlattenEmpty
  <2>3. FlattenSeq(u) = u[n + 1]
    BY <1>1, <1>2, <1>3
  <2> QED BY <1>0, <2>2, <2>3, BesideEmpty
<1>4. CASE n # 0
  <2>1. PICK h : Chain(h, t, n) /\ FlattenSeq(t) = h[n]
    BY <1>4, FlattenIs
  <2>2. n \in 1..n /\ n <= n + 1 /\ (n + 1) - 1 = n
    BY <1>4
  <2>3. g[n] = h[n]
    BY <1>1, <2>1, <2>2, ChainsAgree
  <2>4. g[n + 1] = g[n] \o u[n + 1]
    <3>1. n + 1 # 1
      BY <1>4
    <3>2. g[n + 1] = g[(n + 1) - 1] \o u[n + 1]
      BY ONLY <1>2, <3>1
    <3> QED BY ONLY <2>2, <3>2
  <2> QED BY ONLY <1>1, <2>1, <2>3, <2>4
<1> QED BY <1>3, <1>4

\* Sequences that are defined position by position.
Entries(h, n) == {h[k] : k \in 1..n}

LEMMA DefinedByPosition ==
    ASSUME NEW n \in Nat, NEW h, NEW g, g = [k \in 1..n |-> h[k]]
    PROVE  IsSequence(g) /\ Len(g) = n
<1>1. \A k \in 1..n : h[k] \in Entries(h, n)
  BY DEF Entries
<1>2. g \in [1..n -> Entries(h, n)]
  BY <1>1
<1>3. g \in Seq(Entries(h, n))
  <2>1. [1..n -> Entries(h, n)] \in {[1..m -> Entries(h, n)] : m \in Nat}
    OBVIOUS
  <2> QED BY <1>2, <2>1, SeqDef
<1>4. DOMAIN g = 1..n
  BY <1>2
<1>5. Len(g) \in Nat /\ DOMAIN g = 1..Len(g)
  BY <1>3, LenProperties
<1>6. Len(g) = n
  BY <1>4, <1>5
<1> QED BY <1>3, <1>6 DEF IsSequence

-----------------------------------------------------------------------------
(* A value without its parentheses.                                        *)

Word(t) == IF t \in {"(", ")"} THEN <<>> ELSE <<t>>

Words(s) == [k \in DOMAIN s |-> Word(s[k])]

LEMMA WordIsSequence == \A t : IsSequence(Word(t))
BY OneToken, EmptySequence DEF Word

LEMMA BareIs == \A s : Bare(s) = FlattenSeq(Words(s))
BY DEF Bare, Words, Word

LEMMA WordsAre ==
    ASSUME NEW s, IsSequence(s)
    PROVE  /\ IsSequence(Words(s)) /\ Len(Words(s)) = Len(s) /\ Len(s) \in Nat
           /\ \A k \in 1..Len(s) : Words(s)[k] = Word(s[k])
<1>1. PICK S : s \in Seq(S)
  BY DEF IsSequence
<1>2. DOMAIN s = 1..Len(s) /\ Len(s) \in Nat
  BY <1>1
<1>3. PICK w : w = Words(s)
  OBVIOUS
<1>4. w = [k \in 1..Len(s) |-> Word(s[k])]
  BY <1>2, <1>3 DEF Words
<1>5. PICK n \in Nat : n = Len(s)
  BY <1>2
<1>6. IsSequence(w) /\ Len(w) = n
  <2>1. w = [k \in 1..n |-> w[k]]
    BY <1>4, <1>5
  <2> QED BY ONLY n \in Nat, <2>1, DefinedByPosition
<1>7. \A k \in 1..Len(s) : w[k] = Word(s[k])
  BY <1>4
<1> QED BY <1>2, <1>3, <1>5, <1>6, <1>7

LEMMA BareType == ASSUME NEW s, IsSequence(s) PROVE IsSequence(Bare(s))
<1>1. PICK w : w = Words(s)
  OBVIOUS
<1>2. IsSequence(w) /\ \A k \in 1..Len(w) : IsSequence(w[k])
  BY <1>1, WordsAre, WordIsSequence
<1> QED BY <1>1, <1>2, FlattenType, BareIs

\* One token more.
LEMMA BareNext ==
    ASSUME NEW s, IsSequence(s), NEW u, IsSequence(u), NEW n \in Nat, Len(s) = n, Len(u) = n + 1,
           \A k \in 1..n : u[k] = s[k]
    PROVE  Bare(u) = Bare(s) \o Word(u[n + 1])
<1>1. PICK w, x : w = Words(s) /\ x = Words(u)
  OBVIOUS
<1>2. IsSequence(w) /\ Len(w) = n /\ \A k \in 1..n : w[k] = Word(s[k])
  BY <1>1, WordsAre
<1>3. IsSequence(x) /\ Len(x) = n + 1 /\ \A k \in 1..(n + 1) : x[k] = Word(u[k])
  BY <1>1, WordsAre
<1>4. \A k \in 1..n : x[k] = w[k]
  BY <1>2, <1>3
<1>5. \A k \in 1..(n + 1) : IsSequence(x[k])
  BY <1>3, WordIsSequence
<1>6. FlattenSeq(x) = FlattenSeq(w) \o x[n + 1]
  BY ONLY n \in Nat, <1>2, <1>3, <1>4, <1>5, FlattenNext, ZenonT(60)
<1>7. x[n + 1] = Word(u[n + 1])
  BY <1>3
<1> QED BY <1>1, <1>6, <1>7, BareIs

LEMMA BareEmpty == Bare(<<>>) = <<>>
<1>1. Words(<<>>) = <<>>
  BY WordsAre, EmptySequence, IsEmpty
<1> QED BY <1>1, BareIs, FlattenEmpty

LEMMA BareToken == \A t : Bare(<<t>>) = Word(t)
<1> SUFFICES ASSUME NEW t PROVE Bare(<<t>>) = Word(t)
  OBVIOUS
<1>1. IsSequence(<<t>>) /\ Len(<<t>>) = 0 + 1 /\ <<t>>[0 + 1] = t
  BY OneToken
<1>2. PICK n \in Nat : n = 0
  OBVIOUS
<1>3. PICK s, u : s = <<>> /\ u = <<t>>
  OBVIOUS
<1>4. IsSequence(s) /\ IsSequence(u) /\ Len(s) = n /\ Len(u) = n + 1
  BY <1>1, <1>2, <1>3, EmptySequence
<1>5. \A k \in 1..n : u[k] = s[k]
  BY <1>2
<1>6. Bare(u) = Bare(s) \o Word(u[n + 1])
  BY ONLY n \in Nat, <1>4, <1>5, BareNext
<1>7. u[n + 1] = t
  BY <1>1, <1>2, <1>3
<1>8. Bare(<<t>>) = Bare(<<>>) \o Word(t)
  BY <1>2, <1>6, <1>7, <1>3
<1> QED BY <1>8, BareEmpty, WordIsSequence, BesideEmpty

LEMMA BareJoined ==
    ASSUME NEW s, IsSequence(s), NEW t, IsSequence(t)
    PROVE  Bare(s \o t) = Bare(s) \o Bare(t)
<1>1. PICK S : S = {n \in Nat : \A u : IsSequence(u) /\ Len(u) = n =>
                                        Bare(s \o u) = Bare(s) \o Bare(u)}
  OBVIOUS
<1>2. 0 \in S
  <2> SUFFICES ASSUME NEW u, IsSequence(u), Len(u) = 0 PROVE Bare(s \o u) = Bare(s) \o Bare(u)
    BY <1>1
  <2>1. u = <<>>
    BY IsEmpty
  <2>2. s \o u = s /\ Bare(s) \o <<>> = Bare(s)
    BY <2>1, BareType, BesideEmpty
  <2> QED BY <2>1, <2>2, BareEmpty
<1>3. ASSUME NEW n \in Nat, n \in S PROVE n + 1 \in S
  <2> SUFFICES ASSUME NEW u, IsSequence(u), Len(u) = n + 1
               PROVE  Bare(s \o u) = Bare(s) \o Bare(u)
    BY <1>1
  <2>1. u # <<>>
    BY EmptySequence
  <2>2. PICK p : p = SubSeq(u, 1, Len(u) - 1)
    OBVIOUS
  <2>3. IsSequence(p) /\ Len(p) = n /\ \A k \in 1..n : p[k] = u[k]
    <3>1. IsSequence(p) /\ Len(p) = Len(u) - 1 /\ \A k \in 1..Len(p) : p[k] = u[k]
      BY <2>1, <2>2, Popped
    <3> QED BY <3>1
  <2>4. Bare(u) = Bare(p) \o Word(u[n + 1])
    BY <2>3, BareNext
  <2>5. Bare(s \o p) = Bare(s) \o Bare(p)
    BY <1>1, <1>3, <2>3
  <2>6. PICK a, b, m : a = s \o p /\ b = s \o u /\ m = Len(s)
    OBVIOUS
  <2>7. m \in Nat
    BY <2>6, SequenceLen
  <2>8. /\ IsSequence(a) /\ Len(a) = m + n
        /\ \A k \in 1..(m + n) : a[k] = IF k <= m THEN s[k] ELSE p[k - m]
    BY <2>3, <2>6, JoinedSequence
  <2>9. /\ IsSequence(b) /\ Len(b) = m + (n + 1)
        /\ \A k \in 1..(m + (n + 1)) : b[k] = IF k <= m THEN s[k] ELSE u[k - m]
    BY <2>6, JoinedSequence
  <2>10. m + n \in Nat /\ Len(b) = (m + n) + 1
    BY <2>7, <2>9
  <2>11. \A k \in 1..(m + n) : b[k] = a[k]
    <3> SUFFICES ASSUME NEW k \in 1..(m + n) PROVE b[k] = a[k]
      OBVIOUS
    <3>1. k \in 1..(m + (n + 1))
      BY <2>7
    <3>2. a[k] = (IF k <= m THEN s[k] ELSE p[k - m]) /\ b[k] = IF k <= m THEN s[k] ELSE u[k - m]
      BY <2>8, <2>9, <3>1
    <3>3. ~ (k <= m) => k - m \in 1..n
      BY <2>7
    <3> QED BY <2>3, <3>2, <3>3
  <2>12. b[(m + n) + 1] = u[n + 1]
    <3>1. (m + n) + 1 \in 1..(m + (n + 1)) /\ ~ ((m + n) + 1 <= m) /\ ((m + n) + 1) - m = n + 1
      BY <2>7
    <3> QED BY <2>9, <3>1
  <2>13. Bare(b) = Bare(a) \o Word(u[n + 1])
    <3>1. PICK l \in Nat : l = m + n
      BY <2>7
    <3>2. /\ IsSequence(a) /\ Len(a) = l /\ IsSequence(b) /\ Len(b) = l + 1
          /\ b[l + 1] = u[n + 1]
      BY <2>8, <2>9, <2>10, <2>12, <3>1
    <3>3. \A k \in 1..l : b[k] = a[k]
      BY <2>11, <3>1
    <3>4. Bare(b) = Bare(a) \o Word(b[l + 1])
      BY ONLY l \in Nat, <3>2, <3>3, BareNext
    <3> QED BY <3>2, <3>4
  <2>14. IsSequence(Bare(s)) /\ IsSequence(Bare(p)) /\ IsSequence(Word(u[n + 1]))
    BY <2>3, BareType, WordIsSequence
  <2>15. (Bare(s) \o Bare(p)) \o Word(u[n + 1]) = Bare(s) \o (Bare(p) \o Word(u[n + 1]))
    BY ONLY <2>14, Associative
  <2> QED BY <2>4, <2>5, <2>6, <2>13, <2>15
<1>4. \A n \in Nat : n \in S
  BY <1>2, <1>3, Induction
<1> QED BY <1>1, <1>4, SequenceLen

LEMMA BareEnclosed ==
    ASSUME NEW s, IsSequence(s)
    PROVE  IsSequence(Enclosed(s)) /\ Bare(Enclosed(s)) = Bare(s)
<1>1. PICK a, b : a = <<"(">> /\ b = <<")">>
  OBVIOUS
<1>2. IsSequence(a) /\ IsSequence(b) /\ Bare(a) = <<>> /\ Bare(b) = <<>>
  BY <1>1, OneToken, BareToken DEF Word
<1>3. IsSequence(a \o s)
  BY <1>2, JoinedSequence
<1>4. Bare(a \o s) = Bare(s)
  <2>1. Bare(a \o s) = Bare(a) \o Bare(s)
    BY <1>2, BareJoined
  <2>2. <<>> \o Bare(s) = Bare(s)
    BY BareType, BesideEmpty
  <2> QED BY <1>2, <2>1, <2>2
<1>5. Bare((a \o s) \o b) = Bare(s)
  <2>1. PICK y : y = a \o s
    OBVIOUS
  <2>2. Bare(y \o b) = Bare(y) \o Bare(b)
    BY <1>2, <1>3, <2>1, BareJoined
  <2>3. Bare(s) \o <<>> = Bare(s)
    BY BareType, BesideEmpty
  <2> QED BY <1>2, <1>4, <2>1, <2>2, <2>3
<1>6. Enclosed(s) = (a \o s) \o b
  BY <1>1 DEF Enclosed
<1> QED BY <1>5, <1>6, EnclosedType

-----------------------------------------------------------------------------
(* What was read on the way to a result is in the result.                  *)

\* Token k of the text stands where an operand is expected.
Leads(text, k) == k = 1 \/ text[k - 1] \notin Atoms \cup {")"}

Heard(text, k) ==
    IF text[k] \in {"(", ")"} \/ (text[k] = "+" /\ Leads(text, k)) THEN <<>> ELSE <<text[k]>>

ReadTo(text, n) == FlattenSeq([k \in 1..n |-> Heard(text, k)])

\* What a pending call remembers of what it read.
Spoken(f) ==
    IF f.in = "sign" THEN (IF f.op = "-" THEN <<f.op>> ELSE <<>>)
    ELSE IF f.in = "parens" THEN (IF f.op = "(" THEN <<>> ELSE <<f.op>>)
    ELSE IF f.op = "" THEN <<>> ELSE Bare(f.left) \o <<f.op>>

Said(s) == FlattenSeq([k \in DOMAIN s |-> Spoken(s[k])])

Remembers(f) ==
    f.in \in Kinds /\ IsSequence(f.left) /\ f.op # ")" /\ (f.op = "(" => f.in = "parens")

Remembered(s) == IsSequence(s) /\ \A k \in 1..Len(s) : Remembers(s[k])

LEMMA HeardIsSequence == \A text, k : IsSequence(Heard(text, k))
BY OneToken, EmptySequence DEF Heard

LEMMA SpokenIsSequence == ASSUME NEW f, Remembers(f) PROVE IsSequence(Spoken(f))
<1>1. IsSequence(<<>>) /\ IsSequence(<<f.op>>)
  BY OneToken, EmptySequence
<1>2. IsSequence(Bare(f.left))
  BY BareType DEF Remembers
<1>3. IsSequence(Bare(f.left) \o <<f.op>>)
  BY <1>1, <1>2, JoinedSequence
<1> QED BY <1>1, <1>3 DEF Spoken

LEMMA ReadToNext ==
    ASSUME NEW text, NEW n \in Nat
    PROVE  /\ ReadTo(text, n + 1) = ReadTo(text, n) \o Heard(text, n + 1)
           /\ IsSequence(ReadTo(text, n))
<1>1. PICK w : w = [k \in 1..n |-> Heard(text, k)]
  OBVIOUS
<1>2. PICK m \in Nat : m = n + 1
  OBVIOUS
<1>3. PICK x : x = [k \in 1..m |-> Heard(text, k)]
  OBVIOUS
<1>4. IsSequence(w) /\ Len(w) = n
  <2>1. w = [k \in 1..n |-> w[k]]
    BY <1>1
  <2> QED BY ONLY n \in Nat, <2>1, DefinedByPosition
<1>5. IsSequence(x) /\ Len(x) = m
  <2>1. x = [k \in 1..m |-> x[k]]
    BY <1>3
  <2> QED BY ONLY m \in Nat, <2>1, DefinedByPosition
<1>6. \A k \in 1..n : w[k] = Heard(text, k) /\ IsSequence(w[k])
  BY <1>1, HeardIsSequence
<1>7. \A k \in 1..m : x[k] = Heard(text, k) /\ IsSequence(x[k])
  BY <1>3, HeardIsSequence
<1>8. FlattenSeq(x) = FlattenSeq(w) \o x[n + 1]
  <2>1. Len(x) = n + 1 /\ \A k \in 1..(n + 1) : IsSequence(x[k])
    BY <1>2, <1>5, <1>7
  <2>2. \A k \in 1..n : x[k] = w[k]
    BY <1>2, <1>6, <1>7
  <2> QED BY ONLY n \in Nat, <1>4, <1>5, <2>1, <2>2, FlattenNext
<1>9. IsSequence(FlattenSeq(w))
  BY <1>4, <1>6, FlattenType
<1>10. x[n + 1] = Heard(text, n + 1)
  BY <1>2, <1>7
<1> QED BY <1>1, <1>2, <1>3, <1>8, <1>9, <1>10 DEF ReadTo

LEMMA ReadToNone == \A text : ReadTo(text, 0) = <<>>
<1> SUFFICES ASSUME NEW text PROVE ReadTo(text, 0) = <<>>
  OBVIOUS
<1>1. PICK n \in Nat : n = 0
  OBVIOUS
<1>2. PICK w : w = [k \in 1..n |-> Heard(text, k)]
  OBVIOUS
<1>3. IsSequence(w) /\ Len(w) = n
  <2>1. w = [k \in 1..n |-> w[k]]
    BY <1>2
  <2> QED BY ONLY n \in Nat, <2>1, DefinedByPosition
<1>4. w = <<>>
  BY <1>1, <1>3, IsEmpty
<1> QED BY <1>1, <1>2, <1>4, FlattenEmpty DEF ReadTo

LEMMA SaidType ==
    ASSUME NEW s, Remembered(s), NEW w, w = [k \in DOMAIN s |-> Spoken(s[k])]
    PROVE  /\ IsSequence(w) /\ Len(w) = Len(s) /\ IsSequence(Said(s))
           /\ \A k \in 1..Len(s) : w[k] = Spoken(s[k]) /\ IsSequence(w[k])
<1>1. IsSequence(s)
  BY DEF Remembered
<1>2. PICK S : s \in Seq(S)
  BY <1>1 DEF IsSequence
<1>3. PICK n \in Nat : n = Len(s) /\ DOMAIN s = 1..n
  BY <1>2
<1>4. w = [k \in 1..n |-> Spoken(s[k])]
  BY <1>3
<1>5. IsSequence(w) /\ Len(w) = n
  <2>1. w = [k \in 1..n |-> w[k]]
    BY <1>4
  <2> QED BY ONLY n \in Nat, <2>1, DefinedByPosition
<1>6. \A k \in 1..n : w[k] = Spoken(s[k])
  BY <1>4
<1>7. \A k \in 1..n : IsSequence(w[k])
  BY <1>3, <1>6, SpokenIsSequence DEF Remembered
<1>8. IsSequence(FlattenSeq(w))
  BY <1>5, <1>7, FlattenType
<1> QED BY <1>3, <1>5, <1>6, <1>7, <1>8 DEF Said

LEMMA SaidNext ==
    ASSUME NEW s, Remembered(s), NEW u, Remembered(u), NEW n \in Nat, Len(s) = n, Len(u) = n + 1,
           \A k \in 1..n : u[k] = s[k]
    PROVE  Said(u) = Said(s) \o Spoken(u[n + 1])
<1>1. PICK w : w = [k \in DOMAIN s |-> Spoken(s[k])]
  OBVIOUS
<1>2. PICK x : x = [k \in DOMAIN u |-> Spoken(u[k])]
  OBVIOUS
<1>3. IsSequence(w) /\ Len(w) = n /\ \A k \in 1..n : w[k] = Spoken(s[k])
  BY <1>1, SaidType
<1>4. /\ IsSequence(x) /\ Len(x) = n + 1
      /\ \A k \in 1..(n + 1) : x[k] = Spoken(u[k]) /\ IsSequence(x[k])
  BY <1>2, SaidType
<1>5. \A k \in 1..n : x[k] = w[k]
  BY <1>3, <1>4
<1>6. FlattenSeq(x) = FlattenSeq(w) \o x[n + 1]
  BY ONLY n \in Nat, <1>3, <1>4, <1>5, FlattenNext, ZenonT(60)
<1>7. x[n + 1] = Spoken(u[n + 1])
  BY <1>4
<1> QED BY <1>1, <1>2, <1>6, <1>7 DEF Said

LEMMA SaidNothing == Remembered(<<>>) /\ Said(<<>>) = <<>>
<1>1. Remembered(<<>>)
  BY EmptySequence DEF Remembered
<1>2. PICK w : w = [k \in DOMAIN <<>> |-> Spoken(<<>>[k])]
  OBVIOUS
<1>3. IsSequence(w) /\ Len(w) = 0
  BY <1>1, <1>2, SaidType, EmptySequence
<1>4. w = <<>>
  BY <1>3, IsEmpty
<1>5. FlattenSeq(w) = <<>>
  BY <1>4, FlattenEmpty
<1> QED BY <1>1, <1>2, <1>5 DEF Said

LEMMA SaidPushed ==
    ASSUME NEW s, Remembered(s), NEW f, Remembers(f), NEW t, t = Append(s, f)
    PROVE  Remembered(t) /\ Said(t) = Said(s) \o Spoken(f)
<1>1. IsSequence(s)
  BY DEF Remembered
<1>2. PICK n \in Nat : n = Len(s)
  BY <1>1, SequenceLen
<1>3. /\ IsSequence(t) /\ Len(t) = n + 1
      /\ \A k \in 1..n : t[k] = s[k]
      /\ t[n + 1] = f
  BY <1>1, <1>2, Pushed
<1>4. Remembered(t)
  <2> SUFFICES ASSUME NEW k \in 1..(n + 1) PROVE Remembers(t[k])
    BY <1>3 DEF Remembered
  <2>1. k \in 1..n \/ k = n + 1
    OBVIOUS
  <2> QED BY <1>2, <1>3, <2>1 DEF Remembered
<1>5. Said(t) = Said(s) \o Spoken(t[n + 1])
  BY ONLY n \in Nat, Remembered(s), <1>2, <1>3, <1>4, SaidNext
<1> QED BY <1>3, <1>4, <1>5

LEMMA SaidPopped ==
    ASSUME NEW t, Remembered(t), t # <<>>, NEW s, s = SubSeq(t, 1, Len(t) - 1),
           NEW f, f = t[Len(t)]
    PROVE  Remembered(s) /\ Remembers(f) /\ Said(t) = Said(s) \o Spoken(f)
<1>1. IsSequence(t)
  BY DEF Remembered
<1>2. /\ IsSequence(s) /\ Len(t) \in Nat \ {0} /\ Len(s) = Len(t) - 1
      /\ \A k \in 1..Len(s) : s[k] = t[k]
  BY <1>1, Popped
<1>3. PICK n \in Nat : n = Len(s)
  BY <1>2
<1>4. Len(t) = n + 1 /\ \A k \in 1..n : t[k] = s[k]
  BY <1>2, <1>3
<1>5. Remembers(f)
  BY <1>4 DEF Remembered
<1>6. Remembered(s)
  <2>1. \A k \in 1..n : k \in 1..Len(t)
    BY <1>4
  <2> QED BY <1>2, <1>3, <1>4, <2>1 DEF Remembered
<1>7. Said(t) = Said(s) \o Spoken(t[n + 1])
  BY ONLY n \in Nat, Remembered(t), <1>3, <1>4, <1>6, SaidNext
<1> QED BY <1>4, <1>5, <1>6, <1>7

-----------------------------------------------------------------------------
(* The values that are returned.                                           *)

\* What the pending call f makes of v holds what f remembers, and v behind it.
Settles(f, v, w) == IsSequence(w) /\ Bare(w) = Spoken(f) \o Bare(v)

\* An operation applied to what is in front of it, and to what is behind it.
LEMMA BareOperation ==
    ASSUME NEW f, Remembers(f), f.in # "parens", NEW v, IsSequence(v),
           NEW z, z = f.left \o <<f.op>> \o v
    PROVE  IsSequence(z) /\ Bare(z) = (Bare(f.left) \o <<f.op>>) \o Bare(v)
<1>1. PICK s, op : s = f.left /\ op = f.op
  OBVIOUS
<1>2. IsSequence(s) /\ op \notin {"(", ")"}
  BY <1>1 DEF Remembers
<1>3. IsSequence(<<op>>) /\ Bare(<<op>>) = <<op>>
  BY <1>2, OneToken, BareToken DEF Word
<1>4. PICK y : y = s \o <<op>>
  OBVIOUS
<1>5. IsSequence(y)
  BY <1>2, <1>3, <1>4, JoinedSequence
<1>6. Bare(y) = Bare(s) \o Bare(<<op>>)
  BY <1>2, <1>3, <1>4, BareJoined
<1>7. IsSequence(y \o v) /\ Bare(y \o v) = Bare(y) \o Bare(v)
  BY <1>5, JoinedSequence, BareJoined
<1> QED BY <1>1, <1>3, <1>4, <1>6, <1>7

LEMMA BareBehind ==
    ASSUME NEW op, op \notin {"(", ")"}, NEW v, IsSequence(v)
    PROVE  IsSequence(<<op>> \o v) /\ Bare(<<op>> \o v) = <<op>> \o Bare(v)
<1>1. IsSequence(<<op>>) /\ Bare(<<op>>) = <<op>>
  BY OneToken, BareToken DEF Word
<1>2. Bare(<<op>> \o v) = Bare(<<op>>) \o Bare(v)
  BY <1>1, BareJoined
<1>3. IsSequence(<<op>> \o v)
  BY <1>1, JoinedSequence
<1> QED BY <1>1, <1>2, <1>3

LEMMA SettlesSame ==
    ASSUME NEW f, NEW v, IsSequence(v), Spoken(f) = <<>>
    PROVE  Settles(f, v, v)
<1>1. <<>> \o Bare(v) = Bare(v)
  BY BareType, BesideEmpty
<1> QED BY <1>1 DEF Settles

LEMMA ToldSettles ==
    ASSUME NEW f, Remembers(f), f.in \notin {"sign", "parens"}, NEW v, IsSequence(v)
    PROVE  Settles(f, v, Told(f, v))
<1>1. CASE f.op = ""
  <2>1. Spoken(f) = <<>> /\ Told(f, v) = v
    BY <1>1 DEF Spoken, Told
  <2> QED BY <2>1, SettlesSame
<1>2. CASE f.op # ""
  <2>2. PICK y : y = f.left \o <<f.op>> \o v
    OBVIOUS
  <2>3. IsSequence(y) /\ Bare(y) = (Bare(f.left) \o <<f.op>>) \o Bare(v)
    BY <2>2, f.in # "parens", BareOperation
  <2>4. Told(f, v) = Enclosed(y) /\ Spoken(f) = Bare(f.left) \o <<f.op>>
    BY <1>2, <2>2 DEF Told, Spoken
  <2>5. IsSequence(Enclosed(y)) /\ Bare(Enclosed(y)) = Bare(y)
    BY <2>3, BareEnclosed
  <2> QED BY <2>3, <2>4, <2>5 DEF Settles
<1> QED BY <1>1, <1>2

LEMMA SignedSettles ==
    ASSUME NEW f, f.in = "sign", NEW v, IsSequence(v)
    PROVE  Settles(f, v, Signed(f, v))
<1>1. CASE f.op # "-"
  <2>1. Spoken(f) = <<>> /\ Signed(f, v) = v
    BY <1>1 DEF Spoken, Signed
  <2> QED BY <2>1, SettlesSame
<1>2. CASE f.op = "-"
  <2>1. PICK y : y = <<"-">> \o v
    OBVIOUS
  <2>2. IsSequence(y) /\ Bare(y) = <<"-">> \o Bare(v)
    BY <2>1, BareBehind
  <2>3. Signed(f, v) = Enclosed(y) /\ Spoken(f) = <<"-">>
    BY <1>2, <2>1 DEF Signed, Spoken
  <2>4. IsSequence(Enclosed(y)) /\ Bare(Enclosed(y)) = Bare(y)
    BY <2>2, BareEnclosed
  <2> QED BY <2>2, <2>3, <2>4 DEF Settles
<1> QED BY <1>1, <1>2

LEMMA AppliedSettles ==
    ASSUME NEW f, Remembers(f), f.in = "parens", NEW v, IsSequence(v)
    PROVE  Settles(f, v, Applied(f, v))
<1>1. CASE f.op = "("
  <2>1. Spoken(f) = <<>> /\ Applied(f, v) = v
    BY <1>1 DEF Spoken, Applied
  <2> QED BY <2>1, SettlesSame
<1>2. CASE f.op # "("
  <2>1. f.op \notin {"(", ")"}
    BY <1>2 DEF Remembers
  <2>2. PICK y : y = Enclosed(v)
    OBVIOUS
  <2>3. IsSequence(y) /\ Bare(y) = Bare(v)
    BY <2>2, BareEnclosed
  <2>4. IsSequence(<<f.op>> \o y) /\ Bare(<<f.op>> \o y) = <<f.op>> \o Bare(y)
    BY <2>1, <2>3, BareBehind
  <2>5. Applied(f, v) = <<f.op>> \o y /\ Spoken(f) = <<f.op>>
    BY <1>2, <2>2 DEF Applied, Spoken
  <2> QED BY <2>3, <2>4, <2>5 DEF Settles
<1> QED BY <1>1, <1>2

-----------------------------------------------------------------------------
(* At every step, everything that was read is kept.                        *)

\* What was read before p is remembered by the calls in s and, when one of them
\* has returned, held by the value v.
Kept(text, p, s, f, v) ==
    /\ p \in Nat \ {0} /\ Remembered(s) /\ IsSequence(v)
    /\ f \in DOMAIN CalledBy \cup {"return", "done", "threw"}
    /\ f \in DOMAIN CalledBy => Leads(text, p) /\ ReadTo(text, p - 1) = Said(s)
    /\ f = "return" => ~ Leads(text, p) /\ ReadTo(text, p - 1) = Said(s) \o Bare(v)
    /\ f = "done" => ReadTo(text, p - 1) = Bare(v)

KeptBy(text, c) == Kept(text, c.i, c.stack, c.fn, c.value)

LEMMA CallingIs ==
    /\ "return" \notin DOMAIN CalledBy /\ "done" \notin DOMAIN CalledBy
    /\ "threw" \notin DOMAIN CalledBy
    /\ DOMAIN Operand = {"expr", "term", "pow"} /\ DOMAIN Operand \subseteq DOMAIN CalledBy
    /\ \A f \in DOMAIN Operand : Operand[f] \in DOMAIN CalledBy
    /\ "unary" \in DOMAIN CalledBy /\ "expr" \in DOMAIN CalledBy
    /\ Kinds = {"expr", "term", "pow", "sign", "parens"}
    /\ DOMAIN CalledBy = DOMAIN Operand \cup {"unary"}
BY DEF CalledBy, Operand, Kinds

\* A token more.
LEMMA ReadMore ==
    ASSUME NEW text, NEW p \in Nat \ {0}
    PROVE  /\ ReadTo(text, (p + 1) - 1) = ReadTo(text, p - 1) \o Heard(text, p)
           /\ IsSequence(ReadTo(text, p - 1))
<1>1. PICK n \in Nat : n = p - 1
  OBVIOUS
<1>2. n + 1 = p /\ (p + 1) - 1 = p
  BY <1>1
<1>3. ReadTo(text, n + 1) = ReadTo(text, n) \o Heard(text, n + 1) /\ IsSequence(ReadTo(text, n))
  BY ReadToNext
<1> QED BY <1>1, <1>2, <1>3

\* A token that a call remembers.
LEMMA CallKept ==
    ASSUME NEW text, NEW p \in Nat \ {0}, NEW s, Remembered(s), NEW v, IsSequence(v),
           NEW f, Remembers(f), NEW g \in DOMAIN CalledBy, NEW q \in Nat \ {0}, Leads(text, q),
           ReadTo(text, q - 1) = ReadTo(text, p - 1) \o Spoken(f), ReadTo(text, p - 1) = Said(s)
    PROVE  Kept(text, q, Append(s, f), g, v)
<1>1. PICK t : t = Append(s, f)
  OBVIOUS
<1>2. Remembered(t) /\ Said(t) = Said(s) \o Spoken(f)
  BY <1>1, SaidPushed
<1> QED BY <1>1, <1>2, CallingIs DEF Kept

LEMMA DescendKept ==
    ASSUME NEW text, NEW p, NEW s, NEW f \in DOMAIN Operand, NEW v, Kept(text, p, s, f, v)
    PROVE  Kept(text, p, Append(s, Frame(f, "", Nothing)), Operand[f], v)
<1>1. PICK g : g = Frame(f, "", Nothing)
  OBVIOUS
<1>2. Remembers(g)
  BY <1>1, EmptySequence, CallingIs DEF Frame, Remembers, Nothing
<1>3. Spoken(g) = <<>>
  BY <1>1, CallingIs DEF Frame, Spoken
<1>4. /\ p \in Nat \ {0} /\ Remembered(s) /\ IsSequence(v) /\ Leads(text, p)
      /\ ReadTo(text, p - 1) = Said(s)
  BY CallingIs DEF Kept
<1>5. ReadTo(text, p - 1) = ReadTo(text, p - 1) \o Spoken(g)
  BY <1>3, <1>4, ReadMore, BesideEmpty
<1>6. Operand[f] \in DOMAIN CalledBy
  BY CallingIs
<1>7. Kept(text, p, Append(s, g), Operand[f], v)
  BY ONLY <1>2, <1>4, <1>5, <1>6, CallKept
<1> QED BY <1>1, <1>7

LEMMA SignKept ==
    ASSUME NEW text, NEW p, NEW s, NEW v, Kept(text, p, s, "unary", v), NEW t \in Signs, text[p] = t
    PROVE  Kept(text, p + 1, Append(s, Frame("sign", t, Nothing)), "unary", v)
<1>1. PICK g : g = Frame("sign", t, Nothing)
  OBVIOUS
<1>2. t \notin {"(", ")"}
  BY DEF Signs
<1>3. Remembers(g)
  BY <1>1, <1>2, EmptySequence, CallingIs DEF Frame, Remembers, Nothing
<1>4. /\ p \in Nat \ {0} /\ Remembered(s) /\ IsSequence(v) /\ Leads(text, p)
      /\ ReadTo(text, p - 1) = Said(s)
  BY CallingIs DEF Kept
<1>5. Spoken(g) = Heard(text, p)
  <2>1. g.in = "sign" /\ g.op = t /\ (t = "+" \/ t = "-")
    BY <1>1 DEF Frame, Signs
  <2>2. CASE t = "+"
    BY <1>4, <2>1, <2>2 DEF Spoken, Heard
  <2>3. CASE t = "-"
    BY <2>1, <2>3 DEF Spoken, Heard
  <2> QED BY <2>1, <2>2, <2>3
<1>6. PICK q \in Nat \ {0} : q = p + 1
  BY <1>4
<1>7. ReadTo(text, q - 1) = ReadTo(text, p - 1) \o Spoken(g)
  BY <1>4, <1>5, <1>6, ReadMore
<1>8. Leads(text, q)
  <2>1. q - 1 = p
    BY <1>4, <1>6
  <2>2. t \notin Atoms \cup {")"}
    BY DEF Signs, Atoms
  <2> QED BY <2>1, <2>2 DEF Leads
<1>9. Kept(text, q, Append(s, g), "unary", v)
  <2>1. "unary" \in DOMAIN CalledBy
    BY CallingIs
  <2> QED BY ONLY <1>3, <1>4, <1>6, <1>7, <1>8, <2>1, CallKept
<1> QED BY <1>1, <1>6, <1>9

LEMMA ParensKept ==
    ASSUME NEW text, NEW p, NEW s, NEW v, Kept(text, p, s, "unary", v),
           NEW t \in Functions \cup {"("}, text[p] = t,
           NEW q, q = p + 1 \/ (q = p + 2 /\ text[p + 1] = "(")
    PROVE  Kept(text, q, Append(s, Frame("parens", t, Nothing)), "expr", v)
<1>1. PICK g : g = Frame("parens", t, Nothing)
  OBVIOUS
<1>2. t \notin Atoms \cup {")"} /\ t # "+" /\ (t = "(" \/ t \notin {"(", ")"})
  BY DEF Functions, Atoms
<1>3. Remembers(g)
  BY <1>1, <1>2, EmptySequence, CallingIs DEF Frame, Remembers, Nothing
<1>4. /\ p \in Nat \ {0} /\ Remembered(s) /\ IsSequence(v) /\ Leads(text, p)
      /\ ReadTo(text, p - 1) = Said(s)
  BY CallingIs DEF Kept
<1>5. Spoken(g) = Heard(text, p)
  <2>1. g.in = "parens" /\ g.op = t
    BY <1>1 DEF Frame
  <2> QED BY <1>2, <2>1 DEF Spoken, Heard
<1>6. PICK m \in Nat \ {0} : m = p + 1
  BY <1>4
<1>7. ReadTo(text, m - 1) = ReadTo(text, p - 1) \o Spoken(g)
  BY <1>4, <1>5, <1>6, ReadMore
<1>8. q \in Nat \ {0}
  BY <1>4
<1>9. ReadTo(text, q - 1) = ReadTo(text, p - 1) \o Spoken(g) /\ Leads(text, q)
  <2>1. CASE q = p + 1
    <3>1. q = m /\ q - 1 = p
      BY <1>4, <1>6, <2>1
    <3> QED BY <1>2, <1>7, <3>1 DEF Leads
  <2>2. CASE q = p + 2 /\ text[p + 1] = "("
    <3>1. q = m + 1 /\ q - 1 = m
      BY <1>4, <1>6, <2>2
    <3>2. text[m] = "(" /\ "(" \notin Atoms \cup {")"}
      BY <1>6, <2>2 DEF Atoms
    <3>3. Heard(text, m) = <<>>
      BY <3>2 DEF Heard
    <3>4. ReadTo(text, (m + 1) - 1) = ReadTo(text, m - 1) \o <<>> /\ IsSequence(ReadTo(text, m - 1))
      BY <3>3, ReadMore
    <3>5. ReadTo(text, q - 1) = ReadTo(text, m - 1)
      BY <3>1, <3>4, BesideEmpty
    <3> QED BY <1>7, <3>1, <3>2, <3>5 DEF Leads
  <2> QED BY <2>1, <2>2
<1>10. Kept(text, q, Append(s, g), "expr", v)
  <2>1. "expr" \in DOMAIN CalledBy
    BY CallingIs
  <2> QED BY ONLY <1>3, <1>4, <1>8, <1>9, <2>1, CallKept
<1> QED BY <1>1, <1>10

LEMMA AtomKept ==
    ASSUME NEW text, NEW p, NEW s, NEW v, Kept(text, p, s, "unary", v), NEW t \in Atoms, text[p] = t
    PROVE  Kept(text, p + 1, s, "return", <<t>>)
<1>1. t \notin {"(", ")"} /\ t # "+"
  BY DEF Atoms
<1>2. p \in Nat \ {0} /\ Remembered(s) /\ ReadTo(text, p - 1) = Said(s)
  BY CallingIs DEF Kept
<1>3. Heard(text, p) = <<t>> /\ Bare(<<t>>) = <<t>> /\ IsSequence(<<t>>)
  BY <1>1, BareToken, OneToken DEF Heard, Word
<1>4. PICK q \in Nat \ {0} : q = p + 1
  BY <1>2
<1>5. ReadTo(text, q - 1) = Said(s) \o Bare(<<t>>)
  BY <1>2, <1>3, <1>4, ReadMore
<1>6. ~ Leads(text, q)
  <2>1. q - 1 = p /\ q # 1
    BY <1>2, <1>4
  <2> QED BY <2>1 DEF Leads
<1>7. Kept(text, q, s, "return", <<t>>)
  BY <1>2, <1>3, <1>5, <1>6, CallingIs DEF Kept
<1> QED BY <1>4, <1>7

\* A pending call that returns, with the parenthesis that ends it or without.
LEMMA ReturnKept ==
    ASSUME NEW text, NEW p, NEW t, t # <<>>, NEW v, Kept(text, p, t, "return", v),
           NEW s, s = SubSeq(t, 1, Len(t) - 1), NEW f, f = t[Len(t)],
           NEW w, Settles(f, v, w), NEW q, q = p \/ (q = p + 1 /\ text[p] = ")")
    PROVE  Kept(text, q, s, "return", w)
<1>1. /\ p \in Nat \ {0} /\ Remembered(t) /\ IsSequence(v) /\ ~ Leads(text, p)
      /\ ReadTo(text, p - 1) = Said(t) \o Bare(v)
  BY DEF Kept
<1>2. Remembered(s) /\ Remembers(f) /\ Said(t) = Said(s) \o Spoken(f)
  BY ONLY <1>1, t # <<>>, s = SubSeq(t, 1, Len(t) - 1), f = t[Len(t)], SaidPopped
<1>3. IsSequence(Said(s)) /\ IsSequence(Spoken(f)) /\ IsSequence(Bare(v))
  BY <1>1, <1>2, SaidType, SpokenIsSequence, BareType
<1>4. (Said(s) \o Spoken(f)) \o Bare(v) = Said(s) \o (Spoken(f) \o Bare(v))
  BY ONLY <1>3, Associative
<1>5. IsSequence(w) /\ Bare(w) = Spoken(f) \o Bare(v)
  BY DEF Settles
<1>6. ReadTo(text, p - 1) = Said(s) \o Bare(w)
  BY ONLY <1>1, <1>2, <1>4, <1>5
<1>7. q \in Nat \ {0} /\ ~ Leads(text, q) /\ ReadTo(text, q - 1) = ReadTo(text, p - 1)
  <2>1. CASE q = p
    BY <1>1, <2>1
  <2>2. CASE q = p + 1 /\ text[p] = ")"
    <3>1. q \in Nat \ {0} /\ q - 1 = p /\ q # 1
      BY <1>1, <2>2
    <3>2. ~ Leads(text, q)
      BY <2>2, <3>1 DEF Leads
    <3>3. Heard(text, p) = <<>>
      BY <2>2 DEF Heard
    <3>4. ReadTo(text, (p + 1) - 1) = ReadTo(text, p - 1) \o <<>> /\ IsSequence(ReadTo(text, p - 1))
      BY <1>1, <3>3, ReadMore
    <3> QED BY <2>2, <3>1, <3>2, <3>4, BesideEmpty
  <2> QED BY <2>1, <2>2
<1> QED BY <1>2, <1>5, <1>6, <1>7, CallingIs DEF Kept

\* An operator that follows an operand.
LEMMA OperatorKept ==
    ASSUME NEW text, NEW p, NEW s, NEW f \in DOMAIN Operand, NEW v, Kept(text, p, s, "return", v),
           NEW t \in Operators[f], text[p] = t
    PROVE  Kept(text, p + 1, Append(s, Frame(f, t, v)), Operand[f], v)
<1>1. PICK g : g = Frame(f, t, v)
  OBVIOUS
<1>2. t \in {"+", "-", "*", "/", "^"}
  BY CallingIs DEF Operators
<1>3. t \notin {"(", ")"} /\ t \notin Atoms \cup {")"} /\ t # ""
  BY <1>2 DEF Atoms
<1>4. /\ p \in Nat \ {0} /\ Remembered(s) /\ IsSequence(v) /\ ~ Leads(text, p)
      /\ ReadTo(text, p - 1) = Said(s) \o Bare(v)
  BY DEF Kept
<1>5. Remembers(g)
  BY <1>1, <1>3, <1>4, CallingIs DEF Frame, Remembers
<1>6. Spoken(g) = Bare(v) \o <<t>> /\ Heard(text, p) = <<t>>
  <2>1. g.in = f /\ g.op = t /\ g.left = v /\ f # "sign" /\ f # "parens"
    BY <1>1, CallingIs DEF Frame
  <2> QED BY <1>3, <1>4, <2>1 DEF Spoken, Heard
<1>7. PICK r : r = Append(s, g)
  OBVIOUS
<1>8. Remembered(r) /\ Said(r) = Said(s) \o Spoken(g)
  BY <1>4, <1>5, <1>7, SaidPushed
<1>9. PICK q \in Nat \ {0} : q = p + 1
  BY <1>4
<1>10. ReadTo(text, q - 1) = (Said(s) \o Bare(v)) \o <<t>>
  BY <1>4, <1>6, <1>9, ReadMore
<1>11. (Said(s) \o Bare(v)) \o <<t>> = Said(s) \o (Bare(v) \o <<t>>)
  <2>1. IsSequence(Said(s)) /\ IsSequence(Bare(v)) /\ IsSequence(<<t>>)
    BY <1>4, SaidType, BareType, OneToken
  <2> QED BY ONLY <2>1, Associative, SMTT(60)
<1>12. Leads(text, q)
  <2>1. q - 1 = p
    BY <1>4, <1>9
  <2> QED BY <1>3, <2>1 DEF Leads
<1>13. Kept(text, q, r, Operand[f], v)
  <2>1. ReadTo(text, q - 1) = Said(r)
    BY ONLY <1>6, <1>8, <1>10, <1>11
  <2>2. Operand[f] \in DOMAIN CalledBy
    BY CallingIs
  <2> QED BY <1>4, <1>8, <1>12, <2>1, <2>2, CallingIs DEF Kept
<1> QED BY <1>1, <1>7, <1>9, <1>13

LEMMA StartsKept ==
    ASSUME NEW text, NEW c, KeptBy(text, c), c.fn = "unary"
    PROVE  KeptBy(text, Starts(text, c))
<1>1. PICK p, s, v : p = c.i /\ s = c.stack /\ v = c.value
  OBVIOUS
<1>2. Kept(text, p, s, "unary", v)
  BY <1>1 DEF KeptBy
<1>3. PICK t : t = Text(text, p)
  OBVIOUS
<1>4. \A a, b, f, w : Kept(text, a, b, f, w) => KeptBy(text, Config(a, b, f, w))
  BY Parts DEF KeptBy
<1>5. t # "end" => text[p] = t
  BY <1>3 DEF Text
<1>6. CASE t \in Signs
  <2>1. Starts(text, c) = Config(p + 1, Append(s, Frame("sign", t, Nothing)), "unary", v)
    BY <1>1, <1>3, <1>6 DEF Starts
  <2>2. text[p] = t
    BY <1>5, <1>6 DEF Signs
  <2>3. Kept(text, p + 1, Append(s, Frame("sign", t, Nothing)), "unary", v)
    BY ONLY <1>2, <1>6, <2>2, SignKept
  <2> QED BY <1>4, <2>1, <2>3
<1>7. CASE t \notin Signs /\ (t = "(" \/ t \in Functions)
  <2>1. PICK q : q = IF t \in Functions /\ p < Len(text) /\ text[p + 1] = "(" THEN p + 2 ELSE p + 1
    OBVIOUS
  <2>2. Starts(text, c) = Config(q, Append(s, Frame("parens", t, Nothing)), "expr", v)
    BY <1>1, <1>3, <1>7, <2>1 DEF Starts
  <2>3. text[p] = t
    BY <1>5, <1>7 DEF Functions
  <2>4. t \in Functions \cup {"("} /\ (q = p + 1 \/ (q = p + 2 /\ text[p + 1] = "("))
    BY <1>7, <2>1
  <2>5. Kept(text, q, Append(s, Frame("parens", t, Nothing)), "expr", v)
    BY ONLY <1>2, <2>3, <2>4, ParensKept
  <2> QED BY <1>4, <2>2, <2>5
<1>8. CASE t \notin Signs /\ ~ (t = "(" \/ t \in Functions) /\ t \in Atoms
  <2>1. Starts(text, c) = Config(p + 1, s, "return", <<t>>)
    BY <1>1, <1>3, <1>8 DEF Starts
  <2>2. text[p] = t
    BY <1>5, <1>8 DEF Atoms
  <2>3. Kept(text, p + 1, s, "return", <<t>>)
    BY ONLY <1>2, <1>8, <2>2, AtomKept
  <2> QED BY <1>4, <2>1, <2>3
<1>9. CASE t \notin Signs /\ ~ (t = "(" \/ t \in Functions) /\ t \notin Atoms
  <2>1. Starts(text, c) = Config(p, s, "threw", v)
    BY <1>1, <1>3, <1>9 DEF Starts
  <2>2. Kept(text, p, s, "threw", v)
    BY <1>2, CallingIs DEF Kept
  <2> QED BY <1>4, <2>1, <2>2
<1> QED BY <1>6, <1>7, <1>8, <1>9

LEMMA ResumesKept ==
    ASSUME NEW text, NEW c, KeptBy(text, c), c.fn = "return", c.stack # <<>>,
           NEW s, s = SubSeq(c.stack, 1, Len(c.stack) - 1), NEW f, f = c.stack[Len(c.stack)]
    PROVE  KeptBy(text, Resumes(text, c, s, f))
<1>1. PICK p, r, v : p = c.i /\ r = c.stack /\ v = c.value
  OBVIOUS
<1>2. /\ Kept(text, p, r, "return", v)
      /\ r # <<>> /\ s = SubSeq(r, 1, Len(r) - 1) /\ f = r[Len(r)]
  BY <1>1 DEF KeptBy
<1>3. PICK t : t = Text(text, p)
  OBVIOUS
<1>4. \A a, b, g, w : Kept(text, a, b, g, w) => KeptBy(text, Config(a, b, g, w))
  BY Parts DEF KeptBy
<1>5. t # "end" => text[p] = t
  BY <1>3 DEF Text
<1>6. IsSequence(v) /\ Remembers(f)
  <2>1. IsSequence(v) /\ Remembered(r)
    BY <1>2 DEF Kept
  <2> QED BY ONLY <1>2, <2>1, SaidPopped
<1>7. CASE f.in = "sign"
  <2>1. Resumes(text, c, s, f) = Config(p, s, "return", Signed(f, v))
    BY <1>1, <1>7 DEF Resumes
  <2>2. Settles(f, v, Signed(f, v))
    BY <1>6, <1>7, SignedSettles
  <2>3. Kept(text, p, s, "return", Signed(f, v))
    BY ONLY <1>2, <2>2, ReturnKept
  <2> QED BY <1>4, <2>1, <2>3
<1>8. CASE f.in = "parens"
  <2>1. PICK q : q = IF t = ")" THEN p + 1 ELSE p
    OBVIOUS
  <2>2. Resumes(text, c, s, f) = Config(q, s, "return", Applied(f, v))
    BY <1>1, <1>3, <1>8, <2>1 DEF Resumes
  <2>3. Settles(f, v, Applied(f, v))
    BY <1>6, <1>8, AppliedSettles
  <2>4. q = p \/ (q = p + 1 /\ text[p] = ")")
    BY <1>5, <2>1
  <2>5. Kept(text, q, s, "return", Applied(f, v))
    BY ONLY <1>2, <2>3, <2>4, ReturnKept
  <2> QED BY <1>4, <2>2, <2>5
<1>9. CASE f.in \notin {"sign", "parens"}
  <2>1. f.in \in DOMAIN Operand
    BY <1>6, <1>9, CallingIs DEF Remembers
  <2>2. PICK w : w = Told(f, v)
    OBVIOUS
  <2>3. Settles(f, v, w)
    BY <1>6, <1>9, <2>2, ToldSettles
  <2>4. Kept(text, p, s, "return", w)
    BY ONLY <1>2, <2>3, ReturnKept
  <2>5. CASE t \in Operators[f.in] /\ (f.in = "pow" => f.op = "")
    <3>1. PICK a : a = f.in
      OBVIOUS
    <3>2. Resumes(text, c, s, f) = Config(p + 1, Append(s, Frame(a, t, w)), Operand[a], v)
      BY <1>1, <1>3, <1>9, <2>2, <2>5, <3>1 DEF Resumes
    <3>3. t # "end" /\ t \in Operators[a] /\ a \in DOMAIN Operand
      <4>1. \A b \in {"expr", "term", "pow"} : "end" \notin Operators[b]
        BY DEF Operators
      <4> QED BY <2>1, <2>5, <3>1, <4>1, CallingIs
    <3>4. text[p] = t
      BY <1>5, <3>3
    <3>5. Kept(text, p + 1, Append(s, Frame(a, t, w)), Operand[a], w)
      BY ONLY <2>4, <3>3, <3>4, OperatorKept
    <3>6. Kept(text, p + 1, Append(s, Frame(a, t, w)), Operand[a], v)
      <4>1. Operand[a] \in DOMAIN CalledBy
        BY <3>3, CallingIs
      <4> QED BY <1>6, <3>5, <4>1, CallingIs DEF Kept
    <3> QED BY <1>4, <3>2, <3>6
  <2>6. CASE ~ (t \in Operators[f.in] /\ (f.in = "pow" => f.op = ""))
    <3>1. Resumes(text, c, s, f) = Config(p, s, "return", w)
      BY <1>1, <1>3, <1>9, <2>2, <2>6 DEF Resumes
    <3> QED BY <1>4, <2>4, <3>1
  <2> QED BY <2>5, <2>6
<1> QED BY <1>7, <1>8, <1>9

LEMMA AfterKept ==
    ASSUME NEW text, NEW c, KeptBy(text, c), ~ Final(c)
    PROVE  KeptBy(text, After(text, c))
<1>1. PICK p, s, f, v : p = c.i /\ s = c.stack /\ f = c.fn /\ v = c.value
  OBVIOUS
<1>2. Kept(text, p, s, f, v)
  BY <1>1 DEF KeptBy
<1>3. \A a, b, g, w : Kept(text, a, b, g, w) => KeptBy(text, Config(a, b, g, w))
  BY Parts DEF KeptBy
<1>4. f \in DOMAIN Operand \/ f = "unary" \/ f = "return"
  BY <1>1, <1>2, CallingIs DEF Kept, Final
<1>5. CASE f \in DOMAIN Operand
  <2>1. After(text, c) = Config(p, Append(s, Frame(f, "", Nothing)), Operand[f], v)
    BY <1>1, <1>5 DEF After
  <2>2. Kept(text, p, Append(s, Frame(f, "", Nothing)), Operand[f], v)
    BY ONLY <1>2, <1>5, DescendKept
  <2> QED BY <1>3, <2>1, <2>2
<1>6. CASE f = "unary"
  <2>1. After(text, c) = Starts(text, c)
    BY <1>1, <1>6, CallingIs DEF After
  <2> QED BY <1>1, <1>6, <2>1, StartsKept
<1>7. CASE f = "return" /\ s = <<>>
  <2>1. After(text, c) = Config(p, <<>>, "done", v)
    BY <1>1, <1>7, CallingIs DEF After
  <2>2. ReadTo(text, p - 1) = <<>> \o Bare(v) /\ IsSequence(v)
    BY <1>2, <1>7, SaidNothing DEF Kept
  <2>3. ReadTo(text, p - 1) = Bare(v)
    BY <2>2, BareType, BesideEmpty
  <2>4. Kept(text, p, <<>>, "done", v)
    BY <1>2, <2>3, SaidNothing, CallingIs DEF Kept
  <2> QED BY <2>1, <2>4, Parts DEF KeptBy
<1>8. CASE f = "return" /\ s # <<>>
  <2>1. After(text, c) = Resumes(text, c, SubSeq(c.stack, 1, Len(c.stack) - 1),
                                 c.stack[Len(c.stack)])
    BY <1>1, <1>8, CallingIs DEF After
  <2> QED BY <1>1, <1>8, <2>1, ResumesKept
<1> QED BY <1>4, <1>5, <1>6, <1>7, <1>8

\* The invariant of what was read.
NothingLostYet == KeptBy(input, Now)

LEMMA InitKept == Init => NothingLostYet
<1> SUFFICES ASSUME Init PROVE NothingLostYet
  OBVIOUS
<1>1. Now = Config(1, <<>>, "expr", Nothing)
  BY DEF Init, Now
<1>2. Remembered(<<>>) /\ Said(<<>>) = <<>> /\ IsSequence(Nothing)
  BY SaidNothing, EmptySequence DEF Nothing
<1>3. ReadTo(input, 1 - 1) = <<>> /\ Leads(input, 1)
  <2>1. 1 - 1 = 0
    OBVIOUS
  <2> QED BY <2>1, ReadToNone DEF Leads
<1>4. Kept(input, 1, <<>>, "expr", Nothing)
  BY <1>2, <1>3, CallingIs DEF Kept
<1> QED BY <1>1, <1>4, Parts DEF NothingLostYet, KeptBy

LEMMA StepKept == NothingLostYet /\ [Next]_vars => NothingLostYet'
<1> SUFFICES ASSUME NothingLostYet, [Next]_vars PROVE NothingLostYet'
  OBVIOUS
<1>1. KeptBy(input, Now)
  BY DEF NothingLostYet
<1>2. CASE UNCHANGED vars
  <2>1. Now' = Now /\ input' = input
    BY <1>2 DEF vars, Now
  <2> QED BY <1>1, <2>1 DEF NothingLostYet, KeptBy
<1>3. CASE Next
  <2>1. Now' = After(input, Now) /\ ~ Final(Now) /\ input' = input
    BY <1>3, NextIsAfter
  <2>2. KeptBy(input, After(input, Now))
    BY <1>1, <2>1, AfterKept
  <2>3. KeptBy(input', Now')
    BY <2>1, <2>2
  <2> QED BY <2>3 DEF NothingLostYet, KeptBy
<1> QED BY <1>2, <1>3

LEMMA NothingIsLost == NothingLostYet => NothingReadIsLost
<1> SUFFICES ASSUME NothingLostYet, fn = "done"
             PROVE  FlattenSeq([k \in Consumed |-> IF Silent(k) THEN <<>> ELSE <<input[k]>>])
                    = Bare(value)
  BY DEF NothingReadIsLost
<1>1. Now.i = i /\ Now.fn = fn /\ Now.value = value
  BY Parts DEF Now
<1>2. ReadTo(input, i - 1) = Bare(value)
  BY <1>1 DEF NothingLostYet, KeptBy, Kept
<1>3. \A k : Heard(input, k) = IF Silent(k) THEN <<>> ELSE <<input[k]>>
  BY DEF Heard, Silent, Leads, InFront
<1>4. [k \in 1..(i - 1) |-> Heard(input, k)]
         = [k \in Consumed |-> IF Silent(k) THEN <<>> ELSE <<input[k]>>]
  BY <1>3 DEF Consumed
<1> QED BY <1>2, <1>4 DEF ReadTo

\* At every step of the parser, for every input: what was read, but for
\* parentheses and plus signs, is what the pending calls remember, the oldest
\* first, with what the last one returned behind it (core/src/chord.cpp:15-56).
THEOREM ReadInvariant == Spec => []NothingLostYet
BY InitKept, StepKept, PTL DEF Spec

\* Whatever the input, nothing that was read on the way to a result is missing
\* from what is evaluated, there twice or out of its place.
THEOREM NothingIsMissing == Spec => []NothingReadIsLost
BY ReadInvariant, NothingIsLost, PTL

-----------------------------------------------------------------------------
(* The parser comes to an end.                                             *)

\* The steps a function takes at most before it reads a token, or returns, with
\* one more for the result.
Ahead == [expr |-> 7, term |-> 5, pow |-> 3, unary |-> 1, return |-> 1, done |-> 0, threw |-> 0]

\* More than the steps that are left: eight for a token, one for a pending call.
StepsLeft == 8 * (Len(input) + 1 - i) + Len(stack) + Ahead[fn]

\* The parser is at a token or right behind the last one.
WithinText == i <= Len(input) + 1

LEMMA AheadIs ==
    /\ \A f \in DOMAIN Operand : Ahead[Operand[f]] = Ahead[f] - 2 /\ Ahead[f] \in 3..7
    /\ \A f \in DOMAIN Operand : Ahead[Operand[f]] \in 1..5
    /\ \A f \in DOMAIN CalledBy \cup {"return", "done", "threw"} : Ahead[f] \in 0..7
    /\ Ahead["expr"] = 7 /\ Ahead["unary"] = 1 /\ Ahead["return"] = 1
    /\ Ahead["done"] = 0 /\ Ahead["threw"] = 0
BY DEF Ahead, Operand, CalledBy

LEMMA StepsTypes ==
    ASSUME ExprInv, NothingLostYet, WithinText
    PROVE  /\ i \in Nat \ {0} /\ Len(input) \in Nat /\ Len(stack) \in Nat /\ Ahead[fn] \in 0..7
           /\ StepsLeft \in Nat
<1>1. i \in Nat \ {0} /\ Len(input) \in Nat /\ Len(stack) \in Nat
  BY Numbers DEF ExprInv, ExprTypes
<1>2. fn \in DOMAIN CalledBy \cup {"return", "done", "threw"}
  <2>1. Now.fn = fn
    BY Parts DEF Now
  <2> QED BY <2>1 DEF NothingLostYet, KeptBy, Kept
<1>3. Ahead[fn] \in 0..7
  BY <1>2, AheadIs
<1> QED BY <1>1, <1>3 DEF StepsLeft, WithinText

\* Fewer steps are left when so much was read, called and is ahead.
LEMMA FewerLeft ==
    ASSUME ExprInv, NothingLostYet, WithinText, input' = input,
           NEW a \in Nat, NEW l \in Nat, NEW r \in 0..7,
           i' = i + a, WithinText', Len(stack') = l, Ahead[fn'] = r,
           l + r < 8 * a + Len(stack) + Ahead[fn]
    PROVE  StepsLeft' \in Nat /\ StepsLeft' < StepsLeft
<1>1. i \in Nat \ {0} /\ Len(input) \in Nat /\ Len(stack) \in Nat /\ Ahead[fn] \in 0..7
  BY StepsTypes
<1>2. i + a <= Len(input) + 1
  BY DEF WithinText
<1>3. StepsLeft' = 8 * (Len(input) + 1 - (i + a)) + l + r
  BY DEF StepsLeft
<1>4. PICK x \in Int, y \in Nat : /\ x = 8 * (Len(input) + 1 - i)
                                /\ y = 8 * (Len(input) + 1 - (i + a))
                                /\ y = x - 8 * a
  <2>1. PICK n \in Nat : n = Len(input)
    BY <1>1
  <2>2. PICK m \in Nat : m = i
    BY <1>1
  <2>3. m + a <= n + 1
    BY <1>2, <2>1, <2>2
  <2>4. 8 * (n + 1 - (m + a)) = 8 * (n + 1 - m) - 8 * a
    OBVIOUS
  <2>5. 8 * (n + 1 - (m + a)) \in Nat /\ 8 * (n + 1 - m) \in Int
    BY <2>3
  <2> QED BY <2>1, <2>2, <2>4, <2>5
<1>5. StepsLeft' = y + l + r /\ StepsLeft = x + Len(stack) + Ahead[fn]
  BY <1>3, <1>4 DEF StepsLeft
<1>6. PICK k \in Nat : k = Len(stack)
  BY <1>1
<1>7. PICK h \in 0..7 : h = Ahead[fn]
  BY <1>1
<1>8. y + l + r \in Nat /\ y + l + r < x + k + h
  <2>1. PICK b \in Nat : b = 8 * a
    OBVIOUS
  <2>2. l + r < b + k + h
    BY <1>6, <1>7, <2>1
  <2>3. y = x - b
    BY <1>4, <2>1
  <2>4. y + l + r < x + k + h
    BY ONLY l \in Nat, r \in 0..7, x \in Int, y \in Nat, k \in Nat, h \in 0..7, b \in Nat,
            <2>2, <2>3
  <2> QED BY ONLY l \in Nat, r \in 0..7, y \in Nat, <2>4
<1> QED BY ONLY <1>5, <1>6, <1>7, <1>8

LEMMA PushedLen ==
    ASSUME ExprInv, NEW f, stack' = Append(stack, f)
    PROVE  Len(stack) \in Nat /\ Len(stack') = Len(stack) + 1
BY Pushed DEF ExprInv, ExprTypes

LEMMA PoppedLen ==
    ASSUME ExprInv, stack # <<>>
    PROVE  /\ Len(stack) \in Nat \ {0} /\ Len(Pop) = Len(stack) - 1
           /\ \A f : Len(Append(Pop, f)) = Len(stack)
<1>1. PICK p : p = SubSeq(stack, 1, Len(stack) - 1)
  OBVIOUS
<1>2. IsSequence(p) /\ Len(stack) \in Nat \ {0} /\ Len(p) = Len(stack) - 1
  BY <1>1, Popped DEF ExprInv, ExprTypes
<1>3. \A f : Len(Append(p, f)) = Len(p) + 1
  BY <1>2, Pushed
<1> QED BY <1>1, <1>2, <1>3 DEF Pop

\* A token is read only where there is one.
LEMMA ReadWithin ==
    ASSUME ExprInv, WithinText, tok # "end", i' = i + 1, input' = input
    PROVE  WithinText'
<1>1. i <= Len(input) /\ i \in Nat \ {0} /\ Len(input) \in Nat
  BY TokenIs, Numbers DEF ExprInv, ExprTypes
<1> QED BY <1>1 DEF WithinText

LEMMA StepTaken ==
    ASSUME ExprInv, NothingLostYet, WithinText, Next
    PROVE  WithinText' /\ StepsLeft' \in Nat /\ StepsLeft' < StepsLeft
<1>1. /\ i \in Nat \ {0} /\ Len(input) \in Nat /\ Len(stack) \in Nat /\ Ahead[fn] \in 0..7
      /\ input' = input
  BY StepsTypes, NextIsAfter
<1>2. CASE Descend
  <2>1. /\ fn \in DOMAIN Operand /\ i' = i /\ stack' = Append(stack, Frame(fn, "", Nothing))
        /\ fn' = Operand[fn]
    BY <1>2 DEF Descend, Push
  <2>2. Len(stack') = Len(stack) + 1
    BY <2>1, PushedLen
  <2>3. Ahead[fn'] = Ahead[fn] - 2 /\ Ahead[fn] \in 3..7
    BY <2>1, AheadIs
  <2>4. PICK a \in Nat, l \in Nat, r \in 0..7 :
           a = 0 /\ l = Len(stack) + 1 /\ r = Ahead[fn] - 2
    <3>1. Ahead[fn] - 2 \in 0..7 /\ Len(stack) + 1 \in Nat
      BY <1>1, <2>3
    <3> QED BY <3>1
  <2>5. WithinText' /\ i' = i + a
    <3>1. WithinText'
      BY <1>1, <2>1 DEF WithinText
    <3>2. a = 0 /\ i \in Nat /\ i' = i
      BY <1>1, <2>1, <2>4
    <3>3. i' = i + a
      BY ONLY <3>2
    <3> QED BY <3>1, <3>3
  <2>6. Len(stack') = l /\ Ahead[fn'] = r /\ l + r < 8 * a + Len(stack) + Ahead[fn]
    BY <1>1, <2>2, <2>3, <2>4
  <2> QED BY <1>1, <2>5, <2>6, FewerLeft
<1>3. CASE parseUnary
  <2>1. /\ fn = "unary" /\ tok \in Signs /\ i' = i + 1 /\ fn' = fn
        /\ stack' = Append(stack, Frame("sign", tok, Nothing))
    BY <1>3 DEF parseUnary, Push
  <2>2. Len(stack') = Len(stack) + 1
    BY <2>1, PushedLen
  <2>3. tok # "end"
    BY <2>1 DEF Signs
  <2>4. PICK a \in Nat, l \in Nat, r \in 0..7 : a = 1 /\ l = Len(stack) + 1 /\ r = Ahead[fn]
    BY <1>1
  <2>5. WithinText' /\ i' = i + a
    BY <1>1, <2>1, <2>3, <2>4, ReadWithin
  <2>6. Len(stack') = l /\ Ahead[fn'] = r /\ l + r < 8 * a + Len(stack) + Ahead[fn]
    BY <1>1, <2>1, <2>2, <2>4
  <2> QED BY <1>1, <2>5, <2>6, FewerLeft
<1>4. CASE parseAtom
  <2>1. fn = "unary" /\ Ahead[fn] = 1
    BY <1>4, AheadIs DEF parseAtom
  <2>2. CASE tok = "(" \/ tok \in Functions
    <3>1. PICK a \in Nat : a = IF tok \in Functions /\ i < Len(input) /\ input[i + 1] = "("
                               THEN 2 ELSE 1
      OBVIOUS
    <3>2. i' = i + a /\ stack' = Append(stack, Frame("parens", tok, Nothing)) /\ fn' = "expr"
      BY <1>4, <2>2, <3>1 DEF parseAtom, Push, Functions, Atoms
    <3>3. Len(stack') = Len(stack) + 1
      BY <3>2, PushedLen
    <3>4. tok # "end"
      BY <2>2 DEF Functions
    <3>5. i <= Len(input)
      BY <3>4, TokenIs DEF ExprInv
    <3>6. WithinText'
      BY <1>1, <3>1, <3>2, <3>5 DEF WithinText
    <3>7. PICK l \in Nat, r \in 0..7 : l = Len(stack) + 1 /\ r = 7
      BY <1>1
    <3>8. /\ Len(stack') = l /\ Ahead[fn'] = r
          /\ l + r < 8 * a + Len(stack) + Ahead[fn]
      <4>1. a = 1 \/ a = 2
        BY <3>1
      <4> QED BY <1>1, <2>1, <3>2, <3>3, <3>7, <4>1, AheadIs
    <3> QED BY <1>1, <3>2, <3>6, <3>8, FewerLeft
  <2>3. CASE tok \in Atoms
    <3>1. i' = i + 1 /\ stack' = stack /\ fn' = "return"
      BY <1>4, <2>3 DEF parseAtom, Atoms, Functions
    <3>2. tok # "end"
      BY <2>3 DEF Atoms
    <3>3. PICK a \in Nat, l \in Nat, r \in 0..7 : a = 1 /\ l = Len(stack) /\ r = 1
      BY <1>1
    <3>4. WithinText' /\ i' = i + a
      BY <1>1, <3>1, <3>2, <3>3, ReadWithin
    <3>5. Len(stack') = l /\ Ahead[fn'] = r /\ l + r < 8 * a + Len(stack) + Ahead[fn]
      BY <1>1, <2>1, <3>1, <3>3, AheadIs
    <3> QED BY <1>1, <3>4, <3>5, FewerLeft
  <2>4. CASE tok \notin Atoms \cup Functions \cup {"("}
    <3>1. i' = i /\ stack' = stack /\ fn' = "threw"
      BY <1>4, <2>4 DEF parseAtom
    <3>2. PICK a \in Nat, l \in Nat, r \in 0..7 : a = 0 /\ l = Len(stack) /\ r = 0
      BY <1>1
    <3>3. WithinText' /\ i' = i + a
      BY <1>1, <3>1, <3>2 DEF WithinText
    <3>4. Len(stack') = l /\ Ahead[fn'] = r /\ l + r < 8 * a + Len(stack) + Ahead[fn]
      BY <1>1, <2>1, <3>1, <3>2, AheadIs
    <3> QED BY <1>1, <3>3, <3>4, FewerLeft
  <2> QED BY <2>2, <2>3, <2>4
<1>5. CASE Continue
  <2>1. fn = "return" /\ Ahead[fn] = 1 /\ stack # <<>> /\ Top.in \in DOMAIN Operand
    BY <1>5, AheadIs DEF Continue
  <2>2. /\ Len(stack) \in Nat \ {0} /\ Len(Pop) = Len(stack) - 1
        /\ \A f : Len(Append(Pop, f)) = Len(stack)
    BY <2>1, PoppedLen
  <2>3. CASE tok \in Operators[Top.in] /\ (Top.in = "pow" => Top.op = "")
    <3>1. /\ i' = i + 1 /\ fn' = Operand[Top.in]
          /\ stack' = Append(Pop, Frame(Top.in, tok, Joined))
      BY <1>5, <2>3 DEF Continue
    <3>2. tok # "end"
      <4>1. \A f \in {"expr", "term", "pow"} : "end" \notin Operators[f]
        BY DEF Operators
      <4> QED BY <2>1, <2>3, <4>1, CallingIs
    <3>3. PICK a \in Nat, l \in Nat, r \in 0..7 :
             a = 1 /\ l = Len(stack) /\ r = Ahead[Operand[Top.in]] /\ r <= 5
      <4>1. Ahead[Operand[Top.in]] \in 0..7 /\ Ahead[Operand[Top.in]] <= 5
        BY <2>1, AheadIs
      <4> QED BY <1>1, <4>1
    <3>4. WithinText' /\ i' = i + a
      BY <1>1, <3>1, <3>2, <3>3, ReadWithin
    <3>5. Len(stack') = l /\ Ahead[fn'] = r /\ l + r < 8 * a + Len(stack) + Ahead[fn]
      BY <1>1, <2>1, <2>2, <3>1, <3>3
    <3> QED BY <1>1, <3>4, <3>5, FewerLeft
  <2>4. CASE ~ (tok \in Operators[Top.in] /\ (Top.in = "pow" => Top.op = ""))
    <3>1. i' = i /\ fn' = fn /\ stack' = Pop
      BY <1>5, <2>4 DEF Continue
    <3>2. PICK a \in Nat, l \in Nat, r \in 0..7 : a = 0 /\ l = Len(stack) - 1 /\ r = 1
      BY <2>2
    <3>3. WithinText' /\ i' = i + a
      BY <1>1, <3>1, <3>2 DEF WithinText
    <3>4. Len(stack') = l /\ Ahead[fn'] = r /\ l + r < 8 * a + Len(stack) + Ahead[fn]
      BY <1>1, <2>1, <2>2, <3>1, <3>2
    <3> QED BY <1>1, <3>3, <3>4, FewerLeft
  <2> QED BY <2>3, <2>4
<1>6. CASE ReturnSign \/ ReturnParens
  <2>1. /\ fn = "return" /\ Ahead[fn] = 1 /\ stack # <<>> /\ stack' = Pop /\ fn' = fn
        /\ i' = i \/ (i' = i + 1 /\ tok = ")")
    BY <1>6, AheadIs DEF ReturnSign, ReturnParens
  <2>2. Len(stack) \in Nat \ {0} /\ Len(Pop) = Len(stack) - 1
    BY <2>1, PoppedLen
  <2>3. PICK a \in {0, 1} : i' = i + a /\ (a = 1 => i' = i + 1 /\ tok = ")") /\ (a = 0 => i' = i)
    BY <1>1, <2>1
  <2>4. PICK l \in Nat, r \in 0..7 : l = Len(stack) - 1 /\ r = 1
    BY <2>2
  <2>5. WithinText'
    <3>1. CASE i' = i
      BY <1>1, <3>1 DEF WithinText
    <3>2. CASE i' = i + 1 /\ tok = ")"
      BY <1>1, <3>2, ReadWithin
    <3> QED BY <2>1, <3>1, <3>2
  <2>6. Len(stack') = l /\ Ahead[fn'] = r /\ l + r < 8 * a + Len(stack) + Ahead[fn]
    BY <1>1, <2>1, <2>2, <2>4
  <2>7. a \in Nat /\ i' = i + a
    BY <2>3
  <2> QED BY <1>1, <2>5, <2>6, <2>7, FewerLeft
<1>7. CASE evalExpr
  <2>1. fn = "return" /\ i' = i /\ stack' = stack /\ fn' = "done"
    BY <1>7 DEF evalExpr
  <2>2. PICK a \in Nat, l \in Nat, r \in 0..7 : a = 0 /\ l = Len(stack) /\ r = 0
    BY <1>1
  <2>3. WithinText' /\ i' = i + a
    BY <1>1, <2>1, <2>2 DEF WithinText
  <2>4. Len(stack') = l /\ Ahead[fn'] = r /\ l + r < 8 * a + Len(stack) + Ahead[fn]
    BY <1>1, <2>1, <2>2, AheadIs
  <2> QED BY <1>1, <2>3, <2>4, FewerLeft
<1> QED BY <1>2, <1>3, <1>4, <1>5, <1>6, <1>7 DEF Next

LEMMA InitWithin == Init => WithinText
<1> SUFFICES ASSUME Init PROVE WithinText
  OBVIOUS
<1>1. Len(input) \in Nat /\ i = 1
  BY InitExpr, Numbers DEF Init, ExprInv
<1> QED BY <1>1 DEF WithinText

LEMMA StepWithin ==
    ASSUME ExprInv, NothingLostYet, WithinText, [Next]_vars
    PROVE  WithinText'
<1>1. CASE Next
  BY <1>1, StepTaken
<1>2. CASE UNCHANGED vars
  BY <1>2 DEF vars, WithinText
<1> QED BY <1>1, <1>2

\* The parser reads what it was given, and no further.
THEOREM ReadsWithin == Spec => []WithinText
<1>1. ExprInv /\ NothingLostYet /\ WithinText /\ [Next]_vars => WithinText'
  BY StepWithin
<1> QED BY <1>1, InitWithin, ExprInvariant, ReadInvariant, PTL DEF Spec

\* Whatever the input, every step leaves fewer to take: the parser comes to an
\* end, a result or an exception, after at most eight steps for each token and
\* seven more.
THEOREM LinearTime == Spec => [][StepsLeft' \in Nat /\ StepsLeft' < StepsLeft]_vars
<1>1. ExprInv /\ NothingLostYet /\ WithinText /\ [Next]_vars
         => [StepsLeft' \in Nat /\ StepsLeft' < StepsLeft]_vars
  BY StepTaken
<1> QED BY <1>1, ReadsWithin, ExprInvariant, ReadInvariant, PTL DEF Spec
=============================================================================
