--------------------------- MODULE ChannelProofs ---------------------------
(***************************************************************************)
(* RequestChannel, for any number of requests and connections: the server  *)
(* sees whole lines, replies come in order, and a client is behind by at   *)
(* most one reply for each request it gave up on.                          *)
(***************************************************************************)
EXTENDS RequestChannel, TLAPS, SequenceTheorems, FiniteSetTheorems, WellFoundedInduction

\* What the server has not taken out yet, and what request() has not.
Calls == sbuf \o c2s
Replies == buf \o inbox \o s2c

\* All that is under way on the connection, the oldest first: a request moves
\* from one half to the other where it is answered.
Way == Replies \o Calls

\* Ids ascend from line to line.
Ascends(s) ==
    \A j, k \in 1..Len(s) : j < k =>
        s[j].id <= s[k].id /\ (s[j].last => s[j].id < s[k].id)

\* s consists of whole lines.
WholeLines(s) ==
    \A k \in 1..Len(s) :
        /\ s[k].last => k > 1 /\ ~s[k - 1].last /\ s[k - 1].id = s[k].id
        /\ ~s[k].last => k < Len(s) /\ s[k + 1].last

\* The requests on the present connection that were given up.
GivenUp == {k \in 1..Len(results) : results[k].got = 0 /\ results[k].conn = conn}

CallsInv ==
    /\ WholeLines(Calls)
    /\ \A i \in 1..Len(handled), k \in 1..Len(Calls) : handled[i] < Calls[k].id

WayInv ==
    /\ Ascends(Way)
    /\ \A k \in 1..Len(Way) :
           /\ Way[k].id < nextId
           /\ (IF asked = 0 THEN nextId ELSE asked) <= Way[k].id + Cardinality(GivenUp)
           /\ \A i \in 1..Len(results) :
                  /\ results[i].got < Way[k].id
                  /\ results[i].conn < conn => results[i].asked < Way[k].id

TurnInv ==
    /\ asked # 0 => asked + 1 = nextId
    /\ asked = 0 => buf = <<>>
    /\ up \/ asked # 0 => conn > 0
    /\ \A i \in 1..Len(results) :
           results[i].asked < nextId /\ results[i].got < nextId /\ results[i].conn <= conn

IInv ==
    /\ TypeOK /\ CallsInv /\ WayInv /\ TurnInv
    /\ ServerSeesWholeLines /\ RepliesInOrder /\ LagBoundedByTimeouts

-----------------------------------------------------------------------------
(* Lemmas about sequences of segments.                                     *)

LEMMA Least ==
    ASSUME NEW S \in SUBSET Nat, S # {}
    PROVE  \E n \in S : \A m \in S : n <= m
<1>1. IsWellFoundedOn(OpToRel(<, Nat), Nat)
  BY NatLessThanWellFounded
<1>2. PICK n \in S : \A m \in S : ~(<<m, n>> \in OpToRel(<, Nat))
  BY <1>1, WFMin
<1>3. \A m \in S : ~(m < n)
  BY <1>2 DEF OpToRel
<1> QED BY <1>3

\* Newline finds the first newline, if there is one.
LEMMA NewlineFacts ==
    ASSUME NEW s \in Seq(Segment)
    PROVE  /\ Newline(s) \in 0..Len(s)
           /\ Newline(s) # 0 => s[Newline(s)].last
           /\ \A k \in 1..Len(s) : s[k].last => Newline(s) # 0 /\ Newline(s) <= k
<1> DEFINE I == {i \in 1..Len(s) : s[i].last}
<1>1. Newline(s) = IF I # {} THEN Min(I) ELSE 0
  BY DEF Newline, SelectInSeq
<1>2. ASSUME I # {} PROVE Min(I) \in I /\ \A k \in I : Min(I) <= k
  <2>1. I \in SUBSET Nat
    OBVIOUS
  <2>2. \E n \in I : \A m \in I : n <= m
    BY <1>2, <2>1, Least
  <2> QED BY <2>2 DEF Min
<1>3. /\ I \subseteq 1..Len(s) /\ \A k \in I : s[k].last
      /\ \A k \in 1..Len(s) : s[k].last => k \in I
  OBVIOUS
<1>4. Len(s) \in Nat
  OBVIOUS
<1> HIDE DEF I
<1>5. CASE I = {}
  BY <1>1, <1>3, <1>4, <1>5
<1>6. CASE I # {}
  <2>1. Newline(s) \in I /\ \A k \in I : Newline(s) <= k
    BY <1>1, <1>2, <1>6
  <2>2. Newline(s) \in 1..Len(s) /\ s[Newline(s)].last
    BY <1>3, <2>1
  <2> QED BY <1>3, <1>4, <2>1, <2>2
<1> QED BY <1>5, <1>6

LEMMA CatFacts ==
    ASSUME NEW S, NEW s \in Seq(S), NEW t \in Seq(S)
    PROVE  /\ s \o t \in Seq(S) /\ Len(s) \in Nat /\ Len(t) \in Nat
           /\ Len(s \o t) = Len(s) + Len(t)
           /\ \A k \in 1..Len(s) : (s \o t)[k] = s[k]
           /\ \A k \in 1..Len(t) : (s \o t)[Len(s) + k] = t[k]
<1>1. /\ s \o t \in Seq(S) /\ Len(s \o t) = Len(s) + Len(t)
      /\ \A i \in 1..Len(s) + Len(t) : (s \o t)[i] = IF i <= Len(s) THEN s[i] ELSE t[i - Len(s)]
  BY ConcatProperties
<1>2. Len(s) \in Nat /\ Len(t) \in Nat
  BY LenProperties
<1>3. ASSUME NEW k \in 1..Len(s) PROVE (s \o t)[k] = s[k]
  <2>1. k \in 1..Len(s) + Len(t) /\ k <= Len(s)
    BY <1>2
  <2> QED BY <1>1, <2>1
<1>4. ASSUME NEW k \in 1..Len(t) PROVE (s \o t)[Len(s) + k] = t[k]
  <2>1. Len(s) + k \in 1..Len(s) + Len(t) /\ ~(Len(s) + k <= Len(s)) /\ (Len(s) + k) - Len(s) = k
    BY <1>2
  <2> QED BY <1>1, <2>1
<1> QED BY <1>1, <1>2, <1>3, <1>4

LEMMA SegmentEqual ==
    ASSUME NEW x \in Segment, NEW y \in Segment, x.id = y.id, x.last <=> y.last
    PROVE  x = y
<1>1. x = [id |-> x.id, last |-> x.last] /\ y = [id |-> y.id, last |-> y.last]
  BY DEF Segment
<1>2. x.last \in BOOLEAN /\ y.last \in BOOLEAN
  BY DEF Segment
<1>3. x.last = y.last
  BY <1>2
<1> QED BY <1>1, <1>3

LEMMA LineFacts ==
    ASSUME NEW id \in Ids
    PROVE  /\ Line(id) \in Seq(Segment) /\ Len(Line(id)) = 2
           /\ Line(id)[1].id = id /\ ~Line(id)[1].last
           /\ Line(id)[2].id = id /\ Line(id)[2].last
<1>1. [id |-> id, last |-> FALSE] \in Segment /\ [id |-> id, last |-> TRUE] \in Segment
  BY DEF Segment
<1> QED BY <1>1 DEF Line

\* u is s and one more line, of id.
Extends(u, s, id) ==
    /\ u \in Seq(Segment) /\ Len(u) = Len(s) + 2
    /\ \A k \in 1..Len(s) : u[k] = s[k]
    /\ u[Len(s) + 1].id = id /\ ~u[Len(s) + 1].last
    /\ u[Len(s) + 2].id = id /\ u[Len(s) + 2].last

LEMMA LineExtends ==
    ASSUME NEW s \in Seq(Segment), NEW id \in Ids
    PROVE  Extends(s \o Line(id), s, id)
<1>1. PICK l \in Seq(Segment) : /\ l = Line(id) /\ Len(l) = 2
                               /\ l[1].id = id /\ ~l[1].last /\ l[2].id = id /\ l[2].last
  BY LineFacts
<1>2. /\ s \o l \in Seq(Segment) /\ Len(s \o l) = Len(s) + Len(l)
      /\ \A k \in 1..Len(s) : (s \o l)[k] = s[k]
      /\ \A k \in 1..Len(l) : (s \o l)[Len(s) + k] = l[k]
  BY CatFacts
<1>3. (s \o l)[Len(s) + 1] = l[1] /\ (s \o l)[Len(s) + 2] = l[2]
  BY <1>1, <1>2
<1>4. Extends(s \o l, s, id)
  BY <1>1, <1>2, <1>3 DEF Extends
<1> QED BY <1>1, <1>4

LEMMA LineAscends ==
    ASSUME NEW s \in Seq(Segment), Ascends(s), NEW id \in Ids, \A k \in 1..Len(s) : s[k].id < id,
           NEW u, Extends(u, s, id)
    PROVE  Ascends(u)
<1>1. Len(s) \in Nat /\ Len(u) = Len(s) + 2
  BY DEF Extends
<1> SUFFICES ASSUME NEW j \in 1..Len(u), NEW k \in 1..Len(u), j < k
             PROVE  u[j].id <= u[k].id /\ (u[j].last => u[j].id < u[k].id)
  BY DEF Ascends
<1>2. id \in Nat
  BY DEF Ids
<1>3. CASE k <= Len(s)
  <2>1. u[k] = s[k] /\ u[j] = s[j] /\ j \in 1..Len(s) /\ k \in 1..Len(s)
    BY <1>1, <1>3 DEF Extends
  <2> QED BY <2>1 DEF Ascends
<1>4. CASE j <= Len(s) /\ k > Len(s)
  <2>1. u[j] = s[j] /\ j \in 1..Len(s)
    BY <1>1, <1>4 DEF Extends
  <2>2. k = Len(s) + 1 \/ k = Len(s) + 2
    BY <1>1, <1>4
  <2>3. u[k].id = id
    BY <2>2 DEF Extends
  <2>4. s[j] \in Segment
    BY <2>1
  <2>5. s[j].id < id /\ s[j].id \in Nat
    BY <2>1, <2>4 DEF Segment, Ids
  <2> QED BY <1>2, <2>1, <2>3, <2>5
<1>5. CASE j > Len(s)
  <2>1. j = Len(s) + 1 /\ k = Len(s) + 2
    BY <1>1, <1>5
  <2> QED BY <1>2, <2>1 DEF Extends
<1> QED BY <1>1, <1>3, <1>4, <1>5

LEMMA LineWhole ==
    ASSUME NEW s \in Seq(Segment), WholeLines(s), NEW id, NEW u, Extends(u, s, id)
    PROVE  WholeLines(u)
<1>1. Len(s) \in Nat /\ Len(u) = Len(s) + 2
  BY DEF Extends
<1> SUFFICES ASSUME NEW k \in 1..Len(u)
             PROVE  /\ u[k].last => k > 1 /\ ~u[k - 1].last /\ u[k - 1].id = u[k].id
                    /\ ~u[k].last => k < Len(u) /\ u[k + 1].last
  BY DEF WholeLines
<1>3. CASE k <= Len(s)
  <2>1. u[k] = s[k] /\ k \in 1..Len(s)
    BY <1>1, <1>3 DEF Extends
  <2>2. ASSUME s[k].last PROVE k > 1 /\ ~u[k - 1].last /\ u[k - 1].id = u[k].id
    <3>1. k > 1 /\ ~s[k - 1].last /\ s[k - 1].id = s[k].id
      BY <2>1, <2>2 DEF WholeLines
    <3>2. u[k - 1] = s[k - 1]
      BY <1>1, <2>1, <3>1 DEF Extends
    <3> QED BY <2>1, <3>1, <3>2
  <2>3. ASSUME ~s[k].last PROVE k < Len(u) /\ u[k + 1].last
    <3>1. k < Len(s) /\ s[k + 1].last
      BY <2>1, <2>3 DEF WholeLines
    <3>2. u[k + 1] = s[k + 1]
      BY <1>1, <2>1, <3>1 DEF Extends
    <3> QED BY <1>1, <3>1, <3>2
  <2> QED BY <2>1, <2>2, <2>3
<1>4. CASE k = Len(s) + 1
  <2>1. ~u[k].last /\ k < Len(u)
    BY <1>1, <1>4 DEF Extends
  <2>2. k + 1 = Len(s) + 2
    BY <1>1, <1>4
  <2>3. u[k + 1].last
    BY <2>2 DEF Extends
  <2> QED BY <2>1, <2>3
<1>5. CASE k = Len(s) + 2
  <2>1. k - 1 = Len(s) + 1 /\ k > 1
    BY <1>1, <1>5
  <2>2. u[k].last /\ ~u[k - 1].last /\ u[k - 1].id = u[k].id
    BY <1>5, <2>1 DEF Extends
  <2> QED BY <2>1, <2>2
<1> QED BY <1>1, <1>3, <1>4, <1>5

\* s is a part of w.
Within(s, w) ==
    \E d \in Nat : d + Len(s) <= Len(w) /\ \A k \in 1..Len(s) : s[k] = w[d + k]

LEMMA Parts ==
    ASSUME NEW s \in Seq(Segment), NEW t \in Seq(Segment)
    PROVE  Within(s, s \o t) /\ Within(t, s \o t)
<1>1. /\ Len(s) \in Nat /\ Len(t) \in Nat /\ Len(s \o t) = Len(s) + Len(t)
      /\ \A k \in 1..Len(s) : (s \o t)[k] = s[k]
      /\ \A k \in 1..Len(t) : (s \o t)[Len(s) + k] = t[k]
  BY CatFacts
<1>2. \A k \in 1..Len(s) : s[k] = (s \o t)[0 + k]
  BY <1>1
<1>3. 0 + Len(s) <= Len(s \o t) /\ Len(s) + Len(t) <= Len(s \o t)
  BY <1>1
<1> QED BY <1>1, <1>2, <1>3 DEF Within

LEMMA PartAscends ==
    ASSUME NEW s \in Seq(Segment), NEW w \in Seq(Segment), Within(s, w), Ascends(w)
    PROVE  /\ Ascends(s)
           /\ \A k \in 1..Len(s) : \E j \in 1..Len(w) : s[k] = w[j]
<1>1. PICK d \in Nat : d + Len(s) <= Len(w) /\ \A k \in 1..Len(s) : s[k] = w[d + k]
  BY DEF Within
<1>2. Len(s) \in Nat /\ Len(w) \in Nat
  OBVIOUS
<1>3. \A k \in 1..Len(s) : d + k \in 1..Len(w) /\ s[k] = w[d + k]
  BY <1>1, <1>2
<1>4. Ascends(s)
  <2> SUFFICES ASSUME NEW j \in 1..Len(s), NEW k \in 1..Len(s), j < k
               PROVE  s[j].id <= s[k].id /\ (s[j].last => s[j].id < s[k].id)
    BY DEF Ascends
  <2>1. d + j < d + k
    OBVIOUS
  <2> QED BY <1>3, <2>1 DEF Ascends
<1> QED BY <1>3, <1>4

\* Cutting a stream elsewhere does not change it.
LEMMA Split ==
    ASSUME NEW S, NEW s \in Seq(S), NEW n \in 0..Len(s)
    PROVE  /\ SubSeq(s, 1, n) \in Seq(S) /\ SubSeq(s, n + 1, Len(s)) \in Seq(S)
           /\ SubSeq(s, 1, n) \o SubSeq(s, n + 1, Len(s)) = s
<1>1. Len(s) \in Nat
  BY LenProperties
<1>2. SubSeq(s, 1, n) \in Seq(S)
  BY <1>1
<1>3. SubSeq(s, n + 1, Len(s)) \in Seq(S)
  BY <1>1
<1>4. 1 \in 1..Len(s) + 1 /\ n \in (1 - 1)..Len(s) /\ Len(s) \in n..Len(s)
  BY <1>1
<1>5. SubSeq(s, 1, n) \o SubSeq(s, n + 1, Len(s)) = SubSeq(s, 1, Len(s))
  BY <1>4, ConcatAdjacentSubSeq
<1>6. SubSeq(s, 1, Len(s)) = s
  BY SubSeqFull
<1> QED BY <1>2, <1>3, <1>5, <1>6

LEMMA Recut ==
    ASSUME NEW S, NEW s \in Seq(S), NEW t \in Seq(S), NEW n \in 0..Len(t)
    PROVE  (s \o SubSeq(t, 1, n)) \o SubSeq(t, n + 1, Len(t)) = s \o t
<1> DEFINE x == SubSeq(t, 1, n)
           y == SubSeq(t, n + 1, Len(t))
<1>1. x \in Seq(S) /\ y \in Seq(S) /\ x \o y = t
  BY Split
<1> HIDE DEF x, y
<1>0. x \in Seq(S) /\ y \in Seq(S)
  BY <1>1
<1>2. (s \o x) \o y = s \o (x \o y)
  BY SMTT(60), <1>0, ConcatAssociative
<1>3. (s \o x) \o y = s \o t
  BY <1>1, <1>2
<1> QED BY <1>3 DEF x, y

\* The first line of a stream of whole lines, wherever a read has cut it.
LEMMA FirstLine ==
    ASSUME NEW s \in Seq(Segment), NEW t \in Seq(Segment), WholeLines(s \o t), Newline(s) # 0
    PROVE  /\ Newline(s) = 2 /\ Len(s) >= 2 /\ s[2].id \in Ids
           /\ SubSeq(s, 1, 2) = Line(s[2].id)
           /\ SubSeq(s, 3, Len(s)) \in Seq(Segment)
           /\ s \o t = Line(s[2].id) \o (SubSeq(s, 3, Len(s)) \o t)
           /\ WholeLines(SubSeq(s, 3, Len(s)) \o t)
<1>0. /\ s \o t \in Seq(Segment) /\ Len(s) \in Nat /\ Len(t) \in Nat
      /\ Len(s \o t) = Len(s) + Len(t) /\ \A k \in 1..Len(s) : (s \o t)[k] = s[k]
  BY CatFacts
<1>1. PICK w \in Seq(Segment) :
        /\ w = s \o t /\ Len(w) = Len(s) + Len(t) /\ Len(s) \in Nat /\ Len(t) \in Nat
        /\ \A k \in 1..Len(s) : w[k] = s[k]
  BY <1>0
<1>2. WholeLines(w)
  BY <1>1
<1>3. Newline(s) \in 1..Len(s) /\ s[Newline(s)].last
  BY <1>1, NewlineFacts
<1>4. 1 \in 1..Len(s) /\ 1 \in 1..Len(w) /\ w[1] = s[1]
  BY <1>1, <1>3
<1>5. ~w[1].last
  BY <1>2, <1>4 DEF WholeLines
<1>6. Newline(s) # 1
  <2>1. ASSUME Newline(s) = 1 PROVE s[1].last
    BY <1>3, <2>1
  <2> QED BY <1>4, <1>5, <2>1
<1>7. Len(s) >= 2 /\ 2 \in 1..Len(s) /\ 2 \in 1..Len(w) /\ w[2] = s[2]
  BY <1>1, <1>3, <1>6
<1>8. w[2].last
  BY <1>2, <1>4, <1>5 DEF WholeLines
<1>9. w[1].id = w[2].id
  BY <1>2, <1>7, <1>8 DEF WholeLines
<1>10. Newline(s) = 2
  <2>1. s[2].last
    BY <1>7, <1>8
  <2>2. Newline(s) <= 2
    BY <1>7, <2>1, NewlineFacts
  <2> QED BY <1>1, <1>3, <1>6, <2>2
<1>11. s[1] \in Segment /\ s[2] \in Segment
  BY <1>4, <1>7
<1>12. s[2].id \in Ids
  BY <1>11 DEF Segment
<1>13. SubSeq(s, 1, 2) = Line(s[2].id)
  <2>1. PICK l \in Seq(Segment) : /\ l = Line(s[2].id) /\ Len(l) = 2
                                 /\ l[1].id = s[2].id /\ ~l[1].last
                                 /\ l[2].id = s[2].id /\ l[2].last
    BY <1>12, LineFacts
  <2>2. l[1] \in Segment /\ l[2] \in Segment
    BY <2>1
  <2>3. s[1] = l[1] /\ s[2] = l[2]
    BY <1>4, <1>5, <1>7, <1>8, <1>9, <1>11, <2>1, <2>2, SegmentEqual
  <2>4. /\ SubSeq(s, 1, 2) \in Seq(Segment) /\ Len(SubSeq(s, 1, 2)) = 2
        /\ SubSeq(s, 1, 2)[1] = s[1] /\ SubSeq(s, 1, 2)[2] = s[2]
    BY <1>1, <1>7
  <2>5. \A k \in 1..Len(SubSeq(s, 1, 2)) : SubSeq(s, 1, 2)[k] = l[k]
    <3>1. \A k \in 1..2 : k = 1 \/ k = 2
      OBVIOUS
    <3> QED BY <2>3, <2>4, <3>1
  <2> QED BY <2>1, <2>4, <2>5, SeqEqual
<1>14. PICK r \in Seq(Segment) : r = SubSeq(s, 3, Len(s)) /\ SubSeq(s, 1, 2) \o r = s
  <2>1. 2 \in 0..Len(s) /\ 2 + 1 = 3
    BY <1>1, <1>7
  <2>2. SubSeq(s, 2 + 1, Len(s)) \in Seq(Segment) /\ SubSeq(s, 1, 2) \o SubSeq(s, 2 + 1, Len(s)) = s
    BY <2>1, Split
  <2> QED BY <2>1, <2>2
<1>15. PICK l \in Seq(Segment) : l = Line(s[2].id) /\ Len(l) = 2
  BY <1>12, LineFacts
<1>16. PICK v \in Seq(Segment) : v = r \o t
  BY CatFacts
<1>17. w = l \o v
  <2>1. (l \o r) \o t = l \o (r \o t)
    BY SMTT(60), ConcatAssociative
  <2> QED BY <1>1, <1>13, <1>14, <1>15, <1>16, <2>1
<1>18. WholeLines(v)
  <2>1. /\ Len(v) \in Nat /\ Len(w) = 2 + Len(v)
        /\ \A k \in 1..Len(v) : w[2 + k] = v[k]
    <3>1. /\ Len(v) \in Nat /\ Len(l \o v) = Len(l) + Len(v)
          /\ \A k \in 1..Len(v) : (l \o v)[Len(l) + k] = v[k]
      BY CatFacts
    <3> QED BY <1>15, <1>17, <3>1
  <2> SUFFICES ASSUME NEW k \in 1..Len(v)
               PROVE  /\ v[k].last => k > 1 /\ ~v[k - 1].last /\ v[k - 1].id = v[k].id
                      /\ ~v[k].last => k < Len(v) /\ v[k + 1].last
    BY DEF WholeLines
  <2>2. 2 + k \in 1..Len(w) /\ w[2 + k] = v[k]
    BY <2>1
  <2>3. ASSUME v[k].last PROVE k > 1 /\ ~v[k - 1].last /\ v[k - 1].id = v[k].id
    <3>1. ~w[(2 + k) - 1].last /\ w[(2 + k) - 1].id = w[2 + k].id
      BY <1>2, <2>2, <2>3 DEF WholeLines
    <3>2. k # 1
      <4>1. ASSUME k = 1 PROVE (2 + k) - 1 = 2
        BY <4>1
      <4> QED BY <1>8, <3>1, <4>1
    <3>3. k - 1 \in 1..Len(v) /\ 2 + (k - 1) = (2 + k) - 1
      BY <2>1, <3>2
    <3>4. v[k - 1] = w[(2 + k) - 1]
      BY <2>1, <3>3
    <3> QED BY <2>2, <3>1, <3>3, <3>4
  <2>4. ASSUME ~v[k].last PROVE k < Len(v) /\ v[k + 1].last
    <3>1. 2 + k < Len(w) /\ w[(2 + k) + 1].last
      BY <1>2, <2>2, <2>4 DEF WholeLines
    <3>2. k < Len(v) /\ k + 1 \in 1..Len(v) /\ 2 + (k + 1) = (2 + k) + 1
      BY <2>1, <3>1
    <3>3. v[k + 1] = w[(2 + k) + 1]
      BY <2>1, <3>2
    <3> QED BY <3>1, <3>2, <3>3
  <2> QED BY <2>3, <2>4
<1> QED BY <1>1, <1>7, <1>10, <1>12, <1>13, <1>14, <1>15, <1>16, <1>17, <1>18

-----------------------------------------------------------------------------
(* What keeps the invariant.                                               *)

LEMMA FiveTyped ==
    ASSUME NEW S, NEW a \in Seq(S), NEW b \in Seq(S), NEW c \in Seq(S), NEW d \in Seq(S),
           NEW e \in Seq(S)
    PROVE  /\ a \o b \in Seq(S) /\ a \o b \o c \in Seq(S) /\ d \o e \in Seq(S)
           /\ (a \o b \o c) \o (d \o e) \in Seq(S)
<1>1. a \o b \in Seq(S) /\ d \o e \in Seq(S)
  BY CatFacts
<1>2. a \o b \o c \in Seq(S)
  BY <1>1, CatFacts
<1>3. (a \o b \o c) \o (d \o e) \in Seq(S)
  BY <1>1, <1>2, CatFacts
<1> QED BY <1>1, <1>2, <1>3

LEMMA WayTyped ==
    ASSUME TypeOK
    PROVE  /\ buf \in Seq(Segment) /\ inbox \in Seq(Segment) /\ s2c \in Seq(Segment)
           /\ sbuf \in Seq(Segment) /\ c2s \in Seq(Segment)
           /\ Calls \in Seq(Segment) /\ Replies \in Seq(Segment) /\ Way \in Seq(Segment)
           /\ buf \o inbox \in Seq(Segment)
<1>1. /\ buf \in Seq(Segment) /\ inbox \in Seq(Segment) /\ s2c \in Seq(Segment)
      /\ sbuf \in Seq(Segment) /\ c2s \in Seq(Segment)
  BY DEF TypeOK
<1> QED BY <1>1, FiveTyped DEF Calls, Replies, Way

LEMMA WayTypedNext == ASSUME TypeOK' PROVE Way' \in Seq(Segment)
<1>1. /\ buf' \in Seq(Segment) /\ inbox' \in Seq(Segment) /\ s2c' \in Seq(Segment)
      /\ sbuf' \in Seq(Segment) /\ c2s' \in Seq(Segment)
  BY DEF TypeOK
<1> QED BY <1>1, FiveTyped DEF Calls, Replies, Way

LEMMA GivenUpFinite ==
    ASSUME TypeOK
    PROVE  IsFiniteSet(GivenUp) /\ Cardinality(GivenUp) \in Nat
<1>1. Len(results) \in Nat
  BY DEF TypeOK
<1>2. IsFiniteSet(1..Len(results)) /\ GivenUp \in SUBSET (1..Len(results))
  BY <1>1, FS_Interval DEF GivenUp
<1>3. IsFiniteSet(GivenUp)
  BY <1>2, FS_Subset
<1> QED BY <1>3, FS_CardinalityType

\* The way gets shorter, or stays, while nothing is asked or returned.
LEMMA WayKept ==
    ASSUME IInv, TypeOK', Within(Way', Way), UNCHANGED <<conn, nextId, asked, results>>
    PROVE  WayInv' /\ RepliesInOrder' /\ LagBoundedByTimeouts'
<1>1. Way \in Seq(Segment) /\ Way' \in Seq(Segment) /\ WayInv
  BY WayTyped, WayTypedNext DEF IInv
<1>2. Ascends(Way') /\ \A k \in 1..Len(Way') : \E j \in 1..Len(Way) : Way'[k] = Way[j]
  BY <1>1, PartAscends DEF WayInv
<1>3. GivenUp' = GivenUp
  BY DEF GivenUp
<1>4. WayInv'
  <2>1. (Ascends(Way))'
    BY <1>2 DEF Ascends
  <2>2. ASSUME NEW k \in 1..Len(Way')
        PROVE  /\ Way'[k].id < nextId'
               /\ (IF asked' = 0 THEN nextId' ELSE asked') <= Way'[k].id + Cardinality(GivenUp')
               /\ \A i \in 1..Len(results') :
                      /\ results'[i].got < Way'[k].id
                      /\ results'[i].conn < conn' => results'[i].asked < Way'[k].id
    BY <1>1, <1>2, <1>3 DEF WayInv
  <2> QED BY <2>1, <2>2 DEF WayInv
<1>5. RepliesInOrder'
  BY DEF IInv, RepliesInOrder
<1>6. LagBoundedByTimeouts'
  BY DEF IInv, LagBoundedByTimeouts, GaveUp
<1> QED BY <1>4, <1>5, <1>6

\* request() returns: what is left of the way is younger than what it returned.
LEMMA ReturnKeeps ==
    ASSUME IInv, TypeOK', asked # 0, NEW got \in Ids \cup {0}, Return(got),
           UNCHANGED <<up, conn, nextId>>, Within(Way', Way),
           got # 0 => /\ 1 \in 1..Len(Way) /\ got = Way[1].id
                      /\ \A k \in 1..Len(Way') : got < Way'[k].id
    PROVE  WayInv' /\ TurnInv' /\ RepliesInOrder' /\ LagBoundedByTimeouts'
<1>1. /\ Way \in Seq(Segment) /\ Way' \in Seq(Segment) /\ WayInv /\ TurnInv
      /\ RepliesInOrder /\ LagBoundedByTimeouts
  BY WayTyped, WayTypedNext DEF IInv
<1>2. /\ Ascends(Way') /\ \A k \in 1..Len(Way') : \E j \in 1..Len(Way) : Way'[k] = Way[j]
  BY <1>1, PartAscends DEF WayInv
<1>3. /\ nextId \in Nat /\ asked \in Nat /\ asked + 1 = nextId /\ conn \in Nat
      /\ results \in Seq(Result) /\ Len(results) \in Nat
  BY <1>1 DEF IInv, TypeOK, TurnInv, Ids
<1>4. PICK new : new = [conn |-> conn, asked |-> asked, got |-> got]
  OBVIOUS
<1>5. new.conn = conn /\ new.asked = asked /\ new.got = got
  BY <1>4
<1>6. results' = Append(results, new) /\ asked' = 0 /\ buf' = <<>>
  BY <1>4 DEF Return
<1>7. /\ Len(results') = Len(results) + 1 /\ results'[Len(results) + 1] = new
      /\ \A i \in 1..Len(results) : results'[i] = results[i]
  BY <1>3, <1>6
<1>8. \A i \in 1..Len(results') : i \in 1..Len(results) \/ i = Len(results) + 1
  BY <1>3, <1>7
<1>9. got \in Nat /\ (got # 0 => got < nextId /\ asked <= got + Cardinality(GivenUp))
  BY <1>1, <1>3 DEF WayInv, Ids
<1>10. IsFiniteSet(GivenUp) /\ Cardinality(GivenUp) \in Nat
  BY GivenUpFinite DEF IInv
<1>11. /\ got # 0 => GivenUp' = GivenUp
       /\ got = 0 => GivenUp' = GivenUp \cup {Len(results) + 1}
  <2>1. \A i \in 1..Len(results') : i \in GivenUp' <=> results'[i].got = 0 /\ results'[i].conn = conn
    BY DEF GivenUp
  <2>2. \A i \in 1..Len(results) : i \in GivenUp <=> results[i].got = 0 /\ results[i].conn = conn
    BY DEF GivenUp
  <2>3. GivenUp' \subseteq 1..Len(results') /\ GivenUp \subseteq 1..Len(results)
    BY DEF GivenUp
  <2>4. 1..Len(results) \subseteq 1..Len(results') /\ Len(results) + 1 \in 1..Len(results')
    BY <1>3, <1>7
  <2>5. \A i \in 1..Len(results) : i \in GivenUp' <=> i \in GivenUp
    BY <1>7, <2>1, <2>2, <2>4
  <2>6. Len(results) + 1 \in GivenUp' <=> got = 0
    BY <1>5, <1>7, <2>1, <2>4
  <2>7. \A i \in GivenUp' : i \in 1..Len(results) \/ i = Len(results) + 1
    BY <1>8, <2>3
  <2>8. Len(results) + 1 \notin GivenUp
    BY <1>3, <2>3
  <2> HIDE DEF GivenUp
  <2>9. ASSUME got # 0 PROVE GivenUp' = GivenUp
    <3>1. \A i : i \in GivenUp' <=> i \in GivenUp
      BY <2>3, <2>5, <2>6, <2>7, <2>8, <2>9
    <3> QED BY <3>1
  <2>10. ASSUME got = 0 PROVE GivenUp' = GivenUp \cup {Len(results) + 1}
    <3>1. \A i : i \in GivenUp' <=> i \in GivenUp \cup {Len(results) + 1}
      BY <2>3, <2>5, <2>6, <2>7, <2>10
    <3> QED BY <3>1
  <2> QED BY <2>9, <2>10
<1>12. /\ Cardinality(GivenUp') \in Nat
       /\ got # 0 => Cardinality(GivenUp') = Cardinality(GivenUp)
       /\ got = 0 => Cardinality(GivenUp') = Cardinality(GivenUp) + 1
  <2>1. Len(results) + 1 \notin GivenUp
    BY <1>3 DEF GivenUp
  <2>2. Cardinality(GivenUp \cup {Len(results) + 1}) = Cardinality(GivenUp) + 1
    BY <1>10, <2>1, FS_AddElement
  <2>3. CASE got = 0
    <3>1. GivenUp' = GivenUp \cup {Len(results) + 1}
      BY <1>11, <2>3
    <3>2. Cardinality(GivenUp') = Cardinality(GivenUp) + 1
      BY <2>2, <3>1
    <3> QED BY <1>10, <2>3, <3>2
  <2>4. CASE got # 0
    <3>1. GivenUp' = GivenUp
      BY <1>11, <2>4
    <3>2. Cardinality(GivenUp') = Cardinality(GivenUp)
      BY <3>1
    <3> QED BY <1>10, <2>4, <3>2
  <2> QED BY <2>3, <2>4
<1>13. WayInv'
  <2>1. (Ascends(Way))'
    BY <1>2 DEF Ascends
  <2>2. ASSUME NEW k \in 1..Len(Way')
        PROVE  /\ Way'[k].id < nextId'
               /\ (IF asked' = 0 THEN nextId' ELSE asked') <= Way'[k].id + Cardinality(GivenUp')
               /\ \A i \in 1..Len(results') :
                      /\ results'[i].got < Way'[k].id
                      /\ results'[i].conn < conn' => results'[i].asked < Way'[k].id
    <3>1. PICK j \in 1..Len(Way) : Way'[k] = Way[j]
      BY <1>2
    <3>2. Way[j] \in Segment
      BY <1>1
    <3>3. Way'[k].id \in Nat /\ Way'[k].id > 0
      BY <3>1, <3>2 DEF Segment, Ids
    <3>4. Way'[k].id < nextId /\ asked <= Way'[k].id + Cardinality(GivenUp)
      BY <1>1, <1>3, <3>1 DEF WayInv
    <3>5. nextId <= Way'[k].id + Cardinality(GivenUp')
      <4>1. CASE got = 0
        BY <1>3, <1>10, <1>12, <3>3, <3>4, <4>1
      <4>2. CASE got # 0
        <5>1. got < Way'[k].id /\ asked <= got + Cardinality(GivenUp)
          BY <1>9, <2>2, <4>2
        <5> QED BY <1>3, <1>9, <1>10, <1>12, <3>3, <4>2, <5>1
      <4> QED BY <4>1, <4>2
    <3>6. ASSUME NEW i \in 1..Len(results')
          PROVE  /\ results'[i].got < Way'[k].id
                 /\ results'[i].conn < conn => results'[i].asked < Way'[k].id
      <4>1. CASE i \in 1..Len(results)
        BY <1>1, <1>7, <3>1, <4>1 DEF WayInv
      <4>2. CASE i = Len(results) + 1
        <5>1. got < Way'[k].id
          BY <1>9, <2>2, <3>3
        <5> QED BY <1>3, <1>5, <1>7, <4>2, <5>1
      <4> QED BY <1>8, <4>1, <4>2
    <3> QED BY <1>6, <3>4, <3>5, <3>6
  <2> QED BY <2>1, <2>2 DEF WayInv
<1>14. TurnInv'
  <2>1. ASSUME NEW i \in 1..Len(results')
        PROVE  results'[i].asked < nextId /\ results'[i].got < nextId /\ results'[i].conn <= conn
    <3>1. CASE i \in 1..Len(results)
      BY <1>1, <1>7, <3>1 DEF TurnInv
    <3>2. CASE i = Len(results) + 1
      BY <1>3, <1>5, <1>7, <1>9, <3>2
    <3> QED BY <1>8, <3>1, <3>2
  <2>2. up' \/ asked' # 0 => conn > 0
    BY <1>1, <1>6 DEF TurnInv
  <2> QED BY <1>6, <2>1, <2>2 DEF TurnInv
<1>15. RepliesInOrder'
  <2> SUFFICES ASSUME NEW i \in 1..Len(results'), NEW j \in 1..Len(results'), i < j,
                      results'[i].got # 0, results'[j].got # 0
               PROVE  /\ results'[i].got < results'[j].got
                      /\ results'[i].conn < results'[j].conn => results'[i].asked < results'[j].got
    BY DEF RepliesInOrder
  <2>1. CASE j \in 1..Len(results)
    <3>1. i \in 1..Len(results)
      BY <1>3, <2>1
    <3> QED BY <1>1, <1>7, <2>1, <3>1 DEF RepliesInOrder
  <2>2. CASE j = Len(results) + 1
    <3>1. i \in 1..Len(results)
      BY <1>8, <2>2
    <3>2. got # 0 /\ results'[j].got = Way[1].id /\ 1 \in 1..Len(Way) /\ results'[j].conn = conn
      BY <1>5, <1>7, <2>2
    <3> QED BY <1>1, <1>7, <3>1, <3>2 DEF WayInv
  <2> QED BY <1>8, <2>1, <2>2
<1>16. LagBoundedByTimeouts'
  <2> SUFFICES ASSUME NEW i \in 1..Len(results'), results'[i].got # 0
               PROVE  /\ results'[i].got <= results'[i].asked
                      /\ results'[i].asked - results'[i].got <= Cardinality(GaveUp(i)')
    BY DEF LagBoundedByTimeouts, GaveUp
  <2>0. \A k \in 1..(i - 1) : k \in 1..Len(results) /\ results'[k] = results[k]
    BY <1>3, <1>7
  <2>1. CASE i \in 1..Len(results)
    <3>1. GaveUp(i)' = GaveUp(i)
      BY <1>7, <2>0, <2>1 DEF GaveUp
    <3> QED BY <1>1, <1>7, <2>1, <3>1 DEF LagBoundedByTimeouts
  <2>2. CASE i = Len(results) + 1
    <3>1. i - 1 = Len(results) /\ results'[i].conn = conn /\ results'[i].got = got
          /\ results'[i].asked = asked /\ got # 0
      BY <1>3, <1>5, <1>7, <2>2
    <3>2. GaveUp(i)' = GivenUp
      BY <2>0, <3>1 DEF GaveUp, GivenUp
    <3> QED BY <1>3, <1>9, <1>10, <3>1, <3>2
  <2> QED BY <1>8, <2>1, <2>2
<1> QED BY <1>13, <1>14, <1>15, <1>16
\* What RequestChannel takes a line for.
LEMMA ParseFacts ==
    /\ \A line : Parse(line) \in Ids \cup {0}
    /\ \A id \in Ids : Parse(Line(id)) = id
    /\ \A line : Parse(line) # 0 => \E id \in Ids : line = Line(id) /\ Parse(line) = id
<1>1. ASSUME NEW line, NEW id \in Ids, line = Line(id) PROVE Parse(line) = id
  <2>1. Parse(line) = line[1].id
    BY <1>1 DEF Parse
  <2>2. line[1].id = id
    BY <1>1, LineFacts
  <2> QED BY <2>1, <2>2
<1>2. ASSUME NEW line, ~\E id \in Ids : line = Line(id) PROVE Parse(line) = 0
  BY <1>2 DEF Parse
<1> QED BY <1>1, <1>2

LEMMA EmptyFacts ==
    ASSUME NEW S, NEW s \in Seq(S)
    PROVE  <<>> \o s = s /\ s \o <<>> = s
BY ConcatEmptySeq

\* A call is on the way too.
LEMMA CallOnWay ==
    ASSUME IInv
    PROVE  /\ Ascends(Calls)
           /\ \A k \in 1..Len(Calls) :
                  \E j \in 1..Len(Way) : Calls[k] = Way[j]
<1>1. /\ Calls \in Seq(Segment) /\ Replies \in Seq(Segment) /\ Way \in Seq(Segment) /\ Ascends(Way)
  BY WayTyped DEF IInv, WayInv
<1>2. Within(Calls, Replies \o Calls)
  BY <1>1, Parts
<1>3. Within(Calls, Way)
  BY <1>2 DEF Way
<1> QED BY <1>1, <1>3, PartAscends

LEMMA Itself ==
    ASSUME NEW s \in Seq(Segment)
    PROVE  Within(s, s)
<1>1. Len(s) \in Nat
  OBVIOUS
<1>2. 0 \in Nat /\ 0 + Len(s) <= Len(s) /\ \A k \in 1..Len(s) : s[k] = s[0 + k]
  BY <1>1
<1> QED BY <1>2 DEF Within

\* Neither the requests nor the lines taken out change.
LEMMA CallsKept ==
    ASSUME IInv, Calls' = Calls, UNCHANGED <<handled, nextId>>
    PROVE  CallsInv' /\ ServerSeesWholeLines'
<1>1. CallsInv /\ ServerSeesWholeLines
  BY DEF IInv
<1>2. (WholeLines(Calls))'
  BY <1>1 DEF CallsInv, WholeLines
<1>3. CallsInv'
  BY <1>1, <1>2 DEF CallsInv
<1> QED BY <1>1, <1>3 DEF ServerSeesWholeLines

LEMMA TurnKept ==
    ASSUME IInv, UNCHANGED <<conn, nextId, results>>, asked' = asked, asked = 0 => buf' = buf,
           up' => up
    PROVE  TurnInv'
<1>1. TurnInv
  BY DEF IInv
<1> QED BY <1>1 DEF TurnInv

LEMMA Assoc == \A a, b, c \in Seq(Segment) : a \o (b \o c) = (a \o b) \o c
BY SMTT(60), ConcatAssociative

\* Bytes that move from one buffer to the next leave the stream as it is.
LEMMA ReadOn ==
    ASSUME NEW a \in Seq(Segment), NEW b \in Seq(Segment), NEW c \in Seq(Segment),
           NEW n \in 0..Len(c)
    PROVE  /\ (a \o (b \o SubSeq(c, 1, n))) \o SubSeq(c, n + 1, Len(c)) = (a \o b) \o c
           /\ ((a \o b) \o SubSeq(c, 1, n)) \o SubSeq(c, n + 1, Len(c)) = (a \o b) \o c
<1>1. PICK x \in Seq(Segment) : x = SubSeq(c, 1, n)
  BY Split
<1>2. a \o (b \o x) = (a \o b) \o x
  BY Assoc
<1>3. a \o b \in Seq(Segment)
  BY CatFacts
<1>4. ((a \o b) \o SubSeq(c, 1, n)) \o SubSeq(c, n + 1, Len(c)) = (a \o b) \o c
  BY <1>3, Recut
<1>5. (a \o (b \o x)) \o SubSeq(c, n + 1, Len(c)) = ((a \o b) \o x) \o SubSeq(c, n + 1, Len(c))
  BY <1>2
<1> QED BY <1>1, <1>4, <1>5

-----------------------------------------------------------------------------
(* The steps.                                                              *)

LEMMA ConnectStep == ASSUME IInv, Connect PROVE IInv'
<1> USE DEF Connect
<1>1. TypeOK /\ TurnInv /\ ServerSeesWholeLines /\ RepliesInOrder /\ LagBoundedByTimeouts
  BY DEF IInv
<1>2. buf = <<>> /\ conn \in Nat /\ MaxConns \in Nat
  BY <1>1, ChannelAssumption DEF TypeOK, TurnInv
<1>3. TypeOK'
  <2>1. <<>> \in Seq(Segment)
    OBVIOUS
  <2>2. conn' \in 0..MaxConns /\ up' \in BOOLEAN
    BY <1>1, <1>2, ChannelAssumption DEF TypeOK
  <2>3. {buf', inbox', c2s', s2c', sbuf'} \subseteq Seq(Segment)
    BY <1>2, <2>1
  <2> QED BY <1>1, <2>2, <2>3 DEF TypeOK
<1>4. Calls' = <<>> /\ Way' = <<>>
  <2>1. <<>> \in Seq(Segment) /\ <<>> \o <<>> = <<>>
    BY EmptyFacts
  <2> QED BY <1>2, <2>1 DEF Calls, Way, Replies
<1>5. CallsInv'
  <2>1. (WholeLines(Calls))'
    BY <1>4 DEF WholeLines
  <2> QED BY <1>4, <2>1 DEF CallsInv
<1>6. WayInv'
  <2>1. (Ascends(Way))'
    BY <1>4 DEF Ascends
  <2> QED BY <1>4, <2>1 DEF WayInv
<1>7. TurnInv'
  <2>1. \A i \in 1..Len(results) : results[i].conn \in Nat
    <3>1. \A i \in 1..Len(results) : results[i] \in Result
      BY <1>1 DEF TypeOK
    <3> QED BY <1>2, <3>1, ChannelAssumption DEF Result
  <2>2. \A i \in 1..Len(results) :
           results[i].asked < nextId /\ results[i].got < nextId /\ results[i].conn <= conn + 1
    BY <1>1, <1>2, <2>1 DEF TurnInv
  <2> QED BY <1>2, <2>2 DEF TurnInv
<1>8. ServerSeesWholeLines' /\ RepliesInOrder' /\ LagBoundedByTimeouts'
  BY <1>1 DEF ServerSeesWholeLines, RepliesInOrder, LagBoundedByTimeouts, GaveUp
<1> QED BY <1>3, <1>5, <1>6, <1>7, <1>8 DEF IInv

LEMMA AskStep == ASSUME IInv, Ask PROVE IInv'
<1>1. /\ TypeOK /\ TurnInv /\ CallsInv /\ WayInv /\ ServerSeesWholeLines /\ RepliesInOrder
      /\ LagBoundedByTimeouts
  BY DEF IInv
<1>2. /\ nextId \in Ids /\ nextId \in Nat /\ nextId' = nextId + 1 /\ asked' = nextId /\ asked = 0
      /\ buf = <<>> /\ buf' = buf /\ handled' = handled /\ results' = results /\ conn' = conn
      /\ up' = up /\ inbox' = inbox /\ s2c' = s2c /\ sbuf' = sbuf
      /\ c2s' = c2s \o Line(nextId) /\ bounded' \in BOOLEAN
  BY <1>1 DEF Ask, TurnInv, Ids, WaitOn
<1>3. /\ sbuf \in Seq(Segment) /\ c2s \in Seq(Segment) /\ Calls \in Seq(Segment)
      /\ Replies \in Seq(Segment) /\ Way \in Seq(Segment)
  BY <1>1, WayTyped
<1>4. PICK l \in Seq(Segment) : l = Line(nextId)
  BY <1>2, LineFacts
<1>5. c2s' = c2s \o l /\ c2s' \in Seq(Segment)
  BY <1>2, <1>3, <1>4, CatFacts
<1>6. TypeOK'
  <2>1. nextId' \in 1..(MaxRequests + 1) /\ asked' \in Ids \cup {0}
    BY <1>2, ChannelAssumption DEF Ids
  <2>2. {buf', inbox', c2s', s2c', sbuf'} \subseteq Seq(Segment)
    BY <1>1, <1>2, <1>5 DEF TypeOK
  <2> QED BY <1>1, <1>2, <2>1, <2>2 DEF TypeOK
<1>7. Calls' = Calls \o l /\ Way' = Way \o l
  <2>1. Calls' = sbuf \o (c2s \o l) /\ Replies' = Replies
    BY <1>2, <1>5 DEF Calls, Replies
  <2>2. sbuf \o (c2s \o l) = (sbuf \o c2s) \o l
    BY SMTT(60), <1>3, Assoc
  <2>3. Calls' = Calls \o l
    BY <2>1, <2>2 DEF Calls
  <2>4. Replies \o (Calls \o l) = (Replies \o Calls) \o l
    BY SMTT(60), <1>3, Assoc
  <2> QED BY <2>1, <2>3, <2>4 DEF Way
<1>8. Extends(Calls', Calls, nextId) /\ Extends(Way', Way, nextId)
  <2>1. Extends(Calls \o Line(nextId), Calls, nextId) /\ Extends(Way \o Line(nextId), Way, nextId)
    BY <1>2, <1>3, LineExtends
  <2> QED BY <1>4, <1>7, <2>1
<1>9. CallsInv'
  <2>1. WholeLines(Calls')
    BY <1>1, <1>3, <1>8, LineWhole DEF CallsInv
  <2>2. (WholeLines(Calls))'
    BY <2>1 DEF WholeLines
  <2>3. ASSUME NEW i \in 1..Len(handled), NEW k \in 1..Len(Calls') PROVE handled[i] < Calls'[k].id
    <3>1. Len(Calls) \in Nat /\ Len(Calls') = Len(Calls) + 2
      BY <1>3, <1>8 DEF Extends
    <3>2. CASE k <= Len(Calls)
      <4>1. k \in 1..Len(Calls) /\ Calls'[k] = Calls[k]
        BY <1>8, <3>1, <3>2 DEF Extends
      <4> QED BY <1>1, <4>1 DEF CallsInv
    <3>3. CASE k > Len(Calls)
      <4>1. k = Len(Calls) + 1 \/ k = Len(Calls) + 2
        BY <3>1, <3>3
      <4>2. Calls'[k].id = nextId
        BY <1>8, <4>1 DEF Extends
      <4> QED BY <1>1, <4>2 DEF ServerSeesWholeLines
    <3> QED BY <3>1, <3>2, <3>3
  <2> QED BY <1>2, <2>2, <2>3 DEF CallsInv
<1>10. WayInv'
  <2>0. /\ Len(Way) \in Nat /\ Len(Way') = Len(Way) + 2
        /\ Cardinality(GivenUp) \in Nat /\ GivenUp' = GivenUp
    BY <1>1, <1>2, <1>3, <1>8, GivenUpFinite DEF Extends, GivenUp
  <2>1. Ascends(Way')
    <3>1. Ascends(Way) /\ \A k \in 1..Len(Way) : Way[k].id < nextId
      BY <1>1 DEF WayInv
    <3> QED BY <1>2, <1>3, <1>8, <3>1, LineAscends
  <2>2. (Ascends(Way))'
    BY <2>1 DEF Ascends
  <2>3. ASSUME NEW k \in 1..Len(Way')
        PROVE  /\ Way'[k].id < nextId'
               /\ (IF asked' = 0 THEN nextId' ELSE asked') <= Way'[k].id + Cardinality(GivenUp')
               /\ \A i \in 1..Len(results') :
                      /\ results'[i].got < Way'[k].id
                      /\ results'[i].conn < conn' => results'[i].asked < Way'[k].id
    <3>0. nextId # 0
      BY <1>2 DEF Ids
    <3>1. CASE k <= Len(Way)
      <4>1. k \in 1..Len(Way) /\ Way'[k] = Way[k]
        BY <1>8, <2>0, <3>1 DEF Extends
      <4>2. Way[k] \in Segment
        BY <1>3, <4>1
      <4>3. Way[k].id \in Nat
        BY <4>2 DEF Segment, Ids
      <4>4. Way[k].id < nextId /\ nextId <= Way[k].id + Cardinality(GivenUp)
        BY <1>1, <1>2, <4>1 DEF WayInv
      <4>5. \A i \in 1..Len(results) :
              results[i].got < Way[k].id /\ (results[i].conn < conn => results[i].asked < Way[k].id)
        BY <1>1, <4>1 DEF WayInv
      <4> QED BY <1>2, <2>0, <3>0, <4>1, <4>3, <4>4, <4>5
    <3>2. CASE k > Len(Way)
      <4>1. k = Len(Way) + 1 \/ k = Len(Way) + 2
        BY <2>0, <3>2
      <4>2. Way'[k].id = nextId
        BY <1>8, <4>1 DEF Extends
      <4>3. \A i \in 1..Len(results) : results[i].got < nextId /\ results[i].asked < nextId
        BY <1>1 DEF TurnInv
      <4> QED BY <1>2, <2>0, <3>0, <4>2, <4>3
    <3> QED BY <2>0, <3>1, <3>2
  <2> QED BY <2>2, <2>3 DEF WayInv
<1>11. TurnInv'
  <2>1. \A i \in 1..Len(results) : results[i].asked \in Nat /\ results[i].got \in Nat
    <3>1. \A i \in 1..Len(results) : results[i] \in Result
      BY <1>1 DEF TypeOK
    <3> QED BY <3>1 DEF Result, Ids
  <2>2. \A i \in 1..Len(results) :
           results[i].asked < nextId + 1 /\ results[i].got < nextId + 1 /\ results[i].conn <= conn
    BY <1>1, <1>2, <2>1 DEF TurnInv
  <2>3. conn > 0 /\ asked' # 0
    BY <1>1, <1>2 DEF Ask, TurnInv, Ids
  <2> QED BY <1>2, <2>2, <2>3 DEF TurnInv
<1>12. ServerSeesWholeLines'
  <2>1. \A i \in 1..Len(handled) : handled[i] \in Nat
    BY <1>1 DEF TypeOK, Ids
  <2>2. \A i \in 1..Len(handled) : handled[i] # 0 /\ handled[i] < nextId + 1
    BY <1>1, <1>2, <2>1 DEF ServerSeesWholeLines
  <2> QED BY <1>1, <1>2, <2>2 DEF ServerSeesWholeLines
<1>13. RepliesInOrder' /\ LagBoundedByTimeouts'
  BY <1>1, <1>2 DEF RepliesInOrder, LagBoundedByTimeouts, GaveUp
<1> QED BY <1>6, <1>9, <1>10, <1>11, <1>12, <1>13 DEF IInv

LEMMA ArriveStep == ASSUME IInv, Arrive PROVE IInv'
<1>1. TypeOK
  BY DEF IInv
<1>2. PICK n \in 1..Len(s2c) :
        /\ up /\ asked = 0
        /\ inbox' = inbox \o SubSeq(s2c, 1, n)
        /\ s2c' = SubSeq(s2c, n + 1, Len(s2c))
        /\ UNCHANGED <<up, conn, nextId, asked, bounded, buf, c2s, sbuf, handled, results>>
  BY DEF Arrive
<1>3. /\ buf \in Seq(Segment) /\ inbox \in Seq(Segment) /\ s2c \in Seq(Segment) /\ n \in 0..Len(s2c)
      /\ Way \in Seq(Segment)
  BY <1>1, WayTyped
<1>4. inbox' \in Seq(Segment) /\ s2c' \in Seq(Segment)
  <2>1. SubSeq(s2c, 1, n) \in Seq(Segment) /\ SubSeq(s2c, n + 1, Len(s2c)) \in Seq(Segment)
    BY <1>3, Split
  <2> QED BY <1>2, <1>3, <2>1, CatFacts
<1>5. TypeOK'
  <2>1. {buf', inbox', c2s', s2c', sbuf'} \subseteq Seq(Segment)
    BY <1>1, <1>2, <1>4 DEF TypeOK
  <2> QED BY <1>1, <1>2, <2>1 DEF TypeOK
<1>6. Calls' = Calls /\ Way' = Way
  <2>1. Replies' = (buf \o (inbox \o SubSeq(s2c, 1, n))) \o SubSeq(s2c, n + 1, Len(s2c))
    <3>1. Replies' = buf' \o inbox' \o s2c'
      BY DEF Replies
    <3>2. buf' = buf
      BY <1>2
    <3> QED BY <1>2, <3>1, <3>2
  <2>2. (buf \o (inbox \o SubSeq(s2c, 1, n))) \o SubSeq(s2c, n + 1, Len(s2c)) = (buf \o inbox) \o s2c
    BY <1>3, ReadOn, ZenonT(60)
  <2>4. Replies' = Replies
    BY <2>1, <2>2 DEF Replies
  <2>3. Calls' = Calls
    BY <1>2 DEF Calls
  <2> QED BY <2>3, <2>4 DEF Way
<1>7. CallsInv' /\ ServerSeesWholeLines'
  BY <1>2, <1>6, CallsKept
<1>8. WayInv' /\ RepliesInOrder' /\ LagBoundedByTimeouts'
  BY <1>2, <1>3, <1>5, <1>6, Itself, WayKept
<1>9. TurnInv'
  BY <1>2, TurnKept
<1> QED BY <1>5, <1>7, <1>8, <1>9 DEF IInv

LEMMA ServerReadStep == ASSUME IInv, ServerRead PROVE IInv'
<1>1. TypeOK
  BY DEF IInv
<1>2. PICK n \in 1..Len(c2s) :
        /\ sbuf' = sbuf \o SubSeq(c2s, 1, n)
        /\ c2s' = SubSeq(c2s, n + 1, Len(c2s))
        /\ UNCHANGED <<up, conn, nextId, asked, bounded, buf, inbox, s2c, handled, results>>
  BY DEF ServerRead
<1>3. /\ sbuf \in Seq(Segment) /\ c2s \in Seq(Segment) /\ n \in 0..Len(c2s) /\ Way \in Seq(Segment)
  BY <1>1, WayTyped
<1>4. sbuf' \in Seq(Segment) /\ c2s' \in Seq(Segment)
  <2>1. SubSeq(c2s, 1, n) \in Seq(Segment) /\ SubSeq(c2s, n + 1, Len(c2s)) \in Seq(Segment)
    BY <1>3, Split
  <2> QED BY <1>2, <1>3, <2>1, CatFacts
<1>5. TypeOK'
  <2>1. {buf', inbox', c2s', s2c', sbuf'} \subseteq Seq(Segment)
    BY <1>1, <1>2, <1>4 DEF TypeOK
  <2> QED BY <1>1, <1>2, <2>1 DEF TypeOK
<1>6. Calls' = Calls /\ Way' = Way
  <2>1. Calls' = (sbuf \o SubSeq(c2s, 1, n)) \o SubSeq(c2s, n + 1, Len(c2s))
    BY <1>2 DEF Calls
  <2>2. (sbuf \o SubSeq(c2s, 1, n)) \o SubSeq(c2s, n + 1, Len(c2s)) = sbuf \o c2s
    BY <1>3, Recut
  <2>3. Calls' = Calls
    BY <2>1, <2>2 DEF Calls
  <2>4. Replies' = Replies
    BY <1>2 DEF Replies
  <2> QED BY <2>3, <2>4 DEF Way
<1>7. CallsInv' /\ ServerSeesWholeLines'
  BY <1>2, <1>6, CallsKept
<1>8. WayInv' /\ RepliesInOrder' /\ LagBoundedByTimeouts'
  BY <1>2, <1>3, <1>5, <1>6, Itself, WayKept
<1>9. TurnInv'
  BY <1>2, TurnKept
<1> QED BY <1>5, <1>7, <1>8, <1>9 DEF IInv

LEMMA DropStep == ASSUME IInv, Drop PROVE IInv'
<1>1. TypeOK
  BY DEF IInv
<1>2. /\ up' = FALSE /\ c2s' = <<>> /\ s2c' = <<>> /\ sbuf' = <<>>
      /\ conn' = conn /\ nextId' = nextId /\ asked' = asked /\ buf' = buf /\ inbox' = inbox
      /\ handled' = handled /\ results' = results /\ bounded' = bounded
  BY DEF Drop
<1>3. /\ buf \in Seq(Segment) /\ inbox \in Seq(Segment) /\ s2c \in Seq(Segment)
      /\ Calls \in Seq(Segment) /\ Way \in Seq(Segment) /\ buf \o inbox \in Seq(Segment)
  BY <1>1, WayTyped
<1>4. TypeOK'
  <2>1. <<>> \in Seq(Segment)
    OBVIOUS
  <2>2. {buf', inbox', c2s', s2c', sbuf'} \subseteq Seq(Segment)
    BY <1>2, <1>3, <2>1
  <2> QED BY <1>1, <1>2, <2>2 DEF TypeOK
<1>5. Calls' = <<>> /\ Way' = buf \o inbox
  <2>1. <<>> \in Seq(Segment) /\ <<>> \o <<>> = <<>> /\ (buf \o inbox) \o <<>> = buf \o inbox
    BY <1>3, EmptyFacts
  <2>2. Calls' = <<>>
    BY <1>2, <2>1 DEF Calls
  <2>3. Replies' = buf \o inbox
    BY <1>2, <2>1 DEF Replies
  <2> QED BY <2>1, <2>2, <2>3 DEF Way
<1>6. Within(Way', Way)
  <2>1. PICK x \in Seq(Segment) : x = s2c \o Calls
    BY <1>3, CatFacts
  <2>2. Way = (buf \o inbox) \o x
    <3>1. (buf \o inbox) \o (s2c \o Calls) = ((buf \o inbox) \o s2c) \o Calls
      BY SMTT(60), <1>3, Assoc
    <3> QED BY <2>1, <3>1 DEF Way, Replies
  <2>3. Within(buf \o inbox, (buf \o inbox) \o x)
    BY <1>3, Parts
  <2> QED BY <1>5, <2>2, <2>3
<1>7. CallsInv'
  <2>1. (WholeLines(Calls))'
    BY <1>5 DEF WholeLines
  <2> QED BY <1>5, <2>1 DEF CallsInv
<1>8. ServerSeesWholeLines'
  BY <1>2 DEF IInv, ServerSeesWholeLines
<1>9. WayInv' /\ RepliesInOrder' /\ LagBoundedByTimeouts'
  BY <1>2, <1>4, <1>6, WayKept
<1>10. TurnInv'
  BY <1>2, TurnKept
<1> QED BY <1>4, <1>7, <1>8, <1>9, <1>10 DEF IInv

\* What request() returns is a result of the present connection.
LEMMA ReturnTyped ==
    ASSUME IInv, asked # 0, NEW got \in Ids \cup {0}, Return(got),
           UNCHANGED <<up, conn, nextId, handled>>, inbox' \in Seq(Segment),
           c2s' \in Seq(Segment), s2c' \in Seq(Segment), sbuf' \in Seq(Segment)
    PROVE  TypeOK'
<1>1. TypeOK /\ TurnInv
  BY DEF IInv
<1>2. PICK new : new = [conn |-> conn, asked |-> asked, got |-> got]
  OBVIOUS
<1>3. conn \in 1..MaxConns /\ asked \in Ids
  BY <1>1, ChannelAssumption DEF TypeOK, TurnInv
<1>4. new \in Result
  BY <1>2, <1>3 DEF Result
<1>5. results' = Append(results, new) /\ asked' = 0 /\ buf' = <<>> /\ bounded' = TRUE
  BY <1>2 DEF Return
<1>6. results' \in Seq(Result)
  BY <1>1, <1>4, <1>5 DEF TypeOK
<1>7. <<>> \in Seq(Segment)
  OBVIOUS
<1>8. {buf', inbox', c2s', s2c', sbuf'} \subseteq Seq(Segment)
  BY <1>5, <1>7
<1> QED BY <1>1, <1>5, <1>6, <1>8 DEF TypeOK

LEMMA TimeoutStep == ASSUME IInv, Timeout PROVE IInv'
<1>1. TypeOK
  BY DEF IInv
<1>2. /\ asked # 0 /\ Return(0) /\ buf' = <<>>
      /\ up' = up /\ conn' = conn /\ nextId' = nextId /\ inbox' = inbox /\ c2s' = c2s
      /\ s2c' = s2c /\ sbuf' = sbuf /\ handled' = handled
  BY DEF Timeout, Return
<1>3. /\ buf \in Seq(Segment) /\ inbox \in Seq(Segment) /\ s2c \in Seq(Segment)
      /\ sbuf \in Seq(Segment) /\ c2s \in Seq(Segment) /\ Calls \in Seq(Segment)
  BY <1>1, WayTyped
<1>4. TypeOK'
  BY <1>2, <1>3, ReturnTyped
<1>5. Calls' = Calls
  BY <1>2 DEF Calls
<1>6. Within(Way', Way)
  <2>1. PICK x \in Seq(Segment) : x = inbox \o s2c
    BY <1>3, CatFacts
  <2>2. PICK y \in Seq(Segment) : y = x \o Calls
    BY <1>3, CatFacts
  <2>3. Way' = y
    <3>1. <<>> \o inbox = inbox
      BY <1>3, EmptyFacts
    <3>2. Replies' = x
      BY <1>2, <2>1, <3>1 DEF Replies
    <3> QED BY <1>5, <2>2, <3>2 DEF Way
  <2>4. Way = buf \o y
    <3>1. Replies = buf \o x
      <4>1. buf \in Seq(Segment) /\ inbox \in Seq(Segment) /\ s2c \in Seq(Segment)
        BY <1>3
      <4>2. buf \o (inbox \o s2c) = (buf \o inbox) \o s2c
        BY ONLY <4>1, Assoc, SMTT(60)
      <4> QED BY <2>1, <4>2 DEF Replies
    <3>2. buf \in Seq(Segment) /\ x \in Seq(Segment) /\ Calls \in Seq(Segment)
      BY <1>3
    <3>3. buf \o (x \o Calls) = (buf \o x) \o Calls
      BY ONLY <3>2, Assoc
    <3> QED BY <2>2, <3>1, <3>3 DEF Way
  <2>5. Within(y, buf \o y)
    BY <1>3, Parts
  <2> QED BY <2>3, <2>4, <2>5
<1>7. CallsInv' /\ ServerSeesWholeLines'
  BY <1>2, <1>5, CallsKept
<1>8. WayInv' /\ TurnInv' /\ RepliesInOrder' /\ LagBoundedByTimeouts'
  BY <1>2, <1>4, <1>6, ReturnKeeps
<1> QED BY <1>4, <1>7, <1>8 DEF IInv

LEMMA WaitStep == ASSUME IInv, Wait PROVE IInv'
<1>1. TypeOK /\ WayInv
  BY DEF IInv
<1>2. PICK n \in 1..Len(s2c) :
        /\ asked # 0
        /\ IF Newline(buf \o inbox \o SubSeq(s2c, 1, n)) = 0
           THEN /\ buf' = buf \o inbox \o SubSeq(s2c, 1, n) /\ WaitOn
                /\ UNCHANGED <<asked, results>>
           ELSE Return(Parse(SubSeq(buf \o inbox \o SubSeq(s2c, 1, n), 1,
                                    Newline(buf \o inbox \o SubSeq(s2c, 1, n)))))
        /\ inbox' = <<>>
        /\ s2c' = SubSeq(s2c, n + 1, Len(s2c))
        /\ UNCHANGED <<up, conn, nextId, c2s, sbuf, handled>>
  BY DEF Wait
<1>3. /\ buf \in Seq(Segment) /\ inbox \in Seq(Segment) /\ s2c \in Seq(Segment) /\ n \in 0..Len(s2c)
      /\ sbuf \in Seq(Segment) /\ c2s \in Seq(Segment)
      /\ Way \in Seq(Segment) /\ Calls \in Seq(Segment) /\ buf \o inbox \in Seq(Segment)
  BY <1>1, WayTyped
<1>4. SubSeq(s2c, 1, n) \in Seq(Segment) /\ SubSeq(s2c, n + 1, Len(s2c)) \in Seq(Segment)
  BY <1>3, Split
<1>5. (buf \o inbox) \o SubSeq(s2c, 1, n) \in Seq(Segment)
  BY <1>3, <1>4, CatFacts
<1>6. PICK bytes \in Seq(Segment) : bytes = buf \o inbox \o SubSeq(s2c, 1, n)
  BY <1>5
<1>7. PICK rest \in Seq(Segment) : rest = SubSeq(s2c, n + 1, Len(s2c))
  BY <1>4
<1>8. Replies = bytes \o rest
  <2>1. buf \in Seq(Segment) /\ inbox \in Seq(Segment) /\ s2c \in Seq(Segment) /\ n \in 0..Len(s2c)
    BY <1>3
  <2>2. ((buf \o inbox) \o SubSeq(s2c, 1, n)) \o SubSeq(s2c, n + 1, Len(s2c)) = (buf \o inbox) \o s2c
    BY ONLY <2>1, ReadOn, ZenonT(60)
  <2> QED BY <1>6, <1>7, <2>2 DEF Replies
<1>9. /\ Calls' = Calls /\ s2c' = rest /\ inbox' = <<>>
      /\ UNCHANGED <<up, conn, nextId, handled, c2s, sbuf>>
  BY <1>2, <1>7 DEF Calls
<1>10. CallsInv' /\ ServerSeesWholeLines'
  BY <1>9, CallsKept
<1>11. <<>> \in Seq(Segment) /\ bytes \o <<>> = bytes /\ <<>> \o <<>> = <<>> /\ <<>> \o rest = rest
  BY EmptyFacts
<1>12. CASE Newline(bytes) = 0
  <2>1. buf' = bytes /\ bounded' \in BOOLEAN /\ UNCHANGED <<asked, results>>
    BY <1>2, <1>6, <1>12 DEF WaitOn
  <2>2. TypeOK'
    <3>1. {buf', inbox', c2s', s2c', sbuf'} \subseteq Seq(Segment)
      BY <1>3, <1>9, <1>11, <2>1
    <3> QED BY <1>1, <1>9, <2>1, <3>1 DEF TypeOK
  <2>3. Way' = Way
    <3>1. Replies' = Replies
      BY <1>8, <1>9, <1>11, <2>1 DEF Replies
    <3> QED BY <1>9, <3>1 DEF Way
  <2>4. WayInv' /\ RepliesInOrder' /\ LagBoundedByTimeouts'
    BY <1>3, <1>9, <2>1, <2>2, <2>3, Itself, WayKept
  <2>5. TurnInv'
    BY <1>2, <1>9, <2>1, TurnKept
  <2> QED BY <1>10, <2>2, <2>4, <2>5 DEF IInv
<1>13. CASE Newline(bytes) # 0
  <2>1. PICK got \in Ids \cup {0} : got = Parse(SubSeq(bytes, 1, Newline(bytes)))
    BY ParseFacts
  <2>2. asked # 0 /\ Return(got)
    BY <1>2, <1>6, <1>13, <2>1
  <2>3. TypeOK'
    BY <1>3, <1>7, <1>9, <1>11, <2>2, ReturnTyped
  <2>4. PICK left \in Seq(Segment) : left = rest \o Calls
    BY <1>3, CatFacts
  <2>5. Way' = left
    <3>1. buf' = <<>>
      BY <2>2 DEF Return
    <3>2. Replies' = rest
      BY <1>9, <1>11, <3>1 DEF Replies
    <3> QED BY <1>9, <2>4, <3>2 DEF Way
  <2>6. Way = bytes \o left
    <3>1. bytes \in Seq(Segment) /\ rest \in Seq(Segment) /\ Calls \in Seq(Segment)
      BY <1>3
    <3>2. bytes \o (rest \o Calls) = (bytes \o rest) \o Calls
      BY ONLY <3>1, Assoc, SMTT(60)
    <3> QED BY <1>8, <2>4, <3>2 DEF Way
  <2>7. Within(Way', Way)
    <3>1. Within(left, bytes \o left)
      BY Parts
    <3> QED BY <2>5, <2>6, <3>1
  <2>8. /\ Len(bytes) \in Nat /\ Len(left) \in Nat /\ Len(Way) = Len(bytes) + Len(left)
        /\ \A k \in 1..Len(bytes) : Way[k] = bytes[k]
        /\ \A k \in 1..Len(left) : Way[Len(bytes) + k] = left[k]
    BY <2>6, CatFacts
  <2>9. ASSUME got # 0
        PROVE  /\ 1 \in 1..Len(Way) /\ got = Way[1].id
               /\ \A k \in 1..Len(Way') : got < Way'[k].id
    <3>1. PICK id \in Ids : SubSeq(bytes, 1, Newline(bytes)) = Line(id) /\ got = id
      <4>1. \E id \in Ids : /\ SubSeq(bytes, 1, Newline(bytes)) = Line(id)
                            /\ Parse(SubSeq(bytes, 1, Newline(bytes))) = id
        BY <2>1, <2>9, ParseFacts
      <4> QED BY <2>1, <4>1
    <3>2. PICK nl \in 1..Len(bytes) : nl = Newline(bytes)
      BY <1>13, <2>8, NewlineFacts
    <3>3. Len(SubSeq(bytes, 1, nl)) = nl /\ \A k \in 1..nl : SubSeq(bytes, 1, nl)[k] = bytes[k]
      BY <2>8
    <3>4. PICK l \in Seq(Segment) : /\ l = Line(id) /\ Len(l) = 2
                                   /\ l[1].id = id /\ l[2].id = id /\ l[2].last
      BY LineFacts
    <3>5. SubSeq(bytes, 1, nl) = l
      BY <3>1, <3>2, <3>4
    <3>6. nl = 2 /\ bytes[1] = l[1] /\ bytes[2] = l[2]
      <4>1. Len(l) = nl /\ \A k \in 1..nl : l[k] = bytes[k]
        BY <3>3, <3>5
      <4>2. nl = 2
        BY <3>4, <4>1
      <4> QED BY <4>1, <4>2
    <3>7. /\ 1 \in 1..Len(Way) /\ 2 \in 1..Len(Way) /\ Len(bytes) >= 2
          /\ Way[1] = l[1] /\ Way[2] = l[2]
      BY <2>8, <3>6
    <3>8. ASSUME NEW k \in 1..Len(left) PROVE got < left[k].id
      <4>1. Len(bytes) + k \in 1..Len(Way) /\ 2 < Len(bytes) + k /\ Way[Len(bytes) + k] = left[k]
        BY <2>8, <3>7
      <4>2. Way[2].last /\ Way[2].id = id
        BY <3>4, <3>7
      <4>3. Way[2].id < Way[Len(bytes) + k].id
        BY <1>1, <3>7, <4>1, <4>2 DEF WayInv, Ascends
      <4> QED BY <3>1, <4>1, <4>2, <4>3
    <3> QED BY <2>5, <3>1, <3>4, <3>7, <3>8
  <2>10. WayInv' /\ TurnInv' /\ RepliesInOrder' /\ LagBoundedByTimeouts'
    BY <1>9, <2>2, <2>3, <2>7, <2>9, ReturnKeeps
  <2> QED BY <1>10, <2>3, <2>10 DEF IInv
<1> QED BY <1>12, <1>13

\* A whole line leaves the calls and its reply joins the replies.
LEMMA ServerLineStep == ASSUME IInv, ServerLine PROVE IInv'
<1>1. TypeOK /\ CallsInv /\ WayInv /\ ServerSeesWholeLines
  BY DEF IInv
<1>2. /\ Newline(sbuf) # 0
      /\ handled' = Append(handled, Parse(SubSeq(sbuf, 1, Newline(sbuf))))
      /\ sbuf' = SubSeq(sbuf, Newline(sbuf) + 1, Len(sbuf))
      /\ s2c' = s2c \o Line(sbuf[Newline(sbuf)].id)
      /\ up' = up /\ conn' = conn /\ nextId' = nextId /\ asked' = asked /\ buf' = buf
      /\ inbox' = inbox /\ c2s' = c2s /\ results' = results /\ bounded' = bounded
  BY DEF ServerLine
<1>3. /\ sbuf \in Seq(Segment) /\ c2s \in Seq(Segment) /\ s2c \in Seq(Segment)
      /\ buf \in Seq(Segment) /\ inbox \in Seq(Segment) /\ Way \in Seq(Segment)
      /\ Calls \in Seq(Segment) /\ buf \o inbox \in Seq(Segment) /\ Replies \in Seq(Segment)
  BY <1>1, WayTyped
<1>4. /\ Newline(sbuf) = 2 /\ sbuf[2].id \in Ids
      /\ SubSeq(sbuf, 1, 2) = Line(sbuf[2].id)
      /\ SubSeq(sbuf, 3, Len(sbuf)) \in Seq(Segment)
      /\ sbuf \o c2s = Line(sbuf[2].id) \o (SubSeq(sbuf, 3, Len(sbuf)) \o c2s)
      /\ WholeLines(SubSeq(sbuf, 3, Len(sbuf)) \o c2s)
  BY <1>1, <1>2, <1>3, FirstLine DEF CallsInv, Calls
<1>5. PICK id \in Ids : id = sbuf[2].id
  BY <1>4
<1>6. PICK l \in Seq(Segment) : l = Line(id) /\ Len(l) = 2 /\ l[2].id = id /\ l[2].last
  BY LineFacts
<1>7. sbuf' \in Seq(Segment) /\ s2c' = s2c \o l /\ s2c' \in Seq(Segment)
  <2>1. sbuf' = SubSeq(sbuf, 3, Len(sbuf))
    BY <1>2, <1>4
  <2>2. s2c' = s2c \o l
    BY <1>2, <1>4, <1>5, <1>6
  <2>3. s2c \o l \in Seq(Segment)
    BY <1>3, CatFacts
  <2> QED BY <1>4, <2>1, <2>2, <2>3
<1>8. handled' = Append(handled, id)
  BY <1>2, <1>4, <1>5, ParseFacts
<1>9. /\ handled \in Seq(Ids \cup {0}) /\ Len(handled) \in Nat /\ id \in Nat /\ nextId \in Nat
      /\ handled' \in Seq(Ids \cup {0}) /\ Len(handled') = Len(handled) + 1
      /\ handled'[Len(handled) + 1] = id /\ \A i \in 1..Len(handled) : handled'[i] = handled[i]
  <2>1. handled \in Seq(Ids \cup {0}) /\ id \in Ids \cup {0} /\ nextId \in Nat
    BY <1>1 DEF TypeOK
  <2> QED BY <1>8, <2>1 DEF Ids
<1>10. TypeOK'
  <2>1. {buf', inbox', c2s', s2c', sbuf'} \subseteq Seq(Segment)
    BY <1>2, <1>3, <1>7
  <2> QED BY <1>1, <1>2, <1>9, <2>1 DEF TypeOK
<1>11. PICK r \in Seq(Segment) : Calls' = r /\ Calls = l \o r /\ WholeLines(r)
  <2>1. Calls' = SubSeq(sbuf, 3, Len(sbuf)) \o c2s
    BY <1>2, <1>4 DEF Calls
  <2>2. SubSeq(sbuf, 3, Len(sbuf)) \o c2s \in Seq(Segment)
    BY <1>3, <1>4, CatFacts
  <2> QED BY <1>4, <1>5, <1>6, <2>1, <2>2 DEF Calls
<1>12. Way' = Way
  <2>0. PICK front \in Seq(Segment) : front = buf \o inbox
    BY <1>3
  <2>1. ((buf \o inbox) \o (s2c \o l)) \o r = ((buf \o inbox) \o s2c) \o (l \o r)
    <3>1. /\ front \in Seq(Segment) /\ s2c \in Seq(Segment) /\ l \in Seq(Segment)
          /\ r \in Seq(Segment)
      BY <1>3
    <3>2. front \o (s2c \o l) = (front \o s2c) \o l
      BY ONLY <3>1, Assoc
    <3>3. PICK m \in Seq(Segment) : m = front \o s2c
      BY <3>1, CatFacts
    <3>4. m \in Seq(Segment)
      OBVIOUS
    <3>5. m \o (l \o r) = (m \o l) \o r
      BY ONLY <3>1, <3>4, Assoc
    <3> QED BY <2>0, <3>2, <3>3, <3>5
  <2>2. Replies' = (buf \o inbox) \o (s2c \o l)
    BY <1>2, <1>7 DEF Replies
  <2> QED BY <1>11, <2>1, <2>2 DEF Way, Replies
<1>13. WayInv' /\ RepliesInOrder' /\ LagBoundedByTimeouts'
  BY <1>2, <1>3, <1>10, <1>12, Itself, WayKept
<1>14. TurnInv'
  BY <1>2, TurnKept
<1>15. /\ Len(r) \in Nat /\ Len(Calls) = 2 + Len(r)
       /\ \A k \in 1..Len(l) : Calls[k] = l[k]
       /\ \A k \in 1..Len(r) : Calls[2 + k] = r[k]
  <2>1. /\ Len(r) \in Nat /\ Len(l \o r) = Len(l) + Len(r)
        /\ \A k \in 1..Len(l) : (l \o r)[k] = l[k]
        /\ \A k \in 1..Len(r) : (l \o r)[Len(l) + k] = r[k]
    BY CatFacts
  <2> QED BY <1>6, <1>11, <2>1
<1>16. 2 \in 1..Len(Calls) /\ Calls[2].id = id /\ Calls[2].last
  BY <1>6, <1>15
<1>17. ASSUME NEW i \in 1..Len(handled) PROVE handled[i] < id
  BY <1>1, <1>16 DEF CallsInv
<1>18. ASSUME NEW k \in 1..Len(r) PROVE id < r[k].id
  <2>1. 2 + k \in 1..Len(Calls) /\ 2 < 2 + k /\ Calls[2 + k] = r[k]
    BY <1>15
  <2>2. Calls[2].id < Calls[2 + k].id
    BY <1>16, <2>1, CallOnWay DEF Ascends
  <2> QED BY <1>16, <2>1, <2>2
<1>19. \A i \in 1..Len(handled') : i \in 1..Len(handled) \/ i = Len(handled) + 1
  BY <1>9
<1>20. CallsInv'
  <2>1. (WholeLines(Calls))'
    BY <1>11 DEF WholeLines
  <2>2. ASSUME NEW i \in 1..Len(handled'), NEW k \in 1..Len(r) PROVE handled'[i] < r[k].id
    <3>1. CASE i \in 1..Len(handled)
      <4>1. 2 + k \in 1..Len(Calls) /\ Calls[2 + k] = r[k]
        BY <1>15
      <4>2. handled[i] < Calls[2 + k].id
        BY <1>1, <3>1, <4>1 DEF CallsInv
      <4> QED BY <1>9, <3>1, <4>1, <4>2
    <3>2. CASE i = Len(handled) + 1
      BY <1>9, <1>18, <3>2
    <3> QED BY <1>19, <3>1, <3>2
  <2> QED BY <1>11, <2>1, <2>2 DEF CallsInv
<1>21. ServerSeesWholeLines'
  <2>1. id < nextId /\ id # 0
    <3>1. PICK j \in 1..Len(Way) : Calls[2] = Way[j]
      BY <1>16, CallOnWay
    <3>2. Way[j].id < nextId
      BY <1>1, <3>1 DEF WayInv
    <3> QED BY <1>16, <3>1, <3>2 DEF Ids
  <2>2. ASSUME NEW i \in 1..Len(handled') PROVE handled'[i] # 0 /\ handled'[i] < nextId
    <3>1. CASE i \in 1..Len(handled)
      BY <1>1, <1>9, <3>1 DEF ServerSeesWholeLines
    <3>2. CASE i = Len(handled) + 1
      BY <1>9, <2>1, <3>2
    <3> QED BY <1>19, <3>1, <3>2
  <2>3. ASSUME NEW i \in 1..Len(handled'), NEW j \in 1..Len(handled'), i < j
        PROVE  handled'[i] < handled'[j]
    <3>0. i \in 1..Len(handled)
      BY <1>9, <2>3
    <3>1. CASE j \in 1..Len(handled)
      BY <1>1, <1>9, <2>3, <3>0, <3>1 DEF ServerSeesWholeLines
    <3>2. CASE j = Len(handled) + 1
      BY <1>9, <1>17, <3>0, <3>2
    <3> QED BY <1>19, <3>1, <3>2
  <2> QED BY <1>2, <2>2, <2>3 DEF ServerSeesWholeLines
<1> QED BY <1>10, <1>13, <1>14, <1>20, <1>21 DEF IInv

LEMMA InitIInv == ASSUME Init PROVE IInv
<1>1. /\ up = FALSE /\ conn = 0 /\ nextId = 1 /\ asked = 0 /\ bounded = TRUE
      /\ buf = <<>> /\ inbox = <<>> /\ c2s = <<>> /\ s2c = <<>> /\ sbuf = <<>>
      /\ handled = <<>> /\ results = <<>>
  BY DEF Init
<1>2. TypeOK
  <2>1. <<>> \in Seq(Segment) /\ <<>> \in Seq(Ids \cup {0}) /\ <<>> \in Seq(Result)
    OBVIOUS
  <2>2. conn \in 0..MaxConns /\ nextId \in 1..(MaxRequests + 1)
    BY <1>1, ChannelAssumption
  <2>3. {buf, inbox, c2s, s2c, sbuf} \subseteq Seq(Segment)
    BY <1>1, <2>1
  <2> QED BY <1>1, <2>1, <2>2, <2>3 DEF TypeOK
<1>3. Calls = <<>> /\ Way = <<>>
  <2>1. <<>> \in Seq(Segment) /\ <<>> \o <<>> = <<>>
    BY EmptyFacts
  <2> QED BY <1>1, <2>1 DEF Calls, Way, Replies
<1>4. CallsInv /\ WayInv
  BY <1>3 DEF CallsInv, WayInv, WholeLines, Ascends
<1>5. TurnInv /\ ServerSeesWholeLines /\ RepliesInOrder /\ LagBoundedByTimeouts
  BY <1>1 DEF TurnInv, ServerSeesWholeLines, RepliesInOrder, LagBoundedByTimeouts
<1> QED BY <1>2, <1>4, <1>5 DEF IInv

LEMMA StutterIInv == ASSUME IInv, UNCHANGED vars PROVE IInv'
<1>1. /\ up' = up /\ conn' = conn /\ nextId' = nextId /\ asked' = asked /\ buf' = buf
      /\ inbox' = inbox /\ c2s' = c2s /\ s2c' = s2c /\ sbuf' = sbuf /\ handled' = handled
      /\ results' = results /\ bounded' = bounded
  BY DEF vars
<1>2. TypeOK /\ Way \in Seq(Segment)
  BY WayTyped DEF IInv
<1>3. TypeOK'
  BY <1>1, <1>2 DEF TypeOK
<1>4. Calls' = Calls /\ Way' = Way
  BY <1>1 DEF Calls, Way, Replies
<1>5. CallsInv' /\ ServerSeesWholeLines'
  BY <1>1, <1>4, CallsKept
<1>6. WayInv' /\ RepliesInOrder' /\ LagBoundedByTimeouts'
  BY <1>1, <1>2, <1>3, <1>4, Itself, WayKept
<1>7. TurnInv'
  BY <1>1, TurnKept
<1> QED BY <1>3, <1>5, <1>6, <1>7 DEF IInv

-----------------------------------------------------------------------------
(* The theorems.                                                           *)

LEMMA SpecIInv == Spec => []IInv
<1>1. ASSUME IInv, [Next]_vars PROVE IInv'
  BY <1>1, ConnectStep, AskStep, ArriveStep, WaitStep, TimeoutStep, ServerReadStep,
     ServerLineStep, DropStep, StutterIInv DEF Next
<1> QED BY <1>1, InitIInv, PTL DEF Spec

\* The state of the channel is well formed: among others, every result is of a
\* connection that was made.
THEOREM TypeCorrect == Spec => []TypeOK
<1>1. IInv => TypeOK
  BY DEF IInv
<1> QED BY <1>1, SpecIInv, PTL

\* Whatever the cuts, drops and timeouts, the server takes only whole requests
\* for lines, each once and in the order they were asked.
THEOREM TheServerSeesWholeLines == Spec => []ServerSeesWholeLines
<1>1. IInv => ServerSeesWholeLines
  BY DEF IInv
<1> QED BY <1>1, SpecIInv, PTL

\* request() returns replies in the order of their requests, none twice, and
\* none of an earlier connection.
THEOREM TheRepliesAreInOrder == Spec => []RepliesInOrder
<1>1. IInv => RepliesInOrder
  BY DEF IInv
<1> QED BY <1>1, SpecIInv, PTL

\* A reply is behind its request by at most the requests of the connection
\* that were given up: with no timeout, request() returns its own reply.
THEOREM TheLagIsBounded == Spec => []LagBoundedByTimeouts
<1>1. IInv => LagBoundedByTimeouts
  BY DEF IInv
<1> QED BY <1>1, SpecIInv, PTL

=============================================================================
