---------------------------- MODULE ChordProofs -----------------------------
(***************************************************************************)
(* Theorems about ChordMethod, for every set of points and functions, every*)
(* precision and bound on the rounds.                                      *)
(***************************************************************************)
EXTENDS ChordMethod, TLAPS

\* The conditions of BracketKept.
WellPosed == WellScaled /\ EndsUsual /\ Eps = 2 /\ NaN \notin {a, b}

\* Before the loop nothing has been computed but f at the ends.
CallIsFresh ==
    pc = "call" => a = ends[1] /\ b = ends[2] /\ x = a /\ it = 0 /\ ~converged

\* The kept values are usual ones, which BracketKept needs to go through a
\* step: the product of a smaller one may underflow.
EndsStayUsual ==
    (WellPosed /\ pc = "loop") => fa.size = 2 /\ fb.size = 2

\* The loop has seen no value below the precision.
NotYetConverged ==
    pc = "loop" => ~converged /\ (it > 0 => ~BelowEps(f[x]))

\* The inductive invariant.
IInv ==
    /\ TypeOK
    /\ KeptValuesAreFresh
    /\ CallIsFresh
    /\ BracketKept
    /\ EndsStayUsual
    /\ NotYetConverged
    /\ ResultIsHonest

-----------------------------------------------------------------------------
(* Lemmas about values.                                                    *)

LEMMA ValueType ==
    ASSUME NEW v \in Values, v # NaN
    PROVE  v \in [sign : {-1, 0, 1}, size : Size]
BY DEF Values

LEMMA OppositeSigns ==
    ASSUME NEW u \in Values, NEW v \in Values
    PROVE  Opposite(u, v) <=>
              /\ u # NaN /\ v # NaN
              /\ \/ u.sign = 1 /\ v.sign = -1
                 \/ u.sign = -1 /\ v.sign = 1
<1>1. CASE u = NaN \/ v = NaN
  BY <1>1 DEF Opposite
<1>2. CASE u # NaN /\ v # NaN
  <2>1. u.sign \in {-1, 0, 1} /\ v.sign \in {-1, 0, 1}
    BY <1>2, ValueType
  <2>2. CASE u.sign = -1
    BY <1>2, <2>1, <2>2 DEF Opposite
  <2>3. CASE u.sign = 0
    BY <1>2, <2>1, <2>3 DEF Opposite
  <2>4. CASE u.sign = 1
    BY <1>2, <2>1, <2>4 DEF Opposite
  <2> QED BY <2>1, <2>2, <2>3, <2>4
<1> QED BY <1>1, <1>2

LEMMA AbsType ==
    ASSUME NEW v \in Values
    PROVE  Abs(v) \in Values
<1>1. CASE v = NaN
  BY <1>1 DEF Abs
<1>2. CASE v # NaN
  <2>1. v \in [sign : {-1, 0, 1}, size : Size] /\ (v.sign = 0 <=> v.size = 0)
    BY <1>2 DEF Values
  <2>2. v.sign * v.sign \in {0, 1} /\ (v.sign * v.sign = 0 <=> v.sign = 0)
    <3>1. CASE v.sign = -1
      BY <3>1
    <3>2. CASE v.sign = 0
      BY <3>2
    <3>3. CASE v.sign = 1
      BY <3>3
    <3> QED BY <2>1, <3>1, <3>2, <3>3
  <2> DEFINE s == v.sign * v.sign
  <2>3. Abs(v) = [v EXCEPT !.sign = s]
    BY <1>2 DEF Abs
  <2>4. s \in {-1, 0, 1} /\ (s = 0 <=> v.size = 0)
    BY <2>1, <2>2
  <2> HIDE DEF s
  <2> QED BY <2>1, <2>3, <2>4 DEF Values
<1> QED BY <1>1, <1>2

\* Products of values of usual size neither underflow nor are they NaN.
LEMMA UsualProducts ==
    ASSUME NEW u \in Values, NEW v \in Values,
           u # NaN, v # NaN, u.size = 2, v.size = 2
    PROVE  /\ Opposite(u, v) => NegativeProduct(u, v) = {TRUE}
           /\ ~Opposite(u, v) => NegativeProduct(u, v) = {FALSE}
           /\ ~Opposite(u, v) => NonNegativeProduct(u, v) = {TRUE}
<1>1. u.size + v.size = 4 /\ ~(u.size + v.size <= 3) /\ u.size + v.size # 3
  OBVIOUS
<1> QED BY <1>1 DEF NegativeProduct, NonNegativeProduct

LEMMA SecantType ==
    ASSUME NEW p \in Points, NEW q \in Points, NEW u \in Values, NEW v \in Values
    PROVE  Secant(p, q, u, v) \subseteq Points
BY DEF Secant, Points

\* An end that is not a number is never got rid of: the next point is NaN too.
LEMMA SecantNaN ==
    ASSUME NEW p, NEW q, NEW u, NEW v, NEW y \in Secant(p, q, u, v), y # NaN
    PROVE  NaN \notin {p, q}
BY DEF Secant

-----------------------------------------------------------------------------
THEOREM Initialised == Init => IInv
<1> SUFFICES ASSUME Init PROVE IInv
  OBVIOUS
<1>1. f \in [Points -> Values] /\ ends[1] \in Numbers /\ ends[2] \in Numbers
  BY ChordAssumption DEF Init
<1>2. a \in Points /\ b \in Points /\ f[a] \in Values /\ f[b] \in Values /\ NaN \in Values
  BY <1>1 DEF Init, Points, Values
<1>3. TypeOK
  <2>1. 0 \in 0..MaxIter
    BY ChordAssumption
  <2>2. {a, b, x} \subseteq Points /\ {fa, fb, residual} \subseteq Values
    BY <1>2 DEF Init
  <2> QED BY <2>1, <2>2 DEF Init, TypeOK
<1> QED
  BY <1>3 DEF Init, IInv, KeptValuesAreFresh, CallIsFresh, BracketKept,
     EndsStayUsual, NotYetConverged, ResultIsHonest

LEMMA EnterKeeps == IInv /\ Enter => IInv'
<1> SUFFICES ASSUME IInv, Enter PROVE IInv'
  OBVIOUS
<1> USE DEF IInv
<1>1. PICK throws \in NonNegativeProduct(fa, fb) :
         pc' = IF throws THEN "threw" ELSE "loop"
  BY DEF Enter
<1>2. TypeOK' /\ KeptValuesAreFresh' /\ CallIsFresh' /\ ResultIsHonest'
  <2>1. pc' \in {"threw", "loop"}
    BY <1>1
  <2> QED BY <2>1 DEF Enter, TypeOK, KeptValuesAreFresh, CallIsFresh, ResultIsHonest
<1>3. NotYetConverged'
  BY DEF Enter, NotYetConverged, CallIsFresh, BelowEps
<1>4. BracketKept' /\ EndsStayUsual'
  <2> SUFFICES ASSUME WellPosed, pc' = "loop"
               PROVE  Opposite(fa, fb) /\ fa.size = 2 /\ fb.size = 2
    BY DEF Enter, BracketKept, EndsStayUsual, WellPosed, WellScaled, EndsUsual, Opposite
  <2>1. ~throws
    BY <1>1
  <2>2. fa = f[ends[1]] /\ fb = f[ends[2]]
    BY DEF Enter, CallIsFresh, KeptValuesAreFresh
  <2>3. fa.size = 2 /\ fb.size = 2
    BY <2>2 DEF WellPosed, EndsUsual
  <2>4. fa # NaN /\ fb # NaN
    BY <2>2 DEF WellPosed, WellScaled, TypeOK
  <2>5. Opposite(fa, fb)
    <3>1. ~Opposite(fa, fb) => NonNegativeProduct(fa, fb) = {TRUE}
      BY <2>3, <2>4, UsualProducts DEF TypeOK
    <3>2. throws \in NonNegativeProduct(fa, fb)
      BY <1>1
    <3>3. throws \in {TRUE} => throws
      OBVIOUS
    <3> QED BY <2>1, <3>1, <3>2, <3>3, Zenon
  <2> QED BY <2>3, <2>5
<1> QED BY <1>2, <1>3, <1>4

LEMMA IterateKeeps == IInv /\ Iterate => IInv'
<1> SUFFICES ASSUME IInv, Iterate PROVE IInv'
  OBVIOUS
<1> USE DEF IInv
<1>1. PICK y \in Secant(a, b, fa, fb) :
         /\ x' = y
         /\ IF BelowEps(f[y])
            THEN /\ pc' = "done" /\ it' = it + 1 /\ converged' = TRUE
                 /\ residual' = Abs(f[y]) /\ UNCHANGED <<a, b, fa, fb>>
            ELSE \E neg \in NegativeProduct(fa, f[y]) : Move(y, neg)
  BY DEF Iterate
<1>2. /\ pc = "loop" /\ it < MaxIter /\ f' = f /\ ends' = ends
      /\ f \in [Points -> Values] /\ ends[1] \in Numbers /\ ends[2] \in Numbers
  BY ChordAssumption DEF Iterate, TypeOK
<1>3. y \in Points /\ f[y] \in Values
  BY <1>1, <1>2, SecantType DEF TypeOK
<1>4. it \in Nat /\ it + 1 \in 1..MaxIter
  BY <1>2, ChordAssumption DEF TypeOK
<1>5. WellPosed => Opposite(fa, fb) /\ fa.size = 2 /\ fb.size = 2
  BY <1>2 DEF BracketKept, EndsStayUsual, WellPosed
<1>6. CASE BelowEps(f[y])
  <2>1. /\ pc' = "done" /\ it' = it + 1 /\ converged' = TRUE /\ x' = y
        /\ residual' = Abs(f[y]) /\ a' = a /\ b' = b /\ fa' = fa /\ fb' = fb
    BY <1>1, <1>6
  <2>2. TypeOK'
    BY <1>2, <1>3, <1>4, <2>1, AbsType DEF TypeOK
  <2>3. KeptValuesAreFresh' /\ CallIsFresh' /\ BracketKept' /\ EndsStayUsual' /\ NotYetConverged'
    BY <1>2, <2>1 DEF KeptValuesAreFresh, CallIsFresh, BracketKept, EndsStayUsual, NotYetConverged
  <2>4. ResultIsHonest'
    BY <1>2, <1>6, <2>1 DEF ResultIsHonest, BelowEps
  <2> QED BY <2>2, <2>3, <2>4
<1>7. CASE ~BelowEps(f[y])
  <2>1. PICK neg \in NegativeProduct(fa, f[y]) : Move(y, neg)
    BY <1>1, <1>7
  <2>2. pc' = "loop" /\ it' = it + 1 /\ converged' = converged /\ x' = y /\ residual' = residual
    BY <1>1, <1>2, <2>1 DEF Move
  <2>3. TypeOK'
    BY <1>2, <1>3, <1>4, <2>1, <2>2 DEF TypeOK, Move
  <2>4. KeptValuesAreFresh'
    BY <1>2, <2>1 DEF KeptValuesAreFresh, Move
  <2>5. CallIsFresh' /\ ResultIsHonest'
    BY <2>2 DEF CallIsFresh, ResultIsHonest
  <2>6. NotYetConverged'
    BY <1>2, <1>7, <2>2 DEF NotYetConverged, BelowEps
  <2>7. BracketKept' /\ EndsStayUsual'
    <3> SUFFICES ASSUME WellPosed'
                 PROVE  Opposite(fa', fb') /\ fa'.size = 2 /\ fb'.size = 2
      BY DEF BracketKept, EndsStayUsual, WellPosed, Opposite
    <3>1. y # NaN
      BY <2>1 DEF Move, WellPosed
    <3>2. WellPosed
      <4>1. NaN \notin {a, b}
        BY <1>1, <3>1, SecantNaN
      <4> QED BY <1>2, <4>1 DEF WellPosed, WellScaled, EndsUsual
    <3>3. y \in Numbers
      BY <1>3, <3>1 DEF Points
    <3>4. f[y] # NaN /\ f[y].size \in Size /\ f[y].size # 3 /\ ~(f[y].size < 2)
      BY <1>3, <1>7, <3>2, <3>3, ValueType DEF WellPosed, WellScaled, BelowEps
    <3>5. f[y].size = 2
      BY <3>4 DEF Size
    <3>6. neg <=> Opposite(fa, f[y])
      <4>1. fa \in Values /\ fa # NaN
        BY <1>5, <3>2 DEF TypeOK, Opposite
      <4>2. /\ Opposite(fa, f[y]) => NegativeProduct(fa, f[y]) = {TRUE}
            /\ ~Opposite(fa, f[y]) => NegativeProduct(fa, f[y]) = {FALSE}
        BY <1>3, <1>5, <3>2, <3>4, <3>5, <4>1, UsualProducts
      <4>3. neg \in {TRUE} => neg
        OBVIOUS
      <4>4. neg \in {FALSE} => ~neg
        OBVIOUS
      <4> QED BY <4>2, <4>3, <4>4, Zenon
    <3>7. CASE neg
      <4>1. fa' = fa /\ fb' = f[y]
        BY <2>1, <3>7 DEF Move
      <4> QED BY <1>5, <3>2, <3>5, <3>6, <3>7, <4>1
    <3>8. CASE ~neg
      <4>1. fa' = f[y] /\ fb' = fb
        BY <2>1, <3>8 DEF Move
      <4>2. f[y].sign \in {-1, 1}
        BY <1>3, <3>4, <3>5 DEF Values
      <4>3. Opposite(f[y], fb)
        BY <1>3, <1>5, <3>2, <3>4, <3>6, <3>8, <4>2, OppositeSigns DEF TypeOK
      <4> QED BY <1>5, <3>2, <3>5, <4>1, <4>3
    <3> QED BY <3>6, <3>7, <3>8 DEF Opposite
  <2> QED BY <2>3, <2>4, <2>5, <2>6, <2>7
<1> QED BY <1>6, <1>7

LEMMA GiveUpKeeps == IInv /\ GiveUp => IInv'
<1> SUFFICES ASSUME IInv, GiveUp PROVE IInv'
  OBVIOUS
<1> USE DEF IInv
<1>1. /\ pc = "loop" /\ it = MaxIter /\ pc' = "done" /\ residual' = Abs(f[x])
      /\ UNCHANGED <<f, ends, a, b, fa, fb, x, it, converged>>
  BY DEF GiveUp
<1>2. f[x] \in Values
  BY ChordAssumption DEF TypeOK
<1>3. TypeOK'
  BY <1>1, <1>2, AbsType DEF TypeOK
<1>4. KeptValuesAreFresh' /\ CallIsFresh' /\ BracketKept' /\ EndsStayUsual' /\ NotYetConverged'
  BY <1>1 DEF KeptValuesAreFresh, CallIsFresh, BracketKept, EndsStayUsual, NotYetConverged
<1>5. ResultIsHonest'
  BY <1>1, ChordAssumption DEF ResultIsHonest, NotYetConverged, BelowEps
<1> QED BY <1>3, <1>4, <1>5

THEOREM Inductive == IInv /\ [Next]_vars => IInv'
<1> SUFFICES ASSUME IInv, [Next]_vars PROVE IInv'
  OBVIOUS
<1>1. CASE Enter
  BY <1>1, EnterKeeps
<1>2. CASE Iterate
  BY <1>2, IterateKeeps
<1>3. CASE GiveUp
  BY <1>3, GiveUpKeeps
<1>4. CASE UNCHANGED vars
  BY <1>4 DEF vars, IInv, TypeOK, KeptValuesAreFresh, CallIsFresh, BracketKept, EndsStayUsual,
     WellPosed, WellScaled, EndsUsual, NotYetConverged, ResultIsHonest, BelowEps, Opposite
<1> QED BY <1>1, <1>2, <1>3, <1>4 DEF Next

-----------------------------------------------------------------------------
\* Every variable keeps its type, the count of rounds its bound.
THEOREM TypeCorrect == Spec => []TypeOK
<1>1. IInv => TypeOK
  BY DEF IInv
<1> QED BY Initialised, Inductive, <1>1, PTL DEF Spec

\* The loop of core/src/chord.cpp:15-21 moves an end and its value together.
THEOREM TheKeptValuesAreFresh == Spec => []KeptValuesAreFresh
<1>1. IInv => KeptValuesAreFresh
  BY DEF IInv
<1> QED BY Initialised, Inductive, <1>1, PTL DEF Spec

\* It keeps, with values of usual size, the sign change that it was called with,
\* wherever rounding puts its points.
THEOREM TheBracketIsKept == Spec => []BracketKept
<1>1. IInv => BracketKept
  BY DEF IInv
<1> QED BY Initialised, Inductive, <1>1, PTL DEF Spec

\* What it returns is what it found, for every f: NaN and infinities included.
THEOREM TheResultIsHonest == Spec => []ResultIsHonest
<1>1. IInv => ResultIsHonest
  BY DEF IInv
<1> QED BY Initialised, Inductive, <1>1, PTL DEF Spec
=============================================================================
