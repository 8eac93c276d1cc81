---------------------------- MODULE ChordMethod -----------------------------
(***************************************************************************)
(* chord() of core/src/chord.cpp.  A value of f is its sign and its size,  *)
(* which is what the tests of the loop look at; where rounding, underflow  *)
(* or overflow decide, in a test or for the next point, every outcome is   *)
(* taken.                                                                  *)
(***************************************************************************)
EXTENDS Integers, FiniteSets

CONSTANTS
    Numbers,   \* the points
    NaN,       \* not a number: as a point and as a value
    Functions, \* the functions f
    Eps,       \* the precision: 2 usual, 1 below all but 0, 0 zero
    MaxIter    \* 1000

\* Sizes: 0 zero, 1 so small that a product may underflow (and below the usual
\* precision), 2 the usual, 3 infinite or so large that a sum may overflow.
Size == 0..3
Values == {v \in [sign : {-1, 0, 1}, size : Size] : v.sign = 0 <=> v.size = 0} \cup {NaN}
Points == Numbers \cup {NaN}

ASSUME ChordAssumption ==
    /\ NaN \notin Numbers /\ NaN \notin [sign : {-1, 0, 1}, size : Size]
    /\ Functions \subseteq [Points -> Values]
    /\ Eps \in 0..2 /\ MaxIter \in Nat \ {0}

VARIABLES
    f,
    ends,      \* the arguments a and b
    pc,        \* "call", "loop", "done" or "threw"
    a, b,      \* the bracket
    fa, fb,    \* f at its ends, kept rather than computed again
    x, it,
    residual,  \* |f(root)|: 1 for the sign of a value, or NaN
    converged

vars == <<f, ends, pc, a, b, fa, fb, x, it, residual, converged>>

Init ==
    /\ f \in Functions /\ ends \in Numbers \X Numbers
    /\ pc = "call"
    /\ a = ends[1] /\ b = ends[2] /\ fa = f[a] /\ fb = f[b]
    /\ x = a /\ it = 0
    /\ residual = NaN /\ converged = FALSE

-----------------------------------------------------------------------------
(* Arithmetic.                                                             *)

Opposite(u, v) == u # NaN /\ v # NaN /\ u.sign * v.sign < 0

\* The comparisons u * v < 0 and u * v >= 0 may turn out: a product of small
\* values may be -0, one of 0 and infinity is NaN.
NegativeProduct(u, v) ==
    IF ~Opposite(u, v) THEN {FALSE}
    ELSE IF u.size + v.size <= 3 THEN BOOLEAN ELSE {TRUE}

NonNegativeProduct(u, v) ==
    IF u = NaN \/ v = NaN THEN {FALSE}
    ELSE IF Opposite(u, v) THEN {~n : n \in NegativeProduct(u, v)}
    ELSE IF u.size + v.size = 3 /\ 0 \in {u.size, v.size} THEN BOOLEAN
    ELSE {TRUE}

Abs(v) == IF v = NaN THEN NaN ELSE [v EXCEPT !.sign = v.sign * v.sign]

BelowEps(v) == v # NaN /\ v.size < Eps

\* a - fa * (b - a) / (fb - fa) in doubles.  The chord of opposite signs meets 0
\* between the ends, but the rounded point may be a digit outside them, and with
\* values of one sign, tiny or too large ones it is anywhere or NaN.
Secant(p, q, fp, fq) == IF NaN \in {p, q, fp, fq} THEN {NaN} ELSE Points

-----------------------------------------------------------------------------
(* The steps of the call.                                                  *)

\* The check of the bracket.
Enter ==
    /\ pc = "call"
    /\ \E throws \in NonNegativeProduct(fa, fb) : pc' = IF throws THEN "threw" ELSE "loop"
    /\ UNCHANGED <<f, ends, a, b, fa, fb, x, it, residual, converged>>

\* Mutant: the value kept for b is not renewed with b.
MoveStale(y, neg) ==
    /\ IF neg THEN b' = y /\ UNCHANGED <<a, fa, fb>>
       ELSE a' = y /\ fa' = f[y] /\ UNCHANGED <<b, fb>>
    /\ it' = it + 1
    /\ UNCHANGED <<pc, residual, converged>>

\* Mutant: the new point always becomes the right end.
MoveRight(y, neg) ==
    /\ b' = y /\ fb' = f[y] /\ UNCHANGED <<a, fa>>
    /\ it' = it + 1
    /\ UNCHANGED <<pc, residual, converged>>

Move(y, neg) ==
    /\ IF neg THEN b' = y /\ fb' = f[y] /\ UNCHANGED <<a, fa>>
       ELSE a' = y /\ fa' = f[y] /\ UNCHANGED <<b, fb>>
    /\ it' = it + 1
    /\ UNCHANGED <<pc, residual, converged>>

\* Mutant: one round too many.
IterateOnceMore ==
    /\ pc = "loop" /\ it <= MaxIter
    /\ \E y \in Secant(a, b, fa, fb) :
        /\ x' = y
        /\ IF BelowEps(f[y])
           THEN /\ pc' = "done" /\ it' = it + 1 /\ converged' = TRUE
                /\ residual' = Abs(f[y]) /\ UNCHANGED <<a, b, fa, fb>>
           ELSE \E neg \in NegativeProduct(fa, f[y]) : Move(y, neg)
    /\ UNCHANGED <<f, ends>>

\* One round of the loop.
Iterate ==
    /\ pc = "loop" /\ it < MaxIter
    /\ \E y \in Secant(a, b, fa, fb) :
        /\ x' = y
        /\ IF BelowEps(f[y])
           THEN /\ pc' = "done" /\ it' = it + 1 /\ converged' = TRUE
                /\ residual' = Abs(f[y]) /\ UNCHANGED <<a, b, fa, fb>>
           ELSE \E neg \in NegativeProduct(fa, f[y]) : Move(y, neg)
    /\ UNCHANGED <<f, ends>>

\* Mutant: the residual is that of the end kept, not of the last point.
GiveUpAtEnd ==
    /\ pc = "loop" /\ it = MaxIter
    /\ pc' = "done" /\ residual' = Abs(fb)
    /\ UNCHANGED <<f, ends, a, b, fa, fb, x, it, converged>>

GiveUp ==
    /\ pc = "loop" /\ it = MaxIter
    /\ pc' = "done" /\ residual' = Abs(f[x])
    /\ UNCHANGED <<f, ends, a, b, fa, fb, x, it, converged>>

Next == Enter \/ Iterate \/ GiveUp

Spec == Init /\ [][Next]_vars

-----------------------------------------------------------------------------
(* Properties.                                                             *)

TypeOK ==
    /\ f \in Functions /\ ends \in Numbers \X Numbers
    /\ pc \in {"call", "loop", "done", "threw"}
    /\ {a, b, x} \subseteq Points /\ {fa, fb, residual} \subseteq Values
    /\ it \in 0..MaxIter /\ converged \in BOOLEAN

\* f has neither NaN nor values so large that a sum may overflow.
WellScaled == \A p \in Numbers : f[p] # NaN /\ f[p].size # 3

\* At the ends of the call f is of usual size.
EndsUsual == f[ends[1]].size = 2 /\ f[ends[2]].size = 2

\* fa and fb are f at the ends, though f is called once per round and only one
\* end moves.
KeptValuesAreFresh == fa = f[a] /\ fb = f[b]

\* With values that neither under- nor overflow (and a usual precision), the
\* loop never loses the sign change that it was called with, wherever rounding
\* puts its points, unless one is NaN: the product with b - a overflowed then.
BracketKept ==
    (WellScaled /\ EndsUsual /\ Eps = 2 /\ pc = "loop" /\ NaN \notin {a, b}) => Opposite(fa, fb)

\* Whatever f does, infinities and NaN included: a result reported as converged
\* is a point with a residual below the precision, and every residual is that
\* of the root it is returned with.
ResultIsHonest ==
    pc = "done" =>
        /\ residual = Abs(f[x])
        /\ converged <=> f[x] # NaN /\ f[x].size < Eps
=============================================================================
