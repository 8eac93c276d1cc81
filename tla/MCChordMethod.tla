--------------------------- MODULE MCChordMethod ----------------------------
(* TLC instances of ChordMethod.                                            *)
EXTENDS ChordMethod

\* Every function on the points, with f(NaN) not a number, as it is for every
\* expression that uses x other than as x^0.
AllFunctions == {g \in [Points -> Values] : g[NaN] = NaN}
=============================================================================
