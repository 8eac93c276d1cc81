------------------------------- MODULE Powers --------------------------------
(***************************************************************************)
(* Powers of natural numbers, as a recursive function: the weights of the  *)
(* digits that lengths and bytes are cut into.                             *)
(***************************************************************************)
EXTENDS Naturals

Power(b, n) ==
    LET power[k \in 0..n] == IF k = 0 THEN 1 ELSE b * power[k - 1]
    IN  power[n]
=============================================================================
