------------------------------ MODULE MCSuite -------------------------------
(* TLC instances of Suite.                                                 *)
EXTENDS Suite, TLC

TypedByUsers == {<<"admin", "admin">>, <<"ann", "pw">>}

ClientSymmetry == Permutations(Clients) \cup Permutations(Conns)
=============================================================================
