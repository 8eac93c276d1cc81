--------------------------- MODULE MCServerAudit ----------------------------
(* TLC instances of ServerAudit and of the server's refinement.            *)
EXTENDS ServerAudit, AccessRefinement, ServerRequests

ConnSymmetry == Permutations(Conns)
=============================================================================
