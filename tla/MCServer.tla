------------------------------ MODULE MCServer ------------------------------
(* TLC instances of Server.                                                *)
EXTENDS ServerRequests
=============================================================================
