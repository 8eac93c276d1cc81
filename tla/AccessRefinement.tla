-------------------------- MODULE AccessRefinement --------------------------
(***************************************************************************)
(* Server implements AccessControl: the accounts are the login, role and   *)
(* blocked columns of the users table, and a connection acts for the login *)
(* its ClientHandler holds while authed_ is set.                           *)
(***************************************************************************)
EXTENDS Server

accountsBar == [u \in DOMAIN users |-> [role |-> users[u].role, blocked |-> users[u].blocked]]

whoBar == [c \in Conns |-> IF sess[c].authed THEN sess[c].login ELSE ""]

AC == INSTANCE AccessControl WITH accounts <- accountsBar, who <- whoBar

\* The server decides by the role cached at LOGIN, through statements that can
\* fail and crashes between them, and still does only what a server that looks
\* every account up when it is used may do.
ImplementsAccessControl == AC!AcSpec
=============================================================================
