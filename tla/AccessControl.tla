--------------------------- MODULE AccessControl ---------------------------
(***************************************************************************)
(* What pd_server promises about accounts and rights, with no protocol, no *)
(* statements and no cached role: an account is looked up at the moment it *)
(* is used.  Server implements this specification (see AccessRefinement).  *)
(***************************************************************************)
CONSTANTS Logins, Conns

VARIABLES
    accounts,  \* login |-> [role, blocked], for the accounts there are
    who        \* the login each connection acts for, "" for nobody

acVars == <<accounts, who>>

AcInit == DOMAIN accounts = {} /\ who = [c \in Conns |-> ""]

\* A new account; only the seed makes an administrator.
Open(u, role) ==
    /\ u \notin DOMAIN accounts
    /\ role = "admin" => u = "admin"
    /\ accounts' = [v \in DOMAIN accounts \cup {u} |->
                      IF v = u THEN [role |-> role, blocked |-> FALSE] ELSE accounts[v]]
    /\ UNCHANGED who

\* Only an account that exists and is not blocked may be acted for.
Enter(c, u) ==
    /\ u \in DOMAIN accounts /\ ~accounts[u].blocked
    /\ who' = [who EXCEPT ![c] = u]
    /\ UNCHANGED accounts

\* Whoever blocks or unblocks acts for an administrator.
SetBlocked(c, u, b) ==
    /\ who[c] \in DOMAIN accounts /\ accounts[who[c]].role = "admin"
    /\ u \in DOMAIN accounts
    /\ accounts' = [accounts EXCEPT ![u].blocked = b]
    /\ UNCHANGED who

Leave(c) == who' = [who EXCEPT ![c] = ""] /\ UNCHANGED accounts

LeaveAll == who' = [c \in Conns |-> ""] /\ UNCHANGED accounts

AcNext ==
    \/ \E u \in Logins, role \in {"user", "admin"} : Open(u, role)
    \/ \E c \in Conns, u \in Logins : Enter(c, u)
    \/ \E c \in Conns, u \in Logins, b \in BOOLEAN : SetBlocked(c, u, b)
    \/ \E c \in Conns : Leave(c)
    \/ LeaveAll

AcSpec == AcInit /\ [][AcNext]_acVars
=============================================================================
