---------------------------- MODULE ServerAudit ----------------------------
(***************************************************************************)
(* Server with history variables that only observe it, and the properties  *)
(* that relate the log, the tables and the answers over several steps.     *)
(***************************************************************************)
EXTENDS Server, SequencesExt

VARIABLES
    gapped,  \* accounts a row about which was lost
    acked,   \* the REGISTER requests answered ok
    before   \* tables and sessions when the request being handled was taken

auditVars == <<vars, gapped, acked, before>>

AuditInit == Init /\ gapped = {} /\ acked = {} /\ before = <<>>

Observe ==
    /\ gapped' = gapped \cup {u \in Named(row) : pc = "log" /\ pc' # "log" /\ logs' = logs}
    /\ acked' = acked \cup {r \in {req} : /\ pc = "log" /\ pc' = "line"
                                          /\ row.action = "register"}
    /\ before' = IF pc = "line" /\ pc' = "dispatch" THEN <<users, logs, sess>>
                 ELSE IF pc' \in {"dispatch", "insert", "log"} THEN before ELSE <<>>

AuditSpec == AuditInit /\ [][Next /\ Observe]_auditVars

-----------------------------------------------------------------------------
(* Properties.                                                             *)

Rows(login, action) == {i \in 1..Len(logs) : logs[i].login = login /\ logs[i].action = action}

\* The rows that report a block, or an unblock, of an account.
FlagRows(u, b) ==
    {i \in 1..Len(logs) : logs[i].action = "set_block" /\ logs[i].target = u /\ logs[i].flag = b}

\* The flag the newest of them reports, FALSE without one.
LoggedFlag(u) == \E i \in FlagRows(u, TRUE) : \A k \in FlagRows(u, FALSE) : k < i

\* Between handlers, replaying the log gives the blocked column, for every
\* account none of whose rows was lost to a crash or a failed insert.
AuditReplay ==
    pc # "log" => \A u \in DOMAIN users \ gapped : users[u].blocked = LoggedFlag(u)

\* By the log, for every account that lost no row, a login succeeded only when
\* it was not blocked: an unblocking row stands between a blocking row and a
\* later login row.
NoLoginWhileBlocked ==
    \A u \in Logins \ gapped : \A i \in FlagRows(u, TRUE), j \in Rows(u, "login") :
        i < j => \E k \in FlagRows(u, FALSE) : i < k /\ k < j

\* Every disconnect row of an account that lost no row has a login row of its
\* own before it.  (A session that logs in twice, or ends with the process,
\* leaves a login row over.)
DisconnectsPaired ==
    \A u \in Logins \ gapped : \A j \in Rows(u, "disconnect") :
        Cardinality({i \in Rows(u, "disconnect") : i <= j})
            <= Cardinality({i \in Rows(u, "login") : i < j})

\* A registration that was answered ok is never lost or overwritten, not by
\* another registration of the login nor by any crash.
AckedIsDurable ==
    \A r \in acked : /\ r.login \in DOMAIN users
                     /\ users[r.login].pwd_hash = Hash(r.password)

\* An error answer means that the request, from its first statement to its
\* last, changed neither a table nor a session.
ErrorMeansNoEffect ==
    [][(pc \in {"dispatch", "insert", "log"} /\ pc' = "line" /\ reply'[cur] = "error")
         => before = <<users', logs', sess'>>]_auditVars

\* The log tells of one registration of every account, of no more than that
\* even of one that lost rows, and of none of the seeded account
\* (docs/wiki/Roles-and-Security.md:16).
RegisteredOnce ==
    \A u \in Logins :
        /\ Cardinality(Rows(u, "register")) <= 1
        /\ u \in DOMAIN users \ ({"admin"} \cup gapped) /\ pc \notin {"insert", "log"} =>
               Rows(u, "register") # {}
=============================================================================
