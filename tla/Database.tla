------------------------------ MODULE Database ------------------------------
(***************************************************************************)
(* The SQLite store behind pd::server::Database (server/src/database.cpp): *)
(* a table of users, keyed by login, and an append-only table of log rows. *)
(* Every operation is ONE autocommitted SQL statement and is an action     *)
(* here; what the C++ function returns is a parameter of the action, bound *)
(* by the caller with \E.                                                  *)
(*                                                                         *)
(* q.exec() is checked nowhere or turned into a plain "false", so a        *)
(* statement that fails (disk full, database locked, table missing) is     *)
(* visible to the caller only as that result.  Such failures are counted   *)
(* in faults and bounded by MaxFaults.                                     *)
(***************************************************************************)
EXTENDS Naturals, Sequences

CONSTANTS
    Logins,     \* login names, "admin" among them
    Passwords,  \* passwords, "admin" among them
    MaxFaults   \* bound on failed statements

ASSUME DatabaseAssumption ==
    /\ "admin" \in Logins /\ "" \notin Logins
    /\ "admin" \in Passwords /\ "" \notin Passwords
    /\ MaxFaults \in Nat

VARIABLES
    schema,   \* the tables that exist
    users,    \* login |-> row, for the logins in the table
    logs,     \* the rows of logs, by ascending id
    faults    \* statements that have failed so far

dbVars == <<schema, users, logs, faults>>

-----------------------------------------------------------------------------
Roles == {"user", "admin"}

\* What the server writes into the action column of a log row.
Actions == {"seed_admin", "register", "login", "disconnect", "set_block",
            "vigenere", "sha384", "md5", "chord"}

\* Sha384::hash, abstracted to an injection that is not the identity.
Hash(password) == [sha384 |-> password]

Row == [pwd_hash: {Hash(p) : p \in Passwords}, role: Roles, blocked: BOOLEAN]

\* A log row without its timestamp: login is who acted.  The details of a
\* set_block row, "<login>:0" or "<login>:1", are its target and flag; those of
\* the other actions are wording and left out.
LogRow == [login: Logins \cup {"system"}, action: Actions,
           target: Logins \cup {""}, flag: BOOLEAN]

Entry(login, action) == [login |-> login, action |-> action, target |-> "", flag |-> FALSE]

DbTypeOK ==
    /\ schema \subseteq {"users", "logs"}
    /\ DOMAIN users \subseteq Logins
    /\ users \in [DOMAIN users -> Row]
    /\ logs \in Seq(LogRow)
    /\ faults \in 0..MaxFaults

DbInit ==
    /\ schema = {}
    /\ users = [l \in {} |-> [pwd_hash |-> Hash("admin"), role |-> "admin", blocked |-> FALSE]]
    /\ logs = <<>>
    /\ faults = 0

-----------------------------------------------------------------------------
\* A statement on table t runs when the table exists; it fails when it does
\* not, or when the storage lets it down.
Runs(t) == t \in schema /\ UNCHANGED faults

Fault == faults < MaxFaults /\ faults' = faults + 1

Fails(t) == (t \notin schema /\ UNCHANGED faults) \/ Fault

\* One CREATE TABLE IF NOT EXISTS of ensureSchema, its result ignored.
createTable(t) ==
    /\ \/ schema' = schema \cup {t} /\ UNCHANGED faults
       \/ schema' = schema /\ Fault
    /\ UNCHANGED <<users, logs>>

userExists(login, found) ==
    /\ \/ Runs("users") /\ found = (login \in DOMAIN users)
       \/ Fails("users") /\ found = FALSE
    /\ UNCHANGED <<schema, users, logs>>

\* Mutant: INSERT OR REPLACE.
UpsertUser(login, hash, role, ok) ==
    /\ \/ /\ Runs("users") /\ ok = TRUE
          /\ users' = [l \in DOMAIN users \cup {login} |->
                         IF l = login
                         THEN [pwd_hash |-> hash, role |-> role, blocked |-> FALSE]
                         ELSE users[l]]
       \/ Fails("users") /\ ok = FALSE /\ UNCHANGED users
    /\ UNCHANGED <<schema, logs>>

\* INSERT INTO users; login is the primary key, so a second row is refused.
registerUser(login, hash, role, ok) ==
    /\ \/ /\ Runs("users") /\ login \notin DOMAIN users /\ ok = TRUE
          /\ users' = [l \in DOMAIN users \cup {login} |->
                         IF l = login
                         THEN [pwd_hash |-> hash, role |-> role, blocked |-> FALSE]
                         ELSE users[l]]
       \/ /\ (Runs("users") /\ login \in DOMAIN users) \/ Fails("users")
          /\ ok = FALSE
          /\ UNCHANGED users
    /\ UNCHANGED <<schema, logs>>

\* When ok, *role and *blocked are the columns of users[login].
authenticate(login, hash, ok) ==
    /\ \/ /\ Runs("users")
          /\ ok = (login \in DOMAIN users /\ users[login].pwd_hash = hash)
       \/ Fails("users") /\ ok = FALSE
    /\ UNCHANGED <<schema, users, logs>>

\* Mutant: the flag is never cleared.
SetBlockedOnly(login, b, ok) ==
    /\ \/ /\ Runs("users") /\ login \in DOMAIN users /\ ok = TRUE
          /\ users' = [users EXCEPT ![login].blocked = TRUE]
       \/ /\ (Runs("users") /\ login \notin DOMAIN users) \/ Fails("users")
          /\ ok = FALSE
          /\ UNCHANGED users
    /\ UNCHANGED <<schema, logs>>

\* UPDATE users SET blocked; ok when it ran and touched a row, which it does
\* for an existing login even if the flag already had that value.
setBlocked(login, b, ok) ==
    /\ \/ /\ Runs("users") /\ login \in DOMAIN users /\ ok = TRUE
          /\ users' = [users EXCEPT ![login].blocked = b]
       \/ /\ (Runs("users") /\ login \notin DOMAIN users) \/ Fails("users")
          /\ ok = FALSE
          /\ UNCHANGED users
    /\ UNCHANGED <<schema, logs>>

\* listUsers and listLogs read one table and change nothing; a failed SELECT
\* is answered with an empty vector.
listTable(t) == (Runs(t) \/ Fails(t)) /\ UNCHANGED <<schema, users, logs>>

\* INSERT INTO logs, its result ignored.
log(row) ==
    /\ \/ Runs("logs") /\ logs' = Append(logs, row)
       \/ Fails("logs") /\ UNCHANGED logs
    /\ UNCHANGED <<schema, users>>
=============================================================================
