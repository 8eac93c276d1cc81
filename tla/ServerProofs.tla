---------------------------- MODULE ServerProofs ----------------------------
(***************************************************************************)
(* Theorems about Server and ServerAudit, for every set of logins,         *)
(* passwords, connections and requests and every bound.  IInv is the       *)
(* inductive invariant; the lemmas about Database say what one statement   *)
(* does to the tables.                                                     *)
(***************************************************************************)
EXTENDS AccessRefinement, ServerAudit, TLAPS, FiniteSetTheorems

\* A slot runs for a connection whose ClientHandler is alive.
Serving == pc \in Handling => cur \in conns

\* REGISTER reaches its INSERT only with both credentials present.
PendingInsert == pc = "insert" => req.login \in Logins /\ req.password \in Passwords

\* A row is written only for an account that is already in the table.
PendingRow == pc = "log" => Named(row) \subseteq DOMAIN users

IInv == TypeOK /\ Serving /\ PendingInsert /\ PendingRow /\ SessionCoherent /\ AuditSound

\* What no statement does: remove an account or change its role.
KeepsAccounts ==
    \A u \in DOMAIN users : u \in DOMAIN users' /\ users'[u].role = users[u].role

\* What any step does to the tables: accounts stay with their role, log rows
\* stay, and a new row is the seed's or names an account that exists.
TableStep ==
    /\ DbTypeOK' /\ KeepsAccounts
    /\ \/ logs' = logs
       \/ \E r \in LogRow : /\ logs' = Append(logs, r)
                            /\ r.action = "seed_admin" \/ Named(r) \subseteq DOMAIN users

-----------------------------------------------------------------------------
(* The statements of Database.                                             *)

\* A failure is counted, and the bound on failures is kept.
LEMMA FaultCount ==
    ASSUME DbTypeOK, NEW t, Runs(t) \/ Fails(t)
    PROVE  faults' \in 0..MaxFaults
<1>1. MaxFaults \in Nat /\ faults \in 0..MaxFaults
  BY DatabaseAssumption DEF DbTypeOK
<1>2. CASE faults' = faults
  BY <1>1, <1>2
<1>3. CASE Fault
  BY <1>1, <1>3 DEF Fault
<1> QED BY <1>2, <1>3 DEF Runs, Fails

\* The tables that a statement leaves alone stay well typed.
LEMMA Unchanged ==
    ASSUME DbTypeOK, UNCHANGED <<schema, users, logs>>, faults' \in 0..MaxFaults
    PROVE  DbTypeOK'
BY DEF DbTypeOK

\* A statement that only reads leaves the tables alone and well typed.
LEMMA ReadStatement ==
    ASSUME DbTypeOK, NEW login, NEW hash, NEW t, NEW ok \in BOOLEAN,
           userExists(login, ok) \/ authenticate(login, hash, ok) \/ listTable(t)
    PROVE  DbTypeOK' /\ users' = users /\ logs' = logs
<1>1. UNCHANGED <<schema, users, logs>> /\ \E s : Runs(s) \/ Fails(s)
  BY DEF userExists, authenticate, listTable
<1> QED BY <1>1, FaultCount, Unchanged

\* CREATE TABLE touches no row.
LEMMA CreateStatement ==
    ASSUME DbTypeOK, NEW t \in {"users", "logs"}, createTable(t)
    PROVE  DbTypeOK' /\ users' = users /\ logs' = logs
<1>1. users' = users /\ logs' = logs /\ schema' \subseteq {"users", "logs"}
  BY DEF DbTypeOK, createTable
<1>2. faults' = faults \/ Fault
  BY DEF createTable
<1>3. faults' \in 0..MaxFaults
  BY <1>2, FaultCount DEF Fails, DbTypeOK
<1> QED BY <1>1, <1>3 DEF DbTypeOK

\* INSERT INTO users adds the one account or changes nothing.
LEMMA RegisterStatement ==
    ASSUME DbTypeOK, NEW login \in Logins, NEW p \in Passwords, NEW role \in Roles,
           NEW ok \in BOOLEAN, registerUser(login, Hash(p), role, ok)
    PROVE  /\ DbTypeOK' /\ logs' = logs /\ KeepsAccounts
           /\ ok => login \notin DOMAIN users
           /\ ~ok => users' = users
           /\ ok => users' = [l \in DOMAIN users \cup {login} |->
                                IF l = login
                                THEN [pwd_hash |-> Hash(p), role |-> role, blocked |-> FALSE]
                                ELSE users[l]]
<1>1. CASE ok
  <2>1. /\ users' = [l \in DOMAIN users \cup {login} |->
                       IF l = login
                       THEN [pwd_hash |-> Hash(p), role |-> role, blocked |-> FALSE]
                       ELSE users[l]]
        /\ login \notin DOMAIN users
        /\ schema' = schema /\ logs' = logs /\ faults' = faults
    BY <1>1 DEF registerUser, Runs, Fails, Fault
  <2>2. [pwd_hash |-> Hash(p), role |-> role, blocked |-> FALSE] \in Row
    BY DEF Row
  <2>3. DOMAIN users' = DOMAIN users \cup {login} /\ users' \in [DOMAIN users' -> Row]
    BY <2>1, <2>2 DEF DbTypeOK
  <2>4. KeepsAccounts
    BY <2>1, <2>3 DEF KeepsAccounts
  <2> QED BY <1>1, <2>1, <2>3, <2>4 DEF DbTypeOK
<1>2. CASE ~ok
  <2>1. UNCHANGED <<schema, users, logs>> /\ (Runs("users") \/ Fails("users"))
    BY <1>2 DEF registerUser
  <2> QED BY <1>2, <2>1, FaultCount, Unchanged DEF KeepsAccounts
<1> QED BY <1>1, <1>2

\* UPDATE users changes at most the blocked column of the one account.
LEMMA SetBlockedStatement ==
    ASSUME DbTypeOK, NEW login, NEW b \in BOOLEAN, NEW ok \in BOOLEAN,
           setBlocked(login, b, ok)
    PROVE  /\ DbTypeOK' /\ logs' = logs /\ KeepsAccounts
           /\ DOMAIN users' = DOMAIN users
           /\ ok => login \in DOMAIN users
           /\ ok => users' = [users EXCEPT ![login].blocked = b]
           /\ ~ok => users' = users
<1>1. CASE ok
  <2>1. /\ users' = [users EXCEPT ![login].blocked = b] /\ login \in DOMAIN users
        /\ schema' = schema /\ logs' = logs /\ faults' = faults
    BY <1>1 DEF setBlocked, Runs, Fails, Fault
  <2>2. DOMAIN users' = DOMAIN users
    BY <2>1
  <2>3. ASSUME NEW u \in DOMAIN users
        PROVE  users'[u] \in Row /\ users'[u].role = users[u].role
    BY <2>1 DEF DbTypeOK, Row
  <2>4. users' \in [DOMAIN users' -> Row]
    BY <2>1, <2>2, <2>3 DEF DbTypeOK
  <2> QED BY <1>1, <2>1, <2>2, <2>3, <2>4 DEF DbTypeOK, KeepsAccounts
<1>2. CASE ~ok
  <2>1. UNCHANGED <<schema, users, logs>> /\ (Runs("users") \/ Fails("users"))
    BY <1>2 DEF setBlocked
  <2> QED BY <1>2, <2>1, FaultCount, Unchanged DEF KeepsAccounts
<1> QED BY <1>1, <1>2

\* INSERT INTO logs adds the one row or changes nothing.
LEMMA LogStatement ==
    ASSUME DbTypeOK, NEW r \in LogRow, log(r)
    PROVE  /\ DbTypeOK' /\ users' = users
           /\ logs' = logs \/ logs' = Append(logs, r)
<1>1. users' = users /\ schema' = schema /\ (logs' = logs \/ logs' = Append(logs, r))
  BY DEF log
<1>2. logs' \in Seq(LogRow)
  BY <1>1 DEF DbTypeOK
<1>3. faults' \in 0..MaxFaults
  BY FaultCount DEF log
<1> QED BY <1>1, <1>2, <1>3 DEF DbTypeOK

-----------------------------------------------------------------------------
(* The actions of Server, seen from the tables.                            *)

\* A row about who acted only.
LEMMA EntryTyped ==
    ASSUME NEW login \in Logins, NEW action \in Actions
    PROVE  Entry(login, action) \in LogRow /\ Named(Entry(login, action)) = {login}
BY DEF Entry, LogRow, Named

LEMMA NoTables ==
    ASSUME DbTypeOK, DbTypeOK', users' = users, logs' = logs
    PROVE  TableStep
BY DEF TableStep, KeepsAccounts

LEMMA SameTables ==
    ASSUME DbTypeOK, UNCHANGED dbVars
    PROVE  TableStep
<1>1. DbTypeOK' /\ users' = users /\ logs' = logs
  BY DEF DbTypeOK, dbVars
<1> QED BY <1>1, NoTables

\* Start-up adds at most the administrator and the seed's row.
LEMMA StartupTables ==
    ASSUME DbTypeOK, Startup
    PROVE  TableStep
<1>1. CASE Start
  BY <1>1, SameTables DEF Start
<1>2. CASE EnsureSchema
  <2>1. \E t \in {"users", "logs"} : createTable(t)
    BY <1>2 DEF EnsureSchema
  <2> QED BY <2>1, CreateStatement, NoTables
<1>3. CASE SeedExists
  <2>1. \E found \in BOOLEAN : userExists("admin", found)
    BY <1>3 DEF SeedExists
  <2> QED BY <2>1, ReadStatement, NoTables
<1>4. CASE SeedInsert
  <2>1. \E ok \in BOOLEAN : registerUser("admin", Hash("admin"), "admin", ok)
    BY <1>4 DEF SeedInsert
  <2>2. "admin" \in Logins /\ "admin" \in Passwords /\ "admin" \in Roles
    BY DatabaseAssumption DEF Roles
  <2> QED BY <2>1, <2>2, RegisterStatement DEF TableStep
<1>5. CASE SeedLog
  <2> DEFINE r == Entry("system", "seed_admin")
  <2>1. r \in LogRow /\ r.action = "seed_admin"
    BY DEF LogRow, Actions, Entry
  <2>2. log(r)
    BY <1>5 DEF SeedLog
  <2> HIDE DEF r
  <2>3. DbTypeOK' /\ users' = users /\ (logs' = logs \/ logs' = Append(logs, r))
    BY <2>1, <2>2, LogStatement
  <2> QED BY <2>1, <2>3 DEF TableStep, KeepsAccounts
<1>6. CASE Listen
  BY <1>6, SameTables DEF Listen
<1> QED BY <1>1, <1>2, <1>3, <1>4, <1>5, <1>6 DEF Startup

\* A handler's statements add at most one account, change at most one blocked
\* column, and log under the login of an account.
LEMMA HandlerTables ==
    ASSUME IInv, Handler
    PROVE  TableStep
<1> USE DEF IInv, TypeOK
<1>1. CASE TakeLine \/ Drained \/ NoEffect \/ cmdTool
  BY <1>1, SameTables DEF TakeLine, Drained, NoEffect, cmdTool
<1>2. CASE cmdRegister
  <2>1. UNCHANGED dbVars \/ \E found \in BOOLEAN : userExists(req.login, found)
    BY <1>2 DEF cmdRegister
  <2> QED BY <2>1, SameTables, ReadStatement, NoTables
<1>3. CASE cmdRegisterInsert
  <2>1. req.login \in Logins /\ req.password \in Passwords
    BY <1>3 DEF cmdRegisterInsert, PendingInsert
  <2>2. \E ok \in BOOLEAN : registerUser(req.login, Hash(req.password), "user", ok)
    BY <1>3 DEF cmdRegisterInsert
  <2> QED BY <2>1, <2>2, RegisterStatement DEF TableStep, Roles
<1>4. CASE cmdLogin
  <2>1. \/ UNCHANGED dbVars
        \/ \E ok \in BOOLEAN : authenticate(req.login, Hash(req.password), ok)
    BY <1>4 DEF cmdLogin
  <2> QED BY <2>1, SameTables, ReadStatement, NoTables
<1>5. CASE cmdSetBlock
  <2>1. \/ UNCHANGED dbVars
        \/ \E ok \in BOOLEAN : setBlocked(req.login, req.blocked, ok)
    BY <1>5 DEF cmdSetBlock
  <2>2. req.blocked \in BOOLEAN
    BY DEF Request
  <2> QED BY <2>1, <2>2, SameTables, SetBlockedStatement DEF TableStep
<1>6. CASE cmdList
  <2>1. UNCHANGED dbVars \/ \E t : listTable(t)
    BY <1>6 DEF cmdList
  <2> QED BY <2>1, SameTables, ReadStatement, NoTables
<1>7. CASE WriteLog
  <2>1. row \in LogRow /\ Named(row) \subseteq DOMAIN users /\ log(row)
    BY <1>7 DEF WriteLog, PendingRow
  <2> QED BY <2>1, LogStatement DEF TableStep, KeepsAccounts
<1> QED BY <1>1, <1>2, <1>3, <1>4, <1>5, <1>6, <1>7 DEF Handler

\* The log row of a closing connection names the account of its session.
LEMMA DisconnectedTables ==
    ASSUME IInv, NEW c \in Conns, Disconnected(c)
    PROVE  TableStep
<1> USE DEF IInv, TypeOK
<1>1. CASE sess[c].authed
  <2> DEFINE r == Entry(sess[c].login, "disconnect")
  <2>0. sess[c].login \in DOMAIN users
    BY <1>1 DEF SessionCoherent
  <2>1. Named(r) \subseteq DOMAIN users
    BY <2>0, EntryTyped DEF Actions, DbTypeOK
  <2>2. r \in LogRow
    BY <2>0, EntryTyped DEF Actions, DbTypeOK
  <2>3. log(r)
    BY <1>1 DEF Disconnected
  <2> HIDE DEF r
  <2>4. DbTypeOK' /\ users' = users /\ (logs' = logs \/ logs' = Append(logs, r))
    BY <2>2, <2>3, LogStatement
  <2> QED BY <2>1, <2>2, <2>4 DEF TableStep, KeepsAccounts
<1>2. CASE ~sess[c].authed
  BY <1>2, SameTables DEF Disconnected
<1> QED BY <1>1, <1>2

LEMMA NextTables ==
    ASSUME IInv, [Next]_vars
    PROVE  TableStep
<1> USE DEF IInv, TypeOK
<1>1. CASE Startup
  BY <1>1, StartupTables
<1>2. CASE Handler
  BY <1>2, HandlerTables
<1>3. ASSUME NEW c \in Conns, Disconnected(c) PROVE TableStep
  BY <1>3, DisconnectedTables
<1>4. CASE \/ Crash \/ UNCHANGED vars
           \/ \E c \in Conns : Connect(c) \/ ReadyRead(c)
           \/ \E c \in Conns, r \in Requests : Send(c, r)
  BY <1>4, SameTables DEF Crash, Connect, ReadyRead, Send, vars
<1> QED BY <1>1, <1>2, <1>3, <1>4 DEF Next

-----------------------------------------------------------------------------
(* The inductive invariant.                                                *)

LEMMA TablesKeepAudit ==
    ASSUME DbTypeOK, AuditSound, TableStep
    PROVE  AuditSound'
<1>1. logs \in Seq(LogRow) /\ \A u \in DOMAIN users : u \in DOMAIN users'
  BY DEF DbTypeOK, TableStep, KeepsAccounts
<1>2. CASE logs' = logs
  BY <1>1, <1>2 DEF AuditSound
<1>3. ASSUME NEW r \in LogRow, logs' = Append(logs, r),
             r.action = "seed_admin" \/ Named(r) \subseteq DOMAIN users
      PROVE  AuditSound'
  <2> SUFFICES ASSUME NEW i \in 1..Len(logs'), logs'[i].action # "seed_admin"
               PROVE  Named(logs'[i]) \subseteq DOMAIN users'
    BY DEF AuditSound
  <2>1. CASE i \in 1..Len(logs)
    BY <1>1, <1>3, <2>1 DEF AuditSound
  <2>2. CASE i = Len(logs) + 1
    BY <1>1, <1>3, <2>2
  <2> QED BY <1>1, <1>3, <2>1, <2>2
<1> QED BY <1>2, <1>3 DEF TableStep

\* A session stays coherent when it is kept, dropped, or opened for an account
\* with the role that account has.
LEMMA TablesKeepSessions ==
    ASSUME SessionCoherent, TableStep, users' = users \/ sess' = sess,
           \A c \in Conns :
               \/ sess'[c] = sess[c]
               \/ ~sess'[c].authed
               \/ /\ sess'[c].login \in DOMAIN users
                  /\ sess'[c].role = users[sess'[c].login].role
    PROVE  SessionCoherent'
BY DEF SessionCoherent, TableStep, KeepsAccounts

\* What a step leaves to be shown once the tables are taken care of.
LoopOK == /\ pc \in {"down", "idle"} \cup Booting \cup Handling
          /\ cur \in Conns \cup {NoConn}
          /\ req \in Request /\ row \in LogRow
          /\ conns \subseteq Conns
          /\ sess \in [Conns -> Session]
          /\ wire \in [Conns -> Seq(Request)] /\ buffer \in [Conns -> Seq(Request)]
          /\ reply \in [Conns -> {"none", "ok", "error"}]
          /\ sent \in 0..MaxRequests
          /\ Serving /\ PendingInsert /\ PendingRow /\ SessionCoherent

LEMMA Types ==
    /\ NoReq \in Request /\ NoRow \in LogRow /\ NewSession \in Session
    /\ ~NewSession.authed
BY DEF NoReq, Request, Commands, Tools, NoRow, Entry, LogRow, Actions, NewSession, Session, Roles

LEMMA InitIInv == Init => IInv
<1> SUFFICES ASSUME Init PROVE IInv
  OBVIOUS
<1>1. DbTypeOK
  <2>1. DOMAIN users = {} /\ users \in [DOMAIN users -> Row]
    BY DEF Init, DbInit
  <2>2. schema = {} /\ logs = <<>> /\ faults = 0 /\ MaxFaults \in Nat
    BY DatabaseAssumption DEF Init, DbInit
  <2>3. 0 \in 0..MaxFaults /\ <<>> \in Seq(LogRow)
    BY <2>2
  <2> QED BY <2>1, <2>2, <2>3 DEF DbTypeOK
<1>2. LoopOK
  BY Types, ServerAssumption
     DEF Init, LoopOK, Serving, PendingInsert, PendingRow, SessionCoherent, Handling
<1>3. AuditSound
  BY DEF Init, DbInit, AuditSound
<1> QED BY <1>1, <1>2, <1>3 DEF IInv, TypeOK, LoopOK

LEMMA StartupLoop ==
    ASSUME IInv, Startup, TableStep
    PROVE  LoopOK'
<1> USE DEF IInv, TypeOK
<1>1. /\ pc \notin Handling /\ pc' \in {"down", "idle"} \cup Booting
      /\ UNCHANGED <<cur, req, row, conns, wire, sent, sess, buffer, reply>>
  BY DEF Startup, Start, EnsureSchema, SeedExists, SeedInsert, SeedLog, Listen, Boot,
         sockVars, Handling, Booting
<1>2. pc' \notin Handling
  BY <1>1 DEF Handling, Booting
<1>3. SessionCoherent'
  BY <1>1, TablesKeepSessions
<1> QED BY <1>1, <1>2, <1>3 DEF LoopOK, Serving, PendingInsert, PendingRow, Handling

\* A handler's last statement: the answer is written, the next line is due.
LEMMA AnswerLoop ==
    ASSUME IInv, pc \in Handling, NEW outcome \in {"ok", "error"}, Answer(outcome),
           sess' \in [Conns -> Session], SessionCoherent'
    PROVE  LoopOK'
<1> USE DEF IInv, TypeOK
<1>1. cur \in conns /\ cur \in Conns
  BY DEF Serving
<1>2. /\ pc' = "line" /\ req' = NoReq /\ row' = NoRow
      /\ reply' = [reply EXCEPT ![cur] = outcome]
      /\ UNCHANGED <<cur, conns, wire, sent, buffer>>
  BY DEF Answer, sockVars
<1>3. reply' \in [Conns -> {"none", "ok", "error"}]
  BY <1>1, <1>2
<1>4. pc' \in {"down", "idle"} \cup Booting \cup Handling /\ pc' \notin {"insert", "log"}
  BY <1>2 DEF Handling
<1> QED BY <1>1, <1>2, <1>3, <1>4, Types DEF LoopOK, Serving, PendingInsert, PendingRow

\* A handler goes on to its INSERT.
LEMMA ThenLoop ==
    ASSUME IInv, pc \in Handling, NEW next \in {"insert", "log"}, NEW r \in LogRow,
           Then(next, r),
           next = "insert" => req.login \in Logins /\ req.password \in Passwords,
           next = "log" => Named(r) \subseteq DOMAIN users',
           sess' \in [Conns -> Session], SessionCoherent'
    PROVE  LoopOK'
<1> USE DEF IInv, TypeOK
<1>1. /\ pc' = next /\ row' = r
      /\ UNCHANGED <<cur, req, conns, wire, sent, buffer, reply>>
  BY DEF Then, sockVars
<1>2. cur \in conns
  BY DEF Serving
<1>3. pc' \in {"down", "idle"} \cup Booting \cup Handling
  BY <1>1 DEF Handling
<1> QED BY <1>1, <1>2, <1>3 DEF LoopOK, Serving, PendingInsert, PendingRow

LEMMA CredentialsPresent ==
    ASSUME IInv, ~MissingCredentials
    PROVE  req.login \in Logins /\ req.password \in Passwords
BY DEF IInv, TypeOK, MissingCredentials, Request

\* The handlers that leave every session as it is.
LEMMA QuietHandlerLoop ==
    ASSUME IInv, TableStep,
           NoEffect \/ cmdRegister \/ cmdRegisterInsert \/ cmdTool \/ cmdSetBlock \/ cmdList \/ WriteLog
    PROVE  LoopOK'
<1> USE DEF IInv, TypeOK
<1>1. pc \in Handling /\ sess' = sess
  BY DEF NoEffect, cmdRegister, cmdRegisterInsert, cmdTool, cmdSetBlock, cmdList, WriteLog,
         Dispatch, Handling
<1>2. sess' \in [Conns -> Session] /\ SessionCoherent'
  BY <1>1, TablesKeepSessions
<1>3. ASSUME NEW outcome \in {"ok", "error"}, Answer(outcome) PROVE LoopOK'
  BY <1>1, <1>2, <1>3, AnswerLoop
<1>4. ASSUME NEW r \in LogRow, Named(r) \subseteq DOMAIN users', Log(r)
      PROVE  LoopOK'
  BY <1>1, <1>2, <1>4, ThenLoop DEF Log
<1>4a. ASSUME NEW login \in DOMAIN users', NEW action \in Actions, Log(Entry(login, action))
       PROVE  LoopOK'
  <2>1. Entry(login, action) \in LogRow /\ Named(Entry(login, action)) \subseteq DOMAIN users'
    BY EntryTyped DEF TableStep, DbTypeOK
  <2> QED BY <1>4, <1>4a, <2>1
<1>5. CASE NoEffect
  BY <1>3, <1>5 DEF NoEffect
<1>6. CASE cmdRegister
  <2>1. CASE Then("insert", NoRow) /\ ~MissingCredentials
    <3>1. req.login \in Logins /\ req.password \in Passwords
      BY <2>1, CredentialsPresent
    <3> QED BY <1>1, <1>2, <2>1, <3>1, Types, ThenLoop
  <2>2. CASE Answer("error")
    BY <1>3, <2>2
  <2> QED BY <1>6, <2>1, <2>2 DEF cmdRegister
<1>7. CASE cmdRegisterInsert
  <2>1. PICK ok \in BOOLEAN :
           /\ registerUser(req.login, Hash(req.password), "user", ok)
           /\ IF ok THEN Log(Entry(req.login, "register")) ELSE Answer("error")
    BY <1>7 DEF cmdRegisterInsert
  <2>2. req.login \in Logins /\ req.password \in Passwords
    BY <1>7 DEF cmdRegisterInsert, PendingInsert
  <2>3. CASE ok
    <3> DEFINE new == [pwd_hash |-> Hash(req.password), role |-> "user", blocked |-> FALSE]
    <3>0. users' = [l \in DOMAIN users \cup {req.login} |->
                      IF l = req.login THEN new ELSE users[l]]
      BY <2>1, <2>3 DEF registerUser, Runs, Fails, Fault
    <3> HIDE DEF new
    <3>1. req.login \in DOMAIN users'
      BY <3>0
    <3>2. Log(Entry(req.login, "register")) /\ "register" \in Actions
      BY <2>1, <2>3 DEF Actions
    <3> QED BY <1>4a, <3>1, <3>2
  <2> QED BY <1>3, <2>1, <2>3
<1>8. CASE cmdTool
  <2>1. CASE requireAuth /\ Log(Entry(sess[cur].login, ActionOf[req.cmd]))
    <3>0. cur \in Conns /\ sess[cur].authed
      BY <1>1, <2>1 DEF requireAuth, Serving
    <3>1. sess[cur].login \in DOMAIN users'
      BY <3>0 DEF SessionCoherent, TableStep, KeepsAccounts
    <3>2. ActionOf[req.cmd] \in Actions
      BY <1>8 DEF cmdTool, Dispatch, Tools, ActionOf, Actions
    <3> QED BY <1>4a, <2>1, <3>1, <3>2
  <2>2. CASE Answer("error")
    BY <1>3, <2>2
  <2> QED BY <1>8, <2>1, <2>2 DEF cmdTool
<1>9. CASE cmdSetBlock
  <2>1. CASE Answer("error")
    BY <1>3, <2>1
  <2> DEFINE r == [login |-> sess[cur].login, action |-> "set_block",
                   target |-> req.login, flag |-> req.blocked]
  <2>2. ASSUME NEW ok \in BOOLEAN, ok, setBlocked(req.login, req.blocked, ok),
               requireAdmin, Log(r)
        PROVE  LoopOK'
    <3>1. req.blocked \in BOOLEAN
      BY DEF Request
    <3>2. req.login \in DOMAIN users'
      BY ZenonT(60), <2>2, <3>1, SetBlockedStatement
    <3>3. cur \in Conns /\ sess[cur].authed
      BY <1>1, <2>2 DEF requireAdmin, requireAuth, Serving
    <3>4. sess[cur].login \in DOMAIN users'
      BY <3>3 DEF SessionCoherent, TableStep, KeepsAccounts
    <3>5. DOMAIN users' \subseteq Logins
      BY DEF TableStep, DbTypeOK
    <3>6. r \in LogRow
      BY <3>1, <3>2, <3>4, <3>5 DEF LogRow, Actions
    <3>7. Named(r) \subseteq DOMAIN users'
      BY <3>2, <3>4 DEF Named
    <3> HIDE DEF r
    <3> QED BY <1>4, <2>2, <3>6, <3>7
  <2> QED BY <1>9, <2>1, <2>2 DEF cmdSetBlock
<1>10. CASE cmdList
  BY <1>3, <1>10 DEF cmdList
<1>11. CASE WriteLog
  BY <1>3, <1>11 DEF WriteLog
<1> QED BY <1>5, <1>6, <1>7, <1>8, <1>9, <1>10, <1>11

\* LOGIN, the one handler that changes a session: it binds the session to an
\* account of the table, with the role of that account.
LEMMA LoginLoop ==
    ASSUME IInv, TableStep, cmdLogin
    PROVE  LoopOK'
<1> USE DEF IInv, TypeOK
<1>1. pc \in Handling /\ cur \in Conns
  BY DEF cmdLogin, Dispatch, Handling, Serving
<1>2. CASE Answer("error") /\ sess' = sess
  <2>1. sess' \in [Conns -> Session] /\ SessionCoherent'
    BY <1>2, TablesKeepSessions
  <2> QED BY <1>1, <1>2, <2>1, AnswerLoop
<1>3. ASSUME NEW ok \in BOOLEAN, ok, authenticate(req.login, Hash(req.password), ok),
             sess' = [sess EXCEPT ![cur] = [login |-> req.login,
                                            role |-> users[req.login].role, authed |-> TRUE]],
             Log(Entry(req.login, "login"))
      PROVE  LoopOK'
  <2>1. req.login \in DOMAIN users /\ users' = users
    BY <1>3 DEF authenticate, Fails
  <2>2. req.login \in Logins /\ users[req.login].role \in Roles
    BY <2>1 DEF DbTypeOK, Row
  <2>3. sess' \in [Conns -> Session]
    BY <1>1, <1>3, <2>2 DEF Session
  <2>4. SessionCoherent'
    BY <1>1, <1>3, <2>1, TablesKeepSessions
  <2> DEFINE r == Entry(req.login, "login")
  <2>5. r \in LogRow
    BY <2>2, EntryTyped DEF Actions
  <2>6. Then("log", r) /\ Named(r) \subseteq DOMAIN users'
    BY <1>3, <2>1, <2>2, EntryTyped DEF Log, Actions
  <2> HIDE DEF r
  <2> QED BY <1>1, <2>3, <2>4, <2>5, <2>6, ThenLoop
<1> QED BY <1>2, <1>3 DEF cmdLogin

\* The event loop around the handlers.
LEMMA EventLoop ==
    ASSUME IInv, TableStep, NEW c \in Conns,
           TakeLine \/ Drained \/ Connect(c) \/ ReadyRead(c)
    PROVE  LoopOK'
<1> USE DEF IInv, TypeOK
<1>1. sess' = sess /\ SessionCoherent'
  BY TablesKeepSessions DEF TakeLine, Drained, Connect, ReadyRead, loopVars, sockVars
<1>2. CASE TakeLine
  <2>1. cur \in conns /\ cur \in Conns /\ pc' \in {"line", "dispatch"}
    BY <1>2 DEF TakeLine, Serving, Handling
  <2>2. Head(buffer[cur]) \in Request /\ Tail(buffer[cur]) \in Seq(Request)
    BY <1>2, <2>1 DEF TakeLine
  <2>3. req' \in Request /\ buffer' \in [Conns -> Seq(Request)]
    BY <1>2, <2>1, <2>2 DEF TakeLine
  <2> QED BY <1>1, <1>2, <2>1, <2>3
          DEF TakeLine, sockVars, LoopOK, Serving, PendingInsert, PendingRow, Handling
<1>3. CASE Drained
  BY <1>1, <1>3 DEF Drained, sockVars, LoopOK, Serving, PendingInsert, PendingRow, Handling
<1>4. CASE Connect(c)
  BY <1>1, <1>4
     DEF Connect, loopVars, LoopOK, Serving, PendingInsert, PendingRow, Handling
<1>5. CASE ReadyRead(c)
  <2>1. PICK n \in 1..Len(wire[c]) :
           /\ buffer' = [buffer EXCEPT ![c] = @ \o SubSeq(wire[c], 1, n)]
           /\ wire' = [wire EXCEPT ![c] = SubSeq(@, n + 1, Len(@))]
           /\ pc' = "line" /\ cur' = c /\ c \in conns
           /\ UNCHANGED <<dbVars, req, row, conns, sent, sess, reply>>
    BY <1>5 DEF ReadyRead
  <2>2. SubSeq(wire[c], 1, n) \in Seq(Request)
        /\ SubSeq(wire[c], n + 1, Len(wire[c])) \in Seq(Request)
    OBVIOUS
  <2>3. buffer' \in [Conns -> Seq(Request)] /\ wire' \in [Conns -> Seq(Request)]
    BY <2>1, <2>2
  <2> QED BY <1>1, <2>1, <2>3
          DEF LoopOK, Serving, PendingInsert, PendingRow, Handling
<1> QED BY <1>2, <1>3, <1>4, <1>5

\* What clients and the network do.
LEMMA EnvironmentLoop ==
    ASSUME IInv, TableStep, NEW c \in Conns, Disconnected(c) \/ \E r \in Requests : Send(c, r)
    PROVE  LoopOK'
<1> USE DEF IInv, TypeOK
<1>1. ASSUME NEW r \in Requests, Send(c, r) PROVE LoopOK'
  <2>1. sess' = sess /\ SessionCoherent'
    BY <1>1, TablesKeepSessions DEF Send
  <2>2. wire' \in [Conns -> Seq(Request)] /\ sent' \in 0..MaxRequests
    BY <1>1, ServerAssumption DEF Send
  <2>3. users' = users
    BY <1>1 DEF Send, dbVars
  <2> QED BY <1>1, <2>1, <2>2, <2>3
          DEF Send, loopVars, LoopOK, Serving, PendingInsert, PendingRow, Handling
<1>2. CASE Disconnected(c)
  <2>1. UNCHANGED <<pc, cur, req, row, sent, users>> /\ pc = "idle"
    BY <1>2 DEF Disconnected, loopVars, log, dbVars
  <2>2. /\ sess' = [sess EXCEPT ![c] = NewSession]
        /\ conns' = conns \ {c}
        /\ wire' = [wire EXCEPT ![c] = <<>>] /\ buffer' = [buffer EXCEPT ![c] = <<>>]
        /\ reply' = [reply EXCEPT ![c] = "none"]
    BY <1>2 DEF Disconnected, Forget
  <2>4. /\ conns' \subseteq Conns
        /\ wire' \in [Conns -> Seq(Request)] /\ buffer' \in [Conns -> Seq(Request)]
        /\ reply' \in [Conns -> {"none", "ok", "error"}]
    BY <2>2
  <2>3. sess' \in [Conns -> Session] /\ SessionCoherent'
    BY <2>1, <2>2, Types, TablesKeepSessions
  <2> QED BY <2>1, <2>3, <2>4
          DEF LoopOK, Serving, PendingInsert, PendingRow, Handling
<1> QED BY <1>1, <1>2

\* After a crash no session and no handler is left.
LEMMA CrashLoop ==
    ASSUME IInv, Crash
    PROVE  LoopOK'
<1>1. sess' \in [Conns -> Session] /\ SessionCoherent'
  BY Types DEF Crash, SessionCoherent
<1> QED BY <1>1, Types
        DEF Crash, IInv, TypeOK, LoopOK, Serving, PendingInsert, PendingRow, Handling

LEMMA StepIInv == IInv /\ [Next]_vars => IInv'
<1> SUFFICES ASSUME IInv, [Next]_vars PROVE IInv'
  OBVIOUS
<1>1. TableStep
  BY NextTables
<1>2. AuditSound'
  BY <1>1, TablesKeepAudit DEF IInv, TypeOK
<1>3. LoopOK'
  <2>1. CASE Startup
    BY <1>1, <2>1, StartupLoop
  <2>2. CASE Handler
    <3>1. CASE cmdLogin
      BY <1>1, <3>1, LoginLoop
    <3>2. CASE TakeLine \/ Drained
      <4>1. cur \in Conns
        BY <3>2 DEF TakeLine, Drained, IInv, TypeOK, Serving, Handling
      <4> QED BY <1>1, <3>2, <4>1, EventLoop
    <3> QED BY <1>1, <2>2, <3>1, <3>2, QuietHandlerLoop DEF Handler
  <2>3. ASSUME NEW c \in Conns, Connect(c) \/ ReadyRead(c) PROVE LoopOK'
    BY <1>1, <2>3, EventLoop
  <2>4. ASSUME NEW c \in Conns, Disconnected(c) PROVE LoopOK'
    BY <1>1, <2>4, EnvironmentLoop
  <2>5. ASSUME NEW c \in Conns, NEW r \in Requests, Send(c, r) PROVE LoopOK'
    BY <1>1, <2>5, EnvironmentLoop
  <2>6. CASE Crash
    BY <2>6, CrashLoop
  <2>7. CASE UNCHANGED vars
    <3>1. SessionCoherent'
      BY <1>1, <2>7, TablesKeepSessions DEF vars, dbVars, IInv
    <3>2. UNCHANGED <<users, pc, cur, req, row, conns, wire, sent, sess, buffer, reply>>
      BY <2>7 DEF vars, dbVars, loopVars, sockVars
    <3> QED BY <3>1, <3>2 DEF IInv, TypeOK, LoopOK, Serving, PendingInsert, PendingRow
  <2> QED BY <2>1, <2>2, <2>3, <2>4, <2>5, <2>6, <2>7 DEF Next
<1> QED BY <1>1, <1>2, <1>3 DEF IInv, TypeOK, LoopOK, TableStep

LEMMA Invariance == Spec => []IInv
BY InitIInv, StepIInv, PTL DEF Spec

-----------------------------------------------------------------------------
(* The theorems.                                                           *)

\* Every variable keeps its type: in particular a handler never runs without a
\* connection and no log row is written for nobody (clienthandler.cpp).
THEOREM TypeCorrect == Spec => []TypeOK
BY Invariance, PTL DEF IInv

\* The login and role that a ClientHandler caches stay those of an account in
\* the table (clienthandler.cpp cmdLogin, requireAdmin).
THEOREM SessionsStayCoherent == Spec => []SessionCoherent
BY Invariance, PTL DEF IInv

\* Every log row but the seed's names an account of the table, across crashes
\* and failed statements (database.cpp log, clienthandler.cpp).
THEOREM LogIsSound == Spec => []AuditSound
BY Invariance, PTL DEF IInv

\* Which actions can write the users table.
LEMMA WhoWritesUsers ==
    ASSUME IInv, [Next]_vars, users' # users
    PROVE  SeedInsert \/ cmdRegisterInsert \/ cmdSetBlock
<1> USE DEF IInv, TypeOK
<1>1. ASSUME Startup PROVE users' = users \/ SeedInsert
  <2>1. ASSUME EnsureSchema PROVE users' = users
    BY <2>1, CreateStatement DEF EnsureSchema
  <2>2. ASSUME SeedExists PROVE users' = users
    BY <2>2 DEF SeedExists, userExists
  <2>3. ASSUME SeedLog PROVE users' = users
    BY <2>3 DEF SeedLog, log
  <2> QED BY <1>1, <2>1, <2>2, <2>3 DEF Startup, Start, Listen, dbVars
<1>2. ASSUME Handler PROVE users' = users \/ cmdRegisterInsert \/ cmdSetBlock
  <2>1. ASSUME cmdRegister \/ cmdLogin PROVE users' = users
    BY <2>1 DEF cmdRegister, cmdLogin, userExists, authenticate, dbVars
  <2>2. ASSUME cmdList \/ WriteLog PROVE users' = users
    BY <2>2 DEF cmdList, WriteLog, listTable, log, dbVars
  <2> QED BY <1>2, <2>1, <2>2 DEF Handler, TakeLine, Drained, NoEffect, cmdTool, dbVars
<1>3. ASSUME NEW c \in Conns, Connect(c) \/ ReadyRead(c) \/ Disconnected(c)
      PROVE  users' = users
  BY <1>3 DEF Connect, ReadyRead, Disconnected, log, dbVars
<1>4. ASSUME Crash \/ UNCHANGED vars \/ \E c \in Conns, r \in Requests : Send(c, r)
      PROVE  users' = users
  BY <1>4 DEF Crash, Send, vars, dbVars
<1> QED BY <1>1, <1>2, <1>3, <1>4 DEF Next

\* A step changes a blocked column only in cmdSetBlock, past requireAdmin, and
\* the account it acts for is an administrator in the table at that moment.
THEOREM BlockingIsForAdmins == Spec => OnlyAdminsBlock
<1> DEFINE A == \A u \in DOMAIN users :
                  u \in DOMAIN users' /\ users'[u].blocked # users[u].blocked =>
                     /\ cur \in conns /\ sess[cur].login \in DOMAIN users
                     /\ users[sess[cur].login].role = "admin"
<1>1. ASSUME IInv, [Next]_vars PROVE [A]_vars
  <2> SUFFICES ASSUME NEW u \in DOMAIN users, u \in DOMAIN users',
                      users'[u].blocked # users[u].blocked
               PROVE  /\ cur \in conns /\ sess[cur].login \in DOMAIN users
                      /\ users[sess[cur].login].role = "admin"
    OBVIOUS
  <2>1. SeedInsert \/ cmdRegisterInsert \/ cmdSetBlock
    BY <1>1, WhoWritesUsers
  <2>2. CASE SeedInsert \/ cmdRegisterInsert
    <3>1. \E l, h, r, ok : registerUser(l, h, r, ok)
      BY <2>2 DEF SeedInsert, cmdRegisterInsert
    <3>2. users'[u] = users[u]
      BY <3>1 DEF registerUser
    <3> QED BY <3>2
  <2>3. CASE cmdSetBlock
    <3>1. requireAdmin
      BY <2>3 DEF cmdSetBlock, dbVars
    <3>2. cur \in conns /\ cur \in Conns
      BY <1>1, <2>3 DEF IInv, TypeOK, Serving, cmdSetBlock, Dispatch, Handling
    <3> QED BY <1>1, <3>1, <3>2 DEF requireAdmin, requireAuth, IInv, SessionCoherent
  <2> QED BY <2>1, <2>2, <2>3
<1>2. [][A]_vars <=> OnlyAdminsBlock
  BY PTL DEF OnlyAdminsBlock
<1> QED BY <1>1, <1>2, Invariance, PTL DEF Spec

\* How a step can change a session.
LEMMA WhoWritesSessions ==
    ASSUME IInv, [Next]_vars, NEW c \in Conns
    PROVE  \/ sess'[c] = sess[c]
           \/ sess'[c] = NewSession
           \/ /\ cmdLogin /\ c = cur /\ users' = users
              /\ req.login \in DOMAIN users /\ ~users[req.login].blocked
              /\ sess'[c] = [login |-> req.login, role |-> users[req.login].role,
                             authed |-> TRUE]
<1> USE DEF IInv, TypeOK
<1>1. CASE Startup
  BY <1>1 DEF Startup, Start, EnsureSchema, SeedExists, SeedInsert, SeedLog, Listen, Boot
<1>2. CASE cmdLogin
  <2>1. CASE sess' = sess
    BY <2>1
  <2>2. ASSUME NEW ok \in BOOLEAN, ok, authenticate(req.login, Hash(req.password), ok),
               ~users[req.login].blocked,
               sess' = [sess EXCEPT ![cur] = [login |-> req.login,
                                              role |-> users[req.login].role, authed |-> TRUE]]
        PROVE  \/ sess'[c] = sess[c]
               \/ /\ c = cur /\ users' = users
                  /\ req.login \in DOMAIN users /\ ~users[req.login].blocked
                  /\ sess'[c] = [login |-> req.login, role |-> users[req.login].role,
                                 authed |-> TRUE]
    <3>1. req.login \in DOMAIN users /\ users' = users
      BY <2>2 DEF authenticate, Fails
    <3> QED BY <2>2, <3>1
  <2> QED BY <1>2, <2>1, <2>2 DEF cmdLogin
<1>3. CASE Handler /\ ~cmdLogin
  BY <1>3 DEF Handler, TakeLine, Drained, NoEffect, cmdRegister, cmdRegisterInsert, cmdTool,
              cmdSetBlock, cmdList, WriteLog
<1>4. ASSUME NEW d \in Conns, Connect(d) \/ ReadyRead(d) \/ \E r \in Requests : Send(d, r)
      PROVE  sess' = sess
  BY <1>4 DEF Connect, ReadyRead, Send
<1>5. ASSUME NEW d \in Conns, Disconnected(d) PROVE sess'[c] = sess[c] \/ sess'[c] = NewSession
  BY <1>5 DEF Disconnected, Forget
<1>6. CASE Crash
  BY <1>6 DEF Crash
<1>7. CASE UNCHANGED vars
  BY <1>7 DEF vars
<1> QED BY <1>1, <1>2, <1>3, <1>4, <1>5, <1>6, <1>7 DEF Next

\* Once every administrator is blocked and none is logged in, no step brings one
\* back: not a login, not a registration, not the seed of a restart.
THEOREM NoWayBackIn == Spec => LockoutIsForever
<1>1. ASSUME IInv, [Next]_vars, LockedOut PROVE LockedOut'
  <2>1. TableStep
    BY <1>1, NextTables
  <2>2. "admin" \in DOMAIN users'
    BY <1>1, <2>1 DEF LockedOut, TableStep, KeepsAccounts
  <2>3. \A u \in DOMAIN users' : users'[u].role = "admin" => users'[u].blocked
    <3>1. CASE users' = users
      BY <1>1, <3>1 DEF LockedOut
    <3>2. CASE SeedInsert
      <4>1. \E ok \in BOOLEAN : registerUser("admin", Hash("admin"), "admin", ok)
        BY <3>2 DEF SeedInsert
      <4>2. users' = users
        BY <1>1, <4>1 DEF registerUser, LockedOut
      <4> QED BY <3>1, <4>2
    <3>3. CASE cmdRegisterInsert
      <4>1. PICK ok \in BOOLEAN : registerUser(req.login, Hash(req.password), "user", ok)
        BY <3>3 DEF cmdRegisterInsert
      <4>2. CASE ok
        <5> DEFINE new == [pwd_hash |-> Hash(req.password), role |-> "user", blocked |-> FALSE]
        <5>1. users' = [l \in DOMAIN users \cup {req.login} |->
                          IF l = req.login THEN new ELSE users[l]]
          BY <4>1, <4>2 DEF registerUser, Fails
        <5>2. new.role # "admin"
          OBVIOUS
        <5> HIDE DEF new
        <5> QED BY <1>1, <5>1, <5>2 DEF LockedOut
      <4>3. CASE ~ok
        BY <3>1, <4>1, <4>3 DEF registerUser
      <4> QED BY <4>2, <4>3
    <3>4. CASE cmdSetBlock
      <4>1. cur \in Conns
        BY <1>1, <3>4 DEF IInv, TypeOK, Serving, cmdSetBlock, Dispatch, Handling
      <4>2. ~requireAdmin
        BY <1>1, <4>1 DEF requireAdmin, LockedOut
      <4> QED BY <3>1, <3>4, <4>2 DEF cmdSetBlock, dbVars
    <3> QED BY <1>1, <3>1, <3>2, <3>3, <3>4, WhoWritesUsers
  <2>4. ASSUME NEW c \in Conns PROVE sess'[c].role # "admin"
    <3>1. \/ sess'[c] = sess[c] \/ sess'[c] = NewSession
          \/ \E u \in DOMAIN users : ~users[u].blocked /\ sess'[c].role = users[u].role
      BY <1>1, WhoWritesSessions
    <3>2. NewSession.role # "admin"
      BY DEF NewSession
    <3> QED BY <1>1, <3>1, <3>2 DEF LockedOut
  <2> QED BY <2>2, <2>3, <2>4 DEF LockedOut
<1>2. ASSUME IInv, [Next]_vars PROVE [LockedOut => LockedOut']_vars
  BY <1>1, <1>2
<1> QED BY <1>2, Invariance, PTL DEF Spec, LockoutIsForever

-----------------------------------------------------------------------------
(***************************************************************************)
(* The seed of the administrator: as long as no statement fails, the       *)
(* server accepts clients only with an administrator in its table.         *)
(***************************************************************************)

\* Where the start-up is before the seed has run its INSERT.
Unseeded == {"down", "create_users", "create_logs", "seed_exists", "seed_insert"}

\* Without a fault: the users table is there once its CREATE was executed, the
\* account once its INSERT was, and nobody else got the login first.
SeedInv ==
    faults = 0 =>
        /\ pc \notin {"down", "create_users"} => "users" \in schema
        /\ pc \notin Unseeded => "admin" \in DOMAIN users
        /\ "admin" \in DOMAIN users => users["admin"].role = "admin"

-----------------------------------------------------------------------------
\* The counter of faults goes up only when a statement fails, and tables stay.
Steady == /\ faults' = faults \/ Fault
          /\ schema \subseteq schema'

\* Whatever statement a step executes is steady.
LEMMA StatementsAreSteady ==
    ASSUME NEW t, NEW l, NEW h, NEW r, NEW ok, NEW b,
           \/ createTable(t) \/ userExists(l, ok) \/ registerUser(l, h, r, ok)
           \/ authenticate(l, h, ok) \/ setBlocked(l, b, ok) \/ listTable(t) \/ log(r)
           \/ UNCHANGED dbVars
    PROVE  Steady
BY DEF createTable, userExists, registerUser, authenticate, setBlocked, listTable, log,
       Runs, Fails, Steady, dbVars

LEMMA StepsAreSteady == ASSUME [Next]_vars PROVE Steady
<1>1. ASSUME Startup PROVE Steady
  BY <1>1, StatementsAreSteady
     DEF Startup, Start, EnsureSchema, SeedExists, SeedInsert, SeedLog, Listen
<1>2. ASSUME Handler PROVE Steady
  <2>1. ASSUME cmdRegister \/ cmdRegisterInsert \/ cmdLogin PROVE Steady
    BY <2>1, StatementsAreSteady DEF cmdRegister, cmdRegisterInsert, cmdLogin, dbVars
  <2>2. ASSUME cmdSetBlock \/ cmdList \/ WriteLog PROVE Steady
    BY <2>2, StatementsAreSteady DEF cmdSetBlock, cmdList, WriteLog, dbVars
  <2>3. ASSUME TakeLine \/ Drained \/ NoEffect \/ cmdTool PROVE Steady
    BY <2>3 DEF TakeLine, Drained, NoEffect, cmdTool, dbVars, Steady
  <2> QED BY <1>2, <2>1, <2>2, <2>3 DEF Handler
<1>3. ASSUME NEW c \in Conns, Disconnected(c) PROVE Steady
  BY <1>3, StatementsAreSteady DEF Disconnected
<1>4. ASSUME \/ Crash \/ UNCHANGED vars
             \/ \E c \in Conns : Connect(c) \/ ReadyRead(c)
             \/ \E c \in Conns, r \in Requests : Send(c, r)
      PROVE  Steady
  BY <1>4 DEF Crash, Connect, ReadyRead, Send, vars, dbVars, Steady
<1> QED BY <1>1, <1>2, <1>3, <1>4 DEF Next

\* A step that counted no fault had none behind it and is none itself.
LEMMA NoFault ==
    ASSUME TypeOK, [Next]_vars, faults' = 0
    PROVE  faults = 0 /\ ~Fault
<1>1. faults \in Nat
  <2>1. faults \in 0..MaxFaults
    BY DEF TypeOK, DbTypeOK
  <2>2. MaxFaults \in Nat
    BY DatabaseAssumption
  <2> QED BY <2>1, <2>2
<1>2. ~Fault
  BY <1>1 DEF Fault
<1> QED BY <1>2, StepsAreSteady DEF Steady

\* What the process can do before the administrator is seeded.
LEMMA EarlySteps ==
    ASSUME [Next]_vars, pc \in Unseeded
    PROVE  \/ pc' = pc \/ pc' = "down" \/ pc' = "create_users"
           \/ EnsureSchema \/ SeedExists \/ SeedInsert
<1>1. ASSUME Startup
      PROVE  pc' = "create_users" \/ EnsureSchema \/ SeedExists \/ SeedInsert
  BY <1>1 DEF Startup, Start, SeedLog, Listen, Boot, Unseeded
<1>2. ~Handler
  BY DEF Handler, TakeLine, Drained, NoEffect, cmdRegister, cmdRegisterInsert, cmdLogin,
         cmdTool, cmdSetBlock, cmdList, WriteLog, Dispatch, Unseeded
<1>3. \A c \in Conns : ~Connect(c) /\ ~ReadyRead(c) /\ ~Disconnected(c)
  BY DEF Connect, ReadyRead, Disconnected, Unseeded
<1>4. ASSUME NEW c \in Conns, NEW r \in Requests, Send(c, r) PROVE pc' = pc
  BY <1>4 DEF Send, loopVars
<1>5. Crash => pc' = "down"
  BY DEF Crash
<1>6. UNCHANGED vars => pc' = pc
  BY DEF vars, loopVars
<1> QED BY <1>1, <1>2, <1>3, <1>4, <1>5, <1>6 DEF Next

-----------------------------------------------------------------------------
\* The three conjuncts of SeedInv, one lemma each.
LEMMA TableStays ==
    ASSUME TypeOK, SeedInv, [Next]_vars, faults' = 0, pc' \notin {"down", "create_users"}
    PROVE  "users" \in schema'
<1>1. faults = 0 /\ ~Fault /\ schema \subseteq schema'
  BY NoFault, StepsAreSteady DEF Steady
<1>2. CASE "users" \in schema
  BY <1>1, <1>2
<1>3. CASE "users" \notin schema
  <2>1. pc \in {"down", "create_users"}
    BY <1>1, <1>3 DEF SeedInv
  <2>2. EnsureSchema \/ SeedExists \/ SeedInsert
    BY <2>1, EarlySteps DEF Unseeded
  <2>3. EnsureSchema /\ pc = "create_users"
    BY <2>1, <2>2 DEF SeedExists, SeedInsert, EnsureSchema, Boot
  <2>4. createTable("users")
    BY <2>3 DEF EnsureSchema, Boot
  <2> QED BY <1>1, <2>4 DEF createTable
<1> QED BY <1>2, <1>3

LEMMA AccountStays ==
    ASSUME IInv, SeedInv, [Next]_vars, faults' = 0, pc' \notin Unseeded
    PROVE  "admin" \in DOMAIN users'
<1>1. faults = 0 /\ ~Fault
  BY NoFault DEF IInv
<1>2. CASE "admin" \in DOMAIN users
  BY <1>2, NextTables DEF TableStep, KeepsAccounts
<1>3. CASE "admin" \notin DOMAIN users
  <2>1. pc \in Unseeded
    BY <1>1, <1>3 DEF SeedInv
  <2>2. EnsureSchema \/ SeedExists \/ SeedInsert
    BY <2>1, EarlySteps DEF Unseeded
  <2>3. CASE EnsureSchema
    BY <2>3 DEF EnsureSchema, Boot, Unseeded
  <2>4. CASE SeedExists \/ SeedInsert
    <3>1. pc \in {"seed_exists", "seed_insert"}
      BY <2>4 DEF SeedExists, SeedInsert, Boot
    <3>2. "users" \in schema /\ ~Fails("users")
      BY <1>1, <3>1 DEF SeedInv, Fails
    <3>3. CASE SeedExists
      <4>1. ~userExists("admin", TRUE)
        BY <1>3, <3>2 DEF userExists
      <4>2. pc' = "seed_insert"
        BY <3>3, <4>1 DEF SeedExists, Boot
      <4> QED BY <4>2 DEF Unseeded
    <3>4. CASE SeedInsert
      BY <1>3, <3>2, <3>4 DEF SeedInsert, registerUser
    <3> QED BY <2>4, <3>3, <3>4
  <2> QED BY <2>2, <2>3, <2>4
<1> QED BY <1>2, <1>3

LEMMA NobodyElseIsAdmin ==
    ASSUME IInv, SeedInv, [Next]_vars, faults' = 0, "admin" \in DOMAIN users'
    PROVE  users'["admin"].role = "admin"
<1>1. faults = 0
  BY NoFault DEF IInv
<1>2. CASE "admin" \in DOMAIN users
  BY <1>1, <1>2, NextTables DEF SeedInv, TableStep, KeepsAccounts
<1>3. CASE "admin" \notin DOMAIN users
  <2>1. SeedInsert \/ cmdRegisterInsert \/ cmdSetBlock
    BY <1>3, WhoWritesUsers
  <2>2. pc \in Unseeded
    BY <1>1, <1>3 DEF SeedInv
  <2>3. SeedInsert
    BY <2>1, <2>2 DEF Unseeded, cmdRegisterInsert, cmdSetBlock, Dispatch
  <2>4. PICK ok \in BOOLEAN : registerUser("admin", Hash("admin"), "admin", ok)
    BY <2>3 DEF SeedInsert
  <2>5. ok
    BY <1>3, <2>4 DEF registerUser
  <2>6. users'["admin"] = [pwd_hash |-> Hash("admin"), role |-> "admin", blocked |-> FALSE]
    BY <2>4, <2>5 DEF registerUser, Fails
  <2> QED BY <2>6
<1> QED BY <1>2, <1>3

\* With no statement failed, "admin" is an administrator whenever the server is
\* idle: kills during earlier starts are made good by the next, and a client
\* that registers as "admin" comes too late (database.cpp:53-61).
THEOREM TheAdminIsSeeded == Spec => []AdminSeededUnlessFault
<1>1. Init => SeedInv
  BY DEF Init, DbInit, SeedInv, Unseeded
<1>2. IInv /\ SeedInv /\ [Next]_vars => SeedInv'
  BY TableStays, AccountStays, NobodyElseIsAdmin DEF SeedInv, IInv
<1>3. SeedInv => AdminSeededUnlessFault
  BY DEF SeedInv, AdminSeededUnlessFault, AdminSeeded, Unseeded
<1> QED BY <1>1, <1>2, <1>3, Invariance, PTL DEF Spec

-----------------------------------------------------------------------------
(***************************************************************************)
(* Server implements AccessControl.                                        *)
(***************************************************************************)

LEMMA InitRefines == Init => AC!AcInit
<1> SUFFICES ASSUME Init PROVE AC!AcInit
  OBVIOUS
<1>1. DOMAIN users = {} /\ \A c \in Conns : ~sess[c].authed
  BY DEF Init, DbInit, NewSession
<1> QED BY <1>1 DEF AC!AcInit, accountsBar, whoBar

\* A new row of users is a new account.
LEMMA RegisterOpens ==
    ASSUME NEW login \in Logins, NEW h, NEW role \in Roles, NEW ok \in BOOLEAN,
           registerUser(login, h, role, ok), role = "admin" => login = "admin",
           sess' = sess
    PROVE  [AC!AcNext]_(AC!acVars)
<1>1. whoBar' = whoBar
  BY DEF whoBar
<1>2. CASE users' = users
  BY <1>1, <1>2 DEF AC!acVars, accountsBar
<1>3. CASE ok
  <2> DEFINE new == [pwd_hash |-> h, role |-> role, blocked |-> FALSE]
  <2>1. /\ login \notin DOMAIN users
        /\ users' = [l \in DOMAIN users \cup {login} |-> IF l = login THEN new ELSE users[l]]
    BY <1>3 DEF registerUser, Runs, Fails
  <2>2. new.role = role /\ new.blocked = FALSE
    OBVIOUS
  <2> HIDE DEF new
  <2>3. accountsBar' = [v \in DOMAIN accountsBar \cup {login} |->
                          IF v = login THEN [role |-> role, blocked |-> FALSE]
                          ELSE accountsBar[v]]
    BY <2>1, <2>2 DEF accountsBar
  <2>4. login \notin DOMAIN accountsBar
    BY <2>1 DEF accountsBar
  <2>5. AC!Open(login, role)
    BY <1>1, <2>3, <2>4 DEF AC!Open
  <2> QED BY <2>5 DEF AC!AcNext, Roles
<1> QED BY <1>2, <1>3 DEF registerUser

\* An UPDATE past requireAdmin is a blocking by an administrator.
LEMMA SetBlockRefines ==
    ASSUME IInv, cmdSetBlock
    PROVE  [AC!AcNext]_(AC!acVars)
<1> USE DEF IInv, TypeOK
<1>1. sess' = sess /\ whoBar' = whoBar
  BY DEF cmdSetBlock, whoBar
<1>2. CASE users' = users
  BY <1>1, <1>2 DEF AC!acVars, accountsBar
<1>3. CASE users' # users
  <2>1. PICK ok \in BOOLEAN : setBlocked(req.login, req.blocked, ok)
    BY <1>3 DEF cmdSetBlock, dbVars
  <2>2. requireAdmin
    BY <1>3 DEF cmdSetBlock, dbVars
  <2>3. cur \in Conns
    BY DEF Serving, cmdSetBlock, Dispatch, Handling
  <2>4. req.blocked \in BOOLEAN
    BY DEF Request
  <2>5. /\ req.login \in DOMAIN users
        /\ users' = [users EXCEPT ![req.login].blocked = req.blocked]
    BY ZenonT(60), <1>3, <2>1, <2>4, SetBlockedStatement
  <2>6. accountsBar' = [accountsBar EXCEPT ![req.login].blocked = req.blocked]
    <3>1. DOMAIN users' = DOMAIN users
      BY <2>5
    <3>2. ASSUME NEW u \in DOMAIN users, u # req.login
          PROVE  users'[u] = users[u]
      BY <2>5, <3>2
    <3>3. users'[req.login].blocked = req.blocked /\ users'[req.login].role = users[req.login].role
      BY <2>5 DEF DbTypeOK, Row
    <3>4. accountsBar' = [u \in DOMAIN users |->
              IF u = req.login THEN [role |-> users[u].role, blocked |-> req.blocked]
              ELSE accountsBar[u]]
      BY <3>1, <3>2, <3>3 DEF accountsBar
    <3> QED BY <2>5, <3>4 DEF accountsBar
  <2>7. /\ whoBar[cur] \in DOMAIN accountsBar /\ accountsBar[whoBar[cur]].role = "admin"
        /\ req.login \in DOMAIN accountsBar
    BY <2>2, <2>3, <2>5 DEF requireAdmin, requireAuth, whoBar, accountsBar, SessionCoherent
  <2>8. AC!SetBlocked(cur, req.login, req.blocked)
    BY <1>1, <2>6, <2>7 DEF AC!SetBlocked
  <2>9. req.login \in Logins
    BY <2>5 DEF DbTypeOK
  <2> QED BY <2>3, <2>4, <2>8, <2>9 DEF AC!AcNext
<1> QED BY <1>2, <1>3

\* A step that leaves the users table alone changes only who acts for whom.
LEMMA SessionsRefine ==
    ASSUME IInv, [Next]_vars, users' = users, NEW c \in Conns,
           \A d \in Conns \ {c} : sess'[d] = sess[d]
    PROVE  [AC!AcNext]_(AC!acVars)
<1> USE DEF IInv, TypeOK
<1>1. accountsBar' = accountsBar
  BY DEF accountsBar
<1>2. \A d \in Conns \ {c} : whoBar'[d] = whoBar[d]
  BY DEF whoBar
<1>3. CASE sess'[c] = sess[c]
  <2>1. whoBar' = whoBar
    BY <1>2, <1>3 DEF whoBar
  <2> QED BY <1>1, <2>1 DEF AC!acVars
<1>4. CASE sess'[c] = NewSession
  <2>1. whoBar' = [whoBar EXCEPT ![c] = ""]
    <3>1. whoBar'[c] = ""
      BY <1>4, Types DEF whoBar
    <3>2. whoBar' = [d \in Conns |-> IF d = c THEN "" ELSE whoBar[d]]
      BY <1>2, <3>1 DEF whoBar
    <3> QED BY <3>2 DEF whoBar
  <2>2. AC!Leave(c)
    BY <1>1, <2>1 DEF AC!Leave
  <2> QED BY <2>2 DEF AC!AcNext
<1>5. ASSUME NEW u \in DOMAIN users, ~users[u].blocked,
             sess'[c] = [login |-> u, role |-> users[u].role, authed |-> TRUE]
      PROVE  [AC!AcNext]_(AC!acVars)
  <2>1. whoBar' = [whoBar EXCEPT ![c] = u]
    <3> DEFINE s == [login |-> u, role |-> users[u].role, authed |-> TRUE]
    <3>0. s.authed = TRUE /\ s.login = u
      OBVIOUS
    <3>1. sess'[c] = s
      BY <1>5
    <3> HIDE DEF s
    <3>3. whoBar'[c] = u
      BY <3>0, <3>1 DEF whoBar
    <3>2. whoBar' = [d \in Conns |-> IF d = c THEN u ELSE whoBar[d]]
      BY <1>2, <3>3 DEF whoBar
    <3> QED BY <3>2 DEF whoBar
  <2>2. u \in DOMAIN accountsBar /\ ~accountsBar[u].blocked
    BY <1>5 DEF accountsBar
  <2>3. AC!Enter(c, u)
    BY <1>1, <2>1, <2>2 DEF AC!Enter
  <2>4. u \in Logins
    BY DEF DbTypeOK
  <2> QED BY <2>3, <2>4 DEF AC!AcNext
<1> QED BY <1>3, <1>4, <1>5, WhoWritesSessions

LEMMA StepRefines ==
    ASSUME IInv, [Next]_vars
    PROVE  [AC!AcNext]_(AC!acVars)
<1> USE DEF IInv, TypeOK
<1>1. CASE users' # users
  <2>1. CASE SeedInsert
    <3>1. sess' = sess /\ \E ok \in BOOLEAN : registerUser("admin", Hash("admin"), "admin", ok)
      BY <2>1 DEF SeedInsert, Boot
    <3>2. "admin" \in Logins /\ "admin" \in Roles
      BY DatabaseAssumption DEF Roles
    <3> QED BY <3>1, <3>2, RegisterOpens
  <2>2. CASE cmdRegisterInsert
    <3>1. /\ sess' = sess /\ req.login \in Logins
          /\ \E ok \in BOOLEAN : registerUser(req.login, Hash(req.password), "user", ok)
      BY <2>2 DEF cmdRegisterInsert, PendingInsert
    <3>2. "user" \in Roles /\ "user" # "admin"
      BY DEF Roles
    <3> QED BY <3>1, <3>2, RegisterOpens
  <2> QED BY <1>1, <2>1, <2>2, WhoWritesUsers, SetBlockRefines
<1>2. CASE users' = users /\ Crash
  <2>1. accountsBar' = accountsBar /\ whoBar' = [c \in Conns |-> ""]
    BY <1>2, Types DEF Crash, accountsBar, whoBar
  <2>2. AC!LeaveAll
    BY <2>1 DEF AC!LeaveAll
  <2> QED BY <2>2 DEF AC!AcNext
<1>3. CASE users' = users /\ sess' = sess
  BY <1>3 DEF AC!acVars, accountsBar, whoBar
<1>4. CASE users' = users /\ ~Crash /\ sess' # sess
  <2>1. \E c \in Conns : \A d \in Conns \ {c} : sess'[d] = sess[d]
    <3>1. CASE cmdLogin
      <4>1. cur \in Conns
        BY <3>1 DEF Serving, cmdLogin, Dispatch, Handling
      <4> QED BY <3>1, <4>1 DEF cmdLogin
    <3>2. ASSUME NEW c \in Conns, Disconnected(c)
          PROVE  \A d \in Conns \ {c} : sess'[d] = sess[d]
      BY <3>2 DEF Disconnected, Forget
    <3>3. cmdLogin \/ \E c \in Conns : Disconnected(c)
      BY <1>4 DEF Next, Startup, Start, EnsureSchema, SeedExists, SeedInsert, SeedLog, Listen, Boot,
         Handler, TakeLine, Drained, NoEffect, cmdRegister, cmdRegisterInsert, cmdTool,
         cmdSetBlock, cmdList, WriteLog, Connect, ReadyRead, Send, vars
    <3> QED BY <3>1, <3>2, <3>3
  <2> QED BY <1>4, <2>1, SessionsRefine
<1> QED BY <1>1, <1>2, <1>3, <1>4

\* pd_server does what AccessControl allows and nothing else: rights come from
\* the table at the moment they are used, though the code caches the role.
THEOREM ServerImplementsAccessControl == Spec => ImplementsAccessControl
BY InitRefines, StepRefines, Invariance, PTL
   DEF Spec, ImplementsAccessControl, AC!AcSpec

-----------------------------------------------------------------------------
(***************************************************************************)
(* ServerAudit: what the log says of registrations, blocks and logins is   *)
(* true, an answer "ok" to a registration is kept for good, and an answer  *)
(* "error" means that nothing was done.                                    *)
(*                                                                         *)
(* A step does one of eight things to the tables and to the row that waits *)
(* to be written (StepKinds); each part of the invariant is shown to       *)
(* survive each of them.                                                   *)
(***************************************************************************)

-----------------------------------------------------------------------------
(* What a step does, as far as the log is concerned.                       *)

\* Nothing, and a row that waits goes on waiting.
Quiet ==
    /\ users' = users /\ logs' = logs
    /\ pc = "log" <=> pc' = "log"
    /\ pc = "log" => row' = row /\ req' = req /\ cur' = cur /\ sess' = sess

\* A row that waits for nobody: the seed's, or that of a session that ends.
Noted ==
    /\ pc # "log" /\ pc' # "log" /\ users' = users
    /\ \E r \in LogRow :
           /\ logs' = Append(logs, r)
           /\ \/ r.action = "seed_admin"
              \/ /\ r.action = "disconnect"
                 /\ \E c \in Conns : sess[c].authed /\ sess[c].login = r.login /\ ~sess'[c].authed

Adds(login, password) ==
    /\ login \notin DOMAIN users
    /\ DOMAIN users' = DOMAIN users \cup {login}
    /\ users'[login].pwd_hash = Hash(password) /\ users'[login].blocked = FALSE
    /\ \A u \in DOMAIN users : users'[u] = users[u]

Seeded == pc # "log" /\ pc' # "log" /\ logs' = logs /\ Adds("admin", "admin")

\* From here on a row waits to be written.
Registered ==
    /\ pc = "insert" /\ pc' = "log" /\ logs' = logs
    /\ Adds(req.login, req.password)
    /\ row'.action = "register" /\ row'.login = req.login /\ req' = req

Flagged ==
    /\ pc = "dispatch" /\ pc' = "log" /\ logs' = logs
    /\ DOMAIN users' = DOMAIN users
    /\ row'.action = "set_block" /\ row'.target \in DOMAIN users
    /\ users'[row'.target].blocked = row'.flag
    /\ \A u \in DOMAIN users :
           /\ users'[u].pwd_hash = users[u].pwd_hash
           /\ u # row'.target => users'[u].blocked = users[u].blocked

Used ==
    /\ pc = "dispatch" /\ pc' = "log" /\ logs' = logs /\ users' = users
    /\ row'.action \notin {"register", "set_block", "disconnect"}
    /\ row'.action = "login" => /\ users[row'.login].blocked = FALSE
                               /\ cur' \in Conns /\ sess'[cur'].authed
                               /\ sess'[cur'].login = row'.login

\* The row is written, or lost with its statement or with the process.
Written == pc = "log" /\ pc' # "log" /\ users' = users /\ logs' = Append(logs, row)

Lost == pc = "log" /\ pc' # "log" /\ users' = users /\ logs' = logs

Kinds == Quiet \/ Noted \/ Seeded \/ Registered \/ Flagged \/ Used \/ Written \/ Lost

LEMMA StartupKinds == ASSUME IInv, Startup PROVE Kinds
<1> USE DEF IInv, TypeOK
<1>1. CASE Start \/ Listen
  BY <1>1 DEF Start, Listen, Boot, dbVars, Kinds, Quiet
<1>2. CASE EnsureSchema
  BY <1>2 DEF EnsureSchema, Boot, createTable, Kinds, Quiet
<1>3. CASE SeedExists
  BY <1>3 DEF SeedExists, Boot, userExists, Kinds, Quiet
<1>4. CASE SeedInsert
  <2>1. PICK ok \in BOOLEAN : registerUser("admin", Hash("admin"), "admin", ok)
    BY <1>4 DEF SeedInsert
  <2>2. /\ pc = "seed_insert" /\ pc' = "seed_log"
        /\ logs' = logs
    BY <1>4 DEF SeedInsert, Boot, registerUser
  <2>3. CASE ok
    <3>1. "admin" \notin DOMAIN users
      BY <2>1, <2>3 DEF registerUser, Fails, Fault
    <3>2. users' = [l \in DOMAIN users \cup {"admin"} |->
                      IF l = "admin"
                      THEN [pwd_hash |-> Hash("admin"), role |-> "admin", blocked |-> FALSE]
                      ELSE users[l]]
      BY <2>1, <2>3 DEF registerUser, Fails, Fault
    <3>3. Adds("admin", "admin")
      BY <3>1, <3>2 DEF Adds
    <3> QED BY <2>2, <3>3 DEF Kinds, Seeded
  <2>4. CASE ~ok
    <3>1. users' = users
      BY <2>1, <2>4 DEF registerUser
    <3> QED BY <2>2, <3>1 DEF Kinds, Quiet
  <2> QED BY <2>3, <2>4
<1>5. CASE SeedLog
  <2>0. /\ Entry("system", "seed_admin") \in LogRow
        /\ Entry("system", "seed_admin").action = "seed_admin"
    BY DEF LogRow, Actions, Entry
  <2>1. PICK r \in LogRow : r = Entry("system", "seed_admin") /\ r.action = "seed_admin"
    BY <2>0
  <2>2. /\ pc = "seed_log" /\ pc' = "listen" /\ users' = users
        /\ logs' = logs \/ logs' = Append(logs, r)
    BY <1>5, <2>1 DEF SeedLog, Boot, log
  <2> QED BY <2>1, <2>2 DEF Kinds, Noted, Quiet
<1> QED BY <1>1, <1>2, <1>3, <1>4, <1>5 DEF Startup

LEMMA HandlerKinds == ASSUME IInv, Handler PROVE Kinds
<1> USE DEF IInv, TypeOK
<1>1. CASE TakeLine \/ Drained \/ NoEffect
  BY <1>1 DEF TakeLine, Drained, NoEffect, Dispatch, Answer, dbVars, Kinds, Quiet
<1>2. CASE cmdRegister
  BY <1>2 DEF cmdRegister, Dispatch, Answer, Then, userExists, dbVars, Kinds, Quiet
<1>3. CASE cmdRegisterInsert
  <2>1. PICK ok \in BOOLEAN :
          /\ registerUser(req.login, Hash(req.password), "user", ok)
          /\ IF ok THEN Log(Entry(req.login, "register")) ELSE Answer("error")
    BY <1>3 DEF cmdRegisterInsert
  <2>2. pc = "insert" /\ logs' = logs
    BY <1>3, <2>1 DEF cmdRegisterInsert, registerUser
  <2>3. CASE ok
    <3>1. req.login \notin DOMAIN users
      BY <2>1, <2>3 DEF registerUser, Fails, Fault
    <3>2. users' = [l \in DOMAIN users \cup {req.login} |->
                      IF l = req.login
                      THEN [pwd_hash |-> Hash(req.password), role |-> "user", blocked |-> FALSE]
                      ELSE users[l]]
      BY <2>1, <2>3 DEF registerUser, Fails, Fault
    <3>3. Adds(req.login, req.password)
      BY <3>1, <3>2 DEF Adds
    <3>4. /\ pc' = "log" /\ req' = req
          /\ row'.action = "register" /\ row'.login = req.login
      <4>1. Then("log", Entry(req.login, "register"))
        BY <2>1, <2>3 DEF Log
      <4>2. pc' = "log" /\ req' = req /\ row' = Entry(req.login, "register")
        BY <4>1 DEF Then
      <4> QED BY <4>2 DEF Entry
    <3> QED BY <2>2, <3>3, <3>4 DEF Kinds, Registered
  <2>4. CASE ~ok
    <3>1. users' = users /\ pc' = "line"
      BY <2>1, <2>4 DEF registerUser, Answer
    <3> QED BY <2>2, <3>1 DEF Kinds, Quiet
  <2> QED BY <2>3, <2>4
<1>4. CASE cmdLogin
  <2>1. pc = "dispatch" /\ users' = users /\ logs' = logs
    BY <1>4 DEF cmdLogin, Dispatch, authenticate, dbVars
  <2>2. CASE Answer("error")
    BY <2>1, <2>2 DEF Answer, Kinds, Quiet
  <2>3. CASE ~Answer("error")
    <3>1. users[req.login].blocked = FALSE /\ Log(Entry(req.login, "login"))
      <4>1. \E ok \in BOOLEAN :
              /\ authenticate(req.login, Hash(req.password), ok)
              /\ ok /\ ~users[req.login].blocked
              /\ Log(Entry(req.login, "login"))
        BY <1>4, <2>3 DEF cmdLogin
      <4>2. req.login \in DOMAIN users
        BY <4>1 DEF authenticate, Fails
      <4>3. users[req.login].blocked \in BOOLEAN
        BY <4>2 DEF DbTypeOK, Row
      <4> QED BY <4>1, <4>3
    <3>2. pc' = "log" /\ row'.action = "login" /\ row'.login = req.login /\ cur' = cur
      BY <3>1 DEF Log, Then, Entry
    <3>3. cur \in Conns
      BY <2>1 DEF Serving, Handling
    <3>4. sess'[cur].authed /\ sess'[cur].login = req.login
      <4>1. sess' = [sess EXCEPT ![cur] = [login |-> req.login, role |-> users[req.login].role,
                                           authed |-> TRUE]]
        BY <1>4, <2>3 DEF cmdLogin
      <4> QED BY <3>3, <4>1
    <3> QED BY <2>1, <3>1, <3>2, <3>3, <3>4 DEF Kinds, Used
  <2> QED BY <2>2, <2>3
<1>5. CASE cmdTool
  <2>1. pc = "dispatch" /\ req.cmd \in Tools /\ users' = users /\ logs' = logs
    BY <1>5 DEF cmdTool, Dispatch, dbVars
  <2>2. CASE Answer("error")
    BY <2>1, <2>2 DEF Answer, Kinds, Quiet
  <2>3. CASE Log(Entry(sess[cur].login, ActionOf[req.cmd]))
    <3>1. pc' = "log" /\ row'.action = ActionOf[req.cmd]
      BY <2>3 DEF Log, Then, Entry
    <3>2. ActionOf[req.cmd] \in {"vigenere", "sha384", "md5", "chord"}
      BY <2>1 DEF ActionOf, Tools
    <3> QED BY <2>1, <3>1, <3>2 DEF Kinds, Used
  <2> QED BY <1>5, <2>2, <2>3 DEF cmdTool
<1>6. CASE cmdSetBlock
  <2>1. pc = "dispatch" /\ logs' = logs
    BY <1>6 DEF cmdSetBlock, Dispatch, setBlocked, dbVars
  <2>2. CASE Answer("error") /\ users' = users
    BY <2>1, <2>2 DEF Answer, Kinds, Quiet
  <2>3. CASE ~(Answer("error") /\ users' = users)
    <3>1. /\ setBlocked(req.login, req.blocked, TRUE)
          /\ Log([login |-> sess[cur].login, action |-> "set_block",
                  target |-> req.login, flag |-> req.blocked])
      <4>1. PICK ok \in BOOLEAN :
              /\ setBlocked(req.login, req.blocked, ok)
              /\ IF ok THEN Log([login |-> sess[cur].login, action |-> "set_block",
                                 target |-> req.login, flag |-> req.blocked])
                       ELSE Answer("error")
        BY <1>6, <2>3 DEF cmdSetBlock, dbVars
      <4>2. ok
        BY <2>3, <4>1 DEF setBlocked
      <4>3. ok = TRUE
        BY <4>2
      <4> QED BY <4>1, <4>3
    <3>2. users' = [users EXCEPT ![req.login].blocked = req.blocked] /\ req.login \in DOMAIN users
      BY <3>1 DEF setBlocked, Fails
    <3>3. /\ pc' = "log" /\ row'.action = "set_block" /\ row'.target = req.login
          /\ row'.flag = req.blocked
      BY <3>1 DEF Log, Then
    <3>4. /\ DOMAIN users' = DOMAIN users /\ users'[req.login].blocked = req.blocked
          /\ \A u \in DOMAIN users : u # req.login => users'[u] = users[u]
          /\ users'[req.login].pwd_hash = users[req.login].pwd_hash
      BY <3>2 DEF DbTypeOK, Row
    <3> QED BY <2>1, <3>2, <3>3, <3>4 DEF Kinds, Flagged
  <2> QED BY <2>2, <2>3
<1>7. CASE cmdList
  BY <1>7 DEF cmdList, Dispatch, Answer, listTable, dbVars, Kinds, Quiet
<1>8. CASE WriteLog
  BY <1>8 DEF WriteLog, Answer, log, Kinds, Written, Lost
<1> QED BY <1>1, <1>2, <1>3, <1>4, <1>5, <1>6, <1>7, <1>8 DEF Handler

LEMMA StepKinds == ASSUME IInv, [Next]_vars PROVE Kinds
<1> USE DEF IInv, TypeOK
<1>1. CASE Startup \/ Handler
  BY <1>1, StartupKinds, HandlerKinds
<1>2. CASE Crash
  BY <1>2 DEF Crash, dbVars, Kinds, Quiet, Lost
<1>3. ASSUME NEW c \in Conns, Connect(c) \/ ReadyRead(c) \/ \E r \in Requests : Send(c, r)
      PROVE  Kinds
  BY <1>3 DEF Connect, ReadyRead, Send, dbVars, loopVars, Kinds, Quiet
<1>4. ASSUME NEW c \in Conns, Disconnected(c) PROVE Kinds
  <2>1. pc = "idle" /\ pc' = "idle" /\ users' = users
    BY <1>4 DEF Disconnected, loopVars, log, dbVars
  <2>2. CASE logs' = logs
    BY <2>1, <2>2 DEF Kinds, Quiet
  <2>3. CASE logs' # logs
    <3>1. sess[c].authed /\ logs' = Append(logs, Entry(sess[c].login, "disconnect"))
      BY <1>4, <2>3 DEF Disconnected, log, dbVars
    <3>2. sess[c].login \in Logins
      BY <3>1 DEF SessionCoherent, DbTypeOK
    <3>3. PICK r \in LogRow : r = Entry(sess[c].login, "disconnect")
      BY <3>2, EntryTyped DEF Actions
    <3>4. r.action = "disconnect" /\ r.login = sess[c].login
      BY <3>3 DEF Entry
    <3>5. ~sess'[c].authed
      BY <1>4, Types DEF Disconnected, Forget
    <3> QED BY <2>1, <3>1, <3>3, <3>4, <3>5 DEF Kinds, Noted
  <2> QED BY <2>2, <2>3
<1>5. CASE UNCHANGED vars
  BY <1>5 DEF vars, dbVars, loopVars, Kinds, Quiet
<1> QED BY <1>1, <1>2, <1>3, <1>4, <1>5 DEF Next

-----------------------------------------------------------------------------
(* The rows of the log after a step.                                       *)

LEMMA SameRows ==
    ASSUME logs' = logs, NEW u
    PROVE  /\ \A a : Rows(u, a)' = Rows(u, a)
           /\ \A b : FlagRows(u, b)' = FlagRows(u, b)
           /\ LoggedFlag(u)' = LoggedFlag(u)
BY DEF Rows, FlagRows, LoggedFlag

LEMMA MoreRows ==
    ASSUME DbTypeOK, NEW r, logs' = Append(logs, r), NEW u
    PROVE  /\ Len(logs) \in Nat
           /\ \A a, i : i \in Rows(u, a)' <=>
                  i \in Rows(u, a) \/ (i = Len(logs) + 1 /\ r.login = u /\ r.action = a)
           /\ \A b, i : i \in FlagRows(u, b)' <=>
                  \/ i \in FlagRows(u, b)
                  \/ i = Len(logs) + 1 /\ r.action = "set_block" /\ r.target = u /\ r.flag = b
           /\ \A a : Rows(u, a) \subseteq 1..Len(logs)
           /\ \A b : FlagRows(u, b) \subseteq 1..Len(logs)
<1>1. /\ Len(logs) \in Nat /\ Len(logs') = Len(logs) + 1 /\ logs'[Len(logs) + 1] = r
      /\ \A i \in 1..Len(logs) : logs'[i] = logs[i]
  BY DEF DbTypeOK
<1>2. \A i : i \in 1..Len(logs') <=> i \in 1..Len(logs) \/ i = Len(logs) + 1
  BY <1>1
<1>3. ASSUME NEW a, NEW i
      PROVE  i \in Rows(u, a)' <=>
               i \in Rows(u, a) \/ (i = Len(logs) + 1 /\ r.login = u /\ r.action = a)
  <2>1. i \in Rows(u, a)' <=> i \in 1..Len(logs') /\ logs'[i].login = u /\ logs'[i].action = a
    BY DEF Rows
  <2>2. i \in Rows(u, a) <=> i \in 1..Len(logs) /\ logs[i].login = u /\ logs[i].action = a
    BY DEF Rows
  <2> QED BY <1>1, <1>2, <2>1, <2>2
<1>4. ASSUME NEW b, NEW i
      PROVE  i \in FlagRows(u, b)' <=>
               \/ i \in FlagRows(u, b)
               \/ i = Len(logs) + 1 /\ r.action = "set_block" /\ r.target = u /\ r.flag = b
  <2>1. i \in FlagRows(u, b)' <=> /\ i \in 1..Len(logs') /\ logs'[i].action = "set_block"
                                 /\ logs'[i].target = u /\ logs'[i].flag = b
    BY DEF FlagRows
  <2>2. i \in FlagRows(u, b) <=> /\ i \in 1..Len(logs) /\ logs[i].action = "set_block"
                                /\ logs[i].target = u /\ logs[i].flag = b
    BY DEF FlagRows
  <2> QED BY <1>1, <1>2, <2>1, <2>2
<1> QED BY <1>1, <1>3, <1>4 DEF Rows, FlagRows

\* A row of another kind is not among them.
LEMMA OtherRow ==
    ASSUME DbTypeOK, NEW r, logs' = Append(logs, r), NEW u
    PROVE  /\ \A a : ~(r.login = u /\ r.action = a) => Rows(u, a)' = Rows(u, a)
           /\ r.action # "set_block" \/ r.target # u =>
                 (\A b : FlagRows(u, b)' = FlagRows(u, b)) /\ LoggedFlag(u)' = LoggedFlag(u)
<1>1. ASSUME NEW a, ~(r.login = u /\ r.action = a) PROVE Rows(u, a)' = Rows(u, a)
  <2>1. \A i : i \in Rows(u, a)' <=> i \in Rows(u, a)
    BY <1>1, MoreRows
  <2> QED BY <2>1 DEF Rows
<1>2. ASSUME r.action # "set_block" \/ r.target # u
      PROVE  (\A b : FlagRows(u, b)' = FlagRows(u, b)) /\ LoggedFlag(u)' = LoggedFlag(u)
  <2>1. ASSUME NEW b PROVE FlagRows(u, b)' = FlagRows(u, b)
    <3>1. \A i : i \in FlagRows(u, b)' <=> i \in FlagRows(u, b)
      BY <1>2, MoreRows
    <3> QED BY <3>1
  <2>2. FlagRows(u, TRUE)' = FlagRows(u, TRUE) /\ FlagRows(u, FALSE)' = FlagRows(u, FALSE)
    BY <2>1
  <2>3. LoggedFlag(u)' = LoggedFlag(u)
    BY <2>2 DEF LoggedFlag
  <2> QED BY <2>1, <2>3
<1> QED BY <1>1, <1>2

\* The row that has waited is written.
LEMMA WrittenRows ==
    ASSUME DbTypeOK, logs' = Append(logs, row), NEW u
    PROVE  /\ Len(logs) \in Nat
           /\ \A i : i \in Rows(u, "login")' <=>
                  \/ i \in Rows(u, "login")
                  \/ i = Len(logs) + 1 /\ row.login = u /\ row.action = "login"
           /\ \A i : i \in FlagRows(u, TRUE)' <=>
                  \/ i \in FlagRows(u, TRUE)
                  \/ /\ i = Len(logs) + 1 /\ row.action = "set_block"
                     /\ row.target = u /\ row.flag = TRUE
           /\ \A i : i \in FlagRows(u, FALSE)' <=>
                  \/ i \in FlagRows(u, FALSE)
                  \/ /\ i = Len(logs) + 1 /\ row.action = "set_block"
                     /\ row.target = u /\ row.flag = FALSE
           /\ Rows(u, "login") \subseteq 1..Len(logs)
           /\ FlagRows(u, TRUE) \subseteq 1..Len(logs)
           /\ FlagRows(u, FALSE) \subseteq 1..Len(logs)
<1>1. PICK r : r = row
  OBVIOUS
<1>2. logs' = Append(logs, r)
  BY <1>1
<1>3. \A i : i \in Rows(u, "login")' <=>
        i \in Rows(u, "login") \/ (i = Len(logs) + 1 /\ r.login = u /\ r.action = "login")
  BY <1>2, MoreRows
<1>4. \A b : \A i : i \in FlagRows(u, b)' <=>
        \/ i \in FlagRows(u, b)
        \/ i = Len(logs) + 1 /\ r.action = "set_block" /\ r.target = u /\ r.flag = b
  BY <1>2, MoreRows
<1>5. /\ Len(logs) \in Nat /\ Rows(u, "login") \subseteq 1..Len(logs)
      /\ \A b : FlagRows(u, b) \subseteq 1..Len(logs)
  BY <1>2, MoreRows
<1>6. \A i : i \in FlagRows(u, TRUE)' <=>
        \/ i \in FlagRows(u, TRUE)
        \/ i = Len(logs) + 1 /\ r.action = "set_block" /\ r.target = u /\ r.flag = TRUE
  BY <1>4
<1>7. \A i : i \in FlagRows(u, FALSE)' <=>
        \/ i \in FlagRows(u, FALSE)
        \/ i = Len(logs) + 1 /\ r.action = "set_block" /\ r.target = u /\ r.flag = FALSE
  BY <1>4
<1>8. FlagRows(u, TRUE) \subseteq 1..Len(logs) /\ FlagRows(u, FALSE) \subseteq 1..Len(logs)
  BY <1>5
<1> QED BY <1>1, <1>3, <1>5, <1>6, <1>7, <1>8

\* What Observe notes.
LEMMA Gaps ==
    ASSUME Observe
    PROVE  gapped \subseteq gapped' /\ (Lost => Named(row) \subseteq gapped')
BY DEF Observe, Lost

\* A log row about an account is about one of the table.
LEMMA RowsAreSound ==
    ASSUME IInv, NEW u
    PROVE  /\ Rows(u, "register") # {} => u \in DOMAIN users
           /\ u # "" => \A b : FlagRows(u, b) # {} => u \in DOMAIN users
<1>1. AuditSound
  BY DEF IInv
<1>2. ASSUME NEW i \in Rows(u, "register") PROVE u \in DOMAIN users
  BY <1>1, <1>2 DEF Rows, AuditSound, Named
<1>3. ASSUME NEW b, u # "", NEW i \in FlagRows(u, b) PROVE u \in DOMAIN users
  BY <1>1, <1>3 DEF FlagRows, AuditSound, Named
<1> QED BY <1>2, <1>3

-----------------------------------------------------------------------------
(* Registrations.                                                          *)

Registering == pc = "log" /\ row.action = "register"

RegisterInv ==
    /\ \A u \in Logins : \A i, j \in Rows(u, "register") : i = j
    /\ \A u \in DOMAIN users \ ({"admin"} \cup gapped) :
           Rows(u, "register") # {} \/ (Registering /\ row.login = u)
    /\ Registering => /\ Rows(row.login, "register") = {}
                      /\ row.login = req.login /\ req.login \in DOMAIN users
                      /\ users[req.login].pwd_hash = Hash(req.password)

LEMMA RegisterKept ==
    ASSUME IInv, [Next]_vars, Observe, RegisterInv
    PROVE  RegisterInv'
<1>1. Kinds /\ DbTypeOK
  BY StepKinds DEF IInv, TypeOK
<1>2. gapped \subseteq gapped'
  BY Gaps
<1>3. CASE Quiet
  <2>1. \A u : Rows(u, "register")' = Rows(u, "register")
    BY <1>3, SameRows DEF Quiet
  <2> QED BY <1>2, <1>3, <2>1 DEF Quiet, RegisterInv, Registering
<1>4. CASE Noted
  <2>1. PICK r \in LogRow : r.action \in {"seed_admin", "disconnect"} /\ logs' = Append(logs, r)
    BY <1>4 DEF Noted
  <2>2. \A u : Rows(u, "register")' = Rows(u, "register")
    BY <1>1, <2>1, OtherRow
  <2> QED BY <1>2, <1>4, <2>2 DEF Noted, RegisterInv, Registering
<1>5. CASE Seeded \/ Flagged \/ Used
  <2>1. \A u : Rows(u, "register")' = Rows(u, "register")
    BY <1>5, SameRows DEF Seeded, Flagged, Used
  <2>2. ~Registering /\ ~Registering'
    BY <1>5 DEF Seeded, Flagged, Used, Registering
  <2>3. \A u \in DOMAIN users' \ ({"admin"} \cup gapped') :
          u \in DOMAIN users \ ({"admin"} \cup gapped)
    BY <1>2, <1>5 DEF Seeded, Flagged, Used, Adds
  <2> QED BY <2>1, <2>2, <2>3 DEF RegisterInv
<1>6. CASE Registered
  <2>1. \A u : Rows(u, "register")' = Rows(u, "register")
    BY <1>6, SameRows DEF Registered
  <2>2. ~Registering /\ Registering' /\ row'.login = req.login /\ req' = req
    BY <1>6 DEF Registered, Registering
  <2>3. Rows(req.login, "register") = {}
    BY <1>6, RowsAreSound DEF Registered, Adds
  <2>4. \A u \in DOMAIN users' \ ({"admin"} \cup gapped') :
          u = req.login \/ u \in DOMAIN users \ ({"admin"} \cup gapped)
    BY <1>2, <1>6 DEF Registered, Adds
  <2>5. req.login \in DOMAIN users' /\ users'[req.login].pwd_hash = Hash(req.password)
    BY <1>6 DEF Registered, Adds
  <2>6. Rows(row.login, "register")' = {}
    BY <2>2, <2>3, <1>6 DEF Registered, Rows
  <2>7. \A u \in DOMAIN users' \ ({"admin"} \cup gapped') :
          Rows(u, "register")' # {} \/ (Registering' /\ row'.login = u)
    BY <2>1, <2>2, <2>4 DEF RegisterInv
  <2>8. \A u \in Logins : \A i, j \in Rows(u, "register")' : i = j
    BY <2>1 DEF RegisterInv
  <2> QED BY <2>2, <2>5, <2>6, <2>7, <2>8 DEF RegisterInv
<1>7. CASE Written
  <2>1. logs' = Append(logs, row) /\ users' = users /\ ~Registering' /\ pc = "log"
    BY <1>7 DEF Written, Registering
  <2>2. ASSUME NEW u \in Logins, Registering, row.login = u
        PROVE  \A i : i \in Rows(u, "register")' <=> i = Len(logs) + 1
    <3>1. Rows(u, "register") = {} /\ row.login = u /\ row.action = "register"
      BY <2>2 DEF RegisterInv, Registering
    <3>2. \A i : i \in Rows(u, "register")' <=>
            i \in Rows(u, "register")
              \/ (i = Len(logs) + 1 /\ row.login = u /\ row.action = "register")
      BY <1>1, <2>1, MoreRows
    <3> QED BY <3>1, <3>2
  <2>3. ASSUME NEW u \in Logins, ~(Registering /\ row.login = u)
        PROVE  Rows(u, "register")' = Rows(u, "register")
    BY <1>1, <2>1, <2>3, OtherRow DEF Registering
  <2>4. DOMAIN users \subseteq Logins
    BY <1>1 DEF DbTypeOK
  <2>5. \A u \in Logins : \A i, j \in Rows(u, "register")' : i = j
    BY <2>2, <2>3 DEF RegisterInv
  <2>6. \A u \in DOMAIN users \ ({"admin"} \cup gapped') : Rows(u, "register")' # {}
    BY <1>2, <2>2, <2>3, <2>4 DEF RegisterInv
  <2> QED BY <2>1, <2>5, <2>6 DEF RegisterInv
<1>8. CASE Lost
  <2>1. \A u : Rows(u, "register")' = Rows(u, "register")
    BY <1>8, SameRows DEF Lost
  <2>2. row.login \in gapped' /\ users' = users /\ ~Registering'
    BY <1>8, Gaps DEF Lost, Named, Registering
  <2> QED BY <1>2, <2>1, <2>2 DEF RegisterInv
<1> QED BY <1>1, <1>3, <1>4, <1>5, <1>6, <1>7, <1>8 DEF Kinds

-----------------------------------------------------------------------------
(* Blocks, and logins.                                                     *)

\* The row that waits reports a block, or an unblock, of u.
Flagging(u) == pc = "log" /\ row.action = "set_block" /\ row.target = u

ReplayInv ==
    \A u \in DOMAIN users \ gapped :
        /\ ~Flagging(u) => users[u].blocked = LoggedFlag(u)
        /\ Flagging(u) => users[u].blocked = row.flag

LEMMA ReplayKept ==
    ASSUME IInv, [Next]_vars, Observe, ReplayInv
    PROVE  ReplayInv'
<1>1. Kinds /\ DbTypeOK
  BY StepKinds DEF IInv, TypeOK
<1>2. gapped \subseteq gapped'
  BY Gaps
<1>3. ASSUME Quiet \/ Used
      PROVE  ReplayInv'
  <2>1. users' = users /\ \A u : LoggedFlag(u)' = LoggedFlag(u)
    BY <1>3, SameRows DEF Quiet, Used
  <2>2. ASSUME NEW u PROVE Flagging(u)' <=> Flagging(u)
    BY <1>3 DEF Quiet, Used, Flagging
  <2>3. \A u : Flagging(u) => row' = row
    BY <1>3 DEF Quiet, Used, Flagging
  <2> QED BY <1>2, <2>1, <2>2, <2>3 DEF ReplayInv
<1>4. CASE Noted
  <2>1. PICK r \in LogRow : r.action \in {"seed_admin", "disconnect"} /\ logs' = Append(logs, r)
    BY <1>4 DEF Noted
  <2>2. \A u : LoggedFlag(u)' = LoggedFlag(u)
    BY <1>1, <2>1, OtherRow
  <2>3. users' = users /\ \A u : ~Flagging(u) /\ ~Flagging(u)'
    BY <1>4 DEF Noted, Flagging
  <2> QED BY <1>2, <2>2, <2>3 DEF ReplayInv
<1>5. ASSUME NEW login, NEW password, Adds(login, password), login \in Logins, logs' = logs,
             \A u : ~Flagging(u) /\ ~Flagging(u)'
      PROVE  ReplayInv'
  <2>1. \A u : LoggedFlag(u)' = LoggedFlag(u)
    BY <1>5, SameRows
  <2>2. LoggedFlag(login) = FALSE
    <3>1. FlagRows(login, TRUE) = {}
      BY <1>5, RowsAreSound, DatabaseAssumption DEF Adds
    <3> QED BY <3>1 DEF LoggedFlag
  <2>3. ASSUME NEW u \in DOMAIN users' \ gapped' PROVE users'[u].blocked = LoggedFlag(u)'
    <3>1. CASE u = login
      BY <1>5, <2>1, <2>2, <3>1 DEF Adds
    <3>2. CASE u # login
      <4>1. u \in DOMAIN users \ gapped /\ users'[u] = users[u]
        BY <1>2, <1>5, <3>2 DEF Adds
      <4> QED BY <1>5, <2>1, <4>1 DEF ReplayInv
    <3> QED BY <3>1, <3>2
  <2> QED BY <1>5, <2>3 DEF ReplayInv
<1>6. CASE Seeded
  <2>1. \A u : ~Flagging(u) /\ ~Flagging(u)'
    BY <1>6 DEF Seeded, Flagging
  <2> QED BY <1>5, <1>6, <2>1, DatabaseAssumption DEF Seeded
<1>7. CASE Registered
  <2>1. \A u : ~Flagging(u) /\ ~Flagging(u)'
    BY <1>7 DEF Registered, Flagging
  <2>2. req.login \in Logins
    BY <1>7 DEF Registered, IInv, PendingInsert
  <2> QED BY <1>5, <1>7, <2>1, <2>2 DEF Registered
<1>8. CASE Flagged
  <2>1. \A u : LoggedFlag(u)' = LoggedFlag(u)
    BY <1>8, SameRows DEF Flagged
  <2>2. \A u : ~Flagging(u)
    BY <1>8 DEF Flagged, Flagging
  <2>3. \A u : Flagging(u)' <=> u = row'.target
    BY <1>8 DEF Flagged, Flagging
  <2>4. /\ DOMAIN users' = DOMAIN users /\ users'[row'.target].blocked = row'.flag
        /\ \A u \in DOMAIN users : u # row'.target => users'[u].blocked = users[u].blocked
    BY <1>8 DEF Flagged
  <2> QED BY <1>2, <2>1, <2>2, <2>3, <2>4 DEF ReplayInv
<1>9. CASE Written
  <2>1. /\ logs' = Append(logs, row) /\ users' = users /\ pc = "log"
        /\ \A u : ~Flagging(u)'
    BY <1>9 DEF Written, Flagging
  <2>2. ASSUME NEW u \in DOMAIN users \ gapped' PROVE users[u].blocked = LoggedFlag(u)'
    <3>0. u \in DOMAIN users \ gapped
      BY <1>2
    <3>1. CASE ~Flagging(u)
      <4>1. row.action # "set_block" \/ row.target # u
        BY <2>1, <3>1 DEF Flagging
      <4>2. LoggedFlag(u)' = LoggedFlag(u)
        BY <1>1, <2>1, <4>1, OtherRow
      <4> QED BY <3>0, <3>1, <4>2 DEF ReplayInv
    <3>2. CASE Flagging(u)
      <4>1. users[u].blocked = row.flag /\ row.action = "set_block" /\ row.target = u
        BY <3>0, <3>2 DEF ReplayInv, Flagging
      <4>2. row.flag \in BOOLEAN
        BY DEF IInv, TypeOK, LogRow
      <4>3. /\ \A i : i \in FlagRows(u, TRUE)' <=>
                      i \in FlagRows(u, TRUE) \/ (i = Len(logs) + 1 /\ row.flag = TRUE)
            /\ \A i : i \in FlagRows(u, FALSE)' <=>
                      i \in FlagRows(u, FALSE) \/ (i = Len(logs) + 1 /\ row.flag = FALSE)
            /\ FlagRows(u, TRUE) \subseteq 1..Len(logs) /\ FlagRows(u, FALSE) \subseteq 1..Len(logs)
            /\ Len(logs) \in Nat
        <5>1. /\ \A i : i \in FlagRows(u, TRUE)' <=>
                    \/ i \in FlagRows(u, TRUE)
                    \/ /\ i = Len(logs) + 1 /\ row.action = "set_block"
                       /\ row.target = u /\ row.flag = TRUE
              /\ \A i : i \in FlagRows(u, FALSE)' <=>
                    \/ i \in FlagRows(u, FALSE)
                    \/ /\ i = Len(logs) + 1 /\ row.action = "set_block"
                       /\ row.target = u /\ row.flag = FALSE
          BY <1>1, <2>1, WrittenRows
        <5>2. /\ FlagRows(u, TRUE) \subseteq 1..Len(logs) /\ FlagRows(u, FALSE) \subseteq 1..Len(logs)
              /\ Len(logs) \in Nat
          BY <1>1, <2>1, WrittenRows
        <5> QED BY <4>1, <5>1, <5>2
      <4>4. CASE row.flag = TRUE
        <5>0. row.flag # FALSE
          BY <4>4
        <5>1. /\ Len(logs) + 1 \in FlagRows(u, TRUE)'
              /\ \A k : k \in FlagRows(u, FALSE)' <=> k \in FlagRows(u, FALSE)
          BY <4>3, <4>4, <5>0
        <5>2. ASSUME NEW k \in FlagRows(u, FALSE)' PROVE k < Len(logs) + 1
          <6>1. k \in 1..Len(logs)
            BY <4>3, <5>1
          <6> QED BY <4>3, <6>1
        <5>3. LoggedFlag(u)'
          BY <5>1, <5>2 DEF LoggedFlag
        <5>4. LoggedFlag(u)' = TRUE
          BY <5>3 DEF LoggedFlag
        <5> QED BY <4>1, <4>4, <5>4
      <4>5. CASE row.flag = FALSE
        <5>0. row.flag # TRUE
          BY <4>5
        <5>1. /\ Len(logs) + 1 \in FlagRows(u, FALSE)'
              /\ \A i : i \in FlagRows(u, TRUE)' <=> i \in FlagRows(u, TRUE)
          BY <4>3, <4>5, <5>0
        <5>2. ASSUME NEW i \in FlagRows(u, TRUE)' PROVE ~(Len(logs) + 1 < i)
          <6>1. i \in 1..Len(logs)
            BY <4>3, <5>1
          <6> QED BY <4>3, <6>1
        <5>3. ~LoggedFlag(u)'
          BY <5>1, <5>2 DEF LoggedFlag
        <5>4. LoggedFlag(u)' = FALSE
          BY <5>3 DEF LoggedFlag
        <5> QED BY <4>1, <4>5, <5>4
      <4> QED BY <4>2, <4>4, <4>5
    <3> QED BY <3>1, <3>2
  <2> QED BY <2>1, <2>2 DEF ReplayInv
<1>10. CASE Lost
  <2>1. users' = users /\ \A u : LoggedFlag(u)' = LoggedFlag(u) /\ ~Flagging(u)'
    BY <1>10, SameRows DEF Lost, Flagging
  <2>2. Named(row) \subseteq gapped'
    BY <1>10, Gaps
  <2>3. ASSUME NEW u \in DOMAIN users \ gapped' PROVE ~Flagging(u)
    <3>1. u # ""
      BY <1>1, DatabaseAssumption DEF DbTypeOK
    <3> QED BY <2>2, <3>1 DEF Flagging, Named
  <2> QED BY <1>2, <2>1, <2>3 DEF ReplayInv
<1> QED BY <1>1, <1>3, <1>4, <1>6, <1>7, <1>8, <1>9, <1>10 DEF Kinds

\* While the row of a login waits, its account is not blocked.
LoginInv ==
    /\ NoLoginWhileBlocked
    /\ pc = "log" /\ row.action = "login" => users[row.login].blocked = FALSE

LEMMA LoginKept ==
    ASSUME IInv, [Next]_vars, Observe, ReplayInv, LoginInv
    PROVE  LoginInv'
<1>1. Kinds /\ DbTypeOK
  BY StepKinds DEF IInv, TypeOK
<1>2. gapped \subseteq gapped'
  BY Gaps
<1>3. ASSUME \A u : /\ Rows(u, "login")' = Rows(u, "login")
                    /\ \A b : FlagRows(u, b)' = FlagRows(u, b)
      PROVE  NoLoginWhileBlocked'
  <2>1. \A u : /\ Rows(u, "login")' = Rows(u, "login")
               /\ FlagRows(u, TRUE)' = FlagRows(u, TRUE) /\ FlagRows(u, FALSE)' = FlagRows(u, FALSE)
    BY <1>3
  <2> QED BY ZenonT(60), <1>2, <2>1 DEF LoginInv, NoLoginWhileBlocked
<1>4. CASE Quiet \/ Used \/ Seeded \/ Registered \/ Flagged \/ Lost
  <2>1. NoLoginWhileBlocked'
    BY <1>3, <1>4, SameRows DEF Quiet, Used, Seeded, Registered, Flagged, Lost
  <2>2. ASSUME pc' = "log", row'.action = "login" PROVE users'[row'.login].blocked = FALSE
    BY <1>4, <2>2 DEF LoginInv, Quiet, Used, Seeded, Registered, Flagged, Lost
  <2> QED BY <2>1, <2>2 DEF LoginInv
<1>5. CASE Noted
  <2>1. PICK r \in LogRow : r.action \in {"seed_admin", "disconnect"} /\ logs' = Append(logs, r)
    BY <1>5 DEF Noted
  <2>2. ASSUME NEW u PROVE /\ Rows(u, "login")' = Rows(u, "login")
                           /\ \A b : FlagRows(u, b)' = FlagRows(u, b)
    BY <1>1, <2>1, OtherRow
  <2>3. NoLoginWhileBlocked'
    BY <1>3, <2>2
  <2> QED BY <1>5, <2>3 DEF Noted, LoginInv
<1>6. CASE Written
  <2>1. logs' = Append(logs, row) /\ pc = "log" /\ pc' # "log"
    BY <1>6 DEF Written
  <2>2. ASSUME NEW u \in Logins \ gapped',
               NEW i \in FlagRows(u, TRUE)', NEW j \in Rows(u, "login")',
               i < j
        PROVE  \E k \in FlagRows(u, FALSE)' : i < k /\ k < j
    <3>0. u \in Logins \ gapped
      BY <1>2
    <3>1. /\ j \in Rows(u, "login") \/ (j = Len(logs) + 1 /\ row.login = u /\ row.action = "login")
          /\ \/ i \in FlagRows(u, TRUE)
             \/ i = Len(logs) + 1
          /\ FlagRows(u, FALSE) \subseteq FlagRows(u, FALSE)'
          /\ Rows(u, "login") \subseteq 1..Len(logs)
          /\ FlagRows(u, TRUE) \subseteq 1..Len(logs) /\ FlagRows(u, FALSE) \subseteq 1..Len(logs)
          /\ Len(logs) \in Nat
      BY <1>1, <2>1, WrittenRows
    <3>2. i \in FlagRows(u, TRUE)
      <4>1. j \in 1..Len(logs) \/ j = Len(logs) + 1
        BY <3>1
      <4>2. i # Len(logs) + 1
        BY <2>2, <3>1, <4>1
      <4> QED BY <3>1, <4>2
    <3>3. CASE j \in Rows(u, "login")
      <4>1. \E k \in FlagRows(u, FALSE) : i < k /\ k < j
        BY <2>2, <3>0, <3>2, <3>3 DEF LoginInv, NoLoginWhileBlocked
      <4> QED BY <3>1, <4>1
    <3>4. CASE j = Len(logs) + 1 /\ row.login = u /\ row.action = "login"
      <4>1. u \in DOMAIN users \ gapped /\ users[u].blocked = FALSE /\ ~Flagging(u)
        BY <2>1, <3>0, <3>4 DEF LoginInv, IInv, PendingRow, Named, Flagging
      <4>2. ~LoggedFlag(u)
        BY <4>1 DEF ReplayInv
      <4>3. PICK k \in FlagRows(u, FALSE) : ~(k < i)
        BY <3>2, <4>2 DEF LoggedFlag
      <4>4. k # i
        BY <3>2 DEF FlagRows
      <4>5. k \in 1..Len(logs) /\ i \in 1..Len(logs) /\ Len(logs) \in Nat
        BY <3>1, <3>2
      <4>6. i < k /\ k < j
        BY <3>4, <4>3, <4>4, <4>5
      <4> QED BY <3>1, <4>6
    <3> QED BY <3>1, <3>3, <3>4
  <2>3. NoLoginWhileBlocked'
    BY <2>2 DEF NoLoginWhileBlocked
  <2> QED BY <2>1, <2>3 DEF LoginInv
<1> QED BY <1>1, <1>4, <1>5, <1>6 DEF Kinds

-----------------------------------------------------------------------------
(* Sessions in the log.                                                    *)

\* The session of c is open, but its login row is still to be written.
Pending(c) == pc = "log" /\ row.action = "login" /\ cur = c

\* The sessions of u whose login row was written.
Open(u) == {c \in Conns : sess[c].authed /\ sess[c].login = u /\ ~Pending(c)}

PairInv ==
    /\ DisconnectsPaired
    /\ pc = "log" => /\ row.action # "disconnect"
                     /\ row.action = "login" =>
                            cur \in Conns /\ sess[cur].authed /\ sess[cur].login = row.login
    /\ \A u \in Logins \ gapped :
           /\ IsFiniteSet(Open(u))
           /\ Cardinality(Rows(u, "disconnect")) + Cardinality(Open(u))
                <= Cardinality(Rows(u, "login"))

\* A session appears among the open ones when its row has been waiting.
LEMMA OpenSteps ==
    ASSUME IInv, [Next]_vars, NEW c \in Conns, NEW u, c \in Open(u)'
    PROVE  /\ sess[c].authed /\ sess[c].login = u
           /\ c \in Open(u) \/ Pending(c)
<1>1. sess'[c].authed /\ sess'[c].login = u /\ ~Pending(c)'
  BY DEF Open
<1>2. sess'[c] # NewSession
  BY <1>1, Types
<1>3. sess'[c] = sess[c]
  <2> SUFFICES ASSUME cmdLogin, c = cur, sess'[c] # sess[c] PROVE FALSE
    BY <1>2, WhoWritesSessions
  <2>1. Log(Entry(req.login, "login"))
    BY DEF cmdLogin
  <2>2. Then("log", Entry(req.login, "login"))
    BY <2>1 DEF Log
  <2>3. pc' = "log" /\ row'.action = "login" /\ cur' = cur
    BY <2>2 DEF Then, Entry
  <2> QED BY <1>1, <2>3 DEF Pending
<1> QED BY <1>1, <1>3 DEF Open

LEMMA OneMore ==
    ASSUME NEW S, NEW T, NEW n, NEW p, p, NEW q, q,
           \A i : i \in T <=> i \in S \/ (i = n /\ p /\ q)
    PROVE  T = S \cup {n}
OBVIOUS

\* What a step does to the rows and the open sessions of u.
LEMMA PairSteps ==
    ASSUME IInv, [Next]_vars, Observe, PairInv, NEW u \in Logins \ gapped'
    PROVE  \/ /\ Rows(u, "disconnect")' = Rows(u, "disconnect")
              /\ Rows(u, "login")' = Rows(u, "login")
              /\ Open(u)' \subseteq Open(u)
           \/ /\ Rows(u, "disconnect")' = Rows(u, "disconnect")
              /\ Rows(u, "login")' = Rows(u, "login") \cup {Len(logs) + 1}
              /\ Open(u)' \subseteq Open(u) \cup {cur}
           \/ /\ Rows(u, "disconnect")' = Rows(u, "disconnect") \cup {Len(logs) + 1}
              /\ Rows(u, "login")' = Rows(u, "login")
              /\ \E c \in Open(u) : Open(u)' \subseteq Open(u) \ {c}
<1>1. Kinds /\ DbTypeOK
  BY StepKinds DEF IInv, TypeOK
<1>2. Open(u)' \subseteq Conns /\ Open(u) \subseteq Conns
  BY DEF Open
<1>3. \A c \in Open(u)' : c \in Open(u) \/ Pending(c)
  BY <1>2, OpenSteps
<1>4. CASE Written
  <2>1. logs' = Append(logs, row) /\ row.action # "disconnect" /\ pc = "log"
    BY <1>4 DEF Written, PairInv
  <2>0. \A a : ~(row.login = u /\ row.action = a) => Rows(u, a)' = Rows(u, a)
    BY <1>1, <2>1, OtherRow
  <2>2. Rows(u, "disconnect")' = Rows(u, "disconnect")
    BY <2>0, <2>1
  <2>3. CASE row.action = "login" /\ row.login = u
    <3>1. \A i : i \in Rows(u, "login")' <=>
              \/ i \in Rows(u, "login")
              \/ i = Len(logs) + 1 /\ row.login = u /\ row.action = "login"
      BY <1>1, <2>1, WrittenRows
    <3>2. Rows(u, "login")' = Rows(u, "login") \cup {Len(logs) + 1}
      BY <2>3, <3>1, OneMore
    <3>3. Open(u)' \subseteq Open(u) \cup {cur}
      BY <1>3 DEF Pending
    <3> QED BY <2>2, <3>2, <3>3
  <2>4. CASE ~(row.action = "login" /\ row.login = u)
    <3>1. Rows(u, "login")' = Rows(u, "login")
      BY <2>0, <2>4
    <3>2. ASSUME NEW c \in Open(u)', Pending(c) PROVE FALSE
      <4>1. sess[c].login = u /\ c = cur /\ row.action = "login"
        BY <1>2, <3>2, OpenSteps DEF Pending
      <4> QED BY <2>1, <2>4, <4>1 DEF PairInv
    <3> QED BY <1>3, <2>2, <3>1, <3>2
  <2> QED BY <2>3, <2>4
<1>5. CASE Noted
  <2>1. PICK r \in LogRow :
          /\ logs' = Append(logs, r)
          /\ \/ r.action = "seed_admin"
             \/ /\ r.action = "disconnect"
                /\ \E c \in Conns : sess[c].authed /\ sess[c].login = r.login /\ ~sess'[c].authed
    BY <1>5 DEF Noted
  <2>0. \A a : ~(r.login = u /\ r.action = a) => Rows(u, a)' = Rows(u, a)
    BY <1>1, <2>1, OtherRow
  <2>2. Rows(u, "login")' = Rows(u, "login")
    BY <2>0, <2>1
  <2>3. Open(u)' \subseteq Open(u)
    BY <1>3, <1>5 DEF Noted, Pending
  <2>4. CASE r.action = "disconnect" /\ r.login = u
    <3>1. PICK c \in Conns : sess[c].authed /\ sess[c].login = u /\ ~sess'[c].authed
      BY <2>1, <2>4
    <3>2. c \in Open(u) /\ c \notin Open(u)'
      BY <1>5, <3>1 DEF Noted, Open, Pending
    <3>3. \A i : i \in Rows(u, "disconnect")' <=>
              \/ i \in Rows(u, "disconnect")
              \/ i = Len(logs) + 1 /\ r.login = u /\ r.action = "disconnect"
      BY <1>1, <2>1, MoreRows
    <3>4. Rows(u, "disconnect")' = Rows(u, "disconnect") \cup {Len(logs) + 1}
      BY <2>4, <3>3, OneMore
    <3>5. Open(u)' \subseteq Open(u) \ {c}
      BY <2>3, <3>2
    <3> QED BY <2>2, <3>2, <3>4, <3>5
  <2>5. CASE ~(r.action = "disconnect" /\ r.login = u)
    <3>1. Rows(u, "disconnect")' = Rows(u, "disconnect")
      BY <2>0, <2>5
    <3> QED BY <2>2, <2>3, <3>1
  <2> QED BY <2>4, <2>5
<1>6. CASE Quiet \/ Seeded \/ Registered \/ Flagged \/ Used \/ Lost
  <2>1. logs' = logs
    BY <1>6 DEF Quiet, Seeded, Registered, Flagged, Used, Lost
  <2>2. Rows(u, "disconnect")' = Rows(u, "disconnect") /\ Rows(u, "login")' = Rows(u, "login")
    BY <2>1, SameRows
  <2>3. ASSUME NEW c \in Open(u)', Pending(c) PROVE c \in Open(u)
    <3>1. sess[c].login = u /\ c = cur /\ pc = "log" /\ row.action = "login" /\ ~Pending(c)'
      BY <1>2, <2>3, OpenSteps DEF Pending, Open
    <3>2. row.login = u
      BY <3>1 DEF PairInv
    <3>3. CASE Quiet
      BY <3>1, <3>3 DEF Quiet, Pending
    <3>4. CASE Lost
      BY <3>2, <3>4, Gaps DEF Named
    <3> QED BY <1>6, <3>1, <3>3, <3>4 DEF Seeded, Registered, Flagged, Used
  <2> QED BY <1>3, <2>2, <2>3
<1> QED BY <1>1, <1>4, <1>5, <1>6 DEF Kinds

-----------------------------------------------------------------------------
(* The same in numbers: D and I are the rows of an account's disconnects   *)
(* and logins up to row n, O its open sessions.                            *)

Paired(D, I) == \A j \in D : Cardinality({i \in D : i <= j}) <= Cardinality({i \in I : i < j})

Balanced(D, I, O) ==
    IsFiniteSet(O) /\ Cardinality(D) + Cardinality(O) <= Cardinality(I)

LEMMA RowSets ==
    ASSUME NEW n \in Nat, NEW S \in SUBSET (1..n)
    PROVE  /\ IsFiniteSet(S) /\ Cardinality(S) \in Nat
           /\ Cardinality(S \cup {n + 1}) = Cardinality(S) + 1
<1>1. IsFiniteSet(1..n)
  BY FS_Interval
<1>2. IsFiniteSet(S)
  BY <1>1, FS_Subset
<1>3. n + 1 \notin S
  OBVIOUS
<1>4. Cardinality(S) \in Nat
  BY <1>2, FS_CardinalityType
<1>5. Cardinality(S \cup {n + 1}) = Cardinality(S) + 1
  BY <1>2, <1>3, FS_AddElement
<1> QED BY <1>2, <1>4, <1>5

LEMMA Fewer ==
    ASSUME NEW T, IsFiniteSet(T), NEW S \in SUBSET T
    PROVE  /\ IsFiniteSet(S) /\ Cardinality(S) \in Nat /\ Cardinality(T) \in Nat
           /\ Cardinality(S) <= Cardinality(T)
<1>1. IsFiniteSet(S) /\ Cardinality(S) <= Cardinality(T)
  BY FS_Subset
<1> QED BY <1>1, FS_CardinalityType

LEMMA StillBalanced ==
    ASSUME NEW n \in Nat, NEW D \in SUBSET (1..n), NEW I \in SUBSET (1..n), NEW O,
           Balanced(D, I, O), NEW P
    PROVE  /\ P \subseteq O => Balanced(D, I, P)
           /\ \A c : P \subseteq O \cup {c} => Balanced(D, I \cup {n + 1}, P)
           /\ \A c \in O : P \subseteq O \ {c} => Balanced(D \cup {n + 1}, I, P)
<1>1. /\ Cardinality(D) \in Nat /\ Cardinality(D \cup {n + 1}) = Cardinality(D) + 1
      /\ Cardinality(I) \in Nat /\ Cardinality(I \cup {n + 1}) = Cardinality(I) + 1
  BY RowSets
<1>2. IsFiniteSet(O) /\ Cardinality(O) \in Nat /\ Cardinality(D) + Cardinality(O) <= Cardinality(I)
  BY FS_CardinalityType DEF Balanced
<1>3. ASSUME P \subseteq O PROVE Balanced(D, I, P)
  <2>1. IsFiniteSet(P) /\ Cardinality(P) \in Nat /\ Cardinality(P) <= Cardinality(O)
    BY <1>2, <1>3, Fewer
  <2> QED BY <1>1, <1>2, <2>1 DEF Balanced
<1>4. ASSUME NEW c, P \subseteq O \cup {c} PROVE Balanced(D, I \cup {n + 1}, P)
  <2>1. /\ IsFiniteSet(O \cup {c})
        /\ Cardinality(O \cup {c}) = Cardinality(O) \/ Cardinality(O \cup {c}) = Cardinality(O) + 1
    <3>1. CASE c \in O
      <4>1. O \cup {c} = O
        BY <3>1
      <4> QED BY <1>2, <4>1
    <3>2. CASE c \notin O
      BY <1>2, <3>2, FS_AddElement
    <3> QED BY <3>1, <3>2
  <2>2. IsFiniteSet(P) /\ Cardinality(P) \in Nat /\ Cardinality(P) <= Cardinality(O \cup {c})
    BY <1>4, <2>1, Fewer
  <2> QED BY <1>1, <1>2, <2>1, <2>2 DEF Balanced
<1>5. ASSUME NEW c \in O, P \subseteq O \ {c} PROVE Balanced(D \cup {n + 1}, I, P)
  <2>1. IsFiniteSet(O \ {c}) /\ Cardinality(O \ {c}) = Cardinality(O) - 1
    BY <1>2, <1>5, FS_RemoveElement
  <2>2. IsFiniteSet(P) /\ Cardinality(P) \in Nat /\ Cardinality(P) <= Cardinality(O \ {c})
    BY <1>5, <2>1, Fewer
  <2> QED BY <1>1, <1>2, <2>1, <2>2 DEF Balanced
<1> QED BY <1>3, <1>4, <1>5

LEMMA StillPaired ==
    ASSUME NEW n \in Nat, NEW D \in SUBSET (1..n), NEW I \in SUBSET (1..n), NEW O,
           Balanced(D, I, O), Paired(D, I)
    PROVE  /\ Paired(D, I \cup {n + 1})
           /\ O # {} => Paired(D \cup {n + 1}, I)
<1>1. ASSUME NEW j \in D
      PROVE  /\ {i \in D \cup {n + 1} : i <= j} = {i \in D : i <= j}
             /\ {i \in I \cup {n + 1} : i < j} = {i \in I : i < j}
  <2>1. ~(n + 1 <= j) /\ ~(n + 1 < j)
    OBVIOUS
  <2> QED BY <2>1
<1>2. Paired(D, I \cup {n + 1})
  BY <1>1 DEF Paired
<1>3. ASSUME O # {} PROVE Paired(D \cup {n + 1}, I)
  <2>1. ASSUME NEW j \in D
        PROVE  Cardinality({i \in D \cup {n + 1} : i <= j}) <= Cardinality({i \in I : i < j})
    <3>1. Cardinality({i \in D : i <= j}) <= Cardinality({i \in I : i < j})
      BY <2>1 DEF Paired
    <3>2. {i \in D \cup {n + 1} : i <= j} = {i \in D : i <= j}
      BY <1>1, <2>1
    <3> QED BY <3>1, <3>2
  <2>2. {i \in D \cup {n + 1} : i <= n + 1} = D \cup {n + 1}
    <3>1. \A i \in 1..n : i <= n + 1
      OBVIOUS
    <3>2. \A i \in D : i <= n + 1
      BY <3>1
    <3>3. n + 1 <= n + 1
      OBVIOUS
    <3> QED BY <3>2, <3>3
  <2>3. {i \in I : i < n + 1} = I
    <3>1. \A i \in 1..n : i < n + 1
      OBVIOUS
    <3>2. \A i \in I : i < n + 1
      BY <3>1
    <3> QED BY <3>2
  <2>4. Cardinality(D \cup {n + 1}) <= Cardinality(I)
    <3>1. Cardinality(D) \in Nat /\ Cardinality(D \cup {n + 1}) = Cardinality(D) + 1
      BY RowSets
    <3>2. Cardinality(I) \in Nat
      BY RowSets
    <3>3. IsFiniteSet(O) /\ Cardinality(D) + Cardinality(O) <= Cardinality(I)
      BY DEF Balanced
    <3>4. Cardinality(O) \in Nat /\ Cardinality(O) # 0
      BY <1>3, <3>3, FS_CardinalityType, FS_EmptySet
    <3> QED BY <3>1, <3>2, <3>3, <3>4
  <2> QED BY <2>1, <2>2, <2>3, <2>4 DEF Paired
<1> QED BY <1>2, <1>3

LEMMA PairKept ==
    ASSUME IInv, [Next]_vars, Observe, PairInv
    PROVE  PairInv'
<1>1. Kinds /\ DbTypeOK
  BY StepKinds DEF IInv, TypeOK
<1>2. gapped \subseteq gapped'
  BY Gaps
<1>3. ASSUME pc' = "log"
      PROVE  /\ row'.action # "disconnect"
             /\ row'.action = "login" =>
                    cur' \in Conns /\ sess'[cur'].authed /\ sess'[cur'].login = row'.login
  <2>1. CASE Quiet
    BY <1>3, <2>1 DEF Quiet, PairInv
  <2>2. CASE Registered \/ Flagged
    BY <2>2 DEF Registered, Flagged
  <2>3. CASE Used
    BY <2>3 DEF Used
  <2> QED BY <1>1, <1>3, <2>1, <2>2, <2>3 DEF Kinds, Noted, Seeded, Written, Lost
<1>4. ASSUME NEW u \in Logins \ gapped'
      PROVE  /\ Balanced(Rows(u, "disconnect")', Rows(u, "login")', Open(u)')
             /\ Paired(Rows(u, "disconnect")', Rows(u, "login")')
  <2>1. PICK n, D, I, O : /\ n = Len(logs) /\ D = Rows(u, "disconnect")
                          /\ I = Rows(u, "login") /\ O = Open(u)
    OBVIOUS
  <2>2. PICK E, J, P : E = Rows(u, "disconnect")' /\ J = Rows(u, "login")' /\ P = Open(u)'
    OBVIOUS
  <2>3. n \in Nat /\ D \in SUBSET (1..n) /\ I \in SUBSET (1..n)
    <3>1. Len(logs) \in Nat
      BY <1>1 DEF DbTypeOK
    <3> QED BY <2>1, <3>1 DEF Rows
  <2>4. Balanced(D, I, O) /\ Paired(D, I)
    BY <1>2, <2>1 DEF PairInv, DisconnectsPaired, Balanced, Paired
  <2>5. \/ E = D /\ J = I /\ P \subseteq O
        \/ E = D /\ J = I \cup {n + 1} /\ P \subseteq O \cup {cur}
        \/ E = D \cup {n + 1} /\ J = I /\ \E c \in O : P \subseteq O \ {c}
    BY <2>1, <2>2, PairSteps
  <2>6. Balanced(E, J, P)
    <3>1. CASE E = D /\ J = I /\ P \subseteq O
      BY <2>3, <2>4, <3>1, StillBalanced
    <3>2. CASE E = D /\ J = I \cup {n + 1} /\ P \subseteq O \cup {cur}
      BY <2>3, <2>4, <3>2, StillBalanced
    <3>3. CASE E = D \cup {n + 1} /\ J = I /\ \E c \in O : P \subseteq O \ {c}
      BY <2>3, <2>4, <3>3, StillBalanced
    <3> QED BY <2>5, <3>1, <3>2, <3>3
  <2>7. Paired(E, J)
    <3>1. Paired(D, I \cup {n + 1}) /\ (O # {} => Paired(D \cup {n + 1}, I))
      BY <2>3, <2>4, StillPaired
    <3> QED BY <2>4, <2>5, <3>1
  <2> QED BY <2>2, <2>6, <2>7
<1>5. DisconnectsPaired'
  BY <1>4 DEF DisconnectsPaired, Paired
<1>6. \A u \in Logins \ gapped' :
        /\ IsFiniteSet(Open(u)')
        /\ Cardinality(Rows(u, "disconnect")') + Cardinality(Open(u)')
             <= Cardinality(Rows(u, "login")')
  BY <1>4 DEF Balanced
<1> QED BY <1>3, <1>5, <1>6 DEF PairInv
-----------------------------------------------------------------------------
(* Answers.                                                                *)

LEMMA PasswordsKept ==
    ASSUME IInv, [Next]_vars, NEW u \in DOMAIN users
    PROVE  u \in DOMAIN users' /\ users'[u].pwd_hash = users[u].pwd_hash
<1>1. Kinds
  BY StepKinds
<1>2. CASE Seeded \/ Registered
  BY <1>2 DEF Seeded, Registered, Adds
<1>3. CASE Flagged
  BY <1>3 DEF Flagged
<1>4. CASE Quiet \/ Noted \/ Used \/ Written \/ Lost
  BY <1>4 DEF Quiet, Noted, Used, Written, Lost
<1> QED BY <1>1, <1>2, <1>3, <1>4 DEF Kinds

LEMMA AckedKept ==
    ASSUME IInv, [Next]_vars, Observe, RegisterInv, AckedIsDurable
    PROVE  AckedIsDurable'
<1> SUFFICES ASSUME NEW r \in acked'
             PROVE  r.login \in DOMAIN users' /\ users'[r.login].pwd_hash = Hash(r.password)
  BY DEF AckedIsDurable
<1>1. r \in acked \/ (r = req /\ Registering)
  BY DEF Observe, Registering
<1>2. r.login \in DOMAIN users /\ users[r.login].pwd_hash = Hash(r.password)
  BY <1>1 DEF AckedIsDurable, RegisterInv
<1> QED BY <1>2, PasswordsKept

\* Between the moment a request is taken and a first write, nothing changes:
\* no other slot runs.
BeforeInv == pc \in {"dispatch", "insert"} => before = <<users, logs, sess>>

\* What has happened to tables and sessions when a handler is entered, goes on
\* to its INSERT, or answers "error".
Untouched == users' = users /\ logs' = logs /\ sess' = sess

HandlerEffect ==
    /\ pc' = "dispatch" => pc \in {"line", "dispatch"} /\ Untouched
    /\ pc' = "insert" => pc \in {"dispatch", "insert"} /\ Untouched
    /\ pc \in {"dispatch", "insert", "log"} /\ pc' = "line" /\ reply'[cur] = "error" =>
           pc # "log" /\ Untouched

LEMMA HandlerEffects == ASSUME IInv, [Next]_vars PROVE HandlerEffect
<1> USE DEF IInv, TypeOK
<1>0. pc \in Handling => cur \in Conns
  BY DEF Serving
<1>1. CASE Startup
  BY <1>1 DEF Startup, Start, EnsureSchema, SeedExists, SeedInsert, SeedLog, Listen, Boot,
              HandlerEffect
<1>2. CASE TakeLine \/ Drained \/ UNCHANGED vars \/ \E c \in Conns, r \in Requests : Send(c, r)
  <2>1. CASE TakeLine
    BY <2>1 DEF TakeLine, dbVars, HandlerEffect, Untouched
  <2>2. CASE Drained
    BY <2>2 DEF Drained, HandlerEffect
  <2>3. CASE UNCHANGED vars
    BY <2>3 DEF vars, dbVars, loopVars, HandlerEffect, Untouched
  <2>4. ASSUME NEW c \in Conns, NEW r \in Requests, Send(c, r) PROVE HandlerEffect
    BY <2>4 DEF Send, dbVars, loopVars, HandlerEffect, Untouched
  <2> QED BY <1>2, <2>1, <2>2, <2>3, <2>4
<1>3. CASE Crash
  BY <1>3 DEF Crash, HandlerEffect
<1>4. ASSUME NEW c \in Conns, Connect(c) \/ ReadyRead(c) \/ Disconnected(c) PROVE HandlerEffect
  BY <1>4 DEF Connect, ReadyRead, Disconnected, loopVars, HandlerEffect
<1>5. CASE NoEffect \/ cmdTool
  BY <1>5 DEF NoEffect, cmdTool, Dispatch, Answer, Log, Then, dbVars, HandlerEffect, Untouched
<1>6. CASE cmdRegister
  BY <1>6 DEF cmdRegister, Dispatch, Answer, Then, userExists, dbVars, HandlerEffect, Untouched
<1>7. CASE cmdRegisterInsert
  BY <1>7 DEF cmdRegisterInsert, registerUser, Answer, Log, Then, HandlerEffect, Untouched
<1>8. CASE cmdLogin
  BY <1>8 DEF cmdLogin, Dispatch, authenticate, Answer, Log, Then, dbVars, HandlerEffect, Untouched
<1>9. CASE cmdSetBlock
  BY <1>9 DEF cmdSetBlock, Dispatch, setBlocked, Answer, Log, Then, dbVars, HandlerEffect, Untouched
<1>10. CASE cmdList
  BY <1>10 DEF cmdList, Dispatch, listTable, Answer, dbVars, HandlerEffect, Untouched
<1>11. CASE WriteLog
  <2>1. pc = "log" /\ cur \in Conns /\ Answer("ok")
    BY <1>0, <1>11 DEF WriteLog, Handling
  <2>2. reply'[cur] = "ok" /\ pc' = "line"
    BY <2>1 DEF Answer
  <2> QED BY <2>2 DEF HandlerEffect
<1> QED BY <1>1, <1>2, <1>3, <1>4, <1>5, <1>6, <1>7, <1>8, <1>9, <1>10, <1>11 DEF Next, Handler

LEMMA BeforeKept ==
    ASSUME IInv, [Next]_vars, Observe, BeforeInv
    PROVE  BeforeInv'
<1> SUFFICES ASSUME pc' \in {"dispatch", "insert"} PROVE before' = <<users', logs', sess'>>
  BY DEF BeforeInv
<1>1. HandlerEffect
  BY HandlerEffects
<1>2. CASE pc = "line" /\ pc' = "dispatch"
  BY <1>1, <1>2 DEF Observe, HandlerEffect, Untouched
<1>3. CASE pc \in {"dispatch", "insert"}
  <2>1. before' = before
    BY <1>3 DEF Observe
  <2> QED BY <1>1, <1>3, <2>1 DEF BeforeInv, HandlerEffect, Untouched
<1> QED BY <1>1, <1>2, <1>3 DEF HandlerEffect

-----------------------------------------------------------------------------
(* The theorems.                                                           *)

AuditInv ==
    /\ IInv
    /\ RegisterInv /\ ReplayInv /\ LoginInv /\ PairInv
    /\ AckedIsDurable /\ BeforeInv

LEMMA AuditInitial == ASSUME AuditInit PROVE AuditInv
<1>1. /\ IInv /\ pc = "down" /\ logs = <<>> /\ DOMAIN users = {} /\ acked = {}
  BY InitIInv DEF AuditInit, Init, DbInit
<1>2. \A u : (\A a : Rows(u, a) = {}) /\ \A b : FlagRows(u, b) = {}
  BY <1>1 DEF Rows, FlagRows
<1>3. RegisterInv /\ ReplayInv /\ LoginInv
  BY <1>1, <1>2 DEF RegisterInv, Registering, ReplayInv, LoginInv, NoLoginWhileBlocked
<1>4. AckedIsDurable /\ BeforeInv
  BY <1>1 DEF AckedIsDurable, BeforeInv
<1>5. PairInv
  <2>1. \A u : Rows(u, "disconnect") = {} /\ Rows(u, "login") = {}
    BY <1>2
  <2>2. \A c \in Conns : ~sess[c].authed
    BY Types DEF AuditInit, Init
  <2>3. \A u : Open(u) = {}
    BY <2>2 DEF Open
  <2>4. IsFiniteSet({}) /\ Cardinality({}) = 0 /\ 0 + 0 <= 0
    BY FS_EmptySet
  <2>5. \A u : /\ IsFiniteSet(Open(u))
               /\ Cardinality(Rows(u, "disconnect")) + Cardinality(Open(u))
                    <= Cardinality(Rows(u, "login"))
    BY <2>1, <2>3, <2>4, Zenon
  <2>6. DisconnectsPaired
    BY <2>1 DEF DisconnectsPaired
  <2> QED BY <1>1, <2>5, <2>6 DEF PairInv
<1> QED BY <1>1, <1>3, <1>4, <1>5 DEF AuditInv

LEMMA AuditStep == ASSUME AuditInv, [Next /\ Observe]_auditVars PROVE AuditInv'
<1>1. CASE Next /\ Observe
  <2>1. IInv'
    BY <1>1, StepIInv DEF AuditInv
  <2>2. RegisterInv' /\ ReplayInv' /\ LoginInv' /\ PairInv'
    BY <1>1, RegisterKept, ReplayKept, LoginKept, PairKept DEF AuditInv
  <2>3. AckedIsDurable' /\ BeforeInv'
    BY <1>1, AckedKept, BeforeKept DEF AuditInv
  <2> QED BY <2>1, <2>2, <2>3 DEF AuditInv
<1>2. CASE UNCHANGED auditVars
  <2>1. UNCHANGED vars /\ gapped' = gapped /\ acked' = acked /\ before' = before
    BY <1>2 DEF auditVars
  <2>2. /\ users' = users /\ logs' = logs /\ sess' = sess
        /\ pc' = pc /\ row' = row /\ req' = req /\ cur' = cur
    BY <2>1 DEF vars, dbVars, loopVars
  <2>3. IInv'
    BY <2>1, StepIInv DEF AuditInv
  <2>4. \A u : /\ \A a : Rows(u, a)' = Rows(u, a)
               /\ \A b : FlagRows(u, b)' = FlagRows(u, b)
               /\ LoggedFlag(u)' = LoggedFlag(u)
    BY <2>2, SameRows
  <2>5. \A u : /\ Rows(u, "register")' = Rows(u, "register")
               /\ Rows(u, "login")' = Rows(u, "login")
               /\ FlagRows(u, TRUE)' = FlagRows(u, TRUE)
               /\ FlagRows(u, FALSE)' = FlagRows(u, FALSE)
               /\ LoggedFlag(u)' = LoggedFlag(u)
    BY <2>4
  <2>6. RegisterInv'
    BY <2>1, <2>2, <2>5 DEF AuditInv, RegisterInv, Registering
  <2>7. ReplayInv'
    BY <2>1, <2>2, <2>5 DEF AuditInv, ReplayInv, Flagging
  <2>8. LoginInv'
    BY <2>1, <2>2, <2>5 DEF AuditInv, LoginInv, NoLoginWhileBlocked
  <2>9. AckedIsDurable' /\ BeforeInv'
    BY <2>1, <2>2 DEF AuditInv, AckedIsDurable, BeforeInv
  <2>10. PairInv'
    <3>1. \A u : /\ Rows(u, "disconnect")' = Rows(u, "disconnect")
                 /\ Open(u)' = Open(u)
      BY <2>2, <2>4 DEF Open, Pending
    <3> QED BY <2>1, <2>2, <2>5, <3>1 DEF AuditInv, PairInv, DisconnectsPaired
  <2> QED BY <2>3, <2>6, <2>7, <2>8, <2>9, <2>10 DEF AuditInv
<1> QED BY <1>1, <1>2

LEMMA AuditInvariance == AuditSpec => []AuditInv
BY AuditInitial, AuditStep, PTL DEF AuditSpec

\* Replaying the set_block rows gives the blocked column, after any crashes, for
\* every account that lost no row (database.cpp setBlocked, log).
THEOREM TheLogReplays == AuditSpec => []AuditReplay
<1>1. AuditInv => AuditReplay
  BY DEF AuditInv, ReplayInv, AuditReplay, Flagging
<1> QED BY <1>1, AuditInvariance, PTL

\* In the log an unblocking row stands between a blocking row and a later login
\* of the account (clienthandler.cpp cmdLogin).
THEOREM NoBlockedLogins == AuditSpec => []NoLoginWhileBlocked
<1>1. AuditInv => NoLoginWhileBlocked
  BY DEF AuditInv, LoginInv
<1> QED BY <1>1, AuditInvariance, PTL

\* Every disconnect row has a login row of its own before it, whatever rows the
\* crashes left over (clienthandler.cpp onDisconnected, cmdLogin).
THEOREM EveryDisconnectHasItsLogin == AuditSpec => []DisconnectsPaired
<1>1. AuditInv => DisconnectsPaired
  BY DEF AuditInv, PairInv
<1> QED BY <1>1, AuditInvariance, PTL

\* A registration answered ok stays, with its password, through crashes and
\* attempts to register the login again (clienthandler.cpp cmdRegister).
THEOREM WhatIsAckedIsDurable == AuditSpec => []AckedIsDurable
<1>1. AuditInv => AckedIsDurable
  BY DEF AuditInv
<1> QED BY <1>1, AuditInvariance, PTL

\* The log tells of one registration of an account, never of two, and of none
\* only when its row was lost (clienthandler.cpp cmdRegister).
THEOREM OneRegistration == AuditSpec => []RegisteredOnce
<1>1. ASSUME AuditInv PROVE RegisteredOnce
  <2>1. RegisterInv
    BY <1>1 DEF AuditInv
  <2> SUFFICES ASSUME NEW u \in Logins
               PROVE  /\ Cardinality(Rows(u, "register")) <= 1
                      /\ u \in DOMAIN users \ ({"admin"} \cup gapped) /\ pc \notin {"insert", "log"}
                           => Rows(u, "register") # {}
    BY DEF RegisteredOnce
  <2>2. CASE Rows(u, "register") = {}
    <3>1. Cardinality(Rows(u, "register")) = 0
      BY <2>2, FS_EmptySet
    <3> QED BY <2>1, <3>1 DEF RegisterInv, Registering
  <2>3. CASE Rows(u, "register") # {}
    <3>1. PICK i \in Rows(u, "register") : TRUE
      BY <2>3
    <3>2. Rows(u, "register") = {i}
      BY <2>1, <3>1 DEF RegisterInv
    <3>3. Cardinality(Rows(u, "register")) = 1
      BY <3>2, FS_Singleton
    <3> QED BY <2>3, <3>3
  <2> QED BY <2>2, <2>3
<1> QED BY <1>1, AuditInvariance, PTL

\* A request that is answered "error" has changed no table and no session, from
\* its first statement to its last (clienthandler.cpp).
THEOREM ErrorsHaveNoEffect == AuditSpec => ErrorMeansNoEffect
<1> DEFINE A == (pc \in {"dispatch", "insert", "log"} /\ pc' = "line" /\ reply'[cur] = "error")
                  => before = <<users', logs', sess'>>
<1>1. ASSUME AuditInv, [Next /\ Observe]_auditVars PROVE [A]_auditVars
  <2>1. CASE UNCHANGED auditVars
    BY <2>1
  <2>2. CASE Next
    <3>1. HandlerEffect
      BY <1>1, <2>2, HandlerEffects DEF AuditInv
    <3>2. A
      BY <1>1, <3>1 DEF AuditInv, BeforeInv, HandlerEffect, Untouched
    <3> QED BY <3>2
  <2> QED BY <1>1, <2>1, <2>2
<1>2. [][A]_auditVars <=> ErrorMeansNoEffect
  BY PTL DEF ErrorMeansNoEffect
<1> QED BY <1>1, <1>2, AuditInvariance, PTL DEF AuditSpec

=============================================================================
