------------------------------- MODULE Server -------------------------------
(***************************************************************************)
(* The pd_server process: start-up (server/main.cpp, Database::open), the  *)
(* TCP server (server/src/server.cpp) and the ClientHandler of each        *)
(* connection (server/src/clienthandler.cpp) over the store of Database.   *)
(*                                                                         *)
(* One thread runs one Qt event loop.  A slot runs to its end before the   *)
(* next one starts, so two handlers never interleave; but every SQL        *)
(* statement commits on its own, so a crash (or Ctrl+C, which runs no      *)
(* destructor) can fall between two statements of one handler, and the     *)
(* next statement can fail where the one before it succeeded.  pc is the   *)
(* statement the process is about to execute.                              *)
(***************************************************************************)
EXTENDS Database

CONSTANTS
    Conns,         \* connections a client may open
    NoConn,        \* no connection is being served
    Requests,      \* the requests clients send
    MaxRequests,   \* bound on the requests of a behaviour
    MaxPipeline    \* bound on the lines in flight on one connection

VARIABLES
    pc,       \* what the thread does next
    cur,      \* the connection whose onReadyRead is running
    req,      \* the request being handled
    row,      \* the log row the handler is about to insert
    conns,    \* connections with a live ClientHandler
    sess,     \* login_, role_ and authed_ of each ClientHandler
    wire,     \* lines sent by the client and not yet read
    buffer,   \* complete lines in buffer_
    reply,    \* the outcome of the last response written
    sent      \* requests sent so far

loopVars == <<pc, cur, req, row>>
sockVars == <<conns, wire, sent>>
vars == <<dbVars, loopVars, sockVars, sess, buffer, reply>>

-----------------------------------------------------------------------------
Tools == {"VIGENERE", "SHA384", "MD5", "CHORD"}

Commands == Tools \cup {"PING", "REGISTER", "LOGIN", "STEG_CAP", "LIST_USERS",
                        "SET_BLOCK", "LOG_LIST", "unknown", "bad json", "blank"}

\* The action column each tool's handler logs.
ActionOf == [cmd \in Tools |-> CASE cmd = "VIGENERE" -> "vigenere" [] cmd = "SHA384" -> "sha384"
                                [] cmd = "MD5" -> "md5" [] cmd = "CHORD" -> "chord"]

\* A line, as the handlers see it: r.value() yields "" or false when the field
\* is absent.  "bad json" stands for a line that unpack() rejects, "blank" for one
\* with nothing but spaces.
Request == [cmd: Commands, login: Logins \cup {""}, password: Passwords \cup {""},
            blocked: BOOLEAN]

NoReq == [cmd |-> "PING", login |-> "", password |-> "", blocked |-> FALSE]

NoRow == Entry("system", "seed_admin")

ASSUME ServerAssumption ==
    /\ NoConn \notin Conns
    /\ Requests \subseteq Request
    /\ MaxRequests \in Nat /\ MaxPipeline \in Nat

Session == [login: Logins \cup {""}, role: Roles \cup {""}, authed: BOOLEAN]

NewSession == [login |-> "", role |-> "", authed |-> FALSE]

Booting == {"create_users", "create_logs", "seed_exists", "seed_insert", "seed_log", "listen"}

Handling == {"line", "dispatch", "insert", "log"}

Init ==
    /\ DbInit
    /\ pc = "down" /\ cur = NoConn /\ req = NoReq /\ row = NoRow
    /\ conns = {} /\ sent = 0
    /\ sess = [c \in Conns |-> NewSession]
    /\ wire = [c \in Conns |-> <<>>]
    /\ buffer = [c \in Conns |-> <<>>]
    /\ reply = [c \in Conns |-> "none"]

-----------------------------------------------------------------------------
(* Start-up: main() opens the database, which creates the schema and seeds *)
(* the administrator, then listens.  A database file that cannot be opened *)
(* ends the process before anything changes: it stays down.                *)

Boot(from, to) ==
    /\ pc = from /\ pc' = to
    /\ UNCHANGED <<cur, req, row, sockVars, sess, buffer, reply>>

Start == Boot("down", "create_users") /\ UNCHANGED dbVars

\* Mutant: only a database without a users table is taken further.
EnsureSchemaSkipsSeed ==
    \/ /\ Boot("create_users", IF "users" \in schema THEN "listen" ELSE "create_logs")
       /\ createTable("users")
    \/ Boot("create_logs", "seed_exists") /\ createTable("logs")

EnsureSchema ==
    \/ Boot("create_users", "create_logs") /\ createTable("users")
    \/ Boot("create_logs", "seed_exists") /\ createTable("logs")

SeedExists ==
    \E found \in BOOLEAN :
        /\ Boot("seed_exists", IF found THEN "listen" ELSE "seed_insert")
        /\ userExists("admin", found)

\* The result of the INSERT is not looked at.
SeedInsert ==
    \E ok \in BOOLEAN :
        /\ Boot("seed_insert", "seed_log")
        /\ registerUser("admin", Hash("admin"), "admin", ok)

SeedLog ==
    /\ Boot("seed_log", "listen")
    /\ log(Entry("system", "seed_admin"))

\* A port in use makes main() return 2.
Listen ==
    /\ Boot("listen", "idle") \/ Boot("listen", "down")
    /\ UNCHANGED dbVars

-----------------------------------------------------------------------------
(* Connections and lines.                                                  *)

Connect(c) ==
    /\ pc = "idle" /\ c \notin conns
    /\ conns' = conns \cup {c}
    /\ UNCHANGED <<dbVars, loopVars, wire, sent, sess, buffer, reply>>

Send(c, r) ==
    /\ c \in conns /\ sent < MaxRequests /\ Len(wire[c]) < MaxPipeline
    /\ wire' = [wire EXCEPT ![c] = Append(@, r)]
    /\ sent' = sent + 1
    /\ UNCHANGED <<dbVars, loopVars, conns, sess, buffer, reply>>

\* onReadyRead: readAll() takes the n lines that have arrived.
ReadyRead(c) ==
    \E n \in 1..Len(wire[c]) :
        /\ pc = "idle" /\ c \in conns
        /\ buffer' = [buffer EXCEPT ![c] = @ \o SubSeq(wire[c], 1, n)]
        /\ wire' = [wire EXCEPT ![c] = SubSeq(@, n + 1, Len(@))]
        /\ pc' = "line" /\ cur' = c
        /\ UNCHANGED <<dbVars, req, row, conns, sent, sess, reply>>

\* A blank line is dropped without an answer.
TakeLine ==
    /\ pc = "line" /\ buffer[cur] # <<>>
    /\ buffer' = [buffer EXCEPT ![cur] = Tail(@)]
    /\ IF Head(buffer[cur]).cmd = "blank"
       THEN UNCHANGED <<pc, req>>
       ELSE pc' = "dispatch" /\ req' = Head(buffer[cur])
    /\ UNCHANGED <<dbVars, cur, row, sockVars, sess, reply>>

\* Mutant: onReadyRead handles one line per signal and leaves the others.
DrainedEarly ==
    /\ pc = "line"
    /\ pc' = "idle" /\ cur' = NoConn
    /\ UNCHANGED <<dbVars, req, row, sockVars, sess, buffer, reply>>

Drained ==
    /\ pc = "line" /\ buffer[cur] = <<>>
    /\ pc' = "idle" /\ cur' = NoConn
    /\ UNCHANGED <<dbVars, req, row, sockVars, sess, buffer, reply>>

\* Mutant: the next client on c finds the session of the one before.
ForgetKeepsSession(c) ==
    /\ conns' = conns \ {c}
    /\ wire' = [wire EXCEPT ![c] = <<>>]
    /\ buffer' = [buffer EXCEPT ![c] = <<>>]
    /\ reply' = [reply EXCEPT ![c] = "none"]
    /\ UNCHANGED sess

\* The ClientHandler of c goes away, its socket with it.
Forget(c) ==
    /\ conns' = conns \ {c}
    /\ sess' = [sess EXCEPT ![c] = NewSession]
    /\ wire' = [wire EXCEPT ![c] = <<>>]
    /\ buffer' = [buffer EXCEPT ![c] = <<>>]
    /\ reply' = [reply EXCEPT ![c] = "none"]

\* The peer closed or the connection broke; lines not read are lost.
Disconnected(c) ==
    /\ pc = "idle" /\ c \in conns
    /\ IF sess[c].authed
       THEN log(Entry(sess[c].login, "disconnect"))
       ELSE UNCHANGED dbVars
    /\ Forget(c)
    /\ UNCHANGED <<loopVars, sent>>

\* The process dies: what was committed stays, everything else is gone.
Crash ==
    /\ pc # "down"
    /\ pc' = "down" /\ cur' = NoConn /\ req' = NoReq /\ row' = NoRow
    /\ conns' = {}
    /\ sess' = [c \in Conns |-> NewSession]
    /\ wire' = [c \in Conns |-> <<>>]
    /\ buffer' = [c \in Conns |-> <<>>]
    /\ reply' = [c \in Conns |-> "none"]
    /\ UNCHANGED <<dbVars, sent>>

-----------------------------------------------------------------------------
(* The commands, from dispatch() to the response.  A handler ends with     *)
(* Answer, or goes on to another statement with Then.                      *)

Answer(outcome) ==
    /\ reply' = [reply EXCEPT ![cur] = outcome]
    /\ pc' = "line" /\ req' = NoReq /\ row' = NoRow
    /\ UNCHANGED <<cur, sockVars, buffer>>

Then(next, logRow) ==
    /\ pc' = next /\ row' = logRow
    /\ UNCHANGED <<cur, req, sockVars, buffer, reply>>

Log(logRow) == Then("log", logRow)

Dispatch(cmds) == pc = "dispatch" /\ req.cmd \in cmds

requireAuth == sess[cur].authed

\* Mutant: any login will do for the administrator's commands.
AnyUserIsAdmin == requireAuth

requireAdmin == requireAuth /\ sess[cur].role = "admin"

\* Commands that touch no table: PING answers, the rest is refused.
NoEffect ==
    /\ \/ Dispatch({"PING"}) /\ Answer("ok")
       \/ Dispatch({"unknown", "bad json"}) /\ Answer("error")
       \/ Dispatch({"STEG_CAP"}) /\ Answer(IF requireAuth THEN "ok" ELSE "error")
    /\ UNCHANGED <<dbVars, sess>>

MissingCredentials == req.login = "" \/ req.password = ""

cmdRegister ==
    /\ Dispatch({"REGISTER"})
    /\ IF MissingCredentials
       THEN Answer("error") /\ UNCHANGED dbVars
       ELSE \E found \in BOOLEAN :
                /\ userExists(req.login, found)
                /\ IF found THEN Answer("error") ELSE Then("insert", NoRow)
    /\ UNCHANGED sess

\* Mutant: the result of the INSERT is ignored, as SeedInsert does.
RegisterInsertUnchecked ==
    /\ pc = "insert"
    /\ \E ok \in BOOLEAN :
        /\ registerUser(req.login, Hash(req.password), "user", ok)
        /\ Log(Entry(req.login, "register"))
    /\ UNCHANGED sess

cmdRegisterInsert ==
    /\ pc = "insert"
    /\ \E ok \in BOOLEAN :
        /\ registerUser(req.login, Hash(req.password), "user", ok)
        /\ IF ok THEN Log(Entry(req.login, "register")) ELSE Answer("error")
    /\ UNCHANGED sess

\* Mutant: blocked is not looked at.
LoginIgnoresBlock ==
    /\ Dispatch({"LOGIN"})
    /\ IF MissingCredentials
       THEN Answer("error") /\ UNCHANGED <<dbVars, sess>>
       ELSE \E ok \in BOOLEAN :
                /\ authenticate(req.login, Hash(req.password), ok)
                /\ IF ok
                   THEN /\ sess' = [sess EXCEPT ![cur] =
                                      [login |-> req.login, role |-> users[req.login].role,
                                       authed |-> TRUE]]
                        /\ Log(Entry(req.login, "login"))
                   ELSE Answer("error") /\ UNCHANGED sess

\* Mutant: login_ is assigned before the password is known to be right.
LoginAssignsEarly ==
    /\ Dispatch({"LOGIN"})
    /\ IF MissingCredentials
       THEN Answer("error") /\ UNCHANGED <<dbVars, sess>>
       ELSE \E ok \in BOOLEAN :
                /\ authenticate(req.login, Hash(req.password), ok)
                /\ IF ok /\ ~users[req.login].blocked
                   THEN /\ sess' = [sess EXCEPT ![cur] =
                                      [login |-> req.login, role |-> users[req.login].role,
                                       authed |-> TRUE]]
                        /\ Log(Entry(req.login, "login"))
                   ELSE Answer("error") /\ sess' = [sess EXCEPT ![cur].login = req.login]

cmdLogin ==
    /\ Dispatch({"LOGIN"})
    /\ IF MissingCredentials
       THEN Answer("error") /\ UNCHANGED <<dbVars, sess>>
       ELSE \E ok \in BOOLEAN :
                /\ authenticate(req.login, Hash(req.password), ok)
                /\ IF ok /\ ~users[req.login].blocked
                   THEN /\ sess' = [sess EXCEPT ![cur] =
                                      [login |-> req.login, role |-> users[req.login].role,
                                       authed |-> TRUE]]
                        /\ Log(Entry(req.login, "login"))
                   ELSE Answer("error") /\ UNCHANGED sess

\* Mutant: the tools forget to ask for a login.
ToolWithoutLogin ==
    /\ Dispatch(Tools)
    /\ Log(Entry(sess[cur].login, ActionOf[req.cmd]))
    /\ UNCHANGED <<dbVars, sess>>

\* cmdVigenere, cmdSha384, cmdMd5, cmdChord.  The cipher rejects an unusable
\* key and the solver an unusable equation, before they log; the hashes log
\* first and cannot fail.
cmdTool ==
    /\ Dispatch(Tools)
    /\ \/ requireAuth /\ Log(Entry(sess[cur].login, ActionOf[req.cmd]))
       \/ ~requireAuth /\ Answer("error")
       \/ requireAuth /\ req.cmd \in {"VIGENERE", "CHORD"} /\ Answer("error")
    /\ UNCHANGED <<dbVars, sess>>

cmdSetBlock ==
    /\ Dispatch({"SET_BLOCK"})
    /\ IF ~requireAdmin
       THEN Answer("error") /\ UNCHANGED dbVars
       ELSE \E ok \in BOOLEAN :
                /\ setBlocked(req.login, req.blocked, ok)
                /\ IF ok THEN Log([login |-> sess[cur].login, action |-> "set_block",
                                   target |-> req.login, flag |-> req.blocked])
                         ELSE Answer("error")
    /\ UNCHANGED sess

\* cmdListUsers and cmdLogList.
cmdList ==
    /\ Dispatch({"LIST_USERS", "LOG_LIST"})
    /\ IF ~requireAdmin
       THEN Answer("error") /\ UNCHANGED dbVars
       ELSE Answer("ok") /\ listTable(IF req.cmd = "LIST_USERS" THEN "users" ELSE "logs")
    /\ UNCHANGED sess

\* The last statement of a handler that logs; it answers ok either way.
WriteLog ==
    /\ pc = "log"
    /\ log(row)
    /\ Answer("ok")
    /\ UNCHANGED sess

-----------------------------------------------------------------------------
Startup == Start \/ EnsureSchema \/ SeedExists \/ SeedInsert \/ SeedLog \/ Listen

Handler ==
    \/ TakeLine \/ Drained \/ NoEffect \/ cmdRegister \/ cmdRegisterInsert
    \/ cmdLogin \/ cmdTool \/ cmdSetBlock \/ cmdList \/ WriteLog

Next ==
    \/ Startup \/ Handler \/ Crash
    \/ \E c \in Conns : Connect(c) \/ ReadyRead(c) \/ Disconnected(c)
    \/ \E c \in Conns, r \in Requests : Send(c, r)

Spec == Init /\ [][Next]_vars

\* The event loop keeps running the slot it is in and serves every socket
\* that has data; nothing forces a client to send, or a crash to happen.
Fairness == WF_vars(Startup) /\ WF_vars(Handler) /\ \A c \in Conns : WF_vars(ReadyRead(c))

FairSpec == Spec /\ Fairness

-----------------------------------------------------------------------------
(* Properties.                                                             *)

TypeOK ==
    /\ DbTypeOK
    /\ pc \in {"down", "idle"} \cup Booting \cup Handling
    /\ cur \in Conns \cup {NoConn}
    /\ req \in Request /\ row \in LogRow
    /\ conns \subseteq Conns
    /\ sess \in [Conns -> Session]
    /\ wire \in [Conns -> Seq(Request)] /\ buffer \in [Conns -> Seq(Request)]
    /\ reply \in [Conns -> {"none", "ok", "error"}]
    /\ sent \in 0..MaxRequests

\* The identity a ClientHandler caches at LOGIN never goes stale: as long as
\* the session lasts, the account exists and has the cached role.
SessionCoherent ==
    \A c \in Conns : sess[c].authed =>
        /\ sess[c].login \in DOMAIN users
        /\ sess[c].role = users[sess[c].login].role

\* The accounts that a log row tells of.
Named(r) == {r.login} \cup ({r.target} \ {""})

\* The log never tells of an account the users table does not have, whatever
\* crash or failed statement came between the two inserts.
AuditSound ==
    \A i \in 1..Len(logs) :
        logs[i].action # "seed_admin" => Named(logs[i]) \subseteq DOMAIN users

\* While the server accepts clients there is an account "admin" that is an
\* administrator (docs/wiki/Roles-and-Security.md:24).
AdminSeeded == pc = "idle" => "admin" \in DOMAIN users /\ users["admin"].role = "admin"

\* So it is as long as no statement has failed, wherever the starts before this
\* one were killed, and whoever tried to register as "admin".
AdminSeededUnlessFault == faults = 0 => AdminSeeded

\* A blocked flag changes only while an account that the TABLE calls admin is
\* being served (the handler looks at the role cached in the session).
OnlyAdminsBlock ==
    [][\A u \in DOMAIN users :
         u \in DOMAIN users' /\ users'[u].blocked # users[u].blocked =>
            /\ cur \in conns /\ sess[cur].login \in DOMAIN users
            /\ users[sess[cur].login].role = "admin"]_vars

\* Nobody administers the server, and everybody who could is blocked.
LockedOut ==
    /\ "admin" \in DOMAIN users
    /\ \A u \in DOMAIN users : users[u].role = "admin" => users[u].blocked
    /\ \A c \in Conns : sess[c].role # "admin"

\* Once locked out, locked out for good: no login, registration, restart or
\* re-seeding brings an administrator back.
LockoutIsForever == [][LockedOut => LockedOut']_vars

\* A connection has lines that were sent and not answered.
Unanswered(c) == wire[c] # <<>> \/ buffer[c] # <<>> \/ cur = c

\* Every line is taken out and answered (a blank one dropped), whatever arrived
\* with it, or its connection goes away.
EveryLineAnswered == \A c \in Conns : Unanswered(c) ~> ~Unanswered(c)
=============================================================================
