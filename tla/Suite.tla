------------------------------- MODULE Suite -------------------------------
(***************************************************************************)
(* The programs together: pd_client processes, each with the dialog, the   *)
(* window and the one socket of its ClientCore, and pd_server.  What is    *)
(* between them is taken at the grain that the other modules justify: one  *)
(* line is one message in a queue for each direction (RequestChannel), one *)
(* request is one step of the server (its slots do not interleave), and a  *)
(* session's role is that of its account (Server's SessionCoherent).  No   *)
(* SQL statement fails here.  A server that dies and comes back is one     *)
(* that drops every connection.                                            *)
(***************************************************************************)
EXTENDS Naturals, Sequences

CONSTANTS
    Clients,    \* runs of pd_client, each with one user
    Conns,      \* connections
    NoConn,
    Logins,
    Passwords,
    Typed,      \* the <<login, password>> pairs users type into the dialog
    Tabs,       \* the tools whose button users press
    MaxClicks,  \* bound on the clicks of one user
    MaxMishaps  \* bound on lost connections, given up requests and programs closed

VARIABLES
    accounts,  \* the users table
    live,      \* connections with a ClientHandler
    who,       \* login_ of each, "" until a LOGIN succeeds
    inbox,     \* lines on their way to the server
    outbox,    \* lines on their way to the client, or in its socket
    ui,        \* what each client shows
    link,      \* the connection of its socket, while the socket is connected
    call,      \* the request it waits for
    me,        \* login_ and role_
    table,     \* the rows of userTable_: login |-> "blocked" is "yes"
    done,      \* what its user was told last
    gaveUp,    \* a request on this connection was given up
    clicks,
    mishaps,
    proved     \* (history) the logins the server let this run in as

serverVars == <<accounts, live, who>>
wires == <<inbox, outbox>>
clientVars == <<ui, link, call, me, table, done, gaveUp, clicks>>
vars == <<serverVars, wires, clientVars, mishaps, proved>>

\* Something goes wrong, or is broken off.
Mishap == mishaps < MaxMishaps /\ mishaps' = mishaps + 1

-----------------------------------------------------------------------------
AdminCommands == {"LIST_USERS", "SET_BLOCK", "LOG_LIST"}

\* The field of the answer in which a tab, or the table of logs, finds what it
\* shows.
Field == [VIGENERE |-> "result", SHA384 |-> "hash", MD5 |-> "hash", CHORD |-> "root",
          LOG_LIST |-> "logs"]

Tools == DOMAIN Field \ {"LOG_LIST"}

Request ==
    [cmd: {"LOGIN", "REGISTER", ""} \cup AdminCommands \cup Tools,
     login: Logins \cup {""}, password: Passwords \cup {""}, blocked: BOOLEAN]

Credentials(cmd, u, p) == [cmd |-> cmd, login |-> u, password |-> p, blocked |-> FALSE]

Ask(cmd) == Credentials(cmd, "", "")

SetBlock(u, b) == [Ask("SET_BLOCK") EXCEPT !.login = u, !.blocked = b]

NoCall == Ask("")

NoRows == [u \in {} |-> FALSE]

\* An answer, with the command whose result it has.
Answer(ok, role, users, result) ==
    [ok |-> ok, role |-> role, users |-> users, result |-> result]

Refusal == Answer(FALSE, "", NoRows, "")

Nobody == [login |-> "", role |-> ""]

Told(r, outcome, result) == [req |-> r, outcome |-> outcome, result |-> result]

NothingTold == Told(NoCall, "no answer", "")

\* password stands for its hash: the table compares hashes (see Database), and
\* different passwords have different ones.
Account(p, role) == [password |-> p, role |-> role, blocked |-> FALSE]

ASSUME SuiteAssumption ==
    /\ NoConn \notin Conns
    /\ "admin" \in Logins /\ "" \notin Logins /\ "admin" \in Passwords
    /\ Typed \subseteq (Logins \cup {""}) \X (Passwords \cup {""})
    /\ Tabs \subseteq Tools
    /\ MaxClicks \in Nat /\ MaxMishaps \in Nat

\* A server that has started on a new database.
Init ==
    /\ accounts = [u \in {"admin"} |-> Account("admin", "admin")]
    /\ live = {} /\ who = [c \in Conns |-> ""]
    /\ inbox = [c \in Conns |-> <<>>] /\ outbox = [c \in Conns |-> <<>>]
    /\ ui = [w \in Clients |-> "dialog"] /\ link = [w \in Clients |-> NoConn]
    /\ call = [w \in Clients |-> NoCall] /\ me = [w \in Clients |-> Nobody]
    /\ table = [w \in Clients |-> NoRows] /\ done = [w \in Clients |-> NothingTold]
    /\ gaveUp = [w \in Clients |-> FALSE] /\ clicks = [w \in Clients |-> 0]
    /\ mishaps = 0 /\ proved = [w \in Clients |-> {}]

-----------------------------------------------------------------------------
(* The server's commands, for the line r that came in on c.                *)

Reply(c, rep) == outbox' = [outbox EXCEPT ![c] = Append(@, rep)]

IsAdmin(c) == who[c] \in DOMAIN accounts /\ accounts[who[c]].role = "admin"

\* Mutant: blocked is not looked at.
LoginIgnoresBlock(c, r) ==
    /\ r.cmd = "LOGIN"
    /\ IF r.login \in DOMAIN accounts /\ accounts[r.login].password = r.password
       THEN /\ who' = [who EXCEPT ![c] = r.login]
            /\ Reply(c, Answer(TRUE, accounts[r.login].role, NoRows, ""))
            /\ proved' = [w \in Clients |-> IF link[w] = c THEN proved[w] \cup {r.login}
                                            ELSE proved[w]]
       ELSE Reply(c, Refusal) /\ UNCHANGED <<who, proved>>
    /\ UNCHANGED accounts

cmdLogin(c, r) ==
    /\ r.cmd = "LOGIN"
    /\ IF /\ r.login \in DOMAIN accounts
          /\ accounts[r.login].password = r.password /\ ~accounts[r.login].blocked
       THEN /\ who' = [who EXCEPT ![c] = r.login]
            /\ Reply(c, Answer(TRUE, accounts[r.login].role, NoRows, ""))
            /\ proved' = [w \in Clients |-> IF link[w] = c THEN proved[w] \cup {r.login}
                                            ELSE proved[w]]
       ELSE Reply(c, Refusal) /\ UNCHANGED <<who, proved>>
    /\ UNCHANGED accounts

\* Mutant: the role is read from the request, which has none.
RegisterWithoutRole(c, r) ==
    /\ r.cmd = "REGISTER"
    /\ IF "" \in {r.login, r.password} \/ r.login \in DOMAIN accounts
       THEN Reply(c, Refusal) /\ UNCHANGED accounts
       ELSE /\ accounts' = [u \in DOMAIN accounts \cup {r.login} |->
                              IF u = r.login THEN Account(r.password, "") ELSE accounts[u]]
            /\ Reply(c, Answer(TRUE, "", NoRows, ""))
    /\ UNCHANGED <<who, proved>>

cmdRegister(c, r) ==
    /\ r.cmd = "REGISTER"
    /\ IF "" \in {r.login, r.password} \/ r.login \in DOMAIN accounts
       THEN Reply(c, Refusal) /\ UNCHANGED accounts
       ELSE /\ accounts' = [u \in DOMAIN accounts \cup {r.login} |->
                              IF u = r.login THEN Account(r.password, "user") ELSE accounts[u]]
            /\ Reply(c, Answer(TRUE, "", NoRows, ""))
    /\ UNCHANGED <<who, proved>>

\* Mutant: the server turns the flag over, whatever value was asked for.
SetBlockToggles(c, r) ==
    /\ r.cmd = "SET_BLOCK"
    /\ IF IsAdmin(c) /\ r.login \in DOMAIN accounts
       THEN /\ accounts' = [accounts EXCEPT ![r.login].blocked = ~@]
            /\ Reply(c, Answer(TRUE, "", NoRows, ""))
       ELSE Reply(c, Refusal) /\ UNCHANGED accounts
    /\ UNCHANGED <<who, proved>>

cmdSetBlock(c, r) ==
    /\ r.cmd = "SET_BLOCK"
    /\ IF IsAdmin(c) /\ r.login \in DOMAIN accounts
       THEN /\ accounts' = [accounts EXCEPT ![r.login].blocked = r.blocked]
            /\ Reply(c, Answer(TRUE, "", NoRows, ""))
       ELSE Reply(c, Refusal) /\ UNCHANGED accounts
    /\ UNCHANGED <<who, proved>>

\* cmdListUsers and cmdLogList.
cmdList(c, r) ==
    /\ r.cmd \in {"LIST_USERS", "LOG_LIST"}
    /\ Reply(c, IF ~IsAdmin(c) THEN Refusal
                ELSE IF r.cmd = "LOG_LIST" THEN Answer(TRUE, "", NoRows, r.cmd)
                ELSE Answer(TRUE, "", [u \in DOMAIN accounts |-> accounts[u].blocked], ""))
    /\ UNCHANGED <<accounts, who, proved>>

\* The cipher and the solver may refuse what was typed.
cmdTool(c, r) ==
    /\ r.cmd \in Tools
    /\ \/ who[c] # "" /\ Reply(c, Answer(TRUE, "", NoRows, r.cmd))
       \/ (who[c] = "" \/ r.cmd \in {"VIGENERE", "CHORD"}) /\ Reply(c, Refusal)
    /\ UNCHANGED <<accounts, who, proved>>

dispatch(c, r) ==
    cmdLogin(c, r) \/ cmdRegister(c, r) \/ cmdSetBlock(c, r) \/ cmdList(c, r) \/ cmdTool(c, r)

\* onReadyRead, for one line.
Serve(c) ==
    /\ c \in live /\ inbox[c] # <<>>
    /\ inbox' = [inbox EXCEPT ![c] = Tail(@)]
    /\ dispatch(c, Head(inbox[c]))
    /\ UNCHANGED <<live, clientVars, mishaps>>

\* The server's end of c goes away: lines not read are lost, and what it has
\* sent may still arrive.
Drop(c) ==
    /\ c \in live /\ Mishap
    /\ live' = live \ {c} /\ who' = [who EXCEPT ![c] = ""]
    /\ inbox' = [inbox EXCEPT ![c] = <<>>]
    /\ outbox' = outbox \/ outbox' = [outbox EXCEPT ![c] = <<>>]
    /\ UNCHANGED <<accounts, clientVars, proved>>

-----------------------------------------------------------------------------
(* The clients.                                                            *)

\* The dialog is cancelled, the window closed, or the process killed; the next
\* run begins with the dialog.
Close(w) ==
    /\ Mishap
    /\ ui' = [ui EXCEPT ![w] = "dialog"] /\ link' = [link EXCEPT ![w] = NoConn]
    /\ call' = [call EXCEPT ![w] = NoCall] /\ me' = [me EXCEPT ![w] = Nobody]
    /\ table' = [table EXCEPT ![w] = NoRows] /\ done' = [done EXCEPT ![w] = NothingTold]
    /\ gaveUp' = [gaveUp EXCEPT ![w] = FALSE] /\ proved' = [proved EXCEPT ![w] = {}]
    /\ UNCHANGED <<serverVars, wires, clicks>>

\* The socket finds that it is no longer connected.  Nobody listens to
\* connectionLost.
Lose(w) ==
    /\ link[w] # NoConn /\ Mishap
    /\ link' = [link EXCEPT ![w] = NoConn]
    /\ UNCHANGED <<serverVars, wires, ui, call, me, table, done, gaveUp, clicks, proved>>

Click(w, screen) ==
    /\ ui[w] = screen /\ call[w] = NoCall /\ clicks[w] < MaxClicks
    /\ clicks' = [clicks EXCEPT ![w] = @ + 1]

\* request() up to the wait, on a connected socket.
request(w, r) ==
    /\ call' = [call EXCEPT ![w] = r]
    /\ inbox' = IF link[w] \in live THEN [inbox EXCEPT ![link[w]] = Append(@, r)] ELSE inbox

\* Mutant: connectTo keeps what the socket before had received.
connectToKeepsData(w, c, r) ==
    /\ c \notin live /\ \A v \in Clients : link[v] # c
    /\ live' = live \cup {c} /\ link' = [link EXCEPT ![w] = c]
    /\ inbox' = [inbox EXCEPT ![c] = <<r>>]
    /\ call' = [call EXCEPT ![w] = r]
    /\ gaveUp' = [gaveUp EXCEPT ![w] = FALSE] /\ done' = [done EXCEPT ![w] = NothingTold]
    /\ UNCHANGED outbox

\* connectTo, and the request on the new connection.
connectTo(w, c, r) ==
    /\ c \notin live /\ \A v \in Clients : link[v] # c
    /\ live' = live \cup {c} /\ link' = [link EXCEPT ![w] = c]
    /\ inbox' = [inbox EXCEPT ![c] = <<r>>] /\ outbox' = [outbox EXCEPT ![c] = <<>>]
    /\ call' = [call EXCEPT ![w] = r]
    /\ gaveUp' = [gaveUp EXCEPT ![w] = FALSE] /\ done' = [done EXCEPT ![w] = NothingTold]

\* doLogin and doRegister, which connect when they have to; when that fails
\* nothing changes.
DialogClick(w) ==
    \E cmd \in {"LOGIN", "REGISTER"}, t \in Typed :
        LET r == Credentials(cmd, t[1], t[2]) IN
        /\ Click(w, "dialog")
        /\ \/ link[w] # NoConn /\ request(w, r) /\ UNCHANGED <<live, link, gaveUp, done, outbox>>
           \/ link[w] = NoConn /\ \E c \in Conns : connectTo(w, c, r)
        /\ UNCHANGED <<accounts, who, ui, me, table, mishaps, proved>>

\* isAdmin(), which loginChanged applies to the last tab.
AdminTabVisible(w) == me[w].role = "admin"

\* toggleBlock sends the opposite of what the selected row shows.
toggleBlock(w) == {SetBlock(u, ~table[w][u]) : u \in DOMAIN table[w]}

\* What the buttons of the window send.
Buttons(w) ==
    {Ask(t) : t \in Tabs}
    \cup IF AdminTabVisible(w) THEN {Ask("LIST_USERS"), Ask("LOG_LIST")} \cup toggleBlock(w) ELSE {}

\* A window whose connection is lost says so, and never connects again.
WindowClick(w) ==
    \E r \in Buttons(w) :
        /\ Click(w, "window")
        /\ IF link[w] # NoConn THEN request(w, r) /\ UNCHANGED done
           ELSE done' = [done EXCEPT ![w] = NothingTold] /\ UNCHANGED <<call, inbox>>
        /\ UNCHANGED <<serverVars, outbox, ui, link, me, table, gaveUp, mishaps, proved>>

\* login() keeps who its user is, and the dialog gives way to the window.
loginReturns(w, rep) ==
    IF call[w].cmd = "LOGIN" /\ rep.ok
    THEN /\ ui' = [ui EXCEPT ![w] = "window"]
         /\ me' = [me EXCEPT ![w] = [login |-> call[w].login, role |-> rep.role]]
    ELSE UNCHANGED <<ui, me>>

\* An answer without "users" leaves no rows.
refreshUsersReturns(w, rep) ==
    table' = IF call[w].cmd = "LIST_USERS" /\ rep.ok THEN [table EXCEPT ![w] = rep.users] ELSE table

\* toggleBlock goes on to refreshUsers, whatever the answer.
NextRequest(w) ==
    IF call[w].cmd = "SET_BLOCK" /\ link[w] # NoConn
    THEN request(w, Ask("LIST_USERS"))
    ELSE call' = [call EXCEPT ![w] = NoCall] /\ UNCHANGED inbox

\* The command whose result is then shown where that of r belongs.
Shown(r, rep) ==
    IF {r.cmd, rep.result} \subseteq DOMAIN Field /\ Field[r.cmd] = Field[rep.result]
    THEN rep.result ELSE ""

\* The slot goes on with what request() returned.
Return(w, rep, outcome) ==
    /\ done' = [done EXCEPT ![w] = Told(call[w], outcome, Shown(call[w], rep))]
    /\ loginReturns(w, rep) /\ refreshUsersReturns(w, rep) /\ NextRequest(w)

\* Mutant: the line stays in the buffer.
TakeKeepsLine(w) ==
    /\ call[w] # NoCall /\ link[w] # NoConn /\ outbox[link[w]] # <<>>
    /\ LET rep == Head(outbox[link[w]]) IN Return(w, rep, IF rep.ok THEN "ok" ELSE "refused")
    /\ UNCHANGED outbox
    /\ UNCHANGED <<serverVars, link, gaveUp, clicks, mishaps, proved>>

\* request() returns the first line there is, whatever request it answers, and
\* discards what else has arrived with it.
Take(w) ==
    /\ call[w] # NoCall /\ link[w] # NoConn /\ outbox[link[w]] # <<>>
    /\ LET rep == Head(outbox[link[w]]) IN Return(w, rep, IF rep.ok THEN "ok" ELSE "refused")
    /\ \E n \in 1..Len(outbox[link[w]]) :
           outbox' = [outbox EXCEPT ![link[w]] = SubSeq(@, n + 1, Len(@))]
    /\ UNCHANGED <<serverVars, link, gaveUp, clicks, mishaps, proved>>

\* The time is up, or the connection is lost.
GiveUp(w) ==
    /\ call[w] # NoCall /\ Mishap
    /\ gaveUp' = [gaveUp EXCEPT ![w] = TRUE]
    /\ Return(w, Refusal, "no answer")
    /\ UNCHANGED <<serverVars, outbox, link, clicks, proved>>

Next ==
    \/ \E c \in Conns : Serve(c) \/ Drop(c)
    \/ \E w \in Clients :
           \/ Close(w) \/ Lose(w)
           \/ DialogClick(w) \/ WindowClick(w) \/ Take(w) \/ GiveUp(w)

Spec == Init /\ [][Next]_vars

-----------------------------------------------------------------------------
(* Properties.                                                             *)

Table == UNION {[D -> BOOLEAN] : D \in SUBSET Logins}

Row == [password: Passwords, role: {"user", "admin"}, blocked: BOOLEAN]

Answers ==
    [ok: BOOLEAN, role: {"", "user", "admin"}, users: Table, result: DOMAIN Field \cup {""}]

TypeOK ==
    /\ DOMAIN accounts \subseteq Logins /\ accounts \in [DOMAIN accounts -> Row]
    /\ live \subseteq Conns /\ who \in [Conns -> Logins \cup {""}]
    /\ inbox \in [Conns -> Seq(Request)] /\ outbox \in [Conns -> Seq(Answers)]
    /\ ui \in [Clients -> {"dialog", "window"}]
    /\ link \in [Clients -> Conns \cup {NoConn}]
    /\ call \in [Clients -> Request]
    /\ me \in [Clients -> [login: Logins \cup {""}, role: {"", "user", "admin"}]]
    /\ table \in [Clients -> Table]
    /\ done \in [Clients -> [req: Request, outcome: {"ok", "refused", "no answer"},
                              result: DOMAIN Field \cup {""}]]
    /\ gaveUp \in [Clients -> BOOLEAN] /\ clicks \in [Clients -> 0..MaxClicks]
    /\ mishaps \in 0..MaxMishaps /\ proved \in [Clients -> SUBSET Logins]

\* The socket of w is connected and has answered every request on it so far.
Attended(w) == link[w] # NoConn /\ ~gaveUp[w]

\* The window is that of the session which the server has on its connection.
IdentityIsServed(w) ==
    ui[w] = "window" /\ link[w] \in live =>
        /\ me[w].login = who[link[w]] /\ me[w].login \in DOMAIN accounts
        /\ me[w].role = accounts[me[w].login].role

\* "Account created" means that it is stored, with the password typed in; a
\* refusal, also of a second attempt, that there is one (or a field was empty).
RegistrationIsTrue(d) ==
    d.req.cmd = "REGISTER" =>
        /\ d.outcome = "ok" =>
               d.req.login \in DOMAIN accounts /\ accounts[d.req.login].password = d.req.password
        /\ d.outcome = "refused" =>
               d.req.login \in DOMAIN accounts \/ "" \in {d.req.login, d.req.password}

\* Every tab shows what its own button asked for, and no button of the
\* administration tab is refused.
ResultIsOwn(d) ==
    /\ d.req.cmd \in DOMAIN Field /\ d.outcome = "ok" => d.result = d.req.cmd
    /\ d.req.cmd \in AdminCommands => d.outcome # "refused"

\* As long as no request of its connection was given up, everything a client
\* shows is true of the server, whatever other clients and the network do.
ShownIsTrue ==
    \A w \in Clients : Attended(w) =>
        IdentityIsServed(w) /\ RegistrationIsTrue(done[w]) /\ ResultIsOwn(done[w])

\* The administration tab is only shown in a run of the client that typed an
\* administrator's credentials, even if its answers came late or were lost.
AdminTabIsEarned ==
    \A w \in Clients : me[w].role = "admin" =>
        \E u \in proved[w] : u \in DOMAIN accounts /\ accounts[u].role = "admin"

\* A click on a row of the table changes nothing unless the row shows how
\* things are at that moment: of two administrators who block the same
\* account, the second does not unblock it.
StaleClickIsHarmless ==
    [][\A w \in Clients, u \in DOMAIN accounts :
         /\ Attended(w) /\ call[w].cmd = "SET_BLOCK"
         /\ inbox'[link[w]] # inbox[link[w]] /\ link[w] \in live'
         /\ accounts'[u].blocked # accounts[u].blocked
         => u \in DOMAIN table[w] /\ table[w][u] = accounts[u].blocked]_vars

accountsBar == [u \in DOMAIN accounts |-> [role |-> accounts[u].role, blocked |-> accounts[u].blocked]]

AC == INSTANCE AccessControl WITH accounts <- accountsBar, who <- who

\* However confused the windows may be, accounts and sessions change only as
\* AccessControl, which Server implements, allows.
ActsWithinAccessControl == [][AC!AcNext]_<<accountsBar, who>>
=============================================================================
