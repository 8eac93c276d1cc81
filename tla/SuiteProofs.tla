---------------------------- MODULE SuiteProofs ----------------------------
(***************************************************************************)
(* Theorems about Suite, for any number of clients and connections, any    *)
(* accounts and any number of clicks and mishaps.                          *)
(***************************************************************************)
EXTENDS Suite, TLAPS

-----------------------------------------------------------------------------
(* Types of what the operators of Suite build.                             *)

LEMMA FieldFacts ==
    /\ DOMAIN Field = {"VIGENERE", "SHA384", "MD5", "CHORD", "LOG_LIST"}
    /\ Tools = {"VIGENERE", "SHA384", "MD5", "CHORD"}
BY DEF Field, Tools

LEMMA TableFacts ==
    /\ NoRows \in Table /\ DOMAIN NoRows = {}
    /\ \A t \in Table : DOMAIN t \subseteq Logins /\ t \in [DOMAIN t -> BOOLEAN]
    /\ \A D \in SUBSET Logins : [D -> BOOLEAN] \subseteq Table
<1>1. DOMAIN NoRows = {} /\ NoRows \in [{} -> BOOLEAN]
  BY DEF NoRows
<1>2. \A D \in SUBSET Logins : [D -> BOOLEAN] \subseteq Table
  BY DEF Table
<1>3. \A t \in Table : DOMAIN t \subseteq Logins /\ t \in [DOMAIN t -> BOOLEAN]
  BY DEF Table
<1> QED BY <1>1, <1>2, <1>3

LEMMA RequestFacts ==
    /\ NoCall \in Request /\ NoCall.cmd = "" /\ NoCall.login = ""
    /\ \A cmd \in AdminCommands \cup Tools : Ask(cmd) \in Request /\ Ask(cmd).cmd = cmd
    /\ \A cmd \in {"LOGIN", "REGISTER"}, t \in Typed :
          LET r == Credentials(cmd, t[1], t[2]) IN
          r \in Request /\ r.cmd = cmd /\ r.login = t[1] /\ r.password = t[2]
    /\ \A u \in Logins, b \in BOOLEAN :
          LET r == SetBlock(u, b) IN
          r \in Request /\ r.cmd = "SET_BLOCK" /\ r.login = u /\ r.blocked = b
<1>1. ASSUME NEW t \in Typed PROVE t[1] \in Logins \cup {""} /\ t[2] \in Passwords \cup {""}
  BY SuiteAssumption
<1>2. ASSUME NEW u \in Logins, NEW b \in BOOLEAN
      PROVE  LET r == SetBlock(u, b) IN
             r \in Request /\ r.cmd = "SET_BLOCK" /\ r.login = u /\ r.blocked = b
  BY DEF SetBlock, Ask, Credentials, Request, AdminCommands
<1>3. NoCall \in Request /\ NoCall.cmd = "" /\ NoCall.login = ""
  BY DEF NoCall, Ask, Credentials, Request
<1>4. \A cmd \in AdminCommands \cup Tools : Ask(cmd) \in Request /\ Ask(cmd).cmd = cmd
  BY DEF Ask, Credentials, Request
<1>5. ASSUME NEW cmd \in {"LOGIN", "REGISTER"}, NEW t \in Typed
      PROVE  LET r == Credentials(cmd, t[1], t[2]) IN
             r \in Request /\ r.cmd = cmd /\ r.login = t[1] /\ r.password = t[2]
  BY <1>1 DEF Credentials, Request
<1> QED BY <1>2, <1>3, <1>4, <1>5

LEMMA AnswerFacts ==
    /\ Refusal \in Answers /\ ~Refusal.ok /\ Refusal.role = "" /\ Refusal.users = NoRows
BY TableFacts DEF Refusal, Answer, Answers

-----------------------------------------------------------------------------
(* What the server does with one line.                                     *)

AccountsTyped == DOMAIN accounts \subseteq Logins /\ accounts \in [DOMAIN accounts -> Row]

\* What no command does: remove an account, or change its role or password.
KeepsAccounts ==
    \A u \in DOMAIN accounts :
        /\ u \in DOMAIN accounts'
        /\ accounts'[u].role = accounts[u].role /\ accounts'[u].password = accounts[u].password

\* The answer rep to the request r of connection c is true.
Truthful(c, r, rep) ==
    /\ r.cmd = "LOGIN" /\ rep.ok =>
           /\ c \in live => who[c] = r.login
           /\ r.login \in DOMAIN accounts /\ rep.role = accounts[r.login].role
    /\ r.cmd = "REGISTER" /\ rep.ok =>
           r.login \in DOMAIN accounts /\ accounts[r.login].password = r.password
    /\ r.cmd = "REGISTER" /\ ~rep.ok => r.login \in DOMAIN accounts \/ "" \in {r.login, r.password}
    /\ r.cmd \in DOMAIN Field /\ rep.ok => rep.result = r.cmd

\* An answer that makes a client an administrator's is earned by its user.
Earned(c, role) ==
    role = "admin" => \E u \in DOMAIN accounts :
        accounts[u].role = "admin" /\ \A w \in Clients : link[w] = c => u \in proved'[w]

\* The command r of connection c was answered with rep.
Served(c, r, rep) ==
    /\ outbox' = [outbox EXCEPT ![c] = Append(@, rep)]
    /\ AccountsTyped' /\ KeepsAccounts
    /\ who' \in [Conns -> Logins \cup {""}]
    /\ \A d \in Conns : d # c \/ r.cmd # "LOGIN" => who'[d] = who[d]
    /\ proved' \in [Clients -> SUBSET Logins] /\ \A w \in Clients : proved[w] \subseteq proved'[w]
    /\ DOMAIN rep.users \subseteq DOMAIN accounts
    /\ Earned(c, rep.role)
    /\ Truthful(c, r, rep)'
    /\ r.cmd \in AdminCommands /\ IsAdmin(c) /\ (r.cmd = "SET_BLOCK" => r.login \in DOMAIN accounts)
           => rep.ok

LEMMA LoginServed ==
    ASSUME TypeOK, NEW c \in Conns, NEW r \in Request, cmdLogin(c, r)
    PROVE  \E rep \in Answers : Served(c, r, rep)
<1> DEFINE passes == /\ r.login \in DOMAIN accounts
                     /\ accounts[r.login].password = r.password /\ ~accounts[r.login].blocked
<1>1. /\ AccountsTyped' /\ KeepsAccounts /\ accounts' = accounts
      /\ r.cmd = "LOGIN" /\ "LOGIN" \notin AdminCommands /\ "LOGIN" \notin DOMAIN Field
  BY FieldFacts DEF cmdLogin, AccountsTyped, KeepsAccounts, TypeOK, AdminCommands
<1>2. CASE passes
  <2> DEFINE role == accounts[r.login].role
  <2>1. r.login \in Logins /\ role \in {"user", "admin"}
    BY <1>2 DEF TypeOK, Row
  <2>2. PICK rep \in Answers :
          /\ rep = Answer(TRUE, role, NoRows, "")
          /\ rep.ok /\ rep.role = role /\ DOMAIN rep.users = {}
    <3> DEFINE it == Answer(TRUE, role, NoRows, "")
    <3>1. it \in Answers
      BY <2>1, TableFacts DEF Answer, Answers
    <3>2. it.ok /\ it.role = role /\ it.users = NoRows
      BY DEF Answer
    <3> QED BY <3>1, <3>2, TableFacts
  <2>3. /\ who' = [who EXCEPT ![c] = r.login]
        /\ outbox' = [outbox EXCEPT ![c] = Append(@, rep)]
        /\ proved' = [w \in Clients |-> IF link[w] = c THEN proved[w] \cup {r.login} ELSE proved[w]]
    <3>1. /\ who' = [who EXCEPT ![c] = r.login] /\ Reply(c, Answer(TRUE, role, NoRows, ""))
          /\ proved' = [w \in Clients |-> IF link[w] = c THEN proved[w] \cup {r.login}
                                          ELSE proved[w]]
      BY <1>2 DEF cmdLogin
    <3>2. Reply(c, rep)
      BY <2>2, <3>1
    <3> QED BY <3>1, <3>2 DEF Reply
  <2>4. who' \in [Conns -> Logins \cup {""}] /\ \A d \in Conns : d # c => who'[d] = who[d]
    BY <2>1, <2>3 DEF TypeOK
  <2>5. /\ proved' \in [Clients -> SUBSET Logins]
        /\ \A w \in Clients : proved[w] \subseteq proved'[w]
        /\ \A w \in Clients : link[w] = c => r.login \in proved'[w]
    BY <2>1, <2>3 DEF TypeOK
  <2>6. Earned(c, rep.role)
    BY <1>2, <2>2, <2>5 DEF Earned
  <2>7. Truthful(c, r, rep)'
    <3>1. who'[c] = r.login
      BY <2>3 DEF TypeOK
    <3> QED BY <1>1, <1>2, <2>2, <3>1 DEF Truthful
  <2>8. Served(c, r, rep)
    BY <1>1, <2>2, <2>3, <2>4, <2>5, <2>6, <2>7 DEF Served
  <2> QED BY <2>2, <2>8
<1>3. CASE ~passes
  <2>1. who' = who /\ proved' = proved /\ outbox' = [outbox EXCEPT ![c] = Append(@, Refusal)]
    BY <1>3 DEF cmdLogin, Reply
  <2>2. Earned(c, Refusal.role) /\ Truthful(c, r, Refusal)' /\ DOMAIN Refusal.users = {}
    BY <1>1, AnswerFacts, TableFacts DEF Earned, Truthful
  <2>3. Served(c, r, Refusal)
    BY <1>1, <2>1, <2>2 DEF Served, TypeOK
  <2> QED BY <2>3, AnswerFacts
<1> QED BY <1>2, <1>3

\* A refusal changes nothing; it must be a true one.
LEMMA RefusalServed ==
    ASSUME TypeOK, NEW c \in Conns, NEW r \in Request,
           UNCHANGED <<accounts, who, proved>>, Reply(c, Refusal),
           r.cmd = "REGISTER" => r.login \in DOMAIN accounts \/ "" \in {r.login, r.password},
           r.cmd \in AdminCommands =>
               ~IsAdmin(c) \/ (r.cmd = "SET_BLOCK" /\ r.login \notin DOMAIN accounts)
    PROVE  \E rep \in Answers : Served(c, r, rep)
<1>1. AccountsTyped' /\ KeepsAccounts /\ outbox' = [outbox EXCEPT ![c] = Append(@, Refusal)]
  BY DEF TypeOK, AccountsTyped, KeepsAccounts, Reply
<1>2. Earned(c, Refusal.role) /\ Truthful(c, r, Refusal)' /\ DOMAIN Refusal.users = {}
  BY AnswerFacts, TableFacts DEF Earned, Truthful
<1>3. Served(c, r, Refusal)
  BY <1>1, <1>2 DEF Served, TypeOK
<1> QED BY <1>3, AnswerFacts

\* An answer with data also changes nothing.
LEMMA DataServed ==
    ASSUME TypeOK, NEW c \in Conns, NEW r \in Request, NEW rep \in Answers,
           UNCHANGED <<accounts, who, proved>>, Reply(c, rep),
           rep.ok, rep.role = "", DOMAIN rep.users \subseteq DOMAIN accounts,
           r.cmd \notin {"LOGIN", "REGISTER"}, r.cmd \in DOMAIN Field => rep.result = r.cmd
    PROVE  \E it \in Answers : Served(c, r, it)
<1>1. AccountsTyped' /\ KeepsAccounts /\ outbox' = [outbox EXCEPT ![c] = Append(@, rep)]
  BY DEF TypeOK, AccountsTyped, KeepsAccounts, Reply
<1>2. Earned(c, rep.role) /\ Truthful(c, r, rep)'
  BY DEF Earned, Truthful
<1>3. Served(c, r, rep)
  BY <1>1, <1>2 DEF Served, TypeOK
<1> QED BY <1>3

LEMMA DataAnswer ==
    ASSUME NEW t \in Table, NEW res \in DOMAIN Field \cup {""}
    PROVE  \E it \in Answers : /\ it = Answer(TRUE, "", t, res)
                               /\ it.ok /\ it.role = "" /\ it.users = t /\ it.result = res
<1> DEFINE it == Answer(TRUE, "", t, res)
<1>1. it \in Answers
  BY DEF Answer, Answers
<1>2. it.ok /\ it.role = "" /\ it.users = t /\ it.result = res
  BY DEF Answer
<1> QED BY <1>1, <1>2

LEMMA ListServed ==
    ASSUME TypeOK, NEW c \in Conns, NEW r \in Request, cmdList(c, r)
    PROVE  \E rep \in Answers : Served(c, r, rep)
<1>1. r.cmd \in {"LIST_USERS", "LOG_LIST"} /\ UNCHANGED <<accounts, who, proved>>
  BY DEF cmdList
<1>2. CASE ~IsAdmin(c)
  <2>1. Reply(c, Refusal)
    BY <1>2 DEF cmdList
  <2> QED BY <1>1, <1>2, <2>1, RefusalServed
<1>3. CASE IsAdmin(c) /\ r.cmd = "LOG_LIST"
  <2>1. PICK it \in Answers : /\ it = Answer(TRUE, "", NoRows, r.cmd)
                              /\ it.ok /\ it.role = "" /\ it.users = NoRows /\ it.result = r.cmd
    <3>1. r.cmd \in DOMAIN Field \cup {""} /\ NoRows \in Table
      BY <1>3, TableFacts, FieldFacts
    <3> QED BY ZenonT(60), <3>1, DataAnswer
  <2>2. Reply(c, it)
    BY <1>3, <2>1 DEF cmdList
  <2> QED BY <1>1, <2>1, <2>2, DataServed, TableFacts
<1>4. CASE IsAdmin(c) /\ r.cmd = "LIST_USERS"
  <2> DEFINE rows == [u \in DOMAIN accounts |-> accounts[u].blocked]
  <2>1. Reply(c, Answer(TRUE, "", rows, ""))
    BY <1>4 DEF cmdList
  <2>2. rows \in Table /\ DOMAIN rows = DOMAIN accounts
    <3>1. rows \in [DOMAIN accounts -> BOOLEAN]
      BY DEF TypeOK, Row
    <3> QED BY <3>1, TableFacts DEF TypeOK
  <2> HIDE DEF rows
  <2>3. PICK it \in Answers : /\ it = Answer(TRUE, "", rows, "")
                              /\ it.ok /\ it.role = "" /\ it.users = rows
    <3>1. "" \in DOMAIN Field \cup {""}
      OBVIOUS
    <3> QED BY ZenonT(60), <2>2, <3>1, DataAnswer
  <2>4. Reply(c, it)
    BY <2>1, <2>3
  <2> QED BY <1>1, <1>4, <2>1, <2>2, <2>3, <2>4, DataServed, FieldFacts
<1> QED BY <1>1, <1>2, <1>3, <1>4

LEMMA ToolServed ==
    ASSUME TypeOK, NEW c \in Conns, NEW r \in Request, cmdTool(c, r)
    PROVE  \E rep \in Answers : Served(c, r, rep)
<1>1. /\ r.cmd \in Tools /\ UNCHANGED <<accounts, who, proved>>
      /\ r.cmd \notin {"LOGIN", "REGISTER"} \cup AdminCommands
  BY FieldFacts DEF cmdTool, AdminCommands
<1>2. CASE Reply(c, Refusal)
  BY <1>1, <1>2, RefusalServed
<1>3. CASE Reply(c, Answer(TRUE, "", NoRows, r.cmd))
  <2>1. PICK it \in Answers : /\ it = Answer(TRUE, "", NoRows, r.cmd)
                              /\ it.ok /\ it.role = "" /\ it.users = NoRows /\ it.result = r.cmd
    <3>1. r.cmd \in DOMAIN Field \cup {""} /\ NoRows \in Table
      BY <1>1, TableFacts, FieldFacts
    <3> QED BY ZenonT(60), <3>1, DataAnswer
  <2>2. Reply(c, it)
    BY <1>3, <2>1
  <2> QED BY <1>1, <2>1, <2>2, DataServed, TableFacts
<1> QED BY <1>2, <1>3 DEF cmdTool

\* What is answered to a command that writes an account.
LEMMA DoneAnswer ==
    \E rep \in Answers : /\ rep = Answer(TRUE, "", NoRows, "")
                          /\ rep.ok /\ rep.role = "" /\ DOMAIN rep.users = {}
<1>1. NoRows \in Table /\ DOMAIN NoRows = {} /\ "" \in DOMAIN Field \cup {""}
  BY TableFacts
<1>2. \E it \in Answers : /\ it = Answer(TRUE, "", NoRows, "")
                          /\ it.ok /\ it.role = "" /\ it.users = NoRows
  BY ZenonT(60), <1>1, DataAnswer
<1> QED BY <1>1, <1>2

\* Blocking keeps every account.
LEMMA BlockingKeeps ==
    ASSUME AccountsTyped, NEW u \in DOMAIN accounts, NEW b \in BOOLEAN,
           accounts' = [accounts EXCEPT ![u].blocked = b]
    PROVE  AccountsTyped' /\ KeepsAccounts /\ DOMAIN accounts' = DOMAIN accounts
<1>1. DOMAIN accounts' = DOMAIN accounts
  OBVIOUS
<1>2. ASSUME NEW v \in DOMAIN accounts
      PROVE  /\ accounts'[v] \in Row
             /\ accounts'[v].role = accounts[v].role /\ accounts'[v].password = accounts[v].password
  BY DEF AccountsTyped, Row
<1>3. accounts' \in [DOMAIN accounts' -> Row]
  BY <1>1, <1>2
<1> QED BY <1>1, <1>2, <1>3 DEF AccountsTyped, KeepsAccounts

LEMMA BlockServed ==
    ASSUME TypeOK, NEW c \in Conns, NEW r \in Request, cmdSetBlock(c, r)
    PROVE  \E rep \in Answers : Served(c, r, rep)
<1>1. r.cmd = "SET_BLOCK" /\ who' = who /\ proved' = proved /\ r.cmd \notin DOMAIN Field
  BY FieldFacts DEF cmdSetBlock
<1>2. CASE ~(IsAdmin(c) /\ r.login \in DOMAIN accounts)
  <2>1. Reply(c, Refusal) /\ accounts' = accounts
    BY <1>2 DEF cmdSetBlock
  <2> QED BY <1>1, <1>2, <2>1, RefusalServed
<1>3. CASE IsAdmin(c) /\ r.login \in DOMAIN accounts
  <2>1. PICK rep \in Answers : /\ rep = Answer(TRUE, "", NoRows, "")
                               /\ rep.ok /\ rep.role = "" /\ DOMAIN rep.users = {}
    BY DoneAnswer
  <2>2. /\ accounts' = [accounts EXCEPT ![r.login].blocked = r.blocked]
        /\ Reply(c, Answer(TRUE, "", NoRows, ""))
    BY <1>3 DEF cmdSetBlock
  <2>3. outbox' = [outbox EXCEPT ![c] = Append(@, rep)]
    <3>1. Reply(c, rep)
      BY <2>1, <2>2
    <3> QED BY <3>1 DEF Reply
  <2>4. AccountsTyped' /\ KeepsAccounts
    BY <1>3, <2>2, BlockingKeeps DEF TypeOK, AccountsTyped, Request
  <2>5. Earned(c, rep.role) /\ Truthful(c, r, rep)'
    BY <1>1, <2>1 DEF Earned, Truthful
  <2>6. Served(c, r, rep)
    BY <1>1, <2>1, <2>3, <2>4, <2>5 DEF Served, TypeOK
  <2> QED BY <2>6
<1> QED BY <1>2, <1>3

LEMMA RegisterServed ==
    ASSUME TypeOK, NEW c \in Conns, NEW r \in Request, cmdRegister(c, r)
    PROVE  \E rep \in Answers : Served(c, r, rep)
<1>1. /\ r.cmd = "REGISTER" /\ who' = who /\ proved' = proved
      /\ r.cmd \notin DOMAIN Field \cup AdminCommands
  BY FieldFacts DEF cmdRegister, AdminCommands
<1>2. CASE "" \in {r.login, r.password} \/ r.login \in DOMAIN accounts
  <2>1. Reply(c, Refusal) /\ accounts' = accounts
    BY <1>2 DEF cmdRegister
  <2> QED BY <1>1, <1>2, <2>1, RefusalServed
<1>3. CASE ~("" \in {r.login, r.password} \/ r.login \in DOMAIN accounts)
  <2>1. PICK rep \in Answers : /\ rep = Answer(TRUE, "", NoRows, "")
                               /\ rep.ok /\ rep.role = "" /\ DOMAIN rep.users = {}
    BY DoneAnswer
  <2> DEFINE new == Account(r.password, "user")
  <2>2. /\ accounts' = [u \in DOMAIN accounts \cup {r.login} |->
                           IF u = r.login THEN new ELSE accounts[u]]
        /\ Reply(c, Answer(TRUE, "", NoRows, ""))
    BY <1>3 DEF cmdRegister
  <2>3. outbox' = [outbox EXCEPT ![c] = Append(@, rep)]
    <3>1. Reply(c, rep)
      BY <2>1, <2>2
    <3> QED BY <3>1 DEF Reply
  <2>4. new \in Row /\ new.password = r.password /\ r.login \in Logins
    BY <1>3 DEF Account, Row, Request
  <2> HIDE DEF new
  <2>5. AccountsTyped' /\ KeepsAccounts
    BY <1>3, <2>2, <2>4 DEF TypeOK, AccountsTyped, KeepsAccounts
  <2>6. r.login \in DOMAIN accounts' /\ accounts'[r.login].password = r.password
    BY <2>2, <2>4
  <2>7. Earned(c, rep.role) /\ Truthful(c, r, rep)'
    BY <1>1, <2>1, <2>6 DEF Earned, Truthful
  <2>8. Served(c, r, rep)
    BY <1>1, <2>1, <2>3, <2>5, <2>7 DEF Served, TypeOK
  <2> QED BY <2>8
<1> QED BY <1>2, <1>3

LEMMA DispatchServes ==
    ASSUME TypeOK, NEW c \in Conns, NEW r \in Request, dispatch(c, r)
    PROVE  \E rep \in Answers : Served(c, r, rep)
BY LoginServed, RegisterServed, BlockServed, ListServed, ToolServed DEF dispatch

-----------------------------------------------------------------------------
(* Type correctness.                                                       *)

LEMMA Bounds == MaxClicks \in Nat /\ MaxMishaps \in Nat /\ Tabs \subseteq Tools
BY Zenon, SuiteAssumption DEF SuiteAssumption

LEMMA InitTyped == Init => TypeOK
<1> SUFFICES ASSUME Init PROVE TypeOK
  OBVIOUS
<1>1. Account("admin", "admin") \in Row
  BY SuiteAssumption DEF Account, Row
<1>2. DOMAIN accounts \subseteq Logins /\ accounts \in [DOMAIN accounts -> Row]
  BY <1>1, SuiteAssumption DEF Init
<1>3. NothingTold \in [req: Request, outcome: {"ok", "refused", "no answer"},
                       result: DOMAIN Field \cup {""}]
  BY RequestFacts DEF NothingTold, Told
<1>4. Nobody \in [login: Logins \cup {""}, role: {"", "user", "admin"}]
  BY DEF Nobody
<1>5. /\ live \subseteq Conns /\ who \in [Conns -> Logins \cup {""}]
      /\ inbox \in [Conns -> Seq(Request)] /\ outbox \in [Conns -> Seq(Answers)]
  <2>1. <<>> \in Seq(Request) /\ <<>> \in Seq(Answers)
    OBVIOUS
  <2> QED BY <2>1 DEF Init
<1>6. /\ ui \in [Clients -> {"dialog", "window"}] /\ link \in [Clients -> Conns \cup {NoConn}]
      /\ gaveUp \in [Clients -> BOOLEAN] /\ clicks \in [Clients -> 0..MaxClicks]
      /\ mishaps \in 0..MaxMishaps /\ proved \in [Clients -> SUBSET Logins]
  <2>1. 0 \in 0..MaxMishaps /\ 0 \in 0..MaxClicks
    BY Bounds
  <2> QED BY <2>1 DEF Init
<1>7. call \in [Clients -> Request] /\ table \in [Clients -> Table]
  BY RequestFacts, TableFacts DEF Init
<1> QED BY <1>2, <1>3, <1>4, <1>5, <1>6, <1>7 DEF TypeOK, Init

\* The line that is served, and its answer.
LEMMA ServeFacts ==
    ASSUME TypeOK, NEW c \in Conns, Serve(c)
    PROVE  /\ inbox[c] \in Seq(Request) /\ inbox[c] # <<>>
           /\ \E r \in Request : /\ r = Head(inbox[c]) /\ dispatch(c, r)
                                 /\ \E rep \in Answers : Served(c, r, rep)
<1>1. inbox[c] \in Seq(Request) /\ inbox[c] # <<>>
  BY DEF Serve, TypeOK
<1>2. Head(inbox[c]) \in Request /\ dispatch(c, Head(inbox[c]))
  BY <1>1 DEF Serve
<1>3. PICK r \in Request : r = Head(inbox[c]) /\ dispatch(c, r)
  BY <1>2
<1>4. \E rep \in Answers : Served(c, r, rep)
  BY <1>3, DispatchServes
<1> QED BY <1>1, <1>3, <1>4

LEMMA ServeTyped == ASSUME TypeOK, NEW c \in Conns, Serve(c) PROVE TypeOK'
<1>1. inbox[c] \in Seq(Request) /\ inbox[c] # <<>>
  BY ServeFacts
<1>2. Tail(inbox[c]) \in Seq(Request)
  BY <1>1
<1>3. PICK r \in Request, rep \in Answers : Served(c, r, rep)
  BY ServeFacts
<1>4. inbox' \in [Conns -> Seq(Request)]
  BY <1>2 DEF Serve, TypeOK
<1>5. outbox' \in [Conns -> Seq(Answers)]
  <2>1. outbox \in [Conns -> Seq(Answers)]
    BY DEF TypeOK
  <2>2. outbox' = [outbox EXCEPT ![c] = Append(@, rep)]
    BY <1>3 DEF Served
  <2> QED BY <2>1, <2>2
<1>6. UNCHANGED <<live, clientVars, mishaps>>
  BY DEF Serve
<1> QED BY <1>3, <1>4, <1>5, <1>6 DEF TypeOK, Served, AccountsTyped, clientVars

\* The count of mishaps keeps its bound.
LEMMA MishapTyped == ASSUME TypeOK, Mishap PROVE mishaps' \in 0..MaxMishaps
<1>1. mishaps \in 0..MaxMishaps
  BY DEF TypeOK
<1> QED BY <1>1, Bounds DEF Mishap

LEMMA DropTyped == ASSUME TypeOK, NEW c \in Conns, Drop(c) PROVE TypeOK'
<1>1. mishaps' \in 0..MaxMishaps
  BY MishapTyped DEF Drop
<1>2. /\ live' \subseteq Conns /\ who' \in [Conns -> Logins \cup {""}]
      /\ inbox' \in [Conns -> Seq(Request)] /\ outbox' \in [Conns -> Seq(Answers)]
  <2>1. /\ inbox \in [Conns -> Seq(Request)] /\ outbox \in [Conns -> Seq(Answers)]
        /\ live \subseteq Conns /\ who \in [Conns -> Logins \cup {""}]
    BY DEF TypeOK
  <2>2. <<>> \in Seq(Request) /\ <<>> \in Seq(Answers)
    OBVIOUS
  <2> QED BY <2>1, <2>2 DEF Drop
<1> QED BY <1>1, <1>2 DEF TypeOK, Drop, clientVars

LEMMA CloseTyped == ASSUME TypeOK, NEW w \in Clients, Close(w) PROVE TypeOK'
<1>1. mishaps' \in 0..MaxMishaps
  BY MishapTyped DEF Close
<1>2. /\ ui' \in [Clients -> {"dialog", "window"}] /\ link' \in [Clients -> Conns \cup {NoConn}]
      /\ gaveUp' \in [Clients -> BOOLEAN] /\ proved' \in [Clients -> SUBSET Logins]
      /\ call' \in [Clients -> Request] /\ table' \in [Clients -> Table]
  BY RequestFacts, TableFacts DEF Close, TypeOK
<1>3. /\ me' \in [Clients -> [login: Logins \cup {""}, role: {"", "user", "admin"}]]
      /\ done' \in [Clients -> [req: Request, outcome: {"ok", "refused", "no answer"},
                               result: DOMAIN Field \cup {""}]]
  BY RequestFacts DEF Close, TypeOK, Nobody, NothingTold, Told
<1> QED BY <1>1, <1>2, <1>3 DEF TypeOK, Close, serverVars, wires

LEMMA LoseTyped == ASSUME TypeOK, NEW w \in Clients, Lose(w) PROVE TypeOK'
<1>1. mishaps' \in 0..MaxMishaps
  BY MishapTyped DEF Lose
<1>2. link' \in [Clients -> Conns \cup {NoConn}]
  BY DEF Lose, TypeOK
<1> QED BY <1>1, <1>2 DEF TypeOK, Lose, serverVars, wires

\* A request goes out on the client's own connection.
LEMMA RequestTyped ==
    ASSUME TypeOK, NEW w \in Clients, NEW r \in Request, link[w] # NoConn, request(w, r)
    PROVE  call' \in [Clients -> Request] /\ inbox' \in [Conns -> Seq(Request)]
<1>1. link[w] \in Conns
  BY DEF TypeOK
<1>2. call \in [Clients -> Request] /\ inbox \in [Conns -> Seq(Request)]
  BY DEF TypeOK
<1>3. Append(inbox[link[w]], r) \in Seq(Request)
  BY <1>1, <1>2
<1> QED BY <1>1, <1>2, <1>3 DEF request

LEMMA ClickTyped ==
    ASSUME TypeOK, NEW w \in Clients, NEW screen, Click(w, screen)
    PROVE  clicks' \in [Clients -> 0..MaxClicks]
<1>1. clicks \in [Clients -> 0..MaxClicks]
  BY DEF TypeOK
<1>2. clicks[w] + 1 \in 0..MaxClicks
  BY <1>1, Bounds DEF Click
<1> QED BY <1>1, <1>2 DEF Click

LEMMA DialogClickTyped == ASSUME TypeOK, NEW w \in Clients, DialogClick(w) PROVE TypeOK'
<1>1. PICK cmd \in {"LOGIN", "REGISTER"}, t \in Typed :
        LET r == Credentials(cmd, t[1], t[2]) IN
        /\ Click(w, "dialog")
        /\ \/ link[w] # NoConn /\ request(w, r) /\ UNCHANGED <<live, link, gaveUp, done, outbox>>
           \/ link[w] = NoConn /\ \E c \in Conns : connectTo(w, c, r)
        /\ UNCHANGED <<accounts, who, ui, me, table, mishaps, proved>>
  BY DEF DialogClick
<1> DEFINE r == Credentials(cmd, t[1], t[2])
<1>2. r \in Request
  BY RequestFacts
<1> HIDE DEF r
<1>3. clicks' \in [Clients -> 0..MaxClicks]
  BY <1>1, ClickTyped
<1>4. CASE link[w] # NoConn /\ request(w, r) /\ UNCHANGED <<live, link, gaveUp, done, outbox>>
  <2>1. call' \in [Clients -> Request] /\ inbox' \in [Conns -> Seq(Request)]
    BY <1>2, <1>4, RequestTyped
  <2> QED BY <1>1, <1>3, <1>4, <2>1 DEF TypeOK
<1>5. ASSUME NEW c \in Conns, connectTo(w, c, r) PROVE TypeOK'
  <2>1. /\ live \subseteq Conns /\ link \in [Clients -> Conns \cup {NoConn}]
        /\ inbox \in [Conns -> Seq(Request)] /\ outbox \in [Conns -> Seq(Answers)]
        /\ call \in [Clients -> Request] /\ gaveUp \in [Clients -> BOOLEAN]
        /\ done \in [Clients -> [req: Request, outcome: {"ok", "refused", "no answer"},
                                result: DOMAIN Field \cup {""}]]
    BY DEF TypeOK
  <2>2. <<r>> \in Seq(Request) /\ <<>> \in Seq(Answers)
    BY <1>2
  <2>3. NothingTold \in [req: Request, outcome: {"ok", "refused", "no answer"},
                         result: DOMAIN Field \cup {""}]
    BY RequestFacts DEF NothingTold, Told
  <2>4. /\ live' \subseteq Conns /\ link' \in [Clients -> Conns \cup {NoConn}]
        /\ inbox' \in [Conns -> Seq(Request)] /\ outbox' \in [Conns -> Seq(Answers)]
        /\ call' \in [Clients -> Request] /\ gaveUp' \in [Clients -> BOOLEAN]
        /\ done' \in [Clients -> [req: Request, outcome: {"ok", "refused", "no answer"},
                                 result: DOMAIN Field \cup {""}]]
    BY <1>2, <1>5, <2>1, <2>2, <2>3 DEF connectTo
  <2> QED BY <1>1, <1>3, <2>4 DEF TypeOK
<1> QED BY <1>1, <1>4, <1>5 DEF r

\* What the buttons of the window send is a request.
LEMMA ButtonFacts ==
    ASSUME TypeOK, NEW w \in Clients, NEW r \in Buttons(w)
    PROVE  /\ r \in Request /\ r.cmd \in AdminCommands \cup Tools
           /\ r.cmd \in AdminCommands => me[w].role = "admin"
           /\ r.cmd = "SET_BLOCK" => r.login \in DOMAIN table[w] /\ r.blocked = ~table[w][r.login]
<1>1. DOMAIN table[w] \subseteq Logins /\ table[w] \in [DOMAIN table[w] -> BOOLEAN]
  BY TableFacts DEF TypeOK
<1>2. ASSUME NEW t \in Tabs, r = Ask(t)
      PROVE  r \in Request /\ r.cmd = t /\ t \in Tools
  BY <1>2, Bounds DEF Ask, Credentials, Request
<1>3. ASSUME me[w].role = "admin", NEW cmd \in {"LIST_USERS", "LOG_LIST"}, r = Ask(cmd)
      PROVE  r \in Request /\ r.cmd = cmd
  BY <1>3 DEF AdminCommands, Ask, Credentials, Request
<1>4. ASSUME NEW u \in DOMAIN table[w], NEW b \in BOOLEAN, r = SetBlock(u, ~b)
      PROVE  r \in Request /\ r.cmd = "SET_BLOCK" /\ r.login = u /\ r.blocked = ~b
  <2>1. u \in Logins /\ (~b) \in BOOLEAN
    BY <1>1
  <2> QED BY <1>4, <2>1 DEF SetBlock, Ask, Credentials, Request, AdminCommands
<1>5. \/ \E t \in Tabs : r = Ask(t)
      \/ me[w].role = "admin" /\ r \in {Ask("LIST_USERS"), Ask("LOG_LIST")}
      \/ me[w].role = "admin" /\ \E u \in DOMAIN table[w] : r = SetBlock(u, ~table[w][u])
  BY DEF Buttons, AdminTabVisible, toggleBlock
<1>6. CASE \E t \in Tabs : r = Ask(t)
  BY <1>2, <1>6, FieldFacts DEF AdminCommands
<1>7. CASE me[w].role = "admin" /\ \E u \in DOMAIN table[w] : r = SetBlock(u, ~table[w][u])
  <2>1. PICK u \in DOMAIN table[w] : r = SetBlock(u, ~table[w][u])
    BY <1>7
  <2>2. table[w][u] \in BOOLEAN
    BY <1>1
  <2>3. r \in Request /\ r.cmd = "SET_BLOCK" /\ r.login = u /\ r.blocked = ~table[w][u]
    BY <1>4, <2>1, <2>2
  <2> QED BY <1>7, <2>1, <2>3 DEF AdminCommands
<1>8. CASE me[w].role = "admin" /\ r \in {Ask("LIST_USERS"), Ask("LOG_LIST")}
  BY <1>3, <1>8 DEF AdminCommands
<1> QED BY <1>5, <1>6, <1>7, <1>8

LEMMA WindowClickTyped == ASSUME TypeOK, NEW w \in Clients, WindowClick(w) PROVE TypeOK'
<1>1. PICK r \in Buttons(w) :
        /\ Click(w, "window")
        /\ IF link[w] # NoConn THEN request(w, r) /\ UNCHANGED done
           ELSE done' = [done EXCEPT ![w] = NothingTold] /\ UNCHANGED <<call, inbox>>
        /\ UNCHANGED <<serverVars, outbox, ui, link, me, table, gaveUp, mishaps, proved>>
  BY DEF WindowClick
<1>2. r \in Request
  BY ButtonFacts
<1>3. clicks' \in [Clients -> 0..MaxClicks]
  BY <1>1, ClickTyped
<1>4. CASE link[w] # NoConn
  <2>1. call' \in [Clients -> Request] /\ inbox' \in [Conns -> Seq(Request)]
    BY <1>1, <1>2, <1>4, RequestTyped
  <2> QED BY <1>1, <1>3, <1>4, <2>1 DEF TypeOK, serverVars
<1>5. CASE link[w] = NoConn
  <2>1. NothingTold \in [req: Request, outcome: {"ok", "refused", "no answer"},
                         result: DOMAIN Field \cup {""}]
    BY RequestFacts DEF NothingTold, Told
  <2> QED BY <1>1, <1>3, <1>5, <2>1 DEF TypeOK, serverVars
<1> QED BY <1>4, <1>5

\* What a slot does with an answer keeps every variable of the client typed.
LEMMA ReturnTyped ==
    ASSUME TypeOK, NEW w \in Clients, NEW rep \in Answers,
           NEW outcome \in {"ok", "refused", "no answer"}, Return(w, rep, outcome)
    PROVE  /\ ui' \in [Clients -> {"dialog", "window"}]
           /\ call' \in [Clients -> Request] /\ inbox' \in [Conns -> Seq(Request)]
           /\ me' \in [Clients -> [login: Logins \cup {""}, role: {"", "user", "admin"}]]
           /\ table' \in [Clients -> Table]
           /\ done' \in [Clients -> [req: Request, outcome: {"ok", "refused", "no answer"},
                                    result: DOMAIN Field \cup {""}]]
<1>1. /\ ui \in [Clients -> {"dialog", "window"}]
      /\ call \in [Clients -> Request] /\ inbox \in [Conns -> Seq(Request)]
      /\ me \in [Clients -> [login: Logins \cup {""}, role: {"", "user", "admin"}]]
      /\ table \in [Clients -> Table]
      /\ done \in [Clients -> [req: Request, outcome: {"ok", "refused", "no answer"},
                               result: DOMAIN Field \cup {""}]]
  BY DEF TypeOK
<1>2. /\ done' = [done EXCEPT ![w] = Told(call[w], outcome, Shown(call[w], rep))]
      /\ loginReturns(w, rep) /\ refreshUsersReturns(w, rep) /\ NextRequest(w)
  BY DEF Return
<1>3. Shown(call[w], rep) \in DOMAIN Field \cup {""}
  BY DEF Shown
<1>4. Told(call[w], outcome, Shown(call[w], rep))
          \in [req: Request, outcome: {"ok", "refused", "no answer"}, result: DOMAIN Field \cup {""}]
  BY <1>1, <1>3 DEF Told
<1>5. ui' \in [Clients -> {"dialog", "window"}]
  BY <1>1, <1>2 DEF loginReturns
<1>6. me' \in [Clients -> [login: Logins \cup {""}, role: {"", "user", "admin"}]]
  <2>1. rep.role \in {"", "user", "admin"} /\ call[w].login \in Logins \cup {""}
    BY <1>1 DEF Answers, Request
  <2>2. [login |-> call[w].login, role |-> rep.role]
            \in [login: Logins \cup {""}, role: {"", "user", "admin"}]
    BY <2>1
  <2>3. me' = me \/ me' = [me EXCEPT ![w] = [login |-> call[w].login, role |-> rep.role]]
    BY <1>2 DEF loginReturns
  <2> QED BY <1>1, <2>2, <2>3
<1>7. table' \in [Clients -> Table]
  <2>1. rep.users \in Table
    BY DEF Answers
  <2> QED BY <1>1, <1>2, <2>1 DEF refreshUsersReturns
<1>8. call' \in [Clients -> Request] /\ inbox' \in [Conns -> Seq(Request)]
  <2>1. CASE call[w].cmd = "SET_BLOCK" /\ link[w] # NoConn
    <3>1. request(w, Ask("LIST_USERS"))
      BY <1>2, <2>1 DEF NextRequest
    <3>2. Ask("LIST_USERS") \in Request
      BY DEF AdminCommands, Ask, Credentials, Request
    <3> QED BY <2>1, <3>1, <3>2, RequestTyped
  <2>2. CASE ~(call[w].cmd = "SET_BLOCK" /\ link[w] # NoConn)
    <3>1. call' = [call EXCEPT ![w] = NoCall] /\ UNCHANGED inbox
      BY <1>2, <2>2 DEF NextRequest
    <3> QED BY <1>1, <3>1, RequestFacts
  <2> QED BY <2>1, <2>2
<1>9. done' \in [Clients -> [req: Request, outcome: {"ok", "refused", "no answer"},
                            result: DOMAIN Field \cup {""}]]
  BY <1>1, <1>2, <1>4
<1> QED BY <1>5, <1>6, <1>7, <1>8, <1>9

\* The line that request() returns.
LEMMA TakeFacts ==
    ASSUME TypeOK, NEW w \in Clients, Take(w)
    PROVE  /\ link[w] \in Conns /\ call[w] # NoCall
           /\ outbox[link[w]] \in Seq(Answers) /\ outbox[link[w]] # <<>>
           /\ Head(outbox[link[w]]) \in Answers
           /\ Return(w, Head(outbox[link[w]]),
                     IF Head(outbox[link[w]]).ok THEN "ok" ELSE "refused")
           /\ \E n \in 1..Len(outbox[link[w]]) :
                  outbox' = [outbox EXCEPT ![link[w]] = SubSeq(@, n + 1, Len(@))]
<1>1. link[w] \in Conns /\ call[w] # NoCall /\ outbox[link[w]] # <<>>
  BY DEF TypeOK, Take
<1>2. outbox \in [Conns -> Seq(Answers)]
  BY DEF TypeOK
<1>3. outbox[link[w]] \in Seq(Answers) /\ Head(outbox[link[w]]) \in Answers
  BY <1>1, <1>2
<1> QED BY <1>1, <1>3 DEF Take

LEMMA TakeTyped == ASSUME TypeOK, NEW w \in Clients, Take(w) PROVE TypeOK'
<1>1. PICK rep \in Answers : Return(w, rep, IF rep.ok THEN "ok" ELSE "refused")
  BY TakeFacts
<1>2. outbox' \in [Conns -> Seq(Answers)]
  <2>1. PICK n \in 1..Len(outbox[link[w]]) :
          outbox' = [outbox EXCEPT ![link[w]] = SubSeq(@, n + 1, Len(@))]
    BY TakeFacts
  <2>2. outbox[link[w]] \in Seq(Answers) /\ link[w] \in Conns
    BY TakeFacts
  <2>3. SubSeq(outbox[link[w]], n + 1, Len(outbox[link[w]])) \in Seq(Answers)
    BY <2>2
  <2>4. outbox \in [Conns -> Seq(Answers)]
    BY DEF TypeOK
  <2> QED BY <2>1, <2>2, <2>3, <2>4
<1>3. UNCHANGED <<serverVars, link, gaveUp, clicks, mishaps, proved>>
  BY DEF Take
<1>4. CASE rep.ok
  <2>1. Return(w, rep, "ok")
    BY <1>1, <1>4
  <2> QED BY <1>2, <1>3, <2>1, ReturnTyped DEF TypeOK, serverVars
<1>5. CASE ~rep.ok
  <2>1. Return(w, rep, "refused")
    BY <1>1, <1>5
  <2> QED BY <1>2, <1>3, <2>1, ReturnTyped DEF TypeOK, serverVars
<1> QED BY <1>4, <1>5

LEMMA GiveUpTyped == ASSUME TypeOK, NEW w \in Clients, GiveUp(w) PROVE TypeOK'
<1>1. mishaps' \in 0..MaxMishaps
  BY MishapTyped DEF GiveUp
<1>2. Return(w, Refusal, "no answer") /\ UNCHANGED <<serverVars, outbox, link, clicks, proved>>
  BY DEF GiveUp
<1>3. gaveUp' \in [Clients -> BOOLEAN]
  BY DEF GiveUp, TypeOK
<1> QED BY <1>1, <1>2, <1>3, ReturnTyped, AnswerFacts DEF TypeOK, serverVars

LEMMA TypeStep == ASSUME TypeOK, [Next]_vars PROVE TypeOK'
<1>1. CASE UNCHANGED vars
  BY <1>1 DEF TypeOK, vars, serverVars, wires, clientVars
<1> QED BY <1>1, ServeTyped, DropTyped, CloseTyped, LoseTyped, DialogClickTyped,
           WindowClickTyped, TakeTyped, GiveUpTyped DEF Next

\* The variables of clients and server keep their types, for any number of
\* clients and connections.
THEOREM TypeCorrect == Spec => []TypeOK
<1> QED BY InitTyped, TypeStep, PTL DEF Spec

-----------------------------------------------------------------------------
(* Accounts and sessions change as AccessControl allows.                   *)

LEMMA LoginRefines ==
    ASSUME TypeOK, NEW c \in Conns, NEW r \in Request, cmdLogin(c, r)
    PROVE  [AC!AcNext]_<<accountsBar, who>>
<1>1. accountsBar' = accountsBar
  BY DEF cmdLogin, accountsBar
<1>2. CASE who' = who
  BY <1>1, <1>2
<1>3. CASE who' # who
  <2>1. /\ r.login \in DOMAIN accounts /\ ~accounts[r.login].blocked
        /\ who' = [who EXCEPT ![c] = r.login]
    BY <1>3 DEF cmdLogin
  <2>2. r.login \in Logins
    BY <2>1 DEF TypeOK
  <2>3. AC!Enter(c, r.login)
    BY <1>1, <2>1 DEF AC!Enter, accountsBar
  <2> QED BY <2>2, <2>3 DEF AC!AcNext
<1> QED BY <1>2, <1>3

LEMMA RegisterRefines ==
    ASSUME TypeOK, NEW c \in Conns, NEW r \in Request, cmdRegister(c, r)
    PROVE  [AC!AcNext]_<<accountsBar, who>>
<1>1. who' = who
  BY DEF cmdRegister
<1>2. CASE accounts' = accounts
  BY <1>1, <1>2 DEF accountsBar
<1>3. CASE accounts' # accounts
  <2> DEFINE new == Account(r.password, "user")
  <2>1. /\ r.login # "" /\ r.login \notin DOMAIN accounts
        /\ accounts' = [u \in DOMAIN accounts \cup {r.login} |->
                           IF u = r.login THEN new ELSE accounts[u]]
    BY <1>3 DEF cmdRegister
  <2>2. new.role = "user" /\ new.blocked = FALSE
    BY DEF Account
  <2> HIDE DEF new
  <2>3. accountsBar' = [u \in DOMAIN accountsBar \cup {r.login} |->
                          IF u = r.login THEN [role |-> "user", blocked |-> FALSE]
                          ELSE accountsBar[u]]
    BY <2>1, <2>2 DEF accountsBar
  <2>4. r.login \notin DOMAIN accountsBar
    BY <2>1 DEF accountsBar
  <2>5. AC!Open(r.login, "user")
    BY <1>1, <2>3, <2>4 DEF AC!Open
  <2>6. r.login \in Logins
    BY <2>1 DEF Request
  <2> QED BY <2>5, <2>6 DEF AC!AcNext
<1> QED BY <1>2, <1>3

LEMMA BlockRefines ==
    ASSUME TypeOK, NEW c \in Conns, NEW r \in Request, cmdSetBlock(c, r)
    PROVE  [AC!AcNext]_<<accountsBar, who>>
<1>1. who' = who
  BY DEF cmdSetBlock
<1>2. CASE accounts' = accounts
  BY <1>1, <1>2 DEF accountsBar
<1>3. CASE accounts' # accounts
  <2>1. /\ IsAdmin(c) /\ r.login \in DOMAIN accounts
        /\ accounts' = [accounts EXCEPT ![r.login].blocked = r.blocked]
    BY <1>3 DEF cmdSetBlock
  <2>2. r.blocked \in BOOLEAN /\ r.login \in Logins
    BY <2>1 DEF Request, TypeOK
  <2>3. DOMAIN accounts' = DOMAIN accounts
    BY <2>1
  <2>4. ASSUME NEW u \in DOMAIN accounts, u # r.login PROVE accounts'[u] = accounts[u]
    BY <2>1, <2>4
  <2>5. accounts'[r.login].blocked = r.blocked /\ accounts'[r.login].role = accounts[r.login].role
    <3>1. accounts[r.login] \in Row
      BY <2>1 DEF TypeOK
    <3> QED BY <2>1, <3>1 DEF Row
  <2>6. accountsBar' = [u \in DOMAIN accounts |->
                          IF u = r.login THEN [role |-> accounts[u].role, blocked |-> r.blocked]
                          ELSE accountsBar[u]]
    BY <2>3, <2>4, <2>5 DEF accountsBar
  <2>7. accountsBar' = [accountsBar EXCEPT ![r.login].blocked = r.blocked]
    BY <2>1, <2>6 DEF accountsBar
  <2>8. AC!SetBlocked(c, r.login, r.blocked)
    BY <1>1, <2>1, <2>7 DEF AC!SetBlocked, IsAdmin, accountsBar
  <2> QED BY <2>2, <2>8 DEF AC!AcNext
<1> QED BY <1>2, <1>3

LEMMA StepRefines ==
    ASSUME TypeOK, [Next]_vars
    PROVE  [AC!AcNext]_<<accountsBar, who>>
<1>1. CASE accounts' = accounts /\ who' = who
  BY <1>1 DEF accountsBar
<1>2. ASSUME NEW c \in Conns, Serve(c) PROVE [AC!AcNext]_<<accountsBar, who>>
  <2>1. PICK r \in Request : dispatch(c, r)
    BY <1>2, ServeFacts
  <2>2. cmdList(c, r) \/ cmdTool(c, r) => accounts' = accounts /\ who' = who
    BY DEF cmdList, cmdTool
  <2> QED BY <1>1, <2>1, <2>2, LoginRefines, RegisterRefines, BlockRefines DEF dispatch
<1>3. ASSUME NEW c \in Conns, Drop(c) PROVE [AC!AcNext]_<<accountsBar, who>>
  <2>1. accountsBar' = accountsBar /\ who' = [who EXCEPT ![c] = ""]
    BY <1>3 DEF Drop, accountsBar
  <2> QED BY <2>1 DEF AC!Leave, AC!AcNext
<1>4. \/ \E c \in Conns : Serve(c) \/ Drop(c)
      \/ accounts' = accounts /\ who' = who
  BY DEF Next, vars, serverVars, Close, Lose, DialogClick, WindowClick, Take, GiveUp
<1> QED BY <1>1, <1>2, <1>3, <1>4

\* However confused the windows may be, accounts and sessions change only as
\* AccessControl allows.
THEOREM ClientsActWithinAccessControl == Spec => ActsWithinAccessControl
<1>1. TypeOK /\ [Next]_vars => [AC!AcNext]_<<accountsBar, who>>
  BY StepRefines
<1> QED BY <1>1, TypeCorrect, PTL DEF Spec, ActsWithinAccessControl

-----------------------------------------------------------------------------
(* The administration tab is earned: what makes it visible is an answer,   *)
(* and as long as such an answer is under way its client's user has proved *)
(* to be an administrator.                                                 *)

HasAdmin(w) == \E u \in proved[w] : u \in DOMAIN accounts /\ accounts[u].role = "admin"

AnswersEarned ==
    \A w \in Clients : link[w] # NoConn =>
        \A k \in 1..Len(outbox[link[w]]) : outbox[link[w]][k].role = "admin" => HasAdmin(w)

EarnedInv == TypeOK /\ AnswersEarned /\ AdminTabIsEarned

\* Nothing takes the proof away but the end of the run.
LEMMA HasAdminKept ==
    ASSUME KeepsAccounts, NEW w \in Clients, HasAdmin(w), proved[w] \subseteq proved'[w]
    PROVE  HasAdmin(w)'
BY DEF HasAdmin, KeepsAccounts

LEMMA ServeEarned == ASSUME EarnedInv, NEW c \in Conns, Serve(c) PROVE EarnedInv'
<1>1. TypeOK /\ TypeOK'
  BY ServeTyped DEF EarnedInv
<1>2. PICK r \in Request : \E rep \in Answers : Served(c, r, rep)
  BY <1>1, ServeFacts
<1>3. PICK rep \in Answers : Served(c, r, rep)
  BY <1>2
<1>4. link' = link /\ me' = me
  BY DEF Serve, clientVars
<1>5. KeepsAccounts /\ \A w \in Clients : proved[w] \subseteq proved'[w]
  BY <1>3 DEF Served
<1>6. outbox \in [Conns -> Seq(Answers)] /\ link \in [Clients -> Conns \cup {NoConn}]
  BY <1>1 DEF TypeOK
<1>7. ASSUME NEW w \in Clients, link[w] # NoConn,
             NEW k \in 1..Len(outbox'[link[w]]), outbox'[link[w]][k].role = "admin"
      PROVE  HasAdmin(w)'
  <2>1. CASE link[w] = c /\ k = Len(outbox[c]) + 1
    <3>1. outbox'[c][k] = rep
      <4>1. outbox'[c] = Append(outbox[c], rep) /\ outbox[c] \in Seq(Answers)
        BY <1>3, <1>6 DEF Served
      <4> QED BY <2>1, <4>1
    <3>2. PICK u \in DOMAIN accounts : accounts[u].role = "admin" /\ u \in proved'[w]
      BY <1>3, <1>7, <2>1, <3>1 DEF Served, Earned
    <3> QED BY <1>5, <3>2 DEF HasAdmin, KeepsAccounts
  <2>2. CASE ~(link[w] = c /\ k = Len(outbox[c]) + 1)
    <3>1. outbox' = [outbox EXCEPT ![c] = Append(@, rep)]
      BY <1>3 DEF Served
    <3>2. k \in 1..Len(outbox[link[w]]) /\ outbox'[link[w]][k] = outbox[link[w]][k]
      <4>1. link[w] \in Conns /\ outbox[link[w]] \in Seq(Answers)
        BY <1>6, <1>7
      <4>2. CASE link[w] = c
        <5>1. outbox'[c] = Append(outbox[c], rep)
          BY <1>6, <3>1
        <5> QED BY <1>7, <2>2, <4>1, <4>2, <5>1
      <4>3. CASE link[w] # c
        <5>1. outbox'[link[w]] = outbox[link[w]]
          BY <1>6, <3>1, <4>1, <4>3
        <5> QED BY <1>7, <5>1
      <4> QED BY <4>2, <4>3
    <3>3. HasAdmin(w)
      BY <1>7, <3>2 DEF EarnedInv, AnswersEarned
    <3> QED BY <1>5, <3>3, HasAdminKept
  <2> QED BY <2>1, <2>2
<1>8. AnswersEarned'
  BY <1>4, <1>7 DEF AnswersEarned
<1>9. AdminTabIsEarned'
  <2>1. ASSUME NEW w \in Clients, me'[w].role = "admin" PROVE HasAdmin(w)'
    <3>1. HasAdmin(w)
      BY <1>4, <2>1 DEF EarnedInv, AdminTabIsEarned, HasAdmin
    <3> QED BY <1>5, <3>1, HasAdminKept
  <2> QED BY <2>1 DEF AdminTabIsEarned, HasAdmin
<1> QED BY <1>1, <1>8, <1>9 DEF EarnedInv

\* A step that only loses answers, or leaves them, keeps what is earned.
LEMMA QuietEarned ==
    ASSUME EarnedInv, TypeOK', accounts' = accounts,
           \A w \in Clients :
               /\ \/ link'[w] = NoConn
                  \/ outbox'[link'[w]] = <<>>
                  \/ link'[w] = link[w] /\ proved'[w] = proved[w] /\ outbox'[link[w]] = outbox[link[w]]
               /\ \/ me'[w].role # "admin"
                  \/ me'[w] = me[w] /\ proved'[w] = proved[w]
    PROVE  EarnedInv'
<1>1. ASSUME NEW w \in Clients, link'[w] # NoConn,
             NEW k \in 1..Len(outbox'[link'[w]]), outbox'[link'[w]][k].role = "admin"
      PROVE  HasAdmin(w)'
  <2>1. outbox'[link'[w]] # <<>>
    BY <1>1
  <2>2. link'[w] = link[w] /\ proved'[w] = proved[w] /\ outbox'[link[w]] = outbox[link[w]]
    BY <1>1, <2>1
  <2>3. HasAdmin(w)
    BY <1>1, <2>2 DEF EarnedInv, AnswersEarned
  <2> QED BY <2>2, <2>3 DEF HasAdmin
<1>2. AnswersEarned'
  BY <1>1 DEF AnswersEarned
<1>3. ASSUME NEW w \in Clients, me'[w].role = "admin" PROVE HasAdmin(w)'
  <2>1. me'[w] = me[w] /\ proved'[w] = proved[w]
    BY <1>3
  <2>2. HasAdmin(w)
    BY <1>3, <2>1 DEF EarnedInv, AdminTabIsEarned, HasAdmin
  <2> QED BY <2>1, <2>2 DEF HasAdmin
<1>4. AdminTabIsEarned'
  BY <1>3 DEF AdminTabIsEarned, HasAdmin
<1> QED BY <1>2, <1>4 DEF EarnedInv

LEMMA TakeEarned == ASSUME EarnedInv, NEW w \in Clients, Take(w) PROVE EarnedInv'
<1> DEFINE c == link[w]
           rep == Head(outbox[c])
<1>1. TypeOK /\ TypeOK'
  BY TakeTyped DEF EarnedInv
<1>2. /\ c \in Conns /\ outbox[c] \in Seq(Answers) /\ outbox[c] # <<>>
      /\ \E n \in 1..Len(outbox[c]) :
             outbox' = [outbox EXCEPT ![c] = SubSeq(@, n + 1, Len(@))]
  BY <1>1, TakeFacts
<1>3. PICK n \in 1..Len(outbox[c]) : outbox' = [outbox EXCEPT ![c] = SubSeq(@, n + 1, Len(@))]
  BY <1>2
<1>4. UNCHANGED <<accounts, link, proved>>
  BY DEF Take, serverVars
<1>5. outbox \in [Conns -> Seq(Answers)] /\ link \in [Clients -> Conns \cup {NoConn}]
  BY <1>1 DEF TypeOK
<1>6. ASSUME NEW v \in Clients, link[v] # NoConn,
             NEW k \in 1..Len(outbox'[link[v]]), outbox'[link[v]][k].role = "admin"
      PROVE  HasAdmin(v)
  <2>1. CASE link[v] = c
    <3>1. outbox'[c] = SubSeq(outbox[c], n + 1, Len(outbox[c]))
      BY <1>2, <1>3, <1>5
    <3>2. k + n \in 1..Len(outbox[c]) /\ outbox'[c][k] = outbox[c][k + n]
      BY SMTT(60), <1>2, <1>6, <2>1, <3>1
    <3> QED BY <1>6, <2>1, <3>2 DEF EarnedInv, AnswersEarned
  <2>2. CASE link[v] # c
    <3>1. outbox'[link[v]] = outbox[link[v]]
      BY <1>3, <1>5, <1>6, <2>2
    <3> QED BY <1>6, <3>1 DEF EarnedInv, AnswersEarned
  <2> QED BY <2>1, <2>2
<1>7. AnswersEarned'
  BY <1>4, <1>6 DEF AnswersEarned, HasAdmin
<1>8. ASSUME NEW v \in Clients, me'[v].role = "admin" PROVE HasAdmin(v)
  <2>1. CASE me'[v] = me[v]
    BY <1>8, <2>1 DEF EarnedInv, AdminTabIsEarned, HasAdmin
  <2>2. CASE me'[v] # me[v]
    <3>1. loginReturns(w, rep)
      BY DEF Take, Return
    <3>2. v = w /\ me'[w] = [login |-> call[w].login, role |-> rep.role]
      BY <1>1, <2>2, <3>1 DEF loginReturns, TypeOK
    <3>3. rep.role = "admin"
      BY <1>8, <3>2
    <3>4. 1 \in 1..Len(outbox[c]) /\ rep = outbox[c][1]
      BY <1>2
    <3> QED BY <1>1, <1>2, <3>2, <3>3, <3>4, SuiteAssumption DEF EarnedInv, AnswersEarned, Take
  <2> QED BY <2>1, <2>2
<1>9. AdminTabIsEarned'
  BY <1>4, <1>8 DEF AdminTabIsEarned, HasAdmin
<1> QED BY <1>1, <1>7, <1>9 DEF EarnedInv

LEMMA EarnedStep == ASSUME EarnedInv, [Next]_vars PROVE EarnedInv'
<1>1. TypeOK /\ TypeOK'
  BY TypeStep DEF EarnedInv
<1>2. /\ outbox \in [Conns -> Seq(Answers)] /\ link \in [Clients -> Conns \cup {NoConn}]
      /\ me \in [Clients -> [login: Logins \cup {""}, role: {"", "user", "admin"}]]
      /\ proved \in [Clients -> SUBSET Logins]
  BY <1>1 DEF TypeOK
<1>3. ASSUME NEW c \in Conns, Drop(c) PROVE EarnedInv'
  <2>1. /\ UNCHANGED <<accounts, link, me, proved>>
        /\ outbox' = outbox \/ outbox' = [outbox EXCEPT ![c] = <<>>]
    BY <1>3 DEF Drop, clientVars
  <2> QED BY <1>1, <1>2, <2>1, QuietEarned
<1>4. ASSUME NEW w \in Clients, Close(w) PROVE EarnedInv'
  <2>1. /\ UNCHANGED <<accounts, outbox>>
        /\ link' = [link EXCEPT ![w] = NoConn] /\ me' = [me EXCEPT ![w] = Nobody]
        /\ proved' = [proved EXCEPT ![w] = {}]
    BY <1>4 DEF Close, serverVars, wires
  <2>2. \A v \in Clients : IF v = w THEN link'[v] = NoConn /\ me'[v].role # "admin"
                           ELSE link'[v] = link[v] /\ me'[v] = me[v] /\ proved'[v] = proved[v]
    BY <1>2, <2>1 DEF Nobody
  <2> QED BY <1>1, <2>1, <2>2, QuietEarned
<1>5. ASSUME NEW w \in Clients, Lose(w) PROVE EarnedInv'
  <2>1. UNCHANGED <<accounts, outbox, me, proved>> /\ link' = [link EXCEPT ![w] = NoConn]
    BY <1>5 DEF Lose, serverVars, wires
  <2> QED BY <1>1, <1>2, <2>1, QuietEarned
<1>6. ASSUME NEW w \in Clients, DialogClick(w) PROVE EarnedInv'
  <2>1. UNCHANGED <<accounts, me, proved>>
    BY <1>6 DEF DialogClick
  <2>2. \/ UNCHANGED <<link, outbox>>
        \/ \E c \in Conns : /\ link' = [link EXCEPT ![w] = c]
                            /\ outbox' = [outbox EXCEPT ![c] = <<>>]
                            /\ \A v \in Clients : link[v] # c
    BY <1>6 DEF DialogClick, connectTo
  <2>3. \A v \in Clients : \/ link'[v] = link[v] /\ outbox'[link[v]] = outbox[link[v]]
                           \/ link'[v] = NoConn
                           \/ outbox'[link'[v]] = <<>>
    <3>1. ASSUME NEW c \in Conns, link' = [link EXCEPT ![w] = c],
                 outbox' = [outbox EXCEPT ![c] = <<>>], \A v \in Clients : link[v] # c,
                 NEW v \in Clients
          PROVE  \/ link'[v] = link[v] /\ outbox'[link[v]] = outbox[link[v]]
                 \/ link'[v] = NoConn
                 \/ outbox'[link'[v]] = <<>>
      BY <1>2, <3>1
    <3> QED BY <2>2, <3>1
  <2> QED BY <1>1, <2>1, <2>3, QuietEarned
<1>7. ASSUME NEW w \in Clients, WindowClick(w) PROVE EarnedInv'
  <2>1. UNCHANGED <<accounts, link, outbox, me, proved>>
    BY <1>7 DEF WindowClick, serverVars
  <2> QED BY <1>1, <2>1, QuietEarned
<1>8. ASSUME NEW w \in Clients, GiveUp(w) PROVE EarnedInv'
  <2>1. UNCHANGED <<accounts, link, outbox, proved>> /\ loginReturns(w, Refusal)
    BY <1>8 DEF GiveUp, serverVars, Return
  <2>2. me' = me
    BY <2>1, AnswerFacts DEF loginReturns
  <2> QED BY <1>1, <2>1, <2>2, QuietEarned
<1>9. CASE UNCHANGED vars
  <2>1. UNCHANGED <<accounts, link, outbox, me, proved>>
    BY <1>9 DEF vars, serverVars, wires, clientVars
  <2> QED BY <1>1, <2>1, QuietEarned
<1> QED BY <1>3, <1>4, <1>5, <1>6, <1>7, <1>8, <1>9, ServeEarned, TakeEarned DEF Next

\* A client shows the administration tab only to a user that the server let in
\* as an administrator during this run of the client.
THEOREM TheAdminTabIsEarned == Spec => []AdminTabIsEarned
<1>1. Init => EarnedInv
  <2> SUFFICES ASSUME Init PROVE EarnedInv
    OBVIOUS
  <2>1. TypeOK
    BY InitTyped
  <2>2. AnswersEarned /\ AdminTabIsEarned
    BY DEF Init, AnswersEarned, AdminTabIsEarned, Nobody
  <2> QED BY <2>1, <2>2 DEF EarnedInv
<1>2. EarnedInv /\ [Next]_vars => EarnedInv'
  BY EarnedStep
<1>3. EarnedInv => AdminTabIsEarned
  BY DEF EarnedInv
<1> QED BY <1>1, <1>2, <1>3, PTL DEF Spec

-----------------------------------------------------------------------------
(***************************************************************************)
(* What the clients of Suite show is true: ShownIsTrue and                 *)
(* StaleClickIsHarmless, for any number of clients and connections.  Both  *)
(* rest on request() and answer taking turns on a connection that answered *)
(* everything (Synced), which one given up request would end.              *)
(***************************************************************************)

\* A connection belongs to one client.
LinksOwn == \A v, w \in Clients : link[v] = link[w] /\ link[v] # NoConn => v = w

\* What is sent to a connection that has ended does not arrive.
DeadQuiet == \A c \in Conns \ live : inbox[c] = <<>>

\* A row, in a table or on its way to one, is of an account that exists.
RowsKnown ==
    /\ \A w \in Clients : DOMAIN table[w] \subseteq DOMAIN accounts
    /\ \A c \in Conns : \A k \in 1..Len(outbox[c]) : DOMAIN outbox[c][k].users \subseteq DOMAIN accounts

\* The pending request is one that the screen of w can send, and one about a row
\* says the opposite of what the row still shows.
Asked(w) ==
    /\ call[w].cmd = "" => call[w] = NoCall
    /\ ui[w] = "dialog" => call[w].cmd \in {"", "LOGIN", "REGISTER"}
    /\ ui[w] = "window" => call[w].cmd \in {""} \cup Tools \cup AdminCommands
    /\ call[w].cmd \in AdminCommands => me[w].role = "admin"
    /\ call[w].cmd = "SET_BLOCK" =>
           /\ call[w].login \in DOMAIN table[w]
           /\ call[w].blocked = ~table[w][call[w].login]

\* rep is a true answer to the pending request.
Fits(w, rep) ==
    /\ Truthful(link[w], call[w], rep)
    /\ call[w].cmd \in AdminCommands => rep.ok

\* The pending request is under way, or its answer is, or it is lost; without
\* one nothing is.
Synced(w) ==
    Attended(w) =>
        \/ inbox[link[w]] = <<>> /\ outbox[link[w]] = <<>>
        \/ /\ call[w] # NoCall
           /\ inbox[link[w]] = <<call[w]>> /\ outbox[link[w]] = <<>>
        \/ /\ call[w] # NoCall /\ inbox[link[w]] = <<>>
           /\ \E rep \in Answers : outbox[link[w]] = <<rep>> /\ Fits(w, rep)

Shows(w) ==
    Attended(w) => IdentityIsServed(w) /\ RegistrationIsTrue(done[w]) /\ ResultIsOwn(done[w])

Frame == TypeOK /\ LinksOwn /\ DeadQuiet /\ RowsKnown

TruthInv == Frame /\ \A w \in Clients : Asked(w) /\ Synced(w) /\ Shows(w)

-----------------------------------------------------------------------------
(* What does not concern a client leaves its part of the invariant alone.  *)

\* Nothing of the client itself changes.
Still(v) ==
    /\ link'[v] = link[v] /\ call'[v] = call[v] /\ gaveUp'[v] = gaveUp[v]
    /\ ui'[v] = ui[v] /\ me'[v] = me[v] /\ done'[v] = done[v] /\ table'[v] = table[v]

\* The session behind its connection stays, or ends.
SessionStill(v) == link[v] \in live' => link[v] \in live /\ who'[link[v]] = who[link[v]]

LEMMA AskedKept ==
    ASSUME NEW v \in Clients, Asked(v), Still(v)
    PROVE  Asked(v)'
BY DEF Asked, Still

LEMMA FitsKept ==
    ASSUME NEW v \in Clients, NEW rep \in Answers, Fits(v, rep),
           KeepsAccounts, Still(v), SessionStill(v)
    PROVE  Fits(v, rep)'
<1>1. Truthful(link[v], call[v], rep)'
  BY ZenonT(60) DEF Fits, Truthful, KeepsAccounts, Still, SessionStill
<1> QED BY <1>1 DEF Fits, Still

LEMMA ShowsKept ==
    ASSUME NEW v \in Clients, Shows(v), KeepsAccounts, Still(v), SessionStill(v)
    PROVE  Shows(v)'
<1> SUFFICES ASSUME Attended(v)'
             PROVE  (IdentityIsServed(v) /\ RegistrationIsTrue(done[v]) /\ ResultIsOwn(done[v]))'
  BY DEF Shows
<1>1. Attended(v)
  BY DEF Attended, Still
<1>2. IdentityIsServed(v) /\ RegistrationIsTrue(done[v]) /\ ResultIsOwn(done[v])
  BY <1>1 DEF Shows
<1>3. IdentityIsServed(v)'
  BY <1>2 DEF IdentityIsServed, KeepsAccounts, Still, SessionStill
<1>4. RegistrationIsTrue(done[v])'
  BY <1>2 DEF RegistrationIsTrue, KeepsAccounts, Still
<1>5. ResultIsOwn(done[v])'
  BY <1>2 DEF ResultIsOwn, Still
<1> QED BY <1>3, <1>4, <1>5

\* Nor does anything happen on its connection.
LEMMA SyncedKept ==
    ASSUME NEW v \in Clients, Synced(v), KeepsAccounts, Still(v), SessionStill(v),
           link[v] # NoConn =>
               inbox'[link[v]] = inbox[link[v]] /\ outbox'[link[v]] = outbox[link[v]]
    PROVE  Synced(v)'
<1> SUFFICES ASSUME Attended(v)'
             PROVE  (\/ inbox[link[v]] = <<>> /\ outbox[link[v]] = <<>>
                     \/ /\ call[v] # NoCall
                        /\ inbox[link[v]] = <<call[v]>> /\ outbox[link[v]] = <<>>
                     \/ /\ call[v] # NoCall /\ inbox[link[v]] = <<>>
                        /\ \E rep \in Answers : outbox[link[v]] = <<rep>> /\ Fits(v, rep))'
  BY DEF Synced
<1>1. /\ Attended(v) /\ link'[v] = link[v] /\ call'[v] = call[v]
      /\ inbox'[link[v]] = inbox[link[v]] /\ outbox'[link[v]] = outbox[link[v]]
  BY DEF Attended, Still
<1>2. CASE \/ inbox[link[v]] = <<>> /\ outbox[link[v]] = <<>>
           \/ /\ call[v] # NoCall
              /\ inbox[link[v]] = <<call[v]>> /\ outbox[link[v]] = <<>>
  BY <1>1, <1>2
<1>3. ASSUME call[v] # NoCall, inbox[link[v]] = <<>>,
             NEW rep \in Answers, outbox[link[v]] = <<rep>>, Fits(v, rep)
      PROVE  /\ call'[v] # NoCall /\ inbox'[link'[v]] = <<>>
             /\ outbox'[link'[v]] = <<rep>> /\ Fits(v, rep)'
  BY <1>1, <1>3, FitsKept
<1>4. CASE /\ call[v] # NoCall /\ inbox[link[v]] = <<>>
           /\ \E rep \in Answers : outbox[link[v]] = <<rep>> /\ Fits(v, rep)
  BY <1>3, <1>4
<1> QED BY <1>1, <1>2, <1>4 DEF Synced

\* Everything at once.
LEMMA ClientKept ==
    ASSUME NEW v \in Clients, Asked(v), Synced(v), Shows(v),
           KeepsAccounts, Still(v), SessionStill(v),
           link[v] # NoConn =>
               inbox'[link[v]] = inbox[link[v]] /\ outbox'[link[v]] = outbox[link[v]]
    PROVE  Asked(v)' /\ Synced(v)' /\ Shows(v)'
BY AskedKept, SyncedKept, ShowsKept

\* A step without a command keeps the accounts.
LEMMA SameAccounts == ASSUME accounts' = accounts PROVE KeepsAccounts
BY DEF KeepsAccounts

\* Rows stay those of accounts when tables and answers only go.
LEMMA RowsKept ==
    ASSUME RowsKnown, KeepsAccounts,
           \A w \in Clients : table'[w] = table[w] \/ DOMAIN table'[w] = {},
           \A c \in Conns : outbox'[c] = outbox[c] \/ outbox'[c] = <<>>
    PROVE  RowsKnown'
<1>1. DOMAIN accounts \subseteq DOMAIN accounts'
  BY DEF KeepsAccounts
<1>2. ASSUME NEW w \in Clients PROVE DOMAIN table'[w] \subseteq DOMAIN accounts'
  BY <1>1 DEF RowsKnown
<1>3. ASSUME NEW c \in Conns, NEW k \in 1..Len(outbox'[c])
      PROVE  DOMAIN outbox'[c][k].users \subseteq DOMAIN accounts'
  <2>1. outbox'[c] = outbox[c]
    BY <1>3
  <2> QED BY <1>1, <1>3, <2>1 DEF RowsKnown
<1> QED BY <1>2, <1>3 DEF RowsKnown

-----------------------------------------------------------------------------
(* The server's steps.                                                     *)

LEMMA ServeTrue == ASSUME TruthInv, NEW c \in Conns, Serve(c) PROVE TruthInv'
<1>1. TypeOK /\ TypeOK'
  BY ServeTyped DEF TruthInv, Frame
<1>2. /\ inbox \in [Conns -> Seq(Request)] /\ outbox \in [Conns -> Seq(Answers)]
      /\ link \in [Clients -> Conns \cup {NoConn}]
  BY <1>1 DEF TypeOK
<1>3. c \in live /\ inbox[c] # <<>> /\ inbox' = [inbox EXCEPT ![c] = Tail(@)]
  BY DEF Serve
<1>4. PICK r \in Request : r = Head(inbox[c]) /\ \E rep \in Answers : Served(c, r, rep)
  BY <1>1, ServeFacts
<1>5. PICK rep \in Answers : Served(c, r, rep)
  BY <1>4
<1>6. /\ outbox' = [outbox EXCEPT ![c] = Append(@, rep)] /\ KeepsAccounts
      /\ \A d \in Conns : d # c \/ r.cmd # "LOGIN" => who'[d] = who[d]
  BY <1>5 DEF Served
<1>7. live' = live /\ \A v \in Clients : Still(v)
  BY DEF Serve, clientVars, Still
<1>8. LinksOwn' /\ DeadQuiet'
  <2>1. LinksOwn'
    BY <1>7 DEF TruthInv, Frame, LinksOwn, Still
  <2>2. \A d \in Conns \ {c} : inbox'[d] = inbox[d]
    BY <1>2, <1>3
  <2> QED BY <1>3, <1>7, <2>1, <2>2 DEF TruthInv, Frame, DeadQuiet
<1>9. RowsKnown'
  <2>1. DOMAIN accounts \subseteq DOMAIN accounts'
    BY <1>6 DEF KeepsAccounts
  <2>2. \A w \in Clients : DOMAIN table'[w] \subseteq DOMAIN accounts'
    BY <1>7, <2>1 DEF TruthInv, Frame, RowsKnown, Still
  <2>3. ASSUME NEW d \in Conns, NEW k \in 1..Len(outbox'[d])
        PROVE  DOMAIN outbox'[d][k].users \subseteq DOMAIN accounts'
    <3>1. CASE d # c
      <4>1. outbox'[d] = outbox[d]
        BY <1>2, <1>6, <3>1
      <4> QED BY <2>1, <2>3, <4>1 DEF TruthInv, Frame, RowsKnown
    <3>2. CASE d = c
      <4>1. outbox'[c] = Append(outbox[c], rep) /\ outbox[c] \in Seq(Answers)
        BY <1>2, <1>6
      <4>2. \/ k \in 1..Len(outbox[c]) /\ outbox'[c][k] = outbox[c][k]
            \/ outbox'[c][k] = rep
        BY <2>3, <3>2, <4>1
      <4>3. DOMAIN rep.users \subseteq DOMAIN accounts
        BY <1>5 DEF Served
      <4> QED BY <2>1, <3>2, <4>2, <4>3 DEF TruthInv, Frame, RowsKnown
    <3> QED BY <3>1, <3>2
  <2> QED BY <2>2, <2>3 DEF RowsKnown
<1>10. ASSUME NEW v \in Clients, link[v] # c \/ ~Attended(v)
       PROVE  Asked(v)' /\ Synced(v)' /\ Shows(v)'
  <2>0. Asked(v) /\ Synced(v) /\ Shows(v) /\ Still(v)
    BY <1>7 DEF TruthInv
  <2>1. CASE link[v] # c
    <3>1. link[v] # NoConn =>
            /\ inbox'[link[v]] = inbox[link[v]] /\ outbox'[link[v]] = outbox[link[v]]
            /\ who'[link[v]] = who[link[v]]
      BY <1>2, <1>3, <1>6, <2>1
    <3>2. SessionStill(v)
      BY <1>1, <1>7, <3>1, SuiteAssumption DEF SessionStill, TypeOK
    <3> QED BY <1>6, <2>0, <3>1, <3>2, ClientKept
  <2>2. CASE ~Attended(v)
    <3>1. ~Attended(v)'
      BY <2>0, <2>2 DEF Attended, Still
    <3> QED BY <2>0, <3>1, AskedKept DEF Synced, Shows
  <2> QED BY <1>10, <2>1, <2>2
<1>11. ASSUME NEW v \in Clients, link[v] = c, Attended(v)
       PROVE  Asked(v)' /\ Synced(v)' /\ Shows(v)'
  <2>0. Asked(v) /\ Synced(v) /\ Shows(v) /\ Still(v)
    BY <1>7 DEF TruthInv
  <2>1. call[v] # NoCall /\ inbox[c] = <<call[v]>> /\ outbox[c] = <<>>
    BY <1>3, <1>11, <2>0 DEF Synced
  <2>2. r = call[v] /\ inbox'[c] = <<>> /\ outbox'[c] = <<rep>>
    BY <1>2, <1>3, <1>4, <1>6, <2>1
  <2>3. ASSUME r.cmd \in AdminCommands PROVE rep.ok
    <3>1. me[v].role = "admin" /\ ui[v] # "dialog"
      BY <2>0, <2>2, <2>3 DEF Asked, AdminCommands
    <3>2. ui[v] = "window"
      BY <1>1, <3>1 DEF TypeOK
    <3>3. IsAdmin(c)
      BY <1>3, <1>11, <2>0, <3>1, <3>2 DEF Shows, IdentityIsServed, IsAdmin
    <3>4. r.cmd = "SET_BLOCK" => r.login \in DOMAIN accounts
      BY <2>0, <2>2 DEF Asked, TruthInv, Frame, RowsKnown
    <3> QED BY <1>5, <2>3, <3>3, <3>4 DEF Served
  <2>4. Fits(v, rep)'
    <3>1. Truthful(c, r, rep)'
      BY <1>5 DEF Served
    <3>2. link'[v] = c /\ call'[v] = call[v]
      BY <1>11, <2>0 DEF Still
    <3>3. Truthful(link[v], call[v], rep)'
      BY <2>2, <3>1, <3>2 DEF Truthful
    <3> QED BY <2>2, <2>3, <3>2, <3>3 DEF Fits
  <2>5. Synced(v)'
    BY <1>11, <2>0, <2>1, <2>2, <2>4 DEF Synced, Still
  <2>6. Shows(v)'
    <3>1. CASE ui[v] = "window"
      <4>1. r.cmd # "LOGIN"
        BY <2>0, <2>2, <3>1, FieldFacts DEF Asked, AdminCommands
      <4>2. SessionStill(v)
        BY <1>6, <1>7, <1>11, <4>1 DEF SessionStill
      <4> QED BY <1>6, <2>0, <4>2, ShowsKept
    <3>2. CASE ui[v] # "window"
      <4>1. RegistrationIsTrue(done[v]) /\ ResultIsOwn(done[v])
        BY <1>11, <2>0 DEF Shows
      <4>2. RegistrationIsTrue(done[v])' /\ ResultIsOwn(done[v])'
        BY <1>6, <2>0, <4>1 DEF RegistrationIsTrue, ResultIsOwn, Still, KeepsAccounts
      <4>3. IdentityIsServed(v)'
        BY <2>0, <3>2 DEF IdentityIsServed, Still
      <4> QED BY <4>2, <4>3 DEF Shows
    <3> QED BY <3>1, <3>2
  <2> QED BY <2>0, <2>5, <2>6, AskedKept
<1> QED BY <1>1, <1>8, <1>9, <1>10, <1>11 DEF TruthInv, Frame

LEMMA DropTrue == ASSUME TruthInv, NEW c \in Conns, Drop(c) PROVE TruthInv'
<1>1. TypeOK /\ TypeOK'
  BY DropTyped DEF TruthInv, Frame
<1>2. /\ inbox \in [Conns -> Seq(Request)] /\ outbox \in [Conns -> Seq(Answers)]
      /\ link \in [Clients -> Conns \cup {NoConn}] /\ who \in [Conns -> Logins \cup {""}]
      /\ live \subseteq Conns
  BY <1>1 DEF TypeOK
<1>3. /\ live' = live \ {c} /\ who' = [who EXCEPT ![c] = ""]
      /\ inbox' = [inbox EXCEPT ![c] = <<>>]
      /\ outbox' = outbox \/ outbox' = [outbox EXCEPT ![c] = <<>>]
  BY DEF Drop
<1>4. KeepsAccounts /\ \A v \in Clients : Still(v)
  BY SameAccounts DEF Drop, clientVars, Still
<1>5. LinksOwn' /\ DeadQuiet'
  <2>1. LinksOwn'
    BY <1>4 DEF TruthInv, Frame, LinksOwn, Still
  <2>2. \A d \in Conns : inbox'[d] = <<>> \/ (d # c /\ inbox'[d] = inbox[d])
    BY <1>2, <1>3
  <2> QED BY <1>3, <2>1, <2>2 DEF TruthInv, Frame, DeadQuiet
<1>6. RowsKnown'
  <2>1. \A d \in Conns : outbox'[d] = outbox[d] \/ outbox'[d] = <<>>
    BY <1>2, <1>3
  <2> QED BY <1>4, <2>1, RowsKept DEF TruthInv, Frame, Still
<1>7. ASSUME NEW v \in Clients PROVE Asked(v)' /\ Synced(v)' /\ Shows(v)'
  <2>0. Asked(v) /\ Synced(v) /\ Shows(v) /\ Still(v)
    BY <1>4 DEF TruthInv
  <2>1. SessionStill(v)
    BY <1>2, <1>3 DEF SessionStill
  <2>2. CASE link[v] # c
    <3>1. link[v] # NoConn =>
            inbox'[link[v]] = inbox[link[v]] /\ outbox'[link[v]] = outbox[link[v]]
      BY <1>2, <1>3, <2>2
    <3> QED BY <1>4, <2>0, <2>1, <3>1, ClientKept
  <2>3. CASE link[v] = c
    <3>1. inbox'[c] = <<>> /\ (outbox'[c] = <<>> \/ outbox'[c] = outbox[c])
      BY <1>2, <1>3
    <3>2. ASSUME call[v] # NoCall, NEW rep \in Answers, outbox[c] = <<rep>>, Fits(v, rep)
          PROVE  Synced(v)'
      <4>1. Fits(v, rep)'
        BY <1>4, <2>0, <2>1, <3>2, FitsKept
      <4> QED BY <2>0, <2>3, <3>1, <3>2, <4>1 DEF Synced, Still
    <3>3. ASSUME outbox[c] = <<>> PROVE Synced(v)'
      BY <2>0, <2>3, <3>1, <3>3 DEF Synced, Still
    <3>4. ASSUME ~Attended(v) PROVE Synced(v)'
      BY <2>0, <3>4 DEF Synced, Attended, Still
    <3>5. Synced(v)'
      BY <2>0, <2>3, <3>2, <3>3, <3>4 DEF Synced
    <3> QED BY <1>4, <2>0, <2>1, <3>5, AskedKept, ShowsKept
  <2> QED BY <2>2, <2>3
<1> QED BY <1>1, <1>5, <1>6, <1>7 DEF TruthInv, Frame

-----------------------------------------------------------------------------
(* The clients' steps.                                                     *)

\* An action of w that leaves accounts and sessions alone, and on the wires
\* writes to its own connection only, does not concern the others.
LEMMA OthersKept ==
    ASSUME TruthInv, NEW w \in Clients, NEW v \in Clients, v # w,
           accounts' = accounts, live' = live, who' = who, Still(v),
           \A d \in Conns : d # link[w] => inbox'[d] = inbox[d] /\ outbox'[d] = outbox[d]
    PROVE  Asked(v)' /\ Synced(v)' /\ Shows(v)'
<1>1. Asked(v) /\ Synced(v) /\ Shows(v) /\ KeepsAccounts /\ SessionStill(v)
  BY SameAccounts DEF TruthInv, SessionStill
<1>2. ASSUME link[v] # NoConn
      PROVE  inbox'[link[v]] = inbox[link[v]] /\ outbox'[link[v]] = outbox[link[v]]
  <2>1. link[v] # link[w]
    BY <1>2 DEF TruthInv, Frame, LinksOwn
  <2>2. link[v] \in Conns
    BY <1>2 DEF TruthInv, Frame, TypeOK
  <2> QED BY <2>1, <2>2
<1> QED BY <1>1, <1>2, ClientKept

\* Of a client that gave a request up, or has no connection, nothing is claimed.
LEMMA NothingClaimed ==
    ASSUME NEW w \in Clients, ~Attended(w)'
    PROVE  Synced(w)' /\ Shows(w)'
BY DEF Synced, Shows

LEMMA CloseTrue == ASSUME TruthInv, NEW w \in Clients, Close(w) PROVE TruthInv'
<1>1. TypeOK /\ TypeOK'
  BY CloseTyped DEF TruthInv, Frame
<1>2. /\ accounts' = accounts /\ live' = live /\ who' = who
      /\ inbox' = inbox /\ outbox' = outbox
  BY DEF Close, serverVars, wires
<1>3. /\ link'[w] = NoConn /\ ui'[w] = "dialog" /\ call'[w] = NoCall /\ table'[w] = NoRows
      /\ \A v \in Clients : v # w => Still(v)
  <2>1. /\ ui \in [Clients -> {"dialog", "window"}] /\ link \in [Clients -> Conns \cup {NoConn}]
        /\ call \in [Clients -> Request] /\ gaveUp \in [Clients -> BOOLEAN]
        /\ table \in [Clients -> Table] /\ DOMAIN me = Clients /\ DOMAIN done = Clients
    BY <1>1 DEF TypeOK
  <2> QED BY <2>1 DEF Close, Still
<1>4. LinksOwn' /\ DeadQuiet'
  <2>1. LinksOwn'
    BY <1>3 DEF TruthInv, Frame, LinksOwn, Still
  <2> QED BY <1>2, <2>1 DEF TruthInv, Frame, DeadQuiet
<1>5. RowsKnown'
  <2>1. \A v \in Clients : table'[v] = table[v] \/ DOMAIN table'[v] = {}
    BY <1>3, TableFacts DEF Still
  <2> QED BY <1>2, <2>1, RowsKept, SameAccounts DEF TruthInv, Frame
<1>6. Asked(w)' /\ Synced(w)' /\ Shows(w)'
  <2>1. Asked(w)'
    BY <1>3, RequestFacts DEF Asked, AdminCommands
  <2>2. ~Attended(w)'
    BY <1>3 DEF Attended
  <2> QED BY <2>1, <2>2, NothingClaimed
<1>7. ASSUME NEW v \in Clients, v # w PROVE Asked(v)' /\ Synced(v)' /\ Shows(v)'
  BY <1>2, <1>3, <1>7, OthersKept
<1> QED BY <1>1, <1>4, <1>5, <1>6, <1>7 DEF TruthInv, Frame

LEMMA LoseTrue == ASSUME TruthInv, NEW w \in Clients, Lose(w) PROVE TruthInv'
<1>1. TypeOK /\ TypeOK'
  BY LoseTyped DEF TruthInv, Frame
<1>2. /\ accounts' = accounts /\ live' = live /\ who' = who
      /\ inbox' = inbox /\ outbox' = outbox
      /\ ui' = ui /\ call' = call /\ me' = me /\ table' = table
  BY DEF Lose, serverVars, wires
<1>3. link'[w] = NoConn /\ \A v \in Clients : v # w => Still(v)
  BY <1>1 DEF Lose, Still, TypeOK
<1>4. LinksOwn' /\ DeadQuiet'
  <2>1. LinksOwn'
    BY <1>3 DEF TruthInv, Frame, LinksOwn, Still
  <2> QED BY <1>2, <2>1 DEF TruthInv, Frame, DeadQuiet
<1>5. RowsKnown'
  BY <1>2, RowsKept, SameAccounts DEF TruthInv, Frame
<1>6. Asked(w)' /\ Synced(w)' /\ Shows(w)'
  <2>1. Asked(w)'
    BY <1>2 DEF TruthInv, Asked
  <2>2. ~Attended(w)'
    BY <1>3 DEF Attended
  <2> QED BY <2>1, <2>2, NothingClaimed
<1>7. ASSUME NEW v \in Clients, v # w PROVE Asked(v)' /\ Synced(v)' /\ Shows(v)'
  BY <1>2, <1>3, <1>7, OthersKept
<1> QED BY <1>1, <1>4, <1>5, <1>6, <1>7 DEF TruthInv, Frame

\* Shows does not look at the wires, nor at the pending request.
LEMMA ShowsSame ==
    ASSUME NEW w \in Clients, Shows(w),
           UNCHANGED <<accounts, live, who, link, gaveUp, ui, me, done>>
    PROVE  Shows(w)'
BY DEF Shows, Attended, IdentityIsServed, RegistrationIsTrue, ResultIsOwn

LEMMA AppendToNone == ASSUME NEW S, NEW r \in S PROVE Append(<<>>, r) = <<r>>
<1>1. <<>> \in Seq(S) /\ <<r>> \in Seq(S)
  OBVIOUS
<1>2. Append(<<>>, r) \in Seq(S) /\ Len(Append(<<>>, r)) = 1 /\ Append(<<>>, r)[1] = r
  BY <1>1
<1> QED BY <1>1, <1>2

\* A request is sent on a connection on which nothing is under way.
LEMMA RequestTrue ==
    ASSUME TruthInv, NEW w \in Clients, NEW r \in Request, r.cmd # "", call[w] = NoCall,
           link[w] # NoConn, request(w, r), Asked(w)',
           UNCHANGED <<accounts, live, who, outbox, link, gaveUp, ui, me, table, done>>
    PROVE  /\ LinksOwn' /\ DeadQuiet' /\ RowsKnown'
           /\ \A v \in Clients : Asked(v)' /\ Synced(v)' /\ Shows(v)'
<1>1. /\ link[w] \in Conns /\ inbox \in [Conns -> Seq(Request)]
      /\ call \in [Clients -> Request] /\ outbox \in [Conns -> Seq(Answers)]
  BY DEF TruthInv, Frame, TypeOK
<1>2. /\ call'[w] = r /\ r # NoCall
      /\ \A d \in Conns : d # link[w] => inbox'[d] = inbox[d]
      /\ IF link[w] \in live THEN inbox'[link[w]] = Append(inbox[link[w]], r)
         ELSE inbox'[link[w]] = inbox[link[w]]
      /\ \A v \in Clients : v # w => Still(v)
  <2>1. r # NoCall
    BY RequestFacts
  <2>2. \A v \in Clients : v # w => call'[v] = call[v]
    BY <1>1 DEF request
  <2> QED BY <1>1, <2>1, <2>2 DEF request, Still
<1>3. LinksOwn' /\ DeadQuiet' /\ RowsKnown'
  <2>1. LinksOwn'
    BY DEF TruthInv, Frame, LinksOwn
  <2>2. DeadQuiet'
    BY <1>2 DEF TruthInv, Frame, DeadQuiet
  <2>3. RowsKnown'
    BY RowsKept, SameAccounts DEF TruthInv, Frame
  <2> QED BY <2>1, <2>2, <2>3
<1>4. Synced(w)'
  <2> SUFFICES ASSUME Attended(w)' PROVE Synced(w)'
    BY DEF Synced
  <2>1. Attended(w)
    BY DEF Attended
  <2>2. inbox[link[w]] = <<>> /\ outbox[link[w]] = <<>>
    BY <2>1 DEF TruthInv, Synced
  <2>3. inbox'[link[w]] = <<r>> \/ inbox'[link[w]] = <<>>
    <3>1. Append(<<>>, r) = <<r>>
      BY AppendToNone
    <3> QED BY <1>2, <2>2, <3>1
  <2> QED BY <1>2, <2>2, <2>3 DEF Synced
<1>5. Shows(w)'
  BY ShowsSame DEF TruthInv
<1>6. ASSUME NEW v \in Clients, v # w PROVE Asked(v)' /\ Synced(v)' /\ Shows(v)'
  BY <1>2, <1>6, OthersKept
<1> QED BY <1>3, <1>4, <1>5, <1>6

LEMMA WindowClickTrue == ASSUME TruthInv, NEW w \in Clients, WindowClick(w) PROVE TruthInv'
<1>1. TypeOK /\ TypeOK'
  BY WindowClickTyped DEF TruthInv, Frame
<1>2. PICK r \in Buttons(w) :
        /\ Click(w, "window")
        /\ IF link[w] # NoConn THEN request(w, r) /\ UNCHANGED done
           ELSE done' = [done EXCEPT ![w] = NothingTold] /\ UNCHANGED <<call, inbox>>
        /\ UNCHANGED <<serverVars, outbox, ui, link, me, table, gaveUp, mishaps, proved>>
  BY DEF WindowClick
<1>3. /\ r \in Request /\ r.cmd \in AdminCommands \cup Tools
      /\ r.cmd \in AdminCommands => me[w].role = "admin"
      /\ r.cmd = "SET_BLOCK" => r.login \in DOMAIN table[w] /\ r.blocked = ~table[w][r.login]
  BY <1>1, ButtonFacts
<1>4. ui[w] = "window" /\ call[w] = NoCall
  BY <1>2 DEF Click
<1>5. /\ UNCHANGED <<accounts, live, who, outbox, link, gaveUp, ui, me, table>>
  BY <1>2 DEF serverVars
<1>6. CASE link[w] # NoConn
  <2>1. r.cmd # ""
    BY <1>3, FieldFacts DEF AdminCommands
  <2>2. Asked(w)'
    <3>1. call'[w] = r
      BY <1>1, <1>2, <1>6 DEF request, TypeOK
    <3> QED BY <1>3, <1>4, <1>5, <2>1, <3>1 DEF Asked
  <2> QED BY <1>1, <1>2, <1>3, <1>4, <1>5, <1>6, <2>1, <2>2, RequestTrue DEF TruthInv, Frame
<1>7. CASE link[w] = NoConn
  <2>1. call' = call /\ inbox' = inbox /\ done' = [done EXCEPT ![w] = NothingTold]
    BY <1>2, <1>7
  <2>2. \A v \in Clients : v # w => Still(v)
    <3>1. DOMAIN done = Clients
      BY <1>1 DEF TypeOK
    <3> QED BY <1>5, <2>1, <3>1 DEF Still
  <2>3. LinksOwn' /\ DeadQuiet' /\ RowsKnown'
    <3>1. LinksOwn' /\ DeadQuiet'
      BY <1>5, <2>1 DEF TruthInv, Frame, LinksOwn, DeadQuiet
    <3>2. RowsKnown'
      BY <1>5, RowsKept, SameAccounts DEF TruthInv, Frame
    <3> QED BY <3>1, <3>2
  <2>4. Asked(w)' /\ Synced(w)' /\ Shows(w)'
    <3>1. Asked(w)'
      BY <1>5, <2>1 DEF TruthInv, Asked
    <3>2. ~Attended(w)'
      BY <1>5, <1>7 DEF Attended
    <3> QED BY <3>1, <3>2, NothingClaimed
  <2>5. ASSUME NEW v \in Clients, v # w PROVE Asked(v)' /\ Synced(v)' /\ Shows(v)'
    BY <1>5, <2>1, <2>2, <2>5, OthersKept
  <2> QED BY <1>1, <2>3, <2>4, <2>5 DEF TruthInv, Frame
<1> QED BY <1>6, <1>7

\* A new connection carries the request and nothing else.
LEMMA ConnectTrue ==
    ASSUME TruthInv, NEW w \in Clients, NEW c \in Conns, NEW r \in Request, r.cmd # "",
           link[w] = NoConn, ui[w] = "dialog", connectTo(w, c, r), Asked(w)',
           UNCHANGED <<accounts, who, ui, me, table>>
    PROVE  /\ LinksOwn' /\ DeadQuiet' /\ RowsKnown'
           /\ \A v \in Clients : Asked(v)' /\ Synced(v)' /\ Shows(v)'
<1>1. /\ inbox \in [Conns -> Seq(Request)] /\ outbox \in [Conns -> Seq(Answers)]
      /\ link \in [Clients -> Conns \cup {NoConn}] /\ call \in [Clients -> Request]
      /\ gaveUp \in [Clients -> BOOLEAN] /\ DOMAIN done = Clients
  BY DEF TruthInv, Frame, TypeOK
<1>2. /\ c \notin live /\ live' = live \cup {c} /\ \A v \in Clients : link[v] # c
      /\ link' = [link EXCEPT ![w] = c] /\ call' = [call EXCEPT ![w] = r]
      /\ inbox' = [inbox EXCEPT ![c] = <<r>>] /\ outbox' = [outbox EXCEPT ![c] = <<>>]
      /\ gaveUp' = [gaveUp EXCEPT ![w] = FALSE] /\ done' = [done EXCEPT ![w] = NothingTold]
  BY DEF connectTo
<1>3. /\ link'[w] = c /\ call'[w] = r /\ inbox'[c] = <<r>> /\ outbox'[c] = <<>>
      /\ done'[w] = NothingTold
      /\ \A d \in Conns : d # c => inbox'[d] = inbox[d] /\ outbox'[d] = outbox[d]
      /\ \A v \in Clients : v # w => Still(v)
  BY <1>1, <1>2 DEF Still
<1>4. LinksOwn' /\ DeadQuiet'
  <2>1. LinksOwn
    BY DEF TruthInv, Frame
  <2>2. \A v \in Clients : v # w => link'[v] = link[v] /\ link'[v] # c
    BY <1>2, <1>3 DEF Still
  <2>3. ASSUME NEW v \in Clients, NEW x \in Clients, link'[v] = link'[x], link'[v] # NoConn
        PROVE  v = x
    <3>1. CASE v = w \/ x = w
      BY <1>3, <2>2, <2>3, <3>1
    <3>2. CASE v # w /\ x # w
      BY <2>1, <2>2, <2>3, <3>2 DEF LinksOwn
    <3> QED BY <3>1, <3>2
  <2>4. LinksOwn'
    BY <2>3 DEF LinksOwn
  <2> QED BY <1>2, <1>3, <2>4 DEF TruthInv, Frame, DeadQuiet
<1>5. RowsKnown'
  <2>1. \A d \in Conns : outbox'[d] = outbox[d] \/ outbox'[d] = <<>>
    BY <1>3
  <2> QED BY <2>1, RowsKept, SameAccounts DEF TruthInv, Frame
<1>6. Synced(w)'
  <2>1. r # NoCall
    BY RequestFacts
  <2> QED BY <1>3, <2>1 DEF Synced
<1>7. Shows(w)'
  <2>1. IdentityIsServed(w)'
    BY DEF IdentityIsServed
  <2>2. RegistrationIsTrue(NothingTold)' /\ ResultIsOwn(NothingTold)'
    BY RequestFacts, FieldFacts DEF RegistrationIsTrue, ResultIsOwn, NothingTold, Told, AdminCommands
  <2> QED BY <1>3, <2>1, <2>2 DEF Shows, RegistrationIsTrue, ResultIsOwn
<1>8. ASSUME NEW v \in Clients, v # w PROVE Asked(v)' /\ Synced(v)' /\ Shows(v)'
  <2>1. Asked(v) /\ Synced(v) /\ Shows(v) /\ KeepsAccounts
    BY SameAccounts DEF TruthInv
  <2>2. SessionStill(v)
    BY <1>2 DEF SessionStill
  <2>3. link[v] # NoConn =>
          inbox'[link[v]] = inbox[link[v]] /\ outbox'[link[v]] = outbox[link[v]]
    BY <1>1, <1>2, <1>3
  <2> QED BY <1>3, <1>8, <2>1, <2>2, <2>3, ClientKept
<1> QED BY <1>4, <1>5, <1>6, <1>7, <1>8

LEMMA DialogClickTrue == ASSUME TruthInv, NEW w \in Clients, DialogClick(w) PROVE TruthInv'
<1>1. TypeOK /\ TypeOK'
  BY DialogClickTyped DEF TruthInv, Frame
<1>2. PICK cmd \in {"LOGIN", "REGISTER"}, t \in Typed :
        LET r == Credentials(cmd, t[1], t[2]) IN
        /\ Click(w, "dialog")
        /\ \/ link[w] # NoConn /\ request(w, r) /\ UNCHANGED <<live, link, gaveUp, done, outbox>>
           \/ link[w] = NoConn /\ \E c \in Conns : connectTo(w, c, r)
        /\ UNCHANGED <<accounts, who, ui, me, table, mishaps, proved>>
  BY DEF DialogClick
<1> DEFINE r == Credentials(cmd, t[1], t[2])
<1>3. r \in Request /\ r.cmd = cmd
  BY RequestFacts
<1>4. /\ Click(w, "dialog")
      /\ \/ link[w] # NoConn /\ request(w, r) /\ UNCHANGED <<live, link, gaveUp, done, outbox>>
         \/ link[w] = NoConn /\ \E c \in Conns : connectTo(w, c, r)
      /\ UNCHANGED <<accounts, who, ui, me, table, mishaps, proved>>
  BY <1>2
<1> HIDE DEF r
<1>5. ui[w] = "dialog" /\ call[w] = NoCall
  BY <1>4 DEF Click
<1>6. r.cmd # "" /\ r.cmd \notin AdminCommands
  BY <1>3 DEF AdminCommands
<1>7. ASSUME call'[w] = r PROVE Asked(w)'
  BY <1>3, <1>4, <1>5, <1>6, <1>7 DEF Asked, AdminCommands
<1>8. CASE link[w] # NoConn /\ request(w, r) /\ UNCHANGED <<live, link, gaveUp, done, outbox>>
  <2>1. Asked(w)'
    <3>1. call'[w] = r
      BY <1>1, <1>8 DEF request, TypeOK
    <3> QED BY <1>7, <3>1
  <2> QED BY <1>1, <1>3, <1>4, <1>5, <1>6, <1>8, <2>1, RequestTrue DEF TruthInv, Frame
<1>9. ASSUME link[w] = NoConn, NEW c \in Conns, connectTo(w, c, r) PROVE TruthInv'
  <2>1. Asked(w)'
    <3>1. call'[w] = r
      BY <1>1, <1>9 DEF connectTo, TypeOK
    <3> QED BY <1>7, <3>1
  <2> QED BY <1>1, <1>3, <1>4, <1>5, <1>6, <1>9, <2>1, ConnectTrue DEF TruthInv, Frame
<1> QED BY <1>4, <1>8, <1>9

-----------------------------------------------------------------------------
(* A request that returns.                                                 *)

\* What the slot of w does with rep, variable by variable.
Returned(w, rep, outcome) ==
    /\ done'[w] = Told(call[w], outcome, Shown(call[w], rep))
    /\ IF call[w].cmd = "LOGIN" /\ rep.ok
       THEN ui'[w] = "window" /\ me'[w] = [login |-> call[w].login, role |-> rep.role]
       ELSE ui'[w] = ui[w] /\ me'[w] = me[w]
    /\ IF call[w].cmd = "LIST_USERS" /\ rep.ok THEN table'[w] = rep.users ELSE table'[w] = table[w]
    /\ \/ /\ call[w].cmd = "SET_BLOCK" /\ link[w] \in Conns /\ call'[w] = Ask("LIST_USERS")
          /\ IF link[w] \in live THEN inbox'[link[w]] = Append(inbox[link[w]], Ask("LIST_USERS"))
             ELSE inbox'[link[w]] = inbox[link[w]]
       \/ call'[w] = NoCall /\ inbox' = inbox
    /\ \A d \in Conns : d # link[w] => inbox'[d] = inbox[d]
    /\ \A v \in Clients : v # w => /\ done'[v] = done[v] /\ ui'[v] = ui[v] /\ me'[v] = me[v]
                                   /\ table'[v] = table[v] /\ call'[v] = call[v]

LEMMA ReturnEffect ==
    ASSUME TypeOK, NEW w \in Clients, NEW rep, NEW outcome, Return(w, rep, outcome)
    PROVE  Returned(w, rep, outcome)
<1>1. /\ ui \in [Clients -> {"dialog", "window"}] /\ link \in [Clients -> Conns \cup {NoConn}]
      /\ call \in [Clients -> Request] /\ inbox \in [Conns -> Seq(Request)]
      /\ table \in [Clients -> Table] /\ DOMAIN me = Clients /\ DOMAIN done = Clients
  BY DEF TypeOK
<1>2. /\ done' = [done EXCEPT ![w] = Told(call[w], outcome, Shown(call[w], rep))]
      /\ loginReturns(w, rep) /\ refreshUsersReturns(w, rep) /\ NextRequest(w)
  BY DEF Return
<1>3. /\ IF call[w].cmd = "LOGIN" /\ rep.ok
         THEN ui'[w] = "window" /\ me'[w] = [login |-> call[w].login, role |-> rep.role]
         ELSE ui'[w] = ui[w] /\ me'[w] = me[w]
      /\ \A v \in Clients : v # w => ui'[v] = ui[v] /\ me'[v] = me[v]
  BY <1>1, <1>2 DEF loginReturns
<1>4. /\ IF call[w].cmd = "LIST_USERS" /\ rep.ok THEN table'[w] = rep.users ELSE table'[w] = table[w]
      /\ \A v \in Clients : v # w => table'[v] = table[v]
  BY <1>1, <1>2 DEF refreshUsersReturns
<1>5. /\ done'[w] = Told(call[w], outcome, Shown(call[w], rep))
      /\ \A v \in Clients : v # w => done'[v] = done[v]
  BY <1>1, <1>2
<1>6. CASE call[w].cmd = "SET_BLOCK" /\ link[w] # NoConn
  <2>1. request(w, Ask("LIST_USERS")) /\ link[w] \in Conns
    BY <1>1, <1>2, <1>6 DEF NextRequest
  <2>2. /\ call'[w] = Ask("LIST_USERS") /\ \A v \in Clients : v # w => call'[v] = call[v]
        /\ IF link[w] \in live THEN inbox'[link[w]] = Append(inbox[link[w]], Ask("LIST_USERS"))
           ELSE inbox'[link[w]] = inbox[link[w]]
        /\ \A d \in Conns : d # link[w] => inbox'[d] = inbox[d]
    BY <1>1, <2>1 DEF request
  <2> QED BY <1>3, <1>4, <1>5, <1>6, <2>1, <2>2 DEF Returned
<1>7. CASE ~(call[w].cmd = "SET_BLOCK" /\ link[w] # NoConn)
  <2>1. call' = [call EXCEPT ![w] = NoCall] /\ inbox' = inbox
    BY <1>2, <1>7 DEF NextRequest
  <2>2. call'[w] = NoCall /\ \A v \in Clients : v # w => call'[v] = call[v]
    BY <1>1, <2>1
  <2> QED BY <1>3, <1>4, <1>5, <2>1, <2>2 DEF Returned
<1> QED BY <1>6, <1>7

\* What toggleBlock goes on with.
LEMMA RefreshFacts ==
    LET r == Ask("LIST_USERS") IN r \in Request /\ r.cmd = "LIST_USERS" /\ r # NoCall
BY DEF Ask, NoCall, Credentials, Request, AdminCommands

\* Everything but the claims about w itself, which depend on the answer.
LEMMA ReturnTrue ==
    ASSUME TruthInv, NEW w \in Clients, NEW rep \in Answers, NEW outcome, Returned(w, rep, outcome),
           DOMAIN rep.users \subseteq DOMAIN accounts,
           UNCHANGED <<accounts, live, who, link>>,
           \A d \in Conns : d # link[w] => outbox'[d] = outbox[d],
           \A v \in Clients : v # w => gaveUp'[v] = gaveUp[v]
    PROVE  /\ LinksOwn' /\ DeadQuiet' /\ Asked(w)'
           /\ \A v \in Clients : DOMAIN table'[v] \subseteq DOMAIN accounts
           /\ \A v \in Clients : v # w => Asked(v)' /\ Synced(v)' /\ Shows(v)'
<1>1. LinksOwn'
  BY DEF TruthInv, Frame, LinksOwn
<1>2. DeadQuiet'
  BY DEF TruthInv, Frame, DeadQuiet, Returned
<1>3. Asked(w)'
  <2>0. Asked(w) /\ ui[w] \in {"dialog", "window"}
    BY DEF TruthInv, Frame, TypeOK
  <2>1. CASE call'[w] = NoCall
    BY <2>0, <2>1, RequestFacts DEF Asked, AdminCommands
  <2>2. CASE call[w].cmd = "SET_BLOCK" /\ call'[w] = Ask("LIST_USERS")
    <3>1. call'[w].cmd = "LIST_USERS"
      BY <2>2, RefreshFacts
    <3>2. me'[w] = me[w] /\ ui'[w] = ui[w] /\ me[w].role = "admin" /\ ui[w] = "window"
      BY <2>0, <2>2 DEF Returned, Asked, AdminCommands
    <3> QED BY <3>1, <3>2 DEF Asked, AdminCommands
  <2> QED BY <2>1, <2>2 DEF Returned
<1>4. ASSUME NEW v \in Clients PROVE DOMAIN table'[v] \subseteq DOMAIN accounts
  BY DEF Returned, TruthInv, Frame, RowsKnown
<1>5. ASSUME NEW v \in Clients, v # w PROVE Asked(v)' /\ Synced(v)' /\ Shows(v)'
  <2>1. Still(v)
    BY <1>5 DEF Still, Returned
  <2>2. \A d \in Conns : d # link[w] => inbox'[d] = inbox[d] /\ outbox'[d] = outbox[d]
    BY DEF Returned
  <2> QED BY <1>5, <2>1, <2>2, OthersKept
<1> QED BY <1>1, <1>2, <1>3, <1>4, <1>5

LEMMA GiveUpTrue == ASSUME TruthInv, NEW w \in Clients, GiveUp(w) PROVE TruthInv'
<1>1. TypeOK /\ TypeOK'
  BY GiveUpTyped DEF TruthInv, Frame
<1>2. /\ UNCHANGED <<accounts, live, who, link, outbox>>
      /\ Return(w, Refusal, "no answer") /\ gaveUp' = [gaveUp EXCEPT ![w] = TRUE]
  BY DEF GiveUp, serverVars
<1>3. gaveUp'[w] = TRUE /\ \A v \in Clients : v # w => gaveUp'[v] = gaveUp[v]
  <2>1. DOMAIN gaveUp = Clients
    BY <1>1 DEF TypeOK
  <2> QED BY <1>2, <2>1
<1>4. Returned(w, Refusal, "no answer") /\ Refusal \in Answers /\ DOMAIN Refusal.users = {}
  BY <1>1, <1>2, ReturnEffect, AnswerFacts, TableFacts
<1>5. /\ LinksOwn' /\ DeadQuiet' /\ Asked(w)'
      /\ \A v \in Clients : DOMAIN table'[v] \subseteq DOMAIN accounts
      /\ \A v \in Clients : v # w => Asked(v)' /\ Synced(v)' /\ Shows(v)'
  BY <1>2, <1>3, <1>4, ReturnTrue
<1>6. RowsKnown'
  BY <1>2, <1>5 DEF TruthInv, Frame, RowsKnown
<1>7. Synced(w)' /\ Shows(w)'
  <2>1. ~Attended(w)'
    BY <1>3 DEF Attended
  <2> QED BY <2>1, NothingClaimed
<1> QED BY <1>1, <1>5, <1>6, <1>7 DEF TruthInv, Frame

\* A true answer makes what w then shows true.
LEMMA AnswerShown ==
    ASSUME NEW w \in Clients, NEW rep \in Answers, link[w] \in Conns, Shows(w), Fits(w, rep),
           Attended(w), Returned(w, rep, IF rep.ok THEN "ok" ELSE "refused"),
           UNCHANGED <<accounts, live, who, link>>
    PROVE  Shows(w)'
<1> DEFINE d == Told(call[w], IF rep.ok THEN "ok" ELSE "refused", Shown(call[w], rep))
<1>1. done'[w] = d
  BY DEF Returned
<1>2. /\ d.req = call[w] /\ d.outcome = (IF rep.ok THEN "ok" ELSE "refused")
      /\ d.result = Shown(call[w], rep)
  BY DEF Told
<1> HIDE DEF d
<1>3. IdentityIsServed(w)'
  <2>1. CASE call[w].cmd = "LOGIN" /\ rep.ok
    <3>1. me'[w].login = call[w].login /\ me'[w].role = rep.role
      BY <2>1 DEF Returned
    <3>2. /\ link[w] \in live => who[link[w]] = call[w].login
          /\ call[w].login \in DOMAIN accounts /\ rep.role = accounts[call[w].login].role
      BY <2>1 DEF Fits, Truthful
    <3> QED BY <3>1, <3>2 DEF IdentityIsServed
  <2>2. CASE ~(call[w].cmd = "LOGIN" /\ rep.ok)
    <3>1. ui'[w] = ui[w] /\ me'[w] = me[w]
      BY <2>2 DEF Returned
    <3> QED BY <3>1 DEF Shows, IdentityIsServed
  <2> QED BY <2>1, <2>2
<1>4. RegistrationIsTrue(done[w])'
  <2>1. /\ call[w].cmd = "REGISTER" /\ rep.ok =>
              /\ call[w].login \in DOMAIN accounts
              /\ accounts[call[w].login].password = call[w].password
        /\ call[w].cmd = "REGISTER" /\ ~rep.ok =>
              call[w].login \in DOMAIN accounts \/ "" \in {call[w].login, call[w].password}
    BY DEF Fits, Truthful
  <2> QED BY <1>1, <1>2, <2>1 DEF RegistrationIsTrue
<1>5. ResultIsOwn(done[w])'
  <2>1. call[w].cmd \in DOMAIN Field /\ rep.ok => Shown(call[w], rep) = call[w].cmd
    BY DEF Fits, Truthful, Shown
  <2>2. call[w].cmd \in AdminCommands => rep.ok
    BY DEF Fits
  <2> QED BY <1>1, <1>2, <2>1, <2>2 DEF ResultIsOwn
<1> QED BY <1>3, <1>4, <1>5 DEF Shows

LEMMA TakeTrue == ASSUME TruthInv, NEW w \in Clients, Take(w) PROVE TruthInv'
<1>1. TypeOK /\ TypeOK'
  BY TakeTyped DEF TruthInv, Frame
<1>2. PICK rep \in Answers : /\ rep = Head(outbox[link[w]])
                             /\ Return(w, rep, IF rep.ok THEN "ok" ELSE "refused")
  BY <1>1, TakeFacts
<1>3. PICK n \in 1..Len(outbox[link[w]]) :
        outbox' = [outbox EXCEPT ![link[w]] = SubSeq(@, n + 1, Len(@))]
  BY <1>1, TakeFacts
<1>4. /\ link[w] \in Conns /\ call[w] # NoCall
      /\ outbox[link[w]] \in Seq(Answers) /\ outbox[link[w]] # <<>>
  BY <1>1, TakeFacts
<1>5. /\ outbox'[link[w]] = SubSeq(outbox[link[w]], n + 1, Len(outbox[link[w]]))
      /\ \A d \in Conns : d # link[w] => outbox'[d] = outbox[d]
  <2>1. outbox \in [Conns -> Seq(Answers)]
    BY <1>1 DEF TypeOK
  <2> QED BY <1>3, <1>4, <2>1
<1>6. UNCHANGED <<accounts, live, who, link, gaveUp>>
  BY DEF Take, serverVars
<1>7. Returned(w, rep, IF rep.ok THEN "ok" ELSE "refused")
  BY <1>1, <1>2, ReturnEffect
<1>8. DOMAIN rep.users \subseteq DOMAIN accounts
  <2>1. 1 \in 1..Len(outbox[link[w]]) /\ rep = outbox[link[w]][1]
    BY <1>2, <1>4
  <2> QED BY <1>4, <2>1 DEF TruthInv, Frame, RowsKnown
<1>9. /\ LinksOwn' /\ DeadQuiet' /\ Asked(w)'
      /\ \A v \in Clients : DOMAIN table'[v] \subseteq DOMAIN accounts
      /\ \A v \in Clients : v # w => Asked(v)' /\ Synced(v)' /\ Shows(v)'
  BY <1>5, <1>6, <1>7, <1>8, ReturnTrue
<1>10. RowsKnown'
  <2>1. ASSUME NEW d \in Conns, NEW k \in 1..Len(outbox'[d])
        PROVE  DOMAIN outbox'[d][k].users \subseteq DOMAIN accounts
    <3>1. CASE d # link[w]
      BY <1>5, <2>1, <3>1 DEF TruthInv, Frame, RowsKnown
    <3>2. CASE d = link[w]
      <4>1. n + k \in 1..Len(outbox[d]) /\ outbox'[d][k] = outbox[d][n + k]
        BY <1>4, <1>5, <2>1, <3>2
      <4> QED BY <4>1 DEF TruthInv, Frame, RowsKnown
    <3> QED BY <3>1, <3>2
  <2> QED BY <1>6, <1>9, <2>1 DEF RowsKnown
<1>11. CASE ~Attended(w)
  <2>1. ~Attended(w)'
    BY <1>6, <1>11 DEF Attended
  <2> QED BY <1>1, <1>9, <1>10, <2>1, NothingClaimed DEF TruthInv, Frame
<1>12. CASE Attended(w)
  <2>1. inbox[link[w]] = <<>> /\ \E a \in Answers : outbox[link[w]] = <<a>> /\ Fits(w, a)
    BY <1>4, <1>12 DEF TruthInv, Synced
  <2>2. outbox[link[w]] = <<rep>> /\ Fits(w, rep)
    BY <1>2, <2>1
  <2>3. outbox'[link[w]] = <<>>
    BY <1>4, <1>5, <2>2
  <2>4. Synced(w)'
    <3>1. CASE call'[w] = NoCall /\ inbox' = inbox
      BY <1>6, <2>1, <2>3, <3>1 DEF Synced
    <3>2. CASE /\ call'[w] = Ask("LIST_USERS")
               /\ IF link[w] \in live THEN inbox'[link[w]] = Append(inbox[link[w]], Ask("LIST_USERS"))
                  ELSE inbox'[link[w]] = inbox[link[w]]
      <4>1. Ask("LIST_USERS") \in Request /\ Ask("LIST_USERS") # NoCall
        BY RefreshFacts
      <4>2. Append(<<>>, Ask("LIST_USERS")) = <<Ask("LIST_USERS")>>
        BY <4>1, AppendToNone
      <4>3. inbox'[link[w]] = <<>> \/ inbox'[link[w]] = <<call'[w]>>
        BY <2>1, <3>2, <4>2
      <4> QED BY <1>6, <2>3, <3>2, <4>1, <4>3 DEF Synced
    <3> QED BY <1>7, <3>1, <3>2 DEF Returned
  <2>5. Shows(w)'
    BY <1>4, <1>6, <1>7, <1>12, <2>2, AnswerShown DEF TruthInv
  <2> QED BY <1>1, <1>9, <1>10, <2>4, <2>5 DEF TruthInv, Frame
<1> QED BY <1>11, <1>12

-----------------------------------------------------------------------------
LEMMA TruthInit == ASSUME Init PROVE TruthInv
<1>1. TypeOK
  BY InitTyped
<1>2. LinksOwn /\ DeadQuiet
  BY DEF Init, LinksOwn, DeadQuiet
<1>3. RowsKnown
  <2>1. \A w \in Clients : DOMAIN table[w] = {}
    BY TableFacts DEF Init
  <2>2. ASSUME NEW c \in Conns, NEW k \in 1..Len(outbox[c]) PROVE FALSE
    <3>1. outbox[c] = <<>>
      BY DEF Init
    <3>2. Len(outbox[c]) = 0
      BY <3>1
    <3> QED BY <3>2
  <2> QED BY <2>1, <2>2 DEF RowsKnown
<1>4. ASSUME NEW w \in Clients PROVE Asked(w) /\ Synced(w) /\ Shows(w)
  <2>1. call[w] = NoCall /\ ui[w] = "dialog" /\ link[w] = NoConn
    BY DEF Init
  <2>2. Asked(w)
    BY <2>1, RequestFacts DEF Asked, AdminCommands
  <2> QED BY <2>1, <2>2 DEF Synced, Shows, Attended
<1> QED BY <1>1, <1>2, <1>3, <1>4 DEF TruthInv, Frame

LEMMA TruthStep == ASSUME TruthInv, [Next]_vars PROVE TruthInv'
<1>1. CASE UNCHANGED vars
  <2>1. UNCHANGED <<accounts, live, who, inbox, outbox, ui, link, call, me, table, done, gaveUp>>
    BY <1>1 DEF vars, serverVars, wires, clientVars
  <2>2. TypeOK' /\ LinksOwn' /\ DeadQuiet' /\ RowsKnown'
    BY <2>1, TypeStep DEF TruthInv, Frame, LinksOwn, DeadQuiet, RowsKnown
  <2>3. ASSUME NEW w \in Clients PROVE Asked(w)' /\ Synced(w)' /\ Shows(w)'
    <3>1. KeepsAccounts /\ Still(w) /\ SessionStill(w)
      BY <2>1, SameAccounts DEF Still, SessionStill
    <3> QED BY <2>1, <3>1, ClientKept DEF TruthInv
  <2> QED BY <2>2, <2>3 DEF TruthInv, Frame
<1> QED BY <1>1, ServeTrue, DropTrue, CloseTrue, LoseTrue, DialogClickTrue, WindowClickTrue,
           TakeTrue, GiveUpTrue DEF Next

\* As long as no request of its connection was given up, everything a client
\* shows is true of the server, for any number of clients and connections.
THEOREM WhatIsShownIsTrue == Spec => []ShownIsTrue
<1>1. TruthInv => ShownIsTrue
  BY DEF TruthInv, Shows, ShownIsTrue
<1> QED BY <1>1, TruthInit, TruthStep, PTL DEF Spec

\* Only the command of the pending request changes whether an account is blocked.
LEMMA BlockedByServe ==
    ASSUME [Next]_vars, NEW u \in DOMAIN accounts, accounts'[u].blocked # accounts[u].blocked
    PROVE  \E c \in Conns : Serve(c)
<1>1. accounts' # accounts
  OBVIOUS
<1> QED BY <1>1 DEF Next, vars, serverVars, Drop, Close, Lose, DialogClick, WindowClick, Take, GiveUp

LEMMA BlockedByCommand ==
    ASSUME NEW c \in Conns, NEW r, dispatch(c, r), NEW u \in DOMAIN accounts,
           DOMAIN accounts \subseteq Logins, accounts \in [DOMAIN accounts -> Row],
           accounts'[u].blocked # accounts[u].blocked
    PROVE  r.cmd = "SET_BLOCK" /\ u = r.login /\ accounts'[u].blocked = r.blocked
<1>1. accounts' # accounts
  OBVIOUS
<1>2. ~cmdLogin(c, r) /\ ~cmdList(c, r) /\ ~cmdTool(c, r)
  BY <1>1 DEF cmdLogin, cmdList, cmdTool
<1>3. ~cmdRegister(c, r)
  <2> SUFFICES ASSUME cmdRegister(c, r) PROVE FALSE
    OBVIOUS
  <2>1. /\ r.login \notin DOMAIN accounts
        /\ accounts' = [x \in DOMAIN accounts \cup {r.login} |->
                          IF x = r.login THEN Account(r.password, "user") ELSE accounts[x]]
    BY <1>1 DEF cmdRegister
  <2>2. accounts'[u] = accounts[u]
    BY <2>1
  <2> QED BY <2>2
<1>4. cmdSetBlock(c, r)
  BY <1>2, <1>3 DEF dispatch
<1>5. accounts' = [accounts EXCEPT ![r.login].blocked = r.blocked] /\ r.login \in DOMAIN accounts
  BY <1>1, <1>4 DEF cmdSetBlock
<1>6. u = r.login
  BY <1>5
<1>7. accounts[u] \in Row
  OBVIOUS
<1>8. accounts'[u].blocked = r.blocked
  BY <1>5, <1>6, <1>7 DEF Row
<1> QED BY <1>4, <1>6, <1>8 DEF cmdSetBlock

LEMMA StaleStep ==
    ASSUME TruthInv, [Next]_vars, NEW w \in Clients, NEW u \in DOMAIN accounts,
           Attended(w), call[w].cmd = "SET_BLOCK",
           inbox'[link[w]] # inbox[link[w]], link[w] \in live',
           accounts'[u].blocked # accounts[u].blocked
    PROVE  u \in DOMAIN table[w] /\ table[w][u] = accounts[u].blocked
<1>1. TypeOK /\ Asked(w) /\ Synced(w)
  BY DEF TruthInv, Frame
<1>2. /\ inbox \in [Conns -> Seq(Request)] /\ link[w] \in Conns
      /\ DOMAIN accounts \subseteq Logins /\ accounts \in [DOMAIN accounts -> Row]
      /\ table[w] \in Table
  BY <1>1 DEF TypeOK, Attended
<1>3. PICK c \in Conns : Serve(c)
  BY BlockedByServe
<1>4. /\ inbox[c] # <<>> /\ inbox' = [inbox EXCEPT ![c] = Tail(@)] /\ dispatch(c, Head(inbox[c]))
  BY <1>3 DEF Serve
<1>5. c = link[w]
  BY <1>2, <1>4
<1>6. inbox[c] = <<call[w]>>
  BY <1>1, <1>4, <1>5 DEF Synced
<1>7. Head(inbox[c]) = call[w]
  BY <1>6
<1>8. u = call[w].login /\ accounts'[u].blocked = call[w].blocked
  BY <1>2, <1>4, <1>7, BlockedByCommand
<1>9. u \in DOMAIN table[w] /\ call[w].blocked = ~table[w][u]
  BY <1>1, <1>8 DEF Asked
<1>10. table[w][u] \in BOOLEAN
  BY <1>2, <1>9, TableFacts
<1>11. accounts[u].blocked \in BOOLEAN
  BY <1>2 DEF Row
<1>12. accounts[u].blocked # (~table[w][u])
  BY <1>8, <1>9
<1>13. ASSUME NEW a \in BOOLEAN, NEW b \in BOOLEAN, a # (~b) PROVE b = a
  BY <1>13
<1> QED BY <1>9, <1>10, <1>11, <1>12, <1>13

\* While nothing was given up, a row that is out of date does no harm: the
\* request it leads to changes an account only when the row shows how it is.
THEOREM StaleClicksAreHarmless == Spec => StaleClickIsHarmless
<1>1. ASSUME TruthInv, [Next]_vars
      PROVE  [\A w \in Clients, u \in DOMAIN accounts :
                /\ Attended(w) /\ call[w].cmd = "SET_BLOCK"
                /\ inbox'[link[w]] # inbox[link[w]] /\ link[w] \in live'
                /\ accounts'[u].blocked # accounts[u].blocked
                => u \in DOMAIN table[w] /\ table[w][u] = accounts[u].blocked]_vars
  BY <1>1, StaleStep
<1> QED BY <1>1, TruthInit, TruthStep, PTL DEF Spec, StaleClickIsHarmless
=============================================================================
