--------------------------- MODULE RequestChannel ---------------------------
(***************************************************************************)
(* One client talking to the server: ClientCore::request with its deadline *)
(* (client/src/clientcore.cpp), the two TCP byte streams, and the framing  *)
(* of ClientHandler (server/src/clienthandler.cpp).                        *)
(*                                                                         *)
(* A message is a JSON line.  TCP cuts lines anywhere, so a line is two    *)
(* segments, its head and the tail that ends with the newline, and a read  *)
(* takes any number of the segments under way.  Messages carry the id that *)
(* request() numbers them with; the answer echoes it.                      *)
(***************************************************************************)
EXTENDS Naturals, Sequences, SequencesExt

CONSTANTS
    MaxRequests,  \* bound on the requests of a behaviour
    MaxConns      \* bound on the connections of a behaviour

ASSUME ChannelAssumption == MaxRequests \in Nat /\ MaxConns \in Nat

VARIABLES
    up,        \* sock_ is connected
    conn,      \* connections made so far
    nextId,    \* nextId_
    asked,     \* the id request() waits with, 0 outside request()
    bounded,   \* whether its present wait has a time limit
    buf,       \* the local buffer of request()
    inbox,     \* bytes QTcpSocket has read and request() has not
    c2s, s2c,  \* segments under way to the server, to the client
    sbuf,      \* buffer_ of the ClientHandler
    handled,   \* what the server took for a line, in order: an id, or 0
    results    \* what request() returned: [conn, asked, got]

vars == <<up, conn, nextId, asked, bounded, buf, inbox, c2s, s2c, sbuf, handled, results>>

-----------------------------------------------------------------------------
Ids == 1..MaxRequests

Segment == [id: Ids, last: BOOLEAN]

Line(id) == <<[id |-> id, last |-> FALSE], [id |-> id, last |-> TRUE]>>

\* Where the first newline is, 0 without one.
Newline(bytes) == SelectInSeq(bytes, LAMBDA s : s.last)

\* What a JSON parser makes of the bytes up to a newline: the message, or
\* nothing when the bytes are not those of one message.
Parse(line) == IF \E id \in Ids : line = Line(id) THEN line[1].id ELSE 0

Init ==
    /\ up = FALSE /\ conn = 0 /\ nextId = 1 /\ asked = 0 /\ bounded = TRUE
    /\ buf = <<>> /\ inbox = <<>> /\ c2s = <<>> /\ s2c = <<>> /\ sbuf = <<>>
    /\ handled = <<>> /\ results = <<>>

-----------------------------------------------------------------------------
(* The client.                                                             *)

\* Mutant: connectToHost without the abort() that empties the socket.
ConnectKeepsData ==
    /\ ~up /\ asked = 0 /\ conn < MaxConns
    /\ up' = TRUE /\ conn' = conn + 1
    /\ sbuf' = <<>> /\ c2s' = <<>> /\ s2c' = <<>>
    /\ UNCHANGED <<nextId, asked, bounded, buf, inbox, handled, results>>

\* ensureConnected: connectTo aborts the old socket and connects anew.
Connect ==
    /\ ~up /\ asked = 0 /\ conn < MaxConns
    /\ up' = TRUE /\ conn' = conn + 1
    /\ inbox' = <<>> /\ sbuf' = <<>> /\ c2s' = <<>> /\ s2c' = <<>>
    /\ UNCHANGED <<nextId, asked, bounded, buf, handled, results>>

\* The loop of request() reads the clock for its test and again for the limit of
\* the wait.  When the deadline falls between, the limit is -1, which to
\* waitForReadyRead is none.
WaitOn == bounded' \in BOOLEAN

\* Mutant: the line carries the id before, request() the id after ++nextId_.
AskPreIncrement ==
    /\ up /\ asked = 0 /\ nextId \in Ids
    /\ c2s' = c2s \o Line(nextId)
    /\ asked' = nextId + 1 /\ nextId' = nextId + 1 /\ buf' = <<>> /\ WaitOn
    /\ UNCHANGED <<up, conn, inbox, s2c, sbuf, handled, results>>

\* request() writes the line and starts to wait.  (Not connected, it returns an
\* error at once and nothing changes.)
Ask ==
    /\ up /\ asked = 0 /\ nextId \in Ids
    /\ c2s' = c2s \o Line(nextId)
    /\ asked' = nextId /\ nextId' = nextId + 1 /\ buf' = <<>> /\ WaitOn
    /\ UNCHANGED <<up, conn, inbox, s2c, sbuf, handled, results>>

\* The event loop reads into the socket's buffer while nobody waits.
Arrive ==
    \E n \in 1..Len(s2c) :
        /\ up /\ asked = 0
        /\ inbox' = inbox \o SubSeq(s2c, 1, n)
        /\ s2c' = SubSeq(s2c, n + 1, Len(s2c))
        /\ UNCHANGED <<up, conn, nextId, asked, bounded, buf, c2s, sbuf, handled, results>>

Return(got) ==
    /\ results' = Append(results, [conn |-> conn, asked |-> asked, got |-> got])
    /\ asked' = 0 /\ buf' = <<>> /\ bounded' = TRUE

\* Mutant: the buffer outlives the call and its line is not taken out.
WaitKeepsBuffer ==
    \E n \in 1..Len(s2c) :
        LET bytes == buf \o inbox \o SubSeq(s2c, 1, n)
            nl == Newline(bytes)
        IN  /\ up /\ asked # 0
            /\ IF nl = 0
               THEN buf' = bytes /\ WaitOn /\ UNCHANGED <<asked, results, inbox>>
               ELSE Return(Parse(SubSeq(bytes, 1, nl))) /\ inbox' = bytes
            /\ s2c' = SubSeq(s2c, n + 1, Len(s2c))
            /\ UNCHANGED <<up, conn, nextId, c2s, sbuf, handled>>

\* waitForReadyRead returns when NEW data comes; request() then has everything
\* that came before too, and returns the first line, whatever its id.  The
\* bytes after that line are dropped with buf.
Wait ==
    \E n \in 1..Len(s2c) :
        LET bytes == buf \o inbox \o SubSeq(s2c, 1, n)
            nl == Newline(bytes)
        IN  /\ up /\ asked # 0
            /\ IF nl = 0
               THEN buf' = bytes /\ WaitOn /\ UNCHANGED <<asked, results>>
               ELSE Return(Parse(SubSeq(bytes, 1, nl)))
            /\ inbox' = <<>>
            /\ s2c' = SubSeq(s2c, n + 1, Len(s2c))
            /\ UNCHANGED <<up, conn, nextId, c2s, sbuf, handled>>

\* Mutant: the loop goes on when waitForReadyRead has failed.
TimeoutByClock ==
    /\ asked # 0 /\ bounded /\ Return(0)
    /\ UNCHANGED <<up, conn, nextId, inbox, c2s, s2c, sbuf, handled>>

\* The deadline of a limited wait passes, or the connection is gone, which ends
\* every wait: both are "timeout".
Timeout ==
    /\ asked # 0 /\ (bounded \/ ~up) /\ Return(0)
    /\ UNCHANGED <<up, conn, nextId, inbox, c2s, s2c, sbuf, handled>>

-----------------------------------------------------------------------------
(* The server and the network.                                             *)

\* onReadyRead appends what has come to buffer_ ...
ServerRead ==
    \E n \in 1..Len(c2s) :
        /\ up
        /\ sbuf' = sbuf \o SubSeq(c2s, 1, n)
        /\ c2s' = SubSeq(c2s, n + 1, Len(c2s))
        /\ UNCHANGED <<up, conn, nextId, asked, bounded, buf, inbox, s2c, handled, results>>

\* Mutant: every readyRead is taken for one whole line.
ServerLineUnframed ==
    /\ up /\ sbuf # <<>>
    /\ handled' = Append(handled, Parse(sbuf)) /\ sbuf' = <<>>
    /\ s2c' = s2c \o Line(sbuf[1].id)
    /\ UNCHANGED <<up, conn, nextId, asked, bounded, buf, inbox, c2s, results>>

\* Mutant: the line is left in buffer_.
ServerLineNotRemoved ==
    LET nl == Newline(sbuf) IN
    /\ up /\ nl # 0
    /\ handled' = Append(handled, Parse(SubSeq(sbuf, 1, nl)))
    /\ s2c' = s2c \o Line(sbuf[nl].id)
    /\ UNCHANGED <<up, conn, nextId, asked, bounded, buf, inbox, c2s, sbuf, results>>

\* ... and takes the complete lines out, answering each with its id.
ServerLine ==
    LET nl == Newline(sbuf) IN
    /\ up /\ nl # 0
    /\ handled' = Append(handled, Parse(SubSeq(sbuf, 1, nl)))
    /\ sbuf' = SubSeq(sbuf, nl + 1, Len(sbuf))
    /\ s2c' = s2c \o Line(sbuf[nl].id)
    /\ UNCHANGED <<up, conn, nextId, asked, bounded, buf, inbox, c2s, results>>

\* The connection breaks: what is under way and the ClientHandler are lost,
\* what the client's socket holds stays readable.
Drop ==
    /\ up /\ up' = FALSE
    /\ c2s' = <<>> /\ s2c' = <<>> /\ sbuf' = <<>>
    /\ UNCHANGED <<conn, nextId, asked, bounded, buf, inbox, handled, results>>

Next == Connect \/ Ask \/ Arrive \/ Wait \/ Timeout \/ ServerRead \/ ServerLine \/ Drop

Spec == Init /\ [][Next]_vars

\* A limit runs out; while a connection lasts TCP delivers, and the server's
\* event loop takes what has come.  Nothing makes a connection last, or a client
\* ask.
FairSpec ==
    /\ Spec
    /\ WF_vars(Timeout)
    /\ WF_vars(Wait) /\ WF_vars(ServerRead) /\ WF_vars(ServerLine)

-----------------------------------------------------------------------------
(* Properties.                                                             *)

Result == [conn: 1..MaxConns, asked: Ids, got: Ids \cup {0}]

TypeOK ==
    /\ up \in BOOLEAN /\ conn \in 0..MaxConns
    /\ nextId \in 1..(MaxRequests + 1) /\ asked \in Ids \cup {0} /\ bounded \in BOOLEAN
    /\ {buf, inbox, c2s, s2c, sbuf} \subseteq Seq(Segment)
    /\ handled \in Seq(Ids \cup {0})
    /\ results \in Seq(Result)

\* However TCP cuts the stream, the server sees whole requests, each exactly
\* once and in the order they were sent.
ServerSeesWholeLines ==
    /\ \A i \in 1..Len(handled) : handled[i] # 0 /\ handled[i] < nextId
    /\ \A i, j \in 1..Len(handled) : i < j => handled[i] < handled[j]

\* No reply is returned twice, none overtakes another, and none is from a
\* connection before the one it is returned on.
RepliesInOrder ==
    \A i, j \in 1..Len(results) : i < j /\ results[i].got # 0 /\ results[j].got # 0 =>
        /\ results[i].got < results[j].got
        /\ results[i].conn < results[j].conn => results[i].asked < results[j].got

\* request() falls behind by at most one reply for each request of the
\* connection that it gave up on: without a timeout there is no mix-up.
GaveUp(i) ==
    {k \in 1..(i - 1) : results[k].got = 0 /\ results[k].conn = results[i].conn}

LagBoundedByTimeouts ==
    \A i \in 1..Len(results) : results[i].got # 0 =>
        /\ results[i].got <= results[i].asked
        /\ results[i].asked - results[i].got <= Cardinality(GaveUp(i))

\* request() returns, also from a wait that has lost its limit to the clock: its
\* line is still to be answered then, or the connection breaks.  It is the answer
\* that ends such a wait, and not the deadline: with a server that never
\* answers, on a connection that stays, the window is frozen.
RequestReturns == asked # 0 ~> asked = 0

\* The reply that request() returns is the one to its own request
\* (docs/wiki/Protocol.md:4, client/include/clientcore.h:30).
ReplyAnswersRequest ==
    \A i \in 1..Len(results) : results[i].got \in {0, results[i].asked}
=============================================================================
