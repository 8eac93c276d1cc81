# PD Crypto Suite in TLA+

This directory is the formal model of the PD Crypto Suite: a Qt TCP server
(`server/`) with an SQLite store, a Qt Widgets client (`client/`) and a library
of algorithms (`core/`).  It holds TLA+ modules translated from the C++ source,
TLC configurations that check them on small instances, and proofs that TLAPS
checks for every instance.  `PROJECT.json` maps every definition to the lines it
models, lists the runs, the mutants that show each property can fail, the
hazards and the theorems.

    tlc -workers 2 -config MCSuite.cfg MCSuite              # one run
    tlapm ServerProofs.tla                                  # one proof module

## 1. The system

| Part | State it keeps | Operations | Talks to |
|---|---|---|---|
| `Database` (server/src/database.cpp) | tables `users` (key: login; hash, role, blocked) and `logs` (append-only) in one SQLite file | `open`/`ensureSchema`/`seedAdmin`, `userExists`, `registerUser`, `authenticate`, `setBlocked`, `listUsers`, `log`, `listLogs`; each is autocommitted SQL statements whose failure is ignored or becomes `false` | SQLite |
| `Server`, `main` (server/src/server.cpp, server/main.cpp) | the listening socket | open the store, seed, listen; one `ClientHandler` per connection | `Database`, `ClientHandler` |
| `ClientHandler` (server/src/clienthandler.cpp) | `buffer_`, `login_`, `role_`, `authed_` | `onReadyRead` cuts lines and runs `PING REGISTER LOGIN VIGENERE SHA384 MD5 CHORD STEG_CAP LIST_USERS SET_BLOCK LOG_LIST`; `onDisconnected` | the socket, `Database`, `core/` |
| `Protocol` (server/src/protocol.cpp) | none | one JSON object per line, an `id` echoed | |
| `ClientCore` (client/src/clientcore.cpp) | the socket, `nextId_`, login, role | `connectTo`, `request` (blocking, with a deadline), `login`, `registerUser`, `logout` | the server |
| `LoginDialog` (client/src/logindialog.cpp) | fields | `ensureConnected`, `doLogin`, `doRegister` | `ClientCore` |
| `MainWindow` (client/src/mainwindow.cpp) | the fields of five tabs | cipher, hash, steganography, chord, administration (users table, toggle of the block, log) | `ClientCore`, `core/` for steganography |
| `core/` | stream objects of MD5 and SHA-384; otherwise functions | Vigenere cipher on UTF-8 text, steganography in low bits, hashes, chord method, expression parser | |

How they interact: a client writes a line, TCP delivers it in pieces, the
server's only thread takes it out of `buffer_` in a `readyRead` slot, runs the
handler to its end (several SQL statements, then the response) and goes on with
the next line.  Clients affect each other only through the two tables; a
handler trusts the role it cached at LOGIN.  The client waits for each response
in a nested loop with a deadline and gives up with `timeout`, leaving the
connection open.

Where it is hard:

- **Crash and failure.**  A handler is not a transaction.  Killed, or with a
  statement that fails, between the INSERT of an account and that of its log row
  it leaves one without the other; the same holds between the statements of the
  first start.  Almost no result of `exec()` is looked at.
- **Cached identity.**  `login_`, `role_` and `authed_` outlive changes of the
  table they were read from; a second LOGIN replaces them, a failed one must not.
- **Timeouts.**  A reply can come after its request was given up; a deadline can
  pass between the two places that read the clock.
- **Framing.**  TCP cuts lines anywhere, and several lines arrive at once.
- **Boundaries.**  UTF-8 lengths, a letter outside its alphabet, `uint32_t`
  wrap-around (also of an index), the last bytes of a hash block, the header of a
  picture, products of doubles that underflow.

What makes each part correct is stated in section 3 with its module.

## 2. Modules

    Database <- Server <- ServerAudit <- MCServerAudit, ServerProofs
                  ^--- ServerRequests <- MCServer, MCServerAudit
                  ^--- AccessRefinement <- MCServerAudit, ServerProofs
                             |
    AccessControl <----------+
         ^
       Suite <- MCSuite, SuiteProofs
    RequestChannel, ChannelProofs
    Utf8, Vigenere <- CipherTab <- MCCipherTab, CipherProofs
    Powers <- Steganography <- StegTab <- MCStegTab, StegProofs
      ^--- HashStream <- MCHashStream, HashProofs
    ChordMethod <- MCChordMethod, ChordProofs
    ExprParser <- ExprSpelling <- MCExprParser, ExprProofs

An arrow points at the module that is extended (or instantiated, for
`AccessControl`).  Operators named `...` with a comment that begins with
*Mutant:* are wrong variants of the definition that follows them; nothing uses
them except the check that a property notices them.

## 3. What each module models, and what its runs show

### Database, Server: the server process

`Database` has an action per SQL statement.  What the C++ function returns is a
parameter that the caller binds, so a failing statement is seen by the caller
exactly as the code sees it: `userExists` answers "no such user" when its SELECT
failed, `registerUser` answers `false`, `log` answers nothing.  `faults` counts
failures, up to `MaxFaults`; a statement on a table that does not exist always
fails.

`Server` is the process.  `pc` is the statement the thread executes next:
`down`, then the start-up statements of `ensureSchema` and `seedAdmin`, `idle`
(the event loop), `line` (the loop of `onReadyRead`), `dispatch`, `insert` and
`log` (the later statements of a handler).  Slots do not interleave, because
there is one thread; everything else does: clients connect, send and leave
while a handler runs, `Crash` is possible between any two statements, and a
restart finds what was committed.  `cur`, `req` and `row` are the locals of the
running handler, `sess` the cached identity of each, `wire` and `buffer` the
lines on their way.

- **`server_audit`** (MCServerAudit).  `ServerAudit` adds history variables: the
  accounts a log row about which was lost (`gapped`), the registrations answered
  ok, and a copy of tables and sessions at the start of a request.
  - *The log.*  It speaks only of accounts that exist (`AuditSound`), replays to
    the blocked column (`AuditReplay`), shows no login while blocked
    (`NoLoginWhileBlocked`) and no disconnect without a login of its own
    (`DisconnectsPaired`), each for the accounts none of whose rows was lost: a
    handler killed between the statement and its log row leaves the gap that
    `gapped` records.  No account is registered twice by the log, however often
    it was tried (`RegisteredOnce`).
  - *The answers.*  A registration that was answered ok is never lost or
    overwritten (`AckedIsDurable`); an error answer means nothing changed
    (`ErrorMeansNoEffect`); the cached identity stays true (`SessionCoherent`).
  - *The rights.*  The administrator is there whenever the server accepts
    clients, as long as no statement failed (`AdminSeededUnlessFault`: with one
    failure, a server without administrator is reachable), even when earlier
    starts were killed half way and somebody registers as `admin`.  Blocked flags
    change only while an account that the *table* calls admin is served
    (`OnlyAdminsBlock`).  Once every administrator is blocked and none is logged
    in, nothing leads back (`LockoutIsForever`): not a restart, not the seed.
    And the server implements `AccessControl` (`ImplementsAccessControl`), the
    abstract specification that knows no sessions' roles, no statements and no
    faults, and looks each account up at the moment it is used.
- **`server_commands`** (MCServer).  Every command, refused and accepted.  Every
  line is answered (a blank one dropped), or its connection goes away (`EveryLineAnswered`).

### RequestChannel: one request over TCP

`ClientCore::request`, the two byte streams and the framing of `onReadyRead`.  A
line is two segments, so a read can end inside one; `Wait`, `Arrive` and
`ServerRead` take any number of segments.  `waitForReadyRead` returns only for
*new* data, which is why bytes that arrived while nobody waited (`inbox`) do not
satisfy a request by themselves, and come first once something does.

- **`request_channel`**.  The server sees whole requests, once, in order
  (`ServerSeesWholeLines`); no reply is returned twice, out of order, or on a
  later connection (`RepliesInOrder`); a client is behind by at most one reply
  per request it gave up on (`LagBoundedByTimeouts`), so without a timeout there
  is no mix-up.  `request` returns (`RequestReturns`), but not by its deadline
  alone: it reads the clock for the test of its loop and again for the limit of
  the wait, and when the deadline falls between, the limit is -1, which to
  `waitForReadyRead` is none.  Such a wait (`~bounded`) ends with the answer, or
  with the connection.
- **`request_channel_id`** (violation).  After a timeout the next request is
  answered with the late reply to the one before: the `id` is sent, echoed and
  never compared.

### Utf8, Vigenere, CipherTab: the cipher tab

`Utf8` is the coding to and from UTF-8 by bytes, `Vigenere` the cipher with
`uint32_t` arithmetic (`Wrap`), `CipherTab` the two buttons, the VIGENERE
command and the user who copies the output back.

- **`cipher_tab`**.  A text with as many encryptions as decryptions behind it is
  the text typed in (`RoundTrip`) on every path, not just encrypt-decrypt;
  non-letters stay, letters keep alphabet and case (`ShapeKept`).
- **`cipher_tab_yo`** (violation).  The letter yo does not come back.

### Powers, Steganography, StegTab: the steganography tab

Pictures are sequences of pixel bytes.  The widths of a character, a pixel and
the length header are constants, so that small pictures have every boundary.
`StegTab` shares one message box between embedding and extracting, lets input
and output be one file, and lets a save fail; bytes that are not UTF-8 come back
from the box as U+FFFD (`Shown`).  `embed` adds up its index in a `size_t` and
`extract` in a `uint32_t`; `IndexRange` stands for 2^32, and past it extraction
begins again at the first pixel (`Position`).

- **`steg_tab`**.  A file gives back what was embedded last, whatever it carried
  before, if that ends within `IndexRange` (`LastMessageIsRead`; beyond, in a
  picture of more than 4 GiB, it does not); only low bits differ from the original cover,
  however often it went round (`OnlyLowBitsChange`); a message is refused exactly
  beyond `capacity()` (`CapacityIsExact`).

### HashStream: MD5 and SHA-384

The buffering, the padding and `digest()`, one algorithm in two widths
(`Algorithms`).  `transform()` is abstracted to the bytes it absorbed: the
question is which blocks reach it.  Copy rounds are steps of their own.

- **`hash_stream`**.  However a message is cut into `update` calls it goes whole
  into blocks (`StreamIsWhole`), the first digest is that of the reference padding
  of RFC 1321 and FIPS 180-4 (`DigestIsReference`), and a digest is final
  (`DigestIsFinal`): for MD5 always, for SHA-384, whose `update` lacks the guard
  on `finalized`, until it is given more bytes.

### ChordMethod: the chord method

The loop of `chord()`.  A value of `f` is NaN or a sign and one of four sizes;
wherever rounding, underflow or overflow decides a comparison, the model takes
every outcome.  The next point is any number or NaN (`Secant`): in doubles even a
chord between opposite values of usual size may meet zero a digit outside the
interval, so nothing is stated of where the points lie.

- **`chord`**.  The kept values are those of the ends (`KeptValuesAreFresh`); for
  usual values the sign change is never lost, wherever rounding puts the points
  (`BracketKept`); whatever `f` does, "converged" means a small residual at the
  returned root (`ResultIsHonest`).  That the call returns needs no property: the
  rounds are counted, and `TypeOK` bounds the count by the code's.

### ExprParser, ExprSpelling: the polynomial of the Chord command

`evalExpr` as a machine: the position in the input, the C++ call stack and the
function that runs, over tokens.  A value is the expression that was evaluated,
each operation in parentheses of its own, so that precedence, associativity and
the place of a sign are what the properties speak of; the arithmetic is not
repeated.  `ExprSpelling` is the reference: the expressions by the number of
operations inside one another (`Spelled`), each with what it means, how it is
written with the parentheses that the usual conventions ask for and no others,
and whether it is *plain*: without a power after a sign or in an exponent.

- **`expr`**.  What was written is what is evaluated (`ParsesAsWritten`), for
  every plain expression of up to two operations inside one another.  Of any
  string of tokens, wrong ones included, everything that was read is in the
  result once and in its place (`NothingReadIsLost`): the parser accepts what is
  malformed, and this says what it makes of it.  The call stack is as deep as
  open parentheses and signs require, not as the text is long (`StackBounded`).
- **`expr_sign`** (violation).  `-x^1+1` is evaluated as `(-x)^1+1`.

### Suite: clients and server together

`Suite` puts `pd_client` processes (dialog, window with its tool tabs and its
administration tab, `ClientCore`) around the server.  It uses what the other
modules establish to be coarser than they are: a line is one message
(RequestChannel), a request is one step of the server, and the role of a session
is that of its account (Server's `SessionCoherent`).  What it adds is the user
interface over time.  A client has one request at a time and waits for it
(`call`), gives up on it (`gaveUp`) and stays connected, loses its connection
(`Lose`, `Drop`), or is closed and started again while its old requests are
still on the way (`Close`).  Nothing listens to `connectionLost`: a window
without a connection stays open, and only the dialog reconnects.  `Take` is
`request()` reading the first line there is and throwing away what else came
with it.  `toggleBlock` sends the opposite of the selected *row*, which is as old
as the last `LIST_USERS`, and always goes on to `refreshUsers`.

- **`suite`**.  As long as no request of its connection was given up, all that a
  client shows is true (`ShownIsTrue`): its window is that of the session the
  server has, "account created" means stored with this password and a refusal
  that the login is taken, each tab shows the result of its own command, and no
  button of the administration tab is refused.  Giving up one request ends this:
  the next one takes the late answer.  What remains true even then: the
  administration tab is shown only in a run whose user gave an administrator's
  credentials (`AdminTabIsEarned`), and accounts and sessions change only as
  `AccessControl` allows (`ActsWithinAccessControl`).  While nothing was given up,
  a click on a row that is out of date changes nothing, because the command sets
  a value and does not toggle (`StaleClickIsHarmless`).

## 4. Bounds, and why they are enough

| Run | Bounds | Why |
|---|---|---|
| `server_audit` | logins admin and ann, two passwords, two connections, the seven requests that write, four of them, one in flight for each connection, one failed statement; any number of crashes (the states are finite because only requests and faults grow the log) | blocking oneself, being blocked by the other, and coming back take at most four requests; no property relates more than two accounts or two connections; the constants are arbitrary in the proofs |
| `server_commands` | two connections, two requests in flight, every command | each command is its own action; two lines make a pipeline |
| `request_channel` | five requests, two connections | one timeout, a late reply, a second one behind it, a reconnect and a request after it |
| `cipher_tab` | texts and keys that hold each end of each alphabet, a code point at each boundary of a UTF-8 length, digits; two encryptions on top of each other | the cipher works letter by letter, the only carried state is the position in the key |
| `steg_tab` | covers around the sizes where `capacity()` changes, messages of 0 to 4 characters, two files, an index range of ten | the boundaries, a longer message below a shorter one, a message that ends with the range and one that goes beyond |
| `hash_stream` | blocks of 5 and 6 bytes to base 4, ten bytes | two blocks and every place in a block, with MD5's count of bits (two digits, as long as its length field) wrapping at eight bytes |
| `chord` | four points, every function from them to signs and sizes, three rounds | an end that moves twice, each on its side, and the last round |
| `expr` | every plain expression of two levels of operators and functions over `x` and `1`, every string of up to four tokens of nine | two operators next to each other decide precedence and associativity, a third shows what follows; four tokens hold every pair with an operand or a parenthesis on each side |
| `suite` | two clients, two connections, logins admin and ann, one tool, three clicks each, two mishaps | two windows, one with an out-of-date table; a lost connection and a restart, or a late answer and the request that takes it.  The constants are arbitrary in the proofs |

`Conns` is a symmetry set in `server_audit`, and `Clients` and `Conns` are in
`suite`; neither checks liveness.  `MaxRequests`, `MaxPipeline`, `MaxFaults`,
`MaxConns`, `MaxDepth`, `MaxBytes`, `MaxClicks`, `MaxMishaps` and `MaxIter` are the
only bounds; `MaxIter` is the code's (1000).  Runs whose configuration says
`CHECK_DEADLOCK FALSE` end when a bound is used up (`request_channel`, `suite`) or
when the call has returned (`chord`, `expr`).

## 5. Fairness

- `Server`: weak fairness of start-up, of the running handler and of `ReadyRead`
  of each connection.  The process has one Qt event loop, which runs a slot to
  its end and serves every socket with data; a handler waits for nobody.  There
  is none of clients, of crashes, or of a restart being successful.
- `RequestChannel`: weak fairness of `Timeout`, which is enabled in a wait that has
  a limit (the timer of `waitForReadyRead` expires) or has lost its connection
  (Qt reports it); of `Wait` and `ServerRead`, since TCP delivers what was sent as
  long as the connection lasts; and of `ServerLine`, since the server's event loop
  takes what has come.  There is none of connecting, of asking, or of connections
  lasting or breaking.  Without that of the server a wait that lost its limit
  would not end.
- `Suite`, `ChordMethod`, `ExprParser` and the tabs state none: their properties
  are about safety.

## 6. What is proved

TLAPS checks these for every set of logins, passwords, connections, requests,
texts, pictures, messages, inputs and functions and for every bound, from the
named assumptions in the modules, which TLC evaluates on its instances:
`DatabaseAssumption`, `ServerAssumption`, `ChannelAssumption`, `ChordAssumption`,
`SuiteAssumption`, `StegAssumption`, `TabAssumption`, `HashAssumption`,
`CipherAssumption` and `WrittenAssumption` say what the constants are.  Two say
what sizes do not occur.  `CounterAssumption`: no object is given so many bytes
that a counter narrower than the length field wraps (SHA-384 counts in 64 bits;
MD5's count may wrap, as its definition asks for).  `RoomAssumption`: no picture
holds so much that the text its box shows no longer fits the length field
(with the code's 32 bits, a picture of 11 gigabytes; what `extract` reads of one
beyond 4 GiB is another matter, and modelled).

Every safety property and every action property that holds in a run is proved,
for all values of the constants that the assumptions above allow; two theorems
have a hypothesis more, which says what a violated run shows to be necessary:
`Whole` (no yo, `cipher_tab_yo`) and `PlainExpressions` (`expr_sign`).

**ServerProofs**, about `Spec` of `Server`.  The inductive invariant is

    IInv == TypeOK /\ Serving /\ PendingInsert /\ PendingRow /\ SessionCoherent /\ AuditSound

`TypeOK` is not inductive: a log row is typed only because a handler runs for a
live connection (`Serving`) whose session, once authenticated, holds a login of
the table (`SessionCoherent`).  `PendingInsert` carries the check of REGISTER's
fields over to its second statement, `PendingRow` the existence of the accounts
over to the last one.  Seven lemmas say what each statement of `Database` does to
the tables (accounts are never removed, roles never change), so that each action
is one short step.  From it: `TypeCorrect`, `SessionsStayCoherent`, `LogIsSound`,
and the action properties `BlockingIsForAdmins` and `NoWayBackIn`.

`TheAdminIsSeeded` (the property `AdminSeededUnlessFault`) needs three facts at
once (`SeedInv`): the users table exists once its CREATE was executed, the account
exists once its INSERT was, and nobody else gets the login `admin` first, because
clients are only accepted after the second.  `ServerImplementsAccessControl`
shows that `Server` implements `AccessControl` under the mapping of
`AccessRefinement`; every action maps to one abstract step or to a stutter, with
`SessionCoherent` doing the work for SET_BLOCK.

About `AuditSpec` of `ServerAudit`, all six properties of its log and its answers
follow from

    AuditInv == IInv /\ RegisterInv /\ ReplayInv /\ LoginInv /\ PairInv
                /\ AckedIsDurable /\ BeforeInv

A step does one of eight things to the tables, the log and the row that waits to
be written (`StepKinds`), and each part of the invariant is shown to survive each
of them.  The properties hold only between handlers, because a handler changes
the table before it writes the row; the invariant therefore treats the row that
waits as if it were already the last of the log, and when the row is lost its
accounts become `gapped`.  `PairInv` counts: the disconnect rows of an account and
its open sessions whose login row is written are together no more than its login
rows.  For `ErrorMeansNoEffect` the invariant `BeforeInv` says that a handler has
changed nothing yet where it can still answer "error" (`HandlerEffects`).

**ChannelProofs**, about `Spec` of `RequestChannel`: `TheServerSeesWholeLines`,
`TheRepliesAreInOrder` and `TheLagIsBounded`, the safety properties of the channel.
The invariant looks at all that is under way as one stream, the replies before
the requests still to be answered (`Way`): a read only moves bytes along it, and
an answer turns a line of the second half into one of the first, so the stream
stays the same in every step but those of the client.  Its ids ascend; what the
server has not taken out consists of whole lines (`WholeLines`), which is why the
first newline ends a request wherever TCP has cut; and the oldest id under way is
behind the present request by at most the requests of the connection that were
given up, which is the lag of the next reply before it is returned.

**SuiteProofs**, about `Spec` of `Suite`.  `Served` says once what a command does
with one line: the answer it gives is truthful (`Truthful`), accounts keep their
role and password (`KeepsAccounts`), and a session changes only in LOGIN on its
connection.  Each command is shown to be `Served`; everything else uses only
that.  `TypeCorrect` follows, `ClientsActWithinAccessControl` (each command is a
step of `AccessControl` or a stutter, and nothing else touches accounts), and
`TheAdminTabIsEarned`, whose invariant adds that an answer on its way to a client
that says "admin" is for an administrator who proved it in this run
(`AnswersEarned`): it is needed because the answer can be taken long after it
was given, by another request.

`WhatIsShownIsTrue` and `StaleClicksAreHarmless` rest on an inductive invariant of
their own (TLC agrees that it holds in `suite`):

    TruthInv == TypeOK /\ LinksOwn /\ DeadQuiet /\ RowsKnown
                /\ \A w \in Clients : Asked(w) /\ Synced(w) /\ Shows(w)

`Synced` is the heart: on a connection on which nothing was given up, request and
answer take turns, so the first line there is *is* the answer, and it fits the
pending request.  `LinksOwn` keeps other clients away from it, `DeadQuiet` old
lines from a connection that is used again.  `Asked` ties the pending request to
the screen it was sent from and, for SET_BLOCK, to the row it was computed from;
with `RowsKnown` (a row is of an account that exists) no button of the
administration tab can be refused.  A client is disturbed by the steps of others
only through the accounts (`ClientKept`), which leaves one lemma for each action.

**ChordProofs**, about `Spec` of `ChordMethod`: `TheKeptValuesAreFresh`,
`TheBracketIsKept` and `TheResultIsHonest`, from an invariant that adds to the
properties that the call starts with the values of its ends, that the ends stay
usual, and that no point of the loop so far was small.  Nothing is assumed of
where the next point lies; one that is NaN stays an end from then on (`SecantNaN`).

**HashProofs**, about `Spec` of `HashStream`: `WholeStream`, `ReferenceDigest` and
`FinalDigest`, for blocks, length fields and counters of any width and any cut of
the message into calls, from

    HashInv == HashTypes /\ WhileOpen /\ WhileClosing /\ OnceClosed

What was absorbed, what is in the buffer and what is still to be copied are
together one sequence (`OnTheWay`): the message while it is fed, the message with
its marker and zeros inside `digest()`.  The copy rounds move the cuts and keep
the sequence.  `WhileClosing` says why the length lands where the reference has
it: the marker and the zeros are as many as it takes for the length to end a
block, and within one block there is only one such number.

**StegProofs**, about `Spec` of `StegTab`: `LastMessage`, `LowBits` and
`ExactCapacity`, for every width of character, pixel, length field and index.  The
invariant is that the two properties hold with the types
(`StegInv == StegTypes /\ LastMessageIsRead /\ OnlyLowBitsChange`); the work is in
the functions.  A number is the sum of the bits it was cut into (`Number` after
`Embedded`, by induction on the bits), so `extract` after `embed` is the message
whatever the low bits were before, as long as the message ends within the index
range (`PositionIs`); embedding changes at most the lowest bit of a
byte, and does so again and again without reaching a second one.

**CipherProofs**, about `Spec` of `CipherTab`: `Shape`, `BackButYo` and `Whole`.

    CipherInv == CipherTypes /\ Image(vIn, inDepth) /\ Image(vOut, outDepth)

`Image(t, d)` says that `t` is the text typed in with every letter moved `d` times
in its own alphabet by its own letter of the key; equal depths in both directions
cancel, on every path.  It holds for letters modulo their place in the alphabet,
which is all the cipher looks at, and that is the exact reason of the finding
about yo: yo has the place of another letter.  `BackButYo` therefore needs no
hypothesis and says that every other code point comes back; `Whole` is
`RoundTrip` for texts that hold no yo (`NoYo`).  That letters meet the same letter of
the key again is `SameLettersBefore`.  Between client and server the text is
bytes: `DecodeEncode` is that decoding undoes encoding for every sequence of code
points up to U+10FFFF.

**ExprProofs**, about `Spec` of `ExprParser`: `BoundedStack`, `NothingIsMissing`,
`LinearTime` and `PlainExpressions`, for any string of tokens.  The first follows from

    ExprInv == ExprTypes /\ Entered /\ Accounted /\ OwnParens

A pending call is at most as deep as the parentheses and signs pending below it
allow (`Deep`, part of `ExprTypes`), four functions for each parenthesis and one
for each sign; the pending ones are tokens that were read and, for parentheses,
not closed yet (`Accounted`).  `Entered` says which
function may be called by whom, `OwnParens` that the parenthesis of a function is
read with its name, so that none is counted twice.

For the others the parser is a function of its configuration, that is, of
position, stack, function and value: `NextIsAfter` is that every step of `Next`
leads to `After(input, Now)`.

`PlainExpressions` has the hypothesis `PlainlyWritten`: the texts somebody meant
something by are plain expressions, of any size (those of the run `expr` are,
those of `expr_sign` are not).  `Reaches(text, c, d)` says that the parser comes
from c to d, and can come to no other end (`OnTheWay`).  What a function of the
parser owes is `Returns`: entered in front of w, with any stack, any value and
any text behind w that cannot continue it, it comes back behind w with the value
meant, and leaves the stack as it was.  The loops need more, since they return
only when nothing of theirs follows; `Gathers` therefore speaks of the moment
when w has been read and its value is about to be joined.  Each way to write an
expression is then one lemma (`PowerIsPow`, `ProductIsTerm`, `SumIsExpr`,
`NegationIsUnary`, `CallIsUnary`, ...), which rests on those of its parts, and
`SpelledReadable` puts them together by induction on the levels of `Spelled`.
What plain excludes is excluded where the proof needs it: in `PowerIsPow`, whose
base and exponent are what parseUnary returns.  The invariant is that the parser
is on its way to what is meant (`Underway`).

`NothingIsMissing` needs no hypothesis on the text.  Its invariant is

    NothingLostYet: what was read before i = what the pending calls remember, the
                    oldest first, with the value behind it if a call has returned

with parentheses and plus signs in front of operands left out on both sides.  An
operator remembers the operand on its left, a minus sign and a function's name
themselves, everything else nothing (`Spoken`).  That a plus is a sign exactly
when it is in front of an operand is part of the invariant (`Kept`): a function
is entered where an operand is expected, and returns where none is.  A step moves
a token from the text to the call that takes it (`CallKept`), or what a call
remembers into the value (`ReturnKept`, by `Settles`).

`LinearTime`: every step leaves fewer steps to take (`StepsLeft`, at most eight
for each token that is left, one for each pending call and as many as the
function that runs needs to reach a token).  A call of `evalExpr` that goes on
running therefore ends, with a value or an exception, after a number of steps that
is linear in the tokens.  No run checks it and it needs no fairness; `ReadsWithin`,
that the position never passes the end of the text, is part of it.

*Induction.*  The induction theorems of the library take an operator and cannot
be used by the provers here.  These proofs do without: `Least` (a set of naturals
has a least element) follows from the library's `WFMin`, and `Induction` is stated
with a set.  A recursive function of a LET is first shown to exist, by the same
induction, and then to be what its CHOOSE chooses.

Only model-checked: what holds under fairness (`EveryLineAnswered`,
`RequestReturns`), since neither ENABLED nor liveness is in reach of the provers
used here.

## 7. Findings

| Run | What the code does |
|---|---|
| `request_channel_id` | a late reply answers the next request; the wiki says `id` is there for correlation (docs/wiki/Protocol.md:4) |
| `cipher_tab_yo` | yo is enciphered to a letter that deciphers to another; test case TC-007 expects the original of any text |
| `expr_sign` | a sign in front of a power ends up inside it, so a polynomial whose highest coefficient is -1 is evaluated as another one; chord.h:35 promises polynomials |

`seedAdmin` ignores the result of its INSERT, and a handler killed before its log
row leaves an account without one; both are states of `server_audit`, bounded by
`faults = 0` in `AdminSeededUnlessFault` and by `gapped` in the properties of the
log.

Three more, on which no doc speaks, so that there is nothing for a run to refute:
`request` can lose its deadline between its two looks at the clock
(clientcore.cpp:33-34), a message beyond the first 4 GiB of a picture is not read
back (steganography.cpp:42), and the parser takes one exponent only, so that of
`x^1^1` it evaluates `x^1` and ignores the rest without a word (chord.cpp:40).
The expressions of `ParsesAsWritten` have no power in an exponent.

## 8. Not modelled

Timestamps, the text of log details and error messages, the order and limit of
listings; JSON beyond "one message or not"; the compression functions of the
hashes (fixed arithmetic with test vectors in `tests/`); the conversion of digits
to a double, and functions of the C library; pixels beyond their bytes and image
formats; command-line options; the build files and the unit tests themselves.
`ClientCore::logout` is called by nothing.  `Suite` has no failing SQL statements
(they are in `Server`).  Two hazards have no property: `buffer_` grows without
limit while a client sends no newline, a question of memory, and STEG_CAP
converts a negative size to a huge one, about which no doc says what it should
answer and which no client sends.

## 9. Plan

Done, in this order, because what comes later trusts what comes before: accounts,
rights and the log (Database, Server, ServerAudit, AccessControl), the channel,
the algorithms, then the parser and the clients with their windows (Suite).

Then the proofs: those of the server, the channel, the clients and the chord
method first, then the algorithms, whose proofs are inductions over data.

Last the parser, for expressions of every size.  What is not proved is liveness.
What is not modelled is section 8.
