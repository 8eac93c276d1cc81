--------------------------- MODULE ServerRequests ---------------------------
(* Which requests the clients send in which run of TLC.                    *)
EXTENDS Server

Ask(cmd) == [cmd |-> cmd, login |-> "", password |-> "", blocked |-> FALSE]
Credentials(cmd, l, p) == [cmd |-> cmd, login |-> l, password |-> p, blocked |-> FALSE]
SetBlock(l, b) == [cmd |-> "SET_BLOCK", login |-> l, password |-> "", blocked |-> b]

\* Every command, with the credentials that are refused.
EveryRequest ==
    {Ask(cmd) : cmd \in Commands}
    \cup {Credentials(cmd, "ann", "pw") : cmd \in {"REGISTER", "LOGIN"}}
    \cup {Credentials("LOGIN", "admin", p) : p \in Passwords}
    \cup {SetBlock("admin", TRUE), SetBlock("ann", TRUE)}

\* The requests that write to the tables: what it takes to register an account
\* twice, to block it, to lock the administrator out, and to try to get back in.
WritingRequests ==
    {Credentials("REGISTER", "ann", p) : p \in {"pw", "admin"}}
    \cup {Credentials("REGISTER", "admin", "pw")}
    \cup {Credentials("LOGIN", "ann", "pw"), Credentials("LOGIN", "admin", "admin")}
    \cup {SetBlock("admin", TRUE), SetBlock("admin", FALSE)}
=============================================================================
