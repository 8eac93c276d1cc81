---------------------------- MODULE ExprSpelling ----------------------------
(***************************************************************************)
(* How expressions are written, against which the parser is checked: each  *)
(* with the parentheses that the usual conventions require, and no others. *)
(* A sign binds less than a power, and more than a product.                *)
(***************************************************************************)
EXTENDS ExprParser

\* How an expression is written, what is meant by it, and how much it binds.
\* parsePow takes one power, and its base with the sign in front of it: a power
\* after a sign (see SignedPowers) or in an exponent is not read as written, and
\* an expression is plain when it has none.
Expression(written, means, binds, plain) ==
    [written |-> written, means |-> means, binds |-> binds, plain |-> plain]

\* How e is written where an expression has to bind that much.
As(e, least) == IF e.binds >= least THEN e.written ELSE Enclosed(e.written)

Atom(w) == Expression(<<w>>, <<w>>, 5, TRUE)

\* Of operators that bind as much, the left one is applied first.
Binding == [op \in Operators.expr \cup Operators.term |-> IF op \in Operators.expr THEN 1 ELSE 2]

Binary(op, e, f) ==
    Expression(As(e, Binding[op]) \o <<op>> \o As(f, Binding[op] + 1),
               Enclosed(e.means \o <<op>> \o f.means), Binding[op], e.plain /\ f.plain)

Negated(e) ==
    Expression(<<"-">> \o As(e, 3), Enclosed(<<"-">> \o e.means), 3, e.plain /\ e.binds # 4)

Power(e, f) ==
    Expression(As(e, 5) \o <<"^">> \o As(f, 3), Enclosed(e.means \o <<"^">> \o f.means), 4,
               e.plain /\ f.plain /\ f.binds # 4)

Call(name, e) ==
    Expression(<<name>> \o Enclosed(e.written), <<name>> \o Enclosed(e.means), 5, e.plain)

\* The expressions with one operation more.
Grown(S) ==
    UNION {{Binary(op, e, f) : op \in DOMAIN Binding, e \in S, f \in S},
           {Power(e, f) : e \in S, f \in S}, {Negated(e) : e \in S},
           {Call(name, e) : name \in Functions, e \in S}}

\* Those with at most n operations inside one another.
Spelled(n) ==
    LET nested[k \in 0..n] == IF k = 0 THEN {Atom(w) : w \in Atoms}
                              ELSE nested[k - 1] \cup Grown(nested[k - 1])
    IN  nested[n]

\* The input that somebody meant anything by is a plain expression.
PlainlyWritten ==
    \A w \in Written : w[2] # Nothing =>
        \E n \in Nat : \E e \in Spelled(n) : e.plain /\ w[1] = e.written /\ w[2] = e.means
=============================================================================
