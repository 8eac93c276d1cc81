---------------------------- MODULE MCExprParser ----------------------------
(* TLC instances of ExprSpelling.                                          *)
EXTENDS ExprSpelling

AsMeant(S) == {<<e.written, e.means>> : e \in S}

\* Anything that can be typed, up to four tokens; "?" stands for what starts
\* no token.
Typed ==
    UNION {{<<s, Nothing>> : s \in [1..n -> {"x", "+", "-", "*", "^", "(", ")", "sin", "?"}]} : n \in 0..4}

AnyInput == AsMeant({e \in Spelled(2) : e.plain}) \cup Typed

\* Polynomials in x, the highest power of some with the coefficient -1.
SignedPowers ==
    LET power == Power(Atom("x"), Atom("1"))
        terms == {power, Negated(power), Binary("*", Atom("1"), power)}
    IN  AsMeant({Binary(op, e, Atom(w)) : op \in Signs, e \in terms, w \in Atoms})
=============================================================================
