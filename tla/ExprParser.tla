----------------------------- MODULE ExprParser -----------------------------
(***************************************************************************)
(* evalExpr (core/src/chord.cpp): the recursive descent parser behind the  *)
(* Chord command.  The machine has the parser's control: the position i,   *)
(* the C++ call stack, with one frame for each call that waits for another *)
(* to return, and the function that runs.  Characters are grouped into     *)
(* tokens; a value is the expression that was evaluated, each operation in *)
(* parentheses of its own, since what matters is which operation is        *)
(* applied to what.                                                        *)
(***************************************************************************)
EXTENDS Naturals, SequencesExt

CONSTANT Written   \* pairs of a token sequence and the value it is written for,
                   \* Nothing where nobody meant anything by it

ASSUME WrittenAssumption == \A w \in Written : w[1] \in Seq(STRING)

VARIABLES
    input,   \* s
    meant,   \* the value that input was written for
    i,       \* i, counted from 1
    stack,   \* the pending calls, the newest last
    fn,      \* the function being entered, or what became of the last one
    value    \* what it returned

vars == <<input, meant, i, stack, fn, value>>

-----------------------------------------------------------------------------
Functions == {"sin", "cos", "exp", "log", "sqrt"}
Atoms == {"x", "1"}
Signs == {"+", "-"}

\* parseExpr calls parseTerm for its operands, and so on.
Operand == [expr |-> "term", term |-> "pow", pow |-> "unary"]

Operators == [expr |-> {"+", "-"}, term |-> {"*", "/"}, pow |-> {"^"}]

Nothing == <<>>

Frame(in, op, left) == [in |-> in, op |-> op, left |-> left]

\* skip() and the character it stops at.
tok == IF i <= Len(input) THEN input[i] ELSE "end"

Push(frame) == stack' = Append(stack, frame)

Top == stack[Len(stack)]

Pop == SubSeq(stack, 1, Len(stack) - 1)

Init ==
    /\ \E w \in Written : input = w[1] /\ meant = w[2]
    /\ i = 1 /\ stack = <<>> /\ fn = "expr" /\ value = Nothing

-----------------------------------------------------------------------------
\* parseExpr, parseTerm and parsePow start with their first operand.
Descend ==
    /\ fn \in DOMAIN Operand
    /\ Push(Frame(fn, "", Nothing)) /\ fn' = Operand[fn]
    /\ UNCHANGED <<input, meant, i, value>>

\* parseUnary calls itself after a sign.
parseUnary ==
    /\ fn = "unary" /\ tok \in Signs
    /\ i' = i + 1 /\ Push(Frame("sign", tok, Nothing))
    /\ UNCHANGED <<input, meant, fn, value>>

\* A function's name need not be followed by a parenthesis.
parseAtom ==
    /\ fn = "unary" /\ tok \notin Signs
    /\ \/ /\ tok = "(" \/ tok \in Functions
          /\ i' = IF tok \in Functions /\ i < Len(input) /\ input[i + 1] = "("
                  THEN i + 2 ELSE i + 1
          /\ Push(Frame("parens", tok, Nothing)) /\ fn' = "expr"
          /\ UNCHANGED value
       \/ /\ tok \in Atoms
          /\ i' = i + 1 /\ value' = <<tok>> /\ fn' = "return"
          /\ UNCHANGED stack
       \/ /\ tok \notin Atoms \cup Functions \cup {"("}
          /\ fn' = "threw"
          /\ UNCHANGED <<i, stack, value>>
    /\ UNCHANGED <<input, meant>>

Enclosed(s) == <<"(">> \o s \o <<")">>

Joined == IF Top.op = "" THEN value ELSE Enclosed(Top.left \o <<Top.op>> \o value)

\* Mutant: what comes after an operator is parsed by the function itself.
ContinueToTheRight ==
    /\ fn = "return" /\ stack # <<>> /\ Top.in \in DOMAIN Operand
    /\ IF tok \in Operators[Top.in] /\ (Top.in = "pow" => Top.op = "")
       THEN /\ i' = i + 1 /\ fn' = Top.in
            /\ stack' = Append(Pop, Frame(Top.in, tok, Joined))
            /\ UNCHANGED value
       ELSE /\ stack' = Pop /\ value' = Joined
            /\ UNCHANGED <<i, fn>>
    /\ UNCHANGED <<input, meant>>

\* An operand has returned: the loops of parseExpr and parseTerm go round while
\* an operator of theirs follows; parsePow looks for one operator only.
Continue ==
    /\ fn = "return" /\ stack # <<>> /\ Top.in \in DOMAIN Operand
    /\ IF tok \in Operators[Top.in] /\ (Top.in = "pow" => Top.op = "")
       THEN /\ i' = i + 1 /\ fn' = Operand[Top.in]
            /\ stack' = Append(Pop, Frame(Top.in, tok, Joined))
            /\ UNCHANGED value
       ELSE /\ stack' = Pop /\ value' = Joined
            /\ UNCHANGED <<i, fn>>
    /\ UNCHANGED <<input, meant>>

\* Mutant: the sign is forgotten when the operand returns.
ReturnUnsigned ==
    /\ fn = "return" /\ stack # <<>> /\ Top.in = "sign"
    /\ stack' = Pop
    /\ UNCHANGED <<input, meant, i, fn, value>>

ReturnSign ==
    /\ fn = "return" /\ stack # <<>> /\ Top.in = "sign"
    /\ stack' = Pop
    /\ value' = IF Top.op = "-" THEN Enclosed(<<"-">> \o value) ELSE value
    /\ UNCHANGED <<input, meant, i, fn>>

\* The result of match(')') is not looked at.
ReturnParens ==
    /\ fn = "return" /\ stack # <<>> /\ Top.in = "parens"
    /\ stack' = Pop
    /\ i' = IF tok = ")" THEN i + 1 ELSE i
    /\ value' = IF Top.op = "(" THEN value ELSE <<Top.op>> \o Enclosed(value)
    /\ UNCHANGED <<input, meant, fn>>

\* evalExpr returns the value; it does not ask whether i has reached the end.
evalExpr ==
    /\ fn = "return" /\ stack = <<>>
    /\ fn' = "done"
    /\ UNCHANGED <<input, meant, i, stack, value>>

Next ==
    \/ Descend \/ parseUnary \/ parseAtom
    \/ Continue \/ ReturnSign \/ ReturnParens \/ evalExpr

Spec == Init /\ [][Next]_vars

-----------------------------------------------------------------------------
(* Properties.                                                             *)

\* Token k of the input stands where an operand is expected.
InFront(k) == k = 1 \/ input[k - 1] \notin Atoms \cup {")"}

Consumed == 1..(i - 1)

SignsRead == {k \in Consumed : input[k] \in Signs /\ InFront(k)}

\* A function's own parenthesis opens nothing more.
Opened ==
    {k \in Consumed : \/ input[k] \in Functions
                      \/ input[k] = "(" /\ (k = 1 \/ input[k - 1] \notin Functions)}

Closed == {k \in Consumed : input[k] = ")"}

\* The recursion is as deep as the parentheses now open and the signs read
\* require, however many operators there are: three calls for each level of
\* parentheses, one for the parentheses themselves and one for each sign.
StackBounded ==
    Len(stack) <= 3 + 4 * (Cardinality(Opened) - Cardinality(Closed)) + Cardinality(SignsRead)

\* What a text was written for is what is evaluated (core/include/chord.h:35).
ParsesAsWritten == fn \in {"done", "threw"} /\ meant # Nothing => fn = "done" /\ value = meant

\* Parentheses, and plus signs that are not operators, are not in what is evaluated.
Silent(k) == input[k] \in {"(", ")"} \/ (input[k] = "+" /\ InFront(k))

Bare(s) == FlattenSeq([k \in DOMAIN s |-> IF s[k] \in {"(", ")"} THEN <<>> ELSE <<s[k]>>])

\* Whatever the input, everything that was read on the way to a result, but for
\* parentheses and plus signs, is in what was evaluated, once and in its place.
NothingReadIsLost ==
    fn = "done" =>
        FlattenSeq([k \in Consumed |-> IF Silent(k) THEN <<>> ELSE <<input[k]>>]) = Bare(value)
=============================================================================
