----------------------------- MODULE MCStegTab ------------------------------
(* TLC instances of StegTab, with a length field of 4 bits, bytes of 2 bits *)
(* and pictures around every size where something changes.                  *)
EXTENDS StegTab

Picture(n, p) == [i \in 1..n |-> p]

\* A picture too small for the header, one for the header only, one byte, one
\* byte and a bit over, and three bytes with some length already in the header;
\* one with room for a fourth byte, which the index of extract() does not reach.
CoversSmall == {Picture(3, 3), Picture(4, 2), Picture(6, 3), Picture(7, 1),
                <<2, 3, 2, 0, 1, 0, 3, 3, 2, 1>>, <<1, 0, 3, 2, 2, 1, 3, 0, 1, 2, 3, 0>>}

MessagesUpTo4 == {<<>>, <<2>>, <<0, 2>>, <<2, 0, 1>>, <<1, 2, 0, 1>>}

\* Two bytes stand for the three of U+FFFD.
TwoBytes == <<1, 2>>
=============================================================================
