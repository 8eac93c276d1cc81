----------------------------- MODULE CipherTab ------------------------------
(***************************************************************************)
(* The cipher tab of the client over the VIGENERE command: onVigenereEnc   *)
(* and onVigenereDec (client/src/mainwindow.cpp) send the input and the    *)
(* key, cmdVigenere (server/src/clienthandler.cpp) runs the cipher on the  *)
(* UTF-8 bytes of both, and the answer becomes the output.  Between two    *)
(* requests the user copies the output to the input, as test case TC-007   *)
(* does, any number of times and in any order.                             *)
(***************************************************************************)
EXTENDS Vigenere, Utf8

CONSTANTS
    Texts,    \* the texts typed in, as code points
    Keys,     \* the keys typed in
    MaxDepth  \* bound on the encryptions applied on top of each other

\* What can be typed is Unicode.
ASSUME CipherAssumption == Texts \cup Keys \subseteq Seq(Unicode) /\ MaxDepth \in Nat

VARIABLES
    plain,    \* the text typed in at first
    vIn, vOut, vKey,
    inDepth, outDepth  \* encryptions less decryptions between plain and vIn, vOut

vars == <<plain, vIn, vOut, vKey, inDepth, outDepth>>

Init ==
    /\ plain \in Texts /\ vKey \in Keys
    /\ vIn = plain /\ inDepth = 0
    /\ vOut = plain /\ outDepth = 0

\* cmdVigenere: an empty key, and a key without letters, are errors.
cmdVigenere(text, key, enc, out) ==
    LET kletters == keyLetters(utf8_decode(utf8_encode(key)))
        cps == utf8_decode(utf8_encode(text))
    IN  kletters # <<>> /\ out = utf8_decode(utf8_encode(transform(cps, kletters, enc)))

\* An error is shown in a box and the output stays as it was.
onVigenere(enc, depth) ==
    /\ depth \in -MaxDepth..MaxDepth
    /\ cmdVigenere(vIn, vKey, enc, vOut') /\ outDepth' = depth
    /\ UNCHANGED <<plain, vIn, vKey, inDepth>>

onVigenereEnc == onVigenere(TRUE, inDepth + 1)

onVigenereDec == onVigenere(FALSE, inDepth - 1)

Copy ==
    /\ vIn' = vOut /\ inDepth' = outDepth
    /\ UNCHANGED <<plain, vOut, vKey, outDepth>>

Next == onVigenereEnc \/ onVigenereDec \/ Copy

Spec == Init /\ [][Next]_vars

-----------------------------------------------------------------------------
(* Properties.                                                             *)

\* Whatever path of encryptions, decryptions and copies led there, a text under
\* as many of the one as of the other is the text typed in.
RoundTrip ==
    /\ inDepth = 0 => vIn = plain
    /\ outDepth = 0 => vOut = plain

\* The cipher keeps every non-letter in its place, and every letter in its
\* alphabet and case (core/include/vigenere.h:12).
ShapeKept ==
    /\ Len(vOut) = Len(plain)
    /\ \A i \in 1..Len(plain) :
          IF Letter(plain[i]) THEN classify(vOut[i]) = classify(plain[i])
          ELSE vOut[i] = plain[i]
=============================================================================
