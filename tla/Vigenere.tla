------------------------------ MODULE Vigenere ------------------------------
(***************************************************************************)
(* Vigenere::transform (core/src/vigenere.cpp) on code points.             *)
(*                                                                         *)
(* The C++ code computes in uint32_t.  Every index is reduced modulo the   *)
(* size of an alphabet, 26 or 32, so it is enough to know what a           *)
(* difference below zero, which wraps to 2^32 more, is modulo that size.   *)
(***************************************************************************)
EXTENDS Integers, Sequences, FiniteSets

UpperYo == 1025   \* U+0401
LowerYo == 1105   \* U+0451

\* [base, size] of the alphabet a letter belongs to, size 0 for no letter.
classify(cp) ==
    IF cp \in 65..90 THEN [base |-> 65, size |-> 26]
    ELSE IF cp \in 97..122 THEN [base |-> 97, size |-> 26]
    ELSE IF cp \in 1040..1071 \/ cp = UpperYo THEN [base |-> 1040, size |-> 32]
    ELSE IF cp \in 1072..1103 \/ cp = LowerYo THEN [base |-> 1072, size |-> 32]
    ELSE [base |-> 0, size |-> 0]

Letter(cp) == classify(cp).size # 0

\* 2^32 modulo size: 22 for the Latin alphabet, 0 for the Cyrillic one.
Wrap(size) == ((65536 % size) * (65536 % size)) % size

\* (uint32_t)(a - b) % size
Diff(a, b, size) == IF a >= b THEN (a - b) % size ELSE (Wrap(size) + (a - b)) % size

\* The shift a key letter stands for: its place in its own alphabet.
Shift(kcp, size) == Diff(kcp, classify(kcp).base, size)

\* Mutant: the decryption subtracts without adding size first.
SubstituteNoWrap(cp, kcp, enc) ==
    LET info == classify(cp)
        idx == Diff(cp, info.base, info.size)
    IN  info.base + IF enc THEN (idx + Shift(kcp, info.size)) % info.size
                           ELSE Diff(idx, Shift(kcp, info.size), info.size)

\* One letter under one key letter.
Substitute(cp, kcp, enc) ==
    LET info == classify(cp)
        idx == Diff(cp, info.base, info.size)
        shift == Shift(kcp, info.size)
    IN  info.base + IF enc THEN (idx + shift) % info.size
                           ELSE (idx + info.size - shift) % info.size

\* Mutant: decryption and encryption disagree on what uses up the key, because
\* a letter is recognised by the lower half of an alphabet only.
LowerLettersBefore(text, i) ==
    Cardinality({j \in 1..(i - 1) : Letter(text[j]) /\ text[j] < classify(text[j]).base + 13})

\* ki when the i-th code point is reached: only letters use up the key.
LettersBefore(text, i) == Cardinality({j \in 1..(i - 1) : Letter(text[j])})

\* The letters of the key, in their order.
keyLetters(key) ==
    LET kletters[n \in 0..Len(key)] ==
            IF n = 0 THEN <<>>
            ELSE IF Letter(key[n]) THEN Append(kletters[n - 1], key[n]) ELSE kletters[n - 1]
    IN  kletters[Len(key)]

\* transform() once the key is known to have letters, kletters.
transform(text, kletters, enc) ==
    [i \in 1..Len(text) |->
        IF Letter(text[i])
        THEN Substitute(text[i], kletters[(LettersBefore(text, i) % Len(kletters)) + 1], enc)
        ELSE text[i]]
=============================================================================
