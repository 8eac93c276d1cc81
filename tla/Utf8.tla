-------------------------------- MODULE Utf8 --------------------------------
(***************************************************************************)
(* utf8_decode and utf8_encode of core/src/vigenere.cpp, between byte      *)
(* strings and sequences of code points.                                   *)
(***************************************************************************)
EXTENDS Integers, SequencesExt

Byte == 0..255

MaxUnicode == 1114111   \* U+10FFFF

Unicode == 0..MaxUnicode

\* How many bytes a sequence has, by its first byte; a byte that starts none
\* (a stray continuation byte, or F8 and above) stands for itself.
SeqLen(c) == IF c \div 32 = 6 THEN 2 ELSE IF c \div 16 = 14 THEN 3
             ELSE IF c \div 8 = 30 THEN 4 ELSE 1

\* The bits of the first byte that belong to the code point.
Lead(c) == CASE SeqLen(c) = 2 -> c % 32 [] SeqLen(c) = 3 -> c % 16
             [] SeqLen(c) = 4 -> c % 8  [] OTHER -> c

\* A sequence that the string breaks off is decoded from the bytes there are.
CodePoint(s, i) ==
    LET n == Min({SeqLen(s[i]) - 1, Len(s) - i})
        cp[k \in 0..n] == IF k = 0 THEN Lead(s[i]) ELSE cp[k - 1] * 64 + (s[i + k] % 64)
    IN  cp[n]

utf8_decode(s) ==
    LET from[i \in 1..(Len(s) + 4)] ==
            IF i > Len(s) THEN <<>> ELSE <<CodePoint(s, i)>> \o from[i + SeqLen(s[i])]
    IN  from[1]

\* A continuation byte with the last six bits of n.
Low(n) == 128 + (n % 64)

\* Mutant: U+0800 still takes two bytes.
EncodeWideTwoBytes(cp) ==
    IF cp < 128 THEN <<cp>>
    ELSE IF cp <= 2048 THEN <<192 + cp \div 64, Low(cp)>>
    ELSE IF cp < 65536 THEN <<224 + cp \div 4096, Low(cp \div 64), Low(cp)>>
    ELSE <<240 + cp \div 262144, Low(cp \div 4096), Low(cp \div 64), Low(cp)>>

EncodeOne(cp) ==
    IF cp < 128 THEN <<cp>>
    ELSE IF cp < 2048 THEN <<192 + cp \div 64, Low(cp)>>
    ELSE IF cp < 65536 THEN <<224 + cp \div 4096, Low(cp \div 64), Low(cp)>>
    ELSE <<240 + cp \div 262144, Low(cp \div 4096), Low(cp \div 64), Low(cp)>>

utf8_encode(cps) == FlattenSeq([i \in 1..Len(cps) |-> EncodeOne(cps[i])])
=============================================================================
