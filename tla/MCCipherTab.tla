---------------------------- MODULE MCCipherTab -----------------------------
(* TLC instances of CipherTab.  Letters at the ends of both alphabets and   *)
(* cases, code points at the boundaries of the UTF-8 lengths.               *)
EXTENDS CipherTab

Letters == {65, 90, 97, 122, 1040, 1071, 1072, 1103}

Others == {32, 127, 128, 2047, 2048, 65535, 65536, 1114111}

TextsNoYo ==
    SeqOf({65, 90, 122, 1040, 1103, 32, 2048}, 2)
    \cup [1..1 -> Letters \cup Others]
    \cup [1..4 -> {90, 1072, 32}]

TextsYo == [1..1 -> {UpperYo, LowerYo, 1045}]

KeysMixed == SeqOf({66, 122, 1071, UpperYo, LowerYo, 49}, 2)
=============================================================================
