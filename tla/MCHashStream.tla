---------------------------- MODULE MCHashStream ----------------------------
(* Both classes at widths of a few bytes.  The counter of MD5 wraps at     *)
(* eight bytes here, that of SHA-384 not within reach, as in the code.     *)
EXTENDS HashStream

ToyMd5 == [block |-> 5, len |-> 2, count |-> 2, byteBits |-> 2,
           bigEndian |-> FALSE, guarded |-> TRUE]

ToySha384 == [block |-> 6, len |-> 4, count |-> 3, byteBits |-> 2,
              bigEndian |-> TRUE, guarded |-> FALSE]

ToyAlgorithms == {ToyMd5, ToySha384}
=============================================================================
