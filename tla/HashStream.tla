----------------------------- MODULE HashStream -----------------------------
(***************************************************************************)
(* The buffering and padding of core/src/md5.cpp and core/src/sha384.cpp,  *)
(* which are one algorithm with other widths.  The compression function    *)
(* transform() is abstracted to the blocks it was given, in order: two     *)
(* digests are equal when the same bytes were absorbed.  Bytes are digits  *)
(* to base 2^byteBits, so that the counter of bits wraps within reach.     *)
(***************************************************************************)
EXTENDS Powers, Sequences

CONSTANTS
    Algorithms, \* records of the widths of MD5 and of SHA-384, see Algorithm
    Bytes,      \* the bytes of messages
    MaxBytes    \* bound: bytes handed to one object

\* The two classes: block and len are 64 and 8 for MD5, 128 and 16 for SHA-384;
\* count is 8 and byteBits is 8 for both; the length of SHA-384 is big-endian;
\* only MD5 has the guard of update() on finalized.
Algorithm == [block: Nat \ {0}, len: Nat \ {0}, count: Nat \ {0}, byteBits: Nat \ {0},
              bigEndian: BOOLEAN, guarded: BOOLEAN]

ASSUME HashAssumption ==
    /\ Algorithms \subseteq Algorithm /\ MaxBytes \in Nat
    /\ \A a \in Algorithms : /\ a.count <= a.len /\ a.len < a.block
                             /\ Bytes \subseteq 0..(Power(2, a.byteBits) - 1)

\* A counter narrower than the field of the length (64 bits of SHA-384's 128)
\* does not wrap on what one object is given.
ASSUME CounterAssumption ==
    \A a \in Algorithms :
        a.count < a.len => MaxBytes * a.byteBits < Power(Power(2, a.byteBits), a.count)

VARIABLES
    alg,       \* the class of the object
    absorbed,  \* what H stands for: the bytes given to transform()
    buf,       \* buf[0..bufLen)
    totalBits,
    finalized,
    rest,      \* what the running update() has still to copy
    bitsLen,   \* the local of the running digest(), or None
    fed,       \* history: the bytes of every update()
    message,   \* history: fed, when digest() was first called
    digests    \* history: what digest() returned first and last

vars == <<alg, absorbed, buf, totalBits, finalized, rest, bitsLen, fed, message, digests>>

BlockSize == alg.block
LenSize == alg.len
Radix == Power(2, alg.byteBits)

\* One past the values of totalBits.
None == Power(Radix, alg.count)

Init ==
    /\ alg \in Algorithms
    /\ absorbed = <<>> /\ buf = <<>> /\ totalBits = 0 /\ finalized = FALSE
    /\ rest = <<>> /\ bitsLen = None
    /\ fed = <<>> /\ message = <<>> /\ digests = <<>>

\* The object is not in a call.
Idle == rest = <<>> /\ bitsLen = None

Counted(len) == (totalBits + len * alg.byteBits) % None

\* Mutant: the guard of Md5::update() is missing.
UpdateUnguarded(data) ==
    /\ rest' = data /\ totalBits' = Counted(Len(data)) /\ fed' = fed \o data
    /\ UNCHANGED <<alg, absorbed, buf, finalized, bitsLen, message, digests>>

\* A call of update() that is not turned away.
update(data) ==
    /\ ~(alg.guarded /\ finalized)
    /\ rest' = data /\ totalBits' = Counted(Len(data)) /\ fed' = fed \o data
    /\ UNCHANGED <<alg, absorbed, buf, finalized, bitsLen, message, digests>>

\* The chaining value H stands for the blocks it was computed from.
transform(block) == absorbed' = absorbed \o block

\* Mutant: a full buffer is only taken when the next byte comes.
CopyLate ==
    LET take == IF Len(rest) < BlockSize - Len(buf) THEN Len(rest) ELSE BlockSize - Len(buf)
    IN  /\ rest # <<>>
        /\ rest' = SubSeq(rest, take + 1, Len(rest))
        /\ IF Len(buf) = BlockSize
           THEN transform(buf) /\ buf' = <<>>
           ELSE buf' = buf \o SubSeq(rest, 1, take) /\ UNCHANGED absorbed
        /\ UNCHANGED <<alg, totalBits, finalized, bitsLen, fed, message, digests>>

\* One round of the loop of update().
Copy ==
    LET take == IF Len(rest) < BlockSize - Len(buf) THEN Len(rest) ELSE BlockSize - Len(buf)
        filled == buf \o SubSeq(rest, 1, take)
    IN  /\ rest # <<>>
        /\ rest' = SubSeq(rest, take + 1, Len(rest))
        /\ IF Len(filled) = BlockSize
           THEN transform(filled) /\ buf' = <<>>
           ELSE buf' = filled /\ UNCHANGED absorbed
        /\ UNCHANGED <<alg, totalBits, finalized, bitsLen, fed, message, digests>>

\* Mutant: a buffer with just room for the marker takes no further block.
PadLenOffByOne(n) ==
    IF n <= BlockSize - LenSize THEN BlockSize - LenSize - n ELSE 2 * BlockSize - LenSize - n

padLen(n) ==
    IF n < BlockSize - LenSize THEN BlockSize - LenSize - n ELSE 2 * BlockSize - LenSize - n

\* The first digest() up to its update(pad, padLen).
Pad ==
    LET n == padLen(Len(buf))
    IN  /\ ~finalized
        /\ bitsLen' = totalBits
        /\ rest' = [i \in 1..n |-> IF i = 1 THEN Radix \div 2 ELSE 0]
        /\ totalBits' = Counted(n)
        /\ message' = fed
        /\ UNCHANGED <<alg, absorbed, buf, finalized, fed, digests>>

\* lenBlock: the digits of the count, the others 0.
LenBlock(n) ==
    [i \in 1..LenSize |->
        LET digit == IF alg.bigEndian THEN LenSize - i ELSE i - 1
        IN  IF digit < alg.count THEN (n \div Power(Radix, digit)) % Radix ELSE 0]

Returned(h) == digests' = IF digests = <<>> THEN <<h, h>> ELSE <<digests[1], h>>

\* The rest of the first digest().
Finish ==
    /\ bitsLen # None /\ rest = <<>>
    /\ transform(buf \o LenBlock(bitsLen))
    /\ buf' = <<>> /\ finalized' = TRUE /\ bitsLen' = None
    /\ Returned(absorbed')
    /\ UNCHANGED <<alg, totalBits, rest, fed, message>>

\* Every later digest().
Again ==
    /\ finalized /\ Returned(absorbed)
    /\ UNCHANGED <<alg, absorbed, buf, totalBits, finalized, rest, bitsLen, fed, message>>

Chunks == UNION {[1..n -> Bytes] : n \in 1..(MaxBytes - Len(fed))}

Next ==
    \/ Idle /\ \E data \in Chunks : update(data)
    \/ Idle /\ Pad
    \/ Idle /\ Again
    \/ Copy
    \/ Finish

Spec == Init /\ [][Next]_vars

-----------------------------------------------------------------------------
(* Properties.                                                             *)

\* However the message is cut into update() calls, and wherever the cuts fall
\* in a block, nothing is lost, doubled or reordered on its way into H, only
\* whole blocks reach it, and a full block never waits.
StreamIsWhole ==
    bitsLen = None /\ ~finalized =>
        /\ absorbed \o buf \o rest = fed
        /\ Len(absorbed) % BlockSize = 0 /\ Len(buf) < BlockSize

\* RFC 1321 (3.1, 3.2) and FIPS 180-4 (5.1): the marker, the least zeros, and
\* the length of the message in the order of the algorithm, in whole blocks.
Padded(m) ==
    LET zeros == CHOOSE k \in 0..(BlockSize - 1) : (Len(m) + 1 + k + LenSize) % BlockSize = 0
        bits == (Len(m) * alg.byteBits) % Power(Radix, LenSize)
        field == [i \in 1..LenSize |->
                     LET digit == IF alg.bigEndian THEN LenSize - i ELSE i - 1
                     IN  (bits \div Power(Radix, digit)) % Radix]
    IN  m \o <<Radix \div 2>> \o [i \in 1..zeros |-> 0] \o field

\* The first digest is that of the whole message, at every length around the
\* edge of a block and, for MD5, beyond the point where totalBits wraps.
DigestIsReference == digests # <<>> => digests[1] = Padded(message)

\* digest() finishes the stream (core/include/md5.h:28): what MD5 returned once
\* it returns for ever, whatever update() is called in between, and SHA-384,
\* whose update() has no guard, at least until it is given more bytes.
DigestIsFinal ==
    digests # <<>> /\ (alg.guarded \/ fed = message) => digests[2] = digests[1]
=============================================================================
