--------------------------- MODULE Steganography ----------------------------
(***************************************************************************)
(* core/src/steganography.cpp: a message in the low bits of pixel bytes.   *)
(* The widths are parameters, 32, 8 and 8 in the code, so that TLC can     *)
(* take every buffer of a small size.  Pixels and messages are sequences   *)
(* of byte values.                                                         *)
(***************************************************************************)
EXTENDS Powers, Sequences

CONSTANTS
    LenBits,   \* low bits that hold the length of the message
    CharBits,  \* bits of a byte of the message
    PixelBits, \* bits of a byte of the picture
    IndexRange \* the indices of a uint32_t, 2^32

ASSUME StegAssumption ==
    /\ {LenBits, CharBits, PixelBits, IndexRange} \subseteq Nat \ {0}
    /\ LenBits <= IndexRange

Char == 0..(Power(2, CharBits) - 1)
Pixel == 0..(Power(2, PixelBits) - 1)

-----------------------------------------------------------------------------
\* Mutant: the header is not taken off.
CapacityWithHeader(bytes) == IF bytes <= LenBits THEN 0 ELSE bytes \div CharBits

capacity(bytes) == IF bytes <= LenBits THEN 0 ELSE (bytes - LenBits) \div CharBits

Bit(n, i) == (n \div Power(2, i)) % 2

\* Mutant: the bit is or-ed in, a low bit that was set stays set.
OrBit(p, bit) == IF bit = 1 THEN 2 * (p \div 2) + 1 ELSE p

\* Mutant: the byte becomes the bit.
WholeByte(p, bit) == bit

writeBit(p, bit) == 2 * (p \div 2) + bit

readBit(p) == p % 2

\* The length is a uint32_t: a message of 2^LenBits bytes would count as empty.
LenField(msg) == Len(msg) % Power(2, LenBits)

\* Mutant: the header does not count.
FitsWithoutHeader(pixels, msg) == Len(pixels) >= LenField(msg) * CharBits

Fits(pixels, msg) == Len(pixels) >= LenBits + LenField(msg) * CharBits

\* Mutant: the message starts on the last bit of the header.
EmbedOneEarly(pixels, msg) ==
    [i \in 1..Len(pixels) |->
        LET k == i - LenBits
        IN  IF i <= LenBits THEN writeBit(pixels[i], Bit(LenField(msg), i - 1))
            ELSE IF k < Len(msg) * CharBits
            THEN writeBit(pixels[i], Bit(msg[(k \div CharBits) + 1], k % CharBits))
            ELSE pixels[i]]

\* The pixels after a successful embed(): the length, then the message, each
\* from its lowest bit on; later pixels are left alone.
Embedded(pixels, msg) ==
    [i \in 1..Len(pixels) |->
        LET k == i - LenBits - 1
        IN  IF i <= LenBits THEN writeBit(pixels[i], Bit(LenField(msg), i - 1))
            ELSE IF k < Len(msg) * CharBits
            THEN writeBit(pixels[i], Bit(msg[(k \div CharBits) + 1], k % CharBits))
            ELSE pixels[i]]

\* extract() adds up its index in a uint32_t, embed() in a size_t: past the range
\* extract() starts again with the first pixel.
Position(index) == (index % IndexRange) + 1

\* The number whose bits are the low bits of n pixels from the index first on.
Number(pixels, first, n) ==
    LET bit(i) == readBit(pixels[Position(first + i - 1)])
        sum[i \in 0..n] == IF i = 0 THEN 0 ELSE sum[i - 1] + bit(i) * Power(2, i - 1)
    IN  sum[n]

extract(pixels) ==
    LET len == Number(pixels, 0, LenBits)
    IN  IF Len(pixels) < LenBits \/ Len(pixels) < LenBits + len * CharBits
           \/ len > capacity(Len(pixels))
        THEN <<>>
        ELSE [c \in 1..len |-> Number(pixels, LenBits + (c - 1) * CharBits, CharBits)]
=============================================================================
