SPECIFICATION Spec
CONSTANTS
    LenBits = 4
    CharBits = 2
    PixelBits = 2
    IndexRange = 10
    Covers <- CoversSmall
    Messages <- MessagesUpTo4
    NoText = {3}
    Replaced <- TwoBytes
    Paths = {p1, p2}
    NoPicture = NoPicture
INVARIANTS LastMessageIsRead OnlyLowBitsChange
PROPERTY CapacityIsExact
