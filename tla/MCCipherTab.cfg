SPECIFICATION Spec
CONSTANTS
    Texts <- TextsNoYo
    Keys <- KeysMixed
    MaxDepth = 2
INVARIANTS RoundTrip ShapeKept
