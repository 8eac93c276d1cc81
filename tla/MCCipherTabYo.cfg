SPECIFICATION Spec
CONSTANTS
    Texts <- TextsYo
    Keys <- KeysMixed
    MaxDepth = 2
INVARIANTS RoundTrip
