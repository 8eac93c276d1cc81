SPECIFICATION Spec
CONSTANTS
    Algorithms <- ToyAlgorithms
    Bytes = {0, 2}
    MaxBytes = 10
INVARIANTS StreamIsWhole DigestIsReference DigestIsFinal
