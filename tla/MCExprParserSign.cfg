SPECIFICATION Spec
CONSTANT Written <- SignedPowers
CHECK_DEADLOCK FALSE
INVARIANT ParsesAsWritten
