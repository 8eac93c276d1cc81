SPECIFICATION Spec
CONSTANT Written <- AnyInput
CHECK_DEADLOCK FALSE
INVARIANTS ParsesAsWritten NothingReadIsLost StackBounded
