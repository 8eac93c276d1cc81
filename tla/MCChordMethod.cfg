SPECIFICATION Spec
CONSTANTS
    Numbers = {1, 2, 3, 4}
    NaN = NaN
    Functions <- AllFunctions
    Eps = 2
    MaxIter = 3
INVARIANTS TypeOK KeptValuesAreFresh BracketKept ResultIsHonest
CHECK_DEADLOCK FALSE
