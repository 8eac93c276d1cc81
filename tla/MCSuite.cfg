SPECIFICATION Spec
CONSTANTS
    Clients = {w1, w2}
    Conns = {c1, c2}
    NoConn = NoConn
    Logins = {"admin", "ann"}
    Passwords = {"admin", "pw"}
    Typed <- TypedByUsers
    Tabs = {"MD5"}
    MaxClicks = 3
    MaxMishaps = 2
SYMMETRY ClientSymmetry
CHECK_DEADLOCK FALSE
INVARIANTS TypeOK ShownIsTrue AdminTabIsEarned
PROPERTIES StaleClickIsHarmless ActsWithinAccessControl
