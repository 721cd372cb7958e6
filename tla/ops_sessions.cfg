SPECIFICATION Spec
CONSTANTS
    b1 = b1
    b2 = b2
    b3 = b3
    start = start
    p1 = p1
    p2 = p2
    Browsers = {b1, b2, b3}
    Passwords = {start, p1, p2}
    InitPassword = start
    NoUser = NoUser
    NoCookie = NoCookie
    MaxChanges = 3
SYMMETRY Alike
INVARIANTS
    TypeOK
    SessionsEnd
    StartPasswordGone
CHECK_DEADLOCK FALSE
