SPECIFICATION Spec
CONSTANTS
    Tokens = {t1, t2, t3}
    NoToken = NoToken
    Passwords = {p1, p2}
    Requests = {r1, r2, r3}
    MaxReadable = 2
SYMMETRY Symmetry
INVARIANTS
    TypeOK
    RetiredStaysRetired
    SuspendedHasNoSession
    SessionHasPassword
PROPERTIES
    SessionSpec
