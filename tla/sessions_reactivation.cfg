SPECIFICATION Spec
CONSTANTS
    Tokens = {t1, t2}
    NoToken = NoToken
    Passwords = {p1, p2}
    Requests = {r1, r2, r3}
    MaxReadable = 1
SYMMETRY Symmetry
PROPERTIES
    ReactivationRestoresNothing
