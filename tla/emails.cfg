SPECIFICATION Spec
CONSTANTS
    a = a
    A = A
    b = b
    c = c
    Ids = {u1, u2, u3}
    NoId = NoId
    Spellings <- MCSpellings
    Canonical <- MCCanonical
    NoEmail = NoEmail
    Requests = {r1, r2}
    MaxReadable = 2
SYMMETRY Symmetry
INVARIANTS
    TypeOK
    UniqueUnlessRaced
    LocksMatch
PROPERTIES
    DirectorySpec
