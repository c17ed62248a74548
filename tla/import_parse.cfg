SPECIFICATION Spec
CONSTANTS
    InheritedNames = {}
    Inherited <- MCInherited
    Lines <- MCLines
    EmptyWord = ""
    Words <- MCWords
    Number <- MCNumber
    NaN = NaN
    Unset = Unset
    MaxLines = 4
CHECK_DEADLOCK FALSE
INVARIANTS
    TypeOK
    ErrorsAreExact
    AcceptsExactly
    NothingLost
    ImportFitsGrid
