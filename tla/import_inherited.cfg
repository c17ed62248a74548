SPECIFICATION Spec
CONSTANTS
    InheritedNames = {"constructor"}
    Inherited <- MCInherited
    Lines <- MCLines
    EmptyWord = ""
    Words <- MCWords
    Number <- MCNumber
    NaN = NaN
    Unset = Unset
    MaxLines = 4
CHECK_DEADLOCK FALSE
INVARIANT
    RowsAreModels
