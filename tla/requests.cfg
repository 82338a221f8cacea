CONSTANTS
    a = a
    b = b
    NoField = NoField
    Requests = {a, b}
    Fields = {"name"}
    Values = {0, 1}
    Types = {"edit", "record"}
    Type <- MCType
    MaxDirty = 3
SPECIFICATION Spec
VIEW View
SYMMETRY Swaps
INVARIANTS TypeOK RivalsExclude
PROPERTIES AppliedAsRouted ApprovalLives
CHECK_DEADLOCK FALSE
