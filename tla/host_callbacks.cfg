SPECIFICATION Spec
CONSTANTS
    a = a
    b = b
    Text = Text
    Malformed = Malformed
    Absent = Absent
    Documents <- MCDocuments
    Installs <- MCInstalls
    Names <- MCNames
    Listed <- MCNames
    Tags = {a, b}
    Paths <- MCPaths
    Buffer = 5
    MaxLoads = 2
    MaxDepth = 2
INVARIANTS
    CursorSafe
    CountsAreSteps
    LoadsFromTop
    ListedFilesLie
