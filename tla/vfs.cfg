CONSTANTS
    Paths <- MCPaths
    Norm <- MCNorm
    FileName <- MCFileName
    Installs = {"bts", "patched"}
    Fpk <- MCFpk
    LoosePaths = {"art/a", "art/c"}
    Dirs = {"art"}
    Prefixed <- MCPrefixed
    Below <- MCBelow
    None = None
    Torn = Torn
    MaxSessions = 2
    MaxEdits = 1
SPECIFICATION Spec
INVARIANTS
    IndexesSafe
    DataByPriority
    ViewsAgree
    FoundIsServed
CHECK_DEADLOCK FALSE
