CONSTANTS
    Mods = {Base, ModA, ModB, ModC, ModD}
    BaseMod = Base
    OwnDll = {ModA, ModB, ModC}
    Complete = {Base, ModA, ModB}
    XmlCapable = {ModA}
    NullInstance = {ModB}
    None = None
    MaxInits = 4
    Base = Base
    ModA = ModA
    ModB = ModB
    ModC = ModC
    ModD = ModD
SPECIFICATION Spec
INVARIANTS
    HandlesSafe
    CallbacksReach
    WiredRelayStays
    ServedIsUsable
PROPERTIES
    ImplementsDataService
CHECK_DEADLOCK FALSE
