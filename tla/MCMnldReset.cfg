CONSTANTS
    hal = hal
    agps = agps
    flp = flp
    test = test
    HAL = hal
    AGPS = agps
    FLP = flp
    Clients = {agps}
    AckUsers = {agps}
    OffloadUsers = {}
    QLen = 2
    HalQLen = 0
    Flags = {TRUE}
    Modes = {}
    Networks <- MCNone
    EpoStale = {FALSE}
    Faults = {"stop"}
SPECIFICATION FairSpec
INVARIANTS
    ResetIsWatched
PROPERTIES
    ResetServed
