CONSTANTS
    hal = hal
    agps = agps
    flp = flp
    test = test
    HAL = hal
    AGPS = agps
    FLP = flp
    Clients = {hal, agps}
    AckUsers = {hal, agps}
    OffloadUsers = {}
    QLen = 2
    HalQLen = 0
    Flags = {}
    Modes = {}
    Networks <- MCNone
    EpoStale = {FALSE}
    Faults = {"stop"}
SPECIFICATION Spec
PROPERTIES
    StopReported
