CONSTANTS
    hal = hal
    agps = agps
    flp = flp
    test = test
    HAL = hal
    AGPS = agps
    FLP = flp
    Clients = {agps, flp}
    AckUsers = {agps, flp}
    OffloadUsers = {flp}
    QLen = 2
    HalQLen = 0
    Flags = {}
    Modes = {TRUE, FALSE}
    Networks <- MCNone
    EpoStale = {FALSE}
    Faults = {"start", "stop"}
SPECIFICATION Spec
PROPERTIES
    OffloadNotRestarted
