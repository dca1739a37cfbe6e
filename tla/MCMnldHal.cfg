CONSTANTS
    hal = hal
    agps = agps
    flp = flp
    test = test
    HAL = hal
    AGPS = agps
    FLP = flp
    Clients = {hal}
    AckUsers = {hal}
    OffloadUsers = {}
    QLen = 2
    HalQLen = 2
    Flags = {}
    Modes = {}
    Networks <- MCNetworks
    EpoStale = {TRUE, FALSE}
    Faults = {"power", "hal"}
SPECIFICATION Spec
INVARIANTS
    OneDownload
    WakelockTold
PROPERTIES
    ReleasedWhenOff
