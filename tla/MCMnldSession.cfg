CONSTANTS
    hal = hal
    agps = agps
    flp = flp
    test = test
    HAL = hal
    AGPS = agps
    FLP = flp
    Clients = {hal, agps}
    AckUsers = {hal, agps}
    OffloadUsers = {}
    QLen = 2
    HalQLen = 0
    Flags = {}
    Modes = {}
    Networks <- MCNone
    EpoStale = {FALSE}
    Faults = {"start", "signal", "stop", "main"}
SPECIFICATION FairSpec
INVARIANTS
    TypeOK
    StopDoneExpected
    IdleIsClean
    StartsOnce
    StartedIsKnown
    AcksAreOwed
    WatchdogsMatch
    Handshakes
PROPERTIES
    TransientEnds
    OpenServed
    CloseServed
    AbandonedStops
