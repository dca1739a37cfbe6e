CONSTANTS
    Kinds = {"scan", "hotlist", "rssi", "rtt", "log"}
    MaxCommands = 3
    MaxHandlers = 5
    MaxListed = 2
SPECIFICATION FairSpec
INVARIANTS
    TypeOK
    HandlersAlive
    CallbackAlive
    Heard
    Cancellable
    IdleCleanUp
PROPERTIES
    CleansUp
