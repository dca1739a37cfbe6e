CONSTANTS
    Pieces = 2
    MaxRetries = 1
    MaxDelays = 1
    MaxTries = 1
    MaxDay = 1
    MaxQepo = 1
    MaxBad = 1
    Faults = {"crash", "lost", "disk"}
SPECIFICATION FairSpec
INVARIANTS
    TypeOK
    
    ResultTells
    FlagIsTrue
    RetriesBounded
PROPERTIES
    DownloadEnds
