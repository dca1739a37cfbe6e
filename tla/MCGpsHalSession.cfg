CONSTANTS
    QLen = 3
    MaxReboots = 3
    Faults = {"resource"}
SPECIFICATION FairSpec
INVARIANTS
    TypeOK
    OnlyOnRequest
    WishGranted
PROPERTIES
    WishServed
