CONSTANTS
    QLen = 2
    MaxReboots = 2
    Faults = {}
SPECIFICATION Spec
INVARIANTS
    WhatWeAre
