SPECIFICATION Spec
CONSTANTS
    Absent = Absent
    Torn = Torn
    Pairs <- MCPairs
    Files <- MCFiles
    MinContracts = 1
    MinFiles = 1
    Sources <- MCSources
    Recorded <- Sound
    Hosts <- MCHosts
    MaxEdits = 1
    MaxUpdates = 1
    MaxRuns = 1
INVARIANTS
    WhatShipsWasChecked
    OkIsEarned
    CertifiedShips
    RefusalKeepsArchive
    CeilingsWereMeasured
PROPERTY
    GateEnds
CHECK_DEADLOCK FALSE
