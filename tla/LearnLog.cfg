SPECIFICATION LogSpec
CONSTANTS
    Sessions = {"s1", "s2"}
    Base = 10
    Limit = 10000
    Bodies <- MCBodies
    Cfg <- MCCfg
    MaxLog = 4
INVARIANTS
    LogTypeOK
    UsageAccounted
    ConfidenceBounded
    OrderIndifferent
PROPERTY
    RetiredForever
CHECK_DEADLOCK FALSE
