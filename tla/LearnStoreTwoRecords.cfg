SPECIFICATION Spec
CONSTANTS
    Sessions = {"s1", "s2"}
    Base = 10
    Limit = 10000
    Procs = {p1, p2}
    Commands <- RecordOnly
    Pulls <- NoPulls
    InitialConfig <- MCConfig
    MaxEvents = 2
    None = None
INVARIANTS
    FreshEntriesNeverCollide
