SPECIFICATION Spec
CONSTANTS
    Sessions = {"s1", "s2"}
    Base = 10
    Limit = 10000
    Procs = {p1}
    Commands <- PullCommands
    Pulls <- BothPulls
    InitialConfig <- MCConfig
    MaxEvents = 3
    None = None
INVARIANTS
    DbTablesAgree
