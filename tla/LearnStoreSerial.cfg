SPECIFICATION Spec
CONSTANTS
    Sessions = {"s1", "s2"}
    Base = 10
    Limit = 10000
    Procs = {p1}
    Commands <- SerialCommands
    Pulls <- NoPulls
    InitialConfig <- MCConfig
    MaxEvents = 4
    None = None
PROPERTIES
    SuccessMeansAgreement
    RefutesLiveOnly
    ImplementsLog
