\* A complete decides while a create is picking its offers.
SPECIFICATION AuditSpec
CONSTANTS
    None = None
    Server = server
    Tool = tool
    Writers = {server, tool}
    Threads = {"loop", "pool"}
    SessionIds = {s1, s2}
    Situations <- TwoSituations
    Serves <- LoopAndPool
    MaxEvents = 4
    MaxEdited = 0
    MaxEdits = 0
INVARIANTS
    ReplayIsIdentical
CHECK_DEADLOCK FALSE
