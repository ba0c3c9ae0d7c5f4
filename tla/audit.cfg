\* One server thread and a command-line tool append to one ledger, which is
\* anchored and edited by hand.
SPECIFICATION AuditSpec
CONSTANTS
    None = None
    Server = server
    Tool = tool
    Writers = {server, tool}
    Threads = {t1}
    SessionIds = {s1}
    Situations <- TwoSituations
    MaxEvents = 5
    MaxEdited = 3
    MaxEdits = 2
    Serves <- OneThread
INVARIANTS
    ChainVerifies
    EditsShow
    AnchorProtects
    ReplayIsIdentical
    ReceiptMatchesRow
CHECK_DEADLOCK FALSE
