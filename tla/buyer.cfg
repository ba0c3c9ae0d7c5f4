\* A run of the buyer against a store that moves on its own.
SPECIFICATION Spec
CONSTANTS
    None = None
    SessionIds = {s1, s2}
    max_steps = 3
    max_turns = 2
    MaxCalls = 2
    wait_for_payment_s = 7
    poll_every_s = 3
INVARIANTS
    TypeOK
    NoCallForgotten
    ReportIsTrue
PROPERTIES
    RunEnds
CHECK_DEADLOCK FALSE
