\* Requests and webhooks that arrive late, twice and beside each other.
SPECIFICATION Spec
CONSTANTS
    None = None
    Agents = {a1, a2}
    Nonces = {n1}
    Keys = {k1}
    Bodies = {b1, b2}
    SessionIds = {s1, s2}
    EventIds = {e1}
    Coroutines = {c1, c2}
    MAX_SKEW = 2
    Ahead = 1
    MaxTime = 5
SYMMETRY Symmetry
INVARIANTS
    OneSessionPerKey
    AnswersMatch
    ReceivedOnce
PROPERTIES
    AcceptedAgainOnlyLate
CHECK_DEADLOCK FALSE
