\* Two requests, a reader, lists of at most two messages, and a command that may fail.
SPECIFICATION Spec
CONSTANTS
    Requests = {p1, p2}
    Readers = {r}
    Messages = {m1, m2, m3}
    Contexts = {c1, c2}
    MaxHistoryLength = 2
    ExpireTime = 2
    FaultBound = 1
    None = None
SYMMETRY IdSymmetry
INVARIANTS TypeOK  HistoriesLackOnlyTheExpired
\* When every message ID is used there is nothing left to do.
CHECK_DEADLOCK FALSE
