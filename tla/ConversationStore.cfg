\* Two requests, conversations of at most two messages, IDs that are unique or not.
SPECIFICATION Spec
CONSTANTS
    Requests = {p1, p2}
    Messages = {m1, m2, m3}
    Contexts = {c1, c2}
    MaxHistoryLength = 2
    LogBound = 3
    None = None
SYMMETRY IdSymmetry
INVARIANTS TypeOK WindowOfLog HistoryIsRecent NothingLeaked
\* When every message ID is used there is nothing left to do.
CHECK_DEADLOCK FALSE
