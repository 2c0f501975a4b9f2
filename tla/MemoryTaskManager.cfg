\* Two goroutines, one of which updates the task, and two streams.
SPECIFICATION Spec
CONSTANTS
    p1 = p1
    p2 = p2
    k1 = k1
    Threads = {p1, p2}
    Cleaner = cleaner
    Tasks = {k1}
    Subs = {s1, s2}
    Writers <- OneWriter
    BufSize = 1
    Ops <- StreamOps
    None = None
SYMMETRY SubSymmetry
INVARIANTS TypeOK NoForgottenStream NoLeakedContext NoOrphanConfig
PROPERTIES ImplementsTaskStreams
\* When the manager is closed and every call has returned nothing has to happen.
CHECK_DEADLOCK FALSE
