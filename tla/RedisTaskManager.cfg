\* Every operation by two goroutines, one of which updates the task.
SPECIFICATION Spec
CONSTANTS
    p1 = p1
    p2 = p2
    Threads = {p1, p2}
    Tasks = {k1}
    Subs = {s1}
    Artifacts = {a1}
    Writers <- OneWriter
    BufSize = 1
    Ops <- AllOps
    Faults = TRUE
    None = None
INVARIANTS TypeOK OnlyFullStreamsDropped OverMeansClosed KeptUnlessRaced
PROPERTIES ImplementsTaskStreams
