\* Close beside an update that sends on a stream nobody reads.
SPECIFICATION Spec
CONSTANTS
    p1 = p1
    p2 = p2
    Threads = {p1, p2}
    Tasks = {k1}
    Subs = {s1}
    Artifacts = {a1}
    Writers <- OneWriter
    BufSize = 1
    Ops = {"BuildTask", "UpdateTaskState", "SubscribeTask", "Close"}
    Faults = FALSE
    None = None
PROPERTY CloseReturns
