\* One stream, and the operations that end tasks and streams.
SPECIFICATION Spec
CONSTANTS
    p1 = p1
    p2 = p2
    k1 = k1
    Threads = {p1, p2}
    Cleaner = cleaner
    Tasks = {k1}
    Subs = {s1}
    Writers <- OneWriter
    BufSize = 1
    Ops <- LifeOps
    None = None
PROPERTIES OnlySubscribeStrands StreamsEnd CallsReturn CloseEndsStreams
\* When the manager is closed and every call has returned nothing has to happen.
CHECK_DEADLOCK FALSE
