\* Three goroutines, two calls of Send on a queue of one event, both send modes:
\* one call can fill the queue and another be blocked while two threads close.
SPECIFICATION Spec
CONSTANTS
    Threads = {t1, t2, t3}
    Calls = {c1, c2}
    BufSize = 1
    None = None
INVARIANTS TypeOK NoPanic
PROPERTIES ImplementsEventStream CloseCompletes SendReturns
\* A stream that is closed and drained, with no call left to make, has stopped.
CHECK_DEADLOCK FALSE
