\* Three events, a queue and batches of two, a caller's channel of one.
\* The caller may stop reading an ended stream: no step is owed then.
SPECIFICATION Spec
CONSTANTS
    Kinds = {"token", "unknown", "bad"}
    MaxEvents = 3
    QueueSize = 1
    BatchSize = 2
    ChanSize = 1
INVARIANTS TypeOK HonestMetrics
PROPERTIES ImplementsDelivery NoLeak
CHECK_DEADLOCK FALSE
