\* A service with two handlers and a webhook, two key pairs.  The clock stops at
\* its bound.
SPECIFICATION Spec
CONSTANTS
    t1 = t1
    t2 = t2
    Tasks = {t1, t2}
    Receivers <- LibraryAndWebhook
    Agents = {"message", "task"}
    TTL = 2
    Refresh = 2
    Timeout = 1
    MaxAge = 1
    MaxTime = 4
    MaxKeys = 2
INVARIANTS TypeOK
PROPERTIES VerdictsAreRight TasksAreReleased
CHECK_DEADLOCK FALSE
