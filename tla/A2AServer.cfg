\* Two calls beside Start and Stop.  When all is done nothing is left to do.
SPECIFICATION Spec
CONSTANTS
    c1 = c1
    c2 = c2
    jwt = jwt
    key = key
    alice = alice
    bob = bob
    Nothing = Nothing
    Calls = {c1, c2}
    Requests <- AnyAndCard
    Middlewares <- TwoMiddlewares
    Tokens = {jwt, key}
    Users = {alice, bob}
INVARIANTS TypeOK GracefulStop HonestAnswers
PROPERTIES CallsAndStopReturn
CHECK_DEADLOCK FALSE
