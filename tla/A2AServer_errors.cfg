\* What a caller learns of a JSON-RPC error.
SPECIFICATION SafeSpec
CONSTANTS
    c1 = c1
    c2 = c2
    jwt = jwt
    key = key
    alice = alice
    bob = bob
    Nothing = Nothing
    Calls = {c1, c2}
    Requests <- AnyAndCard
    Middlewares <- TwoMiddlewares
    Tokens = {jwt, key}
    Users = {alice, bob}
INVARIANTS ErrorsReachCallers
CHECK_DEADLOCK FALSE
