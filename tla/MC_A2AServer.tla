---------------------------- MODULE MC_A2AServer ----------------------------
(* Instances of A2AServer for TLC. *)
EXTENDS A2AServer, TLC

CONSTANTS c1, c2, jwt, key, alice, bob

Headers(token, k) == [authorization |-> token, apiKey |-> k]
Asks(methods, flaws, credentials) ==
    [method : methods, flaws : flaws, credentials : credentials]

(* A JWT provider around a chain of an API key and a JWT provider. *)
Signed == [kind |-> "jwt", grants |-> jwt :> alice]
Keys == [kind |-> "apiKey", grants |-> key :> bob]
TwoMiddlewares == <<<<Signed>>, <<Keys, Signed>>>>

Both == Headers(jwt, key)

(* The first call is of every kind the checks tell apart, sound or with flaws *)
(* found at different places; the second asks an older server for its card.    *)
AnyAndCard ==
    [c \in Calls |->
        IF c = c2 THEN Asks({"agent card"}, {{"path"}}, {Headers(Nothing, Nothing)})
        ELSE Asks({"message/stream"}, {{}, {"json", "params"}}, {Both})
             \cup Asks({"message/stream"}, {{}}, {Headers(Nothing, key)})
             \cup Asks({"message/send"}, {{}, {"preflight"}}, {Both})
             \cup Asks({"tasks/resubscribe"}, {{"fields"}}, {Both})]
=============================================================================
