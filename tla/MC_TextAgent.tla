---------------------------- MODULE MC_TextAgent ----------------------------
(* An instance of TextAgent for TLC. *)
EXTENDS TextAgent, TLC

CONSTANT a

(* A whole dialogue; a question that is answered with a command; and single      *)
(* messages beside which a webhook is registered.                            *)
WithWebhook == {<<"example">>, <<"word">>}
Dialogues == a :> WithWebhook \cup {<<"multi", "word", "word">>, <<"example", "multi">>}
=============================================================================
