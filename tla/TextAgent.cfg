\* One context, two dialogues, and a question with a webhook.
\* When all was typed and answered nothing is left to do.
SPECIFICATION AgentSpec
CONSTANTS
    a = a
    Contexts = {a}
    Scripts <- Dialogues
    Longest = 3
    Hooked <- WithWebhook
INVARIANTS AgentTypeOK TurnsAreHonest
PROPERTIES InteractionsEnd
CHECK_DEADLOCK FALSE
