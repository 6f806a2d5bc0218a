CONSTANTS
    Kinds = {"gitlab_claude", "codex", "codex_api", "gemini", "json"}
    IdleTimeout = 1
    TailTimeout = 1
    MaxEvents = 5
    MaxWire = 2
SPECIFICATION Spec
CHECK_DEADLOCK FALSE
INVARIANTS TypeOK  FailedNeverSucceeds
PROPERTIES DeliveryEnds
