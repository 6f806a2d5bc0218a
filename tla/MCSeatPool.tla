----------------------------- MODULE MCSeatPool -----------------------------
(* Two local Codex seats of one plan that may cool down and a fallback API  *)
(* key, under a buffered request whose path the key does not serve, a       *)
(* direct one of the same conversation and a models fetch; no reload.       *)
EXTENDS SeatPool

MCSeat == {"a", "b", "k"}
MCKind == [s \in MCSeat |-> IF s = "k" THEN "codex_api" ELSE "codex"]
MCPlan == [s \in MCSeat |-> CASE s = "k" -> "api" [] OTHER -> "team"]
MCConversation == {"conv"}
MCRequest == {"r1", "r2", "r3"}
MCMode == [r \in MCRequest |-> IF r = "r2" THEN "direct" ELSE IF r = "r3" THEN "models" ELSE "buffered"]
MCWantType == [r \in MCRequest |-> "codex"]
MCWantPlan == [r \in MCRequest |-> AnyPlan]
MCConv == [r \in MCRequest |-> IF r = "r3" THEN NoSeat ELSE "conv"]
MCSupports == [r \in MCRequest |-> IF r = "r1" THEN {"a", "b"} ELSE MCSeat]
MCForced == [r \in MCRequest |-> NoSeat]
MCChanges == [s \in MCSeat |-> IF s = "k" THEN {"ready"} ELSE {"ready", "cooling"}]
=============================================================================
