--------------------------- MODULE MCTokenRefresh ---------------------------
(* A Codex seat that a request, the usage poller and an operator find spent. *)
EXTENDS TokenRefresh

MCSeat == {"codex"}
MCCaller == {"chat", "poll", "op"}
MCRole == [c \in MCCaller |-> CASE c = "chat" -> "request" [] c = "poll" -> "usage"
                                [] OTHER -> "operator"]
MCTarget == [c \in MCCaller |-> "codex"]
=============================================================================
