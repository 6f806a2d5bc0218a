--------------------------- MODULE MCTokenStreams ---------------------------
(* A Gemini seat that two streamed requests find spent, while the pool is   *)
(* reloaded and the provider's answer may get lost.                        *)
EXTENDS TokenRefresh

MCSeat == {"gemini"}
MCCaller == {"stream", "socket"}
MCRole == [c \in MCCaller |-> "direct"]
MCTarget == [c \in MCCaller |-> "gemini"]
=============================================================================
