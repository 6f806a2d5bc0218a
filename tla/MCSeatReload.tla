---------------------------- MODULE MCSeatReload ----------------------------
(* Claude and Gemini seats under a reload and deletions: an ordinary Claude *)
(* seat that only the reload brings in, two GitLab Claude seats, and a      *)
(* Gemini seat that one request is forced on and another selects.          *)
EXTENDS SeatPool

MCSeat == {"c", "g", "h", "m"}
MCKind == [s \in MCSeat |-> CASE s = "c" -> "claude" [] s = "m" -> "gemini"
                              [] OTHER -> "claude_gitlab"]
MCPlan == [s \in MCSeat |-> CASE s = "c" -> "max" [] s = "m" -> "ultra" [] OTHER -> "gitlab"]
MCConversation == {"conv"}
MCRequest == {"chat", "ask", "forced"}
MCMode == [r \in MCRequest |-> IF r = "ask" THEN "direct" ELSE "buffered"]
MCWantType == [r \in MCRequest |-> IF r = "chat" THEN "claude" ELSE "gemini"]
MCWantPlan == [r \in MCRequest |-> AnyPlan]
MCConv == [r \in MCRequest |-> IF r = "forced" THEN NoSeat ELSE "conv"]
MCSupports == [r \in MCRequest |-> MCSeat]
MCForced == [r \in MCRequest |-> IF r = "forced" THEN "m" ELSE NoSeat]
MCInitialPool == MCSeat \ {"c"}
MCChanges == [s \in MCSeat |-> CASE s = "g" -> {"ready", "cooling"}
                                 [] s = "h" -> {"cooling"}
                                 [] s = "m" -> {"ready"}
                                 [] OTHER -> {"ready"}]
=============================================================================
