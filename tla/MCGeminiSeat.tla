----------------------------- MODULE MCGeminiSeat -----------------------------
(* One model and two objects of the seat.                                     *)
EXTENDS GeminiSeat

MCLoads == {"project", "blocked", "error"}
MCReplies == {"models", "forbidden"}
MCRecoverLoads == MCLoads \cup {"restricted"}
MCRecoverReplies == {"models", "forbidden", "down", "empty", "refused", "full"}
MCDates == {Full}
(* Dated by the fetch, or long before by the provider. *)
MCOldDates == {0, Full}
=============================================================================
