---------------------------- MODULE MCSeatFiles ----------------------------
(* Instances of SeatFiles: up to an OAuth seat, a GitLab seat, an API key. *)
EXTENDS SeatFiles
CONSTANTS o, g, k
MCFamily == [s \in Seat |-> CASE s = o -> "oauth" [] s = g -> "gitlab" [] OTHER -> "apikey"]
=============================================================================
