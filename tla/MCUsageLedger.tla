--------------------------- MODULE MCUsageLedger ---------------------------
(* Instances of UsageLedger for TLC.                                       *)
EXTENDS UsageLedger, TLC

CONSTANTS a, b, r1, r2

TwoAccounts == <<a, b>>

(* Nothing; the secondary window missing; both windows.                    *)
MCReadings == {[primary |-> 0, secondary |-> 0], [primary |-> 2, secondary |-> 0],
               [primary |-> 1, secondary |-> 1]}
AlikeRequests == Permutations(Requests)
============================================================================
