------------------------------ MODULE MCSignIn ------------------------------
(* A session of every lane, of which any two are started, all for one seat; *)
(* and two handlers that may get codes of either.                           *)
EXTENDS SignIn

MCSession == Lanes
MCLane == [s \in MCSession |-> s]
MCSeat == {"mine"}
MCPerson == [s \in MCSession |-> "mine"]
MCName == {"me"}
MCNameOf == [x \in MCSeat |-> "me"]
MCHandler == {"h1", "h2"}
=============================================================================
