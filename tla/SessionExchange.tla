--------------------------- MODULE SessionExchange ---------------------------
(***************************************************************************)
(* What signing in promises of a session, whatever operators, browsers,     *)
(* sweeps and failures do: one handler at a time has it; its authorization  *)
(* code is accepted once; a handler whose account is stored never gives the *)
(* session back; and a session in flight is given up by whoever has it.     *)
(***************************************************************************)
EXTENDS Naturals

CONSTANTS Session, Handler, Nobody

VARIABLES
  status,   \* a session is new, open to a claim, in flight or gone
  hold,     \* who has it, and how far they are
  spent     \* sessions whose code the provider has taken

vars == <<status, hold, spent>>

Free == [by |-> Nobody, stage |-> "none"]
Held(h, stage) == [by |-> h, stage |-> stage]

Init ==
  /\ status = [s \in Session |-> "new"]
  /\ hold = [s \in Session |-> Free]
  /\ spent = {}

Open(s) ==
  /\ status[s] = "new"
  /\ status' = [status EXCEPT ![s] = "open"]
  /\ UNCHANGED <<hold, spent>>

(* Sessions are cancelled, swept away, or never start.                      *)
Withdraw(S) ==
  /\ status' = [s \in Session |-> IF s \in S THEN "gone" ELSE status[s]]
  /\ UNCHANGED <<hold, spent>>

Claim(h, s) ==
  /\ status[s] = "open" /\ hold[s] = Free
  /\ \E to \in {"inflight", "gone"} : status' = [status EXCEPT ![s] = to]
  /\ hold' = [hold EXCEPT ![s] = Held(h, "exchange")]
  /\ UNCHANGED spent

Exchange(s) ==
  /\ hold[s].stage = "exchange" /\ s \notin spent
  /\ hold' = [hold EXCEPT ![s] = Held(@.by, "store")]
  /\ spent' = spent \cup {s}
  /\ UNCHANGED status

Store(s) ==
  /\ hold[s].stage = "store"
  /\ hold' = [hold EXCEPT ![s] = Held(@.by, "finish")]
  /\ UNCHANGED <<status, spent>>

(* Before the account is stored the handler may fail; a refused or          *)
(* unanswered exchange may have cost the code.                              *)
Fail(s) ==
  /\ hold[s].stage \in {"exchange", "store"}
  /\ \/ hold' = [hold EXCEPT ![s] = Held(@.by, "release")]
     \/ status[s] = "gone" /\ hold' = [hold EXCEPT ![s] = Free]
  /\ spent' = spent \/ (hold[s].stage = "exchange" /\ spent' = spent \cup {s})
  /\ UNCHANGED status

Release(s) ==
  /\ hold[s].stage = "release"
  /\ status' = [status EXCEPT ![s] = IF @ = "inflight" THEN "open" ELSE @]
  /\ hold' = [hold EXCEPT ![s] = Free]
  /\ UNCHANGED spent

Finish(s) ==
  /\ hold[s].stage = "finish"
  /\ status' = [status EXCEPT ![s] = "gone"]
  /\ hold' = [hold EXCEPT ![s] = Free]
  /\ UNCHANGED spent

Next ==
  \/ \E S \in SUBSET Session : Withdraw(S)
  \/ \E s \in Session :
       \/ Open(s) \/ Exchange(s) \/ Store(s) \/ Fail(s) \/ Release(s) \/ Finish(s)
       \/ \E h \in Handler : Claim(h, s)

Spec == Init /\ [][Next]_vars
=============================================================================
