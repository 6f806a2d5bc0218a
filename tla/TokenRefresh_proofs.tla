------------------------ MODULE TokenRefresh_proofs ------------------------
(* Proofs that the state of TokenRefresh keeps its type, that a seat is     *)
(* refreshed by one caller at a time through refreshAccountWithPolicy       *)
(* (invariant Inv), and, on top of that, what becomes of its tokens while   *)
(* there is one Account object for it (invariant Tokens).                   *)
EXTENDS TokenRefresh, TLAPS

(* A reload that has read the files still has a generation to fill.        *)
ReloadRoom == loaded.on => gen < MaxReloads

(* What a caller q of role Role[c] may be at: only an operator forces, only *)
(* a leader unregisters, and a save leads on to one of four phases.         *)
Route(c, q) ==
  /\ q.why = "force" => Role[c] = "operator"
  /\ q.phase = "unregister" => Role[c] # "operator"
  /\ q.phase = "saving" => q.then \in {"finishing", "idle", "sending", After(c)}
Routes == \A c \in Caller : Route(c, caller[c])

(* Leading, of a caller's record; its seat is registered under its name.    *)
Leads(q) ==
  /\ q.why # "force"
  /\ \/ q.phase \in {"gate", "window", "asking", "storing", "finishing", "unregister"}
     \/ q.phase = "saving" /\ q.then \in {"finishing", "unregister"}
Registered == \A c \in Caller : Leads(caller[c]) => refreshCalls[Target[c]] = c

(* The inductive invariant.                                                 *)
Inv == TypeOK /\ ReloadRoom /\ Routes /\ Registered

----------------------------------------------------------------------------
(* The initial values are in their types.                                   *)
LEMMA ConstantsTyped ==
  /\ 0 \in Pairs /\ 1 \in Pairs /\ 0 \in Generations
  /\ NoFile \in Files
  /\ Idle \in Callers
<1>1. 0 \in Pairs /\ 1 \in Pairs /\ 0 \in Generations
  BY RefreshAssumption DEF Pairs, Generations
<1>2. NoFile \in Files
  BY <1>1 DEF Files, NoFile
<1>3. Idle \in Callers
  BY <1>1, <1>2 DEF Idle, Callers, Phases, Results
<1>4. QED
  BY <1>1, <1>2, <1>3

(* The Account object a caller holds is one.                                *)
LEMMA Objects ==
  ASSUME TypeOK, NEW c \in Caller
  PROVE  /\ Target[c] \in Seat
         /\ caller[c] \in Callers
         /\ caller[c].g \in Generations
         /\ Mine(c) \in Accounts
<1>1. Target[c] \in Seat /\ caller[c] \in Callers
  BY RefreshAssumption DEF TypeOK
<1>2. caller[c].g \in Generations
  BY <1>1 DEF Callers
<1>3. QED
  BY <1>1, <1>2 DEF TypeOK, Mine

(* Giving one caller a new record keeps the callers typed.                  *)
LEMMA CallerSet ==
  ASSUME TypeOK, NEW c \in Caller, NEW q \in Callers, caller' = [caller EXCEPT ![c] = q]
  PROVE  caller' \in [Caller -> Callers]
BY DEF TypeOK

(* The fields a step changes keep a caller's record typed.                  *)
LEMMA Moved ==
  ASSUME NEW q \in Callers, NEW phase \in Phases, NEW result \in Results, NEW n \in Pairs
  PROVE  /\ [q EXCEPT !.phase = phase] \in Callers
         /\ [q EXCEPT !.phase = phase, !.result = result] \in Callers
         /\ [q EXCEPT !.phase = phase, !.token = n] \in Callers
         /\ [q EXCEPT !.phase = phase, !.access = n] \in Callers
         /\ [q EXCEPT !.phase = phase, !.result = result, !.token = n] \in Callers
BY DEF Callers

(* So do the fields of a save.                                              *)
LEMMA Saved ==
  ASSUME NEW q \in Callers, NEW phase \in Phases, NEW next \in Phases, NEW f \in Files,
         NEW n \in Pairs
  PROVE  /\ [q EXCEPT !.phase = phase, !.file = f, !.then = next, !.token = n] \in Callers
         /\ [q EXCEPT !.phase = phase, !.file = f, !.then = next] \in Callers
BY DEF Callers

(* So does the field of a waiter.                                           *)
LEMMA Waiting ==
  ASSUME NEW q \in Callers, NEW phase \in Phases, NEW d \in Caller \cup {NoCaller}
  PROVE  [q EXCEPT !.phase = phase, !.on = d] \in Callers
BY DEF Callers

(* So do those of a waiter that is told.                                    *)
LEMMA Telling ==
  ASSUME NEW q \in Callers, NEW phase \in Phases, NEW result \in Results
  PROVE  [q EXCEPT !.phase = phase, !.result = result, !.on = NoCaller] \in Callers
BY DEF Callers

(* So do those of a retry.                                                  *)
LEMMA Retrying ==
  ASSUME NEW q \in Callers, NEW phase \in Phases
  PROVE  [q EXCEPT !.phase = phase, !.why = "retry"] \in Callers
BY DEF Callers

(* So do those of a request that is sent.                                   *)
LEMMA Sending ==
  ASSUME NEW q \in Callers, NEW phase \in Phases, NEW n \in Pairs
  PROVE  [q EXCEPT !.phase = phase, !.access = n] \in Callers
BY DEF Callers

(* Each of these is a phase.                                                *)
LEMMA PhaseNames ==
  {"idle", "sending", "sent", "joining", "waiting", "finishing", "saving", "told",
   "verdict"} \subseteq Phases
BY DEF Phases

(* A caller that moves on keeps its type.                                   *)
LEMMA GoesTyped ==
  ASSUME TypeOK, NEW c \in Caller, NEW phase \in Phases, Goes(c, phase) \/ Proceeds(c, phase)
  PROVE  caller' \in [Caller -> Callers]
<1>1. caller[c] \in Callers /\ "none" \in Results
  BY DEF TypeOK, Results
<1>2. QED
  BY <1>1, Moved, CallerSet, ConstantsTyped DEF Goes, Proceeds

(* A caller that stops keeps its type.                                      *)
LEMMA StopsTyped ==
  ASSUME TypeOK, NEW c \in Caller, Stops(c)
  PROVE  caller' \in [Caller -> Callers]
BY CallerSet, ConstantsTyped DEF Stops

(* A caller that begins a save keeps its type.                              *)
LEMMA SavesTyped ==
  ASSUME TypeOK, NEW c \in Caller, NEW a \in Accounts, NEW next \in Phases, Saves(c, a, next)
  PROVE  caller' \in [Caller -> Callers]
<1>1. FileOf(a) \in Files
  BY DEF FileOf, Accounts, Files
<1>2. [caller[c] EXCEPT !.phase = "saving", !.file = FileOf(a), !.then = next,
                        !.token = 0] \in Callers
  BY <1>1, Objects, ConstantsTyped, Saved, PhaseNames
<1>3. QED
  BY <1>2, CallerSet DEF Saves

(* Writing the held Account object keeps the objects typed.                 *)
LEMMA AccountSet ==
  ASSUME TypeOK, NEW c \in Caller, NEW a \in Accounts, SetMine(c, a)
  PROVE  account' \in [Generations -> [Seat -> Accounts]]
BY Objects DEF TypeOK, SetMine

(* Flags of an object may be cleared.                                       *)
LEMMA Edited ==
  ASSUME NEW a \in Accounts
  PROVE  /\ [a EXCEPT !.limited = FALSE, !.recent = FALSE] \in Accounts
         /\ [a EXCEPT !.limited = FALSE] \in Accounts
         /\ [a EXCEPT !.recent = FALSE] \in Accounts
BY DEF Accounts

(* What the steps of a caller mostly leave alone.                           *)
Rest == <<provider, gen, loaded, history>>
(* What a caller's step must show for TypeOK: the rest is untouched.        *)
LEMMA Frame ==
  ASSUME TypeOK, UNCHANGED Rest, windowOpen' \in BOOLEAN,
         caller' \in [Caller -> Callers],
         account' \in [Generations -> [Seat -> Accounts]],
         disk' \in [Seat -> Files],
         refreshCalls' \in [Seat -> Caller \cup {NoCaller}]
  PROVE  TypeOK'
BY DEF TypeOK, Rest, provider, history

(* TypeOK is kept by the start of a request or a poll.                      *)
LEMMA StartTypes == ASSUME TypeOK, NEW c \in Caller, Start(c) PROVE TypeOK'
<1>1. [Idle EXCEPT !.phase = "deciding", !.g = gen] \in Callers
  BY ConstantsTyped DEF TypeOK, Callers, Phases
<1>2. caller' \in [Caller -> Callers]
  BY <1>1, CallerSet DEF Start
<1>3. QED
  BY <1>2, Frame DEF Start, TypeOK, Rest

(* TypeOK is kept by forceRefreshAccount.                                   *)
LEMMA ForceRefreshTypes == ASSUME TypeOK, NEW c \in Caller, ForceRefresh(c) PROVE TypeOK'
<1>1. [Idle EXCEPT !.phase = "gate", !.g = gen, !.why = "force"] \in Callers
  BY ConstantsTyped DEF TypeOK, Callers, Phases
<1>2. caller' \in [Caller -> Callers]
  BY <1>1, CallerSet DEF ForceRefresh
<1>3. Target[c] \in Seat /\ gen \in Generations
  BY RefreshAssumption DEF TypeOK
<1>4. [account[gen][Target[c]] EXCEPT !.limited = FALSE, !.recent = FALSE] \in Accounts
  <2>1. account[gen][Target[c]] \in Accounts
    BY <1>3 DEF TypeOK
  <2>2. QED
    BY <2>1, Edited
<1>5. account' \in [Generations -> [Seat -> Accounts]]
  BY <1>3, <1>4 DEF ForceRefresh, TypeOK
<1>6. forced' \in SUBSET Seat
  BY <1>3 DEF ForceRefresh, TypeOK
<1>7. QED
  BY <1>2, <1>5, <1>6 DEF ForceRefresh, TypeOK, provider

(* TypeOK is kept by needsRefresh.                                          *)
LEMMA DecideTypes == ASSUME TypeOK, NEW c \in Caller, Decide(c) PROVE TypeOK'
<1>1. caller' \in [Caller -> Callers]
  BY GoesTyped DEF Decide, Phases
<1>2. QED
  BY <1>1, Frame DEF Decide, TypeOK, Rest

(* TypeOK is kept by joining or leading a refresh.                          *)
LEMMA JoinTypes == ASSUME TypeOK, NEW c \in Caller, Join(c) PROVE TypeOK'
<1>1. CASE refreshCalls[Target[c]] # NoCaller
  <2>1. refreshCalls[Target[c]] \in Caller
    BY <1>1, Objects DEF TypeOK
  <2>2. [caller[c] EXCEPT !.phase = "waiting", !.on = refreshCalls[Target[c]]] \in Callers
    BY <2>1, Objects, Waiting, PhaseNames
  <2>3. caller' \in [Caller -> Callers]
    BY <1>1, <2>2, CallerSet DEF Join
  <2>4. QED
    BY <1>1, <2>3, Frame DEF Join, TypeOK, Rest
<1>2. CASE refreshCalls[Target[c]] = NoCaller
  <2>1. caller' \in [Caller -> Callers]
    BY <1>2, GoesTyped DEF Join, Phases
  <2>2. refreshCalls' \in [Seat -> Caller \cup {NoCaller}]
    BY <1>2, Objects DEF Join, TypeOK
  <2>3. QED
    BY <2>1, <2>2, Frame DEF Join, TypeOK, Rest
<1>3. QED
  BY <1>1, <1>2

(* A throttled caller keeps its type.                                       *)
LEMMA ThrottledTyped ==
  ASSUME TypeOK, NEW c \in Caller, Throttled(c)
  PROVE  caller' \in [Caller -> Callers]
<1>1. After(c) \in Phases /\ "throttled" \in Results
  BY DEF After, Phases, Results
<1>2. QED
  BY <1>1, Objects, Moved, ConstantsTyped, CallerSet DEF Throttled

(* TypeOK is kept by the account's throttle.                                *)
LEMMA AccountGateTypes == ASSUME TypeOK, NEW c \in Caller, AccountGate(c) PROVE TypeOK'
<1>1. caller' \in [Caller -> Callers]
  BY GoesTyped, ThrottledTyped DEF AccountGate, Phases
<1>2. QED
  BY <1>1, Frame DEF AccountGate, TypeOK, Rest

(* TypeOK is kept by the throttle of the process.                           *)
LEMMA GlobalGateTypes == ASSUME TypeOK, NEW c \in Caller, GlobalGate(c) PROVE TypeOK'
<1>1. Mine(c).token \in Pairs /\ "asking" \in Phases /\ "none" \in Results
  BY Objects DEF Accounts, Phases, Results
<1>2. [caller[c] EXCEPT !.phase = "asking", !.token = Mine(c).token] \in Callers
  BY <1>1, Objects, Moved
<1>3. caller' \in [Caller -> Callers]
  BY <1>2, CallerSet, ThrottledTyped DEF GlobalGate
<1>4. QED
  BY <1>3, Frame DEF GlobalGate, TypeOK, Rest

(* A caller that the provider answers keeps its type.                       *)
LEMMA AnsweredTyped ==
  ASSUME TypeOK, NEW c \in Caller, NEW phase \in {"storing", "finishing"},
         NEW result \in {"ok", "invalid", "failed"}, NEW token \in Pairs,
         Answered(c, phase, result, token)
  PROVE  caller' \in [Caller -> Callers]
<1>1. phase \in Phases /\ result \in Results
  BY DEF Phases, Results
<1>2. QED
  BY <1>1, Objects, Moved, CallerSet DEF Answered

(* TypeOK is kept by a rotation: MaxIssued bounds the pairs.                *)
LEMMA RotatesTypes == ASSUME TypeOK, NEW c \in Caller, Rotates(c) PROVE TypeOK'
<1>1. /\ Target[c] \in Seat
      /\ issued[Target[c]] \in Nat /\ issued[Target[c]] < MaxIssued
      /\ caller[c].token \in Pairs
  BY Objects, RefreshAssumption DEF TypeOK, Pairs, Rotates, Callers
<1>2. issued[Target[c]] + 1 \in Pairs
  BY <1>1, RefreshAssumption DEF Pairs
<1>3. issued' \in [Seat -> Pairs]
  BY <1>1, <1>2 DEF Rotates, TypeOK
<1>4. caller' \in [Caller -> Callers]
  BY <1>1, <1>2, AnsweredTyped DEF Rotates
<1>5. orphaned' \subseteq Seat /\ lost' \in 0..MaxLost
  BY <1>1, RefreshAssumption DEF Rotates, Losing, TypeOK
<1>6. QED
  BY <1>3, <1>4, <1>5 DEF Rotates, TypeOK

(* TypeOK is kept by a refusal.                                             *)
LEMMA RefusesTypes == ASSUME TypeOK, NEW c \in Caller, Refuses(c) PROVE TypeOK'
<1>1. caller[c].token \in Pairs
  BY Objects DEF Callers
<1>2. caller' \in [Caller -> Callers]
  BY <1>1, AnsweredTyped DEF Refuses
<1>3. QED
  BY <1>2, Frame DEF Refuses, TypeOK, Rest

(* TypeOK is kept by storing the rotated pair.                              *)
LEMMA StoreTypes == ASSUME TypeOK, NEW c \in Caller, Store(c) PROVE TypeOK'
<1> DEFINE a == [Mine(c) EXCEPT !.token = caller[c].token, !.recent = TRUE, !.dead = FALSE]
<1>1. a \in Accounts /\ "finishing" \in Phases
  <2>1. Mine(c) \in Accounts /\ caller[c].token \in Pairs
    BY Objects DEF Callers
  <2>2. QED
    BY <2>1, PhaseNames DEF Accounts
<1>2. account' \in [Generations -> [Seat -> Accounts]]
  BY <1>1, AccountSet DEF Store
<1>3. caller' \in [Caller -> Callers]
  BY <1>1, SavesTyped DEF Store
<1>4. QED
  BY <1>2, <1>3, Frame DEF Store, TypeOK, Rest

(* TypeOK is kept by the end of refreshAccountOnce.                         *)
LEMMA FinishTypes == ASSUME TypeOK, NEW c \in Caller, Finish(c) PROVE TypeOK'
<1>1. PICK recent \in {TRUE, Mine(c).recent} :
        LET a == [Mine(c) EXCEPT !.recent = recent]
        IN SetMine(c, a) /\ Saves(c, a, After(c))
  BY DEF Finish
<1> DEFINE a == [Mine(c) EXCEPT !.recent = recent]
<1>2. a \in Accounts /\ After(c) \in Phases
  BY Objects DEF Accounts, After, Phases
<1>3. account' \in [Generations -> [Seat -> Accounts]]
  BY <1>1, <1>2, AccountSet
<1>4. caller' \in [Caller -> Callers]
  BY <1>1, <1>2, SavesTyped
<1>5. QED
  BY <1>3, <1>4, Frame DEF Finish, TypeOK, Rest

(* TypeOK is kept by the replacement of the file.                           *)
LEMMA WriteFileTypes == ASSUME TypeOK, NEW c \in Caller, WriteFile(c) PROVE TypeOK'
<1>1. caller[c].file \in Files
  BY Objects DEF Callers
<1>2. disk' \in [Seat -> Files]
  BY <1>1, Objects DEF WriteFile, TypeOK
<1>3. [caller[c] EXCEPT !.phase = caller[c].then, !.file = NoFile, !.then = "idle"] \in Callers
  <2>1. caller[c] \in Callers /\ caller[c].then \in Phases
    BY Objects DEF Callers
  <2>2. QED
    BY <2>1, ConstantsTyped, Saved, PhaseNames
<1>4. caller' \in [Caller -> Callers]
  BY <1>3, CallerSet, StopsTyped DEF WriteFile
<1>5. QED
  BY <1>2, <1>4, Frame DEF WriteFile, TypeOK, Rest

(* TypeOK is kept by a save that fails.                                     *)
LEMMA WriteFailsTypes == ASSUME TypeOK, NEW c \in Caller, WriteFails(c) PROVE TypeOK'
<1>1. [caller[c] EXCEPT !.phase = "finishing", !.file = NoFile, !.then = "idle",
                        !.result = "failed"] \in Callers
  <2>1. "finishing" \in Phases /\ "idle" \in Phases /\ "failed" \in Results
    BY DEF Phases, Results
  <2>2. QED
    BY <2>1, Objects, ConstantsTyped DEF Callers
<1>2. caller' \in [Caller -> Callers]
  BY <1>1, CallerSet DEF WriteFails
<1>3. lost' \in 0..MaxLost
  BY RefreshAssumption DEF WriteFails, Losing, TypeOK
<1>4. QED
  BY <1>2, <1>3 DEF WriteFails, TypeOK, provider

(* TypeOK is kept by leaving refreshCalls.                                  *)
LEMMA UnregisterTypes == ASSUME TypeOK, NEW c \in Caller, Unregister(c) PROVE TypeOK'
<1>1. caller' \in [Caller -> Callers]
  BY GoesTyped DEF Unregister, Phases
<1>2. refreshCalls' \in [Seat -> Caller \cup {NoCaller}]
  BY Objects DEF Unregister, TypeOK
<1>3. QED
  BY <1>1, <1>2, Frame DEF Unregister, TypeOK, Rest

(* TypeOK is kept by telling the waiters.                                   *)
LEMMA CloseDoneTypes == ASSUME TypeOK, NEW c \in Caller, CloseDone(c) PROVE TypeOK'
<1>1. ASSUME NEW d \in Caller
      PROVE  [caller[d] EXCEPT !.phase = "told", !.result = caller[c].result,
                               !.on = NoCaller] \in Callers
  <2>1. caller[d] \in Callers /\ caller[c].result \in Results
    BY Objects DEF Callers
  <2>2. QED
    BY <2>1, Telling, PhaseNames
<1>2. caller' \in [Caller -> Callers]
  BY <1>1 DEF CloseDone, TypeOK
<1>3. QED
  BY <1>2, Frame DEF CloseDone, TypeOK, Rest

(* What a step outside a refresh must show for TypeOK.                      *)
LEMMA KeptTyped ==
  ASSUME TypeOK, Keep, caller' \in [Caller -> Callers],
         account' \in [Generations -> [Seat -> Accounts]]
  PROVE  TypeOK'
BY Frame DEF Keep, Rest, TypeOK

(* TypeOK is kept by the backoff after a throttled refresh.                 *)
LEMMA BenchedByThrottleTypes ==
  ASSUME TypeOK, NEW c \in Caller, BenchedByThrottle(c) PROVE TypeOK'
<1>1. [Mine(c) EXCEPT !.limited = TRUE] \in Accounts
  BY Objects DEF Accounts
<1>2. account' \in [Generations -> [Seat -> Accounts]]
  BY <1>1, AccountSet DEF BenchedByThrottle, TypeOK
<1>3. caller' \in [Caller -> Callers]
  BY GoesTyped, StopsTyped DEF BenchedByThrottle, Phases
<1>4. QED
  BY <1>2, <1>3, KeptTyped DEF BenchedByThrottle

(* TypeOK is kept by going on after a refresh.                              *)
LEMMA RefreshedTypes == ASSUME TypeOK, NEW c \in Caller, Refreshed(c) PROVE TypeOK'
<1>1. [Mine(c) EXCEPT !.dead = FALSE] \in Accounts
  BY Objects DEF Accounts
<1>2. account' \in [Generations -> [Seat -> Accounts]]
  BY <1>1, AccountSet DEF Refreshed, TypeOK
<1>3. Proceeds(c, "sending") \/ Proceeds(c, "resending") \/ Stops(c)
  BY DEF Refreshed
<1>4. caller' \in [Caller -> Callers]
  BY <1>3, GoesTyped, StopsTyped DEF Phases
<1>5. QED
  BY <1>2, <1>4, KeptTyped DEF Refreshed

(* TypeOK is kept by a failed preemptive refresh.                           *)
LEMMA PreemptFailsTypes == ASSUME TypeOK, NEW c \in Caller, PreemptFails(c) PROVE TypeOK'
<1> DEFINE direct == Role[c] = "direct"
<1>1. direct \in BOOLEAN /\ "sending" \in Phases /\ "none" \in Results
  BY DEF Phases, Results
<1>2. caller' = [caller EXCEPT ![c] = [caller[c] EXCEPT !.phase = "sending", !.result = "none",
                                                        !.bad = direct]]
  BY DEF PreemptFails
<1> HIDE DEF direct
<1>3. caller[c] \in Callers
  BY Objects
<1>4. [caller[c] EXCEPT !.phase = "sending", !.result = "none", !.bad = direct] \in Callers
  BY <1>1, <1>3 DEF Callers
<1>5. caller' \in [Caller -> Callers]
  BY <1>2, <1>4, CallerSet
<1>6. QED
  BY <1>5, KeptTyped DEF PreemptFails, TypeOK

(* Marking a seat dead keeps objects and callers typed.                     *)
LEMMA MarksDeadTyped ==
  ASSUME TypeOK, NEW c \in Caller, MarksDead(c)
  PROVE  /\ account' \in [Generations -> [Seat -> Accounts]]
         /\ caller' \in [Caller -> Callers]
<1>1. [Mine(c) EXCEPT !.dead = TRUE] \in Accounts /\ "idle" \in Phases
  BY Objects DEF Accounts, Phases
<1>2. QED
  BY <1>1, AccountSet, SavesTyped DEF MarksDead

(* TypeOK is kept by a refused refresh token.                               *)
LEMMA RefreshInvalidTypes ==
  ASSUME TypeOK, NEW c \in Caller, RefreshInvalid(c) PROVE TypeOK'
<1>1. \/ (Goes(c, "probing") \/ Stops(c)) /\ UNCHANGED account
      \/ MarksDead(c)
  BY DEF RefreshInvalid
<1>2. account' \in [Generations -> [Seat -> Accounts]] /\ caller' \in [Caller -> Callers]
  BY <1>1, GoesTyped, StopsTyped, MarksDeadTyped DEF TypeOK, Phases
<1>3. QED
  BY <1>2, KeptTyped DEF RefreshInvalid

(* TypeOK is kept by a failed refresh after a 401.                          *)
LEMMA RetryFailsTypes == ASSUME TypeOK, NEW c \in Caller, RetryFails(c) PROVE TypeOK'
<1>1. account' \in [Generations -> [Seat -> Accounts]] /\ caller' \in [Caller -> Callers]
  BY StopsTyped, MarksDeadTyped DEF RetryFails, TypeOK
<1>2. QED
  BY <1>1, KeptTyped DEF RetryFails

(* TypeOK is kept by probeCodexCurrentAccess.                               *)
LEMMA ProbeTypes == ASSUME TypeOK, NEW c \in Caller, Probe(c) PROVE TypeOK'
<1>1. PICK result \in {"live", "unusable", "unknown"} :
        caller' = [caller EXCEPT ![c] = [caller[c] EXCEPT !.phase = "verdict", !.result = result]]
  BY DEF Probe
<1>2. [caller[c] EXCEPT !.phase = "verdict", !.result = result] \in Callers
  <2>1. result \in Results
    BY DEF Results
  <2>2. QED
    BY <2>1, Objects, Moved, PhaseNames, ConstantsTyped
<1>3. caller' \in [Caller -> Callers]
  BY <1>1, <1>2, CallerSet
<1>4. QED
  BY <1>3, KeptTyped DEF Probe, TypeOK

(* TypeOK is kept by applying the probe's verdict.                          *)
LEMMA VerdictTypes == ASSUME TypeOK, NEW c \in Caller, Verdict(c) PROVE TypeOK'
<1> DEFINE a == CASE caller[c].result = "live" -> [Mine(c) EXCEPT !.dead = FALSE]
                  [] caller[c].result = "unusable" -> [Mine(c) EXCEPT !.dead = TRUE]
                  [] OTHER -> Mine(c)
           next == IF caller[c].why = "preempt" /\ caller[c].result # "unusable"
                   THEN "sending" ELSE "idle"
<1>1. /\ [Mine(c) EXCEPT !.dead = FALSE] \in Accounts
      /\ [Mine(c) EXCEPT !.dead = TRUE] \in Accounts
      /\ Mine(c) \in Accounts
  BY Objects DEF Accounts
<1>2. a \in Accounts /\ next \in Phases
  BY <1>1 DEF Phases
<1>3. SetMine(c, a) /\ Saves(c, a, next) /\ Keep
  BY DEF Verdict
<1> HIDE DEF a, next
<1>4. account' \in [Generations -> [Seat -> Accounts]] /\ caller' \in [Caller -> Callers]
  BY <1>2, <1>3, AccountSet, SavesTyped
<1>5. QED
  BY <1>3, <1>4, KeptTyped

(* TypeOK is kept by sending a request.                                     *)
LEMMA SendTypes == ASSUME TypeOK, NEW c \in Caller, Send(c) PROVE TypeOK'
<1>1. [caller[c] EXCEPT !.phase = "sent", !.access = Mine(c).token] \in Callers
  <2>1. Mine(c).token \in Pairs /\ caller[c] \in Callers
    BY Objects DEF Accounts
  <2>2. QED
    BY <2>1, Sending, PhaseNames
<1>2. caller' \in [Caller -> Callers]
  BY <1>1, CallerSet DEF Send
<1>3. QED
  BY <1>2, KeptTyped DEF Send, TypeOK

(* TypeOK is kept by an accepted request.                                   *)
LEMMA ServedTypes == ASSUME TypeOK, NEW c \in Caller, Served(c) PROVE TypeOK'
<1>1. [Mine(c) EXCEPT !.limited = TRUE] \in Accounts /\ Mine(c) \in Accounts /\ "idle" \in Phases
  BY Objects DEF Accounts, Phases
<1>2. account' \in [Generations -> [Seat -> Accounts]] /\ caller' \in [Caller -> Callers]
  BY <1>1, StopsTyped, SavesTyped, AccountSet DEF Served, TypeOK
<1>3. QED
  BY <1>2, KeptTyped DEF Served

(* TypeOK is kept by a 401.                                                 *)
LEMMA RejectedTypes == ASSUME TypeOK, NEW c \in Caller, Rejected(c) PROVE TypeOK'
<1>1. [caller[c] EXCEPT !.phase = "joining", !.why = "retry"] \in Callers
  BY Objects, Retrying, PhaseNames
<1>2. account' \in [Generations -> [Seat -> Accounts]] /\ caller' \in [Caller -> Callers]
  BY <1>1, CallerSet, StopsTyped, MarksDeadTyped DEF Rejected, TypeOK
<1>3. QED
  BY <1>2, KeptTyped DEF Rejected

(* TypeOK is kept by the retry.                                             *)
LEMMA ResendTypes == ASSUME TypeOK, NEW c \in Caller, Resend(c) PROVE TypeOK'
<1>1. caller' \in [Caller -> Callers]
  BY StopsTyped DEF Resend
<1>2. QED
  BY <1>1, KeptTyped DEF Resend, TypeOK

(* TypeOK is kept by time and the provider.                                 *)
LEMMA EnvironmentTypes ==
  ASSUME TypeOK, NEW s \in Seat,
         Lapse(s) \/ WindowOpens \/ IntervalPasses(s) \/ BackoffPasses(s)
  PROVE  TypeOK'
<1>1. CASE Lapse(s)
  <2>1. lapsed' \in [Seat -> Pairs]
    BY <1>1 DEF Lapse, TypeOK
  <2>2. QED
    BY <1>1, <2>1 DEF Lapse, TypeOK, history
<1>2. CASE WindowOpens
  BY <1>2, Frame DEF WindowOpens, TypeOK, Rest
<1>3. CASE IntervalPasses(s)
  <2>1. ASSUME NEW g \in Generations
        PROVE  [account[g] EXCEPT ![s] = [@ EXCEPT !.recent = FALSE]] \in [Seat -> Accounts]
    <3>1. account[g] \in [Seat -> Accounts]
      BY DEF TypeOK
    <3>2. [account[g][s] EXCEPT !.recent = FALSE] \in Accounts
      BY <3>1, Edited
    <3>3. QED
      BY <3>1, <3>2
  <2>2. account' \in [Generations -> [Seat -> Accounts]]
    BY <1>3, <2>1 DEF IntervalPasses
  <2>3. disk' \in [Seat -> Files]
    <3>1. \A f \in Files : [f EXCEPT !.recent = FALSE] \in Files
      BY DEF Files
    <3>2. QED
      BY <1>3, <3>1 DEF IntervalPasses, TypeOK
  <2>4. QED
    BY <1>3, <2>2, <2>3, Frame DEF IntervalPasses, TypeOK, Rest
<1>4. CASE BackoffPasses(s)
  <2>1. [account[gen][s] EXCEPT !.limited = FALSE] \in Accounts
    <3>1. account[gen][s] \in Accounts
      BY DEF TypeOK
    <3>2. QED
      BY <3>1, Edited
  <2>2. account' \in [Generations -> [Seat -> Accounts]]
    BY <1>4, <2>1 DEF BackoffPasses, TypeOK
  <2>3. QED
    BY <1>4, <2>2, Frame DEF BackoffPasses, TypeOK, Rest
<1>5. QED
  BY <1>1, <1>2, <1>3, <1>4

(* A file makes an Account object.                                          *)
LEMMA FromFileTyped ==
  ASSUME NEW f \in Files, NEW limited \in BOOLEAN
  PROVE  FromFile(f, limited) \in Accounts
BY DEF FromFile, Files, Accounts

(* TypeOK is kept by reading the files.                                     *)
LEMMA ReloadLoadsTypes == ASSUME TypeOK, ReloadLoads PROVE TypeOK'
<1>1. [s \in Seat |-> account[gen][s].limited] \in [Seat -> BOOLEAN]
  BY DEF TypeOK, Accounts
<1>2. loaded' \in Loading
  BY <1>1 DEF ReloadLoads, Loading, TypeOK
<1>3. QED
  BY <1>2 DEF ReloadLoads, TypeOK, provider, history

(* TypeOK is kept by installing new objects: there is a generation left.    *)
LEMMA ReloadReplacesTypes ==
  ASSUME TypeOK, ReloadRoom, ReloadReplaces PROVE TypeOK'
<1>1. loaded \in Loading
  BY DEF ReloadReplaces, TypeOK, NotLoading
<1>2. \A s \in Seat : FromFile(loaded.files[s], loaded.limited[s]) \in Accounts
  BY <1>1, FromFileTyped DEF Loading
<1>3. account' \in [Generations -> [Seat -> Accounts]]
  BY <1>2 DEF ReloadReplaces, TypeOK
<1>4. gen' \in Generations
  <2>1. gen \in 0..MaxReloads /\ gen < MaxReloads /\ MaxReloads \in Nat
    BY RefreshAssumption DEF ReloadRoom, ReloadReplaces, TypeOK, Generations
  <2>2. gen + 1 \in 0..MaxReloads
    BY <2>1
  <2>3. QED
    BY <2>2 DEF ReloadReplaces, Generations
<1>5. QED
  BY <1>3, <1>4 DEF ReloadReplaces, TypeOK, provider, history

(* TypeOK is kept by a restart.                                             *)
LEMMA RestartTypes == ASSUME TypeOK, Restart PROVE TypeOK'
<1>1. \A s \in Seat : FromFile(disk[s], FALSE) \in Accounts
  BY FromFileTyped DEF TypeOK
<1>2. account' \in [Generations -> [Seat -> Accounts]]
  BY <1>1 DEF Restart
<1>3. caller' \in [Caller -> Callers] /\ refreshCalls' \in [Seat -> Caller \cup {NoCaller}]
  BY ConstantsTyped DEF Restart
<1>4. orphaned' \in SUBSET Seat /\ crashes' \in 0..MaxCrashes
  BY RefreshAssumption DEF Restart, TypeOK
<1>5. QED
  BY <1>2, <1>3, <1>4 DEF Restart, TypeOK, provider

----------------------------------------------------------------------------
(* One caller moves and refreshCalls stays: the routes and the              *)
(* registration hold if it does not become a leader.                        *)
LEMMA OneCaller ==
  ASSUME Inv, NEW c \in Caller, NEW q, caller' = [caller EXCEPT ![c] = q],
         UNCHANGED refreshCalls, Route(c, q), Leads(q) => Leads(caller[c])
  PROVE  Routes' /\ Registered'
<1>1. caller \in [Caller -> Callers]
  BY DEF Inv, TypeOK
<1>2. ASSUME NEW d \in Caller
      PROVE  Route(d, caller'[d]) /\ (Leads(caller'[d]) => Leads(caller[d]))
  <2>1. caller'[d] = IF d = c THEN q ELSE caller[d]
    BY <1>1
  <2>2. QED
    BY <2>1 DEF Inv, Routes
<1>3. Routes'
  BY <1>2 DEF Routes, Route, After
<1>4. Registered'
  BY <1>2 DEF Registered, Inv, Leads
<1>5. QED
  BY <1>3, <1>4

(* A caller that goes where nobody leads keeps both.                        *)
LEMMA Quiet ==
  ASSUME Inv, NEW c \in Caller, NEW q, caller' = [caller EXCEPT ![c] = q],
         UNCHANGED refreshCalls, q.why # caller[c].why => q.why # "force",
         q.phase \in {"idle", "deciding", "sending", "sent", "resending", "joining",
                      "waiting", "closing", "told", "probing", "verdict"}
  PROVE  Routes' /\ Registered'
<1>1. Route(c, q) /\ ~Leads(q)
  BY DEF Inv, Routes, Route, Leads
<1>2. QED
  BY <1>1, OneCaller

(* A caller that stops keeps both.                                          *)
LEMMA StopsLeads ==
  ASSUME Inv, NEW c \in Caller, Stops(c), UNCHANGED refreshCalls
  PROVE  Routes' /\ Registered'
BY Quiet DEF Stops, Idle

(* A caller that moves on outside a refresh keeps both.                     *)
LEMMA GoesLeads ==
  ASSUME Inv, NEW c \in Caller,
         NEW phase \in {"sending", "resending", "joining", "closing", "probing"},
         Goes(c, phase) \/ Proceeds(c, phase), UNCHANGED refreshCalls
  PROVE  Routes' /\ Registered'
<1>1. caller[c] \in Callers
  BY DEF Inv, TypeOK
<1>2. CASE Goes(c, phase)
  <2> DEFINE q == [caller[c] EXCEPT !.phase = phase]
  <2>1. q.why = caller[c].why /\ q.phase = phase
    BY <1>1 DEF Callers
  <2>2. caller' = [caller EXCEPT ![c] = q]
    BY <1>2 DEF Goes
  <2> HIDE DEF q
  <2>3. QED
    BY <2>1, <2>2, Quiet
<1>3. CASE Proceeds(c, phase)
  <2> DEFINE q == [caller[c] EXCEPT !.phase = phase, !.result = "none"]
  <2>1. q.why = caller[c].why /\ q.phase = phase
    BY <1>1 DEF Callers
  <2>2. caller' = [caller EXCEPT ![c] = q]
    BY <1>3 DEF Proceeds
  <2> HIDE DEF q
  <2>3. QED
    BY <2>1, <2>2, Quiet
<1>4. QED
  BY <1>2, <1>3

(* A caller within refreshAccountOnce keeps both: a leader stays one until  *)
(* it unregisters.                                                          *)
LEMMA StaysInRefresh ==
  ASSUME Inv, NEW c \in Caller, NEW q, caller' = [caller EXCEPT ![c] = q],
         UNCHANGED refreshCalls, q.why = caller[c].why,
         caller[c].phase \in {"gate", "window", "asking", "storing", "finishing"},
         \/ q.phase \in {"window", "asking", "storing", "finishing", After(c)}
         \/ q.phase = "saving" /\ q.then \in {"finishing", After(c)}
  PROVE  Routes' /\ Registered'
<1>1. Leads(q) => Leads(caller[c])
  BY DEF Leads
<1>2. Route(c, q)
  BY DEF Inv, Routes, Route, After
<1>3. QED
  BY <1>1, <1>2, OneCaller

(* The saves of a refresh keep both.                                        *)
LEMMA StoringLeads ==
  ASSUME Inv, NEW c \in Caller, NEW a, NEW next \in {"finishing", After(c)},
         caller[c].phase \in {"storing", "finishing"},
         Saves(c, a, next), UNCHANGED refreshCalls
  PROVE  Routes' /\ Registered'
<1> DEFINE q == [caller[c] EXCEPT !.phase = "saving", !.file = FileOf(a), !.then = next,
                                  !.token = 0]
<1>1. q.why = caller[c].why /\ q.phase = "saving" /\ q.then = next
  BY DEF Inv, TypeOK, Callers
<1>2. caller' = [caller EXCEPT ![c] = q]
  BY DEF Saves
<1> HIDE DEF q
<1>3. QED
  BY <1>1, <1>2, StaysInRefresh

(* A save outside a refresh keeps both.                                     *)
LEMMA SavingLeads ==
  ASSUME Inv, NEW c \in Caller, NEW a, NEW next \in {"idle", "sending"},
         Saves(c, a, next), UNCHANGED refreshCalls
  PROVE  Routes' /\ Registered'
<1> DEFINE q == [caller[c] EXCEPT !.phase = "saving", !.file = FileOf(a), !.then = next,
                                  !.token = 0]
<1>1. q.why = caller[c].why /\ q.phase = "saving" /\ q.then = next
  BY DEF Inv, TypeOK, Callers
<1>2. caller' = [caller EXCEPT ![c] = q]
  BY DEF Saves
<1> HIDE DEF q
<1>3. Route(c, q) /\ ~Leads(q)
  BY <1>1 DEF Inv, Routes, Route, Leads
<1>4. QED
  BY <1>2, <1>3, OneCaller

(* A throttled caller keeps both.                                           *)
LEMMA ThrottledLeads ==
  ASSUME Inv, NEW c \in Caller, Throttled(c), UNCHANGED refreshCalls,
         caller[c].phase \in {"gate", "window"}
  PROVE  Routes' /\ Registered'
<1> DEFINE q == [caller[c] EXCEPT !.phase = After(c), !.result = "throttled"]
<1>1. q.why = caller[c].why /\ q.phase = After(c)
  BY DEF Inv, TypeOK, Callers
<1>2. caller' = [caller EXCEPT ![c] = q]
  BY DEF Throttled
<1> HIDE DEF q
<1>3. QED
  BY <1>1, <1>2, StaysInRefresh

(* The provider's answer keeps both.                                        *)
LEMMA AnsweredLeads ==
  ASSUME Inv, NEW c \in Caller, NEW phase \in {"storing", "finishing"}, NEW result, NEW token,
         Answered(c, phase, result, token), UNCHANGED refreshCalls, caller[c].phase = "asking"
  PROVE  Routes' /\ Registered'
<1> DEFINE q == [caller[c] EXCEPT !.phase = phase, !.result = result, !.token = token]
<1>1. q.why = caller[c].why /\ q.phase = phase
  BY DEF Inv, TypeOK, Callers
<1>2. caller' = [caller EXCEPT ![c] = q]
  BY DEF Answered
<1> HIDE DEF q
<1>3. QED
  BY <1>1, <1>2, StaysInRefresh

(* A caller that starts keeps both: an operator does not lead.              *)
LEMMA StartLeads ==
  ASSUME Inv, NEW c \in Caller, Start(c) \/ ForceRefresh(c) PROVE Routes' /\ Registered'
<1>1. CASE Start(c)
  <2> DEFINE q == [Idle EXCEPT !.phase = "deciding", !.g = gen]
  <2>1. q.why = "preempt" /\ q.phase = "deciding"
    BY DEF Idle
  <2>2. caller' = [caller EXCEPT ![c] = q] /\ UNCHANGED refreshCalls
    BY <1>1 DEF Start
  <2> HIDE DEF q
  <2>3. QED
    BY <2>1, <2>2, Quiet
<1>2. CASE ForceRefresh(c)
  <2> DEFINE q == [Idle EXCEPT !.phase = "gate", !.g = gen, !.why = "force"]
  <2>1. q.why = "force" /\ q.phase = "gate"
    BY DEF Idle
  <2>2. caller' = [caller EXCEPT ![c] = q] /\ UNCHANGED refreshCalls /\ Role[c] = "operator"
    BY <1>2 DEF ForceRefresh
  <2> HIDE DEF q
  <2>3. Route(c, q) /\ ~Leads(q)
    BY <2>1, <2>2 DEF Route, Leads
  <2>4. QED
    BY <2>2, <2>3, OneCaller
<1>3. QED
  BY <1>1, <1>2

(* The only step that makes a leader: refreshCalls named nobody before.     *)
LEMMA JoinLeads == ASSUME Inv, NEW c \in Caller, Join(c) PROVE Routes' /\ Registered'
<1>1. /\ caller \in [Caller -> Callers] /\ Target[c] \in Seat
      /\ refreshCalls \in [Seat -> Caller \cup {NoCaller}]
  BY RefreshAssumption DEF Inv, TypeOK
<1>2. CASE refreshCalls[Target[c]] # NoCaller
  <2> DEFINE q == [caller[c] EXCEPT !.phase = "waiting", !.on = refreshCalls[Target[c]]]
  <2>1. q.why = caller[c].why /\ q.phase = "waiting"
    BY <1>1 DEF Callers
  <2>2. caller' = [caller EXCEPT ![c] = q] /\ UNCHANGED refreshCalls
    BY <1>2 DEF Join
  <2> HIDE DEF q
  <2>3. QED
    BY <2>1, <2>2, Quiet
<1>3. CASE refreshCalls[Target[c]] = NoCaller
  <2>1. /\ refreshCalls' = [refreshCalls EXCEPT ![Target[c]] = c]
        /\ caller' = [caller EXCEPT ![c] = [caller[c] EXCEPT !.phase = "gate"]]
    BY <1>3 DEF Join, Goes
  <2>2. ASSUME NEW d \in Caller
        PROVE  /\ Route(d, caller'[d])
               /\ d # c => caller'[d] = caller[d]
    <3>1. CASE d = c
      <4>1. caller'[c].phase = "gate" /\ caller'[c].why = caller[c].why
        BY <1>1, <2>1 DEF Callers
      <4>2. QED
        BY <3>1, <4>1 DEF Inv, Routes, Route
    <3>2. CASE d # c
      BY <1>1, <2>1, <3>2 DEF Inv, Routes
    <3>3. QED
      BY <3>1, <3>2
  <2>3. ASSUME NEW d \in Caller, Leads(caller'[d])
        PROVE  refreshCalls'[Target[d]] = d
    <3>1. CASE d = c
      BY <1>1, <2>1, <3>1
    <3>2. CASE d # c
      <4>1. refreshCalls[Target[d]] = d /\ d # NoCaller
        BY <2>2, <2>3, <3>2, RefreshAssumption DEF Inv, Registered
      <4>2. Target[d] # Target[c]
        BY <1>3, <4>1
      <4>3. QED
        BY <1>1, <2>1, <4>1, <4>2
    <3>3. QED
      BY <3>1, <3>2
  <2>4. Routes'
    BY <2>2 DEF Routes, Route, After
  <2>5. QED
    BY <2>3, <2>4 DEF Registered, Leads
<1>4. QED
  BY <1>2, <1>3

(* The decision to refresh and the throttles keep both.                     *)
LEMMA GateLeads ==
  ASSUME Inv, NEW c \in Caller, Decide(c) \/ AccountGate(c) \/ GlobalGate(c)
  PROVE  Routes' /\ Registered'
<1>1. CASE Decide(c)
  BY <1>1, GoesLeads DEF Decide
<1>2. CASE AccountGate(c)
  <2>1. CASE Throttled(c)
    BY <1>2, <2>1, ThrottledLeads DEF AccountGate
  <2>2. CASE Goes(c, "window")
    <3> DEFINE q == [caller[c] EXCEPT !.phase = "window"]
    <3>1. q.why = caller[c].why /\ q.phase = "window"
      BY DEF Inv, TypeOK, Callers
    <3>2. caller' = [caller EXCEPT ![c] = q] /\ UNCHANGED refreshCalls /\ caller[c].phase = "gate"
      BY <1>2, <2>2 DEF Goes, AccountGate
    <3> HIDE DEF q
    <3>3. QED
      BY <3>1, <3>2, StaysInRefresh
  <2>3. QED
    BY <1>2, <2>1, <2>2 DEF AccountGate
<1>3. CASE GlobalGate(c)
  <2>1. CASE Throttled(c)
    BY <1>3, <2>1, ThrottledLeads DEF GlobalGate
  <2>2. CASE ~Throttled(c)
    <3> DEFINE q == [caller[c] EXCEPT !.phase = "asking", !.token = Mine(c).token]
    <3>1. q.why = caller[c].why /\ q.phase = "asking"
      BY DEF Inv, TypeOK, Callers
    <3>2. caller' = [caller EXCEPT ![c] = q] /\ UNCHANGED refreshCalls /\ caller[c].phase = "window"
      BY <1>3, <2>2 DEF GlobalGate
    <3> HIDE DEF q
    <3>3. QED
      BY <3>1, <3>2, StaysInRefresh
  <2>3. QED
    BY <2>1, <2>2
<1>4. QED
  BY <1>1, <1>2, <1>3

(* The provider's two answers keep both.                                    *)
LEMMA AskLeads ==
  ASSUME Inv, NEW c \in Caller, Rotates(c) \/ Refuses(c)
  PROVE  Routes' /\ Registered'
<1>1. CASE Rotates(c)
  BY <1>1, AnsweredLeads DEF Rotates
<1>2. CASE Refuses(c)
  BY <1>2, AnsweredLeads DEF Refuses
<1>3. QED
  BY <1>1, <1>2

(* The end of RefreshToken and of refreshAccountOnce keep both.             *)
LEMMA StoreLeads ==
  ASSUME Inv, NEW c \in Caller, Store(c) \/ Finish(c)
  PROVE  Routes' /\ Registered'
<1>1. CASE Store(c)
  BY <1>1, StoringLeads DEF Store
<1>2. CASE Finish(c)
  BY <1>2, StoringLeads DEF Finish
<1>3. QED
  BY <1>1, <1>2

(* A save that fails keeps both: RefreshToken comes to its end as after one *)
(* that did not.                                                            *)
LEMMA WriteFailsLeads ==
  ASSUME Inv, NEW c \in Caller, WriteFails(c)
  PROVE  Routes' /\ Registered'
<1> DEFINE q == [caller[c] EXCEPT !.phase = "finishing", !.file = NoFile, !.then = "idle",
                                  !.result = "failed"]
<1>1. q.why = caller[c].why /\ q.phase = "finishing"
  BY DEF Inv, TypeOK, Callers
<1>2. /\ caller' = [caller EXCEPT ![c] = q] /\ UNCHANGED refreshCalls
      /\ caller[c].phase = "saving" /\ caller[c].then = "finishing"
  BY DEF WriteFails
<1> HIDE DEF q
<1>3. Route(c, q) /\ (Leads(q) => Leads(caller[c]))
  BY <1>1, <1>2 DEF Inv, Routes, Route, After, Leads
<1>4. QED
  BY <1>2, <1>3, OneCaller

(* The end of a save keeps both.                                            *)
LEMMA WriteFileLeads ==
  ASSUME Inv, NEW c \in Caller, WriteFile(c)
  PROVE  Routes' /\ Registered'
<1>1. CASE caller[c].then = "idle"
  BY <1>1, StopsLeads DEF WriteFile
<1>2. CASE caller[c].then # "idle"
  <2> DEFINE q == [caller[c] EXCEPT !.phase = caller[c].then, !.file = NoFile, !.then = "idle"]
  <2>1. q.why = caller[c].why /\ q.phase = caller[c].then
    BY DEF Inv, TypeOK, Callers
  <2>2. /\ caller' = [caller EXCEPT ![c] = q] /\ UNCHANGED refreshCalls
        /\ caller[c].phase = "saving"
    BY <1>2 DEF WriteFile
  <2> HIDE DEF q
  <2>3. q.phase \in {"finishing", "sending", "told", "unregister"}
    BY <1>2, <2>1, <2>2 DEF Inv, Routes, Route, After
  <2>4. Route(c, q) /\ (Leads(q) => Leads(caller[c]))
    BY <2>1, <2>2, <2>3 DEF Inv, Routes, Route, After, Leads
  <2>5. QED
    BY <2>2, <2>4, OneCaller
<1>3. QED
  BY <1>1, <1>2

(* Only the leader takes its seat out of refreshCalls.                      *)
LEMMA UnregisterLeads ==
  ASSUME Inv, NEW c \in Caller, Unregister(c)
  PROVE  Routes' /\ Registered'
<1>1. /\ caller \in [Caller -> Callers] /\ Target[c] \in Seat
      /\ refreshCalls \in [Seat -> Caller \cup {NoCaller}]
  BY RefreshAssumption DEF Inv, TypeOK
<1>2. /\ refreshCalls' = [refreshCalls EXCEPT ![Target[c]] = NoCaller]
      /\ caller' = [caller EXCEPT ![c] = [caller[c] EXCEPT !.phase = "closing"]]
      /\ caller[c].phase = "unregister"
  BY DEF Unregister, Goes
<1>3. caller'[c].phase = "closing" /\ caller'[c].why = caller[c].why
  BY <1>1, <1>2 DEF Callers
<1>4. \A d \in Caller \ {c} : caller'[d] = caller[d]
  BY <1>1, <1>2
<1>5. refreshCalls[Target[c]] = c
  <2>1. caller[c].why # "force"
    BY <1>2 DEF Inv, Routes, Route
  <2>2. QED
    BY <1>2, <2>1 DEF Inv, Registered, Leads
<1>6. ASSUME NEW d \in Caller, Leads(caller'[d])
      PROVE  refreshCalls'[Target[d]] = d
  <2>1. d # c
    BY <1>3, <1>6 DEF Leads
  <2>2. refreshCalls[Target[d]] = d
    BY <1>4, <1>6, <2>1 DEF Inv, Registered
  <2>3. QED
    BY <1>1, <1>2, <1>5, <2>1, <2>2
<1>7. \A d \in Caller : Route(d, caller'[d])
  BY <1>3, <1>4 DEF Inv, Routes, Route
<1>8. QED
  BY <1>6, <1>7 DEF Routes, Route, After, Registered, Leads

(* Telling the waiters keeps both.                                          *)
LEMMA CloseDoneLeads ==
  ASSUME Inv, NEW c \in Caller, CloseDone(c)
  PROVE  Routes' /\ Registered'
<1>1. ASSUME NEW d \in Caller
      PROVE  \/ caller'[d] = caller[d]
             \/ caller'[d].phase = "told" /\ caller'[d].why = caller[d].why
  BY DEF CloseDone, Inv, TypeOK, Callers
<1>2. ASSUME NEW d \in Caller
      PROVE  Route(d, caller'[d]) /\ (Leads(caller'[d]) => Leads(caller[d]))
  BY <1>1 DEF Inv, Routes, Route, Leads
<1>3. Routes'
  BY <1>2 DEF Routes, Route, After
<1>4. UNCHANGED refreshCalls
  BY DEF CloseDone
<1>5. QED
  BY <1>2, <1>3, <1>4 DEF Registered, Inv, Leads

(* Marking a seat dead keeps both.                                          *)
LEMMA MarksDeadLeads ==
  ASSUME Inv, NEW c \in Caller, MarksDead(c), UNCHANGED refreshCalls
  PROVE  Routes' /\ Registered'
BY SavingLeads DEF MarksDead

(* What a caller makes of a refresh keeps both.                             *)
LEMMA ToldLeads ==
  ASSUME Inv, NEW c \in Caller,
         \/ BenchedByThrottle(c) \/ Refreshed(c) \/ PreemptFails(c)
         \/ RefreshInvalid(c) \/ RetryFails(c)
  PROVE  Routes' /\ Registered'
<1>1. UNCHANGED refreshCalls
  BY DEF BenchedByThrottle, Refreshed, PreemptFails, RefreshInvalid, RetryFails, Keep
<1>2. CASE BenchedByThrottle(c)
  BY <1>1, <1>2, GoesLeads, StopsLeads DEF BenchedByThrottle
<1>3. CASE Refreshed(c)
  <2>1. Proceeds(c, "sending") \/ Proceeds(c, "resending") \/ Stops(c)
    BY <1>3 DEF Refreshed
  <2>2. QED
    BY <1>1, <2>1, GoesLeads, StopsLeads
<1>4. CASE PreemptFails(c)
  <2> DEFINE q == [caller[c] EXCEPT !.phase = "sending", !.result = "none",
                                    !.bad = Role[c] = "direct"]
  <2>1. q.why = caller[c].why /\ q.phase = "sending"
    BY DEF Inv, TypeOK, Callers
  <2>2. caller' = [caller EXCEPT ![c] = q]
    BY <1>4 DEF PreemptFails
  <2> HIDE DEF q
  <2>3. QED
    BY <1>1, <2>1, <2>2, Quiet
<1>5. CASE RefreshInvalid(c)
  BY <1>1, <1>5, GoesLeads, StopsLeads, MarksDeadLeads DEF RefreshInvalid
<1>6. CASE RetryFails(c)
  BY <1>1, <1>6, StopsLeads, MarksDeadLeads DEF RetryFails
<1>7. QED
  BY <1>2, <1>3, <1>4, <1>5, <1>6

(* The probe and its verdict keep both.                                     *)
LEMMA ProbeLeads ==
  ASSUME Inv, NEW c \in Caller, Probe(c) \/ Verdict(c)
  PROVE  Routes' /\ Registered'
<1>1. CASE Probe(c)
  <2>1. PICK result \in {"live", "unusable", "unknown"} :
          caller' = [caller EXCEPT ![c] = [caller[c] EXCEPT !.phase = "verdict", !.result = result]]
    BY <1>1 DEF Probe
  <2> DEFINE q == [caller[c] EXCEPT !.phase = "verdict", !.result = result]
  <2>2. q.why = caller[c].why /\ q.phase = "verdict"
    BY DEF Inv, TypeOK, Callers
  <2>3. caller' = [caller EXCEPT ![c] = q] /\ UNCHANGED refreshCalls
    BY <1>1, <2>1 DEF Probe, Keep
  <2> HIDE DEF q
  <2>4. QED
    BY <2>2, <2>3, Quiet
<1>2. CASE Verdict(c)
  <2>1. \E a : \E next \in {"idle", "sending"} : Saves(c, a, next)
    BY <1>2 DEF Verdict
  <2>2. UNCHANGED refreshCalls
    BY <1>2 DEF Verdict, Keep
  <2>3. QED
    BY <2>1, <2>2, SavingLeads
<1>3. QED
  BY <1>1, <1>2

(* Requests and their answers keep both.                                    *)
LEMMA SendLeads ==
  ASSUME Inv, NEW c \in Caller, Send(c) \/ Served(c) \/ Rejected(c) \/ Resend(c)
  PROVE  Routes' /\ Registered'
<1>1. UNCHANGED refreshCalls
  BY DEF Send, Served, Rejected, Resend, Keep
<1>2. CASE Send(c)
  <2> DEFINE q == [caller[c] EXCEPT !.phase = "sent", !.access = Mine(c).token]
  <2>1. q.why = caller[c].why /\ q.phase = "sent"
    BY DEF Inv, TypeOK, Callers
  <2>2. caller' = [caller EXCEPT ![c] = q]
    BY <1>2 DEF Send
  <2> HIDE DEF q
  <2>3. QED
    BY <1>1, <2>1, <2>2, Quiet
<1>3. CASE Served(c)
  BY <1>1, <1>3, StopsLeads, SavingLeads DEF Served
<1>4. CASE Rejected(c)
  <2> DEFINE q == [caller[c] EXCEPT !.phase = "joining", !.why = "retry"]
  <2>1. q.why = "retry" /\ q.phase = "joining"
    BY DEF Inv, TypeOK, Callers
  <2>2. caller' = [caller EXCEPT ![c] = q] \/ Stops(c) \/ MarksDead(c)
    BY <1>4 DEF Rejected
  <2> HIDE DEF q
  <2>3. QED
    BY <1>1, <2>1, <2>2, Quiet, StopsLeads, MarksDeadLeads
<1>5. CASE Resend(c)
  BY <1>1, <1>5, StopsLeads DEF Resend
<1>6. QED
  BY <1>2, <1>3, <1>4, <1>5

(* A restart leaves neither leaders nor entries of refreshCalls.            *)
LEMMA RestartLeads == ASSUME Inv, Restart PROVE Routes' /\ Registered'
<1>1. \A d \in Caller : caller'[d] = Idle
  BY DEF Restart
<1>2. \A d \in Caller : Route(d, Idle) /\ ~Leads(Idle)
  BY DEF Route, Leads, Idle
<1>3. Routes'
  BY <1>1, <1>2 DEF Routes, Route, After
<1>4. Registered'
  BY <1>1, <1>2 DEF Registered, Leads
<1>5. QED
  BY <1>3, <1>4

----------------------------------------------------------------------------
(* The invariant holds at first.                                            *)
LEMMA InitInv == Init => Inv
<1> SUFFICES ASSUME Init PROVE Inv
  OBVIOUS
<1>1. TypeOK
  <2>1. FromFile([token |-> 1, recent |-> FALSE, dead |-> FALSE], FALSE) \in Accounts
    BY ConstantsTyped, FromFileTyped DEF Files
  <2>2. /\ account \in [Generations -> [Seat -> Accounts]]
        /\ disk \in [Seat -> Files]
        /\ caller \in [Caller -> Callers]
    BY <2>1, ConstantsTyped DEF Init, Files
  <2>3. crashes \in 0..MaxCrashes /\ lost \in 0..MaxLost
    BY RefreshAssumption DEF Init
  <2>4. QED
    BY <2>2, <2>3, ConstantsTyped DEF Init, TypeOK
<1>2. ReloadRoom
  BY DEF Init, ReloadRoom, NotLoading
<1>3. Routes /\ Registered
  BY DEF Init, Routes, Route, Registered, Leads, Idle
<1>4. QED
  BY <1>1, <1>2, <1>3 DEF Inv

(* TypeOK is kept by every step of a caller.                                *)
LEMMA CallerStepTypes == ASSUME TypeOK, NEW c \in Caller, CallerStep(c) PROVE TypeOK'
BY DecideTypes, JoinTypes, AccountGateTypes, GlobalGateTypes, RotatesTypes, RefusesTypes,
   StoreTypes, FinishTypes, WriteFileTypes, WriteFailsTypes, UnregisterTypes, CloseDoneTypes,
   BenchedByThrottleTypes, RefreshedTypes, PreemptFailsTypes, RefreshInvalidTypes,
   RetryFailsTypes, ProbeTypes, VerdictTypes, SendTypes, ServedTypes, RejectedTypes,
   ResendTypes
   DEF CallerStep

(* Every step of a caller keeps the routes and the registration.            *)
LEMMA CallerStepLeads ==
  ASSUME Inv, NEW c \in Caller, CallerStep(c) PROVE Routes' /\ Registered'
BY GateLeads, JoinLeads, AskLeads, StoreLeads, WriteFileLeads, WriteFailsLeads, UnregisterLeads,
   CloseDoneLeads, ToldLeads, ProbeLeads, SendLeads
   DEF CallerStep

(* No caller reloads.                                                       *)
LEMMA CallerStepRoom ==
  ASSUME NEW c \in Caller, Start(c) \/ ForceRefresh(c) \/ CallerStep(c)
  PROVE  UNCHANGED <<loaded, gen>>
<1>1. CASE Start(c) \/ ForceRefresh(c)
  BY <1>1 DEF Start, ForceRefresh
<1>2. CASE CallerStep(c)
  BY <1>2 DEF CallerStep, Decide, Join, AccountGate, GlobalGate, Rotates, Refuses, Store,
     Finish, WriteFile, WriteFails, Unregister, CloseDone, BenchedByThrottle, Refreshed, PreemptFails,
     RefreshInvalid, RetryFails, Probe, Verdict, Send, Served, Rejected, Resend, Keep
<1>3. QED
  BY <1>1, <1>2

(* Steps of others keep the routes and the registration.                    *)
LEMMA Unmoved ==
  ASSUME Inv, UNCHANGED <<caller, refreshCalls>>
  PROVE  Routes' /\ Registered'
BY DEF Inv, Routes, Route, After, Registered, Leads

(* The invariant is kept by every step.                                     *)
LEMMA NextInv == Inv /\ [Next]_vars => Inv'
<1> SUFFICES ASSUME Inv, [Next]_vars PROVE Inv'
  OBVIOUS
<1>1. TypeOK /\ ReloadRoom
  BY DEF Inv
<1>2. ASSUME NEW c \in Caller, Start(c) \/ ForceRefresh(c) \/ CallerStep(c)
      PROVE  Inv'
  <2>1. TypeOK'
    BY <1>1, <1>2, StartTypes, ForceRefreshTypes, CallerStepTypes
  <2>2. ReloadRoom'
    BY <1>1, <1>2, CallerStepRoom DEF ReloadRoom
  <2>3. Routes' /\ Registered'
    BY <1>2, StartLeads, CallerStepLeads
  <2>4. QED
    BY <2>1, <2>2, <2>3 DEF Inv
<1>3. ASSUME NEW s \in Seat, Lapse(s) \/ IntervalPasses(s) \/ BackoffPasses(s) \/ WindowOpens
      PROVE  Inv'
  <2>1. TypeOK'
    BY <1>1, <1>3, EnvironmentTypes
  <2>2. UNCHANGED <<loaded, gen, caller, refreshCalls>>
    BY <1>3 DEF Lapse, IntervalPasses, BackoffPasses, WindowOpens
  <2>3. QED
    BY <1>1, <2>1, <2>2, Unmoved DEF Inv, ReloadRoom
<1>4. CASE WindowOpens
  <2>1. TypeOK'
    BY <1>1, <1>4, Frame DEF WindowOpens, TypeOK, Rest
  <2>2. UNCHANGED <<loaded, gen, caller, refreshCalls>>
    BY <1>4 DEF WindowOpens
  <2>3. QED
    BY <1>1, <2>1, <2>2, Unmoved DEF Inv, ReloadRoom
<1>5. CASE ReloadLoads
  <2>1. TypeOK' /\ ReloadRoom'
    BY <1>1, <1>5, ReloadLoadsTypes DEF ReloadLoads, ReloadRoom
  <2>2. QED
    BY <1>5, <2>1, Unmoved DEF Inv, ReloadLoads
<1>6. CASE ReloadReplaces
  <2>1. TypeOK' /\ ReloadRoom'
    BY <1>1, <1>6, ReloadReplacesTypes DEF ReloadReplaces, ReloadRoom, NotLoading
  <2>2. QED
    BY <1>6, <2>1, Unmoved DEF Inv, ReloadReplaces
<1>7. CASE Restart
  <2>1. TypeOK' /\ ReloadRoom'
    BY <1>1, <1>7, RestartTypes DEF Restart, ReloadRoom, NotLoading
  <2>2. QED
    BY <1>7, <2>1, RestartLeads DEF Inv
<1>8. CASE UNCHANGED vars
  <2>1. TypeOK' /\ ReloadRoom'
    BY <1>1, <1>8 DEF vars, provider, history, TypeOK, ReloadRoom
  <2>2. QED
    BY <1>8, <2>1, Unmoved DEF Inv, vars
<1>9. QED
  BY <1>2, <1>3, <1>4, <1>5, <1>6, <1>7, <1>8 DEF Next

(* The invariant holds throughout.                                          *)
LEMMA InvHolds == Spec => []Inv
BY InitInv, NextInv, PTL DEF Spec

(* Every step of refreshing keeps the state of the callers, the Account     *)
(* objects, the files and the provider well-formed, for any number of       *)
(* seats, callers, reloads, restarts and lost answers.                      *)
THEOREM TokensTyped == Spec => []TypeOK
<1>1. Inv => TypeOK
  BY DEF Inv
<1>2. QED
  BY <1>1, InvHolds, PTL

(* refreshAccountWithPolicy is single-flight for any number of callers and  *)
(* seats: at most one of them refreshes a seat through it at a time, and it *)
(* is the one refreshCalls names, across reloads and restarts.              *)
THEOREM RefreshIsSingleFlight == Spec => []SingleFlight
<1>1. Inv => SingleFlight
  BY DEF Inv, Registered, SingleFlight, Leading, Leads
<1>2. QED
  BY <1>1, InvHolds, PTL

----------------------------------------------------------------------------
(* The token a seat's Account object holds before any reload.               *)
Kept(s) == account[0][s].token

(* A caller whose refresh has succeeded and is stored.                      *)
Fresh(q) == q.result = "ok" /\ q.phase # "storing"

(* What a caller's record q says of itself: results belong to refreshes, an *)
(* operator does nothing but force one.                                     *)
Standing(c, q) ==
  /\ q.result = "ok" =>
       \/ q.phase \in {"storing", "finishing", "unregister", "closing", "told"}
       \/ q.phase = "saving" /\ q.then \in {"finishing", "unregister", "told"}
  /\ Role[c] = "operator" =>
       \/ q.phase = "idle"
       \/ /\ q.why = "force" /\ q.then # "sending"
          /\ q.phase \in {"gate", "window", "asking", "storing", "finishing", "saving",
                          "told", "probing", "verdict"}

(* Who forces a refresh has been counted. *)
Ordered(c, q) == q.why = "force" => Target[c] \in forced

(* What it says of the tokens of its seat, while there is one object for it. *)
Holding(c, q) ==
  LET s == Target[c] IN
  /\ q.g = 0
  /\ q.access <= Kept(s)
  /\ q.phase = "saving" => q.file.token <= issued[s]
  /\ q.phase = "asking" => /\ q.token <= Kept(s)
                           /\ s \notin forced => q.token = Kept(s)
  /\ q.phase = "storing" => /\ q.token = issued[s]
                            /\ Kept(s) < issued[s] /\ lapsed[s] < issued[s]
  /\ q.phase \in {"deciding", "joining", "waiting"} /\ q.why = "retry" => q.access <= lapsed[s]
  /\ Fresh(q) /\ q.why = "retry" => q.access < Kept(s)
  /\ q.phase = "resending" => q.access < Kept(s)
  /\ Fresh(q) /\ Leads(q) => lapsed[s] < Kept(s)

(* No token is known that the provider has not issued.                      *)
Known == \A s \in Seat : /\ lapsed[s] <= issued[s] /\ Kept(s) <= issued[s]
                         /\ disk[s].token <= issued[s]

(* A rotated token is stored by the one caller it was issued to.            *)
OneStores ==
  \A c, d \in Caller :
    caller[c].phase = "storing" /\ caller[d].phase = "storing" /\ Target[c] = Target[d] => c = d

(* refreshCalls names leaders, and a waiter waits for one of its own seat,  *)
(* or for one about to close; once that one has stored a token, the waiter's *)
(* rejected one is older.                                                   *)
Named == \A s \in Seat : refreshCalls[s] # NoCaller =>
           Leads(caller[refreshCalls[s]]) /\ Target[refreshCalls[s]] = s
Waits(q, s) ==
  q.phase = "waiting" =>
    /\ q.on \in Caller /\ Target[q.on] = s
    /\ Leads(caller[q.on]) \/ caller[q.on].phase = "closing"
    /\ gen = 0 /\ Fresh(caller[q.on]) /\ q.why = "retry" => q.access < Kept(s)

(* One object for each seat: what holds of its tokens then.                 *)
Single == /\ Known /\ OneStores /\ NewestTokenKept
          /\ \A c \in Caller : Holding(c, caller[c])

(* The inductive invariant of the tokens, on top of Inv.                    *)
Tokens == /\ Named
          /\ \A c \in Caller : /\ Standing(c, caller[c]) /\ Ordered(c, caller[c])
                              /\ Waits(caller[c], Target[c])
          /\ gen = 0 => Single

(* The fields by which another's step cannot tell a caller's two records    *)
(* apart.                                                                   *)
Alike(q, r) == q.g = r.g /\ q.why = r.why /\ q.access = r.access

(* The objects' tokens stay and the files' are known.                       *)
Untouched == /\ \A s \in Seat : account'[0][s].token = account[0][s].token
             /\ UNCHANGED <<gen, issued, lapsed>>
             /\ forced \subseteq forced' /\ orphaned \subseteq orphaned'
             /\ gen = 0 => \A s \in Seat : disk'[s].token <= issued[s]

(* Kept tokens are numbers, and so is all they are compared with.           *)
LEMMA Numbers ==
  ASSUME TypeOK
  PROVE  /\ \A s \in Seat : /\ Kept(s) \in Nat /\ issued[s] \in Nat /\ lapsed[s] \in Nat
                            /\ disk[s].token \in Nat
         /\ \A c \in Caller : /\ caller[c] \in Callers /\ Target[c] \in Seat
                              /\ caller[c].access \in Nat /\ caller[c].token \in Nat
                              /\ caller[c].file.token \in Nat
<1>1. Pairs \subseteq Nat /\ 0 \in Generations
  BY RefreshAssumption, ConstantsTyped DEF Pairs
<1>2. ASSUME NEW s \in Seat
      PROVE  /\ Kept(s) \in Nat /\ issued[s] \in Nat /\ lapsed[s] \in Nat
             /\ disk[s].token \in Nat
  <2>1. account[0][s] \in Accounts /\ disk[s] \in Files /\ issued[s] \in Pairs /\ lapsed[s] \in Pairs
    BY <1>1 DEF TypeOK
  <2>2. QED
    BY <1>1, <2>1 DEF Kept, Accounts, Files
<1>3. ASSUME NEW c \in Caller
      PROVE  /\ caller[c] \in Callers /\ Target[c] \in Seat
             /\ caller[c].access \in Nat /\ caller[c].token \in Nat
             /\ caller[c].file.token \in Nat
  <2>1. caller[c] \in Callers /\ Target[c] \in Seat
    BY RefreshAssumption DEF TypeOK
  <2>2. QED
    BY <1>1, <2>1 DEF Callers, Files
<1>4. QED
  BY <1>2, <1>3

(* A leader that goes on leading, or goes from one phase nobody leads in to *)
(* another, leaves refreshCalls naming leaders; and a waiter goes on        *)
(* waiting, while the leader it waits for has nothing new to tell or the    *)
(* token stored is newer.                                                   *)
LEMMA OthersWait ==
  ASSUME TypeOK, Tokens, NEW c \in Caller, NEW q, caller' = [caller EXCEPT ![c] = q],
         UNCHANGED <<refreshCalls, gen>>, q.phase # "waiting",
         caller[c].phase # "closing", Leads(caller[c]) => Leads(q),
         gen = 0 => \A s \in Seat : Kept(s)' \in Nat /\ Kept(s) <= Kept(s)',
         gen = 0 /\ Fresh(q) /\ ~Fresh(caller[c]) =>
           \A d \in Caller : Target[d] = Target[c] => caller[d].access < Kept(Target[c])'
  PROVE  Named' /\ \A d \in Caller : Waits(caller[d], Target[d])'
<1>1. \A d \in Caller : caller'[d] = IF d = c THEN q ELSE caller[d]
  BY DEF TypeOK
<1>2. Named'
  <2> SUFFICES ASSUME NEW s \in Seat, refreshCalls'[s] # NoCaller
               PROVE  Leads(caller'[refreshCalls'[s]]) /\ Target[refreshCalls'[s]] = s
    BY DEF Named, Leads
  <2>1. refreshCalls'[s] = refreshCalls[s] /\ refreshCalls[s] \in Caller
    BY DEF TypeOK
  <2>2. Leads(caller[refreshCalls[s]]) /\ Target[refreshCalls[s]] = s
    BY <2>1 DEF Tokens, Named
  <2>3. QED
    BY <1>1, <2>1, <2>2
<1>3. ASSUME NEW d \in Caller PROVE Waits(caller[d], Target[d])'
  <2>1. CASE caller'[d].phase # "waiting"
    BY <2>1 DEF Waits
  <2>2. CASE caller'[d].phase = "waiting"
    <3>1. caller'[d] = caller[d] /\ caller[d].phase = "waiting"
      BY <1>1, <2>2
    <3>2. PICK e \in Caller :
            /\ caller[d].on = e /\ Target[e] = Target[d]
            /\ Leads(caller[e]) \/ caller[e].phase = "closing"
            /\ gen = 0 /\ Fresh(caller[e]) /\ caller[d].why = "retry"
                 => caller[d].access < Kept(Target[d])
      BY <3>1 DEF Tokens, Waits
    <3>3. Leads(caller'[e]) \/ caller'[e].phase = "closing"
      BY <1>1, <3>2
    <3>4. /\ Target[d] \in Seat /\ caller[d].access \in Nat
          /\ Kept(Target[d]) \in Nat
      BY Numbers
    <3>5. ASSUME gen = 0, Fresh(caller'[e]), caller[d].why = "retry"
          PROVE  caller[d].access < Kept(Target[d])'
      <4>1. CASE Fresh(caller[e])
        <5>1. caller[d].access < Kept(Target[d])
          BY <3>2, <3>5, <4>1
        <5>2. QED
          BY <3>4, <3>5, <5>1
      <4>2. CASE ~Fresh(caller[e])
        <5>1. e = c
          BY <1>1, <3>5, <4>2
        <5>2. QED
          BY <1>1, <3>2, <3>5, <4>2, <5>1
      <4>3. QED
        BY <4>1, <4>2
    <3>6. QED
      BY <3>1, <3>2, <3>3, <3>5 DEF Waits, Leads, Fresh
  <2>3. QED
    BY <2>1, <2>2
<1>4. QED
  BY <1>2, <1>3

(* A step that moves no token keeps what the callers say of themselves and  *)
(* of the tokens, if the new records are sound.                             *)
LEMMA Sound ==
  ASSUME TypeOK, Tokens, Untouched,
         \A d \in Caller :
           \/ caller'[d] = caller[d]
           \/ /\ caller[d].phase # "storing" /\ caller'[d].phase # "storing"
              /\ Standing(d, caller'[d]) /\ (gen = 0 => Holding(d, caller'[d]))
              /\ caller'[d].why = "force" => Target[d] \in forced'
  PROVE  /\ \A d \in Caller : Standing(d, caller[d])' /\ Ordered(d, caller[d])'
         /\ gen' = 0 => Single'
<1>1. \A s \in Seat : Kept(s)' = Kept(s)
  BY DEF Untouched, Kept
<1>2. ASSUME NEW d \in Caller PROVE Standing(d, caller[d])' /\ Ordered(d, caller[d])'
  <2>1. Standing(d, caller[d]) /\ Ordered(d, caller[d]) /\ forced \subseteq forced'
    BY DEF Tokens, Untouched
  <2>2. CASE caller'[d] = caller[d]
    BY <2>1, <2>2 DEF Standing, Ordered
  <2>3. CASE caller'[d] # caller[d]
    BY <2>3 DEF Standing, Ordered
  <2>4. QED
    BY <2>2, <2>3
<1>3. ASSUME gen' = 0 PROVE Single'
  <2>1. gen = 0 /\ Single
    BY <1>3 DEF Untouched, Tokens
  <2>2. Known'
    BY <1>1, <2>1 DEF Untouched, Single, Known
  <2>3. \A d \in Caller : caller'[d].phase = "storing" => caller'[d] = caller[d]
    OBVIOUS
  <2>4. OneStores'
    BY <2>1, <2>3 DEF Single, OneStores
  <2>5. NewestTokenKept'
    <3> SUFFICES ASSUME NEW s \in Seat, s \notin orphaned, account[0][s].token # issued[s]
                 PROVE  \E d \in Caller : /\ Target[d] = s /\ caller'[d].phase = "storing"
                                          /\ caller'[d].token = issued'[s]
      BY <1>1 DEF NewestTokenKept, Untouched, Kept
    <3>1. PICK d \in Caller : /\ Target[d] = s /\ caller[d].phase = "storing"
                              /\ caller[d].token = issued[s]
      BY <2>1 DEF Single, NewestTokenKept
    <3>2. caller'[d] = caller[d]
      BY <3>1
    <3>3. QED
      BY <3>1, <3>2 DEF Untouched
  <2>6. ASSUME NEW d \in Caller PROVE Holding(d, caller[d])'
    <3>1. Holding(d, caller[d]) /\ Target[d] \in Seat /\ Kept(Target[d])' = Kept(Target[d])
      BY <1>1, <2>1, RefreshAssumption DEF Single
    <3>2. Holding(d, caller'[d])
      BY <2>1, <3>1
    <3>3. QED
      BY <3>1, <3>2 DEF Holding, Fresh, Leads, Untouched
  <2>7. QED
    BY <2>2, <2>4, <2>5, <2>6 DEF Single
<1>4. QED
  BY <1>2, <1>3

(* So a step of one caller that moves no token keeps the invariant, if its  *)
(* new record is sound and it does not leave those who wait for it.         *)
LEMMA Alone ==
  ASSUME TypeOK, Tokens, NEW c \in Caller, NEW q, caller' = [caller EXCEPT ![c] = q],
         Untouched, UNCHANGED refreshCalls,
         caller[c].phase \notin {"storing", "closing"}, q.phase \notin {"storing", "waiting"},
         Leads(caller[c]) => Leads(q), Fresh(q) => Fresh(caller[c]),
         Standing(c, q), gen = 0 => Holding(c, q), q.why = "force" => Target[c] \in forced'
  PROVE  Tokens'
<1>1. \A d \in Caller : caller'[d] = IF d = c THEN q ELSE caller[d]
  BY DEF TypeOK
<1>2. Named' /\ \A d \in Caller : Waits(caller[d], Target[d])'
  <2>1. UNCHANGED <<refreshCalls, gen>>
    BY DEF Untouched
  <2>2. \A s \in Seat : Kept(s)' \in Nat /\ Kept(s) <= Kept(s)'
    BY Numbers DEF Untouched, Kept
  <2>3. QED
    BY <2>1, <2>2, OthersWait
<1>3. /\ \A d \in Caller : Standing(d, caller[d])' /\ Ordered(d, caller[d])'
      /\ gen' = 0 => Single'
  BY <1>1, Sound
<1>4. QED
  BY <1>2, <1>3 DEF Tokens

(* So is a step that only moves the caller on: it still leads if it did, and *)
(* brings no new success.                                                   *)
LEMMA Calm ==
  ASSUME TypeOK, Tokens, NEW c \in Caller, NEW q, caller' = [caller EXCEPT ![c] = q], Untouched,
         UNCHANGED refreshCalls, Alike(q, caller[c]), Leads(caller[c]) <=> Leads(q),
         caller[c].phase \notin {"storing", "closing"},
         q.phase \notin {"storing", "waiting", "asking", "resending", "deciding", "joining"},
         q.result = "ok" => caller[c].result = "ok",
         Standing(c, q), gen = 0 /\ q.phase = "saving" => q.file.token <= issued[Target[c]]
  PROVE  Tokens'
<1>1. Ordered(c, caller[c]) /\ forced \subseteq forced'
  BY DEF Tokens, Untouched
<1>2. q.why = "force" => Target[c] \in forced'
  BY <1>1 DEF Ordered, Alike
<1>3. Fresh(q) => Fresh(caller[c])
  BY DEF Fresh
<1>4. gen = 0 => Holding(c, q)
  BY DEF Tokens, Single, Holding, Alike, Fresh
<1>5. QED
  BY <1>2, <1>3, <1>4, Alone

(* Writing flags into the held object moves no token.                       *)
LEMMA SameTokens ==
  ASSUME TypeOK, NEW c \in Caller, NEW a \in Accounts,
         (SetMine(c, a) /\ a.token = Mine(c).token) \/ UNCHANGED account
  PROVE  \A s \in Seat : account'[0][s].token = account[0][s].token
<1>1. CASE SetMine(c, a) /\ a.token = Mine(c).token
  <2>1. 0 \in Generations /\ caller[c].g \in Generations /\ Target[c] \in Seat
    BY ConstantsTyped, Objects
  <2>2. QED
    BY <1>1, <2>1 DEF SetMine, Mine, TypeOK
<1>2. QED
  BY <1>1

(* With one object for a seat, a caller holds that one.                     *)
LEMMA MineIsKept ==
  ASSUME Tokens, gen = 0, NEW c \in Caller PROVE Mine(c) = account[0][Target[c]]
BY DEF Tokens, Single, Holding, Mine

(* A caller that stops keeps the invariant.                                 *)
LEMMA StopsTokens ==
  ASSUME TypeOK, Tokens, NEW c \in Caller, Stops(c), Untouched,
         UNCHANGED refreshCalls,
         caller[c].phase \notin {"storing", "closing"}, ~Leads(caller[c])
  PROVE  Tokens'
<1>1. Standing(c, Idle) /\ Idle.why # "force" /\ ~Leads(Idle) /\ ~Fresh(Idle)
  BY DEF Standing, Idle, Leads, Fresh
<1>2. gen = 0 => Holding(c, Idle)
  BY <1>1, Numbers DEF Holding, Idle
<1>3. Idle.phase \notin {"storing", "waiting"}
  BY DEF Idle
<1>4. QED
  BY <1>1, <1>2, <1>3, Alone DEF Stops

(* So does one that moves on to one of these phases.                        *)
LEMMA GoesTokens ==
  ASSUME TypeOK, Tokens, NEW c \in Caller, NEW phase \in {"sending", "probing", "window"},
         Goes(c, phase) \/ Proceeds(c, phase), Untouched,
         UNCHANGED refreshCalls,
         caller[c].phase \notin {"idle", "storing", "closing"},
         Leads(caller[c]) => phase = "window", phase = "window" => caller[c].phase = "gate",
         phase = "sending" => Role[c] # "operator", caller[c].result = "ok" => Proceeds(c, phase)
  PROVE  Tokens'
<1>1. caller[c] \in Callers
  BY Numbers
<1>2. PICK result \in {"none", caller[c].result} :
        /\ caller' = [caller EXCEPT ![c] = [caller[c] EXCEPT !.phase = phase, !.result = result]]
        /\ result # "ok"
  <2>1. CASE Proceeds(c, phase)
    BY <2>1 DEF Proceeds
  <2>2. CASE Goes(c, phase) /\ ~Proceeds(c, phase)
    <3>1. [caller[c] EXCEPT !.phase = phase]
            = [caller[c] EXCEPT !.phase = phase, !.result = caller[c].result]
      BY <1>1 DEF Callers
    <3>2. QED
      BY <2>2, <3>1 DEF Goes
  <2>3. QED
    BY <2>1, <2>2
<1> DEFINE q == [caller[c] EXCEPT !.phase = phase, !.result = result]
<1>3. /\ q.phase = phase /\ q.result = result /\ q.then = caller[c].then
      /\ Alike(q, caller[c])
  BY <1>1 DEF Callers, Alike
<1>4. caller' = [caller EXCEPT ![c] = q]
  BY <1>2
<1> HIDE DEF q
<1>5. Standing(c, q)
  BY <1>2, <1>3 DEF Tokens, Standing, Alike
<1>6. Leads(caller[c]) <=> Leads(q)
  BY <1>3 DEF Leads, Alike
<1>7. QED
  BY <1>2, <1>3, <1>4, <1>5, <1>6, Calm

(* A throttled caller keeps it.                                             *)
LEMMA ThrottledTokens ==
  ASSUME TypeOK, Tokens, NEW c \in Caller, Throttled(c), Untouched,
         UNCHANGED refreshCalls,
         caller[c].phase \in {"gate", "window"}
  PROVE  Tokens'
<1> DEFINE q == [caller[c] EXCEPT !.phase = After(c), !.result = "throttled"]
<1>1. /\ q.phase = After(c) /\ q.result = "throttled" /\ q.then = caller[c].then
      /\ Alike(q, caller[c])
  BY Numbers DEF Callers, Alike
<1>2. caller' = [caller EXCEPT ![c] = q]
  BY DEF Throttled
<1> HIDE DEF q
<1>3. Standing(c, q) /\ (Leads(caller[c]) <=> Leads(q))
  BY <1>1 DEF Tokens, Standing, Alike, After, Leads
<1>4. QED
  BY <1>1, <1>2, <1>3, Calm DEF After

(* A save that only writes flags keeps it.                                  *)
LEMMA SavesTokens ==
  ASSUME TypeOK, Tokens, NEW c \in Caller, NEW a \in Accounts, a.token = Mine(c).token,
         NEW next \in {"idle", "sending", After(c)}, Saves(c, a, next), Untouched,
         UNCHANGED refreshCalls,
         caller[c].phase \notin {"storing", "closing"},
         caller[c].phase = "finishing" <=> next = After(c), 
         Leads(caller[c]) => caller[c].phase = "finishing",
         caller[c].result = "ok" => next = After(c),
         next = "sending" => Role[c] # "operator",
         Role[c] = "operator" => caller[c].phase \in {"finishing", "told", "verdict"}
  PROVE  Tokens'
<1> DEFINE q == [caller[c] EXCEPT !.phase = "saving", !.file = FileOf(a), !.then = next,
                                  !.token = 0]
<1>1. /\ q.phase = "saving" /\ q.result = caller[c].result /\ q.then = next
      /\ q.file.token = a.token /\ Alike(q, caller[c])
  BY Numbers DEF Callers, Alike, FileOf
<1>2. caller' = [caller EXCEPT ![c] = q]
  BY DEF Saves
<1> HIDE DEF q
<1>3. Standing(c, q)
  BY <1>1 DEF Tokens, Standing, Alike, After
<1>4. Leads(caller[c]) <=> Leads(q)
  <2>1. CASE caller[c].phase = "finishing"
    <3>1. Role[c] = "operator" => caller[c].why = "force"
      BY <2>1 DEF Tokens, Standing
    <3>2. QED
      BY <1>1, <2>1, <3>1 DEF Leads, Alike, After
  <2>2. CASE caller[c].phase # "finishing"
    BY <1>1, <2>2 DEF Leads, Alike, After
  <2>3. QED
    BY <2>1, <2>2
<1>5. gen = 0 => q.file.token <= issued[Target[c]]
  BY <1>1, MineIsKept, Numbers DEF Tokens, Single, Known, Kept
<1>6. QED
  BY <1>1, <1>2, <1>3, <1>4, <1>5, Calm

(* A request takes a seat, an operator forces a refresh.                    *)
LEMMA StartTokens ==
  ASSUME TypeOK, Tokens, NEW c \in Caller, Start(c) \/ ForceRefresh(c) PROVE Tokens'
<1>1. CASE Start(c)
  <2> DEFINE q == [Idle EXCEPT !.phase = "deciding", !.g = gen]
  <2>1. /\ q.phase = "deciding" /\ q.why = "preempt" /\ q.g = gen /\ q.access = 0
        /\ q.result = "none" /\ Role[c] # "operator" /\ caller[c].phase = "idle"
    BY <1>1 DEF Idle, Start
  <2>2. caller' = [caller EXCEPT ![c] = q] /\ Untouched /\ UNCHANGED refreshCalls
    BY <1>1, Numbers DEF Start, Untouched, provider, history, Tokens, Single, Known
  <2> HIDE DEF q
  <2>3. Standing(c, q) /\ ~Fresh(q) /\ ~Leads(caller[c])
    BY <2>1 DEF Standing, Fresh, Leads
  <2>4. gen = 0 => Holding(c, q)
    BY <2>1, <2>3, Numbers DEF Holding
  <2>5. QED
    BY <2>1, <2>2, <2>3, <2>4, Alone
<1>2. CASE ForceRefresh(c)
  <2> DEFINE q == [Idle EXCEPT !.phase = "gate", !.g = gen, !.why = "force"]
  <2>1. /\ q.phase = "gate" /\ q.why = "force" /\ q.g = gen /\ q.access = 0
        /\ q.result = "none" /\ q.then = "idle" /\ caller[c].phase = "idle"
    BY <1>2 DEF Idle, ForceRefresh
  <2>2. /\ caller' = [caller EXCEPT ![c] = q] /\ Target[c] \in forced'
        /\ UNCHANGED <<provider, disk, gen, refreshCalls, orphaned>> /\ forced \subseteq forced'
    BY <1>2 DEF ForceRefresh
  <2>3. \A s \in Seat : account'[0][s].token = account[0][s].token
    <3>1. account \in [Generations -> [Seat -> Accounts]]
      BY DEF TypeOK
    <3>2. \A a \in Accounts : [a EXCEPT !.limited = FALSE, !.recent = FALSE].token = a.token
      BY DEF Accounts
    <3>3. QED
      BY <1>2, <3>1, <3>2, ConstantsTyped DEF ForceRefresh
  <2>4. Untouched
    BY <2>2, <2>3, Numbers DEF Untouched, provider, Tokens, Single, Known
  <2> HIDE DEF q
  <2>5. Standing(c, q) /\ ~Fresh(q) /\ ~Leads(caller[c])
    BY <2>1 DEF Standing, Fresh, Leads
  <2>6. gen = 0 => Holding(c, q)
    BY <2>1, <2>5, Numbers DEF Holding
  <2>7. QED
    BY <2>1, <2>2, <2>4, <2>5, <2>6, Alone
<1>3. QED
  BY <1>1, <1>2

(* What most steps of a caller leave alone.                                 *)
LEMMA KeepTokens ==
  ASSUME Tokens, UNCHANGED <<provider, disk, gen, refreshCalls, orphaned, forced>>,
         \A s \in Seat : account'[0][s].token = account[0][s].token
  PROVE  Untouched /\ UNCHANGED refreshCalls
BY DEF Untouched, provider, Tokens, Single, Known

(* The decision to refresh and the throttles; the token asked with is the   *)
(* one kept.                                                                *)
LEMMA GateTokens ==
  ASSUME TypeOK, Tokens, NEW c \in Caller, Decide(c) \/ AccountGate(c) \/ GlobalGate(c)
  PROVE  Tokens'
<1>1. Untouched /\ UNCHANGED refreshCalls
  BY KeepTokens DEF Decide, AccountGate, GlobalGate, history
<1>2. caller[c] \in Callers
  BY Numbers
<1>3. Standing(c, caller[c]) /\ Ordered(c, caller[c]) /\ (gen = 0 => Holding(c, caller[c]))
  BY DEF Tokens, Single
<1>4. CASE Decide(c)
  <2>1. Role[c] # "operator" /\ caller[c].result # "ok" /\ caller[c].phase = "deciding"
    BY <1>3, <1>4 DEF Decide, Standing
  <2>2. CASE Goes(c, "sending")
    BY <1>1, <2>1, <2>2, GoesTokens DEF Leads
  <2>3. CASE Goes(c, "joining")
    <3> DEFINE q == [caller[c] EXCEPT !.phase = "joining"]
    <3>1. q.phase = "joining" /\ q.result = caller[c].result /\ Alike(q, caller[c])
      BY <1>2 DEF Callers, Alike
    <3>2. caller' = [caller EXCEPT ![c] = q]
      BY <2>3 DEF Goes
    <3> HIDE DEF q
    <3>3. Standing(c, q) /\ ~Fresh(q) /\ ~Leads(caller[c])
      BY <2>1, <3>1 DEF Standing, Fresh, Leads
    <3>4. gen = 0 => Holding(c, q)
      BY <1>3, <2>1, <3>1, <3>3 DEF Holding, Alike
    <3>5. q.why = "force" => Target[c] \in forced'
      BY <1>1, <1>3, <3>1 DEF Ordered, Alike, Untouched
    <3>6. QED
      BY <1>1, <2>1, <3>1, <3>2, <3>3, <3>4, <3>5, Alone
  <2>4. QED
    BY <1>4, <2>2, <2>3 DEF Decide
<1>5. CASE AccountGate(c)
  <2>1. caller[c].phase = "gate" /\ caller[c].result # "ok"
    BY <1>3, <1>5 DEF AccountGate, Standing
  <2>2. Throttled(c) \/ Goes(c, "window")
    BY <1>5 DEF AccountGate
  <2>3. QED
    BY <1>1, <2>1, <2>2, ThrottledTokens, GoesTokens
<1>6. CASE GlobalGate(c)
  <2>1. caller[c].phase = "window" /\ caller[c].result # "ok"
    BY <1>3, <1>6 DEF GlobalGate, Standing
  <2>2. CASE Throttled(c)
    BY <1>1, <2>1, <2>2, ThrottledTokens
  <2>3. CASE ~Throttled(c)
    <3> DEFINE q == [caller[c] EXCEPT !.phase = "asking", !.token = Mine(c).token]
    <3>1. /\ q.phase = "asking" /\ q.result = caller[c].result /\ q.then = caller[c].then
          /\ q.token = Mine(c).token /\ Alike(q, caller[c])
      BY <1>2 DEF Callers, Alike
    <3>2. caller' = [caller EXCEPT ![c] = q]
      BY <1>6, <2>3 DEF GlobalGate
    <3> HIDE DEF q
    <3>3. Standing(c, q) /\ ~Fresh(q) /\ (Leads(q) <=> Leads(caller[c]))
      BY <1>3, <2>1, <3>1 DEF Standing, Fresh, Leads, Alike
    <3>4. gen = 0 => Holding(c, q)
      BY <1>3, <2>1, <3>1, <3>3, MineIsKept, Numbers DEF Holding, Alike, Kept
    <3>5. q.why = "force" => Target[c] \in forced'
      BY <1>1, <1>3, <3>1 DEF Ordered, Alike, Untouched
    <3>6. QED
      BY <1>1, <2>1, <3>1, <3>2, <3>3, <3>4, <3>5, Alone
  <2>4. QED
    BY <2>2, <2>3
<1>7. QED
  BY <1>4, <1>5, <1>6

(* A refusal, or an answer that never came.                                 *)
LEMMA RefusesTokens ==
  ASSUME TypeOK, Tokens, NEW c \in Caller, Refuses(c) PROVE Tokens'
<1>1. PICK result \in {"invalid", "failed"} : Answered(c, "finishing", result, caller[c].token)
  BY DEF Refuses
<1> DEFINE q == [caller[c] EXCEPT !.phase = "finishing", !.result = result,
                                  !.token = caller[c].token]
<1>2. /\ q.phase = "finishing" /\ q.result = result /\ q.then = caller[c].then
      /\ Alike(q, caller[c]) /\ caller[c].phase = "asking"
  BY Numbers DEF Callers, Alike, Refuses
<1>3. caller' = [caller EXCEPT ![c] = q]
  BY <1>1 DEF Answered
<1> HIDE DEF q
<1>4. Standing(c, q) /\ (Leads(caller[c]) <=> Leads(q))
  BY <1>2 DEF Tokens, Standing, Alike, Leads
<1>5. Untouched /\ UNCHANGED refreshCalls
  BY KeepTokens DEF Refuses, history
<1>6. QED
  BY <1>2, <1>3, <1>4, <1>5, Calm

(* The provider rotates the newest token: nobody else has it, and no older  *)
(* one is still to be stored.                                               *)
LEMMA RotatesTokens ==
  ASSUME TypeOK, Tokens, NEW c \in Caller, Rotates(c) PROVE Tokens'
<1>1. PICK phase \in {"storing", "finishing"}, result \in {"ok", "failed"}, token \in Pairs :
        /\ Answered(c, phase, result, token)
        /\ phase = "storing" => result = "ok" /\ token = issued[Target[c]] + 1
        /\ phase = "finishing" => result = "failed" /\ Target[c] \in orphaned'
  <2>1. issued[Target[c]] + 1 \in Pairs /\ caller[c].token \in Pairs
    BY Numbers, RefreshAssumption DEF Rotates, Pairs, Callers
  <2>2. QED
    BY <2>1 DEF Rotates
<1> DEFINE q == [caller[c] EXCEPT !.phase = phase, !.result = result, !.token = token]
<1>2. /\ q.phase = phase /\ q.result = result /\ q.token = token /\ q.then = caller[c].then
      /\ Alike(q, caller[c])
  BY Numbers DEF Callers, Alike
<1>3. caller' = [caller EXCEPT ![c] = q]
  BY <1>1 DEF Answered
<1> HIDE DEF q
<1>4. /\ caller[c].phase = "asking" /\ caller[c].token = issued[Target[c]]
      /\ issued' = [issued EXCEPT ![Target[c]] = issued[Target[c]] + 1]
      /\ UNCHANGED <<lapsed, account, disk, gen, refreshCalls, forced>>
      /\ orphaned \subseteq orphaned'
  BY DEF Rotates
<1>5. \A d \in Caller : caller'[d] = IF d = c THEN q ELSE caller[d]
  BY <1>3 DEF TypeOK
<1>6. \A s \in Seat : Kept(s)' = Kept(s)
  BY <1>4 DEF Kept
<1>7. Named' /\ \A d \in Caller : Waits(caller[d], Target[d])'
  <2>1. \A s \in Seat : Kept(s)' \in Nat /\ Kept(s) <= Kept(s)'
    BY <1>6, Numbers
  <2>2. Leads(caller[c]) => Leads(q)
    BY <1>2, <1>4 DEF Leads, Alike
  <2>3. ~Fresh(q)
    BY <1>1, <1>2 DEF Fresh
  <2>4. QED
    BY <1>1, <1>2, <1>3, <1>4, <2>1, <2>2, <2>3, OthersWait
<1>8. ASSUME NEW d \in Caller PROVE Standing(d, caller[d])' /\ Ordered(d, caller[d])'
  <2>1. Standing(d, caller[d]) /\ Ordered(d, caller[d])
    BY DEF Tokens
  <2>2. CASE d = c
    BY <1>1, <1>2, <1>4, <1>5, <2>1, <2>2 DEF Standing, Ordered, Alike
  <2>3. CASE d # c
    BY <1>4, <1>5, <2>1, <2>3 DEF Standing, Ordered
  <2>4. QED
    BY <2>2, <2>3
<1>9. ASSUME gen' = 0 PROVE Single'
  <2>1. gen = 0 /\ Single
    BY <1>4, <1>9 DEF Tokens
  <2>2. \A s \in Seat : issued'[s] = IF s = Target[c] THEN issued[s] + 1 ELSE issued[s]
    BY <1>4 DEF TypeOK
  <2>3. Holding(c, caller[c]) /\ Known
    BY <2>1 DEF Single
  <2>4. /\ Target[c] \in Seat /\ issued[Target[c]] \in Nat
        /\ Kept(Target[c]) = issued[Target[c]] /\ lapsed[Target[c]] <= issued[Target[c]]
    BY <1>4, <2>3, Numbers DEF Holding, Known
  <2>5. \A d \in Caller : caller[d].phase = "storing" => Target[d] # Target[c]
    <3> SUFFICES ASSUME NEW d \in Caller, caller[d].phase = "storing", Target[d] = Target[c]
                 PROVE  FALSE
      OBVIOUS
    <3>1. Kept(Target[c]) < issued[Target[c]]
      BY <2>1 DEF Single, Holding
    <3>2. QED
      BY <2>4, <3>1
  <2>6. Known'
    BY <1>4, <1>6, <2>2, <2>3, Numbers DEF Known
  <2>7. OneStores'
    BY <1>5, <2>1, <2>5 DEF Single, OneStores
  <2>8. NewestTokenKept'
    <3> SUFFICES ASSUME NEW s \in Seat, s \notin orphaned', account[0][s].token # issued'[s]
                 PROVE  \E d \in Caller : /\ Target[d] = s /\ caller'[d].phase = "storing"
                                          /\ caller'[d].token = issued'[s]
      BY <1>4 DEF NewestTokenKept
    <3>1. CASE s = Target[c]
      BY <1>1, <1>2, <1>5, <2>2, <3>1
    <3>2. CASE s # Target[c]
      <4>1. PICK d \in Caller : /\ Target[d] = s /\ caller[d].phase = "storing"
                                /\ caller[d].token = issued[s]
        BY <1>4, <2>1, <2>2, <3>2 DEF Single, NewestTokenKept
      <4>2. QED
        BY <1>5, <2>2, <3>2, <4>1
    <3>3. QED
      BY <3>1, <3>2
  <2>9. ASSUME NEW d \in Caller PROVE Holding(d, caller[d])'
    <3>1. Holding(d, caller[d]) /\ Target[d] \in Seat /\ issued[Target[d]] \in Nat
      BY <2>1, Numbers DEF Single
    <3>2. CASE d = c
      <4>1. caller'[d] = q
        BY <1>5, <3>2
      <4>2. Kept(Target[d])' = Kept(Target[d]) /\ issued'[Target[d]] = issued[Target[d]] + 1
        BY <1>6, <2>2, <3>1, <3>2
      <4>3. lapsed[Target[d]] \in Nat
        BY <3>1, Numbers
      <4>4. q.phase = "storing" => /\ q.token = issued'[Target[d]]
                                   /\ Kept(Target[d])' < issued'[Target[d]]
                                   /\ lapsed'[Target[d]] < issued'[Target[d]]
        BY <1>1, <1>2, <1>4, <2>4, <3>2, <4>2, <4>3
      <4>5. QED
        BY <1>1, <1>2, <1>4, <3>1, <3>2, <4>1, <4>2, <4>4 DEF Holding, Alike, Fresh, Leads
    <3>3. CASE d # c
      <4>1. caller'[d] = caller[d] /\ Kept(Target[d])' = Kept(Target[d])
        BY <1>5, <1>6, <3>1, <3>3
      <4>2. issued'[Target[d]] \in {issued[Target[d]], issued[Target[d]] + 1}
        BY <2>2, <3>1
      <4>3. caller[d].phase = "storing" => issued'[Target[d]] = issued[Target[d]]
        BY <2>2, <2>5, <3>1
      <4>4. caller[d].phase = "saving" => caller[d].file.token <= issued'[Target[d]]
        BY <3>1, <4>2, Numbers DEF Holding
      <4>5. QED
        BY <1>4, <3>1, <4>1, <4>3, <4>4 DEF Holding, Fresh, Leads
    <3>4. QED
      BY <3>2, <3>3
  <2>10. QED
    BY <2>6, <2>7, <2>8, <2>9 DEF Single
<1>10. QED
  BY <1>7, <1>8, <1>9 DEF Tokens

(* The rotated token is stored: it is newer than any a request has used, and *)
(* no other leader is asking with the one it replaces.                      *)
LEMMA StoreTokens ==
  ASSUME Inv, Tokens, NEW c \in Caller, Store(c) PROVE Tokens'
<1> DEFINE a == [Mine(c) EXCEPT !.token = caller[c].token, !.recent = TRUE, !.dead = FALSE]
           q == [caller[c] EXCEPT !.phase = "saving", !.file = FileOf(a), !.then = "finishing",
                                  !.token = 0]
<1>1. TypeOK /\ caller[c] \in Callers /\ Mine(c) \in Accounts /\ Target[c] \in Seat
  BY Objects DEF Inv
<1>2. /\ q.phase = "saving" /\ q.result = caller[c].result /\ q.then = "finishing"
      /\ q.file.token = caller[c].token /\ Alike(q, caller[c])
  BY <1>1 DEF Callers, Accounts, Alike, FileOf
<1>3. caller' = [caller EXCEPT ![c] = q] /\ SetMine(c, a) /\ a.token = caller[c].token
  BY <1>1 DEF Store, Saves, Accounts
<1>4. /\ caller[c].phase = "storing"
      /\ UNCHANGED <<issued, lapsed, disk, gen, refreshCalls, forced, orphaned>>
  BY DEF Store, provider, history
<1>5. gen = 0 => \A s \in Seat :
                   Kept(s)' = IF s = Target[c] THEN issued[s] ELSE Kept(s)
  <2> SUFFICES ASSUME gen = 0, NEW s \in Seat
               PROVE  Kept(s)' = IF s = Target[c] THEN issued[s] ELSE Kept(s)
    OBVIOUS
  <2>1. caller[c].g = 0 /\ caller[c].token = issued[Target[c]]
    BY <1>4 DEF Tokens, Single, Holding
  <2>2. account' = [account EXCEPT ![0][Target[c]] = a]
    BY <1>3, <2>1 DEF SetMine
  <2> HIDE DEF a, q
  <2>3. QED
    BY <1>1, <1>3, <2>1, <2>2, ConstantsTyped DEF Kept, TypeOK
<1> HIDE DEF a, q
<1>6. \A d \in Caller : caller'[d] = IF d = c THEN q ELSE caller[d]
  BY <1>1, <1>3 DEF TypeOK
<1>7. gen = 0 => /\ Single /\ Holding(c, caller[c])
                 /\ Kept(Target[c]) < issued[Target[c]] /\ lapsed[Target[c]] < issued[Target[c]]
                 /\ \A s \in Seat : Kept(s) <= Kept(s)' /\ Kept(s)' \in Nat
  BY <1>1, <1>4, <1>5, Numbers DEF Tokens, Single, Known, Holding
<1>8. Named' /\ \A d \in Caller : Waits(caller[d], Target[d])'
  <2>1. Leads(caller[c]) => Leads(q)
    BY <1>2, <1>4 DEF Leads, Alike
  <2>2. ASSUME gen = 0, NEW d \in Caller, Target[d] = Target[c]
        PROVE  caller[d].access < Kept(Target[c])'
    BY <1>1, <1>5, <1>7, <2>2, Numbers DEF Single, Holding
  <2>3. QED
    BY <1>1, <1>2, <1>3, <1>4, <1>7, <2>1, <2>2, OthersWait
<1>9. ASSUME NEW d \in Caller PROVE Standing(d, caller[d])' /\ Ordered(d, caller[d])'
  <2>1. Standing(d, caller[d]) /\ Ordered(d, caller[d])
    BY DEF Tokens
  <2>2. CASE d = c
    BY <1>2, <1>4, <1>6, <2>1, <2>2 DEF Standing, Ordered, Alike
  <2>3. CASE d # c
    BY <1>4, <1>6, <2>1, <2>3 DEF Standing, Ordered
  <2>4. QED
    BY <2>2, <2>3
<1>10. ASSUME gen' = 0 PROVE Single'
  <2>1. gen = 0
    BY <1>4, <1>10
  <2>2. Known'
    BY <1>1, <1>4, <1>5, <1>7, <2>1, Numbers DEF Single, Known
  <2>3. OneStores'
    BY <1>2, <1>6, <1>7, <2>1 DEF Single, OneStores
  <2>4. NewestTokenKept'
    <3> SUFFICES ASSUME NEW s \in Seat, s \notin orphaned, Kept(s)' # issued[s]
                 PROVE  \E d \in Caller : /\ Target[d] = s /\ caller'[d].phase = "storing"
                                          /\ caller'[d].token = issued[s]
      BY <1>4 DEF NewestTokenKept, Kept
    <3>1. s # Target[c] /\ Kept(s) # issued[s]
      BY <1>5, <2>1
    <3>2. PICK d \in Caller : /\ Target[d] = s /\ caller[d].phase = "storing"
                              /\ caller[d].token = issued[s]
      BY <1>7, <2>1, <3>1 DEF Single, NewestTokenKept, Kept
    <3>3. QED
      BY <1>6, <3>1, <3>2
  <2>5. ASSUME NEW d \in Caller PROVE Holding(d, caller[d])'
    <3>1. Holding(d, caller[d]) /\ Target[d] \in Seat
      BY <1>1, <1>7, <2>1, Numbers DEF Single
    <3>2. CASE d = c
      BY <1>1, <1>2, <1>4, <1>5, <1>6, <1>7, <2>1, <3>1, <3>2, Numbers
         DEF Holding, Alike, Fresh
    <3>3. CASE d # c
      <4>1. caller'[d] = caller[d] /\ Kept(Target[d]) <= Kept(Target[d])'
        BY <1>6, <1>7, <2>1, <3>1, <3>3
      <4>2. caller[d].phase = "storing" => Target[d] # Target[c]
        BY <1>4, <1>7, <2>1, <3>3 DEF Single, OneStores
      <4>3. caller[d].phase = "asking" /\ Target[d] \notin forced => Target[d] # Target[c]
        <5>1. Ordered(c, caller[c]) /\ Ordered(d, caller[d])
          BY DEF Tokens
        <5>2. QED
          BY <1>4, <3>3, <5>1 DEF Ordered, Inv, Registered, Leads
      <4>4. /\ Kept(Target[d]) \in Nat /\ Kept(Target[d])' \in Nat /\ lapsed[Target[d]] \in Nat
            /\ caller[d].access \in Nat /\ caller[d].token \in Nat
        BY <1>1, <1>7, <2>1, <3>1, Numbers
      <4>5. Target[d] # Target[c] => Kept(Target[d])' = Kept(Target[d])
        BY <1>5, <2>1, <3>1
      <4>6. QED
        BY <1>4, <3>1, <4>1, <4>2, <4>3, <4>4, <4>5 DEF Holding, Fresh, Leads
    <3>4. QED
      BY <3>2, <3>3
  <2>6. QED
    BY <2>2, <2>3, <2>4, <2>5 DEF Single
<1>11. QED
  BY <1>8, <1>9, <1>10 DEF Tokens

(* The end of refreshAccountOnce, and its save.                             *)
LEMMA FinishTokens ==
  ASSUME TypeOK, Tokens, NEW c \in Caller, Finish(c) PROVE Tokens'
<1>1. PICK recent \in BOOLEAN :
        /\ SetMine(c, [Mine(c) EXCEPT !.recent = recent])
        /\ Saves(c, [Mine(c) EXCEPT !.recent = recent], After(c))
  BY Objects DEF Finish, Accounts
<1> DEFINE a == [Mine(c) EXCEPT !.recent = recent]
<1>2. a \in Accounts /\ a.token = Mine(c).token
  BY Objects DEF Accounts
<1> HIDE DEF a
<1>3. SetMine(c, a) /\ Saves(c, a, After(c))
  BY <1>1 DEF a
<1>4. \A s \in Seat : account'[0][s].token = account[0][s].token
  BY <1>2, <1>3, SameTokens
<1>5. Untouched /\ UNCHANGED refreshCalls /\ caller[c].phase = "finishing"
  BY <1>4, KeepTokens DEF Finish, history
<1>6. After(c) # "sending"
  BY DEF After
<1>7. QED
  BY <1>2, <1>3, <1>5, <1>6, SavesTokens

(* The file is written: its token is one that was issued.                   *)
LEMMA WriteFileTokens ==
  ASSUME Inv, Tokens, NEW c \in Caller, WriteFile(c) PROVE Tokens'
<1>1. TypeOK /\ caller[c] \in Callers /\ Target[c] \in Seat /\ caller[c].phase = "saving"
  BY Objects DEF Inv, WriteFile
<1>2. Untouched /\ UNCHANGED refreshCalls
  <2>1. gen = 0 => \A s \in Seat : disk'[s].token <= issued[s]
    <3>1. gen = 0 => Known /\ caller[c].file.token <= issued[Target[c]]
      BY <1>1 DEF Tokens, Single, Holding
    <3>2. \A s \in Seat : disk'[s] = IF s = Target[c] THEN caller[c].file ELSE disk[s]
      BY <1>1 DEF WriteFile, TypeOK
    <3>3. QED
      BY <3>1, <3>2 DEF Known
  <2>2. QED
    BY <2>1 DEF WriteFile, Untouched, provider, history
<1>3. CASE caller[c].then = "idle"
  BY <1>1, <1>2, <1>3, StopsTokens DEF WriteFile, Leads
<1>4. CASE caller[c].then # "idle"
  <2> DEFINE q == [caller[c] EXCEPT !.phase = caller[c].then, !.file = NoFile, !.then = "idle"]
  <2>1. /\ q.phase = caller[c].then /\ q.result = caller[c].result /\ q.then = "idle"
        /\ Alike(q, caller[c])
    BY <1>1 DEF Callers, Alike
  <2>2. caller' = [caller EXCEPT ![c] = q]
    BY <1>4 DEF WriteFile
  <2> HIDE DEF q
  <2>3. q.phase \in {"finishing", "sending", "told", "unregister"}
        /\ (q.phase = "told" <=> q.phase = After(c) /\ Role[c] = "operator")
        /\ (q.phase = "unregister" => Role[c] # "operator")
    BY <1>1, <1>4, <2>1 DEF Inv, Routes, Route, After
  <2>4. Standing(c, q)
    BY <1>1, <2>1, <2>3 DEF Tokens, Standing, Alike
  <2>5. Leads(caller[c]) <=> Leads(q)
    BY <1>1, <2>1, <2>3 DEF Leads, Alike
  <2>6. QED
    BY <1>1, <1>2, <2>1, <2>2, <2>3, <2>4, <2>5, Calm
<1>5. QED
  BY <1>3, <1>4

(* The save of RefreshToken fails.                                          *)
LEMMA WriteFailsTokens ==
  ASSUME TypeOK, Tokens, NEW c \in Caller, WriteFails(c) PROVE Tokens'
<1> DEFINE q == [caller[c] EXCEPT !.phase = "finishing", !.file = NoFile, !.then = "idle",
                                  !.result = "failed"]
<1>1. q.phase = "finishing" /\ q.result = "failed" /\ q.then = "idle" /\ Alike(q, caller[c])
  BY Numbers DEF Callers, Alike
<1>2. /\ caller' = [caller EXCEPT ![c] = q]
      /\ caller[c].phase = "saving" /\ caller[c].then = "finishing"
  BY DEF WriteFails
<1> HIDE DEF q
<1>3. Untouched /\ UNCHANGED refreshCalls
  BY KeepTokens DEF WriteFails
<1>4. Standing(c, q) /\ (Leads(caller[c]) <=> Leads(q))
  BY <1>1, <1>2 DEF Tokens, Standing, Leads, Alike
<1>5. QED
  BY <1>1, <1>2, <1>3, <1>4, Calm

(* The leader takes its seat out of refreshCalls; who waits for it still    *)
(* waits.                                                                   *)
LEMMA UnregisterTokens ==
  ASSUME Inv, Tokens, NEW c \in Caller, Unregister(c) PROVE Tokens'
<1> DEFINE q == [caller[c] EXCEPT !.phase = "closing"]
<1>1. TypeOK /\ caller[c] \in Callers /\ Target[c] \in Seat /\ caller[c].phase = "unregister"
  BY Objects DEF Inv, Unregister
<1>2. q.phase = "closing" /\ q.result = caller[c].result /\ Alike(q, caller[c])
  BY <1>1 DEF Callers, Alike
<1>3. /\ caller' = [caller EXCEPT ![c] = q]
      /\ refreshCalls' = [refreshCalls EXCEPT ![Target[c]] = NoCaller]
  BY DEF Unregister, Goes
<1> HIDE DEF q
<1>4. Untouched
  BY DEF Unregister, Untouched, provider, history, Tokens, Single, Known
<1>5. \A d \in Caller : caller'[d] = IF d = c THEN q ELSE caller[d]
  BY <1>1, <1>3 DEF TypeOK
<1>6. Named'
  <2> SUFFICES ASSUME NEW s \in Seat, refreshCalls'[s] # NoCaller
               PROVE  Leads(caller'[refreshCalls'[s]]) /\ Target[refreshCalls'[s]] = s
    BY DEF Named, Leads
  <2>1. s # Target[c] /\ refreshCalls'[s] = refreshCalls[s] /\ refreshCalls[s] \in Caller
    BY <1>1, <1>3 DEF TypeOK
  <2>2. Leads(caller[refreshCalls[s]]) /\ Target[refreshCalls[s]] = s
    BY <2>1 DEF Tokens, Named
  <2>3. QED
    BY <1>5, <2>1, <2>2
<1>7. ASSUME NEW d \in Caller PROVE Waits(caller[d], Target[d])'
  <2> SUFFICES ASSUME caller'[d].phase = "waiting" PROVE Waits(caller[d], Target[d])'
    BY DEF Waits
  <2>1. caller'[d] = caller[d]
    BY <1>2, <1>5
  <2>2. PICK e \in Caller :
          /\ caller[d].on = e /\ Target[e] = Target[d]
          /\ Leads(caller[e]) \/ caller[e].phase = "closing"
          /\ gen = 0 /\ Fresh(caller[e]) /\ caller[d].why = "retry"
               => caller[d].access < Kept(Target[d])
    BY <2>1 DEF Tokens, Waits
  <2>3. /\ Leads(caller'[e]) \/ caller'[e].phase = "closing"
        /\ Fresh(caller'[e]) => Fresh(caller[e])
    BY <1>1, <1>2, <1>5, <2>2 DEF Fresh
  <2>4. Kept(Target[d])' = Kept(Target[d]) /\ gen' = gen
    BY <1>4, RefreshAssumption DEF Untouched, Kept
  <2>5. QED
    BY <2>1, <2>2, <2>3, <2>4 DEF Waits, Leads, Fresh
<1>8. Standing(c, q) /\ (gen = 0 => Holding(c, q)) /\ (q.why = "force" => Target[c] \in forced')
  BY <1>1, <1>2, <1>4 DEF Tokens, Single, Standing, Ordered, Holding, Alike, Fresh, Leads, Untouched
<1>9. /\ \A d \in Caller : Standing(d, caller[d])' /\ Ordered(d, caller[d])'
      /\ gen' = 0 => Single'
  BY <1>1, <1>2, <1>4, <1>5, <1>8, Sound
<1>10. QED
  BY <1>6, <1>7, <1>9 DEF Tokens

(* Nobody names or waits for a caller that is not in a refresh: what others *)
(* say of leaders stands when it joins one.                                 *)
LEMMA JoinTokens ==
  ASSUME Inv, Tokens, NEW c \in Caller, Join(c) PROVE Tokens'
<1>1. /\ TypeOK /\ caller[c] \in Callers /\ Target[c] \in Seat /\ caller[c].phase = "joining"
      /\ refreshCalls[Target[c]] \in Caller \cup {NoCaller}
  BY Objects DEF Inv, Join, TypeOK
<1>2. /\ Standing(c, caller[c]) /\ Ordered(c, caller[c]) /\ (gen = 0 => Holding(c, caller[c]))
      /\ Role[c] # "operator" /\ caller[c].result # "ok" /\ caller[c].why # "force"
  BY <1>1 DEF Tokens, Single, Standing, Inv, Routes, Route
<1>3. PICK q : /\ caller' = [caller EXCEPT ![c] = q]
               /\ q.result = caller[c].result /\ Alike(q, caller[c])
               /\ \/ /\ refreshCalls[Target[c]] # NoCaller /\ UNCHANGED refreshCalls
                     /\ q.phase = "waiting" /\ q.on = refreshCalls[Target[c]]
                  \/ /\ refreshCalls[Target[c]] = NoCaller /\ q.phase = "gate"
                     /\ refreshCalls' = [refreshCalls EXCEPT ![Target[c]] = c]
  <2>1. CASE refreshCalls[Target[c]] # NoCaller
    <3> DEFINE q == [caller[c] EXCEPT !.phase = "waiting", !.on = refreshCalls[Target[c]]]
    <3>1. /\ q.phase = "waiting" /\ q.on = refreshCalls[Target[c]]
          /\ q.result = caller[c].result /\ Alike(q, caller[c])
      BY <1>1 DEF Callers, Alike
    <3>2. caller' = [caller EXCEPT ![c] = q] /\ UNCHANGED refreshCalls
      BY <2>1 DEF Join
    <3> HIDE DEF q
    <3>3. QED
      BY <2>1, <3>1, <3>2
  <2>2. CASE refreshCalls[Target[c]] = NoCaller
    <3> DEFINE q == [caller[c] EXCEPT !.phase = "gate"]
    <3>1. q.phase = "gate" /\ q.result = caller[c].result /\ Alike(q, caller[c])
      BY <1>1 DEF Callers, Alike
    <3>2. /\ caller' = [caller EXCEPT ![c] = q]
          /\ refreshCalls' = [refreshCalls EXCEPT ![Target[c]] = c]
      BY <2>2 DEF Join, Goes
    <3> HIDE DEF q
    <3>3. QED
      BY <2>2, <3>1, <3>2
  <2>3. QED
    BY <2>1, <2>2
<1>4. Untouched
  BY DEF Join, Untouched, provider, history, Tokens, Single, Known
<1>5. \A d \in Caller : caller'[d] = IF d = c THEN q ELSE caller[d]
  BY <1>1, <1>3 DEF TypeOK
<1>6. Named'
  <2> SUFFICES ASSUME NEW s \in Seat, refreshCalls'[s] # NoCaller
               PROVE  Leads(caller'[refreshCalls'[s]]) /\ Target[refreshCalls'[s]] = s
    BY DEF Named, Leads
  <2>1. CASE refreshCalls'[s] = refreshCalls[s]
    <3>1. Leads(caller[refreshCalls[s]]) /\ Target[refreshCalls[s]] = s
          /\ refreshCalls[s] \in Caller
      BY <2>1 DEF Tokens, Named, Inv, TypeOK
    <3>2. refreshCalls[s] # c
      BY <1>1, <3>1 DEF Leads
    <3>3. QED
      BY <1>5, <2>1, <3>1, <3>2
  <2>2. CASE refreshCalls'[s] # refreshCalls[s]
    <3>1. s = Target[c] /\ refreshCalls'[s] = c /\ q.phase = "gate"
      BY <1>1, <1>3, <2>2 DEF TypeOK
    <3>2. Leads(q)
      BY <1>2, <1>3, <3>1 DEF Leads, Alike
    <3>3. QED
      BY <1>5, <3>1, <3>2
  <2>3. QED
    BY <2>1, <2>2
<1>7. ASSUME NEW d \in Caller PROVE Waits(caller[d], Target[d])'
  <2> SUFFICES ASSUME caller'[d].phase = "waiting" PROVE Waits(caller[d], Target[d])'
    BY DEF Waits
  <2>1. PICK e \in Caller :
          /\ caller'[d].on = e /\ Target[e] = Target[d]
          /\ Leads(caller[e]) \/ caller[e].phase = "closing"
          /\ gen = 0 /\ Fresh(caller[e]) /\ caller'[d].why = "retry"
               => caller'[d].access < Kept(Target[d])
    <3>1. CASE d = c
      <4>1. caller'[d] = q /\ q.phase = "waiting" /\ q.on \in Caller
        BY <1>1, <1>3, <1>5, <3>1
      <4>2. q.on = refreshCalls[Target[c]]
        BY <1>3, <4>1
      <4>3. Leads(caller[q.on]) /\ Target[q.on] = Target[c]
        BY <1>1, <4>1, <4>2, RefreshAssumption DEF Tokens, Named
      <4>4. ASSUME gen = 0, Fresh(caller[q.on]), q.why = "retry"
            PROVE  q.access < Kept(Target[c])
        <5>1. lapsed[Target[c]] < Kept(Target[c])
          BY <4>1, <4>3, <4>4 DEF Tokens, Single, Holding
        <5>2. q.access = caller[c].access /\ caller[c].access <= lapsed[Target[c]]
          BY <1>1, <1>2, <1>3, <4>4 DEF Holding, Alike
        <5>3. QED
          BY <1>1, <5>1, <5>2, Numbers
      <4>5. QED
        BY <3>1, <4>1, <4>3, <4>4
    <3>2. CASE d # c
      BY <1>5, <3>2 DEF Tokens, Waits
    <3>3. QED
      BY <3>1, <3>2
  <2>2. e # c /\ caller'[e] = caller[e]
    BY <1>1, <1>5, <2>1 DEF Leads
  <2>3. Kept(Target[d])' = Kept(Target[d]) /\ gen' = gen
    BY <1>4, RefreshAssumption DEF Untouched, Kept
  <2>4. QED
    BY <2>1, <2>2, <2>3 DEF Waits, Leads, Fresh
<1>8. Standing(c, q) /\ (gen = 0 => Holding(c, q)) /\ (q.why = "force" => Target[c] \in forced')
  BY <1>1, <1>2, <1>3 DEF Standing, Holding, Alike, Fresh
<1>9. /\ \A d \in Caller : Standing(d, caller[d])' /\ Ordered(d, caller[d])'
      /\ gen' = 0 => Single'
  BY <1>1, <1>3, <1>4, <1>5, <1>8, Sound
<1>10. QED
  BY <1>6, <1>7, <1>9 DEF Tokens

(* The waiters are told the leader's result.                                *)
LEMMA CloseDoneTokens ==
  ASSUME Inv, Tokens, NEW c \in Caller, CloseDone(c) PROVE Tokens'
<1>1. TypeOK /\ caller[c].phase = "closing"
  BY DEF Inv, CloseDone
<1>2. Untouched /\ UNCHANGED refreshCalls
  BY DEF CloseDone, Untouched, provider, history, Tokens, Single, Known
<1>3. ASSUME NEW d \in Caller
      PROVE  \/ /\ caller'[d] = caller[d] /\ d # c
                /\ ~(caller[d].phase = "waiting" /\ caller[d].on = c)
             \/ /\ caller'[d].phase = "told" /\ caller'[d].result = caller[c].result
                /\ Alike(caller'[d], caller[d])
                /\ d = c \/ (caller[d].phase = "waiting" /\ caller[d].on = c)
  <2> DEFINE q == [caller[d] EXCEPT !.phase = "told", !.result = caller[c].result,
                                    !.on = NoCaller]
  <2>1. q.phase = "told" /\ q.result = caller[c].result /\ Alike(q, caller[d])
    BY <1>1, Numbers DEF Callers, Alike
  <2>2. caller'[d] = IF d = c \/ (caller[d].phase = "waiting" /\ caller[d].on = c)
                     THEN q ELSE caller[d]
    BY DEF CloseDone
  <2> HIDE DEF q
  <2>3. QED
    BY <2>1, <2>2
<1>4. ASSUME NEW d \in Caller
      PROVE  \/ caller'[d] = caller[d]
             \/ /\ caller[d].phase # "storing" /\ caller'[d].phase # "storing"
                /\ Standing(d, caller'[d]) /\ (gen = 0 => Holding(d, caller'[d]))
                /\ caller'[d].why = "force" => Target[d] \in forced'
  <2> SUFFICES ASSUME caller'[d] # caller[d]
               PROVE  /\ caller[d].phase # "storing" /\ caller'[d].phase # "storing"
                      /\ Standing(d, caller'[d]) /\ (gen = 0 => Holding(d, caller'[d]))
                      /\ caller'[d].why = "force" => Target[d] \in forced'
    OBVIOUS
  <2>1. /\ caller'[d].phase = "told" /\ caller'[d].result = caller[c].result
        /\ Alike(caller'[d], caller[d])
        /\ d = c \/ (caller[d].phase = "waiting" /\ caller[d].on = c)
    BY <1>3
  <2>2. /\ Standing(d, caller[d]) /\ Ordered(d, caller[d]) /\ Waits(caller[d], Target[d])
        /\ gen = 0 => Holding(d, caller[d])
    BY DEF Tokens, Single
  <2>3. Role[d] # "operator"
    BY <1>1, <2>1, <2>2 DEF Standing
  <2>4. Standing(d, caller'[d]) /\ (caller'[d].why = "force" => Target[d] \in forced')
    BY <1>2, <2>1, <2>2, <2>3 DEF Standing, Ordered, Alike, Untouched
  <2>5. ASSUME gen = 0 PROVE Holding(d, caller'[d])
    <3>1. caller[c].result = "ok" /\ caller[d].why = "retry" => caller[d].access < Kept(Target[d])
      BY <1>1, <2>1, <2>2, <2>5 DEF Waits, Holding, Fresh
    <3>2. QED
      BY <2>1, <2>2, <2>5, <3>1 DEF Holding, Alike, Fresh, Leads
  <2>6. QED
    BY <1>1, <2>1, <2>4, <2>5
<1>5. /\ \A d \in Caller : Standing(d, caller[d])' /\ Ordered(d, caller[d])'
      /\ gen' = 0 => Single'
  BY <1>1, <1>2, <1>4, Sound
<1>6. Named'
  <2> SUFFICES ASSUME NEW s \in Seat, refreshCalls'[s] # NoCaller
               PROVE  Leads(caller'[refreshCalls'[s]]) /\ Target[refreshCalls'[s]] = s
    BY DEF Named, Leads
  <2>1. /\ refreshCalls'[s] = refreshCalls[s] /\ refreshCalls[s] \in Caller
        /\ Leads(caller[refreshCalls[s]]) /\ Target[refreshCalls[s]] = s
    BY <1>1, <1>2 DEF Tokens, Named, TypeOK
  <2>2. caller'[refreshCalls[s]] = caller[refreshCalls[s]]
    BY <1>1, <1>3, <2>1 DEF Leads
  <2>3. QED
    BY <2>1, <2>2
<1>7. ASSUME NEW d \in Caller PROVE Waits(caller[d], Target[d])'
  <2> SUFFICES ASSUME caller'[d].phase = "waiting" PROVE Waits(caller[d], Target[d])'
    BY DEF Waits
  <2>1. /\ caller'[d] = caller[d] /\ d # c
        /\ ~(caller[d].phase = "waiting" /\ caller[d].on = c)
    BY <1>3
  <2>2. PICK e \in Caller :
          /\ caller[d].on = e /\ Target[e] = Target[d]
          /\ Leads(caller[e]) \/ caller[e].phase = "closing"
          /\ gen = 0 /\ Fresh(caller[e]) /\ caller[d].why = "retry"
               => caller[d].access < Kept(Target[d])
    BY <2>1 DEF Tokens, Waits
  <2>3. e # c /\ caller[e].phase # "waiting"
    BY <2>1, <2>2 DEF Leads
  <2>4. caller'[e] = caller[e]
    BY <1>3, <2>3
  <2>5. Kept(Target[d])' = Kept(Target[d]) /\ gen' = gen
    BY <1>2, RefreshAssumption DEF Untouched, Kept
  <2>6. QED
    BY <2>1, <2>2, <2>4, <2>5 DEF Waits, Leads, Fresh
<1>8. QED
  BY <1>5, <1>6, <1>7 DEF Tokens

(* Marking a seat dead moves no token.                                      *)
LEMMA MarksDeadTokens ==
  ASSUME TypeOK, Tokens, NEW c \in Caller, MarksDead(c), Keep,
         caller[c].phase \in {"told", "sent"}, caller[c].result # "ok",
         Role[c] = "operator" => caller[c].phase = "told"
  PROVE  Tokens'
<1> DEFINE a == [Mine(c) EXCEPT !.dead = TRUE]
<1>1. a \in Accounts /\ a.token = Mine(c).token
  BY Objects DEF Accounts
<1>2. SetMine(c, a) /\ Saves(c, a, "idle")
  BY DEF MarksDead
<1> HIDE DEF a
<1>3. \A s \in Seat : account'[0][s].token = account[0][s].token
  BY <1>1, <1>2, SameTokens
<1>4. Untouched /\ UNCHANGED refreshCalls
  BY <1>3, KeepTokens DEF Keep, history
<1>5. ~Leads(caller[c]) /\ After(c) # "idle"
  BY DEF Leads, After
<1>6. QED
  BY <1>1, <1>2, <1>4, <1>5, SavesTokens

(* A caller told of a success sends again what is newer than what was       *)
(* rejected.                                                                *)
LEMMA RefreshedTokens ==
  ASSUME TypeOK, Tokens, NEW c \in Caller, Refreshed(c) PROVE Tokens'
<1>1. /\ caller[c] \in Callers /\ caller[c].phase = "told" /\ caller[c].result = "ok"
      /\ Standing(c, caller[c]) /\ (gen = 0 => Holding(c, caller[c])) /\ ~Leads(caller[c])
  BY Numbers DEF Refreshed, Tokens, Single, Leads
<1>2. Untouched /\ UNCHANGED refreshCalls
  <2> DEFINE a == [Mine(c) EXCEPT !.dead = FALSE]
  <2>1. a \in Accounts /\ a.token = Mine(c).token
    BY Objects DEF Accounts
  <2>2. SetMine(c, a) \/ UNCHANGED account
    BY DEF Refreshed
  <2> HIDE DEF a
  <2>3. \A s \in Seat : account'[0][s].token = account[0][s].token
    BY <2>1, <2>2, SameTokens
  <2>4. QED
    BY <2>3, KeepTokens DEF Refreshed, Keep, history
<1>3. CASE Stops(c)
  BY <1>1, <1>2, <1>3, StopsTokens
<1>4. CASE caller[c].why = "preempt" /\ Proceeds(c, "sending")
  <2>1. Role[c] # "operator"
    BY <1>1, <1>4 DEF Standing
  <2>2. QED
    BY <1>1, <1>2, <1>4, <2>1, GoesTokens
<1>5. CASE caller[c].why = "retry" /\ Proceeds(c, "resending")
  <2> DEFINE q == [caller[c] EXCEPT !.phase = "resending", !.result = "none"]
  <2>1. q.phase = "resending" /\ q.result = "none" /\ Alike(q, caller[c])
    BY <1>1 DEF Callers, Alike
  <2>2. caller' = [caller EXCEPT ![c] = q]
    BY <1>5 DEF Proceeds
  <2> HIDE DEF q
  <2>3. Standing(c, q) /\ ~Fresh(q) /\ q.why # "force"
    BY <1>1, <1>5, <2>1 DEF Standing, Fresh, Alike
  <2>4. gen = 0 => Holding(c, q)
    BY <1>1, <1>5, <2>1, <2>3 DEF Holding, Alike, Fresh
  <2>5. QED
    BY <1>1, <1>2, <2>1, <2>2, <2>3, <2>4, Alone
<1>6. QED
  BY <1>3, <1>4, <1>5 DEF Refreshed

(* What else a caller makes of a refresh.                                   *)
LEMMA ToldTokens ==
  ASSUME TypeOK, Tokens, NEW c \in Caller,
         BenchedByThrottle(c) \/ PreemptFails(c) \/ RefreshInvalid(c) \/ RetryFails(c)
  PROVE  Tokens'
<1>1. /\ caller[c] \in Callers /\ caller[c].phase = "told" /\ caller[c].result # "ok"
      /\ Standing(c, caller[c]) /\ ~Leads(caller[c]) /\ Keep
  BY Numbers DEF BenchedByThrottle, PreemptFails, RefreshInvalid, RetryFails, Told, Tokens, Leads
<1>2. UNCHANGED account => Untouched /\ UNCHANGED refreshCalls
  BY <1>1, KeepTokens DEF Keep, history
<1>3. caller[c].why = "preempt" => Role[c] # "operator"
  BY <1>1 DEF Standing
<1>4. CASE BenchedByThrottle(c)
  <2> DEFINE a == [Mine(c) EXCEPT !.limited = TRUE]
  <2>1. a \in Accounts /\ a.token = Mine(c).token
    BY Objects DEF Accounts
  <2>2. SetMine(c, a) \/ UNCHANGED account
    BY <1>4 DEF BenchedByThrottle
  <2> HIDE DEF a
  <2>3. \A s \in Seat : account'[0][s].token = account[0][s].token
    BY <2>1, <2>2, SameTokens
  <2>4. Untouched /\ UNCHANGED refreshCalls
    BY <1>1, <2>3, KeepTokens DEF Keep, history
  <2>5. Stops(c) \/ (Proceeds(c, "sending") /\ Role[c] # "operator")
    BY <1>3, <1>4 DEF BenchedByThrottle
  <2>6. QED
    BY <1>1, <2>4, <2>5, StopsTokens, GoesTokens
<1>5. CASE PreemptFails(c)
  <2> DEFINE q == [caller[c] EXCEPT !.phase = "sending", !.result = "none",
                                    !.bad = Role[c] = "direct"]
  <2>1. q.phase = "sending" /\ q.result = "none" /\ Alike(q, caller[c])
    BY <1>1 DEF Callers, Alike
  <2>2. caller' = [caller EXCEPT ![c] = q] /\ UNCHANGED account /\ Role[c] # "operator"
    BY <1>3, <1>5 DEF PreemptFails, Told
  <2> HIDE DEF q
  <2>3. Standing(c, q) /\ ~Leads(q)
    BY <2>1, <2>2 DEF Standing, Leads
  <2>4. QED
    BY <1>1, <1>2, <2>1, <2>2, <2>3, Calm
<1>6. CASE RefreshInvalid(c)
  <2>1. \/ Goes(c, "probing") /\ UNCHANGED account
        \/ Stops(c) /\ UNCHANGED account
        \/ MarksDead(c)
    BY <1>6 DEF RefreshInvalid
  <2>2. QED
    BY <1>1, <1>2, <2>1, GoesTokens, StopsTokens, MarksDeadTokens
<1>7. CASE RetryFails(c)
  <2>1. (Stops(c) /\ UNCHANGED account) \/ MarksDead(c)
    BY <1>7 DEF RetryFails
  <2>2. QED
    BY <1>1, <1>2, <2>1, StopsTokens, MarksDeadTokens
<1>8. QED
  BY <1>4, <1>5, <1>6, <1>7

(* The probe of a Codex seat and its verdict.                               *)
LEMMA ProbeTokens ==
  ASSUME TypeOK, Tokens, NEW c \in Caller, Probe(c) \/ Verdict(c) PROVE Tokens'
<1>1. Standing(c, caller[c]) /\ caller[c] \in Callers /\ Keep
  BY Numbers DEF Tokens, Probe, Verdict
<1>2. CASE Probe(c)
  <2>1. PICK result \in {"live", "unusable", "unknown"} :
          caller' = [caller EXCEPT ![c] = [caller[c] EXCEPT !.phase = "verdict",
                                                            !.result = result]]
    BY <1>2 DEF Probe
  <2> DEFINE q == [caller[c] EXCEPT !.phase = "verdict", !.result = result]
  <2>2. /\ q.phase = "verdict" /\ q.result = result /\ q.then = caller[c].then
        /\ Alike(q, caller[c]) /\ caller[c].phase = "probing"
    BY <1>1, <1>2 DEF Callers, Alike, Probe
  <2>3. caller' = [caller EXCEPT ![c] = q]
    BY <2>1
  <2> HIDE DEF q
  <2>4. Untouched /\ UNCHANGED refreshCalls
    BY <1>2, KeepTokens DEF Probe, Keep, history
  <2>5. Standing(c, q) /\ ~Leads(q) /\ ~Leads(caller[c])
    BY <1>1, <2>2 DEF Standing, Leads, Alike
  <2>6. QED
    BY <2>2, <2>3, <2>4, <2>5, Calm
<1>3. CASE Verdict(c)
  <2>1. PICK a \in Accounts, next \in {"idle", "sending"} :
          /\ SetMine(c, a) /\ a.token = Mine(c).token /\ Saves(c, a, next)
          /\ next = "sending" => caller[c].why = "preempt"
    BY <1>3, Objects DEF Verdict, Accounts
  <2>2. \A s \in Seat : account'[0][s].token = account[0][s].token
    BY <2>1, SameTokens
  <2>3. Untouched /\ UNCHANGED refreshCalls
    BY <1>1, <2>2, KeepTokens DEF Keep, history
  <2>4. caller[c].phase = "verdict" /\ caller[c].result # "ok"
    BY <1>1, <1>3 DEF Verdict, Standing
  <2>5. ~Leads(caller[c]) /\ After(c) \notin {"idle", "sending"}
    BY <2>4 DEF Leads, After
  <2>6. next = "sending" => Role[c] # "operator"
    BY <1>1, <2>1, <2>4 DEF Standing
  <2>7. QED
    BY <2>1, <2>3, <2>4, <2>5, <2>6, SavesTokens
<1>4. QED
  BY <1>2, <1>3

(* A request sends the token kept, and what is rejected has lapsed.         *)
LEMMA SendTokens ==
  ASSUME TypeOK, Tokens, NEW c \in Caller, Send(c) \/ Served(c) \/ Rejected(c) \/ Resend(c)
  PROVE  Tokens'
<1>1. /\ caller[c] \in Callers /\ Standing(c, caller[c]) /\ Ordered(c, caller[c])
      /\ (gen = 0 => Holding(c, caller[c]))
      /\ caller[c].phase \in {"sending", "sent", "resending"} /\ Keep
  BY Numbers DEF Tokens, Single, Send, Served, Rejected, Resend
<1>2. UNCHANGED account => Untouched /\ UNCHANGED refreshCalls
  BY <1>1, KeepTokens DEF Keep, history
<1>3. Role[c] # "operator" /\ caller[c].result # "ok" /\ ~Leads(caller[c])
  BY <1>1 DEF Standing, Leads
<1>4. CASE Send(c)
  <2> DEFINE q == [caller[c] EXCEPT !.phase = "sent", !.access = Mine(c).token]
  <2>1. /\ q.phase = "sent" /\ q.result = caller[c].result /\ q.access = Mine(c).token
        /\ q.g = caller[c].g /\ q.why = caller[c].why
    BY <1>1 DEF Callers
  <2>2. caller' = [caller EXCEPT ![c] = q] /\ UNCHANGED account
    BY <1>4 DEF Send
  <2> HIDE DEF q
  <2>3. Standing(c, q) /\ ~Fresh(q)
    BY <1>3, <2>1 DEF Standing, Fresh
  <2>4. gen = 0 => Holding(c, q)
    BY <1>1, <2>1, <2>3, MineIsKept, Numbers DEF Holding, Kept
  <2>5. q.why = "force" => Target[c] \in forced'
    BY <1>1, <1>2, <2>1, <2>2 DEF Ordered, Untouched
  <2>6. QED
    BY <1>1, <1>2, <1>3, <2>1, <2>2, <2>3, <2>4, <2>5, Alone
<1>5. CASE Served(c)
  <2>1. CASE Stops(c) /\ UNCHANGED account
    BY <1>1, <1>2, <1>3, <2>1, StopsTokens
  <2>2. CASE SetMine(c, [Mine(c) EXCEPT !.limited = TRUE]) /\ Saves(c, Mine(c), "idle")
    <3>1. /\ [Mine(c) EXCEPT !.limited = TRUE] \in Accounts /\ Mine(c) \in Accounts
          /\ [Mine(c) EXCEPT !.limited = TRUE].token = Mine(c).token
      BY Objects DEF Accounts
    <3>2. \A s \in Seat : account'[0][s].token = account[0][s].token
      BY <2>2, <3>1, SameTokens
    <3>3. Untouched /\ UNCHANGED refreshCalls
      BY <1>1, <3>2, KeepTokens DEF Keep, history
    <3>4. After(c) # "idle"
      BY DEF After
    <3>5. QED
      BY <1>1, <1>3, <2>2, <3>1, <3>3, <3>4, SavesTokens
  <2>3. QED
    BY <1>5, <2>1, <2>2 DEF Served
<1>6. CASE Rejected(c)
  <2>1. CASE Stops(c) /\ UNCHANGED account
    BY <1>1, <1>2, <1>3, <2>1, StopsTokens
  <2>2. CASE MarksDead(c)
    BY <1>1, <1>3, <1>6, <2>2, MarksDeadTokens DEF Rejected
  <2>3. CASE /\ caller' = [caller EXCEPT ![c] = [caller[c] EXCEPT !.phase = "joining",
                                                                 !.why = "retry"]]
             /\ UNCHANGED account
    <3> DEFINE q == [caller[c] EXCEPT !.phase = "joining", !.why = "retry"]
    <3>1. /\ q.phase = "joining" /\ q.result = caller[c].result /\ q.access = caller[c].access
          /\ q.g = caller[c].g /\ q.why = "retry"
      BY <1>1 DEF Callers
    <3>2. caller' = [caller EXCEPT ![c] = q]
      BY <2>3
    <3> HIDE DEF q
    <3>3. Standing(c, q) /\ ~Fresh(q)
      BY <1>3, <3>1 DEF Standing, Fresh
    <3>4. gen = 0 => Holding(c, q)
      BY <1>1, <1>6, <3>1, <3>3 DEF Holding, Rejected
    <3>5. QED
      BY <1>1, <1>2, <1>3, <2>3, <3>1, <3>2, <3>3, <3>4, Alone
  <2>4. QED
    BY <1>6, <2>1, <2>2, <2>3 DEF Rejected
<1>7. CASE Resend(c)
  BY <1>1, <1>2, <1>3, <1>7, StopsTokens DEF Resend
<1>8. QED
  BY <1>4, <1>5, <1>6, <1>7

(* Time and reloads that move no token keep the invariant.                  *)
LEMMA TimeTokens ==
  ASSUME TypeOK, Tokens, Untouched, UNCHANGED <<caller, refreshCalls>> PROVE Tokens'
<1>1. /\ \A d \in Caller : Standing(d, caller[d])' /\ Ordered(d, caller[d])'
      /\ gen' = 0 => Single'
  BY Sound
<1>2. Named'
  BY DEF Tokens, Named, Leads
<1>3. ASSUME NEW d \in Caller PROVE Waits(caller[d], Target[d])'
  <2>1. Kept(Target[d])' = Kept(Target[d]) /\ gen' = gen /\ Waits(caller[d], Target[d])
    BY RefreshAssumption DEF Tokens, Untouched, Kept
  <2>2. QED
    BY <2>1 DEF Waits, Leads, Fresh
<1>4. QED
  BY <1>1, <1>2, <1>3 DEF Tokens

(* No access token lapses while its seat is being refreshed.                *)
LEMMA LapseTokens == ASSUME TypeOK, Tokens, NEW s \in Seat, Lapse(s) PROVE Tokens'
<1>1. /\ UNCHANGED <<issued, account, disk, gen, caller, refreshCalls, forced, orphaned>>
      /\ lapsed' = [lapsed EXCEPT ![s] = issued[s]] /\ lapsed[s] < issued[s]
  BY DEF Lapse, history
<1>2. \A z \in Seat : lapsed'[z] = IF z = s THEN issued[z] ELSE lapsed[z]
  BY <1>1 DEF TypeOK
<1>3. /\ Named' /\ \A d \in Caller : /\ Standing(d, caller[d])' /\ Ordered(d, caller[d])'
                                     /\ Waits(caller[d], Target[d])'
  BY <1>1 DEF Tokens, Named, Standing, Ordered, Waits, Kept, Leads, Fresh
<1>4. ASSUME gen' = 0 PROVE Single'
  <2>1. gen = 0 /\ Single
    BY <1>1, <1>4 DEF Tokens
  <2>2. Known' /\ OneStores' /\ NewestTokenKept'
    BY <1>1, <1>2, <2>1, Numbers DEF Single, Known, Kept, OneStores, NewestTokenKept
  <2>3. ASSUME NEW d \in Caller PROVE Holding(d, caller[d])'
    <3>1. /\ Holding(d, caller[d]) /\ Standing(d, caller[d]) /\ Target[d] \in Seat
          /\ Kept(Target[d])' = Kept(Target[d])
      BY <1>1, <2>1, RefreshAssumption DEF Single, Kept, Tokens
    <3>2. CASE Target[d] = s
      <4>1. caller[d].phase \notin {"asking", "storing", "finishing", "saving", "unregister"}
        BY <3>2 DEF Lapse, Refreshing
      <4>2. ~(Fresh(caller[d]) /\ Leads(caller[d]))
        BY <3>1, <4>1 DEF Standing, Fresh, Leads
      <4>3. caller[d].access <= lapsed[s] => caller[d].access <= lapsed'[s]
        BY <1>1, <1>2, Numbers
      <4>4. QED
        BY <1>1, <3>1, <3>2, <4>1, <4>2, <4>3 DEF Holding, Fresh, Leads
    <3>3. CASE Target[d] # s
      <4>1. lapsed'[Target[d]] = lapsed[Target[d]]
        BY <1>2, <3>1, <3>3
      <4>2. QED
        BY <1>1, <3>1, <4>1 DEF Holding, Fresh, Leads
    <3>4. QED
      BY <3>2, <3>3
  <2>4. QED
    BY <2>2, <2>3 DEF Single
<1>5. QED
  BY <1>3, <1>4 DEF Tokens

(* The intervals that pass clear flags only.                                *)
LEMMA PassesTokens ==
  ASSUME TypeOK, Tokens, NEW s \in Seat, IntervalPasses(s) \/ BackoffPasses(s) PROVE Tokens'
<1>1. /\ account \in [Generations -> [Seat -> Accounts]] /\ disk \in [Seat -> Files]
      /\ 0 \in Generations /\ gen \in Generations
  BY ConstantsTyped DEF TypeOK
<1>2. /\ \A a \in Accounts : /\ [a EXCEPT !.recent = FALSE].token = a.token
                             /\ [a EXCEPT !.limited = FALSE].token = a.token
      /\ \A f \in Files : [f EXCEPT !.recent = FALSE].token = f.token
  BY DEF Accounts, Files
<1>3. \A z \in Seat : account'[0][z].token = account[0][z].token /\ disk'[z].token = disk[z].token
  <2>1. CASE IntervalPasses(s)
    BY <1>1, <1>2, <2>1 DEF IntervalPasses
  <2>2. CASE BackoffPasses(s)
    BY <1>1, <1>2, <2>2 DEF BackoffPasses
  <2>3. QED
    BY <2>1, <2>2
<1>4. UNCHANGED <<issued, lapsed, gen, refreshCalls, caller, forced, orphaned>>
  BY DEF IntervalPasses, BackoffPasses, provider, history
<1>5. Untouched
  BY <1>3, <1>4 DEF Untouched, Tokens, Single, Known
<1>6. QED
  BY <1>4, <1>5, TimeTokens

(* After a reload a seat has two objects, and nothing is promised any more. *)
LEMMA ReloadTokens == ASSUME TypeOK, Tokens, ReloadReplaces PROVE Tokens'
<1>1. UNCHANGED <<caller, refreshCalls, forced>> /\ gen' # 0
  BY RefreshAssumption DEF ReloadReplaces, TypeOK, Generations, history
<1>2. QED
  BY <1>1 DEF Tokens, Named, Standing, Ordered, Waits, Leads, Fresh

(* A restart leaves no caller, and orphans the seats whose file is behind.  *)
LEMMA RestartTokens == ASSUME TypeOK, Tokens, Restart PROVE Tokens'
<1>1. /\ \A d \in Caller : caller'[d] = Idle
      /\ \A s \in Seat : refreshCalls'[s] = NoCaller
      /\ UNCHANGED <<issued, lapsed, disk, gen, forced>>
      /\ \A s \in Seat \ orphaned' : disk[s].token = issued[s]
  BY DEF Restart, provider
<1>2. Named' /\ \A d \in Caller : /\ Standing(d, caller[d])' /\ Ordered(d, caller[d])'
                                  /\ Waits(caller[d], Target[d])'
  BY <1>1 DEF Named, Standing, Ordered, Waits, Idle
<1>3. \A s \in Seat : Kept(s)' = disk[s].token
  BY ConstantsTyped DEF Restart, Kept, FromFile
<1>4. ASSUME gen' = 0 PROVE Single'
  <2>1. Known
    BY <1>1, <1>4 DEF Tokens, Single
  <2>2. Known' /\ NewestTokenKept'
    BY <1>1, <1>3, <2>1 DEF Known, NewestTokenKept, Kept
  <2>3. OneStores'
    BY <1>1 DEF OneStores, Idle
  <2>4. ASSUME NEW d \in Caller PROVE Holding(d, caller[d])'
    <3>1. Target[d] \in Seat /\ Kept(Target[d])' \in Nat
      BY <1>3, Numbers
    <3>2. QED
      BY <1>1, <3>1 DEF Holding, Idle, Fresh
  <2>5. QED
    BY <2>2, <2>3, <2>4 DEF Single
<1>5. QED
  BY <1>2, <1>4 DEF Tokens

----------------------------------------------------------------------------
(* The tokens' invariant holds at first.                                    *)
LEMMA InitTokens == Init => Tokens
<1> SUFFICES ASSUME Init PROVE Tokens
  OBVIOUS
<1>1. \A s \in Seat : Kept(s) = 1 /\ issued[s] = 1 /\ lapsed[s] = 0 /\ disk[s].token = 1
  BY ConstantsTyped DEF Init, Kept, FromFile
<1>2. Named /\ \A d \in Caller : /\ Standing(d, caller[d]) /\ Ordered(d, caller[d])
                                 /\ Waits(caller[d], Target[d])
  <2>1. (\A d \in Caller : caller[d] = Idle) /\ \A s \in Seat : refreshCalls[s] = NoCaller
    BY DEF Init
  <2>2. QED
    BY <2>1 DEF Named, Standing, Ordered, Waits, Idle
<1>3. Known /\ OneStores /\ NewestTokenKept
  <2>1. Known /\ NewestTokenKept
    BY <1>1 DEF Known, NewestTokenKept, Kept
  <2>2. OneStores
    BY DEF Init, OneStores, Idle
  <2>3. QED
    BY <2>1, <2>2
<1>4. ASSUME NEW d \in Caller PROVE Holding(d, caller[d])
  <2>1. caller[d] = Idle /\ Kept(Target[d]) = 1
    BY <1>1, RefreshAssumption DEF Init
  <2>2. QED
    BY <2>1 DEF Holding, Idle, Fresh
<1>5. QED
  BY <1>2, <1>3, <1>4 DEF Tokens, Single

(* Every step of a caller keeps it.                                         *)
LEMMA CallerStepTokens ==
  ASSUME Inv, Tokens, NEW c \in Caller, Start(c) \/ ForceRefresh(c) \/ CallerStep(c)
  PROVE  Tokens'
<1>1. TypeOK
  BY DEF Inv
<1>2. QED
  BY <1>1, StartTokens, GateTokens, JoinTokens, RotatesTokens, RefusesTokens, StoreTokens,
     FinishTokens, WriteFileTokens, WriteFailsTokens, UnregisterTokens, CloseDoneTokens,
     RefreshedTokens, ToldTokens, ProbeTokens, SendTokens
     DEF CallerStep

(* Every step keeps it.                                                     *)
LEMMA NextTokens == Inv /\ Tokens /\ [Next]_vars => Tokens'
<1> SUFFICES ASSUME Inv, Tokens, [Next]_vars PROVE Tokens'
  OBVIOUS
<1>1. TypeOK
  BY DEF Inv
<1>2. CASE WindowOpens \/ ReloadLoads \/ UNCHANGED vars
  <2>1. UNCHANGED <<account, disk, issued, lapsed, gen, refreshCalls, caller, forced, orphaned>>
    BY <1>2 DEF WindowOpens, ReloadLoads, vars, provider, history
  <2>2. Untouched
    BY <2>1 DEF Untouched, Tokens, Single, Known
  <2>3. QED
    BY <1>1, <2>1, <2>2, TimeTokens
<1>3. QED
  BY <1>1, <1>2, CallerStepTokens, LapseTokens, PassesTokens, ReloadTokens, RestartTokens
     DEF Next

(* The tokens' invariant holds throughout.                                  *)
LEMMA TokensHold == Spec => []Tokens
BY InitTokens, NextTokens, InvHolds, PTL DEF Spec

(* Until a reload gives a seat a second object, its newest token pair is    *)
(* held by the object or by the caller about to store it there, unless an   *)
(* answer was lost or the process died before the file was written.         *)
THEOREM NewestTokenIsKept == Spec => []NewestTokenKept
<1>1. Tokens => NewestTokenKept
  BY DEF Tokens, Single, NewestTokenKept
<1>2. QED
  BY <1>1, TokensHold, PTL

(* A used-up refresh token is never presented again: whoever asks the       *)
(* provider for a seat nobody forced, and nothing of which was lost, asks   *)
(* with the newest token.                                                   *)
THEOREM NoTokenIsReplayed == Spec => []NoTokenReplay
<1>1. ASSUME Inv, Tokens, NEW c \in Caller, caller[c].phase = "asking", gen = 0,
             Target[c] \notin orphaned \cup forced
      PROVE  caller[c].token = issued[Target[c]]
  <2>1. /\ Holding(c, caller[c]) /\ Ordered(c, caller[c]) /\ Target[c] \in Seat
        /\ NewestTokenKept
    BY <1>1, RefreshAssumption DEF Tokens, Single
  <2>2. caller[c].token = Kept(Target[c])
    BY <1>1, <2>1 DEF Holding
  <2>3. ASSUME NEW d \in Caller, Target[d] = Target[c], caller[d].phase = "storing"
        PROVE  FALSE
    <3>1. Leads(caller[c]) /\ Leads(caller[d])
      BY <1>1, <2>1, <2>3 DEF Ordered, Leads, Tokens
    <3>2. c = d
      BY <1>1, <2>3, <3>1 DEF Inv, Registered
    <3>3. QED
      BY <1>1, <2>3, <3>2
  <2>4. Kept(Target[c]) = issued[Target[c]]
    BY <1>1, <2>1, <2>3 DEF NewestTokenKept, Kept
  <2>5. QED
    BY <2>2, <2>4
<1>2. Inv /\ Tokens => NoTokenReplay
  BY <1>1 DEF NoTokenReplay
<1>3. QED
  BY <1>2, InvHolds, TokensHold, PTL

(* A request sent again after a 401 carries a newer token than the one that *)
(* was rejected, whether it refreshed itself or waited for another.         *)
THEOREM RetriesAreNewer == Spec => []RetryUsesNewerToken
<1>1. ASSUME Inv, Tokens, NEW c \in Caller, caller[c].phase = "resending", gen = 0
      PROVE  Mine(c).token > caller[c].access
  <2>1. Holding(c, caller[c]) /\ Mine(c).token = Kept(Target[c])
    BY <1>1, MineIsKept DEF Tokens, Single, Kept
  <2>2. Kept(Target[c]) \in Nat /\ caller[c].access \in Nat
    BY <1>1, Numbers DEF Inv
  <2>3. QED
    BY <1>1, <2>1, <2>2 DEF Holding
<1>2. Inv /\ Tokens => RetryUsesNewerToken
  BY <1>1 DEF RetryUsesNewerToken
<1>3. QED
  BY <1>2, InvHolds, TokensHold, PTL
=============================================================================
