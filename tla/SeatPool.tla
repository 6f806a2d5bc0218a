------------------------------ MODULE SeatPool ------------------------------
(***************************************************************************)
(* Requests competing for the seats of the pool: how a request claims a    *)
(* seat, books it, is served, retries elsewhere and lets go, while other   *)
(* requests do the same, seats change condition, the status page peeks,    *)
(* an operator deletes a seat and the pool is reloaded (main.go, pool.go,  *)
(* handlers.go, operator_accounts.go).                                     *)
(*                                                                         *)
(* A reload replaces the Account objects but not the requests that hold    *)
(* them: a request remembers the generation of the object it works on.     *)
(***************************************************************************)
EXTENDS SeatSelection

CONSTANTS
  Request,
  Mode,         \* [Request -> Modes]
  WantType, WantPlan, Conv, Supports,
                \* by request: provider, required plan, conversation, and the
                \* seats whose provider accepts the request's path
  Forced,       \* the seat a debug header names, or NoSeat
  InitialPool,  \* seats on disk when the process started
  MaxAttempts,  \* cfg.maxAttempts
  Changes       \* [Seat -> SUBSET Conditions]: what a seat goes through here

Modes == {"buffered", "direct", "models"}
  \* runBufferedAttemptContour; WebSocket and streamed bodies, one attempt;
  \* fetchCodexModels

ASSUME RequestAssumption ==
  /\ Mode \in [Request -> Modes]
  /\ WantType \in [Request -> {"codex", "claude", "gemini", "other"}]
  /\ WantPlan \in [Request -> {AnyPlan} \cup Plans]
  /\ Conv \in [Request -> Conversation \cup {NoSeat}]
  /\ Supports \in [Request -> SUBSET Seat]
  /\ Forced \in [Request -> Seat \cup {NoSeat}]
  /\ InitialPool \in SUBSET Seat
  /\ MaxAttempts \in Nat
  /\ IsFiniteSet(Request)
  /\ Changes \in [Seat -> SUBSET Conditions]
  /\ \A s \in Seat : Changes[s] # {}

VARIABLES
  files,      \* account files in the pool directory
  reload,     \* a reload between loadPool and replace, or Nothing
  req,        \* the requests
  abandoned   \* history: Inflight increments nobody is left to undo

vars == <<poolVars, files, reload, req, abandoned>>

Nothing == [running |-> FALSE]
Loaded == [running : {TRUE}, seats : SUBSET Seat, recency : SUBSET (Seat \X Seat)]

Phases == {"idle", "choosing", "claimed", "booked", "serving", "leaving",
           "answered", "done", "failed"}
Requests == [phase : Phases, seat : Seat \cup {NoSeat}, gen : Generations,
             exclude : SUBSET Seat, attempt : Nat, attempts : Nat, budget : Nat]

Claiming == {"claimed", "booked"}            \* holds one of pendingClaims
Holding == {"booked", "serving", "leaving"}  \* holds one of Account.Inflight

NoRequest == [phase |-> "idle", seat |-> NoSeat, gen |-> 0, exclude |-> {},
              attempt |-> 0, attempts |-> 0, budget |-> 0]
Ended(phase) == [NoRequest EXCEPT !.phase = phase]

Call(r) == [type |-> WantType[r], plan |-> WantPlan[r], conv |-> Conv[r],
            exclude |-> req[r].exclude]

(* countByType, and candidateSupportingPathAttempts which falls back on count *)
countByType(type) == Cardinality({s \in pool : AccountType(s) = type})
Budget(r) ==
  LET n == countByType(WantType[r]) IN IF n > 0 THEN n ELSE Cardinality(pool)

(* Mutant: the attempts are not raised to the number of seats. *)
AttemptsConfigured(r) == IF Mode[r] = "buffered" /\ MaxAttempts > 1 THEN MaxAttempts ELSE 1

(* How many attempts runBufferedAttemptContour allows itself. *)
Attempts(r) ==
  LET wanted == {1, MaxAttempts, countByType(WantType[r])}
      most == CHOOSE n \in wanted : \A m \in wanted : m <= n
      count == Cardinality(pool)
  IN IF Mode[r] # "buffered" THEN 1
     ELSE IF count > 0 /\ most > count THEN count ELSE most

AddInflight(g, s, n) == inflight' = [inflight EXCEPT ![g][s] = @ + n]

(* Mutant: the last claim of a seat is never deleted. *)
releaseClaimKeepsLast(s) ==
  pendingClaims' = [pendingClaims EXCEPT ![s] = IF @ <= 1 THEN @ ELSE @ - 1]

(* poolState.releaseClaim: by account ID, never below zero. *)
releaseClaim(s) ==
  pendingClaims' = [pendingClaims EXCEPT ![s] = IF @ <= 1 THEN 0 ELSE @ - 1]

----------------------------------------------------------------------------
Init ==
  /\ pool = InitialPool
  /\ files = Seat
  /\ gen = 0
  /\ condition \in [Seat -> Conditions]
  /\ \A s \in Seat : condition[s] \in Changes[s]
  /\ inflight = [g \in Generations |-> [s \in Seat |-> 0]]
  /\ abandoned = [g \in Generations |-> [s \in Seat |-> 0]]
  /\ pendingClaims = [s \in Seat |-> 0]
  /\ convPin = [c \in Conversation |-> NoSeat]
  /\ activeCodexID = NoSeat
  /\ activeAPIID = NoSeat
  /\ activeGeminiID = NoSeat
  /\ recency = {}
  /\ reload = Nothing
  /\ req = [r \in Request |-> NoRequest]

Start(r) ==
  /\ req[r].phase = "idle"
  /\ req' = [req EXCEPT ![r].phase = "choosing", ![r].attempt = 1,
                        ![r].attempts = Attempts(r), ![r].budget = Budget(r)]
  /\ UNCHANGED <<poolVars, files, reload, abandoned>>

(* Mutant: the attempt is not counted. *)
NextAttemptUncounted(r) ==
  req' = [req EXCEPT ![r] = [NoRequest EXCEPT !.phase = "choosing", !.budget = Budget(r),
                                              !.exclude = req[r].exclude,
                                              !.attempt = req[r].attempt,
                                              !.attempts = req[r].attempts]]

(* The attempt came to nothing: the next one, or the request has failed.    *)
(* exclude survives into the next attempt.                                 *)
NextAttempt(r) ==
  req' = [req EXCEPT ![r] =
            IF req[r].attempt < req[r].attempts
            THEN [NoRequest EXCEPT !.phase = "choosing", !.budget = Budget(r),
                                   !.exclude = req[r].exclude,
                                   !.attempt = req[r].attempt + 1,
                                   !.attempts = req[r].attempts]
            ELSE Ended("failed")]

(* claimPathSupportingCandidate: claimCandidate under poolState.mu, and the *)
(* seat is excluded from whatever this request chooses later.              *)
Claim(r, s) ==
  /\ req[r].phase = "choosing"
  /\ Forced[r] = NoSeat
  /\ req[r].budget > 0
  /\ s \in Candidates(Call(r))
  /\ UpdateActive(Call(r), s, TRUE)
  /\ pendingClaims' = [pendingClaims EXCEPT ![s] = @ + 1]
  /\ req' = [req EXCEPT ![r].phase = "claimed", ![r].seat = s, ![r].gen = gen,
                        ![r].exclude = @ \cup {s}, ![r].budget = @ - 1]
  /\ UNCHANGED <<pool, gen, condition, inflight, convPin, recency, files, reload,
                 abandoned>>

Serves(r, s) == s \in Supports[r] /\ condition[s] # "model_limited"

RejectClaimed(r) ==
  /\ req[r].phase = "claimed"
  /\ ~Serves(r, req[r].seat)
  /\ releaseClaim(req[r].seat)
  /\ req' = [req EXCEPT ![r].phase = "choosing", ![r].seat = NoSeat, ![r].gen = 0]
  /\ UNCHANGED <<pool, gen, condition, inflight, convPin, activeCodexID, activeAPIID,
                 activeGeminiID, recency, files, reload, abandoned>>

(* atomic.AddInt64(&acc.Inflight, 1): from here to ReleaseClaim the request *)
(* counts twice.                                                           *)
Book(r) ==
  /\ req[r].phase = "claimed"
  /\ Serves(r, req[r].seat)
  /\ AddInflight(req[r].gen, req[r].seat, 1)
  /\ req' = [req EXCEPT ![r].phase = "booked"]
  /\ UNCHANGED <<pool, gen, condition, pendingClaims, convPin, activeCodexID,
                 activeAPIID, activeGeminiID, recency, files, reload, abandoned>>

ReleaseClaim(r) ==
  /\ req[r].phase = "booked"
  /\ releaseClaim(req[r].seat)
  /\ req' = [req EXCEPT ![r].phase = "serving"]
  /\ UNCHANGED <<pool, gen, condition, inflight, convPin, activeCodexID, activeAPIID,
                 activeGeminiID, recency, files, reload, abandoned>>

(* gitLabClaudeSharedTPMCooldownError, gitLabCodexCooldownError: every live *)
(* GitLab seat that could serve the request is cooling down.               *)
GitLabServers(r) ==
  {s \in pool \cap Supports[r] :
     /\ \/ WantType[r] = "claude" /\ Kind[s] = "claude_gitlab"
        \/ codexRequiresGitLabPlan(WantPlan[r]) /\ Kind[s] = "codex_gitlab"
     /\ WantPlan[r] \in {AnyPlan, Plan[s]}}
GitLabSeats(r) == {s \in GitLabServers(r) : condition[s] # "blocked"}
CooldownError(r) ==
  GitLabSeats(r) # {} /\ \A s \in GitLabSeats(r) : condition[s] = "cooling"

(* No seat is left for the request.  A cooldown error uses up an attempt of *)
(* the buffered contour; plain exhaustion answers 503 at once.             *)
NoCandidate(r) ==
  /\ req[r].phase = "choosing"
  /\ Forced[r] = NoSeat
  /\ \/ /\ req[r].budget = 0
        /\ UNCHANGED <<activeCodexID, activeAPIID, activeGeminiID>>
     \/ /\ req[r].budget > 0
        /\ Candidates(Call(r)) = {}
        /\ UpdateActive(Call(r), NoSeat, TRUE)
  /\ IF CooldownError(r) THEN NextAttempt(r)
     ELSE req' = [req EXCEPT ![r] = Ended("failed")]
  /\ UNCHANGED <<pool, gen, condition, inflight, pendingClaims, convPin, recency,
                 files, reload, abandoned>>

(* forcedGeminiSeatForPath: the named seat is booked with no claim, and     *)
(* again on every attempt, whatever was excluded.                          *)
BookForced(r) ==
  /\ req[r].phase = "choosing"
  /\ Forced[r] # NoSeat
  /\ IF Forced[r] \in pool \cap Supports[r] /\ Kind[Forced[r]] = "gemini"
        /\ WantType[r] = "gemini"
     THEN /\ AddInflight(gen, Forced[r], 1)
          /\ req' = [req EXCEPT ![r].phase = "serving", ![r].seat = Forced[r],
                                ![r].gen = gen]
     ELSE NextAttempt(r) /\ UNCHANGED inflight
  /\ UNCHANGED <<pool, gen, condition, pendingClaims, convPin, activeCodexID,
                 activeAPIID, activeGeminiID, recency, files, reload, abandoned>>

----------------------------------------------------------------------------
(* What an answer does to the seat object it came from.  An object that a   *)
(* reload replaced keeps the change to itself.                             *)
Sets(r, c) ==
  condition' = IF req[r].gen = gen THEN [condition EXCEPT ![req[r].seat] = c]
               ELSE condition

(* A success clears Dead and RateLimitUntil of the kinds that          *)
(* finalizeProxyResponse and applySuccessfulAccountStateLocked name.   *)
Recovers(s) ==
  {condition[s]} \cup
    {c \in Changes[s] : c = "ready" /\ Kind[s] \in {"codex_api", "claude_gitlab", "gemini"}}
Worsens(s) == {condition[s]} \cup ({"cooling", "model_limited", "blocked"} \cap Changes[s])

(* finalizeProxyResponse on a 2xx: pin, clear, mark as last used. *)
Succeed(r) ==
  /\ convPin' = IF Conv[r] \in Conversation
                THEN [convPin EXCEPT ![Conv[r]] = req[r].seat] ELSE convPin
  /\ recency' = IF req[r].gen = gen THEN MarkUsed(req[r].seat) ELSE recency
  /\ \E c \in Recovers(req[r].seat) : Sets(r, c)

(* Mutant: the seat is looked up again by its ID, and may be a new object. *)
TryOnceReturnsCurrent(r) ==
  /\ Mode[r] = "buffered"
  /\ req[r].phase = "serving"
  /\ AddInflight(gen, req[r].seat, -1)
  /\ req' = [req EXCEPT ![r].phase = "answered"]
  /\ UNCHANGED <<pool, gen, condition, pendingClaims, convPin, activeCodexID,
                 activeAPIID, activeGeminiID, recency, files, reload, abandoned>>

(* tryOnce returned: Inflight goes down before the answer is looked at, and *)
(* before its body is delivered.                                           *)
TryOnceReturns(r) ==
  /\ Mode[r] = "buffered"
  /\ req[r].phase = "serving"
  /\ AddInflight(req[r].gen, req[r].seat, -1)
  /\ req' = [req EXCEPT ![r].phase = "answered"]
  /\ UNCHANGED <<pool, gen, condition, pendingClaims, convPin, activeCodexID,
                 activeAPIID, activeGeminiID, recency, files, reload, abandoned>>

(* Mutant: the error path decrements Inflight a second time. *)
RetryElsewhereReleases(r) ==
  /\ req[r].phase = "answered"
  /\ AddInflight(req[r].gen, req[r].seat, -1)
  /\ \E c \in Worsens(req[r].seat) : Sets(r, c)
  /\ NextAttempt(r)
  /\ UNCHANGED <<pool, gen, pendingClaims, convPin, activeCodexID,
                 activeAPIID, activeGeminiID, recency, files, reload, abandoned>>

(* A transport error, or applyBufferedRetryDisposition retries elsewhere.   *)
RetryElsewhere(r) ==
  /\ req[r].phase = "answered"
  /\ \E c \in Worsens(req[r].seat) : Sets(r, c)
  /\ NextAttempt(r)
  /\ UNCHANGED <<pool, gen, inflight, pendingClaims, convPin, activeCodexID,
                 activeAPIID, activeGeminiID, recency, files, reload, abandoned>>

(* deliverBufferedAttemptSuccess: a 2xx copied in full, or anything else    *)
(* that ends the request without touching the seat.                        *)
Deliver(r) ==
  /\ req[r].phase = "answered"
  /\ \/ Succeed(r)
     \/ UNCHANGED <<convPin, recency, condition>>
  /\ req' = [req EXCEPT ![r] = Ended("done")]
  /\ UNCHANGED <<pool, gen, inflight, pendingClaims, activeCodexID, activeAPIID,
                 activeGeminiID, files, reload, abandoned>>

(* proxyRequestWebSocket, proxyRequestStreamed: the answer is finalized     *)
(* while the seat is still booked, Inflight goes down on return.           *)
DirectAnswer(r) ==
  /\ Mode[r] = "direct"
  /\ req[r].phase = "serving"
  /\ \/ Succeed(r)
     \/ /\ \E c \in Worsens(req[r].seat) : Sets(r, c)
        /\ UNCHANGED <<convPin, recency>>
  /\ req' = [req EXCEPT ![r].phase = "leaving"]
  /\ UNCHANGED <<pool, gen, inflight, pendingClaims, activeCodexID, activeAPIID,
                 activeGeminiID, files, reload, abandoned>>

(* Mutant: no decrement is deferred. *)
LeaveBooked(r) ==
  /\ req[r].phase = "leaving"
  /\ req' = [req EXCEPT ![r] = Ended("done")]
  /\ UNCHANGED <<poolVars, files, reload, abandoned>>

Leave(r) ==
  /\ req[r].phase = "leaving"
  /\ AddInflight(req[r].gen, req[r].seat, -1)
  /\ req' = [req EXCEPT ![r] = Ended("done")]
  /\ UNCHANGED <<pool, gen, condition, pendingClaims, convPin, activeCodexID,
                 activeAPIID, activeGeminiID, recency, files, reload, abandoned>>

(* fetchCodexModels returns, with or without an answer, and never gives     *)
(* back the Inflight that candidateSupportingPath took for it.             *)
ModelsFetched(r) ==
  /\ Mode[r] = "models"
  /\ req[r].phase = "serving"
  /\ abandoned' = [abandoned EXCEPT ![req[r].gen][req[r].seat] = @ + 1]
  /\ req' = [req EXCEPT ![r] = Ended("done")]
  /\ UNCHANGED <<poolVars, files, reload>>

----------------------------------------------------------------------------
(* Usage polls, cooldowns that run out, other requests' verdicts. *)
ConditionChanges(s) ==
  /\ \E c \in Changes[s] \ {condition[s]} : condition' = [condition EXCEPT ![s] = c]
  /\ UNCHANGED <<pool, gen, inflight, pendingClaims, convPin, activeCodexID,
                 activeAPIID, activeGeminiID, recency, files, reload, req, abandoned>>

(* peekCandidateAt from the status page: selects without claiming, under a  *)
(* read lock, yet clears stale active seats.                               *)
StatusPeek ==
  LET c == [type |-> "codex", plan |-> AnyPlan, conv |-> NoSeat, exclude |-> {}]
  IN /\ UpdateActive(c, NoSeat, FALSE)
     /\ UNCHANGED <<pool, gen, condition, inflight, pendingClaims, convPin, recency,
                    files, reload, req, abandoned>>

(* reloadAccounts: runtimeStateByID and loadPool, then replace. *)
LoadWith(seats) ==
  /\ ~reload.running
  /\ gen < MaxReloads
  /\ reload' = [running |-> TRUE, seats |-> seats, recency |-> recency]

ReloadLoads ==
  /\ LoadWith(files)
  /\ UNCHANGED <<poolVars, files, req, abandoned>>

ReloadReplaces ==
  /\ reload.running
  /\ pool' = reload.seats
  /\ recency' = reload.recency \cap (reload.seats \X reload.seats)
  /\ gen' = gen + 1
  /\ convPin' = [c \in Conversation |-> NoSeat]
  /\ pendingClaims' = [s \in Seat |-> 0]
  /\ reload' = Nothing
  /\ UNCHANGED <<condition, inflight, activeCodexID, activeAPIID, activeGeminiID,
                 files, req, abandoned>>

(* handleOperatorAccountDelete: the file goes unless the current object of  *)
(* the account is in use, and the pool is reloaded.                        *)
OperatorDelete(s) ==
  /\ s \in pool
  /\ inflight[gen][s] = 0
  /\ files' = files \ {s}
  /\ LoadWith(files \ {s})
  /\ UNCHANGED <<poolVars, req, abandoned>>

RequestStep(r) ==
  \/ Start(r)
  \/ \E s \in Seat : Claim(r, s)
  \/ RejectClaimed(r) \/ Book(r) \/ ReleaseClaim(r) \/ NoCandidate(r) \/ BookForced(r)
  \/ TryOnceReturns(r) \/ RetryElsewhere(r) \/ Deliver(r)
  \/ DirectAnswer(r) \/ Leave(r) \/ ModelsFetched(r)

Next ==
  \/ \E r \in Request : RequestStep(r)
  \/ \E s \in Seat : ConditionChanges(s) \/ OperatorDelete(s)
  \/ StatusPeek \/ ReloadLoads \/ ReloadReplaces

Spec == Init /\ [][Next]_vars

(* Go schedules every goroutine; an upstream call ends by an answer, an     *)
(* error, the request timeout, or the client hanging up.                   *)
FairSpec == Spec /\ \A r \in Request : WF_vars(RequestStep(r))
----------------------------------------------------------------------------
TypeOK ==
  /\ SelectionTypeOK
  /\ files \in SUBSET Seat
  /\ reload \in {Nothing} \cup Loaded
  /\ req \in [Request -> Requests]
  /\ abandoned \in [Generations -> [Seat -> Nat]]

Holds(q, g, s) == q.phase \in Holding /\ q.gen = g /\ q.seat = s
Claims(q, s) == q.phase \in Claiming /\ q.seat = s
Holders(g, s) == {r \in Request : Holds(req[r], g, s)}
Claimers(s) == {r \in Request : Claims(req[r], s)}

(* Account.Inflight of every object, replaced or current, is the number of  *)
(* requests that hold it plus the models fetches that never gave it back:   *)
(* no path through retries, errors, rejections and reloads leaks or         *)
(* double-frees one (main.go: claimPathSupportingCandidate and its callers). *)
SeatAccounting ==
  \A g \in Generations, s \in Seat :
    inflight[g][s] = Cardinality(Holders(g, s)) + abandoned[g][s]

(* A claim never outlives its request: pendingClaims counts at most the     *)
(* requests between claimCandidate and releaseClaim, exactly those as long  *)
(* as no reload has wiped the map under them (poolState.replace).          *)
ClaimsBacked ==
  \A s \in Seat :
    /\ pendingClaims[s] <= Cardinality(Claimers(s))
    /\ gen = 0 => pendingClaims[s] = Cardinality(Claimers(s))

(* The reservation of claimCandidate works: unless its conversation is      *)
(* pinned there, a request is not put on a local Codex seat that another    *)
(* request claims or uses while an equally good local seat is idle, in      *)
(* whatever order the requests claim, book and release.                    *)
Busy(s) == \/ abandoned[gen][s] > 0
           \/ \E r \in Request : /\ req[r].phase \in Claiming \cup Holding
                               /\ req[r].gen = gen
                               /\ req[r].seat = s
IdleSeatFirst ==
  [][\A r \in Request, s \in Seat :
       (/\ req[r].phase = "choosing" /\ req'[r].phase = "claimed" /\ req'[r].seat = s
        /\ gen = 0 /\ Kind[s] = "codex" /\ s \notin Pinned(Call(r)) /\ Busy(s))
       => \A t \in StickyOpen(LocalCodex(WantPlan[r]), Call(r)) :
            Busy(t) \/ accountTier(t) > accountTier(s)]_vars

(* A request gives up only when it has tried, or may not use, every seat of *)
(* its provider: the attempt bound of runBufferedAttemptContour, the inner  *)
(* bound of claimPathSupportingCandidate and the growing exclude set never  *)
(* leave a usable seat untried (no reload, not forced, and no GitLab seat   *)
(* among its servers: an attempt that ends in a GitLab cooldown error tries *)
(* no seat, and an ordinary seat that recovers later is then never tried).  *)
UsableSeats(r) ==
  {s \in pool \ req[r].exclude :
     /\ AccountType(s) = WantType[r]
     /\ condition[s] \notin {"cooling", "blocked"}
     /\ \/ s \in APISeats /\ ~codexRequiresGitLabPlan(WantPlan[r])
        \/ /\ WantPlan[r] \in {AnyPlan, Plan[s]}
           /\ WantType[r] = "codex" => s \in LocalCodex(WantPlan[r])}
GivesUpOnlyWhenExhausted ==
  [][\A r \in Request :
       (/\ req[r].phase # "failed" /\ req'[r].phase = "failed"
        /\ gen = 0 /\ Forced[r] = NoSeat /\ GitLabServers(r) = {})
       => UsableSeats(r) = {}]_vars

(* Every request that starts ends, whatever the seats go through: retries   *)
(* are bounded and no claim or booking waits for another request.          *)
EveryRequestEnds ==
  \A r \in Request : req[r].phase = "choosing" ~> req[r].phase \in {"done", "failed"}

(* "account has inflight requests" (operator_accounts.go:50): an account    *)
(* that refuses to be deleted is one that some request is using.           *)
RefusedDeleteMeansInUse ==
  \A s \in pool : inflight[gen][s] > 0 => Holders(gen, s) # {}
=============================================================================
