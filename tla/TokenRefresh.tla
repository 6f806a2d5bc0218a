---------------------------- MODULE TokenRefresh ----------------------------
(***************************************************************************)
(* OAuth token refresh (main.go, usage_tracking.go, handlers.go): requests, *)
(* the usage poller and operators find out that a seat's access token is   *)
(* spent, and must rotate its single-use refresh token exactly once,       *)
(* throttled, and write the new one to the seat's file.                    *)
(*                                                                         *)
(* Tokens are numbered by the pair they were issued in: pair n holds access *)
(* token n and refresh token n, and only the refresh token issued last     *)
(* works.  A reload makes new Account objects; a caller keeps the one it   *)
(* started with (generation g).                                            *)
(***************************************************************************)
EXTENDS Integers, FiniteSets

CONSTANTS
  Seat, Codex,    \* account IDs, those whose Type is codex
  Caller, Role,   \* goroutines that refresh, and as what
  NoCaller,
  Target,         \* [Caller -> Seat]: the seat a caller works on
  MaxIssued,      \* bound: token pairs a seat is issued
  MaxReloads, MaxCrashes, MaxLost,  \* bounds: reloads, restarts, losses
  MaxFaults,      \* bound: how many of these one behaviour has
  Losable         \* what may be lost: an "answer" of the provider, a "write"

Roles == {"request", "direct", "usage", "operator"}
  \* tryOnce; WebSocket and streamed requests; fetchUsage; forceRefreshAccount

ASSUME RefreshAssumption ==
  /\ Codex \subseteq Seat
  /\ Role \in [Caller -> Roles]
  /\ Target \in [Caller -> Seat]
  /\ NoCaller \notin Caller
  /\ {MaxIssued, MaxReloads, MaxCrashes, MaxLost, MaxFaults} \subseteq Nat
  /\ MaxIssued > 0
  /\ \A c \in Caller : Role[c] = "usage" => Target[c] \in Codex

VARIABLES
  issued,      \* provider: the newest token pair of each seat
  lapsed,      \* provider: access tokens up to this one are no longer accepted
  account,     \* [Generations -> [Seat -> Accounts]]: the objects in memory
  disk,        \* [Seat -> Files]: the account files
  gen, loaded, \* current generation; the files a running reload has read
  windowOpen,  \* refreshMinInterval has passed since h.lastRefreshTime
  refreshCalls,\* h.refreshCalls: who leads the refresh of a seat
  caller,      \* the callers
  orphaned,    \* history: seats whose newest pair never reached a file or object
  forced,      \* history: seats an operator has force-refreshed
  crashes, lost

vars == <<issued, lapsed, account, disk, gen, loaded, windowOpen, refreshCalls,
          caller, orphaned, forced, crashes, lost>>
provider == <<issued, lapsed>>
history == <<orphaned, forced, crashes, lost>>

Generations == 0..MaxReloads
Pairs == 0..MaxIssued
Files == [token : Pairs, recent : BOOLEAN, dead : BOOLEAN]
  \* recent: LastRefresh is within refreshPerAccountInterval
Accounts == [token : Pairs, recent : BOOLEAN, dead : BOOLEAN, limited : BOOLEAN]
  \* limited: RateLimitUntil lies ahead

NotLoading == [on |-> FALSE]
Loading == [on : {TRUE}, files : [Seat -> Files], limited : [Seat -> BOOLEAN]]
MoreFaults == gen + (IF loaded.on THEN 1 ELSE 0) + crashes + lost < MaxFaults
Losing(what) == what \in Losable /\ lost < MaxLost /\ MoreFaults /\ lost' = lost + 1

(* Mutant: the whole object is written. *)
FileOfObject(a) == a

FileOf(a) == [token |-> a.token, recent |-> a.recent, dead |-> a.dead]
FromFile(f, limited) ==
  [token |-> f.token, recent |-> f.recent, dead |-> f.dead, limited |-> limited]

Phases == {"idle", "deciding", "sending", "sent", "resending",
           "joining", "waiting", "gate", "window", "asking", "storing", "finishing",
           "saving", "unregister", "closing", "told", "probing", "verdict"}
Results == {"none", "ok", "throttled", "invalid", "failed",
            "live", "unusable", "unknown"}
Callers == [phase : Phases, g : Generations, why : {"preempt", "retry", "force"},
            token : Pairs, access : Pairs, result : Results, on : Caller \cup {NoCaller},
            bad : BOOLEAN, file : Files, then : Phases]

NoFile == [token |-> 0, recent |-> FALSE, dead |-> FALSE]
Idle == [phase |-> "idle", g |-> 0, why |-> "preempt", token |-> 0,
         access |-> 0, result |-> "none", on |-> NoCaller,
         bad |-> FALSE, file |-> NoFile, then |-> "idle"]

(* The Account object a caller holds. *)
Mine(c) == account[caller[c].g][Target[c]]
SetMine(c, a) == account' = [account EXCEPT ![caller[c].g][Target[c]] = a]
Goes(c, phase) == caller' = [caller EXCEPT ![c] = [@ EXCEPT !.phase = phase]]
Proceeds(c, phase) ==
  caller' = [caller EXCEPT ![c] = [@ EXCEPT !.phase = phase, !.result = "none"]]
Stops(c) == caller' = [caller EXCEPT ![c] = Idle]

(* saveAccount: the fields are read without the lock, the file is replaced  *)
(* later.                                                                   *)
Saves(c, a, next) ==
  caller' = [caller EXCEPT ![c] =
               [@ EXCEPT !.phase = "saving", !.file = FileOf(a), !.then = next,
                         !.token = 0]]

----------------------------------------------------------------------------
Init ==
  /\ issued = [s \in Seat |-> 1]
  /\ lapsed = [s \in Seat |-> 0]
  /\ disk = [s \in Seat |-> [token |-> 1, recent |-> FALSE, dead |-> FALSE]]
  /\ account = [g \in Generations |->
                  [s \in Seat |-> FromFile([token |-> 1, recent |-> FALSE, dead |-> FALSE],
                                           FALSE)]]
  /\ gen = 0 /\ loaded = NotLoading
  /\ windowOpen = TRUE
  /\ refreshCalls = [s \in Seat |-> NoCaller]
  /\ caller = [c \in Caller |-> Idle]
  /\ orphaned = {} /\ forced = {} /\ crashes = 0 /\ lost = 0

(* A request is given a routable seat, the poller takes a live one that is  *)
(* not limited.                                                            *)
Start(c) ==
  /\ caller[c].phase = "idle"
  /\ Role[c] # "operator"
  /\ ~account[gen][Target[c]].dead /\ ~account[gen][Target[c]].limited
  /\ caller' = [caller EXCEPT ![c] = [Idle EXCEPT !.phase = "deciding", !.g = gen]]
  /\ UNCHANGED <<provider, account, disk, gen, loaded, windowOpen, refreshCalls, history>>

(* forceRefreshAccount clears RateLimitUntil and LastRefresh, then refreshes *)
(* past refreshCalls.                                                       *)
ForceRefresh(c) ==
  /\ caller[c].phase = "idle"
  /\ Role[c] = "operator"
  /\ Target[c] \notin forced      \* bound: once for each seat
  /\ account' = [account EXCEPT ![gen][Target[c]] =
                   [@ EXCEPT !.limited = FALSE, !.recent = FALSE]]
  /\ caller' = [caller EXCEPT ![c] = [Idle EXCEPT !.phase = "gate", !.g = gen,
                                                 !.why = "force"]]
  /\ forced' = forced \cup {Target[c]}
  /\ UNCHANGED <<provider, disk, gen, loaded, windowOpen, refreshCalls, orphaned,
                 crashes, lost>>

(* needsRefresh *)
Spent(c) == Mine(c).token <= lapsed[Target[c]]
Decide(c) ==
  /\ caller[c].phase = "deciding"
  /\ Goes(c, IF ~Mine(c).recent /\ Spent(c) THEN "joining" ELSE "sending")
  /\ UNCHANGED <<provider, account, disk, gen, loaded, windowOpen, refreshCalls, history>>

(* Mutant: refreshCalls is never consulted. *)
JoinAlone(c) ==
  /\ caller[c].phase = "joining"
  /\ refreshCalls' = [refreshCalls EXCEPT ![Target[c]] = c]
  /\ Goes(c, "gate")
  /\ UNCHANGED <<provider, account, disk, gen, loaded, windowOpen, history>>
(* Mutant: refreshCalls is keyed by the Account object. *)
JoinObject(c) ==
  LET d == refreshCalls[Target[c]] IN
  /\ caller[c].phase = "joining"
  /\ IF d # NoCaller /\ caller[d].g = caller[c].g
     THEN /\ caller' = [caller EXCEPT ![c] = [@ EXCEPT !.phase = "waiting", !.on = d]]
          /\ UNCHANGED refreshCalls
     ELSE /\ refreshCalls' = [refreshCalls EXCEPT ![Target[c]] = c]
          /\ Goes(c, "gate")
  /\ UNCHANGED <<provider, account, disk, gen, loaded, windowOpen, history>>

(* refreshAccountWithPolicy: wait for the call in refreshCalls, or be it.   *)
Join(c) ==
  /\ caller[c].phase = "joining"
  /\ IF refreshCalls[Target[c]] # NoCaller
     THEN /\ caller' = [caller EXCEPT ![c] = [@ EXCEPT !.phase = "waiting",
                                                     !.on = refreshCalls[Target[c]]]]
          /\ UNCHANGED refreshCalls
     ELSE /\ refreshCalls' = [refreshCalls EXCEPT ![Target[c]] = c]
          /\ Goes(c, "gate")
  /\ UNCHANGED <<provider, account, disk, gen, loaded, windowOpen, history>>

(* A refresh asked for after a 401 is forced for a request, not for the     *)
(* poller.                                                                  *)
Forces(c) ==
  \/ caller[c].why = "force"
  \/ caller[c].why = "retry" /\ Role[c] = "request"

(* Out of refreshAccountOnce: the leader unregisters, an operator is told.  *)
After(c) == IF Role[c] = "operator" THEN "told" ELSE "unregister"
Throttled(c) ==
  caller' = [caller EXCEPT ![c] = [@ EXCEPT !.phase = After(c), !.result = "throttled"]]

(* refreshAccountOnce: the throttle of the account, then that of the process *)
AccountGate(c) ==
  /\ caller[c].phase = "gate"
  /\ IF Mine(c).recent /\ ~Forces(c) THEN Throttled(c) ELSE Goes(c, "window")
  /\ UNCHANGED <<provider, account, disk, gen, loaded, windowOpen, refreshCalls, history>>

GlobalGate(c) ==
  /\ caller[c].phase = "window"
  /\ IF windowOpen
     THEN caller' = [caller EXCEPT ![c] = [@ EXCEPT !.phase = "asking",
                                                   !.token = Mine(c).token]]
     ELSE Throttled(c)
  /\ windowOpen' = FALSE
  /\ UNCHANGED <<provider, account, disk, gen, loaded, refreshCalls, history>>

(* The provider rotates a refresh token once.  A client that hangs up, a    *)
(* timeout or a broken connection can lose its answer.                      *)
Answered(c, phase, result, token) ==
  caller' = [caller EXCEPT ![c] = [@ EXCEPT !.phase = phase, !.result = result,
                                            !.token = token]]
Rotates(c) ==
  LET s == Target[c] IN
  /\ caller[c].phase = "asking"
  /\ caller[c].token = issued[s] /\ issued[s] < MaxIssued
  /\ issued' = [issued EXCEPT ![s] = @ + 1]
  /\ \/ Answered(c, "storing", "ok", issued[s] + 1) /\ UNCHANGED <<orphaned, lost>>
     \/ /\ Losing("answer")
        /\ Answered(c, "finishing", "failed", caller[c].token)
        /\ orphaned' = orphaned \cup {s}
  /\ UNCHANGED <<lapsed, account, disk, gen, loaded, windowOpen, refreshCalls, forced, crashes>>

Refuses(c) ==
  /\ caller[c].phase = "asking"
  /\ \/ caller[c].token # issued[Target[c]] /\ Answered(c, "finishing", "invalid", caller[c].token)
     \/ Answered(c, "finishing", "failed", caller[c].token)
  /\ UNCHANGED <<provider, account, disk, gen, loaded, windowOpen, refreshCalls, history>>

(* Mutant: the rotated refresh token is dropped. *)
StoreKeepsOld(c) ==
  /\ caller[c].phase = "storing"
  /\ SetMine(c, [Mine(c) EXCEPT !.recent = TRUE, !.dead = FALSE])
  /\ Saves(c, [Mine(c) EXCEPT !.recent = TRUE, !.dead = FALSE], "finishing")
  /\ UNCHANGED <<provider, disk, gen, loaded, windowOpen, refreshCalls, history>>

(* The end of RefreshToken, with a saveAccount of its own. *)
Store(c) ==
  LET a == [Mine(c) EXCEPT !.token = caller[c].token, !.recent = TRUE, !.dead = FALSE] IN
  /\ caller[c].phase = "storing"
  /\ SetMine(c, a)
  /\ Saves(c, a, "finishing")
  /\ UNCHANGED <<provider, disk, gen, loaded, windowOpen, refreshCalls, history>>

(* refreshAccountOnce sets LastRefresh, unless the failure was one of       *)
(* configuration (shouldPersistFailedRefreshAttempt), and saves.           *)
Finish(c) ==
  /\ caller[c].phase = "finishing"
  /\ \E recent \in {TRUE} \cup (IF caller[c].result = "failed" THEN {Mine(c).recent} ELSE {}) :
       LET a == [Mine(c) EXCEPT !.recent = recent]
       IN SetMine(c, a) /\ Saves(c, a, After(c))
  /\ UNCHANGED <<provider, disk, gen, loaded, windowOpen, refreshCalls, history>>

WriteFile(c) ==
  /\ caller[c].phase = "saving"
  /\ disk' = [disk EXCEPT ![Target[c]] = caller[c].file]
  /\ IF caller[c].then = "idle" THEN Stops(c)
     ELSE caller' = [caller EXCEPT ![c] = [@ EXCEPT !.phase = caller[c].then,
                                                    !.file = NoFile, !.then = "idle"]]
  /\ UNCHANGED <<provider, account, gen, loaded, windowOpen, refreshCalls, history>>

(* RefreshToken cannot write the file: it fails, although the object has    *)
(* the new token by then.  (Other saves that fail are only logged.)        *)
WriteFails(c) ==
  /\ caller[c].phase = "saving" /\ caller[c].then = "finishing"
  /\ Losing("write")
  /\ caller' = [caller EXCEPT ![c] = [@ EXCEPT !.phase = "finishing", !.file = NoFile,
                                                !.then = "idle", !.result = "failed"]]
  /\ UNCHANGED <<provider, account, disk, gen, loaded, windowOpen, refreshCalls, orphaned,
                 forced, crashes>>

(* The deferred end of refreshAccountWithPolicy. *)
Unregister(c) ==
  /\ caller[c].phase = "unregister"
  /\ refreshCalls' = [refreshCalls EXCEPT ![Target[c]] = NoCaller]
  /\ Goes(c, "closing")
  /\ UNCHANGED <<provider, account, disk, gen, loaded, windowOpen, history>>

(* Mutant: call.err is never set. *)
CloseDoneOk(c) ==
  /\ caller[c].phase = "closing"
  /\ caller' = [d \in Caller |->
                  IF d = c THEN [caller[d] EXCEPT !.phase = "told"]
                  ELSE IF caller[d].phase = "waiting" /\ caller[d].on = c
                  THEN [caller[d] EXCEPT !.phase = "told", !.result = "ok", !.on = NoCaller]
                  ELSE caller[d]]
  /\ UNCHANGED <<provider, account, disk, gen, loaded, windowOpen, refreshCalls, history>>
(* Mutant: done is closed after a success only. *)
CloseDoneOnSuccess(c) ==
  /\ caller[c].phase = "closing"
  /\ caller' = [d \in Caller |->
                  IF d = c \/ (/\ caller[c].result = "ok"
                              /\ caller[d].phase = "waiting" /\ caller[d].on = c)
                  THEN [caller[d] EXCEPT !.phase = "told", !.result = caller[c].result,
                                         !.on = NoCaller]
                  ELSE caller[d]]
  /\ UNCHANGED <<provider, account, disk, gen, loaded, windowOpen, refreshCalls, history>>

CloseDone(c) ==
  /\ caller[c].phase = "closing"
  /\ caller' = [d \in Caller |->
                  IF d = c \/ (caller[d].phase = "waiting" /\ caller[d].on = c)
                  THEN [caller[d] EXCEPT !.phase = "told", !.result = caller[c].result,
                                         !.on = NoCaller]
                  ELSE caller[d]]
  /\ UNCHANGED <<provider, account, disk, gen, loaded, windowOpen, refreshCalls, history>>

----------------------------------------------------------------------------
(* The caller learns how its refresh ended. *)
Told(c, why, result) ==
  caller[c].phase = "told" /\ caller[c].why = why /\ caller[c].result = result
Keep == UNCHANGED <<provider, disk, gen, loaded, windowOpen, refreshCalls, history>>

(* "rate limited", whoever used up the window: the seat is benched for      *)
(* defaultRateLimitBackoff; only a preemptive refresh goes on to send.      *)
BenchedByThrottle(c) ==
  /\ caller[c].phase = "told" /\ caller[c].result = "throttled"
  /\ IF Role[c] = "operator" THEN UNCHANGED account
     ELSE SetMine(c, [Mine(c) EXCEPT !.limited = TRUE])
  /\ IF caller[c].why = "preempt" /\ Role[c] # "usage" THEN Proceeds(c, "sending") ELSE Stops(c)
  /\ Keep

Refreshed(c) ==
  /\ caller[c].phase = "told" /\ caller[c].result = "ok"
  /\ IF Role[c] = "usage" /\ caller[c].why = "preempt"
     THEN SetMine(c, [Mine(c) EXCEPT !.dead = FALSE]) ELSE UNCHANGED account
  /\ CASE caller[c].why = "preempt" -> Proceeds(c, "sending")
       [] caller[c].why = "retry" -> Proceeds(c, "resending")
       [] OTHER -> Stops(c)
  /\ Keep

(* A preemptive refresh that failed: the request goes on with the token it  *)
(* has, a direct one remembers the failure.                                *)
PreemptFails(c) ==
  /\ \/ Told(c, "preempt", "failed")
     \/ Told(c, "preempt", "invalid") /\ Role[c] # "usage"
  /\ caller' = [caller EXCEPT ![c] = [@ EXCEPT !.phase = "sending", !.result = "none",
                                               !.bad = Role[c] = "direct"]]
  /\ UNCHANGED account
  /\ Keep

(* markAccountDeadWithReasonLocked, saveAccount *)
MarksDead(c) ==
  LET a == [Mine(c) EXCEPT !.dead = TRUE]
  IN SetMine(c, a) /\ Saves(c, a, "idle")

(* A 401 and no new token: a seat that is not Codex is dead, at once or in  *)
(* applyUpstreamAuthFailureDisposition; a Codex seat whose refresh token    *)
(* the provider refused is probed first.                                    *)
RefreshInvalid(c) ==
  /\ caller[c].phase = "told" /\ caller[c].result = "invalid"
  /\ Role[c] # "direct" /\ (caller[c].why = "preempt" => Role[c] = "usage")
  /\ IF Target[c] \in Codex THEN Goes(c, "probing") /\ UNCHANGED account
     ELSE IF Role[c] = "operator" THEN Stops(c) /\ UNCHANGED account
     ELSE MarksDead(c)
  /\ Keep

RetryFails(c) ==
  /\ caller[c].phase = "told" /\ caller[c].result = "failed" /\ caller[c].why # "preempt"
  /\ IF Role[c] = "request" /\ Target[c] \notin Codex THEN MarksDead(c)
     ELSE Stops(c) /\ UNCHANGED account
  /\ Keep

(* probeCodexCurrentAccess, and what is made of its answer later. *)
Probe(c) ==
  /\ caller[c].phase = "probing"
  /\ \E result \in {IF Spent(c) THEN "unusable" ELSE "live", "unknown"} :
       caller' = [caller EXCEPT ![c] = [@ EXCEPT !.phase = "verdict", !.result = result]]
  /\ UNCHANGED account
  /\ Keep

Verdict(c) ==
  LET result == caller[c].result
      a == CASE result = "live" -> [Mine(c) EXCEPT !.dead = FALSE]
             [] result = "unusable" -> [Mine(c) EXCEPT !.dead = TRUE]
             [] OTHER -> Mine(c)
  IN /\ caller[c].phase = "verdict"
     /\ SetMine(c, a)
     /\ Saves(c, a, IF caller[c].why = "preempt" /\ result # "unusable"
                    THEN "sending" ELSE "idle")
     /\ Keep

Send(c) ==
  /\ caller[c].phase = "sending"
  /\ caller' = [caller EXCEPT ![c] = [@ EXCEPT !.phase = "sent", !.access = Mine(c).token]]
  /\ UNCHANGED account
  /\ Keep

(* An answer; a Codex stream may end in a rate-limit event, which limits    *)
(* the seat and saves it (handleCodexSSEFailureEvent).                      *)
Served(c) ==
  /\ caller[c].phase = "sent" /\ caller[c].access > lapsed[Target[c]]
  /\ \/ Stops(c) /\ UNCHANGED account
     \/ /\ Target[c] \in Codex /\ Role[c] # "usage"
        /\ SetMine(c, [Mine(c) EXCEPT !.limited = TRUE])
        /\ Saves(c, Mine(c), "idle")
  /\ Keep

(* 401: refresh and retry once; a direct request cannot, and if its own     *)
(* refresh had failed a seat that is not Codex is dead.                     *)
Rejected(c) ==
  /\ caller[c].phase = "sent" /\ caller[c].access <= lapsed[Target[c]]
  /\ IF Role[c] # "direct"
     THEN /\ caller' = [caller EXCEPT ![c] = [@ EXCEPT !.phase = "joining", !.why = "retry"]]
          /\ UNCHANGED account
     ELSE IF caller[c].bad /\ Target[c] \notin Codex THEN MarksDead(c)
     ELSE Stops(c) /\ UNCHANGED account
  /\ Keep

(* Accepted or not, the request is over: still a 401 costs a penalty only.  *)
Resend(c) ==
  /\ caller[c].phase = "resending"
  /\ Stops(c)
  /\ UNCHANGED account
  /\ Keep

----------------------------------------------------------------------------
(* Time, the provider, reloads and restarts.  An access token outlives the  *)
(* refresh that fetched it: none lapses while its seat is being refreshed.  *)
Refreshing(s) == {c \in Caller : /\ Target[c] = s
                                 /\ caller[c].phase \in {"asking", "storing", "finishing",
                                                         "saving", "unregister"}}
Lapse(s) ==
  /\ Refreshing(s) = {}
  /\ lapsed[s] < issued[s]
  /\ lapsed' = [lapsed EXCEPT ![s] = issued[s]]
  /\ UNCHANGED <<issued, account, disk, gen, loaded, windowOpen, refreshCalls, caller, history>>

WindowOpens ==
  /\ ~windowOpen /\ windowOpen' = TRUE
  /\ UNCHANGED <<provider, account, disk, gen, loaded, refreshCalls, caller, history>>

IntervalPasses(s) ==
  /\ account' = [g \in Generations |-> [account[g] EXCEPT ![s] = [@ EXCEPT !.recent = FALSE]]]
  /\ disk' = [disk EXCEPT ![s] = [@ EXCEPT !.recent = FALSE]]
  /\ <<account, disk>>' # <<account, disk>>
  /\ UNCHANGED <<provider, gen, loaded, windowOpen, refreshCalls, caller, history>>

BackoffPasses(s) ==
  /\ account[gen][s].limited
  /\ account' = [account EXCEPT ![gen][s] = [@ EXCEPT !.limited = FALSE]]
  /\ UNCHANGED <<provider, disk, gen, loaded, windowOpen, refreshCalls, caller, history>>

ReloadLoads ==
  /\ ~loaded.on /\ gen < MaxReloads /\ MoreFaults
  /\ loaded' = [on |-> TRUE, files |-> disk, limited |-> [s \in Seat |-> account[gen][s].limited]]
  /\ UNCHANGED <<provider, account, disk, gen, windowOpen, refreshCalls, caller, history>>

ReloadReplaces ==
  /\ loaded.on
  /\ gen' = gen + 1
  /\ account' = [account EXCEPT ![gen + 1] =
                   [s \in Seat |-> FromFile(loaded.files[s], loaded.limited[s])]]
  /\ loaded' = NotLoading
  /\ UNCHANGED <<provider, disk, windowOpen, refreshCalls, caller, history>>

(* The process dies and starts again on what its files say. *)
Restart ==
  /\ crashes < MaxCrashes /\ MoreFaults /\ crashes' = crashes + 1
  /\ account' = [g \in Generations |-> [s \in Seat |-> FromFile(disk[s], FALSE)]]
  /\ caller' = [c \in Caller |-> Idle]
  /\ refreshCalls' = [s \in Seat |-> NoCaller]
  /\ windowOpen' = TRUE
  /\ loaded' = NotLoading
  /\ orphaned' = orphaned \cup {s \in Seat : disk[s].token # issued[s]}
  /\ UNCHANGED <<provider, disk, gen, forced, lost>>

CallerStep(c) ==
  \/ Decide(c) \/ Join(c) \/ AccountGate(c) \/ GlobalGate(c)
  \/ Rotates(c) \/ Refuses(c) \/ Store(c) \/ Finish(c) \/ WriteFile(c)
  \/ WriteFails(c) \/ Unregister(c) \/ CloseDone(c)
  \/ BenchedByThrottle(c) \/ Refreshed(c) \/ PreemptFails(c) \/ RefreshInvalid(c)
  \/ RetryFails(c) \/ Probe(c) \/ Verdict(c)
  \/ Send(c) \/ Served(c) \/ Rejected(c) \/ Resend(c)

Next ==
  \/ \E c \in Caller : Start(c) \/ ForceRefresh(c) \/ CallerStep(c)
  \/ \E s \in Seat : Lapse(s) \/ IntervalPasses(s) \/ BackoffPasses(s)
  \/ WindowOpens \/ ReloadLoads \/ ReloadReplaces \/ Restart

Spec == Init /\ [][Next]_vars

(* A goroutine once started runs on, and HTTP calls end: by an answer, an   *)
(* error or a timeout.                                                     *)
FairSpec == Spec /\ \A c \in Caller : WF_vars(CallerStep(c))

----------------------------------------------------------------------------
TypeOK ==
  /\ issued \in [Seat -> Pairs] /\ lapsed \in [Seat -> Pairs]
  /\ account \in [Generations -> [Seat -> Accounts]]
  /\ disk \in [Seat -> Files]
  /\ gen \in Generations
  /\ loaded \in {NotLoading} \cup Loading
  /\ windowOpen \in BOOLEAN
  /\ refreshCalls \in [Seat -> Caller \cup {NoCaller}]
  /\ caller \in [Caller -> Callers]
  /\ {orphaned, forced} \subseteq SUBSET Seat
  /\ crashes \in 0..MaxCrashes /\ lost \in 0..MaxLost

(* The newest token pair of a seat is in its Account object, or about to be *)
(* stored there, whoever refreshes and however throttles, forced refreshes  *)
(* and waiters interleave; unless an answer was lost, or the process died   *)
(* before saveAccount, or a reload replaced the object meanwhile.           *)
NewestTokenKept ==
  \A s \in Seat \ orphaned : gen = 0 =>
    \/ account[0][s].token = issued[s]
    \/ \E c \in Caller : /\ Target[c] = s /\ caller[c].phase = "storing"
                         /\ caller[c].token = issued[s]

(* refreshAccountWithPolicy is single-flight: whatever reloads and restarts *)
(* happen, at most one caller at a time refreshes a seat through it, and it *)
(* is the one refreshCalls names, even when the two hold different Account *)
(* objects of the seat.  A forced refresh of the operator goes past it.    *)
Leading(c) ==
  /\ caller[c].why # "force"
  /\ \/ caller[c].phase \in {"gate", "window", "asking", "storing", "finishing", "unregister"}
     \/ caller[c].phase = "saving" /\ caller[c].then \in {"finishing", "unregister"}
SingleFlight ==
  \A c \in Caller :
    /\ Leading(c) => refreshCalls[Target[c]] = c
    /\ \A d \in Caller \ {c} : ~(Leading(c) /\ Leading(d) /\ Target[c] = Target[d])

(* So, with one object for a seat, a used-up refresh token is never         *)
(* presented again (the provider would answer refresh_token_reused), except *)
(* after a loss, or a forced refresh that went past refreshCalls.           *)
NoTokenReplay ==
  \A c \in Caller :
    (/\ caller[c].phase = "asking" /\ gen = 0
     /\ Target[c] \notin orphaned \cup forced)
    => caller[c].token = issued[Target[c]]

(* A request that retries because a refresh, its own or the one it waited   *)
(* for, succeeded after its 401 sends a newer token than the rejected one.  *)
RetryUsesNewerToken ==
  \A c \in Caller :
    caller[c].phase = "resending" /\ gen = 0 => Mine(c).token > caller[c].access

(* Nobody waits forever on a refreshCall: its leader unregisters and closes *)
(* it however the refresh ends (process restarts aside, it is gone then).   *)
EveryWaiterTold ==
  \A c \in Caller : caller[c].phase = "waiting" ~> caller[c].phase # "waiting"
=============================================================================
