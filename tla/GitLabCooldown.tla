--------------------------- MODULE GitLabCooldown ---------------------------
(***************************************************************************)
(* The cooldown that all GitLab Claude seats of one organisation share     *)
(* (claude_gitlab.go, claude_gitlab_recovery.go, and the parts of main.go  *)
(* that answer requests).  A 429 that names the organisation's             *)
(* tokens-per-minute limit is copied to every seat of the scope, one       *)
(* account lock at a time.  Shortly before it ends a canary asks the       *)
(* gateway, and reopens the scope or reports the failure, again seat by    *)
(* seat.  Requests, the canary, the poller, operators and restarts run     *)
(* beside each other.                                                      *)
(*                                                                         *)
(* Times are distances from now: a cooldown of 2 ends two ticks from now.  *)
(* Disabled seats are skipped by every step here and are left out, and so  *)
(* are reloads, which leave requests with old objects (SeatPool and        *)
(* TokenRefresh have them); a restart reads the files again.               *)
(***************************************************************************)
EXTENDS Integers, Sequences, FiniteSets

CONSTANTS
    Pool,          \* the seats in the order loadPool lists them
    Scopes,        \* the organisations
    Scope,         \* Scope[s]: what gitLabClaudeScopeKey(s) is
    Requests,      \* client requests, each started again when it has ended
    Waits,         \* cooldowns: the defaults, or what Retry-After says
    Answers,       \* the gateway's refusals: of tpm, own_limit, rejected, no_quota
    Outcomes,      \* what comes of a refresh: of granted, malformed, unreachable,
                   \* throttled (by refreshAccount itself), own_limit, no_quota
    Lead,          \* managedGitLabClaudeSharedTPMCanaryLead
    RetryDelay,    \* managedGitLabClaudeSharedTPMCanaryRetryDelay
    CanaryTimeout, \* managedGitLabClaudeSharedTPMCanaryTimeout
    MaxRestarts,   \* bound: restarts
    MaxEvents      \* bound: client requests, refreshes beside them, restarts
                   \* and new limits in a behaviour

Seats == {Pool[i] : i \in 1 .. Len(Pool)}
MaxWait == CHOOSE w \in Waits : \A v \in Waits : v <= w

ASSUME CooldownAssumption ==
    /\ Pool \in Seq(Seats) /\ Scope \in [Seats -> Scopes]
    /\ Waits \subseteq Nat \ {0} /\ IsFiniteSet(Waits) /\ Waits # {}
    /\ Answers \subseteq {"tpm", "own_limit", "rejected", "no_quota"}
    /\ Outcomes \subseteq {"granted", "malformed", "unreachable", "throttled",
                           "own_limit", "no_quota"}
    /\ Lead \in Nat /\ CanaryTimeout \in Nat /\ RetryDelay \in Nat
    /\ CanaryTimeout < RetryDelay /\ MaxRestarts \in Nat
    /\ MaxEvents \in Nat

VARIABLES
    restarts, \* how many times the program has been restarted
    obj,      \* obj[s]: the Account object of seat s
    file,     \* file[s]: what the account file says
    req,      \* req[r]: where a request is
    canary,   \* where the recovery poller is
    poll,     \* the refresh the usage poller or an operator runs (bound: one at a time)
    events,   \* how many of the events that MaxEvents bounds there were
    limited,  \* limited[k]: the organisation is over its limit (the gateway's state)
    quiet,    \* quiet[k]: ticks since the last canary of k began, or RetryDelay
              \* once a client's 429 or a throttled refresh has cooled a seat of
              \* k since then (history)
    open      \* open[r]: the seats usable ever since r began to ask (history)

vars == <<restarts, obj, file, req, canary, poll, events, limited,
          quiet, open>>

None == "none"
Never == -1      \* a zero GitLabCanaryNextProbeAt
Fresh == [dead |-> FALSE, gateway |-> TRUE, until |-> 0, shared |-> FALSE]
Account(f) == [dead |-> f.dead, gateway |-> f.gateway, until |-> f.until,
               shared |-> f.shared, probe |-> Never]
Persisted(o) == [dead |-> o.dead, gateway |-> o.gateway, until |-> o.until,
                 shared |-> o.shared]

Smaller(a, b) == IF a < b THEN a ELSE b
Larger(a, b) == IF a < b THEN b ELSE a

(* snapshotGitLabClaudeAccount and its two questions.  Of the health only  *)
(* this is kept: shared says that it is rate_limited with the prefix       *)
(* shared_org_tpm in HealthError.                                          *)
Relevant(o) == ~o.dead /\ o.gateway
SharedBlocked(o) == Relevant(o) /\ o.until > 0 /\ o.shared
Usable(o) == Relevant(o) /\ o.until = 0

-----------------------------------------------------------------------------
(* What the handlers make of a seat under its lock.                        *)

(* classifyManagedGitLabClaudeError and applyManagedGitLabClaudeDisposition *)
Disposed(o, answer, w) ==
    CASE answer \in {"tpm", "own_limit", "rejected"} ->
           [o EXCEPT !.until = Larger(@, w), !.dead = FALSE, !.shared = FALSE]
      [] answer = "no_quota" -> [o EXCEPT !.dead = TRUE, !.until = 0, !.shared = FALSE]
      [] OTHER -> [o EXCEPT !.shared = FALSE]

(* propagateManagedGitLabClaudeSharedTPMCooldown on one seat               *)
Cooled(o, left) ==
    IF o.dead THEN o
    ELSE [o EXCEPT !.until = Larger(@, left), !.shared = TRUE,
                   !.probe = Larger(0, left - Lead)]

(* Mutant: a canary that failed is tried again as soon as it can be.       *)
NotedImpatient(o, retry, elapsed) ==
    [o EXCEPT !.probe = IF retry /\ o.until > 0 THEN 0 ELSE Never]

(* noteManagedGitLabClaudeCanaryScopeResult on one seat                    *)
Noted(o, retry, elapsed) ==
    [o EXCEPT !.probe = IF retry /\ o.until > 0
                        THEN Smaller(RetryDelay - elapsed, o.until) ELSE Never]

(* Mutant: dead seats are reopened too.                                    *)
ClearedDead(o) == [o EXCEPT !.dead = FALSE, !.until = 0, !.probe = Never, !.shared = FALSE]

(* clearManagedGitLabClaudeSharedTPMCooldownScope on one seat              *)
Cleared(o) ==
    IF o.dead THEN o
    ELSE [o EXCEPT !.until = 0, !.probe = Never, !.shared = FALSE]

(* finalizeCopiedProxyResponse: the request was answered                   *)
Succeeded(o) ==
    [o EXCEPT !.dead = FALSE, !.shared = FALSE, !.until = 0, !.probe = Never]

(* refreshGitLabClaudeAccess, by what GitLab answered                      *)
Refreshed(o, outcome, w) ==
    CASE outcome = "granted" ->
           [o EXCEPT !.gateway = TRUE, !.dead = FALSE, !.until = 0, !.shared = FALSE]
      [] outcome = "malformed" -> [o EXCEPT !.gateway = FALSE, !.shared = FALSE]
      [] outcome = "unreachable" -> [o EXCEPT !.shared = FALSE]
      [] outcome = "throttled" -> o
      [] OTHER -> Disposed(o, outcome, w)

-----------------------------------------------------------------------------
NoRequest == [pc |-> "idle", seat |-> None, tried |-> {}, answer |-> "",
              alive |-> TRUE, todo |-> <<>>, left |-> 0, affected |-> FALSE]
NoCanary == [pc |-> "idle", queue |-> {}, seat |-> None, elapsed |-> 0,
             retry |-> FALSE, answered |-> FALSE,
             todo |-> <<>>, left |-> 0, affected |-> FALSE]
NoPoll == [by |-> None, seat |-> None]

Init ==
    /\ restarts = 0
    /\ obj = [s \in Seats |-> Account(Fresh)]
    /\ file = [s \in Seats |-> Fresh]
    /\ req = [r \in Requests |-> NoRequest]
    /\ canary = NoCanary /\ poll = NoPoll /\ events = 0
    /\ limited = [k \in Scopes |-> TRUE]
    /\ quiet = [k \in Scopes |-> RetryDelay]
    /\ open = [r \in Requests |-> {}]

(* A walk over all seats, which passes over those of other scopes.         *)
OtherScope(s, seat) == Scope[s] # Scope[seat]

(* A file is followed only while a restart may still read it.             *)
NoFiles == [s \in Seats |-> Fresh]
Happens ==
    /\ events < MaxEvents /\ events' = events + 1
    /\ file' = IF restarts < MaxRestarts /\ events' < MaxEvents THEN file ELSE NoFiles
Put(s, o) == obj' = [obj EXCEPT ![s] = o]
Writes(f) == file' = IF restarts < MaxRestarts /\ events < MaxEvents THEN f ELSE file
PutAndSave(s, o) == Put(s, o) /\ Writes([file EXCEPT ![s] = Persisted(o)])
PutOnly(s, o) == Put(s, o) /\ UNCHANGED file

-----------------------------------------------------------------------------
(* A client request on GitLab Claude seats, tried on one seat after the    *)
(* other.                                                                  *)

Moves(r, q) == req' = [req EXCEPT ![r] = q]
TriesNext(r) == Moves(r, [NoRequest EXCEPT !.pc = "ready", !.tried = req[r].tried])
RequestAlone == UNCHANGED <<restarts, canary, poll, events, limited>>

Arrives(r) ==
    /\ req[r].pc = "idle" /\ Happens
    /\ Moves(r, [NoRequest EXCEPT !.pc = "ready"])
    /\ UNCHANGED <<restarts, obj, canary, poll, limited, quiet>>

Claim(r) ==
    /\ req[r].pc = "ready"
    /\ \E s \in Seats \ req[r].tried :
          /\ Usable(obj[s])
          /\ Moves(r, [NoRequest EXCEPT !.pc = "claimed", !.seat = s,
                                        !.tried = req[r].tried \cup {s}])
    /\ RequestAlone /\ UNCHANGED <<obj, file, quiet>>

(* tryOnce finds the gateway token spent.                                  *)
RefreshFirst(r, outcome, w) ==
    LET q == req[r] IN
    /\ q.pc = "claimed"
    /\ LET o == Refreshed(obj[q.seat], outcome, w) IN
       IF outcome = "granted" THEN PutAndSave(q.seat, o) ELSE PutOnly(q.seat, o)
    /\ Moves(r, [q EXCEPT !.pc = "sent"])
    /\ RequestAlone /\ UNCHANGED quiet

(* A 2xx answer, copied to the end.  It is saved if anything was wrong with*)
(* the seat, which other marks than those kept here may have been.         *)
AnswerDelivered(r) ==
    LET q == req[r]
        o == obj[q.seat]
    IN
    /\ q.pc \in {"claimed", "sent"}
    /\ \/ PutAndSave(q.seat, Succeeded(o))
       \/ ~(o.dead \/ o.until > 0 \/ o.shared) /\ PutOnly(q.seat, Succeeded(o))
    /\ Moves(r, NoRequest)
    /\ RequestAlone /\ UNCHANGED quiet

(* An answer that says nothing of the seat: 5xx, or none at all.           *)
AnswerLost(r) ==
    /\ req[r].pc \in {"claimed", "sent"}
    /\ TriesNext(r)
    /\ RequestAlone /\ UNCHANGED <<obj, file, quiet>>

(* 402, 429, 401 or 403: applyPreCopyUpstreamStatusDisposition first asks  *)
(* accountIsDead, and takes the lock again to apply the disposition.       *)
CheckDead(r, answer) ==
    LET q == req[r] IN
    /\ q.pc \in {"claimed", "sent"}
    /\ answer = "tpm" => limited[Scope[q.seat]]
    /\ IF obj[q.seat].dead
       THEN TriesNext(r)
       ELSE Moves(r, [q EXCEPT !.pc = "checked", !.answer = answer,
                               !.alive = ~obj[q.seat].dead])
    /\ RequestAlone /\ UNCHANGED <<obj, file, quiet>>

ApplyAnswer(r, w) ==
    LET q == req[r]
        o == Disposed(obj[q.seat], q.answer, w)
    IN
    /\ q.pc = "checked"
    /\ IF q.answer = "tpm"
       THEN /\ PutOnly(q.seat, o)
            /\ Moves(r, [q EXCEPT !.pc = "cooling", !.left = w,
                                  !.todo = Pool])
       ELSE PutAndSave(q.seat, o) /\ TriesNext(r)
    /\ RequestAlone /\ UNCHANGED quiet

CoolNext(r) ==
    LET q == req[r]
        s == Head(q.todo)
        o == obj[s]
    IN
    /\ q.pc = "cooling" /\ q.todo # <<>>
    /\ IF o.dead \/ OtherScope(s, q.seat) THEN UNCHANGED <<obj, file, quiet>>
       ELSE /\ PutAndSave(s, Cooled(o, q.left))
            /\ quiet' = [quiet EXCEPT ![Scope[s]] = RetryDelay]
    /\ Moves(r, [q EXCEPT !.todo = Tail(@),
                          !.affected = @ \/ ~(o.dead \/ OtherScope(s, q.seat))])
    /\ RequestAlone

CoolingEnds(r) ==
    LET q == req[r] IN
    /\ q.pc = "cooling" /\ q.todo = <<>>
    /\ IF q.affected THEN UNCHANGED <<obj, file>>
       ELSE PutAndSave(q.seat, obj[q.seat])
    /\ TriesNext(r)
    /\ RequestAlone /\ UNCHANGED quiet

(* No seat could be claimed: gitLabClaudeSharedTPMCooldownError looks at   *)
(* one seat after the other and answers 429 only when all are blocked.     *)
AskCooldown(r) ==
    /\ req[r].pc = "ready"
    /\ ~ \E s \in Seats \ req[r].tried : Usable(obj[s])
    /\ Moves(r, [NoRequest EXCEPT !.pc = "asking", !.todo = Pool])
    /\ RequestAlone /\ UNCHANGED <<obj, file, quiet>>

(* Mutant: a seat that is free is passed over like one that is gone.       *)
AskNextPassing(r) ==
    LET q == req[r]
        o == obj[Head(q.todo)]
    IN
    /\ q.pc = "asking" /\ q.todo # <<>>
    /\ Moves(r, [q EXCEPT !.todo = Tail(@), !.affected = @ \/ SharedBlocked(o)])
    /\ RequestAlone /\ UNCHANGED <<obj, file, quiet>>

AskNext(r) ==
    LET q == req[r]
        o == obj[Head(q.todo)]
    IN
    /\ q.pc = "asking" /\ q.todo # <<>>
    /\ \/ Relevant(o) /\ ~SharedBlocked(o) /\ Moves(r, NoRequest)
       \/ Relevant(o) /\ SharedBlocked(o)
          /\ Moves(r, [q EXCEPT !.todo = Tail(@), !.affected = TRUE])
       \/ ~Relevant(o) /\ Moves(r, [q EXCEPT !.todo = Tail(@)])
    /\ RequestAlone /\ UNCHANGED <<obj, file, quiet>>

TurnAway(r) ==
    LET q == req[r] IN
    /\ q.pc = "asking" /\ q.todo = <<>>
    /\ Moves(r, IF q.affected THEN [q EXCEPT !.pc = "turned_away"] ELSE NoRequest)
    /\ RequestAlone /\ UNCHANGED <<obj, file, quiet>>

Leaves(r) ==
    /\ req[r].pc = "turned_away"
    /\ Moves(r, NoRequest)
    /\ RequestAlone /\ UNCHANGED <<obj, file, quiet>>

RequestStep(r) ==
    \/ Arrives(r) \/ Claim(r) \/ AnswerDelivered(r) \/ AnswerLost(r)
    \/ \E outcome \in Outcomes, w \in Waits : RefreshFirst(r, outcome, w)
    \/ \E a \in Answers : CheckDead(r, a)
    \/ \E w \in Waits : ApplyAnswer(r, w)
    \/ CoolNext(r) \/ CoolingEnds(r)
    \/ AskCooldown(r) \/ AskNext(r) \/ TurnAway(r) \/ Leaves(r)

-----------------------------------------------------------------------------
(* The recovery poller: one goroutine.                                     *)

CanaryAlone == UNCHANGED <<restarts, req, poll, events, limited>>
CanaryDone == canary' = [NoCanary EXCEPT !.pc = IF canary.queue = {} THEN "idle" ELSE "next",
                                         !.queue = canary.queue]
Notes(retry, answered) ==
    canary' = [canary EXCEPT !.pc = "noting", !.retry = retry,
                             !.answered = answered,
                             !.todo = Pool]

(* collectDueManagedGitLabClaudeSharedTPMCanaryScopes: of each scope one   *)
(* due seat (which of them is due longest is not kept).                    *)
Due == {s \in Seats : SharedBlocked(obj[s]) /\ obj[s].probe = 0}
Collect ==
    /\ canary.pc = "idle" /\ Due # {}
    /\ \E picks \in SUBSET Due :
          /\ \A s \in Due : \E p \in picks : Scope[p] = Scope[s]
          /\ \A p, q \in picks : Scope[p] = Scope[q] => p = q
          /\ canary' = [canary EXCEPT !.pc = "next", !.queue = picks]
    /\ CanaryAlone /\ UNCHANGED <<obj, file, quiet>>

Begin ==
    /\ canary.pc = "next"
    /\ \E due \in canary.queue :
          /\ canary' = [NoCanary EXCEPT !.pc = "prepare", !.seat = due,
                                        !.queue = canary.queue \ {due}]
          /\ quiet' = [quiet EXCEPT ![Scope[due]] = 0]
    /\ CanaryAlone /\ UNCHANGED <<obj, file>>

Probed == obj[canary.seat]

(* prepareManagedGitLabClaudeCanarySeat: refresh if the token is spent.    *)
PrepareRefresh(outcome, w) ==
    LET o == Refreshed(Probed, outcome, w) IN
    /\ canary.pc = "prepare"
    /\ IF outcome = "granted" THEN PutAndSave(canary.seat, o)
       ELSE PutOnly(canary.seat, o)
    /\ IF outcome # "granted" /\ ~o.gateway THEN Notes(TRUE, FALSE)
       ELSE canary' = [canary EXCEPT !.pc = "asking"]
    /\ CanaryAlone /\ UNCHANGED quiet

PrepareNothing ==
    /\ canary.pc = "prepare" /\ Probed.gateway
    /\ canary' = [canary EXCEPT !.pc = "asking"]
    /\ CanaryAlone /\ UNCHANGED <<obj, file, quiet>>

(* No gateway token, or no answer within the canary's timeout.             *)
CanaryUnanswered ==
    /\ canary.pc = "asking"
    /\ Notes(TRUE, FALSE)
    /\ CanaryAlone /\ UNCHANGED <<obj, file, quiet>>

CanarySucceeds ==
    /\ canary.pc = "asking" /\ Probed.gateway
    /\ canary' = [canary EXCEPT !.pc = "clearing",
                                !.todo = Pool]
    /\ CanaryAlone /\ UNCHANGED <<obj, file, quiet>>

(* Any other answer is applied to the probed seat, dead or not.            *)
CanaryRefused(answer, w) ==
    /\ canary.pc = "asking" /\ Probed.gateway
    /\ answer = "tpm" => limited[Scope[canary.seat]]
    /\ PutOnly(canary.seat, Disposed(Probed, answer, w))
    /\ IF answer = "tpm"
       THEN canary' = [canary EXCEPT !.pc = "cooling", !.left = w,
                                     !.todo = Pool]
       ELSE Notes(FALSE, TRUE)
    /\ CanaryAlone /\ UNCHANGED quiet

CanaryCools ==
    LET s == Head(canary.todo)
        o == obj[s]
    IN
    /\ canary.pc = "cooling"
    /\ IF canary.todo = <<>>
       THEN Notes(FALSE, TRUE) /\ UNCHANGED <<obj, file>>
       ELSE /\ canary' = [canary EXCEPT !.todo = Tail(@), !.affected = @ \/
                              ~(o.dead \/ OtherScope(s, canary.seat))]
            /\ IF o.dead \/ OtherScope(s, canary.seat) THEN UNCHANGED <<obj, file>>
               ELSE PutAndSave(s, Cooled(o, canary.left))
    /\ CanaryAlone /\ UNCHANGED quiet

(* Mutant: a canary that is to be repeated prolongs the cooldown.          *)
NoteNextProlongs ==
    LET s == Head(canary.todo) IN
    /\ canary.pc = "noting" /\ canary.todo # <<>>
    /\ PutOnly(s, Cooled(obj[s], RetryDelay))
    /\ canary' = [canary EXCEPT !.todo = Tail(@)]
    /\ CanaryAlone /\ UNCHANGED quiet

NoteNext ==
    LET s == Head(canary.todo) IN
    /\ canary.pc = "noting" /\ canary.todo # <<>>
    /\ IF OtherScope(s, canary.seat) THEN UNCHANGED <<obj, file>>
       ELSE PutOnly(s, Noted(obj[s], canary.retry, canary.elapsed))
    /\ canary' = [canary EXCEPT !.todo = Tail(@)]
    /\ CanaryAlone /\ UNCHANGED quiet

NoteEnds ==
    /\ canary.pc = "noting" /\ canary.todo = <<>>
    /\ IF canary.answered /\ ~canary.affected
       THEN PutAndSave(canary.seat, Probed)
       ELSE UNCHANGED <<obj, file>>
    /\ CanaryDone
    /\ CanaryAlone /\ UNCHANGED quiet

ClearNext ==
    LET s == Head(canary.todo) IN
    /\ canary.pc = "clearing" /\ canary.todo # <<>>
    /\ IF OtherScope(s, canary.seat) THEN UNCHANGED <<obj, file>>
       ELSE PutOnly(s, Cleared(obj[s]))
    /\ canary' = [canary EXCEPT !.todo = Tail(@)]
    /\ CanaryAlone /\ UNCHANGED quiet

ClearEnds ==
    /\ canary.pc = "clearing" /\ canary.todo = <<>>
    /\ Writes([s \in Seats |-> IF Scope[s] = Scope[canary.seat] /\ ~obj[s].dead
                               THEN Persisted(obj[s]) ELSE file[s]])
    /\ CanaryDone
    /\ CanaryAlone /\ UNCHANGED quiet /\ UNCHANGED obj

CanaryStep ==
    \/ Collect \/ Begin \/ PrepareNothing
    \/ \E outcome \in Outcomes, w \in Waits : PrepareRefresh(outcome, w)
    \/ CanaryUnanswered \/ CanarySucceeds
    \/ \E a \in Answers \cup {"error"}, w \in Waits : CanaryRefused(a, w)
    \/ CanaryCools \/ NoteNext \/ NoteEnds \/ ClearNext \/ ClearEnds

-----------------------------------------------------------------------------
(* Refreshes beside requests, restarts, time and the gateway.              *)

PollAlone == UNCHANGED <<restarts, req, canary, limited>>

(* refreshUsageIfStale leaves dead, tokenless and cooling seats alone.     *)
PollBegins(s) ==
    /\ poll = NoPoll /\ Happens /\ Usable(obj[s])
    /\ poll' = [by |-> "poller", seat |-> s]
    /\ PollAlone /\ UNCHANGED <<obj, quiet>>

(* forceRefreshAccount drops the cooldown first.                           *)
OperatorRefreshes(s) ==
    /\ poll = NoPoll /\ Happens
    /\ poll' = [by |-> "operator", seat |-> s]
    /\ Put(s, [obj[s] EXCEPT !.until = 0])
    /\ PollAlone /\ UNCHANGED quiet

PollEnds(outcome, w) ==
    LET o == Refreshed(obj[poll.seat], outcome, w) IN
    /\ poll # NoPoll
    /\ \/ outcome = "granted" /\ PutAndSave(poll.seat, o) /\ UNCHANGED quiet
       \/ /\ outcome = "throttled" /\ poll.by = "poller"
          /\ PutOnly(poll.seat, [o EXCEPT !.until = Larger(@, w)])
          /\ quiet' = [quiet EXCEPT ![Scope[poll.seat]] = RetryDelay]
       \/ /\ outcome # "granted" /\ (outcome = "throttled" => poll.by = "operator")
          /\ PutOnly(poll.seat, o) /\ UNCHANGED quiet
    /\ poll' = NoPoll
    /\ PollAlone /\ UNCHANGED events

(* The schedule of the canary is not in the files.                         *)
Restart ==
    /\ restarts < MaxRestarts /\ events < MaxEvents
    /\ restarts' = restarts + 1 /\ events' = events + 1
    /\ obj' = [s \in Seats |-> Account(file[s])]
    /\ req' = [r \in Requests |-> NoRequest]
    /\ canary' = NoCanary /\ poll' = NoPoll
    /\ file' = IF restarts' < MaxRestarts /\ events' < MaxEvents THEN file ELSE NoFiles
    /\ UNCHANGED <<limited, quiet>>

(* Mutant: a time that has come passes on to the marks of a zero time.     *)
SoonerForever(t) == t - 1

Sooner(t) == IF t > 0 THEN t - 1 ELSE t

(* What goes from seat to seat without a call takes no time here.          *)
Walking(r) == req[r].pc \in {"checked", "cooling", "asking", "turned_away"}

Tick ==
    /\ ~ \E r \in Requests : Walking(r)
    /\ \/ canary.pc = "idle"
       \/ canary.pc \in {"prepare", "asking"} /\ canary.elapsed < CanaryTimeout
    /\ obj' = [s \in Seats |-> [obj[s] EXCEPT !.until = Sooner(@), !.probe = Sooner(@)]]
    /\ Writes([s \in Seats |-> [file[s] EXCEPT !.until = Sooner(@)]])
    /\ canary' = IF canary.pc = "idle" THEN canary ELSE [canary EXCEPT !.elapsed = @ + 1]
    /\ quiet' = [k \in Scopes |-> Smaller(RetryDelay, quiet[k] + 1)]
    /\ UNCHANGED <<restarts, req, poll, events, limited>>

(* The organisation gets below its limit, or above it again.               *)
LimitTurns(k) ==
    /\ limited' = [limited EXCEPT ![k] = ~@]
    /\ IF limited[k] THEN UNCHANGED <<events, file>> ELSE Happens
    /\ UNCHANGED <<restarts, obj, req, canary, poll, quiet>>

Beside ==
    \/ \E s \in Seats : PollBegins(s) \/ OperatorRefreshes(s)
    \/ \E outcome \in Outcomes, w \in Waits : PollEnds(outcome, w)
    \/ Restart \/ Tick \/ \E k \in Scopes : LimitTurns(k)

(* The seats usable since a request began to ask for the cooldown.         *)
Watch ==
    open' = [r \in Requests |->
        LET now == {s \in Seats : Usable(obj'[s])} IN
        IF req[r].pc = "asking" THEN open[r] \cap now
        ELSE IF req'[r].pc = "asking" THEN now
        ELSE IF req'[r].pc = "turned_away" THEN open[r] ELSE {}]

Next == (CanaryStep \/ Beside \/ \E r \in Requests : RequestStep(r)) /\ Watch

(* The clock goes on, an HTTP call of the canary ends by its timeout, and  *)
(* what needs no call is not left unfinished.                              *)
Fairness ==
    /\ WF_vars((CanaryStep \/ Tick) /\ Watch)
    /\ \A r \in Requests : WF_vars(Walking(r) /\ RequestStep(r) /\ Watch)
Spec == Init /\ [][Next]_vars /\ Fairness

-----------------------------------------------------------------------------
AccountType == [dead : BOOLEAN, gateway : BOOLEAN, until : Nat, shared : BOOLEAN,
                probe : Nat \cup {Never}]

(* What the variables hold.                                                *)
TypeOK ==
    /\ restarts \in 0 .. MaxRestarts
    /\ obj \in [Seats -> AccountType]
    /\ file \in [Seats -> [dead : BOOLEAN, gateway : BOOLEAN, until : Nat, shared : BOOLEAN]]
    /\ \A r \in Requests : req[r].seat \in Seats \cup {None} /\ req[r].left \in Nat
    /\ events \in 0 .. MaxEvents
    /\ canary.elapsed \in 0 .. CanaryTimeout
    /\ limited \in [Scopes -> BOOLEAN]
    /\ quiet \in [Scopes -> 0 .. RetryDelay]
    /\ open \in [Requests -> SUBSET Seats]

(* A request is turned away with 429 only if no seat stayed usable while   *)
(* it looked (main.go:1594: "a mixed pool with at least one available seat *)
(* must not be rejected").                                                *)
TurnedAwayOnlyIfBlocked ==
    \A r \in Requests :
        req[r].pc = "turned_away" => open[r] = {}

(* The canary does not throttle the organisation itself: between two       *)
(* canaries of a scope lies the retry delay, or something else has cooled  *)
(* the scope: a 429 to a client, or a refresh that refreshAccount throttled*)
(* (the poller benches that seat, and the end of its old cooldown is news).*)
CanariesSpaced ==
    [][canary.pc = "next" /\ canary'.pc = "prepare" =>
          LET k == Scope[canary'.seat] IN quiet[k] >= RetryDelay]_vars

(* A seat out of credits stays dead while its scope is cooled or reopened, *)
(* and for answers handled after the death.  What does revive it is an     *)
(* answer of the same time, the canary's own answer, or a refresh.         *)
DeadSeatStaysDead ==
    [][\A s \in Seats :
          restarts' = restarts /\ obj[s].dead /\ ~obj'[s].dead =>
             \/ canary.pc \in {"prepare", "asking"} /\ canary' # canary
             \/ poll' # poll
             \/ \E r \in Requests :
                   /\ req'[r] # req[r] /\ req[r].seat = s
                   /\ \/ req[r].pc \in {"claimed", "sent"}
                      \/ req[r].pc = "checked" /\ req[r].alive]_vars

(* The shared cooldown does not keep itself alive: unless the organisation *)
(* gets over its limit again and again, no seat stays blocked by it.       *)
ScopeReopens ==
    \A s \in Seats :
        []<>(limited[Scope[s]] \/ ~SharedBlocked(obj[s]))
=============================================================================
