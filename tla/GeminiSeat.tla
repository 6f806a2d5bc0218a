------------------------------ MODULE GeminiSeat ------------------------------
(* Provider truth of one browser-auth (Antigravity) Gemini seat: what the      *)
(* provider last said of it, how long that may be relied on, what requests and *)
(* the operator's smoke test have seen, and whether a request may use it.      *)
(* The seat lives in a file and in account objects; a reload replaces the      *)
(* object of the pool, and whoever holds the old one goes on with it.          *)
(*                                                                             *)
(* Time passes in steps of the poll interval (10 min), each of which begins    *)
(* with a tick of the poller; the freshness window is Window steps (30 min).   *)
(* A point in time is kept as what is left until it, in steps and rounded up.  *)
(* "checked" and "quotaAt" hold that of the end of the two snapshots (Never:   *)
(* there is none): a snapshot is taken some time after a tick, so it has       *)
(* Window + 1 left ("Full") and ends in the course of the step with 1 left,    *)
(* before the next tick.  "until", "limit" and "full" hold the steps until a   *)
(* limit ends (0: no limit).  A refresh may outlast its step, as it waits for  *)
(* the seats of its batch; the other calls take under a minute, and a step     *)
(* ends only when none of them is under way.                                   *)
EXTENDS Integers, FiniteSetsExt

CONSTANTS Model,      \* models a request can name
          NoModel,    \* a request whose path and body name no model
          NoObject,   \* held by an actor that is idle
          Request,    \* concurrent requests
          Object,     \* account objects of the seat
          Window,     \* geminiProviderTruthFreshnessWindow, in poll intervals
          Longest,    \* bound: the longest limit a provider announces, in steps
          Loads,      \* replies of loadCodeAssist that are tried
          Replies,    \* replies of fetchAvailableModels that are tried
          Dates,      \* what can be left of a quota snapshot by the date it carries
          Disturbances \* bound: reloads, restarts, imports and smoke tests

(* The poller comes round more than once in the window.                       *)
ASSUME WindowAssumption == Window \in Nat /\ Window > 1
ASSUME LongestAssumption == Longest \in Nat \ {0}
ASSUME NoModelAssumption == NoModel \notin Model
ASSUME NoObjectAssumption == NoObject \notin Object
ASSUME DatesAssumption == Window + 1 \in Dates /\ Dates \subseteq 0 .. Window + 1
ASSUME DisturbancesAssumption == Disturbances \in Nat

VARIABLES seat,     \* the account objects
          live,     \* the object the pool holds
          file,     \* the seat's auth file
          request,  \* the requests in flight
          refresh,  \* the truth poller's refresh
          smoke,    \* an operator's smoke test
          login,    \* an import of the seat
          reload,   \* a reload of the pool
          due,      \* the poller's ticker has fired
          hydrate,  \* quota hydration after a start
          kept,     \* history: the last truth of the live object came from the
                    \* poller, and since then no pass of the poller has failed it
                    \* and nothing has brought back an older one
          left      \* disturbances left

vars == <<seat, live, file, request, refresh, smoke, login, reload, due,
          hydrate, kept, left>>

-----------------------------------------------------------------------------
(* What the fields of an account mean.                                        *)

Never == -1

Full == Window + 1

Reasons == {"none", "routable", "blocking"}

OperationalStates == {"none", "clean_ok", "degraded_ok", "cooldown", "hard_fail"}

Seats == [reason : Reasons, blocked : BOOLEAN, forbidden : BOOLEAN,
          project : BOOLEAN, checked : Never .. Full,
          quota : BOOLEAN, quotaAt : Never .. Full, full : [Model -> 0 .. Longest],
          oper : OperationalStates, until : 0 .. Longest,
          limit : [Model -> 0 .. Longest]]

NoLimit == [m \in Model |-> 0]

Larger(a, b) == IF a > b THEN a ELSE b

(* A reason decides over the flag when there is one: two reason codes leave   *)
(* the seat usable.                                                           *)
Quarantined(s) == IF s.reason = "none" THEN s.blocked ELSE s.reason = "blocking"

Restricted(s) == s.reason = "routable"

TruthState(s) ==
    CASE Quarantined(s)               -> "validation_blocked"
      [] Restricted(s)                -> "restricted"
      [] ~Quarantined(s) /\ ~Restricted(s) /\ s.forbidden -> "quota_forbidden"
      [] OTHER ->
           IF s.project
           THEN IF s.checked # Never THEN "ready" ELSE "project_only_unverified"
           ELSE IF s.checked # Never THEN "missing_project_id" ELSE "auth_only"

Ready(s) == TruthState(s) = "ready"

(* The snapshot that expires first decides.                                   *)
FreshFor(s) == IF s.quotaAt # Never /\ s.quotaAt < s.checked
               THEN s.quotaAt ELSE s.checked

Stale(s) == Ready(s) /\ FreshFor(s) = 0

RoutesWhenBlocked(s) == s.blocked /\ ~s.forbidden /\ s.reason = "routable"

EffectiveProject(s) ==
    s.project \/ (~s.forbidden /\ (s.blocked => RoutesWhenBlocked(s)))

Proven(s) == s.oper \in {"clean_ok", "degraded_ok", "cooldown"}

(* routingStateLocked, for a Gemini seat with no observed usage.              *)
Routable(s) ==
    /\ IF s.blocked THEN RoutesWhenBlocked(s) ELSE ~s.forbidden
    /\ s.oper # "hard_fail"
    /\ TruthState(s) = "missing_project_id" => EffectiveProject(s)
    /\ TruthState(s) \in {"missing_project_id", "restricted",
                          "project_only_unverified", "auth_only"} => Proven(s)
    /\ ~Stale(s)
    /\ s.until = 0

ModelLimited(s, m) == m # NoModel /\ (s.limit[m] > 0 \/ s.full[m] > 0)

-----------------------------------------------------------------------------
(* What the provider answers.                                                 *)

(* A load reply names a project, a tier only, or why the account is not       *)
(* eligible, or nothing of the kind ("bare"); or there is no answer.          *)
ReasonOf(load) == CASE load = "restricted" -> "routable"
                    [] load = "blocked"    -> "blocking"
                    [] OTHER               -> "none"

Truth(reason, verified) == [reason |-> reason, verified |-> verified]

NoTruth == Truth("none", FALSE)

TruthFromLoad(load) == Truth(ReasonOf(load), TRUE)

ProjectOnly == Truth("none", FALSE)

(* One tier of the onboarding loop: onboard, load, load the fallback project. *)
(* The empty set: the loop goes on to the next tier.                          *)
TierTruth(onboard, load, fallback) ==
    CASE onboard = "error" -> {}
      [] onboard = "project" -> {IF load = "error" THEN ProjectOnly
                                 ELSE TruthFromLoad(load)}
      [] OTHER ->
           CASE load = "error"   -> {}
             [] load = "project" -> {TruthFromLoad(load)}
             [] OTHER -> IF fallback # "error" THEN {TruthFromLoad(fallback)}
                         ELSE IF ReasonOf(load) # "none" THEN {TruthFromLoad(load)}
                         ELSE {}

(* What resolveAntigravityGeminiProviderTruth can return with something in    *)
(* it: of a tier, or of the load after the tiers.                             *)
Resolved ==
    (UNION {TierTruth(onboard, load, fallback) :
              onboard \in {"error", "project", "bare"},
              load \in Loads, fallback \in Loads})
    \cup {TruthFromLoad(load) : load \in Loads \ {"error"}}

Loaded == {TruthFromLoad(load) : load \in Loads \ {"error"}}

(* fetchAvailableModels is asked with the project and then without it; the    *)
(* outcome of the pair.  A refusal (4xx) of the second forgets a 403 of the   *)
(* first, a provider that is down does not.                                   *)
FetchedQuota(first, second) ==
    CASE first \in {"models", "full"} -> first
      [] first \notin {"models", "full"} /\ second = "down" ->
           IF first = "forbidden" THEN "forbidden" ELSE "error"
      [] first \notin {"models", "full"} /\ second = "refused" -> "error"
      [] OTHER -> second

(* The wait a 429 announces: the reset its details or its text name, or the   *)
(* default one.                                                               *)
Waits == 1 .. Longest

Fetched == {FetchedQuota(first, second) : first \in Replies, second \in Replies}

(* A snapshot carries the time of its fetch in whole seconds, which may be    *)
(* before the tick (Window left), or the provider's own "last_updated".  An   *)
(* empty one is dated by the caller.                                          *)
Undated == {"error", "empty"}

Snapshot(kind, reset, dated) == [kind |-> kind, reset |-> reset, left |-> dated]

NoSnapshot == Snapshot("error", 1, Full)

Snapshots ==
    {Snapshot(kind, reset, dated) : kind \in Fetched \ Undated, reset \in Waits, dated \in Dates}
    \cup {Snapshot(kind, 1, Full) : kind \in Fetched \cap Undated}

(* No older than a fetch of this step.                                        *)
Current(snapshot) == snapshot.kind # "error" /\ snapshot.left >= Window

-----------------------------------------------------------------------------
(* What an answer does to an account.                                         *)

(* Mutant: the quarantine flag is left as it was. *)
TruthAppliedFlagKept(s, truth) ==
    [s EXCEPT !.reason = truth.reason, !.project = TRUE,
              !.checked = IF truth.verified THEN Full ELSE @]

(* applyAntigravityGeminiProviderTruthLocked: the truth always names a        *)
(* project (the fallback one when the provider gives none), replaces the      *)
(* reason, and moves the check time only when it has one.                     *)
TruthApplied(s, truth) ==
    [s EXCEPT !.reason = truth.reason, !.project = TRUE,
              !.checked = IF truth.verified THEN Full ELSE @,
              !.blocked = truth.reason = "blocking"]

(* applyAntigravityGeminiQuotaRefreshLocked.  A model reported with all of    *)
(* its quota left is stored as 100 per cent, which the router reads as used   *)
(* up until the reset time the report carries.                                *)
QuotaApplied(s, snapshot) ==
    CASE snapshot.kind = "error" -> s
      [] snapshot.kind = "empty" ->
           [s EXCEPT !.quota = FALSE, !.forbidden = FALSE, !.full = NoLimit,
                     !.quotaAt = snapshot.left]
      [] snapshot.kind = "forbidden" ->
           [s EXCEPT !.quota = TRUE, !.forbidden = TRUE, !.full = NoLimit,
                     !.quotaAt = snapshot.left]
      [] OTHER ->
           [s EXCEPT !.quota = TRUE, !.forbidden = FALSE, !.quotaAt = snapshot.left,
                     !.full = [m \in Model |-> IF snapshot.kind = "full"
                                               THEN snapshot.reset ELSE 0]]

SuccessState(s) == IF Ready(s) THEN "clean_ok" ELSE "degraded_ok"

(* Mutant: a success forgets the limits of the models. *)
SucceededForgets(s) == [s EXCEPT !.until = 0, !.oper = SuccessState(s), !.limit = NoLimit]

(* noteGeminiOperationalSuccessLocked.                                        *)
Succeeded(s) == [s EXCEPT !.until = 0, !.oper = SuccessState(s)]

(* A 429: a limit of the model the request named, which also takes back a     *)
(* limit of the whole seat; of the whole seat when it named none.             *)
Limited(s, m, wait) ==
    IF m = NoModel
    THEN [s EXCEPT !.oper = "cooldown", !.until = Larger(@, wait)]
    ELSE [s EXCEPT !.oper = "cooldown", !.until = 0, !.limit[m] = Larger(@, wait)]

Failed(s) == [s EXCEPT !.oper = "hard_fail"]

(* applyRuntimeState carries the seat-wide limit over, not those of models.   *)
WithRuntimeState(s, old) == [s EXCEPT !.until = Larger(@, old.until)]

(* The seat an import describes: any validation truth raises the flag.        *)
Imported(truth) ==
    [reason |-> truth.reason, blocked |-> truth.reason # "none",
     forbidden |-> FALSE, project |-> TRUE,
     checked |-> IF truth.verified THEN Full ELSE Never,
     quota |-> FALSE, quotaAt |-> Never, full |-> NoLimit,
     oper |-> "none", until |-> 0, limit |-> NoLimit]

ImportedSeat(truth, snapshot) == QuotaApplied(Imported(truth), snapshot)

-----------------------------------------------------------------------------
(* The actors.                                                                *)

Blank == Imported(NoTruth)

NoRequest == [obj |-> NoObject, model |-> NoModel]
NoRefresh == [phase |-> "idle", obj |-> NoObject, good |-> FALSE]
NoSmoke   == [phase |-> "idle", obj |-> NoObject, model |-> NoModel]
NoLogin   == [phase |-> "idle", quota |-> NoSnapshot]
NoReload  == [by |-> "nobody", text |-> Blank]
NoHydrate == [phase |-> "off", obj |-> NoObject]

Holders(requests) == {refresh.obj, smoke.obj, hydrate.obj}
                     \cup {request[r].obj : r \in requests}

(* What an object nobody can reach any more holds is of no account.           *)
Reachable(seats, o, holders) ==
    [seats EXCEPT ![o] = IF o \in holders THEN @ ELSE Blank]

LetGo(o, others) ==
    seat' = Reachable(seat, o, {live} \cup others \cup {request[r].obj : r \in Request})

(* saveAccount: the file is replaced as a whole by what the object holds now. *)
SaveSeat(o) == file' = seat[o]

Disturbs == left > 0 /\ left' = left - 1

Init ==
    /\ \E truth \in Resolved, kind \in {"models", "error"} :
         file = ImportedSeat(truth, Snapshot(kind, 1, Full))
    /\ live \in Object
    /\ seat = [o \in Object |-> IF o = live THEN file ELSE Blank]
    /\ request = [r \in Request |-> NoRequest]
    /\ refresh = NoRefresh
    /\ smoke = NoSmoke
    /\ login = NoLogin
    /\ reload = NoReload
    /\ due = TRUE
    /\ hydrate = [NoHydrate EXCEPT !.phase = "due"]
    /\ kept = FALSE
    /\ left = Disturbances

-----------------------------------------------------------------------------
(* Requests.                                                                  *)

(* claimPathSupportingCandidate picks the seat, and only then looks at the    *)
(* limit of the model.                                                        *)
Route(r, m) ==
    /\ request[r] = NoRequest
    /\ Routable(seat[live])
    /\ EffectiveProject(seat[live])
    /\ ~ModelLimited(seat[live], m)
    /\ request' = [request EXCEPT ![r] = [obj |-> live, model |-> m]]
    /\ UNCHANGED <<seat, live, file, refresh, smoke, login, reload, due, hydrate, kept, left>>

(* A loopback request that names the seat is not asked whether it may.        *)
RouteForced(r, m) ==
    /\ request[r] = NoRequest
    /\ EffectiveProject(seat[live])
    /\ Disturbs
    /\ request' = [request EXCEPT ![r] = [obj |-> live, model |-> m]]
    /\ UNCHANGED <<seat, live, file, refresh, smoke, login, reload, due, hydrate, kept>>

Answered(r, s) ==
    /\ request[r].obj # NoObject
    /\ LET o == request[r].obj IN
       seat' = Reachable([seat EXCEPT ![o] = s], o, {live} \cup Holders(Request \ {r}))
    /\ request' = [request EXCEPT ![r] = NoRequest]
    /\ UNCHANGED <<live, refresh, smoke, login, reload, due, hydrate, kept, left>>

(* A success is saved when there was something to take back.                  *)
RequestSucceeds(r) ==
    LET o == request[r].obj IN
    /\ o # NoObject
    /\ Answered(r, Succeeded(seat[o]))
    /\ file' = IF Succeeded(seat[o]) = seat[o] THEN file ELSE Succeeded(seat[o])

(* A 429 is kept in memory only.                                              *)
RequestLimited(r, wait) ==
    /\ request[r].obj # NoObject
    /\ Answered(r, Limited(seat[request[r].obj], request[r].model, wait))
    /\ UNCHANGED file

(* Any other failure costs a penalty or, after a failed token refresh, marks  *)
(* the seat dead; neither is part of its truth.                               *)
RequestFails(r) ==
    /\ request[r].obj # NoObject
    /\ Answered(r, seat[request[r].obj])
    /\ UNCHANGED file

-----------------------------------------------------------------------------
(* The truth poller.                                                          *)

(* Mutant: a seat is refreshed only once it is stale. *)
RefreshEligibleLate(s) == Ready(s) /\ ~s.forbidden /\ ~Quarantined(s) /\ Stale(s)

(* Mutant: a seat that has become stale is left alone. *)
RefreshEligibleNoStale(s) ==
    Ready(s) /\ ~s.forbidden /\ ~Quarantined(s) /\ FreshFor(s) = 1

(* staleAntigravityGeminiTruthRefreshEligibleLocked: stale, or stale by the   *)
(* next tick.  Only a ready seat has a freshness.                             *)
RefreshEligible(s) ==
    Ready(s) /\ ~s.forbidden /\ ~Quarantined(s) /\ FreshFor(s) <= 1

PollerTick ==
    /\ due
    /\ refresh.phase = "idle"
    /\ due' = FALSE
    /\ IF RefreshEligible(seat[live])
       THEN /\ refresh' = [phase |-> "loading", obj |-> live, good |-> FALSE]
            /\ UNCHANGED kept
       ELSE /\ kept' = (kept /\ Ready(seat[live]))
            /\ UNCHANGED refresh
    /\ UNCHANGED <<seat, live, file, request, smoke, login, reload, hydrate, left>>

RefreshLearns(truth) ==
    /\ refresh.phase = "loading"
    /\ seat' = [seat EXCEPT ![refresh.obj] = TruthApplied(@, truth)]
    /\ refresh' = [refresh EXCEPT !.phase = "quota", !.good = truth.verified]
    /\ UNCHANGED <<live, file, request, smoke, login, reload, due, hydrate, kept, left>>

(* The load with the known project, or the resolution that replaces it when   *)
(* the load fails.                                                            *)
RefreshLoads == \E truth \in Loaded \cup Resolved : RefreshLearns(truth)

(* Neither gave anything: nothing is applied and nothing saved.               *)
RefreshFails ==
    /\ refresh.phase = "loading"
    /\ refresh' = NoRefresh
    /\ kept' = FALSE
    /\ LetGo(refresh.obj, {smoke.obj, hydrate.obj})
    /\ UNCHANGED <<live, file, request, smoke, login, reload, due, hydrate, left>>

RefreshTakes(snapshot) ==
    /\ refresh.phase = "quota"
    /\ seat' = [seat EXCEPT ![refresh.obj] = QuotaApplied(@, snapshot)]
    /\ refresh' = [refresh EXCEPT !.phase = "saving", !.good = @ /\ Current(snapshot)]
    /\ UNCHANGED <<live, file, request, smoke, login, reload, due, hydrate, kept, left>>

RefreshQuota == \E snapshot \in Snapshots : RefreshTakes(snapshot)

RefreshSaves ==
    /\ refresh.phase = "saving"
    /\ SaveSeat(refresh.obj)
    /\ refresh' = NoRefresh
    /\ kept' = (refresh.good /\ refresh.obj = live)
    /\ LetGo(refresh.obj, {smoke.obj, hydrate.obj})
    /\ UNCHANGED <<live, request, smoke, login, reload, due, hydrate, left>>

-----------------------------------------------------------------------------
(* The operator's smoke test.                                                 *)

SmokeBegins(m) ==
    /\ smoke = NoSmoke
    /\ Disturbs
    /\ smoke' = [phase |-> "loading", obj |-> live, model |-> m]
    /\ UNCHANGED <<seat, live, file, request, refresh, login, reload, due, hydrate, kept>>

(* It goes on to generate whether the load was answered or not.               *)
SmokeLoads ==
    /\ smoke.phase = "loading"
    /\ \/ \E truth \in Loaded :
            seat' = [seat EXCEPT ![smoke.obj] = TruthApplied(@, truth)]
       \/ UNCHANGED seat
    /\ smoke' = [smoke EXCEPT !.phase = "generating"]
    /\ UNCHANGED <<live, file, request, refresh, login, reload, due, hydrate, kept, left>>

SmokeGenerates ==
    /\ smoke.phase = "generating"
    /\ \E s \in {Succeeded(seat[smoke.obj]), Failed(seat[smoke.obj])}
              \cup {Limited(seat[smoke.obj], smoke.model, wait) : wait \in Waits} :
          seat' = [seat EXCEPT ![smoke.obj] = s]
    /\ smoke' = [smoke EXCEPT !.phase = "saving"]
    /\ UNCHANGED <<live, file, request, refresh, login, reload, due, hydrate, kept, left>>

SmokeSaves ==
    /\ smoke.phase = "saving"
    /\ SaveSeat(smoke.obj)
    /\ smoke' = NoSmoke
    /\ LetGo(smoke.obj, {refresh.obj, hydrate.obj})
    /\ UNCHANGED <<live, request, refresh, login, reload, due, hydrate, kept, left>>

-----------------------------------------------------------------------------
(* Time.                                                                      *)

(* Mutant: a time that is over goes on. *)
SoonerEndless(t) == t - 1

Sooner(t) == IF t > 0 THEN t - 1 ELSE t

Aged(s) ==
    [s EXCEPT !.checked = Sooner(@), !.quotaAt = Sooner(@), !.until = Sooner(@),
              !.full = [m \in Model |-> Sooner(s.full[m])],
              !.limit = [m \in Model |-> Sooner(s.limit[m])]]

(* A snapshot with one step left expires in its course: after the poller has  *)
(* looked at the seat, which it does as soon as its ticker fires, unless it   *)
(* is still at the pass before.                                               *)
Expired(s) == [s EXCEPT !.checked = IF @ = 1 THEN 0 ELSE @,
                        !.quotaAt = IF @ = 1 THEN 0 ELSE @]

Expires ==
    /\ due => refresh.phase # "idle"
    /\ seat' = [o \in Object |-> Expired(seat[o])]
    /\ file' = Expired(file)
    /\ reload' = [reload EXCEPT !.text = Expired(@)]
    /\ UNCHANGED <<live, request, refresh, smoke, login, due, hydrate, kept, left>>

(* The next tick finds the poller done with the pass before the last one.     *)
TimePasses ==
    /\ ~due
    /\ smoke = NoSmoke /\ login = NoLogin
    /\ reload = NoReload /\ hydrate = NoHydrate
    /\ due' = TRUE
    /\ seat' = [o \in Object |-> Aged(seat[o])]
    /\ file' = Aged(file)
    /\ UNCHANGED <<live, request, refresh, smoke, login, reload, hydrate, kept, left>>

-----------------------------------------------------------------------------
(* Reload, import, start.                                                     *)

ReadsPool(by) ==
    /\ reload = NoReload
    /\ reload' = [by |-> by, text |-> file]

(* A reload somebody else asked for.                                          *)
ReloadReads ==
    /\ ReadsPool("other")
    /\ Disturbs
    /\ UNCHANGED <<seat, live, file, request, refresh, smoke, login, due, hydrate, kept>>

(* The file may bring back a snapshot taken earlier than those it replaces.   *)
Older(new, old) == FreshFor(new) < FreshFor(old)

ReloadReplaces ==
    /\ reload # NoReload
    /\ \E o \in Object \ ({live} \cup Holders(Request)) :
         /\ seat' = [Reachable(seat, live, Holders(Request)) EXCEPT
                       ![o] = WithRuntimeState(reload.text, seat[live])]
         /\ live' = o
    /\ kept' = (kept /\ ~Older(reload.text, seat[live]))
    /\ reload' = NoReload
    /\ login' = IF reload.by # "login" THEN login
                ELSE IF login.phase = "reading" /\ login.quota.kind # "error"
                     THEN [login EXCEPT !.phase = "applying"]
                     ELSE NoLogin
    /\ hydrate' = IF reload.by = "hydrate" THEN NoHydrate ELSE hydrate
    /\ UNCHANGED <<file, request, refresh, smoke, due, left>>

(* A sign-in or an import that names the seat writes a new file from what the *)
(* provider answered, loads it, and saves it again with a health set: nothing *)
(* of another actor between the two saves survives, so they are one step.  An *)
(* empty snapshot is written as none.                                         *)
LoginWrites(truth, snapshot) ==
    /\ login = NoLogin
    /\ Disturbs
    /\ snapshot.kind # "empty"
    /\ file' = ImportedSeat(truth, snapshot)
    /\ login' = [phase |-> "written", quota |-> snapshot]
    /\ UNCHANGED <<seat, live, request, refresh, smoke, reload, due, hydrate, kept>>

LoginReloads ==
    /\ login.phase \in {"written", "applied"}
    /\ ReadsPool("login")
    /\ login' = [login EXCEPT !.phase = IF @ = "written" THEN "reading" ELSE "rereading"]
    /\ UNCHANGED <<seat, live, file, request, refresh, smoke, due, hydrate, kept, left>>

(* A snapshot of an earlier date has replaced one of the poller.              *)
Outdated(snapshot) ==
    /\ kept' = (kept /\ Current(snapshot))
    /\ refresh' = [refresh EXCEPT !.good = @ /\ Current(snapshot)]

(* The snapshot goes onto the live object too, which is saved and reloaded.   *)
LoginApplies ==
    /\ login.phase = "applying"
    /\ seat' = [seat EXCEPT ![live] = QuotaApplied(@, login.quota)]
    /\ file' = seat'[live]
    /\ login' = [NoLogin EXCEPT !.phase = "applied"]
    /\ Outdated(login.quota)
    /\ UNCHANGED <<live, request, smoke, reload, due, hydrate, left>>

HydrationEligible(s) ==
    ~Quarantined(s) /\ ~s.forbidden /\ ~s.quota /\ (Ready(s) \/ EffectiveProject(s))

HydrateBegins ==
    /\ hydrate.phase = "due" /\ ~due /\ refresh = NoRefresh
    /\ hydrate' = IF HydrationEligible(seat[live])
                  THEN [phase |-> "fetching", obj |-> live] ELSE NoHydrate
    /\ UNCHANGED <<seat, live, file, request, refresh, smoke, login, reload, due, kept, left>>

(* An empty snapshot changes nothing here.                                    *)
HydrateAnswered ==
    /\ hydrate.phase = "fetching"
    /\ \E snapshot \in Snapshots :
         LET s == QuotaApplied(seat[hydrate.obj], snapshot) IN
         /\ hydrate' = IF snapshot.kind = "error" THEN NoHydrate
                       ELSE [phase |-> "saved", obj |-> NoObject]
         /\ IF snapshot.kind \in Undated
            THEN /\ LetGo(hydrate.obj, {refresh.obj, smoke.obj})
                 /\ UNCHANGED <<file, refresh, kept>>
            ELSE /\ seat' = [seat EXCEPT ![hydrate.obj] = s]
                 /\ file' = s
                 /\ Outdated(snapshot)
    /\ UNCHANGED <<live, request, smoke, login, reload, due, left>>

HydrateReloads ==
    /\ hydrate.phase = "saved"
    /\ ReadsPool("hydrate")
    /\ hydrate' = [hydrate EXCEPT !.phase = "reloading"]
    /\ UNCHANGED <<seat, live, file, request, refresh, smoke, login, due, kept, left>>

(* The process ends and starts again; the poller starts with a pass, and from *)
(* then on ticks at other times than before.                                  *)
Restart ==
    /\ Disturbs
    /\ live' \in Object
    /\ file' \in {file, Aged(file)}
    /\ seat' = [o \in Object |-> IF o = live' THEN file' ELSE Blank]
    /\ request' = [r \in Request |-> NoRequest]
    /\ refresh' = NoRefresh
    /\ smoke' = NoSmoke
    /\ login' = NoLogin
    /\ reload' = NoReload
    /\ due' = TRUE
    /\ hydrate' = [NoHydrate EXCEPT !.phase = "due"]
    /\ kept' = FALSE

-----------------------------------------------------------------------------

Next ==
    \/ \E r \in Request, m \in Model \cup {NoModel} : Route(r, m) \/ RouteForced(r, m)
    \/ \E r \in Request : RequestSucceeds(r) \/ RequestFails(r)
    \/ \E r \in Request, wait \in Waits : RequestLimited(r, wait)
    \/ PollerTick \/ RefreshLoads \/ RefreshFails \/ RefreshQuota \/ RefreshSaves
    \/ \E m \in Model : SmokeBegins(m)
    \/ SmokeLoads \/ SmokeGenerates \/ SmokeSaves
    \/ ReloadReads \/ ReloadReplaces
    \/ \E truth \in Resolved, snapshot \in Snapshots : LoginWrites(truth, snapshot)
    \/ LoginReloads \/ LoginApplies
    \/ HydrateBegins \/ HydrateAnswered \/ HydrateReloads
    \/ Restart \/ Expires \/ TimePasses

(* The ticker fires, every call ends (each has a timeout), requests end, and  *)
(* a provider that is asked again and again some time answers both calls of   *)
(* one refresh in full, with a snapshot of the day.                           *)
Fairness ==
    /\ WF_vars(PollerTick) /\ WF_vars(TimePasses)
    /\ WF_vars(RefreshLoads \/ RefreshFails)
    /\ SF_vars(RefreshLearns(TruthFromLoad("project")))
    /\ WF_vars(RefreshQuota)
    /\ SF_vars(refresh.good /\ RefreshTakes(Snapshot("models", 1, Full)))
    /\ WF_vars(RefreshSaves)
    /\ WF_vars(SmokeLoads \/ SmokeGenerates \/ SmokeSaves)
    /\ WF_vars(ReloadReplaces)
    /\ WF_vars(LoginReloads \/ LoginApplies)
    /\ WF_vars(HydrateBegins \/ HydrateAnswered \/ HydrateReloads)
    /\ \A r \in Request : WF_vars(RequestSucceeds(r) \/ RequestFails(r))

Spec == Init /\ [][Next]_vars /\ Fairness

-----------------------------------------------------------------------------
(* Every variable keeps its type: time left stays within the window and the   *)
(* longest limit, and an actor that works holds an object.                    *)
TypeOK ==
    /\ seat \in [Object -> Seats] /\ live \in Object /\ file \in Seats
    /\ request \in [Request -> [obj : Object \cup {NoObject}, model : Model \cup {NoModel}]]
    /\ refresh \in [phase : {"idle", "loading", "quota", "saving"},
                    obj : Object \cup {NoObject}, good : BOOLEAN]
    /\ refresh.phase # "idle" <=> refresh.obj # NoObject
    /\ smoke.phase # "idle" <=> smoke.obj # NoObject
    /\ hydrate.phase = "fetching" <=> hydrate.obj # NoObject
    /\ due \in BOOLEAN /\ kept \in BOOLEAN /\ left \in 0 .. Disturbances

(* A seat the provider has blocked, or whose quota it has forbidden, takes no *)
(* request: the router looks at the flag, the truth state at the reason, and  *)
(* refresh, smoke test, import and reload keep the two in step.               *)
BlockedSeatRefused ==
    \A o \in Object : Quarantined(seat[o]) \/ seat[o].forbidden => ~Routable(seat[o])

(* A ready seat whose last pass of the poller was answered and reached the    *)
(* pool's object is stale only while the pass that renews it is due or under  *)
(* way, never for the rest of an interval: whatever requests, smoke tests,    *)
(* imports and reloads do in between, but for what brings back an older truth *)
(* (a reload, a provider that dates its snapshot back).  It does get stale    *)
(* then, which CHANGELOG.md:101 denies: its truth was checked a little after  *)
(* a tick, so two ticks later it is not yet one interval from its end.        *)
StaleOnlyWhileRenewed ==
    kept /\ Stale(seat[live]) => due \/ refresh.phase # "idle"

(* A model's limit on an object in use ends with its time, and not because    *)
(* another request succeeded, the truth was refreshed, or another 429 named   *)
(* a shorter wait.  (A reload or a restart may lose it: a 429 is not saved.)  *)
ModelLimitLastsItsTime ==
    [][\A m \in Model :
         live' = live /\ seat'[live].limit[m] < seat[live].limit[m] =>
           TimePasses \/ Restart]_vars

(* A ready seat that has become stale, after an outage of the provider or a   *)
(* refresh a reload overtook, becomes usable again or is told why not.        *)
StaleSeatRecovers == Stale(seat[live]) ~> ~Stale(seat[live])
=============================================================================
