# A verification development for codex-pool-orchestrator

The program is a Go proxy that serves Codex, Claude and Gemini clients from a
pool of accounts ("seats").  This directory models its core as TLA+ modules,
checks them with TLC on small instances, and proves theorems about them with
TLAPS.  Names in the modules are the source's; `PROJECT.json` maps every
definition to the lines it stands for.

## 1. The system

| Part | State it keeps | Operations | Interacts through |
|---|---|---|---|
| Seat selection (`pool.go`) | accounts, `convPin`, `pendingClaims`, active seat of each kind | `candidateAtLocked` and what it calls, peek, pin | `poolState.mu`, each `Account.mu` |
| Attempt contour (`main.go`) | `Account.Inflight`, per request: excluded seats, attempts | claim, book, release, try, retry elsewhere, deliver; WebSocket and streamed single attempts | selection, token refresh, dispositions |
| Token refresh (`main.go`, `provider_*.go`) | `refreshCalls`, `lastRefreshTime`, tokens, `LastRefresh` | join or lead, throttle, rotate, store, save; probe and verdict; forced refresh | OAuth providers, account files |
| Usage poller (`usage_tracking.go`) | usage snapshots | poll, refresh, retry | token refresh, account files |
| Account lifecycle (`dead_cleanup.go`, `handlers.go`, `pool.go`) | Dead, `DeadSince`, health, files | mark dead, clear, quarantine, resurrect, reload, delete | files, selection |
| GitLab Claude / Codex seats (`claude_gitlab*.go`, `codex_gitlab.go`) | shared TPM cooldown, canary state, gateway tokens | propagate cooldown, canary, recover | selection, dispositions |
| Codex API keys (`codex_api_keys.go`) | health, probe results | probe, disposition | selection (fallback) |
| Gemini truth (`pool.go`, `gemini_operator.go`) | provider truth, operational truth, per-model cooldowns | sync, note success or cooldown | selection |
| Models cache (`codex_models.go`) | cached list, warm state | load, store, fetch, discover | attempt contour |
| Usage ledger (`usage*.go`, `storage.go`) | bbolt buckets, totals | record, restore | attempt contour, reload |
| Sign-in sessions (`admin_codex*.go`, `admin_claude.go`, `gemini_operator.go`) | sessions by state | start, callback, exchange, expire | files, reload |
| Gemini reset (`operator_gemini_reset.go`) | backup bundle | reset, roll back | files, reload |
| Streams (`sse.go`, `response_usage_stream.go`) | idle timers, cutoff watcher | read, time out, finalize | dispositions |
| Routing (`router.go`, `request_planning.go`), pool users, adapters, status pages, scripts | - | mostly stateless | - |

Every request runs in a goroutine of its own.  Pollers, operator handlers and
the status page run beside them.  Locks are short: the selector decides under
`poolState.mu`, but everything between a claim and its release, between a
refresh token read and the new one stored, and between a field read by
`saveAccount` and the file replaced is open to every other goroutine.  A reload
makes new `Account` objects while requests go on with the old ones.

What makes each part correct, and is hard to test:

- **Selection and contour.**  No claim or `Inflight` is leaked or freed twice
  through retries, rejections, errors and reloads; concurrent requests spread
  over idle seats; a fallback key is a fallback; a request ends, and ends
  without an answer only when no seat is left.
- **Token refresh.**  A refresh token works once, so it must be presented once,
  and its successor must reach the object and the file; nobody waits forever;
  a live seat is not marked dead; throttles hold across restarts.
- **Lifecycle.**  What memory and file say of a seat converge; deleted and
  quarantined seats stay gone; a mark is not undone by older news.
- **GitLab cooldowns.**  All seats of a scope cool down together, canaries keep
  their distance, and the scope reopens by a canary, the poller or its deadline.
- **Gemini truth.**  A blocked seat takes no request, a seat the poller keeps is
  stale only while it is being renewed, a stale one recovers, a model's limit
  lasts its time.
- **Ledger, reset, sessions, streams.**  A usage event is in one record, nothing
  is rolled back over newer data, exchanged twice or left open; a silent upstream
  holds no stream and no request with a deadline; a stream that failed is no success.

`PROJECT.json` lists each hazard at its line.

## 2. Plan

Done, in this order: `SeatSelection` and `SeatPool`; `TokenRefresh`, with writes
that fail; `SignIn` and its abstract specification `SessionExchange`, with the
refinement; `GitLabCooldown`; `UsageLedger`; `StreamDelivery`; `SeatFiles`;
`GeminiSeat`.

Left: GitLab model discovery and the models cache; the Gemini reset bundle; the
routing decisions of `request_planning.go`; an abstract specification of the token
a seat holds, implemented by `TokenRefresh`.

## 3. Modules

**`SeatSelection`** declares the state of `poolState` and defines, for a call
`[type, plan, conv, exclude]`, the seats `candidateAtLocked` may return
(`Candidates`: pinned, else sticky, else selected) and what it leaves in the
active-seat fields (`UpdateActive`).  Scores are sums of floats, so seats that
only a score tells apart are all possible results.  What routing reads of a
seat (usage, health, cooldowns, expiry) is one of six `Conditions`.
`LastUsed` is a relation, who was used before whom.  The conditions of all
seats are read in one instant, where the code locks one `Account` after the other; a
seat that has changed meanwhile is found out by `Claim`, which looks again under the
pool's lock.

**`SeatPool`** adds requests.  `Claim`, `RejectClaimed`, `Book`, `ReleaseClaim`
are the four steps of `claimPathSupportingCandidate` that other goroutines can
see; `TryOnceReturns`, `RetryElsewhere`, `Deliver`, `NextAttempt`, `NoCandidate`
are the buffered contour, `DirectAnswer` and `Leave` the WebSocket and streamed
ones, `ModelsFetched` the models request, `BookForced` the debug header.
`ReloadLoads`/`ReloadReplaces`, `OperatorDelete`, `StatusPeek` and
`ConditionChanges` run beside them.  `NoCandidate` is a claim that finds nothing together
with the questions that follow it (main.go:1506), which change no state.  A request remembers the generation of the
`Account` object it holds.

**`TokenRefresh`** models one caller per goroutine that finds a seat's access
token spent (`tryOnce`, streamed or WebSocket requests, `fetchUsage`,
`forceRefreshAccount`), step by step: `Join` (single flight), `AccountGate` and
`GlobalGate` (throttles), `Rotates`/`Refuses` (the provider), `Store` and
`Finish` (each followed by a save in two steps, fields read and `WriteFile`),
`Unregister`, `CloseDone`, then what the caller makes of the result.  Tokens are
numbered by the pair they were issued in.  Faults: `Restart` starts again on what
the files say; a `lost` answer is a rotation whose answer never arrives;
`WriteFails` is the provider's save of the rotated pair that fails, after which
memory is ahead of the file and the caller is told of an error.

**`SignIn`** models how accounts come into the pool.  `StartSession`, `Sweep`,
`Ages` and the three ways to claim (`ClaimCodex`, `LookUpClaude`, `ClaimGemini`)
work on the tables of sessions; the two Gemini tables are alike and are one
lane.  A Codex session that an operator starts needs the loopback servers:
`EnsureServers` opens them, `ErrorCallback`, `FinalizeCodex`, `Sweep` and
`StartFails` schedule a stop, which looks (`StopLooks`) and closes (`StopCloses`)
in two steps.  A handler that has a code goes from `Granted`/`NotGranted` through
the steps of `saveNewCodexAccount` (find the seat's file, pick a free name,
truncate, write) or an atomic write, to the reload and `FinalizeCodex`,
`Release` or `RemoveClaude`.  A file is who wrote it and whether it is whole.

**`SessionExchange`** is what a sign-in promises, without tables, servers or files:
a session is `Open` to a `Claim` by one handler at a time, its code goes through one
`Exchange`, and after `Store` the handler can only `Finish`; before, it may `Fail` and
`Release` the session, and a session nobody stores may be withdrawn.
`SignIn` instantiates it (`Promised`) for Codex and Gemini sessions, with
`ExchangeStatus`, `ExchangeHold` and `ExchangeSpent` as the refinement mapping.
Claude sessions are outside it: the code looks them up without claiming them.

**`GitLabCooldown`** models the cooldown that the GitLab Claude seats of one
organisation share.  A request goes `Claim`, `RefreshFirst` (a seat without gateway
access), `AnswerDelivered`/`AnswerLost`, `CheckDead`, `ApplyAnswer`, and after a
tokens-per-minute 429 copies the cooldown seat by seat (`CoolNext`); with no seat
left it asks seat by seat whether the scope is blocked (`AskNext`, `TurnAway`).
The recovery poller collects due seats, begins a canary, refreshes, asks, and then
cools, notes or clears the scope seat by seat (`CanaryCools`, `NoteNext`,
`ClearNext`).  The usage poller's and operator's refresh (`PollBegins`,
`OperatorRefreshes`, `PollEnds`) and `Restart` run beside.  Times are distances from
now that `Tick` shortens.

**`UsageLedger`** models what an answered request leaves behind: the object's
totals and its reading of the two windows against the last one (`Count`, `Delta`),
one transaction (`Store`, or `StoreFails`) that adds to the account, user, daily,
hourly, global and capacity records (`AccountAggregate` ... `CapacityAggregate`), and
`Prune`.  A reload in four steps (`ReloadBegins` ... `ReloadRestores`), `Purge` of users
(one transaction, hence one step) and `Restart` run beside.  A total is the set of
the requests counted in it, so that "twice" and "never" can be told apart.  A
reading may be older than one measured before, and has 0 for a window its answer
did not carry, as in the code.

**`StreamDelivery`** models `deliverCopiedProxyResponse` for one response: the copy
loop, which reads a chunk of one or several events (`Read`), writes all of it to the
client (`Write`) and then scans it event by event (`Scan`, `Scanned`) for a failure,
for GitLab's tail of pings and for usage; the ways it ends, among them a cut in the
middle of a chunk and a client that takes part of one (`WriteFails`); the watchdog
(`DogFires`, `DogCancels`), the request's `deadline`, which a request may lack whatever
the response is, and `Finalize`.  `Upstream` sends what the protocol of the response's
kind allows, and ends or breaks off anywhere.  A Claude message may have zero
counts (`start0`, `delta0`: no usage is found in them) and several deltas; Gemini's
chunks each carry usage or not.

**`SeatFiles`** models memory against the directory for Codex seats of the three
families, which differ in how they are written and in what a save does with a
missing file.  `Take`, `Judge`, `Answer`, `SaveRead`, `SaveWrite` are a request or
poller on the object it took; `LoginOpens`/`LoginWrites`, `KeyAdded` ...
`KeySaveWrite`, `DeleteLooks`/`DeleteRemoves`, `SweepBegins` ... `SweepEnds` are the
handlers and the long-dead cleanup, each followed by a reload of its own
(`ReadDir`, `ReadFile`, `Replace`), so reloads overlap.  `ReadFile` also quarantines a
long-dead seat.  `Resurrect`, `Ages` and `Restart` run beside.

**`GeminiSeat`** models one Antigravity seat: what the provider last said
(`TruthApplied`), its quota and model limits (`QuotaApplied`, `Limited`), what
requests saw (`Succeeded`, `Failed`), and whether it may be used (`Routable`,
`ModelLimited`).  Time passes in polls.  A snapshot is taken a little after the tick that
asks for it, so it ends in the course of a step (`Expires`), after the poller has
looked at the seat at the step's tick; a refresh may outlast its step, and a quota
snapshot has what its own date leaves of the window (`Snapshot`).  The truth poller (`PollerTick`, `RefreshLearns`, `RefreshTakes`,
`RefreshSaves`), an operator's smoke test, an import, a reload, hydration after a
start and `Restart` work on `Account` objects that a reload may have replaced.

`MCSeatPool`, `MCSeatReload`, `MCTokenRefresh`, `MCTokenStreams`, `MCSignIn`,
`MCGitLabCooldown`, `MCUsageLedger`, `MCSeatFiles` and `MCGeminiSeat` give the
constants values; `StreamDelivery` needs no such module.

## 4. Runs

| Run | Checks | Instance |
|---|---|---|
| `seat_pool` | `TypeOK`, `IdleSeatFirst`, `GivesUpOnlyWhenExhausted` | two local Codex seats that may cool down, an API key; a buffered request whose path the key does not serve, a direct one, a models fetch |
| `seat_reload` | `SeatAccounting`, `ClaimsBacked`, `EveryRequestEnds` | Claude, two GitLab Claude, Gemini; one reload or delete; buffered, direct, forced |
| `seat_phantom` | finds `RefusedDeleteMeansInUse` violated | as `seat_pool` |
| `token_refresh` | `TypeOK`, `NewestTokenKept`, `NoTokenReplay`, `RetryUsesNewerToken` | one Codex seat; a request, the poller, an operator; one failing write |
| `token_faults` | `SingleFlight`, `EveryWaiterTold` | one Gemini seat; two streamed requests; one fault: reload, restart, lost answer or failing write |
| `sign_in` | `TypeOK`, `OpenServersAccounted`, `IdleServersStop`, `SignsInOnce` | any two of an operator's and an admin's Codex session, a Claude and a Gemini session, all of one seat; two handlers |
| `gitlab_cooldown` | `TypeOK`, `TurnedAwayOnlyIfBlocked`, `CanariesSpaced`, `DeadSeatStaysDead`, `ScopeReopens` | two seats of one organisation, a request, canary, poller or operator; one restart |
| `usage_ledger` | `TypeOK`, `TotalsAgree`, `ReportsAddUp` | two accounts, a user, two requests (alike: symmetry), readings of both windows or of one; one reload |
| `stream_delivery` | `TypeOK`, `UsageInOneRecord`, `FailedNeverSucceeds`, `DeliveryEnds` | five kinds of response (plain Claude is GitLab's without the cut), five events in chunks of up to two, with and without a deadline |
| `seat_files` | `TypeOK`, `PoolIsTheFiles`, `DeletedStaysDeleted` | an OAuth seat, a GitLab seat, an API key; one request or poller and every handler |
| `gemini_seat` | `TypeOK`, `BlockedSeatRefused`, `StaleOnlyWhileRenewed`, `ModelLimitLastsItsTime` | one seat, one model, one request, two objects; one disturbance |
| `gemini_recovers` | `StaleSeatRecovers` | the same without requests, with every reply of the provider |

`sign_in` checks `SignsInOnce == Promised!Spec`: `SignIn` implements `SessionExchange`.

**Bounds.**  Every bound is a named constant.

- `SeatPool`: `MaxReloads` (Account generations).  Requests run once.  Three seats
  suffice for a busy one, an idle one and a fallback; three requests for a holder,
  a claimer and a chooser.  `MaxAttempts` is 1 because the contour raises it to the
  number of seats anyway.
- `TokenRefresh`: `MaxIssued` (token pairs of a seat: the first and one rotation, so
  that a used-up token exists), one forced refresh per seat, `MaxLost`, `MaxCrashes`,
  `MaxReloads`, and `MaxFaults` over all of them; `Losable` says which of answers
  and writes get lost.  Callers start again and again.
- `SignIn`: `MaxStarted`, two sessions, one to be claimed and one to begin, be swept
  or keep the servers open beside it; `MaxCopies`, two names of an account ID, 99 in
  the code, makes the last number reachable.
- `GitLabCooldown`: `MaxEvents` 2 (a request and a refresh, limit or restart that
  meets it), a cooldown of 2 ticks with the canary 1 ahead, retries 2 apart and
  timeout 1.  The canary itself is not bounded.
- `UsageLedger`: `MaxTime`, three hours over two days with a retention of none;
  `MaxLoads`, one reload; `Readings`, which has a rise, a fall and a missing window.
- `StreamDelivery`: `MaxEvents` 5 (a message with a block, a ping after it and one more
  event; or a start and its deltas), `MaxWire` 2 (a cut, a failure and a usage event
  may each be first or last of their chunk).
- `SeatFiles`: `MaxWork` 2 (a use and one operator action, or two actions, whose
  reloads may overlap), four slots for the pools still held, one new sign-in.
- `GeminiSeat`: `Disturbances` (reload, restart, import, smoke test) 1; the window of
  30 minutes is three polls of 10 in `gemini_seat` and two in `gemini_recovers`, and
  announced limits last one poll (`Longest`), so that a shorter wait after a longer one
  is left to the proof.  `Dates` are those of the fetch in `gemini_seat`; `gemini_recovers`
  adds a date that is over when the snapshot arrives.

`CHECK_DEADLOCK FALSE` stands where requests end or the bounded work runs out and
nothing else is bound to happen; `gitlab_cooldown`, `gemini_seat` and
`gemini_recovers` check for deadlock.

**Fairness.**  Weak fairness of each request's or caller's own step in `SeatPool`
and `TokenRefresh`: Go runs every goroutine, no step waits for a lock held across
a call, and HTTP calls end by an answer, an error, a timeout or the client hanging
up.  The exchange of `SignIn` has neither timeout nor context, so nothing is
assumed of it: handlers are fair from the provider's answer on, and so are the
goroutines that stop the loopback servers.  In `GitLabCooldown` the clock and the
canary go on (its calls have a timeout), and so do the parts of a request that
make no call.  In `StreamDelivery` the copy loop, the clock and the watchdog go on,
and the deadline of a request that has one passes; nothing is assumed of the
upstream, so `DeliveryEnds` speaks of streams and of requests with a deadline.  In `GeminiSeat` the ticker fires, time passes and calls end by their
timeouts; strong fairness says that a provider asked again and again some time
answers both calls of one refresh in full and of the day, without which no seat can
recover.
`UsageLedger` has safety properties only.  Nothing is assumed of operators and
reloads that nobody has begun.

**What `seat_phantom` shows.**  `fetchCodexModels` never gives back the `Inflight`
taken for it (codex_models.go:760), so the account can never be deleted
(operator_accounts.go:50 refuses an account with requests in flight).

The models also have these behaviours, although a document, comment or test
speaks against them; no run is spent on them.

- A used fallback key is handed out when no used local seat can be reused, before
  the scored choice sees local seats never used (pool.go:1655; pool_test.go:819).
- A request that asks for GitLab and ordinary seats can fail with a usable ordinary
  seat untried: an attempt that ends in a GitLab cooldown error uses up one of
  the attempts that are counted by seats (main.go:1365, :1594), so an ordinary seat
  that has recovered meanwhile is not tried again.
- A forced refresh beside a request's rotation is refused, probes the old access
  token and marks the seat dead with its new token in place (handlers.go:381;
  CHANGELOG.md:94).
- A save that read the fields earlier overwrites the file a refresh has written,
  `LastRefresh` with it (pool.go:2187; main.go:3484).
- Two sign-ins of one seat at a time leave two files (admin_codex.go:549, :538).
- The ping tail is cut although a second block is still open
  (response_usage_stream.go:70;
  docs/internal/GITLAB_CLAUDE_STREAM_VERIFY_MATRIX_20260330.md:71).  The chunk is
  written before it is scanned (sse.go:138), so what follows the ping in it reaches
  the client and is not looked at.
- A Gemini seat that the poller renews in time does get stale: its truth is checked
  a little after a tick (gemini_operator.go:585), so two ticks later it is not yet
  one interval from its end (:549), and it ends after the third tick, while the
  refresh is under way or waits for other seats.  CHANGELOG.md:101 says that ready
  seats no longer age out between ticks; `StaleOnlyWhileRenewed` says what is left of it.
- A window missing from an answer is stored as 0, and the next reading claims all of
  it; a late reading lowers what is stored, and the next one claims that use again
  (storage.go:141; the comment at :146 promises only increases).
- A request for a stream that is answered with JSON has neither deadline, which is
  chosen by the request (main.go:2505), nor watchdog, which is chosen by the
  response (main.go:1770): a silent upstream holds it until the client leaves.
- Two Claude events with usage make one record, whatever they are: a start with no
  input tokens and one delta leave nothing recorded, two deltas make a record
  without input, and a third waits for a partner that does not come
  (usage.go:145, :164; response_usage_stream.go:228).  Gemini's chunks, whose counts
  are cumulative, are a record each.
- A canary's own 429 plans the next canary and then wipes the plan in its note
  (claude_gitlab_recovery.go:421), so a shared-blocked scope may have none; it reopens
  by its deadline (`ScopeReopens`).
- Pruning stops at the first entry it keeps, and leaves old entries of accounts
  whose keys come later (storage.go:437; the keys are ordered by account first).
- A long-dead seat whose file is gone ends every cleanup at that seat, until
  something else reloads the pool (dead_cleanup.go:284).
- A Gemini quota that is full is kept as 100 % and the seat refused for it
  (gemini_operator.go:1463, pool.go:1121).

## 5. Proofs

Each theorem holds for every value of the constants that the named assumptions of
the module allow (`SelectionAssumption`, `RequestAssumption`, `RefreshAssumption`,
`SignInAssumption`, `DeliveryAssumption`, `LedgerAssumption`, `CooldownAssumption`, those of `GeminiSeat`):
finite sets where sets are counted, natural bounds, and of the cooldown that a
canary's timeout is shorter than its retry delay, as the source has it (20 s
against 30 s), and of the Gemini seat that the freshness window is longer than the
poll interval (30 min against 10).

`SeatPool_proofs` proves, for any finite sets of seats and requests and any
bounds, `TypeCorrect`, `InflightAccounted` and `ClaimsAccounted`: the type
invariant, `SeatAccounting` and `ClaimsBacked` of `Spec`.

The accounting invariants are not inductive alone.  `Inv` adds `Seated` (a request
that claims or holds has a seat and a generation no later than the current one)
and `ReloadRoom` (a running reload has a generation left to install).  The
argument: every action moves one request, and for the seat and generation it
works on either keeps the sets `Holders` and `Claimers`, or adds or removes just
that request (`HoldersMove`, `ClaimersMove`); a cardinality changes by one when
one element comes or goes (`OneElement`), so the counters balance (`Balanced`,
`ClaimsBalanced`).  A decrement never goes below zero because the request that
makes it is a holder.  One lemma per action says that it keeps `Inv`.

It also proves the two action properties of the pool.  `IdleSeatTakenFirst`
(`IdleSeatFirst`) compares what the selector counts, `inflight` and `pendingClaims`,
with who is at work on a seat.  `NotAhead` (no request works on an object of a
generation yet to come) and `Inv` make the two equal until the first reload
(`LoadedIsBusy`), and of the scored local seats the chosen one has the least load
(`LocalSeatLeastLoaded`).  `NoSeatLeftUntried` (`GivesUpOnlyWhenExhausted`) needs two
more invariants, checked by TLC first.  `UsedInOrder`: recency orders the used
seats, so that a finite set of candidates has a best one (`LeastExists`) and
selection answers nothing only if no usable seat is left (`UsableSeatIsFound`).
`ThoroughUntilReload`: a request excludes one more seat of its provider with every
attempt (`CandidateIsNew`), and what is left of the inner and the outer bound is
enough for the seats it has not tried (`BoundsReach`).  As first stated the property
was false: TLC shows a request for GitLab and ordinary seats whose attempts
are used up by cooldown errors (section 4).  It now speaks of requests without a
GitLab seat among their servers.

`TokenRefresh_proofs` proves, for any seats, callers and bounds, `TokensTyped` (the
type invariant) and `RefreshIsSingleFlight` (`SingleFlight`), from
`RefreshAssumption`.  `SingleFlight` is not inductive: that `Unregister` takes only
the leader's own entry out of `refreshCalls` needs to know that a caller past
the lock (`why = "force"`, an operator) never comes to `Unregister`, and that a save
leads back only where it came from, also when its write fails.  `Inv` adds this
as `Routes`, and `Registered` (a leading caller is the one `refreshCalls` names),
from which two leaders of a seat are one.  The argument: a caller's step leaves the other callers alone and
does not make it a leader (`OneCaller`), but for `Join`, which finds the entry empty
(`JoinLeads`), and `Unregister`, which empties the entry of a caller that then
stops leading (`UnregisterLeads`).

On top of `Inv`, a second inductive invariant, `Tokens`, gives `NewestTokenIsKept`
(`NewestTokenKept`), `NoTokenIsReplayed` (`NoTokenReplay`) and `RetriesAreNewer`
(`RetryUsesNewerToken`).  It was checked by TLC before it was proved.  While a seat
has one object (`gen = 0`), no token kept or refused is newer than the one the
provider issued last (`Known`), at most one caller is about to store a new one
(`OneStores`), and each caller's record says what it may still do (`Holding`): a
leader that asks has the newest token unless a forced refresh went by it.  Waiters
need more: refreshCalls names a leader of that seat (`Named`), and once the
leader a waiter waits for has stored a token, the token the waiter was refused
with is older (`Waits`); only so is a waiter's retry newer when it is told.  Most
steps change one caller and no token (`SameTokens`, `OthersWait`); the argument is in
`Rotates`, after which the newest token is with the caller alone, and `Store`,
which puts it on the object before anyone is told.

`SignIn_proofs` proves, for any sessions, lanes, handlers and bounds, `SignInTyped`,
`ExchangesApart`, `ClaimsNeverStranded` and `ServersAccounted`, from
`SignInAssumption`.  `Inv` adds to the properties `Matched` (a working handler's
Codex session is in flight or gone, its Gemini session gone, and its phase is
one of its lane), `NotYetStarted`, `CodexInFlight` and `OldInTable`.  The argument:
`Release` opens a session again, which is safe because no other handler has it;
a claim finds the session open, which `Matched` says no working handler has; a
session is only in flight while its claimer works, and every end of a Codex
handler lets it go or opens it.  Claude sessions are left out of
`OneExchangePerSession`: the code only looks them up.  The servers' account holds
because every step that may take the last operator session away adds a stop.
(`OneExchangePerSession` and `ClaimsHeld` are proved and not in a run: `SignsInOnce`
says more.)

The second part of `SignIn_proofs` is `SignInImplementsExchange`: every behaviour of `SignIn` is one
of `SessionExchange` (`SignsInOnce`).  Initial states map to initial states
(`InitRefines`), and each action to an action of `SessionExchange` or a stutter
(`NextRefines`), by one lemma per group of actions: changes of the tables to `Open` or
`Withdraw` (`TableRefines`), claims to `Claim`, answers and failures to `Exchange`, `Store`
and `Fail`, the handler's end to `Finish` or `Release`, and what a handler does
between them, and all of Claude's lane, to stutters (`GoingOnRefines`, `OtherLane`).  The invariant says who holds a session
(`Holder`), without which a step of one handler could change what the mapping says
of another's session.

`StreamDelivery_proofs` proves, for any kinds, timeouts and bounds, `DeliveryTyped`,
`FailureIsFinal` (`FailedNeverSucceeds`) and `UsageIsInOneRecord` (`UsageInOneRecord`).
What was sent and what was scanned differ while a chunk is worked through, so
`Inv` speaks of what was scanned: `failed` if and only if a failure is in it
(`Remembered`), and its usage is in records that share no event, or waits in
`claudeAccum` and came after all that is recorded (`Apportioned`; `Body` for what is
counted at the finalization).  `Ended` says how a copy may have ended and that nothing is
left unscanned then, unless the client left or the tail was cut; from it the two
properties follow for what was sent.

`UsageLedger_proofs` proves, for any accounts, users, requests and bounds,
`LedgerTyped`, `TotalsStayTogether` (`TotalsAgree`) and `ReportsStayWhole`
(`ReportsAddUp`).  `TotalsAgree` speaks of moments without a reload; `Inv` says for
every request that is neither lost nor overtaken where it is counted at each of its
steps and at each step of a reload (`Placed`): measured in memory and not yet in
the database, in both after its transaction, and in what a reload took over
exactly when the database has it.  For the reports, `Inv` adds that a request not
yet written is in none (`Reported`), so the transaction adds it once, to one hour
and one day, and a purge takes it from all of them.

That capacity samples claim no more than was used is neither checked nor proved: it
does not hold (section 4).

`GitLabCooldown_proofs` proves, for any seats, organisations, requests, waits and
delays, `CooldownTyped`, `TurnedAwayRightly`
(`TurnedAwayOnlyIfBlocked`) and two action properties, `CanariesAreSpaced`
(`CanariesSpaced`) and `DeadSeatIsNotRevived` (`DeadSeatStaysDead`).  The inductive
invariant was checked by TLC first, on one organisation and on part of two.
`CanariesSpaced` needs a bound for every planned canary (`DueLater`): it
comes after the retry delay, or its seat is still to be noted or cleared by the
canary under way (`Handled`); the queue holds one seat of a scope, due by that
bound, and none of the scope being asked (`Queued`).  Noting plans
`RetryDelay - elapsed` ahead, and `elapsed` is no more than the time since the canary
began, so the bound holds again when the seat is no longer `Handled`; anything else
that arms a seat resets the scope's clock, or only disarms it (`Makes`).
`TurnedAwayOnlyIfBlocked` needs `Watched`: a seat that was free all the time is one the
request has yet to look at, and looking at it ends the request's question
(`Looked`).  For `DeadSeatStaysDead` each kind of step is asked what it may revive
(`RequestRevives`, `CanaryRevives`, `OthersRevive`); that an answer under way was
checked while its seat was alive is part of the invariant.

`GeminiSeat_proofs` proves, for any models, requests, objects, replies of the
provider, windows and bounds, `SeatTyped`, `BlockedSeatIsRefused`
(`BlockedSeatRefused`), `KeptSeatIsRenewed` (`StaleOnlyWhileRenewed`) and the action property
`ModelLimitIsKept` (`ModelLimitLastsItsTime`).  One relation carries it: whatever a
request, the poller, a smoke test, an import or hydration writes to an object
`Follows` what was there: no snapshot gets older, no model's limit shorter, and the
flag goes with the reason.  `Inv` says of every object, of the file and of the text a
reload has read that a blocking reason has its flag (`Flagged`), what a refresh
that goes well has learned (`Learned`), and that a kept seat with no pass due or under
way has more than the step left (`Fresh`): a seat with less is refreshed at the tick,
or is no longer kept.  What brings back an older truth ends the keeping: a reload of an
older file (`Older`, which compares how long a seat stays fresh, as two reloads can bring
back a quota snapshot by way of an import without one), or a snapshot that the
provider dates back (`Outdated`, `Current`).

`SeatFiles_proofs` proves, for any seats, users, slots of loaded pools, sign-ins and
work, `FilesTyped`, `PoolFollowsFiles` (`PoolIsTheFiles`) and `DeletedSeatStaysAway`
(`DeletedStaysDeleted`).  `PoolIsTheFiles` speaks of quiet moments; `Inv` follows a change
of a file to the reload that takes it in.  A seat agrees with its file, or is in the
hands of a handler, cleanup or reload (`Handled`), or known to be astray (`Following`); a
reload holds what is in the files it has read, or knows that they changed
(`Reloading`, which is where overlapping reloads and quarantine at load meet); a mark of
the pool's object that its file has not is about to be saved or unsaved.  `InUse`
counts the users of each object of each pool, so that a user's object is still
there when it is marked, and so that a save has something to write.  `Replace` is the
step that needs all of it: the pool that comes in has been read file by file while
others wrote.  For `DeletedStaysDeleted` no save may have read the file of a deleted seat
(`StaysGone`).  The assumptions are `SeatFilesAssumption` and `NoObjectAssumption`: finitely
many users, slots that are numbers and have 1 among them, and markers (`NoObject`, `Torn`) that are no file and no object.
The invariant was checked by TLC first, exhaustively on the run's instance and by
simulation with two users.

Every invariant and every action property of a passing run is stated by a theorem.
Model-checked only: the liveness properties (`EveryRequestEnds`, `EveryWaiterTold`,
`IdleServersStop`, `ScopeReopens`, `DeliveryEnds`, `StaleSeatRecovers`), since TLAPS
proves neither liveness under fairness nor `ENABLED`.

## 6. Not modelled

Parts without a module, with the reason (the notes of the components in
`PROJECT.json` have more):

- request planning, admission and router, provider headers, OpenCode adapters and
  the Gemini facade: functions of one request, without state that steps change;
- status pages, frontend, metrics, tracing: they render; the status page's peek at
  the selector, which does change state, is in `SeatPool`;
- pool users, and the Gemini reset bundle: one lock around file I/O; what a reset
  does to the directory beside other requests is a hazard without a property;
- models cache: the seat its fetch takes is in `SeatPool`, the age of the list is
  not modelled; discovery of a gateway's models is not;
- configuration, TLS fingerprint, utilities, setup and support scripts.

Within the modelled parts: float scores, wording of errors, headers and bodies;
the OAuth profile fallback; GitLab's idempotent token exchange; saves whose
failure the code only logs; refreshes by administration and discovery handlers,
which pass by `refreshCalls` as the forced refresh does; a 401-retry of a buffered
request is checked for Codex seats only.  Of sign-in: the probe and quota snapshot
of a new Gemini seat, pasted auth files, loopback addresses that cannot be
bound, and crashes.  Of files: repairs `normalizeLoadedDeadState` makes beyond the
quarantine.  Of streams: WebSocket frames.  Of Gemini: seats of other OAuth
clients, which the poller skips.
