---------------------------- MODULE UsageLedger ----------------------------
(***************************************************************************)
(* The usage ledger (storage.go, usage_state.go, and the totals that       *)
(* usage.go and handlers.go keep beside it in memory).  Every answered     *)
(* request is counted in its Account object, measured against the          *)
(* account's last known percentage, and written to the database in one     *)
(* transaction.  The three steps of one request interleave with those of   *)
(* others, with a reload of the pool, which makes new Account objects and  *)
(* takes their totals from the old ones and then from the database, with   *)
(* a purge of users, with pruning and with a crash.                        *)
(*                                                                         *)
(* A total is the set of the requests counted in it: its tokens and its    *)
(* request count are sums over that set.  A reading is the percentages of  *)
(* the account's two windows that came with the answer, 0 for a window it  *)
(* did not carry; a time is a count of hours.                              *)
(***************************************************************************)
EXTENDS Integers, Sequences, Functions

CONSTANTS
    Accounts,      \* the accounts, in the order of their keys
    Users,         \* the users of the proxy
    Requests,      \* the answered requests, each counted once
    Retention,     \* the retention, in hours
    HoursPerDay,
    Readings,      \* the readings an answer can bring
    MaxTime,       \* bound: hours
    MaxLoads       \* bound: reloads

AccountSet == Range(Accounts)
Windows == {"primary", "secondary"}

ASSUME LedgerAssumption ==
    /\ IsInjective(Accounts) /\ Retention \in Nat /\ HoursPerDay \in Nat \ {0}
    /\ Readings \subseteq [Windows -> Nat]
    /\ MaxTime \in Nat /\ MaxLoads \in Nat

VARIABLES
    now,       \* the hour
    loads,     \* how many times the pool has been loaded again
    totals,    \* totals[g][a]: Account.Totals of the object the g-th load made
    last,      \* lastRateLimits: the last reading of each account that has one
    db,        \* the database
    req,       \* req[r]: the request's usage and how far its counting is
    reload,    \* where reloadAccounts is
    nextPrune, \* usageStore.nextPrune
    overtaken, \* requests that were being counted while a reload ran (history)
    lost       \* requests whose transaction failed, or that a crash cut off (history)

vars == <<now, loads, totals, last, db, req, reload, nextPrune, overtaken, lost>>

Periods == {"day", "hour"}
PeriodOf(p, t) == IF p = "day" THEN t \div HoursPerDay ELSE t
NoUser == "none"
NoDelta == [w \in Windows |-> 0]
Days == 0 .. PeriodOf("day", MaxTime)
Buckets == {b \in Periods \X (0 .. MaxTime) : b[1] = "day" => b[2] \in Days}
BucketOf(p, t) == <<p, PeriodOf(p, t)>>

Init ==
    /\ now = 0 /\ loads = 0
    /\ totals = [g \in 0 .. MaxLoads |-> [a \in AccountSet |-> {}]]
    /\ last = <<>>
    /\ db = [requests |-> {},
             account |-> [a \in AccountSet |-> {}],
             user |-> [u \in Users |-> {}],
             bucket |-> [u \in Users |-> [b \in Buckets |-> {}]],
             global |-> [t \in 0 .. MaxTime |-> {}],
             capacity |-> [a \in AccountSet |-> NoDelta]]
    /\ req = [r \in Requests |-> [pc |-> "idle"]]
    /\ reload = [pc |-> "idle"]
    /\ nextPrune = 1
    /\ overtaken = {} /\ lost = {}

-----------------------------------------------------------------------------
(* One request.                                                            *)

Counting(r) == req[r].pc \in {"answered", "measured"}

(* The answer's usage is parsed: enrichUsageRecord names account and user. *)
(* Its reading may be older than one measured before, and a window may be  *)
(* missing from it.                                                        *)
Answered(r, a, u, reading, billable) ==
    /\ req[r].pc = "idle"
    /\ req' = [req EXCEPT ![r] =
                  [pc |-> "answered", account |-> a, user |-> u, gen |-> loads,
                   time |-> now, reading |-> reading, billable |-> billable,
                   delta |-> NoDelta]]
    /\ overtaken' = IF reload.pc = "idle" THEN overtaken ELSE overtaken \cup {r}
    /\ UNCHANGED <<now, loads, totals, last, db, reload, nextPrune, lost>>

(* Mutant: a fall counts too.                                              *)
DeltaSigned(a, reading) ==
    [w \in Windows |-> IF a \in DOMAIN last THEN reading[w] - last[a][w] ELSE 0]

(* What a reading adds to the account's last one, window by window.  A     *)
(* window missing from the last reading was stored as 0, so it adds all    *)
(* it has.                                                                 *)
Delta(a, reading) ==
    [w \in Windows |-> IF a \in DOMAIN last /\ reading[w] >= last[a][w]
                       THEN reading[w] - last[a][w] ELSE 0]

Positive(reading) == \E w \in Windows : reading[w] > 0

(* recordUsage up to the transaction: applyRequestUsage adds the request to *)
(* the Account object that served it, usageStore.record measures it.       *)
Count(r) ==
    LET q == req[r] IN
    /\ q.pc = "answered"
    /\ totals' = [totals EXCEPT ![q.gen][q.account] = @ \cup {r}]
    /\ req' = [req EXCEPT ![r].pc = "measured",
                          ![r].delta = IF Positive(q.reading) THEN Delta(q.account, q.reading)
                                       ELSE NoDelta]
    /\ last' = IF Positive(q.reading)
               THEN [a \in DOMAIN last \cup {q.account} |->
                        IF a = q.account THEN q.reading ELSE last[a]]
               ELSE last
    /\ UNCHANGED <<now, loads, db, reload, nextPrune, overtaken, lost>>

(* What is left of a request once it is measured and written.              *)
Over(pc) == [pc |-> pc]

(* The aggregates one transaction updates for a request.                   *)
AccountAggregate(r) == [db.account EXCEPT ![req[r].account] = @ \cup {r}]
UserAggregate(r) ==
    IF req[r].user = NoUser THEN db.user ELSE [db.user EXCEPT ![req[r].user] = @ \cup {r}]

(* Mutant: an hour is never put together with what was there.              *)
BucketAggregateOverwrites(r) ==
    IF req[r].user = NoUser THEN db.bucket
    ELSE [db.bucket EXCEPT ![req[r].user] =
             [b \in Buckets |-> IF b \in {BucketOf(p, req[r].time) : p \in Periods}
                                THEN {r} ELSE @[b]]]

BucketAggregate(r) ==
    IF req[r].user = NoUser THEN db.bucket
    ELSE [db.bucket EXCEPT ![req[r].user] =
             [b \in Buckets |-> IF b \in {BucketOf(p, req[r].time) : p \in Periods}
                                THEN @[b] \cup {r} ELSE @[b]]]
GlobalAggregate(r) ==
    IF req[r].user = NoUser THEN db.global ELSE [db.global EXCEPT ![req[r].time] = @ \cup {r}]

(* The plan's capacity: what updatePlanCapacity adds up, here by account,  *)
(* of a request that was billed and moved a window.                        *)
CapacityAggregate(r) ==
    IF req[r].billable /\ Positive(req[r].delta)
    THEN [db.capacity EXCEPT ![req[r].account] = [w \in Windows |-> @[w] + req[r].delta[w]]]
    ELSE db.capacity

Store(r) ==
    /\ req[r].pc = "measured"
    /\ db' = [requests |-> db.requests \cup {<<req[r].account, req[r].time, r>>},
              account |-> AccountAggregate(r), user |-> UserAggregate(r),
              bucket |-> BucketAggregate(r), global |-> GlobalAggregate(r),
              capacity |-> CapacityAggregate(r)]
    /\ req' = [req EXCEPT ![r] = Over(IF now >= nextPrune THEN "pruning" ELSE "done")]
    /\ UNCHANGED <<now, loads, totals, last, reload, nextPrune, overtaken, lost>>

(* The transaction fails; recordUsage drops the error.                     *)
StoreFails(r) ==
    /\ req[r].pc = "measured"
    /\ req' = [req EXCEPT ![r] = Over("done")]
    /\ lost' = lost \cup {r}
    /\ UNCHANGED <<now, loads, totals, last, db, reload, nextPrune, overtaken>>

(* The keys are ordered by account and then by time.                       *)
Rank(a) == CHOOSE i \in DOMAIN Accounts : Accounts[i] = a
Before(j, k) == Rank(j[1]) < Rank(k[1]) \/ (j[1] = k[1] /\ j[2] <= k[2])
Stale(k) == k[2] + Retention < now

(* prune deletes up to the first key that is not stale.                    *)
Prune(r) ==
    /\ req[r].pc = "pruning"
    /\ db' = [db EXCEPT !.requests =
                 @ \ {k \in @ : \A j \in @ : Before(j, k) => Stale(j)}]
    /\ req' = [req EXCEPT ![r] = Over("done")]
    /\ nextPrune' = now + 1
    /\ UNCHANGED <<now, loads, totals, last, reload, overtaken, lost>>

-----------------------------------------------------------------------------
(* reloadAccounts, a restart, and the rest.                                *)

Overtakes == overtaken' = overtaken \cup {r \in Requests : Counting(r)}

(* runtimeStateByID, account by account.                                   *)
ReloadBegins ==
    /\ reload.pc = "idle" /\ loads < MaxLoads
    /\ reload' = [pc |-> "load", state |-> totals[loads]]
    /\ Overtakes
    /\ UNCHANGED <<now, loads, totals, last, db, req, nextPrune, lost>>

(* loadPool, applyRuntimeState and replace: the new objects are routed to. *)
ReloadReplaces ==
    /\ reload.pc = "load"
    /\ loads' = loads + 1
    /\ totals' = [totals EXCEPT ![loads + 1] = reload.state]
    /\ reload' = [pc |-> "read"]
    /\ UNCHANGED <<now, last, db, req, nextPrune, overtaken, lost>>

(* loadAllAccountUsage                                                     *)
ReloadReads ==
    /\ reload.pc = "read"
    /\ reload' = [pc |-> "restore", state |-> db.account, next |-> 1]
    /\ UNCHANGED <<now, loads, totals, last, db, req, nextPrune, overtaken, lost>>

(* The totals found are assigned, one account lock after the other.         *)
ReloadRestores ==
    /\ reload.pc = "restore"
    /\ LET acct == Accounts[reload.next] IN
       totals' = IF reload.state[acct] = {} THEN totals
                 ELSE [totals EXCEPT ![loads][acct] = reload.state[acct]]
    /\ reload' = IF reload.next = Len(Accounts) THEN [pc |-> "idle"]
                 ELSE [reload EXCEPT !.next = @ + 1]
    /\ UNCHANGED <<now, loads, last, db, req, nextPrune, overtaken, lost>>

(* purgeNonPoolUsers: the totals over all users keep what it deletes.      *)
Purge(kept) ==
    /\ db' = [db EXCEPT !.user = [u \in Users |-> IF u \in kept THEN @[u] ELSE {}],
                        !.bucket = [u \in Users |-> IF u \in kept THEN @[u]
                                                    ELSE [b \in Buckets |-> {}]]]
    /\ db' # db
    /\ UNCHANGED <<now, loads, totals, last, req, reload, nextPrune,
                   overtaken, lost>>

(* Mutant: the pool starts with empty totals.                              *)
RestoredNothing == [a \in AccountSet |-> {}]

(* restorePersistedUsageState, of the totals                               *)
Restored == db.account

Restart ==
    /\ loads < MaxLoads
    /\ loads' = loads + 1
    /\ totals' = [totals EXCEPT ![loads + 1] = Restored]
    /\ last' = <<>>
    /\ lost' = lost \cup {r \in Requests : Counting(r)}
    /\ req' = [r \in Requests |-> IF req[r].pc = "idle" THEN req[r] ELSE Over("done")]
    /\ reload' = [pc |-> "idle"]
    /\ nextPrune' = now + 1
    /\ UNCHANGED <<now, db, overtaken>>

(* An hour goes by.                                                        *)
Hour ==
    /\ now < MaxTime
    /\ now' = now + 1
    /\ UNCHANGED <<loads, totals, last, db, req, reload, nextPrune, overtaken, lost>>

Next ==
    \/ \E r \in Requests :
          \/ \E a \in AccountSet, u \in Users \cup {NoUser}, reading \in Readings, b \in BOOLEAN :
                Answered(r, a, u, reading, b)
          \/ Count(r) \/ Store(r) \/ StoreFails(r) \/ Prune(r)
    \/ ReloadBegins \/ ReloadReplaces \/ ReloadReads \/ ReloadRestores
    \/ \E kept \in SUBSET Users : Purge(kept)
    \/ Restart \/ Hour

Spec == Init /\ [][Next]_vars

-----------------------------------------------------------------------------
TypeOK ==
    /\ now \in 0 .. MaxTime /\ loads \in 0 .. MaxLoads
    /\ totals \in [0 .. MaxLoads -> [AccountSet -> SUBSET Requests]]
    /\ DOMAIN last \subseteq AccountSet /\ \A a \in DOMAIN last : last[a] \in Readings
    /\ db.account \in [AccountSet -> SUBSET Requests]
    /\ db.user \in [Users -> SUBSET Requests]
    /\ db.bucket \in [Users -> [Buckets -> SUBSET Requests]]
    /\ db.capacity \in [AccountSet -> [Windows -> Nat]]

(* What the pool shows of an account and what the database has differ only *)
(* by requests that are still being counted, by ones whose transaction was *)
(* lost, and by ones that were being counted while a reload ran            *)
(* (usage.go:391, handlers.go:258).                                        *)
TotalsAgree ==
    reload.pc = "idle" =>
        \A a \in AccountSet :
            LET shown == totals[loads][a]
                kept == db.account[a]
            IN  (shown \ kept) \cup (kept \ shown) \subseteq
                    {r \in Requests : Counting(r)} \cup lost \cup overtaken

(* The daily and hourly reports of a user add up to the user's total, also *)
(* when a purge falls between two of the user's requests or while one is   *)
(* being counted, and the hours over all users have them too               *)
(* (storage.go:204).                                                       *)
ReportsAddUp ==
    \A u \in Users, p \in Periods :
        /\ db.user[u] = UNION {db.bucket[u][b] : b \in {c \in Buckets : c[1] = p}}
        /\ \A t \in 0 .. MaxTime : db.bucket[u][<<"hour", t>>] \subseteq db.global[t]
        /\ \A b, c \in Buckets :
              b[1] = c[1] /\ b # c => db.bucket[u][b] \cap db.bucket[u][c] = {}
=============================================================================
