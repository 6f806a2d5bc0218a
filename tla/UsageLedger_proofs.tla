------------------------ MODULE UsageLedger_proofs ------------------------
(***************************************************************************)
(* For any accounts, users, requests and bounds: the ledger keeps its      *)
(* types, the pool's totals and the database's agree, and the reports of a *)
(* user add up to the user's total.                                        *)
(***************************************************************************)
EXTENDS UsageLedger, TLAPS

Totals == [AccountSet -> SUBSET Requests]
Database == [requests : SUBSET (AccountSet \X (0 .. MaxTime) \X Requests),
             account : Totals, user : [Users -> SUBSET Requests],
             bucket : [Users -> [Buckets -> SUBSET Requests]],
             global : [0 .. MaxTime -> SUBSET Requests],
             capacity : [AccountSet -> [Windows -> Nat]]]

(* A request that is being counted.                                        *)
Going(q) ==
  q \in [pc : {"answered", "measured"}, account : AccountSet, user : Users \cup {NoUser},
         gen : 0 .. MaxLoads, time : 0 .. MaxTime, reading : Readings, billable : BOOLEAN,
         delta : [Windows -> Nat]]

(* A reload has what it took, and room for the objects it will make.       *)
Reloading(l) ==
  \/ l.pc \in {"idle", "read"}
  \/ l.pc = "load" /\ l.state \in Totals
  \/ l \in [pc : {"restore"}, state : Totals, next : {l.next}]

(* The last readings of some of the accounts.                              *)
Measures(l) == DOMAIN l \subseteq AccountSet /\ \A a \in DOMAIN l : l[a] \in Readings

Typed ==
  /\ now \in 0 .. MaxTime /\ loads \in 0 .. MaxLoads
  /\ totals \in [0 .. MaxLoads -> Totals]
  /\ Measures(last)
  /\ db \in Database
  /\ DOMAIN req = Requests
  /\ \A r \in Requests : /\ req[r].pc \in {"idle", "answered", "measured", "pruning", "done"}
                         /\ Counting(r) => Going(req[r])
  /\ Reloading(reload) /\ (reload.pc = "load" => loads < MaxLoads)

(* Where a request is that no reload has overtaken and that is not lost.   *)
Placed(r) ==
  /\ reload.pc # "idle" => ~Counting(r)
  /\ req[r].pc \in {"idle", "answered"} => \A a \in AccountSet : r \notin totals[loads][a]
  /\ req[r].pc \in {"idle", "answered", "measured"} =>
        \A a \in AccountSet : r \notin db.account[a]
  /\ Counting(r) => req[r].gen = loads
  /\ req[r].pc = "measured" =>
        \A a \in AccountSet : r \in totals[loads][a] <=> a = req[r].account
  /\ req[r].pc \in {"pruning", "done"} =>
        \A a \in AccountSet : r \in totals[loads][a] <=> r \in db.account[a]
  /\ reload.pc \in {"load", "restore"} =>
        \A a \in AccountSet : r \in reload.state[a] <=> r \in db.account[a]

Agree == \A r \in Requests \ (lost \cup overtaken) : Placed(r)

(* The reports, request by request; one not yet written is in none.        *)
Reported ==
  /\ \A u \in Users, p \in Periods, r \in Requests :
        r \in db.user[u] <=> \E b \in Buckets : b[1] = p /\ r \in db.bucket[u][b]
  /\ \A u \in Users, t \in 0 .. MaxTime : db.bucket[u][<<"hour", t>>] \subseteq db.global[t]
  /\ \A u \in Users, b, c \in Buckets :
        b[1] = c[1] /\ b # c => db.bucket[u][b] \cap db.bucket[u][c] = {}
  /\ \A u \in Users, r \in Requests :
        req[r].pc \in {"idle", "answered", "measured"} => r \notin db.user[u]

Inv == Typed /\ Agree /\ Reported

(* A number of hours has its day within the days of the bound.             *)
LEMMA DayInRange ==
  ASSUME NEW m \in Nat, NEW t \in 0 .. m, NEW h \in Nat \ {0}
  PROVE  /\ t \div h \in 0 .. (m \div h)
         /\ t \div h \in 0 .. m
<1>1. /\ t \div h \in Int /\ m \div h \in Int
      /\ h * (t \div h) <= t /\ t < h * (t \div h) + h
      /\ h * (m \div h) <= m /\ m < h * (m \div h) + h
  OBVIOUS
<1> DEFINE x == t \div h
           y == m \div h
<1>2. x \in Int /\ y \in Int /\ h * x <= t /\ t < h * x + h /\ h * y <= m /\ m < h * y + h
  BY <1>1
<1> HIDE DEF x, y
<1>3. x >= 0
  BY <1>2
<1>4. x <= y
  BY <1>2
<1>5. x <= t
  BY <1>2, <1>3
<1>6. QED
  BY <1>2, <1>3, <1>4, <1>5 DEF x, y

LEMMA BucketInRange ==
  ASSUME NEW p \in Periods, NEW t \in 0 .. MaxTime
  PROVE  BucketOf(p, t) \in Buckets /\ BucketOf(p, t)[1] = p
<1>1. CASE p = "day"
  <2>1. t \div HoursPerDay \in 0 .. (MaxTime \div HoursPerDay) /\ t \div HoursPerDay \in 0 .. MaxTime
    BY DayInRange, LedgerAssumption
  <2>2. QED
    BY <1>1, <2>1 DEF BucketOf, Buckets, PeriodOf, Days, Periods
<1>2. CASE p = "hour"
  BY <1>2 DEF BucketOf, Buckets, PeriodOf, Days, Periods
<1>3. QED
  BY <1>1, <1>2 DEF Periods

LEMMA HourBucket ==
  ASSUME NEW t \in 0 .. MaxTime
  PROVE  <<"hour", t>> \in Buckets
BY DEF Buckets, Periods

LEMMA Initially == Init => Inv
<1> SUFFICES ASSUME Init PROVE Inv
  OBVIOUS
<1>1. Typed
  BY LedgerAssumption
  DEF Init, Typed, Database, Totals, Counting, Reloading, Measures, NoDelta
<1>2. Agree
  <2>1. \A a \in AccountSet : totals[loads][a] = {} /\ db.account[a] = {}
    BY LedgerAssumption DEF Init
  <2>2. QED
    BY <2>1 DEF Init, Agree, Placed, Counting
<1>3. Reported
  <2>1. \A u \in Users : db.user[u] = {} /\ \A b \in Buckets : db.bucket[u][b] = {}
    BY DEF Init
  <2>2. \A t \in 0 .. MaxTime : <<"hour", t>> \in Buckets
    BY HourBucket
  <2>3. QED
    BY <2>1, <2>2 DEF Reported
<1>4. QED
  BY <1>1, <1>2, <1>3 DEF Inv

-----------------------------------------------------------------------------
(* One request.  The others are left where they are.                       *)
OthersStay(r) == \A p \in Requests \ {r} : req'[p] = req[p]

LEMMA AnsweredKeeps ==
  ASSUME Inv, NEW r \in Requests, NEW a \in AccountSet, NEW u \in Users \cup {NoUser},
         NEW reading \in Readings, NEW b \in BOOLEAN, Answered(r, a, u, reading, b)
  PROVE  Inv'
<1>1. /\ req[r].pc = "idle" /\ DOMAIN req' = Requests /\ OthersStay(r)
      /\ req'[r] = [pc |-> "answered", account |-> a, user |-> u, gen |-> loads,
                    time |-> now, reading |-> reading, billable |-> b,
                    delta |-> NoDelta]
      /\ UNCHANGED <<now, loads, totals, last, db, reload, lost>>
  BY DEF Answered, Inv, Typed, OthersStay
<1>2. NoDelta \in [Windows -> Nat]
  BY DEF NoDelta
<1>3. Typed'
  <2>1. Going(req[r])'
    BY <1>1, <1>2 DEF Going, Inv, Typed
  <2>2. \A p \in Requests :
           /\ req'[p].pc \in {"idle", "answered", "measured", "pruning", "done"}
           /\ Counting(p)' => Going(req[p])'
    BY <1>1, <2>1 DEF OthersStay, Counting, Inv, Typed, Going
  <2>3. QED
    BY <1>1, <1>2, <2>2 DEF Inv, Typed, Reloading, Totals
<1>4. Agree'
  <2> SUFFICES ASSUME NEW p \in Requests, p \notin lost', p \notin overtaken'
               PROVE  Placed(p)'
    BY DEF Agree
  <2>1. p \notin lost /\ p \notin overtaken /\ Placed(p)
    BY <1>1 DEF Answered, Inv, Agree
  <2>2. CASE p = r
    <3>1. reload.pc = "idle"
      BY <2>2 DEF Answered
    <3>2. QED
      BY <1>1, <2>1, <2>2, <3>1 DEF Placed, Counting
  <2>3. CASE p # r
    BY <1>1, <2>1, <2>3 DEF Placed, Counting, OthersStay
  <2>4. QED
    BY <2>2, <2>3
<1>5. Reported'
  BY <1>1 DEF Reported, Inv, OthersStay
<1>6. QED
  BY <1>3, <1>4, <1>5 DEF Inv

LEMMA CountKeeps == ASSUME Inv, NEW r \in Requests, Count(r) PROVE Inv'
<1> DEFINE q == req[r]
<1>1. /\ q.pc = "answered" /\ Going(q)
      /\ UNCHANGED <<now, loads, db, reload, overtaken, lost>>
      /\ totals' = [totals EXCEPT ![q.gen][q.account] = @ \cup {r}]
      /\ last' = IF Positive(q.reading)
                 THEN [a \in DOMAIN last \cup {q.account} |->
                         IF a = q.account THEN q.reading ELSE last[a]]
                 ELSE last
      /\ DOMAIN req' = Requests /\ OthersStay(r)
      /\ req'[r] = [q EXCEPT !.pc = "measured",
                             !.delta = IF Positive(q.reading) THEN Delta(q.account, q.reading)
                                       ELSE NoDelta]
  BY DEF Count, Counting, Inv, Typed, OthersStay
<1>2. q.account \in AccountSet /\ q.reading \in Readings /\ q.gen \in 0 .. MaxLoads
  BY <1>1 DEF Going
<1>3. NoDelta \in [Windows -> Nat] /\ Delta(q.account, q.reading) \in [Windows -> Nat]
  <2>1. \A w \in Windows : q.reading[w] \in Nat
    BY <1>2, LedgerAssumption
  <2>2. \A a \in DOMAIN last : \A w \in Windows : last[a][w] \in Nat
    BY LedgerAssumption DEF Inv, Typed, Measures
  <2>3. QED
    BY <2>1, <2>2 DEF Delta, NoDelta
<1>4. /\ Going(req'[r]) /\ req'[r].pc = "measured"
      /\ req'[r].account = q.account /\ req'[r].gen = q.gen
  BY <1>1, <1>3 DEF Going
<1>5. \A g \in 0 .. MaxLoads, a \in AccountSet :
         totals'[g][a] = IF g = q.gen /\ a = q.account THEN totals[g][a] \cup {r}
                         ELSE totals[g][a]
  BY <1>1, <1>2 DEF Inv, Typed, Totals
<1> HIDE DEF q
<1>6. totals' \in [0 .. MaxLoads -> Totals]
  <2>1. \A g \in 0 .. MaxLoads : totals[g] \in Totals
    BY DEF Inv, Typed
  <2>2. totals[q.gen][q.account] \cup {r} \in SUBSET Requests
    BY <1>2, <2>1 DEF Totals
  <2>3. [totals[q.gen] EXCEPT ![q.account] = totals[q.gen][q.account] \cup {r}] \in Totals
    BY <1>2, <2>1, <2>2 DEF Totals
  <2>4. QED
    BY <1>1, <1>2, <2>3 DEF Inv, Typed
<1>7. Typed'
  <2>1. Measures(last')
    BY <1>1, <1>2 DEF Inv, Typed, Measures
  <2>2. \A p \in Requests :
           /\ req'[p].pc \in {"idle", "answered", "measured", "pruning", "done"}
           /\ Counting(p)' => Going(req[p])'
    BY <1>1, <1>4 DEF OthersStay, Counting, Inv, Typed, Going
  <2>3. QED
    BY <1>1, <1>6, <2>1, <2>2 DEF Inv, Typed, Reloading, Totals
<1>8. Agree'
  <2> SUFFICES ASSUME NEW p \in Requests, p \notin lost', p \notin overtaken'
               PROVE  Placed(p)'
    BY DEF Agree
  <2>1. Placed(p) /\ loads \in 0 .. MaxLoads
    BY <1>1 DEF Inv, Agree, Typed
  <2>2. CASE p = r
    <3>1. q.gen = loads /\ reload.pc = "idle"
      BY <1>1, <2>1, <2>2 DEF Placed, Counting, q
    <3>2. \A a \in AccountSet : r \notin totals[loads][a] /\ r \notin db.account[a]
      BY <1>1, <2>1, <2>2 DEF Placed, q
    <3>3. \A a \in AccountSet : r \in totals'[loads][a] <=> a = q.account
      BY <1>5, <2>1, <3>1, <3>2
    <3>4. QED
      BY <1>1, <1>4, <2>2, <3>1, <3>2, <3>3 DEF Placed, Counting
  <2>3. CASE p # r
    <3>1. req'[p] = req[p] /\ \A a \in AccountSet : p \in totals'[loads][a] <=> p \in totals[loads][a]
      BY <1>1, <1>5, <2>1, <2>3 DEF OthersStay
    <3>2. QED
      BY <1>1, <2>1, <3>1 DEF Placed, Counting
  <2>4. QED
    BY <2>2, <2>3
<1>9. Reported'
  BY <1>1, <1>4 DEF Reported, Inv, OthersStay, q
<1>10. QED
  BY <1>7, <1>8, <1>9 DEF Inv

(* A database transaction keeps the types.                                  *)
LEMMA StoreTyped ==
  ASSUME Inv, NEW r \in Requests, Store(r)
  PROVE  /\ db' \in Database
         /\ db'.account = AccountAggregate(r) /\ db'.user = UserAggregate(r)
         /\ db'.bucket = BucketAggregate(r) /\ db'.global = GlobalAggregate(r)
<1> DEFINE q == req[r]
<1>1. q.account \in AccountSet /\ q.user \in Users \cup {NoUser} /\ q.time \in 0 .. MaxTime
      /\ q.delta \in [Windows -> Nat]
  BY DEF Store, Inv, Typed, Counting, Going
<1>2. /\ db.requests \in SUBSET (AccountSet \X (0 .. MaxTime) \X Requests)
      /\ db.account \in Totals /\ db.user \in [Users -> SUBSET Requests]
      /\ db.bucket \in [Users -> [Buckets -> SUBSET Requests]]
      /\ db.global \in [0 .. MaxTime -> SUBSET Requests]
      /\ db.capacity \in [AccountSet -> [Windows -> Nat]]
  BY DEF Inv, Typed, Database
<1>3. AccountAggregate(r) \in Totals
  BY <1>1, <1>2 DEF AccountAggregate, Totals
<1>4. UserAggregate(r) \in [Users -> SUBSET Requests]
  BY <1>1, <1>2 DEF UserAggregate
<1>5. BucketAggregate(r) \in [Users -> [Buckets -> SUBSET Requests]]
  <2>1. CASE q.user = NoUser
    BY <1>2, <2>1 DEF BucketAggregate
  <2>2. CASE q.user # NoUser
    <3> DEFINE mine == [b \in Buckets |-> IF b \in {BucketOf(p, q.time) : p \in Periods}
                                          THEN db.bucket[q.user][b] \cup {r}
                                          ELSE db.bucket[q.user][b]]
    <3>1. \A b \in Buckets : db.bucket[q.user][b] \in SUBSET Requests
      BY <1>1, <1>2, <2>2
    <3>2. mine \in [Buckets -> SUBSET Requests]
      BY <3>1
    <3>3. BucketAggregate(r) = [db.bucket EXCEPT ![q.user] = mine]
      BY <2>2 DEF BucketAggregate
    <3> HIDE DEF mine
    <3>4. QED
      BY <1>2, <3>2, <3>3
  <2>3. QED
    BY <2>1, <2>2
<1>6. GlobalAggregate(r) \in [0 .. MaxTime -> SUBSET Requests]
  BY <1>1, <1>2 DEF GlobalAggregate
<1>7. CapacityAggregate(r) \in [AccountSet -> [Windows -> Nat]]
  <2>1. db.capacity[q.account] \in [Windows -> Nat]
    BY <1>1, <1>2
  <2>2. [w \in Windows |-> db.capacity[q.account][w] + q.delta[w]] \in [Windows -> Nat]
    BY <1>1, <2>1
  <2>3. QED
    BY <1>1, <1>2, <2>2 DEF CapacityAggregate
<1>8. db.requests \cup {<<q.account, q.time, r>>} \in
         SUBSET (AccountSet \X (0 .. MaxTime) \X Requests)
  BY <1>1, <1>2
<1>9. db' = [requests |-> db.requests \cup {<<q.account, q.time, r>>},
             account |-> AccountAggregate(r), user |-> UserAggregate(r),
             bucket |-> BucketAggregate(r), global |-> GlobalAggregate(r),
             capacity |-> CapacityAggregate(r)]
  BY DEF Store
<1> HIDE DEF q
<1>10. QED
  BY <1>3, <1>4, <1>5, <1>6, <1>7, <1>8, <1>9 DEF Database

(* A request written is in the reports of its user, in one bucket of each   *)
(* period.                                                                  *)
LEMMA StoreReported == ASSUME Inv, NEW r \in Requests, Store(r) PROVE Reported'
<1> DEFINE q == req[r]
<1>1. q.pc = "measured" /\ q.user \in Users \cup {NoUser} /\ q.time \in 0 .. MaxTime
  BY DEF Store, Inv, Typed, Counting, Going
<1>2. OthersStay(r) /\ req'[r].pc \in {"pruning", "done"}
  BY DEF Store, Inv, Typed, OthersStay, Over
<1>3. /\ db'.user = UserAggregate(r) /\ db'.bucket = BucketAggregate(r)
      /\ db'.global = GlobalAggregate(r)
  BY StoreTyped
<1>4. CASE q.user = NoUser
  <2>1. db'.user = db.user /\ db'.bucket = db.bucket /\ db'.global = db.global
    BY <1>3, <1>4 DEF UserAggregate, BucketAggregate, GlobalAggregate
  <2>2. QED
    BY <1>1, <1>2, <2>1 DEF Inv, Reported, OthersStay, q
<1>5. CASE q.user # NoUser
  <2> DEFINE here == {BucketOf(p, q.time) : p \in Periods}
  <2>1. \A p \in Periods : /\ BucketOf(p, q.time) \in Buckets
                           /\ \A b \in here : b[1] = p <=> b = BucketOf(p, q.time)
    BY <1>1, BucketInRange
  <2>2. BucketOf("hour", q.time) = <<"hour", q.time>>
    BY DEF BucketOf, PeriodOf
  <2>3. q.user \in Users
    BY <1>1, <1>5
  <2>4. /\ db.user \in [Users -> SUBSET Requests]
        /\ db.bucket \in [Users -> [Buckets -> SUBSET Requests]]
        /\ db.global \in [0 .. MaxTime -> SUBSET Requests]
    BY DEF Inv, Typed, Database
  <2>5. \A u \in Users : db'.user[u] = IF u = q.user THEN db.user[u] \cup {r} ELSE db.user[u]
    BY <1>3, <1>5, <2>4 DEF UserAggregate
  <2>6. \A u \in Users, b \in Buckets :
           db'.bucket[u][b] = IF u = q.user /\ b \in here THEN db.bucket[u][b] \cup {r}
                              ELSE db.bucket[u][b]
    <3> DEFINE mine == [b \in Buckets |-> IF b \in here THEN db.bucket[q.user][b] \cup {r}
                                          ELSE db.bucket[q.user][b]]
    <3>1. db'.bucket = [db.bucket EXCEPT ![q.user] = mine]
      BY <1>3, <1>5 DEF BucketAggregate
    <3>2. \A b \in Buckets : mine[b] = IF b \in here THEN db.bucket[q.user][b] \cup {r}
                                       ELSE db.bucket[q.user][b]
      OBVIOUS
    <3> HIDE DEF mine, here
    <3>3. QED
      BY <2>3, <2>4, <3>1, <3>2
  <2>7. \A t \in 0 .. MaxTime :
           db'.global[t] = IF t = q.time THEN db.global[t] \cup {r} ELSE db.global[t]
    BY <1>3, <1>5, <2>4 DEF GlobalAggregate
  <2>8. \A u \in Users : r \notin db.user[u] /\ \A b \in Buckets : r \notin db.bucket[u][b]
    <3>1. \A u \in Users : r \notin db.user[u]
      BY <1>1 DEF Inv, Reported
    <3>2. \A b \in Buckets : b[1] \in Periods
      BY DEF Buckets
    <3>3. QED
      BY <3>1, <3>2 DEF Inv, Reported
  <2> HIDE DEF here, q
  <2>8a. \A u \in Users, b \in Buckets : \A x :
            x \in db'.bucket[u][b] <=>
               x \in db.bucket[u][b] \/ (u = q.user /\ b \in here /\ x = r)
    <3> TAKE u \in Users, b \in Buckets
    <3> TAKE x
    <3>1. CASE u = q.user /\ b \in here
      <4>1. db'.bucket[u][b] = db.bucket[u][b] \cup {r}
        BY <2>6, <3>1
      <4>2. QED
        BY <3>1, <4>1
    <3>2. CASE ~(u = q.user /\ b \in here)
      <4>1. db'.bucket[u][b] = db.bucket[u][b]
        BY <2>6, <3>2
      <4>2. QED
        BY <3>2, <4>1
    <3>3. QED
      BY <3>1, <3>2
  <2>9. ASSUME NEW u \in Users, NEW p \in Periods, NEW x \in Requests
        PROVE  x \in db'.user[u] <=> \E b \in Buckets : b[1] = p /\ x \in db'.bucket[u][b]
    <3>1. x \in db.user[u] <=> \E b \in Buckets : b[1] = p /\ x \in db.bucket[u][b]
      BY DEF Inv, Reported
    <3>2. BucketOf(p, q.time) \in here
      BY DEF here
    <3>3. BucketOf(p, q.time) \in Buckets /\ BucketOf(p, q.time)[1] = p
      BY <2>1, <3>2
    <3>4. CASE x = r /\ u = q.user
      BY <2>5, <2>6, <3>2, <3>3, <3>4
    <3>5. CASE ~(x = r /\ u = q.user)
      <4>1. x \in db'.user[u] <=> x \in db.user[u]
        BY <2>5, <3>5
      <4>2. \A b \in Buckets : x \in db'.bucket[u][b] <=> x \in db.bucket[u][b]
        BY <2>8a, <3>5
      <4>3. QED
        BY <3>1, <4>1, <4>2
    <3>6. QED
      BY <3>4, <3>5
  <2>10. ASSUME NEW u \in Users, NEW t \in 0 .. MaxTime
         PROVE  db'.bucket[u][<<"hour", t>>] \subseteq db'.global[t]
    <3>1. <<"hour", t>> \in Buckets /\ <<"hour", t>>[1] = "hour" /\ "hour" \in Periods
      BY HourBucket DEF Periods
    <3>2. <<"hour", t>> \in here => t = q.time
      BY <2>1, <2>2, <3>1
    <3>3. db.bucket[u][<<"hour", t>>] \subseteq db.global[t]
      BY DEF Inv, Reported
    <3>4. QED
      BY <2>6, <2>7, <3>1, <3>2, <3>3
  <2>11. ASSUME NEW u \in Users, NEW b \in Buckets, NEW c \in Buckets, b[1] = c[1], b # c
         PROVE  db'.bucket[u][b] \cap db'.bucket[u][c] = {}
    <3>1. ~(b \in here /\ c \in here)
      <4>1. b[1] \in Periods
        BY DEF Buckets
      <4>2. QED
        BY <2>1, <2>11, <4>1
    <3>2. db.bucket[u][b] \cap db.bucket[u][c] = {}
      BY <2>11 DEF Inv, Reported
    <3>3. QED
      <4>1. \A x : x \in db'.bucket[u][b] => x \in db.bucket[u][b] \/ (x = r /\ b \in here)
        BY <2>8a
      <4>2. \A x : x \in db'.bucket[u][c] => x \in db.bucket[u][c] \/ (x = r /\ c \in here)
        BY <2>8a
      <4>3. r \notin db.bucket[u][b] /\ r \notin db.bucket[u][c]
        BY <2>8
      <4>4. QED
        BY <3>1, <3>2, <4>1, <4>2, <4>3
  <2>12. ASSUME NEW u \in Users, NEW x \in Requests,
                req'[x].pc \in {"idle", "answered", "measured"}
         PROVE  x \notin db'.user[u]
    <3>1. x # r /\ req'[x] = req[x]
      BY <1>2, <2>12 DEF OthersStay
    <3>2. x \notin db.user[u]
      BY <2>12, <3>1 DEF Inv, Reported
    <3>3. QED
      BY <2>5, <3>1, <3>2
  <2>13. QED
    BY <2>9, <2>10, <2>11, <2>12 DEF Reported
<1>6. QED
  BY <1>4, <1>5

LEMMA StoreKeeps == ASSUME Inv, NEW r \in Requests, Store(r) PROVE Inv'
<1> DEFINE q == req[r]
<1>1. /\ q.pc = "measured" /\ q.account \in AccountSet
      /\ UNCHANGED <<now, loads, totals, last, reload, overtaken, lost>>
      /\ DOMAIN req' = Requests /\ OthersStay(r) /\ req'[r].pc \in {"pruning", "done"}
  BY DEF Store, Counting, Going, Inv, Typed, OthersStay, Over
<1>2. \A a \in AccountSet : db'.account[a] = IF a = q.account THEN db.account[a] \cup {r}
                                             ELSE db.account[a]
  <2>1. db.account \in Totals
    BY DEF Inv, Typed, Database
  <2>2. db'.account = [db.account EXCEPT ![q.account] = @ \cup {r}]
    BY StoreTyped DEF AccountAggregate
  <2>3. QED
    BY <1>1, <2>1, <2>2 DEF Totals
<1>3. Typed'
  <2>1. \A p \in Requests :
           /\ req'[p].pc \in {"idle", "answered", "measured", "pruning", "done"}
           /\ Counting(p)' => Going(req[p])'
    BY <1>1 DEF OthersStay, Counting, Inv, Typed, Going
  <2>2. QED
    BY <1>1, <2>1, StoreTyped DEF Inv, Typed, Reloading
<1>4. Agree'
  <2> SUFFICES ASSUME NEW p \in Requests, p \notin lost', p \notin overtaken'
               PROVE  Placed(p)'
    BY DEF Agree
  <2>1. Placed(p)
    BY <1>1 DEF Inv, Agree
  <2>2. CASE p = r
    <3>1. reload.pc = "idle"
      BY <1>1, <2>1, <2>2 DEF Placed, Counting
    <3>2. \A a \in AccountSet : /\ r \in totals[loads][a] <=> a = q.account
                                /\ r \notin db.account[a]
      BY <1>1, <2>1, <2>2 DEF Placed
    <3>3. \A a \in AccountSet : r \in totals'[loads'][a] <=> r \in db'.account[a]
      BY <1>1, <1>2, <3>2
    <3>4. QED
      BY <1>1, <2>2, <3>1, <3>3 DEF Placed, Counting
  <2>3. CASE p # r
    <3>1. req'[p] = req[p]
      BY <1>1, <2>3 DEF OthersStay
    <3>2. \A a \in AccountSet : p \in db'.account[a] <=> p \in db.account[a]
      BY <1>2, <2>3
    <3>3. QED
      BY <1>1, <2>1, <3>1, <3>2 DEF Placed, Counting
  <2>4. QED
    BY <2>2, <2>3
<1>5. QED
  BY <1>3, <1>4, StoreReported DEF Inv

(* A request that is over is in both totals or in neither.                  *)
LEMMA StoreFailsKeeps == ASSUME Inv, NEW r \in Requests, StoreFails(r) PROVE Inv'
<1>1. /\ DOMAIN req' = Requests /\ OthersStay(r) /\ req'[r].pc = "done"
      /\ UNCHANGED <<now, loads, totals, last, db, reload, overtaken>>
      /\ lost' = lost \cup {r}
  BY DEF StoreFails, Inv, Typed, OthersStay, Over
<1>2. Typed'
  <2>1. \A p \in Requests :
           /\ req'[p].pc \in {"idle", "answered", "measured", "pruning", "done"}
           /\ Counting(p)' => Going(req[p])'
    BY <1>1 DEF OthersStay, Counting, Inv, Typed, Going
  <2>2. QED
    BY <1>1, <2>1 DEF Inv, Typed, Reloading, Totals
<1>3. Agree'
  BY <1>1 DEF Inv, Agree, Placed, Counting, OthersStay
<1>4. Reported'
  BY <1>1 DEF Inv, Reported, OthersStay
<1>5. QED
  BY <1>2, <1>3, <1>4 DEF Inv

LEMMA PruneKeeps == ASSUME Inv, NEW r \in Requests, Prune(r) PROVE Inv'
<1>1. /\ req[r].pc = "pruning"
      /\ DOMAIN req' = Requests /\ OthersStay(r) /\ req'[r].pc = "done"
      /\ UNCHANGED <<now, loads, totals, last, reload, overtaken, lost>>
  BY DEF Prune, Inv, Typed, OthersStay, Over
<1>2. /\ db' \in Database
      /\ db'.account = db.account /\ db'.user = db.user /\ db'.bucket = db.bucket
      /\ db'.global = db.global
  <2> DEFINE old == {k \in db.requests : \A j \in db.requests : Before(j, k) => Stale(j)}
  <2>1. db' = [db EXCEPT !.requests = @ \ old]
    BY DEF Prune
  <2> HIDE DEF old
  <2>2. QED
    BY <2>1 DEF Inv, Typed, Database
<1>3. Typed'
  <2>1. \A p \in Requests :
           /\ req'[p].pc \in {"idle", "answered", "measured", "pruning", "done"}
           /\ Counting(p)' => Going(req[p])'
    BY <1>1 DEF OthersStay, Counting, Inv, Typed, Going
  <2>2. QED
    BY <1>1, <1>2, <2>1 DEF Inv, Typed, Reloading, Totals
<1>4. Agree'
  <2> SUFFICES ASSUME NEW p \in Requests, p \notin lost', p \notin overtaken'
               PROVE  Placed(p)'
    BY DEF Agree
  <2>1. Placed(p)
    BY <1>1 DEF Inv, Agree
  <2>2. QED
    BY <1>1, <1>2, <2>1 DEF Placed, Counting, OthersStay
<1>5. Reported'
  BY <1>1, <1>2 DEF Inv, Reported, OthersStay
<1>6. QED
  BY <1>3, <1>4, <1>5 DEF Inv

-----------------------------------------------------------------------------
(* Reloads: what is being counted meanwhile is overtaken, and what is over  *)
(* stays in both totals.                                                    *)
LEMMA ReloadBeginsKeeps == ASSUME Inv, ReloadBegins PROVE Inv'
<1>1. /\ reload.pc = "idle" /\ loads < MaxLoads
      /\ reload'.pc = "load" /\ reload'.state = totals[loads]
      /\ UNCHANGED <<now, loads, totals, last, db, req, lost>>
      /\ overtaken' = overtaken \cup {r \in Requests : Counting(r)}
  BY DEF ReloadBegins, Overtakes
<1>2. totals[loads] \in Totals
  BY DEF Inv, Typed
<1>3. Typed'
  BY <1>1, <1>2 DEF Inv, Typed, Reloading, Counting, Going
<1>4. Agree'
  <2> SUFFICES ASSUME NEW p \in Requests, p \notin lost', p \notin overtaken'
               PROVE  Placed(p)'
    BY DEF Agree
  <2>1. Placed(p) /\ ~Counting(p)
    BY <1>1 DEF Inv, Agree
  <2>2. req[p].pc \in {"idle", "pruning", "done"}
    BY <2>1 DEF Counting, Inv, Typed
  <2>3. \A a \in AccountSet : p \in totals[loads][a] <=> p \in db.account[a]
    BY <2>1, <2>2 DEF Placed
  <2>4. QED
    BY <1>1, <2>1, <2>2, <2>3 DEF Placed, Counting
<1>5. Reported'
  BY <1>1 DEF Inv, Reported
<1>6. QED
  BY <1>3, <1>4, <1>5 DEF Inv

LEMMA ReloadReplacesKeeps == ASSUME Inv, ReloadReplaces PROVE Inv'
<1>1. /\ reload.pc = "load" /\ reload'.pc = "read" /\ reload.state \in Totals
      /\ loads' = loads + 1 /\ loads < MaxLoads /\ loads \in 0 .. MaxLoads
      /\ totals' = [totals EXCEPT ![loads + 1] = reload.state]
      /\ UNCHANGED <<now, last, db, req, overtaken, lost>>
  BY DEF ReloadReplaces, Inv, Typed, Reloading
<1>2. loads' \in 0 .. MaxLoads /\ totals'[loads'] = reload.state
  BY <1>1, LedgerAssumption DEF Inv, Typed
<1>3. totals' \in [0 .. MaxLoads -> Totals]
  BY <1>1, <1>2 DEF Inv, Typed
<1>4. Typed'
  BY <1>1, <1>2, <1>3 DEF Inv, Typed, Reloading, Counting, Going
<1>5. Agree'
  <2> SUFFICES ASSUME NEW p \in Requests, p \notin lost', p \notin overtaken'
               PROVE  Placed(p)'
    BY DEF Agree
  <2>1. Placed(p) /\ ~Counting(p)
    BY <1>1 DEF Inv, Agree, Placed
  <2>2. \A a \in AccountSet : p \in totals'[loads'][a] <=> p \in db.account[a]
    BY <1>1, <1>2, <2>1 DEF Placed
  <2>3. QED
    BY <1>1, <2>1, <2>2 DEF Placed, Counting
<1>6. Reported'
  BY <1>1 DEF Inv, Reported
<1>7. QED
  BY <1>4, <1>5, <1>6 DEF Inv

LEMMA ReloadReadsKeeps == ASSUME Inv, ReloadReads PROVE Inv'
<1>1. /\ reload.pc = "read" /\ reload' = [pc |-> "restore", state |-> db.account, next |-> 1]
      /\ db.account \in Totals
      /\ UNCHANGED <<now, loads, totals, last, db, req, overtaken, lost>>
  BY DEF ReloadReads, Inv, Typed, Database
<1>2. reload'.pc = "restore" /\ reload'.state = db.account /\ Reloading(reload')
  BY <1>1 DEF Reloading
<1>3. Typed'
  BY <1>1, <1>2 DEF Inv, Typed, Counting, Going
<1>4. Agree'
  BY <1>1, <1>2 DEF Inv, Agree, Placed, Counting
<1>5. Reported'
  BY <1>1 DEF Inv, Reported
<1>6. QED
  BY <1>3, <1>4, <1>5 DEF Inv

LEMMA ReloadRestoresKeeps == ASSUME Inv, ReloadRestores PROVE Inv'
<1> DEFINE acct == Accounts[reload.next]
<1>1. /\ reload.pc = "restore" /\ reload.state \in Totals
      /\ totals' = IF reload.state[acct] = {} THEN totals
                   ELSE [totals EXCEPT ![loads][acct] = reload.state[acct]]
      /\ UNCHANGED <<now, loads, last, db, req, overtaken, lost>>
  BY DEF ReloadRestores, Inv, Typed, Reloading
<1>2. /\ reload'.pc \in {"idle", "restore"} /\ Reloading(reload')
      /\ reload'.pc = "restore" => reload'.state = reload.state
  <2>1. reload \in [pc : {"restore"}, state : Totals, next : {reload.next}]
    BY <1>1 DEF Inv, Typed, Reloading
  <2>2. CASE reload' = [pc |-> "idle"]
    BY <2>2 DEF Reloading
  <2>3. CASE reload' = [reload EXCEPT !.next = @ + 1]
    BY <2>1, <2>3 DEF Reloading
  <2>4. QED
    BY <2>2, <2>3 DEF ReloadRestores
<1> HIDE DEF acct
<1>3. \A g \in 0 .. MaxLoads, a \in AccountSet :
         totals'[g][a] = IF g = loads /\ a = acct THEN
                            IF reload.state[a] = {} THEN totals[g][a] ELSE reload.state[a]
                         ELSE totals[g][a]
  BY <1>1 DEF Inv, Typed, Totals
<1>4. totals' \in [0 .. MaxLoads -> Totals]
  <2>1. CASE reload.state[acct] = {}
    BY <1>1, <2>1 DEF Inv, Typed
  <2>2. CASE reload.state[acct] # {}
    <3>1. [totals[loads] EXCEPT ![acct] = reload.state[acct]] \in Totals
      <4>1. totals[loads] \in Totals /\ reload.state \in Totals
        BY <1>1 DEF Inv, Typed
      <4>2. CASE acct \in AccountSet
        BY <4>1, <4>2 DEF Totals
      <4>3. CASE acct \notin AccountSet
        BY <4>1, <4>3 DEF Totals
      <4>4. QED
        BY <4>2, <4>3
    <3>2. QED
      BY <1>1, <2>2, <3>1 DEF Inv, Typed
  <2>3. QED
    BY <2>1, <2>2
<1>5. Typed'
  BY <1>1, <1>2, <1>4 DEF Inv, Typed, Counting, Going
<1>6. Agree'
  <2> SUFFICES ASSUME NEW p \in Requests, p \notin lost', p \notin overtaken'
               PROVE  Placed(p)'
    BY DEF Agree
  <2>1. Placed(p) /\ ~Counting(p) /\ loads \in 0 .. MaxLoads
    BY <1>1 DEF Inv, Agree, Placed, Typed
  <2>2. req[p].pc \in {"idle", "pruning", "done"}
    BY <2>1 DEF Counting, Inv, Typed
  <2>3. \A a \in AccountSet : /\ p \in totals[loads][a] <=> p \in db.account[a]
                              /\ p \in reload.state[a] <=> p \in db.account[a]
    BY <1>1, <2>1, <2>2 DEF Placed
  <2>4. \A a \in AccountSet : p \in totals'[loads][a] <=> p \in db.account[a]
    BY <1>3, <2>1, <2>3
  <2>5. req[p].pc = "idle" => \A a \in AccountSet : p \notin db.account[a]
    BY <2>1 DEF Placed
  <2>6. QED
    BY <1>1, <1>2, <2>1, <2>2, <2>3, <2>4, <2>5 DEF Placed, Counting
<1>7. Reported'
  BY <1>1 DEF Inv, Reported
<1>8. QED
  BY <1>5, <1>6, <1>7 DEF Inv

-----------------------------------------------------------------------------
(* A purge, a restart, and time.                                            *)
LEMMA PurgeKeeps == ASSUME Inv, NEW kept \in SUBSET Users, Purge(kept) PROVE Inv'
<1>1. UNCHANGED <<now, loads, totals, last, req, reload, overtaken, lost>>
  BY DEF Purge
<1>2. /\ db.requests \in SUBSET (AccountSet \X (0 .. MaxTime) \X Requests)
      /\ db.account \in Totals /\ db.user \in [Users -> SUBSET Requests]
      /\ db.bucket \in [Users -> [Buckets -> SUBSET Requests]]
      /\ db.global \in [0 .. MaxTime -> SUBSET Requests]
      /\ db.capacity \in [AccountSet -> [Windows -> Nat]]
  BY DEF Inv, Typed, Database
<1> DEFINE user == [u \in Users |-> IF u \in kept THEN db.user[u] ELSE {}]
           bucket == [u \in Users |-> IF u \in kept THEN db.bucket[u]
                                      ELSE [b \in Buckets |-> {}]]
<1>3. user \in [Users -> SUBSET Requests]
  BY <1>2
<1>4. bucket \in [Users -> [Buckets -> SUBSET Requests]]
  BY <1>2
<1>5. /\ \A u \in Users : user[u] = IF u \in kept THEN db.user[u] ELSE {}
      /\ \A u \in Users, b \in Buckets :
            bucket[u][b] = IF u \in kept THEN db.bucket[u][b] ELSE {}
  OBVIOUS
<1>6. /\ db' \in Database /\ db'.user = user /\ db'.bucket = bucket
      /\ db'.account = db.account /\ db'.global = db.global
  <2>1. db' = [db EXCEPT !.user = user, !.bucket = bucket]
    BY DEF Purge
  <2> HIDE DEF user, bucket
  <2>2. QED
    BY <1>3, <1>4, <2>1 DEF Inv, Typed, Database
<1> HIDE DEF user, bucket
<1>7. Typed'
  BY <1>1, <1>6 DEF Inv, Typed, Reloading, Totals, Counting, Going
<1>8. Agree'
  BY <1>1, <1>6 DEF Inv, Agree, Placed, Counting
<1>9. Reported'
  <2>1. ASSUME NEW u \in Users, NEW p \in Periods, NEW x \in Requests
        PROVE  x \in user[u] <=> \E b \in Buckets : b[1] = p /\ x \in bucket[u][b]
    <3>1. CASE u \in kept
      <4>1. user[u] = db.user[u] /\ \A b \in Buckets : bucket[u][b] = db.bucket[u][b]
        BY <1>5, <3>1
      <4>2. QED
        BY <4>1 DEF Inv, Reported
    <3>2. CASE u \notin kept
      BY <1>5, <3>2
    <3>3. QED
      BY <3>1, <3>2
  <2>2. ASSUME NEW u \in Users, NEW t \in 0 .. MaxTime
        PROVE  bucket[u][<<"hour", t>>] \subseteq db.global[t]
    <3>1. <<"hour", t>> \in Buckets /\ db.bucket[u][<<"hour", t>>] \subseteq db.global[t]
      BY HourBucket DEF Inv, Reported
    <3>2. QED
      BY <1>5, <3>1
  <2>3. ASSUME NEW u \in Users, NEW b \in Buckets, NEW c \in Buckets, b[1] = c[1], b # c
        PROVE  bucket[u][b] \cap bucket[u][c] = {}
    <3>1. db.bucket[u][b] \cap db.bucket[u][c] = {}
      BY <2>3 DEF Inv, Reported
    <3>2. QED
      BY <1>5, <3>1
  <2>4. ASSUME NEW u \in Users, NEW x \in Requests,
               req[x].pc \in {"idle", "answered", "measured"}
        PROVE  x \notin user[u]
    <3>1. x \notin db.user[u]
      BY <2>4 DEF Inv, Reported
    <3>2. QED
      BY <1>5, <3>1
  <2>5. QED
    BY <1>1, <1>6, <2>1, <2>2, <2>3, <2>4 DEF Reported
<1>10. QED
  BY <1>7, <1>8, <1>9 DEF Inv

LEMMA RestartKeeps == ASSUME Inv, Restart PROVE Inv'
<1>1. /\ loads < MaxLoads /\ loads \in 0 .. MaxLoads /\ loads' = loads + 1
      /\ totals' = [totals EXCEPT ![loads + 1] = db.account]
      /\ last' = <<>> /\ reload'.pc = "idle"
      /\ lost' = lost \cup {r \in Requests : Counting(r)}
      /\ UNCHANGED <<now, db, overtaken>>
      /\ db.account \in Totals
  BY DEF Restart, Restored, Inv, Typed, Database
<1>2. /\ DOMAIN req' = Requests
      /\ \A p \in Requests : \/ req[p].pc = "idle" /\ req'[p] = req[p]
                             \/ req[p].pc # "idle" /\ req'[p].pc = "done"
  BY DEF Restart, Over
<1>3. loads' \in 0 .. MaxLoads /\ totals'[loads'] = db.account
  BY <1>1, LedgerAssumption DEF Inv, Typed
<1>4. Typed'
  <2>1. totals' \in [0 .. MaxLoads -> Totals]
    BY <1>1 DEF Inv, Typed
  <2>2. Measures(last')
    BY <1>1 DEF Measures
  <2>3. \A p \in Requests :
           /\ req'[p].pc \in {"idle", "answered", "measured", "pruning", "done"}
           /\ ~Counting(p)'
    BY <1>2 DEF Counting
  <2>4. QED
    BY <1>1, <1>2, <1>3, <2>1, <2>2, <2>3 DEF Inv, Typed, Reloading
<1>5. Agree'
  <2> SUFFICES ASSUME NEW p \in Requests, p \notin lost', p \notin overtaken'
               PROVE  Placed(p)'
    BY DEF Agree
  <2>1. Placed(p) /\ ~Counting(p)
    BY <1>1 DEF Inv, Agree
  <2>2. CASE req[p].pc = "idle"
    BY <1>1, <1>2, <1>3, <2>1, <2>2 DEF Placed, Counting
  <2>3. CASE req[p].pc # "idle"
    BY <1>1, <1>2, <1>3, <2>3 DEF Placed, Counting
  <2>4. QED
    BY <2>2, <2>3
<1>6. Reported'
  BY <1>1, <1>2 DEF Inv, Reported
<1>7. QED
  BY <1>4, <1>5, <1>6 DEF Inv

LEMMA HourKeeps == ASSUME Inv, Hour PROVE Inv'
<1>1. /\ now' \in 0 .. MaxTime
      /\ UNCHANGED <<loads, totals, last, db, req, reload, overtaken, lost>>
  BY LedgerAssumption DEF Hour, Inv, Typed
<1>2. Typed'
  BY <1>1 DEF Inv, Typed, Reloading, Totals, Counting, Going
<1>3. Agree' /\ Reported'
  BY <1>1 DEF Inv, Agree, Placed, Counting, Reported
<1>4. QED
  BY <1>2, <1>3 DEF Inv

LEMMA NextKeeps == Inv /\ [Next]_vars => Inv'
<1> SUFFICES ASSUME Inv, [Next]_vars PROVE Inv'
  OBVIOUS
<1>1. CASE UNCHANGED vars
  <2>1. Typed'
    BY <1>1 DEF vars, Inv, Typed, Reloading, Totals, Counting, Going
  <2>2. Agree' /\ Reported'
    BY <1>1 DEF vars, Inv, Agree, Placed, Counting, Reported
  <2>3. QED
    BY <2>1, <2>2 DEF Inv
<1>2. CASE Next
  BY <1>2, AnsweredKeeps, CountKeeps, StoreKeeps, StoreFailsKeeps, PruneKeeps,
     ReloadBeginsKeeps, ReloadReplacesKeeps, ReloadReadsKeeps, ReloadRestoresKeeps,
     PurgeKeeps, RestartKeeps, HourKeeps DEF Next
<1>3. QED
  BY <1>1, <1>2

-----------------------------------------------------------------------------
(* The inductive invariant: where each request is in memory and in the      *)
(* database, and that a request not yet written is in no report.            *)
THEOREM LedgerInvariant == Spec => []Inv
BY Initially, NextKeeps, PTL DEF Spec

(* The ledger keeps its types (storage.go, usage_state.go).                 *)
THEOREM LedgerTyped == Spec => []TypeOK
<1>1. Inv => TypeOK
  BY DEF Inv, Typed, TypeOK, Measures, Totals, Database
<1>2. QED
  BY <1>1, LedgerInvariant, PTL

(* Whatever reloads, purges, failed transactions and restarts come between  *)
(* the steps of whichever requests: the pool's totals and the database's    *)
(* differ only by requests being counted, lost or overtaken by a reload     *)
(* (usage.go:391, handlers.go:258).                                         *)
THEOREM TotalsStayTogether == Spec => []TotalsAgree
<1>1. ASSUME Inv, reload.pc = "idle", NEW a \in AccountSet, NEW r,
             r \in (totals[loads][a] \ db.account[a]) \cup (db.account[a] \ totals[loads][a])
      PROVE  r \in {x \in Requests : Counting(x)} \cup lost \cup overtaken
  <2>1. r \in Requests
    <3>1. totals[loads] \in Totals /\ db.account \in Totals
      BY <1>1 DEF Inv, Typed, Database
    <3>2. totals[loads][a] \subseteq Requests /\ db.account[a] \subseteq Requests
      BY <1>1, <3>1 DEF Totals
    <3>3. QED
      BY <1>1, <3>2
  <2>2. SUFFICES ASSUME r \notin lost, r \notin overtaken PROVE Counting(r)
    BY <2>1
  <2>3. Placed(r)
    BY <1>1, <2>1, <2>2 DEF Inv, Agree
  <2>4. req[r].pc \in {"answered", "measured"}
    BY <1>1, <2>1, <2>3 DEF Placed, Inv, Typed
  <2>5. QED
    BY <2>4 DEF Counting
<1>2. Inv => TotalsAgree
  BY <1>1 DEF TotalsAgree
<1>3. QED
  BY <1>2, LedgerInvariant, PTL

(* The reports of a user add up to the user's total, for any users, hours   *)
(* and days, also when purges fall between the requests (storage.go:204).   *)
THEOREM ReportsStayWhole == Spec => []ReportsAddUp
<1>1. ASSUME Inv, NEW u \in Users, NEW p \in Periods
      PROVE  db.user[u] = UNION {db.bucket[u][b] : b \in {c \in Buckets : c[1] = p}}
  <2>1. \A x \in db.user[u] : x \in Requests
    BY <1>1 DEF Inv, Typed, Database
  <2>2. ASSUME NEW b \in Buckets, NEW x \in db.bucket[u][b] PROVE x \in Requests
    <3>1. db.bucket \in [Users -> [Buckets -> SUBSET Requests]]
      BY <1>1 DEF Inv, Typed, Database
    <3>2. db.bucket[u][b] \in SUBSET Requests
      BY <1>1, <3>1
    <3>3. QED
      BY <3>2
  <2>3. \A x \in Requests :
           x \in db.user[u] <=> \E b \in Buckets : b[1] = p /\ x \in db.bucket[u][b]
    BY <1>1 DEF Inv, Reported
  <2>4. QED
    BY <2>1, <2>2, <2>3
<1>2. \A t \in 0 .. MaxTime : <<"hour", t>> \in Buckets
  BY HourBucket
<1>3. Inv => ReportsAddUp
  BY <1>1, <1>2 DEF ReportsAddUp, Inv, Reported
<1>4. QED
  BY <1>3, LedgerInvariant, PTL
=============================================================================
