--------------------------- MODULE SeatPool_proofs ---------------------------
(***************************************************************************)
(* The bookkeeping of SeatPool is right for every pool, every set of       *)
(* requests and every number of reloads.  Each step moves one request; what *)
(* it does to Account.Inflight and pendingClaims must match what it does   *)
(* to the sets of requests that hold and claim the seat.                   *)
(***************************************************************************)
EXTENDS SeatPool, FiniteSetTheorems, WellFoundedInduction, TLAPS

(* A request past claimCandidate knows which seat it got. *)
Seated ==
  \A r \in Request :
    req[r].phase \in Claiming \cup Holding \cup {"answered"} => req[r].seat \in Seat

(* A reload in flight has room for the generation it will install. *)
ReloadRoom == reload.running => gen < MaxReloads

Inv == TypeOK /\ ReloadRoom /\ Seated /\ SeatAccounting /\ ClaimsBacked

(* What one request contributes to the two counters. *)
Held(q, g, s) == IF Holds(q, g, s) THEN 1 ELSE 0
Claimed(q, s) == IF Claims(q, s) THEN 1 ELSE 0

(* Only request r changes in this step. *)
Moves(r) ==
  /\ req' \in [Request -> Requests]
  /\ \A q \in Request \ {r} : req'[q] = req[q]

----------------------------------------------------------------------------
(* A set that gains or loses at most the element r has its size changed by  *)
(* exactly that.                                                            *)
LEMMA OneElement ==
  ASSUME NEW U, IsFiniteSet(U), NEW S \in SUBSET U, NEW T \in SUBSET U, NEW r \in U,
         S \ {r} = T \ {r}
  PROVE  /\ Cardinality(S) \in Nat
         /\ Cardinality(T) \in Nat
         /\ Cardinality(T) = Cardinality(S) + (IF r \in T THEN 1 ELSE 0) - (IF r \in S THEN 1 ELSE 0)
<1>1. IsFiniteSet(S) /\ IsFiniteSet(T)
  BY FS_Subset
<1>2. Cardinality(S) \in Nat /\ Cardinality(T) \in Nat
  BY <1>1, FS_CardinalityType
<1>3. IsFiniteSet(S \ {r}) /\ Cardinality(S \ {r}) \in Nat
  BY <1>1, FS_Subset, FS_CardinalityType
<1>4. Cardinality(S) = Cardinality(S \ {r}) + (IF r \in S THEN 1 ELSE 0)
  <2>1. CASE r \in S
    <3>1. S = (S \ {r}) \cup {r}
      BY <2>1
    <3>2. QED
      BY <1>3, <2>1, <3>1, FS_AddElement
  <2>2. CASE r \notin S
    <3>1. S = S \ {r}
      BY <2>2
    <3>2. QED
      BY <1>2, <2>2, <3>1
  <2>3. QED
    BY <2>1, <2>2
<1>5. Cardinality(T) = Cardinality(T \ {r}) + (IF r \in T THEN 1 ELSE 0)
  <2>0. IsFiniteSet(T \ {r}) /\ Cardinality(T \ {r}) \in Nat
    BY <1>1, FS_Subset, FS_CardinalityType
  <2>1. CASE r \in T
    <3>1. T = (T \ {r}) \cup {r}
      BY <2>1
    <3>2. QED
      BY <2>0, <2>1, <3>1, FS_AddElement
  <2>2. CASE r \notin T
    <3>1. T = T \ {r}
      BY <2>2
    <3>2. QED
      BY <1>2, <2>2, <3>1
  <2>3. QED
    BY <2>1, <2>2
<1>6. QED
  BY <1>2, <1>3, <1>4, <1>5

(* The number of holders of a seat object, and of claimers of a seat, before *)
(* and after a step of one request.                                         *)
LEMMA HoldersMove ==
  ASSUME NEW r \in Request, Moves(r), NEW g, NEW s
  PROVE  /\ Cardinality(Holders(g, s)) \in Nat
         /\ Cardinality(Holders(g, s)') \in Nat
         /\ Cardinality(Holders(g, s)') =
              Cardinality(Holders(g, s)) + Held(req'[r], g, s) - Held(req[r], g, s)
<1>1. Holders(g, s) \ {r} = Holders(g, s)' \ {r}
  BY DEF Moves, Holders
<1>2. /\ Holders(g, s) \in SUBSET Request
      /\ Holders(g, s)' \in SUBSET Request
      /\ r \in Holders(g, s) <=> Holds(req[r], g, s)
      /\ r \in Holders(g, s)' <=> Holds(req'[r], g, s)
  BY DEF Holders, Holds
<1>3. IsFiniteSet(Request)
  BY RequestAssumption
<1> DEFINE S == Holders(g, s)
           T == Holders(g, s)'
<1>4. /\ Cardinality(S) \in Nat
      /\ Cardinality(T) \in Nat
      /\ Cardinality(T) = Cardinality(S) + (IF r \in T THEN 1 ELSE 0) - (IF r \in S THEN 1 ELSE 0)
  <2> HIDE DEF S, T
  <2>1. QED
    BY <1>1, <1>2, <1>3, OneElement DEF S, T
<1>5. QED
  BY <1>2, <1>4 DEF Held

(* The same for the requests between a claim and its release. *)
LEMMA ClaimersMove ==
  ASSUME NEW r \in Request, Moves(r), NEW s
  PROVE  /\ Cardinality(Claimers(s)) \in Nat
         /\ Cardinality(Claimers(s)') \in Nat
         /\ Cardinality(Claimers(s)') =
              Cardinality(Claimers(s)) + Claimed(req'[r], s) - Claimed(req[r], s)
         /\ Claims(req[r], s) => Cardinality(Claimers(s)) > 0
<1>1. Claimers(s) \ {r} = Claimers(s)' \ {r}
  BY DEF Moves, Claimers
<1>2. /\ Claimers(s) \in SUBSET Request
      /\ Claimers(s)' \in SUBSET Request
      /\ r \in Claimers(s) <=> Claims(req[r], s)
      /\ r \in Claimers(s)' <=> Claims(req'[r], s)
  BY DEF Claimers, Claims
<1>3. IsFiniteSet(Request)
  BY RequestAssumption
<1>4. Claims(req[r], s) => Cardinality(Claimers(s)) > 0
  <2>1. IsFiniteSet(Claimers(s))
    BY <1>2, <1>3, FS_Subset
  <2>2. Claims(req[r], s) => Claimers(s) # {}
    BY <1>2
  <2>3. QED
    BY <2>1, <2>2, FS_EmptySet, FS_CardinalityType
<1> DEFINE S == Claimers(s)
           T == Claimers(s)'
<1>5. /\ Cardinality(S) \in Nat
      /\ Cardinality(T) \in Nat
      /\ Cardinality(T) = Cardinality(S) + (IF r \in T THEN 1 ELSE 0) - (IF r \in S THEN 1 ELSE 0)
  <2> HIDE DEF S, T
  <2>1. QED
    BY <1>1, <1>2, <1>3, OneElement DEF S, T
<1>6. QED
  BY <1>2, <1>4, <1>5 DEF Claimed

(* If a step moves Account.Inflight by what it does to the request, the     *)
(* books still balance, and no counter goes below zero.                     *)
LEMMA Balanced ==
  ASSUME SeatAccounting, TypeOK, NEW r \in Request, Moves(r),
         inflight' \in [Generations -> [Seat -> Int]],
         abandoned' \in [Generations -> [Seat -> Nat]],
         \A g \in Generations, s \in Seat :
           inflight'[g][s] = inflight[g][s]
                              + Held(req'[r], g, s) - Held(req[r], g, s)
                              + abandoned'[g][s] - abandoned[g][s]
  PROVE  /\ SeatAccounting'
         /\ inflight' \in [Generations -> [Seat -> Nat]]
<1>1. ASSUME NEW g \in Generations, NEW s \in Seat
      PROVE  /\ inflight'[g][s] = Cardinality(Holders(g, s)') + abandoned'[g][s]
             /\ inflight'[g][s] \in Nat
  <2> DEFINE m == Cardinality(Holders(g, s))
             n == Cardinality(Holders(g, s)')
             x == Held(req[r], g, s)
             y == Held(req'[r], g, s)
  <2>1. m \in Nat /\ n \in Nat /\ n = m + y - x
    BY HoldersMove
  <2>2. inflight[g][s] = m + abandoned[g][s]
    BY DEF SeatAccounting
  <2>3. abandoned[g][s] \in Nat /\ abandoned'[g][s] \in Nat
    BY DEF TypeOK
  <2>4. x \in Int /\ y \in Int
    BY DEF Held
  <2>5. inflight'[g][s] = inflight[g][s] + y - x + abandoned'[g][s] - abandoned[g][s]
    OBVIOUS
  <2> HIDE DEF m, n, x, y
  <2>6. inflight'[g][s] = n + abandoned'[g][s] /\ n + abandoned'[g][s] \in Nat
    BY <2>1, <2>2, <2>3, <2>4, <2>5
  <2>7. QED
    BY <2>6 DEF n
<1>2. SeatAccounting'
  BY <1>1 DEF SeatAccounting
<1>3. inflight' \in [Generations -> [Seat -> Nat]]
  BY <1>1
<1>4. QED
  BY <1>2, <1>3

(* What a step of request r must do to pendingClaims. *)
ClaimStep(r, s) ==
  pendingClaims'[s] =
    IF Claimed(req'[r], s) = Claimed(req[r], s) THEN pendingClaims[s]
    ELSE IF Claimed(req'[r], s) = 1 THEN pendingClaims[s] + 1
    ELSE IF pendingClaims[s] <= 1 THEN 0 ELSE pendingClaims[s] - 1

(* If pendingClaims follows one request's claim or release, it stays backed. *)
LEMMA ClaimsBalanced ==
  ASSUME ClaimsBacked, TypeOK, NEW r \in Request, Moves(r), gen' = gen,
         \A s \in Seat : ClaimStep(r, s)
  PROVE  ClaimsBacked'
<1>1. ASSUME NEW s \in Seat
      PROVE  /\ pendingClaims'[s] <= Cardinality(Claimers(s)')
             /\ gen' = 0 => pendingClaims'[s] = Cardinality(Claimers(s)')
  <2> DEFINE m == Cardinality(Claimers(s))
             n == Cardinality(Claimers(s)')
             x == Claimed(req[r], s)
             y == Claimed(req'[r], s)
  <2>1. m \in Nat /\ n \in Nat /\ n = m + y - x
    BY ClaimersMove
  <2>2. /\ pendingClaims[s] \in Nat
        /\ pendingClaims[s] <= m
        /\ gen = 0 => pendingClaims[s] = m
    BY DEF ClaimsBacked, TypeOK, SelectionTypeOK
  <2>3. pendingClaims'[s] = IF y = x THEN pendingClaims[s]
                            ELSE IF y = 1 THEN pendingClaims[s] + 1
                            ELSE IF pendingClaims[s] <= 1 THEN 0 ELSE pendingClaims[s] - 1
    BY DEF ClaimStep
  <2>4. x \in {0, 1} /\ y \in {0, 1}
    BY DEF Claimed
  <2>5. x = 1 => m > 0
    BY ClaimersMove DEF Claimed
  <2> HIDE DEF m, n, x, y
  <2>6. pendingClaims'[s] <= n /\ (gen = 0 => pendingClaims'[s] = n)
    BY <2>1, <2>2, <2>3, <2>4, <2>5
  <2>7. QED
    BY <2>6 DEF n
<1>2. QED
  BY <1>1 DEF ClaimsBacked

(* The active-seat fields always name a seat, or none. *)
LEMMA ActiveTyped ==
  ASSUME SelectionTypeOK, NEW c, NEW s \in Seat \cup {NoSeat}, NEW b \in BOOLEAN,
         UpdateActive(c, s, b)
  PROVE  {activeCodexID', activeAPIID', activeGeminiID'} \subseteq Seat \cup {NoSeat}
<1> DEFINE Names == Seat \cup {NoSeat}
<1>1. activeCodexID \in Names /\ activeAPIID \in Names /\ activeGeminiID \in Names
  BY DEF SelectionTypeOK
<1>2. CASE Pinned(c) # {}
  BY <1>1, <1>2 DEF UpdateActive
<1>3. CASE Pinned(c) = {}
  <2>1. activeCodexID' \in Names
    BY <1>1, <1>3 DEF UpdateActive, Keep
  <2>2. activeAPIID' \in Names
    BY <1>1, <1>3 DEF UpdateActive, Keep
  <2>3. activeGeminiID' \in Names
    BY <1>1, <1>3 DEF UpdateActive, Keep
  <2>4. QED
    BY <2>1, <2>2, <2>3
<1>4. QED
  BY <1>2, <1>3

----------------------------------------------------------------------------
(* What every step of a request comes down to. *)
InflightStep(r) ==
  /\ inflight' \in [Generations -> [Seat -> Int]]
  /\ abandoned' \in [Generations -> [Seat -> Nat]]
  /\ \A g \in Generations, s \in Seat :
       inflight'[g][s] = inflight[g][s]
                          + Held(req'[r], g, s) - Held(req[r], g, s)
                          + abandoned'[g][s] - abandoned[g][s]

ClaimsStep(r) ==
  /\ pendingClaims' \in [Seat -> Nat]
  /\ \A s \in Seat : ClaimStep(r, s)

SeatedStep(r) ==
  req'[r].phase \in Claiming \cup Holding \cup {"answered"} => req'[r].seat \in Seat

RestTyped ==
  /\ UNCHANGED <<pool, gen, files, reload>>
  /\ condition' \in [Seat -> Conditions]
  /\ convPin' \in [Conversation -> Seat \cup {NoSeat}]
  /\ {activeCodexID', activeAPIID', activeGeminiID'} \subseteq Seat \cup {NoSeat}
  /\ recency' \in SUBSET (Seat \X Seat)

(* A request step that balances both counts and corrupts nothing keeps Inv. *)
LEMMA StepKeeps ==
  ASSUME Inv, NEW r \in Request, Moves(r), InflightStep(r), ClaimsStep(r),
         SeatedStep(r), RestTyped
  PROVE  Inv'
<1>1. SeatAccounting' /\ inflight' \in [Generations -> [Seat -> Nat]]
  BY Balanced DEF Inv, InflightStep
<1>2. ClaimsBacked'
  BY ClaimsBalanced DEF Inv, ClaimsStep, RestTyped
<1>3. Seated'
  BY DEF Inv, Seated, SeatedStep, Moves
<1>4. ReloadRoom'
  BY DEF Inv, ReloadRoom, RestTyped
<1>5. TypeOK'
  BY <1>1 DEF Inv, TypeOK, SelectionTypeOK, RestTyped, InflightStep, ClaimsStep, Moves
<1>6. QED
  BY <1>1, <1>2, <1>3, <1>4, <1>5 DEF Inv

(* A step that leaves Inflight alone holds what it held. *)
LEMMA InflightKept ==
  ASSUME TypeOK, NEW r \in Request, UNCHANGED <<inflight, abandoned>>,
         \A g \in Generations, s \in Seat : Holds(req'[r], g, s) <=> Holds(req[r], g, s)
  PROVE  InflightStep(r)
<1>1. \A g \in Generations, s \in Seat :
        /\ Held(req'[r], g, s) = Held(req[r], g, s)
        /\ Held(req[r], g, s) \in Int
  BY DEF Held
<1>2. /\ inflight \in [Generations -> [Seat -> Nat]]
      /\ abandoned \in [Generations -> [Seat -> Nat]]
  BY DEF TypeOK, SelectionTypeOK
<1>3. \A g \in Generations, s \in Seat : inflight[g][s] \in Nat /\ abandoned[g][s] \in Nat
  BY <1>2
<1>4. inflight \in [Generations -> [Seat -> Int]]
  BY <1>2
<1>5. QED
  BY <1>1, <1>2, <1>3, <1>4 DEF InflightStep

(* Booking a seat, and leaving one. *)
LEMMA InflightMoved ==
  ASSUME TypeOK, NEW r \in Request, NEW h \in Generations, NEW z \in Seat,
         NEW n \in {-1, 1}, AddInflight(h, z, n), abandoned' = abandoned,
         \A g \in Generations, s \in Seat :
           /\ Holds(req'[r], g, s) <=> n = 1 /\ g = h /\ s = z
           /\ Holds(req[r], g, s) <=> n = -1 /\ g = h /\ s = z
  PROVE  InflightStep(r)
<1>1. /\ inflight \in [Generations -> [Seat -> Nat]]
      /\ abandoned \in [Generations -> [Seat -> Nat]]
  BY DEF TypeOK, SelectionTypeOK
<1>2. inflight' \in [Generations -> [Seat -> Int]]
  BY <1>1 DEF AddInflight
<1>3. ASSUME NEW g \in Generations, NEW s \in Seat
      PROVE  inflight'[g][s] = inflight[g][s]
                          + Held(req'[r], g, s) - Held(req[r], g, s)
                          + abandoned'[g][s] - abandoned[g][s]
  <2>1. inflight[g][s] \in Nat /\ abandoned[g][s] \in Nat
    BY <1>1
  <2>2. inflight'[g][s] = IF g = h /\ s = z THEN inflight[g][s] + n ELSE inflight[g][s]
    BY <1>1 DEF AddInflight
  <2>3. Held(req'[r], g, s) = IF n = 1 /\ g = h /\ s = z THEN 1 ELSE 0
    BY DEF Held
  <2>4. Held(req[r], g, s) = IF n = -1 /\ g = h /\ s = z THEN 1 ELSE 0
    BY DEF Held
  <2> DEFINE x == Held(req[r], g, s)
             y == Held(req'[r], g, s)
  <2> HIDE DEF x, y
  <2>5. x = (IF n = -1 /\ g = h /\ s = z THEN 1 ELSE 0)
        /\ y = (IF n = 1 /\ g = h /\ s = z THEN 1 ELSE 0)
    BY <2>3, <2>4 DEF x, y
  <2>6. inflight'[g][s] = inflight[g][s] + y - x + abandoned'[g][s] - abandoned[g][s]
    BY <2>1, <2>2, <2>5
  <2>7. QED
    BY <2>6 DEF x, y
<1>4. QED
  BY <1>1, <1>2, <1>3 DEF InflightStep

(* A step that leaves pendingClaims alone claims what it claimed. *)
LEMMA ClaimsKept ==
  ASSUME TypeOK, NEW r \in Request, pendingClaims' = pendingClaims,
         \A s \in Seat : Claims(req'[r], s) <=> Claims(req[r], s)
  PROVE  ClaimsStep(r)
BY DEF TypeOK, SelectionTypeOK, ClaimsStep, ClaimStep, Claimed

(* releaseClaim ends exactly the claim of the request that calls it. *)
LEMMA ClaimReleased ==
  ASSUME TypeOK, NEW r \in Request, NEW z \in Seat, releaseClaim(z),
         \A s \in Seat : ~Claims(req'[r], s) /\ (Claims(req[r], s) <=> s = z)
  PROVE  ClaimsStep(r)
<1>1. pendingClaims \in [Seat -> Nat]
  BY DEF TypeOK, SelectionTypeOK
<1>2. pendingClaims' \in [Seat -> Nat]
  BY <1>1 DEF releaseClaim
<1>3. QED
  BY <1>1, <1>2 DEF releaseClaim, ClaimsStep, ClaimStep, Claimed

----------------------------------------------------------------------------
(* What a request record says about itself. *)
LEMMA Record ==
  ASSUME Inv, NEW r \in Request
  PROVE  /\ req \in [Request -> Requests]
         /\ req[r] \in Requests
         /\ req[r].phase \in Claiming \cup Holding \cup {"answered"} => req[r].seat \in Seat
         /\ req[r].gen \in Generations
         /\ gen \in Generations
BY DEF Inv, TypeOK, SelectionTypeOK, Seated, Requests

(* The two attempt bounds are natural numbers: the pool is finite. *)
LEMMA BudgetTyped ==
  ASSUME Inv, NEW r \in Request
  PROVE  Budget(r) \in Nat /\ Attempts(r) \in Nat
<1>1. IsFiniteSet(pool) /\ Cardinality(pool) \in Nat
  BY SelectionAssumption, FS_Subset, FS_CardinalityType DEF Inv, TypeOK, SelectionTypeOK
<1>2. countByType(WantType[r]) \in Nat
  <2>1. {s \in pool : AccountType(s) = WantType[r]} \subseteq pool
    OBVIOUS
  <2>2. QED
    BY <1>1, <2>1, FS_Subset, FS_CardinalityType DEF countByType
<1>3. Budget(r) \in Nat
  BY <1>1, <1>2 DEF Budget
<1>4. Attempts(r) \in Nat
  <2> DEFINE n == countByType(WantType[r])
             wanted == {1, MaxAttempts, n}
             most == CHOOSE k \in wanted : \A m \in wanted : m <= k
  <2>1. n \in Nat /\ MaxAttempts \in Nat
    BY <1>2, RequestAssumption
  <2>2. most \in Nat
    <3> HIDE DEF n
    <3>1. \E k \in wanted : \A m \in wanted : m <= k
      BY <2>1
    <3>2. most \in wanted
      BY <3>1
    <3>3. QED
      BY <2>1, <3>2
  <2>3. Attempts(r) = IF Mode[r] # "buffered" THEN 1
                      ELSE IF Cardinality(pool) > 0 /\ most > Cardinality(pool)
                           THEN Cardinality(pool) ELSE most
    BY DEF Attempts
  <2> HIDE DEF most
  <2>4. QED
    BY <1>1, <2>2, <2>3
<1>5. QED
  BY <1>3, <1>4

(* The fields no request step may corrupt, when it leaves them alone. *)
LEMMA RestKept ==
  ASSUME Inv, UNCHANGED <<pool, gen, files, reload, condition, convPin, recency>>,
         \/ UNCHANGED <<activeCodexID, activeAPIID, activeGeminiID>>
         \/ \E c, b : \E s \in Seat \cup {NoSeat} : b \in BOOLEAN /\ UpdateActive(c, s, b)
  PROVE  RestTyped
<1>1. SelectionTypeOK
  BY DEF Inv, TypeOK
<1>2. {activeCodexID', activeAPIID', activeGeminiID'} \subseteq Seat \cup {NoSeat}
  BY <1>1, ActiveTyped DEF SelectionTypeOK
<1>3. QED
  BY <1>1, <1>2 DEF SelectionTypeOK, RestTyped

(* The request ends, or goes on to its next attempt, holding nothing. *)
LetGo(r) ==
  /\ Moves(r)
  /\ req'[r].phase \in {"choosing", "done", "failed"}

(* After a failed attempt the request holds and claims nothing. *)
LEMMA NextAttemptLetsGo ==
  ASSUME Inv, NEW r \in Request, NextAttempt(r)
  PROVE  LetGo(r)
<1>1. Budget(r) \in Nat
  BY BudgetTyped
<1>2. /\ req \in [Request -> Requests]
      /\ req[r] \in Requests
  BY Record
<1>3. 0 \in Generations
  BY SelectionAssumption DEF Generations
<1> DEFINE next == IF req[r].attempt < req[r].attempts
                   THEN [NoRequest EXCEPT !.phase = "choosing", !.budget = Budget(r),
                                          !.exclude = req[r].exclude,
                                          !.attempt = req[r].attempt + 1,
                                          !.attempts = req[r].attempts]
                   ELSE Ended("failed")
<1>4. req' = [req EXCEPT ![r] = next]
  BY DEF NextAttempt
<1>5. next \in Requests /\ next.phase \in {"choosing", "failed"}
  <2>1. CASE req[r].attempt < req[r].attempts
    <3>1. next = [phase |-> "choosing", seat |-> NoSeat, gen |-> 0,
                  exclude |-> req[r].exclude, attempt |-> req[r].attempt + 1,
                  attempts |-> req[r].attempts, budget |-> Budget(r)]
      BY <2>1 DEF NoRequest
    <3>2. /\ req[r].attempt + 1 \in Nat
          /\ req[r].attempts \in Nat
          /\ req[r].exclude \in SUBSET Seat
      BY <1>2 DEF Requests
    <3> HIDE DEF next
    <3>3. QED
      BY <1>1, <1>3, <3>1, <3>2 DEF Requests, Phases
  <2>2. CASE ~(req[r].attempt < req[r].attempts)
    <3>1. next = Ended("failed")
      BY <2>2
    <3>2. QED
      BY <1>3, <3>1 DEF Requests, Ended, NoRequest, Phases
  <2>3. QED
    BY <2>1, <2>2
<1> HIDE DEF next
<1>6. req' \in [Request -> Requests] /\ req'[r] = next
      /\ \A q \in Request \ {r} : req'[q] = req[q]
  BY <1>2, <1>4, <1>5
<1>7. QED
  BY <1>5, <1>6 DEF LetGo, Moves

(* Nor does a request that has ended. *)
LEMMA EndLetsGo ==
  ASSUME Inv, NEW r \in Request, NEW phase \in {"done", "failed"},
         req' = [req EXCEPT ![r] = Ended(phase)]
  PROVE  LetGo(r)
<1>1. req \in [Request -> Requests]
  BY Record
<1>2. 0 \in Generations
  BY SelectionAssumption DEF Generations
<1>3. QED
  BY <1>1, <1>2 DEF LetGo, Moves, Requests, Ended, NoRequest, Phases

(* A request that held and claimed nothing lets go: nothing to account for. *)
LEMMA LetGoKeeps ==
  ASSUME Inv, NEW r \in Request, LetGo(r), RestTyped,
         UNCHANGED <<inflight, pendingClaims, abandoned>>,
         req[r].phase \notin Claiming \cup Holding
  PROVE  Inv'
<1>1. InflightStep(r)
  BY InflightKept DEF Inv, LetGo, Holds, Holding
<1>2. ClaimsStep(r)
  BY ClaimsKept DEF Inv, LetGo, Claims, Claiming
<1>3. SeatedStep(r)
  BY DEF LetGo, SeatedStep, Claiming, Holding
<1>4. QED
  BY <1>1, <1>2, <1>3, StepKeeps DEF LetGo

----------------------------------------------------------------------------
(* Request r moves to a phase, keeping the seat object it works on. *)
LEMMA Phase ==
  ASSUME Inv, NEW r \in Request, NEW phase \in Phases,
         req' = [req EXCEPT ![r].phase = phase]
  PROVE  /\ Moves(r)
         /\ req'[r].phase = phase
         /\ req'[r].seat = req[r].seat
         /\ req'[r].gen = req[r].gen
BY Record DEF Moves, Requests

(* A request starts: it has no seat yet. *)
LEMMA StartKeeps == ASSUME Inv, NEW r \in Request, Start(r) PROVE Inv'
<1>1. Budget(r) \in Nat /\ Attempts(r) \in Nat
  BY BudgetTyped
<1>2. LetGo(r)
  <2> DEFINE q == [phase |-> "choosing", seat |-> req[r].seat, gen |-> req[r].gen,
                   exclude |-> req[r].exclude, attempt |-> 1,
                   attempts |-> Attempts(r), budget |-> Budget(r)]
  <2>1. q \in Requests /\ q.phase = "choosing"
    BY <1>1, Record DEF Requests, Phases
  <2>2. /\ req'[r] = q
        /\ DOMAIN req' = Request
        /\ \A x \in Request \ {r} : req'[x] = req[x]
    BY Record DEF Start, Requests
  <2>3. req' \in [Request -> Requests]
    BY <2>1, <2>2, Record DEF Start
  <2>4. QED
    BY <2>1, <2>2, <2>3 DEF LetGo, Moves
<1>3. RestTyped
  BY RestKept DEF Start, poolVars
<1>4. QED
  BY <1>2, <1>3, LetGoKeeps DEF Start, poolVars, Claiming, Holding

(* claimCandidate: one more claimer, one more pending claim. *)
LEMMA ClaimKeeps ==
  ASSUME Inv, NEW r \in Request, NEW z \in Seat, Claim(r, z) PROVE Inv'
<1>1. /\ Moves(r)
      /\ req'[r].phase = "claimed"
      /\ req'[r].seat = z
  <2>1. req[r].exclude \cup {z} \in SUBSET Seat /\ req[r].budget - 1 \in Nat
    BY Record DEF Claim, Requests
  <2> DEFINE q == [phase |-> "claimed", seat |-> z, gen |-> gen,
                   exclude |-> req[r].exclude \cup {z}, attempt |-> req[r].attempt,
                   attempts |-> req[r].attempts, budget |-> req[r].budget - 1]
  <2>2. q \in Requests
    BY <2>1, Record DEF Requests, Phases
  <2>3. /\ req'[r] = q
        /\ \A x \in Request \ {r} : req'[x] = req[x]
    BY Record DEF Claim, Requests
  <2>4. req' \in [Request -> Requests]
    BY <2>2, <2>3, Record DEF Claim
  <2>5. QED
    BY <2>3, <2>4 DEF Moves
<1>2. InflightStep(r)
  BY <1>1, InflightKept DEF Inv, Claim, Holds, Holding
<1>3. ClaimsStep(r)
  <2>1. pendingClaims \in [Seat -> Nat]
    BY DEF Inv, TypeOK, SelectionTypeOK
  <2>2. \A s \in Seat : ~Claims(req[r], s) /\ (Claims(req'[r], s) <=> s = z)
    BY <1>1 DEF Claim, Claims, Claiming
  <2>3. pendingClaims' = [pendingClaims EXCEPT ![z] = pendingClaims[z] + 1]
    BY DEF Claim
  <2>4. QED
    BY <2>1, <2>2, <2>3 DEF ClaimsStep, ClaimStep, Claimed
<1>4. RestTyped
  BY RestKept DEF Claim
<1>5. QED
  BY <1>1, <1>2, <1>3, <1>4, StepKeeps DEF SeatedStep

(* A seat that cannot serve the path is released and only its claim ends. *)
LEMMA RejectClaimedKeeps ==
  ASSUME Inv, NEW r \in Request, RejectClaimed(r) PROVE Inv'
<1>1. LetGo(r)
  <2>1. 0 \in Generations
    BY SelectionAssumption DEF Generations
  <2> DEFINE q == [req[r] EXCEPT !.phase = "choosing", !.seat = NoSeat, !.gen = 0]
  <2>2. q \in Requests /\ q.phase = "choosing"
    BY <2>1, Record DEF Requests, Phases
  <2>3. /\ req'[r] = q
        /\ \A x \in Request \ {r} : req'[x] = req[x]
    BY Record DEF RejectClaimed
  <2>4. req' \in [Request -> Requests]
    BY <2>2, <2>3, Record DEF RejectClaimed
  <2>5. QED
    BY <2>2, <2>3, <2>4 DEF LetGo, Moves
<1>2. req[r].seat \in Seat
  BY Record DEF RejectClaimed, Claiming
<1>3. InflightStep(r)
  BY <1>1, InflightKept DEF Inv, RejectClaimed, LetGo, Holds, Holding
<1>4. ClaimsStep(r)
  BY <1>1, <1>2, ClaimReleased DEF Inv, RejectClaimed, LetGo, Claims, Claiming
<1>5. RestTyped
  BY RestKept DEF RejectClaimed
<1>6. QED
  BY <1>1, <1>3, <1>4, <1>5, StepKeeps DEF LetGo, SeatedStep, Claiming, Holding

(* AddInt64(&acc.Inflight, 1): the claimer becomes a holder too. *)
LEMMA BookKeeps == ASSUME Inv, NEW r \in Request, Book(r) PROVE Inv'
<1>1. /\ Moves(r)
      /\ req'[r].phase = "booked"
      /\ req'[r].seat = req[r].seat
      /\ req'[r].gen = req[r].gen
  BY Phase DEF Book, Phases
<1>2. req[r].seat \in Seat /\ req[r].gen \in Generations /\ req[r].phase = "claimed"
  BY Record DEF Book, Claiming
<1>3. InflightStep(r)
  BY <1>1, <1>2, InflightMoved DEF Inv, Book, Holds, Holding
<1>4. ClaimsStep(r)
  BY <1>1, <1>2, ClaimsKept DEF Inv, Book, Claims, Claiming
<1>5. RestTyped
  BY RestKept DEF Book
<1>6. QED
  BY <1>1, <1>2, <1>3, <1>4, <1>5, StepKeeps DEF SeatedStep

(* The claim ends, the booking stays. *)
LEMMA ReleaseClaimKeeps ==
  ASSUME Inv, NEW r \in Request, ReleaseClaim(r) PROVE Inv'
<1>1. /\ Moves(r)
      /\ req'[r].phase = "serving"
      /\ req'[r].seat = req[r].seat
      /\ req'[r].gen = req[r].gen
  BY Phase DEF ReleaseClaim, Phases
<1>2. req[r].seat \in Seat /\ req[r].phase = "booked"
  BY Record DEF ReleaseClaim, Claiming
<1>3. InflightStep(r)
  BY <1>1, <1>2, InflightKept DEF Inv, ReleaseClaim, Holds, Holding
<1>4. ClaimsStep(r)
  BY <1>1, <1>2, ClaimReleased DEF Inv, ReleaseClaim, Claims, Claiming
<1>5. RestTyped
  BY RestKept DEF ReleaseClaim
<1>6. QED
  BY <1>1, <1>2, <1>3, <1>4, <1>5, StepKeeps DEF SeatedStep

(* Nothing was held, nothing is let go. *)
LEMMA NoCandidateKeeps ==
  ASSUME Inv, NEW r \in Request, NoCandidate(r) PROVE Inv'
<1>1. LetGo(r)
  BY NextAttemptLetsGo, EndLetsGo DEF NoCandidate
<1>2. RestTyped
  <2>1. \/ UNCHANGED <<activeCodexID, activeAPIID, activeGeminiID>>
        \/ UpdateActive(Call(r), NoSeat, TRUE)
    BY DEF NoCandidate
  <2>2. QED
    BY <2>1, RestKept DEF NoCandidate
<1>3. QED
  BY <1>1, <1>2, LetGoKeeps DEF NoCandidate, Claiming, Holding

(* The forced seat is booked on the current object with no claim. *)
LEMMA BookForcedKeeps ==
  ASSUME Inv, NEW r \in Request, BookForced(r) PROVE Inv'
<1>1. RestTyped
  BY RestKept DEF BookForced
<1>2. CASE NextAttempt(r) /\ UNCHANGED inflight
  <2>1. LetGo(r)
    BY <1>2, NextAttemptLetsGo
  <2>2. QED
    BY <1>1, <1>2, <2>1, LetGoKeeps DEF BookForced, Claiming, Holding
<1>3. CASE /\ Forced[r] \in pool
           /\ AddInflight(gen, Forced[r], 1)
           /\ req' = [req EXCEPT ![r].phase = "serving", ![r].seat = Forced[r],
                                 ![r].gen = gen]
  <2>1. Forced[r] \in Seat
    BY <1>3 DEF Inv, TypeOK, SelectionTypeOK
  <2>2. /\ Moves(r)
        /\ req'[r].phase = "serving"
        /\ req'[r].seat = Forced[r]
        /\ req'[r].gen = gen
    BY <1>3, <2>1, Record DEF Moves, Requests, Phases
  <2>3. InflightStep(r)
    BY <1>3, <2>1, <2>2, Record, InflightMoved DEF Inv, BookForced, Holds, Holding
  <2>4. ClaimsStep(r)
    BY <2>2, ClaimsKept DEF Inv, BookForced, Claims, Claiming
  <2>5. QED
    BY <1>1, <2>1, <2>2, <2>3, <2>4, StepKeeps DEF SeatedStep
<1>4. QED
  BY <1>2, <1>3 DEF BookForced

(* What answers do to the rest of the state stays well typed. *)
LEMMA SetsTyped ==
  ASSUME Inv, NEW r \in Request, NEW c \in Conditions, Sets(r, c)
  PROVE  condition' \in [Seat -> Conditions]
BY DEF Inv, TypeOK, SelectionTypeOK, Sets

(* A seat only changes to conditions its instance lists. *)
LEMMA WorsensTyped ==
  ASSUME Inv, NEW s \in Seat
  PROVE  Worsens(s) \subseteq Conditions /\ Recovers(s) \subseteq Conditions
BY RequestAssumption DEF Inv, TypeOK, SelectionTypeOK, Worsens, Recovers

(* A success pins and marks seats of the pool only. *)
LEMMA SucceedTyped ==
  ASSUME Inv, NEW r \in Request, req[r].seat \in Seat, Succeed(r)
  PROVE  /\ condition' \in [Seat -> Conditions]
         /\ convPin' \in [Conversation -> Seat \cup {NoSeat}]
         /\ recency' \in SUBSET (Seat \X Seat)
<1>1. condition' \in [Seat -> Conditions]
  <2>1. PICK c \in Recovers(req[r].seat) : Sets(r, c)
    BY DEF Succeed
  <2>2. QED
    BY <2>1, SetsTyped, WorsensTyped
<1>2. convPin' \in [Conversation -> Seat \cup {NoSeat}]
  BY DEF Inv, TypeOK, SelectionTypeOK, Succeed
<1>3. recency' \in SUBSET (Seat \X Seat)
  BY DEF Inv, TypeOK, SelectionTypeOK, Succeed, MarkUsed
<1>4. QED
  BY <1>1, <1>2, <1>3

(* The holder gives its booking back to the object it took it from. *)
LEMMA TryOnceReturnsKeeps ==
  ASSUME Inv, NEW r \in Request, TryOnceReturns(r) PROVE Inv'
<1>1. /\ Moves(r)
      /\ req'[r].phase = "answered"
      /\ req'[r].seat = req[r].seat
      /\ req'[r].gen = req[r].gen
  BY Phase DEF TryOnceReturns, Phases
<1>2. req[r].seat \in Seat /\ req[r].gen \in Generations /\ req[r].phase = "serving"
  BY Record DEF TryOnceReturns, Holding
<1>3. InflightStep(r)
  BY <1>1, <1>2, InflightMoved DEF Inv, TryOnceReturns, Holds, Holding
<1>4. ClaimsStep(r)
  BY <1>1, <1>2, ClaimsKept DEF Inv, TryOnceReturns, Claims, Claiming
<1>5. RestTyped
  BY RestKept DEF TryOnceReturns
<1>6. QED
  BY <1>1, <1>2, <1>3, <1>4, <1>5, StepKeeps DEF SeatedStep

(* An answered request holds nothing when it retries. *)
LEMMA RetryElsewhereKeeps ==
  ASSUME Inv, NEW r \in Request, RetryElsewhere(r) PROVE Inv'
<1>1. LetGo(r)
  BY NextAttemptLetsGo DEF RetryElsewhere
<1>2. condition' \in [Seat -> Conditions]
  <2>1. PICK c \in Worsens(req[r].seat) : Sets(r, c)
    BY DEF RetryElsewhere
  <2>2. req[r].seat \in Seat
    BY Record DEF RetryElsewhere
  <2>3. QED
    BY <2>1, <2>2, SetsTyped, WorsensTyped
<1>3. RestTyped
  BY <1>2 DEF RetryElsewhere, RestTyped, Inv, TypeOK, SelectionTypeOK
<1>4. QED
  BY <1>1, <1>3, LetGoKeeps DEF RetryElsewhere, Claiming, Holding

(* Nor when it delivers. *)
LEMMA DeliverKeeps == ASSUME Inv, NEW r \in Request, Deliver(r) PROVE Inv'
<1>1. LetGo(r)
  BY EndLetsGo DEF Deliver
<1>2. req[r].seat \in Seat
  BY Record DEF Deliver
<1>3. RestTyped
  BY <1>2, SucceedTyped DEF Deliver, RestTyped, Inv, TypeOK, SelectionTypeOK
<1>4. QED
  BY <1>1, <1>3, LetGoKeeps DEF Deliver, Claiming, Holding

(* A direct request finalizes while it still holds its seat. *)
LEMMA DirectAnswerKeeps ==
  ASSUME Inv, NEW r \in Request, DirectAnswer(r) PROVE Inv'
<1>1. /\ Moves(r)
      /\ req'[r].phase = "leaving"
      /\ req'[r].seat = req[r].seat
      /\ req'[r].gen = req[r].gen
  BY Phase DEF DirectAnswer, Phases
<1>2. req[r].seat \in Seat /\ req[r].phase = "serving"
  BY Record DEF DirectAnswer, Holding
<1>3. InflightStep(r)
  BY <1>1, <1>2, InflightKept DEF Inv, DirectAnswer, Holds, Holding
<1>4. ClaimsStep(r)
  BY <1>1, <1>2, ClaimsKept DEF Inv, DirectAnswer, Claims, Claiming
<1>5. RestTyped
  <2>1. CASE Succeed(r)
    BY <1>2, <2>1, SucceedTyped DEF DirectAnswer, RestTyped, Inv, TypeOK, SelectionTypeOK
  <2>2. CASE /\ \E c \in Worsens(req[r].seat) : Sets(r, c)
             /\ UNCHANGED <<convPin, recency>>
    <3>1. PICK c \in Worsens(req[r].seat) : Sets(r, c)
      BY <2>2
    <3>2. condition' \in [Seat -> Conditions]
      BY <1>2, <3>1, SetsTyped, WorsensTyped
    <3>3. QED
      BY <2>2, <3>2 DEF DirectAnswer, RestTyped, Inv, TypeOK, SelectionTypeOK
  <2>3. QED
    BY <2>1, <2>2 DEF DirectAnswer
<1>6. QED
  BY <1>1, <1>2, <1>3, <1>4, <1>5, StepKeeps DEF SeatedStep

(* And gives the booking back afterwards. *)
LEMMA LeaveKeeps == ASSUME Inv, NEW r \in Request, Leave(r) PROVE Inv'
<1>1. LetGo(r)
  BY EndLetsGo DEF Leave
<1>2. req[r].seat \in Seat /\ req[r].gen \in Generations /\ req[r].phase = "leaving"
  BY Record DEF Leave, Holding
<1>3. InflightStep(r)
  BY <1>1, <1>2, InflightMoved DEF Inv, Leave, LetGo, Holds, Holding
<1>4. ClaimsStep(r)
  BY <1>1, <1>2, ClaimsKept DEF Inv, Leave, LetGo, Claims, Claiming
<1>5. RestTyped
  BY RestKept DEF Leave
<1>6. QED
  BY <1>1, <1>3, <1>4, <1>5, StepKeeps DEF LetGo, SeatedStep, Claiming, Holding

(* The one step that turns a holder into abandoned weight. *)
LEMMA ModelsFetchedKeeps ==
  ASSUME Inv, NEW r \in Request, ModelsFetched(r) PROVE Inv'
<1>1. LetGo(r)
  BY EndLetsGo DEF ModelsFetched
<1>2. req[r].seat \in Seat /\ req[r].gen \in Generations /\ req[r].phase = "serving"
  BY Record DEF ModelsFetched, Holding
<1>3. InflightStep(r)
  <2>1. /\ inflight \in [Generations -> [Seat -> Nat]]
        /\ abandoned \in [Generations -> [Seat -> Nat]]
        /\ inflight' = inflight
    BY DEF Inv, TypeOK, SelectionTypeOK, ModelsFetched, poolVars
  <2>2. abandoned' \in [Generations -> [Seat -> Nat]]
    BY <1>2, <2>1 DEF ModelsFetched
  <2>3. ASSUME NEW g \in Generations, NEW s \in Seat
        PROVE  inflight'[g][s] = inflight[g][s]
                          + Held(req'[r], g, s) - Held(req[r], g, s)
                          + abandoned'[g][s] - abandoned[g][s]
    <3> DEFINE here == g = req[r].gen /\ s = req[r].seat
    <3>1. Held(req'[r], g, s) = 0
      BY <1>1 DEF LetGo, Held, Holds, Holding
    <3>2. Held(req[r], g, s) = IF here THEN 1 ELSE 0
      BY <1>2 DEF Held, Holds, Holding
    <3>3. abandoned'[g][s] = IF here THEN abandoned[g][s] + 1 ELSE abandoned[g][s]
      BY <1>2, <2>1 DEF ModelsFetched
    <3>4. inflight[g][s] \in Nat /\ abandoned[g][s] \in Nat
      BY <2>1
    <3> HIDE DEF here
    <3>5. QED
      BY <2>1, <3>1, <3>2, <3>3, <3>4
  <2>4. inflight' \in [Generations -> [Seat -> Int]]
    BY <2>1
  <2>5. QED
    BY <2>2, <2>3, <2>4 DEF InflightStep
<1>4. ClaimsStep(r)
  BY <1>1, <1>2, ClaimsKept DEF Inv, ModelsFetched, poolVars, LetGo, Claims, Claiming
<1>5. RestTyped
  BY RestKept DEF ModelsFetched, poolVars
<1>6. QED
  BY <1>1, <1>3, <1>4, <1>5, StepKeeps DEF LetGo, SeatedStep, Claiming, Holding

----------------------------------------------------------------------------
(* Steps in which no request moves. *)
LEMMA RequestsStill ==
  ASSUME Inv, UNCHANGED <<req, inflight, abandoned>>
  PROVE  Seated' /\ SeatAccounting'
BY DEF Inv, Seated, SeatAccounting, Holders, Holds

(* With requests and counters still, claims stay backed. *)
LEMMA ClaimsStill ==
  ASSUME Inv, UNCHANGED <<req, pendingClaims, gen>>
  PROVE  ClaimsBacked'
BY DEF Inv, ClaimsBacked, Claimers, Claims

(* Conditions are no part of the accounts. *)
LEMMA ConditionChangesKeeps ==
  ASSUME Inv, NEW s \in Seat, ConditionChanges(s) PROVE Inv'
<1>1. condition' \in [Seat -> Conditions]
  <2>1. PICK c \in Changes[s] : condition' = [condition EXCEPT ![s] = c]
    BY DEF ConditionChanges
  <2>2. c \in Conditions /\ condition \in [Seat -> Conditions]
    BY RequestAssumption DEF Inv, TypeOK, SelectionTypeOK
  <2>3. QED
    BY <2>1, <2>2
<1>2. TypeOK' /\ ReloadRoom'
  BY <1>1 DEF Inv, ReloadRoom, TypeOK, SelectionTypeOK, ConditionChanges
<1>3. QED
  BY <1>2, RequestsStill, ClaimsStill DEF Inv, ConditionChanges

(* The status page touches the active seats only. *)
LEMMA StatusPeekKeeps == ASSUME Inv, StatusPeek PROVE Inv'
<1>1. RestTyped
  <2>1. \E c : UpdateActive(c, NoSeat, FALSE)
    BY DEF StatusPeek
  <2>2. QED
    BY <2>1, RestKept DEF StatusPeek
<1>2. TypeOK' /\ ReloadRoom'
  BY <1>1 DEF Inv, ReloadRoom, TypeOK, SelectionTypeOK, RestTyped, StatusPeek
<1>3. QED
  BY <1>2, RequestsStill, ClaimsStill DEF Inv, StatusPeek

(* A reload may begin: what it read is a set of seats. *)
LEMMA LoadKeeps ==
  ASSUME Inv, NEW seats \in SUBSET Seat, LoadWith(seats),
         UNCHANGED <<poolVars, req, abandoned>>, files' \in SUBSET Seat
  PROVE  Inv'
<1>1. reload' \in Loaded /\ gen < MaxReloads
  BY DEF Inv, TypeOK, SelectionTypeOK, LoadWith, Loaded
<1>2. TypeOK' /\ ReloadRoom'
  BY <1>1 DEF Inv, ReloadRoom, TypeOK, SelectionTypeOK, poolVars
<1>3. QED
  BY <1>2, RequestsStill, ClaimsStill DEF Inv, poolVars

(* A reload opens a generation nobody holds yet, and forgets all claims. *)
LEMMA ReloadReplacesKeeps == ASSUME Inv, ReloadReplaces PROVE Inv'
<1>1. gen \in Generations /\ gen < MaxReloads /\ reload \in Loaded
  BY DEF Inv, ReloadRoom, TypeOK, SelectionTypeOK, ReloadReplaces, Nothing
<1>2. gen' \in Generations /\ gen' > 0
  BY <1>1, SelectionAssumption DEF ReloadReplaces, Generations
<1>3. TypeOK'
  BY <1>1, <1>2 DEF Inv, TypeOK, SelectionTypeOK, ReloadReplaces, Loaded
<1>4. ReloadRoom'
  BY DEF ReloadReplaces, ReloadRoom, Nothing
<1>5. ClaimsBacked'
  <2>1. ASSUME NEW s \in Seat PROVE pendingClaims'[s] <= Cardinality(Claimers(s)')
    <3>1. Claimers(s)' \in SUBSET Request
      BY DEF Claimers
    <3>2. Cardinality(Claimers(s)') \in Nat
      BY <3>1, RequestAssumption, FS_Subset, FS_CardinalityType
    <3>3. pendingClaims'[s] = 0
      BY DEF ReloadReplaces
    <3>4. QED
      BY <3>2, <3>3
  <2>2. gen' # 0
    BY <1>1, <1>2
  <2>3. QED
    BY <2>1, <2>2 DEF ClaimsBacked
<1>6. QED
  BY <1>3, <1>4, <1>5, RequestsStill DEF Inv, ReloadReplaces

----------------------------------------------------------------------------
(* At the start nothing is held or claimed. *)
LEMMA InitEstablishes == Init => Inv
<1> SUFFICES ASSUME Init PROVE Inv
  OBVIOUS
<1>1. 0 \in Generations
  BY SelectionAssumption DEF Generations
<1>2. TypeOK
  <2>1. NoRequest \in Requests
    BY <1>1 DEF NoRequest, Requests, Phases
  <2>2. QED
    BY <1>1, <2>1, RequestAssumption DEF Init, TypeOK, SelectionTypeOK, Nothing
<1>3. Seated /\ ReloadRoom
  BY DEF Init, Seated, ReloadRoom, Nothing, NoRequest, Claiming, Holding
<1>4. SeatAccounting
  <2>1. \A g \in Generations, s \in Seat : Holders(g, s) = {}
    BY DEF Init, Holders, Holds, NoRequest, Holding
  <2>2. \A g \in Generations, s \in Seat : Cardinality(Holders(g, s)) = 0
    BY <2>1, FS_EmptySet
  <2>3. \A g \in Generations, s \in Seat : inflight[g][s] = 0 /\ abandoned[g][s] = 0
    BY DEF Init
  <2>4. QED
    BY <2>2, <2>3 DEF SeatAccounting
<1>5. ClaimsBacked
  <2>1. \A s \in Seat : Claimers(s) = {} /\ pendingClaims[s] = 0
    BY DEF Init, Claimers, Claims, NoRequest, Claiming
  <2>2. QED
    BY <2>1, FS_EmptySet DEF ClaimsBacked
<1>6. QED
  BY <1>2, <1>3, <1>4, <1>5 DEF Inv

(* Every step of a request keeps Inv. *)
LEMMA RequestStepKeeps == ASSUME Inv, NEW r \in Request, RequestStep(r) PROVE Inv'
BY StartKeeps, ClaimKeeps, RejectClaimedKeeps, BookKeeps, ReleaseClaimKeeps,
   NoCandidateKeeps, BookForcedKeeps, TryOnceReturnsKeeps, RetryElsewhereKeeps,
   DeliverKeeps, DirectAnswerKeeps, LeaveKeeps, ModelsFetchedKeeps DEF RequestStep

(* Every step of the pool keeps Inv. *)
LEMMA NextKeeps == Inv /\ [Next]_vars => Inv'
<1> SUFFICES ASSUME Inv, [Next]_vars PROVE Inv'
  OBVIOUS
<1>1. CASE \E r \in Request : RequestStep(r)
  BY <1>1, RequestStepKeeps
<1>2. CASE \E s \in Seat : ConditionChanges(s)
  BY <1>2, ConditionChangesKeeps
<1>3. CASE \E s \in Seat : OperatorDelete(s)
  <2>1. PICK s \in Seat : OperatorDelete(s)
    BY <1>3
  <2>2. files \ {s} \in SUBSET Seat
    BY DEF Inv, TypeOK
  <2>3. QED
    BY <2>1, <2>2, LoadKeeps DEF OperatorDelete
<1>4. CASE StatusPeek
  BY <1>4, StatusPeekKeeps
<1>5. CASE ReloadLoads
  <2>1. files \in SUBSET Seat
    BY DEF Inv, TypeOK
  <2>2. QED
    BY <1>5, <2>1, LoadKeeps DEF ReloadLoads
<1>6. CASE ReloadReplaces
  BY <1>6, ReloadReplacesKeeps
<1>7. CASE UNCHANGED vars
  BY <1>7, RequestsStill, ClaimsStill
     DEF vars, poolVars, Inv, ReloadRoom, TypeOK, SelectionTypeOK
<1>8. QED
  BY <1>1, <1>2, <1>3, <1>4, <1>5, <1>6, <1>7 DEF Next

(* Inv, the inductive strengthening of the three theorems below, always holds. *)
THEOREM Invariant == Spec => []Inv
<1>1. QED
  BY InitEstablishes, NextKeeps, PTL DEF Spec

(* Every variable keeps its type; in particular no counter of the pool, of  *)
(* any generation of account objects, ever goes below zero.                *)
THEOREM TypeCorrect == Spec => []TypeOK
<1>1. Inv => TypeOK
  BY DEF Inv
<1>2. QED
  BY <1>1, Invariant, PTL

(* However requests, retries, deletions and reloads interleave, each        *)
(* Account.Inflight is the number of requests holding that object plus the  *)
(* bookings that models fetches have left behind.                          *)
THEOREM InflightAccounted == Spec => []SeatAccounting
<1>1. Inv => SeatAccounting
  BY DEF Inv
<1>2. QED
  BY <1>1, Invariant, PTL

(* poolState.pendingClaims never counts a claim that no request still has,  *)
(* and misses none until the pool is first reloaded.                       *)
THEOREM ClaimsAccounted == Spec => []ClaimsBacked
<1>1. Inv => ClaimsBacked
  BY DEF Inv
<1>2. QED
  BY <1>1, Invariant, PTL
----------------------------------------------------------------------------
(* No request works on an object of a generation that is yet to come, so    *)
(* before the first reload every request works on the current objects.     *)
NotAhead == \A r \in Request : req[r].gen <= gen

(* One request, at most, changes, and takes its generation from the pool.   *)
LEMMA RequestStepNotAhead ==
  ASSUME Inv, NotAhead, NEW r \in Request, RequestStep(r) PROVE NotAhead'
<1>1. /\ req \in [Request -> Requests]
      /\ gen \in Nat /\ 0 <= gen /\ gen <= gen
  BY DEF Inv, TypeOK, SelectionTypeOK, Generations
<1>2. gen' = gen
  <2>1. CASE Start(r) \/ ModelsFetched(r)
    BY <2>1 DEF Start, ModelsFetched, poolVars
  <2>2. CASE \E s \in Seat : Claim(r, s)
    BY <2>2 DEF Claim
  <2>3. CASE RejectClaimed(r) \/ Book(r) \/ ReleaseClaim(r) \/ NoCandidate(r) \/ BookForced(r)
    BY <2>3 DEF RejectClaimed, Book, ReleaseClaim, NoCandidate, BookForced
  <2>4. CASE TryOnceReturns(r) \/ RetryElsewhere(r) \/ Deliver(r) \/ DirectAnswer(r) \/ Leave(r)
    BY <2>4 DEF TryOnceReturns, RetryElsewhere, Deliver, DirectAnswer, Leave
  <2>5. QED
    BY <2>1, <2>2, <2>3, <2>4 DEF RequestStep
<1>3. /\ \A q \in Request \ {r} : req'[q] = req[q]
      /\ req'[r].gen \in {req[r].gen, 0, gen}
  <2>1. CASE Start(r) \/ Book(r) \/ ReleaseClaim(r) \/ TryOnceReturns(r) \/ DirectAnswer(r)
    BY <1>1, <2>1 DEF Start, Book, ReleaseClaim, TryOnceReturns, DirectAnswer, Requests
  <2>2. CASE \E s \in Seat : Claim(r, s)
    BY <1>1, <2>2 DEF Claim, Requests
  <2>3. CASE RejectClaimed(r) \/ Deliver(r) \/ Leave(r) \/ ModelsFetched(r)
    BY <1>1, <2>3 DEF RejectClaimed, Deliver, Leave, ModelsFetched, Ended, NoRequest, Requests
  <2>4. CASE NextAttempt(r)
    BY <1>1, <2>4 DEF NextAttempt, Ended, NoRequest
  <2>5. CASE NoCandidate(r)
    BY <1>1, <2>4, <2>5 DEF NoCandidate, Ended, NoRequest
  <2>6. CASE BookForced(r)
    BY <1>1, <2>4, <2>6 DEF BookForced, Requests
  <2>7. CASE RetryElsewhere(r)
    BY <2>4, <2>7 DEF RetryElsewhere
  <2>8. QED
    BY <2>1, <2>2, <2>3, <2>5, <2>6, <2>7 DEF RequestStep
<1>4. QED
  BY <1>1, <1>2, <1>3 DEF NotAhead

LEMMA NotAheadKept == Inv /\ NotAhead /\ [Next]_vars => NotAhead'
<1> SUFFICES ASSUME Inv, NotAhead, [Next]_vars PROVE NotAhead'
  OBVIOUS
<1>1. CASE \E r \in Request : RequestStep(r)
  BY <1>1, RequestStepNotAhead
<1>2. CASE ReloadReplaces
  <2>1. gen' = gen + 1 /\ req' = req
    BY <1>2 DEF ReloadReplaces
  <2>2. gen \in Int /\ \A r \in Request : req[r].gen \in Int
    BY Record DEF Inv, TypeOK, SelectionTypeOK, Generations, Requests
  <2>3. QED
    BY <2>1, <2>2 DEF NotAhead
<1>3. CASE UNCHANGED <<req, gen>>
  BY <1>3 DEF NotAhead
<1>4. QED
  BY <1>1, <1>2, <1>3
     DEF Next, ConditionChanges, OperatorDelete, StatusPeek, ReloadLoads, vars, poolVars

(* Until the first reload the load that selection compares is above zero    *)
(* exactly on the seats that somebody claims, uses or left booked.          *)
LEMMA LoadedIsBusy ==
  ASSUME Inv, NotAhead, gen = 0, NEW s \in Seat
  PROVE  /\ effectiveInflight(s) \in Nat
         /\ effectiveInflight(s) > 0 <=> Busy(s)
<1>1. 0 \in Generations
  BY SelectionAssumption DEF Generations
<1> DEFINE h == Holders(0, s)
           c == Claimers(s)
<1>2. /\ inflight[0][s] \in Nat
      /\ pendingClaims[s] \in Nat
      /\ abandoned[0][s] \in Nat
  BY <1>1 DEF Inv, TypeOK, SelectionTypeOK
<1>3. /\ inflight[0][s] = Cardinality(h) + abandoned[0][s]
      /\ pendingClaims[s] = Cardinality(c)
  BY <1>1 DEF Inv, SeatAccounting, ClaimsBacked
<1>4. /\ IsFiniteSet(h)
      /\ IsFiniteSet(c)
  BY RequestAssumption, FS_Subset DEF Holders, Claimers
<1>5. \A r \in Request : req[r].gen = 0
  BY Record DEF NotAhead, Inv, TypeOK, Requests, Generations
<1>6. Busy(s) <=> (abandoned[0][s] > 0 \/ h # {} \/ c # {})
  BY <1>5 DEF Busy, Holders, Holds, Claimers, Claims
<1> HIDE DEF h, c
<1>7. /\ Cardinality(h) \in Nat /\ (Cardinality(h) = 0 <=> h = {})
      /\ Cardinality(c) \in Nat /\ (Cardinality(c) = 0 <=> c = {})
  BY <1>4, FS_CardinalityType, FS_EmptySet
<1>8. QED
  BY <1>2, <1>3, <1>6, <1>7 DEF effectiveInflight

(* A local Codex seat that selection returns, other than for the pin, is    *)
(* idle or no more loaded than any open local seat of its tier.             *)
LEMMA LocalSeatLeastLoaded ==
  ASSUME TypeOK, NEW c, NEW s \in Candidates(c), Kind[s] = "codex", s \notin Pinned(c),
         \A x \in Seat : effectiveInflight(x) \in Nat,
         NEW t \in StickyOpen(LocalCodex(c.plan), c)
  PROVE  \/ s = t
         \/ effectiveInflight(s) = 0
         \/ effectiveInflight(s) <= effectiveInflight(t)
         \/ accountTier(t) > accountTier(s)
<1>1. s \in Sticky(c) \/ s \in Select(c)
  BY DEF Candidates, Else
<1>2. c.type = "codex"
  <2>1. ASSUME c.type # "codex" PROVE Routable(s, c)
    <3>1. CASE s \in Sticky(c)
      BY <2>1, <3>1
         DEF Sticky, Else, ActiveGemini, MostRecent, StickyOpen, Open
    <3>2. CASE s \in Select(c)
      BY <2>1, <3>2
         DEF Select, SelectMatching, BestScored, LeastRecent, LeastLoaded, Else, Open
    <3>3. QED
      BY <1>1, <3>1, <3>2
  <2>2. QED
    BY <2>1 DEF Routable, AccountType
<1>3. s \notin APISeats
  BY DEF APISeats
<1>4. t \in Open(LocalCodex(c.plan), c) /\ t \in Seat
  BY DEF StickyOpen, Open, LocalCodex
<1>5. CASE s \in Sticky(c)
  <2>1. ~NeedsRotation(s, c) /\ s \in Seat
    BY <1>2, <1>3, <1>5
       DEF Sticky, Else, ActiveCodex, MostRecent, StickyOpen, Open, LocalCodex
  <2>2. QED
    BY <1>4, <2>1 DEF NeedsRotation
<1>6. CASE s \in Select(c)
  <2> DEFINE open == Open(LocalCodex(c.plan), c)
  <2>1. s \in LeastLoaded(BestTier(open))
    <3>1. s \in LocalChoice(c)
      BY <1>2, <1>3, <1>6
         DEF Select, Else, ActiveAPI, StickyOpen, Open, SelectMatching, LeastLoaded,
             BestTier, ForAnyPlan
    <3>2. QED
      BY <1>2, <3>1 DEF LocalChoice, SelectMatching
  <2>2. /\ s \in open
        /\ \A u \in open : accountTier(s) <= accountTier(u)
    BY <2>1 DEF LeastLoaded, BestTier
  <2>3. \A x : accountTier(x) \in {1, 2}
    BY DEF accountTier
  <2>4. CASE accountTier(t) = accountTier(s)
    <3>1. t \in BestTier(open)
      BY <1>4, <2>2, <2>4 DEF BestTier
    <3>2. QED
      BY <2>1, <3>1 DEF LeastLoaded
  <2>5. QED
    BY <1>4, <2>2, <2>3, <2>4
<1>7. QED
  BY <1>1, <1>5, <1>6

(* Only claimCandidate takes a request from choosing to claimed.            *)
LEMMA OnlyClaimClaims ==
  ASSUME Inv, Next, NEW r \in Request,
         req[r].phase = "choosing", req'[r].phase = "claimed"
  PROVE  \E s \in Seat : Claim(r, s) /\ req'[r].seat = s
<1>1. req \in [Request -> Requests]
  BY DEF Inv, TypeOK
<1>2. req' # req
  OBVIOUS
<1>3. PICK q \in Request : RequestStep(q)
  BY <1>2 DEF Next, ConditionChanges, OperatorDelete, StatusPeek, ReloadLoads,
              ReloadReplaces, poolVars
<1>4. CASE \E s \in Seat : Claim(q, s)
  <2>1. PICK s \in Seat : Claim(q, s)
    BY <1>4
  <2>2. req' = [req EXCEPT ![q].phase = "claimed", ![q].seat = s, ![q].gen = gen,
                           ![q].exclude = @ \cup {s}, ![q].budget = @ - 1]
    BY <2>1 DEF Claim
  <2>3. q = r
    BY <1>1, <2>2
  <2>4. req'[r].seat = s
    BY <1>1, <2>2, <2>3 DEF Requests
  <2>5. QED
    BY <2>1, <2>3, <2>4
<1>5. CASE NextAttempt(q)
  <2>1. req'[q].phase # "claimed" /\ \A x \in Request \ {q} : req'[x] = req[x]
    BY <1>1, <1>5 DEF NextAttempt, Ended, NoRequest
  <2>2. QED
    BY <2>1
<1>6. CASE req' # req /\ ~NextAttempt(q) /\ ~(\E s \in Seat : Claim(q, s))
  <2>1. req'[q].phase # "claimed" /\ \A x \in Request \ {q} : req'[x] = req[x]
    <3>1. CASE Start(q) \/ RejectClaimed(q) \/ Book(q) \/ ReleaseClaim(q)
      BY <1>1, <3>1 DEF Start, RejectClaimed, Book, ReleaseClaim, Requests
    <3>2. CASE NoCandidate(q)
      <4>1. req' = [req EXCEPT ![q] = Ended("failed")]
        BY <1>6, <3>2 DEF NoCandidate
      <4>2. QED
        BY <1>1, <4>1 DEF Ended, NoRequest
    <3>3. CASE BookForced(q)
      <4>1. req' = [req EXCEPT ![q].phase = "serving", ![q].seat = Forced[q],
                               ![q].gen = gen]
        BY <1>6, <3>3 DEF BookForced
      <4>2. QED
        BY <1>1, <4>1 DEF Requests
    <3>4. CASE TryOnceReturns(q) \/ RetryElsewhere(q) \/ Deliver(q)
      BY <1>1, <1>6, <3>4 DEF TryOnceReturns, RetryElsewhere, Deliver, Requests, Ended, NoRequest
    <3>5. CASE DirectAnswer(q) \/ Leave(q) \/ ModelsFetched(q)
      BY <1>1, <3>5 DEF DirectAnswer, Leave, ModelsFetched, Requests, Ended, NoRequest
    <3>6. QED
      BY <1>3, <1>6, <3>1, <3>2, <3>3, <3>4, <3>5 DEF RequestStep
  <2>2. QED
    BY <2>1
<1>7. QED
  BY <1>2, <1>4, <1>5, <1>6

(* The reservation of claimCandidate works for every pool and every set of  *)
(* requests: unless its conversation is pinned there, no request is put on  *)
(* a busy local Codex seat while an open one of its tier, or of a better    *)
(* one, is idle (pool.go:1528, :1672, :1842), until a reload forgets the claims. *)
THEOREM IdleSeatTakenFirst == Spec => IdleSeatFirst
<1>1. Inv /\ NotAhead /\ [Next]_vars =>
        [\A r \in Request, s \in Seat :
           (/\ req[r].phase = "choosing" /\ req'[r].phase = "claimed" /\ req'[r].seat = s
            /\ gen = 0 /\ Kind[s] = "codex" /\ s \notin Pinned(Call(r)) /\ Busy(s))
           => \A t \in StickyOpen(LocalCodex(WantPlan[r]), Call(r)) :
                Busy(t) \/ accountTier(t) > accountTier(s)]_vars
  <2> SUFFICES ASSUME Inv, NotAhead, Next, NEW r \in Request, NEW s \in Seat,
                      req[r].phase = "choosing", req'[r].phase = "claimed",
                      req'[r].seat = s, gen = 0, Kind[s] = "codex",
                      s \notin Pinned(Call(r)), Busy(s),
                      NEW t \in StickyOpen(LocalCodex(WantPlan[r]), Call(r))
               PROVE  Busy(t) \/ accountTier(t) > accountTier(s)
    OBVIOUS
  <2>1. s \in Candidates(Call(r))
    <3>1. PICK z \in Seat : Claim(r, z) /\ req'[r].seat = z
      BY OnlyClaimClaims
    <3>2. z = s
      BY <3>1
    <3>3. QED
      BY <3>1, <3>2 DEF Claim
  <2>2. t \in Seat /\ t \in StickyOpen(LocalCodex(Call(r).plan), Call(r))
    BY DEF StickyOpen, Open, LocalCodex, Call
  <2>3. \A x \in Seat : /\ effectiveInflight(x) \in Nat
                        /\ effectiveInflight(x) > 0 <=> Busy(x)
    BY LoadedIsBusy
  <2>4. \/ s = t
        \/ effectiveInflight(s) = 0
        \/ effectiveInflight(s) <= effectiveInflight(t)
        \/ accountTier(t) > accountTier(s)
    BY <2>1, <2>2, <2>3, LocalSeatLeastLoaded DEF Inv
  <2>5. QED
    BY <2>2, <2>3, <2>4
<1>2. Init => NotAhead
  BY DEF Init, NotAhead, NoRequest
<1>3. QED
  BY <1>1, <1>2, NotAheadKept, Invariant, PTL DEF Spec, IdleSeatFirst

----------------------------------------------------------------------------
(* Account.LastUsed orders the used seats: recency compares any two of them *)
(* and is transitive.  An interrupted reload carries such an order too.     *)
Ordered(R) ==
  /\ \A s, t \in Seat : <<s, t>> \in R => <<s, s>> \in R /\ <<t, t>> \in R
  /\ \A s, t \in Seat : <<s, s>> \in R /\ <<t, t>> \in R => <<s, t>> \in R \/ <<t, s>> \in R
  /\ \A s, t, u \in Seat : <<s, t>> \in R /\ <<t, u>> \in R => <<s, u>> \in R
UsedInOrder == Ordered(recency) /\ (reload.running => Ordered(reload.recency))

(* Until the first reload a request that has no GitLab seat to wait for     *)
(* excludes one more seat of its provider with every attempt, and may still *)
(* make enough claims and attempts to go through all of them.               *)
Provider(r) == {s \in pool : AccountType(s) = WantType[r]}
Tried(r) == Cardinality(Provider(r) \cap req[r].exclude)
Trying == Claiming \cup Holding \cup {"answered"}
Thorough(r) ==
  LET n == Cardinality(Provider(r))
      q == req[r]
  IN /\ q.phase \in {"choosing", "claimed"} => q.budget + Tried(r) >= n
     /\ q.phase \in {"choosing"} \cup Trying =>
          (Mode[r] = "buffered" => q.attempts >= n)
     /\ q.phase = "choosing" => Tried(r) + 1 >= q.attempt
     /\ q.phase \in Trying => Tried(r) >= q.attempt
     /\ q.phase = "answered" => Mode[r] = "buffered"
Unhurried(r) == Forced[r] = NoSeat /\ GitLabServers(r) = {}
ThoroughUntilReload == gen = 0 => \A r \in Request : Unhurried(r) => Thorough(r)

LEMMA MarkUsedOrdered ==
  ASSUME TypeOK, NEW s \in Seat, Ordered(recency)
  PROVE  Ordered(MarkUsed(s)) /\ MarkUsed(s) \in SUBSET (Seat \X Seat)
<1>1. recency \in SUBSET (Seat \X Seat)
  BY DEF TypeOK, SelectionTypeOK
<1>2. \A x, y \in Seat :
        <<x, y>> \in MarkUsed(s) <=>
          IF x = s THEN y = s
          ELSE IF y = s THEN <<x, x>> \in recency \/ <<x, s>> \in recency
          ELSE <<x, y>> \in recency
  BY <1>1 DEF MarkUsed, Used
<1>3. /\ \A x, y \in Seat : <<x, y>> \in recency => <<x, x>> \in recency /\ <<y, y>> \in recency
      /\ \A x, y \in Seat : <<x, x>> \in recency /\ <<y, y>> \in recency =>
                              <<x, y>> \in recency \/ <<y, x>> \in recency
      /\ \A x, y, z \in Seat : <<x, y>> \in recency /\ <<y, z>> \in recency =>
                                 <<x, z>> \in recency
  BY DEF Ordered
<1> DEFINE M == MarkUsed(s)
<1> HIDE DEF M
<1>4. \A x, y \in Seat :
        <<x, y>> \in M <=>
          IF x = s THEN y = s
          ELSE IF y = s THEN <<x, x>> \in recency \/ <<x, s>> \in recency
          ELSE <<x, y>> \in recency
  BY <1>2 DEF M
<1>5. \A x, y \in Seat : <<x, y>> \in M => <<x, x>> \in M /\ <<y, y>> \in M
  BY <1>3, <1>4
<1>6. \A x, y \in Seat : <<x, x>> \in M /\ <<y, y>> \in M => <<x, y>> \in M \/ <<y, x>> \in M
  BY <1>3, <1>4
<1>7. \A x, y, z \in Seat : <<x, y>> \in M /\ <<y, z>> \in M => <<x, z>> \in M
  BY <1>3, <1>4
<1>8. MarkUsed(s) \in SUBSET (Seat \X Seat)
  BY <1>1 DEF MarkUsed
<1>9. QED
  BY <1>5, <1>6, <1>7, <1>8 DEF Ordered, M

LEMMA UsedInOrderKept == Inv /\ UsedInOrder /\ [Next]_vars => UsedInOrder'
<1> SUFFICES ASSUME Inv, UsedInOrder, [Next]_vars PROVE UsedInOrder'
  OBVIOUS
<1>1. CASE UNCHANGED <<recency, reload>>
  BY <1>1 DEF UsedInOrder
<1>2. CASE \E r \in Request : Succeed(r) /\ req[r].seat \in Seat /\ reload' = reload
  <2>1. PICK r \in Request : Succeed(r) /\ req[r].seat \in Seat
    BY <1>2
  <2>2. recency' = recency \/ recency' = MarkUsed(req[r].seat)
    BY <2>1 DEF Succeed
  <2>3. Ordered(recency)'
    BY <2>1, <2>2, MarkUsedOrdered DEF Inv, UsedInOrder, Ordered
  <2>4. QED
    BY <1>2, <2>3 DEF UsedInOrder
<1>3. CASE ReloadReplaces
  <2>1. /\ Ordered(reload.recency)
        /\ recency' = reload.recency \cap (reload.seats \X reload.seats)
        /\ ~reload'.running
    BY <1>3 DEF ReloadReplaces, UsedInOrder, Nothing
  <2>2. reload.recency \in SUBSET (Seat \X Seat)
    <3>1. reload \in Loaded
      BY <1>3 DEF ReloadReplaces, Inv, TypeOK, Nothing
    <3>2. QED
      BY <3>1 DEF Loaded
  <2> DEFINE R == reload.recency
             S == reload.seats
             Q == R \cap (S \X S)
  <2>3. \A x, y : <<x, y>> \in Q <=> <<x, y>> \in R /\ x \in S /\ y \in S
    OBVIOUS
  <2> HIDE DEF Q
  <2>5. Ordered(Q)
    <3>1. \A x, y \in Seat : <<x, y>> \in Q => <<x, x>> \in Q /\ <<y, y>> \in Q
      BY <2>1, <2>3 DEF Ordered
    <3>2. \A x, y \in Seat : <<x, x>> \in Q /\ <<y, y>> \in Q => <<x, y>> \in Q \/ <<y, x>> \in Q
      BY <2>1, <2>3 DEF Ordered
    <3>3. \A x, y, z \in Seat : <<x, y>> \in Q /\ <<y, z>> \in Q => <<x, z>> \in Q
      BY <2>1, <2>3 DEF Ordered
    <3>4. QED
      BY <3>1, <3>2, <3>3 DEF Ordered
  <2>6. recency' = Q
    BY <2>1 DEF Q
  <2>7. Ordered(recency)'
    BY <2>5, <2>6 DEF Ordered
  <2>8. QED
    BY <2>1, <2>7 DEF UsedInOrder
<1>4. CASE recency' = recency /\ \E seats : LoadWith(seats)
  <2>1. reload'.recency = recency
    BY <1>4 DEF LoadWith
  <2>2. QED
    BY <1>4, <2>1 DEF UsedInOrder, Ordered
<1>5. CASE \E r \in Request : RequestStep(r)
  <2>1. PICK r \in Request : RequestStep(r)
    BY <1>5
  <2>2. CASE Deliver(r) \/ DirectAnswer(r)
    <3>1. req[r].seat \in Seat /\ reload' = reload
      BY <2>2, Record DEF Deliver, DirectAnswer, Holding
    <3>2. Succeed(r) \/ recency' = recency
      BY <2>2 DEF Deliver, DirectAnswer
    <3>3. QED
      BY <1>1, <1>2, <3>1, <3>2
  <2>3. CASE Start(r) \/ ModelsFetched(r)
    BY <1>1, <2>3 DEF Start, ModelsFetched, poolVars
  <2>4. CASE \E s \in Seat : Claim(r, s)
    BY <1>1, <2>4 DEF Claim
  <2>5. CASE RejectClaimed(r) \/ Book(r) \/ ReleaseClaim(r) \/ NoCandidate(r) \/ BookForced(r)
    BY <1>1, <2>5 DEF RejectClaimed, Book, ReleaseClaim, NoCandidate, BookForced
  <2>6. CASE TryOnceReturns(r) \/ RetryElsewhere(r) \/ Leave(r)
    BY <1>1, <2>6 DEF TryOnceReturns, RetryElsewhere, Leave
  <2>7. QED
    BY <2>1, <2>2, <2>3, <2>4, <2>5, <2>6 DEF RequestStep
<1>6. CASE \E s \in Seat : ConditionChanges(s) \/ OperatorDelete(s)
  BY <1>1, <1>4, <1>6 DEF ConditionChanges, OperatorDelete, poolVars
<1>7. CASE StatusPeek \/ ReloadLoads
  BY <1>1, <1>4, <1>7 DEF StatusPeek, ReloadLoads, poolVars
<1>8. CASE UNCHANGED vars
  BY <1>1, <1>8 DEF vars, poolVars
<1>9. QED
  BY <1>3, <1>5, <1>6, <1>7, <1>8 DEF Next

----------------------------------------------------------------------------
(* A finite set has a least element under a total preorder: the element     *)
(* below which the fewest others are.                                       *)
LEMMA LeastExists ==
  ASSUME NEW S, IsFiniteSet(S), S # {}, NEW R,
         \A s, t \in S : <<s, t>> \in R \/ <<t, s>> \in R,
         \A s, t, u \in S : <<s, t>> \in R /\ <<t, u>> \in R => <<s, u>> \in R
  PROVE  \E s \in S : \A t \in S : <<s, t>> \in R
<1> DEFINE below(s) == {t \in S : <<t, s>> \in R}
           D == {below(s) : s \in S}
           F == FiniteSubsetsOf(S)
           less == StrictSubsetOrdering(S)
<1>1. IsWellFoundedOn(less, F)
  BY FS_StrictSubsetOrderingWellFounded
<1>2. D \subseteq F /\ D # {}
  <2>1. \A s : below(s) \in SUBSET S
    OBVIOUS
  <2>2. \A U \in SUBSET S : IsFiniteSet(U)
    BY FS_Subset
  <2>3. \A s : below(s) \in F
    BY <2>1, <2>2 DEF FiniteSubsetsOf
  <2>4. PICK s \in S : TRUE
    OBVIOUS
  <2>5. below(s) \in D
    OBVIOUS
  <2> HIDE DEF F
  <2>6. \A d \in D : \E x : d = below(x)
    OBVIOUS
  <2> HIDE DEF below
  <2>7. QED
    BY <2>3, <2>5, <2>6
<1>3. PICK d \in D : \A e \in D : ~(<<e, d>> \in less)
  <2> HIDE DEF D, F, less
  <2>1. QED
    BY <1>1, <1>2, WFMin
<1>4. PICK s \in S : d = below(s)
  OBVIOUS
<1>5. ASSUME NEW t \in S, <<s, t>> \notin R PROVE FALSE
  <2>1. <<t, s>> \in R
    BY <1>5
  <2>2. below(t) \subseteq below(s)
    BY <1>5, <2>1
  <2>3. s \in below(s) /\ s \notin below(t)
    BY <1>5
  <2>4. below(t) # below(s)
    BY <2>3
  <2>5. <<below(t), d>> \in less
    BY <1>4, <2>2, <2>4 DEF StrictSubsetOrdering
  <2>6. below(t) \in D
    BY <1>5
  <2>7. QED
    BY <1>3, <2>5, <2>6
<1>6. QED
  BY <1>5

(* The ways selection narrows a set of seats down all leave one over.       *)
LEMMA LeastLoadedExists ==
  ASSUME TypeOK, NEW S \in SUBSET Seat, S # {} PROVE LeastLoaded(S) # {}
<1> DEFINE R == {p \in S \X S : effectiveInflight(p[1]) <= effectiveInflight(p[2])}
<1>1. IsFiniteSet(S)
  BY SelectionAssumption, FS_Subset
<1>2. \A s \in S : effectiveInflight(s) \in Nat
  BY DEF TypeOK, SelectionTypeOK, effectiveInflight
<1>3. \A s, t \in S : <<s, t>> \in R <=> effectiveInflight(s) <= effectiveInflight(t)
  OBVIOUS
<1> HIDE DEF R
<1>4. \A s, t \in S : <<s, t>> \in R \/ <<t, s>> \in R
  <2> TAKE s, t \in S
  <2>1. effectiveInflight(s) \in Nat /\ effectiveInflight(t) \in Nat
    BY <1>2
  <2>2. effectiveInflight(s) <= effectiveInflight(t) \/ effectiveInflight(t) <= effectiveInflight(s)
    BY <2>1
  <2>3. QED
    BY <1>3, <2>2
<1>5. \A s, t, u \in S : <<s, t>> \in R /\ <<t, u>> \in R => <<s, u>> \in R
  BY <1>2, <1>3
<1>6. \E s \in S : \A t \in S : <<s, t>> \in R
  BY <1>1, <1>4, <1>5, LeastExists
<1>7. QED
  BY <1>3, <1>6 DEF LeastLoaded

LEMMA BestTierExists ==
  ASSUME NEW S, S # {} PROVE BestTier(S) # {}
<1>1. \A s : accountTier(s) \in {1, 2}
  BY DEF accountTier
<1>2. CASE \E s \in S : accountTier(s) = 1
  BY <1>1, <1>2 DEF BestTier
<1>3. CASE \A s \in S : accountTier(s) = 2
  BY <1>3 DEF BestTier
<1>4. QED
  BY <1>1, <1>2, <1>3

LEMMA LeastRecentExists ==
  ASSUME TypeOK, Ordered(recency), NEW S \in SUBSET Seat, S # {}
  PROVE  LeastRecent(S) # {}
<1>1. CASE \E s \in S : ~Used(s)
  BY <1>1 DEF LeastRecent, Else
<1>2. CASE \A s \in S : Used(s)
  <2>1. IsFiniteSet(S)
    BY SelectionAssumption, FS_Subset
  <2>2. \A s, t \in S : <<s, t>> \in recency \/ <<t, s>> \in recency
    BY <1>2 DEF Used, Ordered
  <2>3. \A s, t, u \in S : <<s, t>> \in recency /\ <<t, u>> \in recency => <<s, u>> \in recency
    BY DEF Ordered
  <2>4. \E s \in S : \A t \in S : <<s, t>> \in recency
    BY <2>1, <2>2, <2>3, LeastExists
  <2>5. QED
    BY <1>2, <2>4 DEF LeastRecent, Else
<1>3. QED
  BY <1>1, <1>2

LEMMA MatchingExists ==
  ASSUME TypeOK, Ordered(recency), NEW S \in SUBSET Seat, NEW c, Open(S, c) # {}
  PROVE  SelectMatching(S, c) # {}
<1> DEFINE open == Open(S, c)
           relaxed == {s \in open : condition[s] # "pressed"}
           tier(n) == {s \in relaxed : accountTier(s) = n}
           group == Else(tier(1), Else(tier(2), open))
<1>1. open \in SUBSET Seat /\ open # {}
  BY DEF Open
<1>2. CASE c.type = "codex"
  <2>1. BestTier(open) # {} /\ BestTier(open) \in SUBSET Seat
    BY <1>1, BestTierExists DEF BestTier
  <2> HIDE DEF open
  <2>2. LeastLoaded(BestTier(open)) # {}
    BY <2>1, LeastLoadedExists
  <2>3. QED
    BY <1>2, <2>2 DEF SelectMatching, open
<1>3. CASE c.type # "codex"
  <2>1. group # {} /\ group \in SUBSET Seat
    BY <1>1 DEF Else
  <2>2. SelectMatching(S, c) = BestScored(group)
    BY <1>3 DEF SelectMatching
  <2> HIDE DEF group
  <2>3. LeastLoaded(group) # {} /\ LeastLoaded(group) \in SUBSET Seat
    BY <2>1, LeastLoadedExists DEF LeastLoaded
  <2>4. LeastRecent(LeastLoaded(group)) # {}
    BY <2>3, LeastRecentExists
  <2>5. QED
    BY <2>1, <2>2, <2>4 DEF BestScored
<1>4. QED
  BY <1>2, <1>3

(* candidateAtLocked never answers nil while a usable seat is left.         *)
LEMMA UsableSeatIsFound ==
  ASSUME TypeOK, Ordered(recency), NEW r \in Request, UsableSeats(r) # {}
  PROVE  Candidates(Call(r)) # {}
<1> DEFINE c == Call(r)
<1>1. PICK s \in UsableSeats(r) : TRUE
  OBVIOUS
<1>2. s \in Seat
  BY DEF UsableSeats, TypeOK, SelectionTypeOK
<1>3. CASE WantType[r] # "codex"
  <2>1. s \in Open(Seat, c)
    BY <1>2, <1>3 DEF UsableSeats, Open, Routable, Call, APISeats, AccountType
  <2>2. SelectMatching(Seat, c) # {}
    BY <2>1, MatchingExists
  <2>3. QED
    BY <1>3, <2>2 DEF Candidates, Else, Select, Call
<1>4. CASE WantType[r] = "codex" /\ s \in LocalCodex(WantPlan[r]) /\ WantPlan[r] \in {AnyPlan, Plan[s]}
  <2>1. s \in Open(LocalCodex(c.plan), c)
    BY <1>2, <1>4 DEF UsableSeats, Open, Routable, Call
  <2>2. LocalCodex(c.plan) \in SUBSET Seat
    BY DEF LocalCodex
  <2>3. LocalChoice(c) # {}
    BY <2>1, <2>2, MatchingExists DEF LocalChoice
  <2>4. QED
    BY <1>4, <2>3 DEF Candidates, Else, Select, Call
<1>5. CASE WantType[r] = "codex" /\ s \in APISeats /\ ~codexRequiresGitLabPlan(WantPlan[r])
  <2>1. s \in Open(APISeats, ForAnyPlan(c))
    BY <1>2, <1>5 DEF UsableSeats, Open, Routable, Call, ForAnyPlan
  <2>2. APISeats \in SUBSET Seat
    BY DEF APISeats
  <2>3. SelectMatching(APISeats, ForAnyPlan(c)) # {}
    BY <2>1, <2>2, MatchingExists
  <2>4. QED
    BY <1>5, <2>3 DEF Candidates, Else, Select, Call
<1>6. QED
  BY <1>1, <1>3, <1>4, <1>5 DEF UsableSeats

(* What selection returns is a seat of the provider, in the pool and not    *)
(* among those the request has excluded.                                    *)
LEMMA CandidateIsNew ==
  ASSUME TypeOK, NEW r \in Request, NEW s \in Candidates(Call(r))
  PROVE  s \in Provider(r) \ req[r].exclude
<1> DEFINE c == Call(r)
<1>1. ASSUME NEW S, NEW x \in Open(S, c) PROVE x \in Provider(r) \ req[r].exclude
  BY DEF Open, Routable, Provider, Call
<1>2. ASSUME NEW S, NEW x \in Open(S, ForAnyPlan(c)) PROVE x \in Provider(r) \ req[r].exclude
  BY DEF Open, Routable, Provider, Call, ForAnyPlan
<1>3. s \in Pinned(c) \/ s \in Sticky(c) \/ s \in Select(c)
  BY DEF Candidates, Else
<1>4. CASE s \in Pinned(c)
  <2>1. s \in Open(Seat, c)
    BY <1>4 DEF Pinned, StickyOpen
  <2>2. QED
    BY <1>1, <2>1
<1>5. CASE s \in Sticky(c)
  <2>1. \E S : s \in Open(S, c) \/ s \in Open(S, ForAnyPlan(c))
    BY <1>5 DEF Sticky, Else, ActiveCodex, ActiveGemini, MostRecent, StickyOpen
  <2>2. QED
    BY <1>1, <1>2, <2>1
<1>6. CASE s \in Select(c)
  <2>1. ASSUME NEW S, NEW k, NEW x \in SelectMatching(S, k) PROVE x \in Open(S, k)
    BY DEF SelectMatching, BestTier, LeastLoaded, BestScored, LeastRecent, Else
  <2>2. \E S : s \in Open(S, c) \/ s \in Open(S, ForAnyPlan(c))
    <3>1. \/ \E S : s \in SelectMatching(S, c) \/ s \in SelectMatching(S, ForAnyPlan(c))
          \/ s \in ActiveAPI(c)
      BY <1>6 DEF Select, LocalChoice, Else
    <3>2. s \in ActiveAPI(c) => s \in Open(APISeats, ForAnyPlan(c))
      BY DEF ActiveAPI, StickyOpen
    <3>3. QED
      BY <2>1, <3>1, <3>2
  <2>3. QED
    BY <1>1, <1>2, <2>2
<1>7. QED
  BY <1>3, <1>4, <1>5, <1>6

----------------------------------------------------------------------------
(* Both bounds reach the number of seats of the provider.                   *)
LEMMA BoundsReach ==
  ASSUME Inv, NEW r \in Request
  PROVE  /\ Cardinality(Provider(r)) \in Nat
         /\ Budget(r) \in Nat
         /\ Budget(r) >= Cardinality(Provider(r))
         /\ Attempts(r) \in Nat
         /\ Mode[r] = "buffered" => Attempts(r) >= Cardinality(Provider(r))
<1> DEFINE n == Cardinality(Provider(r))
           all == Cardinality(pool)
<1>1. IsFiniteSet(pool) /\ all \in Nat
  BY SelectionAssumption, FS_Subset, FS_CardinalityType DEF Inv, TypeOK, SelectionTypeOK
<1>2. n \in Nat /\ n <= all
  <2>1. Provider(r) \in SUBSET pool
    BY DEF Provider
  <2>2. QED
    BY <1>1, <2>1, FS_Subset, FS_CardinalityType
<1>3. countByType(WantType[r]) = n
  BY DEF countByType, Provider
<1>4. Budget(r) \in Nat /\ Attempts(r) \in Nat
  BY BudgetTyped
<1> HIDE DEF n, all
<1>5. Budget(r) >= n
  BY <1>1, <1>2, <1>3, <1>4 DEF Budget
<1>6. Mode[r] = "buffered" => Attempts(r) >= n
  <2> DEFINE wanted == {1, MaxAttempts, n}
             most == CHOOSE k \in wanted : \A m \in wanted : m <= k
  <2>1. MaxAttempts \in Nat
    BY RequestAssumption
  <2>2. \E k \in wanted : \A m \in wanted : m <= k
    BY <1>2, <2>1
  <2>3. most \in wanted /\ \A m \in wanted : m <= most
    BY <2>2
  <2>4. Mode[r] = "buffered" =>
          Attempts(r) = IF all > 0 /\ most > all THEN all ELSE most
    BY <1>3 DEF Attempts, all
  <2> HIDE DEF most
  <2>5. n <= most /\ most \in Nat
    BY <1>2, <2>1, <2>3
  <2>6. QED
    BY <1>1, <1>2, <2>4, <2>5
<1>7. QED
  BY <1>2, <1>4, <1>5, <1>6 DEF n

(* How many seats of the provider a request has tried: never more than there *)
(* are, and as many as there are only when none is left.                     *)
LEMMA TriedBound ==
  ASSUME Inv, NEW r \in Request
  PROVE  /\ Tried(r) \in Nat
         /\ Tried(r) >= Cardinality(Provider(r)) => UsableSeats(r) = {}
<1> DEFINE T == Provider(r) \cap req[r].exclude
<1>1. IsFiniteSet(Provider(r))
  <2>1. Provider(r) \in SUBSET Seat
    BY DEF Provider, Inv, TypeOK, SelectionTypeOK
  <2>2. QED
    BY <2>1, SelectionAssumption, FS_Subset
<1>2. /\ T \in SUBSET Provider(r)
      /\ IsFiniteSet(T)
      /\ Cardinality(T) \in Nat
      /\ Cardinality(Provider(r)) \in Nat
      /\ Cardinality(T) <= Cardinality(Provider(r))
      /\ Cardinality(T) = Cardinality(Provider(r)) => Provider(r) = T
  BY <1>1, FS_Subset, FS_CardinalityType
<1>3. Provider(r) = T => UsableSeats(r) = {}
  BY DEF UsableSeats, Provider
<1>4. Tried(r) = Cardinality(T)
  BY DEF Tried
<1> HIDE DEF T
<1>5. QED
  BY <1>2, <1>3, <1>4

(* The count before and after a step that leaves the pool alone.            *)
LEMMA TriedSame ==
  ASSUME NEW r \in Request, pool' = pool, req'[r].exclude = req[r].exclude
  PROVE  Tried(r)' = Tried(r)
BY DEF Tried, Provider

LEMMA TriedMore ==
  ASSUME Inv, NEW r \in Request, pool' = pool, NEW s \in Provider(r) \ req[r].exclude,
         req'[r].exclude = req[r].exclude \cup {s}
  PROVE  Tried(r)' = Tried(r) + 1
<1> DEFINE T == Provider(r) \cap req[r].exclude
<1>1. Provider(r) \in SUBSET Seat
  BY DEF Provider, Inv, TypeOK, SelectionTypeOK
<1>2. IsFiniteSet(T)
  BY <1>1, SelectionAssumption, FS_Subset
<1>3. Tried(r) = Cardinality(T)
  BY DEF Tried
<1>4. Provider(r)' = Provider(r)
  BY DEF Provider
<1>5. Tried(r)' = Cardinality(T \cup {s})
  <2>1. (Provider(r) \cap req[r].exclude)' = T \cup {s}
    BY <1>4
  <2>2. QED
    BY <2>1 DEF Tried
<1>6. s \notin T
  OBVIOUS
<1> HIDE DEF T
<1>7. QED
  BY <1>2, <1>3, <1>5, <1>6, FS_AddElement

(* What a request step does to the one request, as far as this goes.        *)
LEMMA AfterNextAttempt ==
  ASSUME Inv, NEW r \in Request, NextAttempt(r)
  PROVE  /\ \A q \in Request \ {r} : req'[q] = req[q]
         /\ req[r].attempt < req[r].attempts =>
              /\ req'[r].phase = "choosing"
              /\ req'[r].exclude = req[r].exclude
              /\ req'[r].attempt = req[r].attempt + 1
              /\ req'[r].attempts = req[r].attempts
              /\ req'[r].budget = Budget(r)
         /\ ~(req[r].attempt < req[r].attempts) => req'[r].phase = "failed"
<1>1. req \in [Request -> Requests]
  BY Record
<1>2. CASE req[r].attempt < req[r].attempts
  BY <1>1, <1>2 DEF NextAttempt, NoRequest
<1>3. CASE ~(req[r].attempt < req[r].attempts)
  BY <1>1, <1>3 DEF NextAttempt, NoRequest, Ended
<1>4. QED
  BY <1>2, <1>3

LEMMA NumbersTyped ==
  ASSUME Inv, NEW r \in Request
  PROVE  req[r].attempt \in Nat /\ req[r].attempts \in Nat /\ req[r].budget \in Nat
BY Record DEF Requests

(* A request step keeps the request thorough.                               *)
LEMMA StepKeepsThorough ==
  ASSUME Inv, NEW r \in Request, RequestStep(r), Unhurried(r), Thorough(r)
  PROVE  Thorough(r)'
<1> DEFINE n == Cardinality(Provider(r))
           old == req[r]
           new == req'[r]
<1>1. /\ req \in [Request -> Requests]
      /\ old.attempt \in Nat /\ old.attempts \in Nat /\ old.budget \in Nat
      /\ n \in Nat
      /\ Tried(r) \in Nat
  BY Record, NumbersTyped, BoundsReach, TriedBound
<1>2. pool' = pool
  <2>1. CASE Start(r) \/ ModelsFetched(r)
    BY <2>1 DEF Start, ModelsFetched, poolVars
  <2>2. CASE \E s \in Seat : Claim(r, s)
    BY <2>2 DEF Claim
  <2>3. CASE RejectClaimed(r) \/ Book(r) \/ ReleaseClaim(r) \/ NoCandidate(r) \/ BookForced(r)
    BY <2>3 DEF RejectClaimed, Book, ReleaseClaim, NoCandidate, BookForced
  <2>4. CASE TryOnceReturns(r) \/ RetryElsewhere(r) \/ Deliver(r) \/ DirectAnswer(r) \/ Leave(r)
    BY <2>4 DEF TryOnceReturns, RetryElsewhere, Deliver, DirectAnswer, Leave
  <2>5. QED
    BY <2>1, <2>2, <2>3, <2>4 DEF RequestStep
<1>3. Cardinality(Provider(r))' = n
  BY <1>2 DEF Provider
<1>4. new.exclude = old.exclude => Tried(r)' = Tried(r)
  BY <1>2, TriedSame
<1>5. /\ old.phase \in {"choosing", "claimed"} => old.budget + Tried(r) >= n
      /\ old.phase \in {"choosing"} \cup Trying => (Mode[r] = "buffered" => old.attempts >= n)
      /\ old.phase = "choosing" => Tried(r) + 1 >= old.attempt
      /\ old.phase \in Trying => Tried(r) >= old.attempt
      /\ old.phase = "answered" => Mode[r] = "buffered"
  BY DEF Thorough
<1>6. Budget(r) \in Nat /\ Budget(r) >= n
      /\ Attempts(r) \in Nat /\ (Mode[r] = "buffered" => Attempts(r) >= n)
  BY BoundsReach
<1>7. SUFFICES /\ new.phase \in {"choosing", "claimed"} => new.budget + Tried(r)' >= n
               /\ new.phase \in {"choosing"} \cup Trying =>
                    (Mode[r] = "buffered" => new.attempts >= n)
               /\ new.phase = "choosing" => Tried(r)' + 1 >= new.attempt
               /\ new.phase \in Trying => Tried(r)' >= new.attempt
               /\ new.phase = "answered" => Mode[r] = "buffered"
  BY <1>3 DEF Thorough
<1> HIDE DEF n
<1>8. CASE Start(r)
  <2>1. /\ new.phase = "choosing" /\ new.exclude = old.exclude /\ new.attempt = 1
        /\ new.attempts = Attempts(r) /\ new.budget = Budget(r)
    BY <1>1, <1>8 DEF Start, Requests
  <2>2. QED
    BY <1>1, <1>4, <1>6, <2>1 DEF Trying, Claiming, Holding
<1>9. CASE \E s \in Seat : Claim(r, s)
  <2>1. PICK s \in Seat : Claim(r, s)
    BY <1>9
  <2>2. /\ old.phase = "choosing" /\ new.phase = "claimed"
        /\ new.exclude = old.exclude \cup {s} /\ new.attempt = old.attempt
        /\ new.attempts = old.attempts /\ new.budget = old.budget - 1
        /\ s \in Candidates(Call(r))
    BY <1>1, <2>1 DEF Claim, Requests
  <2>3. s \in Provider(r) \ old.exclude
    BY <2>2, CandidateIsNew DEF Inv
  <2>4. Tried(r)' = Tried(r) + 1
    BY <1>2, <2>2, <2>3, TriedMore
  <2>5. QED
    BY <1>1, <1>5, <2>2, <2>4 DEF Trying, Claiming
<1>10. CASE RejectClaimed(r)
  <2>1. /\ old.phase = "claimed" /\ new.phase = "choosing"
        /\ new.exclude = old.exclude /\ new.attempt = old.attempt
        /\ new.attempts = old.attempts /\ new.budget = old.budget
    BY <1>1, <1>10 DEF RejectClaimed, Requests
  <2>2. QED
    BY <1>1, <1>4, <1>5, <2>1 DEF Trying, Claiming, Holding
<1>11. CASE Book(r) \/ ReleaseClaim(r) \/ TryOnceReturns(r) \/ DirectAnswer(r)
  <2>1. /\ old.phase \in Trying /\ new.phase \in Trying \ {"choosing", "claimed"}
        /\ new.exclude = old.exclude /\ new.attempt = old.attempt
        /\ new.attempts = old.attempts
        /\ new.phase = "answered" => Mode[r] = "buffered"
    BY <1>1, <1>11
       DEF Book, ReleaseClaim, TryOnceReturns, DirectAnswer, Requests, Trying, Claiming, Holding
  <2>2. QED
    BY <1>4, <1>5, <2>1
<1>12. CASE new.phase \in {"done", "failed"}
  BY <1>12 DEF Trying, Claiming, Holding
<1>13. CASE NoCandidate(r)
  <2>1. ~CooldownError(r)
    BY DEF CooldownError, GitLabSeats, Unhurried
  <2>2. new.phase = "failed"
    BY <1>1, <1>13, <2>1 DEF NoCandidate, Ended, NoRequest
  <2>3. QED
    BY <1>12, <2>2
<1>14. CASE RetryElsewhere(r)
  <2>1. old.phase = "answered" /\ NextAttempt(r)
    BY <1>14 DEF RetryElsewhere
  <2>2. CASE old.attempt < old.attempts
    <3>1. /\ new.phase = "choosing" /\ new.exclude = old.exclude
          /\ new.attempt = old.attempt + 1
          /\ new.attempts = old.attempts /\ new.budget = Budget(r)
      BY <2>1, <2>2, AfterNextAttempt
    <3>2. old.phase \in Trying
      BY <2>1 DEF Trying
    <3>3. QED
      BY <1>1, <1>4, <1>5, <1>6, <3>1, <3>2 DEF Trying, Claiming, Holding
  <2>3. CASE ~(old.attempt < old.attempts)
    <3>1. new.phase = "failed"
      BY <2>1, <2>3, AfterNextAttempt
    <3>2. QED
      BY <1>12, <3>1
  <2>4. QED
    BY <2>2, <2>3
<1>15. CASE Deliver(r) \/ Leave(r) \/ ModelsFetched(r)
  <2>1. new.phase = "done"
    BY <1>1, <1>15 DEF Deliver, Leave, ModelsFetched, Ended, NoRequest
  <2>2. QED
    BY <1>12, <2>1
<1>16. CASE BookForced(r)
  BY <1>16 DEF BookForced, Unhurried
<1>17. QED
  BY <1>8, <1>9, <1>10, <1>11, <1>13, <1>14, <1>15, <1>16 DEF RequestStep

(* A step leaves every other request alone.                                 *)
LEMMA OthersStay ==
  ASSUME Inv, NEW r \in Request, RequestStep(r), NEW q \in Request \ {r}
  PROVE  req'[q] = req[q]
<1>1. req \in [Request -> Requests]
  BY Record
<1>2. CASE Start(r) \/ (\E s \in Seat : Claim(r, s))
  BY <1>1, <1>2 DEF Start, Claim
<1>3. CASE RejectClaimed(r) \/ Book(r) \/ ReleaseClaim(r)
  BY <1>1, <1>3 DEF RejectClaimed, Book, ReleaseClaim
<1>4. CASE NextAttempt(r)
  BY <1>4, AfterNextAttempt
<1>5. CASE NoCandidate(r)
  BY <1>1, <1>4, <1>5 DEF NoCandidate
<1>6. CASE BookForced(r)
  BY <1>1, <1>4, <1>6 DEF BookForced
<1>7. CASE TryOnceReturns(r) \/ Deliver(r) \/ DirectAnswer(r) \/ Leave(r) \/ ModelsFetched(r)
  BY <1>1, <1>7 DEF TryOnceReturns, Deliver, DirectAnswer, Leave, ModelsFetched
<1>8. CASE RetryElsewhere(r)
  BY <1>4, <1>8 DEF RetryElsewhere
<1>9. QED
  BY <1>2, <1>3, <1>5, <1>6, <1>7, <1>8 DEF RequestStep

LEMMA ThoroughKept == Inv /\ ThoroughUntilReload /\ [Next]_vars => ThoroughUntilReload'
<1> SUFFICES ASSUME Inv, ThoroughUntilReload, [Next]_vars, gen' = 0,
                    NEW q \in Request, Unhurried(q)'
             PROVE  Thorough(q)'
  BY DEF ThoroughUntilReload
<1>1. gen \in Nat
  BY DEF Inv, TypeOK, SelectionTypeOK, Generations
<1>2. UNCHANGED <<pool, gen>>
  <2>1. CASE \E r \in Request : RequestStep(r)
    <3>1. PICK r \in Request : RequestStep(r)
      BY <2>1
    <3>2. CASE Start(r) \/ ModelsFetched(r)
      BY <3>2 DEF Start, ModelsFetched, poolVars
    <3>3. CASE \E s \in Seat : Claim(r, s)
      BY <3>3 DEF Claim
    <3>4. CASE RejectClaimed(r) \/ Book(r) \/ ReleaseClaim(r) \/ NoCandidate(r) \/ BookForced(r)
      BY <3>4 DEF RejectClaimed, Book, ReleaseClaim, NoCandidate, BookForced
    <3>5. CASE TryOnceReturns(r) \/ RetryElsewhere(r) \/ Deliver(r) \/ DirectAnswer(r) \/ Leave(r)
      BY <3>5 DEF TryOnceReturns, RetryElsewhere, Deliver, DirectAnswer, Leave
    <3>6. QED
      BY <3>1, <3>2, <3>3, <3>4, <3>5 DEF RequestStep
  <2>2. CASE ReloadReplaces
    BY <1>1, <2>2 DEF ReloadReplaces
  <2>3. QED
    BY <2>1, <2>2
       DEF Next, ConditionChanges, OperatorDelete, StatusPeek, ReloadLoads, vars, poolVars
<1>3. Unhurried(q)
  BY <1>2 DEF Unhurried, GitLabServers
<1>4. Thorough(q)
  BY <1>2, <1>3 DEF ThoroughUntilReload
<1>5. CASE req'[q] = req[q]
  <2>1. Provider(q)' = Provider(q) /\ Tried(q)' = Tried(q)
    BY <1>2, <1>5 DEF Provider, Tried
  <2>2. QED
    BY <1>4, <1>5, <2>1 DEF Thorough
<1>6. CASE \E r \in Request : RequestStep(r)
  BY <1>3, <1>4, <1>5, <1>6, OthersStay, StepKeepsThorough
<1>7. CASE req' = req
  BY <1>5, <1>7
<1>8. QED
  BY <1>6, <1>7 DEF Next, ConditionChanges, OperatorDelete, StatusPeek, ReloadLoads,
                    ReloadReplaces, vars, poolVars

(* Only plain exhaustion and a last answered attempt fail a request that    *)
(* names no seat.                                                           *)
LEMMA FailsForAReason ==
  ASSUME Inv, Next, NEW r \in Request, Unhurried(r), Thorough(r),
         req[r].phase # "failed", req'[r].phase = "failed"
  PROVE  \/ req[r].phase = "choosing" /\ (req[r].budget = 0 \/ Candidates(Call(r)) = {})
         \/ /\ req[r].phase = "answered" /\ Mode[r] = "buffered"
            /\ ~(req[r].attempt < req[r].attempts)
<1>1. req' # req
  OBVIOUS
<1>2. PICK q \in Request : RequestStep(q)
  BY <1>1 DEF Next, ConditionChanges, OperatorDelete, StatusPeek, ReloadLoads,
              ReloadReplaces, poolVars
<1>3. RequestStep(r)
  BY <1>2, OthersStay
<1>4. req \in [Request -> Requests]
  BY Record
<1>5. CASE NoCandidate(r)
  BY <1>5 DEF NoCandidate
<1>6. CASE RetryElsewhere(r)
  BY <1>6, AfterNextAttempt DEF RetryElsewhere, Thorough
<1>7. CASE Start(r) \/ (\E s \in Seat : Claim(r, s)) \/ RejectClaimed(r) \/ Book(r)
  <2>1. CASE Start(r)
    BY <1>4, <2>1 DEF Start, Requests
  <2>2. CASE \E s \in Seat : Claim(r, s)
    BY <1>4, <2>2 DEF Claim, Requests
  <2>3. CASE RejectClaimed(r) \/ Book(r)
    BY <1>4, <2>3 DEF RejectClaimed, Book, Requests
  <2>4. QED
    BY <1>7, <2>1, <2>2, <2>3
<1>8. CASE ReleaseClaim(r) \/ TryOnceReturns(r) \/ DirectAnswer(r)
  BY <1>4, <1>8 DEF ReleaseClaim, TryOnceReturns, DirectAnswer, Requests
<1>9. CASE Deliver(r) \/ Leave(r) \/ ModelsFetched(r)
  BY <1>4, <1>9 DEF Deliver, Leave, ModelsFetched, Ended, NoRequest
<1>10. CASE BookForced(r)
  BY <1>10 DEF BookForced, Unhurried
<1>11. QED
  BY <1>3, <1>5, <1>6, <1>7, <1>8, <1>9, <1>10 DEF RequestStep

(* The bounds of runBufferedAttemptContour (main.go:1365) and               *)
(* claimPathSupportingCandidate and the exclude set fit together for every  *)
(* pool and every number of attempts: until a reload, a request that names  *)
(* no seat and has no GitLab seat among its servers gives up only when it   *)
(* has tried, or may not use, every seat of its provider.                   *)
THEOREM NoSeatLeftUntried == Spec => GivesUpOnlyWhenExhausted
<1> DEFINE All == Inv /\ UsedInOrder /\ ThoroughUntilReload
<1>1. All /\ [Next]_vars =>
        [\A r \in Request :
           (/\ req[r].phase # "failed" /\ req'[r].phase = "failed"
            /\ gen = 0 /\ Forced[r] = NoSeat /\ GitLabServers(r) = {})
           => UsableSeats(r) = {}]_vars
  <2> SUFFICES ASSUME All, Next, NEW r \in Request,
                      req[r].phase # "failed", req'[r].phase = "failed",
                      gen = 0, Forced[r] = NoSeat, GitLabServers(r) = {}
               PROVE  UsableSeats(r) = {}
    OBVIOUS
  <2>1. Unhurried(r) /\ Thorough(r)
    BY DEF Unhurried, ThoroughUntilReload
  <2> DEFINE n == Cardinality(Provider(r))
  <2>2. n \in Nat /\ Tried(r) \in Nat /\ (Tried(r) >= n => UsableSeats(r) = {})
    BY TriedBound, BoundsReach
  <2>3. req[r].attempt \in Nat /\ req[r].attempts \in Nat /\ req[r].budget \in Nat
    BY NumbersTyped
  <2>4. /\ req[r].phase = "choosing" => req[r].budget + Tried(r) >= n
        /\ req[r].phase = "answered" => (Mode[r] = "buffered" => req[r].attempts >= n)
        /\ req[r].phase = "answered" => Tried(r) >= req[r].attempt
    BY <2>1 DEF Thorough, Trying
  <2> HIDE DEF n
  <2>5. CASE req[r].phase = "choosing" /\ req[r].budget = 0
    BY <2>2, <2>3, <2>4, <2>5
  <2>6. CASE Candidates(Call(r)) = {}
    BY <2>6, UsableSeatIsFound DEF Inv, UsedInOrder
  <2>7. CASE /\ req[r].phase = "answered" /\ Mode[r] = "buffered"
             /\ ~(req[r].attempt < req[r].attempts)
    BY <2>2, <2>3, <2>4, <2>7
  <2>8. QED
    BY <2>1, <2>5, <2>6, <2>7, FailsForAReason
<1>2. Init => UsedInOrder /\ ThoroughUntilReload
  BY DEF Init, UsedInOrder, Ordered, Nothing, ThoroughUntilReload, Thorough, NoRequest,
         Trying, Claiming, Holding
<1>3. QED
  BY <1>1, <1>2, UsedInOrderKept, ThoroughKept, Invariant, PTL
     DEF Spec, GivesUpOnlyWhenExhausted
=============================================================================
