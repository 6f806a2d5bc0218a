--------------------------- MODULE SeatSelection ---------------------------
(***************************************************************************)
(* Which account ("seat") the pool hands to a request: pool.go,            *)
(* candidateAtLocked and everything it calls.  The module declares the     *)
(* state that poolState keeps and defines, for a call of the selector, the *)
(* set of seats it may return and what it does to the three "active seat"  *)
(* fields.  SeatPool.tla adds the requests that call it.                   *)
(*                                                                         *)
(* Scores (scoreAccountLocked) are sums of floats nobody can predict from  *)
(* the control state: seats that only a score tells apart are all possible *)
(* results, so every operator here returns a set.                          *)
(***************************************************************************)
EXTENDS Integers, FiniteSets

CONSTANTS
  Seat,           \* account IDs
  Conversation,   \* conversation IDs a client may send
  NoSeat,         \* the empty account ID
  Kind,           \* [Seat -> Kinds]: provider and auth mode of a seat
  Plan,           \* [Seat -> Plans]: its plan_type
  MaxReloads      \* bound: how many times the pool is reloaded

Kinds == {"codex", "codex_api", "codex_gitlab",
          "claude", "claude_gitlab", "gemini", "other"}

AnyPlan == ""
Plans == {"pro", "team", "api", "gitlab", "max", "ultra"}

(* What routingStateLocked sees of a seat, one value per outcome that      *)
(* selection tells apart: "pressed" is routable with its secondary window  *)
(* over tierThreshold, "expired" is routable with an access token past its *)
(* expiry that bars it from sticky reuse, "model_limited" is a Gemini seat *)
(* whose requested model cools down, "cooling" is blocked by               *)
(* RateLimitUntil, "blocked" by anything else.                             *)
Conditions == {"ready", "pressed", "expired", "model_limited", "cooling", "blocked"}

ASSUME SelectionAssumption ==
  /\ IsFiniteSet(Seat)
  /\ NoSeat \notin Seat
  /\ Kind \in [Seat -> Kinds]
  /\ Plan \in [Seat -> Plans]
  /\ MaxReloads \in Nat

VARIABLES
  pool,           \* poolState.accounts: the seats of the current generation
  gen,            \* how often replace installed a new set of Account objects
  condition,      \* [Seat -> Conditions]
  inflight,       \* Account.Inflight of the object each generation made of a seat
  pendingClaims,  \* poolState.pendingClaims
  convPin,        \* poolState.convPin
  activeCodexID, activeAPIID, activeGeminiID,
  recency         \* <<s, t>>: both used, s not after t (Account.LastUsed)

poolVars == <<pool, gen, condition, inflight, pendingClaims, convPin,
              activeCodexID, activeAPIID, activeGeminiID, recency>>

Generations == 0..MaxReloads
Calls == [type : {"codex", "claude", "gemini", "other"}, plan : {AnyPlan} \cup Plans,
          conv : Conversation \cup {NoSeat}, exclude : SUBSET Seat]

AccountType(s) ==
  CASE Kind[s] \in {"codex", "codex_api", "codex_gitlab"} -> "codex"
    [] Kind[s] \in {"claude", "claude_gitlab"} -> "claude"
    [] OTHER -> Kind[s]

accountTier(s) ==
  IF <<AccountType(s), Plan[s]>> \in
       {<<"claude", "max">>, <<"codex", "pro">>, <<"gemini", "ultra">>}
  THEN 1 ELSE 2

codexRequiresGitLabPlan(plan) == plan = "gitlab"

----------------------------------------------------------------------------
(* A call c is [type, plan, conv, exclude].                                *)

(* routingStateLocked(...).Eligible, planMatchesRequired included. *)
Routable(s, c) ==
  /\ s \in pool
  /\ AccountType(s) = c.type
  /\ c.plan \in {AnyPlan, Plan[s]}
  /\ condition[s] \notin {"cooling", "blocked"}

Open(S, c) == {s \in S \ c.exclude : Routable(s, c)}

(* authExpiryBlocksStickySelectionLocked: a local Codex seat with a refresh *)
(* token is never barred, it refreshes on demand.                          *)
FreshAuth(s) == condition[s] # "expired" \/ Kind[s] \in {"codex", "codex_gitlab"}

StickyOpen(S, c) == {s \in Open(S, c) : FreshAuth(s)}

(* Mutant: load without the pending claims. *)
effectiveInflightBooked(s) == inflight[gen][s]

effectiveInflight(s) == inflight[gen][s] + pendingClaims[s]

Used(s) == <<s, s>> \in recency
MarkUsed(s) == {p \in recency : p[1] # s}
                 \cup (({t \in Seat : Used(t)} \cup {s}) \X {s})

Else(S, T) == IF S # {} THEN S ELSE T

LocalCodex(plan) ==
  {s \in Seat : Kind[s] = IF codexRequiresGitLabPlan(plan) THEN "codex_gitlab" ELSE "codex"}
APISeats == {s \in Seat : Kind[s] = "codex_api"}
ForAnyPlan(c) == [c EXCEPT !.plan = AnyPlan]

(* stickyEligibleCandidateMatchingLocked: the most recently used one. *)
MostRecent(S, c) ==
  LET reusable == {s \in StickyOpen(S, c) : Used(s)}
  IN {s \in reusable : \A t \in reusable : <<t, s>> \in recency}

(* pinnedEligibleCandidateLocked *)
Pinned(c) ==
  {s \in StickyOpen(Seat, c) : c.conv \in Conversation /\ convPin[c.conv] = s}

(* activeCodexCandidateLocked(managed = FALSE), (managed = TRUE) and       *)
(* activeGeminiCandidateLocked, each with what it leaves in its field: an  *)
(* active seat that cannot serve this very call is forgotten for all.      *)
ActiveCodex(c) == {s \in StickyOpen(LocalCodex(c.plan), c) : s = activeCodexID}
ActiveAPI(c) == {s \in StickyOpen(APISeats, ForAnyPlan(c)) : s = activeAPIID}
ActiveGemini(c) == {s \in StickyOpen(Seat, c) : s = activeGeminiID}
Keep(active, found, c) == IF active \in c.exclude \/ found # {} THEN active ELSE NoSeat

(* codexStickySeatNeedsRotationLocked *)
NeedsRotation(s, c) ==
  /\ effectiveInflight(s) > 0
  /\ \E t \in StickyOpen(LocalCodex(c.plan), c) \ {s} :
       effectiveInflight(t) < effectiveInflight(s)

(* stickyEligibleCandidateLocked *)
Sticky(c) ==
  CASE c.type = "codex" ->
         Else({s \in ActiveCodex(c) : ~NeedsRotation(s, c)},
         Else({s \in MostRecent(LocalCodex(c.plan), c) : ~NeedsRotation(s, c)},
              IF codexRequiresGitLabPlan(c.plan) THEN {}
              ELSE MostRecent(APISeats, ForAnyPlan(c))))
    [] c.type = "gemini" -> Else(ActiveGemini(c), MostRecent(Seat, c))
    [] c.type = "claude" -> MostRecent({s \in Seat : Kind[s] # "claude_gitlab"}, c)
    [] OTHER -> MostRecent(Seat, c)

BestTier(S) == {s \in S : \A t \in S : accountTier(s) <= accountTier(t)}
LeastLoaded(S) == {s \in S : \A t \in S : effectiveInflight(s) <= effectiveInflight(t)}
LeastRecent(S) ==
  Else({s \in S : ~Used(s)}, {s \in S : \A t \in S : <<s, t>> \in recency})

(* betterScoredAccount among seats that are not Codex: GitLab Claude seats *)
(* are compared by load, then by recency; any other pair by score alone,   *)
(* which makes the comparison of a mixed group order-dependent.            *)
BestScored(S) ==
  IF \A s \in S : Kind[s] = "claude_gitlab" THEN LeastRecent(LeastLoaded(S)) ELSE S

SelectMatching(S, c) ==
  LET open == Open(S, c)
      relaxed == {s \in open : condition[s] # "pressed"}
      tier(n) == {s \in relaxed : accountTier(s) = n}
  IN IF c.type = "codex" THEN LeastLoaded(BestTier(open))
     ELSE BestScored(Else(tier(1), Else(tier(2), open)))

(* selectEligibleCandidateLocked *)
LocalChoice(c) == SelectMatching(LocalCodex(c.plan), c)
Select(c) ==
  IF c.type # "codex" THEN SelectMatching(Seat, c)
  ELSE Else(LocalChoice(c),
            IF codexRequiresGitLabPlan(c.plan) THEN {}
            ELSE Else(ActiveAPI(c), SelectMatching(APISeats, ForAnyPlan(c))))

(* candidateAtLocked: the seats it may return, {} for nil. *)
Candidates(c) == Else(Pinned(c), Else(Sticky(c), Select(c)))

----------------------------------------------------------------------------
(* What a call leaves in the active-seat fields once it returned s (NoSeat  *)
(* for nil): stale fields cleared on the way, and the result remembered by  *)
(* rememberSelectedSeatLocked when the call advances and excludes nothing.  *)
Remembers(c, s, advance, isAPI) ==
  /\ advance
  /\ c.exclude = {}
  /\ s # NoSeat
  /\ c.type = "codex"
  /\ (Kind[s] = "codex_api") = isAPI

LookedAtAPI(c) ==
  Sticky(c) = {} /\ LocalChoice(c) = {} /\ ~codexRequiresGitLabPlan(c.plan)

UpdateActive(c, s, advance) ==
  IF Pinned(c) # {} THEN UNCHANGED <<activeCodexID, activeAPIID, activeGeminiID>>
  ELSE
    /\ activeCodexID' =
         IF Remembers(c, s, advance, FALSE) THEN s
         ELSE IF c.type = "codex" THEN Keep(activeCodexID, ActiveCodex(c), c)
         ELSE activeCodexID
    /\ activeAPIID' =
         IF Remembers(c, s, advance, TRUE) THEN s
         ELSE IF c.type = "codex" /\ LookedAtAPI(c) THEN Keep(activeAPIID, ActiveAPI(c), c)
         ELSE activeAPIID
    /\ activeGeminiID' =
         IF c.type # "gemini" THEN activeGeminiID
         ELSE IF advance /\ c.exclude = {} /\ s # NoSeat THEN s
         ELSE Keep(activeGeminiID, ActiveGemini(c), c)

----------------------------------------------------------------------------
SelectionTypeOK ==
  /\ pool \in SUBSET Seat
  /\ gen \in Generations
  /\ condition \in [Seat -> Conditions]
  /\ inflight \in [Generations -> [Seat -> Nat]]
  /\ pendingClaims \in [Seat -> Nat]
  /\ convPin \in [Conversation -> Seat \cup {NoSeat}]
  /\ {activeCodexID, activeAPIID, activeGeminiID} \subseteq Seat \cup {NoSeat}
  /\ recency \in SUBSET (Seat \X Seat)
=============================================================================
