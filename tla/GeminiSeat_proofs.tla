--------------------------- MODULE GeminiSeat_proofs ---------------------------
(* For any models, requests, objects, window, replies and bounds: the seat     *)
(* keeps its types, a blocked seat takes no request, a seat the poller keeps   *)
(* is stale only while it is being renewed, and a model's limit lasts its time. *)
EXTENDS GeminiSeat, TLAPS

Truths == [reason : Reasons, verified : BOOLEAN]

(* What each actor holds.                                                      *)
SnapshotRecords == [kind : Fetched \cup {"error", "models"}, reset : Waits, left : 0 .. Full]
LoginRecords == [phase : {"idle", "written", "reading", "applying", "applied", "rereading"},
                 quota : SnapshotRecords]
Typed ==
    /\ seat \in [Object -> Seats] /\ live \in Object /\ file \in Seats
    /\ request \in [Request -> [obj : Object \cup {NoObject}, model : Model \cup {NoModel}]]
    /\ due \in BOOLEAN /\ kept \in BOOLEAN /\ left \in 0 .. Disturbances
    /\ reload \in [by : {"nobody", "other", "login", "hydrate"}, text : Seats]
    /\ login \in LoginRecords
Refreshing ==
    /\ refresh \in [phase : {"idle", "loading", "quota", "saving"},
                    obj : Object \cup {NoObject}, good : BOOLEAN]
    /\ refresh.phase # "idle" <=> refresh.obj # NoObject
Smoking ==
    /\ smoke \in [phase : {"idle", "loading", "generating", "saving"},
                  obj : Object \cup {NoObject}, model : Model \cup {NoModel}]
    /\ smoke.phase # "idle" <=> smoke.obj # NoObject
Hydrating ==
    /\ hydrate \in [phase : {"off", "due", "fetching", "saved", "reloading"},
                    obj : Object \cup {NoObject}]
    /\ hydrate.phase = "fetching" <=> hydrate.obj # NoObject

(* The flag the router looks at is up when the reason blocks.                  *)
InStep(s) == s.reason = "blocking" => s.blocked
Flagged == /\ \A o \in Object : InStep(seat[o])
           /\ InStep(file) /\ InStep(reload.text)

(* What a refresh that goes well has learned before the next tick.             *)
Learned ==
    refresh.good =>
        /\ refresh.phase \in {"quota", "saving"}
        /\ ~due => /\ seat[refresh.obj].checked = Full
                   /\ refresh.phase = "saving" => seat[refresh.obj].quotaAt \in {Window, Full}

(* A kept seat the poller has no business with stays fresh until after the     *)
(* next tick.                                                                  *)
Fresh == kept /\ ~due /\ refresh.phase = "idle" => FreshFor(seat[live]) >= 2

(* The inductive invariant.                                                    *)
Inv == Typed /\ Refreshing /\ Smoking /\ Hydrating /\ Flagged /\ Learned /\ Fresh

-----------------------------------------------------------------------------
(* What the provider's answers are.                                            *)
LEMMA Constants ==
    /\ Window \in Nat /\ Window > 1 /\ Longest \in Nat \ {0} /\ Disturbances \in Nat
    /\ NoModel \notin Model /\ NoObject \notin Object /\ Waits = 1 .. Longest
    /\ Full = Window + 1 /\ Dates \subseteq 0 .. Full
BY WindowAssumption, LongestAssumption, DisturbancesAssumption, NoModelAssumption,
   NoObjectAssumption, DatesAssumption DEF Waits, Full

LEMMA SnapshotsAreRecords ==
    /\ NoSnapshot \in SnapshotRecords /\ Snapshots \subseteq SnapshotRecords
    /\ \A kind \in {"models", "error"} : Snapshot(kind, 1, Full) \in SnapshotRecords
<1>1. 1 \in Waits /\ Full \in 0 .. Full
    BY Constants
<1>2. ASSUME NEW kind \in Fetched \cup {"error", "models"}, NEW reset \in Waits, NEW dated \in 0 .. Full
      PROVE  Snapshot(kind, reset, dated) \in SnapshotRecords
    BY DEF Snapshot, SnapshotRecords
<1>3. QED
    BY <1>1, <1>2, Constants DEF NoSnapshot, Snapshots

LEMMA LoadTruth == \A load : TruthFromLoad(load) \in Truths
BY DEF TruthFromLoad, Truth, ReasonOf, Truths, Reasons

LEMMA AnswersAreTruths == Loaded \subseteq Truths /\ Resolved \subseteq Truths
<1>1. Loaded \subseteq Truths
    BY LoadTruth DEF Loaded
<1>2. ProjectOnly \in Truths
    BY DEF ProjectOnly, Truth, Truths, Reasons
<1>3. ASSUME NEW onboard, NEW load, NEW fallback
      PROVE  TierTruth(onboard, load, fallback) \subseteq Truths
    <2>1. \/ TierTruth(onboard, load, fallback) = {}
          \/ TierTruth(onboard, load, fallback) \in {{ProjectOnly}, {TruthFromLoad(load)},
                                                     {TruthFromLoad(fallback)}}
        BY DEF TierTruth
    <2>2. QED
        BY <1>2, <2>1, LoadTruth
<1>4. ASSUME NEW x \in Resolved PROVE x \in Truths
    <2>1. CASE x \in UNION {TierTruth(onboard, load, fallback) :
                              onboard \in {"error", "project", "bare"},
                              load \in Loads, fallback \in Loads}
        <3>1. PICK onboard \in {"error", "project", "bare"}, load \in Loads, fallback \in Loads :
                  x \in TierTruth(onboard, load, fallback)
            BY <2>1
        <3>2. QED
            BY <1>3, <3>1
    <2>2. CASE x \in {TruthFromLoad(load) : load \in Loads \ {"error"}}
        BY <2>2, LoadTruth
    <2>3. QED
        BY <2>1, <2>2 DEF Resolved
<1>5. QED
    BY <1>1, <1>4

-----------------------------------------------------------------------------
(* Whatever is written to a seat but by time, reload and a snapshot of an      *)
(* earlier date: what it knows is as it was or of this step, no model's limit  *)
(* gets shorter, and the flag follows the reason.                              *)
Follows(s, t) ==
    /\ t \in Seats /\ (InStep(s) => InStep(t))
    /\ t.checked \in {s.checked, Full} /\ t.quotaAt \in {s.quotaAt, Window, Full}
    /\ \A m \in Model : s.limit[m] <= t.limit[m]

LEMMA SeatFields ==
    ASSUME NEW s \in Seats
    PROVE  /\ s.checked \in Never .. Full /\ s.quotaAt \in Never .. Full
           /\ s.checked \in Int /\ s.quotaAt \in Int
           /\ \A m \in Model : s.limit[m] \in 0 .. Longest /\ s.full[m] \in 0 .. Longest
           /\ s.limit \in [Model -> 0 .. Longest]
           /\ Full \in Never .. Full /\ FreshFor(s) \in Int
BY Constants DEF Seats, Never, FreshFor

LEMMA FreshForKept ==
    ASSUME NEW s \in Seats, NEW t, Follows(s, t)
    PROVE  FreshFor(s) >= 2 => FreshFor(t) >= 2
<1>1. s.checked \in Int /\ s.quotaAt \in Int
    BY SeatFields
<1>2. t.checked \in {s.checked, Full} /\ t.quotaAt \in {s.quotaAt, Window, Full}
    BY DEF Follows
<1>3. QED
    BY <1>1, <1>2, Constants DEF FreshFor, Never

LEMMA SameFollows ==
    ASSUME NEW s \in Seats
    PROVE  Follows(s, s)
BY SeatFields DEF Follows

LEMMA TruthFollows ==
    ASSUME NEW s \in Seats, NEW truth \in Truths
    PROVE  /\ Follows(s, TruthApplied(s, truth))
           /\ truth.verified => TruthApplied(s, truth).checked = Full
<1> DEFINE t == TruthApplied(s, truth)
<1>1. /\ truth.reason \in Reasons /\ truth.verified \in BOOLEAN
      /\ Full \in Never .. Full
    BY SeatFields DEF Truths
<1>2. \A c \in Never .. Full :
          [s EXCEPT !.reason = truth.reason, !.project = TRUE, !.checked = c,
                    !.blocked = truth.reason = "blocking"] \in Seats
    BY <1>1 DEF Seats
<1>3. t = [s EXCEPT !.reason = truth.reason, !.project = TRUE,
                    !.checked = IF truth.verified THEN Full ELSE s.checked,
                    !.blocked = truth.reason = "blocking"]
    BY DEF TruthApplied, Seats
<1>4. t \in Seats
    <2>1. (IF truth.verified THEN Full ELSE s.checked) \in Never .. Full
        BY <1>1, SeatFields
    <2> HIDE DEF t
    <2>2. QED
        BY <1>2, <1>3, <2>1, Zenon
<1>5. /\ t.reason = truth.reason /\ t.blocked = (truth.reason = "blocking")
      /\ t.checked = (IF truth.verified THEN Full ELSE s.checked)
      /\ t.quotaAt = s.quotaAt /\ t.limit = s.limit
    BY <1>3 DEF Seats
<1> HIDE DEF t
<1>6. InStep(t)
    BY <1>5 DEF InStep
<1>7. Follows(s, t) /\ (truth.verified => t.checked = Full)
    BY <1>4, <1>5, <1>6, SeatFields DEF Follows
<1>8. QED
    BY <1>7 DEF t

LEMMA QuotaWritten ==
    ASSUME NEW s \in Seats, NEW snapshot \in SnapshotRecords
    PROVE  /\ QuotaApplied(s, snapshot) \in Seats
           /\ QuotaApplied(s, snapshot).reason = s.reason
           /\ QuotaApplied(s, snapshot).blocked = s.blocked
           /\ QuotaApplied(s, snapshot).checked = s.checked
           /\ QuotaApplied(s, snapshot).limit = s.limit
           /\ QuotaApplied(s, snapshot).quotaAt =
                  IF snapshot.kind = "error" THEN s.quotaAt ELSE snapshot.left
<1> DEFINE t == QuotaApplied(s, snapshot)
           at == snapshot.left
<1>1. CASE snapshot.kind = "error"
    <2>1. t = s
        BY <1>1 DEF QuotaApplied
    <2>2. QED
        BY <1>1, <2>1
<1>2. CASE snapshot.kind # "error"
    <2>1. \E q, f \in BOOLEAN, full \in [Model -> 0 .. Longest] :
              t = [s EXCEPT !.quota = q, !.forbidden = f, !.full = full, !.quotaAt = at]
        <3>1. NoLimit \in [Model -> 0 .. Longest]
            BY Constants DEF NoLimit
        <3>2. [m \in Model |-> IF snapshot.kind = "full" THEN snapshot.reset ELSE 0]
                  \in [Model -> 0 .. Longest]
            BY Constants DEF SnapshotRecords
        <3>3. CASE snapshot.kind = "empty"
            <4>1. t = [s EXCEPT !.quota = FALSE, !.forbidden = FALSE, !.full = NoLimit,
                                !.quotaAt = at]
                BY <3>3 DEF QuotaApplied
            <4>2. QED
                BY <3>1, <4>1
        <3>4. CASE snapshot.kind = "forbidden"
            <4>1. t = [s EXCEPT !.quota = TRUE, !.forbidden = TRUE, !.full = NoLimit,
                                !.quotaAt = at]
                BY <3>4 DEF QuotaApplied
            <4>2. QED
                BY <3>1, <4>1
        <3>5. CASE snapshot.kind \notin {"empty", "forbidden"}
            <4>1. t = [s EXCEPT !.quota = TRUE, !.forbidden = FALSE, !.quotaAt = at,
                           !.full = [m \in Model |-> IF snapshot.kind = "full"
                                                     THEN snapshot.reset ELSE 0]]
                BY <1>2, <3>5 DEF QuotaApplied
            <4>2. t = [s EXCEPT !.quota = TRUE, !.forbidden = FALSE,
                           !.full = [m \in Model |-> IF snapshot.kind = "full"
                                                     THEN snapshot.reset ELSE 0],
                           !.quotaAt = at]
                BY <4>1 DEF Seats
            <4>3. QED
                BY <3>2, <4>2
        <3>6. QED
            BY <3>3, <3>4, <3>5
    <2> HIDE DEF t
    <2>2. PICK q \in BOOLEAN, f \in BOOLEAN, full \in [Model -> 0 .. Longest] :
              t = [s EXCEPT !.quota = q, !.forbidden = f, !.full = full, !.quotaAt = at]
        BY <2>1
    <2>3. at \in Never .. Full
        BY Constants DEF SnapshotRecords, Never
    <2>4. t \in Seats
        BY <2>2, <2>3, SeatFields DEF Seats
    <2>5. /\ t.reason = s.reason /\ t.blocked = s.blocked /\ t.checked = s.checked
          /\ t.quotaAt = at /\ t.limit = s.limit
        BY <2>2 DEF Seats
    <2>6. QED
        BY <1>2, <2>4, <2>5 DEF t
<1>3. QED
    BY <1>1, <1>2

LEMMA CurrentDates ==
    ASSUME NEW snapshot \in SnapshotRecords, Current(snapshot)
    PROVE  snapshot.kind # "error" /\ snapshot.left \in {Window, Full}
BY Constants DEF SnapshotRecords, Current

LEMMA QuotaFollows ==
    ASSUME NEW s \in Seats, NEW snapshot \in SnapshotRecords,
           Current(snapshot) \/ snapshot.kind = "error"
    PROVE  Follows(s, QuotaApplied(s, snapshot))
BY QuotaWritten, CurrentDates, SeatFields DEF Follows, InStep

LEMMA SuccessFollows ==
    ASSUME NEW s \in Seats
    PROVE  Follows(s, Succeeded(s))
<1>1. PICK oper \in OperationalStates : Succeeded(s) = [s EXCEPT !.until = 0, !.oper = oper]
    BY DEF Succeeded, SuccessState, OperationalStates
<1>2. Succeeded(s) \in Seats
    <2>1. 0 \in 0 .. Longest
        BY Constants
    <2>2. QED
        BY <1>1, <2>1 DEF Seats
<1>3. /\ Succeeded(s).reason = s.reason /\ Succeeded(s).blocked = s.blocked
      /\ Succeeded(s).checked = s.checked /\ Succeeded(s).quotaAt = s.quotaAt
      /\ Succeeded(s).limit = s.limit
    BY <1>1 DEF Seats
<1>4. QED
    BY <1>2, <1>3, SeatFields DEF Follows, InStep

LEMMA FailureFollows ==
    ASSUME NEW s \in Seats
    PROVE  Follows(s, Failed(s))
<1>1. Failed(s) \in Seats
    BY DEF Failed, Seats, OperationalStates
<1>2. /\ Failed(s).reason = s.reason /\ Failed(s).blocked = s.blocked
      /\ Failed(s).checked = s.checked /\ Failed(s).quotaAt = s.quotaAt
      /\ Failed(s).limit = s.limit
    BY DEF Failed, Seats
<1>3. QED
    BY <1>1, <1>2, SeatFields DEF Follows, InStep

LEMMA LimitFollows ==
    ASSUME NEW s \in Seats, NEW m \in Model \cup {NoModel}, NEW wait \in Waits
    PROVE  Follows(s, Limited(s, m, wait))
<1> DEFINE t == Limited(s, m, wait)
<1>1. s.until \in 0 .. Longest /\ wait \in 0 .. Longest /\ Larger(s.until, wait) \in 0 .. Longest
    BY Constants DEF Seats, Larger
<1>2. CASE m = NoModel
    <2>1. t = [s EXCEPT !.oper = "cooldown", !.until = Larger(s.until, wait)]
        BY <1>2 DEF Limited, Seats
    <2> HIDE DEF t
    <2>2. t \in Seats
        BY <1>1, <2>1 DEF Seats, OperationalStates
    <2>3. /\ t.reason = s.reason /\ t.blocked = s.blocked /\ t.checked = s.checked
          /\ t.quotaAt = s.quotaAt /\ t.limit = s.limit
        BY <2>1 DEF Seats
    <2>4. Follows(s, t)
        BY <2>2, <2>3, SeatFields DEF Follows, InStep
    <2>5. QED
        BY <2>4 DEF t
<1>3. CASE m # NoModel
    <2> DEFINE limit == [s.limit EXCEPT ![m] = Larger(s.limit[m], wait)]
    <2>1. t = [s EXCEPT !.oper = "cooldown", !.until = 0, !.limit = limit]
        BY <1>3 DEF Limited, Seats
    <2>2. m \in Model /\ s.limit[m] \in 0 .. Longest /\ s.limit \in [Model -> 0 .. Longest]
        BY <1>3, SeatFields
    <2>3. Larger(s.limit[m], wait) \in 0 .. Longest /\ s.limit[m] <= Larger(s.limit[m], wait)
        BY <1>1, <2>2, Constants DEF Larger
    <2>4. limit \in [Model -> 0 .. Longest]
        BY <2>2, <2>3
    <2>5. \A n \in Model : limit[n] = IF n = m THEN Larger(s.limit[m], wait) ELSE s.limit[n]
        BY <2>2
    <2>6. \A n \in Model : s.limit[n] <= limit[n]
        BY <2>3, <2>5, SeatFields
    <2> HIDE DEF t, limit
    <2>7. t \in Seats
        <3>1. 0 \in 0 .. Longest
            BY Constants
        <3>2. QED
            BY <2>1, <2>4, <3>1 DEF Seats, OperationalStates
    <2>8. /\ t.reason = s.reason /\ t.blocked = s.blocked /\ t.checked = s.checked
          /\ t.quotaAt = s.quotaAt /\ t.limit = limit
        BY <2>1 DEF Seats
    <2>9. Follows(s, t)
        BY <2>6, <2>7, <2>8 DEF Follows, InStep
    <2>10. QED
        BY <2>9 DEF t
<1>4. QED
    BY <1>2, <1>3

(* What an import writes.                                                      *)
LEMMA ImportedIsSeat ==
    ASSUME NEW truth \in Truths
    PROVE  Imported(truth) \in Seats /\ InStep(Imported(truth))
<1>1. /\ truth.reason \in Reasons
      /\ (IF truth.verified THEN Full ELSE Never) \in Never .. Full
      /\ Never \in Never .. Full /\ NoLimit \in [Model -> 0 .. Longest] /\ 0 \in 0 .. Longest
    BY Constants DEF Truths, Never, NoLimit
<1>2. Imported(truth) \in Seats
    BY <1>1 DEF Imported, Seats, OperationalStates
<1>3. InStep(Imported(truth))
    BY DEF Imported, InStep
<1>4. QED
    BY <1>2, <1>3

LEMMA ImportIsSeat ==
    ASSUME NEW truth \in Truths, NEW snapshot \in SnapshotRecords
    PROVE  ImportedSeat(truth, snapshot) \in Seats /\ InStep(ImportedSeat(truth, snapshot))
BY ImportedIsSeat, QuotaWritten DEF ImportedSeat, InStep

LEMMA BlankIsSeat == Blank \in Seats /\ InStep(Blank)
<1>1. NoTruth \in Truths
    BY DEF NoTruth, Truth, Truths, Reasons
<1>2. QED
    BY <1>1, ImportedIsSeat DEF Blank

-----------------------------------------------------------------------------
(* A step that lets every model's limit last.                                  *)
Lasts == live' = live => \A m \in Model : seat[live].limit[m] <= seat'[live].limit[m]

(* A step that only writes such things, and lets go of objects nobody uses.    *)
Touches ==
    /\ live' = live /\ seat' \in [Object -> Seats]
    /\ \A o \in Object : \/ Follows(seat[o], seat'[o])
                         \/ seat'[o] = Blank /\ o \notin {live, refresh'.obj}

LEMMA SameTouches ==
    ASSUME Typed, UNCHANGED <<seat, live>>
    PROVE  Touches
BY SameFollows DEF Typed, Touches

LEMMA PutTouches ==
    ASSUME Typed, NEW o \in Object, NEW t, Follows(seat[o], t), live' = live,
           seat' = [seat EXCEPT ![o] = t]
    PROVE  Touches
<1>1. t \in Seats
    BY DEF Follows
<1>2. \A x \in Object : seat[x] \in Seats /\ seat'[x] = IF x = o THEN t ELSE seat[x]
    BY DEF Typed
<1>3. \A x \in Object : Follows(seat[x], seat'[x])
    BY <1>2, SameFollows
<1>4. QED
    BY <1>1, <1>3 DEF Typed, Touches

LEMMA ReachableTouches ==
    ASSUME Typed, NEW o \in Object, NEW t, Follows(seat[o], t), live' = live,
           NEW holders, live \in holders, refresh'.obj \in holders \cup {NoObject},
           seat' = Reachable([seat EXCEPT ![o] = t], o, holders)
    PROVE  Touches
<1>1. t \in Seats /\ Blank \in Seats
    BY BlankIsSeat DEF Follows
<1>2. seat' = [seat EXCEPT ![o] = IF o \in holders THEN t ELSE Blank]
    BY DEF Typed, Reachable
<1>3. \A x \in Object : seat[x] \in Seats /\ seat'[x] = IF x = o
                        THEN (IF o \in holders THEN t ELSE Blank) ELSE seat[x]
    BY <1>2 DEF Typed
<1>4. seat' \in [Object -> Seats]
    BY <1>1, <1>2 DEF Typed
<1>5. \A x \in Object : \/ Follows(seat[x], seat'[x])
                        \/ seat'[x] = Blank /\ x \notin {live, refresh'.obj}
    BY <1>3, SameFollows, Constants
<1>6. QED
    BY <1>4, <1>5 DEF Touches

LEMMA LetGoTouches ==
    ASSUME Typed, NEW o \in Object, NEW others, LetGo(o, others), live' = live,
           refresh'.obj \in others \cup {live, NoObject}
    PROVE  Touches
<1> DEFINE holders == {live} \cup others \cup {request[r].obj : r \in Request}
<1>1. seat[o] \in Seats /\ seat = [seat EXCEPT ![o] = seat[o]]
    BY DEF Typed
<1>2. seat' = Reachable([seat EXCEPT ![o] = seat[o]], o, holders)
    BY <1>1 DEF LetGo
<1>3. live \in holders /\ refresh'.obj \in holders \cup {NoObject}
    OBVIOUS
<1> HIDE DEF holders
<1>4. QED
    BY <1>1, <1>2, <1>3, SameFollows, ReachableTouches

LEMMA TouchKeeps ==
    ASSUME Typed, Flagged, Touches
    PROVE  /\ \A o \in Object : InStep(seat'[o])
           /\ Follows(seat[live], seat'[live'])
           /\ FreshFor(seat[live]) >= 2 => FreshFor(seat'[live']) >= 2
           /\ Lasts
           /\ refresh'.obj \in Object => Follows(seat[refresh'.obj], seat'[refresh'.obj])
<1>1. \A o \in Object : InStep(seat'[o])
    BY BlankIsSeat DEF Touches, Follows, Flagged
<1>2. Follows(seat[live], seat'[live']) /\ seat[live] \in Seats
    BY DEF Touches, Typed
<1>3. QED
    BY <1>1, <1>2, FreshForKept DEF Touches, Lasts, Follows

(* What a refresh has learned, and the freshness, outlive what others do.      *)
LEMMA BesideKeeps ==
    ASSUME Inv, Touches, UNCHANGED <<refresh, due, kept>>
    PROVE  Learned' /\ Fresh' /\ Refreshing' /\ \A o \in Object : InStep(seat'[o])
<1>1. Learned'
    <2> SUFFICES ASSUME refresh.good PROVE Learned'
        BY DEF Learned
    <2>1. refresh.obj \in Object
        BY DEF Inv, Refreshing, Learned
    <2>2. Follows(seat[refresh.obj], seat'[refresh.obj])
        BY <2>1, TouchKeeps DEF Inv
    <2>3. QED
        BY <2>2 DEF Inv, Learned, Follows
<1>2. Fresh'
    BY TouchKeeps DEF Inv, Fresh
<1>3. QED
    BY <1>1, <1>2, TouchKeeps DEF Inv, Refreshing

-----------------------------------------------------------------------------
(* Requests.                                                                   *)
LEMMA DisturbsOnce ==
    ASSUME Typed, Disturbs
    PROVE  left' \in 0 .. Disturbances
BY Constants DEF Typed, Disturbs

LEMMA RouteKeeps ==
    ASSUME Inv, NEW r \in Request, NEW m \in Model \cup {NoModel}, Route(r, m) \/ RouteForced(r, m)
    PROVE  Inv' /\ Touches
<1>1. Touches
    BY SameTouches DEF Inv, Route, RouteForced
<1>2. left' \in 0 .. Disturbances
    BY DisturbsOnce DEF Inv, Typed, Route, RouteForced
<1>3. request' \in [Request -> [obj : Object \cup {NoObject}, model : Model \cup {NoModel}]]
    BY DEF Inv, Typed, Route, RouteForced
<1>4. UNCHANGED <<seat, live, file, refresh, smoke, login, reload, due, hydrate, kept>>
    BY DEF Route, RouteForced
<1>5. Typed' /\ Smoking' /\ Hydrating' /\ Flagged'
    BY <1>2, <1>3, <1>4 DEF Inv, Typed, Smoking, Hydrating, Flagged
<1>6. QED
    BY <1>1, <1>4, <1>5, BesideKeeps DEF Inv

LEMMA AnsweredKeeps ==
    ASSUME Inv, NEW r \in Request, NEW s, Answered(r, s), Follows(seat[request[r].obj], s),
           file' \in {file, s}
    PROVE  Inv' /\ Touches
<1> DEFINE o == request[r].obj
           holders == {live} \cup Holders(Request \ {r})
<1>1. o \in Object /\ seat[o] \in Seats
    BY DEF Inv, Typed, Answered
<1>2. /\ seat' = Reachable([seat EXCEPT ![o] = s], o, holders)
      /\ UNCHANGED <<live, refresh, smoke, login, reload, due, hydrate, kept, left>>
    BY DEF Answered
<1>3. live \in holders /\ refresh'.obj \in holders
    BY <1>2 DEF Holders
<1>4. Touches
    <2> HIDE DEF o, holders
    <2>1. Follows(seat[o], s)
        BY DEF o
    <2>2. QED
        BY <1>1, <1>2, <1>3, <2>1, ReachableTouches DEF Inv
<1>5. request' \in [Request -> [obj : Object \cup {NoObject}, model : Model \cup {NoModel}]]
    BY DEF Inv, Typed, Answered, NoRequest
<1>6. s \in Seats /\ InStep(s)
    BY <1>1 DEF Follows, Inv, Flagged
<1>7. \A x \in Object : InStep(seat'[x])
    BY <1>4, TouchKeeps DEF Inv
<1> HIDE DEF o, holders
<1>8. Typed' /\ Smoking' /\ Hydrating' /\ Flagged'
    <2>1. file' \in Seats /\ InStep(file') /\ seat' \in [Object -> Seats]
        BY <1>4, <1>6 DEF Inv, Typed, Flagged, Touches
    <2>2. UNCHANGED <<live, smoke, login, reload, due, hydrate, kept, left>>
        BY <1>2
    <2>3. QED
        BY <1>5, <1>7, <2>1, <2>2 DEF Inv, Typed, Smoking, Hydrating, Flagged
<1>9. QED
    BY <1>2, <1>4, <1>8, BesideKeeps DEF Inv

LEMMA RequestEndKeeps ==
    ASSUME Inv, NEW r \in Request,
           \/ RequestSucceeds(r) \/ RequestFails(r)
           \/ \E wait \in Waits : RequestLimited(r, wait)
    PROVE  Inv' /\ Touches
<1> DEFINE o == request[r].obj
<1>1. request[r].model \in Model \cup {NoModel}
    BY DEF Inv, Typed
<1>2. o \in Object /\ seat[o] \in Seats
    BY DEF Inv, Typed, RequestSucceeds, RequestFails, RequestLimited
<1>3. CASE RequestSucceeds(r)
    <2>1. Answered(r, Succeeded(seat[o])) /\ file' \in {file, Succeeded(seat[o])}
        BY <1>3 DEF RequestSucceeds
    <2>2. QED
        BY <1>2, <2>1, SuccessFollows, AnsweredKeeps
<1>4. CASE RequestFails(r)
    <2>1. Answered(r, seat[o]) /\ file' = file
        BY <1>4 DEF RequestFails
    <2>2. QED
        BY <1>2, <2>1, SameFollows, AnsweredKeeps
<1>5. CASE \E wait \in Waits : RequestLimited(r, wait)
    <2>1. PICK wait \in Waits : Answered(r, Limited(seat[o], request[r].model, wait)) /\ file' = file
        BY <1>5 DEF RequestLimited
    <2>2. QED
        BY <1>1, <1>2, <2>1, LimitFollows, AnsweredKeeps
<1>6. QED
    BY <1>3, <1>4, <1>5

-----------------------------------------------------------------------------
(* The truth poller.                                                           *)
LEMMA ReadyIsEligible ==
    ASSUME NEW s \in Seats, Ready(s), ~RefreshEligible(s)
    PROVE  FreshFor(s) >= 2
<1>1. ~Quarantined(s) /\ ~s.forbidden
    BY DEF Ready, TruthState
<1>2. FreshFor(s) \in Int
    BY SeatFields
<1>3. ~(FreshFor(s) <= 1)
    BY <1>1 DEF RefreshEligible
<1>4. QED
    BY <1>2, <1>3

LEMMA PollerTickKeeps ==
    ASSUME Inv, PollerTick
    PROVE  Inv' /\ Touches
<1>1. /\ UNCHANGED <<seat, live, file, request, smoke, login, reload, hydrate, left>>
      /\ due' = FALSE /\ refresh.phase = "idle"
    BY DEF PollerTick
<1>2. Touches
    BY <1>1, SameTouches DEF Inv
<1>3. seat[live] \in Seats /\ live \in Object /\ live # NoObject
    BY Constants DEF Inv, Typed
<1>4. CASE RefreshEligible(seat[live])
    <2>1. refresh' = [phase |-> "loading", obj |-> live, good |-> FALSE] /\ kept' = kept
        BY <1>4 DEF PollerTick
    <2>2. /\ refresh'.obj = live /\ refresh'.phase = "loading" /\ refresh'.good = FALSE
          /\ Refreshing'
        BY <1>3, <2>1 DEF Refreshing
    <2>3. Learned' /\ Fresh'
        BY <1>1, <2>1, <2>2 DEF Inv, Learned, Fresh
    <2>4. Typed' /\ Smoking' /\ Hydrating' /\ Flagged'
        <3>1. due' \in BOOLEAN /\ kept' \in BOOLEAN
            BY <1>1, <2>1 DEF Inv, Typed
        <3>2. QED
            BY <1>1, <3>1 DEF Inv, Typed, Smoking, Hydrating, Flagged
    <2>5. QED
        BY <1>2, <2>2, <2>3, <2>4 DEF Inv
<1>5. CASE ~RefreshEligible(seat[live])
    <2>1. refresh' = refresh /\ kept' = (kept /\ Ready(seat[live]))
        BY <1>5 DEF PollerTick
    <2>2. Ready(seat[live]) => FreshFor(seat[live]) >= 2
        BY <1>3, <1>5, ReadyIsEligible
    <2>3. kept' \in BOOLEAN /\ (kept' => kept /\ FreshFor(seat[live]) >= 2)
        BY <2>1, <2>2 DEF Inv, Typed
    <2>4. Fresh'
        BY <1>1, <2>3 DEF Inv, Fresh
    <2>5. Refreshing' /\ Learned'
        BY <1>1, <2>1 DEF Inv, Refreshing, Learned
    <2>6. Typed' /\ Smoking' /\ Hydrating' /\ Flagged'
        <3>1. due' \in BOOLEAN /\ kept' \in BOOLEAN
            BY <1>1, <2>3
        <3>2. QED
            BY <1>1, <3>1 DEF Inv, Typed, Smoking, Hydrating, Flagged
    <2>7. QED
        BY <1>2, <2>4, <2>5, <2>6 DEF Inv
<1>6. QED
    BY <1>4, <1>5

LEMMA RefreshLearnsKeeps ==
    ASSUME Inv, NEW truth \in Truths, RefreshLearns(truth)
    PROVE  Inv' /\ Touches
<1> DEFINE o == refresh.obj
           t == TruthApplied(seat[o], truth)
<1>1. /\ seat' = [seat EXCEPT ![o] = t]
      /\ refresh' = [refresh EXCEPT !.phase = "quota", !.good = truth.verified]
      /\ UNCHANGED <<live, file, request, smoke, login, reload, due, hydrate, kept, left>>
    BY DEF RefreshLearns, Inv, Typed
<1>2. o \in Object /\ seat[o] \in Seats /\ refresh.phase = "loading"
    BY DEF RefreshLearns, Inv, Refreshing, Typed
<1>3. Follows(seat[o], t) /\ (truth.verified => t.checked = Full)
    BY <1>2, TruthFollows
<1>4. /\ refresh'.obj = o /\ refresh'.phase = "quota" /\ refresh'.good = truth.verified
      /\ Refreshing'
    BY <1>1, <1>2, Constants DEF Inv, Refreshing, Truths
<1>5. seat'[o] = t
    BY <1>1, <1>2 DEF Inv, Typed
<1> HIDE DEF o, t
<1>6. Touches
    BY <1>1, <1>2, <1>3, PutTouches DEF Inv
<1>7. Learned'
    BY <1>3, <1>4, <1>5 DEF Learned
<1>8. Fresh'
    BY <1>1, <1>4, <1>6, TouchKeeps DEF Inv, Fresh
<1>9. Typed' /\ Smoking' /\ Hydrating' /\ Flagged'
    BY <1>1, <1>6, TouchKeeps DEF Inv, Typed, Smoking, Hydrating, Flagged, Touches
<1>10. QED
    BY <1>4, <1>6, <1>7, <1>8, <1>9 DEF Inv

(* A quota of whatever date is written to an object: what is known of the      *)
(* freshness of another follows.                                               *)
LEMMA QuotaKeeps ==
    ASSUME Inv, NEW o \in Object, NEW snapshot \in SnapshotRecords, live' = live,
           seat' = [seat EXCEPT ![o] = QuotaApplied(seat[o], snapshot)]
    PROVE  /\ seat' \in [Object -> Seats] /\ \A x \in Object : InStep(seat'[x])
           /\ seat'[o].checked = seat[o].checked /\ Lasts
           /\ seat'[o].quotaAt = IF snapshot.kind = "error" THEN seat[o].quotaAt ELSE snapshot.left
           /\ Current(snapshot) \/ snapshot.kind = "error" => Touches
<1> DEFINE t == QuotaApplied(seat[o], snapshot)
<1>1. seat[o] \in Seats /\ InStep(seat[o])
    BY DEF Inv, Typed, Flagged
<1>2. /\ t \in Seats /\ t.checked = seat[o].checked /\ t.limit = seat[o].limit
      /\ t.reason = seat[o].reason /\ t.blocked = seat[o].blocked
      /\ t.quotaAt = IF snapshot.kind = "error" THEN seat[o].quotaAt ELSE snapshot.left
    BY <1>1, QuotaWritten
<1>3. Current(snapshot) \/ snapshot.kind = "error" => Follows(seat[o], t)
    BY <1>1, QuotaFollows
<1> HIDE DEF t
<1>4. /\ seat' = [seat EXCEPT ![o] = t] /\ seat' \in [Object -> Seats]
      /\ \A x \in Object : seat'[x] = IF x = o THEN t ELSE seat[x]
    BY <1>2 DEF t, Inv, Typed
<1>5. \A x \in Object : InStep(seat'[x])
    BY <1>1, <1>2, <1>4 DEF Inv, Flagged, InStep
<1>6. Lasts
    <2>1. live \in Object /\ seat[live] \in Seats
        BY DEF Inv, Typed
    <2>2. \A m \in Model : seat[live].limit[m] \in Int
        BY <2>1, SeatFields
    <2>3. seat'[live].limit = seat[live].limit
        BY <1>2, <1>4, <2>1
    <2>4. QED
        BY <2>2, <2>3 DEF Lasts
<1>7. Current(snapshot) \/ snapshot.kind = "error" => Touches
    BY <1>3, <1>4, PutTouches DEF Inv
<1>8. QED
    BY <1>2, <1>4, <1>5, <1>6, <1>7

LEMMA RefreshTakesKeeps ==
    ASSUME Inv, NEW snapshot \in SnapshotRecords, RefreshTakes(snapshot)
    PROVE  Inv' /\ Lasts
<1> DEFINE o == refresh.obj
<1>1. /\ o \in Object /\ refresh.phase = "quota"
      /\ seat' = [seat EXCEPT ![o] = QuotaApplied(seat[o], snapshot)]
      /\ UNCHANGED <<live, file, request, smoke, login, reload, due, hydrate, kept, left>>
    BY DEF RefreshTakes, Inv, Refreshing, Typed
<1>2. /\ refresh'.obj = o /\ refresh'.phase = "saving"
      /\ refresh'.good = (refresh.good /\ Current(snapshot))
      /\ Refreshing'
    <2>1. (refresh.good /\ Current(snapshot)) \in BOOLEAN
        BY DEF Inv, Refreshing, Current
    <2>2. refresh' = [refresh EXCEPT !.phase = "saving", !.good = refresh.good /\ Current(snapshot)]
        BY DEF RefreshTakes, Inv, Refreshing
    <2>3. QED
        BY <1>1, <2>1, <2>2, Constants DEF Inv, Refreshing
<1>3. /\ seat' \in [Object -> Seats] /\ \A x \in Object : InStep(seat'[x])
      /\ Lasts
      /\ seat'[o].checked = seat[o].checked
      /\ seat'[o].quotaAt = IF snapshot.kind = "error" THEN seat[o].quotaAt ELSE snapshot.left
    BY <1>1, QuotaKeeps
<1>4. refresh.good /\ ~due => seat[o].checked = Full
    BY DEF Inv, Learned
<1>5. Current(snapshot) => snapshot.kind # "error" /\ snapshot.left \in {Window, Full}
    BY CurrentDates
<1> HIDE DEF o
<1>6. Learned'
    BY <1>1, <1>2, <1>3, <1>4, <1>5 DEF Learned
<1>7. Fresh'
    BY <1>2 DEF Fresh
<1>8. Typed' /\ Smoking' /\ Hydrating' /\ Flagged'
    BY <1>1, <1>3 DEF Inv, Typed, LoginRecords, Smoking, Hydrating, Flagged
<1>9. QED
    BY <1>2, <1>3, <1>6, <1>7, <1>8 DEF Inv

(* A refresh ends: it lets go of its object.                                   *)
LEMMA RefreshEndKeeps ==
    ASSUME Inv, RefreshFails \/ RefreshSaves
    PROVE  Inv' /\ Touches
<1> DEFINE o == refresh.obj
<1>1. /\ LetGo(o, {smoke.obj, hydrate.obj}) /\ refresh' = NoRefresh
      /\ UNCHANGED <<live, request, smoke, login, reload, due, hydrate, left>>
      /\ file' \in {file, seat[o]}
    BY DEF RefreshFails, RefreshSaves, SaveSeat
<1>2. o \in Object /\ seat[o] \in Seats /\ InStep(seat[o])
    BY DEF RefreshFails, RefreshSaves, Inv, Refreshing, Typed, Flagged
<1>3. refresh'.obj = NoObject /\ refresh'.phase = "idle" /\ ~refresh'.good /\ Refreshing'
    BY <1>1 DEF NoRefresh, Refreshing
<1>4. Touches
    BY <1>1, <1>2, <1>3, LetGoTouches DEF Inv
<1>5. kept' \in BOOLEAN /\ (kept' => refresh.phase = "saving" /\ refresh.good /\ refresh.obj = live)
    BY DEF RefreshFails, RefreshSaves, Inv, Refreshing
<1>6. Fresh'
    <2> SUFFICES ASSUME kept', ~due PROVE FreshFor(seat'[live']) >= 2
        BY <1>1 DEF Fresh
    <2>1. seat[live].checked = Full /\ seat[live].quotaAt \in {Window, Full}
        BY <1>5 DEF Inv, Learned
    <2>2. FreshFor(seat[live]) >= 2
        BY <2>1, Constants DEF FreshFor, Never
    <2>3. QED
        BY <1>4, <2>2, TouchKeeps DEF Inv
<1>7. Learned'
    BY <1>3 DEF Learned
<1>8. file' \in Seats /\ InStep(file')
    BY <1>1, <1>2 DEF Inv, Typed, Flagged
<1> HIDE DEF o
<1>9. Typed' /\ Smoking' /\ Hydrating' /\ Flagged'
    BY <1>1, <1>4, <1>5, <1>8, TouchKeeps DEF Inv, Typed, Smoking, Hydrating, Flagged, Touches
<1>10. QED
    BY <1>3, <1>4, <1>6, <1>7, <1>9 DEF Inv

-----------------------------------------------------------------------------
(* The operator's smoke test.                                                  *)
LEMMA SmokeBeginsKeeps ==
    ASSUME Inv, NEW m \in Model, SmokeBegins(m)
    PROVE  Inv' /\ Touches
<1>1. /\ UNCHANGED <<seat, live, file, request, refresh, login, reload, due, hydrate, kept>>
      /\ smoke' = [phase |-> "loading", obj |-> live, model |-> m]
    BY DEF SmokeBegins
<1>2. left' \in 0 .. Disturbances
    BY DisturbsOnce DEF Inv, SmokeBegins
<1>3. Touches
    BY <1>1, SameTouches DEF Inv
<1>4. Smoking'
    BY <1>1, Constants DEF Inv, Typed, Smoking
<1>5. Typed' /\ Hydrating' /\ Flagged'
    BY <1>1, <1>2 DEF Inv, Typed, Hydrating, Flagged
<1>6. QED
    BY <1>1, <1>3, <1>4, <1>5, BesideKeeps DEF Inv

(* It writes to its object what may be written to a seat.                      *)
LEMMA SmokeWritesKeeps ==
    ASSUME Inv, smoke.phase \in {"loading", "generating"},
           NEW phase \in {"generating", "saving"}, smoke' = [smoke EXCEPT !.phase = phase],
           NEW t, Follows(seat[smoke.obj], t), seat' = [seat EXCEPT ![smoke.obj] = t],
           UNCHANGED <<live, file, request, refresh, login, reload, due, hydrate, kept, left>>
    PROVE  Inv' /\ Touches
<1> DEFINE o == smoke.obj
<1>1. o \in Object
    BY DEF Inv, Smoking
<1>2. Smoking'
    BY <1>1, Constants DEF Inv, Smoking
<1>3. Touches
    BY <1>1, PutTouches DEF Inv
<1>4. Typed' /\ Hydrating' /\ Flagged'
    BY <1>3, TouchKeeps DEF Inv, Typed, Hydrating, Flagged, Touches
<1>5. QED
    BY <1>2, <1>3, <1>4, BesideKeeps DEF Inv

LEMMA SmokeLoadsKeeps == ASSUME Inv, SmokeLoads PROVE Inv' /\ Touches
<1> DEFINE o == smoke.obj
<1>1. o \in Object /\ seat[o] \in Seats /\ seat = [seat EXCEPT ![o] = seat[o]]
    BY DEF Inv, Smoking, Typed, SmokeLoads
<1>2. /\ smoke.phase = "loading" /\ smoke' = [smoke EXCEPT !.phase = "generating"]
      /\ UNCHANGED <<live, file, request, refresh, login, reload, due, hydrate, kept, left>>
    BY DEF SmokeLoads
<1>3. \E t : Follows(seat[o], t) /\ seat' = [seat EXCEPT ![o] = t]
    <2>1. CASE \E truth \in Loaded : seat' = [seat EXCEPT ![o] = TruthApplied(@, truth)]
        <3>1. PICK truth \in Loaded : seat' = [seat EXCEPT ![o] = TruthApplied(@, truth)]
            BY <2>1
        <3>2. seat' = [seat EXCEPT ![o] = TruthApplied(seat[o], truth)]
            BY <1>1, <3>1 DEF Inv, Typed
        <3>3. Follows(seat[o], TruthApplied(seat[o], truth))
            BY <1>1, TruthFollows, AnswersAreTruths
        <3>4. QED
            BY <3>2, <3>3
    <2>2. CASE UNCHANGED seat
        <3>1. seat' = [seat EXCEPT ![o] = seat[o]]
            BY <1>1, <2>2
        <3>2. QED
            BY <1>1, <3>1, SameFollows
    <2>3. QED
        BY <2>1, <2>2 DEF SmokeLoads
<1>4. QED
    BY <1>2, <1>3, SmokeWritesKeeps

LEMMA SmokeGeneratesKeeps == ASSUME Inv, SmokeGenerates PROVE Inv' /\ Touches
<1> DEFINE o == smoke.obj
<1>1. o \in Object /\ seat[o] \in Seats /\ smoke.model \in Model \cup {NoModel}
    BY DEF Inv, Smoking, Typed, SmokeGenerates
<1>2. /\ smoke.phase = "generating" /\ smoke' = [smoke EXCEPT !.phase = "saving"]
      /\ UNCHANGED <<live, file, request, refresh, login, reload, due, hydrate, kept, left>>
    BY DEF SmokeGenerates
<1>3. PICK t \in {Succeeded(seat[o]), Failed(seat[o])}
                 \cup {Limited(seat[o], smoke.model, wait) : wait \in Waits} :
          seat' = [seat EXCEPT ![o] = t]
    BY DEF SmokeGenerates
<1>4. Follows(seat[o], t)
    BY <1>1, <1>3, SuccessFollows, FailureFollows, LimitFollows
<1>5. QED
    BY <1>2, <1>3, <1>4, SmokeWritesKeeps

LEMMA SmokeSavesKeeps == ASSUME Inv, SmokeSaves PROVE Inv' /\ Touches
<1> DEFINE o == smoke.obj
<1>1. /\ LetGo(o, {refresh.obj, hydrate.obj}) /\ file' = seat[o] /\ smoke' = NoSmoke
      /\ UNCHANGED <<live, request, refresh, login, reload, due, hydrate, kept, left>>
    BY DEF SmokeSaves, SaveSeat
<1>2. o \in Object /\ seat[o] \in Seats /\ InStep(seat[o])
    BY DEF SmokeSaves, Inv, Smoking, Typed, Flagged
<1> HIDE DEF o
<1>3. Touches
    BY <1>1, <1>2, LetGoTouches DEF Inv
<1>4. Smoking'
    BY <1>1 DEF NoSmoke, Smoking
<1>5. Typed' /\ Hydrating' /\ Flagged'
    BY <1>1, <1>2, <1>3, TouchKeeps DEF Inv, Typed, Hydrating, Flagged, Touches
<1>6. QED
    BY <1>1, <1>3, <1>4, <1>5, BesideKeeps DEF Inv

-----------------------------------------------------------------------------
(* Import and hydration.                                                       *)
LEMMA LoginWritesKeeps ==
    ASSUME Inv, NEW truth \in Truths, NEW snapshot \in SnapshotRecords,
           LoginWrites(truth, snapshot)
    PROVE  Inv' /\ Touches
<1>1. /\ file' = ImportedSeat(truth, snapshot)
      /\ login' = [phase |-> "written", quota |-> snapshot]
      /\ UNCHANGED <<seat, live, request, refresh, smoke, reload, due, hydrate, kept>>
    BY DEF LoginWrites
<1>2. left' \in 0 .. Disturbances
    BY DisturbsOnce DEF Inv, LoginWrites
<1>3. file' \in Seats /\ InStep(file')
    BY <1>1, ImportIsSeat
<1>4. Touches
    BY <1>1, SameTouches DEF Inv
<1>5. login' \in LoginRecords
    BY <1>1 DEF LoginRecords
<1>6. Typed' /\ Smoking' /\ Hydrating' /\ Flagged'
    BY <1>1, <1>2, <1>3, <1>5 DEF Inv, Typed, LoginRecords, Smoking, Hydrating, Flagged
<1>7. QED
    BY <1>1, <1>4, <1>6, BesideKeeps DEF Inv

(* Freshness after a snapshot of whatever date was put onto an object.         *)
LEMMA OutdatedKeeps ==
    ASSUME Inv, NEW snapshot \in SnapshotRecords, Outdated(snapshot), UNCHANGED due,
            live' = live, Current(snapshot) => Touches
    PROVE  Refreshing' /\ Learned' /\ Fresh'
<1>1. Current(snapshot) \in BOOLEAN
    BY DEF Current
<1>2. /\ refresh'.phase = refresh.phase /\ refresh'.obj = refresh.obj /\ Refreshing'
      /\ refresh'.good = (refresh.good /\ Current(snapshot))
      /\ kept' = (kept /\ Current(snapshot))
    <2>1. refresh' = [refresh EXCEPT !.good = refresh.good /\ Current(snapshot)]
        BY DEF Outdated, Inv, Refreshing
    <2>2. (refresh.good /\ Current(snapshot)) \in BOOLEAN
        BY <1>1 DEF Inv, Refreshing
    <2>3. QED
        BY <2>1, <2>2 DEF Outdated, Inv, Refreshing
<1>3. CASE Current(snapshot)
    <2>1. refresh' = refresh /\ kept' = kept
        BY <1>3 DEF Outdated, Inv, Refreshing, Typed
    <2>2. QED
        BY <1>3, <2>1, BesideKeeps
<1>4. CASE ~Current(snapshot)
    BY <1>2, <1>4 DEF Learned, Fresh
<1>5. QED
    BY <1>3, <1>4

LEMMA LoginAppliesKeeps == ASSUME Inv, LoginApplies PROVE Inv' /\ Lasts
<1>1. live \in Object /\ login.quota \in SnapshotRecords
    BY DEF Inv, Typed, LoginRecords
<1>2. /\ seat' = [seat EXCEPT ![live] = QuotaApplied(seat[live], login.quota)]
      /\ file' = seat'[live] /\ login' = [NoLogin EXCEPT !.phase = "applied"]
      /\ Outdated(login.quota)
      /\ UNCHANGED <<live, request, smoke, reload, due, hydrate, left>>
    BY <1>1 DEF LoginApplies, Inv, Typed
<1>3. /\ seat' \in [Object -> Seats] /\ \A x \in Object : InStep(seat'[x])
      /\ Lasts /\ (Current(login.quota) => Touches)
    BY <1>1, <1>2, QuotaKeeps
<1>4. Refreshing' /\ Learned' /\ Fresh'
    BY <1>1, <1>2, <1>3, OutdatedKeeps
<1>5. login' \in LoginRecords
    BY <1>2, SnapshotsAreRecords DEF NoLogin, LoginRecords
<1>6. kept' \in BOOLEAN
    BY <1>2 DEF Outdated, Current
<1>7. Typed' /\ Smoking' /\ Hydrating' /\ Flagged'
    BY <1>1, <1>2, <1>3, <1>5, <1>6 DEF Inv, Typed, LoginRecords, Smoking, Hydrating, Flagged
<1>8. QED
    BY <1>3, <1>4, <1>7 DEF Inv

LEMMA HydrateBeginsKeeps == ASSUME Inv, HydrateBegins PROVE Inv' /\ Touches
<1>1. UNCHANGED <<seat, live, file, request, refresh, smoke, login, reload, due, kept, left>>
    BY DEF HydrateBegins
<1>2. Hydrating'
    BY Constants DEF HydrateBegins, NoHydrate, Inv, Typed, Hydrating
<1>3. Typed' /\ Smoking' /\ Flagged'
    BY <1>1 DEF Inv, Typed, Smoking, Flagged
<1>4. QED
    BY <1>1, <1>2, <1>3, SameTouches, BesideKeeps DEF Inv

LEMMA HydrateAnsweredKeeps == ASSUME Inv, HydrateAnswered PROVE Inv' /\ Lasts
<1> DEFINE o == hydrate.obj
<1>1. o \in Object /\ seat[o] \in Seats
    BY DEF HydrateAnswered, Inv, Hydrating, Typed
<1>2. UNCHANGED <<live, request, smoke, login, reload, due, left>>
    BY DEF HydrateAnswered
<1>3. Hydrating'
    BY DEF HydrateAnswered, NoHydrate, Hydrating
<1>4. PICK snapshot \in Snapshots :
          IF snapshot.kind \in Undated
          THEN LetGo(o, {refresh.obj, smoke.obj}) /\ UNCHANGED <<file, refresh, kept>>
          ELSE /\ seat' = [seat EXCEPT ![o] = QuotaApplied(seat[o], snapshot)]
               /\ file' = QuotaApplied(seat[o], snapshot)
               /\ Outdated(snapshot)
    BY DEF HydrateAnswered
<1>5. snapshot \in SnapshotRecords
    BY SnapshotsAreRecords
<1>6. CASE snapshot.kind \in Undated
    <2>1. LetGo(o, {refresh.obj, smoke.obj}) /\ UNCHANGED <<file, refresh, kept>>
        BY <1>4, <1>6
    <2> HIDE DEF o
    <2>2. Touches
        BY <1>1, <1>2, <2>1, LetGoTouches DEF Inv
    <2>3. Typed' /\ Smoking' /\ Flagged'
        BY <1>2, <2>1, <2>2, TouchKeeps DEF Inv, Typed, LoginRecords, Smoking, Flagged, Touches
    <2>4. QED
        BY <1>2, <1>3, <2>1, <2>2, <2>3, BesideKeeps, TouchKeeps DEF Inv
<1>7. CASE snapshot.kind \notin Undated
    <2>1. /\ seat' = [seat EXCEPT ![o] = QuotaApplied(seat[o], snapshot)]
          /\ file' = QuotaApplied(seat[o], snapshot)
          /\ Outdated(snapshot) /\ snapshot.kind # "error"
        BY <1>4, <1>7 DEF Undated
    <2> HIDE DEF o
    <2>2. /\ seat' \in [Object -> Seats] /\ \A x \in Object : InStep(seat'[x])
          /\ Lasts /\ (Current(snapshot) => Touches)
        BY <1>1, <1>2, <1>5, <2>1, QuotaKeeps
    <2>3. Refreshing' /\ Learned' /\ Fresh'
        BY <1>2, <1>5, <2>1, <2>2, OutdatedKeeps
    <2>4. file' = seat'[o]
        BY <1>1, <2>1 DEF Inv, Typed
    <2>5. kept' \in BOOLEAN
        BY <2>1 DEF Outdated, Current
    <2>6. Typed' /\ Smoking' /\ Flagged'
        BY <1>1, <1>2, <2>2, <2>4, <2>5 DEF Inv, Typed, LoginRecords, Smoking, Flagged
    <2>7. QED
        BY <1>3, <2>2, <2>3, <2>6 DEF Inv
<1>8. QED
    BY <1>6, <1>7

(* The pool is read for a reload.                                              *)
LEMMA ReadsPoolKeeps ==
    ASSUME Inv, ReloadReads \/ LoginReloads \/ HydrateReloads
    PROVE  Inv' /\ Touches
<1>1. UNCHANGED <<seat, live, file, request, refresh, smoke, due, kept>>
    BY DEF ReloadReads, LoginReloads, HydrateReloads
<1>2. left' \in 0 .. Disturbances
    BY DisturbsOnce DEF Inv, Typed, ReloadReads, LoginReloads, HydrateReloads
<1>3. PICK by \in {"other", "login", "hydrate"} : reload' = [by |-> by, text |-> file]
    BY DEF ReloadReads, LoginReloads, HydrateReloads, ReadsPool
<1>4. reload' \in [by : {"nobody", "other", "login", "hydrate"}, text : Seats] /\ InStep(reload'.text)
    BY <1>3 DEF Inv, Typed, Flagged
<1>5. login' \in LoginRecords
    <2>1. login' = login \/ \E phase \in {"reading", "rereading"} : login' = [login EXCEPT !.phase = phase]
        BY DEF ReloadReads, LoginReloads, HydrateReloads
    <2>2. QED
        BY <2>1 DEF Inv, Typed, LoginRecords
<1>6. Hydrating'
    BY DEF ReloadReads, LoginReloads, HydrateReloads, Inv, Hydrating
<1>7. Typed' /\ Smoking' /\ Flagged'
    BY <1>1, <1>2, <1>4, <1>5 DEF Inv, Typed, LoginRecords, Smoking, Flagged
<1>8. QED
    BY <1>1, <1>6, <1>7, SameTouches, BesideKeeps DEF Inv

-----------------------------------------------------------------------------
(* A reload puts another object in the place of the live one.                  *)
LEMMA RuntimeStateIsSeat ==
    ASSUME NEW s \in Seats, NEW old \in Seats
    PROVE  /\ WithRuntimeState(s, old) \in Seats
           /\ InStep(s) => InStep(WithRuntimeState(s, old))
           /\ FreshFor(WithRuntimeState(s, old)) = FreshFor(s)
<1>1. Larger(s.until, old.until) \in 0 .. Longest
    BY DEF Seats, Larger
<1>2. WithRuntimeState(s, old) = [s EXCEPT !.until = Larger(s.until, old.until)]
    BY DEF WithRuntimeState, Seats
<1>3. WithRuntimeState(s, old) \in Seats
    BY <1>1, <1>2 DEF Seats
<1>4. /\ WithRuntimeState(s, old).reason = s.reason /\ WithRuntimeState(s, old).blocked = s.blocked
      /\ WithRuntimeState(s, old).checked = s.checked
      /\ WithRuntimeState(s, old).quotaAt = s.quotaAt
    BY <1>2 DEF Seats
<1>5. QED
    BY <1>3, <1>4 DEF InStep, FreshFor

LEMMA ReloadReplacesKeeps == ASSUME Inv, ReloadReplaces PROVE Inv' /\ live' # live
<1> DEFINE p == WithRuntimeState(reload.text, seat[live])
<1>1. PICK o \in Object \ ({live} \cup Holders(Request)) :
          /\ seat' = [Reachable(seat, live, Holders(Request)) EXCEPT ![o] = p]
          /\ live' = o
    BY DEF ReloadReplaces
<1>2. /\ kept' = (kept /\ ~Older(reload.text, seat[live]))
      /\ UNCHANGED <<file, request, refresh, smoke, due, left>>
    BY DEF ReloadReplaces
<1>3. /\ live \in Object /\ seat[live] \in Seats /\ reload.text \in Seats /\ InStep(reload.text)
      /\ \A x \in Object : seat[x] \in Seats /\ InStep(seat[x])
    BY DEF Inv, Typed, Flagged
<1>4. p \in Seats /\ InStep(p) /\ FreshFor(p) = FreshFor(reload.text)
    BY <1>3, RuntimeStateIsSeat
<1> HIDE DEF p
<1>5. /\ seat' \in [Object -> Seats]
      /\ \A x \in Object : seat'[x] = IF x = o THEN p
                                      ELSE IF x = live /\ live \notin Holders(Request) THEN Blank
                                      ELSE seat[x]
    BY <1>1, <1>3, <1>4, BlankIsSeat DEF Reachable, Inv, Typed
<1>6. \A x \in Object : InStep(seat'[x])
    BY <1>3, <1>4, <1>5, BlankIsSeat
<1>7. Learned'
    <2> SUFFICES ASSUME refresh.good PROVE Learned'
        BY <1>2 DEF Learned
    <2>1. refresh.obj \in Object /\ refresh.obj \in Holders(Request)
        BY DEF Inv, Refreshing, Learned, Holders
    <2>2. seat'[refresh.obj] = seat[refresh.obj]
        BY <1>1, <1>5, <2>1
    <2>3. QED
        BY <1>2, <2>2 DEF Inv, Learned
<1>8. kept' \in BOOLEAN /\ (kept' => kept /\ ~(FreshFor(reload.text) < FreshFor(seat[live])))
    BY <1>2 DEF Older, Inv, Typed
<1>9. Fresh'
    <2> SUFFICES ASSUME kept' PROVE Fresh'
        BY DEF Fresh
    <2>1. FreshFor(seat'[live']) = FreshFor(reload.text)
        BY <1>1, <1>4, <1>5
    <2>2. FreshFor(seat[live]) \in Int /\ FreshFor(reload.text) \in Int
        BY <1>3, SeatFields
    <2>3. FreshFor(seat[live]) <= FreshFor(seat'[live'])
        BY <1>8, <2>1, <2>2
    <2>4. QED
        BY <1>2, <1>8, <2>1, <2>2, <2>3 DEF Inv, Fresh
<1>10. reload' \in [by : {"nobody", "other", "login", "hydrate"}, text : Seats] /\ InStep(reload'.text)
    BY BlankIsSeat DEF ReloadReplaces, NoReload
<1>11. login' \in LoginRecords
    <2>1. NoLogin \in LoginRecords
        BY SnapshotsAreRecords DEF NoLogin, LoginRecords
    <2>2. login \in LoginRecords
        BY DEF Inv, Typed, LoginRecords
    <2>3. login' \in {login, NoLogin, [login EXCEPT !.phase = "applying"]}
        BY DEF ReloadReplaces
    <2>4. QED
        BY <2>1, <2>2, <2>3 DEF LoginRecords
<1>12. Hydrating'
    BY DEF ReloadReplaces, NoHydrate, Inv, Hydrating
<1>13. live' \in Object /\ live' # live
    BY <1>1
<1>14. Typed' /\ Refreshing' /\ Smoking' /\ Flagged'
    BY <1>2, <1>5, <1>6, <1>8, <1>10, <1>11, <1>13
       DEF Inv, Typed, LoginRecords, Refreshing, Smoking, Flagged
<1>15. QED
    BY <1>7, <1>9, <1>12, <1>13, <1>14 DEF Inv

-----------------------------------------------------------------------------
(* The process starts, and time passes.                                        *)
LEMMA Started ==
    ASSUME live \in Object, file \in Seats, InStep(file),
           seat = [o \in Object |-> IF o = live THEN file ELSE Blank],
           request = [r \in Request |-> NoRequest], refresh = NoRefresh, smoke = NoSmoke,
           login = NoLogin, reload = NoReload, due = TRUE,
           hydrate = [NoHydrate EXCEPT !.phase = "due"], kept = FALSE, left \in 0 .. Disturbances
    PROVE  Inv
<1>1. seat \in [Object -> Seats] /\ \A o \in Object : InStep(seat[o])
    BY BlankIsSeat
<1>2. login \in LoginRecords
    BY SnapshotsAreRecords DEF NoLogin, LoginRecords
<1>3. reload \in [by : {"nobody", "other", "login", "hydrate"}, text : Seats] /\ InStep(reload.text)
    BY BlankIsSeat DEF NoReload
<1>4. Hydrating /\ Refreshing /\ Smoking /\ Learned
    BY DEF NoHydrate, NoRefresh, NoSmoke, Hydrating, Refreshing, Smoking, Learned
<1>5. request \in [Request -> [obj : Object \cup {NoObject}, model : Model \cup {NoModel}]]
    BY DEF NoRequest
<1>6. Typed /\ Flagged /\ Fresh
    BY <1>1, <1>2, <1>3, <1>5 DEF Typed, LoginRecords, Flagged, Fresh
<1>7. QED
    BY <1>4, <1>6 DEF Inv

LEMMA Initially == Init => Inv
<1> SUFFICES ASSUME Init PROVE Inv
    OBVIOUS
<1>1. PICK truth \in Resolved, kind \in {"models", "error"} :
          file = ImportedSeat(truth, Snapshot(kind, 1, Full))
    BY DEF Init
<1>2. file \in Seats /\ InStep(file)
    BY <1>1, AnswersAreTruths, ImportIsSeat, SnapshotsAreRecords
<1>3. left \in 0 .. Disturbances
    BY Constants DEF Init
<1>4. QED
    BY <1>2, <1>3, Started DEF Init

LEMMA SoonerTypes ==
    ASSUME NEW n \in Nat
    PROVE  /\ \A t \in 0 .. n : Sooner(t) \in 0 .. n
           /\ \A t \in Never .. n : Sooner(t) \in Never .. n
BY DEF Sooner, Never

LEMMA AgedIsSeat ==
    ASSUME NEW s \in Seats
    PROVE  Aged(s) \in Seats /\ (InStep(s) => InStep(Aged(s)))
<1>1. /\ Sooner(s.checked) \in Never .. Full /\ Sooner(s.quotaAt) \in Never .. Full
      /\ Sooner(s.until) \in 0 .. Longest
    BY SoonerTypes, SeatFields, Constants DEF Seats
<1>2. ASSUME NEW m \in Model
      PROVE  Sooner(s.full[m]) \in 0 .. Longest /\ Sooner(s.limit[m]) \in 0 .. Longest
    <2>1. s.full[m] \in 0 .. Longest /\ s.limit[m] \in 0 .. Longest
        BY SeatFields
    <2>2. QED
        BY <2>1, SoonerTypes, Constants
<1> DEFINE full == [m \in Model |-> Sooner(s.full[m])]
           limit == [m \in Model |-> Sooner(s.limit[m])]
<1>3. full \in [Model -> 0 .. Longest] /\ limit \in [Model -> 0 .. Longest]
    BY <1>2
<1>4. Aged(s) = [s EXCEPT !.checked = Sooner(s.checked), !.quotaAt = Sooner(s.quotaAt),
                          !.until = Sooner(s.until), !.full = full, !.limit = limit]
    BY DEF Aged, Seats
<1> HIDE DEF full, limit
<1>5. Aged(s) \in Seats
    BY <1>1, <1>3, <1>4 DEF Seats
<1>6. /\ Aged(s).reason = s.reason /\ Aged(s).blocked = s.blocked
    BY <1>4 DEF Seats
<1>7. QED
    BY <1>5, <1>6 DEF InStep

LEMMA ExpiredIsSeat ==
    ASSUME NEW s \in Seats
    PROVE  /\ Expired(s) \in Seats /\ (InStep(s) => InStep(Expired(s)))
           /\ Expired(s).limit = s.limit
           /\ FreshFor(s) >= 2 => FreshFor(Expired(s)) >= 2
           /\ \A n \in {Window, Full} : /\ s.checked = n => Expired(s).checked = n
                                        /\ s.quotaAt = n => Expired(s).quotaAt = n
<1> DEFINE checked == IF s.checked = 1 THEN 0 ELSE s.checked
           quotaAt == IF s.quotaAt = 1 THEN 0 ELSE s.quotaAt
<1>1. s.checked \in Never .. Full /\ s.quotaAt \in Never .. Full
    BY SeatFields
<1>2. checked \in Never .. Full /\ quotaAt \in Never .. Full
    BY <1>1, Constants DEF Never
<1>3. Expired(s) = [s EXCEPT !.checked = checked, !.quotaAt = quotaAt]
    BY DEF Expired, Seats
<1>4. FreshFor(s) >= 2 => (IF quotaAt # Never /\ quotaAt < checked THEN quotaAt ELSE checked) >= 2
    BY <1>1, Constants DEF FreshFor, Never
<1>5. \A n \in {Window, Full} : /\ s.checked = n => checked = n
                                /\ s.quotaAt = n => quotaAt = n
    BY Constants
<1> HIDE DEF checked, quotaAt
<1>6. /\ Expired(s) \in Seats
      /\ Expired(s).reason = s.reason /\ Expired(s).blocked = s.blocked
      /\ Expired(s).limit = s.limit
      /\ Expired(s).checked = checked /\ Expired(s).quotaAt = quotaAt
    BY <1>2, <1>3 DEF Seats
<1>7. QED
    BY <1>4, <1>5, <1>6 DEF InStep, FreshFor

LEMMA RestartKeeps == ASSUME Inv, Restart PROVE Inv'
<1>1. left' \in 0 .. Disturbances
    BY DisturbsOnce DEF Inv, Restart
<1>2. file' \in Seats /\ InStep(file')
    BY AgedIsSeat DEF Inv, Typed, Flagged, Restart
<1>3. seat' \in [Object -> Seats] /\ \A o \in Object : InStep(seat'[o])
    BY <1>2, BlankIsSeat DEF Restart
<1>4. login' \in LoginRecords
    BY SnapshotsAreRecords DEF Restart, NoLogin, LoginRecords
<1>5. reload' \in [by : {"nobody", "other", "login", "hydrate"}, text : Seats] /\ InStep(reload'.text)
    BY BlankIsSeat DEF Restart, NoReload
<1>6. Hydrating' /\ Refreshing' /\ Smoking' /\ Learned'
    BY DEF Restart, NoHydrate, NoRefresh, NoSmoke, Hydrating, Refreshing, Smoking, Learned
<1>7. request' \in [Request -> [obj : Object \cup {NoObject}, model : Model \cup {NoModel}]]
    BY DEF Restart, NoRequest
<1>8. Typed' /\ Flagged' /\ Fresh'
    BY <1>1, <1>2, <1>3, <1>4, <1>5, <1>7 DEF Restart, Typed, LoginRecords, Flagged, Fresh
<1>9. QED
    BY <1>6, <1>8 DEF Inv

LEMMA ExpiresKeeps == ASSUME Inv, Expires PROVE Inv' /\ Lasts
<1>1. /\ seat' = [o \in Object |-> Expired(seat[o])] /\ file' = Expired(file)
      /\ reload' = [reload EXCEPT !.text = Expired(reload.text)]
      /\ UNCHANGED <<live, request, refresh, smoke, login, due, hydrate, kept, left>>
    BY DEF Expires, Inv, Typed
<1>2. /\ \A o \in Object : seat[o] \in Seats /\ InStep(seat[o])
      /\ file \in Seats /\ InStep(file) /\ live \in Object
      /\ reload.text \in Seats /\ InStep(reload.text)
    BY DEF Inv, Typed, Flagged
<1>3. /\ seat' \in [Object -> Seats] /\ \A o \in Object : InStep(seat'[o])
      /\ file' \in Seats /\ InStep(file')
    BY <1>1, <1>2, ExpiredIsSeat
<1>4. reload' \in [by : {"nobody", "other", "login", "hydrate"}, text : Seats] /\ InStep(reload'.text)
    BY <1>1, <1>2, ExpiredIsSeat DEF Inv, Typed
<1>5. Typed' /\ Flagged' /\ Refreshing' /\ Smoking' /\ Hydrating'
    BY <1>1, <1>3, <1>4 DEF Inv, Typed, LoginRecords, Flagged, Refreshing, Smoking, Hydrating
<1>6. Learned'
    <2> SUFFICES ASSUME refresh.good PROVE Learned'
        BY <1>1 DEF Learned
    <2>1. refresh.obj \in Object
        BY DEF Inv, Refreshing, Learned
    <2>2. seat[refresh.obj] \in Seats /\ seat'[refresh.obj] = Expired(seat[refresh.obj])
        BY <1>1, <1>2, <2>1
    <2>3. QED
        BY <1>1, <2>2, ExpiredIsSeat DEF Inv, Learned
<1>7. Fresh'
    BY <1>1, <1>2, ExpiredIsSeat DEF Inv, Fresh
<1>8. Lasts
    <2>1. seat'[live].limit = seat[live].limit /\ \A m \in Model : seat[live].limit[m] \in Int
        BY <1>1, <1>2, ExpiredIsSeat, SeatFields
    <2>2. QED
        BY <2>1 DEF Lasts
<1>9. QED
    BY <1>5, <1>6, <1>7, <1>8 DEF Inv

LEMMA TimePassesKeeps == ASSUME Inv, TimePasses PROVE Inv'
<1>1. /\ seat' = [o \in Object |-> Aged(seat[o])] /\ file' = Aged(file) /\ due' = TRUE
      /\ UNCHANGED <<live, request, refresh, smoke, login, reload, hydrate, kept, left>>
    BY DEF TimePasses
<1>2. /\ \A o \in Object : seat[o] \in Seats /\ InStep(seat[o])
      /\ file \in Seats /\ InStep(file) /\ live \in Object
    BY DEF Inv, Typed, Flagged
<1>3. /\ seat' \in [Object -> Seats] /\ \A o \in Object : InStep(seat'[o])
      /\ file' \in Seats /\ InStep(file')
    BY <1>1, <1>2, AgedIsSeat
<1>4. Typed' /\ Flagged' /\ Refreshing' /\ Smoking' /\ Hydrating'
    BY <1>1, <1>3 DEF Inv, Typed, LoginRecords, Flagged, Refreshing, Smoking, Hydrating
<1>5. Learned' /\ Fresh'
    BY <1>1 DEF Inv, Learned, Fresh
<1>6. QED
    BY <1>4, <1>5 DEF Inv

-----------------------------------------------------------------------------
LEMMA StepKeeps ==
    ASSUME Inv, Next
    PROVE  Inv' /\ (Lasts \/ TimePasses \/ Restart)
<1>1. Touches => Lasts
    BY TouchKeeps DEF Inv
<1>2. live' # live => Lasts
    BY DEF Lasts
<1>3. CASE \E r \in Request, m \in Model \cup {NoModel} : Route(r, m) \/ RouteForced(r, m)
    BY <1>1, <1>3, RouteKeeps
<1>4. CASE \/ \E r \in Request : RequestSucceeds(r) \/ RequestFails(r)
           \/ \E r \in Request, wait \in Waits : RequestLimited(r, wait)
    BY <1>1, <1>4, RequestEndKeeps
<1>5. CASE PollerTick \/ RefreshFails \/ RefreshSaves
    BY <1>1, <1>5, PollerTickKeeps, RefreshEndKeeps
<1>6. CASE RefreshLoads
    BY <1>1, <1>6, AnswersAreTruths, RefreshLearnsKeeps DEF RefreshLoads
<1>7. CASE RefreshQuota
    BY <1>7, SnapshotsAreRecords, RefreshTakesKeeps DEF RefreshQuota
<1>8. CASE (\E m \in Model : SmokeBegins(m)) \/ SmokeLoads \/ SmokeGenerates \/ SmokeSaves
    BY <1>1, <1>8, SmokeBeginsKeeps, SmokeLoadsKeeps, SmokeGeneratesKeeps, SmokeSavesKeeps
<1>9. CASE ReloadReads \/ LoginReloads \/ HydrateReloads
    BY <1>1, <1>9, ReadsPoolKeeps
<1>10. CASE \E truth \in Resolved, snapshot \in Snapshots : LoginWrites(truth, snapshot)
    BY <1>1, <1>10, AnswersAreTruths, SnapshotsAreRecords, LoginWritesKeeps
<1>11. CASE HydrateBegins
    BY <1>1, <1>11, HydrateBeginsKeeps
<1>12. CASE LoginApplies \/ HydrateAnswered \/ Expires
    BY <1>12, LoginAppliesKeeps, HydrateAnsweredKeeps, ExpiresKeeps
<1>13. CASE ReloadReplaces \/ Restart \/ TimePasses
    BY <1>2, <1>13, ReloadReplacesKeeps, RestartKeeps, TimePassesKeeps
<1>14. QED
    BY <1>3, <1>4, <1>5, <1>6, <1>7, <1>8, <1>9, <1>10, <1>11, <1>12, <1>13 DEF Next

LEMMA StutterKeeps == Inv /\ UNCHANGED vars => Inv'
BY DEF vars, Inv, Typed, Refreshing, Smoking, Hydrating, Flagged, InStep, Learned, Fresh, FreshFor

(* The inductive invariant: what each actor holds, that reason and flag agree, *)
(* what a refresh has learned, and how long a kept seat still is fresh.        *)
THEOREM SeatInvariant == Spec => []Inv
<1>1. Inv /\ [Next]_vars => Inv'
    BY StepKeeps, StutterKeeps
<1>2. QED
    BY <1>1, Initially, PTL DEF Spec

(* The seat keeps its types (pool.go, gemini_operator.go).                     *)
THEOREM SeatTyped == Spec => []TypeOK
<1>1. Inv => TypeOK
    BY DEF Inv, Typed, Refreshing, Smoking, Hydrating, TypeOK
<1>2. QED
    BY <1>1, SeatInvariant, PTL

(* Whatever the provider answers and whoever writes it to the seat: an object  *)
(* the provider has blocked or forbidden takes no request (pool.go:1121).      *)
THEOREM BlockedSeatIsRefused == Spec => []BlockedSeatRefused
<1>1. Inv => BlockedSeatRefused
    BY DEF Inv, Flagged, InStep, BlockedSeatRefused, Quarantined, Routable, RoutesWhenBlocked
<1>2. QED
    BY <1>1, SeatInvariant, PTL

(* For any window longer than the poll interval, and whatever dates snapshots  *)
(* carry: a seat the poller keeps is stale only until the pass that renews it  *)
(* is through (gemini_operator.go:529, 549).                                   *)
THEOREM KeptSeatIsRenewed == Spec => []StaleOnlyWhileRenewed
<1>1. Inv => StaleOnlyWhileRenewed
    BY DEF Inv, Fresh, StaleOnlyWhileRenewed, Stale
<1>2. QED
    BY <1>1, SeatInvariant, PTL

(* A model's limit on the object in use is shortened by time alone, however    *)
(* successes, other limits, truth and quota are written to it (main.go:621).   *)
THEOREM ModelLimitIsKept == Spec => ModelLimitLastsItsTime
<1> DEFINE A == \A m \in Model :
                  live' = live /\ seat'[live].limit[m] < seat[live].limit[m] =>
                      TimePasses \/ Restart
<1>1. Inv /\ [Next]_vars => [A]_vars
    <2> SUFFICES ASSUME Inv, Next, live' = live, NEW m \in Model,
                        seat'[live].limit[m] < seat[live].limit[m],
                        ~TimePasses, ~Restart
                 PROVE  FALSE
        OBVIOUS
    <2>1. seat[live].limit[m] <= seat'[live].limit[m] /\ Inv'
        BY StepKeeps DEF Lasts
    <2>2. /\ seat[live] \in Seats /\ seat'[live] \in Seats
        BY <2>1 DEF Inv, Typed
    <2>3. seat[live].limit[m] \in Int /\ seat'[live].limit[m] \in Int
        BY <2>2, SeatFields
    <2>4. QED
        BY <2>1, <2>3
<1> HIDE DEF A
<1>2. Spec => [][A]_vars
    BY <1>1, SeatInvariant, PTL DEF Spec
<1>3. QED
    BY <1>2 DEF A, ModelLimitLastsItsTime
=============================================================================
