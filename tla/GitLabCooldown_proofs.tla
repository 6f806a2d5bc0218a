------------------------ MODULE GitLabCooldown_proofs ------------------------
(***************************************************************************)
(* For any pool, organisations, requests, waits and bounds: the cooldown   *)
(* keeps its types, a request is turned away only when no seat was free    *)
(* all the time, canaries of one scope are apart, and a dead seat is not   *)
(* revived by the cooldown.                                                *)
(***************************************************************************)
EXTENDS GitLabCooldown, SequenceTheorems, TLAPS

Elements(t) == {t[i] : i \in 1 .. Len(t)}
FileType == [dead : BOOLEAN, gateway : BOOLEAN, until : Nat, shared : BOOLEAN]

(* A dead seat is in no shared cooldown.                                   *)
Sound(o) == o.dead => ~o.shared

(* A canary will ask with this seat before its cooldown ends.              *)
Armed(o) == o.shared /\ 0 <= o.probe /\ o.probe < o.until

Asks == [pc : {"idle", "ready", "claimed", "sent", "checked", "cooling", "asking",
               "turned_away"},
         seat : Seats \cup {None}, tried : SUBSET Seats, answer : Answers \cup {""},
         alive : {TRUE}, todo : Seq(Seats), left : Nat, affected : BOOLEAN]
Holding(q) == q.pc \in {"claimed", "sent", "checked", "cooling"}

Canaries == [pc : {"idle", "next", "prepare", "asking", "cooling", "noting", "clearing"},
             queue : SUBSET Seats, seat : Seats \cup {None},
             elapsed : 0 .. CanaryTimeout, retry : BOOLEAN, answered : BOOLEAN,
             todo : Seq(Seats), left : Nat, affected : BOOLEAN]
Working(q) == q.pc \notin {"idle", "next"}

Counted == /\ restarts \in 0 .. MaxRestarts /\ events \in 0 .. MaxEvents
           /\ limited \in [Scopes -> BOOLEAN]
Filed(f) == f \in [Seats -> FileType] /\ \A s \in Seats : f[s].dead => ~f[s].shared
Kept == /\ obj \in [Seats -> AccountType]
        /\ \A s \in Seats : Sound(obj[s])
        /\ Filed(file)
Asked == /\ req \in [Requests -> Asks]
         /\ \A r \in Requests : Holding(req[r]) => req[r].seat \in Seats
Probing == /\ canary \in Canaries
           /\ Working(canary) => canary.seat \in Seats
           /\ quiet \in [Scopes -> 0 .. RetryDelay]
Polled == /\ poll \in [by : {None, "poller", "operator"}, seat : Seats \cup {None}]
          /\ poll # NoPoll => poll.seat \in Seats

(* The seats of the scope whose canary is under way, that it will still    *)
(* note or clear.                                                          *)
Handled(q, s) ==
    /\ Scope[s] = Scope[q.seat]
    /\ \/ q.pc \in {"prepare", "asking", "cooling"}
       \/ q.pc \in {"noting", "clearing"} /\ s \in Elements(q.todo)

(* All other canaries are planned after the retry delay; at most one of a  *)
(* scope is queued, and then it is due; and the one under way began before.*)
DueLater(q, o, s) == Armed(o) /\ ~Handled(q, s) => RetryDelay <= quiet[Scope[s]] + o.probe
Queued(q) ==
    \A d \in q.queue :
        /\ RetryDelay <= quiet[Scope[d]]
        /\ Working(q) => Scope[d] # Scope[q.seat]
        /\ \A e \in q.queue : Scope[d] = Scope[e] => d = e
Spaced ==
    /\ \A s \in Seats : DueLater(canary, obj[s], s)
    /\ Queued(canary)
    /\ Working(canary) => canary.elapsed <= quiet[Scope[canary.seat]]

(* What was free all the time is still to be looked at.                    *)
Watched ==
    /\ open \in [Requests -> SUBSET Seats]
    /\ \A r \in Requests : /\ req[r].pc = "asking" => open[r] \subseteq Elements(req[r].todo)
                           /\ req[r].pc = "turned_away" => open[r] = {}

(* The inductive invariant.                                                *)
Machine == Counted /\ Kept /\ Asked /\ Probing /\ Polled /\ Spaced
Inv == Machine /\ Watched

-----------------------------------------------------------------------------
LEMMA Constants ==
    /\ Lead \in Nat /\ CanaryTimeout \in Nat /\ RetryDelay \in Nat
    /\ CanaryTimeout < RetryDelay /\ Waits \subseteq Nat
    /\ Pool \in Seq(Seats) /\ Elements(Pool) = Seats
    /\ \A s \in Seats : Scope[s] \in Scopes
BY CooldownAssumption DEF Elements, Seats

LEMMA TailElements ==
    ASSUME NEW t \in Seq(Seats), t # <<>>
    PROVE  /\ Head(t) \in Seats /\ Tail(t) \in Seq(Seats)
           /\ Elements(t) = {Head(t)} \cup Elements(Tail(t))
<1>1. /\ Head(t) \in Seats /\ Tail(t) \in Seq(Seats) /\ Len(Tail(t)) = Len(t) - 1
      /\ \A i \in 1 .. Len(Tail(t)) : Tail(t)[i] = t[i + 1]
      /\ Len(t) \in Nat \ {0} /\ Head(t) = t[1]
    BY HeadTailProperties, EmptySeq, LenProperties
<1>2. ASSUME NEW i \in 1 .. Len(t) PROVE t[i] \in {Head(t)} \cup Elements(Tail(t))
    <2>1. CASE i = 1
        BY <1>1, <2>1
    <2>2. CASE i # 1
        <3>1. i - 1 \in 1 .. Len(Tail(t)) /\ t[i] = Tail(t)[i - 1]
            BY <1>1, <2>2
        <3>2. QED
            BY <3>1 DEF Elements
    <2>3. QED
        BY <2>1, <2>2
<1>3. ASSUME NEW i \in 1 .. Len(Tail(t)) PROVE Tail(t)[i] \in Elements(t)
    <2>1. i + 1 \in 1 .. Len(t) /\ Tail(t)[i] = t[i + 1]
        BY <1>1
    <2>2. QED
        BY <2>1 DEF Elements
<1>4. Head(t) \in Elements(t)
    BY <1>1 DEF Elements
<1>5. \A x \in Elements(t) : x \in {Head(t)} \cup Elements(Tail(t))
    BY <1>2 DEF Elements
<1>6. \A x \in Elements(Tail(t)) : x \in Elements(t)
    BY <1>3 DEF Elements
<1>7. Elements(t) = {Head(t)} \cup Elements(Tail(t))
    BY <1>4, <1>5, <1>6
<1>8. Head(t) \in Seats /\ Tail(t) \in Seq(Seats)
    BY <1>1
<1>9. QED
    BY <1>7, <1>8, Zenon

(* What the handlers make of a seat is a seat, and arms none.              *)
Makes(o, p) == /\ p \in AccountType /\ Sound(p) /\ (Armed(p) => p = o)
                  /\ Persisted(p) \in FileType /\ (p.dead => ~p.shared)

LEMMA SavedIsFile ==
    ASSUME NEW p \in AccountType
    PROVE  Persisted(p) \in FileType
BY DEF AccountType, FileType, Persisted

LEMMA LargerIsNat ==
    ASSUME NEW i \in Int, NEW j \in Nat
    PROVE  Larger(i, j) \in Nat /\ Larger(j, i) \in Nat
BY DEF Larger

LEMMA DisposedMakes ==
    ASSUME NEW o \in AccountType, Sound(o), NEW a, NEW w \in Nat
    PROVE  Makes(o, Disposed(o, a, w))
<1> DEFINE p == Disposed(o, a, w)
<1>1. Larger(o.until, w) \in Nat
    BY DEF AccountType, Larger
<1>2. p \in AccountType /\ ~p.shared
    <2>1. CASE a \in {"tpm", "own_limit", "rejected"}
        <3>1. p = [o EXCEPT !.until = Larger(@, w), !.dead = FALSE, !.shared = FALSE]
            BY <2>1 DEF Disposed
        <3> HIDE DEF p
        <3>2. QED
            BY <1>1, <3>1 DEF AccountType
    <2>2. CASE a = "no_quota"
        <3>1. p = [o EXCEPT !.dead = TRUE, !.until = 0, !.shared = FALSE]
            BY <2>2 DEF Disposed
        <3> HIDE DEF p
        <3>2. QED
            BY <3>1 DEF AccountType
    <2>3. CASE a \notin {"tpm", "own_limit", "rejected", "no_quota"}
        <3>1. p = [o EXCEPT !.shared = FALSE]
            BY <2>3 DEF Disposed
        <3> HIDE DEF p
        <3>2. QED
            BY <3>1 DEF AccountType
    <2>4. QED
        BY <2>1, <2>2, <2>3
<1> HIDE DEF p
<1>3. Makes(o, p)
    BY <1>2, SavedIsFile DEF Makes, Sound, Armed
<1>4. QED
    BY <1>3 DEF p

LEMMA SucceededMakes ==
    ASSUME NEW o \in AccountType
    PROVE  Makes(o, Succeeded(o))
<1>1. Succeeded(o) \in AccountType /\ ~Succeeded(o).shared
    BY DEF AccountType, Succeeded, Never
<1>2. QED
    BY <1>1, SavedIsFile DEF Makes, Sound, Armed

LEMMA ClearedMakes ==
    ASSUME NEW o \in AccountType, Sound(o)
    PROVE  Makes(o, Cleared(o))
<1>1. Cleared(o) \in AccountType /\ ~Cleared(o).shared
    <2>1. CASE o.dead
        BY <2>1 DEF Cleared, Sound
    <2>2. CASE ~o.dead
        BY <2>2 DEF AccountType, Cleared, Never
    <2>3. QED
        BY <2>1, <2>2
<1>2. QED
    BY <1>1, SavedIsFile DEF Makes, Sound, Armed

LEMMA RefreshedMakes ==
    ASSUME NEW o \in AccountType, Sound(o), NEW outcome, NEW w \in Nat
    PROVE  Makes(o, Refreshed(o, outcome, w))
<1> DEFINE p == Refreshed(o, outcome, w)
<1>1. CASE outcome = "throttled"
    <2>1. p = o
        BY <1>1 DEF Refreshed
    <2>2. QED
        BY <2>1, SavedIsFile DEF Makes, Sound
<1>2. CASE outcome \in {"granted", "malformed", "unreachable"}
    <2>1. \/ p = [o EXCEPT !.gateway = TRUE, !.dead = FALSE, !.until = 0, !.shared = FALSE]
          \/ p = [o EXCEPT !.gateway = FALSE, !.shared = FALSE]
          \/ p = [o EXCEPT !.shared = FALSE]
        BY <1>2 DEF Refreshed
    <2> HIDE DEF p
    <2>2. p \in AccountType /\ ~p.shared
        <3>1. CASE p = [o EXCEPT !.gateway = TRUE, !.dead = FALSE, !.until = 0, !.shared = FALSE]
            BY <3>1 DEF AccountType
        <3>2. CASE p = [o EXCEPT !.gateway = FALSE, !.shared = FALSE]
            BY <3>2 DEF AccountType
        <3>3. CASE p = [o EXCEPT !.shared = FALSE]
            BY <3>3 DEF AccountType
        <3>4. QED
            BY <2>1, <3>1, <3>2, <3>3
    <2>3. Makes(o, p)
        BY <2>2, SavedIsFile DEF Makes, Sound, Armed
    <2>4. QED
        BY <2>3 DEF p
<1>3. CASE outcome \notin {"throttled", "granted", "malformed", "unreachable"}
    <2>1. p = Disposed(o, outcome, w)
        BY <1>3 DEF Refreshed
    <2>2. QED
        BY <2>1, DisposedMakes
<1>4. QED
    BY <1>1, <1>2, <1>3

(* The operator's refresh drops the cooldown.                              *)
LEMMA DroppedMakes ==
    ASSUME NEW o \in AccountType, Sound(o)
    PROVE  Makes(o, [o EXCEPT !.until = 0])
<1>1. /\ [o EXCEPT !.until = 0] \in AccountType
      /\ Sound([o EXCEPT !.until = 0])
    BY DEF AccountType, Sound
<1>2. ~Armed([o EXCEPT !.until = 0])
    BY DEF AccountType, Armed, Never
<1>3. QED
    BY <1>1, <1>2, SavedIsFile DEF Makes, Sound

(* The cooldown and the note keep a seat sound.                            *)
LEMMA CooledSound ==
    ASSUME NEW o \in AccountType, Sound(o), NEW w \in Nat
    PROVE  /\ Cooled(o, w) \in AccountType /\ Sound(Cooled(o, w))
           /\ Cooled(o, w).dead = o.dead
<1>1. CASE o.dead
    BY <1>1 DEF Cooled
<1>2. CASE ~o.dead
    <2>1. Larger(o.until, w) \in Nat /\ Larger(0, w - Lead) \in Nat
        BY LargerIsNat, Constants DEF AccountType, Larger
    <2>2. Cooled(o, w) = [o EXCEPT !.until = Larger(@, w), !.shared = TRUE,
                                   !.probe = Larger(0, w - Lead)]
        BY <1>2 DEF Cooled
    <2>3. PICK u \in Nat, probe \in Nat :
              Cooled(o, w) = [o EXCEPT !.until = u, !.shared = TRUE, !.probe = probe]
        BY <2>1, <2>2
    <2>4. Cooled(o, w) \in AccountType
        BY <2>3 DEF AccountType
    <2>5. /\ o.dead = FALSE /\ Cooled(o, w).dead = FALSE
          /\ Cooled(o, w).probe \in Nat
        BY <1>2, <2>3 DEF AccountType
    <2>6. Cooled(o, w).probe # Never
        BY <2>5 DEF Never
    <2>7. QED
        BY <2>4, <2>5, <2>6, Zenon DEF Sound
<1>3. QED
    BY <1>1, <1>2 DEF AccountType

(* A canary that is noted is repeated after the rest of the delay, if the  *)
(* cooldown lasts that long.                                               *)
LEMMA NotedSound ==
    ASSUME NEW o \in AccountType, Sound(o), NEW retry \in BOOLEAN,
           NEW t \in 0 .. CanaryTimeout
    PROVE  /\ Noted(o, retry, t) \in AccountType /\ Sound(Noted(o, retry, t))
           /\ Noted(o, retry, t).dead = o.dead
           /\ Armed(Noted(o, retry, t)) => Noted(o, retry, t).probe = RetryDelay - t
<1> DEFINE probe == IF retry /\ o.until > 0 THEN Smaller(RetryDelay - t, o.until) ELSE Never
<1>1. RetryDelay - t \in Nat \ {0}
    BY Constants
<1>2. probe \in Nat \cup {Never}
    BY <1>1 DEF Smaller, Never, AccountType
<1>3. 0 <= probe /\ probe < o.until => probe = RetryDelay - t
    BY <1>1 DEF Smaller, Never, AccountType
<1>4. Noted(o, retry, t) = [o EXCEPT !.probe = probe]
    BY DEF Noted
<1> HIDE DEF probe
<1>5. QED
    BY <1>2, <1>3, <1>4 DEF AccountType, Sound, Armed

-----------------------------------------------------------------------------
(* What a step leaves right when it does one thing.                        *)
LEMMA FilesWritten ==
    ASSUME Filed(file), NEW f, Filed(f), Writes(f)
    PROVE  Filed(file')
BY DEF Writes

LEMMA FilesAfterEvent ==
    ASSUME Filed(file), Counted, Happens
    PROVE  Filed(file') /\ events' \in 0 .. MaxEvents
<1>1. Filed(NoFiles)
    BY DEF Filed, NoFiles, Fresh, FileType
<1>2. QED
    BY <1>1, CooldownAssumption DEF Happens, Counted

LEMMA PutKeeps ==
    ASSUME Kept, NEW s \in Seats, NEW p \in AccountType, Sound(p),
           restarts' = restarts, Put(s, p)
    PROVE  /\ obj' \in [Seats -> AccountType]
           /\ \A x \in Seats : Sound(obj'[x])
           /\ \A x \in Seats : obj'[x] = IF x = s THEN p ELSE obj[x]
BY DEF Kept, Put

LEMMA PutOnlyKeeps ==
    ASSUME Kept, NEW s \in Seats, NEW p \in AccountType, Sound(p),
           restarts' = restarts, PutOnly(s, p)
    PROVE  Kept' /\ \A x \in Seats : obj'[x] = IF x = s THEN p ELSE obj[x]
BY PutKeeps DEF Kept, PutOnly

LEMMA PutAndSaveKeeps ==
    ASSUME Kept, NEW s \in Seats, NEW p \in AccountType, Sound(p),
           restarts' = restarts, PutAndSave(s, p)
    PROVE  Kept' /\ \A x \in Seats : obj'[x] = IF x = s THEN p ELSE obj[x]
<1>1. Filed([file EXCEPT ![s] = Persisted(p)])
    <2>1. Persisted(p) \in FileType /\ (Persisted(p).dead => ~Persisted(p).shared)
        BY SavedIsFile DEF Persisted, Sound
    <2>2. QED
        BY <2>1 DEF Kept, Filed
<1>2. Filed(file')
    BY <1>1, FilesWritten DEF Kept, PutAndSave
<1>3. QED
    BY <1>2, PutKeeps DEF Kept, PutAndSave

LEMMA MovesAsked ==
    ASSUME Asked, NEW r \in Requests, NEW q \in Asks, Holding(q) => q.seat \in Seats,
           Moves(r, q)
    PROVE  Asked'
BY DEF Asked, Moves

(* A step that leaves the canary alone, plans no canary sooner than the    *)
(* delay after the last, and makes nothing quieter.                        *)
LEMMA SpacedBeside ==
    ASSUME Kept, Kept', Probing, Spaced, UNCHANGED canary, quiet' \in [Scopes -> 0 .. RetryDelay],
           \A k \in Scopes : quiet[k] <= quiet'[k],
           \A s \in Seats : \/ Armed(obj'[s]) => obj'[s] = obj[s]
                            \/ RetryDelay <= quiet'[Scope[s]]
    PROVE  Probing' /\ Spaced'
<1>1. Probing'
    BY DEF Probing
<1>2. \A s \in Seats : Scope[s] \in Scopes /\ quiet[Scope[s]] \in Nat /\ quiet'[Scope[s]] \in Nat
                      /\ quiet[Scope[s]] <= quiet'[Scope[s]]
    BY Constants DEF Probing
<1>3. ASSUME NEW s \in Seats PROVE DueLater(canary, obj[s], s)'
    <2> SUFFICES ASSUME Armed(obj'[s]), ~Handled(canary, s)
                 PROVE  RetryDelay <= quiet'[Scope[s]] + obj'[s].probe
        BY DEF DueLater, Armed, Handled, Elements
    <2>1. obj[s].probe \in Int /\ obj'[s].probe \in Int /\ 0 <= obj'[s].probe
        BY DEF Kept, AccountType, Armed, Never
    <2>2. CASE RetryDelay <= quiet'[Scope[s]]
        BY <1>2, <2>1, <2>2, Constants
    <2>3. CASE obj'[s] = obj[s]
        <3>1. RetryDelay <= quiet[Scope[s]] + obj[s].probe
            BY <2>3 DEF Spaced, DueLater
        <3>2. QED
            BY <1>2, <2>1, <2>3, <3>1, Constants
    <2>4. QED
        BY <2>2, <2>3
<1>4. Queued(canary)'
    <2>1. ASSUME NEW d \in canary.queue
          PROVE  /\ RetryDelay <= quiet'[Scope[d]]
                 /\ Working(canary) => Scope[d] # Scope[canary.seat]
                 /\ \A e \in canary.queue : Scope[d] = Scope[e] => d = e
        <3>1. d \in Seats
            BY DEF Probing, Canaries
        <3>2. QED
            BY <1>2, <3>1, Constants DEF Spaced, Queued
    <2>2. QED
        BY <2>1 DEF Queued, Working
<1>5. Working(canary') => canary'.elapsed <= quiet'[Scope[canary'.seat]]
    <2>1. canary.elapsed \in Nat
        BY Constants DEF Probing, Canaries
    <2>2. QED
        BY <1>2, <2>1 DEF Spaced, Working, Probing
<1>6. QED
    BY <1>1, <1>3, <1>4, <1>5 DEF Spaced, Working

(* A step of a request, or of another refresh, that puts one seat.         *)
LEMMA OnePut ==
    ASSUME Machine, NEW s \in Seats, NEW p, Makes(obj[s], p),
           PutOnly(s, p) \/ PutAndSave(s, p), UNCHANGED <<restarts, canary, quiet>>
    PROVE  Kept' /\ Probing' /\ Spaced'
<1>1. p \in AccountType /\ Sound(p)
    BY DEF Makes
<1>2. Kept' /\ \A x \in Seats : obj'[x] = IF x = s THEN p ELSE obj[x]
    BY <1>1, PutOnlyKeeps, PutAndSaveKeeps DEF Machine
<1>3. \A x \in Seats : Armed(obj'[x]) => obj'[x] = obj[x]
    BY <1>2 DEF Makes
<1>4. \A k \in Scopes : quiet[k] <= quiet'[k]
    BY Constants DEF Machine, Probing
<1>5. QED
    BY <1>2, <1>3, <1>4, SpacedBeside DEF Machine, Probing

LEMMA NoPut ==
    ASSUME Machine, UNCHANGED <<restarts, canary, quiet, obj>>, Filed(file')
    PROVE  Kept' /\ Probing' /\ Spaced'
<1>1. Kept'
    BY DEF Machine, Kept
<1>2. \A k \in Scopes : quiet[k] <= quiet'[k]
    BY Constants DEF Machine, Probing
<1>3. QED
    BY <1>1, <1>2, SpacedBeside DEF Machine, Probing

-----------------------------------------------------------------------------
(* The requests.                                                           *)
LEMMA RequestMoves ==
    ASSUME Machine, NEW r \in Requests, NEW q \in Asks, Holding(q) => q.seat \in Seats,
           Moves(r, q), RequestAlone
    PROVE  Counted' /\ Asked' /\ Polled'
BY MovesAsked DEF Machine, Counted, Polled, RequestAlone

LEMMA AskFields ==
    ASSUME Asked, NEW r \in Requests
    PROVE  /\ req[r] \in Asks /\ (Holding(req[r]) => req[r].seat \in Seats)
           /\ NoRequest \in Asks
           /\ \A tried \in SUBSET Seats :
                 [NoRequest EXCEPT !.pc = "ready", !.tried = tried] \in Asks
<1>1. <<>> \in Seq(Seats)
    BY EmptySeq
<1>2. QED
    BY <1>1 DEF Asked, Asks, NoRequest

(* Nothing but the request's own place changes.                            *)
LEMMA OnlyMoves ==
    ASSUME Machine, NEW r \in Requests, NEW q \in Asks, Holding(q) => q.seat \in Seats,
           Moves(r, q), RequestAlone, UNCHANGED <<obj, file, quiet>>
    PROVE  Machine'
<1>1. Filed(file')
    BY DEF Machine, Kept
<1>2. Kept' /\ Probing' /\ Spaced'
    BY <1>1, NoPut DEF RequestAlone
<1>3. QED
    BY <1>2, RequestMoves DEF Machine

LEMMA MovesAndPuts ==
    ASSUME Machine, NEW r \in Requests, NEW q \in Asks, Holding(q) => q.seat \in Seats,
           Moves(r, q), RequestAlone, UNCHANGED quiet,
           NEW s \in Seats, NEW p, Makes(obj[s], p),
           PutOnly(s, p) \/ PutAndSave(s, p)
    PROVE  Machine'
<1>1. Kept' /\ Probing' /\ Spaced'
    BY OnePut DEF RequestAlone
<1>2. QED
    BY <1>1, RequestMoves DEF Machine

LEMMA ArrivesKeeps == ASSUME Machine, NEW r \in Requests, Arrives(r) PROVE Machine'
<1>1. [NoRequest EXCEPT !.pc = "ready"] \in Asks
    <2>1. NoRequest \in Asks
        BY AskFields DEF Machine
    <2>2. QED
        BY <2>1 DEF Asks
<1>2. Asked'
    BY <1>1, MovesAsked DEF Arrives, Machine, Holding, NoRequest
<1>3. Filed(file') /\ events' \in 0 .. MaxEvents
    BY FilesAfterEvent DEF Machine, Kept, Arrives
<1>4. Kept' /\ Probing' /\ Spaced'
    BY <1>3, NoPut DEF Arrives
<1>5. Counted' /\ Polled'
    BY <1>3 DEF Arrives, Machine, Counted, Polled
<1>6. QED
    BY <1>2, <1>4, <1>5 DEF Machine

LEMMA ClaimKeeps == ASSUME Machine, NEW r \in Requests, Claim(r) PROVE Machine'
<1>1. req[r] \in Asks /\ NoRequest \in Asks
    BY AskFields DEF Machine
<1>2. PICK s \in Seats \ req[r].tried :
          Moves(r, [NoRequest EXCEPT !.pc = "claimed", !.seat = s,
                                     !.tried = req[r].tried \cup {s}])
    BY DEF Claim
<1> DEFINE q == [NoRequest EXCEPT !.pc = "claimed", !.seat = s,
                                  !.tried = req[r].tried \cup {s}]
<1>3. q \in Asks /\ q.seat \in Seats /\ Moves(r, q)
    BY <1>1, <1>2 DEF Asks
<1> HIDE DEF q
<1>4. QED
    BY <1>3, OnlyMoves DEF Claim

LEMMA RefreshFirstKeeps ==
    ASSUME Machine, NEW r \in Requests, NEW outcome, NEW w \in Waits,
           RefreshFirst(r, outcome, w)
    PROVE  Machine'
<1> DEFINE q == [req[r] EXCEPT !.pc = "sent"]
           s == req[r].seat
           p == Refreshed(obj[s], outcome, w)
<1>1. req[r] \in Asks /\ s \in Seats
    BY AskFields DEF Machine, RefreshFirst, Holding
<1>2. q \in Asks /\ q.seat \in Seats /\ Moves(r, q)
    BY <1>1 DEF Asks, RefreshFirst
<1>3. obj[s] \in AccountType /\ Sound(obj[s]) /\ w \in Nat
    BY <1>1, Constants DEF Machine, Kept
<1>4. Makes(obj[s], p)
    BY <1>3, RefreshedMakes
<1>5. PutOnly(s, p) \/ PutAndSave(s, p)
    BY DEF RefreshFirst
<1> HIDE DEF q, p, s
<1>6. QED
    BY <1>1, <1>2, <1>4, <1>5, MovesAndPuts DEF RefreshFirst

LEMMA AnswerDeliveredKeeps ==
    ASSUME Machine, NEW r \in Requests, AnswerDelivered(r) PROVE Machine'
<1> DEFINE s == req[r].seat
           p == Succeeded(obj[s])
<1>1. s \in Seats /\ NoRequest \in Asks /\ ~Holding(NoRequest)
    BY AskFields DEF Machine, AnswerDelivered, Holding, NoRequest
<1>2. Makes(obj[s], p)
    BY <1>1, SucceededMakes DEF Machine, Kept
<1>3. PutOnly(s, p) \/ PutAndSave(s, p)
    BY DEF AnswerDelivered
<1> HIDE DEF p, s
<1>4. QED
    BY <1>1, <1>2, <1>3, MovesAndPuts DEF AnswerDelivered

LEMMA NextReady ==
    ASSUME Asked, NEW r \in Requests, TriesNext(r)
    PROVE  \E q \in Asks : Moves(r, q) /\ ~Holding(q)
<1> DEFINE q == [NoRequest EXCEPT !.pc = "ready", !.tried = req[r].tried]
<1>1. req[r].tried \in SUBSET Seats
    BY AskFields DEF Asks
<1>2. q \in Asks /\ ~Holding(q)
    BY <1>1, AskFields DEF Holding, NoRequest
<1>3. QED
    BY <1>2 DEF TriesNext

LEMMA AnswerLostKeeps == ASSUME Machine, NEW r \in Requests, AnswerLost(r) PROVE Machine'
<1>1. PICK q \in Asks : Moves(r, q) /\ ~Holding(q)
    BY NextReady DEF Machine, AnswerLost
<1>2. QED
    BY <1>1, OnlyMoves DEF AnswerLost

LEMMA CheckDeadKeeps ==
    ASSUME Machine, NEW r \in Requests, NEW a \in Answers, CheckDead(r, a) PROVE Machine'
<1>1. CASE obj[req[r].seat].dead
    <2>1. PICK q \in Asks : Moves(r, q) /\ ~Holding(q)
        BY <1>1, NextReady DEF Machine, CheckDead
    <2>2. QED
        BY <2>1, OnlyMoves DEF CheckDead
<1>2. CASE ~obj[req[r].seat].dead
    <2> DEFINE q == [req[r] EXCEPT !.pc = "checked", !.answer = a,
                                   !.alive = ~obj[req[r].seat].dead]
    <2>1. req[r] \in Asks /\ req[r].seat \in Seats
        BY AskFields DEF Machine, CheckDead, Holding
    <2>2. ~obj[req[r].seat].dead = TRUE
        BY <1>2
    <2>3. q \in Asks /\ q.seat \in Seats /\ Moves(r, q)
        BY <1>2, <2>1, <2>2 DEF Asks, CheckDead
    <2> HIDE DEF q
    <2>4. QED
        BY <2>3, OnlyMoves DEF CheckDead
<1>3. QED
    BY <1>1, <1>2

LEMMA ApplyAnswerKeeps ==
    ASSUME Machine, NEW r \in Requests, NEW w \in Waits, ApplyAnswer(r, w) PROVE Machine'
<1> DEFINE s == req[r].seat
           p == Disposed(obj[s], req[r].answer, w)
<1>1. req[r] \in Asks /\ s \in Seats
    BY AskFields DEF Machine, ApplyAnswer, Holding
<1>2. obj[s] \in AccountType /\ Sound(obj[s]) /\ w \in Nat
    BY <1>1, Constants DEF Machine, Kept
<1>3. Makes(obj[s], p)
    BY <1>2, DisposedMakes
<1>4. PutOnly(s, p) \/ PutAndSave(s, p)
    BY DEF ApplyAnswer
<1>5. PICK q \in Asks : Moves(r, q) /\ (Holding(q) => q.seat \in Seats)
    <2>1. CASE req[r].answer = "tpm"
        <3> DEFINE q == [req[r] EXCEPT !.pc = "cooling", !.left = w, !.todo = Pool]
        <3>1. q \in Asks /\ q.seat \in Seats
            BY <1>1, <1>2, Constants DEF Asks
        <3>2. QED
            BY <2>1, <3>1 DEF ApplyAnswer
    <2>2. CASE req[r].answer # "tpm"
        BY <2>2, NextReady DEF Machine, ApplyAnswer
    <2>3. QED
        BY <2>1, <2>2
<1> HIDE DEF p, s
<1>6. QED
    BY <1>1, <1>3, <1>4, <1>5, MovesAndPuts DEF ApplyAnswer

(* The cooldown is copied to a seat of the scope, or passes it.            *)
LEMMA CoolNextKeeps == ASSUME Machine, NEW r \in Requests, CoolNext(r) PROVE Machine'
<1> DEFINE s == Head(req[r].todo)
           p == Cooled(obj[s], req[r].left)
           gone == obj[s].dead \/ OtherScope(s, req[r].seat)
           q == [req[r] EXCEPT !.todo = Tail(@), !.affected = @ \/ ~gone]
<1>1. /\ req[r] \in Asks /\ req[r].seat \in Seats /\ req[r].todo # <<>>
      /\ req[r].todo \in Seq(Seats) /\ req[r].left \in Nat
    BY AskFields DEF Machine, CoolNext, Holding, Asks
<1>2. s \in Seats /\ Tail(req[r].todo) \in Seq(Seats)
    BY <1>1, TailElements
<1>3. (req[r].affected \/ ~gone) \in BOOLEAN
    OBVIOUS
<1>4. q \in Asks /\ q.seat \in Seats
    BY <1>1, <1>2, <1>3 DEF Asks
<1>5. Moves(r, q)
    BY DEF CoolNext
<1>6. CASE gone
    <2>1. UNCHANGED <<obj, file, quiet>>
        BY <1>6 DEF CoolNext
    <2> HIDE DEF q
    <2>2. QED
        BY <1>4, <1>5, <2>1, OnlyMoves DEF CoolNext
<1>7. CASE ~gone
    <2>1. /\ PutAndSave(s, p) /\ RequestAlone
          /\ quiet' = [quiet EXCEPT ![Scope[s]] = RetryDelay]
        BY <1>7 DEF CoolNext
    <2>2. p \in AccountType /\ Sound(p)
        BY <1>1, <1>2, CooledSound DEF Machine, Kept
    <2> HIDE DEF q, p, gone, s
    <2>3. Kept' /\ \A x \in Seats : obj'[x] = IF x = s THEN p ELSE obj[x]
        BY <1>2, <2>1, <2>2, PutAndSaveKeeps DEF Machine, RequestAlone
    <2>4. /\ quiet' \in [Scopes -> 0 .. RetryDelay] /\ RetryDelay <= quiet'[Scope[s]]
          /\ \A k \in Scopes : quiet[k] <= quiet'[k]
        BY <1>2, <2>1, Constants DEF Machine, Probing
    <2>5. \A x \in Seats : \/ Armed(obj'[x]) => obj'[x] = obj[x]
                           \/ RetryDelay <= quiet'[Scope[x]]
        BY <2>3, <2>4
    <2>6. Probing' /\ Spaced'
        BY <2>1, <2>3, <2>4, <2>5, SpacedBeside DEF Machine, RequestAlone
    <2>7. Counted' /\ Asked' /\ Polled'
        BY <1>4, <1>5, <2>1, RequestMoves
    <2>8. QED
        BY <2>3, <2>6, <2>7 DEF Machine
<1>8. QED
    BY <1>6, <1>7

LEMMA SameMakes ==
    ASSUME Machine, NEW s \in Seats PROVE Makes(obj[s], obj[s])
BY SavedIsFile DEF Machine, Kept, Makes, Sound

LEMMA CoolingEndsKeeps == ASSUME Machine, NEW r \in Requests, CoolingEnds(r) PROVE Machine'
<1>1. PICK q \in Asks : Moves(r, q) /\ ~Holding(q)
    BY NextReady DEF Machine, CoolingEnds
<1>2. CASE req[r].affected
    BY <1>1, <1>2, OnlyMoves DEF CoolingEnds
<1>3. CASE ~req[r].affected
    <2> DEFINE s == req[r].seat
    <2>1. s \in Seats
        BY AskFields DEF Machine, CoolingEnds, Holding
    <2>2. PutAndSave(s, obj[s])
        BY <1>3 DEF CoolingEnds
    <2> HIDE DEF s
    <2>3. QED
        BY <1>1, <2>1, <2>2, SameMakes, MovesAndPuts DEF CoolingEnds
<1>4. QED
    BY <1>2, <1>3

LEMMA AskCooldownKeeps == ASSUME Machine, NEW r \in Requests, AskCooldown(r) PROVE Machine'
<1> DEFINE q == [NoRequest EXCEPT !.pc = "asking", !.todo = Pool]
<1>1. q \in Asks /\ ~Holding(q)
    <2>1. NoRequest \in Asks /\ Pool \in Seq(Seats)
        BY AskFields, Constants DEF Machine
    <2>2. q \in Asks
        BY <2>1 DEF Asks
    <2>3. q.pc = "asking"
        BY DEF NoRequest
    <2>4. QED
        BY <2>2, <2>3 DEF Holding
<1>2. Moves(r, q)
    BY DEF AskCooldown
<1> HIDE DEF q
<1>3. QED
    BY <1>1, <1>2, OnlyMoves DEF AskCooldown

LEMMA AskNextKeeps == ASSUME Machine, NEW r \in Requests, AskNext(r) PROVE Machine'
<1>1. /\ req[r] \in Asks /\ NoRequest \in Asks /\ ~Holding(NoRequest)
      /\ Tail(req[r].todo) \in Seq(Seats) /\ ~Holding(req[r])
    <2>1. req[r] \in Asks /\ NoRequest \in Asks /\ req[r].todo # <<>>
        BY AskFields DEF Machine, AskNext
    <2>2. req[r].todo \in Seq(Seats)
        BY <2>1 DEF Asks
    <2>3. Tail(req[r].todo) \in Seq(Seats)
        BY <2>1, <2>2, TailElements
    <2>4. QED
        BY <2>1, <2>3 DEF Holding, NoRequest, AskNext
<1>2. /\ [req[r] EXCEPT !.todo = Tail(@), !.affected = TRUE] \in Asks
      /\ [req[r] EXCEPT !.todo = Tail(@)] \in Asks
      /\ ~Holding([req[r] EXCEPT !.todo = Tail(@), !.affected = TRUE])
      /\ ~Holding([req[r] EXCEPT !.todo = Tail(@)])
    BY <1>1 DEF Asks, Holding
<1>3. PICK q \in Asks : Moves(r, q) /\ ~Holding(q)
    BY <1>1, <1>2 DEF AskNext
<1>4. QED
    BY <1>3, OnlyMoves DEF AskNext

LEMMA TurnAwayKeeps == ASSUME Machine, NEW r \in Requests, TurnAway(r) PROVE Machine'
<1>1. req[r] \in Asks /\ NoRequest \in Asks /\ ~Holding(NoRequest)
    BY AskFields DEF Machine, Holding, NoRequest
<1>2. /\ [req[r] EXCEPT !.pc = "turned_away"] \in Asks
      /\ ~Holding([req[r] EXCEPT !.pc = "turned_away"])
    BY <1>1 DEF Asks, Holding
<1>3. PICK q \in Asks : Moves(r, q) /\ ~Holding(q)
    BY <1>1, <1>2 DEF TurnAway
<1>4. QED
    BY <1>3, OnlyMoves DEF TurnAway

LEMMA LeavesKeeps == ASSUME Machine, NEW r \in Requests, Leaves(r) PROVE Machine'
<1>1. NoRequest \in Asks /\ ~Holding(NoRequest)
    BY AskFields DEF Machine, Holding, NoRequest
<1>2. QED
    BY <1>1, OnlyMoves DEF Leaves

LEMMA RequestKeeps == ASSUME Machine, NEW r \in Requests, RequestStep(r) PROVE Machine'
BY ArrivesKeeps, ClaimKeeps, AnswerDeliveredKeeps, AnswerLostKeeps, RefreshFirstKeeps,
   CheckDeadKeeps, ApplyAnswerKeeps, CoolNextKeeps, CoolingEndsKeeps, AskCooldownKeeps,
   AskNextKeeps, TurnAwayKeeps, LeavesKeeps
   DEF RequestStep

-----------------------------------------------------------------------------
(* The canary.                                                             *)
LEMMA CanaryFields ==
    ASSUME Machine
    PROVE  /\ canary \in Canaries /\ NoCanary \in Canaries /\ ~Working(NoCanary)
           /\ (Working(canary) => canary.seat \in Seats)
           /\ \A s \in Seats : /\ Scope[s] \in Scopes /\ quiet[Scope[s]] \in 0 .. RetryDelay
                              /\ obj[s] \in AccountType /\ Sound(obj[s])
                              /\ obj[s].probe \in Int
<1>1. <<>> \in Seq(Seats)
    BY EmptySeq
<1>2. NoCanary \in Canaries /\ ~Working(NoCanary)
    BY <1>1, Constants DEF Canaries, NoCanary, Working
<1>3. \A s \in Seats : obj[s].probe \in Int
    BY DEF Machine, Kept, AccountType, Never
<1>4. QED
    BY <1>2, <1>3, Constants DEF Machine, Kept, Probing

LEMMA CanaryRest ==
    ASSUME Machine, CanaryAlone PROVE Counted' /\ Asked' /\ Polled'
BY DEF Machine, Counted, Asked, Polled, CanaryAlone

(* The canary goes on with its scope: what it will handle it handles still,*)
(* but for seats that are armed no more or after the delay.                *)
LEMMA GoesOn ==
    ASSUME Machine, CanaryAlone, Kept', UNCHANGED quiet, Working(canary), canary' \in Canaries,
           Working(canary'), canary'.seat = canary.seat, canary'.queue = canary.queue,
           canary'.elapsed = canary.elapsed,
           \A s \in Seats :
              \/ Armed(obj'[s]) => obj'[s] = obj[s] /\ ~Handled(canary, s)
              \/ Handled(canary', s)
              \/ Armed(obj'[s]) => RetryDelay <= quiet[Scope[s]] + obj'[s].probe
    PROVE  Machine'
<1>1. Probing'
    BY DEF Machine, Probing
<1>2. ASSUME NEW s \in Seats PROVE DueLater(canary, obj[s], s)'
    <2> SUFFICES ASSUME Armed(obj'[s]), ~Handled(canary', s)
                 PROVE  RetryDelay <= quiet[Scope[s]] + obj'[s].probe
        BY DEF DueLater, Armed, Handled, Elements
    <2>1. CASE obj'[s] = obj[s] /\ ~Handled(canary, s)
        BY <2>1 DEF Machine, Spaced, DueLater
    <2>2. QED
        BY <2>1
<1>3. Queued(canary)'
    BY DEF Machine, Spaced, Queued, Working
<1>4. (Working(canary) => canary.elapsed <= quiet[Scope[canary.seat]])'
    BY DEF Machine, Spaced, Working
<1>5. QED
    BY <1>1, <1>2, <1>3, <1>4, CanaryRest DEF Machine, Spaced

(* It turns to the whole scope, whatever it made of the seats of it.       *)
LEMMA TurnsToAll ==
    ASSUME Machine, CanaryAlone, Kept', UNCHANGED quiet, Working(canary), canary' \in Canaries,
           canary'.pc = "asking" \/ (canary'.pc \in {"cooling", "noting", "clearing"}
                                     /\ canary'.todo = Pool),
           canary'.seat = canary.seat, canary'.queue = canary.queue,
           canary'.elapsed = canary.elapsed,
           canary.pc \in {"prepare", "asking", "cooling"},
           \A s \in Seats : obj'[s] = obj[s] \/ Scope[s] = Scope[canary.seat]
    PROVE  Machine'
<1>1. ASSUME NEW s \in Seats
      PROVE  \/ Armed(obj'[s]) => obj'[s] = obj[s] /\ ~Handled(canary, s)
             \/ Handled(canary', s)
    <2>1. CASE Scope[s] = Scope[canary.seat]
        <3>1. s \in Elements(Pool)
            BY Constants
        <3>2. Handled(canary', s)
            BY <2>1, <3>1 DEF Handled
        <3>3. QED
            BY <3>2
    <2>2. CASE Scope[s] # Scope[canary.seat]
        BY <2>2 DEF Handled
    <2>3. QED
        BY <2>1, <2>2
<1>2. Working(canary')
    BY DEF Working
<1>3. QED
    BY <1>1, <1>2, GoesOn

LEMMA CollectKeeps == ASSUME Machine, Collect PROVE Machine'
<1>1. PICK picks \in SUBSET Due :
          /\ \A p, q \in picks : Scope[p] = Scope[q] => p = q
          /\ canary' = [canary EXCEPT !.pc = "next", !.queue = picks]
    BY DEF Collect
<1>2. CanaryAlone /\ UNCHANGED <<obj, file, quiet>> /\ canary.pc = "idle"
    BY DEF Collect
<1>3. Due \subseteq Seats
    BY DEF Due
<1>4. canary' \in Canaries /\ canary'.pc = "next" /\ canary'.queue = picks
    BY <1>1, <1>3, CanaryFields DEF Canaries
<1>5. Kept' /\ Probing' /\ ~Working(canary') /\ ~Working(canary)
    BY <1>2, <1>4 DEF Machine, Kept, Probing, CanaryAlone, Working
<1>6. ASSUME NEW s \in Seats PROVE DueLater(canary, obj[s], s)'
    <2>1. ~Handled(canary, s)
        BY <1>2 DEF Handled
    <2>2. Armed(obj[s]) => RetryDelay <= quiet[Scope[s]] + obj[s].probe
        BY <2>1 DEF Machine, Spaced, DueLater
    <2>3. QED
        BY <1>2, <2>2 DEF DueLater
<1>7. Queued(canary)'
    <2>1. ASSUME NEW d \in picks PROVE RetryDelay <= quiet[Scope[d]]
        <3>1. d \in Seats /\ obj[d].shared /\ obj[d].until > 0 /\ obj[d].probe = 0
            BY DEF Due, SharedBlocked
        <3>2. obj[d].until \in Nat
            BY <3>1 DEF Machine, Kept, AccountType
        <3>3. Armed(obj[d]) /\ ~Handled(canary, d)
            BY <1>2, <3>1, <3>2 DEF Armed, Handled
        <3>4. RetryDelay <= quiet[Scope[d]] + 0
            BY <3>1, <3>3 DEF Machine, Spaced, DueLater
        <3>5. QED
            BY <3>1, <3>4, CanaryFields, Constants
    <2>2. QED
        BY <1>1, <1>2, <1>4, <1>5, <2>1 DEF Queued
<1>8. QED
    BY <1>2, <1>5, <1>6, <1>7, CanaryRest DEF Machine, Spaced

LEMMA BeginKeeps == ASSUME Machine, Begin PROVE Machine'
<1>1. PICK due \in canary.queue :
          /\ canary' = [NoCanary EXCEPT !.pc = "prepare", !.seat = due,
                                        !.queue = canary.queue \ {due}]
          /\ quiet' = [quiet EXCEPT ![Scope[due]] = 0]
    BY DEF Begin
<1>2. CanaryAlone /\ UNCHANGED <<obj, file>> /\ canary.pc = "next"
    BY DEF Begin
<1>3. canary.queue \subseteq Seats /\ due \in Seats /\ Scope[due] \in Scopes
    BY CanaryFields DEF Canaries
<1>4. /\ canary' \in Canaries /\ canary'.pc = "prepare" /\ canary'.seat = due
      /\ canary'.queue = canary.queue \ {due} /\ canary'.elapsed = 0
    BY <1>1, <1>3, CanaryFields DEF Canaries, NoCanary
<1>5. quiet' \in [Scopes -> 0 .. RetryDelay]
    BY <1>1, <1>3, Constants DEF Machine, Probing
<1>6. Kept' /\ Probing' /\ Working(canary')
    BY <1>2, <1>3, <1>4, <1>5 DEF Machine, Kept, Probing, CanaryAlone, Working
<1>7. \A s \in Seats : quiet'[Scope[s]] = IF Scope[s] = Scope[due] THEN 0 ELSE quiet[Scope[s]]
    BY <1>1, <1>3, CanaryFields DEF Machine, Probing
<1>8. ASSUME NEW s \in Seats PROVE DueLater(canary, obj[s], s)'
    <2>1. CASE Scope[s] = Scope[due]
        BY <1>4, <2>1 DEF DueLater, Handled
    <2>2. CASE Scope[s] # Scope[due]
        <3>1. ~Handled(canary, s)
            BY <1>2 DEF Handled
        <3>2. Armed(obj[s]) => RetryDelay <= quiet[Scope[s]] + obj[s].probe
            BY <3>1 DEF Machine, Spaced, DueLater
        <3>3. QED
            BY <1>2, <1>7, <2>2, <3>2 DEF DueLater
    <2>3. QED
        BY <2>1, <2>2
<1>9. Queued(canary)'
    <2>1. ASSUME NEW d \in canary.queue \ {due}
          PROVE  /\ RetryDelay <= quiet'[Scope[d]] /\ Scope[d] # Scope[due]
                 /\ \A e \in canary.queue : Scope[d] = Scope[e] => d = e
        <3>1. Scope[d] # Scope[due] /\ RetryDelay <= quiet[Scope[d]] /\ d \in Seats
              /\ \A e \in canary.queue : Scope[d] = Scope[e] => d = e
            BY <1>3 DEF Machine, Spaced, Queued
        <3>2. QED
            BY <1>7, <3>1
    <2>2. QED
        BY <1>4, <2>1 DEF Queued
<1>10. canary'.elapsed <= quiet'[Scope[canary'.seat]]
    BY <1>3, <1>4, <1>7
<1>11. QED
    BY <1>2, <1>6, <1>8, <1>9, <1>10, CanaryRest DEF Machine, Spaced

(* Notes, and the other turns to the whole scope, keep the canary typed.   *)
LEMMA NotesFields ==
    ASSUME Machine, NEW retry \in BOOLEAN, NEW answered \in BOOLEAN, Notes(retry, answered)
    PROVE  /\ canary' \in Canaries /\ canary'.pc = "noting" /\ canary'.todo = Pool
           /\ canary'.seat = canary.seat /\ canary'.queue = canary.queue
           /\ canary'.elapsed = canary.elapsed
BY CanaryFields, Constants DEF Notes, Canaries

LEMMA TurnFields ==
    ASSUME Machine, NEW pc \in {"asking", "cooling", "clearing"}, NEW w \in Nat,
           \/ canary' = [canary EXCEPT !.pc = pc] /\ pc = "asking"
           \/ canary' = [canary EXCEPT !.pc = pc, !.todo = Pool]
           \/ canary' = [canary EXCEPT !.pc = pc, !.left = w, !.todo = Pool]
    PROVE  /\ canary' \in Canaries /\ canary'.pc = pc
           /\ pc # "asking" => canary'.todo = Pool
           /\ canary'.seat = canary.seat /\ canary'.queue = canary.queue
           /\ canary'.elapsed = canary.elapsed
<1>1. canary \in Canaries /\ Pool \in Seq(Seats)
    BY CanaryFields, Constants
<1>2. CASE canary' = [canary EXCEPT !.pc = pc] /\ pc = "asking"
    BY <1>1, <1>2 DEF Canaries
<1>3. CASE canary' = [canary EXCEPT !.pc = pc, !.todo = Pool]
    BY <1>1, <1>3 DEF Canaries
<1>4. CASE canary' = [canary EXCEPT !.pc = pc, !.left = w, !.todo = Pool]
    BY <1>1, <1>4 DEF Canaries
<1>5. QED
    BY <1>2, <1>3, <1>4

(* It puts the probed seat and turns.                                      *)
LEMMA ProbedPut ==
    ASSUME Machine, canary.seat \in Seats, restarts' = restarts,
           NEW p \in AccountType, Sound(p),
           PutOnly(canary.seat, p) \/ PutAndSave(canary.seat, p)
    PROVE  Kept' /\ \A s \in Seats : obj'[s] = obj[s] \/ Scope[s] = Scope[canary.seat]
<1>1. Kept' /\ \A s \in Seats : obj'[s] = IF s = canary.seat THEN p ELSE obj[s]
    BY PutOnlyKeeps, PutAndSaveKeeps DEF Machine
<1>2. QED
    BY <1>1

LEMMA SameKept ==
    ASSUME Machine, UNCHANGED <<restarts, obj, file>> PROVE Kept'
BY DEF Machine, Kept

LEMMA PrepareRefreshKeeps ==
    ASSUME Machine, NEW outcome, NEW w \in Waits, PrepareRefresh(outcome, w) PROVE Machine'
<1> DEFINE p == Refreshed(Probed, outcome, w)
<1>1. CanaryAlone /\ UNCHANGED quiet /\ canary.pc = "prepare" /\ Working(canary)
      /\ (PutOnly(canary.seat, p) \/ PutAndSave(canary.seat, p))
    BY DEF PrepareRefresh, Working
<1>2. canary.seat \in Seats /\ w \in Nat
    BY <1>1, CanaryFields, Constants
<1>3. p \in AccountType /\ Sound(p)
    BY <1>2, CanaryFields, RefreshedMakes DEF Makes, Probed
<1> HIDE DEF p
<1>4. Kept' /\ \A s \in Seats : obj'[s] = obj[s] \/ Scope[s] = Scope[canary.seat]
    BY <1>1, <1>2, <1>3, ProbedPut DEF CanaryAlone
<1>5. /\ canary' \in Canaries
      /\ canary'.pc = "asking" \/ (canary'.pc = "noting" /\ canary'.todo = Pool)
      /\ canary'.seat = canary.seat /\ canary'.queue = canary.queue
      /\ canary'.elapsed = canary.elapsed
    BY <1>2, NotesFields, TurnFields DEF PrepareRefresh
<1>6. QED
    BY <1>1, <1>4, <1>5, TurnsToAll

(* It turns without having put anything.                                   *)
LEMMA OnlyTurns ==
    ASSUME Machine, CanaryAlone, UNCHANGED <<obj, file, quiet>>,
           canary.pc \in {"prepare", "asking", "cooling"},
           \/ canary' = [canary EXCEPT !.pc = "asking"]
           \/ canary' = [canary EXCEPT !.pc = "clearing", !.todo = Pool]
           \/ \E retry, answered \in BOOLEAN : Notes(retry, answered)
    PROVE  Machine'
<1>1. Kept' /\ Working(canary)
    BY SameKept DEF CanaryAlone, Working
<1>2. /\ canary' \in Canaries
      /\ canary'.pc = "asking" \/ (canary'.pc \in {"noting", "clearing"} /\ canary'.todo = Pool)
      /\ canary'.seat = canary.seat /\ canary'.queue = canary.queue
      /\ canary'.elapsed = canary.elapsed
    BY NotesFields, TurnFields
<1>3. QED
    BY <1>1, <1>2, TurnsToAll

LEMMA PrepareNothingKeeps == ASSUME Machine, PrepareNothing PROVE Machine'
BY OnlyTurns DEF PrepareNothing

LEMMA CanaryUnansweredKeeps == ASSUME Machine, CanaryUnanswered PROVE Machine'
<1>1. \E retry, answered \in BOOLEAN : Notes(retry, answered)
    BY DEF CanaryUnanswered
<1>2. QED
    BY <1>1, OnlyTurns DEF CanaryUnanswered

LEMMA CanarySucceedsKeeps == ASSUME Machine, CanarySucceeds PROVE Machine'
BY OnlyTurns DEF CanarySucceeds

LEMMA CanaryRefusedKeeps ==
    ASSUME Machine, NEW a, NEW w \in Waits, CanaryRefused(a, w) PROVE Machine'
<1> DEFINE p == Disposed(Probed, a, w)
<1>1. CanaryAlone /\ UNCHANGED quiet /\ canary.pc = "asking" /\ Working(canary)
      /\ PutOnly(canary.seat, p)
    BY DEF CanaryRefused, Working
<1>2. canary.seat \in Seats /\ w \in Nat
    BY <1>1, CanaryFields, Constants
<1>3. p \in AccountType /\ Sound(p)
    BY <1>2, CanaryFields, DisposedMakes DEF Makes, Probed
<1> HIDE DEF p
<1>4. Kept' /\ \A s \in Seats : obj'[s] = obj[s] \/ Scope[s] = Scope[canary.seat]
    BY <1>1, <1>2, <1>3, ProbedPut DEF CanaryAlone
<1>5. /\ canary' \in Canaries
      /\ canary'.pc \in {"cooling", "noting"} /\ canary'.todo = Pool
      /\ canary'.seat = canary.seat /\ canary'.queue = canary.queue
      /\ canary'.elapsed = canary.elapsed
    BY <1>2, NotesFields, TurnFields DEF CanaryRefused
<1>6. QED
    BY <1>1, <1>4, <1>5, TurnsToAll

(* A walk over the scope comes to the next seat.                           *)
LEMMA CanaryWalks ==
    ASSUME Machine, Working(canary), canary.todo # <<>>, NEW b \in BOOLEAN,
           \/ canary' = [canary EXCEPT !.todo = Tail(@)]
           \/ canary' = [canary EXCEPT !.todo = Tail(@), !.affected = b]
    PROVE  /\ canary' \in Canaries /\ canary'.pc = canary.pc /\ Working(canary')
           /\ canary'.seat = canary.seat /\ canary'.queue = canary.queue
           /\ canary'.elapsed = canary.elapsed
           /\ Head(canary.todo) \in Seats /\ canary.seat \in Seats
           /\ Elements(canary.todo) = {Head(canary.todo)} \cup Elements(canary'.todo)
<1>1. canary \in Canaries /\ canary.todo \in Seq(Seats) /\ canary.seat \in Seats
    BY CanaryFields DEF Canaries
<1>2. /\ Head(canary.todo) \in Seats /\ Tail(canary.todo) \in Seq(Seats)
      /\ Elements(canary.todo) = {Head(canary.todo)} \cup Elements(Tail(canary.todo))
    BY <1>1, TailElements
<1>3. canary' \in Canaries /\ canary'.todo = Tail(canary.todo) /\ canary'.pc = canary.pc
      /\ canary'.seat = canary.seat /\ canary'.queue = canary.queue
      /\ canary'.elapsed = canary.elapsed
    <2>1. CASE canary' = [canary EXCEPT !.todo = Tail(@)]
        BY <1>1, <1>2, <2>1 DEF Canaries
    <2>2. CASE canary' = [canary EXCEPT !.todo = Tail(@), !.affected = b]
        BY <1>1, <1>2, <2>2 DEF Canaries
    <2>3. QED
        BY <2>1, <2>2
<1>4. QED
    BY <1>1, <1>2, <1>3 DEF Working

LEMMA CanaryCoolsKeeps == ASSUME Machine, CanaryCools PROVE Machine'
<1>1. CanaryAlone /\ UNCHANGED quiet /\ canary.pc = "cooling" /\ Working(canary)
    BY DEF CanaryCools, Working
<1>2. CASE canary.todo = <<>>
    <2>1. UNCHANGED <<obj, file>> /\ \E retry, answered \in BOOLEAN : Notes(retry, answered)
        BY <1>2 DEF CanaryCools
    <2>2. QED
        BY <1>1, <2>1, OnlyTurns
<1>3. CASE canary.todo # <<>>
    <2> DEFINE s == Head(canary.todo)
               p == Cooled(obj[s], canary.left)
               gone == obj[s].dead \/ OtherScope(s, canary.seat)
               b == canary.affected \/ ~gone
    <2>1. canary' = [canary EXCEPT !.todo = Tail(@), !.affected = b]
        BY <1>3 DEF CanaryCools
    <2>2. b \in BOOLEAN
        OBVIOUS
    <2>3. /\ canary' \in Canaries /\ canary'.pc = "cooling" /\ Working(canary')
          /\ canary'.seat = canary.seat /\ canary'.queue = canary.queue
          /\ canary'.elapsed = canary.elapsed /\ s \in Seats /\ canary.seat \in Seats
        <3> HIDE DEF b
        <3>1. QED
            BY <1>1, <1>3, <2>1, <2>2, CanaryWalks
    <2>4. \/ gone /\ UNCHANGED <<obj, file>>
          \/ Scope[s] = Scope[canary.seat] /\ PutAndSave(s, p)
        BY <1>3 DEF CanaryCools, OtherScope
    <2>5. p \in AccountType /\ Sound(p)
        BY <2>3, CanaryFields, CooledSound DEF Canaries
    <2> HIDE DEF s, p, b, gone
    <2>6. Kept' /\ \A x \in Seats : obj'[x] = obj[x] \/ Scope[x] = Scope[canary.seat]
        <3>1. CASE UNCHANGED <<obj, file>>
            BY <1>1, <3>1, SameKept DEF CanaryAlone
        <3>2. CASE Scope[s] = Scope[canary.seat] /\ PutAndSave(s, p)
            <4>1. Kept' /\ \A x \in Seats : obj'[x] = IF x = s THEN p ELSE obj[x]
                BY <1>1, <2>3, <2>5, <3>2, PutAndSaveKeeps DEF Machine, CanaryAlone
            <4>2. QED
                BY <3>2, <4>1
        <3>3. QED
            BY <2>4, <3>1, <3>2
    <2>7. \A x \in Seats : \/ Armed(obj'[x]) => obj'[x] = obj[x] /\ ~Handled(canary, x)
                           \/ Handled(canary', x)
        BY <2>3, <2>6 DEF Handled
    <2>8. QED
        BY <1>1, <2>3, <2>6, <2>7, GoesOn
<1>4. QED
    BY <1>2, <1>3

LEMMA NoteNextKeeps == ASSUME Machine, NoteNext PROVE Machine'
<1> DEFINE s == Head(canary.todo)
           p == Noted(obj[s], canary.retry, canary.elapsed)
<1>1. CanaryAlone /\ UNCHANGED quiet /\ canary.pc = "noting" /\ Working(canary)
    BY DEF NoteNext, Working
<1>2. /\ canary' \in Canaries /\ canary'.pc = "noting" /\ Working(canary')
      /\ canary'.seat = canary.seat /\ canary'.queue = canary.queue
      /\ canary'.elapsed = canary.elapsed /\ s \in Seats /\ canary.seat \in Seats
      /\ Elements(canary.todo) = {s} \cup Elements(canary'.todo)
    BY <1>1, CanaryWalks DEF NoteNext
<1>3. \/ Scope[s] # Scope[canary.seat] /\ UNCHANGED <<obj, file>>
      \/ Scope[s] = Scope[canary.seat] /\ PutOnly(s, p)
    BY DEF NoteNext, OtherScope
<1>4. canary.retry \in BOOLEAN /\ canary.elapsed \in 0 .. CanaryTimeout
    BY CanaryFields DEF Canaries
<1>5. /\ p \in AccountType /\ Sound(p)
      /\ Armed(p) => p.probe = RetryDelay - canary.elapsed
    BY <1>2, <1>4, CanaryFields, NotedSound
<1> HIDE DEF s, p
<1>6. CASE Scope[s] # Scope[canary.seat] /\ UNCHANGED <<obj, file>>
    <2>1. Kept'
        BY <1>1, <1>6, SameKept DEF CanaryAlone
    <2>2. \A x \in Seats : \/ Armed(obj'[x]) => obj'[x] = obj[x] /\ ~Handled(canary, x)
                           \/ Handled(canary', x)
        BY <1>1, <1>2, <1>6 DEF Handled
    <2>3. QED
        BY <1>1, <1>2, <2>1, <2>2, GoesOn
<1>7. CASE Scope[s] = Scope[canary.seat] /\ PutOnly(s, p)
    <2>1. Kept' /\ \A x \in Seats : obj'[x] = IF x = s THEN p ELSE obj[x]
        BY <1>1, <1>2, <1>5, <1>7, PutOnlyKeeps DEF Machine, CanaryAlone
    <2>2. Armed(obj'[s]) => RetryDelay <= quiet[Scope[s]] + obj'[s].probe
        <3>1. canary.elapsed <= quiet[Scope[s]]
            BY <1>1, <1>7 DEF Machine, Spaced
        <3>2. canary.elapsed \in Nat /\ quiet[Scope[s]] \in Nat /\ RetryDelay \in Nat
            BY <1>2, <1>4, CanaryFields, Constants
        <3>3. QED
            BY <1>2, <1>5, <2>1, <3>1, <3>2
    <2>3. \A x \in Seats : \/ Armed(obj'[x]) => obj'[x] = obj[x] /\ ~Handled(canary, x)
                           \/ Handled(canary', x)
                           \/ Armed(obj'[x]) => RetryDelay <= quiet[Scope[x]] + obj'[x].probe
        <3>1. ASSUME NEW x \in Seats, x # s
              PROVE  \/ obj'[x] = obj[x] /\ ~Handled(canary, x)
                     \/ Handled(canary', x)
            BY <1>1, <1>2, <2>1, <3>1 DEF Handled
        <3>2. QED
            BY <2>2, <3>1
    <2>4. QED
        BY <1>1, <1>2, <2>1, <2>3, GoesOn
<1>8. QED
    BY <1>3, <1>6, <1>7

LEMMA ClearNextKeeps == ASSUME Machine, ClearNext PROVE Machine'
<1> DEFINE s == Head(canary.todo)
           p == Cleared(obj[s])
<1>1. CanaryAlone /\ UNCHANGED quiet /\ canary.pc = "clearing" /\ Working(canary)
    BY DEF ClearNext, Working
<1>2. /\ canary' \in Canaries /\ canary'.pc = "clearing" /\ Working(canary')
      /\ canary'.seat = canary.seat /\ canary'.queue = canary.queue
      /\ canary'.elapsed = canary.elapsed /\ s \in Seats /\ canary.seat \in Seats
      /\ Elements(canary.todo) = {s} \cup Elements(canary'.todo)
    BY <1>1, CanaryWalks DEF ClearNext
<1>3. \/ Scope[s] # Scope[canary.seat] /\ UNCHANGED <<obj, file>>
      \/ Scope[s] = Scope[canary.seat] /\ PutOnly(s, p)
    BY DEF ClearNext, OtherScope
<1>4. p \in AccountType /\ Sound(p) /\ ~Armed(p)
    <2>1. Makes(obj[s], p)
        BY <1>2, CanaryFields, ClearedMakes
    <2>2. ~p.shared
        BY <1>2, CanaryFields DEF Cleared, Sound, AccountType
    <2>3. QED
        BY <2>1, <2>2 DEF Makes, Armed
<1> HIDE DEF s, p
<1>5. CASE Scope[s] # Scope[canary.seat] /\ UNCHANGED <<obj, file>>
    <2>1. Kept'
        BY <1>1, <1>5, SameKept DEF CanaryAlone
    <2>2. \A x \in Seats : \/ Armed(obj'[x]) => obj'[x] = obj[x] /\ ~Handled(canary, x)
                           \/ Handled(canary', x)
        BY <1>1, <1>2, <1>5 DEF Handled
    <2>3. QED
        BY <1>1, <1>2, <2>1, <2>2, GoesOn
<1>6. CASE Scope[s] = Scope[canary.seat] /\ PutOnly(s, p)
    <2>1. Kept' /\ \A x \in Seats : obj'[x] = IF x = s THEN p ELSE obj[x]
        BY <1>1, <1>2, <1>4, <1>6, PutOnlyKeeps DEF Machine, CanaryAlone
    <2>2. \A x \in Seats : \/ Armed(obj'[x]) => obj'[x] = obj[x] /\ ~Handled(canary, x)
                           \/ Handled(canary', x)
        BY <1>1, <1>2, <1>4, <2>1 DEF Handled
    <2>3. QED
        BY <1>1, <1>2, <2>1, <2>2, GoesOn
<1>7. QED
    BY <1>3, <1>5, <1>6

(* Done with a scope, it has left nothing behind.                          *)
LEMMA DoneKeeps ==
    ASSUME Machine, CanaryAlone, Kept', UNCHANGED quiet, CanaryDone,
           canary.pc \in {"noting", "clearing"}, canary.todo = <<>>,
           \A s \in Seats : obj'[s] = obj[s]
    PROVE  Machine'
<1>1. /\ canary' \in Canaries /\ ~Working(canary') /\ canary'.queue = canary.queue
      /\ canary'.pc \in {"idle", "next"}
    BY CanaryFields DEF CanaryDone, Canaries, Working, NoCanary
<1>2. Probing'
    BY <1>1 DEF Machine, Probing
<1>3. ASSUME NEW s \in Seats PROVE DueLater(canary, obj[s], s)'
    <2>1. ~Handled(canary, s)
        BY DEF Handled, Elements
    <2>2. Armed(obj[s]) => RetryDelay <= quiet[Scope[s]] + obj[s].probe
        BY <2>1 DEF Machine, Spaced, DueLater
    <2>3. QED
        BY <2>2 DEF DueLater
<1>4. Queued(canary)'
    BY <1>1 DEF Machine, Spaced, Queued
<1>5. QED
    BY <1>1, <1>2, <1>3, <1>4, CanaryRest DEF Machine, Spaced

LEMMA NoteEndsKeeps == ASSUME Machine, NoteEnds PROVE Machine'
<1>1. CanaryAlone /\ UNCHANGED quiet /\ canary.pc = "noting" /\ CanaryDone
      /\ canary.todo = <<>>
    BY DEF NoteEnds
<1>2. canary.seat \in Seats
    BY <1>1, CanaryFields DEF Working
<1>3. Kept' /\ \A s \in Seats : obj'[s] = obj[s]
    <2>1. CASE UNCHANGED <<obj, file>>
        BY <1>1, <2>1, SameKept DEF CanaryAlone
    <2>2. CASE PutAndSave(canary.seat, obj[canary.seat])
        BY <1>1, <1>2, <2>2, CanaryFields, PutAndSaveKeeps DEF Machine, CanaryAlone
    <2>3. QED
        BY <2>1, <2>2 DEF NoteEnds, Probed
<1>4. QED
    BY <1>1, <1>3, DoneKeeps

LEMMA ClearEndsKeeps == ASSUME Machine, ClearEnds PROVE Machine'
<1>1. CanaryAlone /\ UNCHANGED quiet /\ canary.pc = "clearing" /\ CanaryDone
      /\ canary.todo = <<>> /\ UNCHANGED obj
    BY DEF ClearEnds
<1> DEFINE f == [s \in Seats |-> IF Scope[s] = Scope[canary.seat] /\ ~obj[s].dead
                                THEN Persisted(obj[s]) ELSE file[s]]
<1>2. Filed(f)
    <2>1. \A s \in Seats : Persisted(obj[s]) \in FileType /\ Persisted(obj[s]).dead = obj[s].dead
        BY CanaryFields, SavedIsFile DEF Persisted
    <2>2. QED
        BY <2>1 DEF Filed, Machine, Kept
<1>3. Writes(f)
    BY DEF ClearEnds
<1> HIDE DEF f
<1>4. Kept'
    BY <1>1, <1>2, <1>3, FilesWritten DEF Machine, Kept, CanaryAlone
<1>5. QED
    BY <1>1, <1>4, DoneKeeps

LEMMA CanaryKeeps == ASSUME Machine, CanaryStep PROVE Machine'
BY CollectKeeps, BeginKeeps, PrepareNothingKeeps, PrepareRefreshKeeps, CanaryUnansweredKeeps,
   CanarySucceedsKeeps, CanaryRefusedKeeps, CanaryCoolsKeeps, NoteNextKeeps, NoteEndsKeeps,
   ClearNextKeeps, ClearEndsKeeps
   DEF CanaryStep

-----------------------------------------------------------------------------
(* Refreshes beside requests, restarts, time and the gateway.              *)
LEMMA PollBeginsKeeps == ASSUME Machine, NEW s \in Seats, PollBegins(s) PROVE Machine'
<1>1. Filed(file') /\ events' \in 0 .. MaxEvents
    BY FilesAfterEvent DEF Machine, Kept, PollBegins
<1>2. Kept' /\ Probing' /\ Spaced'
    BY <1>1, NoPut DEF PollBegins, PollAlone
<1>3. Counted' /\ Asked' /\ Polled'
    BY <1>1 DEF PollBegins, PollAlone, Machine, Counted, Asked, Polled
<1>4. QED
    BY <1>2, <1>3 DEF Machine

LEMMA OperatorRefreshesKeeps ==
    ASSUME Machine, NEW s \in Seats, OperatorRefreshes(s) PROVE Machine'
<1> DEFINE p == [obj[s] EXCEPT !.until = 0]
<1>1. Filed(file') /\ events' \in 0 .. MaxEvents
    BY FilesAfterEvent DEF Machine, Kept, OperatorRefreshes
<1>2. Makes(obj[s], p)
    BY CanaryFields, DroppedMakes
<1>3. Put(s, p) /\ UNCHANGED <<restarts, canary, quiet>>
    BY DEF OperatorRefreshes, PollAlone
<1> HIDE DEF p
<1>4. /\ obj' \in [Seats -> AccountType]
      /\ \A x \in Seats : Sound(obj'[x])
      /\ \A x \in Seats : obj'[x] = IF x = s THEN p ELSE obj[x]
    BY <1>2, <1>3, PutKeeps DEF Machine, Makes
<1>5. Kept' /\ \A x \in Seats : Armed(obj'[x]) => obj'[x] = obj[x]
    BY <1>1, <1>2, <1>4 DEF Kept, Makes
<1>6. \A k \in Scopes : quiet[k] <= quiet'[k]
    BY <1>3, Constants DEF Machine, Probing
<1>7. Probing' /\ Spaced'
    BY <1>3, <1>5, <1>6, SpacedBeside DEF Machine, Probing
<1>8. Counted' /\ Asked' /\ Polled'
    BY <1>1 DEF OperatorRefreshes, PollAlone, Machine, Counted, Asked, Polled
<1>9. QED
    BY <1>5, <1>7, <1>8 DEF Machine

LEMMA PollEndsKeeps ==
    ASSUME Machine, NEW outcome, NEW w \in Waits, PollEnds(outcome, w) PROVE Machine'
<1> DEFINE s == poll.seat
           p == Refreshed(obj[s], outcome, w)
<1>1. s \in Seats /\ w \in Nat /\ obj[s] \in AccountType /\ Sound(obj[s])
    BY CanaryFields, Constants DEF Machine, Polled, PollEnds
<1>2. Makes(obj[s], p)
    BY <1>1, RefreshedMakes
<1>3. Counted' /\ Asked' /\ Polled' /\ UNCHANGED <<restarts, canary>>
    BY DEF PollEnds, PollAlone, Machine, Counted, Asked, Polled, NoPoll
<1>4. \/ (PutOnly(s, p) \/ PutAndSave(s, p)) /\ UNCHANGED quiet
      \/ /\ outcome = "throttled"
         /\ PutOnly(s, [p EXCEPT !.until = Larger(@, w)])
         /\ quiet' = [quiet EXCEPT ![Scope[s]] = RetryDelay]
    BY DEF PollEnds
<1>5. outcome = "throttled" => p = obj[s]
    BY DEF Refreshed
<1> HIDE DEF s, p
<1>6. CASE (PutOnly(s, p) \/ PutAndSave(s, p)) /\ UNCHANGED quiet
    BY <1>1, <1>2, <1>3, <1>6, OnePut DEF Machine
<1>7. CASE /\ outcome = "throttled"
           /\ PutOnly(s, [p EXCEPT !.until = Larger(@, w)])
           /\ quiet' = [quiet EXCEPT ![Scope[s]] = RetryDelay]
    <2> DEFINE o == [obj[s] EXCEPT !.until = Larger(@, w)]
    <2>1. PutOnly(s, o)
        BY <1>5, <1>7
    <2>2. o \in AccountType /\ Sound(o)
        <3>1. Larger(obj[s].until, w) \in Nat
            BY <1>1 DEF AccountType, Larger
        <3>2. QED
            BY <1>1, <3>1 DEF AccountType, Sound
    <2> HIDE DEF o
    <2>3. Kept' /\ \A x \in Seats : obj'[x] = IF x = s THEN o ELSE obj[x]
        BY <1>1, <1>3, <2>1, <2>2, PutOnlyKeeps DEF Machine
    <2>4. /\ quiet' \in [Scopes -> 0 .. RetryDelay] /\ RetryDelay <= quiet'[Scope[s]]
          /\ \A k \in Scopes : quiet[k] <= quiet'[k]
        BY <1>1, <1>7, Constants DEF Machine, Probing
    <2>5. \A x \in Seats : \/ Armed(obj'[x]) => obj'[x] = obj[x]
                           \/ RetryDelay <= quiet'[Scope[x]]
        BY <2>3, <2>4
    <2>6. Probing' /\ Spaced'
        BY <1>3, <2>3, <2>4, <2>5, SpacedBeside DEF Machine
    <2>7. QED
        BY <1>3, <2>3, <2>6 DEF Machine
<1>8. QED
    BY <1>4, <1>6, <1>7

LEMMA RestartKeeps == ASSUME Machine, Restart PROVE Machine'
<1>1. restarts' = restarts + 1 /\ restarts < MaxRestarts /\ events' = events + 1 /\ events < MaxEvents
      /\ UNCHANGED <<limited, quiet>>
    BY DEF Restart
<1>2. Counted' /\ restarts' # 0
    BY <1>1, CooldownAssumption DEF Machine, Counted
<1>3. Filed(file')
    <2>1. Filed(NoFiles)
        BY DEF Filed, NoFiles, Fresh, FileType
    <2>2. QED
        BY <2>1 DEF Restart, Machine, Kept
<1>4. ASSUME NEW s \in Seats
      PROVE  /\ Account(file[s]) \in AccountType /\ Sound(Account(file[s]))
             /\ ~Armed(Account(file[s]))
    <2>1. file[s] \in FileType /\ (file[s].dead => ~file[s].shared)
        BY DEF Machine, Kept, Filed
    <2>2. QED
        BY <1>2, <2>1 DEF Account, AccountType, FileType, Sound, Armed, Never
<1>5. obj' = [s \in Seats |-> Account(file[s])]
    BY DEF Restart
<1>6. Kept' /\ \A s \in Seats : ~Armed(obj'[s])
    BY <1>3, <1>4, <1>5 DEF Kept
<1>7. Asked'
    <2>1. NoRequest \in Asks /\ ~Holding(NoRequest)
        BY EmptySeq DEF NoRequest, Asks, Holding
    <2>2. req' = [r \in Requests |-> NoRequest]
        BY DEF Restart
    <2>3. QED
        BY <2>1, <2>2 DEF Asked
<1>8. Polled'
    BY DEF Restart, NoPoll, Polled
<1>9. canary' = NoCanary /\ canary' \in Canaries /\ ~Working(canary') /\ canary'.queue = {}
    BY CanaryFields DEF Restart, NoCanary
<1>10. Probing'
    BY <1>1, <1>9 DEF Probing, Machine
<1>11. Spaced'
    BY <1>6, <1>9 DEF Spaced, DueLater, Queued
<1>12. QED
    BY <1>2, <1>6, <1>7, <1>8, <1>10, <1>11 DEF Machine

(* Time that passes leaves an armed seat armed, and no nearer to its       *)
(* canary than the delay allows.                                           *)
LEMMA SoonerSeat ==
    ASSUME NEW o \in AccountType, Sound(o),
           NEW p, p = [o EXCEPT !.until = Sooner(@), !.probe = Sooner(@)]
    PROVE  /\ p \in AccountType /\ Sound(p) /\ p.dead = o.dead
           /\ Armed(p) => Armed(o) /\ p.probe \in Nat /\ o.probe \in Nat
                          /\ (p.probe = o.probe - 1 \/ (p.probe = 0 /\ o.probe = 0))
<1>1. Sooner(o.until) \in Nat /\ Sooner(o.probe) \in Nat \cup {Never}
      /\ (Sooner(o.probe) = Never => o.probe = Never)
    BY DEF AccountType, Sooner, Never
<1>2. /\ p \in AccountType /\ p.dead = o.dead /\ p.shared = o.shared
      /\ p.until = Sooner(o.until) /\ p.probe = Sooner(o.probe)
    BY <1>1 DEF AccountType
<1>3. Sound(p)
    BY <1>1, <1>2 DEF Sound
<1>4. ASSUME Armed(p)
      PROVE  Armed(o) /\ p.probe \in Nat /\ o.probe \in Nat
             /\ (p.probe = o.probe - 1 \/ (p.probe = 0 /\ o.probe = 0))
    <2>1. o.until \in Nat /\ o.probe \in Nat \cup {-1, -2}
        BY DEF AccountType, Never
    <2>2. 0 <= Sooner(o.probe) /\ Sooner(o.probe) < Sooner(o.until) /\ o.shared
        BY <1>2, <1>4 DEF Armed
    <2>3. QED
        BY <1>2, <2>1, <2>2 DEF Sooner, Armed
<1>5. QED
    BY <1>2, <1>3, <1>4

LEMMA TickKeeps == ASSUME Machine, Tick PROVE Machine'
<1>1. /\ UNCHANGED <<restarts, req, poll, events, limited>>
      /\ obj' = [s \in Seats |-> [obj[s] EXCEPT !.until = Sooner(@), !.probe = Sooner(@)]]
      /\ Writes([s \in Seats |-> [file[s] EXCEPT !.until = Sooner(@)]])
      /\ canary' = IF canary.pc = "idle" THEN canary ELSE [canary EXCEPT !.elapsed = @ + 1]
      /\ quiet' = [k \in Scopes |-> Smaller(RetryDelay, quiet[k] + 1)]
      /\ canary.pc = "idle" \/ (canary.pc \in {"prepare", "asking"} /\ canary.elapsed < CanaryTimeout)
    BY DEF Tick
<1>2. Counted' /\ Asked' /\ Polled'
    BY <1>1 DEF Machine, Counted, Asked, Polled
<1>3. ASSUME NEW s \in Seats
      PROVE  /\ obj'[s] \in AccountType /\ Sound(obj'[s])
             /\ Armed(obj'[s]) =>
                    /\ Armed(obj[s]) /\ obj'[s].probe \in Nat /\ obj[s].probe \in Nat
                    /\ (obj'[s].probe = obj[s].probe - 1
                         \/ (obj'[s].probe = 0 /\ obj[s].probe = 0))
    <2>1. obj'[s] = [obj[s] EXCEPT !.until = Sooner(@), !.probe = Sooner(@)]
        BY <1>1
    <2>2. obj[s] \in AccountType /\ Sound(obj[s])
        BY CanaryFields
    <2>3. QED
        BY <2>1, <2>2, SoonerSeat
<1>4. Filed(file')
    <2> DEFINE f == [s \in Seats |-> [file[s] EXCEPT !.until = Sooner(@)]]
    <2>1. ASSUME NEW s \in Seats PROVE f[s] \in FileType /\ (f[s].dead => ~f[s].shared)
        <3>1. file[s] \in FileType /\ (file[s].dead => ~file[s].shared)
            BY DEF Machine, Kept, Filed
        <3>2. Sooner(file[s].until) \in Nat
            BY <3>1 DEF FileType, Sooner
        <3>3. QED
            BY <3>1, <3>2 DEF FileType
    <2>2. Filed(f)
        BY <2>1 DEF Filed
    <2> HIDE DEF f
    <2>3. QED
        BY <1>1, <2>2, FilesWritten DEF Machine, Kept, f
<1>5. Kept'
    BY <1>1, <1>3, <1>4 DEF Kept
<1>6. /\ canary' \in Canaries /\ canary'.pc = canary.pc /\ canary'.seat = canary.seat
      /\ canary'.queue = canary.queue /\ canary'.todo = canary.todo
      /\ Working(canary) => canary'.elapsed = canary.elapsed + 1
    <2>1. canary \in Canaries
        BY CanaryFields
    <2>2. CASE canary.pc = "idle"
        BY <1>1, <2>1, <2>2 DEF Working
    <2>3. CASE canary.pc # "idle"
        <3>1. canary.elapsed + 1 \in 0 .. CanaryTimeout
            <4>1. canary.elapsed \in 0 .. CanaryTimeout /\ canary.elapsed < CanaryTimeout
                BY <1>1, <2>1, <2>3 DEF Canaries
            <4>2. QED
                BY <4>1, Constants
        <3>2. canary' = [canary EXCEPT !.elapsed = @ + 1]
            BY <1>1, <2>3
        <3>3. QED
            BY <2>1, <3>1, <3>2 DEF Canaries
    <2>4. QED
        BY <2>2, <2>3
<1>7. quiet' \in [Scopes -> 0 .. RetryDelay]
      /\ \A k \in Scopes : /\ quiet[k] \in 0 .. RetryDelay
                           /\ quiet'[k] = RetryDelay \/ quiet'[k] = quiet[k] + 1
    <2>1. ASSUME NEW k \in Scopes
          PROVE  /\ quiet[k] \in 0 .. RetryDelay
                 /\ Smaller(RetryDelay, quiet[k] + 1) \in 0 .. RetryDelay
                 /\ \/ Smaller(RetryDelay, quiet[k] + 1) = RetryDelay
                    \/ Smaller(RetryDelay, quiet[k] + 1) = quiet[k] + 1
        BY Constants DEF Machine, Probing, Smaller
    <2>2. QED
        BY <1>1, <2>1
<1>8. Probing'
    BY <1>6, <1>7 DEF Machine, Probing, Working
<1>9. ASSUME NEW s \in Seats PROVE DueLater(canary, obj[s], s)'
    <2> SUFFICES ASSUME Armed(obj'[s]), ~Handled(canary', s)
                 PROVE  RetryDelay <= quiet'[Scope[s]] + obj'[s].probe
        BY DEF DueLater, Armed, Handled, Elements
    <2>1. ~Handled(canary, s)
        BY <1>6 DEF Handled
    <2>2. RetryDelay <= quiet[Scope[s]] + obj[s].probe
        BY <1>3, <2>1 DEF Machine, Spaced, DueLater
    <2>3. /\ quiet[Scope[s]] \in 0 .. RetryDelay /\ RetryDelay \in Nat
          /\ quiet'[Scope[s]] = RetryDelay \/ quiet'[Scope[s]] = quiet[Scope[s]] + 1
        BY <1>7, Constants, Zenon
    <2>4. /\ obj'[s].probe \in Nat /\ obj[s].probe \in Nat
          /\ (obj'[s].probe = obj[s].probe - 1 \/ (obj'[s].probe = 0 /\ obj[s].probe = 0))
        BY <1>3
    <2>5. QED
        BY <2>2, <2>3, <2>4
<1>10. Queued(canary)'
    <2>1. ASSUME NEW d \in canary.queue PROVE RetryDelay <= quiet'[Scope[d]]
        <3>1. d \in Seats /\ RetryDelay <= quiet[Scope[d]] /\ Scope[d] \in Scopes
            BY CanaryFields, Constants DEF Canaries, Machine, Spaced, Queued
        <3>2. /\ quiet[Scope[d]] \in 0 .. RetryDelay /\ RetryDelay \in Nat
              /\ quiet'[Scope[d]] = RetryDelay \/ quiet'[Scope[d]] = quiet[Scope[d]] + 1
            BY <1>7, <3>1, Constants, Zenon
        <3>3. QED
            BY <3>1, <3>2
    <2>2. QED
        BY <1>6, <2>1 DEF Machine, Spaced, Queued, Working
<1>11. Working(canary') => canary'.elapsed <= quiet'[Scope[canary'.seat]]
    <2> SUFFICES ASSUME Working(canary) PROVE canary.elapsed + 1 <= quiet'[Scope[canary.seat]]
        BY <1>6 DEF Working
    <2>1. canary.elapsed < CanaryTimeout /\ canary.elapsed \in Nat
        <3>1. canary.elapsed \in 0 .. CanaryTimeout
            BY CanaryFields DEF Canaries
        <3>2. canary.elapsed < CanaryTimeout
            BY DEF Tick, Working
        <3>3. QED
            BY <3>1, <3>2, Constants
    <2>2. canary.elapsed <= quiet[Scope[canary.seat]] /\ Scope[canary.seat] \in Scopes
        BY CanaryFields DEF Machine, Spaced
    <2>3. /\ quiet[Scope[canary.seat]] \in 0 .. RetryDelay
          /\ \/ quiet'[Scope[canary.seat]] = RetryDelay
             \/ quiet'[Scope[canary.seat]] = quiet[Scope[canary.seat]] + 1
        BY <1>7, <2>2, Zenon
    <2>4. QED
        BY <2>1, <2>2, <2>3, Constants
<1>12. QED
    BY <1>2, <1>5, <1>8, <1>9, <1>10, <1>11 DEF Machine, Spaced

LEMMA LimitTurnsKeeps == ASSUME Machine, NEW k \in Scopes, LimitTurns(k) PROVE Machine'
<1>1. Filed(file') /\ events' \in 0 .. MaxEvents
    BY FilesAfterEvent DEF Machine, Kept, Counted, LimitTurns
<1>2. Kept' /\ Probing' /\ Spaced'
    BY <1>1, NoPut DEF LimitTurns
<1>3. limited' \in [Scopes -> BOOLEAN]
    BY DEF LimitTurns, Machine, Counted
<1>4. Counted' /\ Asked' /\ Polled'
    BY <1>1, <1>3 DEF LimitTurns, Machine, Counted, Asked, Polled
<1>5. QED
    BY <1>2, <1>4 DEF Machine

LEMMA BesideKeeps == ASSUME Machine, Beside PROVE Machine'
BY PollBeginsKeeps, OperatorRefreshesKeeps, PollEndsKeeps, RestartKeeps, TickKeeps,
   LimitTurnsKeeps
   DEF Beside

-----------------------------------------------------------------------------
(* What a request that asks has still to look at.                          *)

(* How a step of the system moves a request that asks or is turned away.   *)
Looked(q, p) ==
    \/ p = q
    \/ p.pc \notin {"asking", "turned_away"}
    \/ q.pc # "asking" /\ p.pc = "asking" /\ p.todo = Pool
    \/ /\ q.pc = "asking" /\ p.pc = "asking" /\ q.todo # <<>> /\ p.todo = Tail(q.todo)
       /\ ~Usable(obj'[Head(q.todo)])
    \/ q.pc = "asking" /\ q.todo = <<>> /\ p.pc = "turned_away"

LEMMA MovesTo ==
    ASSUME Asked, NEW r \in Requests, NEW y, Moves(r, y)
    PROVE  req'[r] = y
BY DEF Moves, Asked

LEMMA Blanks ==
    /\ NoRequest.pc = "idle"
    /\ [NoRequest EXCEPT !.pc = "ready"].pc = "ready"
    /\ \A t : [NoRequest EXCEPT !.pc = "ready", !.tried = t].pc = "ready"
    /\ \A s, t : [NoRequest EXCEPT !.pc = "claimed", !.seat = s, !.tried = t].pc = "claimed"
BY DEF NoRequest

LEMMA RequestLooks ==
    ASSUME Machine, NEW r \in Requests, NEW x \in Requests, RequestStep(r)
    PROVE  Looked(req[x], req'[x])
<1> DEFINE q == req[x]
           p == req'[x]
<1>1. \A y : Moves(r, y) => p = IF x = r THEN y ELSE q
    BY DEF Moves, Machine, Asked
<1>2. CASE x # r
    <2>1. p = q
        <3>1. \E y : Moves(r, y)
            BY DEF RequestStep, Arrives, Claim, AnswerDelivered, AnswerLost, RefreshFirst,
                   CheckDead, ApplyAnswer, CoolNext, CoolingEnds, AskCooldown, AskNext,
                   TurnAway, Leaves, TriesNext
        <3>2. QED
            BY <1>1, <1>2, <3>1
    <2>2. QED
        BY <2>1 DEF Looked
<1>3. CASE x = r
    <2>1. NoRequest.pc = "idle"
        BY DEF NoRequest
    <2>2. TriesNext(r) => p.pc = "ready"
        <3>1. SUFFICES ASSUME TriesNext(r) PROVE req'[r].pc = "ready"
            BY <1>3
        <3>2. req'[r] = [NoRequest EXCEPT !.pc = "ready", !.tried = req[r].tried]
            BY <3>1, MovesTo DEF TriesNext, Machine
        <3>3. QED
            BY <3>2 DEF NoRequest
    <2>3. q \in Asks
        BY DEF Machine, Asked
    <2> HIDE DEF p, q
    <2>4. CASE Arrives(r) \/ AnswerDelivered(r) \/ AnswerLost(r) \/ CoolingEnds(r) \/ Leaves(r)
        <3>1. \/ TriesNext(r) \/ Moves(r, NoRequest)
              \/ Moves(r, [NoRequest EXCEPT !.pc = "ready"])
            BY <2>4 DEF Arrives, AnswerDelivered, AnswerLost, CoolingEnds, Leaves
        <3>2. CASE TriesNext(r)
            BY <2>2, <3>2 DEF Looked, p
        <3>3. CASE Moves(r, NoRequest)
            <4>1. p = NoRequest
                BY <1>1, <1>3, <3>3, Zenon
            <4>2. QED
                BY <2>1, <4>1 DEF Looked, p
        <3>4. CASE Moves(r, [NoRequest EXCEPT !.pc = "ready"])
            <4>1. p.pc = "ready"
                BY <1>1, <1>3, <3>4, Blanks, Zenon
            <4>2. QED
                BY <4>1 DEF Looked, p
        <3>5. QED
            BY <3>1, <3>2, <3>3, <3>4
    <2>4a. CASE Claim(r)
        <3>1. PICK s : Moves(r, [NoRequest EXCEPT !.pc = "claimed", !.seat = s,
                                                  !.tried = req[r].tried \cup {s}])
            BY <2>4a DEF Claim
        <3>2. req'[r] = [NoRequest EXCEPT !.pc = "claimed", !.seat = s,
                                          !.tried = req[r].tried \cup {s}]
            BY <3>1, MovesTo DEF Machine
        <3>3. p.pc = "claimed"
            BY <1>3, <3>2 DEF NoRequest, p
        <3>4. QED
            BY <3>3 DEF Looked, p
    <2>5. CASE \E outcome \in Outcomes, w \in Waits : RefreshFirst(r, outcome, w)
        <3>1. p = [q EXCEPT !.pc = "sent"]
            BY <1>1, <1>3, <2>5 DEF RefreshFirst, q
        <3>2. p.pc = "sent"
            BY <2>3, <3>1 DEF Asks
        <3>3. QED
            BY <3>2 DEF Looked, p
    <2>6. CASE \E a \in Answers : CheckDead(r, a)
        <3>1. \/ TriesNext(r)
              \/ \E a, b : p = [q EXCEPT !.pc = "checked", !.answer = a, !.alive = b]
            <4>1. PICK a \in Answers : CheckDead(r, a)
                BY <2>6
            <4>2. \/ TriesNext(r)
                  \/ Moves(r, [req[r] EXCEPT !.pc = "checked", !.answer = a,
                                             !.alive = ~obj[req[r].seat].dead])
                BY <4>1 DEF CheckDead
            <4>3. ASSUME Moves(r, [req[r] EXCEPT !.pc = "checked", !.answer = a,
                                                 !.alive = ~obj[req[r].seat].dead])
                  PROVE  \E b : p = [q EXCEPT !.pc = "checked", !.answer = a, !.alive = b]
                <5>1. p = [q EXCEPT !.pc = "checked", !.answer = a, !.alive = ~obj[req[r].seat].dead]
                    BY <1>3, <4>3, MovesTo DEF Machine, p, q
                <5>2. QED
                    BY <5>1, Zenon
            <4>4. QED
                BY <4>2, <4>3, Zenon
        <3>2. p.pc \in {"ready", "checked"}
            BY <2>2, <2>3, <3>1 DEF Asks
        <3>3. QED
            BY <3>2 DEF Looked, p
    <2>7. CASE \E w \in Waits : ApplyAnswer(r, w)
        <3>1. \/ TriesNext(r)
              \/ \E w : p = [q EXCEPT !.pc = "cooling", !.left = w, !.todo = Pool]
            BY <1>1, <1>3, <2>7, Zenon DEF ApplyAnswer, q
        <3>2. p.pc \in {"ready", "cooling"}
            BY <2>2, <2>3, <3>1 DEF Asks
        <3>3. QED
            BY <3>2 DEF Looked, p
    <2>8. CASE CoolNext(r)
        <3>1. q.pc = "cooling" /\ p = [q EXCEPT !.todo = Tail(@),
                   !.affected = @ \/ ~(obj[Head(q.todo)].dead \/ OtherScope(Head(q.todo), q.seat))]
            BY <1>1, <1>3, <2>8 DEF CoolNext, q
        <3>2. p.pc = "cooling"
            BY <2>3, <3>1 DEF Asks
        <3>3. QED
            BY <3>2 DEF Looked, p
    <2>9. CASE AskCooldown(r)
        <3>1. q.pc = "ready" /\ p = [NoRequest EXCEPT !.pc = "asking", !.todo = Pool]
            BY <1>1, <1>3, <2>9 DEF AskCooldown, q
        <3>2. p.pc = "asking" /\ p.todo = Pool
            BY <3>1 DEF NoRequest
        <3>3. QED
            BY <3>1, <3>2 DEF Looked, p, q
    <2>10. CASE AskNext(r)
        <3>1. /\ q.pc = "asking" /\ q.todo # <<>> /\ UNCHANGED obj
              /\ \/ p = NoRequest
                 \/ /\ ~Usable(obj[Head(q.todo)])
                    /\ \/ p = [q EXCEPT !.todo = Tail(@), !.affected = TRUE]
                       \/ p = [q EXCEPT !.todo = Tail(@)]
            <4>1. Head(q.todo) \in Seats
                BY <1>3, <2>3, <2>10, TailElements DEF AskNext, q, Asks
            <4>2. obj[Head(q.todo)].until \in Nat
                BY <4>1 DEF Machine, Kept, AccountType
            <4>3. QED
                BY <1>1, <1>3, <2>10, <4>2 DEF AskNext, q, Usable, SharedBlocked
        <3>2. CASE p = NoRequest
            BY <2>1, <3>2 DEF Looked, p
        <3>3. CASE p = [q EXCEPT !.todo = Tail(@), !.affected = TRUE] \/ p = [q EXCEPT !.todo = Tail(@)]
            <4>1. p.pc = "asking" /\ p.todo = Tail(q.todo)
                BY <2>3, <3>1, <3>3 DEF Asks
            <4>2. CASE p = NoRequest
                BY <2>1, <4>2 DEF Looked, p
            <4>3. CASE ~Usable(obj[Head(q.todo)])
                <5>1. ~Usable(obj'[Head(q.todo)])
                    BY <3>1, <4>3
                <5>2. QED
                    BY <3>1, <4>1, <5>1 DEF Looked, p, q
            <4>4. QED
                BY <3>1, <4>2, <4>3
        <3>4. QED
            BY <3>1, <3>2, <3>3
    <2>11. CASE TurnAway(r)
        <3>1. /\ q.pc = "asking" /\ q.todo = <<>>
              /\ p = NoRequest \/ p = [q EXCEPT !.pc = "turned_away"]
            BY <1>1, <1>3, <2>11 DEF TurnAway, q
        <3>2. p.pc \in {"idle", "turned_away"}
            BY <2>1, <2>3, <3>1 DEF Asks
        <3>3. QED
            BY <3>1, <3>2 DEF Looked, p, q
    <2>12. QED
        BY <2>4, <2>4a, <2>5, <2>6, <2>7, <2>8, <2>9, <2>10, <2>11 DEF RequestStep
<1>4. QED
    BY <1>2, <1>3

LEMMA OthersLook ==
    ASSUME Machine, NEW x \in Requests, CanaryStep \/ Beside
    PROVE  Looked(req[x], req'[x])
<1>1. CASE Restart
    <2>1. req'[x].pc = "idle"
        BY <1>1 DEF Restart, NoRequest
    <2>2. QED
        BY <2>1 DEF Looked
<1>2. CASE ~Restart
    <2>1. req' = req
        BY <1>2 DEF CanaryStep, Collect, Begin, PrepareNothing, PrepareRefresh, CanaryUnanswered,
                    CanarySucceeds, CanaryRefused, CanaryCools, NoteNext, NoteEnds, ClearNext,
                    ClearEnds, CanaryAlone, Beside, PollBegins, OperatorRefreshes, PollEnds,
                    PollAlone, Tick, LimitTurns
    <2>2. QED
        BY <2>1 DEF Looked
<1>3. QED
    BY <1>1, <1>2

(* So a seat that stays usable while a request asks is not passed.         *)
LEMMA WatchedKept ==
    ASSUME Machine, Watched, Watch, \A r \in Requests : Looked(req[r], req'[r])
    PROVE  Watched'
<1> DEFINE now == {s \in Seats : Usable(obj'[s])}
<1>1. open' = [r \in Requests |->
                 IF req[r].pc = "asking" THEN open[r] \cap now
                 ELSE IF req'[r].pc = "asking" THEN now
                 ELSE IF req'[r].pc = "turned_away" THEN open[r] ELSE {}]
    BY DEF Watch
<1>2. now \in SUBSET Seats
    OBVIOUS
<1> HIDE DEF now
<1>3. ASSUME NEW r \in Requests
      PROVE  /\ req[r].pc = "asking" => open'[r] = open[r] \cap now
             /\ req[r].pc # "asking" /\ req'[r].pc = "asking" => open'[r] = now
             /\ req[r].pc # "asking" /\ req'[r].pc = "turned_away" => open'[r] = open[r]
             /\ open'[r] \in SUBSET Seats
    <2>1. open[r] \in SUBSET Seats
        BY DEF Watched
    <2>2. open'[r] = IF req[r].pc = "asking" THEN open[r] \cap now
                     ELSE IF req'[r].pc = "asking" THEN now
                     ELSE IF req'[r].pc = "turned_away" THEN open[r] ELSE {}
        BY <1>1, Zenon
    <2>3. open[r] \cap now \in SUBSET Seats
        BY <2>1
    <2>4. CASE req[r].pc = "asking"
        <3>1. open'[r] = open[r] \cap now
            BY <2>2, <2>4, Zenon
        <3>2. open'[r] \in SUBSET Seats
            BY <2>3, <3>1, Zenon
        <3>3. QED
            BY <2>4, <3>1, <3>2
    <2>5. CASE req[r].pc # "asking" /\ req'[r].pc = "asking"
        <3>1. open'[r] = now
            BY <2>2, <2>5, Zenon
        <3>2. open'[r] \in SUBSET Seats
            BY <1>2, <3>1, Zenon
        <3>3. QED
            BY <2>5, <3>1, <3>2
    <2>6. CASE req[r].pc # "asking" /\ req'[r].pc # "asking"
        <3>1. open'[r] = IF req'[r].pc = "turned_away" THEN open[r] ELSE {}
            BY <2>2, <2>6, Zenon
        <3>2. QED
            BY <2>1, <2>6, <3>1
    <2>7. QED
        BY <2>4, <2>5, <2>6
<1>4. open' \in [Requests -> SUBSET Seats]
    BY <1>1, <1>3
<1>5. ASSUME NEW r \in Requests
      PROVE  /\ req'[r].pc = "asking" => open'[r] \subseteq Elements(req'[r].todo)
             /\ req'[r].pc = "turned_away" => open'[r] = {}
    <2>0. /\ req[r].pc = "asking" => open[r] \subseteq Elements(req[r].todo)
          /\ req[r].pc = "turned_away" => open[r] = {}
        BY DEF Watched
    <2>1. CASE req'[r] = req[r]
        BY <1>3, <2>0, <2>1
    <2>2. CASE req'[r].pc \notin {"asking", "turned_away"}
        BY <2>2
    <2>3. CASE req[r].pc # "asking" /\ req'[r].pc = "asking" /\ req'[r].todo = Pool
        BY <1>2, <1>3, <2>3, Constants
    <2>4. CASE /\ req[r].pc = "asking" /\ req'[r].pc = "asking" /\ req[r].todo # <<>>
               /\ req'[r].todo = Tail(req[r].todo)
               /\ ~Usable(obj'[Head(req[r].todo)])
        <3>1. req[r].todo \in Seq(Seats)
            BY DEF Machine, Asked, Asks
        <3>2. Elements(req[r].todo) = {Head(req[r].todo)} \cup Elements(req'[r].todo)
            BY <2>4, <3>1, TailElements
        <3>3. Head(req[r].todo) \notin now
            BY <2>4 DEF now
        <3>4. QED
            BY <1>3, <2>0, <2>4, <3>2, <3>3
    <2>5. CASE req[r].pc = "asking" /\ req[r].todo = <<>> /\ req'[r].pc = "turned_away"
        <3>1. Elements(req[r].todo) = {}
            BY <2>5 DEF Elements
        <3>2. QED
            BY <1>3, <2>0, <2>5, <3>1
    <2>6. QED
        BY <2>1, <2>2, <2>3, <2>4, <2>5 DEF Looked
<1>6. QED
    BY <1>4, <1>5 DEF Watched

-----------------------------------------------------------------------------
LEMMA Initially == Init => Inv
<1> SUFFICES ASSUME Init PROVE Inv
    OBVIOUS
<1>1. Counted
    BY CooldownAssumption DEF Init, Counted
<1>2. Account(Fresh) \in AccountType /\ ~Account(Fresh).shared /\ Fresh \in FileType /\ ~Fresh.shared
    BY DEF Account, Fresh, AccountType, FileType, Never
<1>3. Kept /\ \A s \in Seats : ~Armed(obj[s])
    BY <1>2 DEF Init, Kept, Filed, Sound, Armed
<1>4. NoRequest \in Asks /\ NoRequest.pc = "idle"
    BY EmptySeq DEF NoRequest, Asks
<1>5. Asked
    BY <1>4 DEF Init, Asked, Holding
<1>6. NoCanary \in Canaries /\ ~Working(NoCanary) /\ NoCanary.queue = {}
    BY EmptySeq, Constants DEF Canaries, NoCanary, Working
<1>7. Probing
    BY <1>6, Constants DEF Init, Probing
<1>8. Polled
    BY DEF Init, Polled, NoPoll
<1>9. Spaced
    BY <1>3, <1>6 DEF Init, Spaced, DueLater, Queued
<1>10. Watched
    BY <1>4 DEF Init, Watched
<1>11. QED
    BY <1>1, <1>3, <1>5, <1>7, <1>8, <1>9, <1>10 DEF Inv, Machine

LEMMA NextKeeps == Inv /\ [Next]_vars => Inv'
<1> SUFFICES ASSUME Inv, [Next]_vars PROVE Inv'
    OBVIOUS
<1>1. CASE Next
    <2>1. Machine'
        BY <1>1, CanaryKeeps, BesideKeeps, RequestKeeps DEF Next, Inv
    <2>2. \A x \in Requests : Looked(req[x], req'[x])
        BY <1>1, RequestLooks, OthersLook DEF Next, Inv
    <2>3. QED
        BY <1>1, <2>1, <2>2, WatchedKept DEF Next, Inv
<1>2. CASE UNCHANGED vars
    <2>1. Counted' /\ Kept' /\ Asked' /\ Probing' /\ Polled'
        BY <1>2 DEF Inv, Machine, Counted, Kept, Asked, Probing, Polled, vars
    <2>2. Spaced'
        BY <1>2 DEF Inv, Machine, Spaced, DueLater, Handled, Queued, vars
    <2>3. Watched'
        BY <1>2 DEF Inv, Watched, vars
    <2>4. QED
        BY <2>1, <2>2, <2>3 DEF Inv, Machine
<1>3. QED
    BY <1>1, <1>2

(* The inductive invariant: what the objects, the requests, the canary and *)
(* the poller hold; that a canary is ahead of the delay (Spaced); and that *)
(* a request that asks has every free seat still before it (Watched).      *)
THEOREM CooldownInvariant == Spec => []Inv
BY Initially, NextKeeps, PTL DEF Spec

(* The cooldown keeps its types (claude_gitlab.go, claude_gitlab_recovery.go). *)
THEOREM CooldownTyped == Spec => []TypeOK
<1>1. Inv => TypeOK
    BY Constants DEF Inv, Machine, Counted, Kept, Filed, FileType, Asked, Asks, Probing,
                     Canaries, Watched, TypeOK
<1>2. QED
    BY <1>1, CooldownInvariant, PTL

(* Whatever changes while it looks at one seat after the other: a request  *)
(* is turned away only when no seat stayed usable all the time             *)
(* (main.go:1594).                                                         *)
THEOREM TurnedAwayRightly == Spec => []TurnedAwayOnlyIfBlocked
<1>1. Inv => TurnedAwayOnlyIfBlocked
    BY DEF Inv, Watched, TurnedAwayOnlyIfBlocked
<1>2. QED
    BY <1>1, CooldownInvariant, PTL

-----------------------------------------------------------------------------
(* A canary begins with a queued seat, and that one is due (Queued).       *)
LEMMA BeginsApart ==
    ASSUME Inv, Next, canary.pc = "next", canary'.pc = "prepare"
    PROVE  RetryDelay <= quiet[Scope[canary'.seat]]
<1>1. canary' # canary
    OBVIOUS
<1>2. \A r \in Requests : ~RequestStep(r)
    BY <1>1 DEF RequestStep, Arrives, Claim, AnswerDelivered, AnswerLost, RefreshFirst, CheckDead,
                ApplyAnswer, CoolNext, CoolingEnds, AskCooldown, AskNext, TurnAway, Leaves,
                RequestAlone
<1>3. ~Beside
    <2>1. ~Restart
        BY DEF Restart, NoCanary
    <2>2. ~Tick
        BY DEF Tick
    <2>3. QED
        BY <1>1, <2>1, <2>2 DEF Beside, PollBegins, OperatorRefreshes, PollEnds, PollAlone, LimitTurns
<1>4. Begin
    BY <1>2, <1>3 DEF Next, CanaryStep, Collect, PrepareNothing, PrepareRefresh,
                      CanaryUnanswered, CanarySucceeds, CanaryRefused, CanaryCools, NoteNext,
                      NoteEnds, ClearNext, ClearEnds
<1>5. PICK due \in canary.queue :
          canary' = [NoCanary EXCEPT !.pc = "prepare", !.seat = due,
                                     !.queue = canary.queue \ {due}]
    BY <1>4 DEF Begin
<1>6. canary'.seat = due
    BY <1>5 DEF NoCanary
<1>7. QED
    BY <1>6 DEF Inv, Machine, Spaced, Queued

(* Canaries of one organisation are at least RetryDelay apart, unless a    *)
(* client's 429 or a throttled refresh has cooled one of its seats in the  *)
(* meantime (claude_gitlab_recovery.go:57): whatever the seats, the delay  *)
(* and the times a canary takes.                                           *)
THEOREM CanariesAreSpaced == Spec => CanariesSpaced
<1>1. Inv /\ [Next]_vars =>
          [canary.pc = "next" /\ canary'.pc = "prepare" =>
              LET k == Scope[canary'.seat] IN quiet[k] >= RetryDelay]_vars
    <2> SUFFICES ASSUME Inv, Next, canary.pc = "next", canary'.pc = "prepare"
                 PROVE  quiet[Scope[canary'.seat]] >= RetryDelay
        OBVIOUS
    <2> DEFINE q == quiet[Scope[canary'.seat]]
    <2>1. RetryDelay <= q
        BY BeginsApart
    <2> HIDE DEF q
    <2>2. q >= RetryDelay
        BY <2>1
    <2>3. QED
        BY <2>2 DEF q
<1>2. QED
    BY <1>1, CooldownInvariant, PTL DEF Spec, CanariesSpaced

-----------------------------------------------------------------------------
(* Which steps bring a dead seat back.                                     *)
Revives(s) == restarts' = restarts /\ obj[s].dead /\ ~obj'[s].dead
Answered(r, s) ==
    /\ req'[r] # req[r] /\ req[r].seat = s
    /\ req[r].pc \in {"claimed", "sent"} \/ (req[r].pc = "checked" /\ req[r].alive)

LEMMA PutElsewhere ==
    ASSUME Kept, NEW s, NEW p, Put(s, p), NEW x \in Seats
    PROVE  obj'[x] = IF x = s THEN p ELSE obj[x]
BY DEF Kept, Put

LEMMA DeadIsLeft ==
    ASSUME NEW o \in AccountType, o.dead, NEW w
    PROVE  /\ \A retry, t : Noted(o, retry, t).dead
           /\ Cooled(o, w) = o /\ Cleared(o) = o
           /\ \A u, t : [o EXCEPT !.until = u, !.probe = t].dead
           /\ \A u : [o EXCEPT !.until = u].dead
BY DEF AccountType, Noted, Cooled, Cleared

LEMMA RequestRevives ==
    ASSUME Machine, NEW r \in Requests, RequestStep(r), NEW s \in Seats, Revives(s)
    PROVE  Answered(r, s)
<1> DEFINE q == req[r]
<1>1. q \in Asks /\ obj'[s] # obj[s] /\ obj' # obj
    BY DEF Machine, Asked, Revives
<1>2. ASSUME NEW p, Put(q.seat, p) PROVE q.seat = s /\ obj'[s] = p
    BY <1>1, <1>2, PutElsewhere DEF Machine
<1>3. CASE \E outcome \in Outcomes, w \in Waits : RefreshFirst(r, outcome, w)
    <2>1. /\ q.pc = "claimed" /\ Moves(r, [q EXCEPT !.pc = "sent"])
          /\ \E p : Put(q.seat, p)
        BY <1>3, Zenon DEF RefreshFirst, PutAndSave, PutOnly
    <2>2. req'[r] = [q EXCEPT !.pc = "sent"]
        BY <2>1, MovesTo DEF Machine
    <2>3. req'[r].pc = "sent" /\ q.seat = s
        BY <1>1, <1>2, <2>1, <2>2 DEF Asks
    <2>4. QED
        BY <2>1, <2>3 DEF Answered
<1>4. CASE AnswerDelivered(r)
    <2>1. /\ q.pc \in {"claimed", "sent"} /\ Moves(r, NoRequest)
          /\ \E p : Put(q.seat, p)
        BY <1>4, Zenon DEF AnswerDelivered, PutAndSave, PutOnly
    <2>2. req'[r].pc = "idle" /\ q.seat = s
        BY <1>2, <2>1, MovesTo, Blanks DEF Machine
    <2>3. QED
        BY <2>1, <2>2 DEF Answered
<1>5. CASE \E w \in Waits : ApplyAnswer(r, w)
    <2>1. /\ q.pc = "checked" /\ \E p : Put(q.seat, p)
          /\ TriesNext(r) \/ \E w : Moves(r, [q EXCEPT !.pc = "cooling", !.left = w, !.todo = Pool])
        BY <1>5, Zenon DEF ApplyAnswer, PutAndSave, PutOnly
    <2>2. req'[r].pc \in {"ready", "cooling"}
        <3>1. CASE TriesNext(r)
            <4>1. req'[r] = [NoRequest EXCEPT !.pc = "ready", !.tried = q.tried]
                BY <3>1, MovesTo DEF TriesNext, Machine
            <4>2. QED
                BY <4>1 DEF NoRequest
        <3>2. CASE \E w : Moves(r, [q EXCEPT !.pc = "cooling", !.left = w, !.todo = Pool])
            <4>1. PICK w : Moves(r, [q EXCEPT !.pc = "cooling", !.left = w, !.todo = Pool])
                BY <3>2
            <4>2. req'[r] = [q EXCEPT !.pc = "cooling", !.left = w, !.todo = Pool]
                BY <4>1, MovesTo DEF Machine
            <4>3. QED
                BY <1>1, <4>2 DEF Asks
        <3>3. QED
            BY <2>1, <3>1, <3>2
    <2>3. q.seat = s /\ q.alive
        BY <1>1, <1>2, <2>1 DEF Asks
    <2>4. QED
        BY <2>1, <2>2, <2>3 DEF Answered
<1>6. CASE CoolNext(r)
    <2>1. PICK h : Put(h, Cooled(obj[h], q.left)) /\ ~obj[h].dead
        BY <1>1, <1>6 DEF CoolNext, PutAndSave
    <2>2. s = h
        BY <1>1, <2>1, PutElsewhere DEF Machine
    <2>3. QED
        BY <2>1, <2>2 DEF Revives
<1>7. CASE CoolingEnds(r)
    <2>1. Put(q.seat, obj[q.seat])
        BY <1>1, <1>7 DEF CoolingEnds, PutAndSave
    <2>2. QED
        BY <1>1, <1>2, <2>1
<1>8. QED
    BY <1>1, <1>3, <1>4, <1>5, <1>6, <1>7
       DEF RequestStep, Arrives, Claim, AnswerLost, CheckDead, AskCooldown, AskNext, TurnAway, Leaves

LEMMA CanaryRevives ==
    ASSUME Machine, CanaryStep, NEW s \in Seats, Revives(s)
    PROVE  canary.pc \in {"prepare", "asking"} /\ canary' # canary
<1>1. obj'[s] # obj[s] /\ obj' # obj /\ obj[s] \in AccountType /\ canary \in Canaries
    BY DEF Revives, Machine, Kept, Probing
<1>2. ASSUME NEW h, NEW p, Put(h, p) PROVE h = s /\ obj'[s] = p
    BY <1>1, <1>2, PutElsewhere DEF Machine
<1>3. CASE \E outcome \in Outcomes, w \in Waits : PrepareRefresh(outcome, w)
    <2>1. canary.pc = "prepare" /\ \/ canary' = [canary EXCEPT !.pc = "asking"]
                                   \/ Notes(TRUE, FALSE)
        BY <1>3 DEF PrepareRefresh
    <2>2. canary'.pc \in {"asking", "noting"}
        BY <1>1, <2>1 DEF Notes, Canaries
    <2>3. QED
        BY <2>1, <2>2
<1>4. CASE \E a \in Answers \cup {"error"}, w \in Waits : CanaryRefused(a, w)
    <2>1. canary.pc = "asking"
          /\ \/ \E w : canary' = [canary EXCEPT !.pc = "cooling", !.left = w, !.todo = Pool]
             \/ Notes(FALSE, TRUE)
        BY <1>4, Zenon DEF CanaryRefused
    <2>2. canary'.pc \in {"cooling", "noting"}
        BY <1>1, <2>1 DEF Notes, Canaries
    <2>3. QED
        BY <2>1, <2>2
<1>5. CASE CanaryCools
    <2>1. PICK h : Put(h, Cooled(obj[h], canary.left)) /\ ~obj[h].dead
        BY <1>1, <1>5 DEF CanaryCools, PutAndSave
    <2>2. s = h
        BY <1>2, <2>1
    <2>3. QED
        BY <2>1, <2>2 DEF Revives
<1>6. CASE NoteNext
    <2>1. PICK h : Put(h, Noted(obj[h], canary.retry, canary.elapsed))
        BY <1>1, <1>6 DEF NoteNext, PutOnly
    <2>2. obj'[s] = Noted(obj[s], canary.retry, canary.elapsed)
        BY <1>2, <2>1
    <2>3. QED
        BY <1>1, <2>2, DeadIsLeft DEF Revives
<1>7. CASE NoteEnds
    <2>1. Put(canary.seat, obj[canary.seat])
        BY <1>1, <1>7 DEF NoteEnds, PutAndSave, Probed
    <2>2. QED
        BY <1>1, <1>2, <2>1
<1>8. CASE ClearNext
    <2>1. PICK h : Put(h, Cleared(obj[h]))
        BY <1>1, <1>8 DEF ClearNext, PutOnly
    <2>2. obj'[s] = Cleared(obj[s])
        BY <1>2, <2>1
    <2>3. QED
        BY <1>1, <2>2, DeadIsLeft DEF Revives
<1>9. QED
    BY <1>1, <1>3, <1>4, <1>5, <1>6, <1>7, <1>8
       DEF CanaryStep, Collect, Begin, PrepareNothing, CanaryUnanswered, CanarySucceeds, ClearEnds

LEMMA OthersRevive ==
    ASSUME Machine, Beside, NEW s \in Seats, Revives(s)
    PROVE  poll' # poll
<1>1. obj'[s] # obj[s] /\ obj' # obj /\ obj[s] \in AccountType
    BY DEF Revives, Machine, Kept
<1>2. CASE \E x \in Seats : OperatorRefreshes(x)
    <2>1. PICK x \in Seats : Put(x, [obj[x] EXCEPT !.until = 0])
        BY <1>2 DEF OperatorRefreshes
    <2>2. obj'[s] = [obj[s] EXCEPT !.until = 0]
        BY <1>1, <2>1, PutElsewhere DEF Machine
    <2>3. QED
        BY <1>1, <2>2, DeadIsLeft DEF Revives
<1>3. CASE \E outcome \in Outcomes, w \in Waits : PollEnds(outcome, w)
    BY <1>3 DEF PollEnds
<1>4. CASE Restart
    BY <1>4, CooldownAssumption DEF Restart, Revives, Machine, Counted
<1>5. CASE Tick
    <2>1. obj'[s] = [obj[s] EXCEPT !.until = Sooner(obj[s].until), !.probe = Sooner(obj[s].probe)]
        BY <1>5 DEF Tick
    <2>2. QED
        BY <1>1, <2>1, DeadIsLeft DEF Revives
<1>6. QED
    BY <1>1, <1>2, <1>3, <1>4, <1>5 DEF Beside, PollBegins, LimitTurns

(* A seat found dead is brought back only by an answer of the same time,   *)
(* by the canary's own exchange or by a refresh: the walks that cool, note *)
(* and clear an organisation never do (claude_gitlab.go, :224 of           *)
(* claude_gitlab_recovery.go).                                             *)
THEOREM DeadSeatIsNotRevived == Spec => DeadSeatStaysDead
<1> DEFINE A == \A s \in Seats :
          restarts' = restarts /\ obj[s].dead /\ ~obj'[s].dead =>
             \/ canary.pc \in {"prepare", "asking"} /\ canary' # canary
             \/ poll' # poll
             \/ \E r \in Requests :
                   /\ req'[r] # req[r] /\ req[r].seat = s
                   /\ \/ req[r].pc \in {"claimed", "sent"}
                      \/ req[r].pc = "checked" /\ req[r].alive
<1>1. Inv /\ [Next]_vars => [A]_vars
    <2> SUFFICES ASSUME Inv, Next, NEW s \in Seats, Revives(s)
                 PROVE  \/ canary.pc \in {"prepare", "asking"} /\ canary' # canary
                        \/ poll' # poll
                        \/ \E r \in Requests : Answered(r, s)
        BY DEF Revives, Answered
    <2>1. QED
        BY RequestRevives, CanaryRevives, OthersRevive DEF Next, Inv
<1> HIDE DEF A
<1>2. Spec => [][A]_vars
    BY <1>1, CooldownInvariant, PTL DEF Spec
<1>3. QED
    BY <1>2 DEF A, DeadSeatStaysDead

=============================================================================
