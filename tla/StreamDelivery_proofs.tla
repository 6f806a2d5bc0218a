------------------------ MODULE StreamDelivery_proofs ------------------------
(***************************************************************************)
(* For any timeouts and bounds: the delivery keeps its types, a stream in  *)
(* which the client was sent a failure never counts as a success, and each *)
(* usage event that was sent is in one record, but for a last one.  What   *)
(* the copy loop remembers (failed) and has counted (accum, records) is    *)
(* tied to the part of the stream it has scanned, and how the copy ended   *)
(* tells whether that is all the client was sent.                          *)
(***************************************************************************)
EXTENDS StreamDelivery, TLAPS

Events == {"start", "start0", "content", "stop", "delta", "delta0", "end", "ping",
           "usage", "failure", "chunk", "body", "long"}
Phases == {"new", "between", "open", "ending", "over", "failing"}

(* The stream between the upstream and the client.                          *)
Conveyed ==
  /\ kind \in Kinds
  /\ seen \in Seq(Events) /\ wire \in Seq(Events)
  /\ up \in [phase : Phases, sent : 0 .. MaxEvents, ended : BOOLEAN]
  /\ Len(wire) <= MaxWire /\ Len(seen) + Len(wire) <= up.sent
  /\ scanned \in 0 .. Len(seen)

(* The copy loop, its timers and the watchdog.                              *)
Watched ==
  /\ pc \in {"start", "reading", "writing", "scanning", "copied", "done"}
  /\ err \in {"none", "broken", "idle", "cancelled", "client", "cut"}
  /\ idle \in 0 .. IdleTimeout
  /\ tail \in [content : BOOLEAN, stop : BOOLEAN, end : BOOLEAN, quiet : 0 .. TailTimeout]
  /\ dog \in {"none", "waiting", "fired", "ended"}
  /\ failed \in BOOLEAN /\ succeeded \in BOOLEAN

(* The usage found so far.                                                  *)
Used ==
  /\ accum \in 0 .. scanned /\ (accum # 0 => kind \in ClaudeKinds)
  /\ records \subseteq SUBSET Positions

Typed == Conveyed /\ Watched /\ Used

(* What the loop remembers is what it has scanned.                          *)
Remembered ==
  /\ failed <=> \E i \in 1 .. scanned : seen[i] = "failure"
  /\ \A i \in DOMAIN wire : wire[i] = "failure" => kind \in CodexKinds
  /\ \A i \in DOMAIN seen : seen[i] = "failure" => kind \in CodexKinds

(* How the copy may have ended, and what is left unscanned then.            *)
Ended ==
  /\ pc \in {"start", "reading", "writing", "scanning"} => err = "none"
  /\ pc # "scanning" /\ err \notin {"client", "cut"} => scanned = Len(seen)
  /\ err = "cut" => kind = "gitlab_claude"
  /\ succeeded => pc = "done" /\ err \in {"none", "cut"}
  /\ failed => seat = "limited" /\ ~succeeded

(* A usage event that was scanned is in one record or waits in accum, and   *)
(* what waits came after all that is recorded.                              *)
Scans == {i \in 1 .. scanned : HasUsage(seen[i])}
Apportioned ==
  /\ \A x \in records : x \subseteq 1 .. scanned
  /\ \A x, y \in records : x # y => x \cap y = {}
  /\ accum # 0 => \A x \in records : \A j \in x : j < accum
  /\ IsSSE => Scans = (UNION records) \cup ({accum} \ {0})

(* A body is counted when the response is finalized.                        *)
Body ==
  /\ pc # "done" => records = {}
  /\ pc = "done" /\ err = "none" => records = FromSample

Accounted == Apportioned /\ (~IsSSE => Body)

Inv == Typed /\ Remembered /\ Ended /\ Accounted

(* Each step of an upstream's protocol sends an event of its kind.          *)
LEMMA Steps ==
  ASSUME NEW step \in Protocol
  PROVE  /\ step[2] \in Events /\ step[3] \in Phases
         /\ step[2] = "failure" => kind \in CodexKinds
<1>1. CASE kind \in ClaudeKinds
  BY <1>1 DEF Protocol, Claude, Events, Phases, ClaudeKinds, CodexKinds
<1>2. CASE kind \in CodexKinds
  BY <1>2 DEF Protocol, Codex, Events, Phases, ClaudeKinds, CodexKinds
<1>3. CASE kind = "gemini"
  BY <1>3 DEF Protocol, Gemini, Events, Phases, ClaudeKinds, CodexKinds
<1>4. CASE kind \notin ClaudeKinds \cup CodexKinds \cup {"gemini"}
  BY <1>4 DEF Protocol, Json, Events, Phases
<1>5. QED
  BY <1>1, <1>2, <1>3, <1>4

(* What is appended to a stream leaves its beginning alone.                 *)
LEMMA Appended ==
  ASSUME NEW s \in Seq(Events), NEW w \in Seq(Events)
  PROVE  /\ s \o w \in Seq(Events) /\ Len(s \o w) = Len(s) + Len(w)
         /\ Len(s) \in Nat /\ Len(w) \in Nat
         /\ \A i \in 1 .. Len(s) : (s \o w)[i] = s[i]
         /\ \A i \in DOMAIN (s \o w) :
               i \in DOMAIN s \/ \E j \in DOMAIN w : (s \o w)[i] = w[j]
<1>1. /\ s \o w \in Seq(Events) /\ Len(s \o w) = Len(s) + Len(w)
      /\ Len(s) \in Nat /\ Len(w) \in Nat
      /\ \A i \in 1 .. Len(s) : (s \o w)[i] = s[i]
  OBVIOUS
<1>2. ASSUME NEW i \in DOMAIN (s \o w), i \notin DOMAIN s
      PROVE  \E j \in DOMAIN w : (s \o w)[i] = w[j]
  <2>1. i \in 1 .. Len(s) + Len(w) /\ i \notin 1 .. Len(s)
    BY <1>1, <1>2
  <2>2. i - Len(s) \in DOMAIN w /\ (s \o w)[i] = w[i - Len(s)]
    BY <1>1, <2>1
  <2>3. QED
    BY <2>2
<1>3. QED
  BY <1>1, <1>2

LEMMA Initially == Init => Inv
<1> SUFFICES ASSUME Init PROVE Inv
  OBVIOUS
<1>1. /\ seen \in Seq(Events) /\ wire \in Seq(Events) /\ Len(seen) = 0 /\ Len(wire) = 0
      /\ scanned = 0 /\ DOMAIN seen = {} /\ DOMAIN wire = {} /\ 1 .. scanned = {}
  BY DEF Init
<1>2. Conveyed
  BY <1>1, DeliveryAssumption DEF Init, Conveyed, Phases
<1>3. Watched
  <2>1. /\ tail = [content |-> FALSE, stop |-> FALSE, end |-> FALSE, quiet |-> 0]
        /\ 0 \in 0 .. TailTimeout /\ 0 \in 0 .. IdleTimeout
    BY DeliveryAssumption DEF Init
  <2>2. tail \in [content : BOOLEAN, stop : BOOLEAN, end : BOOLEAN, quiet : 0 .. TailTimeout]
    BY <2>1
  <2>3. QED
    BY <2>1, <2>2 DEF Init, Watched
<1>4. Used
  BY <1>1 DEF Init, Used
<1>5. Remembered /\ Ended
  BY <1>1 DEF Init, Remembered, Ended
<1>6. Accounted
  BY <1>1 DEF Init, Accounted, Apportioned, Scans, Body
<1>7. QED
  BY <1>2, <1>3, <1>4, <1>5, <1>6 DEF Inv, Typed

(* What was counted stays as it is while nothing is scanned or finalized.   *)
LEMMA NothingCounted ==
  ASSUME Accounted, UNCHANGED <<kind, scanned, accum, records>>,
         \A i \in 1 .. scanned : seen'[i] = seen[i],
         (pc # "done" /\ pc' # "done") \/ UNCHANGED <<pc, err, seen>>
  PROVE  Accounted'
<1>1. IsSSE' = IsSSE
  BY DEF IsSSE
<1>2. Scans' = Scans
  BY DEF Scans, HasUsage
<1>3. Apportioned'
  BY <1>1, <1>2 DEF Accounted, Apportioned
<1>4. ~IsSSE => Body'
  <2>1. CASE pc # "done" /\ pc' # "done"
    BY <2>1 DEF Accounted, Body
  <2>2. CASE UNCHANGED <<pc, err, seen>>
    <3>1. FromSample' = FromSample
      BY <1>1, <2>2 DEF FromSample, HasUsage
    <3>2. QED
      BY <2>2, <3>1 DEF Accounted, Body
  <2>3. QED
    BY <2>1, <2>2
<1>5. QED
  BY <1>1, <1>3, <1>4 DEF Accounted

(* The upstream sends, ends, or breaks off.                                 *)
LEMMA UpstreamKeeps == ASSUME Inv, Upstream PROVE Inv'
<1>1. /\ UNCHANGED <<pc, err, kind, deadline, seen, scanned, verdict, timers>>
      /\ UNCHANGED <<failed, seat, accum, records, succeeded, tail, idle, dog>>
  BY DEF Upstream, verdict, timers
<1>2. Watched' /\ Used'
  BY <1>1 DEF Inv, Typed, Watched, Used, Positions
<1>3. Ended'
  BY <1>1 DEF Inv, Ended
<1>4. Accounted'
  BY <1>1, NothingCounted DEF Inv
<1>5. CASE \E step \in Protocol :
             /\ up.sent < MaxEvents /\ Len(wire) < MaxWire
             /\ up' = [up EXCEPT !.phase = step[3], !.sent = @ + 1]
             /\ wire' = Append(wire, step[2])
  <2>1. PICK step \in Protocol :
             /\ up.sent < MaxEvents /\ Len(wire) < MaxWire
             /\ up' = [up EXCEPT !.phase = step[3], !.sent = @ + 1]
             /\ wire' = Append(wire, step[2])
    BY <1>5
  <2>2. step[2] \in Events /\ step[3] \in Phases /\ (step[2] = "failure" => kind \in CodexKinds)
    BY Steps
  <2>3. Conveyed
    BY DEF Inv, Typed
  <2>4. /\ wire' \in Seq(Events) /\ Len(wire') = Len(wire) + 1
        /\ Len(wire) \in Nat /\ Len(seen) \in Nat
    BY <2>1, <2>2, <2>3 DEF Conveyed
  <2>5. /\ up' \in [phase : Phases, sent : 0 .. MaxEvents, ended : BOOLEAN]
        /\ up'.sent = up.sent + 1
    <3>1. up.sent + 1 \in 0 .. MaxEvents
      BY <2>1, <2>3, DeliveryAssumption DEF Conveyed
    <3>2. QED
      BY <2>1, <2>2, <2>3, <3>1 DEF Conveyed
  <2>6. Len(wire') <= MaxWire /\ Len(seen) + Len(wire') <= up'.sent
    <3>1. up.sent \in Nat /\ Len(seen) + Len(wire) <= up.sent
      BY <2>3, DeliveryAssumption DEF Conveyed
    <3>2. QED
      BY <2>1, <2>4, <2>5, <3>1, DeliveryAssumption
  <2>7. Conveyed'
    BY <1>1, <2>3, <2>4, <2>5, <2>6 DEF Conveyed
  <2>8. \A i \in DOMAIN wire' : wire'[i] = "failure" => kind \in CodexKinds
    <3>1. wire \in Seq(Events)
      BY <2>3 DEF Conveyed
    <3>2. /\ DOMAIN wire' = 1 .. Len(wire) + 1 /\ wire'[Len(wire) + 1] = step[2]
          /\ DOMAIN wire = 1 .. Len(wire) /\ \A i \in 1 .. Len(wire) : wire'[i] = wire[i]
      BY <2>1, <2>2, <3>1
    <3>3. QED
      BY <2>2, <2>4, <3>2 DEF Inv, Remembered
  <2>9. Remembered'
    BY <1>1, <2>8 DEF Inv, Remembered
  <2>10. QED
    BY <1>2, <1>3, <1>4, <2>7, <2>9 DEF Inv, Typed
<1>6. CASE up' = [up EXCEPT !.ended = TRUE] /\ UNCHANGED wire
  <2>1. Conveyed'
    BY <1>1, <1>6 DEF Inv, Typed, Conveyed
  <2>2. Remembered'
    BY <1>1, <1>6 DEF Inv, Remembered
  <2>3. QED
    BY <1>2, <1>3, <1>4, <2>1, <2>2 DEF Inv, Typed
<1>7. QED
  BY <1>5, <1>6 DEF Upstream

(* The client, the deadline, other requests, time and the watchdog.         *)
LEMMA BesideKeeps ==
  ASSUME Inv,
         ClientLeaves \/ DeadlinePasses \/ OthersLimitSeat \/ Tick \/ DogFires \/ DogCancels
  PROVE  Inv'
<1>1. /\ UNCHANGED <<pc, err, kind, up, wire, seen, scanned, failed, accum, records, succeeded>>
      /\ seat' \in {seat, "limited"}
  BY DEF ClientLeaves, DeadlinePasses, OthersLimitSeat, Tick, DogFires, DogCancels, stream,
         verdict
<1>2. Conveyed' /\ Used' /\ Remembered'
  BY <1>1 DEF Inv, Typed, Conveyed, Used, Positions, Remembered
<1>3. Ended'
  BY <1>1 DEF Inv, Ended
<1>4. Accounted'
  BY <1>1, NothingCounted DEF Inv
<1>5. Watched'
  <2>1. CASE ClientLeaves \/ DeadlinePasses \/ OthersLimitSeat \/ DogFires \/ DogCancels
    <3>1. UNCHANGED <<tail, idle>> /\ dog' \in {dog, "fired", "ended"}
      BY <2>1 DEF ClientLeaves, DeadlinePasses, OthersLimitSeat, DogFires, DogCancels, timers
    <3>2. QED
      BY <1>1, <3>1 DEF Inv, Typed, Watched
  <2>2. CASE Tick
    <3>1. idle' \in 0 .. IdleTimeout
      BY <2>2, DeliveryAssumption DEF Inv, Typed, Watched, Tick, Older
    <3>2. tail' \in [content : BOOLEAN, stop : BOOLEAN, end : BOOLEAN, quiet : 0 .. TailTimeout]
      BY <2>2, DeliveryAssumption DEF Inv, Typed, Watched, Tick, Older
    <3>3. UNCHANGED dog
      BY <2>2 DEF Tick
    <3>4. QED
      BY <1>1, <3>1, <3>2, <3>3 DEF Inv, Typed, Watched
  <2>3. QED
    BY <2>1, <2>2
<1>6. QED
  BY <1>2, <1>3, <1>4, <1>5 DEF Inv, Typed

(* The copy loop where it neither writes, scans nor finalizes.              *)
LEMMA LoopKeeps ==
  ASSUME Inv, Start \/ Read \/ ReadEnds \/ ReadCancelled \/ Scanned
  PROVE  Inv'
<1>1. /\ UNCHANGED <<kind, up, wire, seen, scanned, tail, failed, seat, accum, records, succeeded>>
      /\ idle' \in {idle, 0} /\ dog' \in {dog, "none", "waiting"}
      /\ pc # "done" /\ pc' \in {"reading", "writing", "copied"}
      /\ err' \in {err, "none", "broken", "idle", "cancelled"}
  BY DEF Start, Read, ReadEnds, ReadCancelled, Scanned, CopyEnds, stream, verdict, timers
<1>2. /\ pc' # "copied" => err' = err /\ pc \in {"start", "reading", "scanning"}
      /\ pc = "scanning" => scanned = Len(seen)
      /\ pc \in {"start", "reading", "scanning"}
  BY DEF Start, Read, ReadEnds, ReadCancelled, Scanned, CopyEnds
<1>3. Conveyed' /\ Used' /\ Remembered'
  BY <1>1 DEF Inv, Typed, Conveyed, Used, Positions, Remembered
<1>4. Watched'
  BY <1>1, DeliveryAssumption DEF Inv, Typed, Watched
<1>5. Ended'
  BY <1>1, <1>2 DEF Inv, Ended
<1>6. Accounted'
  BY <1>1, NothingCounted DEF Inv
<1>7. QED
  BY <1>3, <1>4, <1>5, <1>6 DEF Inv, Typed

(* A chunk is written, or what of it a vanished client still gets.          *)
LEMMA WriteKeeps == ASSUME Inv, Write \/ WriteFails PROVE Inv'
<1>1. /\ UNCHANGED <<kind, up, scanned, tail, idle, dog, failed, seat, accum, records, succeeded>>
      /\ wire' = <<>> /\ pc = "writing"
      /\ \/ pc' = "scanning" /\ UNCHANGED err
         \/ pc' = "copied" /\ err' = "client"
  BY DEF Write, WriteFails, CopyEnds, verdict, timers
<1>2. Conveyed
  BY DEF Inv, Typed
<1>3. PICK w \in Seq(Events) :
         /\ seen' = seen \o w /\ Len(w) <= Len(wire)
         /\ \A i \in DOMAIN w : \E j \in DOMAIN wire : w[i] = wire[j]
  <2>1. wire \in Seq(Events)
    BY <1>2 DEF Conveyed
  <2>2. CASE Write
    <3>1. seen' = seen \o wire
      BY <2>2 DEF Write
    <3>2. Len(wire) <= Len(wire)
      BY <2>1
    <3>3. QED
      BY <2>1, <3>1, <3>2
  <2>3. CASE WriteFails
    <3>1. PICK n \in 0 .. Len(wire) : seen' = seen \o SubSeq(wire, 1, n)
      BY <2>3 DEF WriteFails
    <3>2. /\ SubSeq(wire, 1, n) \in Seq(Events) /\ Len(SubSeq(wire, 1, n)) = n
          /\ n <= Len(wire)
          /\ \A i \in 1 .. n : i \in DOMAIN wire /\ SubSeq(wire, 1, n)[i] = wire[i]
          /\ DOMAIN SubSeq(wire, 1, n) = 1 .. n
      BY <2>1
    <3>3. QED
      BY <3>1, <3>2
  <2>4. QED
    BY <2>2, <2>3
<1>4. /\ seen' \in Seq(Events) /\ Len(seen') = Len(seen) + Len(w)
      /\ Len(seen) \in Nat /\ Len(w) \in Nat
      /\ \A i \in 1 .. Len(seen) : seen'[i] = seen[i]
      /\ \A i \in DOMAIN seen' : i \in DOMAIN seen \/ \E j \in DOMAIN w : seen'[i] = w[j]
  BY <1>2, <1>3, Appended DEF Conveyed
<1>5. Conveyed'
  <2>1. wire' \in Seq(Events) /\ Len(wire') = 0
    BY <1>1
  <2>2. Len(seen') + 0 <= up.sent /\ scanned \in 0 .. Len(seen')
    <3>1. Len(wire) \in Nat /\ up.sent \in Nat
      BY <1>2, DeliveryAssumption DEF Conveyed
    <3>2. Len(seen) + Len(wire) <= up.sent /\ scanned \in 0 .. Len(seen)
      BY <1>2 DEF Conveyed
    <3>3. QED
      BY <1>3, <1>4, <3>1, <3>2
  <2>3. QED
    BY <1>1, <1>2, <1>4, <2>1, <2>2, DeliveryAssumption DEF Conveyed
<1>6. Watched' /\ Used'
  BY <1>1 DEF Inv, Typed, Watched, Used, Positions
<1>7. \A i \in 1 .. scanned : i \in 1 .. Len(seen) /\ seen'[i] = seen[i]
  BY <1>2, <1>4 DEF Conveyed
<1>8. Remembered'
  <2>1. failed' <=> \E i \in 1 .. scanned' : seen'[i] = "failure"
    BY <1>1, <1>7 DEF Inv, Remembered
  <2>2. \A i \in DOMAIN wire' : wire'[i] = "failure" => kind' \in CodexKinds
    BY <1>1
  <2>3. \A i \in DOMAIN seen' : seen'[i] = "failure" => kind' \in CodexKinds
    <3>1. SUFFICES ASSUME NEW i \in DOMAIN seen', seen'[i] = "failure"
                   PROVE  kind \in CodexKinds
      BY <1>1
    <3>2. CASE i \in DOMAIN seen
      <4>1. DOMAIN seen = 1 .. Len(seen)
        BY <1>2 DEF Conveyed
      <4>2. QED
        BY <1>4, <3>1, <3>2, <4>1 DEF Inv, Remembered
    <3>3. CASE \E j \in DOMAIN w : seen'[i] = w[j]
      BY <1>3, <3>1, <3>3 DEF Inv, Remembered
    <3>4. QED
      BY <1>4, <3>2, <3>3
  <2>4. QED
    BY <2>1, <2>2, <2>3 DEF Remembered
<1>9. Ended'
  BY <1>1 DEF Inv, Ended
<1>10. Accounted'
  BY <1>1, <1>7, NothingCounted DEF Inv
<1>11. QED
  BY <1>5, <1>6, <1>8, <1>9, <1>10 DEF Inv, Typed

(* What is counted of the event that is scanned.                            *)
LEMMA ScanCounts ==
  ASSUME Inv, Scan, NEW here, here = scanned + 1
  PROVE  \/ UNCHANGED <<accum, records>> /\ (IsSSE => ~HasUsage(seen[here]))
         \/ /\ IsSSE /\ HasUsage(seen[here]) /\ accum = 0
            /\ accum' = 0 /\ records' = records \cup {{here}}
         \/ /\ IsSSE /\ HasUsage(seen[here]) /\ accum = 0 /\ kind \in ClaudeKinds
            /\ accum' = here /\ records' = records
         \/ /\ IsSSE /\ HasUsage(seen[here]) /\ accum # 0
            /\ accum' = 0 /\ records' = records \cup {{accum, here}}
<1>1. CASE CutsTail(seen[here])
  <2>1. UNCHANGED <<accum, records>>
    BY <1>1 DEF Scan
  <2>2. ~HasUsage(seen[here])
    BY <1>1 DEF CutsTail, HasUsage
  <2>3. QED
    BY <2>1, <2>2
<1>2. CASE ~CutsTail(seen[here])
  <2>1. accum' = Counted(seen[here])[1] /\ records' = Counted(seen[here])[2]
    BY <1>2 DEF Scan
  <2>2. accum # 0 => kind \in ClaudeKinds
    BY DEF Inv, Typed, Used
  <2>3. CASE ~IsSSE \/ ~HasUsage(seen[here])
    BY <2>1, <2>3 DEF Counted
  <2>4. CASE IsSSE /\ HasUsage(seen[here]) /\ kind \notin ClaudeKinds
    BY <2>1, <2>2, <2>4 DEF Counted
  <2>5. CASE IsSSE /\ HasUsage(seen[here]) /\ kind \in ClaudeKinds /\ accum = 0
    BY <2>1, <2>5 DEF Counted
  <2>6. CASE IsSSE /\ HasUsage(seen[here]) /\ kind \in ClaudeKinds /\ accum # 0
    BY <2>1, <2>6 DEF Counted
  <2>7. QED
    BY <2>3, <2>4, <2>5, <2>6
<1>3. QED
  BY <1>1, <1>2

(* An event becomes part of one record, alone or with the one that waited.  *)
LEMMA ScanAccounts ==
  ASSUME Inv, Scan
  PROVE  /\ Accounted' /\ accum' \in 0 .. scanned' /\ (accum' # 0 => kind \in ClaudeKinds)
         /\ records' \subseteq SUBSET Positions
<1> DEFINE here == scanned + 1
<1>1. /\ scanned \in Nat /\ scanned' = here /\ here \in Positions /\ here \in 1 .. here
      /\ here # 0 /\ \A i \in 1 .. scanned : i \in 1 .. here /\ i < here /\ i # 0
      /\ \A i \in 1 .. here : i \in 1 .. scanned \/ i = here
      /\ UNCHANGED <<kind, seen>> /\ pc = "scanning" /\ pc' # "done"
  <2>1. /\ scanned \in 0 .. Len(seen) /\ scanned < Len(seen) /\ Len(seen) \in Nat
        /\ Len(wire) \in Nat /\ up.sent \in 0 .. MaxEvents /\ Len(seen) + Len(wire) <= up.sent
    BY DEF Inv, Typed, Conveyed, Scan
  <2>2. here \in Positions
    BY <2>1, DeliveryAssumption DEF Positions
  <2>3. QED
    BY <2>1, <2>2 DEF Scan, CopyEnds
<1>2. accum \in 0 .. scanned /\ (accum # 0 => accum \in 1 .. scanned /\ kind \in ClaudeKinds)
      /\ records \subseteq SUBSET Positions /\ (accum # 0 => accum \in Positions)
  <2>1. accum \in 0 .. scanned /\ records \subseteq SUBSET Positions
        /\ (accum # 0 => kind \in ClaudeKinds)
    BY DEF Inv, Typed, Used
  <2>2. accum # 0 => accum \in 1 .. scanned
    BY <1>1, <2>1
  <2>3. \A i \in 1 .. scanned : i \in Positions
    BY <1>1, DeliveryAssumption DEF Positions
  <2>4. QED
    BY <2>1, <2>2, <2>3
<1>3. /\ \A x \in records : x \subseteq 1 .. scanned
      /\ \A x, y \in records : x # y => x \cap y = {}
      /\ accum # 0 => \A x \in records : \A j \in x : j < accum
      /\ IsSSE => Scans = (UNION records) \cup ({accum} \ {0})
  BY DEF Inv, Accounted, Apportioned
<1>4. IsSSE' = IsSSE
  BY <1>1 DEF IsSSE
<1>5. /\ HasUsage(seen[here]) => Scans' = Scans \cup {here}
      /\ ~HasUsage(seen[here]) => Scans' = Scans
  <2>1. Scans' = Scans \cup {i \in {here} : HasUsage(seen[i])}
    BY <1>1 DEF Scans, HasUsage
  <2>2. QED
    BY <2>1
<1>6. \/ UNCHANGED <<accum, records>> /\ (IsSSE => ~HasUsage(seen[here]))
      \/ /\ IsSSE /\ HasUsage(seen[here]) /\ accum = 0
         /\ accum' = 0 /\ records' = records \cup {{here}}
      \/ /\ IsSSE /\ HasUsage(seen[here]) /\ accum = 0 /\ kind \in ClaudeKinds
         /\ accum' = here /\ records' = records
      \/ /\ IsSSE /\ HasUsage(seen[here]) /\ accum # 0
         /\ accum' = 0 /\ records' = records \cup {{accum, here}}
  BY ScanCounts
<1>7. /\ accum' \in 0 .. here /\ (accum' # 0 => kind \in ClaudeKinds)
      /\ records' \subseteq SUBSET Positions
  <2>1. accum \in 0 .. here /\ 0 \in 0 .. here /\ here \in 0 .. here
    BY <1>1, <1>2
  <2> HIDE DEF here
  <2>2. QED
    BY <1>1, <1>2, <1>6, <2>1
<1> HIDE DEF here
<1>8. Apportioned'
  <2>1. CASE UNCHANGED <<accum, records>> /\ (IsSSE => ~HasUsage(seen[here]))
    <3>1. IsSSE => Scans' = (UNION records') \cup ({accum'} \ {0})
      BY <1>3, <1>5, <2>1
    <3>2. \A x \in records' : x \subseteq 1 .. here
      BY <1>1, <1>3, <2>1
    <3>3. QED
      BY <1>1, <1>3, <1>4, <2>1, <3>1, <3>2 DEF Apportioned
  <2>2. CASE /\ IsSSE /\ HasUsage(seen[here]) /\ accum = 0
             /\ accum' = 0 /\ records' = records \cup {{here}}
    <3>1. \A x \in records' : x \subseteq 1 .. here
      BY <1>1, <1>3, <2>2
    <3>2. \A x \in records : x \cap {here} = {}
      BY <1>1, <1>3
    <3>3. \A x, y \in records' : x # y => x \cap y = {}
      BY <1>3, <2>2, <3>2
    <3>4. Scans' = (UNION records') \cup ({accum'} \ {0})
      <4>1. (UNION (records \cup {{here}})) = (UNION records) \cup {here}
        OBVIOUS
      <4>2. Scans = UNION records
        BY <1>3, <2>2
      <4>3. QED
        BY <1>5, <2>2, <4>1, <4>2
    <3>5. QED
      BY <1>1, <2>2, <3>1, <3>3, <3>4 DEF Apportioned
  <2>3. CASE /\ IsSSE /\ HasUsage(seen[here]) /\ accum = 0
             /\ accum' = here /\ records' = records
    <3>1. \A x \in records' : x \subseteq 1 .. here /\ \A j \in x : j < accum'
      BY <1>1, <1>3, <2>3
    <3>2. Scans' = (UNION records') \cup ({accum'} \ {0})
      <4>1. Scans = UNION records /\ {here} \ {0} = {here}
        BY <1>1, <1>3, <2>3
      <4>2. QED
        BY <1>5, <2>3, <4>1
    <3>3. QED
      BY <1>1, <1>3, <2>3, <3>1, <3>2 DEF Apportioned
  <2>4. CASE /\ IsSSE /\ HasUsage(seen[here]) /\ accum # 0
             /\ accum' = 0 /\ records' = records \cup {{accum, here}}
    <3>1. \A x \in records' : x \subseteq 1 .. here
      BY <1>1, <1>2, <1>3, <2>4
    <3>2. \A x \in records : accum \notin x /\ here \notin x
      <4>1. accum \in Nat /\ ~(accum < accum) /\ ~(here < here)
        BY <1>1, <1>2
      <4>2. QED
        BY <1>1, <1>3, <2>4, <4>1
    <3>3. \A x, y \in records' : x # y => x \cap y = {}
      <4>1. \A x \in records : x \cap {accum, here} = {}
        BY <3>2
      <4>2. QED
        BY <1>3, <2>4, <4>1
    <3>4. Scans' = (UNION records') \cup ({accum'} \ {0})
      <4>1. (UNION (records \cup {{accum, here}})) = (UNION records) \cup {accum, here}
        OBVIOUS
      <4>2. Scans = (UNION records) \cup {accum}
        BY <1>3, <2>4
      <4>3. QED
        BY <1>5, <2>4, <4>1, <4>2
    <3>5. QED
      BY <1>1, <2>4, <3>1, <3>3, <3>4 DEF Apportioned
  <2>5. QED
    BY <1>6, <2>1, <2>2, <2>3, <2>4
<1>9. ~IsSSE => Body'
  <2>1. ~IsSSE => records' = records
    BY <1>6
  <2>2. QED
    BY <1>1, <2>1 DEF Inv, Accounted, Body
<1>10. QED
  BY <1>1, <1>4, <1>7, <1>8, <1>9 DEF Accounted

(* The next event of the chunk is scanned.                                  *)
LEMMA ScanKeeps == ASSUME Inv, Scan PROVE Inv'
<1> DEFINE here == scanned + 1
           e == seen[here]
<1>1. /\ pc = "scanning" /\ scanned < Len(seen) /\ scanned' = here
      /\ failed' = FailedSoFar(e)
      /\ seat' = IF Fails(e) /\ ~failed THEN "limited" ELSE seat
      /\ tail' = Noted(e)
      /\ \/ CutsTail(e) /\ pc' = "copied" /\ err' = "cut"
         \/ UNCHANGED <<pc, err>>
      /\ UNCHANGED <<kind, up, wire, seen, succeeded, idle, dog>>
  BY DEF Scan, CopyEnds
<1>2. /\ scanned \in Nat /\ Len(seen) \in Nat /\ here \in 0 .. Len(seen) /\ here \in DOMAIN seen
      /\ \A i \in 1 .. here : i \in 1 .. scanned \/ i = here
      /\ \A i \in 1 .. scanned : i \in 1 .. here /\ here \in 1 .. here
      /\ here \in 1 .. here
  <2>1. seen \in Seq(Events) /\ scanned \in 0 .. Len(seen)
    BY DEF Inv, Typed, Conveyed
  <2>2. QED
    BY <1>1, <2>1
<1> HIDE DEF here
<1>3. Conveyed'
  BY <1>1, <1>2 DEF Inv, Typed, Conveyed
<1>4. tail' \in [content : BOOLEAN, stop : BOOLEAN, end : BOOLEAN, quiet : 0 .. TailTimeout]
  BY <1>1, DeliveryAssumption DEF Inv, Typed, Watched, Noted
<1>5. failed' \in BOOLEAN
  BY <1>1 DEF Inv, Typed, Watched, FailedSoFar, Fails
<1>6. Watched'
  BY <1>1, <1>4, <1>5 DEF Inv, Typed, Watched
<1>7. Used' /\ Accounted'
  BY <1>1, ScanAccounts DEF Used, Positions
<1>8. e = "failure" => kind \in CodexKinds
  BY <1>2 DEF Inv, Remembered
<1>9. failed' <=> (failed \/ e = "failure")
  BY <1>1, <1>8 DEF FailedSoFar, Fails
<1>10. Remembered'
  <2>1. failed' <=> \E i \in 1 .. here : seen[i] = "failure"
    BY <1>2, <1>9 DEF Inv, Remembered
  <2>2. QED
    BY <1>1, <2>1 DEF Inv, Remembered
<1>11. ~succeeded' /\ (failed' => seat' = "limited")
  BY <1>1, <1>8, <1>9 DEF Inv, Ended, Fails
<1>12. Ended'
  <2>1. CutsTail(e) => kind = "gitlab_claude"
    BY DEF CutsTail, Guarded
  <2>2. QED
    BY <1>1, <1>11, <2>1 DEF Inv, Ended
<1>13. QED
  BY <1>3, <1>6, <1>7, <1>10, <1>12 DEF Inv, Typed

(* The response is finalized.                                               *)
LEMMA FinalizeKeeps == ASSUME Inv, Finalize PROVE Inv'
<1>1. /\ pc = "copied" /\ pc' = "done"
      /\ UNCHANGED <<kind, up, wire, seen, scanned, err, tail, idle, failed, accum>>
      /\ dog' \in {dog, "ended"}
      /\ err \in {"none", "cut"} => records' = records \cup FromSample
      /\ err \notin {"none", "cut"} => records' = records
  BY DEF Finalize, stream
<1>2. /\ succeeded' \in BOOLEAN /\ (succeeded' => err \in {"none", "cut"} /\ ~failed)
      /\ seat' = seat \/ succeeded'
  BY <1>1 DEF Finalize, Inv, Typed, Watched, Ended
<1>3. IsSSE' = IsSSE /\ FromSample' = FromSample /\ Scans' = Scans
  BY <1>1 DEF IsSSE, FromSample, Scans, HasUsage
<1>4. DOMAIN seen = 1 .. Len(seen) /\ Len(seen) \in Nat /\ \A i \in DOMAIN seen : i \in Positions
  <2>1. /\ DOMAIN seen = 1 .. Len(seen) /\ Len(seen) \in Nat /\ Len(wire) \in Nat
        /\ up.sent \in 0 .. MaxEvents /\ Len(seen) + Len(wire) <= up.sent
    BY DEF Inv, Typed, Conveyed
  <2>2. QED
    BY <2>1, DeliveryAssumption DEF Positions
<1>5. records' \subseteq SUBSET Positions
  <2>1. FromSample \subseteq SUBSET Positions
    BY <1>4 DEF FromSample
  <2>2. QED
    BY <1>1, <2>1 DEF Inv, Typed, Used
<1>6. Typed'
  BY <1>1, <1>2, <1>5 DEF Inv, Typed, Conveyed, Watched, Used, Positions
<1>7. Remembered'
  BY <1>1 DEF Inv, Remembered
<1>8. Ended'
  BY <1>1, <1>2 DEF Inv, Ended
<1>9. CASE IsSSE
  <2>1. records' = records
    BY <1>1, <1>9 DEF FromSample
  <2>2. QED
    BY <1>1, <1>3, <1>6, <1>7, <1>8, <1>9, <2>1 DEF Inv, Accounted, Apportioned
<1>10. CASE ~IsSSE
  <2>1. records = {} /\ accum = 0 /\ err # "cut"
    BY <1>1, <1>10 DEF Inv, Typed, Used, Ended, Accounted, Body, IsSSE, StreamKinds, ClaudeKinds
  <2>2. Body'
    BY <1>1, <1>3, <2>1 DEF Body
  <2>3. err = "none" => scanned = Len(seen)
    BY <1>1 DEF Inv, Ended
  <2>4. \A x \in records' : \E i \in 1 .. scanned : x = {i}
    BY <1>1, <1>4, <2>1, <2>3 DEF FromSample
  <2>5. \A x, y \in records' : x # y => x \cap y = {}
    <3>1. SUFFICES ASSUME NEW x \in records', NEW y \in records', x # y
                   PROVE  x \cap y = {}
      OBVIOUS
    <3>2. PICK i, j \in 1 .. scanned : x = {i} /\ y = {j}
      BY <2>4
    <3>3. QED
      BY <3>1, <3>2
  <2>6. \A x \in records' : x \subseteq 1 .. scanned
    BY <2>4
  <2>7. Apportioned'
    BY <1>1, <1>3, <1>10, <2>1, <2>5, <2>6 DEF Apportioned
  <2>8. QED
    BY <1>3, <1>6, <1>7, <1>8, <2>2, <2>7 DEF Inv, Accounted
<1>11. QED
  BY <1>9, <1>10

LEMMA NextKeeps == Inv /\ [Next]_vars => Inv'
<1> SUFFICES ASSUME Inv, [Next]_vars PROVE Inv'
  OBVIOUS
<1>1. CASE Next
  BY <1>1, UpstreamKeeps, BesideKeeps, LoopKeeps, WriteKeeps, ScanKeeps, FinalizeKeeps
     DEF Next, Copy
<1>2. CASE UNCHANGED vars
  <2>1. /\ UNCHANGED <<pc, err, kind, up, wire, seen, scanned, failed, seat, accum, records,
                       succeeded, tail, idle, dog>>
    BY <1>2 DEF vars, stream, verdict, timers
  <2>2. Typed' /\ Remembered' /\ Ended'
    BY <2>1 DEF Inv, Typed, Conveyed, Watched, Used, Positions, Remembered, Ended
  <2>3. Accounted'
    BY <2>1, NothingCounted DEF Inv
  <2>4. QED
    BY <2>2, <2>3 DEF Inv
<1>3. QED
  BY <1>1, <1>2

(* The inductive invariant: what the loop remembers and has counted is what *)
(* it has scanned, which is all the client was sent unless the client left  *)
(* or the tail was cut.                                                     *)
THEOREM DeliveryInvariant == Spec => []Inv
BY Initially, NextKeeps, PTL DEF Spec

(* The delivery keeps its types; a record of usage names events of its      *)
(* stream only (response_usage_stream.go).                                  *)
THEOREM DeliveryTyped == Spec => []TypeOK
<1>1. Inv => TypeOK
  BY DEF Inv, Typed, Conveyed, Watched, Used, TypeOK
<1>2. QED
  BY <1>1, DeliveryInvariant, PTL

(* A stream in which the client was sent a failure is never finalized as a  *)
(* success and does not reopen its seat, wherever in its chunk the failure  *)
(* lay and however the copy, the watchdog, the client and the other         *)
(* requests interleave (response_usage_stream.go:135).                      *)
THEOREM FailureIsFinal == Spec => []FailedNeverSucceeds
<1>1. ASSUME Inv PROVE FailedNeverSucceeds
  <2>1. ASSUME At("failure") # {}, err \notin {"client"}, pc # "scanning"
        PROVE  failed
    <3>1. PICK i \in DOMAIN seen : seen[i] = "failure"
      BY <2>1 DEF At
    <3>2. err # "cut"
      BY <1>1, <3>1 DEF Inv, Remembered, Ended, CodexKinds
    <3>3. scanned = Len(seen)
      BY <1>1, <2>1, <3>2 DEF Inv, Ended
    <3>4. DOMAIN seen = 1 .. Len(seen)
      BY <1>1 DEF Inv, Typed, Conveyed
    <3>5. QED
      BY <1>1, <3>1, <3>3, <3>4 DEF Inv, Remembered
  <2>2. /\ succeeded => pc = "done" /\ err \in {"none", "cut"}
        /\ failed => seat = "limited" /\ ~succeeded
    BY <1>1 DEF Inv, Ended
  <2>3. QED
    BY <2>1, <2>2 DEF FailedNeverSucceeds
<1>2. QED
  BY <1>1, DeliveryInvariant, PTL

(* Each usage event the client was sent is in one record and no more,       *)
(* except the last one of a Claude stream when it waits for a partner; for  *)
(* any length of the stream and of its chunks, and however it ends, unless  *)
(* the client leaves or the tail is cut (response_usage_stream.go:228).     *)
THEOREM UsageIsInOneRecord == Spec => []UsageInOneRecord
<1>1. ASSUME Inv PROVE UsageInOneRecord
  <2>1. \A x, y \in records : x # y => x \cap y = {}
    BY <1>1 DEF Inv, Accounted, Apportioned
  <2>2. DOMAIN seen = 1 .. Len(seen) /\ Len(seen) \in Nat /\ accum \in Nat
    BY <1>1 DEF Inv, Typed, Conveyed, Used
  <2>3. ASSUME IsSSE, pc # "scanning", err \notin {"client", "cut"},
               NEW i \in Reported \ UNION records
        PROVE  kind \in ClaudeKinds /\ \A j \in Reported : j <= i
    <3>1. scanned = Len(seen)
      BY <1>1, <2>3 DEF Inv, Ended
    <3>2. Reported = (UNION records) \cup ({accum} \ {0})
      BY <1>1, <2>2, <2>3, <3>1 DEF Inv, Accounted, Apportioned, Scans, Reported
    <3>3. i = accum /\ accum # 0
      <4>1. i \in Reported /\ i \notin UNION records
        BY <2>3
      <4>2. i \in {accum} \ {0}
        BY <3>2, <4>1
      <4>3. QED
        BY <4>2
    <3>4. \A x \in records : x \subseteq 1 .. scanned /\ \A j \in x : j < accum
      BY <1>1, <3>3 DEF Inv, Accounted, Apportioned
    <3>5. \A j \in Reported : j = accum \/ j < accum
      <4>1. SUFFICES ASSUME NEW j \in Reported, j # accum PROVE j < accum
        OBVIOUS
      <4>2. PICK x \in records : j \in x
        BY <3>2, <4>1
      <4>3. QED
        BY <3>4, <4>2
    <3>6. \A j \in Reported : j \in Nat
      BY <2>2 DEF Reported
    <3>7. QED
      BY <1>1, <2>2, <3>3, <3>5, <3>6 DEF Inv, Typed, Used
  <2>4. ASSUME ~IsSSE, pc = "done", err = "none" PROVE UNION records = Reported
    <3>1. records = {{i} : i \in Reported}
      BY <1>1, <2>4 DEF Inv, Accounted, Body, FromSample, Reported
    <3>2. QED
      BY <3>1
  <2>5. QED
    BY <2>1, <2>3, <2>4 DEF UsageInOneRecord
<1>2. QED
  BY <1>1, DeliveryInvariant, PTL
=============================================================================
