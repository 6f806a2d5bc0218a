-------------------------- MODULE StreamDelivery --------------------------
(***************************************************************************)
(* The delivery of one upstream response to the client (main.go            *)
(* deliverCopiedProxyResponse, sse.go, response_usage_stream.go).  The     *)
(* copy loop reads a chunk of the upstream body, which may hold several    *)
(* events, writes it to the client and, for a stream, then scans its       *)
(* events one by one: for a failure that cools the seat, for the tail of   *)
(* pings that GitLab's Claude lane may end in, and for usage.  A watchdog  *)
(* goroutine cancels the request when nothing was read for the idle        *)
(* timeout.  The upstream, the client and the deadline of the request, if  *)
(* it has one, end the copy at any point.                                  *)
(*                                                                         *)
(* Time is counted in ticks since the last read and since the last event   *)
(* that was not a ping.                                                    *)
(***************************************************************************)
EXTENDS Naturals, Sequences, FiniteSets

CONSTANTS
    Kinds,        \* the kinds of response to look at
    IdleTimeout,  \* streamIdleTimeout
    TailTimeout,  \* claudePingTailTimeout
    MaxEvents,    \* bound: events of one stream
    MaxWire       \* bound: events sent and not yet read

ClaudeKinds == {"gitlab_claude", "claude"}
CodexKinds == {"codex", "codex_api"}
StreamKinds == ClaudeKinds \cup CodexKinds \cup {"gemini"}

ASSUME DeliveryAssumption ==
    /\ Kinds \subseteq StreamKinds \cup {"json"}
    /\ IdleTimeout \in Nat \ {0} /\ TailTimeout \in Nat \ {0}
    /\ MaxEvents \in Nat /\ MaxWire \in Nat

VARIABLES
    pc,        \* where deliverCopiedProxyResponse is
    kind,      \* the kind of response
    up,        \* the upstream: phase of its protocol, events sent, open or ended
    wire,      \* events sent and not yet written: once read, the chunk of io.Copy
    seen,      \* events written to the client
    scanned,   \* how many of those scanForEvents has processed
    err,       \* copyErr
    tail,      \* claudePingTailWatcher
    idle,      \* ticks since the idle timer was set
    dog,       \* the watchdog goroutine
    timedOut,  \* idleTimeoutReader.timedOut
    deadline,  \* whether the request has one (clientOrDefaultTimeout)
    ctx,       \* the request context: live, dead, or dead with the client gone
    failed,    \* managedStreamFailed
    seat,      \* the seat: open or limited
    accum,     \* claudeAccum: the position of the event it came from, 0 if nil
    records,   \* recorded usage: the positions of the events it was made of
    succeeded  \* the response was finalized as a success

stream == <<kind, deadline, up, wire, seen, scanned>>
verdict == <<failed, seat, accum, records, succeeded>>
timers == <<tail, idle, dog, timedOut, ctx>>
vars == <<pc, err, stream, verdict, timers>>

(* What an upstream sends, phase by phase: <<phase, event, next phase>>.   *)
(* A "0" marks an event whose token counts are zero or missing; the start  *)
(* of a block is told apart from its content by nothing.                   *)
Claude ==
    {<<"new", e, "between">> : e \in {"start", "start0"}}
    \cup {<<"between", "content", "open">>, <<"open", "stop", "between">>,
          <<"ending", "end", "over">>}
    \cup {<<p, e, "ending">> : p \in {"between", "ending"}, e \in {"delta", "delta0"}}
    \cup {<<p, "ping", p>> : p \in {"between", "open", "ending"}}
Codex ==
    {<<"new", "content", "open">>, <<"open", "content", "open">>, <<"open", "usage", "over">>,
     <<"new", "failure", "failing">>, <<"open", "failure", "failing">>,
     <<"failing", "failure", "over">>}
Gemini == {<<p, e, "open">> : p \in {"new", "open"}, e \in {"content", "chunk"}}
Json == {<<"new", "body", "over">>, <<"new", "long", "over">>}
Protocol ==
    CASE kind \in ClaudeKinds -> Claude
      [] kind \in CodexKinds -> Codex
      [] kind = "gemini" -> Gemini
      [] OTHER -> Json

IsSSE == kind \in StreamKinds
Guarded == kind = "gitlab_claude"

(* Whether the request has a deadline follows from its own headers and     *)
(* body, whatever the upstream answers: any response may have one or none. *)
Init ==
    /\ pc = "start" /\ err = "none"
    /\ kind \in Kinds /\ deadline \in BOOLEAN
    /\ up = [phase |-> "new", sent |-> 0, ended |-> FALSE]
    /\ wire = <<>> /\ seen = <<>> /\ scanned = 0
    /\ tail = [content |-> FALSE, stop |-> FALSE, end |-> FALSE, quiet |-> 0]
    /\ idle = 0 /\ dog = "none" /\ timedOut = FALSE
    /\ ctx = "live" /\ failed = FALSE
    /\ seat = "open"
    /\ accum = 0 /\ records = {}
    /\ succeeded = FALSE

Copying == pc \in {"reading", "writing", "scanning"}

-----------------------------------------------------------------------------
(* The environment.                                                        *)

(* What is sent while nobody reads shows at the next read, as if it were   *)
(* sent then.                                                              *)
Upstream ==
    /\ pc = "reading" /\ ~up.ended
    /\ \/ /\ up.sent < MaxEvents /\ Len(wire) < MaxWire
          /\ \E step \in Protocol :
                /\ step[1] = up.phase
                /\ up' = [up EXCEPT !.phase = step[3], !.sent = @ + 1]
                /\ wire' = Append(wire, step[2])
       \/ up' = [up EXCEPT !.ended = TRUE] /\ UNCHANGED wire
    /\ UNCHANGED <<pc, err, kind, deadline, seen, scanned, verdict, timers>>

(* The request's context ends with its client, or with its deadline; the   *)
(* next read or write shows it.                                            *)
ClientLeaves ==
    /\ pc \in {"reading", "writing"} /\ ctx # "gone"
    /\ ctx' = "gone"
    /\ UNCHANGED <<pc, err, stream, verdict, tail, idle, dog, timedOut>>

DeadlinePasses ==
    /\ pc \in {"reading", "writing"} /\ ctx = "live"
    /\ deadline
    /\ ctx' = "dead"
    /\ UNCHANGED <<pc, err, stream, verdict, tail, idle, dog, timedOut>>

(* Another request cools the seat.                                         *)
OthersLimitSeat ==
    /\ pc \in {"reading", "copied"} /\ seat = "open"
    /\ seat' = "limited"
    /\ UNCHANGED <<pc, err, stream, failed, accum, records, succeeded, timers>>

Older(n, limit) == IF n < limit THEN n + 1 ELSE n

(* The two clocks are read by the watchdog and by the tail watcher only.   *)
Tick ==
    /\ idle' = IF dog = "waiting" THEN Older(idle, IdleTimeout) ELSE idle
    /\ tail' = IF Guarded /\ Copying THEN [tail EXCEPT !.quiet = Older(@, TailTimeout)] ELSE tail
    /\ <<idle, tail>>' # <<idle, tail>>
    /\ UNCHANGED <<pc, err, stream, verdict, dog, timedOut, ctx>>

-----------------------------------------------------------------------------
(* The copy loop.                                                          *)

(* newIdleTimeoutReader wraps the body of a stream.                        *)
Start ==
    /\ pc = "start"
    /\ pc' = "reading"
    /\ dog' = IF IsSSE THEN "waiting" ELSE "none"
    /\ UNCHANGED <<err, stream, verdict, tail, idle, timedOut, ctx>>

(* idleTimeoutReader.Read got what there is, one event or several; a dead  *)
(* context need not show yet.                                              *)
Read ==
    /\ pc = "reading" /\ wire # <<>>
    /\ pc' = "writing" /\ idle' = 0
    /\ UNCHANGED <<err, stream, verdict, tail, dog, timedOut, ctx>>

CopyEnds(e) == err' = e /\ pc' = "copied"

(* The body ends, or its connection breaks.                                *)
ReadEnds ==
    /\ pc = "reading" /\ wire = <<>> /\ up.ended
    /\ \E e \in {"none", "broken"} : CopyEnds(e)
    /\ UNCHANGED <<stream, verdict, timers>>

(* A cancelled read is reported as idle once the watchdog has fired.       *)
ReadCancelled ==
    /\ pc = "reading" /\ ctx # "live"
    /\ CopyEnds(IF timedOut THEN "idle" ELSE "cancelled")
    /\ UNCHANGED <<stream, verdict, timers>>

(* The whole chunk is written before any of its events is scanned.         *)
Write ==
    /\ pc = "writing"
    /\ pc' = "scanning"
    /\ seen' = seen \o wire /\ wire' = <<>>
    /\ UNCHANGED <<err, kind, deadline, up, scanned, verdict, timers>>

(* The client is gone: what it still got of the chunk is not scanned.      *)
WriteFails ==
    /\ pc = "writing" /\ ctx = "gone"
    /\ CopyEnds("client")
    /\ \E n \in 0 .. Len(wire) : seen' = seen \o SubSeq(wire, 1, n)
    /\ wire' = <<>>
    /\ UNCHANGED <<kind, deadline, up, scanned, verdict, timers>>

(* claudePingTailWatcher.noteEvent, which GitLab's Claude lane alone has.  *)
Noted(e) ==
    IF e = "ping" \/ ~Guarded THEN tail
    ELSE [content |-> tail.content \/ e = "content", stop |-> tail.stop \/ e = "stop",
          end |-> tail.end \/ e = "end", quiet |-> 0]

CutsTail(e) ==
    /\ Guarded /\ e = "ping"
    /\ tail.content /\ tail.stop /\ ~tail.end
    /\ tail.quiet >= TailTimeout

(* handleCodexSSEFailureEvent, on the first failure of the stream.         *)
Fails(e) == kind \in CodexKinds /\ e = "failure"
(* Mutant: the stream is not told that it failed.                          *)
FailedSoFarForgets(e) == failed

FailedSoFar(e) == failed \/ Fails(e)

(* The usage found in an event: a Claude event waits in claudeAccum for    *)
(* the next, and the two are one record, whatever events they are.         *)
HasUsage(e) == e \in {"start", "delta", "usage", "chunk", "body"}
(* Mutant: each event is a record of its own and is kept.                  *)
CountedApart(e) ==
    LET here == scanned + 1 IN
    IF ~HasUsage(e) THEN <<accum, records>> ELSE <<here, records \cup {{accum, here} \ {0}}>>
(* Mutant: claudeAccum is not reset.                                       *)
CountedAgain(e) ==
    LET here == scanned + 1 IN
    IF ~IsSSE \/ ~HasUsage(e) THEN <<accum, records>>
    ELSE IF kind \notin ClaudeKinds THEN <<accum, records \cup {{here}}>>
    ELSE IF accum = 0 THEN <<here, records>>
    ELSE <<accum, records \cup {{accum, here}}>>

Counted(e) ==
    LET here == scanned + 1 IN
    IF ~IsSSE \/ ~HasUsage(e) THEN <<accum, records>>
    ELSE IF kind \notin ClaudeKinds THEN <<accum, records \cup {{here}}>>
    ELSE IF accum = 0 THEN <<here, records>>
    ELSE <<0, records \cup {{accum, here}}>>

(* The next event of the chunk is scanned: for failure, then tail, then    *)
(* usage.  A cut leaves the rest of the chunk, which the client has, alone.*)
Scan ==
    LET e == seen[scanned + 1] IN
    /\ pc = "scanning" /\ scanned < Len(seen)
    /\ scanned' = scanned + 1
    /\ failed' = FailedSoFar(e)
    /\ seat' = IF Fails(e) /\ ~failed THEN "limited" ELSE seat
    /\ tail' = Noted(e)
    /\ IF CutsTail(e)
       THEN CopyEnds("cut") /\ UNCHANGED <<accum, records>>
       ELSE /\ UNCHANGED <<pc, err>>
            /\ accum' = Counted(e)[1] /\ records' = Counted(e)[2]
    /\ UNCHANGED <<kind, deadline, up, wire, seen, succeeded, idle, dog, timedOut, ctx>>

Scanned ==
    /\ pc = "scanning" /\ scanned = Len(seen)
    /\ pc' = "reading"
    /\ UNCHANGED <<err, stream, verdict, timers>>

(* What finalizeProxyResponse finds in the sample: usage of a whole body,  *)
(* which one longer than the sample is not.                                *)
FromSample == IF IsSSE THEN {} ELSE {{i} : i \in {j \in DOMAIN seen : HasUsage(seen[j])}}

(* The buffered path closes the body first; the deferred Close of the      *)
(* streamed path is that of the body before it was wrapped, and leaves the *)
(* watchdog to its timer.  A 2xx response that did not fail on the way     *)
(* marks its seat.                                                         *)
Finalize ==
    /\ pc = "copied"
    /\ pc' = "done"
    /\ \E buffered \in BOOLEAN :
          dog' = IF buffered /\ dog = "waiting" THEN "ended" ELSE dog
    /\ IF err \in {"none", "cut"}
       THEN /\ records' = records \cup FromSample
            /\ \E good \in BOOLEAN : succeeded' = (good /\ ~failed)
            /\ seat' = IF succeeded' /\ kind \in {"gitlab_claude", "codex_api", "gemini"}
                       THEN "open" ELSE seat
       ELSE UNCHANGED <<records, succeeded, seat>>
    /\ UNCHANGED <<err, stream, failed, accum, tail, idle, timedOut, ctx>>

-----------------------------------------------------------------------------
(* The watchdog.                                                           *)

DogFires ==
    /\ dog = "waiting" /\ idle >= IdleTimeout
    /\ dog' = "fired" /\ timedOut' = TRUE
    /\ UNCHANGED <<pc, err, stream, verdict, tail, idle, ctx>>

(* Mutant: the watchdog only reports.                                      *)
CancelsNothing == ctx

Cancels == IF ctx = "live" THEN "dead" ELSE ctx

DogCancels ==
    /\ dog = "fired"
    /\ dog' = "ended" /\ ctx' = Cancels
    /\ UNCHANGED <<pc, err, stream, verdict, tail, idle, timedOut>>

Copy ==
    \/ Start \/ Read \/ ReadEnds \/ ReadCancelled \/ Write \/ WriteFails
    \/ Scan \/ Scanned \/ Finalize
Next ==
    \/ Upstream \/ ClientLeaves \/ DeadlinePasses \/ OthersLimitSeat \/ Tick
    \/ Copy \/ DogFires \/ DogCancels

(* The scheduler runs the copy loop and the watchdog, time passes and with *)
(* it the deadline of a request that has one, and a client takes what is   *)
(* written or its connection fails.                                        *)
Fairness ==
    /\ WF_vars(Copy) /\ WF_vars(Tick)
    /\ WF_vars(DogFires) /\ WF_vars(DogCancels)
    /\ WF_vars(DeadlinePasses)

Spec == Init /\ [][Next]_vars /\ Fairness

-----------------------------------------------------------------------------
Positions == 1 .. MaxEvents

TypeOK ==
    /\ pc \in {"start", "reading", "writing", "scanning", "copied", "done"}
    /\ err \in {"none", "broken", "idle", "cancelled", "client", "cut"}
    /\ Len(wire) <= MaxWire /\ Len(seen) + Len(wire) <= up.sent
    /\ scanned \in 0 .. Len(seen)
    /\ idle \in 0 .. IdleTimeout /\ tail.quiet \in 0 .. TailTimeout
    /\ dog \in {"none", "waiting", "fired", "ended"}
    /\ accum \in 0 .. scanned /\ (accum # 0 => kind \in ClaudeKinds)
    /\ records \subseteq SUBSET Positions

At(e) == {i \in DOMAIN seen : seen[i] = e}
Reported == {i \in DOMAIN seen : HasUsage(seen[i])}

(* However the copy ends, by the upstream, the watchdog or the deadline,   *)
(* each usage event the client was sent is part of one record and no more; *)
(* only the last one of a Claude stream may be left over, when it waits    *)
(* for a partner that does not come.  What a vanished client got of its    *)
(* last chunk, and what came in the chunk after a cut, is not looked at    *)
(* (sse.go:138, response_usage_stream.go:228).                             *)
UsageInOneRecord ==
    /\ \A x, y \in records : x # y => x \cap y = {}
    /\ IsSSE /\ pc # "scanning" /\ err \notin {"client", "cut"} =>
          \A i \in Reported \ UNION records :
             kind \in ClaudeKinds /\ \A j \in Reported : j <= i
    /\ ~IsSSE /\ pc = "done" /\ err = "none" => UNION records = Reported

(* A stream of which the client was sent a failure is not a success,       *)
(* however it ended and wherever in its chunk the failure lay: it pins no  *)
(* conversation, and the seat that the failure limited is not reopened by  *)
(* it (response_usage_stream.go:135, main.go:2639).                        *)
FailedNeverSucceeds ==
    /\ At("failure") # {} => ~succeeded
    /\ At("failure") # {} /\ pc # "scanning" /\ err # "client" => seat = "limited"
    /\ pc = "done" /\ succeeded => err \in {"none", "cut"}

(* A delivery ends if it is a stream or its request has a deadline: an     *)
(* upstream that stays silent cannot hold it (sse.go:40, main.go:2005).    *)
DeliveryEnds == (pc = "reading" /\ (IsSSE \/ deadline)) ~> (pc = "done")
=============================================================================
