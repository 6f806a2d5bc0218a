--------------------------- MODULE SignIn_proofs ---------------------------
(***************************************************************************)
(* The safety properties of SignIn for any sessions, seats, handlers and    *)
(* bounds.  Exclusion and give-back each need to know how far the session   *)
(* of a working handler is (Matched), and Matched needs them: they are      *)
(* proved together.                                                         *)
(***************************************************************************)
EXTENDS SignIn, TLAPS

(* A handler works on a session that its lane has taken, in a phase its     *)
(* lane has.                                                                *)
Matched ==
  \A h \in Handler : Working(h) =>
    /\ handler[h].s \in Session
    /\ handler[h].s \in Codex => session[handler[h].s] \in {"inflight", "gone"}
    /\ handler[h].s \in Gemini => session[handler[h].s] = "gone"
    /\ handler[h].phase \in {"find", "name", "open", "finalize", "release"}
         => handler[h].s \in Codex
    /\ handler[h].phase = "remove" => handler[h].s \in Claude

(* A request past ensureCodexLoopbackCallbackServers has no session yet.    *)
NotYetStarted == \A s \in adding : session[s] = "new"

(* Only Codex sessions are marked InFlight.                                 *)
CodexInFlight == \A s \in Session : session[s] = "inflight" => s \in Codex

(* Only sessions in their table are past their TTL.                         *)
OldInTable == \A s \in old : session[s] \in {"open", "inflight"}

Taken ==
  /\ Matched /\ NotYetStarted /\ CodexInFlight /\ OldInTable
  /\ OneExchangePerSession /\ ClaimsHeld
Inv == TypeOK /\ Taken /\ OpenServersAccounted

LEMMA LanesApart ==
  /\ AutoComplete \subseteq Codex /\ Codex \subseteq Session
  /\ Claude \subseteq Session /\ Gemini \subseteq Session
  /\ Codex \cap Claude = {} /\ Codex \cap Gemini = {} /\ Claude \cap Gemini = {}
  /\ Session = Codex \cup Claude \cup Gemini
BY SignInAssumption DEF AutoComplete, Codex, Claude, Gemini, Lanes

LEMMA Initially == Init => Inv
<1> SUFFICES ASSUME Init PROVE Inv
  OBVIOUS
<1>1. TypeOK
  BY DEF Init, TypeOK, Files, Absent, Tokens, Handlers, Idle, Phases
<1>2. Taken
  BY DEF Init, Taken, Matched, NotYetStarted, CodexInFlight, OldInTable, OneExchangePerSession, ClaimsHeld, Working, Idle
<1>3. OpenServersAccounted
  BY DEF Init, OpenServersAccounted
<1> QED BY <1>1, <1>2, <1>3 DEF Inv

(* ---- Steps of the tables and servers: no handler moves ---- *)

(* A step on the session s, or of a goroutine that stops the servers.       *)
TableStep(s) ==
  \/ /\ s \in Session
     /\ \/ EnsureServers(s) \/ StartSession(s) \/ StartFails(s)
        \/ Ages(s) \/ Sweep(s) \/ ErrorCallback(s)
  \/ StopLooks \/ StopCloses

(* Types: the tables and servers change within their types.                 *)
LEMMA TableTypes ==
  ASSUME TypeOK, NEW s, TableStep(s)
  PROVE  TypeOK'
<1>1. CASE s \in Session /\ EnsureServers(s)
  BY <1>1 DEF EnsureServers, TypeOK
<1>2. CASE s \in Session /\ StartSession(s)
  BY <1>2 DEF StartSession, Sessioned, servers, TypeOK
<1>3. CASE s \in Session /\ StartFails(s)
  BY <1>3 DEF StartFails, Sessioned, TypeOK
<1>4. CASE s \in Session /\ Ages(s)
  BY <1>4 DEF Ages, servers, TypeOK
<1>5. CASE s \in Session /\ Sweep(s)
  BY <1>5 DEF Sweep, TypeOK
<1>6. CASE s \in Session /\ ErrorCallback(s)
  BY <1>6 DEF ErrorCallback, Finalizes, Sessioned, TypeOK
<1>7. CASE StopLooks
  BY <1>7 DEF StopLooks, table, TypeOK
<1>8. CASE StopCloses
  <2>1. listening' \in BOOLEAN
    BY <1>8, Zenon DEF StopCloses
  <2>2. stopping' \in Nat /\ sleeping' = sleeping
    BY <1>8 DEF StopCloses, TypeOK
  <2>3. UNCHANGED <<session, old, unspent, adding, sweeps, files, handler>>
    BY <1>8 DEF StopCloses, table
  <2> QED BY <2>1, <2>2, <2>3 DEF TypeOK
<1> QED BY <1>1, <1>2, <1>3, <1>4, <1>5, <1>6, <1>7, <1>8 DEF TableStep

(* Handlers keep what they have when sessions only start or go.             *)
LEMMA TableKeepsTaken ==
  ASSUME Taken, TypeOK, handler' = handler, adding' \subseteq adding,
         \A s \in old' : s \in old /\ session'[s] = session[s],
         \A s \in Session : \/ session'[s] = session[s]
                            \/ session'[s] = "gone" /\ s \notin adding'
                            \/ session[s] = "new" /\ session'[s] = "open" /\ s \notin adding'
  PROVE  Taken'
<1>1. Matched'
  BY LanesApart DEF Taken, Matched, Working
<1>2. NotYetStarted'
  BY DEF Taken, NotYetStarted, TypeOK, AutoComplete
<1>3. OneExchangePerSession' /\ CodexInFlight' /\ OldInTable'
  BY DEF Taken, OneExchangePerSession, CodexInFlight, OldInTable, TypeOK, Working
<1>4. ClaimsHeld'
  BY DEF Taken, ClaimsHeld, Working
<1> QED BY <1>1, <1>2, <1>3, <1>4 DEF Taken

(* So do the steps of the tables and servers.                               *)
LEMMA TableTaken ==
  ASSUME Inv, NEW s, TableStep(s)
  PROVE  Taken'
<1> USE DEF Inv
<1>1. CASE s \in Session /\ EnsureServers(s)
  <2>1. NotYetStarted'
    BY <1>1 DEF EnsureServers, MayStart, Taken, NotYetStarted
  <2> QED BY <1>1, <2>1 DEF EnsureServers, Taken, Matched, CodexInFlight,
                            OldInTable, OneExchangePerSession, ClaimsHeld, Working
<1>2. CASE s \in Session /\ StartSession(s)
  <2>1. session[s] = "new"
    BY <1>2 DEF StartSession, MayStart, Taken, NotYetStarted
  <2>2. UNCHANGED <<handler, old>> /\ session' = [session EXCEPT ![s] = "open"]
        /\ adding' = adding \ {s} /\ s \notin old
    BY <1>2, <2>1 DEF StartSession, Sessioned, Taken, OldInTable
  <2> QED BY <2>1, <2>2, TableKeepsTaken DEF TypeOK
<1>3. CASE s \in Session /\ StartFails(s)
  BY <1>3, TableKeepsTaken DEF StartFails, Sessioned, TypeOK
<1>4. CASE s \in Session /\ Ages(s)
  <2>1. OldInTable'
    BY <1>4 DEF Ages, Taken, OldInTable
  <2> QED BY <1>4, <2>1 DEF Ages, Taken, Matched, NotYetStarted, CodexInFlight,
                            OneExchangePerSession, ClaimsHeld, Working
<1>5. CASE s \in Session /\ Sweep(s)
  <2>1. \A t \in adding : t \notin old
    BY DEF Taken, NotYetStarted, OldInTable
  <2> QED BY <1>5, <2>1, TableKeepsTaken DEF Sweep, TypeOK
<1>6. CASE s \in Session /\ ErrorCallback(s)
  <2>1. s \notin adding
    BY <1>6 DEF ErrorCallback, Taken, NotYetStarted
  <2> QED BY <1>6, <2>1, TableKeepsTaken DEF ErrorCallback, Finalizes, Sessioned, TypeOK
<1>7. CASE StopLooks
  BY <1>7, TableKeepsTaken DEF StopLooks, table
<1>8. CASE StopCloses
  BY <1>8, TableKeepsTaken DEF StopCloses, table
<1> QED BY <1>1, <1>2, <1>3, <1>4, <1>5, <1>6, <1>7, <1>8 DEF TableStep

(* Open servers stay accounted for.                                         *)
LEMMA TableAccounted ==
  ASSUME Inv, NEW s, TableStep(s)
  PROVE  OpenServersAccounted'
<1> USE DEF Inv, OpenServersAccounted, AutoSessions
<1>1. CASE s \in Session /\ EnsureServers(s)
  BY <1>1 DEF EnsureServers
<1>2. CASE s \in Session /\ StartSession(s)
  <2>1. CASE s \in AutoComplete
    BY <1>2, <2>1 DEF StartSession, Sessioned, TypeOK
  <2>2. CASE s \notin AutoComplete
    BY <1>2, <2>2 DEF StartSession, Sessioned, servers, TypeOK
  <2> QED BY <2>1, <2>2
<1>3. CASE s \in Session /\ StartFails(s)
  BY <1>3 DEF StartFails, TypeOK
<1>4. CASE s \in Session /\ Ages(s)
  BY <1>4 DEF Ages, servers
<1>5. CASE s \in Session /\ Sweep(s)
  <2>1. CASE s \in Codex
    BY <1>5, <2>1 DEF Sweep, TypeOK
  <2>2. CASE s \notin Codex
    <3>1. \A t \in AutoComplete : ~SameTable(s, t)
      BY <1>5, <2>2 DEF SameTable, Codex, AutoComplete
    <3>2. \A t \in AutoComplete : session'[t] = session[t]
      BY <1>5, <3>1, LanesApart DEF Sweep, TypeOK
    <3> QED BY <1>5, <2>2, <3>2 DEF Sweep
  <2> QED BY <2>1, <2>2
<1>6. CASE s \in Session /\ ErrorCallback(s)
  BY <1>6 DEF ErrorCallback, Finalizes, TypeOK
<1>7. CASE StopLooks
  BY <1>7 DEF StopLooks, hasPendingAutoCodexSessions, table, TypeOK
<1>8. CASE StopCloses
  BY <1>8 DEF StopCloses
<1> QED BY <1>1, <1>2, <1>3, <1>4, <1>5, <1>6, <1>7, <1>8 DEF TableStep

(* ---- Claims ---- *)

(* A claim takes a session nobody works on.                                 *)
LEMMA ClaimKeepsInv ==
  ASSUME Inv, NEW h \in Handler, Claims(h)
  PROVE  Inv'
<1>1. PICK s \in Session : ClaimCodex(h, s) \/ LookUpClaude(h, s) \/ ClaimGemini(h, s)
  BY DEF Claims
<1>2. CASE ClaimCodex(h, s)
  <2>1. /\ session' = [session EXCEPT ![s] = "inflight"]
        /\ s \in Codex /\ session[s] = "open" /\ handler[h].phase = "idle"
        /\ handler' = [handler EXCEPT ![h] = [@ EXCEPT !.phase = "exchange", !.s = s]]
        /\ UNCHANGED <<old, unspent, adding, sweeps, servers, files>>
    BY <1>2 DEF ClaimCodex, Sessioned, Takes
  <2>2. TypeOK'
    BY <2>1 DEF Inv, TypeOK, servers, Handlers, Tokens, Phases
  <2>3. handler'[h].phase = "exchange" /\ handler'[h].s = s
    BY <2>1 DEF Inv, TypeOK, Handlers
  <2>4. \A g \in Handler : Working(g) => handler[g].s # s
    BY <2>1 DEF Inv, Taken, Matched
  <2>5. \A g \in Handler : g # h => handler'[g] = handler[g]
    BY <2>1 DEF Inv, TypeOK
  <2>6. Matched' /\ OneExchangePerSession'
    BY <2>1, <2>3, <2>4, <2>5, LanesApart
       DEF Inv, TypeOK, Taken, Matched, OneExchangePerSession, Working
  <2>7. ClaimsHeld'
    BY <2>1, <2>3, <2>5 DEF Inv, TypeOK, Taken, ClaimsHeld, Working
  <2>8. NotYetStarted' /\ CodexInFlight' /\ OldInTable'
    BY <2>1 DEF Inv, TypeOK, Taken, NotYetStarted, CodexInFlight, OldInTable
  <2>9. OpenServersAccounted'
    BY <2>1 DEF Inv, TypeOK, OpenServersAccounted, AutoSessions, servers
  <2> QED BY <2>2, <2>6, <2>7, <2>8, <2>9 DEF Inv, Taken
<1>3. CASE LookUpClaude(h, s)
  <2>1. /\ s \in Claude /\ handler[h].phase = "idle"
        /\ handler' = [handler EXCEPT ![h] = [@ EXCEPT !.phase = "exchange", !.s = s]]
        /\ UNCHANGED <<session, old, unspent, adding, sweeps, servers, files>>
    BY <1>3 DEF LookUpClaude, Takes, table
  <2>2. TypeOK'
    BY <2>1 DEF Inv, TypeOK, servers, Handlers, Tokens, Phases
  <2>3. handler'[h].phase = "exchange" /\ handler'[h].s = s
    BY <2>1 DEF Inv, TypeOK, Handlers
  <2>4. \A g \in Handler : g # h => handler'[g] = handler[g]
    BY <2>1 DEF Inv, TypeOK
  <2>5. Matched' /\ OneExchangePerSession' /\ ClaimsHeld'
    BY <2>1, <2>3, <2>4, LanesApart
       DEF Inv, Taken, Matched, OneExchangePerSession, ClaimsHeld, Working
  <2>6. NotYetStarted' /\ CodexInFlight' /\ OldInTable' /\ OpenServersAccounted'
    BY <2>1 DEF Inv, Taken, NotYetStarted, CodexInFlight, OldInTable,
                OpenServersAccounted, AutoSessions, servers
  <2> QED BY <2>2, <2>5, <2>6 DEF Inv, Taken
<1>4. CASE ClaimGemini(h, s)
  <2>1. /\ session' = [session EXCEPT ![s] = "gone"] /\ old' = old \ {s}
        /\ s \in Gemini /\ session[s] = "open" /\ handler[h].phase = "idle"
        /\ \/ UNCHANGED handler
           \/ handler' = [handler EXCEPT ![h] = [@ EXCEPT !.phase = "exchange", !.s = s]]
        /\ UNCHANGED <<unspent, adding, sweeps, servers, files>>
    BY <1>4 DEF ClaimGemini, Sessioned, Takes
  <2>2. TypeOK'
    BY <2>1 DEF Inv, TypeOK, servers, Handlers, Tokens, Phases
  <2>3. handler'[h] = handler[h] \/ (handler'[h].phase = "exchange" /\ handler'[h].s = s)
    BY <2>1 DEF Inv, TypeOK, Handlers
  <2>4. \A g \in Handler : Working(g) => handler[g].s # s
    BY <2>1 DEF Inv, Taken, Matched
  <2>5. \A g \in Handler : g # h => handler'[g] = handler[g]
    BY <2>1 DEF Inv, TypeOK
  <2>6. Matched' /\ OneExchangePerSession'
    BY <2>1, <2>3, <2>4, <2>5, LanesApart
       DEF Inv, TypeOK, Taken, Matched, OneExchangePerSession, Working
  <2>7. ClaimsHeld'
    BY <2>1, <2>3, <2>5 DEF Inv, TypeOK, Taken, ClaimsHeld, Working
  <2>8. NotYetStarted' /\ CodexInFlight' /\ OldInTable'
    BY <2>1 DEF Inv, TypeOK, Taken, NotYetStarted, CodexInFlight, OldInTable
  <2>9. OpenServersAccounted'
    BY <2>1, LanesApart DEF Inv, TypeOK, OpenServersAccounted, AutoSessions, servers
  <2> QED BY <2>2, <2>6, <2>7, <2>8, <2>9 DEF Inv, Taken
<1> QED BY <1>1, <1>2, <1>3, <1>4

(* ---- A working handler's steps ---- *)

(* It keeps its session, which may go meanwhile, or lets it go or reopen.   *)
LEMMA WorkKeepsTaken ==
  ASSUME Inv, NEW h \in Handler, Working(h), adding' = adding,
         \A g \in Handler : g # h => handler'[g] = handler[g],
         Working(h)' =>
           /\ handler'[h].s = handler[h].s
           /\ handler'[h].phase \in {"find", "name", "open", "finalize", "release"}
                => handler[h].s \in Codex
           /\ handler'[h].phase = "remove" => handler[h].s \in Claude,
         \A t \in Session : t # handler[h].s => session'[t] = session[t],
         \/ session'[handler[h].s] \in {session[handler[h].s], "gone"}
         \/ session'[handler[h].s] = "open" /\ ~Working(h)' /\ handler[h].s \in Codex,
         ~Working(h)' => session'[handler[h].s] # "inflight",
         \A t \in old' : t \in old /\ (session'[t] = session[t] \/ session'[t] = "open")
  PROVE  Taken'
<1>1. \A g \in Handler :
         g # h /\ Working(g) /\ handler[g].s = handler[h].s => handler[h].s \in Claude
  BY DEF Inv, Taken, OneExchangePerSession
<1>2. Matched'
  BY <1>1, LanesApart DEF Inv, Taken, Matched, Working
<1>3. NotYetStarted'
  BY LanesApart DEF Inv, TypeOK, Taken, NotYetStarted, Matched
<1>4. CodexInFlight' /\ OldInTable'
  BY DEF Inv, TypeOK, Taken, Matched, CodexInFlight, OldInTable
<1>5. OneExchangePerSession'
  BY DEF Inv, Taken, OneExchangePerSession, Working
<1>6. ClaimsHeld'
  BY <1>1, LanesApart DEF Inv, Taken, Matched, ClaimsHeld, CodexInFlight, Working
<1> QED BY <1>2, <1>3, <1>4, <1>5, <1>6 DEF Taken

(* Goes, WithPath and Ends change one handler within its type.              *)
LEMMA Moves ==
  ASSUME TypeOK, NEW h \in Handler
  PROVE  /\ \A phase \in Phases : Goes(h, phase) =>
              /\ handler' \in [Handler -> Handlers]
              /\ \A g \in Handler : g # h => handler'[g] = handler[g]
              /\ handler'[h].phase = phase /\ handler'[h].s = handler[h].s
         /\ \A phase \in Phases : \A p \in Paths : WithPath(h, phase, p) =>
              /\ handler' \in [Handler -> Handlers]
              /\ \A g \in Handler : g # h => handler'[g] = handler[g]
              /\ handler'[h].phase = phase /\ handler'[h].s = handler[h].s
         /\ Ends(h) =>
              /\ handler' \in [Handler -> Handlers]
              /\ \A g \in Handler : g # h => handler'[g] = handler[g]
              /\ ~Working(h)'
<1>1. ASSUME NEW phase \in Phases, Goes(h, phase)
      PROVE  /\ handler' \in [Handler -> Handlers]
             /\ \A g \in Handler : g # h => handler'[g] = handler[g]
             /\ handler'[h].phase = phase /\ handler'[h].s = handler[h].s
  BY <1>1 DEF Goes, TypeOK, Handlers
<1>2. ASSUME NEW phase \in Phases, NEW p \in Paths, WithPath(h, phase, p)
      PROVE  /\ handler' \in [Handler -> Handlers]
             /\ \A g \in Handler : g # h => handler'[g] = handler[g]
             /\ handler'[h].phase = phase /\ handler'[h].s = handler[h].s
  BY <1>2 DEF WithPath, TypeOK, Handlers
<1>3. ASSUME Ends(h)
      PROVE  /\ handler' \in [Handler -> Handlers]
             /\ \A g \in Handler : g # h => handler'[g] = handler[g]
             /\ ~Working(h)'
  BY <1>3 DEF Ends, Idle, Working, TypeOK, Handlers, Tokens, Phases
<1> QED BY <1>1, <1>2, <1>3

(* A failure ends the handler or makes it give its Codex session back.      *)
LEMMA Failing ==
  ASSUME Inv, NEW h \in Handler, Working(h), Fails(h),
         UNCHANGED <<session, old, adding, listening, sleeping, stopping>>
  PROVE  Taken' /\ handler' \in [Handler -> Handlers] /\ OpenServersAccounted'
<1> DEFINE s == handler[h].s
<1>1. OpenServersAccounted'
  BY DEF Inv, OpenServersAccounted, AutoSessions
<1>2. s \in Session /\ session[s] = "inflight" => s \in Codex
  BY DEF Inv, Taken, Matched, CodexInFlight
<1>3. CASE s \in Codex
  <2>1. Goes(h, "release")
    BY <1>3 DEF Fails
  <2>2. /\ handler' \in [Handler -> Handlers]
        /\ \A g \in Handler : g # h => handler'[g] = handler[g]
        /\ handler'[h].phase = "release" /\ handler'[h].s = handler[h].s
    BY <2>1, Moves DEF Inv, Phases
  <2> QED BY <1>1, <1>3, <2>2, WorkKeepsTaken DEF Working
<1>4. CASE s \notin Codex
  <2>1. Ends(h)
    BY <1>4 DEF Fails
  <2>2. /\ handler' \in [Handler -> Handlers]
        /\ \A g \in Handler : g # h => handler'[g] = handler[g]
        /\ ~Working(h)'
    BY <2>1, Moves DEF Inv
  <2>3. session'[s] # "inflight"
    BY <1>2, <1>4 DEF Inv, Taken, Matched
  <2> QED BY <1>1, <2>2, <2>3, WorkKeepsTaken
<1> QED BY <1>3, <1>4

(* Going on with the session the handler has.                               *)
LEMMA GoingOn ==
  ASSUME Inv, NEW h \in Handler, Working(h), NEW phase \in Phases \ {"idle"},
         Goes(h, phase) \/ \E p \in Paths : WithPath(h, phase, p),
         phase \in {"find", "name", "open", "finalize", "release"} => handler[h].s \in Codex,
         phase = "remove" => handler[h].s \in Claude,
         UNCHANGED <<session, old, adding, listening, sleeping, stopping>>
  PROVE  Taken' /\ handler' \in [Handler -> Handlers] /\ OpenServersAccounted'
<1>1. /\ handler' \in [Handler -> Handlers]
      /\ \A g \in Handler : g # h => handler'[g] = handler[g]
      /\ handler'[h].phase = phase /\ handler'[h].s = handler[h].s
  BY Moves DEF Inv
<1>2. OpenServersAccounted'
  BY DEF Inv, OpenServersAccounted, AutoSessions
<1>3. Taken'
  BY <1>1, WorkKeepsTaken DEF Working
<1> QED BY <1>1, <1>2, <1>3

(* The exchange, the file and the reload leave tables and servers alone.    *)
LEMMA WorkKeepsInv ==
  ASSUME Inv, NEW h \in Handler, Granted(h) \/ NotGranted(h) \/ Saves(h) \/ Reload(h)
  PROVE  Inv'
<1> USE DEF Inv
<1>1. CASE Granted(h)
  <2>1. Working(h) /\ UNCHANGED <<session, old, adding, sweeps, servers, files>>
        /\ unspent' \subseteq unspent
    BY <1>1 DEF Granted, Working
  <2>2. handler[h].s \in Session /\ Own(handler[h].s) \in Paths
    BY <2>1 DEF Taken, Matched, Own, Paths
  <2>3. Taken' /\ handler' \in [Handler -> Handlers] /\ OpenServersAccounted'
    <3>1. CASE handler[h].s \in Codex
      BY <1>1, <2>1, <3>1, GoingOn DEF Granted, Phases, servers
    <3>2. CASE handler[h].s \notin Codex
      BY <1>1, <2>1, <2>2, <3>2, GoingOn DEF Granted, Phases, servers
    <3> QED BY <3>1, <3>2
  <2> QED BY <2>1, <2>3 DEF TypeOK, servers
<1>2. CASE NotGranted(h)
  <2>1. Working(h) /\ Fails(h) /\ UNCHANGED <<session, old, adding, sweeps, servers, files>>
        /\ unspent' \subseteq unspent
    BY <1>2 DEF NotGranted, Working
  <2>2. Taken' /\ handler' \in [Handler -> Handlers] /\ OpenServersAccounted'
    BY <2>1, Failing DEF servers
  <2> QED BY <2>1, <2>2 DEF TypeOK, servers
<1>3. CASE FindExisting(h)
  <2>1. Working(h) /\ handler[h].s \in Codex /\ UNCHANGED <<table, servers, files>>
    BY <1>3 DEF FindExisting, Working, Taken, Matched
  <2>2. Goes(h, "name") \/ \E p \in Paths : WithPath(h, "open", p)
    BY <1>3 DEF FindExisting, FilesOf
  <2>3. Taken' /\ handler' \in [Handler -> Handlers] /\ OpenServersAccounted'
    BY <2>1, <2>2, GoingOn DEF Phases, table, servers
  <2> QED BY <2>1, <2>3 DEF TypeOK, table, servers
<1>4. CASE PickName(h)
  <2>1. Working(h) /\ handler[h].s \in Codex /\ UNCHANGED <<table, servers, files>>
    BY <1>4 DEF PickName, Working, Taken, Matched
  <2>2. \E p \in Paths : WithPath(h, "open", p)
    BY <1>4, <2>1, LanesApart, SignInAssumption DEF PickName, Paths
  <2>3. Taken' /\ handler' \in [Handler -> Handlers] /\ OpenServersAccounted'
    BY <2>1, <2>2, GoingOn DEF Phases, table, servers
  <2> QED BY <2>1, <2>3 DEF TypeOK, table, servers
<1>5. CASE OpenFile(h)
  <2>1. Working(h) /\ Goes(h, "write") /\ UNCHANGED <<table, servers>>
    BY <1>5 DEF OpenFile, Working
  <2>2. Taken' /\ handler' \in [Handler -> Handlers] /\ OpenServersAccounted'
    BY <2>1, GoingOn DEF Phases, table, servers
  <2>3. files' \in [Paths -> Files]
    BY <1>5 DEF OpenFile, TypeOK, Files, Handlers
  <2> QED BY <2>1, <2>2, <2>3 DEF TypeOK, table, servers
<1>6. CASE WriteFile(h)
  <2>1. Working(h) /\ UNCHANGED <<table, servers>>
    BY <1>6 DEF WriteFile, Working
  <2>2. Taken' /\ handler' \in [Handler -> Handlers] /\ OpenServersAccounted'
    <3>1. CASE handler[h].s \in Claude
      BY <1>6, <2>1, <3>1, GoingOn DEF WriteFile, Phases, table, servers
    <3>2. CASE handler[h].s \notin Claude
      BY <1>6, <2>1, <3>2, GoingOn DEF WriteFile, Phases, table, servers
    <3> QED BY <3>1, <3>2
  <2>3. files' \in [Paths -> Files]
    <3>1. PICK whole \in BOOLEAN :
            files' = [files EXCEPT ![handler[h].path] = [by |-> handler[h].s, whole |-> whole]]
      BY <1>6 DEF WriteFile
    <3> QED BY <3>1 DEF TypeOK, Files, Handlers
  <2> QED BY <2>1, <2>2, <2>3 DEF TypeOK, table, servers
<1>7. CASE WriteFails(h)
  <2>1. Working(h) /\ Fails(h) /\ UNCHANGED <<table, servers, files>>
    BY <1>7 DEF WriteFails, Working
  <2>2. Taken' /\ handler' \in [Handler -> Handlers] /\ OpenServersAccounted'
    BY <2>1, Failing DEF table, servers
  <2> QED BY <2>1, <2>2 DEF TypeOK, table, servers
<1>8. CASE Reload(h)
  <2>1. Working(h) /\ UNCHANGED <<table, servers, files>>
    BY <1>8 DEF Reload, Working
  <2>2. Taken' /\ handler' \in [Handler -> Handlers] /\ OpenServersAccounted'
    <3>1. CASE handler[h].s \in Codex
      BY <1>8, <2>1, <3>1, GoingOn DEF Reload, Phases, table, servers
    <3>2. CASE handler[h].s \notin Codex
      BY <1>8, <2>1, <3>2, Failing DEF Reload, Fails, table, servers
    <3> QED BY <3>1, <3>2
  <2> QED BY <2>1, <2>2 DEF TypeOK, table, servers
<1> QED BY <1>1, <1>2, <1>3, <1>4, <1>5, <1>6, <1>7, <1>8 DEF Saves

(* The end of a sign-in: the session goes, or is given back.                *)
LEMMA ConcludesKeepsInv ==
  ASSUME Inv, NEW h \in Handler, RemoveClaude(h) \/ FinalizeCodex(h) \/ Release(h)
  PROVE  Inv'
<1> DEFINE s == handler[h].s
<1> USE DEF Inv
<1>1. Working(h) /\ s \in Session
  BY DEF RemoveClaude, FinalizeCodex, Release, Working, Taken, Matched
<1>2. CASE RemoveClaude(h)
  <2>1. /\ s \in Claude /\ Goes(h, "reload")
        /\ session' = [session EXCEPT ![s] = "gone"] /\ old' = old \ {s}
        /\ UNCHANGED <<unspent, adding, sweeps, servers, files>>
    BY <1>1, <1>2 DEF RemoveClaude, Sessioned, Taken, Matched
  <2>2. /\ handler' \in [Handler -> Handlers]
        /\ \A g \in Handler : g # h => handler'[g] = handler[g]
        /\ handler'[h].phase = "reload" /\ handler'[h].s = s
    BY <2>1, Moves DEF Phases
  <2>3. Taken'
    BY <1>1, <2>1, <2>2, WorkKeepsTaken DEF TypeOK, Working
  <2>4. OpenServersAccounted'
    BY <2>1, LanesApart DEF OpenServersAccounted, AutoSessions, TypeOK, servers
  <2> QED BY <2>1, <2>2, <2>3, <2>4 DEF TypeOK, servers
<1>3. CASE FinalizeCodex(h)
  <2>1. /\ session' = [session EXCEPT ![s] = "gone"] /\ old' = old \ {s}
        /\ Ends(h) /\ sleeping' = sleeping + 1
        /\ UNCHANGED <<unspent, adding, sweeps, listening, stopping, files>>
    BY <1>3 DEF FinalizeCodex, Finalizes, Sessioned
  <2>2. /\ handler' \in [Handler -> Handlers]
        /\ \A g \in Handler : g # h => handler'[g] = handler[g]
        /\ ~Working(h)'
    BY <2>1, Moves
  <2>3. Taken'
    BY <1>1, <2>1, <2>2, WorkKeepsTaken DEF TypeOK
  <2>4. OpenServersAccounted'
    BY <2>1 DEF OpenServersAccounted, TypeOK
  <2>5. sleeping' \in Nat /\ stopping' \in Nat
    BY <2>1 DEF TypeOK
  <2>6. TypeOK'
    BY <2>1, <2>2, <2>5 DEF TypeOK
  <2> QED BY <2>3, <2>4, <2>6
<1>4. CASE Release(h)
  <2>1. /\ s \in Codex /\ Ends(h)
        /\ session' = [session EXCEPT ![s] = IF @ = "inflight" THEN "open" ELSE @]
        /\ UNCHANGED <<old, unspent, adding, sweeps, servers, files>>
    BY <1>1, <1>4 DEF Release, Taken, Matched
  <2>2. /\ handler' \in [Handler -> Handlers]
        /\ \A g \in Handler : g # h => handler'[g] = handler[g]
        /\ ~Working(h)'
    BY <2>1, Moves
  <2>3. \/ session'[s] = "open"
        \/ session'[s] = session[s] /\ session[s] # "inflight"
    BY <1>1, <2>1 DEF TypeOK
  <2>4. \A t \in Session : t # s => session'[t] = session[t]
    BY <1>1, <2>1 DEF TypeOK
  <2>5. Taken'
    BY <1>1, <2>1, <2>2, <2>3, <2>4, WorkKeepsTaken DEF TypeOK
  <2>6. OpenServersAccounted'
    <3>1. \A t \in AutoSessions : t \in AutoSessions'
      BY <2>1, LanesApart DEF AutoSessions, TypeOK
    <3> QED BY <2>1, <3>1 DEF OpenServersAccounted, servers
  <2>7. session' \in [Session -> {"new", "open", "inflight", "gone"}]
    BY <2>1 DEF TypeOK
  <2>8. TypeOK'
    BY <2>1, <2>2, <2>7 DEF TypeOK, servers
  <2> QED BY <2>5, <2>6, <2>8
<1> QED BY <1>2, <1>3, <1>4

(* ---- The theorems ---- *)

(* Every step keeps the invariant.                                          *)
LEMMA NextKeepsInv == Inv /\ [Next]_vars => Inv'
<1> SUFFICES ASSUME Inv, [Next]_vars PROVE Inv'
  OBVIOUS
<1>1. CASE \E s \in Session : Begins(s) \/ Ages(s) \/ Sweep(s) \/ ErrorCallback(s)
  BY <1>1, TableTypes, TableTaken, TableAccounted DEF Inv, Begins, TableStep
<1>2. CASE StopLooks \/ StopCloses
  BY <1>2, TableTypes, TableTaken, TableAccounted DEF Inv, TableStep
<1>3. ASSUME NEW h \in Handler,
             Claims(h) \/ Granted(h) \/ NotGranted(h) \/ Saves(h) \/ Concludes(h)
      PROVE  Inv'
  BY <1>3, ClaimKeepsInv, WorkKeepsInv, ConcludesKeepsInv DEF Concludes
<1>4. CASE UNCHANGED vars
  BY <1>4 DEF vars, table, servers, Inv, TypeOK, Taken, Matched, NotYetStarted,
              CodexInFlight, OldInTable, OneExchangePerSession, ClaimsHeld,
              OpenServersAccounted, AutoSessions, Working
<1> QED BY <1>1, <1>2, <1>3, <1>4 DEF Next

(* The inductive invariant of the sign-in sessions.                         *)
THEOREM SignInInvariant == Spec => []Inv
BY Initially, NextKeepsInv, PTL DEF Spec

(* Sessions, servers, files and handlers keep their types.                  *)
THEOREM SignInTyped == Spec => []TypeOK
<1>1. Inv => TypeOK
  BY DEF Inv
<1> QED BY <1>1, SignInInvariant, PTL

(* No Codex or Gemini session is exchanged by two handlers at once.         *)
THEOREM ExchangesApart == Spec => []OneExchangePerSession
<1>1. Inv => OneExchangePerSession
  BY DEF Inv, Taken
<1> QED BY <1>1, SignInInvariant, PTL

(* A session marked InFlight is in the hands of a handler.                  *)
THEOREM ClaimsNeverStranded == Spec => []ClaimsHeld
<1>1. Inv => ClaimsHeld
  BY DEF Inv, Taken
<1> QED BY <1>1, SignInInvariant, PTL

(* Open loopback servers have a session, a request or a closer.             *)
THEOREM ServersAccounted == Spec => []OpenServersAccounted
<1>1. Inv => OpenServersAccounted
  BY DEF Inv
<1> QED BY <1>1, SignInInvariant, PTL
-----------------------------------------------------------------------------
(* Sign-in implements SessionExchange: each step of a handler, a sweep or a *)
(* server, seen through ExchangeStatus, ExchangeHold and ExchangeSpent, is  *)
(* a step of the abstract specification or leaves its variables alone.  The *)
(* invariant is what makes the holder of a session unique.                  *)

(* Who holds a session, and that nobody does.                               *)
LEMMA Holder ==
  ASSUME Inv
  PROVE  /\ \A h \in Handler : Working(h) /\ handler[h].s \in Exclusive =>
              ExchangeHold[handler[h].s] = Promised!Held(h, StageOf(handler[h].phase))
         /\ \A s \in Exclusive : (\A h \in Handler : Working(h) => handler[h].s # s) =>
              ExchangeHold[s] = Promised!Free
<1>1. ASSUME NEW h \in Handler, Working(h), handler[h].s \in Exclusive
      PROVE  ExchangeHold[handler[h].s] = Promised!Held(h, StageOf(handler[h].phase))
  <2>1. HandlersOf(handler[h].s) = {h}
    BY <1>1 DEF HandlersOf, Inv, Taken, OneExchangePerSession, Exclusive
  <2>2. (CHOOSE g \in HandlersOf(handler[h].s) : TRUE) = h
    BY <2>1
  <2> QED BY <1>1, <2>1, <2>2 DEF ExchangeHold, Promised!Held
<1>2. ASSUME NEW s \in Exclusive, \A h \in Handler : Working(h) => handler[h].s # s
      PROVE  ExchangeHold[s] = Promised!Free
  BY <1>2 DEF HandlersOf, ExchangeHold, Promised!Free
<1> QED BY <1>1, <1>2

(* A step of one handler leaves the other sessions with whom they were.     *)
LEMMA OthersKeep ==
  ASSUME NEW h \in Handler, NEW s,
         \A g \in Handler : g # h => handler'[g] = handler[g],
         Working(h) => handler[h].s = s,
         Working(h)' => handler'[h].s = s
  PROVE  \A t \in Exclusive : t # s => ExchangeHold'[t] = ExchangeHold[t]
<1> SUFFICES ASSUME NEW t \in Exclusive, t # s
             PROVE  ExchangeHold'[t] = ExchangeHold[t]
  OBVIOUS
<1>1. \A g \in Handler : (Working(g) /\ handler[g].s = t) <=> (Working(g) /\ handler[g].s = t)'
  BY DEF Working
<1>2. HandlersOf(t)' = HandlersOf(t)
  BY <1>1 DEF HandlersOf
<1>3. \A g \in HandlersOf(t) : handler'[g] = handler[g]
  BY DEF HandlersOf
<1> DEFINE c == CHOOSE g \in HandlersOf(t) : TRUE
<1>4. HandlersOf(t) # {} => c \in HandlersOf(t)
  OBVIOUS
<1>5. CASE HandlersOf(t) = {}
  BY <1>2, <1>5 DEF ExchangeHold
<1>6. CASE HandlersOf(t) # {}
  <2>1. handler'[c] = handler[c]
    BY <1>3, <1>4, <1>6
  <2> HIDE DEF c
  <2>2. ExchangeHold[t] = [by |-> c, stage |-> StageOf(handler[c].phase)]
    BY <1>6 DEF ExchangeHold, c
  <2>3. ExchangeHold'[t] = [by |-> c, stage |-> StageOf(handler'[c].phase)]
    BY <1>2, <1>6 DEF ExchangeHold, c
  <2> QED BY <2>1, <2>2, <2>3
<1> QED BY <1>5, <1>6

(* A handler that goes on keeps its session, one stage further or not.      *)
LEMMA HolderGoesOn ==
  ASSUME Inv, Inv', NEW h \in Handler, NEW s, Working(h), Working(h)',
         handler[h].s = s, handler'[h].s = s,
         \A g \in Handler : g # h => handler'[g] = handler[g]
  PROVE  ExchangeHold' = IF s \in Exclusive
                         THEN [ExchangeHold EXCEPT ![s] = Promised!Held(@.by, StageOf(handler'[h].phase))]
                         ELSE ExchangeHold
<1>1. \A t \in Exclusive : t # s => ExchangeHold'[t] = ExchangeHold[t]
  BY OthersKeep
<1>2. ASSUME s \in Exclusive
      PROVE  ExchangeHold'[s] = Promised!Held(ExchangeHold[s].by, StageOf(handler'[h].phase))
  <2>1. ExchangeHold[s] = Promised!Held(h, StageOf(handler[h].phase))
    BY <1>2, Holder
  <2>2. HandlersOf(s)' = {h}
    BY <1>2 DEF HandlersOf, Working, Inv, Taken, OneExchangePerSession, Exclusive
  <2>3. (CHOOSE g \in {h} : TRUE) = h
    OBVIOUS
  <2>4. ExchangeHold'[s] = Promised!Held(h, StageOf(handler'[h].phase))
    BY <1>2, <2>2, <2>3 DEF ExchangeHold, Promised!Held
  <2> QED BY <2>1, <2>4 DEF Promised!Held
<1> DEFINE held == Promised!Held(ExchangeHold[s].by, StageOf(handler'[h].phase))
<1> HIDE DEF held
<1>3. s \in Exclusive => ExchangeHold'[s] = held
  BY <1>2 DEF held
<1>4. ExchangeHold' = IF s \in Exclusive THEN [ExchangeHold EXCEPT ![s] = held] ELSE ExchangeHold
  BY <1>1, <1>3 DEF ExchangeHold
<1> QED BY <1>4 DEF held

(* A handler that ends leaves its session to nobody.                        *)
LEMMA HolderLeaves ==
  ASSUME Inv, NEW h \in Handler, NEW s, Working(h), ~Working(h)', handler[h].s = s,
         \A g \in Handler : g # h => handler'[g] = handler[g]
  PROVE  ExchangeHold' = IF s \in Exclusive
                         THEN [ExchangeHold EXCEPT ![s] = Promised!Free]
                         ELSE ExchangeHold
<1>1. \A t \in Exclusive : t # s => ExchangeHold'[t] = ExchangeHold[t]
  BY OthersKeep
<1>2. ASSUME s \in Exclusive
      PROVE  ExchangeHold'[s] = Promised!Free
  <2>1. HandlersOf(s)' = {}
    BY <1>2 DEF HandlersOf, Working, Inv, Taken, OneExchangePerSession, Exclusive
  <2> QED BY <1>2, <2>1 DEF ExchangeHold, Promised!Free
<1> QED BY <1>1, <1>2 DEF ExchangeHold

(* A handler that begins takes a session nobody works on.                   *)
LEMMA HolderComes ==
  ASSUME Inv', NEW h \in Handler, NEW s, ~Working(h), Working(h)', handler'[h].s = s,
         \A g \in Handler : g # h => handler'[g] = handler[g]
  PROVE  ExchangeHold' = IF s \in Exclusive
                         THEN [ExchangeHold EXCEPT ![s] = Promised!Held(h, StageOf(handler'[h].phase))]
                         ELSE ExchangeHold
<1>1. \A t \in Exclusive : t # s => ExchangeHold'[t] = ExchangeHold[t]
  BY OthersKeep
<1>2. ASSUME s \in Exclusive
      PROVE  ExchangeHold'[s] = Promised!Held(h, StageOf(handler'[h].phase))
  <2>1. HandlersOf(s)' = {h}
    BY <1>2 DEF HandlersOf, Working, Inv, Taken, OneExchangePerSession, Exclusive
  <2>2. (CHOOSE g \in {h} : TRUE) = h
    OBVIOUS
  <2> QED BY <1>2, <2>1, <2>2 DEF ExchangeHold, Promised!Held
<1> QED BY <1>1, <1>2 DEF ExchangeHold

(* Steps of the tables and servers open or withdraw sessions.               *)
LEMMA TableRefines ==
  ASSUME Inv, NEW s, TableStep(s)
  PROVE  [Promised!Next]_(Promised!vars)
<1>1. handler' = handler /\ unspent' = unspent
  BY DEF TableStep, EnsureServers, StartSession, StartFails, Ages, Sweep,
         ErrorCallback, StopLooks, StopCloses, table, servers
<1>2. ExchangeHold' = ExchangeHold /\ ExchangeSpent' = ExchangeSpent
  BY <1>1 DEF ExchangeHold, ExchangeSpent, HandlersOf, Working
<1>3. ASSUME NEW S \in SUBSET Exclusive,
             \A t \in Exclusive : session'[t] = IF t \in S THEN "gone" ELSE session[t]
      PROVE  Promised!Next
  <2>1. Promised!Withdraw(S)
    BY <1>2, <1>3 DEF Promised!Withdraw, ExchangeStatus
  <2> QED BY <2>1 DEF Promised!Next
<1>4. ASSUME session' = session
      PROVE  UNCHANGED Promised!vars
  BY <1>2, <1>4 DEF Promised!vars, ExchangeStatus
<1>5. CASE s \in Session /\ StartSession(s)
  <2>1. session[s] = "new" /\ session' = [session EXCEPT ![s] = "open"]
    BY <1>5 DEF StartSession, Sessioned, MayStart, Inv, Taken, NotYetStarted
  <2>2. CASE s \in Exclusive
    <3>1. Promised!Open(s)
      BY <1>2, <2>1, <2>2 DEF Promised!Open, ExchangeStatus, Exclusive, Inv, TypeOK
    <3> QED BY <2>2, <3>1 DEF Promised!Next
  <2>3. CASE s \notin Exclusive
    BY <1>2, <2>1, <2>3 DEF Promised!vars, ExchangeStatus, Exclusive, Inv, TypeOK
  <2> QED BY <2>2, <2>3
<1>6. CASE s \in Session /\ (StartFails(s) \/ ErrorCallback(s))
  <2>1. session' = [session EXCEPT ![s] = "gone"]
    BY <1>6 DEF StartFails, ErrorCallback, Finalizes, Sessioned
  <2>2. \A t \in Exclusive : session'[t] = IF t \in {s} \cap Exclusive THEN "gone" ELSE session[t]
    BY <1>6, <2>1 DEF Inv, TypeOK, Exclusive
  <2> QED BY <1>3, <2>2
<1>7. CASE s \in Session /\ Sweep(s)
  <2>1. \A t \in Exclusive :
          session'[t] = IF t \in {u \in Exclusive : u \in old /\ SameTable(s, u)}
                        THEN "gone" ELSE session[t]
    BY <1>7 DEF Sweep, Exclusive
  <2> QED BY <1>3, <2>1
<1>8. CASE s \in Session /\ (EnsureServers(s) \/ Ages(s))
  BY <1>4, <1>8 DEF EnsureServers, Ages
<1>9. CASE StopLooks \/ StopCloses
  BY <1>4, <1>9 DEF StopLooks, StopCloses, table
<1> QED BY <1>5, <1>6, <1>7, <1>8, <1>9 DEF TableStep

(* A claim takes an open session that nobody has.                           *)
LEMMA ClaimRefines ==
  ASSUME Inv, Inv', NEW h \in Handler, Claims(h)
  PROVE  [Promised!Next]_(Promised!vars)
<1>1. PICK s \in Session : ClaimCodex(h, s) \/ LookUpClaude(h, s) \/ ClaimGemini(h, s)
  BY DEF Claims
<1>2. ~Working(h) /\ session[s] = "open" /\ unspent' = unspent
  BY <1>1 DEF ClaimCodex, LookUpClaude, ClaimGemini, Working, table
<1>3. ExchangeSpent' = ExchangeSpent
  BY <1>2 DEF ExchangeSpent
<1>4. ASSUME Takes(h, s)
      PROVE  /\ \A g \in Handler : g # h => handler'[g] = handler[g]
             /\ Working(h)' /\ handler'[h].s = s /\ handler'[h].phase = "exchange"
  BY <1>4 DEF Takes, Working, Inv, TypeOK, Handlers
<1>5. StageOf("exchange") = "exchange"
  BY DEF StageOf
<1>6. ASSUME s \in Exclusive, Takes(h, s), NEW to \in {"inflight", "gone"},
             session' = [session EXCEPT ![s] = to]
      PROVE  Promised!Next
  <2>1. ExchangeHold' = [ExchangeHold EXCEPT ![s] = Promised!Held(h, "exchange")]
    BY <1>2, <1>4, <1>5, <1>6, HolderComes
  <2>2. \A g \in Handler : Working(g) => handler[g].s # s
    BY <1>2, <1>6, LanesApart DEF Inv, Taken, Matched, Exclusive
  <2>3. ExchangeHold[s] = Promised!Free
    BY <1>6, <2>2, Holder
  <2>4. ExchangeStatus[s] = "open" /\ ExchangeStatus' = [ExchangeStatus EXCEPT ![s] = to]
    BY <1>2, <1>6 DEF ExchangeStatus, Exclusive, Inv, TypeOK
  <2>5. Promised!Claim(h, s)
    BY <1>3, <2>1, <2>3, <2>4 DEF Promised!Claim
  <2> QED BY <1>6, <2>5 DEF Promised!Next
<1>7. CASE ClaimCodex(h, s)
  BY <1>6, <1>7, LanesApart DEF ClaimCodex, Sessioned, Exclusive
<1>8. CASE LookUpClaude(h, s)
  <2>1. s \notin Exclusive /\ Takes(h, s) /\ session' = session
    BY <1>8 DEF LookUpClaude, Exclusive, table
  <2>2. ExchangeHold' = ExchangeHold
    BY <1>2, <1>4, <2>1, HolderComes
  <2> QED BY <1>3, <2>1, <2>2 DEF Promised!vars, ExchangeStatus
<1>9. CASE ClaimGemini(h, s)
  <2>1. s \in Exclusive /\ session' = [session EXCEPT ![s] = "gone"]
    BY <1>9, LanesApart DEF ClaimGemini, Sessioned, Exclusive
  <2>2. CASE s \in old
    <3>1. handler' = handler
      BY <1>9, <2>2 DEF ClaimGemini
    <3>2. ExchangeHold' = ExchangeHold
      BY <3>1 DEF ExchangeHold, HandlersOf, Working
    <3>3. Promised!Withdraw({s})
      BY <1>3, <2>1, <3>2 DEF Promised!Withdraw, ExchangeStatus, Exclusive, Inv, TypeOK
    <3> QED BY <2>1, <3>3 DEF Promised!Next
  <2>3. CASE s \notin old
    BY <1>6, <1>9, <2>1, <2>3 DEF ClaimGemini
  <2> QED BY <2>2, <2>3
<1> QED BY <1>1, <1>7, <1>8, <1>9

(* Work on a Claude session is nothing to the promise.                      *)
LEMMA OtherLane ==
  ASSUME Inv, Inv', NEW h \in Handler, Working(h), handler[h].s \notin Exclusive,
         \A g \in Handler : g # h => handler'[g] = handler[g],
         ~Working(h)' \/ (Working(h)' /\ handler'[h].s = handler[h].s),
         \A t \in Exclusive : session'[t] = session[t],
         unspent' = unspent \/ unspent' = unspent \ {handler[h].s}
  PROVE  UNCHANGED Promised!vars
<1>1. ExchangeHold' = ExchangeHold
  BY HolderGoesOn, HolderLeaves
<1>2. ExchangeStatus' = ExchangeStatus /\ ExchangeSpent' = ExchangeSpent
  BY DEF ExchangeStatus, ExchangeSpent
<1> QED BY <1>1, <1>2 DEF Promised!vars

(* A failure puts the session down, or is about to.                         *)
LEMMA FailureRefines ==
  ASSUME Inv, Inv', NEW h \in Handler, Fails(h), session' = session,
         handler[h].phase \in {"exchange", "open", "write"},
         \/ unspent' = unspent
         \/ handler[h].phase = "exchange" /\ unspent' = unspent \ {handler[h].s}
  PROVE  [Promised!Next]_(Promised!vars)
<1> DEFINE s == handler[h].s
<1>1. Working(h) /\ s \in Session
  BY DEF Working, Inv, Taken, Matched
<1>2. CASE s \in Codex
  <2>1. Goes(h, "release") /\ s \in Exclusive
    BY <1>1, <1>2, LanesApart DEF Fails, Exclusive
  <2>2. /\ \A g \in Handler : g # h => handler'[g] = handler[g]
        /\ handler'[h].phase = "release" /\ handler'[h].s = s /\ Working(h)'
    BY <2>1, Moves DEF Inv, Phases, Working
  <2>3. ExchangeHold' = [ExchangeHold EXCEPT ![s] = Promised!Held(@.by, "release")]
    BY <1>1, <2>1, <2>2, HolderGoesOn DEF StageOf
  <2>4. ExchangeHold[s].stage \in {"exchange", "store"}
        /\ (handler[h].phase = "exchange" => ExchangeHold[s].stage = "exchange")
    <3>1. ExchangeHold[s] = Promised!Held(h, StageOf(handler[h].phase))
      BY <1>1, <2>1, Holder
    <3> QED BY <3>1 DEF Promised!Held, StageOf
  <2>5. ExchangeSpent' = ExchangeSpent
        \/ (handler[h].phase = "exchange" /\ ExchangeSpent' = ExchangeSpent \cup {s})
    BY <2>1 DEF ExchangeSpent
  <2>6. ExchangeStatus' = ExchangeStatus
    BY DEF ExchangeStatus
  <2>7. Promised!Fail(s)
    BY <2>3, <2>4, <2>5, <2>6 DEF Promised!Fail
  <2> QED BY <2>1, <2>7 DEF Promised!Next
<1>3. CASE s \in Gemini
  <2>1. Ends(h) /\ s \in Exclusive /\ session[s] = "gone"
    BY <1>1, <1>3, LanesApart DEF Fails, Exclusive, Inv, Taken, Matched
  <2>2. (\A g \in Handler : g # h => handler'[g] = handler[g]) /\ ~Working(h)'
    BY <2>1, Moves DEF Inv
  <2>3. ExchangeHold' = [ExchangeHold EXCEPT ![s] = Promised!Free]
    BY <1>1, <2>1, <2>2, HolderLeaves
  <2>4. ExchangeHold[s].stage \in {"exchange", "store"}
        /\ (handler[h].phase = "exchange" => ExchangeHold[s].stage = "exchange")
    <3>1. ExchangeHold[s] = Promised!Held(h, StageOf(handler[h].phase))
      BY <1>1, <2>1, Holder
    <3> QED BY <3>1 DEF Promised!Held, StageOf
  <2>5. ExchangeSpent' = ExchangeSpent
        \/ (handler[h].phase = "exchange" /\ ExchangeSpent' = ExchangeSpent \cup {s})
    BY <2>1 DEF ExchangeSpent
  <2>6. ExchangeStatus' = ExchangeStatus /\ ExchangeStatus[s] = "gone"
    BY <2>1 DEF ExchangeStatus
  <2>7. Promised!Fail(s)
    BY <2>3, <2>4, <2>5, <2>6 DEF Promised!Fail
  <2> QED BY <2>1, <2>7 DEF Promised!Next
<1>4. CASE s \in Claude
  <2>1. Ends(h) /\ s \notin Exclusive
    BY <1>4, LanesApart DEF Fails, Exclusive
  <2>2. (\A g \in Handler : g # h => handler'[g] = handler[g]) /\ ~Working(h)'
    BY <2>1, Moves DEF Inv
  <2> QED BY <1>1, <2>1, <2>2, OtherLane
<1> QED BY <1>1, <1>2, <1>3, <1>4, LanesApart

(* Going on: the exchange is answered, the account is stored, or neither.   *)
LEMMA GoingOnRefines ==
  ASSUME Inv, Inv', NEW h \in Handler, NEW phase \in Phases \ {"idle"}, Working(h),
         Goes(h, phase) \/ \E p \in Paths : WithPath(h, phase, p),
         session' = session,
         LET from == StageOf(handler[h].phase)
             to == StageOf(phase) IN
         \/ from = to /\ unspent' = unspent
         \/ from = "store" /\ to = "finish" /\ unspent' = unspent
         \/ /\ from = "exchange" /\ to = "store" /\ handler[h].s \in unspent
            /\ unspent' = unspent \ {handler[h].s}
  PROVE  [Promised!Next]_(Promised!vars)
<1> DEFINE s == handler[h].s
           from == StageOf(handler[h].phase)
           to == StageOf(phase)
<1>1. s \in Session
  BY DEF Inv, Taken, Matched
<1>2. /\ \A g \in Handler : g # h => handler'[g] = handler[g]
      /\ handler'[h].phase = phase /\ handler'[h].s = s /\ Working(h)'
  BY Moves DEF Inv, Working
<1>3. CASE s \notin Exclusive
  BY <1>2, <1>3, OtherLane
<1>4. CASE s \in Exclusive
  <2>1. ExchangeHold' = [ExchangeHold EXCEPT ![s] = Promised!Held(@.by, to)]
    BY <1>2, <1>4, HolderGoesOn
  <2>2. ExchangeHold[s] = Promised!Held(h, from)
    BY <1>4, Holder
  <2>3. ExchangeStatus' = ExchangeStatus
    BY DEF ExchangeStatus
  <2>4. CASE from = to /\ unspent' = unspent
    <3>1. ExchangeHold' = ExchangeHold
      BY <1>4, <2>1, <2>2, <2>4 DEF ExchangeHold, Promised!Held
    <3> QED BY <2>3, <2>4, <3>1 DEF Promised!vars, ExchangeSpent
  <2>5. CASE from = "store" /\ to = "finish" /\ unspent' = unspent
    <3>1. Promised!Store(s)
      BY <2>1, <2>2, <2>3, <2>5 DEF Promised!Store, Promised!Held, ExchangeSpent
    <3> QED BY <1>4, <3>1 DEF Promised!Next
  <2>6. CASE /\ from = "exchange" /\ to = "store" /\ s \in unspent
             /\ unspent' = unspent \ {s}
    <3>1. s \notin ExchangeSpent /\ ExchangeSpent' = ExchangeSpent \cup {s}
      BY <1>4, <2>6 DEF ExchangeSpent
    <3>2. Promised!Exchange(s)
      BY <2>1, <2>2, <2>3, <2>6, <3>1 DEF Promised!Exchange, Promised!Held
    <3> QED BY <1>4, <3>2 DEF Promised!Next
  <2> QED BY <2>4, <2>5, <2>6
<1> QED BY <1>3, <1>4

(* The exchange, the file and the reload.                                   *)
LEMMA WorkRefines ==
  ASSUME Inv, Inv', NEW h \in Handler, Granted(h) \/ NotGranted(h) \/ Saves(h) \/ Reload(h)
  PROVE  [Promised!Next]_(Promised!vars)
<1> DEFINE s == handler[h].s
<1>1. Working(h) /\ s \in Session /\ session' = session
  BY DEF Granted, NotGranted, Saves, Reload, FindExisting, PickName, OpenFile, WriteFile,
         WriteFails, Working, Inv, Taken, Matched, table
<1>2. CASE Granted(h)
  <2>1. Own(s) \in Paths
    BY <1>1 DEF Own, Paths
  <2>2. \E phase \in {"find", "write"} :
          Goes(h, phase) \/ \E p \in Paths : WithPath(h, phase, p)
    BY <1>2, <2>1 DEF Granted
  <2>3. /\ handler[h].phase = "exchange" /\ s \in unspent
        /\ unspent' = unspent \ {s}
    BY <1>2 DEF Granted
  <2> QED BY <1>1, <2>2, <2>3, GoingOnRefines DEF StageOf, Phases
<1>3. CASE NotGranted(h)
  BY <1>1, <1>3, FailureRefines DEF NotGranted
<1>4. CASE FindExisting(h) \/ PickName(h) \/ OpenFile(h)
  <2>1. unspent' = unspent /\ handler[h].phase \in {"find", "name", "open"}
    BY <1>4 DEF FindExisting, PickName, OpenFile, table
  <2>2. \E phase \in {"name", "open", "write"} :
          Goes(h, phase) \/ \E p \in Paths : WithPath(h, phase, p)
    <3>1. CASE FindExisting(h)
      BY <3>1 DEF FindExisting, FilesOf
    <3>2. CASE PickName(h)
      <4>1. s \in Codex
        BY <3>2 DEF PickName, Inv, Taken, Matched, Working
      <4> QED BY <3>2, <4>1, <1>1, SignInAssumption DEF PickName, Paths
    <3>3. CASE OpenFile(h)
      BY <3>3 DEF OpenFile
    <3> QED BY <1>4, <3>1, <3>2, <3>3
  <2> QED BY <1>1, <2>1, <2>2, GoingOnRefines DEF StageOf, Phases
<1>5. CASE WriteFile(h)
  <2>1. unspent' = unspent /\ handler[h].phase = "write"
        /\ (Goes(h, "remove") \/ Goes(h, "reload"))
    BY <1>5 DEF WriteFile, table
  <2> QED BY <1>1, <2>1, GoingOnRefines DEF StageOf, Phases
<1>6. CASE WriteFails(h)
  BY <1>1, <1>6, FailureRefines DEF WriteFails, table
<1>7. CASE Reload(h)
  <2>1. unspent' = unspent /\ handler[h].phase = "reload"
    BY <1>7 DEF Reload, table
  <2>2. CASE s \in Codex
    <3>1. Goes(h, "finalize")
      BY <1>7, <2>2 DEF Reload
    <3> QED BY <1>1, <2>1, <3>1, GoingOnRefines DEF StageOf, Phases
  <2>3. CASE s \notin Codex
    <3>1. Ends(h)
      BY <1>7, <2>3 DEF Reload
    <3>2. (\A g \in Handler : g # h => handler'[g] = handler[g]) /\ ~Working(h)'
      BY <3>1, Moves DEF Inv
    <3>3. CASE s \in Exclusive
      <4>1. session[s] = "gone"
        BY <1>1, <2>3, <3>3, LanesApart DEF Exclusive, Inv, Taken, Matched
      <4>2. ExchangeHold' = [ExchangeHold EXCEPT ![s] = Promised!Free]
        BY <1>1, <3>2, <3>3, HolderLeaves
      <4>3. ExchangeHold[s].stage = "finish"
        <5>1. ExchangeHold[s] = Promised!Held(h, StageOf("reload"))
          BY <1>1, <2>1, <3>3, Holder
        <5> QED BY <5>1 DEF Promised!Held, StageOf
      <4>4. ExchangeStatus' = [ExchangeStatus EXCEPT ![s] = "gone"]
        BY <1>1, <3>3, <4>1 DEF ExchangeStatus
      <4>5. Promised!Finish(s)
        BY <2>1, <4>2, <4>3, <4>4 DEF Promised!Finish, ExchangeSpent
      <4> QED BY <3>3, <4>5 DEF Promised!Next
    <3>4. CASE s \notin Exclusive
      BY <1>1, <2>1, <3>2, <3>4, OtherLane
    <3> QED BY <3>3, <3>4
  <2> QED BY <2>2, <2>3
<1> QED BY <1>2, <1>3, <1>4, <1>5, <1>6, <1>7 DEF Saves

(* The end of a sign-in.                                                    *)
LEMMA ConcludesRefines ==
  ASSUME Inv, Inv', NEW h \in Handler, RemoveClaude(h) \/ FinalizeCodex(h) \/ Release(h)
  PROVE  [Promised!Next]_(Promised!vars)
<1> DEFINE s == handler[h].s
<1>1. Working(h) /\ s \in Session /\ unspent' = unspent
  BY DEF RemoveClaude, FinalizeCodex, Release, Working, Inv, Taken, Matched
<1>2. CASE RemoveClaude(h)
  <2>1. /\ s \in Claude /\ Goes(h, "reload")
        /\ session' = [session EXCEPT ![s] = "gone"]
    BY <1>1, <1>2 DEF RemoveClaude, Sessioned, Inv, Taken, Matched
  <2>2. /\ \A g \in Handler : g # h => handler'[g] = handler[g]
        /\ handler'[h].s = s /\ Working(h)'
    BY <2>1, Moves DEF Inv, Phases, Working
  <2>3. s \notin Exclusive /\ \A t \in Exclusive : session'[t] = session[t]
    BY <2>1 DEF Exclusive, Inv, TypeOK
  <2> QED BY <1>1, <2>2, <2>3, OtherLane
<1>3. CASE FinalizeCodex(h) \/ Release(h)
  <2>1. s \in Exclusive /\ Ends(h)
    BY <1>1, <1>3, LanesApart DEF FinalizeCodex, Release, Exclusive, Inv, Taken, Matched
  <2>2. (\A g \in Handler : g # h => handler'[g] = handler[g]) /\ ~Working(h)'
    BY <2>1, Moves DEF Inv
  <2>3. ExchangeHold' = [ExchangeHold EXCEPT ![s] = Promised!Free]
    BY <1>1, <2>1, <2>2, HolderLeaves
  <2>4. ExchangeHold[s] = Promised!Held(h, StageOf(handler[h].phase))
    BY <1>1, <2>1, Holder
  <2>5. ExchangeSpent' = ExchangeSpent
    BY <1>1 DEF ExchangeSpent
  <2>6. CASE FinalizeCodex(h)
    <3>1. ExchangeStatus' = [ExchangeStatus EXCEPT ![s] = "gone"]
      BY <2>1, <2>6 DEF FinalizeCodex, Finalizes, Sessioned, ExchangeStatus, Exclusive, Inv, TypeOK
    <3>2. ExchangeHold[s].stage = "finish"
      BY <2>4, <2>6 DEF FinalizeCodex, StageOf, Promised!Held
    <3>3. Promised!Finish(s)
      BY <2>3, <2>5, <3>1, <3>2 DEF Promised!Finish
    <3> QED BY <2>1, <3>3 DEF Promised!Next
  <2>7. CASE Release(h)
    <3>1. ExchangeStatus' = [ExchangeStatus EXCEPT ![s] = IF @ = "inflight" THEN "open" ELSE @]
      BY <2>1, <2>7 DEF Release, ExchangeStatus, Exclusive, Inv, TypeOK
    <3>2. ExchangeHold[s].stage = "release"
      BY <2>4, <2>7 DEF Release, StageOf, Promised!Held
    <3>3. Promised!Release(s)
      BY <2>3, <2>5, <3>1, <3>2 DEF Promised!Release
    <3> QED BY <2>1, <3>3 DEF Promised!Next
  <2> QED BY <1>3, <2>6, <2>7
<1> QED BY <1>2, <1>3

(* Every step of the sign-in is a step of its promise, or none.             *)
LEMMA NextRefines == Inv /\ Inv' /\ [Next]_vars => [Promised!Next]_(Promised!vars)
<1> SUFFICES ASSUME Inv, Inv', [Next]_vars PROVE [Promised!Next]_(Promised!vars)
  OBVIOUS
<1>1. CASE \E s \in Session : Begins(s) \/ Ages(s) \/ Sweep(s) \/ ErrorCallback(s)
  BY <1>1, TableRefines DEF Begins, TableStep
<1>2. CASE StopLooks \/ StopCloses
  BY <1>2, TableRefines DEF TableStep
<1>3. ASSUME NEW h \in Handler,
             Claims(h) \/ Granted(h) \/ NotGranted(h) \/ Saves(h) \/ Concludes(h)
      PROVE  [Promised!Next]_(Promised!vars)
  BY <1>3, ClaimRefines, WorkRefines, ConcludesRefines DEF Concludes
<1>4. CASE UNCHANGED vars
  <2>1. session' = session /\ unspent' = unspent /\ handler' = handler
    BY <1>4 DEF vars, table
  <2> QED BY <2>1 DEF Promised!vars, ExchangeStatus, ExchangeHold, ExchangeSpent, HandlersOf, Working
<1> QED BY <1>1, <1>2, <1>3, <1>4 DEF Next

LEMMA InitRefines == Init => Promised!Init
<1> SUFFICES ASSUME Init PROVE Promised!Init
  OBVIOUS
<1>1. ExchangeStatus = [s \in Exclusive |-> "new"]
  BY DEF Init, ExchangeStatus, Exclusive
<1>2. ExchangeHold = [s \in Exclusive |-> Promised!Free]
  BY DEF Init, ExchangeHold, HandlersOf, Working, Idle, Promised!Free
<1>3. ExchangeSpent = {}
  BY DEF Init, ExchangeSpent, Exclusive
<1> QED BY <1>1, <1>2, <1>3 DEF Promised!Init

(* Sign-in keeps the promise of SessionExchange, for any sessions, lanes,   *)
(* handlers and bounds: one hand at a time on a session, its code taken     *)
(* once, a stored session never claimed again.                              *)
THEOREM SignInImplementsExchange == Spec => SignsInOnce
BY InitRefines, NextRefines, SignInInvariant, PTL DEF Spec, SignsInOnce, Promised!Spec
=============================================================================
