------------------------------- MODULE SignIn -------------------------------
(***************************************************************************)
(* OAuth sign-in of new accounts (admin_codex.go, admin_codex_loopback.go,  *)
(* admin_claude.go, gemini_operator.go): an operator starts a session, the  *)
(* browser comes back with an authorization code, a handler exchanges the   *)
(* code for tokens, writes the account's file and reloads the pool (reloads  *)
(* are modelled in SeatPool and TokenRefresh).                              *)
(*                                                                         *)
(* Three tables of sessions, three ways to claim one: a Codex session is    *)
(* marked InFlight and given back when the exchange fails, a Gemini session *)
(* is taken out of its table, a Claude session is only looked up.  Codex    *)
(* sessions that operators start are completed by a loopback server, which  *)
(* runs only while there are such sessions.                                 *)
(***************************************************************************)
EXTENDS Naturals, FiniteSets

CONSTANTS
  Session, Lane,      \* sessions by verifier or state, and how each is run
  NoSession,
  Seat, Person,       \* logical seats; [Session -> Seat]: who signs in
  Name, NameOf,       \* [Seat -> Name]: the account ID its e-mail address gives
  Handler,            \* goroutines that serve callbacks and exchange requests
  MaxCopies,          \* saveNewCodexAccount numbers files up to this (99)
  MaxStarted          \* bound: sessions started

Lanes == {"operator", "admin", "claude", "gemini"}
  \* Codex with AutoComplete, Codex without; Claude; Gemini

ASSUME SignInAssumption ==
  /\ Lane \in [Session -> Lanes]
  /\ NoSession \notin Session
  /\ Person \in [Session -> Seat]
  /\ NameOf \in [Seat -> Name]
  /\ Name \cap Session = {}
  /\ MaxCopies \in Nat \ {0} /\ MaxStarted \in Nat

VARIABLES
  session,    \* the three tables of sessions
  old,        \* sessions past their TTL
  unspent,    \* provider: sessions whose authorization code still works
  adding,     \* operators' requests past ensureCodexLoopbackCallbackServers
  sweeps,     \* cleanup goroutines, named by the session whose start began them
  listening,  \* codexOAuthLoopbackCallback has listeners
  sleeping,   \* goroutines about to run stopCodexLoopbackCallbackServersIfIdle
  stopping,   \* those that found no pending session and have yet to close
  files,      \* the account files
  handler

table == <<session, old, unspent, adding, sweeps>>
servers == <<listening, sleeping, stopping>>
vars == <<table, servers, files, handler>>

Codex == {s \in Session : Lane[s] \in {"operator", "admin"}}
AutoComplete == {s \in Session : Lane[s] = "operator"}
Claude == {s \in Session : Lane[s] = "claude"}
Gemini == {s \in Session : Lane[s] = "gemini"}
SameTable(s, t) == (s \in Codex /\ t \in Codex) \/ Lane[s] = Lane[t]

(* A Codex file is named after the seat, with a number when the name is     *)
(* taken; a Claude file after the session's account ID; a Gemini file after *)
(* the refresh token, new in each session.                                  *)
Paths == (Name \X (1..MaxCopies)) \cup (Session \X {1})
NoPath == <<NoSession, 1>>
Own(s) == <<s, 1>>
Tokens == Session \cup {NoSession}
Files == [by : Tokens, whole : BOOLEAN]
Absent == [by |-> NoSession, whole |-> FALSE]
Exists(p) == files[p].by # NoSession

Phases == {"idle", "exchange", "find", "name", "open", "write",
           "remove", "reload", "finalize", "release"}
Handlers == [phase : Phases, s : Tokens, path : Paths \cup {NoPath}]
Idle == [phase |-> "idle", s |-> NoSession, path |-> NoPath]

Goes(h, phase) == handler' = [handler EXCEPT ![h] = [@ EXCEPT !.phase = phase]]
Takes(h, s) ==
  handler' = [handler EXCEPT ![h] = [@ EXCEPT !.phase = "exchange", !.s = s]]
WithPath(h, phase, p) ==
  handler' = [handler EXCEPT ![h] = [@ EXCEPT !.phase = phase, !.path = p]]
Ends(h) == handler' = [handler EXCEPT ![h] = Idle]
Sessioned(s, to) ==
  /\ session' = [session EXCEPT ![s] = to]
  /\ old' = IF to = "gone" THEN old \ {s} ELSE old

----------------------------------------------------------------------------
Init ==
  /\ session = [s \in Session |-> "new"]
  /\ old = {}
  /\ unspent = Session
  /\ adding = {} /\ sweeps = {}
  /\ listening = FALSE /\ sleeping = 0 /\ stopping = 0
  /\ files = [p \in Paths |-> Absent]
  /\ handler = [h \in Handler |-> Idle]

(* ---- Sessions begin, age and are swept ---- *)

MayStart(s) ==
  /\ session[s] = "new" /\ s \notin adding
  /\ Cardinality({t \in Session : session[t] # "new"} \cup adding) < MaxStarted

(* handleOperatorCodexAdd first makes sure of the loopback servers.         *)
EnsureServers(s) ==
  /\ s \in AutoComplete /\ MayStart(s)
  /\ adding' = adding \cup {s}
  /\ listening' = TRUE
  /\ UNCHANGED <<session, old, unspent, sweeps, sleeping, stopping, files, handler>>

StartSession(s) ==
  /\ IF s \in AutoComplete THEN s \in adding ELSE MayStart(s)
  /\ Sessioned(s, "open")
  /\ adding' = adding \ {s}
  /\ sweeps' = sweeps \cup {s}
  /\ UNCHANGED <<unspent, servers, files, handler>>

(* startCodexOAuthSession fails: the servers are not needed after all.      *)
StartFails(s) ==
  /\ s \in adding
  /\ Sessioned(s, "gone")
  /\ adding' = adding \ {s}
  /\ sleeping' = sleeping + 1
  /\ UNCHANGED <<unspent, sweeps, listening, stopping, files, handler>>

Ages(s) ==
  /\ session[s] \in {"open", "inflight"} /\ s \notin old
  /\ old' = old \cup {s}
  /\ UNCHANGED <<session, unspent, adding, sweeps, servers, files, handler>>

(* cleanupOld...Sessions, in flight or not.                                 *)
Sweep(s) ==
  /\ s \in sweeps
  /\ sweeps' = sweeps \ {s}
  /\ session' = [t \in Session |->
                   IF t \in old /\ SameTable(s, t) THEN "gone" ELSE session[t]]
  /\ old' = {t \in old : ~SameTable(s, t)}
  /\ sleeping' = IF s \in Codex THEN sleeping + 1 ELSE sleeping
  /\ UNCHANGED <<unspent, adding, listening, stopping, files, handler>>

(* ---- The loopback servers ---- *)

(* Mutant: nobody looks whether the servers are still needed. *)
FinalizesOnly(s) == Sessioned(s, "gone") /\ UNCHANGED sleeping

(* finalizeCodexSession: out of the table, and a stop is scheduled.         *)
Finalizes(s) ==
  /\ Sessioned(s, "gone")
  /\ sleeping' = sleeping + 1

(* The browser reports that the operator declined.                          *)
ErrorCallback(s) ==
  /\ listening
  /\ s \in Codex /\ session[s] \in {"open", "inflight"}
  /\ Finalizes(s)
  /\ UNCHANGED <<unspent, adding, sweeps, listening, stopping, files, handler>>

(* Mutant: sessions that have been finalized count as pending. *)
AnyAutoSession == \E s \in AutoComplete : session[s] # "new"

hasPendingAutoCodexSessions == \E s \in AutoComplete : session[s] \in {"open", "inflight"}

(* stopCodexLoopbackCallbackServersIfIdle looks under one lock and closes   *)
(* under another.                                                           *)
StopLooks ==
  /\ sleeping > 0
  /\ sleeping' = sleeping - 1
  /\ stopping' = IF hasPendingAutoCodexSessions THEN stopping ELSE stopping + 1
  /\ UNCHANGED <<listening, table, files, handler>>

(* Mutant: closes without having looked. *)
StopUnlooked ==
  /\ stopping' = stopping - 1
  /\ listening' = FALSE
  /\ UNCHANGED <<sleeping, table, files, handler>>

StopCloses ==
  /\ stopping > 0
  /\ stopping' = stopping - 1
  /\ listening' = FALSE
  /\ UNCHANGED <<sleeping, table, files, handler>>

(* ---- A handler gets a code ---- *)

(* Mutant: a session in flight may be claimed again. *)
ClaimInFlight(h, s) ==
  /\ handler[h].phase = "idle"
  /\ s \in Codex /\ session[s] \in {"open", "inflight"}
  /\ Sessioned(s, "inflight")
  /\ Takes(h, s)
  /\ UNCHANGED <<unspent, adding, sweeps, servers, files>>

(* claimCodexSession *)
ClaimCodex(h, s) ==
  /\ handler[h].phase = "idle"
  /\ s \in Codex /\ session[s] = "open"
  /\ Sessioned(s, "inflight")
  /\ Takes(h, s)
  /\ UNCHANGED <<unspent, adding, sweeps, servers, files>>

LookUpClaude(h, s) ==
  /\ handler[h].phase = "idle"
  /\ s \in Claude /\ session[s] = "open"
  /\ Takes(h, s)
  /\ UNCHANGED <<table, servers, files>>

(* claimManagedGeminiOAuthSession: out of the table even when it is too old. *)
ClaimGemini(h, s) ==
  /\ handler[h].phase = "idle"
  /\ s \in Gemini /\ session[s] = "open"
  /\ Sessioned(s, "gone")
  /\ IF s \in old THEN UNCHANGED handler ELSE Takes(h, s)
  /\ UNCHANGED <<unspent, adding, sweeps, servers, files>>

(* ---- The exchange ---- *)

(* Mutant: a failed exchange does not give its session back. *)
FailsQuietly(h) == Ends(h)

Fails(h) == IF handler[h].s \in Codex THEN Goes(h, "release") ELSE Ends(h)

Granted(h) ==
  /\ handler[h].phase = "exchange"
  /\ handler[h].s \in unspent
  /\ unspent' = unspent \ {handler[h].s}
  /\ IF handler[h].s \in Codex THEN Goes(h, "find") ELSE WithPath(h, "write", Own(handler[h].s))
  /\ UNCHANGED <<session, old, adding, sweeps, servers, files>>

(* The provider refuses the code, or its answer is lost or unusable.        *)
NotGranted(h) ==
  /\ handler[h].phase = "exchange"
  /\ unspent' \in {unspent, unspent \ {handler[h].s}}
  /\ Fails(h)
  /\ UNCHANGED <<session, old, adding, sweeps, servers, files>>

(* ---- The file ---- *)

(* findExistingCodexSeatFile skips what it cannot parse.                    *)
FilesOf(seat) ==
  {p \in Paths : p[1] \in Name /\ files[p].whole /\ Person[files[p].by] = seat}

FindExisting(h) ==
  /\ handler[h].phase = "find"
  /\ LET mine == FilesOf(Person[handler[h].s]) IN
     IF mine = {} THEN Goes(h, "name") ELSE \E p \in mine : WithPath(h, "open", p)
  /\ UNCHANGED <<table, servers, files>>

(* The first free number; the plain name when it is free or none is.        *)
Numbered(n, k) ==
  \/ k = 1 /\ (~Exists(<<n, 1>>) \/ \A j \in 2..MaxCopies : Exists(<<n, j>>))
  \/ /\ k > 1 /\ Exists(<<n, 1>>) /\ ~Exists(<<n, k>>)
     /\ \A j \in 2..(k - 1) : Exists(<<n, j>>)

PickName(h) ==
  /\ handler[h].phase = "name"
  /\ \E k \in 1..MaxCopies :
       LET n == NameOf[Person[handler[h].s]] IN
       /\ Numbered(n, k)
       /\ WithPath(h, "open", <<n, k>>)
  /\ UNCHANGED <<table, servers, files>>

(* os.WriteFile truncates the file, then writes it.                         *)
OpenFile(h) ==
  /\ handler[h].phase = "open"
  /\ files' = [files EXCEPT ![handler[h].path] = [by |-> handler[h].s, whole |-> FALSE]]
  /\ Goes(h, "write")
  /\ UNCHANGED <<table, servers>>

(* What two writers of one Codex file leave may be neither's; Claude and    *)
(* Gemini files are renamed into place.                                     *)
WriteFile(h) ==
  /\ handler[h].phase = "write"
  /\ \E whole \in {TRUE, handler[h].s \notin Codex \/ files[handler[h].path].by = handler[h].s} :
       files' = [files EXCEPT ![handler[h].path] = [by |-> handler[h].s, whole |-> whole]]
  /\ Goes(h, IF handler[h].s \in Claude THEN "remove" ELSE "reload")
  /\ UNCHANGED <<table, servers>>

WriteFails(h) ==
  /\ handler[h].phase \in {"open", "write"}
  /\ Fails(h)
  /\ UNCHANGED <<table, servers, files>>

(* ---- After the file ---- *)

RemoveClaude(h) ==
  /\ handler[h].phase = "remove"
  /\ Sessioned(handler[h].s, "gone")
  /\ Goes(h, "reload")
  /\ UNCHANGED <<unspent, adding, sweeps, servers, files>>

(* reloadAccounts: the handler goes on whether or not the pool can be read. *)
Reload(h) ==
  /\ handler[h].phase = "reload"
  /\ IF handler[h].s \in Codex THEN Goes(h, "finalize") ELSE Ends(h)
  /\ UNCHANGED <<table, servers, files>>

FinalizeCodex(h) ==
  /\ handler[h].phase = "finalize"
  /\ Finalizes(handler[h].s)
  /\ Ends(h)
  /\ UNCHANGED <<unspent, adding, sweeps, listening, stopping, files>>

(* releaseCodexSession *)
Release(h) ==
  /\ handler[h].phase = "release"
  /\ session' = [session EXCEPT ![handler[h].s] = IF @ = "inflight" THEN "open" ELSE @]
  /\ Ends(h)
  /\ UNCHANGED <<old, unspent, adding, sweeps, servers, files>>

----------------------------------------------------------------------------
Begins(s) == EnsureServers(s) \/ StartSession(s) \/ StartFails(s)
Claims(h) == \E s \in Session : ClaimCodex(h, s) \/ LookUpClaude(h, s) \/ ClaimGemini(h, s)
Saves(h) == FindExisting(h) \/ PickName(h) \/ OpenFile(h) \/ WriteFile(h) \/ WriteFails(h)
Concludes(h) ==
  RemoveClaude(h) \/ Reload(h) \/ FinalizeCodex(h) \/ Release(h)

Next ==
  \/ \E s \in Session : Begins(s) \/ Ages(s) \/ Sweep(s) \/ ErrorCallback(s)
  \/ StopLooks \/ StopCloses
  \/ \E h \in Handler : Claims(h) \/ Granted(h) \/ NotGranted(h) \/ Saves(h) \/ Concludes(h)

Spec == Init /\ [][Next]_vars

(* Every goroutine runs; a request that is past ensure starts its session   *)
(* or fails.  The provider need not answer: the exchange has no timeout.    *)
Fairness ==
  /\ WF_vars(StopLooks) /\ WF_vars(StopCloses)
  /\ \A s \in Session : WF_vars(s \in adding /\ Begins(s))
  /\ \A h \in Handler : WF_vars(Saves(h) \/ Concludes(h))

FairSpec == Spec /\ Fairness

----------------------------------------------------------------------------
(* ---- Properties ---- *)

TypeOK ==
  /\ session \in [Session -> {"new", "open", "inflight", "gone"}]
  /\ old \subseteq Session /\ unspent \subseteq Session
  /\ adding \subseteq AutoComplete /\ sweeps \subseteq Session
  /\ listening \in BOOLEAN /\ sleeping \in Nat /\ stopping \in Nat
  /\ files \in [Paths -> Files]
  /\ handler \in [Handler -> Handlers]

(* At work on a session.                                                    *)
Working(h) == handler[h].phase # "idle"

(* Two callbacks, or a callback and an operator who pastes the code, never  *)
(* exchange a Codex or Gemini session at the same time, whatever sweeps and *)
(* cancellations do to the table meanwhile                                  *)
(* (TestHandleCodexLoopbackCallbackRejectsDuplicateCallback).               *)
OneExchangePerSession ==
  \A g, h \in Handler :
    Working(g) /\ Working(h) /\ handler[g].s = handler[h].s /\ handler[g].s \notin Claude
      => g = h

(* How far the handler of a Codex or Gemini session is.                     *)
StageOf(phase) ==
  CASE phase = "exchange" -> "exchange"
    [] phase \in {"find", "name", "open", "write"} -> "store"
    [] phase = "release" -> "release"
    [] OTHER -> "finish"

Exclusive == Session \ Claude
HandlersOf(s) == {h \in Handler : Working(h) /\ handler[h].s = s}

ExchangeStatus == [s \in Exclusive |-> session[s]]
ExchangeHold ==
  [s \in Exclusive |->
     IF HandlersOf(s) = {} THEN [by |-> NoSession, stage |-> "none"]
     ELSE LET h == CHOOSE h \in HandlersOf(s) : TRUE IN
          [by |-> h, stage |-> StageOf(handler[h].phase)]]
ExchangeSpent == Exclusive \ unspent

Promised == INSTANCE SessionExchange WITH
  Session <- Exclusive,
  Nobody <- NoSession,
  status <- ExchangeStatus,
  hold <- ExchangeHold,
  spent <- ExchangeSpent

(* Codex and Gemini sessions keep the promise of SessionExchange: the three *)
(* tables, the loopback servers and the files are one way to have a session *)
(* in one hand at a time, its code taken once, and a stored session never   *)
(* claimed again (claimCodexSession, releaseCodexSession,                   *)
(* claimManagedGeminiOAuthSession).                                         *)
SignsInOnce == Promised!Spec

(* A session marked InFlight is in the hands of a handler that will give it *)
(* back or finalize it: no failure, sweep or cancellation leaves a session  *)
(* that nobody works on and nobody can claim.                               *)
ClaimsHeld ==
  \A s \in Session : session[s] = "inflight" => \E h \in Handler : Working(h) /\ handler[h].s = s

AutoSessions == {s \in AutoComplete : session[s] \in {"open", "inflight"}}

(* Open loopback servers are accounted for: a session needs them, a request *)
(* is about to start one, or a goroutine is on its way to close them        *)
(* (stopCodexLoopbackCallbackServersIfIdle).                                *)
OpenServersAccounted ==
  listening => AutoSessions # {} \/ adding # {} \/ sleeping + stopping > 0

(* When the last session that needs them has gone, the loopback servers are *)
(* closed unless another session comes: localhost:1455 is not held forever, *)
(* even by a provider that never answers other sessions.                    *)
IdleServersStop == AutoSessions = {} ~> (~listening \/ AutoSessions # {})
=============================================================================
