----------------------------- MODULE SeatFiles -----------------------------
(***************************************************************************)
(* A Codex seat is a JSON file of the pool directory and, in memory, an    *)
(* Account object that loadPool made of it.  Requests and pollers change   *)
(* the object and save it back in two steps (read the file, write it);     *)
(* sign-in and key handlers write files; the delete handler and the        *)
(* long-dead cleanup remove them; and each of those reloads the directory  *)
(* file by file into new objects.  None of it is under one lock: reloads   *)
(* overlap, and a request keeps the object it took.                        *)
(*                                                                         *)
(* The three kinds of Codex seats differ in what a save does and in how    *)
(* the file is written: "oauth", "gitlab", "apikey".  The time after which *)
(* a dead seat is quarantined (72 h) is one step, Ages.                    *)
(***************************************************************************)
EXTENDS Naturals, FiniteSets, Sequences

CONSTANTS
    Seat,       \* the seats (a file name each)
    Family,     \* [Seat -> kind of seat]
    User,       \* requests and pollers
    Slot,       \* room for loaded pools: the current one and those still held
    MaxLogins,  \* bound: sign-ins of one OAuth seat
    MaxWork,    \* bound: uses, operator actions and restarts
    NoSeat, NoSlot, NoObject, Torn

(* The directories loadPool reads, in its order.                           *)
Dirs == <<"oauth", "gitlab", "apikey">>

ASSUME SeatFilesAssumption ==
    /\ Family \in [Seat -> {"oauth", "gitlab", "apikey"}]
    /\ IsFiniteSet(User)
    /\ 1 \in Slot /\ Slot \subseteq Nat
    /\ MaxLogins \in Nat /\ MaxWork \in Nat
    /\ NoSeat \notin Seat /\ NoSlot \notin Slot

VARIABLES
    file,     \* [Seat -> a file, or NoObject, or Torn: truncated, not yet written]
    object,   \* [Slot -> [Seat -> Account or NoObject]]
    pool,     \* the slot poolState.accounts is in
    user,     \* [User -> where the request or poller is]
    adder,    \* the sign-in or key handler
    deleter,  \* handleOperatorAccountDelete
    sweep,    \* the long-dead cleanup
    load,     \* reloadAccounts of each of those handlers
    work,     \* uses, operator actions and restarts so far
    logins,   \* [Seat -> sign-ins so far]: the newest credential
    unsaved,  \* seats marked alive in memory only
    astray,   \* seats whose file was changed past the pool: after its reload had read
              \* the file, by a save of a replaced object, or by a handler, cleanup
              \* or reload that then failed to reload
    gone      \* seats deleted while no save was under way, and not added since

vars == <<file, object, pool, user, adder, deleter, sweep, load, work, logins, unsaved,
          astray, gone>>

Mark == {"alive", "dead", "long"}      \* Dead and DeadSince: dead, dead for 72 hours
File == [mark : Mark, cred : 0 .. MaxLogins]
Object == [mark : Mark, cred : 0 .. MaxLogins, uses : 0 .. Cardinality(User)]
Handler == {"add", "delete", "sweep"}

ASSUME NoObjectAssumption ==
    /\ Torn # NoObject
    /\ NoObject \notin File \cup Object /\ Torn \notin File \cup Object

NoLoad == [at |-> 0, pending |-> {}, got |-> [s \in Seat |-> NoObject], dirty |-> {},
           moved |-> {}]
NoAdd == [pc |-> "idle", seat |-> NoSeat, mark |-> "alive"]
NoDelete == [pc |-> "idle", seat |-> NoSeat]
NoSweep == [pc |-> "idle", slot |-> NoSlot, todo |-> {}, moved |-> {}]
NoUse == [pc |-> "idle", seat |-> NoSeat, slot |-> NoSlot, counted |-> FALSE]

There(s) == file[s] # NoObject
Readable(s) == file[s] \notin {NoObject, Torn}
Loaded(f) == [mark |-> f.mark, cred |-> f.cred, uses |-> 0]
Current(s) == object[pool][s]

Init ==
    /\ file \in [Seat -> {NoObject} \cup [mark : {"alive", "dead"}, cred : {0}]]
    /\ pool = 1
    /\ object = [i \in Slot |-> [s \in Seat |->
                    IF i = pool /\ file[s] # NoObject THEN Loaded(file[s]) ELSE NoObject]]
    /\ user = [u \in User |-> NoUse]
    /\ adder = NoAdd /\ deleter = NoDelete /\ sweep = NoSweep
    /\ load = [h \in Handler |-> NoLoad]
    /\ work = 0
    /\ logins = [s \in Seat |-> 0]
    /\ unsaved = {} /\ astray = {} /\ gone = {}

More == work < MaxWork /\ work' = work + 1
Busy == {h \in Handler : \/ load[h].at > 0
                         \/ h = "add" /\ adder # NoAdd
                         \/ h = "delete" /\ deleter # NoDelete
                         \/ h = "sweep" /\ sweep # NoSweep}
Idle(h) == h \notin Busy

(* A reload under way has gone past seat s of the directory.               *)
Past(h, s) ==
    /\ load[h].at > 0 /\ s \notin load[h].pending
    /\ \E i \in 1 .. load[h].at - 1 : Dirs[i] = Family[s]

(* The file of s changes: reloads that have read it do not know.           *)
Changed(s) == [h \in Handler |-> IF Past(h, s) THEN [load[h] EXCEPT !.dirty = @ \cup {s}]
                                                ELSE load[h]]
(* h then reloads for the seats it has changed: runtimeStateByID, loadPool. *)
Reloads(h, seats, loads) == [loads EXCEPT ![h] = [NoLoad EXCEPT !.at = 1, !.moved = seats]]

(* Objects of a replaced pool that nobody holds any more are gone.         *)
Held(i, users, swp) == i = swp.slot \/ \E u \in User : users[u].slot = i
Kept(objects, users, swp, cur) ==
    [i \in Slot |-> IF i = cur \/ Held(i, users, swp) THEN objects[i]
                                                   ELSE [s \in Seat |-> NoObject]]
-----------------------------------------------------------------------------
(* Requests and pollers.                                                   *)

(* A request counts itself in Inflight and takes a seat that is alive; a   *)
(* poller or a forced refresh takes any object of the pool uncounted.      *)
Take(u) ==
    /\ user[u].pc = "idle"
    /\ More
    /\ \E s \in Seat, counted \in BOOLEAN :
          /\ Current(s) # NoObject
          /\ counted => Current(s).mark = "alive"
          /\ user' = [user EXCEPT ![u] =
                [pc |-> IF counted /\ Family[s] = "gitlab" THEN "judging" ELSE "using",
                 seat |-> s, slot |-> pool, counted |-> counted]]
          /\ object' = IF counted THEN [object EXCEPT ![pool][s].uses = @ + 1] ELSE object
    /\ UNCHANGED <<file, pool, adder, deleter, sweep, load, logins, gone, unsaved, astray>>

(* Mutant: a poller gives back a use it did not count.                     *)
LeavesUncounted(u, objects) ==
    /\ user' = [user EXCEPT ![u] = NoUse]
    /\ object' = Kept([objects EXCEPT ![user[u].slot][user[u].seat].uses = @ - 1],
                      [user EXCEPT ![u] = NoUse], sweep, pool)

Leaves(u, objects) ==
    /\ user' = [user EXCEPT ![u] = NoUse]
    /\ object' = Kept(IF user[u].counted
                        THEN [objects EXCEPT ![user[u].slot][user[u].seat].uses = @ - 1]
                        ELSE objects,
                      [user EXCEPT ![u] = NoUse], sweep, pool)

(* applyUpstreamAuthFailureDisposition leaves a dead GitLab seat as it is; *)
(* the lock is let go before the disposition is applied.                   *)
Judge(u) ==
    /\ user[u].pc = "judging"
    /\ IF object[user[u].slot][user[u].seat].mark = "alive"
         THEN user' = [user EXCEPT ![u].pc = "using"] /\ UNCHANGED object
         ELSE Leaves(u, object)
    /\ UNCHANGED <<file, pool, adder, deleter, sweep, load, logins, gone, unsaved, astray, work>>

(* setAccountDeadStateLocked keeps the time of the first dead mark.        *)
Marked(o, dead) == [o EXCEPT !.mark = IF ~dead THEN "alive" ELSE IF @ = "alive" THEN "dead" ELSE @]

(* The answer: nothing to note; dead; alive again (a GitLab or API key     *)
(* seat that is only limited, a probe or refresh that worked); or saved    *)
(* with no change to the mark.                                             *)
Answer(u) ==
    LET use == user[u]
        at == object[use.slot][use.seat]
        Becomes(o, next) ==
            /\ object' = [object EXCEPT ![use.slot][use.seat] = o]
            /\ user' = [user EXCEPT ![u].pc = next]
    IN  /\ use.pc = "using"
        /\ \/ Leaves(u, object) /\ UNCHANGED unsaved
           \/ /\ \E dead \in BOOLEAN : Becomes(Marked(at, dead), "saving")
              /\ UNCHANGED unsaved
           \/ Becomes(at, "saving") /\ UNCHANGED unsaved
           \/ /\ use.counted /\ Family[use.seat] = "apikey"
              /\ Leaves(u, [object EXCEPT ![use.slot][use.seat] = Marked(at, FALSE)])
              /\ unsaved' = IF use.slot = pool THEN unsaved \cup {use.seat} ELSE unsaved
    /\ UNCHANGED <<file, pool, adder, deleter, sweep, load, logins, gone, astray, work>>

(* Mutant: a save of any kind of seat makes a missing file anew.           *)
SavableAlways(s) == file[s] # Torn

(* saveCodexAccount fails on a file that is missing or does not parse;     *)
(* saveGitLabCodexAccount starts a missing one anew.                       *)
Savable(s) == Readable(s) \/ (Family[s] = "gitlab" /\ file[s] = NoObject)

SaveRead(u) ==
    /\ user[u].pc = "saving"
    /\ IF Savable(user[u].seat)
         THEN user' = [user EXCEPT ![u].pc = "writing"] /\ UNCHANGED object
         ELSE Leaves(u, object)
    /\ UNCHANGED <<file, pool, adder, deleter, sweep, load, logins, gone, unsaved, astray, work>>

(* atomicWriteJSON renames the new file over whatever is there by now.     *)
SaveWrite(u) ==
    LET use == user[u]
        at == object[use.slot][use.seat]
        stray == use.slot # pool \/ ~There(use.seat)
    IN  /\ use.pc = "writing"
        /\ file' = [file EXCEPT ![use.seat] = [mark |-> at.mark, cred |-> at.cred]]
        /\ load' = Changed(use.seat)
        /\ astray' = IF stray THEN astray \cup {use.seat} ELSE astray
        /\ unsaved' = IF use.slot = pool THEN unsaved \ {use.seat} ELSE unsaved
        /\ Leaves(u, object)
        /\ UNCHANGED <<pool, adder, deleter, sweep, logins, gone, work>>

(* resurrectAccount.                                                       *)
Resurrect ==
    /\ More
    /\ \E s \in Seat :
          /\ Current(s) # NoObject
          /\ object' = [object EXCEPT ![pool][s] = Marked(@, FALSE)]
          /\ unsaved' = unsaved \cup {s}
    /\ UNCHANGED <<file, pool, user, adder, deleter, sweep, load, logins, gone, astray>>
-----------------------------------------------------------------------------
(* The handlers that add, delete and quarantine files.                     *)

(* saveNewCodexAccount: os.WriteFile truncates the file, then fills it.    *)
LoginOpens ==
    /\ Idle("add")
    /\ More
    /\ \E s \in Seat :
          /\ Family[s] = "oauth" /\ logins[s] < MaxLogins
          /\ adder' = [NoAdd EXCEPT !.pc = "opened", !.seat = s]
          /\ file' = [file EXCEPT ![s] = Torn]
          /\ logins' = [logins EXCEPT ![s] = @ + 1]
          /\ gone' = gone \ {s}
          /\ load' = Changed(s)
    /\ UNCHANGED <<object, pool, user, deleter, sweep, unsaved, astray>>

(* If the name meanwhile leads elsewhere (a save renamed over it, the      *)
(* cleanup or the operator removed it), the data goes to the old file.     *)
LoginWrites ==
    LET s == adder.seat
    IN  /\ adder.pc = "opened"
        /\ IF file[s] = Torn
             THEN /\ file' = [file EXCEPT ![s] = [mark |-> "alive", cred |-> logins[s]]]
                  /\ load' = Reloads("add", {s}, Changed(s))
             ELSE /\ load' = Reloads("add", {s}, load)
                  /\ UNCHANGED file
        /\ adder' = NoAdd
        /\ UNCHANGED <<object, pool, user, deleter, sweep, logins, gone, unsaved, astray, work>>

(* saveManagedOpenAIAPIKey, of a new key or of one that is there.          *)
KeyAdded ==
    /\ Idle("add")
    /\ More
    /\ \E s \in Seat :
          /\ Family[s] = "apikey"
          /\ file' = [file EXCEPT ![s] = [mark |-> "alive", cred |-> 0]]
          /\ load' = Changed(s)
          /\ adder' = [pc |-> "probing", seat |-> s, mark |-> "alive"]
          /\ gone' = gone \ {s}
    /\ UNCHANGED <<object, pool, user, deleter, sweep, logins, unsaved, astray>>

(* probeManagedCodexAPIKey, on an object of the handler's own.             *)
KeyProbed ==
    /\ adder.pc = "probing"
    /\ \E mark \in {"alive", "dead"} :
          adder' = [adder EXCEPT !.pc = "saving", !.mark = mark]
    /\ UNCHANGED <<file, object, pool, user, deleter, sweep, load, logins, gone, unsaved, astray, work>>

KeySaveRead ==
    /\ adder.pc = "saving"
    /\ IF Savable(adder.seat)
         THEN adder' = [adder EXCEPT !.pc = "writing"] /\ UNCHANGED load
         ELSE adder' = NoAdd /\ load' = Reloads("add", {adder.seat}, load)
    /\ UNCHANGED <<file, object, pool, user, deleter, sweep, logins, gone, unsaved, astray, work>>

KeySaveWrite ==
    /\ adder.pc = "writing"
    /\ file' = [file EXCEPT ![adder.seat] = [mark |-> adder.mark, cred |-> 0]]
    /\ load' = Reloads("add", {adder.seat}, Changed(adder.seat))
    /\ adder' = NoAdd
    /\ UNCHANGED <<object, pool, user, deleter, sweep, logins, gone, unsaved, astray, work>>

(* handleOperatorAccountDelete refuses while the object is in use.         *)
DeleteLooks ==
    /\ Idle("delete")
    /\ More
    /\ \E s \in Seat :
          /\ Current(s) # NoObject
          /\ Current(s).uses = 0
          /\ deleter' = [pc |-> "removing", seat |-> s]
    /\ UNCHANGED <<file, object, pool, user, adder, sweep, load, logins, gone, unsaved, astray>>

(* Mutant: the handler leaves the reload to the next poll.                 *)
AfterDeleteNothing(s) == Changed(s)

AfterDelete(s) == Reloads("delete", {s}, IF There(s) THEN Changed(s) ELSE load)

(* A save has read the file and not yet written it.                        *)
Rewriting(s) ==
    \/ adder.pc = "writing" /\ adder.seat = s
    \/ \E u \in User : user[u].pc = "writing" /\ user[u].seat = s

DeleteRemoves ==
    LET s == deleter.seat
    IN  /\ deleter.pc = "removing"
        /\ file' = [file EXCEPT ![s] = NoObject]
        /\ load' = AfterDelete(s)
        /\ deleter' = NoDelete
        /\ gone' = IF Rewriting(s) THEN gone ELSE gone \cup {s}
        /\ UNCHANGED <<object, pool, user, adder, sweep, logins, unsaved, astray, work>>

(* quarantineLongDeadAccounts looks at the objects of one pool, in order.  *)
SweepBegins ==
    /\ Idle("sweep")
    /\ \E s \in Seat : Current(s) # NoObject /\ Current(s).mark = "long"
    /\ sweep' = [pc |-> "looking", slot |-> pool,
                 todo |-> {s \in Seat : Current(s) # NoObject}, moved |-> {}]
    /\ UNCHANGED <<file, object, pool, user, adder, deleter, load, logins, gone, unsaved, astray, work>>

Sweepable(o) == o.uses = 0 /\ o.mark = "long"

(* One object: passed over, moved, or its file is gone and the cleanup     *)
(* gives up, without the reload, until the next poll.                      *)
SweepLooks ==
    /\ sweep.pc = "looking" /\ sweep.todo # {}
    /\ \E s \in sweep.todo :
          /\ \A t \in sweep.todo : t # s =>
                \E i, j \in DOMAIN Dirs : i <= j /\ Dirs[i] = Family[s] /\ Dirs[j] = Family[t]
          /\ IF ~Sweepable(object[sweep.slot][s])
               THEN /\ sweep' = [sweep EXCEPT !.todo = @ \ {s}]
                    /\ UNCHANGED <<file, load, object, astray>>
             ELSE IF There(s)
               THEN /\ sweep' = [sweep EXCEPT !.todo = @ \ {s}, !.moved = @ \cup {s}]
                    /\ file' = [file EXCEPT ![s] = NoObject]
                    /\ load' = Changed(s)
                    /\ UNCHANGED <<object, astray>>
             ELSE /\ sweep' = NoSweep
                  /\ object' = Kept(object, user, NoSweep, pool)
                  /\ astray' = astray \cup sweep.moved
                  /\ UNCHANGED <<file, load>>
    /\ UNCHANGED <<pool, user, adder, deleter, logins, gone, unsaved, work>>

SweepEnds ==
    /\ sweep.pc = "looking" /\ sweep.todo = {}
    /\ load' = IF sweep.moved # {} THEN Reloads("sweep", sweep.moved, load) ELSE load
    /\ sweep' = NoSweep
    /\ object' = Kept(object, user, NoSweep, pool)
    /\ UNCHANGED <<file, pool, user, adder, deleter, logins, gone, unsaved, astray, work>>
-----------------------------------------------------------------------------
(* reloadAccounts: directory by directory, file by file, then the swap.    *)

ReadDir(h) ==
    /\ load[h].at \in DOMAIN Dirs /\ load[h].pending = {}
    /\ load' = [load EXCEPT ![h].at = @ + 1,
                            ![h].pending = {s \in Seat : Family[s] = Dirs[load[h].at] /\ There(s)}]
    /\ UNCHANGED <<file, object, pool, user, adder, deleter, sweep, logins, gone, unsaved, astray, work>>

(* loadPool reads a file, and quarantines it if its seat is long dead; a   *)
(* file that has gone or does not parse ends the reload, the pool stays.   *)
ReadFile(h) ==
    /\ \E s \in load[h].pending :
          IF ~Readable(s)
            THEN /\ load' = [load EXCEPT ![h] = NoLoad]
                 /\ astray' = astray \cup load[h].moved
                 /\ UNCHANGED file
          ELSE IF file[s].mark = "long"
            THEN /\ file' = [file EXCEPT ![s] = NoObject]
                 /\ load' = [Changed(s) EXCEPT ![h].pending = @ \ {s}, ![h].moved = @ \cup {s}]
                 /\ UNCHANGED astray
          ELSE /\ load' = [load EXCEPT ![h].pending = @ \ {s}, ![h].got[s] = Loaded(file[s])]
               /\ UNCHANGED <<file, astray>>
    /\ UNCHANGED <<object, pool, user, adder, deleter, sweep, logins, gone, unsaved, work>>

Free == {i \in Slot : i # pool /\ ~Held(i, user, sweep)}

Replace(h) ==
    /\ load[h].at > Len(Dirs) /\ load[h].pending = {}
    /\ \E i \in Free :
          /\ \A j \in Free : i <= j
          /\ pool' = i
          /\ object' = Kept([object EXCEPT ![i] = load[h].got], user, sweep, i)
    /\ load' = [load EXCEPT ![h] = NoLoad]
    /\ astray' = load[h].dirty
    /\ unsaved' = {}
    /\ UNCHANGED <<file, user, adder, deleter, sweep, logins, gone, work>>
-----------------------------------------------------------------------------
(* 72 hours pass.                                                          *)
Aged(mark) == IF mark = "dead" THEN "long" ELSE mark
Older(o) == IF o \in {NoObject, Torn} THEN o ELSE [o EXCEPT !.mark = Aged(@)]
Ages ==
    /\ file' = [s \in Seat |-> Older(file[s])]
    /\ object' = [i \in Slot |-> [s \in Seat |-> Older(object[i][s])]]
    /\ load' = [h \in Handler |-> [load[h] EXCEPT !.got = [s \in Seat |-> Older(@[s])]]]
    /\ adder' = [adder EXCEPT !.mark = Aged(@)]
    /\ <<file, object, load, adder>>' # <<file, object, load, adder>>
    /\ UNCHANGED <<pool, user, deleter, sweep, logins, gone, unsaved, astray, work>>

(* The process dies and starts again; a file that does not parse is fatal  *)
(* at the start, until the operator has taken it away.                     *)
Restart ==
    LET kept == [s \in Seat |-> IF Readable(s) /\ file[s].mark # "long" THEN file[s] ELSE NoObject]
    IN  /\ More
        /\ file' = kept
        /\ UNCHANGED pool
        /\ object' = [i \in Slot |-> [s \in Seat |->
                        IF i = pool /\ kept[s] # NoObject THEN Loaded(kept[s]) ELSE NoObject]]
        /\ user' = [u \in User |-> NoUse]
        /\ adder' = NoAdd /\ deleter' = NoDelete /\ sweep' = NoSweep
        /\ load' = [h \in Handler |-> NoLoad]
        /\ unsaved' = {} /\ astray' = {}
        /\ UNCHANGED <<logins, gone>>

UserStep(u) == Judge(u) \/ Answer(u) \/ SaveRead(u) \/ SaveWrite(u)
AddStep == LoginWrites \/ KeyProbed \/ KeySaveRead \/ KeySaveWrite
SweepStep == SweepBegins \/ SweepLooks \/ SweepEnds
LoadStep(h) == ReadDir(h) \/ ReadFile(h) \/ Replace(h)

Next ==
    \/ \E u \in User : Take(u) \/ UserStep(u)
    \/ \E h \in Handler : LoadStep(h)
    \/ Resurrect
    \/ LoginOpens \/ KeyAdded \/ AddStep
    \/ DeleteLooks \/ DeleteRemoves
    \/ SweepStep
    \/ Ages \/ Restart

Fairness ==
    /\ \A u \in User : WF_vars(UserStep(u))
    /\ \A h \in Handler : WF_vars(LoadStep(h))
    /\ WF_vars(AddStep)
    /\ WF_vars(DeleteRemoves)
    /\ WF_vars(SweepStep)

Spec == Init /\ [][Next]_vars /\ Fairness
-----------------------------------------------------------------------------
(* Type invariant of the files, the objects and the handlers' state.       *)
TypeOK ==
    /\ file \in [Seat -> File \cup {NoObject, Torn}]
    /\ object \in [Slot -> [Seat -> Object \cup {NoObject}]]
    /\ pool \in Slot
    /\ \A u \in User : user[u].slot \in Slot \cup {NoSlot} /\ user[u].seat \in Seat \cup {NoSeat}
    /\ \A h \in Handler : load[h].at \in 0 .. Len(Dirs) + 1 /\ load[h].dirty \subseteq Seat
    /\ logins \in [Seat -> 0 .. MaxLogins]
    /\ unsaved \subseteq Seat /\ astray \subseteq Seat /\ gone \subseteq Seat

Quiet ==
    /\ \A u \in User : user[u].pc = "idle"
    /\ Busy = {}

(* Once no request, poller, handler or reload is under way, the pool is    *)
(* what the files say: the same seats, with the same credentials and dead  *)
(* marks.  The exceptions are the seats marked alive in memory only and    *)
(* those whose file a reload or a save of a replaced object went past.     *)
PoolIsTheFiles ==
    Quiet => \A s \in Seat \ astray :
        /\ There(s) <=> Current(s) # NoObject
        /\ There(s) => /\ Readable(s)
                       /\ Current(s).cred = file[s].cred
                       /\ s \notin unsaved => Current(s).mark = file[s].mark

(* The file of a deleted OAuth or API key seat stays away until the seat   *)
(* is added again, whatever requests and pollers still hold its object:    *)
(* only a save that had read the file before it went brings it back.       *)
DeletedStaysDeleted ==
    \A s \in gone : Family[s] # "gitlab" => ~There(s)
=============================================================================
