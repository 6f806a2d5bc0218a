------------------------- MODULE SeatFiles_proofs -------------------------
(***************************************************************************)
(* The proofs about SeatFiles: its type invariant, that a quiet pool is    *)
(* what the files say, and that a deleted seat stays away.                 *)
(*                                                                         *)
(* The inductive invariant Inv follows every change of a file or an object *)
(* up to the reload that takes it in.  Its parts:                          *)
(*   InUse      a use is counted in the object it is of, which is there;   *)
(*   Handling   a handler that is at a file does not reload yet;           *)
(*   Reloading  a reload holds what is in the files it has read, or knows  *)
(*              that they have changed since;                              *)
(*   Following  the pool agrees with the file of a seat, or the seat is in *)
(*              a handler's hands, or is known to be astray;               *)
(*   StaysGone  no save under way has read the file of a deleted seat.     *)
(* The lemmas: operators first, then one per action, in SeatFiles' order.  *)
(***************************************************************************)
EXTENDS SeatFiles, FiniteSetTheorems, TLAPS

UserState ==
  [pc : {"idle", "judging", "using", "saving", "writing"}, seat : Seat \cup {NoSeat},
   slot : Slot \cup {NoSlot}, counted : BOOLEAN]
AdderState ==
  [pc : {"idle", "opened", "probing", "saving", "writing"}, seat : Seat \cup {NoSeat},
   mark : Mark]
DeleterState == [pc : {"idle", "removing"}, seat : Seat \cup {NoSeat}]
SweepState ==
  [pc : {"idle", "looking"}, slot : Slot \cup {NoSlot}, todo : SUBSET Seat, moved : SUBSET Seat]
Load ==
  [at : 0 .. 4, pending : SUBSET Seat, got : [Seat -> Object \cup {NoObject}],
   dirty : SUBSET Seat, moved : SUBSET Seat]
Files == [Seat -> File \cup {NoObject, Torn}]
Objects == [Slot -> [Seat -> Object \cup {NoObject}]]
Users == [User -> UserState]

Typed ==
  /\ file \in Files /\ object \in Objects /\ pool \in Slot /\ user \in Users
  /\ adder \in AdderState /\ deleter \in DeleterState /\ sweep \in SweepState
  /\ logins \in [Seat -> 0 .. MaxLogins]
  /\ unsaved \subseteq Seat /\ astray \subseteq Seat /\ gone \subseteq Seat

(* Who uses an object is counted in it, and the object is there.            *)
CountedOn(users, i, s) == {u \in User : users[u].counted /\ users[u].slot = i /\ users[u].seat = s}

InUse(users, objects) ==
  /\ \A u \in User : users[u].pc = "idle" => users[u] = NoUse
  /\ \A u \in User : users[u].pc # "idle" =>
        /\ users[u].seat \in Seat /\ users[u].slot \in Slot
        /\ objects[users[u].slot][users[u].seat] # NoObject
  /\ \A i \in Slot, s \in Seat : objects[i][s] # NoObject =>
        objects[i][s].uses = Cardinality(CountedOn(users, i, s))

(* A handler that is at a file has a seat, and does not reload yet.         *)
Handling ==
  /\ IF adder.pc = "idle" THEN adder = NoAdd ELSE adder.seat \in Seat /\ load["add"].at = 0
  /\ IF deleter.pc = "idle" THEN deleter = NoDelete
                            ELSE deleter.seat \in Seat /\ load["delete"].at = 0
  /\ IF sweep.pc = "idle" THEN sweep = NoSweep ELSE load["sweep"].at = 0

(* A reload has what is in the files it has read and nobody changed since.  *)
PastIn(l, s) == l.at > 0 /\ s \notin l.pending /\ \E i \in 1 .. l.at - 1 : Dirs[i] = Family[s]
Found(f) == IF f = NoObject THEN NoObject ELSE Loaded(f)

HasRead(l, files) ==
  /\ l \in Load
  /\ l.at = 0 => l = NoLoad
  /\ \A s \in l.pending : l.at > 1 /\ Dirs[l.at - 1] = Family[s]
  /\ \A s \in Seat : l.got[s] # NoObject => l.got[s].uses = 0
  /\ \A s \in Seat :
        IF PastIn(l, s) THEN s \in l.dirty \/ (files[s] # Torn /\ l.got[s] = Found(files[s]))
                        ELSE l.got[s] = NoObject

Reloading ==
  /\ load = [h \in Handler |-> load[h]]
  /\ \A h \in Handler : HasRead(load[h], file)

(* Someone is at the file of s and will reload.                             *)
Handled(s) ==
  \/ adder.pc # "idle" /\ adder.seat = s
  \/ s \in sweep.moved
  \/ \E h \in Handler : s \in load[h].moved

(* A request or poller is about to write the mark of the pool's object.     *)
Saving(s) ==
  \E u \in User : user[u].pc \in {"saving", "writing"} /\ user[u].seat = s /\ user[u].slot = pool

Agree(s) ==
  /\ There(s) <=> Current(s) # NoObject
  /\ There(s) => /\ Readable(s)
                 /\ Current(s).cred = file[s].cred
                 /\ Current(s).mark = file[s].mark \/ s \in unsaved \/ Saving(s)

(* The pool is what the files say, or it is known to differ.                *)
Followed(s) == s \in astray \/ Handled(s) \/ Agree(s)
Following == \A s \in Seat : Followed(s)

(* No save is under way that would bring a deleted seat back.               *)
StaysGone == \A s \in gone : Family[s] # "gitlab" => ~There(s) /\ ~Rewriting(s)

Inv == Typed /\ InUse(user, object) /\ Handling /\ Reloading /\ Following /\ StaysGone

-----------------------------------------------------------------------------
(* Objects, files and loads.                                                *)

LEMMA Constants ==
  /\ Cardinality(User) \in Nat
  /\ \A S \in SUBSET User : IsFiniteSet(S) /\ Cardinality(S) \in 0 .. Cardinality(User)
<1>1. Cardinality(User) \in Nat
  BY SeatFilesAssumption, FS_CardinalityType
<1>2. ASSUME NEW S \in SUBSET User
      PROVE  IsFiniteSet(S) /\ Cardinality(S) \in 0 .. Cardinality(User)
  <2>1. IsFiniteSet(S) /\ Cardinality(S) <= Cardinality(User)
    BY SeatFilesAssumption, FS_Subset
  <2>2. Cardinality(S) \in Nat
    BY <2>1, FS_CardinalityType
  <2>3. QED
    BY <1>1, <2>1, <2>2
<1>3. QED
  BY <1>1, <1>2

(* What loadPool makes of a file.                                           *)
LEMMA LoadedObject ==
  ASSUME NEW f \in File
  PROVE  /\ Loaded(f) \in Object /\ Loaded(f) # NoObject
         /\ Loaded(f).mark = f.mark /\ Loaded(f).cred = f.cred /\ Loaded(f).uses = 0
<1>1. Loaded(f) \in Object
  <2>1. 0 \in 0 .. Cardinality(User)
    BY Constants
  <2>2. QED
    BY <2>1 DEF Loaded, File, Object
<1>2. QED
  BY <1>1, NoObjectAssumption DEF Loaded

(* The same seat as far as the files know: its uses apart.                  *)
SameSeat(o, p) ==
  /\ o = NoObject <=> p = NoObject
  /\ o # NoObject => o.mark = p.mark /\ o.cred = p.cred

(* What nobody holds is forgotten.                                          *)
LEMMA KeptInUse ==
  ASSUME NEW users \in Users, NEW objects \in Objects, InUse(users, objects),
         NEW swp, NEW cur \in Slot
  PROVE  /\ Kept(objects, users, swp, cur) \in Objects
         /\ InUse(users, Kept(objects, users, swp, cur))
         /\ Kept(objects, users, swp, cur)[cur] = objects[cur]
<1> DEFINE kept == Kept(objects, users, swp, cur)
<1>1. \A i \in Slot : kept[i] = IF i = cur \/ Held(i, users, swp) THEN objects[i]
                                                                 ELSE [s \in Seat |-> NoObject]
  BY DEF Kept
<1>2. kept \in Objects
  BY DEF Kept, Objects
<1>3. \A u \in User : users[u].slot \in Slot => kept[users[u].slot] = objects[users[u].slot]
  BY <1>1 DEF Held
<1>4. \A i \in Slot, s \in Seat : kept[i][s] # NoObject => kept[i][s] = objects[i][s]
  BY <1>1
<1> HIDE DEF kept
<1>5. InUse(users, kept)
  <2>1. \A u \in User : users[u].pc # "idle" => kept[users[u].slot][users[u].seat] # NoObject
    BY <1>3 DEF InUse
  <2>2. \A i \in Slot, s \in Seat : kept[i][s] # NoObject =>
           kept[i][s].uses = Cardinality(CountedOn(users, i, s))
    BY <1>4 DEF InUse
  <2>3. QED
    BY <2>1, <2>2 DEF InUse
<1>6. kept[cur] = objects[cur]
  BY <1>1
<1>7. QED
  BY <1>2, <1>5, <1>6 DEF kept

(* A mark changes nothing for those who use the object.                     *)
MarkedBy(objects, i, s, dead) == [objects EXCEPT ![i][s] = Marked(objects[i][s], dead)]

LEMMA MarkedInUse ==
  ASSUME NEW users, NEW objects \in Objects, InUse(users, objects),
         NEW i \in Slot, NEW s \in Seat, objects[i][s] # NoObject, NEW dead \in BOOLEAN,
         NEW marked, marked = MarkedBy(objects, i, s, dead)
  PROVE  /\ marked \in Objects /\ InUse(users, marked)
         /\ \A j \in Slot, t \in Seat : j # i \/ t # s => marked[j][t] = objects[j][t]
         /\ marked[i][s] # NoObject /\ marked[i][s].cred = objects[i][s].cred
<1> DEFINE o == Marked(objects[i][s], dead)
<1>1. objects[i][s] \in Object
  BY DEF Objects
<1>2. o \in Object /\ o.uses = objects[i][s].uses /\ o.cred = objects[i][s].cred
  <2>1. /\ o.uses = objects[i][s].uses /\ o.cred = objects[i][s].cred
        /\ o = [objects[i][s] EXCEPT !.mark = IF ~dead THEN "alive" ELSE IF @ = "alive" THEN "dead" ELSE @]
    BY <1>1 DEF Marked, Object
  <2>2. QED
    BY <1>1, <2>1 DEF Object, Mark
<1>3. o # NoObject
  BY <1>2, NoObjectAssumption
<1>4. /\ marked \in Objects /\ marked[i][s] = o
      /\ \A j \in Slot, t \in Seat : j # i \/ t # s => marked[j][t] = objects[j][t]
  <2>1. marked = [objects EXCEPT ![i][s] = o]
    BY DEF MarkedBy
  <2> HIDE DEF o
  <2>2. QED
    BY <1>2, <2>1 DEF Objects
<1> HIDE DEF o
<1>5. InUse(users, marked)
  <2>1. \A j \in Slot, t \in Seat :
           /\ marked[j][t] = NoObject <=> objects[j][t] = NoObject
           /\ marked[j][t].uses = objects[j][t].uses
    BY <1>2, <1>3, <1>4
  <2>2. QED
    BY <2>1 DEF InUse
<1>6. QED
  BY <1>2, <1>3, <1>4, <1>5 DEF o

(* A user goes on, with the object it has.                                  *)
GoneOn(users, u, next) == [users EXCEPT ![u].pc = next]

LEMMA GoesOnInUse ==
  ASSUME NEW users \in Users, NEW objects \in Objects, InUse(users, objects),
         NEW u \in User, users[u].pc # "idle",
         NEW next \in {"judging", "using", "saving", "writing"},
         NEW users2, users2 = GoneOn(users, u, next)
  PROVE  /\ users2 \in Users /\ InUse(users2, objects)
         /\ \A v \in User : v # u => users2[v] = users[v]
         /\ users2[u].pc = next /\ users2[u].seat = users[u].seat
         /\ users2[u].slot = users[u].slot /\ users2[u].counted = users[u].counted
<1>1. users[u] \in UserState /\ users2 = [users EXCEPT ![u].pc = next]
  BY DEF Users, GoneOn
<1>2. /\ \A v \in User : v # u => users2[v] = users[v]
      /\ users2[u].pc = next /\ users2[u].seat = users[u].seat
      /\ users2[u].slot = users[u].slot /\ users2[u].counted = users[u].counted
  BY <1>1 DEF Users, UserState
<1>3. users2 \in Users
  BY <1>1 DEF Users, UserState
<1>4. \A v \in User : /\ users2[v].counted = users[v].counted
                       /\ users2[v].slot = users[v].slot /\ users2[v].seat = users[v].seat
  BY <1>2
<1>5. \A i \in Slot, s \in Seat : CountedOn(users2, i, s) = CountedOn(users, i, s)
  BY <1>4 DEF CountedOn
<1>6. InUse(users2, objects)
  <2>1. \A v \in User : users2[v].pc = "idle" => users2[v] = NoUse
    BY <1>2 DEF InUse
  <2>2. \A v \in User : users2[v].pc # "idle" =>
           /\ users2[v].seat \in Seat /\ users2[v].slot \in Slot
           /\ objects[users2[v].slot][users2[v].seat] # NoObject
    BY <1>2, <1>4 DEF InUse
  <2>3. \A i \in Slot, s \in Seat : objects[i][s] # NoObject =>
           objects[i][s].uses = Cardinality(CountedOn(users2, i, s))
    BY <1>5 DEF InUse
  <2>4. QED
    BY <2>1, <2>2, <2>3 DEF InUse
<1>7. QED
  BY <1>2, <1>3, <1>6

(* A use is counted.                                                        *)
TakenBy(users, u, i, s, counted, next) ==
  [users EXCEPT ![u] = [pc |-> next, seat |-> s, slot |-> i, counted |-> counted]]
UsedBy(objects, i, s, counted) ==
  IF counted THEN [objects EXCEPT ![i][s].uses = @ + 1] ELSE objects

LEMMA TakenInUse ==
  ASSUME NEW users \in Users, NEW objects \in Objects, InUse(users, objects),
         NEW u \in User, users[u].pc = "idle",
         NEW i \in Slot, NEW s \in Seat, objects[i][s] # NoObject,
         NEW counted \in BOOLEAN, NEW next \in {"judging", "using"},
         NEW users2, users2 = TakenBy(users, u, i, s, counted, next),
         NEW objects2, objects2 = UsedBy(objects, i, s, counted)
  PROVE  /\ users2 \in Users /\ objects2 \in Objects /\ InUse(users2, objects2)
         /\ \A j \in Slot, t \in Seat : SameSeat(objects2[j][t], objects[j][t])
<1>1. /\ users2 \in Users
      /\ \A v \in User : v # u => users2[v] = users[v]
      /\ users2[u] = [pc |-> next, seat |-> s, slot |-> i, counted |-> counted]
  BY DEF Users, UserState, TakenBy
<1>2. objects[i][s] \in Object /\ users[u] = NoUse
  BY DEF Objects, InUse
<1>3. NoSlot \notin Slot
  BY SeatFilesAssumption
<1>4. \A j \in Slot, t \in Seat : ~counted \/ j # i \/ t # s =>
         CountedOn(users2, j, t) = CountedOn(users, j, t)
  BY <1>1, <1>2, <1>3 DEF CountedOn, NoUse
<1>5. CASE ~counted
  <2>1. objects2 = objects
    BY <1>5 DEF UsedBy
  <2>2. \A v \in User : users2[v].pc = "idle" => users2[v] = NoUse
    BY <1>1 DEF InUse
  <2>3. \A v \in User : users2[v].pc # "idle" =>
           /\ users2[v].seat \in Seat /\ users2[v].slot \in Slot
           /\ objects[users2[v].slot][users2[v].seat] # NoObject
    BY <1>1 DEF InUse
  <2>4. \A j \in Slot, t \in Seat : objects[j][t] # NoObject =>
           objects[j][t].uses = Cardinality(CountedOn(users2, j, t))
    BY <1>4, <1>5 DEF InUse
  <2>5. InUse(users2, objects)
    BY <2>2, <2>3, <2>4 DEF InUse
  <2>6. QED
    BY <1>1, <2>1, <2>5 DEF SameSeat
<1>6. CASE counted
  <2>1. CountedOn(users2, i, s) = CountedOn(users, i, s) \cup {u} /\ u \notin CountedOn(users, i, s)
    <3>1. users2[u].counted /\ users2[u].slot = i /\ users2[u].seat = s
      BY <1>1, <1>6
    <3>2. ~users[u].counted
      BY <1>2 DEF NoUse
    <3>3. QED
      BY <1>1, <3>1, <3>2 DEF CountedOn
  <2>2. /\ Cardinality(CountedOn(users2, i, s)) = Cardinality(CountedOn(users, i, s)) + 1
        /\ Cardinality(CountedOn(users2, i, s)) \in 0 .. Cardinality(User)
    <3>1. CountedOn(users2, i, s) \in SUBSET User /\ CountedOn(users, i, s) \in SUBSET User
      BY DEF CountedOn
    <3>2. QED
      BY <2>1, <3>1, Constants, FS_AddElement
  <2>3. objects[i][s].uses = Cardinality(CountedOn(users, i, s))
    BY DEF InUse
  <2>4. PICK o : o = [objects[i][s] EXCEPT !.uses = @ + 1]
    OBVIOUS
  <2>5. o \in Object /\ o.mark = objects[i][s].mark /\ o.cred = objects[i][s].cred
        /\ o.uses = Cardinality(CountedOn(users2, i, s))
    BY <1>2, <2>2, <2>3, <2>4 DEF Object
  <2>6. o # NoObject
    BY <2>5, NoObjectAssumption
  <2>7. /\ objects2 \in Objects /\ objects2[i][s] = o
        /\ \A j \in Slot, t \in Seat : j # i \/ t # s => objects2[j][t] = objects[j][t]
    <3>1. objects2 = [objects EXCEPT ![i][s] = o]
      BY <1>6, <2>4 DEF UsedBy
    <3>2. QED
      BY <2>5, <3>1 DEF Objects
  <2>8. InUse(users2, objects2)
    <3>1. \A v \in User : users2[v].pc # "idle" =>
             /\ users2[v].seat \in Seat /\ users2[v].slot \in Slot
             /\ objects2[users2[v].slot][users2[v].seat] # NoObject
      BY <1>1, <2>6, <2>7 DEF InUse
    <3>2. ASSUME NEW j \in Slot, NEW t \in Seat, objects2[j][t] # NoObject
          PROVE  objects2[j][t].uses = Cardinality(CountedOn(users2, j, t))
      <4>1. CASE j = i /\ t = s
        BY <2>5, <2>7, <4>1
      <4>2. CASE j # i \/ t # s
        <5>1. objects2[j][t] = objects[j][t] /\ CountedOn(users2, j, t) = CountedOn(users, j, t)
          BY <1>4, <2>7, <4>2
        <5>2. QED
          BY <3>2, <5>1 DEF InUse
      <4>3. QED
        BY <4>1, <4>2
    <3>3. \A v \in User : users2[v].pc = "idle" => users2[v] = NoUse
      BY <1>1 DEF InUse
    <3>4. QED
      BY <3>1, <3>2, <3>3 DEF InUse
  <2>9. \A j \in Slot, t \in Seat : SameSeat(objects2[j][t], objects[j][t])
    BY <2>5, <2>6, <2>7 DEF SameSeat
  <2>10. QED
    BY <1>1, <2>7, <2>8, <2>9
<1>7. QED
  BY <1>5, <1>6

(* A user leaves, and is counted no more.                                   *)
LEMMA LeftInUse ==
  ASSUME NEW users \in Users, NEW objects \in Objects, InUse(users, objects),
         NEW u \in User, users[u].pc # "idle", NEW cur \in Slot, NEW swp,
         NEW users2, users2 = [users EXCEPT ![u] = NoUse],
         NEW objects2, objects2 = Kept(IF users[u].counted
                          THEN [objects EXCEPT ![users[u].slot][users[u].seat].uses = @ - 1]
                          ELSE objects, users2, swp, cur)
  PROVE  /\ users2 \in Users /\ objects2 \in Objects /\ InUse(users2, objects2)
         /\ \A t \in Seat : SameSeat(objects2[cur][t], objects[cur][t])
<1> DEFINE i == users[u].slot
           s == users[u].seat
           less == IF users[u].counted THEN [objects EXCEPT ![i][s].uses = @ - 1] ELSE objects
<1>1. users2 \in Users /\ users2[u] = NoUse /\ \A v \in User : v # u => users2[v] = users[v]
  BY DEF Users, UserState, NoUse
<1>2. i \in Slot /\ s \in Seat /\ objects[i][s] # NoObject /\ objects[i][s] \in Object
  BY DEF InUse, Objects
<1>3. \A j \in Slot, t \in Seat : ~users[u].counted \/ j # i \/ t # s =>
         CountedOn(users2, j, t) = CountedOn(users, j, t)
  BY <1>1 DEF CountedOn, NoUse
<1>4. /\ less \in Objects /\ InUse(users2, less)
      /\ \A j \in Slot, t \in Seat : SameSeat(less[j][t], objects[j][t])
  <2>1. CASE ~users[u].counted
    <3>1. less = objects
      BY <2>1
    <3> HIDE DEF less
    <3>2. \A v \in User : users2[v].pc = "idle" => users2[v] = NoUse
      BY <1>1 DEF InUse
    <3>3. \A v \in User : users2[v].pc # "idle" =>
             /\ users2[v].seat \in Seat /\ users2[v].slot \in Slot
             /\ objects[users2[v].slot][users2[v].seat] # NoObject
      BY <1>1 DEF InUse, NoUse
    <3>4. \A j \in Slot, t \in Seat : objects[j][t] # NoObject =>
             objects[j][t].uses = Cardinality(CountedOn(users2, j, t))
      BY <1>3, <2>1 DEF InUse
    <3>5. InUse(users2, objects)
      BY <3>2, <3>3, <3>4 DEF InUse
    <3>6. QED
      BY <3>1, <3>5 DEF SameSeat
  <2>2. CASE users[u].counted
    <3>1. CountedOn(users2, i, s) = CountedOn(users, i, s) \ {u} /\ u \in CountedOn(users, i, s)
      BY <1>1, <2>2 DEF CountedOn, NoUse
    <3>2. /\ Cardinality(CountedOn(users2, i, s)) = Cardinality(CountedOn(users, i, s)) - 1
          /\ Cardinality(CountedOn(users2, i, s)) \in 0 .. Cardinality(User)
      <4>1. CountedOn(users2, i, s) \in SUBSET User /\ CountedOn(users, i, s) \in SUBSET User
        BY DEF CountedOn
      <4>2. IsFiniteSet(CountedOn(users, i, s)) /\ Cardinality(CountedOn(users, i, s)) \in Nat
        BY <4>1, Constants
      <4>3. Cardinality(CountedOn(users2, i, s)) = Cardinality(CountedOn(users, i, s)) - 1
        BY <3>1, <4>2, FS_RemoveElement
      <4>4. QED
        BY <4>1, <4>3, Constants
    <3>3. objects[i][s].uses = Cardinality(CountedOn(users, i, s))
      BY <1>2 DEF InUse
    <3>4. PICK o : o = [objects[i][s] EXCEPT !.uses = @ - 1]
      OBVIOUS
    <3>5. less = [objects EXCEPT ![i][s] = o]
      BY <2>2, <3>4
    <3> HIDE DEF less, i, s
    <3>6. o \in Object /\ o.mark = objects[i][s].mark /\ o.cred = objects[i][s].cred
          /\ o.uses = Cardinality(CountedOn(users2, i, s))
      BY <1>2, <3>2, <3>3, <3>4 DEF Object
    <3>7. o # NoObject
      BY <3>6, NoObjectAssumption
    <3>8. /\ less \in Objects /\ less[i][s] = o
          /\ \A j \in Slot, t \in Seat : j # i \/ t # s => less[j][t] = objects[j][t]
      BY <1>2, <3>5, <3>6 DEF Objects
    <3>9. \A j \in Slot, t \in Seat : less[j][t] = NoObject <=> objects[j][t] = NoObject
      BY <1>2, <3>7, <3>8
    <3>10. InUse(users2, less)
      <4>1. \A v \in User : users2[v].pc # "idle" =>
               /\ users2[v].seat \in Seat /\ users2[v].slot \in Slot
               /\ less[users2[v].slot][users2[v].seat] # NoObject
        BY <1>1, <3>9 DEF InUse, NoUse
      <4>2. ASSUME NEW j \in Slot, NEW t \in Seat, less[j][t] # NoObject
            PROVE  less[j][t].uses = Cardinality(CountedOn(users2, j, t))
        <5>1. CASE j = i /\ t = s
          BY <3>6, <3>8, <5>1
        <5>2. CASE j # i \/ t # s
          <6>1. less[j][t] = objects[j][t] /\ CountedOn(users2, j, t) = CountedOn(users, j, t)
            BY <1>3, <3>8, <5>2 DEF i, s
          <6>2. QED
            BY <4>2, <6>1 DEF InUse
        <5>3. QED
          BY <5>1, <5>2
      <4>3. \A v \in User : users2[v].pc = "idle" => users2[v] = NoUse
        BY <1>1 DEF InUse
      <4>4. QED
        BY <4>1, <4>2, <4>3 DEF InUse
    <3>11. \A j \in Slot, t \in Seat : SameSeat(less[j][t], objects[j][t])
      BY <3>6, <3>7, <3>8, <3>9 DEF SameSeat
    <3>12. QED
      BY <3>8, <3>10, <3>11
  <2>3. QED
    BY <2>1, <2>2
<1>5. objects2 = Kept(less, users2, swp, cur)
  OBVIOUS
<1> HIDE DEF less
<1>6. objects2 \in Objects /\ InUse(users2, objects2) /\ objects2[cur] = less[cur]
  <2>1. /\ Kept(less, users2, swp, cur) \in Objects /\ InUse(users2, Kept(less, users2, swp, cur))
        /\ Kept(less, users2, swp, cur)[cur] = less[cur]
    BY <1>1, <1>4, KeptInUse
  <2>2. QED
    BY <1>5, <2>1
<1>7. QED
  BY <1>1, <1>4, <1>6

(* A reload that has not begun, or has read nothing yet.                    *)
LEMMA NothingRead ==
  ASSUME NEW files, NEW seats \in SUBSET Seat
  PROVE  /\ HasRead(NoLoad, files)
         /\ HasRead([NoLoad EXCEPT !.at = 1, !.moved = seats], files)
<1>1. NoLoad \in Load /\ [NoLoad EXCEPT !.at = 1, !.moved = seats] \in Load
  <2>1. PICK none : none = [s \in Seat |-> NoObject]
    OBVIOUS
  <2>2. none \in [Seat -> Object \cup {NoObject}]
    BY <2>1
  <2>3. NoLoad = [at |-> 0, pending |-> {}, got |-> none, dirty |-> {}, moved |-> {}]
    BY <2>1 DEF NoLoad
  <2>4. NoLoad \in Load
    BY <2>2, <2>3 DEF Load
  <2>5. ASSUME NEW l \in Load PROVE [l EXCEPT !.at = 1, !.moved = seats] \in Load
    <3>1. 1 \in 0 .. 4
      OBVIOUS
    <3>2. QED
      BY <3>1 DEF Load
  <2>6. QED
    BY <2>4, <2>5
<1>2. \A s \in Seat : ~PastIn(NoLoad, s) /\ ~PastIn([NoLoad EXCEPT !.at = 1, !.moved = seats], s)
  BY DEF PastIn, NoLoad
<1>3. QED
  BY <1>1, <1>2 DEF HasRead, NoLoad

(* A file changes, and the reload that has read it is told.                 *)
Told(l, s) == IF PastIn(l, s) THEN [l EXCEPT !.dirty = @ \cup {s}] ELSE l

LEMMA ToldRead ==
  ASSUME NEW l, NEW files, HasRead(l, files), NEW s \in Seat,
         NEW files2, \A t \in Seat : t # s => files2[t] = files[t]
  PROVE  /\ HasRead(Told(l, s), files2)
         /\ Told(l, s).at = l.at /\ Told(l, s).pending = l.pending
         /\ Told(l, s).moved = l.moved /\ Told(l, s).got = l.got
<1>1. CASE PastIn(l, s)
  <2> DEFINE m == [l EXCEPT !.dirty = @ \cup {s}]
  <2>1. l \in Load
    BY DEF HasRead
  <2>2. /\ m.at = l.at /\ m.pending = l.pending /\ m.got = l.got /\ m.moved = l.moved
        /\ m.dirty = l.dirty \cup {s} /\ m \in Load
    BY <2>1 DEF Load
  <2>3. Told(l, s) = m
    BY <1>1 DEF Told
  <2> HIDE DEF m
  <2>4. m.at # 0
    BY <1>1, <2>2 DEF PastIn
  <2>5. \A t \in Seat : PastIn(m, t) <=> PastIn(l, t)
    BY <2>2 DEF PastIn
  <2>6. \A t \in Seat :
          IF PastIn(m, t) THEN t \in m.dirty \/ (files2[t] # Torn /\ m.got[t] = Found(files2[t]))
                          ELSE m.got[t] = NoObject
    <3>1. SUFFICES ASSUME NEW t \in Seat
                   PROVE IF PastIn(m, t)
                           THEN t \in m.dirty \/ (files2[t] # Torn /\ m.got[t] = Found(files2[t]))
                           ELSE m.got[t] = NoObject
      OBVIOUS
    <3>2. t = s \/ files2[t] = files[t]
      OBVIOUS
    <3>3. IF PastIn(l, t) THEN t \in l.dirty \/ (files[t] # Torn /\ l.got[t] = Found(files[t]))
                          ELSE l.got[t] = NoObject
      BY DEF HasRead
    <3>4. QED
      BY <2>2, <2>5, <3>2, <3>3
  <2>7. HasRead(m, files2)
    BY <2>2, <2>4, <2>6 DEF HasRead
  <2>8. QED
    BY <2>2, <2>3, <2>7
<1>2. CASE ~PastIn(l, s)
  <2>1. Told(l, s) = l
    BY <1>2 DEF Told
  <2>2. \A t \in Seat :
          IF PastIn(l, t) THEN t \in l.dirty \/ (files2[t] # Torn /\ l.got[t] = Found(files2[t]))
                          ELSE l.got[t] = NoObject
    <3>1. \A t \in Seat : PastIn(l, t) => files2[t] = files[t]
      BY <1>2
    <3>2. QED
      BY <3>1 DEF HasRead
  <2>3. HasRead(l, files2)
    BY <2>2 DEF HasRead
  <2>4. QED
    BY <2>1, <2>3
<1>3. QED
  BY <1>1, <1>2

(* The reload reads a directory.                                            *)
LEMMA DirRead ==
  ASSUME NEW l, NEW files, HasRead(l, files), l.at \in 1 .. 3, l.pending = {},
         NEW m, m = [l EXCEPT !.at = @ + 1,
                              !.pending = {s \in Seat : Family[s] = Dirs[l.at] /\ files[s] # NoObject}]
  PROVE  HasRead(m, files)
<1>1. l \in Load
  BY DEF HasRead
<1>2. /\ m \in Load /\ m.at = l.at + 1 /\ m.got = l.got /\ m.dirty = l.dirty
      /\ m.pending = {s \in Seat : Family[s] = Dirs[l.at] /\ files[s] # NoObject}
  <2>1. PICK S : S = {s \in Seat : Family[s] = Dirs[l.at] /\ files[s] # NoObject}
    OBVIOUS
  <2>2. S \in SUBSET Seat /\ l.at + 1 \in 0 .. 4
    BY <2>1
  <2>3. m = [l EXCEPT !.at = @ + 1, !.pending = S]
    BY <2>1
  <2>4. m \in Load /\ m.at = l.at + 1 /\ m.got = l.got /\ m.dirty = l.dirty /\ m.pending = S
    BY <1>1, <2>2, <2>3 DEF Load
  <2>5. QED
    BY <2>1, <2>4
<1>3. m.at - 1 = l.at /\ m.at > 1 /\ l.at > 0
  BY <1>2
<1>4. \A s \in m.pending : m.at > 1 /\ Dirs[m.at - 1] = Family[s]
  BY <1>2, <1>3
<1>5. ASSUME NEW s \in Seat
      PROVE  IF PastIn(m, s) THEN s \in m.dirty \/ (files[s] # Torn /\ m.got[s] = Found(files[s]))
                             ELSE m.got[s] = NoObject
  <2>1. IF PastIn(l, s) THEN s \in l.dirty \/ (files[s] # Torn /\ l.got[s] = Found(files[s]))
                        ELSE l.got[s] = NoObject
    BY DEF HasRead
  <2>2. PastIn(l, s) <=> \E i \in 1 .. l.at - 1 : Dirs[i] = Family[s]
    BY <1>3 DEF PastIn
  <2>3. \A i, j \in 1 .. 3 : Dirs[i] = Dirs[j] => i = j
    BY DEF Dirs
  <2>4. CASE Family[s] = Dirs[l.at]
    <3>1. ~PastIn(l, s)
      BY <2>2, <2>3, <2>4
    <3>2. l.got[s] = NoObject
      BY <2>1, <3>1
    <3>3. CASE files[s] = NoObject
      BY <1>2, <3>2, <3>3, NoObjectAssumption DEF Found
    <3>4. CASE files[s] # NoObject
      <4>1. s \in m.pending
        BY <1>2, <2>4, <3>4
      <4>2. QED
        BY <1>2, <3>2, <4>1 DEF PastIn
    <3>5. QED
      BY <3>3, <3>4
  <2>5. CASE Family[s] # Dirs[l.at]
    <3>1. s \notin m.pending
      BY <1>2, <2>5
    <3>2. PastIn(m, s) <=> \E i \in 1 .. l.at : Dirs[i] = Family[s]
      BY <1>2, <1>3, <3>1 DEF PastIn
    <3>3. PastIn(m, s) <=> PastIn(l, s)
      BY <2>2, <2>5, <3>2
    <3>4. QED
      BY <1>2, <2>1, <3>3
  <2>6. QED
    BY <2>4, <2>5
<1>6. \A s \in Seat : m.got[s] # NoObject => m.got[s].uses = 0
  BY <1>2 DEF HasRead
<1>7. m.at # 0
  BY <1>2
<1>8. QED
  BY <1>2, <1>4, <1>5, <1>6, <1>7 DEF HasRead

(* The reload reads a file, which it may have to move away.                 *)
MovesOn(l, s, files, files2, m) ==
  \/ /\ files2[s] = NoObject /\ \A t \in Seat : t # s => files2[t] = files[t]
     /\ m = [l EXCEPT !.pending = @ \ {s}, !.moved = @ \cup {s}]
  \/ /\ files2 = files
     /\ m = [l EXCEPT !.pending = @ \ {s}, !.got[s] = Loaded(files[s])]

LEMMA FileRead ==
  ASSUME NEW l, NEW files \in Files, HasRead(l, files), NEW s \in l.pending,
         files[s] \notin {NoObject, Torn},
         NEW files2, NEW m, MovesOn(l, s, files, files2, m)
  PROVE  HasRead(m, files2)
<1>1. l \in Load /\ s \in Seat /\ l.at > 1 /\ Dirs[l.at - 1] = Family[s]
  BY DEF HasRead, Load
<1>2. files[s] \in File
  BY <1>1 DEF Files
<1>3. Loaded(files[s]) \in Object /\ Loaded(files[s]).uses = 0
  BY <1>2, LoadedObject
<1>4. ~PastIn(l, s) /\ l.got[s] = NoObject
  BY <1>1 DEF HasRead, PastIn
<1>5. /\ m \in Load /\ m.at = l.at /\ m.pending = l.pending \ {s} /\ m.dirty = l.dirty
      /\ \A t \in Seat : t # s => m.got[t] = l.got[t]
      /\ m.got[s] = Found(files2[s]) /\ (m.got[s] # NoObject => m.got[s].uses = 0)
      /\ files2[s] # Torn
      /\ \A t \in Seat : t # s => files2[t] = files[t]
  <2>1. CASE /\ files2[s] = NoObject /\ \A t \in Seat : t # s => files2[t] = files[t]
             /\ m = [l EXCEPT !.pending = @ \ {s}, !.moved = @ \cup {s}]
    <3>1. /\ m \in Load /\ m.at = l.at /\ m.pending = l.pending \ {s} /\ m.dirty = l.dirty
          /\ m.got = l.got
      BY <1>1, <2>1 DEF Load
    <3>2. QED
      BY <1>4, <2>1, <3>1, NoObjectAssumption DEF Found
  <2>2. CASE /\ files2 = files
             /\ m = [l EXCEPT !.pending = @ \ {s}, !.got[s] = Loaded(files[s])]
    <3>1. PICK o : o = Loaded(files[s])
      OBVIOUS
    <3>2. m = [l EXCEPT !.pending = @ \ {s}, !.got = [l.got EXCEPT ![s] = o]]
      BY <2>2, <3>1
    <3>3. /\ [l.got EXCEPT ![s] = o] \in [Seat -> Object \cup {NoObject}]
          /\ [l.got EXCEPT ![s] = o][s] = o
          /\ \A t \in Seat : t # s => [l.got EXCEPT ![s] = o][t] = l.got[t]
      BY <1>1, <1>3, <3>1 DEF Load
    <3>4. /\ m \in Load /\ m.at = l.at /\ m.pending = l.pending \ {s} /\ m.dirty = l.dirty
          /\ m.got = [l.got EXCEPT ![s] = o]
      BY <1>1, <3>2, <3>3 DEF Load
    <3>5. QED
      BY <1>3, <2>2, <3>1, <3>3, <3>4 DEF Found
  <2>3. QED
    BY <2>1, <2>2 DEF MovesOn
<1>6. \A t \in m.pending : m.at > 1 /\ Dirs[m.at - 1] = Family[t]
  BY <1>5 DEF HasRead
<1>7. \A t \in Seat : m.got[t] # NoObject => m.got[t].uses = 0
  BY <1>5 DEF HasRead
<1>8. ASSUME NEW t \in Seat
      PROVE  IF PastIn(m, t) THEN t \in m.dirty \/ (files2[t] # Torn /\ m.got[t] = Found(files2[t]))
                             ELSE m.got[t] = NoObject
  <2>1. CASE t = s
    <3>1. PastIn(m, s)
      <4>1. l.at - 1 \in 1 .. m.at - 1
        BY <1>1, <1>5 DEF Load
      <4>2. QED
        BY <1>1, <1>5, <4>1 DEF PastIn, Load
    <3>2. QED
      BY <1>5, <2>1, <3>1
  <2>2. CASE t # s
    <3>1. PastIn(m, t) <=> PastIn(l, t)
      BY <1>5, <2>2 DEF PastIn
    <3>2. QED
      BY <1>5, <2>2, <3>1 DEF HasRead
  <2>3. QED
    BY <2>1, <2>2
<1>9. m.at # 0
  BY <1>1, <1>5
<1>10. QED
  BY <1>5, <1>6, <1>7, <1>8, <1>9 DEF HasRead

(* The reloads after a file has changed.                                    *)
LEMMA AfterChange ==
  ASSUME Reloading, NEW s \in Seat, NEW files, \A t \in Seat : t # s => files[t] = file[t]
  PROVE  /\ Changed(s) = [h \in Handler |-> Changed(s)[h]]
         /\ \A h \in Handler : /\ HasRead(Changed(s)[h], files)
                               /\ Changed(s)[h].at = load[h].at
                               /\ Changed(s)[h].pending = load[h].pending
                               /\ Changed(s)[h].moved = load[h].moved
                               /\ Changed(s)[h].got = load[h].got
<1>1. \A h \in Handler : Changed(s)[h] = Told(load[h], s)
  BY DEF Changed, Told, Past, PastIn
<1>2. \A h \in Handler : HasRead(load[h], file)
  BY DEF Reloading
<1>3. ASSUME NEW h \in Handler
      PROVE  /\ HasRead(Told(load[h], s), files)
             /\ Told(load[h], s).at = load[h].at /\ Told(load[h], s).pending = load[h].pending
             /\ Told(load[h], s).moved = load[h].moved /\ Told(load[h], s).got = load[h].got
  BY <1>2, ToldRead
<1>4. Changed(s) = [h \in Handler |-> Changed(s)[h]]
  BY DEF Changed
<1>5. QED
  BY <1>1, <1>3, <1>4

(* A handler reloads.                                                       *)
AllRead(loads, files) ==
  /\ loads = [h \in Handler |-> loads[h]]
  /\ \A h \in Handler : HasRead(loads[h], files)

LEMMA AfterReload ==
  ASSUME NEW loads, NEW files, AllRead(loads, files),
         NEW h \in Handler, NEW seats \in SUBSET Seat
  PROVE  /\ AllRead(Reloads(h, seats, loads), files)
         /\ Reloads(h, seats, loads)[h].moved = seats
         /\ \A g \in Handler : g # h => Reloads(h, seats, loads)[g] = loads[g]
<1> DEFINE l == [NoLoad EXCEPT !.at = 1, !.moved = seats]
<1>1. HasRead(l, files) /\ l.moved = seats
  BY NothingRead DEF NoLoad
<1>2. Reloads(h, seats, loads) = [loads EXCEPT ![h] = l]
  BY DEF Reloads
<1> HIDE DEF l
<1>3. QED
  BY <1>1, <1>2 DEF AllRead

(* A seat is followed as before when nothing about it has changed.          *)
LEMMA FollowedKept ==
  ASSUME NEW t \in Seat, Followed(t),
         t \in astray => t \in astray',
         Handled(t) => t \in astray' \/ Handled(t)',
         file'[t] = file[t], SameSeat(object'[pool'][t], object[pool][t]),
         t \in unsaved => t \in unsaved',
         Saving(t) => Saving(t)'
  PROVE  Followed(t)'
<1>1. CASE t \in astray \/ Handled(t)
  BY <1>1 DEF Followed
<1>2. CASE Agree(t)
  <2>1. Agree(t)'
    BY <1>2 DEF Agree, There, Readable, Current, SameSeat
  <2>2. QED
    BY <2>1 DEF Followed
<1>3. QED
  BY <1>1, <1>2 DEF Followed

LEMMA SavingKept ==
  ASSUME NEW u \in User, NEW t, pool' = pool,
         \A v \in User : v # u => user'[v] = user[v],
         user[u].pc \in {"saving", "writing"} /\ user[u].seat = t /\ user[u].slot = pool =>
            user'[u].pc \in {"saving", "writing"} /\ user'[u].seat = t /\ user'[u].slot = pool
  PROVE  Saving(t) => Saving(t)'
BY DEF Saving

LEMMA StaysGoneKept ==
  ASSUME Typed, StaysGone, gone' \subseteq gone,
         \A t \in gone' : Family[t] # "gitlab" =>
            /\ file[t] = NoObject => file'[t] = NoObject
            /\ Rewriting(t)' => Rewriting(t)
  PROVE  StaysGone'
BY DEF StaysGone, There

LEMMA Initially == Init => Inv
<1> SUFFICES ASSUME Init PROVE Inv
  OBVIOUS
<1>1. /\ file \in [Seat -> {NoObject} \cup [mark : {"alive", "dead"}, cred : {0}]]
      /\ pool = 1 /\ pool \in Slot
      /\ object = [i \in Slot |-> [s \in Seat |->
                     IF i = pool /\ file[s] # NoObject THEN Loaded(file[s]) ELSE NoObject]]
      /\ user = [u \in User |-> NoUse]
      /\ adder = NoAdd /\ deleter = NoDelete /\ sweep = NoSweep
      /\ load = [h \in Handler |-> NoLoad]
      /\ logins = [s \in Seat |-> 0]
      /\ unsaved = {} /\ astray = {} /\ gone = {}
  BY SeatFilesAssumption DEF Init
<1>2. \A s \in Seat : file[s] \in File \cup {NoObject} /\ file[s] # Torn
  <2>1. [mark : {"alive", "dead"}, cred : {0}] \subseteq File
    BY SeatFilesAssumption DEF File, Mark
  <2>2. QED
    BY <1>1, <2>1, NoObjectAssumption
<1>3. \A s \in Seat : object[pool][s] = IF file[s] # NoObject THEN Loaded(file[s]) ELSE NoObject
  BY <1>1
<1>4. \A i \in Slot, s \in Seat :
         /\ object[i][s] \in Object \cup {NoObject}
         /\ object[i][s] # NoObject => object[i][s].uses = 0
  BY <1>1, <1>2, LoadedObject
<1>5. Typed
  <2>1. file \in Files
    BY <1>1, <1>2 DEF Files
  <2>2. object \in Objects
    BY <1>1, <1>4 DEF Objects
  <2>3. user \in Users
    BY <1>1 DEF Users, UserState, NoUse
  <2>4. adder \in AdderState /\ deleter \in DeleterState /\ sweep \in SweepState
    BY <1>1 DEF AdderState, DeleterState, SweepState, NoAdd, NoDelete, NoSweep, Mark
  <2>5. logins \in [Seat -> 0 .. MaxLogins]
    BY <1>1, SeatFilesAssumption
  <2>6. QED
    BY <1>1, <2>1, <2>2, <2>3, <2>4, <2>5 DEF Typed
<1>6. InUse(user, object)
  <2>1. \A i \in Slot, s \in Seat : CountedOn(user, i, s) = {}
    BY <1>1 DEF CountedOn, NoUse
  <2>2. \A i \in Slot, s \in Seat : object[i][s] # NoObject =>
           object[i][s].uses = Cardinality(CountedOn(user, i, s))
    BY <1>4, <2>1, FS_EmptySet
  <2>3. \A u \in User : user[u] = NoUse /\ user[u].pc = "idle"
    BY <1>1 DEF NoUse
  <2>4. QED
    BY <2>2, <2>3 DEF InUse
<1>7. Handling
  BY <1>1 DEF Handling, NoAdd, NoDelete, NoSweep
<1>8. Reloading
  <2>1. \A h \in Handler : HasRead(load[h], file)
    BY <1>1, NothingRead
  <2>2. QED
    BY <1>1, <2>1 DEF Reloading
<1>9. Following
  <2>1. SUFFICES ASSUME NEW s \in Seat PROVE Agree(s)
    BY DEF Following, Followed
  <2>2. CASE file[s] = NoObject
    BY <1>3, <2>2 DEF Agree, There, Current
  <2>3. CASE file[s] # NoObject
    <3>1. file[s] \in File
      BY <1>2, <2>3
    <3>2. QED
      BY <1>2, <1>3, <2>3, <3>1, LoadedObject DEF Agree, There, Current, Readable
  <2>4. QED
    BY <2>2, <2>3
<1>10. StaysGone
  BY <1>1 DEF StaysGone
<1>11. QED
  BY <1>5, <1>6, <1>7, <1>8, <1>9, <1>10 DEF Inv

-----------------------------------------------------------------------------
(* Requests and pollers.                                                    *)

(* A step of theirs that writes no file.                                    *)
LEMMA UseKeeps ==
  ASSUME Inv, user' \in Users, object' \in Objects, InUse(user', object'),
         UNCHANGED <<file, pool, adder, deleter, sweep, load, logins, astray, gone>>,
         unsaved' \subseteq Seat,
         \A t \in Seat : Followed(t)',
         \A t \in gone : Family[t] # "gitlab" /\ Rewriting(t)' => Rewriting(t)
  PROVE  Inv'
<1>1. Typed'
  BY DEF Inv, Typed
<1>2. InUse(user, object)'
  BY DEF InUse, CountedOn
<1>3. Handling' /\ Reloading'
  BY DEF Inv, Handling, Reloading
<1>4. StaysGone'
  BY StaysGoneKept DEF Inv
<1>5. QED
  BY <1>1, <1>2, <1>3, <1>4 DEF Inv, Following

(* Nobody handles a seat less for what a user does.                         *)
LEMMA HandledSame ==
  ASSUME NEW t, UNCHANGED <<adder, sweep, load>>
  PROVE  Handled(t) => Handled(t)'
BY DEF Handled

(* A user leaves the objects, of which at most marks have changed.          *)
LEMMA LeavesInUse ==
  ASSUME Inv, NEW u \in User, user[u].pc # "idle",
         NEW objects \in Objects, InUse(user, objects), Leaves(u, objects)
  PROVE  /\ user' \in Users /\ object' \in Objects /\ InUse(user', object')
         /\ \A t \in Seat : SameSeat(object'[pool][t], objects[pool][t])
         /\ user'[u] = NoUse /\ \A v \in User : v # u => user'[v] = user[v]
<1>1. user \in Users /\ pool \in Slot
  BY DEF Inv, Typed
<1>2. /\ user' = [user EXCEPT ![u] = NoUse]
      /\ object' = Kept(IF user[u].counted
                          THEN [objects EXCEPT ![user[u].slot][user[u].seat].uses = @ - 1]
                          ELSE objects, user', sweep, pool)
  BY DEF Leaves
<1>3. user'[u] = NoUse /\ \A v \in User : v # u => user'[v] = user[v]
  BY <1>1, <1>2 DEF Users
<1>4. PICK users2, objects2 : users2 = user' /\ objects2 = object'
  OBVIOUS
<1>5. /\ users2 \in Users /\ objects2 \in Objects /\ InUse(users2, objects2)
      /\ \A t \in Seat : SameSeat(objects2[pool][t], objects[pool][t])
  BY <1>1, <1>2, <1>4, LeftInUse
<1>6. QED
  BY <1>3, <1>4, <1>5

LEMMA SameSeatItself == \A o : SameSeat(o, o)
BY DEF SameSeat

(* A request or poller takes an object of the pool.                         *)
LEMMA TakeKeeps == ASSUME Inv, NEW u \in User, Take(u) PROVE Inv'
<1>1. PICK s \in Seat, counted \in BOOLEAN :
          /\ Current(s) # NoObject
          /\ user' = [user EXCEPT ![u] =
                [pc |-> IF counted /\ Family[s] = "gitlab" THEN "judging" ELSE "using",
                 seat |-> s, slot |-> pool, counted |-> counted]]
          /\ object' = IF counted THEN [object EXCEPT ![pool][s].uses = @ + 1] ELSE object
  BY DEF Take
<1>2. PICK next \in {"judging", "using"} :
          next = IF counted /\ Family[s] = "gitlab" THEN "judging" ELSE "using"
  OBVIOUS
<1>3. /\ user[u].pc = "idle"
      /\ UNCHANGED <<file, pool, adder, deleter, sweep, load, logins, gone, unsaved, astray>>
  BY DEF Take
<1>4. /\ user \in Users /\ object \in Objects /\ InUse(user, object) /\ pool \in Slot
      /\ object[pool][s] # NoObject
  BY <1>1 DEF Inv, Typed, Current
<1>5. PICK users2, objects2 : users2 = user' /\ objects2 = object'
  OBVIOUS
<1>6. /\ users2 \in Users /\ objects2 \in Objects /\ InUse(users2, objects2)
      /\ \A j \in Slot, t \in Seat : SameSeat(objects2[j][t], object[j][t])
  <2>1. users2 = TakenBy(user, u, pool, s, counted, next)
    BY <1>1, <1>2, <1>5 DEF TakenBy
  <2>2. objects2 = UsedBy(object, pool, s, counted)
    BY <1>1, <1>5 DEF UsedBy
  <2>3. QED
    BY <1>3, <1>4, <2>1, <2>2, TakenInUse
<1>7. user'[u].pc = next /\ \A v \in User : v # u => user'[v] = user[v]
  BY <1>1, <1>2, <1>4 DEF Users
<1>8. \A t \in Seat : Followed(t)'
  <2>1. SUFFICES ASSUME NEW t \in Seat PROVE Followed(t)'
    OBVIOUS
  <2>2. Saving(t) => Saving(t)'
    BY <1>3, <1>7, SavingKept
  <2>3. QED
    BY <1>3, <1>4, <1>5, <1>6, <2>2, FollowedKept, HandledSame DEF Inv, Following
<1>9. \A t : Rewriting(t)' => Rewriting(t)
  BY <1>3, <1>7 DEF Rewriting
<1>10. unsaved' \subseteq Seat
  BY <1>3 DEF Inv, Typed
<1>11. QED
  BY <1>3, <1>5, <1>6, <1>8, <1>9, <1>10, UseKeeps

(* A user leaves, with no more said of its object.                          *)
LEMMA LeavingKeeps ==
  ASSUME Inv, NEW u \in User, user[u].pc # "idle", Leaves(u, object),
         UNCHANGED <<file, pool, adder, deleter, sweep, load, logins, gone, unsaved, astray>>,
         \/ user[u].pc \notin {"saving", "writing"}
         \/ user[u].pc = "saving" /\ ~Savable(user[u].seat)
  PROVE  Inv'
<1>1. object \in Objects /\ InUse(user, object)
  BY DEF Inv, Typed
<1>2. /\ user' \in Users /\ object' \in Objects /\ InUse(user', object')
      /\ \A t \in Seat : SameSeat(object'[pool][t], object[pool][t])
      /\ user'[u] = NoUse /\ \A v \in User : v # u => user'[v] = user[v]
  BY <1>1, LeavesInUse
<1>3. ASSUME NEW t \in Seat PROVE Followed(t)'
  <2>1. Followed(t)
    BY DEF Inv, Following
  <2>2. CASE user[u].pc \in {"saving", "writing"} /\ user[u].seat = t /\ user[u].slot = pool
    <3>1. ~Savable(t)
      BY <2>2
    <3>2. object[pool][t] # NoObject
      BY <1>1, <2>2 DEF InUse
    <3>3. ~Agree(t)
      BY <3>1, <3>2 DEF Agree, Savable, Current
    <3>4. t \in astray \/ Handled(t)
      BY <2>1, <3>3 DEF Followed
    <3>5. QED
      BY <3>4, HandledSame DEF Followed
  <2>3. CASE ~(user[u].pc \in {"saving", "writing"} /\ user[u].seat = t /\ user[u].slot = pool)
    <3>1. Saving(t) => Saving(t)'
      BY <1>2, <2>3, SavingKept
    <3>2. QED
      BY <1>2, <2>1, <3>1, FollowedKept, HandledSame
  <2>4. QED
    BY <2>2, <2>3
<1>4. \A t : Rewriting(t)' => Rewriting(t)
  BY <1>2 DEF Rewriting, NoUse
<1>5. unsaved' \subseteq Seat
  BY DEF Inv, Typed
<1>6. QED
  BY <1>2, <1>3, <1>4, <1>5, UseKeeps

(* A user goes on with its object as it is.                                 *)
LEMMA GoingOnKeeps ==
  ASSUME Inv, NEW u \in User, user[u].pc # "idle",
         NEW next \in {"judging", "using", "saving", "writing"},
         user' = [user EXCEPT ![u].pc = next],
         UNCHANGED <<file, object, pool, adder, deleter, sweep, load, logins, gone, unsaved, astray>>,
         user[u].pc \notin {"saving", "writing"} \/ next \in {"saving", "writing"},
         next = "writing" => Savable(user[u].seat)
  PROVE  Inv'
<1>1. user \in Users /\ object \in Objects /\ InUse(user, object)
  BY DEF Inv, Typed
<1>2. PICK users2 : users2 = user'
  OBVIOUS
<1>3. /\ users2 \in Users /\ InUse(users2, object)
      /\ \A v \in User : v # u => users2[v] = user[v]
      /\ users2[u].pc = next /\ users2[u].seat = user[u].seat /\ users2[u].slot = user[u].slot
  <2>1. users2 = GoneOn(user, u, next) /\ user[u].pc # "idle"
    BY <1>2 DEF GoneOn
  <2>2. QED
    BY <1>1, <2>1, GoesOnInUse
<1>5. ASSUME NEW t \in Seat PROVE Followed(t)'
  <2>1. Saving(t) => Saving(t)'
    BY <1>2, <1>3, SavingKept
  <2>2. QED
    BY <2>1, FollowedKept, HandledSame, SameSeatItself DEF Inv, Following
<1>6. ASSUME NEW t \in gone, Family[t] # "gitlab", Rewriting(t)' PROVE Rewriting(t)
  <2>1. ~There(t)
    BY <1>6 DEF Inv, StaysGone
  <2>2. ~Savable(t)
    BY <1>6, <2>1 DEF Savable, Readable, There
  <2>3. QED
    BY <1>2, <1>3, <1>6, <2>2 DEF Rewriting
<1>7. unsaved' \subseteq Seat /\ object' \in Objects /\ InUse(user', object')
  <2>1. object' = object /\ unsaved' = unsaved
    OBVIOUS
  <2>2. QED
    BY <1>1, <1>2, <1>3, <2>1 DEF Inv, Typed
<1>8. QED
  BY <1>2, <1>3, <1>5, <1>6, <1>7, UseKeeps

LEMMA JudgeKeeps == ASSUME Inv, NEW u \in User, Judge(u) PROVE Inv'
<1>1. /\ user[u].pc = "judging"
      /\ UNCHANGED <<file, pool, adder, deleter, sweep, load, logins, gone, unsaved, astray>>
      /\ \/ user' = [user EXCEPT ![u].pc = "using"] /\ UNCHANGED object
         \/ Leaves(u, object)
  BY DEF Judge
<1>2. CASE user' = [user EXCEPT ![u].pc = "using"] /\ UNCHANGED object
  BY <1>1, <1>2, GoingOnKeeps
<1>3. CASE Leaves(u, object)
  BY <1>1, <1>3, LeavingKeeps
<1>4. QED
  BY <1>1, <1>2, <1>3

(* The mark of the pool's object changes, and is saved or known not to be.  *)
LEMMA MarkingFollowed ==
  ASSUME NEW s \in Seat, Followed(s), UNCHANGED <<file, pool, adder, sweep, load, astray>>,
         object[pool][s] # NoObject,
         object'[pool][s] # NoObject, object'[pool][s].cred = object[pool][s].cred,
         s \in unsaved' \/ Saving(s)'
  PROVE  Followed(s)'
<1>1. CASE s \in astray \/ Handled(s)
  BY <1>1, HandledSame DEF Followed
<1>2. CASE Agree(s)
  <2>1. Agree(s)'
    BY <1>2 DEF Agree, There, Readable, Current
  <2>2. QED
    BY <2>1 DEF Followed
<1>3. QED
  BY <1>1, <1>2 DEF Followed

(* The answer marks the object, and the mark is to be saved.                *)
LEMMA MarksKeeps ==
  ASSUME Inv, NEW u \in User, user[u].pc = "using", NEW dead \in BOOLEAN,
         object' = MarkedBy(object, user[u].slot, user[u].seat, dead),
         user' = GoneOn(user, u, "saving"),
         UNCHANGED <<file, pool, adder, deleter, sweep, load, logins, gone, unsaved, astray>>
  PROVE  Inv'
<1> DEFINE i == user[u].slot
           s == user[u].seat
<1>1. /\ user \in Users /\ object \in Objects /\ InUse(user, object)
      /\ i \in Slot /\ s \in Seat /\ object[i][s] # NoObject /\ pool \in Slot
  BY DEF Inv, Typed, InUse
<1>2. PICK users2, objects2 : users2 = user' /\ objects2 = object'
  OBVIOUS
<1>3. objects2 = MarkedBy(object, i, s, dead)
  BY <1>2
<1>4. /\ objects2 \in Objects /\ InUse(user, objects2)
      /\ \A j \in Slot, t \in Seat : j # i \/ t # s => objects2[j][t] = object[j][t]
      /\ objects2[i][s] # NoObject /\ objects2[i][s].cred = object[i][s].cred
  BY <1>1, <1>3, MarkedInUse
<1>5. users2 = GoneOn(user, u, "saving") /\ user[u].pc # "idle"
  BY <1>2
<1>6. /\ users2 \in Users /\ InUse(users2, objects2)
      /\ \A v \in User : v # u => users2[v] = user[v]
      /\ users2[u].pc = "saving" /\ users2[u].seat = s /\ users2[u].slot = i
  BY <1>1, <1>4, <1>5, GoesOnInUse
<1>7. ASSUME NEW t \in Seat PROVE Followed(t)'
  <2>1. Followed(t)
    BY DEF Inv, Following
  <2>2. CASE i = pool /\ s = t
    <3>1. Saving(t)'
      BY <1>2, <1>6, <2>2 DEF Saving
    <3>2. QED
      BY <1>1, <1>2, <1>4, <2>1, <2>2, <3>1, MarkingFollowed
  <2>3. CASE i # pool \/ s # t
    <3>1. Saving(t) => Saving(t)'
      BY <1>2, <1>6, SavingKept
    <3>2. object'[pool][t] = object[pool][t]
      BY <1>1, <1>2, <1>4, <2>3
    <3>3. QED
      BY <2>1, <3>1, <3>2, FollowedKept, HandledSame, SameSeatItself
  <2>4. QED
    BY <2>2, <2>3
<1>8. \A t : Rewriting(t)' => Rewriting(t)
  BY <1>2, <1>6 DEF Rewriting
<1>9. unsaved' \subseteq Seat
  BY DEF Inv, Typed
<1>10. QED
  BY <1>2, <1>4, <1>6, <1>7, <1>8, <1>9, UseKeeps

(* The answer marks an API key's object alive and nobody saves it.          *)
LEMMA MarksOnlyKeeps ==
  ASSUME Inv, NEW u \in User, user[u].pc = "using", NEW dead \in BOOLEAN,
         Leaves(u, MarkedBy(object, user[u].slot, user[u].seat, dead)),
         unsaved' = IF user[u].slot = pool THEN unsaved \cup {user[u].seat} ELSE unsaved,
         UNCHANGED <<file, pool, adder, deleter, sweep, load, logins, gone, astray>>
  PROVE  Inv'
<1> DEFINE i == user[u].slot
           s == user[u].seat
<1>1. /\ user \in Users /\ object \in Objects /\ InUse(user, object)
      /\ i \in Slot /\ s \in Seat /\ object[i][s] # NoObject /\ pool \in Slot
  BY DEF Inv, Typed, InUse
<1>2. PICK marked : marked = MarkedBy(object, i, s, dead)
  OBVIOUS
<1>3. /\ marked \in Objects /\ InUse(user, marked)
      /\ \A j \in Slot, t \in Seat : j # i \/ t # s => marked[j][t] = object[j][t]
      /\ marked[i][s] # NoObject /\ marked[i][s].cred = object[i][s].cred
  BY <1>1, <1>2, MarkedInUse
<1>4. Leaves(u, marked)
  BY <1>2
<1>5. /\ user' \in Users /\ object' \in Objects /\ InUse(user', object')
      /\ \A t \in Seat : SameSeat(object'[pool][t], marked[pool][t])
      /\ user'[u] = NoUse /\ \A v \in User : v # u => user'[v] = user[v]
  BY <1>3, <1>4, LeavesInUse
<1>6. ASSUME NEW t \in Seat PROVE Followed(t)'
  <2>1. Followed(t)
    BY DEF Inv, Following
  <2>2. CASE i = pool /\ s = t
    <3>1. t \in unsaved'
      BY <2>2
    <3>2. /\ object[pool][t] # NoObject /\ object'[pool][t] # NoObject
          /\ object'[pool][t].cred = object[pool][t].cred
      BY <1>1, <1>3, <1>5, <2>2 DEF SameSeat
    <3>3. QED
      BY <2>1, <3>1, <3>2, MarkingFollowed
  <2>3. CASE i # pool \/ s # t
    <3>1. Saving(t) => Saving(t)'
      BY <1>5, SavingKept
    <3>2. SameSeat(object'[pool][t], object[pool][t])
      BY <1>1, <1>3, <1>5, <2>3
    <3>3. QED
      BY <2>1, <3>1, <3>2, FollowedKept, HandledSame
  <2>4. QED
    BY <2>2, <2>3
<1>7. \A t : Rewriting(t)' => Rewriting(t)
  BY <1>5 DEF Rewriting, NoUse
<1>8. unsaved' \subseteq Seat
  BY <1>1 DEF Inv, Typed
<1>9. QED
  BY <1>5, <1>6, <1>7, <1>8, UseKeeps

LEMMA AnswerKeeps == ASSUME Inv, NEW u \in User, Answer(u) PROVE Inv'
<1> DEFINE i == user[u].slot
           s == user[u].seat
<1>1. /\ user[u].pc = "using"
      /\ UNCHANGED <<file, pool, adder, deleter, sweep, load, logins, gone, astray>>
  BY DEF Answer
<1>2. \/ Leaves(u, object) /\ UNCHANGED unsaved
      \/ \E dead \in BOOLEAN : /\ object' = MarkedBy(object, i, s, dead)
                               /\ user' = GoneOn(user, u, "saving")
                               /\ UNCHANGED unsaved
      \/ /\ object' = [object EXCEPT ![i][s] = object[i][s]]
         /\ user' = [user EXCEPT ![u].pc = "saving"]
         /\ UNCHANGED unsaved
      \/ /\ Leaves(u, MarkedBy(object, i, s, FALSE))
         /\ unsaved' = IF i = pool THEN unsaved \cup {s} ELSE unsaved
  BY DEF Answer, MarkedBy, GoneOn
<1>3. CASE Leaves(u, object) /\ UNCHANGED unsaved
  BY <1>1, <1>3, LeavingKeeps
<1>4. CASE \E dead \in BOOLEAN : /\ object' = MarkedBy(object, i, s, dead)
                                 /\ user' = GoneOn(user, u, "saving")
                                 /\ UNCHANGED unsaved
  BY <1>1, <1>4, MarksKeeps
<1>5. CASE /\ object' = [object EXCEPT ![i][s] = object[i][s]]
           /\ user' = [user EXCEPT ![u].pc = "saving"]
           /\ UNCHANGED unsaved
  <2>1. object' = object
    BY <1>5 DEF Inv, Typed, Objects
  <2>2. QED
    BY <1>1, <1>5, <2>1, GoingOnKeeps
<1>6. CASE /\ Leaves(u, MarkedBy(object, i, s, FALSE))
           /\ unsaved' = IF i = pool THEN unsaved \cup {s} ELSE unsaved
  BY <1>1, <1>6, MarksOnlyKeeps
<1>7. QED
  BY <1>2, <1>3, <1>4, <1>5, <1>6

LEMMA SaveReadKeeps == ASSUME Inv, NEW u \in User, SaveRead(u) PROVE Inv'
<1>1. /\ user[u].pc = "saving"
      /\ UNCHANGED <<file, pool, adder, deleter, sweep, load, logins, gone, unsaved, astray>>
      /\ \/ /\ Savable(user[u].seat)
            /\ user' = [user EXCEPT ![u].pc = "writing"] /\ UNCHANGED object
         \/ ~Savable(user[u].seat) /\ Leaves(u, object)
  BY DEF SaveRead
<1>2. CASE /\ Savable(user[u].seat)
           /\ user' = [user EXCEPT ![u].pc = "writing"] /\ UNCHANGED object
  BY <1>1, <1>2, GoingOnKeeps
<1>3. CASE ~Savable(user[u].seat) /\ Leaves(u, object)
  BY <1>1, <1>3, LeavingKeeps
<1>4. QED
  BY <1>1, <1>2, <1>3

(* Who handles a file, and for which reload.                                *)
LEMMA HandledMoved ==
  ASSUME NEW t, UNCHANGED <<adder, sweep>>,
         \A h \in Handler : load[h].moved \subseteq load'[h].moved
  PROVE  Handled(t) => Handled(t)'
BY DEF Handled

LEMMA HandlingKept ==
  ASSUME Handling, UNCHANGED <<adder, deleter, sweep>>,
         \A h \in Handler : load'[h].at = load[h].at
  PROVE  Handling'
BY DEF Handling, Handler

(* A save renames the file it has made over whatever is there.              *)
LEMMA SaveWriteKeeps == ASSUME Inv, NEW u \in User, SaveWrite(u) PROVE Inv'
<1>0. PICK i, s, f : /\ i = user[u].slot /\ s = user[u].seat
                     /\ f = [mark |-> object[i][s].mark, cred |-> object[i][s].cred]
  OBVIOUS
<1>1. /\ user[u].pc = "writing"
      /\ file' = [file EXCEPT ![s] = f]
      /\ load' = Changed(s)
      /\ astray' = IF i # pool \/ ~There(s) THEN astray \cup {s} ELSE astray
      /\ unsaved' = IF i = pool THEN unsaved \ {s} ELSE unsaved
      /\ Leaves(u, object)
      /\ UNCHANGED <<pool, adder, deleter, sweep, logins, gone>>
  BY <1>0 DEF SaveWrite
<1>2. /\ user \in Users /\ object \in Objects /\ InUse(user, object) /\ file \in Files
      /\ i \in Slot /\ s \in Seat /\ object[i][s] # NoObject /\ pool \in Slot
  BY <1>0, <1>1 DEF Inv, Typed, InUse
<1>3. f \in File
  <2>1. object[i][s] \in Object
    BY <1>2 DEF Objects
  <2>2. QED
    BY <1>0, <2>1 DEF Object, File
<1>4. PICK files : files = file'
  OBVIOUS
<1>5. files \in Files /\ files[s] = f /\ \A t \in Seat : t # s => files[t] = file[t]
  BY <1>1, <1>2, <1>3, <1>4 DEF Files
<1>6. /\ user' \in Users /\ object' \in Objects /\ InUse(user', object')
      /\ \A t \in Seat : SameSeat(object'[pool][t], object[pool][t])
      /\ user'[u] = NoUse /\ \A v \in User : v # u => user'[v] = user[v]
  BY <1>1, <1>2, LeavesInUse
<1>7. /\ load' = [h \in Handler |-> load'[h]]
      /\ \A h \in Handler : HasRead(load'[h], files) /\ load'[h].at = load[h].at
                            /\ load'[h].moved = load[h].moved
  BY <1>1, <1>2, <1>5, AfterChange DEF Inv
<1>8. Reloading'
  BY <1>4, <1>7 DEF Reloading
<1>9. Handling'
  BY <1>1, <1>7, HandlingKept DEF Inv
<1>10. Typed'
  BY <1>1, <1>2, <1>4, <1>5, <1>6 DEF Inv, Typed
<1>11. ASSUME NEW t \in Seat PROVE Followed(t)'
  <2>1. CASE t = s /\ (i # pool \/ ~There(s))
    BY <1>1, <2>1 DEF Followed
  <2>2. CASE t = s /\ i = pool
    <3>1. /\ object'[pool][s] # NoObject
          /\ object'[pool][s].mark = f.mark /\ object'[pool][s].cred = f.cred
      BY <1>0, <1>2, <1>6, <2>2 DEF SameSeat
    <3>2. f \notin {NoObject, Torn}
      BY <1>3, NoObjectAssumption
    <3>3. Agree(s)'
      BY <1>1, <1>4, <1>5, <3>1, <3>2 DEF Agree, There, Readable, Current
    <3>4. QED
      BY <2>2, <3>3 DEF Followed
  <2>3. CASE t # s
    <3>1. Saving(t) => Saving(t)'
      BY <1>0, <1>1, <1>6, <2>3, SavingKept
    <3>2. Handled(t) => Handled(t)'
      BY <1>1, <1>7, HandledMoved
    <3>3. file'[t] = file[t] /\ Followed(t)
      BY <1>4, <1>5, <2>3 DEF Inv, Following
    <3>4. QED
      BY <1>1, <1>6, <2>3, <3>1, <3>2, <3>3, FollowedKept
  <2>4. QED
    BY <2>1, <2>2, <2>3
<1>12. StaysGone'
  <2>1. Rewriting(s)
    BY <1>0, <1>1 DEF Rewriting
  <2>2. \A t \in gone : Family[t] # "gitlab" => t # s /\ t \in Seat
    BY <2>1 DEF Inv, StaysGone, Typed
  <2>3. \A t : Rewriting(t)' => Rewriting(t)
    BY <1>1, <1>6 DEF Rewriting, NoUse
  <2>4. QED
    BY <1>1, <1>4, <1>5, <2>2, <2>3, StaysGoneKept DEF Inv
<1>13. InUse(user, object)'
  BY <1>6 DEF InUse, CountedOn
<1>14. QED
  BY <1>8, <1>9, <1>10, <1>11, <1>12, <1>13 DEF Inv, Following

(* resurrectAccount.                                                        *)
LEMMA ResurrectKeeps == ASSUME Inv, Resurrect PROVE Inv'
<1>1. PICK s \in Seat : /\ Current(s) # NoObject
                        /\ object' = MarkedBy(object, pool, s, FALSE)
                        /\ unsaved' = unsaved \cup {s}
  BY DEF Resurrect, MarkedBy
<1>2. UNCHANGED <<file, pool, user, adder, deleter, sweep, load, logins, gone, astray>>
  BY DEF Resurrect
<1>3. /\ user \in Users /\ object \in Objects /\ InUse(user, object)
      /\ object[pool][s] # NoObject /\ pool \in Slot
  BY <1>1 DEF Inv, Typed, Current
<1>4. PICK dead \in BOOLEAN : dead = FALSE
  OBVIOUS
<1>5. PICK objects2 : objects2 = object'
  OBVIOUS
<1>6. objects2 = MarkedBy(object, pool, s, dead)
  BY <1>1, <1>4, <1>5
<1>7. /\ objects2 \in Objects /\ InUse(user, objects2)
      /\ \A j \in Slot, t \in Seat : j # pool \/ t # s => objects2[j][t] = object[j][t]
      /\ objects2[pool][s] # NoObject /\ objects2[pool][s].cred = object[pool][s].cred
  BY <1>3, <1>6, MarkedInUse
<1>8. ASSUME NEW t \in Seat PROVE Followed(t)'
  <2>1. Followed(t)
    BY DEF Inv, Following
  <2>2. CASE t = s
    BY <1>1, <1>2, <1>3, <1>5, <1>7, <2>1, <2>2, MarkingFollowed
  <2>3. CASE t # s
    <3>1. Saving(t) => Saving(t)'
      BY <1>2 DEF Saving
    <3>2. object'[pool][t] = object[pool][t]
      BY <1>3, <1>5, <1>7, <2>3
    <3>3. QED
      BY <1>1, <1>2, <2>1, <3>1, <3>2, FollowedKept, HandledSame, SameSeatItself
  <2>4. QED
    BY <2>2, <2>3
<1>9. \A t : Rewriting(t)' => Rewriting(t)
  BY <1>2 DEF Rewriting
<1>10. user' \in Users /\ object' \in Objects /\ InUse(user', object') /\ unsaved' \subseteq Seat
  <2>1. user' = user
    BY <1>2
  <2>2. QED
    BY <1>1, <1>3, <1>5, <1>7, <2>1 DEF Inv, Typed
<1>11. QED
  BY <1>2, <1>8, <1>9, <1>10, UseKeeps

-----------------------------------------------------------------------------
(* The handlers that add, delete and quarantine files.                      *)

(* A step of theirs that leaves the objects alone.                          *)
LEMMA HandlerKeeps ==
  ASSUME Inv, UNCHANGED <<object, pool, user, unsaved>>,
         file' \in Files, adder' \in AdderState, deleter' \in DeleterState,
         sweep' \in SweepState, logins' \in [Seat -> 0 .. MaxLogins],
         astray' \subseteq Seat, gone' \subseteq Seat,
         Handling', Reloading', StaysGone', \A t \in Seat : Followed(t)'
  PROVE  Inv'
<1>1. Typed'
  BY DEF Inv, Typed
<1>2. InUse(user, object)'
  BY DEF Inv, InUse, CountedOn
<1>3. QED
  BY <1>1, <1>2 DEF Inv, Following

(* A seat whose file no handler has touched is followed as before.          *)
LEMMA UntouchedFollowed ==
  ASSUME Inv, UNCHANGED <<object, pool, user, unsaved>>, NEW t \in Seat,
         file'[t] = file[t], t \in astray => t \in astray',
         Handled(t) => t \in astray' \/ Handled(t)'
  PROVE  Followed(t)'
<1>1. Saving(t) => Saving(t)'
  BY DEF Saving
<1>2. Followed(t)
  BY DEF Inv, Following
<1>3. SameSeat(object'[pool'][t], object[pool][t])
  BY SameSeatItself
<1>4. QED
  BY <1>1, <1>2, <1>3, FollowedKept

(* A handler that is not reloading begins to.                               *)
AsFarAs(loads) ==
  \A g \in Handler : loads[g].at = load[g].at /\ loads[g].moved = load[g].moved
Begins(h, seats) ==
  /\ Reloading' /\ load'[h].moved = seats
  /\ \A g \in Handler : load[g].moved \subseteq load'[g].moved
  /\ \A g \in Handler : g # h => load'[g].at = load[g].at

LEMMA StartsReload ==
  ASSUME Inv, NEW h \in Handler, load[h].at = 0, NEW seats \in SUBSET Seat,
         NEW loads, AllRead(loads, file'),
         AsFarAs(loads), load' = Reloads(h, seats, loads)
  PROVE  Begins(h, seats)
<1>1. PICK files : files = file'
  OBVIOUS
<1>2. AllRead(loads, files)
  BY <1>1 DEF AllRead
<1>3. /\ AllRead(load', files)
      /\ load'[h].moved = seats
      /\ \A g \in Handler : g # h => load'[g] = loads[g]
  <2>1. /\ AllRead(Reloads(h, seats, loads), files)
        /\ Reloads(h, seats, loads)[h].moved = seats
        /\ \A g \in Handler : g # h => Reloads(h, seats, loads)[g] = loads[g]
    BY <1>2, AfterReload
  <2>2. QED
    BY <2>1
<1>4. Reloading'
  BY <1>1, <1>3 DEF Reloading, AllRead
<1>5. load[h].moved = {}
  BY DEF Inv, Reloading, HasRead, NoLoad
<1>6. QED
  BY <1>3, <1>4, <1>5 DEF Begins, AsFarAs

(* The loads as they are, or as they are after a file has changed.          *)
LEMMA LoadsAsTheyAre == ASSUME Inv, UNCHANGED file PROVE AllRead(load, file') /\ AsFarAs(load)
BY DEF Inv, Reloading, AllRead, AsFarAs

LEMMA LoadsAfterChange ==
  ASSUME Inv, NEW s \in Seat, \A t \in Seat : t # s => file'[t] = file[t]
  PROVE  AllRead(Changed(s), file') /\ AsFarAs(Changed(s))
<1>1. PICK files : files = file'
  OBVIOUS
<1>2. \A t \in Seat : t # s => files[t] = file[t]
  BY <1>1
<1>3. Reloading
  BY DEF Inv
<1>4. AllRead(Changed(s), files) /\ AsFarAs(Changed(s))
  BY <1>2, <1>3, AfterChange DEF AllRead, AsFarAs
<1>5. QED
  BY <1>1, <1>4

(* A sign-in or a key opens a file: it stands for its seat from now on.     *)
LEMMA OpensKeeps ==
  ASSUME Inv, Idle("add"), NEW s \in Seat, NEW f \in File \cup {Torn},
         file' = [file EXCEPT ![s] = f], load' = Changed(s),
         adder' \in AdderState, adder'.pc \notin {"idle", "writing"}, adder'.seat = s,
         gone' = gone \ {s}, logins' \in [Seat -> 0 .. MaxLogins],
         UNCHANGED <<object, pool, user, deleter, sweep, unsaved, astray>>
  PROVE  Inv'
<1>1. file \in Files
  BY DEF Inv, Typed
<1>2. file' \in Files /\ \A t \in Seat : t # s => file'[t] = file[t]
  BY <1>1 DEF Files
<1>3. /\ load' = [g \in Handler |-> load'[g]]
      /\ \A g \in Handler : /\ HasRead(load'[g], file')
                            /\ load'[g].at = load[g].at
                            /\ load'[g].moved = load[g].moved
  BY <1>2, LoadsAfterChange DEF AllRead, AsFarAs
<1>4. Reloading'
  BY <1>3 DEF Reloading
<1>5. adder = NoAdd /\ load["add"].at = 0
  <2>1. load["add"] \in Load
    BY DEF Inv, Reloading, HasRead, Handler
  <2>2. QED
    BY <2>1 DEF Idle, Busy, Handler, Load
<1>6. Handling'
  BY <1>3, <1>5 DEF Inv, Handling, Handler
<1>7. ASSUME NEW t \in Seat PROVE Followed(t)'
  <2>1. CASE t = s
    BY <2>1 DEF Followed, Handled
  <2>2. CASE t # s
    <3>1. Handled(t) => Handled(t)'
      BY <1>3, <1>5 DEF Handled, NoAdd
    <3>2. QED
      BY <1>2, <2>2, <3>1, UntouchedFollowed
  <2>3. QED
    BY <2>1, <2>2
<1>8. StaysGone'
  <2>1. \A t : Rewriting(t)' => Rewriting(t)
    BY DEF Rewriting
  <2>2. \A t \in gone' : t # s /\ t \in Seat
    BY DEF Inv, Typed
  <2>3. QED
    BY <1>2, <2>1, <2>2, StaysGoneKept DEF Inv
<1>9. gone' \subseteq Seat /\ deleter' \in DeleterState /\ sweep' \in SweepState /\ astray' \subseteq Seat
  BY DEF Inv, Typed
<1>10. QED
  BY <1>2, <1>4, <1>6, <1>7, <1>8, <1>9, HandlerKeeps

LEMMA LoginOpensKeeps == ASSUME Inv, LoginOpens PROVE Inv'
<1>1. /\ Idle("add")
      /\ UNCHANGED <<object, pool, user, deleter, sweep, unsaved, astray>>
  BY DEF LoginOpens
<1>2. PICK s \in Seat :
          /\ logins[s] < MaxLogins
          /\ adder' = [NoAdd EXCEPT !.pc = "opened", !.seat = s]
          /\ file' = [file EXCEPT ![s] = Torn]
          /\ logins' = [logins EXCEPT ![s] = @ + 1]
          /\ gone' = gone \ {s}
          /\ load' = Changed(s)
  BY DEF LoginOpens
<1>3. adder' \in AdderState /\ adder'.pc = "opened" /\ adder'.seat = s
  BY <1>2 DEF NoAdd, AdderState, Mark
<1>4. logins' \in [Seat -> 0 .. MaxLogins]
  BY <1>2, SeatFilesAssumption DEF Inv, Typed
<1>5. PICK f \in File \cup {Torn} : f = Torn
  OBVIOUS
<1>6. QED
  BY <1>1, <1>2, <1>3, <1>4, <1>5, OpensKeeps

LEMMA KeyAddedKeeps == ASSUME Inv, KeyAdded PROVE Inv'
<1>1. /\ Idle("add")
      /\ UNCHANGED <<object, pool, user, deleter, sweep, logins, unsaved, astray>>
  BY DEF KeyAdded
<1>2. PICK s \in Seat :
          /\ file' = [file EXCEPT ![s] = [mark |-> "alive", cred |-> 0]]
          /\ load' = Changed(s)
          /\ adder' = [pc |-> "probing", seat |-> s, mark |-> "alive"]
          /\ gone' = gone \ {s}
  BY DEF KeyAdded
<1>3. adder' \in AdderState /\ adder'.pc = "probing" /\ adder'.seat = s
  BY <1>2 DEF AdderState, Mark
<1>4. logins' \in [Seat -> 0 .. MaxLogins]
  BY <1>1 DEF Inv, Typed
<1>5. [mark |-> "alive", cred |-> 0] \in File \cup {Torn}
  BY SeatFilesAssumption DEF File, Mark
<1>6. QED
  BY <1>1, <1>2, <1>3, <1>4, <1>5, OpensKeeps

(* The sign-in or key handler is done with its file, and reloads.           *)
LEMMA AddEndsKeeps ==
  ASSUME Inv, adder.pc # "idle", NEW s, s = adder.seat, file' \in Files,
         \A t \in Seat : t # s => file'[t] = file[t],
         \/ load' = Reloads("add", {s}, load) /\ UNCHANGED file
         \/ load' = Reloads("add", {s}, Changed(s)),
         s \in gone /\ Family[s] # "gitlab" => file'[s] = file[s],
         adder' = NoAdd,
         UNCHANGED <<object, pool, user, deleter, sweep, logins, gone, unsaved, astray>>
  PROVE  Inv'
<1>0. PICK h \in Handler : h = "add"
  BY DEF Handler
<1>1. s \in Seat /\ load[h].at = 0
  BY <1>0 DEF Inv, Handling
<1>2. Begins(h, {s})
  <2>1. CASE load' = Reloads("add", {s}, load) /\ UNCHANGED file
    BY <1>0, <1>1, <2>1, LoadsAsTheyAre, StartsReload
  <2>2. CASE load' = Reloads("add", {s}, Changed(s))
    <3>1. AllRead(Changed(s), file') /\ AsFarAs(Changed(s))
      BY <1>1, LoadsAfterChange
    <3>2. load' = Reloads(h, {s}, Changed(s))
      BY <1>0, <2>2
    <3>3. QED
      BY <1>1, <3>1, <3>2, StartsReload
  <2>3. QED
    BY <2>1, <2>2
<1>3. Handling'
  BY <1>0, <1>2 DEF Inv, Handling, Handler, NoAdd, Begins
<1>4. ASSUME NEW t \in Seat PROVE Followed(t)'
  <2>1. CASE t = s
    BY <1>1, <1>2, <2>1 DEF Followed, Handled, Begins
  <2>2. CASE t # s
    <3>1. Handled(t) => Handled(t)'
      BY <1>2, <2>2 DEF Handled, Begins
    <3>2. QED
      BY <2>2, <3>1, UntouchedFollowed
  <2>3. QED
    BY <2>1, <2>2
<1>5. StaysGone'
  <2>1. \A t : Rewriting(t)' => Rewriting(t)
    BY DEF Rewriting, NoAdd
  <2>2. \A t \in gone : Family[t] # "gitlab" => file'[t] = file[t]
    BY DEF Inv, Typed
  <2>3. QED
    BY <2>1, <2>2, StaysGoneKept DEF Inv
<1>6. /\ adder' \in AdderState /\ deleter' \in DeleterState /\ sweep' \in SweepState
      /\ gone' \subseteq Seat /\ astray' \subseteq Seat /\ logins' \in [Seat -> 0 .. MaxLogins]
  BY DEF Inv, Typed, AdderState, NoAdd, Mark
<1>7. QED
  BY <1>2, <1>3, <1>4, <1>5, <1>6, HandlerKeeps DEF Begins

(* The key handler goes on at its file.                                     *)
LEMMA AdderGoesOnKeeps ==
  ASSUME Inv, adder.pc # "idle", adder' \in AdderState, adder'.pc # "idle",
         adder'.seat = adder.seat, adder'.pc = "writing" => Savable(adder.seat),
         UNCHANGED <<file, object, pool, user, deleter, sweep, load, logins, gone, unsaved, astray>>
  PROVE  Inv'
<1>1. Reloading' /\ Handling'
  BY DEF Inv, Reloading, Handling
<1>2. ASSUME NEW t \in Seat PROVE Followed(t)'
  <2>1. Handled(t) => Handled(t)'
    BY DEF Handled
  <2>2. QED
    BY <2>1, UntouchedFollowed
<1>3. StaysGone'
  <2>1. ASSUME NEW t \in gone, Family[t] # "gitlab", Rewriting(t)' PROVE Rewriting(t)
    <3>1. ~Savable(t)
      BY <2>1 DEF Inv, StaysGone, There, Savable, Readable
    <3>2. QED
      BY <2>1, <3>1 DEF Rewriting
  <2>2. QED
    BY <2>1, StaysGoneKept DEF Inv
<1>4. /\ file' \in Files /\ deleter' \in DeleterState /\ sweep' \in SweepState
      /\ gone' \subseteq Seat /\ astray' \subseteq Seat /\ logins' \in [Seat -> 0 .. MaxLogins]
  BY DEF Inv, Typed
<1>5. QED
  BY <1>1, <1>2, <1>3, <1>4, HandlerKeeps

LEMMA LoginWritesKeeps == ASSUME Inv, LoginWrites PROVE Inv'
<1>1. PICK s : s = adder.seat
  OBVIOUS
<1>2. /\ adder.pc = "opened" /\ adder' = NoAdd
      /\ UNCHANGED <<object, pool, user, deleter, sweep, logins, gone, unsaved, astray>>
      /\ \/ /\ file[s] = Torn
            /\ file' = [file EXCEPT ![s] = [mark |-> "alive", cred |-> logins[s]]]
            /\ load' = Reloads("add", {s}, Changed(s))
         \/ load' = Reloads("add", {s}, load) /\ UNCHANGED file
  BY <1>1 DEF LoginWrites
<1>3. s \in Seat /\ file \in Files /\ logins[s] \in 0 .. MaxLogins
  BY <1>1, <1>2 DEF Inv, Handling, Typed
<1>4. CASE load' = Reloads("add", {s}, load) /\ UNCHANGED file
  BY <1>1, <1>2, <1>3, <1>4, AddEndsKeeps
<1>5. CASE /\ file[s] = Torn
           /\ file' = [file EXCEPT ![s] = [mark |-> "alive", cred |-> logins[s]]]
           /\ load' = Reloads("add", {s}, Changed(s))
  <2>1. [mark |-> "alive", cred |-> logins[s]] \in File
    BY <1>3 DEF File, Mark
  <2>2. file' \in Files /\ \A t \in Seat : t # s => file'[t] = file[t]
    BY <1>3, <1>5, <2>1 DEF Files
  <2>3. ~(s \in gone /\ Family[s] # "gitlab")
    BY <1>5, NoObjectAssumption DEF Inv, StaysGone, There
  <2>4. QED
    BY <1>1, <1>2, <1>5, <2>2, <2>3, AddEndsKeeps
<1>6. QED
  BY <1>2, <1>4, <1>5

LEMMA KeyProbedKeeps == ASSUME Inv, KeyProbed PROVE Inv'
<1>1. /\ adder.pc = "probing"
      /\ UNCHANGED <<file, object, pool, user, deleter, sweep, load, logins, gone, unsaved, astray>>
  BY DEF KeyProbed
<1>2. PICK mark \in {"alive", "dead"} : adder' = [adder EXCEPT !.pc = "saving", !.mark = mark]
  BY DEF KeyProbed
<1>3. adder \in AdderState
  BY DEF Inv, Typed
<1>4. adder' \in AdderState /\ adder'.pc = "saving" /\ adder'.seat = adder.seat
  BY <1>2, <1>3 DEF AdderState, Mark
<1>5. QED
  BY <1>1, <1>4, AdderGoesOnKeeps

LEMMA KeySaveReadKeeps == ASSUME Inv, KeySaveRead PROVE Inv'
<1>1. /\ adder.pc = "saving"
      /\ UNCHANGED <<file, object, pool, user, deleter, sweep, logins, gone, unsaved, astray>>
      /\ \/ Savable(adder.seat) /\ adder' = [adder EXCEPT !.pc = "writing"] /\ UNCHANGED load
         \/ adder' = NoAdd /\ load' = Reloads("add", {adder.seat}, load)
  BY DEF KeySaveRead
<1>2. adder \in AdderState /\ file \in Files
  BY DEF Inv, Typed
<1>3. CASE Savable(adder.seat) /\ adder' = [adder EXCEPT !.pc = "writing"] /\ UNCHANGED load
  <2>1. adder' \in AdderState /\ adder'.pc = "writing" /\ adder'.seat = adder.seat
    BY <1>2, <1>3 DEF AdderState
  <2>2. QED
    BY <1>1, <1>3, <2>1, AdderGoesOnKeeps
<1>4. CASE adder' = NoAdd /\ load' = Reloads("add", {adder.seat}, load)
  BY <1>1, <1>2, <1>4, AddEndsKeeps
<1>5. QED
  BY <1>1, <1>3, <1>4

LEMMA KeySaveWriteKeeps == ASSUME Inv, KeySaveWrite PROVE Inv'
<1>1. PICK s : s = adder.seat
  OBVIOUS
<1>2. /\ adder.pc = "writing" /\ adder' = NoAdd
      /\ file' = [file EXCEPT ![s] = [mark |-> adder.mark, cred |-> 0]]
      /\ load' = Reloads("add", {s}, Changed(s))
      /\ UNCHANGED <<object, pool, user, deleter, sweep, logins, gone, unsaved, astray>>
  BY <1>1 DEF KeySaveWrite
<1>3. s \in Seat /\ file \in Files /\ adder \in AdderState
  BY <1>1, <1>2 DEF Inv, Handling, Typed
<1>4. [mark |-> adder.mark, cred |-> 0] \in File
  BY <1>3, SeatFilesAssumption DEF AdderState, File
<1>5. file' \in Files /\ \A t \in Seat : t # s => file'[t] = file[t]
  BY <1>2, <1>3, <1>4 DEF Files
<1>6. ~(s \in gone /\ Family[s] # "gitlab")
  BY <1>1, <1>2 DEF Inv, StaysGone, Rewriting
<1>7. QED
  BY <1>1, <1>2, <1>5, <1>6, AddEndsKeeps

(* A handler that is idle neither is at a file nor reloads.                 *)
LEMMA IdleHandler ==
  ASSUME Inv, NEW h \in Handler, Idle(h)
  PROVE  /\ load[h].at = 0
         /\ h = "delete" => deleter = NoDelete
         /\ h = "sweep" => sweep = NoSweep
<1>1. load[h] \in Load
  BY DEF Inv, Reloading, HasRead
<1>2. QED
  BY <1>1 DEF Idle, Busy, Load

LEMMA DeleteLooksKeeps == ASSUME Inv, DeleteLooks PROVE Inv'
<1>1. /\ Idle("delete")
      /\ UNCHANGED <<file, object, pool, user, adder, sweep, load, logins, gone, unsaved, astray>>
  BY DEF DeleteLooks
<1>2. PICK s \in Seat : deleter' = [pc |-> "removing", seat |-> s]
  BY DEF DeleteLooks
<1>3. load["delete"].at = 0
  BY <1>1, IdleHandler DEF Handler
<1>4. Reloading' /\ Handling'
  BY <1>1, <1>2, <1>3 DEF Inv, Reloading, Handling
<1>5. ASSUME NEW t \in Seat PROVE Followed(t)'
  <2>1. Handled(t) => Handled(t)'
    BY <1>1 DEF Handled
  <2>2. QED
    BY <1>1, <2>1, UntouchedFollowed
<1>6. StaysGone'
  <2>1. \A t : Rewriting(t)' => Rewriting(t)
    BY <1>1 DEF Rewriting
  <2>2. QED
    BY <1>1, <2>1, StaysGoneKept DEF Inv
<1>7. /\ file' \in Files /\ adder' \in AdderState /\ deleter' \in DeleterState
      /\ sweep' \in SweepState /\ gone' \subseteq Seat /\ astray' \subseteq Seat
      /\ logins' \in [Seat -> 0 .. MaxLogins]
  BY <1>1, <1>2 DEF Inv, Typed, DeleterState
<1>8. QED
  BY <1>1, <1>4, <1>5, <1>6, <1>7, HandlerKeeps

LEMMA DeleteRemovesKeeps == ASSUME Inv, DeleteRemoves PROVE Inv'
<1>1. PICK s : s = deleter.seat
  OBVIOUS
<1>2. /\ deleter.pc = "removing" /\ deleter' = NoDelete
      /\ file' = [file EXCEPT ![s] = NoObject]
      /\ load' = Reloads("delete", {s}, IF There(s) THEN Changed(s) ELSE load)
      /\ gone' = IF Rewriting(s) THEN gone ELSE gone \cup {s}
      /\ UNCHANGED <<object, pool, user, adder, sweep, logins, unsaved, astray>>
  BY <1>1 DEF DeleteRemoves, AfterDelete
<1>0. PICK h \in Handler : h = "delete"
  BY DEF Handler
<1>3. s \in Seat /\ load[h].at = 0 /\ file \in Files
  BY <1>0, <1>1, <1>2 DEF Inv, Handling, Typed
<1>4. file' \in Files /\ file'[s] = NoObject /\ \A t \in Seat : t # s => file'[t] = file[t]
  BY <1>2, <1>3 DEF Files
<1>5. Begins(h, {s})
  <2>1. CASE ~There(s)
    <3>1. UNCHANGED file
      BY <1>2, <1>3, <2>1 DEF Files, There
    <3>2. load' = Reloads(h, {s}, load)
      BY <1>0, <1>2, <2>1
    <3>3. QED
      BY <1>3, <3>1, <3>2, LoadsAsTheyAre, StartsReload
  <2>2. CASE There(s)
    <3>1. AllRead(Changed(s), file') /\ AsFarAs(Changed(s))
      BY <1>3, <1>4, LoadsAfterChange
    <3>2. load' = Reloads(h, {s}, Changed(s))
      BY <1>0, <1>2, <2>2
    <3>3. QED
      BY <1>3, <3>1, <3>2, StartsReload
  <2>3. QED
    BY <2>1, <2>2
<1>6. Handling'
  BY <1>0, <1>2, <1>5 DEF Inv, Handling, Handler, NoDelete, Begins
<1>7. ASSUME NEW t \in Seat PROVE Followed(t)'
  <2>1. CASE t = s
    BY <1>3, <1>5, <2>1 DEF Followed, Handled, Begins
  <2>2. CASE t # s
    <3>1. Handled(t) => Handled(t)'
      BY <1>2, <1>5 DEF Handled, Begins
    <3>2. QED
      BY <1>2, <1>4, <2>2, <3>1, UntouchedFollowed
  <2>3. QED
    BY <2>1, <2>2
<1>8. StaysGone'
  <2>1. \A t : Rewriting(t)' => Rewriting(t)
    BY <1>2 DEF Rewriting
  <2>2. ASSUME NEW t \in gone', Family[t] # "gitlab"
        PROVE  ~There(t)' /\ ~Rewriting(t)'
    <3>1. CASE t \in gone
      <4>1. ~There(t) /\ ~Rewriting(t) /\ t \in Seat
        BY <2>2, <3>1 DEF Inv, StaysGone, Typed
      <4>2. QED
        BY <1>4, <2>1, <4>1 DEF There
    <3>2. CASE t \notin gone
      BY <1>2, <1>4, <2>1, <2>2, <3>2 DEF There
    <3>3. QED
      BY <3>1, <3>2
  <2>3. QED
    BY <2>2 DEF StaysGone
<1>9. /\ adder' \in AdderState /\ deleter' \in DeleterState
      /\ sweep' \in SweepState /\ gone' \subseteq Seat /\ astray' \subseteq Seat
      /\ logins' \in [Seat -> 0 .. MaxLogins]
  BY <1>2, <1>3 DEF Inv, Typed, DeleterState, NoDelete
<1>10. QED
  BY <1>2, <1>4, <1>5, <1>6, <1>7, <1>8, <1>9, HandlerKeeps DEF Begins

(* The cleanup of long dead seats.                                          *)
LEMMA SweepBeginsKeeps == ASSUME Inv, SweepBegins PROVE Inv'
<1>1. /\ Idle("sweep")
      /\ sweep' = [pc |-> "looking", slot |-> pool,
                   todo |-> {s \in Seat : Current(s) # NoObject}, moved |-> {}]
      /\ UNCHANGED <<file, object, pool, user, adder, deleter, load, logins, gone, unsaved, astray>>
  BY DEF SweepBegins
<1>2. load["sweep"].at = 0 /\ sweep = NoSweep
  BY <1>1, IdleHandler DEF Handler
<1>3. sweep' \in SweepState /\ sweep'.pc = "looking" /\ sweep'.moved = {}
  <2>1. PICK S \in SUBSET Seat : S = {s \in Seat : Current(s) # NoObject}
    OBVIOUS
  <2>2. sweep' = [pc |-> "looking", slot |-> pool, todo |-> S, moved |-> {}] /\ pool \in Slot
    BY <1>1, <2>1 DEF Inv, Typed
  <2>3. QED
    BY <2>2 DEF SweepState
<1>4. Reloading' /\ Handling'
  BY <1>1, <1>2, <1>3 DEF Inv, Reloading, Handling
<1>5. ASSUME NEW t \in Seat PROVE Followed(t)'
  <2>1. Handled(t) => Handled(t)'
    BY <1>1, <1>2 DEF Handled, NoSweep
  <2>2. QED
    BY <1>1, <2>1, UntouchedFollowed
<1>6. StaysGone'
  <2>1. \A t : Rewriting(t)' => Rewriting(t)
    BY <1>1 DEF Rewriting
  <2>2. QED
    BY <1>1, <2>1, StaysGoneKept DEF Inv
<1>7. /\ file' \in Files /\ adder' \in AdderState /\ deleter' \in DeleterState
      /\ gone' \subseteq Seat /\ astray' \subseteq Seat
      /\ logins' \in [Seat -> 0 .. MaxLogins]
  BY <1>1 DEF Inv, Typed
<1>8. QED
  BY <1>1, <1>3, <1>4, <1>5, <1>6, <1>7, HandlerKeeps

(* It ends: with its reload, or without because a file had gone.            *)
LEMMA SweepLeavesKeeps ==
  ASSUME Inv, sweep.pc = "looking", sweep' = NoSweep,
         object' = Kept(object, user, NoSweep, pool),
         UNCHANGED <<file, pool, user, adder, deleter, logins, gone, unsaved>>,
         \/ load' = load /\ astray' = astray \cup sweep.moved
         \/ load' = Reloads("sweep", sweep.moved, load) /\ astray' = astray
  PROVE  Inv'
<1>0. PICK h \in Handler : h = "sweep"
  BY DEF Handler
<1>1. /\ user \in Users /\ object \in Objects /\ InUse(user, object) /\ pool \in Slot
      /\ load[h].at = 0 /\ sweep.moved \in SUBSET Seat
  BY <1>0 DEF Inv, Typed, Handling, SweepState
<1>2. /\ object' \in Objects /\ InUse(user, object') /\ object'[pool] = object[pool]
  <2>1. PICK objects2 : objects2 = object'
    OBVIOUS
  <2>2. /\ objects2 \in Objects /\ InUse(user, objects2) /\ objects2[pool] = object[pool]
    BY <1>1, <2>1, KeptInUse
  <2>3. QED
    BY <2>1, <2>2
<1>3. /\ Reloading' /\ Handling'
      /\ \A t \in Seat : Handled(t) => t \in astray' \/ Handled(t)'
  <2>1. CASE load' = load /\ astray' = astray \cup sweep.moved
    <3>1. Reloading' /\ Handling'
      BY <2>1 DEF Inv, Reloading, Handling, NoSweep
    <3>2. \A t \in Seat : Handled(t) => t \in astray' \/ Handled(t)'
      BY <2>1 DEF Handled
    <3>3. QED
      BY <3>1, <3>2
  <2>2. CASE load' = Reloads("sweep", sweep.moved, load)
    <3>1. AllRead(load, file') /\ AsFarAs(load)
      BY LoadsAsTheyAre
    <3>2. load' = Reloads(h, sweep.moved, load)
      BY <1>0, <2>2
    <3>3. Begins(h, sweep.moved)
      BY <1>1, <3>1, <3>2, StartsReload
    <3>4. Handling'
      BY <1>0, <3>3 DEF Inv, Handling, Handler, NoSweep, Begins
    <3>5. \A t \in Seat : Handled(t) => Handled(t)'
      BY <3>3 DEF Handled, Begins
    <3>6. QED
      BY <3>3, <3>4, <3>5 DEF Begins
  <2>3. QED
    BY <2>1, <2>2
<1>4. ASSUME NEW t \in Seat PROVE Followed(t)'
  <2>1. Saving(t) => Saving(t)'
    BY DEF Saving
  <2>2. SameSeat(object'[pool][t], object[pool][t]) /\ Followed(t)
    BY <1>2, SameSeatItself DEF Inv, Following
  <2>3. QED
    BY <1>3, <2>1, <2>2, FollowedKept
<1>5. StaysGone'
  <2>1. \A t : Rewriting(t)' => Rewriting(t)
    BY DEF Rewriting
  <2>2. QED
    BY <2>1, StaysGoneKept DEF Inv
<1>6. Typed'
  BY <1>1, <1>2 DEF Inv, Typed, SweepState, NoSweep
<1>7. InUse(user, object)'
  BY <1>2 DEF InUse, CountedOn
<1>8. QED
  BY <1>3, <1>4, <1>5, <1>6, <1>7 DEF Inv, Following

LEMMA SweepLooksKeeps == ASSUME Inv, SweepLooks PROVE Inv'
<1>1. /\ sweep.pc = "looking"
      /\ UNCHANGED <<pool, user, adder, deleter, logins, gone, unsaved>>
  BY DEF SweepLooks
<1>2. PICK s \in sweep.todo :
         \/ sweep' = [sweep EXCEPT !.todo = @ \ {s}] /\ UNCHANGED <<file, load, object, astray>>
         \/ /\ sweep' = [sweep EXCEPT !.todo = @ \ {s}, !.moved = @ \cup {s}]
            /\ file' = [file EXCEPT ![s] = NoObject]
            /\ load' = Changed(s)
            /\ UNCHANGED <<object, astray>>
         \/ /\ sweep' = NoSweep
            /\ object' = Kept(object, user, NoSweep, pool)
            /\ astray' = astray \cup sweep.moved
            /\ UNCHANGED <<file, load>>
  BY DEF SweepLooks
<1>3. sweep \in SweepState /\ s \in Seat /\ file \in Files
  BY DEF Inv, Typed, SweepState
<1>4. /\ adder' \in AdderState /\ deleter' \in DeleterState /\ gone' \subseteq Seat
      /\ logins' \in [Seat -> 0 .. MaxLogins]
  BY <1>1 DEF Inv, Typed
<1>5. \A t : Rewriting(t)' => Rewriting(t)
  BY <1>1 DEF Rewriting
<1>6. CASE sweep' = [sweep EXCEPT !.todo = @ \ {s}] /\ UNCHANGED <<file, load, object, astray>>
  <2>1. sweep' \in SweepState /\ sweep'.pc = "looking" /\ sweep'.moved = sweep.moved
    BY <1>1, <1>3, <1>6 DEF SweepState
  <2>2. Reloading' /\ Handling'
    BY <1>1, <1>6, <2>1 DEF Inv, Reloading, Handling
  <2>3. ASSUME NEW t \in Seat PROVE Followed(t)'
    <3>1. Handled(t) => Handled(t)'
      BY <1>1, <1>6, <2>1 DEF Handled
    <3>2. QED
      BY <1>1, <1>6, <3>1, UntouchedFollowed
  <2>4. StaysGone'
    BY <1>1, <1>5, <1>6, StaysGoneKept DEF Inv
  <2>5. file' \in Files /\ astray' \subseteq Seat
    BY <1>6 DEF Inv, Typed
  <2>6. QED
    BY <1>1, <1>4, <1>6, <2>1, <2>2, <2>3, <2>4, <2>5, HandlerKeeps
<1>7. CASE /\ sweep' = [sweep EXCEPT !.todo = @ \ {s}, !.moved = @ \cup {s}]
           /\ file' = [file EXCEPT ![s] = NoObject]
           /\ load' = Changed(s)
           /\ UNCHANGED <<object, astray>>
  <2>1. sweep' \in SweepState /\ sweep'.pc = "looking" /\ sweep'.moved = sweep.moved \cup {s}
    BY <1>1, <1>3, <1>7 DEF SweepState
  <2>2. file' \in Files /\ file'[s] = NoObject /\ \A t \in Seat : t # s => file'[t] = file[t]
    BY <1>3, <1>7 DEF Files
  <2>3. AllRead(load', file') /\ AsFarAs(load')
    <3>1. AllRead(Changed(s), file') /\ AsFarAs(Changed(s))
      BY <1>3, <2>2, LoadsAfterChange
    <3>2. QED
      BY <1>7, <3>1
  <2>4. Reloading'
    BY <2>3 DEF AllRead, Reloading
  <2>5. Handling'
    BY <1>1, <2>1, <2>3 DEF Inv, Handling, Handler, AsFarAs
  <2>6. ASSUME NEW t \in Seat PROVE Followed(t)'
    <3>1. Handled(t) => Handled(t)'
      BY <1>1, <2>1, <2>3 DEF Handled, AsFarAs
    <3>2. CASE t = s
      BY <2>1, <3>2 DEF Followed, Handled
    <3>3. CASE t # s
      BY <1>1, <1>7, <2>2, <3>1, <3>3, UntouchedFollowed
    <3>4. QED
      BY <3>2, <3>3
  <2>7. StaysGone'
    <3>1. \A t \in gone : file[t] = NoObject => file'[t] = NoObject
      BY <2>2 DEF Inv, Typed
    <3>2. QED
      BY <1>1, <1>5, <3>1, StaysGoneKept DEF Inv
  <2>8. astray' \subseteq Seat
    BY <1>7 DEF Inv, Typed
  <2>9. QED
    BY <1>1, <1>4, <1>7, <2>1, <2>2, <2>4, <2>5, <2>6, <2>7, <2>8, HandlerKeeps
<1>8. CASE /\ sweep' = NoSweep
           /\ object' = Kept(object, user, NoSweep, pool)
           /\ astray' = astray \cup sweep.moved
           /\ UNCHANGED <<file, load>>
  BY <1>1, <1>8, SweepLeavesKeeps
<1>9. QED
  BY <1>2, <1>6, <1>7, <1>8

LEMMA SweepEndsKeeps == ASSUME Inv, SweepEnds PROVE Inv'
<1>1. /\ sweep.pc = "looking" /\ sweep' = NoSweep
      /\ object' = Kept(object, user, NoSweep, pool)
      /\ UNCHANGED <<file, pool, user, adder, deleter, logins, gone, unsaved, astray>>
      /\ load' = IF sweep.moved # {} THEN Reloads("sweep", sweep.moved, load) ELSE load
  BY DEF SweepEnds
<1>2. CASE sweep.moved # {}
  <2>1. load' = Reloads("sweep", sweep.moved, load) /\ astray' = astray
    BY <1>1, <1>2
  <2>2. QED
    BY <1>1, <2>1, SweepLeavesKeeps
<1>3. CASE sweep.moved = {}
  <2>1. load' = load /\ astray' = astray \cup sweep.moved
    BY <1>1, <1>3
  <2>2. QED
    BY <1>1, <2>1, SweepLeavesKeeps
<1>4. QED
  BY <1>2, <1>3

-----------------------------------------------------------------------------
(* reloadAccounts.                                                          *)

(* A reload under way is nobody's who is at a file.                         *)
LEMMA ReloadHandling ==
  ASSUME Inv, NEW h \in Handler, load[h].at # 0,
         UNCHANGED <<adder, deleter, sweep>>, \A g \in Handler : g # h => load'[g].at = load[g].at
  PROVE  Handling'
BY DEF Inv, Handling, Handler

LEMMA ReadDirKeeps == ASSUME Inv, NEW h \in Handler, ReadDir(h) PROVE Inv'
<1>1. PICK l, m : /\ l = load[h]
                  /\ m = [l EXCEPT !.at = @ + 1,
                            !.pending = {s \in Seat : Family[s] = Dirs[l.at] /\ file[s] # NoObject}]
  OBVIOUS
<1>2. /\ l.at \in 1 .. 3 /\ l.pending = {}
      /\ load' = [load EXCEPT ![h] = m]
      /\ UNCHANGED <<file, object, pool, user, adder, deleter, sweep, logins, gone, unsaved, astray>>
  <2>1. DOMAIN Dirs = 1 .. 3
    BY DEF Dirs
  <2>2. load' = [load EXCEPT ![h] = [l EXCEPT !.at = @ + 1,
                    !.pending = {s \in Seat : Family[s] = Dirs[l.at] /\ file[s] # NoObject}]]
    BY <1>1 DEF ReadDir, There
  <2>3. QED
    BY <1>1, <2>1, <2>2 DEF ReadDir
<1>3. AllRead(load, file) /\ HasRead(l, file) /\ l \in Load
  BY <1>1 DEF Inv, Reloading, AllRead, HasRead
<1>4. HasRead(m, file) /\ m.moved = l.moved
  <2>1. HasRead(m, file)
    BY <1>1, <1>2, <1>3, DirRead
  <2>2. m.moved = l.moved
    BY <1>1, <1>3 DEF Load
  <2>3. QED
    BY <2>1, <2>2
<1>5. load'[h] = m /\ \A g \in Handler : g # h => load'[g] = load[g]
  BY <1>2, <1>3 DEF AllRead
<1>6. Reloading'
  BY <1>2, <1>3, <1>4, <1>5 DEF AllRead, Reloading
<1>7. Handling'
  BY <1>1, <1>2, <1>5, ReloadHandling
<1>8. ASSUME NEW t \in Seat PROVE Followed(t)'
  <2>1. Handled(t) => Handled(t)'
    BY <1>1, <1>2, <1>4, <1>5 DEF Handled
  <2>2. QED
    BY <1>2, <2>1, UntouchedFollowed
<1>9. StaysGone'
  <2>1. \A t : Rewriting(t)' => Rewriting(t)
    BY <1>2 DEF Rewriting
  <2>2. QED
    BY <1>2, <2>1, StaysGoneKept DEF Inv
<1>10. /\ file' \in Files /\ adder' \in AdderState /\ deleter' \in DeleterState
       /\ sweep' \in SweepState /\ gone' \subseteq Seat /\ astray' \subseteq Seat
       /\ logins' \in [Seat -> 0 .. MaxLogins]
  BY <1>2 DEF Inv, Typed
<1>11. QED
  BY <1>2, <1>6, <1>7, <1>8, <1>9, <1>10, HandlerKeeps

(* loadPool reads a file, moves it away, or ends at it.                     *)
LEMMA ReadFileKeeps == ASSUME Inv, NEW h \in Handler, ReadFile(h) PROVE Inv'
<1>1. PICK l : l = load[h]
  OBVIOUS
<1>2. UNCHANGED <<object, pool, user, adder, deleter, sweep, logins, gone, unsaved>>
  BY DEF ReadFile
<1>3. PICK s \in l.pending :
         \/ /\ load' = [load EXCEPT ![h] = NoLoad] /\ astray' = astray \cup l.moved
            /\ UNCHANGED file
         \/ /\ Readable(s) /\ file' = [file EXCEPT ![s] = NoObject] /\ UNCHANGED astray
            /\ load' = [Changed(s) EXCEPT ![h].pending = @ \ {s}, ![h].moved = @ \cup {s}]
         \/ /\ Readable(s) /\ UNCHANGED <<file, astray>>
            /\ load' = [load EXCEPT ![h].pending = @ \ {s}, ![h].got[s] = Loaded(file[s])]
  BY <1>1 DEF ReadFile
<1>4. /\ AllRead(load, file) /\ HasRead(l, file) /\ l \in Load /\ s \in Seat
      /\ l.at > 1 /\ file \in Files
  BY <1>1 DEF Inv, Reloading, AllRead, HasRead, Load, Typed
<1>5. \A t : Rewriting(t)' => Rewriting(t)
  BY <1>2 DEF Rewriting
<1>6. /\ adder' \in AdderState /\ deleter' \in DeleterState
      /\ sweep' \in SweepState /\ gone' \subseteq Seat
      /\ logins' \in [Seat -> 0 .. MaxLogins]
  BY <1>2 DEF Inv, Typed
<1>7. CASE /\ load' = [load EXCEPT ![h] = NoLoad] /\ astray' = astray \cup l.moved
           /\ UNCHANGED file
  <2>1. load'[h] = NoLoad /\ \A g \in Handler : g # h => load'[g] = load[g]
    BY <1>4, <1>7 DEF AllRead
  <2>2. HasRead(NoLoad, file)
    BY NothingRead
  <2>3. Reloading'
    BY <1>4, <1>7, <2>1, <2>2 DEF AllRead, Reloading
  <2>4. Handling'
    BY <1>1, <1>2, <1>4, <2>1, ReloadHandling
  <2>5. ASSUME NEW t \in Seat PROVE Followed(t)'
    <3>1. Handled(t) => t \in astray' \/ Handled(t)'
      BY <1>1, <1>2, <1>7, <2>1 DEF Handled
    <3>2. QED
      BY <1>2, <1>7, <3>1, UntouchedFollowed
  <2>6. StaysGone'
    BY <1>2, <1>5, <1>7, StaysGoneKept DEF Inv
  <2>7. file' \in Files /\ astray' \subseteq Seat
    BY <1>4, <1>7 DEF Inv, Typed, Load
  <2>8. QED
    BY <1>2, <1>6, <2>3, <2>4, <2>5, <2>6, <2>7, HandlerKeeps
<1>8. CASE /\ Readable(s) /\ file' = [file EXCEPT ![s] = NoObject] /\ UNCHANGED astray
           /\ load' = [Changed(s) EXCEPT ![h].pending = @ \ {s}, ![h].moved = @ \cup {s}]
  <2>1. PICK m : m = [l EXCEPT !.pending = @ \ {s}, !.moved = @ \cup {s}]
    OBVIOUS
  <2>2. PICK files : files = file'
    OBVIOUS
  <2>3. files \in Files /\ files[s] = NoObject /\ \A t \in Seat : t # s => files[t] = file[t]
    BY <1>4, <1>8, <2>2 DEF Files
  <2>4. HasRead(m, files) /\ m.at = l.at /\ m.moved = l.moved \cup {s}
    <3>1. MovesOn(l, s, file, files, m)
      BY <2>1, <2>3 DEF MovesOn
    <3>2. HasRead(m, files)
      BY <1>4, <1>8, <3>1, FileRead DEF Readable
    <3>3. QED
      BY <1>4, <2>1, <3>2 DEF Load
  <2>5. AllRead(Changed(s), files) /\ AsFarAs(Changed(s))
    BY <1>4, <2>2, <2>3, LoadsAfterChange
  <2>6. Changed(s)[h] = l
    BY <1>1, <1>4 DEF Changed, Past
  <2>7. load' = [Changed(s) EXCEPT ![h] = m]
    BY <1>8, <2>1, <2>5, <2>6 DEF AllRead
  <2>8. load'[h] = m /\ \A g \in Handler : g # h => load'[g] = Changed(s)[g]
    BY <2>5, <2>7 DEF AllRead
  <2>9. Reloading'
    BY <2>2, <2>4, <2>5, <2>7, <2>8 DEF AllRead, Reloading
  <2>10. Handling'
    BY <1>1, <1>2, <1>4, <2>5, <2>8, ReloadHandling DEF AsFarAs
  <2>11. ASSUME NEW t \in Seat PROVE Followed(t)'
    <3>1. Handled(t) => Handled(t)'
      BY <1>1, <1>2, <2>4, <2>5, <2>8 DEF Handled, AsFarAs
    <3>2. CASE t = s
      BY <2>4, <2>8, <3>2 DEF Followed, Handled
    <3>3. CASE t # s
      BY <1>2, <1>8, <2>2, <2>3, <3>1, <3>3, UntouchedFollowed
    <3>4. QED
      BY <3>2, <3>3
  <2>12. StaysGone'
    <3>1. \A t \in gone : file[t] = NoObject => file'[t] = NoObject
      BY <2>2, <2>3 DEF Inv, Typed
    <3>2. QED
      BY <1>2, <1>5, <3>1, StaysGoneKept DEF Inv
  <2>13. file' \in Files /\ astray' \subseteq Seat
    BY <1>8, <2>2, <2>3 DEF Inv, Typed
  <2>14. QED
    BY <1>2, <1>6, <2>9, <2>10, <2>11, <2>12, <2>13, HandlerKeeps
<1>9. CASE /\ Readable(s) /\ UNCHANGED <<file, astray>>
           /\ load' = [load EXCEPT ![h].pending = @ \ {s}, ![h].got[s] = Loaded(file[s])]
  <2>1. PICK m : m = [l EXCEPT !.pending = @ \ {s}, !.got[s] = Loaded(file[s])]
    OBVIOUS
  <2>2. HasRead(m, file) /\ m.at = l.at /\ m.moved = l.moved
    <3>1. MovesOn(l, s, file, file, m)
      BY <2>1 DEF MovesOn
    <3>2. HasRead(m, file)
      BY <1>4, <1>9, <3>1, FileRead DEF Readable
    <3>3. QED
      BY <1>4, <2>1, <3>2 DEF Load
  <2>3. load' = [load EXCEPT ![h] = m]
    BY <1>1, <1>4, <1>9, <2>1 DEF AllRead
  <2>4. load'[h] = m /\ \A g \in Handler : g # h => load'[g] = load[g]
    BY <1>4, <2>3 DEF AllRead
  <2>5. Reloading'
    BY <1>4, <1>9, <2>2, <2>3, <2>4 DEF AllRead, Reloading
  <2>6. Handling'
    BY <1>1, <1>2, <1>4, <2>4, ReloadHandling
  <2>7. ASSUME NEW t \in Seat PROVE Followed(t)'
    <3>1. Handled(t) => Handled(t)'
      BY <1>1, <1>2, <2>2, <2>4 DEF Handled
    <3>2. QED
      BY <1>2, <1>9, <3>1, UntouchedFollowed
  <2>8. StaysGone'
    BY <1>2, <1>5, <1>9, StaysGoneKept DEF Inv
  <2>9. file' \in Files /\ astray' \subseteq Seat
    BY <1>4, <1>9 DEF Inv, Typed
  <2>10. QED
    BY <1>2, <1>6, <2>5, <2>6, <2>7, <2>8, <2>9, HandlerKeeps
<1>10. QED
  BY <1>3, <1>7, <1>8, <1>9

(* The pool that was read takes the place of the current one.               *)
LEMMA ReplaceKeeps == ASSUME Inv, NEW h \in Handler, Replace(h) PROVE Inv'
<1>1. PICK l : l = load[h]
  OBVIOUS
<1>2. PICK i \in Slot : /\ ~Held(i, user, sweep) /\ pool' = i
                        /\ object' = Kept([object EXCEPT ![i] = l.got], user, sweep, i)
  BY <1>1 DEF Replace, Free
<1>3. /\ l.at > 3 /\ l.pending = {}
      /\ load' = [load EXCEPT ![h] = NoLoad] /\ astray' = l.dirty /\ unsaved' = {}
      /\ UNCHANGED <<file, user, adder, deleter, sweep, logins, gone>>
  <2>1. Len(Dirs) = 3
    BY DEF Dirs
  <2>2. QED
    BY <1>1, <2>1 DEF Replace
<1>4. AllRead(load, file) /\ HasRead(l, file) /\ l \in Load
  BY <1>1 DEF Inv, Reloading, AllRead, HasRead
<1>5. user \in Users /\ object \in Objects /\ InUse(user, object) /\ file \in Files
  BY DEF Inv, Typed
<1>6. PICK objects2 : objects2 = [object EXCEPT ![i] = l.got]
  OBVIOUS
<1>7. /\ objects2 \in Objects /\ objects2[i] = l.got
      /\ \A j \in Slot : j # i => objects2[j] = object[j]
  BY <1>4, <1>5, <1>6 DEF Objects, Load
<1>8. InUse(user, objects2)
  <2>1. \A u \in User : user[u].slot # i
    BY <1>2 DEF Held
  <2>2. \A u \in User : user[u].pc # "idle" =>
           /\ user[u].seat \in Seat /\ user[u].slot \in Slot
           /\ objects2[user[u].slot][user[u].seat] # NoObject
    BY <1>5, <1>7, <2>1 DEF InUse
  <2>3. ASSUME NEW j \in Slot, NEW s \in Seat, objects2[j][s] # NoObject
        PROVE  objects2[j][s].uses = Cardinality(CountedOn(user, j, s))
    <3>1. CASE j = i
      <4>1. CountedOn(user, j, s) = {}
        BY <2>1, <3>1 DEF CountedOn
      <4>2. objects2[j][s].uses = 0
        BY <1>4, <1>7, <2>3, <3>1 DEF HasRead
      <4>3. QED
        BY <4>1, <4>2, FS_EmptySet
    <3>2. CASE j # i
      BY <1>5, <1>7, <2>3, <3>2 DEF InUse
    <3>3. QED
      BY <3>1, <3>2
  <2>4. QED
    BY <1>5, <2>2, <2>3 DEF InUse
<1>9. /\ object' \in Objects /\ InUse(user', object') /\ object'[i] = l.got
  <2>1. PICK objects3 : objects3 = object'
    OBVIOUS
  <2>2. objects3 = Kept(objects2, user, sweep, i)
    BY <1>2, <1>6, <2>1
  <2>3. objects3 \in Objects /\ InUse(user, objects3) /\ objects3[i] = objects2[i]
    BY <1>5, <1>7, <1>8, <2>2, KeptInUse
  <2>4. user' = user
    BY <1>3
  <2>5. QED
    BY <1>7, <2>1, <2>3, <2>4
<1>10. load'[h] = NoLoad /\ \A g \in Handler : g # h => load'[g] = load[g]
  BY <1>3, <1>4 DEF AllRead
<1>11. Reloading'
  <2>1. HasRead(NoLoad, file)
    BY NothingRead
  <2>2. QED
    BY <1>3, <1>4, <1>10, <2>1 DEF AllRead, Reloading
<1>12. Handling'
  BY <1>1, <1>3, <1>10, ReloadHandling
<1>13. ASSUME NEW t \in Seat PROVE Followed(t)'
  <2>1. PastIn(l, t)
    <3>1. Family[t] = Dirs[1] \/ Family[t] = Dirs[2] \/ Family[t] = Dirs[3]
      BY SeatFilesAssumption DEF Dirs
    <3>2. l.at = 4
      BY <1>3, <1>4 DEF Load
    <3>3. QED
      BY <1>3, <3>1, <3>2 DEF PastIn
  <2>2. t \in l.dirty \/ (file[t] # Torn /\ l.got[t] = Found(file[t]))
    BY <1>4, <2>1 DEF HasRead
  <2>3. CASE t \in l.dirty
    BY <1>3, <2>3 DEF Followed
  <2>4. CASE file[t] # Torn /\ l.got[t] = Found(file[t])
    <3>1. object'[pool'][t] = Found(file[t]) /\ file' = file
      BY <1>2, <1>3, <1>9, <2>4
    <3>2. Agree(t)'
      <4>1. CASE file[t] = NoObject
        BY <3>1, <4>1 DEF Agree, There, Current, Found
      <4>2. CASE file[t] # NoObject
        <5>1. file[t] \in File
          BY <1>5, <2>4, <4>2 DEF Files
        <5>2. /\ object'[pool'][t] # NoObject /\ object'[pool'][t].cred = file[t].cred
              /\ object'[pool'][t].mark = file[t].mark
          BY <3>1, <4>2, <5>1, LoadedObject DEF Found
        <5>3. QED
          BY <2>4, <3>1, <4>2, <5>2 DEF Agree, There, Current, Readable
      <4>3. QED
        BY <4>1, <4>2
    <3>3. QED
      BY <3>2 DEF Followed
  <2>5. QED
    BY <2>2, <2>3, <2>4
<1>14. StaysGone'
  <2>1. \A t : Rewriting(t)' => Rewriting(t)
    BY <1>3 DEF Rewriting
  <2>2. QED
    BY <1>3, <2>1, StaysGoneKept DEF Inv
<1>15. Typed'
  BY <1>2, <1>3, <1>4, <1>5, <1>9 DEF Inv, Typed, Load
<1>16. InUse(user, object)'
  BY <1>9 DEF InUse, CountedOn
<1>17. QED
  BY <1>11, <1>12, <1>13, <1>14, <1>15, <1>16 DEF Inv, Following

-----------------------------------------------------------------------------
(* Time, and a restart.                                                     *)

(* 72 hours pass for an object or a file: only a dead mark is another.      *)
LEMMA OlderOne ==
  ASSUME NEW o \in File \cup Object
  PROVE  /\ Older(o).mark = Aged(o.mark) /\ Older(o).cred = o.cred
         /\ o \in File => Older(o) \in File
         /\ o \in Object => Older(o) \in Object /\ Older(o).uses = o.uses
         /\ Older(o) # NoObject
<1>1. Older(o) = [o EXCEPT !.mark = Aged(@)]
  BY NoObjectAssumption DEF Older
<1>2. /\ o \in File => o.mark \in Mark /\ [o EXCEPT !.mark = Aged(@)] \in File
      /\ o \in Object => o.mark \in Mark /\ [o EXCEPT !.mark = Aged(@)] \in Object
  BY DEF File, Object, Mark, Aged
<1>3. /\ [o EXCEPT !.mark = Aged(@)].mark = Aged(o.mark)
      /\ [o EXCEPT !.mark = Aged(@)].cred = o.cred
      /\ o \in Object => [o EXCEPT !.mark = Aged(@)].uses = o.uses
  BY DEF File, Object
<1>4. QED
  BY <1>1, <1>2, <1>3, NoObjectAssumption

LEMMA OlderNone == Older(NoObject) = NoObject /\ Older(Torn) = Torn
BY DEF Older

(* What loadPool makes of an older file is an older object.                 *)
LEMMA OlderFound ==
  ASSUME NEW f \in File \cup {NoObject}
  PROVE  Older(Found(f)) = Found(Older(f))
<1>1. CASE f = NoObject
  BY <1>1, OlderNone DEF Found
<1>2. CASE f \in File
  <2>1. f # NoObject /\ Older(f) # NoObject /\ Loaded(f) \in Object
    BY <1>2, OlderOne, LoadedObject, NoObjectAssumption
  <2>2. Older(Loaded(f)) = [Loaded(f) EXCEPT !.mark = Aged(@)]
    BY <2>1, NoObjectAssumption DEF Older
  <2>3. [Loaded(f) EXCEPT !.mark = Aged(@)] = [mark |-> Aged(f.mark), cred |-> f.cred, uses |-> 0]
    BY DEF Loaded
  <2>4. Loaded(Older(f)) = [mark |-> Aged(f.mark), cred |-> f.cred, uses |-> 0]
    BY <1>2, OlderOne DEF Loaded
  <2>5. QED
    BY <2>1, <2>2, <2>3, <2>4 DEF Found
<1>3. QED
  BY <1>1, <1>2

(* A reload that has read files holds older objects.                        *)
AgedLoad(l) == [l EXCEPT !.got = [s \in Seat |-> Older(l.got[s])]]

LEMMA AgedRead ==
  ASSUME NEW l, NEW files \in Files, HasRead(l, files),
         NEW files2, files2 = [s \in Seat |-> Older(files[s])]
  PROVE  /\ HasRead(AgedLoad(l), files2)
         /\ AgedLoad(l).at = l.at /\ AgedLoad(l).moved = l.moved
<1>1. PICK m : m = AgedLoad(l)
  OBVIOUS
<1>2. PICK got : got = [s \in Seat |-> Older(l.got[s])]
  OBVIOUS
<1>3. l \in Load
  BY DEF HasRead
<1>4. got \in [Seat -> Object \cup {NoObject}] /\ \A s \in Seat : got[s] = Older(l.got[s])
  <2>1. \A s \in Seat : Older(l.got[s]) \in Object \cup {NoObject}
    BY <1>3, OlderOne, OlderNone DEF Load
  <2>2. QED
    BY <1>2, <2>1
<1>5. /\ m \in Load /\ m.at = l.at /\ m.pending = l.pending /\ m.dirty = l.dirty
      /\ m.moved = l.moved /\ m.got = got
  <2>1. m = [l EXCEPT !.got = got]
    BY <1>1, <1>2 DEF AgedLoad
  <2>2. QED
    BY <1>3, <1>4, <2>1 DEF Load
<1>6. m.at = 0 => m = NoLoad
  <2>1. SUFFICES ASSUME m.at = 0 PROVE m = NoLoad
    OBVIOUS
  <2>2. l = NoLoad
    BY <1>5, <2>1 DEF HasRead
  <2>3. got = [s \in Seat |-> NoObject]
    BY <1>2, <2>2, OlderNone DEF NoLoad
  <2>4. m = [NoLoad EXCEPT !.got = [s \in Seat |-> NoObject]]
    BY <1>1, <1>2, <2>2, <2>3 DEF AgedLoad
  <2>5. QED
    BY <2>4 DEF NoLoad
<1>7. \A s \in m.pending : m.at > 1 /\ Dirs[m.at - 1] = Family[s]
  BY <1>5 DEF HasRead
<1>8. ASSUME NEW s \in Seat
      PROVE  /\ m.got[s] # NoObject => m.got[s].uses = 0
             /\ IF PastIn(m, s) THEN s \in m.dirty \/ (files2[s] # Torn /\ m.got[s] = Found(files2[s]))
                                ELSE m.got[s] = NoObject
  <2>1. m.got[s] = Older(l.got[s]) /\ files2[s] = Older(files[s])
    BY <1>4, <1>5
  <2>2. PastIn(m, s) <=> PastIn(l, s)
    BY <1>5 DEF PastIn
  <2>3. l.got[s] # NoObject => l.got[s].uses = 0 /\ l.got[s] \in Object
    BY <1>3 DEF HasRead, Load
  <2>4. m.got[s] # NoObject => m.got[s].uses = 0
    BY <2>1, <2>3, OlderOne, OlderNone
  <2>5. CASE ~PastIn(l, s)
    BY <2>1, <2>2, <2>4, <2>5, OlderNone DEF HasRead
  <2>6. CASE PastIn(l, s) /\ s \in l.dirty
    BY <1>5, <2>2, <2>4, <2>6
  <2>7. CASE PastIn(l, s) /\ files[s] # Torn /\ l.got[s] = Found(files[s])
    <3>1. files[s] \in File \cup {NoObject}
      BY <2>7 DEF Files
    <3>2. Older(files[s]) = NoObject \/ Older(files[s]) \in File
      BY <3>1, OlderOne, OlderNone
    <3>3. m.got[s] = Found(files2[s])
      BY <2>1, <2>7, <3>1, OlderFound
    <3>4. files2[s] # Torn
      BY <2>1, <3>2, NoObjectAssumption
    <3>5. QED
      BY <2>2, <2>4, <2>7, <3>3, <3>4
  <2>8. QED
    BY <2>5, <2>6, <2>7 DEF HasRead
<1>9. HasRead(m, files2)
  BY <1>5, <1>6, <1>7, <1>8 DEF HasRead
<1>10. QED
  BY <1>1, <1>5, <1>9

LEMMA AgesKeeps == ASSUME Inv, Ages PROVE Inv'
<1>1. /\ file' = [s \in Seat |-> Older(file[s])]
      /\ object' = [i \in Slot |-> [s \in Seat |-> Older(object[i][s])]]
      /\ load' = [h \in Handler |-> AgedLoad(load[h])]
      /\ adder' = [adder EXCEPT !.mark = Aged(@)]
      /\ UNCHANGED <<pool, user, deleter, sweep, logins, gone, unsaved, astray>>
  BY DEF Ages, AgedLoad
<1>2. /\ file \in Files /\ object \in Objects /\ pool \in Slot /\ InUse(user, object)
      /\ adder \in AdderState
  BY DEF Inv, Typed
<1>3. PICK files, objects2 : files = file' /\ objects2 = object'
  OBVIOUS
<1>4. /\ files \in Files
      /\ \A s \in Seat : files[s] = Older(file[s])
  <2>1. \A s \in Seat : Older(file[s]) \in File \cup {NoObject, Torn}
    BY <1>2, OlderOne, OlderNone DEF Files
  <2>2. QED
    BY <1>1, <1>3, <2>1 DEF Files
<1>5. ASSUME NEW i \in Slot, NEW s \in Seat
      PROVE  /\ objects2[i][s] \in Object \cup {NoObject}
             /\ objects2[i][s] = NoObject <=> object[i][s] = NoObject
             /\ objects2[i][s] # NoObject =>
                   /\ objects2[i][s].uses = object[i][s].uses
                   /\ objects2[i][s].cred = object[i][s].cred
                   /\ objects2[i][s].mark = Aged(object[i][s].mark)
  <2>1. objects2[i][s] = Older(object[i][s])
    BY <1>1, <1>3
  <2>2. object[i][s] \in Object \cup {NoObject}
    BY <1>2 DEF Objects
  <2>3. QED
    BY <2>1, <2>2, OlderOne, OlderNone
<1>6. objects2 \in Objects
  <2>1. objects2 = [i \in Slot |-> [s \in Seat |-> objects2[i][s]]]
    BY <1>1, <1>3
  <2>2. QED
    BY <1>5, <2>1 DEF Objects
<1>7. InUse(user', object')
  <2>1. user' = user
    BY <1>1
  <2>2. \A u \in User : user[u].pc = "idle" => user[u] = NoUse
    BY <1>2 DEF InUse
  <2>3. \A u \in User : user[u].pc # "idle" =>
           /\ user[u].seat \in Seat /\ user[u].slot \in Slot
           /\ objects2[user[u].slot][user[u].seat] # NoObject
    BY <1>2, <1>5 DEF InUse
  <2>4. \A i \in Slot, s \in Seat : objects2[i][s] # NoObject =>
           objects2[i][s].uses = Cardinality(CountedOn(user, i, s))
    BY <1>2, <1>5 DEF InUse
  <2>5. InUse(user, objects2)
    BY <2>2, <2>3, <2>4 DEF InUse
  <2>6. QED
    BY <1>3, <2>1, <2>5
<1>8. /\ load' = [h \in Handler |-> load'[h]]
      /\ \A h \in Handler : HasRead(load'[h], files) /\ load'[h].at = load[h].at
                            /\ load'[h].moved = load[h].moved
  <2>1. files = [s \in Seat |-> Older(file[s])]
    BY <1>1, <1>3
  <2>2. ASSUME NEW h \in Handler
        PROVE  /\ HasRead(AgedLoad(load[h]), files) /\ AgedLoad(load[h]).at = load[h].at
               /\ AgedLoad(load[h]).moved = load[h].moved
    <3>1. PICK l : l = load[h]
      OBVIOUS
    <3>2. HasRead(l, file)
      BY <3>1 DEF Inv, Reloading
    <3>3. /\ HasRead(AgedLoad(l), files) /\ AgedLoad(l).at = l.at
          /\ AgedLoad(l).moved = l.moved
      BY <1>2, <2>1, <3>2, AgedRead
    <3>4. QED
      BY <3>1, <3>3
  <2>3. QED
    BY <1>1, <2>2
<1>9. Reloading'
  BY <1>3, <1>8 DEF Reloading
<1>10. /\ adder' \in AdderState /\ adder'.pc = adder.pc /\ adder'.seat = adder.seat
       /\ adder = NoAdd => adder' = NoAdd
  <2>1. adder' \in AdderState /\ adder'.pc = adder.pc /\ adder'.seat = adder.seat
    BY <1>1, <1>2 DEF AdderState, Aged, Mark
  <2>2. adder = NoAdd => adder' = NoAdd
    BY <1>1 DEF NoAdd, Aged
  <2>3. QED
    BY <2>1, <2>2
<1>11. Handling'
  BY <1>1, <1>8, <1>10 DEF Inv, Handling, Handler
<1>12. ASSUME NEW t \in Seat PROVE Followed(t)'
  <2>1. Followed(t)
    BY DEF Inv, Following
  <2>2. CASE t \in astray
    BY <1>1, <2>2 DEF Followed
  <2>3. CASE Handled(t)
    BY <1>1, <1>8, <1>10, <2>3 DEF Followed, Handled
  <2>4. CASE Agree(t)
    <3>1. CASE file[t] = NoObject
      <4>1. files[t] = NoObject /\ object[pool][t] = NoObject
        BY <1>4, <2>4, <3>1, OlderNone DEF Agree, There, Current
      <4>2. objects2[pool][t] = NoObject
        BY <1>2, <1>5, <4>1
      <4>3. QED
        BY <1>1, <1>3, <4>1, <4>2 DEF Followed, Agree, There, Current
    <3>2. CASE file[t] # NoObject
      <4>1. /\ file[t] \in File /\ object[pool][t] # NoObject
            /\ object[pool][t].cred = file[t].cred
            /\ object[pool][t].mark = file[t].mark \/ t \in unsaved \/ Saving(t)
        BY <1>2, <2>4, <3>2 DEF Agree, There, Current, Readable, Files
      <4>2. /\ files[t] \in File /\ files[t].mark = Aged(file[t].mark)
            /\ files[t].cred = file[t].cred
        BY <1>4, <4>1, OlderOne
      <4>3. /\ objects2[pool][t] # NoObject /\ objects2[pool][t].cred = object[pool][t].cred
            /\ objects2[pool][t].mark = Aged(object[pool][t].mark)
        BY <1>2, <1>5, <4>1
      <4>4. Saving(t) => Saving(t)'
        BY <1>1 DEF Saving
      <4>5. files[t] \notin {NoObject, Torn}
        BY <4>2, NoObjectAssumption
      <4>6. Agree(t)'
        BY <1>1, <1>3, <4>1, <4>2, <4>3, <4>4, <4>5 DEF Agree, There, Current, Readable
      <4>7. QED
        BY <4>6 DEF Followed
    <3>3. QED
      BY <3>1, <3>2
  <2>5. QED
    BY <2>1, <2>2, <2>3, <2>4 DEF Followed
<1>13. StaysGone'
  <2>1. \A t : Rewriting(t)' => Rewriting(t)
    BY <1>1, <1>10 DEF Rewriting
  <2>2. \A t \in gone : file[t] = NoObject => file'[t] = NoObject
    BY <1>3, <1>4, OlderNone DEF Inv, Typed
  <2>3. QED
    BY <1>1, <2>1, <2>2, StaysGoneKept DEF Inv
<1>14. Typed'
  BY <1>1, <1>3, <1>4, <1>6, <1>10 DEF Inv, Typed
<1>15. InUse(user, object)'
  BY <1>7 DEF InUse, CountedOn
<1>16. QED
  BY <1>9, <1>11, <1>12, <1>13, <1>14, <1>15 DEF Inv, Following

(* The process starts again, from the files.                                *)
LEMMA RestartKeeps == ASSUME Inv, Restart PROVE Inv'
<1>1. PICK kept : kept = [s \in Seat |-> IF Readable(s) /\ file[s].mark # "long" THEN file[s] ELSE NoObject]
  OBVIOUS
<1>2. /\ file' = kept /\ pool' = pool
      /\ object' = [i \in Slot |-> [s \in Seat |->
                      IF i = pool /\ kept[s] # NoObject THEN Loaded(kept[s]) ELSE NoObject]]
      /\ user' = [u \in User |-> NoUse]
      /\ adder' = NoAdd /\ deleter' = NoDelete /\ sweep' = NoSweep
      /\ load' = [h \in Handler |-> NoLoad]
      /\ unsaved' = {} /\ astray' = {}
      /\ UNCHANGED <<logins, gone>>
  BY <1>1 DEF Restart
<1>3. pool \in Slot /\ file \in Files /\ gone \subseteq Seat /\ logins \in [Seat -> 0 .. MaxLogins]
  BY DEF Inv, Typed
<1>4. \A s \in Seat : kept[s] \in File \cup {NoObject} /\ (file[s] = NoObject => kept[s] = NoObject)
  BY <1>1, <1>3 DEF Files, Readable
<1>5. \A i \in Slot, s \in Seat :
         /\ object'[i][s] \in Object \cup {NoObject}
         /\ object'[i][s] # NoObject => object'[i][s].uses = 0
  BY <1>2, <1>4, LoadedObject
<1>6. Typed'
  <2>1. file' \in Files
    BY <1>1, <1>2, <1>4 DEF Files
  <2>2. object' \in Objects
    BY <1>2, <1>5 DEF Objects
  <2>3. user' \in Users
    BY <1>2 DEF Users, UserState, NoUse
  <2>4. adder' \in AdderState /\ deleter' \in DeleterState /\ sweep' \in SweepState
    BY <1>2 DEF AdderState, DeleterState, SweepState, NoAdd, NoDelete, NoSweep, Mark
  <2>5. QED
    BY <1>2, <1>3, <2>1, <2>2, <2>3, <2>4 DEF Typed
<1>7. InUse(user, object)'
  <2>1. \A i \in Slot, s \in Seat : CountedOn(user', i, s) = {}
    BY <1>2 DEF CountedOn, NoUse
  <2>2. \A i \in Slot, s \in Seat : object'[i][s] # NoObject =>
           object'[i][s].uses = Cardinality(CountedOn(user', i, s))
    BY <1>5, <2>1, FS_EmptySet
  <2>3. \A u \in User : user'[u] = NoUse /\ user'[u].pc = "idle"
    BY <1>2 DEF NoUse
  <2>4. QED
    BY <2>2, <2>3 DEF InUse, CountedOn
<1>8. Handling'
  BY <1>2 DEF Handling, NoAdd, NoDelete, NoSweep
<1>9. Reloading'
  <2>1. HasRead(NoLoad, kept)
    BY NothingRead
  <2>2. QED
    BY <1>2, <2>1 DEF Reloading
<1>10. ASSUME NEW s \in Seat PROVE Agree(s)'
  <2>1. object'[pool'][s] = IF kept[s] # NoObject THEN Loaded(kept[s]) ELSE NoObject
    BY <1>2, <1>3
  <2>2. CASE kept[s] = NoObject
    BY <1>2, <2>1, <2>2 DEF Agree, There, Current
  <2>3. CASE kept[s] # NoObject
    <3>1. kept[s] \in File /\ kept[s] # Torn
      BY <1>4, <2>3, NoObjectAssumption
    <3>2. QED
      BY <1>2, <2>1, <2>3, <3>1, LoadedObject DEF Agree, There, Current, Readable
  <2>4. QED
    BY <2>2, <2>3
<1>11. StaysGone'
  <2>1. \A t : ~Rewriting(t)'
    BY <1>2 DEF Rewriting, NoUse, NoAdd
  <2>2. \A t \in gone : Family[t] # "gitlab" => kept[t] = NoObject
    BY <1>3, <1>4 DEF Inv, StaysGone, There
  <2>3. QED
    BY <1>2, <2>1, <2>2 DEF StaysGone, There
<1>12. QED
  BY <1>6, <1>7, <1>8, <1>9, <1>10, <1>11 DEF Inv, Following, Followed

-----------------------------------------------------------------------------
(* Inv is inductive, and says what the properties say.                      *)

LEMMA NextKeeps == Inv /\ [Next]_vars => Inv'
<1> SUFFICES ASSUME Inv, [Next]_vars PROVE Inv'
  OBVIOUS
<1>1. ASSUME NEW u \in User, Take(u) \/ UserStep(u) PROVE Inv'
  BY <1>1, TakeKeeps, JudgeKeeps, AnswerKeeps, SaveReadKeeps, SaveWriteKeeps DEF UserStep
<1>2. ASSUME NEW h \in Handler, LoadStep(h) PROVE Inv'
  BY <1>2, ReadDirKeeps, ReadFileKeeps, ReplaceKeeps DEF LoadStep
<1>3. CASE Resurrect
  BY <1>3, ResurrectKeeps
<1>4. CASE LoginOpens \/ KeyAdded \/ AddStep
  BY <1>4, LoginOpensKeeps, KeyAddedKeeps, LoginWritesKeeps, KeyProbedKeeps,
     KeySaveReadKeeps, KeySaveWriteKeeps DEF AddStep
<1>5. CASE DeleteLooks \/ DeleteRemoves
  BY <1>5, DeleteLooksKeeps, DeleteRemovesKeeps
<1>6. CASE SweepStep
  BY <1>6, SweepBeginsKeeps, SweepLooksKeeps, SweepEndsKeeps DEF SweepStep
<1>7. CASE Ages
  BY <1>7, AgesKeeps
<1>8. CASE Restart
  BY <1>8, RestartKeeps
<1>9. CASE UNCHANGED vars
  <2>1. UNCHANGED <<file, object, pool, user, adder, deleter, sweep, load, logins, unsaved,
                    astray, gone>>
    BY <1>9 DEF vars
  <2>2. /\ file' \in Files /\ adder' \in AdderState /\ deleter' \in DeleterState
        /\ sweep' \in SweepState /\ gone' \subseteq Seat /\ astray' \subseteq Seat
        /\ logins' \in [Seat -> 0 .. MaxLogins]
    BY <2>1 DEF Inv, Typed
  <2>3. Handling' /\ Reloading'
    BY <2>1 DEF Inv, Handling, Reloading
  <2>4. StaysGone'
    <3>1. \A t : Rewriting(t)' => Rewriting(t)
      BY <2>1 DEF Rewriting
    <3>2. QED
      BY <2>1, <3>1, StaysGoneKept DEF Inv
  <2>5. ASSUME NEW t \in Seat PROVE Followed(t)'
    <3>1. Handled(t) => Handled(t)'
      BY <2>1 DEF Handled
    <3>2. QED
      BY <2>1, <3>1, UntouchedFollowed
  <2>6. QED
    BY <2>1, <2>2, <2>3, <2>4, <2>5, HandlerKeeps
<1>10. QED
  BY <1>1, <1>2, <1>3, <1>4, <1>5, <1>6, <1>7, <1>8, <1>9 DEF Next

(* Whatever requests, pollers, handlers and overlapping reloads do: a use   *)
(* is counted in the object it is of, a reload holds what is in the files   *)
(* it has read or knows that they changed, a seat of the pool is as its     *)
(* file says or somebody is about to see to it, and no save under way       *)
(* brings a deleted seat back.                                              *)
THEOREM SeatFilesInvariant == Spec => []Inv
<1>1. Init => Inv
  BY Initially
<1>2. Inv /\ [Next]_vars => Inv'
  BY NextKeeps
<1>3. QED
  BY <1>1, <1>2, PTL DEF Spec

(* The files, the objects of every loaded pool and the handlers' state keep *)
(* their types, for any number of seats, users, slots and sign-ins.         *)
THEOREM FilesTyped == Spec => []TypeOK
<1>1. Inv => TypeOK
  <2> SUFFICES ASSUME Inv PROVE TypeOK
    OBVIOUS
  <2>1. Len(Dirs) + 1 = 4
    BY DEF Dirs
  <2>2. \A h \in Handler : load[h] \in Load
    BY DEF Inv, Reloading, HasRead
  <2>3. \A h \in Handler : load[h].at \in 0 .. Len(Dirs) + 1 /\ load[h].dirty \subseteq Seat
    BY <2>1, <2>2 DEF Load
  <2>4. \A u \in User : user[u].slot \in Slot \cup {NoSlot} /\ user[u].seat \in Seat \cup {NoSeat}
    BY DEF Inv, Typed, Users, UserState
  <2>5. QED
    BY <2>3, <2>4 DEF Inv, Typed, TypeOK, Files, Objects
<1>2. QED
  BY <1>1, SeatFilesInvariant, PTL

(* Once nobody is at work, the pool that reloadAccounts made and requests   *)
(* changed is what the files say, but for the seats it is known to differ   *)
(* at: none is lost, none appears, no credential or dead mark is an old one. *)
THEOREM PoolFollowsFiles == Spec => []PoolIsTheFiles
<1>1. Inv => PoolIsTheFiles
  <2> SUFFICES ASSUME Inv, Quiet, NEW s \in Seat \ astray
               PROVE  /\ There(s) <=> Current(s) # NoObject
                      /\ There(s) => /\ Readable(s)
                                     /\ Current(s).cred = file[s].cred
                                     /\ s \notin unsaved => Current(s).mark = file[s].mark
    BY DEF PoolIsTheFiles
  <2>1. \A h \in Handler : load[h] \in Load /\ ~(load[h].at > 0)
    BY DEF Quiet, Busy, Inv, Reloading, HasRead
  <2>2. \A h \in Handler : load[h].moved = {}
    BY <2>1 DEF Load, Inv, Reloading, HasRead, NoLoad
  <2>3. adder = NoAdd /\ sweep = NoSweep
    BY DEF Quiet, Busy, Handler
  <2>4. ~Handled(s)
    BY <2>2, <2>3 DEF Handled, NoAdd, NoSweep
  <2>5. ~Saving(s)
    BY DEF Quiet, Saving
  <2>6. Agree(s)
    BY <2>4 DEF Inv, Following, Followed
  <2>7. QED
    BY <2>5, <2>6 DEF Agree
<1>2. QED
  BY <1>1, SeatFilesInvariant, PTL

(* A deleted OAuth or API key seat stays away: saveCodexAccount of a        *)
(* request or poller that still holds its object finds no file and fails.   *)
THEOREM DeletedSeatStaysAway == Spec => []DeletedStaysDeleted
<1>1. Inv => DeletedStaysDeleted
  BY DEF Inv, StaysGone, DeletedStaysDeleted
<1>2. QED
  BY <1>1, SeatFilesInvariant, PTL
=============================================================================
