---------------------------- MODULE LiveSchedule ----------------------------
(***************************************************************************)
(* The live-class scheduler: createLiveClassVersion5IntoDb and what else   *)
(* writes the same rows and media rooms (modules/admin/liveClassV3Api,     *)
(* modules/admin/liveClass).  A class is a row that names a room on one of *)
(* two media servers, each with a capacity.  A class of version 5 is       *)
(* placed under a Redis lock; when Europe is full a scheduled class of a   *)
(* smaller audience is moved to Malaysia or shown at lower quality, or the *)
(* new one is.  Rooms live outside the database, so each failure has to be *)
(* made good by calls that may fail themselves.                            *)
(***************************************************************************)
EXTENDS Integers, FiniteSets

CONSTANTS
  Reqs,             \* requests in flight
  Classes,          \* ids of liveClass rows
  Rooms,            \* ids the media servers give to rooms: 1..n
  Starts,           \* start times, in units of which a class lasts `Length`
  Length,
  EuropeCapacity,
  MalaysiaCapacity,
  Enrolled,         \* class -> active students of its course or cycle
  None,
  MaxFaults,        \* bound: failing calls, lost replies, crashes, late locks
  MaxEvents         \* bound: webhooks and requests other than version 5's

ASSUME LiveScheduleAssumption ==
  /\ Rooms \subseteq Nat \ {0} /\ IsFiniteSet(Classes)
  /\ Starts \subseteq Nat /\ Length \in Nat \ {0}
  /\ EuropeCapacity \in Nat /\ MalaysiaCapacity \in Nat
  /\ Enrolled \in [Classes -> Nat]
  /\ None \notin Reqs \cup Classes \cup Rooms
  /\ MaxFaults \in Nat /\ MaxEvents \in Nat

VARIABLES
  class,   \* liveClass rows
  room,    \* rooms of the media servers
  lock,    \* live-class:v5:scheduling-lock: the holder's token, or None
  req,     \* requests
  faults, events,
  \* history
  outside, \* some class was placed, or placed anew, without the scheduler
  lost,    \* classes whose row was committed by a call that then failed
  leaked   \* rooms whose last reference a failure lost

schedVars == <<class, room, lock, req, faults, events, outside, lost, leaked>>

Servers == {"europe", "malaysia"}
Capacity == [europe |-> EuropeCapacity, malaysia |-> MalaysiaCapacity]
Statuses == {"none", "scheduled", "live", "processing", "recorded"}

NoRow == [status |-> "none", start |-> 0, server |-> "europe", room |-> None,
          deleted |-> FALSE]
NoRoom == [state |-> "none", server |-> "europe", safe |-> FALSE]
Idle == [pc |-> "idle", class |-> None, start |-> 0, asked |-> "europe",
         server |-> "europe", safe |-> FALSE, move |-> None, reduce |-> None,
         old |-> None, spare |-> None, new |-> None, reduced |-> FALSE]

SchedInit ==
  /\ class = [c \in Classes |-> NoRow]
  /\ room = [m \in Rooms |-> NoRoom]
  /\ lock = None
  /\ req = [r \in Reqs |-> Idle]
  /\ faults = 0 /\ events = 0
  /\ outside = FALSE
  /\ lost = {}
  /\ leaked = {}

-----------------------------------------------------------------------------
(* Load of the servers, as the scheduler counts it.                          *)

Counted(c) == class[c].status \in {"scheduled", "live"} /\ ~class[c].deleted
Covers(start, t) == start <= t /\ t < start + Length
Window(start) == start .. (start + Length - 1)
Overlaps(a, b) == a < b + Length /\ b < a + Length

\* Classes on `server` at time t, but for `without`.
Load(server, t, without) ==
  Cardinality({c \in Classes \ {without} : /\ Counted(c)
                                           /\ class[c].server = server
                                           /\ Covers(class[c].start, t)})

\* Mutant: the peak of the others, without the new class.
Fits_WithoutCandidate(server, start, without) ==
  \A t \in Window(start) : Load(server, t, without) <= Capacity[server]

\* getPeakWithCandidate(...) <= capacity.  The code looks at the start and at the
\* starts of other classes, for the load rises nowhere else.
Fits(server, start, without) ==
  \A t \in Window(start) : 1 + Load(server, t, without) <= Capacity[server]

\* switchCandidates: scheduled classes of a smaller audience in the way.
Candidates(c, start) ==
  {k \in Classes : /\ class[k].status = "scheduled" /\ ~class[k].deleted
                   /\ Overlaps(class[k].start, start)
                   /\ class[k].room # None
                   /\ class[k].server = "europe"
                   /\ Enrolled[k] < Enrolled[c]}

Reducible(c, start) == {k \in Candidates(c, start) : Fits("europe", start, k)}
Movable(c, start) ==
  {k \in Reducible(c, start) : Fits("malaysia", class[k].start, k)}

\* The first of them as sorted: the smallest audience, then the earliest.
First(K) ==
  {k \in K : \A j \in K : \/ Enrolled[k] < Enrolled[j]
                          \/ /\ Enrolled[k] = Enrolled[j]
                             /\ class[k].start <= class[j].start}

Choice(server, move, reduce, safe) ==
  [server |-> server, move |-> move, reduce |-> reduce, safe |-> safe]

\* Where the new class goes and which class makes room for it.
Decisions(c, start, asked) ==
  IF asked = "malaysia" /\ Fits("malaysia", start, None)
  THEN {Choice("malaysia", None, None, FALSE)}
  ELSE IF Fits("europe", start, None)
  THEN {Choice("europe", None, None, FALSE)}
  ELSE IF Movable(c, start) # {}
  THEN {Choice("europe", k, None, FALSE) : k \in First(Movable(c, start))}
  ELSE IF Fits("malaysia", start, None)
  THEN {Choice("malaysia", None, None, FALSE)}
  ELSE IF Reducible(c, start) # {}
  THEN {Choice("europe", None, k, FALSE) : k \in First(Reducible(c, start))}
  ELSE {Choice("europe", None, None, TRUE)}

-----------------------------------------------------------------------------
(* Rooms.  A media server gives each new room an id of its own.              *)

FreshRoom == CHOOSE m \in Rooms : /\ room[m].state = "none"
                                  /\ \A n \in Rooms : n < m => room[n].state # "none"
RoomLeft == \E m \in Rooms : room[m].state = "none"

Opened(server, safe) ==
  [room EXCEPT ![FreshRoom] = [state |-> "open", server |-> server, safe |-> safe]]
Ended(m) == [room EXCEPT ![m].state = IF @ = "closed" THEN @ ELSE "ended"]

Go(r, pc) == req' = [req EXCEPT ![r].pc = pc]
Fault == faults < MaxFaults /\ faults' = faults + 1
Event == events < MaxEvents /\ events' = events + 1
At(r, pc) == req[r].pc = pc

\* A class that enters the count, or whose hours change, outside the scheduler.
Placed(c, status, start) ==
  status \in {"scheduled", "live"} /\ (~Counted(c) \/ start # class[c].start)

-----------------------------------------------------------------------------
(* createLiveClassVersion5IntoDb.                                            *)

\* The checks of chapter, teacher and course only read.
CreateVersion5(r, c, start, asked) ==
  /\ At(r, "idle") /\ class[c].status = "none"
  /\ \A q \in Reqs : req[q].class # c
  /\ req' = [req EXCEPT ![r] = [Idle EXCEPT !.pc = "lock", !.class = c,
                                            !.start = start, !.asked = asked]]
  /\ UNCHANGED <<class, room, lock, faults, outside, lost, leaked, events>>

\* SET NX; another holder answers CONFLICT.
AcquireV5SchedulingLock(r) ==
  /\ At(r, "lock")
  /\ IF lock = None THEN lock' = r /\ Go(r, "plan")
                    ELSE req' = [req EXCEPT ![r] = Idle] /\ UNCHANGED lock
  /\ UNCHANGED <<class, room, faults, outside, lost, leaked, events>>

\* Reads the classes and the enrolments and decides.
Plan(r) ==
  /\ At(r, "plan")
  /\ \E d \in Decisions(req[r].class, req[r].start, req[r].asked) :
       req' = [req EXCEPT ![r] =
                 [@ EXCEPT !.server = d.server, !.safe = d.safe,
                           !.move = d.move, !.reduce = d.reduce,
                           !.old = IF d.move # None THEN class[d.move].room
                                   ELSE IF d.reduce # None THEN class[d.reduce].room
                                   ELSE None,
                           !.pc = IF d.move # None THEN "spare" ELSE "room"]]
  /\ UNCHANGED <<class, room, lock, faults, outside, lost, leaked, events>>

\* createV5MediaRoom in Malaysia for the class that moves, at normal settings.
CreateReplacementRoom(r) ==
  /\ At(r, "spare") /\ RoomLeft
  /\ room' = Opened("malaysia", FALSE)
  /\ req' = [req EXCEPT ![r].spare = FreshRoom, ![r].pc = "room"]
  /\ UNCHANGED <<class, lock, faults, outside, lost, leaked, events>>

CreateMediaRoom(r) ==
  /\ At(r, "room") /\ RoomLeft
  /\ room' = Opened(req[r].server, req[r].safe)
  /\ req' = [req EXCEPT ![r].new = FreshRoom,
                        ![r].pc = IF req[r].reduce # None THEN "reduce" ELSE "commit"]
  /\ UNCHANGED <<class, lock, faults, outside, lost, leaked, events>>

\* The PATCH that puts the class that stays on V5_SAFE_SETTINGS.  These equal the
\* normal settings at present, so `safe` is a class the scheduler counts as reduced.
ReduceSettings(r) ==
  /\ At(r, "reduce")
  /\ room' = [room EXCEPT ![req[r].old].safe = TRUE]
  /\ req' = [req EXCEPT ![r].reduced = TRUE, ![r].pc = "commit"]
  /\ UNCHANGED <<class, lock, faults, outside, lost, leaked, events>>

\* The affected class is still the one that was read.
StillScheduled(r) ==
  \A k \in {req[r].move, req[r].reduce} \ {None} :
    /\ class[k].status = "scheduled" /\ ~class[k].deleted
    /\ class[k].room = req[r].old

Moved(r) ==
  IF req[r].move = None THEN class
  ELSE [class EXCEPT ![req[r].move] = [@ EXCEPT !.server = "malaysia",
                                                !.room = req[r].spare]]

NewRow(r) == [status |-> "scheduled", start |-> req[r].start,
              server |-> req[r].server, room |-> req[r].new, deleted |-> FALSE]

\* The transaction, at READ COMMITTED: the check ...
Recheck(r) ==
  /\ At(r, "commit")
  /\ Go(r, IF StillScheduled(r) THEN "write" ELSE "undo")
  /\ UNCHANGED <<class, room, lock, faults, outside, lost, leaked, events>>

\* ... and the writes, by id.  The moved row may name another room by now.
Written(r) == class' = [Moved(r) EXCEPT ![req[r].class] = NewRow(r)]
RoomWrittenOver(r) == IF req[r].move = None THEN {} ELSE {class[req[r].move].room}

\* Mutant: the room of a class that stays at lower quality is ended too.
Commit_EndsAnyOld(r) ==
  /\ At(r, "write") /\ Written(r)
  /\ leaked' = leaked \cup (RoomWrittenOver(r) \ {req[r].old})
  /\ Go(r, IF req[r].old # None THEN "endold" ELSE "release")
  /\ UNCHANGED <<room, lock, faults, outside, lost, events>>

\* The transaction is done; only a moved class leaves a room behind.
Commit(r) ==
  /\ At(r, "write") /\ Written(r)
  /\ leaked' = leaked \cup (RoomWrittenOver(r) \ {req[r].old})
  /\ Go(r, IF req[r].move # None THEN "endold" ELSE "release")
  /\ UNCHANGED <<room, lock, faults, outside, lost, events>>

\* The transaction commits and the caller sees an error.
CommitUnheard(r) ==
  /\ At(r, "write") /\ Written(r) /\ Fault
  /\ leaked' = leaked \cup RoomWrittenOver(r)
  /\ lost' = lost \cup ({req[r].class, req[r].move} \ {None})
  /\ Go(r, "undo")
  /\ UNCHANGED <<room, lock, outside, events>>

\* A call of the inner try fails: every such throw goes to the catch block.
StepFails(r) ==
  /\ req[r].pc \in {"spare", "room", "reduce", "commit", "write"} /\ Fault
  /\ Go(r, "undo")
  /\ UNCHANGED <<class, room, lock, outside, lost, leaked, events>>

\* The media server opens the room, but the answer comes after the timeout.
RoomUnheard(r) ==
  /\ req[r].pc \in {"spare", "room"} /\ RoomLeft /\ Fault
  /\ room' = IF At(r, "spare") THEN Opened("malaysia", FALSE)
                               ELSE Opened(req[r].server, req[r].safe)
  /\ Go(r, "undo") /\ leaked' = leaked \cup {FreshRoom}
  /\ UNCHANGED <<class, lock, outside, lost, events>>

\* The PATCH is done and its answer lost: downgradeWasApplied is still false, and
\* the catch block leaves the settings as they are.
ReduceUnheard(r) ==
  /\ At(r, "reduce") /\ Fault
  /\ room' = [room EXCEPT ![req[r].old].safe = TRUE]
  /\ Go(r, "undo")
  /\ UNCHANGED <<class, lock, outside, lost, leaked, events>>

\* The catch block: settings back to normal, whatever they were, then the rooms.
UndoSettings(r) ==
  /\ At(r, "undo")
  /\ IF req[r].reduced
     THEN /\ room' = [room EXCEPT ![req[r].old].safe = FALSE]
          /\ outside' = TRUE
     ELSE UNCHANGED <<room, outside>>
  /\ Go(r, "undospare")
  /\ UNCHANGED <<class, lock, faults, lost, leaked, events>>

EndReplacementRoom(r) ==
  /\ At(r, "undospare")
  /\ room' = IF req[r].spare # None THEN Ended(req[r].spare) ELSE room
  /\ Go(r, "undonew")
  /\ UNCHANGED <<class, lock, faults, outside, lost, leaked, events>>

\* Mutant: the second clean-up ends the replacement room again.
EndNewRoom_Replacement(r) ==
  /\ At(r, "undonew")
  /\ room' = IF req[r].spare # None THEN Ended(req[r].spare) ELSE room
  /\ Go(r, "release")
  /\ UNCHANGED <<class, lock, faults, outside, lost, leaked, events>>

\* The catch block ends the new room last.
EndNewRoom(r) ==
  /\ At(r, "undonew")
  /\ room' = IF req[r].new # None THEN Ended(req[r].new) ELSE room
  /\ Go(r, "release")
  /\ UNCHANGED <<class, lock, faults, outside, lost, leaked, events>>

\* After the commit: the room the moved class left.
EndOldRoom(r) ==
  /\ At(r, "endold")
  /\ room' = Ended(req[r].old)
  /\ Go(r, "release")
  /\ UNCHANGED <<class, lock, faults, outside, lost, leaked, events>>

\* Rooms that the request alone knows, or has still to end, at step pc.
InHand(r, pc) ==
  (CASE pc = "undo" -> {}
     [] pc = "undospare" -> {req[r].spare}
     [] pc = "undonew" -> {req[r].new}
     [] pc = "endold" -> {req[r].old}
     [] pc \in {"spare", "room", "reduce", "commit", "write", "row"} ->
          {req[r].spare, req[r].new}
     [] OTHER -> {}) \ {None}

\* A failing clean-up call is logged and forgotten.
NextUndo == [undo |-> "undospare", undospare |-> "undonew",
             undonew |-> "release", endold |-> "release"]

UndoFails(r) ==
  /\ req[r].pc \in DOMAIN NextUndo /\ Fault
  /\ Go(r, NextUndo[req[r].pc]) /\ leaked' = leaked \cup InHand(r, req[r].pc)
  /\ UNCHANGED <<class, room, lock, outside, lost, events>>

\* The finally block: compare the token and delete.
ReleaseV5SchedulingLock(r) ==
  /\ At(r, "release")
  /\ lock' = IF lock = r THEN None ELSE lock
  /\ req' = [req EXCEPT ![r] = Idle]
  /\ UNCHANGED <<class, room, faults, outside, lost, leaked, events>>

\* PX 60000.  Under a holder that runs it counts as a fault, though the timeouts
\* of the media calls add up to more.
LockExpires ==
  /\ lock # None
  /\ IF \E r \in Reqs : lock = r /\ ~At(r, "idle")
     THEN Fault /\ outside' = TRUE
     ELSE UNCHANGED <<faults, outside>>
  /\ lock' = None
  /\ UNCHANGED <<class, room, req, lost, leaked, events>>

\* What is still in the hands of a request, this step or a later one.
Unended(r) ==
  InHand(r, req[r].pc)
    \cup (CASE At(r, "undo") -> {req[r].spare, req[r].new} \ {None}
            [] At(r, "undospare") -> {req[r].new} \ {None}
            [] OTHER -> {})

\* The process dies, or a read before the inner try throws.
Crash(r) ==
  /\ ~At(r, "idle") /\ Fault
  /\ req' = [req EXCEPT ![r] = Idle]
  /\ leaked' = leaked \cup Unended(r)
  /\ UNCHANGED <<class, room, lock, outside, lost, events>>

-----------------------------------------------------------------------------
(* What else writes the rows and the rooms.                                  *)

\* The older endpoints: a room, then the row, without lock or clean-up.  The first
\* versions always use Europe, version 4 the less crowded server.
CreateOlder(r, c, start) ==
  /\ Event
  /\ At(r, "idle") /\ class[c].status = "none" /\ RoomLeft
  /\ \A q \in Reqs : req[q].class # c
  /\ \E server \in Servers :
       /\ room' = Opened(server, FALSE)
       /\ req' = [req EXCEPT ![r] = [Idle EXCEPT !.pc = "row", !.class = c,
                                                 !.start = start, !.server = server,
                                                 !.new = FreshRoom]]
  /\ UNCHANGED <<class, lock, faults, outside, lost, leaked>>

InsertRow(r) ==
  /\ At(r, "row")
  /\ class' = [class EXCEPT ![req[r].class] = NewRow(r)]
  /\ outside' = TRUE
  /\ req' = [req EXCEPT ![r] = Idle]
  /\ UNCHANGED <<room, lock, faults, lost, leaked, events>>

\* Webhooks name a room and may come late, again and in any order.
RowOf(m) == {c \in Classes : class[c].status # "none" /\ class[c].room = m}

RoomCreatedHook(m) ==
  /\ Event
  /\ room[m].state # "none"
  /\ \E c \in RowOf(m) :
       /\ class' = [class EXCEPT ![c].status = "scheduled"]
       /\ outside' = (outside \/ Placed(c, "scheduled", class[c].start))
  /\ UNCHANGED <<room, lock, req, faults, lost, leaked>>

\* The host starts the stream; the hook sets the start to the real one.
RoomLiveHook(m) ==
  /\ Event
  /\ room[m].state \in {"open", "closed"}
  /\ \E c \in RowOf(m), now \in Starts :
       /\ class' = [class EXCEPT ![c].status = "live", ![c].start = now]
       /\ outside' = (outside \/ Placed(c, "live", now))
  /\ UNCHANGED <<room, lock, req, faults, lost, leaked>>

\* The host or the media server closes the room.
RoomClosedHook(m) ==
  /\ Event
  /\ room[m].state # "none"
  /\ room' = [room EXCEPT ![m].state = IF @ = "open" THEN "closed" ELSE @]
  /\ class' = [c \in Classes |-> IF c \in RowOf(m)
                                 THEN [class[c] EXCEPT !.status = "processing"]
                                 ELSE class[c]]
  /\ UNCHANGED <<lock, req, faults, outside, lost, leaked>>

\* updateLiveClassIntoDb moves a class in time without a look at the load.
UpdateLiveClass(c, start) ==
  /\ Event
  /\ class[c].status # "none" /\ ~class[c].deleted
  /\ class' = [class EXCEPT ![c].start = start]
  /\ outside' = (outside \/ Placed(c, class[c].status, start))
  /\ UNCHANGED <<room, lock, req, faults, lost, leaked>>

\* deleteLiveClassFromDb hides the row and leaves the room open.
DeleteLiveClass(c) ==
  /\ Event
  /\ class[c].status # "none" /\ ~class[c].deleted
  /\ class' = [class EXCEPT ![c].deleted = TRUE]
  /\ UNCHANGED <<room, lock, req, faults, outside, lost, leaked>>

\* deleteLiveClassRoomFromDb reads the row, asks for the room, ends it and marks
\* the row, each in a call of its own.  A call to end the room that throws stops it
\* (Crash).
DeleteRoomRead(r, c) ==
  /\ Event
  /\ At(r, "idle") /\ class[c].status # "none" /\ ~class[c].deleted
  /\ req' = [req EXCEPT ![r] = [Idle EXCEPT !.pc = "close", !.old = class[c].room,
                                            !.move = c]]
  /\ UNCHANGED <<class, room, lock, faults, outside, lost, leaked>>

\* The room cannot be asked for: the row is marked, and the room ended all the same.
DeleteRoomUnknown(r) ==
  /\ At(r, "close") /\ Fault
  /\ class' = [class EXCEPT ![req[r].move].status = "recorded"]
  /\ Go(r, "end")
  /\ UNCHANGED <<room, lock, outside, lost, leaked, events>>

DeleteRoomClose(r) ==
  /\ At(r, "close") \/ At(r, "end")
  /\ room' = [room EXCEPT ![req[r].old].state = IF @ = "open" THEN "closed" ELSE @]
  /\ Go(r, "mark")
  /\ UNCHANGED <<class, lock, faults, outside, lost, leaked, events>>

DeleteRoomMark(r) ==
  /\ At(r, "mark")
  /\ class' = [class EXCEPT ![req[r].move].status = "recorded"]
  /\ req' = [req EXCEPT ![r] = Idle]
  /\ UNCHANGED <<room, lock, faults, outside, lost, leaked, events>>

-----------------------------------------------------------------------------
Version5(r) ==
  \/ AcquireV5SchedulingLock(r) \/ Plan(r)
  \/ CreateReplacementRoom(r) \/ CreateMediaRoom(r) \/ ReduceSettings(r)
  \/ Recheck(r) \/ Commit(r)
  \/ UndoSettings(r) \/ EndReplacementRoom(r) \/ EndNewRoom(r) \/ EndOldRoom(r)
  \/ ReleaseV5SchedulingLock(r)

Failure(r) ==
  \/ CommitUnheard(r) \/ StepFails(r) \/ RoomUnheard(r) \/ ReduceUnheard(r)
  \/ UndoFails(r) \/ Crash(r)

Elsewhere(r) ==
  \/ \E c \in Classes : DeleteRoomRead(r, c) \/ \E s \in Starts : CreateOlder(r, c, s)
  \/ InsertRow(r)
  \/ DeleteRoomUnknown(r) \/ DeleteRoomClose(r) \/ DeleteRoomMark(r)

Hook(m) == RoomCreatedHook(m) \/ RoomLiveHook(m) \/ RoomClosedHook(m)

SchedNext ==
  \/ \E r \in Reqs : \/ \E c \in Classes, s \in Starts, v \in Servers :
                          CreateVersion5(r, c, s, v)
                     \/ Version5(r) \/ Failure(r) \/ Elsewhere(r)
  \/ LockExpires
  \/ \E m \in Rooms : Hook(m)
  \/ \E c \in Classes : DeleteLiveClass(c) \/ \E s \in Starts : UpdateLiveClass(c, s)

SchedSpec == SchedInit /\ [][SchedNext]_schedVars

-----------------------------------------------------------------------------
(* Properties.                                                               *)

Pcs == {"idle", "lock", "plan", "spare", "room", "reduce", "commit", "write", "undo",
        "undospare", "undonew", "endold", "release", "row", "close", "end", "mark"}

SchedTypeOK ==
  /\ class \in [Classes -> [status : Statuses, start : Starts \cup {0}, server : Servers,
                            room : Rooms \cup {None}, deleted : BOOLEAN]]
  /\ room \in [Rooms -> [state : {"none", "open", "closed", "ended"},
                         server : Servers, safe : BOOLEAN]]
  /\ lock \in Reqs \cup {None}
  /\ req \in [Reqs -> [pc : Pcs, class : Classes \cup {None}, start : Starts \cup {0},
                       asked : Servers, server : Servers, safe : BOOLEAN,
                       move : Classes \cup {None}, reduce : Classes \cup {None},
                       old : Rooms \cup {None}, spare : Rooms \cup {None},
                       new : Rooms \cup {None}, reduced : BOOLEAN]]
  /\ faults \in 0 .. MaxFaults /\ events \in 0 .. MaxEvents
  /\ outside \in BOOLEAN
  /\ lost \subseteq Classes
  /\ leaked \subseteq Rooms

\* No server carries more classes at a time than it can: Malaysia never, and
\* Europe at most one more for every class shown at low quality at that time, as
\* long as all classes were placed by the scheduler, under a lock that lasted.
CapacityRespected ==
  ~outside =>
    \A t \in UNION {Window(s) : s \in Starts} :
      /\ Load("malaysia", t, None) <= MalaysiaCapacity
      /\ Load("europe", t, None) <=
           EuropeCapacity + Cardinality({c \in Classes : /\ Counted(c)
                                                         /\ class[c].server = "europe"
                                                         /\ Covers(class[c].start, t)
                                                         /\ room[class[c].room].safe})

\* A class that is to come or on is in a room the scheduler did not end, whatever
\* was moved or undone meanwhile; except after a commit that was taken for failed.
RoomsServe ==
  \A c \in Classes : Counted(c) /\ c \notin lost => room[class[c].room].state # "ended"

\* Every open room belongs to a class, or to a request that will end or record it,
\* unless a failure that nothing makes good lost it.
NoOrphanRoom ==
  \A m \in Rooms :
    room[m].state = "open" =>
      \/ RowOf(m) # {}
      \/ m \in leaked
      \/ \E r \in Reqs : m \in Unended(r)

=============================================================================
