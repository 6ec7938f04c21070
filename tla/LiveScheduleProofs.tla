------------------------- MODULE LiveScheduleProofs -------------------------
(***************************************************************************)
(* LiveSchedule for any number of requests, classes, rooms and start       *)
(* times, any capacities and any number of failures and webhooks: no       *)
(* server is loaded beyond its capacity by what the scheduler placed, no   *)
(* class loses its room to a clean-up, and no open room is forgotten but   *)
(* by a failure that nothing makes good.                                   *)
(***************************************************************************)
EXTENDS LiveSchedule, FiniteSetTheorems, WellFoundedInduction, TLAPS

Requests == [pc : Pcs, class : Classes \cup {None}, start : Starts \cup {0},
             asked : Servers, server : Servers, safe : BOOLEAN,
             move : Classes \cup {None}, reduce : Classes \cup {None},
             old : Rooms \cup {None}, spare : Rooms \cup {None},
             new : Rooms \cup {None}, reduced : BOOLEAN]

\* The steps before the rows are written, with rooms at hand, and after a failure.
Opening == {"spare", "room", "reduce", "commit", "write"}
Undoing == {"undo", "undospare", "undonew"}
Deleting == {"close", "end", "mark"}

\* What a request q has opened, what of it may still be written into a row, and the
\* room that a class leaves.
Held(q) == {q.spare, q.new} \ {None}
Writable(q) == IF q.pc \in Opening \cup {"row"} THEN Held(q) ELSE {}
Leaving(q) == IF q.pc \in Opening \cup {"endold"} /\ q.move # None THEN {q.old} ELSE {}

\* What a request carries at which step.
Shape(q) ==
  /\ q.pc \in {"idle"} \cup Deleting => q.class = None /\ Held(q) = {}
  /\ q.pc \notin {"idle"} \cup Deleting => q.class \in Classes /\ q.start \in Starts
  /\ q.pc \in {"lock", "plan"} => Held(q) = {}
  /\ q.pc \in {"lock", "plan", "spare", "room", "reduce"} => ~q.reduced
  /\ q.pc \in Deleting => q.move \in Classes /\ q.old \in Rooms
  /\ q.pc = "spare" => q.move # None /\ Held(q) = {}
  /\ q.pc = "room" => q.new = None /\ (q.spare # None <=> q.move # None)
  /\ q.pc \in {"reduce", "commit", "write"} =>
       q.new # None /\ q.new # q.spare /\ (q.spare # None <=> q.move # None)
  /\ q.pc = "row" => q.new # None /\ q.spare = None /\ q.move = None
  /\ q.pc \in Opening => (q.old # None <=> q.move # None \/ q.reduce # None)
                         /\ (q.move = None \/ q.reduce = None)
  /\ q.pc = "reduce" => q.reduce # None
  /\ q.pc \in {"commit", "write"} => (q.reduced <=> q.reduce # None)
  /\ q.pc = "endold" => q.move # None /\ q.old # None
  /\ q.reduced => q.old # None

\* A row names a room that was opened, and no two name the same.
RowInv ==
  /\ \A c \in Classes : class[c].room = None <=> class[c].status = "none"
  /\ \A c \in Classes : class[c].room # None => room[class[c].room].state # "none"
  /\ \A c, d \in Classes : class[c].room = class[d].room /\ class[c].room # None => c = d

\* How request q stands to the rows: its class has none until it is written, its
\* rooms are in none before, nor after a failure unless the write was not heard of,
\* and the room that a class leaves is nobody else's.
Stands(q) ==
  /\ q.pc \in {"lock", "plan", "row"} \cup Opening => class[q.class].room = None
  /\ \A m \in Held(q) : room[m].state # "none"
  /\ q.pc \in Deleting => class[q.move].room # None
  /\ \A m \in Writable(q) : room[m].state # "ended" /\ \A c \in Classes : class[c].room # m
  /\ q.pc \in Undoing => \A c \in Classes : class[c].room \in Held(q) => c \in lost
  /\ \A m \in Leaving(q) :
       /\ m # None /\ room[m].state # "none" /\ class[q.move].room # None
       /\ \A c \in Classes : class[c].room = m => c = q.move /\ q.pc # "endold"

\* Requests are about classes and rooms of their own.
Between(p, q) ==
  /\ p.class # None => p.class # q.class
  /\ Held(p) \cap Held(q) = {}

ReqInv ==
  /\ \A r \in Reqs : Shape(req[r]) /\ Stands(req[r])
  /\ \A r, s \in Reqs : /\ r # s => Between(req[r], req[s])
                        /\ Leaving(req[r]) \cap Writable(req[s]) = {}

\* No room of a row was ended by the scheduler.
ServeInv == \A c \in Classes \ lost : class[c].room # None => room[class[c].room].state # "ended"

\* Holders of the lock, while it lasts.
Holding == {"plan", "endold", "release"} \cup Opening \cup Undoing
HolderInv == \A r \in Reqs : req[r].pc \in Holding => lock = r

\* Classes on a server at a time, and those of Europe in full quality.
On(server, t) == {c \in Classes : /\ Counted(c) /\ class[c].server = server
                                  /\ Covers(class[c].start, t)}
Bright(t) == {c \in On("europe", t) : ~room[class[c].room].safe}

LoadInv == \A t \in Int : /\ Cardinality(On("malaysia", t)) <= MalaysiaCapacity
                          /\ Cardinality(Bright(t)) <= EuropeCapacity

\* The plan of request q still fits.
Without(q) == {q.move, q.reduce}
Plans(q) ==
  /\ q.server = "malaysia" =>
       /\ q.move = None
       /\ \A t \in Window(q.start) : 1 + Cardinality(On("malaysia", t)) <= MalaysiaCapacity
  /\ q.server = "europe" /\ ~q.safe =>
       \A t \in Window(q.start) : 1 + Cardinality(On("europe", t) \ Without(q)) <= EuropeCapacity
  /\ q.safe => q.move = None
  /\ q.move # None /\ Counted(q.move) =>
       \A t \in Window(class[q.move].start) :
         1 + Cardinality(On("malaysia", t) \ {q.move}) <= MalaysiaCapacity
  /\ q.reduce # None => class[q.reduce].room = q.old
  /\ q.reduce # None /\ q.reduced => room[q.old].safe
  /\ q.pc \in {"reduce", "commit", "write"} /\ q.safe => room[q.new].safe

PlanInv == \A r \in Reqs : req[r].pc \in Opening => Plans(req[r])

CapacityInv == ~outside => HolderInv /\ LoadInv /\ PlanInv

\* While rooms are left, the one opened next is one that was never opened.
LEMMA FreshRoomOpens ==
  ASSUME SchedTypeOK, RoomLeft
  PROVE  FreshRoom \in Rooms /\ room[FreshRoom].state = "none"
<1> DEFINE T == {m \in Rooms : room[m].state = "none"}
<1>1. T \in SUBSET Nat /\ T # {}
  BY LiveScheduleAssumption DEF RoomLeft
<1>2. PICK m \in T : \A n \in T : ~(<<n, m>> \in OpToRel(<, Nat))
  BY <1>1, NatLessThanWellFounded, WFMin, Zenon
<1>3. \A n \in Rooms : n < m => room[n].state # "none"
  BY <1>1, <1>2 DEF OpToRel
<1>4. \E k \in Rooms : /\ room[k].state = "none"
                       /\ \A n \in Rooms : n < k => room[n].state # "none"
  BY <1>2, <1>3
<1> QED
  BY <1>4 DEF FreshRoom

\* The rows of classes and rooms, as the type invariant has them.
ClassRows == [status : Statuses, start : Starts \cup {0}, server : Servers,
              room : Rooms \cup {None}, deleted : BOOLEAN]
RoomRows == [state : {"none", "open", "closed", "ended"}, server : Servers, safe : BOOLEAN]

\* A request that goes on to step pc carries what it carried.
LEMMA GoesOn ==
  ASSUME NEW r \in Reqs, NEW pc \in Pcs, req \in [Reqs -> Requests], Go(r, pc)
  PROVE  LET q == [req[r] EXCEPT !.pc = pc]
         IN  /\ req' = [req EXCEPT ![r] = q] /\ q \in Requests
             /\ q.pc = pc /\ q.class = req[r].class /\ q.start = req[r].start
             /\ q.server = req[r].server /\ q.safe = req[r].safe /\ q.move = req[r].move
             /\ q.reduce = req[r].reduce /\ q.old = req[r].old /\ q.spare = req[r].spare
             /\ q.new = req[r].new /\ q.reduced = req[r].reduced
<1>1. req[r] \in Requests
  OBVIOUS
<1> QED
  BY <1>1 DEF Go, Requests

\* A request that has not begun is a request and carries nothing.
LEMMA IdleRequest == Idle \in Requests /\ Shape(Idle) /\ Idle.pc = "idle"
                     /\ Held(Idle) = {} /\ Leaving(Idle) = {} /\ Writable(Idle) = {}
  BY LiveScheduleAssumption DEF Idle, Requests, Pcs, Servers, Shape, Held, Leaving, Writable,
    Deleting, Opening

\* A room that is opened, ended or changed is still a room.
LEMMA RoomTypes ==
  ASSUME SchedTypeOK
  PROVE  /\ \A server \in Servers, safe \in BOOLEAN :
              RoomLeft => /\ Opened(server, safe) \in [Rooms -> RoomRows]
                          /\ Opened(server, safe)[FreshRoom].state = "open"
                          /\ Opened(server, safe)[FreshRoom].safe = safe
                          /\ \A m \in Rooms \ {FreshRoom} : Opened(server, safe)[m] = room[m]
         /\ \A m \in Rooms : /\ Ended(m) \in [Rooms -> RoomRows]
                             /\ Ended(m)[m].state \in {"closed", "ended"}
                             /\ \A n \in Rooms : /\ Ended(m)[n].safe = room[n].safe
                                                 /\ n # m => Ended(m)[n] = room[n]
<1>0. room \in [Rooms -> RoomRows]
  BY DEF SchedTypeOK, RoomRows
<1>1. ASSUME NEW server \in Servers, NEW safe \in BOOLEAN, RoomLeft
      PROVE  /\ Opened(server, safe) \in [Rooms -> RoomRows]
             /\ Opened(server, safe)[FreshRoom].state = "open"
             /\ Opened(server, safe)[FreshRoom].safe = safe
             /\ \A m \in Rooms \ {FreshRoom} : Opened(server, safe)[m] = room[m]
  <2>1. FreshRoom \in Rooms
    BY <1>1, FreshRoomOpens
  <2> HIDE DEF FreshRoom
  <2> QED
    BY <1>0, <1>1, <2>1 DEF Opened, RoomRows
<1>2. ASSUME NEW m \in Rooms
      PROVE  /\ Ended(m) \in [Rooms -> RoomRows]
             /\ Ended(m)[m].state \in {"closed", "ended"}
             /\ \A n \in Rooms : /\ Ended(m)[n].safe = room[n].safe
                                 /\ n # m => Ended(m)[n] = room[n]
  BY <1>0 DEF Ended, RoomRows
<1> QED
  BY <1>1, <1>2

\* Where the new class goes: one of five answers.
LEMMA DecisionCases ==
  ASSUME NEW c, NEW start, NEW asked, NEW d \in Decisions(c, start, asked)
  PROVE  \/ d = Choice("malaysia", None, None, FALSE) /\ Fits("malaysia", start, None)
         \/ d = Choice("europe", None, None, FALSE) /\ Fits("europe", start, None)
         \/ \E k \in Movable(c, start) : d = Choice("europe", k, None, FALSE)
         \/ \E k \in Reducible(c, start) : d = Choice("europe", None, k, FALSE)
         \/ d = Choice("europe", None, None, TRUE)
<1>1. /\ \A k \in First(Movable(c, start)) : k \in Movable(c, start)
      /\ \A k \in First(Reducible(c, start)) : k \in Reducible(c, start)
  BY DEF First
<1> QED
  BY <1>1 DEF Decisions

\* What a plan is, and why.
PlanOf(r, server, move, reduce, safe) ==
  \/ /\ server = "malaysia" /\ move = None /\ reduce = None /\ ~safe
     /\ Fits("malaysia", req[r].start, None)
  \/ /\ server = "europe" /\ move = None /\ reduce = None /\ ~safe
     /\ Fits("europe", req[r].start, None)
  \/ /\ server = "europe" /\ move \in Movable(req[r].class, req[r].start) /\ reduce = None /\ ~safe
  \/ /\ server = "europe" /\ move = None /\ reduce \in Reducible(req[r].class, req[r].start) /\ ~safe
  \/ server = "europe" /\ move = None /\ reduce = None /\ safe

Planned(r, server, move, reduce, safe) ==
  req' = [req EXCEPT ![r] =
        [@ EXCEPT !.server = server, !.safe = safe, !.move = move, !.reduce = reduce,
                  !.old = IF move # None THEN class[move].room
                          ELSE IF reduce # None THEN class[reduce].room ELSE None,
                  !.pc = IF move # None THEN "spare" ELSE "room"]]

\* What Plan leaves request r with: nothing more to do, a class to move and a
\* replacement room to open, or only its own room to open.
LEMMA PlanCases ==
  ASSUME NEW r \in Reqs, Plan(r)
  PROVE  \E server \in Servers, move, reduce \in Classes \cup {None}, safe \in BOOLEAN :
           /\ PlanOf(r, server, move, reduce, safe)
           /\ Planned(r, server, move, reduce, safe)
<1>1. PICK d \in Decisions(req[r].class, req[r].start, req[r].asked) :
        req' = [req EXCEPT ![r] =
                 [@ EXCEPT !.server = d.server, !.safe = d.safe,
                           !.move = d.move, !.reduce = d.reduce,
                           !.old = IF d.move # None THEN class[d.move].room
                                   ELSE IF d.reduce # None THEN class[d.reduce].room
                                   ELSE None,
                           !.pc = IF d.move # None THEN "spare" ELSE "room"]]
  BY DEF Plan
<1>2. /\ \A k \in Movable(req[r].class, req[r].start) : k \in Classes
      /\ \A k \in Reducible(req[r].class, req[r].start) : k \in Classes
  BY DEF Movable, Reducible, Candidates
<1>3. \/ d = Choice("malaysia", None, None, FALSE) /\ Fits("malaysia", req[r].start, None)
      \/ d = Choice("europe", None, None, FALSE) /\ Fits("europe", req[r].start, None)
      \/ \E k \in Movable(req[r].class, req[r].start) : d = Choice("europe", k, None, FALSE)
      \/ \E k \in Reducible(req[r].class, req[r].start) : d = Choice("europe", None, k, FALSE)
      \/ d = Choice("europe", None, None, TRUE)
  BY DecisionCases
<1>4. \E server \in Servers, move, reduce \in Classes \cup {None}, safe \in BOOLEAN :
        PlanOf(r, server, move, reduce, safe) /\ d = Choice(server, move, reduce, safe)
  <2>1. CASE d = Choice("malaysia", None, None, FALSE) /\ Fits("malaysia", req[r].start, None)
    BY <2>1 DEF PlanOf, Servers
  <2>2. CASE d = Choice("europe", None, None, FALSE) /\ Fits("europe", req[r].start, None)
    BY <2>2 DEF PlanOf, Servers
  <2>3. ASSUME NEW k \in Movable(req[r].class, req[r].start), d = Choice("europe", k, None, FALSE)
        PROVE  \E server \in Servers, move, reduce \in Classes \cup {None}, safe \in BOOLEAN :
                 PlanOf(r, server, move, reduce, safe) /\ d = Choice(server, move, reduce, safe)
    BY <1>2, <2>3 DEF PlanOf, Servers
  <2>4. ASSUME NEW k \in Reducible(req[r].class, req[r].start), d = Choice("europe", None, k, FALSE)
        PROVE  \E server \in Servers, move, reduce \in Classes \cup {None}, safe \in BOOLEAN :
                 PlanOf(r, server, move, reduce, safe) /\ d = Choice(server, move, reduce, safe)
    BY <1>2, <2>4 DEF PlanOf, Servers
  <2>5. CASE d = Choice("europe", None, None, TRUE)
    BY <2>5 DEF PlanOf, Servers
  <2> QED
    BY <1>3, <2>1, <2>2, <2>3, <2>4, <2>5
<1>5. PICK server \in Servers, move \in Classes \cup {None}, reduce \in Classes \cup {None},
           safe \in BOOLEAN : PlanOf(r, server, move, reduce, safe) /\ d = Choice(server, move, reduce, safe)
  BY <1>4
<1>6. d.server = server /\ d.move = move /\ d.reduce = reduce /\ d.safe = safe
  BY <1>5 DEF Choice
<1>7. Planned(r, server, move, reduce, safe)
  BY <1>1, <1>6, Zenon DEF Planned
<1> QED
  BY <1>5, <1>7, Zenon

\* Every variable keeps its type: the requests first.
LEMMA RequestsTyped ==
  ASSUME SchedTypeOK, RowInv, ReqInv, [SchedNext]_schedVars
  PROVE  req' \in [Reqs -> Requests]
<1>0. req \in [Reqs -> Requests] /\ class \in [Classes -> ClassRows]
  BY DEF SchedTypeOK, Requests, ClassRows
<1>a. ASSUME NEW r \in Reqs, NEW pc \in Pcs, Go(r, pc) PROVE req' \in [Reqs -> Requests]
  <2> DEFINE q == [req[r] EXCEPT !.pc = pc]
  <2>1. req' = [req EXCEPT ![r] = q] /\ q \in Requests
    BY <1>0, <1>a, GoesOn
  <2> HIDE DEF q
  <2> QED
    BY <1>0, <2>1
<1>b. ASSUME NEW r \in Reqs, NEW q \in Requests, req' = [req EXCEPT ![r] = q]
      PROVE  req' \in [Reqs -> Requests]
  BY <1>0, <1>b
<1>i. Idle \in Requests
  BY IdleRequest
<1>p. {"plan", "release", "undo", "undospare", "undonew", "write", "endold", "end", "mark",
       "room", "commit"} \subseteq Pcs
  BY DEF Pcs
<1>1. ASSUME NEW r \in Reqs, NEW c \in Classes, NEW s \in Starts, NEW v \in Servers,
             CreateVersion5(r, c, s, v)
      PROVE  req' \in [Reqs -> Requests]
  <2>1. [Idle EXCEPT !.pc = "lock", !.class = c, !.start = s, !.asked = v] \in Requests
    BY <1>i DEF Requests, Pcs
  <2> QED
    BY <1>1, <1>b, <2>1 DEF CreateVersion5
<1>2. ASSUME NEW r \in Reqs, AcquireV5SchedulingLock(r) PROVE req' \in [Reqs -> Requests]
  BY <1>2, <1>a, <1>b, <1>i, <1>p DEF AcquireV5SchedulingLock
<1>3. ASSUME NEW r \in Reqs, Plan(r) PROVE req' \in [Reqs -> Requests]
  <2>1. PICK server \in Servers, move \in Classes \cup {None}, reduce \in Classes \cup {None},
             safe \in BOOLEAN :
          /\ PlanOf(r, server, move, reduce, safe)
          /\ Planned(r, server, move, reduce, safe)
    BY <1>3, PlanCases, Zenon
  <2> DEFINE old == IF move # None THEN class[move].room
                    ELSE IF reduce # None THEN class[reduce].room ELSE None
             pc == IF move # None THEN "spare" ELSE "room"
             q == [req[r] EXCEPT !.server = server, !.safe = safe,
                                 !.move = move, !.reduce = reduce, !.old = old, !.pc = pc]
  <2>3. req' = [req EXCEPT ![r] = q]
    BY <1>0, <2>1 DEF Planned
  <2>4. old \in Rooms \cup {None} /\ pc \in Pcs
    BY <1>0, <2>1 DEF ClassRows, Pcs
  <2> HIDE DEF old, pc
  <2>5. q \in Requests
    <3>1. req[r] \in Requests
      BY <1>0
    <3> QED
      BY <2>4, <3>1 DEF Requests
  <2> QED
    BY <1>b, <2>3, <2>5
<1>4. ASSUME NEW r \in Reqs, CreateReplacementRoom(r) PROVE req' \in [Reqs -> Requests]
  <2>1. FreshRoom \in Rooms
    BY <1>4, FreshRoomOpens DEF CreateReplacementRoom
  <2> HIDE DEF FreshRoom
  <2>2. [req[r] EXCEPT !.spare = FreshRoom, !.pc = "room"] \in Requests
    BY <1>0, <1>p, <2>1 DEF Requests
  <2>3. req' = [req EXCEPT ![r] = [req[r] EXCEPT !.spare = FreshRoom, !.pc = "room"]]
    BY <1>0, <1>4 DEF CreateReplacementRoom
  <2> QED
    BY <1>b, <2>2, <2>3
<1>5. ASSUME NEW r \in Reqs, CreateMediaRoom(r) PROVE req' \in [Reqs -> Requests]
  <2>1. FreshRoom \in Rooms
    BY <1>5, FreshRoomOpens DEF CreateMediaRoom
  <2> HIDE DEF FreshRoom
  <2> DEFINE pc == IF req[r].reduce # None THEN "reduce" ELSE "commit"
             q == [req[r] EXCEPT !.new = FreshRoom, !.pc = pc]
  <2>2. pc \in Pcs
    BY DEF Pcs
  <2>3. req' = [req EXCEPT ![r] = q]
    BY <1>0, <1>5 DEF CreateMediaRoom
  <2> HIDE DEF pc
  <2>4. q \in Requests
    BY <1>0, <2>1, <2>2 DEF Requests
  <2> QED
    BY <1>b, <2>3, <2>4
<1>6. ASSUME NEW r \in Reqs, ReduceSettings(r) PROVE req' \in [Reqs -> Requests]
  <2> DEFINE yes == TRUE
  <2>0. yes \in BOOLEAN
    OBVIOUS
  <2> HIDE DEF yes
  <2>1. [req[r] EXCEPT !.reduced = yes, !.pc = "commit"] \in Requests
    BY <1>0, <1>p, <2>0 DEF Requests
  <2>2. req' = [req EXCEPT ![r] = [req[r] EXCEPT !.reduced = yes, !.pc = "commit"]]
    BY <1>0, <1>6 DEF ReduceSettings, yes
  <2> QED
    BY <1>b, <2>1, <2>2
<1>7. ASSUME NEW r \in Reqs, Recheck(r) \/ Commit(r) \/ CommitUnheard(r) \/ StepFails(r)
                             \/ RoomUnheard(r) \/ UndoSettings(r) \/ EndReplacementRoom(r)
                             \/ EndNewRoom(r) \/ EndOldRoom(r) \/ DeleteRoomClose(r)
                             \/ DeleteRoomUnknown(r) \/ ReduceUnheard(r)
      PROVE  req' \in [Reqs -> Requests]
  BY <1>7, <1>a, <1>p DEF Recheck, Commit, CommitUnheard, StepFails, RoomUnheard, UndoSettings,
    EndReplacementRoom, EndNewRoom, EndOldRoom, DeleteRoomClose, DeleteRoomUnknown, ReduceUnheard
<1>8. ASSUME NEW r \in Reqs, UndoFails(r) PROVE req' \in [Reqs -> Requests]
  <2>1. NextUndo[req[r].pc] \in Pcs
    BY <1>8 DEF UndoFails, NextUndo, Pcs
  <2> QED
    BY <1>8, <1>a, <2>1 DEF UndoFails
<1>9. ASSUME NEW r \in Reqs, ReleaseV5SchedulingLock(r) \/ Crash(r) \/ InsertRow(r)
                             \/ DeleteRoomMark(r)
      PROVE  req' \in [Reqs -> Requests]
  BY <1>9, <1>b, <1>i DEF ReleaseV5SchedulingLock, Crash, InsertRow, DeleteRoomMark
<1>10. ASSUME NEW r \in Reqs, NEW c \in Classes, NEW s \in Starts, CreateOlder(r, c, s)
       PROVE  req' \in [Reqs -> Requests]
  <2>1. FreshRoom \in Rooms
    BY <1>10, FreshRoomOpens DEF CreateOlder
  <2> HIDE DEF FreshRoom
  <2>2. \A server \in Servers :
          [Idle EXCEPT !.pc = "row", !.class = c, !.start = s, !.server = server,
                       !.new = FreshRoom] \in Requests
    BY <1>i, <2>1 DEF Requests, Pcs
  <2> QED
    BY <1>10, <1>b, <2>2 DEF CreateOlder
<1>11. ASSUME NEW r \in Reqs, NEW c \in Classes, DeleteRoomRead(r, c)
       PROVE  req' \in [Reqs -> Requests]
  <2>1. class[c].room \in Rooms \cup {None}
    BY <1>0 DEF ClassRows
  <2>2. [Idle EXCEPT !.pc = "close", !.old = class[c].room, !.move = c] \in Requests
    BY <1>i, <2>1 DEF Requests, Pcs
  <2> QED
    BY <1>11, <1>b, <2>2 DEF DeleteRoomRead
<1>12. ASSUME UNCHANGED req PROVE req' \in [Reqs -> Requests]
  BY <1>0, <1>12
<1> QED
  BY <1>1, <1>2, <1>3, <1>4, <1>5, <1>6, <1>7, <1>8, <1>9, <1>10, <1>11, <1>12
  DEF SchedNext, Version5, Failure, Elsewhere, Hook, RoomCreatedHook, RoomLiveHook,
      RoomClosedHook, LockExpires, DeleteLiveClass, UpdateLiveClass, schedVars

\* The row that a commit writes, and the one it moves.
LEMMA RowsWritten ==
  ASSUME SchedTypeOK, NEW r \in Reqs, Shape(req[r]), req[r].pc \in {"write", "row"}
  PROVE  /\ req[r].class \in Classes /\ NewRow(r) \in ClassRows
         /\ Moved(r) \in [Classes -> ClassRows]
         /\ [Moved(r) EXCEPT ![req[r].class] = NewRow(r)] \in [Classes -> ClassRows]
         /\ [class EXCEPT ![req[r].class] = NewRow(r)] \in [Classes -> ClassRows]
<1>0. req[r] \in Requests /\ class \in [Classes -> ClassRows]
  BY DEF SchedTypeOK, Requests, ClassRows
<1>1. req[r].class \in Classes /\ req[r].start \in Starts
  BY DEF Shape, Deleting
<1>2. NewRow(r) \in ClassRows
  BY <1>0, <1>1 DEF NewRow, ClassRows, Requests, Statuses
<1>3. Moved(r) \in [Classes -> ClassRows]
  <2>1. CASE req[r].move = None
    BY <1>0, <2>1 DEF Moved
  <2>2. CASE req[r].move # None
    <3> DEFINE row == [class[req[r].move] EXCEPT !.server = "malaysia", !.room = req[r].spare]
    <3>1. req[r].move \in Classes /\ class[req[r].move] \in ClassRows
      BY <1>0, <2>2 DEF Requests
    <3>2. row \in ClassRows
      BY <1>0, <3>1 DEF ClassRows, Servers, Requests
    <3>3. Moved(r) = [class EXCEPT ![req[r].move] = row]
      BY <1>0, <2>2 DEF Moved
    <3> HIDE DEF row
    <3> QED
      BY <1>0, <3>1, <3>2, <3>3
  <2> QED
    BY <2>1, <2>2
<1> QED
  BY <1>0, <1>1, <1>2, <1>3

\* The rows of classes keep their type.
LEMMA ClassesTyped ==
  ASSUME SchedTypeOK, RowInv, ReqInv, [SchedNext]_schedVars
  PROVE  class' \in [Classes -> ClassRows]
<1>0. req \in [Reqs -> Requests] /\ class \in [Classes -> ClassRows]
  BY DEF SchedTypeOK, Requests, ClassRows
<1>1. ASSUME NEW r \in Reqs, Commit(r) \/ CommitUnheard(r) \/ InsertRow(r)
      PROVE  class' \in [Classes -> ClassRows]
  BY <1>1, RowsWritten DEF Commit, CommitUnheard, InsertRow, Written, At, ReqInv
<1>2. ASSUME NEW m \in Rooms, Hook(m) PROVE class' \in [Classes -> ClassRows]
  <2>1. \A c \in Classes : \A status \in Statuses : \A s \in Starts :
          /\ [class EXCEPT ![c].status = status] \in [Classes -> ClassRows]
          /\ [class EXCEPT ![c].status = status, ![c].start = s] \in [Classes -> ClassRows]
          /\ [class[c] EXCEPT !.status = status] \in ClassRows
    BY <1>0 DEF ClassRows
  <2>2. "scheduled" \in Statuses /\ "live" \in Statuses /\ "processing" \in Statuses
    BY DEF Statuses
  <2>3. RowOf(m) \subseteq Classes
    BY DEF RowOf
  <2>4. CASE RoomClosedHook(m)
    <3>1. \A c \in Classes : (IF c \in RowOf(m) THEN [class[c] EXCEPT !.status = "processing"]
                              ELSE class[c]) \in ClassRows
      BY <1>0 DEF ClassRows, Statuses
    <3> QED
      BY <2>4, <3>1, Zenon DEF RoomClosedHook
  <2>5. CASE RoomCreatedHook(m)
    <3>1. PICK c \in Classes : class' = [class EXCEPT ![c].status = "scheduled"]
      BY <2>3, <2>5, Zenon DEF RoomCreatedHook
    <3> QED
      BY <1>0, <3>1 DEF ClassRows, Statuses
  <2>6. CASE RoomLiveHook(m)
    <3>1. PICK c \in Classes, now \in Starts :
            class' = [class EXCEPT ![c].status = "live", ![c].start = now]
      BY <2>3, <2>6 DEF RoomLiveHook
    <3> QED
      BY <2>1, <2>2, <3>1, Zenon
  <2> QED
    BY <1>2, <2>4, <2>5, <2>6 DEF Hook
<1>3. ASSUME NEW c \in Classes, NEW s \in Starts, UpdateLiveClass(c, s)
      PROVE  class' \in [Classes -> ClassRows]
  BY <1>0, <1>3 DEF UpdateLiveClass, ClassRows
<1>4. ASSUME NEW c \in Classes, DeleteLiveClass(c) PROVE class' \in [Classes -> ClassRows]
  <2> DEFINE yes == TRUE
  <2>0. yes \in BOOLEAN
    OBVIOUS
  <2> HIDE DEF yes
  <2>1. class' = [class EXCEPT ![c].deleted = yes]
    BY <1>4 DEF DeleteLiveClass, yes
  <2> QED
    BY <1>0, <2>0, <2>1 DEF ClassRows
<1>5. ASSUME NEW r \in Reqs, DeleteRoomMark(r) \/ DeleteRoomUnknown(r)
      PROVE  class' \in [Classes -> ClassRows]
  <2>1. req[r].move \in Classes
    BY <1>5 DEF DeleteRoomMark, DeleteRoomUnknown, At, ReqInv, Shape, Deleting
  <2> QED
    BY <1>0, <1>5, <2>1 DEF DeleteRoomMark, DeleteRoomUnknown, ClassRows, Statuses
<1>6. ASSUME NEW r \in Reqs,
             \/ AcquireV5SchedulingLock(r) \/ Plan(r) \/ CreateReplacementRoom(r)
             \/ CreateMediaRoom(r) \/ ReduceSettings(r) \/ Recheck(r) \/ UndoSettings(r)
             \/ EndReplacementRoom(r) \/ EndNewRoom(r) \/ EndOldRoom(r)
             \/ ReleaseV5SchedulingLock(r) \/ StepFails(r) \/ RoomUnheard(r) \/ UndoFails(r)
             \/ Crash(r) \/ DeleteRoomClose(r) \/ ReduceUnheard(r)
             \/ \E c \in Classes : DeleteRoomRead(r, c) \/ \E s \in Starts : CreateOlder(r, c, s)
             \/ \E c \in Classes, s \in Starts, v \in Servers : CreateVersion5(r, c, s, v)
      PROVE  UNCHANGED class
  BY <1>6, Zenon DEF CreateVersion5, AcquireV5SchedulingLock, Plan,
      CreateReplacementRoom, CreateMediaRoom, ReduceSettings, Recheck, UndoSettings,
      EndReplacementRoom, EndNewRoom, EndOldRoom, ReleaseV5SchedulingLock, StepFails,
      RoomUnheard, UndoFails, Crash, DeleteRoomRead, CreateOlder, DeleteRoomClose, ReduceUnheard
<1>7. LockExpires \/ UNCHANGED schedVars => UNCHANGED class
  BY DEF LockExpires, schedVars
<1> QED
  BY <1>0, <1>1, <1>2, <1>3, <1>4, <1>5, <1>6, <1>7 DEF SchedNext, Version5, Failure, Elsewhere

\* The rooms keep their type.
LEMMA RoomsTyped ==
  ASSUME SchedTypeOK, RowInv, ReqInv, [SchedNext]_schedVars
  PROVE  room' \in [Rooms -> RoomRows]
<1>0. req \in [Reqs -> Requests] /\ room \in [Rooms -> RoomRows]
  BY DEF SchedTypeOK, Requests, RoomRows
<1>1. ASSUME NEW r \in Reqs, CreateReplacementRoom(r) \/ CreateMediaRoom(r) \/ RoomUnheard(r)
      PROVE  room' \in [Rooms -> RoomRows]
  <2>1. req[r].server \in Servers /\ req[r].safe \in BOOLEAN /\ "malaysia" \in Servers
    BY <1>0 DEF Requests, Servers
  <2> QED
    <3>1. RoomLeft /\ \/ room' = Opened("malaysia", FALSE)
                      \/ room' = Opened(req[r].server, req[r].safe)
      BY <1>1, Zenon DEF CreateReplacementRoom, CreateMediaRoom, RoomUnheard
    <3>2. \A server \in Servers, safe \in BOOLEAN :
            RoomLeft => Opened(server, safe) \in [Rooms -> RoomRows]
      BY RoomTypes, Zenon
    <3> QED
      BY <2>1, <3>1, <3>2, Zenon
<1>2. ASSUME NEW r \in Reqs, NEW c \in Classes, NEW s \in Starts, CreateOlder(r, c, s)
      PROVE  room' \in [Rooms -> RoomRows]
  BY <1>2, RoomTypes DEF CreateOlder, Servers
<1>3. ASSUME NEW r \in Reqs, EndReplacementRoom(r) \/ EndNewRoom(r) \/ EndOldRoom(r)
      PROVE  room' \in [Rooms -> RoomRows]
  <2>1. req[r].pc = "endold" => req[r].old # None
    BY DEF ReqInv, Shape
  <2> QED
    BY <1>0, <1>3, <2>1, RoomTypes DEF EndReplacementRoom, EndNewRoom, EndOldRoom, Requests, At
<1>4. ASSUME NEW r \in Reqs, ReduceSettings(r) \/ ReduceUnheard(r) \/ UndoSettings(r)
      PROVE  room' \in [Rooms -> RoomRows]
  <2>1. \A b \in BOOLEAN : \A m \in Rooms : [room EXCEPT ![m].safe = b] \in [Rooms -> RoomRows]
    BY <1>0 DEF RoomRows
  <2>2. req[r].pc = "reduce" \/ req[r].reduced => req[r].old \in Rooms
    BY <1>0 DEF ReqInv, Shape, Requests, Opening
  <2> QED
    <3>1. CASE ReduceSettings(r)
      BY <2>1, <2>2, <3>1, Zenon DEF ReduceSettings, At
    <3>u. CASE ReduceUnheard(r)
      BY <2>1, <2>2, <3>u, Zenon DEF ReduceUnheard, At
    <3>2. CASE UndoSettings(r) /\ req[r].reduced
      BY <2>1, <2>2, <3>2, Zenon DEF UndoSettings
    <3>3. CASE UndoSettings(r) /\ ~req[r].reduced
      BY <1>0, <3>3 DEF UndoSettings
    <3> QED
      BY <1>4, <3>1, <3>u, <3>2, <3>3
<1>5. ASSUME NEW m \in Rooms, RoomClosedHook(m) PROVE room' \in [Rooms -> RoomRows]
  BY <1>0, <1>5 DEF RoomClosedHook, RoomRows
<1>6. ASSUME NEW r \in Reqs, DeleteRoomClose(r) PROVE room' \in [Rooms -> RoomRows]
  <2>1. req[r].old \in Rooms
    BY <1>6 DEF DeleteRoomClose, At, ReqInv, Shape, Deleting
  <2> QED
    BY <1>0, <1>6, <2>1 DEF DeleteRoomClose, RoomRows
<1>7. ASSUME NEW r \in Reqs,
             \/ AcquireV5SchedulingLock(r) \/ Plan(r) \/ Recheck(r) \/ Commit(r) \/ CommitUnheard(r)
             \/ InsertRow(r) \/ ReleaseV5SchedulingLock(r) \/ StepFails(r) \/ UndoFails(r)
             \/ Crash(r) \/ DeleteRoomMark(r) \/ DeleteRoomUnknown(r)
             \/ \E c \in Classes : DeleteRoomRead(r, c)
             \/ \E c \in Classes, s \in Starts, v \in Servers : CreateVersion5(r, c, s, v)
      PROVE  UNCHANGED room
  BY <1>7, Zenon DEF CreateVersion5, AcquireV5SchedulingLock, Plan,
      Recheck, Commit, CommitUnheard, InsertRow, ReleaseV5SchedulingLock, StepFails,
      UndoFails, Crash, DeleteRoomRead, DeleteRoomMark, DeleteRoomUnknown
<1>8. ASSUME \/ LockExpires \/ UNCHANGED schedVars
             \/ \E m \in Rooms : RoomCreatedHook(m) \/ RoomLiveHook(m)
             \/ \E c \in Classes : DeleteLiveClass(c) \/ \E s \in Starts : UpdateLiveClass(c, s)
      PROVE  UNCHANGED room
  BY <1>8 DEF LockExpires, schedVars, RoomCreatedHook, RoomLiveHook, UpdateLiveClass, DeleteLiveClass
<1> QED
  BY <1>0, <1>1, <1>2, <1>3, <1>4, <1>5, <1>6, <1>7, <1>8
  DEF SchedNext, Version5, Failure, Elsewhere, Hook

\* The other variables.
Others ==
  /\ lock \in Reqs \cup {None}
  /\ faults \in 0 .. MaxFaults /\ events \in 0 .. MaxEvents
  /\ outside \in BOOLEAN /\ lost \subseteq Classes /\ leaked \subseteq Rooms

\* The lock, the counters and the sets of what was lost keep theirs.
LEMMA OthersTyped ==
  ASSUME SchedTypeOK, RowInv, ReqInv, [SchedNext]_schedVars
  PROVE  Others'
<1> USE LiveScheduleAssumption
<1>0. /\ req \in [Reqs -> Requests] /\ class \in [Classes -> ClassRows]
      /\ lock \in Reqs \cup {None} /\ faults \in 0 .. MaxFaults /\ events \in 0 .. MaxEvents
      /\ outside \in BOOLEAN /\ lost \subseteq Classes /\ leaked \subseteq Rooms
  BY DEF SchedTypeOK, Requests, ClassRows
<1>f. (Fault => faults' \in 0 .. MaxFaults) /\ (Event => events' \in 0 .. MaxEvents)
  BY <1>0 DEF Fault, Event
<1>1. ASSUME NEW r \in Reqs, AcquireV5SchedulingLock(r) \/ ReleaseV5SchedulingLock(r)
      PROVE  Others'
  BY <1>0, <1>1 DEF AcquireV5SchedulingLock, ReleaseV5SchedulingLock, Others
<1>2. ASSUME NEW r \in Reqs,
             \/ Plan(r) \/ CreateReplacementRoom(r) \/ CreateMediaRoom(r) \/ ReduceSettings(r)
             \/ Recheck(r) \/ EndReplacementRoom(r) \/ EndNewRoom(r) \/ EndOldRoom(r)
             \/ DeleteRoomClose(r)
             \/ \E c \in Classes, s \in Starts, v \in Servers : CreateVersion5(r, c, s, v)
      PROVE  UNCHANGED <<lock, faults, events, outside, lost, leaked>>
  BY <1>2, Zenon DEF CreateVersion5, Plan, CreateReplacementRoom, CreateMediaRoom,
    ReduceSettings, Recheck, EndReplacementRoom, EndNewRoom, EndOldRoom, DeleteRoomClose
<1>3. ASSUME NEW r \in Reqs, \/ UndoSettings(r) \/ StepFails(r) \/ ReduceUnheard(r)
                             \/ InsertRow(r) \/ DeleteRoomUnknown(r) \/ DeleteRoomMark(r)
      PROVE  Others'
  <2>1. CASE UndoSettings(r)
    BY <1>0, <2>1 DEF UndoSettings, Others
  <2>2. CASE StepFails(r) \/ ReduceUnheard(r) \/ DeleteRoomUnknown(r)
    BY <1>0, <1>f, <2>2 DEF StepFails, ReduceUnheard, DeleteRoomUnknown, Others
  <2>3. CASE InsertRow(r)
    BY <1>0, <2>3 DEF InsertRow, Others
  <2>4. CASE DeleteRoomMark(r)
    BY <1>0, <2>4 DEF DeleteRoomMark, Others
  <2> QED
    BY <1>3, <2>1, <2>2, <2>3, <2>4
<1>4. ASSUME NEW r \in Reqs, Commit(r) \/ CommitUnheard(r)
      PROVE  Others'
  <2>1. RoomWrittenOver(r) \subseteq Rooms
    BY <1>0, <1>4 DEF Commit, CommitUnheard, At, RoomWrittenOver, Requests, ClassRows, ReqInv, Stands,
      Leaving, Opening
  <2>2. {req[r].class, req[r].move} \ {None} \subseteq Classes
    BY <1>0 DEF Requests
  <2> QED
    BY <1>0, <1>4, <1>f, <2>1, <2>2 DEF Commit, CommitUnheard, Others
<1>5. ASSUME NEW r \in Reqs, RoomUnheard(r) \/ UndoFails(r) \/ Crash(r)
      PROVE  Others'
  <2>1. RoomLeft => FreshRoom \in Rooms
    BY FreshRoomOpens
  <2>2. \A pc : InHand(r, pc) \subseteq Rooms
    BY <1>0 DEF InHand, Requests
  <2>3. Unended(r) \subseteq Rooms
    BY <1>0, <2>2 DEF Unended, Requests
  <2> HIDE DEF FreshRoom
  <2> QED
    BY <1>0, <1>5, <1>f, <2>1, <2>2, <2>3 DEF RoomUnheard, UndoFails, Crash, Others
<1>6. ASSUME NEW r \in Reqs, NEW c \in Classes,
             DeleteRoomRead(r, c) \/ \E s \in Starts : CreateOlder(r, c, s)
      PROVE  Others'
  BY <1>0, <1>6, <1>f DEF DeleteRoomRead, CreateOlder, Others
<1>7. LockExpires => Others'
  BY <1>0, <1>f DEF LockExpires, Others
<1>8. ASSUME NEW m \in Rooms, Hook(m) PROVE Others'
  BY <1>0, <1>8, <1>f DEF Hook, RoomCreatedHook, RoomLiveHook, RoomClosedHook, Others, Placed
<1>9. ASSUME NEW c \in Classes, DeleteLiveClass(c) \/ \E s \in Starts : UpdateLiveClass(c, s)
      PROVE  Others'
  BY <1>0, <1>9, <1>f DEF DeleteLiveClass, UpdateLiveClass, Others, Placed
<1>10. UNCHANGED <<lock, faults, events, outside, lost, leaked>> => Others'
  BY <1>0 DEF Others
<1>11. UNCHANGED schedVars => UNCHANGED <<lock, faults, events, outside, lost, leaked>>
  BY DEF schedVars
<1> QED
  BY <1>1, <1>2, <1>3, <1>4, <1>5, <1>6, <1>7, <1>8, <1>9, <1>10, <1>11
  DEF SchedNext, Version5, Failure, Elsewhere

\* Every step keeps the type invariant.
LEMMA SchedTypeStep ==
  ASSUME SchedTypeOK, RowInv, ReqInv, [SchedNext]_schedVars
  PROVE  SchedTypeOK'
BY RequestsTyped, ClassesTyped, RoomsTyped, OthersTyped
DEF SchedTypeOK, Requests, ClassRows, RoomRows, Others

\* A step that leaves every row its room, and ends no room of a row or of a request
\* that may still write it.
RowsKeep ==
  /\ lost \subseteq lost'
  /\ \A c \in Classes : /\ class'[c].room = class[c].room
                        /\ class'[c].status = "none" <=> class[c].status = "none"
  /\ \A m \in Rooms :
       /\ room[m].state # "none" => room'[m].state # "none"
       /\ room'[m].state = "ended" /\ room[m].state # "ended" =>
            /\ \A c \in Classes : class[c].room = m => c \in lost
            /\ \A s \in Reqs : m \notin Writable(req[s])

\* Such a step keeps what is said of the rows.
LEMMA RowsStay ==
  ASSUME SchedTypeOK, SchedTypeOK', RowInv, ServeInv, RowsKeep
  PROVE  /\ RowInv' /\ ServeInv'
         /\ \A q \in Requests : \A s \in Reqs :
              Shape(q) /\ Stands(q) /\ Writable(q) \subseteq Writable(req[s]) => Stands(q)'
<1>0. class \in [Classes -> ClassRows] /\ class' \in [Classes -> ClassRows]
  BY DEF SchedTypeOK, ClassRows
<1>1. RowInv'
  BY <1>0 DEF RowInv, RowsKeep, ClassRows
<1>2. ServeInv'
  BY <1>0 DEF ServeInv, RowsKeep, ClassRows
<1>3. ASSUME NEW q \in Requests, NEW s \in Reqs, Shape(q), Stands(q),
             Writable(q) \subseteq Writable(req[s])
      PROVE  Stands(q)'
  <2>1. /\ Held(q) \subseteq Rooms /\ Writable(q) \subseteq Rooms
        /\ q.class \in Classes \cup {None} /\ q.move \in Classes \cup {None}
        /\ \A m \in Leaving(q) : m \in Rooms \cup {None}
    BY DEF Held, Writable, Leaving, Requests
  <2>2. q.pc \in {"lock", "plan", "row"} \cup Opening => class'[q.class].room = None
    <3>1. q.pc \in {"lock", "plan", "row"} \cup Opening => q.class \in Classes
      BY <1>3 DEF Shape, Opening, Deleting
    <3> QED
      BY <1>3, <3>1 DEF Stands, RowsKeep
  <2>3. q.pc \in Deleting => class'[q.move].room # None
    BY <1>3 DEF Shape, Stands, RowsKeep
  <2>4. \A m \in Held(q) : room'[m].state # "none"
    BY <1>3, <2>1 DEF Stands, RowsKeep
  <2>5. \A m \in Writable(q) : room'[m].state # "ended" /\ \A c \in Classes : class'[c].room # m
    BY <1>3, <2>1 DEF Stands, RowsKeep
  <2>6. q.pc \in Undoing => \A c \in Classes : class'[c].room \in Held(q) => c \in lost'
    BY <1>3 DEF Stands, RowsKeep
  <2>7. \A m \in Leaving(q) :
       /\ m # None /\ room'[m].state # "none" /\ class'[q.move].room # None
       /\ \A c \in Classes : class'[c].room = m => c = q.move /\ q.pc # "endold"
    <3>1. Leaving(q) # {} => q.move \in Classes
      BY <2>1 DEF Leaving
    <3> QED
      BY <1>3, <2>1, <3>1 DEF Stands, RowsKeep
  <2> QED
    BY <2>2, <2>3, <2>4, <2>5, <2>6, <2>7 DEF Stands
<1> QED
  BY <1>1, <1>2, <1>3

\* One request moves on, the others stand as they stood.
LEMMA ReqMoves ==
  ASSUME req \in [Reqs -> Requests], ReqInv, NEW r \in Reqs, NEW q \in Requests,
         req' = [req EXCEPT ![r] = q], Shape(q), Stands(q)',
         \A s \in Reqs \ {r} : Stands(req[s])',
         \A s \in Reqs \ {r} : /\ q.class # None => q.class # req[s].class
                               /\ Held(q) \cap Held(req[s]) = {}
                               /\ Leaving(q) \cap Writable(req[s]) = {}
                               /\ Leaving(req[s]) \cap Writable(q) = {},
         Leaving(q) \cap Writable(q) = {}
  PROVE  ReqInv'
<1>1. req'[r] = q /\ \A s \in Reqs \ {r} : req'[s] = req[s]
  OBVIOUS
<1>2. \A s \in Reqs : Shape(req'[s]) /\ Stands(req[s])'
  BY <1>1 DEF ReqInv
<1> QED
  BY <1>1, <1>2 DEF ReqInv, Between

\* A request that goes on with no more than it had.
LEMMA ReqCarries ==
  ASSUME SchedTypeOK, SchedTypeOK', RowInv, ReqInv, ServeInv, RowsKeep,
         NEW r \in Reqs, NEW q \in Requests, req' = [req EXCEPT ![r] = q],
         Shape(q), Stands(q), q.class \in {None, req[r].class}, Held(q) \subseteq Held(req[r]),
         Writable(q) \subseteq Writable(req[r]), Leaving(q) \subseteq Leaving(req[r])
  PROVE  RowInv' /\ ReqInv' /\ ServeInv'
<1>0. req \in [Reqs -> Requests]
  BY DEF SchedTypeOK, Requests
<1>1. Stands(q)' /\ \A s \in Reqs \ {r} : Stands(req[s])'
  BY <1>0, RowsStay DEF ReqInv
<1>2. \A s \in Reqs \ {r} : /\ q.class # None => q.class # req[s].class
                            /\ Held(q) \cap Held(req[s]) = {}
                            /\ Leaving(q) \cap Writable(req[s]) = {}
                            /\ Leaving(req[s]) \cap Writable(q) = {}
  BY DEF ReqInv, Between
<1>3. Leaving(q) \cap Writable(q) = {}
  BY DEF ReqInv
<1> QED
  BY <1>0, <1>1, <1>2, <1>3, RowsStay, ReqMoves

\* A room that is opened keeps the others as they were.
LEMMA OpensRoom ==
  ASSUME SchedTypeOK, RowInv, ReqInv, RoomLeft, NEW server \in Servers, NEW safe \in BOOLEAN,
         room' = Opened(server, safe), UNCHANGED <<class, lost>>
  PROVE  /\ RowsKeep /\ FreshRoom \in Rooms
         /\ room'[FreshRoom].state = "open" /\ room'[FreshRoom].safe = safe
         /\ \A m \in Rooms \ {FreshRoom} : room'[m] = room[m]
         /\ \A c \in Classes : class[c].room # FreshRoom
         /\ \A s \in Reqs : FreshRoom \notin Held(req[s]) /\ FreshRoom \notin Leaving(req[s])
<1>1. FreshRoom \in Rooms /\ room[FreshRoom].state = "none"
  BY FreshRoomOpens
<1>2. /\ room'[FreshRoom].state = "open" /\ room'[FreshRoom].safe = safe
      /\ \A m \in Rooms \ {FreshRoom} : room'[m] = room[m]
  BY RoomTypes
<1>n. FreshRoom # None
  BY <1>1, LiveScheduleAssumption
<1> HIDE DEF FreshRoom
<1>3. \A c \in Classes : class[c].room # FreshRoom
  BY <1>1, <1>n DEF RowInv
<1>4. \A s \in Reqs : FreshRoom \notin Held(req[s]) /\ FreshRoom \notin Leaving(req[s])
  BY <1>1 DEF ReqInv, Stands
<1>5. RowsKeep
  BY <1>1, <1>2 DEF RowsKeep
<1> QED
  BY <1>1, <1>2, <1>3, <1>4, <1>5

\* A request that takes a room just opened.
LEMMA ReqOpens ==
  ASSUME SchedTypeOK, SchedTypeOK', RowInv, ReqInv, ServeInv, RoomLeft,
         NEW server \in Servers, NEW safe \in BOOLEAN,
         room' = Opened(server, safe), UNCHANGED <<class, lost>>,
         NEW r \in Reqs, NEW q \in Requests, req' = [req EXCEPT ![r] = q],
         Shape(q), q.pc \in Opening \cup {"row"}, Held(q) \subseteq Held(req[r]) \cup {FreshRoom},
         q.class \in Classes, class[q.class].room = None,
         \A s \in Reqs \ {r} : req[s].class # q.class,
         Held(req[r]) \subseteq Writable(req[r]), Leaving(q) \subseteq Leaving(req[r]),
         Leaving(q) # {} => q.move = req[r].move
  PROVE  RowInv' /\ ReqInv' /\ ServeInv'
<1>0. req \in [Reqs -> Requests]
  BY DEF SchedTypeOK, Requests
<1>1. /\ RowsKeep /\ FreshRoom \in Rooms /\ room'[FreshRoom].state = "open"
      /\ \A m \in Rooms \ {FreshRoom} : room'[m] = room[m]
      /\ \A c \in Classes : class[c].room # FreshRoom
      /\ \A s \in Reqs : FreshRoom \notin Held(req[s]) /\ FreshRoom \notin Leaving(req[s])
  BY OpensRoom
<1> HIDE DEF FreshRoom
<1>2. \A s \in Reqs \ {r} : Stands(req[s])'
  BY <1>0, <1>1, RowsStay DEF ReqInv
<1>3. /\ Writable(q) \subseteq Held(q) /\ \A s \in Reqs : Writable(req[s]) \subseteq Held(req[s])
      /\ Held(q) \subseteq Rooms
  BY <1>0 DEF Writable, Held, Requests
<1>4. Stands(q)'
  <2>1. \A m \in Held(q) : room'[m].state \notin {"none", "ended"} /\ \A c \in Classes : class'[c].room # m
    BY <1>1, <1>3 DEF ReqInv, Stands
  <2>2. q.pc \notin Deleting \cup Undoing \cup {"endold"}
    BY DEF Opening, Deleting, Undoing
  <2>3. \A m \in Leaving(q) :
       /\ m # None /\ room'[m].state # "none" /\ class'[q.move].room # None
       /\ \A c \in Classes : class'[c].room = m => c = q.move
    <3>1. \A m \in Leaving(q) : m \in Rooms \cup {None}
      BY DEF Leaving, Requests
    <3> QED
      BY <1>1, <3>1 DEF ReqInv, Stands
  <2> QED
    BY <1>3, <2>1, <2>2, <2>3 DEF Stands
<1>5. \A s \in Reqs \ {r} : /\ q.class # None => q.class # req[s].class
                            /\ Held(q) \cap Held(req[s]) = {}
                            /\ Leaving(q) \cap Writable(req[s]) = {}
                            /\ Leaving(req[s]) \cap Writable(q) = {}
  BY <1>1, <1>3 DEF ReqInv, Between
<1>6. Leaving(q) \cap Writable(q) = {}
  BY <1>1, <1>3 DEF ReqInv
<1> QED
  BY <1>0, <1>1, <1>2, <1>4, <1>5, <1>6, RowsStay, ReqMoves

\* What a commit writes, and only that.
LEMMA WrittenRows ==
  ASSUME SchedTypeOK, ReqInv, NEW r \in Reqs, req[r].pc \in {"write", "row"}, Written(r)
  PROVE  LET c == req[r].class  k == req[r].move
         IN  /\ c \in Classes /\ class[c].room = None /\ k \in Classes \cup {None} /\ k # c
             /\ class'[c] = NewRow(r)
             /\ k # None => /\ class'[k].server = "malaysia" /\ class'[k].status = class[k].status
                            /\ class'[k].start = class[k].start
                            /\ class'[k].deleted = class[k].deleted
                            /\ class'[k].room = req[r].spare /\ class[k].room # None
             /\ k = None => req[r].spare = None
             /\ \A x \in Classes \ {c, k} : class'[x] = class[x]
<1>0. /\ req \in [Reqs -> Requests] /\ class \in [Classes -> ClassRows]
      /\ class' = [Moved(r) EXCEPT ![req[r].class] = NewRow(r)]
  BY DEF SchedTypeOK, Requests, ClassRows, Written
<1>s. Shape(req[r]) /\ Stands(req[r]) /\ req[r] \in Requests
  BY <1>0 DEF ReqInv
<1> DEFINE c == req[r].class
           k == req[r].move
<1>1. /\ c \in Classes /\ class[c].room = None /\ k \in Classes \cup {None}
      /\ k # None => class[k].room # None
      /\ k = None => req[r].spare = None
  <2>1. c \in Classes /\ class[c].room = None /\ k \in Classes \cup {None}
    BY <1>s DEF Shape, Stands, Deleting, Opening, Requests
  <2>2. k # None => req[r].old \in Leaving(req[r])
    BY <1>s DEF Shape, Leaving, Opening
  <2>3. k = None => req[r].spare = None
    BY <1>s DEF Shape
  <2> QED
    BY <1>s, <2>1, <2>2, <2>3 DEF Stands
<1>2. k # c
  BY <1>1, LiveScheduleAssumption
<1>3. CASE k = None
  <2>1. Moved(r) = class
    BY <1>3 DEF Moved
  <2> HIDE DEF c, k
  <2>2. class'[c] = NewRow(r) /\ \A x \in Classes \ {c} : class'[x] = class[x]
    BY <1>0, <1>1, <2>1 DEF c
  <2> QED
    BY <1>1, <1>2, <1>3, <2>2 DEF c, k
<1>4. CASE k # None
  <2> DEFINE row == [class[k] EXCEPT !.server = "malaysia", !.room = req[r].spare]
  <2>1. Moved(r) = [class EXCEPT ![k] = row]
    BY <1>0, <1>4 DEF Moved
  <2>2. /\ row.server = "malaysia" /\ row.status = class[k].status /\ row.start = class[k].start
        /\ row.deleted = class[k].deleted /\ row.room = req[r].spare
    BY <1>0, <1>1, <1>4 DEF ClassRows
  <2> HIDE DEF c, k, row
  <2>3. class'[c] = NewRow(r) /\ class'[k] = row /\ \A x \in Classes \ {c, k} : class'[x] = class[x]
    BY <1>0, <1>1, <1>2, <1>4, <2>1 DEF c
  <2> QED
    BY <1>1, <1>2, <1>4, <2>2, <2>3 DEF c, k
<1> QED
  BY <1>3, <1>4

\* A request that writes its rows.
LEMMA ReqWrites ==
  ASSUME SchedTypeOK, SchedTypeOK', RowInv, ReqInv, ServeInv,
         NEW r \in Reqs, NEW q \in Requests, req' = [req EXCEPT ![r] = q],
         req[r].pc \in {"write", "row"}, Written(r), UNCHANGED room, lost \subseteq lost',
         Shape(q), q.pc \in {"endold", "release", "undo", "idle"},
         q.pc = "endold" => req[r].move # None /\ q.old = req[r].old,
         q.pc = "undo" => {req[r].class, req[r].move} \ {None} \subseteq lost',
         q.class \in {None, req[r].class}, Held(q) \subseteq Held(req[r]), q.move \in {None, req[r].move}
  PROVE  RowInv' /\ ReqInv' /\ ServeInv'
<1>0. req \in [Reqs -> Requests] /\ class \in [Classes -> ClassRows] /\ class' \in [Classes -> ClassRows]
  BY DEF SchedTypeOK, Requests, ClassRows
<1> DEFINE c == req[r].class
           k == req[r].move
           n == req[r].new
           p == req[r].spare
<1>1. /\ c \in Classes /\ class[c].room = None /\ n \in Rooms /\ k \in Classes \cup {None}
      /\ Writable(req[r]) = Held(req[r]) /\ n \in Held(req[r])
      /\ k # None => p \in Held(req[r]) /\ p # n /\ p \in Rooms
      /\ k # None => class[k].room # None
  <2>1. Shape(req[r]) /\ Stands(req[r]) /\ req[r] \in Requests
    BY <1>0 DEF ReqInv
  <2>2. req[r].pc \notin {"idle"} \cup Deleting /\ Writable(req[r]) = Held(req[r])
    BY DEF Deleting, Writable, Opening
  <2>3. c \in Classes /\ class[c].room = None /\ n # None /\ n \in Rooms /\ k \in Classes \cup {None}
    BY <2>1, <2>2 DEF Shape, Stands, Requests, Opening
  <2>4. k # None => p # None /\ p # n /\ req[r].pc = "write" /\ class[k].room # None
    <3>1. k # None => req[r].pc = "write" /\ req[r].old \in Leaving(req[r])
      BY <2>1 DEF Shape, Leaving, Opening
    <3> QED
      BY <2>1, <3>1 DEF Shape, Stands
  <2> QED
    BY <2>1, <2>2, <2>3, <2>4 DEF Held, Requests
<1>2. /\ k # c /\ \A x \in Classes \ {c, k} : class'[x] = class[x]
      /\ class'[c] = NewRow(r)
      /\ k # None => class'[k].room = p /\ class'[k].status = class[k].status
  BY WrittenRows
<1>3. class'[c].room = n /\ class'[c].status = "scheduled"
  BY <1>2 DEF NewRow
<1> HIDE DEF c, k, n, p
<1>4. \A m \in Held(req[r]) : /\ room[m].state \notin {"none", "ended"} /\ m # None
                              /\ \A x \in Classes : class[x].room # m
  BY <1>1 DEF ReqInv, Stands, Held
<1>5. \A x \in Classes : \/ x = c /\ class'[x].room = n /\ class'[x].status # "none"
                         \/ x = k /\ class'[x].room = p /\ (class'[x].status = class[x].status)
                            /\ class[x].room # None
                         \/ x \notin {c, k} /\ class'[x] = class[x]
  <2>1. class'[c].room = n /\ class'[c].status # "none"
    BY <1>3
  <2>2. k \in Classes => /\ class'[k].room = p /\ (class'[k].status = class[k].status)
                         /\ class[k].room # None
    BY <1>1, <1>2, LiveScheduleAssumption
  <2>3. \A x \in Classes : x \notin {c, k} => class'[x] = class[x]
    BY <1>2
  <2> QED
    BY <2>1, <2>2, <2>3
<1>6. n \in Held(req[r]) /\ n \in Rooms /\ (k \in Classes => p \in Held(req[r]) /\ p # n /\ p \in Rooms)
  BY <1>1, LiveScheduleAssumption
<1>7. RowInv'
  <2>1. ASSUME NEW x \in Classes
        PROVE  class'[x].room = None <=> class'[x].status = "none"
    BY <1>4, <1>5, <1>6 DEF RowInv
  <2>2. ASSUME NEW x \in Classes, class'[x].room # None
        PROVE  room[class'[x].room].state # "none"
    BY <1>4, <1>5, <1>6, <2>2 DEF RowInv
  <2>3. ASSUME NEW x \in Classes, NEW y \in Classes, class'[x].room = class'[y].room,
               class'[x].room # None
        PROVE  x = y
    BY <1>4, <1>5, <1>6, <2>3 DEF RowInv
  <2> QED
    BY <2>1, <2>2, <2>3 DEF RowInv
<1>8. ServeInv'
  <2>1. ASSUME NEW x \in Classes \ lost', class'[x].room # None
        PROVE  room[class'[x].room].state # "ended"
    BY <1>4, <1>5, <1>6, <2>1 DEF ServeInv
  <2> QED
    BY <2>1 DEF ServeInv
<1>9. \A x \in Classes : /\ class[x].room # None => class'[x].room # None
                         /\ class'[x].room \in Held(req[r]) \/ class'[x].room = class[x].room
                         /\ x # c /\ class[x].room = None => class'[x].room = None
  BY <1>4, <1>5, <1>6
<1>10. ASSUME NEW s \in Reqs \ {r} PROVE Stands(req[s])'
  <2>1. Stands(req[s]) /\ Shape(req[s]) /\ req[s] \in Requests /\ req'[s] = req[s]
    BY <1>0 DEF ReqInv
  <2>2. /\ req[s].class # c /\ Held(req[s]) \cap Held(req[r]) = {}
        /\ Leaving(req[s]) \cap Held(req[r]) = {}
    <3>1. Between(req[r], req[s]) /\ Leaving(req[s]) \cap Writable(req[r]) = {}
      BY DEF ReqInv
    <3> QED
      BY <1>1, <3>1, LiveScheduleAssumption DEF Between, c
  <2>4. req[s].pc \in {"lock", "plan", "row"} \cup Opening => class'[req[s].class].room = None
    <3>1. req[s].pc \in {"lock", "plan", "row"} \cup Opening =>
            req[s].class \in Classes /\ class[req[s].class].room = None
      BY <2>1 DEF Shape, Stands, Opening, Deleting
    <3> QED
      BY <1>9, <2>2, <3>1
  <2>5. req[s].pc \in Deleting => class'[req[s].move].room # None
    BY <1>9, <2>1 DEF Shape, Stands
  <2>6. Writable(req[s]) \subseteq Held(req[s])
    BY DEF Writable
  <2>7. \A m \in Writable(req[s]) : room[m].state # "ended" /\ \A x \in Classes : class'[x].room # m
    BY <1>9, <2>1, <2>2, <2>6 DEF Stands
  <2>8. req[s].pc \in Undoing => \A x \in Classes : class'[x].room \in Held(req[s]) => x \in lost'
    BY <1>9, <2>1, <2>2 DEF Stands
  <2>9. \A m \in Leaving(req[s]) :
       /\ m # None /\ room[m].state # "none" /\ class'[req[s].move].room # None
       /\ \A x \in Classes : class'[x].room = m => x = req[s].move /\ req[s].pc # "endold"
    <3>1. Leaving(req[s]) # {} => req[s].move \in Classes
      BY <2>1 DEF Leaving, Requests
    <3> QED
      BY <1>9, <2>1, <2>2, <3>1 DEF Stands
  <2>10. \A m \in Held(req[s]) : room[m].state # "none"
    BY <2>1 DEF Stands
  <2> QED
    BY <2>1, <2>4, <2>5, <2>7, <2>8, <2>9, <2>10 DEF Stands
<1>11. Leaving(q) \subseteq Leaving(req[r]) /\ (Leaving(q) # {} => q.pc = "endold" /\ q.move = k /\ k # None)
  <2>1. q.pc \notin Opening
    BY DEF Opening
  <2>2. ASSUME q.pc = "endold", q.move # None
        PROVE  k # None /\ q.old = req[r].old /\ q.move = k /\ req[r].pc = "write"
    BY <2>2 DEF k, ReqInv, Shape
  <2> QED
    BY <2>1, <2>2 DEF Leaving, Opening, k
<1>12. Stands(q)' /\ Writable(q) = {}
  <2>1. Writable(q) = {} /\ q.pc \notin {"lock", "plan", "row"} \cup Opening \cup Deleting
    BY DEF Writable, Opening, Deleting
  <2>2. q.pc \in Undoing => q.pc = "undo"
    BY DEF Undoing
  <2>4. \A m \in Held(q) : room[m].state # "none"
    BY <1>4
  <2>5. ASSUME q.pc \in Undoing, NEW x \in Classes, class'[x].room \in Held(q) PROVE x \in lost'
    <3>1. x \in {c, k}
      BY <1>4, <1>5, <2>5
    <3>2. {c, k} \ {None} \subseteq lost'
      BY <2>2, <2>5 DEF c, k
    <3> QED
      BY <3>1, <3>2, LiveScheduleAssumption
  <2>6. ASSUME NEW m \in Leaving(q)
        PROVE /\ m # None /\ room[m].state # "none" /\ class'[q.move].room # None
              /\ \A x \in Classes : class'[x].room # m
    <3>1. m # None /\ room[m].state # "none" /\ m \notin Held(req[r])
          /\ \A x \in Classes : class[x].room = m => x = k
      <4>1. m \in Leaving(req[r]) /\ Stands(req[r]) /\ Leaving(req[r]) \cap Writable(req[r]) = {}
        BY <1>11 DEF ReqInv
      <4> QED
        BY <1>1, <4>1 DEF Stands, k
    <3>2. q.move = k /\ k \in Classes
      BY <1>1, <1>11
    <3> QED
      BY <1>4, <1>5, <1>6, <3>1, <3>2
  <2> QED
    BY <2>1, <2>4, <2>5, <2>6 DEF Stands
<1>13. \A s \in Reqs \ {r} : /\ q.class # None => q.class # req[s].class
                            /\ Held(q) \cap Held(req[s]) = {}
                            /\ Leaving(q) \cap Writable(req[s]) = {}
                            /\ Leaving(req[s]) \cap Writable(q) = {}
  BY <1>11, <1>12 DEF ReqInv, Between
<1> QED
  <2>1. Leaving(q) \cap Writable(q) = {}
    BY <1>12
  <2> QED
    BY <1>0, <1>7, <1>8, <1>10, <1>12, <1>13, <2>1, ReqMoves

\* A request that goes on to its next step without a new room.
LEMMA ReqGoesOn ==
  ASSUME SchedTypeOK, SchedTypeOK', RowInv, ReqInv, ServeInv, RowsKeep,
         NEW r \in Reqs, NEW pc \in Pcs, Go(r, pc),
         \/ req[r].pc = "lock" /\ pc = "plan"
         \/ req[r].pc \in Opening /\ pc = "undo"
         \/ req[r].pc = "commit" /\ pc = "write"
         \/ req[r].pc = "undo" /\ pc = "undospare"
         \/ req[r].pc = "undospare" /\ pc = "undonew"
         \/ req[r].pc \in {"undonew", "endold"} /\ pc = "release"
         \/ req[r].pc \in {"close", "end"} /\ pc \in {"end", "mark"}
  PROVE  RowInv' /\ ReqInv' /\ ServeInv'
<1>0. req \in [Reqs -> Requests]
  BY DEF SchedTypeOK, Requests
<1> DEFINE q == [req[r] EXCEPT !.pc = pc]
<1>1. /\ req' = [req EXCEPT ![r] = q] /\ q \in Requests
      /\ q.pc = pc /\ q.class = req[r].class /\ q.start = req[r].start /\ q.move = req[r].move
      /\ q.reduce = req[r].reduce /\ q.old = req[r].old /\ q.spare = req[r].spare
      /\ q.new = req[r].new /\ q.reduced = req[r].reduced
  BY <1>0, GoesOn
<1> HIDE DEF q
<1>2. Shape(req[r]) /\ Stands(req[r])
  BY DEF ReqInv
<1>3. Held(q) = Held(req[r]) /\ Writable(q) \subseteq Writable(req[r])
      /\ Leaving(q) \subseteq Leaving(req[r])
  BY <1>1 DEF Held, Writable, Leaving, Opening
<1>4. Shape(q)
  BY <1>1, <1>2, <1>3 DEF Shape, Opening, Deleting
<1>5. Stands(q)
  <2>1. q.pc \in {"lock", "plan", "row"} \cup Opening => class[q.class].room = None
    BY <1>1, <1>2 DEF Stands, Opening
  <2>2. \A m \in Held(q) : room[m].state # "none"
    BY <1>2, <1>3 DEF Stands
  <2>3. q.pc \in Deleting => class[q.move].room # None
    BY <1>1, <1>2 DEF Stands, Deleting, Opening
  <2>4. \A m \in Writable(q) : room[m].state # "ended" /\ \A c \in Classes : class[c].room # m
    BY <1>2, <1>3 DEF Stands
  <2>5. q.pc \in Undoing => \A c \in Classes : class[c].room \in Held(q) => c \in lost
    <3>1. CASE req[r].pc \in Opening
      <4>1. Writable(req[r]) = Held(req[r])
        BY <3>1 DEF Writable
      <4> QED
        BY <1>2, <1>3, <4>1 DEF Stands
    <3>2. CASE req[r].pc \notin Opening
      BY <1>1, <1>2, <1>3, <3>2 DEF Stands, Undoing
    <3> QED
      BY <3>1, <3>2
  <2>6. \A m \in Leaving(q) :
       /\ m # None /\ room[m].state # "none" /\ class[q.move].room # None
       /\ \A c \in Classes : class[c].room = m => c = q.move /\ q.pc # "endold"
    <3>1. Leaving(q) # {} => q.pc = "write"
      BY <1>1 DEF Leaving, Opening
    <3> QED
      BY <1>1, <1>2, <1>3, <3>1 DEF Stands
  <2> QED
    BY <2>1, <2>2, <2>3, <2>4, <2>5, <2>6 DEF Stands
<1>6. q.class \in {None, req[r].class}
  BY <1>1
<1> QED
  BY <1>1, <1>3, <1>4, <1>5, <1>6, ReqCarries

\* A request that is done, or dies.
LEMMA ReqEnds ==
  ASSUME SchedTypeOK, SchedTypeOK', RowInv, ReqInv, ServeInv, RowsKeep,
         NEW r \in Reqs, req' = [req EXCEPT ![r] = Idle]
  PROVE  RowInv' /\ ReqInv' /\ ServeInv'
<1>1. Stands(Idle)
  BY IdleRequest DEF Stands, Deleting, Undoing, Opening
<1>2. Idle.class = None
  BY DEF Idle
<1> QED
  BY <1>1, <1>2, IdleRequest, ReqCarries

\* No request moves.
LEMMA ReqStays ==
  ASSUME SchedTypeOK, SchedTypeOK', RowInv, ReqInv, ServeInv, RowsKeep, UNCHANGED req
  PROVE  RowInv' /\ ReqInv' /\ ServeInv'
<1>0. req \in [Reqs -> Requests]
  BY DEF SchedTypeOK, Requests
<1>1. \A s \in Reqs : Stands(req[s])'
  BY <1>0, RowsStay DEF ReqInv
<1>2. ReqInv'
  BY <1>1 DEF ReqInv
<1> QED
  BY <1>2, RowsStay

\* A step that leaves rows and rooms alone, or only changes settings.
LEMMA NothingEnds ==
  ASSUME lost \subseteq lost', UNCHANGED class,
         \A m \in Rooms : /\ room[m].state # "none" => room'[m].state # "none"
                          /\ room'[m].state = "ended" => room[m].state = "ended"
  PROVE  RowsKeep
BY DEF RowsKeep

\* Ending a room that no other row or request may need.
LEMMA EndsRoom ==
  ASSUME SchedTypeOK, NEW m \in Rooms, room' = Ended(m), UNCHANGED <<class, lost>>,
         \A c \in Classes : class[c].room = m => c \in lost,
         \A s \in Reqs : m \notin Writable(req[s]),
         room[m].state # "none"
  PROVE  RowsKeep
<1>1. /\ room'[m].state # "none" /\ \A n \in Rooms : n # m => room'[n] = room[n]
  BY RoomTypes
<1> QED
  BY <1>1 DEF RowsKeep

\* Every step keeps the rows, the requests and the rooms of classes in order.
LEMMA SchedStep ==
  ASSUME SchedTypeOK, SchedTypeOK', RowInv, ReqInv, ServeInv, [SchedNext]_schedVars
  PROVE  RowInv' /\ ReqInv' /\ ServeInv'
<1>0. /\ req \in [Reqs -> Requests] /\ class \in [Classes -> ClassRows] /\ room \in [Rooms -> RoomRows]
      /\ class' \in [Classes -> ClassRows]
  BY DEF SchedTypeOK, Requests, ClassRows, RoomRows
<1>p. {"plan", "release", "undo", "undospare", "undonew", "write", "end", "mark",
       "endold"} \subseteq Pcs
  BY DEF Pcs
<1>s. ASSUME NEW r \in Reqs PROVE Shape(req[r]) /\ Stands(req[r]) /\ req[r] \in Requests
  BY <1>0 DEF ReqInv
<1>1. ASSUME NEW r \in Reqs, NEW c \in Classes, NEW s \in Starts, NEW v \in Servers,
             CreateVersion5(r, c, s, v)
      PROVE  RowInv' /\ ReqInv' /\ ServeInv'
  <2> DEFINE q == [Idle EXCEPT !.pc = "lock", !.class = c, !.start = s, !.asked = v]
  <2>1. /\ q.pc = "lock" /\ q.class = c /\ q.start = s /\ q.spare = None /\ q.new = None
        /\ ~q.reduced /\ q \in Requests
    BY IdleRequest DEF Idle, Requests, Pcs
  <2>2. req' = [req EXCEPT ![r] = q]
    BY <1>1 DEF CreateVersion5
  <2> HIDE DEF q
  <2>3. Held(q) = {} /\ Writable(q) = {} /\ Leaving(q) = {} /\ Shape(q)
    BY <2>1 DEF Held, Writable, Leaving, Opening, Shape, Deleting
  <2>4. RowsKeep
    BY <1>1, NothingEnds DEF CreateVersion5
  <2>5. class'[c].room = None
    BY <1>1 DEF CreateVersion5, RowInv
  <2>6. Stands(q)'
    BY <2>1, <2>3, <2>5 DEF Stands, Deleting, Undoing
  <2>7. \A x \in Reqs \ {r} : Stands(req[x])'
    BY <1>0, <2>2, <2>4, RowsStay DEF ReqInv
  <2>8. \A x \in Reqs \ {r} : q.class # req[x].class
    BY <1>1, <2>1 DEF CreateVersion5
  <2> QED
    <3>1. /\ Leaving(q) \cap Writable(q) = {}
          /\ \A x \in Reqs \ {r} : /\ q.class # None => q.class # req[x].class
                                 /\ Held(q) \cap Held(req[x]) = {}
                                 /\ Leaving(q) \cap Writable(req[x]) = {}
                                 /\ Leaving(req[x]) \cap Writable(q) = {}
      BY <2>3, <2>8
    <3>2. RowInv' /\ ServeInv'
      BY <2>4, RowsStay
    <3> QED
      BY <1>0, <2>1, <2>2, <2>3, <2>6, <2>7, <3>1, <3>2, ReqMoves
<1>2. ASSUME NEW r \in Reqs, AcquireV5SchedulingLock(r) PROVE RowInv' /\ ReqInv' /\ ServeInv'
  <2>1. RowsKeep
    BY <1>2, NothingEnds DEF AcquireV5SchedulingLock
  <2> QED
    BY <1>2, <1>p, <2>1, ReqGoesOn, ReqEnds DEF AcquireV5SchedulingLock, At
<1>3. ASSUME NEW r \in Reqs, Plan(r) PROVE RowInv' /\ ReqInv' /\ ServeInv'
  <2>1. PICK server \in Servers, move \in Classes \cup {None}, reduce \in Classes \cup {None},
             safe \in BOOLEAN :
          /\ PlanOf(r, server, move, reduce, safe)
          /\ Planned(r, server, move, reduce, safe)
    BY <1>3, PlanCases, Zenon
  <2> DEFINE old == IF move # None THEN class[move].room
                    ELSE IF reduce # None THEN class[reduce].room ELSE None
             pc == IF move # None THEN "spare" ELSE "room"
  <2>2. PICK q \in Requests :
        /\ req' = [req EXCEPT ![r] = q]
        /\ q.pc = pc /\ q.class = req[r].class /\ q.start = req[r].start /\ q.move = move
        /\ q.reduce = reduce /\ q.old = old /\ q.spare = req[r].spare
        /\ q.new = req[r].new /\ q.reduced = req[r].reduced
    <3> DEFINE q == [req[r] EXCEPT !.server = server, !.safe = safe,
                                   !.move = move, !.reduce = reduce, !.old = old, !.pc = pc]
    <3>1. req' = [req EXCEPT ![r] = q]
      BY <1>0, <2>1 DEF Planned
    <3>2. old \in Rooms \cup {None} /\ pc \in Pcs
      BY <1>0, <2>1 DEF ClassRows, Pcs
    <3> HIDE DEF old, pc
    <3>3. /\ q \in Requests /\ q.pc = pc /\ q.class = req[r].class /\ q.start = req[r].start
          /\ q.move = move /\ q.reduce = reduce /\ q.old = old /\ q.spare = req[r].spare
          /\ q.new = req[r].new /\ q.reduced = req[r].reduced
      BY <1>s, <3>2 DEF Requests
    <3> HIDE DEF q
    <3> QED
      BY <3>1, <3>3
  <2>3. UNCHANGED <<class, room, lost>> /\ req[r].pc = "plan"
    BY <1>3 DEF Plan, At
  <2>4. RowsKeep
    BY <2>3, NothingEnds
  <2>5. /\ move # None => reduce = None /\ class[move].room # None
        /\ reduce # None => class[reduce].room # None
    BY <2>1, LiveScheduleAssumption DEF PlanOf, Movable, Reducible, Candidates
  <2>6. q.pc \in {"spare", "room"} /\ (q.pc = "spare" <=> move # None)
    BY <2>2
  <2>7. Held(q) = {} /\ Held(req[r]) = {}
    BY <1>s, <2>2, <2>3 DEF Shape, Held
  <2>8. Shape(q)
    BY <1>s, <2>2, <2>3, <2>5, <2>6, <2>7, LiveScheduleAssumption DEF Shape, Held, Opening, Deleting
  <2>9. Leaving(q) = IF move # None THEN {class[move].room} ELSE {}
    BY <2>2, <2>6 DEF Leaving, Opening
  <2>10. \A m \in Leaving(q) : /\ m # None /\ room[m].state # "none" /\ class[q.move].room # None
                               /\ \A c \in Classes : class[c].room = m => c = q.move
    <3>1. CASE move = None
      BY <2>9, <3>1
    <3>2. CASE move # None
      <4>1. move \in Classes /\ class[move].room # None
        BY <2>5, <3>2
      <4> QED
        BY <2>2, <2>9, <3>2, <4>1 DEF RowInv
    <3> QED
      BY <3>1, <3>2
  <2>11. Writable(q) = {}
    BY <2>7 DEF Writable
  <2>12. Stands(q)'
    <3>1. class[q.class].room = None
      BY <1>s, <2>2, <2>3 DEF Stands
    <3> QED
      BY <2>3, <2>6, <2>7, <2>10, <2>11, <3>1 DEF Stands, Deleting, Undoing
  <2>13. \A x \in Reqs \ {r} : Stands(req[x])'
    BY <1>0, <2>2, <2>4, RowsStay DEF ReqInv
  <2>14. \A x \in Reqs \ {r} : /\ q.class # None => q.class # req[x].class
                              /\ Leaving(q) \cap Writable(req[x]) = {}
    <3>1. \A x \in Reqs \ {r} : \A m \in Writable(req[x]) : \A c \in Classes : class[c].room # m
      BY DEF ReqInv, Stands
    <3>2. \A m \in Leaving(q) : \E c \in Classes : class[c].room = m
      BY <2>9
    <3> QED
      BY <2>2, <3>1, <3>2 DEF ReqInv, Between
  <2>15. RowInv' /\ ServeInv'
    BY <2>4, RowsStay
  <2> QED
    <3>1. /\ Leaving(q) \cap Writable(q) = {}
          /\ \A x \in Reqs \ {r} : /\ q.class # None => q.class # req[x].class
                                 /\ Held(q) \cap Held(req[x]) = {}
                                 /\ Leaving(q) \cap Writable(req[x]) = {}
                                 /\ Leaving(req[x]) \cap Writable(q) = {}
      BY <2>7, <2>11, <2>14
    <3>2. req' = [req EXCEPT ![r] = q] /\ req \in [Reqs -> Requests]
      BY <1>0, <2>2
    <3>3. ReqInv'
      BY <2>8, <2>12, <2>13, <3>1, <3>2, ReqMoves
    <3> QED
      BY <2>15, <3>3
<1>4. ASSUME NEW r \in Reqs, CreateReplacementRoom(r) PROVE RowInv' /\ ReqInv' /\ ServeInv'
  <2>1. /\ FreshRoom \in Rooms /\ RoomLeft /\ req[r].pc = "spare"
        /\ room' = Opened("malaysia", FALSE) /\ UNCHANGED <<class, lost>>
    BY <1>4, FreshRoomOpens DEF CreateReplacementRoom, At
  <2> DEFINE q == [req[r] EXCEPT !.spare = FreshRoom, !.pc = "room"]
  <2>2. req' = [req EXCEPT ![r] = q]
    BY <1>0, <1>4 DEF CreateReplacementRoom
  <2> HIDE DEF FreshRoom
  <2>3. /\ q \in Requests /\ q.pc = "room" /\ q.class = req[r].class /\ q.start = req[r].start
        /\ q.move = req[r].move /\ q.reduce = req[r].reduce /\ q.old = req[r].old
        /\ q.spare = FreshRoom /\ q.new = req[r].new /\ q.reduced = req[r].reduced
    BY <1>s, <2>1 DEF Requests, Pcs
  <2> HIDE DEF q
  <2>n. FreshRoom # None
    BY <2>1, LiveScheduleAssumption
  <2>4. Shape(q)
    BY <1>s, <2>1, <2>3, <2>n DEF Shape, Opening, Deleting, Held
  <2>5. Held(q) \subseteq Held(req[r]) \cup {FreshRoom} /\ Held(req[r]) \subseteq Writable(req[r])
        /\ Leaving(q) \subseteq Leaving(req[r])
    BY <2>1, <2>3 DEF Held, Writable, Leaving, Opening
  <2>6. q.class \in Classes /\ class[q.class].room = None
        /\ \A s \in Reqs \ {r} : req[s].class # q.class
    <3>1. q.class \in Classes /\ class[q.class].room = None
      BY <1>s, <2>1, <2>3 DEF Shape, Stands, Opening, Deleting
    <3> QED
      BY <2>3, <3>1, LiveScheduleAssumption DEF ReqInv, Between
  <2>7. "malaysia" \in Servers /\ FALSE \in BOOLEAN /\ q.pc \in Opening
    BY <2>3 DEF Servers, Opening
  <2> QED
    BY <2>1, <2>2, <2>3, <2>4, <2>5, <2>6, <2>7, ReqOpens
<1>5. ASSUME NEW r \in Reqs, CreateMediaRoom(r) PROVE RowInv' /\ ReqInv' /\ ServeInv'
  <2>1. /\ FreshRoom \in Rooms /\ RoomLeft /\ req[r].pc = "room"
        /\ room' = Opened(req[r].server, req[r].safe) /\ UNCHANGED <<class, lost>>
    BY <1>5, FreshRoomOpens DEF CreateMediaRoom, At
  <2> DEFINE pc == IF req[r].reduce # None THEN "reduce" ELSE "commit"
             q == [req[r] EXCEPT !.new = FreshRoom, !.pc = pc]
  <2>2. req' = [req EXCEPT ![r] = q]
    BY <1>0, <1>5 DEF CreateMediaRoom
  <2> HIDE DEF FreshRoom
  <2>3. /\ q \in Requests /\ q.pc = pc /\ q.class = req[r].class /\ q.start = req[r].start
        /\ q.move = req[r].move /\ q.reduce = req[r].reduce /\ q.old = req[r].old
        /\ q.spare = req[r].spare /\ q.new = FreshRoom /\ q.reduced = req[r].reduced
    <3>1. pc \in Pcs
      BY DEF Pcs
    <3> HIDE DEF pc
    <3> QED
      BY <1>s, <2>1, <3>1 DEF Requests
  <2> HIDE DEF q
  <2>n. FreshRoom # None /\ FreshRoom \notin Held(req[r])
    BY <2>1, OpensRoom, <1>s, LiveScheduleAssumption DEF Requests
  <2>4. Shape(q)
    <3>1. ~req[r].reduced
      BY <1>s, <2>1 DEF Shape
    <3> QED
      BY <1>s, <2>1, <2>3, <2>n, <3>1 DEF Shape, Opening, Deleting, Held
  <2>5. Held(q) \subseteq Held(req[r]) \cup {FreshRoom} /\ Held(req[r]) \subseteq Writable(req[r])
        /\ Leaving(q) \subseteq Leaving(req[r])
    BY <2>1, <2>3 DEF Held, Writable, Leaving, Opening
  <2>6. q.class \in Classes /\ class[q.class].room = None
        /\ \A s \in Reqs \ {r} : req[s].class # q.class
    <3>1. q.class \in Classes /\ class[q.class].room = None
      BY <1>s, <2>1, <2>3 DEF Shape, Stands, Opening, Deleting
    <3> QED
      BY <2>3, <3>1, LiveScheduleAssumption DEF ReqInv, Between
  <2>7. req[r].server \in Servers /\ req[r].safe \in BOOLEAN /\ q.pc \in Opening
    BY <1>s, <2>3 DEF Requests, Opening
  <2> QED
    BY <2>1, <2>2, <2>3, <2>4, <2>5, <2>6, <2>7, ReqOpens
<1>6. ASSUME NEW r \in Reqs, NEW c \in Classes, NEW s \in Starts, CreateOlder(r, c, s)
      PROVE  RowInv' /\ ReqInv' /\ ServeInv'
  <2>1. /\ FreshRoom \in Rooms /\ RoomLeft /\ req[r].pc = "idle"
        /\ UNCHANGED <<class, lost>> /\ \A x \in Reqs : req[x].class # c
    BY <1>6, FreshRoomOpens DEF CreateOlder, At
  <2>p. PICK server \in Servers :
          /\ room' = Opened(server, FALSE)
          /\ req' = [req EXCEPT ![r] = [Idle EXCEPT !.pc = "row", !.class = c, !.start = s,
                                                   !.server = server, !.new = FreshRoom]]
    BY <1>6, Zenon DEF CreateOlder
  <2> DEFINE q == [Idle EXCEPT !.pc = "row", !.class = c, !.start = s, !.server = server,
                               !.new = FreshRoom]
  <2>2. req' = [req EXCEPT ![r] = q] /\ room' = Opened(server, FALSE)
    BY <2>p
  <2> HIDE DEF FreshRoom
  <2>3. /\ q.pc = "row" /\ q.class = c /\ q.start = s /\ q.spare = None /\ q.new = FreshRoom
        /\ q.move = None /\ ~q.reduced /\ q \in Requests
    BY <2>1, IdleRequest DEF Idle, Requests, Pcs
  <2> HIDE DEF q
  <2>4. Shape(q) /\ Held(q) \subseteq {FreshRoom} /\ Leaving(q) = {}
    BY <2>1, <2>3, LiveScheduleAssumption DEF Shape, Held, Leaving, Opening, Deleting
  <2>5. Held(req[r]) = {}
    BY <1>s, <2>1 DEF Shape
  <2>6. q.class \in Classes /\ class[q.class].room = None
        /\ \A x \in Reqs \ {r} : req[x].class # q.class
    BY <1>6, <2>1, <2>3 DEF CreateOlder, RowInv
  <2>7. FALSE \in BOOLEAN
    OBVIOUS
  <2> QED
    BY <2>1, <2>2, <2>3, <2>4, <2>5, <2>6, <2>7, ReqOpens
<1>7. ASSUME NEW r \in Reqs, ReduceSettings(r) PROVE RowInv' /\ ReqInv' /\ ServeInv'
  <2>1. /\ req[r].pc = "reduce" /\ UNCHANGED <<class, lost>> /\ req[r].old \in Rooms
        /\ \A m \in Rooms : room'[m].state = room[m].state
    BY <1>0, <1>7, <1>s DEF ReduceSettings, At, Shape, Opening, Requests, RoomRows
  <2>2. RowsKeep
    BY <2>1, NothingEnds
  <2> DEFINE yes == TRUE
             q == [req[r] EXCEPT !.reduced = yes, !.pc = "commit"]
  <2>3. req' = [req EXCEPT ![r] = q]
    BY <1>0, <1>7 DEF ReduceSettings
  <2>y. yes \in BOOLEAN /\ yes
    OBVIOUS
  <2> HIDE DEF yes
  <2>4. /\ q \in Requests /\ q.pc = "commit" /\ q.class = req[r].class /\ q.start = req[r].start
        /\ q.move = req[r].move /\ q.reduce = req[r].reduce /\ q.old = req[r].old
        /\ q.spare = req[r].spare /\ q.new = req[r].new /\ q.reduced
    <3>1. "commit" \in Pcs /\ req[r] \in Requests
      BY <1>s DEF Pcs
    <3> QED
      BY <2>y, <3>1 DEF Requests
  <2> HIDE DEF q
  <2>5. Shape(q)
    BY <1>s, <2>1, <2>4 DEF Shape, Opening, Deleting, Held
  <2>6. Held(q) = Held(req[r]) /\ Writable(q) = Writable(req[r]) /\ Leaving(q) = Leaving(req[r])
    BY <2>1, <2>4 DEF Held, Writable, Leaving, Opening
  <2>7. Stands(q)
    BY <1>s, <2>1, <2>4, <2>6 DEF Stands, Opening, Deleting, Undoing
  <2> QED
    BY <2>2, <2>3, <2>4, <2>5, <2>6, <2>7, ReqCarries
<1>8. ASSUME NEW r \in Reqs, Recheck(r) \/ StepFails(r) PROVE RowInv' /\ ReqInv' /\ ServeInv'
  <2>1. RowsKeep
    BY <1>8, NothingEnds DEF Recheck, StepFails
  <2> QED
    BY <1>8, <1>p, <2>1, ReqGoesOn DEF Recheck, StepFails, At, Opening
<1>u. ASSUME NEW r \in Reqs, ReduceUnheard(r) PROVE RowInv' /\ ReqInv' /\ ServeInv'
  <2>1. /\ req[r].pc = "reduce" /\ UNCHANGED <<class, lost>> /\ req[r].old \in Rooms
        /\ \A m \in Rooms : room'[m].state = room[m].state
    BY <1>0, <1>u, <1>s DEF ReduceUnheard, At, Shape, Opening, Requests, RoomRows
  <2>2. RowsKeep
    BY <2>1, NothingEnds
  <2> QED
    BY <1>u, <1>p, <2>1, <2>2, ReqGoesOn DEF ReduceUnheard, Opening
<1>9. ASSUME NEW r \in Reqs, RoomUnheard(r) PROVE RowInv' /\ ReqInv' /\ ServeInv'
  <2>1. PICK server \in Servers, safe \in BOOLEAN : room' = Opened(server, safe)
    BY <1>9, <1>s, Zenon DEF RoomUnheard, Requests, Servers
  <2>2. RowsKeep
    BY <1>9, <2>1, OpensRoom DEF RoomUnheard
  <2> QED
    BY <1>9, <1>p, <2>2, ReqGoesOn DEF RoomUnheard, Opening
<1>10. ASSUME NEW r \in Reqs, UndoSettings(r) PROVE RowInv' /\ ReqInv' /\ ServeInv'
  <2>1. req[r].reduced => req[r].old \in Rooms
    BY <1>s DEF Shape, Requests
  <2>2. \A m \in Rooms : room'[m].state = room[m].state
    <3>1. CASE req[r].reduced
      <4> DEFINE no == FALSE
      <4>1. room' = [room EXCEPT ![req[r].old].safe = no]
        BY <1>10, <3>1 DEF UndoSettings
      <4> HIDE DEF no
      <4> QED
        BY <1>0, <2>1, <3>1, <4>1 DEF RoomRows
    <3>2. CASE ~req[r].reduced
      BY <1>10, <3>2 DEF UndoSettings
    <3> QED
      BY <3>1, <3>2
  <2>3. RowsKeep
    BY <1>10, <2>2, NothingEnds DEF UndoSettings
  <2> QED
    BY <1>10, <1>p, <2>3, ReqGoesOn DEF UndoSettings, At
<1>11. ASSUME NEW r \in Reqs, NEW pc \in Pcs, NEW m \in Rooms \cup {None},
              req[r].pc \in {"undospare", "undonew"}, m \in {req[r].spare, req[r].new},
              room' = IF m # None THEN Ended(m) ELSE room, UNCHANGED <<class, lost>>
       PROVE  RowsKeep
  <2>1. CASE m = None
    BY <1>11, <2>1, NothingEnds
  <2>2. CASE m # None
    <3>1. m \in Held(req[r]) /\ Writable(req[r]) = {} /\ m \in Rooms
      BY <1>11, <2>2 DEF Held, Writable, Opening
    <3>2. \A c \in Classes : class[c].room = m => c \in lost
      BY <1>11, <1>s, <3>1 DEF Stands, Undoing
    <3>3. ASSUME NEW s \in Reqs PROVE m \notin Writable(req[s])
      <4>1. CASE s = r
        BY <3>1, <4>1
      <4>2. CASE s # r
        BY <3>1, <4>2 DEF ReqInv, Between, Writable
      <4> QED
        BY <4>1, <4>2
    <3>4. room[m].state # "none"
      BY <1>s, <3>1 DEF Stands
    <3> QED
      BY <1>11, <2>2, <3>1, <3>2, <3>3, <3>4, EndsRoom
  <2> QED
    BY <2>1, <2>2
<1>12. ASSUME NEW r \in Reqs, EndReplacementRoom(r) \/ EndNewRoom(r)
       PROVE  RowInv' /\ ReqInv' /\ ServeInv'
  <2>1. req[r].spare \in Rooms \cup {None} /\ req[r].new \in Rooms \cup {None}
    BY <1>s DEF Requests
  <2>2. CASE EndReplacementRoom(r)
    <3>1. RowsKeep
      BY <1>11, <1>p, <2>1, <2>2 DEF EndReplacementRoom, At
    <3> QED
      BY <1>p, <2>2, <3>1, ReqGoesOn DEF EndReplacementRoom, At
  <2>3. CASE EndNewRoom(r)
    <3>1. RowsKeep
      BY <1>11, <1>p, <2>1, <2>3 DEF EndNewRoom, At
    <3> QED
      BY <1>p, <2>3, <3>1, ReqGoesOn DEF EndNewRoom, At
  <2> QED
    BY <1>12, <2>2, <2>3
<1>13. ASSUME NEW r \in Reqs, EndOldRoom(r) PROVE RowInv' /\ ReqInv' /\ ServeInv'
  <2>1. /\ req[r].pc = "endold" /\ req[r].old \in Rooms /\ req[r].old \in Leaving(req[r])
    BY <1>13, <1>s DEF EndOldRoom, At, Shape, Requests, Leaving
  <2>2. /\ room[req[r].old].state # "none" /\ \A c \in Classes : class[c].room # req[r].old
        /\ \A s \in Reqs : req[r].old \notin Writable(req[s])
    BY <2>1 DEF ReqInv, Stands
  <2>3. RowsKeep
    BY <1>13, <2>1, <2>2, EndsRoom DEF EndOldRoom
  <2> QED
    BY <1>13, <1>p, <2>1, <2>3, ReqGoesOn DEF EndOldRoom
<1>14. ASSUME NEW r \in Reqs, UndoFails(r) PROVE RowInv' /\ ReqInv' /\ ServeInv'
  <2>1. RowsKeep
    BY <1>14, NothingEnds DEF UndoFails
  <2> QED
    BY <1>14, <1>p, <2>1, ReqGoesOn DEF UndoFails, NextUndo
<1>15. ASSUME NEW r \in Reqs, ReleaseV5SchedulingLock(r) \/ Crash(r)
       PROVE  RowInv' /\ ReqInv' /\ ServeInv'
  <2>1. RowsKeep
    BY <1>15, NothingEnds DEF ReleaseV5SchedulingLock, Crash
  <2> QED
    BY <1>15, <2>1, ReqEnds DEF ReleaseV5SchedulingLock, Crash
<1>16. ASSUME NEW r \in Reqs, NEW c \in Classes, DeleteRoomRead(r, c)
       PROVE  RowInv' /\ ReqInv' /\ ServeInv'
  <2> DEFINE q == [Idle EXCEPT !.pc = "close", !.old = class[c].room, !.move = c]
  <2>1. class[c].room \in Rooms /\ class[c].room # None
    BY <1>0, <1>16 DEF ClassRows, DeleteRoomRead, RowInv
  <2>2. /\ q.pc = "close" /\ q.class = None /\ q.old = class[c].room /\ q.move = c /\ q.spare = None
        /\ q.new = None /\ ~q.reduced /\ q \in Requests
    BY <2>1, IdleRequest DEF Idle, Requests, Pcs
  <2>3. req' = [req EXCEPT ![r] = q]
    BY <1>16 DEF DeleteRoomRead
  <2> HIDE DEF q
  <2>4. Shape(q) /\ Held(q) = {} /\ Writable(q) = {} /\ Leaving(q) = {}
    BY <2>1, <2>2 DEF Shape, Held, Writable, Leaving, Opening, Deleting
  <2>5. Stands(q)
    BY <2>1, <2>2, <2>4 DEF Stands, Opening, Undoing
  <2>6. RowsKeep
    BY <1>16, NothingEnds DEF DeleteRoomRead
  <2> QED
    BY <2>2, <2>3, <2>4, <2>5, <2>6, ReqCarries
<1>17. ASSUME NEW r \in Reqs, DeleteRoomClose(r) PROVE RowInv' /\ ReqInv' /\ ServeInv'
  <2>1. req[r].old \in Rooms
    BY <1>17, <1>s DEF DeleteRoomClose, At, Shape, Deleting
  <2>2. RowsKeep
    BY <1>0, <1>17, <2>1, NothingEnds DEF DeleteRoomClose, RoomRows
  <2> QED
    BY <1>17, <1>p, <2>2, ReqGoesOn DEF DeleteRoomClose, At
<1>18. ASSUME NEW r \in Reqs, DeleteRoomMark(r) \/ DeleteRoomUnknown(r)
       PROVE  RowInv' /\ ReqInv' /\ ServeInv'
  <2>1. req[r].move \in Classes /\ class[req[r].move].room # None
    BY <1>18, <1>s DEF DeleteRoomMark, DeleteRoomUnknown, At, Shape, Stands, Deleting
  <2>2. RowsKeep
    BY <1>0, <1>18, <2>1 DEF DeleteRoomMark, DeleteRoomUnknown, RowsKeep, RowInv, ClassRows
  <2>3. CASE DeleteRoomMark(r)
    BY <2>2, <2>3, ReqEnds DEF DeleteRoomMark
  <2>4. CASE DeleteRoomUnknown(r)
    BY <1>p, <2>2, <2>4, ReqGoesOn DEF DeleteRoomUnknown, At
  <2> QED
    BY <1>18, <2>3, <2>4
<1>19. ASSUME NEW r \in Reqs, Commit(r) \/ CommitUnheard(r) PROVE RowInv' /\ ReqInv' /\ ServeInv'
  <2>1. req[r].pc = "write" /\ Written(r) /\ UNCHANGED room /\ lost \subseteq lost'
    BY <1>19 DEF Commit, CommitUnheard, At
  <2>2. PICK pc \in Pcs : /\ Go(r, pc) /\ pc \in {"endold", "release", "undo"}
                          /\ pc = "endold" => req[r].move # None
                          /\ pc = "undo" => {req[r].class, req[r].move} \ {None} \subseteq lost'
    <3>1. CASE Commit(r)
      BY <1>p, <3>1 DEF Commit
    <3>2. CASE CommitUnheard(r)
      BY <1>p, <3>2 DEF CommitUnheard
    <3> QED
      BY <1>19, <3>1, <3>2
  <2>3. PICK q \in Requests : /\ req' = [req EXCEPT ![r] = q]
            /\ q.pc = pc /\ q.class = req[r].class /\ q.start = req[r].start /\ q.move = req[r].move
            /\ q.reduce = req[r].reduce /\ q.old = req[r].old /\ q.spare = req[r].spare
            /\ q.new = req[r].new /\ q.reduced = req[r].reduced
    <3> DEFINE q == [req[r] EXCEPT !.pc = pc]
    <3>0. Go(r, pc) /\ req \in [Reqs -> Requests]
      BY <1>0, <2>2
    <3>1. /\ req' = [req EXCEPT ![r] = q] /\ q \in Requests
          /\ q.pc = pc /\ q.class = req[r].class /\ q.start = req[r].start /\ q.move = req[r].move
          /\ q.reduce = req[r].reduce /\ q.old = req[r].old /\ q.spare = req[r].spare
          /\ q.new = req[r].new /\ q.reduced = req[r].reduced
      BY <3>0, GoesOn
    <3> HIDE DEF q
    <3> QED
      BY <3>1
  <2>4. Held(q) = Held(req[r])
    BY <2>3 DEF Held
  <2>5. Shape(q)
    <3>1. /\ req[r].class \in Classes /\ req[r].start \in Starts
          /\ req[r].move # None => req[r].old # None
          /\ req[r].reduced => req[r].old # None
      BY <1>s, <2>1 DEF Shape, Opening, Deleting
    <3>0. pc \in {"endold", "release", "undo"} /\ (pc = "endold" => req[r].move # None)
      BY <2>2
    <3>2. q.pc \in {"endold", "release", "undo"} /\ (q.pc = "endold" => q.move # None)
      BY <2>3, <3>0
    <3>3. q.class \in Classes /\ q.start \in Starts /\ (q.move # None => q.old # None)
          /\ (q.reduced => q.old # None)
      BY <2>3, <3>1
    <3> QED
      BY <3>2, <3>3 DEF Shape, Opening, Deleting
  <2> QED
    <3>1. /\ req' = [req EXCEPT ![r] = q] /\ q.pc \in {"endold", "release", "undo", "idle"}
          /\ q.pc = "endold" => req[r].move # None /\ q.old = req[r].old
          /\ q.pc = "undo" => {req[r].class, req[r].move} \ {None} \subseteq lost'
          /\ q.class = req[r].class /\ q.move = req[r].move
      <4>1. /\ pc \in {"endold", "release", "undo"} /\ (pc = "endold" => req[r].move # None)
            /\ pc = "undo" => {req[r].class, req[r].move} \ {None} \subseteq lost'
        BY <2>2
      <4> QED
        BY <2>3, <4>1
    <3>2. Held(q) \subseteq Held(req[r]) /\ req[r].pc \in {"write", "row"} /\ UNCHANGED room
          /\ Written(r) /\ lost \subseteq lost'
      BY <2>1, <2>4
    <3> QED
      BY <2>5, <3>1, <3>2, ReqWrites
<1>20. ASSUME NEW r \in Reqs, InsertRow(r) PROVE RowInv' /\ ReqInv' /\ ServeInv'
  <2>1. req[r].pc = "row" /\ UNCHANGED <<room, lost>> /\ req[r].move = None
    BY <1>20, <1>s DEF InsertRow, At, Shape
  <2>2. Written(r)
    BY <1>20, <2>1 DEF InsertRow, Written, Moved
  <2>3. Idle.class = None /\ Idle.move = None
    BY DEF Idle
  <2>4. req' = [req EXCEPT ![r] = Idle]
    BY <1>20 DEF InsertRow
  <2> QED
    BY <2>1, <2>2, <2>3, <2>4, IdleRequest, ReqWrites
<1>21. ASSUME NEW m \in Rooms, Hook(m) PROVE RowsKeep /\ UNCHANGED req
  <2>1. RowOf(m) \subseteq Classes /\ \A c \in RowOf(m) : class[c].status # "none"
    BY DEF RowOf
  <2>2. CASE RoomCreatedHook(m)
    BY <1>0, <2>1, <2>2 DEF RoomCreatedHook, RowsKeep, ClassRows
  <2>3. CASE RoomLiveHook(m)
    <3>1. PICK c \in RowOf(m), now \in Starts :
            class' = [class EXCEPT ![c].status = "live", ![c].start = now]
      BY <2>3 DEF RoomLiveHook
    <3>2. UNCHANGED <<room, lost, req>>
      BY <2>3 DEF RoomLiveHook
    <3> QED
      BY <1>0, <2>1, <3>1, <3>2 DEF RowsKeep, ClassRows
  <2>4. CASE RoomClosedHook(m)
    <3>1. UNCHANGED <<lost, req>>
      BY <2>4 DEF RoomClosedHook
    <3>2. \A c \in Classes : /\ class'[c].room = class[c].room
                             /\ class'[c].status = "none" <=> class[c].status = "none"
      BY <1>0, <2>1, <2>4 DEF RoomClosedHook, ClassRows
    <3>3. \A x \in Rooms : /\ room[x].state # "none" => room'[x].state # "none"
                           /\ room'[x].state = "ended" => room[x].state = "ended"
      BY <1>0, <2>4 DEF RoomClosedHook, RoomRows
    <3> QED
      BY <3>1, <3>2, <3>3 DEF RowsKeep
  <2> QED
    BY <1>21, <2>2, <2>3, <2>4 DEF Hook
<1>22. ASSUME NEW c \in Classes, DeleteLiveClass(c) \/ \E s \in Starts : UpdateLiveClass(c, s)
       PROVE  RowsKeep /\ UNCHANGED req
  <2>1. CASE DeleteLiveClass(c)
    BY <1>0, <2>1 DEF DeleteLiveClass, RowsKeep, ClassRows
  <2>2. ASSUME NEW s \in Starts, UpdateLiveClass(c, s) PROVE RowsKeep /\ UNCHANGED req
    BY <1>0, <2>2 DEF UpdateLiveClass, RowsKeep, ClassRows
  <2> QED
    BY <1>22, <2>1, <2>2
<1>23. LockExpires \/ UNCHANGED schedVars => RowsKeep /\ UNCHANGED req
  BY NothingEnds DEF LockExpires, schedVars
<1> QED
  BY <1>1, <1>2, <1>3, <1>4, <1>5, <1>6, <1>7, <1>8, <1>9, <1>10, <1>12, <1>13, <1>14, <1>15, <1>16,
     <1>17, <1>18, <1>u, <1>19, <1>20, <1>21, <1>22, <1>23, ReqStays
  DEF SchedNext, Version5, Failure, Elsewhere

-----------------------------------------------------------------------------
(* Rooms that nobody knows of.                                               *)

\* What request q still has to end or record: the rooms it opened until they are in
\* rows, and the one that a moved class left.
Owed(q) ==
  (CASE q.pc \in Opening \cup {"row", "undo", "undospare"} -> {q.spare, q.new}
     [] q.pc = "undonew" -> {q.new}
     [] q.pc = "endold" -> {q.old}
     [] OTHER -> {}) \ {None}

\* What the property takes for in hand is what the request owes.
LEMMA UnendedIsOwed ==
  ASSUME NEW r \in Reqs
  PROVE  Unended(r) = Owed(req[r]) /\ InHand(r, req[r].pc) \subseteq Owed(req[r])
<1>1. CASE req[r].pc = "undo"
  BY <1>1 DEF Unended, InHand, At, Owed, Opening
<1>2. CASE req[r].pc = "undospare"
  BY <1>2 DEF Unended, InHand, At, Owed, Opening
<1>3. CASE req[r].pc = "undonew"
  BY <1>3 DEF Unended, InHand, At, Owed, Opening
<1>4. CASE req[r].pc = "endold"
  BY <1>4 DEF Unended, InHand, At, Owed, Opening
<1>5. CASE req[r].pc \in Opening \cup {"row"}
  BY <1>5 DEF Unended, InHand, At, Owed, Opening
<1>6. CASE req[r].pc \notin Opening \cup {"row", "undo", "undospare", "undonew", "endold"}
  BY <1>6 DEF Unended, InHand, At, Owed, Opening
<1> QED
  BY <1>1, <1>2, <1>3, <1>4, <1>5, <1>6

\* Who knows of room m.
Known(m) == \/ \E c \in Classes : class[c].room = m
            \/ m \in leaked
            \/ \E r \in Reqs : m \in Owed(req[r])

OrphanInv == \A m \in Rooms : room[m].state = "open" => Known(m)

\* The property on open rooms, in the form in which it is proved.
LEMMA OrphanIs ==
  ASSUME SchedTypeOK, RowInv
  PROVE  NoOrphanRoom <=> OrphanInv
<1>1. \A m \in Rooms : RowOf(m) # {} <=> \E c \in Classes : class[c].room = m
  BY LiveScheduleAssumption DEF RowOf, RowInv
<1> QED
  BY <1>1, UnendedIsOwed DEF NoOrphanRoom, OrphanInv, Known

\* A step of request r accounts for every room that was open or opens.
Accounted(r, q) ==
  /\ leaked \subseteq leaked'
  /\ \A m \in Rooms :
       room'[m].state = "open" =>
         \/ m \in leaked' \cup Owed(q)
         \/ \E c \in Classes : class'[c].room = m
         \/ /\ room[m].state = "open"
            /\ m \notin Owed(req[r])
            /\ \A c \in Classes : class[c].room = m => class'[c].room = m

\* Such a step keeps every open room known.
LEMMA KnownStays ==
  ASSUME SchedTypeOK, OrphanInv, NEW r \in Reqs,
         NEW q, req' = [req EXCEPT ![r] = q], Accounted(r, q)
  PROVE  OrphanInv'
<1>0. req \in [Reqs -> Requests]
  BY DEF SchedTypeOK, Requests
<1>1. req'[r] = q /\ \A s \in Reqs \ {r} : req'[s] = req[s]
  BY <1>0
<1>2. ASSUME NEW m \in Rooms, room'[m].state = "open"
      PROVE  \/ \E c \in Classes : class'[c].room = m
             \/ m \in leaked'
             \/ \E s \in Reqs : m \in Owed(req'[s])
  BY <1>1, <1>2 DEF OrphanInv, Known, Accounted
<1>3. ASSUME NEW m \in Rooms, room'[m].state = "open" PROVE Known(m)'
  BY <1>2, <1>3 DEF Known
<1> QED
  BY <1>3 DEF OrphanInv

\* Every step keeps every open room known: what a failure drops is in leaked.
LEMMA OrphanStep ==
  ASSUME SchedTypeOK, SchedTypeOK', RowInv, ReqInv, OrphanInv, [SchedNext]_schedVars
  PROVE  OrphanInv'
<1>0. /\ req \in [Reqs -> Requests] /\ class \in [Classes -> ClassRows] /\ room \in [Rooms -> RoomRows]
      /\ class' \in [Classes -> ClassRows]
  BY DEF SchedTypeOK, Requests, ClassRows, RoomRows
<1>s. ASSUME NEW r \in Reqs PROVE Shape(req[r]) /\ Stands(req[r]) /\ req[r] \in Requests
  BY <1>0 DEF ReqInv
<1>i. Owed(Idle) = {}
  BY DEF Owed, Idle, Opening
<1>p. {"plan", "release", "undo", "undospare", "undonew", "write", "end", "mark",
       "endold"} \subseteq Pcs
  BY DEF Pcs
<1>o. \A r \in Reqs : RoomLeft =>
        \A server \in Servers, safe \in BOOLEAN :
          /\ FreshRoom \in Rooms
          /\ \A m \in Rooms \ {FreshRoom} : Opened(server, safe)[m] = room[m]
  BY RoomTypes, FreshRoomOpens
<1> HIDE DEF FreshRoom
\* A request that goes on, and what it owed is owed, leaked or no longer open.
<1>g. ASSUME NEW r \in Reqs, NEW pc \in Pcs, Go(r, pc), leaked \subseteq leaked', UNCHANGED class,
             \A m \in Rooms : room'[m].state = "open" => room[m].state = "open" \/ m \in leaked',
             \A m \in Rooms : /\ m \in Owed(req[r]) /\ room'[m].state = "open"
                              => m \in leaked' \cup Owed([req[r] EXCEPT !.pc = pc])
      PROVE  OrphanInv'
  <2>1. req' = [req EXCEPT ![r] = [req[r] EXCEPT !.pc = pc]]
    BY <1>0, <1>g DEF Go
  <2>2. Accounted(r, [req[r] EXCEPT !.pc = pc])
    BY <1>g DEF Accounted
  <2> QED
    BY <2>1, <2>2, KnownStays
\* The same when the rooms owed are as they were.
<1>h. ASSUME NEW r \in Reqs, NEW pc \in Pcs, Go(r, pc), leaked \subseteq leaked', UNCHANGED class,
             \A m \in Rooms : room'[m].state = "open" => room[m].state = "open" \/ m \in leaked',
             \/ req[r].pc \in {"lock", "close", "end"}
             \/ /\ req[r].pc \in Opening \cup {"row", "undo"}
                /\ pc \in Opening \cup {"undo", "undospare"}
      PROVE  OrphanInv'
  <2>1. Owed(req[r]) \subseteq Owed([req[r] EXCEPT !.pc = pc])
    <3> DEFINE q == [req[r] EXCEPT !.pc = pc]
    <3>1. q.pc = pc /\ q.spare = req[r].spare /\ q.new = req[r].new
      BY <1>s DEF Requests
    <3> HIDE DEF q
    <3> QED
      BY <1>h, <3>1 DEF Owed, Opening
  <2> QED
    BY <1>g, <1>h, <2>1
<1>1. ASSUME NEW r \in Reqs, NEW c \in Classes, NEW s \in Starts, NEW v \in Servers,
             CreateVersion5(r, c, s, v)
      PROVE  OrphanInv'
  <2>1. Owed(req[r]) = {}
    BY <1>1 DEF CreateVersion5, At, Owed, Opening
  <2> QED
    BY <1>1, <2>1, KnownStays DEF Accounted, CreateVersion5
<1>2. ASSUME NEW r \in Reqs, AcquireV5SchedulingLock(r) PROVE OrphanInv'
  <2>1. Owed(req[r]) = {} /\ req[r].pc = "lock"
    BY <1>2 DEF AcquireV5SchedulingLock, At, Owed, Opening
  <2>2. CASE Go(r, "plan")
    BY <1>2, <1>h, <1>p, <2>1, <2>2 DEF AcquireV5SchedulingLock
  <2>3. CASE req' = [req EXCEPT ![r] = Idle]
    BY <1>2, <2>1, <2>3, KnownStays DEF Accounted, AcquireV5SchedulingLock
  <2> QED
    BY <1>2, <2>2, <2>3 DEF AcquireV5SchedulingLock
<1>3. ASSUME NEW r \in Reqs, Plan(r) PROVE OrphanInv'
  <2>1. Owed(req[r]) = {}
    BY <1>3 DEF Plan, At, Owed, Opening
  <2> QED
    BY <1>3, <2>1, KnownStays DEF Accounted, Plan
<1>4. ASSUME NEW r \in Reqs, CreateReplacementRoom(r) PROVE OrphanInv'
  <2> DEFINE q == [req[r] EXCEPT !.spare = FreshRoom, !.pc = "room"]
  <2>1. req' = [req EXCEPT ![r] = q]
    BY <1>0, <1>4 DEF CreateReplacementRoom
  <2>2. q.pc = "room" /\ q.spare = FreshRoom
    BY <1>s DEF Requests
  <2>3. FreshRoom # None /\ \A m \in Rooms \ {FreshRoom} : room'[m] = room[m]
    BY <1>4, <1>o, LiveScheduleAssumption DEF CreateReplacementRoom, Servers
  <2>4. Owed(req[r]) = {}
    BY <1>4, <1>s DEF CreateReplacementRoom, At, Owed, Opening, Shape, Held
  <2> HIDE DEF q
  <2>5. FreshRoom \in Owed(q)
    BY <2>2, <2>3 DEF Owed, Opening
  <2> QED
    <3>1. Accounted(r, q)
      BY <1>4, <2>3, <2>4, <2>5 DEF CreateReplacementRoom, Accounted
    <3> QED
      BY <2>1, <3>1, KnownStays
<1>5. ASSUME NEW r \in Reqs, CreateMediaRoom(r) PROVE OrphanInv'
  <2> DEFINE pc == IF req[r].reduce # None THEN "reduce" ELSE "commit"
             q == [req[r] EXCEPT !.new = FreshRoom, !.pc = pc]
  <2>1. req' = [req EXCEPT ![r] = q]
    BY <1>0, <1>5 DEF CreateMediaRoom
  <2>2. q.pc = pc /\ q.spare = req[r].spare /\ q.new = FreshRoom
    BY <1>s DEF Requests
  <2>3. FreshRoom # None /\ \A m \in Rooms \ {FreshRoom} : room'[m] = room[m]
    BY <1>5, <1>o, <1>s, LiveScheduleAssumption DEF CreateMediaRoom, Requests
  <2>4. Owed(req[r]) \subseteq {req[r].spare} \ {None}
    BY <1>5, <1>s DEF CreateMediaRoom, At, Owed, Opening, Shape
  <2> HIDE DEF q
  <2>5. FreshRoom \in Owed(q) /\ Owed(req[r]) \subseteq Owed(q)
    BY <2>2, <2>3, <2>4 DEF Owed, Opening
  <2> QED
    <3>1. Accounted(r, q)
      BY <1>5, <2>3, <2>5 DEF CreateMediaRoom, Accounted
    <3> QED
      BY <2>1, <3>1, KnownStays
<1>6. ASSUME NEW r \in Reqs, ReduceSettings(r) PROVE OrphanInv'
  <2> DEFINE yes == TRUE
             q == [req[r] EXCEPT !.reduced = yes, !.pc = "commit"]
  <2>1. req' = [req EXCEPT ![r] = q]
    BY <1>0, <1>6 DEF ReduceSettings
  <2>2. \A m \in Rooms : room'[m].state = room[m].state
    <3>1. room' = [room EXCEPT ![req[r].old].safe = yes]
      BY <1>6 DEF ReduceSettings
    <3>2. req[r].old \in Rooms
      BY <1>6, <1>s DEF ReduceSettings, At, Shape, Opening, Requests
    <3> HIDE DEF yes
    <3> QED
      BY <1>0, <3>1, <3>2 DEF RoomRows
  <2> HIDE DEF yes
  <2>3. q.pc = "commit" /\ q.spare = req[r].spare /\ q.new = req[r].new
    BY <1>s DEF Requests
  <2> HIDE DEF q
  <2>4. Owed(req[r]) = Owed(q)
    BY <1>6, <2>3 DEF ReduceSettings, At, Owed, Opening
  <2> QED
    <3>1. Accounted(r, q)
      BY <1>6, <2>2, <2>4 DEF ReduceSettings, Accounted
    <3> QED
      BY <2>1, <3>1, KnownStays
<1>7. ASSUME NEW r \in Reqs, Recheck(r) \/ StepFails(r) PROVE OrphanInv'
  BY <1>7, <1>h, <1>p DEF Recheck, StepFails, At, Opening
<1>l. ASSUME NEW r \in Reqs, ReduceUnheard(r) PROVE OrphanInv'
  <2>1. req[r].pc = "reduce" /\ req[r].old \in Rooms
    BY <1>l, <1>s DEF ReduceUnheard, At, Shape, Opening, Requests
  <2>2. \A m \in Rooms : room'[m].state = room[m].state
    BY <1>0, <1>l, <2>1 DEF ReduceUnheard, RoomRows
  <2> QED
    BY <1>l, <1>h, <1>p, <2>1, <2>2 DEF ReduceUnheard, Opening
<1>8. ASSUME NEW r \in Reqs, RoomUnheard(r) PROVE OrphanInv'
  <2>1. PICK server \in Servers, safe \in BOOLEAN : room' = Opened(server, safe)
    BY <1>8, <1>s, Zenon DEF RoomUnheard, Requests, Servers
  <2>2. \A m \in Rooms : room'[m].state = "open" => room[m].state = "open" \/ m \in leaked'
    <3>1. RoomLeft /\ leaked' = leaked \cup {FreshRoom}
      BY <1>8 DEF RoomUnheard
    <3>2. \A m \in Rooms \ {FreshRoom} : room'[m] = room[m]
      BY <1>o, <2>1, <3>1
    <3> QED
      BY <3>1, <3>2
  <2> QED
    <3>1. /\ Go(r, "undo") /\ leaked \subseteq leaked' /\ UNCHANGED class
          /\ req[r].pc \in Opening /\ "undo" \in Opening \cup {"undo", "undospare"}
      BY <1>8 DEF RoomUnheard, Opening
    <3> QED
      BY <1>h, <1>p, <2>2, <3>1
<1>9. ASSUME NEW r \in Reqs, UndoSettings(r) PROVE OrphanInv'
  <2>1. req[r].reduced => req[r].old \in Rooms
    BY <1>s DEF Shape, Requests
  <2>2. \A m \in Rooms : room'[m].state = room[m].state
    <3>1. CASE req[r].reduced
      <4> DEFINE no == FALSE
      <4>1. room' = [room EXCEPT ![req[r].old].safe = no]
        BY <1>9, <3>1 DEF UndoSettings
      <4> HIDE DEF no
      <4> QED
        BY <1>0, <2>1, <3>1, <4>1 DEF RoomRows
    <3>2. CASE ~req[r].reduced
      BY <1>9, <3>2 DEF UndoSettings
    <3> QED
      BY <3>1, <3>2
  <2> QED
    BY <1>9, <1>h, <1>p, <2>2 DEF UndoSettings, At
<1>e. ASSUME NEW m \in Rooms, room' = Ended(m)
      PROVE  room'[m].state # "open" /\ \A n \in Rooms : room'[n].state = "open" => room[n].state = "open"
  <2>1. Ended(m)[m].state \in {"closed", "ended"} /\ \A n \in Rooms : n # m => Ended(m)[n] = room[n]
    BY RoomTypes
  <2> QED
    BY <1>e, <2>1
\* What is still owed after the step that gives up the replacement, or the new room.
<1>u. ASSUME NEW r \in Reqs, NEW pc \in Pcs
      PROVE  /\ req[r].pc = "undospare" /\ pc = "undonew" =>
                  Owed(req[r]) \subseteq {req[r].spare} \cup Owed([req[r] EXCEPT !.pc = pc])
             /\ req[r].pc = "undonew" => Owed(req[r]) \subseteq {req[r].new}
             /\ req[r].pc = "endold" => Owed(req[r]) \subseteq {req[r].old}
  <2> DEFINE q == [req[r] EXCEPT !.pc = pc]
  <2>1. q.pc = pc /\ q.spare = req[r].spare /\ q.new = req[r].new
    BY <1>s DEF Requests
  <2> HIDE DEF q
  <2>2. /\ req[r].pc = "undospare" /\ pc = "undonew" => Owed(req[r]) \subseteq {req[r].spare} \cup Owed(q)
        /\ req[r].pc = "undonew" => Owed(req[r]) \subseteq {req[r].new}
        /\ req[r].pc = "endold" => Owed(req[r]) \subseteq {req[r].old}
    BY <2>1 DEF Owed, Opening
  <2> QED
    BY <2>2 DEF q
<1>10. ASSUME NEW r \in Reqs, EndReplacementRoom(r) PROVE OrphanInv'
  <2>1. /\ req[r].pc = "undospare" /\ Go(r, "undonew") /\ UNCHANGED <<leaked, class>>
        /\ room' = IF req[r].spare # None THEN Ended(req[r].spare) ELSE room
    BY <1>10 DEF EndReplacementRoom, At
  <2>2. Owed(req[r]) \subseteq {req[r].spare} \cup Owed([req[r] EXCEPT !.pc = "undonew"])
    BY <1>p, <1>u, <2>1
  <2>3. /\ \A m \in Rooms : room'[m].state = "open" => room[m].state = "open"
        /\ req[r].spare \in Rooms => room'[req[r].spare].state # "open"
    BY <1>e, <1>s, <2>1, LiveScheduleAssumption DEF Requests
  <2> QED
    BY <1>g, <1>p, <2>1, <2>2, <2>3
<1>11. ASSUME NEW r \in Reqs, EndNewRoom(r) PROVE OrphanInv'
  <2>1. /\ req[r].pc = "undonew" /\ Go(r, "release") /\ UNCHANGED <<leaked, class>>
        /\ room' = IF req[r].new # None THEN Ended(req[r].new) ELSE room
    BY <1>11 DEF EndNewRoom, At
  <2>2. Owed(req[r]) \subseteq {req[r].new}
    BY <1>p, <1>u, <2>1
  <2>3. /\ \A m \in Rooms : room'[m].state = "open" => room[m].state = "open"
        /\ req[r].new \in Rooms => room'[req[r].new].state # "open"
    BY <1>e, <1>s, <2>1, LiveScheduleAssumption DEF Requests
  <2>4. \A m \in Rooms : ~(m \in Owed(req[r]) /\ room'[m].state = "open")
    BY <2>2, <2>3
  <2> QED
    BY <1>g, <1>p, <2>1, <2>3, <2>4
<1>12. ASSUME NEW r \in Reqs, EndOldRoom(r) PROVE OrphanInv'
  <2>1. /\ req[r].pc = "endold" /\ Go(r, "release") /\ UNCHANGED <<leaked, class>>
        /\ room' = Ended(req[r].old)
    BY <1>12 DEF EndOldRoom, At
  <2>2. Owed(req[r]) \subseteq {req[r].old} /\ req[r].old \in Rooms
    BY <1>p, <1>s, <1>u, <2>1 DEF Shape, Requests
  <2>3. /\ \A m \in Rooms : room'[m].state = "open" => room[m].state = "open"
        /\ room'[req[r].old].state # "open"
    BY <1>e, <2>1, <2>2
  <2>4. \A m \in Rooms : ~(m \in Owed(req[r]) /\ room'[m].state = "open")
    BY <2>2, <2>3
  <2> QED
    BY <1>g, <1>p, <2>1, <2>3, <2>4
<1>13. ASSUME NEW r \in Reqs, UndoFails(r) PROVE OrphanInv'
  <2>1. /\ Go(r, NextUndo[req[r].pc]) /\ leaked' = leaked \cup InHand(r, req[r].pc)
        /\ UNCHANGED <<room, class>> /\ req[r].pc \in {"undo", "undospare", "undonew", "endold"}
    BY <1>13 DEF UndoFails, NextUndo
  <2>2. CASE req[r].pc = "undo"
    <3>1. NextUndo[req[r].pc] = "undospare"
      BY <2>2 DEF NextUndo
    <3> QED
      BY <1>h, <1>p, <2>1, <2>2, <3>1
  <2>3. CASE req[r].pc = "undospare"
    <3>1. NextUndo[req[r].pc] = "undonew" /\ {req[r].spare} \ {None} \subseteq leaked'
      BY <2>1, <2>3 DEF NextUndo, InHand
    <3>2. Owed(req[r]) \subseteq {req[r].spare} \cup Owed([req[r] EXCEPT !.pc = "undonew"])
      BY <1>p, <1>u, <2>3
    <3>3. None \notin Rooms
      BY LiveScheduleAssumption
    <3> QED
      BY <1>g, <1>p, <2>1, <3>1, <3>2, <3>3
  <2>4. CASE req[r].pc \in {"undonew", "endold"}
    <3>1. NextUndo[req[r].pc] = "release" /\ Owed(req[r]) \subseteq leaked'
      BY <2>1, <2>4 DEF NextUndo, InHand, Owed, Opening
    <3> QED
      BY <1>g, <1>p, <2>1, <3>1
  <2> QED
    BY <2>1, <2>2, <2>3, <2>4
<1>14. ASSUME NEW r \in Reqs, ReleaseV5SchedulingLock(r) PROVE OrphanInv'
  <2>1. Owed(req[r]) = {}
    BY <1>14 DEF ReleaseV5SchedulingLock, At, Owed, Opening
  <2> QED
    BY <1>14, <2>1, KnownStays DEF Accounted, ReleaseV5SchedulingLock
<1>15. ASSUME NEW r \in Reqs, Crash(r) PROVE OrphanInv'
  <2>1. leaked' = leaked \cup Owed(req[r])
    BY <1>15, UnendedIsOwed DEF Crash
  <2> QED
    BY <1>15, <2>1, KnownStays DEF Accounted, Crash
\* Rooms of a request that writes, and of rows, are in rows after the write.
<1>w. ASSUME NEW r \in Reqs, req[r].pc \in {"write", "row"}, Written(r)
      PROVE  \A m \in Rooms :
               /\ m \in Owed(req[r]) => \E c \in Classes : class'[c].room = m
               /\ (\E c \in Classes : class[c].room = m) =>
                    (\E c \in Classes : class'[c].room = m) \/ m \in RoomWrittenOver(r)
  <2> DEFINE c == req[r].class
             k == req[r].move
  <2>1. /\ c \in Classes /\ class[c].room = None /\ k \in Classes \cup {None} /\ k # c
        /\ class'[c] = NewRow(r)
        /\ k # None => class'[k].room = req[r].spare
        /\ k = None => req[r].spare = None
        /\ \A x \in Classes \ {c, k} : class'[x] = class[x]
    BY <1>w, WrittenRows
  <2>2. class'[c].room = req[r].new
    BY <2>1 DEF NewRow
  <2>3. Owed(req[r]) \subseteq {req[r].new, req[r].spare} \ {None}
    BY <1>w DEF Owed, Opening
  <2>4. k # None => RoomWrittenOver(r) = {class[k].room}
    BY DEF RoomWrittenOver
  <2> HIDE DEF c, k
  <2> QED
    BY <2>1, <2>2, <2>3, <2>4, LiveScheduleAssumption
<1>16. ASSUME NEW r \in Reqs, Commit(r) PROVE OrphanInv'
  <2>1. /\ req[r].pc = "write" /\ Written(r) /\ UNCHANGED room
        /\ leaked' = leaked \cup (RoomWrittenOver(r) \ {req[r].old})
        /\ Go(r, IF req[r].move # None THEN "endold" ELSE "release")
    BY <1>16 DEF Commit, At
  <2> DEFINE pc == IF req[r].move # None THEN "endold" ELSE "release"
             q == [req[r] EXCEPT !.pc = pc]
  <2>2. req' = [req EXCEPT ![r] = q] /\ q.pc = pc /\ q.old = req[r].old
    BY <1>0, <1>s, <2>1 DEF Go, Requests
  <2> HIDE DEF q
  <2>3. \A m \in RoomWrittenOver(r) : m \in leaked' \cup Owed(q) \/ m = None
    BY <2>1, <2>2 DEF RoomWrittenOver, Owed, Opening
  <2>4. Accounted(r, q)
    BY <1>w, <2>1, <2>3, LiveScheduleAssumption DEF Accounted
  <2> QED
    BY <2>2, <2>4, KnownStays
<1>17. ASSUME NEW r \in Reqs, CommitUnheard(r) PROVE OrphanInv'
  <2>1. /\ req[r].pc = "write" /\ Written(r) /\ UNCHANGED room
        /\ leaked' = leaked \cup RoomWrittenOver(r) /\ Go(r, "undo")
    BY <1>17 DEF CommitUnheard, At
  <2> DEFINE q == [req[r] EXCEPT !.pc = "undo"]
  <2>2. req' = [req EXCEPT ![r] = q]
    BY <1>0, <2>1 DEF Go
  <2> HIDE DEF q
  <2>4. Accounted(r, q)
    BY <1>w, <2>1 DEF Accounted
  <2> QED
    BY <2>2, <2>4, KnownStays
<1>18. ASSUME NEW r \in Reqs, InsertRow(r) PROVE OrphanInv'
  <2>1. /\ req[r].pc = "row" /\ UNCHANGED <<room, leaked>> /\ req[r].move = None
    BY <1>18, <1>s DEF InsertRow, At, Shape
  <2>2. Written(r) /\ RoomWrittenOver(r) = {}
    BY <1>18, <2>1 DEF InsertRow, Written, Moved, RoomWrittenOver
  <2>3. Accounted(r, Idle)
    BY <1>w, <2>1, <2>2 DEF Accounted
  <2> QED
    BY <1>18, <2>3, KnownStays DEF InsertRow
<1>19. ASSUME NEW r \in Reqs, NEW c \in Classes, NEW s \in Starts, CreateOlder(r, c, s)
       PROVE  OrphanInv'
  <2>p. PICK server \in Servers :
          /\ room' = Opened(server, FALSE)
          /\ req' = [req EXCEPT ![r] = [Idle EXCEPT !.pc = "row", !.class = c, !.start = s,
                                                   !.server = server, !.new = FreshRoom]]
    BY <1>19, Zenon DEF CreateOlder
  <2> DEFINE q == [Idle EXCEPT !.pc = "row", !.class = c, !.start = s, !.server = server,
                               !.new = FreshRoom]
  <2>1. req' = [req EXCEPT ![r] = q]
    BY <2>p
  <2>2. q.pc = "row" /\ q.new = FreshRoom
    BY DEF Idle
  <2>3. FreshRoom # None /\ \A m \in Rooms \ {FreshRoom} : room'[m] = room[m]
    BY <1>19, <1>o, <2>p, LiveScheduleAssumption DEF CreateOlder
  <2>4. Owed(req[r]) = {}
    BY <1>19 DEF CreateOlder, At, Owed, Opening
  <2> HIDE DEF q
  <2>5. FreshRoom \in Owed(q)
    BY <2>2, <2>3 DEF Owed, Opening
  <2>6. Accounted(r, q)
    BY <1>19, <2>3, <2>4, <2>5 DEF CreateOlder, Accounted
  <2> QED
    BY <2>1, <2>6, KnownStays
<1>20. ASSUME NEW r \in Reqs, NEW c \in Classes, DeleteRoomRead(r, c) PROVE OrphanInv'
  <2>1. Owed(req[r]) = {}
    BY <1>20 DEF DeleteRoomRead, At, Owed, Opening
  <2> QED
    BY <1>20, <2>1, KnownStays DEF Accounted, DeleteRoomRead
<1>21. ASSUME NEW r \in Reqs, DeleteRoomClose(r) PROVE OrphanInv'
  <2>1. req[r].old \in Rooms
    BY <1>21, <1>s DEF DeleteRoomClose, At, Shape, Deleting
  <2>2. \A m \in Rooms : room'[m].state = "open" => room[m].state = "open"
    BY <1>0, <1>21, <2>1 DEF DeleteRoomClose, RoomRows
  <2> QED
    BY <1>21, <1>h, <1>p, <2>2 DEF DeleteRoomClose, At
<1>d. ASSUME NEW r \in Reqs, DeleteRoomUnknown(r) PROVE OrphanInv'
  <2>1. Owed(req[r]) = {} /\ req[r].move \in Classes
    BY <1>d, <1>s DEF DeleteRoomUnknown, At, Owed, Opening, Shape, Deleting
  <2>2. \A c \in Classes : class'[c].room = class[c].room
    BY <1>0, <1>d, <2>1 DEF DeleteRoomUnknown, ClassRows
  <2>3. req' = [req EXCEPT ![r] = [req[r] EXCEPT !.pc = "end"]]
    BY <1>0, <1>d DEF DeleteRoomUnknown, Go
  <2>4. Accounted(r, [req[r] EXCEPT !.pc = "end"])
    BY <1>d, <2>1, <2>2 DEF Accounted, DeleteRoomUnknown
  <2> QED
    BY <2>3, <2>4, KnownStays
<1>22. ASSUME NEW r \in Reqs, DeleteRoomMark(r) PROVE OrphanInv'
  <2>1. Owed(req[r]) = {}
    BY <1>22 DEF DeleteRoomMark, At, Owed, Opening
  <2>2. req[r].move \in Classes
    BY <1>22, <1>s DEF DeleteRoomMark, At, Shape, Deleting
  <2>3. \A c \in Classes : class'[c].room = class[c].room
    BY <1>0, <1>22, <2>2 DEF DeleteRoomMark, ClassRows
  <2> QED
    BY <1>22, <2>1, <2>3, KnownStays DEF Accounted, DeleteRoomMark
<1>k. ASSUME UNCHANGED <<req, leaked>>, \A c \in Classes : class'[c].room = class[c].room,
             \A m \in Rooms : room'[m].state = "open" => room[m].state = "open"
      PROVE  OrphanInv'
  BY <1>k DEF OrphanInv, Known
<1>23. ASSUME NEW m \in Rooms, Hook(m) PROVE OrphanInv'
  <2>1. RowOf(m) \subseteq Classes
    BY DEF RowOf
  <2>2. CASE RoomCreatedHook(m)
    BY <1>0, <1>k, <2>1, <2>2 DEF RoomCreatedHook, ClassRows
  <2>3. CASE RoomLiveHook(m)
    <3>1. PICK c \in RowOf(m), now \in Starts :
            class' = [class EXCEPT ![c].status = "live", ![c].start = now]
      BY <2>3 DEF RoomLiveHook
    <3>2. UNCHANGED <<room, leaked, req>>
      BY <2>3 DEF RoomLiveHook
    <3>3. \A d \in Classes : class'[d].room = class[d].room
      BY <1>0, <2>1, <3>1 DEF ClassRows
    <3> QED
      BY <1>k, <3>2, <3>3
  <2>4. CASE RoomClosedHook(m)
    <3>1. UNCHANGED <<leaked, req>>
      BY <2>4 DEF RoomClosedHook
    <3>2. \A c \in Classes : class'[c].room = class[c].room
      BY <1>0, <2>1, <2>4 DEF RoomClosedHook, ClassRows
    <3>3. \A x \in Rooms : room'[x].state = "open" => room[x].state = "open"
      BY <1>0, <2>4 DEF RoomClosedHook, RoomRows
    <3> QED
      BY <1>k, <3>1, <3>2, <3>3
  <2> QED
    BY <1>23, <2>2, <2>3, <2>4 DEF Hook
<1>24. ASSUME NEW c \in Classes, DeleteLiveClass(c) \/ \E s \in Starts : UpdateLiveClass(c, s)
       PROVE  OrphanInv'
  <2>1. CASE DeleteLiveClass(c)
    BY <1>0, <1>k, <2>1 DEF DeleteLiveClass, ClassRows
  <2>2. ASSUME NEW s \in Starts, UpdateLiveClass(c, s) PROVE OrphanInv'
    BY <1>0, <1>k, <2>2 DEF UpdateLiveClass, ClassRows
  <2> QED
    BY <1>24, <2>1, <2>2
<1>25. LockExpires \/ UNCHANGED schedVars => OrphanInv'
  BY <1>k DEF LockExpires, schedVars
<1>26. ASSUME NEW r \in Reqs, Version5(r) PROVE OrphanInv'
  BY <1>2, <1>3, <1>4, <1>5, <1>6, <1>7, <1>9, <1>10, <1>11, <1>12, <1>14, <1>16, <1>26
  DEF Version5
<1>27. ASSUME NEW r \in Reqs, Failure(r) PROVE OrphanInv'
  BY <1>7, <1>8, <1>l, <1>13, <1>15, <1>17, <1>27 DEF Failure
<1>28. ASSUME NEW r \in Reqs, Elsewhere(r) PROVE OrphanInv'
  BY <1>18, <1>d, <1>19, <1>20, <1>21, <1>22, <1>28 DEF Elsewhere
<1> QED
  BY <1>1, <1>23, <1>24, <1>25, <1>26, <1>27, <1>28 DEF SchedNext

\* The inductive invariant for the rooms.
SchedInv == SchedTypeOK /\ RowInv /\ ReqInv /\ ServeInv /\ OrphanInv

\* It holds before the first request.
LEMMA SchedStart == SchedInit => SchedInv
<1> SUFFICES ASSUME SchedInit PROVE SchedInv
  OBVIOUS
<1>1. Idle \in Requests /\ NoRow \in ClassRows /\ NoRoom \in RoomRows
  BY IdleRequest DEF NoRow, ClassRows, NoRoom, RoomRows, Statuses, Servers
<1>2. SchedTypeOK
  <2>1. /\ class \in [Classes -> ClassRows] /\ room \in [Rooms -> RoomRows]
        /\ req \in [Reqs -> Requests]
    BY <1>1 DEF SchedInit
  <2>2. Others
    <3>1. lock \in Reqs \cup {None} /\ lost \subseteq Classes /\ leaked \subseteq Rooms
      BY DEF SchedInit
    <3>2. faults \in 0 .. MaxFaults /\ events \in 0 .. MaxEvents
      BY LiveScheduleAssumption DEF SchedInit
    <3>3. outside \in BOOLEAN
      BY DEF SchedInit
    <3> QED
      BY <3>1, <3>2, <3>3 DEF Others
  <2> QED
    BY <2>1, <2>2 DEF SchedTypeOK, Requests, ClassRows, RoomRows, Others
<1>3. RowInv /\ ServeInv /\ OrphanInv
  BY DEF SchedInit, RowInv, ServeInv, OrphanInv, NoRow, NoRoom
<1>4. Stands(Idle)
  BY IdleRequest DEF Stands, Deleting, Undoing, Opening
<1>5. Idle.class = None
  BY DEF Idle
<1>6. ReqInv
  BY <1>4, <1>5, IdleRequest DEF SchedInit, ReqInv, Between
<1> QED
  BY <1>2, <1>3, <1>6 DEF SchedInv

\* The scheduler's requests, whichever steps of theirs interleave, fail or are cut off,
\* keep the rows, the rooms they opened and the room that a moved class leaves apart
\* (createLiveClassVersion5IntoDb, the older create and deleteLiveClassRoomFromDb).
THEOREM SchedInvHolds == SchedSpec => []SchedInv
<1>1. SchedInv /\ [SchedNext]_schedVars => SchedInv'
  BY SchedTypeStep, SchedStep, OrphanStep DEF SchedInv
<1> QED
  BY SchedStart, <1>1, PTL DEF SchedSpec

\* Every variable of the scheduler keeps its type, which takes all of SchedInv: a row
\* is written from what the request carries.
THEOREM SchedTypeCorrect == SchedSpec => []SchedTypeOK
<1>1. SchedInv => SchedTypeOK
  BY DEF SchedInv
<1> QED
  BY <1>1, SchedInvHolds, PTL

\* A class that is to come or on is in a room that the scheduler did not end: neither
\* the undo steps of a request that failed nor the end of a moved class's old room
\* (createLiveClassVersion5IntoDb) take a room that a row names, or will name.
THEOREM RoomsAreKept == SchedSpec => []RoomsServe
<1>1. SchedInv => RoomsServe
  BY DEF SchedInv, RoomsServe, ServeInv, Counted, RowInv
<1> QED
  BY <1>1, SchedInvHolds, PTL

\* Every open room is in a row or in the hands of a request that ends or records it,
\* unless a failed call or a deletion leaked it: the catch block of
\* createLiveClassVersion5IntoDb ends what the request opened, whichever step failed.
THEOREM RoomsAccounted == SchedSpec => []NoOrphanRoom
<1>1. SchedInv => NoOrphanRoom
  BY OrphanIs DEF SchedInv
<1> QED
  BY <1>1, SchedInvHolds, PTL

-----------------------------------------------------------------------------
(* The load of the servers.                                                  *)

\* The sets of classes are finite, and what is in a smaller one is in the larger.
LEMMA SetsOfClasses ==
  /\ \A S, T \in SUBSET Classes : S \subseteq T => Cardinality(S) <= Cardinality(T)
  /\ \A S \in SUBSET Classes : \A c \in Classes :
       Cardinality(S \cup {c}) <= Cardinality(S) + 1
  /\ \A S, T \in SUBSET Classes : Cardinality(S \cup T) <= Cardinality(S) + Cardinality(T)
  /\ \A S \in SUBSET Classes : Cardinality(S) \in Nat
<1>1. \A S \in SUBSET Classes : IsFiniteSet(S) /\ Cardinality(S) \in Nat
  BY LiveScheduleAssumption, FS_Subset, FS_CardinalityType
<1>2. ASSUME NEW S \in SUBSET Classes, NEW T \in SUBSET Classes, S \subseteq T
      PROVE  Cardinality(S) <= Cardinality(T)
  BY <1>1, <1>2, FS_Subset
<1>3. ASSUME NEW S \in SUBSET Classes, NEW c \in Classes
      PROVE  Cardinality(S \cup {c}) <= Cardinality(S) + 1
  BY <1>1, FS_AddElement
<1>4. ASSUME NEW S \in SUBSET Classes, NEW T \in SUBSET Classes
      PROVE  Cardinality(S \cup T) <= Cardinality(S) + Cardinality(T)
  <2>1. Cardinality(S \cup T) = Cardinality(S) + Cardinality(T) - Cardinality(S \cap T)
    BY <1>1, FS_Union
  <2> QED
    BY <1>1, <2>1
<1> QED
  BY <1>1, <1>2, <1>3, <1>4

\* The classes on a server are classes.
LEMMA OnAndBright ==
  ASSUME NEW t
  PROVE  /\ \A server : On(server, t) \in SUBSET Classes
         /\ Bright(t) \in SUBSET On("europe", t) /\ Bright(t) \in SUBSET Classes
BY DEF On, Bright

\* The load that Plan reads is the number of classes on the server.
LEMMA LoadIsOn ==
  ASSUME NEW server, NEW t, NEW without
  PROVE  Load(server, t, without) = Cardinality(On(server, t) \ {without})
<1>1. {c \in Classes \ {without} : /\ Counted(c)
                                   /\ class[c].server = server
                                   /\ Covers(class[c].start, t)}
        = On(server, t) \ {without}
  BY DEF On
<1> QED
  BY <1>1 DEF Load

\* A step in which no class is added to the count, moved or shown better.
Shrinks ==
  /\ \A c \in Classes :
       /\ class'[c].room = class[c].room
       /\ Counted(c)' => /\ Counted(c) /\ class'[c].server = class[c].server
                         /\ class'[c].start = class[c].start
  /\ \A m \in Rooms : room[m].state # "none" /\ room[m].safe => room'[m].safe

\* Such a step loads no server more, and leaves every plan fitting.
LEMMA LoadShrinks ==
  ASSUME SchedTypeOK, RowInv, Shrinks
  PROVE  /\ LoadInv => LoadInv'
         /\ \A q \in Requests : Shape(q) /\ Stands(q) /\ Plans(q) => Plans(q)'
<1>0. class \in [Classes -> ClassRows] /\ room \in [Rooms -> RoomRows]
  BY DEF SchedTypeOK, ClassRows, RoomRows
<1>1. \A server, t : On(server, t)' \subseteq On(server, t)
  BY DEF On, Shrinks
<1>2. \A t : Bright(t)' \subseteq Bright(t)
  <2> SUFFICES ASSUME NEW t, NEW c \in Bright(t)' PROVE c \in Bright(t)
    OBVIOUS
  <2>1. c \in On("europe", t)' /\ c \in Classes /\ ~room'[class'[c].room].safe
    BY DEF Bright, On
  <2>2. c \in On("europe", t) /\ class'[c].room = class[c].room
    BY <1>1, <2>1 DEF Shrinks
  <2>3. class[c].room # None /\ room[class[c].room].state # "none" /\ class[c].room \in Rooms
    BY <1>0, <2>1, <2>2 DEF On, Counted, RowInv, ClassRows
  <2>4. ~room[class[c].room].safe
    BY <2>1, <2>2, <2>3 DEF Shrinks
  <2> QED
    BY <2>2, <2>4 DEF Bright
<1>3. ASSUME LoadInv PROVE LoadInv'
  <2> SUFFICES ASSUME NEW t \in Int
               PROVE  /\ Cardinality(On("malaysia", t)') <= MalaysiaCapacity
                      /\ Cardinality(Bright(t)') <= EuropeCapacity
    BY DEF LoadInv
  <2>1. /\ Cardinality(On("malaysia", t)) <= MalaysiaCapacity
        /\ Cardinality(Bright(t)) <= EuropeCapacity
    BY <1>3 DEF LoadInv
  <2>2. /\ On("malaysia", t) \in SUBSET Classes /\ Bright(t) \in SUBSET Classes
        /\ On("malaysia", t)' \in SUBSET Classes /\ Bright(t)' \in SUBSET Classes
    BY DEF On, Bright
  <2>3. /\ Cardinality(On("malaysia", t)') <= Cardinality(On("malaysia", t))
        /\ Cardinality(Bright(t)') <= Cardinality(Bright(t))
    BY <1>1, <1>2, <2>2, SetsOfClasses
  <2> QED
    BY <2>1, <2>2, <2>3, SetsOfClasses, LiveScheduleAssumption
<1>4. ASSUME NEW q \in Requests, Shape(q), Stands(q), Plans(q) PROVE Plans(q)'
  <2>s. \A server, t, X : Cardinality(On(server, t)' \ X) <= Cardinality(On(server, t) \ X)
                          /\ Cardinality(On(server, t)' \ X) \in Nat
                          /\ Cardinality(On(server, t) \ X) \in Nat
    <3> SUFFICES ASSUME NEW server, NEW t, NEW X
                 PROVE  /\ Cardinality(On(server, t)' \ X) <= Cardinality(On(server, t) \ X)
                        /\ Cardinality(On(server, t)' \ X) \in Nat
                        /\ Cardinality(On(server, t) \ X) \in Nat
      OBVIOUS
    <3>1. On(server, t)' \ X \in SUBSET Classes /\ On(server, t) \ X \in SUBSET Classes
      BY DEF On
    <3>2. On(server, t)' \ X \subseteq On(server, t) \ X
      BY <1>1
    <3> QED
      BY <3>1, <3>2, SetsOfClasses
  <2>1. q.server = "malaysia" =>
          /\ q.move = None
          /\ \A t \in Window(q.start) : 1 + Cardinality(On("malaysia", t)') <= MalaysiaCapacity
    <3>1. \A t : Cardinality(On("malaysia", t)') <= Cardinality(On("malaysia", t))
                 /\ Cardinality(On("malaysia", t)') \in Nat /\ Cardinality(On("malaysia", t)) \in Nat
      <4>1. \A t : On("malaysia", t)' \ {} = On("malaysia", t)' /\ On("malaysia", t) \ {} = On("malaysia", t)
        OBVIOUS
      <4> QED
        BY <2>s, <4>1
    <3> QED
      BY <1>4, <3>1, LiveScheduleAssumption DEF Plans
  <2>2. q.server = "europe" /\ ~q.safe =>
          \A t \in Window(q.start) : 1 + Cardinality(On("europe", t)' \ Without(q)) <= EuropeCapacity
    <3> SUFFICES ASSUME q.server = "europe", ~q.safe, NEW t \in Window(q.start)
                 PROVE  1 + Cardinality(On("europe", t)' \ Without(q)) <= EuropeCapacity
      OBVIOUS
    <3>1. 1 + Cardinality(On("europe", t) \ Without(q)) <= EuropeCapacity
      BY <1>4 DEF Plans
    <3>2. /\ Cardinality(On("europe", t)' \ Without(q)) <= Cardinality(On("europe", t) \ Without(q))
          /\ Cardinality(On("europe", t)' \ Without(q)) \in Nat
          /\ Cardinality(On("europe", t) \ Without(q)) \in Nat
      BY <2>s, Zenon
    <3> HIDE DEF Without
    <3> QED
      BY <3>1, <3>2, LiveScheduleAssumption
  <2>3. q.safe => q.move = None
    BY <1>4 DEF Plans
  <2>4. q.move # None /\ Counted(q.move)' =>
          \A t \in Window(class'[q.move].start) :
            1 + Cardinality(On("malaysia", t)' \ {q.move}) <= MalaysiaCapacity
    <3> SUFFICES ASSUME q.move # None, Counted(q.move)', NEW t \in Window(class'[q.move].start)
                 PROVE  1 + Cardinality(On("malaysia", t)' \ {q.move}) <= MalaysiaCapacity
      OBVIOUS
    <3>1. q.move \in Classes
      BY DEF Requests
    <3>2. Counted(q.move) /\ class'[q.move].start = class[q.move].start
      BY <3>1 DEF Shrinks
    <3>3. 1 + Cardinality(On("malaysia", t) \ {q.move}) <= MalaysiaCapacity
      BY <1>4, <3>2 DEF Plans
    <3>4. /\ Cardinality(On("malaysia", t)' \ {q.move}) <= Cardinality(On("malaysia", t) \ {q.move})
          /\ Cardinality(On("malaysia", t)' \ {q.move}) \in Nat
          /\ Cardinality(On("malaysia", t) \ {q.move}) \in Nat
      BY <2>s, Zenon
    <3> QED
      BY <3>3, <3>4, LiveScheduleAssumption
  <2>5. q.reduce # None => class'[q.reduce].room = q.old
    <3>1. q.reduce # None => q.reduce \in Classes
      BY DEF Requests
    <3> QED
      BY <1>4, <3>1 DEF Plans, Shrinks
  <2>6. q.reduce # None /\ q.reduced => room'[q.old].safe
    <3> SUFFICES ASSUME q.reduce # None, q.reduced PROVE room'[q.old].safe
      OBVIOUS
    <3>1. q.old \in Rooms /\ q.reduce \in Classes /\ q.old # None
      BY <1>4 DEF Requests, Shape
    <3>2. class[q.reduce].room = q.old /\ room[q.old].safe
      BY <1>4 DEF Plans
    <3>3. room[q.old].state # "none"
      BY <3>1, <3>2 DEF RowInv
    <3> QED
      BY <3>1, <3>2, <3>3 DEF Shrinks
  <2>7. q.pc \in {"reduce", "commit", "write"} /\ q.safe => room'[q.new].safe
    <3> SUFFICES ASSUME q.pc \in {"reduce", "commit", "write"}, q.safe PROVE room'[q.new].safe
      OBVIOUS
    <3>1. q.new \in Rooms /\ q.new \in Held(q) /\ room[q.new].safe
      BY <1>4 DEF Shape, Requests, Held, Plans
    <3>2. room[q.new].state # "none"
      BY <1>4, <3>1 DEF Stands
    <3> QED
      BY <3>1, <3>2 DEF Shrinks
  <2> QED
    BY <2>1, <2>2, <2>3, <2>4, <2>5, <2>6, <2>7 DEF Plans, Without
<1> QED
  BY <1>3, <1>4

\* A request that goes on, holding the lock no longer than before.
LEMMA HolderMoves ==
  ASSUME HolderInv, req \in [Reqs -> Requests], UNCHANGED lock, NEW r \in Reqs, NEW q,
         req' = [req EXCEPT ![r] = q], q.pc \in Holding => req[r].pc \in Holding
  PROVE  HolderInv'
BY DEF HolderInv

\* Until the lock expires under a request or a step goes round it, whoever plans or
\* writes holds it.
LEMMA HolderStep ==
  ASSUME SchedTypeOK, HolderInv, [SchedNext]_schedVars, ~outside'
  PROVE  HolderInv'
<1>0. req \in [Reqs -> Requests] /\ \A r \in Reqs : req[r] \in Requests
  BY DEF SchedTypeOK, Requests
<1>i. Idle.pc = "idle" /\ "idle" \notin Holding
  BY DEF Idle, Holding, Opening, Undoing
<1>g. ASSUME NEW r \in Reqs, NEW pc \in Pcs, Go(r, pc), UNCHANGED lock,
             pc \in Holding => req[r].pc \in Holding
      PROVE  HolderInv'
  <2>1. req' = [req EXCEPT ![r] = [req[r] EXCEPT !.pc = pc]] /\ [req[r] EXCEPT !.pc = pc].pc = pc
    BY <1>0, <1>g, GoesOn
  <2> QED
    BY <1>0, <1>g, <2>1, HolderMoves
<1>p. {"plan", "release", "undo", "undospare", "undonew", "write", "end", "mark",
       "endold"} \subseteq Pcs
  BY DEF Pcs
<1>1. ASSUME NEW r \in Reqs, NEW c \in Classes, NEW s \in Starts, NEW v \in Servers,
             CreateVersion5(r, c, s, v)
      PROVE  HolderInv'
  <2>1. [Idle EXCEPT !.pc = "lock", !.class = c, !.start = s, !.asked = v].pc \notin Holding
    BY DEF Idle, Holding, Opening, Undoing
  <2> QED
    BY <1>0, <1>1, <2>1, HolderMoves DEF CreateVersion5
<1>2. ASSUME NEW r \in Reqs, AcquireV5SchedulingLock(r) PROVE HolderInv'
  <2>1. CASE lock = None
    <3>1. \A s \in Reqs : req[s].pc \notin Holding
      BY <2>1, LiveScheduleAssumption DEF HolderInv
    <3>2. lock' = r /\ Go(r, "plan")
      BY <1>2, <2>1 DEF AcquireV5SchedulingLock
    <3> QED
      BY <1>0, <3>1, <3>2 DEF HolderInv, Go
  <2>2. CASE lock # None
    BY <1>0, <1>2, <1>i, <2>2, HolderMoves DEF AcquireV5SchedulingLock
  <2> QED
    BY <2>1, <2>2
<1>3. ASSUME NEW r \in Reqs, Plan(r) PROVE HolderInv'
  <2>1. req[r].pc \in Holding /\ UNCHANGED lock
    BY <1>3 DEF Plan, At, Holding
  <2>2. PICK q : req' = [req EXCEPT ![r] = q]
    BY <1>3 DEF Plan
  <2> QED
    BY <1>0, <2>1, <2>2, HolderMoves
<1>4. ASSUME NEW r \in Reqs, CreateReplacementRoom(r) \/ CreateMediaRoom(r) \/ ReduceSettings(r)
      PROVE  HolderInv'
  <2>1. req[r].pc \in Holding /\ UNCHANGED lock
    BY <1>4 DEF CreateReplacementRoom, CreateMediaRoom, ReduceSettings, At, Holding, Opening
  <2>2. \A s \in Reqs \ {r} : req'[s] = req[s]
    BY <1>0, <1>4 DEF CreateReplacementRoom, CreateMediaRoom, ReduceSettings
  <2> QED
    BY <2>1, <2>2 DEF HolderInv
<1>5. ASSUME NEW r \in Reqs,
             \/ Recheck(r) \/ Commit(r) \/ CommitUnheard(r) \/ StepFails(r) \/ RoomUnheard(r)
             \/ UndoSettings(r) \/ EndReplacementRoom(r) \/ EndNewRoom(r) \/ EndOldRoom(r)
             \/ ReduceUnheard(r)
      PROVE  HolderInv'
  <2>1. req[r].pc \in Holding /\ UNCHANGED lock
    BY <1>5 DEF Recheck, Commit, CommitUnheard, StepFails, RoomUnheard, UndoSettings,
      EndReplacementRoom, EndNewRoom, EndOldRoom, ReduceUnheard, At, Holding, Opening, Undoing
  <2>2. \E pc \in Pcs : Go(r, pc)
    BY <1>5, <1>p DEF Recheck, Commit, CommitUnheard, StepFails, RoomUnheard, UndoSettings,
      EndReplacementRoom, EndNewRoom, EndOldRoom, ReduceUnheard
  <2> QED
    BY <1>g, <2>1, <2>2
<1>6. ASSUME NEW r \in Reqs, UndoFails(r) PROVE HolderInv'
  <2>1. req[r].pc \in Holding /\ UNCHANGED lock /\ \E pc \in Pcs : Go(r, pc)
    BY <1>6, <1>p DEF UndoFails, NextUndo, Holding, Undoing
  <2> QED
    BY <1>g, <2>1
<1>7. ASSUME NEW r \in Reqs, ReleaseV5SchedulingLock(r) PROVE HolderInv'
  <2>1. req[r].pc \in Holding /\ req' = [req EXCEPT ![r] = Idle]
        /\ lock' = IF lock = r THEN None ELSE lock
    BY <1>7 DEF ReleaseV5SchedulingLock, At, Holding
  <2>2. lock = r
    BY <2>1 DEF HolderInv
  <2>3. \A s \in Reqs \ {r} : req[s].pc \notin Holding
    BY <2>2 DEF HolderInv
  <2> QED
    BY <1>0, <1>i, <2>1, <2>3 DEF HolderInv
<1>8. ASSUME NEW r \in Reqs, Crash(r) \/ InsertRow(r) \/ DeleteRoomMark(r) PROVE HolderInv'
  <2>1. req' = [req EXCEPT ![r] = Idle] /\ UNCHANGED lock
    BY <1>8 DEF Crash, InsertRow, DeleteRoomMark
  <2> QED
    BY <1>0, <1>i, <2>1, HolderMoves
<1>9. ASSUME NEW r \in Reqs, NEW c \in Classes, NEW s \in Starts, CreateOlder(r, c, s) PROVE HolderInv'
  <2>1. \A server : [Idle EXCEPT !.pc = "row", !.class = c, !.start = s, !.server = server,
                                !.new = FreshRoom].pc \notin Holding
    BY DEF Idle, Holding, Opening, Undoing
  <2> QED
    BY <1>0, <1>9, <2>1, HolderMoves DEF CreateOlder
<1>10. ASSUME NEW r \in Reqs, NEW c \in Classes, DeleteRoomRead(r, c) PROVE HolderInv'
  <2>1. [Idle EXCEPT !.pc = "close", !.old = class[c].room, !.move = c].pc \notin Holding
    BY DEF Idle, Holding, Opening, Undoing
  <2> QED
    BY <1>0, <1>10, <2>1, HolderMoves DEF DeleteRoomRead
<1>11. ASSUME NEW r \in Reqs, DeleteRoomClose(r) \/ DeleteRoomUnknown(r) PROVE HolderInv'
  BY <1>11, <1>g, <1>p DEF DeleteRoomClose, DeleteRoomUnknown, Holding, Opening, Undoing
<1>12. ASSUME LockExpires PROVE HolderInv'
  <2>1. \A r \in Reqs : lock = r => req[r].pc = "idle"
    BY <1>12 DEF LockExpires, At
  <2>2. \A r \in Reqs : req[r].pc \notin Holding
    BY <1>i, <2>1 DEF HolderInv
  <2> QED
    BY <1>12, <2>2 DEF LockExpires, HolderInv
<1>13. UNCHANGED <<req, lock>> => HolderInv'
  BY DEF HolderInv
<1> QED
  BY <1>1, <1>2, <1>3, <1>4, <1>5, <1>6, <1>7, <1>8, <1>9, <1>10, <1>11, <1>12, <1>13
  DEF SchedNext, Version5, Failure, Elsewhere, Hook, RoomCreatedHook, RoomLiveHook,
      RoomClosedHook, DeleteLiveClass, UpdateLiveClass, schedVars

\* Rows written by a plan that fits leave the servers within their capacities.
LEMMA LoadWritten ==
  ASSUME SchedTypeOK, RowInv, ReqInv, LoadInv, NEW r \in Reqs, req[r].pc = "write",
         Plans(req[r]), Written(r), UNCHANGED room
  PROVE  LoadInv'
<1>0. req[r] \in Requests /\ Shape(req[r])
  BY DEF SchedTypeOK, Requests, ReqInv
<1> DEFINE c == req[r].class
           k == req[r].move
           q == req[r]
<1>1. /\ c \in Classes /\ class[c].room = None /\ k \in Classes \cup {None} /\ k # c
      /\ class'[c] = NewRow(r)
      /\ k # None => /\ class'[k].server = "malaysia" /\ class'[k].status = class[k].status
                     /\ class'[k].start = class[k].start /\ class'[k].deleted = class[k].deleted
      /\ \A x \in Classes \ {c, k} : class'[x] = class[x]
  BY WrittenRows
<1>n. /\ class'[c].server = q.server /\ class'[c].start = q.start /\ class'[c].room = q.new
  BY <1>1 DEF NewRow
<1>q. q.server \in Servers /\ q.start \in Nat /\ (k # None => class[k].start \in Nat)
  <2>1. class \in [Classes -> ClassRows]
    BY DEF SchedTypeOK, ClassRows
  <2>2. k # None => class[k].start \in Starts \cup {0}
    BY <1>1, <2>1 DEF ClassRows
  <2> QED
    <3>1. q.server \in Servers /\ q.start \in Starts \cup {0}
      BY <1>0 DEF Requests
    <3>2. \A s \in Starts \cup {0} : s \in Nat
      BY LiveScheduleAssumption
    <3> QED
      BY <2>2, <3>1, <3>2
<1> HIDE DEF c, k
<1>2. ASSUME NEW server, NEW t, NEW x \in On(server, t)'
      PROVE  /\ x \in Classes /\ class'[x].server = server
             /\ \/ x = c /\ server = q.server /\ Covers(q.start, t)
                \/ x = k /\ k # None /\ server = "malaysia" /\ Counted(k) /\ Covers(class[k].start, t)
                \/ x \notin {c, k} /\ x \in On(server, t) /\ class'[x] = class[x]
  <2>1. x \in Classes /\ Counted(x)' /\ class'[x].server = server /\ Covers(class'[x].start, t)
    BY DEF On, Covers
  <2>2. CASE x = c
    BY <1>n, <2>1, <2>2
  <2>3. CASE x = k
    <3>1. k # None /\ k \in Classes
      BY <1>1, <2>1, <2>3, LiveScheduleAssumption
    <3>2. server = "malaysia" /\ class'[k].start = class[k].start
      BY <1>1, <2>1, <2>3, <3>1
    <3>3. Counted(k)
      BY <1>1, <2>1, <2>3, <3>1 DEF Counted
    <3> QED
      BY <2>1, <2>3, <3>1, <3>2, <3>3
  <2>4. CASE x \notin {c, k}
    BY <1>1, <2>1, <2>4 DEF On, Counted
  <2> QED
    BY <2>2, <2>3, <2>4
<1>w. ASSUME NEW start \in Nat, NEW t \in Int PROVE Covers(start, t) <=> t \in Window(start)
  BY LiveScheduleAssumption DEF Covers, Window
<1>3. ASSUME NEW t \in Int PROVE Cardinality(On("malaysia", t)') <= MalaysiaCapacity
  <2>0. /\ On("malaysia", t) \in SUBSET Classes /\ On("malaysia", t)' \in SUBSET Classes
        /\ Cardinality(On("malaysia", t)) <= MalaysiaCapacity
    BY <1>3 DEF On, LoadInv
  <2>1. CASE On("malaysia", t)' \subseteq On("malaysia", t)
    BY <2>0, <2>1, SetsOfClasses, LiveScheduleAssumption
  <2>2. CASE q.server = "malaysia" /\ t \in Window(q.start)
    <3>1. k = None /\ 1 + Cardinality(On("malaysia", t)) <= MalaysiaCapacity
      BY <2>2 DEF Plans, k
    <3>2. On("malaysia", t)' \subseteq On("malaysia", t) \cup {c}
      BY <1>2, <3>1
    <3>3. On("malaysia", t) \cup {c} \in SUBSET Classes
      BY <1>1, <2>0
    <3> QED
      <4>1. /\ Cardinality(On("malaysia", t)') <= Cardinality(On("malaysia", t) \cup {c})
            /\ Cardinality(On("malaysia", t) \cup {c}) <= Cardinality(On("malaysia", t)) + 1
            /\ Cardinality(On("malaysia", t) \cup {c}) \in Nat
            /\ Cardinality(On("malaysia", t)) \in Nat /\ Cardinality(On("malaysia", t)') \in Nat
        BY <1>1, <2>0, <3>2, <3>3, SetsOfClasses, Zenon
      <4> QED
        BY <3>1, <4>1, LiveScheduleAssumption
  <2>3. CASE q.server # "malaysia" /\ k # None /\ Counted(k) /\ t \in Window(class[k].start)
    <3>1. 1 + Cardinality(On("malaysia", t) \ {k}) <= MalaysiaCapacity
      BY <2>3 DEF Plans, k
    <3>2. On("malaysia", t)' \subseteq (On("malaysia", t) \ {k}) \cup {k}
      BY <1>2, <2>3
    <3>3. k \in Classes /\ On("malaysia", t) \ {k} \in SUBSET Classes
          /\ (On("malaysia", t) \ {k}) \cup {k} \in SUBSET Classes
      BY <1>1, <2>0, <2>3
    <3>4. /\ Cardinality(On("malaysia", t)') <= Cardinality((On("malaysia", t) \ {k}) \cup {k})
          /\ Cardinality((On("malaysia", t) \ {k}) \cup {k}) <= Cardinality(On("malaysia", t) \ {k}) + 1
          /\ Cardinality((On("malaysia", t) \ {k}) \cup {k}) \in Nat
          /\ Cardinality(On("malaysia", t) \ {k}) \in Nat /\ Cardinality(On("malaysia", t)') \in Nat
      BY <2>0, <3>2, <3>3, SetsOfClasses, Zenon
    <3> QED
      BY <3>1, <3>4, LiveScheduleAssumption
  <2> QED
    <3>1. ASSUME ~(On("malaysia", t)' \subseteq On("malaysia", t))
          PROVE  \/ q.server = "malaysia" /\ t \in Window(q.start)
                 \/ q.server # "malaysia" /\ k # None /\ Counted(k) /\ t \in Window(class[k].start)
      <4>1. PICK x \in On("malaysia", t)' : x \notin On("malaysia", t)
        BY <3>1
      <4>2. \/ "malaysia" = q.server /\ Covers(q.start, t)
            \/ k # None /\ Counted(k) /\ Covers(class[k].start, t)
        BY <1>2, <4>1
      <4>3. q.server = "malaysia" => k = None
        BY DEF Plans, k
      <4> QED
        BY <1>3, <1>q, <1>w, <4>2, <4>3
    <3> QED
      BY <2>1, <2>2, <2>3, <3>1
<1>4. ASSUME NEW t \in Int PROVE Cardinality(Bright(t)') <= EuropeCapacity
  <2>0. /\ Bright(t) \in SUBSET Classes /\ Bright(t)' \in SUBSET Classes
        /\ Cardinality(Bright(t)) <= EuropeCapacity
    BY <1>4 DEF On, LoadInv, Bright
  <2>1. ASSUME NEW x \in Bright(t)'
        PROVE  \/ /\ x = c /\ q.server = "europe" /\ t \in Window(q.start) /\ ~q.safe
               \/ x \in Bright(t) /\ x \notin Without(q)
    <3>1. x \in On("europe", t)' /\ ~room[class'[x].room].safe
      BY DEF Bright
    <3>2. CASE x = c /\ q.server = "europe" /\ Covers(q.start, t)
      BY <1>4, <1>n, <1>q, <1>w, <3>1, <3>2 DEF Plans
    <3>3. CASE x \notin {c, k} /\ x \in On("europe", t) /\ class'[x] = class[x]
      <4>1. x \in Bright(t) /\ ~room[class[x].room].safe
        BY <3>1, <3>3 DEF Bright
      <4>2. x # q.reduce
        <5>1. q.reduce # None => q.reduced
          BY <1>0 DEF Shape
        <5>2. q.reduce # None => room[class[q.reduce].room].safe
          BY <5>1 DEF Plans
        <5>3. x # None
          BY <3>3, LiveScheduleAssumption DEF On
        <5> QED
          BY <4>1, <5>2, <5>3
      <4> QED
        BY <3>3, <4>1, <4>2 DEF Without, k
    <3> QED
      BY <1>2, <3>1, <3>2, <3>3
  <2>2. CASE Bright(t)' \subseteq Bright(t)
    BY <2>0, <2>2, SetsOfClasses, LiveScheduleAssumption
  <2>3. CASE ~(Bright(t)' \subseteq Bright(t))
    <3>1. q.server = "europe" /\ t \in Window(q.start) /\ ~q.safe
      BY <2>1, <2>3
    <3> DEFINE S == On("europe", t) \ Without(q)
    <3>2. 1 + Cardinality(S) <= EuropeCapacity
      BY <3>1 DEF Plans
    <3>3. Bright(t)' \subseteq S \cup {c}
      BY <2>1 DEF Bright
    <3>4. S \in SUBSET Classes /\ S \cup {c} \in SUBSET Classes
      BY <1>1 DEF On
    <3> HIDE DEF S
    <3>5. /\ Cardinality(Bright(t)') <= Cardinality(S \cup {c}) /\ Cardinality(S \cup {c}) <= Cardinality(S) + 1
          /\ Cardinality(S \cup {c}) \in Nat /\ Cardinality(S) \in Nat /\ Cardinality(Bright(t)') \in Nat
      BY <1>1, <2>0, <3>3, <3>4, SetsOfClasses, Zenon
    <3> QED
      BY <3>2, <3>5, LiveScheduleAssumption
  <2> QED
    BY <2>2, <2>3
<1> QED
  BY <1>3, <1>4 DEF LoadInv

\* A step of request r that puts nothing on the servers.
LEMMA CapMoves ==
  ASSUME SchedTypeOK, RowInv, ReqInv, LoadInv, PlanInv, Shrinks, NEW r \in Reqs,
         NEW q \in Requests, req' = [req EXCEPT ![r] = q], q.pc \in Opening => Plans(q)'
  PROVE  LoadInv' /\ PlanInv'
<1>0. req \in [Reqs -> Requests]
  BY DEF SchedTypeOK, Requests
<1>1. ASSUME NEW s \in Reqs, req'[s].pc \in Opening PROVE Plans(req[s])'
  <2>1. CASE s = r
    BY <1>0, <1>1, <2>1
  <2>2. CASE s # r
    <3>1. req'[s] = req[s] /\ req[s] \in Requests
      BY <1>0, <2>2
    <3>2. Shape(req[s]) /\ Stands(req[s]) /\ Plans(req[s])
      BY <1>1, <3>1 DEF ReqInv, PlanInv
    <3>3. \A p \in Requests : Shape(p) /\ Stands(p) /\ Plans(p) => Plans(p)'
      BY LoadShrinks
    <3>4. PICK p \in Requests : p = req[s]
      BY <3>1
    <3>5. Plans(p)'
      BY <3>2, <3>3, <3>4
    <3> QED
      BY <3>1, <3>4, <3>5
  <2> QED
    BY <2>1, <2>2
<1>2. PlanInv'
  BY <1>1 DEF PlanInv
<1> QED
  BY <1>2, LoadShrinks

\* A step of no request that puts nothing on the servers.
LEMMA CapStays ==
  ASSUME SchedTypeOK, RowInv, ReqInv, LoadInv, PlanInv, Shrinks, UNCHANGED req
  PROVE  LoadInv' /\ PlanInv'
<1>0. req \in [Reqs -> Requests]
  BY DEF SchedTypeOK, Requests
<1>1. ASSUME NEW s \in Reqs, req'[s].pc \in Opening PROVE Plans(req[s])'
  <2>1. Shape(req[s]) /\ Stands(req[s]) /\ Plans(req[s])
    BY <1>1 DEF ReqInv, PlanInv
  <2>2. \A p \in Requests : Shape(p) /\ Stands(p) /\ Plans(p) => Plans(p)'
    BY LoadShrinks
  <2>3. PICK p \in Requests : p = req[s]
    BY <1>0
  <2>4. Plans(p)'
    BY <2>1, <2>2, <2>3
  <2> QED
    BY <2>3, <2>4
<1>2. PlanInv'
  BY <1>1 DEF PlanInv
<1> QED
  BY <1>2, LoadShrinks

\* The plan that Plan makes fits.
LEMMA PlanFits ==
  ASSUME SchedTypeOK, NEW r \in Reqs, NEW q \in Requests,
         PlanOf(r, q.server, q.move, q.reduce, q.safe), q.start = req[r].start,
         q.old = (IF q.move # None THEN class[q.move].room
                  ELSE IF q.reduce # None THEN class[q.reduce].room ELSE None),
         ~q.reduced, q.pc \in {"spare", "room"}
  PROVE  Plans(q)
<1> USE LiveScheduleAssumption
<1>1. ASSUME NEW server \in Servers, NEW start, NEW without, Fits(server, start, without)
      PROVE  \A t \in Window(start) : 1 + Cardinality(On(server, t) \ {without}) <= Capacity[server]
  BY <1>1, LoadIsOn DEF Fits
<1>2. Capacity["malaysia"] = MalaysiaCapacity /\ Capacity["europe"] = EuropeCapacity
      /\ "malaysia" \in Servers /\ "europe" \in Servers
  BY DEF Capacity, Servers
<1>3. \A server, t : On(server, t) \ {None} = On(server, t) /\ On(server, t) \ {None, None} = On(server, t)
  BY DEF On
<1>4. CASE /\ q.server = "malaysia" /\ q.move = None /\ q.reduce = None /\ ~q.safe
           /\ Fits("malaysia", q.start, None)
  <2>1. \A t \in Window(q.start) : 1 + Cardinality(On("malaysia", t)) <= MalaysiaCapacity
    BY <1>1, <1>2, <1>3, <1>4
  <2> QED
    BY <1>4, <2>1 DEF Plans
<1>5. CASE /\ q.server = "europe" /\ q.move = None /\ q.reduce = None /\ ~q.safe
           /\ Fits("europe", q.start, None)
  <2>1. \A t \in Window(q.start) : 1 + Cardinality(On("europe", t) \ {None}) <= EuropeCapacity
    BY <1>1, <1>2, <1>5
  <2>2. Without(q) = {None}
    BY <1>5 DEF Without
  <2> QED
    BY <1>5, <2>1, <2>2 DEF Plans
<1>6. CASE /\ q.server = "europe" /\ q.move \in Movable(req[r].class, req[r].start)
           /\ q.reduce = None /\ ~q.safe
  <2>1. /\ q.move \in Classes /\ Fits("europe", q.start, q.move)
        /\ Fits("malaysia", class[q.move].start, q.move)
    BY <1>6 DEF Movable, Reducible, Candidates
  <2>2. \A t \in Window(q.start) : 1 + Cardinality(On("europe", t) \ {q.move}) <= EuropeCapacity
    BY <1>1, <1>2, <2>1
  <2>3. \A t \in Window(class[q.move].start) :
          1 + Cardinality(On("malaysia", t) \ {q.move}) <= MalaysiaCapacity
    BY <1>1, <1>2, <2>1
  <2>4. \A t : On("europe", t) \ Without(q) = On("europe", t) \ {q.move}
    BY <1>6 DEF Without, On
  <2> QED
    BY <1>6, <2>2, <2>3, <2>4 DEF Plans
<1>7. CASE /\ q.server = "europe" /\ q.move = None
           /\ q.reduce \in Reducible(req[r].class, req[r].start) /\ ~q.safe
  <2>1. q.reduce \in Classes /\ Fits("europe", q.start, q.reduce)
    BY <1>7 DEF Reducible, Candidates
  <2>2. \A t \in Window(q.start) : 1 + Cardinality(On("europe", t) \ {q.reduce}) <= EuropeCapacity
    BY <1>1, <1>2, <2>1
  <2>3. \A t : On("europe", t) \ Without(q) = On("europe", t) \ {q.reduce}
    BY <1>7 DEF Without, On
  <2>4. class[q.reduce].room = q.old
    BY <1>7, <2>1
  <2> QED
    BY <1>7, <2>2, <2>3, <2>4 DEF Plans
<1>8. CASE q.server = "europe" /\ q.move = None /\ q.reduce = None /\ q.safe
  BY <1>8 DEF Plans
<1> QED
  BY <1>4, <1>5, <1>6, <1>7, <1>8 DEF PlanOf

\* Every step under the lock keeps the load and the plans.
LEMMA CapStep ==
  ASSUME SchedTypeOK, SchedTypeOK', RowInv, ReqInv, HolderInv, LoadInv, PlanInv,
         [SchedNext]_schedVars, ~outside'
  PROVE  LoadInv' /\ PlanInv'
<1>0. /\ req \in [Reqs -> Requests] /\ class \in [Classes -> ClassRows] /\ room \in [Rooms -> RoomRows]
      /\ req' \in [Reqs -> Requests]
  BY DEF SchedTypeOK, Requests, ClassRows, RoomRows
<1>s. ASSUME NEW r \in Reqs PROVE Shape(req[r]) /\ Stands(req[r]) /\ req[r] \in Requests
  BY <1>0 DEF ReqInv
<1>i. Idle.pc \notin Opening /\ Idle \in Requests
  BY IdleRequest DEF Idle, Opening
<1>p. {"plan", "release", "undo", "undospare", "undonew", "write", "end", "mark",
       "endold"} \subseteq Pcs
  BY DEF Pcs
\* A request ends up outside the steps that a plan covers.
<1>m. ASSUME NEW r \in Reqs, NEW q, req' = [req EXCEPT ![r] = q], q.pc \notin Opening, Shrinks
      PROVE  LoadInv' /\ PlanInv'
  <2>1. q \in Requests
    BY <1>0, <1>m
  <2>2. PICK p \in Requests : p = q
    BY <2>1
  <2> QED
    BY <1>m, <2>2, CapMoves
<1>g. ASSUME NEW r \in Reqs, NEW pc \in Pcs, Go(r, pc), pc \notin Opening, Shrinks
      PROVE  LoadInv' /\ PlanInv'
  <2>0. req \in [Reqs -> Requests] /\ req[r] \in Requests
    BY <1>0
  <2>1. req' = [req EXCEPT ![r] = [req[r] EXCEPT !.pc = pc]] /\ [req[r] EXCEPT !.pc = pc].pc = pc
    BY <1>g, <2>0 DEF Go, Requests
  <2> DEFINE q == [req[r] EXCEPT !.pc = pc]
  <2>2. req' = [req EXCEPT ![r] = q] /\ q.pc \notin Opening
    BY <1>g, <2>1
  <2> HIDE DEF q
  <2> QED
    BY <1>g, <1>m, <2>2
<1>c. ASSUME UNCHANGED class, \A m \in Rooms : room[m].state # "none" /\ room[m].safe => room'[m].safe
      PROVE  Shrinks
  BY <1>c DEF Shrinks, Counted
<1>o. ASSUME NEW server \in Servers, NEW safe \in BOOLEAN, RoomLeft, room' = Opened(server, safe),
             UNCHANGED class
      PROVE  Shrinks
  <2>1. FreshRoom \in Rooms /\ room[FreshRoom].state = "none"
    BY <1>o, FreshRoomOpens
  <2>2. \A m \in Rooms \ {FreshRoom} : room'[m] = room[m]
    BY <1>o, RoomTypes
  <2> QED
    BY <1>c, <1>o, <2>1, <2>2
<1>1. ASSUME NEW r \in Reqs, NEW c \in Classes, NEW s \in Starts, NEW v \in Servers,
             CreateVersion5(r, c, s, v)
      PROVE  LoadInv' /\ PlanInv'
  <2>1. [Idle EXCEPT !.pc = "lock", !.class = c, !.start = s, !.asked = v].pc \notin Opening
    BY DEF Idle, Opening
  <2> QED
    BY <1>1, <1>c, <1>m, <2>1 DEF CreateVersion5
<1>2. ASSUME NEW r \in Reqs, AcquireV5SchedulingLock(r) PROVE LoadInv' /\ PlanInv'
  <2>1. Shrinks
    BY <1>2, <1>c DEF AcquireV5SchedulingLock
  <2>2. "plan" \notin Opening
    BY DEF Opening
  <2> QED
    BY <1>2, <1>g, <1>i, <1>m, <1>p, <2>1, <2>2 DEF AcquireV5SchedulingLock
<1>3. ASSUME NEW r \in Reqs, Plan(r) PROVE LoadInv' /\ PlanInv'
  <2>1. PICK server \in Servers, move \in Classes \cup {None}, reduce \in Classes \cup {None},
             safe \in BOOLEAN :
          /\ PlanOf(r, server, move, reduce, safe)
          /\ Planned(r, server, move, reduce, safe)
    BY <1>3, PlanCases, Zenon
  <2> DEFINE old == IF move # None THEN class[move].room
                    ELSE IF reduce # None THEN class[reduce].room ELSE None
             pc == IF move # None THEN "spare" ELSE "room"
  <2>2. PICK q \in Requests :
        /\ req' = [req EXCEPT ![r] = q]
        /\ q.pc = pc /\ q.start = req[r].start /\ q.move = move /\ q.server = server
        /\ q.reduce = reduce /\ q.old = old /\ q.safe = safe /\ q.reduced = req[r].reduced
    <3> DEFINE q == [req[r] EXCEPT !.server = server, !.safe = safe,
                                   !.move = move, !.reduce = reduce, !.old = old, !.pc = pc]
    <3>1. req' = [req EXCEPT ![r] = q]
      BY <1>0, <2>1 DEF Planned
    <3>2. old \in Rooms \cup {None} /\ pc \in Pcs
      BY <1>0, <2>1 DEF ClassRows, Pcs
    <3> HIDE DEF old, pc
    <3>3. /\ q \in Requests /\ q.pc = pc /\ q.start = req[r].start /\ q.server = server
          /\ q.move = move /\ q.reduce = reduce /\ q.old = old /\ q.safe = safe
          /\ q.reduced = req[r].reduced
      BY <1>s, <3>2 DEF Requests
    <3> HIDE DEF q
    <3> QED
      BY <3>1, <3>3
  <2>3. UNCHANGED <<class, room>> /\ req[r].pc = "plan" /\ Shrinks
    BY <1>3, <1>c DEF Plan, At
  <2>4. ~q.reduced /\ q.pc \in {"spare", "room"} /\ q.start = req[r].start /\ req' = [req EXCEPT ![r] = q]
    BY <1>s, <2>2, <2>3 DEF Shape
  <2>5. q.old = (IF q.move # None THEN class[q.move].room
                 ELSE IF q.reduce # None THEN class[q.reduce].room ELSE None)
    BY <2>2
  <2>6. PlanOf(r, q.server, q.move, q.reduce, q.safe)
    BY <2>1, <2>2
  <2>7. Plans(q)
    BY <2>4, <2>5, <2>6, PlanFits
  <2>8. Plans(q)'
    BY <2>3, <2>7 DEF Plans, On, Counted
  <2> QED
    BY <2>3, <2>4, <2>8, CapMoves
<1>4. ASSUME NEW r \in Reqs, CreateReplacementRoom(r) PROVE LoadInv' /\ PlanInv'
  <2>1. /\ FreshRoom \in Rooms /\ RoomLeft /\ req[r].pc = "spare"
        /\ room' = Opened("malaysia", FALSE) /\ UNCHANGED class
    BY <1>4, FreshRoomOpens DEF CreateReplacementRoom, At
  <2>2. Shrinks
    BY <1>o, <2>1 DEF Servers
  <2>3. PICK q \in Requests :
        /\ req' = [req EXCEPT ![r] = q] /\ q.pc = "room" /\ q.start = req[r].start
        /\ q.move = req[r].move /\ q.reduce = req[r].reduce /\ q.old = req[r].old
        /\ q.server = req[r].server /\ q.safe = req[r].safe /\ q.reduced = req[r].reduced
    <3> DEFINE q == [req[r] EXCEPT !.spare = FreshRoom, !.pc = "room"]
    <3>1. req' = [req EXCEPT ![r] = q]
      BY <1>0, <1>4 DEF CreateReplacementRoom
    <3> HIDE DEF FreshRoom
    <3>2. /\ q \in Requests /\ q.pc = "room" /\ q.start = req[r].start
        /\ q.move = req[r].move /\ q.reduce = req[r].reduce /\ q.old = req[r].old
        /\ q.server = req[r].server /\ q.safe = req[r].safe /\ q.reduced = req[r].reduced
      <4>1. req[r] \in Requests /\ "room" \in Pcs
        BY <1>s DEF Pcs
      <4> QED
        BY <2>1, <4>1 DEF Requests
    <3> HIDE DEF q
    <3> QED
      BY <3>1, <3>2
  <2>4. Plans(req[r])
    BY <2>1 DEF PlanInv, Opening
  <2>5. PICK p \in Requests : p = req[r]
    BY <1>s
  <2>6. Plans(p)'
    BY <1>s, <2>2, <2>4, <2>5, LoadShrinks
  <2>7. Plans(q)'
    BY <2>3, <2>5, <2>6 DEF Plans, Without
  <2> QED
    BY <2>2, <2>3, <2>7, CapMoves
<1>5. ASSUME NEW r \in Reqs, CreateMediaRoom(r) PROVE LoadInv' /\ PlanInv'
  <2>1. /\ FreshRoom \in Rooms /\ RoomLeft /\ req[r].pc = "room"
        /\ room' = Opened(req[r].server, req[r].safe) /\ UNCHANGED class
        /\ req[r].server \in Servers /\ req[r].safe \in BOOLEAN
    BY <1>5, <1>s, FreshRoomOpens DEF CreateMediaRoom, At, Requests
  <2>2. Shrinks /\ room'[FreshRoom].safe = req[r].safe
    BY <1>o, <2>1, RoomTypes
  <2>3. PICK q \in Requests :
        /\ req' = [req EXCEPT ![r] = q] /\ q.pc \in {"reduce", "commit"} /\ q.start = req[r].start
        /\ q.move = req[r].move /\ q.reduce = req[r].reduce /\ q.old = req[r].old
        /\ q.server = req[r].server /\ q.safe = req[r].safe /\ q.reduced = req[r].reduced
        /\ q.new = FreshRoom
    <3> DEFINE pc == IF req[r].reduce # None THEN "reduce" ELSE "commit"
               q == [req[r] EXCEPT !.new = FreshRoom, !.pc = pc]
    <3>1. req' = [req EXCEPT ![r] = q] /\ pc \in Pcs /\ pc \in {"reduce", "commit"}
      BY <1>0, <1>5 DEF CreateMediaRoom, Pcs
    <3> HIDE DEF FreshRoom, pc
    <3>2. /\ q \in Requests /\ q.pc = pc /\ q.start = req[r].start
        /\ q.move = req[r].move /\ q.reduce = req[r].reduce /\ q.old = req[r].old
        /\ q.server = req[r].server /\ q.safe = req[r].safe /\ q.reduced = req[r].reduced
        /\ q.new = FreshRoom
      <4>1. req[r] \in Requests
        BY <1>s
      <4> QED
        BY <2>1, <3>1, <4>1 DEF Requests
    <3> HIDE DEF q
    <3> QED
      BY <3>1, <3>2
  <2>4. Plans(req[r])
    BY <2>1 DEF PlanInv, Opening
  <2>5. PICK p \in Requests : p = req[r]
    BY <1>s
  <2>6. Plans(p)'
    BY <1>s, <2>2, <2>4, <2>5, LoadShrinks
  <2> HIDE DEF FreshRoom
  <2>7. Plans(q)'
    BY <2>2, <2>3, <2>5, <2>6 DEF Plans, Without
  <2> QED
    BY <2>2, <2>3, <2>7, CapMoves
<1>6. ASSUME NEW r \in Reqs, ReduceSettings(r) PROVE LoadInv' /\ PlanInv'
  <2> DEFINE yes == TRUE
  <2>1. /\ req[r].pc = "reduce" /\ UNCHANGED class /\ req[r].old \in Rooms
        /\ room' = [room EXCEPT ![req[r].old].safe = yes]
        /\ req' = [req EXCEPT ![r] = [req[r] EXCEPT !.reduced = yes, !.pc = "commit"]]
    BY <1>0, <1>6, <1>s DEF ReduceSettings, At, Shape, Opening, Requests
  <2>y. yes /\ yes \in BOOLEAN
    OBVIOUS
  <2> HIDE DEF yes
  <2>2. room'[req[r].old].safe /\ \A m \in Rooms : room[m].safe => room'[m].safe
    BY <1>0, <2>1, <2>y DEF RoomRows
  <2>3. Shrinks
    BY <1>c, <2>1, <2>2
  <2>4. PICK q \in Requests :
        /\ req' = [req EXCEPT ![r] = q] /\ q.pc = "commit" /\ q.start = req[r].start
        /\ q.move = req[r].move /\ q.reduce = req[r].reduce /\ q.old = req[r].old
        /\ q.server = req[r].server /\ q.safe = req[r].safe /\ q.new = req[r].new
    <3> DEFINE q == [req[r] EXCEPT !.reduced = yes, !.pc = "commit"]
    <3>1. req' = [req EXCEPT ![r] = q]
      BY <2>1
    <3>2. /\ q \in Requests /\ q.pc = "commit" /\ q.start = req[r].start
        /\ q.move = req[r].move /\ q.reduce = req[r].reduce /\ q.old = req[r].old
        /\ q.server = req[r].server /\ q.safe = req[r].safe /\ q.new = req[r].new
      <4>1. "commit" \in Pcs /\ req[r] \in Requests
        BY <1>s DEF Pcs
      <4> QED
        BY <2>y, <4>1 DEF Requests
    <3> HIDE DEF q
    <3> QED
      BY <3>1, <3>2
  <2>5. Plans(req[r])
    BY <2>1 DEF PlanInv, Opening
  <2>6. PICK p \in Requests : p = req[r]
    BY <1>s
  <2>7. Plans(p)'
    BY <1>s, <2>3, <2>5, <2>6, LoadShrinks
  <2>8. Plans(q)'
    BY <2>1, <2>2, <2>4, <2>6, <2>7 DEF Plans, Without
  <2> QED
    BY <2>3, <2>4, <2>8, CapMoves
<1>7. ASSUME NEW r \in Reqs, Recheck(r) PROVE LoadInv' /\ PlanInv'
  <2>1. Shrinks /\ req[r].pc = "commit"
    BY <1>7, <1>c DEF Recheck, At
  <2>2. CASE Go(r, "undo")
    BY <1>g, <1>p, <2>1, <2>2 DEF Opening
  <2>3. CASE Go(r, "write")
    <3>1. PICK q \in Requests :
          /\ req' = [req EXCEPT ![r] = q] /\ q.pc = "write" /\ q.start = req[r].start
          /\ q.move = req[r].move /\ q.reduce = req[r].reduce /\ q.old = req[r].old
          /\ q.server = req[r].server /\ q.safe = req[r].safe /\ q.new = req[r].new
          /\ q.reduced = req[r].reduced
      <4> DEFINE q == [req[r] EXCEPT !.pc = "write"]
      <4>1. /\ req' = [req EXCEPT ![r] = q] /\ q \in Requests /\ q.pc = "write" /\ q.start = req[r].start
          /\ q.move = req[r].move /\ q.reduce = req[r].reduce /\ q.old = req[r].old
          /\ q.server = req[r].server /\ q.safe = req[r].safe /\ q.new = req[r].new
          /\ q.reduced = req[r].reduced
        BY <1>0, <1>p, <2>3, GoesOn
      <4> HIDE DEF q
      <4> QED
        BY <4>1
    <3>2. Plans(req[r])
      BY <2>1 DEF PlanInv, Opening
    <3>3. PICK p \in Requests : p = req[r]
      BY <1>s
    <3>4. Plans(p)'
      BY <1>s, <2>1, <3>2, <3>3, LoadShrinks
    <3>5. Plans(q)'
      BY <2>1, <3>1, <3>3, <3>4 DEF Plans, Without
    <3> QED
      BY <2>1, <3>1, <3>5, CapMoves
  <2> QED
    BY <1>7, <2>2, <2>3 DEF Recheck
<1>8. ASSUME NEW r \in Reqs, Commit(r) \/ CommitUnheard(r) PROVE LoadInv' /\ PlanInv'
  <2>1. req[r].pc = "write" /\ Written(r) /\ UNCHANGED <<room, lock>>
    BY <1>8 DEF Commit, CommitUnheard, At
  <2>2. Plans(req[r])
    BY <2>1 DEF PlanInv, Opening
  <2>3. LoadInv'
    BY <2>1, <2>2, LoadWritten
  <2>4. \A s \in Reqs \ {r} : req[s].pc \notin Opening
    BY <2>1 DEF HolderInv, Holding, Opening
  <2>5. PICK pc \in Pcs \ Opening : Go(r, pc)
    <3>1. {"endold", "release", "undo"} \subseteq Pcs \ Opening
      BY DEF Pcs, Opening
    <3> QED
      BY <1>8, <3>1 DEF Commit, CommitUnheard
  <2>6. \A s \in Reqs : req'[s].pc \notin Opening
    <3>0. req \in [Reqs -> Requests] /\ req[r] \in Requests
      BY <1>0
    <3>1. req' = [req EXCEPT ![r] = [req[r] EXCEPT !.pc = pc]] /\ [req[r] EXCEPT !.pc = pc].pc = pc
      BY <2>5, <3>0 DEF Go, Requests
    <3> QED
      BY <1>0, <2>4, <2>5, <3>1
  <2> QED
    BY <2>3, <2>6 DEF PlanInv
<1>u. ASSUME NEW r \in Reqs, ReduceUnheard(r) PROVE LoadInv' /\ PlanInv'
  <2>1. req[r].old \in Rooms
    BY <1>u, <1>s DEF ReduceUnheard, At, Shape, Opening, Requests
  <2> DEFINE yes == TRUE
  <2>2. room' = [room EXCEPT ![req[r].old].safe = yes]
    BY <1>u DEF ReduceUnheard
  <2>y. yes
    OBVIOUS
  <2> HIDE DEF yes
  <2>3. \A m \in Rooms : room[m].safe => room'[m].safe
    BY <1>0, <2>1, <2>2, <2>y DEF RoomRows
  <2>4. Shrinks
    BY <1>c, <1>u, <2>3 DEF ReduceUnheard
  <2>5. Go(r, "undo") /\ "undo" \notin Opening
    BY <1>u DEF ReduceUnheard, Opening
  <2> QED
    BY <1>g, <1>p, <2>4, <2>5
<1>9. ASSUME NEW r \in Reqs, StepFails(r) \/ RoomUnheard(r) PROVE LoadInv' /\ PlanInv'
  <2>1. Shrinks
    <3>1. CASE StepFails(r)
      BY <1>c, <3>1 DEF StepFails
    <3>2. CASE RoomUnheard(r)
      <4>1. PICK server \in Servers, safe \in BOOLEAN : room' = Opened(server, safe)
        BY <3>2, <1>s, Zenon DEF RoomUnheard, Requests, Servers
      <4> QED
        BY <1>o, <3>2, <4>1 DEF RoomUnheard
    <3> QED
      BY <1>9, <3>1, <3>2
  <2>2. Go(r, "undo") /\ "undo" \notin Opening
    BY <1>9 DEF StepFails, RoomUnheard, Opening
  <2> QED
    BY <1>g, <1>p, <2>1, <2>2
<1>10. ASSUME NEW r \in Reqs, UndoSettings(r) PROVE LoadInv' /\ PlanInv'
  <2>1. UNCHANGED <<room, class>> /\ Go(r, "undospare") /\ "undospare" \notin Opening
    BY <1>10 DEF UndoSettings, Opening
  <2> QED
    BY <1>c, <1>g, <1>p, <2>1
<1>e. ASSUME NEW m \in Rooms, room' = Ended(m), UNCHANGED class PROVE Shrinks
  <2>1. \A n \in Rooms : room'[n].safe = room[n].safe
    BY <1>e, RoomTypes
  <2> QED
    BY <1>c, <1>e, <2>1
<1>11. ASSUME NEW r \in Reqs, EndReplacementRoom(r) \/ EndNewRoom(r) \/ EndOldRoom(r)
       PROVE  LoadInv' /\ PlanInv'
  <2>1. UNCHANGED class /\ (UNCHANGED room \/ \E m \in Rooms : room' = Ended(m))
    <3>1. req[r].spare \in Rooms \cup {None} /\ req[r].new \in Rooms \cup {None}
          /\ (req[r].pc = "endold" => req[r].old \in Rooms)
      BY <1>s DEF Requests, Shape
    <3> QED
      BY <1>11, <3>1 DEF EndReplacementRoom, EndNewRoom, EndOldRoom, At
  <2>2. Shrinks
    BY <1>c, <1>e, <2>1
  <2>3. \E pc \in Pcs \ Opening : Go(r, pc)
    <3>1. {"undonew", "release"} \subseteq Pcs \ Opening
      BY DEF Pcs, Opening
    <3> QED
      BY <1>11, <3>1 DEF EndReplacementRoom, EndNewRoom, EndOldRoom
  <2> QED
    BY <1>g, <2>2, <2>3
<1>12. ASSUME NEW r \in Reqs, UndoFails(r) PROVE LoadInv' /\ PlanInv'
  <2>1. Shrinks /\ \E pc \in Pcs \ Opening : Go(r, pc)
    BY <1>12, <1>c DEF UndoFails, NextUndo, Pcs, Opening
  <2> QED
    BY <1>g, <2>1
<1>13. ASSUME NEW r \in Reqs, ReleaseV5SchedulingLock(r) \/ Crash(r) PROVE LoadInv' /\ PlanInv'
  <2>1. Shrinks /\ req' = [req EXCEPT ![r] = Idle]
    BY <1>13, <1>c DEF ReleaseV5SchedulingLock, Crash
  <2> QED
    BY <1>i, <1>m, <2>1
<1>14. ASSUME NEW r \in Reqs, NEW c \in Classes, NEW s \in Starts, CreateOlder(r, c, s)
       PROVE  LoadInv' /\ PlanInv'
  <2>p. PICK server \in Servers :
          /\ room' = Opened(server, FALSE)
          /\ req' = [req EXCEPT ![r] = [Idle EXCEPT !.pc = "row", !.class = c, !.start = s,
                                                   !.server = server, !.new = FreshRoom]]
    BY <1>14, Zenon DEF CreateOlder
  <2> DEFINE q == [Idle EXCEPT !.pc = "row", !.class = c, !.start = s, !.server = server,
                               !.new = FreshRoom]
  <2>1. q.pc \notin Opening
    BY DEF Idle, Opening
  <2>2. req' = [req EXCEPT ![r] = q]
    BY <2>p
  <2>3. Shrinks
    BY <1>14, <1>o, <2>p DEF CreateOlder
  <2> HIDE DEF q
  <2> QED
    BY <1>m, <2>1, <2>2, <2>3
<1>15. ASSUME NEW r \in Reqs, NEW c \in Classes, DeleteRoomRead(r, c) PROVE LoadInv' /\ PlanInv'
  <2> DEFINE q == [Idle EXCEPT !.pc = "close", !.old = class[c].room, !.move = c]
  <2>1. q.pc \notin Opening
    BY DEF Idle, Opening
  <2>2. req' = [req EXCEPT ![r] = q] /\ Shrinks
    BY <1>15, <1>c DEF DeleteRoomRead
  <2> HIDE DEF q
  <2> QED
    BY <1>m, <2>1, <2>2
<1>16. ASSUME NEW r \in Reqs, DeleteRoomClose(r) PROVE LoadInv' /\ PlanInv'
  <2>1. req[r].old \in Rooms
    BY <1>16, <1>s DEF DeleteRoomClose, At, Shape, Deleting
  <2>2. Shrinks
    BY <1>0, <1>16, <1>c, <2>1 DEF DeleteRoomClose, RoomRows
  <2> QED
    BY <1>16, <1>g, <1>p, <2>2 DEF DeleteRoomClose, Opening
<1>d. ASSUME NEW r \in Reqs, DeleteRoomUnknown(r) PROVE LoadInv' /\ PlanInv'
  <2>1. req[r].move \in Classes
    BY <1>d, <1>s DEF DeleteRoomUnknown, At, Shape, Deleting
  <2>2. /\ class' = [class EXCEPT ![req[r].move].status = "recorded"] /\ UNCHANGED room
        /\ Go(r, "end") /\ "end" \notin Opening
    BY <1>d DEF DeleteRoomUnknown, Opening
  <2>3. Shrinks
    BY <1>0, <2>1, <2>2 DEF Shrinks, Counted, ClassRows
  <2> QED
    BY <1>g, <1>p, <2>2, <2>3
<1>17. ASSUME NEW r \in Reqs, DeleteRoomMark(r) PROVE LoadInv' /\ PlanInv'
  <2>1. req[r].move \in Classes
    BY <1>17, <1>s DEF DeleteRoomMark, At, Shape, Deleting
  <2>2. /\ class' = [class EXCEPT ![req[r].move].status = "recorded"] /\ UNCHANGED room
        /\ req' = [req EXCEPT ![r] = Idle]
    BY <1>17 DEF DeleteRoomMark
  <2>3. Shrinks
    BY <1>0, <2>1, <2>2 DEF Shrinks, Counted, ClassRows
  <2> QED
    BY <1>i, <1>m, <2>2, <2>3
<1>18. ASSUME NEW r \in Reqs, InsertRow(r) PROVE LoadInv' /\ PlanInv'
  BY <1>18 DEF InsertRow
<1>19. ASSUME NEW m \in Rooms, Hook(m) PROVE Shrinks /\ UNCHANGED req
  <2>1. RowOf(m) \subseteq Classes
    BY DEF RowOf
  <2>2. CASE RoomCreatedHook(m)
    <3>1. PICK c \in Classes : /\ class' = [class EXCEPT ![c].status = "scheduled"]
                               /\ ~Placed(c, "scheduled", class[c].start)
      BY <2>1, <2>2 DEF RoomCreatedHook
    <3>2. Counted(c)
      BY <3>1 DEF Placed
    <3>3. UNCHANGED <<room, req>>
      BY <2>2 DEF RoomCreatedHook
    <3> QED
      BY <1>0, <3>1, <3>2, <3>3 DEF Shrinks, Counted, ClassRows
  <2>3. CASE RoomLiveHook(m)
    <3>1. PICK c \in Classes, now \in Starts :
            /\ class' = [class EXCEPT ![c].status = "live", ![c].start = now]
            /\ ~Placed(c, "live", now)
      BY <2>1, <2>3 DEF RoomLiveHook
    <3>2. Counted(c) /\ now = class[c].start
      BY <3>1 DEF Placed
    <3>3. UNCHANGED <<room, req>>
      BY <2>3 DEF RoomLiveHook
    <3> QED
      BY <1>0, <3>1, <3>2, <3>3 DEF Shrinks, Counted, ClassRows
  <2>4. CASE RoomClosedHook(m)
    <3>1. \A c \in Classes : class'[c] = class[c] \/ class'[c] = [class[c] EXCEPT !.status = "processing"]
      BY <2>4 DEF RoomClosedHook
    <3>2. UNCHANGED req /\ \A n \in Rooms : room'[n].safe = room[n].safe
      BY <1>0, <2>4 DEF RoomClosedHook, RoomRows
    <3> QED
      <4>1. \A c \in Classes : class[c] \in ClassRows
        BY <1>0
      <4>2. \A c \in Classes :
              /\ class'[c].room = class[c].room /\ class'[c].server = class[c].server
              /\ class'[c].start = class[c].start /\ class'[c].deleted = class[c].deleted
              /\ class'[c].status \in {class[c].status, "processing"}
        BY <3>1, <4>1 DEF ClassRows
      <4> QED
        BY <3>2, <4>2 DEF Shrinks, Counted
  <2> QED
    BY <1>19, <2>2, <2>3, <2>4 DEF Hook
<1>20. ASSUME NEW c \in Classes, DeleteLiveClass(c) \/ \E s \in Starts : UpdateLiveClass(c, s)
       PROVE  Shrinks /\ UNCHANGED req
  <2>1. CASE DeleteLiveClass(c)
    <3> DEFINE yes == TRUE
    <3>1. class' = [class EXCEPT ![c].deleted = yes] /\ UNCHANGED <<room, req>>
      BY <2>1 DEF DeleteLiveClass
    <3>2. yes
      OBVIOUS
    <3> HIDE DEF yes
    <3> QED
      BY <1>0, <3>1, <3>2 DEF Shrinks, Counted, ClassRows
  <2>2. ASSUME NEW s \in Starts, UpdateLiveClass(c, s) PROVE Shrinks /\ UNCHANGED req
    <3>1. /\ class' = [class EXCEPT ![c].start = s] /\ UNCHANGED <<room, req>>
          /\ ~Placed(c, class[c].status, s)
      BY <2>2 DEF UpdateLiveClass
    <3>2. Counted(c) => s = class[c].start
      BY <3>1 DEF Placed, Counted
    <3> QED
      BY <1>0, <3>1, <3>2 DEF Shrinks, Counted, ClassRows
  <2> QED
    BY <1>20, <2>1, <2>2
<1>21. LockExpires \/ UNCHANGED schedVars => Shrinks /\ UNCHANGED req
  BY <1>c DEF LockExpires, schedVars
<1> QED
  BY <1>1, <1>2, <1>3, <1>4, <1>5, <1>6, <1>7, <1>8, <1>9, <1>10, <1>11, <1>12, <1>13, <1>14, <1>15, <1>16,
     <1>17, <1>d, <1>u, <1>18, <1>19, <1>20, <1>21, CapStays
  DEF SchedNext, Version5, Failure, Elsewhere

\* Once a step has gone round the lock, it has.
LEMMA OutsideStays == ASSUME [SchedNext]_schedVars PROVE outside => outside'
<1>1. ASSUME NEW r \in Reqs,
             \/ AcquireV5SchedulingLock(r) \/ Plan(r) \/ CreateReplacementRoom(r)
             \/ CreateMediaRoom(r) \/ ReduceSettings(r) \/ Recheck(r) \/ Commit(r) \/ UndoSettings(r)
             \/ EndReplacementRoom(r) \/ EndNewRoom(r) \/ EndOldRoom(r)
             \/ ReleaseV5SchedulingLock(r) \/ Failure(r) \/ InsertRow(r) \/ DeleteRoomClose(r)
             \/ DeleteRoomMark(r) \/ DeleteRoomUnknown(r)
      PROVE  outside => outside'
  BY <1>1, Zenon DEF AcquireV5SchedulingLock, Plan, CreateReplacementRoom, CreateMediaRoom,
    ReduceSettings, Recheck, Commit, UndoSettings, EndReplacementRoom, EndNewRoom, EndOldRoom,
    ReleaseV5SchedulingLock, Failure, CommitUnheard, StepFails, RoomUnheard, ReduceUnheard,
    UndoFails, Crash, InsertRow, DeleteRoomClose, DeleteRoomMark, DeleteRoomUnknown
<1>2. ASSUME NEW r \in Reqs, NEW c \in Classes, NEW s \in Starts, NEW v \in Servers,
             CreateVersion5(r, c, s, v) \/ CreateOlder(r, c, s) \/ DeleteRoomRead(r, c)
      PROVE  outside => outside'
  BY <1>2, Zenon DEF CreateVersion5, CreateOlder, DeleteRoomRead
<1>3. ASSUME NEW m \in Rooms, Hook(m) PROVE outside => outside'
  BY <1>3, Zenon DEF Hook, RoomCreatedHook, RoomLiveHook, RoomClosedHook
<1>4. ASSUME NEW c \in Classes, DeleteLiveClass(c) \/ \E s \in Starts : UpdateLiveClass(c, s)
      PROVE  outside => outside'
  BY <1>4, Zenon DEF DeleteLiveClass, UpdateLiveClass
<1>5. LockExpires => (outside => outside')
  BY Zenon DEF LockExpires
<1>6. ASSUME NEW r \in Reqs, NEW c \in Classes, DeleteRoomRead(r, c) PROVE outside => outside'
  BY <1>6, Zenon DEF DeleteRoomRead
<1>7. ASSUME NEW r \in Reqs, NEW c \in Classes, NEW s \in Starts, CreateOlder(r, c, s)
      PROVE  outside => outside'
  BY <1>7, Zenon DEF CreateOlder
<1> QED
  BY <1>1, <1>2, <1>3, <1>4, <1>5, <1>6, <1>7 DEF SchedNext, Version5, Elsewhere, schedVars

\* No class is on a server before the first request.
LEMMA CapacityStart == SchedInit => CapacityInv
<1> SUFFICES ASSUME SchedInit PROVE CapacityInv
  OBVIOUS
<1>1. \A t : On("malaysia", t) = {} /\ Bright(t) = {}
  BY DEF SchedInit, On, Bright, Counted, NoRow
<1>2. LoadInv
  BY <1>1, FS_EmptySet, LiveScheduleAssumption DEF LoadInv
<1>3. HolderInv /\ PlanInv
  BY DEF SchedInit, HolderInv, PlanInv, Idle, Holding, Opening, Undoing
<1> QED
  BY <1>2, <1>3 DEF CapacityInv

\* The property speaks of the loads that Load reads, and counts Europe's dim classes
\* on top of its capacity.
LEMMA CapacityFollows ==
  ASSUME SchedTypeOK, LoadInv
  PROVE  \A t \in UNION {Window(s) : s \in Starts} :
      /\ Load("malaysia", t, None) <= MalaysiaCapacity
      /\ Load("europe", t, None) <=
           EuropeCapacity + Cardinality({c \in Classes : /\ Counted(c)
                                                         /\ class[c].server = "europe"
                                                         /\ Covers(class[c].start, t)
                                                         /\ room[class[c].room].safe})
<1> SUFFICES ASSUME NEW t \in UNION {Window(s) : s \in Starts}
             PROVE  /\ Load("malaysia", t, None) <= MalaysiaCapacity
                    /\ Load("europe", t, None) <=
                         EuropeCapacity +
                           Cardinality({c \in Classes : /\ Counted(c)
                                                         /\ class[c].server = "europe"
                                                         /\ Covers(class[c].start, t)
                                                         /\ room[class[c].room].safe})
  OBVIOUS
<1>1. t \in Int
  BY LiveScheduleAssumption DEF Window
<1>2. \A server : Load(server, t, None) = Cardinality(On(server, t))
  <2>1. \A server : On(server, t) \ {None} = On(server, t)
    BY LiveScheduleAssumption DEF On
  <2> QED
    BY <2>1, LoadIsOn
<1> DEFINE Safe == {c \in Classes : /\ Counted(c) /\ class[c].server = "europe"
                                   /\ Covers(class[c].start, t) /\ room[class[c].room].safe}
<1>3. On("europe", t) = Bright(t) \cup Safe
  BY DEF On, Bright
<1>4. Safe \in SUBSET Classes /\ Bright(t) \in SUBSET Classes /\ On("europe", t) \in SUBSET Classes
  BY DEF On, Bright
<1>5. /\ Cardinality(On("malaysia", t)) <= MalaysiaCapacity
      /\ Cardinality(Bright(t)) <= EuropeCapacity
  BY <1>1 DEF LoadInv
<1> HIDE DEF Safe
<1>6. Cardinality(On("europe", t)) <= Cardinality(Bright(t)) + Cardinality(Safe)
      /\ Cardinality(On("europe", t)) \in Nat /\ Cardinality(Bright(t)) \in Nat /\ Cardinality(Safe) \in Nat
  BY <1>3, <1>4, SetsOfClasses
<1>7. Cardinality(On("europe", t)) <= EuropeCapacity + Cardinality(Safe)
  BY <1>5, <1>6, LiveScheduleAssumption
<1> QED
  BY <1>2, <1>5, <1>7 DEF Safe

\* Whatever requests schedule, move and reduce classes, Malaysia never carries more
\* classes at a time than its capacity, and Europe at most one more for each class shown at
\* low quality, as long as all classes were placed under a lock that lasted: the plan made
\* under the lock (acquireV5SchedulingLock) still fits when its rows are committed.
THEOREM CapacityHolds == SchedSpec => []CapacityRespected
<1>1. SchedInv /\ SchedInv' /\ CapacityInv /\ [SchedNext]_schedVars => CapacityInv'
  BY OutsideStays, HolderStep, CapStep DEF SchedInv, CapacityInv
<1>2. SchedInv /\ CapacityInv => CapacityRespected
  BY CapacityFollows DEF SchedInv, CapacityInv, CapacityRespected
<1> QED
  BY CapacityStart, <1>1, <1>2, SchedInvHolds, PTL DEF SchedSpec

=============================================================================
