---------------------------- MODULE WatchPresence ----------------------------
(***************************************************************************)
(* Who watches one class, and the number shown to them (socket/realtime/   *)
(* watch).  Pings of viewers are buffered per process and flushed to a     *)
(* sorted set in Redis; leaving removes from it at once.  A change marks   *)
(* the room dirty in the process that saw it; each process takes its marks *)
(* once a second, and the one that gets the room's lock counts and, if the *)
(* number has changed enough, emits it to the room.                        *)
(***************************************************************************)
EXTENDS Integers, FiniteSets

CONSTANTS
  Nodes, Sockets, Viewers,
  ExactLimit,      \* EXACT_TRACK_LIMIT
  ChangeMinDelta,  \* CHANGE_MIN_DELTA
  ChangePercent,   \* CHANGE_RATIO, in percent
  Nobody,
  MaxDeaths,       \* bound on processes that die and calls of Redis that fail
  MaxJoins         \* bound on joins

ASSUME WatchAssumption ==
  /\ Nobody \notin Nodes \cup Viewers /\ ExactLimit \in Nat /\ IsFiniteSet(Viewers)
  /\ ChangeMinDelta \in Nat \ {0} /\ ChangePercent \in Nat

VARIABLES
  watch,     \* socket.data.watch, the room membership, with process and viewer
  joining,   \* join after markActive: its step and the count it read
  leaving,   \* leave or disconnect before its ZREM: viewer and process
  buffer,    \* pending of presenceBuffer.js, per process
  active,    \* the sorted set, members younger than the window
  recent,    \* viewers in the HyperLogLog buckets of the window
  dirty,     \* the process has marked the room
  tick,      \* processRoom per process: its step and the count it read
  leader,    \* lock:watch:online: held, for MIN_INTERVAL_MS
  last,      \* the count of the last broadcast, -1 when its key has expired
  shown,     \* the number a viewer's page shows, -1 before any and after he left
  joins, deaths,
  \* history
  missed,    \* a change, since the last right broadcast, that nobody will be told of
  greeted    \* sockets shown the count of their own join since the last broadcast

watchVars == <<watch, joining, leaving, buffer, active, recent, dirty, tick,
               leader, last, shown, joins, deaths, missed, greeted>>

Out == [proc |-> Nobody, viewer |-> Nobody]
Resting == [pc |-> "idle", count |-> 0]

WatchInit ==
  /\ watch = [s \in Sockets |-> Out]
  /\ joining = [s \in Sockets |-> Resting]
  /\ leaving = [s \in Sockets |-> Out]
  /\ buffer = [p \in Nodes |-> {}]
  /\ active = {} /\ recent = {}
  /\ dirty = [p \in Nodes |-> FALSE]
  /\ tick = [p \in Nodes |-> Resting]
  /\ leader = FALSE /\ last = -1
  /\ shown = [s \in Sockets |-> -1]
  /\ joins = 0 /\ deaths = 0
  /\ missed = FALSE /\ greeted = {}

-----------------------------------------------------------------------------
(* ONLINE_COUNT_LUA: exact for a small room with somebody in it; else what   *)
(* the buckets of the window say.                                            *)
CountOf(set, hll) ==
  LET size == Cardinality(set) approx == Cardinality(hll)
  IN  IF size > 0 /\ size < ExactLimit THEN size
      ELSE IF approx < size THEN size ELSE approx

Count == CountOf(active, recent)

\* Somebody will still count the room: a mark, a tick before its count, or a join
\* or leave that will mark.
CountPending ==
  \/ \E p \in Nodes : dirty[p] \/ tick[p].pc = "count"
  \/ \E s \in Sockets : joining[s].pc # "idle" \/ leaving[s] # Out

\* A change of the numbers that comes with no mark is missed unless one is pending.
Unannounced == missed' = (missed \/ (CountOf(active', recent') # Count /\ ~CountPending))

\* shouldEmit's minDelta, and whether a number is too close to n to be replaced.
MinDelta(n) ==
  LET share == (n * ChangePercent) \div 100
  IN  IF share > ChangeMinDelta THEN share ELSE ChangeMinDelta
Near(a, n) == a # -1 /\ a - n < MinDelta(n) /\ n - a < MinDelta(n)

Watching(s) == watch[s] # Out
SocketsOf(v) == {s \in Sockets : watch[s].viewer = v}

\* join up to its first await.  The buffer holds viewers, so two tabs are one.
Join(s, p, v) ==
  /\ ~Watching(s) /\ joining[s] = Resting /\ leaving[s] = Out /\ joins < MaxJoins
  /\ watch' = [watch EXCEPT ![s] = [proc |-> p, viewer |-> v]]
  /\ buffer' = [buffer EXCEPT ![p] = @ \cup {v}]
  /\ joining' = [joining EXCEPT ![s].pc = "count"]
  /\ joins' = joins + 1
  /\ UNCHANGED <<leaving, active, recent, dirty, tick, leader, last, shown, deaths,
                 missed, greeted>>

\* sendOnlineToSocket counts, ...
JoinCount(s) ==
  /\ joining[s].pc = "count"
  /\ joining' = [joining EXCEPT ![s] = [pc |-> "greet", count |-> Count]]
  /\ UNCHANGED <<watch, leaving, buffer, active, recent, dirty, tick, leader, last,
                 shown, joins, deaths, missed, greeted>>

\* ... emits, and join marks the room, also for a socket that is gone by now.
JoinGreet(s, p) ==
  /\ joining[s].pc = "greet"
  /\ IF Watching(s) THEN p = watch[s].proc ELSE TRUE
  /\ IF Watching(s)
     THEN /\ shown' = [shown EXCEPT ![s] = joining[s].count]
          /\ greeted' = greeted \cup {s}
     ELSE UNCHANGED <<shown, greeted>>
  /\ dirty' = [dirty EXCEPT ![p] = TRUE]
  /\ joining' = [joining EXCEPT ![s] = Resting]
  /\ UNCHANGED <<watch, leaving, buffer, active, recent, tick, leader, last, joins,
                 deaths, missed>>

\* updateMeta or the count fails: no number for this page and no mark.
JoinFails(s) ==
  /\ joining[s].pc = "count" /\ deaths < MaxDeaths /\ deaths' = deaths + 1
  /\ joining' = [joining EXCEPT ![s] = Resting]
  /\ missed' = TRUE
  /\ UNCHANGED <<watch, leaving, buffer, active, recent, dirty, tick, leader, last,
                 shown, joins, greeted>>

\* A ping of any of the viewer's sockets on this process, in the room or not.
Heartbeat(p, v) ==
  /\ buffer' = [buffer EXCEPT ![p] = @ \cup {v}]
  /\ UNCHANGED <<watch, joining, leaving, active, recent, dirty, tick, leader, last,
                 shown, joins, deaths, missed, greeted>>

\* leave and disconnect: out of the room at once, ...
Leave(s) ==
  /\ Watching(s) /\ leaving[s] = Out
  /\ leaving' = [leaving EXCEPT ![s] = watch[s]]
  /\ watch' = [watch EXCEPT ![s] = Out]
  /\ shown' = [shown EXCEPT ![s] = -1]
  /\ greeted' = greeted \ {s}
  /\ UNCHANGED <<joining, buffer, active, recent, dirty, tick, leader, last, joins,
                 deaths, missed>>

\* Mutant: a viewer who leaves does not mark the room.
RemoveActive_Unmarked(s) ==
  /\ leaving[s] # Out
  /\ active' = active \ {leaving[s].viewer}
  /\ leaving' = [leaving EXCEPT ![s] = Out]
  /\ UNCHANGED <<watch, joining, buffer, recent, dirty, tick, leader, last, shown,
                 joins, deaths, missed, greeted>>

\* ... then ZREM and the mark.  A ping in a buffer stays there.
RemoveActive(s) ==
  /\ leaving[s] # Out
  /\ active' = active \ {leaving[s].viewer}
  /\ dirty' = [dirty EXCEPT ![leaving[s].proc] = TRUE]
  /\ leaving' = [leaving EXCEPT ![s] = Out]
  /\ UNCHANGED <<watch, joining, buffer, recent, tick, leader, last, shown, joins,
                 deaths, missed, greeted>>

\* ZREM fails, before it took effect or after: no mark.
RemoveFails(s) ==
  /\ leaving[s] # Out /\ deaths < MaxDeaths /\ deaths' = deaths + 1
  /\ active' \in {active, active \ {leaving[s].viewer}}
  /\ leaving' = [leaving EXCEPT ![s] = Out]
  /\ missed' = TRUE
  /\ UNCHANGED <<watch, joining, buffer, recent, dirty, tick, leader, last, shown, joins,
                 greeted>>

\* Mutant: the buffer is not cleared, and every flush marks its viewers again.
Kept_Always(p) == buffer

\* flush clears the buffer before it writes.
Kept(p) == [buffer EXCEPT ![p] = {}]

\* MARK_ACTIVE_LUA: a full room takes nobody into the set.
Flush(p) ==
  /\ buffer[p] # {}
  /\ recent' = recent \cup buffer[p]
  /\ active' = IF Cardinality(active) < ExactLimit THEN active \cup buffer[p] ELSE active
  /\ buffer' = Kept(p)
  /\ Unannounced
  /\ UNCHANGED <<watch, joining, leaving, dirty, tick, leader, last, shown, joins,
                 deaths, greeted>>

\* The pipeline fails after the buffer was cleared.
FlushLost(p) ==
  /\ buffer[p] # {} /\ deaths < MaxDeaths /\ deaths' = deaths + 1
  /\ buffer' = [buffer EXCEPT ![p] = {}]
  /\ UNCHANGED <<watch, joining, leaving, active, recent, dirty, tick, leader, last,
                 shown, joins, missed, greeted>>

\* Viewers who stopped pinging fall out of the window, and out of the buckets.
Ages(v) ==
  /\ SocketsOf(v) = {} /\ \A p \in Nodes : v \notin buffer[p]
  /\ v \in active \cup recent
  /\ \/ v \in active /\ active' = active \ {v} /\ UNCHANGED recent
     \/ v \notin active /\ recent' = recent \ {v} /\ UNCHANGED active
  /\ Unannounced
  /\ UNCHANGED <<watch, joining, leaving, buffer, dirty, tick, leader, last, shown,
                 joins, deaths, greeted>>

-----------------------------------------------------------------------------
(* The broadcaster.                                                          *)

\* The mark is taken, then SET NX: nobody releases that lock, and the mark of a
\* process that does not get it, even from itself, is gone.
TakeMark(p) ==
  /\ tick[p] = Resting /\ dirty[p]
  /\ dirty' = [dirty EXCEPT ![p] = FALSE]
  /\ leader' = TRUE
  /\ tick' = [tick EXCEPT ![p].pc = IF leader THEN "idle" ELSE "count"]
  /\ missed' = (missed \/ leader)
  /\ UNCHANGED <<watch, joining, leaving, buffer, active, recent, last, shown, joins,
                 deaths, greeted>>

\* SET NX fails, before it took effect or after: the mark is gone.
TakeMarkFails(p) ==
  /\ tick[p] = Resting /\ dirty[p] /\ deaths < MaxDeaths /\ deaths' = deaths + 1
  /\ dirty' = [dirty EXCEPT ![p] = FALSE]
  /\ leader' \in {leader, TRUE}
  /\ missed' = TRUE
  /\ UNCHANGED <<watch, joining, leaving, buffer, active, recent, tick, last, shown,
                 joins, greeted>>

CountOnline(p) ==
  /\ tick[p].pc = "count"
  /\ tick' = [tick EXCEPT ![p] = [pc |-> "decide", count |-> Count]]
  /\ UNCHANGED <<watch, joining, leaving, buffer, active, recent, dirty, leader, last,
                 shown, joins, deaths, missed, greeted>>

\* Mutant: the last number is written before it is compared, so that small changes
\* add up unseen.
ShouldEmit_SetFirst(p) ==
  LET n == tick[p].count IN
  /\ tick[p].pc = "decide"
  /\ last' = n
  /\ IF Near(last, n)
     THEN /\ tick' = [tick EXCEPT ![p] = Resting]
          /\ missed' = (\/ missed \/ n # Count
                        \/ \E s \in greeted : Watching(s) /\ ~Near(shown[s], n))
     ELSE tick' = [tick EXCEPT ![p].pc = "emit"] /\ UNCHANGED missed
  /\ UNCHANGED <<watch, joining, leaving, buffer, active, recent, dirty, leader, shown,
                 joins, deaths, greeted>>

\* SHOULD_EMIT_LUA: not when the number is close to the last one, which then stays as
\* it was.  A page that shows the count of its own join may be further off.
ShouldEmit(p) ==
  LET n == tick[p].count IN
  /\ tick[p].pc = "decide"
  /\ IF Near(last, n)
     THEN /\ tick' = [tick EXCEPT ![p] = Resting]
          /\ missed' = (\/ missed \/ n # Count
                        \/ \E s \in greeted : Watching(s) /\ ~Near(shown[s], n))
          /\ UNCHANGED last
     ELSE /\ tick' = [tick EXCEPT ![p].pc = "emit"]
          /\ last' = n
          /\ UNCHANGED missed
  /\ UNCHANGED <<watch, joining, leaving, buffer, active, recent, dirty, leader, shown,
                 joins, deaths, greeted>>

\* The count fails, or the script does, before it took effect or after.
TickFails(p) ==
  /\ tick[p].pc \in {"count", "decide"} /\ deaths < MaxDeaths /\ deaths' = deaths + 1
  /\ \/ UNCHANGED last
     \/ tick[p].pc = "decide" /\ ~Near(last, tick[p].count) /\ last' = tick[p].count
  /\ tick' = [tick EXCEPT ![p] = Resting]
  /\ missed' = TRUE
  /\ UNCHANGED <<watch, joining, leaving, buffer, active, recent, dirty, leader, shown,
                 joins, greeted>>

\* To every socket in the room.  Behind a faster process it brings an old number; the
\* right one makes up for what was missed.
Emit(p) ==
  /\ tick[p].pc = "emit"
  /\ shown' = [s \in Sockets |-> IF Watching(s) THEN tick[p].count ELSE -1]
  /\ missed' = (tick[p].count # Count \/ last \notin {-1, tick[p].count})
  /\ greeted' = {}
  /\ tick' = [tick EXCEPT ![p] = Resting]
  /\ UNCHANGED <<watch, joining, leaving, buffer, active, recent, dirty, leader, last,
                 joins, deaths>>

LeaderExpires ==
  /\ leader /\ leader' = FALSE
  /\ UNCHANGED <<watch, joining, leaving, buffer, active, recent, dirty, tick, last,
                 shown, joins, deaths, missed, greeted>>

LastExpires ==
  /\ last # -1 /\ last' = -1
  /\ UNCHANGED <<watch, joining, leaving, buffer, active, recent, dirty, tick, leader,
                 shown, joins, deaths, missed, greeted>>

\* A process dies with its sockets, buffer and marks.
NodeDies(p) ==
  /\ deaths < MaxDeaths /\ deaths' = deaths + 1
  /\ watch' = [s \in Sockets |-> IF watch[s].proc = p THEN Out ELSE watch[s]]
  /\ leaving' = [s \in Sockets |-> IF leaving[s].proc = p THEN Out ELSE leaving[s]]
  /\ joining' = [s \in Sockets |-> IF watch[s].proc = p THEN Resting ELSE joining[s]]
  /\ buffer' = [buffer EXCEPT ![p] = {}]
  /\ dirty' = [dirty EXCEPT ![p] = FALSE]
  /\ tick' = [tick EXCEPT ![p] = Resting]
  /\ shown' = [s \in Sockets |-> IF watch[s].proc = p THEN -1 ELSE shown[s]]
  /\ greeted' = {s \in greeted : watch[s].proc # p}
  /\ missed' = TRUE
  /\ UNCHANGED <<active, recent, leader, last, joins>>

-----------------------------------------------------------------------------
Broadcast(p) ==
  TakeMark(p) \/ CountOnline(p) \/ ShouldEmit(p) \/ Emit(p)

Handle(s) == JoinCount(s) \/ RemoveActive(s) \/ \E p \in Nodes : JoinGreet(s, p)

Pinged == \E p \in Nodes, v \in Viewers : Heartbeat(p, v)

Worked ==
  \/ \E s \in Sockets : \/ \E p \in Nodes, v \in Viewers : Join(s, p, v)
                        \/ Handle(s) \/ Leave(s) \/ JoinFails(s) \/ RemoveFails(s)
  \/ \E p \in Nodes : \/ Flush(p) \/ FlushLost(p) \/ Broadcast(p) \/ NodeDies(p)
                      \/ TakeMarkFails(p) \/ TickFails(p)
  \/ \E v \in Viewers : Ages(v)
  \/ LeaderExpires \/ LastExpires

WatchNext == Pinged \/ Worked

WatchSpec == WatchInit /\ [][WatchNext]_watchVars

WatchFairness ==
  /\ \A s \in Sockets : WF_watchVars(Handle(s))
  /\ \A p \in Nodes : WF_watchVars(Flush(p)) /\ WF_watchVars(Broadcast(p))
  /\ \A v \in Viewers : WF_watchVars(Ages(v))

-----------------------------------------------------------------------------
Numbers == -1 .. Cardinality(Viewers)

WatchTypeOK ==
  /\ watch \in [Sockets -> [proc : Nodes \cup {Nobody}, viewer : Viewers \cup {Nobody}]]
  /\ joining \in [Sockets -> [pc : {"idle", "count", "greet"}, count : Numbers]]
  /\ leaving \in [Sockets -> [proc : Nodes \cup {Nobody}, viewer : Viewers \cup {Nobody}]]
  /\ buffer \in [Nodes -> SUBSET Viewers]
  /\ active \subseteq Viewers /\ recent \subseteq Viewers
  /\ dirty \in [Nodes -> BOOLEAN]
  /\ tick \in [Nodes -> [pc : {"idle", "count", "decide", "emit"}, count : Numbers]]
  /\ leader \in BOOLEAN /\ last \in Numbers
  /\ shown \in [Sockets -> Numbers]
  /\ missed \in BOOLEAN /\ greeted \subseteq Sockets

\* Once nothing is under way, what a viewer's page shows is closer to the number of
\* viewers than the change that is worth a broadcast: small changes never add up.
\* Except for a change that came without a mark, whose mark was dropped, whose call
\* failed or that was overtaken, and for a page left with the count of its own join.
Quiet == /\ ~CountPending
         /\ \A p \in Nodes : tick[p] = Resting
ShownExplained ==
  Quiet => \A s \in Sockets : Watching(s) => Near(shown[s], Count) \/ missed

\* A viewer who is gone for good and pings no more is in the end no longer counted,
\* though a ping in a buffer may bring him back after he left, the call that takes him
\* out may fail, and a process may die with his sockets.
DepartedVanish ==
  \A v \in Viewers :
    /\ <>[](SocketsOf(v) = {})
    /\ <>[][\A p \in Nodes : ~Heartbeat(p, v)]_watchVars
    => <>[](v \notin active)

=============================================================================
