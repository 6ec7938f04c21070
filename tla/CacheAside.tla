----------------------------- MODULE CacheAside -----------------------------
(***************************************************************************)
(* getOrLoadCache (lib/redis/cache) for one key: processes that share a    *)
(* Redis entry, a Redis lock that lets one of them fill it, and in each    *)
(* process one running fill that all its callers join (single flight).  A  *)
(* stale entry is served while a second kind of flight refreshes it.  The  *)
(* database value is a version number; writers update it and then delete   *)
(* the entry.                                                              *)
(***************************************************************************)
EXTENDS Integers

CONSTANTS
  Procs,       \* Node processes
  None,
  MaxVersion   \* bound: versions of the database value

ASSUME CacheAsideAssumption ==
  /\ MaxVersion \in Nat
  /\ None \notin Procs \X {"cold", "refresh"}

Kinds == {"cold", "refresh"}
Flights == Procs \X Kinds

Versions == 0..MaxVersion

Miss == [state |-> "miss", val |-> 0]
Entry == {Miss} \cup [state: {"fresh", "stale"}, val: Versions]

Steps == {"none", "read", "lock", "recheck", "load", "write", "unlock", "wait",
          "rescue"}

VARIABLES
  source,   \* the value in the database
  entry,    \* Redis: the cached value
  lock,     \* Redis: the flight whose token the lock holds
  flight,   \* inflight map of each process: where its fill is, what it loaded
  deletes,  \* writers that have updated the database, not yet the cache
  \* history, read by no guard but the bounds
  loads,    \* loads by holders of the lock since the entry last went away
  late,     \* the database changed since this flight loaded
  outrun,   \* the entry was written by a flight that was late
  lost,     \* a writer failed between its update and its delete
  overran   \* flights whose lock expired while they held it

redis == <<entry, lock>>
writers == <<source, deletes, lost>>
history == <<loads, late, outrun, overran>>
vars == <<redis, writers, flight, history>>

Init ==
  /\ source = 0 /\ deletes = 0
  /\ entry = Miss /\ lock = None
  /\ flight = [f \in Flights |-> [pc |-> "none", val |-> 0]]
  /\ loads = 0
  /\ late = [f \in Flights |-> FALSE]
  /\ outrun = FALSE /\ lost = FALSE /\ overran = {}

-----------------------------------------------------------------------------
(* Calls *)

At(f, pc) == flight[f].pc = pc
Move(f, pc) == flight' = [flight EXCEPT ![f] = [pc |-> pc, val |-> 0]]

Quietly == UNCHANGED <<redis, writers, history>>

\* A caller that reads a fresh entry returns; a stale one starts a refresh and
\* returns, a miss starts or joins the cold flight.
Call(p) ==
  \/ /\ entry.state = "stale" /\ At(<<p, "refresh">>, "none")
     /\ Move(<<p, "refresh">>, "lock") /\ Quietly
  \/ /\ entry.state = "miss" /\ At(<<p, "cold">>, "none")
     /\ Move(<<p, "cold">>, "read") /\ Quietly

\* Present is good enough for a cold flight, a refresh wants a fresh entry.
Good(f) == IF f[2] = "cold" THEN entry # Miss ELSE entry.state = "fresh"

SecondRead(f) ==
  /\ At(f, "read")
  /\ Move(f, IF Good(f) THEN "none" ELSE "lock")
  /\ Quietly

LockIsFree == lock = None

TryLock(f) ==
  /\ lock' = IF LockIsFree THEN f ELSE lock
  /\ UNCHANGED <<entry, writers, history>>

\* Without the lock a refresh gives up, a cold flight waits for the holder.
WithoutLock(f) == IF f[2] = "refresh" THEN "none" ELSE "wait"

AcquireLock(f) ==
  /\ At(f, "lock")
  /\ TryLock(f)
  /\ Move(f, IF LockIsFree THEN "recheck" ELSE WithoutLock(f))

\* Mutant: no deadline.
Wait_Forever(f) == At(f, "wait") /\ Good(f) /\ Move(f, "none") /\ Quietly

\* The flight polls until an entry shows up or its deadline passes.
Wait(f) ==
  /\ At(f, "wait")
  /\ Move(f, IF Good(f) THEN "none" ELSE "rescue")
  /\ Quietly

\* After the deadline one more attempt, or CacheFillTimeoutError.
RescueLock(f) ==
  /\ At(f, "rescue")
  /\ TryLock(f)
  /\ Move(f, IF LockIsFree THEN "recheck" ELSE "none")

\* Mutant: the lock's holder loads without looking again.
Recheck_Skipped(f) == At(f, "recheck") /\ Move(f, "load") /\ Quietly

Recheck(f) ==
  /\ At(f, "recheck")
  /\ Move(f, IF Good(f) THEN "unlock" ELSE "load")
  /\ Quietly

Load(f) ==
  /\ At(f, "load")
  /\ flight' = [flight EXCEPT ![f] = [pc |-> "write", val |-> source]]
  /\ loads' = IF f \in overran THEN loads ELSE loads + 1
  /\ late' = [late EXCEPT ![f] = FALSE]
  /\ UNCHANGED <<redis, writers, outrun, overran>>

Write(f) ==
  /\ At(f, "write")
  /\ entry' = [state |-> "fresh", val |-> flight[f].val]
  /\ outrun' = late[f]
  /\ Move(f, "unlock")
  /\ late' = [late EXCEPT ![f] = FALSE]
  /\ UNCHANGED <<lock, writers, loads, overran>>

\* Mutant: the lock is deleted whatever token it holds.
Mine_Any(f) == TRUE

\* The release script deletes the lock only when it holds the flight's token.
Mine(f) == lock = f

ReleaseLock(f) ==
  /\ At(f, "unlock")
  /\ lock' = IF Mine(f) THEN None ELSE lock
  /\ Move(f, "none")
  /\ overran' = overran \ {f}
  /\ UNCHANGED <<entry, writers, loads, late, outrun>>

\* Redis fails: before the lock the loader is called without the cache; after
\* the lock the read throws, the write is skipped, the release is given up.
RedisFails(f) ==
  /\ ~At(f, "none") /\ ~At(f, "load")
  /\ IF flight[f].pc \in {"recheck", "write"}
     THEN Move(f, "unlock") /\ UNCHANGED overran
     ELSE Move(f, "none") /\ overran' = overran \ {f}
  /\ loads' = IF At(f, "write") THEN 0 ELSE loads
  /\ late' = [late EXCEPT ![f] = FALSE]
  /\ UNCHANGED <<redis, writers, outrun>>

LoaderFails(f) == At(f, "load") /\ Move(f, "unlock") /\ Quietly

-----------------------------------------------------------------------------
(* Writers, lifetimes and crashes *)

\* A writer commits to the database; deleteCache is a call of its own.
Update ==
  /\ source < MaxVersion
  /\ source' = source + 1
  /\ deletes' = deletes + 1
  /\ late' = [f \in Flights |-> At(f, "write")]
  /\ UNCHANGED <<redis, flight, loads, outrun, overran, lost>>

\* Mutant: the delete names another key.
Dropped_Kept == entry

\* What a delete leaves.
Dropped == Miss

DeleteCache ==
  /\ deletes > 0
  /\ deletes' = deletes - 1
  /\ entry' = Dropped
  /\ loads' = 0
  /\ UNCHANGED <<source, lost, lock, flight, late, outrun, overran>>

LoseDelete ==
  /\ deletes > 0
  /\ deletes' = deletes - 1
  /\ lost' = TRUE
  /\ UNCHANGED <<source, redis, flight, history>>

\* freshUntil passes. The entry stays for staleTtlMs more; for some milliseconds
\* even when that is 0, for freshUntil is set before the entry's PX is.
EntryAges ==
  /\ entry.state = "fresh"
  /\ entry' = [entry EXCEPT !.state = "stale"]
  /\ loads' = 0
  /\ UNCHANGED <<lock, writers, flight, late, outrun, overran>>

\* Mutant: the entry is set without PX.
EntryExpires_Never == FALSE /\ UNCHANGED vars

\* The hard TTL, never shorter than the fresh one.
EntryExpires ==
  /\ entry.state = "stale"
  /\ entry' = Miss
  /\ loads' = 0
  /\ UNCHANGED <<lock, writers, flight, late, outrun, overran>>

Holding(f) == flight[f].pc \in {"recheck", "load", "write", "unlock"}

\* The lock's TTL, which the heartbeat extends while its holder runs, unless the
\* process stalls or its extension fails.
LockExpires ==
  /\ lock # None
  /\ lock' = None
  /\ IF Holding(lock) THEN overran' = overran \cup {lock} /\ loads' = 0
     ELSE UNCHANGED <<overran, loads>>
  /\ UNCHANGED <<entry, writers, flight, late, outrun>>

\* Every flight of the process is gone, its lock stays until its TTL.
Crash(p) ==
  /\ flight' = [f \in Flights |-> IF f[1] = p THEN [pc |-> "none", val |-> 0]
                                  ELSE flight[f]]
  /\ loads' = IF \E f \in Flights : f[1] = p /\ At(f, "write") THEN 0 ELSE loads
  /\ late' = [f \in Flights |-> f[1] # p /\ late[f]]
  /\ overran' = {f \in overran : f[1] # p}
  /\ UNCHANGED <<redis, writers, outrun>>

Continue(f) ==
  \/ SecondRead(f) \/ AcquireLock(f) \/ Wait(f) \/ RescueLock(f) \/ Recheck(f)
  \/ Load(f) \/ Write(f) \/ ReleaseLock(f)

Next ==
  \/ \E p \in Procs : Call(p) \/ Crash(p)
  \/ \E f \in Flights : Continue(f) \/ RedisFails(f) \/ LoaderFails(f)
  \/ Update \/ DeleteCache \/ LoseDelete
  \/ EntryAges \/ EntryExpires \/ LockExpires

Spec == Init /\ [][Next]_vars

\* Flights run on, time passes, writers reach their delete or fail.
Fairness ==
  /\ \A f \in Flights : WF_vars(Continue(f))
  /\ WF_vars(EntryAges) /\ WF_vars(EntryExpires) /\ WF_vars(LockExpires)

-----------------------------------------------------------------------------
(* Properties *)

TypeOK ==
  /\ source \in Versions /\ deletes \in 0..source
  /\ entry \in Entry
  /\ lock \in Flights \cup {None}
  /\ flight \in [Flights -> [pc: Steps, val: Versions]]
  /\ \A p \in Procs : flight[<<p, "refresh">>].pc \notin {"read", "wait", "rescue"}
  /\ loads \in Nat /\ late \in [Flights -> BOOLEAN]
  /\ outrun \in BOOLEAN /\ lost \in BOOLEAN 
  /\ overran \subseteq Flights

\* No stampede: flights of all processes run the loader one at a time, and one
\* that waited for the lock finds what its predecessor loaded, so an entry that
\* nobody dropped is loaded once; but for those whose heartbeat failed to keep
\* the lock.
OneLoader ==
  /\ \A f, g \in Flights \ overran : Holding(f) /\ Holding(g) => f = g
  /\ loads <= 1

\* An entry is older than the database only between an update and its delete,
\* after a delete that was lost, or when its flight loaded before the update.
StaleExplained ==
  entry # Miss /\ entry.val # source => deletes > 0 \/ lost \/ outrun

\* Whatever overtook what, an old value is not served for ever.
CatchesUp ==
  \A v \in Versions : entry # Miss /\ entry.val = v /\ v < source
                        ~> entry = Miss \/ entry.val > v

\* Every caller is answered: flights end, with a value or an error.
FlightsEnd == \A f \in Flights : ~At(f, "none") ~> At(f, "none")
=============================================================================
