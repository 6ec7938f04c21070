---------------------------- MODULE MCCacheWatch ----------------------------
(* Small instances of the read-through cache and of the watch presence, side *)
(* by side; `focus` says which of them runs.  The presence runs twice.  The  *)
(* large room has two viewers who ping only as they join, and a change by    *)
(* one is not broadcast, as among 100 viewers.  In the small room one viewer *)
(* pings from wherever he is connected, and one call fails.                  *)
EXTENDS CacheAside, WatchPresence, TLC

CONSTANT Regular     \* the viewer of the small room

VARIABLE focus

\* The same values are callers of the cache and processes.
Symmetry == Permutations(Procs) \cup Permutations(Sockets)

Large == INSTANCE WatchPresence WITH MaxDeaths <- 0, ChangeMinDelta <- 2
Small == INSTANCE WatchPresence WITH Viewers <- {Regular}

Start == focus \in {"cache", "large", "small"} /\ Init /\ WatchInit

Run ==
  /\ UNCHANGED focus
  /\ \/ focus = "cache" /\ Next /\ UNCHANGED watchVars
     \/ focus = "large" /\ Large!Worked /\ UNCHANGED vars
     \/ focus = "small" /\ Small!WatchNext /\ UNCHANGED vars

Running == Start /\ [][Run]_<<vars, watchVars, focus>>

\* ShownExplained, of presence.js and broadcaster.js, with the least change of the room
\* that runs: small changes never add up unseen, and a change nobody marked is known.
PagesHold ==
  /\ focus = "large" => Large!ShownExplained
  /\ focus = "small" => Small!ShownExplained
=============================================================================
