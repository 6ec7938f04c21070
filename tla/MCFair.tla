------------------------------- MODULE MCFair -------------------------------
(* The read-through cache and the watch presence, side by side, under the   *)
(* fairness each of them has; `focus` says which one runs.                   *)
EXTENDS CacheAside, WatchPresence

VARIABLE focus

Start == focus \in {"cache", "watch"} /\ Init /\ WatchInit

Run ==
  /\ UNCHANGED focus
  /\ \/ focus = "cache" /\ Next /\ UNCHANGED watchVars
     \/ focus = "watch" /\ WatchNext /\ UNCHANGED vars

Running == Start /\ [][Run]_<<vars, watchVars, focus>> /\ Fairness /\ WatchFairness
=============================================================================
