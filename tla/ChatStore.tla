----------------------------- MODULE ChatStore ------------------------------
(***************************************************************************)
(* What the chat promises about the messages it accepts, whatever happens  *)
(* between the room and the table: a message is kept until it is stored,   *)
(* buried or known to be lost; only kept messages are stored, so that a    *)
(* row deleted once its message was let go is gone for good; and none is   *)
(* buried unless the table refuses it or its own handling was in doubt.    *)
(***************************************************************************)
CONSTANTS Messages, Refused

VARIABLES
  sent,     \* messages accepted
  kept,     \* those that are still on their way
  table,    \* rows
  stored,   \* messages that have or had a row
  dead,     \* messages buried
  lost,     \* messages known to be lost
  doubted   \* messages whose handling failed with an outcome unknown

vars == <<sent, kept, table, stored, dead, lost, doubted>>

Init == /\ sent = {} /\ kept = {} /\ table = {} /\ stored = {}
        /\ dead = {} /\ lost = {} /\ doubted = {}

Accept(m) ==
  /\ m \notin sent
  /\ sent' = sent \cup {m} /\ kept' = kept \cup {m}
  /\ UNCHANGED <<table, stored, dead, lost, doubted>>

\* Rows for all of ms; the answer may not arrive.
Save(ms) ==
  /\ ms \cap Refused = {}
  /\ table' = table \cup ms /\ stored' = stored \cup ms
  /\ \E unanswered \in SUBSET kept : doubted' = doubted \cup unanswered
  /\ UNCHANGED <<sent, kept, dead, lost>>

Bury(ms) ==
  /\ ms \subseteq Refused \cup doubted
  /\ dead' = dead \cup ms
  /\ UNCHANGED <<sent, kept, table, stored, lost, doubted>>

\* Messages ms are lost, and some that have an end are let go.
LetGo(ms) ==
  /\ lost' = lost \cup ms
  /\ \E done \in SUBSET (stored \cup dead \cup lost') : kept' = kept \ done
  /\ UNCHANGED <<sent, table, stored, dead, doubted>>

\* A moderator deletes a row.
Delete(m) ==
  /\ m \in table
  /\ table' = table \ {m}
  /\ UNCHANGED <<sent, kept, stored, dead, lost, doubted>>

Next == \/ \E m \in Messages : Accept(m) \/ Delete(m)
        \/ \E ms \in SUBSET kept : Save(ms) \/ Bury(ms) \/ LetGo(ms)

Spec == Init /\ [][Next]_vars
=============================================================================
