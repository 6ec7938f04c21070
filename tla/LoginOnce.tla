----------------------------- MODULE LoginOnce -----------------------------
(***************************************************************************)
(* What the desktop sign-in promises about one transaction, whatever the   *)
(* interleaving of its requests: it is bound to at most one account, and   *)
(* hands out at most one session, for that account and after its use.      *)
(***************************************************************************)
EXTENDS Sequences

CONSTANTS Txns, Students, None

VARIABLES
  phase,    \* the status a poll would show
  account,  \* the account the transaction was bound to
  sessions  \* the sessions handed out

vars == <<phase, account, sessions>>

Waiting == {"PENDING", "ACCOUNT_LINK_REQUIRED", "REGISTRATION_REQUIRED"}
Final == {"FAILED", "CANCELLED"}

Init ==
  /\ phase = [t \in Txns |-> "ABSENT"]
  /\ account = [t \in Txns |-> None]
  /\ sessions = [t \in Txns |-> <<>>]

Open(t) ==
  /\ phase[t] = "ABSENT"
  /\ phase' = [phase EXCEPT ![t] = "PENDING"]
  /\ UNCHANGED <<account, sessions>>

\* A waiting transaction asks for the next thing it needs, or is refused.
Advance(t) ==
  /\ \/ /\ phase[t] = "PENDING"
        /\ \E p \in (Waiting \ {"PENDING"}) \cup {"FAILED"} :
             phase' = [phase EXCEPT ![t] = p]
     \/ /\ phase[t] = "REGISTRATION_REQUIRED"
        /\ phase' = [phase EXCEPT ![t] = "ACCOUNT_LINK_REQUIRED"]
     \/ /\ phase[t] \in Waiting
        /\ phase' = [phase EXCEPT ![t] = "CANCELLED"]
  /\ UNCHANGED <<account, sessions>>

Bind(t, s) ==
  /\ phase[t] \in Waiting
  /\ account[t] = None
  /\ phase' = [phase EXCEPT ![t] = "READY"]
  /\ account' = [account EXCEPT ![t] = s]
  /\ UNCHANGED sessions

\* The key may expire and be written once more by the exchange in progress.
Use(t) ==
  /\ phase[t] \in {"READY", "GONE"}
  /\ account[t] # None /\ sessions[t] = <<>>
  /\ phase' = [phase EXCEPT ![t] = "CONSUMED"]
  /\ UNCHANGED <<account, sessions>>

HandOver(t) ==
  /\ phase[t] \in {"CONSUMED", "GONE"}
  /\ account[t] # None /\ sessions[t] = <<>>
  /\ sessions' = [sessions EXCEPT ![t] = <<account[t]>>]
  /\ UNCHANGED <<phase, account>>

Forget(t) ==
  /\ phase[t] # "ABSENT"
  /\ phase' = [phase EXCEPT ![t] = "GONE"]
  /\ UNCHANGED <<account, sessions>>

Next == \E t \in Txns : \/ Open(t) \/ Advance(t) \/ Use(t) \/ HandOver(t)
                        \/ Forget(t)
                        \/ \E s \in Students : Bind(t, s)

Spec == Init /\ [][Next]_vars
=============================================================================
