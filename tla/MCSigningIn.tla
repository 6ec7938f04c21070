---------------------------- MODULE MCSigningIn -----------------------------
(* Small instances of web sessions, one-time codes and social accounts, side *)
(* by side; `focus` says which of them runs.                                 *)
EXTENDS StudentSessions, OneTimeCodes, SocialLinks, TLC

CONSTANTS e1, e2, g1, g2, a1

VARIABLE focus

MCProviderOf == (g1 :> "GOOGLE") @@ (g2 :> "GOOGLE") @@ (a1 :> "APPLE")
MCEmailOf == [i \in Identities |-> e1]

\* The same values are requests of all three, of which only one runs.
Symmetry == Permutations(Reqs) \cup Permutations(Rows)

SigningInit ==
  /\ focus \in {"web", "codes", "party", "accounts"}
  /\ Init /\ CodesInit /\ LinksInit

\* Time passes while no request for or with a code is in flight.
Alone == \A c \in Callers : At(c, "idle")

Mobile == CHOOSE p \in Phones : TRUE

\* A request dies only between two writes; one account signs up
\* with any phone and is linked to the Apple identity, the other has its phone.
Accounts ==
  /\ LinksNext
  /\ deaths' = deaths \/ halved' # halved
  /\ \A c \in Clients : client'[c].email = e2 =>
       client'[c].identity # a1 /\ client'[c].phone # Mobile

SigningNext ==
  /\ UNCHANGED focus
  /\ \/ focus = "web" /\ (Web \/ Passing) /\ UNCHANGED <<codeVars, linkVars>>
     \/ focus = "accounts" /\ Accounts /\ UNCHANGED <<vars, codeVars>>
     \/ /\ UNCHANGED <<vars, linkVars>>
        /\ \/ focus = "codes" /\ StudentCodes
           \/ focus = "party" /\ GuestCodes
           \/ focus \in {"codes", "party"} /\ (Sending \/ (Alone /\ TimePasses))

SigningSpec == SigningInit /\ [][SigningNext]_<<vars, codeVars, linkVars, focus>>

\* Every variable of the part that runs has its type; the others keep their first
\* values.
SigningTypeOK ==
  /\ focus = "web" => TypeOK
  /\ focus \in {"codes", "party"} => CodesTypeOK
  /\ focus = "accounts" => LinksTypeOK
=============================================================================
