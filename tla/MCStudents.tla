----------------------------- MODULE MCStudents -----------------------------
(* Small instances of what students do and are told, side by side: desktop   *)
(* sessions, questions, enrolment and push campaigns; `focus` says which of  *)
(* them runs.                                                                *)
EXTENDS StudentSessions, QuoraFlow, Enrolment, PushCampaign, TLC

CONSTANTS k3, k4

VARIABLE focus

MCCourseOf == [c \in Cycles |-> CHOOSE z \in Courses : TRUE]
MCSold == [k \in Codes |-> Items]
MCBuyers == [k \in Codes |-> Members]

\* The same values are requests of all four, of which only one runs.
Symmetry == Permutations(Slots)

StudentsInit ==
  /\ focus \in {"sessions", "asking", "answering", "redeeming", "checking", "all", "course"}
  /\ Init /\ QuoraInit /\ EnrolInit
  /\ PushInit /\ \A d \in Devices \ {LastDevice} : valid[d]
  /\ focus \notin {"all", "course"} => valid[LastDevice]

\* All students ask, the answers are to two questions of one.
FirstAsks ==
  LET s == CHOOSE s \in Students : TRUE
      spare == CHOOSE q \in Quoras : TRUE
  IN  /\ Asking \/ Classifying \/ Answering
      /\ \A c \in Calls : call'[c].who \notin Students \ {s} /\ call'[c].quora # spare

\* Memberships are checked while one student redeems an academic code; other
\* codes are redeemed by two, access by hand is one's.
One == CHOOSE s \in Members : TRUE
Checked == {One} \X (Courses \cup {CHOOSE c \in Cycles : TRUE})

Checks ==
  /\ EnrolNext /\ events' <= 1
  /\ \A r \in Slots : redeem'[r] # redeem[r] =>
       redeem'[r].member \in {One, Nothing} /\ redeem'[r].code \in Academic \cup {Nothing}
  /\ \A s \in Members, i \in Items : loading'[s][i] # {} => <<s, i>> \in Checked

Redemptions ==
  /\ Redeeming \/ ByHand(One)
  /\ \A r \in Slots : Cardinality(redeem'[r].courses) <= 1
  /\ \A r \in Slots : redeem'[r].code \notin Academic

\* One campaign runs; once its request is over another with its event key is tried.
Pushes(k, other) ==
  /\ PushNext
  /\ \A r \in Runs : run'[r].of # other
  /\ sender[k] # "over" => sender'[other] = "new" /\ renewed' = renewed
  /\ record'[other] = NoRow

courseVars == <<vars, quoraVars, enrolVars>>

StudentsNext ==
  /\ UNCHANGED focus
  /\ \/ /\ UNCHANGED pushVars
        /\ \/ focus = "sessions" /\ (Desktop \/ Passing) /\ UNCHANGED <<quoraVars, enrolVars>>
           \/ focus = "asking" /\ (Asking \/ Limiting) /\ UNCHANGED <<vars, enrolVars>>
           \/ focus = "answering" /\ FirstAsks /\ UNCHANGED <<vars, enrolVars>>
           \/ focus = "redeeming" /\ Redemptions /\ UNCHANGED <<vars, quoraVars>>
           \/ focus = "checking" /\ Checks /\ UNCHANGED <<vars, quoraVars>>
     \/ /\ UNCHANGED courseVars
        /\ \/ focus = "all" /\ Pushes(k3, k4) /\ UNCHANGED enrolled
           \/ focus = "course" /\ Pushes(k4, k3) /\ troubles' <= 1

StudentsSpec == StudentsInit /\ [][StudentsNext]_<<courseVars, pushVars, focus>>

\* Every variable of the part that runs has its type; the others keep their first
\* values.
StudentsTypeOK ==
  /\ focus \in {"asking", "answering"} => QuoraTypeOK
  /\ focus \in {"redeeming", "checking"} => EnrolTypeOK
  /\ focus \in {"all", "course"} => PushTypeOK
=============================================================================
