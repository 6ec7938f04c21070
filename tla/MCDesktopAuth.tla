--------------------------- MODULE MCDesktopAuth ---------------------------
(* Small instances of DesktopAuth: every identity has the email `e1`.       *)
EXTENDS DesktopAuth, TLC

MCEmailOf == [i \in Identities |-> CHOOSE e \in Emails : TRUE]

Symmetry == Permutations(Reqs) \cup Permutations(Txns) \cup Permutations(Students)
              \cup Permutations(Identities) \cup Permutations(Phones)
              \cup Permutations(Attempts)
=============================================================================
