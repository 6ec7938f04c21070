------------------------- MODULE MCStudentSessions -------------------------
(* Small instances of StudentSessions: hosts w* are web, d* are desktop.     *)
EXTENDS StudentSessions, TLC

Symmetry == Permutations(Reqs) \cup Permutations(Rows)
=============================================================================
