------------------------------ MODULE MCElection ------------------------------
(* Instances of Election for TLC. *)
EXTENDS Election, TLC

Symmetry == Permutations(Member) \cup Permutations(Request) \cup Permutations(Admin)
              \cup Permutations(Applicant)
=============================================================================
