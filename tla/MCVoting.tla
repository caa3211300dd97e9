------------------------------- MODULE MCVoting -------------------------------
(* Instances of Voting for TLC. *)
EXTENDS Voting, TLC

Symmetry == Permutations(Member) \cup Permutations(Request) \cup Permutations(Admin)
=============================================================================
