----------------------------- MODULE MCMembership -----------------------------
EXTENDS Membership, TLC

CONSTANTS c1, c2, c3, p1, p2

OneImported == <<[cpr |-> c1, phone |-> p1]>>
TwoImported == <<[cpr |-> c1, phone |-> p1], [cpr |-> c2, phone |-> p1]>>
NoneImported == <<>>

DeskSymmetry == Permutations(Clerk) \cup Permutations(Registrant)
=============================================================================
