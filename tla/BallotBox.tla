------------------------------- MODULE BallotBox -------------------------------
(***************************************************************************)
(* What the election promises a member about the ballot box, with no       *)
(* requests, tables or statements: a ballot goes in whole and once, nobody *)
(* can alter it or add to it afterwards, and it leaves only with the       *)
(* member, with the whole box, or choice by choice as candidates are taken *)
(* off the ballot, and then from everyone's ballot alike.                  *)
(***************************************************************************)
CONSTANTS Member, Section, Candidate

VARIABLES voted, choices

boxVars == <<voted, choices>>

Choice == [role : Section, part : Candidate]

\* No candidate is chosen twice on one ballot.
WellFormed(S) == \A c, d \in S : c.part = d.part => c = d

Init ==
  /\ voted = {}
  /\ choices = [m \in Member |-> {}]

Cast(m, S) ==
  /\ m \notin voted
  /\ WellFormed(S)
  /\ voted' = voted \cup {m}
  /\ choices' = [choices EXCEPT ![m] = S]

\* Candidates leave the ballot; those who voted for them have still voted.
Strike(P) ==
  /\ choices' = [m \in Member |-> {c \in choices[m] : c.part \notin P}]
  /\ UNCHANGED voted

\* A member is deleted, and the ballot with the member.
Annul(m) ==
  /\ voted' = voted \ {m}
  /\ choices' = [choices EXCEPT ![m] = {}]

\* The round is cleared to be run again.
Clear == voted' = {} /\ choices' = [m \in Member |-> {}]

Next ==
  \/ \E m \in Member, S \in SUBSET Choice : Cast(m, S)
  \/ \E P \in SUBSET Candidate : Strike(P)
  \/ \E m \in Member : Annul(m)
  \/ Clear

Spec == Init /\ [][Next]_boxVars
=============================================================================
