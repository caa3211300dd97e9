------------------------------- MODULE Election -------------------------------
(***************************************************************************)
(* The whole election over one database: standing for it (Candidacy) and   *)
(* voting in it (Voting), with the requests of both interleaved.           *)
(*                                                                         *)
(* An element of both Admin and Committee is one admin at one page, who    *)
(* sends a request of either kind only when the last one is answered; the  *)
(* elections admin's page serves both kinds.                               *)
(***************************************************************************)
EXTENDS Voting, Candidacy

electionVars == <<votingVars, work>>

\* Tables and locals of both halves keep their types when the halves run together.
ElectionTypeOK == VotingTypeOK /\ CandidacyTypeOK

ElectionInit == VotingInit /\ CandidacyInit

AtRest(a) ==
  /\ a \in Admin => AdmAt(a, "idle")
  /\ a \in Committee => WorkAt(a, "idle")

ElectionNext ==
  \/ \E q \in Request :
       ((\E m \in Member : CastArrives(q, m)) \/ CastStep(q)) /\ UNCHANGED work
  \/ \E a \in Admin : ((AtRest(a) /\ AdmRequest(a)) \/ AdmStep(a)) /\ UNCHANGED work
  \/ \E m \in Member : MemberRequest(m) /\ UNCHANGED work
  \/ \E q \in Applicant : (ApplicantRequest(q) \/ ApplicantStep(q)) /\ UNCHANGED <<cast, adm>>
  \/ \E a \in Committee :
       ((AtRest(a) /\ CommitteeRequest(a)) \/ CommitteeStep(a)) /\ UNCHANGED <<cast, adm>>
  \/ Restart /\ CandidacyRestart

ElectionSpec == ElectionInit /\ [][ElectionNext]_electionVars

\* As for Voting: a goroutine that can run its next statement does.
ElectionFairness ==
  /\ \A q \in Request : WF_electionVars(CastStep(q) /\ UNCHANGED work)
  /\ \A a \in Admin : WF_electionVars(AdmStep(a) /\ UNCHANGED work)
  /\ \A q \in Applicant : WF_electionVars(ApplicantStep(q) /\ UNCHANGED <<cast, adm>>)
  /\ \A a \in Committee : WF_electionVars(CommitteeStep(a) /\ UNCHANGED <<cast, adm>>)

FairElectionSpec == ElectionSpec /\ ElectionFairness

-----------------------------------------------------------------------------
\* What is on its way when voting or the candidacy window stops may still be written, a
\* ballot or a candidacy for each request, and nothing that comes later is; although
\* CastBallot and SubmitCandidacy read the setting once and write statements later.
LateRequests == LateBallots /\ LateCandidacies

=============================================================================
