------------------------------- MODULE Candidacy -------------------------------
(***************************************************************************)
(* Standing for election: members' requests to submit a candidacy or move  *)
(* it to another role, and the elections admins' requests to accept it,    *)
(* return it or move it, each statement by statement over the tables of    *)
(* ElectionDB.                                                             *)
(*                                                                         *)
(* A member has at most one candidacy (UNIQUE user_id), and neither ids of *)
(* users nor ids of candidacies are reused, so a candidacy is named by its *)
(* member; candStatus[m] = "none" says there is no row. work[g] holds the  *)
(* locals of the request goroutine g serves: the candidacy, the role asked *)
(* for or read, the candidacy's status as the request read it, and the     *)
(* years it keeps of the rows that EligibleForRole compares: the member's  *)
(* age for a submission, which reads the member first and the role later,  *)
(* the role's minimum for a move, which reads them the other way round.    *)
(* Photographs are left out, but for the refusals they cause.              *)
(***************************************************************************)
EXTENDS ElectionDB

CONSTANTS
  Applicant,  \* goroutines serving members' candidacy requests
  Committee,  \* goroutines serving elections admins' candidacy requests
  Errands     \* bound: the kinds of request an instance lets them send

ASSUME CandidacyAssumption == Applicant \cap Committee = {}

VARIABLE work

Clerk == Applicant \cup Committee

WorkPC == {"idle", "submit_gate", "submit_roles", "submit_mine", "submit_gate_again",
           "submit_role", "submit_existing", "submit_write", "change_gate",
           "change_candidacy", "change_role", "change_user", "change_write",
           "accept_write", "return_write"}

NoWork == [pc |-> "idle", id |-> NoMember, role |-> NoRole, status |-> "none", years |-> 0]
WorkLocals == [pc : WorkPC, id : Member \cup {NoMember}, role : Section,
               status : CandidacyStatus, years : Years \cup {0}]

CandidacyTypeOK ==
  /\ work \in [Clerk -> WorkLocals]
  /\ \A g \in Clerk : work[g].pc # "idle" => work[g].id \in Member

CandidacyInit == work = [g \in Clerk |-> NoWork]

WorkAt(g, pc) == work[g].pc = pc
WorkGoto(g, pc) == work' = [work EXCEPT ![g].pc = pc]
WorkAnswer(g) == work' = [work EXCEPT ![g] = NoWork]

\* Go on if the condition holds, answer with an error if it does not.
WorkCheck(g, here, there, condition) ==
  /\ WorkAt(g, here)
  /\ \/ condition /\ WorkGoto(g, there)
     \/ ~condition /\ WorkAnswer(g)
  /\ UNCHANGED dbVars

\* SELECT id FROM participants WHERE candidacy_id: the entries of a candidacy.
Entries(m) == {p \in participants : partCand[p] = m}

\* UPDATE candidacies ... WHERE id: nothing happens if the row has gone.
UpdateCandidacy(m, status, role) ==
  IF candStatus[m] = "none"
    THEN UNCHANGED candVars
    ELSE /\ candStatus' = [candStatus EXCEPT ![m] = status]
         /\ candRole' = [candRole EXCEPT ![m] = role]

-----------------------------------------------------------------------------
(* handleSubmitCandidacy and SubmitCandidacy *)

\* requireMember has read the member's row; the status and the date of birth in it
\* are what EligibleToStand and EligibleForRole test, now and at every later step.
SubmitArrives(q, m, r) ==
  /\ WorkAt(q, "idle")
  /\ users[m] = "active"
  /\ work' = [work EXCEPT ![q] = [NoWork EXCEPT
                !.pc = "submit_gate", !.id = m, !.role = r, !.years = age[m]]]
  /\ UNCHANGED dbVars

SubmitReadGate(q) == WorkCheck(q, "submit_gate", "submit_roles", gate = "open")

\* EligibleToStand: old enough for one of the roles on offer.
SubmitReadRoles(q) ==
  WorkCheck(q, "submit_roles", "submit_mine", \E r \in roles : work[q].years >= minAge[r])

\* A first candidacy needs a photograph, and one that is sent must be a good one.
SubmitReadMine(q) ==
  \E photo \in {"none", "good", "bad"} :
    WorkCheck(q, "submit_mine", "submit_gate_again",
              photo = "good" \/ (photo = "none" /\ candStatus[work[q].id] # "none"))

SubmitReadGateAgain(q) == WorkCheck(q, "submit_gate_again", "submit_role", gate = "open")

SubmitReadRole(q) ==
  WorkCheck(q, "submit_role", "submit_existing",
            work[q].role \in roles /\ work[q].years >= minAge[work[q].role])

SubmitReadExisting(q) ==
  /\ WorkAt(q, "submit_existing")
  /\ LET status == candStatus[work[q].id] IN
     \/ /\ status # "accepted"
        /\ work' = [work EXCEPT ![q] = [work[q] EXCEPT !.pc = "submit_write", !.status = status]]
     \/ status = "accepted" /\ WorkAnswer(q)
  /\ UNCHANGED dbVars

\* No candidacy was found: INSERT, which UNIQUE (user_id) and the foreign key on
\* users may refuse.
SubmitInsert(q) ==
  /\ WorkAt(q, "submit_write") /\ work[q].status = "none"
  /\ IF candStatus[work[q].id] = "none" /\ users[work[q].id] # "deleted"
       THEN /\ candStatus' = [candStatus EXCEPT ![work[q].id] = "submitted"]
            /\ candRole' = [candRole EXCEPT ![work[q].id] = work[q].role]
       ELSE UNCHANGED candVars
  /\ WorkAnswer(q)
  /\ UNCHANGED <<settingVars, userVars, roleVars, partVars, boxVars>>

\* One was found: UPDATE, whatever its status has become.
SubmitUpdate(q) ==
  /\ WorkAt(q, "submit_write") /\ work[q].status # "none"
  /\ UpdateCandidacy(work[q].id, "submitted", work[q].role)
  /\ WorkAnswer(q)
  /\ UNCHANGED <<settingVars, userVars, roleVars, partVars, boxVars>>

-----------------------------------------------------------------------------
(* ChangeCandidacyRole, by the member (handleChangeMyRole, which looks the   *)
(* candidacy up first) or by an elections admin (handleAdminCandidacyRole)   *)

ByMember(g) == g \in Applicant

ChangeArrives(g, m, r) ==
  /\ WorkAt(g, "idle")
  /\ candStatus[m] # "none"
  /\ work' = [work EXCEPT ![g] = [NoWork EXCEPT !.id = m, !.role = r,
                !.pc = IF ByMember(g) THEN "change_gate" ELSE "change_candidacy"]]
  /\ UNCHANGED dbVars

\* Fault: the window is checked by the page only.
ChangeReadGateIgnored(g) == WorkCheck(g, "change_gate", "change_candidacy", TRUE)

ChangeReadGate(g) == WorkCheck(g, "change_gate", "change_candidacy", gate = "open")

ChangeReadCandidacy(g) ==
  /\ WorkAt(g, "change_candidacy")
  /\ LET status == candStatus[work[g].id] IN
     \/ /\ status # "none"
        /\ work' = [work EXCEPT ![g] = [work[g] EXCEPT !.pc = "change_role", !.status = status]]
     \/ status = "none" /\ WorkAnswer(g)
  /\ UNCHANGED dbVars

ChangeReadRole(g) ==
  /\ WorkAt(g, "change_role")
  /\ \/ /\ work[g].role \in roles
        /\ work' = [work EXCEPT ![g] = [work[g] EXCEPT
                      !.pc = "change_user", !.years = minAge[work[g].role]]]
     \/ work[g].role \notin roles /\ WorkAnswer(g)
  /\ UNCHANGED dbVars

\* Fault: the committee's overrides are not held to the age of the post.
ChangeReadUserOverride(g) ==
  WorkCheck(g, "change_user", "change_write",
            ByMember(g) => /\ users[work[g].id] = "active"
                           /\ age[work[g].id] >= work[g].years
                           /\ work[g].status # "accepted")

\* A member whose candidacy was accepted when it was read is turned away.
ChangeReadUser(g) ==
  WorkCheck(g, "change_user", "change_write",
            /\ users[work[g].id] = "active"
            /\ age[work[g].id] >= work[g].years
            /\ ~(ByMember(g) /\ work[g].status = "accepted"))

\* The transaction: the candidacy, and the ballot entry of one that was accepted
\* when it was read. A role that has gone fails the entry, and so both.
ChangeMoves(g) == IF work[g].status = "accepted" THEN Entries(work[g].id) ELSE {}

ChangeWrite(g) ==
  /\ WorkAt(g, "change_write")
  /\ UpdateCandidacy(work[g].id, candStatus[work[g].id], work[g].role)
  /\ MoveParticipantRows(ChangeMoves(g), work[g].role)
  /\ WorkAnswer(g)
  /\ UNCHANGED <<settingVars, userVars, roleVars, boxVars>>

ChangeFails(g) ==
  /\ WorkAt(g, "change_write")
  /\ ChangeMoves(g) # {} /\ work[g].role \notin roles
  /\ WorkAnswer(g)
  /\ UNCHANGED dbVars

-----------------------------------------------------------------------------
(* AcceptCandidacy and ReturnCandidacy *)

\* The candidacy and its role as they are now. The last conjunct is MaxPart's:
\* there is an id left for every accept on its way.
AcceptStart(a, m) ==
  /\ WorkAt(a, "idle")
  /\ candStatus[m] \in {"submitted", "returned"} /\ candRole[m] # NoRole
  /\ work' = [work EXCEPT ![a] = [NoWork EXCEPT
                !.pc = "accept_write", !.id = m, !.role = candRole[m]]]
  /\ UNCHANGED dbVars
  /\ partSeq + Cardinality({b \in Committee : WorkAt(b, "accept_write")}) < MaxPart

\* Fault: the entry is inserted without looking for one.
AcceptWriteBlindly(a) ==
  /\ WorkAt(a, "accept_write")
  /\ UpdateCandidacy(work[a].id, "accepted", candRole[work[a].id])
  /\ InsertParticipantRow(work[a].role, work[a].id)
  /\ WorkAnswer(a)
  /\ UNCHANGED <<settingVars, userVars, roleVars, boxVars>>

\* The transaction: the candidacy, then the ballot entry, new or refreshed. A
\* role that has gone fails the entry, and so both.
AcceptWrite(a) ==
  /\ WorkAt(a, "accept_write")
  /\ UpdateCandidacy(work[a].id, "accepted", candRole[work[a].id])
  /\ \/ Entries(work[a].id) = {} /\ InsertParticipantRow(work[a].role, work[a].id)
     \/ \E p \in Entries(work[a].id) : MoveParticipantRows({p}, work[a].role)
  /\ WorkAnswer(a)
  /\ UNCHANGED <<settingVars, userVars, roleVars, boxVars>>

AcceptFails(a) ==
  /\ WorkAt(a, "accept_write")
  /\ work[a].role \notin roles
  /\ WorkAnswer(a)
  /\ UNCHANGED dbVars

ReturnStart(a, m) ==
  /\ WorkAt(a, "idle")
  /\ candStatus[m] # "none"
  /\ work' = [work EXCEPT ![a] = [NoWork EXCEPT !.pc = "return_write", !.id = m]]
  /\ UNCHANGED dbVars

\* Fault: the decision is recorded and the ballot forgotten.
ReturnWriteOnly(a) ==
  /\ WorkAt(a, "return_write")
  /\ UpdateCandidacy(work[a].id, "returned", candRole[work[a].id])
  /\ WorkAnswer(a)
  /\ UNCHANGED <<settingVars, userVars, roleVars, partVars, boxVars>>

\* Fault: the entry goes first, in a statement of its own.
ReturnWriteTorn(a) ==
  /\ WorkAt(a, "return_write")
  /\ \/ /\ Entries(work[a].id) # {}
        /\ DeleteParticipantRows(Entries(work[a].id))
        /\ UNCHANGED <<candVars, work>>
     \/ /\ Entries(work[a].id) = {}
        /\ UpdateCandidacy(work[a].id, "returned", candRole[work[a].id])
        /\ WorkAnswer(a)
        /\ UNCHANGED <<partVars, votes>>
  /\ UNCHANGED <<settingVars, userVars, roleVars, ballots>>

\* The transaction: the candidacy, its entry's votes, its entry.
ReturnWrite(a) ==
  /\ WorkAt(a, "return_write")
  /\ UpdateCandidacy(work[a].id, "returned", candRole[work[a].id])
  /\ DeleteParticipantRows(Entries(work[a].id))
  /\ WorkAnswer(a)
  /\ UNCHANGED <<settingVars, userVars, roleVars, ballots>>

-----------------------------------------------------------------------------
\* A request already running takes its next step.
ChangeStep(g) ==
  \/ ChangeReadCandidacy(g) \/ ChangeReadRole(g) \/ ChangeReadUser(g)
  \/ ChangeWrite(g) \/ ChangeFails(g)

ApplicantStep(q) ==
  \/ SubmitReadGate(q) \/ SubmitReadRoles(q) \/ SubmitReadMine(q)
  \/ SubmitReadGateAgain(q) \/ SubmitReadRole(q) \/ SubmitReadExisting(q)
  \/ SubmitInsert(q) \/ SubmitUpdate(q)
  \/ ChangeReadGate(q) \/ ChangeStep(q)

CommitteeStep(a) ==
  \/ ChangeStep(a) \/ AcceptWrite(a) \/ AcceptFails(a) \/ ReturnWrite(a)

\* A member, or an admin, sends a request.
ApplicantRequest(q) ==
  \E m \in Member, r \in RoleId :
    \/ "submit" \in Errands /\ SubmitArrives(q, m, r)
    \/ "change_mine" \in Errands /\ ChangeArrives(q, m, r)

CommitteeRequest(a) ==
  \E m \in Member :
    \/ "change" \in Errands /\ \E r \in RoleId : ChangeArrives(a, m, r)
    \/ "accept" \in Errands /\ AcceptStart(a, m)
    \/ "return" \in Errands /\ ReturnStart(a, m)

CandidacyRestart == work' = [g \in Clerk |-> NoWork]

-----------------------------------------------------------------------------
(* Properties *)

\* However the accepts of two admins race, a candidacy has one entry on the
\* ballot: nothing in the schema says so, AcceptCandidacy looks before it inserts.
OnePlaceOnBallot ==
  \A p, q \in participants : partCand[p] = partCand[q] /\ partCand[p] # NoMember => p = q

\* ReturnCandidacy takes the entry off the ballot "so a withdrawn candidate cannot
\* keep a tally", and no request that read the candidacy earlier puts it back
\* without its status.
ReturnedOffBallot ==
  \A p \in participants : partCand[p] # NoMember => candStatus[partCand[p]] # "returned"

\* A candidacy is accepted only as long as it has its entry: the two tables, written
\* in one transaction each time. So while no admin deletes entries or roles directly.
AcceptedOnBallot ==
  \A m \in Member : candStatus[m] = "accepted" => Entries(m) # {}

\* "The age requirement is a rule of the post, not a preference, so it binds the
\* committee's own overrides too" (ChangeCandidacyRole): on the candidacy, and on the
\* ballot entry, although age and minimum are read in two statements, written in a
\* third, and not looked at by AcceptCandidacy. So while no post that exists has its
\* minimum raised, no member turns out younger than registered, and no admin edits the
\* post of an entry; minimums may be lowered and members turn out older at any time.
OfAgeOnBallot ==
  /\ \A m \in Member : candStatus[m] # "none" /\ candRole[m] \in roles => OfAge(m, candRole[m])
  /\ \A p \in participants :
       partCand[p] # NoMember /\ partRole[p] \in roles => OfAge(partCand[p], partRole[p])

\* Requests in flight when the window closes may still be written, but only they may:
\* if the window stays closed, members go on sending requests and in the end none of
\* them gets as far as a write, by whichever of the two ways to it.
CandidaciesSettle ==
  <>[](gate = "closed") =>
    <>[](\A q \in Applicant : work[q].pc \notin {"submit_write", "change_write"})

\* And what they may write: no member's request that reads the window after it closed
\* joins those past it, and a candidacy is submitted only by one of those, once.
Past == {q \in Applicant : work[q].pc \in
           {"submit_role", "submit_existing", "submit_write",
            "change_candidacy", "change_role", "change_user", "change_write"}}
LateCandidacies ==
  [][gate = "closed" =>
       /\ Past' \subseteq Past
       /\ \A m \in Member : candStatus[m] # "submitted" /\ candStatus'[m] = "submitted" =>
            \E q \in Past \ Past' : work[q].id = m]_<<gate, candVars, work>>

-----------------------------------------------------------------------------
(* What comments of the code say, which its steps do not keep *)

\* A request of a member is answered (or lost when the process stops).
ByApplicant == \E q \in Applicant : work[q].pc # "idle" /\ work'[q].pc = "idle"

\* handleMyCandidacy: "after acceptance only the committee can change anything".
AcceptedIsTheCommittees ==
  [][\A m \in Member : candStatus[m] = "accepted" /\ ByApplicant =>
       UNCHANGED <<candStatus[m], candRole[m]>>]_<<work, candVars>>
=============================================================================
