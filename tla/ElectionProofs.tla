---------------------------- MODULE ElectionProofs ----------------------------
(***************************************************************************)
(* The whole election, standing and voting interleaved over one database:  *)
(* its types, one place on the ballot for each candidacy and none for one  *)
(* returned, and the ballot box of Voting kept whatever the candidacies    *)
(* do, for every value of the constants. Then what candidacies may still be*)
(* written after the window has closed.                                    *)
(***************************************************************************)
EXTENDS Election, VotingProofs

\* A step of the candidacy requests, which leaves those of the voting alone.
ClerkMoves ==
  /\ UNCHANGED <<cast, adm>>
  /\ \/ \E q \in Applicant : ApplicantRequest(q) \/ ApplicantStep(q)
     \/ \E a \in Committee : CommitteeRequest(a) \/ CommitteeStep(a)

LEMMA Halves ==
  ASSUME [ElectionNext]_electionVars
  PROVE  \/ [VotingNext]_votingVars /\ (UNCHANGED work \/ CandidacyRestart)
         \/ ClerkMoves
<1>1. CASE UNCHANGED electionVars
  BY <1>1 DEF electionVars
<1>2. CASE \E q \in Request :
             ((\E m \in Member : CastArrives(q, m)) \/ CastStep(q)) /\ UNCHANGED work
  BY <1>2 DEF VotingNext
<1>3. CASE \E a \in Admin : ((AtRest(a) /\ AdmRequest(a)) \/ AdmStep(a)) /\ UNCHANGED work
  BY <1>3 DEF VotingNext
<1>4. CASE \E m \in Member : MemberRequest(m) /\ UNCHANGED work
  BY <1>4 DEF VotingNext
<1>5. CASE Restart /\ CandidacyRestart
  BY <1>5 DEF VotingNext
<1>6. CASE \/ \E q \in Applicant : (ApplicantRequest(q) \/ ApplicantStep(q)) /\ UNCHANGED <<cast, adm>>
           \/ \E a \in Committee : ((AtRest(a) /\ CommitteeRequest(a)) \/ CommitteeStep(a))
                                   /\ UNCHANGED <<cast, adm>>
  BY <1>6 DEF ClerkMoves
<1> QED
  BY <1>1, <1>2, <1>3, <1>4, <1>5, <1>6 DEF ElectionNext

-----------------------------------------------------------------------------
(* What the candidacy requests write *)

Writes(g) ==
  \/ g \in Applicant /\ (SubmitInsert(g) \/ SubmitUpdate(g))
  \/ ChangeWrite(g)
  \/ g \in Committee /\ (AcceptWrite(g) \/ ReturnWrite(g))

LEMMA ClerksRead ==
  ASSUME ClerkMoves
  PROVE  UNCHANGED dbVars \/ \E g \in Clerk : Writes(g)
<1>1. ASSUME NEW g, NEW here, NEW there, NEW condition, WorkCheck(g, here, there, condition)
      PROVE  UNCHANGED dbVars
  BY <1>1, Zenon DEF WorkCheck
<1>2. ASSUME NEW g \in Clerk, ChangeStep(g)
      PROVE  UNCHANGED dbVars \/ Writes(g)
  BY <1>1, <1>2, Zenon DEF ChangeStep, ChangeReadCandidacy, ChangeReadRole, ChangeReadUser, ChangeFails, Writes
<1>3. ASSUME NEW q \in Applicant, ApplicantStep(q)
      PROVE  UNCHANGED dbVars \/ Writes(q)
  <2>1. q \in Clerk
    BY DEF Clerk
  <2> QED
    BY <1>1, <1>2, <1>3, <2>1, Zenon
       DEF ApplicantStep, SubmitReadGate, SubmitReadRoles, SubmitReadMine, SubmitReadGateAgain,
           SubmitReadRole, SubmitReadExisting, ChangeReadGate, Writes
<1>4. ASSUME NEW a \in Committee, CommitteeStep(a)
      PROVE  UNCHANGED dbVars \/ Writes(a)
  <2>1. a \in Clerk
    BY DEF Clerk
  <2> QED
    BY <1>2, <1>4, <2>1, Zenon DEF CommitteeStep, AcceptFails, Writes
<1>5. ASSUME NEW q \in Applicant, ApplicantRequest(q)
      PROVE  UNCHANGED dbVars
  BY <1>5, Zenon DEF ApplicantRequest, SubmitArrives, ChangeArrives
<1>6. ASSUME NEW a \in Committee, CommitteeRequest(a)
      PROVE  UNCHANGED dbVars
  BY <1>6, Zenon DEF CommitteeRequest, ChangeArrives, AcceptStart, ReturnStart
<1> QED
  BY <1>3, <1>4, <1>5, <1>6 DEF ClerkMoves, Clerk

-----------------------------------------------------------------------------
(* Type correctness *)

LEMMA WorkMoves ==
  ASSUME CandidacyTypeOK, NEW g \in Clerk, NEW l \in WorkLocals,
         l.pc # "idle" => l.id \in Member, work' = [work EXCEPT ![g] = l]
  PROVE  CandidacyTypeOK'
BY DEF CandidacyTypeOK

LEMMA WorkStays ==
  ASSUME CandidacyTypeOK, NEW g \in Clerk, WorkAnswer(g)
  PROVE  CandidacyTypeOK'
<1>1. NoWork \in WorkLocals /\ NoWork.pc = "idle"
  BY DEF NoWork, WorkLocals, WorkPC, Section, NoRole, CandidacyStatus
<1> QED
  BY <1>1, WorkMoves DEF WorkAnswer

LEMMA WorkGoesOn ==
  ASSUME CandidacyTypeOK, NEW g \in Clerk, NEW there \in WorkPC, work[g].pc # "idle", WorkGoto(g, there)
  PROVE  CandidacyTypeOK'
<1>1. work[g] \in WorkLocals /\ work[g].id \in Member
  BY DEF CandidacyTypeOK
<1>2. [work[g] EXCEPT !.pc = there] \in WorkLocals /\ [work[g] EXCEPT !.pc = there].id = work[g].id
  BY <1>1 DEF WorkLocals
<1>3. work' = [work EXCEPT ![g] = [work[g] EXCEPT !.pc = there]]
  BY DEF WorkGoto
<1> QED
  BY <1>1, <1>2, <1>3, WorkMoves

LEMMA WorkTyped ==
  ASSUME VotingTypeOK, CandidacyTypeOK, ClerkMoves
  PROVE  CandidacyTypeOK'
<1>0. /\ \A g \in Clerk : work[g] \in WorkLocals /\ (work[g].pc # "idle" => work[g].id \in Member)
      /\ candStatus \in [Member -> CandidacyStatus] /\ candRole \in [Member -> Section]
      /\ RoleId \subseteq Section
  BY DEF CandidacyTypeOK, VotingTypeOK, DBTypeOK, Section
<1>1. ASSUME NEW g \in Clerk, NEW here \in WorkPC \ {"idle"}, NEW there \in WorkPC, NEW condition,
             WorkCheck(g, here, there, condition)
      PROVE  CandidacyTypeOK'
  <2>1. work[g].pc = here /\ (WorkGoto(g, there) \/ WorkAnswer(g))
    BY <1>1, Zenon DEF WorkCheck, WorkAt
  <2>2. work[g].pc # "idle"
    BY <1>1, <2>1
  <2> QED
    BY <2>1, <2>2, WorkGoesOn, WorkStays
\* The status of the candidacy is read into the locals.
<1>2. ASSUME NEW g \in Clerk, NEW there \in WorkPC, work[g].pc # "idle",
             work' = [work EXCEPT ![g] = [work[g] EXCEPT !.pc = there, !.status = candStatus[work[g].id]]]
      PROVE  CandidacyTypeOK'
  <2> DEFINE l == [work[g] EXCEPT !.pc = there, !.status = candStatus[work[g].id]]
  <2>1. l \in WorkLocals /\ l.id = work[g].id
    BY <1>0, <1>2 DEF WorkLocals
  <2> HIDE DEF l
  <2>2. work' = [work EXCEPT ![g] = l]
    BY <1>2 DEF l
  <2> QED
    BY <1>0, <1>2, <2>1, <2>2, WorkMoves
<1>3. ASSUME NEW g \in Clerk, ChangeStep(g)
      PROVE  CandidacyTypeOK'
  <2>1. CASE ChangeReadCandidacy(g)
    BY <1>2, <2>1, WorkStays DEF ChangeReadCandidacy, WorkAt, WorkPC
  <2>2. CASE ChangeReadRole(g)
    <3> DEFINE l == [work[g] EXCEPT !.pc = "change_user", !.years = minAge[work[g].role]]
    <3>1. CASE WorkAnswer(g)
      BY <3>1, WorkStays
    <3>2. CASE work[g].role \in roles /\ work' = [work EXCEPT ![g] = l]
      <4>1. work[g].pc # "idle" /\ minAge[work[g].role] \in Years
        BY <2>2, <3>2 DEF ChangeReadRole, WorkAt, VotingTypeOK, DBTypeOK
      <4>2. l \in WorkLocals /\ l.id = work[g].id
        BY <1>0, <4>1 DEF WorkLocals, WorkPC
      <4> HIDE DEF l
      <4> QED
        BY <1>0, <3>2, <4>1, <4>2, WorkMoves
    <3> QED
      BY <2>2, <3>1, <3>2 DEF ChangeReadRole
  <2>3. CASE ChangeReadUser(g)
    BY <1>1, <2>3 DEF ChangeReadUser, WorkPC
  <2>4. CASE ChangeWrite(g) \/ ChangeFails(g)
    BY <2>4, WorkStays DEF ChangeWrite, ChangeFails
  <2> QED
    BY <1>3, <2>1, <2>2, <2>3, <2>4 DEF ChangeStep
<1>4. ASSUME NEW q \in Applicant, ApplicantStep(q)
      PROVE  CandidacyTypeOK'
  <2>0. q \in Clerk
    BY DEF Clerk
  <2>1. SubmitReadGate(q) => CandidacyTypeOK'
    BY <1>1, <2>0 DEF SubmitReadGate, WorkPC
  <2>2. SubmitReadRoles(q) => CandidacyTypeOK'
    BY <1>1, <2>0 DEF SubmitReadRoles, WorkPC
  <2>3. SubmitReadMine(q) => CandidacyTypeOK'
    BY <1>1, <2>0 DEF SubmitReadMine, WorkPC
  <2>4. SubmitReadGateAgain(q) => CandidacyTypeOK'
    BY <1>1, <2>0 DEF SubmitReadGateAgain, WorkPC
  <2>5. SubmitReadRole(q) => CandidacyTypeOK'
    BY <1>1, <2>0 DEF SubmitReadRole, WorkPC
  <2>6. SubmitReadExisting(q) => CandidacyTypeOK'
    BY <1>2, <2>0, WorkStays DEF SubmitReadExisting, WorkAt, WorkPC
  <2>7. SubmitInsert(q) \/ SubmitUpdate(q) => CandidacyTypeOK'
    BY <2>0, WorkStays DEF SubmitInsert, SubmitUpdate
  <2>8. ChangeReadGate(q) => CandidacyTypeOK'
    BY <1>1, <2>0 DEF ChangeReadGate, WorkPC
  <2> QED
    BY <1>3, <1>4, <2>0, <2>1, <2>2, <2>3, <2>4, <2>5, <2>6, <2>7, <2>8 DEF ApplicantStep
<1>5. ASSUME NEW a \in Committee, CommitteeStep(a)
      PROVE  CandidacyTypeOK'
  <2>0. a \in Clerk
    BY DEF Clerk
  <2> QED
    BY <1>3, <1>5, <2>0, WorkStays DEF CommitteeStep, AcceptWrite, AcceptFails, ReturnWrite
<1>6. ASSUME NEW g \in Clerk, NEW m \in Member, NEW r \in RoleId, SubmitArrives(g, m, r) \/ ChangeArrives(g, m, r)
      PROVE  CandidacyTypeOK'
  <2>0. DBTypeOK
    BY DEF VotingTypeOK
  <2>1. r \in Section /\ NoRole \in Section /\ age[m] \in Years
    BY <1>0, <2>0 DEF DBTypeOK, Section
  <2>2. CASE SubmitArrives(g, m, r)
    <3> DEFINE l == [NoWork EXCEPT !.pc = "submit_gate", !.id = m, !.role = r, !.years = age[m]]
    <3>1. l \in WorkLocals /\ l.id \in Member
      BY <2>1 DEF NoWork, WorkLocals, WorkPC, CandidacyStatus
    <3>2. work' = [work EXCEPT ![g] = l]
      BY <2>2 DEF SubmitArrives
    <3> HIDE DEF l
    <3> QED
      BY <3>1, <3>2, WorkMoves
  <2>3. CASE ChangeArrives(g, m, r)
    <3> DEFINE l == [NoWork EXCEPT !.id = m, !.role = r,
                       !.pc = IF ByMember(g) THEN "change_gate" ELSE "change_candidacy"]
    <3>1. l \in WorkLocals /\ l.id \in Member
      BY <2>1 DEF NoWork, WorkLocals, WorkPC, CandidacyStatus
    <3>2. work' = [work EXCEPT ![g] = l]
      BY <2>3 DEF ChangeArrives
    <3> HIDE DEF l
    <3> QED
      BY <3>1, <3>2, WorkMoves
  <2> QED
    BY <1>6, <2>2, <2>3
<1>7. ASSUME NEW a \in Clerk, NEW m \in Member, AcceptStart(a, m) \/ ReturnStart(a, m)
      PROVE  CandidacyTypeOK'
  <2>0. candRole[m] \in Section /\ NoRole \in Section
    BY <1>0 DEF Section
  <2>1. CASE AcceptStart(a, m)
    <3> DEFINE l == [NoWork EXCEPT !.pc = "accept_write", !.id = m, !.role = candRole[m]]
    <3>1. l \in WorkLocals /\ l.id \in Member
      BY <2>0 DEF NoWork, WorkLocals, WorkPC, CandidacyStatus
    <3>2. work' = [work EXCEPT ![a] = l]
      BY <2>1 DEF AcceptStart
    <3> HIDE DEF l
    <3> QED
      BY <3>1, <3>2, WorkMoves
  <2>2. CASE ReturnStart(a, m)
    <3> DEFINE l == [NoWork EXCEPT !.pc = "return_write", !.id = m]
    <3>1. l \in WorkLocals /\ l.id \in Member
      BY <2>0 DEF NoWork, WorkLocals, WorkPC, CandidacyStatus
    <3>2. work' = [work EXCEPT ![a] = l]
      BY <2>2 DEF ReturnStart
    <3> HIDE DEF l
    <3> QED
      BY <3>1, <3>2, WorkMoves
  <2> QED
    BY <1>7, <2>1, <2>2
<1> QED
  BY <1>3, <1>4, <1>5, <1>6, <1>7 DEF ClerkMoves, ApplicantRequest, CommitteeRequest, Clerk

\* The four transactions keep the tables' types.
LEMMA WritesTyped ==
  ASSUME VotingTypeOK, CandidacyTypeOK, NEW g \in Clerk, Writes(g)
  PROVE  DBTypeOK'
<1>0. /\ DBTypeOK /\ work[g] \in WorkLocals
      /\ candStatus \in [Member -> CandidacyStatus] /\ candRole \in [Member -> Section]
  BY DEF VotingTypeOK, DBTypeOK, CandidacyTypeOK
<1>1. /\ work[g].role \in Section
      /\ work[g].pc # "idle" => work[g].id \in Member
  BY DEF CandidacyTypeOK, WorkLocals
<1>2. ASSUME NEW m \in Member, NEW status \in CandidacyStatus, NEW role \in Section,
             UpdateCandidacy(m, status, role)
      PROVE  candStatus' \in [Member -> CandidacyStatus] /\ candRole' \in [Member -> Section]
  BY <1>0, <1>2 DEF UpdateCandidacy, candVars
<1>3. ASSUME UNCHANGED <<settingVars, userVars, roleVars, partVars, boxVars>>,
             candStatus' \in [Member -> CandidacyStatus], candRole' \in [Member -> Section]
      PROVE  DBTypeOK'
  BY <1>0, <1>3 DEF DBTypeOK, userVars, settingVars, roleVars, partVars, boxVars
\* The tables of the ballot's entries and of the votes are all that differs.
<1>4. ASSUME UNCHANGED <<settingVars, userVars, roleVars, ballots>>,
             candStatus' \in [Member -> CandidacyStatus], candRole' \in [Member -> Section],
             participants' \subseteq PartId, partSeq' \in 0 .. MaxPart, votes' \subseteq Vote,
             partRole' \in [PartId -> Section], partCand' \in [PartId -> Member \cup {NoMember}]
      PROVE  DBTypeOK'
  BY <1>0, <1>4 DEF DBTypeOK, userVars, settingVars, roleVars
<1>5. ASSUME NEW P, NEW r \in Section, MoveParticipantRows(P, r)
      PROVE  /\ participants' \subseteq PartId /\ partSeq' \in 0 .. MaxPart
             /\ partRole' \in [PartId -> Section] /\ partCand' \in [PartId -> Member \cup {NoMember}]
  BY <1>0, <1>5 DEF MoveParticipantRows, DBTypeOK
<1>6. CASE g \in Applicant /\ SubmitInsert(g)
  <2>1. work[g].id \in Member
    BY <1>1, <1>6 DEF SubmitInsert, WorkAt
  <2>2. candStatus' \in [Member -> CandidacyStatus] /\ candRole' \in [Member -> Section]
    BY <1>0, <1>1, <1>6, <2>1 DEF SubmitInsert, candVars, CandidacyStatus
  <2> QED
    BY <1>3, <1>6, <2>2 DEF SubmitInsert
<1>7. CASE g \in Applicant /\ SubmitUpdate(g)
  <2>1. work[g].id \in Member
    BY <1>1, <1>7 DEF SubmitUpdate, WorkAt
  <2>2. candStatus' \in [Member -> CandidacyStatus] /\ candRole' \in [Member -> Section]
    BY <1>1, <1>2, <1>7, <2>1 DEF SubmitUpdate, CandidacyStatus
  <2> QED
    BY <1>3, <1>7, <2>2 DEF SubmitUpdate
<1>8. CASE ChangeWrite(g)
  <2>1. work[g].id \in Member
    BY <1>1, <1>8 DEF ChangeWrite, WorkAt
  <2>2. candStatus[work[g].id] \in CandidacyStatus
    BY <1>0, <2>1
  <2>3. candStatus' \in [Member -> CandidacyStatus] /\ candRole' \in [Member -> Section]
    BY <1>1, <1>2, <1>8, <2>1, <2>2 DEF ChangeWrite
  <2>4. MoveParticipantRows(ChangeMoves(g), work[g].role) /\ UNCHANGED <<settingVars, userVars, roleVars, boxVars>>
    BY <1>8 DEF ChangeWrite
  <2> QED
    BY <1>0, <1>1, <1>4, <1>5, <2>3, <2>4 DEF DBTypeOK, boxVars
<1>9. CASE g \in Committee /\ AcceptWrite(g)
  <2>1. work[g].id \in Member
    BY <1>1, <1>9 DEF AcceptWrite, WorkAt
  <2>2. candRole[work[g].id] \in Section
    BY <1>0, <2>1
  <2>3. candStatus' \in [Member -> CandidacyStatus] /\ candRole' \in [Member -> Section]
    BY <1>2, <1>9, <2>1, <2>2 DEF AcceptWrite, CandidacyStatus
  <2>4. votes' \subseteq Vote /\ UNCHANGED <<settingVars, userVars, roleVars, ballots>>
    BY <1>0, <1>9 DEF AcceptWrite, boxVars, DBTypeOK
  <2>5. CASE InsertParticipantRow(work[g].role, work[g].id)
    <3>1. partSeq + 1 \in PartId
      BY <1>0, <2>5, DBAssumption DEF InsertParticipantRow, DBTypeOK, PartId
    <3>2. /\ participants' \subseteq PartId /\ partSeq' \in 0 .. MaxPart
          /\ partRole' \in [PartId -> Section] /\ partCand' \in [PartId -> Member \cup {NoMember}]
      BY <1>0, <1>1, <2>1, <2>5, <3>1, DBAssumption DEF InsertParticipantRow, DBTypeOK, PartId
    <3> QED
      BY <1>4, <2>3, <2>4, <3>2
  <2>6. ASSUME NEW p, MoveParticipantRows({p}, work[g].role)
        PROVE  DBTypeOK'
    BY <1>1, <1>4, <1>5, <2>3, <2>4, <2>6
  <2> QED
    BY <1>9, <2>5, <2>6 DEF AcceptWrite
<1>10. CASE g \in Committee /\ ReturnWrite(g)
  <2>1. work[g].id \in Member
    BY <1>1, <1>10 DEF ReturnWrite, WorkAt
  <2>2. candRole[work[g].id] \in Section
    BY <1>0, <2>1
  <2>3. candStatus' \in [Member -> CandidacyStatus] /\ candRole' \in [Member -> Section]
    BY <1>2, <1>10, <2>1, <2>2 DEF ReturnWrite, CandidacyStatus
  <2>4. DeleteParticipantRows(Entries(work[g].id)) /\ UNCHANGED <<settingVars, userVars, roleVars, ballots>>
    BY <1>10 DEF ReturnWrite
  <2>5. /\ participants' \subseteq PartId /\ partSeq' \in 0 .. MaxPart /\ votes' \subseteq Vote
        /\ partRole' \in [PartId -> Section] /\ partCand' \in [PartId -> Member \cup {NoMember}]
    BY <1>0, <2>4 DEF DeleteParticipantRows, DBTypeOK, Section
  <2> QED
    BY <1>4, <2>3, <2>4, <2>5
<1> QED
  BY <1>6, <1>7, <1>8, <1>9, <1>10 DEF Writes

LEMMA ElectionTypeInit == ElectionInit => ElectionTypeOK
<1> SUFFICES ASSUME ElectionInit PROVE ElectionTypeOK
  OBVIOUS
<1>1. NoWork \in WorkLocals /\ NoWork.pc = "idle"
  BY DEF NoWork, WorkLocals, WorkPC, Section, NoRole, CandidacyStatus
<1> QED
  BY <1>1, VotingTypeInit DEF ElectionInit, CandidacyInit, CandidacyTypeOK, ElectionTypeOK

LEMMA ElectionTypeStep ==
  ElectionTypeOK /\ [ElectionNext]_electionVars => ElectionTypeOK'
<1> SUFFICES ASSUME ElectionTypeOK, [ElectionNext]_electionVars PROVE ElectionTypeOK'
  OBVIOUS
<1> USE DEF ElectionTypeOK
<1>1. CASE [VotingNext]_votingVars /\ (UNCHANGED work \/ CandidacyRestart)
  <2>1. NoWork \in WorkLocals /\ NoWork.pc = "idle"
    BY DEF NoWork, WorkLocals, WorkPC, Section, NoRole, CandidacyStatus
  <2>2. CandidacyTypeOK'
    BY <1>1, <2>1 DEF CandidacyTypeOK, CandidacyRestart
  <2> QED
    BY <1>1, <2>2, VotingTypeStep
<1>2. CASE ClerkMoves
  <2>1. CandidacyTypeOK'
    BY <1>2, WorkTyped
  <2>2. DBTypeOK'
    <3>1. CASE UNCHANGED dbVars
      BY <3>1 DEF VotingTypeOK, DBTypeOK, dbVars, userVars, settingVars, roleVars, partVars, candVars, boxVars
    <3> QED
      BY <1>2, <3>1, ClerksRead, WritesTyped
  <2> QED
    BY <1>2, <2>1, <2>2 DEF VotingTypeOK, ClerkMoves
<1> QED
  BY <1>1, <1>2, Halves

\* Tables and locals keep their types when candidacies and voting run together.
THEOREM ElectionTyped == ElectionSpec => []ElectionTypeOK
  BY ElectionTypeInit, ElectionTypeStep, PTL DEF ElectionSpec

-----------------------------------------------------------------------------
(* The ballot box under candidacies: they add and move candidates, and strike one *)
(* with the votes for it; no ballot is theirs to touch.                           *)

LEMMA WritesSound ==
  ASSUME ElectionTypeOK, BallotBoxSound, NEW g \in Clerk, Writes(g)
  PROVE  BallotBoxSound'
<1> USE DEF userVars, roleVars, partVars, candVars, boxVars
<1>0. VotingTypeOK /\ DBTypeOK
  BY DEF ElectionTypeOK, VotingTypeOK
<1>1. ASSUME NEW P, NEW r, MoveParticipantRows(P, r), UNCHANGED <<users, roles, ballots, votes>>
      PROVE  BallotBoxSound'
  BY <1>0, <1>1 DEF MoveParticipantRows, BallotBoxSound, OneBallotPerMember, VotesOnOwnBallot,
                    OneVotePerCandidate, NoDanglingRows, DBTypeOK
<1>2. ASSUME NEW r, NEW c, InsertParticipantRow(r, c), UNCHANGED <<users, roles, ballots, votes>>
      PROVE  BallotBoxSound'
  <2>1. partSeq + 1 \in PartId
    BY <1>0, <1>2, DBAssumption DEF InsertParticipantRow, DBTypeOK, PartId
  <2>2. \A p \in participants' : partRole'[p] \in roles \cup {NoRole}
    BY <1>0, <1>2, <2>1 DEF InsertParticipantRow, BallotBoxSound, NoDanglingRows, DBTypeOK
  <2>3. participants \subseteq participants'
    BY <1>2 DEF InsertParticipantRow
  <2> QED
    BY <1>2, <2>2, <2>3 DEF BallotBoxSound, OneBallotPerMember, VotesOnOwnBallot,
                            OneVotePerCandidate, NoDanglingRows
<1>3. CASE SubmitInsert(g) \/ SubmitUpdate(g)
  BY <1>3, SoundUnchanged DEF SubmitInsert, SubmitUpdate
<1>4. CASE ChangeWrite(g)
  BY <1>1, <1>4 DEF ChangeWrite
<1>5. CASE AcceptWrite(g)
  BY <1>1, <1>2, <1>5 DEF AcceptWrite
<1>6. CASE ReturnWrite(g)
  BY <1>0, <1>6, SoundDelete DEF ReturnWrite, BallotBoxSound, NoDanglingRows
<1> QED
  BY <1>3, <1>4, <1>5, <1>6 DEF Writes

LEMMA ElectionSoundStep ==
  ElectionTypeOK /\ BallotBoxSound /\ [ElectionNext]_electionVars => BallotBoxSound'
<1> SUFFICES ASSUME ElectionTypeOK, BallotBoxSound, [ElectionNext]_electionVars
             PROVE  BallotBoxSound'
  OBVIOUS
<1>1. CASE [VotingNext]_votingVars
  BY <1>1, SoundStep DEF ElectionTypeOK
<1>2. CASE UNCHANGED dbVars
  BY <1>2, SoundUnchanged DEF dbVars, userVars, roleVars, partVars
<1> QED
  BY <1>1, <1>2, Halves, ClerksRead, WritesSound

\* The box stays sound with candidacies accepted, moved and returned meanwhile.
THEOREM ElectionBoxIsSound == ElectionSpec => []BallotBoxSound
<1>1. ElectionInit => BallotBoxSound
  BY SoundInit DEF ElectionInit
<1> QED
  BY <1>1, ElectionTyped, ElectionSoundStep, PTL DEF ElectionSpec

LEMMA ElectionBoxStep ==
  ElectionTypeOK /\ ElectionTypeOK' /\ BallotBoxSound /\ BallotBoxSound' /\ [ElectionNext]_electionVars
    => [Box!Next]_(Box!boxVars)
<1> SUFFICES ASSUME ElectionTypeOK, ElectionTypeOK', BallotBoxSound, BallotBoxSound',
                    [ElectionNext]_electionVars
             PROVE  Box!Next \/ UNCHANGED Box!boxVars
  OBVIOUS
<1>0. VotingTypeOK /\ VotingTypeOK'
  BY DEF ElectionTypeOK
<1>1. CASE [VotingNext]_votingVars
  BY <1>0, <1>1, BoxStep
<1>2. ASSUME NEW g \in Clerk, Writes(g)
      PROVE  Box!Next \/ UNCHANGED Box!boxVars
  <2>1. CASE ReturnWrite(g)
    BY <1>0, <2>1, BoxStrike DEF ReturnWrite, DeleteParticipantRows
  <2>2. CASE ~ReturnWrite(g)
    <3>1. UNCHANGED boxVars
      BY <1>2, <2>2 DEF Writes, SubmitInsert, SubmitUpdate, ChangeWrite, AcceptWrite
    <3> QED
      BY <3>1, BoxStutter
  <2> QED
    BY <2>1, <2>2
<1>3. CASE UNCHANGED dbVars
  BY <1>3, BoxStutter DEF dbVars
<1> QED
  BY <1>1, <1>2, <1>3, Halves, ClerksRead

\* The whole election implements the ballot box: returning a candidate strikes the
\* votes for that candidate, and nothing else of a candidacy reaches a ballot.
THEOREM ElectionImplementsBallotBox == ElectionSpec => BallotBoxSpec
<1>1. ElectionInit => Box!Init
  BY BoxInit DEF ElectionInit
<1> QED
  BY <1>1, ElectionBoxStep, ElectionTyped, ElectionBoxIsSound, PTL
     DEF ElectionSpec, BallotBoxSpec, Box!Spec

-----------------------------------------------------------------------------
(* The entries of the ballot and the candidacies they come from *)

\* An elections admin takes entries off the ballot, with a role or one by one.
DeletesDirectly(a) == DeleteRoleWrite(a) \/ DeleteParticipantWrite(a)

LEMMA DirectDeletes ==
  ASSUME NEW a, DeletesDirectly(a)
  PROVE  (\E P : DeleteParticipantRows(P)) /\ UNCHANGED candStatus
BY DEF DeletesDirectly, DeleteRoleWrite, DeleteParticipantWrite, candVars

\* What any step does to them.
LEMMA EntriesMove ==
  ASSUME ElectionTypeOK, [ElectionNext]_electionVars
  PROVE  \/ UNCHANGED <<participants, partSeq, partCand, candStatus>>
         \/ \E a \in Admin : DeletesDirectly(a)
         \/ (\E r : InsertParticipantRow(r, NoMember)) /\ UNCHANGED candStatus
         \/ UNCHANGED <<participants, partSeq, partCand>>
            /\ \E m \in Member, s \in {"none", "submitted"} : candStatus' = [candStatus EXCEPT ![m] = s]
         \/ \E a \in Committee : work[a].id \in Member /\ (AcceptWrite(a) \/ ReturnWrite(a))
<1> DEFINE Still == UNCHANGED <<participants, partSeq, partCand, candStatus>>
<1> USE DEF partVars, candVars
<1>0. UNCHANGED dbVars => Still
  BY DEF dbVars
<1>1. ASSUME NEW g \in Clerk
      PROVE  work[g].pc # "idle" => work[g].id \in Member
  BY DEF ElectionTypeOK, CandidacyTypeOK
<1>2. ASSUME NEW m \in Member, NEW role, UpdateCandidacy(m, candStatus[m], role)
      PROVE  UNCHANGED candStatus
  BY <1>2 DEF UpdateCandidacy, ElectionTypeOK, VotingTypeOK, DBTypeOK
<1>3. ASSUME NEW g \in Clerk, ChangeWrite(g)
      PROVE  Still
  BY <1>1, <1>2, <1>3 DEF ChangeWrite, WorkAt, MoveParticipantRows
<1>4. ASSUME NEW g \in Clerk, SubmitInsert(g) \/ SubmitUpdate(g)
      PROVE  \/ Still
             \/ UNCHANGED <<participants, partSeq, partCand>> /\ work[g].id \in Member
                /\ candStatus' = [candStatus EXCEPT ![work[g].id] = "submitted"]
  BY <1>1, <1>4 DEF SubmitInsert, SubmitUpdate, WorkAt, UpdateCandidacy
<1>5. ASSUME NEW a \in Committee, AcceptWrite(a) \/ ReturnWrite(a)
      PROVE  work[a].id \in Member
  BY <1>1, <1>5 DEF AcceptWrite, ReturnWrite, WorkAt, Clerk
<1>6. ASSUME NEW q \in Request, CastStep(q) \/ \E m \in Member : CastArrives(q, m)
      PROVE  Still
  BY <1>0, <1>6 DEF CastStep, CastArrives, CastReadStatus, CastReadMember, CastReadVoted, CastReadMode,
     CastReadSingle, CastReadSelections, CastReadRoles, CastReadCandidates, CastWrite, CastRefused
<1>7. ASSUME NEW a \in Admin, AdmRequest(a) \/ AdmStep(a)
      PROVE  \/ Still
             \/ DeletesDirectly(a)
             \/ (\E r : InsertParticipantRow(r, NoMember)) /\ UNCHANGED candStatus
  <2>1. CASE DeleteRoleWrite(a) \/ DeleteParticipantWrite(a)
    BY <2>1 DEF DeletesDirectly
  <2>2. ASSUME NEW r, CreateParticipant(a, r)
        PROVE  InsertParticipantRow(r, NoMember) /\ UNCHANGED candStatus
    BY <2>2 DEF CreateParticipant
  <2>3. ASSUME NEW p, NEW r, UpdateParticipant(a, p, r)
        PROVE  Still
    BY <2>3 DEF UpdateParticipant, MoveParticipantRows
  <2>4. ASSUME AdmStep(a), ~DeleteRoleWrite(a), ~DeleteParticipantWrite(a)
        PROVE  Still
    BY <1>0, <2>4 DEF AdmStep, OpenStep, OpenReadGate, OpenReadMode, OpenReadSingle, OpenReadSelections,
       OpenReadRoles, OpenReadCandidates, OpenWrite, ResetWrite, SettingsReadMode, SettingsWriteMode,
       SettingsWriteSelections, GateReadStatus, GateWrite
  <2>5. CASE AdmRequest(a)
    <3>1. \/ Still
          \/ \E r \in Section : CreateParticipant(a, r)
          \/ \E p \in PartId, r \in Section : UpdateParticipant(a, p, r)
      BY <1>0, <2>5 DEF AdmRequest, OpenStart, StopVoting, ResetStart, CreateRole, UpdateRole,
         DeleteRoleStart, DeleteParticipantStart, SettingsStart, GateStart, GateClose
    <3> QED
      BY <2>2, <2>3, <3>1
  <2> QED
    BY <1>7, <2>1, <2>4, <2>5
<1>8. ASSUME NEW m \in Member, MemberRequest(m)
      PROVE  \/ Still
             \/ UNCHANGED <<participants, partSeq, partCand>> /\ candStatus' = [candStatus EXCEPT ![m] = "none"]
  BY <1>8 DEF MemberRequest, CorrectedAge, UpdateUser, SetUserStatus, DeleteUser, DeleteUserRows
<1>9. Restart \/ UNCHANGED votingVars => Still
  BY <1>0 DEF Restart, votingVars
<1> HIDE DEF Still
<1>10. CASE [VotingNext]_votingVars
  BY <1>6, <1>7, <1>8, <1>9, <1>10 DEF VotingNext, Still
<1>11. ASSUME NEW g \in Clerk, Writes(g)
       PROVE  \/ Still
              \/ UNCHANGED <<participants, partSeq, partCand>>
                 /\ \E m \in Member : candStatus' = [candStatus EXCEPT ![m] = "submitted"]
              \/ g \in Committee /\ work[g].id \in Member /\ (AcceptWrite(g) \/ ReturnWrite(g))
  BY <1>3, <1>4, <1>5, <1>11 DEF Writes
<1>12. CASE ClerkMoves
  BY <1>0, <1>11, <1>12, ClerksRead DEF Still
<1> QED
  BY <1>10, <1>12, Halves

LEMMA UpdatesStatus ==
  ASSUME ElectionTypeOK, NEW m \in Member, NEW status, NEW role, UpdateCandidacy(m, status, role)
  PROVE  /\ \A n \in Member : n # m => candStatus'[n] = candStatus[n]
         /\ candStatus'[m] \in {"none", status}
BY DEF UpdateCandidacy, candVars, ElectionTypeOK, VotingTypeOK, DBTypeOK

LEMMA InsertsEntry ==
  ASSUME ElectionTypeOK, NEW r, NEW c, InsertParticipantRow(r, c)
  PROVE  /\ \A p \in participants' : IF p = partSeq + 1 THEN partCand'[p] = c
                                     ELSE p \in participants /\ partCand'[p] = partCand[p]
<1>1. partSeq + 1 \in PartId
  BY DBAssumption DEF ElectionTypeOK, VotingTypeOK, DBTypeOK, InsertParticipantRow, PartId
<1> QED
  BY <1>1 DEF ElectionTypeOK, VotingTypeOK, DBTypeOK, InsertParticipantRow

LEMMA DeletesEntries ==
  ASSUME ElectionTypeOK, NEW P, DeleteParticipantRows(P)
  PROVE  \A p \in participants' : p \in participants /\ p \notin P /\ partCand'[p] = partCand[p]
BY DEF ElectionTypeOK, VotingTypeOK, DBTypeOK, DeleteParticipantRows

LEMMA OnePlaceStep ==
  ElectionTypeOK /\ OnePlaceOnBallot /\ [ElectionNext]_electionVars => OnePlaceOnBallot'
<1> SUFFICES ASSUME ElectionTypeOK, OnePlaceOnBallot, [ElectionNext]_electionVars
             PROVE  OnePlaceOnBallot'
  OBVIOUS
<1>1. ASSUME \A p \in participants' : p \in participants /\ partCand'[p] = partCand[p]
      PROVE  OnePlaceOnBallot'
  BY <1>1 DEF OnePlaceOnBallot
<1>2. ASSUME NEW P, DeleteParticipantRows(P)
      PROVE  OnePlaceOnBallot'
  BY <1>1, <1>2, DeletesEntries
<1>3. ASSUME NEW r, NEW c, InsertParticipantRow(r, c), c = NoMember \/ Entries(c) = {}
      PROVE  OnePlaceOnBallot'
  BY <1>3, InsertsEntry DEF OnePlaceOnBallot, Entries
<1>4. ASSUME NEW a \in Committee, AcceptWrite(a)
      PROVE  OnePlaceOnBallot'
  <2>1. ASSUME NEW p, NEW r, MoveParticipantRows({p}, r)
        PROVE  OnePlaceOnBallot'
    BY <1>1, <2>1 DEF MoveParticipantRows
  <2> QED
    BY <1>3, <1>4, <2>1 DEF AcceptWrite
<1> QED
  BY <1>1, <1>2, <1>3, <1>4, EntriesMove, DirectDeletes DEF ReturnWrite

\* A candidacy has one entry on the ballot, however many admins accept it at once:
\* AcceptCandidacy inserts an entry only where, in the same transaction, it found none.
THEOREM OnePlaceEach == ElectionSpec => []OnePlaceOnBallot
<1>1. ElectionInit => OnePlaceOnBallot
  BY DEF ElectionInit, VotingInit, DBInit, OnePlaceOnBallot
<1> QED
  BY <1>1, ElectionTyped, OnePlaceStep, PTL DEF ElectionSpec

LEMMA ReturnedStep ==
  ElectionTypeOK /\ ReturnedOffBallot /\ [ElectionNext]_electionVars => ReturnedOffBallot'
<1> SUFFICES ASSUME ElectionTypeOK, ReturnedOffBallot, [ElectionNext]_electionVars
             PROVE  ReturnedOffBallot'
  OBVIOUS
<1>0. /\ \A p \in participants : partCand[p] \in Member \cup {NoMember}
      /\ candStatus \in [Member -> CandidacyStatus]
  BY DEF ElectionTypeOK, VotingTypeOK, DBTypeOK
<1>1. ASSUME \A p \in participants' : p \in participants /\ partCand'[p] = partCand[p],
             \A m \in Member : candStatus'[m] = "returned" => candStatus[m] = "returned"
      PROVE  ReturnedOffBallot'
  BY <1>0, <1>1 DEF ReturnedOffBallot
<1>2. CASE (\E P : DeleteParticipantRows(P)) /\ UNCHANGED candStatus
  BY <1>1, <1>2, DeletesEntries
<1>3. CASE (\E r : InsertParticipantRow(r, NoMember)) /\ UNCHANGED candStatus
  BY <1>3, InsertsEntry DEF ReturnedOffBallot
<1>4. CASE \/ UNCHANGED <<participants, partSeq, partCand, candStatus>>
           \/ UNCHANGED <<participants, partSeq, partCand>>
              /\ \E m \in Member, s \in {"none", "submitted"} : candStatus' = [candStatus EXCEPT ![m] = s]
  BY <1>0, <1>1, <1>4
<1>5. ASSUME NEW a \in Committee, work[a].id \in Member, AcceptWrite(a)
      PROVE  ReturnedOffBallot'
  <2>1. /\ \A n \in Member : n # work[a].id => candStatus'[n] = candStatus[n]
        /\ candStatus'[work[a].id] # "returned"
    BY <1>5, UpdatesStatus DEF AcceptWrite
  <2>2. CASE InsertParticipantRow(work[a].role, work[a].id)
    BY <1>0, <2>1, <2>2, InsertsEntry DEF ReturnedOffBallot
  <2>3. ASSUME NEW p, NEW r, MoveParticipantRows({p}, r)
        PROVE  ReturnedOffBallot'
    BY <1>1, <2>1, <2>3 DEF MoveParticipantRows
  <2> QED
    BY <1>5, <2>2, <2>3 DEF AcceptWrite
<1>6. ASSUME NEW a \in Committee, work[a].id \in Member, ReturnWrite(a)
      PROVE  ReturnedOffBallot'
  <2>1. \A n \in Member : n # work[a].id => candStatus'[n] = candStatus[n]
    BY <1>6, UpdatesStatus DEF ReturnWrite
  <2>2. \A p \in participants' : p \in participants /\ partCand'[p] = partCand[p] /\ partCand[p] # work[a].id
    BY <1>6, DeletesEntries DEF ReturnWrite, Entries
  <2> QED
    BY <1>0, <2>1, <2>2 DEF ReturnedOffBallot
<1> QED
  BY <1>2, <1>3, <1>4, <1>5, <1>6, EntriesMove, DirectDeletes

\* A returned candidate is off the ballot: ReturnCandidacy takes the entry away as it
\* writes the status, and no request that read the candidacy earlier puts one back alone.
THEOREM ReturnedStayOff == ElectionSpec => []ReturnedOffBallot
<1>1. ElectionInit => ReturnedOffBallot
  BY DEF ElectionInit, VotingInit, DBInit, ReturnedOffBallot
<1> QED
  BY <1>1, ElectionTyped, ReturnedStep, PTL DEF ElectionSpec

-----------------------------------------------------------------------------
(* An accepted candidacy keeps its entry, while no admin deletes entries or roles. *)

DirectPC == {"delete_role", "delete_participant"}

LEMMA NoDirectDeletes ==
  ASSUME VotingTypeOK, DirectPC \cap Tasks = {}, [VotingNext]_votingVars,
         \A a \in Admin : adm[a].pc \notin DirectPC
  PROVE  \A a \in Admin : adm'[a].pc \notin DirectPC
<1> DEFINE NoneDeletes == \A a \in Admin : adm'[a].pc \notin DirectPC
<1>0. adm \in [Admin -> AdmLocals] /\ \A a \in Admin : adm[a].pc \notin DirectPC
  BY DEF VotingTypeOK
<1>1. ASSUME NEW a \in Admin, NEW l, l.pc \notin DirectPC, adm' = [adm EXCEPT ![a] = l]
      PROVE  NoneDeletes
  BY <1>0, <1>1
<1>2. UNCHANGED adm => NoneDeletes
  BY <1>0
<1>3. ASSUME NEW a \in Admin, AdmAnswer(a)
      PROVE  NoneDeletes
  BY <1>1, <1>3 DEF AdmAnswer, NoAdm, DirectPC
<1>4. ASSUME NEW a \in Admin, NEW there, there \notin DirectPC, AdmGoto(a, there)
      PROVE  NoneDeletes
  BY <1>0, <1>4 DEF AdmGoto, AdmLocals
<1>5. ASSUME NEW a \in Admin, OpenStep(a)
      PROVE  NoneDeletes
  <2>1. CASE OpenReadGate(a) \/ OpenReadMode(a) \/ OpenReadSelections(a) \/ OpenWrite(a)
    BY <1>3, <1>4, <2>1 DEF OpenReadGate, OpenReadMode, OpenReadSelections, OpenWrite, DirectPC
  <2>2. CASE OpenReadSingle(a)
    BY <1>0, <1>3, <2>2 DEF OpenReadSingle, AdmLocals, DirectPC
  <2>3. CASE OpenReadRoles(a)
    BY <1>0, <1>3, <2>3 DEF OpenReadRoles, AdmLocals, DirectPC
  <2>4. CASE OpenReadCandidates(a)
    BY <1>0, <1>3, <2>4 DEF OpenReadCandidates, AdmLocals, DirectPC
  <2> QED
    BY <1>5, <2>1, <2>2, <2>3, <2>4 DEF OpenStep
<1>6. ASSUME NEW a \in Admin, AdmStep(a)
      PROVE  NoneDeletes
  <2>1. CASE ResetWrite(a) \/ DeleteRoleWrite(a) \/ DeleteParticipantWrite(a) \/ GateWrite(a)
    BY <1>3, <2>1 DEF ResetWrite, DeleteRoleWrite, DeleteParticipantWrite, GateWrite
  <2>2. CASE SettingsReadMode(a) \/ GateReadStatus(a)
    BY <1>3, <1>4, <2>2 DEF SettingsReadMode, GateReadStatus, DirectPC
  <2>3. CASE SettingsWriteMode(a)
    BY <1>0, <1>3, <2>3 DEF SettingsWriteMode, AdmLocals
  <2>4. CASE SettingsWriteSelections(a)
    BY <1>0, <1>3, <2>4 DEF SettingsWriteSelections, AdmLocals
  <2> QED
    BY <1>5, <1>6, <2>1, <2>2, <2>3, <2>4 DEF AdmStep
<1>7. ASSUME NEW a \in Admin, AdmRequest(a)
      PROVE  NoneDeletes
  <2>1. CASE OpenStart(a) \/ ResetStart(a) \/ GateStart(a)
    BY <1>4, <2>1 DEF OpenStart, ResetStart, GateStart, DirectPC
  <2>2. ASSUME NEW mode, NEW sel, SettingsStart(a, mode, sel)
        PROVE  NoneDeletes
    BY <1>0, <2>2 DEF SettingsStart, AdmLocals, DirectPC
  <2>3. CASE \/ \E s \in {"draft", "closed"} : StopVoting(a, s)
             \/ \E n \in 1..MaxPicks, y \in Years : CreateRole(a, n, y)
             \/ \E r \in RoleId, n \in 1..MaxPicks, y \in Years : UpdateRole(a, r, n, y)
             \/ \E r \in Section : CreateParticipant(a, r)
             \/ \E p \in PartId, r \in Section : UpdateParticipant(a, p, r)
             \/ GateClose(a)
    BY <1>2, <2>3 DEF StopVoting, CreateRole, UpdateRole, CreateParticipant, UpdateParticipant, GateClose
  <2>4. "delete_role" \notin Tasks /\ "delete_participant" \notin Tasks
    BY DEF DirectPC
  <2> QED
    BY <1>7, <2>1, <2>2, <2>3, <2>4 DEF AdmRequest
<1>8. ASSUME NEW q \in Request, CastStep(q) \/ \E m \in Member : CastArrives(q, m)
      PROVE  UNCHANGED adm
  BY <1>8 DEF CastStep, CastArrives, CastReadStatus, CastReadMember, CastReadVoted, CastReadMode,
     CastReadSingle, CastReadSelections, CastReadRoles, CastReadCandidates, CastWrite, CastRefused
<1>9. \A m \in Member : MemberRequest(m) => UNCHANGED adm
  BY DEF MemberRequest, CorrectedAge, UpdateUser, SetUserStatus, DeleteUser
<1>10. CASE Restart
  BY <1>10 DEF Restart, NoAdm, DirectPC
<1>11. UNCHANGED votingVars => UNCHANGED adm
  BY DEF votingVars
<1> QED
  BY <1>2, <1>6, <1>7, <1>8, <1>9, <1>10, <1>11 DEF VotingNext

\* Ids of entries come from the sequence, so an insert overwrites none.
AcceptedInv ==
  /\ AcceptedOnBallot
  /\ \A p \in participants : p <= partSeq
  /\ \A a \in Admin : adm[a].pc \notin DirectPC

LEMMA AcceptedStep ==
  ASSUME ElectionTypeOK, DirectPC \cap Tasks = {}, AcceptedInv, [ElectionNext]_electionVars
  PROVE  AcceptedInv'
<1> DEFINE Goal == AcceptedOnBallot' /\ \A p \in participants' : p <= partSeq'
<1>0. /\ participants \subseteq PartId /\ partCand \in [PartId -> Member \cup {NoMember}]
      /\ candStatus \in [Member -> CandidacyStatus] /\ partSeq \in Nat
      /\ AcceptedOnBallot /\ \A p \in participants : p <= partSeq /\ p \in Nat
  BY DBAssumption DEF ElectionTypeOK, VotingTypeOK, DBTypeOK, AcceptedInv, PartId
<1>1. \A a \in Admin : adm'[a].pc \notin DirectPC
  BY Halves, NoDirectDeletes DEF AcceptedInv, ElectionTypeOK, ClerkMoves
<1> SUFFICES Goal
  BY <1>1 DEF AcceptedInv
<1>2. ASSUME \A p \in participants : p \in participants' /\ partCand'[p] = partCand[p],
             \A m \in Member : candStatus'[m] = "accepted" => candStatus[m] = "accepted"
      PROVE  AcceptedOnBallot'
  BY <1>0, <1>2 DEF AcceptedOnBallot, Entries
<1>3. ASSUME NEW r, NEW c \in Member \cup {NoMember}, InsertParticipantRow(r, c)
      PROVE  /\ \A p \in participants : p \in participants' /\ partCand'[p] = partCand[p]
             /\ partSeq + 1 \in participants' /\ partCand'[partSeq + 1] = c
             /\ \A p \in participants' : p <= partSeq'
  <2>1. partSeq + 1 \in PartId
    BY <1>3, DBAssumption DEF ElectionTypeOK, VotingTypeOK, DBTypeOK, InsertParticipantRow, PartId
  <2> QED
    BY <1>0, <1>3, <2>1 DEF InsertParticipantRow
<1>4. CASE UNCHANGED <<participants, partSeq, partCand, candStatus>>
  BY <1>0, <1>2, <1>4
<1>5. ~\E a \in Admin : DeletesDirectly(a)
  BY DEF AcceptedInv, DeletesDirectly, DeleteRoleWrite, DeleteParticipantWrite, AdmAt, DirectPC
<1>6. CASE (\E r : InsertParticipantRow(r, NoMember)) /\ UNCHANGED candStatus
  BY <1>2, <1>3, <1>6
<1>7. CASE UNCHANGED <<participants, partSeq, partCand>>
           /\ \E m \in Member, s \in {"none", "submitted"} : candStatus' = [candStatus EXCEPT ![m] = s]
  BY <1>0, <1>2, <1>7
<1>8. ASSUME NEW a \in Committee, work[a].id \in Member, AcceptWrite(a)
      PROVE  Goal
  <2>1. \A n \in Member : n # work[a].id => candStatus'[n] = candStatus[n]
    BY <1>8, UpdatesStatus DEF AcceptWrite
  <2>2. ASSUME \A p \in participants : p \in participants' /\ partCand'[p] = partCand[p],
               NEW q \in participants', partCand'[q] = work[a].id
        PROVE  AcceptedOnBallot'
    BY <1>0, <2>1, <2>2 DEF AcceptedOnBallot, Entries
  <2>3. CASE InsertParticipantRow(work[a].role, work[a].id)
    BY <1>3, <1>8, <2>2, <2>3
  <2>4. ASSUME NEW p \in Entries(work[a].id), MoveParticipantRows({p}, work[a].role)
        PROVE  Goal
    BY <1>0, <2>2, <2>4 DEF MoveParticipantRows, Entries
  <2> QED
    BY <1>8, <2>3, <2>4 DEF AcceptWrite
<1>9. ASSUME NEW a \in Committee, work[a].id \in Member, ReturnWrite(a)
      PROVE  Goal
  <2>1. /\ \A n \in Member : n # work[a].id => candStatus'[n] = candStatus[n]
        /\ candStatus'[work[a].id] # "accepted"
    BY <1>9, UpdatesStatus DEF ReturnWrite
  <2>2. /\ \A p \in participants : partCand[p] # work[a].id => p \in participants' /\ partCand'[p] = partCand[p]
        /\ participants' \subseteq participants /\ partSeq' = partSeq
    BY <1>0, <1>9 DEF ReturnWrite, DeleteParticipantRows, Entries
  <2> QED
    BY <1>0, <2>1, <2>2 DEF AcceptedOnBallot, Entries
<1> QED
  BY <1>4, <1>5, <1>6, <1>7, <1>8, <1>9, EntriesMove

\* An accepted candidacy has its entry: AcceptCandidacy and ReturnCandidacy write both
\* in one transaction. So while no admin deletes entries or roles directly.
THEOREM AcceptedAreOnBallot ==
  ASSUME "delete_role" \notin Tasks, "delete_participant" \notin Tasks
  PROVE  ElectionSpec => []AcceptedOnBallot
<1>0. DirectPC \cap Tasks = {}
  BY DEF DirectPC
<1>1. ElectionInit => AcceptedInv
  BY DEF ElectionInit, VotingInit, DBInit, AcceptedInv, AcceptedOnBallot, NoAdm, DirectPC
<1>2. ElectionTypeOK /\ AcceptedInv /\ [ElectionNext]_electionVars => AcceptedInv'
  BY <1>0, AcceptedStep
<1>3. AcceptedInv => AcceptedOnBallot
  BY DEF AcceptedInv
<1> QED
  BY <1>1, <1>2, <1>3, ElectionTyped, PTL DEF ElectionSpec

-----------------------------------------------------------------------------
(* The age of a post binds candidacies and entries, while no minimum is raised, no  *)
(* member turns out younger and no admin edits an entry's post directly: what was   *)
(* of age when a request read it is so when it writes. A post's id is not used      *)
(* again, so what points at a post that has gone never points at a new one.         *)

Fits(m, r) == r <= roleSeq /\ (r \in roles => OfAge(m, r))

\* Before the post is read, the age read on arrival is at most the member's; between
\* the post and the member, the minimum read is at least the post's; then both fit.
SubmitPC == {"submit_gate", "submit_roles", "submit_mine", "submit_gate_again", "submit_role"}
AgePC == {"submit_existing", "submit_write", "change_write", "accept_write"}

AgeChecked(l) ==
  /\ l.pc \in SubmitPC => l.years <= age[l.id]
  /\ l.pc = "change_user" => l.role <= roleSeq /\ (l.role \in roles => l.years >= minAge[l.role])
  /\ l.pc \in AgePC => Fits(l.id, l.role)

StandOfAge == \A m \in Member : candStatus[m] # "none" => Fits(m, candRole[m])
ListedOfAge == \A p \in participants : partCand[p] # NoMember => Fits(partCand[p], partRole[p])

AgeInv ==
  /\ \A r \in roles : r <= roleSeq
  /\ StandOfAge /\ ListedOfAge
  /\ \A g \in Clerk : AgeChecked(work[g])

\* Years are numbers, the 0 of a request that keeps none among them.
LEMMA YearsAreNumbers ==
  \A y \in Years \cup {0} : y \in Nat
<1>1. Years \subseteq Nat
  BY DBAssumption
<1>2. 0 \in Nat
  OBVIOUS
<1> QED
  BY <1>1, <1>2, Zenon

\* So are the ages, the minimums and the ids of posts in the tables.
LEMMA AgesAreNumbers ==
  ASSUME DBTypeOK
  PROVE  /\ \A m \in Member : age[m] \in Nat
         /\ \A r \in RoleId : minAge[r] \in Nat
         /\ roles \subseteq RoleId /\ RoleId \subseteq Nat /\ Section \subseteq Nat /\ roleSeq \in Nat
<1>1. Years \subseteq Nat
  BY DBAssumption
<1>2. age \in [Member -> Years] /\ minAge \in [RoleId -> Years] /\ roles \subseteq RoleId /\ roleSeq \in Nat
  BY DEF DBTypeOK
<1>3. RoleId \subseteq Nat /\ Section \subseteq Nat
  BY DBAssumption DEF RoleId, Section, NoRole
<1>4. \A m \in Member : age[m] \in Years
  BY <1>2
<1>5. \A r \in RoleId : minAge[r] \in Years
  BY <1>2
<1> QED
  BY <1>1, <1>2, <1>3, <1>4, <1>5

\* The requests of candidacies write neither posts nor members.
LEMMA ClerksLeaveAges ==
  ASSUME ClerkMoves
  PROVE  UNCHANGED <<userVars, roleVars>>
<1>1. UNCHANGED dbVars => UNCHANGED <<userVars, roleVars>>
  BY DEF dbVars
<1>2. ASSUME NEW g \in Clerk, Writes(g)
      PROVE  UNCHANGED <<userVars, roleVars>>
  BY <1>2 DEF Writes, SubmitInsert, SubmitUpdate, ChangeWrite, AcceptWrite, ReturnWrite
<1> QED
  BY <1>1, <1>2, ClerksRead

LEMMA AgesStayChecked ==
  ASSUME ElectionTypeOK, AgeInv, ClerkMoves
  PROVE  \A g \in Clerk : AgeChecked(work'[g])
<1> DEFINE Goal == \A g \in Clerk : AgeChecked(work'[g])
<1>0. /\ work \in [Clerk -> WorkLocals] /\ \A g \in Clerk : AgeChecked(work[g])
      /\ \A g \in Clerk : work[g].pc # "idle" => work[g].id \in Member
      /\ \A m \in Member : candStatus[m] # "none" => Fits(m, candRole[m])
      /\ \A r \in roles : r <= roleSeq
  BY DEF ElectionTypeOK, CandidacyTypeOK, AgeInv, StandOfAge
<1>n. /\ \A m \in Member : age[m] \in Nat
      /\ \A r \in RoleId : minAge[r] \in Nat
      /\ roles \subseteq RoleId /\ RoleId \subseteq Nat /\ roleSeq \in Nat
      /\ \A g \in Clerk : work[g].years \in Nat /\ work[g].role \in Nat
  <2>1. \A g \in Clerk : work[g].years \in Years \cup {0} /\ work[g].role \in Section
    BY <1>0 DEF WorkLocals
  <2>2. DBTypeOK
    BY DEF ElectionTypeOK, VotingTypeOK
  <2>3. \A g \in Clerk : work[g].years \in Nat
    BY <2>1, YearsAreNumbers, Zenon
  <2>4. \A g \in Clerk : work[g].role \in Nat
    BY <2>1, <2>2, AgesAreNumbers
  <2>5. /\ \A m \in Member : age[m] \in Nat
        /\ \A r \in RoleId : minAge[r] \in Nat
        /\ roles \subseteq RoleId /\ RoleId \subseteq Nat /\ roleSeq \in Nat
    BY <2>2, AgesAreNumbers
  <2> QED
    BY <2>3, <2>4, <2>5
<1>1. ASSUME NEW g \in Clerk, NEW l, work' = [work EXCEPT ![g] = l], AgeChecked(l)
      PROVE  Goal
  BY <1>0, <1>1
<1>2. ASSUME NEW g \in Clerk, WorkAnswer(g)
      PROVE  Goal
  <2>1. AgeChecked(NoWork)
    BY DEF AgeChecked, NoWork, AgePC, SubmitPC
  <2> QED
    BY <1>1, <1>2, <2>1 DEF WorkAnswer
<1>3. ASSUME NEW g \in Clerk, NEW here, NEW there, NEW condition, WorkCheck(g, here, there, condition),
             there \in SubmitPC => here \in SubmitPC, there # "change_user",
             condition /\ work[g].pc = here /\ there \in AgePC => Fits(work[g].id, work[g].role)
      PROVE  Goal
  <2>1. (condition /\ work[g].pc = here /\ WorkGoto(g, there)) \/ WorkAnswer(g)
    BY <1>3, Zenon DEF WorkCheck, WorkAt
  <2>2. CASE condition /\ work[g].pc = here /\ WorkGoto(g, there)
    <3> DEFINE l == [work[g] EXCEPT !.pc = there]
    <3>1. work' = [work EXCEPT ![g] = l]
      BY <2>2 DEF WorkGoto
    <3>2. l.pc = there /\ l.id = work[g].id /\ l.role = work[g].role /\ l.years = work[g].years
      BY <1>0 DEF WorkLocals
    <3> HIDE DEF l
    <3>3. AgeChecked(l)
      BY <1>0, <1>3, <2>2, <3>2 DEF AgeChecked
    <3> QED
      BY <1>1, <3>1, <3>3
  <2> QED
    BY <1>2, <2>1, <2>2
\* The status of the candidacy is read into the locals.
<1>4. ASSUME NEW g \in Clerk, NEW there \in WorkPC \ (SubmitPC \cup {"change_user"}), NEW s,
             work' = [work EXCEPT ![g] = [work[g] EXCEPT !.pc = there, !.status = s]],
             there \in AgePC => work[g].pc \in AgePC
      PROVE  Goal
  <2> DEFINE l == [work[g] EXCEPT !.pc = there, !.status = s]
  <2>1. l.pc = there /\ l.id = work[g].id /\ l.role = work[g].role
    BY <1>0 DEF WorkLocals
  <2>2. work' = [work EXCEPT ![g] = l]
    BY <1>4
  <2> HIDE DEF l
  <2>3. AgeChecked(l)
    BY <1>0, <1>4, <2>1 DEF AgeChecked
  <2> QED
    BY <1>1, <2>2, <2>3
\* A post that exists is read, and its minimum kept.
<1>r. ASSUME NEW g \in Clerk, ChangeReadRole(g)
      PROVE  Goal
  <2> DEFINE l == [work[g] EXCEPT !.pc = "change_user", !.years = minAge[work[g].role]]
  <2>1. CASE work[g].role \in roles /\ work' = [work EXCEPT ![g] = l]
    <3>1. l.pc = "change_user" /\ l.role = work[g].role /\ l.years = minAge[work[g].role]
      BY <1>0 DEF WorkLocals
    <3> HIDE DEF l
    <3>2. AgeChecked(l)
      BY <1>0, <1>n, <2>1, <3>1 DEF AgeChecked, AgePC, SubmitPC
    <3> QED
      BY <1>1, <2>1, <3>2
  <2> QED
    BY <1>2, <1>r, <2>1 DEF ChangeReadRole
<1>5. ASSUME NEW g \in Clerk, ChangeStep(g)
      PROVE  Goal
  <2>1. CASE ChangeReadCandidacy(g)
    BY <1>2, <1>4, <2>1 DEF ChangeReadCandidacy, AgePC, SubmitPC, WorkPC
  <2>2. CASE ChangeReadUser(g)
    <3>1. /\ work[g].pc = "change_user" /\ age[work[g].id] >= work[g].years
          => Fits(work[g].id, work[g].role)
      BY <1>0, <1>n DEF AgeChecked, Fits, OfAge
    <3> QED
      BY <1>3, <2>2, <3>1 DEF ChangeReadUser, SubmitPC
  <2>3. CASE ChangeWrite(g) \/ ChangeFails(g)
    BY <1>2, <2>3 DEF ChangeWrite, ChangeFails
  <2> QED
    BY <1>5, <1>r, <2>1, <2>2, <2>3 DEF ChangeStep
<1>6. ASSUME NEW q \in Applicant, ApplicantStep(q)
      PROVE  Goal
  <2>0. q \in Clerk
    BY DEF Clerk
  <2>1. SubmitReadGate(q) => Goal
    BY <1>3, <2>0 DEF SubmitReadGate, AgePC, SubmitPC
  <2>2. SubmitReadRoles(q) => Goal
    BY <1>3, <2>0 DEF SubmitReadRoles, AgePC, SubmitPC
  <2>3. SubmitReadMine(q) => Goal
    BY <1>3, <2>0 DEF SubmitReadMine, AgePC, SubmitPC
  <2>4. SubmitReadGateAgain(q) => Goal
    BY <1>3, <2>0 DEF SubmitReadGateAgain, AgePC, SubmitPC
  <2>5. SubmitReadRole(q) => Goal
    <3>1. /\ work[q].pc = "submit_role" /\ work[q].role \in roles /\ work[q].years >= minAge[work[q].role]
          => Fits(work[q].id, work[q].role)
      BY <1>0, <1>n, <2>0 DEF AgeChecked, SubmitPC, Fits, OfAge
    <3> QED
      BY <1>3, <2>0, <3>1 DEF SubmitReadRole, SubmitPC
  <2>6. SubmitReadExisting(q) => Goal
    BY <1>2, <1>4, <2>0 DEF SubmitReadExisting, WorkAt, AgePC, SubmitPC, WorkPC
  <2>7. SubmitInsert(q) \/ SubmitUpdate(q) => Goal
    BY <1>2, <2>0 DEF SubmitInsert, SubmitUpdate
  <2>8. ChangeReadGate(q) => Goal
    BY <1>3, <2>0 DEF ChangeReadGate, AgePC, SubmitPC
  <2> QED
    BY <1>5, <1>6, <2>0, <2>1, <2>2, <2>3, <2>4, <2>5, <2>6, <2>7, <2>8 DEF ApplicantStep
<1>7. ASSUME NEW a \in Committee, CommitteeStep(a)
      PROVE  Goal
  <2>0. a \in Clerk
    BY DEF Clerk
  <2> QED
    BY <1>2, <1>5, <1>7, <2>0 DEF CommitteeStep, AcceptWrite, AcceptFails, ReturnWrite
<1>8. ASSUME NEW g \in Clerk, NEW m \in Member, NEW r, SubmitArrives(g, m, r)
      PROVE  Goal
  <2> DEFINE l == [NoWork EXCEPT !.pc = "submit_gate", !.id = m, !.role = r, !.years = age[m]]
  <2>1. work' = [work EXCEPT ![g] = l] /\ AgeChecked(l)
    BY <1>8, <1>n DEF SubmitArrives, AgeChecked, NoWork, AgePC, SubmitPC
  <2> HIDE DEF l
  <2> QED
    BY <1>1, <2>1
<1>9. ASSUME NEW g \in Clerk, NEW m, NEW r, ChangeArrives(g, m, r)
      PROVE  Goal
  <2> DEFINE l == [NoWork EXCEPT !.id = m, !.role = r,
                     !.pc = IF ByMember(g) THEN "change_gate" ELSE "change_candidacy"]
  <2>1. AgeChecked(l)
    BY DEF AgeChecked, NoWork, AgePC, SubmitPC
  <2>2. work' = [work EXCEPT ![g] = l]
    BY <1>9 DEF ChangeArrives
  <2> HIDE DEF l
  <2> QED
    BY <1>1, <2>1, <2>2
<1>10. ASSUME NEW a \in Clerk, NEW m \in Member, AcceptStart(a, m)
       PROVE  Goal
  <2> DEFINE l == [NoWork EXCEPT !.pc = "accept_write", !.id = m, !.role = candRole[m]]
  <2>1. candStatus[m] # "none" /\ work' = [work EXCEPT ![a] = l]
    BY <1>10 DEF AcceptStart
  <2>2. AgeChecked(l)
    BY <1>0, <2>1 DEF AgeChecked, NoWork, SubmitPC
  <2> HIDE DEF l
  <2> QED
    BY <1>1, <2>1, <2>2
<1>11. ASSUME NEW a \in Clerk, NEW m, ReturnStart(a, m)
       PROVE  Goal
  <2> DEFINE l == [NoWork EXCEPT !.pc = "return_write", !.id = m]
  <2>1. work' = [work EXCEPT ![a] = l] /\ AgeChecked(l)
    BY <1>11 DEF ReturnStart, AgeChecked, NoWork, AgePC, SubmitPC
  <2> HIDE DEF l
  <2> QED
    BY <1>1, <2>1
<1> QED
  BY <1>6, <1>7, <1>8, <1>9, <1>10, <1>11 DEF ClerkMoves, ApplicantRequest, CommitteeRequest, Clerk

\* What the requests of candidacies write is of age.
LEMMA AgesWritten ==
  ASSUME ElectionTypeOK, AgeInv, NEW g \in Clerk, Writes(g)
  PROVE  /\ \A m \in Member : candStatus'[m] # "none" => Fits(m, candRole'[m])
         /\ \A p \in participants' : partCand'[p] # NoMember => Fits(partCand'[p], partRole'[p])
<1> DEFINE Stand == \A m \in Member : candStatus'[m] # "none" => Fits(m, candRole'[m])
           Listed == \A p \in participants' : partCand'[p] # NoMember => Fits(partCand'[p], partRole'[p])
<1>0. /\ participants \subseteq PartId /\ partCand \in [PartId -> Member \cup {NoMember}]
      /\ partRole \in [PartId -> Section]
      /\ candStatus \in [Member -> CandidacyStatus] /\ candRole \in [Member -> Section]
      /\ StandOfAge /\ ListedOfAge /\ NoMember \notin Member
      /\ AgeChecked(work[g]) /\ (work[g].pc # "idle" => work[g].id \in Member)
  BY DBAssumption DEF ElectionTypeOK, VotingTypeOK, DBTypeOK, CandidacyTypeOK, AgeInv
<1>1. UNCHANGED candVars => Stand
  BY <1>0 DEF StandOfAge, candVars
<1>2. UNCHANGED partVars => Listed
  BY <1>0 DEF ListedOfAge, partVars
<1>3. ASSUME NEW P, DeleteParticipantRows(P)
      PROVE  Listed
  BY <1>0, <1>3 DEF DeleteParticipantRows, ListedOfAge
<1>4. ASSUME NEW r, NEW c, InsertParticipantRow(r, c), Fits(c, r)
      PROVE  Listed
  <2>1. partSeq + 1 \in PartId
    BY <1>4, DBAssumption DEF ElectionTypeOK, VotingTypeOK, DBTypeOK, InsertParticipantRow, PartId
  <2> QED
    BY <1>0, <1>4, <2>1 DEF InsertParticipantRow, ListedOfAge
<1>5. ASSUME NEW m, NEW r, NEW P \in SUBSET Entries(m), MoveParticipantRows(P, r), Fits(m, r)
      PROVE  Listed
  BY <1>0, <1>5 DEF MoveParticipantRows, Entries, ListedOfAge
<1>6. ASSUME NEW m \in Member, NEW status, NEW r, UpdateCandidacy(m, status, r),
             candStatus[m] # "none" => Fits(m, r)
      PROVE  Stand
  BY <1>0, <1>6 DEF UpdateCandidacy, candVars, StandOfAge
<1>7. CASE SubmitInsert(g)
  <2>1. Fits(work[g].id, work[g].role) /\ work[g].id \in Member
    BY <1>0, <1>7 DEF SubmitInsert, WorkAt, AgeChecked, AgePC
  <2>2. Stand
    BY <1>0, <1>1, <1>7, <2>1 DEF SubmitInsert, StandOfAge
  <2> QED
    BY <1>2, <1>7, <2>2 DEF SubmitInsert
<1>8. CASE SubmitUpdate(g)
  <2>1. Fits(work[g].id, work[g].role) /\ work[g].id \in Member
    BY <1>0, <1>8 DEF SubmitUpdate, WorkAt, AgeChecked, AgePC
  <2> QED
    BY <1>2, <1>6, <1>8, <2>1 DEF SubmitUpdate
<1>9. CASE ChangeWrite(g)
  <2>1. Fits(work[g].id, work[g].role) /\ work[g].id \in Member
    BY <1>0, <1>9 DEF ChangeWrite, WorkAt, AgeChecked, AgePC
  <2>2. ChangeMoves(g) \in SUBSET Entries(work[g].id)
    BY DEF ChangeMoves
  <2> QED
    BY <1>5, <1>6, <1>9, <2>1, <2>2 DEF ChangeWrite
<1>10. CASE AcceptWrite(g)
  <2>1. Fits(work[g].id, work[g].role) /\ work[g].id \in Member
    BY <1>0, <1>10 DEF AcceptWrite, WorkAt, AgeChecked, AgePC
  <2>2. Stand
    BY <1>0, <1>6, <1>10, <2>1 DEF AcceptWrite, StandOfAge
  <2>3. \A p \in Entries(work[g].id) : {p} \in SUBSET Entries(work[g].id)
    OBVIOUS
  <2> QED
    BY <1>4, <1>5, <1>10, <2>1, <2>2, <2>3 DEF AcceptWrite
<1>11. CASE ReturnWrite(g)
  <2>1. work[g].id \in Member
    BY <1>0, <1>11 DEF ReturnWrite, WorkAt
  <2>2. Stand
    BY <1>0, <1>6, <1>11, <2>1 DEF ReturnWrite, StandOfAge
  <2> QED
    BY <1>3, <1>11, <2>2 DEF ReturnWrite
<1> QED
  BY <1>7, <1>8, <1>9, <1>10, <1>11 DEF Writes

\* What the votes' requests do to candidacies and entries.
LEMMA VotersMove ==
  ASSUME "update_participant" \notin Tasks, [VotingNext]_votingVars
  PROVE  \/ UNCHANGED <<partVars, candVars>>
         \/ \E a \in Admin : DeletesDirectly(a)
         \/ \E a \in Admin, r \in Section : CreateParticipant(a, r)
         \/ \E m \in Member : DeleteUser(m)
<1> DEFINE Still == UNCHANGED <<partVars, candVars>>
<1>0. UNCHANGED dbVars => Still
  BY DEF dbVars
<1>1. ASSUME NEW q \in Request, CastStep(q) \/ \E m \in Member : CastArrives(q, m)
      PROVE  Still
  BY <1>0, <1>1 DEF CastStep, CastArrives, CastReadStatus, CastReadMember, CastReadVoted, CastReadMode,
     CastReadSingle, CastReadSelections, CastReadRoles, CastReadCandidates, CastWrite, CastRefused
<1>2. ASSUME NEW a \in Admin, AdmStep(a), ~DeletesDirectly(a)
      PROVE  Still
  BY <1>0, <1>2 DEF DeletesDirectly, AdmStep, OpenStep, OpenReadGate, OpenReadMode, OpenReadSingle,
     OpenReadSelections, OpenReadRoles, OpenReadCandidates, OpenWrite, ResetWrite, SettingsReadMode,
     SettingsWriteMode, SettingsWriteSelections, GateReadStatus, GateWrite
<1>3. ASSUME NEW a \in Admin, AdmRequest(a)
      PROVE  Still \/ \E r \in Section : CreateParticipant(a, r)
  BY <1>0, <1>3 DEF AdmRequest, OpenStart, StopVoting, ResetStart, CreateRole, UpdateRole,
     DeleteRoleStart, DeleteParticipantStart, SettingsStart, GateStart, GateClose
<1>4. ASSUME NEW m \in Member, MemberRequest(m)
      PROVE  Still \/ DeleteUser(m)
  BY <1>4 DEF MemberRequest, CorrectedAge, UpdateUser, SetUserStatus
<1>5. Restart \/ UNCHANGED votingVars => Still
  BY <1>0 DEF Restart, votingVars
<1> HIDE DEF Still
<1> QED
  BY <1>1, <1>2, <1>3, <1>4, <1>5 DEF VotingNext, Still

\* The rest of the election only makes it easier to be of age, for the posts there are.
AgesEase ==
  /\ roleSeq <= roleSeq' /\ roleSeq' \in Nat
  /\ \A r \in roles' : r <= roleSeq' /\ (r \in roles \/ r > roleSeq)
  /\ \A r \in roles \cap roles' : minAge'[r] <= minAge[r] /\ minAge'[r] \in Nat
  /\ \A m \in Member : age'[m] >= age[m] /\ age'[m] \in Nat

LEMMA VotersEase ==
  ASSUME ElectionTypeOK, AgeInv, "raise_min_age" \notin Tasks, "user_younger" \notin Tasks,
         [VotingNext]_votingVars
  PROVE  AgesEase
<1>0. /\ \A m \in Member : age[m] \in Nat
      /\ \A r \in RoleId : minAge[r] \in Nat
      /\ roles \subseteq RoleId /\ RoleId \subseteq Nat /\ roleSeq \in Nat
      /\ minAge \in [RoleId -> Years] /\ age \in [Member -> Years]
      /\ Years \subseteq Nat
      /\ \A r \in roles : r <= roleSeq
  BY AgesAreNumbers, DBAssumption DEF ElectionTypeOK, VotingTypeOK, DBTypeOK, AgeInv
<1>1. UNCHANGED <<age, roles, roleSeq, minAge>> => AgesEase
  BY <1>0 DEF AgesEase
<1>2. UNCHANGED dbVars => AgesEase
  BY <1>1 DEF dbVars, userVars, roleVars
<1>3. ASSUME NEW q \in Request, CastStep(q) \/ \E m \in Member : CastArrives(q, m)
      PROVE  AgesEase
  BY <1>1, <1>2, <1>3 DEF CastStep, CastArrives, CastReadStatus, CastReadMember, CastReadVoted, CastReadMode,
     CastReadSingle, CastReadSelections, CastReadRoles, CastReadCandidates, CastWrite, CastRefused,
     userVars, roleVars
<1>4. ASSUME NEW a \in Admin, AdmStep(a), ~DeleteRoleWrite(a)
      PROVE  AgesEase
  BY <1>1, <1>2, <1>4 DEF AdmStep, OpenStep, OpenReadGate, OpenReadMode, OpenReadSingle,
     OpenReadSelections, OpenReadRoles, OpenReadCandidates, OpenWrite, ResetWrite, SettingsReadMode,
     SettingsWriteMode, SettingsWriteSelections, GateReadStatus, GateWrite, DeleteParticipantWrite,
     userVars, roleVars
<1>5. ASSUME NEW a \in Admin, DeleteRoleWrite(a)
      PROVE  AgesEase
  BY <1>0, <1>5 DEF DeleteRoleWrite, AgesEase, userVars
<1>6. ASSUME NEW a \in Admin, NEW n, NEW y \in Years, CreateRole(a, n, y)
      PROVE  AgesEase
  BY <1>0, <1>6 DEF CreateRole, AgesEase, userVars
<1>7. ASSUME NEW a \in Admin, NEW r \in RoleId, NEW n, NEW y \in Years, y <= minAge[r], UpdateRole(a, r, n, y)
      PROVE  AgesEase
  BY <1>0, <1>7 DEF UpdateRole, AgesEase, userVars
<1>8. ASSUME NEW a \in Admin, AdmRequest(a)
      PROVE  AgesEase
  <2>1. CASE \E n \in 1..MaxPicks, y \in Years : CreateRole(a, n, y)
    BY <1>6, <2>1
  <2>2. CASE \E r \in RoleId, n \in 1..MaxPicks, y \in Years :
               (y > minAge[r] => "raise_min_age" \in Tasks) /\ UpdateRole(a, r, n, y)
    BY <1>0, <1>7, <2>2
  <2> QED
    BY <1>1, <1>2, <1>8, <2>1, <2>2 DEF AdmRequest, OpenStart, StopVoting, ResetStart, DeleteRoleStart,
       CreateParticipant, UpdateParticipant, DeleteParticipantStart, SettingsStart, GateStart, GateClose,
       userVars, roleVars
<1>9. ASSUME NEW m \in Member, MemberRequest(m)
      PROVE  AgesEase
  <2>1. ASSUME NEW y \in Years, ~(y < age[m]), UpdateUser(m, y)
        PROVE  AgesEase
    BY <1>0, <2>1 DEF UpdateUser, AgesEase, roleVars
  <2> QED
    BY <1>1, <1>9, <2>1 DEF MemberRequest, CorrectedAge, SetUserStatus, DeleteUser, DeleteUserRows, roleVars
<1>10. CASE Restart \/ UNCHANGED votingVars
  BY <1>2, <1>10 DEF Restart, votingVars
<1> QED
  BY <1>3, <1>4, <1>5, <1>8, <1>9, <1>10 DEF VotingNext

LEMMA EaseFits ==
  ASSUME DBTypeOK, AgesEase, NEW m \in Member, NEW r \in Section, Fits(m, r)
  PROVE  Fits(m, r)'
<1>1. r \in Nat /\ roleSeq \in Nat /\ age[m] \in Nat /\ (r \in roles => minAge[r] \in Nat)
  BY AgesAreNumbers
<1>2. r <= roleSeq'
  BY <1>1 DEF Fits, AgesEase
<1>3. ASSUME r \in roles' PROVE age'[m] >= minAge'[r]
  <2>1. r \in roles
    BY <1>1, <1>3 DEF Fits, AgesEase
  <2> QED
    BY <1>1, <1>3, <2>1 DEF Fits, OfAge, AgesEase
<1> QED
  BY <1>2, <1>3 DEF Fits, OfAge

LEMMA EaseChecked ==
  ASSUME DBTypeOK, AgesEase, NEW l \in WorkLocals, l.pc # "idle" => l.id \in Member, AgeChecked(l)
  PROVE  AgeChecked(l)'
<1>0. l.role \in Section /\ l.years \in Years \cup {0}
  BY DEF WorkLocals
<1>1. /\ l.role \in Nat /\ roleSeq \in Nat
      /\ l.id \in Member => age[l.id] \in Nat
      /\ l.role \in roles => minAge[l.role] \in Nat
  <2>1. l.role \in Nat
    BY <1>0, AgesAreNumbers
  <2>2. roleSeq \in Nat
    BY AgesAreNumbers
  <2>3. \A m \in Member : age[m] \in Nat
    BY AgesAreNumbers
  <2>4. \A r \in roles : minAge[r] \in Nat
    BY AgesAreNumbers
  <2> QED
    BY <2>1, <2>2, <2>3, <2>4
<1>2. l.years \in Nat
  BY <1>0, YearsAreNumbers, Zenon
<1>3. ASSUME l.pc \in SubmitPC PROVE l.years <= age'[l.id]
  BY <1>1, <1>2, <1>3 DEF AgeChecked, AgesEase, SubmitPC
<1>4. ASSUME l.pc = "change_user"
      PROVE  l.role <= roleSeq' /\ (l.role \in roles' => l.years >= minAge'[l.role])
  BY <1>1, <1>2, <1>4 DEF AgeChecked, AgesEase
<1>5. ASSUME l.pc \in AgePC PROVE Fits(l.id, l.role)'
  BY <1>0, <1>1, <1>5, EaseFits DEF AgeChecked, AgePC
<1> QED
  BY <1>3, <1>4, <1>5 DEF AgeChecked

\* So the votes' requests leave those of age who were.
LEMMA AgesKeptByVoters ==
  ASSUME ElectionTypeOK, AgeInv, "update_participant" \notin Tasks,
         "raise_min_age" \notin Tasks, "user_younger" \notin Tasks,
         [VotingNext]_votingVars, UNCHANGED work \/ CandidacyRestart
  PROVE  AgeInv'
<1>0. /\ DBTypeOK /\ AgesEase /\ NoMember \notin Member
      /\ participants \subseteq PartId /\ partCand \in [PartId -> Member \cup {NoMember}]
      /\ partRole \in [PartId -> Section]
      /\ candStatus \in [Member -> CandidacyStatus] /\ candRole \in [Member -> Section]
      /\ StandOfAge /\ ListedOfAge
  BY VotersEase, DBAssumption DEF ElectionTypeOK, VotingTypeOK, DBTypeOK, AgeInv
<1>1. \A g \in Clerk : AgeChecked(work[g])'
  <2>1. CASE UNCHANGED work
    <3>1. \A g \in Clerk : /\ work[g] \in WorkLocals /\ AgeChecked(work[g])
                           /\ work[g].pc # "idle" => work[g].id \in Member
      BY DEF ElectionTypeOK, CandidacyTypeOK, AgeInv
    <3>2. \A l \in WorkLocals : AgeChecked(l) /\ (l.pc # "idle" => l.id \in Member) => AgeChecked(l)'
      BY <1>0, EaseChecked
    <3>3. ASSUME NEW g \in Clerk PROVE AgeChecked(work[g])'
      <4>1. PICK l \in WorkLocals : l = work[g]
        BY <3>1
      <4>2. AgeChecked(l)' /\ work'[g] = l
        BY <2>1, <3>1, <3>2, <4>1
      <4> QED
        BY <4>2 DEF AgeChecked, Fits, OfAge
    <3> QED
      BY <3>3
  <2>2. CASE CandidacyRestart
    BY <2>2 DEF CandidacyRestart, AgeChecked, NoWork, AgePC, SubmitPC
  <2> QED
    BY <2>1, <2>2
<1>2. \A m \in Member, r \in Section : Fits(m, r) => Fits(m, r)'
  BY <1>0, EaseFits
\* Deleting rows, or changing none, leaves those there are with their posts.
<1>3. ASSUME \A m \in Member : candStatus'[m] # "none" => candStatus[m] # "none" /\ candRole'[m] = candRole[m]
      PROVE  StandOfAge'
  BY <1>0, <1>2, <1>3 DEF StandOfAge, Fits, OfAge
<1>4. ASSUME \A p \in participants' : partCand'[p] # NoMember =>
               p \in participants /\ partCand'[p] = partCand[p] /\ partRole'[p] = partRole[p]
      PROVE  ListedOfAge'
  BY <1>0, <1>2, <1>4 DEF ListedOfAge, Fits, OfAge
<1>5. UNCHANGED candVars => StandOfAge'
  BY <1>3 DEF candVars
<1>6. UNCHANGED partVars => ListedOfAge'
  BY <1>4 DEF partVars
<1>7. UNCHANGED <<partVars, candVars>> => StandOfAge' /\ ListedOfAge'
  BY <1>5, <1>6
<1>8. ASSUME NEW a \in Admin, DeletesDirectly(a)
      PROVE  StandOfAge' /\ ListedOfAge'
  <2>1. ASSUME NEW P, DeleteParticipantRows(P) PROVE ListedOfAge'
    BY <1>0, <1>4, <2>1 DEF DeleteParticipantRows
  <2> QED
    BY <1>5, <1>8, <2>1 DEF DeletesDirectly, DeleteRoleWrite, DeleteParticipantWrite
<1>9. ASSUME NEW a \in Admin, NEW r \in Section, CreateParticipant(a, r)
      PROVE  StandOfAge' /\ ListedOfAge'
  <2>1. partSeq + 1 \in PartId
    BY <1>0, <1>9, DBAssumption DEF CreateParticipant, InsertParticipantRow, DBTypeOK, PartId
  <2>2. ListedOfAge'
    BY <1>0, <1>4, <1>9, <2>1 DEF CreateParticipant, InsertParticipantRow
  <2> QED
    BY <1>5, <1>9, <2>2 DEF CreateParticipant
<1>10. ASSUME NEW m \in Member, DeleteUser(m)
       PROVE  StandOfAge' /\ ListedOfAge'
  <2>1. StandOfAge'
    BY <1>0, <1>3, <1>10 DEF DeleteUser, DeleteUserRows
  <2> QED
    BY <1>6, <1>10, <2>1 DEF DeleteUser
<1>11. StandOfAge' /\ ListedOfAge'
  BY <1>7, <1>8, <1>9, <1>10, VotersMove
<1> QED
  BY <1>0, <1>1, <1>11 DEF AgeInv, AgesEase

\* The age of a post binds members and committee alike (EligibleForRole in SubmitCandidacy
\* and ChangeCandidacyRole), on the candidacy and on the entry, although age and minimum are
\* read in one statement each and written in a third, and AcceptCandidacy does not look at
\* them: for every number of members, posts and requests. So while no minimum is raised, no
\* member turns out younger, and no admin edits the post of an entry (UpdateParticipant).
THEOREM OfAgeAreOnBallot ==
  ASSUME "update_participant" \notin Tasks, "raise_min_age" \notin Tasks, "user_younger" \notin Tasks
  PROVE  ElectionSpec => []OfAgeOnBallot
<1>1. ElectionInit => AgeInv
  BY DEF ElectionInit, VotingInit, DBInit, CandidacyInit, NoWork, AgeInv, AgeChecked, AgePC, SubmitPC,
     StandOfAge, ListedOfAge
<1>2. ASSUME ElectionTypeOK, AgeInv, [ElectionNext]_electionVars
      PROVE  AgeInv'
  <2>1. CASE ClerkMoves
    <3>1. UNCHANGED <<age, roles, roleSeq, minAge>>
      BY <2>1, ClerksLeaveAges DEF userVars, roleVars
    <3>2. \A m, r : Fits(m, r)' <=> Fits(m, r)
      BY <3>1 DEF Fits, OfAge
    <3>3. \A g \in Clerk : AgeChecked(work[g])'
      BY <1>2, <2>1, <3>1, AgesStayChecked DEF AgeChecked, Fits, OfAge
    <3>4. StandOfAge' /\ ListedOfAge'
      <4>1. CASE UNCHANGED dbVars
        BY <1>2, <3>1, <4>1 DEF AgeInv, StandOfAge, ListedOfAge, Fits, OfAge, dbVars, partVars, candVars
      <4>2. CASE \E g \in Clerk : Writes(g)
        BY <1>2, <3>1, <4>2, AgesWritten DEF StandOfAge, ListedOfAge, Fits, OfAge
      <4> QED
        BY <2>1, <4>1, <4>2, ClerksRead
    <3> QED
      BY <1>2, <3>1, <3>3, <3>4 DEF AgeInv
  <2> QED
    BY <1>2, <2>1, AgesKeptByVoters, Halves
<1>3. AgeInv => OfAgeOnBallot
  BY DEF AgeInv, StandOfAge, ListedOfAge, Fits, OfAgeOnBallot
<1> QED
  BY <1>1, <1>2, <1>3, ElectionTyped, PTL DEF ElectionSpec

-----------------------------------------------------------------------------
(* What the voting requests read, with candidacies under way *)

\* CastBallot's checks bind the ballot it writes, whatever has become of the candidates it
\* read: accepted, moved or returned meanwhile, and no candidacy request adds a ballot.
THEOREM ElectionBallotsAreWhole == ElectionSpec => WholeBallots
<1> DEFINE Whole == \A b \in ballots' \ ballots : \E q \in Request :
                      /\ CastAt(q, "write") /\ cast[q].user = b.user
                      /\ \A c \in cast[q].checks :
                           /\ VotesOn(b, c.role) # {} /\ VotesOn(b, c.role) \subseteq c.valid
                           /\ Cardinality(VotesOn(b, c.role)) <= c.allowed
<1>1. ASSUME ElectionTypeOK, BallotBoxSound, [ElectionNext]_electionVars
      PROVE  [Whole]_votingVars
  <2>1. CASE [VotingNext]_votingVars
    BY <1>1, <2>1, WholeStep DEF ElectionTypeOK
  <2>2. CASE ClerkMoves
    <3>1. ballots' = ballots
      <4>1. ASSUME NEW g \in Clerk, Writes(g) PROVE ballots' = ballots
        BY <4>1 DEF Writes, SubmitInsert, SubmitUpdate, ChangeWrite, AcceptWrite, ReturnWrite, boxVars
      <4> QED
        BY <2>2, <4>1, ClerksRead DEF dbVars, boxVars
    <3> QED
      BY <3>1
  <2> QED
    BY <1>1, <2>1, <2>2, Halves
<1> QED
  BY <1>1, ElectionTyped, ElectionBoxIsSound, PTL DEF ElectionSpec, WholeBallots

\* One elections admin at one page, who waits for the answer to either kind of request.
OneDesk == \A a, b \in Admin \cup Committee : a = b

\* The desk is at one request at a time, and a member's request that goes on to move a
\* candidacy has read one that the ballot does not hold.
ElectionDayInv ==
  /\ ElectionTypeOK
  /\ \A a \in Admin : Established(adm[a])
  /\ \A a \in Admin \cap Committee : adm[a].pc = "idle" \/ work[a].pc = "idle"
  /\ \A q \in Applicant : work[q].pc = "change_write" => work[q].status # "accepted"

LEMMA StepsAreNotIdle ==
  /\ \A a \in Admin : AdmStep(a) => adm[a].pc # "idle"
  /\ \A a \in Committee : CommitteeStep(a) => work[a].pc # "idle"
<1>1. ASSUME NEW a \in Admin, AdmStep(a) PROVE adm[a].pc # "idle"
  BY <1>1 DEF AdmStep, OpenStep, OpenReadGate, OpenReadMode, OpenReadSingle, OpenReadSelections,
     OpenReadRoles, OpenReadCandidates, OpenWrite, ResetWrite, DeleteRoleWrite, DeleteParticipantWrite,
     SettingsReadMode, SettingsWriteMode, SettingsWriteSelections, GateReadStatus, GateWrite, AdmAt
<1>2. ASSUME NEW a \in Committee, CommitteeStep(a) PROVE work[a].pc # "idle"
  BY <1>2 DEF CommitteeStep, ChangeStep, ChangeReadCandidacy, ChangeReadRole, ChangeReadUser, ChangeWrite,
     ChangeFails, AcceptWrite, AcceptFails, ReturnWrite, WorkCheck, WorkAt
<1> QED
  BY <1>1, <1>2

\* A request of the committee is its own affair.
LEMMA ClerksMoveThemselves ==
  ASSUME ElectionTypeOK, NEW a \in Committee, CommitteeRequest(a) \/ CommitteeStep(a)
  PROVE  \A g \in Clerk \ {a} : work'[g] = work[g]
<1>0. work \in [Clerk -> WorkLocals]
  BY DEF ElectionTypeOK, CandidacyTypeOK
<1>1. ASSUME NEW l, work' = [work EXCEPT ![a] = l]
      PROVE  \A g \in Clerk \ {a} : work'[g] = work[g]
  BY <1>0, <1>1
<1>2. \E l : work' = [work EXCEPT ![a] = l]
  BY DEF CommitteeRequest, CommitteeStep, ChangeArrives, AcceptStart, ReturnStart, ChangeStep,
     ChangeReadCandidacy, ChangeReadRole, ChangeReadUser, ChangeWrite, ChangeFails, AcceptWrite,
     AcceptFails, ReturnWrite, WorkCheck, WorkGoto, WorkAnswer
<1> QED
  BY <1>1, <1>2

\* A member's request changes nothing that the voting goes by.
LEMMA ApplicantsLeave ==
  ASSUME ElectionDayInv, NEW q \in Applicant, ApplicantRequest(q) \/ ApplicantStep(q)
  PROVE  /\ UNCHANGED <<settingVars, roleVars, partVars>>
         /\ \A g \in Clerk \ {q} : work'[g] = work[g]
         /\ work'[q].pc = "change_write" => work'[q].status # "accepted"
<1>0. /\ work \in [Clerk -> WorkLocals] /\ q \in Clerk /\ q \in Applicant
      /\ partRole \in [PartId -> RoleId \cup {NoRole}]
      /\ work[q].pc = "change_write" => work[q].status # "accepted"
  BY DEF ElectionDayInv, ElectionTypeOK, CandidacyTypeOK, VotingTypeOK, DBTypeOK, Clerk, Section
<1>1. ASSUME NEW l, work' = [work EXCEPT ![q] = l]
      PROVE  work'[q] = l /\ \A g \in Clerk \ {q} : work'[g] = work[g]
  BY <1>0, <1>1
<1>2. ASSUME WorkAnswer(q)
      PROVE  work'[q].pc = "idle" /\ \A g \in Clerk \ {q} : work'[g] = work[g]
  BY <1>1, <1>2 DEF WorkAnswer, NoWork
<1>3. ASSUME NEW here, NEW there, there # "change_write", NEW condition, WorkCheck(q, here, there, condition)
      PROVE  /\ UNCHANGED dbVars /\ work'[q].pc # "change_write"
             /\ \A g \in Clerk \ {q} : work'[g] = work[g]
  <2>1. CASE WorkAnswer(q)
    BY <1>2, <1>3, <2>1 DEF WorkCheck
  <2>2. CASE WorkGoto(q, there)
    BY <1>0, <1>3, <2>2 DEF WorkCheck, WorkGoto, WorkLocals
  <2> QED
    BY <1>3, <2>1, <2>2 DEF WorkCheck
<1>4. CASE ApplicantRequest(q)
  <2>1. UNCHANGED dbVars
    BY <1>4 DEF ApplicantRequest, SubmitArrives, ChangeArrives
  <2>2. work'[q].pc \in {"submit_gate", "change_gate"} /\ \A g \in Clerk \ {q} : work'[g] = work[g]
    <3>1. ASSUME NEW m, NEW r, SubmitArrives(q, m, r)
          PROVE  work'[q].pc = "submit_gate" /\ \A g \in Clerk \ {q} : work'[g] = work[g]
      BY <1>0, <3>1 DEF SubmitArrives, NoWork
    <3>2. ASSUME NEW m, NEW r, ChangeArrives(q, m, r)
          PROVE  work'[q].pc = "change_gate" /\ \A g \in Clerk \ {q} : work'[g] = work[g]
      BY <1>0, <3>2 DEF ChangeArrives, ByMember, NoWork
    <3> QED
      BY <1>4, <3>1, <3>2 DEF ApplicantRequest
  <2> QED
    BY <2>1, <2>2 DEF dbVars
<1>5. CASE SubmitReadGate(q) \/ SubmitReadRoles(q) \/ SubmitReadMine(q) \/ SubmitReadGateAgain(q)
           \/ SubmitReadRole(q) \/ ChangeReadGate(q)
  BY <1>3, <1>5 DEF SubmitReadGate, SubmitReadRoles, SubmitReadMine, SubmitReadGateAgain, SubmitReadRole,
     ChangeReadGate, dbVars
<1>6. CASE SubmitReadExisting(q) \/ ChangeReadCandidacy(q)
  <2>1. UNCHANGED dbVars
    BY <1>6 DEF SubmitReadExisting, ChangeReadCandidacy
  <2>2. CASE WorkAnswer(q)
    BY <1>2, <2>1, <2>2 DEF dbVars
  <2>3. CASE ~WorkAnswer(q)
    <3>1. PICK pc \in {"submit_write", "change_role"} :
            work' = [work EXCEPT ![q] = [work[q] EXCEPT !.pc = pc, !.status = candStatus[work[q].id]]]
      BY <1>6, <2>3 DEF SubmitReadExisting, ChangeReadCandidacy
    <3>2. work'[q].pc = pc /\ \A g \in Clerk \ {q} : work'[g] = work[g]
      BY <1>0, <3>1 DEF WorkLocals
    <3> QED
      BY <2>1, <3>2 DEF dbVars
  <2> QED
    BY <2>2, <2>3
<1>7. CASE ChangeReadUser(q)
  <2>1. UNCHANGED dbVars
    BY <1>7 DEF ChangeReadUser, WorkCheck
  <2>2. CASE WorkAnswer(q)
    BY <1>2, <2>1, <2>2 DEF dbVars
  <2>3. CASE ~WorkAnswer(q)
    <3>1. work[q].status # "accepted" /\ WorkGoto(q, "change_write")
      BY <1>7, <2>3 DEF ChangeReadUser, WorkCheck, ByMember
    <3> QED
      BY <1>0, <2>1, <3>1 DEF WorkGoto, WorkLocals, dbVars
  <2> QED
    BY <2>2, <2>3
<1>8. CASE SubmitInsert(q) \/ SubmitUpdate(q) \/ ChangeFails(q)
  BY <1>2, <1>8 DEF SubmitInsert, SubmitUpdate, ChangeFails, dbVars
<1>9. CASE ChangeWrite(q)
  <2>1. ChangeMoves(q) = {}
    BY <1>0, <1>9 DEF ChangeWrite, WorkAt, ChangeMoves
  <2>2. UNCHANGED partVars
    BY <1>0, <1>9, <2>1 DEF ChangeWrite, MoveParticipantRows, partVars
  <2> QED
    BY <1>2, <1>9, <2>2 DEF ChangeWrite
<1>10. CASE ChangeReadRole(q)
  <2>1. UNCHANGED dbVars
    BY <1>10 DEF ChangeReadRole
  <2>2. CASE WorkAnswer(q)
    BY <1>2, <2>1, <2>2 DEF dbVars
  <2>3. CASE ~WorkAnswer(q)
    <3>1. work' = [work EXCEPT ![q] = [work[q] EXCEPT
                     !.pc = "change_user", !.years = minAge[work[q].role]]]
      BY <1>10, <2>3 DEF ChangeReadRole
    <3>2. work'[q].pc = "change_user" /\ \A g \in Clerk \ {q} : work'[g] = work[g]
      BY <1>0, <3>1 DEF WorkLocals
    <3> QED
      BY <2>1, <3>2 DEF dbVars
  <2> QED
    BY <2>2, <2>3
<1> QED
  BY <1>4, <1>5, <1>6, <1>7, <1>8, <1>9, <1>10 DEF ApplicantStep, ChangeStep

LEMMA ElectionDayStep ==
  ASSUME OneDesk, ElectionDayInv, [ElectionNext]_electionVars
  PROVE  ElectionDayInv'
<1>0. /\ ElectionTypeOK' /\ VotingDayInv /\ OneAdmin /\ adm \in [Admin -> AdmLocals]
      /\ Applicant \subseteq Clerk /\ Committee \subseteq Clerk /\ Applicant \cap Committee = {}
      /\ \A a \in Admin, b \in Committee : a = b
  BY ElectionTypeStep, CandidacyAssumption
  DEF ElectionDayInv, VotingDayInv, ElectionTypeOK, VotingTypeOK, OneDesk, OneAdmin, Clerk
<1>a. ASSUME [VotingNext]_votingVars PROVE \A a \in Admin : Established(adm[a])'
  BY <1>0, <1>a, VotingDayStep DEF VotingDayInv
<1>1. CASE UNCHANGED electionVars
  BY <1>0, <1>1, <1>a DEF electionVars, ElectionDayInv, votingVars
<1>2. ASSUME UNCHANGED <<work, adm>>, [VotingNext]_votingVars
      PROVE  ElectionDayInv'
  BY <1>0, <1>2, <1>a DEF ElectionDayInv
<1>3. ASSUME NEW q \in Request, (\E m \in Member : CastArrives(q, m)) \/ CastStep(q), UNCHANGED work
      PROVE  ElectionDayInv'
  <2>1. adm' = adm
    BY <1>3 DEF CastStep, CastArrives, CastReadStatus, CastReadMember, CastReadVoted, CastReadMode,
       CastReadSingle, CastReadSelections, CastReadRoles, CastReadCandidates, CastWrite, CastRefused
  <2> QED
    BY <1>2, <1>3, <2>1 DEF VotingNext
<1>4. ASSUME NEW m \in Member, MemberRequest(m), UNCHANGED work
      PROVE  ElectionDayInv'
  <2>1. adm' = adm
    BY <1>4 DEF MemberRequest, CorrectedAge, UpdateUser, SetUserStatus, DeleteUser
  <2> QED
    BY <1>2, <1>4, <2>1 DEF VotingNext
<1>5. CASE Restart /\ CandidacyRestart
  BY <1>0, <1>5, <1>a DEF ElectionDayInv, Restart, CandidacyRestart, VotingNext, NoAdm, NoWork, Clerk
<1>6. ASSUME NEW a \in Admin, (AtRest(a) /\ AdmRequest(a)) \/ AdmStep(a), UNCHANGED work
      PROVE  ElectionDayInv'
  <2>1. \A b \in Admin \cap Committee : work'[b].pc = "idle"
    BY <1>0, <1>6, StepsAreNotIdle DEF ElectionDayInv, AtRest, WorkAt, OneAdmin
  <2>2. \A b \in Admin : Established(adm[b])'
    BY <1>6, <1>a DEF VotingNext
  <2> QED
    BY <1>0, <1>6, <2>1, <2>2 DEF ElectionDayInv
<1>7. ASSUME NEW q \in Applicant, ApplicantRequest(q) \/ ApplicantStep(q), UNCHANGED <<cast, adm>>
      PROVE  ElectionDayInv'
  <2>1. /\ UNCHANGED <<settingVars, roleVars, partVars>>
        /\ \A g \in Clerk \ {q} : work'[g] = work[g]
        /\ work'[q].pc = "change_write" => work'[q].status # "accepted"
    BY <1>7, ApplicantsLeave
  <2>2. \A a \in Admin : Established(adm[a])'
    BY <1>7, <2>1, EstablishedStays DEF ElectionDayInv
  <2>3. \A a \in Admin \cap Committee : work'[a] = work[a]
    BY <1>0, <2>1
  <2> QED
    BY <1>0, <1>7, <2>1, <2>2, <2>3 DEF ElectionDayInv
<1>8. ASSUME NEW a \in Committee, (AtRest(a) /\ CommitteeRequest(a)) \/ CommitteeStep(a), UNCHANGED <<cast, adm>>
      PROVE  ElectionDayInv'
  <2>1. \A b \in Admin : adm'[b].pc = "idle"
    BY <1>0, <1>8, StepsAreNotIdle DEF ElectionDayInv, AtRest, AdmAt
  <2>2. \A b \in Admin : Established(adm[b])'
    BY <2>1, AnsweredEstablishes
  <2>3. \A q \in Applicant : work'[q] = work[q]
    BY <1>0, <1>8, ClerksMoveThemselves DEF ElectionDayInv
  <2> QED
    BY <1>0, <2>1, <2>2, <2>3 DEF ElectionDayInv
<1> QED
  BY <1>1, <1>3, <1>4, <1>5, <1>6, <1>7, <1>8 DEF ElectionNext

LEMMA ElectionDayInvariant == ASSUME OneDesk PROVE ElectionSpec => []ElectionDayInv
<1>1. ElectionInit => ElectionDayInv
  BY ElectionTypeInit
  DEF ElectionInit, VotingInit, CandidacyInit, ElectionDayInv, Established, NoAdm, NoWork, Deleting, Clerk
<1>2. ElectionDayInv /\ [ElectionNext]_electionVars => ElectionDayInv'
  BY ElectionDayStep
<1> QED
  BY <1>1, <1>2, PTL DEF ElectionSpec

\* With one elections admin at one page, what validateVotingSetup read still holds when the
\* vote opens, with members' candidacies in flight: those read before the window closed may
\* still be written, but none of them touches the ballot.
THEOREM ElectionOpensOnWhatWasChecked == ASSUME OneDesk PROVE ElectionSpec => OpensOnlyWhenReady
<1>1. ASSUME ElectionDayInv, [ElectionNext]_electionVars
      PROVE  [votingStatus # "open" /\ votingStatus' = "open" => gate = "closed" /\ Completable]_votingVars
  <2> SUFFICES ASSUME votingStatus # "open", votingStatus' = "open" PROVE gate = "closed" /\ Completable
    OBVIOUS
  <2>1. CASE [VotingNext]_votingVars
    BY <1>1, <2>1, OpensStep DEF ElectionDayInv, VotingDayInv, ElectionTypeOK
  <2>2. CASE ClerkMoves
    <3>1. ASSUME NEW g \in Clerk, Writes(g) PROVE UNCHANGED settingVars
      BY <3>1 DEF Writes, SubmitInsert, SubmitUpdate, ChangeWrite, AcceptWrite, ReturnWrite
    <3> QED
      BY <2>2, <3>1, ClerksRead DEF dbVars, userVars, settingVars
  <2> QED
    BY <1>1, <2>1, <2>2, Halves
<1> QED
  BY <1>1, ElectionDayInvariant, PTL DEF ElectionSpec, OpensOnlyWhenReady

-----------------------------------------------------------------------------
(* Requests in flight, with candidacies under way *)

\* A candidacy request adds no ballot.
LEMMA ClerksAddNoBallot == ClerkMoves => ballots' = ballots
<1>1. ASSUME NEW g \in Clerk, Writes(g) PROVE ballots' = ballots
  BY <1>1 DEF Writes, SubmitInsert, SubmitUpdate, ChangeWrite, AcceptWrite, ReturnWrite, boxVars
<1> QED
  BY <1>1, ClerksRead DEF dbVars, boxVars

\* What the voting requests have left to do is not the candidacies' to change.
LEMMA ElectionStillInvariant == ElectionSpec => []StillInv
<1>1. ElectionInit => StillInv
  BY VotingTypeInit DEF StillInv, ElectionInit, VotingInit, SomethingLeftFor, NoCast, NoAdm
<1>2. ASSUME StillInv, ElectionTypeOK, ElectionTypeOK', [ElectionNext]_electionVars PROVE StillInv'
  <2>1. CASE [VotingNext]_votingVars
    BY <1>2, <2>1, NearerStep DEF StillInv, ElectionTypeOK
  <2>2. CASE ClerkMoves
    BY <1>2, <2>2 DEF StillInv, ElectionTypeOK, ClerkMoves
  <2> QED
    BY <1>2, <2>1, <2>2, Halves
<1> QED
  BY <1>1, <1>2, ElectionTyped, PTL DEF ElectionSpec

\* However candidacies are accepted and returned meanwhile, requests in flight when voting
\* stops drop in one ballot each and no request that comes later does.
THEOREM ElectionLateBallotsAreFew == ElectionSpec => LateBallots
<1> DEFINE Late == votingStatus # "open" =>
                     /\ Underway' \subseteq Underway
                     /\ \A b, c \in ballots' \ ballots : b = c
                     /\ \A b \in ballots' \ ballots : \E q \in Underway \ Underway' : cast[q].user = b.user
<1>1. ASSUME StillInv, [ElectionNext]_electionVars
      PROVE  [Late]_votingVars
  <2>1. CASE [VotingNext]_votingVars
    <3>1. VotingTypeOK /\ SomethingLeft
      BY <1>1, StillLeft DEF StillInv
    <3> QED
      BY <2>1, <3>1, LateStep
  <2>2. CASE ClerkMoves
    BY <2>2, ClerksAddNoBallot DEF ClerkMoves, Underway
  <2> QED
    BY <1>1, <2>1, <2>2, Halves
<1> QED
  BY <1>1, ElectionStillInvariant, PTL DEF ElectionSpec, LateBallots

\* A voting request gets on whatever the candidacies do to the rows it has read.
THEOREM EveryRequestGetsOnInElection == ElectionSpec => RequestsGetOn
<1> DEFINE Nearer == /\ \A q \in Request : ~CastAt(q, "idle") /\ cast'[q] # cast[q] =>
                          \/ StatementsLeft[cast'[q].pc] < StatementsLeft[cast[q].pc]
                          \/ FewerRows(cast[q], cast'[q])
                     /\ \A a \in Admin : ~AdmAt(a, "idle") /\ adm'[a] # adm[a] =>
                          \/ StatementsLeft[adm'[a].pc] < StatementsLeft[adm[a].pc]
                          \/ FewerRows(adm[a], adm'[a]) \/ FewerSettings(adm[a], adm'[a])
<1>1. ASSUME StillInv, [ElectionNext]_electionVars
      PROVE  [Nearer]_votingVars
  <2>1. CASE [VotingNext]_votingVars
    BY <1>1, <2>1, NearerStep DEF GetsOn
  <2>2. CASE ClerkMoves
    BY <2>2 DEF ClerkMoves
  <2> QED
    BY <1>1, <2>1, <2>2, Halves
<1>2. StillInv => SomethingLeft
  BY StillLeft
<1> QED
  BY <1>1, <1>2, ElectionStillInvariant, PTL DEF ElectionSpec, RequestsGetOn

\* A member's request that has yet to read the window, or reads it again, is stopped there by a
\* closed one; only a request past it submits a candidacy, and with that it ends.
PastTheWindow == {"submit_role", "submit_existing", "submit_write",
                  "change_candidacy", "change_role", "change_user", "change_write"}
Submits(m) == candStatus[m] # "submitted" /\ candStatus'[m] = "submitted"

LEMMA ClosedWindow ==
  ASSUME ElectionTypeOK, NEW q \in Applicant, ApplicantRequest(q) \/ ApplicantStep(q), gate = "closed"
  PROVE  /\ \A g \in Clerk \ {q} : work'[g] = work[g]
         /\ work'[q].pc \in PastTheWindow => work[q].pc \in PastTheWindow
         /\ \A m \in Member : Submits(m) =>
              work[q].pc \in PastTheWindow /\ work'[q].pc \notin PastTheWindow /\ work[q].id = m
<1> DEFINE Goal == /\ \A g \in Clerk \ {q} : work'[g] = work[g]
                   /\ work'[q].pc \in PastTheWindow => work[q].pc \in PastTheWindow
                   /\ \A m \in Member : Submits(m) =>
                        work[q].pc \in PastTheWindow /\ work'[q].pc \notin PastTheWindow /\ work[q].id = m
<1>0. /\ work \in [Clerk -> WorkLocals] /\ q \in Clerk
      /\ candStatus \in [Member -> CandidacyStatus]
  BY DEF ElectionTypeOK, CandidacyTypeOK, VotingTypeOK, DBTypeOK, Clerk
<1>d. UNCHANGED dbVars => \A m : ~Submits(m)
  BY DEF dbVars, candVars, Submits
<1>m. ASSUME NEW l, work' = [work EXCEPT ![q] = l]
      PROVE  work'[q] = l /\ \A g \in Clerk \ {q} : work'[g] = work[g]
  BY <1>0, <1>m
<1>a. ASSUME WorkAnswer(q)
      PROVE  work'[q].pc \notin PastTheWindow /\ \A g \in Clerk \ {q} : work'[g] = work[g]
  <2>1. work' = [work EXCEPT ![q] = NoWork] /\ NoWork.pc = "idle"
    BY <1>a DEF WorkAnswer, NoWork
  <2> QED
    BY <1>m, <2>1 DEF PastTheWindow
<1>g. ASSUME NEW pc, WorkGoto(q, pc)
      PROVE  work'[q].pc = pc /\ \A g \in Clerk \ {q} : work'[g] = work[g]
  BY <1>0, <1>g DEF WorkGoto, WorkLocals
<1>c. ASSUME NEW here, NEW there, NEW condition, WorkCheck(q, here, there, condition),
             condition /\ there \in PastTheWindow => here \in PastTheWindow
      PROVE  Goal
  <2>1. UNCHANGED dbVars /\ work[q].pc = here
    BY <1>c, Zenon DEF WorkCheck, WorkAt
  <2>2. WorkAnswer(q) \/ (condition /\ WorkGoto(q, there))
    BY <1>c, Zenon DEF WorkCheck
  <2> QED
    BY <1>a, <1>c, <1>d, <1>g, <2>1, <2>2
<1>1. CASE ApplicantRequest(q)
  <2>1. UNCHANGED dbVars
    BY <1>1 DEF ApplicantRequest, SubmitArrives, ChangeArrives
  <2>2. work'[q].pc \in {"submit_gate", "change_gate"} /\ \A g \in Clerk \ {q} : work'[g] = work[g]
    <3>1. ASSUME NEW m, NEW r, SubmitArrives(q, m, r)
          PROVE  work'[q].pc = "submit_gate" /\ \A g \in Clerk \ {q} : work'[g] = work[g]
      BY <1>0, <3>1 DEF SubmitArrives, NoWork
    <3>2. ASSUME NEW m, NEW r, ChangeArrives(q, m, r)
          PROVE  work'[q].pc = "change_gate" /\ \A g \in Clerk \ {q} : work'[g] = work[g]
      BY <1>0, <3>2 DEF ChangeArrives, ByMember, NoWork
    <3> QED
      BY <1>1, <3>1, <3>2 DEF ApplicantRequest
  <2> QED
    BY <1>d, <2>1, <2>2 DEF PastTheWindow
<1>2. CASE SubmitReadGate(q) \/ SubmitReadRoles(q) \/ SubmitReadMine(q)
  BY <1>2, <1>c DEF SubmitReadGate, SubmitReadRoles, SubmitReadMine, PastTheWindow
<1>3. CASE SubmitReadGateAgain(q) \/ ChangeReadGate(q)
  BY <1>3, <1>c DEF SubmitReadGateAgain, ChangeReadGate
<1>4. CASE SubmitReadRole(q) \/ ChangeReadUser(q)
  BY <1>4, <1>c DEF SubmitReadRole, ChangeReadUser, PastTheWindow
<1>5. CASE SubmitReadExisting(q) \/ ChangeReadCandidacy(q) \/ ChangeReadRole(q)
  <2>1. UNCHANGED dbVars /\ work[q].pc \in PastTheWindow
    BY <1>5 DEF SubmitReadExisting, ChangeReadCandidacy, ChangeReadRole, WorkAt, PastTheWindow
  <2>2. \E l : work' = [work EXCEPT ![q] = l]
    BY <1>5 DEF SubmitReadExisting, ChangeReadCandidacy, ChangeReadRole, WorkAnswer
  <2> QED
    BY <1>d, <1>m, <2>1, <2>2
<1>6. CASE SubmitInsert(q) \/ SubmitUpdate(q) \/ ChangeWrite(q) \/ ChangeFails(q)
  <2>1. work[q].pc \in PastTheWindow /\ WorkAnswer(q)
    BY <1>6 DEF SubmitInsert, SubmitUpdate, ChangeWrite, ChangeFails, WorkAt, PastTheWindow
  <2>2. ASSUME NEW m \in Member, Submits(m) PROVE m = work[q].id
    <3>1. candStatus'[m] # candStatus[m]
      BY <2>2 DEF Submits
    <3>2. ASSUME NEW k, NEW s, candStatus' = candStatus \/ candStatus' = [candStatus EXCEPT ![k] = s]
          PROVE  m = k
      BY <1>0, <3>1, <3>2
    <3> QED
      BY <1>6, <3>2 DEF SubmitInsert, SubmitUpdate, ChangeWrite, ChangeFails, UpdateCandidacy, dbVars, candVars
  <2> QED
    BY <1>a, <2>1, <2>2
<1> QED
  BY <1>1, <1>2, <1>3, <1>4, <1>5, <1>6 DEF ApplicantStep, ChangeStep

\* No other request submits a candidacy.
LEMMA OthersDoNotSubmit ==
  ASSUME ElectionTypeOK, NEW m \in Member
  PROVE  /\ [VotingNext]_votingVars => ~Submits(m)
         /\ \A a \in Committee : CommitteeRequest(a) \/ CommitteeStep(a) => ~Submits(m)
<1>0. candStatus \in [Member -> CandidacyStatus]
  BY DEF ElectionTypeOK, VotingTypeOK, DBTypeOK
<1>k. ASSUME NEW k, NEW s, s # "submitted" \/ s = candStatus[k],
             candStatus' = candStatus \/ candStatus' = [candStatus EXCEPT ![k] = s]
      PROVE  ~Submits(m)
  BY <1>0, <1>k DEF Submits
<1>1. ASSUME [VotingNext]_votingVars PROVE ~Submits(m)
  <2>1. ASSUME NEW n \in Member, MemberRequest(n) PROVE ~Submits(m)
    BY <1>k, <2>1 DEF MemberRequest, CorrectedAge, UpdateUser, SetUserStatus, DeleteUser, DeleteUserRows, candVars
  <2>2. CASE UNCHANGED candVars
    BY <2>2 DEF candVars, Submits
  <2>3. ASSUME NEW q \in Request, CastStep(q) \/ \E n \in Member : CastArrives(q, n)
        PROVE  UNCHANGED candVars
    BY <2>3 DEF CastStep, CastArrives, CastReadStatus, CastReadMember, CastReadVoted, CastReadMode,
       CastReadSingle, CastReadSelections, CastReadRoles, CastReadCandidates, CastWrite, CastRefused, dbVars
  <2>4. ASSUME NEW a \in Admin, AdmStep(a) PROVE UNCHANGED candVars
    BY <2>4 DEF AdmStep, OpenStep, OpenReadGate, OpenReadMode, OpenReadSingle, OpenReadSelections,
       OpenReadRoles, OpenReadCandidates, OpenWrite, ResetWrite, DeleteRoleWrite, DeleteParticipantWrite,
       SettingsReadMode, SettingsWriteMode, SettingsWriteSelections, GateReadStatus, GateWrite, dbVars
  <2>5. ASSUME NEW a \in Admin, AdmRequest(a) PROVE UNCHANGED candVars
    BY <2>5 DEF AdmRequest, OpenStart, StopVoting, ResetStart, CreateRole, UpdateRole, DeleteRoleStart,
       CreateParticipant, UpdateParticipant, DeleteParticipantStart, SettingsStart, GateStart, GateClose,
       dbVars
  <2>6. CASE Restart \/ UNCHANGED votingVars
    BY <2>2, <2>6 DEF Restart, votingVars, dbVars
  <2> QED
    BY <1>1, <2>1, <2>2, <2>3, <2>4, <2>5, <2>6 DEF VotingNext
<1>2. ASSUME NEW a \in Committee, CommitteeRequest(a) \/ CommitteeStep(a) PROVE ~Submits(m)
  <2>1. CASE UNCHANGED dbVars
    BY <2>1 DEF dbVars, candVars, Submits
  <2>2. CASE ChangeWrite(a)
    BY <1>k, <2>2 DEF ChangeWrite, UpdateCandidacy, candVars
  <2>3. CASE AcceptWrite(a)
    BY <1>k, <2>3 DEF AcceptWrite, UpdateCandidacy, candVars
  <2>4. CASE ReturnWrite(a)
    BY <1>k, <2>4 DEF ReturnWrite, UpdateCandidacy, candVars
  <2> QED
    BY <1>2, <2>1, <2>2, <2>3, <2>4, Zenon
       DEF CommitteeRequest, CommitteeStep, ChangeArrives, AcceptStart, ReturnStart, ChangeStep,
           ChangeReadCandidacy, ChangeReadRole, ChangeReadUser, ChangeFails, AcceptFails, WorkCheck
<1> QED
  BY <1>1, <1>2

\* Whatever the committee and the voters do meanwhile, a candidacy submitted after the window
\* closed is that of a request that had read it open, and no request joins those.
THEOREM LateCandidaciesAreFew == ElectionSpec => LateCandidacies
<1> DEFINE Late == gate = "closed" =>
                     /\ Past' \subseteq Past
                     /\ \A m \in Member : candStatus[m] # "submitted" /\ candStatus'[m] = "submitted" =>
                          \E q \in Past \ Past' : work[q].id = m
<1>1. ASSUME ElectionTypeOK, [ElectionNext]_electionVars
      PROVE  [Late]_<<gate, candVars, work>>
  <2> SUFFICES ASSUME gate = "closed" PROVE Late
    OBVIOUS
  <2>0. /\ Past = {q \in Applicant : work[q].pc \in PastTheWindow}
        /\ Past' = {q \in Applicant : work'[q].pc \in PastTheWindow}
    BY DEF Past, PastTheWindow
  <2>1. CASE [VotingNext]_votingVars /\ (UNCHANGED work \/ CandidacyRestart)
    <3>1. Past' \subseteq Past
      BY <2>0, <2>1 DEF CandidacyRestart, NoWork, PastTheWindow, Clerk
    <3> QED
      BY <1>1, <2>1, <3>1, OthersDoNotSubmit DEF Submits
  <2>2. ASSUME NEW q \in Applicant, ApplicantRequest(q) \/ ApplicantStep(q) PROVE Late
    <3>1. q \in Clerk /\ Applicant \subseteq Clerk
      BY DEF Clerk
    <3>2. /\ \A g \in Clerk \ {q} : work'[g] = work[g]
          /\ work'[q].pc \in PastTheWindow => work[q].pc \in PastTheWindow
          /\ \A m \in Member : Submits(m) =>
               work[q].pc \in PastTheWindow /\ work'[q].pc \notin PastTheWindow /\ work[q].id = m
      BY <1>1, <2>2, ClosedWindow
    <3>3. Past' \subseteq Past
      BY <2>0, <3>1, <3>2
    <3>4. ASSUME NEW m \in Member, Submits(m) PROVE \E g \in Past \ Past' : work[g].id = m
      BY <2>0, <3>2, <3>4
    <3> QED
      BY <3>3, <3>4 DEF Submits
  <2>3. ASSUME NEW a \in Committee, CommitteeRequest(a) \/ CommitteeStep(a) PROVE Late
    <3>1. \A q \in Applicant : work'[q] = work[q]
      BY <1>1, <2>3, ClerksMoveThemselves, CandidacyAssumption DEF Clerk
    <3>2. Past' = Past
      BY <2>0, <3>1
    <3> QED
      BY <1>1, <2>3, <3>2, OthersDoNotSubmit DEF Submits
  <2> QED
    BY <1>1, <2>1, <2>2, <2>3, Halves DEF ClerkMoves
<1> QED
  BY <1>1, ElectionTyped, PTL DEF ElectionSpec, LateCandidacies

\* Together: what stays open to requests on their way when voting or the window stops is one
\* ballot or one candidacy each. (CastBallot reads voting_status once, SubmitCandidacy and
\* ChangeCandidacyRole the window.)
THEOREM LateRequestsAreFew == ElectionSpec => LateRequests
BY ElectionLateBallotsAreFew, LateCandidaciesAreFew, PTL DEF LateRequests

=============================================================================
