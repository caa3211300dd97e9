----------------------------- MODULE VotingProofs -----------------------------
(***************************************************************************)
(* Voting's type invariant, the soundness of the ballot box, and that the  *)
(* tables and requests implement BallotBox, for every value of the         *)
(* constants. Then what a request read some statements before it writes,   *)
(* and still holds when it does: a ballot is whole for the pages it read,  *)
(* and with one admin who waits for answers, voting opens on what was      *)
(* checked and loses nothing while it is open. Last, what late requests    *)
(* may still write, and that each request gets on to its end.              *)
(***************************************************************************)
EXTENDS Voting, FiniteSetTheorems, TLAPS

-----------------------------------------------------------------------------
(* Type correctness *)

\* A new database, and requests that have not begun, have their types.
LEMMA VotingTypeInit == VotingInit => VotingTypeOK
  BY DBAssumption DEF VotingInit, DBInit, VotingTypeOK, DBTypeOK, NoCast, NoAdm, CastLocals,
     AdmLocals, CastPC, AdmPC, UserStatus, CandidacyStatus, Section, NoRole, RoleId

\* A ballot's transaction writes rows of the right types.
LEMMA InsertTyped ==
  ASSUME VotingTypeOK, NEW m \in Member, NEW checks \in SUBSET Check,
         NEW sel \in Selections(checks), InsertBallotRows(m, sel)
  PROVE  ballots' \subseteq Ballot /\ votes' \subseteq Vote
<1> DEFINE id == CHOOSE i \in FreeBallotIds : TRUE
<1>1. id \in BallotId
  BY DEF InsertBallotRows, FreeBallotIds
<1>2. \A s \in DOMAIN sel : s \in Section /\ \A i \in DOMAIN sel[s] : sel[s][i] \in PartId
  <2>1. PICK S \in SUBSET Section : sel \in [S -> Lists]
    BY DEF Selections, Check
  <2>2. \A l \in Lists : \A i \in DOMAIN l : l[i] \in PartId
    BY DEF Lists
  <2> QED
    BY <2>1, <2>2
<1>3. NewVotes(id, m, sel) \subseteq Vote
  <2> SUFFICES ASSUME NEW v \in NewVotes(id, m, sel) PROVE v \in Vote
    OBVIOUS
  <2>1. PICK s \in DOMAIN sel : \E i \in DOMAIN sel[s] :
          v = [ballot |-> id, user |-> m, role |-> s, part |-> sel[s][i]]
    BY DEF NewVotes
  <2> QED
    BY <1>1, <1>2, <2>1 DEF Vote
<1>4. [id |-> id, user |-> m] \in Ballot
  BY <1>1 DEF Ballot
<1>5. ballots' = ballots \cup {[id |-> id, user |-> m]} /\ votes' = votes \cup NewVotes(id, m, sel)
  BY DEF InsertBallotRows
<1> QED
  BY <1>3, <1>4, <1>5 DEF VotingTypeOK, DBTypeOK

\* A request that changes nothing but its own locals, to locals of the right
\* types, keeps the type invariant.
LEMMA CastMoveTyped ==
  ASSUME VotingTypeOK, NEW q \in Request, NEW l \in CastLocals,
         l.pc # "idle" => l.user \in Member,
         cast' = [cast EXCEPT ![q] = l], UNCHANGED <<dbVars, adm>>
  PROVE  VotingTypeOK'
  BY DEF VotingTypeOK, DBTypeOK, dbVars, userVars, settingVars, roleVars, partVars, candVars, boxVars

\* Every statement of CastBallot keeps the types.
LEMMA CastTyped ==
  ASSUME VotingTypeOK, NEW q \in Request, CastStep(q)
  PROVE  VotingTypeOK'
<1> USE DBAssumption
<1>t. cast[q] \in CastLocals /\ (cast[q].pc # "idle" => cast[q].user \in Member)
  BY DEF VotingTypeOK
<1>n. NoCast \in CastLocals /\ NoCast.pc = "idle"
  BY DEF NoCast, CastLocals, CastPC
<1>g. ASSUME NEW pc \in CastPC \ {"idle"}, cast[q].pc # "idle", CastGoto(q, pc),
             UNCHANGED <<dbVars, adm>>
      PROVE  VotingTypeOK'
  <2>1. [cast[q] EXCEPT !.pc = pc] \in CastLocals /\ [cast[q] EXCEPT !.pc = pc].user = cast[q].user
    BY <1>t DEF CastLocals
  <2>2. cast' = [cast EXCEPT ![q] = [cast[q] EXCEPT !.pc = pc]]
    BY <1>g DEF CastGoto
  <2> QED
    BY <1>g, <1>t, <2>1, <2>2, CastMoveTyped
<1>a. ASSUME CastAnswer(q), UNCHANGED <<dbVars, adm>>
      PROVE  VotingTypeOK'
  BY <1>a, <1>n, CastMoveTyped DEF CastAnswer
<1>1. CASE CastReadStatus(q)
  BY <1>1, <1>g, <1>a DEF CastReadStatus, CastAt, CastPC
<1>2. CASE CastReadMember(q)
  BY <1>2, <1>g, <1>a DEF CastReadMember, CastAt, CastPC
<1>3. CASE CastReadVoted(q)
  BY <1>3, <1>g, <1>a DEF CastReadVoted, CastAt, CastPC
<1>4. CASE CastReadMode(q)
  BY <1>4, <1>g, <1>a DEF CastReadMode, CastAt, CastPC
<1>e. cast[q].rows \in SUBSET RoleRow /\ cast[q].checks \in SUBSET Check
  BY <1>t DEF CastLocals
<1>5. CASE CastReadSingle(q)
  <2> DEFINE checks == {Page([role |-> NoRole, allowed |-> 0])}
             l == [cast[q] EXCEPT !.pc = "selections", !.checks = checks]
  <2>1. checks \in SUBSET Check
    BY DEF Page, Check, Section, Participants, VotingTypeOK, DBTypeOK
  <2>2. l \in CastLocals /\ l.user \in Member
    BY <1>5, <1>t, <2>1 DEF CastReadSingle, CastAt, CastLocals, CastPC
  <2> QED
    BY <1>5, <2>2, CastMoveTyped DEF CastReadSingle
<1>6. CASE CastReadSelections(q)
  <2> DEFINE checks == WithLimit(cast[q].checks, singleSelections)
             l == [cast[q] EXCEPT !.pc = "write", !.checks = checks]
  <2>1. checks \in SUBSET Check
    BY <1>e DEF WithLimit, Check, VotingTypeOK, DBTypeOK
  <2>2. l \in CastLocals /\ l.user \in Member
    BY <1>6, <1>t, <2>1 DEF CastReadSelections, CastAt, CastLocals, CastPC
  <2> QED
    BY <1>6, <2>2, CastMoveTyped DEF CastReadSelections
<1>7. CASE CastReadRoles(q)
  <2> DEFINE l == [cast[q] EXCEPT !.pc = IF roles = {} THEN "write" ELSE "candidates",
                                  !.rows = Roles]
  <2>1. Roles \in SUBSET RoleRow
    BY DEF Roles, RoleRow, VotingTypeOK, DBTypeOK
  <2>2. l \in CastLocals /\ l.user \in Member
    BY <1>7, <1>t, <2>1 DEF CastReadRoles, CastAt, CastLocals, CastPC
  <2> QED
    BY <1>7, <2>2, CastMoveTyped DEF CastReadRoles
<1>8. CASE CastReadCandidates(q)
  <2> DEFINE l(row) == [cast[q] EXCEPT
               !.pc = IF cast[q].rows = {row} THEN "write" ELSE "candidates",
               !.rows = cast[q].rows \ {row},
               !.checks = cast[q].checks \cup {Page(row)}]
  <2>1. PICK row \in cast[q].rows : cast' = [cast EXCEPT ![q] = l(row)]
    BY <1>8 DEF CastReadCandidates
  <2>2. Page(row) \in Check
    BY <1>e DEF Page, RoleRow, Check, Section, Participants, VotingTypeOK, DBTypeOK
  <2>3. l(row) \in CastLocals /\ l(row).user \in Member
    BY <1>8, <1>t, <1>e, <2>2 DEF CastReadCandidates, CastAt, CastLocals, CastPC
  <2>4. UNCHANGED <<dbVars, adm>>
    BY <1>8 DEF CastReadCandidates
  <2> QED
    BY <2>1, <2>3, <2>4, CastMoveTyped
<1>9. CASE CastWrite(q)
  <2>1. PICK sel \in Selections(cast[q].checks) : InsertBallotRows(cast[q].user, sel)
    BY <1>9 DEF CastWrite
  <2>2. ballots' \subseteq Ballot /\ votes' \subseteq Vote
    BY <1>9, <1>t, <1>e, <2>1, InsertTyped DEF CastWrite, CastAt
  <2> QED
    BY <1>9, <1>n, <2>2 DEF CastWrite, CastAnswer, VotingTypeOK, DBTypeOK, userVars, settingVars,
       roleVars, partVars, candVars
<1>10. CASE CastRefused(q)
  BY <1>10, <1>a DEF CastRefused
<1> QED
  BY <1>1, <1>2, <1>3, <1>4, <1>5, <1>6, <1>7, <1>8, <1>9, <1>10 DEF CastStep

\* The same for an admin's request.
LEMMA AdmMoveTyped ==
  ASSUME VotingTypeOK, NEW a \in Admin, NEW l \in AdmLocals,
         adm' = [adm EXCEPT ![a] = l], UNCHANGED <<dbVars, cast>>
  PROVE  VotingTypeOK'
  BY DEF VotingTypeOK, DBTypeOK, dbVars, userVars, settingVars, roleVars, partVars, candVars, boxVars

\* Deleting rows keeps the tables typed.
LEMMA DeleteTyped ==
  ASSUME VotingTypeOK, NEW P, DeleteParticipantRows(P)
  PROVE  /\ participants' \subseteq PartId /\ partSeq' \in 0..MaxPart
         /\ partRole' \in [PartId -> Section]
         /\ partCand' \in [PartId -> Member \cup {NoMember}]
         /\ votes' \subseteq Vote
  BY DEF VotingTypeOK, DBTypeOK, DeleteParticipantRows, Section, NoRole

\* A row inserted into participants keeps the table typed.
LEMMA InsertRowTyped ==
  ASSUME DBTypeOK, NEW r \in Section, NEW c \in Member \cup {NoMember},
         InsertParticipantRow(r, c)
  PROVE  /\ participants' \subseteq PartId /\ partSeq' \in 0..MaxPart
         /\ partRole' \in [PartId -> Section]
         /\ partCand' \in [PartId -> Member \cup {NoMember}]
<1> USE DBAssumption
<1>1. partSeq + 1 \in 1..MaxPart
  BY DEF DBTypeOK, InsertParticipantRow
<1>2. partSeq' \in 0..MaxPart /\ participants' \subseteq PartId
  BY <1>1 DEF DBTypeOK, InsertParticipantRow, PartId
<1>3. partRole' \in [PartId -> Section]
  BY DEF DBTypeOK, InsertParticipantRow
<1>4. partCand' \in [PartId -> Member \cup {NoMember}]
  BY DEF DBTypeOK, InsertParticipantRow
<1> QED
  BY <1>2, <1>3, <1>4

\* Every step of an elections admin keeps the types.
LEMMA AdmTyped ==
  ASSUME VotingTypeOK, NEW a \in Admin, AdmRequest(a) \/ AdmStep(a)
  PROVE  VotingTypeOK'
<1> USE DBAssumption
<1>t. adm[a] \in AdmLocals /\ NoAdm \in AdmLocals
  BY DEF VotingTypeOK, NoAdm, AdmLocals, AdmPC
<1>g. ASSUME NEW pc \in AdmPC, AdmGoto(a, pc), UNCHANGED <<dbVars, cast>>
      PROVE  VotingTypeOK'
  <2>1. [adm[a] EXCEPT !.pc = pc] \in AdmLocals
    BY <1>t DEF AdmLocals
  <2>2. adm' = [adm EXCEPT ![a] = [adm[a] EXCEPT !.pc = pc]]
    BY <1>g DEF AdmGoto
  <2> QED
    BY <1>g, <2>1, <2>2, AdmMoveTyped
<1>a. ASSUME AdmAnswer(a), UNCHANGED <<dbVars, cast>>
      PROVE  VotingTypeOK'
  BY <1>a, <1>t, AdmMoveTyped DEF AdmAnswer
<1>w. ASSUME AdmAnswer(a)
      PROVE  adm' \in [Admin -> AdmLocals]
  BY <1>w, <1>t DEF AdmAnswer, VotingTypeOK
<1>1. CASE OpenStart(a)
  BY <1>1, <1>g DEF OpenStart, AdmPC
<1>2. CASE OpenReadGate(a)
  BY <1>2, <1>g, <1>a DEF OpenReadGate, AdmPC
<1>3. CASE OpenReadMode(a)
  BY <1>3, <1>g, <1>a DEF OpenReadMode, AdmPC
<1>4. CASE OpenReadSingle(a)
  <2> DEFINE l == [adm[a] EXCEPT !.pc = "selections", !.cands = Participants(NoRole)]
  <2>1. l \in AdmLocals
    <3>1. Participants(NoRole) \in SUBSET PartId
      BY DEF Participants, VotingTypeOK, DBTypeOK
    <3> QED
      BY <1>t, <3>1 DEF AdmLocals, AdmPC
  <2> QED
    BY <1>4, <2>1, <1>a, AdmMoveTyped DEF OpenReadSingle
<1>5. CASE OpenReadSelections(a)
  BY <1>5, <1>g, <1>a DEF OpenReadSelections, AdmPC
<1>6. CASE OpenReadRoles(a)
  <2> DEFINE l == [adm[a] EXCEPT !.pc = "candidates", !.rows = Roles]
  <2>1. l \in AdmLocals
    <3>1. Roles \in SUBSET RoleRow
      BY DEF Roles, RoleRow, VotingTypeOK, DBTypeOK
    <3> QED
      BY <1>t, <3>1 DEF AdmLocals, AdmPC
  <2> QED
    BY <1>6, <2>1, <1>a, AdmMoveTyped DEF OpenReadRoles
<1>7. CASE OpenReadCandidates(a)
  <2> DEFINE l(row) == [adm[a] EXCEPT
               !.pc = IF adm[a].rows = {row} THEN "open" ELSE "candidates",
               !.rows = adm[a].rows \ {row}]
  <2>1. \A row : l(row) \in AdmLocals
    BY <1>t DEF AdmLocals, AdmPC
  <2>2. \/ \E row : adm' = [adm EXCEPT ![a] = l(row)]
        \/ AdmAnswer(a)
    BY <1>7 DEF OpenReadCandidates
  <2>3. UNCHANGED <<dbVars, cast>>
    BY <1>7 DEF OpenReadCandidates
  <2> QED
    BY <2>1, <2>2, <2>3, <1>a, AdmMoveTyped
<1>8. CASE OpenWrite(a)
  BY <1>8, <1>w DEF OpenWrite, VotingTypeOK, DBTypeOK, userVars, roleVars, partVars, candVars, boxVars
<1>9. CASE \E s \in {"draft", "closed"} : StopVoting(a, s)
  BY <1>9 DEF StopVoting, VotingTypeOK, DBTypeOK, userVars, roleVars, partVars, candVars, boxVars
<1>10. CASE ResetStart(a)
  BY <1>10, <1>g DEF ResetStart, AdmPC
<1>11. CASE ResetWrite(a)
  BY <1>11, <1>w DEF ResetWrite, VotingTypeOK, DBTypeOK, userVars, settingVars, roleVars, partVars, candVars
<1>12. CASE \E n \in 1..MaxPicks, y \in Years : CreateRole(a, n, y)
  BY <1>12 DEF CreateRole, RoleId, VotingTypeOK, DBTypeOK, userVars, settingVars, partVars, candVars, boxVars
<1>13. CASE \E r \in RoleId, n \in 1..MaxPicks, y \in Years : UpdateRole(a, r, n, y)
  BY <1>13 DEF UpdateRole, VotingTypeOK, DBTypeOK, userVars, settingVars, partVars, candVars, boxVars
<1>14. CASE \E r \in RoleId : DeleteRoleStart(a, r)
  <2>1. PICK r \in RoleId : DeleteRoleStart(a, r)
    BY <1>14
  <2> DEFINE l == [adm[a] EXCEPT !.pc = "delete_role", !.id = r]
  <2>2. l \in AdmLocals
    <3>1. r \in Nat
      BY DEF RoleId
    <3> QED
      BY <3>1, <1>t DEF AdmLocals, AdmPC
  <2> QED
    BY <2>1, <2>2, AdmMoveTyped DEF DeleteRoleStart
<1>15. CASE DeleteRoleWrite(a)
  <2>1. adm' \in [Admin -> AdmLocals] /\ DeleteParticipantRows(Participants(adm[a].id))
    BY <1>15, <1>w DEF DeleteRoleWrite
  <2>2. /\ roles' \subseteq RoleId /\ allowed' \in [RoleId -> 1..MaxPicks]
        /\ minAge' \in [RoleId -> Years]
    <3>1. 1 \in 1..MaxPicks
      BY DBAssumption
    <3>2. roles' \subseteq RoleId
      BY <1>15 DEF DeleteRoleWrite, VotingTypeOK, DBTypeOK
    <3>3. allowed' = [allowed EXCEPT ![adm[a].id] = 1] /\ allowed \in [RoleId -> 1..MaxPicks]
      BY <1>15 DEF DeleteRoleWrite, VotingTypeOK, DBTypeOK
    <3>4. minAge' \in [RoleId -> Years]
      BY <1>15, DBAssumption DEF DeleteRoleWrite, VotingTypeOK, DBTypeOK
    <3> QED
      BY <3>1, <3>2, <3>3, <3>4
  <2> QED
    BY <1>15, <2>1, <2>2, DeleteTyped DEF DeleteRoleWrite, VotingTypeOK, DBTypeOK,
       userVars, settingVars, candVars
<1>16. CASE \E r \in Section : CreateParticipant(a, r)
  <2>1. PICK r \in Section : InsertParticipantRow(r, NoMember)
    BY <1>16 DEF CreateParticipant
  <2> QED
    BY <1>16, <2>1, InsertRowTyped DEF CreateParticipant, VotingTypeOK, DBTypeOK, userVars, settingVars,
       roleVars, candVars, boxVars
<1>17. CASE \E p \in PartId, r \in Section : UpdateParticipant(a, p, r)
  BY <1>17 DEF UpdateParticipant, MoveParticipantRows, VotingTypeOK, DBTypeOK,
     userVars, settingVars, roleVars, candVars, boxVars
<1>18. CASE \E p \in PartId : DeleteParticipantStart(a, p)
  <2>1. PICK p \in PartId : DeleteParticipantStart(a, p)
    BY <1>18
  <2> DEFINE l == [adm[a] EXCEPT !.pc = "delete_participant", !.id = p]
  <2>2. l \in AdmLocals
    <3>1. p \in Nat
      BY DEF PartId
    <3> QED
      BY <3>1, <1>t DEF AdmLocals, AdmPC
  <2> QED
    BY <2>1, <2>2, AdmMoveTyped DEF DeleteParticipantStart
<1>19. CASE DeleteParticipantWrite(a)
  BY <1>19, <1>w, DeleteTyped DEF DeleteParticipantWrite, VotingTypeOK, DBTypeOK,
     userVars, settingVars, roleVars, candVars
<1>20. CASE \E mode \in {"roles", "single"}, sel \in 1..MaxPicks : SettingsStart(a, mode, sel)
  <2>1. PICK mode \in {"roles", "single"}, sel \in 1..MaxPicks : SettingsStart(a, mode, sel)
    BY <1>20
  <2> DEFINE pc == IF votingStatus = "open" THEN "settings_mode" ELSE "settings_write"
             l == [adm[a] EXCEPT !.pc = pc, !.mode = mode, !.sel = sel]
  <2>2. l \in AdmLocals
    <3>1. pc \in AdmPC /\ mode \in {"kept", "roles", "single"} /\ sel \in 0..MaxPicks
      BY DEF AdmPC
    <3> HIDE DEF pc
    <3> QED
      BY <3>1, <1>t DEF AdmLocals
  <2>3. adm' = [adm EXCEPT ![a] = l] /\ UNCHANGED <<dbVars, cast>>
    BY <2>1 DEF SettingsStart
  <2> QED
    BY <2>2, <2>3, AdmMoveTyped
<1>21. CASE SettingsReadMode(a)
  BY <1>21, <1>g, <1>a DEF SettingsReadMode, AdmPC
<1>22. CASE SettingsWriteMode(a)
  <2>1. adm[a].mode \in {"roles", "single"} /\ [adm[a] EXCEPT !.mode = "kept"] \in AdmLocals
    BY <1>22, <1>t DEF SettingsWriteMode, AdmLocals
  <2>2. adm' \in [Admin -> AdmLocals]
    BY <1>22, <1>w, <2>1 DEF SettingsWriteMode, VotingTypeOK
  <2> QED
    BY <1>22, <2>1, <2>2 DEF SettingsWriteMode, VotingTypeOK, DBTypeOK, userVars, roleVars, partVars,
       candVars, boxVars
<1>23. CASE SettingsWriteSelections(a)
  <2>1. adm[a].sel \in 1..MaxPicks /\ [adm[a] EXCEPT !.sel = 0] \in AdmLocals
    BY <1>23, <1>t DEF SettingsWriteSelections, AdmLocals
  <2>2. adm' \in [Admin -> AdmLocals]
    BY <1>23, <1>w, <2>1 DEF SettingsWriteSelections, VotingTypeOK
  <2> QED
    BY <1>23, <2>1, <2>2 DEF SettingsWriteSelections, VotingTypeOK, DBTypeOK, userVars, roleVars,
       partVars, candVars, boxVars
<1>24. CASE GateStart(a)
  BY <1>24, <1>g DEF GateStart, AdmPC
<1>25. CASE GateReadStatus(a)
  BY <1>25, <1>g, <1>a DEF GateReadStatus, AdmPC
<1>26. CASE GateWrite(a)
  BY <1>26, <1>w DEF GateWrite, VotingTypeOK, DBTypeOK, userVars, roleVars, partVars, candVars, boxVars
<1>27. CASE GateClose(a)
  BY <1>27 DEF GateClose, VotingTypeOK, DBTypeOK, userVars, roleVars, partVars, candVars, boxVars
<1> QED
  BY <1>1, <1>2, <1>3, <1>4, <1>5, <1>6, <1>7, <1>8, <1>9, <1>10, <1>11, <1>12, <1>13, <1>14,
     <1>15, <1>16, <1>17, <1>18, <1>19, <1>20, <1>21, <1>22, <1>23, <1>24, <1>25, <1>26, <1>27
     DEF AdmRequest, AdmStep, OpenStep

\* A ballot request that arrives, the membership admin and a restart keep the types.
LEMMA OthersTyped ==
  ASSUME VotingTypeOK,
         \/ \E q \in Request, m \in Member : CastArrives(q, m)
         \/ \E m \in Member : MemberRequest(m)
         \/ Restart
  PROVE  VotingTypeOK'
<1>1. ASSUME NEW q \in Request, NEW m \in Member, CastArrives(q, m)
      PROVE  VotingTypeOK'
  <2> DEFINE l == [cast[q] EXCEPT !.pc = "status", !.user = m]
  <2>1. cast[q] \in CastLocals
    BY DEF VotingTypeOK
  <2>2. l \in CastLocals /\ l.user \in Member
    BY <2>1 DEF CastLocals, CastPC
  <2> QED
    BY <1>1, <2>2, CastMoveTyped DEF CastArrives
<1>2. ASSUME NEW m \in Member, NEW s \in {"active", "withdrawn"}, SetUserStatus(m, s)
      PROVE  VotingTypeOK'
  BY <1>2 DEF SetUserStatus, UserStatus, VotingTypeOK, DBTypeOK, userVars, settingVars, roleVars,
     partVars, candVars, boxVars
<1>3. ASSUME NEW m \in Member, DeleteUser(m)
      PROVE  VotingTypeOK'
  BY <1>3 DEF DeleteUser, DeleteUserRows, UserStatus, CandidacyStatus, Section, NoRole,
     VotingTypeOK, DBTypeOK, userVars, settingVars, roleVars, partVars
<1>4. CASE Restart
  <2>1. NoCast \in CastLocals /\ NoCast.pc = "idle" /\ NoAdm \in AdmLocals
    BY DBAssumption DEF NoCast, NoAdm, CastLocals, AdmLocals, CastPC, AdmPC
  <2> QED
    BY <1>4, <2>1 DEF Restart, VotingTypeOK, DBTypeOK, dbVars, userVars, settingVars, roleVars,
       partVars, candVars, boxVars
<1>5. ASSUME NEW m \in Member, NEW y \in Years, UpdateUser(m, y)
      PROVE  VotingTypeOK'
  BY <1>5 DEF UpdateUser, VotingTypeOK, DBTypeOK, settingVars, roleVars, partVars, candVars, boxVars
<1> QED
  BY <1>1, <1>2, <1>3, <1>4, <1>5 DEF MemberRequest, CorrectedAge

\* The type invariant is inductive.
LEMMA VotingTypeStep == VotingTypeOK /\ [VotingNext]_votingVars => VotingTypeOK'
<1> SUFFICES ASSUME VotingTypeOK, [VotingNext]_votingVars PROVE VotingTypeOK'
  OBVIOUS
<1>1. CASE VotingNext
  BY <1>1, CastTyped, AdmTyped, OthersTyped DEF VotingNext
<1>2. CASE UNCHANGED votingVars
  BY <1>2 DEF votingVars, VotingTypeOK, DBTypeOK, dbVars, userVars, settingVars, roleVars, partVars,
     candVars, boxVars
<1> QED
  BY <1>1, <1>2

\* Every table and every request's locals keep their types, whatever interleaves
\* with whatever and whenever the process restarts.
THEOREM VotingTyped == VotingSpec => []VotingTypeOK
  BY VotingTypeInit, VotingTypeStep, PTL DEF VotingSpec
-----------------------------------------------------------------------------
(* The ballot box is sound. BallotBoxSound is inductive given the types:    *)
(* what the requests have read is never used in the argument, only the      *)
(* constraints that the transaction is subject to.                          *)

\* An empty box is sound.
LEMMA SoundInit == VotingInit => BallotBoxSound
  BY DEF VotingInit, DBInit, BallotBoxSound, OneBallotPerMember, VotesOnOwnBallot,
     OneVotePerCandidate, NoDanglingRows

\* A step that leaves the tables of the box's rows and referents alone keeps it sound.
LEMMA SoundUnchanged ==
  ASSUME BallotBoxSound, UNCHANGED <<users, roles, participants, partRole, boxVars>>
  PROVE  BallotBoxSound'
  BY DEF BallotBoxSound, OneBallotPerMember, VotesOnOwnBallot, OneVotePerCandidate,
     NoDanglingRows, boxVars

\* A ballot's transaction keeps the box sound: its constraints are enough.
LEMMA SoundInsert ==
  ASSUME VotingTypeOK, BallotBoxSound, NEW m \in Member, NEW sel, InsertBallotRows(m, sel),
         UNCHANGED <<users, roleVars, partVars>>
  PROVE  BallotBoxSound'
<1> DEFINE id == CHOOSE i \in FreeBallotIds : TRUE
           new == NewVotes(id, m, sel)
<1>1. ballots' = ballots \cup {[id |-> id, user |-> m]} /\ votes' = votes \cup new
  BY DEF InsertBallotRows
<1>2. \A v \in new : \E s \in DOMAIN sel : \E i \in DOMAIN sel[s] :
        v = [ballot |-> id, user |-> m, role |-> s, part |-> sel[s][i]]
  BY DEF NewVotes
<1>3. UniqueBallot(m) /\ UniqueVotes(m, sel) /\ ForeignKeys(m, sel)
  BY DEF InsertBallotRows
<1> HIDE DEF id, new
<1>4. OneBallotPerMember'
  BY <1>1, <1>3 DEF UniqueBallot, HasVoted, BallotBoxSound, OneBallotPerMember
<1>5. VotesOnOwnBallot'
  <2> SUFFICES ASSUME NEW v \in votes'
               PROVE  [id |-> v.ballot, user |-> v.user] \in ballots' /\ v.part \in participants'
    BY DEF VotesOnOwnBallot
  <2>1. participants' = participants
    BY DEF partVars
  <2>2. CASE v \in votes
    BY <2>1, <2>2, <1>1 DEF BallotBoxSound, VotesOnOwnBallot
  <2>3. CASE v \in new
    <3>1. PICK s \in DOMAIN sel : \E i \in DOMAIN sel[s] :
            v = [ballot |-> id, user |-> m, role |-> s, part |-> sel[s][i]]
      BY <2>3, <1>2
    <3>2. v.part \in participants
      BY <3>1, <1>3 DEF ForeignKeys
    <3> QED
      BY <3>1, <3>2, <2>1, <1>1
  <2> QED
    BY <1>1, <2>2, <2>3
<1>6. OneVotePerCandidate'
  <2> SUFFICES ASSUME NEW v \in votes', NEW w \in votes', v.user = w.user, v.part = w.part
               PROVE  v = w
    BY DEF OneVotePerCandidate
  <2>1. CASE v \in votes /\ w \in votes
    BY <2>1 DEF BallotBoxSound, OneVotePerCandidate
  <2>2. CASE v \in new /\ w \in new
    BY <2>2, <1>2, <1>3 DEF UniqueVotes
  <2>3. CASE v \in votes /\ w \in new
    BY <2>3, <1>2, <1>3 DEF UniqueVotes
  <2>4. CASE v \in new /\ w \in votes
    BY <2>4, <1>2, <1>3 DEF UniqueVotes
  <2> QED
    BY <1>1, <2>1, <2>2, <2>3, <2>4
<1>7. NoDanglingRows'
  BY <1>1, <1>3 DEF ForeignKeys, BallotBoxSound, NoDanglingRows, userVars, roleVars, partVars
<1> QED
  BY <1>4, <1>5, <1>6, <1>7 DEF BallotBoxSound

\* Deleting participants with their votes keeps the votes sound.
LEMMA SoundDelete ==
  ASSUME VotingTypeOK, BallotBoxSound, NEW P, DeleteParticipantRows(P),
         \A p \in participants \ P : partRole[p] \in roles' \cup {NoRole},
         UNCHANGED <<users, ballots>>
  PROVE  BallotBoxSound'
<1>1. OneBallotPerMember' /\ OneVotePerCandidate' /\ VotesOnOwnBallot'
  BY DEF DeleteParticipantRows, BallotBoxSound, OneBallotPerMember, OneVotePerCandidate,
     VotesOnOwnBallot
<1>2. NoDanglingRows'
  BY DEF DeleteParticipantRows, BallotBoxSound, NoDanglingRows, VotingTypeOK, DBTypeOK
<1> QED
  BY <1>1, <1>2 DEF BallotBoxSound

\* Soundness of the box is inductive, given the types.
LEMMA SoundStep == VotingTypeOK /\ BallotBoxSound /\ [VotingNext]_votingVars => BallotBoxSound'
<1> SUFFICES ASSUME VotingTypeOK, BallotBoxSound, [VotingNext]_votingVars
             PROVE  BallotBoxSound'
  OBVIOUS
<1> USE DEF dbVars, userVars, settingVars, roleVars, partVars, candVars, boxVars
<1>1. ASSUME NEW q \in Request, CastWrite(q)
      PROVE  BallotBoxSound'
  <2>1. cast[q].user \in Member
    BY <1>1 DEF CastWrite, CastAt, VotingTypeOK
  <2> QED
    BY <1>1, <2>1, SoundInsert DEF CastWrite
<1>2. ASSUME NEW q \in Request, CastStep(q), ~CastWrite(q)
      PROVE  BallotBoxSound'
  BY <1>2, SoundUnchanged DEF CastStep, CastReadStatus, CastReadMember, CastReadVoted,
     CastReadMode, CastReadSingle, CastReadSelections, CastReadRoles, CastReadCandidates,
     CastRefused
<1>3. ASSUME NEW a \in Admin, DeleteRoleWrite(a)
      PROVE  BallotBoxSound'
  <2>1. \A p \in participants \ Participants(adm[a].id) : partRole[p] \in roles' \cup {NoRole}
    BY <1>3 DEF DeleteRoleWrite, Participants, BallotBoxSound, NoDanglingRows
  <2> QED
    BY <1>3, <2>1, SoundDelete DEF DeleteRoleWrite
<1>4. ASSUME NEW a \in Admin, DeleteParticipantWrite(a)
      PROVE  BallotBoxSound'
  BY <1>4, SoundDelete DEF DeleteParticipantWrite, BallotBoxSound, NoDanglingRows
<1>5. ASSUME NEW a \in Admin, ResetWrite(a)
      PROVE  BallotBoxSound'
  BY <1>5 DEF ResetWrite, BallotBoxSound, OneBallotPerMember, VotesOnOwnBallot,
     OneVotePerCandidate, NoDanglingRows
<1>6. ASSUME NEW a \in Admin, NEW n \in 1..MaxPicks, NEW y \in Years, CreateRole(a, n, y)
      PROVE  BallotBoxSound'
  BY <1>6 DEF CreateRole, BallotBoxSound, OneBallotPerMember, VotesOnOwnBallot,
     OneVotePerCandidate, NoDanglingRows
<1>7. ASSUME NEW a \in Admin, NEW r \in Section, CreateParticipant(a, r)
      PROVE  BallotBoxSound'
  <2>1. UNCHANGED <<users, roles, ballots, votes>>
    BY <1>7 DEF CreateParticipant
  <2>2. participants \subseteq participants'
    BY <1>7 DEF CreateParticipant, InsertParticipantRow
  <2>3. \A p \in participants' : partRole'[p] \in roles \cup {NoRole}
    <3>1. partSeq + 1 \in PartId
      BY <1>7, DBAssumption DEF CreateParticipant, InsertParticipantRow, PartId, VotingTypeOK,
         DBTypeOK
    <3> QED
      BY <1>7, <3>1 DEF CreateParticipant, InsertParticipantRow, BallotBoxSound,
         NoDanglingRows, VotingTypeOK, DBTypeOK
  <2> QED
    BY <2>1, <2>2, <2>3 DEF BallotBoxSound, OneBallotPerMember, VotesOnOwnBallot,
       OneVotePerCandidate, NoDanglingRows
<1>8. ASSUME NEW a \in Admin, NEW p \in PartId, NEW r \in Section, UpdateParticipant(a, p, r)
      PROVE  BallotBoxSound'
  BY <1>8 DEF UpdateParticipant, MoveParticipantRows, BallotBoxSound, OneBallotPerMember,
     VotesOnOwnBallot, OneVotePerCandidate, NoDanglingRows, VotingTypeOK, DBTypeOK
<1>9. ASSUME NEW a \in Admin, AdmRequest(a) \/ AdmStep(a),
             ~DeleteRoleWrite(a), ~DeleteParticipantWrite(a), ~ResetWrite(a)
      PROVE  BallotBoxSound'
  BY <1>9, <1>6, <1>7, <1>8, SoundUnchanged DEF AdmRequest, AdmStep, OpenStep, OpenStart,
     OpenReadGate, OpenReadMode, OpenReadSingle, OpenReadSelections, OpenReadRoles,
     OpenReadCandidates, OpenWrite, StopVoting, ResetStart, UpdateRole, DeleteRoleStart,
     DeleteParticipantStart, SettingsStart, SettingsReadMode, SettingsWriteMode,
     SettingsWriteSelections, GateStart, GateReadStatus, GateWrite, GateClose
<1>10. ASSUME NEW q \in Request, NEW m \in Member, CastArrives(q, m)
       PROVE  BallotBoxSound'
  BY <1>10, SoundUnchanged DEF CastArrives
<1>11. ASSUME NEW m \in Member, MemberRequest(m)
       PROVE  BallotBoxSound'
  <2>1. ASSUME NEW s \in {"active", "withdrawn"}, SetUserStatus(m, s)
        PROVE  BallotBoxSound'
    BY <2>1 DEF SetUserStatus, BallotBoxSound, OneBallotPerMember, VotesOnOwnBallot,
       OneVotePerCandidate, NoDanglingRows, VotingTypeOK, DBTypeOK, Ballot
  <2>2. CASE DeleteUser(m)
    BY <2>2 DEF DeleteUser, DeleteUserRows, BallotBoxSound, OneBallotPerMember,
       VotesOnOwnBallot, OneVotePerCandidate, NoDanglingRows, VotingTypeOK, DBTypeOK, Ballot
  <2> QED
    BY <1>11, <2>1, <2>2, SoundUnchanged DEF MemberRequest, CorrectedAge, UpdateUser
<1>12. CASE Restart \/ UNCHANGED votingVars
  BY <1>12, SoundUnchanged DEF Restart, votingVars
<1> QED
  BY <1>1, <1>2, <1>3, <1>4, <1>5, <1>9, <1>10, <1>11, <1>12 DEF VotingNext

\* No member ever holds two ballots, no vote lies outside its member's own ballot
\* or names a candidate twice, and no row outlives the member, candidate or role
\* it refers to, for any number of requests, admins and restarts.
THEOREM BallotBoxIsSound == VotingSpec => []BallotBoxSound
<1>1. VotingInit => BallotBoxSound
  BY SoundInit
<1>2. VotingTypeOK /\ BallotBoxSound /\ [VotingNext]_votingVars => BallotBoxSound'
  BY SoundStep
<1> QED
  BY <1>1, <1>2, VotingTyped, PTL DEF VotingSpec
-----------------------------------------------------------------------------
(* The tables and requests implement BallotBox. *)

\* An empty database is an empty box.
LEMMA BoxInit == VotingInit => Box!Init
  BY DEF VotingInit, DBInit, Box!Init, Voted, Choices

\* A step that leaves ballots and votes alone leaves the box alone.
LEMMA BoxStutter ==
  ASSUME UNCHANGED boxVars
  PROVE  UNCHANGED Box!boxVars
  BY DEF boxVars, Box!boxVars, Voted, Choices

\* What a member has chosen is what the member's votes say, nothing else.
LEMMA ChoicesOf ==
  ASSUME NEW m \in Member
  PROVE  /\ \A c : c \in Choices[m] <=>
              \E v \in votes : v.user = m /\ c = [role |-> v.role, part |-> v.part]
         /\ \A c : c \in Choices'[m] <=>
              \E v \in votes' : v.user = m /\ c = [role |-> v.role, part |-> v.part]
  BY DEF Choices

\* A ballot's transaction is a Cast of its member.
LEMMA BoxCast ==
  ASSUME VotingTypeOK, VotingTypeOK', BallotBoxSound, BallotBoxSound', NEW m \in Member, NEW sel,
         InsertBallotRows(m, sel)
  PROVE  Box!Next
<1> DEFINE id == CHOOSE i \in FreeBallotIds : TRUE
           new == NewVotes(id, m, sel)
           S == {[role |-> v.role, part |-> v.part] : v \in new}
<1>1. ballots' = ballots \cup {[id |-> id, user |-> m]} /\ votes' = votes \cup new /\ ~HasVoted(m)
  BY DEF InsertBallotRows, UniqueBallot
<1>2. \A v \in new : v.user = m
  BY DEF NewVotes
<1> HIDE DEF id, new
<1>3. ASSUME NEW v \in votes PROVE v.user # m
  <2>1. [id |-> v.ballot, user |-> v.user] \in ballots
    BY DEF BallotBoxSound, VotesOnOwnBallot
  <2>2. [id |-> v.ballot, user |-> v.user].user # m
    BY <1>1, <2>1 DEF HasVoted
  <2> QED
    BY <2>2
<1>4. Voted' = Voted \cup {m} /\ m \notin Voted
  <2>1. m \notin Voted
    BY <1>1 DEF Voted, HasVoted
  <2>2. ASSUME NEW u PROVE u \in Voted' <=> u \in Voted \/ u = m
    <3>1. u \in Voted' <=> \E b \in ballots' : b.user = u
      BY DEF Voted
    <3>2. u \in Voted <=> \E b \in ballots : b.user = u
      BY DEF Voted
    <3>3. [id |-> id, user |-> m].user = m
      OBVIOUS
    <3> QED
      BY <1>1, <3>1, <3>2, <3>3
  <2> QED
    BY <2>1, <2>2
<1>5. new \subseteq Vote
  BY <1>1 DEF VotingTypeOK, DBTypeOK
<1>6. S \in SUBSET Box!Choice
  BY <1>5 DEF Box!Choice, Vote
<1>7. Box!WellFormed(S)
  <2> SUFFICES ASSUME NEW v \in new, NEW w \in new, v.part = w.part
               PROVE  v = w
    BY DEF Box!WellFormed
  <2> QED
    BY <1>1, <1>2 DEF BallotBoxSound, OneVotePerCandidate
<1>8. Choices' = [Choices EXCEPT ![m] = S]
  <2>1. Choices'[m] = S
    BY <1>1, <1>2, <1>3, ChoicesOf
  <2>2. ASSUME NEW n \in Member, n # m PROVE Choices'[n] = Choices[n]
    <3>1. {v \in votes' : v.user = n} = {v \in votes : v.user = n}
      BY <2>2, <1>1, <1>2
    <3> QED
      BY <3>1 DEF Choices
  <2>3. Choices = [n \in Member |-> Choices[n]] /\ Choices' = [n \in Member |-> Choices'[n]]
    BY DEF Choices
  <2> HIDE DEF S
  <2> QED
    BY <2>1, <2>2, <2>3
<1>9. Box!Cast(m, S)
  BY <1>4, <1>7, <1>8 DEF Box!Cast
<1> QED
  BY <1>6, <1>9 DEF Box!Next

\* Deleting participants strikes them from every ballot.
LEMMA BoxStrike ==
  ASSUME VotingTypeOK, NEW P, votes' = {v \in votes : v.part \notin P}, UNCHANGED ballots
  PROVE  Box!Next
<1> DEFINE Q == P \cap PartId
<1>1. Voted' = Voted
  BY DEF Voted
<1>2. \A v \in votes : v.part \in Q <=> v.part \in P
  BY DEF VotingTypeOK, DBTypeOK, Vote
<1>3. ASSUME NEW m \in Member PROVE Choices'[m] = {c \in Choices[m] : c.part \notin Q}
  BY <1>2, ChoicesOf
<1>4. Choices' = [m \in Member |-> {c \in Choices[m] : c.part \notin Q}]
  <2>1. Choices' = [m \in Member |-> Choices'[m]]
    BY DEF Choices
  <2> QED
    BY <1>3, <2>1
<1>5. Box!Strike(Q)
  BY <1>1, <1>4 DEF Box!Strike
<1> QED
  BY <1>5 DEF Box!Next

\* Deleting a member annuls the ballot of that member.
LEMMA BoxAnnul ==
  ASSUME VotingTypeOK, NEW m \in Member, DeleteUserRows(m)
  PROVE  Box!Next
<1>1. Voted' = Voted \ {m}
  BY DEF DeleteUserRows, Voted
<1>2. Choices' = [Choices EXCEPT ![m] = {}]
  <2>1. Choices'[m] = {}
    BY ChoicesOf DEF DeleteUserRows
  <2>2. ASSUME NEW n \in Member, n # m PROVE Choices'[n] = Choices[n]
    <3>1. {v \in votes' : v.user = n} = {v \in votes : v.user = n}
      BY <2>2 DEF DeleteUserRows
    <3> QED
      BY <3>1 DEF Choices
  <2>3. Choices = [n \in Member |-> Choices[n]] /\ Choices' = [n \in Member |-> Choices'[n]]
    BY DEF Choices
  <2> QED
    BY <2>1, <2>2, <2>3
<1>3. Box!Annul(m)
  BY <1>1, <1>2 DEF Box!Annul
<1> QED
  BY <1>3 DEF Box!Next

\* Emptying both tables clears the box.
LEMMA BoxClear ==
  ASSUME ballots' = {}, votes' = {}
  PROVE  Box!Next
  BY DEF Box!Next, Box!Clear, Voted, Choices

\* Every step of the requests is a step of the box or a stutter.
LEMMA BoxStep ==
  VotingTypeOK /\ VotingTypeOK' /\ BallotBoxSound /\ BallotBoxSound' /\ [VotingNext]_votingVars
    => [Box!Next]_(Box!boxVars)
<1> SUFFICES ASSUME VotingTypeOK, VotingTypeOK', BallotBoxSound, BallotBoxSound',
                    [VotingNext]_votingVars
             PROVE  Box!Next \/ UNCHANGED Box!boxVars
  OBVIOUS
<1>1. ASSUME NEW q \in Request, CastWrite(q) PROVE Box!Next
  <2>1. cast[q].user \in Member
    BY <1>1 DEF CastWrite, CastAt, VotingTypeOK
  <2> QED
    BY <1>1, <2>1, BoxCast DEF CastWrite
<1>2. ASSUME NEW a \in Admin, DeleteRoleWrite(a) PROVE Box!Next
  BY <1>2, BoxStrike DEF DeleteRoleWrite, DeleteParticipantRows
<1>3. ASSUME NEW a \in Admin, DeleteParticipantWrite(a) PROVE Box!Next
  BY <1>3, BoxStrike DEF DeleteParticipantWrite, DeleteParticipantRows
<1>4. ASSUME NEW a \in Admin, ResetWrite(a) PROVE Box!Next
  BY <1>4, BoxClear DEF ResetWrite
<1>5. ASSUME NEW m \in Member, DeleteUser(m) PROVE Box!Next
  BY <1>5, BoxAnnul DEF DeleteUser
<1>6. ASSUME NEW q \in Request, CastStep(q), ~CastWrite(q) PROVE UNCHANGED boxVars
  BY <1>6 DEF CastStep, CastReadStatus, CastReadMember, CastReadVoted, CastReadMode,
     CastReadSingle, CastReadSelections, CastReadRoles, CastReadCandidates, CastRefused, dbVars
<1>7. ASSUME NEW a \in Admin, AdmRequest(a) \/ AdmStep(a),
             ~DeleteRoleWrite(a), ~DeleteParticipantWrite(a), ~ResetWrite(a)
      PROVE  UNCHANGED boxVars
  BY <1>7 DEF AdmRequest, AdmStep, OpenStep, OpenStart, OpenReadGate, OpenReadMode,
     OpenReadSingle, OpenReadSelections, OpenReadRoles, OpenReadCandidates, OpenWrite,
     StopVoting, ResetStart, CreateRole, UpdateRole, DeleteRoleStart, CreateParticipant,
     UpdateParticipant, DeleteParticipantStart, SettingsStart, SettingsReadMode,
     SettingsWriteMode, SettingsWriteSelections, GateStart, GateReadStatus, GateWrite,
     GateClose, dbVars
<1>8. ASSUME NEW m \in Member, MemberRequest(m), ~DeleteUser(m) PROVE UNCHANGED boxVars
  BY <1>8 DEF MemberRequest, CorrectedAge, UpdateUser, SetUserStatus
<1>9. ASSUME NEW q \in Request, NEW m \in Member, CastArrives(q, m) PROVE UNCHANGED boxVars
  BY <1>9 DEF CastArrives, dbVars
<1>10. CASE Restart \/ UNCHANGED votingVars
  BY <1>10, BoxStutter DEF Restart, votingVars, dbVars
<1> QED
  BY <1>1, <1>2, <1>3, <1>4, <1>5, <1>6, <1>7, <1>8, <1>9, <1>10, BoxStutter DEF VotingNext

\* Whatever requests interleave, the two tables behave as the ballot box promised
\* to the members: ballots enter whole and once and are never altered afterwards.
THEOREM VotingImplementsBallotBox == VotingSpec => BallotBoxSpec
<1>1. VotingInit => Box!Init
  BY BoxInit
<1>2. VotingTypeOK /\ VotingTypeOK' /\ BallotBoxSound /\ BallotBoxSound' /\ [VotingNext]_votingVars
        => [Box!Next]_(Box!boxVars)
  BY BoxStep
<1> QED
  BY <1>1, <1>2, VotingTyped, BallotBoxIsSound, PTL DEF VotingSpec, BallotBoxSpec, Box!Spec

-----------------------------------------------------------------------------
(* Ballots *)

\* A list of picks without its order is no longer than the list.
LEMMA PicksAreFew ==
  ASSUME NEW list, NEW n \in Nat, list \in [1 .. n -> PartId]
  PROVE  Cardinality({list[i] : i \in 1 .. n}) <= n
<1> DEFINE picks == {list[i] : i \in 1 .. n}
<1>1. list \in Surjection(1 .. n, picks)
  BY DEF Surjection
<1>2. ExistsSurjection(1 .. n, picks)
  BY <1>1 DEF ExistsSurjection
<1> QED
  BY <1>2, FS_SurjCardinalityBound

\* The only step that adds a ballot is the transaction of CastBallot.
LEMMA OnlyCastsAdd ==
  ASSUME [VotingNext]_votingVars, NEW b \in ballots' \ ballots
  PROVE  \E q \in Request : CastWrite(q)
<1>1. ASSUME NEW q \in Request, CastStep(q), ~CastWrite(q)
      PROVE  ballots' = ballots
  BY <1>1 DEF CastStep, CastReadStatus, CastReadMember, CastReadVoted, CastReadMode, CastReadSingle,
       CastReadSelections, CastReadRoles, CastReadCandidates, CastRefused, dbVars, boxVars
<1>2. ASSUME NEW a \in Admin, AdmRequest(a)
      PROVE  ballots' = ballots
  BY <1>2 DEF AdmRequest, OpenStart, StopVoting, ResetStart, CreateRole, UpdateRole, DeleteRoleStart,
       CreateParticipant, UpdateParticipant, DeleteParticipantStart, SettingsStart, GateStart, GateClose,
       dbVars, boxVars
<1>3. ASSUME NEW a \in Admin, AdmStep(a)
      PROVE  ballots' \subseteq ballots
  BY <1>3 DEF AdmStep, OpenStep, OpenReadGate, OpenReadMode, OpenReadSingle, OpenReadSelections,
       OpenReadRoles, OpenReadCandidates, OpenWrite, ResetWrite, DeleteRoleWrite, DeleteParticipantWrite,
       SettingsReadMode, SettingsWriteMode, SettingsWriteSelections, GateReadStatus, GateWrite,
       dbVars, boxVars
<1>4. ASSUME NEW m \in Member, MemberRequest(m)
      PROVE  ballots' \subseteq ballots
  BY <1>4 DEF MemberRequest, CorrectedAge, UpdateUser, SetUserStatus, DeleteUser, DeleteUserRows, boxVars
<1>5. CASE (\E q \in Request, m \in Member : CastArrives(q, m)) \/ Restart \/ UNCHANGED votingVars
  BY <1>5 DEF CastArrives, Restart, votingVars, dbVars, boxVars
<1> QED
  BY <1>1, <1>2, <1>3, <1>4, <1>5 DEF VotingNext

\* Of one page, a ballot just written has the picks of that page and no others.
LEMMA WrittenPicks ==
  ASSUME BallotBoxSound, NEW m, NEW sel, InsertBallotRows(m, sel), NEW b \in ballots' \ ballots
  PROVE  /\ b.user = m
         /\ \A s \in DOMAIN sel : VotesOn(b, s) = {sel[s][i] : i \in DOMAIN sel[s]}
<1> DEFINE id == CHOOSE i \in FreeBallotIds : TRUE
           new == NewVotes(id, m, sel)
<1>1. b = [id |-> id, user |-> m] /\ votes' = votes \cup new /\ id \in FreeBallotIds
  BY DEF InsertBallotRows
<1>2. \A v \in votes : v.ballot # id
  <2> SUFFICES ASSUME NEW v \in votes PROVE v.ballot # id
    OBVIOUS
  <2>1. [id |-> v.ballot, user |-> v.user] \in ballots
    BY DEF BallotBoxSound, VotesOnOwnBallot
  <2>2. v.ballot \in {c.id : c \in ballots}
    BY <2>1
  <2> HIDE DEF id
  <2> QED
    BY <1>1, <2>2 DEF FreeBallotIds
<1>3. \A v \in new : v.ballot = id
  BY DEF NewVotes
<1>4. ASSUME NEW s \in DOMAIN sel
      PROVE  VotesOn(b, s) = {sel[s][i] : i \in DOMAIN sel[s]}
  <2>1. {w \in votes' : w.ballot = b.id /\ w.role = s} = {w \in new : w.role = s}
    BY <1>1, <1>2, <1>3
  <2>2. \A w \in new : w.role = s => \E i \in DOMAIN sel[s] : w.part = sel[s][i]
    BY DEF NewVotes
  <2>3. ASSUME NEW i \in DOMAIN sel[s]
        PROVE  \E w \in new : w.role = s /\ w.part = sel[s][i]
    <3> DEFINE page(t) == {[ballot |-> id, user |-> m, role |-> t, part |-> sel[t][j]] : j \in DOMAIN sel[t]}
    <3>1. [ballot |-> id, user |-> m, role |-> s, part |-> sel[s][i]] \in new
      <4> DEFINE row == [ballot |-> id, user |-> m, role |-> s, part |-> sel[s][i]]
                 pages == {page(t) : t \in DOMAIN sel}
      <4>1. row \in page(s)
        OBVIOUS
      <4>2. new = UNION pages
        BY DEF NewVotes
      <4>3. page(s) \in pages
        OBVIOUS
      <4>4. ASSUME NEW P \in pages, row \in P
            PROVE  row \in UNION pages
        <5> HIDE DEF pages, row
        <5> QED
          BY <4>4
      <4> QED
        <5> HIDE DEF pages, row, new, page
        <5>1. row \in new
          BY <4>1, <4>2, <4>3, <4>4
        <5> QED
          BY <5>1 DEF row
    <3> QED
      BY <3>1
  <2> QED
    BY <2>1, <2>2, <2>3 DEF VotesOn
<1> QED
  BY <1>1, <1>4

LEMMA WholeStep ==
  ASSUME VotingTypeOK, BallotBoxSound, [VotingNext]_votingVars, NEW b \in ballots' \ ballots
  PROVE  \E q \in Request :
           /\ CastAt(q, "write") /\ cast[q].user = b.user
           /\ \A c \in cast[q].checks :
                /\ VotesOn(b, c.role) # {} /\ VotesOn(b, c.role) \subseteq c.valid
                /\ Cardinality(VotesOn(b, c.role)) <= c.allowed
<1>1. PICK q \in Request : CastWrite(q)
  BY OnlyCastsAdd
<1>2. PICK sel \in Selections(cast[q].checks) :
        ValidBallot(cast[q].checks, sel) /\ InsertBallotRows(cast[q].user, sel)
  BY <1>1 DEF CastWrite
<1>3. ASSUME NEW c \in cast[q].checks
      PROVE  /\ VotesOn(b, c.role) # {} /\ VotesOn(b, c.role) \subseteq c.valid
             /\ Cardinality(VotesOn(b, c.role)) <= c.allowed
  <2>1. c.role \in DOMAIN sel /\ sel[c.role] \in Lists
    BY <1>2 DEF Selections
  <2>2. PICK n \in 0 .. MaxPicks + 1 : sel[c.role] \in [1 .. n -> PartId]
    BY <2>1 DEF Lists
  <2>3. n \in Nat /\ Len(sel[c.role]) = n
    BY <2>2, DBAssumption
  <2>4. n # 0 /\ n <= c.allowed /\ \A i \in 1 .. n : sel[c.role][i] \in c.valid
    BY <1>2, <2>2, <2>3 DEF ValidBallot
  <2>5. VotesOn(b, c.role) = {sel[c.role][i] : i \in 1 .. n}
    BY <1>2, <2>1, <2>2, WrittenPicks
  <2>6. Cardinality(VotesOn(b, c.role)) <= n /\ Cardinality(VotesOn(b, c.role)) \in Nat
    <3>1. IsFiniteSet(VotesOn(b, c.role))
      <4>1. sel[c.role] \in Surjection(1 .. n, VotesOn(b, c.role))
        BY <2>2, <2>5 DEF Surjection
      <4> QED
        BY <2>3, <4>1, FS_NatSurjection DEF ExistsSurjection
    <3> QED
      BY <2>2, <2>3, <2>5, <3>1, PicksAreFew, FS_CardinalityType
  <2>7. c.allowed \in Nat
    BY <1>1, DBAssumption DEF VotingTypeOK, CastLocals, Check
  <2> QED
    BY <2>3, <2>4, <2>5, <2>6, <2>7
<1>4. cast[q].user = b.user
  BY <1>2, WrittenPicks
<1> QED
  BY <1>1, <1>3, <1>4 DEF CastWrite

\* Whatever changed since CastBallot read its pages, the ballot that enters the box answers
\* every one of them within its limit and with its candidates.
THEOREM BallotsAreWhole == VotingSpec => WholeBallots
<1>1. ASSUME VotingTypeOK, BallotBoxSound, [VotingNext]_votingVars
      PROVE  [\A b \in ballots' \ ballots : \E q \in Request :
                 /\ CastAt(q, "write") /\ cast[q].user = b.user
                 /\ \A c \in cast[q].checks :
                      /\ VotesOn(b, c.role) # {} /\ VotesOn(b, c.role) \subseteq c.valid
                      /\ Cardinality(VotesOn(b, c.role)) <= c.allowed]_votingVars
  BY <1>1, WholeStep
<1> QED
  BY <1>1, VotingTyped, BallotBoxIsSound, PTL DEF VotingSpec, WholeBallots

-----------------------------------------------------------------------------
(* One admin: what a request has read stays as it was. *)

OneAdmin == \A a, b \in Admin : a = b

Deleting == {"reset", "delete_role", "delete_participant"}

\* A row of roles that validateVotingSetup has read has enough candidates.
EnoughFor(r) == Cardinality(Participants(r)) >= allowed[r]

\* What the request with locals l has established by the statement it will run.
Established(l) ==
  /\ l.pc \in {"mode", "single", "selections", "roles", "candidates", "open"} => gate = "closed"
  /\ l.pc \in {"single", "selections"} => votingMode = "single"
  /\ l.pc = "selections" => l.cands = Participants(NoRole) /\ Cardinality(Participants(NoRole)) >= 2
  /\ l.pc \in {"roles", "candidates"} => votingMode = "roles"
  /\ l.pc = "candidates" =>
       /\ roles # {}
       /\ \A row \in l.rows : row.role \in roles => row.allowed = allowed[row.role]
       /\ \A r \in roles : EnoughFor(r) \/ \E row \in l.rows : row.role = r
  /\ l.pc = "open" => Completable
  /\ l.pc \in Deleting => votingStatus # "open"

VotingDayInv == VotingTypeOK /\ \A a \in Admin : Established(adm[a])

\* Nothing but the admin's requests changes the settings, the pages or the candidates.
LEMMA OthersLeave ==
  ASSUME [VotingNext]_votingVars, ~(\E a \in Admin : AdmRequest(a) \/ AdmStep(a))
  PROVE  /\ UNCHANGED <<settingVars, roleVars, partVars>>
         /\ UNCHANGED adm \/ adm' = [a \in Admin |-> NoAdm]
<1>1. ASSUME NEW q \in Request, CastStep(q)
      PROVE  UNCHANGED <<settingVars, roleVars, partVars, adm>>
  BY <1>1 DEF CastStep, CastReadStatus, CastReadMember, CastReadVoted, CastReadMode, CastReadSingle,
       CastReadSelections, CastReadRoles, CastReadCandidates, CastWrite, CastRefused, dbVars
<1>2. ASSUME NEW m \in Member, MemberRequest(m)
      PROVE  UNCHANGED <<settingVars, roleVars, partVars, adm>>
  BY <1>2 DEF MemberRequest, CorrectedAge, UpdateUser, SetUserStatus, DeleteUser
<1>3. CASE (\E q \in Request, m \in Member : CastArrives(q, m)) \/ Restart \/ UNCHANGED votingVars
  BY <1>3 DEF CastArrives, Restart, votingVars, dbVars
<1> QED
  BY <1>1, <1>2, <1>3 DEF VotingNext

\* A request that was answered, or begins with a read, has nothing to establish.
LEMMA AnsweredEstablishes ==
  ASSUME NEW a, adm'[a].pc \in {"idle", "settings_mode", "settings_write", "gate", "gate_status", "gate_open"}
  PROVE  Established(adm[a])'
  BY DEF Established, Deleting

\* The reads of validateVotingSetup, over tables that do not change meanwhile.
LEMMA OpenEstablishes ==
  ASSUME VotingDayInv, NEW a \in Admin, OpenStep(a), ~OpenWrite(a)
  PROVE  Established(adm[a])'
<1>0. adm \in [Admin -> AdmLocals] /\ adm[a] \in AdmLocals /\ Established(adm[a])
  BY DEF VotingDayInv, VotingTypeOK
<1>1. UNCHANGED dbVars
  BY DEF OpenStep, OpenReadGate, OpenReadMode, OpenReadSingle, OpenReadSelections, OpenReadRoles,
         OpenReadCandidates
<1>2. ASSUME NEW l, Established(l), adm' = [adm EXCEPT ![a] = l] PROVE Established(adm[a])'
  <2>1. adm'[a] = l
    BY <1>0, <1>2
  <2>2. /\ UNCHANGED <<votingStatus, gate, votingMode, singleSelections, roles, allowed, participants, partRole>>
        /\ \A r : Participants(r)' = Participants(r)
    BY <1>1 DEF Participants, dbVars, userVars, settingVars, roleVars, partVars
  <2>3. Completable' = Completable /\ \A r : EnoughFor(r)' = EnoughFor(r)
    BY <2>2 DEF Completable, EnoughFor
  <2> QED
    BY <1>2, <2>1, <2>2, <2>3 DEF Established
<1>3. ASSUME AdmAnswer(a) PROVE Established(adm[a])'
  <2>1. adm'[a].pc = "idle"
    BY <1>0, <1>3 DEF AdmAnswer, NoAdm
  <2> QED
    BY <2>1, AnsweredEstablishes
<1>4. ASSUME NEW pc, Established([adm[a] EXCEPT !.pc = pc]), AdmGoto(a, pc) PROVE Established(adm[a])'
  <2> DEFINE l == [adm[a] EXCEPT !.pc = pc]
  <2>1. adm' = [adm EXCEPT ![a] = l]
    BY <1>4 DEF AdmGoto
  <2>2. Established(l)
    BY <1>4
  <2> HIDE DEF l
  <2> QED
    BY <1>2, <2>1, <2>2
<1>5. CASE OpenReadGate(a)
  <2>1. gate = "closed" => Established([adm[a] EXCEPT !.pc = "mode"])
    BY <1>0 DEF Established, Deleting, AdmLocals
  <2> QED
    BY <1>3, <1>4, <1>5, <2>1 DEF OpenReadGate
<1>6. CASE OpenReadMode(a)
  <2>1. gate = "closed"
    BY <1>0, <1>6 DEF OpenReadMode, AdmAt, Established
  <2>2. /\ votingMode = "single" => Established([adm[a] EXCEPT !.pc = "single"])
        /\ votingMode = "roles" => Established([adm[a] EXCEPT !.pc = "roles"])
    BY <1>0, <2>1 DEF Established, Deleting, AdmLocals
  <2> QED
    BY <1>4, <1>6, <2>2 DEF OpenReadMode
<1>7. CASE OpenReadSingle(a)
  <2> DEFINE l == [adm[a] EXCEPT !.pc = "selections", !.cands = Participants(NoRole)]
  <2>1. gate = "closed" /\ votingMode = "single"
    BY <1>0, <1>7 DEF OpenReadSingle, AdmAt, Established
  <2>2. l.pc = "selections" /\ l.cands = Participants(NoRole)
    BY <1>0 DEF AdmLocals
  <2>3. CASE AdmAnswer(a)
    BY <1>3, <2>3
  <2>4. CASE Cardinality(Participants(NoRole)) >= 2 /\ adm' = [adm EXCEPT ![a] = l]
    <3> HIDE DEF l
    <3>1. Established(l)
      BY <2>1, <2>2, <2>4 DEF Established, Deleting
    <3> QED
      BY <1>2, <2>4, <3>1
  <2> QED
    BY <1>7, <2>3, <2>4 DEF OpenReadSingle
<1>8. CASE OpenReadSelections(a)
  <2>1. /\ gate = "closed" /\ votingMode = "single"
        /\ adm[a].cands = Participants(NoRole) /\ Cardinality(Participants(NoRole)) >= 2
    BY <1>0, <1>8 DEF OpenReadSelections, AdmAt, Established
  <2>2. singleSelections <= Cardinality(adm[a].cands) => Established([adm[a] EXCEPT !.pc = "open"])
    BY <1>0, <2>1 DEF Established, Deleting, Completable, AdmLocals
  <2> QED
    BY <1>3, <1>4, <1>8, <2>2 DEF OpenReadSelections
<1>9. CASE OpenReadRoles(a)
  <2> DEFINE l == [adm[a] EXCEPT !.pc = "candidates", !.rows = Roles]
  <2>1. gate = "closed" /\ votingMode = "roles"
    BY <1>0, <1>9 DEF OpenReadRoles, AdmAt, Established
  <2>2. l.pc = "candidates" /\ l.rows = Roles
    BY <1>0 DEF AdmLocals
  <2>3. CASE roles # {} /\ adm' = [adm EXCEPT ![a] = l]
    <3> HIDE DEF l
    <3>1. \A row \in Roles : row.allowed = allowed[row.role]
      BY DEF Roles
    <3>2. ASSUME NEW r \in roles
          PROVE  \E row \in Roles : row.role = r
      <4>1. [role |-> r, allowed |-> allowed[r]] \in Roles
        BY DEF Roles
      <4> QED
        BY <4>1
    <3>3. Established(l)
      BY <2>1, <2>2, <2>3, <3>1, <3>2 DEF Established, Deleting
    <3> QED
      BY <1>2, <2>3, <3>3
  <2> QED
    BY <1>3, <1>9, <2>3 DEF OpenReadRoles
<1>10. CASE OpenReadCandidates(a)
  <2>1. /\ gate = "closed" /\ votingMode = "roles" /\ roles # {}
        /\ \A row \in adm[a].rows : row.role \in roles => row.allowed = allowed[row.role]
        /\ \A r \in roles : EnoughFor(r) \/ \E row \in adm[a].rows : row.role = r
    BY <1>0, <1>10 DEF OpenReadCandidates, AdmAt, Established
  <2>2. ASSUME NEW row \in adm[a].rows, EnoughCandidates(row),
               adm' = [adm EXCEPT ![a] = [@ EXCEPT
                  !.pc = IF adm[a].rows = {row} THEN "open" ELSE "candidates",
                  !.rows = adm[a].rows \ {row}]]
        PROVE  Established(adm[a])'
    <3> DEFINE l == [adm[a] EXCEPT !.pc = IF adm[a].rows = {row} THEN "open" ELSE "candidates",
                                   !.rows = adm[a].rows \ {row}]
    <3>1. /\ l.pc = IF adm[a].rows = {row} THEN "open" ELSE "candidates"
          /\ l.rows = adm[a].rows \ {row}
      BY <1>0 DEF AdmLocals
    <3>2. adm' = [adm EXCEPT ![a] = l]
      BY <1>0, <2>2
    <3> HIDE DEF l
    <3>3. \A r \in roles : r = row.role => EnoughFor(r)
      <4>1. row \in RoleRow /\ allowed \in [RoleId -> 1 .. MaxPicks] /\ roles \subseteq RoleId
        BY <1>0, <2>2 DEF AdmLocals, VotingDayInv, VotingTypeOK, DBTypeOK
      <4>2. row.allowed <= Cardinality(Participants(row.role))
        BY <2>2 DEF EnoughCandidates
      <4> QED
        BY <2>1, <4>1, <4>2 DEF EnoughFor
    <3>4. \A r \in roles : EnoughFor(r) \/ \E s \in adm[a].rows \ {row} : s.role = r
      BY <2>1, <3>3
    <3>5. CASE adm[a].rows = {row}
      <4>1. Completable
        BY <2>1, <3>4, <3>5 DEF Completable, EnoughFor
      <4> QED
        BY <1>2, <2>1, <3>1, <3>2, <3>5, <4>1 DEF Established, Deleting
    <3>6. CASE adm[a].rows # {row}
      <4>1. Established(l)
        BY <2>1, <3>1, <3>4, <3>6 DEF Established, Deleting
      <4> QED
        BY <1>2, <3>2, <4>1
    <3> QED
      BY <3>5, <3>6
  <2> QED
    BY <1>3, <1>10, <2>2 DEF OpenReadCandidates
<1> QED
  BY <1>5, <1>6, <1>7, <1>8, <1>9, <1>10 DEF OpenStep

\* Every other request either checks the status and goes on to delete, or has read nothing
\* that it relies on.
LEMMA RequestEstablishes ==
  ASSUME VotingDayInv, NEW a \in Admin, AdmRequest(a) \/ (AdmStep(a) /\ ~OpenStep(a)) \/ OpenWrite(a)
  PROVE  Established(adm[a])'
<1>0. adm \in [Admin -> AdmLocals] /\ adm[a] \in AdmLocals
  BY DEF VotingDayInv, VotingTypeOK
<1>1. ASSUME adm'[a].pc \in {"idle", "settings_mode", "settings_write", "gate", "gate_status", "gate_open"}
      PROVE  Established(adm[a])'
  BY <1>1, AnsweredEstablishes
<1>2. CASE AdmRequest(a)
  <2>1. CASE (\E s \in {"draft", "closed"} : StopVoting(a, s)) \/ (\E n \in 1..MaxPicks, y \in Years : CreateRole(a, n, y))
             \/ (\E r \in RoleId, n \in 1..MaxPicks, y \in Years : UpdateRole(a, r, n, y))
             \/ (\E r \in Section : CreateParticipant(a, r))
             \/ (\E p \in PartId, r \in Section : UpdateParticipant(a, p, r)) \/ GateClose(a)
    <3>1. adm' = adm /\ adm[a].pc = "idle"
      BY <2>1 DEF StopVoting, CreateRole, UpdateRole, CreateParticipant, UpdateParticipant, GateClose, AdmAt
    <3> QED
      BY <1>1, <3>1
  <2>2. CASE OpenStart(a) \/ GateStart(a)
    <3>1. adm'[a].pc \in {"gate", "gate_status"}
      BY <1>0, <2>2 DEF OpenStart, GateStart, AdmGoto, AdmLocals
    <3> QED
      BY <1>1, <3>1
  <2>3. ASSUME NEW mode \in {"roles", "single"}, NEW sel \in 1 .. MaxPicks, SettingsStart(a, mode, sel)
        PROVE  Established(adm[a])'
    <3>1. adm'[a].pc \in {"settings_mode", "settings_write"}
      BY <1>0, <2>3 DEF SettingsStart, AdmLocals
    <3> QED
      BY <1>1, <3>1
  <2>4. CASE ResetStart(a) \/ (\E r \in RoleId : DeleteRoleStart(a, r))
             \/ (\E p \in PartId : DeleteParticipantStart(a, p))
    <3>1. adm'[a].pc \in Deleting /\ votingStatus' # "open"
      BY <1>0, <2>4 DEF ResetStart, DeleteRoleStart, DeleteParticipantStart, AdmGoto, AdmLocals, Deleting,
         dbVars, userVars, settingVars
    <3> QED
      BY <3>1 DEF Established, Deleting
  <2> QED
    BY <1>2, <2>1, <2>2, <2>3, <2>4 DEF AdmRequest
<1>3. CASE ResetWrite(a) \/ DeleteRoleWrite(a) \/ DeleteParticipantWrite(a) \/ OpenWrite(a) \/ GateWrite(a)
  <2>1. adm'[a].pc = "idle"
    BY <1>0, <1>3 DEF ResetWrite, DeleteRoleWrite, DeleteParticipantWrite, OpenWrite, GateWrite, AdmAnswer, NoAdm
  <2> QED
    BY <1>1, <2>1
<1>4. CASE SettingsReadMode(a) \/ SettingsWriteMode(a) \/ SettingsWriteSelections(a) \/ GateReadStatus(a)
  <2>1. adm'[a].pc \in {"idle", "settings_write", "gate_open"}
    BY <1>0, <1>4 DEF SettingsReadMode, SettingsWriteMode, SettingsWriteSelections, GateReadStatus, AdmAnswer,
       AdmGoto, AdmAt, NoAdm, AdmLocals
  <2> QED
    BY <1>1, <2>1
<1> QED
  BY <1>2, <1>3, <1>4 DEF AdmStep

LEMMA EstablishedStays ==
  ASSUME UNCHANGED <<settingVars, roleVars, partVars, adm>>, NEW a, Established(adm[a])
  PROVE  Established(adm[a])'
<1>1. /\ UNCHANGED <<votingStatus, gate, votingMode, singleSelections, roles, allowed, participants, partRole>>
      /\ \A r : Participants(r)' = Participants(r)
  BY DEF Participants, userVars, settingVars, roleVars, partVars
<1>2. Completable' = Completable /\ \A r : EnoughFor(r)' = EnoughFor(r)
  BY <1>1 DEF Completable, EnoughFor
<1> QED
  BY <1>1, <1>2 DEF Established

LEMMA VotingDayStep ==
  ASSUME OneAdmin, VotingDayInv, [VotingNext]_votingVars
  PROVE  VotingDayInv'
<1>1. VotingTypeOK'
  BY VotingTypeStep DEF VotingDayInv
<1>2. CASE \E a \in Admin : AdmRequest(a) \/ AdmStep(a)
  <2>1. PICK a \in Admin : AdmRequest(a) \/ AdmStep(a)
    BY <1>2
  <2>2. Established(adm[a])'
    BY <2>1, OpenEstablishes, RequestEstablishes
  <2>3. \A b \in Admin : b = a
    BY DEF OneAdmin
  <2> QED
    BY <1>1, <2>2, <2>3 DEF VotingDayInv
<1>3. CASE ~(\E a \in Admin : AdmRequest(a) \/ AdmStep(a))
  <2>1. /\ UNCHANGED <<settingVars, roleVars, partVars>>
        /\ UNCHANGED adm \/ adm' = [a \in Admin |-> NoAdm]
    BY <1>3, OthersLeave
  <2>2. ASSUME NEW a \in Admin PROVE Established(adm[a])'
    <3>1. CASE UNCHANGED adm
      BY <2>1, <3>1, EstablishedStays DEF VotingDayInv
    <3>2. CASE adm' = [b \in Admin |-> NoAdm]
      BY <3>2, AnsweredEstablishes DEF NoAdm
    <3> QED
      BY <2>1, <3>1, <3>2
  <2> QED
    BY <1>1, <2>2 DEF VotingDayInv
<1> QED
  BY <1>2, <1>3

LEMMA VotingDayInvariant == ASSUME OneAdmin PROVE VotingSpec => []VotingDayInv
<1>1. VotingInit => VotingDayInv
  BY VotingTypeInit DEF VotingInit, VotingDayInv, Established, NoAdm, Deleting
<1>2. VotingDayInv /\ [VotingNext]_votingVars => VotingDayInv'
  BY VotingDayStep
<1> QED
  BY <1>1, <1>2, PTL DEF VotingSpec

LEMMA OpensStep ==
  ASSUME VotingDayInv, [VotingNext]_votingVars, votingStatus # "open", votingStatus' = "open"
  PROVE  gate = "closed" /\ Completable
<1>1. PICK a \in Admin : AdmRequest(a) \/ AdmStep(a)
  BY OthersLeave DEF userVars, settingVars
<1>2. OpenWrite(a)
  <2>1. ~AdmRequest(a)
    BY DEF AdmRequest, OpenStart, StopVoting, ResetStart, CreateRole, UpdateRole, DeleteRoleStart,
       CreateParticipant, UpdateParticipant, DeleteParticipantStart, SettingsStart, GateStart, GateClose,
       dbVars, userVars, settingVars
  <2> QED
    BY <1>1, <2>1 DEF AdmStep, OpenStep, OpenReadGate, OpenReadMode, OpenReadSingle, OpenReadSelections,
       OpenReadRoles, OpenReadCandidates, ResetWrite, DeleteRoleWrite, DeleteParticipantWrite,
       SettingsReadMode, SettingsWriteMode, SettingsWriteSelections, GateReadStatus, GateWrite,
       dbVars, userVars, settingVars
<1> QED
  BY <1>2 DEF OpenWrite, AdmAt, VotingDayInv, Established

\* With one admin who waits for answers, the many reads of validateVotingSetup are all still
\* true when SetVotingStatus opens the vote.
THEOREM OpensOnWhatWasChecked == ASSUME OneAdmin PROVE VotingSpec => OpensOnlyWhenReady
<1>1. ASSUME VotingDayInv, [VotingNext]_votingVars
      PROVE  [votingStatus # "open" /\ votingStatus' = "open" => gate = "closed" /\ Completable]_votingVars
  BY <1>1, OpensStep
<1> QED
  BY <1>1, VotingDayInvariant, PTL DEF VotingSpec, OpensOnlyWhenReady

\* With one admin who waits for answers, nothing but a deleted member's ballot leaves the
\* box, and no page or candidate goes, while voting is open: DeleteRole, DeleteParticipant
\* and ResetVotes read the status some statements before they delete.
THEOREM OpenVotingLosesNothing == ASSUME OneAdmin PROVE VotingSpec => NothingLostWhileOpen
<1> DEFINE Kept == /\ roles \subseteq roles' /\ participants \subseteq participants'
                   /\ \A b \in ballots \ ballots' : users'[b.user] = "deleted"
                   /\ \A v \in votes \ votes' : users'[v.user] = "deleted"
<1>1. ASSUME VotingDayInv, [VotingNext]_votingVars
      PROVE  [votingStatus = "open" => Kept]_votingVars
  <2> SUFFICES ASSUME votingStatus = "open" PROVE Kept
    OBVIOUS
  <2>1. ASSUME NEW q \in Request, CastStep(q) PROVE Kept
    BY <2>1 DEF CastStep, CastReadStatus, CastReadMember, CastReadVoted, CastReadMode, CastReadSingle,
       CastReadSelections, CastReadRoles, CastReadCandidates, CastWrite, CastRefused, InsertBallotRows,
       dbVars, userVars, roleVars, partVars, boxVars
  <2>2. ASSUME NEW a \in Admin, AdmRequest(a) PROVE Kept
    BY <2>2 DEF AdmRequest, OpenStart, StopVoting, ResetStart, CreateRole, UpdateRole, DeleteRoleStart,
       CreateParticipant, UpdateParticipant, InsertParticipantRow, MoveParticipantRows,
       DeleteParticipantStart, SettingsStart, GateStart, GateClose, dbVars, userVars, roleVars, partVars, boxVars
  <2>3. ASSUME NEW a \in Admin, AdmStep(a) PROVE Kept
    <3>1. ~(ResetWrite(a) \/ DeleteRoleWrite(a) \/ DeleteParticipantWrite(a))
      BY <1>1 DEF VotingDayInv, Established, Deleting, ResetWrite, DeleteRoleWrite, DeleteParticipantWrite, AdmAt
    <3> QED
      BY <2>3, <3>1 DEF AdmStep, OpenStep, OpenReadGate, OpenReadMode, OpenReadSingle, OpenReadSelections,
         OpenReadRoles, OpenReadCandidates, OpenWrite, SettingsReadMode, SettingsWriteMode,
         SettingsWriteSelections, GateReadStatus, GateWrite, dbVars, userVars, roleVars, partVars, boxVars
  <2>4. ASSUME NEW m \in Member, MemberRequest(m) PROVE Kept
    <3>1. CASE \E s \in {"active", "withdrawn"} : SetUserStatus(m, s)
      BY <3>1 DEF SetUserStatus, userVars, roleVars, partVars, boxVars
    <3>2. CASE DeleteUser(m)
      <4>1. users'[m] = "deleted"
        BY <1>1, <3>2 DEF DeleteUser, DeleteUserRows, VotingDayInv, VotingTypeOK, DBTypeOK
      <4> QED
        BY <3>2, <4>1 DEF DeleteUser, DeleteUserRows, userVars, roleVars, partVars
    <3>3. CASE \E y \in Years : UpdateUser(m, y)
      BY <3>3 DEF UpdateUser, roleVars, partVars, boxVars
    <3> QED
      BY <2>4, <3>1, <3>2, <3>3 DEF MemberRequest, CorrectedAge
  <2>5. CASE (\E q \in Request, m \in Member : CastArrives(q, m)) \/ Restart \/ UNCHANGED votingVars
    BY <2>5 DEF CastArrives, Restart, votingVars, dbVars, userVars, roleVars, partVars, boxVars
  <2> QED
    BY <1>1, <2>1, <2>2, <2>3, <2>4, <2>5 DEF VotingNext
<1> QED
  BY <1>1, VotingDayInvariant, PTL DEF VotingSpec, NothingLostWhileOpen
-----------------------------------------------------------------------------
(* Requests in flight: what they may still do, and that they come to an end. *)

\* Only a statement of CastBallot, the arrival of one and a restart touch the locals of
\* the ballot requests.
LEMMA OthersLeaveCasts ==
  ASSUME [VotingNext]_votingVars, ~(\E q \in Request : CastStep(q)),
         ~(\E q \in Request, m \in Member : CastArrives(q, m)), ~Restart
  PROVE  UNCHANGED cast
<1>1. ASSUME NEW a \in Admin, AdmRequest(a) PROVE UNCHANGED cast
  BY <1>1 DEF AdmRequest, OpenStart, StopVoting, ResetStart, CreateRole, UpdateRole, DeleteRoleStart,
       CreateParticipant, UpdateParticipant, DeleteParticipantStart, SettingsStart, GateStart, GateClose
<1>2. ASSUME NEW a \in Admin, AdmStep(a) PROVE UNCHANGED cast
  BY <1>2 DEF AdmStep, OpenStep, OpenReadGate, OpenReadMode, OpenReadSingle, OpenReadSelections,
       OpenReadRoles, OpenReadCandidates, OpenWrite, ResetWrite, DeleteRoleWrite, DeleteParticipantWrite,
       SettingsReadMode, SettingsWriteMode, SettingsWriteSelections, GateReadStatus, GateWrite
<1>3. ASSUME NEW m \in Member, MemberRequest(m) PROVE UNCHANGED cast
  BY <1>3 DEF MemberRequest, CorrectedAge, UpdateUser, SetUserStatus, DeleteUser
<1> QED
  BY <1>1, <1>2, <1>3 DEF VotingNext, votingVars

\* The order of the statements, as numbers.
LEMMA StatementNumbers ==
  /\ StatementsLeft["idle"] = 0
  /\ \A pc \in {"write", "open", "reset", "delete_role", "delete_participant", "settings_write",
                "gate_open"} : StatementsLeft[pc] = 1
  /\ \A pc \in {"candidates", "selections", "settings_mode", "gate_status"} : StatementsLeft[pc] = 2
  /\ \A pc \in {"roles", "single"} : StatementsLeft[pc] = 3
  /\ StatementsLeft["mode"] = 4
  /\ \A pc \in {"voted", "gate"} : StatementsLeft[pc] = 5
  /\ StatementsLeft["member"] = 6 /\ StatementsLeft["status"] = 7
  BY DEF StatementsLeft, CastPC, AdmPC

\* A request gets on from locals k to locals l.
GetsOn(k, l) ==
  StatementsLeft[l.pc] < StatementsLeft[k.pc] \/ FewerRows(k, l) \/ FewerSettings(k, l)
SomethingLeftFor(l) ==
  /\ l.pc = "candidates" => l.rows # {}
  /\ l.pc \in {"settings_mode", "settings_write"} => l.mode # "kept" \/ l.sel # 0

\* A statement of CastBallot takes its own request on, and leaves the others where they are.
LEMMA CastGetsOn ==
  ASSUME VotingTypeOK, NEW q \in Request, SomethingLeftFor(cast[q]), CastStep(q)
  PROVE  /\ \A p \in Request \ {q} : cast'[p] = cast[p]
         /\ ~CastAt(q, "idle")
         /\ \/ StatementsLeft[cast'[q].pc] < StatementsLeft[cast[q].pc]
            \/ FewerRows(cast[q], cast'[q])
         /\ cast'[q].pc = "candidates" => cast'[q].rows # {}
         /\ CastAt(q, "status") => cast'[q].pc = "idle" \/ votingStatus = "open"
<1> DEFINE Goal == /\ \A p \in Request \ {q} : cast'[p] = cast[p]
                   /\ ~CastAt(q, "idle")
                   /\ \/ StatementsLeft[cast'[q].pc] < StatementsLeft[cast[q].pc]
                      \/ FewerRows(cast[q], cast'[q])
                   /\ cast'[q].pc = "candidates" => cast'[q].rows # {}
                   /\ CastAt(q, "status") => cast'[q].pc = "idle" \/ votingStatus = "open"
<1>0. cast \in [Request -> CastLocals] /\ cast[q] \in CastLocals
  BY DEF VotingTypeOK
<1>n. NoCast.pc = "idle"
  BY DEF NoCast
<1>m. ASSUME NEW l, cast' = [cast EXCEPT ![q] = l], ~CastAt(q, "idle"),
             l.pc = "candidates" => l.rows # {},
             StatementsLeft[l.pc] < StatementsLeft[cast[q].pc] \/ FewerRows(cast[q], l),
             CastAt(q, "status") => l.pc = "idle" \/ votingStatus = "open"
      PROVE  Goal
  <2>1. cast'[q] = l /\ \A p \in Request \ {q} : cast'[p] = cast[p]
    BY <1>0, <1>m
  <2> QED
    BY <1>m, <2>1
<1>a. ASSUME CastAnswer(q), StatementsLeft["idle"] < StatementsLeft[cast[q].pc], ~CastAt(q, "idle")
      PROVE  Goal
  <2>1. cast' = [cast EXCEPT ![q] = NoCast]
    BY <1>a DEF CastAnswer
  <2> QED
    BY <1>a, <1>m, <1>n, <2>1
<1>g. ASSUME NEW pc, CastGoto(q, pc), StatementsLeft[pc] < StatementsLeft[cast[q].pc], pc # "candidates",
             ~CastAt(q, "idle"), CastAt(q, "status") => votingStatus = "open"
      PROVE  Goal
  <2> DEFINE l == [cast[q] EXCEPT !.pc = pc]
  <2>1. cast' = [cast EXCEPT ![q] = l] /\ l.pc = pc
    BY <1>0, <1>g DEF CastGoto, CastLocals
  <2> HIDE DEF l
  <2> QED
    BY <1>g, <1>m, <2>1
<1>1. CASE CastReadStatus(q)
  BY <1>1, <1>a, <1>g, StatementNumbers DEF CastReadStatus, CastAt
<1>2. CASE CastReadMember(q)
  BY <1>2, <1>a, <1>g, StatementNumbers DEF CastReadMember, CastAt
<1>3. CASE CastReadVoted(q)
  BY <1>3, <1>a, <1>g, StatementNumbers DEF CastReadVoted, CastAt
<1>4. CASE CastReadMode(q)
  BY <1>4, <1>g, StatementNumbers DEF CastReadMode, CastAt
<1>5. CASE CastReadSingle(q)
  <2> DEFINE l == [cast[q] EXCEPT !.pc = "selections",
                     !.checks = {Page([role |-> NoRole, allowed |-> 0])}]
  <2>1. cast' = [cast EXCEPT ![q] = l] /\ l.pc = "selections"
    BY <1>0, <1>5 DEF CastReadSingle, CastLocals
  <2>2. cast[q].pc = "single"
    BY <1>5 DEF CastReadSingle, CastAt
  <2> HIDE DEF l
  <2>3. StatementsLeft[l.pc] < StatementsLeft[cast[q].pc]
    BY <2>1, <2>2, StatementNumbers
  <2> QED
    BY <1>m, <2>1, <2>2, <2>3 DEF CastAt
<1>6. CASE CastReadSelections(q)
  <2> DEFINE l == [cast[q] EXCEPT !.pc = "write",
                     !.checks = WithLimit(cast[q].checks, singleSelections)]
  <2>1. cast' = [cast EXCEPT ![q] = l] /\ l.pc = "write"
    BY <1>0, <1>6 DEF CastReadSelections, CastLocals
  <2>2. cast[q].pc = "selections"
    BY <1>6 DEF CastReadSelections, CastAt
  <2> HIDE DEF l
  <2>3. StatementsLeft[l.pc] < StatementsLeft[cast[q].pc]
    BY <2>1, <2>2, StatementNumbers
  <2> QED
    BY <1>m, <2>1, <2>2, <2>3 DEF CastAt
<1>7. CASE CastReadRoles(q)
  <2> DEFINE l == [cast[q] EXCEPT !.pc = IF roles = {} THEN "write" ELSE "candidates", !.rows = Roles]
  <2>1. cast' = [cast EXCEPT ![q] = l]
    BY <1>0, <1>7 DEF CastReadRoles
  <2>2. l.pc = (IF roles = {} THEN "write" ELSE "candidates") /\ l.rows = Roles
    BY <1>0 DEF CastLocals
  <2>3. cast[q].pc = "roles"
    BY <1>7 DEF CastReadRoles, CastAt
  <2>4. roles # {} => Roles # {}
    BY DEF Roles
  <2> HIDE DEF l
  <2>5. StatementsLeft[l.pc] < StatementsLeft[cast[q].pc]
    BY <2>1, <2>2, <2>3, <2>4, StatementNumbers
  <2> QED
    BY <1>m, <2>1, <2>2, <2>3, <2>4, <2>5 DEF CastAt
<1>8. CASE CastReadCandidates(q)
  <2>1. PICK row \in cast[q].rows :
          cast' = [cast EXCEPT ![q] = [@ EXCEPT
            !.pc = IF cast[q].rows = {row} THEN "write" ELSE "candidates",
            !.rows = cast[q].rows \ {row},
            !.checks = cast[q].checks \cup {Page(row)}]]
    BY <1>8 DEF CastReadCandidates
  <2> DEFINE l == [cast[q] EXCEPT
            !.pc = IF cast[q].rows = {row} THEN "write" ELSE "candidates",
            !.rows = cast[q].rows \ {row},
            !.checks = cast[q].checks \cup {Page(row)}]
  <2>2. cast' = [cast EXCEPT ![q] = l]
    BY <1>0, <2>1
  <2>3. /\ l.pc = IF cast[q].rows = {row} THEN "write" ELSE "candidates"
        /\ l.rows = cast[q].rows \ {row}
    BY <1>0 DEF CastLocals
  <2>4. cast[q].pc = "candidates"
    BY <1>8 DEF CastReadCandidates, CastAt
  <2> HIDE DEF l
  <2>5. StatementsLeft[l.pc] < StatementsLeft[cast[q].pc] \/ FewerRows(cast[q], l)
    BY <2>3, <2>4, StatementNumbers DEF FewerRows
  <2>6. l.pc = "candidates" => l.rows # {}
    BY <2>3
  <2> QED
    BY <1>m, <2>2, <2>4, <2>5, <2>6 DEF CastAt
<1>9. CASE CastWrite(q) \/ CastRefused(q)
  BY <1>9, <1>a, StatementNumbers DEF CastWrite, CastRefused, CastAt
<1> QED
  BY <1>1, <1>2, <1>3, <1>4, <1>5, <1>6, <1>7, <1>8, <1>9 DEF CastStep

\* The transaction adds one ballot, of its member.
LEMMA LateStep ==
  ASSUME VotingTypeOK, SomethingLeft, [VotingNext]_votingVars, votingStatus # "open"
  PROVE  /\ Underway' \subseteq Underway
         /\ \A b, c \in ballots' \ ballots : b = c
         /\ \A b \in ballots' \ ballots : \E q \in Underway \ Underway' : cast[q].user = b.user
<1>1. Underway' \subseteq Underway
  <2>1. ASSUME NEW q \in Request, CastStep(q) PROVE Underway' \subseteq Underway
    <3>1. SomethingLeftFor(cast[q])
      BY DEF SomethingLeft, SomethingLeftFor, CastAt, VotingTypeOK, CastLocals, CastPC
    <3> QED
      BY <2>1, <3>1, CastGetsOn DEF Underway, CastAt
  <2>2. ASSUME NEW q \in Request, NEW m \in Member, CastArrives(q, m) PROVE Underway' \subseteq Underway
    <3>1. cast'[q].pc = "status" /\ \A p \in Request \ {q} : cast'[p] = cast[p]
      BY <2>2 DEF CastArrives, VotingTypeOK, CastLocals
    <3> QED
      BY <3>1 DEF Underway
  <2>3. CASE Restart
    BY <2>3 DEF Restart, NoCast, Underway
  <2>4. CASE UNCHANGED cast
    BY <2>4 DEF Underway
  <2> QED
    BY <2>1, <2>2, <2>3, <2>4, OthersLeaveCasts
<1>2. CASE \E q \in Request : CastWrite(q)
  <2>1. PICK q \in Request : CastWrite(q)
    BY <1>2
  <2>2. PICK sel : InsertBallotRows(cast[q].user, sel)
    BY <2>1 DEF CastWrite
  <2>3. \A b \in ballots' \ ballots : b = [id |-> CHOOSE i \in FreeBallotIds : TRUE, user |-> cast[q].user]
    BY <2>2 DEF InsertBallotRows
  <2>4. q \in Underway \ Underway'
    BY <2>1 DEF CastWrite, CastAnswer, CastAt, NoCast, Underway, VotingTypeOK
  <2>5. \A b, c \in ballots' \ ballots : b = c
    BY <2>3
  <2>6. \A b \in ballots' \ ballots : cast[q].user = b.user
    BY <2>3
  <2> QED
    BY <1>1, <2>4, <2>5, <2>6
<1>3. CASE ~(\E q \in Request : CastWrite(q))
  BY <1>1, <1>3, OnlyCastsAdd
<1> QED
  BY <1>2, <1>3

\* The same of an elections admin's request: the statements of the one it is serving, and the
\* first of a new one.
LEMMA AdmGetsOn ==
  ASSUME VotingTypeOK, NEW a \in Admin, SomethingLeftFor(adm[a]), AdmRequest(a) \/ AdmStep(a)
  PROVE  /\ \A b \in Admin \ {a} : adm'[b] = adm[b]
         /\ ~AdmAt(a, "idle") => GetsOn(adm[a], adm'[a])
         /\ SomethingLeftFor(adm'[a])
<1> DEFINE Goal == /\ \A b \in Admin \ {a} : adm'[b] = adm[b]
                   /\ ~AdmAt(a, "idle") => GetsOn(adm[a], adm'[a])
                   /\ SomethingLeftFor(adm'[a])
<1>0. adm \in [Admin -> AdmLocals] /\ adm[a] \in AdmLocals
  BY DEF VotingTypeOK
<1>m. ASSUME NEW l, adm' = [adm EXCEPT ![a] = l], SomethingLeftFor(l),
             AdmAt(a, "idle") \/ GetsOn(adm[a], l)
      PROVE  Goal
  <2>1. adm'[a] = l /\ \A b \in Admin \ {a} : adm'[b] = adm[b]
    BY <1>0, <1>m
  <2> QED
    BY <1>m, <2>1
<1>a. ASSUME AdmAnswer(a), StatementsLeft["idle"] < StatementsLeft[adm[a].pc]
      PROVE  Goal
  <2>1. adm' = [adm EXCEPT ![a] = NoAdm] /\ NoAdm.pc = "idle"
    BY <1>a DEF AdmAnswer, NoAdm
  <2>2. SomethingLeftFor(NoAdm) /\ GetsOn(adm[a], NoAdm)
    BY <1>a, <2>1 DEF SomethingLeftFor, GetsOn
  <2> QED
    BY <1>m, <2>1, <2>2
<1>g. ASSUME NEW pc, AdmGoto(a, pc), AdmAt(a, "idle") \/ StatementsLeft[pc] < StatementsLeft[adm[a].pc],
             pc # "candidates", pc = "settings_write" => AdmAt(a, "settings_mode"), pc # "settings_mode"
      PROVE  Goal
  <2> DEFINE l == [adm[a] EXCEPT !.pc = pc]
  <2>1. adm' = [adm EXCEPT ![a] = l] /\ l.pc = pc /\ l.mode = adm[a].mode /\ l.sel = adm[a].sel
    BY <1>0, <1>g DEF AdmGoto, AdmLocals
  <2> HIDE DEF l
  <2>2. SomethingLeftFor(l)
    BY <1>g, <2>1 DEF SomethingLeftFor, AdmAt
  <2>3. AdmAt(a, "idle") \/ GetsOn(adm[a], l)
    BY <1>g, <2>1 DEF GetsOn
  <2> QED
    BY <1>m, <2>1, <2>2, <2>3
<1>s. ASSUME adm' = adm, AdmAt(a, "idle") PROVE Goal
  BY <1>s
<1>1. CASE OpenStart(a) \/ GateStart(a) \/ ResetStart(a)
  BY <1>1, <1>g DEF OpenStart, GateStart, ResetStart
<1>2. CASE OpenReadGate(a)
  BY <1>2, <1>a, <1>g, StatementNumbers DEF OpenReadGate, AdmAt
<1>3. CASE OpenReadMode(a)
  BY <1>3, <1>g, StatementNumbers DEF OpenReadMode, AdmAt
<1>4. CASE OpenReadSingle(a)
  <2> DEFINE l == [adm[a] EXCEPT !.pc = "selections", !.cands = Participants(NoRole)]
  <2>1. adm' = [adm EXCEPT ![a] = l] \/ AdmAnswer(a)
    BY <1>4 DEF OpenReadSingle
  <2>2. l.pc = "selections"
    BY <1>0 DEF AdmLocals
  <2>3. adm[a].pc = "single"
    BY <1>4 DEF OpenReadSingle, AdmAt
  <2> HIDE DEF l
  <2>4. SomethingLeftFor(l) /\ GetsOn(adm[a], l)
    BY <2>2, <2>3, StatementNumbers DEF SomethingLeftFor, GetsOn
  <2> QED
    BY <1>a, <1>m, <2>1, <2>3, <2>4, StatementNumbers
<1>5. CASE OpenReadSelections(a)
  BY <1>5, <1>a, <1>g, StatementNumbers DEF OpenReadSelections, AdmAt
<1>6. CASE OpenReadRoles(a)
  <2> DEFINE l == [adm[a] EXCEPT !.pc = "candidates", !.rows = Roles]
  <2>1. (roles # {} /\ adm' = [adm EXCEPT ![a] = l]) \/ AdmAnswer(a)
    BY <1>6 DEF OpenReadRoles
  <2>2. l.pc = "candidates" /\ l.rows = Roles
    BY <1>0 DEF AdmLocals
  <2>3. adm[a].pc = "roles"
    BY <1>6 DEF OpenReadRoles, AdmAt
  <2>4. roles # {} => Roles # {}
    BY DEF Roles
  <2> HIDE DEF l
  <2>5. roles # {} => SomethingLeftFor(l) /\ GetsOn(adm[a], l)
    BY <2>2, <2>3, <2>4, StatementNumbers DEF SomethingLeftFor, GetsOn
  <2> QED
    BY <1>a, <1>m, <2>1, <2>3, <2>5, StatementNumbers
<1>7. CASE OpenReadCandidates(a)
  <2> DEFINE l(row) == [adm[a] EXCEPT
               !.pc = IF adm[a].rows = {row} THEN "open" ELSE "candidates",
               !.rows = adm[a].rows \ {row}]
  <2>1. AdmAnswer(a) \/ \E row \in adm[a].rows : adm' = [adm EXCEPT ![a] = l(row)]
    BY <1>7 DEF OpenReadCandidates
  <2>2. adm[a].pc = "candidates"
    BY <1>7 DEF OpenReadCandidates, AdmAt
  <2>3. ASSUME NEW row \in adm[a].rows, adm' = [adm EXCEPT ![a] = l(row)] PROVE Goal
    <3> DEFINE k == l(row)
    <3>2. /\ k.pc = (IF adm[a].rows = {row} THEN "open" ELSE "candidates")
          /\ k.rows = adm[a].rows \ {row}
      BY <1>0 DEF AdmLocals
    <3>3. adm' = [adm EXCEPT ![a] = k]
      BY <2>3
    <3> HIDE DEF k
    <3>4. SomethingLeftFor(k)
      BY <3>2 DEF SomethingLeftFor
    <3>5. StatementsLeft[k.pc] < StatementsLeft[adm[a].pc] \/ FewerRows(adm[a], k)
      BY <2>2, <3>2, StatementNumbers DEF FewerRows
    <3> QED
      BY <1>m, <3>3, <3>4, <3>5 DEF GetsOn
  <2>4. AdmAnswer(a) => Goal
    BY <1>a, <2>2, StatementNumbers
  <2> HIDE DEF l
  <2> QED
    BY <2>1, <2>3, <2>4
<1>8. CASE OpenWrite(a) \/ ResetWrite(a) \/ DeleteRoleWrite(a) \/ DeleteParticipantWrite(a) \/ GateWrite(a)
  <2>1. /\ AdmAnswer(a)
        /\ adm[a].pc \in {"open", "reset", "delete_role", "delete_participant", "gate_open"}
    BY <1>8 DEF OpenWrite, ResetWrite, DeleteRoleWrite, DeleteParticipantWrite, GateWrite, AdmAt
  <2> QED
    BY <1>a, <2>1, StatementNumbers
<1>9. CASE \/ \E s \in {"draft", "closed"} : StopVoting(a, s)
           \/ \E n \in 1..MaxPicks, y \in Years : CreateRole(a, n, y)
           \/ \E r \in RoleId, n \in 1..MaxPicks, y \in Years : UpdateRole(a, r, n, y)
           \/ \E r \in Section : CreateParticipant(a, r)
           \/ \E p \in PartId, r \in Section : UpdateParticipant(a, p, r)
           \/ GateClose(a)
  BY <1>9, <1>s DEF StopVoting, CreateRole, UpdateRole, CreateParticipant, UpdateParticipant, GateClose
<1>10. CASE \/ \E r \in RoleId : DeleteRoleStart(a, r)
            \/ \E p \in PartId : DeleteParticipantStart(a, p)
  <2> DEFINE l(pc, i) == [adm[a] EXCEPT !.pc = pc, !.id = i]
  <2>1. /\ AdmAt(a, "idle")
        /\ \E pc \in {"delete_role", "delete_participant"}, i \in RoleId \cup PartId :
             adm' = [adm EXCEPT ![a] = l(pc, i)]
    BY <1>10 DEF DeleteRoleStart, DeleteParticipantStart
  <2>2. ASSUME NEW pc \in {"delete_role", "delete_participant"}, NEW i PROVE SomethingLeftFor(l(pc, i))
    <3>1. l(pc, i).pc = pc
      BY <1>0 DEF AdmLocals
    <3> QED
      BY <3>1 DEF SomethingLeftFor
  <2> HIDE DEF l
  <2> QED
    BY <1>m, <2>1, <2>2
<1>11. ASSUME NEW mode \in {"roles", "single"}, NEW sel \in 1 .. MaxPicks, SettingsStart(a, mode, sel)
       PROVE  Goal
  <2> DEFINE l == [adm[a] EXCEPT !.pc = IF votingStatus = "open" THEN "settings_mode" ELSE "settings_write",
                                 !.mode = mode, !.sel = sel]
  <2>1. adm' = [adm EXCEPT ![a] = l] /\ AdmAt(a, "idle")
    BY <1>11 DEF SettingsStart
  <2>2. l.mode # "kept" /\ l.pc # "candidates"
    BY <1>0 DEF AdmLocals
  <2> HIDE DEF l
  <2>3. SomethingLeftFor(l)
    BY <2>2 DEF SomethingLeftFor
  <2> QED
    BY <1>m, <2>1, <2>3
<1>12. CASE SettingsReadMode(a)
  BY <1>12, <1>a, <1>g, StatementNumbers DEF SettingsReadMode, AdmAt
<1>13. CASE SettingsWriteMode(a)
  <2> DEFINE l == [adm[a] EXCEPT !.mode = "kept"]
  <2>1. adm[a].pc = "settings_write" /\ adm[a].mode # "kept"
    BY <1>13 DEF SettingsWriteMode, AdmAt
  <2>2. AdmAnswer(a) \/ (adm[a].sel # 0 /\ adm' = [adm EXCEPT ![a] = l])
    BY <1>0, <1>13 DEF SettingsWriteMode
  <2>3. l.pc = adm[a].pc /\ l.mode = "kept" /\ l.sel = adm[a].sel
    BY <1>0 DEF AdmLocals
  <2> HIDE DEF l
  <2>4. GetsOn(adm[a], l) /\ (adm[a].sel # 0 => SomethingLeftFor(l))
    BY <2>1, <2>3 DEF GetsOn, FewerSettings, SomethingLeftFor
  <2> QED
    BY <1>a, <1>m, <2>1, <2>2, <2>4, StatementNumbers
<1>14. CASE SettingsWriteSelections(a)
  <2> DEFINE l == [adm[a] EXCEPT !.sel = 0]
  <2>1. adm[a].pc = "settings_write" /\ adm[a].sel # 0
    BY <1>14 DEF SettingsWriteSelections, AdmAt
  <2>2. AdmAnswer(a) \/ (adm[a].mode # "kept" /\ adm' = [adm EXCEPT ![a] = l])
    BY <1>0, <1>14 DEF SettingsWriteSelections
  <2>3. l.pc = adm[a].pc /\ l.sel = 0 /\ l.mode = adm[a].mode
    BY <1>0 DEF AdmLocals
  <2> HIDE DEF l
  <2>4. GetsOn(adm[a], l) /\ (adm[a].mode # "kept" => SomethingLeftFor(l))
    BY <2>1, <2>3 DEF GetsOn, FewerSettings, SomethingLeftFor
  <2> QED
    BY <1>a, <1>m, <2>1, <2>2, <2>4, StatementNumbers
<1>15. CASE GateReadStatus(a)
  BY <1>15, <1>a, <1>g, StatementNumbers DEF GateReadStatus, AdmAt
<1>16. CASE AdmRequest(a)
  BY <1>16, <1>1, <1>9, <1>10, <1>11 DEF AdmRequest
<1>17. CASE AdmStep(a)
  BY <1>17, <1>2, <1>3, <1>4, <1>5, <1>6, <1>7, <1>8, <1>12, <1>13, <1>14, <1>15 DEF AdmStep, OpenStep
<1> QED
  BY <1>16, <1>17

StillInv ==
  /\ VotingTypeOK
  /\ \A q \in Request : SomethingLeftFor(cast[q])
  /\ \A a \in Admin : SomethingLeftFor(adm[a])

LEMMA StillLeft == StillInv => SomethingLeft
  BY DEF StillInv, SomethingLeft, SomethingLeftFor, AdmAt, CastAt

\* What one step may do to a request in flight.
LEMMA NearerStep ==
  ASSUME StillInv, [VotingNext]_votingVars
  PROVE  /\ \A q \in Request : ~CastAt(q, "idle") /\ cast'[q] # cast[q] =>
              \/ StatementsLeft[cast'[q].pc] < StatementsLeft[cast[q].pc]
              \/ FewerRows(cast[q], cast'[q])
         /\ \A a \in Admin : ~AdmAt(a, "idle") /\ adm'[a] # adm[a] => GetsOn(adm[a], adm'[a])
         /\ \A q \in Request : SomethingLeftFor(cast'[q])
         /\ \A a \in Admin : SomethingLeftFor(adm'[a])
<1>0. /\ cast \in [Request -> CastLocals] /\ adm \in [Admin -> AdmLocals]
      /\ VotingTypeOK /\ VotingTypeOK'
  BY VotingTypeStep DEF StillInv, VotingTypeOK
<1>1. /\ \A q \in Request : ~CastAt(q, "idle") /\ cast'[q] # cast[q] =>
           \/ StatementsLeft[cast'[q].pc] < StatementsLeft[cast[q].pc]
           \/ FewerRows(cast[q], cast'[q])
      /\ \A q \in Request : SomethingLeftFor(cast'[q])
  <2>1. \A q \in Request : cast'[q].pc # "settings_write" /\ cast'[q].pc # "settings_mode"
    BY <1>0 DEF VotingTypeOK, CastLocals, CastPC
  <2>2. ASSUME NEW q \in Request, CastStep(q) PROVE <1>1!:
    <3>1. /\ \A p \in Request \ {q} : cast'[p] = cast[p]
          /\ \/ StatementsLeft[cast'[q].pc] < StatementsLeft[cast[q].pc]
             \/ FewerRows(cast[q], cast'[q])
          /\ cast'[q].pc = "candidates" => cast'[q].rows # {}
      BY <2>2, CastGetsOn DEF StillInv
    <3>2. SomethingLeftFor(cast'[q])
      BY <2>1, <3>1 DEF SomethingLeftFor
    <3> QED
      BY <3>1, <3>2 DEF StillInv
  <2>3. ASSUME NEW q \in Request, NEW m \in Member, CastArrives(q, m) PROVE <1>1!:
    <3>1. /\ cast'[q].pc = "status" /\ \A p \in Request \ {q} : cast'[p] = cast[p]
          /\ CastAt(q, "idle")
      BY <1>0, <2>3 DEF CastArrives, CastLocals
    <3>2. SomethingLeftFor(cast'[q])
      BY <3>1 DEF SomethingLeftFor
    <3> QED
      BY <3>1, <3>2 DEF StillInv
  <2>4. CASE Restart
    <3>1. \A q \in Request : cast'[q].pc = "idle"
      BY <2>4 DEF Restart, NoCast
    <3>2. \A pc \in CastPC \ {"idle"} : StatementsLeft["idle"] < StatementsLeft[pc]
      BY StatementNumbers DEF CastPC
    <3>3. \A q \in Request : cast[q].pc \in CastPC
      BY <1>0 DEF CastLocals
    <3> QED
      BY <3>1, <3>2, <3>3 DEF SomethingLeftFor, CastAt
  <2>5. CASE UNCHANGED cast
    BY <2>5 DEF StillInv
  <2> QED
    BY <2>2, <2>3, <2>4, <2>5, OthersLeaveCasts
<1>2. /\ \A a \in Admin : ~AdmAt(a, "idle") /\ adm'[a] # adm[a] => GetsOn(adm[a], adm'[a])
      /\ \A a \in Admin : SomethingLeftFor(adm'[a])
  <2>1. ASSUME NEW a \in Admin, AdmRequest(a) \/ AdmStep(a) PROVE <1>2!:
    <3>1. /\ \A b \in Admin \ {a} : adm'[b] = adm[b]
          /\ ~AdmAt(a, "idle") => GetsOn(adm[a], adm'[a])
          /\ SomethingLeftFor(adm'[a])
      BY <1>0, <2>1, AdmGetsOn DEF StillInv
    <3> QED
      BY <3>1 DEF StillInv
  <2>2. CASE UNCHANGED adm
    BY <2>2 DEF StillInv
  <2>3. CASE adm' = [a \in Admin |-> NoAdm]
    <3>1. \A a \in Admin : adm'[a].pc = "idle"
      BY <2>3 DEF NoAdm
    <3>2. \A pc \in AdmPC \ {"idle"} : StatementsLeft["idle"] < StatementsLeft[pc]
      BY StatementNumbers DEF AdmPC
    <3>3. \A a \in Admin : adm[a].pc \in AdmPC
      BY <1>0 DEF AdmLocals
    <3> QED
      BY <3>1, <3>2, <3>3 DEF SomethingLeftFor, AdmAt, GetsOn
  <2> QED
    BY <2>1, <2>2, <2>3, OthersLeave
<1> QED
  BY <1>1, <1>2

LEMMA StillInvariant == VotingSpec => []StillInv
<1>1. VotingInit => StillInv
  BY VotingTypeInit DEF StillInv, VotingInit, SomethingLeftFor, NoCast, NoAdm
<1>2. StillInv /\ [VotingNext]_votingVars => StillInv'
  BY NearerStep, VotingTypeStep DEF StillInv
<1> QED
  BY <1>1, <1>2, PTL DEF VotingSpec

\* Requests in flight when voting stops can each still drop in one ballot, their own member's,
\* and no request that reads the status afterwards is among them.
THEOREM LateBallotsAreFew == VotingSpec => LateBallots
<1>1. ASSUME StillInv, [VotingNext]_votingVars
      PROVE  [votingStatus # "open" =>
                /\ Underway' \subseteq Underway
                /\ \A b, c \in ballots' \ ballots : b = c
                /\ \A b \in ballots' \ ballots : \E q \in Underway \ Underway' : cast[q].user = b.user]_votingVars
  <2>1. VotingTypeOK /\ SomethingLeft
    BY <1>1, StillLeft DEF StillInv
  <2> QED
    BY <1>1, <2>1, LateStep
<1> QED
  BY <1>1, StillInvariant, PTL DEF VotingSpec, LateBallots

\* Every request in flight has a statement it can run, and each one it runs brings its answer
\* nearer: the other half of its answer, that the statement is run, is the scheduler's.
THEOREM EveryRequestGetsOn == VotingSpec => RequestsGetOn
<1> DEFINE Nearer == /\ \A q \in Request : ~CastAt(q, "idle") /\ cast'[q] # cast[q] =>
                          \/ StatementsLeft[cast'[q].pc] < StatementsLeft[cast[q].pc]
                          \/ FewerRows(cast[q], cast'[q])
                     /\ \A a \in Admin : ~AdmAt(a, "idle") /\ adm'[a] # adm[a] =>
                          \/ StatementsLeft[adm'[a].pc] < StatementsLeft[adm[a].pc]
                          \/ FewerRows(adm[a], adm'[a]) \/ FewerSettings(adm[a], adm'[a])
<1>1. ASSUME StillInv, [VotingNext]_votingVars
      PROVE  [Nearer]_votingVars
  BY <1>1, NearerStep DEF GetsOn
<1>2. StillInv => SomethingLeft
  BY StillLeft
<1> QED
  BY <1>1, <1>2, StillInvariant, PTL DEF VotingSpec, RequestsGetOn
=============================================================================
