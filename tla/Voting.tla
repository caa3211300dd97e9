-------------------------------- MODULE Voting --------------------------------
(***************************************************************************)
(* Voting day: members' CastBallot requests and the elections admins'      *)
(* requests, each a goroutine of the HTTP server, interleaving between the *)
(* statements they run; the membership admin suspending and deleting       *)
(* members meanwhile; the process stopping at any point.                   *)
(*                                                                         *)
(* cast[q] and adm[a] are the locals of the requests that goroutine q or a *)
(* serves: pc names the statement it runs next. One admin goroutine is one *)
(* admin who waits for each answer; two are two browser tabs, or two       *)
(* admins.                                                                 *)
(***************************************************************************)
EXTENDS ElectionDB, Sequences

CONSTANTS
  Request,    \* goroutines serving members' ballots
  Admin,      \* goroutines serving elections admins
  Tasks       \* bound: the kinds of request an instance lets the admins send

VARIABLES cast, adm

votingVars == <<dbVars, cast, adm>>

CastPC == {"idle", "status", "member", "voted", "mode", "single", "selections",
           "roles", "candidates", "write"}
AdmPC == {"idle", "gate", "mode", "single", "selections", "roles", "candidates",
          "open", "reset", "delete_role", "delete_participant",
          "settings_mode", "settings_write", "gate_status", "gate_open"}

\* store.CastBallot's type check: one page of the ballot as it was read.
Check == [role : Section, allowed : 0..MaxPicks, valid : SUBSET PartId]

NoCast == [pc |-> "idle", user |-> NoMember, rows |-> {}, checks |-> {}]
NoAdm == [pc |-> "idle", id |-> 0, rows |-> {}, cands |-> {}, mode |-> "kept", sel |-> 0]

CastLocals == [pc : CastPC, user : Member \cup {NoMember},
               rows : SUBSET RoleRow, checks : SUBSET Check]
AdmLocals == [pc : AdmPC, id : Nat, rows : SUBSET RoleRow, cands : SUBSET PartId,
              mode : {"kept", "roles", "single"}, sel : 0..MaxPicks]

\* Tables keep to their columns, and the locals of a request to what it has read.
VotingTypeOK ==
  /\ DBTypeOK
  /\ cast \in [Request -> CastLocals]
  /\ \A q \in Request : cast[q].pc # "idle" => cast[q].user \in Member
  /\ adm \in [Admin -> AdmLocals]

VotingInit ==
  /\ DBInit
  /\ cast = [q \in Request |-> NoCast]
  /\ adm = [a \in Admin |-> NoAdm]

-----------------------------------------------------------------------------
(* store.CastBallot, one statement at a time *)

CastAt(q, pc) == cast[q].pc = pc
CastGoto(q, pc) == cast' = [cast EXCEPT ![q].pc = pc]
CastAnswer(q) == cast' = [cast EXCEPT ![q] = NoCast]

\* requireMember has read the member's row; handleCastBallot turns away a
\* member who is not active.
CastArrives(q, m) ==
  /\ CastAt(q, "idle")
  /\ users[m] = "active"
  /\ cast' = [cast EXCEPT ![q] = [@ EXCEPT !.pc = "status", !.user = m]]
  /\ UNCHANGED <<dbVars, adm>>

\* Fault: the status is left to the page that shows the ballot.
CastReadStatusIgnored(q) ==
  /\ CastAt(q, "status")
  /\ CastGoto(q, "member")
  /\ UNCHANGED <<dbVars, adm>>

CastReadStatus(q) ==
  /\ CastAt(q, "status")
  /\ \/ votingStatus = "open" /\ CastGoto(q, "member")
     \/ votingStatus # "open" /\ CastAnswer(q)
  /\ UNCHANGED <<dbVars, adm>>

CastReadMember(q) ==
  /\ CastAt(q, "member")
  /\ \/ users[cast[q].user] = "active" /\ CastGoto(q, "voted")
     \/ users[cast[q].user] # "active" /\ CastAnswer(q)
  /\ UNCHANGED <<dbVars, adm>>

CastReadVoted(q) ==
  /\ CastAt(q, "voted")
  /\ \/ ~HasVoted(cast[q].user) /\ CastGoto(q, "mode")
     \/ HasVoted(cast[q].user) /\ CastAnswer(q)
  /\ UNCHANGED <<dbVars, adm>>

CastReadMode(q) ==
  /\ CastAt(q, "mode")
  /\ \/ votingMode = "single" /\ CastGoto(q, "single")
     \/ votingMode = "roles" /\ CastGoto(q, "roles")
  /\ UNCHANGED <<dbVars, adm>>

\* A page read: who may be chosen on it, and how many.
Page(row) == [role |-> row.role, allowed |-> row.allowed, valid |-> Participants(row.role)]
WithLimit(checks, n) == {[c EXCEPT !.allowed = n] : c \in checks}

\* The single page: its candidates, then single_selections.
CastReadSingle(q) ==
  /\ CastAt(q, "single")
  /\ cast' = [cast EXCEPT ![q] = [@ EXCEPT !.pc = "selections", !.checks =
                {Page([role |-> NoRole, allowed |-> 0])}]]
  /\ UNCHANGED <<dbVars, adm>>

CastReadSelections(q) ==
  /\ CastAt(q, "selections")
  /\ cast' = [cast EXCEPT ![q] = [@ EXCEPT !.pc = "write", !.checks =
                WithLimit(cast[q].checks, singleSelections)]]
  /\ UNCHANGED <<dbVars, adm>>

\* One page a role: the rows of roles, then the candidates of each in turn.
CastReadRoles(q) ==
  /\ CastAt(q, "roles")
  /\ cast' = [cast EXCEPT ![q] = [@ EXCEPT
                !.pc = IF roles = {} THEN "write" ELSE "candidates", !.rows = Roles]]
  /\ UNCHANGED <<dbVars, adm>>

CastReadCandidates(q) ==
  /\ CastAt(q, "candidates")
  /\ \E row \in cast[q].rows :
       cast' = [cast EXCEPT ![q] = [@ EXCEPT
         !.pc = IF cast[q].rows = {row} THEN "write" ELSE "candidates",
         !.rows = cast[q].rows \ {row},
         !.checks = cast[q].checks \cup {Page(row)}]]
  /\ UNCHANGED <<dbVars, adm>>

\* The lists a request may carry, repeats and strangers to the page included.
Lists == UNION {[1..n -> PartId] : n \in 0..MaxPicks + 1}
Selections(checks) == [{c.role : c \in checks} -> Lists]

\* Fault: a page left empty is let through.
ValidBallotBlankPages(checks, sel) ==
  \A c \in checks :
    /\ Len(sel[c.role]) <= c.allowed
    /\ \A i \in DOMAIN sel[c.role] : sel[c.role][i] \in c.valid
    /\ \A i, j \in DOMAIN sel[c.role] : sel[c.role][i] = sel[c.role][j] => i = j

\* The loop over checks: every page answered, within its limit, by its own
\* candidates, none of them twice.
ValidBallot(checks, sel) ==
  \A c \in checks :
    /\ Len(sel[c.role]) # 0
    /\ Len(sel[c.role]) <= c.allowed
    /\ \A i \in DOMAIN sel[c.role] : sel[c.role][i] \in c.valid
    /\ \A i, j \in DOMAIN sel[c.role] : sel[c.role][i] = sel[c.role][j] => i = j

\* The transaction: committed, or rolled back by a constraint.
CastWrite(q) ==
  /\ CastAt(q, "write")
  /\ \E sel \in Selections(cast[q].checks) :
       /\ ValidBallot(cast[q].checks, sel)
       /\ InsertBallotRows(cast[q].user, sel)
  /\ CastAnswer(q)
  /\ UNCHANGED <<settingVars, userVars, roleVars, partVars, candVars, adm>>

CastRefused(q) ==
  /\ CastAt(q, "write")
  /\ \E sel \in Selections(cast[q].checks) :
       ~ /\ ValidBallot(cast[q].checks, sel)
         /\ UniqueBallot(cast[q].user)
         /\ UniqueVotes(cast[q].user, sel)
         /\ ForeignKeys(cast[q].user, sel)
  /\ CastAnswer(q)
  /\ UNCHANGED <<dbVars, adm>>

CastStep(q) ==
  \/ CastReadStatus(q) \/ CastReadMember(q) \/ CastReadVoted(q)
  \/ CastReadMode(q) \/ CastReadSingle(q) \/ CastReadSelections(q)
  \/ CastReadRoles(q) \/ CastReadCandidates(q)
  \/ CastWrite(q) \/ CastRefused(q)

-----------------------------------------------------------------------------
(* The elections admin's requests. A request whose only effect is one       *)
(* statement still occupies a goroutine, so it needs an idle one.           *)

AdmAt(a, pc) == adm[a].pc = pc
AdmGoto(a, pc) == adm' = [adm EXCEPT ![a].pc = pc]
AdmAnswer(a) == adm' = [adm EXCEPT ![a] = NoAdm]

\* SetVotingStatus("open"): validateVotingSetup's reads, then the setting.
OpenStart(a) ==
  /\ AdmAt(a, "idle")
  /\ AdmGoto(a, "gate")
  /\ UNCHANGED <<dbVars, cast>>

OpenReadGate(a) ==
  /\ AdmAt(a, "gate")
  /\ \/ gate = "closed" /\ AdmGoto(a, "mode")
     \/ gate = "open" /\ AdmAnswer(a)
  /\ UNCHANGED <<dbVars, cast>>

OpenReadMode(a) ==
  /\ AdmAt(a, "mode")
  /\ \/ votingMode = "single" /\ AdmGoto(a, "single")
     \/ votingMode = "roles" /\ AdmGoto(a, "roles")
  /\ UNCHANGED <<dbVars, cast>>

OpenReadSingle(a) ==
  /\ AdmAt(a, "single")
  /\ \/ /\ Cardinality(Participants(NoRole)) >= 2
        /\ adm' = [adm EXCEPT ![a] = [@ EXCEPT !.pc = "selections", !.cands = Participants(NoRole)]]
     \/ Cardinality(Participants(NoRole)) < 2 /\ AdmAnswer(a)
  /\ UNCHANGED <<dbVars, cast>>

OpenReadSelections(a) ==
  /\ AdmAt(a, "selections")
  /\ \/ singleSelections <= Cardinality(adm[a].cands) /\ AdmGoto(a, "open")
     \/ singleSelections > Cardinality(adm[a].cands) /\ AdmAnswer(a)
  /\ UNCHANGED <<dbVars, cast>>

OpenReadRoles(a) ==
  /\ AdmAt(a, "roles")
  /\ \/ roles # {} /\ adm' = [adm EXCEPT ![a] = [@ EXCEPT !.pc = "candidates", !.rows = Roles]]
     \/ roles = {} /\ AdmAnswer(a)
  /\ UNCHANGED <<dbVars, cast>>

\* Fault: only the empty roles stop the opening.
EnoughCandidatesUnlimited(row) == Participants(row.role) # {}

\* A role with nobody standing, or with fewer candidates than the member may
\* choose, stops the opening.
EnoughCandidates(row) ==
  /\ Participants(row.role) # {}
  /\ row.allowed <= Cardinality(Participants(row.role))

OpenReadCandidates(a) ==
  /\ AdmAt(a, "candidates")
  /\ \E row \in adm[a].rows :
       \/ /\ EnoughCandidates(row)
          /\ adm' = [adm EXCEPT ![a] = [@ EXCEPT
               !.pc = IF adm[a].rows = {row} THEN "open" ELSE "candidates",
               !.rows = adm[a].rows \ {row}]]
       \/ ~EnoughCandidates(row) /\ AdmAnswer(a)
  /\ UNCHANGED <<dbVars, cast>>

OpenWrite(a) ==
  /\ AdmAt(a, "open")
  /\ votingStatus' = "open"
  /\ AdmAnswer(a)
  /\ UNCHANGED <<gate, votingMode, singleSelections, userVars, roleVars, partVars,
                 candVars, boxVars, cast>>

\* SetVotingStatus("draft" or "closed") checks nothing.
StopVoting(a, s) ==
  /\ AdmAt(a, "idle")
  /\ votingStatus' = s
  /\ UNCHANGED <<gate, votingMode, singleSelections, userVars, roleVars, partVars,
                 candVars, boxVars, cast, adm>>

\* ResetVotes: the status, then one transaction over both tables.
ResetStart(a) ==
  /\ AdmAt(a, "idle") /\ votingStatus # "open"
  /\ AdmGoto(a, "reset")
  /\ UNCHANGED <<dbVars, cast>>

ResetWrite(a) ==
  /\ AdmAt(a, "reset")
  /\ ballots' = {} /\ votes' = {}
  /\ AdmAnswer(a)
  /\ UNCHANGED <<settingVars, userVars, roleVars, partVars, candVars, cast>>

\* Fault: normalizeRole is not called, and a limit of zero goes in.
CreateRoleUnnormalized(a, n, y) ==
  /\ AdmAt(a, "idle") /\ roleSeq < MaxRole
  /\ roleSeq' = roleSeq + 1
  /\ roles' = roles \cup {roleSeq + 1}
  /\ allowed' = [allowed EXCEPT ![roleSeq + 1] = n - 1]
  /\ minAge' = [minAge EXCEPT ![roleSeq + 1] = y]
  /\ UNCHANGED <<settingVars, userVars, partVars, candVars, boxVars, cast, adm>>

\* CreateRole and UpdateRole look at nothing but the row they write. normalizeRole
\* has made a selections_allowed below one winners_count, made a min_age below one
\* DefaultMinCandidateAge, and refused one above 120.
CreateRole(a, n, y) ==
  /\ AdmAt(a, "idle") /\ roleSeq < MaxRole
  /\ roleSeq' = roleSeq + 1
  /\ roles' = roles \cup {roleSeq + 1}
  /\ allowed' = [allowed EXCEPT ![roleSeq + 1] = n]
  /\ minAge' = [minAge EXCEPT ![roleSeq + 1] = y]
  /\ UNCHANGED <<settingVars, userVars, partVars, candVars, boxVars, cast, adm>>

UpdateRole(a, r, n, y) ==
  /\ AdmAt(a, "idle") /\ r \in roles
  /\ allowed' = [allowed EXCEPT ![r] = n]
  /\ minAge' = [minAge EXCEPT ![r] = y]
  /\ UNCHANGED <<settingVars, userVars, roles, roleSeq, partVars, candVars, boxVars,
                 cast, adm>>

\* DeleteRole: the status (and the row, for its name), then the statement,
\* which takes the role's participants and their votes with it.
DeleteRoleStart(a, r) ==
  /\ AdmAt(a, "idle") /\ votingStatus # "open" /\ r \in roles
  /\ adm' = [adm EXCEPT ![a] = [@ EXCEPT !.pc = "delete_role", !.id = r]]
  /\ UNCHANGED <<dbVars, cast>>

DeleteRoleWrite(a) ==
  /\ AdmAt(a, "delete_role")
  /\ roles' = roles \ {adm[a].id}
  /\ allowed' = [allowed EXCEPT ![adm[a].id] = 1]
  /\ minAge' = [minAge EXCEPT ![adm[a].id] = DefaultMinCandidateAge]
  /\ DeleteParticipantRows(Participants(adm[a].id))
  /\ AdmAnswer(a)
  /\ UNCHANGED <<settingVars, userVars, roleSeq, candVars, ballots, cast>>

\* CreateParticipant and UpdateParticipant: no check of the voting status.
CreateParticipant(a, r) ==
  /\ AdmAt(a, "idle")
  /\ InsertParticipantRow(r, NoMember)
  /\ UNCHANGED <<settingVars, userVars, roleVars, candVars, boxVars, cast, adm>>

UpdateParticipant(a, p, r) ==
  /\ AdmAt(a, "idle") /\ p \in participants
  /\ MoveParticipantRows({p}, r)
  /\ UNCHANGED <<settingVars, userVars, roleVars, candVars, boxVars, cast, adm>>

\* Fault: a candidate can be deleted at any time.
DeleteParticipantStartUnguarded(a, p) ==
  /\ AdmAt(a, "idle") /\ p \in participants
  /\ adm' = [adm EXCEPT ![a] = [@ EXCEPT !.pc = "delete_participant", !.id = p]]
  /\ UNCHANGED <<dbVars, cast>>

DeleteParticipantStart(a, p) ==
  /\ AdmAt(a, "idle") /\ votingStatus # "open" /\ p \in participants
  /\ adm' = [adm EXCEPT ![a] = [@ EXCEPT !.pc = "delete_participant", !.id = p]]
  /\ UNCHANGED <<dbVars, cast>>

DeleteParticipantWrite(a) ==
  /\ AdmAt(a, "delete_participant")
  /\ DeleteParticipantRows({adm[a].id})
  /\ AdmAnswer(a)
  /\ UNCHANGED <<settingVars, userVars, roleVars, candVars, ballots, cast>>

\* handleElectionSettings: the status, the current mode if voting is open, then
\* one statement a setting, in the random order of a Go map.
SettingsStart(a, mode, sel) ==
  /\ AdmAt(a, "idle")
  /\ adm' = [adm EXCEPT ![a] = [@ EXCEPT
        !.pc = IF votingStatus = "open" THEN "settings_mode" ELSE "settings_write",
        !.mode = mode, !.sel = sel]]
  /\ UNCHANGED <<dbVars, cast>>

SettingsReadMode(a) ==
  /\ AdmAt(a, "settings_mode")
  /\ \/ adm[a].mode = votingMode /\ AdmGoto(a, "settings_write")
     \/ adm[a].mode # votingMode /\ AdmAnswer(a)
  /\ UNCHANGED <<dbVars, cast>>

SettingsWriteMode(a) ==
  /\ AdmAt(a, "settings_write") /\ adm[a].mode # "kept"
  /\ votingMode' = adm[a].mode
  /\ IF adm[a].sel = 0 THEN AdmAnswer(a)
                       ELSE adm' = [adm EXCEPT ![a].mode = "kept"]
  /\ UNCHANGED <<votingStatus, gate, singleSelections, userVars, roleVars, partVars,
                 candVars, boxVars, cast>>

SettingsWriteSelections(a) ==
  /\ AdmAt(a, "settings_write") /\ adm[a].sel # 0
  /\ singleSelections' = adm[a].sel
  /\ IF adm[a].mode = "kept" THEN AdmAnswer(a)
                             ELSE adm' = [adm EXCEPT ![a].sel = 0]
  /\ UNCHANGED <<votingStatus, gate, votingMode, userVars, roleVars, partVars,
                 candVars, boxVars, cast>>

\* SetCandidacyGate: opening it reads the roles, then the voting status.
GateStart(a) ==
  /\ AdmAt(a, "idle") /\ roles # {}
  /\ AdmGoto(a, "gate_status")
  /\ UNCHANGED <<dbVars, cast>>

GateReadStatus(a) ==
  /\ AdmAt(a, "gate_status")
  /\ \/ votingStatus = "draft" /\ AdmGoto(a, "gate_open")
     \/ votingStatus # "draft" /\ AdmAnswer(a)
  /\ UNCHANGED <<dbVars, cast>>

GateWrite(a) ==
  /\ AdmAt(a, "gate_open")
  /\ gate' = "open"
  /\ AdmAnswer(a)
  /\ UNCHANGED <<votingStatus, votingMode, singleSelections, userVars, roleVars,
                 partVars, candVars, boxVars, cast>>

GateClose(a) ==
  /\ AdmAt(a, "idle")
  /\ gate' = "closed"
  /\ UNCHANGED <<votingStatus, votingMode, singleSelections, userVars, roleVars,
                 partVars, candVars, boxVars, cast, adm>>

OpenStep(a) ==
  \/ OpenReadGate(a) \/ OpenReadMode(a) \/ OpenReadSingle(a)
  \/ OpenReadSelections(a) \/ OpenReadRoles(a) \/ OpenReadCandidates(a)
  \/ OpenWrite(a)

\* A request already running takes its next step.
AdmStep(a) ==
  \/ OpenStep(a) \/ ResetWrite(a) \/ DeleteRoleWrite(a) \/ DeleteParticipantWrite(a)
  \/ SettingsReadMode(a) \/ SettingsWriteMode(a) \/ SettingsWriteSelections(a)
  \/ GateReadStatus(a) \/ GateWrite(a)

\* An admin sends a request.
AdmRequest(a) ==
  \/ "open" \in Tasks /\ OpenStart(a)
  \/ "stop" \in Tasks /\ \E s \in {"draft", "closed"} : StopVoting(a, s)
  \/ "reset" \in Tasks /\ ResetStart(a)
  \/ "create_role" \in Tasks /\ \E n \in 1..MaxPicks, y \in Years : CreateRole(a, n, y)
  \/ "update_role" \in Tasks /\ \E r \in RoleId, n \in 1..MaxPicks, y \in Years :
       (y > minAge[r] => "raise_min_age" \in Tasks) /\ UpdateRole(a, r, n, y)
  \/ "delete_role" \in Tasks /\ \E r \in RoleId : DeleteRoleStart(a, r)
  \/ "create_participant" \in Tasks /\ \E r \in Section : CreateParticipant(a, r)
  \/ "update_participant" \in Tasks /\
       \E p \in PartId, r \in Section : UpdateParticipant(a, p, r)
  \/ "delete_participant" \in Tasks /\ \E p \in PartId : DeleteParticipantStart(a, p)
  \/ "settings" \in Tasks /\
       \E mode \in {"roles", "single"}, sel \in 1..MaxPicks : SettingsStart(a, mode, sel)
  \/ "gate" \in Tasks /\ (GateStart(a) \/ GateClose(a))

-----------------------------------------------------------------------------
(* The membership admin, and the process *)

\* SetUserStatus: nothing read before the UPDATE decides what it writes.
SetUserStatus(m, s) ==
  /\ users[m] \notin {"deleted", s}
  /\ users' = [users EXCEPT ![m] = s]
  /\ UNCHANGED <<settingVars, age, roleVars, partVars, candVars, boxVars, cast, adm>>

DeleteUser(m) ==
  /\ users[m] # "deleted"
  /\ DeleteUserRows(m)
  /\ UNCHANGED <<settingVars, roleVars, partVars, cast, adm>>

\* UpdateUser, as far as the election sees it: a date of birth corrected.
UpdateUser(m, y) ==
  /\ users[m] # "deleted" /\ y # age[m]
  /\ age' = [age EXCEPT ![m] = y]
  /\ UNCHANGED <<settingVars, users, roleVars, partVars, candVars, boxVars, cast, adm>>

CorrectedAge(m) == {y \in Years : /\ y > age[m] => "user_older" \in Tasks
                                  /\ y < age[m] => "user_younger" \in Tasks}

\* The membership admin sends a request.
MemberRequest(m) ==
  \/ "user_status" \in Tasks /\ \E s \in {"active", "withdrawn"} : SetUserStatus(m, s)
  \/ \E y \in CorrectedAge(m) : UpdateUser(m, y)
  \/ "delete_user" \in Tasks /\ DeleteUser(m)

\* The process stops and starts: no request survives, the database does, and
\* installDefaults overwrites no setting.
Restart ==
  /\ cast' = [q \in Request |-> NoCast]
  /\ adm' = [a \in Admin |-> NoAdm]
  /\ UNCHANGED dbVars

VotingNext ==
  \/ \E q \in Request, m \in Member : CastArrives(q, m)
  \/ \E q \in Request : CastStep(q)
  \/ \E a \in Admin : AdmRequest(a) \/ AdmStep(a)
  \/ \E m \in Member : MemberRequest(m)
  \/ Restart

VotingSpec == VotingInit /\ [][VotingNext]_votingVars

\* A goroutine with a statement to run gets to run it: the one connection always comes back
\* (module Connection), and database/sql gives it to one of those waiting at random, so that
\* being passed over for ever has probability zero.
VotingFairness ==
  /\ \A q \in Request : WF_votingVars(CastStep(q))
  /\ \A a \in Admin : WF_votingVars(AdmStep(a))

FairVotingSpec == VotingSpec /\ VotingFairness

-----------------------------------------------------------------------------
(* Properties *)

\* What the box holds for each member, read off the two tables.
Voted == {b.user : b \in ballots}
Choices == [m \in Member |->
              {[role |-> v.role, part |-> v.part] : v \in {w \in votes : w.user = m}}]

Box == INSTANCE BallotBox WITH Candidate <- PartId, voted <- Voted, choices <- Choices

\* The tables and the interleaved requests implement the ballot box: CastBallot
\* adds a whole ballot for a member with none, and no other step of any request
\* adds a vote, moves one to another member or removes part of one's ballot.
BallotBoxSpec == Box!Spec

\* A member could complete the ballot: validateVotingSetup's conditions, on the
\* tables as they are.
Completable ==
  \/ /\ votingMode = "single"
     /\ Cardinality(Participants(NoRole)) >= 2
     /\ singleSelections <= Cardinality(Participants(NoRole))
  \/ /\ votingMode = "roles" /\ roles # {}
     /\ \A r \in roles : Cardinality(Participants(r)) >= allowed[r]

\* validateVotingSetup "blocks opening a vote that members could not complete",
\* and voting does not open on candidates who may still change: the many reads
\* of the check are still true at the write. So with one admin request at a time.
OpensOnlyWhenReady ==
  [][votingStatus # "open" /\ votingStatus' = "open" => gate = "closed" /\ Completable]_votingVars

\* While voting is open, no request takes a page, a candidate or a ballot away
\* (DeleteRole, DeleteParticipant and ResetVotes refuse), but a deleted member's.
NothingLostWhileOpen ==
  [][votingStatus = "open" =>
       /\ roles \subseteq roles' /\ participants \subseteq participants'
       /\ \A b \in ballots \ ballots' : users'[b.user] = "deleted"
       /\ \A v \in votes \ votes' : users'[v.user] = "deleted"]_votingVars

\* A ballot that enters the box answers every page its request read, within the
\* page's limit, with candidates of that page: the checks are made on a snapshot
\* and the rows are written later, and the whole ballot passes or none of it.
VotesOn(b, role) == {v.part : v \in {w \in votes' : w.ballot = b.id /\ w.role = role}}
WholeBallots ==
  [][\A b \in ballots' \ ballots : \E q \in Request :
       /\ CastAt(q, "write") /\ cast[q].user = b.user
       /\ \A c \in cast[q].checks :
            /\ VotesOn(b, c.role) # {} /\ VotesOn(b, c.role) \subseteq c.valid
            /\ Cardinality(VotesOn(b, c.role)) <= c.allowed]_votingVars

\* Requests in flight when voting closes may still drop a ballot in, but only
\* they may: if voting stays closed the box stops filling, although the admins
\* go on clearing it and members go on sending ballots.
ResultsSettle ==
  <>[](votingStatus = "closed") => <>[][ballots' \subseteq ballots]_votingVars

\* What they may drop in: one ballot each, their own member's, and no request that
\* reads the status after voting has stopped is ever among them.
Underway == {q \in Request : cast[q].pc \notin {"idle", "status"}}
LateBallots ==
  [][votingStatus # "open" =>
       /\ Underway' \subseteq Underway
       /\ \A b, c \in ballots' \ ballots : b = c
       /\ \A b \in ballots' \ ballots : \E q \in Underway \ Underway' : cast[q].user = b.user]_votingVars

\* Every request has an end: whatever others have written since it read its rows, it
\* has something left to read or write, and each of its statements is one fewer to run.
StatementsLeft ==
  [pc \in CastPC \cup AdmPC |->
     CASE pc = "idle" -> 0
       [] pc \in {"write", "open", "reset", "delete_role", "delete_participant",
                  "settings_write", "gate_open"} -> 1
       [] pc \in {"candidates", "selections", "settings_mode", "gate_status"} -> 2
       [] pc \in {"roles", "single"} -> 3
       [] pc = "mode" -> 4
       [] pc \in {"voted", "gate"} -> 5
       [] pc = "member" -> 6
       [] pc = "status" -> 7]
FewerRows(k, l) == k.pc = l.pc /\ l.rows \subseteq k.rows /\ k.rows # l.rows
FewerSettings(k, l) ==
  /\ k.pc = "settings_write" /\ l.pc = k.pc
  /\ \/ k.mode # "kept" /\ l.mode = "kept" /\ l.sel = k.sel
     \/ k.sel # 0 /\ l.sel = 0 /\ l.mode = k.mode

SomethingLeft ==
  /\ \A q \in Request : CastAt(q, "candidates") => cast[q].rows # {}
  /\ \A a \in Admin : AdmAt(a, "candidates") => adm[a].rows # {}
  /\ \A a \in Admin : AdmAt(a, "settings_write") => adm[a].mode # "kept" \/ adm[a].sel # 0

RequestsGetOn ==
  /\ []SomethingLeft
  /\ [][/\ \A q \in Request : ~CastAt(q, "idle") /\ cast'[q] # cast[q] =>
             \/ StatementsLeft[cast'[q].pc] < StatementsLeft[cast[q].pc]
             \/ FewerRows(cast[q], cast'[q])
        /\ \A a \in Admin : ~AdmAt(a, "idle") /\ adm'[a] # adm[a] =>
             \/ StatementsLeft[adm'[a].pc] < StatementsLeft[adm[a].pc]
             \/ FewerRows(adm[a], adm'[a]) \/ FewerSettings(adm[a], adm'[a])]_votingVars

-----------------------------------------------------------------------------
(* What comments and messages of the code say, which its steps do not keep *)

\* CastBallot: "A membership that has been withdrawn carries no vote. Checked
\* here at the point of writing".
WithdrawnCarryNoVote ==
  [][\A b \in ballots' \ ballots : users[b.user] = "active"]_votingVars
=============================================================================
