------------------------------ MODULE ElectionDB ------------------------------
(***************************************************************************)
(* The rows of the SQLite database that an election is made of, and the    *)
(* statements and transactions that the store runs on them.                *)
(*                                                                         *)
(* The store opens the database with one connection                        *)
(* (db.SetMaxOpenConns(1)), so a statement, or a Begin..Commit section, is *)
(* one atomic step; whatever a handler does between two of them is not.    *)
(* Every operator below that has primed variables is therefore one such    *)
(* step, or the part of one that touches the tables it names.              *)
(*                                                                         *)
(* A table with an AUTOINCREMENT key whose ids a request may still hold is *)
(* a set of live ids, its columns (functions on all ids, reset when the    *)
(* row goes) and the highest id handed out, as in sqlite_sequence.         *)
(***************************************************************************)
EXTENDS Naturals, FiniteSets

CONSTANTS
  Member,     \* users.id: the approved members
  NoMember,   \* participants.candidacy_id = 0: the admin typed the entry in
  MaxRole,    \* bound on the roles ever created
  MaxPart,    \* bound on the participants ever created
  MaxPicks,   \* bound on selections_allowed and single_selections
  BallotId,   \* ballots.id
  Years       \* the ages members have and roles ask for, in whole years

DefaultMinCandidateAge == 21

\* Every minimum is what normalizeRole lets through.
ASSUME DBAssumption ==
  /\ NoMember \notin Member
  /\ MaxRole \in Nat /\ MaxPart \in Nat /\ MaxPicks \in Nat \ {0}
  /\ Years \subseteq 1..120 /\ DefaultMinCandidateAge \in Years

RoleId == 1..MaxRole
PartId == 1..MaxPart
NoRole == 0                  \* participants.role_id IS NULL: the single page
Section == RoleId \cup {NoRole}

UserStatus == {"active", "withdrawn", "deleted"}  \* withdrawn: suspended or cancelled
CandidacyStatus == {"none", "submitted", "accepted", "returned"}

Ballot == [id : BallotId, user : Member]
Vote == [ballot : BallotId, user : Member, role : Section, part : PartId]
RoleRow == [role : RoleId, allowed : 1..MaxPicks]

VARIABLES
  votingStatus, gate, votingMode, singleSelections,  \* table settings
  users, age,                                        \* users.status; CandidateAge(users.dob)
  roles, roleSeq, allowed, minAge,                   \* table roles
  participants, partSeq, partRole, partCand,         \* table participants
  candStatus, candRole,                              \* table candidacies
  ballots, votes                                     \* the ballot box

settingVars == <<votingStatus, gate, votingMode, singleSelections>>
userVars == <<users, age>>
roleVars == <<roles, roleSeq, allowed, minAge>>
partVars == <<participants, partSeq, partRole, partCand>>
candVars == <<candStatus, candRole>>
boxVars == <<ballots, votes>>
dbVars == <<settingVars, userVars, roleVars, partVars, candVars, boxVars>>

DBTypeOK ==
  /\ votingStatus \in {"draft", "open", "closed"}
  /\ gate \in {"open", "closed"}
  /\ votingMode \in {"roles", "single"}
  /\ singleSelections \in 1..MaxPicks
  /\ users \in [Member -> UserStatus]
  /\ age \in [Member -> Years]
  /\ roles \subseteq RoleId /\ roleSeq \in 0..MaxRole
  /\ allowed \in [RoleId -> 1..MaxPicks]
  /\ minAge \in [RoleId -> Years]
  /\ participants \subseteq PartId /\ partSeq \in 0..MaxPart
  /\ partRole \in [PartId -> Section]
  /\ partCand \in [PartId -> Member \cup {NoMember}]
  /\ candStatus \in [Member -> CandidacyStatus]
  /\ candRole \in [Member -> Section]
  /\ ballots \subseteq Ballot
  /\ votes \subseteq Vote

\* A database just created: the schema, then installDefaults, then members of any age.
DBInit ==
  /\ votingStatus = "draft" /\ gate = "closed"
  /\ votingMode = "roles" /\ singleSelections = 1
  /\ users = [m \in Member |-> "active"] /\ age \in [Member -> Years]
  /\ roles = {} /\ roleSeq = 0 /\ allowed = [r \in RoleId |-> 1]
  /\ minAge = [r \in RoleId |-> DefaultMinCandidateAge]
  /\ participants = {} /\ partSeq = 0
  /\ partRole = [p \in PartId |-> NoRole]
  /\ partCand = [p \in PartId |-> NoMember]
  /\ candStatus = [m \in Member |-> "none"]
  /\ candRole = [m \in Member |-> NoRole]
  /\ ballots = {} /\ votes = {}

-----------------------------------------------------------------------------
(* Queries *)

\* HasVoted: SELECT COUNT(*) FROM ballots WHERE user_id = m.
HasVoted(m) == \E b \in ballots : b.user = m

\* Roles: the rows of the table, each with the column a ballot depends on.
Roles == {[role |-> r, allowed |-> allowed[r]] : r \in roles}

\* Participants: the candidates of one page; page 0 is role_id IS NULL.
Participants(r) == {p \in participants : partRole[p] = r}

\* EligibleForRole on the rows as they are now.
OfAge(m, r) == age[m] >= minAge[r]

-----------------------------------------------------------------------------
(* Statements *)

\* Fault: the pragma foreign_keys is off, and nothing cascades.
DeleteParticipantRowsUncascaded(P) ==
  /\ participants' = participants \ P
  /\ partRole' = [p \in PartId |-> IF p \in P THEN NoRole ELSE partRole[p]]
  /\ partCand' = [p \in PartId |-> IF p \in P THEN NoMember ELSE partCand[p]]
  /\ UNCHANGED <<partSeq, votes>>

\* DELETE FROM participants, and votes by ON DELETE CASCADE.
DeleteParticipantRows(P) ==
  /\ participants' = participants \ P
  /\ partRole' = [p \in PartId |-> IF p \in P THEN NoRole ELSE partRole[p]]
  /\ partCand' = [p \in PartId |-> IF p \in P THEN NoMember ELSE partCand[p]]
  /\ votes' = {v \in votes : v.part \notin P}
  /\ UNCHANGED partSeq

\* INSERT INTO participants; the foreign key on role_id refuses a missing role.
InsertParticipantRow(r, c) ==
  /\ r \in roles \cup {NoRole}
  /\ partSeq < MaxPart
  /\ partSeq' = partSeq + 1
  /\ participants' = participants \cup {partSeq + 1}
  /\ partRole' = [partRole EXCEPT ![partSeq + 1] = r]
  /\ partCand' = [partCand EXCEPT ![partSeq + 1] = c]

\* UPDATE participants SET role_id; the same foreign key.
MoveParticipantRows(P, r) ==
  /\ P = {} \/ r \in roles \cup {NoRole}
  /\ partRole' = [p \in PartId |-> IF p \in P THEN r ELSE partRole[p]]
  /\ UNCHANGED <<participants, partSeq, partCand>>

\* DeleteUser's transaction. candidacies go by ON DELETE CASCADE; participants
\* has no foreign key to candidacies, so a ballot entry is not touched.
DeleteUserRows(m) ==
  /\ users' = [users EXCEPT ![m] = "deleted"]
  /\ ballots' = {b \in ballots : b.user # m}
  /\ votes' = {v \in votes : v.user # m}
  /\ candStatus' = [candStatus EXCEPT ![m] = "none"]
  /\ candRole' = [candRole EXCEPT ![m] = NoRole]
  /\ UNCHANGED age

-----------------------------------------------------------------------------
(* The constraints and the inserts of a ballot's transaction. The picks of a *)
(* ballot are a function sel from pages to lists of participants.            *)

\* Fault: the column is declared without UNIQUE.
UniqueBallotUndeclared(m) == TRUE

\* UNIQUE on ballots.user_id.
UniqueBallot(m) == ~HasVoted(m)

\* UNIQUE (user_id, participant_id) on votes, for the rows about to be added.
UniqueVotes(m, sel) ==
  /\ \A s, t \in DOMAIN sel : \A i \in DOMAIN sel[s], j \in DOMAIN sel[t] :
       sel[s][i] = sel[t][j] => s = t /\ i = j
  /\ \A v \in votes : v.user = m =>
       \A s \in DOMAIN sel : \A i \in DOMAIN sel[s] : sel[s][i] # v.part

\* ballots.user_id REFERENCES users, votes.participant_id REFERENCES participants.
ForeignKeys(m, sel) ==
  /\ users[m] # "deleted"
  /\ \A s \in DOMAIN sel : \A i \in DOMAIN sel[s] : sel[s][i] \in participants

NewVotes(b, m, sel) ==
  UNION {{[ballot |-> b, user |-> m, role |-> s, part |-> sel[s][i]] :
            i \in DOMAIN sel[s]} : s \in DOMAIN sel}

FreeBallotIds == BallotId \ {b.id : b \in ballots}

\* The transaction of CastBallot when no constraint fails.
InsertBallotRows(m, sel) ==
  LET id == CHOOSE i \in FreeBallotIds : TRUE IN
  /\ FreeBallotIds # {}
  /\ UniqueBallot(m) /\ UniqueVotes(m, sel) /\ ForeignKeys(m, sel)
  /\ ballots' = ballots \cup {[id |-> id, user |-> m]}
  /\ votes' = votes \cup NewVotes(id, m, sel)

-----------------------------------------------------------------------------
(* What the constraints of the schema are there to keep true *)

\* Nobody holds two ballots, whatever requests race (elections.go: "A member
\* may submit exactly once; the unique constraint on ballots.user_id is the
\* backstop if two requests race").
OneBallotPerMember ==
  \A b, c \in ballots : b.user = c.user => b = c

\* Every vote lies on a ballot of the member it is counted for, names a
\* candidate who is still on the ballot, and is that ballot's only vote for
\* the candidate, so that a tally is a number of members.
VotesOnOwnBallot ==
  \A v \in votes :
    /\ [id |-> v.ballot, user |-> v.user] \in ballots
    /\ v.part \in participants
OneVotePerCandidate ==
  \A v, w \in votes : v.user = w.user /\ v.part = w.part => v = w

\* A ballot belongs to a member who exists, and a candidate stands for a role
\* that exists or for the single page: no row outlives what it refers to.
NoDanglingRows ==
  /\ \A b \in ballots : users[b.user] # "deleted"
  /\ \A p \in participants : partRole[p] \in roles \cup {NoRole}

\* What the results are counted from can be trusted, whatever the requests had read.
BallotBoxSound ==
  OneBallotPerMember /\ VotesOnOwnBallot /\ OneVotePerCandidate /\ NoDanglingRows

=============================================================================
