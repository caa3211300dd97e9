------------------------------ MODULE Membership ------------------------------
(***************************************************************************)
(* Becoming a member: the public registration form, the membership admin's *)
(* decisions on applications and changes to members, and the registration  *)
(* window. Requests are goroutines that interleave between statements, as  *)
(* in Voting; desk[g] holds the locals of the one that g serves.           *)
(*                                                                         *)
(* A table is a function on its live ids, with the highest id handed out   *)
(* beside it (AUTOINCREMENT). A row keeps the two values that uniqueness   *)
(* is about. A member proves who they are with these two and a date of     *)
(* birth, which is left out; so are the answers to the rest of the form.   *)
(* An application is "withheld" when it is rejected, suspended or          *)
(* cancelled: every test in the code is for pending or for approved.       *)
(***************************************************************************)
EXTENDS Naturals, FiniteSets, Sequences

CONSTANTS
  Cpr, Phone,   \* personal numbers and phone numbers
  None,         \* no value read yet
  Seed,         \* the rows of seed/members.json
  MaxApp,       \* bound on the applications ever made
  MaxMember,    \* bound on the members ever created
  Token,        \* session tokens
  Registrant,   \* goroutines serving the public form
  Clerk,        \* goroutines serving the membership admin
  Duties        \* bound: the kinds of request an instance lets the admin send

AppId == 1..MaxApp
MemberId == 1..MaxMember
NoApp == 0
NoMember == 0

ASSUME MembershipAssumption ==
  /\ MaxApp \in Nat /\ MaxMember \in Nat
  /\ None \notin Cpr \cup Phone
  /\ Seed \in Seq([cpr : Cpr, phone : Phone]) /\ Len(Seed) <= MaxMember
  /\ \A i, j \in DOMAIN Seed : Seed[i].cpr = Seed[j].cpr => i = j
  /\ Registrant \cap Clerk = {} /\ IsFiniteSet(Registrant) /\ IsFiniteSet(Clerk)

AppStatus == {"pending", "approved", "withheld"}
MemberStatus == {"active", "suspended", "cancelled"}
Application == [cpr : Cpr, phone : Phone, status : AppStatus]
MemberRow == [cpr : Cpr, phone : Phone, app : AppId \cup {NoApp}, status : MemberStatus]
Session == [token : Token, subject : MemberId, expired : BOOLEAN]

VARIABLES
  regOpen, closeAt,     \* settings registration_open, registration_close_at
  apps, appSeq,         \* table applications
  members, memberSeq,   \* table users
  sessions,             \* table sessions
  desk

windowVars == <<regOpen, closeAt>>
appVars == <<apps, appSeq>>
memberVars == <<members, memberSeq>>
registerVars == <<windowVars, appVars, memberVars, sessions>>
membershipVars == <<registerVars, desk>>

Attendant == Registrant \cup Clerk

UniquePC == {"members_cpr", "apps_cpr", "members_phone", "apps_phone"}
DeskPC == UniquePC \cup
  {"idle", "manual", "schedule", "register_write", "approve_write", "app_status_write",
   "app_delete_write", "update_cpr", "update_phone", "update_write", "status_write",
   "status_sessions", "delete_write", "control_write"}

NoDesk == [pc |-> "idle", app |-> NoApp, member |-> NoMember, cpr |-> None, phone |-> None,
           value |-> ""]
DeskLocals ==
  [pc : DeskPC, app : AppId \cup {NoApp}, member : MemberId \cup {NoMember},
   cpr : Cpr \cup {None}, phone : Phone \cup {None},
   value : {"", "none", "ahead"} \cup AppStatus \cup MemberStatus]

\* The tables keep to their columns, and a request that looks for a number has one.
MembershipTypeOK ==
  /\ regOpen \in BOOLEAN /\ closeAt \in {"none", "ahead", "past"}
  /\ DOMAIN apps \subseteq AppId /\ \A i \in DOMAIN apps : apps[i] \in Application
  /\ DOMAIN members \subseteq MemberId /\ \A u \in DOMAIN members : members[u] \in MemberRow
  /\ appSeq \in 0..MaxApp /\ memberSeq \in 0..MaxMember
  /\ sessions \subseteq Session
  /\ desk \in [Attendant -> DeskLocals]
  /\ \A g \in Attendant : desk[g].pc \in UniquePC => desk[g].cpr # None /\ desk[g].phone # None

Imported(row) == [cpr |-> row.cpr, phone |-> row.phone, app |-> NoApp, status |-> "active"]

\* The first boot: installDefaults, then SeedMembers into an empty table.
MembershipInit ==
  /\ regOpen = TRUE /\ closeAt = "none"
  /\ apps = <<>> /\ appSeq = 0
  /\ members = [u \in 1..Len(Seed) |-> Imported(Seed[u])] /\ memberSeq = Len(Seed)
  /\ sessions = {}
  /\ desk = [g \in Attendant |-> NoDesk]

-----------------------------------------------------------------------------
AddRow(table, id, row) == [i \in DOMAIN table \cup {id} |-> IF i = id THEN row ELSE table[i]]
DropRow(table, id) == [i \in DOMAIN table \ {id} |-> table[i]]

DeskAt(g, pc) == desk[g].pc = pc
DeskGoto(g, pc) == desk' = [desk EXCEPT ![g].pc = pc]
DeskAnswer(g) == desk' = [desk EXCEPT ![g] = NoDesk]

\* Go on if the condition holds, answer with an error if it does not.
DeskCheck(g, here, there, condition) ==
  /\ DeskAt(g, here)
  /\ \/ condition /\ DeskGoto(g, there)
     \/ ~condition /\ DeskAnswer(g)
  /\ UNCHANGED registerVars

\* UPDATE applications SET status WHERE id: nothing happens if the row has gone.
SetAppStatus(i, s) ==
  apps' = [j \in DOMAIN apps |-> IF j = i THEN [apps[j] EXCEPT !.status = s] ELSE apps[j]]

\* Fault: users.id is declared without AUTOINCREMENT, and the last id is reused.
NextMemberIdReused ==
  CHOOSE u \in MemberId : u \notin DOMAIN members /\ \A v \in MemberId \ DOMAIN members : u <= v

NextMemberId == memberSeq + 1

DropSessionsOf(subject) == sessions' = {s \in sessions : s.subject # subject}

-----------------------------------------------------------------------------
(* CheckUnique, for a new application (app = NoApp) and for one about to be  *)
(* approved: four counts, each over a table as it is by then.                *)

PendingWith(column, value, except) ==
  \E i \in DOMAIN apps \ {except} : apps[i].status = "pending" /\ apps[i][column] = value
MemberWith(column, value, except) ==
  \E u \in DOMAIN members \ {except} : members[u][column] = value

UniqueReadMembersCpr(g) ==
  DeskCheck(g, "members_cpr", "apps_cpr", ~MemberWith("cpr", desk[g].cpr, NoMember))
UniqueReadAppsCpr(g) ==
  DeskCheck(g, "apps_cpr", "members_phone", ~PendingWith("cpr", desk[g].cpr, desk[g].app))
UniqueReadMembersPhone(g) ==
  DeskCheck(g, "members_phone", "apps_phone", ~MemberWith("phone", desk[g].phone, NoMember))
UniqueReadAppsPhone(g) ==
  DeskCheck(g, "apps_phone", IF desk[g].app = NoApp THEN "register_write" ELSE "approve_write",
            ~PendingWith("phone", desk[g].phone, desk[g].app))

CheckUnique(g) ==
  \/ UniqueReadMembersCpr(g) \/ UniqueReadAppsCpr(g)
  \/ UniqueReadMembersPhone(g) \/ UniqueReadAppsPhone(g)

-----------------------------------------------------------------------------
(* handleRegister and CreateApplication *)

\* The last conjunct is MaxApp's: there is an id left for every request on its way.
RegisterArrives(g, c, p) ==
  /\ DeskAt(g, "idle")
  /\ appSeq + Cardinality({h \in Registrant : ~DeskAt(h, "idle")}) < MaxApp
  /\ desk' = [desk EXCEPT ![g] = [NoDesk EXCEPT !.pc = "manual", !.cpr = c, !.phone = p]]
  /\ UNCHANGED registerVars

\* Fault: the switch is left to the page.
RegisterReadManualIgnored(g) == DeskCheck(g, "manual", "schedule", TRUE)

\* registrationOpen: the switch, then the schedule, in two statements.
RegisterReadManual(g) == DeskCheck(g, "manual", "schedule", regOpen)

RegisterReadSchedule(g) == DeskCheck(g, "schedule", "members_cpr", closeAt # "past")

RegisterWrite(g) ==
  /\ DeskAt(g, "register_write")
  /\ appSeq' = appSeq + 1
  /\ apps' = AddRow(apps, appSeq + 1, [cpr |-> desk[g].cpr, phone |-> desk[g].phone, status |-> "pending"])
  /\ DeskAnswer(g)
  /\ UNCHANGED <<windowVars, memberVars, sessions>>

RegisterStep(g) ==
  RegisterReadManual(g) \/ RegisterReadSchedule(g) \/ CheckUnique(g) \/ RegisterWrite(g)

-----------------------------------------------------------------------------
(* The membership admin and the applications *)

\* Fault: a request already decided can be approved.
ApproveStartDecided(a, i) ==
  /\ DeskAt(a, "idle") /\ i \in DOMAIN apps
  /\ memberSeq + Cardinality({b \in Clerk : desk[b].app # NoApp}) < MaxMember
  /\ desk' = [desk EXCEPT ![a] = [NoDesk EXCEPT
                !.pc = "members_cpr", !.app = i, !.cpr = apps[i].cpr, !.phone = apps[i].phone]]
  /\ UNCHANGED registerVars

\* ApproveApplication: the row, CheckUnique, then the transaction. The third
\* conjunct is MaxMember's.
ApproveStart(a, i) ==
  /\ DeskAt(a, "idle") /\ i \in DOMAIN apps
  /\ apps[i].status = "pending"
  /\ memberSeq + Cardinality({b \in Clerk : desk[b].app # NoApp}) < MaxMember
  /\ desk' = [desk EXCEPT ![a] = [NoDesk EXCEPT
                !.pc = "members_cpr", !.app = i, !.cpr = apps[i].cpr, !.phone = apps[i].phone]]
  /\ UNCHANGED registerVars

\* Fault: users.cpr is declared without UNIQUE.
UniqueCprUndeclared(c, except) == TRUE

\* UNIQUE on users.cpr, for the row about to be written.
UniqueCpr(c, except) == ~MemberWith("cpr", c, except)

ApproveWrite(a) ==
  /\ DeskAt(a, "approve_write")
  /\ UniqueCpr(desk[a].cpr, NoMember)
  /\ memberSeq' = IF NextMemberId > memberSeq THEN NextMemberId ELSE memberSeq
  /\ members' = AddRow(members, NextMemberId,
       [cpr |-> desk[a].cpr, phone |-> desk[a].phone, app |-> desk[a].app, status |-> "active"])
  /\ SetAppStatus(desk[a].app, "approved")
  /\ DeskAnswer(a)
  /\ UNCHANGED <<windowVars, appSeq, sessions>>

ApproveFails(a) ==
  /\ DeskAt(a, "approve_write")
  /\ ~UniqueCpr(desk[a].cpr, NoMember)
  /\ DeskAnswer(a)
  /\ UNCHANGED registerVars

\* RejectApplication and SetApplicationStatus: the status decides whether to go on.
AppStatusStart(a, i, s) ==
  /\ DeskAt(a, "idle") /\ i \in DOMAIN apps
  /\ apps[i].status # "approved" /\ (s = "pending" => apps[i].status = "withheld")
  /\ desk' = [desk EXCEPT ![a] = [NoDesk EXCEPT !.pc = "app_status_write", !.app = i, !.value = s]]
  /\ UNCHANGED registerVars

AppStatusWrite(a) ==
  /\ DeskAt(a, "app_status_write")
  /\ SetAppStatus(desk[a].app, desk[a].value)
  /\ DeskAnswer(a)
  /\ UNCHANGED <<windowVars, appSeq, memberVars, sessions>>

DeleteApplicationStart(a, i) ==
  /\ DeskAt(a, "idle") /\ i \in DOMAIN apps
  /\ apps[i].status # "approved"
  /\ desk' = [desk EXCEPT ![a] = [NoDesk EXCEPT !.pc = "app_delete_write", !.app = i]]
  /\ UNCHANGED registerVars

DeleteApplicationWrite(a) ==
  /\ DeskAt(a, "app_delete_write")
  /\ apps' = DropRow(apps, desk[a].app)
  /\ DeskAnswer(a)
  /\ UNCHANGED <<windowVars, appSeq, memberVars, sessions>>

-----------------------------------------------------------------------------
(* The membership admin and the members *)

\* UpdateUser: two counts, then the row, which UNIQUE may refuse.
UpdateStart(a, u, c, p) ==
  /\ DeskAt(a, "idle") /\ u \in DOMAIN members
  /\ desk' = [desk EXCEPT ![a] = [NoDesk EXCEPT
                !.pc = "update_cpr", !.member = u, !.cpr = c, !.phone = p]]
  /\ UNCHANGED registerVars

UpdateReadCpr(a) ==
  DeskCheck(a, "update_cpr", "update_phone", ~MemberWith("cpr", desk[a].cpr, desk[a].member))
\* Fault: the phone number is not looked for.
UpdateReadPhoneIgnored(a) == DeskCheck(a, "update_phone", "update_write", TRUE)

UpdateReadPhone(a) ==
  DeskCheck(a, "update_phone", "update_write", ~MemberWith("phone", desk[a].phone, desk[a].member))

UpdateWrite(a) ==
  /\ DeskAt(a, "update_write")
  /\ members' = [u \in DOMAIN members |->
       IF u = desk[a].member /\ UniqueCpr(desk[a].cpr, u)
         THEN [members[u] EXCEPT !.cpr = desk[a].cpr, !.phone = desk[a].phone] ELSE members[u]]
  /\ DeskAnswer(a)
  /\ UNCHANGED <<windowVars, appVars, memberSeq, sessions>>

ValidMemberStatus(s) == s \in MemberStatus

\* SetUserStatus: the row, its new status, and for a withdrawn member the sessions,
\* in a statement of its own.
StatusStart(a, u, s) ==
  /\ DeskAt(a, "idle") /\ u \in DOMAIN members
  /\ ValidMemberStatus(s) /\ members[u].status # s
  /\ desk' = [desk EXCEPT ![a] = [NoDesk EXCEPT !.pc = "status_write", !.member = u, !.value = s]]
  /\ UNCHANGED registerVars

StatusWrite(a) ==
  /\ DeskAt(a, "status_write")
  /\ members' = [u \in DOMAIN members |->
       IF u = desk[a].member THEN [members[u] EXCEPT !.status = desk[a].value] ELSE members[u]]
  /\ IF desk[a].value = "active" THEN DeskAnswer(a) ELSE DeskGoto(a, "status_sessions")
  /\ UNCHANGED <<windowVars, appVars, memberSeq, sessions>>

StatusSessions(a) ==
  /\ DeskAt(a, "status_sessions")
  /\ DropSessionsOf(desk[a].member)
  /\ DeskAnswer(a)
  /\ UNCHANGED <<windowVars, appVars, memberVars>>

\* DeleteUser: the row, for its application; then one transaction.
DeleteStart(a, u) ==
  /\ DeskAt(a, "idle") /\ u \in DOMAIN members
  /\ desk' = [desk EXCEPT ![a] = [NoDesk EXCEPT
                !.pc = "delete_write", !.member = u, !.app = members[u].app]]
  /\ UNCHANGED registerVars

\* Fault: the request that made the member is kept.
DeleteWriteKeepingRequest(a) ==
  /\ DeskAt(a, "delete_write")
  /\ members' = DropRow(members, desk[a].member)
  /\ DropSessionsOf(desk[a].member)
  /\ DeskAnswer(a)
  /\ UNCHANGED <<windowVars, appVars, memberSeq>>

DeleteWrite(a) ==
  /\ DeskAt(a, "delete_write")
  /\ members' = DropRow(members, desk[a].member)
  /\ apps' = DropRow(apps, desk[a].app)
  /\ DropSessionsOf(desk[a].member)
  /\ DeskAnswer(a)
  /\ UNCHANGED <<windowVars, appSeq, memberSeq>>

-----------------------------------------------------------------------------
(* The registration window and the process *)

\* handleRegistrationControl: the switch, then the schedule; or the schedule alone.
ControlStart(a, open, schedule) ==
  /\ DeskAt(a, "idle")
  /\ regOpen' = open
  /\ desk' = [desk EXCEPT ![a] = [NoDesk EXCEPT !.pc = "control_write", !.value = schedule]]
  /\ UNCHANGED <<closeAt, appVars, memberVars, sessions>>

ControlWrite(a) ==
  /\ DeskAt(a, "control_write")
  /\ closeAt' = desk[a].value
  /\ DeskAnswer(a)
  /\ UNCHANGED <<regOpen, appVars, memberVars, sessions>>

ClearSchedule(a) ==
  /\ DeskAt(a, "idle")
  /\ closeAt' = "none"
  /\ UNCHANGED <<regOpen, appVars, memberVars, sessions, desk>>

DeadlinePasses ==
  /\ closeAt = "ahead" /\ closeAt' = "past"
  /\ UNCHANGED <<regOpen, appVars, memberVars, sessions, desk>>

\* The process stops and starts: requests are lost, and SeedMembers imports the list
\* again if it finds the table empty. The guard is MaxMember's.
SeedMembers ==
  IF DOMAIN members # {} THEN UNCHANGED memberVars
  ELSE /\ memberSeq + Len(Seed) <= MaxMember
       /\ memberSeq' = memberSeq + Len(Seed)
       /\ members' = [u \in (memberSeq + 1)..(memberSeq + Len(Seed)) |-> Imported(Seed[u - memberSeq])]

DeskRestart ==
  /\ desk' = [g \in Attendant |-> NoDesk]
  /\ SeedMembers
  /\ UNCHANGED <<windowVars, appVars, sessions>>

-----------------------------------------------------------------------------
\* A request already running takes its next step.
ClerkStep(a) ==
  \/ CheckUnique(a) \/ ApproveWrite(a) \/ ApproveFails(a) \/ AppStatusWrite(a)
  \/ DeleteApplicationWrite(a) \/ UpdateReadCpr(a) \/ UpdateReadPhone(a) \/ UpdateWrite(a)
  \/ StatusWrite(a) \/ StatusSessions(a) \/ DeleteWrite(a) \/ ControlWrite(a)

\* The membership admin sends a request. A status comes as any word at all.
ClerkRequest(a) ==
  \/ "approve" \in Duties /\ \E i \in AppId : ApproveStart(a, i)
  \/ "app_status" \in Duties /\ \E i \in AppId, s \in {"pending", "withheld"} : AppStatusStart(a, i, s)
  \/ "delete_app" \in Duties /\ \E i \in AppId : DeleteApplicationStart(a, i)
  \/ "update" \in Duties /\ \E u \in MemberId, c \in Cpr, p \in Phone : UpdateStart(a, u, c, p)
  \/ "status" \in Duties /\ \E u \in MemberId, s \in MemberStatus \cup {"pending"} : StatusStart(a, u, s)
  \/ "delete" \in Duties /\ \E u \in MemberId : DeleteStart(a, u)
  \/ "window" \in Duties /\
       \/ ControlStart(a, TRUE, "none") \/ ControlStart(a, FALSE, "none")
       \/ ControlStart(a, TRUE, "ahead")
  \/ ClearSchedule(a)

DeskNext ==
  \/ \E g \in Registrant, c \in Cpr, p \in Phone : RegisterArrives(g, c, p)
  \/ \E g \in Registrant : RegisterStep(g)
  \/ \E a \in Clerk : ClerkRequest(a) \/ ClerkStep(a)
  \/ DeadlinePasses

MembershipNext == DeskNext \/ DeskRestart

MembershipSpec == MembershipInit /\ [][MembershipNext]_membershipVars

-----------------------------------------------------------------------------
(* Properties *)

\* An approved application has its member, at every moment: nothing rejects or deletes
\* an approved application, and DeleteUser takes both in one transaction. Whatever two
\* admins do at once, approving it twice and deleting its member included.
ApprovedHasMember ==
  \A i \in DOMAIN apps :
    apps[i].status = "approved" => \E u \in DOMAIN members : members[u].app = i

\* An application makes one member, however often it is approved at once: the second
\* transaction fails on the personal number. So while nobody corrects that number.
OneMemberPerApplication ==
  \A u, v \in DOMAIN members : members[u].app = members[v].app /\ members[u].app # NoApp => u = v

\* Two members share a phone number only if both were imported, "a handful of legacy
\* rows share a contact number": CheckUnique and UpdateUser look before they write, and
\* with one admin request at a time what they saw is still true.
PhoneSharedByImports ==
  \A u, v \in DOMAIN members :
    u # v /\ members[u].phone = members[v].phone => members[u].app = NoApp /\ members[v].app = NoApp

\* registrationOpen reads the switch, then the schedule, and the form is written some
\* statements later: whichever of the two shuts it, no request that reads it shut joins
\* those past it, and each of those makes one application, of its own numbers.
PastSchedule == {g \in Registrant : desk[g].pc \in UniquePC \cup {"register_write"}}
PastSwitch == PastSchedule \cup {g \in Registrant : DeskAt(g, "schedule")}
LateRegistrations ==
  [][/\ ~regOpen => PastSwitch' \subseteq PastSwitch
     /\ closeAt = "past" => PastSchedule' \subseteq PastSchedule
     /\ \A i, j \in DOMAIN apps' \ DOMAIN apps : i = j
     /\ \A i \in DOMAIN apps' \ DOMAIN apps : \E g \in PastSchedule \ PastSchedule' :
          apps'[i].cpr = desk[g].cpr /\ apps'[i].phone = desk[g].phone]_membershipVars

\* With one admin request at a time, an application is decided once and moves as the
\* Roll says: never admitted unless it waits, never back once it has gone.
Standing ==
  [i \in AppId |->
     IF \E u \in DOMAIN members : members[u].app = i THEN "member"
     ELSE IF i \in DOMAIN apps THEN (IF apps[i].status = "pending" THEN "waiting" ELSE "withheld")
     ELSE IF i <= appSeq THEN "gone" ELSE "none"]

TheRoll == INSTANCE Roll WITH Application <- AppId, standing <- Standing
RollSpec == TheRoll!Spec

=============================================================================
