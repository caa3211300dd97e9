---------------------------- MODULE SessionsProofs ----------------------------
(***************************************************************************)
(* Signing in beside the register: types, one session a token, and no      *)
(* session or login that a new member could inherit, for any browsers,     *)
(* tokens and goroutines; that the register keeps its promises with the door*)
(* beside it; and that the withdrawn sign in no more.                      *)
(***************************************************************************)
EXTENDS Sessions, MembershipProofs

VisitLocals ==
  [pc : {"idle", "find", "session", "lookup", "drop_expired", "user", "drop_orphan"},
   cpr : Cpr \cup {None}, phone : Phone \cup {None},
   member : MemberId \cup {NoMember}, token : Token \cup {None}]

\* Whoever a session or a request names has had an id before: it is not handed out again.
VisitKept(l) == l.member <= memberSeq /\ (l.pc = "session" => l.member # NoMember)

TokensKept ==
  /\ \A s, t \in sessions : s.token = t.token => s = t
  /\ \A s \in sessions : s.subject <= memberSeq

SessionsInv ==
  /\ RegisterInv
  /\ visit \in [Browser -> VisitLocals] /\ cookie \in [Browser -> Token \cup {None}]
  /\ \A b \in Browser : VisitKept(visit[b])
  /\ TokensKept

-----------------------------------------------------------------------------
(* Steps of the register *)

\* The membership admin ends sessions and begins none.
LEMMA RegisterEndsSessions ==
  ASSUME [MembershipNext]_membershipVars
  PROVE  sessions' \subseteq sessions
<1>0. UNCHANGED registerVars => sessions' = sessions
  BY DEF registerVars
<1>1. ASSUME NEW g, NEW here, NEW there, NEW condition, DeskCheck(g, here, there, condition)
      PROVE  sessions' = sessions
  BY <1>1, <1>0, Zenon DEF DeskCheck
<1>2. ASSUME NEW g, CheckUnique(g)
      PROVE  sessions' = sessions
  BY <1>1, <1>2, Zenon DEF CheckUnique, UniqueReadMembersCpr, UniqueReadAppsCpr, UniqueReadMembersPhone,
                    UniqueReadAppsPhone
<1>3. ASSUME NEW g \in Registrant, RegisterStep(g)
      PROVE  sessions' = sessions
  BY <1>1, <1>2, <1>3, Zenon DEF RegisterStep, RegisterReadManual, RegisterReadSchedule, RegisterWrite
<1>4. ASSUME NEW a \in Clerk, ClerkRequest(a)
      PROVE  sessions' = sessions
  BY <1>0, <1>4 DEF ClerkRequest, ApproveStart, AppStatusStart, DeleteApplicationStart, UpdateStart,
                    StatusStart, DeleteStart, ControlStart, ClearSchedule
<1>5. ASSUME NEW a \in Clerk, ClerkStep(a), ~StatusSessions(a), ~DeleteWrite(a)
      PROVE  sessions' = sessions
  <2>1. CASE CheckUnique(a)
    BY <1>2, <2>1
  <2>2. CASE ApproveFails(a) \/ UpdateReadCpr(a) \/ UpdateReadPhone(a)
    BY <1>0, <1>1, <2>2, Zenon DEF ApproveFails, UpdateReadCpr, UpdateReadPhone
  <2>3. CASE ApproveWrite(a) \/ AppStatusWrite(a) \/ DeleteApplicationWrite(a) \/ UpdateWrite(a)
             \/ StatusWrite(a) \/ ControlWrite(a)
    BY <2>3 DEF ApproveWrite, AppStatusWrite, DeleteApplicationWrite, UpdateWrite, StatusWrite, ControlWrite
  <2> QED
    BY <1>5, <2>1, <2>2, <2>3 DEF ClerkStep
<1>6. ASSUME NEW a \in Clerk, StatusSessions(a) \/ DeleteWrite(a)
      PROVE  sessions' \subseteq sessions
  BY <1>6 DEF StatusSessions, DeleteWrite, DropSessionsOf
<1>7. CASE (\E g \in Registrant, c \in Cpr, p \in Phone : RegisterArrives(g, c, p)) \/ DeadlinePasses
           \/ DeskRestart \/ UNCHANGED membershipVars
  BY <1>0, <1>7 DEF RegisterArrives, DeadlinePasses, DeskRestart, membershipVars
<1> QED
  BY <1>3, <1>4, <1>5, <1>6, <1>7 DEF MembershipNext, DeskNext

-----------------------------------------------------------------------------
(* Steps at the door *)

\* What a step of a browser, the clock or the purge leaves of the register.
LEMMA DoorLeavesRegister ==
  ASSUME RegisterInv, UNCHANGED <<windowVars, appVars, memberVars, desk>>, sessions' \subseteq Session
  PROVE  RegisterInv' /\ memberSeq' = memberSeq
<1>1. UNCHANGED <<regOpen, closeAt, apps, appSeq, members, memberSeq, desk>>
  BY DEF windowVars, appVars, memberVars
<1>2. DesksTyped' /\ UNCHANGED <<Approvers, Registrants>>
  BY <1>1 DEF RegisterInv, DesksTyped, Approvers, Registrants
<1> QED
  BY <1>1, <1>2 DEF RegisterInv, RowsTyped, IdsKept

\* A browser's request goes on with locals l, and sessions may have ended.
LEMMA VisitGoesOn ==
  ASSUME SessionsInv, UNCHANGED <<windowVars, appVars, memberVars, desk>>, sessions' \subseteq sessions,
         NEW b \in Browser, NEW l \in VisitLocals, VisitKept(l), visit' = [visit EXCEPT ![b] = l],
         cookie' \in [Browser -> Token \cup {None}]
  PROVE  SessionsInv'
<1>1. RegisterInv' /\ memberSeq' = memberSeq
  BY DoorLeavesRegister DEF SessionsInv, RegisterInv, RowsTyped
<1>2. visit' \in [Browser -> VisitLocals] /\ \A c \in Browser : VisitKept(visit'[c])
  BY DEF SessionsInv
<1>3. \A c \in Browser : VisitKept(visit[c])'
  BY <1>1, <1>2 DEF VisitKept
<1> QED
  BY <1>1, <1>2, <1>3 DEF SessionsInv, TokensKept

LEMMA NoVisitKept == ASSUME RegisterInv PROVE NoVisit \in VisitLocals /\ VisitKept(NoVisit)
  BY DEF NoVisit, VisitLocals, VisitKept, NoMember, RegisterInv, IdsKept

\* An id in the table is one handed out.
LEMMA MembersHaveIds ==
  ASSUME RegisterInv
  PROVE  /\ memberSeq \in Nat /\ memberSeq <= MaxMember
         /\ \A u \in DOMAIN members : u \in MemberId /\ u <= memberSeq /\ u # NoMember
<1>1. memberSeq \in Nat /\ memberSeq <= MaxMember
  BY FiniteDesks, MembershipAssumption DEF RegisterInv, IdsKept
<1> QED
  BY <1>1, MembershipAssumption DEF RegisterInv, IdsKept, MemberId, NoMember

LEMMA LoginKeeps ==
  ASSUME SessionsInv, NEW b \in Browser,
         \/ \E c \in Cpr, p \in Phone : LoginArrives(b, c, p)
         \/ LoginFind(b) \/ LoginCreate(b) \/ Logout(b)
  PROVE  SessionsInv'
<1>0. /\ RegisterInv /\ visit \in [Browser -> VisitLocals] /\ visit[b] \in VisitLocals /\ VisitKept(visit[b])
      /\ cookie \in [Browser -> Token \cup {None}] /\ memberSeq \in Nat
  BY MembersHaveIds DEF SessionsInv
<1>1. ASSUME NEW c \in Cpr, NEW p \in Phone, LoginArrives(b, c, p)
      PROVE  SessionsInv'
  <2> DEFINE l == [NoVisit EXCEPT !.pc = "find", !.cpr = c, !.phone = p]
  <2>1. l \in VisitLocals /\ VisitKept(l)
    <3>1. l \in VisitLocals
      BY DEF NoVisit, VisitLocals
    <3>2. l.pc = "find" /\ l.member = NoMember
      BY DEF NoVisit
    <3> QED
      BY <1>0, <3>1, <3>2 DEF VisitKept, NoMember
  <2>2. visit' = [visit EXCEPT ![b] = l] /\ UNCHANGED <<windowVars, appVars, memberVars, desk, sessions, cookie>>
    BY <1>1 DEF LoginArrives, registerVars
  <2> HIDE DEF l
  <2> QED
    BY <1>0, <2>1, <2>2, VisitGoesOn
<1>2. CASE LoginFind(b)
  <2>1. UNCHANGED <<windowVars, appVars, memberVars, desk, sessions, cookie>>
    BY <1>2 DEF LoginFind, registerVars
  <2>2. CASE Answer(b)
    BY <1>0, <2>1, <2>2, NoVisitKept, VisitGoesOn DEF Answer
  <2>3. ASSUME NEW u \in DOMAIN members, visit' = [visit EXCEPT ![b] = [NoVisit EXCEPT !.pc = "session", !.member = u]]
        PROVE  SessionsInv'
    <3> DEFINE l == [NoVisit EXCEPT !.pc = "session", !.member = u]
    <3>1. l \in VisitLocals /\ VisitKept(l)
      BY <1>0, MembersHaveIds DEF NoVisit, VisitLocals, VisitKept
    <3> HIDE DEF l
    <3>2. visit' = [visit EXCEPT ![b] = l]
      BY <2>3 DEF l
    <3> QED
      BY <1>0, <2>1, <3>1, <3>2, VisitGoesOn
  <2> QED
    BY <1>2, <2>2, <2>3 DEF LoginFind
<1>3. CASE LoginCreate(b)
  <2>1. PICK t \in Token :
          /\ NewToken(t)
          /\ sessions' = sessions \cup {[token |-> t, subject |-> visit[b].member, expired |-> FALSE]}
          /\ cookie' = [cookie EXCEPT ![b] = t]
    BY <1>3 DEF LoginCreate
  <2>2. /\ visit[b].pc = "session" /\ visit' = [visit EXCEPT ![b] = NoVisit]
        /\ UNCHANGED <<windowVars, appVars, memberVars, desk>>
    BY <1>3 DEF LoginCreate, At, Answer
  <2>3. visit[b].member \in MemberId /\ visit[b].member <= memberSeq
    BY <1>0, <2>2 DEF VisitLocals, VisitKept
  <2> DEFINE made == [token |-> t, subject |-> visit[b].member, expired |-> FALSE]
  <2>4. made \in Session /\ made.token = t /\ made.subject <= memberSeq
    BY <2>3 DEF Session
  <2>5. sessions' = sessions \cup {made}
    BY <2>1
  <2> HIDE DEF made
  <2>6. sessions' \subseteq Session
    BY <1>0, <2>4, <2>5 DEF RegisterInv, RowsTyped
  <2>7. RegisterInv' /\ memberSeq' = memberSeq
    BY <1>0, <2>2, <2>6, DoorLeavesRegister
  <2>8. \A s \in sessions : s.token # t
    BY <2>1 DEF NewToken, SessionOf
  <2>9. TokensKept'
    BY <2>4, <2>5, <2>7, <2>8 DEF SessionsInv, TokensKept
  <2>10. visit' \in [Browser -> VisitLocals] /\ \A c \in Browser : VisitKept(visit[c])'
    BY <1>0, <2>2, <2>7, NoVisitKept DEF SessionsInv, VisitKept
  <2>11. cookie' \in [Browser -> Token \cup {None}]
    BY <1>0, <2>1
  <2> QED
    BY <2>7, <2>9, <2>10, <2>11 DEF SessionsInv
<1>4. CASE Logout(b)
  <2>1. /\ UNCHANGED <<windowVars, appVars, memberVars, desk, visit>> /\ sessions' \subseteq sessions
        /\ cookie' = [cookie EXCEPT ![b] = None]
    BY <1>4 DEF Logout, DeleteSession
  <2>2. visit' = [visit EXCEPT ![b] = visit[b]]
    BY <1>0, <2>1
  <2> QED
    BY <1>0, <2>1, <2>2, VisitGoesOn
<1> QED
  BY <1>1, <1>2, <1>3, <1>4

LEMMA RequestKeeps ==
  ASSUME SessionsInv, NEW b \in Browser,
         \/ RequestArrives(b) \/ RequestLookup(b) \/ RequestDropExpired(b)
         \/ RequestReadUser(b) \/ RequestDropOrphan(b)
  PROVE  SessionsInv'
<1>0. /\ RegisterInv /\ visit \in [Browser -> VisitLocals] /\ visit[b] \in VisitLocals /\ VisitKept(visit[b])
      /\ cookie \in [Browser -> Token \cup {None}] /\ cookie[b] \in Token \cup {None}
      /\ memberSeq \in Nat /\ sessions \subseteq Session
  BY MembersHaveIds DEF SessionsInv, RegisterInv, RowsTyped
<1>1. ASSUME Answer(b), UNCHANGED <<windowVars, appVars, memberVars, desk>>, sessions' \subseteq sessions,
             cookie' \in [Browser -> Token \cup {None}]
      PROVE  SessionsInv'
  BY <1>0, <1>1, NoVisitKept, VisitGoesOn DEF Answer
<1>2. ASSUME NEW l \in VisitLocals, VisitKept(l), visit' = [visit EXCEPT ![b] = l],
             UNCHANGED <<registerVars, desk, cookie>>
      PROVE  SessionsInv'
  BY <1>0, <1>2, VisitGoesOn DEF registerVars
<1>3. CASE RequestArrives(b)
  <2> DEFINE l == [NoVisit EXCEPT !.pc = "lookup", !.token = cookie[b]]
  <2>1. l \in VisitLocals /\ VisitKept(l)
    <3>1. l \in VisitLocals
      BY <1>0 DEF NoVisit, VisitLocals
    <3>2. l.pc = "lookup" /\ l.member = NoMember
      BY DEF NoVisit
    <3> QED
      BY <1>0, <3>1, <3>2 DEF VisitKept, NoMember
  <2> HIDE DEF l
  <2>2. visit' = [visit EXCEPT ![b] = l]
    BY <1>3 DEF RequestArrives, l
  <2> QED
    BY <1>2, <1>3, <2>1, <2>2 DEF RequestArrives
<1>4. CASE RequestLookup(b)
  <2>1. ASSUME NEW s \in sessions, NEW pc \in {"drop_expired", "user"},
               visit' = [visit EXCEPT ![b].pc = pc, ![b].member = s.subject]
        PROVE  SessionsInv'
    <3> DEFINE l == [visit[b] EXCEPT !.pc = pc, !.member = s.subject]
    <3>1. l \in VisitLocals /\ VisitKept(l)
      BY <1>0 DEF SessionsInv, TokensKept, VisitLocals, VisitKept, Session
    <3>2. visit' = [visit EXCEPT ![b] = l]
      BY <1>0, <2>1
    <3> HIDE DEF l
    <3> QED
      BY <1>2, <1>4, <3>1, <3>2 DEF RequestLookup
  <2>2. CASE Answer(b)
    BY <1>0, <1>1, <1>4, <2>2 DEF RequestLookup, registerVars
  <2> QED
    BY <1>4, <2>1, <2>2 DEF RequestLookup, SessionOf
<1>5. CASE RequestDropExpired(b) \/ RequestDropOrphan(b)
  BY <1>0, <1>1, <1>5 DEF RequestDropExpired, RequestDropOrphan, DeleteSession
<1>6. CASE RequestReadUser(b)
  <2> DEFINE l == [visit[b] EXCEPT !.pc = "drop_orphan"]
  <2>1. l \in VisitLocals /\ VisitKept(l)
    BY <1>0 DEF VisitLocals, VisitKept
  <2>2. CASE Answer(b)
    BY <1>0, <1>1, <1>6, <2>2 DEF RequestReadUser, registerVars
  <2>3. CASE visit' = [visit EXCEPT ![b] = l]
    <3> HIDE DEF l
    <3> QED
      BY <1>2, <1>6, <2>1, <2>3 DEF RequestReadUser
  <2> QED
    BY <1>0, <1>6, <2>2, <2>3 DEF RequestReadUser
<1> QED
  BY <1>3, <1>4, <1>5, <1>6

\* Sessions run out and are purged.
LEMMA ClockKeeps ==
  ASSUME SessionsInv, (\E t \in Token : Expire(t)) \/ PurgeExpiredSessions
  PROVE  SessionsInv'
<1> DEFINE Aged == /\ sessions' \subseteq Session
                   /\ \A s \in sessions' : \E r \in sessions : s.token = r.token /\ s.subject = r.subject
                   /\ \A s, t \in sessions' : s.token = t.token => s = t
<1>0. RegisterInv /\ sessions \subseteq Session
  BY DEF SessionsInv, RegisterInv, RowsTyped
<1>1. UNCHANGED <<windowVars, appVars, memberVars, desk, visit, cookie>>
  BY DEF Expire, PurgeExpiredSessions
<1>2. Aged
  <2>1. CASE PurgeExpiredSessions
    BY <1>0, <2>1 DEF PurgeExpiredSessions, SessionsInv, TokensKept
  <2>2. ASSUME NEW t \in Token, Expire(t) PROVE Aged
    <3>1. PICK s \in sessions : sessions' = (sessions \ {s}) \cup {[s EXCEPT !.expired = TRUE]}
      BY <2>2 DEF Expire, SessionOf
    <3> DEFINE r == [s EXCEPT !.expired = TRUE]
    <3>2. r \in Session /\ r.token = s.token /\ r.subject = s.subject
      BY <1>0, <3>1 DEF Session
    <3> HIDE DEF r
    <3>3. sessions' = (sessions \ {s}) \cup {r}
      BY <3>1 DEF r
    <3> QED
      BY <1>0, <3>2, <3>3 DEF SessionsInv, TokensKept
  <2> QED
    BY <2>1, <2>2
<1>3. RegisterInv' /\ memberSeq' = memberSeq
  BY <1>0, <1>1, <1>2, DoorLeavesRegister
<1>4. TokensKept'
  BY <1>2, <1>3 DEF SessionsInv, TokensKept
<1> QED
  BY <1>1, <1>3, <1>4 DEF SessionsInv, VisitKept

-----------------------------------------------------------------------------
(* Theorems *)

\* Steps of the register, with the browsers waiting or their requests lost.
LEMMA RegisterKeeps ==
  ASSUME SessionsInv, [MembershipNext]_membershipVars, cookie' = cookie,
         UNCHANGED visit \/ visit' = [b \in Browser |-> NoVisit]
  PROVE  SessionsInv'
<1>1. RegisterInv'
  BY RegisterInvStep DEF SessionsInv
<1>2. memberSeq \in Nat /\ memberSeq' \in Nat /\ memberSeq <= memberSeq' /\ sessions' \subseteq sessions
  BY MembersKept, RegisterEndsSessions DEF SessionsInv
<1>3. sessions \subseteq Session /\ MemberId \subseteq Nat
  BY MembershipAssumption DEF SessionsInv, RegisterInv, RowsTyped, MemberId
<1>4. TokensKept'
  <2>1. \A s \in sessions : s.subject \in Nat
    BY <1>3 DEF Session
  <2> QED
    BY <1>2, <2>1 DEF SessionsInv, TokensKept
<1>5. visit' \in [Browser -> VisitLocals] /\ \A b \in Browser : VisitKept(visit[b])'
  <2>1. CASE UNCHANGED visit
    <3>1. \A b \in Browser : visit[b].member \in Nat
      <4> SUFFICES ASSUME NEW b \in Browser PROVE visit[b].member \in Nat
        OBVIOUS
      <4>1. visit[b] \in VisitLocals
        BY DEF SessionsInv
      <4> QED
        BY <1>3, <4>1 DEF VisitLocals, NoMember
    <3> QED
      BY <1>2, <2>1, <3>1 DEF SessionsInv, VisitKept
  <2>2. CASE visit' = [b \in Browser |-> NoVisit]
    BY <1>2, <2>2, NoVisitKept DEF SessionsInv, VisitKept, NoVisit, NoMember
  <2> QED
    BY <2>1, <2>2
<1> QED
  BY <1>1, <1>4, <1>5 DEF SessionsInv

LEMMA SessionsInvStep ==
  ASSUME SessionsInv, [SessionsNext]_sessionVars
  PROVE  SessionsInv'
<1>1. CASE (DeskNext /\ UNCHANGED <<visit, cookie>>) \/ SessionsRestart
  BY <1>1, RegisterKeeps DEF MembershipNext, SessionsRestart
<1>2. CASE UNCHANGED sessionVars
  BY <1>2, RegisterKeeps DEF sessionVars, membershipVars
<1> QED
  BY <1>1, <1>2, LoginKeeps, RequestKeeps, ClockKeeps DEF SessionsNext, VisitStep

LEMMA SessionsInvariant == SessionsSpec => []SessionsInv
<1>1. SessionsInit => SessionsInv
  <2> SUFFICES ASSUME SessionsInit PROVE SessionsInv
    OBVIOUS
  <2>1. RegisterInv /\ sessions = {}
    BY RegisterInvInit DEF SessionsInit, MembershipInit
  <2> QED
    BY <2>1, NoVisitKept DEF SessionsInit, SessionsInv, TokensKept
<1>2. SessionsInv /\ [SessionsNext]_sessionVars => SessionsInv'
  BY SessionsInvStep
<1> QED
  BY <1>1, <1>2, PTL DEF SessionsSpec

\* Rows, locals and cookies keep their types, and a token belongs to one session.
THEOREM SessionsTyped == SessionsSpec => []SessionsTypeOK
<1>1. SessionsInv => SessionsTypeOK
  BY RegisterTypes DEF SessionsInv, TokensKept, VisitLocals, SessionsTypeOK
<1> QED
  BY <1>1, SessionsInvariant, PTL

\* Nobody is signed in as a member who has just been created (ApproveApplication and
\* SeedMembers hand out ids never used before): sessions and requests name older ones.
THEOREM NewMembersAreFresh == SessionsSpec => FreshMember
<1> DEFINE FreshStep ==
      \A u \in DOMAIN members' \ DOMAIN members :
        /\ \A s \in sessions' : s.subject # u
        /\ \A b \in Browser : visit'[b].member # u
<1>1. ASSUME SessionsInv, [SessionsNext]_sessionVars
      PROVE  [FreshStep]_sessionVars
  <2>1. CASE (DeskNext /\ UNCHANGED <<visit, cookie>>) \/ SessionsRestart
    <3>1. [MembershipNext]_membershipVars
      BY <2>1 DEF MembershipNext, SessionsRestart
    <3>2. sessions' \subseteq sessions /\ \A u \in DOMAIN members' \ DOMAIN members : ~(u <= memberSeq)
      BY <1>1, <3>1, MembersKept, RegisterEndsSessions DEF SessionsInv
    <3>3. \A u \in DOMAIN members' : u # NoMember
      BY <1>1, <3>1, RegisterInvStep DEF SessionsInv, RegisterInv, IdsKept, NoMember
    <3>4. \A b \in Browser : visit'[b].member = NoMember \/ visit'[b].member <= memberSeq
      BY <1>1, <2>1 DEF SessionsRestart, NoVisit, SessionsInv, VisitKept
    <3> QED
      BY <1>1, <3>2, <3>3, <3>4 DEF SessionsInv, TokensKept
  <2>2. CASE UNCHANGED members
    BY <2>2
  <2>3. CASE ~((DeskNext /\ UNCHANGED <<visit, cookie>>) \/ SessionsRestart) /\ SessionsNext
    <3>1. UNCHANGED members
      BY <2>3 DEF SessionsNext, VisitStep, LoginArrives, RequestArrives, Logout, LoginFind, LoginCreate,
                  RequestLookup, RequestDropExpired, RequestReadUser, RequestDropOrphan, Expire,
                  PurgeExpiredSessions, registerVars, memberVars
    <3> QED
      BY <3>1
  <2> QED
    BY <1>1, <2>1, <2>2, <2>3 DEF sessionVars
<1> QED
  BY <1>1, SessionsInvariant, PTL DEF SessionsSpec, FreshMember

-----------------------------------------------------------------------------
(* What Membership says of the register alone holds with the members at the door: *)
(* they and the clock touch nothing of it but its sessions, and none of its       *)
(* requests looks at those.                                                       *)

DoorStep == UNCHANGED <<regOpen, closeAt, apps, appSeq, members, memberSeq, desk>>

LEMMA RegisterOrDoor ==
  ASSUME [SessionsNext]_sessionVars
  PROVE  [MembershipNext]_membershipVars \/ DoorStep
<1>1. CASE DeskNext \/ SessionsRestart
  BY <1>1 DEF MembershipNext, SessionsRestart
<1>2. ASSUME UNCHANGED <<windowVars, appVars, memberVars, desk>> \/ UNCHANGED <<registerVars, desk>>
      PROVE  DoorStep
  BY <1>2 DEF DoorStep, registerVars, windowVars, appVars, memberVars
<1>3. CASE \E b \in Browser : RequestArrives(b) \/ Logout(b) \/ VisitStep(b)
  BY <1>2, <1>3 DEF RequestArrives, Logout, VisitStep, LoginFind, LoginCreate, RequestLookup,
                    RequestDropExpired, RequestReadUser, RequestDropOrphan
<1>4. CASE (\E b \in Browser, c \in Cpr, p \in Phone : LoginArrives(b, c, p))
           \/ (\E t \in Token : Expire(t)) \/ PurgeExpiredSessions
  BY <1>2, <1>4 DEF LoginArrives, Expire, PurgeExpiredSessions
<1>5. CASE UNCHANGED sessionVars
  BY <1>2, <1>5 DEF sessionVars
<1> QED
  BY <1>1, <1>3, <1>4, <1>5 DEF SessionsNext

\* ApprovedAlwaysHasMember, with the members at the door: signing in, expiry and the
\* sessions that DeleteUser and SetUserStatus end change nothing of it.
THEOREM ApprovedHasMemberAtTheDoor == SessionsSpec => []ApprovedHasMember
<1>1. SessionsInit => DecisionInv
  BY DecisionStart DEF SessionsInit
<1>2. ASSUME SessionsInv, DecisionInv, [SessionsNext]_sessionVars
      PROVE  DecisionInv'
  <2>1. CASE [MembershipNext]_membershipVars
    BY <1>2, <2>1, DecisionStep DEF SessionsInv
  <2>2. CASE DoorStep
    BY <1>2, <2>2 DEF DoorStep, DecisionInv, ApprovedHasMember
  <2> QED
    BY <1>2, <2>1, <2>2, RegisterOrDoor
<1>3. DecisionInv => ApprovedHasMember
  BY DEF DecisionInv
<1> QED
  BY SessionsInvariant, <1>1, <1>2, <1>3, PTL DEF SessionsSpec

\* OneMemberEach, with the members at the door.
THEOREM OneMemberEachAtTheDoor ==
  ASSUME "update" \notin Duties
  PROVE  SessionsSpec => []OneMemberPerApplication
<1>1. SessionsInit => OneNumberInv
  BY OneNumberStart DEF SessionsInit
<1>2. ASSUME SessionsInv, OneNumberInv, [SessionsNext]_sessionVars
      PROVE  OneNumberInv'
  <2>1. CASE [MembershipNext]_membershipVars
    BY <1>2, <2>1, OneNumberStep DEF SessionsInv
  <2>2. CASE DoorStep
    <3>1. \A i, c : Claim(i, c)' <=> Claim(i, c)
      BY <2>2 DEF DoorStep, Claim
    <3> QED
      BY <1>2, <2>2, <3>1 DEF DoorStep, OneNumberInv, OneMemberPerApplication
  <2> QED
    BY <1>2, <2>1, <2>2, RegisterOrDoor
<1>3. OneNumberInv => OneMemberPerApplication
  BY DEF OneNumberInv
<1> QED
  BY SessionsInvariant, <1>1, <1>2, <1>3, PTL DEF SessionsSpec

\* RegisterImplementsRoll, with the members at the door: the application of nobody
\* moves because somebody signs in, signs out or is thrown out.
THEOREM DoorImplementsRoll ==
  ASSUME OneClerk
  PROVE  SessionsSpec => RollSpec
<1>1. SessionsInit => SoloInv /\ TheRoll!Init
  BY SoloStart, RollStart DEF SessionsInit
<1>2. ASSUME SessionsInv, SessionsInv', SoloInv, [SessionsNext]_sessionVars
      PROVE  SoloInv' /\ [TheRoll!Next]_Standing
  <2>1. CASE [MembershipNext]_membershipVars
    BY <1>2, <2>1, SoloStep, RollStep
  <2>2. CASE DoorStep
    <3>1. RegisterInv' /\ UNCHANGED Standing
      BY <1>2, <2>2 DEF DoorStep, SessionsInv, Standing
    <3>2. \A g \in Attendant : Fresh(desk[g])'
      BY <1>2, <2>2 DEF DoorStep, SoloInv, Fresh
    <3>3. DecisionInv'
      BY <1>2, <2>2 DEF DoorStep, SoloInv, DecisionInv, ApprovedHasMember
    <3> QED
      BY <1>2, <2>2, <3>1, <3>2, <3>3 DEF DoorStep, SoloInv, OneMemberPerApplication
  <2> QED
    BY <1>2, <2>1, <2>2, RegisterOrDoor
<1> QED
  BY SessionsInvariant, <1>1, <1>2, PTL DEF SessionsSpec, RollSpec, TheRoll!Spec

\* OnlyImportsSharePhones, with the members at the door.
THEOREM OnlyImportsSharePhonesAtTheDoor ==
  ASSUME OneClerk
  PROVE  SessionsSpec => []PhoneSharedByImports
<1>1. SessionsInit => PhoneInv
  BY PhoneStart DEF SessionsInit
<1>2. ASSUME SessionsInv, PhoneInv, [SessionsNext]_sessionVars
      PROVE  PhoneInv'
  <2>1. CASE [MembershipNext]_membershipVars
    BY <1>2, <2>1, PhoneStep DEF SessionsInv
  <2>2. CASE DoorStep
    <3>1. \A a \in Clerk : Looked(desk[a])'
      BY <1>2, <2>2 DEF DoorStep, PhoneInv, Looked, MemberWith
    <3> QED
      BY <1>2, <2>2, <3>1 DEF DoorStep, PhoneInv, PhoneSharedByImports
  <2> QED
    BY <1>2, <2>1, <2>2, RegisterOrDoor
<1>3. PhoneInv => PhoneSharedByImports
  BY DEF PhoneInv
<1> QED
  BY SessionsInvariant, <1>1, <1>2, <1>3, PTL DEF SessionsSpec

-----------------------------------------------------------------------------
(* Requests in flight, at the form and at the door *)

\* LateRegistrationsAreFew, with the members at the door.
THEOREM LateRegistrationsAreFewAtTheDoor == SessionsSpec => LateRegistrations
<1> DEFINE Late == /\ ~regOpen => PastSwitch' \subseteq PastSwitch
                   /\ closeAt = "past" => PastSchedule' \subseteq PastSchedule
                   /\ \A i, j \in DOMAIN apps' \ DOMAIN apps : i = j
                   /\ \A i \in DOMAIN apps' \ DOMAIN apps : \E g \in PastSchedule \ PastSchedule' :
                        apps'[i].cpr = desk[g].cpr /\ apps'[i].phone = desk[g].phone
<1>1. ASSUME SessionsInv, [SessionsNext]_sessionVars
      PROVE  [Late]_membershipVars
  <2>1. CASE [MembershipNext]_membershipVars
    BY <1>1, <2>1, LateStep DEF SessionsInv
  <2>2. CASE DoorStep
    BY <2>2 DEF DoorStep, PastSwitch, PastSchedule, DeskAt
  <2> QED
    BY <1>1, <2>1, <2>2, RegisterOrDoor
<1> QED
  BY SessionsInvariant, <1>1, PTL DEF SessionsSpec, LateRegistrations

Withdrawn(u) == u \notin DOMAIN members \/ members[u].status = "cancelled"

\* A step that signs nobody in: it may end sessions and logins.
LEMMA NobodySignsIn ==
  ASSUME NEW u, TokensOf(u)' \subseteq TokensOf(u), EnteringAs(u)' \subseteq EnteringAs(u)
  PROVE  /\ EnteringAs(u)' \subseteq EnteringAs(u)
         /\ TokensOf(u)' \subseteq
              TokensOf(u) \cup {cookie'[b] : b \in EnteringAs(u) \ EnteringAs(u)'}
OBVIOUS

LEMMA FewerTokens ==
  ASSUME sessions' \subseteq sessions, NEW u
  PROVE  TokensOf(u)' \subseteq TokensOf(u)
BY DEF TokensOf

\* A browser that goes on to no login as u leaves those that are.
LEMMA FewerEnter ==
  ASSUME SessionsInv, NEW u, NEW b \in Browser, NEW l, visit' = [visit EXCEPT ![b] = l],
         l.pc = "session" => l.member # u
  PROVE  EnteringAs(u)' \subseteq EnteringAs(u)
<1>1. \A c \in Browser : visit'[c] = IF c = b THEN l ELSE visit[c]
  BY DEF SessionsInv
<1> QED
  BY <1>1 DEF EnteringAs, At

LEMMA WithdrawnStep ==
  ASSUME SessionsInv, [SessionsNext]_sessionVars, NEW u \in MemberId, Withdrawn(u)
  PROVE  /\ EnteringAs(u)' \subseteq EnteringAs(u)
         /\ TokensOf(u)' \subseteq
              TokensOf(u) \cup {cookie'[b] : b \in EnteringAs(u) \ EnteringAs(u)'}
<1> DEFINE Goal == /\ EnteringAs(u)' \subseteq EnteringAs(u)
                   /\ TokensOf(u)' \subseteq
                        TokensOf(u) \cup {cookie'[b] : b \in EnteringAs(u) \ EnteringAs(u)'}
<1>0. visit \in [Browser -> VisitLocals]
  BY DEF SessionsInv
<1>s. UNCHANGED registerVars => sessions' = sessions
  BY DEF registerVars
<1>v. UNCHANGED visit => EnteringAs(u)' \subseteq EnteringAs(u)
  BY DEF EnteringAs, At
<1>n. ASSUME sessions' \subseteq sessions, EnteringAs(u)' \subseteq EnteringAs(u) PROVE Goal
  BY <1>n, FewerTokens, NobodySignsIn
<1>m. ASSUME NEW b \in Browser, NEW l, visit' = [visit EXCEPT ![b] = l], l.pc = "session" => l.member # u,
             sessions' \subseteq sessions
      PROVE  Goal
  BY <1>m, <1>n, FewerEnter
<1>a. ASSUME NEW b \in Browser, Answer(b), sessions' \subseteq sessions PROVE Goal
  BY <1>a, <1>m DEF Answer, NoVisit
<1>1. CASE DeskNext /\ UNCHANGED <<visit, cookie>>
  <2>1. sessions' \subseteq sessions
    BY <1>1, RegisterEndsSessions DEF MembershipNext
  <2> QED
    BY <1>1, <1>n, <1>v, <2>1
<1>2. CASE SessionsRestart
  <2>1. sessions' = sessions
    BY <1>2 DEF SessionsRestart, DeskRestart
  <2>2. EnteringAs(u)' \subseteq EnteringAs(u)
    BY <1>2 DEF SessionsRestart, NoVisit, EnteringAs, At
  <2> QED
    BY <1>n, <2>1, <2>2
<1>3. ASSUME NEW b \in Browser, NEW c \in Cpr, NEW p \in Phone, LoginArrives(b, c, p) PROVE Goal
  BY <1>3, <1>m, <1>s DEF LoginArrives, NoVisit
<1>4. ASSUME NEW b \in Browser, RequestArrives(b) PROVE Goal
  BY <1>4, <1>m, <1>s DEF RequestArrives, NoVisit
<1>5. ASSUME NEW b \in Browser, Logout(b) PROVE Goal
  BY <1>5, <1>n, <1>v DEF Logout, DeleteSession
<1>6. ASSUME NEW b \in Browser, LoginFind(b) PROVE Goal
  <2>1. sessions' = sessions
    BY <1>6, <1>s DEF LoginFind
  <2>2. CASE Answer(b)
    BY <1>a, <2>1, <2>2
  <2>3. ASSUME NEW w \in DOMAIN members, members[w].status # "cancelled",
               visit' = [visit EXCEPT ![b] = [NoVisit EXCEPT !.pc = "session", !.member = w]]
        PROVE  Goal
    <3>1. w # u
      BY <2>3 DEF Withdrawn
    <3> QED
      BY <1>m, <2>1, <2>3, <3>1 DEF NoVisit
  <2> QED
    BY <1>6, <2>2, <2>3 DEF LoginFind
<1>7. ASSUME NEW b \in Browser, LoginCreate(b) PROVE Goal
  <2>1. PICK t \in Token :
          /\ sessions' = sessions \cup {[token |-> t, subject |-> visit[b].member, expired |-> FALSE]}
          /\ cookie' = [cookie EXCEPT ![b] = t]
    BY <1>7 DEF LoginCreate
  <2>2. cookie'[b] = t
    BY <2>1 DEF SessionsInv
  <2>3. EnteringAs(u)' \subseteq EnteringAs(u) /\ visit'[b].pc = "idle" /\ visit[b].pc = "session"
    BY <1>0, <1>7, FewerEnter DEF LoginCreate, Answer, NoVisit, At
  <2>4. CASE visit[b].member # u
    <3>1. TokensOf(u)' \subseteq TokensOf(u)
      BY <2>1, <2>4 DEF TokensOf
    <3> QED
      BY <2>3, <3>1, NobodySignsIn
  <2>5. CASE visit[b].member = u
    <3>1. b \in EnteringAs(u) \ EnteringAs(u)'
      BY <2>3, <2>5 DEF EnteringAs, At
    <3>2. TokensOf(u)' \subseteq TokensOf(u) \cup {t}
      BY <2>1 DEF TokensOf
    <3> QED
      BY <2>2, <2>3, <3>1, <3>2
  <2> QED
    BY <2>4, <2>5
<1>8. ASSUME NEW b \in Browser, RequestLookup(b) PROVE Goal
  <2>1. sessions' = sessions
    BY <1>8, <1>s DEF RequestLookup
  <2>2. CASE Answer(b)
    BY <1>a, <2>1, <2>2
  <2>3. ASSUME NEW s, visit' = [visit EXCEPT ![b].pc = IF s.expired THEN "drop_expired" ELSE "user",
                                             ![b].member = s.subject]
        PROVE  Goal
    <3>1. visit'[b].pc # "session" /\ \A c \in Browser \ {b} : visit'[c] = visit[c]
      BY <1>0, <2>3 DEF VisitLocals
    <3>2. EnteringAs(u)' \subseteq EnteringAs(u)
      BY <3>1 DEF EnteringAs, At
    <3> QED
      BY <1>n, <2>1, <3>2
  <2> QED
    BY <1>8, <2>2, <2>3 DEF RequestLookup
<1>9. ASSUME NEW b \in Browser, RequestDropExpired(b) \/ RequestDropOrphan(b) PROVE Goal
  BY <1>9, <1>a DEF RequestDropExpired, RequestDropOrphan, DeleteSession
<1>10. ASSUME NEW b \in Browser, RequestReadUser(b) PROVE Goal
  <2>1. sessions' = sessions
    BY <1>10, <1>s DEF RequestReadUser
  <2>2. CASE Answer(b)
    BY <1>a, <2>1, <2>2
  <2>3. CASE visit' = [visit EXCEPT ![b].pc = "drop_orphan"]
    <3>1. visit'[b].pc # "session" /\ \A c \in Browser \ {b} : visit'[c] = visit[c]
      BY <1>0, <2>3 DEF VisitLocals
    <3>2. EnteringAs(u)' \subseteq EnteringAs(u)
      BY <3>1 DEF EnteringAs, At
    <3> QED
      BY <1>n, <2>1, <3>2
  <2> QED
    BY <1>10, <2>2, <2>3 DEF RequestReadUser
<1>11. ASSUME NEW t \in Token, Expire(t) PROVE Goal
  <2>1. PICK s \in SessionOf(t) : sessions' = (sessions \ {s}) \cup {[s EXCEPT !.expired = TRUE]}
    BY <1>11 DEF Expire
  <2>2. s \in sessions /\ s \in Session
    BY <2>1 DEF SessionOf, SessionsInv, RegisterInv, RowsTyped
  <2>3. [s EXCEPT !.expired = TRUE].token = s.token /\ [s EXCEPT !.expired = TRUE].subject = s.subject
    BY <2>2 DEF Session
  <2>4. TokensOf(u)' \subseteq TokensOf(u)
    BY <2>1, <2>2, <2>3 DEF TokensOf
  <2>5. EnteringAs(u)' \subseteq EnteringAs(u)
    BY <1>11, <1>v DEF Expire
  <2> QED
    BY <2>4, <2>5, NobodySignsIn
<1>12. CASE PurgeExpiredSessions \/ UNCHANGED sessionVars
  BY <1>12, <1>n, <1>s, <1>v DEF PurgeExpiredSessions, sessionVars
<1> QED
  BY <1>1, <1>2, <1>3, <1>4, <1>5, <1>6, <1>7, <1>8, <1>9, <1>10, <1>11, <1>12 DEF SessionsNext, VisitStep

\* Whoever is deleted or cancelled is left with the sessions there were and one for each login
\* that had already looked at the row; no later login gets in.
THEOREM WithdrawnSignInNoMore == SessionsSpec => WithdrawnRunOut
<1>1. ASSUME SessionsInv, [SessionsNext]_sessionVars
      PROVE  [\A u \in MemberId : u \notin DOMAIN members \/ members[u].status = "cancelled" =>
                /\ EnteringAs(u)' \subseteq EnteringAs(u)
                /\ TokensOf(u)' \subseteq
                     TokensOf(u) \cup {cookie'[b] : b \in EnteringAs(u) \ EnteringAs(u)'}]_sessionVars
  BY <1>1, WithdrawnStep DEF Withdrawn
<1> QED
  BY SessionsInvariant, <1>1, PTL DEF SessionsSpec, WithdrawnRunOut
=============================================================================
