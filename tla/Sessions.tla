------------------------------- MODULE Sessions -------------------------------
(***************************************************************************)
(* Members at the door: signing in, the middleware that every page of the  *)
(* member area goes through, and what ends a session, beside the register  *)
(* of Membership. visit[b] holds the locals of the goroutine that serves   *)
(* browser b, and cookie[b] the token that b sends. A token is random: one *)
(* that nobody holds any more stands for one never seen before.            *)
(***************************************************************************)
EXTENDS Membership

CONSTANT Browser

ASSUME TokenAssumption == None \notin Token

VARIABLES visit, cookie

sessionVars == <<registerVars, desk, visit, cookie>>

NoVisit == [pc |-> "idle", cpr |-> None, phone |-> None, member |-> NoMember, token |-> None]

\* Types, and a token belongs to one session: requireMember takes the first it finds.
SessionsTypeOK ==
  /\ MembershipTypeOK
  /\ visit \in [Browser ->
       [pc : {"idle", "find", "session", "lookup", "drop_expired", "user", "drop_orphan"},
        cpr : Cpr \cup {None}, phone : Phone \cup {None},
        member : MemberId \cup {NoMember}, token : Token \cup {None}]]
  /\ cookie \in [Browser -> Token \cup {None}]
  /\ \A s, t \in sessions : s.token = t.token => s = t

SessionsInit ==
  /\ MembershipInit
  /\ visit = [b \in Browser |-> NoVisit]
  /\ cookie = [b \in Browser |-> None]

At(b, pc) == visit[b].pc = pc
Answer(b) == visit' = [visit EXCEPT ![b] = NoVisit]
SessionOf(token) == {s \in sessions : s.token = token}
DeleteSession(token) == sessions' = sessions \ SessionOf(token)

-----------------------------------------------------------------------------
(* handleMemberLogin and CreateSession *)

LoginArrives(b, c, p) ==
  /\ At(b, "idle")
  /\ visit' = [visit EXCEPT ![b] = [NoVisit EXCEPT !.pc = "find", !.cpr = c, !.phone = p]]
  /\ UNCHANGED <<registerVars, desk, cookie>>

Credentials(b, u) == members[u].cpr = visit[b].cpr /\ members[u].phone = visit[b].phone

\* Fault: a cancelled member may sign in.
LoginFindAnyStatus(b) ==
  /\ At(b, "find")
  /\ \/ \E u \in DOMAIN members :
          Credentials(b, u) /\ visit' = [visit EXCEPT ![b] = [NoVisit EXCEPT !.pc = "session", !.member = u]]
     \/ ~(\E u \in DOMAIN members : Credentials(b, u)) /\ Answer(b)
  /\ UNCHANGED <<registerVars, desk, cookie>>

\* FindUserByCredentials: a cancelled member is refused, a suspended one is not.
LoginFind(b) ==
  /\ At(b, "find")
  /\ LET found == {u \in DOMAIN members : Credentials(b, u) /\ members[u].status # "cancelled"}
     IN  \/ \E u \in found :
              visit' = [visit EXCEPT ![b] = [NoVisit EXCEPT !.pc = "session", !.member = u]]
         \/ found = {} /\ Answer(b)
  /\ UNCHANGED <<registerVars, desk, cookie>>

\* Fault: tokens are short enough to come up twice.
NewTokenRepeated(t) == \A b \in Browser : visit[b].token # t

NewToken(t) ==
  SessionOf(t) = {} /\ \A b \in Browser : cookie[b] # t /\ visit[b].token # t

LoginCreate(b) ==
  /\ At(b, "session")
  /\ \E t \in Token :
       /\ NewToken(t)
       /\ sessions' = sessions \cup {[token |-> t, subject |-> visit[b].member, expired |-> FALSE]}
       /\ cookie' = [cookie EXCEPT ![b] = t]
  /\ Answer(b)
  /\ UNCHANGED <<windowVars, appVars, memberVars, desk>>

Logout(b) ==
  /\ At(b, "idle") /\ cookie[b] # None
  /\ DeleteSession(cookie[b])
  /\ cookie' = [cookie EXCEPT ![b] = None]
  /\ UNCHANGED <<windowVars, appVars, memberVars, desk, visit>>

-----------------------------------------------------------------------------
(* requireMember: the session, then the member's row *)

RequestArrives(b) ==
  /\ At(b, "idle") /\ cookie[b] # None
  /\ visit' = [visit EXCEPT ![b] = [NoVisit EXCEPT !.pc = "lookup", !.token = cookie[b]]]
  /\ UNCHANGED <<registerVars, desk, cookie>>

\* LookupSession
RequestLookup(b) ==
  /\ At(b, "lookup")
  /\ \/ \E s \in SessionOf(visit[b].token) :
          visit' = [visit EXCEPT ![b].pc = IF s.expired THEN "drop_expired" ELSE "user",
                                 ![b].member = s.subject]
     \/ SessionOf(visit[b].token) = {} /\ Answer(b)
  /\ UNCHANGED <<registerVars, desk, cookie>>

RequestDropExpired(b) ==
  /\ At(b, "drop_expired")
  /\ DeleteSession(visit[b].token)
  /\ Answer(b)
  /\ UNCHANGED <<windowVars, appVars, memberVars, desk, cookie>>

\* A member who is there is served: what the page does is another module's.
RequestReadUser(b) ==
  /\ At(b, "user")
  /\ \/ visit[b].member \in DOMAIN members /\ Answer(b)
     \/ visit[b].member \notin DOMAIN members /\ visit' = [visit EXCEPT ![b].pc = "drop_orphan"]
  /\ UNCHANGED <<registerVars, desk, cookie>>

RequestDropOrphan(b) ==
  /\ At(b, "drop_orphan")
  /\ DeleteSession(visit[b].token)
  /\ cookie' = [cookie EXCEPT ![b] = None]
  /\ Answer(b)
  /\ UNCHANGED <<windowVars, appVars, memberVars, desk>>

-----------------------------------------------------------------------------
\* Twelve hours after it was made, a session is of no more use.
Expire(t) ==
  /\ \E s \in SessionOf(t) :
       ~s.expired /\ sessions' = (sessions \ {s}) \cup {[s EXCEPT !.expired = TRUE]}
  /\ UNCHANGED <<windowVars, appVars, memberVars, desk, visit, cookie>>

PurgeExpiredSessions ==
  /\ \E s \in sessions : s.expired
  /\ sessions' = {s \in sessions : ~s.expired}
  /\ UNCHANGED <<windowVars, appVars, memberVars, desk, visit, cookie>>

\* The process stops and starts: sessions are rows, and outlive it.
SessionsRestart == DeskRestart /\ visit' = [b \in Browser |-> NoVisit] /\ UNCHANGED cookie

VisitStep(b) ==
  \/ LoginFind(b) \/ LoginCreate(b)
  \/ RequestLookup(b) \/ RequestDropExpired(b) \/ RequestReadUser(b) \/ RequestDropOrphan(b)

SessionsNext ==
  \/ DeskNext /\ UNCHANGED <<visit, cookie>>
  \/ \E b \in Browser, c \in Cpr, p \in Phone : LoginArrives(b, c, p)
  \/ \E b \in Browser : RequestArrives(b) \/ Logout(b) \/ VisitStep(b)
  \/ \E t \in Token : Expire(t)
  \/ PurgeExpiredSessions
  \/ SessionsRestart

SessionsSpec == SessionsInit /\ [][SessionsNext]_sessionVars

\* Goroutines go on, sessions run out, and the hourly ticker of main goes on.
SessionsFairness ==
  /\ \A g \in Registrant : WF_sessionVars(RegisterStep(g) /\ UNCHANGED <<visit, cookie>>)
  /\ \A a \in Clerk : WF_sessionVars(ClerkStep(a) /\ UNCHANGED <<visit, cookie>>)
  /\ \A b \in Browser : WF_sessionVars(VisitStep(b))
  /\ \A t \in Token : WF_sessionVars(Expire(t))
  /\ WF_sessionVars(PurgeExpiredSessions)

FairSessionsSpec == SessionsSpec /\ SessionsFairness

-----------------------------------------------------------------------------
(* Properties *)

\* A new member begins with nobody signed in as them: ids of deleted members are never
\* handed out again, so neither a session written for one by a login that DeleteUser
\* overtook, nor that login itself, can become another person's.
FreshMember ==
  [][\A u \in DOMAIN members' \ DOMAIN members :
       /\ \A s \in sessions' : s.subject # u
       /\ \A b \in Browser : visit'[b].member # u]_sessionVars

\* Whoever stays cancelled, or has been deleted, ends up with no session and stays so,
\* the login that was on its way included: nothing signs them in again, and what it
\* left runs out and is purged.
WithdrawnLoseAccess ==
  \A u \in MemberId :
    <>[](u \notin DOMAIN members \/ members[u].status = "cancelled") =>
      <>[](\A s \in sessions : s.subject # u)

\* What that login may leave: while they are out, no other login gets past the look at
\* their row, and the only new session of theirs is that of a login that had, one each.
EnteringAs(u) == {b \in Browser : At(b, "session") /\ visit[b].member = u}
TokensOf(u) == {s.token : s \in {t \in sessions : t.subject = u}}
WithdrawnRunOut ==
  [][\A u \in MemberId : u \notin DOMAIN members \/ members[u].status = "cancelled" =>
       /\ EnteringAs(u)' \subseteq EnteringAs(u)
       /\ TokensOf(u)' \subseteq
            TokensOf(u) \cup {cookie'[b] : b \in EnteringAs(u) \ EnteringAs(u)'}]_sessionVars

\* Once the registration window stays shut, by the switch or by its schedule, requests
\* stop getting past it: those let in before are answered, and no later one is let in.
RegistrationSettles ==
  <>[](~regOpen \/ closeAt = "past") =>
    <>[](\A g \in Registrant : desk[g].pc \notin UniquePC \cup {"register_write"})

=============================================================================
