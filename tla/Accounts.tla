------------------------------- MODULE Accounts -------------------------------
(***************************************************************************)
(* The two operator accounts: created or reset by bootstrapAdmins at each  *)
(* start, according to an environment that may differ from one start to    *)
(* the next, and then used from the dashboards. page[p] holds the locals   *)
(* of the goroutine that serves page p, and pass[p] the session whose      *)
(* cookie p holds; a row whose cookie was overwritten is of no use to      *)
(* anybody and is left out. A session remembers the password it was given  *)
(* for, which the code does not: properties speak of it.                   *)
(***************************************************************************)
EXTENDS Opening

CONSTANTS
  Name,         \* spellings of usernames
  Lower,        \* [Name -> Name]: strings.ToLower
  Password,     \* passwords that operators type and environments hold
  Unset,        \* an empty environment variable
  Generated,    \* what randomPassword makes: typed by nobody here
  Environ,      \* [Kind -> SUBSET Environment]: what starts are given
  Page,
  Gate          \* the pages among them that sign in at the hidden gate

ASSUME NameAssumption == Lower \in [Name -> Name] /\ \A n \in Name : Lower[Lower[n]] = Lower[n]
ASSUME PasswordAssumption == Unset \notin Password /\ Generated \notin Password
ASSUME GateAssumption == Gate \subseteq Page

VARIABLES
  admins,       \* rows of admins
  asked,        \* the environment each kind was started with, until the server serves
  page,         \* requests in progress
  pass          \* sessions

accountVars == <<admins, asked, page, pass>>
startVars == <<openingVars, accountVars>>

Kinds == <<"membership", "elections">>
Kind == {"membership", "elections"}
None == "none"

Admin == [id : {1, 2}, kind : Kind, user : Name, password : Password \cup {Generated}]
Environment == [user : Name, password : Password \cup {Unset}, reset : BOOLEAN]
ASSUME EnvironAssumption == Environ \in [Kind -> SUBSET Environment]

NotAsked == [user |-> None, password |-> None, reset |-> FALSE]

NoPage == [pc |-> "idle", kind |-> None, user |-> None, old |-> None, new |-> None,
           id |-> 0]
NoPass == [id |-> 0, kind |-> None, with |-> None]

StartTypeOK ==
  /\ OpeningTypeOK
  /\ admins \subseteq Admin
  /\ asked \in [Kind -> Environment \cup {NotAsked}]
  /\ \A p \in Page :
       /\ page[p].pc \in {"idle", "read", "session", "verify", "write", "drop"}
       /\ page[p].kind \in Kind \cup {None} /\ page[p].user \in Name \cup {None}
       /\ page[p].old \in Password \cup {None} /\ page[p].new \in Password \cup {None}
       /\ page[p].id \in 0 .. 2
       /\ pass[p] = NoPass \/ pass[p] \in [id : {1, 2}, kind : Kind, with : Password]

StartInit ==
  /\ OpeningInit
  /\ admins = {}
  /\ asked = [k \in Kind |-> NotAsked]
  /\ page = [p \in Page |-> NoPage]
  /\ pass = [p \in Page |-> NoPass]

Serving == At("serving")
PageAt(p, pc) == Serving /\ page[p].pc = pc
Answer(p) == page' = [page EXCEPT ![p] = NoPage]
Row(id) == CHOOSE a \in admins : a.id = id
OfKind(k) == {a \in admins : a.kind = k}

-----------------------------------------------------------------------------
(* bootstrapAdmins: the kinds in turn; step 2k - 1 decides kind k, step 2k ends a reset *)

BootKind == Kinds[(boot.step + 1) \div 2]
Deciding == At("bootstrap") /\ boot.step \in {1, 3}
NextKind == boot' = [boot EXCEPT !.step = @ + 2]
Ask(e) == asked' = [asked EXCEPT ![BootKind] = e]

\* UNIQUE (username, kind)
UniqueName(S) == \A a, b \in S : a.user = b.user /\ a.kind = b.kind => a = b

\* EnsureAdmin: an account of the kind is left as it is.
EnsureFinds ==
  /\ Deciding
  /\ \E e \in Environ[BootKind] : ~e.reset /\ Ask(e)
  /\ OfKind(BootKind) # {}
  /\ NextKind
  /\ UNCHANGED <<fileVars, fk, tx, stops, admins, page, pass>>

\* Fault: the account is looked for by its name.
AbsentByName(k, name) == \A a \in OfKind(k) : a.user # name

Absent(k, name) == OfKind(k) = {}

EnsureCreates ==
  /\ Deciding
  /\ \E e \in Environ[BootKind] :
       /\ ~e.reset /\ Ask(e)
       /\ Absent(BootKind, Lower[e.user])
       /\ admins' = admins \cup
            {[id |-> Cardinality(admins) + 1, kind |-> BootKind, user |-> Lower[e.user],
              password |-> IF e.password = Unset THEN Generated ELSE e.password]}
  /\ NextKind
  /\ UNCHANGED <<fileVars, fk, tx, stops, page, pass>>

\* ForceResetPassword: the name as the environment spells it.
ResetWrite ==
  /\ Deciding
  /\ OfKind(BootKind) # {}
  /\ \E e \in Environ[BootKind] :
       /\ e.reset /\ e.password # Unset /\ Ask(e)
       /\ admins' = {IF a.kind # BootKind THEN a
                     ELSE [a EXCEPT !.user = e.user, !.password = e.password] : a \in admins}
  /\ Advance
  /\ UNCHANGED <<fileVars, fk, tx, stops, page, pass>>

DropPasses(S) == pass' = [p \in Page |-> IF pass[p] # NoPass /\ S[p] THEN NoPass ELSE pass[p]]

\* Fault: the sessions of the account are left alone.
ResetDropNone ==
  /\ At("bootstrap") /\ boot.step \in {2, 4}
  /\ Advance
  /\ UNCHANGED <<fileVars, fk, tx, stops, accountVars>>

\* DELETE FROM sessions WHERE subject_kind = 'admin:...'
ResetDrop ==
  /\ At("bootstrap") /\ boot.step \in {2, 4}
  /\ DropPasses([p \in Page |-> pass[p].kind = BootKind])
  /\ Advance
  /\ UNCHANGED <<fileVars, fk, tx, stops, admins, asked, page>>

\* A reset with no password in the environment, or of an account that is not there yet:
\* counted as a stop, since the environment is put right in the end.
ResetFatal ==
  /\ Deciding
  /\ stops < MaxStops /\ stops' = stops + 1
  /\ \E e \in Environ[BootKind] : e.reset /\ (e.password = Unset \/ OfKind(BootKind) = {})
  /\ GoTo("off") /\ fk' = FALSE
  /\ asked' = [k \in Kind |-> NotAsked]
  /\ UNCHANGED <<fileVars, tx, admins, page, pass>>

\* ListenAndServe
Serve ==
  /\ At("bootstrap") /\ boot.step = 5
  /\ GoTo("serving")
  /\ asked' = [k \in Kind |-> NotAsked]
  /\ UNCHANGED <<fileVars, fk, tx, stops, admins, page, pass>>

Bootstrap == EnsureFinds \/ EnsureCreates \/ ResetWrite \/ ResetDrop \/ Serve

-----------------------------------------------------------------------------
(* handleAdminLogin and handleStaffGate *)

LoginArrives(p, kind, name, typed) ==
  /\ PageAt(p, "idle")
  /\ p \in Gate => kind = Kinds[1]
  /\ page' = [page EXCEPT ![p] = [NoPage EXCEPT !.pc = "read", !.kind = kind,
                                                !.user = name, !.old = typed]]
  /\ UNCHANGED <<openingVars, admins, asked, pass>>

\* Fault: err != nil && !VerifyPassword.
MatchingByName(rows, kind, name, typed) == {a \in rows : a.kind = kind /\ a.user = Lower[name]}

\* AdminByUsername and VerifyPassword
Matching(rows, kind, name, typed) ==
  {a \in rows : a.kind = kind /\ a.user = Lower[name] /\ a.password = typed}

\* The gate goes on to the other dashboard's account.
LoginRead(p) ==
  /\ PageAt(p, "read")
  /\ LET q == page[p]
         found == Matching(admins, q.kind, q.user, q.old)
         more == p \in Gate /\ q.kind = Kinds[1]
     IN  \/ \E a \in found : page' = [page EXCEPT ![p] = [NoPage EXCEPT !.pc = "session", !.kind = q.kind,
                                                               !.old = q.old, !.id = a.id]]
         \/ found = {} /\ more /\ page' = [page EXCEPT ![p].kind = Kinds[2]]
         \/ found = {} /\ ~more /\ Answer(p)
  /\ UNCHANGED <<openingVars, admins, asked, pass>>

\* CreateSession and the cookie
LoginCreate(p) ==
  /\ PageAt(p, "session")
  /\ pass' = [pass EXCEPT ![p] = [id |-> page[p].id, kind |-> page[p].kind, with |-> page[p].old]]
  /\ Answer(p)
  /\ UNCHANGED <<openingVars, admins, asked>>

Logout(p) ==
  /\ PageAt(p, "idle") /\ pass[p] # NoPass
  /\ pass' = [pass EXCEPT ![p] = NoPass]
  /\ UNCHANGED <<openingVars, admins, asked, page>>

\* Twelve hours on: LookupSession refuses it, and it is purged.
Expire(p) ==
  /\ Serving /\ pass[p] # NoPass
  /\ pass' = [pass EXCEPT ![p] = NoPass]
  /\ UNCHANGED <<openingVars, admins, asked, page>>

-----------------------------------------------------------------------------
(* requireAdmin, then changePassword and ChangeAdminPassword *)

ChangeArrives(p, old, new) ==
  /\ PageAt(p, "idle") /\ pass[p] # NoPass
  /\ \E a \in admins : a.id = pass[p].id /\ a.kind = pass[p].kind
  /\ page' = [page EXCEPT ![p] = [NoPage EXCEPT !.pc = "verify", !.old = old, !.new = new,
                                                !.id = pass[p].id]]
  /\ UNCHANGED <<openingVars, admins, asked, pass>>

ChangeVerify(p) ==
  /\ PageAt(p, "verify")
  /\ IF Row(page[p].id).password = page[p].old /\ page[p].old # page[p].new
     THEN page' = [page EXCEPT ![p].pc = "write"]
     ELSE Answer(p)
  /\ UNCHANGED <<openingVars, admins, asked, pass>>

\* Whatever the hash has become meanwhile.
ChangeWrite(p) ==
  /\ PageAt(p, "write")
  /\ admins' = {IF a.id # page[p].id THEN a ELSE [a EXCEPT !.password = page[p].new] : a \in admins}
  /\ page' = [page EXCEPT ![p] = [NoPage EXCEPT !.pc = "drop", !.id = page[p].id]]
  /\ UNCHANGED <<openingVars, asked, pass>>

\* DELETE FROM sessions WHERE subject_kind LIKE 'admin:%' AND subject_id = ?
ChangeDrop(p) ==
  /\ PageAt(p, "drop")
  /\ DropPasses([q \in Page |-> pass[q].id = page[p].id])
  /\ Answer(p)
  /\ UNCHANGED <<openingVars, admins, asked>>

-----------------------------------------------------------------------------

\* Requests and the environment read so far go with the process; rows stay.
Crash ==
  /\ Stop
  /\ asked' = [k \in Kind |-> NotAsked]
  /\ page' = [p \in Page |-> NoPage]
  /\ UNCHANGED <<admins, pass>>

PageRequest(p) ==
  \/ \E kind \in Kind, name \in Name, typed \in Password : LoginArrives(p, kind, name, typed)
  \/ \E old, new \in Password : ChangeArrives(p, old, new)
  \/ Logout(p)

PageStep(p) ==
  LoginRead(p) \/ LoginCreate(p) \/ ChangeVerify(p) \/ ChangeWrite(p) \/ ChangeDrop(p)

StartNext ==
  \/ BootStep /\ UNCHANGED accountVars
  \/ Bootstrap \/ ResetFatal
  \/ \E p \in Page : PageRequest(p) \/ PageStep(p) \/ Expire(p)
  \/ Crash

StartSpec == StartInit /\ [][StartNext]_startVars

\* A process that is started runs on, and is started again when it ends (restart:
\* unless-stopped); goroutines run on and sessions run out.
StartFairness ==
  /\ WF_startVars(BootStep /\ UNCHANGED accountVars)
  /\ WF_startVars(Bootstrap)
  /\ \A p \in Page : WF_startVars(PageStep(p)) /\ WF_startVars(Expire(p))

FairStartSpec == StartSpec /\ StartFairness

-----------------------------------------------------------------------------
(* Properties *)

\* Starts may differ in the names they ask for, and names change by resets: there is
\* still one account of a kind, since both dashboards and the reset take any they find.
OneOperatorPerKind ==
  /\ UniqueName(admins)
  /\ \A a, b \in admins : (a.kind = b.kind \/ a.id = b.id) => a = b

\* "To recover from a lockout": once a start that asked for a reset serves, the name and
\* the password of its environment open the dashboard, and whoever was in is out, a start
\* cut short before it notwithstanding.
ResetRecovers ==
  [][At("bootstrap") /\ boot'.pc = "serving" =>
       \A k \in Kind : asked[k].reset =>
         /\ Matching(admins', k, asked[k].user, asked[k].password) # {}
         /\ \A p \in Page : pass'[p].kind # k]_startVars

\* What a password is still good for: a session it was given for, and a login that has
\* verified it and has yet to write one.
Uses(p, w) ==
  \/ pass[p] # NoPass /\ pass[p].with = w
  \/ page[p].pc = "session" /\ page[p].old = w

\* While no account has a password, nobody gets in with it but those who were in or on the
\* way when it was given up: ChangeAdminPassword and a login may overtake each other once.
OldPasswordRunsOut ==
  [][\A w \in Password : (\A a \in admins : a.password # w) =>
       \A p \in Page : Uses(p, w)' => Uses(p, w)]_startVars

\* A password that is given up for good ends up of no use to anybody: no session given for
\* it stays, not even to a login that verified it before it was changed and created its
\* session after ChangeAdminPassword had dropped the others.
OldPasswordDies ==
  \A w \in Password :
    <>[](\A a \in admins : a.password # w) => <>[](\A p \in Page : pass[p].with # w)

=============================================================================
