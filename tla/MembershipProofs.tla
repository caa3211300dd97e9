--------------------------- MODULE MembershipProofs ---------------------------
(***************************************************************************)
(* The register keeps its types and its promises, for any numbers, any     *)
(* imported list and any goroutines: an approved application has its       *)
(* member, makes only one as long as no personal number is corrected, and  *)
(* moves as Roll says when the admin waits for answers; and only forms let *)
(* in before the window shut are still written after.                      *)
(***************************************************************************)
EXTENDS Membership, FiniteSetTheorems, TLAPS

RegisterPC == {"manual", "schedule", "register_write"}
NumberPC == UniquePC \cup RegisterPC \cup {"approve_write", "update_cpr", "update_phone", "update_write"}

\* What the locals of goroutine g are, by the statement it will run: only the form's
\* goroutines register, only the admin's do anything else.
Placed(g, l) ==
  /\ l.pc \in RegisterPC => g \in Registrant /\ l.app = NoApp
  /\ l.pc \in UniquePC /\ l.app = NoApp => g \in Registrant
  /\ l.pc \notin {"idle"} \cup RegisterPC \cup UniquePC => g \in Clerk
  /\ l.pc \in UniquePC /\ l.app # NoApp => g \in Clerk
  /\ l.pc \in NumberPC => l.cpr \in Cpr /\ l.phone \in Phone
  /\ l.pc \in {"approve_write", "app_status_write", "app_delete_write"} => l.app # NoApp
  /\ l.pc = "app_status_write" => l.value \in {"pending", "withheld"}
  /\ l.pc = "status_write" => l.value \in MemberStatus
  /\ l.pc = "control_write" => l.value \in {"none", "ahead"}

\* An approve on its way to a new member, and a registration on its way to an application.
Approving(l) == l.pc \in UniquePC \cup {"approve_write"} /\ l.app # NoApp
Approvers == {a \in Clerk : Approving(desk[a])}
Registrants == {g \in Registrant : desk[g].pc # "idle"}

DesksTyped ==
  /\ desk \in [Attendant -> DeskLocals]
  /\ \A g \in Attendant : Placed(g, desk[g])

RowsTyped ==
  /\ regOpen \in BOOLEAN /\ closeAt \in {"none", "ahead", "past"}
  /\ \A i \in DOMAIN apps : apps[i] \in Application
  /\ \A u \in DOMAIN members : members[u] \in MemberRow
  /\ sessions \subseteq Session

\* Ids come from the sequences, and there is one left for every request on its way.
IdsKept ==
  /\ memberSeq \in Nat /\ DOMAIN members \subseteq 1 .. memberSeq
  /\ appSeq \in Nat /\ DOMAIN apps \subseteq 1 .. appSeq
  /\ memberSeq + Cardinality(Approvers) <= MaxMember
  /\ appSeq + Cardinality(Registrants) <= MaxApp

RegisterInv == DesksTyped /\ RowsTyped /\ IdsKept

-----------------------------------------------------------------------------
(* Desks *)

LEMMA FiniteDesks ==
  /\ IsFiniteSet(Approvers) /\ Cardinality(Approvers) \in Nat
  /\ IsFiniteSet(Registrants) /\ Cardinality(Registrants) \in Nat
<1>1. IsFiniteSet(Approvers)
  BY MembershipAssumption, FS_Subset DEF Approvers
<1>2. IsFiniteSet(Registrants)
  BY MembershipAssumption, FS_Subset DEF Registrants
<1> QED
  BY <1>1, <1>2, FS_CardinalityType

LEMMA OneMore ==
  ASSUME NEW S, IsFiniteSet(S), NEW x
  PROVE  Cardinality(S \cup {x}) <= Cardinality(S) + 1
<1>1. Cardinality(S) \in Nat
  BY FS_CardinalityType
<1>2. Cardinality(S \cup {x}) = IF x \in S THEN Cardinality(S) ELSE Cardinality(S) + 1
  BY FS_AddElement
<1> QED
  BY <1>1, <1>2

LEMMA DeskMoves ==
  ASSUME DesksTyped, NEW g \in Attendant, NEW l \in DeskLocals, Placed(g, l),
         desk' = [desk EXCEPT ![g] = l]
  PROVE  /\ DesksTyped'
         /\ (Approving(l) => Approving(desk[g])) => Cardinality(Approvers') <= Cardinality(Approvers)
         /\ (l.pc # "idle" => desk[g].pc # "idle") => Cardinality(Registrants') <= Cardinality(Registrants)
         /\ Cardinality(Approvers') \in Nat /\ Cardinality(Registrants') \in Nat
<1>1. DesksTyped'
  BY DEF DesksTyped
<1>2. \A h \in Attendant : desk'[h] = IF h = g THEN l ELSE desk[h]
  BY DEF DesksTyped
<1>3. ASSUME Approving(l) => Approving(desk[g])
      PROVE  Cardinality(Approvers') <= Cardinality(Approvers)
  <2>1. Approvers' \subseteq Approvers
    BY <1>2, <1>3 DEF Approvers, Attendant
  <2> QED
    BY <2>1, FiniteDesks, FS_Subset
<1>4. ASSUME l.pc # "idle" => desk[g].pc # "idle"
      PROVE  Cardinality(Registrants') <= Cardinality(Registrants)
  <2>1. Registrants' \subseteq Registrants
    BY <1>2, <1>4 DEF Registrants, Attendant
  <2> QED
    BY <2>1, FiniteDesks, FS_Subset
<1>5. Cardinality(Approvers') \in Nat /\ Cardinality(Registrants') \in Nat
  <2>1. Approvers' \subseteq Clerk /\ Registrants' \subseteq Registrant
    BY DEF Approvers, Registrants
  <2> QED
    BY <2>1, MembershipAssumption, FS_Subset, FS_CardinalityType
<1> QED
  BY <1>1, <1>3, <1>4, <1>5

\* A request that reads, with new locals, and begins neither an approve nor a registration.
LEMMA DeskReads ==
  ASSUME RegisterInv, NEW g \in Attendant, NEW l \in DeskLocals, Placed(g, l),
         desk' = [desk EXCEPT ![g] = l], UNCHANGED registerVars,
         Approving(l) => Approving(desk[g]), l.pc # "idle" => desk[g].pc # "idle" \/ g \in Clerk
  PROVE  RegisterInv'
<1>1. /\ DesksTyped'
      /\ Cardinality(Approvers') <= Cardinality(Approvers)
      /\ Cardinality(Approvers') \in Nat /\ Cardinality(Registrants') \in Nat
  BY DeskMoves DEF RegisterInv
<1>2. Cardinality(Registrants') <= Cardinality(Registrants)
  <2>1. Registrants' \subseteq Registrants
    BY MembershipAssumption DEF Registrants, Attendant, RegisterInv, DesksTyped
  <2> QED
    BY <2>1, FiniteDesks, FS_Subset
<1>3. RowsTyped' /\ UNCHANGED <<apps, appSeq, members, memberSeq>>
  BY DEF RegisterInv, RowsTyped, registerVars, windowVars, appVars, memberVars
<1>4. IdsKept'
  BY <1>1, <1>2, <1>3, FiniteDesks, MembershipAssumption DEF RegisterInv, IdsKept
<1> QED
  BY <1>1, <1>3, <1>4 DEF RegisterInv

\* A request that is answered, with the rows changed or not.
LEMMA DeskAnswers ==
  ASSUME RegisterInv, NEW g \in Attendant, DeskAnswer(g)
  PROVE  /\ DesksTyped'
         /\ Cardinality(Approvers') <= Cardinality(Approvers) - (IF Approving(desk[g]) THEN 1 ELSE 0)
         /\ Cardinality(Registrants') <=
              Cardinality(Registrants) - (IF g \in Registrant /\ desk[g].pc # "idle" THEN 1 ELSE 0)
         /\ Cardinality(Approvers') \in Nat /\ Cardinality(Registrants') \in Nat
<1>1. NoDesk \in DeskLocals /\ Placed(g, NoDesk) /\ NoDesk.pc = "idle" /\ ~Approving(NoDesk)
  BY DEF NoDesk, DeskLocals, DeskPC, Placed, Approving, NumberPC, UniquePC, RegisterPC
<1>2. /\ DesksTyped'
      /\ Cardinality(Approvers') \in Nat /\ Cardinality(Registrants') \in Nat
      /\ Cardinality(Approvers') <= Cardinality(Approvers)
      /\ Cardinality(Registrants') <= Cardinality(Registrants)
  BY <1>1, DeskMoves DEF DeskAnswer, RegisterInv
<1>3. CASE Approving(desk[g])
  <2>1. g \in Approvers
    BY <1>3 DEF Approvers, Approving, RegisterInv, DesksTyped, Placed, UniquePC, RegisterPC
  <2>2. Approvers' = Approvers \ {g}
    BY <1>1 DEF Approvers, DeskAnswer, RegisterInv, DesksTyped, Attendant
  <2>3. Cardinality(Approvers') = Cardinality(Approvers) - 1
    BY <2>1, <2>2, FiniteDesks, FS_RemoveElement
  <2>4. g \notin Registrant
    BY <2>1, MembershipAssumption DEF Approvers
  <2> QED
    BY <1>2, <1>3, <2>3, <2>4, FiniteDesks
<1>4. CASE ~Approving(desk[g]) /\ g \in Registrant /\ desk[g].pc # "idle"
  <2>1. Registrants' = Registrants \ {g} /\ g \in Registrants
    BY <1>1, <1>4 DEF Registrants, DeskAnswer, RegisterInv, DesksTyped, Attendant
  <2>2. Cardinality(Registrants') = Cardinality(Registrants) - 1
    BY <2>1, FiniteDesks, FS_RemoveElement
  <2> QED
    BY <1>2, <1>4, <2>2, FiniteDesks
<1> QED
  BY <1>2, <1>3, <1>4, FiniteDesks

-----------------------------------------------------------------------------
(* Type correctness, one request at a time *)

LEMMA SeedRows ==
  /\ Len(Seed) \in Nat
  /\ \A u \in 1 .. Len(Seed) : Imported(Seed[u]) \in MemberRow
<1>1. Seed \in Seq([cpr : Cpr, phone : Phone])
  BY MembershipAssumption
<1>2. ASSUME NEW S, NEW s \in Seq(S)
      PROVE  Len(s) \in Nat /\ \A u \in 1 .. Len(s) : s[u] \in S
  OBVIOUS
<1>3. Len(Seed) \in Nat /\ \A u \in 1 .. Len(Seed) : Seed[u] \in [cpr : Cpr, phone : Phone]
  BY <1>1, <1>2
<1> QED
  BY <1>3 DEF Imported, MemberRow, MemberStatus

LEMMA RegisterInvInit == MembershipInit => RegisterInv
<1> SUFFICES ASSUME MembershipInit PROVE RegisterInv
  OBVIOUS
<1>1. NoDesk \in DeskLocals /\ NoDesk.pc = "idle"
  BY DEF NoDesk, DeskLocals, DeskPC
<1>2. DesksTyped
  BY <1>1 DEF MembershipInit, DesksTyped, Placed, NumberPC, UniquePC, RegisterPC
<1>3. Approvers = {} /\ Registrants = {}
  <2>1. \A g \in Attendant : desk[g].pc = "idle"
    BY <1>1 DEF MembershipInit
  <2> QED
    BY <2>1 DEF Approvers, Registrants, Approving, UniquePC, Attendant
<1>4. Len(Seed) \in Nat
  BY SeedRows
<1>5. \A u \in 1 .. Len(Seed) : Imported(Seed[u]) \in MemberRow
  BY SeedRows
<1>6. RowsTyped
  BY <1>5 DEF MembershipInit, RowsTyped
<1>7. IdsKept
  BY <1>3, <1>4, MembershipAssumption, FS_EmptySet DEF MembershipInit, IdsKept
<1> QED
  BY <1>2, <1>6, <1>7 DEF RegisterInv

LEMMA CheckTyped ==
  ASSUME RegisterInv, NEW g \in Attendant, NEW here, NEW there, NEW condition,
         desk[g].pc = here, here # "idle",
         [desk[g] EXCEPT !.pc = there] \in DeskLocals, Placed(g, [desk[g] EXCEPT !.pc = there]),
         Approving([desk[g] EXCEPT !.pc = there]) => Approving(desk[g]),
         DeskCheck(g, here, there, condition)
  PROVE  RegisterInv'
<1>1. CASE DeskGoto(g, there) /\ UNCHANGED registerVars
  <2>1. desk' = [desk EXCEPT ![g] = [desk[g] EXCEPT !.pc = there]]
    BY <1>1 DEF DeskGoto
  <2> DEFINE l == [desk[g] EXCEPT !.pc = there]
  <2> HIDE DEF l
  <2> QED
    BY <1>1, <2>1, DeskReads DEF l
<1>2. CASE DeskAnswer(g) /\ UNCHANGED registerVars
  <2>1. NoDesk \in DeskLocals /\ Placed(g, NoDesk) /\ NoDesk.pc = "idle" /\ ~Approving(NoDesk)
    BY DEF NoDesk, DeskLocals, DeskPC, Placed, Approving, NumberPC, UniquePC, RegisterPC
  <2> QED
    BY <1>2, <2>1, DeskReads DEF DeskAnswer
<1> QED
  BY <1>1, <1>2, Zenon DEF DeskCheck

LEMMA UniqueTyped ==
  ASSUME RegisterInv, NEW g \in Attendant, CheckUnique(g)
  PROVE  RegisterInv'
<1>1. desk[g] \in DeskLocals /\ Placed(g, desk[g])
  BY DEF RegisterInv, DesksTyped
<1>2. ASSUME NEW here \in UniquePC, NEW there \in UniquePC, desk[g].pc = here
      PROVE  /\ [desk[g] EXCEPT !.pc = there] \in DeskLocals
             /\ Placed(g, [desk[g] EXCEPT !.pc = there])
             /\ Approving([desk[g] EXCEPT !.pc = there]) => Approving(desk[g])
  BY <1>1, <1>2 DEF DeskLocals, DeskPC, Placed, NumberPC, UniquePC, RegisterPC, Approving
<1>3. CASE UniqueReadMembersCpr(g)
  BY <1>2, <1>3, CheckTyped, Zenon DEF UniqueReadMembersCpr, DeskCheck, DeskAt, UniquePC
<1>4. CASE UniqueReadAppsCpr(g)
  BY <1>2, <1>4, CheckTyped, Zenon DEF UniqueReadAppsCpr, DeskCheck, DeskAt, UniquePC
<1>5. CASE UniqueReadMembersPhone(g)
  BY <1>2, <1>5, CheckTyped, Zenon DEF UniqueReadMembersPhone, DeskCheck, DeskAt, UniquePC
<1>6. CASE UniqueReadAppsPhone(g)
  <2> DEFINE there == IF desk[g].app = NoApp THEN "register_write" ELSE "approve_write"
  <2>1. desk[g].pc = "apps_phone" /\ DeskCheck(g, "apps_phone", there, ~PendingWith("phone", desk[g].phone, desk[g].app))
    BY <1>6, Zenon DEF UniqueReadAppsPhone, DeskCheck, DeskAt
  <2>2. /\ [desk[g] EXCEPT !.pc = there] \in DeskLocals
        /\ Placed(g, [desk[g] EXCEPT !.pc = there])
        /\ Approving([desk[g] EXCEPT !.pc = there]) => Approving(desk[g])
    BY <1>1, <2>1 DEF DeskLocals, DeskPC, Placed, NumberPC, UniquePC, RegisterPC, Approving
  <2> HIDE DEF there
  <2> QED
    BY <2>1, <2>2, CheckTyped
<1> QED
  BY <1>3, <1>4, <1>5, <1>6 DEF CheckUnique

\* An answer that takes rows away, or changes some.
LEMMA AnswerTyped ==
  ASSUME RegisterInv, NEW g \in Attendant, DeskAnswer(g), RowsTyped',
         UNCHANGED <<appSeq, memberSeq>>,
         DOMAIN apps' \subseteq DOMAIN apps, DOMAIN members' \subseteq DOMAIN members
  PROVE  RegisterInv'
  BY DeskAnswers, FiniteDesks, MembershipAssumption, SMTT(30) DEF RegisterInv, IdsKept

\* A request that begins, or goes on, and changes rows but not which there are.
LEMMA GoesOnTyped ==
  ASSUME RegisterInv, NEW g \in Clerk, NEW l \in DeskLocals, Placed(g, l), ~Approving(l),
         desk' = [desk EXCEPT ![g] = l], RowsTyped',
         UNCHANGED <<appSeq, memberSeq>>,
         DOMAIN apps' \subseteq DOMAIN apps, DOMAIN members' \subseteq DOMAIN members
  PROVE  RegisterInv'
<1>1. g \in Attendant
  BY DEF Attendant
<1>2. /\ DesksTyped' /\ Cardinality(Approvers') <= Cardinality(Approvers)
      /\ Cardinality(Approvers') \in Nat /\ Cardinality(Registrants') \in Nat
  BY <1>1, DeskMoves DEF RegisterInv
<1>3. Cardinality(Registrants') <= Cardinality(Registrants)
  <2>1. Registrants' \subseteq Registrants
    BY MembershipAssumption DEF Registrants, Attendant, RegisterInv, DesksTyped
  <2> QED
    BY <2>1, FiniteDesks, FS_Subset
<1> QED
  BY <1>2, <1>3, FiniteDesks, MembershipAssumption DEF RegisterInv, IdsKept

LEMMA RegisterTyped ==
  ASSUME RegisterInv, NEW g \in Registrant,
         \/ \E c \in Cpr, p \in Phone : RegisterArrives(g, c, p)
         \/ RegisterStep(g)
  PROVE  RegisterInv'
<1>0. g \in Attendant /\ desk[g] \in DeskLocals /\ Placed(g, desk[g])
  BY DEF Attendant, RegisterInv, DesksTyped
<1>1. ASSUME NEW c \in Cpr, NEW p \in Phone, RegisterArrives(g, c, p)
      PROVE  RegisterInv'
  <2> DEFINE l == [NoDesk EXCEPT !.pc = "manual", !.cpr = c, !.phone = p]
  <2>1. /\ l \in DeskLocals /\ Placed(g, l) /\ ~Approving(l)
        /\ l.pc # "idle" /\ NoDesk.pc = "idle"
    BY DEF NoDesk, DeskLocals, DeskPC, Placed, Approving, NumberPC, UniquePC, RegisterPC
  <2>2. desk[g].pc = "idle" /\ desk' = [desk EXCEPT ![g] = l] /\ UNCHANGED registerVars
    BY <1>1 DEF RegisterArrives, DeskAt
  <2>3. appSeq + Cardinality(Registrants) < MaxApp
    BY <1>1 DEF RegisterArrives, DeskAt, Registrants
  <2> HIDE DEF l
  <2>4. /\ DesksTyped' /\ Cardinality(Approvers') <= Cardinality(Approvers)
        /\ Cardinality(Approvers') \in Nat /\ Cardinality(Registrants') \in Nat
    BY <1>0, <2>1, <2>2, DeskMoves DEF RegisterInv
  <2>5. Registrants' = Registrants \cup {g}
    BY <2>1, <2>2 DEF Registrants, RegisterInv, DesksTyped, Attendant
  <2>6. Cardinality(Registrants') <= Cardinality(Registrants) + 1
    <3>1. Cardinality(Registrants \cup {g}) <= Cardinality(Registrants) + 1
      BY OneMore, FiniteDesks
    <3> QED
      BY <2>5, <3>1
  <2>7. RowsTyped' /\ UNCHANGED <<apps, appSeq, members, memberSeq>>
    BY <2>2 DEF RegisterInv, RowsTyped, registerVars, windowVars, appVars, memberVars
  <2> QED
    BY <2>3, <2>4, <2>6, <2>7, FiniteDesks, MembershipAssumption DEF RegisterInv, IdsKept
<1>2. ASSUME NEW here \in {"manual", "schedule"}, NEW there \in {"schedule", "members_cpr"},
             desk[g].pc = here
      PROVE  /\ [desk[g] EXCEPT !.pc = there] \in DeskLocals
             /\ Placed(g, [desk[g] EXCEPT !.pc = there])
             /\ ~Approving([desk[g] EXCEPT !.pc = there])
  BY <1>0, <1>2 DEF DeskLocals, DeskPC, Placed, NumberPC, UniquePC, RegisterPC, Approving
<1>3. CASE RegisterReadManual(g)
  BY <1>0, <1>2, <1>3, CheckTyped, Zenon DEF RegisterReadManual, DeskCheck, DeskAt
<1>4. CASE RegisterReadSchedule(g)
  BY <1>0, <1>2, <1>4, CheckTyped, Zenon DEF RegisterReadSchedule, DeskCheck, DeskAt
<1>5. CASE CheckUnique(g)
  BY <1>0, <1>5, UniqueTyped
<1>6. CASE RegisterWrite(g)
  <2>1. /\ desk[g].pc = "register_write" /\ DeskAnswer(g) /\ appSeq' = appSeq + 1
        /\ apps' = AddRow(apps, appSeq + 1,
                          [cpr |-> desk[g].cpr, phone |-> desk[g].phone, status |-> "pending"])
        /\ UNCHANGED <<regOpen, closeAt, members, memberSeq, sessions>>
    BY <1>6 DEF RegisterWrite, DeskAt, windowVars, memberVars
  <2>2. [cpr |-> desk[g].cpr, phone |-> desk[g].phone, status |-> "pending"] \in Application
    BY <1>0, <2>1 DEF Placed, NumberPC, RegisterPC, Application, AppStatus
  <2>3. RowsTyped' /\ DOMAIN apps' = DOMAIN apps \cup {appSeq + 1}
    BY <2>1, <2>2 DEF RegisterInv, RowsTyped, AddRow
  <2> QED
    BY <1>0, <2>1, <2>3, DeskAnswers, FiniteDesks, MembershipAssumption, SMTT(30) DEF RegisterInv, IdsKept
<1> QED
  BY <1>1, <1>3, <1>4, <1>5, <1>6 DEF RegisterStep

LEMMA ClerkRequestTyped ==
  ASSUME RegisterInv, NEW a \in Clerk, ClerkRequest(a)
  PROVE  RegisterInv'
<1>0. a \in Attendant
  BY DEF Attendant
<1> DEFINE Begins(l) == /\ l \in DeskLocals /\ Placed(a, l)
                        /\ desk' = [desk EXCEPT ![a] = l]
<1>1. ASSUME NEW l, Begins(l), ~Approving(l), UNCHANGED <<appVars, memberVars, sessions>>,
             regOpen' \in BOOLEAN, closeAt' \in {"none", "ahead", "past"}
      PROVE  RegisterInv'
  <2>1. RowsTyped'
    BY <1>1 DEF RegisterInv, RowsTyped, appVars, memberVars
  <2> QED
    BY <1>1, <2>1, GoesOnTyped DEF appVars, memberVars
<1>2. ASSUME NEW i \in AppId, ApproveStart(a, i)
      PROVE  RegisterInv'
  <2> DEFINE l == [NoDesk EXCEPT !.pc = "members_cpr", !.app = i, !.cpr = apps[i].cpr,
                                 !.phone = apps[i].phone]
  <2>1. apps[i] \in Application /\ i # NoApp
    BY <1>2 DEF ApproveStart, RegisterInv, RowsTyped, AppId, NoApp
  <2>2. l \in DeskLocals /\ Placed(a, l) /\ Approving(l) /\ NoDesk.pc = "idle" /\ NoDesk.app = NoApp
    BY <2>1 DEF NoDesk, DeskLocals, DeskPC, Placed, Approving, NumberPC, UniquePC, RegisterPC,
                Application
  <2>3. desk[a].pc = "idle" /\ desk' = [desk EXCEPT ![a] = l] /\ UNCHANGED registerVars
    BY <1>2 DEF ApproveStart, DeskAt
  <2> HIDE DEF l
  <2>4. Cardinality(Approvers) <= Cardinality({b \in Clerk : desk[b].app # NoApp})
    <3>1. Approvers \subseteq {b \in Clerk : desk[b].app # NoApp}
      BY DEF Approvers, Approving
    <3>2. IsFiniteSet({b \in Clerk : desk[b].app # NoApp})
      BY MembershipAssumption, FS_Subset
    <3> QED
      BY <3>1, <3>2, FS_Subset
  <2>5. memberSeq + Cardinality({b \in Clerk : desk[b].app # NoApp}) < MaxMember
    BY <1>2 DEF ApproveStart
  <2>6. Cardinality({b \in Clerk : desk[b].app # NoApp}) \in Nat
    BY MembershipAssumption, FS_Subset, FS_CardinalityType
  <2>7. DesksTyped' /\ Cardinality(Approvers') \in Nat /\ Cardinality(Registrants') \in Nat
    BY <1>0, <2>2, <2>3, DeskMoves DEF RegisterInv
  <2>8. Approvers' = Approvers \cup {a}
    BY <2>2, <2>3 DEF Approvers, RegisterInv, DesksTyped, Attendant
  <2>9. Cardinality(Approvers') <= Cardinality(Approvers) + 1
    <3>1. Cardinality(Approvers \cup {a}) <= Cardinality(Approvers) + 1
      BY OneMore, FiniteDesks
    <3> QED
      BY <2>8, <3>1
  <2>10. Registrants' = Registrants
    BY <2>3, MembershipAssumption DEF Registrants, RegisterInv, DesksTyped, Attendant
  <2>11. RowsTyped' /\ UNCHANGED <<apps, appSeq, members, memberSeq>>
    BY <2>3 DEF RegisterInv, RowsTyped, registerVars, windowVars, appVars, memberVars
  <2>12. memberSeq + Cardinality(Approvers') <= MaxMember
    BY <2>4, <2>5, <2>6, <2>7, <2>9, FiniteDesks, MembershipAssumption DEF RegisterInv, IdsKept
  <2> QED
    BY <2>7, <2>10, <2>11, <2>12 DEF RegisterInv, IdsKept
<1> USE DEF NoDesk, DeskLocals, DeskPC, Placed, Approving, NumberPC, UniquePC, RegisterPC
<1>3. ASSUME NEW i \in AppId, NEW s \in {"pending", "withheld"}, AppStatusStart(a, i, s)
      PROVE  RegisterInv'
  <2> DEFINE l == [NoDesk EXCEPT !.pc = "app_status_write", !.app = i, !.value = s]
  <2>1. l \in DeskLocals /\ Placed(a, l) /\ ~Approving(l)
    <3>1. i # NoApp
      BY DEF AppId, NoApp
    <3> QED
      BY <3>1 DEF AppStatus
  <2>2. desk' = [desk EXCEPT ![a] = l] /\ UNCHANGED registerVars
    BY <1>3 DEF AppStatusStart
  <2> QED
    BY <1>1, <2>1, <2>2 DEF registerVars, windowVars, RegisterInv, RowsTyped
<1>4. ASSUME NEW i \in AppId, DeleteApplicationStart(a, i)
      PROVE  RegisterInv'
  <2> DEFINE l == [NoDesk EXCEPT !.pc = "app_delete_write", !.app = i]
  <2>1. l \in DeskLocals /\ Placed(a, l) /\ ~Approving(l)
    <3>1. i # NoApp
      BY DEF AppId, NoApp
    <3> QED
      BY <3>1
  <2>2. desk' = [desk EXCEPT ![a] = l] /\ UNCHANGED registerVars
    BY <1>4 DEF DeleteApplicationStart
  <2> QED
    BY <1>1, <2>1, <2>2 DEF registerVars, windowVars, RegisterInv, RowsTyped
<1>5. ASSUME NEW u \in MemberId, NEW c \in Cpr, NEW p \in Phone, UpdateStart(a, u, c, p)
      PROVE  RegisterInv'
  <2> DEFINE l == [NoDesk EXCEPT !.pc = "update_cpr", !.member = u, !.cpr = c, !.phone = p]
  <2>1. l \in DeskLocals /\ Placed(a, l) /\ ~Approving(l)
    OBVIOUS
  <2>2. desk' = [desk EXCEPT ![a] = l] /\ UNCHANGED registerVars
    BY <1>5 DEF UpdateStart
  <2> QED
    BY <1>1, <2>1, <2>2 DEF registerVars, windowVars, RegisterInv, RowsTyped
<1>6. ASSUME NEW u \in MemberId, NEW s, StatusStart(a, u, s)
      PROVE  RegisterInv'
  <2> DEFINE l == [NoDesk EXCEPT !.pc = "status_write", !.member = u, !.value = s]
  <2>1. l \in DeskLocals /\ Placed(a, l) /\ ~Approving(l)
    BY <1>6 DEF StatusStart, ValidMemberStatus
  <2>2. desk' = [desk EXCEPT ![a] = l] /\ UNCHANGED registerVars
    BY <1>6 DEF StatusStart
  <2> QED
    BY <1>1, <2>1, <2>2 DEF registerVars, windowVars, RegisterInv, RowsTyped
<1>7. ASSUME NEW u \in MemberId, DeleteStart(a, u)
      PROVE  RegisterInv'
  <2> DEFINE l == [NoDesk EXCEPT !.pc = "delete_write", !.member = u, !.app = members[u].app]
  <2>1. members[u].app \in AppId \cup {NoApp}
    BY <1>7 DEF DeleteStart, RegisterInv, RowsTyped, MemberRow
  <2>2. l \in DeskLocals /\ Placed(a, l) /\ ~Approving(l)
    BY <2>1
  <2>3. desk' = [desk EXCEPT ![a] = l] /\ UNCHANGED registerVars
    BY <1>7 DEF DeleteStart
  <2> QED
    BY <1>1, <2>2, <2>3 DEF registerVars, windowVars, RegisterInv, RowsTyped
<1>8. ASSUME NEW open \in BOOLEAN, NEW schedule \in {"none", "ahead"},
             ControlStart(a, open, schedule)
      PROVE  RegisterInv'
  <2> DEFINE l == [NoDesk EXCEPT !.pc = "control_write", !.value = schedule]
  <2>1. l \in DeskLocals /\ Placed(a, l) /\ ~Approving(l)
    OBVIOUS
  <2>2. /\ desk' = [desk EXCEPT ![a] = l] /\ regOpen' = open
        /\ UNCHANGED <<closeAt, appVars, memberVars, sessions>>
    BY <1>8 DEF ControlStart
  <2> QED
    BY <1>1, <2>1, <2>2 DEF RegisterInv, RowsTyped
<1>9. CASE ClearSchedule(a)
  <2>1. closeAt' = "none" /\ UNCHANGED <<regOpen, appVars, memberVars, sessions, desk>>
    BY <1>9 DEF ClearSchedule
  <2>2. DesksTyped' /\ UNCHANGED <<Approvers, Registrants>>
    BY <2>1 DEF RegisterInv, DesksTyped, Approvers, Registrants
  <2> QED
    BY <2>1, <2>2 DEF RegisterInv, RowsTyped, IdsKept, appVars, memberVars
<1> QED
  BY <1>2, <1>3, <1>4, <1>5, <1>6, <1>7, <1>8, <1>9 DEF ClerkRequest

LEMMA ClerkStepTyped ==
  ASSUME RegisterInv, NEW a \in Clerk, ClerkStep(a)
  PROVE  RegisterInv'
<1>0. a \in Attendant /\ desk[a] \in DeskLocals /\ Placed(a, desk[a])
  BY DEF Attendant, RegisterInv, DesksTyped
<1>1. CASE CheckUnique(a)
  BY <1>0, <1>1, UniqueTyped
<1>2. CASE ApproveWrite(a)
  <2>1. desk[a].pc = "approve_write" /\ DeskAnswer(a)
    BY <1>2 DEF ApproveWrite, DeskAt
  <2> DEFINE row == [cpr |-> desk[a].cpr, phone |-> desk[a].phone, app |-> desk[a].app,
                     status |-> "active"]
  <2>2. row \in MemberRow /\ Approving(desk[a])
    BY <1>0, <2>1 DEF Placed, NumberPC, Approving, MemberRow, MemberStatus, DeskLocals
  <2>3. memberSeq' = memberSeq + 1 /\ members' = AddRow(members, memberSeq + 1, row)
    BY <1>2 DEF ApproveWrite, NextMemberId, RegisterInv, IdsKept
  <2>4. /\ SetAppStatus(desk[a].app, "approved")
        /\ UNCHANGED <<regOpen, closeAt, appSeq, sessions>>
    BY <1>2 DEF ApproveWrite, windowVars
  <2> HIDE DEF row
  <2>5. RowsTyped' /\ DOMAIN members' = DOMAIN members \cup {memberSeq + 1} /\ DOMAIN apps' = DOMAIN apps
    BY <2>2, <2>3, <2>4 DEF RegisterInv, RowsTyped, AddRow, SetAppStatus, Application, AppStatus
  <2> QED
    BY <1>0, <2>1, <2>2, <2>3, <2>4, <2>5, DeskAnswers, FiniteDesks, MembershipAssumption, SMTT(30)
       DEF RegisterInv, IdsKept
<1>3. CASE ApproveFails(a)
  BY <1>0, <1>3, AnswerTyped DEF ApproveFails, RegisterInv, RowsTyped, registerVars, windowVars,
                                 appVars, memberVars
<1>4. CASE AppStatusWrite(a)
  <2>1. /\ desk[a].value \in AppStatus /\ DeskAnswer(a) /\ SetAppStatus(desk[a].app, desk[a].value)
        /\ UNCHANGED <<regOpen, closeAt, appSeq, members, memberSeq, sessions>>
    BY <1>0, <1>4 DEF AppStatusWrite, DeskAt, Placed, AppStatus, windowVars, memberVars
  <2>2. RowsTyped' /\ DOMAIN apps' = DOMAIN apps
    BY <2>1 DEF RegisterInv, RowsTyped, SetAppStatus, Application
  <2> QED
    BY <1>0, <2>1, <2>2, AnswerTyped
<1>5. CASE DeleteApplicationWrite(a)
  <2>1. DeskAnswer(a) /\ UNCHANGED <<appSeq, members, memberSeq>>
    BY <1>5 DEF DeleteApplicationWrite, memberVars
  <2>2. RowsTyped' /\ DOMAIN apps' \subseteq DOMAIN apps
    BY <1>5 DEF DeleteApplicationWrite, DropRow, RegisterInv, RowsTyped, windowVars, memberVars
  <2> QED
    BY <1>0, <2>1, <2>2, AnswerTyped
<1>6. ASSUME NEW here \in {"update_cpr", "update_phone"}, NEW there \in {"update_phone", "update_write"},
             desk[a].pc = here
      PROVE  /\ [desk[a] EXCEPT !.pc = there] \in DeskLocals
             /\ Placed(a, [desk[a] EXCEPT !.pc = there])
             /\ ~Approving([desk[a] EXCEPT !.pc = there])
  BY <1>0, <1>6 DEF DeskLocals, DeskPC, Placed, NumberPC, UniquePC, RegisterPC, Approving
<1>7. CASE UpdateReadCpr(a)
  BY <1>0, <1>6, <1>7, CheckTyped, Zenon DEF UpdateReadCpr, DeskCheck, DeskAt
<1>8. CASE UpdateReadPhone(a)
  BY <1>0, <1>6, <1>8, CheckTyped, Zenon DEF UpdateReadPhone, DeskCheck, DeskAt
<1>9. CASE UpdateWrite(a)
  <2>1. /\ desk[a].cpr \in Cpr /\ desk[a].phone \in Phone /\ DeskAnswer(a)
        /\ UNCHANGED <<regOpen, closeAt, apps, appSeq, memberSeq, sessions>>
    BY <1>0, <1>9 DEF UpdateWrite, DeskAt, Placed, NumberPC, windowVars, appVars
  <2>2. /\ DOMAIN members' = DOMAIN members
        /\ \A u \in DOMAIN members : members'[u] \in
             {members[u], [members[u] EXCEPT !.cpr = desk[a].cpr, !.phone = desk[a].phone]}
    BY <1>9 DEF UpdateWrite
  <2>3. RowsTyped'
    BY <2>1, <2>2 DEF RegisterInv, RowsTyped, MemberRow
  <2> QED
    BY <1>0, <2>1, <2>2, <2>3, AnswerTyped
<1>10. CASE StatusWrite(a)
  <2>1. /\ desk[a].pc = "status_write" /\ desk[a].value \in MemberStatus
        /\ UNCHANGED <<regOpen, closeAt, apps, appSeq, memberSeq, sessions>>
    BY <1>0, <1>10 DEF StatusWrite, DeskAt, Placed, windowVars, appVars
  <2>2. /\ DOMAIN members' = DOMAIN members
        /\ \A u \in DOMAIN members : members'[u] \in
             {members[u], [members[u] EXCEPT !.status = desk[a].value]}
    BY <1>10 DEF StatusWrite
  <2>3. RowsTyped'
    BY <2>1, <2>2 DEF RegisterInv, RowsTyped, MemberRow
  <2>4. DeskAnswer(a) \/ DeskGoto(a, "status_sessions")
    BY <1>10 DEF StatusWrite
  <2> DEFINE l == [desk[a] EXCEPT !.pc = "status_sessions"]
  <2>5. l \in DeskLocals /\ Placed(a, l) /\ ~Approving(l)
    <3>1. l \in DeskLocals /\ l.pc = "status_sessions"
      BY <1>0 DEF DeskLocals, DeskPC
    <3> HIDE DEF l
    <3> QED
      BY <3>1 DEF Placed, NumberPC, UniquePC, RegisterPC, Approving
  <2>6. CASE DeskGoto(a, "status_sessions")
    <3>1. desk' = [desk EXCEPT ![a] = l]
      BY <2>6 DEF DeskGoto
    <3> HIDE DEF l
    <3> QED
      BY <2>1, <2>2, <2>3, <2>5, <3>1, GoesOnTyped
  <2>7. CASE DeskAnswer(a)
    BY <1>0, <2>1, <2>2, <2>3, <2>7, AnswerTyped
  <2> QED
    BY <2>4, <2>6, <2>7
<1>11. CASE StatusSessions(a)
  <2>1. /\ DeskAnswer(a) /\ sessions' \subseteq sessions
        /\ UNCHANGED <<regOpen, closeAt, apps, appSeq, members, memberSeq>>
    BY <1>11 DEF StatusSessions, DropSessionsOf, windowVars, appVars, memberVars
  <2>2. RowsTyped'
    BY <2>1 DEF RegisterInv, RowsTyped
  <2> QED
    BY <1>0, <2>1, <2>2, AnswerTyped
<1>12. CASE DeleteWrite(a)
  <2>1. /\ DeskAnswer(a) /\ sessions' \subseteq sessions
        /\ UNCHANGED <<regOpen, closeAt, appSeq, memberSeq>>
    BY <1>12 DEF DeleteWrite, DropSessionsOf, windowVars
  <2>2. RowsTyped' /\ DOMAIN apps' \subseteq DOMAIN apps /\ DOMAIN members' \subseteq DOMAIN members
    BY <1>12, <2>1 DEF DeleteWrite, DropRow, RegisterInv, RowsTyped
  <2> QED
    BY <1>0, <2>1, <2>2, AnswerTyped
<1>13. CASE ControlWrite(a)
  <2>1. /\ DeskAnswer(a) /\ closeAt' \in {"none", "ahead"}
        /\ UNCHANGED <<regOpen, apps, appSeq, members, memberSeq, sessions>>
    BY <1>0, <1>13 DEF ControlWrite, DeskAt, Placed, appVars, memberVars
  <2>2. RowsTyped'
    BY <2>1 DEF RegisterInv, RowsTyped
  <2> QED
    BY <1>0, <2>1, <2>2, AnswerTyped
<1> QED
  BY <1>1, <1>2, <1>3, <1>4, <1>5, <1>7, <1>8, <1>9, <1>10, <1>11, <1>12, <1>13 DEF ClerkStep

LEMMA RestartTyped ==
  ASSUME RegisterInv, DeskRestart
  PROVE  RegisterInv'
<1>1. NoDesk \in DeskLocals /\ NoDesk.pc = "idle"
  BY DEF NoDesk, DeskLocals, DeskPC
<1>2. DesksTyped' /\ \A g \in Attendant : desk'[g].pc = "idle"
  BY <1>1 DEF DeskRestart, DesksTyped, Placed, NumberPC, UniquePC, RegisterPC
<1>3. Approvers' = {} /\ Registrants' = {}
  BY <1>2 DEF Approvers, Registrants, Approving, UniquePC, Attendant
<1>4. UNCHANGED <<regOpen, closeAt, apps, appSeq, sessions>>
  BY DEF DeskRestart, windowVars, appVars
<1>5. CASE UNCHANGED memberVars
  BY <1>2, <1>3, <1>4, <1>5, FS_EmptySet, FiniteDesks, MembershipAssumption
     DEF RegisterInv, RowsTyped, IdsKept, memberVars
<1>6. CASE ~UNCHANGED memberVars
  <2>1. /\ memberSeq + Len(Seed) <= MaxMember /\ memberSeq' = memberSeq + Len(Seed)
        /\ members' = [u \in (memberSeq + 1) .. (memberSeq + Len(Seed)) |-> Imported(Seed[u - memberSeq])]
    BY <1>6 DEF DeskRestart, SeedMembers
  <2>2. memberSeq \in Nat
    BY DEF RegisterInv, IdsKept
  <2>3. \A u \in DOMAIN members' : members'[u] \in MemberRow
    BY <2>1, <2>2, SeedRows
  <2>4. DOMAIN members' \subseteq 1 .. memberSeq'
    BY <2>1, <2>2, SeedRows
  <2>5. RowsTyped'
    BY <1>4, <2>3 DEF RegisterInv, RowsTyped
  <2>6. IdsKept'
    BY <1>3, <1>4, <2>1, <2>2, <2>4, SeedRows, FS_EmptySet, FiniteDesks, MembershipAssumption
       DEF RegisterInv, IdsKept
  <2> QED
    BY <1>2, <2>5, <2>6 DEF RegisterInv
<1> QED
  BY <1>5, <1>6

LEMMA RegisterInvStep ==
  ASSUME RegisterInv, [MembershipNext]_membershipVars
  PROVE  RegisterInv'
<1>1. CASE DeadlinePasses \/ UNCHANGED membershipVars
  <2>1. UNCHANGED <<regOpen, apps, appSeq, members, memberSeq, sessions, desk>>
        /\ closeAt' \in {closeAt, "past"}
    BY <1>1 DEF DeadlinePasses, membershipVars, registerVars, windowVars, appVars, memberVars
  <2>2. DesksTyped' /\ UNCHANGED <<Approvers, Registrants>>
    BY <2>1 DEF RegisterInv, DesksTyped, Approvers, Registrants
  <2> QED
    BY <2>1, <2>2 DEF RegisterInv, RowsTyped, IdsKept
<1> QED
  BY <1>1, RegisterTyped, ClerkRequestTyped, ClerkStepTyped, RestartTyped DEF MembershipNext, DeskNext

LEMMA RegisterInvariant == MembershipSpec => []RegisterInv
<1>1. RegisterInv /\ [MembershipNext]_membershipVars => RegisterInv'
  BY RegisterInvStep
<1> QED
  BY RegisterInvInit, <1>1, PTL DEF MembershipSpec

LEMMA RegisterTypes == ASSUME RegisterInv PROVE MembershipTypeOK
<1>1. memberSeq \in 0 .. MaxMember /\ appSeq \in 0 .. MaxApp
  BY FiniteDesks, MembershipAssumption DEF RegisterInv, IdsKept
<1>2. DOMAIN apps \subseteq AppId /\ DOMAIN members \subseteq MemberId
  BY <1>1, MembershipAssumption DEF RegisterInv, IdsKept, AppId, MemberId
<1>3. \A g \in Attendant : desk[g].pc \in UniquePC => desk[g].cpr # None /\ desk[g].phone # None
  BY MembershipAssumption DEF RegisterInv, DesksTyped, Placed, NumberPC
<1> QED
  BY <1>1, <1>2, <1>3 DEF RegisterInv, DesksTyped, RowsTyped, MembershipTypeOK

\* Applications, members, sessions and the locals of every request keep their types, and no
\* request on its way finds the ids used up.
THEOREM MembershipTyped == MembershipSpec => []MembershipTypeOK
  BY RegisterInvariant, RegisterTypes, PTL

-----------------------------------------------------------------------------
(* What every step does to the desks and to the rows, seen from those of others. *)

\* Locals just read: of a member who is there, or of an application there is to decide.
Fresh(l) ==
  /\ l.pc = "delete_write" => l.member \in DOMAIN members /\ l.app = members[l.member].app
  /\ Approving(l) => /\ l.app \in DOMAIN apps /\ apps[l.app].status = "pending"
                     /\ l.cpr = apps[l.app].cpr
  /\ l.pc \in {"app_status_write", "app_delete_write"} =>
       /\ l.app \in DOMAIN apps /\ apps[l.app].status # "approved"
       /\ l.pc = "app_status_write" /\ l.value = "pending" => apps[l.app].status = "withheld"

\* Locals l of a request that had the locals k and goes on, or is answered.
Onward(k, l) ==
  /\ l.pc \notin {"delete_write", "app_status_write", "app_delete_write"}
  /\ Approving(l) => Approving(k) /\ l.app = k.app /\ l.cpr = k.cpr

LEMMA OneDesk ==
  ASSUME RegisterInv, NEW g \in Attendant, NEW l,
         desk' = [desk EXCEPT ![g] = l], Fresh(l) \/ Onward(desk[g], l)
  PROVE  \A h \in Attendant : desk'[h] = desk[h] \/ Fresh(desk'[h]) \/ Onward(desk[h], desk'[h])
  BY DEF RegisterInv, DesksTyped

LEMMA CheckOnward ==
  ASSUME RegisterInv, NEW g \in Attendant, NEW here, NEW there, NEW condition,
         there \notin {"delete_write", "app_status_write", "app_delete_write"},
         Approving([desk[g] EXCEPT !.pc = there]) => Approving(desk[g]),
         DeskCheck(g, here, there, condition)
  PROVE  \A h \in Attendant : desk'[h] = desk[h] \/ Fresh(desk'[h]) \/ Onward(desk[h], desk'[h])
<1> DEFINE l == [desk[g] EXCEPT !.pc = there]
<1>1. Onward(desk[g], l)
  BY DEF Onward, RegisterInv, DesksTyped, DeskLocals
<1>2. Onward(desk[g], NoDesk)
  BY DEF Onward, NoDesk, Approving, UniquePC
<1>3. desk' = [desk EXCEPT ![g] = l] \/ desk' = [desk EXCEPT ![g] = NoDesk]
  BY Zenon DEF DeskCheck, DeskGoto, DeskAnswer
<1> HIDE DEF l
<1> QED
  BY <1>1, <1>2, <1>3, OneDesk

LEMMA UniqueOnward ==
  ASSUME RegisterInv, NEW g \in Attendant, CheckUnique(g)
  PROVE  \A h \in Attendant : desk'[h] = desk[h] \/ Fresh(desk'[h]) \/ Onward(desk[h], desk'[h])
<1>0. desk[g] \in DeskLocals
  BY DEF RegisterInv, DesksTyped
<1>1. ASSUME NEW there, desk[g].pc \in UniquePC
      PROVE  Approving([desk[g] EXCEPT !.pc = there]) => Approving(desk[g])
  BY <1>0, <1>1 DEF Approving, DeskLocals
<1>2. desk[g].pc \in UniquePC
  BY Zenon DEF CheckUnique, UniqueReadMembersCpr, UniqueReadAppsCpr, UniqueReadMembersPhone,
               UniqueReadAppsPhone, DeskCheck, DeskAt, UniquePC
<1>3. CASE UniqueReadMembersCpr(g)
  BY <1>1, <1>2, <1>3, CheckOnward DEF UniqueReadMembersCpr
<1>4. CASE UniqueReadAppsCpr(g)
  BY <1>1, <1>2, <1>4, CheckOnward DEF UniqueReadAppsCpr
<1>5. CASE UniqueReadMembersPhone(g)
  BY <1>1, <1>2, <1>5, CheckOnward DEF UniqueReadMembersPhone
<1>6. CASE UniqueReadAppsPhone(g)
  BY <1>1, <1>2, <1>6, CheckOnward DEF UniqueReadAppsPhone
<1> QED
  BY <1>3, <1>4, <1>5, <1>6 DEF CheckUnique

LEMMA DesksMove ==
  ASSUME RegisterInv, [MembershipNext]_membershipVars
  PROVE  \A h \in Attendant : desk'[h] = desk[h] \/ Fresh(desk'[h]) \/ Onward(desk[h], desk'[h])
<1> DEFINE Moved == \A h \in Attendant :
                      desk'[h] = desk[h] \/ Fresh(desk'[h]) \/ Onward(desk[h], desk'[h])
<1>0. \A k : Onward(k, NoDesk)
  BY DEF Onward, NoDesk, Approving, UniquePC
<1>1. ASSUME NEW g \in Attendant, DeskAnswer(g)
      PROVE  Moved
  BY <1>0, <1>1, OneDesk DEF DeskAnswer
<1>2. ASSUME NEW g \in Registrant, RegisterStep(g) \/ \E c \in Cpr, p \in Phone : RegisterArrives(g, c, p)
      PROVE  Moved
  <2>0. g \in Attendant /\ desk[g] \in DeskLocals /\ Placed(g, desk[g])
    BY DEF Attendant, RegisterInv, DesksTyped
  <2>1. CASE RegisterReadManual(g)
    <3>1. ~Approving([desk[g] EXCEPT !.pc = "schedule"])
      BY <2>0 DEF Approving, UniquePC, DeskLocals
    <3> QED
      BY <2>0, <2>1, <3>1, CheckOnward DEF RegisterReadManual
  <2>2. CASE RegisterReadSchedule(g)
    <3>1. desk[g].pc = "schedule"
      BY <2>2, Zenon DEF RegisterReadSchedule, DeskCheck, DeskAt
    <3>2. ~Approving([desk[g] EXCEPT !.pc = "members_cpr"])
      BY <2>0, <3>1 DEF Approving, Placed, RegisterPC, DeskLocals
    <3> QED
      BY <2>0, <2>2, <3>2, CheckOnward DEF RegisterReadSchedule
  <2>3. CASE RegisterWrite(g)
    BY <1>1, <2>0, <2>3 DEF RegisterWrite
  <2>4. ASSUME NEW c \in Cpr, NEW p \in Phone, RegisterArrives(g, c, p)
        PROVE  Moved
    <3> DEFINE l == [NoDesk EXCEPT !.pc = "manual", !.cpr = c, !.phone = p]
    <3>1. Onward(desk[g], l) /\ desk' = [desk EXCEPT ![g] = l]
      BY <2>4 DEF RegisterArrives, Onward, NoDesk, Approving, UniquePC
    <3> HIDE DEF l
    <3> QED
      BY <2>0, <3>1, OneDesk
  <2> QED
    BY <1>2, <2>0, <2>1, <2>2, <2>3, <2>4, UniqueOnward DEF RegisterStep
<1>3. ASSUME NEW a \in Clerk, ClerkRequest(a)
      PROVE  Moved
  <2>0. a \in Attendant
    BY DEF Attendant
  <2> DEFINE Begins(l) == desk' = [desk EXCEPT ![a] = l] /\ (Fresh(l) \/ Onward(desk[a], l))
  <2>1. ASSUME NEW l, Begins(l)
        PROVE  Moved
    BY <2>0, <2>1, OneDesk
  <2>2. ASSUME NEW i \in AppId, ApproveStart(a, i)
        PROVE  Moved
    <3> DEFINE l == [NoDesk EXCEPT !.pc = "members_cpr", !.app = i, !.cpr = apps[i].cpr,
                                   !.phone = apps[i].phone]
    <3>1. Begins(l)
      BY <2>2 DEF ApproveStart, Fresh, NoDesk, Approving
    <3> QED
      BY <2>1, <3>1
  <2>3. ASSUME NEW i \in AppId, NEW s \in {"pending", "withheld"}, AppStatusStart(a, i, s)
        PROVE  Moved
    <3> DEFINE l == [NoDesk EXCEPT !.pc = "app_status_write", !.app = i, !.value = s]
    <3>1. Begins(l)
      BY <2>3 DEF AppStatusStart, Fresh, NoDesk, Approving, UniquePC
    <3> QED
      BY <2>1, <3>1
  <2>4. ASSUME NEW i \in AppId, DeleteApplicationStart(a, i)
        PROVE  Moved
    <3> DEFINE l == [NoDesk EXCEPT !.pc = "app_delete_write", !.app = i]
    <3>1. Begins(l)
      BY <2>4 DEF DeleteApplicationStart, Fresh, NoDesk, Approving, UniquePC
    <3> QED
      BY <2>1, <3>1
  <2>5. ASSUME NEW u \in MemberId, DeleteStart(a, u)
        PROVE  Moved
    <3> DEFINE l == [NoDesk EXCEPT !.pc = "delete_write", !.member = u, !.app = members[u].app]
    <3>1. Begins(l)
      BY <2>5 DEF DeleteStart, Fresh, NoDesk, Approving, UniquePC
    <3> QED
      BY <2>1, <3>1
  <2>6. ASSUME NEW l, desk' = [desk EXCEPT ![a] = l],
               l.pc \in {"update_cpr", "status_write", "control_write"}
        PROVE  Moved
    BY <2>1, <2>6 DEF Onward, Approving, UniquePC
  <2>7. ASSUME NEW u \in MemberId, NEW c \in Cpr, NEW p \in Phone, UpdateStart(a, u, c, p)
        PROVE  Moved
    BY <2>6, <2>7 DEF UpdateStart, NoDesk
  <2>8. ASSUME NEW u \in MemberId, NEW s, StatusStart(a, u, s)
        PROVE  Moved
    BY <2>6, <2>8 DEF StatusStart, NoDesk
  <2>9. ASSUME NEW open, NEW schedule, ControlStart(a, open, schedule)
        PROVE  Moved
    BY <2>6, <2>9 DEF ControlStart, NoDesk
  <2>10. CASE ClearSchedule(a)
    BY <2>10 DEF ClearSchedule
  <2> QED
    BY <1>3, <2>2, <2>3, <2>4, <2>5, <2>7, <2>8, <2>9, <2>10 DEF ClerkRequest
<1>4. ASSUME NEW a \in Clerk, ClerkStep(a)
      PROVE  Moved
  <2>0. a \in Attendant /\ desk[a] \in DeskLocals
    BY DEF Attendant, RegisterInv, DesksTyped
  <2>1. \A there : there \notin UniquePC \cup {"approve_write"} => ~Approving([desk[a] EXCEPT !.pc = there])
    BY <2>0 DEF Approving, DeskLocals
  <2>2. CASE UpdateReadCpr(a)
    <3>1. ~Approving([desk[a] EXCEPT !.pc = "update_phone"])
      BY <2>1 DEF UniquePC
    <3> QED
      BY <2>0, <2>2, <3>1, CheckOnward DEF UpdateReadCpr
  <2>3. CASE UpdateReadPhone(a)
    <3>1. ~Approving([desk[a] EXCEPT !.pc = "update_write"])
      BY <2>1 DEF UniquePC
    <3> QED
      BY <2>0, <2>3, <3>1, CheckOnward DEF UpdateReadPhone
  <2>4. CASE DeskGoto(a, "status_sessions")
    <3> DEFINE l == [desk[a] EXCEPT !.pc = "status_sessions"]
    <3>1. Onward(desk[a], l)
      BY <2>0, <2>1 DEF Onward, DeskLocals, UniquePC
    <3>2. desk' = [desk EXCEPT ![a] = l]
      BY <2>4 DEF DeskGoto
    <3> HIDE DEF l
    <3> QED
      BY <2>0, <3>1, <3>2, OneDesk
  <2>5. CASE CheckUnique(a)
    BY <2>0, <2>5, UniqueOnward
  <2> QED
    BY <1>1, <1>4, <2>0, <2>2, <2>3, <2>4, <2>5
       DEF ClerkStep, ApproveWrite, ApproveFails, AppStatusWrite, DeleteApplicationWrite, UpdateWrite,
           StatusWrite, StatusSessions, DeleteWrite, ControlWrite
<1>5. CASE DeskRestart
  BY <1>0, <1>5 DEF DeskRestart
<1>6. CASE DeadlinePasses \/ UNCHANGED membershipVars
  BY <1>6 DEF DeadlinePasses, membershipVars
<1> QED
  BY <1>2, <1>3, <1>4, <1>5, <1>6 DEF MembershipNext, DeskNext

LEMMA RowsMove ==
  ASSUME RegisterInv, [MembershipNext]_membershipVars
  PROVE  \/ UNCHANGED <<apps, appSeq, members, memberSeq>>
         \/ \E g \in Registrant : RegisterWrite(g)
         \/ \E a \in Clerk : ApproveWrite(a) \/ AppStatusWrite(a) \/ DeleteApplicationWrite(a)
                             \/ UpdateWrite(a) \/ StatusWrite(a) \/ DeleteWrite(a)
         \/ DeskRestart
<1> DEFINE Still == UNCHANGED <<apps, appSeq, members, memberSeq>>
<1>0. UNCHANGED registerVars => Still
  BY DEF registerVars, appVars, memberVars
<1>1. ASSUME NEW g, NEW here, NEW there, NEW condition, DeskCheck(g, here, there, condition)
      PROVE  Still
  <2>1. UNCHANGED registerVars
    BY <1>1, Zenon DEF DeskCheck
  <2> QED
    BY <1>0, <2>1
<1>2. ASSUME NEW g, CheckUnique(g)
      PROVE  Still
  BY <1>1, <1>2, Zenon DEF CheckUnique, UniqueReadMembersCpr, UniqueReadAppsCpr, UniqueReadMembersPhone,
                    UniqueReadAppsPhone
<1>3. ASSUME NEW g \in Registrant, RegisterStep(g), ~RegisterWrite(g)
      PROVE  Still
  BY <1>1, <1>2, <1>3, Zenon DEF RegisterStep, RegisterReadManual, RegisterReadSchedule
<1>4. ASSUME NEW a \in Clerk, ClerkRequest(a)
      PROVE  Still
  BY <1>0, <1>4 DEF ClerkRequest, ApproveStart, AppStatusStart, DeleteApplicationStart, UpdateStart,
                    StatusStart, DeleteStart, ControlStart, ClearSchedule, appVars, memberVars
<1>5. ASSUME NEW a \in Clerk, ClerkStep(a),
             ~ApproveWrite(a), ~AppStatusWrite(a), ~DeleteApplicationWrite(a), ~UpdateWrite(a),
             ~StatusWrite(a), ~DeleteWrite(a)
      PROVE  Still
  <2>1. UpdateReadCpr(a) \/ UpdateReadPhone(a) => Still
    BY <1>1, Zenon DEF UpdateReadCpr, UpdateReadPhone
  <2> QED
    BY <1>0, <1>2, <1>5, <2>1 DEF ClerkStep, ApproveFails, StatusSessions, ControlWrite, appVars, memberVars
<1>6. DeadlinePasses \/ UNCHANGED membershipVars => Still
  BY DEF DeadlinePasses, membershipVars, registerVars, appVars, memberVars
<1>7. \A g \in Registrant, c \in Cpr, p \in Phone : RegisterArrives(g, c, p) => Still
  BY <1>0 DEF RegisterArrives
<1> HIDE DEF Still
<1>8. CASE DeskNext
  BY <1>8, <1>3, <1>4, <1>5, <1>6, <1>7 DEF DeskNext, Still
<1> QED
  BY <1>6, <1>8 DEF MembershipNext, Still

\* An id stays with its row: whoever has one handed out earlier has the application they had.
LEMMA MembersKept ==
  ASSUME RegisterInv, [MembershipNext]_membershipVars
  PROVE  /\ memberSeq \in Nat /\ memberSeq' \in Nat /\ memberSeq <= memberSeq'
         /\ \A u \in DOMAIN members : u <= memberSeq
         /\ \A u \in DOMAIN members' : u <= memberSeq =>
              u \in DOMAIN members /\ members'[u].app = members[u].app
<1>0. /\ memberSeq \in Nat /\ \A u \in DOMAIN members : u \in 1 .. memberSeq
      /\ \A u \in DOMAIN members : members[u] \in MemberRow
  BY DEF RegisterInv, IdsKept, RowsTyped
<1>1. CASE UNCHANGED <<apps, appSeq, members, memberSeq>>
  BY <1>0, <1>1
<1>2. ASSUME NEW g \in Registrant, RegisterWrite(g)
      PROVE  UNCHANGED <<members, memberSeq>>
  BY <1>2 DEF RegisterWrite, memberVars
<1>3. ASSUME NEW a \in Clerk, ApproveWrite(a)
      PROVE  memberSeq' = memberSeq + 1
             /\ \A u \in DOMAIN members' : u # memberSeq + 1 => u \in DOMAIN members /\ members'[u] = members[u]
  BY <1>0, <1>3 DEF ApproveWrite, NextMemberId, AddRow
<1>4. ASSUME NEW a \in Clerk, AppStatusWrite(a) \/ DeleteApplicationWrite(a)
      PROVE  UNCHANGED <<members, memberSeq>>
  BY <1>4 DEF AppStatusWrite, DeleteApplicationWrite, memberVars
<1>5. ASSUME NEW a \in Clerk, UpdateWrite(a) \/ StatusWrite(a)
      PROVE  memberSeq' = memberSeq /\ DOMAIN members' = DOMAIN members
             /\ \A u \in DOMAIN members : members'[u].app = members[u].app
  BY <1>0, <1>5 DEF UpdateWrite, StatusWrite, MemberRow
<1>6. ASSUME NEW a \in Clerk, DeleteWrite(a)
      PROVE  memberSeq' = memberSeq
             /\ \A u \in DOMAIN members' : u \in DOMAIN members /\ members'[u] = members[u]
  BY <1>6 DEF DeleteWrite, DropRow
<1>7. CASE DeskRestart
  BY <1>0, <1>7, SeedRows DEF DeskRestart, SeedMembers, memberVars
<1> QED
  BY <1>0, <1>1, <1>2, <1>3, <1>4, <1>5, <1>6, <1>7, RowsMove

-----------------------------------------------------------------------------
(* An approved application has its member *)

\* The application that DeleteUser read is still its member's, if the member is there.
DecisionInv ==
  /\ ApprovedHasMember
  /\ \A a \in Attendant : desk[a].pc = "delete_write" =>
       /\ desk[a].member <= memberSeq
       /\ desk[a].member \in DOMAIN members => members[desk[a].member].app = desk[a].app

LEMMA DeletesKept ==
  ASSUME RegisterInv, DecisionInv, [MembershipNext]_membershipVars, NEW a \in Attendant,
         desk'[a].pc = "delete_write"
  PROVE  /\ desk'[a].member <= memberSeq'
         /\ desk'[a].member \in DOMAIN members' => members'[desk'[a].member].app = desk'[a].app
<1>1. desk'[a].member <= memberSeq
      /\ (desk'[a].member \in DOMAIN members => members[desk'[a].member].app = desk'[a].app)
  BY DesksMove, MembersKept DEF DecisionInv, Fresh, Onward
<1>2. desk'[a].member \in Nat
  <2>1. desk'[a] \in DeskLocals
    BY RegisterInvStep DEF RegisterInv, DesksTyped
  <2>2. desk'[a].member \in MemberId \cup {NoMember}
    BY <2>1 DEF DeskLocals
  <2> QED
    BY <2>2, MembershipAssumption DEF MemberId, NoMember
<1> QED
  BY <1>1, <1>2, MembersKept

LEMMA ApprovedKept ==
  ASSUME RegisterInv, DecisionInv, [MembershipNext]_membershipVars
  PROVE  ApprovedHasMember'
<1>0. /\ memberSeq \in Nat /\ \A u \in DOMAIN members : u \in 1 .. memberSeq
      /\ \A u \in DOMAIN members : members[u] \in MemberRow
      /\ \A i \in DOMAIN apps : apps[i] \in Application
      /\ \A a \in Clerk : a \in Attendant /\ Placed(a, desk[a])
  BY DEF RegisterInv, IdsKept, RowsTyped, DesksTyped, Attendant
<1>1. CASE UNCHANGED <<apps, appSeq, members, memberSeq>>
  BY <1>1 DEF DecisionInv, ApprovedHasMember
<1>2. ASSUME NEW g \in Registrant, RegisterWrite(g)
      PROVE  ApprovedHasMember'
  BY <1>2 DEF RegisterWrite, AddRow, memberVars, DecisionInv, ApprovedHasMember
<1>3. ASSUME NEW a \in Clerk, ApproveWrite(a)
      PROVE  ApprovedHasMember'
  <2>1. /\ members' = AddRow(members, memberSeq + 1, [cpr |-> desk[a].cpr, phone |-> desk[a].phone,
                                           app |-> desk[a].app, status |-> "active"])
        /\ apps' = [j \in DOMAIN apps |-> IF j = desk[a].app THEN [apps[j] EXCEPT !.status = "approved"]
                                          ELSE apps[j]]
    BY <1>3 DEF ApproveWrite, NextMemberId, SetAppStatus
  <2>2. /\ memberSeq + 1 \in DOMAIN members' /\ members'[memberSeq + 1].app = desk[a].app
        /\ \A u \in DOMAIN members : u \in DOMAIN members' /\ members'[u] = members[u]
    BY <1>0, <2>1 DEF AddRow
  <2>3. \A i \in DOMAIN apps' : i \in DOMAIN apps /\ (i # desk[a].app => apps'[i] = apps[i])
    BY <2>1
  <2> QED
    BY <2>2, <2>3 DEF DecisionInv, ApprovedHasMember
<1>4. ASSUME NEW a \in Clerk, AppStatusWrite(a)
      PROVE  ApprovedHasMember'
  <2>1. desk[a].value # "approved" /\ SetAppStatus(desk[a].app, desk[a].value) /\ UNCHANGED members
    BY <1>0, <1>4 DEF AppStatusWrite, DeskAt, Placed, memberVars
  <2> QED
    BY <1>0, <2>1 DEF SetAppStatus, DecisionInv, ApprovedHasMember, Application
<1>5. ASSUME NEW a \in Clerk, DeleteApplicationWrite(a)
      PROVE  ApprovedHasMember'
  BY <1>5 DEF DeleteApplicationWrite, DropRow, memberVars, DecisionInv, ApprovedHasMember
<1>6. ASSUME NEW a \in Clerk, UpdateWrite(a) \/ StatusWrite(a)
      PROVE  ApprovedHasMember'
  <2>1. apps' = apps /\ DOMAIN members' = DOMAIN members
        /\ \A u \in DOMAIN members : members'[u].app = members[u].app
    BY <1>0, <1>6 DEF UpdateWrite, StatusWrite, MemberRow, appVars
  <2> QED
    BY <2>1 DEF DecisionInv, ApprovedHasMember
<1>7. ASSUME NEW a \in Clerk, DeleteWrite(a)
      PROVE  ApprovedHasMember'
  <2>1. /\ desk[a].pc = "delete_write"
        /\ members' = DropRow(members, desk[a].member) /\ apps' = DropRow(apps, desk[a].app)
    BY <1>7 DEF DeleteWrite, DeskAt
  <2>2. desk[a].member \in DOMAIN members => members[desk[a].member].app = desk[a].app
    BY <1>0, <2>1 DEF DecisionInv
  <2>3. \A i \in DOMAIN apps' : i \in DOMAIN apps /\ i # desk[a].app /\ apps'[i] = apps[i]
    BY <2>1 DEF DropRow
  <2>4. \A u \in DOMAIN members : u # desk[a].member => u \in DOMAIN members' /\ members'[u] = members[u]
    BY <2>1 DEF DropRow
  <2> QED
    BY <2>2, <2>3, <2>4 DEF DecisionInv, ApprovedHasMember
<1>8. CASE DeskRestart
  BY <1>8 DEF DeskRestart, SeedMembers, memberVars, appVars, DecisionInv, ApprovedHasMember
<1> QED
  BY <1>1, <1>2, <1>3, <1>4, <1>5, <1>6, <1>7, <1>8, RowsMove

LEMMA DecisionStart == MembershipInit => DecisionInv
<1> SUFFICES ASSUME MembershipInit PROVE DecisionInv
  OBVIOUS
<1>1. \A a \in Attendant : desk[a].pc = "idle"
  BY DEF MembershipInit, NoDesk
<1>2. DOMAIN apps = {}
  BY DEF MembershipInit
<1> QED
  BY <1>1, <1>2 DEF DecisionInv, ApprovedHasMember

LEMMA DecisionStep ==
  ASSUME RegisterInv, DecisionInv, [MembershipNext]_membershipVars
  PROVE  DecisionInv'
BY ApprovedKept, DeletesKept DEF DecisionInv

\* An approved application has its member at every moment (ApproveApplication, DeleteUser),
\* whatever requests of the form and of the admins run at once.
THEOREM ApprovedAlwaysHasMember == MembershipSpec => []ApprovedHasMember
<1>1. RegisterInv /\ DecisionInv /\ [MembershipNext]_membershipVars => DecisionInv'
  BY DecisionStep
<1>2. DecisionInv => ApprovedHasMember
  BY DEF DecisionInv
<1> QED
  BY RegisterInvariant, DecisionStart, <1>1, <1>2, PTL DEF MembershipSpec

-----------------------------------------------------------------------------
(* An application makes one member, while nobody corrects a personal number: then *)
(* everything that speaks of an application speaks of the same number.            *)

Claim(i, c) ==
  \/ i \in DOMAIN apps /\ apps[i].cpr = c
  \/ \E u \in DOMAIN members : i # NoApp /\ members[u].app = i /\ members[u].cpr = c
  \/ \E g \in Attendant : Approving(desk[g]) /\ desk[g].app = i /\ desk[g].cpr = c

UpdatePC == {"update_cpr", "update_phone", "update_write"}

OneNumberInv ==
  /\ \A g \in Attendant : desk[g].pc \notin UpdatePC
  /\ \A i, c : Claim(i, c) => i \in Nat /\ i <= appSeq
  /\ \A i, c, d : Claim(i, c) /\ Claim(i, d) => c = d
  /\ OneMemberPerApplication

LEMMA NoUpdates ==
  ASSUME RegisterInv, "update" \notin Duties, [MembershipNext]_membershipVars,
         \A g \in Attendant : desk[g].pc \notin UpdatePC
  PROVE  \A g \in Attendant : desk'[g].pc \notin UpdatePC
<1> DEFINE StillNone == \A g \in Attendant : desk'[g].pc \notin UpdatePC
<1>0. \A g \in Attendant : desk[g].pc \notin UpdatePC
  OBVIOUS
<1>1. ASSUME NEW g \in Attendant, NEW l, l.pc \notin UpdatePC, desk' = [desk EXCEPT ![g] = l]
      PROVE  StillNone
  BY <1>0, <1>1 DEF RegisterInv, DesksTyped
<1>2. ASSUME NEW g \in Attendant, DeskAnswer(g)
      PROVE  StillNone
  BY <1>1, <1>2 DEF DeskAnswer, NoDesk, UpdatePC
<1>3. ASSUME NEW g \in Attendant, NEW there, there \notin UpdatePC, DeskGoto(g, there)
      PROVE  StillNone
  <2>1. [desk[g] EXCEPT !.pc = there].pc = there
    BY DEF RegisterInv, DesksTyped, DeskLocals
  <2> QED
    BY <1>1, <1>3, <2>1 DEF DeskGoto
<1>4. ASSUME NEW g \in Attendant, NEW here, NEW there, NEW condition, there \notin UpdatePC,
             DeskCheck(g, here, there, condition)
      PROVE  StillNone
  <2>1. DeskGoto(g, there) \/ DeskAnswer(g)
    BY <1>4, Zenon DEF DeskCheck
  <2> QED
    BY <1>2, <1>3, <1>4, <2>1
<1>5. ASSUME NEW g \in Attendant, CheckUnique(g)
      PROVE  StillNone
  <2>1. \A t \in UniquePC \cup {"register_write", "approve_write"} : t \notin UpdatePC
    BY DEF UniquePC, UpdatePC
  <2>2. UniqueReadMembersCpr(g) => StillNone
    BY <1>4, <2>1 DEF UniqueReadMembersCpr, UniquePC
  <2>3. UniqueReadAppsCpr(g) => StillNone
    BY <1>4, <2>1 DEF UniqueReadAppsCpr, UniquePC
  <2>4. UniqueReadMembersPhone(g) => StillNone
    BY <1>4, <2>1 DEF UniqueReadMembersPhone, UniquePC
  <2>5. UniqueReadAppsPhone(g) => StillNone
    BY <1>4, <2>1 DEF UniqueReadAppsPhone
  <2> QED
    BY <1>5, <2>2, <2>3, <2>4, <2>5 DEF CheckUnique
<1>6. ASSUME NEW g \in Registrant, RegisterStep(g) \/ \E c \in Cpr, p \in Phone : RegisterArrives(g, c, p)
      PROVE  StillNone
  <2>0. g \in Attendant
    BY DEF Attendant
  <2>1. RegisterReadManual(g) => StillNone
    BY <1>4, <2>0 DEF RegisterReadManual, UpdatePC
  <2>2. RegisterReadSchedule(g) => StillNone
    BY <1>4, <2>0 DEF RegisterReadSchedule, UpdatePC
  <2>3. RegisterWrite(g) => StillNone
    BY <1>2, <2>0 DEF RegisterWrite
  <2>4. \A c \in Cpr, p \in Phone : RegisterArrives(g, c, p) => StillNone
    BY <1>1, <2>0 DEF RegisterArrives, NoDesk, UpdatePC
  <2> QED
    BY <1>5, <1>6, <2>0, <2>1, <2>2, <2>3, <2>4 DEF RegisterStep
<1>7. ASSUME NEW a \in Clerk, ClerkRequest(a)
      PROVE  StillNone
  <2>0. a \in Attendant
    BY DEF Attendant
  <2> DEFINE Begins(l) == /\ desk' = [desk EXCEPT ![a] = l]
                         /\ l.pc \in {"members_cpr", "app_status_write", "app_delete_write",
                                     "status_write", "delete_write", "control_write"}
  <2>1. ASSUME NEW l, Begins(l)
        PROVE  StillNone
    <3>1. l.pc \notin UpdatePC
      BY <2>1 DEF UpdatePC
    <3> QED
      BY <1>1, <2>0, <2>1, <3>1
  <2>2. ASSUME NEW i \in AppId, ApproveStart(a, i)
        PROVE  StillNone
    <3> DEFINE l == [NoDesk EXCEPT !.pc = "members_cpr", !.app = i, !.cpr = apps[i].cpr, !.phone = apps[i].phone]
    <3>1. Begins(l)
      BY <2>2 DEF ApproveStart, NoDesk
    <3> QED
      BY <2>1, <3>1
  <2>3. ASSUME NEW i \in AppId, NEW s, AppStatusStart(a, i, s)
        PROVE  StillNone
    <3> DEFINE l == [NoDesk EXCEPT !.pc = "app_status_write", !.app = i, !.value = s]
    <3>1. Begins(l)
      BY <2>3 DEF AppStatusStart, NoDesk
    <3> QED
      BY <2>1, <3>1
  <2>4. ASSUME NEW i \in AppId, DeleteApplicationStart(a, i)
        PROVE  StillNone
    <3> DEFINE l == [NoDesk EXCEPT !.pc = "app_delete_write", !.app = i]
    <3>1. Begins(l)
      BY <2>4 DEF DeleteApplicationStart, NoDesk
    <3> QED
      BY <2>1, <3>1
  <2>5. ASSUME NEW u \in MemberId, NEW s, StatusStart(a, u, s)
        PROVE  StillNone
    <3> DEFINE l == [NoDesk EXCEPT !.pc = "status_write", !.member = u, !.value = s]
    <3>1. Begins(l)
      BY <2>5 DEF StatusStart, NoDesk
    <3> QED
      BY <2>1, <3>1
  <2>6. ASSUME NEW u \in MemberId, DeleteStart(a, u)
        PROVE  StillNone
    <3> DEFINE l == [NoDesk EXCEPT !.pc = "delete_write", !.member = u, !.app = members[u].app]
    <3>1. Begins(l)
      BY <2>6 DEF DeleteStart, NoDesk
    <3> QED
      BY <2>1, <3>1
  <2>7. ASSUME NEW open, NEW schedule, ControlStart(a, open, schedule)
        PROVE  StillNone
    <3> DEFINE l == [NoDesk EXCEPT !.pc = "control_write", !.value = schedule]
    <3>1. Begins(l)
      BY <2>7 DEF ControlStart, NoDesk
    <3> QED
      BY <2>1, <3>1
  <2>8. ClearSchedule(a) => StillNone
    BY <1>0 DEF ClearSchedule
  <2> QED
    BY <1>7, <2>2, <2>3, <2>4, <2>5, <2>6, <2>7, <2>8 DEF ClerkRequest
<1>8. ASSUME NEW a \in Clerk, ClerkStep(a)
      PROVE  StillNone
  <2>0. a \in Attendant
    BY DEF Attendant
  <2>1. ~UpdateReadCpr(a) /\ ~UpdateReadPhone(a)
    BY <1>0, <2>0, Zenon DEF UpdateReadCpr, UpdateReadPhone, DeskCheck, DeskAt, UpdatePC
  <2>2. DeskGoto(a, "status_sessions") => StillNone
    BY <1>3, <2>0 DEF UpdatePC
  <2> QED
    BY <1>2, <1>5, <1>8, <2>0, <2>1, <2>2
       DEF ClerkStep, ApproveWrite, ApproveFails, AppStatusWrite, DeleteApplicationWrite, UpdateWrite,
           StatusWrite, StatusSessions, DeleteWrite, ControlWrite
<1>9. CASE DeskRestart
  BY <1>9 DEF DeskRestart, NoDesk, UpdatePC
<1>10. CASE DeadlinePasses \/ UNCHANGED membershipVars
  BY <1>0, <1>10 DEF DeadlinePasses, membershipVars
<1> QED
  BY <1>6, <1>7, <1>8, <1>9, <1>10 DEF MembershipNext, DeskNext

\* Who speaks of an application after a step spoke of it before, unless the step made it.
LEMMA ClaimsKept ==
  ASSUME RegisterInv, [MembershipNext]_membershipVars,
         \A g \in Attendant : desk[g].pc \notin UpdatePC
  PROVE  \A i, c : Claim(i, c)' =>
           \/ Claim(i, c)
           \/ /\ i = appSeq + 1 /\ appSeq' = appSeq + 1
              /\ \E g \in Registrant : c = desk[g].cpr /\ RegisterWrite(g)
<1> DEFINE New(i, c) == /\ i = appSeq + 1 /\ appSeq' = appSeq + 1
                        /\ \E g \in Registrant : c = desk[g].cpr /\ RegisterWrite(g)
           Kept == \A i, c : Claim(i, c)' => Claim(i, c) \/ New(i, c)
<1>0. /\ memberSeq \in Nat /\ \A u \in DOMAIN members : members[u] \in MemberRow
      /\ \A i \in DOMAIN apps : apps[i] \in Application
      /\ \A a \in Clerk : a \in Attendant /\ desk[a] \in DeskLocals /\ Placed(a, desk[a])
  BY DEF RegisterInv, IdsKept, RowsTyped, DesksTyped, Attendant
<1>1. ASSUME NEW i, NEW c, NEW g \in Attendant, Approving(desk'[g]), desk'[g].app = i, desk'[g].cpr = c
      PROVE  Claim(i, c)
  BY <1>1, DesksMove DEF Claim, Fresh, Onward
\* A step that leaves the applications' and the members' numbers, or drops some of them.
<1>2. ASSUME \A i \in DOMAIN apps' : i \in DOMAIN apps /\ apps'[i].cpr = apps[i].cpr,
             \A u \in DOMAIN members' : u \in DOMAIN members /\ members'[u].app = members[u].app
                                        /\ members'[u].cpr = members[u].cpr
      PROVE  Kept
  <2> SUFFICES ASSUME NEW i, NEW c, Claim(i, c)' PROVE Claim(i, c)
    OBVIOUS
  <2>1. CASE \E g \in Attendant : Approving(desk'[g]) /\ desk'[g].app = i /\ desk'[g].cpr = c
    BY <1>1, <2>1
  <2>2. CASE i \in DOMAIN apps' /\ apps'[i].cpr = c
    BY <1>2, <2>2 DEF Claim
  <2>3. CASE \E u \in DOMAIN members' : i # NoApp /\ members'[u].app = i /\ members'[u].cpr = c
    BY <1>2, <2>3 DEF Claim
  <2> QED
    BY <2>1, <2>2, <2>3 DEF Claim, Approving
<1>3. CASE UNCHANGED <<apps, appSeq, members, memberSeq>>
  BY <1>2, <1>3
<1>4. ASSUME NEW g \in Registrant, RegisterWrite(g)
      PROVE  Kept
  <2>1. /\ apps' = AddRow(apps, appSeq + 1, [cpr |-> desk[g].cpr, phone |-> desk[g].phone,
                                             status |-> "pending"])
        /\ appSeq' = appSeq + 1 /\ UNCHANGED members
    BY <1>4 DEF RegisterWrite, memberVars
  <2>2. \A i \in DOMAIN apps' : IF i = appSeq + 1 THEN apps'[i].cpr = desk[g].cpr
                                ELSE i \in DOMAIN apps /\ apps'[i] = apps[i]
    BY <2>1 DEF AddRow
  <2> SUFFICES ASSUME NEW i, NEW c, Claim(i, c)' PROVE Claim(i, c) \/ New(i, c)
    OBVIOUS
  <2>3. CASE \E h \in Attendant : Approving(desk'[h]) /\ desk'[h].app = i /\ desk'[h].cpr = c
    BY <1>1, <2>3
  <2>4. CASE i \in DOMAIN apps' /\ apps'[i].cpr = c
    BY <1>4, <2>1, <2>2, <2>4 DEF Claim
  <2>5. CASE \E u \in DOMAIN members' : i # NoApp /\ members'[u].app = i /\ members'[u].cpr = c
    BY <2>1, <2>5 DEF Claim
  <2> QED
    BY <2>3, <2>4, <2>5 DEF Claim, Approving
<1>5. ASSUME NEW a \in Clerk, ApproveWrite(a)
      PROVE  Kept
  <2>1. /\ members' = AddRow(members, memberSeq + 1, [cpr |-> desk[a].cpr, phone |-> desk[a].phone,
                                           app |-> desk[a].app, status |-> "active"])
        /\ apps' = [j \in DOMAIN apps |-> IF j = desk[a].app THEN [apps[j] EXCEPT !.status = "approved"]
                                          ELSE apps[j]]
        /\ desk[a].pc = "approve_write"
    BY <1>5 DEF ApproveWrite, NextMemberId, SetAppStatus, DeskAt
  <2>2. \A i \in DOMAIN apps' : i \in DOMAIN apps /\ apps'[i].cpr = apps[i].cpr
    BY <1>0, <2>1 DEF Application
  <2>3. \A u \in DOMAIN members' :
           IF u = memberSeq + 1 THEN members'[u].app = desk[a].app /\ members'[u].cpr = desk[a].cpr
           ELSE u \in DOMAIN members /\ members'[u] = members[u]
    BY <2>1 DEF AddRow
  <2>4. a \in Attendant /\ Approving(desk[a])
    BY <1>0, <2>1 DEF Approving, Placed
  <2> SUFFICES ASSUME NEW i, NEW c, Claim(i, c)' PROVE Claim(i, c)
    OBVIOUS
  <2>5. CASE \E h \in Attendant : Approving(desk'[h]) /\ desk'[h].app = i /\ desk'[h].cpr = c
    BY <1>1, <2>5
  <2>6. CASE i \in DOMAIN apps' /\ apps'[i].cpr = c
    BY <2>2, <2>6 DEF Claim
  <2>7. CASE \E u \in DOMAIN members' : i # NoApp /\ members'[u].app = i /\ members'[u].cpr = c
    BY <2>3, <2>4, <2>7 DEF Claim
  <2> QED
    BY <2>5, <2>6, <2>7 DEF Claim, Approving
<1>6. ASSUME NEW a \in Clerk, AppStatusWrite(a)
      PROVE  Kept
  BY <1>0, <1>2, <1>6 DEF AppStatusWrite, SetAppStatus, Application, memberVars
<1>7. ASSUME NEW a \in Clerk, DeleteApplicationWrite(a)
      PROVE  Kept
  BY <1>2, <1>7 DEF DeleteApplicationWrite, DropRow, memberVars
<1>8. ASSUME NEW a \in Clerk, StatusWrite(a)
      PROVE  Kept
  BY <1>0, <1>2, <1>8 DEF StatusWrite, MemberRow, appVars
<1>9. ASSUME NEW a \in Clerk, UpdateWrite(a)
      PROVE  Kept
  BY <1>0, <1>9 DEF UpdateWrite, DeskAt, UpdatePC
<1>10. ASSUME NEW a \in Clerk, DeleteWrite(a)
       PROVE  Kept
  BY <1>2, <1>10 DEF DeleteWrite, DropRow
<1>11. CASE DeskRestart
  <2>1. apps' = apps
    BY <1>11 DEF DeskRestart, appVars
  <2>2. members' = members \/ \A u \in DOMAIN members' : members'[u].app = NoApp
    BY <1>0, <1>11, SeedRows DEF DeskRestart, SeedMembers, memberVars, Imported
  <2> SUFFICES ASSUME NEW i, NEW c, Claim(i, c)' PROVE Claim(i, c)
    OBVIOUS
  <2>3. CASE \E h \in Attendant : Approving(desk'[h]) /\ desk'[h].app = i /\ desk'[h].cpr = c
    BY <1>1, <2>3
  <2>4. CASE i \in DOMAIN apps' /\ apps'[i].cpr = c
    BY <2>1, <2>4 DEF Claim
  <2>5. CASE \E u \in DOMAIN members' : i # NoApp /\ members'[u].app = i /\ members'[u].cpr = c
    BY <2>2, <2>5 DEF Claim
  <2> QED
    BY <2>3, <2>4, <2>5 DEF Claim, Approving
<1> QED
  BY <1>3, <1>4, <1>5, <1>6, <1>7, <1>8, <1>9, <1>10, <1>11, RowsMove

LEMMA OneMemberKept ==
  ASSUME RegisterInv, OneNumberInv, [MembershipNext]_membershipVars
  PROVE  OneMemberPerApplication'
<1>0. /\ memberSeq \in Nat /\ \A u \in DOMAIN members : u \in 1 .. memberSeq
      /\ \A u \in DOMAIN members : members[u] \in MemberRow
      /\ \A a \in Clerk : a \in Attendant /\ Placed(a, desk[a])
  BY DEF RegisterInv, IdsKept, RowsTyped, DesksTyped, Attendant
<1>1. ASSUME \A u \in DOMAIN members' : u \in DOMAIN members /\ members'[u].app = members[u].app
      PROVE  OneMemberPerApplication'
  BY <1>1 DEF OneNumberInv, OneMemberPerApplication
<1>2. CASE UNCHANGED <<apps, appSeq, members, memberSeq>>
  BY <1>1, <1>2
<1>3. ASSUME NEW g \in Registrant, RegisterWrite(g)
      PROVE  OneMemberPerApplication'
  BY <1>1, <1>3 DEF RegisterWrite, memberVars
<1>4. ASSUME NEW a \in Clerk, ApproveWrite(a)
      PROVE  OneMemberPerApplication'
  <2>1. /\ members' = AddRow(members, memberSeq + 1, [cpr |-> desk[a].cpr, phone |-> desk[a].phone,
                                           app |-> desk[a].app, status |-> "active"])
        /\ desk[a].pc = "approve_write" /\ UniqueCpr(desk[a].cpr, NoMember)
    BY <1>4 DEF ApproveWrite, NextMemberId, DeskAt
  <2>2. \A u \in DOMAIN members' :
           IF u = memberSeq + 1 THEN members'[u].app = desk[a].app
           ELSE u \in DOMAIN members /\ members'[u] = members[u]
    BY <2>1 DEF AddRow
  <2>3. Claim(desk[a].app, desk[a].cpr) /\ desk[a].app # NoApp
    BY <1>0, <2>1 DEF Claim, Approving, Placed
  <2>4. \A u \in DOMAIN members : members[u].cpr # desk[a].cpr
    BY <1>0, <2>1 DEF UniqueCpr, MemberWith, NoMember
  <2>5. \A u \in DOMAIN members : members[u].app # desk[a].app
    BY <2>3, <2>4 DEF OneNumberInv, Claim
  <2> QED
    BY <2>2, <2>5 DEF OneNumberInv, OneMemberPerApplication
<1>5. ASSUME NEW a \in Clerk, AppStatusWrite(a) \/ DeleteApplicationWrite(a)
      PROVE  OneMemberPerApplication'
  BY <1>1, <1>5 DEF AppStatusWrite, DeleteApplicationWrite, memberVars
<1>6. ASSUME NEW a \in Clerk, UpdateWrite(a) \/ StatusWrite(a)
      PROVE  OneMemberPerApplication'
  BY <1>0, <1>1, <1>6 DEF UpdateWrite, StatusWrite, MemberRow
<1>7. ASSUME NEW a \in Clerk, DeleteWrite(a)
      PROVE  OneMemberPerApplication'
  BY <1>1, <1>7 DEF DeleteWrite, DropRow
<1>8. CASE DeskRestart
  <2>1. \/ members' = members
        \/ \A u \in DOMAIN members' : members'[u].app = NoApp
    BY <1>0, <1>8, SeedRows DEF DeskRestart, SeedMembers, memberVars, Imported
  <2> QED
    BY <2>1 DEF OneNumberInv, OneMemberPerApplication
<1> QED
  BY <1>2, <1>3, <1>4, <1>5, <1>6, <1>7, <1>8, RowsMove

LEMMA OneNumberStart == MembershipInit => OneNumberInv
<1> SUFFICES ASSUME MembershipInit PROVE OneNumberInv
  OBVIOUS
<1>1. \A g \in Attendant : desk[g].pc = "idle"
  BY DEF MembershipInit, NoDesk
<1>2. DOMAIN apps = {} /\ \A u \in DOMAIN members : members[u].app = NoApp
  BY DEF MembershipInit, Imported
<1>3. \A i, c : ~Claim(i, c)
  BY <1>1, <1>2 DEF Claim, Approving, UniquePC
<1> QED
  BY <1>1, <1>2, <1>3 DEF OneNumberInv, UpdatePC, OneMemberPerApplication

LEMMA OneNumberStep ==
  ASSUME "update" \notin Duties, RegisterInv, OneNumberInv, [MembershipNext]_membershipVars
  PROVE  OneNumberInv'
<1>1. \A g \in Attendant : desk'[g].pc \notin UpdatePC
  BY NoUpdates DEF OneNumberInv
<1>2. appSeq \in Nat /\ appSeq' \in Nat /\ appSeq <= appSeq'
  <2>1. appSeq \in Nat
    BY DEF RegisterInv, IdsKept
  <2>2. appSeq' = appSeq \/ appSeq' = appSeq + 1
    BY RowsMove DEF RegisterWrite, ApproveWrite, AppStatusWrite, DeleteApplicationWrite,
                          UpdateWrite, StatusWrite, DeleteWrite, DeskRestart, appVars
  <2> QED
    BY <2>1, <2>2
<1>3. ASSUME NEW i, NEW c, Claim(i, c)'
      PROVE  i \in Nat /\ i <= appSeq'
  BY <1>2, <1>3, ClaimsKept DEF OneNumberInv
<1>4. ASSUME NEW i, NEW c, NEW d, Claim(i, c)', Claim(i, d)'
      PROVE  c = d
  <2>1. ASSUME NEW g \in Registrant, NEW h \in Registrant, RegisterWrite(g), RegisterWrite(h)
        PROVE  g = h
    <3>1. g \in Attendant /\ h \in Attendant /\ desk \in [Attendant -> DeskLocals]
      BY DEF RegisterInv, DesksTyped, Attendant
    <3>2. desk' = [desk EXCEPT ![g] = NoDesk] /\ desk' = [desk EXCEPT ![h] = NoDesk]
      BY <2>1 DEF RegisterWrite, DeskAnswer
    <3>3. desk'[g] = NoDesk /\ (g # h => desk'[g] = desk[g])
      BY <3>1, <3>2
    <3>4. desk[g].pc = "register_write" /\ NoDesk.pc = "idle"
      BY <2>1 DEF RegisterWrite, DeskAt, NoDesk
    <3> QED
      BY <3>3, <3>4
  <2>2. ASSUME Claim(i, c) \/ Claim(i, d)
        PROVE  Claim(i, c) /\ Claim(i, d)
    <3>1. i \in Nat /\ i <= appSeq
      BY <2>2 DEF OneNumberInv
    <3>2. i # appSeq + 1
      BY <1>2, <3>1
    <3> QED
      BY <1>4, <3>2, ClaimsKept DEF OneNumberInv
  <2> QED
    BY <1>4, <2>1, <2>2, ClaimsKept DEF OneNumberInv
<1> QED
  BY <1>1, <1>3, <1>4, OneMemberKept DEF OneNumberInv

\* However often an application is approved at once, it makes one member: the second
\* ApproveApplication fails on users.cpr. So as long as nobody corrects that number.
THEOREM OneMemberEach ==
  ASSUME "update" \notin Duties
  PROVE  MembershipSpec => []OneMemberPerApplication
<1>1. RegisterInv /\ OneNumberInv /\ [MembershipNext]_membershipVars => OneNumberInv'
  BY OneNumberStep
<1>2. OneNumberInv => OneMemberPerApplication
  BY DEF OneNumberInv
<1> QED
  BY RegisterInvariant, OneNumberStart, <1>1, <1>2, PTL DEF MembershipSpec

-----------------------------------------------------------------------------
(* One admin who waits for answers: what a request read is still so when it writes. *)

OneClerk == \A a, b \in Clerk : a = b

\* The members who registered are those of the approved applications, one each.
SoloInv ==
  /\ RegisterInv /\ DecisionInv
  /\ \A g \in Attendant : Fresh(desk[g])
  /\ \A u \in DOMAIN members : members[u].app # NoApp =>
       members[u].app \in DOMAIN apps /\ apps[members[u].app].status = "approved"
  /\ OneMemberPerApplication

LEMMA StaysFresh ==
  ASSUME OneClerk, SoloInv, [MembershipNext]_membershipVars
  PROVE  \A g \in Attendant : Fresh(desk[g])'
<1>0. /\ RegisterInv /\ RegisterInv'
      /\ appSeq \in Nat /\ \A i \in DOMAIN apps : i \in 1 .. appSeq
  BY RegisterInvStep DEF SoloInv, RegisterInv, IdsKept
<1>1. \A g \in Attendant : Fresh(desk'[g])
  BY <1>0, DesksMove DEF SoloInv, Fresh, Onward
<1>2. ASSUME NEW g \in Attendant, g \notin Clerk
      PROVE  Fresh(desk[g])'
  <2>1. Placed(g, desk'[g])
    BY <1>0 DEF RegisterInv, DesksTyped
  <2> QED
    BY <1>2, <2>1 DEF Placed, Fresh, Approving, RegisterPC, UniquePC
<1>3. CASE UNCHANGED <<apps, appSeq, members, memberSeq>>
  BY <1>1, <1>3 DEF Fresh
<1>4. ASSUME NEW g \in Registrant, RegisterWrite(g)
      PROVE  \A h \in Attendant : Fresh(desk[h])'
  <2>1. /\ apps' = AddRow(apps, appSeq + 1, [cpr |-> desk[g].cpr, phone |-> desk[g].phone,
                                             status |-> "pending"])
        /\ UNCHANGED members
    BY <1>4 DEF RegisterWrite, memberVars
  <2>2. \A i \in DOMAIN apps : i \in DOMAIN apps' /\ apps'[i] = apps[i]
    BY <1>0, <2>1 DEF AddRow
  <2> QED
    BY <1>1, <2>1, <2>2 DEF Fresh
<1>5. ASSUME NEW a \in Clerk, desk'[a].pc \in {"idle", "status_sessions"}
      PROVE  \A h \in Attendant : Fresh(desk[h])'
  BY <1>2, <1>5 DEF OneClerk, Fresh, Approving, UniquePC
<1>6. ASSUME NEW a \in Clerk, DeskAnswer(a) \/ DeskGoto(a, "status_sessions")
      PROVE  desk'[a].pc \in {"idle", "status_sessions"}
  <2>1. a \in Attendant /\ desk \in [Attendant -> DeskLocals]
    BY <1>0 DEF RegisterInv, DesksTyped, Attendant
  <2>2. CASE DeskAnswer(a)
    BY <2>1, <2>2 DEF DeskAnswer, NoDesk
  <2>3. CASE DeskGoto(a, "status_sessions")
    BY <2>1, <2>3 DEF DeskGoto, DeskLocals
  <2> QED
    BY <1>6, <2>2, <2>3
<1>7. CASE DeskRestart
  BY <1>7 DEF DeskRestart, Fresh, NoDesk, Approving, UniquePC
<1>8. ASSUME NEW a \in Clerk, ApproveWrite(a) \/ AppStatusWrite(a) \/ DeleteApplicationWrite(a)
                               \/ UpdateWrite(a) \/ StatusWrite(a) \/ DeleteWrite(a)
      PROVE  DeskAnswer(a) \/ DeskGoto(a, "status_sessions")
  BY <1>8, Zenon DEF ApproveWrite, AppStatusWrite, DeleteApplicationWrite, UpdateWrite, StatusWrite, DeleteWrite
<1> QED
  BY <1>0, <1>3, <1>4, <1>5, <1>6, <1>7, <1>8, RowsMove

\* Members and applications keep together.
LEMMA StaysTogether ==
  ASSUME OneClerk, SoloInv, [MembershipNext]_membershipVars
  PROVE  /\ (\A u \in DOMAIN members : members[u].app # NoApp =>
               members[u].app \in DOMAIN apps /\ apps[members[u].app].status = "approved")'
         /\ OneMemberPerApplication'
<1> DEFINE Together == \A u \in DOMAIN members : members[u].app # NoApp =>
                         members[u].app \in DOMAIN apps /\ apps[members[u].app].status = "approved"
<1>0. /\ RegisterInv /\ Together /\ OneMemberPerApplication
      /\ appSeq \in Nat /\ \A i \in DOMAIN apps : i \in 1 .. appSeq
      /\ memberSeq \in Nat /\ \A u \in DOMAIN members : u \in 1 .. memberSeq
      /\ \A u \in DOMAIN members : members[u] \in MemberRow
      /\ \A i \in DOMAIN apps : apps[i] \in Application
      /\ \A a \in Clerk : a \in Attendant /\ Placed(a, desk[a]) /\ Fresh(desk[a])
  BY DEF SoloInv, RegisterInv, IdsKept, RowsTyped, DesksTyped, Attendant
<1>1. CASE UNCHANGED <<apps, appSeq, members, memberSeq>>
  BY <1>0, <1>1 DEF OneMemberPerApplication
<1>2. ASSUME NEW g \in Registrant, RegisterWrite(g)
      PROVE  Together' /\ OneMemberPerApplication'
  <2>1. /\ apps' = AddRow(apps, appSeq + 1, [cpr |-> desk[g].cpr, phone |-> desk[g].phone,
                                             status |-> "pending"])
        /\ UNCHANGED members
    BY <1>2 DEF RegisterWrite, memberVars
  <2>2. \A i \in DOMAIN apps : i \in DOMAIN apps' /\ apps'[i] = apps[i]
    BY <1>0, <2>1 DEF AddRow
  <2> QED
    BY <1>0, <2>1, <2>2 DEF OneMemberPerApplication
<1>3. ASSUME NEW a \in Clerk, ApproveWrite(a)
      PROVE  Together' /\ OneMemberPerApplication'
  <2>1. /\ members' = AddRow(members, memberSeq + 1, [cpr |-> desk[a].cpr, phone |-> desk[a].phone,
                                           app |-> desk[a].app, status |-> "active"])
        /\ apps' = [j \in DOMAIN apps |-> IF j = desk[a].app THEN [apps[j] EXCEPT !.status = "approved"]
                                          ELSE apps[j]]
        /\ desk[a].pc = "approve_write"
    BY <1>3 DEF ApproveWrite, NextMemberId, SetAppStatus, DeskAt
  <2>2. desk[a].app \in DOMAIN apps /\ apps[desk[a].app].status = "pending"
    BY <1>0, <2>1 DEF Fresh, Approving, Placed
  <2>3. \A u \in DOMAIN members : members[u].app # desk[a].app
    BY <1>0, <2>1, <2>2 DEF Placed
  <2>4. \A u \in DOMAIN members' :
           IF u = memberSeq + 1 THEN members'[u].app = desk[a].app
           ELSE u \in DOMAIN members /\ members'[u] = members[u]
    BY <2>1 DEF AddRow
  <2>5. /\ \A j \in DOMAIN apps : j \in DOMAIN apps' /\ (j # desk[a].app => apps'[j] = apps[j])
        /\ apps'[desk[a].app].status = "approved"
    BY <1>0, <2>1, <2>2 DEF Application
  <2> QED
    BY <1>0, <2>2, <2>3, <2>4, <2>5 DEF OneMemberPerApplication
<1>4. ASSUME NEW a \in Clerk, AppStatusWrite(a)
      PROVE  Together' /\ OneMemberPerApplication'
  <2>1. SetAppStatus(desk[a].app, desk[a].value) /\ UNCHANGED members /\ desk[a].pc = "app_status_write"
    BY <1>4 DEF AppStatusWrite, DeskAt, memberVars
  <2>2. apps[desk[a].app].status # "approved"
    BY <1>0, <2>1 DEF Fresh
  <2> QED
    BY <1>0, <2>1, <2>2 DEF SetAppStatus, OneMemberPerApplication
<1>5. ASSUME NEW a \in Clerk, DeleteApplicationWrite(a)
      PROVE  Together' /\ OneMemberPerApplication'
  <2>1. apps' = DropRow(apps, desk[a].app) /\ UNCHANGED members /\ desk[a].pc = "app_delete_write"
    BY <1>5 DEF DeleteApplicationWrite, DeskAt, memberVars
  <2>2. apps[desk[a].app].status # "approved"
    BY <1>0, <2>1 DEF Fresh
  <2> QED
    BY <1>0, <2>1, <2>2 DEF DropRow, OneMemberPerApplication
<1>6. ASSUME NEW a \in Clerk, UpdateWrite(a) \/ StatusWrite(a)
      PROVE  Together' /\ OneMemberPerApplication'
  <2>1. apps' = apps /\ DOMAIN members' = DOMAIN members
        /\ \A u \in DOMAIN members : members'[u].app = members[u].app
    BY <1>0, <1>6 DEF UpdateWrite, StatusWrite, MemberRow, appVars
  <2> QED
    BY <1>0, <2>1 DEF OneMemberPerApplication
<1>7. ASSUME NEW a \in Clerk, DeleteWrite(a)
      PROVE  Together' /\ OneMemberPerApplication'
  <2>1. /\ desk[a].pc = "delete_write"
        /\ members' = DropRow(members, desk[a].member) /\ apps' = DropRow(apps, desk[a].app)
    BY <1>7 DEF DeleteWrite, DeskAt
  <2>2. desk[a].member \in DOMAIN members /\ desk[a].app = members[desk[a].member].app
    BY <1>0, <2>1 DEF Fresh
  <2>3. \A u \in DOMAIN members' : u \in DOMAIN members /\ u # desk[a].member /\ members'[u] = members[u]
    BY <2>1 DEF DropRow
  <2>4. \A i \in DOMAIN apps : i # desk[a].app => i \in DOMAIN apps' /\ apps'[i] = apps[i]
    BY <2>1 DEF DropRow
  <2>5. \A u \in DOMAIN members' : members[u].app # NoApp => members[u].app # desk[a].app
    BY <1>0, <2>2, <2>3 DEF OneMemberPerApplication
  <2>6. Together'
    BY <1>0, <2>3, <2>4, <2>5
  <2>7. OneMemberPerApplication'
    BY <1>0, <2>3 DEF OneMemberPerApplication
  <2> QED
    BY <2>6, <2>7
<1>8. CASE DeskRestart
  <2>1. /\ apps' = apps
        /\ members' = members \/ \A u \in DOMAIN members' : members'[u].app = NoApp
    BY <1>0, <1>8, SeedRows DEF DeskRestart, SeedMembers, memberVars, appVars, Imported
  <2> QED
    BY <1>0, <2>1 DEF OneMemberPerApplication
<1> QED
  BY <1>0, <1>1, <1>2, <1>3, <1>4, <1>5, <1>6, <1>7, <1>8, RowsMove

LEMMA SoloStart == MembershipInit => SoloInv
<1> SUFFICES ASSUME MembershipInit PROVE SoloInv
  OBVIOUS
<1>1. \A g \in Attendant : desk[g].pc = "idle"
  BY DEF MembershipInit, NoDesk
<1>2. DOMAIN apps = {} /\ \A u \in DOMAIN members : members[u].app = NoApp
  BY DEF MembershipInit, Imported
<1> QED
  BY <1>1, <1>2, RegisterInvInit
     DEF SoloInv, DecisionInv, ApprovedHasMember, Fresh, Approving, UniquePC, OneMemberPerApplication

LEMMA SoloStep ==
  ASSUME OneClerk, SoloInv, [MembershipNext]_membershipVars
  PROVE  SoloInv'
<1>1. RegisterInv' /\ DecisionInv'
  BY RegisterInvStep, DecisionStep DEF SoloInv
<1> QED
  BY <1>1, StaysFresh, StaysTogether DEF SoloInv

LEMMA SoloInvariant ==
  ASSUME OneClerk
  PROVE  MembershipSpec => []SoloInv
<1>1. SoloInv /\ [MembershipNext]_membershipVars => SoloInv'
  BY SoloStep
<1> QED
  BY SoloStart, <1>1, PTL DEF MembershipSpec

-----------------------------------------------------------------------------
(* The register implements the Roll. *)

Admitted(m, i) == \E u \in DOMAIN m : m[u].app = i

\* Where application i stands in the tables A and M, when q is the last id handed out.
StandingIn(A, M, q, i) ==
  IF Admitted(M, i) THEN "member"
  ELSE IF i \in DOMAIN A THEN (IF A[i].status = "pending" THEN "waiting" ELSE "withheld")
  ELSE IF i <= q THEN "gone" ELSE "none"

LEMMA StandingNow ==
  /\ Standing = [i \in AppId |-> StandingIn(apps, members, appSeq, i)]
  /\ Standing' = [i \in AppId |-> StandingIn(apps', members', appSeq', i)]
BY DEF Standing, StandingIn, Admitted

\* A step that moves one application at most.
LEMMA OneMoves ==
  ASSUME NEW j \in AppId, NEW from, NEW to,
         from = StandingIn(apps, members, appSeq, j), to = StandingIn(apps', members', appSeq', j),
         \A i \in AppId : i # j =>
           StandingIn(apps', members', appSeq', i) = StandingIn(apps, members, appSeq, i)
  PROVE  TheRoll!Move(j, from, to)
BY StandingNow DEF TheRoll!Move

\* Another application's standing is unmoved when its row, its member and its id are.
LEMMA OthersStand ==
  ASSUME NEW i \in AppId,
         i \in DOMAIN apps' <=> i \in DOMAIN apps,
         i \in DOMAIN apps => apps'[i] = apps[i],
         Admitted(members', i) <=> Admitted(members, i),
         i <= appSeq' <=> i <= appSeq
  PROVE  StandingIn(apps', members', appSeq', i) = StandingIn(apps, members, appSeq, i)
BY DEF StandingIn

LEMMA RollStep ==
  ASSUME OneClerk, SoloInv, SoloInv', [MembershipNext]_membershipVars
  PROVE  [TheRoll!Next]_Standing
<1> SUFFICES TheRoll!Next \/ UNCHANGED Standing
  OBVIOUS
<1> DEFINE Old(i) == StandingIn(apps, members, appSeq, i)
           New(i) == StandingIn(apps', members', appSeq', i)
<1>0. /\ appSeq \in Nat /\ \A i \in DOMAIN apps : i \in 1 .. appSeq
      /\ memberSeq \in Nat /\ \A u \in DOMAIN members : u \in 1 .. memberSeq
      /\ \A u \in DOMAIN members : members[u] \in MemberRow
      /\ \A u \in DOMAIN members : members[u].app # NoApp =>
           members[u].app \in DOMAIN apps /\ apps[members[u].app].status = "approved"
      /\ \A i \in DOMAIN apps : apps[i] \in Application
      /\ \A a \in Clerk : a \in Attendant /\ Placed(a, desk[a]) /\ Fresh(desk[a])
  BY DEF SoloInv, RegisterInv, IdsKept, RowsTyped, DesksTyped, Attendant
<1>1. /\ MaxApp \in Nat /\ DOMAIN apps \subseteq AppId /\ appSeq' \in 0 .. MaxApp
  <2>1. appSeq \in 0 .. MaxApp
    BY FiniteDesks, MembershipAssumption DEF SoloInv, RegisterInv, IdsKept
  <2>2. appSeq' \in 0 .. MaxApp
    <3>1. IsFiniteSet(Registrants') /\ Cardinality(Registrants') \in Nat
      <4>1. Registrants' \subseteq Registrant
        BY DEF Registrants
      <4> QED
        BY <4>1, MembershipAssumption, FS_Subset, FS_CardinalityType
    <3> QED
      BY <3>1, MembershipAssumption DEF SoloInv, RegisterInv, IdsKept
  <2> QED
    BY <1>0, <2>1, <2>2, MembershipAssumption DEF AppId
\* Nothing moves: the step is a stutter of the Roll.
<1>2. ASSUME \A i \in AppId : New(i) = Old(i)
      PROVE  UNCHANGED Standing
  BY <1>2, StandingNow
<1>3. CASE UNCHANGED <<apps, appSeq, members, memberSeq>>
  BY <1>2, <1>3
<1>4. ASSUME NEW g \in Registrant, RegisterWrite(g)
      PROVE  TheRoll!Next
  <2>1. /\ apps' = AddRow(apps, appSeq + 1, [cpr |-> desk[g].cpr, phone |-> desk[g].phone,
                                             status |-> "pending"])
        /\ appSeq' = appSeq + 1 /\ members' = members
    BY <1>4 DEF RegisterWrite, memberVars
  <2>2. /\ appSeq + 1 \in DOMAIN apps' /\ apps'[appSeq + 1].status = "pending"
        /\ \A i : i # appSeq + 1 => /\ i \in DOMAIN apps' <=> i \in DOMAIN apps
                                    /\ i \in DOMAIN apps => apps'[i] = apps[i]
    BY <2>1 DEF AddRow
  <2>3. appSeq + 1 \in AppId
    BY <1>0, <1>1, <2>1 DEF AppId
  <2>4. appSeq + 1 \notin DOMAIN apps /\ ~Admitted(members, appSeq + 1)
    BY <1>0, <2>3 DEF Admitted, NoApp
  <2>5. Old(appSeq + 1) = "none"
    BY <1>0, <2>4 DEF StandingIn
  <2>6. New(appSeq + 1) = "waiting"
    BY <2>1, <2>2, <2>4 DEF StandingIn
  <2>7. ASSUME NEW i \in AppId, i # appSeq + 1
        PROVE  New(i) = Old(i)
    <3>1. i <= appSeq' <=> i <= appSeq
      BY <1>0, <1>1, <2>1, <2>7 DEF AppId
    <3> QED
      BY <2>1, <2>2, <2>7, <3>1, OthersStand
  <2>8. TheRoll!Move(appSeq + 1, "none", "waiting")
    BY <2>3, <2>5, <2>6, <2>7, OneMoves
  <2> QED
    BY <2>3, <2>8 DEF TheRoll!Next
<1>5. ASSUME NEW a \in Clerk, ApproveWrite(a)
      PROVE  TheRoll!Next
  <2> DEFINE j == desk[a].app
  <2>1. /\ members' = AddRow(members, memberSeq + 1, [cpr |-> desk[a].cpr, phone |-> desk[a].phone,
                                           app |-> j, status |-> "active"])
        /\ apps' = [k \in DOMAIN apps |-> IF k = j THEN [apps[k] EXCEPT !.status = "approved"]
                                          ELSE apps[k]]
        /\ desk[a].pc = "approve_write" /\ appSeq' = appSeq
    BY <1>5 DEF ApproveWrite, NextMemberId, SetAppStatus, DeskAt
  <2>2. j \in DOMAIN apps /\ apps[j].status = "pending" /\ j # NoApp /\ j \in AppId
    BY <1>0, <1>1, <2>1 DEF Fresh, Approving, Placed
  <2> HIDE DEF j
  <2>3. ~Admitted(members, j)
    BY <1>0, <2>2 DEF Admitted
  <2>4. /\ memberSeq + 1 \in DOMAIN members' /\ members'[memberSeq + 1].app = j
        /\ \A u \in DOMAIN members : u \in DOMAIN members' /\ members'[u] = members[u]
        /\ \A u \in DOMAIN members' : u # memberSeq + 1 => u \in DOMAIN members /\ members'[u] = members[u]
    BY <1>0, <2>1 DEF AddRow
  <2>5. Old(j) = "waiting" /\ New(j) = "member"
    BY <2>2, <2>3, <2>4 DEF StandingIn, Admitted
  <2>6. ASSUME NEW i \in AppId, i # j
        PROVE  New(i) = Old(i)
    <3>1. Admitted(members', i) <=> Admitted(members, i)
      BY <2>4, <2>6 DEF Admitted
    <3> QED
      BY <2>1, <2>6, <3>1, OthersStand
  <2>7. TheRoll!Move(j, "waiting", "member")
    BY <2>2, <2>5, <2>6, OneMoves
  <2> QED
    BY <2>2, <2>7 DEF TheRoll!Next
<1>6. ASSUME NEW a \in Clerk, AppStatusWrite(a)
      PROVE  TheRoll!Next \/ UNCHANGED Standing
  <2> DEFINE j == desk[a].app
             s == desk[a].value
  <2>1. /\ apps' = [k \in DOMAIN apps |-> IF k = j THEN [apps[k] EXCEPT !.status = s] ELSE apps[k]]
        /\ desk[a].pc = "app_status_write" /\ appSeq' = appSeq /\ members' = members
    BY <1>6 DEF AppStatusWrite, SetAppStatus, DeskAt, memberVars
  <2>2. /\ j \in DOMAIN apps /\ j \in AppId /\ j # NoApp /\ s \in {"pending", "withheld"}
        /\ apps[j].status # "approved" /\ (s = "pending" => apps[j].status = "withheld")
    BY <1>0, <1>1, <2>1 DEF Fresh, Placed
  <2> HIDE DEF j, s
  <2>3. ~Admitted(members, j) /\ ~Admitted(members', j)
    BY <1>0, <2>1, <2>2 DEF Admitted
  <2>4. apps[j].status \in {"pending", "withheld"} /\ apps'[j].status = s /\ j \in DOMAIN apps'
    BY <1>0, <2>1, <2>2 DEF Application, AppStatus
  <2>5. /\ Old(j) = IF apps[j].status = "pending" THEN "waiting" ELSE "withheld"
        /\ New(j) = IF s = "pending" THEN "waiting" ELSE "withheld"
    BY <2>2, <2>3, <2>4 DEF StandingIn
  <2>6. ASSUME NEW i \in AppId, i # j
        PROVE  New(i) = Old(i)
    BY <2>1, <2>6, OthersStand
  <2>7. CASE s = "pending"
    <3>1. TheRoll!Move(j, "withheld", "waiting")
      BY <2>2, <2>5, <2>6, <2>7, OneMoves
    <3> QED
      BY <2>2, <3>1 DEF TheRoll!Next
  <2>8. CASE s = "withheld" /\ apps[j].status = "pending"
    <3>1. TheRoll!Move(j, "waiting", "withheld")
      BY <2>2, <2>5, <2>6, <2>8, OneMoves
    <3> QED
      BY <2>2, <3>1 DEF TheRoll!Next
  <2>9. CASE s = "withheld" /\ apps[j].status # "pending"
    <3>1. New(j) = Old(j)
      BY <2>5, <2>9
    <3> QED
      BY <1>2, <2>6, <3>1
  <2> QED
    BY <2>2, <2>7, <2>8, <2>9
<1>7. ASSUME NEW j \in DOMAIN apps, apps' = DropRow(apps, j), appSeq' = appSeq,
             \A i \in AppId : i # j => (Admitted(members', i) <=> Admitted(members, i)),
             ~Admitted(members', j)
      PROVE  TheRoll!Next
  <2>1. j \in AppId /\ j <= appSeq
    BY <1>0, <1>1
  <2>2. j \notin DOMAIN apps' /\ \A i : i # j => /\ i \in DOMAIN apps' <=> i \in DOMAIN apps
                                                 /\ i \in DOMAIN apps => apps'[i] = apps[i]
    BY <1>7 DEF DropRow
  <2>3. New(j) = "gone"
    BY <1>7, <2>1, <2>2 DEF StandingIn
  <2>4. Old(j) # "none"
    BY DEF StandingIn
  <2>5. ASSUME NEW i \in AppId, i # j
        PROVE  New(i) = Old(i)
    BY <1>7, <2>2, <2>5, OthersStand
  <2>6. TheRoll!Move(j, Old(j), "gone")
    BY <2>1, <2>3, <2>5, OneMoves
  <2>7. Standing[j] = Old(j)
    BY <2>1, StandingNow
  <2> QED
    BY <2>1, <2>4, <2>6, <2>7 DEF TheRoll!Next
<1>8. ASSUME NEW a \in Clerk, DeleteApplicationWrite(a)
      PROVE  TheRoll!Next
  <2>1. apps' = DropRow(apps, desk[a].app) /\ appSeq' = appSeq /\ members' = members
        /\ desk[a].pc = "app_delete_write"
    BY <1>8 DEF DeleteApplicationWrite, DeskAt, memberVars
  <2>2. desk[a].app \in DOMAIN apps /\ apps[desk[a].app].status # "approved" /\ desk[a].app # NoApp
    BY <1>0, <2>1 DEF Fresh, Placed
  <2>3. ~Admitted(members, desk[a].app)
    BY <1>0, <2>2 DEF Admitted
  <2> QED
    BY <1>7, <2>1, <2>2, <2>3
<1>9. ASSUME NEW a \in Clerk, UpdateWrite(a) \/ StatusWrite(a)
      PROVE  UNCHANGED Standing
  <2>1. apps' = apps /\ appSeq' = appSeq /\ DOMAIN members' = DOMAIN members
        /\ \A u \in DOMAIN members : members'[u].app = members[u].app
    BY <1>0, <1>9 DEF UpdateWrite, StatusWrite, MemberRow, appVars
  <2>2. \A i : Admitted(members', i) <=> Admitted(members, i)
    BY <2>1 DEF Admitted
  <2> QED
    BY <1>2, <2>1, <2>2, OthersStand
<1>10. ASSUME NEW a \in Clerk, DeleteWrite(a)
       PROVE  TheRoll!Next \/ UNCHANGED Standing
  <2>1. /\ desk[a].pc = "delete_write" /\ appSeq' = appSeq
        /\ members' = DropRow(members, desk[a].member) /\ apps' = DropRow(apps, desk[a].app)
    BY <1>10 DEF DeleteWrite, DeskAt
  <2>2. desk[a].member \in DOMAIN members /\ desk[a].app = members[desk[a].member].app
    BY <1>0, <2>1 DEF Fresh
  <2>3. \A u : u \in DOMAIN members' <=> u \in DOMAIN members /\ u # desk[a].member
    BY <2>1 DEF DropRow
  <2>4. \A u \in DOMAIN members' : members'[u] = members[u]
    BY <2>1 DEF DropRow
  <2>5. \A i \in AppId : i # desk[a].app => (Admitted(members', i) <=> Admitted(members, i))
    BY <2>2, <2>3, <2>4 DEF Admitted
  <2>6. CASE desk[a].app = NoApp
    <3>1. NoApp \notin AppId /\ NoApp \notin DOMAIN apps
      BY <1>0 DEF NoApp, AppId
    <3>2. \A i : /\ i \in DOMAIN apps' <=> i \in DOMAIN apps
                 /\ i \in DOMAIN apps => apps'[i] = apps[i]
      BY <2>1, <2>6, <3>1 DEF DropRow
    <3> QED
      BY <1>2, <2>1, <2>5, <2>6, <3>1, <3>2, OthersStand
  <2>7. CASE desk[a].app # NoApp
    <3>1. desk[a].app \in DOMAIN apps
      BY <1>0, <2>2, <2>7
    <3>2. ~Admitted(members', desk[a].app)
      BY <2>2, <2>3, <2>4, <2>7 DEF Admitted, SoloInv, OneMemberPerApplication
    <3> QED
      BY <1>7, <2>1, <2>5, <3>1, <3>2
  <2> QED
    BY <2>6, <2>7
<1>11. CASE DeskRestart
  <2>1. /\ apps' = apps /\ appSeq' = appSeq
    BY <1>11 DEF DeskRestart, appVars
  <2>3. CASE DOMAIN members # {}
    <3>1. members' = members
      BY <1>11, <2>3 DEF DeskRestart, SeedMembers, memberVars
    <3> QED
      BY <1>2, <2>1, <3>1
  <2>4. CASE DOMAIN members = {}
    <3>1. \A u \in DOMAIN members' : members'[u].app = NoApp
      BY <1>0, <1>11, <2>4, SeedRows DEF DeskRestart, SeedMembers, Imported
    <3>2. \A i \in AppId : ~Admitted(members', i) /\ ~Admitted(members, i)
      BY <2>4, <3>1 DEF Admitted, AppId, NoApp
    <3> QED
      BY <1>2, <2>1, <3>2, OthersStand
  <2> QED
    BY <2>3, <2>4
<1> QED
  BY <1>3, <1>4, <1>5, <1>6, <1>8, <1>9, <1>10, <1>11, RowsMove DEF SoloInv

LEMMA RollStart == MembershipInit => TheRoll!Init
<1> SUFFICES ASSUME MembershipInit PROVE Standing = [i \in AppId |-> "none"]
  BY DEF TheRoll!Init
<1>1. DOMAIN apps = {} /\ appSeq = 0 /\ \A u \in DOMAIN members : members[u].app = NoApp
  BY DEF MembershipInit, Imported
<1>2. \A i \in AppId : StandingIn(apps, members, appSeq, i) = "none"
  BY <1>1, MembershipAssumption DEF StandingIn, Admitted, NoApp, AppId
<1> QED
  BY <1>2, StandingNow

\* With one admin who waits for answers, RegisterApplication, RejectApplication,
\* SetApplicationStatus, ApproveApplication, DeleteApplication and DeleteUser move an
\* application as the Roll says, however many people register meanwhile.
THEOREM RegisterImplementsRoll ==
  ASSUME OneClerk
  PROVE  MembershipSpec => RollSpec
<1>1. ASSUME SoloInv, SoloInv', [MembershipNext]_membershipVars
      PROVE  [TheRoll!Next]_Standing
  BY <1>1, RollStep
<1> QED
  BY SoloInvariant, RollStart, <1>1, PTL DEF MembershipSpec, RollSpec, TheRoll!Spec

-----------------------------------------------------------------------------
(* Phone numbers: what CheckUnique and UpdateUser counted is so until they write. *)

LookedPC == {"apps_phone", "approve_write", "update_write"}

Looked(l) ==
  /\ l.pc \in {"apps_phone", "approve_write"} => ~MemberWith("phone", l.phone, NoMember)
  /\ l.pc = "update_write" => ~MemberWith("phone", l.phone, l.member)

PhoneInv ==
  /\ PhoneSharedByImports
  /\ \A a \in Clerk : Looked(desk[a])

LEMMA StaysLooked ==
  ASSUME OneClerk, RegisterInv, PhoneInv, [MembershipNext]_membershipVars
  PROVE  \A a \in Clerk : Looked(desk[a])'
<1> DEFINE Goal == \A a \in Clerk : Looked(desk[a])'
<1>0. /\ desk \in [Attendant -> DeskLocals]
      /\ \A a \in Clerk : a \in Attendant /\ Placed(a, desk[a]) /\ Looked(desk[a])
      /\ \A g \in Registrant : g \in Attendant /\ g \notin Clerk
  BY MembershipAssumption DEF RegisterInv, DesksTyped, PhoneInv, Attendant
<1>1. ASSUME NEW a \in Clerk, desk'[a].pc \notin LookedPC
      PROVE  Goal
  BY <1>1 DEF OneClerk, Looked, LookedPC
<1>2. ASSUME NEW a \in Clerk, members' = members, Looked(desk'[a])
      PROVE  Goal
  BY <1>2 DEF OneClerk, Looked, MemberWith
<1>3. ASSUME members' = members, \A a \in Clerk : desk'[a] = desk[a]
      PROVE  Goal
  BY <1>0, <1>3 DEF Looked, MemberWith
<1>4. ASSUME NEW a \in Clerk, DeskAnswer(a)
      PROVE  Goal
  BY <1>0, <1>1, <1>4 DEF DeskAnswer, NoDesk, LookedPC
<1>5. ASSUME NEW a \in Clerk, NEW there, DeskGoto(a, there)
      PROVE  /\ desk'[a].pc = there /\ desk'[a].phone = desk[a].phone
             /\ desk'[a].member = desk[a].member
  BY <1>0, <1>5 DEF DeskGoto, DeskLocals
<1>6. ASSUME NEW a \in Clerk, NEW here, NEW there, NEW condition, there \notin LookedPC,
             DeskCheck(a, here, there, condition)
      PROVE  Goal
  <2>1. DeskGoto(a, there) \/ DeskAnswer(a)
    BY <1>6, Zenon DEF DeskCheck
  <2> QED
    BY <1>1, <1>4, <1>5, <1>6, <2>1
\* A count that found nobody.
<1>7. ASSUME NEW a \in Clerk, NEW here, NEW there, NEW condition,
             DeskCheck(a, here, there, condition),
             condition /\ desk[a].pc = here =>
               /\ there \in {"apps_phone", "approve_write"} => ~MemberWith("phone", desk[a].phone, NoMember)
               /\ there = "update_write" => ~MemberWith("phone", desk[a].phone, desk[a].member)
      PROVE  Goal
  <2>1. desk[a].pc = here /\ ((condition /\ DeskGoto(a, there)) \/ DeskAnswer(a))
    BY <1>7, Zenon DEF DeskCheck, DeskAt
  <2>2. UNCHANGED registerVars
    BY <1>7, Zenon DEF DeskCheck
  <2>3. members' = members
    BY <2>2 DEF registerVars, memberVars
  <2>4. CASE DeskAnswer(a)
    BY <1>4, <2>4
  <2>5. CASE condition /\ DeskGoto(a, there)
    <3>1. Looked(desk'[a])
      BY <1>5, <1>7, <2>1, <2>5 DEF Looked
    <3> QED
      BY <1>2, <2>3, <3>1
  <2> QED
    BY <2>1, <2>4, <2>5
<1>8. ASSUME NEW a \in Clerk, CheckUnique(a)
      PROVE  Goal
  <2>1. UniqueReadMembersCpr(a) => Goal
    BY <1>6 DEF UniqueReadMembersCpr, LookedPC
  <2>2. UniqueReadAppsCpr(a) => Goal
    BY <1>6 DEF UniqueReadAppsCpr, LookedPC
  <2>3. UniqueReadMembersPhone(a) => Goal
    BY <1>7 DEF UniqueReadMembersPhone
  <2>4. UniqueReadAppsPhone(a) => Goal
    <3>1. desk[a].pc = "apps_phone" => ~MemberWith("phone", desk[a].phone, NoMember)
      BY <1>0 DEF Looked
    <3> QED
      BY <1>7, <3>1 DEF UniqueReadAppsPhone
  <2> QED
    BY <1>8, <2>1, <2>2, <2>3, <2>4 DEF CheckUnique
<1>9. ASSUME NEW a \in Clerk, UpdateReadCpr(a) \/ UpdateReadPhone(a)
      PROVE  Goal
  <2>1. UpdateReadCpr(a) => Goal
    BY <1>6 DEF UpdateReadCpr, LookedPC
  <2>2. UpdateReadPhone(a) => Goal
    BY <1>7 DEF UpdateReadPhone
  <2> QED
    BY <1>9, <2>1, <2>2
<1>10. ASSUME NEW a \in Clerk, ClerkStep(a)
       PROVE  Goal
  <2>1. DeskGoto(a, "status_sessions") => Goal
    BY <1>1, <1>5 DEF LookedPC
  <2> QED
    BY <1>4, <1>8, <1>9, <1>10, <2>1
       DEF ClerkStep, ApproveWrite, ApproveFails, AppStatusWrite, DeleteApplicationWrite, UpdateWrite,
           StatusWrite, StatusSessions, DeleteWrite, ControlWrite
<1>11. ASSUME NEW a \in Clerk, ClerkRequest(a)
       PROVE  Goal
  <2> DEFINE Begins(l) == desk' = [desk EXCEPT ![a] = l] /\ l.pc \notin LookedPC
  <2>1. ASSUME NEW l, Begins(l)
        PROVE  Goal
    BY <1>0, <1>1, <2>1
  <2>2. ASSUME NEW i \in AppId, ApproveStart(a, i)
        PROVE  Goal
    <3> DEFINE l == [NoDesk EXCEPT !.pc = "members_cpr", !.app = i, !.cpr = apps[i].cpr,
                                   !.phone = apps[i].phone]
    <3>1. Begins(l)
      BY <2>2 DEF ApproveStart, NoDesk, LookedPC
    <3> QED
      BY <2>1, <3>1
  <2>3. ASSUME NEW i \in AppId, NEW s, AppStatusStart(a, i, s)
        PROVE  Goal
    <3> DEFINE l == [NoDesk EXCEPT !.pc = "app_status_write", !.app = i, !.value = s]
    <3>1. Begins(l)
      BY <2>3 DEF AppStatusStart, NoDesk, LookedPC
    <3> QED
      BY <2>1, <3>1
  <2>4. ASSUME NEW i \in AppId, DeleteApplicationStart(a, i)
        PROVE  Goal
    <3> DEFINE l == [NoDesk EXCEPT !.pc = "app_delete_write", !.app = i]
    <3>1. Begins(l)
      BY <2>4 DEF DeleteApplicationStart, NoDesk, LookedPC
    <3> QED
      BY <2>1, <3>1
  <2>5. ASSUME NEW u \in MemberId, NEW c \in Cpr, NEW p \in Phone, UpdateStart(a, u, c, p)
        PROVE  Goal
    <3> DEFINE l == [NoDesk EXCEPT !.pc = "update_cpr", !.member = u, !.cpr = c, !.phone = p]
    <3>1. Begins(l)
      BY <2>5 DEF UpdateStart, NoDesk, LookedPC
    <3> QED
      BY <2>1, <3>1
  <2>6. ASSUME NEW u \in MemberId, NEW s, StatusStart(a, u, s)
        PROVE  Goal
    <3> DEFINE l == [NoDesk EXCEPT !.pc = "status_write", !.member = u, !.value = s]
    <3>1. Begins(l)
      BY <2>6 DEF StatusStart, NoDesk, LookedPC
    <3> QED
      BY <2>1, <3>1
  <2>7. ASSUME NEW u \in MemberId, DeleteStart(a, u)
        PROVE  Goal
    <3> DEFINE l == [NoDesk EXCEPT !.pc = "delete_write", !.member = u, !.app = members[u].app]
    <3>1. Begins(l)
      BY <2>7 DEF DeleteStart, NoDesk, LookedPC
    <3> QED
      BY <2>1, <3>1
  <2>8. ASSUME NEW open, NEW schedule, ControlStart(a, open, schedule)
        PROVE  Goal
    <3> DEFINE l == [NoDesk EXCEPT !.pc = "control_write", !.value = schedule]
    <3>1. Begins(l)
      BY <2>8 DEF ControlStart, NoDesk, LookedPC
    <3> QED
      BY <2>1, <3>1
  <2>9. ClearSchedule(a) => Goal
    BY <1>3 DEF ClearSchedule, memberVars
  <2> QED
    BY <1>11, <2>2, <2>3, <2>4, <2>5, <2>6, <2>7, <2>8, <2>9 DEF ClerkRequest
<1>12. ASSUME NEW g \in Registrant, members' = members, NEW l, desk' = [desk EXCEPT ![g] = l]
       PROVE  Goal
  BY <1>0, <1>3, <1>12
<1>13. ASSUME NEW g \in Registrant, NEW here, NEW there, NEW condition, DeskCheck(g, here, there, condition)
       PROVE  Goal
  <2>1. UNCHANGED registerVars /\ (DeskGoto(g, there) \/ DeskAnswer(g))
    BY <1>13, Zenon DEF DeskCheck
  <2> QED
    BY <1>12, <2>1 DEF registerVars, memberVars, DeskGoto, DeskAnswer
<1>14. ASSUME NEW g \in Registrant, RegisterStep(g)
       PROVE  Goal
  <2>1. RegisterWrite(g) => Goal
    BY <1>12 DEF RegisterWrite, DeskAnswer, memberVars
  <2> QED
    BY <1>13, <1>14, <2>1, Zenon
       DEF RegisterStep, RegisterReadManual, RegisterReadSchedule, CheckUnique, UniqueReadMembersCpr,
           UniqueReadAppsCpr, UniqueReadMembersPhone, UniqueReadAppsPhone
<1>15. ASSUME NEW g \in Registrant, NEW c \in Cpr, NEW p \in Phone, RegisterArrives(g, c, p)
       PROVE  Goal
  BY <1>12, <1>15 DEF RegisterArrives, registerVars, memberVars
<1>16. CASE DeskRestart
  BY <1>0, <1>1, <1>16 DEF DeskRestart, NoDesk, LookedPC
<1>17. CASE DeadlinePasses \/ UNCHANGED membershipVars
  BY <1>3, <1>17 DEF DeadlinePasses, membershipVars, registerVars, memberVars
<1> QED
  BY <1>10, <1>11, <1>14, <1>15, <1>16, <1>17 DEF MembershipNext, DeskNext

LEMMA PhonesKept ==
  ASSUME OneClerk, RegisterInv, PhoneInv, [MembershipNext]_membershipVars
  PROVE  PhoneSharedByImports'
<1>0. /\ memberSeq \in Nat /\ \A u \in DOMAIN members : u \in 1 .. memberSeq
      /\ \A u \in DOMAIN members : members[u] \in MemberRow
      /\ PhoneSharedByImports /\ \A a \in Clerk : Looked(desk[a])
  BY DEF RegisterInv, IdsKept, RowsTyped, PhoneInv
<1>1. ASSUME \A u \in DOMAIN members' : u \in DOMAIN members /\ members'[u].app = members[u].app
                                        /\ members'[u].phone = members[u].phone
      PROVE  PhoneSharedByImports'
  BY <1>0, <1>1 DEF PhoneSharedByImports
<1>2. CASE UNCHANGED <<apps, appSeq, members, memberSeq>>
  BY <1>1, <1>2
<1>3. ASSUME NEW g \in Registrant, RegisterWrite(g)
      PROVE  PhoneSharedByImports'
  BY <1>1, <1>3 DEF RegisterWrite, memberVars
<1>4. ASSUME NEW a \in Clerk, ApproveWrite(a)
      PROVE  PhoneSharedByImports'
  <2>1. /\ members' = AddRow(members, memberSeq + 1, [cpr |-> desk[a].cpr, phone |-> desk[a].phone,
                                           app |-> desk[a].app, status |-> "active"])
        /\ desk[a].pc = "approve_write"
    BY <1>4 DEF ApproveWrite, NextMemberId, DeskAt
  <2>2. \A u \in DOMAIN members' :
           IF u = memberSeq + 1 THEN members'[u].phone = desk[a].phone
           ELSE u \in DOMAIN members /\ members'[u] = members[u]
    BY <2>1 DEF AddRow
  <2>3. \A u \in DOMAIN members : members[u].phone # desk[a].phone
    BY <1>0, <2>1 DEF Looked, MemberWith, NoMember
  <2> QED
    BY <1>0, <2>2, <2>3 DEF PhoneSharedByImports
<1>5. ASSUME NEW a \in Clerk, AppStatusWrite(a) \/ DeleteApplicationWrite(a)
      PROVE  PhoneSharedByImports'
  BY <1>1, <1>5 DEF AppStatusWrite, DeleteApplicationWrite, memberVars
<1>6. ASSUME NEW a \in Clerk, UpdateWrite(a)
      PROVE  PhoneSharedByImports'
  <2>1. /\ DOMAIN members' = DOMAIN members
        /\ \A u \in DOMAIN members : members'[u].app = members[u].app
        /\ \A u \in DOMAIN members : u # desk[a].member => members'[u] = members[u]
        /\ desk[a].member \in DOMAIN members =>
             members'[desk[a].member].phone \in {desk[a].phone, members[desk[a].member].phone}
    BY <1>0, <1>6 DEF UpdateWrite, MemberRow
  <2>2. \A u \in DOMAIN members : u # desk[a].member => members[u].phone # desk[a].phone
    BY <1>0, <1>6 DEF UpdateWrite, DeskAt, Looked, MemberWith
  <2> QED
    BY <1>0, <2>1, <2>2 DEF PhoneSharedByImports
<1>7. ASSUME NEW a \in Clerk, StatusWrite(a)
      PROVE  PhoneSharedByImports'
  BY <1>0, <1>1, <1>7 DEF StatusWrite, MemberRow
<1>8. ASSUME NEW a \in Clerk, DeleteWrite(a)
      PROVE  PhoneSharedByImports'
  BY <1>1, <1>8 DEF DeleteWrite, DropRow
<1>9. CASE DeskRestart
  <2>1. CASE DOMAIN members # {}
    BY <1>1, <1>9, <2>1 DEF DeskRestart, SeedMembers, memberVars
  <2>2. CASE DOMAIN members = {}
    <3>1. \A u \in DOMAIN members' : members'[u].app = NoApp
      BY <1>0, <1>9, <2>2, SeedRows DEF DeskRestart, SeedMembers, Imported
    <3> QED
      BY <3>1 DEF PhoneSharedByImports
  <2> QED
    BY <2>1, <2>2
<1> QED
  BY <1>2, <1>3, <1>4, <1>5, <1>6, <1>7, <1>8, <1>9, RowsMove

LEMMA PhoneStart == MembershipInit => PhoneInv
<1> SUFFICES ASSUME MembershipInit PROVE PhoneInv
  OBVIOUS
<1>1. \A g \in Attendant : desk[g].pc = "idle"
  BY DEF MembershipInit, NoDesk
<1>2. \A u \in DOMAIN members : members[u].app = NoApp
  BY DEF MembershipInit, Imported
<1> QED
  BY <1>1, <1>2 DEF PhoneInv, PhoneSharedByImports, Looked, Attendant

LEMMA PhoneStep ==
  ASSUME OneClerk, RegisterInv, PhoneInv, [MembershipNext]_membershipVars
  PROVE  PhoneInv'
BY StaysLooked, PhonesKept DEF PhoneInv

\* Two members share a phone number only if both were imported: with one admin who
\* waits for answers, nobody is created or changed between CheckUnique's or UpdateUser's
\* count of a phone number and the write that follows it.
THEOREM OnlyImportsSharePhones ==
  ASSUME OneClerk
  PROVE  MembershipSpec => []PhoneSharedByImports
<1>1. RegisterInv /\ PhoneInv /\ [MembershipNext]_membershipVars => PhoneInv'
  BY PhoneStep
<1>2. PhoneInv => PhoneSharedByImports
  BY DEF PhoneInv
<1> QED
  BY RegisterInvariant, PhoneStart, <1>1, <1>2, PTL DEF MembershipSpec

-----------------------------------------------------------------------------
(* Registrations in flight when the window shuts *)

\* A request past the schedule, and one past the switch.
BeyondSchedule(l) == l.pc \in UniquePC \cup {"register_write"}
BeyondSwitch(l) == BeyondSchedule(l) \/ l.pc = "schedule"

\* An admin's request is its own affair.
LEMMA ClerksLeaveForms ==
  ASSUME RegisterInv, NEW a \in Clerk, ClerkRequest(a) \/ ClerkStep(a)
  PROVE  \A g \in Registrant : desk'[g] = desk[g]
<1>0. \A g \in Registrant : g # a /\ g \in Attendant
  BY MembershipAssumption DEF Attendant
<1>1. ASSUME NEW l, desk' = desk \/ desk' = [desk EXCEPT ![a] = l]
      PROVE  \A g \in Registrant : desk'[g] = desk[g]
  BY <1>0, <1>1 DEF RegisterInv, DesksTyped
<1>2. ASSUME NEW here, NEW there, NEW condition, DeskCheck(a, here, there, condition)
      PROVE  \E l : desk' = desk \/ desk' = [desk EXCEPT ![a] = l]
  BY <1>2, Zenon DEF DeskCheck, DeskGoto, DeskAnswer
<1>3. CASE CheckUnique(a) \/ UpdateReadCpr(a) \/ UpdateReadPhone(a)
  <2>1. \E l : desk' = desk \/ desk' = [desk EXCEPT ![a] = l]
    BY <1>2, <1>3, Zenon DEF CheckUnique, UniqueReadMembersCpr, UniqueReadAppsCpr, UniqueReadMembersPhone,
       UniqueReadAppsPhone, UpdateReadCpr, UpdateReadPhone
  <2> QED
    BY <1>1, <2>1
<1>4. CASE ClerkRequest(a)
  <2>1. \E l : desk' = desk \/ desk' = [desk EXCEPT ![a] = l]
    BY <1>4, Zenon DEF ClerkRequest, ApproveStart, AppStatusStart, DeleteApplicationStart, UpdateStart,
       StatusStart, DeleteStart, ControlStart, ClearSchedule
  <2> QED
    BY <1>1, <2>1
<1>5. CASE DeskAnswer(a) \/ DeskGoto(a, "status_sessions")
  BY <1>1, <1>5 DEF DeskAnswer, DeskGoto
<1>6. CASE ClerkStep(a)
  BY <1>3, <1>5, <1>6 DEF ClerkStep, ApproveWrite, ApproveFails, AppStatusWrite, DeleteApplicationWrite,
     UpdateWrite, StatusWrite, StatusSessions, DeleteWrite, ControlWrite
<1> QED
  BY <1>4, <1>6

\* A form gets past the switch, and past the schedule, only while it is open.
LEMMA FormsStopped ==
  ASSUME RegisterInv, [MembershipNext]_membershipVars, NEW h \in Registrant
  PROVE  /\ BeyondSwitch(desk'[h]) => BeyondSwitch(desk[h]) \/ regOpen
         /\ BeyondSchedule(desk'[h]) => BeyondSchedule(desk[h]) \/ closeAt # "past"
<1> DEFINE Goal == /\ BeyondSwitch(desk'[h]) => BeyondSwitch(desk[h]) \/ regOpen
                   /\ BeyondSchedule(desk'[h]) => BeyondSchedule(desk[h]) \/ closeAt # "past"
<1>0. h \in Attendant /\ desk \in [Attendant -> DeskLocals]
  BY DEF Attendant, RegisterInv, DesksTyped
<1>s. desk'[h] = desk[h] => Goal
  OBVIOUS
<1>p. desk'[h].pc \in {"idle", "manual"} => Goal
  BY DEF BeyondSwitch, BeyondSchedule, UniquePC
<1>m. ASSUME NEW g \in Registrant, NEW l, desk' = [desk EXCEPT ![g] = l]
      PROVE  IF g = h THEN desk'[h] = l ELSE desk'[h] = desk[h]
  BY <1>0, <1>m DEF Attendant
<1>a. ASSUME NEW g \in Registrant, DeskAnswer(g) PROVE Goal
  <2>1. desk' = [desk EXCEPT ![g] = NoDesk] /\ NoDesk.pc = "idle"
    BY <1>a DEF DeskAnswer, NoDesk
  <2> QED
    BY <1>m, <1>p, <1>s, <2>1
<1>g. ASSUME NEW g \in Registrant, NEW pc, DeskGoto(g, pc)
      PROVE  IF g = h THEN desk'[h].pc = pc ELSE desk'[h] = desk[h]
  <2> DEFINE l == [desk[g] EXCEPT !.pc = pc]
  <2>1. desk' = [desk EXCEPT ![g] = l]
    BY <1>g DEF DeskGoto
  <2>2. l.pc = pc
    BY <1>0, <1>g DEF DeskLocals, Attendant
  <2> HIDE DEF l
  <2> QED
    BY <1>m, <2>1, <2>2
<1>c. ASSUME NEW g \in Registrant, NEW here, NEW there, NEW condition, DeskCheck(g, here, there, condition)
      PROVE  /\ desk[g].pc = here
             /\ Goal \/ (condition /\ IF g = h THEN desk'[h].pc = there ELSE desk'[h] = desk[h])
  <2>1. desk[g].pc = here
    BY <1>c, Zenon DEF DeskCheck, DeskAt
  <2>2. DeskAnswer(g) \/ (condition /\ DeskGoto(g, there))
    BY <1>c, Zenon DEF DeskCheck
  <2> QED
    BY <1>a, <1>g, <2>1, <2>2
<1>1. ASSUME NEW g \in Registrant, RegisterReadManual(g) PROVE Goal
  <2>1. Goal \/ (regOpen /\ IF g = h THEN desk'[h].pc = "schedule" ELSE desk'[h] = desk[h])
    BY <1>1, <1>c DEF RegisterReadManual
  <2> QED
    BY <1>s, <2>1 DEF BeyondSchedule, UniquePC
<1>2. ASSUME NEW g \in Registrant, RegisterReadSchedule(g) PROVE Goal
  <2>1. desk[g].pc = "schedule"
    BY <1>2, <1>c DEF RegisterReadSchedule
  <2>2. Goal \/ (closeAt # "past" /\ IF g = h THEN desk'[h].pc = "members_cpr" ELSE desk'[h] = desk[h])
    BY <1>2, <1>c DEF RegisterReadSchedule
  <2> QED
    BY <1>s, <2>1, <2>2 DEF BeyondSwitch
<1>3. ASSUME NEW g \in Registrant, CheckUnique(g) PROVE Goal
  <2>1. desk[g].pc \in UniquePC
    BY <1>3, Zenon DEF CheckUnique, UniqueReadMembersCpr, UniqueReadAppsCpr, UniqueReadMembersPhone,
                       UniqueReadAppsPhone, DeskCheck, DeskAt, UniquePC
  <2>2. ASSUME NEW l, desk' = [desk EXCEPT ![g] = l] PROVE Goal
    BY <1>m, <1>s, <2>1, <2>2 DEF BeyondSwitch, BeyondSchedule
  <2>3. \E l : desk' = [desk EXCEPT ![g] = l]
    BY <1>3, Zenon DEF CheckUnique, UniqueReadMembersCpr, UniqueReadAppsCpr, UniqueReadMembersPhone,
                       UniqueReadAppsPhone, DeskCheck, DeskGoto, DeskAnswer
  <2> QED
    BY <2>2, <2>3
<1>4. ASSUME NEW g \in Registrant, NEW c \in Cpr, NEW p \in Phone, RegisterArrives(g, c, p) PROVE Goal
  <2> DEFINE l == [NoDesk EXCEPT !.pc = "manual", !.cpr = c, !.phone = p]
  <2>1. desk' = [desk EXCEPT ![g] = l] /\ l.pc = "manual"
    BY <1>4 DEF RegisterArrives, NoDesk
  <2> HIDE DEF l
  <2> QED
    BY <1>m, <1>p, <1>s, <2>1
<1>5. ASSUME NEW a \in Clerk, ClerkRequest(a) \/ ClerkStep(a) PROVE Goal
  BY <1>5, <1>s, ClerksLeaveForms
<1>6. CASE DeskRestart
  <2>1. desk'[h].pc = "idle"
    BY <1>0, <1>6 DEF DeskRestart, NoDesk
  <2> QED
    BY <1>p, <2>1
<1>7. CASE DeadlinePasses \/ UNCHANGED membershipVars
  BY <1>7, <1>s DEF DeadlinePasses, membershipVars
<1>8. ASSUME NEW g \in Registrant, RegisterWrite(g) PROVE Goal
  BY <1>8, <1>a DEF RegisterWrite
<1> QED
  BY <1>1, <1>2, <1>3, <1>4, <1>5, <1>6, <1>7, <1>8 DEF MembershipNext, DeskNext, RegisterStep

\* Only a form's write makes an application.
LEMMA OnlyFormsApply ==
  ASSUME RegisterInv, [MembershipNext]_membershipVars, ~(\E g \in Registrant : RegisterWrite(g))
  PROVE  DOMAIN apps' \subseteq DOMAIN apps
<1>1. CASE UNCHANGED apps \/ DeskRestart
  BY <1>1 DEF DeskRestart, appVars
<1>2. ASSUME NEW a \in Clerk,
             \/ ApproveWrite(a) \/ AppStatusWrite(a) \/ DeleteApplicationWrite(a)
             \/ UpdateWrite(a) \/ StatusWrite(a) \/ DeleteWrite(a)
      PROVE  DOMAIN apps' \subseteq DOMAIN apps
  BY <1>2 DEF ApproveWrite, AppStatusWrite, DeleteApplicationWrite, UpdateWrite, StatusWrite, DeleteWrite,
     SetAppStatus, DropRow, appVars
<1> QED
  BY <1>1, <1>2, RowsMove

LEMMA LateStep ==
  ASSUME RegisterInv, [MembershipNext]_membershipVars
  PROVE  /\ ~regOpen => PastSwitch' \subseteq PastSwitch
         /\ closeAt = "past" => PastSchedule' \subseteq PastSchedule
         /\ \A i, j \in DOMAIN apps' \ DOMAIN apps : i = j
         /\ \A i \in DOMAIN apps' \ DOMAIN apps : \E g \in PastSchedule \ PastSchedule' :
              apps'[i].cpr = desk[g].cpr /\ apps'[i].phone = desk[g].phone
<1>0. /\ PastSchedule = {g \in Registrant : BeyondSchedule(desk[g])}
      /\ PastSchedule' = {g \in Registrant : BeyondSchedule(desk'[g])}
      /\ PastSwitch = {g \in Registrant : BeyondSwitch(desk[g])}
      /\ PastSwitch' = {g \in Registrant : BeyondSwitch(desk'[g])}
  BY DEF PastSchedule, PastSwitch, BeyondSchedule, BeyondSwitch, DeskAt
<1>1. /\ ~regOpen => PastSwitch' \subseteq PastSwitch
      /\ closeAt = "past" => PastSchedule' \subseteq PastSchedule
  BY <1>0, FormsStopped
<1>2. ASSUME NEW g \in Registrant, RegisterWrite(g)
      PROVE  /\ \A i, j \in DOMAIN apps' \ DOMAIN apps : i = j
             /\ \A i \in DOMAIN apps' \ DOMAIN apps : \E k \in PastSchedule \ PastSchedule' :
                  apps'[i].cpr = desk[k].cpr /\ apps'[i].phone = desk[k].phone
  <2> DEFINE row == [cpr |-> desk[g].cpr, phone |-> desk[g].phone, status |-> "pending"]
             id == appSeq + 1
  <2>1. apps' = AddRow(apps, id, row) /\ DeskAnswer(g) /\ desk[g].pc = "register_write"
    BY <1>2 DEF RegisterWrite, DeskAt
  <2>2. row.cpr = desk[g].cpr /\ row.phone = desk[g].phone
    OBVIOUS
  <2>3. desk'[g].pc = "idle"
    BY <2>1 DEF DeskAnswer, NoDesk, RegisterInv, DesksTyped, Attendant
  <2> HIDE DEF row, id
  <2>4. DOMAIN apps' \ DOMAIN apps \subseteq {id} /\ apps'[id] = row
    BY <2>1 DEF AddRow
  <2>5. g \in PastSchedule \ PastSchedule'
    BY <1>0, <2>1, <2>3 DEF BeyondSchedule, UniquePC
  <2> QED
    BY <2>2, <2>4, <2>5
<1>3. CASE ~(\E g \in Registrant : RegisterWrite(g))
  BY <1>1, <1>3, OnlyFormsApply
<1> QED
  BY <1>1, <1>2, <1>3

\* Forms in flight when either of the two shuts the registration make one application each, of
\* their own numbers, and no form that reads it shut is among them.
THEOREM LateRegistrationsAreFew == MembershipSpec => LateRegistrations
<1>1. RegisterInv /\ [MembershipNext]_membershipVars =>
        [/\ ~regOpen => PastSwitch' \subseteq PastSwitch
         /\ closeAt = "past" => PastSchedule' \subseteq PastSchedule
         /\ \A i, j \in DOMAIN apps' \ DOMAIN apps : i = j
         /\ \A i \in DOMAIN apps' \ DOMAIN apps : \E g \in PastSchedule \ PastSchedule' :
              apps'[i].cpr = desk[g].cpr /\ apps'[i].phone = desk[g].phone]_membershipVars
  BY LateStep
<1> QED
  BY <1>1, RegisterInvariant, PTL DEF MembershipSpec, LateRegistrations
=============================================================================
