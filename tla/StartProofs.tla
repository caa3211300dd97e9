------------------------------ MODULE StartProofs -----------------------------
(***************************************************************************)
(* What a start, cut short or not, leaves behind, for any files of earlier *)
(* releases, any keys with a default, any environments, any pages and any  *)
(* number of stops. The invariant goes through the start phase by phase:   *)
(* what each has established is what the next may rely on. Then which      *)
(* files can be opened, and what a password that is given up still opens.  *)
(***************************************************************************)
EXTENDS Accounts, FiniteSetTheorems, TLAPS

-----------------------------------------------------------------------------
(* The phases of a start, by what lies behind them. *)

AfterSeed == {"bootstrap", "serving"}
AfterDefaults == {"seed"} \cup AfterSeed
AfterAdd == {"defaults"} \cup AfterDefaults
AfterWiden == {"add"} \cup AfterAdd
AfterSchema == {"widen", "widen_copy", "widen_drop", "widen_commit"} \cup AfterWiden

LayoutInv ==
  /\ At("schema") => \A i \in DOMAIN Tables : i < boot.step => Tables[i] \in tables
  /\ boot.pc \in AfterSchema => tables = TableName
  /\ boot.pc \in AfterWiden => wide
  /\ At("add") => \A i \in DOMAIN Additions : i < boot.step => Additions[i] \in columns
  /\ boot.pc \in AfterAdd => columns = Column
  /\ boot.pc \in AfterDefaults => \A k \in Setting : setting[k] # "absent"
  /\ boot.pc \in AfterSeed => members
  /\ boot.pc \in {"schema", "widen"} \cup AfterWiden => fk
  /\ boot.pc \in {"widen_drop", "widen_commit"} => apps \subseteq tx.copied

\* How far a phase of several statements has come: 12 tables, 9 columns, 4 halves of a reset.
StepsInv ==
  /\ At("schema") => boot.step \in 1 .. 13
  /\ At("add") => boot.step \in 1 .. 10
  /\ At("bootstrap") => boot.step \in 1 .. 5

OpeningInv == OpeningTypeOK /\ StepsInv /\ LayoutInv

\* Whatever else happens, the phases come to no harm by it.
KeepsOpening ==
  /\ UNCHANGED fileVars
  /\ stops' \in 0 .. MaxStops
  /\ \/ UNCHANGED <<boot, fk, tx>>
     \/ boot' = [pc |-> "off", step |-> 1] /\ fk' = FALSE /\ tx' \in {tx, NoTx}
     \/ /\ boot.pc \in AfterSeed /\ boot'.pc \in AfterSeed /\ UNCHANGED <<fk, tx>>
        /\ boot' \in [pc : Phases, step : 1 .. 5]

-----------------------------------------------------------------------------
(* The start *)

LEMMA LengthsKnown ==
  /\ Len(Tables) = 12 /\ DOMAIN Tables = 1 .. 12
  /\ DOMAIN Additions = 1 .. 9
  BY DEF Tables, Additions

LEMMA TransactionsTyped ==
  LET Tx == [open : BOOLEAN, copied : SUBSET WideStatus, dropped : BOOLEAN]
  IN  /\ NoTx \in Tx /\ [NoTx EXCEPT !.open = TRUE] \in Tx
      /\ \A t \in Tx : [t EXCEPT !.dropped = TRUE] \in Tx
      /\ \A t \in Tx, S \in SUBSET WideStatus : [t EXCEPT !.copied = S] \in Tx
      /\ \A t \in Tx : [t EXCEPT !.dropped = TRUE].copied = t.copied
      /\ \A t \in Tx, S \in SUBSET WideStatus : [t EXCEPT !.copied = S].copied = S
<1> DEFINE Tx == [open : BOOLEAN, copied : SUBSET WideStatus, dropped : BOOLEAN]
<1>1. {} \in SUBSET WideStatus
  OBVIOUS
<1>2. NoTx \in Tx /\ [NoTx EXCEPT !.open = TRUE] \in Tx
  BY <1>1 DEF NoTx
<1> QED
  BY <1>2

LEMMA OpeningInvInit == OpeningInit => OpeningInv
<1> USE ReleaseAssumption, StopsAssumption, LengthsKnown
<1> SUFFICES ASSUME OpeningInit PROVE OpeningInv
  OBVIOUS
<1>1. OpeningTypeOK
  <2>1. PICK r \in Release :
          /\ tables = r.tables /\ columns = r.columns /\ wide = r.wide
          /\ apps = r.apps /\ members = r.members
    BY DEF OpeningInit
  <2>2. r \in ReleaseType
    OBVIOUS
  <2>3. /\ tables \subseteq TableName /\ columns \subseteq Column /\ wide \in BOOLEAN
        /\ apps \subseteq WideStatus /\ members \in BOOLEAN
    BY <2>1, <2>2 DEF ReleaseType
  <2>4. setting \in [Setting -> {"absent", "default", "edited"}]
    BY DEF OpeningInit
  <2>5. boot \in [pc : Phases, step : 1 .. Len(Tables) + 1]
    BY DEF OpeningInit, Phases
  <2>6. fk \in BOOLEAN
    BY Zenon DEF OpeningInit
  <2> QED
    BY <2>3, <2>4, <2>5, <2>6, TransactionsTyped DEF OpeningInit, OpeningTypeOK
<1>2. StepsInv /\ LayoutInv
  BY DEF OpeningInit, StepsInv, LayoutInv, At, AfterSchema, AfterWiden, AfterAdd,
         AfterDefaults, AfterSeed
<1> QED
  BY <1>1, <1>2 DEF OpeningInv

LEMMA BootStepTyped == ASSUME OpeningInv, BootStep PROVE OpeningTypeOK' /\ StepsInv'
<1> USE LengthsKnown, TransactionsTyped
    DEF OpeningInv, OpeningTypeOK, StepsInv, At, GoTo, Advance, fileVars, Phases
<1>1. CASE Launch
  BY <1>1 DEF Launch
<1>2. CASE CreateTable
  <2>1. Tables[boot.step] \in TableName /\ ColumnsOf(Tables[boot.step]) \subseteq Column
    BY <1>2 DEF CreateTable, TableName, ColumnsOf
  <2> QED
    BY <1>2, <2>1 DEF CreateTable
<1>3. CASE CreateIndexFails
  <2>1. fk' \in BOOLEAN
    BY <1>3, Zenon DEF CreateIndexFails
  <2> QED
    BY <1>3, <2>1 DEF CreateIndexFails
<1>4. CASE SchemaDone
  BY <1>4 DEF SchemaDone
<1>5. CASE WidenSkip
  BY <1>5 DEF WidenSkip
<1>6. CASE WidenBegin
  <2>1. fk' \in BOOLEAN
    BY <1>6, Zenon DEF WidenBegin
  <2> QED
    BY <1>6, <2>1 DEF WidenBegin
<1>7. CASE WidenCopy
  BY <1>7 DEF WidenCopy
<1>8. CASE WidenCopyFails
  <2>1. fk' \in BOOLEAN
    BY <1>8, Zenon DEF WidenCopyFails
  <2> QED
    BY <1>8, <2>1 DEF WidenCopyFails
<1>9. CASE WidenDrop
  BY <1>9 DEF WidenDrop
<1>10. CASE WidenCommit
  BY <1>10 DEF WidenCommit
<1>11. CASE AddColumn
  <2>1. Additions[boot.step] \in Column
    BY <1>11 DEF AddColumn, Column
  <2> QED
    BY <1>11, <2>1 DEF AddColumn
<1>12. CASE AddDone
  BY <1>12 DEF AddDone
<1>13. CASE InstallDefault
  BY <1>13 DEF InstallDefault
<1>14. CASE DefaultsDone
  BY <1>14 DEF DefaultsDone
<1>15. CASE Seed
  BY <1>15 DEF Seed
<1> QED
  BY <1>1, <1>2, <1>3, <1>4, <1>5, <1>6, <1>7, <1>8, <1>9, <1>10, <1>11, <1>12, <1>13, <1>14,
     <1>15 DEF BootStep

LEMMA BootStepKeepsLayout == ASSUME OpeningInv, BootStep PROVE LayoutInv'
<1> USE LengthsKnown
    DEF OpeningInv, OpeningTypeOK, StepsInv, LayoutInv, At, GoTo, Advance, fileVars,
        AfterSchema, AfterWiden, AfterAdd, AfterDefaults, AfterSeed
<1>1. CASE Launch
  BY <1>1 DEF Launch
<1>2. CASE CreateTable
  BY <1>2 DEF CreateTable
<1>3. CASE CreateIndexFails
  BY <1>3 DEF CreateIndexFails
<1>4. CASE SchemaDone
  <2>1. tables = TableName
    BY <1>4 DEF SchemaDone, TableName
  <2> QED
    BY <1>4, <2>1 DEF SchemaDone
<1>5. CASE WidenSkip
  BY <1>5 DEF WidenSkip
<1>6. CASE WidenBegin
  BY <1>6 DEF WidenBegin
<1>7. CASE WidenCopy
  BY <1>7 DEF WidenCopy
<1>8. CASE WidenCopyFails
  BY <1>8 DEF WidenCopyFails
<1>9. CASE WidenDrop
  BY <1>9 DEF WidenDrop
<1>10. CASE WidenCommit
  BY <1>10 DEF WidenCommit
<1>11. CASE AddColumn
  BY <1>11 DEF AddColumn
<1>12. CASE AddDone
  <2>1. columns = Column
    BY <1>12 DEF AddDone, Column
  <2> QED
    BY <1>12, <2>1 DEF AddDone
<1>13. CASE InstallDefault
  BY <1>13 DEF InstallDefault
<1>14. CASE DefaultsDone
  BY <1>14 DEF DefaultsDone
<1>15. CASE Seed
  BY <1>15 DEF Seed
<1> QED
  BY <1>1, <1>2, <1>3, <1>4, <1>5, <1>6, <1>7, <1>8, <1>9, <1>10, <1>11, <1>12, <1>13, <1>14,
     <1>15 DEF BootStep

LEMMA KeepsOpeningKeeps == ASSUME OpeningInv, KeepsOpening PROVE OpeningInv'
<1> USE LengthsKnown, TransactionsTyped
    DEF OpeningInv, OpeningTypeOK, StepsInv, KeepsOpening, At, fileVars
<1>1. fk' \in BOOLEAN
  BY Zenon
<1>2. boot' \in [pc : Phases, step : 1 .. Len(Tables) + 1]
  BY DEF Phases
<1>3. StepsInv'
  BY DEF AfterSeed
<1>4. LayoutInv'
  BY DEF LayoutInv, AfterSchema, AfterWiden, AfterAdd, AfterDefaults, AfterSeed
<1> QED
  BY <1>1, <1>2, <1>3, <1>4

LEMMA BootStepElsewhere ==
  ASSUME OpeningInv, BootStep
  PROVE  /\ ~At("bootstrap") /\ ~At("serving")
         /\ At("bootstrap")' => boot'.step = 1
         /\ ~At("serving")'
<1> USE DEF OpeningInv, OpeningTypeOK, At, GoTo, Advance
<1> QED
  BY DEF BootStep, Launch, CreateTable, CreateIndexFails, SchemaDone, WidenSkip, WidenBegin,
         WidenCopy, WidenCopyFails, WidenDrop, WidenCommit, AddColumn, AddDone, InstallDefault,
         DefaultsDone, Seed

-----------------------------------------------------------------------------
(* The accounts *)

PageLocals ==
  [pc : {"idle", "read", "session", "verify", "write", "drop"}, kind : Kind \cup {None},
   user : Name \cup {None}, old : Password \cup {None}, new : Password \cup {None}, id : 0 .. 2]
Passes == {NoPass} \cup [id : {1, 2}, kind : Kind, with : Password]

\* What a request in one of its steps has in its locals.
LocalsKept(r) ==
  /\ r.pc \in {"read", "session"} => r.kind \in Kind /\ r.old \in Password
  /\ r.pc = "session" => r.id \in {1, 2}
  /\ r.pc \in {"verify", "write"} => r.new \in Password

RequestsInv ==
  /\ page \in [Page -> PageLocals] /\ pass \in [Page -> Passes]
  /\ \A p \in Page : LocalsKept(page[p])

\* The kinds are dealt with in order, so the first account is membership's.
OperatorsInv ==
  /\ admins \subseteq Admin
  /\ \A a \in admins : a.id = 1 <=> a.kind = "membership"
  /\ \A a, b \in admins : a.kind = b.kind => a = b
  /\ OfKind("elections") # {} => OfKind("membership") # {}
  /\ At("bootstrap") /\ boot.step > 1 => OfKind("membership") # {}

Opens(k) == asked[k].reset => Matching(admins, k, asked[k].user, asked[k].password) # {}
Out(k) == asked[k].reset => \A p \in Page : pass[p].kind # k

\* What a start that was asked for a reset has done of it so far.
ResetsInv ==
  At("bootstrap") =>
    /\ boot.step > 1 => Opens("membership")
    /\ boot.step > 2 => Out("membership")
    /\ boot.step > 3 => Opens("elections")
    /\ boot.step > 4 => Out("elections")

AskedTyped == asked \in [Kind -> Environment \cup {NotAsked}]

AccountsInv == AskedTyped /\ RequestsInv /\ OperatorsInv

StartInv == OpeningInv /\ AccountsInv

LEMMA BootKindKnown ==
  ASSUME OpeningInv, At("bootstrap"), boot.step \in 1 .. 4
  PROVE  BootKind = IF boot.step \in {1, 2} THEN "membership" ELSE "elections"
<1>1. boot.step = 1 \/ boot.step = 2 \/ boot.step = 3 \/ boot.step = 4
  OBVIOUS
<1>2. (boot.step + 1) \div 2 = IF boot.step \in {1, 2} THEN 1 ELSE 2
  BY <1>1
<1>3. Kinds[1] = "membership" /\ Kinds[2] = "elections"
  BY DEF Kinds
<1> QED
  BY <1>2, <1>3 DEF BootKind

LEMMA BootstrapMoves ==
  ASSUME Bootstrap
  PROVE  /\ UNCHANGED <<fileVars, fk, tx, stops>> /\ At("bootstrap")
         /\ \/ NextKind /\ boot.step \in {1, 3}
            \/ Advance /\ boot.step \in 1 .. 4
            \/ GoTo("serving") /\ boot.step = 5
<1>1. CASE EnsureFinds
  BY <1>1 DEF EnsureFinds, Deciding
<1>2. CASE EnsureCreates
  BY <1>2 DEF EnsureCreates, Deciding
<1>3. CASE ResetWrite
  <2>1. /\ At("bootstrap") /\ boot.step \in {1, 3} /\ Advance
        /\ UNCHANGED <<fileVars, fk, tx, stops>>
    BY <1>3, Zenon DEF ResetWrite, Deciding
  <2> QED
    BY <2>1
<1>4. CASE ResetDrop
  <2>1. /\ At("bootstrap") /\ boot.step \in {2, 4} /\ Advance
        /\ UNCHANGED <<fileVars, fk, tx, stops>>
    BY <1>4, Zenon DEF ResetDrop
  <2> QED
    BY <2>1
<1>5. CASE Serve
  BY <1>5 DEF Serve
<1> QED
  BY <1>1, <1>2, <1>3, <1>4, <1>5 DEF Bootstrap

LEMMA ByPhase ==
  ASSUME OpeningInv, Bootstrap \/ ResetFatal \/ Crash
         \/ (UNCHANGED openingVars)
  PROVE  KeepsOpening
<1> USE StopsAssumption DEF OpeningInv, OpeningTypeOK, StepsInv, KeepsOpening, At, GoTo, AfterSeed, openingVars
<1>1. CASE Bootstrap
  <2>1. boot'.pc \in AfterSeed /\ boot' \in [pc : Phases, step : 1 .. 5]
    BY <1>1, BootstrapMoves DEF Phases, NextKind, Advance
  <2> QED
    BY <1>1, <2>1, BootstrapMoves
<1>2. CASE ResetFatal
  BY <1>2 DEF ResetFatal
<1>3. CASE Crash
  BY <1>3 DEF Crash, Stop
<1>4. CASE UNCHANGED openingVars
  BY <1>4
<1> QED
  BY <1>1, <1>2, <1>3, <1>4

LEMMA RequestsUntouched ==
  ASSUME RequestsInv, UNCHANGED <<page, pass>>
  PROVE  RequestsInv'
  BY DEF RequestsInv, LocalsKept

\* A request in one of its steps, or a session that ends.
LEMMA PageMoves ==
  ASSUME StartInv, NEW p \in Page, PageRequest(p) \/ PageStep(p) \/ Expire(p)
  PROVE  RequestsInv' /\ UNCHANGED <<openingVars, asked>>
<1> USE DEF StartInv, AccountsInv, RequestsInv, PageAt, Answer
<1>0. page[p] \in PageLocals /\ pass[p] \in Passes /\ NoPage \in PageLocals
  BY DEF PageLocals, NoPage
<1>1. ASSUME NEW kind \in Kind, NEW name \in Name, NEW typed \in Password,
             LoginArrives(p, kind, name, typed)
      PROVE  RequestsInv' /\ UNCHANGED <<openingVars, asked>>
  BY <1>1, <1>0 DEF LoginArrives, PageLocals, NoPage, LocalsKept
<1>2. ASSUME NEW old \in Password, NEW new \in Password, ChangeArrives(p, old, new)
      PROVE  RequestsInv' /\ UNCHANGED <<openingVars, asked>>
  <2>1. pass[p].id \in 0 .. 2
    BY <1>2, <1>0 DEF ChangeArrives, Passes
  <2> QED
    BY <1>2, <1>0, <2>1 DEF ChangeArrives, PageLocals, NoPage, LocalsKept
<1>3. CASE Logout(p) \/ Expire(p)
  BY <1>3 DEF Logout, Expire, Passes
<1>4. CASE LoginRead(p)
  <2> DEFINE found == Matching(admins, page[p].kind, page[p].user, page[p].old)
  <2>1. UNCHANGED <<openingVars, admins, asked, pass>> /\ page[p].pc = "read"
    BY <1>4 DEF LoginRead
  <2>2. page[p].kind \in Kind /\ page[p].old \in Password
    BY <2>1 DEF LocalsKept
  <2>3. \A a \in found : a.id \in {1, 2}
    BY DEF Matching, OperatorsInv, Admin
  <2>4. \/ \E a \in found : page' = [page EXCEPT ![p] = [NoPage EXCEPT !.pc = "session",
                                       !.kind = page[p].kind, !.old = page[p].old, !.id = a.id]]
        \/ page' = [page EXCEPT ![p].kind = Kinds[2]]
        \/ page' = [page EXCEPT ![p] = NoPage]
    BY <1>4 DEF LoginRead
  <2>5. Kinds[2] \in Kind
    BY DEF Kinds, Kind
  <2>6. PICK r \in PageLocals : LocalsKept(r) /\ page' = [page EXCEPT ![p] = r]
    <3>1. CASE \E a \in found : page' = [page EXCEPT ![p] = [NoPage EXCEPT !.pc = "session",
                                       !.kind = page[p].kind, !.old = page[p].old, !.id = a.id]]
      <4>1. PICK a \in found : page' = [page EXCEPT ![p] = [NoPage EXCEPT !.pc = "session",
                                       !.kind = page[p].kind, !.old = page[p].old, !.id = a.id]]
        BY <3>1
      <4> DEFINE r == [NoPage EXCEPT !.pc = "session", !.kind = page[p].kind,
                                     !.old = page[p].old, !.id = a.id]
      <4>2. a.id \in {1, 2}
        BY <2>3
      <4>3. r \in PageLocals
        <5>1. r = [NoPage EXCEPT !.pc = "session", !.kind = page[p].kind, !.old = page[p].old,
                                 !.id = r.id]
          BY DEF NoPage
        <5>2. r.id \in 0 .. 2
          BY <4>2 DEF NoPage
        <5> HIDE DEF r, found
        <5> QED
          BY <2>2, <5>1, <5>2 DEF PageLocals, NoPage
      <4>4. LocalsKept(r)
        BY <2>2, <4>2 DEF LocalsKept, NoPage
      <4> QED
        BY <4>1, <4>3, <4>4
    <3>2. CASE page' = [page EXCEPT ![p].kind = Kinds[2]]
      <4> DEFINE r == [page[p] EXCEPT !.kind = Kinds[2]]
      <4>1. r \in PageLocals /\ LocalsKept(r)
        <5>1. r \in PageLocals
          BY <1>0, <2>5 DEF PageLocals
        <5>2. r.pc = "read" /\ r.kind \in Kind /\ r.old \in Password
          BY <1>0, <2>1, <2>2, <2>5 DEF PageLocals
        <5> QED
          BY <5>1, <5>2 DEF LocalsKept
      <4>2. page' = [page EXCEPT ![p] = r]
        BY <3>2
      <4> QED
        BY <4>1, <4>2
    <3>3. CASE page' = [page EXCEPT ![p] = NoPage]
      BY <1>0, <3>3 DEF NoPage, LocalsKept
    <3> QED
      BY <2>4, <3>1, <3>2, <3>3
  <2> QED
    BY <2>1, <2>6
<1>5. CASE LoginCreate(p)
  BY <1>5, <1>0 DEF LoginCreate, Passes, LocalsKept, NoPage
<1>6. CASE ChangeVerify(p)
  BY <1>6, <1>0 DEF ChangeVerify, PageLocals, NoPage, LocalsKept
<1>7. CASE ChangeWrite(p)
  BY <1>7, <1>0 DEF ChangeWrite, PageLocals, NoPage, LocalsKept
<1>8. CASE ChangeDrop(p)
  <2>1. pass' \in [Page -> Passes]
    BY <1>8, Zenon DEF ChangeDrop, DropPasses, Passes
  <2>2. page' = [page EXCEPT ![p] = NoPage] /\ UNCHANGED <<openingVars, asked>>
    BY <1>8, Zenon DEF ChangeDrop
  <2> QED
    BY <1>0, <2>1, <2>2 DEF NoPage, LocalsKept
<1> QED
  BY <1>1, <1>2, <1>3, <1>4, <1>5, <1>6, <1>7, <1>8 DEF PageRequest, PageStep

\* Of the accounts, a request changes a password and nothing more.
LEMMA PageKeepsOperators ==
  ASSUME StartInv, NEW p \in Page, PageRequest(p) \/ PageStep(p) \/ Expire(p)
  PROVE  OperatorsInv'
<1> USE DEF StartInv, AccountsInv
<1>1. boot' = boot
  BY PageMoves DEF openingVars
<1>2. CASE ChangeWrite(p)
  <2>1. page[p].new \in Password
    BY <1>2 DEF ChangeWrite, PageAt, RequestsInv, LocalsKept
  <2> DEFINE changed(a) == IF a.id # page[p].id THEN a ELSE [a EXCEPT !.password = page[p].new]
  <2>2. admins' = {changed(a) : a \in admins}
    BY <1>2, Zenon DEF ChangeWrite
  <2>3. \A a \in admins : /\ changed(a) \in Admin
                          /\ changed(a).id = a.id /\ changed(a).kind = a.kind
    BY <2>1 DEF OperatorsInv, Admin
  <2> HIDE DEF changed
  <2> QED
    BY <1>1, <2>2, <2>3 DEF OperatorsInv, OfKind, At
<1>3. CASE ~ChangeWrite(p)
  <2>1. admins' = admins
    <3>1. CASE ChangeDrop(p)
      BY <3>1, Zenon DEF ChangeDrop
    <3> QED
      BY <1>3, <3>1 DEF PageRequest, PageStep, Expire, LoginArrives, ChangeArrives, Logout,
                        LoginRead, LoginCreate, ChangeVerify
  <2> QED
    BY <1>1, <2>1 DEF OperatorsInv, OfKind, At
<1> QED
  BY <1>2, <1>3

\* bootstrapAdmins: an account is made only where its kind has none, and the first that is
\* made, with nobody there, is membership's.
LEMMA CreatedIsNew ==
  ASSUME StartInv, EnsureCreates
  PROVE  OperatorsInv' /\ AskedTyped'
<1> USE DEF StartInv, AccountsInv
<1>1. PICK e \in Environ[BootKind] :
        /\ ~e.reset /\ asked' = [asked EXCEPT ![BootKind] = e]
        /\ OfKind(BootKind) = {}
        /\ admins' = admins \cup
             {[id |-> Cardinality(admins) + 1, kind |-> BootKind, user |-> Lower[e.user],
               password |-> IF e.password = Unset THEN Generated ELSE e.password]}
  BY DEF EnsureCreates, Ask, Absent
<1> DEFINE new == [id |-> Cardinality(admins) + 1, kind |-> BootKind, user |-> Lower[e.user],
                   password |-> IF e.password = Unset THEN Generated ELSE e.password]
<1>2. At("bootstrap") /\ boot.step \in {1, 3} /\ boot' = [boot EXCEPT !.step = @ + 2]
  BY DEF EnsureCreates, Deciding, NextKind
<1>3. BootKind = IF boot.step = 1 THEN "membership" ELSE "elections"
  BY <1>2, BootKindKnown
<1>4. BootKind \in Kind /\ e \in Environment
  BY <1>3, EnvironAssumption DEF Kind
<1>5. new.id = IF boot.step = 1 THEN 1 ELSE 2
  <2>1. CASE boot.step = 1
    <3>1. admins = {}
      BY <1>1, <1>3, <2>1 DEF OperatorsInv, OfKind, Admin, Kind
    <3> QED
      BY <2>1, <3>1, FS_EmptySet
  <2>2. CASE boot.step = 3
    <3>1. PICK a \in admins : a.kind = "membership"
      BY <1>2, <2>2 DEF OperatorsInv, OfKind
    <3>2. admins = {a}
      BY <1>1, <1>3, <2>2, <3>1 DEF OperatorsInv, OfKind, Admin, Kind
    <3> QED
      BY <2>2, <3>2, FS_Singleton
  <2> QED
    BY <1>2, <2>1, <2>2
<1>6. new \in Admin
  BY <1>2, <1>4, <1>5, NameAssumption DEF Admin, Environment
<1>7. new.kind = BootKind /\ admins' = admins \cup {new}
  BY <1>1
<1> HIDE DEF new
<1>8. OperatorsInv'
  <2>1. admins' \subseteq Admin
    BY <1>6, <1>7 DEF OperatorsInv
  <2>2. \A a \in admins' : a.id = 1 <=> a.kind = "membership"
    BY <1>2, <1>3, <1>5, <1>7 DEF OperatorsInv
  <2>3. \A a, b \in admins' : a.kind = b.kind => a = b
    BY <1>1, <1>7 DEF OperatorsInv, OfKind
  <2>4. OfKind("membership")' # {}
    BY <1>2, <1>3, <1>7 DEF OperatorsInv, OfKind
  <2> QED
    BY <2>1, <2>2, <2>3, <2>4 DEF OperatorsInv
<1>9. AskedTyped'
  BY <1>1, <1>4 DEF AskedTyped
<1> QED
  BY <1>8, <1>9

\* A reset gives the account of its kind the name and the password of the environment.
LEMMA ResetKeepsOperators ==
  ASSUME StartInv, ResetWrite
  PROVE  OperatorsInv' /\ AskedTyped' /\ UNCHANGED pass
<1> USE DEF StartInv, AccountsInv
<1>1. PICK e \in Environ[BootKind] :
        /\ e.password # Unset /\ asked' = [asked EXCEPT ![BootKind] = e]
        /\ admins' = {IF a.kind # BootKind THEN a
                      ELSE [a EXCEPT !.user = e.user, !.password = e.password] : a \in admins}
  BY Zenon DEF ResetWrite, Ask
<1>2. /\ At("bootstrap") /\ boot.step \in {1, 3} /\ boot' = [boot EXCEPT !.step = @ + 1]
      /\ OfKind(BootKind) # {} /\ UNCHANGED pass
  BY Zenon DEF ResetWrite, Deciding, Advance
<1>3. BootKind = IF boot.step = 1 THEN "membership" ELSE "elections"
  BY <1>2, BootKindKnown
<1>4. BootKind \in Kind /\ e.user \in Name /\ e.password \in Password
  BY <1>1, <1>3, EnvironAssumption DEF Kind, Environment
<1> DEFINE changed(a) == IF a.kind # BootKind THEN a
                         ELSE [a EXCEPT !.user = e.user, !.password = e.password]
<1>5. admins' = {changed(a) : a \in admins}
  BY <1>1
<1>6. \A a \in admins : /\ changed(a) \in Admin
                        /\ changed(a).id = a.id /\ changed(a).kind = a.kind
  BY <1>4 DEF OperatorsInv, Admin
<1> HIDE DEF changed
<1>7. OperatorsInv'
  BY <1>2, <1>3, <1>5, <1>6 DEF OperatorsInv, OfKind
<1>8. AskedTyped'
  BY <1>1, <1>4, EnvironAssumption DEF AskedTyped
<1> QED
  BY <1>2, <1>7, <1>8

LEMMA BootstrapKeepsAccounts ==
  ASSUME StartInv, Bootstrap
  PROVE  AccountsInv'
<1> USE DEF StartInv, AccountsInv
<1>1. CASE EnsureFinds
  <2>1. /\ UNCHANGED <<admins, page, pass>> /\ OfKind(BootKind) # {}
        /\ At("bootstrap") /\ boot.step \in {1, 3} /\ boot' = [boot EXCEPT !.step = @ + 2]
    BY <1>1 DEF EnsureFinds, Deciding, NextKind
  <2>2. BootKind = IF boot.step = 1 THEN "membership" ELSE "elections"
    BY <2>1, BootKindKnown
  <2>3. OperatorsInv'
    BY <2>1, <2>2 DEF OperatorsInv, OfKind, At, OpeningInv, OpeningTypeOK
  <2>4. AskedTyped'
    BY <1>1, <2>2, EnvironAssumption DEF EnsureFinds, Ask, AskedTyped, Kind
  <2> QED
    BY <2>1, <2>3, <2>4, RequestsUntouched
<1>2. CASE EnsureCreates
  <2>1. UNCHANGED <<page, pass>>
    BY <1>2 DEF EnsureCreates
  <2> QED
    BY <1>2, <2>1, CreatedIsNew, RequestsUntouched
<1>3. CASE ResetWrite
  <2>1. UNCHANGED <<page, pass>>
    BY <1>3, Zenon DEF ResetWrite
  <2> QED
    BY <1>3, <2>1, ResetKeepsOperators, RequestsUntouched
<1>4. CASE ResetDrop
  <2>1. /\ UNCHANGED <<admins, asked, page>> /\ At("bootstrap") /\ boot.step \in {2, 4}
        /\ boot' = [boot EXCEPT !.step = @ + 1]
    BY <1>4, Zenon DEF ResetDrop, Advance
  <2>2. pass' \in [Page -> Passes]
    <3>1. pass' = [p \in Page |-> pass'[p]] /\ \A p \in Page : pass'[p] \in {NoPass, pass[p]}
      BY <1>4, Zenon DEF ResetDrop, DropPasses
    <3> QED
      BY <3>1 DEF RequestsInv, Passes
  <2>3. RequestsInv'
    BY <2>1, <2>2 DEF RequestsInv, LocalsKept
  <2>4. OperatorsInv'
    BY <2>1 DEF OperatorsInv, OfKind, At, OpeningInv, OpeningTypeOK
  <2> QED
    BY <2>1, <2>3, <2>4 DEF AskedTyped
<1>5. CASE Serve
  <2>1. UNCHANGED <<admins, page, pass>> /\ boot'.pc = "serving"
        /\ asked' = [k \in Kind |-> NotAsked]
    BY <1>5 DEF Serve, GoTo
  <2> QED
    BY <2>1, RequestsUntouched DEF OperatorsInv, OfKind, At, AskedTyped
<1> QED
  BY <1>1, <1>2, <1>3, <1>4, <1>5 DEF Bootstrap

\* ResetFatal and Crash: the environment read so far goes with the process.
LEMMA EndKeepsAccounts ==
  ASSUME StartInv, ResetFatal \/ Crash
  PROVE  AccountsInv'
<1> USE DEF StartInv, AccountsInv
<1>1. admins' = admins /\ pass' = pass /\ boot'.pc = "off" /\ asked' = [k \in Kind |-> NotAsked]
  BY DEF ResetFatal, Crash, Stop, GoTo
<1>2. page' \in {page, [p \in Page |-> NoPage]}
  BY DEF ResetFatal, Crash
<1>3. RequestsInv'
  BY <1>1, <1>2 DEF RequestsInv, LocalsKept, PageLocals, NoPage
<1>4. OperatorsInv' /\ AskedTyped'
  BY <1>1 DEF OperatorsInv, OfKind, At, AskedTyped
<1> QED
  BY <1>3, <1>4

LEMMA StartInvInit == StartInit => StartInv
<1> SUFFICES ASSUME StartInit PROVE StartInv
  OBVIOUS
<1>1. OpeningInv
  BY OpeningInvInit DEF StartInit
<1>2. RequestsInv
  BY DEF StartInit, RequestsInv, LocalsKept, PageLocals, NoPage, Passes
<1>3. OperatorsInv /\ AskedTyped
  BY DEF StartInit, OpeningInit, OperatorsInv, OfKind, At, AskedTyped
<1> QED
  BY <1>1, <1>2, <1>3 DEF StartInv, AccountsInv

LEMMA StartInvStep ==
  ASSUME StartInv, [StartNext]_startVars
  PROVE  StartInv'
<1>1. CASE BootStep /\ UNCHANGED accountVars
  <2>1. OpeningInv'
    BY <1>1, BootStepTyped, BootStepKeepsLayout DEF StartInv, OpeningInv
  <2>2. OperatorsInv'
    BY <1>1, BootStepElsewhere DEF StartInv, AccountsInv, OperatorsInv, OfKind, accountVars, At
  <2>3. RequestsInv' /\ AskedTyped'
    BY <1>1, RequestsUntouched DEF StartInv, AccountsInv, AskedTyped, accountVars
  <2> QED
    BY <2>1, <2>2, <2>3 DEF StartInv, AccountsInv
<1>2. CASE Bootstrap
  BY <1>2, ByPhase, KeepsOpeningKeeps, BootstrapKeepsAccounts DEF StartInv
<1>3. CASE ResetFatal \/ Crash
  BY <1>3, ByPhase, KeepsOpeningKeeps, EndKeepsAccounts DEF StartInv
<1>4. ASSUME NEW p \in Page, PageRequest(p) \/ PageStep(p) \/ Expire(p)
      PROVE  StartInv'
  <2>1. RequestsInv' /\ UNCHANGED <<openingVars, asked>>
    BY <1>4, PageMoves
  <2>2. OpeningInv'
    BY <2>1, ByPhase, KeepsOpeningKeeps DEF StartInv
  <2> QED
    BY <1>4, <2>1, <2>2, PageKeepsOperators DEF StartInv, AccountsInv, AskedTyped
<1>5. CASE UNCHANGED startVars
  <2>1. OpeningInv'
    BY <1>5, ByPhase, KeepsOpeningKeeps DEF StartInv, startVars
  <2>2. OperatorsInv'
    BY <1>5 DEF StartInv, AccountsInv, OperatorsInv, OfKind, accountVars, startVars, openingVars, At
  <2>3. RequestsInv' /\ AskedTyped'
    BY <1>5, RequestsUntouched DEF StartInv, AccountsInv, AskedTyped, accountVars, startVars
  <2> QED
    BY <2>1, <2>2, <2>3 DEF StartInv, AccountsInv
<1> QED
  BY <1>1, <1>2, <1>3, <1>4, <1>5 DEF StartNext

LEMMA StartInvariant == StartSpec => []StartInv
<1>1. StartInv /\ [StartNext]_startVars => StartInv'
  BY StartInvStep
<1> QED
  BY StartInvInit, <1>1, PTL DEF StartSpec

-----------------------------------------------------------------------------
(* Theorems *)

\* Whatever release left the file, and wherever earlier starts were stopped, the server
\* serves only over the whole current layout (Open and main).
THEOREM ServesTheCurrentLayout == StartSpec => []ServingIsCurrent
<1>1. StartInv => ServingIsCurrent
  BY DEF StartInv, OpeningInv, LayoutInv, ServingIsCurrent, At, AfterSchema, AfterWiden, AfterAdd,
         AfterDefaults, AfterSeed
<1> QED
  BY StartInvariant, <1>1, PTL

\* However names differ from one start to the next (EnsureAdmin, ForceResetPassword), a
\* dashboard has one account.
THEOREM OneOperatorEach == StartSpec => []OneOperatorPerKind
<1>1. StartInv => OneOperatorPerKind
  <2> SUFFICES ASSUME StartInv PROVE OneOperatorPerKind
    OBVIOUS
  <2>1. \A a, b \in admins : a.id = b.id => a.kind = b.kind
    BY DEF StartInv, AccountsInv, OperatorsInv, Admin, Kind
  <2> QED
    BY <2>1 DEF StartInv, AccountsInv, OperatorsInv, OneOperatorPerKind, UniqueName
<1> QED
  BY StartInvariant, <1>1, PTL

\* The file, the accounts, the sessions and what requests hold keep their types.
THEOREM StartTyped == StartSpec => []StartTypeOK
<1>1. StartInv => StartTypeOK
  BY DEF StartInv, OpeningInv, AccountsInv, RequestsInv, OperatorsInv, AskedTyped, StartTypeOK,
         PageLocals, Passes
<1> QED
  BY StartInvariant, <1>1, PTL

\* No start, whole or cut short, loses a row or a column or overwrites what an admin wrote
\* (migrate and installDefaults): the transaction that rebuilds applications has copied
\* whatever there is before it commits.
THEOREM NothingLost == StartSpec => NothingLostByStarts
<1> DEFINE Kept == /\ apps \subseteq apps' /\ (members => members')
                   /\ tables \subseteq tables' /\ columns \subseteq columns'
                   /\ \A k \in Setting : setting[k] = "edited" => setting'[k] = "edited"
<1>1. ASSUME StartInv, [StartNext]_startVars
      PROVE  [Kept]_openingVars
  <2>1. ASSUME UNCHANGED fileVars
        PROVE  Kept
    BY <2>1 DEF fileVars
  <2>2. CASE BootStep
    <3>1. CASE CreateTable
      BY <3>1 DEF CreateTable
    <3>2. CASE WidenCommit
      BY <1>1, <3>2 DEF WidenCommit, StartInv, OpeningInv, LayoutInv, At
    <3>3. CASE AddColumn
      BY <3>3 DEF AddColumn
    <3>4. CASE InstallDefault
      BY <1>1, <3>4 DEF InstallDefault, StartInv, OpeningInv, OpeningTypeOK
    <3>5. CASE Seed
      BY <3>5 DEF Seed
    <3>6. CASE UNCHANGED fileVars
      BY <2>1, <3>6
    <3> QED
      BY <2>2, <3>1, <3>2, <3>3, <3>4, <3>5, <3>6
         DEF BootStep, Launch, CreateIndexFails, SchemaDone, WidenSkip, WidenBegin, WidenCopy,
             WidenCopyFails, WidenDrop, AddDone, DefaultsDone
  <2>3. CASE Bootstrap
    BY <2>1, <2>3, BootstrapMoves
  <2>4. CASE ResetFatal \/ Crash
    BY <2>1, <2>4 DEF ResetFatal, Crash, Stop
  <2>5. ASSUME NEW p \in Page, PageRequest(p) \/ PageStep(p) \/ Expire(p)
        PROVE  UNCHANGED openingVars
    BY <1>1, <2>5, PageMoves
  <2> QED
    BY <1>1, <2>2, <2>3, <2>4, <2>5 DEF StartNext, startVars
<1> QED
  BY StartInvariant, <1>1, PTL DEF StartSpec, NothingLostByStarts

-----------------------------------------------------------------------------
(* Which files can be opened *)

\* The schema gets past the index of participants only where its column is there, and the
\* rebuild of applications has begun only where three statuses were found, and gone on
\* only where the column that it copies is there.
RefusalInv ==
  /\ boot.pc \in AfterSchema \/ (At("schema") /\ boot.step > 9) => Indexed("participants") \subseteq columns
  /\ boot.pc \in {"widen_copy", "widen_drop", "widen_commit"} => ~wide
  /\ boot.pc \in {"widen_drop", "widen_commit"} => <<"applications", "meeting_no">> \in columns

LEMMA OneIndexAddedLater ==
  /\ Indexed("participants") = {<<"participants", "candidacy_id">>}
  /\ \A t : t # "participants" => Indexed(t) = {}
  /\ Tables[9] = "participants" /\ \A i \in 1 .. 12 : Tables[i] = "participants" => i = 9
  /\ "participants" \in TableName /\ "applications" \in TableName
  /\ <<"participants", "candidacy_id">> \in ColumnsOf("participants")
  /\ \A t : t # "participants" => <<"participants", "candidacy_id">> \notin ColumnsOf(t)
  /\ <<"applications", "meeting_no">> \in ColumnsOf("applications")
  /\ \A t : t # "applications" => <<"applications", "meeting_no">> \notin ColumnsOf(t)
<1>1. Indexed("participants") = {<<"participants", "candidacy_id">>} /\ \A t : t # "participants" => Indexed(t) = {}
  BY DEF Indexed
<1>2. Tables[9] = "participants" /\ \A i \in 1 .. 12 : Tables[i] = "participants" => i = 9
  <2> SUFFICES ASSUME NEW i \in 1 .. 12, Tables[i] = "participants" PROVE i = 9
    BY DEF Tables
  <2>1. i \in {1, 2, 3, 4, 5, 6, 7, 8, 9, 10, 11, 12}
    OBVIOUS
  <2> QED
    BY <2>1 DEF Tables
<1>3. "participants" \in TableName /\ "applications" \in TableName
  <2>1. Tables[9] = "participants" /\ Tables[4] = "applications"
    BY DEF Tables
  <2> QED
    BY <2>1, LengthsKnown DEF TableName
<1>4. <<"participants", "candidacy_id">> \in Column /\ <<"applications", "meeting_no">> \in Column
  <2>1. Additions[6] = <<"participants", "candidacy_id">> /\ Additions[2] = <<"applications", "meeting_no">>
    BY DEF Additions
  <2> QED
    BY <2>1, LengthsKnown DEF Column
<1> QED
  BY <1>1, <1>2, <1>3, <1>4 DEF ColumnsOf

LEMMA RefusalStep ==
  ASSUME OpeningInv, RefusalInv, BootStep
  PROVE  /\ RefusalInv' /\ (Openable <=> Openable')
         /\ Openable /\ ~At("off") => boot'.pc # "off"
<1> DEFINE Goal == /\ RefusalInv' /\ (Openable <=> Openable')
                   /\ Openable /\ ~At("off") => boot'.pc # "off"
<1> USE LengthsKnown, OneIndexAddedLater
    DEF OpeningInv, OpeningTypeOK, StepsInv, LayoutInv, RefusalInv, Openable, At, GoTo, Advance,
        AfterSchema, AfterWiden, AfterAdd, AfterDefaults, AfterSeed
<1>1. CASE CreateTable
  <2> DEFINE t == Tables[boot.step]
  <2>1. /\ boot.pc = "schema" /\ boot.step \in 1 .. 12 /\ boot'.pc = "schema" /\ boot'.step = boot.step + 1
        /\ tables' = tables \cup {t} /\ columns' = columns \cup (IF t \in tables THEN {} ELSE ColumnsOf(t))
        /\ wide' = (wide \/ (t = "applications" /\ t \notin tables)) /\ Indexed(t) \subseteq columns'
    BY <1>1 DEF CreateTable
  <2>2. boot.step = 9 => t = "participants"
    OBVIOUS
  <2> HIDE DEF t
  <2>3. RefusalInv'
    BY <2>1, <2>2
  <2>4. Openable <=> Openable'
    <3>1. CASE t = "participants"
      BY <2>1, <3>1
    <3>2. CASE t = "applications"
      BY <2>1, <3>2
    <3>3. CASE t \notin {"participants", "applications"}
      BY <2>1, <3>3
    <3> QED
      BY <3>1, <3>2, <3>3
  <2> QED
    BY <2>1, <2>3, <2>4
<1>2. CASE CreateIndexFails
  BY <1>2 DEF CreateIndexFails, fileVars
<1>3. CASE WidenCopyFails
  BY <1>3 DEF WidenCopyFails, fileVars
<1>4. CASE WidenCommit
  BY <1>4 DEF WidenCommit
<1>5. CASE AddColumn
  BY <1>5 DEF AddColumn
<1>6. CASE Launch \/ SchemaDone \/ WidenSkip \/ WidenBegin
  BY <1>6 DEF Launch, SchemaDone, WidenSkip, WidenBegin, fileVars
<1>7. CASE WidenCopy \/ WidenDrop \/ AddDone
  BY <1>7 DEF WidenCopy, WidenDrop, AddDone, fileVars
<1>8. CASE InstallDefault \/ DefaultsDone \/ Seed
  BY <1>8 DEF InstallDefault, DefaultsDone, Seed, fileVars
<1> QED
  BY <1>1, <1>2, <1>3, <1>4, <1>5, <1>6, <1>7, <1>8 DEF BootStep

\* The rest of the process leaves the file alone.
LEMMA RefusalKept ==
  ASSUME OpeningInv, RefusalInv, KeepsOpening
  PROVE  RefusalInv' /\ (Openable <=> Openable')
<1>1. UNCHANGED <<tables, columns, wide>>
  BY DEF KeepsOpening, fileVars
<1>2. Openable <=> Openable'
  BY <1>1 DEF Openable
<1> QED
  BY <1>1, <1>2 DEF KeepsOpening, RefusalInv, At, AfterSchema, AfterWiden, AfterAdd, AfterDefaults, AfterSeed

LEMMA OpenableSettled ==
  ASSUME StartInv, RefusalInv, [StartNext]_startVars
  PROVE  /\ RefusalInv' /\ (Openable <=> Openable')
         /\ Openable /\ ~At("off") /\ boot'.pc = "off" => stops' = stops + 1
<1> USE DEF StartInv
<1>1. CASE BootStep /\ UNCHANGED accountVars
  BY <1>1, RefusalStep
<1>2. CASE Bootstrap
  <2>1. boot'.pc # "off"
    BY <1>2, BootstrapMoves, ByPhase DEF NextKind, Advance, GoTo, At, OpeningInv, OpeningTypeOK
  <2> QED
    BY <1>2, <2>1, ByPhase, RefusalKept
<1>3. CASE ResetFatal \/ Crash
  <2>1. stops' = stops + 1
    BY <1>3 DEF ResetFatal, Crash, Stop
  <2> QED
    BY <1>3, <2>1, ByPhase, RefusalKept
<1>4. CASE (\E p \in Page : PageRequest(p) \/ PageStep(p) \/ Expire(p)) \/ UNCHANGED startVars
  <2>1. UNCHANGED openingVars
    BY <1>4, PageMoves DEF startVars
  <2>2. boot' = boot
    BY <2>1 DEF openingVars
  <2> QED
    BY <2>1, <2>2, ByPhase, RefusalKept DEF At
<1> QED
  BY <1>1, <1>2, <1>3, <1>4 DEF StartNext

LEMMA RefusalInvariant == StartSpec => []RefusalInv
<1>1. StartInit => RefusalInv
  BY DEF StartInit, OpeningInit, RefusalInv, At, AfterSchema, AfterWiden, AfterAdd, AfterDefaults, AfterSeed
<1>2. StartInv /\ RefusalInv /\ [StartNext]_startVars => RefusalInv'
  BY OpenableSettled
<1> QED
  BY StartInvariant, <1>1, <1>2, PTL DEF StartSpec

\* Over a file that Open can open no start is refused for what earlier ones have left half
\* done, wherever they were stopped: none of them makes it a file that cannot be opened.
THEOREM StartsAreNotRefused == StartSpec => StartsGoThrough
<1>1. ASSUME StartInv, RefusalInv, [StartNext]_startVars
      PROVE  [/\ Openable <=> Openable'
              /\ Openable /\ ~At("off") /\ boot'.pc = "off" => stops' = stops + 1]_openingVars
  BY <1>1, OpenableSettled
<1> QED
  BY StartInvariant, RefusalInvariant, <1>1, PTL DEF StartSpec, StartsGoThrough

\* And no number of starts gets a server out of one that Open cannot: the schema fails on
\* the index of participants, or migrate on the copy of applications, every time.
THEOREM OtherFilesNeverServe == StartSpec => (~Openable => []~Serving)
<1>1. StartInv /\ RefusalInv /\ ~Openable /\ [StartNext]_startVars => ~Openable'
  BY OpenableSettled
<1>2. StartInv /\ RefusalInv /\ ~Openable => ~Serving
  <2> SUFFICES ASSUME StartInv, RefusalInv, Serving PROVE Openable
    OBVIOUS
  <2> QED
    BY OneIndexAddedLater DEF StartInv, OpeningInv, LayoutInv, RefusalInv, Serving, At, Openable,
       AfterSchema, AfterWiden, AfterAdd, AfterDefaults, AfterSeed
<1> QED
  BY StartInvariant, RefusalInvariant, <1>1, <1>2, PTL DEF StartSpec

-----------------------------------------------------------------------------
(* Passwords given up *)

\* A page gets a use of a password only by reading a row that has it, or by writing the
\* session it has verified that password for.
LEMMA PageUses ==
  ASSUME StartInv, NEW p \in Page, PageRequest(p) \/ PageStep(p) \/ Expire(p),
         NEW w \in Password, \A a \in admins : a.password # w, NEW q \in Page, Uses(q, w)'
  PROVE  Uses(q, w)
<1>0. /\ page \in [Page -> PageLocals] /\ pass \in [Page -> Passes]
      /\ page[p] \in PageLocals /\ LocalsKept(page[p]) /\ NoPage.pc = "idle"
  BY DEF StartInv, AccountsInv, RequestsInv, NoPage
<1>1. ASSUME NEW l, l.pc # "session", page' = [page EXCEPT ![p] = l],
             \A r \in Page : pass'[r] \in {NoPass, pass[r]}
      PROVE  Uses(q, w)
  <2>1. pass'[q] \in {NoPass, pass[q]} /\ (page'[q] = page[q] \/ page'[q].pc # "session")
    BY <1>0, <1>1
  <2> QED
    BY <2>1 DEF Uses
<1>2. CASE \/ \E kind \in Kind, name \in Name, typed \in Password : LoginArrives(p, kind, name, typed)
           \/ \E old, new \in Password : ChangeArrives(p, old, new)
  <2>1. pass' = pass
    BY <1>2 DEF LoginArrives, ChangeArrives
  <2>2. page'[q] = page[q] \/ page'[q].pc # "session"
    BY <1>0, <1>2 DEF LoginArrives, ChangeArrives, NoPage
  <2> QED
    BY <2>1, <2>2 DEF Uses
<1>3. CASE Logout(p) \/ Expire(p)
  <2>1. page' = page /\ pass'[q] \in {NoPass, pass[q]}
    BY <1>0, <1>3 DEF Logout, Expire
  <2> QED
    BY <2>1 DEF Uses
<1>4. CASE LoginRead(p)
  <2>1. pass' = pass /\ page[p].pc = "read"
    BY <1>4 DEF LoginRead, PageAt
  <2>2. ASSUME NEW a \in Matching(admins, page[p].kind, page[p].user, page[p].old),
               page' = [page EXCEPT ![p] = [NoPage EXCEPT !.pc = "session", !.kind = page[p].kind,
                                                          !.old = page[p].old, !.id = a.id]]
        PROVE  Uses(q, w)
    <3>1. page[p].old # w
      BY <2>2 DEF Matching
    <3>2. page'[q] = page[q] \/ page'[q].old # w
      BY <1>0, <2>2, <3>1 DEF NoPage
    <3> QED
      BY <2>1, <3>2 DEF Uses
  <2>3. CASE page' = [page EXCEPT ![p].kind = Kinds[2]] \/ Answer(p)
    <3>1. page'[q] = page[q] \/ page'[q].pc # "session"
      BY <1>0, <2>1, <2>3 DEF Answer, PageLocals
    <3> QED
      BY <2>1, <3>1 DEF Uses
  <2> QED
    BY <1>4, <2>2, <2>3 DEF LoginRead
<1>5. CASE LoginCreate(p)
  <2>1. /\ page[p].pc = "session" /\ page' = [page EXCEPT ![p] = NoPage]
        /\ pass' = [pass EXCEPT ![p] = [id |-> page[p].id, kind |-> page[p].kind, with |-> page[p].old]]
    BY <1>5 DEF LoginCreate, PageAt, Answer
  <2>2. page'[q] = IF q = p THEN NoPage ELSE page[q]
    BY <1>0, <2>1
  <2>3. pass'[q] = IF q = p THEN [id |-> page[p].id, kind |-> page[p].kind, with |-> page[p].old] ELSE pass[q]
    BY <1>0, <2>1
  <2> QED
    BY <1>0, <2>1, <2>2, <2>3 DEF Uses
<1>6. CASE ChangeVerify(p) \/ ChangeWrite(p)
  <2>1. pass' = pass
    BY <1>6 DEF ChangeVerify, ChangeWrite
  <2>2. page'[q] = page[q] \/ page'[q].pc # "session"
    BY <1>0, <1>6 DEF ChangeVerify, ChangeWrite, Answer, NoPage, PageLocals
  <2> QED
    BY <2>1, <2>2 DEF Uses
<1>7. CASE ChangeDrop(p)
  <2>1. page' = [page EXCEPT ![p] = NoPage] /\ \A r \in Page : pass'[r] \in {NoPass, pass[r]}
    BY <1>7, Zenon DEF ChangeDrop, DropPasses, Answer
  <2> QED
    BY <1>0, <1>1, <2>1
<1> QED
  BY <1>2, <1>3, <1>4, <1>5, <1>6, <1>7 DEF PageRequest, PageStep

\* A password that no account has lets nobody in any more who was not in, or on the way, when
\* it was given up (ChangeAdminPassword, ForceResetPassword, handleAdminLogin).
THEOREM OldPasswordsRunOut == StartSpec => OldPasswordRunsOut
<1> DEFINE RunsOut == \A w \in Password : (\A a \in admins : a.password # w) =>
                        \A p \in Page : Uses(p, w)' => Uses(p, w)
<1>1. ASSUME StartInv, [StartNext]_startVars
      PROVE  [RunsOut]_startVars
  <2>1. ASSUME UNCHANGED page \/ page' = [p \in Page |-> NoPage],
               \A p \in Page : pass'[p] \in {NoPass, pass[p]}
        PROVE  RunsOut
    <3>1. NoPage.pc # "session"
      BY DEF NoPage
    <3>2. \A p \in Page : page'[p] = page[p] \/ page'[p].pc # "session"
      BY <2>1, <3>1
    <3> QED
      BY <2>1, <3>2 DEF Uses
  <2>2. CASE (BootStep /\ UNCHANGED accountVars) \/ ResetFatal \/ Crash
    BY <2>1, <2>2 DEF accountVars, ResetFatal, Crash
  <2>3. CASE Bootstrap
    <3>1. CASE ResetDrop
      <4>1. page' = page /\ \A p \in Page : pass'[p] \in {NoPass, pass[p]}
        BY <3>1, Zenon DEF ResetDrop, DropPasses
      <4> QED
        BY <2>1, <4>1
    <3>2. CASE EnsureFinds \/ EnsureCreates \/ ResetWrite \/ Serve
      BY <2>1, <3>2 DEF EnsureFinds, EnsureCreates, ResetWrite, Serve
    <3> QED
      BY <2>3, <3>1, <3>2 DEF Bootstrap
  <2>4. ASSUME NEW p \in Page, PageRequest(p) \/ PageStep(p) \/ Expire(p)
        PROVE  RunsOut
    BY <1>1, <2>4, PageUses
  <2> QED
    BY <1>1, <2>2, <2>3, <2>4 DEF StartNext
<1> QED
  BY StartInvariant, <1>1, PTL DEF StartSpec, OldPasswordRunsOut

-----------------------------------------------------------------------------
(* Resets. ForceResetPassword stores the name as the environment spells it and logins are *)
(* looked up in lower case, so an environment that asks for a reset has to spell it so.   *)

ResetNamesAreLower ==
  \A k \in Kind : \A e \in Environ[k] : e.reset => Lower[e.user] = e.user

LEMMA ResetsByBootstrap ==
  ASSUME StartInv, ResetsInv, ResetNamesAreLower, Bootstrap
  PROVE  ResetsInv'
<1> USE DEF StartInv, AccountsInv
<1>0. boot.step \in 1 .. 5 /\ At("bootstrap")
  BY BootstrapMoves DEF OpeningInv, StepsInv
<1>1. CASE EnsureFinds \/ EnsureCreates
  <2>1. PICK e \in Environ[BootKind] : ~e.reset /\ asked' = [asked EXCEPT ![BootKind] = e]
    BY <1>1 DEF EnsureFinds, EnsureCreates, Ask
  <2>2. /\ At("bootstrap") /\ boot.step \in {1, 3} /\ boot' = [boot EXCEPT !.step = @ + 2]
        /\ UNCHANGED pass
    BY <1>1 DEF EnsureFinds, EnsureCreates, Deciding, NextKind
  <2>3. admins \subseteq admins'
    BY <1>1 DEF EnsureFinds, EnsureCreates
  <2>4. BootKind = IF boot.step = 1 THEN "membership" ELSE "elections"
    BY <2>2, BootKindKnown
  <2>5. ~asked'[BootKind].reset /\ \A k \in Kind : k # BootKind => asked'[k] = asked[k]
    BY <2>1, <2>4 DEF AskedTyped, Kind
  <2>6. boot'.step = boot.step + 2 /\ At("bootstrap")
    BY <2>2 DEF OpeningInv, OpeningTypeOK
  <2>7. CASE boot.step = 1
    BY <2>4, <2>5, <2>6, <2>7 DEF ResetsInv, Opens, Out
  <2>8. CASE boot.step = 3
    <3>1. Opens("membership") /\ Out("membership") /\ asked'["membership"] = asked["membership"]
      BY <2>4, <2>5, <2>6, <2>8 DEF ResetsInv, Kind
    <3>2. Opens("membership")' /\ Out("membership")'
      BY <2>2, <2>3, <3>1 DEF Opens, Out, Matching
    <3> QED
      BY <2>4, <2>5, <3>2, <2>8 DEF ResetsInv, Opens, Out
  <2> QED
    BY <2>2, <2>7, <2>8
<1>2. CASE ResetWrite
  <2>1. PICK e \in Environ[BootKind] :
          /\ e.reset /\ asked' = [asked EXCEPT ![BootKind] = e]
          /\ admins' = {IF a.kind # BootKind THEN a
                        ELSE [a EXCEPT !.user = e.user, !.password = e.password] : a \in admins}
    BY <1>2, Zenon DEF ResetWrite, Ask
  <2>2. /\ At("bootstrap") /\ boot.step \in {1, 3} /\ boot' = [boot EXCEPT !.step = @ + 1]
        /\ OfKind(BootKind) # {} /\ UNCHANGED pass
    BY <1>2, Zenon DEF ResetWrite, Deciding, Advance
  <2>3. PICK kind \in Kind : kind = BootKind /\ kind = IF boot.step = 1 THEN "membership" ELSE "elections"
    BY <2>2, BootKindKnown DEF Kind
  <2>4. Lower[e.user] = e.user
    BY <2>1, <2>3 DEF ResetNamesAreLower
  <2>5. asked'[kind] = e /\ \A k \in Kind : k # kind => asked'[k] = asked[k]
    BY <2>1, <2>3 DEF AskedTyped
  <2>6. Opens(kind)'
    <3>1. PICK a \in admins : a.kind = kind
      BY <2>2, <2>3 DEF OfKind
    <3>2. [a EXCEPT !.user = e.user, !.password = e.password] \in admins'
      BY <2>1, <2>3, <3>1
    <3>3. a \in Admin
      BY DEF OperatorsInv
    <3>4. [a EXCEPT !.user = e.user, !.password = e.password] \in Matching(admins', kind, e.user, e.password)
      BY <2>4, <3>1, <3>2, <3>3 DEF Matching, Admin
    <3> QED
      BY <2>5, <3>4 DEF Opens
  <2>7. boot'.step = boot.step + 1
    BY <2>2 DEF OpeningInv, OpeningTypeOK
  <2>8. CASE boot.step = 1
    BY <2>3, <2>6, <2>7, <2>8 DEF ResetsInv
  <2>9. CASE boot.step = 3
    <3>1. Opens("membership") /\ Out("membership") /\ asked'["membership"] = asked["membership"]
      BY <2>2, <2>3, <2>5, <2>9 DEF ResetsInv, Kind
    <3>2. \A a \in admins : a.kind = "membership" => a \in admins'
      <4> SUFFICES ASSUME NEW a \in admins, a.kind = "membership" PROVE a \in admins'
        OBVIOUS
      <4>1. a.kind # BootKind
        BY <2>3, <2>9
      <4> QED
        BY <2>1, <4>1
    <3>3. Opens("membership")' /\ Out("membership")'
      BY <2>2, <3>1, <3>2 DEF Opens, Out, Matching
    <3> QED
      BY <2>3, <2>6, <2>7, <2>9, <3>3 DEF ResetsInv
  <2> QED
    BY <2>2, <2>8, <2>9
<1>3. CASE ResetDrop
  <2>1. /\ UNCHANGED <<admins, asked, page>> /\ At("bootstrap") /\ boot.step \in {2, 4}
        /\ boot' = [boot EXCEPT !.step = @ + 1]
    BY <1>3, Zenon DEF ResetDrop, Advance
  <2>2. PICK kind \in Kind : kind = BootKind /\ kind = IF boot.step = 2 THEN "membership" ELSE "elections"
    BY <2>1, BootKindKnown DEF Kind
  <2>3. \A p \in Page : pass'[p] \in {NoPass, pass[p]} /\ pass'[p].kind # kind
    <3>1. \A p \in Page : pass'[p] = IF pass[p] # NoPass /\ pass[p].kind = BootKind
                                     THEN NoPass ELSE pass[p]
      BY <1>3, Zenon DEF ResetDrop, DropPasses
    <3>2. NoPass.kind # kind
      BY <2>2 DEF NoPass, None
    <3> QED
      BY <2>2, <3>1, <3>2
  <2>4. boot'.step = boot.step + 1
    BY <2>1 DEF OpeningInv, OpeningTypeOK
  <2>5. \A k \in Kind : Out(k) => Out(k)'
    BY <2>1, <2>3 DEF Out, NoPass, None, Kind
  <2>6. \A k \in Kind : Opens(k) => Opens(k)'
    BY <2>1 DEF Opens
  <2>7. Out(kind)'
    BY <2>3 DEF Out
  <2> QED
    BY <2>1, <2>2, <2>4, <2>5, <2>6, <2>7 DEF ResetsInv, Kind, At
<1>4. CASE Serve
  BY <1>4 DEF Serve, GoTo, At, ResetsInv
<1> QED
  BY <1>1, <1>2, <1>3, <1>4 DEF Bootstrap

LEMMA ResetsInvStep ==
  ASSUME StartInv, ResetsInv, ResetNamesAreLower, [StartNext]_startVars
  PROVE  ResetsInv'
<1> USE DEF StartInv
<1>1. CASE BootStep /\ UNCHANGED accountVars
  BY <1>1, BootStepElsewhere DEF ResetsInv, At
<1>2. CASE Bootstrap
  BY <1>2, ResetsByBootstrap
<1>3. CASE ResetFatal \/ Crash
  BY <1>3 DEF ResetFatal, Crash, Stop, GoTo, At, ResetsInv
<1>4. ASSUME NEW p \in Page, PageRequest(p) \/ PageStep(p) \/ Expire(p)
      PROVE  ~At("bootstrap")'
  <2>1. boot' = boot
    BY <1>4, PageMoves DEF openingVars
  <2>2. At("serving")
    <3>1. CASE ChangeDrop(p)
      BY <3>1, Zenon DEF ChangeDrop, PageAt, Serving
    <3> QED
      BY <1>4, <3>1 DEF PageRequest, PageStep, Expire, LoginArrives, ChangeArrives, Logout, LoginRead,
                        LoginCreate, ChangeVerify, ChangeWrite, PageAt, Serving
  <2> QED
    BY <2>1, <2>2 DEF At
<1>5. CASE UNCHANGED startVars
  BY <1>5 DEF startVars, openingVars, accountVars, ResetsInv, Opens, Out, At
<1> QED
  BY <1>1, <1>2, <1>3, <1>4, <1>5 DEF StartNext, ResetsInv

\* "To recover from a lockout" (main.go): a start that was asked for a reset serves only
\* once the name and password of its environment open the dashboard and whoever was in is out.
THEOREM ResetsRecover == ASSUME ResetNamesAreLower PROVE StartSpec => ResetRecovers
<1>1. StartInit => ResetsInv
  BY DEF StartInit, OpeningInit, ResetsInv, At
<1>2. ASSUME StartInv, ResetsInv, [StartNext]_startVars
      PROVE  ResetsInv'
  BY <1>2, ResetsInvStep
<1> DEFINE Recovers ==
      At("bootstrap") /\ boot'.pc = "serving" =>
        \A k \in Kind : asked[k].reset =>
          /\ Matching(admins', k, asked[k].user, asked[k].password) # {}
          /\ \A p \in Page : pass'[p].kind # k
<1>3. ASSUME StartInv, ResetsInv, [StartNext]_startVars
      PROVE  [Recovers]_startVars
  <2> SUFFICES ASSUME At("bootstrap"), boot'.pc = "serving", NEW k \in Kind, asked[k].reset
               PROVE  /\ Matching(admins', k, asked[k].user, asked[k].password) # {}
                      /\ \A p \in Page : pass'[p].kind # k
    OBVIOUS
  <2>1. Serve
    <3>1. ~(BootStep /\ UNCHANGED accountVars)
      BY <1>3, BootStepElsewhere DEF StartInv
    <3>2. ~(ResetFatal \/ Crash)
      BY DEF ResetFatal, Crash, Stop, GoTo
    <3>3. ASSUME NEW p \in Page, PageRequest(p) \/ PageStep(p) \/ Expire(p)
          PROVE  FALSE
      <4>1. boot' = boot
        BY <1>3, <3>3, PageMoves DEF openingVars
      <4> QED
        BY <4>1 DEF At
    <3>4. ~UNCHANGED startVars
      BY DEF startVars, openingVars, At
    <3>5. Bootstrap
      BY <1>3, <3>1, <3>2, <3>3, <3>4 DEF StartNext
    <3>6. boot.pc = "bootstrap" /\ boot \in [pc : Phases, step : 1 .. Len(Tables) + 1]
      BY <1>3 DEF At, StartInv, OpeningInv, OpeningTypeOK
    <3>7. ~EnsureFinds /\ ~EnsureCreates
      BY <3>6 DEF EnsureFinds, EnsureCreates, NextKind
    <3>8. ~ResetWrite
      <4>1. ResetWrite => boot' = [boot EXCEPT !.step = @ + 1]
        BY Zenon DEF ResetWrite, Advance
      <4> QED
        BY <3>6, <4>1
    <3>9. ~ResetDrop
      <4>1. ResetDrop => boot' = [boot EXCEPT !.step = @ + 1]
        BY Zenon DEF ResetDrop, Advance
      <4> QED
        BY <3>6, <4>1
    <3> QED
      BY <3>5, <3>7, <3>8, <3>9 DEF Bootstrap
  <2>2. boot.step = 5 /\ UNCHANGED <<admins, pass>>
    BY <2>1 DEF Serve
  <2>3. Opens(k) /\ Out(k)
    BY <1>3, <2>2 DEF ResetsInv, Kind
  <2> QED
    BY <2>2, <2>3 DEF Opens, Out
<1> QED
  BY StartInvariant, <1>1, <1>2, <1>3, PTL DEF StartSpec, ResetRecovers
=============================================================================
