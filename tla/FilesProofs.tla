----------------------------- MODULE FilesProofs ------------------------------
(***************************************************************************)
(* Files beside the database: the workbook and the print template are      *)
(* found whole and in step with the members, for any number of admins,     *)
(* changes and kills; and no row is left with the name of a photograph     *)
(* that is gone, for any entries, names and stops.                         *)
(***************************************************************************)
EXTENDS Photos, Workbook, TLAPS

-----------------------------------------------------------------------------
(* Workbook: what a request has in hand *)

\* What was read is what a request in its phase may carry.
JobLocals ==
  [pc : {"idle", "users", "fields", "create", "write", "rename", "renamed"},
   target : Target, seen : {<<>>} \cup {<<n>> : n \in 0 .. MaxChanges} \cup Contents]

Carries(l) ==
  /\ l \in JobLocals
  /\ l.pc \in {"idle", "users", "fields"} => l.target = "workbook"
  /\ l.pc = "fields" => l.seen \in {<<n>> : n \in 0 .. MaxChanges}
  /\ l.pc \in {"create", "write", "rename", "renamed"} => l.seen \in Contents

\* main writes the workbook only.
JobsCarry == \A j \in Job : Carries(job[j]) /\ (j = Main => job[j].target = "workbook")

WorkbookTypes == WorkbookTypeOK /\ JobsCarry

LEMMA NoJobCarries == Carries(NoJob) /\ Carries([NoJob EXCEPT !.pc = "users"])
  BY DEF NoJob, Carries, JobLocals, Target

LEMMA StartingCarries ==
  ASSUME job' = Starting PROVE job' \in [Job -> JobLocals] /\ JobsCarry'
  BY NoJobCarries DEF Starting, JobsCarry, Carries, JobLocals, NoJob

\* A race begins and ends, and is never anything else.
LEMMA RaceTyped ==
  ASSUME WorkbookTypeOK, NEW j \in Job, NEW t \in Target
  PROVE  /\ RaceBegins(j, t) \in [Target -> {"no", "past", "now"}]
         /\ RaceEnds(j, t) \in [Target -> {"no", "past", "now"}]
  BY DEF WorkbookTypeOK, RaceBegins, RaceEnds

\* One request moves on.
LEMMA JobMoves ==
  ASSUME WorkbookTypes, NEW j \in Job, NEW l, Carries(l), job' = [job EXCEPT ![j] = l],
         j = Main => l.target = "workbook"
  PROVE  job' \in [Job -> JobLocals] /\ JobsCarry'
  BY DEF WorkbookTypes, WorkbookTypeOK, JobsCarry, Carries, JobLocals

LEMMA WorkbookTypesInit == WorkbookInit => WorkbookTypes
<1> SUFFICES ASSUME WorkbookInit PROVE WorkbookTypes
  OBVIOUS
<1>1. job \in [Job -> JobLocals] /\ JobsCarry
  BY NoJobCarries DEF WorkbookInit, Starting, JobsCarry, Carries, JobLocals, NoJob
<1>2. disk \in [Path -> {Missing, Begun, Mixed} \cup {Whole(c) : c \in Contents}]
  BY DEF WorkbookInit
<1>3. 0 \in 0 .. MaxChanges /\ 0 \in 0 .. MaxKills
  BY WorkbookBounds
<1> QED
  BY <1>1, <1>2, <1>3 DEF WorkbookInit, WorkbookTypes, WorkbookTypeOK, JobLocals

LEMMA WorkbookTypesStep == WorkbookTypes /\ [WorkbookNext]_workbookVars => WorkbookTypes'
<1> SUFFICES ASSUME WorkbookTypes, [WorkbookNext]_workbookVars PROVE WorkbookTypes'
  OBVIOUS
<1> USE WorkbookBounds
<1>0. /\ WorkbookTypeOK /\ JobsCarry
      /\ Desk \subseteq Job /\ Main \in Job
      /\ "workbook" \in Target /\ "template" \in Target
      /\ \A j \in Job : Carries(job[j]) /\ job[j] \in JobLocals
  BY DEF WorkbookTypes, Job, Target, JobsCarry, Carries
<1>a. ASSUME job' \in [Job -> JobLocals] /\ JobsCarry',
             members' \in 0 .. MaxChanges, fields' \in 0 .. MaxChanges, uploads' \in 0 .. MaxChanges,
             disk' \in [Path -> {Missing, Begun, Mixed} \cup {Whole(c) : c \in Contents}],
             up' \in BOOLEAN, kills' \in 0 .. MaxKills, race' \in [Target -> {"no", "past", "now"}]
      PROVE  WorkbookTypes'
  BY <1>a DEF WorkbookTypes, WorkbookTypeOK, JobLocals
<1>1. ASSUME NEW j \in Desk, ChangeMembers(j) PROVE WorkbookTypes'
  <2>1. members' \in 0 .. MaxChanges /\ race' \in [Target -> {"no", "past", "now"}]
    BY <1>0, <1>1, RaceTyped DEF ChangeMembers, WorkbookTypeOK
  <2> DEFINE l == [job[j] EXCEPT !.pc = "users"]
  <2>2. Carries(l) /\ l.target = "workbook" /\ job' = [job EXCEPT ![j] = l]
    BY <1>0, <1>1 DEF ChangeMembers, Step, JobAt, Carries, JobLocals
  <2>3. job' \in [Job -> JobLocals] /\ JobsCarry'
    BY <1>0, <2>2, JobMoves
  <2> QED
    BY <1>0, <1>1, <1>a, <2>1, <2>3 DEF ChangeMembers, WorkbookTypeOK
<1>2. ASSUME NEW j \in Desk, ChangeFields(j) PROVE WorkbookTypes'
  BY <1>0, <1>2, <1>a DEF ChangeFields, WorkbookTypeOK, JobLocals, JobsCarry
<1>3. ASSUME NEW j \in Desk, UploadTemplate(j) PROVE WorkbookTypes'
  <2>1. uploads' \in 1 .. MaxChanges /\ race' \in [Target -> {"no", "past", "now"}]
    BY <1>0, <1>3, RaceTyped DEF UploadTemplate, WorkbookTypeOK
  <2> DEFINE l == [pc |-> "create", target |-> "template", seen |-> <<uploads'>>]
  <2>2. <<uploads'>> \in Contents
    BY <2>1 DEF Contents
  <2>3. Carries(l) /\ j # Main /\ job' = [job EXCEPT ![j] = l]
    BY <1>0, <1>3, <2>2, DeskAssumption DEF UploadTemplate, Carries, JobLocals
  <2>4. job' \in [Job -> JobLocals] /\ JobsCarry'
    BY <1>0, <2>3, JobMoves
  <2> QED
    BY <1>0, <1>3, <1>a, <2>1, <2>4 DEF UploadTemplate, WorkbookTypeOK
<1>4. ASSUME NEW j \in Desk, DeleteTemplate(j) PROVE WorkbookTypes'
  <2>1. job' \in [Job -> JobLocals] /\ JobsCarry'
    BY <1>0, <1>4 DEF DeleteTemplate, JobsCarry, Carries, JobLocals, JobAt
  <2> QED
    BY <1>0, <1>4, <1>a, <2>1 DEF DeleteTemplate, WorkbookTypeOK
<1>5. ASSUME NEW j \in Job, ReadUsers(j) PROVE WorkbookTypes'
  <2> DEFINE l == [job[j] EXCEPT !.pc = "fields", !.seen = <<members>>]
  <2>1. Carries(l) /\ l.target = "workbook" /\ job' = [job EXCEPT ![j] = l]
    BY <1>0, <1>5 DEF ReadUsers, JobAt, Carries, JobLocals, WorkbookTypeOK
  <2>2. job' \in [Job -> JobLocals] /\ JobsCarry'
    BY <1>0, <2>1, JobMoves
  <2> QED
    BY <1>0, <1>5, <1>a, <2>2 DEF ReadUsers, WorkbookTypeOK
<1>6. ASSUME NEW j \in Job, ReadFields(j) PROVE WorkbookTypes'
  <2> DEFINE l == [job[j] EXCEPT !.pc = "create", !.seen = <<@[1], fields>>]
  <2>1. <<job[j].seen[1], fields>> \in Contents
    BY <1>0, <1>6 DEF ReadFields, JobAt, Carries, Contents, WorkbookTypeOK
  <2>2. Carries(l) /\ l.target = "workbook" /\ job' = [job EXCEPT ![j] = l]
    BY <1>0, <1>6, <2>1 DEF ReadFields, JobAt, Carries, JobLocals
  <2>3. job' \in [Job -> JobLocals] /\ JobsCarry'
    BY <1>0, <2>2, JobMoves
  <2> QED
    BY <1>0, <1>6, <1>a, <2>3 DEF ReadFields, WorkbookTypeOK
<1>7. ASSUME NEW j \in Job, Create(j) PROVE WorkbookTypes'
  <2> DEFINE l == [job[j] EXCEPT !.pc = "write"]
  <2>1. Carries(l) /\ (j = Main => l.target = "workbook") /\ job' = [job EXCEPT ![j] = l]
    BY <1>0, <1>7 DEF Create, Step, JobAt, Carries, JobLocals, JobsCarry
  <2>2. job' \in [Job -> JobLocals] /\ JobsCarry'
    BY <1>0, <2>1, JobMoves
  <2>3. disk' \in [Path -> {Missing, Begun, Mixed} \cup {Whole(c) : c \in Contents}]
    BY <1>0, <1>7 DEF Create, WorkbookTypeOK
  <2> QED
    BY <1>0, <1>7, <1>a, <2>2, <2>3 DEF Create, WorkbookTypeOK
<1>8. ASSUME NEW j \in Job, Write(j) \/ WriteRenamed(j) PROVE WorkbookTypes'
  <2> DEFINE l == [job[j] EXCEPT !.pc = "rename"]
  <2>1. Carries(l) /\ (j = Main => l.target = "workbook") /\ job' = [job EXCEPT ![j] = l]
    BY <1>0, <1>8 DEF Write, WriteRenamed, Step, JobAt, Carries, JobLocals, JobsCarry
  <2>2. job' \in [Job -> JobLocals] /\ JobsCarry'
    BY <1>0, <2>1, JobMoves
  <2>3. \A there : Written(j, there) \subseteq {Mixed} \cup {Whole(c) : c \in Contents}
    BY <1>0, <1>8 DEF Write, WriteRenamed, Written, Carries, JobAt
  <2>4. disk' \in [Path -> {Missing, Begun, Mixed} \cup {Whole(c) : c \in Contents}]
    BY <1>0, <1>8, <2>3 DEF Write, WriteRenamed, WorkbookTypeOK
  <2> QED
    BY <1>0, <1>8, <1>a, <2>2, <2>4 DEF Write, WriteRenamed, WorkbookTypeOK
<1>9. ASSUME NEW j \in Job, Rename(j) PROVE WorkbookTypes'
  <2>1. job' \in [Job -> JobLocals] /\ JobsCarry'
    <3>1. \A i \in Job : \/ job'[i] = NoJob \/ job'[i] = job[i]
                        \/ /\ job[i].pc \in {"write", "renamed"}
                           /\ \E pc \in {"renamed", "rename"} : job'[i] = [job[i] EXCEPT !.pc = pc]
      BY <1>0, <1>9 DEF Rename, JobLocals, WorkbookTypeOK
    <3>2. DOMAIN job' = Job /\ job' = [i \in Job |-> job'[i]]
      BY <1>0, <1>9 DEF Rename, WorkbookTypeOK
    <3>3. \A i \in Job : Carries(job'[i]) /\ (job'[i].target = job[i].target \/ job'[i] = NoJob)
      <4> SUFFICES ASSUME NEW i \in Job
                   PROVE  Carries(job'[i]) /\ (job'[i].target = job[i].target \/ job'[i] = NoJob)
        OBVIOUS
      <4>1. CASE job'[i] = NoJob \/ job'[i] = job[i]
        BY <1>0, <4>1, NoJobCarries
      <4>2. ASSUME job[i].pc \in {"write", "renamed"}, NEW pc \in {"renamed", "rename"},
                   job'[i] = [job[i] EXCEPT !.pc = pc]
            PROVE  Carries(job'[i]) /\ job'[i].target = job[i].target
        BY <1>0, <4>2 DEF Carries, JobLocals
      <4> QED
        BY <3>1, <4>1, <4>2
    <3>4. NoJob.target = "workbook"
      BY DEF NoJob
    <3> QED
      BY <1>0, <3>2, <3>3, <3>4 DEF JobsCarry, Carries
  <2>2. race' \in [Target -> {"no", "past", "now"}]
    BY <1>0, <1>9, RaceTyped DEF Rename, JobLocals
  <2>3. Final(j) \in Path /\ Tmp(j) \in Path
    BY <1>0 DEF Final, Tmp, Path, JobLocals
  <2>4. disk' \in [Path -> {Missing, Begun, Mixed} \cup {Whole(c) : c \in Contents}]
    BY <1>0, <1>9, <2>3 DEF Rename, WorkbookTypeOK
  <2> QED
    BY <1>0, <1>9, <1>a, <2>1, <2>2, <2>4 DEF Rename, WorkbookTypeOK
<1>10. CASE Kill
  <2>1. job' \in [Job -> JobLocals] /\ JobsCarry'
    BY <1>10, StartingCarries DEF Kill
  <2>2. kills' \in 0 .. MaxKills /\ race' \in [Target -> {"no", "past", "now"}]
    BY <1>0, <1>10 DEF Kill, WorkbookTypeOK
  <2> QED
    BY <1>0, <1>10, <1>a, <2>1, <2>2 DEF Kill, WorkbookTypeOK
<1>11. CASE UNCHANGED workbookVars
  BY <1>0, <1>11, <1>a DEF workbookVars, WorkbookTypeOK, JobLocals, JobsCarry
<1> QED
  BY <1>1, <1>2, <1>3, <1>4, <1>5, <1>6, <1>7, <1>8, <1>9, <1>10, <1>11 DEF WorkbookNext

-----------------------------------------------------------------------------
(* Workbook: one at a time on a file, unless there is a race *)

Active(j, t) == job[j].pc # "idle" /\ job[j].target = t

OneAtATime ==
  \A t \in Target : race[t] # "now" => \A i, j \in Job : Active(i, t) /\ Active(j, t) => i = j

\* Whoever is alone on a file finds the temporary one as it was left, and what was read of
\* the members is still so: a change of members brings its own writer.
WrittenAlone(j) ==
  race[job[j].target] # "now" =>
    /\ job[j].pc # "renamed"
    /\ job[j].pc = "write" => disk[Tmp(j)] = Begun
    /\ job[j].pc = "rename" => disk[Tmp(j)] = Whole(job[j].seen)
    /\ job[j].target = "workbook" /\ job[j].pc \in {"fields", "create", "write", "rename"}
         => job[j].seen[1] = members

WorkbookInv ==
  /\ WorkbookTypes
  /\ OneAtATime
  /\ \A j \in Job : WrittenAlone(j)
  /\ WorkbookMirrors

LEMMA WorkbookInvInit == WorkbookInit => WorkbookInv
<1> SUFFICES ASSUME WorkbookInit PROVE WorkbookInv
  OBVIOUS
<1>1. \A j \in Job : job[j].pc = (IF j = Main THEN "users" ELSE "idle")
  BY DEF WorkbookInit, Starting, NoJob
<1>2. OneAtATime
  BY <1>1 DEF OneAtATime, Active
<1>3. \A j \in Job : WrittenAlone(j)
  BY <1>1 DEF WrittenAlone
<1>4. WorkbookMirrors
  BY DEF WorkbookInit, WorkbookMirrors, Target, Path
<1> QED
  BY <1>2, <1>3, <1>4, WorkbookTypesInit DEF WorkbookInv

\* A step of a request that began before leaves the writers who they are.
LEMMA SameWriters ==
  ASSUME WorkbookInv, UNCHANGED race,
         \A i \in Job : /\ job'[i].pc = "idle" <=> job[i].pc = "idle"
                        /\ job'[i].target = job[i].target
  PROVE  OneAtATime'
  BY DEF WorkbookInv, OneAtATime, Active

\* Someone begins to write the file t: alone, or it is a race.
LEMMA WriterBegins ==
  ASSUME WorkbookInv, NEW j \in Job, NEW t \in Target, NEW l \in JobLocals, l.target = t,
         job' = [job EXCEPT ![j] = l], race' = RaceBegins(j, t), job[j].pc = "idle"
  PROVE  /\ OneAtATime'
         /\ \A i \in Job \ {j}, u \in Target : race'[u] # "now" /\ Active(i, u) => u # t
         /\ \A u \in Target : race[u] = "now" => race'[u] = "now"
         /\ \A u \in Target : race'[u] = "no" => race[u] = "no"
<1>0. race \in [Target -> {"no", "past", "now"}] /\ job \in [Job -> JobLocals]
  BY DEF WorkbookInv, WorkbookTypes, WorkbookTypeOK, JobLocals
<1>1. \A i \in Job \ {j} : job'[i] = job[i]
  BY <1>0
<1>2. \A u \in Target : race'[u] = IF u = t /\ Others(j, t) THEN "now" ELSE race[u]
  BY <1>0 DEF RaceBegins
<1>3. \A i \in Job \ {j} : Active(i, t) => Others(j, t)
  BY DEF Active, Others, JobAt
<1>4. job'[j] = l
  BY <1>0
<1>5. OneAtATime'
  BY <1>1, <1>2, <1>3, <1>4 DEF WorkbookInv, OneAtATime, Active
<1> QED
  BY <1>2, <1>3, <1>5

LEMMA WorkbookInvStep == WorkbookInv /\ [WorkbookNext]_workbookVars => WorkbookInv'
<1> SUFFICES ASSUME WorkbookInv, [WorkbookNext]_workbookVars PROVE WorkbookInv'
  OBVIOUS
<1>0. /\ job \in [Job -> JobLocals] /\ race \in [Target -> {"no", "past", "now"}]
      /\ disk \in [Path -> {Missing, Begun, Mixed} \cup {Whole(c) : c \in Contents}]
      /\ Desk \subseteq Job /\ Main \in Job /\ "workbook" \in Target /\ "template" \in Target
      /\ \A j \in Job : /\ Carries(job[j]) /\ WrittenAlone(j)
                        /\ job[j].target \in Target /\ Final(j) \in Path /\ Tmp(j) \in Path
      /\ \A t \in Target : <<t, "final">> \in Path /\ <<t, "tmp">> \in Path
      /\ OneAtATime /\ WorkbookMirrors
  BY DEF WorkbookInv, WorkbookTypes, WorkbookTypeOK, JobsCarry, JobLocals, Job, Target, Path, Final, Tmp
<1>a. WorkbookTypes'
  BY WorkbookTypesStep DEF WorkbookInv
<1>b. SUFFICES OneAtATime' /\ (\A i \in Job : WrittenAlone(i)') /\ WorkbookMirrors'
  BY <1>a DEF WorkbookInv
<1>1. ASSUME NEW j \in Desk, ChangeMembers(j)
      PROVE  OneAtATime' /\ (\A i \in Job : WrittenAlone(i)') /\ WorkbookMirrors'
  <2> DEFINE l == [job[j] EXCEPT !.pc = "users"]
  <2>1. l \in JobLocals /\ l.pc = "users" /\ l.target = "workbook"
    BY <1>0, <1>1 DEF JobLocals, ChangeMembers, JobAt, Carries
  <2>2. job' = [job EXCEPT ![j] = l] /\ job[j].pc = "idle" /\ race' = RaceBegins(j, "workbook")
        /\ disk' = disk
    BY <1>1 DEF ChangeMembers, Step, JobAt
  <2> HIDE DEF l
  <2>3. /\ OneAtATime'
        /\ \A i \in Job \ {j}, u \in Target : race'[u] # "now" /\ Active(i, u) => u # "workbook"
        /\ \A u \in Target : race[u] = "now" => race'[u] = "now"
        /\ \A u \in Target : race'[u] = "no" => race[u] = "no"
    BY <1>0, <2>1, <2>2, WriterBegins
  <2>4. job'[j] = l /\ \A i \in Job \ {j} : job'[i] = job[i]
    BY <1>0, <2>2
  <2>5. ASSUME NEW i \in Job PROVE WrittenAlone(i)'
    BY <1>0, <2>1, <2>2, <2>3, <2>4 DEF WrittenAlone, Active, Tmp
  <2>6. WorkbookMirrors'
    BY <1>0, <2>1, <2>2, <2>3, <2>4 DEF WorkbookMirrors, JobAt
  <2> QED
    BY <2>3, <2>5, <2>6
<1>2. ASSUME NEW j \in Desk, ChangeFields(j)
      PROVE  OneAtATime' /\ (\A i \in Job : WrittenAlone(i)') /\ WorkbookMirrors'
  BY <1>0, <1>2 DEF ChangeFields, OneAtATime, Active, WrittenAlone, Tmp, WorkbookMirrors, JobAt
<1>3. ASSUME NEW j \in Desk, UploadTemplate(j)
      PROVE  OneAtATime' /\ (\A i \in Job : WrittenAlone(i)') /\ WorkbookMirrors'
  <2> DEFINE l == [pc |-> "create", target |-> "template", seen |-> <<uploads'>>]
  <2>1. l \in JobLocals /\ l.pc = "create" /\ l.target = "template"
    <3>1. Carries(job'[j])
      BY <1>0, <1>a DEF WorkbookTypes, JobsCarry
    <3> QED
      BY <1>0, <1>3, <3>1 DEF UploadTemplate, Carries
  <2>2. job' = [job EXCEPT ![j] = l] /\ job[j].pc = "idle" /\ race' = RaceBegins(j, "template")
        /\ disk' = disk /\ members' = members /\ up' = up
    BY <1>3 DEF UploadTemplate, JobAt
  <2> HIDE DEF l
  <2>3. /\ OneAtATime'
        /\ \A i \in Job \ {j}, u \in Target : race'[u] # "now" /\ Active(i, u) => u # "template"
        /\ \A u \in Target : race[u] = "now" => race'[u] = "now"
        /\ \A u \in Target : race'[u] = "no" => race[u] = "no"
    BY <1>0, <2>1, <2>2, WriterBegins
  <2>4. job'[j] = l /\ \A i \in Job \ {j} : job'[i] = job[i]
    BY <1>0, <2>2
  <2>5. ASSUME NEW i \in Job PROVE WrittenAlone(i)'
    BY <1>0, <2>1, <2>2, <2>3, <2>4 DEF WrittenAlone, Active, Tmp
  <2>6. WorkbookMirrors'
    <3>1. \A i \in Job : job[i].pc # "idle" /\ job[i].target = "workbook"
                         => job'[i].pc # "idle" /\ job'[i].target = "workbook"
      BY <2>2, <2>4
    <3> QED
      BY <1>0, <2>2, <2>3, <3>1 DEF WorkbookMirrors, JobAt
  <2> QED
    BY <2>3, <2>5, <2>6
<1>4. ASSUME NEW j \in Desk, DeleteTemplate(j)
      PROVE  OneAtATime' /\ (\A i \in Job : WrittenAlone(i)') /\ WorkbookMirrors'
  <2>1. \A i \in Job : /\ job'[i].target = job[i].target /\ job'[i].seen = job[i].seen
                       /\ job'[i].pc = job[i].pc \/ (job'[i].pc = "rename" /\ job[i].pc = "renamed")
    BY <1>0, <1>4 DEF DeleteTemplate, JobLocals, JobAt
  <2>2. /\ race' = race /\ members' = members /\ up' = up
        /\ disk' = [disk EXCEPT ![<<"template", "final">>] = Missing]
    BY <1>4 DEF DeleteTemplate
  <2>3. OneAtATime'
    BY <2>1, <2>2, SameWriters
  <2>4. ASSUME NEW i \in Job PROVE WrittenAlone(i)'
    BY <1>0, <2>1, <2>2 DEF WrittenAlone, Tmp
  <2>5. WorkbookMirrors'
    BY <1>0, <2>1, <2>2 DEF WorkbookMirrors, JobAt
  <2> QED
    BY <2>3, <2>4, <2>5
<1>c. ASSUME NEW j \in Job, job[j].pc # "idle", NEW i \in Job \ {j}, job[i].pc # "idle",
             race[job[i].target] # "now"
      PROVE  job[i].target # job[j].target /\ Tmp(i) # Tmp(j) /\ Tmp(i) # Final(j) /\ Final(i) # Final(j)
  BY <1>0, <1>c, ZenonT(40) DEF OneAtATime, Active, Tmp, Final
<1>d. ASSUME UNCHANGED <<race, members, up>>,
             \A t \in Target : disk'[<<t, "final">>] = disk[<<t, "final">>],
             \A i \in Job : /\ job'[i].pc = "idle" <=> job[i].pc = "idle"
                            /\ job'[i].target = job[i].target
      PROVE  WorkbookMirrors'
  BY <1>0, <1>d DEF WorkbookMirrors, JobAt
<1>5. ASSUME NEW j \in Job, ReadUsers(j) \/ ReadFields(j)
      PROVE  OneAtATime' /\ (\A i \in Job : WrittenAlone(i)') /\ WorkbookMirrors'
  <2>1. /\ race' = race /\ disk' = disk /\ members' = members /\ up' = up
        /\ \A i \in Job \ {j} : job'[i] = job[i]
        /\ job'[j].target = job[j].target /\ job[j].pc # "idle"
        /\ \/ job[j].pc = "users" /\ job'[j].pc = "fields" /\ job'[j].seen = <<members>>
           \/ job[j].pc = "fields" /\ job'[j].pc = "create" /\ job'[j].seen = <<job[j].seen[1], fields>>
    BY <1>0, <1>5 DEF ReadUsers, ReadFields, JobAt, JobLocals
  <2>2. job'[j].seen[1] = (IF job[j].pc = "users" THEN members ELSE job[j].seen[1])
    BY <2>1
  <2>3. OneAtATime'
    BY <2>1, SameWriters
  <2>4. ASSUME NEW i \in Job PROVE WrittenAlone(i)'
    BY <1>0, <2>1, <2>2 DEF WrittenAlone, Tmp
  <2>5. WorkbookMirrors'
    BY <1>0, <2>1 DEF WorkbookMirrors, JobAt
  <2> QED
    BY <2>3, <2>4, <2>5
<1>6. ASSUME NEW j \in Job, Create(j)
      PROVE  OneAtATime' /\ (\A i \in Job : WrittenAlone(i)') /\ WorkbookMirrors'
  <2>1. /\ race' = race /\ disk' = [disk EXCEPT ![Tmp(j)] = Begun] /\ members' = members /\ up' = up
        /\ \A i \in Job \ {j} : job'[i] = job[i]
        /\ job[j].pc = "create" /\ job'[j] = [job[j] EXCEPT !.pc = "write"]
    BY <1>0, <1>6 DEF Create, Step, JobAt, JobLocals
  <2>2. /\ job'[j].pc = "write" /\ job'[j].target = job[j].target /\ job'[j].seen = job[j].seen
        /\ \A i \in Job : Tmp(i)' = Tmp(i)
    BY <1>0, <2>1 DEF JobLocals, Tmp
  <2>3. OneAtATime'
    BY <2>1, <2>2, SameWriters
  <2>4. ASSUME NEW i \in Job \ {j} PROVE WrittenAlone(i)'
    BY <1>0, <1>c, <2>1, <2>2 DEF WrittenAlone
  <2>5. WrittenAlone(j)'
    BY <1>0, <2>1, <2>2 DEF WrittenAlone
  <2>6. \A t \in Target : disk'[<<t, "final">>] = disk[<<t, "final">>]
    BY <1>0, <2>1 DEF Tmp
  <2>7. WorkbookMirrors'
    BY <1>d, <2>1, <2>2, <2>6
  <2> QED
    BY <2>3, <2>4, <2>5, <2>7
<1>7. ASSUME NEW j \in Job, Write(j)
      PROVE  OneAtATime' /\ (\A i \in Job : WrittenAlone(i)') /\ WorkbookMirrors'
  <2>1. PICK c \in Written(j, disk[Tmp(j)]) : disk' = [disk EXCEPT ![Tmp(j)] = c]
    BY <1>7 DEF Write
  <2>2. /\ race' = race /\ members' = members /\ up' = up
        /\ \A i \in Job \ {j} : job'[i] = job[i]
        /\ job[j].pc = "write" /\ job'[j] = [job[j] EXCEPT !.pc = "rename"]
    BY <1>0, <1>7 DEF Write, Step, JobAt, JobLocals
  <2>3. /\ job'[j].pc = "rename" /\ job'[j].target = job[j].target /\ job'[j].seen = job[j].seen
        /\ \A i \in Job : Tmp(i)' = Tmp(i)
    BY <1>0, <2>2 DEF JobLocals, Tmp
  <2>4. OneAtATime'
    BY <2>2, <2>3, SameWriters
  <2>5. ASSUME NEW i \in Job \ {j} PROVE WrittenAlone(i)'
    BY <1>0, <1>c, <2>1, <2>2, <2>3 DEF WrittenAlone
  <2>6. WrittenAlone(j)'
    <3>1. race[job[j].target] # "now" => c = Whole(job[j].seen)
      BY <1>0, <2>1, <2>2 DEF WrittenAlone, Written
    <3> QED
      BY <1>0, <2>1, <2>2, <2>3, <3>1 DEF WrittenAlone
  <2>7. \A t \in Target : disk'[<<t, "final">>] = disk[<<t, "final">>]
    BY <1>0, <2>1 DEF Tmp
  <2>8. WorkbookMirrors'
    BY <1>d, <2>2, <2>3, <2>7
  <2> QED
    BY <2>4, <2>5, <2>6, <2>8
<1>8. ASSUME NEW j \in Job, WriteRenamed(j)
      PROVE  OneAtATime' /\ (\A i \in Job : WrittenAlone(i)') /\ WorkbookMirrors'
  <2>1. PICK c \in Written(j, disk[Final(j)]) : disk' = [disk EXCEPT ![Final(j)] = c]
    BY <1>8 DEF WriteRenamed
  <2>2. /\ race' = race /\ members' = members /\ up' = up
        /\ \A i \in Job \ {j} : job'[i] = job[i]
        /\ job[j].pc = "renamed" /\ job'[j] = [job[j] EXCEPT !.pc = "rename"]
    BY <1>0, <1>8 DEF WriteRenamed, Step, JobAt, JobLocals
  <2>3. /\ job'[j].pc = "rename" /\ job'[j].target = job[j].target
        /\ \A i \in Job : Tmp(i)' = Tmp(i)
    BY <1>0, <2>2 DEF JobLocals, Tmp
  <2>4. race[job[j].target] = "now"
    BY <1>0, <2>2 DEF WrittenAlone
  <2>5. OneAtATime'
    BY <2>2, <2>3, SameWriters
  <2>6. ASSUME NEW i \in Job PROVE WrittenAlone(i)'
    BY <1>0, <2>1, <2>2, <2>3, <2>4, ZenonT(40) DEF WrittenAlone, Tmp, Final
  <2>7. \A t \in Target : t # job[j].target => disk'[<<t, "final">>] = disk[<<t, "final">>]
    BY <1>0, <2>1 DEF Final
  <2>8. WorkbookMirrors'
    BY <1>0, <2>2, <2>3, <2>4, <2>7 DEF WorkbookMirrors, JobAt
  <2> QED
    BY <2>5, <2>6, <2>8
<1>9. ASSUME NEW j \in Job, Rename(j)
      PROVE  OneAtATime' /\ (\A i \in Job : WrittenAlone(i)') /\ WorkbookMirrors'
  <2> DEFINE t == job[j].target
  <2>1. /\ race' = [race EXCEPT ![t] = IF Others(j, t) THEN @ ELSE IF @ = "now" THEN "past" ELSE "no"]
        /\ members' = members /\ job[j].pc = "rename" /\ t \in Target
    BY <1>0, <1>9 DEF Rename, RaceEnds, JobAt
  <2>2. /\ \A u \in Target : u # t => race'[u] = race[u]
        /\ Others(j, t) => race'[t] = race[t] /\ race[t] = "now"
        /\ ~Others(j, t) => race'[t] = (IF race[t] = "now" THEN "past" ELSE "no")
    <3>1. Others(j, t) => race[t] = "now"
      BY <1>0, <2>1 DEF Others, OneAtATime, Active, JobAt
    <3> QED
      BY <1>0, <2>1, <3>1
  <2>3. job'[j] = NoJob /\ \A i \in Job \ {j} :
          /\ job'[i].target = job[i].target /\ job'[i].seen = job[i].seen
          /\ job'[i].pc = "idle" <=> job[i].pc = "idle"
          /\ job[i].target # t => job'[i] = job[i]
    BY <1>0, <1>9 DEF Rename, JobLocals
  <2>4. NoJob.pc = "idle" /\ NoJob.target = "workbook"
    BY DEF NoJob
  <2>5. \A i \in Job \ {j} : job[i].pc # "idle" /\ job[i].target = t => Others(j, t)
    BY DEF Others, JobAt
  <2>6. disk' = disk \/ disk' = [disk EXCEPT ![Final(j)] = disk[Tmp(j)], ![Tmp(j)] = Missing]
    BY <1>9 DEF Rename
  <2>7. \A u \in Target : u # t => /\ disk'[<<u, "final">>] = disk[<<u, "final">>]
                                   /\ disk'[<<u, "tmp">>] = disk[<<u, "tmp">>]
    BY <1>0, <2>6 DEF Final, Tmp
  <2>8. race[t] # "now" => disk'[<<t, "final">>] = Whole(job[j].seen)
    <3>1. race[t] # "now" => disk[Tmp(j)] = Whole(job[j].seen) /\ disk[Tmp(j)] # Missing
      BY <1>0, <2>1 DEF WrittenAlone, Whole, Missing
    <3> QED
      BY <1>0, <1>9, <3>1 DEF Rename, Final, Tmp
  <2>9. OneAtATime'
    <3> SUFFICES ASSUME NEW u \in Target, race'[u] # "now", NEW i \in Job, NEW k \in Job,
                        Active(i, u)', Active(k, u)'
                 PROVE  i = k
      BY DEF OneAtATime
    <3>1. i # j /\ k # j
      BY <2>3, <2>4 DEF Active
    <3>2. Active(i, u) /\ Active(k, u)
      BY <2>3, <3>1 DEF Active
    <3> HIDE DEF t
    <3>3. u # t
      BY <2>2, <2>5, <3>1, <3>2 DEF Active
    <3> QED
      BY <1>0, <2>2, <3>2, <3>3 DEF OneAtATime
  <2>10. ASSUME NEW i \in Job PROVE WrittenAlone(i)'
    <3>1. CASE i = j
      BY <2>3, <2>4, <3>1 DEF WrittenAlone
    <3>2. CASE i # j /\ (job[i].pc = "idle" \/ job[i].target = t)
      <4>1. job[i].pc # "idle" => race'[t] = "now"
        BY <2>2, <2>5, <3>2
      <4> QED
        BY <2>3, <3>2, <4>1 DEF WrittenAlone
    <3>3. CASE i # j /\ job[i].target # t
      <4>1. job'[i] = job[i] /\ race'[job[i].target] = race[job[i].target]
        BY <1>0, <2>2, <2>3, <3>3
      <4>2. disk'[<<job[i].target, "tmp">>] = disk[<<job[i].target, "tmp">>]
        BY <1>0, <2>7, <3>3
      <4> HIDE DEF t
      <4> QED
        BY <1>0, <2>1, <4>1, <4>2 DEF WrittenAlone, Tmp
    <3> QED
      BY <3>1, <3>2, <3>3
  <2>11. WorkbookMirrors'
    <3>1. Whole(job[j].seen).whole /\ Whole(job[j].seen).of = job[j].seen
      BY DEF Whole
    <3>2. ASSUME NEW u \in Target, race'[u] = "no"
          PROVE  disk'[<<u, "final">>] = Missing \/ disk'[<<u, "final">>].whole
      BY <1>0, <2>2, <2>7, <2>8, <3>1, <3>2 DEF WorkbookMirrors
    <3>3. ASSUME t = "workbook", race'["workbook"] = "no"
          PROVE  disk'[<<"workbook", "final">>].whole /\ disk'[<<"workbook", "final">>].of[1] = members'
      <4>1. race[t] # "now"
        BY <1>0, <2>2, <3>3
      <4>2. job[j].seen[1] = members
        BY <1>0, <2>1, <3>3, <4>1 DEF WrittenAlone
      <4> QED
        BY <2>1, <2>8, <3>1, <3>3, <4>1, <4>2
    <3>4. ASSUME t # "workbook", up', race'["workbook"] = "no",
                 ~(\E i \in Job : job'[i].pc # "idle" /\ job'[i].target = "workbook")
          PROVE  disk'[<<"workbook", "final">>].whole /\ disk'[<<"workbook", "final">>].of[1] = members'
      <4>1. up
        BY <1>9, <3>4 DEF Rename, WorkbookInv, WorkbookTypes, JobsCarry
      <4>2. ~(\E i \in Job : job[i].pc # "idle" /\ job[i].target = "workbook")
        BY <2>3, <3>4
      <4> HIDE DEF t
      <4> QED
        BY <1>0, <2>1, <2>2, <2>7, <3>4, <4>1, <4>2 DEF WorkbookMirrors, JobAt
    <3> QED
      BY <3>2, <3>3, <3>4 DEF WorkbookMirrors, JobAt
  <2> QED
    BY <2>9, <2>10, <2>11
<1>10. ASSUME Kill
      PROVE  OneAtATime' /\ (\A i \in Job : WrittenAlone(i)') /\ WorkbookMirrors'
  <2>1. \A j \in Job : job'[j].pc = (IF j = Main THEN "users" ELSE "idle")
    BY <1>10 DEF Kill, Starting, NoJob
  <2>2. OneAtATime'
    BY <2>1 DEF OneAtATime, Active
  <2>3. \A i \in Job : WrittenAlone(i)'
    BY <2>1 DEF WrittenAlone
  <2>4. up' = FALSE /\ disk' = disk /\ \A t \in Target : race'[t] = "no" => race[t] = "no"
    BY <1>0, <1>10 DEF Kill
  <2>5. WorkbookMirrors'
    BY <1>0, <2>4 DEF WorkbookMirrors
  <2> QED
    BY <2>2, <2>3, <2>5
<1>11. ASSUME UNCHANGED workbookVars
      PROVE  OneAtATime' /\ (\A i \in Job : WrittenAlone(i)') /\ WorkbookMirrors'
  BY <1>0, <1>11 DEF workbookVars, OneAtATime, Active, WrittenAlone, Tmp, WorkbookMirrors, JobAt
<1> QED
  BY <1>1, <1>2, <1>3, <1>4, <1>5, <1>6, <1>7, <1>8, <1>9, <1>10, <1>11 DEF WorkbookNext

\* Requests, what they have read, and what each path may hold.
THEOREM WorkbookTyped == WorkbookSpec => []WorkbookTypeOK
<1>1. WorkbookTypes => WorkbookTypeOK
  BY DEF WorkbookTypes
<1> QED
  BY <1>1, WorkbookTypesInit, WorkbookTypesStep, PTL DEF WorkbookSpec

\* Whoever writes alone leaves a whole file, and one that is the members as they are: each
\* change of members (approve, correct, suspend, delete) exports after it has committed, and a
\* start exports before it serves (syncExport, main). So for any number of admins and kills.
THEOREM WorkbookIsTheMembers == WorkbookSpec => []WorkbookMirrors
<1>1. WorkbookInv => WorkbookMirrors
  BY DEF WorkbookInv
<1> QED
  BY <1>1, WorkbookInvInit, WorkbookInvStep, PTL DEF WorkbookSpec

-----------------------------------------------------------------------------
(* Photos: names and owners *)

\* A submission that sends no photograph has a candidacy to take one from.
SubCarries(q, mine) ==
  /\ q.pc = "thumb" => q.new # None
  /\ q.pc \in {"submit", "write"} /\ q.new = None => mine # NoCandidacy
  /\ q.pc = "write" /\ q.new = None => q.seen.photo # None

PhotosTypes ==
  /\ PhotosTypeOK
  /\ \A t \in Tab : SubCarries(sub[t], candidacy)
  /\ \A c \in Clerk : req[c].pc = "accept" => candidacy # NoCandidacy

Subs == [pc : {"idle", "display", "thumb", "submit", "write", "refused", "remove"},
         mine : Candidacies, seen : Candidacies, new : NameOrNone]
Reqs == [pc : {"idle", "accept", "create", "read", "update", "delete", "drop"},
         row : Row, photo : NameOrNone, old : NameOrNone]

LEMMA NoneIsNoName == \A n \in Name : n # None /\ n \in NameOrNone
<1>1. \A k \in 1 .. MaxNames : k # 0
  BY PhotosBounds
<1> QED
  BY <1>1 DEF Name, None, NameOrNone

LEMMA NothingTyped ==
  /\ NoCandidacy \in Candidacies /\ NoSub \in Subs /\ NoReq \in Reqs
  /\ NoRow \in [here : BOOLEAN, photo : NameOrNone]
  /\ NoSub.pc = "idle" /\ NoReq.pc = "idle" /\ NoCandidacy.photo = None /\ NoCandidacy.status = "none"
  /\ NoRow.photo = None /\ NoSub.new = None /\ NoSub.mine.photo = None /\ NoSub.seen.photo = None
  BY RowAssumption DEF NoCandidacy, NoSub, NoReq, NoRow, Candidacies, Subs, Reqs, NameOrNone

LEMMA FreshIsName ==
  ASSUME PhotosTypeOK, NEW o \in Owner, drawn[o] < MaxNames
  PROVE  Fresh(o) \in Name /\ drawn[o] + 1 \in 0 .. MaxNames
  BY PhotosBounds DEF PhotosTypeOK, Fresh, Name

LEMMA PhotosTypesInit == PhotosInit => PhotosTypes
<1> SUFFICES ASSUME PhotosInit PROVE PhotosTypes
  OBVIOUS
<1>1. PhotosTypeOK
  BY NothingTyped, PhotosBounds DEF PhotosInit, PhotosTypeOK, Subs, Reqs
<1> QED
  BY <1>1, NothingTyped DEF PhotosInit, PhotosTypes, SubCarries

\* The tables keep their types, and a candidacy, once there, stays.
TablesMove ==
  /\ files' \subseteq Name \X {"photo", "thumb"}
  /\ drawn' \in [Owner -> 0 .. MaxNames]
  /\ candidacy' \in Candidacies /\ (candidacy'.photo = None <=> candidacy' = NoCandidacy)
  /\ candidacy # NoCandidacy => candidacy' # NoCandidacy
  /\ rows' \in [Row -> [here : BOOLEAN, photo : NameOrNone]]
  /\ stops' \in 0 .. MaxStops /\ crossed' \subseteq Clerk \cup {Place}

LEMMA TablesStand ==
  ASSUME PhotosTypeOK
  PROVE  /\ UNCHANGED <<files, drawn, candidacy, rows, stops, crossed>> => TablesMove
         /\ UNCHANGED <<drawn, candidacy, rows, stops, crossed>>
              /\ files' \subseteq Name \X {"photo", "thumb"} => TablesMove
  BY DEF PhotosTypeOK, TablesMove

LEMMA SubMoves ==
  ASSUME PhotosTypes, TablesMove, NEW t \in Tab, NEW q \in Subs, SubCarries(q, candidacy'),
         sub' = [sub EXCEPT ![t] = q], req' = req
  PROVE  PhotosTypes'
  BY DEF PhotosTypes, PhotosTypeOK, TablesMove, SubCarries, Subs

LEMMA ReqMoves ==
  ASSUME PhotosTypes, TablesMove, NEW c \in Clerk, NEW q \in Reqs,
         q.pc = "accept" => candidacy # NoCandidacy, req' = [req EXCEPT ![c] = q], sub' = sub
  PROVE  PhotosTypes'
  BY DEF PhotosTypes, PhotosTypeOK, TablesMove, SubCarries, Reqs

LEMMA PhotosTypesStep == PhotosTypes /\ [PhotosNext]_photoVars => PhotosTypes'
<1> SUFFICES ASSUME PhotosTypes, [PhotosNext]_photoVars PROVE PhotosTypes'
  OBVIOUS
<1>0. /\ PhotosTypeOK /\ "member" \in Owner /\ Row \subseteq Owner /\ Typed \subseteq Row /\ Place \in Row
      /\ \A t \in Tab : sub[t] \in Subs /\ SubCarries(sub[t], candidacy)
      /\ \A c \in Clerk : req[c] \in Reqs /\ (req[c].pc = "accept" => candidacy # NoCandidacy)
  BY RowAssumption DEF PhotosTypes, PhotosTypeOK, Subs, Reqs, Owner
<1>1. ASSUME NEW t \in Tab, SubmitReadMine(t) PROVE PhotosTypes'
  <2>1. PICK sends \in BOOLEAN :
          /\ MayGoOn(sends)
          /\ sub' = [sub EXCEPT ![t] = [NoSub EXCEPT !.mine = candidacy,
                                                     !.pc = IF sends THEN "display" ELSE "submit"]]
    BY <1>1 DEF SubmitReadMine
  <2> DEFINE q == [NoSub EXCEPT !.mine = candidacy, !.pc = IF sends THEN "display" ELSE "submit"]
  <2>2. q \in Subs /\ SubCarries(q, candidacy') /\ sub' = [sub EXCEPT ![t] = q]
    BY <1>0, <1>1, <2>1, NothingTyped DEF Subs, SubCarries, MayGoOn, SubmitReadMine, PhotosTypeOK
  <2> HIDE DEF q
  <2> QED
    BY <1>0, <1>1, <2>1, <2>2, SubMoves, TablesStand DEF SubmitReadMine
<1>2. ASSUME NEW t \in Tab, StoreDisplay(t) PROVE PhotosTypes'
  <2> DEFINE q == [sub[t] EXCEPT !.pc = "thumb", !.new = Fresh("member")]
  <2>1. Fresh("member") \in Name /\ drawn["member"] + 1 \in 0 .. MaxNames
    BY <1>0, <1>2, FreshIsName DEF StoreDisplay
  <2>2. q \in Subs /\ SubCarries(q, candidacy') /\ sub' = [sub EXCEPT ![t] = q]
    BY <1>0, <1>2, <2>1, NoneIsNoName DEF Subs, SubCarries, StoreDisplay
  <2>3. TablesMove
    BY <1>0, <1>2, <2>1 DEF TablesMove, StoreDisplay, PhotosTypeOK
  <2> HIDE DEF q
  <2> QED
    BY <1>2, <2>2, <2>3, SubMoves DEF StoreDisplay
<1>3. ASSUME NEW t \in Tab, StoreThumb(t) PROVE PhotosTypes'
  <2>1. sub[t].new \in Name
    BY <1>0, <1>3 DEF StoreThumb, SubAt, SubCarries, Subs, NameOrNone
  <2>2. TablesMove
    BY <1>0, <1>3, <2>1, TablesStand DEF StoreThumb, PhotosTypeOK
  <2>3. CASE sub' = [sub EXCEPT ![t].pc = "submit"]
    <3> DEFINE q == [sub[t] EXCEPT !.pc = "submit"]
    <3>1. q \in Subs /\ SubCarries(q, candidacy') /\ sub' = [sub EXCEPT ![t] = q]
      BY <1>0, <1>3, <2>1, <2>3, NoneIsNoName DEF Subs, SubCarries, StoreThumb
    <3> HIDE DEF q
    <3> QED
      BY <1>3, <2>2, <3>1, SubMoves DEF StoreThumb
  <2>4. CASE sub' = [sub EXCEPT ![t] = NoSub]
    <3>1. SubCarries(NoSub, candidacy')
      BY NothingTyped DEF SubCarries
    <3> QED
      BY <1>3, <2>2, <2>4, <3>1, NothingTyped, SubMoves DEF StoreThumb
  <2> QED
    BY <1>3, <2>3, <2>4 DEF StoreThumb
<1>4. ASSUME NEW t \in Tab, SubmitReadExisting(t) PROVE PhotosTypes'
  <2>1. CASE sub' = [sub EXCEPT ![t].pc = "write", ![t].seen = candidacy]
    <3> DEFINE q == [sub[t] EXCEPT !.pc = "write", !.seen = candidacy]
    <3>1. q \in Subs /\ SubCarries(q, candidacy') /\ sub' = [sub EXCEPT ![t] = q]
      BY <1>0, <1>4, <2>1 DEF Subs, SubCarries, SubmitReadExisting, SubAt, PhotosTypeOK
    <3> HIDE DEF q
    <3> QED
      BY <1>0, <1>4, <3>1, SubMoves, TablesStand DEF SubmitReadExisting
  <2>2. CASE sub' = [sub EXCEPT ![t].pc = "refused"]
    <3> DEFINE q == [sub[t] EXCEPT !.pc = "refused"]
    <3>1. q \in Subs /\ SubCarries(q, candidacy') /\ sub' = [sub EXCEPT ![t] = q]
      BY <1>0, <1>4, <2>2 DEF Subs, SubCarries
    <3> HIDE DEF q
    <3> QED
      BY <1>0, <1>4, <3>1, SubMoves, TablesStand DEF SubmitReadExisting
  <2> QED
    BY <1>4, <2>1, <2>2 DEF SubmitReadExisting
<1>5. ASSUME NEW t \in Tab, SubmitWrite(t) PROVE PhotosTypes'
  <2>1. CASE candidacy' = candidacy /\ sub' = [sub EXCEPT ![t].pc = "refused"] /\ crossed' = crossed
    <3> DEFINE q == [sub[t] EXCEPT !.pc = "refused"]
    <3>1. q \in Subs /\ SubCarries(q, candidacy') /\ sub' = [sub EXCEPT ![t] = q]
      BY <1>0, <1>5, <2>1 DEF Subs, SubCarries
    <3> HIDE DEF q
    <3> QED
      BY <1>0, <1>5, <2>1, <3>1, SubMoves, TablesStand DEF SubmitWrite
  <2>2. CASE /\ candidacy' = [status |-> "submitted",
                               photo |-> IF sub[t].new = None THEN sub[t].seen.photo ELSE sub[t].new]
             /\ sub' = [sub EXCEPT ![t].pc = "remove"]
             /\ crossed' = crossed \cup Acceptances
    <3> DEFINE q == [sub[t] EXCEPT !.pc = "remove"]
    <3>1. q \in Subs /\ SubCarries(q, candidacy') /\ sub' = [sub EXCEPT ![t] = q]
      BY <1>0, <1>5, <2>2 DEF Subs, SubCarries
    <3>2. /\ candidacy' \in Candidacies /\ candidacy'.photo # None
          /\ candidacy' # NoCandidacy
      BY <1>0, <1>5, <2>2, NothingTyped DEF SubmitWrite, SubAt, SubCarries, Subs, Candidacies
    <3>3. Acceptances \subseteq Clerk \cup {Place}
      BY DEF Acceptances
    <3>4. TablesMove
      BY <1>0, <1>5, <2>2, <3>2, <3>3 DEF TablesMove, SubmitWrite, PhotosTypeOK
    <3> HIDE DEF q
    <3> QED
      BY <1>5, <3>1, <3>4, SubMoves DEF SubmitWrite
  <2> QED
    BY <1>5, <2>1, <2>2 DEF SubmitWrite
<1>6. ASSUME NEW t \in Tab, RemoveReplaced(t) \/ RemoveRefused(t) PROVE PhotosTypes'
  <2>1. SubCarries(NoSub, candidacy')
    BY NothingTyped DEF SubCarries
  <2>2. files' \subseteq Name \X {"photo", "thumb"} /\ UNCHANGED <<drawn, candidacy, rows, req, stops, crossed>>
        /\ sub' = [sub EXCEPT ![t] = NoSub]
    BY <1>0, <1>6 DEF RemoveReplaced, RemoveRefused, PhotosTypeOK
  <2> QED
    BY <1>0, <2>1, <2>2, NothingTyped, SubMoves, TablesStand
<1>7. ASSUME NEW c \in Clerk, AcceptRead(c) PROVE PhotosTypes'
  <2> DEFINE q == [NoReq EXCEPT !.pc = "accept", !.photo = candidacy.photo]
  <2>1. q \in Reqs /\ q.pc = "accept" /\ candidacy # NoCandidacy /\ req' = [req EXCEPT ![c] = q]
    BY <1>0, <1>7, NothingTyped DEF Reqs, AcceptRead, PhotosTypeOK, Candidacies
  <2> HIDE DEF q
  <2> QED
    BY <1>0, <1>7, <2>1, ReqMoves, TablesStand DEF AcceptRead
<1>8. ASSUME NEW c \in Clerk, AcceptWrite(c) PROVE PhotosTypes'
  <2>1. candidacy' \in Candidacies /\ candidacy'.photo = candidacy.photo /\ candidacy # NoCandidacy
    BY <1>0, <1>8 DEF AcceptWrite, ReqAt, PhotosTypeOK, Candidacies
  <2>2. TablesMove
    BY <1>0, <1>8, <2>1, NothingTyped DEF TablesMove, AcceptWrite, PhotosTypeOK, Reqs
  <2> QED
    BY <1>8, <2>2, NothingTyped, ReqMoves DEF AcceptWrite
<1>9. ASSUME NEW c \in Clerk, Return(c) PROVE PhotosTypes'
  <2>1. candidacy' \in Candidacies /\ candidacy'.photo = candidacy.photo /\ candidacy # NoCandidacy
    BY <1>0, <1>9 DEF Return, PhotosTypeOK, Candidacies
  <2>2. TablesMove
    BY <1>0, <1>9, <2>1, NothingTyped DEF TablesMove, Return, PhotosTypeOK
  <2>3. req[c] \in Reqs /\ req' = [req EXCEPT ![c] = req[c]]
    BY <1>0, <1>9 DEF Return, PhotosTypeOK
  <2> QED
    BY <1>0, <1>9, <2>2, <2>3, ReqMoves DEF Return
<1>10. ASSUME NEW c \in Clerk, NEW r \in Typed, UploadPhoto(c, r) PROVE PhotosTypes'
  <2>1. Fresh(r) \in Name /\ drawn[r] + 1 \in 0 .. MaxNames
    BY <1>0, <1>10, FreshIsName DEF UploadPhoto
  <2>2. TablesMove
    BY <1>0, <1>10, <2>1 DEF TablesMove, UploadPhoto, PhotosTypeOK
  <2>3. req[c] \in Reqs /\ req' = [req EXCEPT ![c] = req[c]]
    BY <1>0, <1>10 DEF UploadPhoto, PhotosTypeOK
  <2> QED
    BY <1>0, <1>10, <2>2, <2>3, ReqMoves DEF UploadPhoto
<1>b. \A r \in Row : Sent(r) \subseteq NameOrNone
  <2> SUFFICES ASSUME NEW r \in Row, NEW n \in Sent(r) PROVE n \in NameOrNone
    OBVIOUS
  <2>1. r \in Owner /\ drawn[r] \in 0 .. MaxNames /\ rows[r].photo \in NameOrNone
    BY <1>0 DEF PhotosTypeOK
  <2>2. \A k \in 1 .. drawn[r] : <<r, k>> \in Name
    BY <2>1, PhotosBounds DEF Name
  <2> QED
    BY <2>1, <2>2 DEF Sent, NameOrNone
<1>11. ASSUME NEW c \in Clerk, NEW r \in Typed, CreateStart(c, r) \/ UpdateStart(c, r) PROVE PhotosTypes'
  <2>1. PICK n \in Sent(r), pc \in {"create", "read"} :
          req' = [req EXCEPT ![c] = [NoReq EXCEPT !.pc = pc, !.row = r, !.photo = n]]
    BY <1>11 DEF CreateStart, UpdateStart
  <2> DEFINE q == [NoReq EXCEPT !.pc = pc, !.row = r, !.photo = n]
  <2>2. q \in Reqs /\ q.pc # "accept" /\ req' = [req EXCEPT ![c] = q]
    BY <1>0, <1>b, <2>1, NothingTyped DEF Reqs
  <2> HIDE DEF q
  <2> QED
    BY <1>0, <1>11, <2>2, ReqMoves, TablesStand DEF CreateStart, UpdateStart
<1>12. ASSUME NEW c \in Clerk, CreateWrite(c) PROVE PhotosTypes'
  <2>1. TablesMove
    BY <1>0, <1>12 DEF TablesMove, CreateWrite, PhotosTypeOK, Reqs
  <2> QED
    BY <1>12, <2>1, NothingTyped, ReqMoves DEF CreateWrite
<1>13. ASSUME NEW c \in Clerk, UpdateReadOld(c) PROVE PhotosTypes'
  <2> DEFINE q == [req[c] EXCEPT !.pc = "update", !.old = rows[req[c].row].photo]
  <2>1. q \in Reqs /\ q.pc # "accept" /\ req' = [req EXCEPT ![c] = q]
    BY <1>0, <1>13 DEF UpdateReadOld, Reqs, PhotosTypeOK
  <2> HIDE DEF q
  <2> QED
    BY <1>0, <1>13, <2>1, ReqMoves, TablesStand DEF UpdateReadOld
<1>14. ASSUME NEW c \in Clerk, UpdateWrite(c) PROVE PhotosTypes'
  <2>1. TablesMove
    BY <1>0, <1>14, SMTT(40) DEF TablesMove, UpdateWrite, PhotosTypeOK, Reqs
  <2> DEFINE q == IF req[c].old \in {None, req[c].photo} THEN NoReq ELSE [req[c] EXCEPT !.pc = "drop"]
  <2>2. q \in Reqs /\ q.pc # "accept" /\ req' = [req EXCEPT ![c] = q]
    BY <1>0, <1>14, NothingTyped DEF UpdateWrite, Reqs
  <2> HIDE DEF q
  <2> QED
    BY <1>14, <2>1, <2>2, ReqMoves DEF UpdateWrite
<1>15. ASSUME NEW c \in Clerk, NEW r \in Typed, DeleteStart(c, r) PROVE PhotosTypes'
  <2> DEFINE q == [NoReq EXCEPT !.pc = "delete", !.row = r, !.old = rows[r].photo]
  <2>1. q \in Reqs /\ q.pc # "accept" /\ req' = [req EXCEPT ![c] = q]
    BY <1>0, <1>15, NothingTyped DEF DeleteStart, Reqs, PhotosTypeOK
  <2> HIDE DEF q
  <2> QED
    BY <1>0, <1>15, <2>1, ReqMoves, TablesStand DEF DeleteStart
<1>16. ASSUME NEW c \in Clerk, DeleteWrite(c) PROVE PhotosTypes'
  <2> DEFINE q == [req[c] EXCEPT !.pc = "drop"]
  <2>1. q \in Reqs /\ q.pc # "accept" /\ req' = [req EXCEPT ![c] = q]
    BY <1>0, <1>16 DEF DeleteWrite, Reqs
  <2>2. TablesMove
    BY <1>0, <1>16, NothingTyped DEF TablesMove, DeleteWrite, PhotosTypeOK, Reqs
  <2> HIDE DEF q
  <2> QED
    BY <1>16, <2>1, <2>2, ReqMoves DEF DeleteWrite
<1>17. ASSUME NEW c \in Clerk, Drop(c) PROVE PhotosTypes'
  BY <1>0, <1>17, NothingTyped, ReqMoves, TablesStand DEF Drop, PhotosTypeOK
<1>18. CASE Stop
  <2>1. stops' \in 0 .. MaxStops
    BY <1>0, <1>18, PhotosBounds DEF Stop, PhotosTypeOK
  <2>2. SubCarries(NoSub, candidacy)
    BY NothingTyped DEF SubCarries
  <2> QED
    BY <1>0, <1>18, <2>1, <2>2, NothingTyped DEF Stop, PhotosTypes, PhotosTypeOK, Subs, Reqs
<1>19. CASE UNCHANGED photoVars
  BY <1>19 DEF photoVars, PhotosTypes, PhotosTypeOK, SubCarries
<1>20. ASSUME NEW t \in Tab, SubmitStep(t) PROVE PhotosTypes'
  BY <1>1, <1>2, <1>3, <1>4, <1>5, <1>6, <1>20 DEF SubmitStep
<1>21. ASSUME NEW c \in Clerk, ClerkStep(c) PROVE PhotosTypes'
  BY <1>7, <1>8, <1>9, <1>10, <1>11, <1>12, <1>13, <1>14, <1>15, <1>16, <1>17, <1>21 DEF ClerkStep
<1> QED
  BY <1>18, <1>19, <1>20, <1>21 DEF PhotosNext

\* Rows, requests and the names they hold.
THEOREM PhotosTyped == PhotosSpec => []PhotosTypeOK
<1>1. PhotosTypes => PhotosTypeOK
  BY DEF PhotosTypes
<1> QED
  BY <1>1, PhotosTypesInit, PhotosTypesStep, PTL DEF PhotosSpec

-----------------------------------------------------------------------------
(* Photos: whose a name is *)

\* The ballot page leaves the entry of the candidacy alone.
PlaceIsLeft == Place \notin Typed

\* What was drawn for an owner, and nothing.
Names(o) == {None} \cup {<<o, k>> : k \in 1 .. drawn[o]}
TypedRow == Row \ {Place}

SubOwned(q) == q.mine.photo \in Names("member") /\ q.seen.photo \in Names("member") /\ q.new \in Names("member")
ReqOwned(q) ==
  q.pc \in {"create", "read", "update", "delete", "drop"} =>
    q.row \in TypedRow /\ q.photo \in Names(q.row) /\ q.old \in Names(q.row)

Owned ==
  /\ candidacy.photo \in Names("member")
  /\ \A t \in Tab : SubOwned(sub[t])
  /\ \A r \in TypedRow : rows[r].photo \in Names(r) /\ (rows[r].here \/ rows[r].photo = None)
  /\ \A c \in Clerk : ReqOwned(req[c])

PhotosOwned == PhotosTypes /\ Owned

LEMMA NamesOfOthers ==
  ASSUME PhotosTypeOK, NEW o, NEW p, o # p, NEW n \in Names(o), n \in Names(p)
  PROVE  n = None
  BY DEF Names

\* The next name has not been drawn yet, and no step forgets a name.
LEMMA FreshIsNew ==
  ASSUME PhotosTypeOK, NEW o \in Owner
  PROVE  Fresh(o) \notin Names(o)
<1>1. drawn[o] \in Nat
  BY PhotosBounds DEF PhotosTypeOK
<1>2. \A k \in 1 .. drawn[o] : k # drawn[o] + 1
  BY <1>1
<1>3. drawn[o] + 1 # 0
  BY <1>1
<1> QED
  BY <1>2, <1>3 DEF Fresh, Names, None

LEMMA NamesGrow ==
  ASSUME PhotosTypeOK, NEW o \in Owner,
         drawn' = drawn \/ \E p \in Owner : drawn' = [drawn EXCEPT ![p] = @ + 1]
  PROVE  /\ Names(o) \subseteq Names(o)'
         /\ drawn' = [drawn EXCEPT ![o] = @ + 1] => Fresh(o) \in Names(o)'
<1>1. drawn[o] \in Nat /\ (drawn'[o] = drawn[o] \/ drawn'[o] = drawn[o] + 1)
  BY PhotosBounds DEF PhotosTypeOK
<1>2. 1 .. drawn[o] \subseteq 1 .. drawn'[o]
  BY <1>1
<1>3. drawn' = [drawn EXCEPT ![o] = @ + 1] => drawn[o] + 1 \in 1 .. drawn'[o]
  BY <1>1 DEF PhotosTypeOK
<1> QED
  BY <1>2, <1>3 DEF Names, Fresh

LEMMA OwnedInit == PhotosInit => Owned
  BY NothingTyped DEF PhotosInit, Owned, SubOwned, ReqOwned, Names, TypedRow, NoReq

LEMMA OwnedStep ==
  ASSUME PlaceIsLeft, PhotosOwned, [PhotosNext]_photoVars
  PROVE  Owned'
<1>0. /\ PhotosTypeOK /\ "member" \in Owner /\ TypedRow \subseteq Owner /\ Typed \subseteq TypedRow
      /\ \A t \in Tab : sub[t] \in Subs /\ SubOwned(sub[t])
      /\ \A c \in Clerk : req[c] \in Reqs /\ ReqOwned(req[c])
      /\ candidacy.photo \in Names("member")
      /\ \A r \in TypedRow : rows[r].photo \in Names(r) /\ (rows[r].here \/ rows[r].photo = None)
      /\ \A o : None \in Names(o)
  BY RowAssumption DEF PhotosOwned, PhotosTypes, PhotosTypeOK, Subs, Reqs, Owner, TypedRow, PlaceIsLeft, Owned, Names
<1>a. ASSUME drawn' = drawn \/ \E p \in Owner : drawn' = [drawn EXCEPT ![p] = @ + 1]
      PROVE  /\ \A q : SubOwned(q) => SubOwned(q)'
             /\ \A q : ReqOwned(q) => ReqOwned(q)'
             /\ \A o \in Owner : \A n \in Names(o) : n \in Names(o)'
  BY <1>0, <1>a, NamesGrow DEF SubOwned, ReqOwned
<1>b. ASSUME drawn' = drawn PROVE \A o : Names(o)' = Names(o)
  BY <1>b DEF Names
<1>c. ASSUME drawn' = drawn, rows' = rows, req' = req, candidacy'.photo \in Names("member"),
             NEW t \in Tab, NEW q \in Subs, SubOwned(q), sub' = [sub EXCEPT ![t] = q]
      PROVE  Owned'
  <2>1. \A u \in Tab : sub'[u] = IF u = t THEN q ELSE sub[u]
    BY <1>c DEF PhotosOwned, PhotosTypes, PhotosTypeOK
  <2> QED
    BY <1>0, <1>b, <1>c, <2>1 DEF Owned, SubOwned, ReqOwned
<1>d. ASSUME drawn' = drawn, sub' = sub, candidacy'.photo = candidacy.photo,
             \A r \in TypedRow : rows'[r].photo \in Names(r) /\ (rows'[r].here \/ rows'[r].photo = None),
             NEW c \in Clerk, NEW q \in Reqs, ReqOwned(q), req' = [req EXCEPT ![c] = q]
      PROVE  Owned'
  <2>1. \A d \in Clerk : req'[d] = IF d = c THEN q ELSE req[d]
    BY <1>d DEF PhotosOwned, PhotosTypes, PhotosTypeOK
  <2> QED
    BY <1>0, <1>b, <1>d, <2>1 DEF Owned, SubOwned, ReqOwned
<1>n. SubOwned(NoSub) /\ ReqOwned(NoReq)
  BY <1>0, NothingTyped DEF SubOwned, ReqOwned
<1>1. ASSUME NEW t \in Tab, SubmitReadMine(t) PROVE Owned'
  <2>1. PICK pc \in {"display", "submit"} : sub' = [sub EXCEPT ![t] = [NoSub EXCEPT !.mine = candidacy, !.pc = pc]]
    BY <1>1 DEF SubmitReadMine
  <2> DEFINE q == [NoSub EXCEPT !.mine = candidacy, !.pc = pc]
  <2>2. q \in Subs /\ SubOwned(q)
    BY <1>0, <1>n, NothingTyped DEF Subs, SubOwned, PhotosTypeOK
  <2>3. UNCHANGED <<drawn, rows, req, candidacy>> /\ sub' = [sub EXCEPT ![t] = q]
    BY <1>1, <2>1 DEF SubmitReadMine
  <2> HIDE DEF q
  <2> QED
    BY <1>0, <1>c, <2>2, <2>3
<1>2. ASSUME NEW t \in Tab, StoreDisplay(t) PROVE Owned'
  <2>1. drawn' = [drawn EXCEPT !["member"] = @ + 1] /\ UNCHANGED <<rows, req, candidacy>>
    BY <1>2 DEF StoreDisplay
  <2>2. Fresh("member") \in Names("member")'
    BY <1>0, <2>1, NamesGrow
  <2>3. \A u \in Tab : sub'[u] = IF u = t THEN [sub[u] EXCEPT !.pc = "thumb", !.new = Fresh("member")] ELSE sub[u]
    BY <1>0, <1>2 DEF StoreDisplay, PhotosTypeOK
  <2>4. \A u \in Tab : SubOwned(sub[u])'
    BY <1>0, <1>a, <2>1, <2>2, <2>3 DEF SubOwned, Subs
  <2> QED
    BY <1>0, <1>a, <2>1, <2>4 DEF Owned
<1>3. ASSUME NEW t \in Tab, StoreThumb(t) \/ RemoveReplaced(t) \/ RemoveRefused(t) PROVE Owned'
  <2>1. PICK q : sub' = [sub EXCEPT ![t] = q] /\ (q = NoSub \/ q = [sub[t] EXCEPT !.pc = "submit"])
    BY <1>3 DEF StoreThumb, RemoveReplaced, RemoveRefused
  <2>2. q \in Subs /\ SubOwned(q)
    BY <1>0, <1>n, <2>1, NothingTyped DEF Subs, SubOwned
  <2>3. UNCHANGED <<drawn, rows, req, candidacy>>
    BY <1>3 DEF StoreThumb, RemoveReplaced, RemoveRefused
  <2> QED
    BY <1>0, <1>c, <2>1, <2>2, <2>3
<1>4. ASSUME NEW t \in Tab, SubmitReadExisting(t) PROVE Owned'
  <2>1. PICK q : /\ sub' = [sub EXCEPT ![t] = q]
                 /\ \/ q = [sub[t] EXCEPT !.pc = "write", !.seen = candidacy]
                    \/ q = [sub[t] EXCEPT !.pc = "refused"]
    BY <1>4 DEF SubmitReadExisting
  <2>2. q \in Subs /\ SubOwned(q)
    BY <1>0, <2>1 DEF Subs, SubOwned, PhotosTypeOK
  <2>3. UNCHANGED <<drawn, rows, req, candidacy>>
    BY <1>4 DEF SubmitReadExisting
  <2> QED
    BY <1>0, <1>c, <2>1, <2>2, <2>3
<1>5. ASSUME NEW t \in Tab, SubmitWrite(t) PROVE Owned'
  <2>1. PICK pc \in {"refused", "remove"} : sub' = [sub EXCEPT ![t] = [sub[t] EXCEPT !.pc = pc]]
    BY <1>5 DEF SubmitWrite
  <2> DEFINE q == [sub[t] EXCEPT !.pc = pc]
  <2>2. q \in Subs /\ SubOwned(q)
    BY <1>0 DEF Subs, SubOwned
  <2>3. UNCHANGED <<drawn, rows, req>> /\ candidacy'.photo \in Names("member")
    BY <1>0, <1>5 DEF SubmitWrite, SubOwned
  <2>4. sub' = [sub EXCEPT ![t] = q]
    BY <2>1
  <2> HIDE DEF q
  <2> QED
    BY <1>c, <2>2, <2>3, <2>4
<1>6. ASSUME NEW c \in Clerk, AcceptRead(c) PROVE Owned'
  <2> DEFINE q == [NoReq EXCEPT !.pc = "accept", !.photo = candidacy.photo]
  <2>1. q \in Reqs /\ ReqOwned(q) /\ req' = [req EXCEPT ![c] = q]
    BY <1>0, <1>6, NothingTyped DEF Reqs, AcceptRead, PhotosTypeOK, Candidacies, ReqOwned
  <2> HIDE DEF q
  <2> QED
    BY <1>0, <1>6, <1>d, <2>1 DEF AcceptRead
<1>7. ASSUME NEW c \in Clerk, AcceptWrite(c) PROVE Owned'
  <2>1. candidacy'.photo = candidacy.photo /\ \A r \in TypedRow : rows'[r] = rows[r]
    BY <1>0, <1>7 DEF AcceptWrite, PhotosTypeOK, Candidacies, TypedRow
  <2> QED
    BY <1>0, <1>7, <1>d, <1>n, <2>1, NothingTyped DEF AcceptWrite
<1>8. ASSUME NEW c \in Clerk, Return(c) PROVE Owned'
  <2>1. candidacy'.photo = candidacy.photo /\ \A r \in TypedRow : rows'[r] = rows[r]
    BY <1>0, <1>8 DEF Return, PhotosTypeOK, Candidacies, TypedRow
  <2>2. req' = [req EXCEPT ![c] = req[c]]
    BY <1>0, <1>8 DEF Return, PhotosTypeOK
  <2> QED
    BY <1>0, <1>8, <1>d, <2>1, <2>2 DEF Return
<1>9. ASSUME NEW c \in Clerk, NEW r \in Typed, UploadPhoto(c, r) PROVE Owned'
  <2>1. drawn' = [drawn EXCEPT ![r] = @ + 1] /\ UNCHANGED <<candidacy, rows, sub, req>>
    BY <1>9 DEF UploadPhoto
  <2> QED
    BY <1>0, <1>a, <2>1 DEF Owned
<1>10. ASSUME NEW c \in Clerk, NEW r \in Typed, CreateStart(c, r) \/ UpdateStart(c, r) PROVE Owned'
  <2>1. PICK n \in Sent(r), pc \in {"create", "read"} :
          req' = [req EXCEPT ![c] = [NoReq EXCEPT !.pc = pc, !.row = r, !.photo = n]]
    BY <1>10 DEF CreateStart, UpdateStart
  <2> DEFINE q == [NoReq EXCEPT !.pc = pc, !.row = r, !.photo = n]
  <2>2. n \in Names(r) /\ n \in NameOrNone
    <3>1. drawn[r] \in 0 .. MaxNames /\ rows[r].photo \in NameOrNone /\ r \in Owner
      BY <1>0 DEF PhotosTypeOK, TypedRow
    <3>2. \A k \in 1 .. drawn[r] : <<r, k>> \in Name
      BY <3>1, PhotosBounds DEF Name
    <3> QED
      BY <1>0, <3>1, <3>2 DEF Sent, Names, NameOrNone
  <2>3. q \in Reqs /\ q.row = r /\ q.photo = n /\ q.old = None
    BY <1>0, <2>2, NothingTyped DEF Reqs, NoReq, TypedRow
  <2>4. ReqOwned(q) /\ req' = [req EXCEPT ![c] = q]
    BY <1>0, <2>1, <2>2, <2>3 DEF ReqOwned
  <2>5. UNCHANGED <<drawn, candidacy, rows, sub>>
    BY <1>10 DEF CreateStart, UpdateStart
  <2> HIDE DEF q
  <2> QED
    BY <1>0, <1>d, <2>3, <2>4, <2>5
<1>11. ASSUME NEW c \in Clerk, CreateWrite(c) PROVE Owned'
  <2>1. \A r \in TypedRow : rows'[r] = rows[r] \/ (r = req[c].row /\ rows'[r] = [here |-> TRUE, photo |-> req[c].photo])
    BY <1>0, <1>11 DEF CreateWrite, PhotosTypeOK, TypedRow
  <2>2. \A r \in TypedRow : rows'[r].photo \in Names(r) /\ (rows'[r].here \/ rows'[r].photo = None)
    BY <1>0, <1>11, <2>1 DEF CreateWrite, ReqAt, ReqOwned
  <2> QED
    BY <1>11, <1>d, <1>n, <2>2, NothingTyped DEF CreateWrite
<1>12. ASSUME NEW c \in Clerk, UpdateReadOld(c) PROVE Owned'
  <2> DEFINE q == [req[c] EXCEPT !.pc = "update", !.old = rows[req[c].row].photo]
  <2>1. q \in Reqs /\ ReqOwned(q) /\ req' = [req EXCEPT ![c] = q]
    BY <1>0, <1>12 DEF UpdateReadOld, ReqAt, Reqs, ReqOwned, PhotosTypeOK, TypedRow
  <2> HIDE DEF q
  <2> QED
    BY <1>0, <1>12, <1>d, <2>1 DEF UpdateReadOld
<1>13. ASSUME NEW c \in Clerk, UpdateWrite(c) PROVE Owned'
  <2> DEFINE q == IF req[c].old \in {None, req[c].photo} THEN NoReq ELSE [req[c] EXCEPT !.pc = "drop"]
  <2>1. q \in Reqs /\ ReqOwned(q) /\ req' = [req EXCEPT ![c] = q]
    BY <1>0, <1>13, <1>n, NothingTyped DEF UpdateWrite, ReqAt, Reqs, ReqOwned
  <2>2. \A r \in TypedRow : rows'[r] = rows[r] \/ (r = req[c].row /\ rows[r].here /\ rows'[r] = [rows[r] EXCEPT !.photo = req[c].photo])
    BY <1>0, <1>13 DEF UpdateWrite, PhotosTypeOK, TypedRow
  <2>3. \A r \in TypedRow : rows'[r].photo \in Names(r) /\ (rows'[r].here \/ rows'[r].photo = None)
    <3>1. \A r \in TypedRow : rows[r] \in [here : BOOLEAN, photo : NameOrNone]
      BY <1>0 DEF PhotosTypeOK, TypedRow
    <3> QED
      BY <1>0, <1>13, <2>2, <3>1 DEF UpdateWrite, ReqAt, ReqOwned
  <2> HIDE DEF q
  <2> QED
    BY <1>13, <1>d, <2>1, <2>3 DEF UpdateWrite
<1>14. ASSUME NEW c \in Clerk, NEW r \in Typed, DeleteStart(c, r) PROVE Owned'
  <2> DEFINE q == [NoReq EXCEPT !.pc = "delete", !.row = r, !.old = rows[r].photo]
  <2>1. q \in Reqs /\ ReqOwned(q) /\ req' = [req EXCEPT ![c] = q]
    BY <1>0, <1>14, NothingTyped DEF DeleteStart, Reqs, ReqOwned, PhotosTypeOK, TypedRow, NoReq
  <2> HIDE DEF q
  <2> QED
    BY <1>0, <1>14, <1>d, <2>1 DEF DeleteStart
<1>15. ASSUME NEW c \in Clerk, DeleteWrite(c) PROVE Owned'
  <2> DEFINE q == [req[c] EXCEPT !.pc = "drop"]
  <2>1. q \in Reqs /\ ReqOwned(q) /\ req' = [req EXCEPT ![c] = q]
    BY <1>0, <1>15 DEF DeleteWrite, ReqAt, Reqs, ReqOwned
  <2>2. \A r \in TypedRow : rows'[r] = rows[r] \/ rows'[r] = NoRow
    BY <1>0, <1>15 DEF DeleteWrite, PhotosTypeOK, TypedRow
  <2> HIDE DEF q
  <2> QED
    BY <1>0, <1>15, <1>d, <2>1, <2>2, NothingTyped DEF DeleteWrite
<1>16. ASSUME NEW c \in Clerk, Drop(c) PROVE Owned'
  BY <1>0, <1>16, <1>d, <1>n, NothingTyped DEF Drop
<1>17. CASE Stop
  <2>1. \A t \in Tab : sub'[t] = NoSub
    BY <1>17 DEF Stop
  <2>2. \A c \in Clerk : req'[c] = NoReq
    BY <1>17 DEF Stop
  <2> QED
    BY <1>0, <1>a, <1>n, <1>17, <2>1, <2>2 DEF Stop, Owned
<1>18. CASE UNCHANGED photoVars
  BY <1>0, <1>a, <1>18 DEF photoVars, Owned
<1>19. ASSUME NEW t \in Tab, SubmitStep(t) PROVE Owned'
  BY <1>1, <1>2, <1>3, <1>4, <1>5, <1>19 DEF SubmitStep
<1>20. ASSUME NEW c \in Clerk, ClerkStep(c) PROVE Owned'
  BY <1>6, <1>7, <1>8, <1>9, <1>10, <1>11, <1>12, <1>13, <1>14, <1>15, <1>16, <1>20 DEF ClerkStep
<1> QED
  BY <1>17, <1>18, <1>19, <1>20 DEF PhotosNext

-----------------------------------------------------------------------------
(* Photos: the candidacy *)

\* A member who waits for the answer before sending again.
OneTab == \A t, u \in Tab : t = u

\* The photograph on its way is a new one until the row names it, and both its copies
\* are there before the row is written.
OnItsWay(q) ==
  /\ q.new # None => q.new # q.mine.photo
  /\ q.pc \in {"thumb", "submit", "write", "refused"} /\ q.new # None => q.new # candidacy.photo
  /\ q.pc = "thumb" => <<q.new, "photo">> \in files
  /\ q.pc \in {"submit", "write"} /\ q.new # None => Copies(q.new) \subseteq files
  /\ q.pc = "write" => q.seen.photo = candidacy.photo
  /\ q.pc = "remove" /\ q.new # None => q.new = candidacy.photo

CandidacyThere == candidacy # NoCandidacy => Copies(candidacy.photo) \subseteq files

CandidacyInv == PhotosOwned /\ CandidacyThere /\ \A t \in Tab : OnItsWay(sub[t])

\* The committee and the ballot page leave the member's files, and which photograph the
\* candidacy has.
LEMMA ClerksLeave ==
  ASSUME PlaceIsLeft, PhotosOwned, NEW c \in Clerk, ClerkStep(c)
  PROVE  /\ sub' = sub /\ candidacy'.photo = candidacy.photo
         /\ candidacy' # NoCandidacy => candidacy # NoCandidacy
         /\ \A n \in Names("member") \ {None} : Copies(n) \cap files \subseteq files'
<1>0. /\ PhotosTypeOK /\ candidacy \in Candidacies /\ req[c] \in Reqs /\ ReqOwned(req[c])
      /\ \A d \in Clerk : req[d].pc = "accept" => candidacy # NoCandidacy
  BY DEF PhotosOwned, PhotosTypes, PhotosTypeOK, Reqs, Owned
<1>1. ASSUME NEW r \in Typed, UploadPhoto(c, r) \/ CreateStart(c, r) \/ UpdateStart(c, r) \/ DeleteStart(c, r)
      PROVE  sub' = sub /\ candidacy' = candidacy /\ files \subseteq files'
  BY <1>1 DEF UploadPhoto, CreateStart, UpdateStart, DeleteStart
<1>2. CASE AcceptRead(c) \/ CreateWrite(c) \/ UpdateReadOld(c) \/ UpdateWrite(c) \/ DeleteWrite(c)
  BY <1>2 DEF AcceptRead, CreateWrite, UpdateReadOld, UpdateWrite, DeleteWrite
<1>3. CASE AcceptWrite(c) \/ Return(c)
  <2>1. candidacy # NoCandidacy
    BY <1>0, <1>3 DEF AcceptWrite, Return, ReqAt
  <2>2. candidacy'.photo = candidacy.photo /\ sub' = sub /\ files' = files
    BY <1>0, <1>3 DEF AcceptWrite, Return, Candidacies
  <2> QED
    BY <2>1, <2>2
<1>4. CASE Drop(c)
  <2>1. req[c].old \in Names(req[c].row) /\ req[c].row # "member"
    BY <1>0, <1>4, RowAssumption DEF Drop, ReqAt, ReqOwned, TypedRow
  <2>2. \A n \in Names("member") \ {None} : n # req[c].old
    BY <1>0, <2>1, NamesOfOthers
  <2>3. \A n \in Names("member") \ {None} : <<req[c].old, "photo">> \notin Copies(n)
    BY <2>2 DEF Copies
  <2>4. files' = files \ {<<req[c].old, "photo">>} /\ sub' = sub /\ candidacy' = candidacy
    BY <1>4 DEF Drop
  <2> QED
    BY <2>3, <2>4
<1> QED
  BY <1>1, <1>2, <1>3, <1>4 DEF ClerkStep

LEMMA CandidacyInit == PhotosInit => CandidacyInv
<1> SUFFICES ASSUME PhotosInit PROVE CandidacyInv
  OBVIOUS
<1>1. PhotosOwned
  BY PhotosTypesInit, OwnedInit DEF PhotosOwned
<1> QED
  BY <1>1, NothingTyped DEF PhotosInit, CandidacyInv, CandidacyThere, OnItsWay

LEMMA CandidacyStep ==
  ASSUME OneTab, PlaceIsLeft, CandidacyInv, [PhotosNext]_photoVars
  PROVE  CandidacyInv'
<1>0. /\ PhotosTypes /\ PhotosOwned /\ CandidacyThere /\ PhotosTypeOK
      /\ candidacy.photo \in Names("member") /\ (candidacy.photo = None <=> candidacy = NoCandidacy)
      /\ \A t \in Tab : /\ sub[t] \in Subs /\ OnItsWay(sub[t]) /\ SubOwned(sub[t])
                        /\ SubCarries(sub[t], candidacy)
  BY DEF CandidacyInv, PhotosOwned, PhotosTypes, PhotosTypeOK, Subs, Owned
<1>a. PhotosOwned'
  BY <1>0, PhotosTypesStep, OwnedStep DEF PhotosOwned
<1> SUFFICES CandidacyThere' /\ \A t \in Tab : OnItsWay(sub[t])'
  BY <1>a DEF CandidacyInv
\* The one submission moves on; what it becomes is q.
<1>b. ASSUME NEW t \in Tab, NEW q, sub' = [sub EXCEPT ![t] = q]
      PROVE  \A u \in Tab : sub'[u] = q
  BY <1>b, <1>0 DEF OneTab, PhotosTypeOK
<1>1. ASSUME NEW t \in Tab, SubmitReadMine(t) PROVE CandidacyThere' /\ \A u \in Tab : OnItsWay(sub[u])'
  <2>1. PICK pc \in {"display", "submit"} : sub' = [sub EXCEPT ![t] = [NoSub EXCEPT !.mine = candidacy, !.pc = pc]]
    BY <1>1 DEF SubmitReadMine
  <2> DEFINE q == [NoSub EXCEPT !.mine = candidacy, !.pc = pc]
  <2>2. q.pc = pc /\ q.new = None
    BY DEF NoSub
  <2>3. \A u \in Tab : sub'[u] = q
    BY <1>b, <2>1
  <2> HIDE DEF q
  <2> QED
    BY <1>0, <1>1, <2>2, <2>3 DEF SubmitReadMine, CandidacyThere, OnItsWay
<1>2. ASSUME NEW t \in Tab, StoreDisplay(t) PROVE CandidacyThere' /\ \A u \in Tab : OnItsWay(sub[u])'
  <2>1. Fresh("member") \notin Names("member") /\ UNCHANGED candidacy
        /\ files' = files \cup {<<Fresh("member"), "photo">>}
    BY <1>0, <1>2, FreshIsNew DEF StoreDisplay, Owner
  <2>2. sub[t].mine.photo \in Names("member")
    BY <1>0 DEF SubOwned
  <2> DEFINE q == [sub[t] EXCEPT !.pc = "thumb", !.new = Fresh("member")]
  <2>3. q.pc = "thumb" /\ q.new = Fresh("member") /\ q.mine = sub[t].mine
    BY <1>0 DEF Subs
  <2>4. \A u \in Tab : sub'[u] = q
    <3>1. sub' = [sub EXCEPT ![t] = q]
      BY <1>2 DEF StoreDisplay
    <3> HIDE DEF q
    <3> QED
      BY <1>b, <3>1
  <2> HIDE DEF q
  <2> QED
    BY <1>0, <2>1, <2>2, <2>3, <2>4 DEF CandidacyThere, OnItsWay
<1>3. ASSUME NEW t \in Tab, StoreThumb(t) PROVE CandidacyThere' /\ \A u \in Tab : OnItsWay(sub[u])'
  <2>1. sub[t].pc = "thumb" /\ sub[t].new # None /\ sub[t].new # candidacy.photo /\ UNCHANGED candidacy
        /\ <<sub[t].new, "photo">> \in files /\ sub[t].new # sub[t].mine.photo
    BY <1>0, <1>3 DEF StoreThumb, SubAt, OnItsWay, SubCarries
  <2>2. CASE files' = files \cup {<<sub[t].new, "thumb">>} /\ sub' = [sub EXCEPT ![t].pc = "submit"]
    <3> DEFINE q == [sub[t] EXCEPT !.pc = "submit"]
    <3>1. q.pc = "submit" /\ q.new = sub[t].new /\ q.mine = sub[t].mine
      BY <1>0 DEF Subs
    <3>2. \A u \in Tab : sub'[u] = q
      BY <1>b, <2>2
    <3> HIDE DEF q
    <3> QED
      BY <1>0, <2>1, <2>2, <3>1, <3>2 DEF CandidacyThere, OnItsWay, Copies
  <2>3. CASE files' = files \ {<<sub[t].new, "photo">>} /\ sub' = [sub EXCEPT ![t] = NoSub]
    <3>1. \A u \in Tab : sub'[u] = NoSub
      BY <1>b, <2>3
    <3> QED
      BY <1>0, <2>1, <2>3, <3>1, NothingTyped DEF CandidacyThere, OnItsWay, Copies
  <2> QED
    BY <1>3, <2>2, <2>3 DEF StoreThumb
<1>4. ASSUME NEW t \in Tab, SubmitReadExisting(t) PROVE CandidacyThere' /\ \A u \in Tab : OnItsWay(sub[u])'
  <2>1. PICK q : /\ sub' = [sub EXCEPT ![t] = q]
                 /\ \/ q = [sub[t] EXCEPT !.pc = "write", !.seen = candidacy]
                    \/ q = [sub[t] EXCEPT !.pc = "refused"]
    BY <1>4 DEF SubmitReadExisting
  <2>2. /\ (q.pc = "write" /\ q.seen = candidacy) \/ q.pc = "refused"
        /\ q.new = sub[t].new /\ q.mine = sub[t].mine
    BY <1>0, <2>1 DEF Subs
  <2>3. \A u \in Tab : sub'[u] = q
    BY <1>b, <2>1
  <2>4. UNCHANGED <<files, candidacy>> /\ sub[t].pc = "submit"
    BY <1>4 DEF SubmitReadExisting, SubAt
  <2> QED
    BY <1>0, <2>2, <2>3, <2>4 DEF CandidacyThere, OnItsWay
<1>5. ASSUME NEW t \in Tab, SubmitWrite(t) PROVE CandidacyThere' /\ \A u \in Tab : OnItsWay(sub[u])'
  <2>1. sub[t].pc = "write" /\ files' = files /\ OnItsWay(sub[t]) /\ SubCarries(sub[t], candidacy)
    BY <1>0, <1>5 DEF SubmitWrite, SubAt
  <2>2. PICK pc \in {"refused", "remove"} :
          /\ sub' = [sub EXCEPT ![t] = [sub[t] EXCEPT !.pc = pc]]
          /\ pc = "refused" => candidacy' = candidacy
          /\ pc = "remove" => candidacy'.photo = IF sub[t].new = None THEN sub[t].seen.photo ELSE sub[t].new
    BY <1>5 DEF SubmitWrite
  <2> DEFINE q == [sub[t] EXCEPT !.pc = pc]
  <2>3. q.pc = pc /\ q.new = sub[t].new /\ q.mine = sub[t].mine
    BY <1>0 DEF Subs
  <2>4. \A u \in Tab : sub'[u] = q
    BY <1>b, <2>2
  <2>5. CandidacyThere'
    BY <1>0, <2>1, <2>2 DEF CandidacyThere, OnItsWay, SubCarries
  <2> HIDE DEF q
  <2> QED
    BY <2>1, <2>2, <2>3, <2>4, <2>5 DEF OnItsWay
<1>6. ASSUME NEW t \in Tab, RemoveReplaced(t) \/ RemoveRefused(t)
      PROVE CandidacyThere' /\ \A u \in Tab : OnItsWay(sub[u])'
  <2>1. \A u \in Tab : sub'[u] = NoSub
    BY <1>b, <1>6 DEF RemoveReplaced, RemoveRefused
  <2>2. CandidacyThere'
    BY <1>0, <1>6 DEF RemoveReplaced, RemoveRefused, Replaced, SubAt, CandidacyThere, OnItsWay, Copies
  <2> QED
    BY <2>1, <2>2, NothingTyped DEF OnItsWay
<1>7. ASSUME NEW c \in Clerk, ClerkStep(c) PROVE CandidacyThere' /\ \A u \in Tab : OnItsWay(sub[u])'
  <2>1. /\ sub' = sub /\ candidacy'.photo = candidacy.photo
        /\ candidacy' # NoCandidacy => candidacy # NoCandidacy
        /\ \A n \in Names("member") \ {None} : Copies(n) \cap files \subseteq files'
    BY <1>0, <1>7, ClerksLeave
  <2>2. CandidacyThere'
    BY <1>0, <2>1 DEF CandidacyThere
  <2>3. ASSUME NEW t \in Tab PROVE OnItsWay(sub[t])'
    <3>1. sub[t].pc = "thumb" => sub[t].new # None
      BY <1>0 DEF SubCarries
    <3>2. sub[t].new \in Names("member") /\ OnItsWay(sub[t])
      BY <1>0 DEF SubOwned
    <3> QED
      BY <2>1, <3>1, <3>2 DEF OnItsWay, Copies
  <2> QED
    BY <2>2, <2>3
<1>8. CASE Stop
  BY <1>0, <1>8, NothingTyped DEF Stop, CandidacyThere, OnItsWay
<1>9. CASE UNCHANGED photoVars
  BY <1>0, <1>9 DEF photoVars, CandidacyThere, OnItsWay
<1>10. ASSUME NEW t \in Tab, SubmitStep(t) PROVE CandidacyThere' /\ \A u \in Tab : OnItsWay(sub[u])'
  BY <1>1, <1>2, <1>3, <1>4, <1>5, <1>6, <1>10 DEF SubmitStep
<1> QED
  BY <1>7, <1>8, <1>9, <1>10 DEF PhotosNext

-----------------------------------------------------------------------------
(* Photos: the entries of the ballot page *)

\* An elections admin who waits for the answer before sending again.
OneClerk == \A c, d \in Clerk : c = d

There(n) == n = None \/ <<n, "photo">> \in files

\* The photograph on its way to a row is there, and the one to be removed is the row's
\* until the row is written, and not after.
InHand(q) ==
  /\ q.pc \in {"create", "read", "update"} => There(q.photo)
  /\ q.pc = "update" => q.old = rows[q.row].photo
  /\ q.pc = "drop" => rows[q.row].photo = None \/ rows[q.row].photo # q.old

EntriesThere == \A r \in TypedRow : There(rows[r].photo)

EntriesInv == PhotosOwned /\ EntriesThere /\ \A c \in Clerk : InHand(req[c])

\* A member's submission leaves the files of the entries.
LEMMA SubsLeave ==
  ASSUME PhotosOwned, NEW t \in Tab, SubmitStep(t)
  PROVE  /\ req' = req /\ rows' = rows
         /\ \A r \in TypedRow : \A n \in Names(r) : There(n) => There(n)'
<1>0. PhotosTypeOK /\ SubOwned(sub[t]) /\ \A r \in TypedRow : r # "member"
  BY RowAssumption DEF PhotosOwned, PhotosTypes, Owned, TypedRow
<1>1. req' = req /\ rows' = rows
  BY DEF SubmitStep, SubmitReadMine, StoreDisplay, StoreThumb, SubmitReadExisting, SubmitWrite,
         RemoveReplaced, RemoveRefused
<1>2. \E m \in Names("member") : files \ Copies(m) \subseteq files'
  <2>1. None \in Names("member")
    BY DEF Names
  <2> QED
    BY <1>0, <2>1 DEF SubmitStep, SubmitReadMine, StoreDisplay, StoreThumb, SubmitReadExisting,
         SubmitWrite, RemoveReplaced, RemoveRefused, Replaced, SubOwned, Copies
<1>3. ASSUME NEW r \in TypedRow, NEW n \in Names(r), There(n) PROVE There(n)'
  <2>1. PICK m \in Names("member") : files \ Copies(m) \subseteq files'
    BY <1>2
  <2>2. n = m => n = None
    BY <1>0, NamesOfOthers
  <2> QED
    BY <1>3, <2>1, <2>2 DEF There, Copies
<1> QED
  BY <1>1, <1>3

LEMMA EntriesInit == PhotosInit => EntriesInv
<1> SUFFICES ASSUME PhotosInit PROVE EntriesInv
  OBVIOUS
<1>1. PhotosOwned
  BY PhotosTypesInit, OwnedInit DEF PhotosOwned
<1> QED
  BY <1>1, NothingTyped DEF PhotosInit, EntriesInv, EntriesThere, InHand, There, TypedRow

LEMMA EntriesStep ==
  ASSUME OneClerk, PlaceIsLeft, EntriesInv, [PhotosNext]_photoVars
  PROVE  EntriesInv'
<1>0. /\ PhotosTypes /\ PhotosOwned /\ EntriesThere /\ PhotosTypeOK /\ Typed \subseteq TypedRow
      /\ \A c \in Clerk : req[c] \in Reqs /\ InHand(req[c]) /\ ReqOwned(req[c])
      /\ \A r \in TypedRow : /\ rows[r] \in [here : BOOLEAN, photo : NameOrNone]
                             /\ rows[r].photo \in Names(r) /\ (rows[r].here \/ rows[r].photo = None)
  BY RowAssumption
  DEF EntriesInv, PhotosOwned, PhotosTypes, PhotosTypeOK, Reqs, Owned, PlaceIsLeft, TypedRow
<1>a. PhotosOwned'
  BY <1>0, PhotosTypesStep, OwnedStep DEF PhotosOwned
<1> SUFFICES EntriesThere' /\ \A c \in Clerk : InHand(req[c])'
  BY <1>a DEF EntriesInv
\* The one request moves on; what it becomes is q.
<1>b. ASSUME NEW c \in Clerk, NEW q, req' = [req EXCEPT ![c] = q]
      PROVE  \A d \in Clerk : req'[d] = q
  BY <1>b, <1>0 DEF OneClerk, PhotosTypeOK
<1>1. ASSUME NEW c \in Clerk, AcceptRead(c) PROVE EntriesThere' /\ \A d \in Clerk : InHand(req[d])'
  <2> DEFINE q == [NoReq EXCEPT !.pc = "accept", !.photo = candidacy.photo]
  <2>1. q.pc = "accept"
    BY DEF NoReq
  <2>2. \A d \in Clerk : req'[d] = q
    BY <1>1, <1>b DEF AcceptRead
  <2> HIDE DEF q
  <2> QED
    BY <1>0, <1>1, <2>1, <2>2 DEF AcceptRead, EntriesThere, There, InHand
<1>2. ASSUME NEW c \in Clerk, AcceptWrite(c) PROVE EntriesThere' /\ \A d \in Clerk : InHand(req[d])'
  <2>1. \A d \in Clerk : req'[d] = NoReq
    BY <1>2, <1>b DEF AcceptWrite
  <2>2. files' = files /\ \A r \in TypedRow : rows'[r] = rows[r]
    BY <1>0, <1>2 DEF AcceptWrite, PhotosTypeOK, TypedRow
  <2> QED
    BY <1>0, <2>1, <2>2, NothingTyped DEF EntriesThere, There, InHand
<1>3. ASSUME NEW c \in Clerk, Return(c) PROVE EntriesThere' /\ \A d \in Clerk : InHand(req[d])'
  <2>1. \A d \in Clerk : req'[d].pc = "idle"
    BY <1>3 DEF Return, ReqAt, OneClerk
  <2>2. files' = files /\ \A r \in TypedRow : rows'[r] = rows[r]
    BY <1>0, <1>3 DEF Return, PhotosTypeOK, TypedRow
  <2> QED
    BY <1>0, <2>1, <2>2 DEF EntriesThere, There, InHand
<1>4. ASSUME NEW c \in Clerk, NEW r \in Typed, UploadPhoto(c, r)
      PROVE EntriesThere' /\ \A d \in Clerk : InHand(req[d])'
  BY <1>0, <1>4 DEF UploadPhoto, EntriesThere, There, InHand
<1>5. ASSUME NEW c \in Clerk, NEW r \in Typed, CreateStart(c, r) \/ UpdateStart(c, r)
      PROVE EntriesThere' /\ \A d \in Clerk : InHand(req[d])'
  <2>1. PICK n \in Sent(r), pc \in {"create", "read"} :
          /\ ValidPhoto(n)
          /\ req' = [req EXCEPT ![c] = [NoReq EXCEPT !.pc = pc, !.row = r, !.photo = n]]
    BY <1>5 DEF CreateStart, UpdateStart
  <2> DEFINE q == [NoReq EXCEPT !.pc = pc, !.row = r, !.photo = n]
  <2>2. q.pc = pc /\ q.photo = n
    BY DEF NoReq
  <2>3. \A d \in Clerk : req'[d] = q
    BY <1>b, <2>1
  <2>4. UNCHANGED <<files, rows>>
    BY <1>5 DEF CreateStart, UpdateStart
  <2> HIDE DEF q
  <2> QED
    BY <1>0, <2>1, <2>2, <2>3, <2>4 DEF EntriesThere, There, InHand, ValidPhoto
<1>6. ASSUME NEW c \in Clerk, CreateWrite(c) PROVE EntriesThere' /\ \A d \in Clerk : InHand(req[d])'
  <2>1. \A d \in Clerk : req'[d] = NoReq
    BY <1>6, <1>b DEF CreateWrite
  <2>2. files' = files /\ \A r \in TypedRow : rows'[r] = rows[r] \/ rows'[r].photo = req[c].photo
    BY <1>0, <1>6 DEF CreateWrite, PhotosTypeOK, TypedRow
  <2>3. There(req[c].photo)
    BY <1>0, <1>6 DEF CreateWrite, ReqAt, InHand
  <2> QED
    BY <1>0, <2>1, <2>2, <2>3, NothingTyped DEF EntriesThere, There, InHand
<1>7. ASSUME NEW c \in Clerk, UpdateReadOld(c) PROVE EntriesThere' /\ \A d \in Clerk : InHand(req[d])'
  <2> DEFINE q == [req[c] EXCEPT !.pc = "update", !.old = rows[req[c].row].photo]
  <2>1. q.pc = "update" /\ q.photo = req[c].photo /\ q.row = req[c].row /\ q.old = rows[req[c].row].photo
    BY <1>0 DEF Reqs
  <2>2. \A d \in Clerk : req'[d] = q
    <3>1. req' = [req EXCEPT ![c] = q]
      BY <1>7 DEF UpdateReadOld
    <3> HIDE DEF q
    <3> QED
      BY <1>b, <3>1
  <2>3. There(req[c].photo) /\ UNCHANGED <<files, rows>>
    BY <1>0, <1>7 DEF UpdateReadOld, ReqAt, InHand
  <2> HIDE DEF q
  <2> QED
    BY <1>0, <2>1, <2>2, <2>3 DEF EntriesThere, There, InHand
<1>8. ASSUME NEW c \in Clerk, UpdateWrite(c) PROVE EntriesThere' /\ \A d \in Clerk : InHand(req[d])'
  <2>1. /\ req[c].row \in TypedRow /\ There(req[c].photo) /\ files' = files
        /\ req[c].old = rows[req[c].row].photo
    BY <1>0, <1>8 DEF UpdateWrite, ReqAt, InHand, ReqOwned
  <2>2. \A r \in TypedRow : rows'[r].photo = IF r = req[c].row /\ rows[r].here THEN req[c].photo ELSE rows[r].photo
    BY <1>0, <1>8 DEF UpdateWrite, PhotosTypeOK, TypedRow
  <2>3. PICK q : /\ req' = [req EXCEPT ![c] = q]
                 /\ q = NoReq \/ (req[c].old \notin {None, req[c].photo} /\ q = [req[c] EXCEPT !.pc = "drop"])
    BY <1>8 DEF UpdateWrite
  <2>4. \A d \in Clerk : req'[d] = q
    BY <1>b, <2>3
  <2>5. EntriesThere'
    BY <1>0, <2>1, <2>2 DEF EntriesThere, There
  <2>6. q.pc = "idle" \/ /\ q.pc = "drop" /\ q.row = req[c].row /\ q.old = req[c].old
                         /\ req[c].old \notin {None, req[c].photo}
    BY <1>0, <2>3, NothingTyped DEF Reqs
  <2> QED
    BY <1>0, <2>1, <2>2, <2>4, <2>5, <2>6 DEF InHand
<1>9. ASSUME NEW c \in Clerk, NEW r \in Typed, DeleteStart(c, r)
      PROVE EntriesThere' /\ \A d \in Clerk : InHand(req[d])'
  <2> DEFINE q == [NoReq EXCEPT !.pc = "delete", !.row = r, !.old = rows[r].photo]
  <2>1. q.pc = "delete"
    BY DEF NoReq
  <2>2. \A d \in Clerk : req'[d] = q
    BY <1>9, <1>b DEF DeleteStart
  <2> HIDE DEF q
  <2> QED
    BY <1>0, <1>9, <2>1, <2>2 DEF DeleteStart, EntriesThere, There, InHand
<1>10. ASSUME NEW c \in Clerk, DeleteWrite(c) PROVE EntriesThere' /\ \A d \in Clerk : InHand(req[d])'
  <2> DEFINE q == [req[c] EXCEPT !.pc = "drop"]
  <2>1. q.pc = "drop" /\ q.row = req[c].row
    BY <1>0 DEF Reqs
  <2>2. \A d \in Clerk : req'[d] = q
    BY <1>10, <1>b DEF DeleteWrite
  <2>3. rows'[req[c].row].photo = None /\ files' = files
    BY <1>0, <1>10, NothingTyped DEF DeleteWrite, PhotosTypeOK, Reqs
  <2>4. \A r \in TypedRow : rows'[r] = rows[r] \/ rows'[r].photo = None
    BY <1>0, <1>10, NothingTyped DEF DeleteWrite, PhotosTypeOK, TypedRow
  <2> HIDE DEF q
  <2> QED
    BY <1>0, <2>1, <2>2, <2>3, <2>4 DEF EntriesThere, There, InHand
<1>11. ASSUME NEW c \in Clerk, Drop(c) PROVE EntriesThere' /\ \A d \in Clerk : InHand(req[d])'
  <2>1. \A d \in Clerk : req'[d] = NoReq
    BY <1>11, <1>b DEF Drop
  <2>2. /\ req[c].row \in TypedRow /\ req[c].old \in Names(req[c].row)
        /\ rows[req[c].row].photo = None \/ rows[req[c].row].photo # req[c].old
        /\ files' = files \ {<<req[c].old, "photo">>} /\ rows' = rows
    BY <1>0, <1>11 DEF Drop, ReqAt, InHand, ReqOwned
  <2>3. \A r \in TypedRow : rows[r].photo = None \/ rows[r].photo # req[c].old
    BY <1>0, <2>2, NamesOfOthers
  <2> QED
    BY <1>0, <2>1, <2>2, <2>3, NothingTyped DEF EntriesThere, There, InHand
<1>12. ASSUME NEW t \in Tab, SubmitStep(t) PROVE EntriesThere' /\ \A d \in Clerk : InHand(req[d])'
  <2>1. /\ req' = req /\ rows' = rows
        /\ \A r \in TypedRow : \A n \in Names(r) : There(n) => There(n)'
    BY <1>0, <1>12, SubsLeave
  <2>2. EntriesThere'
    BY <1>0, <2>1 DEF EntriesThere
  <2>3. ASSUME NEW c \in Clerk PROVE InHand(req[c])'
    BY <1>0, <2>1 DEF InHand, ReqOwned
  <2> QED
    BY <2>2, <2>3
<1>13. CASE Stop
  BY <1>0, <1>13, NothingTyped DEF Stop, EntriesThere, There, InHand
<1>14. CASE UNCHANGED photoVars
  BY <1>0, <1>14 DEF photoVars, EntriesThere, There, InHand
<1>15. ASSUME NEW c \in Clerk, ClerkStep(c) PROVE EntriesThere' /\ \A d \in Clerk : InHand(req[d])'
  BY <1>1, <1>2, <1>3, <1>4, <1>5, <1>6, <1>7, <1>8, <1>9, <1>10, <1>11, <1>15 DEF ClerkStep
<1> QED
  BY <1>12, <1>13, <1>14, <1>15 DEF PhotosNext

-----------------------------------------------------------------------------
(* Photos: the entry of the candidacy *)

\* What is written on the entry, and what an acceptance carries to it, is the candidacy's
\* photograph, but where a submission was written past it.
EntryNamed == rows[Place].here /\ Place \notin crossed => rows[Place].photo = candidacy.photo
Accepting == \A c \in Clerk : req[c].pc = "accept" /\ c \notin crossed => req[c].photo = candidacy.photo
EntryHere == rows[Place].here => candidacy # NoCandidacy

EntryInv == PhotosOwned /\ EntryNamed /\ Accepting /\ EntryHere

EntryThere ==
  rows[Place].here /\ Place \notin crossed =>
    rows[Place].photo = candidacy.photo /\ Copies(rows[Place].photo) \subseteq files

LEMMA EntryInit == PhotosInit => EntryInv
<1> SUFFICES ASSUME PhotosInit PROVE EntryInv
  OBVIOUS
<1>1. PhotosOwned
  BY PhotosTypesInit, OwnedInit DEF PhotosOwned
<1>2. rows[Place] = NoRow /\ \A c \in Clerk : req[c] = NoReq
  BY RowAssumption DEF PhotosInit
<1> QED
  BY <1>1, <1>2, NothingTyped DEF EntryInv, EntryNamed, Accepting, EntryHere, NoRow

LEMMA EntryStep ==
  ASSUME PlaceIsLeft, EntryInv, [PhotosNext]_photoVars
  PROVE  EntryInv'
<1> DEFINE Goal == (EntryNamed /\ Accepting /\ EntryHere)'
<1>0. /\ PhotosTypes /\ PhotosOwned /\ PhotosTypeOK /\ EntryNamed /\ Accepting /\ EntryHere
      /\ Place \in Row /\ Place \notin Clerk
      /\ candidacy \in Candidacies
      /\ \A c \in Clerk : /\ req[c] \in Reqs /\ ReqOwned(req[c])
                          /\ req[c].pc = "accept" => candidacy # NoCandidacy
  BY RowAssumption DEF EntryInv, PhotosOwned, PhotosTypes, PhotosTypeOK, Reqs, Owned
<1>a. PhotosOwned'
  BY <1>0, PhotosTypesStep, OwnedStep DEF PhotosOwned
<1>1. ASSUME UNCHANGED <<candidacy, crossed>>, rows'[Place] = rows[Place],
             \A c \in Clerk : req'[c].pc = "accept" =>
               \/ req'[c].photo = candidacy.photo
               \/ req[c].pc = "accept" /\ req'[c].photo = req[c].photo
      PROVE  Goal
  BY <1>0, <1>1 DEF EntryNamed, Accepting, EntryHere
<1>2. ASSUME NEW t \in Tab, SubmitStep(t) PROVE Goal
  <2>1. CASE SubmitReadMine(t) \/ StoreDisplay(t) \/ StoreThumb(t) \/ SubmitReadExisting(t)
             \/ RemoveReplaced(t) \/ RemoveRefused(t)
    BY <1>1, <2>1 DEF SubmitReadMine, StoreDisplay, StoreThumb, SubmitReadExisting, RemoveReplaced, RemoveRefused
  <2>2. CASE SubmitWrite(t)
    <3>1. UNCHANGED <<rows, req>>
      BY <2>2 DEF SubmitWrite
    <3>2. CASE UNCHANGED <<candidacy, crossed>>
      BY <1>1, <3>1, <3>2
    <3>3. CASE crossed' = crossed \cup Acceptances
      <4>1. /\ rows[Place].here => Place \in crossed'
            /\ \A c \in Clerk : req[c].pc = "accept" => c \in crossed'
        BY <3>3 DEF Acceptances, ReqAt
      <4>2. rows[Place].here => candidacy' # NoCandidacy
        BY <1>0, <1>a, <2>2, <3>3 DEF EntryHere, SubmitWrite, NoCandidacy
      <4> QED
        BY <3>1, <4>1, <4>2 DEF EntryNamed, Accepting, EntryHere
    <3> QED
      BY <2>2, <3>2, <3>3 DEF SubmitWrite
  <2> QED
    BY <1>2, <2>1, <2>2 DEF SubmitStep
<1>3. ASSUME NEW c \in Clerk, AcceptRead(c) PROVE Goal
  <2> DEFINE q == [NoReq EXCEPT !.pc = "accept", !.photo = candidacy.photo]
  <2>1. q.photo = candidacy.photo
    BY DEF NoReq
  <2>2. req' = [req EXCEPT ![c] = q] /\ UNCHANGED <<candidacy, crossed, rows>>
    BY <1>3 DEF AcceptRead
  <2> HIDE DEF q
  <2>3. \A d \in Clerk : req'[d] = IF d = c THEN q ELSE req[d]
    BY <1>0, <2>2 DEF PhotosTypeOK
  <2> QED
    BY <1>1, <2>1, <2>2, <2>3
<1>4. ASSUME NEW c \in Clerk, AcceptWrite(c) PROVE Goal
  <2>1. candidacy'.photo = candidacy.photo /\ candidacy' # NoCandidacy
    BY <1>0, <1>4, NothingTyped DEF AcceptWrite, ReqAt, Candidacies
  <2>2. rows'[Place].photo = req[c].photo
    BY <1>0, <1>4 DEF AcceptWrite, PhotosTypeOK
  <2>3. crossed' = (crossed \ {c, Place}) \cup (IF c \in crossed THEN {Place} ELSE {})
    BY <1>4 DEF AcceptWrite
  <2>4. req'[c].pc = "idle" /\ \A d \in Clerk \ {c} : req'[d] = req[d]
    BY <1>0, <1>4, NothingTyped DEF AcceptWrite, PhotosTypeOK
  <2>5. req[c].pc = "accept"
    BY <1>4 DEF AcceptWrite, ReqAt
  <2>6. EntryNamed'
    BY <1>0, <2>1, <2>2, <2>3, <2>5 DEF EntryNamed, Accepting
  <2>7. Accepting'
    BY <1>0, <2>1, <2>3, <2>4 DEF Accepting
  <2> QED
    BY <2>1, <2>6, <2>7 DEF EntryHere
<1>5. ASSUME NEW c \in Clerk, Return(c) PROVE Goal
  <2>1. candidacy'.photo = candidacy.photo /\ UNCHANGED req
    BY <1>0, <1>5 DEF Return, Candidacies
  <2>2. ~rows'[Place].here /\ crossed' = crossed \ {Place}
    BY <1>0, <1>5 DEF Return, PhotosTypeOK, NoRow
  <2> QED
    BY <1>0, <2>1, <2>2 DEF EntryNamed, Accepting, EntryHere
<1>6. ASSUME NEW c \in Clerk, NEW r \in Typed,
             UploadPhoto(c, r) \/ CreateStart(c, r) \/ UpdateStart(c, r) \/ DeleteStart(c, r)
      PROVE  Goal
  <2>1. PICK q : (req' = req \/ req' = [req EXCEPT ![c] = q]) /\ q.pc # "accept"
    <3>1. CASE UploadPhoto(c, r)
      BY <3>1, NothingTyped DEF UploadPhoto
    <3>2. CASE CreateStart(c, r) \/ UpdateStart(c, r)
      <4>1. PICK n \in Sent(r), pc \in {"create", "read"} :
              /\ ValidPhoto(n)
              /\ req' = [req EXCEPT ![c] = [NoReq EXCEPT !.pc = pc, !.row = r, !.photo = n]]
        BY <3>2 DEF CreateStart, UpdateStart
      <4>2. [NoReq EXCEPT !.pc = pc, !.row = r, !.photo = n].pc # "accept"
        BY DEF NoReq
      <4> QED
        BY <4>1, <4>2
    <3>3. CASE DeleteStart(c, r)
      <4>1. [NoReq EXCEPT !.pc = "delete", !.row = r, !.old = rows[r].photo].pc # "accept"
        BY DEF NoReq
      <4> QED
        BY <3>3, <4>1 DEF DeleteStart
    <3> QED
      BY <1>6, <3>1, <3>2, <3>3
  <2>2. \A d \in Clerk : req'[d].pc = "accept" => req'[d] = req[d]
    BY <1>0, <2>1 DEF PhotosTypeOK
  <2>3. UNCHANGED <<candidacy, crossed, rows>>
    BY <1>6 DEF UploadPhoto, CreateStart, UpdateStart, DeleteStart
  <2> QED
    BY <1>1, <2>2, <2>3
<1>7. ASSUME NEW c \in Clerk,
             CreateWrite(c) \/ UpdateReadOld(c) \/ UpdateWrite(c) \/ DeleteWrite(c) \/ Drop(c)
      PROVE  Goal
  <2>1. req[c].pc \in {"create", "read", "update", "delete", "drop"}
    BY <1>7 DEF CreateWrite, UpdateReadOld, UpdateWrite, DeleteWrite, Drop, ReqAt
  <2>2. req[c].row # Place
    BY <1>0, <2>1 DEF ReqOwned, TypedRow
  <2>3. UNCHANGED <<candidacy, crossed>> /\ rows'[Place] = rows[Place]
    BY <1>0, <1>7, <2>2 DEF CreateWrite, UpdateReadOld, UpdateWrite, DeleteWrite, Drop, PhotosTypeOK
  <2>4. PICK q : req' = [req EXCEPT ![c] = q] /\ q.pc # "accept"
    <3>1. CASE CreateWrite(c) \/ Drop(c)
      BY <3>1, NothingTyped DEF CreateWrite, Drop
    <3>2. CASE UpdateReadOld(c)
      <4>1. [req[c] EXCEPT !.pc = "update", !.old = rows[req[c].row].photo].pc # "accept"
        BY <1>0 DEF Reqs
      <4> QED
        BY <3>2, <4>1 DEF UpdateReadOld
    <3>3. CASE UpdateWrite(c)
      <4>1. [req[c] EXCEPT !.pc = "drop"].pc # "accept"
        BY <1>0 DEF Reqs
      <4> QED
        BY <3>3, <4>1, NothingTyped DEF UpdateWrite
    <3>4. CASE DeleteWrite(c)
      <4>1. [req[c] EXCEPT !.pc = "drop"].pc # "accept"
        BY <1>0 DEF Reqs
      <4> QED
        BY <3>4, <4>1 DEF DeleteWrite
    <3> QED
      BY <1>7, <3>1, <3>2, <3>3, <3>4
  <2>5. \A d \in Clerk : req'[d].pc = "accept" => req'[d] = req[d]
    BY <1>0, <2>4 DEF PhotosTypeOK
  <2> QED
    BY <1>1, <2>3, <2>5
<1>8. ASSUME Stop PROVE Goal
  BY <1>0, <1>8, NothingTyped DEF Stop, EntryNamed, Accepting, EntryHere
<1>9. ASSUME UNCHANGED photoVars PROVE Goal
  BY <1>1, <1>9 DEF photoVars
<1>10. ASSUME NEW c \in Clerk, ClerkStep(c) PROVE Goal
  BY <1>3, <1>4, <1>5, <1>6, <1>7, <1>10 DEF ClerkStep
<1> QED
  BY <1>2, <1>8, <1>9, <1>10, <1>a DEF PhotosNext, EntryInv

-----------------------------------------------------------------------------

\* handleSubmitCandidacy writes both copies before the row and removes what the row had
\* after it: while the member waits for the answer, both copies of the candidacy's photograph
\* are there, however many elections admins accept it, return it and edit the entries typed
\* in. Replacing the photograph of its own entry on the ballot page is what the assumption
\* leaves out: handleUpdateParticipant then removes the candidacy's file.
THEOREM PhotoOfTheCandidacy ==
  ASSUME OneTab, PlaceIsLeft PROVE PhotosSpec => []CandidacyThere
<1>1. CandidacyInv /\ [PhotosNext]_photoVars => CandidacyInv'
  BY CandidacyStep
<1>2. CandidacyInv => CandidacyThere
  BY DEF CandidacyInv
<1> QED
  BY <1>1, <1>2, CandidacyInit, PTL DEF PhotosSpec

\* handleUpdateParticipant and handleDeleteParticipant remove the photograph that the row
\* no longer names: while the elections admin waits for the answer, those of the entries
\* typed in are there, whatever the member sends meanwhile and however often.
THEOREM PhotosOfTheEntries ==
  ASSUME OneClerk, PlaceIsLeft PROVE PhotosSpec => []EntriesThere
<1>1. EntriesInv /\ [PhotosNext]_photoVars => EntriesInv'
  BY EntriesStep
<1>2. EntriesInv => EntriesThere
  BY DEF EntriesInv
<1> QED
  BY <1>1, <1>2, EntriesInit, PTL DEF PhotosSpec

\* AcceptCandidacy writes the photograph it read before its transaction: the entry names the
\* candidacy's, and both copies are there, unless a submission of the member was written
\* between the two, or over the entry. So for a member who waits for the answer, for any number
\* of elections admins at once, while the ballot page leaves this entry alone.
THEOREM EntryOfTheCandidacy ==
  ASSUME OneTab, PlaceIsLeft PROVE PhotosSpec => []EntryThere
<1>1. EntryInv /\ [PhotosNext]_photoVars => EntryInv'
  BY EntryStep
<1>2. EntryInv /\ CandidacyThere => EntryThere
  BY DEF EntryInv, EntryNamed, EntryHere, CandidacyThere, EntryThere
<1> QED
  BY <1>1, <1>2, EntryInit, PhotoOfTheCandidacy, PTL DEF PhotosSpec

\* The three together: what the run checks, for a member and an elections admin who do not
\* send again before the answer, and a ballot page that leaves the candidacy's entry alone.
THEOREM NoPhotoIsLost ==
  ASSUME OneTab, OneClerk, PlaceIsLeft PROVE PhotosSpec => []PhotosThere
<1>1. CandidacyThere /\ EntriesThere /\ EntryThere => PhotosThere
  BY DEF CandidacyThere, EntriesThere, EntryThere, There, TypedRow, PhotosThere
<1> QED
  BY <1>1, PhotoOfTheCandidacy, PhotosOfTheEntries, EntryOfTheCandidacy, PTL
=============================================================================
