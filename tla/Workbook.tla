------------------------------- MODULE Workbook -------------------------------
(***************************************************************************)
(* The two files that are replaced whole: the members workbook, rewritten  *)
(* by syncExport after every change of the members and by main at each     *)
(* start, and the print template, replaced by an upload. Each is written   *)
(* to one temporary path beside it, whoever writes, and renamed.           *)
(*                                                                         *)
(* The database is the number of changes made to the members and to the    *)
(* custom fields; a workbook is the pair of numbers it was built from, and *)
(* a template the number of its upload. A write begun and not finished     *)
(* leaves a file that is not whole. job[j] holds the locals of a request,  *)
(* and of main. A disk that refuses a write is not modelled.               *)
(***************************************************************************)
EXTENDS Naturals

CONSTANTS
  Desk,         \* pages of the membership admin
  Main,         \* the goroutine of main
  MaxChanges,   \* bound on the changes and uploads
  MaxKills      \* bound on the stops of the process

ASSUME DeskAssumption == Main \notin Desk
ASSUME WorkbookBounds == MaxChanges \in Nat /\ MaxKills \in Nat

VARIABLES
  members, fields,   \* the database
  uploads,           \* templates uploaded so far
  disk,              \* what each path holds
  up,                \* does the server listen?
  kills,
  job,               \* [Job -> locals]
  race               \* was the file last written by one alone? It decides nothing.

workbookVars == <<members, fields, uploads, disk, up, kills, job, race>>

Target == {"workbook", "template"}
Path == Target \X {"final", "tmp"}
Job == Desk \cup {Main}

Missing == [whole |-> FALSE, of |-> <<>>]
Begun == [whole |-> FALSE, of |-> <<0>>]
Mixed == [whole |-> FALSE, of |-> <<1>>]
Whole(of) == [whole |-> TRUE, of |-> of]

NoJob == [pc |-> "idle", target |-> "workbook", seen |-> <<>>]

Contents == ((0 .. MaxChanges) \X (0 .. MaxChanges)) \cup {<<n>> : n \in 1 .. MaxChanges}

WorkbookTypeOK ==
  /\ members \in 0 .. MaxChanges /\ fields \in 0 .. MaxChanges /\ uploads \in 0 .. MaxChanges
  /\ disk \in [Path -> {Missing, Begun, Mixed} \cup {Whole(c) : c \in Contents}]
  /\ up \in BOOLEAN /\ kills \in 0 .. MaxKills
  /\ job \in [Job ->
       [pc : {"idle", "users", "fields", "create", "write", "rename", "renamed"},
        target : Target, seen : {<<>>} \cup {<<n>> : n \in 0 .. MaxChanges} \cup Contents]]
  /\ race \in [Target -> {"no", "past", "now"}]

JobAt(j, pc) == job[j].pc = pc
Final(j) == <<job[j].target, "final">>
Tmp(j) == <<job[j].target, "tmp">>
Step(j, pc) == [job EXCEPT ![j].pc = pc]

\* Two at once on a file make it a race; the next that writes alone ends it.
Others(j, t) == \E i \in Job \ {j} : ~JobAt(i, "idle") /\ job[i].target = t
RaceBegins(j, t) == [race EXCEPT ![t] = IF Others(j, t) THEN "now" ELSE @]
RaceEnds(j, t) ==
  [race EXCEPT ![t] = IF Others(j, t) THEN @ ELSE IF @ = "now" THEN "past" ELSE "no"]

\* main exports before it listens.
Starting == [j \in Job |-> [NoJob EXCEPT !.pc = IF j = Main THEN "users" ELSE "idle"]]

WorkbookInit ==
  /\ members = 0 /\ fields = 0 /\ uploads = 0
  /\ disk = [p \in Path |-> Missing]
  /\ up = FALSE /\ kills = 0
  /\ job = Starting
  /\ race = [t \in Target |-> "no"]

-----------------------------------------------------------------------------
(* The requests *)

\* handleApprove, handleUpdateMember, handleDeleteMember, handleMemberStatus: the store
\* commits, then syncExport.
ChangeMembers(j) ==
  /\ up /\ JobAt(j, "idle") /\ members < MaxChanges
  /\ members' = members + 1
  /\ job' = Step(j, "users")
  /\ race' = RaceBegins(j, "workbook")
  /\ UNCHANGED <<fields, uploads, disk, up, kills>>

\* The form editor: the columns change, and nothing is exported.
ChangeFields(j) ==
  /\ up /\ JobAt(j, "idle") /\ fields < MaxChanges
  /\ fields' = fields + 1
  /\ UNCHANGED <<members, uploads, disk, up, kills, job, race>>

\* handleUploadTemplate, of a file that docxt.Validate accepts
UploadTemplate(j) ==
  /\ up /\ JobAt(j, "idle") /\ uploads < MaxChanges
  /\ uploads' = uploads + 1
  /\ job' = [job EXCEPT ![j] = [pc |-> "create", target |-> "template", seen |-> <<uploads'>>]]
  /\ race' = RaceBegins(j, "template")
  /\ UNCHANGED <<members, fields, disk, up, kills>>

\* handleDeleteTemplate
DeleteTemplate(j) ==
  /\ up /\ JobAt(j, "idle") /\ disk[<<"template", "final">>] # Missing
  /\ disk' = [disk EXCEPT ![<<"template", "final">>] = Missing]
  /\ job' = [i \in Job |-> IF JobAt(i, "renamed") /\ job[i].target = "template"
                           THEN [job[i] EXCEPT !.pc = "rename"] ELSE job[i]]
  /\ UNCHANGED <<members, fields, uploads, up, kills, race>>

-----------------------------------------------------------------------------
(* MembersSheet: two queries *)

ReadUsers(j) ==
  /\ JobAt(j, "users")
  /\ job' = [job EXCEPT ![j].pc = "fields", ![j].seen = <<members>>]
  /\ UNCHANGED <<members, fields, uploads, disk, up, kills, race>>

ReadFields(j) ==
  /\ JobAt(j, "fields")
  /\ job' = [job EXCEPT ![j].pc = "create", ![j].seen = <<@[1], fields>>]
  /\ UNCHANGED <<members, fields, uploads, disk, up, kills, race>>

-----------------------------------------------------------------------------
(* os.WriteFile to the temporary path, which is created or cut to nothing, then os.Rename *)

\* Fault: the file itself is written.
CreateInPlace(j) ==
  /\ JobAt(j, "create")
  /\ disk' = [disk EXCEPT ![Tmp(j)] = Begun, ![Final(j)] = Begun]
  /\ job' = Step(j, "write")
  /\ UNCHANGED <<members, fields, uploads, up, kills, race>>

Create(j) ==
  /\ JobAt(j, "create")
  /\ disk' = [disk EXCEPT ![Tmp(j)] = Begun]
  /\ job' = Step(j, "write")
  /\ UNCHANGED <<members, fields, uploads, up, kills, race>>

\* A file another has written since is overwritten from its start: of the longer the end
\* is left.
Written(j, there) ==
  {Whole(job[j].seen)} \cup (IF there \in {Begun, Whole(job[j].seen)} THEN {} ELSE {Mixed})

Write(j) ==
  /\ JobAt(j, "write")
  /\ \E c \in Written(j, disk[Tmp(j)]) : disk' = [disk EXCEPT ![Tmp(j)] = c]
  /\ job' = Step(j, "rename")
  /\ UNCHANGED <<members, fields, uploads, up, kills, race>>

\* The file was renamed by another request while it was open here: the final one is written.
WriteRenamed(j) ==
  /\ JobAt(j, "renamed")
  /\ \E c \in Written(j, disk[Final(j)]) : disk' = [disk EXCEPT ![Final(j)] = c]
  /\ job' = Step(j, "rename")
  /\ UNCHANGED <<members, fields, uploads, up, kills, race>>

\* Those who still have the temporary file open go on with it under its new name, and those
\* who had the one it replaces write to no name. A rename that finds no temporary file is
\* logged, and that is all.
Rename(j) ==
  /\ JobAt(j, "rename")
  /\ IF disk[Tmp(j)] = Missing
     THEN disk' = disk /\ job' = [job EXCEPT ![j] = NoJob]
     ELSE /\ disk' = [disk EXCEPT ![Final(j)] = disk[Tmp(j)], ![Tmp(j)] = Missing]
          /\ job' = [i \in Job |->
                       IF i = j THEN NoJob
                       ELSE IF job[i].target # job[j].target THEN job[i]
                       ELSE [job[i] EXCEPT !.pc = IF @ = "write" THEN "renamed"
                                                  ELSE IF @ = "renamed" THEN "rename" ELSE @]]
  /\ race' = RaceEnds(j, job[j].target)
  /\ up' = (up \/ j = Main)
  /\ UNCHANGED <<members, fields, uploads, kills>>

-----------------------------------------------------------------------------

Kill ==
  /\ kills < MaxKills /\ kills' = kills + 1
  /\ up' = FALSE /\ job' = Starting
  /\ race' = [t \in Target |-> IF race[t] = "now" THEN "past" ELSE race[t]]
  /\ UNCHANGED <<members, fields, uploads, disk>>

WorkbookNext ==
  \/ \E j \in Desk : ChangeMembers(j) \/ ChangeFields(j) \/ UploadTemplate(j) \/ DeleteTemplate(j)
  \/ \E j \in Job : ReadUsers(j) \/ ReadFields(j) \/ Create(j) \/ Write(j) \/ WriteRenamed(j) \/ Rename(j)
  \/ Kill

WorkbookSpec == WorkbookInit /\ [][WorkbookNext]_workbookVars

-----------------------------------------------------------------------------
(* Properties *)

\* "The file on the server always mirrors the database": as long as those who write a file
\* do so one after the other, whoever opens it finds a whole one or none, and the workbook
\* holds the members as they are whenever no request is changing them, also after a process
\* killed between the change and the export, or inside it. What two at once leave behind,
\* the next that writes alone puts right. (Columns of custom fields may be behind, since
\* the form editor exports nothing.)
WorkbookMirrors ==
  /\ \A t \in Target : race[t] = "no" => disk[<<t, "final">>] = Missing \/ disk[<<t, "final">>].whole
  /\ up /\ race["workbook"] = "no" /\ ~(\E j \in Job : ~JobAt(j, "idle") /\ job[j].target = "workbook")
       => /\ disk[<<"workbook", "final">>].whole
          /\ disk[<<"workbook", "final">>].of[1] = members

=============================================================================
