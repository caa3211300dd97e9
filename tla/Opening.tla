------------------------------- MODULE Opening --------------------------------
(***************************************************************************)
(* The start of the server over a data directory: Open applies the schema, *)
(* rebuilds the applications table, adds the columns that came later and   *)
(* installs the defaults, statement by statement; then main imports the    *)
(* member list. The process may stop between any two statements, and the   *)
(* container is started again over whatever they left.                     *)
(*                                                                         *)
(* A table is present or not, with those of its later columns it has. Rows *)
(* are kept for applications and members only: settings and form fields    *)
(* are what one key holds. What requests write while the server runs is in *)
(* the other modules: here it is found in the file of an earlier release.  *)
(***************************************************************************)
EXTENDS Naturals, FiniteSets, Sequences

CONSTANTS
  Release,      \* the databases earlier releases left: see ReleaseType
  Setting,      \* keys of settings, and of form fields, that have a default
  MaxStops      \* bound on the stops of the process

\* The tables, in the order of the schema.
Tables == <<"settings", "admins", "form_fields", "applications", "users", "candidacies",
            "sessions", "roles", "participants", "ballots", "votes", "audit_log">>
TableName == {Tables[i] : i \in DOMAIN Tables}

\* migrate: the columns that were introduced later, in the order it adds them.
Additions == <<<<"users", "meeting_no">>, <<"applications", "meeting_no">>, <<"users", "status">>,
               <<"users", "status_note">>, <<"users", "status_at">>,
               <<"participants", "candidacy_id">>, <<"participants", "thumb">>,
               <<"participants", "created_at">>, <<"roles", "min_age">>>>
Column == {Additions[i] : i \in DOMAIN Additions}

\* The three statuses of the first releases, and the five of the schema.
NarrowStatus == {"pending", "approved", "rejected"}
WideStatus == NarrowStatus \cup {"suspended", "cancelled"}

\* A database file: its tables, their later columns, whether the CHECK of applications
\* names five statuses, and its rows.
ReleaseType ==
  [tables : SUBSET TableName, columns : SUBSET Column, wide : BOOLEAN,
   apps : SUBSET WideStatus, members : BOOLEAN]

ASSUME ReleaseAssumption ==
  /\ Release \subseteq ReleaseType
  /\ \A r \in Release : \A c \in r.columns : c[1] \in r.tables
ASSUME StopsAssumption == MaxStops \in Nat

VARIABLES
  tables, columns, wide, \* the layout of the file
  apps,                  \* the statuses of the applications, one row of each
  members,               \* is there a row of users?
  setting,               \* what each key holds
  fk,                    \* PRAGMA foreign_keys of the one connection
  tx,                    \* what the open transaction would commit, or NoTx
  boot,                  \* where the start of the process is
  stops                  \* how often it has stopped

fileVars == <<tables, columns, wide, apps, members, setting>>
openingVars == <<fileVars, fk, tx, boot, stops>>

NoTx == [open |-> FALSE, copied |-> {}, dropped |-> FALSE]

Phases == {"off", "schema", "widen", "widen_copy", "widen_drop", "widen_commit", "add",
           "defaults", "seed", "bootstrap", "serving"}

OpeningTypeOK ==
  /\ tables \subseteq TableName /\ columns \subseteq Column /\ wide \in BOOLEAN
  /\ apps \subseteq WideStatus /\ members \in BOOLEAN
  /\ setting \in [Setting -> {"absent", "default", "edited"}]
  /\ fk \in BOOLEAN
  /\ tx \in [open : BOOLEAN, copied : SUBSET WideStatus, dropped : BOOLEAN]
  /\ boot \in [pc : Phases, step : 1 .. Len(Tables) + 1]
  /\ stops \in 0 .. MaxStops

\* In an old file every setting has been edited; a new one has none.
OpeningInit ==
  /\ \E r \in Release :
       /\ tables = r.tables /\ columns = r.columns /\ wide = r.wide
       /\ apps = r.apps /\ members = r.members
       /\ setting = [k \in Setting |-> IF "settings" \in r.tables THEN "edited" ELSE "absent"]
  /\ fk = FALSE /\ tx = NoTx /\ stops = 0
  /\ boot = [pc |-> "off", step |-> 1]

At(pc) == boot.pc = pc
GoTo(pc) == boot' = [pc |-> pc, step |-> 1]
Advance == boot' = [boot EXCEPT !.step = @ + 1]

-----------------------------------------------------------------------------
(* Open: connection, schema *)

\* sql.Open and Ping: foreign keys are on, by the address of the database.
Launch ==
  /\ At("off")
  /\ fk' = TRUE
  /\ GoTo("schema")
  /\ UNCHANGED <<fileVars, tx, stops>>

\* The columns an index of the schema is created on, among those that came later.
Indexed(t) == IF t = "participants" THEN {<<"participants", "candidacy_id">>} ELSE {}

ColumnsOf(t) == {c \in Column : c[1] = t}

\* CREATE TABLE IF NOT EXISTS, then its indexes.
CreateTable ==
  /\ At("schema") /\ boot.step \in DOMAIN Tables
  /\ LET t == Tables[boot.step]
     IN  /\ tables' = tables \cup {t}
         /\ columns' = columns \cup (IF t \in tables THEN {} ELSE ColumnsOf(t))
         /\ wide' = (wide \/ (t = "applications" /\ t \notin tables))
         /\ Indexed(t) \subseteq columns'
  /\ Advance
  /\ UNCHANGED <<apps, members, setting, fk, tx, stops>>

\* The schema fails: log.Fatalf. What came before it in the schema stays.
CreateIndexFails ==
  /\ At("schema") /\ boot.step \in DOMAIN Tables
  /\ LET t == Tables[boot.step] IN t \in tables /\ ~(Indexed(t) \subseteq columns)
  /\ GoTo("off") /\ fk' = FALSE
  /\ UNCHANGED <<fileVars, tx, stops>>

SchemaDone ==
  /\ At("schema") /\ boot.step \notin DOMAIN Tables
  /\ GoTo("widen")
  /\ UNCHANGED <<fileVars, fk, tx, stops>>

-----------------------------------------------------------------------------
(* migrate: widenApplicationStatus, one transaction with foreign keys off *)

WidenSkip ==
  /\ At("widen") /\ wide
  /\ GoTo("add")
  /\ UNCHANGED <<fileVars, fk, tx, stops>>

WidenBegin ==
  /\ At("widen") /\ ~wide
  /\ fk' = FALSE
  /\ tx' = [NoTx EXCEPT !.open = TRUE]
  /\ GoTo("widen_copy")
  /\ UNCHANGED <<fileVars, stops>>

\* INSERT INTO applications_new ... SELECT ..., meeting_no FROM applications
WidenCopy ==
  /\ At("widen_copy") /\ <<"applications", "meeting_no">> \in columns
  /\ tx' = [tx EXCEPT !.copied = apps]
  /\ GoTo("widen_drop")
  /\ UNCHANGED <<fileVars, fk, stops>>

\* No such column: rolled back, and log.Fatalf.
WidenCopyFails ==
  /\ At("widen_copy") /\ <<"applications", "meeting_no">> \notin columns
  /\ tx' = NoTx /\ fk' = FALSE
  /\ GoTo("off")
  /\ UNCHANGED <<fileVars, stops>>

\* Fault: outside the transaction.
WidenDropAtOnce ==
  /\ At("widen_drop")
  /\ tx' = [tx EXCEPT !.dropped = TRUE] /\ apps' = {}
  /\ GoTo("widen_commit")
  /\ UNCHANGED <<tables, columns, wide, members, setting, fk, stops>>

WidenDrop ==
  /\ At("widen_drop")
  /\ tx' = [tx EXCEPT !.dropped = TRUE]
  /\ GoTo("widen_commit")
  /\ UNCHANGED <<fileVars, fk, stops>>

\* Commit, then the deferred PRAGMA foreign_keys = ON.
WidenCommit ==
  /\ At("widen_commit")
  /\ apps' = tx.copied /\ wide' = TRUE
  /\ tx' = NoTx /\ fk' = TRUE
  /\ GoTo("add")
  /\ UNCHANGED <<tables, columns, members, setting, stops>>

-----------------------------------------------------------------------------
(* migrate: the additions; installDefaults; the import *)

\* Fault: stops at the first column that is there.
AddColumnUntilPresent ==
  /\ At("add") /\ boot.step \in DOMAIN Additions
  /\ IF Additions[boot.step] \in columns
     THEN UNCHANGED columns /\ GoTo("defaults")
     ELSE columns' = columns \cup {Additions[boot.step]} /\ Advance
  /\ UNCHANGED <<tables, wide, apps, members, setting, fk, tx, stops>>

\* Fault: ALTER TABLE without hasColumn, which fails where the column is there.
AddColumnBlindly ==
  /\ At("add") /\ boot.step \in DOMAIN Additions
  /\ IF Additions[boot.step] \in columns
     THEN UNCHANGED columns /\ GoTo("off") /\ fk' = FALSE
     ELSE columns' = columns \cup {Additions[boot.step]} /\ Advance /\ UNCHANGED fk
  /\ UNCHANGED <<tables, wide, apps, members, setting, tx, stops>>

\* hasColumn, then ALTER TABLE ADD COLUMN where it has not.
AddColumn ==
  /\ At("add") /\ boot.step \in DOMAIN Additions
  /\ columns' = columns \cup {Additions[boot.step]}
  /\ Advance
  /\ UNCHANGED <<tables, wide, apps, members, setting, fk, tx, stops>>

AddDone ==
  /\ At("add") /\ boot.step \notin DOMAIN Additions
  /\ GoTo("defaults")
  /\ UNCHANGED <<fileVars, fk, tx, stops>>

\* INSERT OR IGNORE, a key at a time: the settings in the order of a map, then the fields.
InstallDefault ==
  /\ At("defaults")
  /\ \E k \in Setting : setting[k] = "absent" /\ setting' = [setting EXCEPT ![k] = "default"]
  /\ UNCHANGED <<tables, columns, wide, apps, members, fk, tx, boot, stops>>

DefaultsDone ==
  /\ At("defaults") /\ \A k \in Setting : setting[k] # "absent"
  /\ GoTo("seed")
  /\ UNCHANGED <<fileVars, fk, tx, stops>>

\* SeedMembers, in one transaction, when users is empty.
Seed ==
  /\ At("seed")
  /\ members' = TRUE
  /\ GoTo("bootstrap")
  /\ UNCHANGED <<tables, columns, wide, apps, setting, fk, tx, stops>>

BootStep ==
  \/ Launch \/ CreateTable \/ CreateIndexFails \/ SchemaDone
  \/ WidenSkip \/ WidenBegin \/ WidenCopy \/ WidenCopyFails \/ WidenDrop \/ WidenCommit
  \/ AddColumn \/ AddDone \/ InstallDefault \/ DefaultsDone \/ Seed

-----------------------------------------------------------------------------

\* The process is killed, or told to stop: an open transaction is rolled back.
Stop ==
  /\ ~At("off") /\ stops < MaxStops
  /\ stops' = stops + 1
  /\ GoTo("off") /\ tx' = NoTx /\ fk' = FALSE
  /\ UNCHANGED fileVars

-----------------------------------------------------------------------------
(* Properties *)

\* Whatever release left the file, and wherever earlier starts were stopped, the server
\* serves only over the whole current layout, every default in place, the member list
\* imported and foreign keys enforced: without the last, deletions leave ballots behind.
ServingIsCurrent ==
  At("serving") =>
    /\ tables = TableName /\ columns = Column /\ wide
    /\ members
    /\ \A k \in Setting : setting[k] # "absent"
    /\ fk

\* No start, whole or cut short, loses a row of applications or of members or puts a
\* default over what an admin has written.
NothingLostByStarts ==
  [][/\ apps \subseteq apps' /\ (members => members')
     /\ tables \subseteq tables' /\ columns \subseteq columns'
     /\ \A k \in Setting : setting[k] = "edited" => setting'[k] = "edited"]_openingVars

\* A file this code can open: the index of participants and the copy of applications
\* each name a column that an old enough file lacks.
Openable ==
  /\ "participants" \in tables => Indexed("participants") \subseteq columns
  /\ "applications" \in tables /\ ~wide => <<"applications", "meeting_no">> \in columns

\* Whether a file can be opened was settled by the release that left it: no start, whole or
\* cut short, makes of one that can another that cannot, or the reverse. And over one that
\* can, no statement fails for what an earlier start has done: only a stop ends it.
StartsGoThrough ==
  [][/\ Openable <=> Openable'
     /\ Openable /\ ~At("off") /\ boot'.pc = "off" => stops' = stops + 1]_openingVars

\* From any file that can be opened at all the server comes to serve for good, however
\* starts were cut short: what one leaves half done never stands in the way of the next.
UpgradeCompletes == Openable => <>[]At("serving")

\* migrate's promise to "installations that are already running": any earlier release's
\* file comes to be served.
OldDatabasesOpen == <>At("serving")

=============================================================================
