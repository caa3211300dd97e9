-------------------------------- MODULE Photos --------------------------------
(***************************************************************************)
(* The photographs of candidates: files of random names in the uploads     *)
(* folder, and the rows that name them. A member sends one with a          *)
(* candidacy, in two copies, and the handler removes the one it replaces;  *)
(* accepting copies both names to the entry on the ballot; the ballot page *)
(* uploads and replaces photographs of entries typed in by hand.           *)
(*                                                                         *)
(* Row is the entries the ballot may have, Place the one of the candidacy. *)
(* A name is <<whose, number>>: names are drawn at random, so the number   *)
(* only counts them. Windows, roles and ages belong to Candidacy: here a   *)
(* submission may be refused whenever SubmitCandidacy looks at them.       *)
(***************************************************************************)
EXTENDS Naturals

CONSTANTS
  Tab,        \* submissions of one member that may be on their way at once
  Clerk,      \* requests of the elections admin that may be on their way at once
  Row, Place, \* entries of the ballot; the one that comes of the candidacy
  Typed,      \* the entries that the ballot page writes in this instance
  MaxNames,   \* bound on the names drawn for one owner
  MaxStops    \* bound on the stops of the process

ASSUME RowAssumption ==
  Place \in Row /\ Typed \subseteq Row /\ "member" \notin Row /\ Row \cap Clerk = {}
ASSUME PhotosBounds == MaxNames \in Nat /\ MaxStops \in Nat

VARIABLES
  files,      \* the copies on disk: <<name, "photo">> or <<name, "thumb">>
  drawn,      \* names drawn so far for each owner
  candidacy,  \* status and photograph of the member's candidacy
  rows,       \* the entries of the ballot and their photographs
  sub, req,   \* locals of each submission, of each request
  stops,
  crossed     \* did a submission cross an acceptance? It decides nothing.

photoVars == <<files, drawn, candidacy, rows, sub, req, stops, crossed>>

\* `^None^' is the empty photo column.
None == <<"none", 0>>
Owner == {"member"} \cup Row
Name == Owner \X (1 .. MaxNames)
NameOrNone == Name \cup {None}
Copies(n) == {<<n, "photo">>, <<n, "thumb">>}
NoCandidacy == [status |-> "none", photo |-> None]
NoRow == [here |-> FALSE, photo |-> None]
NoSub == [pc |-> "idle", mine |-> NoCandidacy, seen |-> NoCandidacy, new |-> None]
NoReq == [pc |-> "idle", row |-> Place, photo |-> None, old |-> None]

Candidacies == [status : {"none", "submitted", "accepted", "returned"}, photo : NameOrNone]

PhotosTypeOK ==
  /\ files \subseteq Name \X {"photo", "thumb"}
  /\ drawn \in [Owner -> 0 .. MaxNames]
  /\ candidacy \in Candidacies /\ (candidacy.photo = None <=> candidacy = NoCandidacy)
  /\ rows \in [Row -> [here : BOOLEAN, photo : NameOrNone]]
  /\ sub \in [Tab ->
       [pc : {"idle", "display", "thumb", "submit", "write", "refused", "remove"},
        mine : Candidacies, seen : Candidacies, new : NameOrNone]]
  /\ req \in [Clerk ->
       [pc : {"idle", "accept", "create", "read", "update", "delete", "drop"},
        row : Row, photo : NameOrNone, old : NameOrNone]]
  /\ stops \in 0 .. MaxStops /\ crossed \subseteq Clerk \cup {Place}

PhotosInit ==
  /\ files = {} /\ drawn = [o \in Owner |-> 0]
  /\ candidacy = NoCandidacy /\ rows = [r \in Row |-> NoRow]
  /\ sub = [t \in Tab |-> NoSub] /\ req = [c \in Clerk |-> NoReq]
  /\ stops = 0 /\ crossed = {}

SubAt(t, pc) == sub[t].pc = pc
ReqAt(c, pc) == req[c].pc = pc
Fresh(o) == <<o, drawn[o] + 1>>

-----------------------------------------------------------------------------
(* handleSubmitCandidacy *)

\* Without a photograph a first candidacy is refused. Fault: it is not.
MayGoOnAnyhow(sends) == sends \in BOOLEAN

MayGoOn(sends) == sends \/ candidacy # NoCandidacy

\* CandidacyForUser
SubmitReadMine(t) ==
  /\ SubAt(t, "idle")
  /\ \E sends \in BOOLEAN :
       /\ MayGoOn(sends)
       /\ sub' = [sub EXCEPT ![t] = [NoSub EXCEPT !.mine = candidacy,
                                                  !.pc = IF sends THEN "display" ELSE "submit"]]
  /\ UNCHANGED <<files, drawn, candidacy, rows, req, stops, crossed>>

StoreDisplay(t) ==
  /\ SubAt(t, "display") /\ drawn["member"] < MaxNames
  /\ drawn' = [drawn EXCEPT !["member"] = @ + 1]
  /\ files' = files \cup {<<Fresh("member"), "photo">>}
  /\ sub' = [sub EXCEPT ![t].pc = "thumb", ![t].new = Fresh("member")]
  /\ UNCHANGED <<candidacy, rows, req, stops, crossed>>

\* A thumbnail that cannot be written takes the display copy with it.
StoreThumb(t) ==
  /\ SubAt(t, "thumb")
  /\ \/ /\ files' = files \cup {<<sub[t].new, "thumb">>}
        /\ sub' = [sub EXCEPT ![t].pc = "submit"]
     \/ /\ files' = files \ {<<sub[t].new, "photo">>}
        /\ sub' = [sub EXCEPT ![t] = NoSub]
  /\ UNCHANGED <<drawn, candidacy, rows, req, stops, crossed>>

\* SubmitCandidacy up to its reading of the row: the window, the role or the age may refuse.
SubmitReadExisting(t) ==
  /\ SubAt(t, "submit")
  /\ \/ /\ candidacy.status # "accepted"
        /\ sub' = [sub EXCEPT ![t].pc = "write", ![t].seen = candidacy]
     \/ sub' = [sub EXCEPT ![t].pc = "refused"]
  /\ UNCHANGED <<files, drawn, candidacy, rows, req, stops, crossed>>

\* What goes at the end: the photograph that was the candidacy's when the request came.
\* Fault: also when none was sent.
ReplacedUnasked(t) == IF sub[t].mine.photo # None THEN Copies(sub[t].mine.photo) ELSE {}

Replaced(t) ==
  IF sub[t].new # None /\ sub[t].mine.photo # None THEN Copies(sub[t].mine.photo) ELSE {}

\* What a submission crosses when it is written: the acceptances on their way, and the
\* one that put the entry on the ballot since the submission read the candidacy.
Acceptances ==
  {c \in Clerk : ReqAt(c, "accept")} \cup (IF rows[Place].here THEN {Place} ELSE {})

\* INSERT, which the unique user_id may refuse, or UPDATE by id: the row keeps the
\* photograph read when none was sent, whatever became of it since.
SubmitWrite(t) ==
  /\ SubAt(t, "write")
  /\ IF sub[t].seen = NoCandidacy /\ candidacy # NoCandidacy
     THEN candidacy' = candidacy /\ sub' = [sub EXCEPT ![t].pc = "refused"] /\ crossed' = crossed
     ELSE /\ candidacy' = [status |-> "submitted",
                           photo |-> IF sub[t].new = None THEN sub[t].seen.photo ELSE sub[t].new]
          /\ sub' = [sub EXCEPT ![t].pc = "remove"]
          /\ crossed' = crossed \cup Acceptances
  /\ UNCHANGED <<files, drawn, rows, req, stops>>

RemoveReplaced(t) ==
  /\ SubAt(t, "remove")
  /\ files' = files \ Replaced(t)
  /\ sub' = [sub EXCEPT ![t] = NoSub]
  /\ UNCHANGED <<drawn, candidacy, rows, req, stops, crossed>>

RemoveRefused(t) ==
  /\ SubAt(t, "refused")
  /\ files' = files \ Copies(sub[t].new)
  /\ sub' = [sub EXCEPT ![t] = NoSub]
  /\ UNCHANGED <<drawn, candidacy, rows, req, stops, crossed>>

-----------------------------------------------------------------------------
(* The committee *)

\* AcceptCandidacy reads the candidacy, then writes its photograph to the entry.
AcceptRead(c) ==
  /\ ReqAt(c, "idle") /\ candidacy.status \in {"submitted", "returned"}
  /\ req' = [req EXCEPT ![c] = [NoReq EXCEPT !.pc = "accept", !.photo = candidacy.photo]]
  /\ UNCHANGED <<files, drawn, candidacy, rows, sub, stops, crossed>>

AcceptWrite(c) ==
  /\ ReqAt(c, "accept")
  /\ candidacy' = [candidacy EXCEPT !.status = "accepted"]
  /\ rows' = [rows EXCEPT ![Place] = [here |-> TRUE, photo |-> req[c].photo]]
  /\ req' = [req EXCEPT ![c] = NoReq]
  /\ crossed' = (crossed \ {c, Place}) \cup (IF c \in crossed THEN {Place} ELSE {})
  /\ UNCHANGED <<files, drawn, sub, stops>>

\* ReturnCandidacy: the entry goes, the photograph stays with the candidacy.
Return(c) ==
  /\ ReqAt(c, "idle") /\ candidacy # NoCandidacy
  /\ candidacy' = [candidacy EXCEPT !.status = "returned"]
  /\ rows' = [rows EXCEPT ![Place] = NoRow]
  /\ crossed' = crossed \ {Place}
  /\ UNCHANGED <<files, drawn, sub, req, stops>>

-----------------------------------------------------------------------------
(* The ballot page. It sends a photograph it uploaded for this entry, now or long ago, *)
(* the one the entry had when the page was loaded, or none.                            *)

Sent(r) == {None, rows[r].photo} \cup {<<r, k>> : k \in 1 .. drawn[r]}

\* validatePhotoRef asks only that the file be there.
ValidPhoto(n) == n = None \/ <<n, "photo">> \in files

UploadPhoto(c, r) ==
  /\ ReqAt(c, "idle") /\ drawn[r] < MaxNames
  /\ drawn' = [drawn EXCEPT ![r] = @ + 1]
  /\ files' = files \cup {<<Fresh(r), "photo">>}
  /\ UNCHANGED <<candidacy, rows, sub, req, stops, crossed>>

CreateStart(c, r) ==
  /\ ReqAt(c, "idle") /\ r # Place /\ ~rows[r].here
  /\ \E n \in Sent(r) :
       /\ ValidPhoto(n)
       /\ req' = [req EXCEPT ![c] = [NoReq EXCEPT !.pc = "create", !.row = r, !.photo = n]]
  /\ UNCHANGED <<files, drawn, candidacy, rows, sub, stops, crossed>>

CreateWrite(c) ==
  /\ ReqAt(c, "create")
  /\ rows' = [rows EXCEPT ![req[c].row] = [here |-> TRUE, photo |-> req[c].photo]]
  /\ req' = [req EXCEPT ![c] = NoReq]
  /\ UNCHANGED <<files, drawn, candidacy, sub, stops, crossed>>

UpdateStart(c, r) ==
  /\ ReqAt(c, "idle") /\ rows[r].here
  /\ \E n \in Sent(r) :
       /\ ValidPhoto(n)
       /\ req' = [req EXCEPT ![c] = [NoReq EXCEPT !.pc = "read", !.row = r, !.photo = n]]
  /\ UNCHANGED <<files, drawn, candidacy, rows, sub, stops, crossed>>

UpdateReadOld(c) ==
  /\ ReqAt(c, "read")
  /\ req' = [req EXCEPT ![c].pc = "update", ![c].old = rows[req[c].row].photo]
  /\ UNCHANGED <<files, drawn, candidacy, rows, sub, stops, crossed>>

\* The UPDATE of a row that is gone changes nothing and is no error. The thumbnail of an
\* entry is not the page's to write.
UpdateWrite(c) ==
  /\ ReqAt(c, "update")
  /\ LET q == req[c] IN
       /\ rows' = IF rows[q.row].here THEN [rows EXCEPT ![q.row].photo = q.photo] ELSE rows
       /\ req' = [req EXCEPT ![c] = IF q.old \in {None, q.photo} THEN NoReq
                                    ELSE [q EXCEPT !.pc = "drop"]]
  /\ UNCHANGED <<files, drawn, candidacy, sub, stops, crossed>>

DeleteStart(c, r) ==
  /\ ReqAt(c, "idle") /\ rows[r].here
  /\ req' = [req EXCEPT ![c] = [NoReq EXCEPT !.pc = "delete", !.row = r, !.old = rows[r].photo]]
  /\ UNCHANGED <<files, drawn, candidacy, rows, sub, stops, crossed>>

DeleteWrite(c) ==
  /\ ReqAt(c, "delete")
  /\ rows' = [rows EXCEPT ![req[c].row] = NoRow]
  /\ req' = [req EXCEPT ![c].pc = "drop"]
  /\ UNCHANGED <<files, drawn, candidacy, sub, stops, crossed>>

\* removePhoto: the photograph, and never its thumbnail
Drop(c) ==
  /\ ReqAt(c, "drop")
  /\ files' = files \ {<<req[c].old, "photo">>}
  /\ req' = [req EXCEPT ![c] = NoReq]
  /\ UNCHANGED <<drawn, candidacy, rows, sub, stops, crossed>>

-----------------------------------------------------------------------------

Stop ==
  /\ stops < MaxStops /\ stops' = stops + 1
  /\ sub' = [t \in Tab |-> NoSub] /\ req' = [c \in Clerk |-> NoReq]
  /\ crossed' = crossed \ Clerk
  /\ UNCHANGED <<files, drawn, candidacy, rows>>

SubmitStep(t) ==
  \/ SubmitReadMine(t) \/ StoreDisplay(t) \/ StoreThumb(t) \/ SubmitReadExisting(t)
  \/ SubmitWrite(t) \/ RemoveReplaced(t) \/ RemoveRefused(t)

ClerkStep(c) ==
  \/ AcceptRead(c) \/ AcceptWrite(c) \/ Return(c)
  \/ CreateWrite(c) \/ UpdateReadOld(c) \/ UpdateWrite(c) \/ DeleteWrite(c) \/ Drop(c)
  \/ \E r \in Typed : UploadPhoto(c, r) \/ CreateStart(c, r) \/ UpdateStart(c, r) \/ DeleteStart(c, r)

PhotosNext == (\E t \in Tab : SubmitStep(t)) \/ (\E c \in Clerk : ClerkStep(c)) \/ Stop
PhotosSpec == PhotosInit /\ [][PhotosNext]_photoVars

-----------------------------------------------------------------------------
(* Properties *)

\* The photograph of a candidacy is there in both copies, and so is that of each entry typed
\* in, whatever is refused, replaced, deleted or broken off in between, and however old the
\* page that sends it. (handleSubmitCandidacy and handleUpdateParticipant remove files by a
\* name they read before the row was written.) The entry of the candidacy names the
\* candidacy's own photograph, unless a submission crossed the acceptance that wrote it: then
\* its file may be gone until the candidacy is accepted again or returned. It takes a member,
\* and an elections admin, who wait for the answer before sending again, and a ballot page
\* that leaves the entry of the candidacy alone: a photograph replaced there is the
\* candidacy's too.
PhotosThere ==
  /\ candidacy # NoCandidacy => Copies(candidacy.photo) \subseteq files
  /\ \A r \in Row \ {Place} : rows[r].photo = None \/ <<rows[r].photo, "photo">> \in files
  /\ rows[Place].here /\ Place \notin crossed =>
       rows[Place].photo = candidacy.photo /\ Copies(rows[Place].photo) \subseteq files
=============================================================================
