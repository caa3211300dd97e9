--------------------------------- MODULE Form ---------------------------------
(***************************************************************************)
(* The questions of the membership form, which the admin edits while       *)
(* people fill it in, and the answers buildPerson takes from what a        *)
(* visitor (or the admin who corrects a member) sends. A question may      *)
(* hang on the answer to another: it applies only if that one was given    *)
(* the answer it waits for.                                                *)
(*                                                                         *)
(* Answers are "" (blank), "yes", "no" and "text", which stands for any    *)
(* other answer its question's validator takes. The order, the labels and  *)
(* the help of the questions are left out, and so are duplicates and the   *)
(* registration window, which belong to Membership.                        *)
(***************************************************************************)
EXTENDS Naturals, FiniteSets, Functions

CONSTANTS
  Core,       \* keys with a column of their own
  Locked,     \* those that are the credentials of a login
  YesNo,      \* those answered yes or no (volunteer, affiliated)
  DetailOf,   \* [detail key -> its yes-or-no key] (volunteer_field, affiliation)
  Custom,     \* keys an admin may add
  Visit       \* submissions that may be on their way at once

Detail == DOMAIN DetailOf
Key == Core \cup Custom

ASSUME FormAssumption ==
  /\ Locked \subseteq Core /\ YesNo \subseteq Core /\ Custom \cap Core = {}
  /\ "" \notin Key
  /\ DetailOf \in [Detail -> YesNo] /\ Detail \subseteq Core
  /\ (Locked \cap YesNo) \cup (Detail \cap (Locked \cup YesNo)) = {}

VARIABLES
  formFields, \* form_fields: [some keys -> Question]
  visit       \* locals of each submission, and after it the answers it stored

formVars == <<formFields, visit>>

Answer == {"", "yes", "no", "text"}
NoKey == ""
Question == [required : BOOLEAN, enabled : BOOLEAN, type : {"yesno", "other"},
             dependsOn : Key \cup {NoKey}, dependsVal : Answer]

\* What a page sends for a key: any answer of its kind, or none.
Sends(k) == CASE k \in YesNo -> {"", "yes", "no"}
              [] k \in Custom -> {"", "yes", "text"}
              [] OTHER -> {"", "text"}
Values == {v \in [Key -> Answer] : \A k \in Key : v[k] \in Sends(k)}

Blank == [k \in Key |-> ""]
NoVisit == [pc |-> "idle", admin |-> FALSE, answers |-> Blank, asked |-> {}]

FormTypeOK ==
  /\ Core \subseteq DOMAIN formFields /\ DOMAIN formFields \subseteq Key
  /\ \A k \in DOMAIN formFields : formFields[k] \in Question
  /\ \A v \in Visit : visit[v] \in
       [pc : {"idle", "sent", "taken", "stored"}, admin : BOOLEAN,
        answers : [Key -> Answer], asked : SUBSET Key]

\* defaultFields: details wait for a yes. (Of the core keys email alone is optional; it
\* stands for nothing here that a required key switched off by the admin does not.)
DefaultField(k) ==
  [required |-> TRUE, enabled |-> TRUE, type |-> IF k \in YesNo THEN "yesno" ELSE "other",
   dependsOn |-> IF k \in Detail THEN DetailOf[k] ELSE NoKey,
   dependsVal |-> IF k \in Detail THEN "yes" ELSE ""]

\* INSERT OR IGNORE of every core key.
InstallDefaultFields(fs) ==
  [k \in DOMAIN fs \cup Core |-> IF k \in DOMAIN fs THEN fs[k] ELSE DefaultField(k)]

FormInit ==
  /\ formFields = InstallDefaultFields([k \in {} |-> DefaultField(k)])
  /\ visit = [v \in Visit |-> NoVisit]

-----------------------------------------------------------------------------
(* buildPerson *)

\* Fields(onlyEnabled): the public form hides the disabled, the admin's does not.
Shown(fs, admin) == {k \in DOMAIN fs : admin \/ fs[k].enabled}

Answers(fs, admin, sent) == [k \in Key |-> IF k \in Shown(fs, admin) THEN sent[k] ELSE ""]

Applies(f, a) == f.dependsOn = NoKey \/ a[f.dependsOn] = f.dependsVal

\* Fault: only the core fields' own validators refuse a blank.
RefusesCoreOnly(k, f, a) ==
  \/ k \in Locked /\ a[k] = ""
  \/ k \in YesNo /\ a[k] \notin {"yes", "no"}
  \/ k \in Detail /\ a[DetailOf[k]] = "yes" /\ a[k] = ""

Refuses(k, f, a) ==
  \/ f.required /\ a[k] = "" /\ f.type # "yesno"
  \/ k \in Locked /\ a[k] = ""
  \/ k \in YesNo /\ a[k] \notin {"yes", "no"}
  \/ k \in Detail /\ a[DetailOf[k]] = "yes" /\ a[k] = ""

\* A detail is kept only beside a yes, whatever its question says it depends on.
Taken(fs, admin, a) == [k \in Key |->
  IF /\ k \in Shown(fs, admin) /\ Applies(fs[k], a)
     /\ k \in Detail => a[DetailOf[k]] = "yes"
  THEN a[k] ELSE ""]

BuildPerson(fs, admin, sent) ==
  LET a == Answers(fs, admin, sent)
      p == Taken(fs, admin, a)
  IN  [answers |-> p,
       ok |-> /\ \A k \in Shown(fs, admin) : Applies(fs[k], a) => ~Refuses(k, fs[k], a)
              /\ \A k \in Locked : p[k] # ""]

-----------------------------------------------------------------------------
(* handleRegister and handleUpdateMember: the request arrives with its values, reads the *)
(* form and takes the answers, then writes them.                                         *)

\* What a form asks of someone who sent these values: history, kept beside a submission.
Asked(fs, admin, sent) ==
  LET a == Answers(fs, admin, sent)
  IN  {k \in Shown(fs, admin) :
         /\ Applies(fs[k], a)
         /\ k \in Locked \cup YesNo \/ (fs[k].required /\ fs[k].type # "yesno")}

Arrives(v) ==
  /\ visit[v].pc \in {"idle", "stored"}
  /\ \E admin \in BOOLEAN, sent \in Values :
       visit' = [visit EXCEPT ![v] = [pc |-> "sent", admin |-> admin, answers |-> sent,
                                      asked |-> Asked(formFields, admin, sent)]]
  /\ UNCHANGED formFields

ReadForm(v) ==
  /\ visit[v].pc = "sent"
  /\ LET built == BuildPerson(formFields, visit[v].admin, visit[v].answers)
     IN  visit' = [visit EXCEPT ![v] =
                     IF built.ok THEN [@ EXCEPT !.pc = "taken", !.answers = built.answers] ELSE NoVisit]
  /\ UNCHANGED formFields

WriteAnswers(v) ==
  /\ visit[v].pc = "taken"
  /\ visit' = [visit EXCEPT ![v].pc = "stored"]
  /\ UNCHANGED formFields

-----------------------------------------------------------------------------
(* The form's admin. What UpdateField reads of the row it changes (locked, core, and     *)
(* the type and dependency of a core field) no request ever changes, so that its read    *)
(* and its write are one step.                                                           *)

\* A form that changed keeps asking only what it asked all along.
FormBecomes(fs) ==
  /\ formFields' = fs
  /\ visit' = [v \in Visit |->
       IF visit[v].pc = "sent"
       THEN [visit[v] EXCEPT !.asked = @ \cap Asked(fs, visit[v].admin, visit[v].answers)]
       ELSE visit[v]]

\* Edits of a key: the flags, its kind, and a yes that it is to wait for. An added field may
\* wait for a core one, and an edit may try to make a core field wait for an added one.
Edits(k) ==
  LET waits == IF k \in Core THEN Custom ELSE YesNo
  IN  [required : BOOLEAN, enabled : BOOLEAN, type : IF k \in Core THEN {"other"} ELSE {"yesno", "other"},
       dependsOn : {NoKey}, dependsVal : {""}]
      \cup
      [required : BOOLEAN, enabled : BOOLEAN, type : IF k \in Core THEN {"other"} ELSE {"yesno", "other"},
       dependsOn : waits, dependsVal : {"yes"}]

\* Fault: what an edit says of the dependency is written for a core field too.
UpdatedRewired(k, existing, f) ==
  [f EXCEPT !.enabled = @ \/ k \in Locked, !.required = @ \/ k \in Locked,
            !.type = IF k \in Core THEN existing.type ELSE @]

Updated(k, existing, f) ==
  [f EXCEPT !.enabled = @ \/ k \in Locked, !.required = @ \/ k \in Locked,
            !.type = IF k \in Core THEN existing.type ELSE @,
            !.dependsOn = IF k \in Core THEN existing.dependsOn ELSE @,
            !.dependsVal = IF k \in Core THEN existing.dependsVal ELSE @]

UpdateField == \E k \in DOMAIN formFields : \E f \in Edits(k) :
  FormBecomes([formFields EXCEPT ![k] = Updated(k, @, f)])

\* Refused for a reserved key and for one there is already.
AddField == \E k \in Custom \ DOMAIN formFields : \E f \in Edits(k) :
  FormBecomes([j \in DOMAIN formFields \cup {k} |-> IF j = k THEN f ELSE formFields[j]])

DeleteField == \E k \in DOMAIN formFields \ Core :
  FormBecomes(Restrict(formFields, DOMAIN formFields \ {k}))

\* A start installs the default fields again and drops the submissions on their way.
FormRestart ==
  /\ formFields' = InstallDefaultFields(formFields)
  /\ visit' = [v \in Visit |-> NoVisit]

FormNext ==
  \/ \E v \in Visit : Arrives(v) \/ ReadForm(v) \/ WriteAnswers(v)
  \/ UpdateField \/ AddField \/ DeleteField \/ FormRestart

FormSpec == FormInit /\ [][FormNext]_formVars

-----------------------------------------------------------------------------
\* However the questions are edited, some set of answers is taken by the public form: no
\* sequence of edits shuts everyone out. (UpdateField keeps the credentials on and the
\* core fields' dependencies as they are, and DeleteField keeps core fields; buildPerson
\* refuses whoever has no credentials.)
FormStaysOpen == \E sent \in Values : BuildPerson(formFields, FALSE, sent).ok

\* What is stored answers every question that was asked from the time the answers were
\* sent until they were taken, the form being edited meanwhile, and a detail is stored only
\* beside the yes it explains. (buildPerson, handleRegister, handleUpdateMember.)
StoredAnswersForm ==
  \A v \in Visit : visit[v].pc = "stored" =>
    /\ \A k \in visit[v].asked : visit[v].answers[k] # ""
    /\ \A k \in Detail : visit[v].answers[k] # "" => visit[v].answers[DetailOf[k]] = "yes"
=============================================================================
