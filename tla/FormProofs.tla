------------------------------ MODULE FormProofs ------------------------------
(***************************************************************************)
(* The form can always be answered, and what is stored answers what was    *)
(* asked, for any questions, credentials, details and added keys and any   *)
(* number of submissions on their way. And the age that the code reckons   *)
(* from the form is right to the day, but for one, for any dates of birth  *)
(* and through any years between 1901 and 2099.                            *)
(***************************************************************************)
EXTENDS Form, Ages, TLAPS

-----------------------------------------------------------------------------
(* What no edit can do to the core questions: remove one, switch a credential off, or *)
(* make one wait for something other than it did by default.                          *)

Waits(k) == IF k \in Detail THEN DetailOf[k] ELSE NoKey

CoreKept(fs) ==
  /\ Core \subseteq DOMAIN fs /\ DOMAIN fs \subseteq Key
  /\ \A k \in DOMAIN fs : fs[k] \in Question
  /\ \A k \in Locked : fs[k].enabled
  /\ \A k \in Core : fs[k].dependsOn = Waits(k)
  /\ \A k \in Detail : fs[k].dependsVal = "yes"

Visits == [pc : {"idle", "sent", "taken", "stored"}, admin : BOOLEAN,
           answers : [Key -> Answer], asked : SUBSET Key]

\* What a submission in one of its steps may rely on, over the form fs.
VisitKept(fs, r) ==
  /\ r.pc = "sent" => r.asked \subseteq Asked(fs, r.admin, r.answers)
  /\ r.pc \in {"taken", "stored"} =>
       /\ \A k \in r.asked : r.answers[k] # ""
       /\ \A k \in Detail : r.answers[k] # "" => r.answers[DetailOf[k]] = "yes"

FormInv ==
  /\ CoreKept(formFields)
  /\ visit \in [Visit -> Visits]
  /\ \A v \in Visit : VisitKept(formFields, visit[v])

-----------------------------------------------------------------------------
(* buildPerson *)

\* Over a form whose core is kept, whoever answers every question with some text, and the
\* yes-or-no questions with no, is taken.
LEMMA SomeoneIsTaken ==
  ASSUME NEW fs, CoreKept(fs)
  PROVE  \E sent \in Values : BuildPerson(fs, FALSE, sent).ok
<1> USE FormAssumption
<1> DEFINE sent == [k \in Key |-> IF k \in YesNo THEN "no" ELSE "text"]
           a == Answers(fs, FALSE, sent)
           p == Taken(fs, FALSE, a)
<1>1. sent \in Values
  <2>1. sent \in [Key -> Answer]
    BY DEF Answer
  <2>2. \A k \in Key : sent[k] \in Sends(k)
    BY DEF Sends, Key
  <2> QED
    BY <2>1, <2>2 DEF Values
<1>2. \A k \in Shown(fs, FALSE) : k \in Key /\ a[k] = IF k \in YesNo THEN "no" ELSE "text"
  BY DEF CoreKept, Shown, Answers
<1>3. \A k \in Detail : a[DetailOf[k]] # "yes"
  <2>1. \A k \in Detail : DetailOf[k] \in Key
    BY DEF Key
  <2> QED
    BY <2>1 DEF Answers, Key
<1>4. \A k \in Shown(fs, FALSE) : ~Refuses(k, fs[k], a)
  BY <1>2, <1>3 DEF Refuses
<1>5. \A k \in Locked : p[k] # ""
  <2> SUFFICES ASSUME NEW k \in Locked PROVE p[k] # ""
    OBVIOUS
  <2>1. k \in Key /\ k \notin YesNo /\ k \notin Detail
    BY DEF Key
  <2>2. k \in Shown(fs, FALSE)
    BY <2>1 DEF CoreKept, Shown
  <2>3. Applies(fs[k], a)
    BY <2>1 DEF CoreKept, Waits, Applies
  <2> QED
    BY <1>2, <2>1, <2>2, <2>3 DEF Taken
<1>6. BuildPerson(fs, FALSE, sent).ok
  BY <1>4, <1>5 DEF BuildPerson
<1> QED
  BY <1>1, <1>6

\* What buildPerson takes answers what the form asked, and a detail is taken beside its yes
\* only.
LEMMA TakenAnswers ==
  ASSUME NEW fs, CoreKept(fs), NEW admin \in BOOLEAN, NEW sent \in [Key -> Answer],
         BuildPerson(fs, admin, sent).ok
  PROVE  LET p == BuildPerson(fs, admin, sent).answers
         IN  /\ p \in [Key -> Answer]
             /\ \A k \in Asked(fs, admin, sent) : p[k] # ""
             /\ \A k \in Detail : p[k] # "" => p[DetailOf[k]] = "yes"
<1> USE FormAssumption
<1> DEFINE a == Answers(fs, admin, sent)
           p == Taken(fs, admin, a)
<1>1. BuildPerson(fs, admin, sent).answers = p
  BY DEF BuildPerson
<1>2. \A k \in Shown(fs, admin) : Applies(fs[k], a) => ~Refuses(k, fs[k], a)
  BY DEF BuildPerson
<1>3. a \in [Key -> Answer]
  BY DEF Answers, Answer
<1>4. p \in [Key -> Answer]
  BY <1>3 DEF Taken, Answer
<1>5. \A k \in Asked(fs, admin, sent) : p[k] # ""
  <2> SUFFICES ASSUME NEW k \in Asked(fs, admin, sent) PROVE p[k] # ""
    OBVIOUS
  <2>1. /\ k \in Shown(fs, admin) /\ Applies(fs[k], a)
        /\ k \in Locked \cup YesNo \/ (fs[k].required /\ fs[k].type # "yesno")
    BY DEF Asked
  <2>2. k \in Key
    BY <2>1 DEF CoreKept, Shown
  <2>3. a[k] # ""
    BY <1>2, <2>1 DEF Refuses
  <2>4. k \in Detail => a[DetailOf[k]] = "yes"
    <3> SUFFICES ASSUME k \in Detail PROVE a[DetailOf[k]] = "yes"
      OBVIOUS
    <3>1. k \in Core /\ DetailOf[k] # NoKey
      BY DEF Key, NoKey
    <3> QED
      BY <2>1, <3>1 DEF CoreKept, Waits, Applies
  <2> QED
    BY <2>1, <2>2, <2>3, <2>4 DEF Taken
<1>6. \A k \in Detail : p[k] # "" => p[DetailOf[k]] = "yes"
  <2> SUFFICES ASSUME NEW k \in Detail, p[k] # "" PROVE p[DetailOf[k]] = "yes"
    OBVIOUS
  <2>1. k \in Key /\ DetailOf[k] \in Core /\ DetailOf[k] \in Key /\ DetailOf[k] \notin Detail
    BY DEF Key
  <2>2. a[DetailOf[k]] = "yes"
    BY <2>1 DEF Taken
  <2>3. DetailOf[k] \in Shown(fs, admin)
    BY <2>1, <2>2 DEF Answers
  <2>4. Applies(fs[DetailOf[k]], a)
    BY <2>1 DEF CoreKept, Waits, Applies
  <2> QED
    BY <2>1, <2>2, <2>3, <2>4 DEF Taken
<1> QED
  BY <1>1, <1>4, <1>5, <1>6

-----------------------------------------------------------------------------
(* Edits and starts *)

\* A form of the default questions alone, and one that a start completes, keep the core.
LEMMA DefaultsKeepCore ==
  ASSUME NEW fs, CoreKept(fs) \/ DOMAIN fs = {}
  PROVE  CoreKept(InstallDefaultFields(fs))
<1> USE FormAssumption
<1>1. \A k \in Core : DefaultField(k) \in Question
  BY DEF DefaultField, Question, Answer, Key
<1> QED
  BY <1>1 DEF CoreKept, InstallDefaultFields, DefaultField, Waits, Key

\* What UpdateField makes of a question is a question, and its core is kept.
LEMMA UpdatedIsKept ==
  ASSUME CoreKept(formFields), NEW k \in DOMAIN formFields, NEW f \in Edits(k)
  PROVE  LET g == Updated(k, formFields[k], f)
         IN  /\ g \in Question
             /\ k \in Locked => g.enabled
             /\ k \in Core => /\ g.dependsOn = formFields[k].dependsOn
                             /\ g.dependsVal = formFields[k].dependsVal
<1> USE FormAssumption
<1>1. f \in Question
  BY DEF Edits, Question, Answer, Key
<1>2. formFields[k] \in Question
  BY DEF CoreKept
<1> QED
  BY <1>1, <1>2 DEF Updated, Question

\* The statements of the form's admin keep the core.
LEMMA EditsKeepCore ==
  ASSUME CoreKept(formFields), UpdateField \/ AddField \/ DeleteField \/ FormRestart
  PROVE  CoreKept(formFields')
<1> USE FormAssumption
<1>1. CASE UpdateField
  <2>1. PICK k \in DOMAIN formFields : \E f \in Edits(k) :
          formFields' = [formFields EXCEPT ![k] = Updated(k, formFields[k], f)]
    BY <1>1 DEF UpdateField, FormBecomes
  <2>2. PICK f \in Edits(k) : formFields' = [formFields EXCEPT ![k] = Updated(k, formFields[k], f)]
    BY <2>1
  <2> DEFINE g == Updated(k, formFields[k], f)
  <2>3. /\ g \in Question
        /\ k \in Locked => g.enabled
        /\ k \in Core => g.dependsOn = formFields[k].dependsOn /\ g.dependsVal = formFields[k].dependsVal
    BY UpdatedIsKept
  <2> HIDE DEF g
  <2>4. DOMAIN formFields' = DOMAIN formFields
        /\ \A j \in DOMAIN formFields : formFields'[j] = IF j = k THEN g ELSE formFields[j]
    BY <2>2 DEF g
  <2> QED
    BY <2>3, <2>4 DEF CoreKept
<1>2. CASE AddField
  <2>1. PICK k \in Custom \ DOMAIN formFields : \E f \in Edits(k) :
          formFields' = [j \in DOMAIN formFields \cup {k} |-> IF j = k THEN f ELSE formFields[j]]
    BY <1>2 DEF AddField, FormBecomes
  <2>2. PICK f \in Edits(k) :
          formFields' = [j \in DOMAIN formFields \cup {k} |-> IF j = k THEN f ELSE formFields[j]]
    BY <2>1
  <2>3. f \in Question
    BY DEF Edits, Question, Answer, Key
  <2> QED
    BY <2>2, <2>3 DEF CoreKept, Key
<1>3. CASE DeleteField
  <2>1. PICK k \in DOMAIN formFields \ Core :
          formFields' = Restrict(formFields, DOMAIN formFields \ {k})
    BY <1>3 DEF DeleteField, FormBecomes
  <2>2. formFields' = [j \in DOMAIN formFields \ {k} |-> formFields[j]]
    BY <2>1 DEF Restrict
  <2> QED
    BY <2>2 DEF CoreKept
<1>4. CASE FormRestart
  BY <1>4, DefaultsKeepCore DEF FormRestart
<1> QED
  BY <1>1, <1>2, <1>3, <1>4

-----------------------------------------------------------------------------
(* The inductive invariant *)

LEMMA NoVisitKept == ASSUME NEW fs PROVE NoVisit \in Visits /\ VisitKept(fs, NoVisit)
  BY DEF NoVisit, Blank, VisitKept, Visits, Answer

\* A new file, and no submission on its way.
LEMMA FormInvInit == FormInit => FormInv
<1> SUFFICES ASSUME FormInit PROVE FormInv
  OBVIOUS
<1>1. CoreKept(formFields)
  BY DefaultsKeepCore DEF FormInit
<1>2. visit = [v \in Visit |-> NoVisit]
  BY DEF FormInit
<1> QED
  BY <1>1, <1>2, NoVisitKept DEF FormInv, Visits

\* A submission moves on over the form as it is.
LEMMA VisitMoves ==
  ASSUME FormInv, NEW v \in Visit, NEW r \in Visits, VisitKept(formFields, r),
         visit' = [visit EXCEPT ![v] = r], UNCHANGED formFields
  PROVE  FormInv'
  BY DEF FormInv, Visits

\* The form changes under the submissions on their way.
LEMMA FormChanges ==
  ASSUME FormInv, NEW fs, CoreKept(fs), FormBecomes(fs)
  PROVE  FormInv'
<1> SUFFICES ASSUME NEW v \in Visit PROVE visit'[v] \in Visits /\ VisitKept(fs, visit'[v])
  BY DEF FormInv, FormBecomes, Visits
<1>1. visit[v] \in Visits /\ VisitKept(formFields, visit[v])
  BY DEF FormInv, Visits
<1>2. CASE visit[v].pc = "sent"
  <2> DEFINE r == [visit[v] EXCEPT !.asked = @ \cap Asked(fs, visit[v].admin, visit[v].answers)]
  <2>1. visit'[v] = r
    BY <1>2 DEF FormBecomes
  <2>2. /\ r \in Visits /\ r.pc = "sent"
        /\ r.asked \subseteq Asked(fs, r.admin, r.answers)
    BY <1>1, <1>2 DEF Visits
  <2> QED
    BY <2>1, <2>2 DEF VisitKept, Visits
<1>3. CASE visit[v].pc # "sent"
  <2>1. visit'[v] = visit[v]
    BY <1>3 DEF FormBecomes
  <2> QED
    BY <1>1, <1>3, <2>1 DEF VisitKept
<1> QED
  BY <1>2, <1>3

\* Every step keeps it.
LEMMA FormInvStep == FormInv /\ [FormNext]_formVars => FormInv'
<1> SUFFICES ASSUME FormInv, [FormNext]_formVars PROVE FormInv'
  OBVIOUS
<1>0. CoreKept(formFields)
  BY DEF FormInv
<1>1. ASSUME NEW v \in Visit, Arrives(v) PROVE FormInv'
  <2>1. PICK admin \in BOOLEAN, sent \in Values :
          visit' = [visit EXCEPT ![v] = [pc |-> "sent", admin |-> admin, answers |-> sent,
                                         asked |-> Asked(formFields, admin, sent)]]
    BY <1>1 DEF Arrives
  <2> DEFINE r == [pc |-> "sent", admin |-> admin, answers |-> sent,
                   asked |-> Asked(formFields, admin, sent)]
  <2>2. Asked(formFields, admin, sent) \subseteq Key
    BY <1>0 DEF Asked, Shown, CoreKept
  <2>3. r \in Visits
    BY <2>2 DEF Visits, Values
  <2>4. VisitKept(formFields, r)
    BY <2>3 DEF VisitKept, Visits
  <2> QED
    BY <1>1, <2>1, <2>3, <2>4, VisitMoves DEF Arrives
<1>2. ASSUME NEW v \in Visit, ReadForm(v) PROVE FormInv'
  <2> DEFINE q == visit[v]
             built == BuildPerson(formFields, q.admin, q.answers)
             r == IF built.ok THEN [q EXCEPT !.pc = "taken", !.answers = built.answers] ELSE NoVisit
  <2>1. q \in Visits /\ q.pc = "sent" /\ VisitKept(formFields, q)
    BY <1>2 DEF ReadForm, FormInv, Visits
  <2>2. r \in Visits /\ VisitKept(formFields, r)
    <3>1. CASE built.ok
      <4>1. q.admin \in BOOLEAN /\ q.answers \in [Key -> Answer]
            /\ q.asked \subseteq Asked(formFields, q.admin, q.answers)
        BY <2>1 DEF VisitKept, Visits
      <4>2. /\ built.answers \in [Key -> Answer]
            /\ \A k \in Asked(formFields, q.admin, q.answers) : built.answers[k] # ""
            /\ \A k \in Detail : built.answers[k] # "" => built.answers[DetailOf[k]] = "yes"
        BY <1>0, <3>1, <4>1, TakenAnswers
      <4> HIDE DEF built
      <4>3. /\ r \in Visits /\ r.pc = "taken" /\ r.asked = q.asked
            /\ r.answers = built.answers
        BY <2>1, <3>1, <4>2 DEF Visits
      <4> HIDE DEF r
      <4> QED
        BY <4>1, <4>2, <4>3 DEF VisitKept, Visits
    <3>2. CASE ~built.ok
      BY <3>2, NoVisitKept
    <3> QED
      BY <3>1, <3>2
  <2>3. visit' = [visit EXCEPT ![v] = r] /\ UNCHANGED formFields
    BY <1>2 DEF ReadForm
  <2> HIDE DEF r
  <2> QED
    BY <2>2, <2>3, VisitMoves
<1>3. ASSUME NEW v \in Visit, WriteAnswers(v) PROVE FormInv'
  <2> DEFINE r == [visit[v] EXCEPT !.pc = "stored"]
  <2>1. visit[v] \in Visits /\ visit[v].pc = "taken" /\ VisitKept(formFields, visit[v])
    BY <1>3 DEF WriteAnswers, FormInv, Visits
  <2>2. r \in Visits /\ VisitKept(formFields, r)
    BY <2>1 DEF Visits, VisitKept
  <2>3. visit' = [visit EXCEPT ![v] = r] /\ UNCHANGED formFields
    BY <1>3 DEF WriteAnswers, FormInv
  <2> QED
    BY <2>2, <2>3, VisitMoves
<1>4. ASSUME UpdateField \/ AddField \/ DeleteField PROVE FormInv'
  <2>1. CoreKept(formFields')
    BY <1>0, <1>4, EditsKeepCore
  <2>2. FormBecomes(formFields')
    BY <1>4 DEF UpdateField, AddField, DeleteField, FormBecomes
  <2> QED
    BY <2>1, <2>2, FormChanges
<1>5. ASSUME FormRestart PROVE FormInv'
  <2>1. CoreKept(formFields')
    BY <1>0, <1>5, EditsKeepCore
  <2>2. visit' = [v \in Visit |-> NoVisit]
    BY <1>5 DEF FormRestart
  <2> QED
    BY <2>1, <2>2, NoVisitKept DEF FormInv, Visits
<1>6. ASSUME UNCHANGED formVars PROVE FormInv'
  BY <1>6 DEF FormInv, formVars
<1> QED
  BY <1>1, <1>2, <1>3, <1>4, <1>5, <1>6 DEF FormNext

LEMMA FormInvariant == FormSpec => []FormInv
  BY FormInvInit, FormInvStep, PTL DEF FormSpec

-----------------------------------------------------------------------------
(* Theorems *)

\* Whatever an admin does in the form editor, and however often the server starts, some
\* answers are taken by handleRegister: the form never shuts everyone out.
THEOREM FormNeverShuts == FormSpec => []FormStaysOpen
<1>1. FormInv => FormStaysOpen
  BY SomeoneIsTaken DEF FormInv, FormStaysOpen
<1> QED
  BY <1>1, FormInvariant, PTL

\* What handleRegister and handleUpdateMember store answers every question asked from the
\* time it was sent until it was taken, edits of the form notwithstanding, and has a detail
\* only beside its yes.
THEOREM StoredAnswersAreComplete == FormSpec => []StoredAnswersForm
<1>1. FormInv => StoredAnswersForm
  BY DEF FormInv, VisitKept, StoredAnswersForm
<1> QED
  BY <1>1, FormInvariant, PTL

\* The core questions stay, every question is one, and every submission keeps its type.
THEOREM FormTyped == FormSpec => []FormTypeOK
<1>1. FormInv => FormTypeOK
  BY DEF FormInv, CoreKept, FormTypeOK, Visits
<1> QED
  BY <1>1, FormInvariant, PTL

-----------------------------------------------------------------------------
(* Ages *)

\* A day there is: its year has it.
Dated(t) == t \in [year : Int, day : Int] /\ 1 <= t.day /\ t.day <= DaysIn(t.year)

AgesInv == Dated(birth) /\ Dated(today)

-----------------------------------------------------------------------------
(* The calendar *)

LEMMA NextDayDated == ASSUME NEW t, Dated(t) PROVE Dated(NextDay(t))
  BY DEF Dated, NextDay, DaysIn, Leap

\* The place of a day among 366 is the day, or one more after February.
LEMMA PlaceIsNear ==
  ASSUME NEW t, Dated(t)
  PROVE  /\ Place366(t) \in Int /\ Place366(t) \in {t.day, t.day + 1}
         /\ Place366(t) = t.day + 1 <=> ~Leap(t.year) /\ t.day >= 60
  BY DEF Dated, Place366, DaysIn

\* No age falls overnight.
LEMMA AgeNeverFalls ==
  ASSUME NEW b, Dated(b), NEW t, Dated(t)
  PROVE  CandidateAge(b, NextDay(t)) >= CandidateAge(b, t)
  BY DEF Dated, NextDay, CandidateAge, DaysIn

\* Today's age is the calendar's of yesterday, of today or of tomorrow.
LEMMA AgeIsNear ==
  ASSUME NEW b, Dated(b), NEW t, Dated(t)
  PROVE  CandidateAge(b, t) \in {AgeByCalendar(b, d) : d \in {DayBefore(t), t, NextDay(t)}}
<1>1. SUFFICES \/ CandidateAge(b, t) = AgeByCalendar(b, t)
               \/ CandidateAge(b, t) = AgeByCalendar(b, DayBefore(t))
               \/ CandidateAge(b, t) = AgeByCalendar(b, NextDay(t))
  OBVIOUS
<1>2. b.day \in Int /\ b.year \in Int /\ t.day \in Int /\ t.year \in Int
  BY DEF Dated
<1>3. CASE t.day < b.day
  <2>1. CASE Place366(t) < Place366(b)
    BY <1>2, <1>3, <2>1 DEF CandidateAge, AgeByCalendar
  <2>2. CASE ~(Place366(t) < Place366(b))
    <3>1. b.day = t.day + 1 /\ ~Leap(t.year) /\ t.day >= 60 /\ Leap(b.year)
      BY <1>2, <1>3, <2>2, PlaceIsNear
    <3>2. DayBefore(t) = [t EXCEPT !.day = @ - 1]
      BY <1>2, <3>1 DEF DayBefore
    <3>3. Place366(DayBefore(t)) < Place366(b) /\ DayBefore(t).year = t.year
      BY <1>2, <3>1, <3>2 DEF Place366, Dated
    <3> QED
      BY <1>2, <1>3, <3>3 DEF CandidateAge, AgeByCalendar
  <2> QED
    BY <2>1, <2>2
<1>4. CASE ~(t.day < b.day)
  <2>1. CASE ~(Place366(t) < Place366(b))
    BY <1>2, <1>4, <2>1 DEF CandidateAge, AgeByCalendar
  <2>2. CASE Place366(t) < Place366(b)
    <3>1. b.day = t.day /\ Leap(t.year) /\ t.day >= 60 /\ ~Leap(b.year)
      BY <1>2, <1>4, <2>2, PlaceIsNear
    <3>2. t.day < DaysIn(t.year)
      BY <1>2, <3>1 DEF Dated, DaysIn
    <3>3. NextDay(t) = [t EXCEPT !.day = @ + 1]
      BY <3>2 DEF NextDay
    <3>4. ~(Place366(NextDay(t)) < Place366(b)) /\ NextDay(t).year = t.year
      BY <1>2, <3>1, <3>3 DEF Place366, Dated
    <3> QED
      BY <1>2, <1>4, <3>4 DEF CandidateAge, AgeByCalendar
  <2> QED
    BY <2>1, <2>2
<1> QED
  BY <1>3, <1>4

-----------------------------------------------------------------------------

LEMMA AgesInvariant == AgesSpec => []AgesInv
<1>1. AgesInit => AgesInv
  <2> SUFFICES ASSUME AgesInit PROVE AgesInv
    OBVIOUS
  <2>1. Dated(birth)
    <3>1. birth \in [year : BirthYears, day : BirthDays] /\ birth.day <= DaysIn(birth.year)
      BY DEF AgesInit
    <3>2. FirstYear \in Int
      BY AgesAssumption
    <3>3. \A y \in BirthYears : y \in Int
      BY <3>2, AgesAssumption
    <3>4. \A d \in BirthDays : d \in Int /\ 1 <= d
      BY AgesAssumption
    <3> QED
      BY <3>1, <3>3, <3>4 DEF Dated
  <2>2. Dated(today)
    BY AgesAssumption DEF AgesInit, Dated, DaysIn
  <2> QED
    BY <2>1, <2>2 DEF AgesInv, Dated
<1>2. AgesInv /\ [Tomorrow]_agesVars => AgesInv'
  BY NextDayDated DEF AgesInv, Tomorrow, agesVars, Dated, DaysIn, Leap
<1> QED
  BY <1>1, <1>2, PTL DEF AgesSpec

\* Whoever the form or a post with a minimum age admits (age, CandidateAge) is short of it by
\* a day at most, nobody waits a day too long, and no age ever falls.
THEOREM AgesAreRightToTheDay == AgesSpec => []AgeWithinADay
<1>1. AgesInv => AgeWithinADay
  BY AgeIsNear, AgeNeverFalls DEF AgesInv, AgeWithinADay
<1> QED
  BY AgesInvariant, <1>1, PTL
=============================================================================
