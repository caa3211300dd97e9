--------------------------------- MODULE Ages ---------------------------------
(***************************************************************************)
(* The age of a member, as the form (validate.go) and the candidacies      *)
(* reckon it: the difference of the years, less one if the day of the year *)
(* has not come. Days of the year from March on are numbered differently   *)
(* in leap years, so the two dates are not always compared as a calendar   *)
(* would. A date is a year and a day of that year, from 1.                 *)
(***************************************************************************)
EXTENDS Integers

CONSTANTS
  BirthYears, BirthDays,  \* the dates of birth of this instance
  FirstYear, LastYear     \* the years through which they are watched

\* Between the century years that are no leap years.
ASSUME AgesAssumption ==
  /\ BirthYears \subseteq 1901 .. FirstYear /\ BirthDays \subseteq 1 .. 366
  /\ FirstYear \in 1901 .. LastYear /\ LastYear \in 1901 .. 2098

VARIABLES birth, today

agesVars == <<birth, today>>

Leap(y) == y % 4 = 0
DaysIn(y) == IF Leap(y) THEN 366 ELSE 365
NextDay(t) == IF t.day < DaysIn(t.year) THEN [t EXCEPT !.day = @ + 1]
              ELSE [year |-> t.year + 1, day |-> 1]
DayBefore(t) == IF t.day > 1 THEN [t EXCEPT !.day = @ - 1]
                ELSE [year |-> t.year - 1, day |-> DaysIn(t.year - 1)]

\* age, and CandidateAge likewise. Fault: the birthday itself does not count.
CandidateAgeStrict(b, t) == t.year - b.year - (IF t.day <= b.day THEN 1 ELSE 0)

CandidateAge(b, t) == t.year - b.year - (IF t.day < b.day THEN 1 ELSE 0)

AgesInit ==
  /\ birth \in {b \in [year : BirthYears, day : BirthDays] : b.day <= DaysIn(b.year)}
  /\ today = [year |-> FirstYear, day |-> 1]

Tomorrow == today.year <= LastYear /\ today' = NextDay(today) /\ UNCHANGED birth

AgesSpec == AgesInit /\ [][Tomorrow]_agesVars

-----------------------------------------------------------------------------
\* The reference: the place of a day in the calendar, whether or not its year has a 29th of
\* February (the 60th place), so that the same day and month are the same place every year.
Place366(t) == IF Leap(t.year) \/ t.day < 60 THEN t.day ELSE t.day + 1
AgeByCalendar(b, t) == t.year - b.year - (IF Place366(t) < Place366(b) THEN 1 ELSE 0)

\* The age the code reckons is the one of today, of yesterday or of tomorrow by the calendar:
\* whoever is admitted to the form, or to a post with a minimum age, is short of it by a day
\* at most, and nobody waits longer than a day past the birthday; and no age ever falls from
\* one day to the next. (CandidateAge, age.)
AgeWithinADay ==
  /\ CandidateAge(birth, today) \in {AgeByCalendar(birth, t) : t \in {DayBefore(today), today, NextDay(today)}}
  /\ CandidateAge(birth, NextDay(today)) >= CandidateAge(birth, today)
=============================================================================
