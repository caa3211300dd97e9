\* Photos: one submission at a time beside one request of the elections admin. Workbook:
\* two membership admins at once. Form: one credential, a question with its detail, and one
\* added key. Limiter: an hour of four units. Template: two placeholders fit, over three
\* runs. Ages: births of four years, around the end of February and of the year. Connection:
\* every call of the store, three at once.
SPECIFICATION PartsSpec
CONSTANTS
  t1 = t1  a1 = a1  a2 = a2  p1 = p1  r1 = r1  v1 = v1  main = main
  Tab = {t1}  Clerk = {a1}
  Row = {p1, r1}  Place = p1  Typed = {r1}
  MaxNames = 2  MaxStops = 1
  Desk = {a1, a2}  Main = main
  MaxChanges = 2  MaxKills = 1
  Core = {"cpr", "volunteer", "volunteer_field"}
  Locked = {"cpr"}  YesNo = {"volunteer"}  DetailOf <- MCDetailOf
  Custom = {"extra"}  Visit = {v1}
  Caller = {"register", "login"}  Allowed <- MCAllowed  Window <- MCWindow  Hour = 4
  MaxRuns = 3  MaxLength = 6
  BirthYears = {1996, 1997, 1998, 1999}
  BirthDays = {1, 2, 58, 59, 60, 61, 62, 200, 364, 365, 366}
  Goroutine = {g1, g2, g3}  Free = free
  FirstYear = 2014  LastYear = 2017
INVARIANTS PartsTypeOK PhotosThere WorkbookMirrors FormStaysOpen StoredAnswersForm AtMostAllowed AgeWithinADay ConnectionComesBack
PROPERTIES FilledAsWritten
CHECK_DEADLOCK FALSE
