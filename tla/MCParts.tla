------------------------------- MODULE MCParts --------------------------------
(* Instances for TLC of the parts that stand beside the tables of votes and members. They *)
(* share no variable, so one run takes up one of them from its first state and leaves the *)
(* others where they are.                                                                 *)
EXTENDS Photos, Workbook, Form, Limiter, Template, Ages, Connection

CONSTANTS t1, a1, a2, p1, r1, v1, main

VARIABLE turn

partsVars == <<photoVars, workbookVars, formVars, limiterVars, templateVars, agesVars,
               connectionVars, turn>>

\* volunteer_field explains volunteer. Registering: an hour; signing in: a quarter of one.
MCDetailOf == [d \in {"volunteer_field"} |-> "volunteer"]
MCAllowed == [c \in {"register", "login"} |-> IF c = "register" THEN 3 ELSE 2]
MCWindow == [c \in {"register", "login"} |-> IF c = "register" THEN 4 ELSE 1]

PartsInit ==
  /\ turn \in {"photos", "workbook", "form", "limiter", "template", "ages", "connection"}
  /\ PhotosInit /\ WorkbookInit /\ FormInit /\ LimiterInit /\ ConnectionInit
  /\ IF turn = "template" THEN TemplateInit
     ELSE runs = [i \in 1 .. MaxRuns |-> <<>>] /\ filled = TRUE
  /\ IF turn = "ages" THEN AgesInit
     ELSE birth = [year |-> FirstYear, day |-> 1] /\ today = birth

PhotosTurn ==
  /\ turn = "photos" /\ PhotosNext
  /\ UNCHANGED <<workbookVars, formVars, limiterVars, templateVars, agesVars, connectionVars,
                 turn>>
WorkbookTurn ==
  /\ turn = "workbook" /\ WorkbookNext
  /\ UNCHANGED <<photoVars, formVars, limiterVars, templateVars, agesVars, connectionVars,
                 turn>>
FormTurn ==
  /\ turn = "form" /\ FormNext
  /\ UNCHANGED <<photoVars, workbookVars, limiterVars, templateVars, agesVars, connectionVars,
                 turn>>
LimiterTurn ==
  /\ turn = "limiter" /\ LimiterNext
  /\ UNCHANGED <<photoVars, workbookVars, formVars, templateVars, agesVars, connectionVars,
                 turn>>
TemplateTurn ==
  /\ turn = "template" /\ Fill
  /\ UNCHANGED <<photoVars, workbookVars, formVars, limiterVars, agesVars, connectionVars,
                 turn>>
AgesTurn ==
  /\ turn = "ages" /\ Tomorrow
  /\ UNCHANGED <<photoVars, workbookVars, formVars, limiterVars, templateVars, connectionVars,
                 turn>>
ConnectionTurn ==
  /\ turn = "connection" /\ ConnectionNext
  /\ UNCHANGED <<photoVars, workbookVars, formVars, limiterVars, templateVars, agesVars, turn>>

PartsSpec == PartsInit /\ [][PhotosTurn \/ WorkbookTurn \/ FormTurn \/ LimiterTurn
                              \/ TemplateTurn \/ AgesTurn \/ ConnectionTurn]_partsVars

\* The types of all. A candidacy has a photograph from the first on (the handler asks for
\* one where SubmitCandidacy does not), a path holds what some export or upload wrote, the
\* core questions stay on the form, and a bucket holds ages that the limiter can reckon with.
PartsTypeOK == PhotosTypeOK /\ WorkbookTypeOK /\ FormTypeOK /\ LimiterTypeOK /\ TemplateTypeOK
=============================================================================
