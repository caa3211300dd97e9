------------------------------ MODULE Connection ------------------------------
(***************************************************************************)
(* The one connection all goroutines share. database/sql holds a single    *)
(* connection, and no call waits for it with a deadline: a statement of    *)
(* its own takes it and gives it back, a query keeps it until its rows are *)
(* read to the end or closed, a transaction until it is committed or       *)
(* rolled back. A goroutine that asks for the connection while it keeps it *)
(* waits for itself, and with it every other request and the next start.   *)
(*                                                                         *)
(* A call of the store is the sequence of what it asks of the connection.  *)
(* What the statements say is in the modules of the tables.                *)
(***************************************************************************)
EXTENDS Sequences, SequencesExt

CONSTANTS
  Goroutine,  \* one for each request in hand, and the one that starts the program
  Free        \* nobody has the connection

ASSUME ConnectionAssumption == Free \notin Goroutine

VARIABLES
  conn,       \* who has the connection
  todo,       \* [Goroutine -> what its call has still to do]
  deferred    \* [Goroutine -> what its call has deferred, the last to run first]

connectionVars == <<conn, todo, deferred>>

-----------------------------------------------------------------------------
(* The calls *)

Statements(n) == [i \in 1 .. n |-> "statement"]
Transaction(n) == <<"begin">> \o [i \in 1 .. n |-> "inside"] \o <<"commit">>

\* Roles, Participants, Users, Applications, Candidacies, Fields, AllSettings, RecentAudit,
\* and hasColumn, which may return at the row it looked for.
List == <<"query", "rows">>

\* The members are counted with the rows of the applications' counts not yet closed, only read
\* to the end. Fault: they are counted as the rows are read.
CountsAmongRows == <<"query", "statement", "rows">>

Counts == List \o Statements(1)

\* The status, the member, whether he voted, the mode; the posts, a post's candidates; the votes.
CastBallot == Statements(4) \o List \o List \o Transaction(2)

ResetVotes == Statements(1) \o Transaction(2) \o Statements(1)

\* Audit has no transaction to write in: the trail is written when the transaction is over.
AcceptCandidacy == Statements(1) \o Transaction(3) \o Statements(1)

ReturnCandidacy == Statements(1) \o Transaction(3) \o Statements(1)

\* The gate, the candidacy, the post, the member.
ChangeCandidacyRole == Statements(4) \o Transaction(2) \o Statements(1)

\* The application, the four questions of CheckUnique; the trail, the new member.
ApproveApplication == Statements(5) \o Transaction(2) \o Statements(2)

DeleteUser == Statements(1) \o Transaction(5) \o Statements(1)

ReorderFields == Transaction(2)

SeedMembers == Statements(1) \o Transaction(2) \o Statements(1)

\* Foreign keys are turned on again by a deferred statement of its own, deferred before the
\* rollback and so run after it.
widenApplicationStatus == Statements(1) \o <<"foreign_keys_off">> \o Transaction(3)

Calls == {Statements(1), List, Counts, CastBallot, ResetVotes, AcceptCandidacy, ReturnCandidacy,
          ChangeCandidacyRole, ApproveApplication, DeleteUser, ReorderFields, SeedMembers,
          widenApplicationStatus}

-----------------------------------------------------------------------------
(* What a call does with the connection *)

Has(g, step) == todo[g] # <<>> /\ Head(todo[g]) = step

\* A step went well, or it failed or found what the call refuses: then the call is left.
GoOn(g) == todo' = [todo EXCEPT ![g] = Tail(@)]
Leave(g) == todo' = [todo EXCEPT ![g] = <<>>]
Defer(g, d) == deferred' = [deferred EXCEPT ![g] = Append(@, d)]

Call(g) ==
  /\ todo[g] = <<>> /\ deferred[g] = <<>>
  /\ \E call \in Calls : todo' = [todo EXCEPT ![g] = call]
  /\ UNCHANGED <<conn, deferred>>

\* Exec, and QueryRow with its Scan.
Statement(g) ==
  /\ Has(g, "statement") /\ conn = Free
  /\ GoOn(g) \/ Leave(g)
  /\ UNCHANGED <<conn, deferred>>

ForeignKeysOff(g) ==
  /\ Has(g, "foreign_keys_off") /\ conn = Free
  /\ \/ GoOn(g) /\ Defer(g, "statement")
     \/ Leave(g) /\ UNCHANGED deferred
  /\ UNCHANGED conn

\* Query and Begin keep the connection, and the call defers giving it back.
Keep(g, step, d) ==
  /\ Has(g, step) /\ conn = Free
  /\ \/ conn' = g /\ GoOn(g) /\ Defer(g, d)
     \/ Leave(g) /\ UNCHANGED <<conn, deferred>>

Query(g) == Keep(g, "query", "close")

Begin(g) == Keep(g, "begin", "rollback")

\* The rows: Next closes them when there are no more; a call that returns before does not.
Rows(g) ==
  /\ Has(g, "rows") /\ conn = g
  /\ \/ conn' = Free /\ GoOn(g)
     \/ Leave(g) /\ UNCHANGED conn
  /\ UNCHANGED deferred

Inside(g) ==
  /\ Has(g, "inside") /\ conn = g
  /\ GoOn(g) \/ Leave(g)
  /\ UNCHANGED <<conn, deferred>>

\* Commit gives the connection back whether it succeeds or not.
Commit(g) ==
  /\ Has(g, "commit") /\ conn = g
  /\ conn' = Free
  /\ GoOn(g) \/ Leave(g)
  /\ UNCHANGED deferred

\* The call has returned and runs what it deferred. Rows read to the end are closed already,
\* and a committed transaction is not rolled back.
RunDeferred(g) ==
  /\ todo[g] = <<>> /\ deferred[g] # <<>>
  /\ \/ /\ Last(deferred[g]) \in {"close", "rollback"}
        /\ conn' = IF conn = g THEN Free ELSE conn
     \/ /\ Last(deferred[g]) = "statement" /\ conn = Free
        /\ UNCHANGED conn
  /\ deferred' = [deferred EXCEPT ![g] = Front(@)]
  /\ UNCHANGED todo

CallStep(g) == \/ Statement(g) \/ ForeignKeysOff(g) \/ Query(g) \/ Begin(g) \/ Rows(g)
               \/ Inside(g) \/ Commit(g) \/ RunDeferred(g)

ConnectionInit == /\ conn = Free
                  /\ todo = [g \in Goroutine |-> <<>>]
                  /\ deferred = [g \in Goroutine |-> <<>>]

\* The process is stopped, in the middle of anything, and started again.
Restart ==
  /\ conn' = Free
  /\ todo' = [g \in Goroutine |-> <<>>] /\ deferred' = [g \in Goroutine |-> <<>>]

ConnectionNext == Restart \/ \E g \in Goroutine : Call(g) \/ CallStep(g)

ConnectionSpec == ConnectionInit /\ [][ConnectionNext]_connectionVars

-----------------------------------------------------------------------------
\* Whoever has the connection has next what needs it and waits for nobody: to read rows, to go
\* on with a transaction, or, when its call has returned, to close or roll back. So it gives
\* the connection back, wherever its call fails or returns, and no request waits for one that
\* its own call, or a call that is over, still has. (SetMaxOpenConns(1) in Open; the deferred
\* closings and rollbacks; Audit, and the second statement of Counts.)
ConnectionComesBack ==
  \A g \in Goroutine : conn = g =>
    \/ todo[g] # <<>> /\ Head(todo[g]) \in {"rows", "inside", "commit"}
    \/ todo[g] = <<>> /\ deferred[g] # <<>> /\ Last(deferred[g]) \in {"close", "rollback"}
=============================================================================
