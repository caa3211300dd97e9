------------------------------- MODULE MCStart --------------------------------
(* Instances of Accounts, with Opening under it, for TLC. *)
EXTENDS Accounts

CONSTANTS n1, n2, w1, w2

ColumnsIn(T) == {c \in Column : c[1] \in T}
Since(T, n) == {c \in ColumnsIn(T) : \E i \in DOMAIN Additions : i > n /\ Additions[i] = c}

\* No file; one with meeting numbers but three statuses and no elections; one that lacks
\* what came with candidacies last; and one of this release.
NewFile == [tables |-> {}, columns |-> {}, wide |-> FALSE, apps |-> {}, members |-> FALSE]
BeforeElections ==
  LET T == {"settings", "admins", "form_fields", "applications", "users", "sessions", "audit_log"}
  IN  [tables |-> T, columns |-> ColumnsIn(T) \ Since(T, 2), wide |-> FALSE,
       apps |-> {"pending", "rejected"}, members |-> TRUE]
BeforeThumbs ==
  [tables |-> TableName, columns |-> Column \ Since(TableName, 6), wide |-> TRUE,
   apps |-> {"pending"}, members |-> TRUE]
Current ==
  [tables |-> TableName, columns |-> Column, wide |-> TRUE,
   apps |-> {"pending"}, members |-> FALSE]
OpenableReleases == {NewFile, BeforeElections, BeforeThumbs, Current}

\* Elections, but no candidacies yet; and the very first, without meeting numbers.
BeforeCandidacies ==
  [tables |-> TableName \ {"candidacies"}, columns |-> Column \ Since(TableName, 5), wide |-> TRUE,
   apps |-> {"pending"}, members |-> TRUE]
First ==
  LET T == {"settings", "admins", "form_fields", "applications", "users", "sessions", "audit_log"}
  IN  [tables |-> T, columns |-> {}, wide |-> FALSE, apps |-> {"pending"}, members |-> TRUE]
AllReleases == OpenableReleases \cup {BeforeCandidacies, First}

\* Names, passwords and resets that the environment of a start may hold.
Env(n, w, r) == [user |-> n, password |-> w, reset |-> r]
SomeEnvironments ==
  [k \in Kind |->
     IF k = "membership"
     THEN {Env(n1, w1, FALSE), Env(n2, Unset, FALSE), Env(n2, w1, TRUE)}
     ELSE {Env(n1, w2, FALSE), Env(n1, Unset, TRUE)}]

OneSpelling == [n \in Name |-> n]
=============================================================================
