# Specifications of matam-alredha

A verification development, in TLA+, of the membership and election portal in
`src/`: a Go server over one SQLite file, with browser pages that only show
what the server answers. The modules follow the store and the HTTP handlers
statement by statement; TLC checks small instances and TLAPS proves the
theorems for every instance.

## 1. The system

A visitor applies for membership; the membership admin approves the
application, which creates a member. Members log in, stand for election, and
vote. The elections admin prepares roles and candidates, decides candidacies,
opens and closes the vote and reads the tallies. Everything lives in SQLite,
opened with `db.SetMaxOpenConns(1)` and `foreign_keys(on)`
(`internal/store/store.go`). One connection makes every statement, and every
`Begin..Commit` section, one atomic step. **Nothing else is atomic**: a handler
is a goroutine that runs several statements, and between two of them any other
request may run. Most handlers read, decide on what they read, and write later.
That is where the hard behaviour of this program is, and what the model keeps.

### Components

| Component | State | Operations | Talks to |
|---|---|---|---|
| **Voting and the ballot box** (`store/elections.go`, `httpapi/elections.go`) | settings `voting_status`, `voting_mode`, `single_selections`; `roles`, `participants`, `ballots`, `votes` | `CastBallot`, `SetVotingStatus` + `validateVotingSetup`, `ResetVotes`, role and participant create/update/delete, election settings | candidacies (entries on the ballot), members (status, deletion) |
| **Candidacies** (`store/candidacy.go`, `httpapi/candidacy.go`) | setting `candidacy_gate`; `candidacies`; `participants.candidacy_id` | `SubmitCandidacy`, `ChangeCandidacyRole`, `AcceptCandidacy`, `ReturnCandidacy`, `SetCandidacyGate` | voting, members, photo files |
| **Membership** (`store/members.go`, `membership_status.go`) | `applications`, `users` | apply, approve, reject, delete, put back, correct, suspend, delete a member | sessions, workbook, elections |
| **Sessions and operator accounts** (`store/admins.go`, `httpapi/server.go`, `main.go`) | `sessions`, `admins` | login, gate, logout, lookup and expiry, password change; create or reset at each start | members (suspension ends sessions), opening |
| **Workbook and print template** (`store/export.go`, `httpapi/admin.go`) | two files, each with one temporary file | snapshot, write, rename; upload, delete | after every change of members; each start |
| **Photo files** (`httpapi/candidacy.go`, `imaging/`) | files in the upload directory | save, replace, remove | `candidacies.photo`, `participants.photo` |
| **Rate limiter** (`httpapi/server.go`) | attempts a key, in memory | `allow`, cleaning goroutine | login, registration |
| **Registration and form fields** (`httpapi/public.go`, `store/form.go`) | settings, `form_fields` | open/close; add, edit, delete questions; take the answers of a form | membership |
| **The connection** (`store/store.go`, every function of `Store`) | one connection for all goroutines | statement, query and rows, `Begin`..`Commit`, and what is deferred | every component |
| **Opening the database** (`store/store.go`, `seed.go`, `main.go`) | layout of the file | schema, `migrate`, `installDefaults`, seed, first admins | everything |
| **Validation** (`store/validate.go`), **printed forms** (`docxt/`), **models** | none | pure functions: ages, normalisers, filling of templates | handlers |
| **Browser pages** (`web/`) | none that matters | show and post | the HTTP API |

### What is hard, and what correctness means

* *Voting.* Two requests of one member race; the ballot is checked against
  pages that were read one after the other and may all be stale at the commit;
  deleting a candidate or a role cascades into votes. Correct: one ballot a
  member, whole or not at all, every vote for a standing candidate and counted
  once; nothing is lost while voting is open; voting opens only on a ballot
  that can be completed; once it stays closed, results stop moving.
* *Candidacies.* Member and committee change one row, each on a status they
  read earlier; the row is mirrored in a ballot entry that nothing in the
  schema ties to it. Correct: one entry a candidacy, an accepted candidacy has
  one, a returned one has none, and nobody stands for a post they are too young
  for.
* *Membership.* `CheckUnique` and the insert are two statements; approve,
  reject and put-back race. Correct: an approved application has its one
  member, a new member's numbers are nobody else's, a request is decided once,
  and what was deleted stays deleted.
* *Sessions.* A login that read an active member, or verified a password,
  creates its session after the change that removed the others. Correct:
  whoever stays cancelled or is gone ends with no session, nobody inherits one,
  and a password that is given up opens nothing in the end.
* *Workbook, template, photos.* Files written outside any transaction, by
  concurrent requests, with a stop between row and file. Correct: the file a
  row names exists; a workbook that is read is whole, and is the members as they
  are once those who write it are done.
* *Opening.* A chain of steps over a file of any age, which may stop anywhere.
  Correct: nothing is lost, the next start finishes what one began, and what
  is served is the whole current layout.
* *Form.* Edited while people fill it in. Correct: it can always be answered,
  and what is stored answers what was asked.
* *Connection.* A call holds it over several statements, and returns from any
  of them. Correct: it always comes back, so that nobody waits for ever.
* *Rate limiter.* Correct: never more than the limit in a window, and no
  attempt that counts forgotten.
* *Printed forms.* Placeholders cut in pieces by Word, among entities. Correct:
  the value goes where the placeholder stands, and nothing else moves.

`PROJECT.json` lists each hazard at its line.

## 2. Modules

    ElectionDB      tables and statements           BallotBox   what a member is promised
       |      \                                         |
     Voting   Candidacy                                 |  (refinement, in Voting)
       |   \    /   \                                   |
       |   Election  ...........................  the same refinement
       |      |
    MCVoting  MCElection       VotingProofs <-- ElectionProofs (about Election)

    Membership ------------------------------- Roll  what the register promises
       |      \                                      (refinement, in Membership)
    Sessions   MCMembership              MembershipProofs <-- SessionsProofs
       |
    MCSessions

    Opening <-- Accounts <-- MCStart     StartProofs: about both

    Photos  Workbook  Form  Limiter  Template  Ages  Connection <-- MCParts (one at a time)
             FilesProofs: about Photos and Workbook     FormProofs: about Form and Ages
             PartsProofs: about Limiter, Template, Connection and MCParts

* **ElectionDB** has the rows an election is made of, in its variables, and one
  operator for each statement or transaction the store runs on them, with the
  foreign keys, cascades and unique constraints of the schema. A table whose
  ids a request may hold across steps (`roles`, `participants`) is a set of
  live ids, its columns, and the highest id handed out (`AUTOINCREMENT`: ids
  never come back). Members' rows are `users`, with `withdrawn` standing for
  both suspended and cancelled, which an election never tells apart.
* **Voting** has one action for each statement of each request. `cast[q]` holds
  the locals of the `CastBallot` that goroutine `q` runs: `pc` names the
  statement it runs next, `rows` the role rows it has still to read candidates
  of, `checks` the pages it has read. `adm[a]` is the same for the elections
  admin. A request whose first statement decides everything (a plain UPDATE) is
  one action. `Restart` loses every request and keeps the tables.
* **BallotBox** is the abstract specification: `voted` and `choices`, and four
  ways they change. `Voting!BallotBoxSpec` is the refinement: `voted` is the
  users of `ballots`, `choices[m]` what the rows of `votes` say for `m`.
* **Candidacy** does for candidacies what Voting does for ballots, in
  `work[g]`. A member has at most one candidacy (`UNIQUE user_id`), so one is
  named by its member. `ChangeCandidacyRole` serves both the member and the
  committee, and is written once.
* **Election** interleaves the two. An element of both `Admin` and `Committee`
  is one admin at one page, who sends nothing until the last answer is in.
* **Membership** has the registration form, the membership admin and the
  import of the member list, again one action a statement: `desk[g]` holds the
  locals of goroutine `g`, and the four counts of `CheckUnique` are four
  actions, shared by the form and by `ApproveApplication` as in the code. Tables
  are functions on their live ids, `appSeq` and `memberSeq` the highest ids
  handed out. An application is `withheld` when rejected, suspended or
  cancelled: the code asks only for pending and for approved. A member keeps
  the three statuses, because a login refuses the cancelled only. `SeedMembers`
  runs at each start, as in `main`.
* **Roll** is its abstract specification: each application waits, is withheld
  or put back, is admitted, or goes, and never comes back. `RollSpec` maps an
  application to `member` as soon as a member row names it.
* **Sessions** adds to Membership what happens at the door: `handleMemberLogin`
  (find, then write the session), `requireMember` (session, then member row,
  dropping what is expired or orphaned), logout, the twelve hours and the
  hourly purge. A browser sends one request at a time. Pages behind the door
  are other modules' actions.
* **Opening** is a start of the process over a data directory: which tables and
  later columns the file has, whether `applications` carries the wide `CHECK`,
  its rows by status, what the open transaction of `widenApplicationStatus`
  would commit, and `PRAGMA foreign_keys`, which that function turns off and on.
  One action a statement; `Stop` may come between any two and rolls the
  transaction back. `Release` is the set of files earlier releases left: a
  file's later columns are the ones of `migrate`, in its order.
* **Accounts** goes on where Opening ends: `bootstrapAdmins` creates or resets
  the two operators according to an environment that may differ at every
  start, the server serves, and operators sign in at a dashboard or at the
  hidden gate (which tries the one account, then the other), change passwords
  and sign out. A session keeps, for the properties, the password it was given
  for.
* **Connection** is the pool of one under everything else. A call of the store
  is the sequence of what it asks of the connection, in `todo[g]`, with what it
  has deferred in `deferred[g]`; each step goes on or makes the call return, as
  an error or a refusal does. Calls that ask for the same are one (`List` is every
  query read to its end), and a transaction has as many statements as make a
  difference. `Restart` comes at any moment.
* **Photos** has the files of the uploads folder against the rows that name
  them: a submission of a candidacy, statement by statement and file by file,
  beside acceptance, return and the ballot page's uploads and edits. `crossed` is
  history: which acceptances, and whether the entry on the ballot, carry a
  photograph from before the member's last submission.
* **Workbook** has the two files that are replaced whole. The database is the
  number of changes to the members and to the columns, a file is what it was
  built from or not whole. A writer holds a file and not a path, so that a
  rename by another takes the file along from under it (`WriteRenamed`).
* **Form** has the questions and, for each submission, the locals of
  `handleRegister` or `handleUpdateMember`; `BuildPerson` is the function of
  that name, on four kinds of answers. What was asked of a visitor all along is
  kept as history for the property.
* **Limiter** keeps the ages of attempts; **Template** one paragraph as runs of
  symbolic bytes, entities among them: those that `unescapeXML` and
  `escapedOffsets` both take for one character, and those that only the second
  does (`&#8217;`); **Ages** a date of birth and a calendar that goes on day by
  day. Template and Ages are functions put beside a reference, as the code computes
  them on one side and as they are meant on the other.
* **MCVoting**, **MCElection**, **MCMembership**, **MCSessions**, **MCStart**,
  **MCParts** give TLC its symmetry sets and definitions. The seven parts of
  MCParts share no variable, so `turn` picks one at the start and the others
  stand still: every state of each is reached, and no product of them is built.

Operators named for a fault (`CountsAmongRows`, `UniqueBallotUndeclared`, ...)
stand next to the definition they get wrong. No specification uses them. Each
is a mistake that could be made there, and shows that a property notices it.

Left out on purpose: names, photographs (except where they make a request
fail), wording and order of pages, audit rows, the tallies as formatted, and
reads that only feed a page. Ages are years, in `age` and `minAge`: members turn
older, or younger when a date of birth is corrected (`UpdateUser`), `UpdateRole`
and `CreateRole` set minimums, and `OfAge` compares them as `EligibleForRole` does.
A request reads them in one statement each.
`winners_count` appears only as the default of `selections_allowed`.

## 3. Runs

| Run | Question | Instance |
|---|---|---|
| `VotingBallots` | Do racing requests keep the box the abstract one; does voting open only when ready, and lose nothing while open; does a ballot enter whole when limits change under it? | 1 member, 2 requests of theirs, 1 admin, membership admin, 1 role, 2 candidates, 2 picks, both modes |
| `VotingTabs` | Do the rows stay sound with two admins, under a ballot already being read? | 1 member, 1 request, 2 admins, 2 roles, 2 candidates, 1 pick, ages and minimums that change |
| `ElectionCandidates` | Do candidacy and ballot entry stay together when two admins and the member race; can anyone get into a post they are too young for, when minimums are lowered and the member turns older between a check and its write? | 1 member, 2 admins, 1 applicant, 2 roles, ages and minimums of 20 and 21 |
| `ElectionLive` | When candidacies come and go under a vote, does it all settle, and what may go in late? | one of each, with fairness |
| `Membership` | Do requests and members stay paired when two admins race; what goes in late? | 2 admins, 1 registrant, 2 personal numbers, 2 phones, up to 2 applications and 2 members |
| `MembershipRoll` | Does one admin at a time implement the register, over an imported list that shares a phone? | 1 admin, 1 registrant, 3 numbers, 2 phones, 2 imported members of up to 4 |
| `Sessions` | Who can still be signed in, and does a shut window let anyone past? | 1 admin, 1 registrant, 1 browser, 2 tokens, 1 imported member, with fairness |
| `Start` | Does every start bring the file up to date and lose nothing, and stand in no later one's way; do reset and password change do what they promise? | 6 earlier files, 1 stop, 2 names, 2 passwords, 5 environments, 2 browsers (1 at the gate), with fairness |
| `Parts` | Seven questions, one a part: see below | see below |

`Parts` is seven instances. *Photos*: one submission at a time beside one request
of the elections admin, 2 names an owner, a candidacy's entry and one typed in,
1 stop. *Workbook*: 2 membership admins at once, 2 changes of each kind, 1 kill.
*Form*: one credential, a yes-or-no question with its detail, one added key, one
submission at a time between edits in any order. *Limiter*: an hour of four
units, one caller with the hour as its window and one with a quarter. *Template*:
every paragraph of up to 6 characters in every cut into 3 runs, so that a
placeholder may straddle all of them and two may share one, with entities of
either kind. *Ages*: births in a
leap year and the three after it, on days around the end of February and of the
year, watched day by day through four years with a leap year among them; leap
years repeat, and nothing else does. *Connection*: 3 goroutines, any of the 13 calls of
the store at once, each left at any statement.

The instances have between 1e5 and 6e6 distinct states.

**Bounds.** `MaxRole` and `MaxPart` bound rows *ever* created, so 2 allows a
row to be created, deleted and another created while a request still holds the
first id. `MaxPicks` bounds both selection limits; the lists a request may
send are one longer than that, with repeats and with candidates of other pages.
`BallotId` has one more id than there are members. A race needs two: two
requests of one member, a request and an admin, or two admins, and some run has
each pair of the hazard list. Nothing in a ballot reads another member's rows, so
one member is enough to check here; for more of them there are the proofs, which
cover every property of these two runs.
`Tasks` and `Errands` name the requests an instance sends, so that a run spends
its states on its own question; every kind is sent in some run (a minimum is raised and a member
turns younger in `VotingTabs` only). Where a claim
holds only while some request is not sent, the property's comment says so:

* `OpensOnlyWhenReady` and `NothingLostWhileOpen` need one admin request at a
  time. With two, neither holds (see below).
* `AcceptedOnBallot` needs that nobody deletes participants or roles
  directly: those requests leave an accepted candidacy without its entry.
* `OfAgeOnBallot` needs that the minimum of no existing post is raised, that no
  corrected date of birth makes a member younger, and that nobody edits an entry by
  hand: neither `UpdateRole` (`elections.go:181`) nor `AcceptCandidacy` nor
  `UpdateParticipant` (`elections.go:330`) looks at the age. What a raised minimum
  does stands below. In the run posts are made and not deleted; the proof has
  deletions, too.
* `OneMemberPerApplication` needs that nobody corrects personal numbers
  (`UpdateUser`): two approvals of one application are told apart by
  `UNIQUE (cpr)` only, and a correction between them makes two members.
* `PhoneSharedByImports` and `RollSpec` need one membership request of an admin
  at a time. With two, an approval that has read its row goes on after
  `DeleteUser` has taken the application (a member whose request is gone), and
  a rejection that has read its row overwrites an approval (a live member with
  a rejected request).
* `PhotosThere` needs a member who waits for the answer before submitting
  again, an elections admin who does, and candidacies' entries that are not edited
  on the ballot page (`Typed` leaves out `Place`). Of the entry of a candidacy it
  says that its files are there unless a submission was written between the
  acceptance's reading and writing, or after it (`crossed`): then the file goes.
* `FilledAsWritten` is for paragraphs whose entities before a placeholder are all
  known to `unescapeXML` (`KnownBefore`). Without it, it does not hold (see below).
* `WorkbookMirrors` speaks of files written by one at a time (`race`). Two at
  once may leave a torn or an older one, as both write `path + ".tmp"`; the
  next that writes alone puts it right, and so does a start.
* `ResetRecovers` is checked for names in one spelling: see below.
* `UpgradeCompletes` speaks of files that can be opened at all (`Openable`);
  `OldDatabases` shows the others.

`MaxApp`, `MaxMember` bound rows ever made, so 2 members let one be deleted and
another made. `RollSpec` has room for the list to be imported a second time.
`ClearSchedule` is outside `Duties`, so that an instance that has used up its
ids does not stop. `MaxStops` and `MaxKills` are 1: what a stop leaves is in the
file and on the disk, and a second differs from the first in that only, while a
start after either is any start.

**Deadlock** is checked everywhere but in `Parts`: an admin can always send a
request, and the process can always restart. In `Parts` bounds run out, a
paragraph is filled once and the calendar ends. In `Start` a file that can be
opened ends in a server that browsers can always ask something; one that cannot
is tried for ever.

**Fairness** is weak, on `CastStep`, `AdmStep`, `ApplicantStep` and
`CommitteeStep` of each goroutine: a request that has begun keeps running. The
Go scheduler runs every runnable goroutine. For its statements a request waits for the one
connection. Whoever has it has a next step that needs no other, and a call has
finitely many (`ConnectionComesBack`), so it comes back; and `database/sql` then
gives it to one of those that wait, taken at random, so that none is passed over
for ever but with probability zero.
There is no fairness on sending requests, deciding, closing the vote, or
restarting. `Sessions` adds weak fairness for a session running out (time
passes) and for the purge, a ticker of `main`. `Start` has weak fairness
on the statements of a start (the process runs on, and `restart: unless-stopped`
starts it again), on a page's request once it has begun, and on expiry.
`ResultsSettle` and `CandidaciesSettle` say what follows *if*
something stays closed, and hold while requests and restarts go on.

**Beside each liveness property** stands an action property that says, step by
step and without fairness, what its argument goes by, and how much may go wrong
until it is over. These are the ones that are proved (section 4). `LateRequests`
is the first two:

| In the end | At each step |
|---|---|
| `ResultsSettle` | `LateBallots`: while voting is not open no request joins those past the status, and a late ballot is the one ballot of one of them |
| `CandidaciesSettle` | `LateCandidacies`: the same of the candidacy window, by either way to a write |
| `RegistrationSettles` | `LateRegistrations`: the same of registration, for its switch and its schedule, read one after the other |
| `WithdrawnLoseAccess` | `WithdrawnRunOut`: while a member is out no login gets past their row, and a new session is that of one that had |
| `OldPasswordDies` | `OldPasswordRunsOut`: while no account has a password, it serves those it served before, and nobody else |
| `UpgradeCompletes` | `StartsGoThrough`: a file that can be opened stays so, and only a stop ends a start over it |

That a request comes to its end has two halves: `RequestsGetOn`, which is proved
and no run checks, says that the loops of a request always have something left and that each
of its statements leaves it fewer; `ConnectionComesBack`, which is checked and
proved, that it does not wait for a connection that never comes.

### What the code says and does not do

Three runs each violate one property that quotes a comment of the code.
`OldDatabases` is a defect of a single process, the others are races.

| Run | The comment | What happens |
|---|---|---|
| `VotingWithdrawn` | a withdrawn membership "carries no vote. Checked here at the point of writing" (`elections.go:368`) | suspended between the check and the commit, the ballot goes in |
| `ElectionAccepted` | "after acceptance only the committee can change anything" (`httpapi/candidacy.go:81`) | a resubmission that read the status before the acceptance overwrites it |
| `OldDatabases` | columns are "added explicitly for installations that are already running" (`store.go:212`) | an old `participants` table has no `candidacy_id` when the schema indexes it (`store.go:156`), an old `applications` no `meeting_no` when it is copied (`store.go:297`); both come later in `migrate`, so these files never open |

Met on the way, with no run of their own. First those that a property above makes
room for:

* "`MinAge` is the minimum age a member must have reached to stand for this post"
  (`models.go:95`), and it "binds the committee's own overrides too"
  (`candidacy.go:289`): `UpdateRole` raises it without a look at the candidacies,
  and `AcceptCandidacy` then puts a member below it on the ballot, one request
  after the other (left out of `OfAgeOnBallot`).
* `validateVotingSetup` "blocks opening a vote that members could not complete",
  "the ballot must be settled before anyone votes on it" (`elections.go:43`, `45`):
  a second admin deletes a candidate, or opens the candidacy window, between its
  reads and the write of the status (left out of `OpensOnlyWhenReady`).
* No post or candidate is deleted while voting is open (the messages of
  `elections.go:191`, `340`): a second admin opens the vote between the test of the status
  and the deletion, or the clearing (`elections.go:476`), and what was voted goes
  (left out of `NothingLostWhileOpen`).
* "A replaced photo is no longer referenced by anything"
  (`httpapi/candidacy.go:152`): an acceptance that read the candidacy before a
  resubmission writes the old name to the ballot entry, and the handler removes
  the file (`crossed`, in `PhotosThere`).
* "Positions were computed on the unescaped string; map them back onto the escaped
  one so the spans still line up" (`docxt.go:252`): `escapedOffsets` takes any
  `&...;` of up to seven bytes for one character, `unescapeXML` knows five
  names, so after `&#8217;` a placeholder is cut in the wrong place
  (`KnownBefore`, in `FilledAsWritten`).

And the others:

* The candidacy window "cannot be reopened once voting has begun"
  (`candidacy.go:69`): the guard asks for `draft`, and a vote that has begun can
  be put back to draft with its ballots in place.
* Turnout reports "how many eligible members have voted" (`elections.go:462`):
  members suspended after voting count above and not below.
* The ballot entry "has to follow" a change of role (`candidacy.go:311`): a
  move that read the status before an acceptance leaves it in the old role.
* `DeleteUser` "removes a member everywhere" (`members.go:278`): the ballot
  entry of an accepted candidacy is tied to nothing and stays.
* "A withdrawn member must lose access immediately"
  (`membership_status.go:90`): a login that read the row before the change
  writes its session after the others are dropped, and has it for twelve hours.
  `WithdrawnLoseAccess` says what does hold of the cancelled; a suspended member
  may sign in again at once, as `handleMemberLogin` refuses the cancelled only.
* `SeedMembers` imports "on first boot only" (`seed.go:20`): on every start that
  finds no members.
* Putting a request back to pending does not repeat `CheckUnique`, and
  `UpdateUser` does not look at pending requests, so numbers appear twice
  without any race.
* "A personal number and a phone number may each appear once, across both
  approved members and pending requests" (`members.go:15`): `CheckUnique` is
  four statements and the insert a fifth, so two forms sent at once both wait.
  What holds is `RollSpec` and `PhoneSharedByImports`: they are not both
  admitted.
* Of two submissions at once, the one that removes its predecessor's photograph
  last may remove the one the row has kept; and the ballot page may remove the
  photograph a candidacy shares with its entry (`httpapi/elections.go:320`).
* "To recover from a lockout" (`main.go:160`): `ForceResetPassword` stores the
  username as the environment spells it, while `AdminByUsername` looks for it
  in lower case (`admins.go:57`, `80`): with a capital letter nobody can sign in
  after the reset.
* "The file on the server always mirrors the database" (`export.go:114`): not
  while two exports overlap, and not the columns of added questions, since the
  form editor exports nothing.
* A required yes-or-no question that an admin added may be left blank
  (`public.go:206`); the page that corrects a member demands required questions
  that are switched off, since it asks for all fields (`admin.go:302`) where the
  public form asks for the enabled ones; correcting a member drops the answers
  to questions that were deleted since, and a key that is deleted and added
  again finds the old answers. An added key that is also a name the printed form
  knows is not printed (`document.go:76`).
* Ages of people born after February are a day early or late in years that
  differ by a leap day (`candidacy.go:106`, `validate.go:155`); `AgeWithinADay`
  bounds it.
* The limiter forgets everything at a restart.
* `AllParticipants` is called by nothing.

Also, a ballot may be written after the
vote is closed, although `closed` means "finished, results locked"
(`elections.go:13`), because `CastBallot` reads the status once; pages and limits
may change under people voting, because `CreateRole` and `UpdateRole` do not
test the status that `DeleteRole` tests (`elections.go:190`); a candidacy may
be written after its window closed (`candidacy.go:273`). `LateBallots`,
`WholeBallots` and `LateCandidacies` say what does hold in their place, and
`ResultsSettle` and `CandidaciesSettle` that it comes to an end.

## 4. Proofs

`VotingProofs` proves, for any sets of members, goroutines, admins and ballot
ids and any bounds, from `DBAssumption` alone (`NoMember` is no member; the
bounds are numbers, `MaxPicks` at least one):

* **VotingTyped**: `VotingSpec => []VotingTypeOK`. Inductive as it stands. The
  locals matter: a request past `idle` has a member, and its pages are pages,
  which is what types the rows it will write.
* **BallotBoxIsSound**: `VotingSpec => []BallotBoxSound`. The four conjuncts
  are inductive together with the type invariant, and not apart: that votes lie
  on their member's ballot needs that no two ballots share an id or a member,
  and that a new ballot adds no second vote for a candidate needs both the unique
  index and that a member without a ballot has no votes. The proof uses
  nothing of what a request read earlier. That is its point: soundness
  rests on the constraints of the schema checked inside the transaction, and
  not on the checks `CastBallot` makes before it.
* **VotingImplementsBallotBox**: `VotingSpec => BallotBoxSpec`. Initial states
  map to initial states; `CastWrite` maps to `Cast`; deleting a participant or
  a role to `Strike`; `DeleteUser` to `Annul`; `ResetWrite` to `Clear`; all other
  steps to stutters. It uses the two invariants above.

One lemma for each kind of step (a request moves on, a ballot is inserted, rows
are deleted, nothing changes) carries the cases.

Its last part has the action properties of Voting, those about what was read
some statements before it is used.

* **BallotsAreWhole**: `VotingSpec => WholeBallots`, with no further assumption.
  `WrittenPicks` says that the rows `InsertBallotRows` writes under a fresh id are
  the picks and nothing else, since no vote lies on a ballot that is not there
  (`BallotBoxSound`); that picks are within the limit of a page is what
  `ValidBallot` counted.
* **OpensOnWhatWasChecked** and **OpenVotingLosesNothing** assume `OneAdmin`, a
  single elections admin who waits for answers; with two, neither holds
  (section 3). `Established(l)` says, for each point of a request, that all it
  has read so far is still so: the status a deletion or `ResetVotes` tested,
  and the mode, limit and pages of `validateVotingSetup`, those not yet
  counted being in `rows`. Ballots, and members
  coming and going, leave it alone (`OthersLeave`).

And what the liveness of Voting goes by, with no further assumption:

* **LateBallotsAreFew**: `VotingSpec => LateBallots`. A request gets past `status` only
  by reading `open`, and only `CastWrite` adds a ballot, for the request's own member
  under an id that no ballot has.
* **EveryRequestGetsOn**: `VotingSpec => RequestsGetOn`. `StatementsLeft` numbers the
  statements from the end; within a loop the rows get fewer, or the settings
  still to be written. `StillInv` is that a request at a loop has rows left, and one
  at a write of settings a setting: it holds because the rows were read before the
  loop, and nothing that others do adds to them or takes them away.

`ElectionProofs` carries these to the composition and adds the candidacies.
`Halves` splits a step: it is one of Voting, or one of a clerk (member or
committee) that leaves `cast` and `adm` alone; `Writes` names the four clerk
steps that write rows.

* **ElectionTyped**, **ElectionBoxIsSound**, **ElectionImplementsBallotBox**:
  the three theorems of Voting hold of `ElectionSpec`. A candidacy adds or moves
  an entry, or strikes one with its votes.
* **OnePlaceEach** and **ReturnedStayOff**, given the types, are inductive as they
  stand: entry and status are written in one transaction that looks at both.
* **AcceptedAreOnBallot** is for admins who delete no entry or role directly
  (`"delete_role"`, `"delete_participant" \notin Tasks`): such a deletion does
  leave an accepted candidacy without a place. `AcceptedInv` adds that entries'
  ids do not exceed `partSeq`, so that an insert overwrites none.
* **OfAgeAreOnBallot** is for admins who do not edit entries
  (`"update_participant" \notin Tasks`, which moves an entry to any role) and raise
  no minimum of a post that exists (`"raise_min_age"`), and members who turn out
  no younger (`"user_younger"`); otherwise ages and minimums change as they like.
  `AgeInv` adds what a request carries (`AgeChecked`): the member's age it has read is
  at most their age now, the minimum it has read at least the post's now, so that
  whoever was of age when compared is so at the write, too. A post's id, once
  deleted, is no other post's.

* **ElectionBallotsAreWhole** is `WholeBallots` again, with no assumption: no
  candidacy request writes a ballot, so the ones that are written are
  `CastBallot`'s, and what it read binds them.
* **ElectionOpensOnWhatWasChecked** assumes `OneDesk`, one admin who waits for
  answers at either page. `ElectionDayInv` is `Established` of the voting page,
  that the admin is busy at one page at most, and that an applicant about to move
  a candidacy has read one not accepted; so the requests of applicants, however
  many, leave ballot and settings alone (`ApplicantsLeave`).

* **ElectionLateBallotsAreFew** and **EveryRequestGetsOnInElection** carry over as they
  are: a clerk leaves `cast` and `adm` alone, and adds no ballot.
* **LateCandidaciesAreFew** is `LateCandidacies`. There are two ways to a write, and
  each has its own reading of the window: a submission at its first statement, a move
  at `change_gate`. The committee's moves read none and submit nothing.
* **LateRequestsAreFew** is the two, `LateRequests`.

`NothingLostWhileOpen` is not carried over, and does not hold there: returning an
accepted candidacy while voting is open takes the candidate and their votes away,
as `ReturnCandidacy` says it is meant to ("Remove them from the ballot along with
any votes already recorded", `candidacy.go:403`). What holds is the refinement:
the abstract `Strike`.

`MembershipProofs` is about the register, for any registrants, clerks and bounds.
`RegisterInv` types desks and rows and keeps room for the ids that requests on
their way will take. A step that changes a row is one of eight writes (`RowsMove`),
and `DesksMove` says what a step does to a request; the invariants below are
proved over the two.

* **MembershipTyped**: `MembershipTypeOK`.
* **ApprovedAlwaysHasMember** needs `DecisionInv`: a deletion about to write
  holds an id no higher than `memberSeq`, and if that member is still there, the
  application it holds is that member's. Ids are never used again, so the answer
  of `DeleteRead` cannot come to mean another member.
* **OneMemberEach** is for duties without `"update"`. `Claim(i, c)` gathers all
  that speaks of application `i` with number `c`: its row, its members, the
  approvals on their way. `OneNumberInv`: they all say the same number, and ids up
  to `appSeq` only; then `users.cpr UNIQUE` stops the second member. A correction of
  that number breaks the claim, and the property with it.
* **RegisterImplementsRoll** and **OnlyImportsSharePhones** assume one admin
  (`OneClerk`), as the runs do: with two, neither holds. The first uses
  `SoloInv`: what a clerk read of an application is still so when it is
  written (`Fresh`), however registrants and starts interleave, and the
  application of every member is there and approved. The second uses `PhoneInv`:
  the number a clerk has looked for is on no member yet (`Looked`).
* **LateRegistrationsAreFew**: `LateRegistrations`, with no assumption. The switch is read
  before the schedule, so there are two sets of requests, and each admits nobody once
  what it reads is shut, whether or not the other is.

`SessionsProofs` adds browsers to that, from `RegisterInv` and three facts in
`SessionsInv`: a visit that has found a member holds an id no higher than
`memberSeq` (`VisitKept`), so does the subject of every session, and a token
belongs to one session (`TokensKept`). The register ends sessions and begins none
(`RegisterEndsSessions`).

* **SessionsTyped**: `SessionsTypeOK`.
* **NewMembersAreFresh**: `FreshMember`. A member's id is above `memberSeq` when
  the row goes in, and every session and every login on its way is at or below
  it. Neither needs anything of the schedule or of how many admins there are.
* **ApprovedHasMemberAtTheDoor**, **OneMemberEachAtTheDoor**, **DoorImplementsRoll**,
  **OnlyImportsSharePhonesAtTheDoor**, **LateRegistrationsAreFewAtTheDoor**: what
  `MembershipProofs` proves of the register holds with the door beside it, under the
  same assumptions. `RegisterOrDoor` is the reason: a step is one of the register, or
  one of a browser or the clock that touches nothing of the register but
  `sessions`, which none of its requests reads.
* **WithdrawnSignInNoMore**: `WithdrawnRunOut`. `LoginFind` refuses who is cancelled or
  not there, and no other statement makes a visit enter; a session is written by
  a visit that enters, and by nothing else.

`StartProofs` is about starts of the process, over the files of every `Release`,
any environments and any number of stops. `LayoutInv` says phase by phase what
is established: all tables after `schema`, the wide constraint after `widen`,
every column after `add`, the settings after `defaults`; and within a phase,
everything before the step it is at. A stop goes back to `off`, of which it says
nothing.

* **ServesTheCurrentLayout** reads it off; **NothingLost** adds that the copy
  is whole before the old table is dropped (`apps \subseteq tx.copied`).
* **OneOperatorEach** needs `OperatorsInv`: the kinds are dealt with in order,
  so the first account is membership's and ids settle the kind.
* **ResetsRecover** assumes `ResetNamesAreLower`, without which it does not hold
  (section 3). `ResetsInv` says which of the four statements of the two resets
  are done: no server, so no login, runs between them.
* **StartTyped**: `StartTypeOK`.
* **StartsAreNotRefused**: `StartsGoThrough`. A statement fails only for a column that is
  missing, and both columns that an index or the copy names are missing only in
  a file whose release made the table without them: a table made by `schema` has
  all its columns, and `add` comes after both. `RefusalInv` says which starts have
  got past them.
* **OtherFilesNeverServe**: a file that cannot be opened at first is never served,
  however often the process is started. `OldDatabases` shows that there are such files.
* **OldPasswordsRunOut**: `OldPasswordRunsOut`. A page keeps a password for a session only
  after finding an account that has it.

`FormProofs` proves **FormNeverShuts** and **StoredAnswersAreComplete** (and the
types), for any questions, from `FormAssumption`. `CoreKept` is what edits
cannot do: remove a core question, switch off a credential, or make a core
question wait for another than it did. `SomeoneIsTaken` then exhibits answers
that `BuildPerson` takes. For what is stored, `asked` only shrinks while a
submission is on its way, and `TakenAnswers` does the rest.

It also proves **AgesAreRightToTheDay**, about Ages, by cases on leap years and on
whether a day is past February, through any years within `AgesAssumption`
(1901 to 2099, where every fourth is a leap year).

`FilesProofs` is about the files beside the database, where nothing is a
transaction.

* **WorkbookTyped**, **WorkbookIsTheMembers**: for any number of admins, changes and
  kills, and with nothing assumed of them. `WorkbookInv` says that while there was no
  race on a path a single job is active on it (`OneAtATime`), and what that job has
  achieved at each statement (`WrittenAlone`): the members it has read are still so,
  because whoever changes them brings a writer; the temporary file is as it
  left it, and whole before the rename.
* **PhotosTyped**: for any tabs, clerks, rows and stops.
* **PhotoOfTheCandidacy** assumes that the member waits for the answer (`OneTab`)
  and that the ballot page leaves the candidacy's entry alone (`PlaceIsLeft`), of any
  number of elections admins. `Owned` says whose each name is, as a file is named
  by a prefix for its owner and drawn afresh; so no request for one removes a
  file of the other. `OnItsWay` says that the name a submission carries is a new one until
  the row has it, and that both copies are on the disk before that.
* **PhotosOfTheEntries** is its counterpart: the elections admin waits
  (`OneClerk`), the members may send as often as they like. `InHand` says that
  the photograph a request removes is the row's until the row is written, and
  not after.
* **EntryOfTheCandidacy**, for any number of elections admins and under the
  assumptions of **PhotoOfTheCandidacy**: the entry of a candidacy names the
  candidacy's photograph, whose copies are there, unless a submission crossed the
  acceptance. `EntryInv` says the same of what an acceptance on its way has read.
* **NoPhotoIsLost** puts the three together, for a member and an elections admin who
  wait: `PhotosThere`, the entry of the candidacy with its exception included.

`PartsProofs` proves **LimiterKeepsItsWord**, types and `AtMostAllowed`, for any
keys, limits and windows up to the hour the cleaner keeps. `LimiterInv` adds
that attempts stand oldest first. The filter of `allow` then keeps
an end of the list (`CutExists`, from the least-number principle), filtering for
the hour and then for a window is filtering for the window (`WithinWithin`), and
so the cleaner, which forgets only what is an hour old, never changes what `allow`
counts. `Within` is written with positions and not with `SelectSeq`,
whose recursive definition no prover can open.

Its second part is about the printed forms, for a paragraph of any length cut into
any number of runs:

* **TemplateTyped** and **TemplateFilled**: `FilledAsWritten`, that is, `FillParagraph` makes
  of the runs what replacing each placeholder in the whole text would, wherever the
  entities that `unescapeXML` knows stand, and others behind the last placeholder
  (`KnownBefore`). The
  definitions are recursive functions and `FlattenSeq`, which the proof knows by
  their equations only (`Joins`, `Defines`), and the induction goes over a set of
  numbers, those at which the claim fails having no least (`LeastNumber`). Five facts
  make the argument. `RunsLie`: each run stands at its place of the text. The
  characters are counted by `Rank`, the number of first bytes up to a byte,
  which `NthIsRank` shows to invert the offsets that the code takes. `StartsAgree`: up to a byte before which every entity is a
  known one, `PlainStarts` (of `unescapeXML`) and `SkipStarts` (of `escapedOffsets`)
  count the same. `EditsAreFound`: the edits
  are the placeholders, from left to right and apart. `EditsPlace`: cutting them
  into the runs from right to left leaves the bytes before each where they were, so
  that what is left in the end is the reference.
Then the connection, for any number of goroutines:

* **ConnectionGoesRound**: `ConnectionComesBack`. The invariant is of what a call has still to
  do (`Fits`): what needs the connection stands exactly behind what leaves it with the
  call, and nothing that leaves it there is the last. Every call of the store is
  made of pieces that fit by themselves, and joining keeps it (`FitsJoined`,
  `CallsFit`); doing the first step keeps it of the rest (`FitsTail`). And what its
  holder has deferred begins with what gives it back.

And all parts beside each other:

* **PartsAreEachOfThem**: a behaviour of `MCParts` is one of Photos, Workbook, Form,
  Limiter and Connection. With it the theorems about each hold of what the run `Parts`
  checks: **PartsTyped** is `PartsTypeOK` as a whole, **PartsFillParagraphs** is
  `FilledAsWritten`, **PartsConnectionGoesRound** `ConnectionComesBack`.

Two kinds of assumption, then. Those in an `ASSUME` of a module are conditions on
the constants that TLC evaluates on every run. Those in a theorem's own
`ASSUME ... PROVE` are where the code needs something of whoever uses it
(one admin at a time, no direct deletes, names in lower case), and section 3
says what happens otherwise.

Model-checked only:

* Liveness, as fairness and ENABLED are out of the prover's reach:
  `UpgradeCompletes`, `OldPasswordDies`, `WithdrawnLoseAccess`,
  `RegistrationSettles`, `ResultsSettle` and `CandidaciesSettle`.
  What of each can be said of single steps is proved (the table in
  section 3), so that what TLC adds is that requests which can go on do.

Every other property of a passing run is a theorem. The types of every module are
proved; TLC checks those of Election (Voting and Candidacy), Sessions (and Membership)
and the parts. The refinement of the ballot box is checked on Voting by itself, and
proved there and of Election.

No module proved about declares a RECURSIVE operator.

## 5. Not modelled

* Password hashing and strength, session tokens as strings, cookies and the
  origin check: a password or a token is a value.
* Decoding and scaling of images, the bytes of the xlsx file, the zip container
  of a printed form and its table of values: pure computation on one input, with
  no state that another step could see.
* The normalisers of `validate.go` (digits, personal number, phone, names):
  functions of the characters of one string, which no module keeps. Only the
  reckoning of ages has a boundary worth a model.
* Searches, counts, tallies, audit rows, the order of questions
  (`ReorderFields`) and every wording.
* `web/`: the pages show what the server answers and can send nothing that the
  inputs of the requests do not cover.
* Disks that refuse a write, in Workbook, and rows of `settings` beside the
  defaults in Opening.

Worth doing next: the measure of `RequestsGetOn` for the requests of candidacies, of the
register and of browsers, which have no loops but some that wait for another statement;
which edits of ballot entries keep `OfAgeOnBallot`.
