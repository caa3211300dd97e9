SPECIFICATION FairElectionSpec
CONSTANTS
  m1 = m1
  q1 = q1
  p1 = p1
  a1 = a1
  Member = {m1}
  NoMember = NoMember
  Request = {q1}
  Admin = {a1}
  Applicant = {p1}
  Committee = {a1}
  MaxRole = 1
  MaxPart = 2
  MaxPicks = 1
  BallotId = {1, 2}
  Years = {21}
  Tasks = {"open", "stop", "reset", "create_role", "delete_role", "gate"}
  Errands = {"submit", "change_mine", "accept", "return"}
INVARIANTS
  ElectionTypeOK
PROPERTIES
  ResultsSettle
  CandidaciesSettle
  LateRequests
