SPECIFICATION ElectionSpec
CONSTANTS
  m1 = m1
  p1 = p1
  a1 = a1
  Member = {m1}
  NoMember = NoMember
  Request = {}
  Admin = {a1}
  Applicant = {p1}
  Committee = {a1}
  MaxRole = 1
  MaxPart = 2
  MaxPicks = 1
  BallotId = {1, 2}
  Years = {21}
  Tasks = {"create_role", "gate"}
  Errands = {"submit", "change_mine", "accept"}
SYMMETRY Symmetry
PROPERTIES
  AcceptedIsTheCommittees
