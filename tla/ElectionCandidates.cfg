SPECIFICATION ElectionSpec
CONSTANTS
  m1 = m1
  p1 = p1
  a1 = a1
  a2 = a2
  Member = {m1}
  NoMember = NoMember
  Request = {}
  Admin = {a1, a2}
  Applicant = {p1}
  Committee = {a1, a2}
  MaxRole = 2
  MaxPart = 2
  MaxPicks = 1
  BallotId = {1, 2}
  Years = {20, 21}
  Tasks = {"create_role", "update_role", "gate", "delete_user", "user_older"}
  Errands = {"submit", "change_mine", "change", "accept", "return"}
SYMMETRY Symmetry
INVARIANTS
  OnePlaceOnBallot
  ReturnedOffBallot
  AcceptedOnBallot
  OfAgeOnBallot
