SPECIFICATION VotingSpec
CONSTANTS
  m1 = m1
  q1 = q1
  a1 = a1
  Member = {m1}
  NoMember = NoMember
  Request = {q1}
  Admin = {a1}
  MaxRole = 1
  MaxPart = 1
  MaxPicks = 1
  BallotId = {1, 2}
  Years = {21}
  Tasks = {"open", "stop", "create_role", "create_participant", "user_status"}
SYMMETRY Symmetry
PROPERTIES
  WithdrawnCarryNoVote
