SPECIFICATION VotingSpec
CONSTANTS
  m1 = m1
  q1 = q1
  a1 = a1
  a2 = a2
  Member = {m1}
  NoMember = NoMember
  Request = {q1}
  Admin = {a1, a2}
  MaxRole = 2
  MaxPart = 2
  MaxPicks = 1
  BallotId = {1, 2}
  Years = {20, 21}
  Tasks = {"open", "stop", "reset", "user_older", "user_younger", "create_role", "update_role", "raise_min_age", "delete_role", "create_participant", "update_participant", "delete_participant"}
SYMMETRY Symmetry
INVARIANTS
  BallotBoxSound
