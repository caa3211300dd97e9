SPECIFICATION VotingSpec
CONSTANTS
  m1 = m1
  q1 = q1  q2 = q2
  a1 = a1
  Member = {m1}
  NoMember = NoMember
  Request = {q1, q2}
  Admin = {a1}
  MaxRole = 1
  MaxPart = 2
  MaxPicks = 2
  BallotId = {1, 2}
  Years = {21}
  Tasks = {"open", "reset", "create_role", "update_role", "delete_role", "create_participant", "update_participant", "delete_participant", "settings", "gate", "delete_user", "user_status"}
SYMMETRY Symmetry
PROPERTIES
  BallotBoxSpec
  OpensOnlyWhenReady
  NothingLostWhileOpen
  WholeBallots
