SPECIFICATION FairStartSpec
CONSTANTS
  Release <- AllReleases
  Setting = {"voting_status"}
  MaxStops = 1
  n1 = n1  n2 = n2  w1 = w1  w2 = w2
  Name = {n1, n2}
  Lower <- OneSpelling
  Password = {w1, w2}  Unset = Unset  Generated = Generated
  Environ <- SomeEnvironments
  Page = {b1, b2}  Gate = {b1}
INVARIANTS ServingIsCurrent OneOperatorPerKind
PROPERTIES NothingLostByStarts StartsGoThrough UpgradeCompletes ResetRecovers OldPasswordRunsOut OldPasswordDies
