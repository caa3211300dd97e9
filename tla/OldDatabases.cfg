\* One start after the other over every earlier release's file.
SPECIFICATION FairStartSpec
CONSTANTS
  Release <- AllReleases
  Setting = {"voting_status"}
  MaxStops = 0
  n1 = n1  n2 = n2  w1 = w1  w2 = w2
  Name = {n1, n2}
  Lower <- OneSpelling
  Password = {w1, w2}  Unset = Unset  Generated = Generated
  Environ <- SomeEnvironments
  Page = {b1}  Gate = {}
PROPERTIES OldDatabasesOpen
