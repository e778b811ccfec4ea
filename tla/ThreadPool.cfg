CONSTANTS
  Clients = {"a", "b"}
  TaskCount <- MCTaskCount
  Failing <- MCFailing
  Sizes <- MCSizes
  Limits <- MCLimits
  InitialLimit = 1
  MaxTunings = 2
SPECIFICATION FairSpec
INVARIANTS
  EachTaskOnce
  DestructorSafe
PROPERTIES
  AllReturn
  EveryTaskRuns
