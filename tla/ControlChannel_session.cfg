SPECIFICATION FairSpec
CONSTANTS
  FollowUps = 2
  OpOf <- SettingsOps
  EventOps = {"dd"}
  Callback = TRUE
  Listens = TRUE
  MaxEvents = 1
  MaxReports = 1
  MaxBad = 1
  MaxPolls = 1
  Uncaught = {TRUE, FALSE}
INVARIANTS
  TypeOK ReadsGetTheirOwn NothingVanishes
PROPERTIES
  SessionEnds
