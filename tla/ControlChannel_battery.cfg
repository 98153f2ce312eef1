SPECIFICATION Spec
CONSTANTS
  FollowUps = 0
  OpOf <- BatteryOps
  EventOps = {"dd", "de"}
  Callback = FALSE
  Listens = FALSE
  MaxEvents = 2
  MaxReports = 0
  MaxBad = 0
  MaxPolls = 0
  Uncaught = {FALSE}
INVARIANTS
  RespondedMeansAnswered
