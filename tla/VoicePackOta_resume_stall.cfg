SPECIFICATION Spec
CONSTANTS
  NBlocks = 5
  Window = 3
  Resumes = {3}
  Starts = {"resume"}
  MaxResends = 2
  MaxManifests = 2
  MaxFaults = 0
INVARIANTS
  ResumeStreams
