SPECIFICATION Spec
CONSTANTS
  NBlocks = 4
  Window = 2
  Resumes = {0}
  Starts = {"handshake"}
  MaxResends = 2
  MaxManifests = 2
  MaxFaults = 1
PROPERTIES
  LastNakAnswered
