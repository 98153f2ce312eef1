SPECIFICATION FairSpec
CONSTANTS
  NBlocks = 5
  Window = 3
  Resumes = {0, 2, 4}
  Starts = {"handshake", "resume"}
  MaxResends = 2
  MaxManifests = 2
  MaxFaults = 1
INVARIANTS
  TypeOK FlowControl StallIsHonest CleanTransferSucceeds
PROPERTIES
  Returns
