SPECIFICATION Spec
CONSTANTS
  Addresses = {a1, a2}
  Wanted = a1
  AnyAddress = AnyAddress
  Strengths <- MCStrengths
  Times = {0, 1, 4}
  Showings <- MCShowings
  MaxAdverts = 3
  Numbers <- MCNumbers
  Noise = {0, 40, 255}
  Charges = {0, 48, 100}
  Levels = {0, 1, 2, 3, 4}
  WindowNoise = {0, 40}
  MaxWindow = 3
  Languages = {"FR", "Deutsch", "13"}
  Rows <- MCRows
  MaxRows = 2
  Blobs <- MCBlobs
  BlockSize = 2
  MtuPayload = 3
  SeqSize = 4
INVARIANTS
  RightLock
  MissedForAReason
  RequestsStayApart
  ConclusionsAreTrue
  PackArrives
CHECK_DEADLOCK FALSE
