SPECIFICATION Spec
CONSTANTS
  None = None
  Transports = {x1, x2}
  MaxTries = 2
INVARIANTS
  ProxyForgetsNothing ListensWhereItScans
