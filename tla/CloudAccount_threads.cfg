SPECIFICATION Spec
CONSTANTS
  None = None  d1 = d1  d2 = d2  user = user
  Threads = {t1, t2}
  Devices = {d1, d2}
  Accounts <- SomeAccounts
  Macs <- SomeMacs
  MaxLogins = 3
  Window = 2
  Delay = 1
  Horizon = 3
SYMMETRY Alike
INVARIANTS
  CacheIsNewest SignedIsSent ResolveIsRight CodesWindow
PROPERTIES
  SignersAreWhole
