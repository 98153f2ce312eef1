SPECIFICATION FairSpec
CONSTANTS
  a1 = a1  s1 = s1  s2 = s2  p1 = p1  b1 = b1  d1 = d1
  NoCall = NoCall
  Calls = {a1, p1, b1}
  Devices = {d1}
  DeviceOf <- AccountAndLanguage
  Cred <- AccountAndLanguageCred
  PostAuth = {p1}
  Prefetchers = {p1}
  Cancellable = {a1, p1}
  NChars = 1
  MaxKeyReads = 2
  MaxReauth = 1
  MayExpire = FALSE
  MayLookUp = FALSE
  StopMayFail = TRUE
INVARIANTS
  ExpiryIsRetried
PROPERTIES
  Termination FlagReleased
