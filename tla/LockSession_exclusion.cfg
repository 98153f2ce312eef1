SPECIFICATION Spec
CONSTANTS
  a1 = a1  s1 = s1  s2 = s2  p1 = p1  b1 = b1  d1 = d1
  NoCall = NoCall
  Calls = {s1, s2, p1}
  Devices = {d1}
  DeviceOf <- StaticAndLanguage
  Cred <- StaticAndLanguageCred
  PostAuth = {p1}
  Prefetchers = {p1}
  Cancellable = {s1}
  NChars = 2
  MaxKeyReads = 1
  MaxReauth = 1
  MayExpire = TRUE
  MayLookUp = TRUE
  StopMayFail = FALSE
INVARIANTS
  TypeOK MutualExclusion SingleActuation LeakOnlyByCancel
  KeyDisturbedOnlyByOutsiders
PROPERTIES
  DeviceLockSpec
