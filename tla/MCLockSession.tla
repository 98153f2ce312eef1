--------------------------- MODULE MCLockSession ---------------------------
(***************************************************************************)
(* Small instances of LockSession: which calls there are, what they carry  *)
(* and which lock they address.                                            *)
(***************************************************************************)
EXTENDS LockSessionProps, TLC

CONSTANTS
  a1,      \* a call with the account's manager
  s1, s2,  \* calls with a static signer
  p1,      \* a change_language call
  b1,      \* a call with both credential mechanisms
  d1       \* the lock

StaticAndLanguage     == s1 :> d1 @@ s2 :> d1 @@ p1 :> d1
StaticAndLanguageCred == s1 :> "signer" @@ s2 :> "signer" @@ p1 :> "auth"

AccountAndLanguage     == a1 :> d1 @@ p1 :> d1 @@ b1 :> d1
AccountAndLanguageCred == a1 :> "auth" @@ p1 :> "auth" @@ b1 :> "both"
=============================================================================
