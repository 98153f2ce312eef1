-------------------------- MODULE LockSessionProps --------------------------
(***************************************************************************)
(* The properties of LockSession.                                          *)
(***************************************************************************)
EXTENDS LockSession

\* The state of every call, device and token is of the kind the code gives it.
TypeOK ==
  /\ pc        \in [Calls -> Phases]
  /\ attempt   \in [Calls -> 0 .. MaxReauth]
  /\ actuation \in [Calls -> BOOLEAN]
  /\ signer    \in [Calls -> Nat]
  /\ reads     \in [Calls -> 0 .. MaxKeyReads]
  /\ nextChar  \in [Calls -> Characteristics]
  /\ exit      \in [Calls -> Exits]
  /\ result    \in [Calls -> Results]
  /\ worker    \in [Calls -> Workers]
  /\ got       \in [Calls -> Nat]
  /\ writes    \in [Calls -> Nat]
  /\ busy      \in [Devices -> BOOLEAN]
  /\ sub       \in [Devices -> [Characteristics -> Calls \cup {NoCall}]]
  /\ issued \in Nat /\ token \in Nat /\ live \in Nat
  /\ cloudKey  \in [Devices -> Calls \cup {NoCall}]

\* The flag of a device is set exactly while one call is inside it: neither a
\* refused second call nor any exception or cancellation of the holder makes
\* the flag and the holder part (session.py:450-456, 947-949).
InFlag(c) == pc[c] \in Critical
FlagMatchesHolder ==
  \A d \in Devices : busy[d] <=> \E c \in Calls : DeviceOf[c] = d /\ InFlag(c)

\* Two calls of one device are never inside the flag together.
MutualExclusion ==
  \A c1, c2 \in Calls :
     InFlag(c1) /\ InFlag(c2) /\ DeviceOf[c1] = DeviceOf[c2] => c1 = c2

\* One call commands the lock at most once over all its attempts, whatever
\* fails and whenever the token is refused (session.py:812-815, FR-016).
SingleActuation == \A c \in Calls : writes[c] <= 1

\* A caller told OperationInProgressError can rely on its call having left the
\* lock and the link alone, on a first attempt or on a retry.
RefusedLeavesNoTrace ==
  \A c \in Calls : result[c] = "busy" =>
     /\ writes[c] = 0
     /\ \A u \in Characteristics : sub[DeviceOf[c]][u] # c

\* With a transport that honours stop_notify, only a cancelled call leaves a
\* handler subscribed once it is outside the flag (session.py:943-946).
LeakOnlyByCancel ==
  \A c \in Calls, u \in Characteristics :
     sub[DeviceOf[c]][u] = c /\ ~InFlag(c) => result[c] = "cancelled"

\* While a call that fetched its key inside the flag is in its exchange, the
\* cloud's key of its device is replaced only from outside the flag: by the
\* prefetch of change_language, by a look-up of the account's devices
\* (auth.py:192), or by the request of a call that was cancelled or gave up on
\* it.  A call that ran its attempt to another end never replaces it.
Outsider(x) == x = NoCall \/ x \in Prefetchers \/ result[x] \in {"cancelled", "fail"}
KeyDisturbedOnlyByOutsiders ==
  \A c \in Calls \ Prefetchers :
     pc[c] \in {"lockkey", "verify"} =>
        LET other == cloudKey[DeviceOf[c]] IN other = c \/ Outsider(other)

\* A caller of the auth manager gets code 108 only after the re-run, or from
\* its own hook or callback after the actuation (session.py:373-385).
ExpiryIsRetried ==
  \A c \in Calls \ Prefetchers :
     result[c] = "108" /\ Cred[c] = "auth" => attempt[c] = MaxReauth \/ actuation[c]

\* A started call returns, whatever the cloud does and however the link fails,
\* if the stack, the lock's messages and the consumer's code come to an end:
\* no retry, loop or wait of the library itself goes on for ever.
Termination == OthersAnswer => \A c \in Calls : (pc[c] # "idle") ~> (pc[c] = "done")

\* Callers that cancel what hangs get the device back, wherever the call hangs
\* and whether or not the stack ever answers: its flag is released.
FlagReleased == CallersCancel => \A d \in Devices : busy[d] ~> ~busy[d]

\* The calls implement the promise of DeviceLock.
Promise == INSTANCE DeviceLock WITH
  holding <- {c \in Calls : InFlag(c)}, moved <- writes, outcome <- result
DeviceLockSpec == Promise!Spec
=============================================================================
