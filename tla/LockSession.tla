---------------------------- MODULE LockSession ----------------------------
(***************************************************************************)
(* Concurrent calls of run_authenticated_lock_operation (aqara_ble/        *)
(* session.py): the per-device in-progress flag, the four notification     *)
(* subscriptions, the key exchange through the cloud, the actuator write   *)
(* and its point of no return, the clean-up, and the single                *)
(* re-authentication of a call whose token the cloud refuses (code 108).   *)
(*                                                                         *)
(* The calls run on one asyncio event loop, so the code between two awaits *)
(* is one action.  A blocking cloud call runs in a worker thread: it is    *)
(* not stopped when the call that awaits it is cancelled, and goes on as   *)
(* an orphan.  Calls with Cred "auth" share one CloudAuthManager.          *)
(***************************************************************************)
EXTENDS Naturals

CONSTANTS
  Calls,        \* the calls made to run_authenticated_lock_operation
  Devices,      \* device ids
  NoCall,       \* no call; as the owner of a key: no key yet, or a look-up's
  DeviceOf,     \* the device each call addresses
  Cred,         \* "auth" (CloudAuthManager), "signer" (static) or "both"
  PostAuth,     \* the calls that pass a post_auth hook
  Prefetchers,  \* change_language calls: precomputed_cloud_pubkey is given
  Cancellable,  \* the calls whose caller may cancel the task
  NChars,       \* length of PRE_AUTH_NOTIFY_ORDER (4 in the code)
  MaxKeyReads,  \* frames read while waiting for the lock's key (6 in the code)
  MaxReauth,    \* max_reauth of a call with Cred "auth" (1 in the code)
  MayExpire,    \* the cloud may let a token expire by itself
  MayLookUp,    \* an account look-up may ask for a lock's key (cloud_device_mac)
  StopMayFail   \* stop_notify may raise

ASSUME ConstantsOK ==
  /\ NoCall \notin Calls
  /\ DeviceOf \in [Calls -> Devices]
  /\ Cred \in [Calls -> {"auth", "signer", "both"}]
  /\ PostAuth \subseteq Calls
  /\ Prefetchers \subseteq {c \in PostAuth : Cred[c] = "auth"}
  /\ Cancellable \subseteq Calls
  /\ NChars \in Nat \ {0} /\ MaxKeyReads \in Nat \ {0} /\ MaxReauth \in Nat
  /\ MayExpire \in BOOLEAN /\ MayLookUp \in BOOLEAN /\ StopMayFail \in BOOLEAN

VARIABLES
  pc,         \* where each call awaits
  attempt,    \* loop variable of the wrapper
  actuation,  \* actuation_state["done"] of the current attempt
  signer,     \* token version the attempt signs with; 0: none, or a static one
  reads,      \* frames read in search of the lock's key
  nextChar,   \* loop index over PRE_AUTH_NOTIFY_ORDER
  exit,       \* how the inner try of the attempt was left
  result,     \* what the caller got
  worker,     \* the worker thread of the call, or a request it gave up on and
              \* the cloud may still process
  got,        \* token the login thread obtained
  writes,     \* history: actuator writes (or hook runs) of the call
  busy,       \* _device_operation_in_progress
  sub,        \* whose handler each notification of each device calls
  token,      \* CloudAuthManager._token (0: None)
  live,       \* the token version the cloud honours (0: none)
  issued,     \* number of tokens the cloud has issued
  cloudKey    \* the call the cloud's ephemeral key of each device was made for

callVars  == <<attempt, actuation, signer, reads, nextChar, exit, result, got>>
cloudVars == <<token, live, issued, cloudKey>>
vars == <<pc, callVars, worker, writes, busy, sub, cloudVars>>

Characteristics == 1 .. NChars

\* Awaits inside the in-progress flag; the inner try starts after "cccd".
Guarded  == {"pubkey", "lockkey", "verify", "ack", "write", "reply", "tail", "hook"}
Critical == Guarded \cup {"cccd", "cleanup"}
Outside  == {"idle", "prelogin", "prefetch", "login", "relogin", "done"}
Phases   == Critical \cup Outside
Exits    == {"none", "ok", "108", "fail", "cancelled"}
Results  == {"none", "ok", "108", "fail", "busy", "cancelled", "valueerror"}
Workers  == {"none", "login", "posting", "storing", "returning", "publickey", "verify"}

Init ==
  /\ pc        = [c \in Calls |-> "idle"]
  /\ attempt   = [c \in Calls |-> 0]
  /\ actuation = [c \in Calls |-> FALSE]
  /\ signer    = [c \in Calls |-> 0]
  /\ reads     = [c \in Calls |-> 0]
  /\ nextChar  = [c \in Calls |-> 1]
  /\ exit      = [c \in Calls |-> "none"]
  /\ result    = [c \in Calls |-> "none"]
  /\ worker    = [c \in Calls |-> "none"]
  /\ got       = [c \in Calls |-> 0]
  /\ writes    = [c \in Calls |-> 0]
  /\ busy      = [d \in Devices |-> FALSE]
  /\ sub       = [d \in Devices |-> [u \in Characteristics |-> NoCall]]
  /\ token = 0 /\ live = 0 /\ issued = 0
  /\ cloudKey  = [d \in Devices |-> NoCall]

-----------------------------------------------------------------------------
(* Steps the actions below share.                                          *)

Goto(c, p)   == pc' = [pc EXCEPT ![c] = p]
Return(c, r) == /\ Goto(c, "done")
                /\ result' = [result EXCEPT ![c] = r]

\* Variant of Enter: the check inside the try, whose finally clears the flag.
EnterInsideTry(c) ==
  \/ /\ busy[DeviceOf[c]]
     /\ busy' = [busy EXCEPT ![DeviceOf[c]] = FALSE]
     /\ Return(c, "busy")
     /\ actuation' = [actuation EXCEPT ![c] = FALSE]
     /\ UNCHANGED <<nextChar, exit>>
  \/ /\ ~busy[DeviceOf[c]]
     /\ busy' = [busy EXCEPT ![DeviceOf[c]] = TRUE]
     /\ Goto(c, "cccd")
     /\ actuation' = [actuation EXCEPT ![c] = FALSE]
     /\ nextChar' = [nextChar EXCEPT ![c] = 1]
     /\ exit' = [exit EXCEPT ![c] = "none"]
     /\ UNCHANGED result

\* Variant of Enter: the flag is set without being looked at.
EnterUnchecked(c) ==
  /\ busy' = [busy EXCEPT ![DeviceOf[c]] = TRUE]
  /\ Goto(c, "cccd")
  /\ actuation' = [actuation EXCEPT ![c] = FALSE]
  /\ nextChar' = [nextChar EXCEPT ![c] = 1]
  /\ exit' = [exit EXCEPT ![c] = "none"]
  /\ UNCHANGED result

\* The in-progress check and its setting, with no await between them.  The
\* exception of the check leaves the flag as it is.
Enter(c) ==
  \/ /\ busy[DeviceOf[c]]
     /\ Return(c, "busy")
     /\ actuation' = [actuation EXCEPT ![c] = FALSE]
     /\ UNCHANGED <<busy, nextChar, exit>>
  \/ /\ ~busy[DeviceOf[c]]
     /\ busy' = [busy EXCEPT ![DeviceOf[c]] = TRUE]
     /\ Goto(c, "cccd")
     /\ actuation' = [actuation EXCEPT ![c] = FALSE]
     /\ nextChar' = [nextChar EXCEPT ![c] = 1]
     /\ exit' = [exit EXCEPT ![c] = "none"]
     /\ UNCHANGED result

\* Variant of LeaveTry: the finally skips the first characteristic.
LeaveTrySkipping(c, r) ==
  /\ Goto(c, "cleanup")
  /\ exit' = [exit EXCEPT ![c] = r]
  /\ nextChar' = [nextChar EXCEPT ![c] = IF NChars > 1 THEN 2 ELSE 1]

\* Leave the inner try, normally or by an exception: its finally runs next.
LeaveTry(c, r) ==
  /\ Goto(c, "cleanup")
  /\ exit' = [exit EXCEPT ![c] = r]
  /\ nextChar' = [nextChar EXCEPT ![c] = 1]

\* Variant of CanRetry: the point of no return is forgotten.
CanRetryAnyTime(c) ==
  /\ Cred[c] = "auth"
  /\ exit[c] = "108"
  /\ attempt[c] < MaxReauth

\* Variant of CanRetry: one attempt too few.
CanRetryTooFew(c) ==
  /\ Cred[c] = "auth"
  /\ exit[c] = "108"
  /\ ~actuation[c]
  /\ attempt[c] + 1 < MaxReauth

\* What the wrapper asks before it logs in again.
CanRetry(c) ==
  /\ Cred[c] = "auth"
  /\ exit[c] = "108"
  /\ ~actuation[c]
  /\ attempt[c] < MaxReauth

\* What a signed request gets: a managed token is honoured while it is the
\* newest, a static one is the caller's affair.
CloudReplies(c) ==
  {"fail"} \cup IF Cred[c] = "auth" THEN {IF signer[c] = live THEN "ok" ELSE "108"}
                ELSE {"ok", "108"}

\* A key request that failed: the cloud never got it, or has it still to
\* process, as when its answer is only late.
GivesUpOn(c, r) ==
  \/ worker' = [worker EXCEPT ![c] = "none"]
  \/ r = "fail" /\ UNCHANGED worker
-----------------------------------------------------------------------------
(* The wrapper: credentials, login, retry.                                 *)

\* Both mechanisms: ValueError before anything else.
RejectBoth(c) ==
  /\ pc[c] = "idle" /\ Cred[c] = "both"
  /\ Return(c, "valueerror")
  /\ UNCHANGED <<attempt, actuation, signer, reads, nextChar, exit, got,
                 worker, writes, busy, sub, cloudVars>>

BeginStatic(c) ==
  /\ pc[c] = "idle" /\ Cred[c] = "signer"
  /\ Enter(c)
  /\ UNCHANGED <<attempt, signer, reads, got, worker, writes, sub, cloudVars>>

\* The login thread is started before the flag is looked at.  change_language
\* logs in and fetches the cloud key before it makes its call.
BeginAuth(c) ==
  /\ pc[c] = "idle" /\ Cred[c] = "auth"
  /\ Goto(c, IF c \in Prefetchers THEN "prelogin" ELSE "login")
  /\ worker' = [worker EXCEPT ![c] = "login"]
  /\ UNCHANGED <<callVars, writes, busy, sub, cloudVars>>

\* get_token in the thread: the cached token, or a login to make.
CheckCache(c) ==
  /\ worker[c] = "login"
  /\ worker' = [worker EXCEPT ![c] = IF token # 0 THEN "returning" ELSE "posting"]
  /\ got' = [got EXCEPT ![c] = token]
  /\ UNCHANGED <<pc, attempt, actuation, signer, reads, nextChar, exit, result,
                 writes, busy, sub, cloudVars>>

\* The cloud issues a token and stops honouring the account's earlier ones.
CloudLogin(c) ==
  /\ worker[c] = "posting"
  /\ issued' = issued + 1
  /\ live' = issued'
  /\ got' = [got EXCEPT ![c] = issued']
  /\ worker' = [worker EXCEPT ![c] = "storing"]
  /\ UNCHANGED <<pc, attempt, actuation, signer, reads, nextChar, exit, result,
                 writes, busy, sub, token, cloudKey>>

\* Wrong credentials (810), no network, no token in the answer.
LoginFails(c) ==
  /\ worker[c] = "posting"
  /\ worker' = [worker EXCEPT ![c] = "none"]
  /\ IF pc[c] \in {"prelogin", "login", "relogin"}
       THEN Return(c, "fail")
       ELSE UNCHANGED <<pc, result>>
  /\ UNCHANGED <<attempt, actuation, signer, reads, nextChar, exit, got,
                 writes, busy, sub, cloudVars>>

StoreToken(c) ==
  /\ worker[c] = "storing"
  /\ token' = got[c]
  /\ worker' = [worker EXCEPT ![c] = "returning"]
  /\ UNCHANGED <<pc, callVars, writes, busy, sub, live, issued, cloudKey>>

\* build_signer returns to the wrapper: the attempt starts at once.
LoginReturns(c) ==
  /\ pc[c] \in {"login", "relogin"} /\ worker[c] = "returning"
  /\ worker' = [worker EXCEPT ![c] = "none"]
  /\ signer' = [signer EXCEPT ![c] = got[c]]
  /\ attempt' = [attempt EXCEPT ![c] = IF pc[c] = "relogin" THEN @ + 1 ELSE @]
  /\ Enter(c)
  /\ UNCHANGED <<reads, got, writes, sub, cloudVars>>
-----------------------------------------------------------------------------
(* change_language before its call: the key is fetched outside the flag.   *)

PrefetchStarts(c) ==
  /\ pc[c] = "prelogin" /\ worker[c] = "returning"
  /\ signer' = [signer EXCEPT ![c] = got[c]]
  /\ Goto(c, "prefetch")
  /\ worker' = [worker EXCEPT ![c] = "publickey"]
  /\ UNCHANGED <<attempt, actuation, reads, nextChar, exit, result, got,
                 writes, busy, sub, cloudVars>>

\* A request that fails may be one whose answer did not come in time.
PrefetchReturns(c) ==
  /\ pc[c] = "prefetch"
  /\ \E r \in CloudReplies(c) :
       \/ /\ r = "ok"
          /\ cloudKey' = [cloudKey EXCEPT ![DeviceOf[c]] = c]
          /\ Goto(c, "login")
          /\ worker' = [worker EXCEPT ![c] = "login"]
          /\ UNCHANGED result
       \/ /\ r # "ok"
          /\ Return(c, r)
          /\ GivesUpOn(c, r)
          /\ UNCHANGED cloudKey
  /\ UNCHANGED <<attempt, actuation, signer, reads, nextChar, exit, got,
                 writes, busy, sub, token, live, issued>>
-----------------------------------------------------------------------------
(* One attempt, inside the flag.                                           *)

\* start_notify on the next characteristic; a failure is tolerated.  After
\* the last one the inner try is entered and the key fetched, or taken from
\* the caller.
EnableNotify(c) ==
  /\ pc[c] = "cccd"
  /\ LET d == DeviceOf[c] IN
       \/ sub' = [sub EXCEPT ![d][nextChar[c]] = c]
       \/ UNCHANGED sub
  /\ \/ /\ nextChar[c] < NChars
        /\ nextChar' = [nextChar EXCEPT ![c] = @ + 1]
        /\ UNCHANGED <<pc, worker>>
     \/ /\ nextChar[c] = NChars
        /\ nextChar' = [nextChar EXCEPT ![c] = 1]
        /\ Goto(c, IF c \in Prefetchers THEN "lockkey" ELSE "pubkey")
        /\ worker' = [worker EXCEPT ![c] = IF c \in Prefetchers THEN "none" ELSE "publickey"]
  /\ reads' = [reads EXCEPT ![c] = 0]
  /\ UNCHANGED <<attempt, actuation, signer, exit, result, got,
                 writes, busy, cloudVars>>

PubkeyReturns(c) ==
  /\ pc[c] = "pubkey"
  /\ \E r \in CloudReplies(c) :
       \/ /\ r = "ok"
          /\ cloudKey' = [cloudKey EXCEPT ![DeviceOf[c]] = c]
          /\ Goto(c, "lockkey")
          /\ worker' = [worker EXCEPT ![c] = "none"]
          /\ UNCHANGED <<exit, nextChar>>
       \/ /\ r # "ok"
          /\ LeaveTry(c, r)
          /\ GivesUpOn(c, r)
          /\ UNCHANGED cloudKey
  /\ UNCHANGED <<attempt, actuation, signer, reads, result, got,
                 writes, busy, sub, token, live, issued>>

\* Variant of EmptyAck: the wait for the key is not bounded.
EmptyAckForever(c) ==
  /\ pc[c] = "lockkey"
  /\ reads' = [reads EXCEPT ![c] = IF @ > MaxKeyReads THEN @ ELSE @ + 1]
  /\ UNCHANGED <<pc, attempt, actuation, signer, nextChar, exit, result, got, worker,
                 writes, busy, sub, cloudVars>>

\* Variant of EmptyAck: an answer other than the key starts the count again.
EmptyAckRestarting(c) ==
  /\ pc[c] = "lockkey"
  /\ reads' = [reads EXCEPT ![c] = IF @ = MaxKeyReads THEN 0 ELSE @ + 1]
  /\ UNCHANGED <<pc, attempt, actuation, signer, nextChar, exit, result, got, worker,
                 writes, busy, sub, cloudVars>>

\* An ACK 0x06 without a body before the key; the last one is an error.
EmptyAck(c) ==
  /\ pc[c] = "lockkey"
  /\ reads' = [reads EXCEPT ![c] = @ + 1]
  /\ \/ /\ reads'[c] < MaxKeyReads
        /\ UNCHANGED <<pc, exit, nextChar>>
     \/ /\ reads'[c] = MaxKeyReads
        /\ LeaveTry(c, "fail")
  /\ UNCHANGED <<attempt, actuation, signer, result, got, worker,
                 writes, busy, sub, cloudVars>>

LockKeyArrives(c) ==
  /\ pc[c] = "lockkey"
  /\ Goto(c, "verify")
  /\ worker' = [worker EXCEPT ![c] = "verify"]
  /\ UNCHANGED <<callVars, writes, busy, sub, cloudVars>>

VerifyReturns(c) ==
  /\ pc[c] = "verify"
  /\ worker' = [worker EXCEPT ![c] = "none"]
  /\ \E r \in CloudReplies(c) :
       \/ /\ r = "ok"
          /\ Goto(c, "ack")
          /\ UNCHANGED <<exit, nextChar>>
       \/ /\ r # "ok"
          /\ LeaveTry(c, r)
  /\ UNCHANGED <<attempt, actuation, signer, reads, result, got,
                 writes, busy, sub, cloudVars>>

\* What the lock may answer the verify data with: the repository does not say
\* what it makes of a session that is not its own.
LockAcks == {"07", "other"}

\* The call looks at the type of the answer and at nothing else.
AckAccepted(frame) == frame = "07"

\* The answer to the verify data.  Past it comes the point of no return.
AckArrives(c) ==
  /\ pc[c] = "ack"
  /\ \E frame \in LockAcks :
       \/ /\ AckAccepted(frame)
          /\ actuation' = [actuation EXCEPT ![c] = TRUE]
          /\ Goto(c, IF c \in PostAuth THEN "hook" ELSE "write")
          /\ writes' = [writes EXCEPT ![c] = IF c \in PostAuth THEN @ + 1 ELSE @]
          /\ UNCHANGED <<exit, nextChar>>
       \/ /\ ~AckAccepted(frame)
          /\ LeaveTry(c, "fail")
          /\ UNCHANGED <<actuation, writes>>
  /\ UNCHANGED <<attempt, signer, reads, result, got, worker, busy, sub, cloudVars>>

WriteControl(c) ==
  /\ pc[c] = "write"
  /\ writes' = [writes EXCEPT ![c] = @ + 1]
  /\ Goto(c, "reply")
  /\ UNCHANGED <<callVars, worker, busy, sub, cloudVars>>

\* The first frame of ff62, or none within notify_timeout.
ReplyOrTimeout(c) ==
  /\ pc[c] = "reply"
  /\ Goto(c, "tail")
  /\ UNCHANGED <<callVars, worker, writes, busy, sub, cloudVars>>

\* Follow-up reads and listen window over, or the hook returned.
Completes(c) ==
  /\ pc[c] \in {"tail", "hook"}
  /\ LeaveTry(c, "ok")
  /\ UNCHANGED <<attempt, actuation, signer, reads, result, got, worker, writes,
                 busy, sub, cloudVars>>

\* Timeout, link failure, a frame that does not parse or decrypt.  A write
\* that raises may have reached the lock or not.
BleFails(c) ==
  /\ pc[c] \in {"lockkey", "ack", "write", "reply", "tail", "hook"}
  /\ LeaveTry(c, "fail")
  /\ \/ UNCHANGED writes
     \/ /\ pc[c] = "write"
        /\ writes' = [writes EXCEPT ![c] = @ + 1]
  /\ UNCHANGED <<attempt, actuation, signer, reads, result, got, worker,
                 busy, sub, cloudVars>>

\* The consumer's hook or on_report callback makes a cloud call of its own
\* and lets its CloudServiceError 108 through.
ConsumerRaises108(c) ==
  /\ pc[c] \in {"tail", "hook"}
  /\ LeaveTry(c, "108")
  /\ UNCHANGED <<attempt, actuation, signer, reads, result, got, worker, writes,
                 busy, sub, cloudVars>>

\* stop_notify on the next characteristic, its exceptions suppressed.  After
\* the last one the flag is released and the wrapper decides.
StopNotify(c) ==
  /\ pc[c] = "cleanup"
  /\ \/ sub' = [sub EXCEPT ![DeviceOf[c]][nextChar[c]] = NoCall]
     \/ StopMayFail /\ UNCHANGED sub
  /\ \/ /\ nextChar[c] < NChars
        /\ nextChar' = [nextChar EXCEPT ![c] = @ + 1]
        /\ UNCHANGED <<pc, result, worker, busy>>
     \/ /\ nextChar[c] = NChars
        /\ busy' = [busy EXCEPT ![DeviceOf[c]] = FALSE]
        /\ \/ /\ CanRetry(c)
              /\ Goto(c, "relogin")
              /\ worker' = [worker EXCEPT ![c] = "posting"]
              /\ UNCHANGED result
           \/ /\ ~CanRetry(c)
              /\ Return(c, exit[c])
              /\ UNCHANGED worker
        /\ UNCHANGED nextChar
  /\ UNCHANGED <<attempt, actuation, signer, reads, exit, got, writes, cloudVars>>
-----------------------------------------------------------------------------
(* The caller cancels the task: CancelledError at the await.  Only the     *)
(* inner try has a finally for the subscriptions, and that finally is not  *)
(* shielded.                                                               *)

CancelOutside(c) ==
  /\ pc[c] \in Outside \ {"idle", "done"}
  /\ Return(c, "cancelled")
  /\ UNCHANGED <<exit, nextChar, writes, busy>>

CancelGuarded(c) ==
  /\ pc[c] \in Guarded
  /\ LeaveTry(c, "cancelled")
  /\ \/ UNCHANGED writes
     \/ /\ pc[c] = "write"
        /\ writes' = [writes EXCEPT ![c] = @ + 1]
  /\ UNCHANGED <<result, busy>>

\* Variant of CancelUnguarded: no outer finally.
CancelUnguardedKeepingFlag(c) ==
  /\ pc[c] \in {"cccd", "cleanup"}
  /\ Return(c, "cancelled")
  /\ UNCHANGED <<exit, nextChar, writes, busy>>

CancelUnguarded(c) ==
  /\ pc[c] \in {"cccd", "cleanup"}
  /\ Return(c, "cancelled")
  /\ busy' = [busy EXCEPT ![DeviceOf[c]] = FALSE]
  /\ UNCHANGED <<exit, nextChar, writes>>

Cancel(c) ==
  /\ c \in Cancellable
  /\ CancelOutside(c) \/ CancelGuarded(c) \/ CancelUnguarded(c)
  /\ UNCHANGED <<attempt, actuation, signer, reads, got, worker, sub, cloudVars>>

\* The cloud processes, or never gets, the request of a thread whose call no
\* longer awaits it: cancelled, or out of patience.
OrphanReturns(c) ==
  /\ \/ worker[c] = "publickey" /\ pc[c] \notin {"pubkey", "prefetch"}
     \/ worker[c] = "verify" /\ pc[c] # "verify"
  /\ worker' = [worker EXCEPT ![c] = "none"]
  /\ \/ /\ worker[c] = "publickey" /\ "ok" \in CloudReplies(c)
        /\ cloudKey' = [cloudKey EXCEPT ![DeviceOf[c]] = c]
     \/ UNCHANGED cloudKey
  /\ UNCHANGED <<pc, callVars, writes, busy, sub, token, live, issued>>

\* The account looks a lock's MAC up to tell its devices apart, outside every
\* flag: the answer it wants comes with a new key of the device.
LookUp(d) ==
  /\ MayLookUp
  /\ cloudKey' = [cloudKey EXCEPT ![d] = NoCall]
  /\ UNCHANGED <<pc, callVars, worker, writes, busy, sub, token, live, issued>>

TokenExpires ==
  /\ MayExpire /\ live # 0
  /\ live' = 0
  /\ UNCHANGED <<pc, callVars, worker, writes, busy, sub, token, issued, cloudKey>>
-----------------------------------------------------------------------------
Begin(c) == RejectBoth(c) \/ BeginStatic(c) \/ BeginAuth(c)

Thread(c) == \/ CheckCache(c) \/ CloudLogin(c) \/ LoginFails(c) \/ StoreToken(c)
             \/ OrphanReturns(c)

Resume(c) ==
  \/ LoginReturns(c) \/ PrefetchStarts(c) \/ PrefetchReturns(c)
  \/ EnableNotify(c) \/ PubkeyReturns(c) \/ EmptyAck(c) \/ LockKeyArrives(c)
  \/ VerifyReturns(c) \/ AckArrives(c) \/ WriteControl(c) \/ ReplyOrTimeout(c)
  \/ Completes(c) \/ BleFails(c) \/ ConsumerRaises108(c) \/ StopNotify(c)

AllReturned ==
  /\ \A c \in Calls : pc[c] = "done"
  /\ UNCHANGED vars

Next ==
  \/ \E c \in Calls : Begin(c) \/ Thread(c) \/ Resume(c) \/ Cancel(c)
  \/ \E d \in Devices : LookUp(d)
  \/ TokenExpires
  \/ AllReturned

\* Awaits no deadline bounds: the requests to the Bluetooth stack (start_notify,
\* stop_notify, the writes and the best-effort steps before the exchange), the
\* hook and the callbacks of the consumer, and a message of the lock, whose
\* fragments have a deadline each but no common one.
Unbounded == Critical \ {"pubkey", "verify", "reply"}

\* Every HTTP request has a timeout, and so has the wait for the reply, so a call
\* there and its thread go on; nobody has to call, cancel or let a token expire.
Fairness ==
  \A c \in Calls : WF_vars(Thread(c)) /\ WF_vars(Resume(c) /\ pc[c] \notin Unbounded)

\* What the code leaves to the stack, the lock and the consumer.
OthersAnswer == \A c \in Calls : WF_vars(Resume(c) /\ pc[c] \in Unbounded)

\* A caller that does not wait for ever: it cancels a call that hangs, and
\* again when the clean-up hangs.
CallersCancel == \A c \in Calls : WF_vars(Cancel(c))

Spec == Init /\ [][Next]_vars
FairSpec == Spec /\ Fairness
=============================================================================
