------------------------- MODULE LockSessionProofs -------------------------
(***************************************************************************)
(* Proofs about LockSession, for any calls, devices and bounds: first what *)
(* one call keeps to, then what the calls keep to together.                *)
(***************************************************************************)
EXTENDS LockSessionProps, TLAPS

\* The values the actions assign belong to the sets of the type invariant.
LEMMA Members ==
  /\ "idle" \in Phases /\ "prelogin" \in Phases /\ "prefetch" \in Phases
  /\ "login" \in Phases /\ "relogin" \in Phases /\ "done" \in Phases
  /\ "cccd" \in Phases /\ "cleanup" \in Phases /\ "pubkey" \in Phases
  /\ "lockkey" \in Phases /\ "verify" \in Phases /\ "ack" \in Phases
  /\ "write" \in Phases /\ "reply" \in Phases /\ "tail" \in Phases /\ "hook" \in Phases
  /\ "ok" \in Exits /\ "108" \in Exits /\ "fail" \in Exits /\ "cancelled" \in Exits
  /\ "none" \in Exits
  /\ "none" \in Results /\ "ok" \in Results /\ "108" \in Results /\ "fail" \in Results
  /\ "busy" \in Results /\ "cancelled" \in Results /\ "valueerror" \in Results
  /\ "none" \in Workers /\ "login" \in Workers /\ "posting" \in Workers
  /\ "storing" \in Workers /\ "returning" \in Workers /\ "publickey" \in Workers
  /\ "verify" \in Workers
  /\ Exits \subseteq Results
BY DEF Phases, Critical, Guarded, Outside, Exits, Results, Workers

\* What the constants give.
LEMMA Constants ==
  /\ \A c \in Calls : DeviceOf[c] \in Devices
  /\ NoCall \notin Calls
  /\ 1 \in Characteristics /\ NChars \in Characteristics
  /\ Characteristics \subseteq Nat
  /\ \A u \in Characteristics : u < NChars => u + 1 \in Characteristics
  /\ \A u \in Characteristics : u < NChars \/ u = NChars
  /\ MaxKeyReads \in Nat /\ MaxKeyReads > 0 /\ MaxReauth \in Nat
BY ConstantsOK DEF Characteristics

LEMMA InitTypeOK == Init => TypeOK
BY Constants, Members DEF Init, TypeOK

\* What the shared steps leave well-typed.
LEMMA GotoType ==
  ASSUME TypeOK, NEW c \in Calls, NEW p \in Phases, Goto(c, p)
  PROVE  pc' \in [Calls -> Phases]
BY DEF TypeOK, Goto

LEMMA ReturnType ==
  ASSUME TypeOK, NEW c \in Calls, NEW r \in Results, Return(c, r)
  PROVE  pc' \in [Calls -> Phases] /\ result' \in [Calls -> Results]
BY Members DEF TypeOK, Return, Goto

LEMMA EnterType ==
  ASSUME TypeOK, NEW c \in Calls, Enter(c)
  PROVE  /\ pc' \in [Calls -> Phases]
         /\ result' \in [Calls -> Results]
         /\ busy' \in [Devices -> BOOLEAN]
         /\ actuation' \in [Calls -> BOOLEAN]
         /\ nextChar' \in [Calls -> Characteristics]
         /\ exit' \in [Calls -> Exits]
<1>1. CASE busy[DeviceOf[c]]
  <2>1. /\ Return(c, "busy")
        /\ actuation' = [actuation EXCEPT ![c] = FALSE]
        /\ UNCHANGED <<busy, nextChar, exit>>
    BY <1>1 DEF Enter
  <2>2. "busy" \in Results
    BY Members
  <2>3. QED
    BY <2>1, <2>2, ReturnType DEF TypeOK
<1>2. CASE ~busy[DeviceOf[c]]
  <2>1. /\ busy' = [busy EXCEPT ![DeviceOf[c]] = TRUE]
        /\ Goto(c, "cccd")
        /\ actuation' = [actuation EXCEPT ![c] = FALSE]
        /\ nextChar' = [nextChar EXCEPT ![c] = 1]
        /\ exit' = [exit EXCEPT ![c] = "none"]
        /\ result' = result
    BY <1>2 DEF Enter
  <2>2. "cccd" \in Phases /\ "none" \in Exits
    BY Members
  <2>3. QED
    BY <2>1, <2>2, GotoType, Constants DEF TypeOK
<1>3. QED
  BY <1>1, <1>2

LEMMA LeaveTryType ==
  ASSUME TypeOK, NEW c \in Calls, NEW r \in Exits, LeaveTry(c, r)
  PROVE  /\ pc' \in [Calls -> Phases]
         /\ exit' \in [Calls -> Exits]
         /\ nextChar' \in [Calls -> Characteristics]
BY Constants, Members DEF TypeOK, LeaveTry, Goto

\* The phases of a call that has not commanded the lock, and those past it.
Before == {"idle", "prelogin", "prefetch", "login", "relogin", "cccd", "pubkey",
           "lockkey", "verify", "ack", "write"}
After  == {"reply", "tail", "hook"}

\* A call that logs in again has attempts left, and one that reads in search
\* of the lock's key has reads left.
Counts(c) ==
  /\ pc[c] = "relogin" => attempt[c] < MaxReauth
  /\ pc[c] \in {"pubkey", "lockkey"} => reads[c] < MaxKeyReads

\* The attempt that commanded the lock is past its point of no return until
\* the call is done, and an attempt is left as "ok" only if it did.
Moved(c) ==
  /\ writes[c] \in {0, 1}
  /\ pc[c] \in Before => writes[c] = 0
  /\ pc[c] \in After => writes[c] = 1
  /\ pc[c] \in After \cup {"write"} => actuation[c]
  /\ pc[c] = "cleanup" /\ writes[c] = 1 => actuation[c]

\* A call has an outcome when it is done and not before.
Outcome(c) ==
  /\ pc[c] = "done" <=> result[c] # "none"
  /\ pc[c] = "cleanup" => exit[c] # "none" /\ (exit[c] = "ok" => writes[c] = 1)
  /\ result[c] = "busy" => writes[c] = 0

\* A managed call that got 108 had no attempt left, or was past its point of
\* no return.
Retried(c) ==
  /\ c \notin Prefetchers /\ result[c] = "108" /\ Cred[c] = "auth"
       => attempt[c] = MaxReauth \/ actuation[c]
  /\ pc[c] \in {"prelogin", "prefetch"} => c \in Prefetchers

CallInv(c) == Counts(c) /\ Moved(c) /\ Outcome(c) /\ Retried(c)

\* The inductive invariant of the calls taken one at a time.
Inv == TypeOK /\ \A c \in Calls : CallInv(c)

\* The answers of the cloud are ways to leave the attempt.
LEMMA RepliesType ==
  ASSUME NEW c \in Calls, NEW r \in CloudReplies(c)
  PROVE  r \in {"ok", "108", "fail"}
BY DEF CloudReplies

LEMMA StepTypeOK == Inv /\ [Next]_vars => TypeOK'
<1> SUFFICES ASSUME TypeOK, \A c \in Calls : Counts(c), [Next]_vars PROVE TypeOK'
  BY DEF Inv, CallInv
<1> USE DEF TypeOK, callVars, cloudVars
<1>1. ASSUME NEW c \in Calls, RejectBoth(c) PROVE TypeOK'
  BY <1>1, Members DEF RejectBoth, Return, Goto
<1>2. ASSUME NEW c \in Calls, BeginStatic(c) PROVE TypeOK'
  BY <1>2, EnterType DEF BeginStatic
<1>3. ASSUME NEW c \in Calls, BeginAuth(c) PROVE TypeOK'
  BY <1>3, Members DEF BeginAuth, Goto
<1>4. ASSUME NEW c \in Calls, CheckCache(c) PROVE TypeOK'
  BY <1>4, Members DEF CheckCache
<1>5. ASSUME NEW c \in Calls, CloudLogin(c) PROVE TypeOK'
  BY <1>5, Members DEF CloudLogin
<1>6. ASSUME NEW c \in Calls, LoginFails(c) PROVE TypeOK'
  BY <1>6, ReturnType, Members DEF LoginFails
<1>7. ASSUME NEW c \in Calls, StoreToken(c) PROVE TypeOK'
  BY <1>7, Members DEF StoreToken
<1>8. ASSUME NEW c \in Calls, OrphanReturns(c) PROVE TypeOK'
  <2>1. cloudKey' \in [Devices -> Calls \cup {NoCall}]
    BY <1>8 DEF OrphanReturns
  <2>2. worker' \in [Calls -> Workers]
    BY <1>8, Members DEF OrphanReturns
  <2>3. QED
    BY <1>8, <2>1, <2>2 DEF OrphanReturns
<1>9. ASSUME NEW c \in Calls, LoginReturns(c) PROVE TypeOK'
  <2>1. attempt' \in [Calls -> 0 .. MaxReauth]
    BY <1>9, Constants DEF LoginReturns, Counts
  <2>2. signer' \in [Calls -> Nat] /\ worker' \in [Calls -> Workers]
    BY <1>9, Members DEF LoginReturns
  <2>3. QED
    BY <1>9, <2>1, <2>2, EnterType DEF LoginReturns
<1>10. ASSUME NEW c \in Calls, PrefetchStarts(c) PROVE TypeOK'
  BY <1>10, Members DEF PrefetchStarts, Goto
<1>11. ASSUME NEW c \in Calls, PrefetchReturns(c) PROVE TypeOK'
  <2>1. PICK r \in CloudReplies(c) : PrefetchReturns(c)!2!(r)
    BY <1>11 DEF PrefetchReturns
  <2>2. r \in Results
    BY RepliesType, Members
  <2>3. CASE r = "ok"
    <3>1. /\ cloudKey' = [cloudKey EXCEPT ![DeviceOf[c]] = c]
          /\ pc' = [pc EXCEPT ![c] = "login"]
          /\ worker' = [worker EXCEPT ![c] = "login"]
          /\ result' = result
      BY <2>1, <2>3 DEF Goto
    <3>2. QED
      BY <1>11, <3>1, Members DEF PrefetchReturns
  <2>4. CASE r # "ok"
    <3>1. Return(c, r) /\ GivesUpOn(c, r) /\ cloudKey' = cloudKey
      BY <2>1, <2>4
    <3>2. worker' \in [Calls -> Workers]
      BY <3>1, Members DEF GivesUpOn
    <3>3. QED
      BY <1>11, <2>2, <3>1, <3>2, ReturnType DEF PrefetchReturns
  <2>5. QED
    BY <2>3, <2>4
<1>12. ASSUME NEW c \in Calls, EnableNotify(c) PROVE TypeOK'
  <2>1. sub' \in [Devices -> [Characteristics -> Calls \cup {NoCall}]]
    <3>1. CASE sub' = [sub EXCEPT ![DeviceOf[c]][nextChar[c]] = c]
      BY <3>1
    <3>2. CASE sub' = sub
      BY <3>2
    <3>3. sub' = [sub EXCEPT ![DeviceOf[c]][nextChar[c]] = c] \/ sub' = sub
      BY <1>12 DEF EnableNotify
    <3>4. QED
      BY <3>1, <3>2, <3>3
  <2>2. nextChar' \in [Calls -> Characteristics]
    <3>1. \/ nextChar[c] < NChars /\ nextChar' = [nextChar EXCEPT ![c] = nextChar[c] + 1]
          \/ nextChar' = [nextChar EXCEPT ![c] = 1]
      BY <1>12 DEF EnableNotify
    <3>2. nextChar[c] \in Characteristics
      OBVIOUS
    <3>3. nextChar[c] < NChars => nextChar[c] + 1 \in Characteristics
      BY <3>2, Constants
    <3>4. QED
      BY <3>1, <3>3, Constants
  <2>3. pc' \in [Calls -> Phases] /\ worker' \in [Calls -> Workers]
    <3>1. \/ pc' = pc /\ worker' = worker
          \/ /\ pc' = [pc EXCEPT ![c] = IF c \in Prefetchers THEN "lockkey" ELSE "pubkey"]
             /\ worker' = [worker EXCEPT ![c] = IF c \in Prefetchers THEN "none"
                                                                  ELSE "publickey"]
      BY <1>12 DEF EnableNotify, Goto
    <3>2. pc' \in [Calls -> Phases]
      BY <3>1, Members
    <3>3. worker' \in [Calls -> Workers]
      BY <3>1, Members
    <3>4. QED
      BY <3>2, <3>3
  <2>4. reads' \in [Calls -> 0 .. MaxKeyReads]
    BY <1>12, Constants DEF EnableNotify
  <2>5. QED
    BY <1>12, <2>1, <2>2, <2>3, <2>4 DEF EnableNotify
<1>13. ASSUME NEW c \in Calls, PubkeyReturns(c) PROVE TypeOK'
  <2>1. PICK r \in CloudReplies(c) : PubkeyReturns(c)!2!(r)
    BY <1>13 DEF PubkeyReturns
  <2>2. r \in Exits
    BY RepliesType, Members
  <2>3. CASE r = "ok"
    <3>1. /\ cloudKey' = [cloudKey EXCEPT ![DeviceOf[c]] = c]
          /\ pc' = [pc EXCEPT ![c] = "lockkey"]
          /\ worker' = [worker EXCEPT ![c] = "none"]
          /\ exit' = exit /\ nextChar' = nextChar
      BY <2>1, <2>3 DEF Goto
    <3>2. QED
      BY <1>13, <3>1, Members DEF PubkeyReturns
  <2>4. CASE r # "ok"
    <3>1. LeaveTry(c, r) /\ GivesUpOn(c, r) /\ cloudKey' = cloudKey
      BY <2>1, <2>4
    <3>2. worker' \in [Calls -> Workers]
      BY <3>1, Members DEF GivesUpOn
    <3>3. QED
      BY <1>13, <2>2, <3>1, <3>2, LeaveTryType DEF PubkeyReturns
  <2>5. QED
    BY <2>3, <2>4
<1>14. ASSUME NEW c \in Calls, EmptyAck(c) PROVE TypeOK'
  <2>1. reads' \in [Calls -> 0 .. MaxKeyReads]
    BY <1>14, Constants DEF EmptyAck, Counts
  <2>2. pc' \in [Calls -> Phases] /\ exit' \in [Calls -> Exits]
        /\ nextChar' \in [Calls -> Characteristics]
    BY <1>14, LeaveTryType, Members DEF EmptyAck
  <2>3. QED
    BY <1>14, <2>1, <2>2 DEF EmptyAck
<1>15. ASSUME NEW c \in Calls, LockKeyArrives(c) PROVE TypeOK'
  BY <1>15, Members DEF LockKeyArrives, Goto
<1>16. ASSUME NEW c \in Calls, VerifyReturns(c) PROVE TypeOK'
  <2>1. PICK r \in CloudReplies(c) : VerifyReturns(c)!3!(r)
    BY <1>16 DEF VerifyReturns
  <2>2. r \in Exits
    BY RepliesType, Members
  <2>3. worker' \in [Calls -> Workers]
    BY <1>16, Members DEF VerifyReturns
  <2>4. CASE r = "ok"
    <3>1. /\ pc' = [pc EXCEPT ![c] = "ack"]
          /\ exit' = exit /\ nextChar' = nextChar
      BY <2>1, <2>4 DEF Goto
    <3>2. pc' \in [Calls -> Phases]
      BY <3>1, Members
    <3>3. QED
      BY <1>16, <2>3, <3>1, <3>2 DEF VerifyReturns
  <2>5. CASE r # "ok"
    <3>1. LeaveTry(c, r)
      BY <2>1, <2>5
    <3>2. QED
      BY <1>16, <2>2, <2>3, <3>1, LeaveTryType DEF VerifyReturns
  <2>6. QED
    BY <2>4, <2>5
<1>17. ASSUME NEW c \in Calls, AckArrives(c) PROVE TypeOK'
  <2>1. PICK frame \in LockAcks : AckArrives(c)!2!(frame)
    BY <1>17 DEF AckArrives
  <2>2. CASE AckAccepted(frame)
    <3>1. /\ actuation' = [actuation EXCEPT ![c] = TRUE]
          /\ pc' = [pc EXCEPT ![c] = IF c \in PostAuth THEN "hook" ELSE "write"]
          /\ writes' = [writes EXCEPT ![c] = IF c \in PostAuth THEN @ + 1 ELSE @]
          /\ exit' = exit /\ nextChar' = nextChar
      BY <2>1, <2>2 DEF Goto
    <3>2. QED
      BY <1>17, <3>1, Members DEF AckArrives
  <2>3. CASE ~AckAccepted(frame)
    <3>1. LeaveTry(c, "fail") /\ actuation' = actuation /\ writes' = writes
      BY <2>1, <2>3
    <3>2. QED
      BY <1>17, <3>1, LeaveTryType, Members DEF AckArrives
  <2>4. QED
    BY <2>2, <2>3
<1>18. ASSUME NEW c \in Calls, WriteControl(c) PROVE TypeOK'
  BY <1>18, Members DEF WriteControl, Goto
<1>19. ASSUME NEW c \in Calls, ReplyOrTimeout(c) PROVE TypeOK'
  BY <1>19, Members DEF ReplyOrTimeout, Goto
<1>20. ASSUME NEW c \in Calls, Completes(c) PROVE TypeOK'
  BY <1>20, LeaveTryType, Members DEF Completes
<1>21. ASSUME NEW c \in Calls, BleFails(c) PROVE TypeOK'
  <2>1. writes' \in [Calls -> Nat]
    BY <1>21 DEF BleFails
  <2>2. QED
    BY <1>21, <2>1, LeaveTryType, Members DEF BleFails
<1>22. ASSUME NEW c \in Calls, ConsumerRaises108(c) PROVE TypeOK'
  BY <1>22, LeaveTryType, Members DEF ConsumerRaises108
<1>23. ASSUME NEW c \in Calls, StopNotify(c) PROVE TypeOK'
  <2>1. sub' \in [Devices -> [Characteristics -> Calls \cup {NoCall}]]
    <3>1. CASE sub' = [sub EXCEPT ![DeviceOf[c]][nextChar[c]] = NoCall]
      BY <3>1
    <3>2. CASE sub' = sub
      BY <3>2
    <3>3. sub' = [sub EXCEPT ![DeviceOf[c]][nextChar[c]] = NoCall] \/ sub' = sub
      BY <1>23 DEF StopNotify
    <3>4. QED
      BY <3>1, <3>2, <3>3
  <2>2. nextChar' \in [Calls -> Characteristics] /\ busy' \in [Devices -> BOOLEAN]
    <3>1. \/ /\ nextChar[c] < NChars
             /\ nextChar' = [nextChar EXCEPT ![c] = nextChar[c] + 1]
             /\ busy' = busy
          \/ nextChar' = nextChar /\ busy' = [busy EXCEPT ![DeviceOf[c]] = FALSE]
      BY <1>23 DEF StopNotify
    <3>2. nextChar[c] \in Characteristics
      OBVIOUS
    <3>3. nextChar[c] < NChars => nextChar[c] + 1 \in Characteristics
      BY <3>2, Constants
    <3>4. QED
      BY <3>1, <3>3
  <2>3. /\ pc' \in [Calls -> Phases] /\ result' \in [Calls -> Results]
        /\ worker' \in [Calls -> Workers]
    <3>1. exit[c] \in Results
      BY Members
    <3>2. \/ pc' = pc /\ result' = result /\ worker' = worker
          \/ /\ Goto(c, "relogin") /\ result' = result
             /\ worker' = [worker EXCEPT ![c] = "posting"]
          \/ Return(c, exit[c]) /\ worker' = worker
      BY <1>23 DEF StopNotify
    <3>3. QED
      BY <3>1, <3>2, ReturnType, GotoType, Members
  <2>4. QED
    BY <1>23, <2>1, <2>2, <2>3 DEF StopNotify
<1>24. ASSUME NEW c \in Calls, Cancel(c) PROVE TypeOK'
  <2>1. CASE CancelOutside(c)
    BY <1>24, <2>1, ReturnType, Members DEF Cancel, CancelOutside
  <2>2. CASE CancelGuarded(c)
    <3>1. writes' \in [Calls -> Nat]
      BY <2>2 DEF CancelGuarded
    <3>2. QED
      BY <1>24, <2>2, <3>1, LeaveTryType, Members DEF Cancel, CancelGuarded
  <2>3. CASE CancelUnguarded(c)
    <3>1. busy' \in [Devices -> BOOLEAN]
      BY <2>3 DEF CancelUnguarded
    <3>2. QED
      BY <1>24, <2>3, <3>1, ReturnType, Members DEF Cancel, CancelUnguarded
  <2>4. QED
    BY <1>24, <2>1, <2>2, <2>3 DEF Cancel
<1>25. CASE TokenExpires
  BY <1>25 DEF TokenExpires
<1>26. CASE UNCHANGED vars
  BY <1>26 DEF vars
<1>27. ASSUME NEW d \in Devices, LookUp(d) PROVE TypeOK'
  BY <1>27 DEF LookUp
<1>28. QED
  BY <1>1, <1>2, <1>3, <1>4, <1>5, <1>6, <1>7, <1>8, <1>9, <1>10, <1>11, <1>12,
     <1>13, <1>14, <1>15, <1>16, <1>17, <1>18, <1>19, <1>20, <1>21, <1>22, <1>23,
     <1>24, <1>25, <1>26, <1>27 DEF Next, Begin, Thread, Resume, AllReturned

\* A step that no call takes.
Aside == TokenExpires \/ \E d \in Devices : LookUp(d)

\* A step of one call leaves the state of the others alone.
Frame(c) ==
  \A x \in Calls \ {c} :
    /\ pc'[x] = pc[x] /\ attempt'[x] = attempt[x] /\ actuation'[x] = actuation[x]
    /\ reads'[x] = reads[x] /\ exit'[x] = exit[x] /\ result'[x] = result[x]
    /\ writes'[x] = writes[x] /\ nextChar'[x] = nextChar[x]

LEMMA StepFrame ==
  ASSUME TypeOK, NEW c \in Calls, Begin(c) \/ Thread(c) \/ Resume(c) \/ Cancel(c)
  PROVE  Frame(c)
<1> USE DEF TypeOK, callVars, cloudVars, Frame
<1>1. ASSUME RejectBoth(c) PROVE Frame(c)
  BY <1>1 DEF RejectBoth, Return, Goto
<1>2. ASSUME Enter(c) PROVE
        \A x \in Calls \ {c} :
          /\ pc'[x] = pc[x] /\ actuation'[x] = actuation[x] /\ exit'[x] = exit[x]
          /\ result'[x] = result[x] /\ nextChar'[x] = nextChar[x]
  BY <1>2 DEF Enter, Return, Goto
<1>3. ASSUME NEW r, LeaveTry(c, r) PROVE
        \A x \in Calls \ {c} :
          /\ pc'[x] = pc[x] /\ exit'[x] = exit[x] /\ nextChar'[x] = nextChar[x]
  BY <1>3 DEF LeaveTry, Goto
<1>4. ASSUME BeginStatic(c) \/ LoginReturns(c) PROVE Frame(c)
  BY <1>2, <1>4 DEF BeginStatic, LoginReturns
<1>5. ASSUME BeginAuth(c) \/ PrefetchStarts(c) PROVE Frame(c)
  BY <1>5 DEF BeginAuth, PrefetchStarts, Goto
<1>6. ASSUME Thread(c) PROVE Frame(c)
  BY <1>6 DEF Thread, CheckCache, CloudLogin, LoginFails, StoreToken, OrphanReturns,
              Return, Goto
<1>7. ASSUME PrefetchReturns(c) PROVE Frame(c)
  BY <1>7 DEF PrefetchReturns, Return, Goto
<1>8. ASSUME EnableNotify(c) PROVE Frame(c)
  BY <1>8 DEF EnableNotify, Goto
<1>9. ASSUME PubkeyReturns(c) PROVE Frame(c)
  BY <1>3, <1>9 DEF PubkeyReturns, Goto
<1>10. ASSUME EmptyAck(c) PROVE Frame(c)
  BY <1>3, <1>10 DEF EmptyAck
<1>11. ASSUME LockKeyArrives(c) \/ WriteControl(c) \/ ReplyOrTimeout(c) PROVE Frame(c)
  BY <1>11 DEF LockKeyArrives, WriteControl, ReplyOrTimeout, Goto
<1>12. ASSUME VerifyReturns(c) PROVE Frame(c)
  BY <1>3, <1>12 DEF VerifyReturns, Goto
<1>13. ASSUME AckArrives(c) PROVE Frame(c)
  BY <1>3, <1>13 DEF AckArrives, Goto
<1>14. ASSUME Completes(c) \/ BleFails(c) \/ ConsumerRaises108(c) PROVE Frame(c)
  BY <1>3, <1>14 DEF Completes, BleFails, ConsumerRaises108
<1>15. ASSUME StopNotify(c) PROVE Frame(c)
  BY <1>15 DEF StopNotify, Return, Goto
<1>16. ASSUME Cancel(c) PROVE Frame(c)
  BY <1>3, <1>16 DEF Cancel, CancelOutside, CancelGuarded, CancelUnguarded, Return, Goto
<1>17. QED
  BY <1>1, <1>4, <1>5, <1>6, <1>7, <1>8, <1>9, <1>10, <1>11, <1>12, <1>13, <1>14,
     <1>15, <1>16 DEF Begin, Resume

\* A number up to a bound that is not below it is at it.
LEMMA AtBound ==
  ASSUME NEW m \in Nat, NEW n \in 0 .. m, ~(n < m)
  PROVE  n = m
OBVIOUS

LEMMA InitInv == Init => Inv
BY InitTypeOK, Constants DEF Init, Inv, CallInv, Counts, Moved, Outcome, Retried,
   Before, After

\* The invariant of the call that takes the step, action by action.
LEMMA OwnStep ==
  ASSUME TypeOK, NEW c \in Calls, CallInv(c),
         Begin(c) \/ Thread(c) \/ Resume(c) \/ Cancel(c)
  PROVE  CallInv(c)'
<1> USE DEF TypeOK, callVars, cloudVars, CallInv, Counts, Moved, Outcome, Retried,
           Before, After
<1>1. CASE RejectBoth(c)
  BY <1>1 DEF RejectBoth, Return, Goto
<1>2. CASE BeginStatic(c)
  BY <1>2 DEF BeginStatic, Enter, Return, Goto
<1>3. CASE BeginAuth(c)
  BY <1>3 DEF BeginAuth, Goto
<1>4. CASE CheckCache(c)
  BY <1>4 DEF CheckCache
<1>5. CASE CloudLogin(c)
  BY <1>5 DEF CloudLogin
<1>6. CASE LoginFails(c)
  BY <1>6 DEF LoginFails, Return, Goto
<1>7. CASE StoreToken(c)
  BY <1>7 DEF StoreToken
<1>8. CASE OrphanReturns(c)
  BY <1>8 DEF OrphanReturns
<1>9. CASE LoginReturns(c)
  BY <1>9 DEF LoginReturns, Enter, Return, Goto
<1>10. CASE PrefetchStarts(c)
  BY <1>10 DEF PrefetchStarts, Goto
<1>11. CASE PrefetchReturns(c)
  BY <1>11, RepliesType DEF PrefetchReturns, Return, Goto
<1>12. CASE EnableNotify(c)
  BY <1>12, Constants DEF EnableNotify, Goto
<1>13. CASE PubkeyReturns(c)
  BY <1>13, RepliesType DEF PubkeyReturns, LeaveTry, Goto
<1>14. CASE EmptyAck(c)
  BY <1>14 DEF EmptyAck, LeaveTry, Goto
<1>15. CASE LockKeyArrives(c)
  BY <1>15 DEF LockKeyArrives, Goto
<1>16. CASE VerifyReturns(c)
  BY <1>16, RepliesType DEF VerifyReturns, LeaveTry, Goto
<1>17. CASE AckArrives(c)
  BY <1>17 DEF AckArrives, LockAcks, AckAccepted, LeaveTry, Goto
<1>18. CASE WriteControl(c)
  BY <1>18 DEF WriteControl, Goto
<1>19. CASE ReplyOrTimeout(c)
  BY <1>19 DEF ReplyOrTimeout, Goto
<1>20. CASE Completes(c)
  BY <1>20 DEF Completes, LeaveTry, Goto
<1>21. CASE BleFails(c)
  BY <1>21 DEF BleFails, LeaveTry, Goto
<1>22. CASE ConsumerRaises108(c)
  BY <1>22 DEF ConsumerRaises108, LeaveTry, Goto
<1>23. CASE StopNotify(c)
  <2>1. /\ pc[c] = "cleanup"
        /\ attempt' = attempt /\ actuation' = actuation /\ reads' = reads
        /\ exit' = exit /\ writes' = writes
    BY <1>23 DEF StopNotify
  <2>2. \/ pc' = pc /\ result' = result
        \/ CanRetry(c) /\ Goto(c, "relogin") /\ result' = result
        \/ ~CanRetry(c) /\ Return(c, exit[c])
    BY <1>23 DEF StopNotify
  <2>3. CASE pc' = pc /\ result' = result
    BY <2>1, <2>3
  <2>4. CASE CanRetry(c) /\ Goto(c, "relogin") /\ result' = result
    BY <2>1, <2>4 DEF CanRetry, Goto
  <2>5. CASE ~CanRetry(c) /\ Return(c, exit[c])
    <3>1. pc'[c] = "done" /\ result'[c] = exit[c] /\ exit[c] # "none" /\ exit[c] # "busy"
      BY <2>1, <2>5 DEF Return, Goto, Exits
    <3>2. ~(attempt[c] < MaxReauth) => attempt[c] = MaxReauth
      <4>1. attempt[c] \in 0 .. MaxReauth
        OBVIOUS
      <4>2. MaxReauth \in Nat
        BY Constants
      <4>3. QED
        BY <4>1, <4>2, AtBound
    <3>3. exit[c] = "108" /\ Cred[c] = "auth" => actuation[c] \/ attempt[c] = MaxReauth
      <4>1. ~CanRetry(c)
        BY <2>5
      <4>2. QED
        BY <3>2, <4>1, Zenon DEF CanRetry
    <3>4. Counts(c)'
      BY <3>1
    <3>5. Moved(c)'
      BY <2>1, <3>1
    <3>6. Outcome(c)'
      BY <2>1, <3>1
    <3>7. Retried(c)'
      BY <2>1, <3>1, <3>3
    <3>8. QED
      BY <3>4, <3>5, <3>6, <3>7
  <2>6. QED
    BY <2>2, <2>3, <2>4, <2>5
<1>24. CASE Cancel(c)
  BY <1>24 DEF Cancel, CancelOutside, CancelGuarded, CancelUnguarded, Outside, Guarded,
               LeaveTry, Return, Goto
<1>25. QED
  BY <1>1, <1>2, <1>3, <1>4, <1>5, <1>6, <1>7, <1>8, <1>9, <1>10, <1>11, <1>12, <1>13,
     <1>14, <1>15, <1>16, <1>17, <1>18, <1>19, <1>20, <1>21, <1>22, <1>23, <1>24
     DEF Begin, Thread, Resume

\* The invariant of a call nothing happened to.
LEMMA OtherStep ==
  ASSUME NEW c \in Calls, NEW x \in Calls \ {c}, Frame(c), CallInv(x)
  PROVE  CallInv(x)'
BY DEF Frame, CallInv, Counts, Moved, Outcome, Retried, Before, After

LEMMA StepInv == Inv /\ [Next]_vars => Inv'
<1> SUFFICES ASSUME Inv, [Next]_vars PROVE \A x \in Calls : CallInv(x)'
  BY StepTypeOK DEF Inv
<1>1. CASE \E c \in Calls : Begin(c) \/ Thread(c) \/ Resume(c) \/ Cancel(c)
  <2>1. PICK c \in Calls : Begin(c) \/ Thread(c) \/ Resume(c) \/ Cancel(c)
    BY <1>1
  <2>2. CallInv(c)'
    BY <2>1, OwnStep DEF Inv
  <2>3. Frame(c)
    BY <2>1, StepFrame DEF Inv
  <2>4. QED
    BY <2>2, <2>3, OtherStep DEF Inv
<1>2. CASE Aside \/ UNCHANGED vars
  <2>1. UNCHANGED <<pc, attempt, actuation, reads, exit, result, writes>>
    BY <1>2 DEF Aside, LookUp, TokenExpires, vars, callVars
  <2>2. ASSUME NEW x \in Calls PROVE CallInv(x)'
    <3>1. CallInv(x)
      BY DEF Inv
    <3>2. QED
      BY <2>1, <3>1 DEF CallInv, Counts, Moved, Outcome, Retried, Before, After
  <2>3. QED
    BY <2>2
<1>3. QED
  BY <1>1, <1>2 DEF Next, Aside, AllReturned

\* The inductive invariant holds.
THEOREM Invariant == Spec => []Inv
BY InitInv, StepInv, PTL DEF Spec

\* The state keeps its types.
THEOREM TypeCorrect == Spec => []TypeOK
<1>1. Inv => TypeOK
  BY DEF Inv
<1>2. QED
  BY <1>1, Invariant, PTL

\* No call commands the lock twice (session.py:373-381, 812-815).
THEOREM AtMostOneActuation == Spec => []SingleActuation
<1>1. Inv => SingleActuation
  <2> SUFFICES ASSUME Inv, NEW c \in Calls PROVE writes[c] <= 1
    BY DEF SingleActuation
  <2>1. writes[c] = 0 \/ writes[c] = 1
    BY DEF Inv, CallInv, Moved
  <2>2. QED
    BY <2>1
<1>2. QED
  BY <1>1, Invariant, PTL

\* A managed call that gets 108 was re-run, or had passed its point of no
\* return (session.py:373-385).
THEOREM ExpiryRetried == Spec => []ExpiryIsRetried
<1>1. Inv => ExpiryIsRetried
  BY DEF Inv, CallInv, Retried, ExpiryIsRetried
<1>2. QED
  BY <1>1, Invariant, PTL
-----------------------------------------------------------------------------
(* The in-progress flag: that it and its holder never come apart and that  *)
(* two calls never share a device; what follows for the subscriptions and  *)
(* for the cloud's key of the device; and that the calls implement the     *)
(* promise of DeviceLock.                                                  *)

\* What a step of a call does to the flag of its device.
Stays(c) ==
  /\ busy' = busy
  /\ InFlag(c)' <=> InFlag(c)

Takes(c) ==
  /\ ~InFlag(c) /\ InFlag(c)'
  /\ ~busy[DeviceOf[c]]
  /\ busy' = [busy EXCEPT ![DeviceOf[c]] = TRUE]

GivesBack(c) ==
  /\ InFlag(c) /\ ~InFlag(c)'
  /\ busy' = [busy EXCEPT ![DeviceOf[c]] = FALSE]

LEMMA EnterKind ==
  ASSUME TypeOK, NEW c \in Calls, ~InFlag(c), Enter(c)
  PROVE  Stays(c) \/ Takes(c)
<1>1. CASE busy[DeviceOf[c]]
  BY <1>1 DEF TypeOK, Enter, Return, Goto, Stays, InFlag, Critical, Guarded
<1>2. CASE ~busy[DeviceOf[c]]
  BY <1>2 DEF TypeOK, Enter, Goto, Takes, InFlag, Critical, Guarded
<1>3. QED
  BY <1>1, <1>2

LEMMA LeaveTryStays ==
  ASSUME TypeOK, NEW c \in Calls, NEW r, InFlag(c), busy' = busy, LeaveTry(c, r)
  PROVE  Stays(c)
BY DEF TypeOK, LeaveTry, Goto, Stays, InFlag, Critical, Guarded

\* Every step of a call keeps, takes or gives back the flag.
LEMMA StepKind ==
  ASSUME TypeOK, NEW c \in Calls, Begin(c) \/ Thread(c) \/ Resume(c) \/ Cancel(c)
  PROVE  Stays(c) \/ Takes(c) \/ GivesBack(c)
<1> USE DEF TypeOK, callVars, cloudVars
<1> DEFINE Kind == Stays(c) \/ Takes(c) \/ GivesBack(c)
<1>1. CASE RejectBoth(c) \/ BeginAuth(c) \/ PrefetchStarts(c) \/ PrefetchReturns(c)
  BY <1>1 DEF RejectBoth, BeginAuth, PrefetchStarts, PrefetchReturns, Return, Goto,
              Stays, InFlag, Critical, Guarded
<1>2. CASE BeginStatic(c) \/ LoginReturns(c)
  <2>1. ~InFlag(c) /\ Enter(c)
    BY <1>2 DEF BeginStatic, LoginReturns, InFlag, Critical, Guarded
  <2>2. QED
    BY <2>1, EnterKind
<1>3. CASE Thread(c)
  BY <1>3 DEF Thread, CheckCache, CloudLogin, LoginFails, StoreToken, OrphanReturns,
              Return, Goto, Stays, InFlag, Critical, Guarded
<1>4. CASE EnableNotify(c) \/ LockKeyArrives(c) \/ WriteControl(c) \/ ReplyOrTimeout(c)
  BY <1>4 DEF EnableNotify, LockKeyArrives, WriteControl, ReplyOrTimeout, Goto,
              Stays, InFlag, Critical, Guarded
<1>5. CASE PubkeyReturns(c) \/ VerifyReturns(c) \/ AckArrives(c)
  <2>1. InFlag(c) /\ busy' = busy
    BY <1>5 DEF PubkeyReturns, VerifyReturns, AckArrives, InFlag, Critical, Guarded
  <2>2. \/ \E r : LeaveTry(c, r)
        \/ \E p \in Guarded : Goto(c, p)
    BY <1>5 DEF PubkeyReturns, VerifyReturns, AckArrives, Guarded
  <2>3. QED
    BY <2>1, <2>2, LeaveTryStays DEF Goto, Stays, InFlag, Critical
<1>6. CASE EmptyAck(c) \/ Completes(c) \/ BleFails(c) \/ ConsumerRaises108(c)
  <2>1. InFlag(c) /\ busy' = busy
    BY <1>6 DEF EmptyAck, Completes, BleFails, ConsumerRaises108, InFlag, Critical, Guarded
  <2>2. pc' = pc \/ \E r : LeaveTry(c, r)
    BY <1>6 DEF EmptyAck, Completes, BleFails, ConsumerRaises108
  <2>3. QED
    BY <2>1, <2>2, LeaveTryStays DEF Stays, InFlag
<1>7. CASE StopNotify(c)
  BY <1>7 DEF StopNotify, Return, Goto, Stays, GivesBack, InFlag, Critical, Guarded
<1>8. CASE Cancel(c)
  <2>1. CASE CancelOutside(c)
    BY <2>1 DEF CancelOutside, Outside, Return, Goto, Stays, InFlag, Critical, Guarded
  <2>2. CASE CancelGuarded(c)
    BY <2>2, LeaveTryStays DEF CancelGuarded, InFlag, Critical
  <2>3. CASE CancelUnguarded(c)
    BY <2>3 DEF CancelUnguarded, Return, Goto, GivesBack, InFlag, Critical, Guarded
  <2>4. QED
    BY <1>8, <2>1, <2>2, <2>3 DEF Cancel
<1>9. QED
  BY <1>1, <1>2, <1>3, <1>4, <1>5, <1>6, <1>7, <1>8 DEF Begin, Resume

\* The flag belongs to exactly one call: inductive together with Inv.
Excl == FlagMatchesHolder /\ MutualExclusion

LEMMA InitExcl == Init => Excl
BY DEF Init, Excl, FlagMatchesHolder, MutualExclusion, InFlag, Critical, Guarded

LEMMA StepExcl == Inv /\ Excl /\ [Next]_vars => Excl'
<1> SUFFICES ASSUME TypeOK, Excl, [Next]_vars PROVE Excl'
  BY DEF Inv
<1> USE DEF Excl
<1>1. CASE \E c \in Calls : Begin(c) \/ Thread(c) \/ Resume(c) \/ Cancel(c)
  <2>1. PICK c \in Calls : Begin(c) \/ Thread(c) \/ Resume(c) \/ Cancel(c)
    BY <1>1
  <2>2. \A x \in Calls \ {c} : InFlag(x)' <=> InFlag(x)
    BY <2>1, StepFrame DEF Frame, InFlag
  <2>3. DeviceOf[c] \in Devices
    BY Constants
  <2>4. CASE Stays(c)
    BY <2>2, <2>4 DEF Stays, FlagMatchesHolder, MutualExclusion
  <2>5. CASE Takes(c)
    <3>1. \A x \in Calls : DeviceOf[x] = DeviceOf[c] => ~InFlag(x)
      BY <2>3, <2>5 DEF Takes, FlagMatchesHolder
    <3>2. MutualExclusion'
      BY <2>2, <2>5, <3>1 DEF Takes, MutualExclusion
    <3>3. FlagMatchesHolder'
      BY <2>2, <2>3, <2>5 DEF Takes, FlagMatchesHolder, TypeOK
    <3>4. QED
      BY <3>2, <3>3
  <2>6. CASE GivesBack(c)
    <3>1. MutualExclusion'
      BY <2>2, <2>6 DEF GivesBack, MutualExclusion
    <3>2. FlagMatchesHolder'
      BY <2>2, <2>3, <2>6 DEF GivesBack, FlagMatchesHolder, MutualExclusion, TypeOK
    <3>3. QED
      BY <3>1, <3>2
  <2>7. QED
    BY <2>1, <2>4, <2>5, <2>6, StepKind
<1>2. CASE Aside \/ UNCHANGED vars
  BY <1>2 DEF Aside, LookUp, TokenExpires, vars, FlagMatchesHolder, MutualExclusion, InFlag
<1>3. QED
  BY <1>1, <1>2 DEF Next, Aside, AllReturned

\* The flag of a device is set exactly while a call is inside it, and no two
\* calls of a device are inside it (session.py:450-456, 947-949).
THEOREM Exclusion == Spec => [](FlagMatchesHolder /\ MutualExclusion)
<1>1. Spec => []Inv
  BY Invariant
<1>2. Init => Excl
  BY InitExcl
<1>3. Inv /\ Excl /\ [Next]_vars => Excl'
  BY StepExcl
<1>4. Excl => FlagMatchesHolder /\ MutualExclusion
  BY DEF Excl
<1>5. QED
  BY <1>1, <1>2, <1>3, <1>4, PTL DEF Spec
-----------------------------------------------------------------------------
(* The subscriptions: where stop_notify does what it is asked to do, only  *)
(* a cancelled call leaves a handler behind.                               *)

\* The clean-up has been at every characteristic below its loop index, and a
\* handler outside the flag is a cancelled call's.
Cleaned(c) ==
  /\ \A u \in Characteristics :
        sub[DeviceOf[c]][u] = c => InFlag(c) \/ result[c] = "cancelled"
  /\ pc[c] = "cleanup" =>
        \A u \in Characteristics : u < nextChar[c] => sub[DeviceOf[c]][u] # c

Subscribed == \A c \in Calls : Cleaned(c)

\* A step changes the handler of a characteristic to its own call's, or to none.
SubFrame(c) ==
  \A d \in Devices, u \in Characteristics :
     sub'[d][u] = sub[d][u] \/ sub'[d][u] = c \/ sub'[d][u] = NoCall

\* The two loops are all that touches the subscriptions.
LEMMA OthersKeepSub ==
  ASSUME NEW c \in Calls, Begin(c) \/ Thread(c) \/ Resume(c) \/ Cancel(c),
         ~EnableNotify(c), ~StopNotify(c)
  PROVE  sub' = sub
<1> USE DEF callVars, cloudVars
<1>1. CASE Begin(c)
  BY <1>1 DEF Begin, RejectBoth, BeginStatic, BeginAuth
<1>2. CASE Thread(c)
  BY <1>2 DEF Thread, CheckCache, CloudLogin, LoginFails, StoreToken, OrphanReturns
<1>3. CASE Resume(c)
  BY <1>3 DEF Resume, LoginReturns, PrefetchStarts, PrefetchReturns, PubkeyReturns, EmptyAck,
     LockKeyArrives, VerifyReturns, AckArrives, WriteControl, ReplyOrTimeout, Completes,
     BleFails, ConsumerRaises108
<1>4. CASE Cancel(c)
  BY <1>4 DEF Cancel
<1>5. QED
  BY <1>1, <1>2, <1>3, <1>4

LEMMA StepSubFrame ==
  ASSUME TypeOK, NEW c \in Calls, Begin(c) \/ Thread(c) \/ Resume(c) \/ Cancel(c)
  PROVE  SubFrame(c)
<1>1. DeviceOf[c] \in Devices /\ nextChar[c] \in Characteristics
  BY Constants DEF TypeOK
<1>2. CASE EnableNotify(c)
  <2>1. \/ sub' = [sub EXCEPT ![DeviceOf[c]][nextChar[c]] = c]
        \/ sub' = sub
    BY <1>2 DEF EnableNotify
  <2>2. sub \in [Devices -> [Characteristics -> Calls \cup {NoCall}]]
    BY DEF TypeOK
  <2>3. QED
    BY <1>1, <2>1, <2>2 DEF SubFrame
<1>3. CASE StopNotify(c)
  <2>1. \/ sub' = [sub EXCEPT ![DeviceOf[c]][nextChar[c]] = NoCall]
        \/ sub' = sub
    BY <1>3 DEF StopNotify
  <2>2. sub \in [Devices -> [Characteristics -> Calls \cup {NoCall}]]
    BY DEF TypeOK
  <2>3. QED
    BY <1>1, <2>1, <2>2 DEF SubFrame
<1>4. CASE ~EnableNotify(c) /\ ~StopNotify(c)
  BY <1>4, OthersKeepSub DEF SubFrame
<1>5. QED
  BY <1>2, <1>3, <1>4

\* What is below the successor of a number is below it or the number itself.
LEMMA BelowNext ==
  \A m, n \in Nat : m < n + 1 => m < n \/ m = n
OBVIOUS

\* The call that runs the clean-up.
LEMMA StopCleans ==
  ASSUME Inv, ~StopMayFail, NEW c \in Calls, Cleaned(c), StopNotify(c)
  PROVE  Cleaned(c)'
<1>1. /\ pc[c] = "cleanup"
      /\ sub' = [sub EXCEPT ![DeviceOf[c]][nextChar[c]] = NoCall]
  BY DEF StopNotify
<1>2. /\ DeviceOf[c] \in Devices /\ nextChar[c] \in Characteristics
      /\ NoCall # c
  BY Constants DEF Inv, TypeOK
<1>3. \A u \in Characteristics :
        sub'[DeviceOf[c]][u] = IF u = nextChar[c] THEN NoCall ELSE sub[DeviceOf[c]][u]
  BY <1>1, <1>2 DEF Inv, TypeOK
<1>4. \A u \in Characteristics :
        u < nextChar[c] \/ u = nextChar[c] => sub'[DeviceOf[c]][u] # c
  BY <1>1, <1>2, <1>3 DEF Cleaned
<1>5. CASE /\ nextChar[c] < NChars
           /\ nextChar' = [nextChar EXCEPT ![c] = nextChar[c] + 1]
           /\ pc' = pc
  <2>1. nextChar'[c] = nextChar[c] + 1 /\ pc'[c] = "cleanup"
    BY <1>1, <1>5 DEF Inv, TypeOK
  <2>2. \A u \in Characteristics : u < nextChar[c] + 1 => u < nextChar[c] \/ u = nextChar[c]
    BY <1>2, Constants, BelowNext
  <2>3. QED
    BY <1>4, <2>1, <2>2 DEF Cleaned, InFlag, Critical
<1>6. CASE /\ nextChar[c] = NChars
           /\ \/ Goto(c, "relogin")
              \/ Return(c, exit[c])
  <2>1. \A u \in Characteristics : sub'[DeviceOf[c]][u] # c
    BY <1>4, <1>6, Constants
  <2>2. pc'[c] # "cleanup"
    BY <1>6 DEF Inv, TypeOK, Goto, Return
  <2>3. QED
    BY <2>1, <2>2 DEF Cleaned
<1>7. QED
  BY <1>5, <1>6 DEF StopNotify

\* The other steps of a call: it stays in the flag, enters it, is cancelled
\* or was outside already.
LEMMA OwnCleaned ==
  ASSUME Inv, ~StopMayFail, NEW c \in Calls, Cleaned(c),
         Begin(c) \/ Thread(c) \/ Resume(c) \/ Cancel(c)
  PROVE  Cleaned(c)'
<1>0. TypeOK /\ CallInv(c)
  BY DEF Inv
<1>1. CASE StopNotify(c)
  BY <1>1, StopCleans
<1>2. CASE EnableNotify(c)
  <2>1. pc'[c] \in {"cccd", "lockkey", "pubkey"}
    BY <1>0, <1>2 DEF EnableNotify, Goto, TypeOK
  <2>2. QED
    BY <2>1 DEF Cleaned, InFlag, Critical, Guarded
<1>3. CASE ~StopNotify(c) /\ ~EnableNotify(c)
  <2>1. sub' = sub
    BY <1>3, OthersKeepSub
  <2>2. \/ InFlag(c)'
        \/ ~InFlag(c) /\ (result[c] = "cancelled" => result'[c] = "cancelled")
        \/ result'[c] = "cancelled"
    <3>1. CASE Begin(c)
      BY <1>0, <3>1 DEF Begin, RejectBoth, BeginStatic, BeginAuth, Enter, Return, Goto,
         callVars, TypeOK, CallInv, Outcome, InFlag, Critical, Guarded
    <3>2. CASE Thread(c)
      BY <1>0, <3>2 DEF Thread, CheckCache, CloudLogin, LoginFails, StoreToken, OrphanReturns,
         Return, Goto, callVars, TypeOK, CallInv, Outcome, InFlag, Critical, Guarded
    <3>3. CASE LoginReturns(c) \/ PrefetchStarts(c) \/ PrefetchReturns(c)
      BY <1>0, <3>3 DEF LoginReturns, PrefetchStarts, PrefetchReturns, Enter, Return, Goto,
         TypeOK, CallInv, Outcome, InFlag, Critical, Guarded
    <3>4. CASE \/ PubkeyReturns(c) \/ EmptyAck(c) \/ LockKeyArrives(c) \/ VerifyReturns(c)
               \/ AckArrives(c) \/ WriteControl(c) \/ ReplyOrTimeout(c) \/ Completes(c)
               \/ BleFails(c) \/ ConsumerRaises108(c)
      BY <1>0, <3>4 DEF PubkeyReturns, EmptyAck, LockKeyArrives, VerifyReturns, AckArrives,
         WriteControl, ReplyOrTimeout, Completes, BleFails, ConsumerRaises108, LeaveTry, Goto,
         TypeOK, InFlag, Critical, Guarded
    <3>5. CASE Cancel(c)
      BY <1>0, <3>5 DEF Cancel, CancelOutside, CancelGuarded, CancelUnguarded, LeaveTry,
         Return, Goto, TypeOK, InFlag, Critical, Guarded
    <3>6. QED
      BY <1>3, <3>1, <3>2, <3>3, <3>4, <3>5 DEF Resume
  <2>3. pc'[c] = "cleanup" =>
          \/ nextChar'[c] = 1
          \/ pc[c] = "cleanup" /\ nextChar'[c] = nextChar[c]
    <3>1. CASE Begin(c)
      BY <1>0, <3>1 DEF Begin, RejectBoth, BeginStatic, BeginAuth, Enter, Return, Goto,
         callVars, TypeOK
    <3>2. CASE Thread(c)
      BY <1>0, <3>2 DEF Thread, CheckCache, CloudLogin, LoginFails, StoreToken, OrphanReturns,
         Return, Goto, callVars, TypeOK
    <3>3. CASE LoginReturns(c) \/ PrefetchStarts(c) \/ PrefetchReturns(c)
      BY <1>0, <3>3 DEF LoginReturns, PrefetchStarts, PrefetchReturns, Enter, Return, Goto,
         TypeOK
    <3>4. CASE \/ PubkeyReturns(c) \/ EmptyAck(c) \/ LockKeyArrives(c) \/ VerifyReturns(c)
               \/ AckArrives(c) \/ WriteControl(c) \/ ReplyOrTimeout(c) \/ Completes(c)
               \/ BleFails(c) \/ ConsumerRaises108(c)
      BY <1>0, <3>4 DEF PubkeyReturns, EmptyAck, LockKeyArrives, VerifyReturns, AckArrives,
         WriteControl, ReplyOrTimeout, Completes, BleFails, ConsumerRaises108, LeaveTry, Goto,
         TypeOK
    <3>5. CASE Cancel(c)
      BY <1>0, <3>5 DEF Cancel, CancelOutside, CancelGuarded, CancelUnguarded, LeaveTry,
         Return, Goto, TypeOK
    <3>6. QED
      BY <1>3, <3>1, <3>2, <3>3, <3>4, <3>5 DEF Resume
  <2>4. \A u \in Characteristics : ~(u < 1)
    BY ConstantsOK DEF Characteristics
  <2>5. ASSUME NEW u \in Characteristics, sub'[DeviceOf[c]][u] = c
        PROVE  InFlag(c)' \/ result'[c] = "cancelled"
    BY <2>1, <2>2, <2>5 DEF Cleaned
  <2>6. ASSUME pc'[c] = "cleanup", NEW u \in Characteristics, u < nextChar'[c]
        PROVE  sub'[DeviceOf[c]][u] # c
    BY <2>1, <2>3, <2>4, <2>6 DEF Cleaned
  <2>7. QED
    BY <2>5, <2>6 DEF Cleaned
<1>4. QED
  BY <1>1, <1>2, <1>3

LEMMA StepSubscribed ==
  ASSUME ~StopMayFail, Inv, Subscribed, [Next]_vars
  PROVE  Subscribed'
<1>1. CASE \E c \in Calls : Begin(c) \/ Thread(c) \/ Resume(c) \/ Cancel(c)
  <2>1. PICK c \in Calls : Begin(c) \/ Thread(c) \/ Resume(c) \/ Cancel(c)
    BY <1>1
  <2>2. Cleaned(c)'
    BY <2>1, OwnCleaned DEF Subscribed
  <2>3. ASSUME NEW x \in Calls \ {c} PROVE Cleaned(x)'
    <3>1. SubFrame(c) /\ Frame(c)
      BY <2>1, StepSubFrame, StepFrame DEF Inv
    <3>2. DeviceOf[x] \in Devices /\ NoCall # x /\ x # c /\ Cleaned(x)
      BY Constants DEF Subscribed
    <3>3. \A u \in Characteristics : sub'[DeviceOf[x]][u] = x => sub[DeviceOf[x]][u] = x
      BY <3>1, <3>2 DEF SubFrame
    <3>4. pc'[x] = pc[x] /\ result'[x] = result[x] /\ nextChar'[x] = nextChar[x]
      BY <3>1 DEF Frame
    <3>5. QED
      BY <3>2, <3>3, <3>4 DEF Cleaned, InFlag
  <2>4. QED
    BY <2>2, <2>3 DEF Subscribed
<1>2. CASE Aside \/ UNCHANGED vars
  <2>1. UNCHANGED <<pc, sub, result, nextChar>>
    BY <1>2 DEF Aside, LookUp, TokenExpires, vars, callVars
  <2>2. ASSUME NEW x \in Calls PROVE Cleaned(x)'
    <3>1. Cleaned(x)
      BY DEF Subscribed
    <3>2. QED
      BY <2>1, <3>1 DEF Cleaned, InFlag
  <2>3. QED
    BY <2>2 DEF Subscribed
<1>3. QED
  BY <1>1, <1>2 DEF Next, Aside, AllReturned

\* Where stop_notify does not fail, only a cancelled call leaves a handler
\* subscribed, and a refused call leaves none (session.py:943-946).
THEOREM OnlyCancelLeaks ==
  ASSUME ~StopMayFail
  PROVE  Spec => [](LeakOnlyByCancel /\ RefusedLeavesNoTrace)
<1>1. Spec => []Inv
  BY Invariant
<1>2. Init => Subscribed
  <2>1. ASSUME Init, NEW c \in Calls PROVE Cleaned(c)
    <3>1. DeviceOf[c] \in Devices /\ NoCall # c
      BY Constants
    <3>2. pc[c] = "idle" /\ \A u \in Characteristics : sub[DeviceOf[c]][u] = NoCall
      BY <2>1, <3>1 DEF Init
    <3>3. QED
      BY <3>1, <3>2 DEF Cleaned
  <2>2. QED
    BY <2>1 DEF Subscribed
<1>3. Inv /\ Subscribed /\ [Next]_vars => Subscribed'
  BY StepSubscribed
<1>4. Inv /\ Subscribed => LeakOnlyByCancel
  BY DEF Subscribed, Cleaned, LeakOnlyByCancel
<1>5. Inv /\ Subscribed => RefusedLeavesNoTrace
  <2>1. ASSUME Inv, NEW c \in Calls, result[c] = "busy" PROVE pc[c] = "done" /\ writes[c] = 0
    BY <2>1 DEF Inv, CallInv, Outcome
  <2>2. QED
    BY <2>1 DEF Subscribed, Cleaned, RefusedLeavesNoTrace, InFlag, Critical, Guarded
<1>6. QED
  BY <1>1, <1>2, <1>3, <1>4, <1>5, PTL DEF Spec
-----------------------------------------------------------------------------
(* The cloud's key of a device: who may replace it during an exchange.     *)

\* How a call ends that does not wait for an answer any more.
Given == {"cancelled", "fail"}

\* A call that asks the cloud for a key inside the flag waits for it there;
\* only a cancellation or a failure parts the two.
Requests(c) ==
  c \notin Prefetchers /\ worker[c] = "publickey" =>
    \/ pc[c] = "pubkey"
    \/ pc[c] = "cleanup" /\ exit[c] \in Given
    \/ pc[c] = "done" /\ result[c] \in Given

\* The key found during an exchange is the call's own, or an outsider's.
KeyFound(c) ==
  c \notin Prefetchers /\ pc[c] \in {"lockkey", "verify"} =>
    cloudKey[DeviceOf[c]] = c \/ Outsider(cloudKey[DeviceOf[c]])

KeyInv == \A c \in Calls : Requests(c) /\ KeyFound(c)

\* What a step of a call does to the key of its device.
KeepsKey(c) == cloudKey' = cloudKey
Renews(c)   == cloudKey' = [cloudKey EXCEPT ![DeviceOf[c]] = c]

LEMMA KeyStep ==
  ASSUME NEW c \in Calls, Begin(c) \/ Thread(c) \/ Resume(c) \/ Cancel(c)
  PROVE  \/ KeepsKey(c)
         \/ Renews(c) /\ \/ PubkeyReturns(c) \/ PrefetchReturns(c)
                         \/ OrphanReturns(c) /\ worker[c] = "publickey"
<1> USE DEF callVars, cloudVars, KeepsKey, Renews
<1>1. CASE Begin(c)
  BY <1>1 DEF Begin, RejectBoth, BeginStatic, BeginAuth
<1>2. CASE Thread(c)
  BY <1>2 DEF Thread, CheckCache, CloudLogin, LoginFails, StoreToken, OrphanReturns
<1>3. CASE Resume(c)
  BY <1>3 DEF Resume, LoginReturns, PrefetchStarts, PrefetchReturns, EnableNotify,
     PubkeyReturns, EmptyAck, LockKeyArrives, VerifyReturns, AckArrives, WriteControl,
     ReplyOrTimeout, Completes, BleFails, ConsumerRaises108, StopNotify
<1>4. CASE Cancel(c)
  BY <1>4 DEF Cancel
<1>5. QED
  BY <1>1, <1>2, <1>3, <1>4

\* A step of a call leaves the worker threads of the others alone.
LEMMA WorkerFrame ==
  ASSUME TypeOK, NEW c \in Calls, Begin(c) \/ Thread(c) \/ Resume(c) \/ Cancel(c)
  PROVE  \A x \in Calls \ {c} : worker'[x] = worker[x]
<1> USE DEF TypeOK, callVars, cloudVars
<1>1. CASE Begin(c)
  BY <1>1 DEF Begin, RejectBoth, BeginStatic, BeginAuth
<1>2. CASE Thread(c)
  BY <1>2 DEF Thread, CheckCache, CloudLogin, LoginFails, StoreToken, OrphanReturns
<1>3. CASE Resume(c)
  BY <1>3 DEF Resume, LoginReturns, PrefetchStarts, PrefetchReturns, EnableNotify,
     PubkeyReturns, EmptyAck, LockKeyArrives, VerifyReturns, AckArrives, WriteControl,
     ReplyOrTimeout, Completes, BleFails, ConsumerRaises108, StopNotify, GivesUpOn
<1>4. CASE Cancel(c)
  BY <1>4 DEF Cancel
<1>5. QED
  BY <1>1, <1>2, <1>3, <1>4

\* A call that returned keeps its outcome.
LEMMA OutcomeStays ==
  ASSUME Inv, NEW c \in Calls, Begin(c) \/ Thread(c) \/ Resume(c) \/ Cancel(c),
         NEW x \in Calls, result[x] # "none"
  PROVE  result'[x] = result[x]
<1>1. CASE x # c
  BY <1>1, StepFrame DEF Inv, Frame
<1>2. CASE x = c
  <2>1. pc[c] = "done"
    BY <1>2 DEF Inv, CallInv, Outcome
  <2>2. Thread(c)
    BY <2>1 DEF Begin, RejectBoth, BeginStatic, BeginAuth, Resume, LoginReturns,
       PrefetchStarts, PrefetchReturns, EnableNotify, PubkeyReturns, EmptyAck,
       LockKeyArrives, VerifyReturns, AckArrives, WriteControl, ReplyOrTimeout, Completes,
       BleFails, ConsumerRaises108, StopNotify, Cancel, CancelOutside, CancelGuarded,
       CancelUnguarded, Outside, Guarded
  <2>3. result' = result
    BY <2>1, <2>2 DEF Thread, CheckCache, CloudLogin, LoginFails, StoreToken, OrphanReturns,
       callVars
  <2>4. QED
    BY <1>2, <2>3
<1>3. QED
  BY <1>1, <1>2

\* The request of the call that takes the step.
LEMMA OwnRequest ==
  ASSUME Inv, NEW c \in Calls, Requests(c), c \notin Prefetchers,
         Begin(c) \/ Thread(c) \/ Resume(c) \/ Cancel(c)
  PROVE  Requests(c)'
<1>0. TypeOK /\ CallInv(c)
  BY DEF Inv
<1> USE DEF TypeOK, callVars, cloudVars
<1>1. CASE Begin(c)
  BY <1>0, <1>1 DEF Begin, RejectBoth, BeginStatic, BeginAuth, Enter, Return, Goto, Requests
<1>2. CASE Thread(c)
  BY <1>0, <1>2 DEF Thread, CheckCache, CloudLogin, LoginFails, StoreToken, OrphanReturns,
     Return, Goto, Requests
<1>3. CASE LoginReturns(c) \/ PrefetchStarts(c) \/ PrefetchReturns(c)
  BY <1>0, <1>3 DEF LoginReturns, PrefetchStarts, PrefetchReturns, Enter, Return, Goto,
     CallInv, Retried, Requests
<1>4. CASE EnableNotify(c) \/ PubkeyReturns(c) \/ LockKeyArrives(c) \/ VerifyReturns(c)
  BY <1>0, <1>4 DEF EnableNotify, PubkeyReturns, LockKeyArrives, VerifyReturns, GivesUpOn,
     LeaveTry, Goto, Requests, Given
<1>5. CASE \/ EmptyAck(c) \/ AckArrives(c) \/ WriteControl(c) \/ ReplyOrTimeout(c)
           \/ Completes(c) \/ BleFails(c) \/ ConsumerRaises108(c)
  <2>1. worker' = worker /\ pc[c] \notin {"pubkey", "cleanup", "done"}
    BY <1>5 DEF EmptyAck, AckArrives, WriteControl, ReplyOrTimeout, Completes, BleFails,
       ConsumerRaises108
  <2>2. QED
    BY <2>1 DEF Requests
<1>6. CASE StopNotify(c)
  <2>1. pc[c] = "cleanup" /\ exit' = exit
    BY <1>6 DEF StopNotify
  <2>2. \/ pc' = pc /\ worker' = worker
        \/ worker' = [worker EXCEPT ![c] = "posting"]
        \/ Return(c, exit[c]) /\ worker' = worker
    BY <1>6 DEF StopNotify
  <2>3. QED
    BY <1>0, <2>1, <2>2 DEF Return, Goto, Requests
<1>7. CASE Cancel(c)
  <2>1. worker' = worker
    BY <1>7 DEF Cancel
  <2>2. QED
    BY <1>0, <1>7, <2>1 DEF Cancel, CancelOutside, CancelGuarded, CancelUnguarded, LeaveTry,
       Return, Goto, Requests, Given
<1>8. QED
  BY <1>1, <1>2, <1>3, <1>4, <1>5, <1>6, <1>7 DEF Resume

\* A call is in its exchange because it was already, with the key as it was or
\* replaced by its own, or because the key it asked for has just come.
LEMMA OwnExchange ==
  ASSUME Inv, NEW c \in Calls, c \notin Prefetchers,
         Begin(c) \/ Thread(c) \/ Resume(c) \/ Cancel(c), pc'[c] \in {"lockkey", "verify"}
  PROVE  Renews(c) \/ (KeepsKey(c) /\ pc[c] \in {"lockkey", "verify"})
<1>0. TypeOK /\ CallInv(c)
  BY DEF Inv
<1> USE DEF TypeOK, callVars, cloudVars
<1>1. CASE Begin(c)
  BY <1>0, <1>1 DEF Begin, RejectBoth, BeginStatic, BeginAuth, Enter, Return, Goto
<1>2. CASE Thread(c)
  BY <1>0, <1>2 DEF Thread, CheckCache, CloudLogin, LoginFails, StoreToken, OrphanReturns,
     Return, Goto, Renews, KeepsKey
<1>3. CASE LoginReturns(c) \/ PrefetchStarts(c) \/ PrefetchReturns(c)
  BY <1>0, <1>3 DEF LoginReturns, PrefetchStarts, PrefetchReturns, Enter, Return, Goto
<1>4. CASE EnableNotify(c) \/ PubkeyReturns(c) \/ LockKeyArrives(c) \/ VerifyReturns(c)
  BY <1>0, <1>4 DEF EnableNotify, PubkeyReturns, LockKeyArrives, VerifyReturns, Goto, LeaveTry,
     Renews, KeepsKey
<1>5. CASE EmptyAck(c)
  BY <1>5 DEF EmptyAck, KeepsKey
<1>6. CASE \/ AckArrives(c) \/ WriteControl(c) \/ ReplyOrTimeout(c)
           \/ Completes(c) \/ BleFails(c) \/ ConsumerRaises108(c)
  BY <1>0, <1>6 DEF AckArrives, WriteControl, ReplyOrTimeout, Completes, BleFails,
     ConsumerRaises108, LeaveTry, Goto
<1>7. CASE StopNotify(c) \/ Cancel(c)
  BY <1>0, <1>7 DEF StopNotify, Cancel, CancelOutside, CancelGuarded, CancelUnguarded, LeaveTry,
     Return, Goto
<1>8. QED
  BY <1>1, <1>2, <1>3, <1>4, <1>5, <1>6, <1>7 DEF Resume

\* Another call of the device that replaces the key meanwhile is an outsider.
LEMMA OtherRenews ==
  ASSUME Inv, MutualExclusion, NEW x \in Calls, pc[x] \in {"lockkey", "verify"},
         NEW c \in Calls \ {x}, DeviceOf[c] = DeviceOf[x], Requests(c),
         \/ PubkeyReturns(c) \/ PrefetchReturns(c)
         \/ OrphanReturns(c) /\ worker[c] = "publickey"
  PROVE  Outsider(c)
<1>1. ~InFlag(c)
  BY DEF MutualExclusion, InFlag, Critical, Guarded
<1>2. CASE PubkeyReturns(c)
  BY <1>1, <1>2 DEF PubkeyReturns, InFlag, Critical, Guarded
<1>3. CASE PrefetchReturns(c)
  BY <1>3 DEF PrefetchReturns, Inv, CallInv, Retried, Outsider
<1>4. CASE OrphanReturns(c) /\ worker[c] = "publickey"
  BY <1>1, <1>4 DEF OrphanReturns, Requests, Outsider, Given, InFlag, Critical
<1>5. QED
  BY <1>2, <1>3, <1>4

LEMMA StepKeyInv == Inv /\ Excl /\ KeyInv /\ [Next]_vars => KeyInv'
<1> SUFFICES ASSUME Inv, Excl, KeyInv, [Next]_vars, NEW x \in Calls
             PROVE  Requests(x)' /\ KeyFound(x)'
  BY DEF KeyInv
<1>0. Requests(x) /\ KeyFound(x) /\ TypeOK /\ DeviceOf[x] \in Devices
  BY Constants DEF KeyInv, Inv
<1>1. CASE \E c \in Calls : Begin(c) \/ Thread(c) \/ Resume(c) \/ Cancel(c)
  <2>1. PICK c \in Calls : Begin(c) \/ Thread(c) \/ Resume(c) \/ Cancel(c)
    BY <1>1
  <2> DEFINE Still(y) == y = NoCall \/ y \in Prefetchers \/ result'[y] \in Given
  <2>2. \A y \in Calls \cup {NoCall} : Outsider(y) => Still(y)
    BY <2>1, OutcomeStays DEF Outsider, Given
  <2>6. cloudKey[DeviceOf[x]] \in Calls \cup {NoCall}
    BY <1>0 DEF TypeOK
  <2>3. CASE x = c
    <3>1. Requests(x)'
      <4>1. CASE x \in Prefetchers
        BY <4>1 DEF Requests
      <4>2. CASE x \notin Prefetchers
        BY <1>0, <2>1, <2>3, <4>2, OwnRequest
      <4>3. QED
        BY <4>1, <4>2
    <3>2. ASSUME x \notin Prefetchers, pc'[x] \in {"lockkey", "verify"}
          PROVE  cloudKey'[DeviceOf[x]] = x \/ Still(cloudKey'[DeviceOf[x]])
      <4>1. Renews(x) \/ (KeepsKey(x) /\ pc[x] \in {"lockkey", "verify"})
        BY <2>1, <2>3, <3>2, OwnExchange
      <4>2. CASE Renews(x)
        BY <1>0, <4>2 DEF Renews, TypeOK
      <4>3. CASE KeepsKey(x) /\ pc[x] \in {"lockkey", "verify"}
        <5>1. cloudKey[DeviceOf[x]] = x \/ Outsider(cloudKey[DeviceOf[x]])
          BY <1>0, <3>2, <4>3 DEF KeyFound
        <5>2. cloudKey'[DeviceOf[x]] = cloudKey[DeviceOf[x]]
          BY <4>3 DEF KeepsKey
        <5>3. QED
          BY <2>2, <2>6, <5>1, <5>2
      <4>4. QED
        BY <4>1, <4>2, <4>3
    <3>3. QED
      BY <3>1, <3>2 DEF KeyFound, Outsider, Given
  <2>4. CASE x # c
    <3>1. /\ pc'[x] = pc[x] /\ exit'[x] = exit[x] /\ result'[x] = result[x]
          /\ worker'[x] = worker[x]
      BY <1>0, <2>1, <2>4, StepFrame, WorkerFrame DEF Frame
    <3>2. Requests(x)'
      BY <1>0, <3>1 DEF Requests
    <3>3. ASSUME x \notin Prefetchers, pc'[x] \in {"lockkey", "verify"}
          PROVE  cloudKey'[DeviceOf[x]] = x \/ Still(cloudKey'[DeviceOf[x]])
      <4>1. cloudKey[DeviceOf[x]] = x \/ Outsider(cloudKey[DeviceOf[x]])
        BY <1>0, <3>1, <3>3 DEF KeyFound
      <4>2. CASE cloudKey'[DeviceOf[x]] = cloudKey[DeviceOf[x]]
        BY <2>2, <2>6, <4>1, <4>2
      <4>3. CASE cloudKey'[DeviceOf[x]] # cloudKey[DeviceOf[x]]
        <5>1. /\ Renews(c)
              /\ \/ PubkeyReturns(c) \/ PrefetchReturns(c)
                 \/ OrphanReturns(c) /\ worker[c] = "publickey"
          BY <2>1, <4>3, KeyStep DEF KeepsKey
        <5>2. DeviceOf[c] = DeviceOf[x] /\ cloudKey'[DeviceOf[x]] = c
          BY <1>0, <4>3, <5>1 DEF Renews, TypeOK
        <5>3. Requests(c) /\ MutualExclusion
          BY DEF KeyInv, Excl
        <5>4. Outsider(c)
          BY <2>4, <3>1, <3>3, <5>1, <5>2, <5>3, OtherRenews
        <5>5. QED
          BY <2>2, <5>2, <5>4
      <4>4. QED
        BY <4>2, <4>3
    <3>4. QED
      BY <3>2, <3>3 DEF KeyFound, Outsider, Given
  <2>5. QED
    BY <2>3, <2>4
<1>2. CASE Aside \/ UNCHANGED vars
  <2>1. UNCHANGED <<pc, exit, result, worker>>
    BY <1>2 DEF Aside, LookUp, TokenExpires, vars, callVars, cloudVars
  <2>2. \/ cloudKey'[DeviceOf[x]] = cloudKey[DeviceOf[x]]
        \/ cloudKey'[DeviceOf[x]] = NoCall
    BY <1>0, <1>2 DEF Aside, LookUp, TokenExpires, vars, cloudVars, TypeOK
  <2>3. QED
    BY <1>0, <2>1, <2>2 DEF Requests, KeyFound, Outsider
<1>3. QED
  BY <1>1, <1>2 DEF Next, Aside, AllReturned

\* Inside an exchange the key is the call's own until someone outside the flag
\* asks for one: a prefetch, a look-up, or the request of a call that was
\* cancelled or gave up (client.py:375-379, auth.py:192, session.py:705-718).
THEOREM KeyUndisturbed == Spec => []KeyDisturbedOnlyByOutsiders
<1>1. Spec => []Inv
  BY Invariant
<1>2. Spec => []Excl
  BY Exclusion DEF Excl
<1>3. Init => KeyInv
  BY DEF Init, KeyInv, Requests, KeyFound
<1>4. Inv /\ Excl /\ KeyInv /\ [Next]_vars => KeyInv'
  BY StepKeyInv
<1>5. KeyInv => KeyDisturbedOnlyByOutsiders
  BY DEF KeyInv, KeyFound, Outsider, KeyDisturbedOnlyByOutsiders
<1>6. QED
  BY <1>1, <1>2, <1>3, <1>4, <1>5, PTL DEF Spec
-----------------------------------------------------------------------------
(* The calls implement the promise of DeviceLock: each of their steps is   *)
(* one of the promise's, or none that its callers could see.               *)

\* What a step of a call means to those who only know the promise.
Invisible(c) == Stays(c) /\ UNCHANGED <<writes, result>>

Moves(c) ==
  /\ Stays(c) /\ InFlag(c)
  /\ writes[c] = 0 /\ writes' = [writes EXCEPT ![c] = 1]
  /\ UNCHANGED result

GivesUp(c) ==
  /\ Stays(c) /\ ~InFlag(c)
  /\ result[c] = "none" /\ writes[c] = 0
  /\ \E r \in {"108", "fail", "cancelled", "valueerror"} :
        result' = [result EXCEPT ![c] = r]
  /\ UNCHANGED writes

Refused(c) ==
  /\ Stays(c) /\ ~InFlag(c) /\ busy[DeviceOf[c]]
  /\ result[c] = "none" /\ writes[c] = 0
  /\ result' = [result EXCEPT ![c] = "busy"]
  /\ UNCHANGED writes

Acquires(c) ==
  /\ Takes(c)
  /\ result[c] = "none" /\ writes[c] = 0
  /\ UNCHANGED <<writes, result>>

Releases(c) ==
  /\ GivesBack(c)
  /\ \/ writes[c] = 1 /\ result' = [result EXCEPT ![c] = "ok"]
     \/ \E r \in {"108", "fail", "cancelled"} : result' = [result EXCEPT ![c] = r]
     \/ writes[c] = 0 /\ result' = result
  /\ UNCHANGED writes

Visible(c) == Moves(c) \/ GivesUp(c) \/ Refused(c) \/ Acquires(c) \/ Releases(c)

\* Before it takes its device a call has neither moved the lock nor returned.
LEMMA Fresh ==
  ASSUME Inv, NEW c \in Calls, ~InFlag(c), pc[c] # "done"
  PROVE  result[c] = "none" /\ writes[c] = 0
<1>1. pc[c] \in Phases /\ CallInv(c)
  BY DEF Inv, TypeOK
<1>2. pc[c] \in Before
  BY <1>1 DEF InFlag, Phases, Outside, Before
<1>3. QED
  BY <1>1, <1>2 DEF CallInv, Moved, Outcome

LEMMA EnterEffect ==
  ASSUME Inv, NEW c \in Calls, ~InFlag(c), pc[c] # "done", Enter(c), writes' = writes
  PROVE  Refused(c) \/ Acquires(c)
<1>1. result[c] = "none" /\ writes[c] = 0
  BY Fresh
<1>2. CASE busy[DeviceOf[c]]
  <2>1. Return(c, "busy") /\ busy' = busy
    BY <1>2 DEF Enter
  <2>2. Stays(c)
    BY <2>1 DEF Inv, TypeOK, Return, Goto, Stays, InFlag, Critical, Guarded
  <2>3. QED
    BY <1>1, <1>2, <2>1, <2>2 DEF Refused, Return
<1>3. CASE ~busy[DeviceOf[c]]
  <2>1. /\ busy' = [busy EXCEPT ![DeviceOf[c]] = TRUE]
        /\ Goto(c, "cccd") /\ result' = result
    BY <1>3 DEF Enter
  <2>2. Takes(c)
    BY <1>3, <2>1 DEF Inv, TypeOK, Goto, Takes, InFlag, Critical, Guarded
  <2>3. QED
    BY <1>1, <2>1, <2>2 DEF Acquires
<1>4. QED
  BY <1>2, <1>3

\* A call that returns without the device gives up.
LEMMA ReturnGivesUp ==
  ASSUME Inv, NEW c \in Calls, ~InFlag(c), pc[c] # "done",
         NEW r \in {"108", "fail", "cancelled", "valueerror"}, Return(c, r),
         busy' = busy, writes' = writes
  PROVE  GivesUp(c)
<1>1. Stays(c)
  BY DEF Inv, TypeOK, Return, Goto, Stays, InFlag, Critical, Guarded
<1>2. QED
  BY <1>1, Fresh DEF GivesUp, Return

\* Inside the flag, a step of the attempt is invisible unless it writes.
LEMMA InsideEffect ==
  ASSUME Inv, NEW c \in Calls, InFlag(c), busy' = busy, result' = result,
         Stays(c),
         \/ writes' = writes
         \/ writes[c] = 0 /\ writes' = [writes EXCEPT ![c] = @ + 1]
  PROVE  Invisible(c) \/ Moves(c)
BY DEF Invisible, Moves

\* Every step of a call is a step of the promise, or invisible to it.
LEMMA StepEffect ==
  ASSUME Inv, NEW c \in Calls, Begin(c) \/ Thread(c) \/ Resume(c) \/ Cancel(c)
  PROVE  Invisible(c) \/ Visible(c)
<1> USE DEF Visible, callVars, cloudVars
<1>0. TypeOK /\ CallInv(c) /\ pc \in [Calls -> Phases]
  BY DEF Inv, TypeOK
<1>1. CASE RejectBoth(c)
  BY <1>1, ReturnGivesUp DEF RejectBoth, InFlag, Critical, Guarded
<1>2. CASE BeginStatic(c) \/ LoginReturns(c)
  <2>1. ~InFlag(c) /\ pc[c] # "done" /\ Enter(c) /\ writes' = writes
    BY <1>2 DEF BeginStatic, LoginReturns, InFlag, Critical, Guarded
  <2>2. QED
    BY <2>1, EnterEffect
<1>3. CASE BeginAuth(c) \/ PrefetchStarts(c)
  BY <1>0, <1>3 DEF BeginAuth, PrefetchStarts, Goto, Invisible, Stays, InFlag, Critical, Guarded
<1>4. CASE CheckCache(c) \/ CloudLogin(c) \/ StoreToken(c) \/ OrphanReturns(c)
  BY <1>4 DEF CheckCache, CloudLogin, StoreToken, OrphanReturns, Invisible, Stays, InFlag
<1>5. CASE LoginFails(c)
  <2>1. busy' = busy /\ writes' = writes
    BY <1>5 DEF LoginFails
  <2>2. CASE pc[c] \in {"prelogin", "login", "relogin"}
    <3>1. ~InFlag(c) /\ pc[c] # "done" /\ Return(c, "fail")
      BY <1>5, <2>2 DEF LoginFails, InFlag, Critical, Guarded
    <3>2. QED
      BY <2>1, <3>1, ReturnGivesUp
  <2>3. CASE pc[c] \notin {"prelogin", "login", "relogin"}
    BY <1>5, <2>1, <2>3 DEF LoginFails, Invisible, Stays, InFlag
  <2>4. QED
    BY <2>2, <2>3
<1>6. CASE PrefetchReturns(c)
  <2>1. busy' = busy /\ writes' = writes /\ ~InFlag(c) /\ pc[c] # "done"
    BY <1>6 DEF PrefetchReturns, InFlag, Critical, Guarded
  <2>2. PICK r \in CloudReplies(c) : PrefetchReturns(c)!2!(r)
    BY <1>6 DEF PrefetchReturns
  <2>3. CASE r = "ok"
    <3>1. Goto(c, "login") /\ result' = result
      BY <2>2, <2>3
    <3>2. QED
      BY <1>0, <2>1, <3>1 DEF Goto, Invisible, Stays, InFlag, Critical, Guarded
  <2>4. CASE r # "ok"
    <3>1. Return(c, r) /\ r \in {"108", "fail", "cancelled", "valueerror"}
      BY <2>2, <2>4, RepliesType
    <3>2. QED
      BY <2>1, <3>1, ReturnGivesUp
  <2>5. QED
    BY <2>3, <2>4
<1>7. CASE \/ EnableNotify(c) \/ PubkeyReturns(c) \/ EmptyAck(c) \/ LockKeyArrives(c)
           \/ VerifyReturns(c) \/ AckArrives(c) \/ WriteControl(c)
           \/ ReplyOrTimeout(c) \/ Completes(c) \/ BleFails(c) \/ ConsumerRaises108(c)
  <2>1. Stays(c) \/ Takes(c) \/ GivesBack(c)
    BY <1>0, <1>7, StepKind DEF Resume
  <2>2. InFlag(c) /\ busy' = busy /\ result' = result
    BY <1>7 DEF EnableNotify, PubkeyReturns, EmptyAck, LockKeyArrives, VerifyReturns,
                AckArrives, WriteControl, ReplyOrTimeout, Completes, BleFails,
                ConsumerRaises108, InFlag, Critical, Guarded
  <2>3. InFlag(c)'
    BY <1>0, <1>7
       DEF EnableNotify, PubkeyReturns, EmptyAck, LockKeyArrives, VerifyReturns,
           AckArrives, WriteControl, ReplyOrTimeout, Completes, BleFails,
           ConsumerRaises108, LeaveTry, Goto, InFlag, Critical, Guarded
  <2>4. Stays(c)
    BY <2>2, <2>3 DEF Stays
  <2>5. \/ writes' = writes
        \/ pc[c] \in {"ack", "write"} /\ writes' = [writes EXCEPT ![c] = @ + 1]
    <3>1. CASE AckArrives(c)
      <4>1. PICK frame \in LockAcks : AckArrives(c)!2!(frame)
        BY <3>1 DEF AckArrives
      <4>2. pc[c] = "ack" /\ writes \in [Calls -> Nat]
        BY <1>0, <3>1 DEF AckArrives, TypeOK
      <4>3. \/ writes' = writes
            \/ writes' = [writes EXCEPT ![c] = IF c \in PostAuth THEN @ + 1 ELSE @]
        BY <4>1
      <4>4. QED
        BY <4>2, <4>3
    <3>2. CASE ~AckArrives(c)
      BY <1>7, <3>2 DEF EnableNotify, PubkeyReturns, EmptyAck, LockKeyArrives,
         VerifyReturns, WriteControl, ReplyOrTimeout, Completes, BleFails, ConsumerRaises108
    <3>3. QED
      BY <3>1, <3>2
  <2>6. pc[c] \in {"ack", "write"} => writes[c] = 0
    BY <1>0 DEF CallInv, Moved, Before
  <2>7. QED
    BY <2>2, <2>4, <2>5, <2>6, InsideEffect
<1>8. CASE StopNotify(c)
  <2>1. pc[c] = "cleanup" /\ writes' = writes /\ InFlag(c)
    BY <1>8 DEF StopNotify, InFlag, Critical
  <2>2. CASE nextChar[c] < NChars /\ UNCHANGED <<pc, result, worker, busy>>
    BY <2>1, <2>2 DEF Invisible, Stays, InFlag
  <2>3. CASE /\ busy' = [busy EXCEPT ![DeviceOf[c]] = FALSE]
             /\ CanRetry(c) /\ Goto(c, "relogin") /\ result' = result
    <3>1. GivesBack(c)
      BY <1>0, <2>1, <2>3 DEF Goto, GivesBack, InFlag, Critical, Guarded
    <3>2. writes[c] = 0
      BY <1>0, <2>1, <2>3 DEF CallInv, Moved, CanRetry
    <3>3. QED
      BY <2>1, <2>3, <3>1, <3>2 DEF Releases
  <2>4. CASE busy' = [busy EXCEPT ![DeviceOf[c]] = FALSE] /\ Return(c, exit[c])
    <3>1. GivesBack(c)
      BY <1>0, <2>1, <2>4 DEF Return, Goto, GivesBack, InFlag, Critical, Guarded
    <3>2. exit[c] \in {"ok", "108", "fail", "cancelled"} /\ (exit[c] = "ok" => writes[c] = 1)
      BY <1>0, <2>1 DEF CallInv, Outcome, TypeOK, Exits
    <3>3. result' = [result EXCEPT ![c] = exit[c]]
      BY <2>4 DEF Return
    <3>4. QED
      BY <2>1, <3>1, <3>2, <3>3 DEF Releases
  <2>5. QED
    BY <1>8, <2>2, <2>3, <2>4 DEF StopNotify
<1>9. CASE Cancel(c)
  <2>1. CASE CancelOutside(c)
    <3>1. ~InFlag(c) /\ pc[c] # "done" /\ Return(c, "cancelled") /\ busy' = busy /\ writes' = writes
      BY <2>1 DEF CancelOutside, Outside, InFlag, Critical, Guarded
    <3>2. QED
      BY <3>1, ReturnGivesUp
  <2>2. CASE CancelGuarded(c)
    <3>1. InFlag(c) /\ busy' = busy /\ result' = result /\ LeaveTry(c, "cancelled")
      BY <2>2 DEF CancelGuarded, InFlag, Critical
    <3>2. Stays(c)
      BY <1>0, <3>1, LeaveTryStays
    <3>3. \/ writes' = writes
          \/ writes[c] = 0 /\ writes' = [writes EXCEPT ![c] = @ + 1]
      <4>1. pc[c] = "write" => writes[c] = 0
        BY <1>0 DEF CallInv, Moved, Before
      <4>2. \/ writes' = writes
            \/ pc[c] = "write" /\ writes' = [writes EXCEPT ![c] = @ + 1]
        BY <2>2 DEF CancelGuarded
      <4>3. QED
        BY <4>1, <4>2
    <3>4. QED
      BY <3>1, <3>2, <3>3, InsideEffect
  <2>3. CASE CancelUnguarded(c)
    <3>1. /\ InFlag(c) /\ Return(c, "cancelled") /\ writes' = writes
          /\ busy' = [busy EXCEPT ![DeviceOf[c]] = FALSE]
      BY <2>3 DEF CancelUnguarded, InFlag, Critical
    <3>2. GivesBack(c)
      BY <1>0, <3>1 DEF Return, Goto, GivesBack, InFlag, Critical, Guarded
    <3>3. QED
      BY <3>1, <3>2 DEF Releases, Return
  <2>4. QED
    BY <1>9, <2>1, <2>2, <2>3 DEF Cancel
<1>10. QED
  BY <1>1, <1>2, <1>3, <1>4, <1>5, <1>6, <1>7, <1>8, <1>9 DEF Begin, Thread, Resume

holders == {c \in Calls : InFlag(c)}

LEMMA Holders ==
  ASSUME NEW c \in Calls, \A x \in Calls \ {c} : InFlag(x)' <=> InFlag(x)
  PROVE  /\ (InFlag(c)' <=> InFlag(c)) => holders' = holders
         /\ InFlag(c)' => holders' = holders \cup {c}
         /\ ~InFlag(c)' => holders' = holders \ {c}
BY DEF holders

LEMMA InitPromise == Init => Promise!Init
BY DEF Init, Promise!Init, InFlag, Critical, Guarded

LEMMA StepPromise ==
  Inv /\ Excl /\ [Next]_vars => [Promise!Next]_(Promise!absVars)
<1> SUFFICES ASSUME Inv, Excl, [Next]_vars
             PROVE  Promise!Next \/ UNCHANGED Promise!absVars
  OBVIOUS
<1>1. CASE \E c \in Calls : Begin(c) \/ Thread(c) \/ Resume(c) \/ Cancel(c)
  <2>1. PICK c \in Calls : Begin(c) \/ Thread(c) \/ Resume(c) \/ Cancel(c)
    BY <1>1
  <2>2. \A x \in Calls \ {c} : InFlag(x)' <=> InFlag(x)
    BY <2>1, StepFrame DEF Inv, Frame, InFlag
  <2>3. DeviceOf[c] \in Devices
    BY Constants
  <2>4. busy[DeviceOf[c]] <=> Promise!Held(c)
    BY <2>3 DEF Excl, FlagMatchesHolder, Promise!Held
  <2>5. CASE Invisible(c)
    BY <2>2, <2>5, Holders DEF Invisible, Stays, holders, Promise!absVars
  <2>6. CASE Moves(c)
    <3>1. Promise!Move(c)
      BY <2>2, <2>6, Holders DEF Moves, Stays, holders, Promise!Move
    <3>2. QED
      BY <3>1 DEF Promise!Next
  <2>7. CASE GivesUp(c)
    <3>1. Promise!GiveUp(c)
      BY <2>2, <2>7, Holders DEF GivesUp, Stays, holders, Promise!GiveUp
    <3>2. QED
      BY <3>1 DEF Promise!Next
  <2>8. CASE Refused(c)
    <3>1. Promise!Refuse(c)
      BY <2>2, <2>4, <2>8, Holders DEF Refused, Stays, holders, Promise!Refuse
    <3>2. QED
      BY <3>1 DEF Promise!Next
  <2>9. CASE Acquires(c)
    <3>1. Promise!Acquire(c)
      BY <2>2, <2>4, <2>9, Holders DEF Acquires, Takes, holders, Promise!Acquire
    <3>2. QED
      BY <3>1 DEF Promise!Next
  <2>10. CASE Releases(c)
    <3>1. Promise!Release(c)
      BY <2>2, <2>10, Holders DEF Releases, GivesBack, holders, Promise!Release
    <3>2. QED
      BY <3>1 DEF Promise!Next
  <2>11. QED
    BY <2>1, <2>5, <2>6, <2>7, <2>8, <2>9, <2>10, StepEffect DEF Visible
<1>2. CASE Aside \/ UNCHANGED vars
  BY <1>2 DEF Aside, LookUp, TokenExpires, vars, callVars, Promise!absVars, InFlag
<1>3. QED
  BY <1>1, <1>2 DEF Next, Aside, AllReturned

\* The calls implement the promise of DeviceLock, for any number of calls and
\* devices, attempts and characteristics.
THEOREM Refinement == Spec => DeviceLockSpec
<1>1. Spec => []Inv
  BY Invariant
<1>2. Spec => []Excl
  BY Exclusion DEF Excl
<1>3. Inv /\ Excl /\ [Next]_vars => [Promise!Next]_(Promise!absVars)
  BY StepPromise
<1>4. QED
  BY <1>1, <1>2, <1>3, InitPromise, PTL DEF Spec, DeviceLockSpec, Promise!Spec
=============================================================================
