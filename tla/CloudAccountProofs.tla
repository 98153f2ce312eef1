------------------------- MODULE CloudAccountProofs -------------------------
(***************************************************************************)
(* Proofs about the account manager and the requests to the cloud, for any *)
(* account, number of threads and of logins, and any time the cloud takes. *)
(***************************************************************************)
EXTENDS CloudAccount, SequenceTheorems, TLAPS

-----------------------------------------------------------------------------
(* The signature.                                                          *)

Users == {None} \cup {a.user : a \in Accounts}
Tokens == {None} \cup Nat

\* What a request of the program may be.
Requests ==
    [query : {None} \cup Seq(Texts), payload : {None} \cup Seq(Texts),
     encrypted : BOOLEAN, token : Tokens, user : Users]

\* The cloud opens what was sealed.
LEMMA OpenedSealed ==
  ASSUME NEW S, NEW body \in Seq(S)
  PROVE  Opened(Sealed(body)) = body /\ Sealed(body) \in Seq(S \cup {"gcm"})
<1> DEFINE T == S \cup {"gcm"}
           box == <<"gcm">> \o body
<1>0. body \in Seq(T)
  BY SeqMonotonic
<1>1. body \in Seq(T) /\ <<"gcm">> \in Seq(T)
  BY <1>0
<1>2. /\ box \in Seq(T) /\ Len(box) = 1 + Len(body)
      /\ \A i \in 1..Len(box) : box[i] = IF i <= 1 THEN "gcm" ELSE body[i - 1]
  BY <1>1, ConcatProperties
<1>3. Len(body) \in Nat /\ box # <<>>
  BY <1>1, <1>2, LenProperties
<1>4. /\ Tail(box) \in Seq(T) /\ Len(Tail(box)) = Len(body)
      /\ \A i \in 1..Len(body) : Tail(box)[i] = body[i]
  BY <1>2, <1>3, HeadTailProperties
<1>5. Tail(box) = body
  BY <1>1, <1>4, SeqEqual
<1>6. QED
  BY <1>2, <1>5 DEF Opened, Sealed

\* What is signed is what the cloud reads out of the request.
LEMMA SignatureHolds ==
  ASSUME NEW req \in Requests
  PROVE  Prepared(req).sign = CloudSign(Prepared(req))
<1> DEFINE msg == Prepared(req)
<1>1. /\ msg.query = req.query /\ msg.data = Data(req) /\ msg.token = req.token
      /\ msg.sealed = (req.encrypted /\ Data(req) # None)
      /\ msg.sign = ComputeSign(req.token, BodyStr(req))
  BY DEF Prepared, Signed
<1>2. CASE req.query # None
  BY <1>1, <1>2 DEF CloudSign, BodyStr
<1>3. CASE req.query = None /\ BodyStr(req) = <<>>
  BY <1>1, <1>3 DEF CloudSign, Data
<1>4. CASE req.query = None /\ BodyStr(req) # <<>>
  <2>1. BodyStr(req) \in Seq(Texts)
    BY <1>4 DEF BodyStr, Requests
  <2>2. CASE req.encrypted
    <3>1. Data(req) = Sealed(BodyStr(req))
      BY <1>4, <2>2 DEF Data
    <3>2. Sealed(BodyStr(req)) \in Seq(Texts \cup {"gcm"})
      BY <2>1, OpenedSealed
    <3>4. Data(req) # None
      BY <3>1, <3>2, NoneIsNothing DEF NoneIsNothing
    <3>5. Opened(Data(req)) = BodyStr(req)
      BY <2>1, <3>1, OpenedSealed
    <3>6. QED
      BY <1>1, <1>4, <2>2, <3>4, <3>5 DEF CloudSign
  <2>3. CASE ~req.encrypted
    <3>1. Data(req) = BodyStr(req)
      BY <1>4, <2>3 DEF Data
    <3>2. Data(req) # None
      BY <2>1, <3>1, SeqMonotonic, NoneIsNothing DEF NoneIsNothing
    <3>3. QED
      BY <1>1, <1>4, <2>3, <3>1, <3>2 DEF CloudSign
  <2>4. QED
    BY <2>2, <2>3 DEF Requests
<1>5. QED
  BY <1>2, <1>3, <1>4
-----------------------------------------------------------------------------
(* What the answers come to.                                               *)

\* What the program makes of each answer the cloud may give.
LEMMA Interpretations ==
  /\ Interpreted(Unanswered) = Raised("RuntimeError")
  /\ \A what : Interpreted(Granted(what)) = [raised |-> None, code |-> None, result |-> what]
  /\ \A form \in {"number", "text"} : \A value \in Nat \ {0} :
       Interpreted(Denied(form, value)) =
         [raised |-> "CloudServiceError", code |-> [form |-> form, value |-> value],
          result |-> NoFields]
<1>1. Interpreted(Unanswered) = Raised("RuntimeError")
  <2>1. Unanswered.kind = "timeout"
    BY DEF Unanswered
  <2>2. QED
    BY <2>1 DEF Interpreted
<1>2. ASSUME NEW what
      PROVE  Interpreted(Granted(what)) = [raised |-> None, code |-> None, result |-> what]
  BY DEF Interpreted, Granted, Zero, Unwrapped
<1>3. ASSUME NEW form \in {"number", "text"}, NEW value \in Nat \ {0}
      PROVE  Interpreted(Denied(form, value)) =
               [raised |-> "CloudServiceError", code |-> [form |-> form, value |-> value],
                result |-> NoFields]
  <2> DEFINE code == [form |-> form, value |-> value]
  <2>1. code # None /\ code.value # 0
    <3>1. code \in [form : {"number", "text"}, value : Nat]
      OBVIOUS
    <3>2. QED
      BY <3>1, NoneIsNothing DEF NoneIsNothing
  <2>2. Denied(form, value).kind = "json" /\ Denied(form, value).code = code
    BY DEF Denied
  <2>3. Interpreted(Denied(form, value)) = Unwrapped(Denied(form, value))
    BY <2>2 DEF Interpreted
  <2>4. QED
    BY <2>1, <2>2, <2>3 DEF Unwrapped
<1>4. QED
  BY <1>1, <1>2, <1>3

LEMMA AnswerKinds ==
  ASSUME NEW t \in Threads, NEW what, NEW ans \in Answers(t, what)
  PROVE  \/ /\ ans = Granted(what) /\ local[t].signer.token = logins
            /\ Interpreted(ans) = [raised |-> None, code |-> None, result |-> what]
         \/ /\ ~Unraised(ans) /\ Interpreted(ans).raised \in Errors
            /\ Interpreted(ans).result = NoFields
<1> None \notin Errors
  BY NoneIsNothing DEF NoneIsNothing
<1>1. CASE ans = Unanswered
  BY <1>1, Interpretations DEF Raised, Unraised, Errors
<1>2. CASE ans = Denied("number", 108)
  BY <1>2, Interpretations DEF Unraised, Errors
<1>3. CASE ans = Granted(what) /\ local[t].signer.token = logins
  BY <1>3, Interpretations
<1>4. QED
  BY <1>1, <1>2, <1>3 DEF Answers

LEMMA LoginKinds ==
  ASSUME NEW t \in Threads
  PROVE  /\ \A u : \A n \in Nat : LoginResult(t, Granted([token |-> n, userId |-> u]))
                               = [kind |-> "token", token |-> n, user |-> u]
         /\ \A ans \in {Unanswered, Denied("number", 810), Denied("text", 500), Granted(NoFields)} :
              LoginResult(t, ans) \in [kind : {"failed"}, why : Errors]
<1> None \notin Errors /\ None \notin Nat
  BY NoneIsNothing DEF NoneIsNothing
<1>1. ASSUME NEW n \in Nat, NEW u
      PROVE  LoginResult(t, Granted([token |-> n, userId |-> u]))
             = [kind |-> "token", token |-> n, user |-> u]
  <2> DEFINE what == [token |-> n, userId |-> u]
  <2>1. Interpreted(Granted(what)) = [raised |-> None, code |-> None, result |-> what]
    BY Interpretations
  <2>2. Got(what, "token") = n /\ Got(what, "userId") = u
    BY DEF Got
  <2>3. QED
    BY <2>1, <2>2 DEF LoginResult, IsCode
<1>2. LoginResult(t, Unanswered) \in [kind : {"failed"}, why : Errors]
  BY Interpretations DEF Raised, LoginResult, Failed, IsCode, Errors
<1>3. ASSUME NEW form \in {"number", "text"}, NEW value \in {810, 500}
      PROVE  LoginResult(t, Denied(form, value)) \in [kind : {"failed"}, why : Errors]
  BY Interpretations DEF LoginResult, Failed, IsCode, Errors
<1>4. LoginResult(t, Granted(NoFields)) \in [kind : {"failed"}, why : Errors]
  BY Interpretations DEF LoginResult, Failed, IsCode, Got, NoFields, Errors
<1>5. QED
  BY <1>1, <1>2, <1>3, <1>4
-----------------------------------------------------------------------------
(* Types.                                                                  *)

Statements ==
    {"idle", "check", "sign", "list", "look up", "label", "done"} \cup LoggingIn \cup Ops

Signers == [token : Tokens, user : Users]

Locals ==
    [mac : Macs \cup {None}, force : BOOLEAN, held : Signers, signer : Signers,
     devices : Seq(Devices) \cup {None}, left : Seq(Devices), missed : SUBSET Devices,
     issued : Nat]

TypeOK ==
  /\ cloud \in Accounts /\ logins \in Nat /\ clock \in Nat
  /\ token \in Tokens /\ userId \in Users
  /\ pc \in [Threads -> Statements] /\ op \in [Threads -> Ops \cup {None}]
  /\ \A t \in Threads : op[t] \in Ops \/ pc[t] = "idle"
  /\ local \in [Threads -> Locals]
  /\ DOMAIN sent = Threads /\ DOMAIN result = Threads

\* A step of a thread leaves the other threads alone, and the cloud's account.
LEMMA OthersStay ==
  ASSUME TypeOK, NEW t \in Threads, Start(t) \/ Step(t)
  PROVE  /\ cloud' = cloud /\ clock' = clock
         /\ \A u \in Threads \ {t} :
              /\ pc'[u] = pc[u] /\ op'[u] = op[u] /\ local'[u] = local[u]
              /\ sent'[u] = sent[u] /\ result'[u] = result[u]
<1>1. CASE Start(t)
  BY <1>1 DEF TypeOK, Start, Goto
<1>2. CASE CheckCache(t)
  BY <1>2 DEF TypeOK, CheckCache, Goto
<1>3. CASE LoginGranted(t)
  BY <1>3 DEF TypeOK, LoginGranted, Goto, End
<1>4. CASE LoginFails(t) \/ StoreToken(t) \/ StoreUser(t) \/ BuildSigner(t)
  <2>1. CASE LoginFails(t)
    BY <2>1 DEF TypeOK, LoginFails, Goto, End
  <2>2. CASE StoreToken(t) \/ StoreUser(t)
    BY <2>2 DEF TypeOK, StoreToken, StoreUser, Goto
  <2>3. CASE BuildSigner(t)
    BY <2>3 DEF TypeOK, BuildSigner, Goto
  <2>4. QED
    BY <1>4, <2>1, <2>2, <2>3
<1>5. CASE SessionRequest(t)
  BY <1>5 DEF TypeOK, SessionRequest, Sends, Goto, End
<1>6. CASE ListDevices(t)
  BY <1>6 DEF TypeOK, ListDevices, Sends, Goto, End
<1>7. CASE LookUp(t) \/ LookedUp(t)
  BY <1>7 DEF TypeOK, LookUp, LookedUp, Sends, Goto, End
<1>8. CASE FetchPasswords(t) \/ Label(t) \/ FetchLog(t)
  BY <1>8 DEF TypeOK, FetchPasswords, Label, FetchLog, Sends, Goto, End
<1>9. QED
  BY <1>1, <1>2, <1>3, <1>4, <1>5, <1>6, <1>7, <1>8 DEF Step

\* The list the cloud gives is one of ids.
LEMMA DevicesListed ==
  ASSUME TypeOK, NEW t \in Threads,
         NEW ans \in Answers(t, [data |-> cloud.devices]) \cup Answers(t, NoFields)
  PROVE  IdsOf(DevicesIn(ans)) \in Seq(Devices)
<1>1. \A what : Got([data |-> what], "data") = what /\ Got(NoFields, "data") = None
  BY DEF Got, NoFields
<1>2. \/ Interpreted(ans).result = [data |-> cloud.devices]
      \/ Interpreted(ans).result = NoFields
  BY AnswerKinds
<1>3. DevicesIn(ans) \in {cloud.devices, <<>>}
  BY <1>1, <1>2 DEF DevicesIn
<1>4. QED
  <2>1. cloud \in Accounts
    BY DEF TypeOK
  <2>2. IdsOf(cloud.devices) \in Seq(Devices) /\ IdsOf(<<>>) \in Seq(Devices)
    BY <2>1, AccountsOK, EmptySeq DEF AccountsOK
  <2>3. QED
    BY <1>3, <2>2

LEMMA LocalChange ==
  ASSUME TypeOK, NEW t \in Threads, NEW r \in Locals
  PROVE  [local EXCEPT ![t] = r] \in [Threads -> Locals]
BY DEF TypeOK

LEMMA HoldChange ==
  ASSUME NEW r \in Locals, NEW held \in Signers
  PROVE  [r EXCEPT !.held = held] \in Locals
BY DEF Locals

LEMMA ListChange ==
  ASSUME NEW r \in Locals, NEW ids \in Seq(Devices)
  PROVE  [r EXCEPT !.devices = ids, !.left = ids] \in Locals
BY DEF Locals

LEMMA SearchChange ==
  ASSUME NEW r \in Locals, NEW left \in Seq(Devices), NEW missed \in SUBSET Devices
  PROVE  [r EXCEPT !.left = left, !.missed = missed] \in Locals
BY DEF Locals

LEMMA TypeInit == Init => TypeOK
<1>1. Fresh(None) \in Locals
  BY DEF Fresh, NoSigner, Locals, Signers, Tokens, Users
<1>2. QED
  BY <1>1 DEF Init, TypeOK, Statements, Tokens, Users

LEMMA TypeStep ==
  ASSUME TypeOK, [Next]_vars
  PROVE  TypeOK'
<1>1. CASE UNCHANGED vars \/ Tick \/ Done
  BY <1>1, AccountConstantsOK DEF TypeOK, vars, Tick, Done, AccountConstantsOK
<1>2. ASSUME NEW t \in Threads, Start(t)
      PROVE  TypeOK'
  <2>1. PICK mac \in Macs \cup {None} : local' = [local EXCEPT ![t] = Fresh(mac)]
    BY <1>2 DEF Start
  <2>2. Fresh(mac) \in Locals
    BY DEF Fresh, NoSigner, Locals, Signers, Tokens, Users
  <2>3. local' \in [Threads -> Locals]
    BY <2>1, <2>2, LocalChange
  <2>4. QED
    BY <1>2, <2>3 DEF Start, Goto, TypeOK, Statements, Ops
<1>3. ASSUME NEW t \in Threads, CheckCache(t)
      PROVE  TypeOK'
  <2> DEFINE cached == [token |-> token, user |-> None]
  <2>1. cached \in Signers
    BY DEF TypeOK, Signers, Users
  <2>2. [local[t] EXCEPT !.held = cached] \in Locals
    <3>1. local[t] \in Locals
      BY DEF TypeOK
    <3>2. QED
      BY <2>1, <3>1, HoldChange
  <2>3. local' \in [Threads -> Locals]
    BY <1>3, <2>2, LocalChange DEF CheckCache, TypeOK
  <2>4. QED
    BY <1>3, <2>3 DEF CheckCache, Goto, TypeOK, Statements, LoggingIn
<1>4. ASSUME NEW t \in Threads, LoginGranted(t)
      PROVE  TypeOK'
  <2>1. PICK ans \in {Granted([token |-> logins + 1, userId |-> cloud.user]), Unanswered} :
          IF LoginResult(t, ans).kind = "token"
          THEN /\ local' = [local EXCEPT ![t].held = [token |-> LoginResult(t, ans).token,
                                                     user |-> LoginResult(t, ans).user]]
               /\ Goto(t, "store token")
               /\ UNCHANGED <<result, lapses>>
          ELSE /\ End(t, LoginResult(t, ans))
               /\ lapses' = lapses \cup {"lost"}
               /\ UNCHANGED local
    BY <1>4 DEF LoginGranted
  <2>2. logins + 1 \in Nat /\ cloud.user \in Users
    BY DEF TypeOK, Users
  <2>3. CASE LoginResult(t, ans).kind = "token"
    <3>1. LoginResult(t, ans).token = logins + 1 /\ LoginResult(t, ans).user = cloud.user
      <4>1. CASE ans = Unanswered
        BY <2>3, <4>1, LoginKinds
      <4>2. CASE ans = Granted([token |-> logins + 1, userId |-> cloud.user])
        <5>1. LoginResult(t, ans) = [kind |-> "token", token |-> logins + 1, user |-> cloud.user]
          BY <2>2, <4>2, LoginKinds
        <5>2. QED
          BY <5>1
      <4>3. QED
        BY <4>1, <4>2
    <3>2. [token |-> logins + 1, user |-> cloud.user] \in Signers
      BY <2>2 DEF Signers, Tokens
    <3>3. [local[t] EXCEPT !.held = [token |-> logins + 1, user |-> cloud.user]] \in Locals
      <4>1. local[t] \in Locals
        BY DEF TypeOK
      <4>2. QED
        BY <3>2, <4>1, HoldChange
    <3>4. local' = [local EXCEPT ![t] =
                      [local[t] EXCEPT !.held = [token |-> logins + 1, user |-> cloud.user]]]
      BY <2>1, <2>3, <3>1
    <3>5. local' \in [Threads -> Locals]
      BY <3>3, <3>4, LocalChange
    <3>6. QED
      BY <1>4, <2>1, <2>2, <2>3, <3>5 DEF TypeOK, LoginGranted, Goto, Statements, LoggingIn
  <2>4. CASE LoginResult(t, ans).kind # "token"
    BY <1>4, <2>1, <2>2, <2>4 DEF TypeOK, LoginGranted, Goto, End, Statements
  <2>5. QED
    BY <2>3, <2>4
<1>5. ASSUME NEW t \in Threads, LoginFails(t) \/ StoreToken(t) \/ StoreUser(t)
      PROVE  TypeOK'
  <2>1. local[t].held.token \in Tokens /\ local[t].held.user \in Users
    BY DEF TypeOK, Locals, Signers
  <2>2. QED
    <3>1. CASE LoginFails(t)
      <4>1. /\ pc' = [pc EXCEPT ![t] = "done"] /\ DOMAIN result' = DOMAIN result
            /\ pc[t] = "login"
            /\ UNCHANGED <<cloud, logins, clock, token, userId, op, local, sent>>
        BY <3>1 DEF LoginFails, Goto, End
      <4>2. QED
        BY <4>1 DEF TypeOK, Statements
    <3>2. CASE StoreToken(t)
      BY <2>1, <3>2 DEF TypeOK, StoreToken, Goto, Statements, LoggingIn
    <3>3. CASE StoreUser(t)
      BY <2>1, <3>3 DEF TypeOK, StoreUser, Goto, Statements, LoggingIn
    <3>4. QED
      BY <1>5, <3>1, <3>2, <3>3
<1>6. ASSUME NEW t \in Threads, BuildSigner(t)
      PROVE  TypeOK'
  <2> DEFINE signer == [token |-> local[t].held.token, user |-> userId]
  <2>1. signer \in Signers
    BY DEF TypeOK, Locals, Signers
  <2>2. [local[t] EXCEPT !.signer = signer] \in Locals
    BY <2>1 DEF TypeOK, Locals
  <2>3. local' \in [Threads -> Locals]
    BY <1>6, <2>2, LocalChange DEF BuildSigner, TypeOK
  <2>4. op[t] \in Ops
    BY <1>6 DEF TypeOK, BuildSigner
  <2>5. QED
    BY <1>6, <2>3, <2>4 DEF TypeOK, BuildSigner, Goto, Statements, LoggingIn, Ops
<1>7. ASSUME NEW t \in Threads, SessionRequest(t)
      PROVE  TypeOK'
  <2>1. [local[t] EXCEPT !.force = TRUE] \in Locals
    BY DEF TypeOK, Locals
  <2>2. local' \in [Threads -> Locals]
    BY <1>7, <2>1, LocalChange DEF SessionRequest, TypeOK
  <2>3. QED
    BY <1>7, <2>2 DEF TypeOK, SessionRequest, Sends, Goto, End, Statements
<1>8. ASSUME NEW t \in Threads, ListDevices(t)
      PROVE  TypeOK'
  <2>1. PICK ans \in Answers(t, [data |-> cloud.devices]) \cup Answers(t, NoFields) :
          ListDevices(t)!3!(ans)
    BY <1>8 DEF ListDevices
  <2> DEFINE ids == IdsOf(DevicesIn(ans))
  <2>2. ids \in Seq(Devices)
    BY DevicesListed
  <2> HIDE DEF ids
  <2>3. [local[t] EXCEPT !.devices = ids, !.left = ids] \in Locals
    <3>1. local[t] \in Locals
      BY DEF TypeOK
    <3>2. QED
      BY <2>2, <3>1, ListChange
  <2>4. local' = [local EXCEPT ![t] = [local[t] EXCEPT !.devices = ids, !.left = ids]] \/ local' = local
    BY <2>1 DEF TypeOK, ids
  <2>5. local' \in [Threads -> Locals]
    BY <2>3, <2>4, LocalChange DEF TypeOK
  <2>6. QED
    BY <1>8, <2>5 DEF TypeOK, ListDevices, Sends, Goto, End, Statements
<1>9. ASSUME NEW t \in Threads, LookUp(t)
      PROVE  TypeOK'
  <2> DEFINE r == local[t]
             did == Head(r.left)
  <2>1. did \in Devices /\ Tail(r.left) \in Seq(Devices) /\ r.missed \in SUBSET Devices
    BY <1>9, HeadTailProperties DEF LookUp, TypeOK, Locals
  <2>2. \A missed \in {r.missed, r.missed \cup {did}} :
          [r EXCEPT !.left = Tail(r.left), !.missed = missed] \in Locals
    <3>1. r \in Locals
      BY DEF TypeOK
    <3>2. r.missed \cup {did} \in SUBSET Devices
      BY <2>1
    <3> HIDE DEF r, did
    <3>3. QED
      BY <2>1, <3>1, <3>2, SearchChange
  <2>3. \/ local' = local
        \/ \E missed \in {r.missed, r.missed \cup {did}} :
             local' = [local EXCEPT ![t] = [r EXCEPT !.left = Tail(r.left), !.missed = missed]]
    BY <1>9 DEF LookUp, TypeOK
  <2>4. local' \in [Threads -> Locals]
    BY <2>2, <2>3, LocalChange DEF TypeOK
  <2>5. QED
    BY <1>9, <2>4 DEF TypeOK, LookUp, Sends, Goto, End, Statements
<1>10. ASSUME NEW t \in Threads, FetchPasswords(t)
       PROVE  TypeOK'
  <2>1. [local[t] EXCEPT !.issued = clock] \in Locals
    BY DEF TypeOK, Locals
  <2>2. local' \in [Threads -> Locals]
    BY <1>10, <2>1, LocalChange DEF FetchPasswords, TypeOK
  <2>3. QED
    BY <1>10, <2>2 DEF TypeOK, FetchPasswords, Sends, Goto, End, Statements
<1>11. ASSUME NEW t \in Threads, LookedUp(t) \/ Label(t) \/ FetchLog(t)
       PROVE  TypeOK'
  BY <1>11 DEF TypeOK, LookedUp, Label, FetchLog, Sends, Goto, End, Statements
<1>12. QED
  BY <1>1, <1>2, <1>3, <1>4, <1>5, <1>6, <1>7, <1>8, <1>9, <1>10, <1>11 DEF Next, Step
-----------------------------------------------------------------------------
(* The cache.                                                              *)

\* A granted token is on its way into the cache with the user it is for; whoever
\* signs, signs with a token, and the cache has had one since.
LoginHeld ==
  /\ \A t \in Threads :
       /\ pc[t] \in {"store token", "store user"} =>
            local[t].held.token \in Nat /\ local[t].held.user = cloud.user
       /\ pc[t] \in {"store user", "sign"} => token # None
       /\ pc[t] = "sign" => local[t].held.token # None
  /\ userId \in {None, cloud.user}

\* The user id is stored after the token, by the thread that stored it.
UserFollows ==
  token # None /\ userId = None =>
    cloud.user = None \/ \E t \in Threads : pc[t] = "store user"

\* But for an overlap or a lost answer one thread logs in at a time, and what it
\* is about to store is the newest token.
OneLogin ==
  lapses = {} =>
    /\ \A t, u \in Threads : pc[t] \in LoggingIn /\ pc[u] \in LoggingIn => t = u
    /\ \A t \in Threads : pc[t] = "store token" => local[t].held.token = logins /\ logins # 0
    /\ \/ token = IF logins = 0 THEN None ELSE logins
       \/ \E t \in Threads : pc[t] = "store token"

\* While the answer with the codes comes, it is not older than Delay.
AnswerFresh ==
  \A t \in Threads : pc[t] = "label" =>
    local[t].issued <= clock /\ clock <= local[t].issued + Delay

\* What is known of a look-up under way: the caller gave a MAC, and a listed
\* device that has it is still to be looked up or was missed.
LookingUp ==
  \A t \in Threads : pc[t] # "done" /\ local[t].devices # None =>
    /\ local[t].mac # None
    /\ ToSet(local[t].left) \subseteq ToSet(local[t].devices)
    /\ \A d \in ToSet(local[t].devices) :
         Fits(t, d) => d \in ToSet(local[t].left) \cup local[t].missed

\* A look-up under way has its list; a thread that has not begun has nothing.
Listed ==
  \A t \in Threads :
    /\ pc[t] = "look up" => local[t].devices # None
    /\ pc[t] = "idle" => local[t] = Fresh(None)

IInv ==
  /\ TypeOK /\ LoginHeld /\ UserFollows /\ OneLogin /\ SignedIsSent
  /\ AnswerFresh /\ CodesWindow /\ Listed /\ LookingUp /\ ResolveIsRight
-----------------------------------------------------------------------------
(* The steps keep it.                                                      *)

\* A thread's search for a device, and the time of its codes, stay what they were.
SameSearch(t) ==
  /\ local'[t].mac = local[t].mac /\ local'[t].devices = local[t].devices
  /\ local'[t].left = local[t].left /\ local'[t].missed = local[t].missed
  /\ local'[t].issued = local[t].issued

LEMMA HeldChanges ==
  ASSUME TypeOK, NEW t \in Threads, NEW held,
         local' = [local EXCEPT ![t] = [local[t] EXCEPT !.held = held]]
  PROVE  local'[t].held = held /\ local'[t].signer = local[t].signer /\ SameSearch(t)
<1>1. local[t] \in Locals /\ local'[t] = [local[t] EXCEPT !.held = held]
  BY DEF TypeOK
<1>2. QED
  BY <1>1 DEF Locals, SameSearch

\* The cache is taken, or a login begins; a second one beside another is noted.
LEMMA CheckedCache ==
  ASSUME TypeOK, NEW t \in Threads, CheckCache(t)
  PROVE  /\ pc[t] = "check" /\ SameSearch(t) /\ local'[t].signer = local[t].signer
         /\ UNCHANGED <<cloud, clock, logins, token, userId, op, result>>
         /\ \/ /\ pc'[t] = "sign" /\ token # None /\ lapses' = lapses
               /\ local'[t].held = [token |-> token, user |-> None]
            \/ /\ pc'[t] = "login" /\ local' = local
               /\ lapses' = {} => lapses = {} /\ \A u \in Threads : pc[u] \notin LoggingIn
<1>1. pc[t] = "check" /\ UNCHANGED <<cloud, clock, logins, token, userId, op, result>>
  BY DEF CheckCache
<1>2. CASE token # None /\ ~local[t].force
  <2>1. local' = [local EXCEPT ![t] = [local[t] EXCEPT !.held = [token |-> token, user |-> None]]]
    BY <1>2 DEF CheckCache
  <2>2. /\ local'[t].held = [token |-> token, user |-> None]
        /\ local'[t].signer = local[t].signer /\ SameSearch(t)
    BY <2>1, HeldChanges
  <2>3. pc'[t] = "sign" /\ lapses' = lapses
    BY <1>2 DEF CheckCache, Goto, TypeOK
  <2>4. QED
    BY <1>1, <1>2, <2>2, <2>3
<1>3. CASE ~(token # None /\ ~local[t].force)
  BY <1>1, <1>3 DEF CheckCache, Goto, TypeOK, SameSearch
<1>4. QED
  BY <1>2, <1>3

\* A granted login gives its thread the newest token, or ends it.
LEMMA GrantedLogin ==
  ASSUME TypeOK, NEW t \in Threads, LoginGranted(t)
  PROVE  /\ pc[t] = "login" /\ logins' = logins + 1
         /\ SameSearch(t) /\ local'[t].signer = local[t].signer
         /\ UNCHANGED <<cloud, clock, token, userId, op, sent>>
         /\ \/ /\ pc'[t] = "store token" /\ UNCHANGED <<result, lapses>>
               /\ local'[t].held.token = logins + 1 /\ local'[t].held.user = cloud.user
            \/ /\ pc'[t] = "done" /\ result'[t].kind = "failed"
               /\ local' = local /\ lapses' = lapses \cup {"lost"}
<1>1. PICK ans \in {Granted([token |-> logins + 1, userId |-> cloud.user]), Unanswered} :
        IF LoginResult(t, ans).kind = "token"
        THEN /\ local' = [local EXCEPT ![t].held = [token |-> LoginResult(t, ans).token,
                                                   user |-> LoginResult(t, ans).user]]
             /\ Goto(t, "store token")
             /\ UNCHANGED <<result, lapses>>
        ELSE /\ End(t, LoginResult(t, ans))
             /\ lapses' = lapses \cup {"lost"}
             /\ UNCHANGED local
  BY DEF LoginGranted
<1>2. pc[t] = "login" /\ logins' = logins + 1 /\ UNCHANGED <<cloud, clock, token, userId, op, sent>>
  BY DEF LoginGranted
<1>3. CASE ans = Unanswered
  <2>1. LoginResult(t, ans).kind = "failed"
    BY <1>3, LoginKinds
  <2>2. QED
    BY <1>1, <1>2, <2>1 DEF TypeOK, End, Goto, SameSearch
<1>4. CASE ans = Granted([token |-> logins + 1, userId |-> cloud.user])
  <2> DEFINE held == [token |-> LoginResult(t, ans).token, user |-> LoginResult(t, ans).user]
  <2>1. logins + 1 \in Nat
    BY DEF TypeOK
  <2>2. LoginResult(t, ans) = [kind |-> "token", token |-> logins + 1, user |-> cloud.user]
    BY <1>4, <2>1, LoginKinds
  <2>3. LoginResult(t, ans).kind = "token"
    BY <2>2
  <2>4. /\ local' = [local EXCEPT ![t] = [local[t] EXCEPT !.held = held]]
        /\ Goto(t, "store token") /\ UNCHANGED <<result, lapses>>
    BY <1>1, <2>3
  <2>5. held.token = logins + 1 /\ held.user = cloud.user
    BY <2>2
  <2> HIDE DEF held
  <2>6. local'[t].held = held /\ local'[t].signer = local[t].signer /\ SameSearch(t)
    BY <2>4, HeldChanges
  <2>7. pc'[t] = "store token"
    BY <2>4 DEF Goto, TypeOK
  <2>8. QED
    BY <1>2, <2>4, <2>5, <2>6, <2>7
<1>5. QED
  BY <1>1, <1>3, <1>4

\* How each call changes its local variables.
LEMMA LocalsOfCalls ==
  ASSUME TypeOK, NEW t \in Threads
  PROVE  /\ SessionRequest(t) => local'[t] \in {local[t], [local[t] EXCEPT !.force = TRUE]}
         /\ ListDevices(t) => \/ local'[t] = local[t]
                             \/ \E ids \in Seq(Devices) :
                                  local'[t] = [local[t] EXCEPT !.devices = ids, !.left = ids]
         /\ LookUp(t) => \/ local'[t] = local[t]
                        \/ \E missed \in SUBSET Devices :
                             local'[t] = [local[t] EXCEPT !.left = Tail(local[t].left),
                                                          !.missed = missed]
         /\ FetchPasswords(t) => local'[t] \in {local[t], [local[t] EXCEPT !.issued = clock]}
         /\ LookedUp(t) \/ Label(t) \/ FetchLog(t) => local'[t] = local[t]
<1>1. ASSUME SessionRequest(t)
      PROVE  local'[t] \in {local[t], [local[t] EXCEPT !.force = TRUE]}
  BY <1>1 DEF TypeOK, SessionRequest
<1>2. ASSUME ListDevices(t), local'[t] # local[t]
      PROVE  \E ids \in Seq(Devices) :
               local'[t] = [local[t] EXCEPT !.devices = ids, !.left = ids]
  <2>1. PICK ans \in Answers(t, [data |-> cloud.devices]) \cup Answers(t, NoFields) :
          ListDevices(t)!3!(ans)
    BY <1>2 DEF ListDevices
  <2> DEFINE ids == IdsOf(DevicesIn(ans))
  <2>2. ids \in Seq(Devices)
    BY DevicesListed
  <2> HIDE DEF ids
  <2>3. local' = [local EXCEPT ![t] = [local[t] EXCEPT !.devices = ids, !.left = ids]]
    BY <1>2, <2>1 DEF TypeOK, ids
  <2>4. QED
    BY <2>2, <2>3 DEF TypeOK
<1>3. ASSUME LookUp(t), local'[t] # local[t]
      PROVE  \E missed \in SUBSET Devices :
               local'[t] = [local[t] EXCEPT !.left = Tail(local[t].left), !.missed = missed]
  <2>1. local[t].missed \in SUBSET Devices /\ Head(local[t].left) \in Devices
    BY <1>3, HeadTailProperties DEF LookUp, TypeOK, Locals
  <2>2. \E missed \in {local[t].missed, local[t].missed \cup {Head(local[t].left)}} :
          local'[t] = [local[t] EXCEPT !.left = Tail(local[t].left), !.missed = missed]
    BY <1>3 DEF LookUp, TypeOK
  <2>3. QED
    BY <2>1, <2>2
<1>4. ASSUME FetchPasswords(t)
      PROVE  local'[t] \in {local[t], [local[t] EXCEPT !.issued = clock]}
  BY <1>4 DEF TypeOK, FetchPasswords
<1>5. LookedUp(t) \/ Label(t) \/ FetchLog(t) => local'[t] = local[t]
  BY DEF LookedUp, Label, FetchLog
<1>6. QED
  BY <1>1, <1>2, <1>3, <1>4, <1>5

\* The calls' own steps: they leave the cache and the login alone.
Calls(t) ==
  \/ SessionRequest(t) \/ ListDevices(t) \/ LookUp(t) \/ LookedUp(t)
  \/ FetchPasswords(t) \/ Label(t) \/ FetchLog(t)

LEMMA CallsKeepCache ==
  ASSUME TypeOK, NEW t \in Threads, Calls(t)
  PROVE  /\ UNCHANGED <<token, userId, logins, lapses>>
         /\ local'[t].held = local[t].held /\ local'[t].signer = local[t].signer
         /\ pc[t] \in Ops \cup {"list", "look up", "label"}
         /\ pc'[t] \in {"check", "look up", "label", "done"}
<1>1. local[t] \in Locals
  BY DEF TypeOK
<1>2. local'[t].held = local[t].held /\ local'[t].signer = local[t].signer
  <2>1. CASE local'[t] = [local[t] EXCEPT !.force = TRUE]
    BY <1>1, <2>1 DEF Locals
  <2>2. ASSUME NEW ids \in Seq(Devices),
               local'[t] = [local[t] EXCEPT !.devices = ids, !.left = ids]
        PROVE  local'[t].held = local[t].held /\ local'[t].signer = local[t].signer
    BY <1>1, <2>2 DEF Locals
  <2>3. ASSUME NEW left, NEW missed,
               local'[t] = [local[t] EXCEPT !.left = left, !.missed = missed]
        PROVE  local'[t].held = local[t].held /\ local'[t].signer = local[t].signer
    BY <1>1, <2>3 DEF Locals
  <2>4. CASE local'[t] = [local[t] EXCEPT !.issued = clock]
    BY <1>1, <2>4 DEF Locals
  <2>5. CASE local'[t] = local[t]
    BY <2>5
  <2>6. CASE SessionRequest(t) \/ FetchPasswords(t) \/ LookedUp(t) \/ Label(t) \/ FetchLog(t)
    BY <2>1, <2>4, <2>5, <2>6, LocalsOfCalls
  <2>7. CASE ListDevices(t)
    BY <2>2, <2>5, <2>7, LocalsOfCalls
  <2>8. CASE LookUp(t)
    <3>1. CASE local'[t] # local[t]
      <4>1. PICK missed \in SUBSET Devices :
              local'[t] = [local[t] EXCEPT !.left = Tail(local[t].left), !.missed = missed]
        BY <2>8, <3>1, LocalsOfCalls
      <4>2. QED
        BY <2>3, <4>1
    <3>2. QED
      BY <2>5, <3>1
  <2>9. QED
    BY <2>6, <2>7, <2>8 DEF Calls
<1>3. UNCHANGED <<token, userId, logins, lapses>>
  BY DEF Calls, SessionRequest, ListDevices, LookUp, LookedUp, FetchPasswords, Label, FetchLog
<1>4. pc[t] \in Ops \cup {"list", "look up", "label"}
  BY DEF Calls, SessionRequest, ListDevices, LookUp, LookedUp, FetchPasswords, Label, FetchLog, Ops
<1>5. pc'[t] \in {"check", "look up", "label", "done"}
  BY DEF TypeOK, Calls, SessionRequest, ListDevices, LookUp, LookedUp, FetchPasswords, Label,
         FetchLog, Goto, End
<1>6. QED
  BY <1>2, <1>3, <1>4, <1>5

LEMMA LoginHeldStep ==
  ASSUME TypeOK, LoginHeld, NEW t \in Threads, Start(t) \/ Step(t)
  PROVE  LoginHeld'
<1> USE NoneIsNothing DEF NoneIsNothing
<1>1. cloud' = cloud /\ \A u \in Threads \ {t} : pc'[u] = pc[u] /\ local'[u] = local[u]
  BY OthersStay
<1>2. CASE Start(t)
  BY <1>1, <1>2 DEF TypeOK, LoginHeld, Start, Goto
<1>3. CASE CheckCache(t)
  <2>1. /\ UNCHANGED <<token, userId>>
        /\ \/ pc'[t] = "sign" /\ token # None /\ local'[t].held.token = token
           \/ pc'[t] = "login"
    BY <1>3, CheckedCache
  <2>2. QED
    BY <1>1, <2>1 DEF LoginHeld
<1>4. CASE LoginGranted(t)
  <2>1. logins + 1 \in Nat
    BY DEF TypeOK
  <2>2. QED
    BY <1>1, <1>4, <2>1, GrantedLogin DEF LoginHeld
<1>5. CASE LoginFails(t)
  <2>1. pc'[t] = "done" /\ local' = local /\ UNCHANGED <<token, userId>>
    BY <1>5 DEF LoginFails, TypeOK, End, Goto
  <2>2. QED
    BY <1>1, <2>1 DEF LoginHeld
<1>6. CASE StoreToken(t)
  BY <1>1, <1>6 DEF TypeOK, LoginHeld, StoreToken, Goto
<1>7. CASE StoreUser(t)
  BY <1>1, <1>7 DEF TypeOK, LoginHeld, StoreUser, Goto
<1>8. CASE BuildSigner(t)
  <2>1. pc'[t] \notin {"store token", "store user", "sign"}
    BY <1>8 DEF TypeOK, BuildSigner, Goto, Ops
  <2>2. QED
    BY <1>1, <1>8, <2>1 DEF LoginHeld, BuildSigner
<1>9. CASE Calls(t)
  BY <1>1, <1>9, CallsKeepCache DEF LoginHeld
<1>10. QED
  BY <1>2, <1>3, <1>4, <1>5, <1>6, <1>7, <1>8, <1>9 DEF Step, Calls

LEMMA UserFollowsStep ==
  ASSUME TypeOK, LoginHeld, UserFollows, NEW t \in Threads, Start(t) \/ Step(t)
  PROVE  UserFollows'
<1>1. cloud' = cloud /\ \A u \in Threads \ {t} : pc'[u] = pc[u]
  BY OthersStay
<1>2. CASE Start(t) \/ CheckCache(t) \/ LoginFails(t) \/ BuildSigner(t)
  <2>1. pc[t] # "store user" /\ UNCHANGED <<token, userId>>
    BY <1>2 DEF Start, CheckCache, LoginFails, BuildSigner
  <2>2. QED
    BY <1>1, <2>1 DEF UserFollows
<1>3. CASE LoginGranted(t)
  BY <1>1, <1>3, GrantedLogin DEF UserFollows
<1>4. CASE StoreToken(t)
  <2>1. pc'[t] = "store user"
    BY <1>4 DEF StoreToken, TypeOK, Goto
  <2>2. QED
    BY <2>1 DEF UserFollows
<1>5. CASE StoreUser(t)
  <2>1. userId' = cloud.user
    BY <1>5 DEF StoreUser, LoginHeld
  <2>2. QED
    BY <1>1, <2>1 DEF UserFollows
<1>6. CASE Calls(t)
  BY <1>1, <1>6, CallsKeepCache DEF UserFollows, Ops
<1>7. QED
  BY <1>2, <1>3, <1>4, <1>5, <1>6 DEF Step, Calls

LEMMA OneLoginStep ==
  ASSUME TypeOK, LoginHeld, OneLogin, NEW t \in Threads, Start(t) \/ Step(t)
  PROVE  OneLogin'
<1>1. \A u \in Threads \ {t} : pc'[u] = pc[u] /\ local'[u] = local[u]
  BY OthersStay
<1>2. CASE Start(t) \/ LoginFails(t) \/ BuildSigner(t)
  <2>1. /\ pc[t] # "store token" /\ pc'[t] \notin LoggingIn
        /\ UNCHANGED <<token, logins, lapses>>
    BY <1>2 DEF Start, LoginFails, BuildSigner, TypeOK, Goto, End, LoggingIn, Ops
  <2>2. QED
    BY <1>1, <2>1 DEF OneLogin, LoggingIn
<1>3. CASE CheckCache(t)
  <2>1. /\ pc[t] = "check" /\ pc'[t] \in {"sign", "login"} /\ UNCHANGED <<token, logins>>
        /\ lapses' = {} => /\ lapses = {}
                           /\ pc'[t] = "login" => \A u \in Threads : pc[u] \notin LoggingIn
    BY <1>3 DEF CheckCache, TypeOK, Goto
  <2>2. QED
    BY <1>1, <2>1 DEF OneLogin, LoggingIn
<1>4. CASE LoginGranted(t)
  <2>1. CASE lapses' = {}
    <3>1. /\ pc[t] = "login" /\ pc'[t] = "store token" /\ lapses = {}
          /\ logins' = logins + 1 /\ local'[t].held.token = logins'
      BY <1>4, <2>1, GrantedLogin
    <3>2. \A u \in Threads \ {t} : pc'[u] \notin LoggingIn
      BY <1>1, <3>1 DEF OneLogin, LoggingIn
    <3>3. logins' # 0
      <4>1. logins \in Nat
        BY DEF TypeOK
      <4>2. logins' = logins + 1
        BY <3>1
      <4>3. QED
        BY <4>1, <4>2
    <3>4. QED
      BY <3>1, <3>2, <3>3 DEF OneLogin, LoggingIn
  <2>2. QED
    BY <2>1 DEF OneLogin
<1>5. CASE StoreToken(t)
  <2>1. /\ pc[t] = "store token" /\ pc'[t] = "store user" /\ token' = local[t].held.token
        /\ UNCHANGED <<logins, lapses, local>>
    BY <1>5 DEF StoreToken, TypeOK, Goto
  <2>2. QED
    BY <1>1, <2>1 DEF OneLogin, LoggingIn
<1>6. CASE StoreUser(t)
  <2>1. /\ pc[t] = "store user" /\ pc'[t] = "sign" /\ UNCHANGED <<token, logins, lapses, local>>
    BY <1>6 DEF StoreUser, TypeOK, Goto
  <2>2. QED
    BY <1>1, <2>1 DEF OneLogin, LoggingIn
<1>7. CASE Calls(t)
  <2>1. pc[t] \notin LoggingIn /\ pc'[t] \notin LoggingIn /\ UNCHANGED <<token, logins, lapses>>
    BY <1>7, CallsKeepCache DEF Ops, LoggingIn
  <2>2. QED
    BY <1>1, <2>1 DEF OneLogin, LoggingIn
<1>8. QED
  BY <1>2, <1>3, <1>4, <1>5, <1>6, <1>7 DEF Step, Calls

LEMMA SentStep ==
  ASSUME TypeOK, SignedIsSent, NEW t \in Threads, Start(t) \/ Step(t)
  PROVE  SignedIsSent'
<1>1. \A u \in Threads \ {t} : sent'[u] = sent[u]
  BY OthersStay
<1>2. local[t].signer.token \in Tokens /\ local[t].signer.user \in Users
  BY DEF TypeOK, Locals, Signers
<1>3. /\ <<"deviceId">> \in Seq(Texts) /\ <<>> \in Seq(Texts) /\ <<"did">> \in Seq(Texts)
      /\ <<"did", "endTime", "startTime">> \in Seq(Texts)
      /\ <<"account", "password">> \in Seq(Texts)
      /\ \A d \in Devices : <<"deviceId", d>> \in Seq(Texts)
  BY DEF Texts
<1>4. ASSUME NEW query \in {None} \cup Seq(Texts), NEW payload \in {None} \cup Seq(Texts),
             Sends(t, query, payload)
      PROVE  SignedIsSent'
  <2> DEFINE req == [query |-> query, payload |-> payload, encrypted |-> FALSE,
                     token |-> local[t].signer.token, user |-> local[t].signer.user]
  <2>1. req \in Requests
    BY <1>2 DEF Requests
  <2>2. sent'[t] = Prepared(req)
    BY <1>4 DEF Sends, SignedRequest, TypeOK
  <2> HIDE DEF req
  <2>3. sent'[t].sign = CloudSign(sent'[t])
    BY <2>1, <2>2, SignatureHolds
  <2>4. QED
    BY <1>1, <2>3 DEF SignedIsSent
<1>5. CASE CheckCache(t)
  <2>1. LoginRequest \in Requests
    BY <1>3 DEF LoginRequest, Requests, Tokens, Users
  <2>2. sent'[t] = sent[t] \/ sent'[t] = Prepared(LoginRequest)
    BY <1>5 DEF CheckCache, TypeOK
  <2>3. QED
    BY <1>1, <2>1, <2>2, SignatureHolds DEF SignedIsSent
<1>6. CASE SessionRequest(t) \/ ListDevices(t) \/ FetchPasswords(t) \/ FetchLog(t)
  BY <1>3, <1>4, <1>6 DEF SessionRequest, ListDevices, FetchPasswords, FetchLog
<1>7. CASE LookUp(t)
  <2>1. Head(local[t].left) \in Devices
    BY <1>7, HeadTailProperties DEF LookUp, TypeOK, Locals
  <2>2. QED
    BY <1>3, <1>4, <1>7, <2>1 DEF LookUp
<1>8. CASE UNCHANGED sent
  BY <1>8 DEF SignedIsSent
<1>9. QED
  BY <1>5, <1>6, <1>7, <1>8
  DEF Step, Start, LoginGranted, LoginFails, StoreToken, StoreUser, BuildSigner, LookedUp, Label
-----------------------------------------------------------------------------
(* The calls.                                                              *)

\* A window holds the time it is the window of.
LEMMA WindowHolds ==
  ASSUME NEW n \in Nat
  PROVE  /\ StartOfWindow(n) \in Nat /\ StartOfWindow(n) % Window = 0
         /\ StartOfWindow(n) <= n /\ n < StartOfWindow(n) + Window
<1>1. Window \in Nat \ {0}
  BY AccountConstantsOK DEF AccountConstantsOK
<1> DEFINE q == n \div Window
<1>2. q \in Nat /\ q * Window <= n /\ n < q * Window + Window /\ q * Window \in Nat
  BY <1>1
<1>3. (q * Window) % Window = 0
  BY <1>1, <1>2
<1>4. QED
  BY <1>2, <1>3 DEF StartOfWindow

\* The elements of a sequence are its first and those of its tail.
LEMMA HeadAndTail ==
  ASSUME NEW S, NEW s \in Seq(S), s # <<>>
  PROVE  /\ Head(s) \in S /\ Tail(s) \in Seq(S)
         /\ ToSet(s) = {Head(s)} \cup ToSet(Tail(s))
<1>1. /\ Head(s) \in S /\ Tail(s) \in Seq(S) /\ Head(s) = s[1]
      /\ Len(Tail(s)) = Len(s) - 1 /\ \A i \in 1 .. Len(Tail(s)) : Tail(s)[i] = s[i + 1]
  BY HeadTailProperties
<1>2. DOMAIN s = 1 .. Len(s) /\ DOMAIN Tail(s) = 1 .. Len(Tail(s)) /\ Len(s) \in Nat \ {0}
  BY <1>1, LenProperties, EmptySeq
<1>3. ASSUME NEW e \in ToSet(s)
      PROVE  e \in {Head(s)} \cup ToSet(Tail(s))
  <2>1. PICK i \in 1 .. Len(s) : e = s[i]
    BY <1>2, <1>3 DEF ToSet
  <2>2. CASE i > 1
    <3>1. i - 1 \in 1 .. Len(Tail(s)) /\ Tail(s)[i - 1] = e
      BY <1>1, <1>2, <2>1, <2>2
    <3>2. QED
      BY <1>2, <3>1 DEF ToSet
  <2>3. QED
    BY <1>1, <1>2, <2>1, <2>2
<1>4. ToSet(Tail(s)) \subseteq ToSet(s) /\ Head(s) \in ToSet(s)
  BY <1>1, <1>2 DEF ToSet
<1>5. QED
  BY <1>1, <1>3, <1>4

\* Two MACs have a form in common if one is the other or its reverse.
LEMMA CommonForm ==
  ASSUME NEW x \in Seq(Nat), NEW y \in Seq(Nat)
  PROVE  MacForms(x) \cap MacForms(y) # {} <=> y \in {x, Reverse(x)}
<1>1. ASSUME NEW z \in Seq(Nat)
      PROVE  Reverse(Reverse(z)) = z
  <2>1. \A w \in Seq(Nat) :
          /\ Reverse(w) \in Seq(Nat) /\ Len(Reverse(w)) = Len(w)
          /\ \A i \in 1 .. Len(w) : Reverse(w)[i] = w[(Len(w) - i) + 1]
    BY DEF Reverse
  <2>2. /\ Reverse(z) \in Seq(Nat) /\ Len(Reverse(z)) = Len(z)
        /\ Reverse(Reverse(z)) \in Seq(Nat) /\ Len(Reverse(Reverse(z))) = Len(z)
    BY <2>1
  <2>3. ASSUME NEW i \in 1 .. Len(z)
        PROVE  Reverse(Reverse(z))[i] = z[i]
    <3> DEFINE j == (Len(z) - i) + 1
    <3>1. Len(z) \in Nat
      BY LenProperties
    <3>2. j \in 1 .. Len(z) /\ (Len(z) - j) + 1 = i
      BY <3>1
    <3>3. Reverse(Reverse(z))[i] = Reverse(z)[j]
      BY <2>1, <2>2
    <3>4. Reverse(z)[j] = z[i]
      BY <2>1, <3>2
    <3>5. QED
      BY <3>3, <3>4
  <2>4. QED
    BY <2>2, <2>3, SeqEqual
<1>2. Reverse(Reverse(x)) = x /\ Reverse(Reverse(y)) = y
  BY <1>1
<1>3. QED
  BY <1>2 DEF MacForms

\* How a step that is none of the three of a search may end its thread.
LEMMA Endings ==
  ASSUME TypeOK, NEW t \in Threads, Start(t) \/ Step(t), pc'[t] = "done"
  PROVE  \/ Label(t) \/ ListDevices(t) \/ LookUp(t) \/ LookedUp(t)
         \/ result'[t].kind \in {"failed", "done"}
<1>1. CASE Start(t) \/ CheckCache(t) \/ StoreToken(t) \/ StoreUser(t) \/ BuildSigner(t)
  BY <1>1 DEF TypeOK, Start, CheckCache, StoreToken, StoreUser, BuildSigner, Goto, Ops
<1>2. CASE LoginGranted(t)
  BY <1>2, GrantedLogin
<1>3. CASE LoginFails(t)
  <2>1. PICK ans \in {Denied("number", 810), Denied("text", 500), Granted(NoFields)} :
          End(t, LoginResult(t, ans))
    BY <1>3 DEF LoginFails
  <2>2. LoginResult(t, ans).kind = "failed"
    BY LoginKinds
  <2>3. QED
    BY <2>1, <2>2 DEF End, TypeOK
<1>4. CASE SessionRequest(t) \/ FetchPasswords(t) \/ FetchLog(t)
  BY <1>4 DEF TypeOK, SessionRequest, FetchPasswords, FetchLog, Goto, End, Failed
<1>5. QED
  BY <1>1, <1>2, <1>3, <1>4 DEF Step

\* What a list of devices leads to.
LEMMA ListedDevices ==
  ASSUME TypeOK, NEW t \in Threads, ListDevices(t)
  PROVE  \/ local'[t] = local[t] /\ pc'[t] = "done" /\ result'[t].kind = "failed"
         \/ \E ids \in Seq(Devices) :
              /\ local'[t].devices = ids /\ local'[t].left = ids
              /\ local'[t].mac = local[t].mac /\ local'[t].issued = local[t].issued
              /\ \/ pc'[t] = "done" /\ result'[t].kind = "no device"
                 \/ /\ pc'[t] = "done" /\ Len(ids) = 1
                    /\ result'[t].kind = "found" /\ result'[t].id = ids[1]
                 \/ pc'[t] = "done" /\ local[t].mac = None /\ result'[t].kind = "needs a MAC"
                 \/ pc'[t] = "check" /\ local[t].mac # None
<1>1. PICK ans \in Answers(t, [data |-> cloud.devices]) \cup Answers(t, NoFields) :
        ListDevices(t)!3!(ans)
  BY DEF ListDevices
<1> DEFINE ids == IdsOf(DevicesIn(ans))
<1>2. ids \in Seq(Devices)
  BY DevicesListed
<1>0. \A x : End(t, x) => pc'[t] = "done" /\ result'[t] = x
  BY DEF End, Goto, TypeOK
<1>3. CASE Unraised(ans)
  <2>1. /\ local' = [local EXCEPT ![t] = [local[t] EXCEPT !.devices = ids, !.left = ids]]
        /\ \/ ids = <<>> /\ End(t, [kind |-> "no device"])
           \/ Len(ids) = 1 /\ End(t, [kind |-> "found", id |-> ids[1]])
           \/ local[t].mac = None /\ End(t, [kind |-> "needs a MAC"])
           \/ local[t].mac # None /\ Goto(t, "check")
    BY <1>1, <1>3 DEF TypeOK
  <2> HIDE DEF ids
  <2>2. local'[t] = [local[t] EXCEPT !.devices = ids, !.left = ids] /\ local[t] \in Locals
    BY <2>1 DEF TypeOK
  <2>3. /\ local'[t].devices = ids /\ local'[t].left = ids
        /\ local'[t].mac = local[t].mac /\ local'[t].issued = local[t].issued
    BY <2>2 DEF Locals
  <2>4. \/ pc'[t] = "done" /\ result'[t].kind = "no device"
        \/ /\ pc'[t] = "done" /\ Len(ids) = 1
           /\ result'[t].kind = "found" /\ result'[t].id = ids[1]
        \/ pc'[t] = "done" /\ local[t].mac = None /\ result'[t].kind = "needs a MAC"
        \/ pc'[t] = "check" /\ local[t].mac # None
    <3>1. CASE End(t, [kind |-> "no device"])
      BY <3>1 DEF End, Goto, TypeOK
    <3>2. CASE Len(ids) = 1 /\ End(t, [kind |-> "found", id |-> ids[1]])
      BY <3>2 DEF End, Goto, TypeOK
    <3>3. CASE local[t].mac = None /\ End(t, [kind |-> "needs a MAC"])
      BY <3>3 DEF End, Goto, TypeOK
    <3>4. CASE local[t].mac # None /\ Goto(t, "check")
      BY <3>4 DEF Goto, TypeOK
    <3>5. QED
      BY <2>1, <3>1, <3>2, <3>3, <3>4
  <2>5. QED
    BY <1>2, <2>3, <2>4
<1>4. CASE ~Unraised(ans)
  <2>1. End(t, Failed(Interpreted(ans).raised)) /\ local' = local
    BY <1>1, <1>4
  <2>2. result'[t].kind = "failed" /\ pc'[t] = "done"
    BY <1>0, <2>1 DEF Failed
  <2>3. QED
    BY <2>1, <2>2
<1>5. QED
  BY <1>3, <1>4

\* What the look-up of the next device leads to: a device that fits is found, or
\* its look-up failed.
LEMMA LookedAt ==
  ASSUME TypeOK, NEW t \in Threads, LookUp(t), local[t].mac # None
  PROVE  LET did == Head(local[t].left) IN
         \/ /\ pc'[t] = "done" /\ local'[t] = local[t]
            /\ result'[t].kind = "found" /\ result'[t].id = did /\ Fits(t, did)
         \/ /\ pc'[t] = "look up"
            /\ local'[t].mac = local[t].mac /\ local'[t].devices = local[t].devices
            /\ local'[t].issued = local[t].issued
            /\ local'[t].left = Tail(local[t].left)
            /\ local'[t].missed = local[t].missed \/ local'[t].missed = local[t].missed \cup {did}
            /\ Fits(t, did) => did \in local'[t].missed
<1> DEFINE did == Head(local[t].left)
           m == cloud.mac[did]
           r == local[t]
<1>1. PICK ans \in Answers(t, [mac |-> m]) :
        IF DeviceMac(ans) # None /\ MacForms(r.mac) \cap MacForms(DeviceMac(ans)) # {}
        THEN End(t, [kind |-> "found", id |-> did]) /\ UNCHANGED local
        ELSE /\ local' = [local EXCEPT ![t].left = Tail(@),
                            ![t].missed = IF Unraised(ans) THEN @ ELSE @ \cup {did}]
             /\ UNCHANGED <<pc, result>>
  BY DEF LookUp
<1>2. pc[t] = "look up" /\ r \in Locals /\ did \in Devices
  BY HeadTailProperties DEF LookUp, TypeOK, Locals
<1>3. m \in Seq(Nat) \cup {None} /\ r.mac \in Seq(Nat)
  BY <1>2, AccountsOK, AccountConstantsOK DEF AccountsOK, AccountConstantsOK, TypeOK, Locals
<1>4. \/ DeviceMac(ans) = m
      \/ DeviceMac(ans) = None /\ ~Unraised(ans)
  <2>1. Got([mac |-> m], "mac") = m /\ Got(NoFields, "mac") = None
    BY DEF Got, NoFields
  <2>2. QED
    BY <2>1, AnswerKinds DEF DeviceMac
<1> HIDE DEF did, m, r
<1>5. CASE DeviceMac(ans) # None /\ MacForms(r.mac) \cap MacForms(DeviceMac(ans)) # {}
  <2>1. m # None /\ MacForms(r.mac) \cap MacForms(m) # {}
    BY <1>4, <1>5
  <2>2. Fits(t, did)
    BY <1>3, <2>1, CommonForm DEF Fits, m, r
  <2>3. pc'[t] = "done" /\ local'[t] = r /\ result'[t].kind = "found" /\ result'[t].id = did
    BY <1>1, <1>5 DEF End, Goto, TypeOK, r
  <2>4. QED
    BY <2>2, <2>3 DEF did, r
<1>6. CASE ~(DeviceMac(ans) # None /\ MacForms(r.mac) \cap MacForms(DeviceMac(ans)) # {})
  <2>1. pc'[t] = "look up"
    BY <1>1, <1>2, <1>6
  <2> DEFINE missed == IF Unraised(ans) THEN r.missed ELSE r.missed \cup {did}
  <2>2. local'[t] = [r EXCEPT !.left = Tail(r.left), !.missed = missed]
    BY <1>1, <1>6 DEF TypeOK, r
  <2>3. ~Unraised(ans) \/ ~Fits(t, did)
    BY <1>3, <1>4, <1>6, CommonForm DEF Fits, m, r
  <2>4. missed \in {r.missed, r.missed \cup {did}} /\ (Fits(t, did) => did \in missed)
    BY <2>3
  <2> HIDE DEF missed
  <2>5. /\ local'[t].mac = r.mac /\ local'[t].devices = r.devices /\ local'[t].issued = r.issued
        /\ local'[t].left = Tail(r.left) /\ local'[t].missed = missed
    BY <1>2, <2>2 DEF Locals
  <2>6. QED
    BY <2>1, <2>4, <2>5 DEF did, r
<1>7. QED
  BY <1>5, <1>6

\* The other steps leave the search of their thread as it is.
LEMMA OtherStepsKeepSearch ==
  ASSUME TypeOK, NEW t \in Threads, Step(t), ~ListDevices(t), ~LookUp(t)
  PROVE  /\ local'[t].mac = local[t].mac /\ local'[t].devices = local[t].devices
         /\ local'[t].left = local[t].left /\ local'[t].missed = local[t].missed
         /\ FetchPasswords(t) \/ local'[t].issued = local[t].issued
<1>1. local[t] \in Locals
  BY DEF TypeOK
<1>2. CASE CheckCache(t) \/ LoginGranted(t)
  BY <1>2, CheckedCache, GrantedLogin DEF SameSearch
<1>3. CASE UNCHANGED local
  BY <1>3
<1>4. CASE BuildSigner(t)
  <2>1. local'[t] = [local[t] EXCEPT !.signer = [token |-> local[t].held.token, user |-> userId]]
    BY <1>4 DEF BuildSigner, TypeOK
  <2>2. QED
    BY <1>1, <2>1 DEF Locals
<1>5. CASE SessionRequest(t)
  <2>1. local'[t] = local[t] \/ local'[t] = [local[t] EXCEPT !.force = TRUE]
    BY <1>5, LocalsOfCalls
  <2>2. QED
    BY <1>1, <2>1 DEF Locals
<1>6. CASE FetchPasswords(t)
  <2>1. local'[t] = local[t] \/ local'[t] = [local[t] EXCEPT !.issued = clock]
    BY <1>6, LocalsOfCalls
  <2>2. QED
    BY <1>1, <1>6, <2>1 DEF Locals
<1>7. QED
  BY <1>2, <1>3, <1>4, <1>5, <1>6
  DEF Step, LoginFails, StoreToken, StoreUser, LookedUp, Label, FetchLog

LEMMA ListedStep ==
  ASSUME TypeOK, Listed, NEW t \in Threads, Start(t) \/ Step(t)
  PROVE  Listed'
<1>1. \A u \in Threads \ {t} : pc'[u] = pc[u] /\ local'[u] = local[u]
  BY OthersStay
<1>2. pc'[t] # "idle"
  BY DEF TypeOK, Step, Start, CheckCache, LoginGranted, LoginFails, StoreToken, StoreUser,
         BuildSigner, SessionRequest, ListDevices, LookUp, LookedUp, FetchPasswords, Label,
         FetchLog, Goto, End, Ops
<1>3. ASSUME pc'[t] = "look up"
      PROVE  local'[t].devices # None
  <2>1. CASE LookUp(t)
    <3>1. local[t] \in Locals /\ local[t].devices # None
      BY <2>1 DEF LookUp, Listed, TypeOK
    <3>2. local'[t].devices = local[t].devices
      <4>1. CASE local'[t] # local[t]
        <5>1. PICK missed \in SUBSET Devices :
                local'[t] = [local[t] EXCEPT !.left = Tail(local[t].left), !.missed = missed]
          BY <2>1, <4>1, LocalsOfCalls
        <5>2. QED
          BY <3>1, <5>1 DEF Locals
      <4>2. QED
        BY <4>1
    <3>3. QED
      BY <3>1, <3>2
  <2>2. CASE BuildSigner(t)
    <3>1. local[t].devices # None
      BY <1>3, <2>2 DEF BuildSigner, Goto, TypeOK, Ops
    <3>2. ~ListDevices(t) /\ ~LookUp(t)
      BY <2>2 DEF BuildSigner, ListDevices, LookUp
    <3>3. Step(t)
      BY <2>2 DEF Step
    <3>4. QED
      BY <3>1, <3>2, <3>3, OtherStepsKeepSearch
  <2>3. CASE ~LookUp(t) /\ ~BuildSigner(t)
    BY <1>3, <2>3, CheckedCache, GrantedLogin
    DEF TypeOK, Step, Start, LoginFails, StoreToken, StoreUser, SessionRequest, ListDevices,
        LookedUp, FetchPasswords, Label, FetchLog, Goto, End
  <2>4. QED
    BY <2>1, <2>2, <2>3
<1>4. QED
  BY <1>1, <1>2, <1>3 DEF Listed

\* No step of a thread that is done.
LEMMA DoneIsDone ==
  ASSUME TypeOK, NEW t \in Threads, Start(t) \/ Step(t)
  PROVE  pc[t] # "done"
BY DEF Step, Start, CheckCache, LoginGranted, LoginFails, StoreToken, StoreUser,
       BuildSigner, SessionRequest, ListDevices, LookUp, LookedUp, FetchPasswords, Label,
       FetchLog, Ops

LEMMA LookingUpStep ==
  ASSUME TypeOK, Listed, LookingUp, NEW t \in Threads, Start(t) \/ Step(t)
  PROVE  LookingUp'
<1> DEFINE Good(u) ==
      pc[u] # "done" /\ local[u].devices # None =>
        /\ local[u].mac # None
        /\ ToSet(local[u].left) \subseteq ToSet(local[u].devices)
        /\ \A d \in ToSet(local[u].devices) :
             Fits(u, d) => d \in ToSet(local[u].left) \cup local[u].missed
<1>1. Good(t) /\ pc[t] # "done" /\ local[t] \in Locals
  BY DoneIsDone DEF LookingUp, TypeOK
<1>2. /\ cloud' = cloud
      /\ \A u \in Threads \ {t} : pc'[u] = pc[u] /\ local'[u] = local[u]
  BY OthersStay
<1>3. ASSUME NEW u \in Threads, u # t
      PROVE  Good(u)'
  BY <1>2, <1>3 DEF LookingUp, Fits
<1>4. Good(t)'
  <2>1. CASE Start(t)
    BY <2>1 DEF Start, Fresh, TypeOK
  <2>2. CASE ListDevices(t)
    <3>1. CASE pc'[t] = "done"
      BY <3>1
    <3>2. CASE pc'[t] # "done"
      <4>1. PICK ids \in Seq(Devices) :
              /\ local'[t].devices = ids /\ local'[t].left = ids
              /\ local'[t].mac = local[t].mac /\ local[t].mac # None
        BY <2>2, <3>2, ListedDevices
      <4>2. QED
        BY <4>1
    <3>3. QED
      BY <3>1, <3>2
  <2>3. CASE LookUp(t)
    <3> DEFINE did == Head(local[t].left)
    <3>1. local[t].devices # None /\ local[t].left \in Seq(Devices) /\ local[t].left # <<>>
      BY <2>3 DEF LookUp, Listed, TypeOK, Locals
    <3>2. local[t].mac # None
      BY <1>1, <3>1
    <3>3. ToSet(local[t].left) = {did} \cup ToSet(Tail(local[t].left))
      BY <3>1, HeadAndTail
    <3>4. CASE pc'[t] = "done"
      BY <3>4
    <3>5. CASE pc'[t] # "done"
      <4>1. /\ local'[t].mac = local[t].mac /\ local'[t].devices = local[t].devices
            /\ local'[t].left = Tail(local[t].left)
            /\ local[t].missed \subseteq local'[t].missed
            /\ Fits(t, did) => did \in local'[t].missed
        BY <2>3, <3>2, <3>5, LookedAt
      <4>2. \A d : Fits(t, d)' <=> Fits(t, d)
        BY <1>2, <4>1 DEF Fits
      <4> HIDE DEF did
      <4>3. QED
        BY <1>1, <3>1, <3>2, <3>3, <4>1, <4>2
    <3>6. QED
      BY <3>4, <3>5
  <2>4. CASE Step(t) /\ ~ListDevices(t) /\ ~LookUp(t)
    <3>1. /\ local'[t].mac = local[t].mac /\ local'[t].devices = local[t].devices
          /\ local'[t].left = local[t].left /\ local'[t].missed = local[t].missed
      BY <2>4, OtherStepsKeepSearch
    <3>2. \A d : Fits(t, d)' <=> Fits(t, d)
      BY <1>2, <3>1 DEF Fits
    <3>3. QED
      BY <1>1, <3>1, <3>2
  <2>5. QED
    BY <2>1, <2>2, <2>3, <2>4
<1>5. QED
  BY <1>3, <1>4 DEF LookingUp

LEMMA ResolveStep ==
  ASSUME TypeOK, Listed, LookingUp, ResolveIsRight, NEW t \in Threads, Start(t) \/ Step(t)
  PROVE  ResolveIsRight'
<1> DEFINE Right(u) ==
      op[u] = "resolve" /\ pc[u] = "done" =>
        /\ result[u].kind = "found" =>
             /\ result[u].id \in ToSet(local[u].devices)
             /\ Len(local[u].devices) = 1 \/ Fits(u, result[u].id)
        /\ result[u].kind = "needs a MAC" /\ local[u].mac # None =>
             \A d \in ToSet(local[u].devices) : Fits(u, d) => d \in local[u].missed
<1>1. pc[t] # "done" /\ local[t] \in Locals
  BY DoneIsDone DEF TypeOK
<1>2. /\ cloud' = cloud
      /\ \A u \in Threads \ {t} :
           pc'[u] = pc[u] /\ op'[u] = op[u] /\ local'[u] = local[u] /\ result'[u] = result[u]
  BY OthersStay
<1>3. ASSUME NEW u \in Threads, u # t
      PROVE  Right(u)'
  <2>1. Right(u)
    BY DEF ResolveIsRight
  <2>2. \A d : Fits(u, d)' <=> Fits(u, d)
    BY <1>2, <1>3 DEF Fits
  <2>3. QED
    BY <1>2, <1>3, <2>1, <2>2
<1>4. ASSUME pc'[t] = "done"
      PROVE  Right(t)'
  <2>1. CASE ListDevices(t)
    <3>1. CASE result'[t].kind = "failed"
      BY <3>1
    <3>2. CASE result'[t].kind # "failed"
      <4>1. PICK ids \in Seq(Devices) :
              /\ local'[t].devices = ids /\ local'[t].mac = local[t].mac
              /\ \/ result'[t].kind = "no device"
                 \/ Len(ids) = 1 /\ result'[t].kind = "found" /\ result'[t].id = ids[1]
                 \/ local[t].mac = None /\ result'[t].kind = "needs a MAC"
        BY <1>4, <2>1, <3>2, ListedDevices
      <4>2. Len(ids) = 1 => ids[1] \in ToSet(ids)
        BY DEF ToSet
      <4>3. QED
        BY <4>1, <4>2
    <3>3. QED
      BY <3>1, <3>2
  <2>2. CASE LookUp(t)
    <3> DEFINE did == Head(local[t].left)
    <3>1. local[t].devices # None /\ local[t].left \in Seq(Devices) /\ local[t].left # <<>>
      BY <2>2 DEF LookUp, Listed, TypeOK, Locals
    <3>2. local[t].mac # None /\ ToSet(local[t].left) \subseteq ToSet(local[t].devices)
      BY <1>1, <3>1 DEF LookingUp
    <3>3. did \in ToSet(local[t].devices)
      BY <3>1, <3>2, HeadAndTail
    <3>4. /\ local'[t] = local[t] /\ result'[t].kind = "found" /\ result'[t].id = did
          /\ Fits(t, did)
      BY <1>4, <2>2, <3>2, LookedAt
    <3>5. Fits(t, did)' <=> Fits(t, did)
      BY <1>2, <3>4 DEF Fits
    <3>6. QED
      BY <3>3, <3>4, <3>5
  <2>3. CASE LookedUp(t)
    <3>1. local[t].devices # None /\ local[t].left = <<>> /\ local' = local
      BY <2>3 DEF LookedUp, Listed
    <3>2. ToSet(local[t].left) = {}
      BY <3>1 DEF ToSet
    <3>3. \A d \in ToSet(local[t].devices) : Fits(t, d) => d \in local[t].missed
      BY <1>1, <3>1, <3>2 DEF LookingUp
    <3>4. \A d : Fits(t, d)' <=> Fits(t, d)
      BY <1>2, <3>1 DEF Fits
    <3>5. result'[t].kind = "needs a MAC"
      BY <2>3 DEF LookedUp, End, TypeOK
    <3>6. QED
      BY <3>1, <3>3, <3>4, <3>5
  <2>4. CASE Label(t)
    <3>1. result'[t].kind = "codes"
      BY <2>4 DEF Label, End, TypeOK
    <3>2. QED
      BY <3>1
  <2>5. CASE result'[t].kind \in {"failed", "done"}
    BY <2>5
  <2>6. QED
    BY <1>4, <2>1, <2>2, <2>3, <2>4, <2>5, Endings
<1>5. QED
  BY <1>3, <1>4 DEF ResolveIsRight

LEMMA AnswerFreshStep ==
  ASSUME TypeOK, AnswerFresh, NEW t \in Threads, Start(t) \/ Step(t)
  PROVE  AnswerFresh'
<1>1. /\ clock' = clock
      /\ \A u \in Threads \ {t} : pc'[u] = pc[u] /\ local'[u] = local[u]
  BY OthersStay
<1>2. ASSUME pc'[t] = "label"
      PROVE  local'[t].issued = clock
  <2>1. FetchPasswords(t)
    BY <1>2, CheckedCache, GrantedLogin
    DEF TypeOK, Step, Start, LoginFails, StoreToken, StoreUser, BuildSigner, SessionRequest,
        ListDevices, LookUp, LookedUp, Label, FetchLog, Goto, End, Ops
  <2>2. local' = [local EXCEPT ![t] = [local[t] EXCEPT !.issued = clock]]
    BY <1>2, <2>1 DEF FetchPasswords, End, Goto, TypeOK
  <2>3. local[t] \in Locals /\ local'[t] = [local[t] EXCEPT !.issued = clock]
    BY <2>2 DEF TypeOK
  <2>4. QED
    BY <2>3 DEF Locals
<1>3. clock \in Nat /\ Delay \in Nat
  BY AccountConstantsOK DEF AccountConstantsOK, TypeOK
<1>4. QED
  BY <1>1, <1>2, <1>3 DEF AnswerFresh

LEMMA CodesStep ==
  ASSUME TypeOK, AnswerFresh, CodesWindow, NEW t \in Threads, Start(t) \/ Step(t)
  PROVE  CodesWindow'
<1>1. /\ pc[t] # "done"
      /\ \A u \in Threads \ {t} :
           pc'[u] = pc[u] /\ op'[u] = op[u] /\ local'[u] = local[u] /\ result'[u] = result[u]
  BY OthersStay, DoneIsDone
<1>2. ASSUME pc'[t] = "done", result'[t].kind = "codes"
      PROVE  Label(t)
  <2>1. CASE ListDevices(t)
    BY <1>2, <2>1, ListedDevices
  <2>2. CASE LookUp(t) \/ LookedUp(t)
    <3>1. \/ \E did : End(t, [kind |-> "found", id |-> did])
          \/ End(t, [kind |-> "needs a MAC"])
          \/ pc' = pc
      BY <2>2 DEF LookUp, LookedUp
    <3>2. result'[t].kind \in {"found", "needs a MAC"} \/ pc' = pc
      <4>1. ASSUME NEW did, End(t, [kind |-> "found", id |-> did])
            PROVE  result'[t].kind = "found"
        BY <4>1 DEF End, TypeOK
      <4>2. ASSUME End(t, [kind |-> "needs a MAC"])
            PROVE  result'[t].kind = "needs a MAC"
        BY <4>2 DEF End, TypeOK
      <4>3. QED
        BY <3>1, <4>1, <4>2
    <3>3. QED
      BY <1>1, <1>2, <3>2
  <2>3. QED
    BY <1>2, <2>1, <2>2, Endings
<1>3. ASSUME Label(t)
      PROVE  LET r == result'[t] IN
             /\ r.start % Window = 0 /\ r.end = r.start + Window
             /\ \/ r.start <= local'[t].issued /\ local'[t].issued < r.end
                \/ local'[t].issued < r.start /\ r.start <= local'[t].issued + Delay
  <2> DEFINE start == StartOfWindow(clock)
             issued == local[t].issued
  <2>1. /\ local'[t] = local[t] /\ result'[t].start = start /\ result'[t].end = start + Window
    BY <1>3 DEF Label, End, TypeOK
  <2>2. issued \in Nat /\ clock \in Nat /\ issued <= clock /\ clock <= issued + Delay
    BY <1>3 DEF Label, AnswerFresh, TypeOK, Locals
  <2>3. start \in Nat /\ start % Window = 0 /\ start <= clock /\ clock < start + Window
    BY <2>2, WindowHolds
  <2>4. Window \in Nat /\ Delay \in Nat
    BY AccountConstantsOK DEF AccountConstantsOK
  <2> HIDE DEF start, issued
  <2>5. \/ start <= issued /\ issued < start + Window
        \/ issued < start /\ start <= issued + Delay
    BY <2>2, <2>3, <2>4
  <2>6. QED
    BY <2>1, <2>3, <2>5 DEF issued
<1>4. QED
  BY <1>1, <1>2, <1>3 DEF CodesWindow

\* The clock and a step of nobody.
LEMMA QuietStep ==
  ASSUME IInv, UNCHANGED vars \/ Tick \/ Done
  PROVE  IInv'
<1>1. /\ UNCHANGED <<cloud, logins, token, userId, pc, op, local, sent, result, lapses>>
      /\ clock' = clock \/ Tick
  BY DEF vars, Tick, Done
<1>2. TypeOK'
  BY TypeStep DEF IInv, Next
<1>3. AnswerFresh'
  <2>1. CASE clock' = clock
    BY <1>1, <2>1 DEF IInv, AnswerFresh
  <2>2. CASE Tick
    <3>1. clock \in Nat /\ Delay \in Nat /\ \A t \in Threads : local[t].issued \in Nat
      BY AccountConstantsOK DEF AccountConstantsOK, IInv, TypeOK, Locals
    <3>2. QED
      BY <2>2, <3>1 DEF Tick, IInv, AnswerFresh
  <2>3. QED
    BY <1>1, <2>1, <2>2
<1>4. (LoginHeld /\ UserFollows /\ OneLogin /\ SignedIsSent)'
  BY <1>1 DEF IInv, LoginHeld, UserFollows, OneLogin, SignedIsSent
<1>5. (CodesWindow /\ Listed)'
  BY <1>1 DEF IInv, CodesWindow, Listed
<1>6. (LookingUp /\ ResolveIsRight)'
  BY <1>1 DEF IInv, LookingUp, ResolveIsRight, Fits
<1>7. QED
  BY <1>2, <1>3, <1>4, <1>5, <1>6 DEF IInv
-----------------------------------------------------------------------------
(* The theorems.                                                           *)

LEMMA InitIInv == Init => IInv
<1> SUFFICES ASSUME Init PROVE IInv
  OBVIOUS
<1>1. TypeOK
  BY TypeInit
<1>2. \A t \in Threads : /\ pc[t] = "idle" /\ local[t] = Fresh(None) /\ sent[t] = None
                         /\ local[t].devices = None
  BY DEF Init, Fresh
<1>3. logins = 0 /\ token = None /\ userId = None /\ lapses = {}
  BY DEF Init
<1>4. LoginHeld /\ UserFollows /\ OneLogin /\ SignedIsSent
  BY <1>2, <1>3 DEF LoginHeld, UserFollows, OneLogin, SignedIsSent, LoggingIn
<1>5. AnswerFresh /\ CodesWindow /\ Listed /\ LookingUp /\ ResolveIsRight
  BY <1>2 DEF AnswerFresh, CodesWindow, Listed, LookingUp, ResolveIsRight
<1>6. QED
  BY <1>1, <1>4, <1>5 DEF IInv

LEMMA StepIInv == IInv /\ [Next]_vars => IInv'
<1> SUFFICES ASSUME IInv, [Next]_vars PROVE IInv'
  OBVIOUS
<1>1. CASE UNCHANGED vars \/ Tick \/ Done
  BY <1>1, QuietStep
<1>2. ASSUME NEW t \in Threads, Start(t) \/ Step(t)
      PROVE  IInv'
  <2> USE DEF IInv
  <2>1. TypeOK'
    BY TypeStep
  <2>2. LoginHeld'
    BY <1>2, LoginHeldStep
  <2>3. UserFollows'
    BY <1>2, UserFollowsStep
  <2>4. OneLogin'
    BY <1>2, OneLoginStep
  <2>5. SignedIsSent'
    BY <1>2, SentStep
  <2>6. AnswerFresh' /\ CodesWindow'
    BY <1>2, AnswerFreshStep, CodesStep
  <2>7. Listed' /\ LookingUp'
    BY <1>2, ListedStep, LookingUpStep
  <2>8. ResolveIsRight'
    BY <1>2, ResolveStep
  <2>9. QED
    BY <2>1, <2>2, <2>3, <2>4, <2>5, <2>6, <2>7, <2>8
<1>3. QED
  BY <1>1, <1>2 DEF Next

\* The invariant of the account manager, of which the theorems below are parts.
THEOREM AccountInvariant == Spec => []IInv
BY InitIInv, StepIInv, PTL DEF Spec

\* CacheIsNewest for any number of threads, calls and logins: but for logins that
\* overlapped and a granted one whose answer was lost, the token that get_token
\* gives is the one the cloud takes.
THEOREM CacheStaysNewest == Spec => []CacheIsNewest
<1>1. IInv => CacheIsNewest
  BY DEF IInv, OneLogin, CacheIsNewest, LoggingIn
<1>2. QED
  BY <1>1, AccountInvariant, PTL

\* SignedIsSent for every request the program makes, whatever the device's id: the
\* cloud reads out of it the text that was signed, sealed body or not.
THEOREM SignaturesHold == Spec => []SignedIsSent
<1>1. IInv => SignedIsSent
  BY DEF IInv
<1>2. QED
  BY <1>1, AccountInvariant, PTL

\* ResolveIsRight for any account and any MAC.
THEOREM ResolveFindsTheLock == Spec => []ResolveIsRight
<1>1. IInv => ResolveIsRight
  BY DEF IInv
<1>2. QED
  BY <1>1, AccountInvariant, PTL

\* CodesWindow for any width of the window and any delay of the answer.
THEOREM CodesKeepTheirWindow == Spec => []CodesWindow
<1>1. IInv => CodesWindow
  BY DEF IInv
<1>2. QED
  BY <1>1, AccountInvariant, PTL

\* SignersAreWhole: a signer without its user id is built only while another
\* thread is between its two stores.
THEOREM SignersStayWhole == Spec => SignersAreWhole
<1> DEFINE Whole(t) ==
      local'[t].signer # local[t].signer =>
        /\ local'[t].signer.token # None
        /\ local'[t].signer.user = None =>
             cloud.user = None \/ \E u \in Threads \ {t} : pc[u] = "store user"
<1>1. ASSUME IInv, [Next]_vars, NEW t \in Threads, local'[t].signer # local[t].signer
      PROVE  Whole(t)
  <2>1. PICK u \in Threads : Start(u) \/ Step(u)
    BY <1>1 DEF Next, vars, Tick, Done
  <2>2. u = t
    BY <1>1, <2>1, OthersStay DEF IInv
  <2>3. ~Start(t)
    <3>1. ASSUME Start(t)
          PROVE  FALSE
      <4>1. local[t] = Fresh(None) /\ \E mac : local'[t] = Fresh(mac)
        BY <1>1, <3>1 DEF Start, IInv, Listed, TypeOK
      <4>2. QED
        BY <1>1, <4>1 DEF Fresh
    <3>2. QED
      BY <3>1
  <2>4. BuildSigner(t)
    <3>1. CASE UNCHANGED local
      BY <1>1, <3>1
    <3>2. CASE CheckCache(t) \/ LoginGranted(t) \/ Calls(t)
      BY <1>1, <3>2, CheckedCache, GrantedLogin, CallsKeepCache DEF IInv
    <3>3. QED
      BY <2>1, <2>2, <2>3, <3>1, <3>2 DEF Step, Calls, LoginFails, StoreToken, StoreUser
  <2>5. /\ pc[t] = "sign" /\ local[t] \in Locals
        /\ local'[t] = [local[t] EXCEPT !.signer = [token |-> local[t].held.token, user |-> userId]]
    BY <1>1, <2>4 DEF BuildSigner, IInv, TypeOK
  <2>6. local'[t].signer = [token |-> local[t].held.token, user |-> userId]
    BY <2>5 DEF Locals
  <2>7. local[t].held.token # None /\ token # None
    BY <1>1, <2>5 DEF IInv, LoginHeld
  <2>8. userId = None => cloud.user = None \/ \E v \in Threads : pc[v] = "store user"
    BY <1>1, <2>7 DEF IInv, UserFollows
  <2>9. \A v \in Threads : pc[v] = "store user" => v # t
    BY <2>5
  <2>10. local'[t].signer.token # None /\ local'[t].signer.user = userId
    BY <2>6, <2>7
  <2>11. QED
    BY <2>8, <2>9, <2>10
<1>2. IInv /\ [Next]_vars => [\A t \in Threads : Whole(t)]_vars
  BY <1>1
<1>3. QED
  BY <1>2, AccountInvariant, PTL DEF Spec, SignersAreWhole
=============================================================================
