---------------------------- MODULE CloudAccount ----------------------------
(***************************************************************************)
(* The account manager (CloudAuthManager, aqara_ble/auth.py) shared by     *)
(* worker threads, and the calls of the cloud that need no lock: finding   *)
(* the lock's id from its MAC, the offline passwords and their log         *)
(* (aqara_ble/kdf.py).  A thread runs one call, a statement at a time,     *)
(* since nothing excludes the threads from each other.  The cloud is       *)
(* external: it numbers its tokens and honours the newest.                 *)
(***************************************************************************)
EXTENDS Integers, Sequences, SequencesExt, CloudRequest

CONSTANTS
  Threads,      \* worker threads
  Devices,      \* ids of devices
  Accounts,     \* what the cloud may hold of the account: [devices, mac, user]
  Macs,         \* MACs a caller may give, sequences of bytes
  MaxLogins,    \* bound: logins the cloud grants
  Window,       \* width of a password's window, 600_000 ms
  Delay,        \* longest way of an answer
  Horizon       \* bound: the clock

\* resolve_device_id: the ids of the entries that have one (None: it has none).
IdsOf(devices) == SelectSeq(devices, LAMBDA d : d # None)

\* What a request's query or payload is made of.
Texts == {"account", "password", "deviceId", "did", "startTime", "endTime"} \cup Devices

\* Python's None is no number, id, error, code, MAC or text.
ASSUME NoneIsNothing ==
  /\ None \notin Nat \cup Devices \cup Errors \cup [form : {"number", "text"}, value : Nat]
  /\ None \notin Seq(Nat) /\ None \notin Seq(Texts \cup {"gcm"})

\* A device has a MAC or none; the ids of a list of devices are a list of ids.
ASSUME AccountsOK ==
  /\ IdsOf(<<>>) = <<>>
  /\ \A a \in Accounts :
       /\ a.mac \in [Devices -> Seq(Nat) \cup {None}]
       /\ IdsOf(a.devices) \in Seq(Devices)

ASSUME AccountConstantsOK ==
  /\ Macs \subseteq Seq(Nat)
  /\ MaxLogins \in Nat /\ Horizon \in Nat
  /\ Window \in Nat \ {0} /\ Delay \in Nat

VARIABLES
  cloud,    \* the account in the cloud, one of Accounts
  logins,   \* logins granted so far: the number of the newest token
  clock,    \* the time, here and in the cloud
  token,    \* _token
  userId,   \* _user_id
  pc,       \* the statement a thread is at
  op,       \* the call a thread runs
  local,    \* the local variables of that call
  sent,     \* the thread's last request, as the cloud receives it
  result,   \* what the call gives its caller
  lapses    \* history: what can make the cached token an older one

vars == <<cloud, logins, clock, token, userId, pc, op, local, sent, result, lapses>>

Ops == {"session", "resolve", "passwords", "log"}

NoSigner == [token |-> None, user |-> None]

\* mac: the one asked for; force: the login is forced; held: what get_token got,
\* of the cache or of a login; signer; devices: the ids listed; left: those still
\* to look up; missed: those whose look-up failed; issued: when the codes were
\* given out.
Fresh(mac) ==
    [mac |-> mac, force |-> FALSE, held |-> NoSigner, signer |-> NoSigner, devices |-> None,
     left |-> <<>>, missed |-> {}, issued |-> 0]

Init ==
  /\ cloud \in Accounts
  /\ logins = 0 /\ clock = 0
  /\ token = None /\ userId = None
  /\ pc = [t \in Threads |-> "idle"]
  /\ op = [t \in Threads |-> None]
  /\ local = [t \in Threads |-> Fresh(None)]
  /\ sent = [t \in Threads |-> None]
  /\ result = [t \in Threads |-> None]
  /\ lapses = {}

Goto(t, where) == pc' = [pc EXCEPT ![t] = where]

End(t, outcome) ==
  /\ Goto(t, "done")
  /\ result' = [result EXCEPT ![t] = outcome]

Failed(why) == [kind |-> "failed", why |-> why]

LoggingIn == {"login", "store token", "store user"}

\* The answers to a request, given that of a cloud that grants it.
Zero == [form |-> "number", value |-> 0]
Granted(what) == [kind |-> "json", code |-> Zero, result |-> what]
Denied(form, value) == [kind |-> "json", code |-> [form |-> form, value |-> value],
                        result |-> NoFields]
Unanswered == [kind |-> "timeout", code |-> None, result |-> NoFields]
-----------------------------------------------------------------------------
(* get_token and build_signer.                                             *)

Start(t) ==
  /\ pc[t] = "idle"
  /\ \E o \in Ops :
       /\ op' = [op EXCEPT ![t] = o]
       /\ \E mac \in IF o = "resolve" THEN Macs \cup {None} ELSE {None} :
            local' = [local EXCEPT ![t] = Fresh(mac)]
  /\ Goto(t, "check")
  /\ UNCHANGED <<cloud, logins, clock, token, userId, sent, result, lapses>>

LoginRequest ==
    [query |-> None, payload |-> <<"account", "password">>, encrypted |-> TRUE,
     token |-> None, user |-> None]

\* Two logins under way at once store their tokens in an order of their own.
CheckCache(t) ==
  /\ pc[t] = "check"
  /\ IF token # None /\ ~local[t].force
     THEN /\ local' = [local EXCEPT ![t].held = [token |-> token, user |-> None]]
          /\ Goto(t, "sign")
          /\ UNCHANGED <<sent, lapses>>
     ELSE /\ sent' = [sent EXCEPT ![t] = Prepared(LoginRequest)]
          /\ lapses' = IF \E u \in Threads : pc[u] \in LoggingIn
                       THEN lapses \cup {"overlap"} ELSE lapses
          /\ Goto(t, "login")
          /\ UNCHANGED local
  /\ UNCHANGED <<cloud, logins, clock, token, userId, op, result>>

\* login: what the answer gives, a token, a refusal or nothing.
LoginResult(t, ans) ==
    LET got == Interpreted(ans) IN
    IF got.raised = "CloudServiceError" /\ IsCode(got.code, 810) THEN Failed("RuntimeError")
    ELSE IF got.raised # None THEN Failed(got.raised)
    ELSE IF Got(got.result, "token") = None THEN Failed("RuntimeError")
    ELSE [kind |-> "token", token |-> Got(got.result, "token"), user |-> Got(got.result, "userId")]

\* The cloud grants the login; its answer may not arrive.
LoginGranted(t) ==
  /\ pc[t] = "login" /\ logins < MaxLogins
  /\ logins' = logins + 1
  /\ \E ans \in {Granted([token |-> logins + 1, userId |-> cloud.user]), Unanswered} :
       LET got == LoginResult(t, ans) IN
       IF got.kind = "token"
       THEN /\ local' = [local EXCEPT ![t].held = [token |-> got.token, user |-> got.user]]
            /\ Goto(t, "store token")
            /\ UNCHANGED <<result, lapses>>
       ELSE /\ End(t, got)
            /\ lapses' = lapses \cup {"lost"}
            /\ UNCHANGED local
  /\ UNCHANGED <<cloud, clock, token, userId, op, sent>>

LoginFails(t) ==
  /\ pc[t] = "login"
  /\ \E ans \in {Denied("number", 810), Denied("text", 500), Granted(NoFields)} :
       End(t, LoginResult(t, ans))
  /\ UNCHANGED <<cloud, logins, clock, token, userId, op, local, sent, lapses>>

\* Variant of StoreToken that keeps the token another thread has cached.
StoreTokenOnce(t) ==
  /\ pc[t] = "store token"
  /\ token' = IF token = None THEN local[t].held.token ELSE token
  /\ Goto(t, "store user")
  /\ UNCHANGED <<cloud, logins, clock, userId, op, local, sent, result, lapses>>

StoreToken(t) ==
  /\ pc[t] = "store token"
  /\ token' = local[t].held.token
  /\ Goto(t, "store user")
  /\ UNCHANGED <<cloud, logins, clock, userId, op, local, sent, result, lapses>>

\* Variant of StoreUser: the user id stays what it was.
StoreUserNever(t) ==
  /\ pc[t] = "store user"
  /\ Goto(t, "sign")
  /\ UNCHANGED <<cloud, logins, clock, token, userId, op, local, sent, result, lapses>>

StoreUser(t) ==
  /\ pc[t] = "store user"
  /\ userId' = local[t].held.user
  /\ Goto(t, "sign")
  /\ UNCHANGED <<cloud, logins, clock, token, op, local, sent, result, lapses>>

\* build_signer takes the token get_token gave it and the user id of the moment.
BuildSigner(t) ==
  /\ pc[t] = "sign"
  /\ local' = [local EXCEPT ![t].signer = [token |-> local[t].held.token, user |-> userId]]
  /\ Goto(t, IF op[t] # "resolve" THEN op[t]
             ELSE IF local[t].devices = None THEN "list"
             ELSE "look up")
  /\ UNCHANGED <<cloud, logins, clock, token, userId, op, sent, result, lapses>>
-----------------------------------------------------------------------------
(* The signed requests.                                                    *)

SignedRequest(t, query, payload) ==
    Prepared([query |-> query, payload |-> payload, encrypted |-> FALSE,
              token |-> local[t].signer.token, user |-> local[t].signer.user])

\* A token that is not the newest is refused; a good one may have expired.
Answers(t, what) ==
    {Unanswered, Denied("number", 108)}
    \cup IF local[t].signer.token = logins THEN {Granted(what)} ELSE {}

Sends(t, query, payload) == sent' = [sent EXCEPT ![t] = SignedRequest(t, query, payload)]

Unraised(ans) == Interpreted(ans).raised = None

\* A call of a session, which logs in again after one code 108.
SessionRequest(t) ==
  /\ pc[t] = "session"
  /\ Sends(t, None, <<"deviceId">>)
  /\ \E ans \in Answers(t, NoFields) :
       IF IsCode(Interpreted(ans).code, 108) /\ ~local[t].force
       THEN /\ local' = [local EXCEPT ![t].force = TRUE]
            /\ Goto(t, "check")
            /\ UNCHANGED result
       ELSE /\ End(t, IF Unraised(ans) THEN [kind |-> "done"] ELSE Failed(Interpreted(ans).raised))
            /\ UNCHANGED local
  /\ UNCHANGED <<cloud, logins, clock, token, userId, op, lapses>>

\* cloud_list_devices: an answer without a list is an empty one.
DevicesIn(ans) ==
    LET data == Got(Interpreted(ans).result, "data") IN
    IF data = None THEN <<>> ELSE data

\* resolve_device_id: the list, and what can be told from it alone.
ListDevices(t) ==
  /\ pc[t] = "list"
  /\ Sends(t, None, <<>>)
  /\ \E ans \in Answers(t, [data |-> cloud.devices]) \cup Answers(t, NoFields) :
       LET ids == IdsOf(DevicesIn(ans)) IN
       IF Unraised(ans)
       THEN /\ local' = [local EXCEPT ![t].devices = ids, ![t].left = ids]
            /\ \/ ids = <<>> /\ End(t, [kind |-> "no device"])
               \/ Len(ids) = 1 /\ End(t, [kind |-> "found", id |-> ids[1]])
               \/ Len(ids) > 1 /\ local[t].mac = None /\ End(t, [kind |-> "needs a MAC"])
               \/ Len(ids) > 1 /\ local[t].mac # None /\ Goto(t, "check") /\ UNCHANGED result
       ELSE End(t, Failed(Interpreted(ans).raised)) /\ UNCHANGED local
  /\ UNCHANGED <<cloud, logins, clock, token, userId, op, lapses>>

\* Variant of MacForms with the bytes in one order only.
MacFormsOneWay(mac) == {mac}

\* _mac_forms: a MAC may come with its bytes in either order.
MacForms(mac) == {mac, Reverse(mac)}

\* cloud_device_mac: None stands for the empty text.
DeviceMac(ans) == Got(Interpreted(ans).result, "mac")

\* One device after another, a failed look-up like another device's MAC.
LookUp(t) ==
  /\ pc[t] = "look up" /\ local[t].left # <<>>
  /\ LET did == Head(local[t].left) IN
     /\ Sends(t, None, <<"deviceId", did>>)
     /\ \E ans \in Answers(t, [mac |-> cloud.mac[did]]) :
          LET mac == DeviceMac(ans) IN
          IF mac # None /\ MacForms(local[t].mac) \cap MacForms(mac) # {}
          THEN End(t, [kind |-> "found", id |-> did]) /\ UNCHANGED local
          ELSE /\ local' = [local EXCEPT ![t].left = Tail(@),
                              ![t].missed = IF Unraised(ans) THEN @ ELSE @ \cup {did}]
               /\ UNCHANGED <<pc, result>>
  /\ UNCHANGED <<cloud, logins, clock, token, userId, op, lapses>>

LookedUp(t) ==
  /\ pc[t] = "look up" /\ local[t].left = <<>>
  /\ End(t, [kind |-> "needs a MAC"])
  /\ UNCHANGED <<cloud, logins, clock, token, userId, op, local, sent, lapses>>

\* fetch_offline_passwords: the codes are those of the cloud's window.
FetchPasswords(t) ==
  /\ pc[t] = "passwords"
  /\ Sends(t, None, <<"did">>)
  /\ \E ans \in Answers(t, NoFields) :
       IF Unraised(ans)
       THEN /\ local' = [local EXCEPT ![t].issued = clock]
            /\ Goto(t, "label")
            /\ UNCHANGED result
       ELSE End(t, Failed(Interpreted(ans).raised)) /\ UNCHANGED local
  /\ UNCHANGED <<cloud, logins, clock, token, userId, op, lapses>>

\* Variant of StartOfWindow that rounds up.
NextWindow(now) == ((now + Window - 1) \div Window) * Window

StartOfWindow(now) == (now \div Window) * Window

\* The window is that of the clock here, after the answer.
Label(t) ==
  /\ pc[t] = "label"
  /\ End(t, [kind |-> "codes", start |-> StartOfWindow(clock), end |-> StartOfWindow(clock) + Window])
  /\ UNCHANGED <<cloud, logins, clock, token, userId, op, local, sent, lapses>>

\* fetch_offline_password_log: the query is in the URL.
FetchLog(t) ==
  /\ pc[t] = "log"
  /\ Sends(t, <<"did", "endTime", "startTime">>, None)
  /\ \E ans \in Answers(t, NoFields) :
       End(t, IF Unraised(ans) THEN [kind |-> "done"] ELSE Failed(Interpreted(ans).raised))
  /\ UNCHANGED <<cloud, logins, clock, token, userId, op, local, lapses>>

\* No answer is under way for longer than the request's timeout.
Tick ==
  /\ clock < Horizon
  /\ \A t \in Threads : pc[t] = "label" => clock < local[t].issued + Delay
  /\ clock' = clock + 1
  /\ UNCHANGED <<cloud, logins, token, userId, pc, op, local, sent, result, lapses>>

Done == (\A t \in Threads : pc[t] = "done") /\ UNCHANGED vars
-----------------------------------------------------------------------------
Step(t) ==
  \/ CheckCache(t) \/ LoginGranted(t) \/ LoginFails(t) \/ StoreToken(t) \/ StoreUser(t)
  \/ BuildSigner(t) \/ SessionRequest(t) \/ ListDevices(t) \/ LookUp(t) \/ LookedUp(t)
  \/ FetchPasswords(t) \/ Label(t) \/ FetchLog(t)

Next == (\E t \in Threads : Start(t) \/ Step(t)) \/ Tick \/ Done

Spec == Init /\ [][Next]_vars
-----------------------------------------------------------------------------
(* Properties.                                                             *)

\* Where the cloud's login tells the user, whoever signs with a token signs with
\* the user id too; but for a thread that reads the cache of a first login
\* between its two stores (auth.py:149-150).
SignersAreWhole ==
  [][\A t \in Threads :
       local'[t].signer # local[t].signer =>
         /\ local'[t].signer.token # None
         /\ local'[t].signer.user = None =>
              cloud.user = None \/ \E u \in Threads \ {t} : pc[u] = "store user"]_vars

\* Between logins the cache holds the newest token, the only one the cloud takes;
\* but for two logins that overlapped and a granted one whose answer was lost
\* (auth.py:145-151; auth.py:42 promises thread-safe caching without the first).
CacheIsNewest ==
  lapses = {} /\ (\A t \in Threads : pc[t] \notin LoggingIn) =>
    token = IF logins = 0 THEN None ELSE logins

\* The cloud computes the same signature from what it receives, whether the data
\* is in the URL, in the body, sealed or missing (kdf.py:323-367).
SignedIsSent ==
  \A t \in Threads : sent[t] # None => sent[t].sign = CloudSign(sent[t])

\* The device's MAC is the one the caller asked for, in either order of its bytes.
Fits(t, d) == cloud.mac[d] # None /\ cloud.mac[d] \in {local[t].mac, Reverse(local[t].mac)}

\* An id given of several is one whose MAC is the asked one; when the caller is
\* told that a MAC is needed although it gave one, no device listed has that MAC
\* or the look-up of the one that has it failed (auth.py:180-200).
ResolveIsRight ==
  \A t \in Threads : op[t] = "resolve" /\ pc[t] = "done" =>
    LET Listed == ToSet(local[t].devices) IN
    /\ result[t].kind = "found" =>
         result[t].id \in Listed /\ (Len(local[t].devices) = 1 \/ Fits(t, result[t].id))
    /\ result[t].kind = "needs a MAC" /\ local[t].mac # None =>
         \A d \in Listed : Fits(t, d) => d \in local[t].missed

\* The window that the codes are shown for is that in which the cloud gave them
\* out, or the next, which began while the answer came (kdf.py:809-819).
CodesWindow ==
  \A t \in Threads : op[t] = "passwords" /\ pc[t] = "done" /\ result[t].kind = "codes" =>
    /\ result[t].start % Window = 0 /\ result[t].end = result[t].start + Window
    /\ \/ result[t].start <= local[t].issued /\ local[t].issued < result[t].end
       \/ local[t].issued < result[t].start /\ result[t].start <= local[t].issued + Delay
=============================================================================
