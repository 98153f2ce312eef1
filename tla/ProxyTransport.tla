--------------------------- MODULE ProxyTransport ---------------------------
(***************************************************************************)
(* Connecting through ESPHome proxies: EsphomeProxyTransport and the       *)
(* process-wide Bluetooth manager (aqara_ble/esphome_transport.py), under  *)
(* U200Client.connect and close.  Each transport dials its proxy, enters a *)
(* scanner into the manager, polls the manager for the lock and links to   *)
(* it; disconnect() releases what the fields record, and empties each      *)
(* field after the release.  The proxy's and the Bluetooth stack are       *)
(* external: a step of theirs may come late, never, or fail, and one that  *)
(* fails or is given up has no effect.                                     *)
(***************************************************************************)
EXTENDS Integers, FiniteSets

CONSTANTS
  Transports,   \* transports of one process
  MaxTries,     \* bound: calls of connect on one transport
  None          \* no manager yet

ASSUME ProxyConstantsOK == MaxTries \in Nat \ {0} /\ None \notin Nat

VARIABLES
  manager,  \* _MANAGER: the number of the manager, or None
  made,     \* managers set up so far
  pc,       \* the await a transport is at
  tries,    \* calls of connect so far
  polled,   \* the manager connect() polls for the lock
  target,   \* the manager the scanner is registered with
  held,     \* the fields that are not None
  open,     \* what is really open
  closing,  \* the disconnect under way is that of close()
  mishaps,  \* what went wrong so far in a way that can leave things open
  raced     \* history: two managers were being set up at once

local == <<pc, tries, polled, target, held, open, closing, mishaps>>
vars == <<manager, made, local, raced>>

Things    == {"api", "scanner", "link"}    \* _cli, _unregister, _client
Opening   == {"manager", "setup", "dial", "info", "poll", "link", "passive", "params"}
Releasing == {"active", "unlink", "hang up"}
Over      == {"idle", "no scan", "failed", "closed", "cancelled"}
\* The API was opened and not recorded; a release raised; it was cut short.
Mishaps   == {"half", "raised", "cut"}

Init ==
  /\ manager = None /\ made = 0 /\ raced = FALSE
  /\ pc = [t \in Transports |-> "idle"]
  /\ tries = [t \in Transports |-> 0]
  /\ polled = [t \in Transports |-> None]
  /\ target = [t \in Transports |-> None]
  /\ held = [t \in Transports |-> {}]
  /\ open = [t \in Transports |-> {}]
  /\ closing = [t \in Transports |-> FALSE]
  /\ mishaps = [t \in Transports |-> {}]

Goto(t, where) == pc' = [pc EXCEPT ![t] = where]
Mishap(t, what) == mishaps' = [mishaps EXCEPT ![t] = @ \cup what]
Opens(t, thing) == open' = [open EXCEPT ![t] = @ \cup {thing}]
Holds(t, things) == held' = [held EXCEPT ![t] = @ \cup things]
-----------------------------------------------------------------------------
(* connect: the manager and the API.                                       *)

\* A connect without an address scans first, and scan() takes no timeout by
\* position: a TypeError, before anything is opened.
Begin(t) ==
  /\ pc[t] \in Over /\ tries[t] < MaxTries
  /\ tries' = [tries EXCEPT ![t] = @ + 1]
  /\ \/ Goto(t, "manager")
     \/ Goto(t, "no scan")
  /\ UNCHANGED <<manager, made, polled, target, held, open, closing, mishaps, raced>>

\* _ensure_api, once there is a manager m, which nothing can replace before the next
\* await: an API that is recorded is used again, alive or not; a new one is dialled,
\* and its scanner will be entered into m.
EnsureApi(t, m) ==
  /\ polled' = [polled EXCEPT ![t] = m]
  /\ \/ "api" \in held[t] /\ Goto(t, "poll") /\ UNCHANGED target
     \/ /\ "api" \notin held[t]
        /\ target' = [target EXCEPT ![t] = m]
        /\ Goto(t, "dial")

\* _ensure_manager: the manager there is, or a new one, whose set-up is awaited.
EnsureManager(t) ==
  /\ pc[t] = "manager"
  /\ \/ /\ manager = None
        /\ Goto(t, "setup")
        /\ raced' = (raced \/ \E u \in Transports \ {t} : pc[u] = "setup")
        /\ UNCHANGED <<polled, target>>
     \/ /\ manager # None
        /\ EnsureApi(t, manager)
        /\ UNCHANGED raced
  /\ UNCHANGED <<manager, made, tries, held, open, closing, mishaps>>

\* Variant of ManagerReady that does not record the manager.
ManagerReadyUnrecorded(t) ==
  /\ pc[t] = "setup"
  /\ made' = made + 1
  /\ EnsureApi(t, made')
  /\ UNCHANGED <<manager, tries, held, open, closing, mishaps, raced>>

\* It becomes the process's manager, whatever another transport has set since.
ManagerReady(t) ==
  /\ pc[t] = "setup"
  /\ made' = made + 1
  /\ manager' = made'
  /\ EnsureApi(t, made')
  /\ UNCHANGED <<tries, held, open, closing, mishaps, raced>>

Dialled(t) ==
  /\ pc[t] = "dial"
  /\ Opens(t, "api")
  /\ Goto(t, "info")
  /\ UNCHANGED <<manager, made, tries, polled, target, held, closing, mishaps, raced>>

\* The scanner is registered and both fields are filled in one go.
Registered(t) ==
  /\ pc[t] = "info"
  /\ Opens(t, "scanner")
  /\ Holds(t, {"scanner", "api"})
  /\ Goto(t, "poll")
  /\ UNCHANGED <<manager, made, tries, polled, target, closing, mishaps, raced>>
-----------------------------------------------------------------------------
(* connect: the lock.                                                      *)

\* The manager knows the lock, strong enough or late enough: from this transport's
\* proxy, from another's, or from a scanner that has gone since.
LockSeen(t) ==
  /\ pc[t] = "poll" /\ \E u \in Transports : target[u] = polled[t]
  /\ Goto(t, "link")
  /\ UNCHANGED <<manager, made, tries, polled, target, held, open, closing, mishaps, raced>>

\* The lock takes one link of a transport at a time.
LinkUp(t) ==
  /\ pc[t] = "link" /\ "link" \notin open[t]
  /\ Opens(t, "link")
  /\ Holds(t, {"link"})
  /\ Goto(t, "passive")
  /\ UNCHANGED <<manager, made, tries, polled, target, closing, mishaps, raced>>

\* Passive scanning and a fast interval; the failure of either is passed over.
Tuned(t) ==
  /\ pc[t] \in {"passive", "params"}
  /\ Goto(t, IF pc[t] = "passive" THEN "params" ELSE "ready")
  /\ UNCHANGED <<manager, made, tries, polled, target, held, open, closing, mishaps, raced>>

\* The link drops, or the proxy goes away, the link with it or through another.
Drops(t) ==
  /\ \E lost \in SUBSET {"api", "link"} :
       lost \cap open[t] # {} /\ open' = [open EXCEPT ![t] = @ \ lost]
  /\ UNCHANGED <<manager, made, pc, tries, polled, target, held, closing, mishaps, raced>>
-----------------------------------------------------------------------------
(* disconnect.                                                             *)

Outcome(c) == IF c THEN "closed" ELSE "failed"

\* The next await of the release of what is held: the scan mode, the link, and
\* the API, before which the scanner is unregistered.
ReleaseFrom(t, h, o, first) ==
  IF first = "active" /\ "api" \in h
  THEN /\ Goto(t, "active")
       /\ held' = [held EXCEPT ![t] = h] /\ open' = [open EXCEPT ![t] = o]
  ELSE IF first \in {"active", "unlink"} /\ "link" \in h
  THEN /\ Goto(t, "unlink")
       /\ held' = [held EXCEPT ![t] = h] /\ open' = [open EXCEPT ![t] = o]
  ELSE /\ Goto(t, IF "api" \in h THEN "hang up" ELSE Outcome(closing'[t]))
       /\ held' = [held EXCEPT ![t] = h \ {"scanner"}]
       /\ open' = [open EXCEPT ![t] = IF "scanner" \in h THEN o \ {"scanner"} ELSE o]

\* An exception or a deadline of connect; one that comes before the API is
\* recorded leaves it open.
ConnectFails(t) ==
  /\ pc[t] \in Opening
  /\ closing' = [closing EXCEPT ![t] = FALSE]
  /\ Mishap(t, IF pc[t] = "info" THEN {"half"} ELSE {})
  /\ ReleaseFrom(t, held[t], open[t], "active")
  /\ UNCHANGED <<manager, made, tries, polled, target, raced>>

Close(t) ==
  /\ pc[t] = "ready"
  /\ closing' = [closing EXCEPT ![t] = TRUE]
  /\ ReleaseFrom(t, held[t], open[t], "active")
  /\ UNCHANGED <<manager, made, tries, polled, target, mishaps, raced>>

Released(t) == CASE pc[t] = "active"  -> {}
                 [] pc[t] = "unlink"  -> {"link"}
                 [] pc[t] = "hang up" -> {"api"}

After(t) == CASE pc[t] = "active"  -> "unlink"
              [] pc[t] = "unlink"  -> "hang up"
              [] pc[t] = "hang up" -> "hang up"

ReleaseStepDone(t) ==
  /\ pc[t] \in Releasing
  /\ UNCHANGED closing
  /\ ReleaseFrom(t, held[t] \ Released(t), open[t] \ Released(t), After(t))
  /\ UNCHANGED <<manager, made, tries, polled, target, mishaps, raced>>

\* What a step raises is suppressed, and its field is emptied all the same.
ReleaseStepRaises(t) ==
  /\ pc[t] \in Releasing
  /\ Mishap(t, IF pc[t] = "active" THEN {} ELSE {"raised"})
  /\ UNCHANGED closing
  /\ ReleaseFrom(t, held[t] \ Released(t), open[t], After(t))
  /\ UNCHANGED <<manager, made, tries, polled, target, raced>>

\* Variant of ReleaseDeadline that empties the fields it did not come to.
ReleaseDeadlineEmptying(t) ==
  /\ pc[t] \in Releasing
  /\ Goto(t, Outcome(closing[t]))
  /\ Mishap(t, {"cut"})
  /\ held' = [held EXCEPT ![t] = {}]
  /\ UNCHANGED <<manager, made, tries, polled, target, open, closing, raced>>

\* The deadline around the whole disconnect: the fields it did not come to keep
\* what they record.
ReleaseDeadline(t) ==
  /\ pc[t] \in Releasing
  /\ Goto(t, Outcome(closing[t]))
  /\ Mishap(t, {"cut"})
  /\ UNCHANGED <<manager, made, tries, polled, target, held, open, closing, raced>>

\* The caller's cancellation releases nothing.
Cancel(t) ==
  /\ pc[t] \in Opening \cup Releasing
  /\ Goto(t, "cancelled")
  /\ Mishap(t, IF pc[t] = "info" THEN {"half"} ELSE {})
  /\ UNCHANGED <<manager, made, tries, polled, target, held, open, closing, raced>>

Ended == (\A t \in Transports : pc[t] \in Over /\ tries[t] = MaxTries) /\ UNCHANGED vars
-----------------------------------------------------------------------------
Next ==
  \/ \E t \in Transports :
       \/ Begin(t) \/ EnsureManager(t) \/ ManagerReady(t) \/ Dialled(t)
       \/ Registered(t) \/ LockSeen(t) \/ LinkUp(t) \/ Tuned(t) \/ Drops(t)
       \/ ConnectFails(t) \/ Close(t) \/ ReleaseStepDone(t) \/ ReleaseStepRaises(t)
       \/ ReleaseDeadline(t) \/ Cancel(t)
  \/ Ended

Spec == Init /\ [][Next]_vars
-----------------------------------------------------------------------------
(* Properties.                                                             *)

\* What a transport has open is recorded, over any number of attempts and even when
\* a release is cut short, so that a later disconnect finds it; but for an API
\* whose device_info fails, and for a release that raises.  A connect that failed
\* and a close that were not cut leave nothing open (esphome_transport.py:110-202).
ProxyForgetsNothing ==
  \A t \in Transports : mishaps[t] \cap {"half", "raised"} = {} =>
    /\ "api" \in open[t] \ held[t] => pc[t] = "info"
    /\ open[t] \cap {"scanner", "link"} \subseteq held[t]
    /\ pc[t] \in {"failed", "closed"} /\ "cut" \notin mishaps[t] => open[t] = {} /\ held[t] = {}

\* One manager is made per process (esphome_transport.py:50), and a transport asks
\* the manager that its scanner is registered with, over any number of attempts and
\* an API that outlives one; but for two first connects at once, between whose check
\* and whose setting of the manager there is an await.
ListensWhereItScans ==
  ~raced =>
    /\ made <= 1
    /\ \A t \in Transports : pc[t] \in {"poll", "link", "passive", "params", "ready"} =>
         polled[t] = target[t] /\ polled[t] = manager
=============================================================================
