----------------------------- MODULE Connection -----------------------------
(***************************************************************************)
(* Opening and closing the way to the lock: U200Client.connect and close   *)
(* (aqara_ble/client.py) over a BumbleTransport (aqara_ble/transport.py).  *)
(* The transport opens a port to the radio, powers the radio on, scans if  *)
(* no address was given, connects and discovers; it records each thing it  *)
(* opened in a field of its own, and disconnect() releases what the fields *)
(* record.  One transport serves one attempt after another.  The Bluetooth *)
(* stack is external: each of its steps may come late, never, or fail, and *)
(* one that fails or is given up has no effect.                            *)
(***************************************************************************)
EXTENDS Integers, FiniteSets

CONSTANT MaxTries  \* bound: calls of connect on one transport

ASSUME ConnectionConstantsOK == MaxTries \in Nat \ {0}

VARIABLES
  pc,       \* where the client is
  stage,    \* "scan" or "connect": which call of the transport is under way
  closing,  \* the disconnect under way is that of close()
  tries,    \* calls of connect so far
  held,     \* the transport's fields that are not None
  ports,    \* ports open
  link,     \* the lock is connected to the radio
  mishaps   \* what went wrong so far in a way that can leave things open

vars == <<pc, stage, closing, tries, held, ports, link, mishaps>>

Fields    == {"port", "device", "link"}
Opening   == {"port", "power", "startscan", "scanning", "connecting", "discover"}
Releasing == {"unlink", "poweroff", "portclose"}
Over      == {"idle", "failed", "scanfailed", "cancelled", "closed"}
\* A step of the release was cut short, or raised; a scan failed between the
\* opening of the port and the recording of the radio; the caller cancelled.
Mishaps   == {"cut", "raised", "half", "cancel"}

Init ==
  /\ pc = "idle" /\ stage = "connect" /\ closing = FALSE /\ tries = 0
  /\ held = {} /\ ports = 0 /\ link = FALSE /\ mishaps = {}

Mishap(m) == mishaps' = mishaps \cup {m}
-----------------------------------------------------------------------------
(* connect: opening.                                                       *)

AfterDevice(s) == IF s = "scan" THEN "startscan" ELSE "connecting"

\* By address or with a scan first; a radio that is still recorded is used again.
Begin ==
  /\ pc \in Over /\ tries < MaxTries
  /\ tries' = tries + 1
  /\ stage' \in {"scan", "connect"}
  /\ pc' = IF "device" \in held THEN AfterDevice(stage') ELSE "port"
  /\ UNCHANGED <<closing, held, ports, link, mishaps>>

\* Variant of PortOpens: the port is recorded with the radio, later.
PortOpensUnrecorded ==
  /\ pc = "port"
  /\ ports' = ports + 1
  /\ pc' = "power"
  /\ UNCHANGED <<stage, closing, tries, held, link, mishaps>>

\* The field takes the new port, whatever it recorded before.
PortOpens ==
  /\ pc = "port"
  /\ ports' = ports + 1
  /\ held' = held \cup {"port"}
  /\ pc' = "power"
  /\ UNCHANGED <<stage, closing, tries, link, mishaps>>

PowersOn ==
  /\ pc = "power"
  /\ held' = held \cup {"device"}
  /\ pc' = AfterDevice(stage)
  /\ UNCHANGED <<stage, closing, tries, ports, link, mishaps>>

ScanStarts ==
  /\ pc = "startscan"
  /\ pc' = "scanning"
  /\ UNCHANGED <<stage, closing, tries, held, ports, link, mishaps>>

\* Early or at scan_timeout: with one preferred candidate the client connects to
\* it, with none or a tie it gives up and releases nothing.
ScanEnds ==
  /\ pc = "scanning"
  /\ \/ stage' = "connect" /\ pc' = "connecting"
     \/ pc' = "scanfailed" /\ UNCHANGED stage
  /\ UNCHANGED <<closing, tries, held, ports, link, mishaps>>

\* What the scan's stack raises: no release here either.
ScanFails ==
  /\ stage = "scan"
  /\ \/ pc = "power" /\ Mishap("half")
     \/ pc \in {"port", "startscan"} /\ UNCHANGED mishaps
  /\ pc' = "scanfailed"
  /\ UNCHANGED <<stage, closing, tries, held, ports, link>>

\* The lock takes one link at a time.
LinkUp ==
  /\ pc = "connecting" /\ ~link
  /\ link' = TRUE
  /\ held' = held \cup {"link"}
  /\ pc' = "discover"
  /\ UNCHANGED <<stage, closing, tries, ports, mishaps>>

Discovered ==
  /\ pc = "discover"
  /\ pc' = "ready"
  /\ UNCHANGED <<stage, closing, tries, held, ports, link, mishaps>>
-----------------------------------------------------------------------------
(* disconnect: releasing what is recorded.                                 *)

Outcome(c) == IF c THEN "closed" ELSE "failed"

\* Variant of ReleaseNext: the port's field keeps what is being closed.
ReleaseNextKeepsPort ==
  \/ "link" \in held /\ pc' = "unlink" /\ held' = held \ {"link"}
  \/ "link" \notin held /\ "device" \in held /\ pc' = "poweroff" /\ held' = held \ {"device"}
  \/ held = {"port"} /\ pc' = "portclose" /\ UNCHANGED held
  \/ held = {} /\ pc' = Outcome(closing') /\ UNCHANGED held

\* Each field is emptied before what it recorded is released.
ReleaseNext ==
  \/ "link" \in held /\ pc' = "unlink" /\ held' = held \ {"link"}
  \/ "link" \notin held /\ "device" \in held /\ pc' = "poweroff" /\ held' = held \ {"device"}
  \/ held = {"port"} /\ pc' = "portclose" /\ held' = {}
  \/ held = {} /\ pc' = Outcome(closing') /\ UNCHANGED held

\* Variant of ConnectFails: nothing is released.
ConnectFailsOnly ==
  /\ stage = "connect" /\ pc \in Opening
  /\ pc' = "failed"
  /\ UNCHANGED <<stage, closing, tries, held, ports, link, mishaps>>

\* The stack raises, or a deadline passes: that of the link, that of a discovery or
\* that of the whole call.
ConnectFails ==
  /\ stage = "connect" /\ pc \in Opening
  /\ closing' = FALSE
  /\ ReleaseNext
  /\ UNCHANGED <<stage, tries, ports, link, mishaps>>

\* A second close() of the client does nothing.
Close ==
  /\ pc = "ready"
  /\ closing' = TRUE
  /\ ReleaseNext
  /\ UNCHANGED <<stage, tries, ports, link, mishaps>>

ReleaseStepDone ==
  /\ pc \in Releasing
  /\ link' = (link /\ pc # "unlink")
  /\ ports' = IF pc = "portclose" THEN ports - 1 ELSE ports
  /\ UNCHANGED closing
  /\ ReleaseNext
  /\ UNCHANGED <<stage, tries, mishaps>>

\* What a step raises is suppressed; the release goes on.
ReleaseStepRaises ==
  /\ pc \in Releasing
  /\ Mishap("raised")
  /\ UNCHANGED closing
  /\ ReleaseNext
  /\ UNCHANGED <<stage, tries, ports, link>>

\* Variant of ReleaseDeadline: only the link's own step has a deadline.
ReleaseDeadlineOfLink ==
  /\ pc = "unlink"
  /\ pc' = Outcome(closing)
  /\ Mishap("cut")
  /\ UNCHANGED <<stage, closing, tries, held, ports, link>>

\* The caller waits DISCONNECT_TIMEOUT for the whole disconnect, which gives each of
\* its steps as much and starts its first clock later: it is the whole that is cut.
ReleaseDeadline ==
  /\ pc \in Releasing
  /\ pc' = Outcome(closing)
  /\ Mishap("cut")
  /\ UNCHANGED <<stage, closing, tries, held, ports, link>>
-----------------------------------------------------------------------------
(* The caller and the link.                                                *)

\* A CancelledError is no Exception: it passes both the release after a failure
\* and the suppression inside a release.
Cancel ==
  /\ pc \in Opening \cup Releasing
  /\ pc' = "cancelled"
  /\ Mishap("cancel")
  /\ UNCHANGED <<stage, closing, tries, held, ports, link>>

LinkDrops ==
  /\ link
  /\ link' = FALSE
  /\ UNCHANGED <<pc, stage, closing, tries, held, ports, mishaps>>

Ended == pc \in Over /\ tries = MaxTries /\ UNCHANGED vars
-----------------------------------------------------------------------------
Next ==
  \/ Begin \/ PortOpens \/ PowersOn \/ ScanStarts \/ ScanEnds \/ ScanFails
  \/ LinkUp \/ Discovered \/ ConnectFails
  \/ Close \/ ReleaseStepDone \/ ReleaseStepRaises \/ ReleaseDeadline
  \/ Cancel \/ LinkDrops \/ Ended

\* The timers the code sets: around connect, around disconnect and in the scan.  The
\* stack need not finish anything.
Fairness == WF_vars(ConnectFails) /\ WF_vars(ReleaseDeadline) /\ WF_vars(ScanEnds)

Spec == Init /\ [][Next]_vars
FairSpec == Spec /\ Fairness
-----------------------------------------------------------------------------
(* Properties.                                                             *)

\* The client is where it can be, and no port is closed twice.
TypeOK ==
  /\ pc \in Opening \cup Releasing \cup Over \cup {"ready"}
  /\ stage \in {"scan", "connect"} /\ closing \in BOOLEAN /\ tries \in 0 .. MaxTries
  /\ held \subseteq Fields /\ ports \in Nat /\ link \in BOOLEAN
  /\ mishaps \subseteq Mishaps

\* Nothing is open that is neither recorded nor being released, over any number of
\* attempts on one transport, unless one of the mishaps happened.
NothingForgotten ==
  mishaps = {} =>
    /\ ports = IF "port" \in held \/ pc = "portclose" THEN 1 ELSE 0
    /\ link => "link" \in held \/ pc = "unlink"

\* After a connect that failed and after a close nothing is open, a radio taken
\* over from an earlier scan included (client.py:183-186, 706-713).
Released ==
  pc \in {"failed", "closed"} /\ mishaps = {} => ports = 0 /\ ~link /\ held = {}

\* A release is always over, and so is an attempt that has passed its scan: what the
\* client does then is bounded by time, whatever the stack does.
BoundedPhasesEnd ==
  /\ pc \in Releasing ~> pc \in Over
  /\ stage = "connect" /\ pc \in Opening ~> pc \in Over \cup {"ready"}
=============================================================================
