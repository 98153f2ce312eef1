-------------------------- MODULE ConnectionProofs --------------------------
(***************************************************************************)
(* What connect and close keep, over any number of attempts on one         *)
(* transport.  The invariant has a part that every step keeps, mishaps or  *)
(* not: what the transport's fields record is complete for the place the   *)
(* client is at, and a recorded port is open.  The other part, that        *)
(* nothing else is open, needs it and holds until a first mishap.          *)
(***************************************************************************)
EXTENDS Connection, TLAPS

\* The fields are filled in the order port, device, link and emptied in the
\* opposite one.
Nested ==
  /\ "link" \in held => "device" \in held
  /\ "device" \in held => "port" \in held

\* The fields the client relies on where it is, and those it has emptied.
Recorded ==
  /\ pc = "power" => "port" \in held
  /\ pc \in {"startscan", "scanning", "connecting"} => "device" \in held
  /\ pc \in {"discover", "ready"} => "link" \in held
  /\ pc = "unlink" => "link" \notin held
  /\ pc = "poweroff" => held \subseteq {"port"}
  /\ pc = "portclose" => held = {}

PortIsOpen == "port" \in held \/ pc = "portclose" => ports > 0

\* Without a mishap: an attempt begins with no link, and with no port unless it has
\* the radio too.
Orderly ==
  mishaps = {} =>
    /\ pc \in {"idle", "port", "failed", "closed"} => held = {}
    /\ pc \in {"power", "startscan", "scanning", "scanfailed", "connecting"}
         => "link" \notin held
    /\ pc = "power" => held = {"port"}
    /\ pc = "scanfailed" => held = {} \/ "device" \in held
    /\ pc # "cancelled"

Inv == TypeOK /\ Nested /\ Recorded /\ PortIsOpen /\ Orderly /\ NothingForgotten

-----------------------------------------------------------------------------
\* One step of the release of what is recorded: the types, and what the fields say
\* of the place reached.  The step before it decides on ports and link.
LEMMA ReleaseKeeps ==
  ASSUME held \subseteq Fields, Nested, closing' \in BOOLEAN, ReleaseNext
  PROVE  /\ pc' \in Releasing \cup {"failed", "closed"}
         /\ held' \subseteq Fields
         /\ Nested' /\ Recorded'
         /\ pc' \in {"failed", "closed"} => held = {} /\ held' = {}
         /\ ("port" \in held' \/ pc' = "portclose") <=> "port" \in held
         /\ ("link" \in held' \/ pc' = "unlink") <=> "link" \in held
<1>1. CASE "link" \in held /\ pc' = "unlink" /\ held' = held \ {"link"}
  BY <1>1 DEF Nested, Recorded, Releasing, Fields
<1>2. CASE "link" \notin held /\ "device" \in held /\ pc' = "poweroff" /\ held' = held \ {"device"}
  BY <1>2 DEF Nested, Recorded, Releasing, Fields
<1>3. CASE held = {"port"} /\ pc' = "portclose" /\ held' = {}
  BY <1>3 DEF Nested, Recorded, Releasing, Fields
<1>4. CASE held = {} /\ pc' = Outcome(closing') /\ UNCHANGED held
  BY <1>4 DEF Nested, Recorded, Releasing, Fields, Outcome
<1> QED
  BY <1>1, <1>2, <1>3, <1>4 DEF ReleaseNext

LEMMA Initial == Init => Inv
<1> SUFFICES ASSUME Init PROVE Inv
  OBVIOUS
<1>1. tries \in 0 .. MaxTries
  BY ConnectionConstantsOK DEF ConnectionConstantsOK, Init
<1>2. TypeOK
  BY <1>1 DEF Init, TypeOK, Over, Opening, Releasing, Fields, Mishaps
<1>3. Nested /\ Recorded /\ PortIsOpen /\ Orderly /\ NothingForgotten
  BY DEF Init, Nested, Recorded, PortIsOpen, Orderly, NothingForgotten
<1> QED
  BY <1>2, <1>3 DEF Inv

\* Opening.
LEMMA OpeningKeeps ==
  ASSUME Inv, Begin \/ PortOpens \/ PowersOn \/ ScanStarts \/ ScanEnds \/ ScanFails
              \/ LinkUp \/ Discovered
  PROVE  Inv'
<1> USE DEF Inv, TypeOK, Nested, Recorded, PortIsOpen, Orderly, NothingForgotten,
            Over, Opening, Releasing, Fields, Mishaps
<1>1. CASE Begin
  BY <1>1, ConnectionConstantsOK DEF Begin, AfterDevice
<1>2. CASE PortOpens
  <2>1. mishaps = {} => held' = {"port"} /\ ports = 0
    BY <1>2 DEF PortOpens
  <2>2. TypeOK' /\ Nested' /\ Recorded' /\ PortIsOpen'
    BY <1>2 DEF PortOpens
  <2>3. Orderly' /\ NothingForgotten'
    BY <1>2, <2>1 DEF PortOpens
  <2> QED
    BY <2>2, <2>3
<1>3. CASE PowersOn
  BY <1>3 DEF PowersOn, AfterDevice
<1>4. CASE ScanStarts
  BY <1>4 DEF ScanStarts
<1>5. CASE ScanEnds
  BY <1>5 DEF ScanEnds
<1>6. CASE ScanFails
  BY <1>6 DEF ScanFails, Mishap
<1>7. CASE LinkUp
  BY <1>7 DEF LinkUp
<1>8. CASE Discovered
  BY <1>8 DEF Discovered
<1> QED
  BY <1>1, <1>2, <1>3, <1>4, <1>5, <1>6, <1>7, <1>8

\* Releasing: what a step leaves open is what is recorded after it, or is the next
\* thing released.
LEMMA ReleasingKeeps ==
  ASSUME Inv, ConnectFails \/ Close \/ ReleaseStepDone \/ ReleaseStepRaises
  PROVE  Inv'
<1>0. closing' \in BOOLEAN /\ ReleaseNext /\ held \subseteq Fields /\ Nested
  BY DEF ConnectFails, Close, ReleaseStepDone, ReleaseStepRaises, Inv, TypeOK
<1> USE ReleaseKeeps, <1>0
<1>1. CASE ConnectFails
  <2>1. pc \in Opening
    BY <1>1 DEF ConnectFails
  <2> QED
    BY <1>1, <2>1 DEF ConnectFails, Inv, TypeOK, Nested, PortIsOpen, Orderly, NothingForgotten,
                 Over, Opening, Releasing
<1>2. CASE Close
  BY <1>2 DEF Close, Inv, TypeOK, PortIsOpen, Orderly, NothingForgotten, Over, Releasing
<1>3. CASE ReleaseStepDone
  <2>1. /\ pc \in Releasing /\ UNCHANGED <<stage, closing, tries, mishaps>>
        /\ link' = (link /\ pc # "unlink")
        /\ ports' = IF pc = "portclose" THEN ports - 1 ELSE ports
    BY <1>3 DEF ReleaseStepDone
  <2>2. ports' \in Nat /\ PortIsOpen'
    BY <2>1 DEF Inv, TypeOK, PortIsOpen, Recorded
  <2>3. TypeOK'
    BY <2>1, <2>2 DEF Inv, TypeOK, Releasing, Over
  <2>4. Orderly'
    BY <2>1 DEF Inv, Orderly, Releasing
  <2>5. NothingForgotten'
    <3>1. mishaps = {} => ports' = IF "port" \in held' \/ pc' = "portclose" THEN 1 ELSE 0
      BY <2>1 DEF Inv, NothingForgotten, Recorded
    <3>2. mishaps = {} /\ link' => "link" \in held' \/ pc' = "unlink"
      BY <2>1 DEF Inv, NothingForgotten
    <3> QED
      BY <2>1, <3>1, <3>2 DEF NothingForgotten
  <2> QED
    BY <2>2, <2>3, <2>4, <2>5 DEF Inv
<1>4. CASE ReleaseStepRaises
  BY <1>4 DEF ReleaseStepRaises, Mishap, Inv, TypeOK, Nested, Recorded, PortIsOpen, Orderly,
              NothingForgotten, Over, Releasing, Mishaps, Fields
<1> QED
  BY <1>1, <1>2, <1>3, <1>4

\* The rest.
LEMMA OthersKeep ==
  ASSUME Inv, ReleaseDeadline \/ Cancel \/ LinkDrops \/ Ended \/ UNCHANGED vars
  PROVE  Inv'
<1>1. CASE ReleaseDeadline \/ Cancel
  <2>1. mishaps' # {} /\ mishaps' \subseteq Mishaps
    BY <1>1 DEF ReleaseDeadline, Cancel, Mishap, Inv, TypeOK, Mishaps
  <2>2. /\ pc' \in {"failed", "closed", "cancelled"}
        /\ UNCHANGED <<stage, closing, tries, held, ports, link>>
    BY <1>1 DEF ReleaseDeadline, Cancel, Outcome
  <2>3. TypeOK'
    BY <2>1, <2>2 DEF Inv, TypeOK, Over
  <2>4. Nested' /\ Recorded' /\ PortIsOpen'
    BY <2>2 DEF Inv, Nested, Recorded, PortIsOpen
  <2>5. Orderly' /\ NothingForgotten'
    BY <2>1 DEF Orderly, NothingForgotten
  <2> QED
    BY <2>3, <2>4, <2>5 DEF Inv
<1>2. CASE LinkDrops \/ Ended \/ UNCHANGED vars
  <2>1. UNCHANGED <<pc, stage, closing, tries, held, ports, mishaps>> /\ link' \in {FALSE, link}
    BY <1>2 DEF LinkDrops, Ended, vars
  <2>2. TypeOK'
    BY <2>1 DEF Inv, TypeOK
  <2>3. Nested' /\ Recorded' /\ PortIsOpen' /\ Orderly'
    BY <2>1 DEF Inv, Nested, Recorded, PortIsOpen, Orderly
  <2>4. NothingForgotten'
    BY <2>1 DEF Inv, NothingForgotten
  <2> QED
    BY <2>2, <2>3, <2>4 DEF Inv
<1> QED
  BY <1>1, <1>2

LEMMA Invariant == Spec => []Inv
<1>1. Inv /\ [Next]_vars => Inv'
  BY OpeningKeeps, ReleasingKeeps, OthersKeep DEF Next
<1> QED
  BY Initial, <1>1, PTL DEF Spec
-----------------------------------------------------------------------------
\* The types; with them, a port is closed at most once (disconnect empties each field
\* before it releases what the field recorded).
THEOREM TypeCorrect == Spec => []TypeOK
<1>1. Inv => TypeOK
  BY DEF Inv
<1> QED
  BY Invariant, <1>1, PTL

\* For any number of attempts on one transport: what is open is recorded or being
\* released, until a first mishap.
THEOREM NothingIsForgotten == Spec => []NothingForgotten
<1>1. Inv => NothingForgotten
  BY DEF Inv
<1> QED
  BY Invariant, <1>1, PTL

\* A failed connect and a close leave nothing open, until a first mishap.
THEOREM AllIsReleased == Spec => []Released
<1>1. Inv => Released
  BY DEF Inv, Orderly, NothingForgotten, Released
<1> QED
  BY Invariant, <1>1, PTL
=============================================================================
