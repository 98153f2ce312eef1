------------------------------ MODULE Replies -------------------------------
(***************************************************************************)
(* What the package concludes from a decrypted frame of the lock           *)
(* (aqara_ble/lock_state.py and the U200Client calls that use it).  A      *)
(* frame is a sequence of bytes; a decoder gives the set of what it reads  *)
(* off it, empty where the code gives None.  Pure: module Library          *)
(* evaluates it.                                                           *)
(***************************************************************************)
EXTENDS Integers, Sequences, FiniteSetsExt, Bytes

\* The reply to a read of op, with status 0, of so many bytes at least.
IsReply(raw, op, size) == Len(raw) >= size /\ raw[1] = op /\ raw[2] = 0

\* Whether the bolt is locked: bit 2 of the status is set when it is drawn.
LockStatus(raw) == IF IsReply(raw, \h07, 3) THEN {Bit(raw[3], 2) = 0} ELSE {}

BatteryInfo(raw) == IF IsReply(raw, \hDE, 7) THEN {raw[7]} \cap 0 .. 100 ELSE {}

DoorType(raw)   == IF IsReply(raw, \hE0, 3) THEN {raw[3]} ELSE {}
AssistTurn(raw) == IF IsReply(raw, \hE9, 3) THEN {raw[3] # 0} ELSE {}
PullSpring(raw) == IF IsReply(raw, \hE4, 4) THEN {<<raw[3] # 0, raw[4]>>} ELSE {}

AlertVolume(raw) == IF IsReply(raw, \h1A, 5) THEN {raw[5]} ELSE {}
LockVolume(raw)  == IF IsReply(raw, \hC3, 3) THEN {raw[3]} ELSE {}
AlarmVolume(raw) == IF IsReply(raw, \h84, 5) THEN {SubSeq(raw, 3, Len(raw) - 2)} ELSE {}
Language(raw)    == IF IsReply(raw, \h68, 4) THEN {raw[4]} ELSE {}

\* What read_settings and the single reads of a setting make of a frame.
Settings(raw) ==
    [door |-> DoorType(raw), assist |-> AssistTurn(raw), spring |-> PullSpring(raw),
     alert |-> AlertVolume(raw), volume |-> LockVolume(raw), alarm |-> AlarmVolume(raw),
     language |-> Language(raw)]
-----------------------------------------------------------------------------
(* The events the lock pushes.                                             *)

ReportLocked   == \h1D
ReportUnlocked == \hDD
ReportStatus   == \h15

\* decode_state_report looks at the opcode alone.
StateReport(raw) ==
    IF Len(raw) = 0 THEN {}
    ELSE CASE raw[1] = ReportLocked    -> {TRUE}
           [] raw[1] = ReportUnlocked  -> {FALSE}
           [] OTHER                    -> {}

\* The four bytes before the CRC, in a frame long enough to have them.
Timestamp(raw) == IF Len(raw) >= 8 THEN {SubSeq(raw, Len(raw) - 5, Len(raw) - 2)} ELSE {}

\* Variant of PushedCharge at the offset of the read's reply.
PushedChargeFromFront(raw) == {raw[7]} \cap 0 .. 100

\* The charge in a battery frame, counted from its end.
PushedCharge(raw) == {raw[Len(raw) - 4]} \cap 0 .. 100

Nothing == [kind |-> "none", locked |-> {}, battery |-> {}, source |-> {}, at |-> {}]

\* decode_event
Event(raw) ==
    LET op == raw[1] IN
    IF Len(raw) < 6 THEN Nothing
    ELSE CASE op = ReportUnlocked -> [Nothing EXCEPT !.kind = "unlocked", !.locked = {FALSE},
                                                     !.at = Timestamp(raw)]
           [] op = ReportLocked   -> [Nothing EXCEPT !.kind = "locked", !.locked = {TRUE},
                                                     !.source = {raw[2]}, !.at = Timestamp(raw)]
           [] op = \hDE /\ PushedCharge(raw) # {}
                                  -> [Nothing EXCEPT !.kind = "battery",
                                                     !.battery = PushedCharge(raw)]
           [] op = ReportStatus   -> [Nothing EXCEPT !.kind = "status", !.at = Timestamp(raw)]
           [] OTHER               -> [Nothing EXCEPT !.kind = "unknown"]
-----------------------------------------------------------------------------
(* The calls of U200Client that conclude something from a frame: what they *)
(* give their caller of the bolt and of the battery.                       *)

State(locked, battery) == [locked |-> locked, battery |-> battery]

ReadAny(raw)      == State(LockStatus(raw), BatteryInfo(raw))   \* read
ReadBattery(raw)  == State({}, BatteryInfo(raw))                \* battery
ReadPosition(raw) == State(LockStatus(raw), {})                 \* read_lock_status
Status(raw)       == State({}, {})                              \* status and query: the raw reply
OnState(raw)      == State(StateReport(raw), {})                \* listen and operate
OnEvent(raw)      == State(Event(raw).locked, Event(raw).battery)   \* listen

\* The position operate gives after its window: that of the last report.
Observed(frames) ==
    LET telling == { i \in DOMAIN frames : StateReport(frames[i]) # {} } IN
    IF telling = {} THEN {} ELSE StateReport(frames[Max(telling)])
=============================================================================
