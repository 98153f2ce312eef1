------------------------------ MODULE Commands ------------------------------
(***************************************************************************)
(* The plaintexts the package sends to the lock (aqara_ble/lock_ops.py)    *)
(* and the catalogue that tells which opcodes only read                    *)
(* (aqara_ble/operations_catalog.py).  A frame is a sequence of bytes, its *)
(* opcode first; Refused stands for a ValueError.  Pure: module Library    *)
(* evaluates it.                                                           *)
(***************************************************************************)
EXTENDS Integers, Sequences, Bytes

Refused == <<>>

\* build_control_frame: the opcode, then its data; no family byte.
Frame(op, data) == <<op>> \o data
-----------------------------------------------------------------------------
(* Actuation: 74 <direction> <seq> <base + seq>.                           *)

OperateBase(open) == IF open THEN \h17B8 ELSE \h1238

OperateFrame(open, seq) ==
    IF seq \notin Word
    THEN Refused
    ELSE Frame(\h74, <<IF open THEN 1 ELSE 0>> \o LittleEndian(seq)
                       \o LittleEndian((OperateBase(open) + seq) % 65536))

Names == [keepalive |-> <<\h2f, \h01, \h2f>>,
          lock      |-> OperateFrame(FALSE, 1),
          unlock    |-> OperateFrame(TRUE, 1),
          snapshot  |-> <<\h33, \h4e, \h74, \h74, \h6a, \h20, \h1c, 0, 0, \h30, \h49>>,
          legacy    |-> <<\h1f, \h03, \h1f>>]

\* normalize_lock_operation and build_lock_operation_write: a name or a
\* member, never the legacy one; the hex value is not a name.
NamedOperation(value) ==
    IF value \in DOMAIN Names \ {"legacy"} THEN Names[value] ELSE Refused
-----------------------------------------------------------------------------
(* Settings: opcode, value, and a trailer of the setting's own.            *)

\* Seconds of four bytes.
SetVerifyFailTime(seconds) ==
    IF seconds \div 65536 \notin Word
    THEN Refused
    ELSE Frame(\hAF, LittleEndian4(seconds) \o <<\h0c, \h4a>>)

AutoLock(seconds, which) ==
    IF seconds \notin Word
    THEN Refused
    ELSE Frame(\hD5, LittleEndian(seconds) \o <<which, \hfe>>)

SetRelockDelay(seconds)  == AutoLock(seconds, \h0e)

\* Variant of SetOnCloseDelay with the other timer's trailer.
SetOnCloseDelayAsRelock(seconds) == AutoLock(seconds, \h0e)
SetOnCloseDelay(seconds) == AutoLock(seconds, \h01)

SetAlarmVolume(silent) == Frame(\h83, <<2, IF silent THEN 0 ELSE \h10, 7>>)

SetAlertVolume(level) ==
    IF level \notin 1 .. 4
    THEN Refused
    ELSE Frame(2, <<2, level, 4, (level + \h0c) % 256>>)

SetAlertDelay(seconds) ==
    IF seconds \notin Byte
    THEN Refused
    ELSE Frame(\h18, <<5, \h0a, 3, seconds, \h88, Xor(seconds, \hdf)>>)

\* English is 2 and Deutsch 9; no other language has a builder.
SetLanguage(code) == Frame(3, <<code, \h83, Xor(code, 5)>>)

EnableOnCloseLocking == Frame(\hC4, <<2, 0, 6, \h98>>)
EnableRelocking      == Frame(\hC4, <<4, 0, 0, \h98>>)

\* What the caller asks for: a setting and its value.
Build(setting, value) ==
    CASE setting = "open"           -> OperateFrame(TRUE, value)
      [] setting = "close"          -> OperateFrame(FALSE, value)
      [] setting = "verify fail"    -> SetVerifyFailTime(value)
      [] setting = "relock delay"   -> SetRelockDelay(value)
      [] setting = "on-close delay" -> SetOnCloseDelay(value)
      [] setting = "alarm silent"   -> SetAlarmVolume(value = 1)
      [] setting = "alert volume"   -> SetAlertVolume(value)
      [] setting = "alert delay"    -> SetAlertDelay(value)
      [] setting = "language"       -> SetLanguage(value)
      [] setting = "on-close on"    -> EnableOnCloseLocking
      [] setting = "relock on"      -> EnableRelocking
-----------------------------------------------------------------------------
(* Reads.                                                                  *)

ReadTrailer == <<\h15, \h8b, \h36, \h09>>

ReadQuery(op, body) == Frame(op, body \o ReadTrailer)

\* The SYSTEM family of the catalogue by the form of the names: GET_, QUERY_
\* and READ_; others that end in _STATUS, _INFO, _VERSION or _TIME; and those
\* listed by name as reads.
Asks == { \h35, \h36, \h39, \h42, \h45, \h47, \h49, \h4C, \h5D, \h64, \h68, \h71, \h78, \h7B,
  \h7D, \h84, \h8C, \h8E, \h8F, \hA2, \hA4, \hAB, \hAE, \hB0, \hB6, \hC0, \hC3, \hC5, \hC7,
  \hCB, \hD6, \hD8, \hDC, \hDD, \hDE, \hE0, \hE2, \hE4, \hE5, \hE9, \hEC, \hEE, \hF1, \hF3,
  \hFA, \hFC, \hFE }
Tells == { \h01, \h07, \h08, \h09, \h0D, \h11, \h15, \h21, \h2A, \h2B, \h33, \h46, \h4A, \h5B,
  \h5C, \h61, \h77, \h7C, \h8B, \h93, \h94, \hAD, \hAF, \hCC, \hCD, \hD5, \hE6, \hEA }
Listed == { \h02, \h03, \h14, \h1A, \h30, \h4D, \h4F }

\* Names with a marker of what changes something or is only pushed (SET_, DEL_,
\* OTA, BIND, ENABLE, REPORT...).
Marked == { \h09, \h0A, \h0B, \h0C, \h11, \h15, \h17, \h18, \h1B, \h1C, \h1D, \h1E, \h22, \h23,
  \h24, \h25, \h27, \h2B, \h2D, \h2E, \h34, \h37, \h3A, \h3C, \h3F, \h41, \h44, \h46, \h48,
  \h4B, \h50, \h5B, \h5C, \h5D, \h61, \h70, \h74, \h77, \h7A, \h7C, \h83, \h8B, \h8D, \h93,
  \h94, \hA2, \hA3, \hAA, \hAD, \hAF, \hB5, \hBB, \hBF, \hC4, \hC6, \hC8, \hC9, \hCA, \hCB,
  \hCD, \hD5, \hD7, \hDA, \hDC, \hDF, \hE1, \hE3, \hE6, \hE8, \hEA, \hEB, \hED, \hEF, \hF2,
  \hF4, \hF9, \hFB, \hFC, \hFD }

IsRead(op) == op \notin Marked /\ op \in Asks \cup Tells \cup Listed

\* system_read_opcodes
ReadOpcodes == { op \in Byte : IsRead(op) }
=============================================================================
