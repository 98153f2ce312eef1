------------------------------ MODULE Library -------------------------------
(***************************************************************************)
(* The package's algorithms over their inputs: each behaviour takes one    *)
(* input, answers it with the operators of modules Scan, Commands, Replies *)
(* and VoicePack, and stops.  The properties compare the answer with what  *)
(* was on the air, asked for, true of the lock or in the cloud.            *)
(***************************************************************************)
EXTENDS Integers, Sequences, SequencesExt, FiniteSetsExt, Scan, Commands, Replies, VoicePack

CONSTANTS
  Addresses,    \* addresses on the air
  Wanted,       \* the one a caller asks for
  Strengths,    \* strengths of an advertisement
  Times,        \* seconds at which one may come
  Showings,     \* what one may show of the lock
  MaxAdverts,   \* bound: advertisements of one scan
  Numbers,      \* values a caller gives to a setting
  Noise,        \* bytes of a CRC or a counter that a decoder might misread
  Charges,      \* charges of the battery
  Levels,       \* values of a setting the lock tells
  WindowNoise,  \* the noise of the frames of a listen window
  MaxWindow,    \* bound: frames of one listen window
  Languages,    \* what a caller calls the language
  Rows,         \* rows of the cloud's list of voice packs
  MaxRows,      \* bound: rows of one list
  Blobs         \* what the CDN may serve

ASSUME LibraryConstantsOK ==
  /\ Wanted \in Addresses /\ AnyAddress \notin Addresses
  /\ Strengths \subseteq Int /\ Times \subseteq Nat
  /\ Showings \subseteq SUBSET {"name", "service", "manufacturer"}
  /\ MaxAdverts \in Nat /\ MaxWindow \in Nat /\ MaxRows \in Nat
  /\ Numbers \subseteq Int /\ Charges \subseteq 0 .. 100
  /\ Noise \subseteq Byte /\ WindowNoise \subseteq Noise /\ Levels \subseteq Byte
  /\ \A blob \in Blobs : blob \in Seq(Byte)
  /\ \A row \in Rows : row.files \in {"list", "text", "wrapped", "broken"}

VARIABLES
  job,      \* the input
  answer    \* what the code makes of it: <<>> until it has

vars == <<job, answer>>
-----------------------------------------------------------------------------
(* The inputs.                                                             *)

Adverts == [addr : Addresses, rssi : Strengths, at : Times, signs : Showings]

ScanJobs ==
  { [kind |-> "scan", advs |-> advs, mac |-> mac, way |-> way] :
      advs \in { s \in SeqOf(Adverts, MaxAdverts) : \A i \in 2 .. Len(s) : s[i-1].at <= s[i].at },
      mac \in {Wanted}, way \in {"connect", "address", "select"} }

Ask(setting, value) == [kind |-> "request", setting |-> setting, value |-> value]
NumberSettings == {"open", "close", "verify fail", "relock delay", "on-close delay",
                   "alert volume", "alert delay"}

NumberRequests   == { Ask(s, n) : s \in NumberSettings, n \in Numbers }
SwitchRequests   == { Ask(s, 1) : s \in {"on-close on", "relock on"} }
AlarmRequests    == { Ask("alarm silent", n) : n \in {0, 1} }
LanguageRequests == { Ask("language", n) : n \in {2, 9} }

RequestJobs == NumberRequests \cup SwitchRequests \cup AlarmRequests \cup LanguageRequests

\* What the lock says, and what is true then of the bolt and the battery and
\* of the setting the frame is about.
NoSetting == [s \in {"door", "assist", "spring", "alert", "volume", "alarm", "language"} |-> {}]
Says(frame, locked, battery) ==
    [frame |-> frame, locked |-> locked, battery |-> battery, settings |-> NoSetting]
SaysOf(setting, value, frame) ==
    [frame |-> frame, locked |-> {}, battery |-> {},
     settings |-> [NoSetting EXCEPT ![setting] = {value}]]

StatusReply(bits, n)    == <<\h07, 0, bits, 0, 0, 0, 0, 0, 0, n, n>>
BatteryReply(charge, n) == <<\hDE, 0, 7, 0, 1, 1, charge, 0, 0, n, n>>

StatusReplies ==
  { Says(StatusReply(bits, n), {bits = \h04}, {}) : bits \in {\h04, \h06, \h0b}, n \in Noise }
BatteryReplies ==
  { Says(BatteryReply(p, n), {}, {p}) : p \in Charges, n \in Noise }
SettingReply(v, n) ==
  { SaysOf("door", v, <<\hE0, 0, v, n>>),
    SaysOf("assist", v # 0, <<\hE9, 0, v, n>>),
    SaysOf("spring", <<v # 0, n>>, <<\hE4, 0, v, n, 0>>),
    SaysOf("alert", v, <<\h1A, 0, n, 1, v, \h0a, 1, 1, n, n>>),
    SaysOf("volume", v, <<\hC3, 0, v, 4, n, n>>),
    SaysOf("alarm", <<2, 0, v>>, <<\h84, 0, 2, 0, v, n, n>>),
    SaysOf("language", v, <<\h68, 0, 2, v, 0, 0, n, n>>) }
SettingReplies == UNION { SettingReply(v, n) : v \in Levels, n \in Noise }
OtherReplies ==
  { Says(<<op, 0, n, n, n, n>>, {}, {}) :
      op \in (ReadOpcodes \ {\h07, \hDE, \hE0, \hE9, \hE4, \h1A, \hC3, \h84, \h68})
             \cup {\h2F, \h74},
      n \in Noise }

PositionPush(op, n)    == <<op, n, n, 0, \hDE, \hC0, 1, 2, 3, 4, n, n>>
BatteryPush(charge, n) == <<\hDE, 7, 0, 1, 1, charge, 0, 0, n, n>>
StatusPush(n)          == <<ReportStatus, n, n, 1, 2, 3, 4, n, n>>

PositionPushes(noise) ==
  { Says(PositionPush(op, n), {op = ReportLocked}, {}) :
      op \in {ReportLocked, ReportUnlocked}, n \in noise }
BatteryPushes(noise) ==
  { Says(BatteryPush(p, n), {}, {p}) : p \in Charges, n \in noise }
OtherPushes(noise) ==
  { Says(StatusPush(n), {}, {}) : n \in noise }
  \cup { Says(<<op, 0, n, n>>, {}, {}) : op \in {\h2F, \h74}, n \in noise }

Pushes(noise) == PositionPushes(noise) \cup BatteryPushes(noise) \cup OtherPushes(noise)

\* A call that reads may be given whatever comes first; the listen window is
\* given what the lock pushes, and the late replies of a read of its own.
FrameJobs ==
  { [kind |-> "reply", said |-> said] :
      said \in Pushes(Noise) \cup StatusReplies \cup BatteryReplies \cup SettingReplies
              \cup OtherReplies }
  \cup { [kind |-> "push", said |-> said] : said \in Pushes(Noise) \cup StatusReplies \cup BatteryReplies }

WindowJobs ==
  { [kind |-> "window", said |-> said] :
      said \in SeqOf(Pushes(WindowNoise), MaxWindow) }

LanguageJobs ==
  [kind : {"language"},
   payload : [code : {"0", "none", "text 0"}, result : {"bare", "keyed", "other"},
              rows : SeqOf(Rows, MaxRows)],
   language : Languages, served : Blobs, verify : BOOLEAN]
-----------------------------------------------------------------------------
(* The steps.                                                              *)

Init ==
  /\ \/ job \in ScanJobs
     \/ job \in RequestJobs
     \/ job \in { [kind |-> "read", op |-> op] : op \in Byte }
     \/ job \in { [kind |-> "named", name |-> name] : name \in DOMAIN Names \cup {"74010100b917"} }
     \/ job \in FrameJobs
     \/ job \in WindowJobs
     \/ job \in LanguageJobs
  /\ answer = <<>>

Answer(kind, what) ==
  /\ job.kind = kind /\ answer = <<>>
  /\ answer' = <<what>>
  /\ UNCHANGED job

ChooseDevice == Answer("scan", Choice(job.advs, job.mac, job.way))
BuildRequest == Answer("request", Build(job.setting, job.value))
BuildRead    == Answer("read", IF IsRead(job.op) THEN ReadQuery(job.op, <<0>>) ELSE Refused)
Name         == Answer("named", NamedOperation(job.name))
Conclude     == Answer("reply", [states   |-> {ReadAny(job.said.frame), ReadBattery(job.said.frame),
                                               ReadPosition(job.said.frame), Status(job.said.frame)},
                                 settings |-> Settings(job.said.frame)])
Notice       == Answer("push", [states   |-> {OnState(job.said.frame), OnEvent(job.said.frame)},
                                settings |-> NoSetting])
Observe      == Answer("window", Observed([i \in DOMAIN job.said |-> job.said[i].frame]))
PrepareOta   == Answer("language", Prepare(job.payload, job.language, job.served, job.verify))

Next == ChooseDevice \/ BuildRequest \/ BuildRead \/ Name \/ Conclude \/ Notice \/ Observe
        \/ PrepareOta

Spec == Init /\ [][Next]_vars
-----------------------------------------------------------------------------
(* What the answers must be.                                               *)

Answered(kind) == answer # <<>> /\ job.kind = kind
Got1 == answer[1]

\* The advertisements of an address that the scan heard before it stopped, of
\* those that have a reason to be the lock's, and the last of them.
AsksFor == IF job.way = "address" THEN job.mac ELSE AnyAddress
HeardOf(a) == { i \in Heard(job.advs, AsksFor) :
                  job.advs[i].addr = a /\ (job.way = "address" \/ job.advs[i].signs # {}) }
LastOf(a) == job.advs[Max(HeardOf(a))]
Shows(adv) == adv.signs \cap {"name", "service"} # {}
Rank(adv) == (IF "name" \in adv.signs THEN 4 ELSE 0) + (IF "service" \in adv.signs THEN 2 ELSE 0)
             + (IF "manufacturer" \in adv.signs THEN 1 ELSE 0)

\* The device that is picked is the one asked for, or shows more than its
\* manufacturer and more than every other device heard before the scan stopped:
\* of those, none is picked because it was louder or came first.  A neighbour
\* heard first is picked all the same when the lock advertises only after the
\* stop that the neighbour armed (select_preferred, _early_stop).
RightLock ==
  Answered("scan") /\ Got1.kind = "picked" =>
    LET a == Got1.addr IN
    /\ HeardOf(a) # {}
    /\ job.way \in {"address", "select"} => a = job.mac
    /\ job.way # "address" => Shows(LastOf(a))
    /\ job.way = "connect" =>
         \A b \in Addresses \ {a} :
           HeardOf(b) # {} /\ Shows(LastOf(b)) => Rank(LastOf(a)) > Rank(LastOf(b))

\* A lock that was heard is missed only because what it showed last is no more
\* than its manufacturer, or because two devices show just as much and none
\* more: the order of two devices and their strength lose none (found,
\* select_preferred).
MissedForAReason ==
  Answered("scan") /\ Got1.kind # "picked" =>
    LET wanted == IF job.way = "connect" THEN Addresses ELSE {job.mac} IN
    /\ job.way = "address" => HeardOf(job.mac) = {}
    /\ Got1.kind = "no device" /\ job.way # "address" =>
         \A a \in wanted : HeardOf(a) # {} => ~Shows(LastOf(a))
    /\ Got1.kind = "ambiguous" =>
         job.way = "connect"
         /\ \E a, b \in Addresses :
              /\ a # b /\ HeardOf(a) # {} /\ HeardOf(b) # {}
              /\ Shows(LastOf(a)) /\ Shows(LastOf(b)) /\ Rank(LastOf(a)) = Rank(LastOf(b))
              /\ \A c \in Addresses :
                   HeardOf(c) # {} /\ Shows(LastOf(c)) => Rank(LastOf(c)) <= Rank(LastOf(a))

\* The frames of two requests are never the same, so the lock cannot take one
\* setting for another: every accepted value fits in the bytes sent, and no
\* read's frame is that of a request nor has the opcode of one, but for the
\* opcodes 2 and 3 that read and set.  A name gives the command it names, or
\* none (lock_ops.py, system_read_opcodes).
RequestsStayApart ==
  LET Requests == { j \in RequestJobs : Build(j.setting, j.value) # Refused } IN
  /\ Answered("request") =>
       /\ \A i \in DOMAIN Got1 : Got1[i] \in Byte
       /\ \A j \in Requests : Got1 = Build(j.setting, j.value) => j = job
  /\ Answered("read") /\ Got1 # Refused =>
       \A j \in Requests :
         /\ Got1 # Build(j.setting, j.value)
         /\ job.op = Build(j.setting, j.value)[1] => job.op \in {2, 3}
  /\ Answered("named") =>
       /\ \A j \in Requests :
            Got1 = Build(j.setting, j.value) =>
              <<job.name, j.setting, j.value>> \in {<<"unlock", "open", 1>>, <<"lock", "close", 1>>}
       /\ Got1 = Refused <=> job.name \in {"legacy", "74010100b917"}

\* Nothing is concluded of the bolt or of the battery but what is true of the
\* lock, whichever call a frame reaches; and what a frame tells reaches the
\* call it is for: a read its reply, the listen window an event.  The position
\* operate reports is that of the last event (lock_state.py).
ConclusionsAreTrue ==
  /\ Answered("reply") \/ Answered("push") =>
       /\ \A c \in Got1.states :
            c.locked \subseteq job.said.locked /\ c.battery \subseteq job.said.battery
       /\ \A s \in DOMAIN NoSetting : Got1.settings[s] \subseteq job.said.settings[s]
  /\ Answered("reply") /\ job.said \notin Pushes(Noise) =>
       /\ State(job.said.locked, job.said.battery) \in Got1.states
       /\ Got1.settings = job.said.settings
  /\ Answered("push") /\ job.said \in Pushes(Noise) =>
       State(job.said.locked, job.said.battery) \in Got1.states
  /\ Answered("window") =>
       LET telling == { i \in DOMAIN job.said : job.said[i] \in PositionPushes(Noise) } IN
       Got1 = UNION { job.said[i].locked : i \in { n \in telling : \A m \in telling : m <= n } }

\* What the lock puts together from pieces of a size, the last one perhaps shorter.
Whole(pieces, size) ==
  LET last == Len(pieces) IN
  [p \in 1 .. IF last = 0 THEN 0 ELSE size * (last - 1) + Len(pieces[last]) |->
     pieces[((p - 1) \div size) + 1][((p - 1) % size) + 1]]

\* The writes of a block without their prefix, the block's frame, and the image: all
\* writes but the last of a block are full, so the lock needs no mark between them.
Payloads(group) == [w \in DOMAIN group |-> Tail(group[w])]
Frames(plan) == [n \in DOMAIN plan.groups |-> Whole(Payloads(plan.groups[n]), MtuPayload)]
Image(plan) == Whole([n \in DOMAIN plan.groups |-> SubSeq(Frames(plan)[n], 4, BlockSize + 3)],
                     BlockSize)

\* The writes of one frame and no others.
WellCut(group) ==
  \A w \in DOMAIN group :
    /\ group[w][1] = \h11 /\ Len(group[w]) <= MtuPayload + 1
    /\ w < Len(group) => Len(group[w]) = MtuPayload + 1

\* A frame the lock accepts as the next: its marker is, and the check over block
\* and CRC is zero.
Accepts(n, frame) ==
  /\ Len(frame) = BlockSize + 5
  /\ frame[1] = 2 /\ frame[2] = n % SeqSize /\ (frame[2] + frame[3] + 1) % SeqSize = 0
  /\ Crc16Xmodem(SubSeq(frame, 4, Len(frame))) = 0

\* What is sent to the lock is what the list gives for the language, to the
\* last byte: one file answers to it, the md5 of the first row that answers
\* agrees if it has one, the lock accepts every block, the padded last one too,
\* and their content up to the declared size is what the CDN served; and a pack
\* is refused for its md5 only when that row's differs (change_language).
PackArrives ==
  Answered("language") =>
    LET hits == { i \in DOMAIN job.payload.rows :
                    job.payload.rows[i].files # "broken"
                    /\ job.language \in {job.payload.rows[i].lang, job.payload.rows[i].name,
                                         job.payload.rows[i].code} }
        files == { job.payload.rows[i].file : i \in hits }
        first == job.payload.rows[Min(hits)]
        listed == job.payload.code \in {"0", "none"}
    IN
    IF Got1.ok
    THEN LET plan == Got1.what.plan IN
         /\ listed /\ files = {Got1.what.file}
         /\ job.verify => first.md5 \in {NoMd5, job.served}
         /\ \A n \in DOMAIN plan.groups :
              WellCut(plan.groups[n]) /\ Accepts(n, Frames(plan)[n])
         /\ plan.size = Len(job.served) /\ SubSeq(Image(plan), 1, plan.size) = job.served
    ELSE CASE Got1.why = "code"      -> ~listed
           [] Got1.why = "no pack"   -> hits = {} \/ job.payload.result = "other"
           [] Got1.why = "ambiguous" -> \E f, g \in files : f # g
           [] Got1.why = "md5"       -> /\ hits # {} /\ job.verify
                                        /\ first.md5 \notin {NoMd5, job.served}
=============================================================================
