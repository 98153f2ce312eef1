------------------------- MODULE VoicePackOtaProofs -------------------------
(***************************************************************************)
(* The voice-pack transfer never sends a block that is not of the pack,    *)
(* keeps its window, stays within reach of what the lock has accepted and  *)
(* reports only real stalls, for every pack, window, resume position and   *)
(* behaviour of the lock and the link; undisturbed, it succeeds.           *)
(***************************************************************************)
EXTENDS VoicePackOta, FiniteSets, SequenceTheorems, FiniteSetTheorems, TLAPS

-----------------------------------------------------------------------------
(* The inductive invariant.                                                *)

\* No block in s is beyond the first k.
UpTo(s, k) == \A i \in 1 .. Len(s) : s[i].kind = "block" => s[i].n <= k

\* base_ack is an earlier value of the count of acknowledgements.
BaseIsPast == baseAck <= blockack

\* What is sent beyond resume_from is within the window of the acknowledgements
\* counted since base_ack.
WindowKept == phase = "stream" /\ gi > resumeFrom => gi <= confirmed + Window

\* What is under way, and what the lock has, was sent or skipped before.
OnlySent == UpTo(air, gi) /\ (accepted <= gi \/ accepted <= resumeFrom)

\* Streaming begins at resume_from, and nothing is sent before.
Begun == /\ phase \in {"stream", "finish", "await", "returned"} => gi >= resumeFrom
         /\ phase \in {"handshake", "resume", "initwait"} => gi = 0

\* The stalled block is the one the loop was about to send.
StallPoint == stalledAt # 0 => /\ stalledAt = gi + 1 /\ gi < NBlocks /\ gi >= resumeFrom
                               /\ phase \in {"finish", "await", "returned", "failed"}

IInv == TypeOK /\ BaseIsPast /\ WindowKept /\ OnlySent /\ Begun /\ StallPoint
-----------------------------------------------------------------------------
(* Facts about constants, frames and queues.                               *)

\* The constants are numbers and Booleans.
LEMMA Constants ==
  /\ NBlocks \in Nat /\ NBlocks > 0 /\ Window \in Nat /\ Window > 0 /\ Resumes \subseteq Nat
  /\ MaxResends \in Nat /\ MaxManifests \in Nat /\ MaxManifests > 0 /\ MaxFaults \in Nat
  /\ Starts \subseteq {"handshake", "resume"}
BY OtaConstantsOK DEF OtaConstantsOK

\* The control frames and the blocks of the pack are frames.
LEMMA FrameKinds ==
  /\ Control("manifest") \in Frames /\ Control("init") \in Frames /\ Control("commit") \in Frames
  /\ \A n \in 1 .. NBlocks : Block(n) \in Frames
  /\ \A k : Control(k).kind = k
  /\ \A n : Block(n).kind = "block" /\ Block(n).n = n
  /\ \A f \in Frames : f.n \in Int
<1>1. Control("manifest") \in Frames /\ Control("init") \in Frames /\ Control("commit") \in Frames
  BY DEF Frames
<1>2. \A n \in 1 .. NBlocks : Block(n) \in Frames
  BY DEF Frames
<1>3. /\ \A k : Control(k).kind = k /\ Control(k).n = 0
      /\ \A n : Block(n).kind = "block" /\ Block(n).n = n
  BY DEF Control, Block
<1>4. ASSUME NEW f \in Frames PROVE f.n \in Int
  <2>1. CASE \E k \in {"manifest", "init", "commit"} : f = Control(k)
    BY <1>3, <2>1
  <2>2. CASE \E n \in 1 .. NBlocks : f = Block(n)
    BY <1>3, <2>2, Constants
  <2> QED BY <1>4, <2>1, <2>2 DEF Frames
<1> QED BY <1>1, <1>2, <1>3, <1>4

\* Sending a frame of the pack's first k blocks keeps UpTo.
LEMMA SendKeeps ==
  ASSUME NEW s \in Seq(Frames), NEW f \in Frames, NEW k, UpTo(s, k),
         f.kind = "block" => f.n <= k
  PROVE  Append(s, f) \in Seq(Frames) /\ UpTo(Append(s, f), k)
<1>1. /\ Append(s, f) \in Seq(Frames) /\ Len(Append(s, f)) = Len(s) + 1
      /\ \A i \in 1 .. Len(s) : Append(s, f)[i] = s[i]
      /\ Append(s, f)[Len(s) + 1] = f
  BY AppendProperties
<1>2. Len(s) \in Nat
  BY LenProperties
<1>3. ASSUME NEW i \in 1 .. Len(s) + 1, Append(s, f)[i].kind = "block"
      PROVE  Append(s, f)[i].n <= k
  <2>1. CASE i = Len(s) + 1
    BY <1>1, <1>3, <2>1
  <2>2. CASE i # Len(s) + 1
    <3>1. i \in 1 .. Len(s)
      BY <1>2, <2>2
    <3> QED BY <1>1, <1>3, <3>1 DEF UpTo
  <2> QED BY <2>1, <2>2
<1> QED BY <1>1, <1>3 DEF UpTo

\* So does taking the first frame.
LEMMA TakeKeeps ==
  ASSUME NEW s \in Seq(Frames), s # <<>>, NEW k, UpTo(s, k)
  PROVE  /\ Head(s) \in Frames /\ Tail(s) \in Seq(Frames)
         /\ UpTo(Tail(s), k)
         /\ Head(s).kind = "block" => Head(s).n <= k
<1>1. /\ Head(s) \in Frames /\ Tail(s) \in Seq(Frames) /\ Len(Tail(s)) = Len(s) - 1
      /\ \A i \in 1 .. Len(Tail(s)) : Tail(s)[i] = s[i + 1]
  BY HeadTailProperties
<1>2. Len(s) \in Nat /\ Len(s) >= 1 /\ Head(s) = s[1]
  BY SMT
<1>3. Head(s).kind = "block" => Head(s).n <= k
  BY <1>2 DEF UpTo
<1>4. \A i \in 1 .. Len(Tail(s)) : i + 1 \in 1 .. Len(s)
  BY <1>1, <1>2
<1>5. UpTo(Tail(s), k)
  BY <1>1, <1>4 DEF UpTo
<1> QED BY <1>1, <1>3, <1>5

\* One more acknowledgement leaves a bound on the blocks sent true.
LEMMA OneMore ==
  ASSUME NEW g \in Nat, NEW a \in Nat, NEW b \in Nat, NEW w \in Nat,
         NEW x \in {a, a + 1}, g <= (a - b) + w
  PROVE  g <= (x - b) + w
OBVIOUS

\* A larger bound is a weaker one.
LEMMA MoreSent ==
  ASSUME NEW s \in Seq(Frames), NEW k \in Nat, NEW m \in Nat, k <= m, UpTo(s, k)
  PROVE  UpTo(s, m)
<1>1. ASSUME NEW i \in 1 .. Len(s), s[i].kind = "block"
      PROVE  s[i].n <= m
  <2>1. s[i].n <= k
    BY <1>1 DEF UpTo
  <2>2. s[i] \in Frames
    BY ElementOfSeq
  <2>3. s[i].n \in Int
    BY <2>2, FrameKinds
  <2> QED BY <2>1, <2>3
<1> QED BY <1>1 DEF UpTo
-----------------------------------------------------------------------------
(* The initial state and the steps of the main coroutine.                  *)

\* The transfer starts with nothing sent.
LEMMA InitInv == Init => IInv
<1> SUFFICES ASSUME Init PROVE IInv
  OBVIOUS
<1>1. air = <<>> /\ reports = <<>> /\ Len(air) = 0
  BY DEF Init
<1>2. air \in Seq(Frames) /\ reports \in Seq(Reports)
  BY <1>1, EmptySeq
<1>3. TypeOK
  <2>1. /\ phase \in Phases /\ status \in Statuses /\ receiver \in Receivers
        /\ heard \in BOOLEAN /\ manifestAcked \in BOOLEAN /\ linkUp \in BOOLEAN /\ calm \in BOOLEAN
    BY Constants DEF Init, Phases, Statuses, Receivers
  <2>2. present \in BOOLEAN
    BY Constants DEF Init
  <2>3. /\ manifests \in 0 .. MaxManifests /\ faults \in 0 .. MaxFaults
        /\ gi \in Nat /\ baseAck \in Nat /\ lastAck \in Nat /\ nakSeen \in Nat
        /\ resends \in Nat /\ stalledAt \in Nat /\ blockack \in Nat /\ nak \in Nat
        /\ accepted \in Nat /\ resumeFrom \in Nat
    BY Constants DEF Init
  <2> QED BY <1>2, <2>1, <2>2, <2>3 DEF TypeOK
<1>4. UpTo(air, gi)
  BY <1>1 DEF UpTo
<1>5. accepted <= gi \/ accepted <= resumeFrom
  BY Constants DEF Init
<1>6. BaseIsPast /\ WindowKept /\ Begun /\ StallPoint
  BY Constants DEF Init, BaseIsPast, WindowKept, Begun, StallPoint
<1> QED BY <1>3, <1>4, <1>5, <1>6 DEF IInv, OnlySent


\* Handshake, init frame and the start of the stream.
LEMMA HandshakeKeeps ==
  ASSUME IInv, SendManifest \/ SendInit \/ InitWaitEnds \/ Resume
  PROVE  IInv'
<1> USE DEF IInv, BaseIsPast, WindowKept, Begun, StallPoint, confirmed
<1>1. CASE SendManifest
  <2>1. air' \in Seq(Frames) /\ UpTo(air', gi)
    BY <1>1, SendKeeps, FrameKinds DEF SendManifest, Send, TypeOK, OnlySent
  <2>2. TypeOK'
    BY <1>1, <2>1, Constants DEF SendManifest, TypeOK, drainVars, lockVars
  <2>3. BaseIsPast' /\ WindowKept' /\ Begun' /\ StallPoint'
    BY <1>1 DEF SendManifest, TypeOK, drainVars, lockVars
  <2> QED BY <1>1, <2>1, <2>2, <2>3 DEF SendManifest, OnlySent, lockVars
<1>2. CASE SendInit
  <2>1. air' \in Seq(Frames) /\ UpTo(air', gi)
    BY <1>2, SendKeeps, FrameKinds DEF SendInit, Send, TypeOK, OnlySent
  <2>2. TypeOK'
    BY <1>2, <2>1 DEF SendInit, TypeOK, drainVars, lockVars, Phases
  <2>3. BaseIsPast' /\ WindowKept' /\ Begun' /\ StallPoint'
    BY <1>2 DEF SendInit, TypeOK, drainVars, lockVars
  <2> QED BY <1>2, <2>1, <2>2, <2>3 DEF SendInit, OnlySent, lockVars
<1>3. CASE InitWaitEnds \/ Resume
  <2>1. /\ StartStream
        /\ phase \in {"handshake", "resume", "initwait"}
        /\ UNCHANGED <<manifests, heard, nakSeen, resends, stalledAt,
                       drainVars, reports, air, linkUp, resumeFrom, calm, lockVars>>
    BY <1>3 DEF InitWaitEnds, Resume
  <2>2. TypeOK'
    BY <2>1, Constants DEF StartStream, TypeOK, drainVars, lockVars, Phases
  <2>3. BaseIsPast' /\ WindowKept' /\ Begun' /\ StallPoint'
    BY <2>1, Constants DEF StartStream, TypeOK, drainVars, lockVars
  <2>4. UpTo(air, resumeFrom)
    BY <2>1, MoreSent, Constants DEF TypeOK, OnlySent
  <2>5. UpTo(air, gi)'
    BY <2>1, <2>4 DEF StartStream, UpTo
  <2>6. (accepted <= gi \/ accepted <= resumeFrom)'
    BY <2>1, Constants DEF StartStream, OnlySent, TypeOK, lockVars
  <2> QED BY <2>2, <2>3, <2>5, <2>6 DEF OnlySent
<1> QED BY <1>1, <1>2, <1>3

\* One iteration of the streaming loop that sends a block.
LEMMA SendBlockKeeps == ASSUME IInv, SendBlock PROVE IInv'
<1> USE DEF IInv
<1>1. /\ phase = "stream" /\ gi < NBlocks /\ gi - confirmed < Window
      /\ gi' = gi + 1 /\ air' = Append(air, Block(gi + 1)) /\ lastAck' = blockack
      /\ gi \in Nat /\ blockack \in Nat /\ baseAck \in Nat /\ confirmed \in Int
  BY Constants DEF SendBlock, Streaming, Holding, Send, TypeOK, confirmed
<1>2. UpTo(air, gi + 1)
  BY <1>1, MoreSent DEF TypeOK, OnlySent
<1>3. Block(gi + 1) \in Frames /\ Block(gi + 1).n = gi + 1
  BY <1>1, FrameKinds, Constants
<1>4. air' \in Seq(Frames) /\ UpTo(air', gi + 1)
  BY <1>1, <1>2, <1>3, SendKeeps DEF TypeOK
<1>5. TypeOK'
  BY <1>1, <1>4 DEF SendBlock, TypeOK, drainVars, lockVars
<1>6. OnlySent'
  BY <1>1, <1>4, Constants DEF SendBlock, OnlySent, TypeOK, lockVars, UpTo
<1>7. BaseIsPast' /\ Begun' /\ StallPoint'
  BY <1>1, Constants DEF SendBlock, TypeOK, drainVars, BaseIsPast, Begun, StallPoint
<1>8. WindowKept'
  BY <1>1, Constants DEF SendBlock, WindowKept, drainVars, confirmed
<1> QED BY <1>5, <1>6, <1>7, <1>8

\* A retransmission is of a block already sent.
LEMMA ResendKeeps == ASSUME IInv, Resend PROVE IInv'
<1> USE DEF IInv
<1>1. /\ phase = "stream" /\ gi < NBlocks /\ gi - confirmed >= Window
      /\ gi \in Nat /\ blockack \in Nat /\ baseAck \in Nat /\ baseAck <= blockack
      /\ gi' = gi /\ lastAck' = blockack /\ resends' = resends + 1 /\ nakSeen' = nak
      /\ confirmed = blockack - baseAck
  BY DEF Resend, Streaming, Holding, TypeOK, confirmed, BaseIsPast
<1>2. confirmed + 1 \in 1 .. NBlocks /\ confirmed + 1 <= gi
  BY <1>1, Constants
<1>3. Block(confirmed + 1) \in Frames /\ Block(confirmed + 1).n = confirmed + 1
  BY <1>2, FrameKinds
<1>4. air' \in Seq(Frames) /\ UpTo(air', gi)
  BY <1>2, <1>3, SendKeeps DEF Resend, Send, TypeOK, OnlySent
<1>5. TypeOK'
  BY <1>1, <1>4 DEF Resend, TypeOK, drainVars, lockVars
<1>6. OnlySent'
  BY <1>1, <1>4 DEF Resend, OnlySent, lockVars, UpTo
<1>7. BaseIsPast' /\ Begun' /\ StallPoint' /\ WindowKept'
  BY <1>1 DEF Resend, TypeOK, drainVars, BaseIsPast, Begun, StallPoint, WindowKept, confirmed
<1> QED BY <1>5, <1>6, <1>7

\* The other steps of the main coroutine send no block.
LEMMA OtherSenderKeeps ==
  ASSUME IInv,
         HoldObserve \/ Stall \/ StreamEnds \/ WriteRaises \/ Interrupted \/ SendEnd \/ AwaitEnds
  PROVE  IInv'
<1> USE DEF IInv
<1>1. /\ manifests' = manifests /\ heard' = heard /\ gi' = gi /\ baseAck' = baseAck
      /\ nakSeen' = nakSeen /\ resends' = resends
      /\ UNCHANGED <<drainVars, reports, linkUp, resumeFrom, calm, lockVars>>
  BY DEF HoldObserve, Stall, StreamEnds, WriteRaises, Interrupted, SendEnd, AwaitEnds
<1>2. air' = air \/ air' = Append(air, Control("commit"))
  BY DEF HoldObserve, Stall, StreamEnds, WriteRaises, Interrupted, SendEnd, AwaitEnds, Send
<1>3. air' \in Seq(Frames) /\ UpTo(air', gi)
  BY <1>2, SendKeeps, FrameKinds DEF TypeOK, OnlySent
<1>4. lastAck' \in {lastAck, blockack}
  BY DEF HoldObserve, Stall, StreamEnds, WriteRaises, Interrupted, SendEnd, AwaitEnds
<1>5. \/ phase' = phase /\ stalledAt' = stalledAt
      \/ phase = "stream" /\ phase' = "finish" /\ stalledAt' = stalledAt
      \/ phase = "stream" /\ phase' = "finish" /\ stalledAt' = gi + 1 /\ gi < NBlocks
      \/ phase' = "failed" /\ stalledAt' = stalledAt
      \/ phase = "finish" /\ phase' = "await" /\ stalledAt' = stalledAt
      \/ phase = "await" /\ phase' = "returned" /\ stalledAt' = stalledAt
  BY DEF HoldObserve, Stall, StreamEnds, WriteRaises, Interrupted, SendEnd, AwaitEnds, Streaming
<1>6. phase' \in Phases /\ stalledAt' \in Nat /\ lastAck' \in Nat
  BY <1>4, <1>5 DEF TypeOK, Phases
<1>7. TypeOK'
  BY <1>1, <1>3, <1>6 DEF TypeOK, drainVars, lockVars
<1>8. OnlySent'
  BY <1>1, <1>3 DEF OnlySent, lockVars, UpTo
<1>9. BaseIsPast' /\ WindowKept'
  BY <1>1, <1>5 DEF BaseIsPast, WindowKept, confirmed, drainVars
<1>10. Begun' /\ StallPoint'
  BY <1>1, <1>5 DEF TypeOK, Begun, StallPoint
<1> QED BY <1>7, <1>8, <1>9, <1>10
-----------------------------------------------------------------------------
(* The drain coroutine, the lock and the link.                             *)

\* Counting a report only raises the counters.
LEMMA DrainKeeps == ASSUME IInv, Drain PROVE IInv'
<1> USE DEF IInv
<1>1. /\ Head(reports) \in Reports /\ reports' \in Seq(Reports)
      /\ UNCHANGED <<phase, manifests, gi, baseAck, lastAck, nakSeen, resends, stalledAt,
                     air, linkUp, resumeFrom, calm, lockVars>>
      /\ heard' = TRUE
  BY HeadTailProperties DEF Drain, TypeOK
<1>2. /\ blockack' \in {blockack, blockack + 1} /\ nak' \in {nak, nak + 1}
      /\ status' \in {status, "success", "abort"} /\ manifestAcked' \in BOOLEAN
  BY DEF Drain, TypeOK
<1>3. TypeOK'
  BY <1>1, <1>2 DEF TypeOK, Statuses, lockVars
<1>4. OnlySent'
  BY <1>1 DEF OnlySent, UpTo, lockVars
<1>5. Begun' /\ StallPoint'
  BY <1>1 DEF Begun, StallPoint
<1>6. BaseIsPast'
  BY <1>1, <1>2 DEF TypeOK, BaseIsPast
<1>7. WindowKept'
  <2>1. /\ phase' = phase /\ gi' = gi /\ baseAck' = baseAck /\ resumeFrom' = resumeFrom
        /\ gi \in Nat /\ blockack \in Nat /\ baseAck \in Nat /\ Window \in Nat
        /\ blockack' \in {blockack, blockack + 1}
    BY <1>1, <1>2, Constants DEF TypeOK
  <2>2. ASSUME phase = "stream", gi > resumeFrom
        PROVE  gi <= (blockack' - baseAck) + Window
    <3>1. gi <= (blockack - baseAck) + Window
      BY <2>2 DEF WindowKept, confirmed
    <3> QED BY <2>1, <3>1, OneMore
  <2> QED BY <2>1, <2>2 DEF WindowKept, confirmed
<1> QED BY <1>3, <1>4, <1>5, <1>6, <1>7

\* Nothing the lock and the link do can touch the sender's counters.
LEMMA SenderAlone ==
  ASSUME IInv, UNCHANGED <<senderVars, drainVars, resumeFrom>>
  PROVE  BaseIsPast' /\ WindowKept' /\ Begun' /\ StallPoint'
BY DEF IInv, BaseIsPast, WindowKept, Begun, StallPoint, confirmed, senderVars, drainVars

\* The lock has only what was sent.
LEMMA LockKeeps == ASSUME IInv, Lock PROVE IInv'
<1> USE DEF IInv
<1>1. PICK answer \in Seq(Reports) :
         /\ air # <<>> /\ air' = Tail(air) /\ reports' = reports \o answer
         /\ UNCHANGED <<senderVars, drainVars, linkUp, resumeFrom, calm>>
         /\ present' = present /\ receiver' \in Receivers /\ faults' \in 0 .. MaxFaults
         /\ \/ accepted' = accepted
            \/ accepted' = 0
            \/ /\ Head(air).kind = "block" /\ Head(air).n = accepted + 1
               /\ accepted' = accepted + 1
  <2>1. /\ \A r \in Reports : <<r>> \in Seq(Reports)
        /\ <<>> \in Seq(Reports) /\ <<"marker", "ack">> \in Seq(Reports)
    BY DEF Reports
  <2>2. CASE LockTakesManifest
    BY <2>1, <2>2 DEF LockTakesManifest, Takes, TypeOK, Receivers, Reports
  <2>3. CASE LockTakesInit
    BY <2>1, <2>3 DEF LockTakesInit, Takes, TypeOK, Reports, lockVars
  <2>4. CASE LockTakesBlock
    BY <2>1, <2>4 DEF LockTakesBlock, Takes, TypeOK, Reports
  <2>5. CASE LockRefusesBlock
    <3>1. faults' \in 0 .. MaxFaults
      BY <2>5, Constants DEF LockRefusesBlock, TypeOK
    <3> QED BY <2>1, <2>5, <3>1 DEF LockRefusesBlock, Takes, TypeOK, Reports
  <2>6. CASE LockTakesCommit
    BY <2>1, <2>6 DEF LockTakesCommit, Takes, TypeOK, Receivers, Reports
  <2>7. CASE LockIgnores
    BY <2>1, <2>7 DEF LockIgnores, Takes, TypeOK, lockVars
  <2> QED BY <2>2, <2>3, <2>4, <2>5, <2>6, <2>7 DEF Lock
<1>3. /\ air' \in Seq(Frames) /\ UpTo(air', gi)
      /\ Head(air) \in Frames
      /\ Head(air).kind = "block" => Head(air).n <= gi
  BY <1>1, TakeKeeps DEF TypeOK, OnlySent
<1>4. reports' \in Seq(Reports)
  BY <1>1, ConcatProperties DEF TypeOK
<1>5. accepted' \in Nat /\ (accepted' <= gi \/ accepted' <= resumeFrom)
  BY <1>1, <1>3, Constants DEF TypeOK, OnlySent
<1>6. TypeOK'
  BY <1>1, <1>3, <1>4, <1>5 DEF TypeOK, senderVars, drainVars
<1>7. OnlySent'
  BY <1>1, <1>3, <1>5 DEF OnlySent, UpTo, senderVars
<1> QED BY <1>1, <1>6, <1>7, SenderAlone

\* An abort by the lock, a touch of the keypad, a dropped link.
LEMMA OutsideKeeps ==
  ASSUME IInv, LockAborts \/ KeypadTouched \/ LinkDrops
  PROVE  IInv'
<1> USE DEF IInv
<1>1. /\ UNCHANGED <<senderVars, drainVars, resumeFrom>>
      /\ accepted' = accepted /\ faults' = faults
  BY DEF LockAborts, KeypadTouched, LinkDrops, lockVars
<1>2. air' \in Seq(Frames) /\ UpTo(air', gi)
  <2>1. air' = air \/ air' = <<>>
    BY DEF LockAborts, KeypadTouched, LinkDrops
  <2>2. CASE air' = <<>>
    BY <2>2 DEF UpTo
  <2> QED BY <2>1, <2>2 DEF TypeOK, OnlySent
<1>3. reports' \in Seq(Reports)
  <2>1. CASE LockAborts
    BY <2>1, AppendProperties DEF LockAborts, TypeOK, Reports
  <2>2. CASE KeypadTouched
    BY <2>2 DEF KeypadTouched, TypeOK
  <2>3. CASE LinkDrops
    <3>1. PICK n \in 0 .. Len(reports) : reports' = SubSeq(reports, 1, n)
      BY <2>3 DEF LinkDrops
    <3>2. n \in Int /\ \A i \in 1 .. n : reports[i] \in Reports
      BY <3>1, ElementOfSeq, LenProperties DEF TypeOK
    <3> QED BY <3>1, <3>2, SubSeqProperties
  <2> QED BY <2>1, <2>2, <2>3
<1>4. present' \in BOOLEAN /\ receiver' \in Receivers /\ linkUp' \in BOOLEAN /\ calm' \in BOOLEAN
  BY DEF LockAborts, KeypadTouched, LinkDrops, TypeOK, Receivers, lockVars
<1>5. TypeOK'
  BY <1>1, <1>2, <1>3, <1>4 DEF TypeOK, senderVars, drainVars
<1>6. OnlySent'
  BY <1>1, <1>2 DEF OnlySent, UpTo, senderVars
<1> QED BY <1>1, <1>5, <1>6, SenderAlone
-----------------------------------------------------------------------------
(* The theorems.                                                           *)

\* Every step keeps the inductive invariant.
LEMMA StepInv == IInv /\ [Next]_vars => IInv'
<1> SUFFICES ASSUME IInv, [Next]_vars PROVE IInv'
  OBVIOUS
<1>1. CASE Sender \/ Interrupted
  BY <1>1, HandshakeKeeps, SendBlockKeeps, ResendKeeps, OtherSenderKeeps DEF Sender
<1>2. CASE Drain
  BY <1>2, DrainKeeps
<1>3. CASE Lock
  BY <1>3, LockKeeps
<1>4. CASE LockAborts \/ KeypadTouched \/ LinkDrops
  BY <1>4, OutsideKeeps
<1>5. CASE UNCHANGED vars
  <2>1. UNCHANGED <<senderVars, drainVars, reports, air, linkUp, resumeFrom, calm, lockVars>>
    BY <1>5 DEF vars
  <2>2. TypeOK'
    BY <2>1 DEF IInv, TypeOK, senderVars, drainVars, lockVars
  <2>3. OnlySent'
    BY <2>1 DEF IInv, OnlySent, UpTo, senderVars, lockVars
  <2> QED BY <2>1, <2>2, <2>3, SenderAlone DEF IInv
<1> QED BY <1>1, <1>2, <1>3, <1>4, <1>5 DEF Next, Finished

\* The invariant holds in every reachable state.
THEOREM Invariant == Spec => []IInv
<1> QED BY InitInv, StepInv, PTL DEF Spec

\* The types, and with them that every frame sent, also as a retransmission, is
\* one of the pack's (groups[gi], groups[confirmed] never out of range).
THEOREM TypeCorrect == Spec => []TypeOK
<1>1. IInv => TypeOK
  BY DEF IInv
<1> QED BY <1>1, Invariant, PTL

\* A reported stall is of a block of the pack that the lock has not accepted.
THEOREM StallsAreHonest == Spec => []StallIsHonest
<1>1. ASSUME IInv, stalledAt # 0 PROVE stalledAt \in accepted + 1 .. NBlocks
  <2>1. stalledAt = gi + 1 /\ gi < NBlocks /\ gi >= resumeFrom
    BY <1>1 DEF IInv, StallPoint, Begun
  <2>2. accepted <= gi
    BY <1>1, <2>1, Constants DEF IInv, OnlySent, TypeOK
  <2> QED BY <1>1, <2>1, <2>2, Constants DEF IInv, TypeOK
<1>2. IInv => StallIsHonest
  BY <1>1 DEF StallIsHonest
<1> QED BY <1>2, Invariant, PTL
-----------------------------------------------------------------------------
(* Counting the reports, and the init frames, under way.                   *)

\* How often f is in s, and whether g is what is counted.
Holds(s, f) == Cardinality({i \in 1 .. Len(s) : s[i] = f})
Is(g, f) == IF g = f THEN 1 ELSE 0

Places(s, f) == {i \in 1 .. Len(s) : s[i] = f}

\* A sequence holds a number of copies.
LEMMA PlacesFinite ==
  ASSUME NEW S, NEW s \in Seq(S), NEW f
  PROVE  /\ IsFiniteSet(Places(s, f)) /\ Holds(s, f) \in Nat
         /\ Holds(s, f) = Cardinality(Places(s, f))
<1>1. Len(s) \in Nat
  BY LenProperties
<1>2. IsFiniteSet(1 .. Len(s))
  BY <1>1, FS_Interval
<1>3. Places(s, f) \in SUBSET (1 .. Len(s))
  BY DEF Places
<1>4. IsFiniteSet(Places(s, f))
  BY <1>2, <1>3, FS_Subset
<1> QED BY <1>4, FS_CardinalityType DEF Holds, Places

\* What is put at the end counts once more.
LEMMA CountAppend ==
  ASSUME NEW S, NEW s \in Seq(S), NEW g \in S, NEW f
  PROVE  Holds(Append(s, g), f) = Holds(s, f) + Is(g, f)
<1> DEFINE n == Len(s) + 1
           t == Append(s, g)
<1>1. /\ t \in Seq(S) /\ Len(t) = n /\ t[n] = g /\ Len(s) \in Nat
      /\ \A i \in 1 .. Len(s) : t[i] = s[i]
  BY AppendProperties, LenProperties
<1>2. Places(t, f) = IF g = f THEN Places(s, f) \cup {n} ELSE Places(s, f)
  BY <1>1 DEF Places
<1>3. n \notin Places(s, f)
  BY <1>1 DEF Places
<1>4. Holds(t, f) = Cardinality(Places(t, f)) /\ Holds(s, f) = Cardinality(Places(s, f))
      /\ Holds(s, f) \in Nat
  BY <1>1, PlacesFinite
<1>5. CASE g = f
  <2>1. Cardinality(Places(s, f) \cup {n}) = Cardinality(Places(s, f)) + 1
    BY <1>3, PlacesFinite, FS_AddElement
  <2> QED BY <1>2, <1>4, <1>5, <2>1 DEF Is
<1>6. CASE g # f
  BY <1>2, <1>4, <1>6 DEF Is
<1> QED BY <1>5, <1>6

\* What is taken from the front counts once less.
LEMMA CountTail ==
  ASSUME NEW S, NEW s \in Seq(S), s # <<>>, NEW f
  PROVE  Holds(s, f) = Holds(Tail(s), f) + Is(Head(s), f)
<1> DEFINE t == Tail(s)
           P == Places(t, f)
           Q == Places(s, f) \ {1}
           up == [i \in P |-> i + 1]
<1>1. /\ t \in Seq(S) /\ Len(t) = Len(s) - 1 /\ Len(s) \in Nat \ {0} /\ s[1] = Head(s)
      /\ \A i \in 1 .. Len(t) : t[i] = s[i + 1]
  BY HeadTailProperties, LenProperties, EmptySeq
<1>2. \A i \in P : i \in Nat /\ i + 1 \in Q
  BY <1>1 DEF Places
<1>3. \A j \in Q : j - 1 \in P /\ (j - 1) + 1 = j
  BY <1>1 DEF Places
<1>4. up \in Bijection(P, Q)
  <2>1. up \in [P -> Q]
    BY <1>2
  <2>2. \A i, j \in P : up[i] = up[j] => i = j
    BY <1>2
  <2>3. \A j \in Q : \E i \in P : up[i] = j
    BY <1>3
  <2> QED BY <2>1, <2>2, <2>3 DEF Bijection, Injection, Surjection, IsInjective
<1>5. IsFiniteSet(P) /\ Holds(t, f) = Cardinality(P) /\ Holds(t, f) \in Nat
  BY <1>1, PlacesFinite
<1>6. Cardinality(Q) = Cardinality(P)
  BY <1>4, <1>5, FS_Bijection DEF ExistsBijection
<1>7. IsFiniteSet(Places(s, f)) /\ Holds(s, f) = Cardinality(Places(s, f))
      /\ Holds(s, f) \in Nat
  BY PlacesFinite
<1>8. Cardinality(Q) = IF 1 \in Places(s, f) THEN Holds(s, f) - 1 ELSE Holds(s, f)
  BY <1>7, FS_RemoveElement
<1>9. 1 \in Places(s, f) <=> Head(s) = f
  BY <1>1 DEF Places
<1> QED BY <1>5, <1>6, <1>7, <1>8, <1>9 DEF Is

\* What is nowhere in a sequence is not counted in it.
LEMMA CountNone ==
  ASSUME NEW s, NEW f, \A i \in 1 .. Len(s) : s[i] # f
  PROVE  Holds(s, f) = 0
<1>1. Places(s, f) = {}
  BY DEF Places
<1> QED BY <1>1, FS_EmptySet DEF Holds, Places

\* What is not counted in a sequence is nowhere in it.
LEMMA NoneCounted ==
  ASSUME NEW S, NEW s \in Seq(S), NEW f, Holds(s, f) = 0
  PROVE  \A i \in 1 .. Len(s) : s[i] # f
<1>1. Places(s, f) = {}
  BY PlacesFinite, FS_EmptySet
<1> QED BY <1>1 DEF Places

\* A prefix holds no more than the whole.
LEMMA CountPrefix ==
  ASSUME NEW S, NEW s \in Seq(S), NEW n \in 0 .. Len(s), NEW f
  PROVE  /\ SubSeq(s, 1, n) \in Seq(S)
         /\ Holds(SubSeq(s, 1, n), f) <= Holds(s, f)
         /\ \A i \in 1 .. Len(SubSeq(s, 1, n)) : i \in 1 .. Len(s) /\ SubSeq(s, 1, n)[i] = s[i]
<1> DEFINE t == SubSeq(s, 1, n)
<1>1. n \in Int /\ Len(s) \in Nat /\ n <= Len(s) /\ \A i \in 1 .. n : s[i] \in S
  BY LenProperties, ElementOfSeq
<1>2. t \in Seq(S) /\ Len(t) = n /\ \A i \in 1 .. n : t[i] = s[i]
  BY <1>1, SubSeqProperties
<1> HIDE DEF t
<1>3. \A i \in 1 .. Len(t) : i \in 1 .. Len(s) /\ t[i] = s[i]
  BY <1>1, <1>2
<1>4. Places(t, f) \in SUBSET Places(s, f)
  BY <1>3 DEF Places
<1>5. Cardinality(Places(t, f)) <= Cardinality(Places(s, f))
  BY <1>4, PlacesFinite, FS_Subset
<1>6. Holds(t, f) = Cardinality(Places(t, f)) /\ Holds(s, f) = Cardinality(Places(s, f))
  BY <1>2, PlacesFinite
<1> QED BY <1>2, <1>3, <1>5, <1>6 DEF t

\* One report put behind a sequence is appended to it.
LEMMA BehindIsAppend ==
  ASSUME NEW S, NEW s \in Seq(S), NEW g \in S
  PROVE  s \o <<g>> = Append(s, g) /\ s \o <<>> = s
<1>1. s \o <<>> = s
  BY ConcatEmptySeq
<1>2. <<g>> \in Seq(S) /\ Len(<<g>>) = 1 /\ <<g>>[1] = g
  OBVIOUS
<1>3. s \o <<g>> = Append(s, g)
  <2>1. /\ s \o <<g>> \in Seq(S) /\ Len(s \o <<g>>) = Len(s) + 1
        /\ \A i \in 1 .. Len(s) + 1 :
              (s \o <<g>>)[i] = IF i <= Len(s) THEN s[i] ELSE <<g>>[i - Len(s)]
    BY <1>2, ConcatProperties
  <2>2. /\ Append(s, g) \in Seq(S) /\ Len(Append(s, g)) = Len(s) + 1
        /\ \A i \in 1 .. Len(s) : Append(s, g)[i] = s[i]
        /\ Append(s, g)[Len(s) + 1] = g /\ Len(s) \in Nat
    BY AppendProperties, LenProperties
  <2>3. ASSUME NEW i \in 1 .. Len(s) + 1 PROVE (s \o <<g>>)[i] = Append(s, g)[i]
    <3>1. CASE i <= Len(s)
      BY <2>1, <2>2, <3>1
    <3>2. CASE ~(i <= Len(s))
      <4>1. i = Len(s) + 1 /\ i - Len(s) = 1
        BY <2>2, <3>2
      <4> QED BY <1>2, <2>1, <2>2, <3>2, <4>1
    <3> QED BY <3>1, <3>2
  <2> QED BY <2>1, <2>2, <2>3, SeqEqual
<1> QED BY <1>1, <1>3

\* How many acknowledgements the lock's answers add.
LEMMA AnswersCount ==
  ASSUME TypeOK
  PROVE  /\ Holds(reports, "ack") \in Nat
         /\ Holds(reports \o <<>>, "ack") = Holds(reports, "ack")
         /\ \A r \in Reports \ {"ack"} : Holds(reports \o <<r>>, "ack") = Holds(reports, "ack")
         /\ Holds(reports \o <<"ack">>, "ack") = Holds(reports, "ack") + 1
         /\ Holds(reports \o <<"marker", "ack">>, "ack") = Holds(reports, "ack") + 1
<1>1. reports \in Seq(Reports) /\ "ack" \in Reports /\ "marker" \in Reports
  BY DEF TypeOK, Reports
<1>2. ASSUME NEW r \in Reports, NEW s \in Seq(Reports)
      PROVE  Holds(s \o <<r>>, "ack") = Holds(s, "ack") + Is(r, "ack") /\ s \o <<r>> \in Seq(Reports)
  <2>1. s \o <<r>> = Append(s, r)
    BY BehindIsAppend
  <2>2. Holds(Append(s, r), "ack") = Holds(s, "ack") + Is(r, "ack")
    BY CountAppend
  <2>3. Append(s, r) \in Seq(Reports)
    BY AppendProperties
  <2> QED BY <2>1, <2>2, <2>3
<1>3. Holds(reports, "ack") \in Nat
  BY <1>1, PlacesFinite
<1>4. ASSUME NEW r \in Reports \ {"ack"}
      PROVE  Holds(reports \o <<r>>, "ack") = Holds(reports, "ack")
  <2>1. Holds(reports \o <<r>>, "ack") = Holds(reports, "ack") + Is(r, "ack")
    BY <1>1, <1>2
  <2>2. Is(r, "ack") = 0
    BY DEF Is
  <2> QED BY <1>3, <2>1, <2>2
<1>5. Is("ack", "ack") = 1 /\ Is("marker", "ack") = 0
  BY DEF Is
<1>6. Holds(reports \o <<"ack">>, "ack") = Holds(reports, "ack") + 1
  BY <1>1, <1>2, <1>5
<1>7. Holds(reports \o <<"marker", "ack">>, "ack") = Holds(reports, "ack") + 1
  <2>1. /\ <<"marker">> \in Seq(Reports) /\ <<"ack">> \in Seq(Reports)
        /\ <<"marker", "ack">> = <<"marker">> \o <<"ack">>
    BY <1>1
  <2>2. reports \o <<"marker", "ack">> = (reports \o <<"marker">>) \o <<"ack">>
    BY <1>1, <2>1, ConcatAssociative
  <2>3. /\ reports \o <<"marker">> \in Seq(Reports)
        /\ Holds(reports \o <<"marker">>, "ack") = Holds(reports, "ack") + Is("marker", "ack")
    BY <1>1, <1>2
  <2>4. Holds((reports \o <<"marker">>) \o <<"ack">>, "ack")
          = Holds(reports \o <<"marker">>, "ack") + Is("ack", "ack")
    BY <1>1, <1>2, <2>3
  <2>5. Holds(reports \o <<"marker">>, "ack") = Holds(reports, "ack")
    BY <1>3, <1>5, <2>3
  <2> QED BY <1>5, <2>2, <2>4, <2>5, Zenon
<1>8. reports \o <<>> = reports
  BY <1>1, BehindIsAppend
<1> QED BY <1>3, <1>4, <1>6, <1>7, <1>8
-----------------------------------------------------------------------------
(* Flow control: a budget of acknowledgements.                             *)

\* Until the init frame is sent the lock has no block, has acknowledged nothing
\* and has only manifests to come.
NothingYet ==
  phase = "handshake" =>
    /\ accepted = 0 /\ blockack = 0 /\ Holds(reports, "ack") = 0
    /\ \A i \in 1 .. Len(air) : air[i].kind = "manifest"

\* A manifest is behind no other frame, and finds a lock that has no block.
ManifestsFirst ==
  \A i, j \in 1 .. Len(air) : i < j /\ air[j].kind = "manifest" => air[i].kind = "manifest"
NoStaleManifest == \A i \in 1 .. Len(air) : air[i].kind = "manifest" => accepted = 0

\* Until streaming begins no acknowledgement is set aside.
BaseUnset == phase \in {"handshake", "resume", "initwait"} => baseAck = 0

\* What is counted since base_ack and what is under way is worth at most the
\* blocks accepted and the one init frame.
AckBudget ==
  confirmed + Holds(reports, "ack") + Holds(air, Control("init")) <= accepted + 1

\* The window, also after the loop has ended.
WindowEver == gi > resumeFrom => gi <= confirmed + Window

FlowInv == NothingYet /\ ManifestsFirst /\ NoStaleManifest /\ BaseUnset /\ AckBudget /\ WindowEver

\* The kinds tell the frames apart.
LEMMA FrameNames ==
  /\ \A f \in Frames : f.kind = "init" => f = Control("init")
  /\ Control("manifest") # Control("init") /\ Control("commit") # Control("init")
  /\ \A n : Block(n) # Control("init")
<1>1. \A k : Control(k).kind = k
  BY DEF Control
<1>2. \A n : Block(n).kind = "block"
  BY DEF Block
<1>3. ASSUME NEW f \in Frames, f.kind = "init" PROVE f = Control("init")
  <2>1. CASE \E k \in {"manifest", "init", "commit"} : f = Control(k)
    BY <1>1, <1>3, <2>1
  <2>2. CASE \E n \in 1 .. NBlocks : f = Block(n)
    BY <1>2, <1>3, <2>2
  <2> QED BY <2>1, <2>2 DEF Frames
<1> QED BY <1>1, <1>2, <1>3

\* The counts are numbers.
LEMMA CountsAre ==
  ASSUME TypeOK
  PROVE  /\ Holds(reports, "ack") \in Nat /\ Holds(air, Control("init")) \in Nat
         /\ confirmed \in Int /\ blockack \in Nat /\ baseAck \in Nat
         /\ gi \in Nat /\ accepted \in Nat /\ resumeFrom \in Nat /\ Window \in Nat
<1>1. Holds(reports, "ack") \in Nat /\ Holds(air, Control("init")) \in Nat
  BY PlacesFinite DEF TypeOK
<1> QED BY <1>1, Constants DEF TypeOK, confirmed

\* A block, or the commit, is put behind what is in the air; so is an init frame.
LEMMA AirGrows ==
  ASSUME TypeOK, NEW f \in Frames, f.kind # "manifest", ManifestsFirst, NoStaleManifest
  PROVE  LET t == Append(air, f) IN
         /\ \A i, j \in 1 .. Len(t) : i < j /\ t[j].kind = "manifest" => t[i].kind = "manifest"
         /\ \A i \in 1 .. Len(t) : t[i].kind = "manifest" => accepted = 0
         /\ Holds(t, Control("init")) = Holds(air, Control("init")) + Is(f, Control("init"))
<1> DEFINE t == Append(air, f)
<1>1. /\ Len(t) = Len(air) + 1 /\ t[Len(air) + 1] = f /\ Len(air) \in Nat
      /\ \A i \in 1 .. Len(air) : t[i] = air[i]
  BY AppendProperties, LenProperties DEF TypeOK
<1>2. Holds(t, Control("init")) = Holds(air, Control("init")) + Is(f, Control("init"))
  BY CountAppend DEF TypeOK
<1> HIDE DEF t
<1>3. ASSUME NEW j \in 1 .. Len(t), t[j].kind = "manifest"
      PROVE  j \in 1 .. Len(air) /\ t[j] = air[j]
  BY <1>1, <1>3
<1>4. ASSUME NEW i \in 1 .. Len(t), NEW j \in 1 .. Len(t), i < j, t[j].kind = "manifest"
      PROVE  t[i].kind = "manifest"
  <2>1. j \in 1 .. Len(air) /\ t[j] = air[j]
    BY <1>3, <1>4
  <2>2. i \in 1 .. Len(air) /\ t[i] = air[i]
    BY <1>1, <1>4, <2>1
  <2> QED BY <1>4, <2>1, <2>2 DEF ManifestsFirst
<1>5. ASSUME NEW i \in 1 .. Len(t), t[i].kind = "manifest" PROVE accepted = 0
  BY <1>3, <1>5 DEF NoStaleManifest
<1> QED BY <1>2, <1>4, <1>5 DEF t

\* What follows the frame the lock takes.
LEMMA AirShrinks ==
  ASSUME TypeOK, air # <<>>, ManifestsFirst
  PROVE  /\ Head(air) \in Frames /\ Tail(air) \in Seq(Frames)
         /\ \A i \in 1 .. Len(Tail(air)) : i + 1 \in 1 .. Len(air) /\ Tail(air)[i] = air[i + 1]
         /\ \A i, j \in 1 .. Len(Tail(air)) :
               i < j /\ Tail(air)[j].kind = "manifest" => Tail(air)[i].kind = "manifest"
         /\ Head(air).kind # "manifest" =>
               \A i \in 1 .. Len(Tail(air)) : Tail(air)[i].kind # "manifest"
         /\ Holds(air, Control("init")) = Holds(Tail(air), Control("init"))
                                          + Is(Head(air), Control("init"))
         /\ Holds(Tail(air), Control("init")) \in Nat
<1> DEFINE t == Tail(air)
<1>1. /\ Head(air) \in Frames /\ t \in Seq(Frames) /\ Len(t) = Len(air) - 1
      /\ \A i \in 1 .. Len(t) : t[i] = air[i + 1]
      /\ Len(air) \in Nat \ {0} /\ Head(air) = air[1]
  BY HeadTailProperties, LenProperties, EmptySeq DEF TypeOK
<1>2. Holds(air, Control("init")) = Holds(t, Control("init")) + Is(Head(air), Control("init"))
  BY CountTail DEF TypeOK
<1>3. Holds(t, Control("init")) \in Nat
  BY <1>1, PlacesFinite
<1> HIDE DEF t
<1>4. \A i \in 1 .. Len(t) : i + 1 \in 1 .. Len(air) /\ t[i] = air[i + 1]
  BY <1>1
<1>5. ASSUME NEW i \in 1 .. Len(t), NEW j \in 1 .. Len(t), i < j, t[j].kind = "manifest"
      PROVE  t[i].kind = "manifest"
  <2>1. i + 1 \in 1 .. Len(air) /\ j + 1 \in 1 .. Len(air) /\ i + 1 < j + 1
    BY <1>1, <1>4, <1>5
  <2>2. t[i] = air[i + 1] /\ t[j] = air[j + 1]
    BY <1>4
  <2> QED BY <1>5, <2>1, <2>2 DEF ManifestsFirst
<1>6. ASSUME Head(air).kind # "manifest", NEW i \in 1 .. Len(t) PROVE t[i].kind # "manifest"
  <2>1. 1 \in 1 .. Len(air) /\ i + 1 \in 1 .. Len(air) /\ 1 < i + 1 /\ t[i] = air[i + 1]
    BY <1>1, <1>4
  <2> QED BY <1>1, <1>6, <2>1 DEF ManifestsFirst
<1> QED BY <1>1, <1>2, <1>3, <1>4, <1>5, <1>6 DEF t

\* Nothing is under way and nothing acknowledged at the start.
LEMMA InitFlow == Init => FlowInv
<1> SUFFICES ASSUME Init PROVE FlowInv
  OBVIOUS
<1>1. air = <<>> /\ reports = <<>> /\ gi = 0 /\ baseAck = 0 /\ blockack = 0 /\ confirmed = 0
  BY DEF Init, confirmed
<1>2. Holds(reports, "ack") = 0 /\ Holds(air, Control("init")) = 0
  BY <1>1, CountNone
<1>3. accepted \in Nat /\ resumeFrom \in Nat /\ (phase = "handshake" => accepted = 0)
  BY Constants DEF Init
<1>4. AckBudget /\ WindowEver /\ BaseUnset
  BY <1>1, <1>2, <1>3, Constants DEF AckBudget, WindowEver, BaseUnset
<1>5. NothingYet /\ ManifestsFirst /\ NoStaleManifest
  BY <1>1, <1>2, <1>3 DEF NothingYet, ManifestsFirst, NoStaleManifest
<1> QED BY <1>4, <1>5 DEF FlowInv

\* The steps of the main coroutine that put no manifest in the air: the place of
\* the manifests is undisturbed, and an init frame adds one to the budget.
LEMMA SenderFlow ==
  ASSUME TypeOK, FlowInv, accepted' = accepted, reports' = reports,
         NEW f \in Frames, f.kind # "manifest",
         air' = air \/ air' = Append(air, f)
  PROVE  /\ ManifestsFirst' /\ NoStaleManifest'
         /\ Holds(reports, "ack")' = Holds(reports, "ack")
         /\ Holds(air, Control("init"))' =
              IF air' = air THEN Holds(air, Control("init"))
                            ELSE Holds(air, Control("init")) + Is(f, Control("init"))
<1>1. ManifestsFirst /\ NoStaleManifest
  BY DEF FlowInv
<1>2. CASE air' = air
  BY <1>1, <1>2 DEF ManifestsFirst, NoStaleManifest
<1>3. CASE air' # air
  <2>1. air' = Append(air, f)
    BY <1>3
  <2>2. ManifestsFirst'
    BY <1>1, <2>1, AirGrows DEF ManifestsFirst
  <2>3. NoStaleManifest'
    BY <1>1, <2>1, AirGrows DEF NoStaleManifest
  <2>4. Holds(Append(air, f), Control("init")) = Holds(air, Control("init")) + Is(f, Control("init"))
    BY <1>1, AirGrows
  <2> QED BY <1>3, <2>1, <2>2, <2>3, <2>4
<1> QED BY <1>2, <1>3

\* Every manifest is sent to a lock that has taken no block.
LEMMA ManifestFlow == ASSUME IInv, FlowInv, SendManifest PROVE FlowInv'
<1> DEFINE f == Control("manifest")
<1>1. /\ TypeOK /\ phase = "handshake" /\ phase' = phase /\ air' = Append(air, f)
      /\ UNCHANGED <<gi, baseAck, blockack, reports, resumeFrom, accepted>>
  BY DEF IInv, SendManifest, Send, drainVars, lockVars
<1>2. /\ accepted = 0 /\ blockack = 0 /\ Holds(reports, "ack") = 0
      /\ \A i \in 1 .. Len(air) : air[i].kind = "manifest"
  BY <1>1 DEF FlowInv, NothingYet
<1>3. f \in Frames /\ f.kind = "manifest" /\ Is(f, Control("init")) = 0
  BY FrameKinds, FrameNames DEF Is
<1> HIDE DEF f
<1>4. /\ Len(air') = Len(air) + 1 /\ air'[Len(air) + 1] = f /\ Len(air) \in Nat
      /\ \A i \in 1 .. Len(air) : air'[i] = air[i]
  BY <1>1, <1>3, AppendProperties, LenProperties DEF TypeOK
<1>5. \A i \in 1 .. Len(air') : air'[i].kind = "manifest"
  BY <1>2, <1>3, <1>4
<1>6. Holds(air', Control("init")) = Holds(air, Control("init"))
  <2>1. Holds(Append(air, f), Control("init")) = Holds(air, Control("init")) + Is(f, Control("init"))
    BY <1>1, <1>3, CountAppend DEF TypeOK
  <2>2. Holds(Append(air, f), Control("init")) = Holds(air, Control("init"))
    BY <1>1, <1>3, <2>1, CountsAre
  <2> QED BY <1>1, <2>2
<1>7. Holds(reports', "ack") = 0
  BY <1>1, <1>2
<1>8. NothingYet' /\ ManifestsFirst' /\ NoStaleManifest'
  BY <1>1, <1>2, <1>5, <1>7 DEF NothingYet, ManifestsFirst, NoStaleManifest
<1>9. confirmed' = confirmed
  BY <1>1 DEF confirmed
<1>10. AckBudget'
  BY <1>1, <1>2, <1>6, <1>7, <1>9 DEF FlowInv, AckBudget
<1>11. BaseUnset' /\ WindowEver'
  BY <1>1, <1>9 DEF FlowInv, BaseUnset, WindowEver
<1> QED BY <1>8, <1>10, <1>11 DEF FlowInv

\* The init frame is sent on a budget that nothing has used.
LEMMA InitFrameFlow == ASSUME IInv, FlowInv, SendInit PROVE FlowInv'
<1> DEFINE f == Control("init")
<1>1. /\ TypeOK /\ phase = "handshake" /\ phase' = "initwait" /\ air' = Append(air, f)
      /\ UNCHANGED <<gi, baseAck, blockack, reports, resumeFrom, accepted>>
  BY DEF IInv, SendInit, Send, drainVars, lockVars
<1>2. /\ accepted = 0 /\ blockack = 0 /\ Holds(reports, "ack") = 0
      /\ \A i \in 1 .. Len(air) : air[i].kind = "manifest"
      /\ baseAck = 0
  BY <1>1 DEF FlowInv, NothingYet, BaseUnset
<1>3. f \in Frames /\ f.kind = "init" /\ Is(f, Control("init")) = 1 /\ f.kind # "manifest"
  BY FrameKinds DEF Is
<1>4. Holds(air, Control("init")) = 0
  <2>1. Control("init").kind # "manifest"
    BY FrameKinds
  <2>2. \A i \in 1 .. Len(air) : air[i] # Control("init")
    BY <1>2, <2>1
  <2> QED BY <2>2, CountNone
<1> HIDE DEF f
<1>5. /\ ManifestsFirst' /\ NoStaleManifest'
      /\ Holds(reports, "ack")' = Holds(reports, "ack")
      /\ \/ Holds(air, Control("init"))' = Holds(air, Control("init"))
         \/ Holds(air, Control("init"))' = Holds(air, Control("init")) + Is(f, Control("init"))
  BY <1>1, <1>3, SenderFlow
<1>6. Holds(reports, "ack")' = 0 /\ Holds(air, Control("init"))' \in {0, 1}
  BY <1>2, <1>3, <1>4, <1>5
<1>7. confirmed' = 0 /\ accepted' = 0
  BY <1>1, <1>2 DEF confirmed
<1>8. AckBudget'
  BY <1>6, <1>7 DEF AckBudget
<1>9. NothingYet' /\ BaseUnset' /\ WindowEver'
  <2>1. gi = 0 /\ resumeFrom \in Nat
    BY <1>1 DEF IInv, Begun, TypeOK
  <2> QED BY <1>1, <1>2, <2>1 DEF NothingYet, BaseUnset, WindowEver
<1> QED BY <1>5, <1>8, <1>9 DEF FlowInv

\* What was acknowledged before the stream begins is set aside.
LEMMA StreamFlow == ASSUME IInv, FlowInv, InitWaitEnds \/ Resume PROVE FlowInv'
<1>1. /\ TypeOK /\ phase' = "stream" /\ gi' = resumeFrom /\ baseAck' = blockack
      /\ UNCHANGED <<blockack, reports, air, resumeFrom, accepted>>
  BY DEF IInv, InitWaitEnds, Resume, StartStream, drainVars, lockVars
<1>2. baseAck <= blockack
  BY DEF IInv, BaseIsPast
<1>3. /\ Holds(reports, "ack")' = Holds(reports, "ack")
      /\ Holds(air, Control("init"))' = Holds(air, Control("init"))
  BY <1>1
<1>4. confirmed' = 0 /\ confirmed >= 0
  BY <1>1, <1>2 DEF confirmed, TypeOK
<1>5. confirmed + Holds(reports, "ack") + Holds(air, Control("init")) <= accepted + 1
  BY DEF FlowInv, AckBudget
<1>6. Holds(reports, "ack") + Holds(air, Control("init")) <= accepted + 1
  BY <1>1, <1>4, <1>5, CountsAre
<1>7. AckBudget'
  <2>1. confirmed' + Holds(reports, "ack") + Holds(air, Control("init")) <= accepted + 1
    BY <1>1, <1>4, <1>6, CountsAre
  <2> QED BY <1>1, <1>3, <2>1 DEF AckBudget
<1>8. WindowEver' /\ BaseUnset' /\ NothingYet'
  BY <1>1 DEF WindowEver, BaseUnset, NothingYet, TypeOK
<1>9. ManifestsFirst' /\ NoStaleManifest'
  BY <1>1 DEF FlowInv, ManifestsFirst, NoStaleManifest
<1> QED BY <1>7, <1>8, <1>9 DEF FlowInv

\* A block is sent only within the window; the rest of the main coroutine sends
\* blocks and the commit only.
LEMMA LoopFlow ==
  ASSUME IInv, FlowInv,
         \/ SendBlock \/ Resend \/ HoldObserve \/ Stall \/ StreamEnds \/ WriteRaises
         \/ Interrupted \/ SendEnd \/ AwaitEnds
  PROVE  FlowInv'
<1>1. /\ TypeOK /\ UNCHANGED <<baseAck, blockack, reports, resumeFrom, accepted>>
  BY DEF IInv, SendBlock, Resend, HoldObserve, Stall, StreamEnds, WriteRaises, Interrupted,
         SendEnd, AwaitEnds, drainVars, lockVars
<1>2. PICK f \in Frames : /\ f.kind # "manifest" /\ f # Control("init")
                          /\ air' = air \/ air' = Append(air, f)
  <2>1. CASE SendBlock
    <3>1. gi + 1 \in 1 .. NBlocks
      BY <2>1, Constants DEF IInv, TypeOK, SendBlock, Streaming
    <3> QED BY <2>1, <3>1, FrameKinds, FrameNames DEF SendBlock, Send
  <2>2. CASE Resend
    <3>1. confirmed + 1 \in 1 .. NBlocks
      BY <2>2, Constants DEF IInv, TypeOK, BaseIsPast, Resend, Streaming, Holding, confirmed
    <3> QED BY <2>2, <3>1, FrameKinds, FrameNames DEF Resend, Send
  <2>3. CASE SendEnd
    BY <2>3, FrameKinds, FrameNames DEF SendEnd, Send
  <2>4. CASE HoldObserve \/ Stall \/ StreamEnds \/ WriteRaises \/ Interrupted \/ AwaitEnds
    BY <2>4, FrameKinds, FrameNames
       DEF HoldObserve, Stall, StreamEnds, WriteRaises, Interrupted, AwaitEnds
  <2> QED BY <2>1, <2>2, <2>3, <2>4
<1>3. Is(f, Control("init")) = 0
  BY <1>2 DEF Is
<1>4. /\ ManifestsFirst' /\ NoStaleManifest'
      /\ Holds(reports, "ack")' = Holds(reports, "ack")
      /\ \/ Holds(air, Control("init"))' = Holds(air, Control("init"))
         \/ Holds(air, Control("init"))' = Holds(air, Control("init")) + Is(f, Control("init"))
  BY <1>1, <1>2, SenderFlow
<1>5. Holds(air, Control("init"))' = Holds(air, Control("init"))
  BY <1>1, <1>3, <1>4, CountsAre
<1>6. confirmed' = confirmed
  BY <1>1 DEF confirmed
<1>7. AckBudget'
  BY <1>1, <1>4, <1>5, <1>6 DEF FlowInv, AckBudget
<1>8. /\ phase' = "handshake" => FALSE
      /\ phase' \in {"resume", "initwait"} => FALSE
  BY DEF SendBlock, Resend, HoldObserve, Stall, StreamEnds, WriteRaises, Interrupted, SendEnd,
         AwaitEnds, Streaming
<1>9. WindowEver'
  <2>1. CASE gi' = gi
    BY <1>1, <1>6, <2>1 DEF FlowInv, WindowEver
  <2>2. CASE gi' # gi
    <3>1. gi' = gi + 1 /\ gi - confirmed < Window
      BY <1>1, <2>2, CountsAre
         DEF SendBlock, Resend, HoldObserve, Stall, StreamEnds, WriteRaises, Interrupted,
             SendEnd, AwaitEnds, Holding
    <3>2. gi' <= confirmed + Window
      BY <1>1, <3>1, CountsAre
    <3> QED BY <1>6, <3>2 DEF WindowEver
  <2> QED BY <2>1, <2>2
<1>10. NothingYet' /\ BaseUnset'
  BY <1>8 DEF NothingYet, BaseUnset
<1> QED BY <1>4, <1>7, <1>9, <1>10 DEF FlowInv

\* An acknowledgement counted is one less under way.
LEMMA DrainFlow == ASSUME IInv, FlowInv, Drain PROVE FlowInv'
<1> DEFINE r == Head(reports)
<1>1. /\ TypeOK /\ reports # <<>> /\ reports' = Tail(reports)
      /\ blockack' = IF r = "ack" THEN blockack + 1 ELSE blockack
      /\ UNCHANGED <<phase, gi, baseAck, air, resumeFrom, accepted>>
  BY DEF IInv, Drain, lockVars
<1>2. /\ Holds(reports, "ack") = Holds(Tail(reports), "ack") + Is(r, "ack")
      /\ Holds(Tail(reports), "ack") \in Nat
  <2>1. Tail(reports) \in Seq(Reports)
    BY <1>1, HeadTailProperties DEF TypeOK
  <2>2. Holds(Tail(reports), "ack") \in Nat
    BY <2>1, PlacesFinite
  <2>3. Holds(reports, "ack") = Holds(Tail(reports), "ack") + Is(r, "ack")
    BY <1>1, CountTail DEF TypeOK
  <2> QED BY <2>2, <2>3
<1>3. Is(r, "ack") \in {0, 1} /\ blockack' = blockack + Is(r, "ack")
  BY <1>1 DEF Is, TypeOK
<1> HIDE DEF r
<1>4. /\ Holds(reports', "ack") = Holds(Tail(reports), "ack")
      /\ Holds(reports, "ack")' = Holds(Tail(reports), "ack")
  BY <1>1
<1>5. Holds(air, Control("init"))' = Holds(air, Control("init"))
  BY <1>1
<1>6. confirmed' = confirmed + Is(r, "ack")
  BY <1>1, <1>3 DEF confirmed, TypeOK
<1>7. confirmed + Holds(reports, "ack") + Holds(air, Control("init")) <= accepted + 1
  BY DEF FlowInv, AckBudget
<1>8. confirmed' + Holds(Tail(reports), "ack") + Holds(air, Control("init")) <= accepted + 1
  <2>1. ASSUME NEW c \in Int, NEW b \in Nat, NEW x \in {0, 1}, NEW i \in Nat, NEW n \in Nat,
               c + (b + x) + i <= n
        PROVE  (c + x) + b + i <= n
    BY <2>1
  <2>2. /\ confirmed \in Int /\ Holds(air, Control("init")) \in Nat /\ accepted + 1 \in Nat
        /\ Holds(Tail(reports), "ack") \in Nat
    BY <1>1, <1>2, CountsAre
  <2>3. confirmed + (Holds(Tail(reports), "ack") + Is(r, "ack")) + Holds(air, Control("init"))
          <= accepted + 1
    BY <1>2, <1>7, Zenon
  <2>4. (confirmed + Is(r, "ack")) + Holds(Tail(reports), "ack") + Holds(air, Control("init"))
          <= accepted + 1
    BY <1>3, <2>1, <2>2, <2>3
  <2> QED BY <1>6, <2>4, Zenon
<1>9. AckBudget'
  BY <1>1, <1>4, <1>5, <1>8 DEF AckBudget
<1>10. NothingYet'
  <2> SUFFICES ASSUME phase = "handshake"
               PROVE  /\ accepted = 0 /\ blockack' = 0 /\ Holds(reports, "ack")' = 0
                      /\ \A i \in 1 .. Len(air) : air[i].kind = "manifest"
    BY <1>1 DEF NothingYet
  <2>1. /\ accepted = 0 /\ blockack = 0 /\ Holds(reports, "ack") = 0
        /\ \A i \in 1 .. Len(air) : air[i].kind = "manifest"
    BY DEF FlowInv, NothingYet
  <2>2. Is(r, "ack") = 0 /\ Holds(Tail(reports), "ack") = 0
    BY <1>2, <1>3, <2>1
  <2> QED BY <1>3, <1>4, <2>1, <2>2
<1>11. WindowEver'
  <2>1. gi > resumeFrom => gi <= confirmed + Window
    BY DEF FlowInv, WindowEver
  <2>2. gi > resumeFrom => gi <= confirmed' + Window
    BY <1>1, <1>3, <1>6, <2>1, CountsAre
  <2> QED BY <1>1, <2>2 DEF WindowEver
<1>12. ManifestsFirst' /\ NoStaleManifest' /\ BaseUnset'
  BY <1>1 DEF FlowInv, ManifestsFirst, NoStaleManifest, BaseUnset
<1> QED BY <1>9, <1>10, <1>11, <1>12 DEF FlowInv

\* Each acknowledgement of the lock is for a block it accepts or for the init
\* frame it takes.
LEMMA AcksAreEarned ==
  ASSUME IInv, FlowInv, Lock
  PROVE  /\ air # <<>> /\ air' = Tail(air)
         /\ UNCHANGED <<senderVars, drainVars, resumeFrom>>
         /\ accepted' = accepted \/ (Head(air).kind = "block" /\ accepted' = accepted + 1)
         /\ \/ Holds(reports', "ack") = Holds(reports, "ack")
            \/ /\ Holds(reports', "ack") = Holds(reports, "ack") + 1
               /\ \/ Head(air) = Control("init") /\ accepted' = accepted
                  \/ Head(air).kind = "block" /\ accepted' = accepted + 1
<1>1. TypeOK
  BY DEF IInv
<1>2. Head(air) \in Frames \/ air = <<>>
  BY <1>1, HeadTailProperties DEF TypeOK
<1>3. CASE LockTakesManifest
  <2>1. /\ air # <<>> /\ Head(air).kind = "manifest" /\ air' = Tail(air)
        /\ UNCHANGED <<senderVars, drainVars, resumeFrom>>
        /\ reports' = reports \o <<"info">> /\ accepted' = 0
    BY <1>3 DEF LockTakesManifest, Takes
  <2>2. accepted = 0
    <3>1. Head(air) = air[1] /\ 1 \in 1 .. Len(air)
      BY <1>1, <2>1 DEF TypeOK
    <3> QED BY <2>1, <3>1 DEF FlowInv, NoStaleManifest
  <2>3. Holds(reports \o <<"info">>, "ack") = Holds(reports, "ack")
    BY <1>1, AnswersCount DEF Reports
  <2> QED BY <2>1, <2>2, <2>3
<1>4. CASE LockTakesInit
  <2>1. /\ air # <<>> /\ Head(air).kind = "init" /\ air' = Tail(air)
        /\ UNCHANGED <<senderVars, drainVars, resumeFrom>> /\ accepted' = accepted
        /\ reports' = reports \o <<"ack">> \/ reports' = reports \o <<"marker", "ack">>
    BY <1>4 DEF LockTakesInit, Takes, lockVars
  <2>2. Head(air) = Control("init")
    BY <1>2, <2>1, FrameNames
  <2>3. Holds(reports', "ack") = Holds(reports, "ack") + 1
    BY <1>1, <2>1, AnswersCount
  <2> QED BY <2>1, <2>2, <2>3
<1>5. CASE LockTakesBlock
  <2>1. /\ air # <<>> /\ Head(air).kind = "block" /\ air' = Tail(air)
        /\ UNCHANGED <<senderVars, drainVars, resumeFrom>> /\ accepted' = accepted + 1
        /\ reports' = reports \o <<"ack">>
    BY <1>5 DEF LockTakesBlock, Takes
  <2>2. Holds(reports', "ack") = Holds(reports, "ack") + 1
    BY <1>1, <2>1, AnswersCount
  <2> QED BY <2>1, <2>2
<1>6. CASE LockRefusesBlock \/ LockTakesCommit \/ LockIgnores
  <2>1. /\ air # <<>> /\ air' = Tail(air)
        /\ UNCHANGED <<senderVars, drainVars, resumeFrom>> /\ accepted' = accepted
        /\ \/ reports' = reports \o <<>> \/ reports' = reports \o <<"nak">>
           \/ reports' = reports \o <<"success">> \/ reports' = reports \o <<"abort">>
    BY <1>6 DEF LockRefusesBlock, LockTakesCommit, LockIgnores, Takes, lockVars
  <2>2. Holds(reports', "ack") = Holds(reports, "ack")
    BY <1>1, <2>1, AnswersCount DEF Reports
  <2> QED BY <2>1, <2>2
<1> QED BY <1>3, <1>4, <1>5, <1>6 DEF Lock

\* The lock's steps keep the budget.
LEMMA LockFlow == ASSUME IInv, FlowInv, Lock PROVE FlowInv'
<1> DEFINE x == Is(Head(air), Control("init"))
<1>1. /\ TypeOK /\ air # <<>> /\ air' = Tail(air)
      /\ accepted' = accepted \/ (Head(air).kind = "block" /\ accepted' = accepted + 1)
      /\ UNCHANGED <<phase, gi, baseAck, blockack, resumeFrom>>
  BY AcksAreEarned DEF IInv, senderVars, drainVars
<1>2. /\ Head(air) \in Frames
      /\ \A i \in 1 .. Len(Tail(air)) : i + 1 \in 1 .. Len(air) /\ Tail(air)[i] = air[i + 1]
      /\ \A i, j \in 1 .. Len(Tail(air)) :
            i < j /\ Tail(air)[j].kind = "manifest" => Tail(air)[i].kind = "manifest"
      /\ Head(air).kind # "manifest" =>
            \A i \in 1 .. Len(Tail(air)) : Tail(air)[i].kind # "manifest"
  BY <1>1, AirShrinks DEF FlowInv
<1>3. /\ Holds(air, Control("init")) = Holds(Tail(air), Control("init")) + x
      /\ Holds(Tail(air), Control("init")) \in Nat /\ x \in {0, 1}
  BY <1>1, AirShrinks DEF FlowInv, Is
<1>4. Head(air) = Control("init") => x = 1
  BY DEF Is
<1> HIDE DEF x
<1>5. confirmed' = confirmed
  BY <1>1 DEF confirmed
<1>6. ManifestsFirst'
  BY <1>1, <1>2 DEF ManifestsFirst
<1>7. NoStaleManifest'
  <2>1. ASSUME NEW i \in 1 .. Len(Tail(air)), Tail(air)[i].kind = "manifest"
        PROVE  accepted' = 0
    <3>1. Head(air).kind = "manifest"
      BY <1>2, <2>1
    <3>2. accepted' = accepted
      BY <1>1, <3>1
    <3>3. accepted = 0
      BY <1>2, <2>1 DEF FlowInv, NoStaleManifest
    <3> QED BY <3>2, <3>3
  <2> QED BY <1>1, <2>1 DEF NoStaleManifest
<1>8. Holds(reports', "ack") + Holds(Tail(air), Control("init")) + accepted
        <= Holds(reports, "ack") + Holds(air, Control("init")) + accepted'
  <2>1. /\ Holds(reports, "ack") \in Nat /\ accepted \in Nat /\ accepted' \in {accepted, accepted + 1}
    BY <1>1, CountsAre
  <2>2. CASE Holds(reports', "ack") = Holds(reports, "ack")
    BY <1>3, <2>1, <2>2
  <2>3. CASE /\ Holds(reports', "ack") = Holds(reports, "ack") + 1
             /\ \/ Head(air) = Control("init") /\ accepted' = accepted
                \/ Head(air).kind = "block" /\ accepted' = accepted + 1
    <3>1. x + accepted' >= accepted + 1
      <4>1. x \in {0, 1} /\ accepted \in Nat
        BY <1>3, <2>1
      <4>2. (x = 1 /\ accepted' = accepted) \/ accepted' = accepted + 1
        BY <1>4, <2>3, Zenon
      <4> QED BY <4>1, <4>2
    <3>2. ASSUME NEW h \in Nat, NEW i \in Nat, NEW j \in Nat, NEW a \in Nat, NEW b \in Nat,
                 NEW y \in {0, 1}, i = j + y, y + b >= a + 1
          PROVE  (h + 1) + j + a <= h + i + b
      BY <3>2
    <3>3. accepted' \in Nat /\ Holds(air, Control("init")) \in Nat
      BY <1>1, <2>1, CountsAre
    <3>4. (Holds(reports, "ack") + 1) + Holds(Tail(air), Control("init")) + accepted
            <= Holds(reports, "ack") + Holds(air, Control("init")) + accepted'
      BY <1>3, <2>1, <3>1, <3>2, <3>3
    <3> QED BY <2>3, <3>4, Zenon
  <2> QED BY <2>2, <2>3, AcksAreEarned
<1>9. Holds(reports', "ack") \in Nat
  <2>1. reports' \in Seq(Reports)
    BY LockKeeps DEF IInv, TypeOK
  <2> QED BY <2>1, PlacesFinite
<1>10. AckBudget'
  <2>1. confirmed + Holds(reports, "ack") + Holds(air, Control("init")) <= accepted + 1
    BY DEF FlowInv, AckBudget
  <2>2. confirmed + Holds(reports', "ack") + Holds(Tail(air), Control("init")) <= accepted' + 1
    <3>1. ASSUME NEW c \in Int, NEW h \in Nat, NEW g \in Nat, NEW i \in Nat, NEW j \in Nat,
                 NEW a \in Nat, NEW b \in Nat,
                 c + h + i <= a + 1, g + j + a <= h + i + b
          PROVE  c + g + j <= b + 1
      BY <3>1
    <3>2. accepted' \in Nat
      BY <1>1, CountsAre
    <3>3. /\ confirmed \in Int /\ Holds(reports, "ack") \in Nat
          /\ Holds(air, Control("init")) \in Nat /\ accepted \in Nat
      BY <1>1, CountsAre
    <3> QED BY <1>3, <1>8, <1>9, <2>1, <3>1, <3>2, <3>3
  <2>3. Holds(air', Control("init")) = Holds(Tail(air), Control("init"))
    BY <1>1
  <2> QED BY <1>5, <2>2, <2>3 DEF AckBudget
<1>11. NothingYet'
  <2> SUFFICES ASSUME phase = "handshake"
               PROVE  /\ accepted' = 0 /\ blockack = 0 /\ Holds(reports', "ack") = 0
                      /\ \A i \in 1 .. Len(Tail(air)) : Tail(air)[i].kind = "manifest"
    BY <1>1 DEF NothingYet
  <2>1. /\ accepted = 0 /\ blockack = 0 /\ Holds(reports, "ack") = 0
        /\ \A i \in 1 .. Len(air) : air[i].kind = "manifest"
    BY DEF FlowInv, NothingYet
  <2>2. Head(air).kind = "manifest"
    <3>1. Head(air) = air[1] /\ 1 \in 1 .. Len(air)
      BY <1>1 DEF TypeOK
    <3> QED BY <2>1, <3>1
  <2>3. Head(air) # Control("init") /\ Head(air).kind # "block"
    BY <2>2, FrameKinds
  <2>4. accepted' = accepted /\ Holds(reports', "ack") = Holds(reports, "ack")
    BY <1>1, <2>3, AcksAreEarned
  <2>5. \A i \in 1 .. Len(Tail(air)) : Tail(air)[i].kind = "manifest"
    BY <1>2, <2>1
  <2> QED BY <2>1, <2>4, <2>5
<1>12. BaseUnset' /\ WindowEver'
  BY <1>1, <1>5 DEF FlowInv, BaseUnset, WindowEver
<1> QED BY <1>6, <1>7, <1>10, <1>11, <1>12 DEF FlowInv

\* What the link drops is out of the budget.
LEMMA OutsideFlow ==
  ASSUME IInv, FlowInv, LockAborts \/ KeypadTouched \/ LinkDrops
  PROVE  FlowInv'
<1>1. /\ TypeOK /\ UNCHANGED <<phase, gi, baseAck, blockack, resumeFrom, accepted>>
      /\ air' = air \/ air' = <<>>
  BY DEF IInv, LockAborts, KeypadTouched, LinkDrops, senderVars, drainVars, lockVars
<1>2. Holds(reports', "ack") \in Nat /\ Holds(reports', "ack") <= Holds(reports, "ack")
  <2>1. CASE LockAborts
    <3>1. reports' = Append(reports, "abort") /\ "abort" \in Reports
      BY <2>1 DEF LockAborts, Reports
    <3>2. Holds(Append(reports, "abort"), "ack") = Holds(reports, "ack") + Is("abort", "ack")
      BY <1>1, <3>1, CountAppend DEF TypeOK
    <3>3. Is("abort", "ack") = 0
      BY DEF Is
    <3>4. Holds(Append(reports, "abort"), "ack") = Holds(reports, "ack")
      BY <1>1, <3>2, <3>3, CountsAre
    <3> QED BY <1>1, <3>1, <3>4, CountsAre
  <2>2. CASE KeypadTouched
    BY <1>1, <2>2, CountsAre DEF KeypadTouched
  <2>3. CASE LinkDrops
    <3>1. PICK n \in 0 .. Len(reports) : reports' = SubSeq(reports, 1, n)
      BY <2>3 DEF LinkDrops
    <3>2. /\ SubSeq(reports, 1, n) \in Seq(Reports)
          /\ Holds(SubSeq(reports, 1, n), "ack") <= Holds(reports, "ack")
      BY <1>1, CountPrefix DEF TypeOK
    <3>3. Holds(SubSeq(reports, 1, n), "ack") \in Nat
      BY <3>2, PlacesFinite
    <3> QED BY <3>1, <3>2, <3>3
  <2> QED BY <2>1, <2>2, <2>3
<1>3. Holds(air', Control("init")) \in Nat /\ Holds(air', Control("init")) <= Holds(air, Control("init"))
  <2>1. CASE air' = air
    BY <1>1, <2>1, CountsAre
  <2>2. CASE air' = <<>>
    <3>1. Holds(<<>>, Control("init")) = 0
      BY CountNone
    <3> QED BY <1>1, <2>2, <3>1, CountsAre
  <2> QED BY <1>1, <2>1, <2>2
<1>4. confirmed' = confirmed
  BY <1>1 DEF confirmed
<1>5. AckBudget'
  <2>1. confirmed + Holds(reports, "ack") + Holds(air, Control("init")) <= accepted + 1
    BY DEF FlowInv, AckBudget
  <2>2. confirmed + Holds(reports', "ack") + Holds(air', Control("init")) <= accepted + 1
    BY <1>1, <1>2, <1>3, <2>1, CountsAre
  <2> QED BY <1>1, <1>4, <2>2 DEF AckBudget
<1>6. \A i \in 1 .. Len(air') : i \in 1 .. Len(air) /\ air'[i] = air[i]
  BY <1>1
<1>7. ManifestsFirst' /\ NoStaleManifest' /\ NothingYet'
  <2>1. \A i, j \in 1 .. Len(air') : i < j /\ air'[j].kind = "manifest" => air'[i].kind = "manifest"
    BY <1>6 DEF FlowInv, ManifestsFirst
  <2>2. \A i \in 1 .. Len(air') : air'[i].kind = "manifest" => accepted = 0
    BY <1>6 DEF FlowInv, NoStaleManifest
  <2>3. phase = "handshake" =>
          /\ accepted = 0 /\ blockack = 0 /\ Holds(reports', "ack") = 0
          /\ \A i \in 1 .. Len(air') : air'[i].kind = "manifest"
    BY <1>2, <1>6 DEF FlowInv, NothingYet
  <2> QED BY <1>1, <2>1, <2>2, <2>3 DEF ManifestsFirst, NoStaleManifest, NothingYet
<1>8. BaseUnset' /\ WindowEver'
  BY <1>1, <1>4 DEF FlowInv, BaseUnset, WindowEver
<1> QED BY <1>5, <1>7, <1>8 DEF FlowInv

\* Every step keeps the budget.
LEMMA StepFlow == IInv /\ FlowInv /\ [Next]_vars => FlowInv'
<1> SUFFICES ASSUME IInv, FlowInv, [Next]_vars PROVE FlowInv'
  OBVIOUS
<1>1. CASE Sender \/ Interrupted
  BY <1>1, ManifestFlow, InitFrameFlow, StreamFlow, LoopFlow DEF Sender
<1>2. CASE Drain
  BY <1>2, DrainFlow
<1>3. CASE Lock
  BY <1>3, LockFlow
<1>4. CASE LockAborts \/ KeypadTouched \/ LinkDrops
  BY <1>4, OutsideFlow
<1>5. CASE UNCHANGED vars
  <2>1. UNCHANGED <<phase, gi, baseAck, blockack, reports, air, resumeFrom, accepted>>
    BY <1>5 DEF vars, senderVars, drainVars, lockVars
  <2>2. confirmed' = confirmed
    BY <2>1 DEF confirmed
  <2>3. AckBudget' /\ NothingYet'
    BY <2>1, <2>2 DEF FlowInv, AckBudget, NothingYet
  <2>4. ManifestsFirst' /\ NoStaleManifest' /\ BaseUnset' /\ WindowEver'
    BY <2>1, <2>2 DEF FlowInv, ManifestsFirst, NoStaleManifest, BaseUnset, WindowEver
  <2> QED BY <2>3, <2>4 DEF FlowInv
<1> QED BY <1>1, <1>2, <1>3, <1>4, <1>5 DEF Next, Finished

\* The sender is never more than a window, and the one block a late
\* acknowledgement of the init frame is worth, ahead of what the lock has
\* accepted (ota.py:211-214, 280), for any pack, window, resume position, loss
\* and damage.
THEOREM FlowControlled == Spec => []FlowControl
<1>1. ASSUME IInv, FlowInv PROVE FlowControl
  <2> SUFFICES ASSUME gi > resumeFrom PROVE gi <= accepted + Window + 1
    BY <1>1 DEF FlowControl, IInv, TypeOK
  <2>1. gi <= confirmed + Window
    BY <1>1 DEF FlowInv, WindowEver
  <2>2. confirmed + Holds(reports, "ack") + Holds(air, Control("init")) <= accepted + 1
    BY <1>1 DEF FlowInv, AckBudget
  <2> QED BY <1>1, <2>1, <2>2, CountsAre DEF IInv
<1>2. Spec => []FlowInv
  <2>1. IInv /\ FlowInv /\ [Next]_vars => FlowInv'
    BY StepFlow
  <2> QED BY <2>1, InitFlow, Invariant, PTL DEF Spec
<1> QED BY <1>1, <1>2, Invariant, PTL
-----------------------------------------------------------------------------
(* A transfer from the first block, where all goes well.                   *)

\* What is in the air, e frames without the commit: what arms the transfer, then
\* the blocks a + 1 to g in order.
InOrderOf(s, e, g, a) ==
  /\ a <= g /\ g - a <= e
  /\ \A i \in 1 .. e : IF i > e - (g - a) THEN s[i] = Block(g - (e - i))
                                          ELSE s[i].kind \in {"manifest", "init"}
  /\ e # Len(s) => s[Len(s)].kind = "commit"

InAir == IF phase = "await" /\ receiver = "receiving" THEN Len(air) - 1 ELSE Len(air)

\* The lock gets the blocks in the order of the pack.
InOrder == InOrderOf(air, InAir, gi, accepted)

\* Nothing goes wrong.
Untroubled ==
  /\ linkUp /\ present /\ phase # "failed" /\ stalledAt = 0 /\ nak = 0 /\ nakSeen = 0
  /\ receiver # "aborted" /\ status # "abort"
  /\ \A i \in 1 .. Len(reports) : reports[i] \notin {"nak", "abort"}

\* The lock is idle until a manifest reaches it, and reports success once.
Stages ==
  /\ receiver = "idle" => /\ phase = "handshake" /\ reports = <<>> /\ ~manifestAcked
                          /\ manifests > 0 => air # <<>>
  /\ receiver # "complete" =>
       status = "none" /\ \A i \in 1 .. Len(reports) : reports[i] # "success"
  /\ receiver = "complete" =>
       /\ phase \in {"await", "returned"} /\ air = <<>>
       /\ status = "success" \/ \E i \in 1 .. Len(reports) : reports[i] = "success"
  /\ phase \in {"finish", "await", "returned"} => gi = NBlocks
  /\ phase = "returned" => status = "success"
  /\ gi <= NBlocks

\* Each block accepted is acknowledged, in the sender's count or under way.
AllCounted == confirmed + Holds(reports, "ack") >= accepted

Clean == calm /\ resumeFrom = 0
CleanInv == Clean => Untroubled /\ Stages /\ InOrder /\ AllCounted

\* The length of what is in the air: all of it, or all but the commit.
LEMMA InAirIs == ASSUME TypeOK PROVE Len(air) \in Nat /\ InAir \in {Len(air), Len(air) - 1}
BY LenProperties DEF TypeOK, InAir

\* What arms the transfer is sent before any block.
LEMMA ArmingInOrder ==
  ASSUME NEW s \in Seq(Frames), NEW g \in Nat, NEW f \in Frames, f.kind \in {"manifest", "init"},
         InOrderOf(s, Len(s), g, g)
  PROVE  InOrderOf(Append(s, f), Len(Append(s, f)), g, g)
<1> DEFINE t == Append(s, f)
<1>1. /\ Len(t) = Len(s) + 1 /\ t[Len(s) + 1] = f /\ Len(s) \in Nat
      /\ \A i \in 1 .. Len(s) : t[i] = s[i]
  BY AppendProperties, LenProperties
<1> HIDE DEF t
<1>2. \A i \in 1 .. Len(s) : s[i].kind \in {"manifest", "init"}
  BY <1>1 DEF InOrderOf
<1>3. \A i \in 1 .. Len(t) : t[i].kind \in {"manifest", "init"}
  BY <1>1, <1>2
<1>4. InOrderOf(t, Len(t), g, g)
  BY <1>1, <1>3 DEF InOrderOf
<1> QED BY <1>4 DEF t

\* The next block goes behind the others.
LEMMA BlockInOrder ==
  ASSUME NEW s \in Seq(Frames), NEW g \in Nat, NEW a \in Nat, Block(g + 1) \in Frames,
         InOrderOf(s, Len(s), g, a)
  PROVE  LET t == Append(s, Block(g + 1)) IN InOrderOf(t, Len(t), g + 1, a)
<1> DEFINE t == Append(s, Block(g + 1))
<1>1. /\ Len(t) = Len(s) + 1 /\ t[Len(s) + 1] = Block(g + 1) /\ Len(s) \in Nat
      /\ \A i \in 1 .. Len(s) : t[i] = s[i]
  BY AppendProperties, LenProperties
<1> HIDE DEF t
<1>2. a <= g + 1 /\ (g + 1) - a <= Len(t)
  BY <1>1 DEF InOrderOf
<1>3. ASSUME NEW i \in 1 .. Len(t)
      PROVE  IF i > Len(t) - ((g + 1) - a) THEN t[i] = Block((g + 1) - (Len(t) - i))
                                           ELSE t[i].kind \in {"manifest", "init"}
  <2>1. CASE i = Len(s) + 1
    <3>1. (g + 1) - (Len(t) - i) = g + 1 /\ i > Len(t) - ((g + 1) - a)
      BY <1>1, <2>1 DEF InOrderOf
    <3> QED BY <1>1, <2>1, <3>1
  <2>2. CASE i # Len(s) + 1
    <3>1. i \in 1 .. Len(s) /\ (g + 1) - (Len(t) - i) = g - (Len(s) - i)
          /\ Len(t) - ((g + 1) - a) = Len(s) - (g - a)
      BY <1>1, <2>2
    <3>2. t[i] = s[i]
      BY <1>1, <3>1
    <3>3. IF i > Len(s) - (g - a) THEN s[i] = Block(g - (Len(s) - i))
                                  ELSE s[i].kind \in {"manifest", "init"}
      BY <3>1 DEF InOrderOf
    <3> QED BY <3>1, <3>2, <3>3
  <2> QED BY <2>1, <2>2
<1>4. InOrderOf(t, Len(t), g + 1, a)
  BY <1>2, <1>3 DEF InOrderOf
<1> QED BY <1>4 DEF t

\* The commit goes behind all of them.
LEMMA CommitInOrder ==
  ASSUME NEW s \in Seq(Frames), NEW g \in Nat, NEW a \in Nat, NEW f \in Frames,
         f.kind = "commit", InOrderOf(s, Len(s), g, a)
  PROVE  InOrderOf(Append(s, f), Len(Append(s, f)) - 1, g, a)
<1> DEFINE t == Append(s, f)
<1>1. /\ Len(t) = Len(s) + 1 /\ t[Len(s) + 1] = f /\ Len(s) \in Nat
      /\ \A i \in 1 .. Len(s) : t[i] = s[i]
  BY AppendProperties, LenProperties
<1> HIDE DEF t
<1>2. Len(t) - 1 = Len(s) /\ t[Len(t)] = f
  BY <1>1
<1>3. InOrderOf(t, Len(s), g, a)
  BY <1>1, <1>2 DEF InOrderOf
<1>4. InOrderOf(t, Len(t) - 1, g, a)
  BY <1>2, <1>3
<1> QED BY <1>4 DEF t

\* What the lock finds at the front, by its kind.
LEMMA FrontInOrder ==
  ASSUME NEW s \in Seq(Frames), s # <<>>, NEW g \in Nat, NEW a \in Nat,
         NEW e \in {Len(s), Len(s) - 1}, InOrderOf(s, e, g, a)
  PROVE  /\ Head(s).kind \in {"manifest", "init"} => InOrderOf(Tail(s), e - 1, g, a)
         /\ Head(s).kind = "block" => /\ Head(s).n = a + 1
                                      /\ InOrderOf(Tail(s), e - 1, g, a + 1)
         /\ Head(s).kind = "commit" => e = 0 /\ Len(s) = 1 /\ g = a /\ Tail(s) = <<>>
<1> DEFINE t == Tail(s)
<1>1. /\ t \in Seq(Frames) /\ Len(t) = Len(s) - 1 /\ Len(s) \in Nat \ {0} /\ s[1] = Head(s)
      /\ \A i \in 1 .. Len(t) : t[i] = s[i + 1]
      /\ Len(t) = 0 => t = <<>>
  <2>1. /\ t \in Seq(Frames) /\ Len(t) = Len(s) - 1
        /\ \A i \in 1 .. Len(t) : t[i] = s[i + 1]
    BY HeadTailProperties
  <2>2. Len(s) \in Nat \ {0}
    BY LenProperties, EmptySeq
  <2>3. s[1] = Head(s)
    BY <2>2
  <2> HIDE DEF t
  <2>4. Len(t) = 0 => t = <<>>
    BY <2>1, EmptySeq
  <2> QED BY <2>1, <2>2, <2>3, <2>4
<1>2. /\ a <= g /\ g - a <= e /\ e \in Int /\ e >= 0
      /\ \A i \in 1 .. e : IF i > e - (g - a) THEN s[i] = Block(g - (e - i))
                                              ELSE s[i].kind \in {"manifest", "init"}
      /\ e # Len(s) => s[Len(s)].kind = "commit"
  BY <1>1 DEF InOrderOf
<1> HIDE DEF t
<1>3. \A n : Block(n).kind = "block" /\ Block(n).n = n
  BY FrameKinds
<1>4. e - 1 # Len(t) => e # Len(s)
  BY <1>1, <1>2
<1>5. ASSUME e >= 1, e - 1 # Len(t) PROVE t[Len(t)].kind = "commit"
  <2>1. Len(t) \in 1 .. Len(t) /\ Len(t) + 1 = Len(s)
    BY <1>1, <1>2, <1>5
  <2>2. t[Len(t)] = s[Len(s)]
    BY <1>1, <2>1
  <2> QED BY <1>2, <1>4, <1>5, <2>2
<1>6. ASSUME Head(s).kind \in {"manifest", "init"} PROVE InOrderOf(t, e - 1, g, a)
  <2>1. e >= 1
    BY <1>1, <1>2, <1>6
  <2>2. ~(1 > e - (g - a))
    <3> SUFFICES ASSUME 1 > e - (g - a) PROVE FALSE
      OBVIOUS
    <3>1. Head(s).kind = "block"
      BY <1>1, <1>2, <1>3, <2>1
    <3> QED BY <1>6, <3>1
  <2>3. ASSUME NEW i \in 1 .. e - 1
        PROVE  IF i > (e - 1) - (g - a) THEN t[i] = Block(g - ((e - 1) - i))
                                        ELSE t[i].kind \in {"manifest", "init"}
    <3>1. /\ i \in 1 .. Len(t) /\ i + 1 \in 1 .. e /\ g - ((e - 1) - i) = g - (e - (i + 1))
          /\ (i > (e - 1) - (g - a)) <=> (i + 1 > e - (g - a))
      BY <1>1, <1>2
    <3>2. t[i] = s[i + 1]
      BY <1>1, <3>1
    <3>3. IF i + 1 > e - (g - a) THEN s[i + 1] = Block(g - (e - (i + 1)))
                                 ELSE s[i + 1].kind \in {"manifest", "init"}
      BY <1>2, <3>1
    <3> QED BY <3>1, <3>2, <3>3
  <2>4. g - a <= e - 1
    BY <1>2, <2>2
  <2> QED BY <1>2, <1>5, <2>1, <2>3, <2>4 DEF InOrderOf
<1>7. ASSUME Head(s).kind = "block"
      PROVE  Head(s).n = a + 1 /\ InOrderOf(t, e - 1, g, a + 1)
  <2>1. e >= 1
    BY <1>1, <1>2, <1>7
  <2>2. 1 > e - (g - a) /\ s[1] = Block(g - (e - 1))
    BY <1>1, <1>2, <1>7, <2>1
  <2>3. g - a = e /\ g - (e - 1) = a + 1 /\ a + 1 <= g /\ g - (a + 1) <= e - 1
    BY <1>2, <2>1, <2>2
  <2>4. Head(s).n = a + 1
    BY <1>1, <1>3, <2>2, <2>3
  <2>5. ASSUME NEW i \in 1 .. e - 1
        PROVE  t[i] = Block(g - ((e - 1) - i)) /\ i > (e - 1) - (g - (a + 1))
    <3>1. /\ i \in 1 .. Len(t) /\ i + 1 \in 1 .. e /\ g - ((e - 1) - i) = g - (e - (i + 1))
          /\ i + 1 > e - (g - a) /\ i > (e - 1) - (g - (a + 1))
      BY <1>1, <1>2, <2>3
    <3>2. t[i] = s[i + 1]
      BY <1>1, <3>1
    <3>3. s[i + 1] = Block(g - (e - (i + 1)))
      BY <1>2, <3>1
    <3> QED BY <3>1, <3>2, <3>3
  <2>6. InOrderOf(t, e - 1, g, a + 1)
    BY <1>5, <2>1, <2>3, <2>5 DEF InOrderOf
  <2> QED BY <2>4, <2>6
<1>8. ASSUME Head(s).kind = "commit" PROVE e = 0 /\ Len(s) = 1 /\ g = a /\ t = <<>>
  <2>1. ~(e >= 1)
    <3> SUFFICES ASSUME e >= 1 PROVE FALSE
      OBVIOUS
    <3>1. Head(s).kind \in {"block", "manifest", "init"}
      BY <1>1, <1>2, <1>3
    <3> QED BY <1>8, <3>1
  <2>2. e = 0 /\ Len(s) = 1 /\ g = a
    BY <1>1, <1>2, <2>1
  <2> QED BY <1>1, <2>2
<1> QED BY <1>6, <1>7, <1>8 DEF t

\* The reports under way after the lock's answer.
LEMMA AnswerElements ==
  ASSUME NEW s \in Seq(Reports), NEW t \in Seq(Reports)
  PROVE  /\ s \o t \in Seq(Reports) /\ Len(s \o t) = Len(s) + Len(t)
         /\ \A i \in 1 .. Len(s) : i \in 1 .. Len(s \o t) /\ (s \o t)[i] = s[i]
         /\ \A j \in 1 .. Len(t) : Len(s) + j \in 1 .. Len(s \o t) /\ (s \o t)[Len(s) + j] = t[j]
         /\ \A i \in 1 .. Len(s \o t) :
               \/ i \in 1 .. Len(s) /\ (s \o t)[i] = s[i]
               \/ \E j \in 1 .. Len(t) : (s \o t)[i] = t[j]
<1> DEFINE u == s \o t
<1>1. /\ u \in Seq(Reports) /\ Len(u) = Len(s) + Len(t) /\ Len(s) \in Nat /\ Len(t) \in Nat
      /\ \A i \in 1 .. Len(s) + Len(t) : u[i] = IF i <= Len(s) THEN s[i] ELSE t[i - Len(s)]
  BY ConcatProperties, LenProperties
<1> HIDE DEF u
<1>2. \A i \in 1 .. Len(s) : i \in 1 .. Len(u) /\ u[i] = s[i]
  BY <1>1
<1>3. ASSUME NEW j \in 1 .. Len(t)
      PROVE  Len(s) + j \in 1 .. Len(u) /\ u[Len(s) + j] = t[j]
  <2>1. Len(s) + j \in 1 .. Len(s) + Len(t) /\ ~(Len(s) + j <= Len(s)) /\ (Len(s) + j) - Len(s) = j
    BY <1>1
  <2> QED BY <1>1, <2>1
<1>4. ASSUME NEW i \in 1 .. Len(u)
      PROVE  (i \in 1 .. Len(s) /\ u[i] = s[i]) \/ \E j \in 1 .. Len(t) : u[i] = t[j]
  <2>1. CASE i <= Len(s)
    BY <1>1, <1>2, <2>1
  <2>2. CASE ~(i <= Len(s))
    <3>1. i - Len(s) \in 1 .. Len(t) /\ u[i] = t[i - Len(s)]
      BY <1>1, <2>2
    <3> QED BY <3>1
  <2> QED BY <2>1, <2>2
<1> QED BY <1>1, <1>2, <1>3, <1>4 DEF u

\* The start of a clean transfer.
LEMMA InitClean == Init => CleanInv
<1> SUFFICES ASSUME Init, Clean PROVE Untroubled /\ Stages /\ InOrder /\ AllCounted
  BY DEF CleanInv
<1>1. /\ air = <<>> /\ reports = <<>> /\ gi = 0 /\ accepted = 0 /\ Len(air) = 0
      /\ phase \in {"handshake", "resume"} /\ confirmed = 0 /\ status = "none"
  BY Constants DEF Init, Clean, confirmed
<1>2. Untroubled
  <2>1. present
    BY Zenon DEF Init, Clean
  <2> QED BY <1>1, <2>1 DEF Init, Untroubled
<1>3. Stages
  BY <1>1, Constants DEF Init, Stages
<1>4. InOrder
  BY <1>1 DEF InOrder, InOrderOf, InAir
<1>5. AllCounted
  <2>1. Holds(<<>>, "ack") = 0
    BY CountNone
  <2> QED BY <1>1, <2>1 DEF AllCounted
<1> QED BY <1>2, <1>3, <1>4, <1>5

\* What a clean state is made of.
LEMMA CleanFacts ==
  ASSUME IInv, FlowInv, CleanInv, Clean
  PROVE  /\ TypeOK /\ Untroubled /\ Stages /\ InOrder /\ AllCounted
         /\ calm /\ resumeFrom = 0 /\ Len(air) \in Nat
         /\ accepted <= gi /\ accepted \in Nat /\ gi \in Nat
         /\ phase \in {"handshake", "resume", "initwait"} => gi = 0 /\ accepted = 0
         /\ phase # "await" => InAir = Len(air)
<1>1. TypeOK /\ Untroubled /\ Stages /\ InOrder /\ AllCounted
  BY DEF CleanInv, IInv
<1>2. accepted <= gi /\ accepted \in Nat /\ gi \in Nat
  BY <1>1 DEF InOrder, InOrderOf, TypeOK
<1>3. phase \in {"handshake", "resume", "initwait"} => gi = 0 /\ accepted = 0
  BY <1>2 DEF IInv, Begun
<1> QED BY <1>1, <1>2, <1>3, InAirIs DEF Clean, InAir

\* What arms the transfer is sent in order, the init frame only after a manifest
\* that the lock has taken.
LEMMA ArmingClean ==
  ASSUME IInv, FlowInv, CleanInv, Clean, SendManifest \/ SendInit
  PROVE  Untroubled' /\ Stages' /\ InOrder' /\ AllCounted'
<1>1. PICK f \in Frames : f.kind \in {"manifest", "init"} /\ air' = Append(air, f)
  BY FrameKinds DEF SendManifest, SendInit, Send
<1>2. /\ phase = "handshake" /\ phase' \in {"handshake", "initwait"}
      /\ UNCHANGED <<gi, baseAck, nakSeen, stalledAt, drainVars, reports, linkUp, resumeFrom,
                     calm, lockVars>>
  BY DEF SendManifest, SendInit
<1>3. /\ TypeOK /\ Untroubled /\ Stages /\ InOrder /\ AllCounted /\ calm
      /\ gi = 0 /\ accepted = 0 /\ InAir = Len(air) /\ Len(air) \in Nat
  BY <1>2, CleanFacts
<1>4. air' # <<>> /\ Len(air') = Len(air) + 1
  BY <1>1, <1>3, AppendProperties DEF TypeOK
<1>5. InOrder'
  <2>1. InOrderOf(air, Len(air), 0, 0)
    BY <1>3 DEF InOrder
  <2>2. InOrderOf(air', Len(air'), 0, 0)
    BY <1>1, <1>3, <2>1, ArmingInOrder DEF TypeOK
  <2>3. InAir' = Len(air') /\ gi' = 0 /\ accepted' = 0
    BY <1>2, <1>3 DEF InAir, lockVars
  <2> QED BY <2>2, <2>3 DEF InOrder
<1>6. Untroubled'
  BY <1>2, <1>3 DEF Untroubled, drainVars, lockVars
<1>7. AllCounted'
  BY <1>2, <1>3 DEF AllCounted, confirmed, drainVars, lockVars
<1>8. receiver = "idle" => phase' = "handshake"
  <2>1. CASE SendManifest
    BY <1>2, <2>1 DEF SendManifest
  <2>2. CASE SendInit
    <3> SUFFICES ASSUME receiver = "idle" PROVE FALSE
      OBVIOUS
    <3>1. ~manifestAcked /\ (manifests > 0 => air # <<>>)
      BY <1>3 DEF Stages
    <3>2. manifests > 0 /\ Quiet
      BY <1>3, <2>2, <3>1 DEF SendInit, HandshakeOver, TimedOut
    <3> QED BY <3>1, <3>2 DEF Quiet
  <2> QED BY <2>1, <2>2
<1>9. Stages'
  BY <1>2, <1>3, <1>4, <1>8, Constants DEF Stages, drainVars, lockVars
<1> QED BY <1>5, <1>6, <1>7, <1>9

\* The stream begins at the first block.
LEMMA StreamClean ==
  ASSUME IInv, FlowInv, CleanInv, Clean, InitWaitEnds \/ Resume
  PROVE  Untroubled' /\ Stages' /\ InOrder' /\ AllCounted'
<1>1. /\ phase \in {"initwait", "resume"} /\ phase' = "stream" /\ gi' = resumeFrom
      /\ baseAck' = blockack
      /\ UNCHANGED <<manifests, nakSeen, stalledAt, drainVars, reports, air, linkUp, resumeFrom,
                     calm, lockVars>>
  BY DEF InitWaitEnds, Resume, StartStream
<1>2. /\ TypeOK /\ Untroubled /\ Stages /\ InOrder /\ AllCounted
      /\ gi = 0 /\ resumeFrom = 0 /\ accepted = 0 /\ InAir = Len(air)
  BY <1>1, CleanFacts
<1>3. Untroubled' /\ Stages'
  BY <1>1, <1>2, Constants DEF Untroubled, Stages, drainVars, lockVars
<1>4. InOrder'
  BY <1>1, <1>2 DEF InOrder, InAir, lockVars
<1>5. AllCounted'
  <2>1. confirmed' = 0 /\ accepted' = 0
    BY <1>1, <1>2 DEF confirmed, TypeOK, drainVars, lockVars
  <2>2. Holds(reports, "ack")' \in Nat
    BY <1>1, <1>2, CountsAre
  <2> QED BY <2>1, <2>2 DEF AllCounted
<1> QED BY <1>3, <1>4, <1>5

\* The blocks follow, and no wait for their acknowledgements runs out: when
\* nothing is under way all of them have been counted.
LEMMA LoopClean ==
  ASSUME IInv, FlowInv, CleanInv, Clean,
         \/ SendBlock \/ Resend \/ HoldObserve \/ Stall \/ StreamEnds \/ WriteRaises
         \/ Interrupted
  PROVE  Untroubled' /\ Stages' /\ InOrder' /\ AllCounted'
<1>1. /\ TypeOK /\ Untroubled /\ Stages /\ InOrder /\ AllCounted /\ calm
      /\ accepted \in Nat /\ gi \in Nat /\ (phase # "await" => InAir = Len(air))
  BY CleanFacts
<1>2. linkUp /\ nak = 0 /\ nakSeen = 0
  BY <1>1 DEF Untroubled
<1>3. CASE SendBlock
  <2>1. /\ phase = "stream" /\ gi < NBlocks /\ gi' = gi + 1 /\ air' = Append(air, Block(gi + 1))
        /\ UNCHANGED <<phase, manifests, baseAck, nakSeen, stalledAt, drainVars, reports, linkUp,
                       resumeFrom, calm, lockVars>>
    BY <1>3 DEF SendBlock, Streaming, Send
  <2>2. InOrder'
    <3>1. InOrderOf(air, Len(air), gi, accepted)
      BY <1>1, <2>1 DEF InOrder
    <3>2. gi + 1 \in 1 .. NBlocks
      BY <1>1, <2>1, Constants
    <3>3. Block(gi + 1) \in Frames
      BY <3>2, FrameKinds
    <3>4. InOrderOf(air', Len(air'), gi + 1, accepted)
      BY <1>1, <2>1, <3>1, <3>3, BlockInOrder DEF TypeOK
    <3>5. InAir' = Len(air') /\ gi' = gi + 1 /\ accepted' = accepted
      BY <2>1 DEF InAir, lockVars
    <3> QED BY <3>4, <3>5 DEF InOrder
  <2>3. Untroubled' /\ AllCounted'
    BY <1>1, <2>1 DEF Untroubled, AllCounted, confirmed, drainVars, lockVars
  <2>4. receiver # "idle" /\ receiver # "complete"
    BY <1>1, <2>1 DEF Stages
  <2>5. Stages'
    BY <1>1, <2>1, <2>4, Constants DEF Stages, drainVars, lockVars
  <2> QED BY <2>2, <2>3, <2>5
<1>4. CASE Resend \/ WriteRaises \/ Interrupted
  BY <1>1, <1>2, <1>4 DEF Resend, WriteRaises, Interrupted, NakUnseen
<1>5. CASE Stall
  <2>1. /\ phase = "stream" /\ air = <<>> /\ reports = <<>> /\ gi - confirmed >= Window
    BY <1>1, <1>5 DEF Stall, Streaming, Holding, TimedOut, Quiet
  <2>2. gi - accepted <= 0
    BY <1>1, <2>1 DEF InOrder, InOrderOf
  <2>3. confirmed >= accepted
    <3>1. Holds(reports, "ack") = 0
      BY <2>1, CountNone
    <3> QED BY <1>1, <3>1, CountsAre DEF AllCounted
  <2> QED BY <1>1, <2>1, <2>2, <2>3, CountsAre, Constants
<1>6. CASE StreamEnds
  <2>1. /\ phase = "stream" /\ ~Streaming /\ phase' = "finish"
        /\ UNCHANGED <<manifests, gi, baseAck, nakSeen, stalledAt, drainVars, reports, air, linkUp,
                       resumeFrom, calm, lockVars>>
    BY <1>6 DEF StreamEnds
  <2>2. receiver # "idle" /\ receiver # "complete" /\ status = "none" /\ gi <= NBlocks
    BY <1>1, <2>1 DEF Stages
  <2>3. gi = NBlocks
    BY <1>1, <2>1, <2>2, Constants DEF Streaming
  <2>4. Stages'
    BY <1>1, <2>1, <2>2, <2>3 DEF Stages, drainVars, lockVars
  <2>5. Untroubled' /\ AllCounted'
    BY <1>1, <2>1 DEF Untroubled, AllCounted, confirmed, drainVars, lockVars
  <2>6. InOrder'
    BY <1>1, <2>1 DEF InOrder, InAir, lockVars
  <2> QED BY <2>4, <2>5, <2>6
<1>7. CASE HoldObserve
  <2>1. /\ phase = "stream"
        /\ UNCHANGED <<phase, manifests, gi, baseAck, nakSeen, stalledAt, drainVars, reports, air,
                       linkUp, resumeFrom, calm, lockVars>>
    BY <1>7 DEF HoldObserve, Streaming
  <2>2. Stages' /\ Untroubled' /\ AllCounted'
    BY <1>1, <2>1 DEF Stages, Untroubled, AllCounted, confirmed, drainVars, lockVars
  <2>3. InOrder'
    BY <1>1, <2>1 DEF InOrder, InAir, lockVars
  <2> QED BY <2>2, <2>3
<1> QED BY <1>3, <1>4, <1>5, <1>6, <1>7

\* The commit goes behind the last block, and the wait for the final status ends
\* with a success.
LEMMA EndClean ==
  ASSUME IInv, FlowInv, CleanInv, Clean, SendEnd \/ AwaitEnds
  PROVE  Untroubled' /\ Stages' /\ InOrder' /\ AllCounted'
<1>1. /\ TypeOK /\ Untroubled /\ Stages /\ InOrder /\ AllCounted /\ calm /\ linkUp
      /\ accepted \in Nat /\ gi \in Nat /\ Len(air) \in Nat
      /\ (phase # "await" => InAir = Len(air))
  BY CleanFacts DEF Untroubled
<1>2. /\ phase \in {"finish", "await"} /\ phase' \in {"await", "returned"}
      /\ UNCHANGED <<manifests, gi, baseAck, nakSeen, stalledAt, drainVars, reports, linkUp,
                     resumeFrom, calm, lockVars>>
  BY DEF SendEnd, AwaitEnds
<1>3. receiver # "idle" /\ gi = NBlocks
  BY <1>1, <1>2 DEF Stages
<1>4. Untroubled' /\ AllCounted'
  BY <1>1, <1>2 DEF Untroubled, AllCounted, confirmed, drainVars, lockVars
<1>5. CASE SendEnd
  <2>1. /\ phase = "finish" /\ phase' = "await" /\ air' = Append(air, Control("commit"))
    BY <1>1, <1>5 DEF SendEnd, Send
  <2>2. receiver = "receiving"
    BY <1>1, <1>3, <2>1 DEF Stages, Untroubled, TypeOK, Receivers
  <2>3. InOrder'
    <3>1. InOrderOf(air, Len(air), gi, accepted)
      BY <1>1, <2>1 DEF InOrder
    <3>2. Control("commit") \in Frames /\ Control("commit").kind = "commit"
      BY FrameKinds
    <3>3. InOrderOf(air', Len(air') - 1, gi, accepted)
      BY <1>1, <2>1, <3>1, <3>2, CommitInOrder DEF TypeOK
    <3>4. InAir' = Len(air') - 1 /\ gi' = gi /\ accepted' = accepted
      BY <1>2, <2>1, <2>2 DEF InAir, lockVars
    <3> QED BY <3>3, <3>4 DEF InOrder
  <2>4. Stages'
    BY <1>1, <1>2, <1>3, <2>1, <2>2 DEF Stages, drainVars, lockVars
  <2> QED BY <1>4, <2>3, <2>4
<1>6. CASE AwaitEnds
  <2>1. /\ phase = "await" /\ phase' = "returned" /\ air' = air
        /\ status # "none" \/ (air = <<>> /\ reports = <<>>)
    BY <1>1, <1>6 DEF AwaitEnds, TimedOut, Quiet
  <2>2. receiver = "complete"
    <3> SUFFICES ASSUME receiver # "complete" PROVE FALSE
      OBVIOUS
    <3>1. receiver = "receiving" /\ status = "none"
      BY <1>1, <1>3 DEF Stages, Untroubled, TypeOK, Receivers
    <3>2. air = <<>> /\ InAir = Len(air) - 1
      BY <2>1, <3>1 DEF InAir
    <3>3. InAir = -1
      BY <3>2
    <3> QED BY <1>1, <3>3 DEF InOrder, InOrderOf
  <2>3. status = "success"
    <3>1. status = "success" \/ \E i \in 1 .. Len(reports) : reports[i] = "success"
      BY <1>1, <2>2 DEF Stages
    <3>2. CASE reports = <<>>
      <4>1. Len(reports) = 0
        BY <3>2
      <4> QED BY <3>1, <4>1
    <3>3. CASE status # "none"
      BY <1>1, <3>3 DEF TypeOK, Statuses, Untroubled
    <3> QED BY <2>1, <3>2, <3>3
  <2>4. Stages'
    BY <1>1, <1>2, <1>3, <2>1, <2>2, <2>3 DEF Stages, drainVars, lockVars
  <2>5. InOrder'
    <3>1. InAir = Len(air) /\ InAir' = Len(air)
      BY <1>2, <2>1, <2>2 DEF InAir, lockVars
    <3> QED BY <1>1, <1>2, <2>1, <3>1 DEF InOrder, lockVars
  <2> QED BY <1>4, <2>4, <2>5
<1> QED BY <1>5, <1>6

\* Counting a report leaves its worth in the count.
LEMMA DrainClean ==
  ASSUME IInv, FlowInv, CleanInv, Clean, Drain
  PROVE  Untroubled' /\ Stages' /\ InOrder' /\ AllCounted'
<1> DEFINE r == Head(reports)
<1>1. /\ TypeOK /\ Untroubled /\ Stages /\ InOrder /\ AllCounted
  BY CleanFacts
<1>2. /\ reports # <<>> /\ reports' = Tail(reports)
      /\ blockack' = IF r = "ack" THEN blockack + 1 ELSE blockack
      /\ nak' = IF r = "nak" THEN nak + 1 ELSE nak
      /\ status' = IF r \in {"success", "abort"} THEN r ELSE status
      /\ UNCHANGED <<phase, manifests, gi, baseAck, nakSeen, stalledAt, air, linkUp, resumeFrom,
                     calm, lockVars>>
  BY DEF Drain
<1>3. /\ 1 \in 1 .. Len(reports) /\ r = reports[1]
      /\ Len(Tail(reports)) = Len(reports) - 1 /\ Len(reports) \in Nat
      /\ \A i \in 1 .. Len(Tail(reports)) : Tail(reports)[i] = reports[i + 1]
  <2>1. /\ Len(Tail(reports)) = Len(reports) - 1
        /\ \A i \in 1 .. Len(Tail(reports)) : Tail(reports)[i] = reports[i + 1]
    BY <1>1, <1>2, HeadTailProperties DEF TypeOK
  <2>2. Len(reports) \in Nat /\ 1 \in 1 .. Len(reports) /\ r = reports[1]
    BY <1>1, <1>2, LenProperties, EmptySeq DEF TypeOK
  <2> QED BY <2>1, <2>2
<1>4. /\ Holds(reports, "ack") = Holds(Tail(reports), "ack") + Is(r, "ack")
      /\ Holds(Tail(reports), "ack") \in Nat
  <2>1. Tail(reports) \in Seq(Reports)
    BY <1>1, <1>2, HeadTailProperties DEF TypeOK
  <2>2. Holds(Tail(reports), "ack") \in Nat
    BY <2>1, PlacesFinite
  <2>3. Holds(reports, "ack") = Holds(Tail(reports), "ack") + Is(r, "ack")
    BY <1>1, <1>2, CountTail DEF TypeOK
  <2> QED BY <2>2, <2>3
<1>5. Is(r, "ack") \in {0, 1} /\ blockack' = blockack + Is(r, "ack")
  BY <1>1, <1>2 DEF Is, TypeOK
<1> HIDE DEF r
<1>6. r \notin {"nak", "abort"}
  BY <1>1, <1>3 DEF Untroubled
<1>7. \A i \in 1 .. Len(Tail(reports)) :
        i + 1 \in 1 .. Len(reports) /\ Tail(reports)[i] = reports[i + 1]
  BY <1>3
<1>8. Untroubled'
  <2>1. \A i \in 1 .. Len(Tail(reports)) : Tail(reports)[i] \notin {"nak", "abort"}
    BY <1>1, <1>7 DEF Untroubled
  <2>2. nak' = 0 /\ status' # "abort"
    BY <1>1, <1>2, <1>6 DEF Untroubled
  <2> QED BY <1>1, <1>2, <2>1, <2>2 DEF Untroubled, lockVars
<1>9. InOrder'
  BY <1>1, <1>2 DEF InOrder, InAir, lockVars
<1>10. AllCounted'
  <2>1. confirmed' = confirmed + Is(r, "ack")
    BY <1>1, <1>2, <1>5 DEF confirmed, TypeOK
  <2>2. confirmed + Holds(reports, "ack") >= accepted
    BY <1>1 DEF AllCounted
  <2>3. ASSUME NEW c \in Int, NEW b \in Nat, NEW x \in {0, 1}, NEW n \in Nat, c + (b + x) >= n
        PROVE  (c + x) + b >= n
    BY <2>3
  <2>4. confirmed + (Holds(Tail(reports), "ack") + Is(r, "ack")) >= accepted
    BY <1>4, <2>2, Zenon
  <2>5. confirmed \in Int /\ accepted \in Nat
    BY <1>1, CountsAre
  <2>6. (confirmed + Is(r, "ack")) + Holds(Tail(reports), "ack") >= accepted
    BY <1>4, <1>5, <2>3, <2>4, <2>5
  <2>7. Holds(reports, "ack")' = Holds(Tail(reports), "ack") /\ accepted' = accepted
    BY <1>2 DEF lockVars
  <2> QED BY <2>1, <2>6, <2>7, Zenon DEF AllCounted
<1>11. Stages'
  <2>1. receiver # "idle"
    BY <1>1, <1>2 DEF Stages
  <2>2. ASSUME receiver # "complete"
        PROVE  /\ status' = "none"
               /\ \A i \in 1 .. Len(Tail(reports)) : Tail(reports)[i] # "success"
    <3>1. status = "none" /\ \A i \in 1 .. Len(reports) : reports[i] # "success"
      BY <1>1, <2>2 DEF Stages
    <3>2. r # "success"
      BY <1>3, <3>1
    <3> QED BY <1>2, <1>6, <1>7, <3>1, <3>2
  <2>3. ASSUME receiver = "complete"
        PROVE  /\ phase \in {"await", "returned"} /\ air = <<>>
               /\ \/ status' = "success"
                  \/ \E i \in 1 .. Len(Tail(reports)) : Tail(reports)[i] = "success"
    <3>1. /\ phase \in {"await", "returned"} /\ air = <<>>
          /\ status = "success" \/ \E i \in 1 .. Len(reports) : reports[i] = "success"
      BY <1>1, <2>3 DEF Stages
    <3>2. CASE r = "success"
      BY <1>2, <3>1, <3>2
    <3>3. CASE r # "success"
      <4>1. status' = status
        BY <1>2, <1>6, <3>3
      <4>2. CASE status = "success"
        BY <3>1, <4>1, <4>2
      <4>3. CASE \E i \in 1 .. Len(reports) : reports[i] = "success"
        <5>1. PICK i \in 1 .. Len(reports) : reports[i] = "success"
          BY <4>3
        <5>2. i # 1
          BY <1>3, <3>3, <5>1
        <5>3. i - 1 \in 1 .. Len(Tail(reports)) /\ (i - 1) + 1 = i
          BY <1>3, <5>1, <5>2
        <5>4. Tail(reports)[i - 1] = "success"
          BY <1>3, <5>1, <5>3
        <5> QED BY <3>1, <5>3, <5>4
      <4> QED BY <3>1, <4>2, <4>3
    <3> QED BY <3>2, <3>3
  <2>4. phase = "returned" => status' = "success"
    BY DEF Drain, Over
  <2>5. /\ phase \in {"finish", "await", "returned"} => gi = NBlocks
        /\ gi <= NBlocks
    BY <1>1 DEF Stages
  <2> QED BY <1>2, <2>1, <2>2, <2>3, <2>4, <2>5 DEF Stages, lockVars
<1> QED BY <1>8, <1>9, <1>10, <1>11

\* The lock, idle before the first manifest and done after the commit, takes the
\* frames as they come: the next block is always the one it expects.
LEMMA LockClean ==
  ASSUME IInv, FlowInv, CleanInv, Clean, Lock
  PROVE  Untroubled' /\ Stages' /\ InOrder' /\ AllCounted'
<1>1. /\ TypeOK /\ Untroubled /\ Stages /\ InOrder /\ AllCounted /\ calm /\ present
      /\ accepted <= gi /\ accepted \in Nat /\ gi \in Nat /\ Len(air) \in Nat
  BY CleanFacts DEF Untroubled
<1>2. /\ air # <<>> /\ air' = Tail(air)
      /\ UNCHANGED <<senderVars, drainVars, resumeFrom>>
  BY AcksAreEarned
<1>3. receiver # "complete" /\ receiver # "aborted"
  BY <1>1, <1>2 DEF Stages, Untroubled
<1>4. status = "none" /\ \A i \in 1 .. Len(reports) : reports[i] # "success"
  BY <1>1, <1>3 DEF Stages
<1>5. receiver = "idle" => phase = "handshake" /\ Head(air).kind = "manifest"
  <2>1. receiver = "idle" => phase = "handshake"
    BY <1>1 DEF Stages
  <2>2. Head(air) = air[1] /\ 1 \in 1 .. Len(air)
    BY <1>1, <1>2 DEF TypeOK
  <2> QED BY <2>1, <2>2 DEF FlowInv, NothingYet
<1>6. /\ Head(air).kind \in {"manifest", "init"} =>
            InOrderOf(Tail(air), InAir - 1, gi, accepted)
      /\ Head(air).kind = "block" => /\ Head(air).n = accepted + 1
                                     /\ InOrderOf(Tail(air), InAir - 1, gi, accepted + 1)
      /\ Head(air).kind = "commit" => /\ InAir = 0 /\ Len(air) = 1 /\ gi = accepted
                                      /\ Tail(air) = <<>>
  BY <1>1, <1>2, InAirIs, FrontInOrder DEF TypeOK, InOrder
<1>7. /\ reports \in Seq(Reports) /\ Len(reports) \in Nat
      /\ Len(Tail(air)) = Len(air) - 1
  BY <1>1, <1>2, HeadTailProperties, LenProperties DEF TypeOK
\* The steps that leave the lock receiving.
<1>8. ASSUME receiver' = "receiving", present' = present, linkUp' = linkUp, calm' = calm,
             InOrderOf(Tail(air), InAir - 1, gi, accepted'), accepted' \in {accepted, accepted + 1},
             NEW answer \in {<<"info">>, <<"ack">>, <<"marker", "ack">>},
             reports' = reports \o answer,
             accepted' = accepted \/ Holds(reports', "ack") = Holds(reports, "ack") + 1
      PROVE  Untroubled' /\ Stages' /\ InOrder' /\ AllCounted'
  <2>1. answer \in Seq(Reports) /\ \A j \in 1 .. Len(answer) : answer[j] \in {"info", "ack", "marker"}
    <3>1. CASE answer = <<"info">>
      BY <3>1 DEF Reports
    <3>2. CASE answer = <<"ack">>
      BY <3>2 DEF Reports
    <3>3. CASE answer = <<"marker", "ack">>
      <4>1. answer \in Seq(Reports) /\ Len(answer) = 2 /\ answer[1] = "marker" /\ answer[2] = "ack"
        BY <3>3 DEF Reports
      <4> QED BY <4>1
    <3> QED BY <3>1, <3>2, <3>3
  <2>2. \A i \in 1 .. Len(reports') :
           \/ i \in 1 .. Len(reports) /\ reports'[i] = reports[i]
           \/ reports'[i] \in {"info", "ack", "marker"}
    <3>1. reports' = reports \o answer
      BY <1>8
    <3>2. \A i \in 1 .. Len(reports \o answer) :
             \/ i \in 1 .. Len(reports) /\ (reports \o answer)[i] = reports[i]
             \/ \E j \in 1 .. Len(answer) : (reports \o answer)[i] = answer[j]
      BY <1>7, <2>1, AnswerElements
    <3>3. \A i \in 1 .. Len(reports \o answer) :
             \/ i \in 1 .. Len(reports) /\ (reports \o answer)[i] = reports[i]
             \/ (reports \o answer)[i] \in {"info", "ack", "marker"}
      BY <2>1, <3>2, Zenon
    <3> QED BY <3>1, <3>3, Zenon
  <2>3. Untroubled'
    <3>1. \A i \in 1 .. Len(reports') : reports'[i] \notin {"nak", "abort"}
      BY <1>1, <2>2 DEF Untroubled
    <3>2. /\ linkUp /\ present /\ phase # "failed" /\ stalledAt = 0 /\ nak = 0 /\ nakSeen = 0
          /\ status # "abort"
      BY <1>1 DEF Untroubled
    <3>3. UNCHANGED <<phase, stalledAt, nak, nakSeen, status>>
      BY <1>2 DEF senderVars, drainVars
    <3> QED BY <1>8, <3>1, <3>2, <3>3 DEF Untroubled
  <2>4. Stages'
    <3>1. \A i \in 1 .. Len(reports') : reports'[i] # "success"
      BY <1>4, <2>2
    <3>2. /\ phase \in {"finish", "await", "returned"} => gi = NBlocks
          /\ phase = "returned" => status = "success"
          /\ gi <= NBlocks
      BY <1>1 DEF Stages
    <3>3. UNCHANGED <<phase, gi, status>>
      BY <1>2 DEF senderVars, drainVars
    <3> QED BY <1>4, <1>8, <3>1, <3>2, <3>3 DEF Stages
  <2>5. InOrder'
    <3>1. phase' = phase /\ gi' = gi
      BY <1>2 DEF senderVars
    <3>2. receiver = "receiving" \/ phase # "await"
      BY <1>1, <1>3, <1>5 DEF TypeOK, Receivers
    <3>3. Len(air') = Len(air) - 1
      BY <1>2, <1>7
    <3>4. InAir' = InAir - 1
      BY <1>7, <1>8, <3>1, <3>2, <3>3, <1>1 DEF InAir
    <3>5. InOrderOf(air', InAir - 1, gi, accepted')
      BY <1>2, <1>8
    <3> QED BY <3>1, <3>4, <3>5 DEF InOrder
  <2>6. AllCounted'
    <3>1. confirmed' = confirmed
      BY <1>2 DEF confirmed, senderVars, drainVars
    <3>2. confirmed + Holds(reports, "ack") >= accepted
      BY <1>1 DEF AllCounted
    <3>3. \/ Holds(reports', "ack") = Holds(reports, "ack")
          \/ Holds(reports', "ack") = Holds(reports, "ack") + 1
      BY AcksAreEarned
    <3>4. confirmed \in Int /\ accepted \in Nat /\ Holds(reports, "ack") \in Nat
      BY <1>1, CountsAre
    <3>5. Holds(reports', "ack") >= Holds(reports, "ack") + (accepted' - accepted)
      BY <1>8, <3>3, <3>4
    <3>6. confirmed + Holds(reports', "ack") >= accepted'
      <4>1. ASSUME NEW c \in Int, NEW h \in Nat, NEW k \in Int, NEW a \in Nat, NEW b \in Nat,
                   c + h >= a, k >= h + (b - a)
            PROVE  c + k >= b
        BY <4>1
      <4>2. accepted' \in Nat
        BY <1>8, <3>4
      <4>3. Holds(reports', "ack") \in Int
        BY <3>3, <3>4
      <4> QED BY <3>2, <3>4, <3>5, <4>1, <4>2, <4>3
    <3> QED BY <3>1, <3>6 DEF AllCounted
  <2> QED BY <2>3, <2>4, <2>5, <2>6
<1>9. CASE LockTakesManifest
  <2>1. /\ Head(air).kind = "manifest" /\ reports' = reports \o <<"info">> /\ accepted' = 0
        /\ receiver' = "receiving" /\ present' = present /\ linkUp' = linkUp /\ calm' = calm
    BY <1>9 DEF LockTakesManifest, Takes
  <2>2. accepted' = accepted
    BY <2>1, FrameKinds, AcksAreEarned
  <2>3. InOrderOf(Tail(air), InAir - 1, gi, accepted')
    BY <1>6, <2>1, <2>2
  <2> QED BY <1>8, <2>1, <2>2, <2>3
<1>10. CASE LockTakesInit
  <2>1. /\ Head(air).kind = "init" /\ accepted' = accepted
        /\ reports' = reports \o <<"ack">> \/ reports' = reports \o <<"marker", "ack">>
        /\ receiver' = "receiving" /\ present' = present /\ linkUp' = linkUp /\ calm' = calm
    BY <1>10 DEF LockTakesInit, Takes, lockVars
  <2>2. InOrderOf(Tail(air), InAir - 1, gi, accepted')
    BY <1>6, <2>1
  <2> QED BY <1>8, <2>1, <2>2
<1>11. CASE LockTakesBlock
  <2>1. /\ Head(air).kind = "block" /\ accepted' = accepted + 1 /\ reports' = reports \o <<"ack">>
        /\ receiver' = "receiving" /\ present' = present /\ linkUp' = linkUp /\ calm' = calm
    BY <1>11 DEF LockTakesBlock, Takes
  <2>2. InOrderOf(Tail(air), InAir - 1, gi, accepted')
    BY <1>6, <2>1
  <2>3. Holds(reports', "ack") = Holds(reports, "ack") + 1
    BY <1>1, <2>1, AnswersCount
  <2> QED BY <1>8, <2>1, <2>2, <2>3
<1>12. CASE LockRefusesBlock
  <2>1. Head(air).kind = "block" /\ Head(air).n # accepted + 1
    BY <1>1, <1>12 DEF LockRefusesBlock, Takes
  <2> QED BY <1>6, <2>1
<1>13. CASE LockTakesCommit
  <2>1. /\ Head(air).kind = "commit" /\ receiver = "receiving"
        /\ accepted' = accepted /\ present' = present /\ linkUp' = linkUp /\ calm' = calm
    BY <1>13 DEF LockTakesCommit, Takes
  <2>2. InAir = 0 /\ Len(air) = 1 /\ gi = accepted /\ air' = <<>>
    BY <1>2, <1>6, <2>1
  <2>3. phase = "await" /\ gi = NBlocks
    <3>1. phase = "await"
      BY <2>2 DEF InAir
    <3> QED BY <1>1, <3>1 DEF Stages
  <2>4. reports' = reports \o <<"success">> /\ receiver' = "complete"
    BY <1>13, <2>2, <2>3 DEF LockTakesCommit, Takes
  <2>5. UNCHANGED <<phase, stalledAt, nak, nakSeen, status, gi, baseAck, blockack>>
    BY <1>2 DEF senderVars, drainVars
  <2>6. <<"success">> \in Seq(Reports) /\ Len(<<"success">>) = 1 /\ <<"success">>[1] = "success"
    BY DEF Reports
  <2>7. /\ \A i \in 1 .. Len(reports') :
             (i \in 1 .. Len(reports) /\ reports'[i] = reports[i]) \/ reports'[i] = "success"
        /\ \E i \in 1 .. Len(reports') : reports'[i] = "success"
    <3>1. /\ \A i \in 1 .. Len(reports \o <<"success">>) :
               \/ i \in 1 .. Len(reports) /\ (reports \o <<"success">>)[i] = reports[i]
               \/ \E j \in 1 .. Len(<<"success">>) :
                     (reports \o <<"success">>)[i] = <<"success">>[j]
          /\ \A j \in 1 .. Len(<<"success">>) :
                /\ Len(reports) + j \in 1 .. Len(reports \o <<"success">>)
                /\ (reports \o <<"success">>)[Len(reports) + j] = <<"success">>[j]
      BY <1>7, <2>6, AnswerElements
    <3>2. 1 \in 1 .. Len(<<"success">>) /\ \A j \in 1 .. Len(<<"success">>) : <<"success">>[j] = "success"
      BY <2>6
    <3>3. /\ \A i \in 1 .. Len(reports \o <<"success">>) :
               \/ i \in 1 .. Len(reports) /\ (reports \o <<"success">>)[i] = reports[i]
               \/ (reports \o <<"success">>)[i] = "success"
          /\ \E i \in 1 .. Len(reports \o <<"success">>) : (reports \o <<"success">>)[i] = "success"
      BY <3>1, <3>2, Zenon
    <3> QED BY <2>4, <3>3, Zenon
  <2>8. Untroubled'
    <3>1. \A i \in 1 .. Len(reports') : reports'[i] \notin {"nak", "abort"}
      BY <1>1, <2>7 DEF Untroubled
    <3>2. /\ linkUp /\ present /\ phase # "failed" /\ stalledAt = 0 /\ nak = 0 /\ nakSeen = 0
          /\ status # "abort"
      BY <1>1 DEF Untroubled
    <3> QED BY <2>1, <2>4, <2>5, <3>1, <3>2 DEF Untroubled
  <2>9. Stages'
    <3>1. /\ receiver' = "complete" /\ phase' = "await" /\ air' = <<>> /\ gi' = NBlocks
          /\ NBlocks \in Nat
      BY <2>2, <2>3, <2>4, <2>5, Constants
    <3>2. \E i \in 1 .. Len(reports') : reports'[i] = "success"
      BY <2>7
    <3> QED BY <3>1, <3>2 DEF Stages
  <2>10. InOrder'
    <3>1. InAir' = 0 /\ Len(air') = 0
      BY <2>2, <2>4 DEF InAir
    <3> QED BY <1>1, <2>1, <2>2, <2>5, <3>1 DEF InOrder, InOrderOf
  <2>11. AllCounted'
    <3>1. Holds(reports', "ack") = Holds(reports, "ack")
      BY <1>1, <2>4, AnswersCount DEF Reports
    <3>2. confirmed' = confirmed
      BY <2>5 DEF confirmed
    <3> QED BY <1>1, <2>1, <3>1, <3>2 DEF AllCounted
  <2> QED BY <2>8, <2>9, <2>10, <2>11
<1>14. CASE LockIgnores
  <2>1. receiver = "idle" /\ Head(air).kind \in {"init", "block", "commit"}
    BY <1>1, <1>3, <1>14 DEF LockIgnores, Takes, TypeOK, Receivers
  <2> QED BY <1>5, <2>1
<1> QED BY <1>9, <1>10, <1>11, <1>12, <1>13, <1>14 DEF Lock

\* Every step of a clean transfer leaves it clean.
LEMMA StepClean == IInv /\ FlowInv /\ CleanInv /\ [Next]_vars => CleanInv'
<1> SUFFICES ASSUME IInv, FlowInv, CleanInv, [Next]_vars, Clean'
             PROVE  Untroubled' /\ Stages' /\ InOrder' /\ AllCounted'
  BY DEF CleanInv
<1>1. calm' = calm /\ resumeFrom' = resumeFrom
  <2>1. CASE Sender \/ Interrupted
    BY <2>1 DEF Sender, SendManifest, SendInit, InitWaitEnds, Resume, SendBlock, Resend,
                HoldObserve, Stall, StreamEnds, WriteRaises, SendEnd, AwaitEnds, Interrupted
  <2>2. CASE Drain \/ LockAborts \/ KeypadTouched \/ LinkDrops
    BY <2>2 DEF Drain, LockAborts, KeypadTouched, LinkDrops
  <2>3. CASE Lock
    BY <2>3 DEF Lock, LockTakesManifest, LockTakesInit, LockTakesBlock, LockRefusesBlock,
                LockTakesCommit, LockIgnores, Takes
  <2>4. CASE UNCHANGED vars
    BY <2>4 DEF vars
  <2> QED BY <2>1, <2>2, <2>3, <2>4 DEF Next, Finished
<1>2. Clean
  BY <1>1 DEF Clean
<1>3. CASE Sender \/ Interrupted
  BY <1>2, <1>3, ArmingClean, StreamClean, LoopClean, EndClean DEF Sender
<1>4. CASE Drain
  BY <1>2, <1>4, DrainClean
<1>5. CASE Lock
  BY <1>2, <1>5, LockClean
<1>6. CASE LockAborts \/ KeypadTouched \/ LinkDrops
  <2>1. calm /\ present
    BY <1>2, CleanFacts DEF Untroubled
  <2> QED BY <1>6, <2>1 DEF LockAborts, KeypadTouched, LinkDrops
<1>7. CASE UNCHANGED vars
  <2>1. UNCHANGED <<senderVars, drainVars, reports, air, linkUp, lockVars>>
    BY <1>7 DEF vars
  <2>2. Untroubled /\ Stages /\ InOrder /\ AllCounted
    BY <1>2, CleanFacts
  <2>3. Untroubled' /\ Stages'
    BY <2>1, <2>2 DEF Untroubled, Stages, senderVars, drainVars, lockVars
  <2>4. InOrder' /\ AllCounted'
    BY <2>1, <2>2 DEF InOrder, InAir, AllCounted, confirmed, senderVars, drainVars, lockVars
  <2> QED BY <2>3, <2>4
<1> QED BY <1>3, <1>4, <1>5, <1>6, <1>7 DEF Next, Finished

\* Where the lock listens and nothing is lost, refused, interrupted or too late,
\* a transfer from the first block reports no stall and, when it is over, the
\* lock's success (ota.py:257-330), for any pack and window and however the main
\* coroutine, the drain coroutine and the lock interleave.
THEOREM CleanSucceeds == Spec => []CleanTransferSucceeds
<1>1. ASSUME IInv, FlowInv, CleanInv PROVE CleanTransferSucceeds
  <2> SUFFICES ASSUME Clean PROVE stalledAt = 0 /\ (phase \in Over => status = "success")
    BY DEF CleanTransferSucceeds, Clean
  <2>1. Untroubled /\ Stages
    BY <1>1 DEF CleanInv
  <2> QED BY <2>1 DEF Untroubled, Stages, Over
<1>2. Spec => [](FlowInv /\ CleanInv)
  <2>1. IInv /\ FlowInv /\ CleanInv /\ [Next]_vars => FlowInv' /\ CleanInv'
    BY StepFlow, StepClean
  <2> QED BY <2>1, InitFlow, InitClean, Invariant, PTL DEF Spec
<1> QED BY <1>1, <1>2, Invariant, PTL
=============================================================================
