---------------------------- MODULE VoicePackOta ----------------------------
(***************************************************************************)
(* One voice-pack transfer: run_voice_pack_ota (aqara_ble/ota.py) inside   *)
(* an authenticated session.  The main coroutine sends the manifest until  *)
(* the lock answers, then the init frame and the blocks, keeping at most   *)
(* Window of them ahead of the lock's acknowledgements; a second coroutine *)
(* (drain) takes the ff92 reports from a queue and counts them.  Between   *)
(* two awaits the code runs alone: one action each, and one for the writes *)
(* of a block.  The lock and the link are modelled from what ota.py says   *)
(* of them: frames and reports keep their order, a block may be lost or    *)
(* damaged on the way, a block is acknowledged at most once.               *)
(***************************************************************************)
EXTENDS Integers, Sequences

CONSTANTS
  NBlocks,       \* blocks of the voice pack (708 in the captured transfer)
  Window,        \* window (3 by default)
  Resumes,       \* the values of resume_from
  Starts,        \* how a transfer begins: "handshake", or "resume" (skip_manifest)
  MaxResends,    \* max_resends (30 by default)
  MaxManifests,  \* bound: manifests sent before manifest_wait_s is over
  MaxFaults      \* bound: blocks lost or damaged on the way

ASSUME OtaConstantsOK ==
  /\ NBlocks \in Nat \ {0} /\ Window \in Nat \ {0} /\ Resumes \subseteq Nat
  /\ MaxResends \in Nat /\ MaxManifests \in Nat \ {0} /\ MaxFaults \in Nat
  /\ Starts \subseteq {"handshake", "resume"}

VARIABLES
  phase,      \* where the main coroutine is
  manifests,  \* manifests sent
  heard,      \* len(acks) > base: a report was taken since the init frame
  gi,         \* blocks sent, or skipped by resume_from
  baseAck,    \* base_ack
  lastAck,    \* last_ack_n
  nakSeen,    \* state["nak_seen"]
  resends,    \* state["resends"]
  stalledAt,  \* state["stalled_at"]; 0: None
  manifestAcked, blockack, nak, status,  \* what drain() keeps in state
  reports,    \* ff92 reports on their way to drain()
  air,        \* frames on their way to the lock
  linkUp,
  resumeFrom, \* resume_from, the block the caller begins after
  calm,       \* all goes well: the lock is present, nothing is lost, no link drops,
              \* nobody interrupts, the lock does not abort, no timeout is early
  present,    \* the lock listens to a manifest
  receiver,   \* the lock's receiver
  accepted,   \* blocks the lock has accepted, in order
  faults      \* blocks lost or damaged so far

senderVars == <<phase, manifests, heard, gi, baseAck, lastAck, nakSeen, resends, stalledAt>>
drainVars  == <<manifestAcked, blockack, nak, status>>
lockVars   == <<present, receiver, accepted, faults>>
vars == <<senderVars, drainVars, reports, air, linkUp, resumeFrom, calm, lockVars>>

Phases    == {"handshake", "resume", "initwait", "stream", "finish", "await",
              "returned", "failed"}
Over      == {"returned", "failed"}
Statuses  == {"none", "success", "abort"}
Reports   == {"info", "marker", "ack", "nak", "success", "abort"}
Receivers == {"idle", "receiving", "complete", "aborted"}

\* Frames on ff91.  A block is its sequence number; the writes it is cut into
\* travel together.
Control(kind) == [kind |-> kind, n |-> 0]
Block(n)      == [kind |-> "block", n |-> n]
Frames == {Control(k) : k \in {"manifest", "init", "commit"}}
          \cup {Block(n) : n \in 1 .. NBlocks}

Init ==
  /\ phase \in Starts /\ manifests = 0 /\ heard = FALSE
  /\ gi = 0 /\ baseAck = 0 /\ lastAck = 0 /\ nakSeen = 0 /\ resends = 0 /\ stalledAt = 0
  /\ manifestAcked = FALSE /\ blockack = 0 /\ nak = 0 /\ status = "none"
  /\ reports = <<>> /\ air = <<>> /\ linkUp = TRUE
  /\ resumeFrom \in Resumes /\ calm \in BOOLEAN /\ present = calm
  \* A resumed transfer relies on the lock having kept what it had.
  /\ receiver = IF phase = "resume" THEN "receiving" ELSE "idle"
  /\ accepted = IF phase = "resume" THEN resumeFrom ELSE 0
  /\ faults = 0

Quiet == air = <<>> /\ reports = <<>>
TimedOut == calm => Quiet

Send(frame) == /\ linkUp
               /\ air' = Append(air, frame)
-----------------------------------------------------------------------------
(* The main coroutine: handshake and init frame.                           *)

\* The start and manifest control frames; again when no answer has come.
SendManifest ==
  /\ phase = "handshake" /\ ~manifestAcked
  /\ manifests < MaxManifests
  /\ manifests > 0 => TimedOut
  /\ Send(Control("manifest"))
  /\ manifests' = manifests + 1
  /\ UNCHANGED <<phase, heard, gi, baseAck, lastAck, nakSeen, resends, stalledAt,
                 drainVars, reports, linkUp, resumeFrom, calm, lockVars>>

\* Answered, or manifest_wait_s over: the transfer goes on either way.
HandshakeOver == manifestAcked \/ (manifests > 0 /\ TimedOut)

SendInit ==
  /\ phase = "handshake"
  /\ HandshakeOver
  /\ Send(Control("init"))
  /\ phase' = "initwait"
  /\ heard' = FALSE
  /\ UNCHANGED <<manifests, gi, baseAck, lastAck, nakSeen, resends, stalledAt,
                 drainVars, reports, linkUp, resumeFrom, calm, lockVars>>

\* From here on the acknowledgements counted so far are not those of a block.
StartStream ==
  /\ phase' = "stream"
  /\ gi' = resumeFrom
  /\ baseAck' = blockack
  /\ lastAck' = blockack

\* Any report ends the wait for the init frame's acknowledgement.
InitWaitEnds ==
  /\ phase = "initwait"
  /\ heard \/ status # "none" \/ TimedOut
  /\ StartStream
  /\ UNCHANGED <<manifests, heard, nakSeen, resends, stalledAt,
                 drainVars, reports, air, linkUp, resumeFrom, calm, lockVars>>

Resume ==
  /\ phase = "resume"
  /\ StartStream
  /\ UNCHANGED <<manifests, heard, nakSeen, resends, stalledAt,
                 drainVars, reports, air, linkUp, resumeFrom, calm, lockVars>>
-----------------------------------------------------------------------------
(* The main coroutine: one iteration of the streaming loop.                *)

confirmed == blockack - baseAck

\* Variant of Streaming: the loop also waits for the last blocks.
StreamingOnePastEnd == phase = "stream" /\ gi <= NBlocks /\ status = "none"

Streaming == phase = "stream" /\ gi < NBlocks /\ status = "none"

\* Variant of Holding: one block more than the window.
HoldingLate == gi - confirmed > Window

Holding   == gi - confirmed >= Window
NakUnseen == nak > nakSeen

SendBlock ==
  /\ Streaming /\ ~Holding
  /\ Send(Block(gi + 1))
  /\ gi' = gi + 1
  /\ lastAck' = blockack
  /\ UNCHANGED <<phase, manifests, heard, baseAck, nakSeen, resends, stalledAt,
                 drainVars, reports, linkUp, resumeFrom, calm, lockVars>>

\* All the NAKs counted since the last look are answered by one block.
Resend ==
  /\ Streaming /\ Holding /\ NakUnseen
  /\ nakSeen' = nak
  /\ resends' = resends + 1
  /\ lastAck' = blockack
  /\ \/ resends' <= MaxResends /\ Send(Block(confirmed + 1))
     \/ resends' > MaxResends /\ UNCHANGED air
  /\ UNCHANGED <<phase, manifests, heard, gi, baseAck, stalledAt,
                 drainVars, reports, linkUp, resumeFrom, calm, lockVars>>

HoldObserve ==
  /\ Streaming /\ Holding /\ ~NakUnseen
  /\ blockack > lastAck
  /\ lastAck' = blockack
  /\ UNCHANGED <<phase, manifests, heard, gi, baseAck, nakSeen, resends, stalledAt,
                 drainVars, reports, air, linkUp, resumeFrom, calm, lockVars>>

\* Variant of Stall: holding goes on however long no acknowledgement comes.
StallNever ==
  /\ Streaming /\ Holding /\ blockack < lastAck
  /\ phase' = "finish"
  /\ stalledAt' = gi + 1
  /\ UNCHANGED <<manifests, heard, gi, baseAck, lastAck, nakSeen, resends,
                 drainVars, reports, air, linkUp, resumeFrom, calm, lockVars>>

\* No new acknowledgement for stall_s while holding.
Stall ==
  /\ Streaming /\ Holding /\ blockack = lastAck
  /\ TimedOut
  /\ phase' = "finish"
  /\ stalledAt' = gi + 1
  /\ UNCHANGED <<manifests, heard, gi, baseAck, lastAck, nakSeen, resends,
                 drainVars, reports, air, linkUp, resumeFrom, calm, lockVars>>

\* The loop is left once the last block is sent, or at a final status.
StreamEnds ==
  /\ phase = "stream" /\ ~Streaming
  /\ phase' = "finish"
  /\ UNCHANGED <<manifests, heard, gi, baseAck, lastAck, nakSeen, resends, stalledAt,
                 drainVars, reports, air, linkUp, resumeFrom, calm, lockVars>>

\* A write on a dead link raises out of the transfer.
WriteRaises ==
  /\ ~linkUp
  /\ \/ phase = "handshake"
     \/ Streaming /\ ~Holding
     \/ Streaming /\ Holding /\ NakUnseen /\ resends < MaxResends
  /\ phase' = "failed"
  /\ UNCHANGED <<manifests, heard, gi, baseAck, lastAck, nakSeen, resends, stalledAt,
                 drainVars, reports, air, linkUp, resumeFrom, calm, lockVars>>

\* CancelledError at any await, what the caller's progress callback raises, and a
\* dead link at one of the arming reads; drain() ends with the transfer.
Interrupted ==
  /\ ~calm /\ phase \notin Over
  /\ phase' = "failed"
  /\ UNCHANGED <<manifests, heard, gi, baseAck, lastAck, nakSeen, resends, stalledAt,
                 drainVars, reports, air, linkUp, resumeFrom, calm, lockVars>>
-----------------------------------------------------------------------------
(* The main coroutine: end of the transfer.                                *)

\* End-of-data marker, activation and commit, also after a stall or an abort;
\* what a dead link raises is suppressed here.
SendEnd ==
  /\ phase = "finish"
  /\ phase' = "await"
  /\ \/ Send(Control("commit"))
     \/ ~linkUp /\ UNCHANGED air
  /\ UNCHANGED <<manifests, heard, gi, baseAck, lastAck, nakSeen, resends, stalledAt,
                 drainVars, reports, linkUp, resumeFrom, calm, lockVars>>

\* Variant of AwaitEnds: no wait for the final status.
AwaitEndsAtOnce ==
  /\ phase = "await"
  /\ phase' = "returned"
  /\ UNCHANGED <<manifests, heard, gi, baseAck, lastAck, nakSeen, resends, stalledAt,
                 drainVars, reports, air, linkUp, resumeFrom, calm, lockVars>>

\* A final status, or ack_timeout_s over.
AwaitEnds ==
  /\ phase = "await"
  /\ status # "none" \/ TimedOut
  /\ phase' = "returned"
  /\ UNCHANGED <<manifests, heard, gi, baseAck, lastAck, nakSeen, resends, stalledAt,
                 drainVars, reports, air, linkUp, resumeFrom, calm, lockVars>>
-----------------------------------------------------------------------------
(* The drain coroutine.                                                    *)

Drain ==
  /\ phase \notin Over /\ reports # <<>>
  /\ LET r == Head(reports) IN
       /\ blockack' = IF r = "ack" THEN blockack + 1 ELSE blockack
       /\ nak'      = IF r = "nak" THEN nak + 1 ELSE nak
       /\ manifestAcked' = (manifestAcked \/ r \in {"info", "success", "abort"})
       /\ status'   = IF r \in {"success", "abort"} THEN r ELSE status
  /\ reports' = Tail(reports)
  /\ heard' = TRUE
  /\ UNCHANGED <<phase, manifests, gi, baseAck, lastAck, nakSeen, resends, stalledAt,
                 air, linkUp, resumeFrom, calm, lockVars>>
-----------------------------------------------------------------------------
(* The lock and the link.                                                  *)

\* The lock takes the next frame and reports on it.
Takes(kind, answer) ==
  /\ air # <<>> /\ Head(air).kind = kind
  /\ air' = Tail(air)
  /\ reports' = reports \o answer
  /\ UNCHANGED <<senderVars, drainVars, linkUp, resumeFrom, calm>>

\* A manifest that finds the lock present resets its receiver.
LockTakesManifest ==
  /\ present
  /\ Takes("manifest", <<"info">>)
  /\ receiver' = "receiving" /\ accepted' = 0
  /\ UNCHANGED <<present, faults>>

LockTakesInit ==
  /\ receiver = "receiving"
  /\ Takes("init", <<"ack">>) \/ Takes("init", <<"marker", "ack">>)
  /\ UNCHANGED lockVars

LockTakesBlock ==
  /\ receiver = "receiving"
  /\ Takes("block", <<"ack">>)
  /\ Head(air).n = accepted + 1
  /\ accepted' = accepted + 1
  /\ UNCHANGED <<present, receiver, faults>>

\* A damaged block, a block out of turn: NAK, or no word at all.
LockRefusesBlock ==
  /\ receiver = "receiving"
  /\ Takes("block", <<"nak">>) \/ Takes("block", <<>>)
  /\ \/ Head(air).n # accepted + 1 /\ UNCHANGED faults
     \/ ~calm /\ faults < MaxFaults /\ faults' = faults + 1
  /\ UNCHANGED <<present, receiver, accepted>>

\* The pack is installed only if all of it has arrived.
LockTakesCommit ==
  /\ receiver = "receiving"
  /\ \/ accepted = NBlocks /\ Takes("commit", <<"success">>) /\ receiver' = "complete"
     \/ accepted # NBlocks /\ Takes("commit", <<"abort">>) /\ receiver' = "aborted"
  /\ UNCHANGED <<present, accepted, faults>>

LockIgnores ==
  /\ \/ ~present /\ Takes("manifest", <<>>)
     \/ receiver # "receiving" /\ \E k \in {"init", "block", "commit"} : Takes(k, <<>>)
  /\ UNCHANGED lockVars

LockAborts ==
  /\ ~calm /\ receiver = "receiving" /\ linkUp
  /\ receiver' = "aborted"
  /\ reports' = Append(reports, "abort")
  /\ UNCHANGED <<senderVars, drainVars, air, linkUp, resumeFrom, calm,
                 present, accepted, faults>>

KeypadTouched ==
  /\ ~present
  /\ present' = TRUE
  /\ UNCHANGED <<senderVars, drainVars, reports, air, linkUp, resumeFrom, calm,
                 receiver, accepted, faults>>

\* Frames in flight are gone; reports already queued stay.
LinkDrops ==
  /\ ~calm /\ linkUp
  /\ linkUp' = FALSE
  /\ air' = <<>>
  /\ \E n \in 0 .. Len(reports) : reports' = SubSeq(reports, 1, n)
  /\ UNCHANGED <<senderVars, drainVars, resumeFrom, calm, lockVars>>
-----------------------------------------------------------------------------
Sender ==
  \/ SendManifest \/ SendInit \/ InitWaitEnds \/ Resume
  \/ SendBlock \/ Resend \/ HoldObserve \/ Stall \/ StreamEnds \/ WriteRaises
  \/ SendEnd \/ AwaitEnds

Lock ==
  \/ LockTakesManifest \/ LockTakesInit \/ LockTakesBlock \/ LockRefusesBlock
  \/ LockTakesCommit \/ LockIgnores

Finished == phase \in Over /\ UNCHANGED vars

Next == Sender \/ Interrupted \/ Drain \/ Lock \/ LockAborts \/ KeypadTouched \/ LinkDrops \/ Finished

\* Every wait of the main coroutine for the lock has a deadline, its writes ask
\* for no response, and the event loop runs both coroutines; frames and reports under way arrive.  Nobody has to touch the
\* keypad, abort, cancel or drop the link.
Fairness == WF_vars(Sender) /\ WF_vars(Drain) /\ WF_vars(Lock)

Spec == Init /\ [][Next]_vars
FairSpec == Spec /\ Fairness
-----------------------------------------------------------------------------
(* Properties.                                                             *)

\* The counters, queues and states of sender and lock are of their kinds; in
\* particular no frame past the last block is ever built (groups[gi]).
TypeOK ==
  /\ phase \in Phases /\ manifests \in 0 .. MaxManifests /\ heard \in BOOLEAN
  /\ gi \in Nat /\ baseAck \in Nat /\ lastAck \in Nat /\ nakSeen \in Nat
  /\ resends \in Nat /\ stalledAt \in Nat
  /\ manifestAcked \in BOOLEAN /\ blockack \in Nat /\ nak \in Nat /\ status \in Statuses
  /\ reports \in Seq(Reports) /\ air \in Seq(Frames)
  /\ linkUp \in BOOLEAN /\ resumeFrom \in Nat /\ calm \in BOOLEAN
  /\ present \in BOOLEAN /\ receiver \in Receivers /\ accepted \in Nat /\ faults \in 0 .. MaxFaults

\* Flow control as the lock sees it: the sender is never more than a window
\* ahead of the blocks the lock has accepted, plus the one a late
\* acknowledgement of the init frame is worth (ota.py:211-214, 280).
FlowControl == gi <= resumeFrom \/ gi <= accepted + Window + 1

\* A stall is reported for a block the lock really has not got: a caller that
\* reads stalled_at is not told so of a transfer that is complete.
StallIsHonest == stalledAt # 0 => stalledAt \in accepted + 1 .. NBlocks

\* Where all goes well a transfer from the first block succeeds, however the two
\* coroutines and the lock interleave.
CleanTransferSucceeds ==
  calm /\ resumeFrom = 0 => stalledAt = 0 /\ (phase \in Over => status = "success")

\* The transfer ends, whatever the lock and the link do.
Returns == phase \in {"handshake", "resume"} ~> phase \in Over

\* ota.py:147-148: "Advance only on a real 0x1106; retransmit on 0x1115".  The
\* streaming loop does not end normally with a counted NAK unanswered.
LastNakAnswered ==
  [][phase = "stream" /\ phase' = "finish" /\ stalledAt' = 0 /\ status = "none"
       => ~NakUnseen]_vars

\* ota.py:178-179: on a resume "we go straight to streaming from resume_from".
ResumeStreams == stalledAt # 0 => gi > resumeFrom
=============================================================================
