----------------------------- MODULE AuthFraming -----------------------------
(***************************************************************************)
(* The frames of the key exchange on the auth channel (aqara_ble/          *)
(* framing.py; write_auth_message and read_full_auth_message of            *)
(* aqara_ble/session.py).  A message crosses the link in fragments of 18   *)
(* bytes, numbered but for the last, which is marked 0xFF; the reader      *)
(* collects fragments up to that mark and checks their order and the       *)
(* length the header declares.  The CRC of the header is not looked at.    *)
(* LockSession takes each message as arriving or failing; here are the     *)
(* fragments, and a link that loses and repeats them.                      *)
(***************************************************************************)
EXTENDS Naturals, Sequences

CONSTANTS
  KeyLen,      \* bytes of a public key, 65
  VerifyLen,   \* bytes of the verify data
  MaxReads,    \* messages read for the lock's key, 6
  MaxAcks,     \* bound: empty acknowledgements before the lock's key
  LateAcks,    \* the lock may send one more after its key
  MaxFaults    \* bound: fragments lost, repeated or of one byte, on both ways together

Chunk  == 18
Header == 18

ASSUME FramingConstantsOK ==
  /\ KeyLen \in Nat /\ KeyLen >= 33 /\ KeyLen % Chunk # 0
  /\ VerifyLen \in Nat
  /\ MaxReads \in Nat \ {0} /\ MaxAcks \in Nat /\ MaxFaults \in Nat
  /\ LateAcks \in BOOLEAN

VARIABLES
  pc,       \* where the session is in the exchange
  sent,     \* fragments written of the frame under way
  torn,     \* the lock lacks a fragment of the frame under way
  pending,  \* the frame the lock has yet to answer
  line,     \* the fragments the lock has yet to notify
  authq,    \* auth_queue
  stray,    \* the fragment before authq that belongs to no message
  frags,    \* fragments of read_full_auth_message
  reads,    \* messages read for the key
  key,      \* the fragments of the message taken for the key
  faults    \* fragments lost, repeated or of one byte so far

vars == <<pc, sent, torn, pending, line, authq, stray, frags, reads, key, faults>>
-----------------------------------------------------------------------------
(* Messages and their fragments.                                           *)

AppFrames  == {"pub", "verify"}
LockFrames == {"ack06", "key", "ack07"}

BodyLen(m) == CASE m = "key" -> KeyLen [] m = "pub" -> KeyLen
                [] m = "verify" -> VerifyLen [] OTHER -> 0
FrameType(m) == IF m \in {"verify", "ack07"} THEN 7 ELSE 6

\* The number of fragments, and the bytes of each.
Count(m) == (Header + BodyLen(m) + Chunk - 1) \div Chunk
IsLast(f) == f.part = Count(f.of) - 1
Size(f) == IF IsLast(f) THEN Header + BodyLen(f.of) - Chunk * f.part ELSE Chunk

\* fragment_auth_message
Fragments(m) == [i \in 1 .. Count(m) |-> [of |-> m, part |-> i - 1]]
AllFragments ==
  {f \in [of : LockFrames, part : 0 .. Count("key") - 1] : f.part < Count(f.of)}

\* Variant of InOrder: the numbers are not compared.
AnyOrder(fs) == TRUE

\* assemble_auth_fragments: the numbers of all but the last; the last one's
\* mark has no number to check.
InOrder(fs) == \A i \in 1 .. Len(fs) - 1 : fs[i].part = i - 1

\* Every fragment but the last is full.
Bytes(fs) == Chunk * (Len(fs) - 1) + Size(fs[Len(fs)])

\* parse_auth_message: the header is that of the first fragment; bytes beyond
\* the body it declares are dropped.  What begins with the last fragment of a
\* longer message is shorter than a header.
Parses(fs) ==
  /\ Bytes(fs) >= Header
  /\ Bytes(fs) - Header >= BodyLen(fs[1].of)
-----------------------------------------------------------------------------
Phases  == {"writeKey", "readKey", "cloud", "writeVerify", "readAck", "done", "failed"}
Writing == {"writeKey", "writeVerify"}
Reading == {"readKey", "readAck"}
Over    == {"done", "failed"}

Init ==
  /\ pc = "writeKey" /\ sent = 0 /\ torn = FALSE /\ pending = "none"
  /\ line = <<>> /\ authq = <<>> /\ stray = "none" /\ frags = <<>>
  /\ reads = 0 /\ key = <<>> /\ faults = 0

(* The session.                                                            *)

Frame == IF pc = "writeKey" THEN "pub" ELSE "verify"

\* write_auth_message: one fragment, without a response; the stack may drop it.
WriteFragment ==
  /\ pc \in Writing
  /\ LET last == sent + 1 = Count(Frame) IN
       /\ sent' = IF last THEN 0 ELSE sent + 1
       /\ pc' = IF ~last THEN pc ELSE IF pc = "writeKey" THEN "readKey" ELSE "readAck"
       /\ \/ /\ torn' = (torn /\ ~last)
             /\ pending' = IF ~last THEN pending ELSE IF torn THEN "torn" ELSE Frame
             /\ UNCHANGED faults
          \/ /\ faults < MaxFaults /\ faults' = faults + 1
             /\ torn' = TRUE
             /\ UNCHANGED pending
  /\ UNCHANGED <<line, authq, stray, frags, reads, key>>

\* read_full_auth_message: collect up to the last fragment of a message.
Collect ==
  /\ pc \in Reading /\ stray = "none" /\ authq # <<>> /\ ~IsLast(Head(authq))
  /\ authq' = Tail(authq)
  /\ frags' = Append(frags, Head(authq))
  /\ UNCHANGED <<pc, sent, torn, pending, line, stray, reads, key, faults>>

\* An empty fragment is passed over, and the wait for the next one begins anew.
SkipEmpty ==
  /\ pc \in Reading /\ stray = "empty"
  /\ stray' = "none"
  /\ UNCHANGED <<pc, sent, torn, pending, line, authq, frags, reads, key, faults>>

\* One of a single byte has no fragment[1]: the IndexError ends the exchange.
BreakOff ==
  /\ pc \in Reading /\ stray = "byte"
  /\ stray' = "none"
  /\ pc' = "failed"
  /\ UNCHANGED <<sent, torn, pending, line, authq, frags, reads, key, faults>>

Got == Append(frags, Head(authq))
Complete == stray = "none" /\ authq # <<>> /\ IsLast(Head(authq))

\* The bookkeeping of a message that is complete, good or not.
EndMessage ==
  /\ authq' = Tail(authq)
  /\ frags' = <<>>
  /\ UNCHANGED <<sent, torn, pending, line, stray, faults>>

Rejected ==
  /\ pc \in Reading /\ Complete
  /\ ~(InOrder(Got) /\ Parses(Got))
  /\ pc' = "failed"
  /\ EndMessage
  /\ UNCHANGED <<reads, key>>

IsKey(m) == FrameType(m) = 6 /\ BodyLen(m) >= 33

TakeKey ==
  /\ pc = "readKey" /\ Complete
  /\ InOrder(Got) /\ Parses(Got) /\ IsKey(Got[1].of)
  /\ pc' = "cloud"
  /\ reads' = reads + 1
  /\ key' = Got
  /\ EndMessage

\* Variants of LastRead: one message short of the limit, and no limit.
LastReadEarly == reads + 2 = MaxReads
LastReadNever == FALSE

LastRead == reads + 1 = MaxReads

TakeAck06 ==
  /\ pc = "readKey" /\ Complete
  /\ InOrder(Got) /\ Parses(Got) /\ ~IsKey(Got[1].of)
  /\ pc' = IF LastRead THEN "failed" ELSE pc
  /\ reads' = reads + 1
  /\ EndMessage
  /\ UNCHANGED key

CloudVerifies ==
  /\ pc = "cloud"
  /\ pc' = "writeVerify"
  /\ UNCHANGED <<sent, torn, pending, line, authq, stray, frags, reads, key, faults>>

TakeAck07 ==
  /\ pc = "readAck" /\ Complete
  /\ InOrder(Got) /\ Parses(Got)
  /\ pc' = IF FrameType(Got[1].of) = 7 THEN "done" ELSE "failed"
  /\ EndMessage
  /\ UNCHANGED <<reads, key>>

\* Variant of ReadTimeout: a read begun waits for the rest of its message.
ReadTimeoutUnbegun ==
  /\ pc \in Reading /\ stray = "none" /\ authq = <<>> /\ frags = <<>>
  /\ pc' = "failed"
  /\ UNCHANGED <<sent, torn, pending, line, authq, stray, frags, reads, key, faults>>

\* No fragment for notify_timeout since the last one, with or without an answer
\* under way; the message as a whole has no limit.
ReadTimeout ==
  /\ pc \in Reading /\ stray = "none" /\ authq = <<>>
  /\ pc' = "failed"
  /\ UNCHANGED <<sent, torn, pending, line, authq, stray, frags, reads, key, faults>>
-----------------------------------------------------------------------------
(* The lock and the link.                                                  *)

Acks(n) == [i \in 1 .. n |-> [of |-> "ack06", part |-> 0]]

\* A frame that is not whole gets an empty acknowledgement.
LockAnswers ==
  /\ pending # "none"
  /\ pending' = "none"
  /\ \/ /\ pending = "pub"
        /\ \E before \in 0 .. MaxAcks, after \in 0 .. (IF LateAcks THEN 1 ELSE 0) :
             line' = line \o Acks(before) \o Fragments("key") \o Acks(after)
     \/ /\ pending = "verify"
        /\ line' = line \o Fragments("ack07")
     \/ /\ pending = "torn"
        /\ \E ack \in {"ack06", "ack07"} : line' = line \o Fragments(ack)
  /\ UNCHANGED <<pc, sent, torn, authq, stray, frags, reads, key, faults>>

Notify ==
  /\ line # <<>>
  /\ line' = Tail(line)
  /\ authq' = Append(authq, Head(line))
  /\ UNCHANGED <<pc, sent, torn, pending, stray, frags, reads, key, faults>>

\* An empty notification, of which the lock may send any number, or one of a
\* single byte.  One that comes behind other fragments is as one that comes
\* once they are read.
Stray ==
  /\ stray = "none" /\ authq = <<>>
  /\ \/ stray' = "empty" /\ UNCHANGED faults
     \/ stray' = "byte" /\ faults < MaxFaults /\ faults' = faults + 1
  /\ UNCHANGED <<pc, sent, torn, pending, line, authq, frags, reads, key>>

LoseNotification ==
  /\ line # <<>> /\ faults < MaxFaults
  /\ line' = Tail(line)
  /\ faults' = faults + 1
  /\ UNCHANGED <<pc, sent, torn, pending, authq, stray, frags, reads, key>>

RepeatNotification ==
  /\ line # <<>> /\ faults < MaxFaults
  /\ authq' = Append(authq, Head(line))
  /\ faults' = faults + 1
  /\ UNCHANGED <<pc, sent, torn, pending, line, stray, frags, reads, key>>
-----------------------------------------------------------------------------
Session == \/ WriteFragment \/ Collect \/ SkipEmpty \/ BreakOff \/ Rejected \/ TakeKey \/ TakeAck06
           \/ CloudVerifies \/ TakeAck07 \/ ReadTimeout
Lock    == LockAnswers \/ Notify \/ Stray
Faults  == LoseNotification \/ RepeatNotification
Ended   == pc \in Over /\ UNCHANGED vars

Next == Session \/ (pc \notin Over /\ (Lock \/ Faults)) \/ Ended

Spec == Init /\ [][Next]_vars

\* The session runs on, and each fragment it waits for has a timeout; the lock
\* may never answer.
FairSpec == Spec /\ WF_vars(Session)
-----------------------------------------------------------------------------
(* Properties.                                                             *)

TypeOK ==
  /\ pc \in Phases /\ sent \in 0 .. Count("pub") + Count("verify")
  /\ torn \in BOOLEAN /\ pending \in AppFrames \cup {"torn", "none"}
  /\ line \in Seq(AllFragments) /\ authq \in Seq(AllFragments)
  /\ frags \in Seq(AllFragments) /\ key \in Seq(AllFragments)
  /\ stray \in {"none", "empty", "byte"}
  /\ reads \in 0 .. MaxReads /\ faults \in 0 .. MaxFaults

\* What the session takes for the lock's key is the key, whole and in order,
\* whatever the link loses or repeats (framing.py:110-144): the numbers and
\* the declared length are enough where the key is the lock's last message.
KeyIntact == key \in {<<>>, Fragments("key")}

\* The lock stops notifying.
FallsSilent == <>[][~(Notify \/ Stray \/ RepeatNotification)]_vars

\* Every exchange ends, in success or failure, whatever the lock sends and
\* wherever it breaks off, if it does not go on for ever: the timeout is one of
\* each fragment, none of the message (session.py:476-484), and a fragment that
\* ends no message, sent in time again and again, keeps the read going.
ExchangeEnds == FallsSilent => (pc = "writeKey" ~> pc \in Over)

\* Where nothing is lost or repeated and the acknowledgements before the key are
\* fewer than the reads, nothing the lock sends is rejected, however its
\* fragments and the reads interleave: only silence fails the exchange, a read
\* with an empty queue (session.py:733-774).
OnlySilenceFails ==
  [][faults = 0 /\ MaxAcks < MaxReads /\ ~LateAcks /\ pc # "failed" /\ pc' = "failed"
       => authq = <<>>]_vars
=============================================================================
