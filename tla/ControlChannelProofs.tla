------------------------ MODULE ControlChannelProofs ------------------------
(***************************************************************************)
(* Follow-up reads get their own answers, for every list of reads whose    *)
(* opcodes differ from each other, from the command's, from the            *)
(* keepalive's and from those of the events.                               *)
(***************************************************************************)
EXTENDS ControlChannel, SequenceTheorems, FiniteSetTheorems, TLAPS

\* What the opcodes of the reads must be for the answers to be told apart.
DistinctOps ==
  /\ \A i \in 1 .. FollowUps : OpOf[i] \notin EventOps \cup {Keepalive, "none"}
  /\ \A i \in 1 .. FollowUps : \A j \in Requests : OpOf[i] = OpOf[j] => i = j

\* The queue of the control channel and what the lock has yet to send on it
\* hold control frames.
ChannelOK == q \in Seq(Control) /\ todo \subseteq Control

\* Where the session is in its reads.
Progress ==
  /\ pc \in Phases
  /\ k \in 0 .. FollowUps
  /\ pc \in {"command", "reply"} => k = 0
  /\ pc = "read" => k < FollowUps
  /\ pc = "match" => k >= 1 /\ Len(out) = k - 1
  /\ pc \in {"command", "reply", "read"} => Len(out) = k

\* The answers so far.
Own == /\ out \in Seq(Frames)
       /\ \A i \in 1 .. Len(out) : i \in 1 .. FollowUps /\ out[i] \in {Nothing, Reply(i)}

\* The events were pushed with opcodes of events.
Counted == pushed \in Seq(Control) /\ Len(pushed) <= MaxEvents

IInv == ChannelOK /\ Progress /\ Own /\ Counted
-----------------------------------------------------------------------------
(* Facts about frames.                                                     *)

\* A frame of the control channel that has the opcode of a read is its reply.
LEMMA OpcodeTells ==
  ASSUME DistinctOps, NEW i \in 1 .. FollowUps, NEW f \in Control,
         f \notin {Empty, Short, Garbled}, f.op = OpOf[i]
  PROVE  f = Reply(i)
<1>1. CASE \E r \in Requests : f = Reply(r)
  <2>1. PICK r \in Requests : f = Reply(r)
    BY <1>1
  <2>2. f.op = OpOf[r]
    BY <2>1 DEF Reply
  <2> QED BY <2>1, <2>2 DEF DistinctOps
<1>2. CASE f = Ack
  <2>1. f.op = Keepalive
    BY <1>2 DEF Ack
  <2> QED BY <2>1 DEF DistinctOps
<1>3. CASE \E o \in EventOps, n \in 1 .. MaxEvents : f = Event(o, n)
  <2>1. f.op \in EventOps
    BY <1>3 DEF Event
  <2> QED BY <2>1 DEF DistinctOps
<1> QED BY <1>1, <1>2, <1>3 DEF Control

\* What the lock and the link may put on the channel.
LEMMA ChannelFrames ==
  /\ \A r \in Requests : Reply(r) \in Control
  /\ Ack \in Control /\ {Empty, Short, Garbled} \subseteq Control
  /\ \A o \in EventOps, n \in 1 .. MaxEvents : Event(o, n) \in Control
  /\ Nothing \in Frames /\ Control \subseteq Frames
BY DEF Control, Frames

\* Taking the first frame leaves control frames.
LEMMA TakeFirst ==
  ASSUME NEW s \in Seq(Control), s # <<>>
  PROVE  Head(s) \in Control /\ Tail(s) \in Seq(Control)
BY HeadTailProperties

\* Adding one too.
LEMMA AddLast ==
  ASSUME NEW s \in Seq(Control), NEW f \in Control
  PROVE  Append(s, f) \in Seq(Control) /\ Len(Append(s, f)) = Len(s) + 1
BY AppendProperties

\* Recording the answer of read k keeps the record right.
LEMMA Recorded ==
  ASSUME Own, k \in 1 .. FollowUps, Len(out) = k - 1,
         NEW f \in {Nothing, Reply(k)}, out' = Append(out, f)
  PROVE  Own' /\ Len(out') = k
<1>1. FollowUps \in Nat
  BY ChannelConstantsOK DEF ChannelConstantsOK
<1>2. k \in Requests
  BY <1>1 DEF Requests
<1>3. f \in Frames
  BY <1>2, ChannelFrames
<1>4. out \in Seq(Frames)
  BY DEF Own
<1>5. /\ out' \in Seq(Frames) /\ Len(out') = Len(out) + 1
      /\ \A i \in 1 .. Len(out) : out'[i] = out[i]
      /\ out'[Len(out) + 1] = f
  BY <1>3, <1>4, AppendProperties
<1>6. Len(out') = k /\ out'[k] = f
  BY <1>1, <1>5
<1>7. ASSUME NEW i \in 1 .. Len(out')
      PROVE  i \in 1 .. FollowUps /\ out'[i] \in {Nothing, Reply(i)}
  <2>1. CASE i = k
    BY <1>6, <2>1
  <2>2. CASE i # k
    <3>1. i \in 1 .. Len(out)
      BY <1>1, <1>6, <2>2
    <3> QED BY <1>5, <3>1 DEF Own
  <2> QED BY <2>1, <2>2
<1> QED BY <1>5, <1>6, <1>7 DEF Own, Reply, Nothing
-----------------------------------------------------------------------------
(* The steps.                                                              *)

\* At the start there is nothing on the channel.
LEMMA InitInv == Init => IInv
<1> SUFFICES ASSUME Init PROVE IInv
  OBVIOUS
<1>1. FollowUps \in Nat /\ MaxEvents \in Nat
  BY ChannelConstantsOK DEF ChannelConstantsOK
<1>2. q = <<>> /\ out = <<>> /\ pushed = <<>> /\ todo = {} /\ pc = "command" /\ k = 0
  BY DEF Init
<1>3. q \in Seq(Control) /\ out \in Seq(Frames) /\ pushed \in Seq(Control)
      /\ Len(out) = 0 /\ Len(pushed) = 0
  BY <1>2, EmptySeq
<1>4. Progress
  BY <1>1, <1>2, <1>3 DEF Progress, Phases
<1> QED BY <1>1, <1>2, <1>3, <1>4 DEF IInv, ChannelOK, Own, Counted

\* A step that leaves the record alone keeps it.
LEMMA OwnUntouched == ASSUME Own, out' = out PROVE Own'
BY DEF Own, Reply, Nothing

\* The command, its reply and the sending of a read.
LEMMA CommandKeeps ==
  ASSUME IInv, SendCommand \/ TakeReply \/ ReplyTimeout \/ SendRead
  PROVE  IInv'
<1>1. FollowUps \in Nat /\ Requests = 0 .. FollowUps
  BY ChannelConstantsOK DEF ChannelConstantsOK, Requests
<1>2. UNCHANGED <<out, pushed>>
  BY DEF SendCommand, TakeReply, ReplyTimeout, SendRead, lockVars
<1>3. Own' /\ Counted'
  BY <1>2, OwnUntouched DEF IInv, Counted
<1>4. ChannelOK'
  <2>1. CASE SendCommand
    BY <1>1, <2>1, ChannelFrames DEF IInv, ChannelOK, SendCommand
  <2>2. CASE TakeReply
    BY <2>2, TakeFirst DEF IInv, ChannelOK, TakeReply
  <2>3. CASE ReplyTimeout
    BY <2>3 DEF IInv, ChannelOK, ReplyTimeout
  <2>4. CASE SendRead
    <3>1. k + 1 \in Requests
      BY <1>1, <2>4 DEF IInv, Progress, SendRead
    <3> QED BY <2>4, <3>1, ChannelFrames DEF IInv, ChannelOK, SendRead
  <2> QED BY <2>1, <2>2, <2>3, <2>4
<1>5. Progress'
  <2>1. AfterReply \in {"read", "listen", "done"} /\ (AfterReply = "read" => FollowUps > 0)
    BY DEF AfterReply, AfterReads
  <2>2. CASE SendCommand
    BY <1>2, <2>2 DEF IInv, Progress, SendCommand, Phases
  <2>3. CASE TakeReply \/ ReplyTimeout
    <3>1. pc = "reply" /\ k' = k /\ pc' \in {AfterReply, "failed"}
      BY <2>3 DEF TakeReply, ReplyTimeout
    <3> QED BY <1>1, <1>2, <2>1, <3>1 DEF IInv, Progress, Phases
  <2>4. CASE SendRead
    BY <1>1, <1>2, <2>4 DEF IInv, Progress, SendRead, Phases
  <2> QED BY <2>2, <2>3, <2>4
<1> QED BY <1>3, <1>4, <1>5 DEF IInv

\* A read that gets its reply or is given up.
LEMMA ReadKeeps ==
  ASSUME DistinctOps, IInv, TakeMatch \/ (ReadTimeout /\ ReadGot(Nothing))
  PROVE  IInv'
<1>1. FollowUps \in Nat
  BY ChannelConstantsOK DEF ChannelConstantsOK
<1>0. pc = "match" /\ UNCHANGED <<k, todo, pushed>>
  BY DEF TakeMatch, ReadTimeout, lockVars
<1>2. pc = "match" /\ k \in 1 .. FollowUps /\ Len(out) = k - 1
      /\ UNCHANGED <<k, todo, pushed>>
  BY <1>0, <1>1 DEF IInv, Progress
<1>3. PICK f \in {Nothing, Reply(k)} : ReadGot(f)
  <2>1. CASE TakeMatch
    <3>1. Head(q) \in Control
      BY <2>1, TakeFirst DEF IInv, ChannelOK, TakeMatch
    <3>2. Head(q) = Reply(k)
      BY <1>2, <2>1, <3>1, OpcodeTells DEF TakeMatch, Matches
    <3> QED BY <2>1, <3>2 DEF TakeMatch
  <2>2. CASE ReadGot(Nothing)
    BY <2>2
  <2> QED BY <2>1, <2>2
<1>4. out' = Append(out, f) /\ pc' = IF k < FollowUps THEN "read" ELSE AfterReads
  BY <1>3 DEF ReadGot
<1>5. Own' /\ Len(out') = k
  BY <1>2, <1>4, Recorded DEF IInv
<1>6. ChannelOK'
  BY <1>2, TakeFirst DEF IInv, ChannelOK, TakeMatch, ReadTimeout
<1>7. Progress'
  BY <1>1, <1>2, <1>4, <1>5 DEF IInv, Progress, AfterReads, Phases
<1> QED BY <1>2, <1>5, <1>6, <1>7 DEF IInv, Counted

\* The rest of the session leaves the reads alone.
LEMMA OtherStepKeeps ==
  ASSUME IInv, PassOver \/ ReadFails \/ Listen \/ Wake \/ ListenFails \/ ListenOver
               \/ GetControl \/ GetReport \/ WindowCloses
               \/ (ReadTimeout /\ ~ReadGot(Nothing))
  PROVE  IInv'
<1>1. UNCHANGED <<out, k, pushed>>
  BY DEF PassOver, ReadFails, ReadTimeout, Listen, Wake, ListenFails, ListenOver, GetControl, GetReport,
         WindowCloses, lockVars
<1>2. pc' = pc \/ pc' \in {"listen", "wait", "done", "failed"}
  BY DEF PassOver, ReadFails, ReadTimeout, Listen, Wake, ListenFails, ListenOver, GetControl, GetReport,
         WindowCloses
<1>3. q' = q \/ (q # <<>> /\ q' = Tail(q))
  BY DEF PassOver, ReadFails, ReadTimeout, Listen, Wake, ListenFails, ListenOver, GetControl, GetReport,
         WindowCloses
<1>4. todo' = todo \/ todo' = todo \cup {Ack}
  BY DEF PassOver, ReadFails, ReadTimeout, Listen, Wake, ListenFails, ListenOver, GetControl, GetReport,
         WindowCloses
<1>5. ChannelOK'
  BY <1>3, <1>4, TakeFirst, ChannelFrames DEF IInv, ChannelOK
<1>6. Progress'
  BY <1>1, <1>2 DEF IInv, Progress, Phases
<1> QED BY <1>1, <1>5, <1>6, OwnUntouched DEF IInv, Counted

\* What the lock sends goes to the end of the queue.
LEMMA LockKeeps == ASSUME IInv, Lock PROVE IInv'
<1>1. UNCHANGED sessionVars
  BY DEF Lock, LockAnswers, LockPushes, LockReports, BadFrame
<1>2. Own' /\ Progress'
  BY <1>1, OwnUntouched DEF IInv, Progress, sessionVars
<1>3. ChannelOK' /\ Counted'
  <2>1. CASE LockAnswers
    BY <2>1, AddLast DEF IInv, ChannelOK, Counted, LockAnswers, lockVars
  <2>2. CASE LockPushes
    <3>1. MaxEvents \in Nat /\ Len(pushed) \in Nat
      BY ChannelConstantsOK, LenProperties DEF ChannelConstantsOK, IInv, Counted
    <3>2. PICK o \in EventOps :
            /\ pushed' = Append(pushed, Event(o, Len(pushed) + 1))
            /\ q' = Append(q, Event(o, Len(pushed) + 1))
      BY <2>2 DEF LockPushes
    <3>3. Event(o, Len(pushed) + 1) \in Control /\ Len(pushed) + 1 <= MaxEvents
      BY <2>2, <3>1, ChannelFrames DEF LockPushes
    <3> QED BY <2>2, <3>2, <3>3, AddLast DEF IInv, ChannelOK, Counted, LockPushes
  <2>3. CASE LockReports
    BY <2>3 DEF IInv, ChannelOK, Counted, LockReports
  <2>4. CASE BadFrame
    BY <2>4, AddLast, ChannelFrames DEF IInv, ChannelOK, Counted, BadFrame
  <2> QED BY <2>1, <2>2, <2>3, <2>4 DEF Lock
<1> QED BY <1>2, <1>3 DEF IInv
-----------------------------------------------------------------------------
(* The theorem.                                                            *)

\* Every step keeps the inductive invariant.
LEMMA StepInv == ASSUME DistinctOps PROVE IInv /\ [Next]_vars => IInv'
<1> SUFFICES ASSUME IInv, [Next]_vars PROVE IInv'
  OBVIOUS
<1>1. CASE Step
  BY <1>1, CommandKeeps, ReadKeeps, OtherStepKeeps DEF Step
<1>2. CASE Gets \/ WindowCloses
  BY <1>2, OtherStepKeeps DEF Gets
<1>3. CASE Lock
  BY <1>3, LockKeeps
<1>4. CASE UNCHANGED vars
  <2>1. UNCHANGED <<q, todo, out, pushed, pc, k>>
    BY <1>4 DEF vars, sessionVars, lockVars
  <2> QED BY <2>1, OwnUntouched DEF IInv, ChannelOK, Progress, Counted
<1> QED BY <1>1, <1>2, <1>3, <1>4 DEF Next, Ended

\* Follow-up reads get their own answers or none, however late, many or mixed
\* the frames on the channel are, if their opcodes are distinct.
THEOREM OwnAnswers == ASSUME DistinctOps PROVE Spec => []ReadsGetTheirOwn
<1>1. IInv => ReadsGetTheirOwn
  BY DEF IInv, Own, ReadsGetTheirOwn
<1>2. IInv /\ [Next]_vars => IInv'
  BY StepInv
<1> QED BY InitInv, <1>1, <1>2, PTL DEF Spec
-----------------------------------------------------------------------------
(* The types, whatever the opcodes are.                                    *)

\* The two kinds of frames the session tells apart.
Answers      == {Reply(r) : r \in Requests} \cup {Ack}
ReportFrames == {Report(n) : n \in 1 .. MaxReports}

\* What the lock owes are answers, and what it pushed are numbered events.
Sent ==
  /\ todo \subseteq Answers
  /\ Len(pushed) <= MaxEvents
  /\ \A i \in 1 .. Len(pushed) : \E o \in EventOps : pushed[i] = Event(o, i)

TypeInv == TypeOK /\ Progress /\ Sent

\* What the constants give.
LEMMA Numbers ==
  /\ FollowUps \in Nat /\ MaxEvents \in Nat /\ MaxReports \in Nat
  /\ MaxBad \in Nat /\ MaxPolls \in Nat
  /\ Requests = 0 .. FollowUps /\ 0 \in Requests
BY ChannelConstantsOK DEF ChannelConstantsOK, Requests

\* The frames the actions put somewhere are of the kinds that belong there.
LEMMA FrameKinds ==
  /\ Answers \subseteq Control
  /\ ReportFrames \subseteq Frames /\ ReportFrames \cup {Nothing} \subseteq Frames
  /\ Control \cup {Nothing} \subseteq Frames
BY ChannelFrames DEF Answers, ReportFrames, Control, Frames

\* Handing the consumer one more frame, or none, keeps what it was told a
\* sequence of frames.
LEMMA TellKeeps ==
  ASSUME told \in Seq(Frames), NEW s \in Seq(Frames), Tell(s)
  PROVE  told' \in Seq(Frames)
BY ConcatProperties DEF Tell

LEMMA InitTypeInv == Init => TypeInv
<1> SUFFICES ASSUME Init PROVE TypeInv
  OBVIOUS
<1>1. <<>> \in Seq(Frames) /\ <<>> \in Seq(Control) /\ <<>> \in Seq(ReportFrames)
      /\ Len(<<>>) = 0
  BY EmptySeq
<1>2. TypeOK
  <2>1. /\ pc \in Phases /\ k \in 0 .. FollowUps /\ skipped \in BOOLEAN
        /\ expired \in BOOLEAN /\ polls \in 0 .. MaxPolls
        /\ reports \in 0 .. MaxReports /\ bad \in 0 .. MaxBad
    <3>1. /\ pc = "command" /\ k = 0 /\ skipped = FALSE /\ expired = FALSE
          /\ polls = 0 /\ reports = 0 /\ bad = 0
      BY DEF Init
    <3>2. /\ 0 \in 0 .. FollowUps /\ 0 \in 0 .. MaxPolls
          /\ 0 \in 0 .. MaxReports /\ 0 \in 0 .. MaxBad
      BY Numbers
    <3> QED BY <3>1, <3>2 DEF Phases
  <2>2. /\ response \in Control \cup {Nothing} /\ getC \in Control \cup {Nothing}
        /\ {getR, dropped} \subseteq ReportFrames \cup {Nothing} /\ todo \subseteq Control
    BY DEF Init
  <2>3. /\ out \in Seq(Frames) /\ told \in Seq(Frames) /\ Len(out) <= k
        /\ q \in Seq(Control) /\ rq \in Seq(ReportFrames) /\ pushed \in Seq(Control)
    BY <1>1 DEF Init
  <2> QED BY <2>1, <2>2, <2>3 DEF TypeOK, ReportFrames
<1>3. Progress /\ Sent
  BY <1>1, Numbers DEF Init, Progress, Sent, Phases
<1> QED BY <1>2, <1>3 DEF TypeInv

\* The command, its reply and the sending of a read.
LEMMA CommandTypes ==
  ASSUME TypeInv, SendCommand \/ TakeReply \/ ReplyTimeout \/ SendRead
  PROVE  TypeInv'
<1> USE DEF TypeInv, TypeOK, lockVars
<1>1. AfterReply \in {"read", "listen", "done"} /\ (AfterReply = "read" => FollowUps > 0)
  BY DEF AfterReply, AfterReads
<1>2. CASE SendCommand
  <2>1. todo' \subseteq Answers /\ todo' \subseteq Control
    BY <1>2, Numbers, FrameKinds DEF SendCommand, Answers
  <2>2. TypeOK'
    BY <1>2, <2>1, Numbers DEF SendCommand, Phases
  <2>3. Progress' /\ Sent'
    BY <1>2, <2>1, Numbers DEF SendCommand, Progress, Sent, Phases, Event
  <2> QED BY <2>2, <2>3
<1>3. CASE TakeReply
  <2>1. Head(q) \in Control /\ q' \in Seq(Control) /\ pc' \in {AfterReply, "failed"}
    BY <1>3, TakeFirst DEF TakeReply
  <2>2. TypeOK'
    BY <1>1, <1>3, <2>1, Numbers DEF TakeReply, Phases
  <2>3. Progress' /\ Sent'
    BY <1>1, <1>3, <2>1, Numbers DEF TakeReply, Progress, Sent, Phases, Event
  <2> QED BY <2>2, <2>3
<1>4. CASE ReplyTimeout
  <2>0. pc' \in {AfterReply, "failed"}
    BY <1>4 DEF ReplyTimeout
  <2>1. TypeOK'
    BY <1>1, <1>4, <2>0, Numbers DEF ReplyTimeout, Phases
  <2>2. Progress' /\ Sent'
    BY <1>1, <1>4, <2>0, Numbers DEF ReplyTimeout, Progress, Sent, Phases, Event
  <2> QED BY <2>1, <2>2
<1>5. CASE SendRead
  <2>1. k + 1 \in Requests /\ k + 1 \in 0 .. FollowUps /\ k' = k + 1 /\ Len(out) = k
    BY <1>5, Numbers DEF SendRead, Progress
  <2>2. todo' \subseteq Answers /\ todo' \subseteq Control
    BY <1>5, <2>1, FrameKinds DEF SendRead, Answers, Sent
  <2>3. /\ UNCHANGED <<response, out, told, getC, getR, dropped, expired, polls, q, rq, lockVars>>
        /\ pc' = "match" /\ skipped' = FALSE
    BY <1>5 DEF SendRead
  <2>4. Len(out') <= k' /\ Len(out') = k' - 1 /\ k' >= 1 /\ k' \in 0 .. FollowUps
    BY <2>1, <2>3, Numbers
  <2>5. TypeOK'
    BY <2>2, <2>3, <2>4 DEF Phases
  <2>6. Progress' /\ Sent'
    BY <2>2, <2>3, <2>4 DEF Progress, Sent, Phases, Event
  <2> QED BY <2>5, <2>6
<1> QED BY <1>2, <1>3, <1>4, <1>5

\* A read that ends, and a frame it passes over.
LEMMA ReadTypes ==
  ASSUME TypeInv, TakeMatch \/ ReadTimeout \/ PassOver \/ ReadFails
  PROVE  TypeInv'
<1> USE DEF TypeInv, TypeOK, lockVars
<1>1. CASE TakeMatch \/ (ReadTimeout /\ ReadGot(Nothing))
  <2>1. PICK f \in Frames : ReadGot(f)
    BY <1>1, TakeFirst, ChannelFrames DEF TakeMatch
  <2>2. /\ out' \in Seq(Frames) /\ Len(out') = Len(out) + 1
        /\ pc' = IF k < FollowUps THEN "read" ELSE AfterReads
    BY <2>1, AppendProperties DEF ReadGot
  <2>3. k >= 1 /\ Len(out) = k - 1 /\ k \in 0 .. FollowUps /\ Len(out') = k
    <3>1. pc = "match"
      BY <1>1 DEF TakeMatch, ReadTimeout
    <3> QED BY <2>2, <3>1, Numbers DEF Progress
  <2>4. q' \in Seq(Control)
    BY <1>1, TakeFirst DEF TakeMatch, ReadTimeout
  <2>5. UNCHANGED <<k, skipped, response, told, getC, getR, dropped, expired, polls, rq, todo, lockVars>>
    BY <1>1 DEF TakeMatch, ReadTimeout
  <2>6. pc' \in {"read", "listen", "done"} /\ (pc' = "read" => k < FollowUps)
    BY <2>2 DEF AfterReads
  <2>7. TypeOK'
    BY <2>2, <2>3, <2>4, <2>5, <2>6, Numbers DEF Phases
  <2>8. Progress' /\ Sent'
    BY <2>3, <2>5, <2>6, Numbers DEF Progress, Sent, Phases, Event
  <2> QED BY <2>7, <2>8
<1>2. CASE PassOver
  <2>1. Head(q) \in Control /\ q' \in Seq(Control)
    BY <1>2, TakeFirst DEF PassOver
  <2>2. (IF Head(q) \in {Empty, Short} THEN <<>> ELSE <<Head(q)>>) \in Seq(Frames)
    BY <2>1, ChannelFrames
  <2>3. told' \in Seq(Frames)
    BY <1>2, <2>2, TellKeeps DEF PassOver
  <2>4. UNCHANGED <<pc, k, response, out, getC, getR, dropped, expired, polls, rq, todo, lockVars>>
        /\ skipped' = TRUE
    BY <1>2 DEF PassOver
  <2>5. TypeOK'
    BY <2>1, <2>3, <2>4
  <2>6. Progress' /\ Sent'
    BY <2>4 DEF Progress, Sent, Event
  <2> QED BY <2>5, <2>6
<1>3. CASE ReadFails \/ (ReadTimeout /\ ~ReadGot(Nothing))
  <2>1. q' \in Seq(Control) /\ pc' = "failed"
    BY <1>3, TakeFirst DEF ReadFails, ReadTimeout
  <2>2. UNCHANGED <<k, skipped, response, out, told, getC, getR, dropped, expired, polls,
                    rq, todo, lockVars>>
    BY <1>3 DEF ReadFails, ReadTimeout
  <2>3. TypeOK'
    BY <2>1, <2>2 DEF Phases
  <2>4. Progress' /\ Sent'
    BY <2>1, <2>2 DEF Progress, Sent, Phases, Event
  <2> QED BY <2>3, <2>4
<1> QED BY <1>1, <1>2, <1>3

\* The listen window.
LEMMA ListenTypes ==
  ASSUME TypeInv, Listen \/ Wake \/ ListenFails \/ ListenOver \/ GetControl \/ GetReport
                  \/ WindowCloses
  PROVE  TypeInv'
<1> USE DEF TypeInv, TypeOK, lockVars
<1>0. /\ UNCHANGED <<k, skipped, response, out, pushed, reports, bad>>
      /\ pc' = pc \/ pc' \in {"listen", "wait", "done", "failed"}
  BY DEF Listen, Wake, ListenFails, ListenOver, GetControl, GetReport, WindowCloses
<1>1. Progress'
  BY <1>0 DEF Progress, Phases
<1>2. todo' = todo \/ todo' = todo \cup {Ack}
  BY DEF Listen, Wake, ListenFails, ListenOver, GetControl, GetReport, WindowCloses
<1>3. Sent' /\ todo' \subseteq Control
  BY <1>0, <1>2, FrameKinds DEF Sent, Answers, Event
<1>4. expired' \in BOOLEAN /\ polls' \in 0 .. MaxPolls
  <2>1. expired' \in BOOLEAN
    BY DEF Listen, Wake, ListenFails, ListenOver, GetControl, GetReport, WindowCloses
  <2>2. polls' = polls \/ (polls < MaxPolls /\ polls' = polls + 1)
    BY DEF Listen, Wake, ListenFails, ListenOver, GetControl, GetReport, WindowCloses
  <2> QED BY <2>1, <2>2, Numbers
<1>5. q' \in Seq(Control) /\ getC' \in Control \cup {Nothing}
  <2>1. CASE GetControl
    BY <2>1, TakeFirst DEF GetControl
  <2>2. CASE ~GetControl
    BY <2>2 DEF Listen, Wake, ListenFails, ListenOver, GetReport, WindowCloses
  <2> QED BY <2>1, <2>2
<1>6. rq' \in Seq(ReportFrames) /\ {getR', dropped'} \subseteq ReportFrames \cup {Nothing}
  <2>1. rq \in Seq(ReportFrames) /\ {getR, dropped} \subseteq ReportFrames \cup {Nothing}
    BY DEF ReportFrames
  <2>2. CASE GetReport
    <3>1. rq # <<>> /\ getR' = Head(rq) /\ rq' = Tail(rq) /\ dropped' = dropped
      BY <2>2 DEF GetReport
    <3> QED BY <2>1, <3>1, HeadTailProperties
  <2>3. CASE ~GetReport
    BY <2>1, <2>3 DEF Listen, Wake, ListenFails, ListenOver, GetControl, WindowCloses
  <2> QED BY <2>2, <2>3
<1>7. told' \in Seq(Frames)
  <2>1. CASE Wake
    <3>1. Heard \in Seq(Frames)
      BY FrameKinds DEF Heard
    <3>2. (IF getR = Nothing THEN <<>> ELSE <<getR>>) \in Seq(Frames)
      BY FrameKinds DEF ReportFrames
    <3> QED BY <2>1, <3>1, <3>2, TellKeeps, ConcatProperties DEF Wake
  <2>2. CASE ~Wake
    BY <2>2 DEF Listen, ListenFails, ListenOver, GetControl, GetReport, WindowCloses
  <2> QED BY <2>1, <2>2
<1>8. pc' \in Phases
  BY <1>0 DEF Phases
<1>9. TypeOK'
  BY <1>0, <1>3, <1>4, <1>5, <1>6, <1>7, <1>8 DEF ReportFrames
<1> QED BY <1>1, <1>3, <1>9

\* What the lock sends.
LEMMA LockTypes == ASSUME TypeInv, Lock PROVE TypeInv'
<1> USE DEF TypeInv, TypeOK, lockVars
<1>0. UNCHANGED sessionVars
  BY DEF Lock, LockAnswers, LockPushes, LockReports, BadFrame
<1>1. Progress'
  BY <1>0 DEF Progress, sessionVars
<1>2. CASE LockAnswers \/ BadFrame
  <2>1. PICK f \in Control : q' = Append(q, f)
    BY <1>2, ChannelFrames DEF LockAnswers, BadFrame
  <2>2. q' \in Seq(Control)
    BY <2>1, AddLast
  <2>3. todo' \subseteq todo /\ UNCHANGED <<rq, pushed, reports>> /\ bad' \in 0 .. MaxBad
    <3>1. CASE LockAnswers
      BY <3>1 DEF LockAnswers
    <3>2. CASE BadFrame
      BY <3>2, Numbers DEF BadFrame
    <3> QED BY <1>2, <3>1, <3>2
  <2>4. Sent'
    BY <2>3 DEF Sent, Event
  <2>5. TypeOK'
    BY <1>0, <2>2, <2>3 DEF sessionVars
  <2> QED BY <1>1, <2>4, <2>5
<1>3. CASE LockPushes
  <2> DEFINE n == Len(pushed) + 1
  <2>1. PICK o \in EventOps :
          pushed' = Append(pushed, Event(o, n)) /\ q' = Append(q, Event(o, n))
    BY <1>3 DEF LockPushes
  <2>2. Len(pushed) \in Nat
    BY LenProperties
  <2>3. n \in 1 .. MaxEvents
    BY <1>3, <2>2, Numbers DEF LockPushes
  <2>4. Event(o, n) \in Control
    BY <2>3, ChannelFrames
  <2>5. q' \in Seq(Control) /\ pushed' \in Seq(Control) /\ Len(pushed') = n
        /\ (\A i \in 1 .. Len(pushed) : pushed'[i] = pushed[i]) /\ pushed'[n] = Event(o, n)
    BY <2>1, <2>4, AppendProperties
  <2>6. UNCHANGED <<todo, rq, reports, bad>>
    BY <1>3 DEF LockPushes
  <2>7. ASSUME NEW i \in 1 .. Len(pushed') PROVE \E x \in EventOps : pushed'[i] = Event(x, i)
    <3>1. CASE i = n
      BY <2>5, <3>1
    <3>2. CASE i # n
      <4>1. i \in 1 .. Len(pushed)
        BY <2>2, <2>5, <3>2
      <4> QED BY <2>5, <4>1 DEF Sent
    <3> QED BY <3>1, <3>2
  <2>8. Sent'
    BY <2>3, <2>5, <2>6, <2>7 DEF Sent, Event
  <2>9. TypeOK'
    BY <1>0, <2>5, <2>6 DEF sessionVars
  <2> QED BY <1>1, <2>8, <2>9
<1>4. CASE LockReports
  <2>1. rq' = Append(rq, Report(reports + 1)) /\ reports' = reports + 1 /\ reports < MaxReports
        /\ UNCHANGED <<q, todo, pushed, bad>>
    BY <1>4 DEF LockReports
  <2>2. reports + 1 \in 1 .. MaxReports
    BY <2>1, Numbers
  <2>3. Report(reports + 1) \in ReportFrames /\ rq \in Seq(ReportFrames)
    BY <2>2 DEF ReportFrames
  <2>4. rq' \in Seq(ReportFrames)
    BY <2>1, <2>3, AppendProperties
  <2>5. Sent'
    BY <2>1 DEF Sent, Event
  <2>6. TypeOK'
    BY <1>0, <2>1, <2>2, <2>4 DEF sessionVars, ReportFrames
  <2> QED BY <1>1, <2>5, <2>6
<1> QED BY <1>2, <1>3, <1>4 DEF Lock

LEMMA TypeStep == TypeInv /\ [Next]_vars => TypeInv'
<1> SUFFICES ASSUME TypeInv, [Next]_vars PROVE TypeInv'
  OBVIOUS
<1>1. CASE Step
  BY <1>1, CommandTypes, ReadTypes, ListenTypes DEF Step
<1>2. CASE Gets \/ WindowCloses
  BY <1>2, ListenTypes DEF Gets
<1>3. CASE Lock
  BY <1>3, LockTypes
<1>4. CASE UNCHANGED vars
  BY <1>4 DEF vars, sessionVars, lockVars, TypeInv, TypeOK, Progress, Sent
<1> QED BY <1>1, <1>2, <1>3, <1>4 DEF Next, Ended

\* The queues hold frames of their channels, and the session takes no more
\* answers than it made reads (session.py:819-934).
THEOREM ChannelTypes == Spec => []TypeOK
<1>1. TypeInv => TypeOK
  BY DEF TypeInv
<1> QED BY <1>1, InitTypeInv, TypeStep, PTL DEF Spec
-----------------------------------------------------------------------------
(* Counting the copies of a frame.                                         *)

\* Whether frame g is the frame f that is counted.
Is(g, f) == IF g = f THEN 1 ELSE 0

Places(s, f) == {i \in 1 .. Len(s) : s[i] = f}

LEMMA PlacesFinite ==
  ASSUME NEW S, NEW s \in Seq(S), NEW f
  PROVE  /\ IsFiniteSet(Places(s, f)) /\ Holds(s, f) \in Nat
         /\ Holds(s, f) = Cardinality(Places(s, f))
<1>1. Len(s) \in Nat
  BY LenProperties
<1>2. IsFiniteSet(1 .. Len(s))
  BY <1>1, FS_Interval
<1>3. Places(s, f) \in SUBSET (1 .. Len(s))
  BY DEF Places
<1>4. IsFiniteSet(Places(s, f))
  BY <1>2, <1>3, FS_Subset
<1> QED BY <1>4, FS_CardinalityType DEF Holds, Places

\* A frame put at the end counts once more.
LEMMA CountAppend ==
  ASSUME NEW S, NEW s \in Seq(S), NEW g \in S, NEW f
  PROVE  Holds(Append(s, g), f) = Holds(s, f) + Is(g, f)
<1> DEFINE n == Len(s) + 1
           t == Append(s, g)
<1>1. /\ t \in Seq(S) /\ Len(t) = n /\ t[n] = g /\ Len(s) \in Nat
      /\ \A i \in 1 .. Len(s) : t[i] = s[i]
  BY AppendProperties, LenProperties
<1>2. Places(t, f) = IF g = f THEN Places(s, f) \cup {n} ELSE Places(s, f)
  BY <1>1 DEF Places
<1>3. n \notin Places(s, f)
  BY <1>1 DEF Places
<1>4. Holds(t, f) = Cardinality(Places(t, f)) /\ Holds(s, f) = Cardinality(Places(s, f))
      /\ Holds(s, f) \in Nat
  BY <1>1, PlacesFinite
<1>5. CASE g = f
  <2>1. Cardinality(Places(s, f) \cup {n}) = Cardinality(Places(s, f)) + 1
    BY <1>3, PlacesFinite, FS_AddElement
  <2> QED BY <1>2, <1>4, <1>5, <2>1 DEF Is
<1>6. CASE g # f
  BY <1>2, <1>4, <1>6 DEF Is
<1> QED BY <1>5, <1>6

\* A frame taken from the front counts once less.
LEMMA CountTail ==
  ASSUME NEW S, NEW s \in Seq(S), s # <<>>, NEW f
  PROVE  Holds(s, f) = Holds(Tail(s), f) + Is(Head(s), f)
<1> DEFINE t == Tail(s)
           P == Places(t, f)
           Q == Places(s, f) \ {1}
           up == [i \in P |-> i + 1]
<1>1. /\ t \in Seq(S) /\ Len(t) = Len(s) - 1 /\ Len(s) \in Nat \ {0} /\ s[1] = Head(s)
      /\ \A i \in 1 .. Len(t) : t[i] = s[i + 1]
  BY HeadTailProperties, LenProperties, EmptySeq
<1>2. \A i \in P : i \in Nat /\ i + 1 \in Q
  BY <1>1 DEF Places
<1>3. \A j \in Q : j - 1 \in P /\ (j - 1) + 1 = j
  BY <1>1 DEF Places
<1>4. up \in Bijection(P, Q)
  <2>1. up \in [P -> Q]
    BY <1>2
  <2>2. \A i, j \in P : up[i] = up[j] => i = j
    BY <1>2
  <2>3. \A j \in Q : \E i \in P : up[i] = j
    BY <1>3
  <2> QED BY <2>1, <2>2, <2>3 DEF Bijection, Injection, Surjection, IsInjective
<1>5. IsFiniteSet(P) /\ Holds(t, f) = Cardinality(P) /\ Holds(t, f) \in Nat
  BY <1>1, PlacesFinite
<1>6. Cardinality(Q) = Cardinality(P)
  BY <1>4, <1>5, FS_Bijection DEF ExistsBijection
<1>7. IsFiniteSet(Places(s, f)) /\ Holds(s, f) = Cardinality(Places(s, f))
      /\ Holds(s, f) \in Nat
  BY PlacesFinite
<1>8. Cardinality(Q) = IF 1 \in Places(s, f) THEN Holds(s, f) - 1 ELSE Holds(s, f)
  BY <1>7, FS_RemoveElement
<1>9. 1 \in Places(s, f) <=> Head(s) = f
  BY <1>1 DEF Places
<1> QED BY <1>5, <1>6, <1>7, <1>8, <1>9 DEF Is

LEMMA CountNone == ASSUME NEW f PROVE Holds(<<>>, f) = 0
<1>1. Places(<<>>, f) = {}
  BY DEF Places
<1> QED BY <1>1, FS_EmptySet DEF Holds, Places

LEMMA CountThree ==
  ASSUME NEW a, NEW b, NEW c, NEW f
  PROVE  Holds(<<a, b, c>>, f) = Is(a, f) + Is(b, f) + Is(c, f)
<1> DEFINE S == {a, b, c}
<1>1. <<>> \in Seq(S) /\ <<a>> \in Seq(S) /\ <<a, b>> \in Seq(S)
  OBVIOUS
<1>2. /\ <<a>> = Append(<<>>, a) /\ <<a, b>> = Append(<<a>>, b)
      /\ <<a, b, c>> = Append(<<a, b>>, c)
  OBVIOUS
<1>3. /\ Holds(<<a>>, f) = Holds(<<>>, f) + Is(a, f)
      /\ Holds(<<a, b>>, f) = Holds(<<a>>, f) + Is(b, f)
      /\ Holds(<<a, b, c>>, f) = Holds(<<a, b>>, f) + Is(c, f)
  <2>1. a \in S /\ b \in S /\ c \in S
    OBVIOUS
  <2> HIDE DEF S
  <2>2. Holds(Append(<<>>, a), f) = Holds(<<>>, f) + Is(a, f)
    BY <1>1, <2>1, CountAppend
  <2>3. Holds(Append(<<a>>, b), f) = Holds(<<a>>, f) + Is(b, f)
    BY <1>1, <2>1, CountAppend
  <2>4. Holds(Append(<<a, b>>, c), f) = Holds(<<a, b>>, f) + Is(c, f)
    BY <1>1, <2>1, CountAppend
  <2> QED BY <1>2, <2>2, <2>3, <2>4
<1> QED BY <1>3, CountNone DEF Is

\* The copies of a frame, place by place.
LEMMA CopiesAre ==
  ASSUME NEW f
  PROVE  /\ Copies(f) = Holds(q, f) + Holds(rq, f) + Holds(told, f) + Holds(out, f)
                        + (Is(response, f) + Is(getC, f) + Is(getR, f))
         /\ Copies(f)' = Holds(q', f) + Holds(rq', f) + Holds(told', f) + Holds(out', f)
                        + (Is(response', f) + Is(getC', f) + Is(getR', f))
BY CountThree DEF Copies
-----------------------------------------------------------------------------
(* No event and no report is lost or forwarded twice.                      *)

\* The frames of which none may be lost.
Tracked(f) == f.kind \in {"event", "report"} /\ f.op # Keepalive

\* The copies of a frame, and the one a session that fails has dropped.
Kept(f) == Copies(f) + Is(dropped, f)

\* Each event pushed and each report sent is in one place, and those to come
\* are nowhere yet; the place of the reply is empty until the reply is taken.
Once ==
  /\ dropped # Nothing => pc = "failed"
  /\ pc \in {"command", "reply"} => response = Nothing
  /\ \A o \in EventOps, n \in 1 .. MaxEvents :
        Kept(Event(o, n)) = IF n <= Len(pushed) /\ pushed[n] = Event(o, n) THEN 1 ELSE 0
  /\ \A n \in 1 .. MaxReports : Kept(Report(n)) = IF n <= reports THEN 1 ELSE 0

LEMMA NotTracked ==
  ASSUME NEW f, Tracked(f)
  PROVE  /\ \A g \in {Nothing, Empty, Short, Garbled} : Is(g, f) = 0
         /\ \A g \in Answers : Is(g, f) = 0
         /\ \A g : g.op = Keepalive => Is(g, f) = 0
BY DEF Tracked, Is, Nothing, Empty, Short, Garbled, Answers, Reply, Ack

\* Each place holds a number of copies, before a step and after it.
LEMMA Countable ==
  ASSUME TypeOK, TypeOK', NEW f
  PROVE  /\ Holds(q, f) \in Nat /\ Holds(q', f) \in Nat
         /\ Holds(rq, f) \in Nat /\ Holds(rq', f) \in Nat
         /\ Holds(told, f) \in Nat /\ Holds(told', f) \in Nat
         /\ Holds(out, f) \in Nat /\ Holds(out', f) \in Nat
BY PlacesFinite DEF TypeOK

\* One frame put behind a sequence is appended to it.
LEMMA BehindIsAppend ==
  ASSUME NEW S, NEW s \in Seq(S), NEW g \in S
  PROVE  s \o <<g>> = Append(s, g) /\ s \o <<>> = s
<1>1. s \o <<>> = s
  BY ConcatEmptySeq
<1>2. <<g>> \in Seq(S) /\ Len(<<g>>) = 1 /\ <<g>>[1] = g
  OBVIOUS
<1>3. s \o <<g>> = Append(s, g)
  <2>1. /\ s \o <<g>> \in Seq(S) /\ Len(s \o <<g>>) = Len(s) + 1
        /\ \A i \in 1 .. Len(s) + 1 :
              (s \o <<g>>)[i] = IF i <= Len(s) THEN s[i] ELSE <<g>>[i - Len(s)]
    BY <1>2, ConcatProperties
  <2>2. /\ Append(s, g) \in Seq(S) /\ Len(Append(s, g)) = Len(s) + 1
        /\ \A i \in 1 .. Len(s) : Append(s, g)[i] = s[i]
        /\ Append(s, g)[Len(s) + 1] = g /\ Len(s) \in Nat
    BY AppendProperties, LenProperties
  <2>3. ASSUME NEW i \in 1 .. Len(s) + 1 PROVE (s \o <<g>>)[i] = Append(s, g)[i]
    <3>1. CASE i <= Len(s)
      BY <2>1, <2>2, <3>1
    <3>2. CASE ~(i <= Len(s))
      <4>1. i = Len(s) + 1 /\ i - Len(s) = 1
        BY <2>2, <3>2
      <4> QED BY <1>2, <2>1, <2>2, <3>2, <4>1
    <3> QED BY <3>1, <3>2
  <2> QED BY <2>1, <2>2, <2>3, SeqEqual
<1> QED BY <1>1, <1>3

\* What the consumer is told counts for it.
LEMMA ToldCounts ==
  ASSUME Callback, told \in Seq(Frames), NEW g \in Frames, NEW h \in Frames, NEW f
  PROVE  /\ Tell(<<>>) => told' = told
         /\ Tell(<<g>>) => Holds(told', f) = Holds(told, f) + Is(g, f)
         /\ Tell(<<>> \o <<>>) => told' = told
         /\ Tell(<<g>> \o <<>>) => Holds(told', f) = Holds(told, f) + Is(g, f)
         /\ Tell(<<>> \o <<h>>) => Holds(told', f) = Holds(told, f) + Is(h, f)
         /\ Tell(<<g>> \o <<h>>)
              => Holds(told', f) = Holds(told, f) + Is(g, f) + Is(h, f)
<1>0. <<>> \in Seq(Frames) /\ <<g>> \in Seq(Frames) /\ <<h>> \in Seq(Frames)
  OBVIOUS
<1>1. /\ told \o <<>> = told
      /\ told \o <<g>> = Append(told, g) /\ told \o <<h>> = Append(told, h)
  BY BehindIsAppend
<1>2. /\ <<>> \o <<>> = <<>> /\ <<g>> \o <<>> = <<g>> /\ <<>> \o <<h>> = <<h>>
  BY <1>0, ConcatEmptySeq
<1>3. Append(told, g) \in Seq(Frames)
  BY AppendProperties
<1>4. told \o (<<g>> \o <<h>>) = Append(Append(told, g), h)
  <2>1. told \o (<<g>> \o <<h>>) = (told \o <<g>>) \o <<h>>
    BY <1>0, ConcatAssociative
  <2>2. Append(told, g) \o <<h>> = Append(Append(told, g), h)
    BY <1>3, BehindIsAppend
  <2> QED BY <1>1, <2>1, <2>2
<1>5. /\ Holds(Append(told, g), f) = Holds(told, f) + Is(g, f)
      /\ Holds(Append(told, h), f) = Holds(told, f) + Is(h, f)
      /\ Holds(Append(Append(told, g), h), f) = Holds(Append(told, g), f) + Is(h, f)
  BY <1>3, CountAppend
<1> HIDE DEF Is
<1>6. /\ Tell(<<>>) => told' = told
      /\ Tell(<<g>>) => Holds(told', f) = Holds(told, f) + Is(g, f)
  BY <1>1, <1>5 DEF Tell
<1>7. Tell(<<g>> \o <<h>>) => Holds(told', f) = Holds(told, f) + Is(g, f) + Is(h, f)
  BY <1>4, <1>5 DEF Tell
<1>8. /\ told \o (<<>> \o <<>>) = told /\ told \o (<<g>> \o <<>>) = Append(told, g)
      /\ told \o (<<>> \o <<h>>) = Append(told, h)
  BY <1>1, <1>2
<1>9. /\ Tell(<<>> \o <<>>) => told' = told
      /\ Tell(<<g>> \o <<>>) => Holds(told', f) = Holds(told, f) + Is(g, f)
      /\ Tell(<<>> \o <<h>>) => Holds(told', f) = Holds(told, f) + Is(h, f)
  BY <1>5, <1>8 DEF Tell
<1> QED BY <1>6, <1>7, <1>9

\* The reads move each frame from the queue to one place.
LEMMA ReadsMove ==
  ASSUME Callback, TypeInv, TypeInv', Once, NEW f, Tracked(f),
         TakeReply \/ TakeMatch \/ PassOver \/ ReadFails
  PROVE  Kept(f)' = Kept(f)
<1> SUFFICES Copies(f)' = Copies(f)
  BY DEF Kept, TakeReply, TakeMatch, PassOver, ReadFails
<1>0. TypeOK /\ TypeOK' /\ q \in Seq(Control) /\ q # <<>> /\ q' = Tail(q)
  BY DEF TypeInv, TypeOK, TakeReply, TakeMatch, PassOver, ReadFails
<1>7. /\ Copies(f) = Holds(q, f) + Holds(rq, f) + Holds(told, f) + Holds(out, f)
                     + (Is(response, f) + Is(getC, f) + Is(getR, f))
      /\ Copies(f)' = Holds(q', f) + Holds(rq', f) + Holds(told', f) + Holds(out', f)
                      + (Is(response', f) + Is(getC', f) + Is(getR', f))
  BY CopiesAre
<1>8. /\ Holds(q, f) \in Nat /\ Holds(q', f) \in Nat
      /\ Holds(rq, f) \in Nat /\ Holds(rq', f) \in Nat
      /\ Holds(told, f) \in Nat /\ Holds(told', f) \in Nat
      /\ Holds(out, f) \in Nat /\ Holds(out', f) \in Nat
  BY <1>0, Countable
<1>9. Is(Nothing, f) = 0 /\ \A g : Is(g, f) \in Nat
  BY NotTracked DEF Is
<1>1. Holds(q, f) = Holds(q', f) + Is(Head(q), f) /\ Head(q) \in Control
  BY <1>0, CountTail, TakeFirst
<1>2. UNCHANGED <<rq, getC, getR>>
  BY DEF TakeReply, TakeMatch, PassOver, ReadFails
<1>3. CASE TakeReply
  <2>1. UNCHANGED <<told, out>> /\ response = Nothing
    BY <1>3 DEF TakeReply, Once
  <2>2. Is(response', f) = Is(Head(q), f)
    BY <1>3, <2>1, NotTracked DEF TakeReply
  <2>3. /\ Is(response, f) = 0 /\ Is(getC', f) = Is(getC, f) /\ Is(getR', f) = Is(getR, f)
        /\ Is(Head(q), f) \in Nat /\ Is(getC, f) \in Nat /\ Is(getR, f) \in Nat
    BY <1>2, <1>9, <2>1
  <2> QED BY <1>1, <1>2, <1>7, <1>8, <2>1, <2>2, <2>3
<1>4. CASE TakeMatch
  <2>1. UNCHANGED <<told, response>> /\ out' = Append(out, Head(q))
    BY <1>4 DEF TakeMatch, ReadGot
  <2>2. Holds(out', f) = Holds(out, f) + Is(Head(q), f)
    BY <1>0, <1>1, <2>1, CountAppend, ChannelFrames DEF TypeOK
  <2>3. /\ Is(response', f) = Is(response, f) /\ Is(getC', f) = Is(getC, f)
        /\ Is(getR', f) = Is(getR, f) /\ Is(Head(q), f) \in Nat
        /\ Is(response, f) \in Nat /\ Is(getC, f) \in Nat /\ Is(getR, f) \in Nat
        /\ Holds(told', f) = Holds(told, f) /\ Holds(rq', f) = Holds(rq, f)
    BY <1>2, <1>9, <2>1
  <2> QED BY <1>1, <1>7, <1>8, <2>2, <2>3
<1>5. CASE PassOver
  <2>1. UNCHANGED <<out, response>> /\ told \in Seq(Frames)
    BY <1>0, <1>5 DEF PassOver, TypeOK
  <2>2. Holds(told', f) = Holds(told, f) + Is(Head(q), f)
    <3>1. CASE Head(q) \in {Empty, Short}
      <4>1. Tell(<<>>)
        BY <1>5, <3>1 DEF PassOver
      <4>2. told' = told /\ Is(Head(q), f) = 0
        BY <2>1, <3>1, <4>1, ToldCounts, NotTracked, ChannelFrames
      <4> QED BY <1>8, <4>2
    <3>2. CASE Head(q) \notin {Empty, Short}
      BY <1>1, <1>5, <2>1, <3>2, ToldCounts, ChannelFrames DEF PassOver
    <3> QED BY <3>1, <3>2
  <2>3. /\ Is(response', f) = Is(response, f) /\ Is(getC', f) = Is(getC, f)
        /\ Is(getR', f) = Is(getR, f) /\ Is(Head(q), f) \in Nat
        /\ Is(response, f) \in Nat /\ Is(getC, f) \in Nat /\ Is(getR, f) \in Nat
        /\ Holds(out', f) = Holds(out, f) /\ Holds(rq', f) = Holds(rq, f)
    BY <1>2, <1>9, <2>1
  <2> QED BY <1>1, <1>7, <1>8, <2>2, <2>3
<1>6. CASE ReadFails
  <2>1. UNCHANGED <<out, response, told>> /\ Is(Head(q), f) = 0
    BY <1>6, NotTracked DEF ReadFails
  <2> QED BY <1>1, <1>2, <1>7, <1>8, <1>9, <2>1
<1> QED BY <1>3, <1>4, <1>5, <1>6

\* A get takes a frame out of its queue, and the window forwards both.
LEMMA WindowMoves ==
  ASSUME Callback, TypeInv, TypeInv', NEW f, Tracked(f), GetControl \/ GetReport \/ Wake
  PROVE  Kept(f)' = Kept(f)
<1> SUFFICES Copies(f)' = Copies(f)
  BY DEF Kept, GetControl, GetReport, Wake
<1>0. TypeOK /\ TypeOK'
  BY DEF TypeInv
<1>7. /\ Copies(f) = Holds(q, f) + Holds(rq, f) + Holds(told, f) + Holds(out, f)
                     + (Is(response, f) + Is(getC, f) + Is(getR, f))
      /\ Copies(f)' = Holds(q', f) + Holds(rq', f) + Holds(told', f) + Holds(out', f)
                      + (Is(response', f) + Is(getC', f) + Is(getR', f))
  BY CopiesAre
<1>8. /\ Holds(q, f) \in Nat /\ Holds(q', f) \in Nat
      /\ Holds(rq, f) \in Nat /\ Holds(rq', f) \in Nat
      /\ Holds(told, f) \in Nat /\ Holds(told', f) \in Nat
      /\ Holds(out, f) \in Nat /\ Holds(out', f) \in Nat
  BY <1>0, Countable
<1>9. Is(Nothing, f) = 0 /\ \A g : Is(g, f) \in Nat
  BY NotTracked DEF Is
<1>1. CASE GetControl
  <2>1. /\ q # <<>> /\ q' = Tail(q) /\ getC = Nothing /\ getC' = Head(q)
        /\ UNCHANGED <<rq, told, out, response, getR>> /\ q \in Seq(Control)
    BY <1>0, <1>1 DEF GetControl, TypeOK
  <2>2. Holds(q, f) = Holds(q', f) + Is(Head(q), f)
    BY <2>1, CountTail
  <2>3. /\ Is(response', f) = Is(response, f) /\ Is(getR', f) = Is(getR, f)
        /\ Is(getC, f) = 0 /\ Is(getC', f) = Is(Head(q), f)
        /\ Is(response, f) \in Nat /\ Is(getR, f) \in Nat /\ Is(Head(q), f) \in Nat
        /\ Holds(rq', f) = Holds(rq, f) /\ Holds(told', f) = Holds(told, f)
        /\ Holds(out', f) = Holds(out, f)
    BY <1>9, <2>1
  <2> QED BY <1>7, <1>8, <2>2, <2>3
<1>2. CASE GetReport
  <2>1. /\ rq # <<>> /\ rq' = Tail(rq) /\ getR = Nothing /\ getR' = Head(rq)
        /\ UNCHANGED <<q, told, out, response, getC>> /\ rq \in Seq(ReportFrames)
    BY <1>0, <1>2 DEF GetReport, TypeOK, ReportFrames
  <2>2. Holds(rq, f) = Holds(rq', f) + Is(Head(rq), f)
    BY <2>1, CountTail
  <2>3. /\ Is(response', f) = Is(response, f) /\ Is(getC', f) = Is(getC, f)
        /\ Is(getR, f) = 0 /\ Is(getR', f) = Is(Head(rq), f)
        /\ Is(response, f) \in Nat /\ Is(getC, f) \in Nat /\ Is(Head(rq), f) \in Nat
        /\ Holds(q', f) = Holds(q, f) /\ Holds(told', f) = Holds(told, f)
        /\ Holds(out', f) = Holds(out, f)
    BY <1>9, <2>1
  <2> QED BY <1>7, <1>8, <2>2, <2>3
<1>3. CASE Wake
  <2>1. /\ UNCHANGED <<q, rq, out, response>> /\ getC' = Nothing /\ getR' = Nothing
        /\ Tell(Heard \o (IF getR = Nothing THEN <<>> ELSE <<getR>>))
    BY <1>3 DEF Wake, lockVars
  <2>2. getC \in Frames /\ getR \in Frames /\ told \in Seq(Frames)
    BY <1>0, FrameKinds DEF TypeOK, ReportFrames
  <2>3. Holds(told', f) = Holds(told, f) + Is(getC, f) + Is(getR, f)
    <3>1. Heard = <<>> => Is(getC, f) = 0
      BY NotTracked DEF Heard
    <3>2. Heard = <<>> \/ Heard = <<getC>>
      BY DEF Heard
    <3>3. getR = Nothing => Is(getR, f) = 0
      BY NotTracked
    <3>4. Holds(told, f) \in Nat /\ Is(getC, f) \in Nat /\ Is(getR, f) \in Nat
      BY <1>0, Countable DEF Is
    <3>5. CASE Heard = <<>> /\ getR = Nothing
      <4>1. Tell(<<>> \o <<>>)
        BY <2>1, <3>5
      <4>2. told' = told
        BY <2>2, <4>1, ToldCounts
      <4> QED BY <3>1, <3>3, <3>4, <3>5, <4>2
    <3>6. CASE Heard = <<getC>> /\ getR = Nothing
      BY <2>1, <2>2, <3>3, <3>4, <3>6, ToldCounts
    <3>7. CASE Heard = <<>> /\ getR # Nothing
      BY <2>1, <2>2, <3>1, <3>4, <3>7, ToldCounts
    <3>8. CASE Heard = <<getC>> /\ getR # Nothing
      BY <2>1, <2>2, <3>4, <3>8, ToldCounts
    <3> QED BY <3>2, <3>5, <3>6, <3>7, <3>8
  <2>4. /\ Is(response', f) = Is(response, f) /\ Is(getC', f) = 0 /\ Is(getR', f) = 0
        /\ Is(response, f) \in Nat /\ Is(getC, f) \in Nat /\ Is(getR, f) \in Nat
    BY <1>9, <2>1
  <2>5. Holds(q', f) = Holds(q, f) /\ Holds(rq', f) = Holds(rq, f) /\ Holds(out', f) = Holds(out, f)
    BY <2>1
  <2> QED BY <1>7, <1>8, <2>3, <2>4, <2>5, SMTT(30)
<1> QED BY <1>1, <1>2, <1>3

\* The other steps send no tracked frame and take none.
LEMMA OthersMoveNothing ==
  ASSUME TypeInv, TypeInv', NEW f, Tracked(f),
         \/ SendCommand \/ ReplyTimeout \/ SendRead \/ ReadTimeout \/ Listen
         \/ ListenOver \/ WindowCloses \/ LockAnswers \/ BadFrame
  PROVE  Kept(f)' = Kept(f)
<1> SUFFICES Copies(f)' = Copies(f)
  BY DEF Kept, SendCommand, ReplyTimeout, SendRead, ReadTimeout, Listen, ListenOver,
     WindowCloses, LockAnswers, BadFrame, sessionVars
<1>0. TypeOK /\ TypeOK' /\ UNCHANGED <<rq, told, response, getC, getR>>
  BY DEF TypeInv, SendCommand, ReplyTimeout, SendRead, ReadTimeout, Listen, ListenOver,
          WindowCloses, LockAnswers, BadFrame, sessionVars
<1>1. CASE LockAnswers \/ BadFrame
  <2>1. PICK g \in Control : q' = Append(q, g) /\ Is(g, f) = 0
    <3>1. CASE LockAnswers
      <4>1. PICK g \in todo : q' = Append(q, g)
        BY <3>1 DEF LockAnswers
      <4>2. g \in Answers
        BY DEF TypeInv, Sent
      <4> QED BY <4>1, <4>2, NotTracked, FrameKinds
    <3>2. CASE BadFrame
      BY <3>2, NotTracked, ChannelFrames DEF BadFrame
    <3> QED BY <1>1, <3>1, <3>2
  <2>2. Holds(q', f) = Holds(q, f) + 0
    BY <1>0, <2>1, CountAppend DEF TypeOK
  <2>3. out' = out
    BY <1>1 DEF LockAnswers, BadFrame, sessionVars
  <2> QED BY <1>0, <2>2, <2>3, Countable, CopiesAre
<1>2. CASE ~(LockAnswers \/ BadFrame)
  <2>1. q' = q
    BY <1>2 DEF SendCommand, ReplyTimeout, SendRead, ReadTimeout, Listen,
       ListenOver, WindowCloses
  <2>2. Holds(out', f) = Holds(out, f)
    <3>1. CASE out' = Append(out, Nothing)
      <4>1. out' = Append(out, Nothing)
        BY <3>1
      <4>2. Holds(out', f) = Holds(out, f) + Is(Nothing, f)
        BY <1>0, <4>1, CountAppend, ChannelFrames DEF TypeOK
      <4> QED BY <1>0, <4>2, NotTracked, Countable
    <3>2. CASE out' # Append(out, Nothing)
      BY <1>2, <3>2 DEF ReadGot, SendCommand, ReplyTimeout, SendRead, ReadTimeout, Listen,
         ListenOver, WindowCloses
    <3> QED BY <3>1, <3>2
  <2> QED BY <1>0, <2>1, <2>2, CopiesAre
<1> QED BY <1>1, <1>2

\* A session that fails drops the report it has taken, and nothing else.
LEMMA FailureDrops ==
  ASSUME TypeInv, TypeInv', Once, NEW f, Tracked(f), ListenFails
  PROVE  Kept(f)' = Kept(f)
<1>1. /\ UNCHANGED <<q, rq, told, out, response>> /\ getC = Garbled /\ dropped = Nothing
      /\ getC' = Nothing /\ getR' = Nothing /\ dropped' = getR
  BY DEF ListenFails, Once
<1>2. /\ Is(getC, f) = 0 /\ Is(getC', f) = 0 /\ Is(getR', f) = 0 /\ Is(dropped, f) = 0
      /\ Is(dropped', f) = Is(getR, f) /\ Is(getR, f) \in Nat /\ Is(response, f) \in Nat
      /\ Is(response', f) = Is(response, f)
  BY <1>1, NotTracked DEF Is
<1>3. /\ Holds(q, f) \in Nat /\ Holds(rq, f) \in Nat /\ Holds(told, f) \in Nat
      /\ Holds(out, f) \in Nat
  BY Countable DEF TypeInv
<1>4. Kept(f) = Copies(f) + Is(dropped, f) /\ Kept(f)' = Copies(f)' + Is(dropped', f)
  BY DEF Kept
<1>5. /\ Copies(f) = Holds(q, f) + Holds(rq, f) + Holds(told, f) + Holds(out, f)
                     + (Is(response, f) + 0 + Is(getR, f))
      /\ Copies(f)' = Holds(q, f) + Holds(rq, f) + Holds(told, f) + Holds(out, f)
                     + (Is(response, f) + 0 + 0)
  BY <1>1, <1>2, CopiesAre
<1> QED BY <1>2, <1>3, <1>4, <1>5

\* A push puts the event it sends into the queue, and no other.
LEMMA PushAdds ==
  ASSUME TypeInv, TypeInv', LockPushes \/ LockReports
  PROVE  \E g \in Frames :
           /\ \A f : Kept(f)' = Kept(f) + Is(g, f)
           /\ \/ /\ \E o \in EventOps : g = Event(o, Len(pushed) + 1)
                 /\ pushed' = Append(pushed, g) /\ reports' = reports
              \/ /\ g = Report(reports + 1) /\ reports' = reports + 1
                 /\ pushed' = pushed
<1>0. TypeOK /\ TypeOK' /\ UNCHANGED <<told, out, response, getC, getR, dropped>>
  BY DEF TypeInv, LockPushes, LockReports, sessionVars
<1>1. CASE LockPushes
  <2>1. PICK o \in EventOps : /\ pushed' = Append(pushed, Event(o, Len(pushed) + 1))
                              /\ q' = Append(q, Event(o, Len(pushed) + 1))
    BY <1>1 DEF LockPushes
  <2>2. Len(pushed) + 1 \in 1 .. MaxEvents /\ UNCHANGED <<rq, reports>>
    BY <1>0, <1>1, Numbers, LenProperties DEF LockPushes, TypeOK
  <2> DEFINE g == Event(o, Len(pushed) + 1)
  <2>3. g \in Control
    BY <2>2, ChannelFrames
  <2>4. ASSUME NEW f PROVE Kept(f)' = Kept(f) + Is(g, f)
    <3>1. Holds(q', f) = Holds(q, f) + Is(g, f)
      BY <1>0, <2>1, <2>3, CountAppend DEF TypeOK
    <3>2. Is(g, f) \in Nat /\ Is(dropped, f) \in Nat /\ Is(response, f) \in Nat
          /\ Is(getC, f) \in Nat /\ Is(getR, f) \in Nat
      BY DEF Is
    <3> HIDE DEF g, Is
    <3>3. UNCHANGED <<rq, told, out, response, getC, getR, dropped>>
      BY <1>0, <2>2
    <3>4. Copies(f)' = Copies(f) + Is(g, f) /\ Copies(f) \in Nat
      BY <1>0, <3>1, <3>2, <3>3, Countable, CopiesAre
    <3> QED BY <3>2, <3>3, <3>4 DEF Kept
  <2> QED BY <2>1, <2>2, <2>3, <2>4, ChannelFrames
<1>2. CASE LockReports
  <2>1. /\ rq' = Append(rq, Report(reports + 1)) /\ reports' = reports + 1
        /\ reports < MaxReports /\ UNCHANGED <<q, pushed>>
    BY <1>2 DEF LockReports
  <2>2. reports + 1 \in 1 .. MaxReports
    BY <1>0, <2>1, Numbers DEF TypeOK
  <2> DEFINE g == Report(reports + 1)
  <2>3. g \in ReportFrames
    BY <2>2 DEF ReportFrames
  <2>4. ASSUME NEW f PROVE Kept(f)' = Kept(f) + Is(g, f)
    <3>1. Holds(rq', f) = Holds(rq, f) + Is(g, f)
      BY <1>0, <2>1, <2>3, CountAppend DEF TypeOK, ReportFrames
    <3>2. Is(g, f) \in Nat /\ Is(dropped, f) \in Nat /\ Is(response, f) \in Nat
          /\ Is(getC, f) \in Nat /\ Is(getR, f) \in Nat
      BY DEF Is
    <3> HIDE DEF g, Is
    <3>3. UNCHANGED <<q, told, out, response, getC, getR, dropped>>
      BY <1>0, <2>1
    <3>4. Copies(f)' = Copies(f) + Is(g, f) /\ Copies(f) \in Nat
      BY <1>0, <3>1, <3>2, <3>3, Countable, CopiesAre
    <3> QED BY <3>2, <3>3, <3>4 DEF Kept
  <2> QED BY <2>1, <2>3, <2>4, FrameKinds
<1> QED BY <1>1, <1>2

\* The events and reports the invariant counts are tracked.
LEMMA TrackedFrames ==
  ASSUME Keepalive \notin EventOps
  PROVE  /\ \A o \in EventOps, n \in 1 .. MaxEvents : Tracked(Event(o, n))
         /\ \A n \in 1 .. MaxReports : Tracked(Report(n))
BY DEF Tracked, Event, Report, Keepalive

LEMMA InitOnce == Init => Once
<1> SUFFICES ASSUME Init PROVE Once
  OBVIOUS
<1>1. ASSUME NEW f, f # Nothing PROVE Kept(f) = 0
  <2>1. /\ q = <<>> /\ rq = <<>> /\ told = <<>> /\ out = <<>>
        /\ response = Nothing /\ getC = Nothing /\ getR = Nothing /\ dropped = Nothing
    BY DEF Init
  <2>2. Is(Nothing, f) = 0
    BY <1>1 DEF Is
  <2> QED BY <2>1, <2>2, CountNone, CopiesAre DEF Kept
<1>2. \A o, n : Event(o, n) # Nothing /\ Report(n) # Nothing
  BY DEF Event, Report, Nothing
<1>3. Len(pushed) = 0 /\ reports = 0 /\ response = Nothing /\ dropped = Nothing
  BY DEF Init
<1> QED BY <1>1, <1>2, <1>3 DEF Once

LEMMA StepOnce ==
  ASSUME Callback, Keepalive \notin EventOps, TypeInv, TypeInv', Once, [Next]_vars
  PROVE  Once'
<1>1. /\ pc' \in {"command", "reply"} => response' = Nothing
      /\ dropped' # Nothing => pc' = "failed"
  <2>1. CASE Step
    BY <2>1 DEF Step, SendCommand, TakeReply, ReplyTimeout, SendRead, TakeMatch, PassOver,
       ReadFails, ReadTimeout, Listen, Wake, ListenFails, ListenOver, ReadGot, AfterReply,
       AfterReads, Once
  <2>2. CASE Gets \/ Lock \/ WindowCloses
    BY <2>2 DEF Gets, GetControl, GetReport, Lock, LockAnswers, LockPushes, LockReports,
       BadFrame, WindowCloses, sessionVars, Once
  <2>3. CASE UNCHANGED vars
    BY <2>3 DEF vars, sessionVars, Once
  <2> QED BY <2>1, <2>2, <2>3 DEF Next, Ended
<1>2. CASE LockPushes \/ LockReports
  <2>1. PICK g \in Frames :
          /\ \A f : Kept(f)' = Kept(f) + Is(g, f)
          /\ \/ /\ \E o \in EventOps : g = Event(o, Len(pushed) + 1)
                /\ pushed' = Append(pushed, g) /\ reports' = reports
             \/ /\ g = Report(reports + 1) /\ reports' = reports + 1
                /\ pushed' = pushed
    BY <1>2, PushAdds
  <2>2. pushed \in Seq(Control) /\ Len(pushed) \in Nat /\ reports \in Nat
    BY LenProperties DEF TypeInv, TypeOK
  <2>3. CASE \E o \in EventOps : g = Event(o, Len(pushed) + 1)
    <3>1. /\ pushed' = Append(pushed, g) /\ reports' = reports /\ g.kind = "event"
          /\ g.id = Len(pushed) + 1
      BY <2>1, <2>3 DEF Event, Report
    <3>2. g \in Control
      BY <1>2, <2>2, <2>3, <3>1, Numbers, ChannelFrames
         DEF LockPushes, LockReports, Report
    <3>3. /\ Len(pushed') = Len(pushed) + 1 /\ pushed'[Len(pushed) + 1] = g
          /\ \A i \in 1 .. Len(pushed) : pushed'[i] = pushed[i]
      BY <2>2, <3>1, <3>2, AppendProperties
    <3>4. ASSUME NEW o \in EventOps, NEW n \in 1 .. MaxEvents
          PROVE  Kept(Event(o, n))'
                   = IF n <= Len(pushed') /\ pushed'[n] = Event(o, n) THEN 1 ELSE 0
      <4>1. /\ Kept(Event(o, n))' = Kept(Event(o, n)) + Is(g, Event(o, n))
            /\ Kept(Event(o, n))
                 = IF n <= Len(pushed) /\ pushed[n] = Event(o, n) THEN 1 ELSE 0
        BY <2>1 DEF Once
      <4>2. Event(o, n).id = n
        BY DEF Event
      <4>3. CASE n = Len(pushed) + 1
        BY <2>2, <3>3, <4>1, <4>3 DEF Is
      <4>4. CASE n # Len(pushed) + 1
        <5>1. Is(g, Event(o, n)) = 0
          BY <3>1, <4>2, <4>4 DEF Is
        <5>2. n <= Len(pushed') <=> n <= Len(pushed)
          BY <2>2, <3>3, <4>4
        <5> QED BY <2>2, <3>3, <4>1, <5>1, <5>2
      <4> QED BY <4>3, <4>4
    <3>5. ASSUME NEW n \in 1 .. MaxReports
          PROVE  Kept(Report(n))' = IF n <= reports' THEN 1 ELSE 0
      <4>1. /\ Kept(Report(n))' = Kept(Report(n)) + Is(g, Report(n))
            /\ Kept(Report(n)) = IF n <= reports THEN 1 ELSE 0
        BY <2>1 DEF Once
      <4>2. Is(g, Report(n)) = 0
        BY <3>1 DEF Is, Report
      <4> QED BY <3>1, <4>1, <4>2
    <3> QED BY <1>1, <3>4, <3>5 DEF Once, Event, Report, Nothing
  <2>4. CASE g = Report(reports + 1)
    <3>1. reports' = reports + 1 /\ pushed' = pushed
      BY <2>1, <2>4 DEF Event, Report
    <3>2. ASSUME NEW o \in EventOps, NEW n \in 1 .. MaxEvents
          PROVE  Kept(Event(o, n))'
                   = IF n <= Len(pushed') /\ pushed'[n] = Event(o, n) THEN 1 ELSE 0
      <4>1. /\ Kept(Event(o, n))' = Kept(Event(o, n)) + Is(g, Event(o, n))
            /\ Kept(Event(o, n))
                 = IF n <= Len(pushed) /\ pushed[n] = Event(o, n) THEN 1 ELSE 0
        BY <2>1 DEF Once
      <4>2. Is(g, Event(o, n)) = 0
        BY <2>4 DEF Is, Event, Report
      <4> QED BY <3>1, <4>1, <4>2
    <3>3. ASSUME NEW n \in 1 .. MaxReports
          PROVE  Kept(Report(n))' = IF n <= reports' THEN 1 ELSE 0
      <4>1. /\ Kept(Report(n))' = Kept(Report(n)) + Is(g, Report(n))
            /\ Kept(Report(n)) = IF n <= reports THEN 1 ELSE 0
        BY <2>1 DEF Once
      <4>2. Is(g, Report(n)) = IF n = reports + 1 THEN 1 ELSE 0
        BY <2>4 DEF Is, Report
      <4> QED BY <2>2, <3>1, <4>1, <4>2
    <3> QED BY <1>1, <3>2, <3>3 DEF Once, Event, Report, Nothing
  <2> QED BY <2>1, <2>3, <2>4
<1>3. CASE ~(LockPushes \/ LockReports)
  <2>1. UNCHANGED <<pushed, reports>>
    BY <1>3 DEF Next, Step, SendCommand, TakeReply, ReplyTimeout, SendRead, TakeMatch, PassOver,
       ReadFails, ReadTimeout, Listen, Wake, ListenFails, ListenOver, Gets, GetControl,
       GetReport, Lock, LockAnswers, BadFrame, WindowCloses, Ended, vars, lockVars
  <2>2. ASSUME NEW f, Tracked(f) PROVE Kept(f)' = Kept(f)
    <3>1. CASE TakeReply \/ TakeMatch \/ PassOver \/ ReadFails
      BY <2>2, <3>1, ReadsMove
    <3>2. CASE GetControl \/ GetReport \/ Wake
      BY <2>2, <3>2, WindowMoves
    <3>3. CASE \/ SendCommand \/ ReplyTimeout \/ SendRead \/ ReadTimeout \/ Listen
               \/ ListenOver \/ WindowCloses \/ LockAnswers \/ BadFrame
      BY <2>2, <3>3, OthersMoveNothing
    <3>4. CASE ListenFails
      BY <2>2, <3>4, FailureDrops
    <3>5. CASE UNCHANGED vars
      BY <3>5, CopiesAre DEF vars, sessionVars, Kept
    <3> QED BY <1>3, <3>1, <3>2, <3>3, <3>4, <3>5 DEF Next, Step, Gets, Lock, Ended
  <2>3. ASSUME NEW o \in EventOps, NEW n \in 1 .. MaxEvents
        PROVE  Kept(Event(o, n))'
                 = IF n <= Len(pushed') /\ pushed'[n] = Event(o, n) THEN 1 ELSE 0
    <3>1. Kept(Event(o, n))' = Kept(Event(o, n))
      BY <2>2, TrackedFrames
    <3>2. Kept(Event(o, n)) = IF n <= Len(pushed) /\ pushed[n] = Event(o, n) THEN 1 ELSE 0
      BY DEF Once
    <3> QED BY <2>1, <3>1, <3>2
  <2>4. ASSUME NEW n \in 1 .. MaxReports
        PROVE  Kept(Report(n))' = IF n <= reports' THEN 1 ELSE 0
    <3>1. Kept(Report(n))' = Kept(Report(n))
      BY <2>2, TrackedFrames
    <3>2. Kept(Report(n)) = IF n <= reports THEN 1 ELSE 0
      BY DEF Once
    <3> QED BY <2>1, <3>1, <3>2
  <2> QED BY <1>1, <2>3, <2>4 DEF Once, Event, Report, Nothing
<1> QED BY <1>2, <1>3

\* With a callback every event the lock pushed and every report it sent is in
\* exactly one place: a queue, a get that is over, a reply, or the consumer's
\* hands, if no event has the opcode of the keepalive; but for the one report
\* taken together with the frame that fails the session (session.py:875-934).
THEOREM NoneLost == ASSUME Keepalive \notin EventOps PROVE Spec => []NothingVanishes
<1>1. CASE Callback
  <2>1. TypeInv /\ Once => NothingVanishes
    <3> SUFFICES ASSUME TypeInv, Once PROVE NothingVanishes
      OBVIOUS
    <3>0. ASSUME NEW f PROVE Copies(f) \in Nat
      <4>1. /\ Holds(q, f) \in Nat /\ Holds(rq, f) \in Nat /\ Holds(told, f) \in Nat
            /\ Holds(out, f) \in Nat
        BY PlacesFinite DEF TypeInv, TypeOK
      <4> QED BY <4>1, CopiesAre DEF Is
    <3>1. ASSUME NEW i \in 1 .. Len(pushed) PROVE Copies(pushed[i]) = 1
      <4>1. PICK o \in EventOps : pushed[i] = Event(o, i)
        BY DEF TypeInv, Sent
      <4>2. i \in 1 .. MaxEvents /\ i <= Len(pushed)
        BY Numbers, LenProperties DEF TypeInv, TypeOK, Sent
      <4>3. Kept(Event(o, i)) = 1
        BY <4>1, <4>2 DEF Once
      <4>4. Is(dropped, Event(o, i)) = 0
        BY DEF TypeInv, TypeOK, Is, Event, Report, Nothing
      <4> QED BY <3>0, <4>1, <4>3, <4>4 DEF Kept
    <3>2. ASSUME NEW n \in 1 .. reports
          PROVE  Copies(Report(n)) = IF dropped = Report(n) THEN 0 ELSE 1
      <4>1. Kept(Report(n)) = 1
        BY Numbers DEF TypeInv, TypeOK, Once
      <4> QED BY <3>0, <4>1 DEF Kept, Is
    <3> QED BY <3>1, <3>2 DEF NothingVanishes, Once
  <2>2. TypeInv /\ Once /\ [Next]_vars => TypeInv' /\ Once'
    BY <1>1, TypeStep, StepOnce
  <2> QED BY <2>1, <2>2, InitTypeInv, InitOnce, PTL DEF Spec
<1>2. CASE ~Callback
  <2>1. NothingVanishes
    BY <1>2 DEF NothingVanishes
  <2> QED BY <2>1, PTL
<1> QED BY <1>1, <1>2
=============================================================================
