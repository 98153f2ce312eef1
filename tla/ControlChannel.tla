--------------------------- MODULE ControlChannel ---------------------------
(***************************************************************************)
(* The control channel of one authenticated session, from the command on   *)
(* (aqara_ble/session.py, the end of _run_authenticated_lock_operation_    *)
(* once, and the U200Client calls built on it).  One queue holds all the   *)
(* lock sends on ff62: the replies, early or late, the acknowledgements of *)
(* keepalives and the events the lock pushes by itself; a second one holds *)
(* the reports of ff64 and ff92.  The session takes the command's reply,   *)
(* then makes the follow-up reads, then keeps forwarding what arrives      *)
(* until the listen window closes.                                         *)
(***************************************************************************)
EXTENDS Naturals, Sequences, FiniteSets

CONSTANTS
  FollowUps,    \* number of follow_up_ops
  OpOf,         \* opcode of the command (0) and of each follow-up read
  EventOps,     \* opcodes of the events the lock pushes by itself
  Callback,     \* on_report is given
  Listens,      \* listen_after > 0
  MaxEvents,    \* bound: events the lock pushes
  MaxReports,   \* bound: reports on ff64 and ff92
  MaxBad,       \* bound: frames empty, too short or not decryptable
  MaxPolls,     \* bound: keepalives sent within the listen window
  Uncaught      \* may a timeout of wait_for pass its except clause?  {TRUE} on
                \* Python 3.10, where it is not the TimeoutError named there,
                \* {FALSE} from 3.11 on

Keepalive == "2f"
Requests  == 0 .. FollowUps

ASSUME ChannelConstantsOK ==
  /\ FollowUps \in Nat /\ MaxEvents \in Nat /\ MaxReports \in Nat
  /\ MaxBad \in Nat /\ MaxPolls \in Nat
  /\ DOMAIN OpOf = Requests
  /\ Callback \in BOOLEAN /\ Listens \in BOOLEAN /\ Uncaught \subseteq BOOLEAN

VARIABLES
  pc,        \* where the session awaits
  k,         \* follow-up reads begun
  skipped,   \* the read under way has passed over a frame
  response,  \* what the command got
  out,       \* follow_up_out
  told,      \* history: what on_report was called with
  q,         \* control_queue
  rq,        \* report_queue
  getC, getR,  \* what the two pending gets of the listen loop have taken
  dropped,   \* history: the report taken together with a frame that fails the session
  expired,   \* the listen window is over
  todo,      \* what the lock has yet to answer
  polls,     \* keepalives sent within the window
  pushed,    \* history: the events pushed, in order
  reports, bad  \* reports and bad frames so far

sessionVars == <<pc, k, skipped, response, out, told, getC, getR, dropped, expired, polls>>
lockVars    == <<pushed, reports, bad>>
vars == <<sessionVars, q, rq, todo, lockVars>>

\* A frame is the reply to request id, the acknowledgement of a keepalive, the
\* event or the report of that number, or a bad one.
Reply(r)    == [kind |-> "reply", op |-> OpOf[r], id |-> r]
Ack         == [kind |-> "ack", op |-> Keepalive, id |-> 0]
Event(o, n) == [kind |-> "event", op |-> o, id |-> n]
Report(n)   == [kind |-> "report", op |-> "none", id |-> n]
Empty       == [kind |-> "empty", op |-> "none", id |-> 0]
Short       == [kind |-> "short", op |-> "none", id |-> 0]
Garbled     == [kind |-> "garbled", op |-> "none", id |-> 0]
Nothing     == [kind |-> "nothing", op |-> "none", id |-> 0]

Control == {Reply(r) : r \in Requests} \cup {Ack, Empty, Short, Garbled}
           \cup {Event(o, n) : o \in EventOps, n \in 1 .. MaxEvents}
Frames  == Control \cup {Report(n) : n \in 1 .. MaxReports} \cup {Nothing}

Phases == {"command", "reply", "read", "match", "listen", "wait", "done", "failed"}
Over   == {"done", "failed"}

Init ==
  /\ pc = "command" /\ k = 0 /\ skipped = FALSE
  /\ response = Nothing /\ out = <<>> /\ told = <<>>
  /\ q = <<>> /\ rq = <<>> /\ getC = Nothing /\ getR = Nothing
  /\ dropped = Nothing /\ expired = FALSE /\ todo = {} /\ polls = 0
  /\ pushed = <<>> /\ reports = 0 /\ bad = 0

\* Call on_report, if there is one.
Tell(frames) == told' = IF Callback THEN told \o frames ELSE told
-----------------------------------------------------------------------------
(* The command and its reply.                                              *)

SendCommand ==
  /\ pc = "command"
  /\ pc' = "reply"
  /\ todo' = {Reply(0)}
  /\ UNCHANGED <<k, skipped, response, out, told, getC, getR, dropped, expired, polls, q, rq, lockVars>>

\* After the reply come the follow-up reads, then the listen window.
AfterReads == IF Listens /\ Callback THEN "listen" ELSE "done"
AfterReply == IF FollowUps > 0 THEN "read" ELSE AfterReads

\* The first frame is the reply, whatever it is; an empty one is none.
TakeReply ==
  /\ pc = "reply" /\ q # <<>>
  /\ q' = Tail(q)
  /\ \/ /\ Head(q) \notin {Empty, Short, Garbled}
        /\ response' = Head(q)
        /\ pc' = AfterReply
     \/ /\ Head(q) = Empty
        /\ pc' = AfterReply
        /\ UNCHANGED response
     \/ /\ Head(q) \in {Short, Garbled}
        /\ pc' = "failed"
        /\ UNCHANGED response
  /\ UNCHANGED <<k, skipped, out, told, getC, getR, dropped, expired, polls, rq, todo, lockVars>>

\* No reply is none; a timeout that is not caught is the end of the session.
ReplyTimeout ==
  /\ pc = "reply" /\ q = <<>>
  /\ \E uncaught \in Uncaught : pc' = IF uncaught THEN "failed" ELSE AfterReply
  /\ UNCHANGED <<k, skipped, response, out, told, getC, getR, dropped, expired, polls,
                 q, rq, todo, lockVars>>
-----------------------------------------------------------------------------
(* The follow-up reads.                                                    *)

SendRead ==
  /\ pc = "read"
  /\ pc' = "match"
  /\ k' = k + 1
  /\ skipped' = FALSE
  /\ todo' = todo \cup {Reply(k + 1)}
  /\ UNCHANGED <<response, out, told, getC, getR, dropped, expired, polls, q, rq, lockVars>>

\* A read is over: the next one, or what comes after the reads.
ReadGot(frame) ==
  /\ out' = Append(out, frame)
  /\ pc' = IF k < FollowUps THEN "read" ELSE AfterReads

\* Variant of Matches: replies are taken in the order they arrive.
MatchesAny(frame) == frame # Garbled

\* The reply is known by its opcode.
Matches(frame) == frame.op = OpOf[k]

TakeMatch ==
  /\ pc = "match" /\ q # <<>>
  /\ Head(q) \notin {Empty, Short, Garbled} /\ Matches(Head(q))
  /\ q' = Tail(q)
  /\ ReadGot(Head(q))
  /\ UNCHANGED <<k, skipped, response, told, getC, getR, dropped, expired, polls, rq, todo, lockVars>>

\* Variant of PassOver: a frame of another opcode counts as an answer.
PassOverAnswering ==
  /\ pc = "match" /\ q # <<>>
  /\ Head(q) # Garbled /\ ~Matches(Head(q))
  /\ q' = Tail(q)
  /\ skipped' = TRUE
  /\ out' = Append(out, Nothing)
  /\ UNCHANGED <<pc, k, response, told, getC, getR, dropped, expired, polls, rq, todo, lockVars>>

\* A frame of another opcode goes to on_report; one too short is ignored.
PassOver ==
  /\ pc = "match" /\ q # <<>>
  /\ Head(q) # Garbled /\ ~Matches(Head(q))
  /\ q' = Tail(q)
  /\ skipped' = TRUE
  /\ Tell(IF Head(q) \in {Empty, Short} THEN <<>> ELSE <<Head(q)>>)
  /\ UNCHANGED <<pc, k, response, out, getC, getR, dropped, expired, polls, rq, todo, lockVars>>

ReadFails ==
  /\ pc = "match" /\ q # <<>> /\ Head(q) = Garbled
  /\ q' = Tail(q)
  /\ pc' = "failed"
  /\ UNCHANGED <<k, skipped, response, out, told, getC, getR, dropped, expired, polls,
                 rq, todo, lockVars>>

\* Variant of ReadTimeout: the read waits for its reply.
ReadTimeoutNever ==
  /\ pc = "match" /\ q # <<>> /\ skipped
  /\ ReadGot(Nothing)
  /\ UNCHANGED <<k, skipped, response, told, getC, getR, dropped, expired, polls,
                 q, rq, todo, lockVars>>

\* The deadline passed at a frame of another opcode, or nothing came until it:
\* the read is given up, its reply may still come.
ReadTimeout ==
  /\ pc = "match"
  /\ \/ /\ skipped \/ (q = <<>> /\ FALSE \in Uncaught)
        /\ ReadGot(Nothing)
     \/ /\ q = <<>> /\ TRUE \in Uncaught
        /\ pc' = "failed"
        /\ UNCHANGED out
  /\ UNCHANGED <<k, skipped, response, told, getC, getR, dropped, expired, polls,
                 q, rq, todo, lockVars>>
-----------------------------------------------------------------------------
(* The listen window.                                                      *)

\* The loop's head: a keepalive when one is due, then a get on each queue.
Listen ==
  /\ pc = "listen" /\ ~expired
  /\ pc' = "wait"
  /\ \/ UNCHANGED <<polls, todo>>
     \/ polls < MaxPolls /\ polls' = polls + 1 /\ todo' = todo \cup {Ack}
  /\ UNCHANGED <<k, skipped, response, out, told, getC, getR, dropped, expired, q, rq, lockVars>>

GetControl ==
  /\ pc = "wait" /\ getC = Nothing /\ q # <<>>
  /\ getC' = Head(q)
  /\ q' = Tail(q)
  /\ UNCHANGED <<pc, k, skipped, response, out, told, getR, dropped, expired, polls, rq, todo, lockVars>>

GetReport ==
  /\ pc = "wait" /\ getR = Nothing /\ rq # <<>>
  /\ getR' = Head(rq)
  /\ rq' = Tail(rq)
  /\ UNCHANGED <<pc, k, skipped, response, out, told, getC, dropped, expired, polls, q, todo, lockVars>>

\* What on_report gets of a control frame: no acknowledgement of a keepalive.
Heard == IF getC.op = Keepalive \/ getC \in {Nothing, Empty, Short} THEN <<>> ELSE <<getC>>

\* Variant of Wake: only the first get that is done is looked at.
WakeOne ==
  /\ pc = "wait" /\ getC # Garbled
  /\ pc' = "listen"
  /\ Tell(IF getC # Nothing THEN Heard ELSE IF getR = Nothing THEN <<>> ELSE <<getR>>)
  /\ getC' = Nothing /\ getR' = Nothing
  /\ UNCHANGED <<k, skipped, response, out, dropped, expired, polls, q, rq, todo, lockVars>>

\* One get, both, or the timeout: a pending get is cancelled, its queue keeps
\* what it has.
Wake ==
  /\ pc = "wait" /\ getC # Garbled
  /\ pc' = "listen"
  /\ Tell(Heard \o (IF getR = Nothing THEN <<>> ELSE <<getR>>))
  /\ getC' = Nothing /\ getR' = Nothing
  /\ UNCHANGED <<k, skipped, response, out, dropped, expired, polls, q, rq, todo, lockVars>>

\* A report taken together with the frame is not looked at any more.
ListenFails ==
  /\ pc = "wait" /\ getC = Garbled
  /\ pc' = "failed"
  /\ getC' = Nothing /\ getR' = Nothing /\ dropped' = getR
  /\ UNCHANGED <<k, skipped, response, out, told, expired, polls, q, rq, todo, lockVars>>

WindowCloses ==
  /\ pc \in {"listen", "wait"} /\ ~expired
  /\ expired' = TRUE
  /\ UNCHANGED <<pc, k, skipped, response, out, told, getC, getR, dropped, polls, q, rq, todo, lockVars>>

ListenOver ==
  /\ pc = "listen" /\ expired
  /\ pc' = "done"
  /\ UNCHANGED <<k, skipped, response, out, told, getC, getR, dropped, expired, polls,
                 q, rq, todo, lockVars>>
-----------------------------------------------------------------------------
(* The lock.                                                               *)

\* Answers come in any order and at any time, or never.
LockAnswers ==
  /\ pc \notin Over
  /\ \E f \in todo : q' = Append(q, f) /\ todo' = todo \ {f}
  /\ UNCHANGED <<sessionVars, rq, lockVars>>

LockPushes ==
  /\ pc \notin Over /\ Len(pushed) < MaxEvents
  /\ \E o \in EventOps :
       /\ pushed' = Append(pushed, Event(o, Len(pushed) + 1))
       /\ q' = Append(q, Event(o, Len(pushed) + 1))
  /\ UNCHANGED <<sessionVars, rq, todo, reports, bad>>

LockReports ==
  /\ pc \notin Over /\ reports < MaxReports
  /\ reports' = reports + 1
  /\ rq' = Append(rq, Report(reports + 1))
  /\ UNCHANGED <<sessionVars, q, todo, pushed, bad>>

BadFrame ==
  /\ pc \notin Over /\ bad < MaxBad
  /\ bad' = bad + 1
  /\ \E f \in {Empty, Short, Garbled} : q' = Append(q, f)
  /\ UNCHANGED <<sessionVars, rq, todo, pushed, reports>>
-----------------------------------------------------------------------------
Step ==
  \/ SendCommand \/ TakeReply \/ ReplyTimeout
  \/ SendRead \/ TakeMatch \/ PassOver \/ ReadFails \/ ReadTimeout
  \/ Listen \/ Wake \/ ListenFails \/ ListenOver

Gets   == GetControl \/ GetReport
Lock   == LockAnswers \/ LockPushes \/ LockReports \/ BadFrame
Ended  == pc \in Over /\ UNCHANGED vars

Next == Step \/ Gets \/ Lock \/ WindowCloses \/ Ended

\* The session's waits for the lock have timeouts and its window closes; the
\* lock need not answer or push anything.  The writes are the stack's to end.
Fairness == WF_vars(Step) /\ WF_vars(WindowCloses)

Spec == Init /\ [][Next]_vars
FairSpec == Spec /\ Fairness
-----------------------------------------------------------------------------
(* Properties.                                                             *)

\* The queues hold frames of their channels and the session its own results.
TypeOK ==
  /\ pc \in Phases /\ k \in 0 .. FollowUps /\ skipped \in BOOLEAN
  /\ response \in Control \cup {Nothing} /\ getC \in Control \cup {Nothing}
  /\ {getR, dropped} \subseteq {Report(n) : n \in 1 .. MaxReports} \cup {Nothing}
  /\ out \in Seq(Frames) /\ told \in Seq(Frames)
  /\ q \in Seq(Control) /\ rq \in Seq({Report(n) : n \in 1 .. MaxReports})
  /\ Len(out) <= k
  /\ expired \in BOOLEAN /\ todo \subseteq Control /\ polls \in 0 .. MaxPolls
  /\ pushed \in Seq(Control)
  /\ reports \in 0 .. MaxReports /\ bad \in 0 .. MaxBad

\* A follow-up read gets its own reply or none: not an event, not the late
\* reply of the command or of a read given up before (session.py:851-877).
ReadsGetTheirOwn == \A i \in 1 .. Len(out) : out[i] \in {Nothing, Reply(i)}

\* What the session and its consumer hold of frame f.
Holds(s, f) == Cardinality({i \in 1 .. Len(s) : s[i] = f})
Copies(f) == Holds(q, f) + Holds(rq, f) + Holds(told, f) + Holds(out, f)
             + Holds(<<response, getC, getR>>, f)

\* With a callback no event and no report is lost or forwarded twice, in the
\* reads and in the window: it is in a queue, taken as a reply, or forwarded;
\* two gets that end together are both looked at (session.py:875-877, 912-934).
\* The one exception is the report a session that fails has just taken.
NothingVanishes ==
  Callback =>
    /\ \A i \in 1 .. Len(pushed) : Copies(pushed[i]) = 1
    /\ \A n \in 1 .. reports : Copies(Report(n)) = IF dropped = Report(n) THEN 0 ELSE 1
    /\ dropped # Nothing => pc = "failed"

\* The session ends, whatever the lock sends or keeps silent about, if the
\* stack's writes and the callback return.
SessionEnds == pc = "command" ~> pc \in Over

\* client.py:500-501: battery() "Returns responded=False if the lock does not
\* answer"; its reply is the command's.
RespondedMeansAnswered == response \in {Nothing, Reply(0)}
=============================================================================
