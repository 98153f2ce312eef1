----------------------------- MODULE DeviceLock -----------------------------
(***************************************************************************)
(* What run_authenticated_lock_operation promises its callers: calls of    *)
(* one device hold it one at a time, a call that finds it held is refused  *)
(* and never waits, a call moves the lock at most once and only while it   *)
(* holds the device, and a call that has moved the lock never takes the    *)
(* device again.  Success is reported only for a call that moved it.       *)
(***************************************************************************)
EXTENDS Naturals

CONSTANTS Calls, DeviceOf

VARIABLES
  holding,  \* the calls that hold their device
  moved,    \* how often each call has sent its command
  outcome   \* what each caller got, "none" while the call runs

absVars == <<holding, moved, outcome>>

Init ==
  /\ holding = {}
  /\ moved   = [c \in Calls |-> 0]
  /\ outcome = [c \in Calls |-> "none"]

Held(c) == \E h \in holding : DeviceOf[h] = DeviceOf[c]

\* A call takes its free device; a second time only if it has not moved it.
Acquire(c) ==
  /\ outcome[c] = "none" /\ moved[c] = 0
  /\ ~Held(c)
  /\ holding' = holding \cup {c}
  /\ UNCHANGED <<moved, outcome>>

\* Fail-fast refusal: somebody else holds the device.
Refuse(c) ==
  /\ outcome[c] = "none" /\ moved[c] = 0
  /\ c \notin holding /\ Held(c)
  /\ outcome' = [outcome EXCEPT ![c] = "busy"]
  /\ UNCHANGED <<holding, moved>>

Move(c) ==
  /\ c \in holding /\ moved[c] = 0
  /\ moved' = [moved EXCEPT ![c] = 1]
  /\ UNCHANGED <<holding, outcome>>

\* Give the device back, with an outcome or (never having moved) to try again.
Release(c) ==
  /\ c \in holding
  /\ holding' = holding \ {c}
  /\ \/ /\ outcome' = [outcome EXCEPT ![c] = "ok"]
        /\ moved[c] = 1
     \/ \E r \in {"108", "fail", "cancelled"} : outcome' = [outcome EXCEPT ![c] = r]
     \/ UNCHANGED outcome /\ moved[c] = 0
  /\ UNCHANGED moved

\* A call that ends without the device has not moved it.
GiveUp(c) ==
  /\ outcome[c] = "none" /\ c \notin holding /\ moved[c] = 0
  /\ \E r \in {"108", "fail", "cancelled", "valueerror"} :
        outcome' = [outcome EXCEPT ![c] = r]
  /\ UNCHANGED <<holding, moved>>

Next == \E c \in Calls : Acquire(c) \/ Refuse(c) \/ Move(c) \/ Release(c) \/ GiveUp(c)

Spec == Init /\ [][Next]_absVars
=============================================================================
