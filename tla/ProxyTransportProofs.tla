------------------------ MODULE ProxyTransportProofs ------------------------
(***************************************************************************)
(* The proxy transports never forget what they have open, and one process  *)
(* makes one Bluetooth manager, for any number of transports and attempts. *)
(***************************************************************************)
EXTENDS ProxyTransport, TLAPS

Awaits == Opening \cup Releasing \cup Over \cup {"ready"}

\* The variables are of their kinds.
TypeOK ==
  /\ manager \in Nat \cup {None} /\ made \in Nat /\ raced \in BOOLEAN
  /\ pc \in [Transports -> Awaits]
  /\ tries \in [Transports -> Nat]
  /\ polled \in [Transports -> Nat \cup {None}]
  /\ target \in [Transports -> Nat \cup {None}]
  /\ held \in [Transports -> SUBSET Things]
  /\ open \in [Transports -> SUBSET Things]
  /\ closing \in [Transports -> BOOLEAN]
  /\ mishaps \in [Transports -> SUBSET Mishaps]

\* When only the API is left to release, only its field is still filled.
ReleasedInOrder(t) == pc[t] = "hang up" => held[t] \subseteq {"api"}

Remembered(t) ==
  mishaps[t] \cap {"half", "raised"} = {} =>
    /\ "api" \in open[t] \ held[t] => pc[t] = "info"
    /\ open[t] \cap {"scanner", "link"} \subseteq held[t]
    /\ pc[t] \in {"failed", "closed"} /\ "cut" \notin mishaps[t] => open[t] = {} /\ held[t] = {}

\* A recorded API scans into the process's manager, and connect polls that one.
Listens(t) ==
  /\ "api" \in held[t] => target[t] = manager
  /\ "api" \in held[t] \/ pc[t] \in (Opening \ {"manager", "setup"}) \cup {"ready"} => manager # None
  /\ pc[t] \in (Opening \ {"manager", "setup"}) \cup {"ready"} =>
       polled[t] = manager /\ target[t] = manager

\* One transport sets the manager up, and only while there is none.
Alone(t) == pc[t] = "setup" => manager = None /\ \A u \in Transports : pc[u] = "setup" => u = t

Made == IF manager = None THEN made = 0 ELSE manager = 1 /\ made = 1

\* Until two set-ups overlap.
OneManager == Made /\ \A t \in Transports : Alone(t) /\ Listens(t)

IInv ==
  /\ TypeOK
  /\ \A t \in Transports : ReleasedInOrder(t) /\ Remembered(t)
  /\ ~raced => OneManager
-----------------------------------------------------------------------------
(* Facts about the sets, and about a step of one transport.                *)

\* The awaits and the sets of things and mishaps the actions assign.
LEMMA Members ==
  /\ \A w \in {"manager", "setup", "dial", "info", "poll", "link", "passive", "params",
              "active", "unlink", "hang up", "idle", "no scan", "failed", "closed", "cancelled",
              "ready"} : w \in Awaits
  /\ \A a \in {"api", "scanner", "link"} : a \in Things
  /\ \A a \in {"half", "raised", "cut"} : a \in Mishaps
BY DEF Awaits, Opening, Releasing, Over, Things, Mishaps

\* What a step of t leaves alone.
Frame(t) ==
  \A u \in Transports \ {t} :
    /\ pc'[u] = pc[u] /\ held'[u] = held[u] /\ open'[u] = open[u] /\ mishaps'[u] = mishaps[u]
    /\ polled'[u] = polled[u] /\ target'[u] = target[u]

\* A step of t that keeps what is said of t keeps the invariant.
LEMMA OwnStep ==
  ASSUME IInv, NEW t \in Transports, Frame(t), TypeOK',
         ReleasedInOrder(t)', Remembered(t)',
         manager' = manager, made' = made, raced \in {FALSE, raced'},
         ~raced' => Listens(t)' /\ Alone(t)'
  PROVE  IInv'
<1> USE DEF IInv
<1>1. ASSUME NEW u \in Transports PROVE ReleasedInOrder(u)' /\ Remembered(u)'
  BY DEF Frame, ReleasedInOrder, Remembered
<1>2. ASSUME ~raced' PROVE OneManager'
  <2>1. OneManager /\ Made'
    BY <1>2 DEF OneManager, Made
  <2>2. ASSUME NEW u \in Transports, u # t PROVE Listens(u)'
    BY <2>1, <2>2 DEF OneManager, Listens, Frame
  <2>3. ASSUME NEW u \in Transports, u # t PROVE Alone(u)'
    BY <1>2, <2>1, <2>3 DEF OneManager, Alone, Frame
  <2> QED BY <1>2, <2>1, <2>2, <2>3 DEF OneManager
<1> QED BY <1>1, <1>2
-----------------------------------------------------------------------------
(* The release.                                                            *)

\* The release of h, of which o is open, is at w, with k recorded and p open.
Reached(t, h, o, w, k, p) ==
  /\ pc' = [pc EXCEPT ![t] = w]
  /\ held' = [held EXCEPT ![t] = k] /\ open' = [open EXCEPT ![t] = p]
  /\ w = "hang up" => k \subseteq {"api"}
  /\ w \in {"closed", "failed"} => k = {}
  /\ k \subseteq h /\ p \subseteq o
  /\ o \subseteq h => p \subseteq k

\* The release of h, of which o is open, goes on where h is not yet released, and
\* ends with nothing recorded; what it passes over is closed.
LEMMA ReleaseGoesOn ==
  ASSUME IInv, NEW t \in Transports, NEW h \in SUBSET Things, NEW o \in SUBSET Things,
         NEW first \in Releasing, first = "hang up" => "link" \notin h,
         ReleaseFrom(t, h, o, first)
  PROVE  \E w \in Releasing \cup {"closed", "failed"}, k \in SUBSET Things, p \in SUBSET Things :
           Reached(t, h, o, w, k, p)
<1> USE DEF Reached
<1>1. CASE first = "active" /\ "api" \in h
  BY <1>1 DEF ReleaseFrom, Goto, Releasing
<1>2. CASE ~(first = "active" /\ "api" \in h) /\ first \in {"active", "unlink"} /\ "link" \in h
  BY <1>2 DEF ReleaseFrom, Goto, Releasing
<1>3. CASE ~(first = "active" /\ "api" \in h) /\ ~(first \in {"active", "unlink"} /\ "link" \in h)
  <2> DEFINE w == IF "api" \in h THEN "hang up" ELSE Outcome(closing'[t])
             k == h \ {"scanner"}
             p == IF "scanner" \in h THEN o \ {"scanner"} ELSE o
  <2>1. pc' = [pc EXCEPT ![t] = w] /\ held' = [held EXCEPT ![t] = k] /\ open' = [open EXCEPT ![t] = p]
    BY <1>3 DEF ReleaseFrom, Goto
  <2>2. w \in Releasing \cup {"closed", "failed"} /\ (w = "hang up" <=> "api" \in h)
    BY DEF Outcome, Releasing
  <2>3. k \subseteq {"api"}
    BY <1>3 DEF Releasing, Things
  <2>4. k \subseteq h /\ p \subseteq o /\ p \in SUBSET Things /\ k \in SUBSET Things
    OBVIOUS
  <2>5. o \subseteq h => p \subseteq k
    OBVIOUS
  <2>6. w \in {"closed", "failed"} => k = {}
    BY <2>2, <2>3 DEF Releasing
  <2> HIDE DEF w, k, p
  <2> QED BY <2>1, <2>2, <2>3, <2>4, <2>5, <2>6
<1> QED BY <1>1, <1>2, <1>3

\* Where a release goes on is no await of connect.
LEMMA ReleaseNames ==
  \A w \in Releasing \cup {"closed", "failed"} :
    w \in Awaits /\ w \notin Opening \cup {"ready"} /\ w # "info" /\ w # "setup"
BY DEF Awaits, Opening, Releasing, Over

\* A step of a release that goes on at w, with k recorded and p open.
LEMMA ReleaseKeeps ==
  ASSUME IInv, NEW t \in Transports, NEW k \in SUBSET Things, NEW p \in SUBSET Things,
         NEW w \in Releasing \cup {"closed", "failed"}, NEW c \in BOOLEAN, NEW m \in SUBSET Mishaps,
         pc' = [pc EXCEPT ![t] = w],
         held' = [held EXCEPT ![t] = k], open' = [open EXCEPT ![t] = p],
         closing' = [closing EXCEPT ![t] = c], mishaps' = [mishaps EXCEPT ![t] = m],
         w = "hang up" => k \subseteq {"api"},
         w \in {"closed", "failed"} => k = {},
         k \subseteq held[t],
         m \cap {"half", "raised"} = {} => p \subseteq k,
         UNCHANGED <<manager, made, tries, polled, target, raced>>
  PROVE  IInv'
<1> USE DEF IInv
<1>1. w \in Awaits /\ w \notin Opening \cup {"ready"} /\ w # "info" /\ w # "setup"
  BY ReleaseNames
<1>2. TypeOK'
  BY <1>1 DEF TypeOK
<1>3. Frame(t)
  BY DEF Frame, TypeOK
<1>4. ReleasedInOrder(t)' /\ Remembered(t)'
  BY <1>1 DEF TypeOK, ReleasedInOrder, Remembered
<1>5. ASSUME ~raced' PROVE Listens(t)' /\ Alone(t)'
  <2>1. pc'[t] = w /\ held'[t] = k /\ target' = target /\ manager' = manager
    BY DEF TypeOK
  <2>2. "api" \in k => target[t] = manager /\ manager # None
    BY <1>5 DEF OneManager, Listens
  <2>3. Listens(t)'
    BY <1>1, <2>1, <2>2 DEF Listens
  <2> QED BY <1>1, <2>1, <2>3 DEF Alone
<1>6. raced \in {FALSE, raced'}
  BY DEF TypeOK
<1> QED BY <1>2, <1>3, <1>4, <1>5, <1>6, OwnStep

\* What is held and recorded of a transport that releases.
LEMMA AtRelease ==
  ASSUME IInv, NEW t \in Transports, pc[t] \notin {"info"}, mishaps[t] \cap {"half", "raised"} = {}
  PROVE  open[t] \subseteq held[t]
BY DEF IInv, Remembered, TypeOK, Things

\* connect fails, or close() begins.
LEMMA FirstReleaseKeeps == ASSUME IInv, NEW t \in Transports, ConnectFails(t) \/ Close(t) PROVE IInv'
<1>1. /\ pc[t] \in Awaits /\ held[t] \in SUBSET Things /\ open[t] \in SUBSET Things
      /\ mishaps[t] \in SUBSET Mishaps
  BY DEF IInv, TypeOK
<1>2. PICK c \in BOOLEAN, m \in SUBSET Mishaps :
         /\ closing' = [closing EXCEPT ![t] = c] /\ mishaps' = [mishaps EXCEPT ![t] = m]
         /\ m \cap {"half", "raised"} = {} => open[t] \subseteq held[t]
         /\ ReleaseFrom(t, held[t], open[t], "active")
         /\ UNCHANGED <<manager, made, tries, polled, target, raced>>
  <2>1. CASE ConnectFails(t) /\ pc[t] = "info"
    <3>1. mishaps' = [mishaps EXCEPT ![t] = mishaps[t] \cup {"half"}] /\ mishaps[t] \cup {"half"} \in SUBSET Mishaps
      BY <1>1, <2>1, Members DEF ConnectFails, Mishap
    <3>2. "half" \in (mishaps[t] \cup {"half"}) \cap {"half", "raised"}
      OBVIOUS
    <3> QED BY <2>1, <3>1, <3>2 DEF ConnectFails
  <2>2. CASE ConnectFails(t) /\ pc[t] # "info"
    <3>1. mishaps' = [mishaps EXCEPT ![t] = mishaps[t]]
      BY <1>1, <2>2 DEF ConnectFails, Mishap
    <3> QED BY <1>1, <2>2, <3>1, AtRelease DEF ConnectFails
  <2>3. CASE Close(t)
    <3>1. mishaps' = [mishaps EXCEPT ![t] = mishaps[t]]
      BY <2>3 DEF Close, IInv, TypeOK
    <3> QED BY <1>1, <2>3, <3>1, AtRelease DEF Close
  <2> QED BY <2>1, <2>2, <2>3
<1>3. "active" \in Releasing
  BY DEF Releasing
<1>4. PICK w \in Releasing \cup {"closed", "failed"}, k \in SUBSET Things, p \in SUBSET Things :
         Reached(t, held[t], open[t], w, k, p)
  BY <1>1, <1>2, <1>3, ReleaseGoesOn
<1> QED BY <1>2, <1>4, ReleaseKeeps DEF Reached

\* A step of the release is done, or raises.
LEMMA NextReleaseKeeps ==
  ASSUME IInv, NEW t \in Transports, ReleaseStepDone(t) \/ ReleaseStepRaises(t) PROVE IInv'
<1>1. /\ pc[t] \in Releasing /\ held[t] \in SUBSET Things /\ open[t] \in SUBSET Things
      /\ closing[t] \in BOOLEAN /\ mishaps[t] \in SUBSET Mishaps
      /\ UNCHANGED <<manager, made, tries, polled, target, raced, closing>>
  BY DEF IInv, TypeOK, ReleaseStepDone, ReleaseStepRaises
<1>2. closing' = [closing EXCEPT ![t] = closing[t]]
  BY <1>1 DEF IInv, TypeOK
<1> DEFINE h == held[t] \ Released(t)
<1>3. /\ After(t) \in Releasing /\ h \in SUBSET Things
      /\ After(t) = "hang up" => pc[t] \in {"unlink", "hang up"}
  BY <1>1 DEF After, Releasing
<1>4. PICK o \in SUBSET Things, m \in SUBSET Mishaps :
         /\ mishaps' = [mishaps EXCEPT ![t] = m]
         /\ m \cap {"half", "raised"} = {} => o \subseteq h
         /\ ReleaseFrom(t, h, o, After(t))
  <2>1. CASE ReleaseStepDone(t)
    <3>1. mishaps' = [mishaps EXCEPT ![t] = mishaps[t]]
      BY <2>1 DEF ReleaseStepDone, IInv, TypeOK
    <3>2. mishaps[t] \cap {"half", "raised"} = {} => open[t] \ Released(t) \subseteq h
      BY <1>1, AtRelease DEF Releasing
    <3> QED BY <1>1, <2>1, <3>1, <3>2 DEF ReleaseStepDone
  <2>2. CASE ReleaseStepRaises(t) /\ pc[t] = "active"
    <3>1. mishaps' = [mishaps EXCEPT ![t] = mishaps[t]] /\ Released(t) = {}
      BY <1>1, <2>2 DEF ReleaseStepRaises, Mishap, Released
    <3>2. mishaps[t] \cap {"half", "raised"} = {} => open[t] \subseteq h
      BY <1>1, <3>1, AtRelease DEF Releasing
    <3> QED BY <1>1, <2>2, <3>1, <3>2 DEF ReleaseStepRaises
  <2>3. CASE ReleaseStepRaises(t) /\ pc[t] # "active"
    <3>1. mishaps' = [mishaps EXCEPT ![t] = mishaps[t] \cup {"raised"}] /\ mishaps[t] \cup {"raised"} \in SUBSET Mishaps
      BY <1>1, <2>3, Members DEF ReleaseStepRaises, Mishap
    <3>2. "raised" \in (mishaps[t] \cup {"raised"}) \cap {"half", "raised"}
      OBVIOUS
    <3> QED BY <1>1, <2>3, <3>1, <3>2 DEF ReleaseStepRaises
  <2> QED BY <2>1, <2>2, <2>3
<1>5. After(t) = "hang up" => "link" \notin h
  <2>1. pc[t] = "hang up" => held[t] \subseteq {"api"}
    BY DEF IInv, ReleasedInOrder
  <2>2. pc[t] = "unlink" => Released(t) = {"link"}
    BY DEF Released
  <2> QED BY <1>3, <2>1, <2>2
<1>6. h \subseteq held[t]
  OBVIOUS
<1> HIDE DEF h
<1>7. PICK w \in Releasing \cup {"closed", "failed"}, k \in SUBSET Things, p \in SUBSET Things :
         Reached(t, h, o, w, k, p)
  BY <1>1, <1>3, <1>4, <1>5, ReleaseGoesOn
<1> QED BY <1>1, <1>2, <1>4, <1>6, <1>7, ReleaseKeeps DEF Reached
-----------------------------------------------------------------------------
(* The steps of connect, and what happens to them.                         *)

\* A new attempt begins with what the last one left.
LEMMA BeginKeeps == ASSUME IInv, NEW t \in Transports, Begin(t) PROVE IInv'
<1> USE DEF IInv
<1>0. /\ pc' = [pc EXCEPT ![t] = "manager"] \/ pc' = [pc EXCEPT ![t] = "no scan"]
      /\ tries' = [tries EXCEPT ![t] = @ + 1]
      /\ UNCHANGED <<manager, made, polled, target, held, open, closing, mishaps, raced>>
  BY DEF Begin, Goto
<1>1. TypeOK'
  <2>1. pc' \in [Transports -> Awaits]
    BY <1>0, Members DEF TypeOK
  <2>2. tries' \in [Transports -> Nat]
    <3>1. tries \in [Transports -> Nat] /\ tries[t] + 1 \in Nat
      BY DEF TypeOK
    <3>2. tries' = [tries EXCEPT ![t] = tries[t] + 1]
      BY <1>0
    <3> QED BY <3>1, <3>2
  <2> QED BY <1>0, <2>1, <2>2 DEF TypeOK
<1>2. Frame(t) /\ manager' = manager /\ made' = made
  BY DEF Begin, Goto, TypeOK, Frame
<1>3. ReleasedInOrder(t)' /\ Remembered(t)'
  BY DEF Begin, Goto, TypeOK, ReleasedInOrder, Remembered, Opening, Over, Releasing
<1>4. ASSUME ~raced' PROVE Listens(t)' /\ Alone(t)'
  <2>1. pc'[t] \in {"manager", "no scan"} /\ held' = held /\ target' = target /\ manager' = manager
    BY <1>0 DEF TypeOK
  <2>2. "api" \in held[t] => target[t] = manager /\ manager # None
    BY <1>0, <1>4 DEF OneManager, Listens
  <2>3. pc'[t] \notin (Opening \ {"manager", "setup"}) \cup {"ready"} /\ pc'[t] # "setup"
    BY <2>1 DEF Opening
  <2>4. Listens(t)'
    BY <2>1, <2>2, <2>3 DEF Listens
  <2> QED BY <2>3, <2>4 DEF Alone
<1>5. raced \in {FALSE, raced'}
  BY DEF Begin, Goto, TypeOK
<1> QED BY <1>1, <1>2, <1>3, <1>4, <1>5, OwnStep

\* The manager there is, or the set-up of one.
LEMMA EnsureManagerKeeps == ASSUME IInv, NEW t \in Transports, EnsureManager(t) PROVE IInv'
<1> USE DEF IInv
<1>1. CASE manager = None /\ UNCHANGED polled
  <2>1. /\ pc[t] = "manager" /\ pc' = [pc EXCEPT ![t] = "setup"]
        /\ raced' = (raced \/ \E u \in Transports \ {t} : pc[u] = "setup")
        /\ UNCHANGED <<manager, made, tries, polled, target, held, open, closing, mishaps>>
    BY <1>1, ProxyConstantsOK DEF EnsureManager, Goto
  <2>2. TypeOK'
    BY <2>1, Members DEF TypeOK
  <2>3. Frame(t)
    BY <2>1 DEF TypeOK, Frame
  <2>4. ReleasedInOrder(t)' /\ Remembered(t)'
    BY <2>1 DEF TypeOK, ReleasedInOrder, Remembered
  <2>5. ~raced' => Listens(t)' /\ Alone(t)'
    BY <1>1, <2>1 DEF TypeOK, OneManager, Listens, Alone, Opening
  <2>6. raced \in {FALSE, raced'}
    BY <2>1 DEF TypeOK
  <2> QED BY <2>1, <2>2, <2>3, <2>4, <2>5, <2>6, OwnStep
<1>2. CASE manager # None
  <2>1. /\ pc[t] = "manager" /\ EnsureApi(t, manager)
        /\ UNCHANGED <<manager, made, tries, held, open, closing, mishaps, raced>>
    BY <1>2 DEF EnsureManager
  <2>2. /\ polled' = [polled EXCEPT ![t] = manager]
        /\ \/ "api" \in held[t] /\ pc' = [pc EXCEPT ![t] = "poll"] /\ target' = target
           \/ pc' = [pc EXCEPT ![t] = "dial"] /\ target' = [target EXCEPT ![t] = manager]
    BY <2>1 DEF EnsureApi, Goto
  <2>3. TypeOK'
    <3>1. pc' \in [Transports -> Awaits]
      BY <2>2, Members DEF TypeOK
    <3>2. /\ polled' \in [Transports -> Nat \cup {None}]
          /\ target' \in [Transports -> Nat \cup {None}]
      BY <2>2 DEF TypeOK
    <3> QED BY <2>1, <3>1, <3>2 DEF TypeOK
  <2>4. Frame(t)
    BY <2>1, <2>2 DEF TypeOK, Frame
  <2>5. ReleasedInOrder(t)' /\ Remembered(t)'
    BY <2>1, <2>2 DEF TypeOK, ReleasedInOrder, Remembered
  <2>6. ~raced' => Listens(t)' /\ Alone(t)'
    <3>1. polled'[t] = manager /\ pc'[t] \in {"poll", "dial"}
      BY <2>2 DEF TypeOK
    <3>2. target'[t] = manager \/ ("api" \in held[t] /\ target' = target)
      BY <2>2 DEF TypeOK
    <3> QED BY <1>2, <2>1, <3>1, <3>2 DEF OneManager, Listens, Alone
  <2>7. raced \in {FALSE, raced'}
    BY <2>1 DEF TypeOK
  <2> QED BY <2>1, <2>3, <2>4, <2>5, <2>6, <2>7, OwnStep
<1> QED BY <1>1, <1>2 DEF EnsureManager

\* The API opens before it is recorded.
LEMMA DialledKeeps == ASSUME IInv, NEW t \in Transports, Dialled(t) PROVE IInv'
<1> USE DEF IInv
<1>1. TypeOK'
  BY Members DEF Dialled, Goto, Opens, TypeOK
<1>2. Frame(t) /\ manager' = manager /\ made' = made
  BY DEF Dialled, Goto, Opens, TypeOK, Frame
<1>3. ReleasedInOrder(t)' /\ Remembered(t)'
  BY DEF Dialled, Goto, Opens, TypeOK, ReleasedInOrder, Remembered, Opening, Over, Releasing
<1>4. ~raced' => Listens(t)' /\ Alone(t)'
  BY DEF Dialled, Goto, Opens, TypeOK, OneManager, Listens, Alone, Opening, Over, Releasing
<1>5. raced \in {FALSE, raced'}
  BY DEF Dialled, Goto, Opens, TypeOK
<1> QED BY <1>1, <1>2, <1>3, <1>4, <1>5, OwnStep

\* The API and the scanner are recorded.
LEMMA RegisteredKeeps == ASSUME IInv, NEW t \in Transports, Registered(t) PROVE IInv'
<1> USE DEF IInv
<1>1. TypeOK'
  BY Members DEF Registered, Goto, Opens, Holds, TypeOK
<1>2. Frame(t) /\ manager' = manager /\ made' = made
  BY DEF Registered, Goto, Opens, Holds, TypeOK, Frame
<1>3. ReleasedInOrder(t)' /\ Remembered(t)'
  BY DEF Registered, Goto, Opens, Holds, TypeOK, ReleasedInOrder, Remembered, Opening, Over, Releasing
<1>4. ~raced' => Listens(t)' /\ Alone(t)'
  BY DEF Registered, Goto, Opens, Holds, TypeOK, OneManager, Listens, Alone, Opening, Over, Releasing
<1>5. raced \in {FALSE, raced'}
  BY DEF Registered, Goto, Opens, Holds, TypeOK
<1> QED BY <1>1, <1>2, <1>3, <1>4, <1>5, OwnStep

\* The lock is seen.
LEMMA LockSeenKeeps == ASSUME IInv, NEW t \in Transports, LockSeen(t) PROVE IInv'
<1> USE DEF IInv
<1>1. TypeOK'
  BY Members DEF LockSeen, Goto, TypeOK
<1>2. Frame(t) /\ manager' = manager /\ made' = made
  BY DEF LockSeen, Goto, TypeOK, Frame
<1>3. ReleasedInOrder(t)' /\ Remembered(t)'
  BY DEF LockSeen, Goto, TypeOK, ReleasedInOrder, Remembered, Opening, Over, Releasing
<1>4. ~raced' => Listens(t)' /\ Alone(t)'
  BY DEF LockSeen, Goto, TypeOK, OneManager, Listens, Alone, Opening, Over, Releasing
<1>5. raced \in {FALSE, raced'}
  BY DEF LockSeen, Goto, TypeOK
<1> QED BY <1>1, <1>2, <1>3, <1>4, <1>5, OwnStep

\* The link is recorded as it opens.
LEMMA LinkUpKeeps == ASSUME IInv, NEW t \in Transports, LinkUp(t) PROVE IInv'
<1> USE DEF IInv
<1>1. TypeOK'
  BY Members DEF LinkUp, Goto, Opens, Holds, TypeOK
<1>2. Frame(t) /\ manager' = manager /\ made' = made
  BY DEF LinkUp, Goto, Opens, Holds, TypeOK, Frame
<1>3. ReleasedInOrder(t)' /\ Remembered(t)'
  BY DEF LinkUp, Goto, Opens, Holds, TypeOK, ReleasedInOrder, Remembered, Opening, Over, Releasing
<1>4. ~raced' => Listens(t)' /\ Alone(t)'
  BY DEF LinkUp, Goto, Opens, Holds, TypeOK, OneManager, Listens, Alone, Opening, Over, Releasing
<1>5. raced \in {FALSE, raced'}
  BY DEF LinkUp, Goto, Opens, Holds, TypeOK
<1> QED BY <1>1, <1>2, <1>3, <1>4, <1>5, OwnStep

\* Tuning opens nothing.
LEMMA TunedKeeps == ASSUME IInv, NEW t \in Transports, Tuned(t) PROVE IInv'
<1> USE DEF IInv
<1>1. TypeOK'
  BY Members DEF Tuned, Goto, TypeOK
<1>2. Frame(t) /\ manager' = manager /\ made' = made
  BY DEF Tuned, Goto, TypeOK, Frame
<1>3. ReleasedInOrder(t)' /\ Remembered(t)'
  BY DEF Tuned, Goto, TypeOK, ReleasedInOrder, Remembered, Opening, Over, Releasing
<1>4. ~raced' => Listens(t)' /\ Alone(t)'
  BY DEF Tuned, Goto, TypeOK, OneManager, Listens, Alone, Opening, Over, Releasing
<1>5. raced \in {FALSE, raced'}
  BY DEF Tuned, Goto, TypeOK
<1> QED BY <1>1, <1>2, <1>3, <1>4, <1>5, OwnStep

\* A drop closes.
LEMMA DropsKeeps == ASSUME IInv, NEW t \in Transports, Drops(t) PROVE IInv'
<1> USE DEF IInv
<1>1. TypeOK'
  BY Members DEF Drops, TypeOK
<1>2. Frame(t) /\ manager' = manager /\ made' = made
  BY DEF Drops, TypeOK, Frame
<1>3. ReleasedInOrder(t)' /\ Remembered(t)'
  <2>1. PICK lost \in SUBSET {"api", "link"} : open' = [open EXCEPT ![t] = @ \ lost]
    BY DEF Drops
  <2>2. open'[t] = open[t] \ lost /\ UNCHANGED <<pc, held, mishaps>>
    BY <2>1 DEF Drops, TypeOK
  <2> QED BY <2>2 DEF ReleasedInOrder, Remembered
<1>4. ~raced' => Listens(t)' /\ Alone(t)'
  BY DEF Drops, TypeOK, OneManager, Listens, Alone, Opening, Over, Releasing
<1>5. raced \in {FALSE, raced'}
  BY DEF Drops, TypeOK
<1> QED BY <1>1, <1>2, <1>3, <1>4, <1>5, OwnStep

\* A release that is cut keeps its fields.
LEMMA ReleaseDeadlineKeeps == ASSUME IInv, NEW t \in Transports, ReleaseDeadline(t) PROVE IInv'
<1> USE DEF IInv
<1>1. TypeOK'
  BY Members DEF ReleaseDeadline, Goto, Mishap, Outcome, TypeOK
<1>2. Frame(t) /\ manager' = manager /\ made' = made
  BY DEF ReleaseDeadline, Goto, Mishap, Outcome, TypeOK, Frame
<1>3. ReleasedInOrder(t)' /\ Remembered(t)'
  BY DEF ReleaseDeadline, Goto, Mishap, Outcome, TypeOK, ReleasedInOrder, Remembered, Opening, Over, Releasing
<1>4. ~raced' => Listens(t)' /\ Alone(t)'
  BY DEF ReleaseDeadline, Goto, Mishap, Outcome, TypeOK, OneManager, Listens, Alone, Opening, Over, Releasing
<1>5. raced \in {FALSE, raced'}
  BY DEF ReleaseDeadline, Goto, Mishap, Outcome, TypeOK
<1> QED BY <1>1, <1>2, <1>3, <1>4, <1>5, OwnStep

\* So does a cancelled step.
LEMMA CancelKeeps == ASSUME IInv, NEW t \in Transports, Cancel(t) PROVE IInv'
<1> USE DEF IInv
<1>1. TypeOK'
  BY Members DEF Cancel, Goto, Mishap, TypeOK
<1>2. Frame(t) /\ manager' = manager /\ made' = made
  BY DEF Cancel, Goto, Mishap, TypeOK, Frame
<1>3. ReleasedInOrder(t)' /\ Remembered(t)'
  BY DEF Cancel, Goto, Mishap, TypeOK, ReleasedInOrder, Remembered, Opening, Over, Releasing
<1>4. ~raced' => Listens(t)' /\ Alone(t)'
  BY DEF Cancel, Goto, Mishap, TypeOK, OneManager, Listens, Alone, Opening, Over, Releasing
<1>5. raced \in {FALSE, raced'}
  BY DEF Cancel, Goto, Mishap, TypeOK
<1> QED BY <1>1, <1>2, <1>3, <1>4, <1>5, OwnStep

\* The manager is set, the first one where no two set-ups overlapped.
LEMMA ManagerReadyKeeps == ASSUME IInv, NEW t \in Transports, ManagerReady(t) PROVE IInv'
<1> USE DEF IInv
<1>1. /\ pc[t] = "setup" /\ made \in Nat /\ made' = made + 1 /\ manager' = made'
      /\ polled' = [polled EXCEPT ![t] = made']
      /\ \/ "api" \in held[t] /\ pc' = [pc EXCEPT ![t] = "poll"] /\ target' = target
         \/ pc' = [pc EXCEPT ![t] = "dial"] /\ target' = [target EXCEPT ![t] = made']
      /\ UNCHANGED <<tries, held, open, closing, mishaps, raced>>
  BY DEF ManagerReady, EnsureApi, Goto, TypeOK
<1>2. TypeOK'
  <2>1. made' \in Nat /\ manager' \in Nat \cup {None}
    BY <1>1
  <2>2. pc' \in [Transports -> Awaits]
    BY <1>1, Members DEF TypeOK
  <2>3. polled' \in [Transports -> Nat \cup {None}] /\ target' \in [Transports -> Nat \cup {None}]
    <3>1. polled \in [Transports -> Nat \cup {None}] /\ target \in [Transports -> Nat \cup {None}]
      BY DEF TypeOK
    <3> QED BY <1>1, <2>1, <3>1
  <2> QED BY <1>1, <2>1, <2>2, <2>3 DEF TypeOK
<1>3. ASSUME NEW u \in Transports PROVE ReleasedInOrder(u)' /\ Remembered(u)'
  BY <1>1 DEF TypeOK, ReleasedInOrder, Remembered
<1>4. ASSUME ~raced' PROVE OneManager'
  <2>1. manager = None /\ made = 0 /\ \A u \in Transports : pc[u] = "setup" => u = t
    BY <1>1, <1>4 DEF OneManager, Alone, Made
  <2>2. manager' = 1 /\ made' = 1 /\ manager' # None
    BY <1>1, <2>1, ProxyConstantsOK DEF ProxyConstantsOK
  <2>3. ASSUME NEW u \in Transports, u # t PROVE Listens(u)' /\ Alone(u)'
    <3>1. pc'[u] = pc[u] /\ pc[u] # "setup" /\ polled'[u] = polled[u] /\ target'[u] = target[u]
      BY <1>1, <2>1, <2>3 DEF TypeOK
    <3>2. "api" \notin held[u] /\ pc[u] \notin (Opening \ {"manager", "setup"}) \cup {"ready"}
      BY <1>1, <1>4, <2>1 DEF OneManager, Listens
    <3> QED BY <1>1, <3>1, <3>2 DEF Listens, Alone
  <2>4. Listens(t)' /\ Alone(t)'
    <3>1. "api" \notin held[t]
      BY <1>1, <1>4, <2>1 DEF OneManager, Listens
    <3>2. pc'[t] = "dial" /\ polled'[t] = manager' /\ target'[t] = manager'
      BY <1>1, <3>1 DEF TypeOK
    <3> QED BY <1>1, <2>2, <3>1, <3>2 DEF Listens, Alone
  <2>5. Made'
    BY <2>2 DEF Made
  <2> QED BY <2>3, <2>4, <2>5 DEF OneManager
<1> QED BY <1>2, <1>3, <1>4
-----------------------------------------------------------------------------
(* The theorems.                                                           *)

\* At first nothing is open, and there is no manager.
LEMMA InitInv == Init => IInv
<1> SUFFICES ASSUME Init PROVE IInv
  OBVIOUS
<1>1. TypeOK
  BY Members DEF Init, TypeOK
<1>2. ASSUME NEW t \in Transports PROVE ReleasedInOrder(t) /\ Remembered(t)
  BY DEF Init, ReleasedInOrder, Remembered
<1>3. OneManager
  BY DEF Init, OneManager, Made, Alone, Listens, Opening
<1> QED BY <1>1, <1>2, <1>3 DEF IInv

\* Every step keeps the invariant.
LEMMA StepInv == IInv /\ [Next]_vars => IInv'
<1> SUFFICES ASSUME IInv, [Next]_vars PROVE IInv'
  OBVIOUS
<1>1. CASE UNCHANGED vars
  <2>1. UNCHANGED <<manager, made, pc, tries, polled, target, held, open, closing, mishaps, raced>>
    BY <1>1 DEF vars, local
  <2>2. TypeOK' /\ \A t \in Transports : ReleasedInOrder(t)' /\ Remembered(t)'
    BY <2>1 DEF IInv, TypeOK, ReleasedInOrder, Remembered
  <2>3. ~raced' => OneManager'
    BY <2>1 DEF IInv, OneManager, Made, Alone, Listens
  <2> QED BY <2>2, <2>3 DEF IInv
<1>2. ASSUME NEW t \in Transports,
             \/ Begin(t) \/ EnsureManager(t) \/ ManagerReady(t) \/ Dialled(t)
             \/ Registered(t) \/ LockSeen(t) \/ LinkUp(t) \/ Tuned(t) \/ Drops(t)
             \/ ConnectFails(t) \/ Close(t) \/ ReleaseStepDone(t) \/ ReleaseStepRaises(t)
             \/ ReleaseDeadline(t) \/ Cancel(t)
      PROVE  IInv'
  BY <1>2, BeginKeeps, EnsureManagerKeeps, ManagerReadyKeeps, DialledKeeps, RegisteredKeeps, LockSeenKeeps, LinkUpKeeps, TunedKeeps, DropsKeeps, FirstReleaseKeeps,
     NextReleaseKeeps, ReleaseDeadlineKeeps, CancelKeeps
<1> QED BY <1>1, <1>2 DEF Next, Ended

\* The invariant holds in every reachable state.
THEOREM Invariant == Spec => []IInv
<1> QED BY InitInv, StepInv, PTL DEF Spec

\* What a transport has open is recorded until an API is half-opened or a release
\* raises, for any number of transports and attempts (esphome_transport.py:110-202).
THEOREM NothingIsForgotten == Spec => []ProxyForgetsNothing
<1>1. IInv => ProxyForgetsNothing
  BY DEF IInv, Remembered, ProxyForgetsNothing
<1> QED BY <1>1, Invariant, PTL

\* One manager per process, and every transport listens where it scans, until two
\* first connects overlap (esphome_transport.py:50-71).
THEOREM OneManagerIsMade == Spec => []ListensWhereItScans
<1>1. ASSUME IInv, ~raced PROVE ListensWhereItScans
  <2>1. made <= 1
    BY <1>1 DEF IInv, OneManager, Made
  <2>2. ASSUME NEW t \in Transports, pc[t] \in {"poll", "link", "passive", "params", "ready"}
        PROVE  polled[t] = target[t] /\ polled[t] = manager
    <3>1. pc[t] \in (Opening \ {"manager", "setup"}) \cup {"ready"}
      BY <2>2 DEF Opening
    <3> QED BY <1>1, <3>1 DEF IInv, OneManager, Listens
  <2> QED BY <1>1, <2>1, <2>2 DEF ListensWhereItScans
<1>2. IInv => ListensWhereItScans
  BY <1>1 DEF ListensWhereItScans
<1> QED BY <1>2, Invariant, PTL
=============================================================================
