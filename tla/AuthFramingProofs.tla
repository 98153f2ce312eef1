-------------------------- MODULE AuthFramingProofs --------------------------
(***************************************************************************)
(* Proofs about the key exchange, for any size of the key: the session     *)
(* takes for the lock's key the whole key or nothing, whatever is lost or  *)
(* repeated, where the lock sends nothing after its key; and where nothing *)
(* is lost or repeated, only silence fails the exchange.                   *)
(***************************************************************************)
EXTENDS AuthFraming, SequenceTheorems, TLAPS

KeyOnly(s) == \A i \in 1 .. Len(s) : s[i].of = "key"
HasKey(s)  == \E i \in 1 .. Len(s) : s[i].of = "key"

\* Once a fragment of the key has come, only such fragments follow.
KeyTail(s) == \A i, j \in 1 .. Len(s) : i < j /\ s[i].of = "key" => s[j].of = "key"

ExchangeTypes ==
  /\ pc \in Phases
  /\ line \in Seq(AllFragments) /\ authq \in Seq(AllFragments) /\ frags \in Seq(AllFragments)

\* While the key is awaited: the lock answers once, into empty queues; a read
\* that has begun holds fragments of the key only, and so do the queues then.
Awaiting == pc \in {"writeKey", "readKey"}
Downlink ==
  /\ pc = "writeKey" => pending = "none" /\ line = <<>> /\ authq = <<>>
  /\ pending # "none" => pending \in {"pub", "torn"} /\ line = <<>> /\ authq = <<>> /\ frags = <<>>
  /\ pc = "writeKey" => frags = <<>>
  /\ \A i \in 1 .. Len(frags) : frags[i].of = "key" /\ ~IsLast(frags[i])
  /\ frags # <<>> => KeyOnly(authq) /\ KeyOnly(line)
  /\ HasKey(authq) => KeyOnly(line)
  /\ KeyTail(authq) /\ KeyTail(line)

IInv ==
  /\ ExchangeTypes
  /\ Awaiting => Downlink
  /\ KeyIntact
-----------------------------------------------------------------------------
(* Fragments.                                                              *)

LEMMA Counts ==
  /\ Count("ack06") = 1 /\ Count("ack07") = 1
  /\ Count("key") \in Nat /\ Count("key") >= 1
BY FramingConstantsOK DEF Count, BodyLen, Header, Chunk

LEMMA FragmentFields ==
  ASSUME NEW f \in AllFragments
  PROVE  /\ f = [of |-> f.of, part |-> f.part]
         /\ f.of \in LockFrames /\ f.part \in Nat /\ f.part < Count(f.of)
         /\ ~IsLast(f) => f.of = "key"
<1>1. f = [of |-> f.of, part |-> f.part] /\ f.of \in LockFrames /\ f.part \in Nat
  BY Counts DEF AllFragments
<1>2. f.part < Count(f.of)
  BY DEF AllFragments
<1>3. ~IsLast(f) => f.of = "key"
  BY <1>1, <1>2, Counts DEF IsLast, LockFrames
<1> QED BY <1>1, <1>2, <1>3

LEMMA FunctionIsSeq ==
  ASSUME NEW S, NEW n \in Nat, NEW s \in [1 .. n -> S]
  PROVE  s \in Seq(S) /\ Len(s) = n
<1>1. s \in Seq(S)
  BY SeqDef
<1>2. Len(s) \in Nat /\ DOMAIN s = 1 .. Len(s) /\ DOMAIN s = 1 .. n
  BY <1>1, LenProperties
<1> QED BY <1>1, <1>2

LEMMA KeyFragments ==
  /\ Fragments("key") \in Seq(AllFragments)
  /\ Len(Fragments("key")) = Count("key")
  /\ \A i \in 1 .. Count("key") : Fragments("key")[i] = [of |-> "key", part |-> i - 1]
  /\ Fragments("ack06") \in Seq(AllFragments) /\ Fragments("ack07") \in Seq(AllFragments)
  /\ Len(Fragments("ack06")) = 1 /\ Fragments("ack06")[1].of = "ack06"
  /\ Len(Fragments("ack07")) = 1 /\ Fragments("ack07")[1].of = "ack07"
<1>1. \A m \in LockFrames : \A i \in 1 .. Count(m) : [of |-> m, part |-> i - 1] \in AllFragments
  BY Counts DEF AllFragments, LockFrames
<1>2. \A m \in LockFrames : Fragments(m) \in [1 .. Count(m) -> AllFragments]
  BY <1>1 DEF Fragments
<1>3. Fragments("key") \in Seq(AllFragments) /\ Len(Fragments("key")) = Count("key")
  <2>1. Fragments("key") \in [1 .. Count("key") -> AllFragments] /\ Count("key") \in Nat
    BY <1>2, Counts DEF LockFrames
  <2> QED BY <2>1, FunctionIsSeq, Counts
<1>4. Fragments("ack06") \in Seq(AllFragments) /\ Len(Fragments("ack06")) = 1
  <2>1. Fragments("ack06") \in [1 .. Count("ack06") -> AllFragments] /\ Count("ack06") \in Nat
    BY <1>2, Counts DEF LockFrames
  <2> QED BY <2>1, FunctionIsSeq, Counts
<1>5. Fragments("ack07") \in Seq(AllFragments) /\ Len(Fragments("ack07")) = 1
  <2>1. Fragments("ack07") \in [1 .. Count("ack07") -> AllFragments] /\ Count("ack07") \in Nat
    BY <1>2, Counts DEF LockFrames
  <2> QED BY <2>1, FunctionIsSeq, Counts
<1> QED BY <1>3, <1>4, <1>5, Counts DEF Fragments

\* Fragments of the key in order, closed by its last one, as long as the key's
\* header declares: they are the key.
LEMMA LengthTells ==
  ASSUME NEW fs \in Seq(AllFragments), fs # <<>>, KeyOnly(fs),
         \A i \in 1 .. Len(fs) - 1 : ~IsLast(fs[i]),
         IsLast(fs[Len(fs)]), InOrder(fs), Parses(fs)
  PROVE  fs = Fragments("key")
<1> DEFINE n == Len(fs)
<1>0. n \in Nat /\ n >= 1 /\ \A i \in 1 .. n : fs[i] \in AllFragments /\ fs[i].of = "key"
  BY DEF KeyOnly
<1>1. fs[n].part = Count("key") - 1 /\ fs[n].of = "key"
  BY <1>0 DEF IsLast
<1>2. BodyLen("key") \in Nat
  BY FramingConstantsOK DEF BodyLen
<1>3. Bytes(fs) = Chunk * (n - 1) + Header + BodyLen("key") - Chunk * (Count("key") - 1)
  BY <1>0, <1>1, <1>2, Counts DEF Bytes, Size, Chunk, Header
<1>4. Bytes(fs) - Header >= BodyLen("key")
  BY <1>0 DEF Parses
<1>5. n >= Count("key")
  <2> HIDE DEF n
  <2> QED BY <1>0, <1>2, <1>3, <1>4, Counts DEF Chunk, Header
<1>6. n <= Count("key")
  <2>1. CASE n = 1
    BY <2>1, Counts
  <2>2. CASE n > 1
    <3>1. n - 1 \in 1 .. n - 1 /\ n - 1 \in 1 .. n
      BY <1>0, <2>2
    <3>2. fs[n - 1].part = n - 2 /\ ~IsLast(fs[n - 1])
      BY <3>1, <1>0 DEF InOrder
    <3>3. fs[n - 1].part < Count("key") /\ fs[n - 1].part # Count("key") - 1
      BY <3>1, <3>2, <1>0, FragmentFields DEF IsLast
    <3> HIDE DEF n
    <3> QED BY <3>2, <3>3, <1>0, Counts
  <2>3. n = 1 \/ n > 1
    <3>1. n \in Nat /\ n >= 1
      BY <1>0
    <3> HIDE DEF n
    <3> QED BY <3>1
  <2> QED BY <2>1, <2>2, <2>3
<1>7. n = Count("key")
  BY <1>0, <1>5, <1>6, Counts
<1>8. \A i \in 1 .. n : fs[i] = [of |-> "key", part |-> i - 1]
  <2> TAKE i \in 1 .. n
  <2>1. fs[i] = [of |-> "key", part |-> fs[i].part]
    BY <1>0, FragmentFields
  <2>2. fs[i].part = i - 1
    BY <1>0, <1>1, <1>7 DEF InOrder
  <2> QED BY <2>1, <2>2
<1> QED BY <1>7, <1>8, KeyFragments
-----------------------------------------------------------------------------
(* The invariant.                                                          *)

LEMMA InitOK == Init => IInv
BY DEF Init, IInv, ExchangeTypes, Awaiting, Downlink, KeyIntact, Phases, KeyOnly, HasKey, KeyTail

\* What the reader has collected with the fragment at hand.
LEMMA GotKey ==
  ASSUME IInv, Awaiting, Complete
  PROVE  /\ Got \in Seq(AllFragments) /\ Got # <<>>
         /\ IsKey(Got[1].of) => KeyOnly(Got)
         /\ \A i \in 1 .. Len(Got) - 1 : ~IsLast(Got[i])
         /\ IsLast(Got[Len(Got)])
<1>1. Head(authq) \in AllFragments /\ Head(authq) = authq[1] /\ 1 \in 1 .. Len(authq)
  BY DEF IInv, ExchangeTypes, Complete
<1>2. /\ Got \in Seq(AllFragments) /\ Len(Got) = Len(frags) + 1
      /\ Got[Len(Got)] = Head(authq)
      /\ \A i \in 1 .. Len(frags) : Got[i] = frags[i]
  BY <1>1 DEF Got, IInv, ExchangeTypes
<1>3. Downlink /\ Len(frags) \in Nat
  BY DEF IInv, ExchangeTypes
<1>4. \A i \in 1 .. Len(Got) - 1 : ~IsLast(Got[i])
  BY <1>2, <1>3 DEF Downlink
<1>5. ASSUME IsKey(Got[1].of) PROVE KeyOnly(Got)
  <2>1. CASE frags = <<>>
    <3>1. Got[1] = Head(authq) /\ Len(Got) = 1
      BY <2>1, <1>2
    <3>2. Head(authq).of = "key"
      BY <3>1, <1>1, <1>5, FragmentFields DEF IsKey, BodyLen, LockFrames
    <3> QED BY <3>1, <3>2 DEF KeyOnly
  <2>2. CASE frags # <<>>
    <3>1. Head(authq).of = "key"
      BY <2>2, <1>1, <1>3 DEF Downlink, KeyOnly
    <3> QED BY <3>1, <1>2, <1>3 DEF KeyOnly, Downlink
  <2> QED BY <2>1, <2>2
<1> QED BY <1>2, <1>3, <1>4, <1>5 DEF Complete

\* The reader's steps.
LEMMA ReaderStep ==
  ASSUME IInv, Collect \/ Rejected \/ TakeKey \/ TakeAck06 \/ TakeAck07
  PROVE  IInv'
<1>0. /\ authq \in Seq(AllFragments) /\ authq # <<>> /\ authq' = Tail(authq)
      /\ UNCHANGED <<line, pending>> /\ pc' \in Phases
  BY DEF IInv, ExchangeTypes, Collect, Rejected, TakeKey, TakeAck06, TakeAck07, EndMessage,
         Complete, Phases
<1>1. /\ Head(authq) \in AllFragments /\ Head(authq) = authq[1] /\ 1 \in 1 .. Len(authq)
      /\ authq' \in Seq(AllFragments) /\ Len(authq') = Len(authq) - 1 /\ Len(authq) \in Nat
      /\ \A i \in 1 .. Len(authq') : i + 1 \in 1 .. Len(authq) /\ authq'[i] = authq[i + 1]
  BY <1>0
<1>2. Downlink => /\ KeyTail(authq') /\ (HasKey(authq') => HasKey(authq))
                  /\ (KeyOnly(authq) => KeyOnly(authq'))
                  /\ (authq[1].of = "key" => KeyOnly(authq'))
  <2>1. HasKey(authq') => HasKey(authq)
    BY <1>1 DEF HasKey
  <2>2. KeyOnly(authq) => KeyOnly(authq')
    BY <1>1 DEF KeyOnly
  <2>3. ASSUME KeyTail(authq) PROVE KeyTail(authq')
    <3> SUFFICES ASSUME NEW i \in 1 .. Len(authq'), NEW j \in 1 .. Len(authq'), i < j,
                        authq'[i].of = "key"
                 PROVE  authq'[j].of = "key"
      BY DEF KeyTail
    <3>1. i + 1 < j + 1 /\ i + 1 \in 1 .. Len(authq) /\ j + 1 \in 1 .. Len(authq)
      BY <1>1
    <3> QED BY <3>1, <1>1, <2>3 DEF KeyTail
  <2>4. ASSUME KeyTail(authq), authq[1].of = "key" PROVE KeyOnly(authq')
    <3> SUFFICES ASSUME NEW i \in 1 .. Len(authq') PROVE authq'[i].of = "key"
      BY DEF KeyOnly
    <3>1. 1 < i + 1 /\ i + 1 \in 1 .. Len(authq)
      BY <1>1
    <3> QED BY <3>1, <1>1, <2>4 DEF KeyTail
  <2> QED BY <2>1, <2>2, <2>3, <2>4 DEF Downlink
<1>3. CASE Collect
  <2>1. frags' = Append(frags, Head(authq)) /\ pc' = pc /\ key' = key /\ ~IsLast(Head(authq))
    BY <1>3 DEF Collect
  <2>2. frags \in Seq(AllFragments) /\ Head(authq).of = "key"
    BY <2>1, <1>1, FragmentFields DEF IInv, ExchangeTypes
  <2>3. /\ frags' \in Seq(AllFragments) /\ Len(frags') = Len(frags) + 1
        /\ \A i \in 1 .. Len(frags') :
             (i \in 1 .. Len(frags) /\ frags'[i] = frags[i]) \/ frags'[i] = Head(authq)
    BY <2>1, <2>2, <1>1
  <2>4. Awaiting' => Downlink'
    <3> SUFFICES ASSUME Awaiting, Downlink PROVE Downlink'
      BY <2>1 DEF Awaiting, IInv
    <3>1. HasKey(authq) /\ KeyOnly(line) /\ KeyOnly(authq')
      BY <1>1, <1>2, <2>2 DEF HasKey, Downlink
    <3>2. pending = "none" /\ pc # "writeKey"
      BY <1>0 DEF Downlink
    <3>3. \A i \in 1 .. Len(frags') : frags'[i].of = "key" /\ ~IsLast(frags'[i])
      BY <2>1, <2>2, <2>3 DEF Downlink
    <3>4. KeyOnly(line') /\ KeyTail(line')
      BY <1>0, <3>1 DEF Downlink
    <3>5. pending' = "none" /\ pc' # "writeKey"
      BY <1>0, <2>1, <3>2
    <3> QED BY <3>1, <3>3, <3>4, <3>5, <1>2 DEF Downlink, IsLast
  <2> QED BY <1>0, <1>1, <2>1, <2>3, <2>4 DEF IInv, ExchangeTypes, KeyIntact
<1>4. CASE Rejected \/ TakeKey \/ TakeAck06 \/ TakeAck07
  <2>1. frags' = <<>> /\ Complete /\ pc \in Reading
    BY <1>4 DEF Rejected, TakeKey, TakeAck06, TakeAck07, EndMessage, Reading
  <2>2. Awaiting' => Awaiting /\ pc' = "readKey"
    BY <1>4, <2>1 DEF Rejected, TakeKey, TakeAck06, TakeAck07, Awaiting, Reading
  <2>3. Awaiting' => Downlink'
    <3> SUFFICES ASSUME Downlink, pc' = "readKey" PROVE Downlink'
      BY <2>2 DEF IInv
    <3>1. pending = "none"
      BY <1>0 DEF Downlink
    <3>2. KeyTail(line') /\ (HasKey(authq') => KeyOnly(line'))
      BY <1>0, <1>2 DEF Downlink
    <3>3. pending' = "none"
      BY <1>0, <3>1
    <3> QED BY <3>2, <3>3, <2>1, <1>2 DEF Downlink
  <2>4. KeyIntact'
    <3>1. CASE TakeKey
      <4>1. Awaiting /\ InOrder(Got) /\ Parses(Got) /\ IsKey(Got[1].of) /\ key' = Got
        BY <3>1 DEF TakeKey, Awaiting
      <4>2. Got = Fragments("key")
        BY <4>1, <2>1, GotKey, LengthTells
      <4> QED BY <4>1, <4>2 DEF KeyIntact
    <3>2. CASE key' = key
      BY <3>2 DEF IInv, KeyIntact
    <3> QED BY <1>4, <3>1, <3>2 DEF Rejected, TakeAck06, TakeAck07
  <2> QED BY <1>0, <1>1, <2>1, <2>3, <2>4 DEF IInv, ExchangeTypes
<1> QED BY <1>3, <1>4

\* The lock's answer, with nothing after the key.
LEMMA AnswerStep ==
  ASSUME IInv, ~LateAcks, LockAnswers
  PROVE  IInv'
<1>1. UNCHANGED <<pc, authq, frags, key>> /\ pending' = "none" /\ pending # "none"
  BY DEF LockAnswers
<1>2. \A n \in 0 .. MaxAcks :
        /\ Acks(n) \in Seq(AllFragments) /\ Len(Acks(n)) = n
        /\ \A i \in 1 .. n : Acks(n)[i].of = "ack06"
  <2> TAKE n \in 0 .. MaxAcks
  <2>1. [of |-> "ack06", part |-> 0] \in AllFragments
    BY Counts DEF AllFragments, LockFrames
  <2> QED BY <2>1, FramingConstantsOK DEF Acks
<1>3. CASE pending = "pub" /\ \E before \in 0 .. MaxAcks :
               line' = line \o Acks(before) \o Fragments("key") \o Acks(0)
  <2>1. PICK b \in 0 .. MaxAcks : line' = line \o Acks(b) \o Fragments("key") \o Acks(0)
    BY <1>3
  <2>2. Acks(0) = <<>> /\ b \in Nat
    BY FramingConstantsOK DEF Acks
  <2>3. line' \in Seq(AllFragments)
    BY <2>1, <1>2, KeyFragments, FramingConstantsOK DEF IInv, ExchangeTypes
  <2>4. ASSUME Awaiting PROVE Downlink'
    <3>1. Downlink /\ line = <<>> /\ authq = <<>> /\ frags = <<>> /\ pc # "writeKey"
      BY <1>1, <2>4 DEF IInv, Downlink
    <3>2. line' = Acks(b) \o Fragments("key")
      BY <2>1, <2>2, <3>1, <1>2, KeyFragments
    <3>3. \A i \in 1 .. Len(line') : IF i <= b THEN line'[i].of = "ack06" ELSE line'[i].of = "key"
      <4>1. /\ Len(line') = b + Count("key")
            /\ \A i \in 1 .. b + Count("key") :
                 line'[i] = IF i <= b THEN Acks(b)[i] ELSE Fragments("key")[i - b]
        <5>1. /\ Acks(b) \in Seq(AllFragments) /\ Len(Acks(b)) = b
              /\ Fragments("key") \in Seq(AllFragments)
              /\ Len(Fragments("key")) = Count("key")
          BY <1>2, KeyFragments
        <5> DEFINE acks == Acks(b)
                   ks   == Fragments("key")
        <5>2. /\ Len(acks \o ks) = Len(acks) + Len(ks)
              /\ \A i \in 1 .. Len(acks) + Len(ks) :
                   (acks \o ks)[i] = IF i <= Len(acks) THEN acks[i] ELSE ks[i - Len(acks)]
          <6>1. acks \in Seq(AllFragments) /\ ks \in Seq(AllFragments)
            BY <5>1
          <6> HIDE DEF acks, ks
          <6> QED BY <6>1, ConcatProperties
        <5>3. line' = acks \o ks /\ Len(acks) = b /\ Len(ks) = Count("key")
          BY <3>2, <5>1
        <5> QED BY <5>2, <5>3
      <4>2. TAKE i \in 1 .. Len(line')
      <4>3. CASE i <= b
        BY <4>1, <4>3, <1>2, <2>2, Counts
      <4>4. CASE ~(i <= b)
        <5>1. i - b \in 1 .. Count("key")
          BY <4>1, <4>4, <2>2, Counts
        <5>2. line'[i] = Fragments("key")[i - b]
          BY <4>1, <4>4
        <5>3. Fragments("key")[i - b].of = "key"
          <6>1. Fragments("key")[i - b] = [of |-> "key", part |-> (i - b) - 1]
            BY <5>1, KeyFragments
          <6> QED BY <6>1
        <5> QED BY <5>2, <5>3, <4>4
      <4> QED BY <4>3, <4>4
    <3>4. KeyTail(line')
      BY <3>3, <2>2 DEF KeyTail
    <3>5. authq' = <<>> /\ frags' = <<>> /\ pc' # "writeKey"
      BY <3>1, <1>1
    <3> QED BY <3>4, <3>5, <1>1 DEF Downlink, KeyTail, HasKey
  <2> QED BY <1>1, <2>3, <2>4 DEF IInv, ExchangeTypes, Awaiting, KeyIntact
<1>4. CASE \E ack \in {"ack06", "ack07"} : line' = line \o Fragments(ack) /\ pending \in {"verify", "torn"}
  <2>1. PICK ack \in {"ack06", "ack07"} : line' = line \o Fragments(ack)
    BY <1>4
  <2>2. line' \in Seq(AllFragments)
    BY <2>1, KeyFragments DEF IInv, ExchangeTypes
  <2>3. ASSUME Awaiting PROVE Downlink'
    <3>1. Downlink /\ line = <<>> /\ authq = <<>> /\ frags = <<>> /\ pc # "writeKey"
      BY <1>1, <2>3 DEF IInv, Downlink
    <3>2. line' = Fragments(ack)
      BY <2>1, <3>1, KeyFragments
    <3>3. KeyTail(line')
      BY <3>2, KeyFragments DEF KeyTail
    <3>4. authq' = <<>> /\ frags' = <<>> /\ pc' # "writeKey"
      BY <3>1, <1>1
    <3> QED BY <3>3, <3>4, <1>1 DEF Downlink, KeyTail, HasKey
  <2> QED BY <1>1, <2>2, <2>3 DEF IInv, ExchangeTypes, Awaiting, KeyIntact
<1>5. 0 .. (IF LateAcks THEN 1 ELSE 0) = {0}
  OBVIOUS
<1> QED BY <1>3, <1>4, <1>5 DEF LockAnswers

\* A notification arrives, once or twice, or is lost.
LEMMA LinkStep ==
  ASSUME IInv, Notify \/ LoseNotification \/ RepeatNotification
  PROVE  IInv'
<1>1. /\ line \in Seq(AllFragments) /\ line # <<>> /\ authq \in Seq(AllFragments)
      /\ UNCHANGED <<pc, pending, frags, key>>
      /\ line' \in {line, Tail(line)} /\ authq' \in {authq, Append(authq, Head(line))}
  BY DEF IInv, ExchangeTypes, Notify, LoseNotification, RepeatNotification
<1>2. Head(line) \in AllFragments /\ Head(line) = line[1] /\ 1 \in 1 .. Len(line)
  BY <1>1
<1>3. /\ line' \in Seq(AllFragments)
      /\ \A i \in 1 .. Len(line') :
           \E k \in 1 .. Len(line) : line'[i] = line[k]
      /\ KeyTail(line) => KeyTail(line')
  <2>1. CASE line' = line
    BY <1>1, <2>1 DEF KeyTail
  <2>2. CASE line' = Tail(line)
    <3>1. /\ line' \in Seq(AllFragments) /\ Len(line') = Len(line) - 1 /\ Len(line) \in Nat
          /\ \A i \in 1 .. Len(line') : i + 1 \in 1 .. Len(line) /\ line'[i] = line[i + 1]
      BY <1>1, <2>2
    <3>2. ASSUME KeyTail(line), NEW i \in 1 .. Len(line'), NEW j \in 1 .. Len(line'),
                 i < j, line'[i].of = "key"
          PROVE  line'[j].of = "key"
      <4>1. i + 1 < j + 1 /\ i + 1 \in 1 .. Len(line) /\ j + 1 \in 1 .. Len(line)
        BY <3>1, <3>2
      <4>2. line[i + 1].of = "key"
        BY <3>1, <3>2
      <4>3. line[j + 1].of = "key"
        BY <4>1, <4>2, <3>2 DEF KeyTail
      <4> QED BY <4>3, <3>1
    <3>3. KeyTail(line) => KeyTail(line')
      BY <3>2 DEF KeyTail
    <3>4. \A i \in 1 .. Len(line') : \E n \in 1 .. Len(line) : line'[i] = line[n]
      BY <3>1
    <3> QED BY <3>1, <3>3, <3>4
  <2> QED BY <1>1, <2>1, <2>2
<1>4. /\ authq' \in Seq(AllFragments) /\ Len(authq) \in Nat
      /\ \/ authq' = authq
         \/ /\ Len(authq') = Len(authq) + 1 /\ authq'[Len(authq')] = line[1]
            /\ \A i \in 1 .. Len(authq) : authq'[i] = authq[i]
  <2>1. CASE authq' = authq
    BY <1>1, <2>1
  <2>2. CASE authq' = Append(authq, Head(line))
    BY <1>1, <1>2, <2>2
  <2> QED BY <1>1, <2>1, <2>2
<1>5. ASSUME Awaiting PROVE Downlink'
  <2>1. Downlink /\ pending = "none" /\ pc # "writeKey"
    BY <1>1, <1>5 DEF IInv, Downlink
  <2>2. KeyOnly(line) => KeyOnly(line')
    BY <1>3 DEF KeyOnly
  <2>3. KeyOnly(authq) /\ KeyOnly(line) => KeyOnly(authq')
    BY <1>2, <1>4 DEF KeyOnly
  <2>4. KeyTail(authq')
    <3>1. HasKey(authq) => line[1].of = "key"
      BY <2>1, <1>2 DEF Downlink, KeyOnly
    <3> QED BY <3>1, <2>1, <1>4 DEF KeyTail, HasKey, Downlink
  <2>5. HasKey(authq') => KeyOnly(line')
    <3>1. HasKey(authq') => HasKey(authq) \/ line[1].of = "key"
      BY <1>4 DEF HasKey
    <3>2. line[1].of = "key" => KeyOnly(line)
      BY <2>1, <1>1, <1>2 DEF Downlink, KeyTail, KeyOnly
    <3> QED BY <3>1, <3>2, <2>1, <2>2 DEF Downlink
  <2>6. pending' = "none" /\ pc' # "writeKey" /\ frags' = frags
    BY <2>1, <1>1
  <2> QED BY <2>1, <2>2, <2>3, <2>4, <2>5, <2>6, <1>3 DEF Downlink, IsLast
<1> QED BY <1>1, <1>3, <1>4, <1>5 DEF IInv, ExchangeTypes, Awaiting, KeyIntact

LEMMA Step ==
  ASSUME IInv, ~LateAcks, [Next]_vars
  PROVE  IInv'
<1>1. CASE WriteFragment
  <2>1. UNCHANGED <<line, authq, frags, key>> /\ pc \in Writing /\ pc' \in Phases
    BY <1>1 DEF WriteFragment, IInv, ExchangeTypes, Phases, Writing
  <2>2. Awaiting' => pc = "writeKey"
    BY <1>1, <2>1 DEF WriteFragment, Awaiting, Writing
  <2>3. pc = "writeKey" => pending' \in {"none", "pub", "torn"} /\ (pc' = "writeKey" => pending' = "none")
    BY <1>1 DEF WriteFragment, IInv, Awaiting, Downlink, Frame
  <2>4. Awaiting' => Downlink'
    BY <2>1, <2>2, <2>3 DEF Awaiting, IInv, Downlink, KeyOnly, HasKey, KeyTail
  <2> QED BY <2>1, <2>4 DEF IInv, ExchangeTypes, KeyIntact
<1>2. CASE Collect \/ Rejected \/ TakeKey \/ TakeAck06 \/ TakeAck07
  BY <1>2, ReaderStep
<1>3. CASE CloudVerifies \/ ReadTimeout \/ BreakOff
  BY <1>3 DEF CloudVerifies, ReadTimeout, BreakOff, IInv, ExchangeTypes, Awaiting, KeyIntact,
              Phases
<1>4. CASE LockAnswers
  BY <1>4, AnswerStep
<1>5. CASE Notify \/ LoseNotification \/ RepeatNotification
  BY <1>5, LinkStep
<1>6. CASE SkipEmpty \/ Stray \/ UNCHANGED vars
  <2>1. UNCHANGED <<pc, pending, line, authq, frags, key>>
    BY <1>6 DEF SkipEmpty, Stray, vars
  <2> QED BY <2>1 DEF IInv, ExchangeTypes, Awaiting, Downlink, KeyIntact, KeyOnly, HasKey,
                      KeyTail, IsLast
<1> QED BY <1>1, <1>2, <1>3, <1>4, <1>5, <1>6 DEF Next, Session, Lock, Faults, Ended

\* The key taken is the lock's key, whole and in order, however many fragments
\* are lost or repeated, where the lock sends nothing after its key.
THEOREM WholeKey == ASSUME ~LateAcks PROVE Spec => []KeyIntact
<1>1. Init => IInv
  BY InitOK
<1>2. IInv /\ [Next]_vars => IInv'
  BY Step
<1>3. IInv => KeyIntact
  BY DEF IInv
<1> QED BY <1>1, <1>2, <1>3, PTL DEF Spec
-----------------------------------------------------------------------------
(* The types, also where the lock sends acknowledgements after its key.    *)

\* A frame under way is not yet written whole, and the reads for the key are
\* not used up.
Ranges ==
  /\ pc = "writeKey" => sent < Count("pub")
  /\ pc = "writeVerify" => sent < Count("verify")
  /\ pc \notin Writing => sent = 0
  /\ pc \in {"writeKey", "readKey"} => reads < MaxReads
  /\ stray = "byte" => faults > 0

\* Every frame of the session has a fragment.
LEMMA AppCounts ==
  /\ Count("pub") \in Nat /\ Count("pub") >= 1
  /\ Count("verify") \in Nat /\ Count("verify") >= 1
  /\ MaxReads \in Nat /\ MaxReads >= 1 /\ MaxFaults \in Nat
BY FramingConstantsOK DEF Count, BodyLen, Header, Chunk

\* What the lock sends is made of its fragments.
LEMMA AcksType ==
  ASSUME NEW n \in Nat
  PROVE  Acks(n) \in Seq(AllFragments) /\ Len(Acks(n)) = n
<1>1. [of |-> "ack06", part |-> 0] \in AllFragments
  BY Counts DEF AllFragments, LockFrames
<1>2. Acks(n) \in [1 .. n -> AllFragments]
  BY <1>1 DEF Acks
<1> QED BY <1>2, FunctionIsSeq

\* Taking a fragment from the front of a queue, and putting one at its end.
LEMMA QueueTypes ==
  ASSUME NEW s \in Seq(AllFragments)
  PROVE  /\ s # <<>> => Head(s) \in AllFragments /\ Tail(s) \in Seq(AllFragments)
         /\ \A f \in AllFragments : Append(s, f) \in Seq(AllFragments)
BY HeadTailProperties, AppendProperties

LEMMA TypeInit == Init => TypeOK /\ Ranges
<1> SUFFICES ASSUME Init PROVE TypeOK /\ Ranges
  OBVIOUS
<1>1. /\ pc = "writeKey" /\ sent = 0 /\ torn = FALSE /\ pending = "none"
      /\ line = <<>> /\ authq = <<>> /\ frags = <<>> /\ stray = "none"
      /\ reads = 0 /\ key = <<>> /\ faults = 0
  BY DEF Init
<1>2. 0 \in 0 .. Count("pub") + Count("verify") /\ 0 \in 0 .. MaxReads /\ 0 \in 0 .. MaxFaults
  BY AppCounts
<1>3. <<>> \in Seq(AllFragments)
  BY EmptySeq
<1>4. TypeOK
  BY <1>1, <1>2, <1>3 DEF TypeOK, Phases, AppFrames
<1> QED BY <1>1, <1>4, AppCounts DEF Ranges, Writing

LEMMA TypeStep ==
  ASSUME TypeOK, Ranges, [Next]_vars
  PROVE  TypeOK' /\ Ranges'
<1> USE DEF TypeOK, Ranges, Writing, Phases
<1>1. CASE WriteFragment
  <2>0. UNCHANGED <<line, authq, stray, frags, reads, key>> /\ pc \in {"writeKey", "writeVerify"}
    BY <1>1 DEF WriteFragment
  <2>1. faults' \in 0 .. MaxFaults /\ torn' \in BOOLEAN /\ faults' >= faults
    <3>1. CASE torn' = (torn /\ ~(sent + 1 = Count(Frame))) /\ faults' = faults
      <4>1. torn' \in BOOLEAN
        BY <3>1, Zenon
      <4> QED BY <3>1, <4>1
    <3>2. CASE faults < MaxFaults /\ faults' = faults + 1 /\ torn' = TRUE
      BY <3>2, AppCounts
    <3>3. \/ torn' = (torn /\ ~(sent + 1 = Count(Frame))) /\ faults' = faults
          \/ faults < MaxFaults /\ faults' = faults + 1 /\ torn' = TRUE
      BY <1>1 DEF WriteFragment
    <3> QED BY <3>1, <3>2, <3>3
  <2>2. pending' \in AppFrames \cup {"torn", "none"}
    BY <1>1 DEF WriteFragment, Frame, AppFrames
  <2>3. CASE sent + 1 = Count(Frame)
    <3>1. sent' = 0 /\ pc' = IF pc = "writeKey" THEN "readKey" ELSE "readAck"
      BY <1>1, <2>3 DEF WriteFragment
    <3>2. sent' \in 0 .. Count("pub") + Count("verify")
      BY <3>1, AppCounts
    <3> QED BY <2>0, <2>1, <2>2, <3>1, <3>2
  <2>4. CASE sent + 1 # Count(Frame)
    <3>1. sent' = sent + 1 /\ pc' = pc
      BY <1>1, <2>4 DEF WriteFragment
    <3>2. sent + 1 < Count(Frame) /\ Frame = IF pc = "writeKey" THEN "pub" ELSE "verify"
      BY <2>0, <2>4, AppCounts DEF Frame
    <3>3. sent' \in 0 .. Count("pub") + Count("verify")
      BY <2>0, <3>1, <3>2, AppCounts
    <3>4. /\ pc' = "writeKey" => sent' < Count("pub")
          /\ pc' = "writeVerify" => sent' < Count("verify")
      BY <3>1, <3>2
    <3> QED BY <2>0, <2>1, <2>2, <3>1, <3>3, <3>4
  <2> QED BY <2>3, <2>4
<1>2. CASE Collect
  BY <1>2, QueueTypes DEF Collect
<1>3. CASE Rejected \/ TakeKey \/ TakeAck06 \/ TakeAck07
  <2>1. /\ authq # <<>> /\ authq' = Tail(authq) /\ frags' = <<>>
        /\ UNCHANGED <<sent, torn, pending, line, stray, faults>> /\ pc \in Reading
    BY <1>3 DEF Rejected, TakeKey, TakeAck06, TakeAck07, EndMessage, Complete, Reading
  <2>2. Got \in Seq(AllFragments)
    BY <2>1, QueueTypes DEF Got
  <2>3. authq' \in Seq(AllFragments) /\ frags' \in Seq(AllFragments)
    BY <2>1, QueueTypes, EmptySeq
  <2>4. key' \in Seq(AllFragments)
    BY <1>3, <2>2 DEF Rejected, TakeKey, TakeAck06, TakeAck07
  <2>5. pc' \in {"failed", "cloud", "readKey", "done"} /\ (pc' = "readKey" => pc = "readKey")
    BY <1>3 DEF Rejected, TakeKey, TakeAck06, TakeAck07
  <2>6. reads' \in 0 .. MaxReads /\ (pc' = "readKey" => reads' < MaxReads)
    <3>1. reads \in 0 .. MaxReads /\ MaxReads \in Nat
      BY FramingConstantsOK
    <3>2. CASE Rejected \/ TakeAck07
      BY <3>1, <3>2 DEF Rejected, TakeAck07
    <3>3. CASE TakeKey
      BY <3>1, <3>3 DEF TakeKey
    <3>4. CASE TakeAck06
      BY <3>1, <3>4 DEF TakeAck06, LastRead
    <3> QED BY <1>3, <3>2, <3>3, <3>4
  <2> QED BY <2>1, <2>3, <2>4, <2>5, <2>6 DEF Reading
<1>4. CASE CloudVerifies \/ ReadTimeout \/ SkipEmpty \/ BreakOff
  BY <1>4, AppCounts DEF CloudVerifies, ReadTimeout, SkipEmpty, BreakOff, Reading
<1>5. CASE LockAnswers
  <2>1. line' \in Seq(AllFragments)
    <3>1. CASE pending = "pub" /\ \E before \in 0 .. MaxAcks,
                 after \in 0 .. (IF LateAcks THEN 1 ELSE 0) :
                   line' = line \o Acks(before) \o Fragments("key") \o Acks(after)
      <4>1. PICK b \in 0 .. MaxAcks, a \in 0 .. (IF LateAcks THEN 1 ELSE 0) :
                   line' = line \o Acks(b) \o Fragments("key") \o Acks(a)
        BY <3>1
      <4>2. a \in Nat /\ b \in Nat
        OBVIOUS
      <4>3. Acks(a) \in Seq(AllFragments) /\ Acks(b) \in Seq(AllFragments)
        BY <4>2, AcksType
      <4> QED BY <4>1, <4>3, KeyFragments, ConcatProperties
    <3>2. CASE \E m \in {"ack06", "ack07"} : line' = line \o Fragments(m)
      BY <3>2, KeyFragments, ConcatProperties
    <3> QED BY <1>5, <3>1, <3>2 DEF LockAnswers
  <2> QED BY <1>5, <2>1 DEF LockAnswers
<1>6. CASE Notify \/ LoseNotification \/ RepeatNotification
  <2>1. line' \in Seq(AllFragments) /\ authq' \in Seq(AllFragments)
    BY <1>6, QueueTypes DEF Notify, LoseNotification, RepeatNotification
  <2>2. faults' \in 0 .. MaxFaults /\ faults' >= faults
    <3>1. faults' = faults \/ (faults < MaxFaults /\ faults' = faults + 1)
      BY <1>6 DEF Notify, LoseNotification, RepeatNotification
    <3>2. faults \in Nat /\ MaxFaults \in Nat /\ faults <= MaxFaults
      BY FramingConstantsOK
    <3> QED BY <3>1, <3>2
  <2> QED BY <1>6, <2>1, <2>2 DEF Notify, LoseNotification, RepeatNotification
<1>7. CASE UNCHANGED vars
  BY <1>7 DEF vars
<1>8. CASE Stray
  BY <1>8, AppCounts DEF Stray
<1> QED BY <1>1, <1>2, <1>3, <1>4, <1>5, <1>6, <1>7, <1>8 DEF Next, Session, Lock, Faults, Ended

\* The counters stay within the frame written and the six reads, the queues
\* hold fragments of the lock (session.py:468-484, 733-774).
THEOREM FramingTypes == Spec => []TypeOK
<1>1. TypeOK /\ Ranges /\ [Next]_vars => TypeOK' /\ Ranges'
  BY TypeStep
<1> QED BY <1>1, TypeInit, PTL DEF Spec
-----------------------------------------------------------------------------
(* Without a fault only silence fails the exchange.                        *)

\* What the lock has sent and the session has not used, in order.
Stream == frags \o authq \o line

\* m empty acknowledgements and the key.
Expected(s, m) ==
  /\ Len(s) = m + Count("key")
  /\ \A i \in 1 .. Len(s) :
       s[i] = IF i <= m THEN [of |-> "ack06", part |-> 0] ELSE [of |-> "key", part |-> i - m - 1]

\* The link has lost and repeated nothing, and the acknowledgements leave a read
\* for the key.
Faultless == faults = 0 /\ MaxAcks < MaxReads /\ ~LateAcks

Drained == pending = "none" /\ Stream = <<>>

InStep ==
  /\ torn = FALSE
  /\ \A i \in 1 .. Len(frags) : ~IsLast(frags[i])
  /\ pc \in {"writeKey", "cloud", "writeVerify"} => Drained
  /\ pc = "writeKey" => reads = 0
  /\ pc = "readKey" =>
       \/ pending = "pub" /\ Stream = <<>> /\ reads = 0
       \/ pending = "none" /\ \E m \in 0 .. MaxAcks : reads + m <= MaxAcks /\ Expected(Stream, m)
  /\ pc = "readAck" =>
       \/ pending = "verify" /\ Stream = <<>>
       \/ pending = "none" /\ Stream = Fragments("ack07")

\* A fragment that passes from one queue to the next keeps its place.
LEMMA Passes ==
  ASSUME NEW S, NEW s \in Seq(S), NEW t \in Seq(S), t # <<>>
  PROVE  Append(s, Head(t)) \o Tail(t) = s \o t
<1> DEFINE a == Append(s, Head(t))
           b == Tail(t)
<1>1. /\ Len(s) \in Nat /\ Len(t) \in Nat \ {0} /\ Head(t) = t[1] /\ Head(t) \in S
      /\ b \in Seq(S) /\ Len(b) = Len(t) - 1 /\ \A i \in 1 .. Len(b) : b[i] = t[i + 1]
  <2>1. /\ Head(t) \in S /\ b \in Seq(S) /\ Len(b) = Len(t) - 1
        /\ \A i \in 1 .. Len(b) : b[i] = t[i + 1]
    BY HeadTailProperties
  <2>2. Len(s) \in Nat /\ Len(t) \in Nat \ {0}
    BY LenProperties, EmptySeq
  <2>3. Head(t) = t[1]
    BY <2>2
  <2> QED BY <2>1, <2>2, <2>3
<1>2. /\ a \in Seq(S) /\ Len(a) = Len(s) + 1 /\ a[Len(s) + 1] = t[1]
      /\ \A i \in 1 .. Len(s) : a[i] = s[i]
  BY <1>1, AppendProperties
<1> HIDE DEF a, b
<1>3. /\ a \o b \in Seq(S) /\ Len(a \o b) = Len(a) + Len(b)
      /\ \A i \in 1 .. Len(a) + Len(b) : (a \o b)[i] = IF i <= Len(a) THEN a[i] ELSE b[i - Len(a)]
  BY <1>1, <1>2, ConcatProperties
<1>4. /\ s \o t \in Seq(S) /\ Len(s \o t) = Len(s) + Len(t)
      /\ \A i \in 1 .. Len(s) + Len(t) : (s \o t)[i] = IF i <= Len(s) THEN s[i] ELSE t[i - Len(s)]
  BY ConcatProperties
<1>5. Len(a) + Len(b) = Len(s) + Len(t)
  BY <1>1, <1>2
<1>6. ASSUME NEW i \in 1 .. Len(s) + Len(t) PROVE (a \o b)[i] = (s \o t)[i]
  <2>1. CASE i <= Len(s)
    <3>1. i \in 1 .. Len(s) /\ i <= Len(a)
      BY <1>1, <1>2, <2>1
    <3>2. (a \o b)[i] = a[i] /\ (s \o t)[i] = s[i]
      BY <1>3, <1>4, <1>5, <2>1, <3>1
    <3> QED BY <1>2, <3>1, <3>2
  <2>2. CASE i = Len(s) + 1
    <3>1. i <= Len(a) /\ ~(i <= Len(s)) /\ i - Len(s) = 1
      BY <1>1, <1>2, <2>2
    <3>2. (a \o b)[i] = a[i] /\ (s \o t)[i] = t[1]
      BY <1>3, <1>4, <1>5, <3>1
    <3> QED BY <1>2, <2>2, <3>2
  <2>3. CASE i > Len(s) + 1
    <3>1. ~(i <= Len(a)) /\ ~(i <= Len(s)) /\ i - Len(a) \in 1 .. Len(b)
          /\ (i - Len(a)) + 1 = i - Len(s)
      BY <1>1, <1>2, <2>3
    <3>2. (a \o b)[i] = b[i - Len(a)] /\ (s \o t)[i] = t[i - Len(s)]
      BY <1>3, <1>4, <1>5, <3>1
    <3>3. b[i - Len(a)] = t[(i - Len(a)) + 1]
      BY <1>1, <3>1
    <3> QED BY <3>1, <3>2, <3>3
  <2>4. i <= Len(s) \/ i = Len(s) + 1 \/ i > Len(s) + 1
    BY <1>1
  <2> QED BY <2>1, <2>2, <2>3, <2>4, Zenon
<1>7. a \o b = s \o t
  BY <1>3, <1>4, <1>5, <1>6, SeqEqual
<1> QED BY <1>7 DEF a, b

\* What a read has, and what is left for the next.
LEMMA Splits ==
  ASSUME TypeOK, authq # <<>>
  PROVE  /\ Got \in Seq(AllFragments) /\ Got # <<>> /\ Tail(authq) \o line \in Seq(AllFragments)
         /\ Got[Len(Got)] = Head(authq) /\ Len(Got) = Len(frags) + 1
         /\ \A i \in 1 .. Len(frags) : Got[i] = frags[i]
         /\ Stream = Got \o (Tail(authq) \o line)
<1>1. /\ frags \in Seq(AllFragments) /\ authq \in Seq(AllFragments) /\ line \in Seq(AllFragments)
      /\ Head(authq) \in AllFragments /\ Tail(authq) \in Seq(AllFragments)
  BY QueueTypes DEF TypeOK
<1>2. /\ Got \in Seq(AllFragments) /\ Len(Got) = Len(frags) + 1 /\ Got[Len(frags) + 1] = Head(authq)
      /\ \A i \in 1 .. Len(frags) : Got[i] = frags[i]
  BY <1>1, AppendProperties DEF Got
<1>3. Got # <<>>
  BY <1>1, <1>2, LenProperties, EmptySeq
<1>4. Tail(authq) \o line \in Seq(AllFragments)
  BY <1>1, ConcatProperties
<1>5. Got \o Tail(authq) = frags \o authq
  BY <1>1, Passes DEF Got
<1>6. Got \o (Tail(authq) \o line) = (Got \o Tail(authq)) \o line
  <2>1. Got \in Seq(AllFragments) /\ Tail(authq) \in Seq(AllFragments) /\ line \in Seq(AllFragments)
    BY <1>1, <1>2
  <2>2. (Got \o Tail(authq)) \o line = Got \o (Tail(authq) \o line)
    BY <2>1, ConcatAssociative
  <2> QED BY <2>2, Zenon
<1> QED BY <1>2, <1>3, <1>4, <1>5, <1>6 DEF Stream

\* The stream, place by place: what is read and what is left.
LEMMA Places ==
  ASSUME TypeOK, authq # <<>>, NEW rest, rest = Tail(authq) \o line
  PROVE  /\ Len(Got) \in Nat \ {0} /\ Len(rest) \in Nat /\ Len(Stream) = Len(Got) + Len(rest)
         /\ \A i \in 1 .. Len(Got) : Stream[i] = Got[i]
         /\ \A i \in 1 .. Len(rest) : rest[i] = Stream[Len(Got) + i]
         /\ Len(rest) = 0 => rest = <<>>
<1>1. Got \in Seq(AllFragments) /\ Got # <<>> /\ rest \in Seq(AllFragments) /\ Stream = Got \o rest
  BY Splits
<1>2. Len(Got) \in Nat \ {0} /\ Len(rest) \in Nat /\ (Len(rest) = 0 => rest = <<>>)
  BY <1>1, LenProperties, EmptySeq
<1>3. /\ Len(Stream) = Len(Got) + Len(rest)
      /\ \A i \in 1 .. Len(Got) + Len(rest) :
            Stream[i] = IF i <= Len(Got) THEN Got[i] ELSE rest[i - Len(Got)]
  BY <1>1, ConcatProperties
<1>4. \A i \in 1 .. Len(Got) : Stream[i] = Got[i]
  BY <1>2, <1>3
<1>5. ASSUME NEW i \in 1 .. Len(rest) PROVE rest[i] = Stream[Len(Got) + i]
  <2>1. /\ Len(Got) + i \in 1 .. Len(Got) + Len(rest) /\ ~(Len(Got) + i <= Len(Got))
        /\ (Len(Got) + i) - Len(Got) = i
    BY <1>2
  <2> QED BY <1>3, <2>1
<1> QED BY <1>2, <1>3, <1>4, <1>5

\* An acknowledgement that comes first is a message of its own.
LEMMA AckFirst ==
  ASSUME TypeOK, authq # <<>>, NEW rest, rest = Tail(authq) \o line,
         \A i \in 1 .. Len(frags) : ~IsLast(frags[i]), IsLast(Stream[1])
  PROVE  Len(Got) = 1 /\ Got[1] = Stream[1] /\ \A i \in 1 .. Len(rest) : rest[i] = Stream[i + 1]
<1>1. /\ Len(Got) \in Nat \ {0} /\ Len(rest) \in Nat
      /\ \A i \in 1 .. Len(Got) : Stream[i] = Got[i]
      /\ \A i \in 1 .. Len(rest) : rest[i] = Stream[Len(Got) + i]
  BY Places
<1>2. Len(Got) = Len(frags) + 1 /\ Len(frags) \in Nat
      /\ \A i \in 1 .. Len(frags) : Got[i] = frags[i]
  BY Splits, LenProperties DEF TypeOK
<1>3. Len(frags) = 0
  <2> SUFFICES ASSUME Len(frags) # 0 PROVE FALSE
    OBVIOUS
  <2>1. 1 \in 1 .. Len(frags) /\ 1 \in 1 .. Len(Got)
    BY <1>2
  <2>2. Stream[1] = frags[1]
    BY <1>1, <1>2, <2>1
  <2> QED BY <2>1, <2>2
<1>4. Len(Got) = 1 /\ 1 \in 1 .. Len(Got)
  BY <1>2, <1>3
<1>5. Got[1] = Stream[1]
  BY <1>1, <1>4
<1>6. ASSUME NEW i \in 1 .. Len(rest) PROVE rest[i] = Stream[i + 1]
  <2>1. Len(Got) + i = i + 1
    BY <1>1, <1>4
  <2> QED BY <1>1, <2>1
<1> QED BY <1>4, <1>5, <1>6

\* While acknowledgements and the key are expected: what a read completes.
LEMMA ReadsExpected ==
  ASSUME TypeOK, Complete, NEW rest, rest = Tail(authq) \o line, NEW m \in Nat,
         \A i \in 1 .. Len(frags) : ~IsLast(frags[i]), Expected(Stream, m)
  PROVE  /\ m > 0 => /\ Len(Got) = 1 /\ Got[1] = [of |-> "ack06", part |-> 0]
                     /\ Expected(rest, m - 1)
         /\ m = 0 => Got = Fragments("key") /\ rest = <<>>
<1>1. authq # <<>> /\ IsLast(Head(authq)) /\ Count("key") \in Nat /\ Count("key") >= 1
  BY Counts DEF Complete
<1>2. /\ Len(Got) \in Nat \ {0} /\ Len(rest) \in Nat /\ Len(Stream) = Len(Got) + Len(rest)
      /\ \A i \in 1 .. Len(Got) : Stream[i] = Got[i]
      /\ Len(rest) = 0 => rest = <<>>
  BY <1>1, Places
<1>3. /\ Len(Stream) = m + Count("key")
      /\ \A i \in 1 .. Len(Stream) :
           Stream[i] = IF i <= m THEN [of |-> "ack06", part |-> 0]
                                 ELSE [of |-> "key", part |-> i - m - 1]
  BY DEF Expected
<1>4. CASE m > 0
  <2>1. Stream[1] = [of |-> "ack06", part |-> 0]
    BY <1>1, <1>3, <1>4
  <2>2. IsLast(Stream[1])
    BY <2>1, Counts DEF IsLast
  <2>3. Len(Got) = 1 /\ Got[1] = Stream[1] /\ \A i \in 1 .. Len(rest) : rest[i] = Stream[i + 1]
    BY <1>1, <2>2, AckFirst
  <2>4. Len(rest) = (m - 1) + Count("key")
    <3>1. 1 + Len(rest) = m + Count("key")
      BY <1>2, <1>3, <2>3
    <3>2. Len(rest) \in Nat /\ Count("key") \in Nat
      BY <1>1, <1>2
    <3> QED BY <3>1, <3>2
  <2>5. ASSUME NEW i \in 1 .. Len(rest)
        PROVE  rest[i] = IF i <= m - 1 THEN [of |-> "ack06", part |-> 0]
                                       ELSE [of |-> "key", part |-> i - (m - 1) - 1]
    <3>1. i + 1 \in 1 .. Len(Stream) /\ (i <= m - 1 <=> i + 1 <= m)
          /\ (i + 1) - m - 1 = i - (m - 1) - 1
      BY <1>2, <1>4, <2>3
    <3>2. rest[i] = Stream[i + 1]
      BY <2>3
    <3> QED BY <1>3, <3>1, <3>2
  <2>6. Expected(rest, m - 1)
    BY <2>4, <2>5 DEF Expected
  <2> QED BY <1>4, <2>1, <2>3, <2>6
<1>5. CASE m = 0
  <2> DEFINE n == Len(Got)
  <2>1. \A i \in 1 .. n : Got[i] = [of |-> "key", part |-> i - 1]
    <3>1. ASSUME NEW i \in 1 .. n PROVE Got[i] = [of |-> "key", part |-> i - 1]
      <4>1. i \in 1 .. Len(Stream) /\ ~(i <= m) /\ i - m - 1 = i - 1
        BY <1>2, <1>5
      <4> QED BY <1>2, <1>3, <4>1
    <3> QED BY <3>1
  <2>2. Got \in Seq(AllFragments) /\ Got[n] = Head(authq)
    BY <1>1, Splits
  <2> HIDE DEF n
  <2>3. n \in 1 .. n
    BY <1>2 DEF n
  <2>4. n = Count("key")
    <3>1. Head(authq) = [of |-> "key", part |-> n - 1]
      BY <2>1, <2>2, <2>3
    <3>2. n - 1 = Count("key") - 1
      BY <1>1, <3>1 DEF IsLast
    <3> QED BY <1>1, <2>3, <3>2
  <2>5. Got = Fragments("key")
    <3>1. Len(Got) = Len(Fragments("key")) /\ \A i \in 1 .. Len(Got) : Got[i] = Fragments("key")[i]
      BY <2>1, <2>4, KeyFragments DEF n
    <3> QED BY <2>2, <3>1, KeyFragments, SeqEqual
  <2>6. Len(rest) = 0
    BY <1>1, <1>2, <1>3, <1>5, <2>4 DEF n
  <2> QED BY <1>2, <1>5, <2>5, <2>6
<1> QED BY <1>4, <1>5

\* The checks pass what the lock sends.
LEMMA Passing ==
  /\ InOrder(Fragments("key")) /\ Parses(Fragments("key")) /\ IsKey(Fragments("key")[1].of)
  /\ \A s : Len(s) = 1 /\ s[1] \in {[of |-> "ack06", part |-> 0], [of |-> "ack07", part |-> 0]}
       => InOrder(s) /\ Parses(s) /\ ~IsKey(s[1].of)
<1>1. BodyLen("key") = KeyLen /\ BodyLen("ack06") = 0 /\ BodyLen("ack07") = 0
      /\ KeyLen \in Nat /\ KeyLen >= 33
  BY FramingConstantsOK DEF BodyLen
<1>2. /\ InOrder(Fragments("key")) /\ Parses(Fragments("key")) /\ IsKey(Fragments("key")[1].of)
  <2> DEFINE F == Fragments("key")
             c == Count("key")
  <2>1. /\ Len(F) = c /\ c \in Nat /\ c >= 1
        /\ \A i \in 1 .. c : F[i] = [of |-> "key", part |-> i - 1]
    BY KeyFragments, Counts
  <2>2. /\ F[1] = [of |-> "key", part |-> 0] /\ F[c] = [of |-> "key", part |-> c - 1]
    BY <2>1
  <2>3. IsLast(F[c])
    BY <2>2 DEF IsLast
  <2> HIDE DEF F
  <2>4. InOrder(F)
    BY <2>1 DEF InOrder
  <2>5. Size(F[c]) = Header + KeyLen - Chunk * (c - 1)
    BY <1>1, <2>2, <2>3 DEF Size
  <2> HIDE DEF c
  <2>6. Bytes(F) = Header + KeyLen
    BY <1>1, <2>1, <2>5 DEF Bytes, Header, Chunk
  <2>7. Parses(F)
    BY <1>1, <2>2, <2>6 DEF Parses, Header
  <2>8. IsKey(F[1].of)
    BY <1>1, <2>2 DEF IsKey, FrameType
  <2> QED BY <2>4, <2>7, <2>8 DEF F
<1>3. ASSUME NEW s, Len(s) = 1,
             s[1] \in {[of |-> "ack06", part |-> 0], [of |-> "ack07", part |-> 0]}
      PROVE  InOrder(s) /\ Parses(s) /\ ~IsKey(s[1].of)
  <2>1. s[1].of \in {"ack06", "ack07"} /\ s[1].part = 0
    BY <1>3
  <2>2. IsLast(s[1]) /\ BodyLen(s[1].of) = 0
    BY <1>1, <2>1, Counts DEF IsLast
  <2>3. Size(s[1]) = 18
    BY <2>1, <2>2 DEF Size, Header, Chunk
  <2>4. Bytes(s) = 18
    BY <1>3, <2>3 DEF Bytes, Chunk
  <2>5. InOrder(s)
    BY <1>3 DEF InOrder
  <2> QED BY <2>2, <2>4, <2>5 DEF Parses, IsKey, Header
<1> QED BY <1>2, <1>3

\* The exchange starts in step.
LEMMA InitInStep == Init => InStep
<1> SUFFICES ASSUME Init PROVE InStep
  OBVIOUS
<1>1. /\ pc = "writeKey" /\ torn = FALSE /\ pending = "none" /\ reads = 0
      /\ frags = <<>> /\ authq = <<>> /\ line = <<>>
  BY DEF Init
<1>2. Stream = <<>> /\ Len(frags) = 0
  BY <1>1, EmptySeq, ConcatEmptySeq DEF Stream
<1> QED BY <1>1, <1>2 DEF InStep, Drained

\* A frame written whole, without a fault, is the next the lock answers.
LEMMA WriteInStep ==
  ASSUME TypeOK, InStep, WriteFragment, faults' = faults
  PROVE  InStep'
<1>1. /\ pc \in Writing /\ UNCHANGED <<line, authq, frags, reads, key>>
  BY DEF WriteFragment
<1>2. torn = FALSE /\ pending = "none" /\ Stream = <<>> /\ (pc = "writeKey" => reads = 0)
      /\ \A i \in 1 .. Len(frags) : ~IsLast(frags[i])
  BY <1>1 DEF InStep, Drained, Writing
<1>3. Stream' = <<>> /\ \A i \in 1 .. Len(frags') : ~IsLast(frags'[i])
  BY <1>1, <1>2 DEF Stream
<1>4. torn' = (torn /\ ~(sent + 1 = Count(Frame)))
      /\ pending' = IF ~(sent + 1 = Count(Frame)) THEN pending ELSE IF torn THEN "torn" ELSE Frame
  <2>1. \/ /\ torn' = (torn /\ ~(sent + 1 = Count(Frame)))
           /\ pending' = IF ~(sent + 1 = Count(Frame)) THEN pending
                         ELSE IF torn THEN "torn" ELSE Frame
        \/ faults' = faults + 1
    BY DEF WriteFragment
  <2>2. faults' # faults + 1
    <3>1. faults \in Int
      BY DEF TypeOK
    <3> QED BY <3>1
  <2> QED BY <2>1, <2>2, Zenon
<1>5. torn' = FALSE
  BY <1>2, <1>4, Zenon
<1>6. CASE sent + 1 = Count(Frame)
  <2>1. pending' = Frame /\ pc' = IF pc = "writeKey" THEN "readKey" ELSE "readAck"
    BY <1>2, <1>4, <1>6 DEF WriteFragment
  <2>2. CASE pc = "writeKey"
    <3>1. pending' = "pub" /\ pc' = "readKey" /\ reads' = 0
      BY <1>1, <1>2, <2>1, <2>2 DEF Frame
    <3> QED BY <1>3, <1>5, <3>1 DEF InStep
  <2>3. CASE pc # "writeKey"
    <3>1. pending' = "verify" /\ pc' = "readAck"
      BY <2>1, <2>3 DEF Frame
    <3> QED BY <1>3, <1>5, <3>1 DEF InStep
  <2> QED BY <2>2, <2>3
<1>7. CASE sent + 1 # Count(Frame)
  <2>1. pending' = "none" /\ pc' = pc /\ reads' = reads
    BY <1>1, <1>2, <1>4, <1>7 DEF WriteFragment
  <2> QED BY <1>1, <1>2, <1>3, <1>5, <2>1 DEF InStep, Drained, Writing
<1> QED BY <1>6, <1>7

\* A fragment notified, or collected, stays in the stream.
LEMMA MovesInStep ==
  ASSUME TypeOK, InStep, Notify \/ Collect
  PROVE  InStep'
<1>1. /\ frags \in Seq(AllFragments) /\ authq \in Seq(AllFragments) /\ line \in Seq(AllFragments)
      /\ UNCHANGED <<pc, torn, pending, reads>>
  BY DEF TypeOK, Notify, Collect
<1>2. Stream' = Stream /\ \A i \in 1 .. Len(frags') : ~IsLast(frags'[i])
  <2>1. CASE Notify
    <3>1. /\ line # <<>> /\ line' = Tail(line) /\ authq' = Append(authq, Head(line))
          /\ frags' = frags
      BY <2>1 DEF Notify
    <3>2. authq' \o line' = authq \o line
      BY <1>1, <3>1, Passes
    <3>3. Tail(line) \in Seq(AllFragments) /\ Append(authq, Head(line)) \in Seq(AllFragments)
      BY <1>1, <3>1, QueueTypes
    <3>4. authq' \in Seq(AllFragments) /\ line' \in Seq(AllFragments)
      BY <3>1, <3>3
    <3>5. (frags \o authq) \o line = frags \o (authq \o line)
      BY <1>1, ConcatAssociative
    <3>6. (frags \o authq') \o line' = frags \o (authq' \o line')
      BY <1>1, <3>4, ConcatAssociative
    <3>7. Stream' = Stream
      BY <3>1, <3>2, <3>5, <3>6, Zenon DEF Stream
    <3> QED BY <3>1, <3>7 DEF InStep
  <2>2. CASE Collect
    <3>1. /\ authq # <<>> /\ authq' = Tail(authq) /\ frags' = Append(frags, Head(authq))
          /\ line' = line /\ ~IsLast(Head(authq))
      BY <2>2 DEF Collect
    <3>2. frags' \o authq' = frags \o authq
      BY <1>1, <3>1, Passes
    <3>3. Stream' = Stream
      BY <3>1, <3>2, Zenon DEF Stream
    <3>4. frags' = Got /\ Len(Got) = Len(frags) + 1 /\ Got[Len(Got)] = Head(authq)
          /\ Len(frags) \in Nat /\ \A i \in 1 .. Len(frags) : Got[i] = frags[i]
      BY <1>1, <3>1, Splits, LenProperties DEF Got
    <3>5. ASSUME NEW i \in 1 .. Len(Got) PROVE ~IsLast(Got[i])
      <4>1. CASE i = Len(Got)
        BY <3>1, <3>4, <4>1
      <4>2. CASE i # Len(Got)
        <5>1. i \in 1 .. Len(frags)
          BY <3>4, <4>2
        <5> QED BY <3>4, <5>1 DEF InStep
      <4> QED BY <4>1, <4>2
    <3> QED BY <3>3, <3>4, <3>5
  <2> QED BY <2>1, <2>2
<1>3. /\ pc' \in {"writeKey", "cloud", "writeVerify"} => Drained'
      /\ pc' = "readAck" =>
           \/ pending' = "verify" /\ Stream' = <<>>
           \/ pending' = "none" /\ Stream' = Fragments("ack07")
  BY <1>1, <1>2 DEF InStep, Drained
<1>4. pc' = "readKey" =>
        \/ pending' = "pub" /\ Stream' = <<>> /\ reads' = 0
        \/ pending' = "none" /\ \E m \in 0 .. MaxAcks : reads' + m <= MaxAcks /\ Expected(Stream', m)
  BY <1>1, <1>2 DEF InStep
<1> QED BY <1>1, <1>2, <1>3, <1>4 DEF InStep

\* The lock answers the public key with acknowledgements and its key, and the
\* verify data with its own acknowledgement.
LEMMA AnswersInStep ==
  ASSUME TypeOK, InStep, Faultless, LockAnswers, pc \notin Over
  PROVE  InStep'
<1>1. /\ UNCHANGED <<pc, torn, authq, frags, reads>> /\ pending # "none" /\ pending' = "none"
  BY DEF LockAnswers
<1>2. /\ Stream = <<>>
      /\ \/ pc = "readKey" /\ pending = "pub" /\ reads = 0
         \/ pc = "readAck" /\ pending = "verify"
  <2>1. pc \in {"writeKey", "cloud", "writeVerify", "readKey", "readAck"}
    BY DEF TypeOK, Phases, Over
  <2>2. pc \notin {"writeKey", "cloud", "writeVerify"}
    BY <1>1 DEF InStep, Drained
  <2>3. CASE pc = "readKey"
    <3>1. (pending = "pub" /\ Stream = <<>> /\ reads = 0) \/ pending = "none"
      BY <2>3, Zenon DEF InStep
    <3>2. pending = "pub" /\ Stream = <<>> /\ reads = 0
      BY <1>1, <3>1, Zenon
    <3> QED BY <2>3, <3>2, Zenon
  <2>4. CASE pc = "readAck"
    BY <1>1, <2>4 DEF InStep
  <2> QED BY <2>1, <2>2, <2>3, <2>4
<1>3. frags = <<>> /\ authq = <<>> /\ line = <<>>
  <2>1. /\ frags \in Seq(AllFragments) /\ authq \in Seq(AllFragments) /\ line \in Seq(AllFragments)
    BY DEF TypeOK
  <2>2. /\ frags \o authq \in Seq(AllFragments) /\ Len(frags \o authq) = Len(frags) + Len(authq)
        /\ Len(Stream) = Len(frags \o authq) + Len(line)
        /\ Len(frags) \in Nat /\ Len(authq) \in Nat /\ Len(line) \in Nat
    BY <2>1, ConcatProperties, LenProperties DEF Stream
  <2>3. Len(Stream) = 0
    BY <1>2
  <2>4. Len(frags) = 0 /\ Len(authq) = 0 /\ Len(line) = 0
    <3>1. \A a, b, c \in Nat : (a + b) + c = 0 => a = 0 /\ b = 0 /\ c = 0
      OBVIOUS
    <3>2. (Len(frags) + Len(authq)) + Len(line) = 0
      BY <2>2, <2>3, Zenon
    <3> QED BY <2>2, <3>1, <3>2, Zenon
  <2> QED BY <2>1, <2>4, EmptySeq
<1>4. \A s \in Seq(AllFragments) : <<>> \o s = s
  BY ConcatEmptySeq
<1>5. ASSUME line' \in Seq(AllFragments) PROVE Stream' = line'
  <2>1. frags' \o authq' = <<>>
    BY <1>1, <1>3, <1>4, EmptySeq
  <2> QED BY <1>4, <1>5, <2>1, Zenon DEF Stream
<1>6. torn' = FALSE /\ \A i \in 1 .. Len(frags') : ~IsLast(frags'[i])
  BY <1>1 DEF InStep
<1>7. CASE pc = "readKey"
  <2>1. MaxAcks \in Nat /\ ~LateAcks
    BY FramingConstantsOK DEF Faultless
  <2>2. PICK m \in 0 .. MaxAcks, a \in 0 .. (IF LateAcks THEN 1 ELSE 0) :
           line' = line \o Acks(m) \o Fragments("key") \o Acks(a)
    BY <1>2, <1>7 DEF LockAnswers
  <2>3. m \in Nat /\ a = 0
    BY <2>1, <2>2
  <2> HIDE DEF Acks
  <2>4. Acks(m) \in Seq(AllFragments) /\ Len(Acks(m)) = m
        /\ Acks(0) \in Seq(AllFragments) /\ Len(Acks(0)) = 0
    BY <2>3, AcksType
  <2>5. Acks(0) = <<>>
    BY <2>4, EmptySeq
  <2>6. Fragments("key") \in Seq(AllFragments)
        /\ Acks(m) \o Fragments("key") \in Seq(AllFragments)
    BY <2>4, KeyFragments, ConcatProperties
  <2>7. line' = Acks(m) \o Fragments("key")
    <3>1. line \o Acks(m) = Acks(m)
      BY <1>3, <1>4, <2>4
    <3>2. (Acks(m) \o Fragments("key")) \o <<>> = Acks(m) \o Fragments("key")
      BY <2>6, ConcatEmptySeq
    <3> QED BY <2>2, <2>3, <2>5, <3>1, <3>2, Zenon
  <2>8. Stream' = Acks(m) \o Fragments("key")
    BY <1>5, <2>6, <2>7
  <2>9. Expected(Stream', m)
    <3> DEFINE F == Fragments("key")
               A == Acks(m)
    <3>1. /\ Len(A) = m /\ \A i \in 1 .. m : A[i] = [of |-> "ack06", part |-> 0]
          /\ Len(F) = Count("key") /\ Count("key") \in Nat
          /\ \A i \in 1 .. Count("key") : F[i] = [of |-> "key", part |-> i - 1]
          /\ A \in Seq(AllFragments) /\ F \in Seq(AllFragments)
      BY <2>4, <2>6, KeyFragments, Counts DEF Acks
    <3> HIDE DEF A, F
    <3>2. /\ Len(A \o F) = m + Count("key")
          /\ \A i \in 1 .. m + Count("key") : (A \o F)[i] = IF i <= m THEN A[i] ELSE F[i - m]
      <4>1. /\ Len(A \o F) = Len(A) + Len(F)
            /\ \A i \in 1 .. Len(A) + Len(F) :
                  (A \o F)[i] = IF i <= Len(A) THEN A[i] ELSE F[i - Len(A)]
        BY <3>1, ConcatProperties
      <4> QED BY <3>1, <4>1, Zenon
    <3>3. ASSUME NEW i \in 1 .. Len(A \o F)
          PROVE  (A \o F)[i] = IF i <= m THEN [of |-> "ack06", part |-> 0]
                                         ELSE [of |-> "key", part |-> i - m - 1]
      <4>1. CASE i <= m
        BY <2>3, <3>1, <3>2, <4>1
      <4>2. CASE ~(i <= m)
        <5>1. i - m \in 1 .. Count("key") /\ (A \o F)[i] = F[i - m]
          BY <2>3, <3>1, <3>2, <4>2
        <5> QED BY <3>1, <4>2, <5>1
      <4> QED BY <4>1, <4>2
    <3>4. Expected(A \o F, m)
      BY <3>2, <3>3 DEF Expected
    <3> QED BY <2>8, <3>4 DEF A, F
  <2>10. reads' + m <= MaxAcks
    BY <1>1, <1>2, <1>7, <2>1, <2>2
  <2> QED BY <1>1, <1>6, <1>7, <2>2, <2>9, <2>10 DEF InStep
<1>8. CASE pc = "readAck"
  <2>1. line' = line \o Fragments("ack07")
    BY <1>2, <1>8 DEF LockAnswers
  <2>2. line' = Fragments("ack07")
    BY <1>3, <1>4, <2>1, KeyFragments
  <2>3. Stream' = Fragments("ack07")
    BY <1>5, <2>2, KeyFragments
  <2> QED BY <1>1, <1>6, <1>8, <2>3 DEF InStep
<1> QED BY <1>2, <1>7, <1>8

\* Each message completed is one that was expected: the session goes on to the
\* next read, takes the key, or is done.
LEMMA ReadsInStep ==
  ASSUME TypeOK, InStep, Faultless, Rejected \/ TakeKey \/ TakeAck06 \/ TakeAck07
  PROVE  InStep' /\ pc' # "failed"
<1>1. /\ pc \in Reading /\ Complete /\ authq # <<>>
      /\ authq' = Tail(authq) /\ frags' = <<>>
      /\ UNCHANGED <<sent, torn, pending, line, faults>>
  BY DEF Rejected, TakeKey, TakeAck06, TakeAck07, EndMessage, Complete, Reading
<1> DEFINE rest == Tail(authq) \o line
<1>2. Stream' = rest
  <2>1. Tail(authq) \in Seq(AllFragments)
    BY <1>1, QueueTypes DEF TypeOK
  <2>2. <<>> \o Tail(authq) = Tail(authq)
    BY <2>1, ConcatEmptySeq
  <2> QED BY <1>1, <2>2, Zenon DEF Stream
<1>3. /\ Stream # <<>> /\ Len(Got) \in Nat \ {0} /\ Len(rest) \in Nat
      /\ Len(Stream) = Len(Got) + Len(rest) /\ (Len(rest) = 0 => rest = <<>>)
  <2>1. /\ Len(Got) \in Nat \ {0} /\ Len(rest) \in Nat
        /\ Len(Stream) = Len(Got) + Len(rest) /\ (Len(rest) = 0 => rest = <<>>)
    BY <1>1, Places
  <2>2. Len(Stream) # 0
    BY <2>1
  <2>3. Len(<<>>) = 0
    OBVIOUS
  <2> QED BY <2>1, <2>2, <2>3, Zenon
<1>4. \A i \in 1 .. Len(frags) : ~IsLast(frags[i])
  BY DEF InStep
<1>5. Len(frags') = 0 /\ torn' = FALSE
  BY <1>1 DEF InStep
<1> HIDE DEF rest
<1>6. CASE pc = "readKey"
  <2>1. pending = "none" /\ \E m \in 0 .. MaxAcks : reads + m <= MaxAcks /\ Expected(Stream, m)
    BY <1>3, <1>6, Zenon DEF InStep
  <2>2. PICK m \in 0 .. MaxAcks : reads + m <= MaxAcks /\ Expected(Stream, m)
    BY <2>1
  <2>3. m \in Nat /\ reads \in Nat /\ MaxAcks \in Nat /\ MaxReads \in Nat /\ MaxAcks < MaxReads
    BY <2>2, FramingConstantsOK DEF TypeOK, Faultless
  <2>4. /\ m > 0 => /\ Len(Got) = 1 /\ Got[1] = [of |-> "ack06", part |-> 0]
                    /\ Expected(rest, m - 1)
        /\ m = 0 => Got = Fragments("key") /\ rest = <<>>
    BY <1>1, <1>4, <2>2, <2>3, ReadsExpected DEF rest
  <2>5. CASE m = 0
    <3>1. InOrder(Got) /\ Parses(Got) /\ IsKey(Got[1].of)
      BY <2>4, <2>5, Passing
    <3>2. pc' = "cloud"
      BY <1>6, <3>1 DEF Rejected, TakeKey, TakeAck06, TakeAck07
    <3>3. Stream' = <<>> /\ pending' = "none"
      BY <1>1, <1>2, <2>1, <2>4, <2>5
    <3> QED BY <1>5, <3>2, <3>3 DEF InStep, Drained
  <2>6. CASE m > 0
    <3>1. InOrder(Got) /\ Parses(Got) /\ ~IsKey(Got[1].of)
      BY <2>4, <2>6, Passing
    <3>2. TakeAck06
      BY <1>6, <3>1 DEF Rejected, TakeKey, TakeAck07
    <3>3. ~LastRead
      BY <2>2, <2>3, <2>6 DEF LastRead
    <3>4. pc' = "readKey" /\ reads' = reads + 1
      BY <1>6, <3>2, <3>3 DEF TakeAck06
    <3>5. m - 1 \in 0 .. MaxAcks /\ reads' + (m - 1) <= MaxAcks
      BY <2>2, <2>3, <2>6, <3>4
    <3>6. Expected(Stream', m - 1)
      BY <1>2, <2>4, <2>6
    <3> QED BY <1>1, <1>5, <2>1, <3>4, <3>5, <3>6 DEF InStep
  <2> QED BY <2>3, <2>5, <2>6
<1>7. CASE pc = "readAck"
  <2>1. pending = "none" /\ Stream = Fragments("ack07")
    BY <1>3, <1>7, Zenon DEF InStep
  <2>2. Len(Stream) = 1 /\ Stream[1] = [of |-> "ack07", part |-> 0]
    BY <2>1, KeyFragments, Counts DEF Fragments
  <2>3. IsLast(Stream[1])
    BY <2>2, Counts DEF IsLast
  <2>4. Len(Got) = 1 /\ Got[1] = Stream[1]
    BY <1>1, <1>4, <2>3, AckFirst DEF rest
  <2>5. InOrder(Got) /\ Parses(Got) /\ FrameType(Got[1].of) = 7
    BY <2>2, <2>4, Passing DEF FrameType
  <2>6. pc' = "done"
    BY <1>7, <2>5 DEF Rejected, TakeKey, TakeAck06, TakeAck07
  <2> QED BY <1>5, <2>6 DEF InStep
<1> QED BY <1>1, <1>6, <1>7 DEF Reading

\* A step without a fault leaves the exchange in step, and fails it only in
\* silence.
LEMMA StepInStep ==
  ASSUME TypeOK, Ranges, Faultless => InStep, [Next]_vars
  PROVE  /\ (Faultless => InStep)'
         /\ Faultless /\ pc # "failed" /\ pc' = "failed" => authq = <<>>
<1>1. faults \in Nat /\ (faults' = faults \/ faults' = faults + 1)
  <2>1. faults \in Nat
    BY FramingConstantsOK DEF TypeOK
  <2>2. faults' = faults \/ faults' = faults + 1
    <3>1. CASE WriteFragment
      BY <3>1, Zenon DEF WriteFragment
    <3>2. CASE Collect \/ Rejected \/ TakeKey \/ TakeAck06 \/ CloudVerifies \/ TakeAck07
               \/ ReadTimeout \/ SkipEmpty \/ BreakOff
      BY <3>2 DEF Collect, Rejected, TakeKey, TakeAck06, CloudVerifies, TakeAck07, ReadTimeout,
                  SkipEmpty, BreakOff, EndMessage
    <3>3. CASE Lock
      BY <3>3 DEF Lock, LockAnswers, Notify, Stray
    <3>4. CASE Faults
      BY <3>4 DEF Faults, LoseNotification, RepeatNotification
    <3>5. CASE UNCHANGED vars
      BY <3>5 DEF vars
    <3> QED BY <3>1, <3>2, <3>3, <3>4, <3>5 DEF Next, Session, Ended
  <2> QED BY <2>1, <2>2
<1>2. CASE ~Faultless
  BY <1>1, <1>2 DEF Faultless
<1>3. CASE Faultless /\ faults' # faults
  <2>1. ~Faultless'
    BY <1>1, <1>3 DEF Faultless
  <2>2. pc' # "failed" \/ pc = "failed"
    <3>1. CASE WriteFragment
      BY <3>1 DEF WriteFragment, Writing
    <3>2. CASE Faults
      BY <3>2 DEF Faults, LoseNotification, RepeatNotification
    <3>3. CASE Collect \/ Rejected \/ TakeKey \/ TakeAck06 \/ CloudVerifies \/ TakeAck07
               \/ ReadTimeout \/ SkipEmpty \/ BreakOff \/ Lock \/ UNCHANGED vars
      BY <1>3, <3>3 DEF Collect, Rejected, TakeKey, TakeAck06, CloudVerifies, TakeAck07,
                        ReadTimeout, SkipEmpty, BreakOff, EndMessage, Lock, LockAnswers, Notify,
                        Stray, vars
    <3> QED BY <3>1, <3>2, <3>3 DEF Next, Session, Ended
  <2> QED BY <2>1, <2>2
<1>4. CASE Faultless /\ faults' = faults
  <2>1. InStep /\ Faultless
    BY <1>4
  <2>2. CASE WriteFragment
    <3>1. pc' # "failed"
      BY <2>2 DEF WriteFragment, Writing
    <3> QED BY <1>4, <2>1, <2>2, <3>1, WriteInStep
  <2>3. CASE Notify \/ Collect
    <3>1. pc' = pc
      BY <2>3 DEF Notify, Collect
    <3> QED BY <2>1, <2>3, <3>1, MovesInStep
  <2>4. CASE Rejected \/ TakeKey \/ TakeAck06 \/ TakeAck07
    BY <2>1, <2>4, ReadsInStep
  <2>5. CASE LockAnswers /\ pc \notin Over
    <3>1. pc' = pc
      BY <2>5 DEF LockAnswers
    <3> QED BY <2>1, <2>5, <3>1, AnswersInStep
  <2>6. CASE CloudVerifies
    <3>1. pc = "cloud" /\ pc' = "writeVerify" /\ UNCHANGED <<torn, pending, line, authq, frags>>
      BY <2>6 DEF CloudVerifies
    <3>2. torn' = FALSE /\ \A i \in 1 .. Len(frags') : ~IsLast(frags'[i])
      BY <2>1, <3>1 DEF InStep
    <3>3. Drained'
      BY <2>1, <3>1 DEF InStep, Drained, Stream
    <3> QED BY <3>1, <3>2, <3>3 DEF InStep
  <2>7. CASE ReadTimeout
    <3>1. authq = <<>> /\ pc' = "failed" /\ torn' = torn /\ frags' = frags
      BY <2>7 DEF ReadTimeout
    <3>2. torn' = FALSE /\ \A i \in 1 .. Len(frags') : ~IsLast(frags'[i])
      BY <2>1, <3>1 DEF InStep
    <3> QED BY <3>1, <3>2 DEF InStep
  <2>8. CASE LoseNotification \/ RepeatNotification
    BY <1>1, <1>4, <2>8 DEF LoseNotification, RepeatNotification
  <2>9. CASE SkipEmpty \/ Stray \/ UNCHANGED vars
    <3>1. UNCHANGED <<pc, torn, pending, line, authq, frags, reads>>
      BY <2>9 DEF SkipEmpty, Stray, vars
    <3>2. Stream' = Stream
      BY <3>1 DEF Stream
    <3>3. torn' = FALSE /\ \A i \in 1 .. Len(frags') : ~IsLast(frags'[i])
      BY <2>1, <3>1 DEF InStep
    <3> QED BY <2>1, <3>1, <3>2, <3>3 DEF InStep, Drained
  <2>10. ~BreakOff
    BY <2>1 DEF BreakOff, Faultless, Ranges
  <2> QED BY <2>2, <2>3, <2>4, <2>5, <2>6, <2>7, <2>8, <2>9, <2>10 DEF Next, Session, Lock, Faults, Ended
<1> QED BY <1>2, <1>3, <1>4

\* Where nothing is lost or repeated and a read is left for the key, the session
\* rejects nothing the lock sends, for a key of any length and however the
\* fragments and the reads interleave: only a read that times out on an empty
\* queue fails the exchange (session.py:733-774).
THEOREM SilenceOnly == Spec => OnlySilenceFails
<1>1. TypeOK /\ Ranges /\ (Faultless => InStep) /\ [Next]_vars
        => (Faultless => InStep)' /\ (Faultless /\ pc # "failed" /\ pc' = "failed" => authq = <<>>)
  BY StepInStep
<1>2. Init => (Faultless => InStep)
  BY InitInStep
<1>3. TypeOK /\ Ranges /\ (Faultless => InStep) /\ [Next]_vars
        => [faults = 0 /\ MaxAcks < MaxReads /\ ~LateAcks /\ pc # "failed" /\ pc' = "failed"
              => authq = <<>>]_vars
  BY <1>1 DEF Faultless
<1>4. TypeOK /\ Ranges /\ [Next]_vars => TypeOK' /\ Ranges'
  BY TypeStep
<1> QED BY <1>1, <1>2, <1>3, <1>4, TypeInit, PTL DEF Spec, OnlySilenceFails
=============================================================================
