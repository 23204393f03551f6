-------------------------- MODULE MqttBridgeProofs --------------------------
(* Proofs about MqttBridge, for any payloads, retries, requests in flight, losses of the *)
(* connection and kills.                                                                 *)
EXTENDS MqttBridge, SequenceTheorems, FiniteSetTheorems, TLAPS

USE MqttAssumption DEF MqttAssumption

Item == [id : 1..MaxMsgs, attempts : 0..Retries, stamp : Stamps]

-----------------------------------------------------------------------------
(* The invariant. *)

\* What devices publish is one of the payloads, and what they published first stays; the
\* bridge is subscribed only while it runs.
SessionInv ==
  /\ published \in Seq(Raws)
  /\ subscribed => pc = "running"

\* Every batch, wherever it is, is of an accepted message, and nothing is left after a
\* keyboard interrupt.
HeldInv ==
  /\ \A b \in ToSet(queue) \cup ToSet(inflight) \cup ToSet(topic) : b.id \in accepted
  /\ \A i \in accepted :
       \/ \E b \in ToSet(queue) \cup ToSet(inflight) \cup ToSet(topic) : b.id = i
       \/ i \in givenUp \cup killed
  /\ pc = "done" => queue = << >> /\ inflight = << >>

\* A batch on its first attempt comes after all that are before it: on the topic, on the
\* connection, in the queue. A batch that is repeated is behind others, but is no longer
\* on its first attempt.
Sorted(s) == \A p, q \in DOMAIN s : p < q /\ s[q].attempts = 0 => s[p].id < s[q].id
Before(S, T) == \A b \in S, c \in T : c.attempts = 0 => b.id < c.id

OrderInv ==
  /\ Sorted(topic) /\ Sorted(inflight) /\ Sorted(queue)
  /\ Before(ToSet(topic), ToSet(inflight))
  /\ Before(ToSet(topic), ToSet(queue))
  /\ Before(ToSet(inflight), ToSet(queue))

\* A stamp on the topic is that of a payload.
StampInv == \A b \in ToSet(topic) : \E r \in Raws : b.stamp = Normalized(r)

IInv == TypeOK /\ SessionInv /\ HeldInv /\ OrderInv /\ StampInv

-----------------------------------------------------------------------------
(* Sequences of batches. *)

\* The first one and the others.
LEMMA HeadTail ==
  ASSUME NEW S, NEW s \in Seq(S), s # << >>
  PROVE  /\ Head(s) \in S /\ Tail(s) \in Seq(S)
         /\ Head(s) = s[1] /\ 1 \in DOMAIN s
         /\ \A i \in DOMAIN Tail(s) : i \in Nat /\ i + 1 \in DOMAIN s /\ Tail(s)[i] = s[i + 1]
         /\ \A i \in DOMAIN s : i = 1 \/ i - 1 \in DOMAIN Tail(s)
         /\ ToSet(s) = {Head(s)} \cup ToSet(Tail(s))
<1>1. Head(s) \in S /\ Tail(s) \in Seq(S) /\ Len(Tail(s)) = Len(s) - 1 /\ Len(s) \in Nat
      /\ \A i \in 1..Len(Tail(s)) : Tail(s)[i] = s[i + 1]
  BY HeadTailProperties, LenProperties
<1>2. Len(s) >= 1
  BY <1>1, EmptySeq
<1>3. DOMAIN s = 1..Len(s) /\ DOMAIN Tail(s) = 1..(Len(s) - 1)
  BY <1>1, LenProperties
<1>4. Head(s) = s[1]
  BY <1>2
<1>5. \A i \in DOMAIN Tail(s) : i \in Nat /\ i + 1 \in DOMAIN s /\ Tail(s)[i] = s[i + 1]
  BY <1>1, <1>2, <1>3
<1>6. \A i \in DOMAIN s : i = 1 \/ (i - 1 \in DOMAIN Tail(s) /\ Tail(s)[i - 1] = s[i])
  <2>1. ASSUME NEW i \in DOMAIN s, i # 1 PROVE i - 1 \in DOMAIN Tail(s) /\ (i - 1) + 1 = i
    BY <2>1, <1>1, <1>2, <1>3
  <2> QED BY <2>1, <1>5
<1>7. ToSet(s) \subseteq {Head(s)} \cup ToSet(Tail(s))
  BY <1>4, <1>6 DEF ToSet
<1>8. {Head(s)} \cup ToSet(Tail(s)) \subseteq ToSet(s)
  BY <1>2, <1>3, <1>4, <1>5 DEF ToSet
<1> QED BY <1>1, <1>2, <1>3, <1>4, <1>5, <1>6, <1>7, <1>8

\* One more behind the others.
LEMMA Behind ==
  ASSUME NEW S, NEW s \in Seq(S), NEW e \in S
  PROVE  /\ Append(s, e) \in Seq(S)
         /\ DOMAIN Append(s, e) = DOMAIN s \cup {Len(s) + 1}
         /\ \A i \in DOMAIN s : i \in Nat /\ i < Len(s) + 1 /\ Append(s, e)[i] = s[i]
         /\ Append(s, e)[Len(s) + 1] = e
         /\ Len(s) \in Nat
         /\ ToSet(Append(s, e)) = ToSet(s) \cup {e}
<1>1. /\ Append(s, e) \in Seq(S) /\ Len(Append(s, e)) = Len(s) + 1
      /\ \A i \in 1..Len(s) : Append(s, e)[i] = s[i]
      /\ Append(s, e)[Len(s) + 1] = e
  BY AppendProperties
<1>2. Len(s) \in Nat /\ DOMAIN s = 1..Len(s) /\ DOMAIN Append(s, e) = 1..(Len(s) + 1)
  BY <1>1, LenProperties
<1>3. DOMAIN Append(s, e) = DOMAIN s \cup {Len(s) + 1}
  BY <1>2
<1>4. ToSet(Append(s, e)) = ToSet(s) \cup {e}
  BY <1>1, <1>2, <1>3 DEF ToSet
<1> QED BY <1>1, <1>2, <1>3, <1>4

\* One more in front of the others.
LEMMA InFront ==
  ASSUME NEW S, NEW s \in Seq(S), NEW e \in S
  PROVE  LET t == <<e>> \o s IN
         /\ t \in Seq(S)
         /\ t[1] = e
         /\ \A i \in DOMAIN t : i \in Nat /\ (i = 1 \/ (i > 1 /\ i - 1 \in DOMAIN s /\ t[i] = s[i - 1]))
         /\ \A i \in DOMAIN s : i \in Nat /\ i + 1 \in DOMAIN t /\ t[i + 1] = s[i]
         /\ 1 \in DOMAIN t
         /\ ToSet(t) = {e} \cup ToSet(s)
<1> DEFINE t == <<e>> \o s
<1>1. <<e>> \in Seq(S) /\ Len(<<e>>) = 1 /\ <<e>>[1] = e
  OBVIOUS
<1>2. /\ t \in Seq(S) /\ Len(t) = 1 + Len(s)
      /\ \A i \in 1..(1 + Len(s)) : t[i] = IF i <= 1 THEN <<e>>[i] ELSE s[i - 1]
  BY <1>1, ConcatProperties
<1>3. Len(s) \in Nat /\ DOMAIN s = 1..Len(s) /\ DOMAIN t = 1..(1 + Len(s))
  BY <1>2, LenProperties
<1> HIDE DEF t
<1>4. t[1] = e /\ 1 \in DOMAIN t
  BY <1>1, <1>2, <1>3
<1>5. \A i \in DOMAIN t : i \in Nat /\ (i = 1 \/ (i > 1 /\ i - 1 \in DOMAIN s /\ t[i] = s[i - 1]))
  BY <1>2, <1>3
<1>6. \A i \in DOMAIN s : i \in Nat /\ i + 1 \in DOMAIN t /\ t[i + 1] = s[i]
  <2>1. TAKE i \in DOMAIN s
  <2>2. i \in Nat /\ i + 1 \in DOMAIN t /\ i + 1 > 1 /\ (i + 1) - 1 = i
    BY <1>3
  <2> QED BY <2>2, <1>5
<1>7. ToSet(t) \subseteq {e} \cup ToSet(s)
  BY <1>4, <1>5 DEF ToSet
<1>8. {e} \cup ToSet(s) \subseteq ToSet(t)
  BY <1>4, <1>6 DEF ToSet
<1> QED BY <1>2, <1>4, <1>5, <1>6, <1>7, <1>8 DEF t

\* The order of a sequence without its first batch.
LEMMA SortedTail ==
  ASSUME NEW S, NEW s \in Seq(S), s # << >>, Sorted(s)
  PROVE  Sorted(Tail(s)) /\ Before({Head(s)}, ToSet(Tail(s)))
<1>1. Sorted(Tail(s))
  <2>1. SUFFICES ASSUME NEW p \in DOMAIN Tail(s), NEW q \in DOMAIN Tail(s), p < q,
                        Tail(s)[q].attempts = 0
                 PROVE  Tail(s)[p].id < Tail(s)[q].id
    BY DEF Sorted
  <2>2. /\ p + 1 \in DOMAIN s /\ q + 1 \in DOMAIN s /\ p + 1 < q + 1
        /\ Tail(s)[p] = s[p + 1] /\ Tail(s)[q] = s[q + 1]
    BY <2>1, HeadTail
  <2> QED BY <2>1, <2>2 DEF Sorted
<1>2. Before({Head(s)}, ToSet(Tail(s)))
  <2>1. SUFFICES ASSUME NEW q \in DOMAIN Tail(s), Tail(s)[q].attempts = 0
                 PROVE  Head(s).id < Tail(s)[q].id
    BY DEF Before, ToSet
  <2>2. q \in Nat /\ q + 1 \in DOMAIN s /\ Tail(s)[q] = s[q + 1] /\ Head(s) = s[1]
        /\ 1 \in DOMAIN s /\ DOMAIN Tail(s) = 1..Len(Tail(s)) /\ Len(Tail(s)) \in Nat
    BY <2>1, HeadTail, LenProperties
  <2>3. 1 < q + 1
    BY <2>2
  <2> QED BY <2>1, <2>2, <2>3 DEF Sorted
<1> QED BY <1>1, <1>2

\* The order of a sequence with one more batch behind or in front.
LEMMA SortedAppend ==
  ASSUME NEW S, NEW s \in Seq(S), NEW e \in S, Sorted(s), Before(ToSet(s), {e})
  PROVE  Sorted(Append(s, e))
<1> DEFINE t == Append(s, e)
<1>1. SUFFICES ASSUME NEW p \in DOMAIN t, NEW q \in DOMAIN t, p < q, t[q].attempts = 0
               PROVE  t[p].id < t[q].id
  BY DEF Sorted
<1>2. p \in DOMAIN s /\ t[p] = s[p]
  BY <1>1, Behind
<1>3. CASE q \in DOMAIN s
  BY <1>1, <1>2, <1>3, Behind DEF Sorted
<1>4. CASE q = Len(s) + 1
  BY <1>1, <1>2, <1>4, Behind DEF Before, ToSet
<1> QED BY <1>1, <1>3, <1>4, Behind

LEMMA SortedPrepend ==
  ASSUME NEW S, NEW s \in Seq(S), NEW e \in S, Sorted(s), Before({e}, ToSet(s))
  PROVE  Sorted(<<e>> \o s)
<1> DEFINE t == <<e>> \o s
<1>1. SUFFICES ASSUME NEW p \in DOMAIN t, NEW q \in DOMAIN t, p < q, t[q].attempts = 0
               PROVE  t[p].id < t[q].id
  BY DEF Sorted
<1>2. /\ t[1] = e
      /\ \A i \in DOMAIN t : i \in Nat /\ (i = 1 \/ (i > 1 /\ i - 1 \in DOMAIN s /\ t[i] = s[i - 1]))
  BY InFront
<1> HIDE DEF t
<1>3. q > 1 /\ q - 1 \in DOMAIN s /\ t[q] = s[q - 1]
  BY <1>1, <1>2
<1>4. CASE p = 1
  BY <1>1, <1>2, <1>3, <1>4 DEF Before, ToSet
<1>5. CASE p > 1
  <2>1. p - 1 \in DOMAIN s /\ t[p] = s[p - 1] /\ p - 1 < q - 1
    BY <1>1, <1>2, <1>3, <1>5
  <2> QED BY <1>1, <1>3, <2>1 DEF Sorted
<1> QED BY <1>2, <1>4, <1>5, <1>1

-----------------------------------------------------------------------------
(* The steps. *)

\* A batch that is answered for reaches the topic with a stamp of a payload.
LEMMA Stored1 ==
  ASSUME TypeOK, published \in Seq(Raws), NEW b \in Batch, b.id \in accepted
  PROVE  /\ WithStored(b) \in Seq(Item)
         /\ \E e \in Item : /\ WithStored(b) = Append(topic, e)
                            /\ e.id = b.id /\ e.attempts = b.attempts
                            /\ \E r \in Raws : e.stamp = Normalized(r)
<1> DEFINE r == published[b.id]
           e == [id |-> b.id, attempts |-> b.attempts, stamp |-> Normalized(r)]
<1>1. b.id \in 1..Len(published) /\ b.id \in 1..MaxMsgs /\ b.attempts \in 0..Retries
  BY DEF TypeOK, Batch
<1>2. r \in Raws /\ r \in Raw
  BY <1>1, ElementOfSeq
<1>3. Normalized(r) \in Stamps
  BY <1>2 DEF Raw, Normalized, Stamps, Now
<1>4. e \in Item
  BY <1>1, <1>3 DEF Item
<1>5. topic \in Seq(Item)
  BY DEF TypeOK, Item
<1>6. WithStored(b) = Append(topic, e)
  BY DEF WithStored
<1> QED BY <1>2, <1>4, <1>5, <1>6, AppendProperties

\* The types of sequences and of what is in them.
LEMMA Typed ==
  ASSUME TypeOK
  PROVE  /\ queue \in Seq(Batch) /\ inflight \in Seq(Batch) /\ topic \in Seq(Item)
         /\ \A b \in ToSet(queue) \cup ToSet(inflight) : b \in Batch
         /\ \A b \in ToSet(topic) : b \in Item
         /\ \A i \in accepted : i \in Nat /\ i <= Len(published)
         /\ Len(published) \in Nat
<1>1. queue \in Seq(Batch) /\ inflight \in Seq(Batch) /\ topic \in Seq(Item)
  BY DEF TypeOK, Item
<1>2. \A b \in ToSet(queue) \cup ToSet(inflight) : b \in Batch
  BY <1>1, ElementOfSeq, LenProperties DEF ToSet
<1>3. \A b \in ToSet(topic) : b \in Item
  BY <1>1, ElementOfSeq, LenProperties DEF ToSet
<1>4. Len(published) \in Nat
  BY LenProperties DEF TypeOK
<1> QED BY <1>1, <1>2, <1>3, <1>4 DEF TypeOK

LEMMA InitHolds == Init => IInv
<1> SUFFICES ASSUME Init PROVE IInv
  OBVIOUS
<1>1. ToSet(queue) = {} /\ ToSet(inflight) = {} /\ ToSet(topic) = {}
  BY DEF Init, ToSet
<1>2. TypeOK
  <2>1. << >> \in Seq(Raw) /\ << >> \in Seq(Batch) /\ << >> \in Seq(Item) /\ Len(<< >>) = 0
    OBVIOUS
  <2>2. 0 \in 0..MaxDrops /\ 0 \in 0..MaxFaults /\ 0 <= MaxMsgs
    OBVIOUS
  <2> QED BY <2>1, <2>2 DEF Init, TypeOK, Item
<1>3. SessionInv /\ HeldInv
  BY <1>1 DEF Init, SessionInv, HeldInv
<1>4. OrderInv /\ StampInv
  BY <1>1 DEF Init, OrderInv, StampInv, Sorted, Before
<1> QED BY <1>2, <1>3, <1>4 DEF IInv

\* What does not touch published messages and batches keeps the invariant as soon as it
\* keeps the types and the session, and does not end the process.
LEMMA OnlySession ==
  ASSUME IInv, UNCHANGED <<published, accepted, kafka>>,
         pc' \in {"boot", "running", "stopping", "down"} \/ (pc' = "done" /\ queue = << >> /\ inflight = << >>),
         connected' \in BOOLEAN, subscribed' \in BOOLEAN, drops' \in 0..MaxDrops,
         subscribed' => pc' = "running"
  PROVE  IInv'
<1>1. TypeOK'
  BY DEF IInv, TypeOK, kafka
<1>2. SessionInv' /\ HeldInv' /\ OrderInv' /\ StampInv'
  BY DEF IInv, SessionInv, HeldInv, OrderInv, StampInv, kafka
<1> QED BY <1>1, <1>2 DEF IInv

LEMMA UnheardStep == IInv /\ PublishUnheard => IInv'
<1> SUFFICES ASSUME IInv, PublishUnheard PROVE IInv'
  OBVIOUS
<1> USE DEF IInv, PublishUnheard, mqtt, kafka
<1>1. PICK r \in Raws : published' = Append(published, r)
  OBVIOUS
<1>2. /\ published' \in Seq(Raw) /\ published' \in Seq(Raws)
      /\ Len(published') = Len(published) + 1 /\ Len(published) \in Nat
  BY <1>1, AppendProperties, LenProperties DEF TypeOK, SessionInv
<1>3. TypeOK'
  BY <1>2 DEF TypeOK
<1>4. SessionInv' /\ HeldInv' /\ OrderInv' /\ StampInv'
  BY <1>2 DEF SessionInv, HeldInv, OrderInv, StampInv
<1> QED BY <1>3, <1>4

LEMMA MessageStep == IInv /\ OnMessage => IInv'
<1> SUFFICES ASSUME IInv, OnMessage PROVE IInv'
  OBVIOUS
<1>1. PICK r \in Raws :
        /\ published' = Append(published, r)
        /\ \/ /\ accepted' = accepted \cup {Len(published')}
              /\ queue' = Append(queue, [id |-> Len(published'), attempts |-> 0])
           \/ UNCHANGED <<accepted, queue>>
  BY DEF OnMessage
<1>2. /\ published' \in Seq(Raw) /\ published' \in Seq(Raws) /\ Len(published') <= MaxMsgs
      /\ Len(published') = Len(published) + 1 /\ Len(published) \in Nat
  BY <1>1, AppendProperties, LenProperties DEF IInv, TypeOK, SessionInv, OnMessage
<1>3. /\ pc' = pc /\ pc = "running" /\ UNCHANGED <<mqtt, inflight, topic, givenUp, killed, faults>>
  BY DEF OnMessage, IInv, SessionInv
<1>4. CASE UNCHANGED <<accepted, queue>>
  <2>1. TypeOK'
    BY <1>2, <1>3, <1>4 DEF TypeOK, IInv, mqtt
  <2>2. SessionInv' /\ HeldInv' /\ OrderInv' /\ StampInv'
    BY <1>2, <1>3, <1>4 DEF IInv, SessionInv, HeldInv, OrderInv, StampInv, mqtt
  <2> QED BY <2>1, <2>2 DEF IInv
<1>5. CASE /\ accepted' = accepted \cup {Len(published')}
           /\ queue' = Append(queue, [id |-> Len(published'), attempts |-> 0])
  <2> DEFINE n == Len(published')
             e == [id |-> n, attempts |-> 0]
  <2>1. e \in Batch /\ n \in Nat /\ n = Len(published) + 1
    BY <1>2 DEF Batch
  <2>2. queue' \in Seq(Batch) /\ ToSet(queue') = ToSet(queue) \cup {e}
    BY <1>5, <2>1, Behind DEF IInv, TypeOK
  <2>3. TypeOK'
    <3>1. accepted' \subseteq 1..Len(published')
      <4>1. accepted \subseteq 1..Len(published) /\ accepted' = accepted \cup {n}
        BY <1>5 DEF TypeOK, IInv
      <4>2. n \in 1..n /\ 1..Len(published) \subseteq 1..n
        BY <1>2, <2>1
      <4> HIDE DEF n
      <4>3. accepted' \subseteq 1..n
        BY <4>1, <4>2
      <4> QED BY <4>3 DEF n
    <3>2. queue' \in Seq(Batch) /\ inflight' \in Seq(Batch) /\ topic' = topic
      BY <1>3, <2>2 DEF TypeOK, IInv
    <3>3. givenUp' \subseteq accepted' /\ killed' \subseteq accepted'
      BY <1>3, <1>5 DEF TypeOK, IInv
    <3> QED BY <1>2, <1>3, <3>1, <3>2, <3>3 DEF TypeOK, IInv, mqtt
  <2>4. SessionInv' /\ StampInv'
    BY <1>2, <1>3, <1>5 DEF IInv, SessionInv, StampInv, mqtt
  <2>5. HeldInv'
    BY <1>3, <1>5, <2>1, <2>2 DEF IInv, HeldInv
  <2>6. \A b \in ToSet(queue) \cup ToSet(inflight) \cup ToSet(topic) : b.id < n
    BY <2>1, Typed DEF IInv, HeldInv
  <2>7. Sorted(queue')
    <3>1. Before(ToSet(queue), {e})
      BY <2>6 DEF Before
    <3> QED BY <1>5, <2>1, <3>1, SortedAppend, Typed DEF IInv, OrderInv
  <2>8. Before(ToSet(topic), ToSet(queue')) /\ Before(ToSet(inflight), ToSet(queue'))
    BY <2>2, <2>6 DEF IInv, OrderInv, Before
  <2>9. OrderInv'
    BY <1>3, <2>7, <2>8 DEF OrderInv, IInv
  <2> QED BY <2>3, <2>4, <2>5, <2>9 DEF IInv
<1> QED BY <1>1, <1>4, <1>5

LEMMA SendStep == IInv /\ SendBatch => IInv'
<1> SUFFICES ASSUME IInv, SendBatch PROVE IInv'
  OBVIOUS
<1> DEFINE b == Head(queue)
<1>1. /\ queue # << >> /\ inflight' = Append(inflight, b) /\ queue' = Tail(queue)
      /\ UNCHANGED <<pc, mqtt, published, accepted, topic, givenUp, killed, faults>>
      /\ pc # "done"
  BY DEF SendBatch, Alive
<1>2. b \in Batch /\ queue' \in Seq(Batch) /\ ToSet(queue) = {b} \cup ToSet(queue')
  BY <1>1, HeadTail, Typed DEF IInv
<1>3. inflight' \in Seq(Batch) /\ ToSet(inflight') = ToSet(inflight) \cup {b}
  BY <1>1, <1>2, Behind, Typed DEF IInv
<1>4. TypeOK'
  BY <1>1, <1>2, <1>3 DEF IInv, TypeOK, mqtt
<1>5. SessionInv' /\ StampInv'
  BY <1>1 DEF IInv, SessionInv, StampInv, mqtt
<1>6. HeldInv'
  BY <1>1, <1>2, <1>3 DEF IInv, HeldInv
<1>7. Sorted(queue') /\ Before({b}, ToSet(queue'))
  BY <1>1, <1>2, SortedTail, Typed DEF IInv, OrderInv
<1>8. Sorted(inflight')
  <2>1. Before(ToSet(inflight), {b})
    BY <1>2 DEF IInv, OrderInv, Before
  <2> QED BY <1>1, <1>2, <2>1, SortedAppend, Typed DEF IInv, OrderInv
<1>9. Before(ToSet(topic), ToSet(inflight')) /\ Before(ToSet(topic), ToSet(queue'))
      /\ Before(ToSet(inflight'), ToSet(queue'))
  BY <1>2, <1>3, <1>7 DEF IInv, OrderInv, Before
<1>10. OrderInv'
  BY <1>1, <1>7, <1>8, <1>9 DEF IInv, OrderInv
<1> QED BY <1>4, <1>5, <1>6, <1>10 DEF IInv

\* The oldest request leaves the connection; what the broker had of it or has now is on
\* the topic.
LEMMA Answered ==
  ASSUME IInv, inflight # << >>, inflight' = Tail(inflight),
         topic' \in {topic, WithStored(Head(inflight))}
  PROVE  /\ Head(inflight) \in Batch /\ Head(inflight).id \in accepted
         /\ inflight' \in Seq(Batch) /\ topic' \in Seq(Item)
         /\ ToSet(inflight) = {Head(inflight)} \cup ToSet(inflight')
         /\ ToSet(topic) \subseteq ToSet(topic')
         /\ \A b \in ToSet(topic') \ ToSet(topic) : b.id = Head(inflight).id
         /\ topic' = WithStored(Head(inflight)) =>
              \E b \in ToSet(topic') : b.id = Head(inflight).id
         /\ \A b \in ToSet(topic') : \E r \in Raws : b.stamp = Normalized(r)
         /\ Sorted(topic') /\ Sorted(inflight')
         /\ Before(ToSet(topic'), ToSet(inflight')) /\ Before(ToSet(topic'), ToSet(queue))
         /\ Before(ToSet(inflight'), ToSet(queue)) /\ Before({Head(inflight)}, ToSet(inflight'))
<1> DEFINE b == Head(inflight)
<1>1. /\ b \in Batch /\ inflight' \in Seq(Batch)
      /\ ToSet(inflight) = {b} \cup ToSet(inflight')
  BY HeadTail, Typed DEF IInv
<1>2. b.id \in accepted
  BY <1>1 DEF IInv, HeldInv
<1>3. Sorted(inflight') /\ Before({b}, ToSet(inflight'))
  BY SortedTail, Typed DEF IInv, OrderInv
<1>4. Before(ToSet(inflight'), ToSet(queue))
  BY <1>1 DEF IInv, OrderInv, Before
<1>5. CASE topic' = topic
  <2>1. Before(ToSet(topic), ToSet(inflight'))
    BY <1>1 DEF IInv, OrderInv, Before
  <2>2. topic = WithStored(b) => \E c \in ToSet(topic') : c.id = b.id
    <3>1. PICK e \in Item : WithStored(b) = Append(topic, e) /\ e.id = b.id
      BY <1>1, <1>2, Stored1 DEF IInv, SessionInv
    <3>2. ToSet(Append(topic, e)) = ToSet(topic) \cup {e}
      BY Behind, Typed DEF IInv
    <3> QED BY <1>5, <3>1, <3>2
  <2> QED BY <1>1, <1>2, <1>3, <1>4, <1>5, <2>1, <2>2, Typed DEF IInv, OrderInv, StampInv
<1>6. CASE topic' = WithStored(b)
  <2>1. PICK e \in Item :
          /\ topic' = Append(topic, e) /\ e.id = b.id /\ e.attempts = b.attempts
          /\ \E r \in Raws : e.stamp = Normalized(r)
    BY <1>1, <1>2, <1>6, Stored1 DEF IInv, SessionInv
  <2>2. topic' \in Seq(Item) /\ ToSet(topic') = ToSet(topic) \cup {e}
    BY <2>1, Behind, Typed DEF IInv
  <2>3. Sorted(topic')
    <3>1. Before(ToSet(topic), {e})
      BY <1>1, <2>1 DEF IInv, OrderInv, Before
    <3> QED BY <2>1, <3>1, SortedAppend, Typed DEF IInv, OrderInv
  <2>4. Before(ToSet(topic'), ToSet(inflight')) /\ Before(ToSet(topic'), ToSet(queue))
    BY <1>1, <1>3, <2>1, <2>2 DEF IInv, OrderInv, Before
  <2>5. \A c \in ToSet(topic') : \E r \in Raws : c.stamp = Normalized(r)
    BY <2>1, <2>2 DEF IInv, StampInv
  <2> QED BY <1>1, <1>2, <1>3, <1>4, <2>1, <2>2, <2>3, <2>4, <2>5
<1> QED BY <1>5, <1>6

LEMMA AckStep == IInv /\ Acked => IInv'
<1> SUFFICES ASSUME IInv, Acked PROVE IInv'
  OBVIOUS
<1> DEFINE b == Head(inflight)
<1>1. /\ inflight # << >> /\ inflight' = Tail(inflight) /\ topic' = WithStored(b)
      /\ UNCHANGED <<pc, mqtt, published, accepted, queue, givenUp, killed, faults>>
      /\ pc # "done"
  BY DEF Acked, Alive
<1>2. /\ inflight' \in Seq(Batch) /\ topic' \in Seq(Item)
      /\ ToSet(inflight) = {b} \cup ToSet(inflight') /\ b.id \in accepted
      /\ ToSet(topic) \subseteq ToSet(topic')
      /\ \A c \in ToSet(topic') \ ToSet(topic) : c.id = b.id
      /\ \E c \in ToSet(topic') : c.id = b.id
  BY <1>1, Answered
<1>3. TypeOK'
  BY <1>1, <1>2 DEF IInv, TypeOK, Item, mqtt
<1>4. SessionInv' /\ StampInv'
  BY <1>1, Answered DEF IInv, SessionInv, StampInv, mqtt
<1>5. HeldInv'
  BY <1>1, <1>2 DEF IInv, HeldInv
<1>6. OrderInv'
  BY <1>1, Answered DEF IInv, OrderInv
<1> QED BY <1>3, <1>4, <1>5, <1>6 DEF IInv

LEMMA NackStep == IInv /\ Nacked => IInv'
<1> SUFFICES ASSUME IInv, Nacked PROVE IInv'
  OBVIOUS
<1> DEFINE b == Head(inflight)
<1>1. /\ inflight # << >> /\ inflight' = Tail(inflight) /\ topic' \in {topic, WithStored(b)}
      /\ UNCHANGED <<pc, mqtt, published, accepted, killed>>
      /\ faults' \in 0..MaxFaults /\ Again(b) /\ pc # "done"
  BY DEF Nacked, Alive, IInv, TypeOK
<1>2. /\ b \in Batch /\ b.id \in accepted
      /\ inflight' \in Seq(Batch) /\ topic' \in Seq(Item)
      /\ ToSet(inflight) = {b} \cup ToSet(inflight')
      /\ ToSet(topic) \subseteq ToSet(topic')
      /\ \A c \in ToSet(topic') \ ToSet(topic) : c.id = b.id
  BY <1>1, Answered
<1>3. SessionInv' /\ StampInv'
  BY <1>1, Answered DEF IInv, SessionInv, StampInv, mqtt
<1>4. /\ Sorted(topic') /\ Sorted(inflight')
      /\ Before(ToSet(topic'), ToSet(inflight')) /\ Before(ToSet(topic'), ToSet(queue))
      /\ Before(ToSet(inflight'), ToSet(queue))
  BY <1>1, Answered
<1>5. CASE b.attempts < Retries
  <2> DEFINE c == [b EXCEPT !.attempts = @ + 1]
  <2>1. queue' = <<c>> \o queue /\ givenUp' = givenUp
    BY <1>1, <1>5 DEF Again
  <2>2. c \in Batch /\ c.id = b.id /\ c.attempts # 0
    BY <1>2, <1>5 DEF Batch
  <2>3. queue' \in Seq(Batch) /\ ToSet(queue') = {c} \cup ToSet(queue)
    <3>1. queue \in Seq(Batch)
      BY Typed DEF IInv
    <3> HIDE DEF c
    <3> QED BY <2>1, <2>2, <3>1, InFront
  <2>4. TypeOK'
    BY <1>1, <1>2, <2>1, <2>3 DEF IInv, TypeOK, Item, mqtt
  <2>5. HeldInv'
    BY <1>1, <1>2, <2>1, <2>2, <2>3 DEF IInv, HeldInv
  <2>6. Before({c}, ToSet(queue))
    BY <1>2, <2>2 DEF IInv, OrderInv, Before
  <2>7. Sorted(queue')
    BY <2>1, <2>2, <2>6, SortedPrepend, Typed DEF IInv, OrderInv
  <2>8. Before(ToSet(topic'), ToSet(queue')) /\ Before(ToSet(inflight'), ToSet(queue'))
    BY <1>4, <2>2, <2>3 DEF Before
  <2>9. OrderInv'
    BY <1>4, <2>7, <2>8 DEF OrderInv
  <2> QED BY <1>3, <2>4, <2>5, <2>9 DEF IInv
<1>6. CASE ~(b.attempts < Retries)
  <2>1. queue' = queue /\ givenUp' = givenUp \cup {b.id}
    BY <1>1, <1>6 DEF Again
  <2>2. TypeOK'
    BY <1>1, <1>2, <2>1 DEF IInv, TypeOK, Item, mqtt
  <2>3. HeldInv'
    BY <1>1, <1>2, <2>1 DEF IInv, HeldInv
  <2>4. OrderInv'
    BY <1>4, <2>1 DEF IInv, OrderInv
  <2> QED BY <1>3, <2>2, <2>3, <2>4 DEF IInv
<1> QED BY <1>5, <1>6

LEMMA KillStep == IInv /\ Kill => IInv'
<1> SUFFICES ASSUME IInv, Kill PROVE IInv'
  OBVIOUS
<1>1. /\ pc' = "down" /\ connected' = FALSE /\ subscribed' = FALSE
      /\ queue' = << >> /\ inflight' = << >> /\ killed' = killed \cup Held
      /\ UNCHANGED <<drops, published, accepted, topic, givenUp, faults>>
  BY DEF Kill
<1>2. Held = {b.id : b \in ToSet(queue) \cup ToSet(inflight)} /\ Held \subseteq accepted
  BY DEF Held, IInv, HeldInv
<1>3. ToSet(queue') = {} /\ ToSet(inflight') = {} /\ queue' \in Seq(Batch) /\ inflight' \in Seq(Batch)
  BY <1>1 DEF ToSet
<1>4. TypeOK'
  BY <1>1, <1>2, <1>3 DEF IInv, TypeOK
<1>5. SessionInv' /\ StampInv'
  BY <1>1 DEF IInv, SessionInv, StampInv
<1>6. HeldInv'
  BY <1>1, <1>2, <1>3 DEF IInv, HeldInv
<1>7. OrderInv'
  BY <1>1, <1>3 DEF IInv, OrderInv, Sorted, Before
<1> QED BY <1>4, <1>5, <1>6, <1>7 DEF IInv

LEMMA StepHolds == IInv /\ [Next]_vars => IInv'
<1> SUFFICES ASSUME IInv, [Next]_vars PROVE IInv'
  OBVIOUS
<1>1. connected \in BOOLEAN /\ subscribed \in BOOLEAN /\ drops \in 0..MaxDrops
      /\ (subscribed => pc = "running")
  BY DEF IInv, TypeOK, SessionInv
<1>2. CASE Boot
  BY <1>1, <1>2, OnlySession DEF Boot, mqtt
<1>3. CASE BootFails
  BY <1>1, <1>3, OnlySession DEF BootFails, mqtt
<1>4. CASE Kill
  BY <1>4, KillStep
<1>5. CASE Restart
  BY <1>1, <1>5, OnlySession DEF Restart, mqtt
<1>6. CASE Interrupt
  BY <1>1, <1>6, OnlySession DEF Interrupt
<1>7. CASE Flush
  BY <1>1, <1>7, OnlySession DEF Flush, mqtt
<1>8. CASE OnConnect
  BY <1>1, <1>8, OnlySession DEF OnConnect
<1>9. CASE OnDisconnect
  <2>1. drops' \in 0..MaxDrops
    BY <1>1, <1>9 DEF OnDisconnect
  <2> QED BY <1>1, <1>9, <2>1, OnlySession DEF OnDisconnect
<1>10. CASE PublishUnheard
  BY <1>10, UnheardStep
<1>11. CASE OnMessage
  BY <1>11, MessageStep
<1>12. CASE SendBatch
  BY <1>12, SendStep
<1>13. CASE Acked
  BY <1>13, AckStep
<1>14. CASE Nacked
  BY <1>14, NackStep
<1>15. CASE UNCHANGED vars
  <2>1. UNCHANGED <<pc, connected, subscribed, drops, published, accepted, kafka>>
    BY <1>15 DEF vars, mqtt
  <2> QED BY <2>1 DEF kafka, IInv, TypeOK, SessionInv, HeldInv, OrderInv, StampInv
<1> QED BY <1>2, <1>3, <1>4, <1>5, <1>6, <1>7, <1>8, <1>9, <1>10, <1>11, <1>12, <1>13,
           <1>14, <1>15 DEF Next

-----------------------------------------------------------------------------
(* How often a message gets to the topic. *)

\* The producer holds a message at most once and counts its attempts: those that are on
\* the topic come before the one it holds, each once.
Once(s) == \A p, q \in DOMAIN s : p # q => s[p].id # s[q].id
Apart(S, T) == \A b \in S, c \in T : b.id # c.id
Earlier(S, T) == \A b \in S, c \in T : b.id = c.id => b.attempts < c.attempts
Rising(s) == \A p, q \in DOMAIN s : p < q /\ s[p].id = s[q].id => s[p].attempts < s[q].attempts

AttemptInv ==
  /\ Rising(topic)
  /\ Once(inflight) /\ Once(queue)
  /\ Apart(ToSet(inflight), ToSet(queue))
  /\ Earlier(ToSet(topic), ToSet(inflight) \cup ToSet(queue))

\* A sequence without its first batch, with one more behind or in front.
LEMMA OnceTail ==
  ASSUME NEW S, NEW s \in Seq(S), s # << >>, Once(s)
  PROVE  Once(Tail(s)) /\ Apart({Head(s)}, ToSet(Tail(s)))
<1>1. Once(Tail(s))
  <2>1. SUFFICES ASSUME NEW p \in DOMAIN Tail(s), NEW q \in DOMAIN Tail(s), p # q
                 PROVE  Tail(s)[p].id # Tail(s)[q].id
    BY DEF Once
  <2>2. /\ p + 1 \in DOMAIN s /\ q + 1 \in DOMAIN s /\ p + 1 # q + 1
        /\ Tail(s)[p] = s[p + 1] /\ Tail(s)[q] = s[q + 1]
    BY <2>1, HeadTail
  <2> QED BY <2>2 DEF Once
<1>2. Apart({Head(s)}, ToSet(Tail(s)))
  <2>1. SUFFICES ASSUME NEW q \in DOMAIN Tail(s)
                 PROVE  Head(s).id # Tail(s)[q].id
    BY DEF Apart, ToSet
  <2>2. /\ q \in Nat /\ q + 1 \in DOMAIN s /\ Tail(s)[q] = s[q + 1]
        /\ Head(s) = s[1] /\ 1 \in DOMAIN s
        /\ DOMAIN Tail(s) = 1..Len(Tail(s)) /\ Len(Tail(s)) \in Nat
    BY <2>1, HeadTail, LenProperties
  <2>3. 1 # q + 1
    BY <2>2
  <2> QED BY <2>2, <2>3 DEF Once
<1> QED BY <1>1, <1>2

LEMMA OnceAppend ==
  ASSUME NEW S, NEW s \in Seq(S), NEW e \in S, Once(s), Apart(ToSet(s), {e})
  PROVE  Once(Append(s, e))
<1> DEFINE t == Append(s, e)
<1>1. \A i \in DOMAIN s : t[i] = s[i] /\ t[i].id # e.id
  BY Behind DEF Apart, ToSet
<1>2. DOMAIN t = DOMAIN s \cup {Len(s) + 1} /\ t[Len(s) + 1] = e
  BY Behind
<1> HIDE DEF t
<1> QED BY <1>1, <1>2 DEF Once, t

LEMMA OncePrepend ==
  ASSUME NEW S, NEW s \in Seq(S), NEW e \in S, Once(s), Apart({e}, ToSet(s))
  PROVE  Once(<<e>> \o s)
<1> DEFINE t == <<e>> \o s
<1>1. /\ t[1] = e
      /\ \A i \in DOMAIN t : i \in Nat /\ (i = 1 \/ (i > 1 /\ i - 1 \in DOMAIN s /\ t[i] = s[i - 1]))
  BY InFront
<1> HIDE DEF t
<1>2. ASSUME NEW i \in DOMAIN t, i # 1 PROVE i - 1 \in DOMAIN s /\ t[i] = s[i - 1] /\ t[i].id # e.id
  <2>1. i - 1 \in DOMAIN s /\ t[i] = s[i - 1]
    BY <1>1, <1>2
  <2> QED BY <2>1 DEF Apart, ToSet
<1>3. ASSUME NEW p \in DOMAIN t, NEW q \in DOMAIN t, p # q PROVE t[p].id # t[q].id
  <2>1. CASE p = 1
    BY <1>1, <1>2, <1>3, <2>1
  <2>2. CASE q = 1
    BY <1>1, <1>2, <1>3, <2>2
  <2>3. CASE p # 1 /\ q # 1
    <3>1. p - 1 # q - 1
      BY <1>1, <1>3
    <3> QED BY <1>2, <2>3, <3>1 DEF Once
  <2> QED BY <2>1, <2>2, <2>3
<1> QED BY <1>3 DEF Once, t

\* The oldest request, stored or not, leaves the connection.
LEMMA AnsweredOnce ==
  ASSUME IInv, AttemptInv, inflight # << >>, inflight' = Tail(inflight),
         topic' \in {topic, WithStored(Head(inflight))}
  PROVE  /\ Rising(topic') /\ Once(inflight')
         /\ Apart({Head(inflight)}, ToSet(inflight') \cup ToSet(queue))
         /\ Apart(ToSet(inflight'), ToSet(queue))
         /\ Earlier(ToSet(topic'), ToSet(inflight') \cup ToSet(queue))
         /\ \A c \in ToSet(topic') : c.id = Head(inflight).id =>
              c.attempts \in Nat /\ c.attempts <= Head(inflight).attempts
<1> DEFINE b == Head(inflight)
<1>1. /\ inflight \in Seq(Batch) /\ b \in Batch /\ b.id \in accepted
      /\ ToSet(inflight) = {b} \cup ToSet(inflight')
  BY Answered, Typed DEF IInv
<1>2. Once(inflight') /\ Apart({b}, ToSet(inflight'))
  BY <1>1, OnceTail DEF AttemptInv
<1>3. Apart({b}, ToSet(inflight') \cup ToSet(queue)) /\ Apart(ToSet(inflight'), ToSet(queue))
  BY <1>1, <1>2 DEF AttemptInv, Apart
<1>4. /\ Earlier(ToSet(topic), ToSet(inflight') \cup ToSet(queue))
      /\ \A c \in ToSet(topic) : c.id = b.id => c.attempts < b.attempts
  BY <1>1 DEF AttemptInv, Earlier
<1>5. \A c \in ToSet(topic) : c.attempts \in Nat
  BY Typed DEF IInv, Item
<1>6. b.attempts \in Nat
  BY <1>1 DEF Batch
<1>7. CASE topic' = topic
  BY <1>2, <1>3, <1>4, <1>5, <1>6, <1>7 DEF AttemptInv
<1>8. CASE topic' = WithStored(b)
  <2>1. PICK e \in Item : topic' = Append(topic, e) /\ e.id = b.id /\ e.attempts = b.attempts
    BY <1>1, <1>8, Stored1 DEF IInv, SessionInv
  <2>2. /\ ToSet(topic') = ToSet(topic) \cup {e}
        /\ DOMAIN topic' = DOMAIN topic \cup {Len(topic) + 1} /\ topic'[Len(topic) + 1] = e
        /\ \A i \in DOMAIN topic : i \in Nat /\ i < Len(topic) + 1 /\ topic'[i] = topic[i]
        /\ Len(topic) \in Nat
    BY <2>1, Behind, Typed DEF IInv
  <2>3. Rising(topic')
    <3>1. SUFFICES ASSUME NEW p \in DOMAIN topic', NEW q \in DOMAIN topic', p < q,
                          topic'[p].id = topic'[q].id
                   PROVE  topic'[p].attempts < topic'[q].attempts
      BY DEF Rising
    <3>2. p \in DOMAIN topic
      BY <2>2, <3>1
    <3>3. CASE q \in DOMAIN topic
      BY <2>2, <3>1, <3>2, <3>3 DEF AttemptInv, Rising
    <3>4. CASE q = Len(topic) + 1
      <4>1. topic[p] \in ToSet(topic) /\ topic[p].id = b.id /\ topic'[p] = topic[p] /\ topic'[q] = e
        BY <2>1, <2>2, <3>1, <3>2, <3>4 DEF ToSet
      <4> QED BY <1>4, <2>1, <4>1
    <3> QED BY <2>2, <3>3, <3>4
  <2>4. Earlier(ToSet(topic'), ToSet(inflight') \cup ToSet(queue))
    BY <1>3, <1>4, <2>1, <2>2 DEF Earlier, Apart
  <2>5. \A c \in ToSet(topic') : c.id = b.id => c.attempts \in Nat /\ c.attempts <= b.attempts
    BY <1>4, <1>5, <1>6, <2>1, <2>2
  <2> QED BY <1>2, <1>3, <2>3, <2>4, <2>5
<1> QED BY <1>7, <1>8

\* Only a batch that leaves the connection unanswered is tried again, and what there is of
\* it on the topic was tried before.
LEMMA AttemptsStep == IInv /\ AttemptInv /\ [Next]_vars => AttemptInv'
<1> SUFFICES ASSUME IInv, AttemptInv, [Next]_vars PROVE AttemptInv'
  OBVIOUS
<1>1. CASE UNCHANGED <<queue, inflight, topic>>
  BY <1>1 DEF AttemptInv
<1>2. CASE OnMessage /\ ~UNCHANGED queue
  <2> DEFINE n == Len(published) + 1
             e == [id |-> n, attempts |-> 0]
  <2>1. PICK r \in Raws : /\ published' = Append(published, r)
                          /\ queue' = Append(queue, [id |-> Len(published'), attempts |-> 0])
    BY <1>2 DEF OnMessage
  <2>2. Len(published') = n /\ n \in Nat /\ Len(published') <= MaxMsgs
    BY <1>2, <2>1, AppendProperties, LenProperties DEF IInv, TypeOK, SessionInv, OnMessage
  <2>3. queue' = Append(queue, e) /\ UNCHANGED <<inflight, topic>> /\ e \in Batch
    BY <1>2, <2>1, <2>2 DEF OnMessage, Batch
  <2>4. \A b \in ToSet(queue) \cup ToSet(inflight) \cup ToSet(topic) : b.id # n
    BY <2>2, Typed DEF IInv, HeldInv
  <2>5. Once(queue')
    <3>1. Apart(ToSet(queue), {e})
      BY <2>4 DEF Apart
    <3> QED BY <2>3, <3>1, OnceAppend, Typed DEF IInv, AttemptInv
  <2>6. ToSet(queue') = ToSet(queue) \cup {e}
    BY <2>3, Behind, Typed DEF IInv
  <2> QED BY <2>3, <2>4, <2>5, <2>6 DEF AttemptInv, Apart, Earlier
<1>3. CASE SendBatch
  <2> DEFINE b == Head(queue)
  <2>1. /\ queue # << >> /\ inflight' = Append(inflight, b) /\ queue' = Tail(queue)
        /\ topic' = topic
    BY <1>3 DEF SendBatch
  <2>2. b \in Batch /\ ToSet(queue) = {b} \cup ToSet(queue')
    BY <2>1, HeadTail, Typed DEF IInv
  <2>3. ToSet(inflight') = ToSet(inflight) \cup {b}
    BY <2>1, <2>2, Behind, Typed DEF IInv
  <2>4. Once(queue') /\ Apart({b}, ToSet(queue'))
    BY <2>1, OnceTail, Typed DEF IInv, AttemptInv
  <2>5. Apart(ToSet(inflight), {b})
    BY <2>2 DEF AttemptInv, Apart
  <2>6. Once(inflight')
    BY <2>1, <2>2, <2>5, OnceAppend, Typed DEF IInv, AttemptInv
  <2>7. Apart(ToSet(inflight'), ToSet(queue'))
    BY <2>2, <2>3, <2>4 DEF AttemptInv, Apart
  <2>8. ToSet(inflight') \cup ToSet(queue') = ToSet(inflight) \cup ToSet(queue)
    BY <2>2, <2>3
  <2> QED BY <2>1, <2>4, <2>6, <2>7, <2>8 DEF AttemptInv
<1>4. CASE Acked
  BY <1>4, AnsweredOnce DEF Acked, AttemptInv
<1>5. CASE Nacked
  <2> DEFINE b == Head(inflight)
             c == [b EXCEPT !.attempts = @ + 1]
  <2>1. /\ inflight # << >> /\ inflight' = Tail(inflight)
        /\ topic' \in {topic, WithStored(b)} /\ Again(b)
    BY <1>5 DEF Nacked
  <2>2. /\ Rising(topic') /\ Once(inflight')
        /\ Apart({b}, ToSet(inflight') \cup ToSet(queue)) /\ Apart(ToSet(inflight'), ToSet(queue))
        /\ Earlier(ToSet(topic'), ToSet(inflight') \cup ToSet(queue))
        /\ \A d \in ToSet(topic') : d.id = b.id => d.attempts \in Nat /\ d.attempts <= b.attempts
    BY <2>1, AnsweredOnce
  <2>3. CASE queue' = queue
    BY <2>2, <2>3 DEF AttemptInv
  <2>4. CASE queue' # queue
    <3>1. b.attempts < Retries /\ queue' = <<c>> \o queue
      BY <2>1, <2>4 DEF Again
    <3>2. b \in Batch
      BY <2>1, Answered DEF IInv
    <3>3. c \in Batch /\ c.id = b.id /\ c.attempts = b.attempts + 1 /\ b.attempts \in Nat
      <4>1. b.attempts \in Nat /\ b.attempts + 1 \in 0..Retries
        BY <3>1, <3>2 DEF Batch
      <4>2. b = [id |-> b.id, attempts |-> b.attempts] /\ b.id \in 1..MaxMsgs
        BY <3>2 DEF Batch
      <4>3. c = [id |-> b.id, attempts |-> b.attempts + 1]
        BY <4>2
      <4> QED BY <4>1, <4>2, <4>3 DEF Batch
    <3>4. queue \in Seq(Batch)
      BY Typed DEF IInv
    <3> HIDE DEF c
    <3>5. ToSet(queue') = {c} \cup ToSet(queue)
      BY <3>1, <3>3, <3>4, InFront
    <3>6. Once(queue')
      <4>1. Apart({c}, ToSet(queue))
        BY <2>2, <3>3 DEF Apart
      <4> QED BY <3>1, <3>3, <3>4, <4>1, OncePrepend DEF AttemptInv
    <3>7. Apart(ToSet(inflight'), ToSet(queue'))
      BY <2>2, <3>3, <3>5 DEF Apart
    <3>8. Earlier(ToSet(topic'), {c})
      BY <2>2, <3>3 DEF Earlier
    <3>9. Earlier(ToSet(topic'), ToSet(inflight') \cup ToSet(queue'))
      BY <2>2, <3>5, <3>8 DEF Earlier
    <3> QED BY <2>2, <3>6, <3>7, <3>9 DEF AttemptInv
  <2> QED BY <2>3, <2>4
<1>6. CASE Kill
  <2>1. topic' = topic /\ queue' = << >> /\ inflight' = << >>
    BY <1>6 DEF Kill
  <2>2. ToSet(queue') = {} /\ ToSet(inflight') = {}
    BY <2>1 DEF ToSet
  <2> QED BY <2>1, <2>2 DEF AttemptInv, Once, Apart, Earlier
<1> QED
  BY <1>1, <1>2, <1>3, <1>4, <1>5, <1>6
  DEF Next, vars, kafka, Boot, BootFails, Restart, Interrupt, Flush, OnConnect, OnDisconnect,
      PublishUnheard, OnMessage

\* A message is on the topic at most once for each attempt.
LEMMA CopiesCounted ==
  ASSUME TypeOK, Rising(topic), NEW i
  PROVE  Cardinality({p \in DOMAIN topic : topic[p].id = i}) <= Retries + 1
<1> DEFINE P == {p \in DOMAIN topic : topic[p].id = i}
           f == [p \in P |-> topic[p].attempts]
<1>1. topic \in Seq(Item) /\ DOMAIN topic = 1..Len(topic) /\ Len(topic) \in Nat
  BY Typed, LenProperties
<1>2. \A p \in P : topic[p].attempts \in 0..Retries
  <2>1. TAKE p \in P
  <2>2. topic[p] \in Item
    BY <1>1, ElementOfSeq
  <2> QED BY <2>2 DEF Item
<1>3. f \in Injection(P, 0..Retries)
  <2>1. ASSUME NEW p \in P, NEW q \in P, p # q PROVE topic[p].attempts # topic[q].attempts
    <3>1. p \in Nat /\ q \in Nat
      BY <1>1
    <3>2. CASE p < q
      BY <1>2, <3>2 DEF Rising
    <3>3. CASE q < p
      BY <1>2, <3>3 DEF Rising
    <3> QED BY <2>1, <3>1, <3>2, <3>3
  <2>2. f \in [P -> 0..Retries]
    BY <1>2
  <2>3. \A p, q \in P : f[p] = f[q] => p = q
    BY <2>1
  <2> HIDE DEF f, P
  <2> QED BY <2>2, <2>3 DEF Injection, IsInjective
<1>4. IsFiniteSet(0..Retries) /\ Cardinality(0..Retries) = Retries + 1
  BY FS_Interval
<1> QED
  BY <1>3, <1>4, FS_Injection

-----------------------------------------------------------------------------
(* The results. *)

\* Batches, messages and the session agree at every step, whatever is lost, repeated or
\* killed.
THEOREM MqttInvariant == Spec => []IInv
<1>1. Init => IInv
  BY InitHolds
<1>2. IInv /\ [Next]_vars => IInv'
  BY StepHolds
<1> QED BY <1>1, <1>2, PTL DEF Spec

\* What the producer holds and what is on the topic agree on the attempts.
THEOREM AttemptsCounted == Spec => []AttemptInv
<1>1. Init => AttemptInv
  BY DEF Init, AttemptInv, Rising, Once, Apart, Earlier, ToSet
<1>2. IInv /\ AttemptInv /\ [Next]_vars => AttemptInv'
  BY AttemptsStep
<1> QED BY <1>1, <1>2, MqttInvariant, PTL DEF Spec

\* A message is overtaken on the topic only by its own retry, and is there at most once for
\* each attempt: the producer's retries, with any number of requests in flight, are all
\* that reorders or doubles.
THEOREM RetriesReorder == Spec => []OnlyRetriesReorder
<1>1. IInv /\ AttemptInv => OnlyRetriesReorder
  <2> SUFFICES ASSUME IInv, AttemptInv PROVE OnlyRetriesReorder
    OBVIOUS
  <2>1. ASSUME NEW p \in DOMAIN topic, NEW q \in DOMAIN topic, p < q, topic[p].id >= topic[q].id
        PROVE  topic[q].attempts > 0
    <3>1. topic[p] \in Item /\ topic[q] \in Item
      BY <2>1, Typed DEF IInv, ToSet
    <3>2. topic[q].attempts # 0
      BY <2>1, <3>1 DEF IInv, OrderInv, Sorted, Item
    <3> QED BY <3>1, <3>2 DEF Item
  <2>2. \A i \in accepted : Cardinality({p \in DOMAIN topic : topic[p].id = i}) <= Retries + 1
    BY CopiesCounted DEF IInv, AttemptInv
  <2> QED BY <2>1, <2>2 DEF OnlyRetriesReorder
<1> QED BY <1>1, MqttInvariant, AttemptsCounted, PTL

\* An accepted message is held, stored, given up or was killed with the process, and a
\* keyboard interrupt leaves none in the producer.
THEOREM MessagesAccountedFor == Spec => []NothingVanishes
<1>1. IInv => NothingVanishes
  <2>1. SUFFICES ASSUME IInv PROVE NothingVanishes
    OBVIOUS
  <2>2. ASSUME NEW i \in accepted
        PROVE  i \in Held \/ Stored(i) \/ i \in givenUp \/ i \in killed
    BY <2>1, <2>2 DEF IInv, HeldInv, Held, Stored, ToSet
  <2>3. pc = "done" => Held = {}
    BY <2>1 DEF IInv, HeldInv, Held, ToSet
  <2> QED BY <2>2, <2>3 DEF NothingVanishes
<1> QED BY <1>1, MqttInvariant, PTL

\* Times a device may give: of an uptime, at most 12 digits; of a wall clock of our time,
\* 10 in seconds, 13 in milliseconds, 16 in microseconds or 19 in nanoseconds.
Dated(r) ==
  {r.timestamp, r.timestamp_ms} \subseteq {None, Text} \cup {Num(d) : d \in 1..13 \cup {16, 19}}

\* Whatever of these units devices count in, the consumer reads every stamp on the topic
\* as a wall clock in nanoseconds, and no uptime as one.
THEOREM StampsAreWallClocks ==
  ASSUME \A r \in Raws : Dated(r)
  PROVE  Spec => []StampIsWallClock
<1>1. ASSUME NEW r \in Raws, NEW t, t = Normalized(r), t # Text
      PROVE  Parse(t[2]) = 19
  <2>1. t \in {Num(d) : d \in {13, 16, 19}}
    <3>1. CASE ~NeedsClock(r)
      <4>1. t = r.timestamp /\ t # None /\ ~(\E d \in 1..12 : t = Num(d))
        BY <1>1, <3>1 DEF Normalized, NeedsClock, NumWith
      <4>2. t \in {None, Text} \cup {Num(d) : d \in 1..13 \cup {16, 19}}
        BY <4>1 DEF Dated
      <4>3. PICK d \in 1..13 \cup {16, 19} : t = Num(d)
        BY <1>1, <4>1, <4>2
      <4>4. d \in {13, 16, 19}
        BY <4>1, <4>3
      <4> QED BY <4>3, <4>4
    <3>2. CASE NeedsClock(r) /\ NumWith(r.timestamp_ms, 13..20)
      <4>1. t = r.timestamp_ms
        BY <1>1, <3>2 DEF Normalized
      <4>2. PICK d \in 13..20 : t = Num(d)
        BY <3>2, <4>1 DEF NumWith
      <4>3. t \in {None, Text} \cup {Num(e) : e \in 1..13 \cup {16, 19}}
        BY <4>1 DEF Dated
      <4>4. t # None
        BY <4>2 DEF None, Num
      <4>5. PICK e \in 1..13 \cup {16, 19} : t = Num(e)
        BY <1>1, <4>3, <4>4
      <4>6. d = e
        BY <4>2, <4>5 DEF Num
      <4>7. d \in {13, 16, 19}
        BY <4>6
      <4> QED BY <4>2, <4>7
    <3>3. CASE NeedsClock(r) /\ ~NumWith(r.timestamp_ms, 13..20)
      BY <1>1, <3>3 DEF Normalized, Now
    <3> QED BY <3>1, <3>2, <3>3
  <2>2. PICK d \in {13, 16, 19} : t = Num(d)
    BY <2>1
  <2>3. t[2] = d
    BY <2>2 DEF Num
  <2> QED BY <2>2, <2>3 DEF Parse
<1>2. IInv => StampIsWallClock
  BY <1>1 DEF IInv, StampInv, StampIsWallClock, ToSet
<1> QED BY <1>2, MqttInvariant, PTL
=============================================================================
