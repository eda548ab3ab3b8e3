------------------------- MODULE ConsumerLedgerProofs -------------------------
(***************************************************************************)
(* What the attendance consumer owes to whoever publishes and to whoever   *)
(* reads the table, for every set of messages and employees and every      *)
(* bound: nothing is lost, only hopeless messages are buried, and, with    *)
(* one publisher and one delivery outstanding, the departure is the        *)
(* latest, a redelivery changes nothing, and the consumer implements the   *)
(* ledger of DayLedger.                                                    *)
(***************************************************************************)
EXTENDS ConsumerLedger, AttendanceConsumerProofs

-----------------------------------------------------------------------------
(* Sequences by their positions.                                            *)

\* What is appended comes last and moves nothing.
LEMMA AppendAt ==
    ASSUME NEW S, NEW s \in Seq(S), NEW x \in S
    PROVE  /\ DOMAIN Append(s, x) = DOMAIN s \cup {Len(s) + 1}
           /\ \A i \in DOMAIN s : Append(s, x)[i] = s[i]
           /\ Append(s, x)[Len(s) + 1] = x
           /\ Len(s) + 1 \notin DOMAIN s
           /\ Len(s) \in Nat /\ DOMAIN s = 1 .. Len(s)
BY AppendProperties, LenProperties

\* What follows the head moves up by one place.
LEMMA TailAt ==
    ASSUME NEW S, NEW s \in Seq(S), s # <<>>
    PROVE  /\ Tail(s) \in Seq(S)
           /\ Head(s) = s[1] /\ 1 \in DOMAIN s
           /\ Len(s) \in Nat \ {0} /\ DOMAIN s = 1 .. Len(s)
           /\ DOMAIN Tail(s) = 1 .. Len(s) - 1
           /\ \A i \in DOMAIN Tail(s) : Tail(s)[i] = s[i + 1]
<1>1. /\ Tail(s) \in Seq(S)
      /\ Len(Tail(s)) = Len(s) - 1
      /\ \A i \in 1 .. Len(Tail(s)) : Tail(s)[i] = s[i + 1]
  BY HeadTailProperties
<1>2. Len(s) \in Nat \ {0} /\ DOMAIN s = 1 .. Len(s) /\ Head(s) = s[1]
  BY EmptySeq, LenProperties DEF Head
<1>3. DOMAIN Tail(s) = 1 .. Len(Tail(s))
  BY <1>1, LenProperties
<1>4. QED
  BY <1>1, <1>2, <1>3

\* The deliveries come first, in their order, without their tags; then the rest.
LEMMA RequeuedAt ==
    ASSUME TypeOK, NEW ds \in Seq(Delivery)
    PROVE  /\ Len(ds) \in Nat /\ DOMAIN ds = 1 .. Len(ds)
           /\ Len(queue) \in Nat /\ DOMAIN queue = 1 .. Len(queue)
           /\ DOMAIN Requeued(ds) = 1 .. Len(ds) + Len(queue)
           /\ \A i \in DOMAIN ds :
                 Requeued(ds)[i] = [msg |-> ds[i].msg, keyed |-> ds[i].keyed]
           /\ \A i \in DOMAIN queue : Requeued(ds)[Len(ds) + i] = queue[i]
<1> DEFINE e(i) == [msg |-> ds[i].msg, keyed |-> ds[i].keyed]
           front == [i \in DOMAIN ds |-> e(i)]
<1>1. Len(ds) \in Nat /\ DOMAIN ds = 1 .. Len(ds)
  BY LenProperties
<1>2. queue \in Seq(Entry) /\ Len(queue) \in Nat /\ DOMAIN queue = 1 .. Len(queue)
  BY LenProperties DEF TypeOK
<1>3. \A i \in 1 .. Len(ds) : e(i) \in Entry
  <2>1. \A i \in 1 .. Len(ds) : ds[i] \in Delivery
    BY ElementOfSeq
  <2>2. QED
    BY <2>1 DEF Delivery, Entry
<1> HIDE DEF e
<1>4. front \in Seq(Entry) /\ Len(front) = Len(ds)
  BY <1>1, <1>3, IsASeq, LenProperties
<1>5. \A i \in DOMAIN ds : front[i] = e(i)
  OBVIOUS
<1> HIDE DEF front
<1>6. /\ Len(front \o queue) = Len(front) + Len(queue)
      /\ front \o queue \in Seq(Entry)
      /\ \A i \in 1 .. Len(front) + Len(queue) :
            (front \o queue)[i] = IF i <= Len(front) THEN front[i]
                                                     ELSE queue[i - Len(front)]
  BY <1>2, <1>4, ConcatProperties
<1>7. DOMAIN (front \o queue) = 1 .. Len(ds) + Len(queue)
  BY <1>4, <1>6, LenProperties
<1>8. \A i \in DOMAIN ds : (front \o queue)[i] = e(i)
  BY <1>1, <1>2, <1>4, <1>5, <1>6
<1>9. \A i \in DOMAIN queue : (front \o queue)[Len(ds) + i] = queue[i]
  BY <1>1, <1>2, <1>4, <1>6
<1>10. Requeued(ds) = front \o queue
  BY DEF Requeued, front, e
<1>11. QED
  BY <1>1, <1>2, <1>7, <1>8, <1>9, <1>10 DEF e

-----------------------------------------------------------------------------
(* Who waits after a step.                                                  *)

Queued(m) == \E i \in DOMAIN queue : queue[i].msg = m

\* In the queue, or handed out behind the delivery in hand.
Elsewhere(m) ==
    \/ Queued(m)
    \/ \E i \in 2 .. Len(unacked) : unacked[i].msg = m

\* A published message waits, and so does everyone who did.
LEMMA EnqueueWaits ==
    ASSUME TypeOK, NEW m \in Messages, NEW k \in BOOLEAN, Enqueue(m, k)
    PROVE  /\ \A n : Queued(n)' <=> Queued(n) \/ n = m
           /\ \A n : Waiting(n)' <=> Waiting(n) \/ n = m
           /\ \A n : Elsewhere(n) => Elsewhere(n)'
<1> DEFINE x == [msg |-> m, keyed |-> k]
<1>1. x \in Entry /\ queue \in Seq(Entry) /\ x.msg = m
  BY DEF Entry, TypeOK
<1>2. queue' = Append(queue, x) /\ unacked' = unacked
  BY DEF Enqueue
<1> HIDE DEF x
<1>3. /\ DOMAIN queue' = DOMAIN queue \cup {Len(queue) + 1}
      /\ \A i \in DOMAIN queue : queue'[i] = queue[i]
      /\ queue'[Len(queue) + 1] = x
  BY <1>1, <1>2, AppendAt
<1>4. \A n : Queued(n)' <=> Queued(n) \/ n = m
  BY <1>1, <1>3 DEF Queued
<1>5. QED
  BY <1>2, <1>4 DEF Queued, Waiting, Elsewhere

\* A broken connection puts every delivery back into the queue.
LEMMA DisconnectWaits ==
    ASSUME TypeOK, Disconnect
    PROVE  /\ \A n : Queued(n)' <=> Waiting(n)
           /\ \A n : Waiting(n)' <=> Waiting(n)
<1>1. unacked \in Seq(Delivery)
  BY DEF TypeOK
<1>2. queue' = Requeued(unacked) /\ unacked' = <<>>
  BY DEF Disconnect
<1>3. /\ Len(unacked) \in Nat /\ DOMAIN unacked = 1 .. Len(unacked)
      /\ Len(queue) \in Nat /\ DOMAIN queue = 1 .. Len(queue)
      /\ DOMAIN queue' = 1 .. Len(unacked) + Len(queue)
      /\ \A i \in DOMAIN unacked : queue'[i].msg = unacked[i].msg
      /\ \A i \in DOMAIN queue : queue'[Len(unacked) + i] = queue[i]
  <2> DEFINE q == Requeued(unacked)
  <2>1. /\ Len(unacked) \in Nat /\ DOMAIN unacked = 1 .. Len(unacked)
        /\ Len(queue) \in Nat /\ DOMAIN queue = 1 .. Len(queue)
        /\ DOMAIN q = 1 .. Len(unacked) + Len(queue)
        /\ \A i \in DOMAIN unacked :
              q[i] = [msg |-> unacked[i].msg, keyed |-> unacked[i].keyed]
        /\ \A i \in DOMAIN queue : q[Len(unacked) + i] = queue[i]
    BY <1>1, RequeuedAt
  <2>2. queue' = q
    BY <1>2
  <2> HIDE DEF q
  <2>3. ASSUME NEW i \in DOMAIN unacked PROVE q[i].msg = unacked[i].msg
    <3>1. q[i] = [msg |-> unacked[i].msg, keyed |-> unacked[i].keyed]
      BY <2>1
    <3>2. QED
      BY <3>1, SMT
  <2>4. QED
    BY <2>1, <2>2, <2>3
<1>4. ASSUME NEW n, Queued(n)' PROVE Waiting(n)
  <2>1. PICK i \in DOMAIN queue' : queue'[i].msg = n
    BY <1>4 DEF Queued
  <2>2. CASE i \in DOMAIN unacked
    BY <1>3, <2>1, <2>2 DEF Waiting
  <2>3. CASE i \notin DOMAIN unacked
    <3>1. i - Len(unacked) \in DOMAIN queue /\ i = Len(unacked) + (i - Len(unacked))
      BY <1>3, <2>1, <2>3
    <3>2. QED
      BY <1>3, <2>1, <3>1 DEF Waiting
  <2>4. QED
    BY <2>2, <2>3
<1>5. ASSUME NEW n, Waiting(n) PROVE Queued(n)'
  <2>1. CASE \E i \in DOMAIN unacked : unacked[i].msg = n
    <3>1. PICK i \in DOMAIN unacked : unacked[i].msg = n
      BY <2>1
    <3>2. i \in DOMAIN queue'
      BY <1>3
    <3>3. QED
      BY <1>3, <3>1, <3>2 DEF Queued
  <2>2. CASE Queued(n)
    <3>1. PICK i \in DOMAIN queue : queue[i].msg = n
      BY <2>2 DEF Queued
    <3>2. Len(unacked) + i \in DOMAIN queue'
      BY <1>3
    <3>3. QED
      BY <1>3, <3>1, <3>2 DEF Queued
  <2>3. QED
    BY <1>5, <2>1, <2>2 DEF Waiting, Queued
<1>6. \A n : Waiting(n)' <=> Queued(n)'
  BY <1>2 DEF Waiting, Queued
<1>7. QED
  BY <1>4, <1>5, <1>6

\* A delivery only moves from the queue to the channel, behind those before it.
LEMMA DeliverWaits ==
    ASSUME TypeOK, Deliver
    PROVE  /\ \A n : Waiting(n)' <=> Waiting(n)
           /\ unacked # <<>> => \A n : Elsewhere(n) => Elsewhere(n)'
<1> DEFINE d == [msg |-> Head(queue).msg, keyed |-> Head(queue).keyed, tag |-> nextTag]
<1>1. queue \in Seq(Entry) /\ queue # <<>> /\ unacked \in Seq(Delivery)
  BY DEF TypeOK, Deliver
<1>2. Head(queue) \in Entry
  BY <1>1, HeadTailProperties
<1>3. d \in Delivery /\ d.msg = Head(queue).msg
  BY <1>2 DEF Entry, Delivery, TypeOK
<1>4. unacked' = Append(unacked, d) /\ queue' = Tail(queue)
  BY DEF Deliver
<1> HIDE DEF d
<1>5. /\ Head(queue) = queue[1] /\ 1 \in DOMAIN queue
      /\ Len(queue) \in Nat \ {0} /\ DOMAIN queue = 1 .. Len(queue)
      /\ DOMAIN queue' = 1 .. Len(queue) - 1
      /\ \A i \in DOMAIN queue' : queue'[i] = queue[i + 1]
  BY <1>1, <1>4, TailAt
<1>6. /\ DOMAIN unacked' = DOMAIN unacked \cup {Len(unacked) + 1}
      /\ \A i \in DOMAIN unacked : unacked'[i] = unacked[i]
      /\ unacked'[Len(unacked) + 1] = d
      /\ Len(unacked) \in Nat /\ DOMAIN unacked = 1 .. Len(unacked)
      /\ Len(unacked') = Len(unacked) + 1
  BY <1>1, <1>3, <1>4, AppendAt, AppendProperties
<1>7. \A n : Queued(n) <=> n = d.msg \/ Queued(n)'
  <2>1. ASSUME NEW n, Queued(n), n # d.msg PROVE Queued(n)'
    <3>1. PICK i \in DOMAIN queue : queue[i].msg = n
      BY <2>1 DEF Queued
    <3>2. i # 1
      BY <1>3, <1>5, <2>1, <3>1
    <3>3. i - 1 \in DOMAIN queue' /\ queue'[i - 1] = queue[i]
      BY <1>5, <3>2
    <3>4. QED
      BY <3>1, <3>3 DEF Queued
  <2>2. ASSUME NEW n, Queued(n)' PROVE Queued(n)
    <3>1. PICK i \in DOMAIN queue' : queue'[i].msg = n
      BY <2>2 DEF Queued
    <3>2. i + 1 \in DOMAIN queue /\ queue[i + 1].msg = n
      BY <1>5, <3>1
    <3>3. QED
      BY <3>2 DEF Queued
  <2>3. Queued(d.msg)
    BY <1>3, <1>5 DEF Queued
  <2>4. QED
    BY <2>1, <2>2, <2>3
<1>8. \A n : (\E i \in DOMAIN unacked' : unacked'[i].msg = n)
               <=> n = d.msg \/ \E i \in DOMAIN unacked : unacked[i].msg = n
  BY <1>6
<1>9. ASSUME unacked # <<>>, NEW n, Elsewhere(n) PROVE Elsewhere(n)'
  <2>1. Len(unacked) # 0
    BY <1>1, <1>9, EmptySeq
  <2>2. CASE \E i \in 2 .. Len(unacked) : unacked[i].msg = n
    <3>1. PICK i \in 2 .. Len(unacked) : unacked[i].msg = n
      BY <2>2
    <3>2. i \in 2 .. Len(unacked') /\ unacked'[i] = unacked[i]
      BY <1>6
    <3>3. QED
      BY <3>1, <3>2 DEF Elsewhere
  <2>3. CASE Queued(n)'
    BY <2>3 DEF Elsewhere
  <2>4. CASE n = d.msg
    <3>1. Len(unacked) + 1 \in 2 .. Len(unacked')
      BY <1>6, <2>1
    <3>2. QED
      BY <1>6, <2>4, <3>1 DEF Elsewhere
  <2>5. QED
    BY <1>7, <1>9, <2>2, <2>3, <2>4 DEF Elsewhere
<1>10. QED
  BY <1>7, <1>8, <1>9 DEF Waiting, Queued

\* Whoever is in the line besides the oldest delivery stays when that is settled.
LEMMA SettleWaits ==
    ASSUME TypeOK, unacked # <<>>, unacked' = Tail(unacked), queue' = queue
    PROVE  /\ \A n : Waiting(n) => n = Head(unacked).msg \/ Waiting(n)'
           /\ \A n : Elsewhere(n) => Waiting(n)'
           /\ \A n : Waiting(n)' => Waiting(n)
<1>1. unacked \in Seq(Delivery)
  BY DEF TypeOK
<1>2. /\ Head(unacked) = unacked[1] /\ 1 \in DOMAIN unacked
      /\ Len(unacked) \in Nat \ {0} /\ DOMAIN unacked = 1 .. Len(unacked)
      /\ DOMAIN unacked' = 1 .. Len(unacked) - 1
      /\ \A i \in DOMAIN unacked' : unacked'[i] = unacked[i + 1]
  BY <1>1, TailAt
<1>3. \A i \in 2 .. Len(unacked) :
          i - 1 \in DOMAIN unacked' /\ unacked'[i - 1] = unacked[i]
  BY <1>2
<1>4. \A n : Elsewhere(n) => Waiting(n)'
  BY <1>3 DEF Elsewhere, Waiting, Queued
<1>5. \A n : Waiting(n) => n = Head(unacked).msg \/ Elsewhere(n)
  <2>1. \A i \in DOMAIN unacked : i = 1 \/ i \in 2 .. Len(unacked)
    BY <1>2
  <2>2. QED
    BY <1>2, <2>1 DEF Elsewhere, Waiting, Queued
<1>6. \A i \in DOMAIN unacked' : i + 1 \in DOMAIN unacked
  BY <1>2
<1>7. ASSUME NEW n, Waiting(n)' PROVE Waiting(n)
  <2>1. CASE \E i \in DOMAIN unacked' : unacked'[i].msg = n
    BY <1>2, <1>6, <2>1 DEF Waiting
  <2>2. QED
    BY <1>7, <2>1 DEF Waiting
<1>8. QED
  BY <1>4, <1>5, <1>7, SMT

\* A rejected delivery goes back to the head of the queue.
LEMMA NackWaits ==
    ASSUME TypeOK, unacked # <<>>, unacked' = Tail(unacked),
           queue' = Requeued(<<Head(unacked)>>)
    PROVE  \A n : Waiting(n)' <=> Waiting(n)
<1>0. PICK h : h = Head(unacked)
  OBVIOUS
<1>1. unacked \in Seq(Delivery)
  BY DEF TypeOK
<1>2. /\ h = unacked[1] /\ 1 \in DOMAIN unacked
      /\ Len(unacked) \in Nat \ {0} /\ DOMAIN unacked = 1 .. Len(unacked)
      /\ DOMAIN unacked' = 1 .. Len(unacked) - 1
      /\ \A i \in DOMAIN unacked' : unacked'[i] = unacked[i + 1]
  BY <1>0, <1>1, TailAt
<1>3. h \in Delivery
  BY <1>0, <1>1, HeadTailProperties
<1>4. <<h>> \in Seq(Delivery) /\ Len(<<h>>) = 1 /\ DOMAIN <<h>> = {1} /\ <<h>>[1] = h
  BY <1>3
<1>5. queue' = Requeued(<<h>>)
  BY <1>0
<1>6. /\ Len(queue) \in Nat /\ DOMAIN queue = 1 .. Len(queue)
      /\ DOMAIN queue' = 1 .. 1 + Len(queue)
      /\ queue'[1].msg = h.msg
      /\ \A i \in DOMAIN queue : queue'[1 + i] = queue[i]
  <2> DEFINE ds == <<h>>
             q == Requeued(ds)
  <2>1. queue' = q /\ ds \in Seq(Delivery) /\ Len(ds) = 1 /\ DOMAIN ds = {1} /\ ds[1] = h
    BY <1>4, <1>5
  <2> HIDE DEF ds
  <2>2. /\ Len(queue) \in Nat /\ DOMAIN queue = 1 .. Len(queue)
        /\ DOMAIN q = 1 .. Len(ds) + Len(queue)
        /\ \A i \in DOMAIN ds : q[i] = [msg |-> ds[i].msg, keyed |-> ds[i].keyed]
        /\ \A i \in DOMAIN queue : q[Len(ds) + i] = queue[i]
    BY <2>1, RequeuedAt
  <2> HIDE DEF q
  <2>3. q[1].msg = h.msg
    BY <2>1, <2>2
  <2>4. QED
    BY <2>1, <2>2, <2>3
<1>7. \A n : Queued(n)' <=> n = h.msg \/ Queued(n)
  <2>1. \A i \in DOMAIN queue : 1 + i \in DOMAIN queue'
    BY <1>6
  <2>2. \A i \in DOMAIN queue' : i = 1 \/ (i - 1 \in DOMAIN queue /\ 1 + (i - 1) = i)
    BY <1>6
  <2>3. 1 \in DOMAIN queue'
    BY <1>6
  <2>4. ASSUME NEW n, Queued(n)' PROVE n = h.msg \/ Queued(n)
    BY <1>6, <2>2, <2>4 DEF Queued
  <2>5. ASSUME NEW n, Queued(n) PROVE Queued(n)'
    BY <1>6, <2>1, <2>5 DEF Queued
  <2>6. Queued(h.msg)'
    BY <1>6, <2>3 DEF Queued
  <2>7. QED
    BY <2>4, <2>5, <2>6
<1>8. \A n : (\E i \in DOMAIN unacked : unacked[i].msg = n)
               <=> n = h.msg \/ \E i \in DOMAIN unacked' : unacked'[i].msg = n
  <2>1. \A i \in DOMAIN unacked' : i + 1 \in DOMAIN unacked
    BY <1>2
  <2>2. \A i \in DOMAIN unacked :
            i = 1 \/ (i - 1 \in DOMAIN unacked' /\ unacked'[i - 1] = unacked[i])
    BY <1>2
  <2>3. QED
    BY <1>2, <2>1, <2>2
<1>9. QED
  BY <1>7, <1>8 DEF Waiting, Queued

-----------------------------------------------------------------------------
(* Nothing is lost.                                                         *)

Safe(m) == m \in applied \/ Covered(m)

\* What is about to be acknowledged is written, covered, parked or elsewhere in line.
AcknowledgedIsSafe ==
    /\ pc = "ack" => Safe(current.msg)
    /\ pc = "buryAck" /\ link = "up" =>
           current.msg \in deadLetters \/ Elsewhere(current.msg)

LossInv == NothingLost /\ AcknowledgedIsSafe

\* A message is as safe as it was: nothing that was written is forgotten.
LEMMA SafeStays ==
    ASSUME Next, NEW m, Safe(m)
    PROVE  Safe(m)'
<1>1. applied \subseteq applied'
  BY DEF Next, Environment, Handle, Publish, PublishAgain, Replay, DeleteRow,
         ChangeStaff, DropLink, Crash, Stop, Connect, Deliver, Halt, Dispatch,
         LookupCached, LookupQueried, Read, DatabaseFails, InsertRow, UpdateRow,
         Commit, UpdateTouchesNothing, Ack, Retry, Nack, Bury, BuryAck, Goto,
         history
<1>2. QED
  BY <1>1 DEF Safe, Covered

\* A punch is skipped only where a row of its day, hence a written punch, is near.
LEMMA SkippedIsCovered ==
    ASSUME TypeOK, RowsComeFromPunches, Read, decision'.act = "skip"
    PROVE  Covered(current.msg)
<1> DEFINE m == current.msg
           rows == DayRows(m)
<1>1. decision' = Decide(rows, LocalTime(m))
  BY DEF Read
<1>2. \E i \in DOMAIN rows : Distance(LocalTime(m), rows[i]) < Gap
  BY <1>1 DEF Decide, Insert, Update
<1>3. PICK i \in DayIds(EmployeeOf[m], DayOf(m)) :
          Distance(LocalTime(m), table[i].at) < Gap
  BY <1>2 DEF DayRows
<1>4. PICK n \in applied : table[i] = RowFor(n)
  BY <1>3 DEF RowsComeFromPunches, DayIds
<1>5. /\ EmployeeOf[n] = EmployeeOf[m]
      /\ DayOf(n) = DayOf(m)
      /\ table[i].at = Stored(LocalTime(n))
  BY <1>3, <1>4 DEF DayIds, RowFor
<1>6. QED
  BY <1>3, <1>5 DEF Covered

\* The steps of the environment and of the broker.
LEMMA LossEnvironment ==
    ASSUME TypeOK, DeliveryInHand, LossInv,
           Environment \/ Connect \/ Deliver \/ Halt
    PROVE  LossInv'
<1> USE DEF broker, memory, erp, history, Safe
<1>0. \A m \in published : Waiting(m) \/ m \in deadLetters \/ Safe(m)
  BY DEF LossInv, NothingLost
<1>1. ASSUME NEW m \in Messages, Publish(m) \/ PublishAgain(m) \/ Replay(m)
      PROVE  LossInv'
  <2>1. PICK k \in BOOLEAN : Enqueue(m, k)
    BY <1>1 DEF Publish, PublishAgain, Replay
  <2>2. /\ \A n : Waiting(n)' <=> Waiting(n) \/ n = m
        /\ \A n : Elsewhere(n) => Elsewhere(n)'
        /\ Elsewhere(m)'
    BY <2>1, EnqueueWaits DEF Elsewhere
  <2>3. /\ published' \subseteq published \cup {m}
        /\ deadLetters \subseteq deadLetters' \cup {m}
        /\ UNCHANGED <<applied, pc, link, current>>
    BY <1>1, <2>1 DEF Publish, PublishAgain, Replay, Enqueue
  <2>4. NothingLost'
    BY <1>0, <2>2, <2>3 DEF NothingLost, Covered
  <2>5. AcknowledgedIsSafe'
    BY <2>2, <2>3 DEF LossInv, AcknowledgedIsSafe, Covered
  <2>6. QED
    BY <2>4, <2>5 DEF LossInv
<1>2. ASSUME UNCHANGED <<queue, unacked, link, pc, current, applied, published,
                         deadLetters>>
      PROVE  LossInv'
  BY <1>2 DEF LossInv, NothingLost, AcknowledgedIsSafe, Covered, Waiting, Elsewhere, Queued
<1>3. CASE DropLink \/ Crash \/ Halt
  <2>1. /\ \A n : Waiting(n)' <=> Waiting(n)
        /\ link' = "down"
        /\ UNCHANGED <<published, deadLetters, applied>>
        /\ pc' = "ack" => pc = "ack" /\ current' = current
    BY <1>3, DisconnectWaits DEF DropLink, Crash, Halt, Disconnect
  <2>2. QED
    BY <1>0, <2>1 DEF LossInv, NothingLost, AcknowledgedIsSafe, Covered
<1>4. CASE Deliver
  <2>1. /\ \A n : Waiting(n)' <=> Waiting(n)
        /\ unacked # <<>> => \A n : Elsewhere(n) => Elsewhere(n)'
    BY <1>4, DeliverWaits
  <2>2. /\ link = "up"
        /\ UNCHANGED <<published, deadLetters, applied, pc, current, link>>
    BY <1>4 DEF Deliver
  <2>3. pc = "buryAck" => unacked # <<>>
    BY <2>2 DEF DeliveryInHand, Steps
  <2>4. QED
    BY <1>0, <2>1, <2>2, <2>3 DEF LossInv, NothingLost, AcknowledgedIsSafe, Covered
<1>5. CASE Connect
  <2>1. /\ UNCHANGED <<queue, unacked, applied, published, deadLetters>>
        /\ pc' = "idle"
    BY <1>5 DEF Connect
  <2>2. QED
    BY <2>1 DEF LossInv, NothingLost, AcknowledgedIsSafe, Covered, Waiting
<1>6. CASE \/ \E i \in DOMAIN table : DeleteRow(i)
           \/ \E e \in Employees : ChangeStaff(e)
           \/ Stop
  BY <1>2, <1>6 DEF DeleteRow, ChangeStaff, Stop
<1>7. QED
  BY <1>1, <1>3, <1>4, <1>5, <1>6 DEF Environment

\* The steps of the consumer's thread.
LEMMA LossHandle ==
    ASSUME ~LossyDeadLetter, TypeOK, DeliveryInHand, RowsComeFromPunches, LossInv, Handle
    PROVE  LossInv'
<1> USE DEF broker, memory, erp, history
<1>0. /\ \A m \in published : Waiting(m) \/ m \in deadLetters \/ Safe(m)
      /\ \A m : Safe(m) => Safe(m)'
  BY SafeStays DEF LossInv, NothingLost, Safe, Next
<1>1. ASSUME UNCHANGED <<queue, unacked, published>>, deadLetters \subseteq deadLetters'
      PROVE  NothingLost'
  BY <1>0, <1>1 DEF NothingLost, Waiting, Safe
<1>2. CASE Dispatch \/ LookupCached \/ LookupQueried \/ DatabaseFails
           \/ UpdateTouchesNothing \/ Retry
  <2>1. /\ UNCHANGED <<queue, unacked, published, deadLetters>>
        /\ pc' \notin {"ack", "buryAck"}
    BY <1>2 DEF Dispatch, LookupCached, LookupQueried, DatabaseFails,
        UpdateTouchesNothing, Retry, Goto, AfterLookup
  <2>2. QED
    BY <1>1, <2>1 DEF LossInv, AcknowledgedIsSafe
<1>3. CASE Read
  <2>1. /\ UNCHANGED <<queue, unacked, published, deadLetters, current, applied>>
        /\ pc' # "buryAck"
        /\ pc' = "ack" => decision'.act = "skip"
    BY <1>3 DEF Read, Goto
  <2>2. pc' = "ack" => Covered(current.msg)
    BY <1>3, <2>1, SkippedIsCovered
  <2>3. QED
    BY <1>1, <2>1, <2>2 DEF LossInv, AcknowledgedIsSafe, Safe, Covered
<1>4. CASE InsertRow \/ UpdateRow
  <2>1. /\ UNCHANGED <<queue, unacked, published, deadLetters, current>>
        /\ current.msg \in applied'
        /\ pc' # "buryAck"
    BY <1>4 DEF InsertRow, UpdateRow, Commit
  <2>2. QED
    BY <1>1, <2>1 DEF LossInv, AcknowledgedIsSafe, Safe
<1>5. CASE Bury
  <2>1. /\ UNCHANGED <<queue, unacked, published, link, current>>
        /\ deadLetters \subseteq deadLetters'
        /\ pc' = "buryAck"
        /\ link = "up" => current.msg \in deadLetters'
    BY <1>5 DEF Bury
  <2>2. QED
    BY <1>1, <2>1 DEF LossInv, AcknowledgedIsSafe
<1>6. CASE (Ack \/ BuryAck) /\ LeaveBroken
  <2>1. /\ UNCHANGED <<queue, unacked, published, deadLetters>>
        /\ pc' = "down"
    BY <1>6 DEF Ack, BuryAck, LeaveBroken
  <2>2. QED
    BY <1>1, <2>1 DEF LossInv, AcknowledgedIsSafe
<1>7. CASE (Ack \/ BuryAck) /\ link = "up" /\ unacked' = Tail(unacked) /\ pc' = "idle"
           /\ queue' = queue
  <2>1. /\ unacked # <<>> /\ Head(unacked) = current
        /\ UNCHANGED <<published, deadLetters>>
    BY <1>7 DEF Ack, BuryAck, DeliveryInHand, Steps
  <2>2. /\ \A n : Waiting(n) => n = current.msg \/ Waiting(n)'
        /\ \A n : Elsewhere(n) => Waiting(n)'
    BY <1>7, <2>1, SettleWaits
  <2>3. Safe(current.msg) \/ current.msg \in deadLetters \/ Elsewhere(current.msg)
    BY <1>7 DEF LossInv, AcknowledgedIsSafe, Ack, BuryAck
  <2>4. NothingLost'
    BY <1>0, <2>1, <2>2, <2>3 DEF NothingLost, Safe
  <2>5. QED
    BY <1>7, <2>4 DEF LossInv, AcknowledgedIsSafe
<1>8. CASE Nack
  <2>1. CASE LeaveBroken
    <3>1. /\ UNCHANGED <<queue, unacked, published, deadLetters>>
          /\ pc' = "down"
      BY <1>8, <2>1 DEF Nack, LeaveBroken
    <3>2. QED
      BY <1>1, <3>1 DEF LossInv, AcknowledgedIsSafe
  <2>2. CASE ~LeaveBroken
    <3>1. /\ link = "up" /\ pc = "nack" /\ pc' = "idle"
          /\ queue' = Requeued(<<Head(unacked)>>) /\ unacked' = Tail(unacked)
          /\ UNCHANGED <<published, deadLetters>>
      BY <1>8, <2>2 DEF Nack
    <3>2. unacked # <<>>
      BY <3>1 DEF DeliveryInHand, Steps
    <3>3. \A n : Waiting(n)' <=> Waiting(n)
      BY <3>1, <3>2, NackWaits
    <3>4. NothingLost'
      BY <1>0, <3>1, <3>3 DEF NothingLost, Safe
    <3>5. QED
      BY <3>1, <3>4 DEF LossInv, AcknowledgedIsSafe
  <2>3. QED
    BY <2>1, <2>2
<1>9. (Ack \/ BuryAck) => BasicAck
  BY DEF Ack, BuryAck
<1>10. QED
  BY <1>2, <1>3, <1>4, <1>5, <1>6, <1>7, <1>8, <1>9 DEF Handle, BasicAck

\* consumer.py:7-17: where a publish to the dead-letter exchange is not lost on a live
\* channel, a punch that reached the queue is always still waiting, parked, written, or
\* within the gap of one that was written.
THEOREM NothingIsLost ==
    ASSUME ~LossyDeadLetter
    PROVE  Spec => []NothingLost
<1>1. Init => LossInv
  BY DEF Init, LossInv, NothingLost, AcknowledgedIsSafe
<1>2. SafetyInv /\ RowsComeFromPunches /\ LossInv /\ [Next]_vars => LossInv'
  <2> SUFFICES ASSUME SafetyInv, RowsComeFromPunches, LossInv, [Next]_vars PROVE LossInv'
    OBVIOUS
  <2>1. TypeOK /\ DeliveryInHand
    BY DEF SafetyInv
  <2>2. CASE Environment \/ Connect \/ Deliver \/ Halt
    BY <2>1, <2>2, LossEnvironment
  <2>3. CASE Handle
    BY <2>1, <2>3, LossHandle
  <2>4. CASE UNCHANGED vars
    BY <2>4 DEF vars, broker, history, LossInv, NothingLost, AcknowledgedIsSafe, Safe,
        Covered, Waiting, Elsewhere, Queued
  <2>5. QED
    BY <2>2, <2>3, <2>4 DEF Next
<1>3. LossInv => NothingLost
  BY DEF LossInv
<1>4. QED
  BY <1>1, <1>2, <1>3, Safety, RowsArePunches, PTL DEF Spec

-----------------------------------------------------------------------------
(* Who is buried.  Undisturbed: nobody deletes rows, hires or dismisses,    *)
(* or puts dead letters back, which come without a message id.              *)

Undisturbed == spent.deletes = 0 /\ spent.staff = 0 /\ spent.replays = 0

AllKeyed ==
    /\ \A i \in DOMAIN queue : queue[i].keyed
    /\ \A i \in DOMAIN unacked : unacked[i].keyed
    /\ current.keyed

\* What the cache remembers is what the table says.
LookupIsTrue == \A e \in Employees : lookup[e] \in {"absent", Standing(e)}

Writable(m) == ~Rejected(m) /\ EmployeeOf[m] \in staff

\* _attempts of a message that can be written counts failures since it was settled.
AttemptsAreFailures ==
    /\ \A m \in Messages : Writable(m) => attempts[m] <= failures[m]
    /\ pc = "bury" /\ Writable(current.msg) => attempts[current.msg] = 0

HopeInv ==
    Undisturbed =>
        AllKeyed /\ LookupIsTrue /\ AttemptsAreFailures /\ BuriedOnlyIfHopeless

\* A pending write is the gap away from every row of its day.
WriteIsSpaced ==
    pc = "write" /\ Gap > 0 =>
        \A i \in DayIds(EmployeeOf[current.msg], DayOf(current.msg)) :
            Distance(LocalTime(current.msg), table[i].at) >= Gap

\* The sub-second part that is dropped is less than the gap.
LEMMA StoredIsNear ==
    ASSUME NEW t \in Int, Gap > 0
    PROVE  Distance(t, Stored(t)) < Gap
<1>1. Gap >= SecondTicks
  <2>1. SecondTicks \in Nat \ {0} /\ Gap \in Nat /\ Gap % SecondTicks = 0
    BY PolicyAssumption
  <2>2. QED
    BY <2>1
<1>2. t - (t \div SecondTicks) * SecondTicks \in 0 .. SecondTicks - 1
  <2>1. SecondTicks \in Nat \ {0}
    BY PolicyAssumption
  <2>2. QED
    BY <2>1
<1>3. Stored(t) \in Int /\ t - Stored(t) \in 0 .. SecondTicks - 1
  BY <1>2, StoredType DEF Stored
<1>4. QED
  BY <1>1, <1>3, PolicyAssumption DEF Distance

\* Between the read and the write the day only loses rows.
LEMMA WriteIsSpacedStep ==
    ASSUME TypeOK, TwoRowsPerDay, WriteIsSpaced, Next
    PROVE  WriteIsSpaced'
<1> SUFFICES ASSUME pc' = "write", Gap > 0,
                    NEW i \in DayIds(EmployeeOf[current.msg], DayOf(current.msg))'
             PROVE  Distance(LocalTime(current'.msg), table'[i].at) >= Gap
  BY DEF WriteIsSpaced, LocalTime
<1>1. CASE Read /\ UNCHANGED <<table, current>>
  <2> DEFINE m == current.msg
  <2>1. decision' = Decide(DayRows(m), LocalTime(m)) /\ decision'.act # "skip"
    BY <1>1 DEF Read, Goto
  <2>2. ~\E j \in DOMAIN DayRows(m) : Distance(LocalTime(m), DayRows(m)[j]) < Gap
    BY <2>1 DEF Decide, Skip
  <2>3. i \in DayIds(EmployeeOf[m], DayOf(m)) /\ table'[i].at = table[i].at
    BY <1>1 DEF DayIds
  <2>4. ~(Distance(LocalTime(m), table[i].at) < Gap)
    BY <2>2, <2>3 DEF DayRows
  <2>5. LocalTime(m) \in Int /\ table[i].at \in Int /\ Gap \in Nat
    BY <2>3, CurrentType, PolicyAssumption DEF TypeOK, Row, DayIds
  <2>6. Distance(LocalTime(m), table[i].at) \in Int
    BY <2>5 DEF Distance
  <2>7. QED
    BY <1>1, <2>3, <2>4, <2>5, <2>6
<1>2. ASSUME NEW k \in DOMAIN table, DeleteRow(k)
      PROVE  Distance(LocalTime(current'.msg), table'[i].at) >= Gap
  <2>1. /\ pc = "write" /\ current' = current
        /\ i \in DayIds(EmployeeOf[current.msg], DayOf(current.msg))
        /\ table'[i] = table[i]
    BY <1>2 DEF DeleteRow, DayIds
  <2>2. QED
    BY <2>1 DEF WriteIsSpaced
<1>3. CASE pc = "write" /\ UNCHANGED <<table, current, decision>>
  BY <1>3 DEF WriteIsSpaced, DayIds
<1>4. QED
  BY <1>1, <1>2, <1>3, WhoDecides

\* Nothing that was spent is given back, and every disturbance is counted.
LEMMA SpentGrows ==
    ASSUME TypeOK, Next
    PROVE  /\ \A b \in Budgets : spent'[b] = 0 => spent[b] = 0
           /\ (\E m \in Messages : Replay(m)) => spent'.replays # 0
           /\ (\E i \in DOMAIN table : DeleteRow(i)) => spent'.deletes # 0
           /\ (\E e \in Employees : ChangeStaff(e)) => spent'.staff # 0
<1>0. /\ spent \in [Budgets -> Nat]
      /\ {"duplicates", "faults", "stops", "deletes", "staff", "replays"} \subseteq Budgets
  BY DEF TypeOK, Budgets
<1>1. ASSUME NEW b \in Budgets, NEW limit, Spend(b, limit)
      PROVE  /\ spent'[b] # 0
             /\ \A c \in Budgets : spent'[c] = 0 => spent[c] = 0
  <2>1. /\ spent'[b] = spent[b] + 1 /\ spent[b] \in Nat
        /\ \A c \in Budgets \ {b} : spent'[c] = spent[c]
    BY <1>0, <1>1 DEF Spend
  <2>2. QED
    BY <2>1
<1>2. \/ spent' = spent
      \/ \E b \in Budgets : \E limit : Spend(b, limit)
  BY <1>0 DEF Next, Environment, Handle, Publish, PublishAgain, Replay, DeleteRow,
      ChangeStaff, DropLink, Crash, Stop, Connect, Deliver, Halt, Dispatch, LookupCached,
      LookupQueried, Read, DatabaseFails, InsertRow, UpdateRow, UpdateTouchesNothing,
      Commit, Ack, Retry, Nack, Bury, BuryAck, Goto
<1>3. (\E m \in Messages : Replay(m)) => spent'.replays # 0
  BY <1>0, <1>1 DEF Replay
<1>4. (\E i \in DOMAIN table : DeleteRow(i)) => spent'.deletes # 0
  BY <1>0, <1>1 DEF DeleteRow
<1>5. (\E e \in Employees : ChangeStaff(e)) => spent'.staff # 0
  BY <1>0, <1>1 DEF ChangeStaff
<1>6. QED
  BY <1>1, <1>2, <1>3, <1>4, <1>5

\* What is undisturbed was, and the staff is the same.
LEMMA UndisturbedStep ==
    ASSUME TypeOK, Next, Undisturbed'
    PROVE  /\ Undisturbed
           /\ ~\E m \in Messages : Replay(m)
           /\ ~\E i \in DOMAIN table : DeleteRow(i)
           /\ ~\E e \in Employees : ChangeStaff(e)
           /\ staff' = staff
<1>1. {"deletes", "staff", "replays"} \subseteq Budgets
  BY DEF Budgets
<1>2. ~\E e \in Employees : ChangeStaff(e)
  BY SpentGrows DEF Undisturbed
<1>3. staff' = staff
  BY <1>2 DEF Next, Environment, Handle, Publish, PublishAgain, Replay, Enqueue, DeleteRow,
      DropLink, Crash, Stop, Connect, Deliver, Halt, Dispatch, LookupCached,
      LookupQueried, Read, DatabaseFails, InsertRow, UpdateRow, UpdateTouchesNothing,
      Commit, Ack, Retry, Nack, Bury, BuryAck, Goto, erp
<1>4. QED
  BY <1>1, <1>2, <1>3, SpentGrows DEF Undisturbed

\* Only a replay brings a message without an id.
LEMMA AllKeyedStep ==
    ASSUME TypeOK, DeliveryInHand, AllKeyed, Next, ~\E m \in Messages : Replay(m)
    PROVE  AllKeyed'
<1> USE DEF broker
<1>0. /\ queue \in Seq(Entry) /\ unacked \in Seq(Delivery)
      /\ \A i \in DOMAIN queue : queue[i].keyed
      /\ \A i \in DOMAIN unacked : unacked[i].keyed
      /\ current.keyed
  BY DEF TypeOK, AllKeyed
<1>1. ASSUME NEW m \in Messages, Enqueue(m, TRUE) PROVE AllKeyed'
  <2> DEFINE x == [msg |-> m, keyed |-> TRUE]
  <2>1. x \in Entry /\ x.keyed /\ queue' = Append(queue, x)
    BY <1>1 DEF Enqueue, Entry
  <2> HIDE DEF x
  <2>2. /\ DOMAIN queue' = DOMAIN queue \cup {Len(queue) + 1}
        /\ \A i \in DOMAIN queue : queue'[i] = queue[i]
        /\ queue'[Len(queue) + 1] = x
    BY <1>0, <2>1, AppendAt
  <2>3. QED
    BY <1>0, <1>1, <2>1, <2>2 DEF Enqueue, AllKeyed
<1>2. ASSUME NEW ds \in Seq(Delivery), \A i \in DOMAIN ds : ds[i].keyed
      PROVE  \A j \in DOMAIN Requeued(ds) : Requeued(ds)[j].keyed
  <2>1. PICK q : q = Requeued(ds)
    OBVIOUS
  <2>2. /\ Len(ds) \in Nat /\ DOMAIN ds = 1 .. Len(ds)
        /\ Len(queue) \in Nat /\ DOMAIN queue = 1 .. Len(queue)
        /\ DOMAIN q = 1 .. Len(ds) + Len(queue)
        /\ \A i \in DOMAIN ds : q[i] = [msg |-> ds[i].msg, keyed |-> ds[i].keyed]
        /\ \A i \in DOMAIN queue : q[Len(ds) + i] = queue[i]
    BY <2>1, RequeuedAt
  <2>3. ASSUME NEW j \in DOMAIN q PROVE q[j].keyed
    <3>1. CASE j \in DOMAIN ds
      <4>1. q[j] = [msg |-> ds[j].msg, keyed |-> ds[j].keyed] /\ ds[j].keyed
        BY <1>2, <2>2, <3>1
      <4>2. QED
        BY <4>1, SMT
    <3>2. CASE j \notin DOMAIN ds
      <4>1. j - Len(ds) \in DOMAIN queue /\ j = Len(ds) + (j - Len(ds))
        BY <2>2, <2>3, <3>2
      <4>2. QED
        BY <1>0, <2>2, <4>1
    <3>3. QED
      BY <3>1, <3>2
  <2>4. QED
    BY <2>1, <2>3
<1>3. CASE DropLink \/ Crash \/ Halt
  <2>1. /\ queue' = Requeued(unacked) /\ unacked' = <<>>
        /\ current' = current \/ current' = NoDelivery
    BY <1>3 DEF DropLink, Crash, Halt, Disconnect
  <2>2. NoDelivery.keyed
    BY DEF NoDelivery
  <2>3. QED
    BY <1>0, <1>2, <2>1, <2>2 DEF AllKeyed
<1>4. CASE Deliver
  <2>1. queue # <<>>
    BY <1>4 DEF Deliver
  <2>2. PICK d : d = [msg |-> Head(queue).msg, keyed |-> Head(queue).keyed, tag |-> nextTag]
    OBVIOUS
  <2>3. Head(queue) \in Entry /\ Head(queue).keyed
    BY <1>0, <2>1, TailAt, HeadTailProperties
  <2>4. d \in Delivery /\ d.keyed
    BY <2>2, <2>3 DEF Entry, Delivery, TypeOK
  <2>5. unacked' = Append(unacked, d) /\ queue' = Tail(queue) /\ current' = current
    BY <1>4, <2>2 DEF Deliver
  <2>6. /\ Len(queue) \in Nat \ {0} /\ DOMAIN queue = 1 .. Len(queue)
        /\ DOMAIN queue' = 1 .. Len(queue) - 1
        /\ \A i \in DOMAIN queue' : queue'[i] = queue[i + 1]
    BY <1>0, <2>1, <2>5, TailAt
  <2>7. /\ DOMAIN unacked' = DOMAIN unacked \cup {Len(unacked) + 1}
        /\ \A i \in DOMAIN unacked : unacked'[i] = unacked[i]
        /\ unacked'[Len(unacked) + 1] = d
    BY <1>0, <2>4, <2>5, AppendAt
  <2>8. \A i \in DOMAIN queue' : queue'[i].keyed
    BY <1>0, <2>6
  <2>9. \A i \in DOMAIN unacked' : unacked'[i].keyed
    BY <1>0, <2>4, <2>7
  <2>10. QED
    BY <1>0, <2>5, <2>8, <2>9 DEF AllKeyed
<1>5. ASSUME unacked # <<>>, unacked' = Tail(unacked)
      PROVE  /\ \A i \in DOMAIN unacked' : unacked'[i].keyed
             /\ Head(unacked) \in Delivery /\ Head(unacked).keyed
  <2>1. /\ Head(unacked) = unacked[1] /\ 1 \in DOMAIN unacked
        /\ Len(unacked) \in Nat \ {0} /\ DOMAIN unacked = 1 .. Len(unacked)
        /\ DOMAIN unacked' = 1 .. Len(unacked) - 1
        /\ \A i \in DOMAIN unacked' : unacked'[i] = unacked[i + 1]
    BY <1>0, <1>5, TailAt
  <2>2. QED
    BY <1>0, <1>5, <2>1, HeadTailProperties
<1>6. CASE Dispatch
  <2>1. unacked # <<>> /\ current' = Head(unacked) /\ UNCHANGED <<queue, unacked>>
    BY <1>6 DEF Dispatch
  <2>2. Head(unacked).keyed
    BY <1>0, <2>1, TailAt
  <2>3. QED
    BY <1>0, <2>1, <2>2 DEF AllKeyed
<1>7. CASE (Ack \/ BuryAck) /\ ~LeaveBroken
  <2>1. /\ unacked' = Tail(unacked) /\ queue' = queue /\ current' = current
        /\ unacked # <<>>
    BY <1>7 DEF Ack, BuryAck, BasicAck, DeliveryInHand, Steps
  <2>2. QED
    BY <1>0, <1>5, <2>1 DEF AllKeyed
<1>8. CASE Nack /\ ~LeaveBroken
  <2>1. /\ unacked' = Tail(unacked) /\ queue' = Requeued(<<Head(unacked)>>)
        /\ current' = current /\ unacked # <<>>
    BY <1>8 DEF Nack, DeliveryInHand, Steps
  <2>2. PICK h : h = Head(unacked)
    OBVIOUS
  <2>3. h \in Delivery /\ h.keyed
    BY <1>5, <2>1, <2>2
  <2>4. <<h>> \in Seq(Delivery) /\ \A i \in DOMAIN <<h>> : <<h>>[i].keyed
    BY <2>3
  <2>5. \A j \in DOMAIN queue' : queue'[j].keyed
    BY <1>2, <2>1, <2>2, <2>4
  <2>6. QED
    BY <1>0, <1>5, <2>1, <2>5 DEF AllKeyed
<1>9. ASSUME UNCHANGED <<queue, unacked, current>> PROVE AllKeyed'
  BY <1>9 DEF AllKeyed
<1>10. CASE (Ack \/ BuryAck \/ Nack) /\ LeaveBroken
  BY <1>9, <1>10 DEF Ack, BuryAck, Nack, LeaveBroken
<1>11. CASE \/ LookupCached \/ LookupQueried \/ Read \/ DatabaseFails \/ InsertRow
            \/ UpdateRow \/ UpdateTouchesNothing \/ Retry \/ Bury
  BY <1>9, <1>11 DEF LookupCached, LookupQueried, Read, DatabaseFails, InsertRow,
      UpdateRow, UpdateTouchesNothing, Commit, Retry, Bury, Goto
<1>12. CASE \/ Connect \/ Stop
            \/ \E i \in DOMAIN table : DeleteRow(i)
            \/ \E e \in Employees : ChangeStaff(e)
  BY <1>9, <1>12 DEF Connect, Stop, DeleteRow, ChangeStaff
<1>13. CASE \E m \in Messages : Publish(m) \/ PublishAgain(m)
  BY <1>1, <1>13 DEF Publish, PublishAgain
<1>14. QED
  BY <1>3, <1>4, <1>6, <1>7, <1>8, <1>10, <1>11, <1>12, <1>13
     DEF Next, Environment, Handle

\* Undisturbed and with a gap, an update finds its row, with another time in it.
LEMMA UpdateTouchesARow ==
    ASSUME TypeOK, DecisionStillFits, WriteIsSpaced, Undisturbed, Gap > 0
    PROVE  ~UpdateTouchesNothing
<1> SUFFICES ASSUME UpdateTouchesNothing PROVE FALSE
  OBVIOUS
<1> DEFINE m == current.msg
<1>1. /\ pc = "write" /\ decision.act = "update"
      /\ decision.id \in DOMAIN table => table[decision.id].at = Stored(LocalTime(m))
  BY DEF UpdateTouchesNothing
<1>2. decision.id \in DayIds(EmployeeOf[m], DayOf(m))
  BY <1>1, DayRowsDomain DEF DecisionStillFits, Undisturbed
<1>3. Distance(LocalTime(m), Stored(LocalTime(m))) >= Gap
  BY <1>1, <1>2 DEF WriteIsSpaced, DayIds
<1>4. LocalTime(m) \in Int /\ Stored(LocalTime(m)) \in Int /\ Gap \in Nat
  BY CurrentType, StoredType, PolicyAssumption
<1>5. /\ Distance(LocalTime(m), Stored(LocalTime(m))) < Gap
      /\ Distance(LocalTime(m), Stored(LocalTime(m))) \in Int
  BY <1>4, StoredIsNear DEF Distance
<1>6. QED
  BY <1>3, <1>4, <1>5

\* The cache and the counts.
LEMMA HopeStep ==
    ASSUME TypeOK, DeliveryInHand, DecisionStillFits, WriteIsSpaced, HopeInv, Next, Gap > 0
    PROVE  HopeInv'
<1> SUFFICES ASSUME Undisturbed'
             PROVE  LookupIsTrue' /\ AttemptsAreFailures' /\ BuriedOnlyIfHopeless'
  BY UndisturbedStep, AllKeyedStep DEF HopeInv
<1> USE DEF broker, memory, erp, history
<1>0. /\ Undisturbed /\ staff' = staff
      /\ ~\E m \in Messages : Replay(m)
      /\ ~\E i \in DOMAIN table : DeleteRow(i)
      /\ ~\E e \in Employees : ChangeStaff(e)
  BY UndisturbedStep
<1>1. AllKeyed /\ LookupIsTrue /\ AttemptsAreFailures /\ BuriedOnlyIfHopeless
  BY <1>0 DEF HopeInv
<1>3. /\ \A m \in Messages : Writable(m)' <=> Writable(m)
      /\ \A e : Standing(e)' = Standing(e)
  BY <1>0 DEF Writable, Rejected, Standing
<1>4. /\ current.msg \in Messages /\ EmployeeOf[current.msg] \in Employees
      /\ Key(current) = current.msg
      /\ Messages \subseteq Keys
      /\ attempts \in [Keys -> Nat] /\ failures \in [Messages -> Nat]
      /\ lookup \in [Employees -> {"absent", "known", "unknown"}]
  BY <1>1, CurrentType DEF AllKeyed, Key, Keys, TypeOK
<1>5. ASSUME UNCHANGED <<lookup, attempts, failures>>,
             pc' = "bury" => pc = "bury" /\ current' = current
      PROVE  LookupIsTrue' /\ AttemptsAreFailures' /\ BuriedOnlyIfHopeless'
  <2>1. LookupIsTrue'
    BY <1>1, <1>3, <1>5 DEF LookupIsTrue
  <2>2. AttemptsAreFailures'
    BY <1>1, <1>3, <1>4, <1>5 DEF AttemptsAreFailures
  <2>3. BuriedOnlyIfHopeless'
    BY <1>0, <1>1, <1>5 DEF BuriedOnlyIfHopeless, Rejected
  <2>4. QED
    BY <2>1, <2>2, <2>3
<1>6. CASE (\E m \in Messages : Publish(m) \/ PublishAgain(m)) \/ Stop \/ DropLink
  BY <1>5, <1>6 DEF Publish, PublishAgain, Enqueue, Stop, DropLink
<1>7. CASE Connect \/ Deliver \/ Halt
  BY <1>5, <1>7 DEF Connect, Deliver, Halt
<1>8. CASE Crash
  <2>1. /\ attempts' = [k \in Keys |-> 0] /\ failures' = [m \in Messages |-> 0]
        /\ lookup' = [e \in Employees |-> "absent"] /\ pc' = "down"
    BY <1>8 DEF Crash
  <2>2. QED
    BY <1>4, <2>1 DEF LookupIsTrue, AttemptsAreFailures, BuriedOnlyIfHopeless
<1>9. ASSUME UNCHANGED <<attempts, failures>>, LookupIsTrue', current'.msg \in Messages,
             pc' = "bury" => ~Writable(current'.msg)
      PROVE  LookupIsTrue' /\ AttemptsAreFailures' /\ BuriedOnlyIfHopeless'
  <2>1. AttemptsAreFailures'
    BY <1>1, <1>3, <1>9 DEF AttemptsAreFailures
  <2>2. BuriedOnlyIfHopeless'
    BY <1>0, <1>9 DEF BuriedOnlyIfHopeless, Writable, Rejected
  <2>3. QED
    BY <1>9, <2>1, <2>2
<1>10. CASE Dispatch
  <2>1. /\ current' = Head(unacked) /\ unacked # <<>>
        /\ pc' = IF Rejected(current'.msg) THEN "bury" ELSE "lookup"
        /\ UNCHANGED <<attempts, failures, lookup>>
    BY <1>10 DEF Dispatch
  <2>2. current'.msg \in Messages
    <3>1. unacked \in Seq(Delivery)
      BY DEF TypeOK
    <3>2. Head(unacked) \in Delivery
      BY <2>1, <3>1, HeadTailProperties
    <3>3. QED
      BY <2>1, <3>2 DEF Delivery
  <2>3. LookupIsTrue'
    BY <1>1, <1>3, <2>1 DEF LookupIsTrue
  <2>4. pc' = "bury" => ~Writable(current'.msg)
    BY <2>1 DEF Writable
  <2>5. QED
    BY <1>9, <2>1, <2>2, <2>3, <2>4
<1>11. CASE LookupCached \/ LookupQueried
  <2> DEFINE e == EmployeeOf[current.msg]
  <2>1. /\ UNCHANGED <<attempts, failures, current>>
        /\ lookup' = lookup \/ lookup' = [lookup EXCEPT ![e] = Standing(e)]
        /\ \/ pc' = AfterLookup(lookup[e]) /\ lookup[e] # "absent"
           \/ pc' = AfterLookup(Standing(e))
    BY <1>11 DEF LookupCached, LookupQueried, Goto
  <2>2. LookupIsTrue'
    BY <1>1, <1>3, <1>4, <2>1 DEF LookupIsTrue
  <2>3. pc' = AfterLookup(Standing(e))
    BY <1>1, <1>4, <2>1 DEF LookupIsTrue
  <2>4. pc' = "bury" => e \notin staff
    BY <2>3 DEF AfterLookup, Standing
  <2>5. QED
    BY <1>4, <1>9, <2>1, <2>2, <2>4 DEF Writable
<1>12. CASE Read \/ DatabaseFails \/ InsertRow \/ UpdateRow
  BY <1>5, <1>12 DEF Read, DatabaseFails, InsertRow, UpdateRow, Commit, Goto
<1>13. CASE UpdateTouchesNothing
  BY <1>0, <1>13, UpdateTouchesARow
<1>14. CASE Ack
  <2>1. /\ attempts' = [attempts EXCEPT ![current.msg] = 0]
        /\ failures' = [failures EXCEPT ![current.msg] = 0]
        /\ lookup' = lookup /\ pc' # "bury"
    BY <1>4, <1>14 DEF Ack, BasicAck, LeaveBroken
  <2>2. \A m \in Messages : Writable(m) => attempts'[m] <= failures'[m]
    BY <1>1, <1>4, <2>1 DEF AttemptsAreFailures
  <2>3. QED
    BY <1>1, <1>3, <2>1, <2>2 DEF LookupIsTrue, AttemptsAreFailures, BuriedOnlyIfHopeless
<1>15. CASE Retry
  <2> DEFINE m == current.msg
             n == attempts[m] + 1
  <2>1. /\ attempts' = [attempts EXCEPT ![m] = IF n >= MaxAttempts THEN 0 ELSE n]
        /\ failures' = [failures EXCEPT ![m] = @ + 1]
        /\ lookup' = lookup /\ current' = current
        /\ pc' = "bury" => n >= MaxAttempts
    BY <1>4, <1>15 DEF Retry
  <2>2. /\ attempts[m] \in Nat /\ failures[m] \in Nat /\ MaxAttempts \in Nat
        /\ Writable(m) => attempts[m] <= failures[m]
    BY <1>1, <1>4, ConsumerAssumption DEF AttemptsAreFailures
  <2>3. /\ failures'[m] = failures[m] + 1
        /\ attempts'[m] = IF n >= MaxAttempts THEN 0 ELSE n
        /\ \A o \in Messages \ {m} : attempts'[o] = attempts[o] /\ failures'[o] = failures[o]
    BY <1>4, <2>1
  <2>4. Writable(m) => attempts'[m] <= failures'[m]
    BY <2>2, <2>3
  <2>5. AttemptsAreFailures'
    BY <1>1, <1>3, <1>4, <2>1, <2>3, <2>4 DEF AttemptsAreFailures
  <2>6. pc' = "bury" /\ Writable(m) => failures'[m] >= MaxAttempts
    BY <2>1, <2>2, <2>3
  <2>7. BuriedOnlyIfHopeless'
    BY <1>0, <2>1, <2>6 DEF BuriedOnlyIfHopeless, Writable, Rejected
  <2>8. LookupIsTrue'
    BY <1>1, <1>3, <2>1 DEF LookupIsTrue
  <2>9. QED
    BY <2>5, <2>7, <2>8
<1>16. CASE Bury
  <2>1. /\ pc = "bury" /\ pc' = "buryAck"
        /\ failures' = [failures EXCEPT ![current.msg] = 0]
        /\ UNCHANGED <<attempts, lookup>>
    BY <1>16 DEF Bury
  <2>2. \A m \in Messages : Writable(m) => attempts'[m] <= failures'[m]
    BY <1>1, <1>4, <2>1 DEF AttemptsAreFailures
  <2>3. QED
    BY <1>1, <1>3, <2>1, <2>2 DEF LookupIsTrue, AttemptsAreFailures, BuriedOnlyIfHopeless
<1>17. CASE Nack \/ BuryAck
  BY <1>5, <1>17 DEF Nack, BuryAck, BasicAck, LeaveBroken
<1>18. QED
  BY <1>0, <1>6, <1>7, <1>8, <1>10, <1>11, <1>12, <1>13, <1>14, <1>15, <1>16, <1>17
     DEF Next, Environment, Handle

\* writer.py:9: a message is dead-lettered when it "can never succeed however often it is
\* retried", or when its attempts are used up; through crashes, broken links, duplicates,
\* lost acks and any order of arrival, as long as the ERP's tables are left alone.
THEOREM OnlyHopelessAreBuried ==
    ASSUME Gap > 0
    PROVE  Spec => [](Undisturbed => BuriedOnlyIfHopeless)
<1> DEFINE IInv == WriteIsSpaced /\ HopeInv
<1>1. Init => IInv
  BY DEF Init, WriteIsSpaced, HopeInv, AllKeyed, LookupIsTrue, AttemptsAreFailures,
      BuriedOnlyIfHopeless, NoDelivery, Keys
<1>2. SafetyInv /\ IInv /\ [Next]_vars => IInv'
  <2> SUFFICES ASSUME SafetyInv, IInv, [Next]_vars PROVE IInv'
    OBVIOUS
  <2>1. TypeOK /\ DeliveryInHand /\ DecisionStillFits /\ TwoRowsPerDay
    BY DEF SafetyInv
  <2>2. CASE Next
    BY <2>1, <2>2, WriteIsSpacedStep, HopeStep
  <2>3. CASE UNCHANGED vars
    BY <2>3 DEF vars, broker, memory, erp, history, WriteIsSpaced, HopeInv, Undisturbed,
        AllKeyed, LookupIsTrue, Standing, AttemptsAreFailures, Writable, Rejected,
        BuriedOnlyIfHopeless, DayIds
  <2>4. QED
    BY <2>2, <2>3
<1>3. IInv => (Undisturbed => BuriedOnlyIfHopeless)
  BY DEF HopeInv
<1>4. QED
  BY <1>1, <1>2, <1>3, Safety, PTL DEF Spec

-----------------------------------------------------------------------------
(* One publisher and a window of one.  The line, the delivery in hand and   *)
(* then the queue, is in capture order, and nobody in it is earlier than a  *)
(* punch that was written; so whatever is written is the latest of its day. *)

OneByOne == InOrder /\ Prefetch = 1

NoLater(m, n) == CapturedAt[m] <= CapturedAt[n]

InLine ==
    /\ Len(unacked) <= 1
    /\ \A i, j \in DOMAIN queue : i <= j => NoLater(queue[i].msg, queue[j].msg)
    /\ \A i \in DOMAIN unacked, j \in DOMAIN queue : NoLater(unacked[i].msg, queue[j].msg)
    /\ pc \in Steps /\ link = "down" => queue # <<>> /\ Head(queue).msg = current.msg

Ordered ==
    /\ InLine
    /\ \A m : Waiting(m) => m \in published
    /\ applied \subseteq published
    /\ \A n \in applied : \A m : Waiting(m) => NoLater(n, m)

\* Capture times are numbers.
LEMMA NoLaterOrder ==
    ASSUME NEW m \in Messages, NEW n \in Messages
    PROVE  /\ NoLater(m, m)
           /\ NoLater(m, n) => LocalTime(m) <= LocalTime(n)
           /\ NoLater(m, n) => Stored(LocalTime(m)) <= Stored(LocalTime(n))
<1>1. CapturedAt[m] \in Nat /\ CapturedAt[n] \in Nat /\ ZoneShift \in Int
      /\ SecondTicks \in Nat \ {0}
  BY ConsumerAssumption, PolicyAssumption
<1>2. NoLater(m, n) => LocalTime(m) <= LocalTime(n)
  BY <1>1 DEF NoLater, LocalTime, ToLocal
<1>3. ASSUME NEW a \in Int, NEW b \in Int, a <= b PROVE Stored(a) <= Stored(b)
  <2>1. a \div SecondTicks \in Int /\ b \div SecondTicks \in Int
    BY <1>1
  <2>2. /\ a - (a \div SecondTicks) * SecondTicks \in 0 .. SecondTicks - 1
        /\ b - (b \div SecondTicks) * SecondTicks \in 0 .. SecondTicks - 1
    BY <1>1
  <2>3. a \div SecondTicks <= b \div SecondTicks
    BY <1>1, <1>3
  <2>4. QED
    BY <1>1, <2>1, <2>3 DEF Stored
<1>4. QED
  BY <1>1, <1>2, <1>3, MessageTimes DEF NoLater

\* The delivery in hand waits, and comes before everyone who does.
LEMMA CurrentIsFirst ==
    ASSUME TypeOK, DeliveryInHand, InLine, pc \in Steps
    PROVE  /\ Waiting(current.msg)
           /\ \A m : Waiting(m) => NoLater(current.msg, m)
<1>1. queue \in Seq(Entry) /\ unacked \in Seq(Delivery) /\ current.msg \in Messages
  BY CurrentType DEF TypeOK
<1>2. CASE link = "up"
  <2>1. unacked # <<>> /\ Head(unacked) = current
    BY <1>2 DEF DeliveryInHand
  <2>2. /\ unacked[1] = current /\ 1 \in DOMAIN unacked
        /\ Len(unacked) \in Nat \ {0} /\ DOMAIN unacked = 1 .. Len(unacked)
    BY <1>1, <2>1, TailAt
  <2>3. \A i \in DOMAIN unacked : i = 1
    BY <2>2 DEF InLine
  <2>4. \A m : Waiting(m) => m = current.msg \/ NoLater(current.msg, m)
    BY <2>2, <2>3 DEF Waiting, InLine
  <2>5. QED
    BY <1>1, <2>2, <2>4, NoLaterOrder DEF Waiting
<1>3. CASE link = "down"
  <2>1. queue # <<>> /\ Head(queue).msg = current.msg /\ unacked = <<>>
    BY <1>3 DEF InLine, DeliveryInHand
  <2>2. /\ queue[1].msg = current.msg /\ 1 \in DOMAIN queue
        /\ DOMAIN queue = 1 .. Len(queue) /\ Len(queue) \in Nat
    BY <1>1, <2>1, TailAt
  <2>3. \A i \in DOMAIN queue : NoLater(current.msg, queue[i].msg)
    BY <2>2 DEF InLine
  <2>4. QED
    BY <2>1, <2>2, <2>3 DEF Waiting
<1>4. QED
  BY <1>2, <1>3 DEF TypeOK

\* Deliveries put back stand before the rest, in order.
LEMMA RequeuedInLine ==
    ASSUME TypeOK, InLine, unacked' = <<>>,
           \/ queue' = Requeued(unacked)
           \/ unacked # <<>> /\ queue' = Requeued(<<Head(unacked)>>)
    PROVE  /\ \A i, j \in DOMAIN queue' : i <= j => NoLater(queue'[i].msg, queue'[j].msg)
           /\ unacked # <<>> => queue' # <<>> /\ Head(queue').msg = Head(unacked).msg
<1>1. queue \in Seq(Entry) /\ unacked \in Seq(Delivery)
  BY DEF TypeOK
<1>2. CASE unacked = <<>>
  <2>1. queue' = Requeued(unacked) /\ Len(unacked) = 0
    BY <1>2
  <2>2. /\ Len(queue) \in Nat /\ DOMAIN queue = 1 .. Len(queue)
        /\ DOMAIN queue' = 1 .. 0 + Len(queue)
        /\ \A i \in DOMAIN queue : queue'[0 + i] = queue[i]
    BY <1>1, <2>1, RequeuedAt
  <2>3. DOMAIN queue' = DOMAIN queue /\ \A i \in DOMAIN queue : queue'[i] = queue[i]
    BY <2>2
  <2>4. QED
    BY <1>2, <2>3 DEF InLine
<1>3. CASE unacked # <<>>
  <2>1. PICK h : h = Head(unacked)
    OBVIOUS
  <2>2. /\ h = unacked[1] /\ 1 \in DOMAIN unacked /\ h \in Delivery
        /\ Len(unacked) \in Nat \ {0} /\ DOMAIN unacked = 1 .. Len(unacked)
    BY <1>1, <1>3, <2>1, TailAt, HeadTailProperties
  <2>3. Len(unacked) = 1
    BY <2>2 DEF InLine
  <2>4. PICK ds \in Seq(Delivery) : /\ queue' = Requeued(ds)
                                    /\ Len(ds) = 1 /\ DOMAIN ds = {1} /\ ds[1] = h
    <3>1. CASE queue' = Requeued(unacked)
      BY <1>1, <2>2, <2>3, <3>1
    <3>2. CASE queue' = Requeued(<<h>>)
      BY <2>2, <3>2
    <3>3. QED
      BY <2>1, <3>1, <3>2
  <2>5. PICK q : q = Requeued(ds)
    OBVIOUS
  <2>6. /\ Len(queue) \in Nat /\ DOMAIN queue = 1 .. Len(queue)
        /\ DOMAIN q = 1 .. 1 + Len(queue)
        /\ q[1] = [msg |-> h.msg, keyed |-> h.keyed]
        /\ \A i \in DOMAIN queue : q[1 + i] = queue[i]
    BY <2>4, <2>5, RequeuedAt
  <2>7. q[1].msg = h.msg
    BY <2>6, SMT
  <2>8. \A i \in DOMAIN queue : NoLater(h.msg, queue[i].msg)
    BY <2>2 DEF InLine
  <2>9. \A i \in DOMAIN q : i = 1 \/ (i - 1 \in DOMAIN queue /\ q[i] = queue[i - 1])
    BY <2>6
  <2>10. NoLater(h.msg, h.msg)
    BY <2>2, NoLaterOrder DEF Delivery
  <2>11. ASSUME NEW i \in DOMAIN q, NEW j \in DOMAIN q, i <= j
         PROVE  NoLater(q[i].msg, q[j].msg)
    <3>1. CASE i = 1 /\ j = 1
      BY <2>7, <2>10, <3>1
    <3>2. CASE i = 1 /\ j # 1
      BY <2>7, <2>8, <2>9, <3>2
    <3>3. CASE i # 1 /\ j # 1
      <4>1. i - 1 \in DOMAIN queue /\ j - 1 \in DOMAIN queue /\ i - 1 <= j - 1
        BY <2>6, <2>9, <2>11, <3>3
      <4>2. NoLater(queue[i - 1].msg, queue[j - 1].msg)
        BY <4>1 DEF InLine
      <4>3. QED
        BY <2>9, <3>3, <4>2
    <3>4. QED
      BY <2>6, <2>11, <3>1, <3>2, <3>3
  <2>12. q # <<>> /\ Head(q).msg = h.msg
    <3>1. q \in Seq(Entry)
      BY <2>4, <2>5, RequeuedType
    <3>2. Len(q) = 1 + Len(queue)
      BY <2>6, <3>1, LenProperties
    <3>3. q # <<>>
      BY <2>6, <3>2, EmptySeq
    <3>4. QED
      BY <2>7, <3>1, <3>3, TailAt
  <2>13. QED
    BY <2>1, <2>4, <2>5, <2>11, <2>12
<1>4. QED
  BY <1>2, <1>3

\* Deliver, put back, settle, publish: the line stays in capture order.
LEMMA InLineStep ==
    ASSUME OneByOne, TypeOK, DeliveryInHand, Ordered, Next, ~\E m \in Messages : Replay(m)
    PROVE  InLine'
<1> USE DEF broker
<1>0. /\ queue \in Seq(Entry) /\ unacked \in Seq(Delivery)
      /\ InLine /\ Len(unacked) <= 1
      /\ \A i, j \in DOMAIN queue : i <= j => NoLater(queue[i].msg, queue[j].msg)
      /\ \A i \in DOMAIN unacked, j \in DOMAIN queue : NoLater(unacked[i].msg, queue[j].msg)
  BY DEF TypeOK, Ordered, InLine
<1>1. ASSUME UNCHANGED <<queue, unacked>>,
             pc' \in Steps /\ link' = "down" =>
                 pc \in Steps /\ link = "down" /\ current' = current
      PROVE  InLine'
  BY <1>0, <1>1 DEF InLine
<1>2. ASSUME NEW m \in Messages, Publish(m) \/ PublishAgain(m) PROVE InLine'
  <2>1. /\ Enqueue(m, TRUE)
        /\ \A n \in published : NoLater(n, m)
    BY <1>2 DEF Publish, PublishAgain, OneByOne, NewestOf, NoLater
  <2>2. PICK x \in Entry : x = [msg |-> m, keyed |-> TRUE]
    BY DEF Entry
  <2>3. x.msg = m
    BY <2>2, SMT
  <2>4. /\ queue' = Append(queue, x)
        /\ UNCHANGED <<unacked, link, pc, current>>
    BY <2>1, <2>2 DEF Enqueue
  <2>5. /\ DOMAIN queue' = DOMAIN queue \cup {Len(queue) + 1}
        /\ \A i \in DOMAIN queue : queue'[i] = queue[i]
        /\ queue'[Len(queue) + 1] = x
        /\ Len(queue) \in Nat /\ DOMAIN queue = 1 .. Len(queue)
    BY <1>0, <2>4, AppendAt
  <2>6. /\ \A i \in DOMAIN queue : NoLater(queue[i].msg, m)
        /\ \A i \in DOMAIN unacked : NoLater(unacked[i].msg, m)
        /\ NoLater(m, m)
    BY <2>1, NoLaterOrder DEF Ordered, Waiting
  <2>7. \A i, j \in DOMAIN queue' : i <= j => NoLater(queue'[i].msg, queue'[j].msg)
    BY <1>0, <2>3, <2>5, <2>6
  <2>8. \A i \in DOMAIN unacked', j \in DOMAIN queue' :
            NoLater(unacked'[i].msg, queue'[j].msg)
    BY <1>0, <2>3, <2>4, <2>5, <2>6
  <2>9. queue # <<>> => queue' # <<>> /\ Head(queue') = Head(queue)
    BY <1>0, <2>2, <2>4
  <2>10. QED
    BY <1>0, <2>4, <2>7, <2>8, <2>9 DEF InLine
<1>3. CASE DropLink \/ Crash \/ Halt
  <2>1. /\ queue' = Requeued(unacked) /\ unacked' = <<>>
        /\ pc' \in Steps => link = "up" /\ pc \in Steps /\ current' = current
    BY <1>3 DEF DropLink, Crash, Halt, Disconnect, Steps
  <2>2. /\ \A i, j \in DOMAIN queue' : i <= j => NoLater(queue'[i].msg, queue'[j].msg)
        /\ unacked # <<>> => queue' # <<>> /\ Head(queue').msg = Head(unacked).msg
    BY <1>0, <2>1, RequeuedInLine
  <2>3. pc' \in Steps => unacked # <<>> /\ Head(unacked) = current
    BY <2>1 DEF DeliveryInHand
  <2>4. Len(unacked') = 0 /\ DOMAIN unacked' = {}
    BY <2>1
  <2>5. QED
    BY <2>1, <2>2, <2>3, <2>4 DEF InLine
<1>4. CASE Deliver
  <2>1. queue # <<>> /\ Len(unacked) < 1 /\ link' = "up"
    BY <1>4 DEF Deliver, OneByOne
  <2>2. PICK d : d = [msg |-> Head(queue).msg, keyed |-> Head(queue).keyed, tag |-> nextTag]
    OBVIOUS
  <2>3. unacked' = Append(unacked, d) /\ queue' = Tail(queue)
    BY <1>4, <2>2 DEF Deliver
  <2>4. /\ Head(queue) = queue[1] /\ 1 \in DOMAIN queue
        /\ Len(queue) \in Nat \ {0} /\ DOMAIN queue = 1 .. Len(queue)
        /\ DOMAIN queue' = 1 .. Len(queue) - 1
        /\ \A i \in DOMAIN queue' : queue'[i] = queue[i + 1]
    BY <1>0, <2>1, <2>3, TailAt
  <2>5. d.msg = queue[1].msg /\ Head(queue) \in Entry
    BY <1>0, <2>1, <2>2, <2>4, HeadTailProperties, SMT
  <2>6. d \in Delivery
    BY <2>2, <2>5 DEF Entry, Delivery, TypeOK
  <2>7. /\ DOMAIN unacked' = DOMAIN unacked \cup {Len(unacked) + 1}
        /\ \A i \in DOMAIN unacked : unacked'[i] = unacked[i]
        /\ unacked'[Len(unacked) + 1] = d
        /\ Len(unacked) \in Nat /\ DOMAIN unacked = 1 .. Len(unacked)
        /\ Len(unacked') = Len(unacked) + 1
    BY <1>0, <2>3, <2>6, AppendAt, AppendProperties
  <2>8. Len(unacked') <= 1 /\ DOMAIN unacked' = {1} /\ unacked'[1] = d
    BY <2>1, <2>7
  <2>9. \A j \in DOMAIN queue' : NoLater(d.msg, queue'[j].msg)
    BY <1>0, <2>4, <2>5
  <2>10. \A i, j \in DOMAIN queue' : i <= j => NoLater(queue'[i].msg, queue'[j].msg)
    BY <1>0, <2>4
  <2>11. QED
    BY <2>1, <2>8, <2>9, <2>10 DEF InLine
<1>5. ASSUME unacked # <<>>, unacked' = Tail(unacked)
      PROVE  unacked' = <<>>
  <2>1. Len(unacked') = Len(unacked) - 1 /\ unacked' \in Seq(Delivery)
        /\ Len(unacked) \in Nat \ {0}
    BY <1>0, <1>5, HeadTailProperties, EmptySeq, LenProperties
  <2>2. Len(unacked') = 0
    BY <1>0, <2>1
  <2>3. QED
    BY <2>1, <2>2, EmptySeq
<1>6. CASE (Ack \/ BuryAck) /\ ~LeaveBroken
  <2>1. /\ unacked' = Tail(unacked) /\ queue' = queue /\ unacked # <<>> /\ pc' = "idle"
    BY <1>6 DEF Ack, BuryAck, BasicAck, DeliveryInHand, Steps
  <2>2. unacked' = <<>>
    BY <1>5, <2>1
  <2>3. Len(unacked') = 0 /\ DOMAIN unacked' = {}
    BY <2>2
  <2>4. QED
    BY <1>0, <2>1, <2>3 DEF InLine, Steps
<1>7. CASE Nack /\ ~LeaveBroken
  <2>1. /\ unacked' = Tail(unacked) /\ queue' = Requeued(<<Head(unacked)>>)
        /\ unacked # <<>> /\ pc' = "idle"
    BY <1>7 DEF Nack, DeliveryInHand, Steps
  <2>2. unacked' = <<>>
    BY <1>5, <2>1
  <2>3. \A i, j \in DOMAIN queue' : i <= j => NoLater(queue'[i].msg, queue'[j].msg)
    BY <1>0, <2>1, <2>2, RequeuedInLine
  <2>4. Len(unacked') = 0 /\ DOMAIN unacked' = {}
    BY <2>2
  <2>5. QED
    BY <2>1, <2>3, <2>4 DEF InLine, Steps
<1>8. CASE (Ack \/ BuryAck \/ Nack) /\ LeaveBroken
  BY <1>1, <1>8 DEF Ack, BuryAck, Nack, LeaveBroken, Steps
<1>9. CASE Dispatch
  BY <1>1, <1>9 DEF Dispatch, DeliveryInHand
<1>10. CASE LookupCached \/ LookupQueried \/ Read \/ DatabaseFails
  BY <1>1, <1>10 DEF LookupCached, LookupQueried, Read, DatabaseFails, Goto, Steps
<1>11. CASE InsertRow \/ UpdateRow \/ UpdateTouchesNothing \/ Retry \/ Bury
  BY <1>1, <1>11 DEF InsertRow, UpdateRow, UpdateTouchesNothing, Commit, Retry, Bury, Goto,
      Steps
<1>12. CASE \/ Connect \/ Stop
            \/ \E i \in DOMAIN table : DeleteRow(i)
            \/ \E e \in Employees : ChangeStaff(e)
  BY <1>1, <1>12 DEF Connect, Stop, DeleteRow, ChangeStaff, Steps
<1>13. QED
  BY <1>2, <1>3, <1>4, <1>6, <1>7, <1>8, <1>9, <1>10, <1>11, <1>12
     DEF Next, Environment, Handle

\* Nobody joins the line but the newest, and only the first in it is written.
LEMMA OrderedStep ==
    ASSUME OneByOne, TypeOK, DeliveryInHand, Ordered, Next, ~\E m \in Messages : Replay(m)
    PROVE  Ordered'
<1> USE DEF broker, history
<1>0. /\ InLine /\ InLine'
      /\ \A m : Waiting(m) => m \in published
      /\ applied \subseteq published
      /\ \A n \in applied : \A m : Waiting(m) => NoLater(n, m)
      /\ applied \subseteq Messages /\ published \subseteq Messages
  BY InLineStep DEF Ordered, TypeOK
<1>1. ASSUME \A n : Waiting(n)' => Waiting(n), UNCHANGED <<published, applied>>
      PROVE  Ordered'
  BY <1>0, <1>1 DEF Ordered
<1>2. ASSUME NEW m \in Messages, Publish(m) \/ PublishAgain(m) PROVE Ordered'
  <2>1. /\ Enqueue(m, TRUE)
        /\ \A n \in published : NoLater(n, m)
        /\ published \subseteq published' /\ m \in published' /\ applied' = applied
    BY <1>2 DEF Publish, PublishAgain, OneByOne, NewestOf, NoLater
  <2>2. \A n : Waiting(n)' <=> Waiting(n) \/ n = m
    BY <2>1, EnqueueWaits
  <2>3. QED
    BY <1>0, <2>1, <2>2 DEF Ordered
<1>3. CASE DropLink \/ Crash \/ Halt
  <2>1. UNCHANGED <<published, applied>> /\ Disconnect
    BY <1>3 DEF DropLink, Crash, Halt
  <2>2. QED
    BY <1>1, <2>1, DisconnectWaits
<1>4. CASE Deliver
  <2>1. UNCHANGED <<published, applied>>
    BY <1>4 DEF Deliver
  <2>2. QED
    BY <1>1, <1>4, <2>1, DeliverWaits
<1>5. CASE (Ack \/ BuryAck) /\ ~LeaveBroken
  <2>1. /\ unacked' = Tail(unacked) /\ queue' = queue /\ unacked # <<>>
        /\ UNCHANGED <<published, applied>>
    BY <1>5 DEF Ack, BuryAck, BasicAck, DeliveryInHand, Steps
  <2>2. QED
    BY <1>1, <2>1, SettleWaits
<1>6. CASE Nack /\ ~LeaveBroken
  <2>1. /\ unacked' = Tail(unacked) /\ queue' = Requeued(<<Head(unacked)>>)
        /\ unacked # <<>> /\ UNCHANGED <<published, applied>>
    BY <1>6 DEF Nack, DeliveryInHand, Steps
  <2>2. QED
    BY <1>1, <2>1, NackWaits
<1>7. ASSUME UNCHANGED <<queue, unacked, published, applied>> PROVE Ordered'
  BY <1>1, <1>7 DEF Waiting
<1>8. CASE (Ack \/ BuryAck \/ Nack) /\ LeaveBroken
  BY <1>7, <1>8 DEF Ack, BuryAck, Nack, LeaveBroken
<1>9. CASE \/ Dispatch \/ LookupCached \/ LookupQueried \/ Read \/ DatabaseFails
           \/ UpdateTouchesNothing \/ Retry \/ Bury \/ Connect \/ Stop
           \/ \E i \in DOMAIN table : DeleteRow(i)
           \/ \E e \in Employees : ChangeStaff(e)
  BY <1>7, <1>9 DEF Dispatch, LookupCached, LookupQueried, Read, DatabaseFails,
      UpdateTouchesNothing, Retry, Bury, Goto, Connect, Stop, DeleteRow, ChangeStaff
<1>10. CASE InsertRow \/ UpdateRow
  <2>1. /\ UNCHANGED <<queue, unacked, published>>
        /\ applied' = applied \cup {current.msg}
        /\ pc \in Steps
    BY <1>10 DEF InsertRow, UpdateRow, Commit, Steps
  <2>2. /\ Waiting(current.msg)
        /\ \A m : Waiting(m) => NoLater(current.msg, m)
    BY <1>0, <2>1, CurrentIsFirst
  <2>3. \A m : Waiting(m)' <=> Waiting(m)
    BY <2>1 DEF Waiting
  <2>4. QED
    BY <1>0, <2>1, <2>2, <2>3 DEF Ordered
<1>11. QED
  BY <1>2, <1>3, <1>4, <1>5, <1>6, <1>8, <1>9, <1>10 DEF Next, Environment, Handle

\* What the departure needs: the line in order unless a dead letter was put back, and
\* rows that stay unless someone removes them.
DepartureInv ==
    /\ spent.replays = 0 => Ordered
    /\ spent.replays = 0 /\ spent.deletes = 0 => DepartureIsLatest

\* A punch that overwrites a row is no earlier than the written punches of that day.
LEMMA DepartureStep ==
    ASSUME OneByOne, TypeOK, DeliveryInHand, DecisionStillFits, DepartureInv, Next
    PROVE  DepartureInv'
<1>0. {"replays", "deletes"} \subseteq Budgets
  BY DEF Budgets
<1>1. ASSUME spent'.replays = 0 PROVE Ordered /\ Ordered'
  <2>1. spent.replays = 0 /\ ~\E m \in Messages : Replay(m)
    BY <1>0, <1>1, SpentGrows
  <2>2. Ordered
    BY <2>1 DEF DepartureInv
  <2>3. QED
    BY <2>1, <2>2, OrderedStep
<1>2. ASSUME spent'.replays = 0, spent'.deletes = 0, NEW m \in applied'
      PROVE  \E i \in DayIds(EmployeeOf[m], DayOf(m))' :
                 table'[i].at >= Stored(LocalTime(m))
  <2> DEFINE e == EmployeeOf[m]
             day == DayOf(m)
  <2>0. /\ spent.deletes = 0
        /\ ~\E i \in DOMAIN table : DeleteRow(i)
        /\ Ordered
        /\ \A n \in applied : \E i \in DayIds(EmployeeOf[n], DayOf(n)) :
              table[i].at >= Stored(LocalTime(n))
    BY <1>0, <1>1, <1>2, SpentGrows DEF DepartureInv, DepartureIsLatest
  <2>1. ~InsertRow /\ ~UpdateRow => applied' = applied
    BY DEF Next, Environment, Handle, Publish, PublishAgain, Replay, DeleteRow,
           ChangeStaff, DropLink, Crash, Stop, Connect, Deliver, Halt, Dispatch,
           LookupCached, LookupQueried, Read, DatabaseFails,
           UpdateTouchesNothing, Ack, Retry, Nack, Bury, BuryAck, Goto, history
  <2>2. /\ current.msg \in Messages
        /\ applied \subseteq Messages
        /\ Stored(LocalTime(current.msg)) \in Int
        /\ InsertRow \/ UpdateRow => /\ applied' = applied \cup {current.msg}
                                     /\ pc = "write"
    BY CurrentType DEF InsertRow, UpdateRow, Commit, TypeOK
  <2>3. CASE table' = table /\ m \in applied
    BY <2>0, <2>3, SameDays
  <2>4. CASE InsertRow
    <3>1. CASE m = current.msg
      <4>1. nextRow \in DayIds(e, day)' /\ table'[nextRow].at = Stored(LocalTime(m))
        BY <2>4, <3>1, InsertedDays DEF RowFor
      <4>2. QED
        BY <2>2, <3>1, <4>1
    <3>2. CASE m \in applied
      <4>1. PICK i \in DayIds(e, day) : table[i].at >= Stored(LocalTime(m))
        BY <2>0, <3>2
      <4>2. i \in DayIds(e, day)' /\ table'[i] = table[i]
        BY <2>4, <4>1, InsertedDays, DayIdsType
      <4>3. QED
        BY <4>1, <4>2
    <3>3. QED
      BY <1>2, <2>2, <2>4, <3>1, <3>2
  <2>5. CASE UpdateRow
    <3> DEFINE k == decision.id
    <3>1. k \in DayIds(EmployeeOf[current.msg], DayOf(current.msg))
      BY <2>0, <2>5, DayRowsDomain DEF UpdateRow, DecisionStillFits
    <3>2. /\ DayIds(e, day)' = DayIds(e, day)
          /\ \A j \in DayIds(e, day) \ {k} : table'[j] = table[j]
          /\ table'[k].at = Stored(LocalTime(current.msg))
      BY <2>5, UpdatedDays
    <3>3. Stored(LocalTime(m)) <= Stored(LocalTime(current.msg))
      <4>1. CASE m = current.msg
        BY <2>2, <4>1
      <4>2. CASE m \in applied
        <5>1. Waiting(current.msg)
          BY <2>0, <2>2, <2>5, CurrentIsFirst DEF Ordered, Steps
        <5>2. NoLater(m, current.msg)
          BY <2>0, <4>2, <5>1 DEF Ordered
        <5>3. QED
          BY <2>2, <4>2, <5>2, NoLaterOrder
      <4>3. QED
        BY <1>2, <2>2, <2>5, <4>1, <4>2
    <3>4. CASE m = current.msg
      BY <2>2, <3>1, <3>2, <3>4
    <3>5. CASE m \in applied
      <4>1. PICK i \in DayIds(e, day) : table[i].at >= Stored(LocalTime(m))
        BY <2>0, <3>5
      <4>2. CASE i = k
        BY <2>2, <3>2, <3>3, <4>1, <4>2
      <4>3. CASE i # k
        BY <3>2, <4>1, <4>3
      <4>4. QED
        BY <4>2, <4>3
    <3>6. QED
      BY <1>2, <2>2, <2>5, <3>4, <3>5
  <2>6. QED
    BY <1>2, <2>0, <2>1, <2>3, <2>4, <2>5, WhoWrites
<1>3. QED
  BY <1>1, <1>2 DEF DepartureInv, DepartureIsLatest

\* What writing a message again would take: the day's rows, none of them near it.
LEMMA WrittenIsNear ==
    ASSUME OneByOne, Gap > 0, TypeOK, DeliveryInHand, WriteIsSpaced,
           RowsComeFromPunches, Ordered, DepartureIsLatest
    PROVE  RedeliveryChangesNothing
<1> SUFFICES ASSUME pc = "write", current.msg \in applied PROVE FALSE
  BY DEF RedeliveryChangesNothing
<1> DEFINE m == current.msg
<1>1. PICK i \in DayIds(EmployeeOf[m], DayOf(m)) : table[i].at >= Stored(LocalTime(m))
  BY DEF DepartureIsLatest
<1>2. PICK n \in applied : table[i] = RowFor(n)
  BY <1>1 DEF RowsComeFromPunches, DayIds
<1>3. m \in Messages /\ n \in Messages
  BY <1>2 DEF TypeOK
<1>4. NoLater(n, m)
  BY <1>2, CurrentIsFirst DEF Ordered, Steps
<1>5. Stored(LocalTime(n)) <= Stored(LocalTime(m)) /\ table[i].at = Stored(LocalTime(n))
  BY <1>2, <1>3, <1>4, NoLaterOrder DEF RowFor
<1>6. LocalTime(m) \in Int /\ Stored(LocalTime(m)) \in Int
      /\ Stored(LocalTime(n)) \in Int /\ Gap \in Nat
  BY <1>3, MessageTimes, StoredType, PolicyAssumption
<1>7. table[i].at = Stored(LocalTime(m))
  BY <1>1, <1>5, <1>6
<1>8. Distance(LocalTime(m), Stored(LocalTime(m))) >= Gap
  BY <1>1, <1>7 DEF WriteIsSpaced
<1>9. /\ Distance(LocalTime(m), Stored(LocalTime(m))) < Gap
      /\ Distance(LocalTime(m), Stored(LocalTime(m))) \in Int
  BY <1>6, StoredIsNear DEF Distance
<1>10. QED
  BY <1>6, <1>8, <1>9

\* Together with what is known of the rows: the invariant of one publisher.
OrderInv == SafetyInv /\ RowsComeFromPunches /\ WriteIsSpaced /\ DepartureInv

\* It is one: each part is kept with the help of the others.
LEMMA OneByOneInvariant ==
    ASSUME OneByOne
    PROVE  Spec => []OrderInv
<1> DEFINE IInv == WriteIsSpaced /\ DepartureInv
<1>1. Init => IInv
  <2> SUFFICES ASSUME Init PROVE IInv
    OBVIOUS
  <2>1. queue = <<>> /\ unacked = <<>> /\ pc = "down" /\ applied = {}
    BY DEF Init
  <2>2. Len(unacked) = 0 /\ DOMAIN queue = {} /\ DOMAIN unacked = {}
    BY <2>1
  <2>3. QED
    BY <2>1, <2>2 DEF WriteIsSpaced, DepartureInv, Ordered, InLine, Waiting, Steps,
       DepartureIsLatest
<1>2. SafetyInv /\ IInv /\ [Next]_vars => IInv'
  <2> SUFFICES ASSUME SafetyInv, IInv, [Next]_vars PROVE IInv'
    OBVIOUS
  <2>1. TypeOK /\ DeliveryInHand /\ DecisionStillFits /\ TwoRowsPerDay
    BY DEF SafetyInv
  <2>2. CASE Next
    BY <2>1, <2>2, WriteIsSpacedStep, DepartureStep
  <2>3. CASE UNCHANGED vars
    BY <2>3 DEF vars, broker, memory, erp, history, WriteIsSpaced, DepartureInv, Ordered,
        InLine, Waiting, DepartureIsLatest, DayIds
  <2>4. QED
    BY <2>2, <2>3
<1> HIDE DEF IInv
<1>3. SafetyInv /\ IInv /\ RowsComeFromPunches => OrderInv
  BY DEF OrderInv, IInv
<1>4. QED
  BY <1>1, <1>2, <1>3, Safety, RowsArePunches, PTL DEF Spec

\* policy.py:11, the second row "always holds the latest punch", through retries,
\* redeliveries, duplicates and crashes: with one publisher and one delivery outstanding,
\* as long as nobody removes rows or puts dead letters back.
THEOREM DepartureStaysLatest ==
    ASSUME OneByOne
    PROVE  Spec => [](spent.replays = 0 /\ spent.deletes = 0 => DepartureIsLatest)
<1>1. OrderInv => (spent.replays = 0 /\ spent.deletes = 0 => DepartureIsLatest)
  BY DEF OrderInv, DepartureInv
<1>2. QED
  BY <1>1, OneByOneInvariant, PTL

\* policy.py:77, the gap check "makes an at-least-once redelivery a no-op": under the same
\* conditions no message that was written is written again.
THEOREM RedeliveriesAreNoOps ==
    ASSUME OneByOne, Gap > 0
    PROVE  Spec => [](spent.replays = 0 /\ spent.deletes = 0 => RedeliveryChangesNothing)
<1>1. OrderInv => (spent.replays = 0 /\ spent.deletes = 0 => RedeliveryChangesNothing)
  <2> SUFFICES ASSUME OrderInv, spent.replays = 0, spent.deletes = 0
               PROVE  RedeliveryChangesNothing
    OBVIOUS
  <2>1. /\ TypeOK /\ DeliveryInHand /\ WriteIsSpaced /\ RowsComeFromPunches
        /\ Ordered /\ DepartureIsLatest
    BY DEF OrderInv, SafetyInv, DepartureInv
  <2>2. QED
    BY <2>1, WrittenIsNear
<1>2. QED
  BY <1>1, OneByOneInvariant, PTL

\* On a grid of seconds: a time a gap after a stored one is stored a gap after it.
LEMMA GapSurvivesStoring ==
    ASSUME NEW t \in Int, NEW u \in Int, t >= Stored(u) + Gap
    PROVE  Stored(t) >= Stored(u) + Gap
<1>1. SecondTicks \in Nat \ {0} /\ Gap \in Nat /\ Gap % SecondTicks = 0
  BY PolicyAssumption
<1>2. PICK g \in Int : Gap = g * SecondTicks
  BY <1>1
<1>3. PICK x \in Int : x = u \div SecondTicks
  BY <1>1
<1>4. PICK y \in Int : y = t \div SecondTicks
  BY <1>1
<1>5. t - y * SecondTicks \in 0 .. SecondTicks - 1
  BY <1>1, <1>4
<1>6. t >= (x + g) * SecondTicks
  BY <1>1, <1>2, <1>3 DEF Stored
<1>7. y >= x + g
  BY <1>1, <1>2, <1>3, <1>4, <1>5, <1>6
<1>8. y * SecondTicks >= (x + g) * SecondTicks
  BY <1>1, <1>7
<1>9. QED
  BY <1>1, <1>2, <1>3, <1>4, <1>8 DEF Stored

-----------------------------------------------------------------------------
(* The sheet of a day, by the number of its rows.                           *)

\* What SheetOf makes of the rows of a day.
Sheet(rows) ==
    CASE Cardinality(DOMAIN rows) = 0 -> <<>>
      [] Cardinality(DOMAIN rows) = 1 -> <<rows[FirstRow(rows)]>>
      [] OTHER -> <<rows[FirstRow(rows)], rows[SecondRow(rows)]>>

TimesOf(e, day) == [i \in DayIds(e, day) |-> table[i].at]

\* SheetOf looks at the times only, before a step and after it.
LEMMA SheetIsOfTimes ==
    ASSUME NEW e, NEW day
    PROVE  /\ SheetOf(e, day) = Sheet(TimesOf(e, day))
           /\ SheetOf(e, day)' = Sheet(TimesOf(e, day)')
BY DEF SheetOf, Sheet, TimesOf

\* A second time behind the first.
LEMMA SecondTime ==
    ASSUME NEW a \in Int, NEW b \in Int
    PROVE  Append(<<a>>, b) = <<a, b>> /\ Len(<<a>>) = 1 /\ <<a>>[1] = a
<1>1. <<a>> \in Seq(Int) /\ Len(<<a>>) = 1 /\ <<a>>[1] = a
  OBVIOUS
<1>2. PICK q \in Seq(Int) : q = Append(<<a>>, b)
  BY <1>1, AppendProperties
<1>3. Len(q) = 2 /\ q[1] = a /\ q[2] = b
  BY <1>1, <1>2, AppendProperties
<1>4. q = <<a, b>>
  BY <1>3
<1>5. QED
  BY <1>1, <1>2, <1>4

\* A day without rows.
LEMMA SheetOfNone ==
    ASSUME NEW rows, DOMAIN rows = {}
    PROVE  Sheet(rows) = <<>>
BY FS_EmptySet DEF Sheet

\* A day with one row.
LEMMA SheetOfOne ==
    ASSUME NEW i \in Nat, NEW rows \in [{i} -> Int]
    PROVE  Sheet(rows) = <<rows[i]>>
<1>1. DOMAIN rows = {i} /\ rows[i] \in Int
  OBVIOUS
<1>2. Cardinality({i}) = 1
  BY FS_Singleton
<1>3. Before(rows, i) = {}
  BY <1>1 DEF Before, Precedes
<1>4. FirstRow(rows) = i
  BY <1>1, <1>3 DEF FirstRow
<1>5. QED
  BY <1>1, <1>2, <1>4 DEF Sheet

\* The earlier row comes first; of two rows of one time either order gives the same.
LEMMA SheetOfTwo ==
    ASSUME NEW i \in Nat, NEW j \in Nat, i # j,
           NEW rows \in [{i, j} -> Int], rows[i] <= rows[j]
    PROVE  Sheet(rows) = <<rows[i], rows[j]>>
<1>1. DOMAIN rows = {i, j} /\ rows[i] \in Int /\ rows[j] \in Int
  OBVIOUS
<1>2. Cardinality({i, j}) = 2
  <2>1. Cardinality({j}) = 1 /\ IsFiniteSet({j})
    BY FS_Singleton
  <2>2. Cardinality({j} \cup {i}) = Cardinality({j}) + 1
    BY <2>1, FS_AddElement
  <2>3. {i, j} = {j} \cup {i}
    OBVIOUS
  <2>4. QED
    BY <2>1, <2>2, <2>3
<1>3. ASSUME NEW a, NEW b, {a, b} = {i, j}, a # b, Precedes(rows, a, b)
      PROVE  FirstRow(rows) = a /\ SecondRow(rows) = b
  <2>1. /\ a \in Nat /\ b \in Nat /\ DOMAIN rows = {a, b}
        /\ rows[a] \in Int /\ rows[b] \in Int
    BY <1>1, <1>3
  <2>2. Before(rows, a) = {} /\ Before(rows, b) = {a}
    BY <1>3, <2>1 DEF Before, Precedes
  <2>3. Cardinality({a}) = 1 /\ Cardinality({}) = 0
    BY FS_Singleton, FS_EmptySet
  <2>4. FirstRow(rows) = a
    BY <2>1, <2>2 DEF FirstRow
  <2>5. SecondRow(rows) = b
    BY <2>1, <2>2, <2>3 DEF SecondRow
  <2>6. QED
    BY <2>4, <2>5
<1>4. Sheet(rows) = <<rows[FirstRow(rows)], rows[SecondRow(rows)]>>
  BY <1>1, <1>2 DEF Sheet
<1>5. CASE Precedes(rows, i, j)
  BY <1>3, <1>4, <1>5
<1>6. CASE ~Precedes(rows, i, j)
  <2>1. rows[i] = rows[j] /\ Precedes(rows, j, i)
    BY <1>1, <1>6 DEF Precedes
  <2>2. FirstRow(rows) = j /\ SecondRow(rows) = i
    BY <1>3, <2>1
  <2>3. QED
    BY <1>4, <2>1, <2>2
<1>7. QED
  BY <1>5, <1>6

-----------------------------------------------------------------------------
(* The consumer implements the ledger.                                      *)

\* Whoever is written comes at least the gap after every row of its day.
LEMMA WriteMovesForward ==
    ASSUME OneByOne, TypeOK, DeliveryInHand, WriteIsSpaced, RowsComeFromPunches, Ordered,
           pc = "write", NEW i \in DayIds(EmployeeOf[current.msg], DayOf(current.msg))
    PROVE  Stored(LocalTime(current.msg)) >= table[i].at + Gap
<1> DEFINE m == current.msg
<1>1. PICK n \in applied : table[i] = RowFor(n)
  BY DEF RowsComeFromPunches, DayIds
<1>2. m \in Messages /\ n \in Messages
  BY <1>1, CurrentType DEF TypeOK
<1>3. NoLater(n, m)
  BY <1>1, CurrentIsFirst DEF Ordered, Steps
<1>4. PICK u \in Int : u = LocalTime(n)
  BY <1>2, MessageTimes
<1>5. PICK t \in Int : t = LocalTime(m)
  BY <1>2, MessageTimes
<1>6. u <= t /\ table[i].at = Stored(u)
  BY <1>1, <1>2, <1>3, <1>4, <1>5, NoLaterOrder DEF RowFor
<1>7. Stored(u) <= u /\ Stored(u) \in Int
  <2>1. SecondTicks \in Nat \ {0}
    BY PolicyAssumption
  <2>2. u - (u \div SecondTicks) * SecondTicks \in 0 .. SecondTicks - 1
    BY <1>4, <2>1
  <2>3. QED
    BY <1>4, <2>1, <2>2, StoredType DEF Stored
<1>8. Gap > 0 => Distance(t, Stored(u)) >= Gap
  <2>1. Gap > 0 => Distance(LocalTime(m), table[i].at) >= Gap
    BY DEF WriteIsSpaced
  <2>2. QED
    BY <1>5, <1>6, <2>1
<1>9. t >= Stored(u) + Gap
  <2>1. Gap \in Nat
    BY PolicyAssumption
  <2>2. QED
    BY <1>4, <1>5, <1>6, <1>7, <1>8, <2>1 DEF Distance
<1>10. Stored(t) >= Stored(u) + Gap
  BY <1>4, <1>5, <1>9, GapSurvivesStoring
<1>11. QED
  BY <1>5, <1>6, <1>10

\* The ledger as the table shows it.
LedgerNow == [s \in Employees \X Days |-> SheetOf(s[1], s[2])]

\* The entry of one employee and day.
LEMMA SheetAt ==
    ASSUME NEW e \in Employees, NEW day \in Days
    PROVE  /\ <<e, day>> \in Employees \X Days
           /\ LedgerNow[<<e, day>>] = SheetOf(e, day)
           /\ LedgerNow'[<<e, day>>] = SheetOf(e, day)'
BY DEF LedgerNow

\* Days whose rows stay keep their sheets.
LEMMA SheetStays ==
    ASSUME NEW e, NEW day, DayIds(e, day)' = DayIds(e, day),
           \A i \in DayIds(e, day) : table'[i] = table[i]
    PROVE  SheetOf(e, day)' = SheetOf(e, day)
<1>1. [i \in DayIds(e, day)' |-> table'[i].at] = [i \in DayIds(e, day) |-> table[i].at]
  OBVIOUS
<1>2. QED
  BY <1>1 DEF SheetOf

\* Changing one sheet is an EXCEPT on the ledger.
LEMMA OneSheetChanges ==
    ASSUME NEW s \in Employees \X Days, NEW sheet,
           SheetOf(s[1], s[2])' = sheet,
           \A e \in Employees, day \in Days :
               <<e, day>> # s => SheetOf(e, day)' = SheetOf(e, day)
    PROVE  LedgerNow' = [LedgerNow EXCEPT ![s] = sheet]
<1>1. LedgerNow' = [r \in Employees \X Days |-> SheetOf(r[1], r[2])']
  BY DEF LedgerNow
<1>2. ASSUME NEW r \in Employees \X Days
      PROVE  SheetOf(r[1], r[2])' = IF r = s THEN sheet ELSE LedgerNow[r]
  BY DEF LedgerNow
<1>3. DOMAIN LedgerNow = Employees \X Days
  BY DEF LedgerNow
<1> HIDE DEF LedgerNow
<1>4. QED
  BY <1>1, <1>2, <1>3

-----------------------------------------------------------------------------
\* A write is a step of the ledger.
LEMMA WriteIsLedgerStep ==
    ASSUME OneByOne, TypeOK, DeliveryInHand, DecisionStillFits, TwoRowsPerDay, WriteIsSpaced,
           RowsComeFromPunches, Ordered, spent.deletes = 0, InsertRow \/ UpdateRow
    PROVE  Ledger!Next
<1> DEFINE m == current.msg
<1>1. PICK e \in Employees : e = EmployeeOf[m]
  BY CurrentType
<1>2. PICK day \in Days : day = DayOf(m)
  BY CurrentType, MessageTimes
<1>3. PICK t \in {Stored(LocalTime(n)) : n \in Messages} : t = Stored(LocalTime(m))
  BY CurrentType
<1>4. PICK s \in Employees \X Days : s = <<e, day>>
  OBVIOUS
<1>5. s[1] = e /\ s[2] = day /\ LedgerNow[s] = SheetOf(e, day)
  BY <1>4, SheetAt
<1>6. /\ pc = "write" /\ t \in Int /\ Gap \in Nat
      /\ \A i \in DayIds(e, day) : t >= table[i].at + Gap /\ table[i].at \in Int
      /\ IsFiniteSet(DayIds(e, day))
      /\ Cardinality(DayIds(e, day)) \in Nat
  <2>1. pc = "write"
    BY DEF InsertRow, UpdateRow
  <2>2. \A i \in DayIds(e, day) : t >= table[i].at + Gap
    BY <1>1, <1>2, <1>3, <2>1, WriteMovesForward
  <2>3. \A i \in DayIds(e, day) : table[i].at \in Int
    BY DEF TypeOK, Row, DayIds
  <2>4. t \in Int /\ Gap \in Nat
    BY <1>3, CurrentType, StoredType, PolicyAssumption
  <2>5. QED
    BY <2>1, <2>2, <2>3, <2>4, DayIdsType
<1>7. ASSUME NEW f \in Employees, NEW d \in Days, <<f, d>> # s
      PROVE  SheetOf(f, d)' = SheetOf(f, d)
  <2>1. ~(f = EmployeeOf[m] /\ d = DayOf(m))
    BY <1>1, <1>2, <1>4, <1>7
  <2>2. CASE InsertRow
    BY <2>1, <2>2, InsertedDays, DayIdsType, SheetStays
  <2>3. CASE UpdateRow
    <3>1. decision.id \in DayIds(EmployeeOf[m], DayOf(m))
      BY <2>3, DayRowsDomain DEF UpdateRow, DecisionStillFits
    <3>2. decision.id \notin DayIds(f, d)
      BY <2>1, <3>1 DEF DayIds
    <3>3. QED
      BY <2>3, <3>2, UpdatedDays, SheetStays
  <2>4. QED
    BY <2>2, <2>3
<1>8. ASSUME NEW sheet, SheetOf(e, day)' = sheet
      PROVE  LedgerNow' = [LedgerNow EXCEPT ![s] = sheet]
  BY <1>5, <1>7, <1>8, OneSheetChanges
<1>9. TypeOK'
  BY HandleType DEF Handle
<1>10. SUFFICES ASSUME TRUE
                PROVE  \/ Ledger!CheckIn(s, t)
                       \/ Ledger!CheckOut(s, t)
                       \/ Ledger!MoveCheckOut(s, t)
  BY DEF Ledger!Next
<1>11. CASE InsertRow /\ DayIds(e, day) = {}
  <2>1. DayIds(e, day)' = {nextRow} /\ table'[nextRow].at = t
    BY <1>1, <1>2, <1>3, <1>11, InsertedDays DEF RowFor
  <2>2. SheetOf(e, day)' = <<t>>
    <3>1. /\ TimesOf(e, day)' \in [{nextRow} -> Int] /\ TimesOf(e, day)'[nextRow] = t
          /\ nextRow \in Nat
      BY <1>6, <2>1 DEF TimesOf, TypeOK
    <3>2. QED
      BY <3>1, SheetOfOne, SheetIsOfTimes
  <2>3. SheetOf(e, day) = <<>>
    BY <1>11, SheetOfNone, SheetIsOfTimes DEF TimesOf
  <2>4. QED
    BY <1>5, <1>8, <2>2, <2>3 DEF Ledger!CheckIn, LedgerNow
<1>12. CASE InsertRow /\ DayIds(e, day) # {}
  <2>1. PICK i : DayIds(e, day) = {i}
    <3>1. Cardinality(DayIds(e, day)) < 2
      BY <1>1, <1>2, <1>12, DayRowsDomain DEF InsertRow, DecisionStillFits
    <3>2. Cardinality(DayIds(e, day)) = 1
      <4>1. Cardinality(DayIds(e, day)) # 0
        BY <1>6, <1>12, FS_EmptySet
      <4>2. QED
        BY <1>6, <3>1, <4>1
    <3>3. QED
      BY <1>6, <3>2, FS_Singleton
  <2>2. /\ DayIds(e, day)' = {i, nextRow} /\ i # nextRow
        /\ table'[nextRow].at = t /\ table'[i] = table[i]
    BY <1>1, <1>2, <1>3, <1>12, <2>1, InsertedDays, DayIdsType DEF RowFor
  <2>3. t >= table[i].at + Gap /\ table'[i].at <= table'[nextRow].at
    BY <1>6, <2>1, <2>2
  <2>4. SheetOf(e, day)' = <<table[i].at, t>>
    <3>1. i \in Nat /\ nextRow \in Nat /\ table[i].at \in Int /\ i \in DayIds(e, day)
      BY <1>6, <2>1, DayIdsType DEF TypeOK
    <3>2. PICK f : f = TimesOf(e, day)'
      OBVIOUS
    <3>3. /\ f \in [{i, nextRow} -> Int]
          /\ f[i] = table[i].at /\ f[nextRow] = t
      BY <1>6, <2>2, <3>1, <3>2 DEF TimesOf
    <3>4. Sheet(f) = <<table[i].at, t>>
      BY <2>2, <2>3, <3>1, <3>3, SheetOfTwo
    <3>5. QED
      BY <3>2, <3>4, SheetIsOfTimes
  <2>5. SheetOf(e, day) = <<table[i].at>>
    <3>1. /\ TimesOf(e, day) \in [{i} -> Int] /\ TimesOf(e, day)[i] = table[i].at
          /\ i \in Nat
      BY <1>6, <2>1, DayIdsType DEF TimesOf
    <3>2. QED
      BY <3>1, SheetOfOne, SheetIsOfTimes
  <2>6. Append(SheetOf(e, day), t) = <<table[i].at, t>> /\ Len(SheetOf(e, day)) = 1
        /\ SheetOf(e, day)[1] = table[i].at
    <3>1. PICK a \in Int : a = table[i].at
      BY <1>6, <2>1
    <3>2. SheetOf(e, day) = <<a>>
      BY <2>5, <3>1
    <3>3. Append(<<a>>, t) = <<a, t>> /\ Len(<<a>>) = 1 /\ <<a>>[1] = a
      BY <1>6, SecondTime
    <3>4. QED
      BY <3>1, <3>2, <3>3
  <2>7. QED
    BY <1>5, <1>6, <1>8, <2>1, <2>3, <2>4, <2>5, <2>6 DEF Ledger!CheckOut, LedgerNow
<1>13. CASE UpdateRow
  <2>1. PICK k \in DayIds(e, day) : k = decision.id
    BY <1>1, <1>2, <1>13, DayRowsDomain DEF UpdateRow, DecisionStillFits
  <2>2. PICK i \in DayIds(e, day) \ {k} : table[i].at <= table[k].at
    BY <1>1, <1>2, <1>13, <2>1, DayRowsDomain DEF UpdateRow, DecisionStillFits
  <2>3. DayIds(e, day) = {i, k}
    <3>1. PICK c \in Nat : c = Cardinality(DayIds(e, day)) /\ c <= 2
      BY <1>6 DEF TwoRowsPerDay
    <3>2. Cardinality(DayIds(e, day)) = 2
      <4>1. Cardinality(DayIds(e, day)) # 0
        BY <1>6, <2>2, FS_EmptySet
      <4>2. Cardinality(DayIds(e, day)) # 1
        BY <1>6, <2>1, <2>2, FS_Singleton
      <4>3. QED
        BY <3>1, <4>1, <4>2
    <3>3. QED
      BY <1>6, <2>2, <3>2, PairOf
  <2>4. /\ DayIds(e, day)' = {i, k}
        /\ table'[i] = table[i] /\ table'[k].at = t
    BY <1>3, <1>13, <2>1, <2>2, <2>3, UpdatedDays
  <2>5. t >= table[k].at + Gap /\ table'[i].at <= table'[k].at
    BY <1>6, <2>1, <2>2, <2>4
  <2>6. SheetOf(e, day) = <<table[i].at, table[k].at>>
    <3>1. i \in Nat /\ k \in Nat /\ table[i].at \in Int /\ table[k].at \in Int
      BY <1>6, <2>1, <2>2, DayIdsType
    <3>2. PICK f : f = TimesOf(e, day)
      OBVIOUS
    <3>3. /\ f \in [{i, k} -> Int]
          /\ f[i] = table[i].at /\ f[k] = table[k].at
      BY <2>3, <3>1, <3>2 DEF TimesOf
    <3>4. Sheet(f) = <<table[i].at, table[k].at>>
      BY <2>2, <3>1, <3>3, SheetOfTwo
    <3>5. QED
      BY <3>2, <3>4, SheetIsOfTimes
  <2>7. SheetOf(e, day)' = <<table[i].at, t>>
    <3>1. i \in Nat /\ k \in Nat /\ table[i].at \in Int
      BY <1>6, <2>1, <2>2, DayIdsType
    <3>2. PICK f : f = TimesOf(e, day)'
      OBVIOUS
    <3>3. /\ f \in [{i, k} -> Int]
          /\ f[i] = table[i].at /\ f[k] = t
      BY <1>6, <2>4, <3>1, <3>2 DEF TimesOf
    <3>4. Sheet(f) = <<table[i].at, t>>
      BY <2>2, <2>4, <2>5, <3>1, <3>3, SheetOfTwo
    <3>5. QED
      BY <3>2, <3>4, SheetIsOfTimes
  <2>8. /\ Len(SheetOf(e, day)) = 2 /\ SheetOf(e, day)[2] = table[k].at
        /\ [SheetOf(e, day) EXCEPT ![2] = t] = <<table[i].at, t>>
    BY <2>6
  <2>9. QED
    BY <1>5, <1>8, <2>5, <2>7, <2>8 DEF Ledger!MoveCheckOut, LedgerNow
<1>14. QED
  BY <1>11, <1>12, <1>13

-----------------------------------------------------------------------------
\* Nobody removes rows or puts dead letters back where the bounds forbid it.
LEMMA NothingRemoved ==
    ASSUME TypeOK, Next, MaxDeletes = 0, MaxReplays = 0,
           spent.deletes = 0, spent.replays = 0
    PROVE  spent'.deletes = 0 /\ spent'.replays = 0
<1>0. /\ spent \in [Budgets -> Nat]
      /\ {"faults", "stops", "duplicates", "staff", "deletes", "replays"} = Budgets
  BY DEF TypeOK, Budgets
<1>1. ASSUME NEW b \in Budgets \ {"deletes", "replays"}, NEW limit, Spend(b, limit)
      PROVE  spent'.deletes = 0 /\ spent'.replays = 0
  BY <1>0, <1>1 DEF Spend
<1>2. ASSUME NEW i \in DOMAIN table, DeleteRow(i) PROVE FALSE
  BY <1>2 DEF DeleteRow, Spend
<1>3. ASSUME NEW m \in Messages, Replay(m) PROVE FALSE
  BY <1>3 DEF Replay, Spend
<1>4. \/ spent' = spent
      \/ \E b \in Budgets \ {"deletes", "replays"} : \E limit : Spend(b, limit)
  BY <1>0, <1>2, <1>3 DEF Next, Environment, Handle, Publish, PublishAgain, ChangeStaff,
      DropLink, Crash, Stop, Connect, Deliver, Halt, Dispatch, LookupCached,
      LookupQueried, Read, DatabaseFails, InsertRow, UpdateRow, UpdateTouchesNothing,
      Commit, Ack, Retry, Nack, Bury, BuryAck, Goto
<1>5. QED
  BY <1>1, <1>4

\* Nothing happens to the ledger but through a write.
LEMMA LedgerStep ==
    ASSUME OneByOne, OrderInv, spent.deletes = 0, spent.replays = 0,
           MaxDeletes = 0, [Next]_vars
    PROVE  [Ledger!Next]_LedgerNow
<1>1. CASE table' = table
  BY <1>1 DEF LedgerNow, SheetOf, DayIds
<1>2. CASE InsertRow \/ UpdateRow
  BY <1>2, WriteIsLedgerStep DEF OrderInv, SafetyInv, DepartureInv
<1>3. CASE \E i \in DOMAIN table : DeleteRow(i)
  BY <1>3 DEF DeleteRow, Spend
<1>4. QED
  BY <1>1, <1>2, <1>3, WhoWrites DEF vars, erp

\* policy.py:9-15: what a day's rows show is a ledger whose arrival is never changed and
\* whose departure only moves forward, by the gap at least, through every failure.
THEOREM ConsumerImplementsLedger ==
    ASSUME OneByOne, MaxDeletes = 0, MaxReplays = 0
    PROVE  Spec => ImplementsLedger
<1> DEFINE Kept == spent.deletes = 0 /\ spent.replays = 0
<1>1. Init => Kept /\ Ledger!Init
  <2> SUFFICES ASSUME Init PROVE Kept /\ Ledger!Init
    OBVIOUS
  <2>1. Kept
    BY DEF Init, Budgets
  <2>2. \A e, day : DayIds(e, day) = {}
    BY DEF Init, DayIds
  <2>3. \A e, day : SheetOf(e, day) = <<>>
    BY <2>2, SheetOfNone, SheetIsOfTimes DEF TimesOf
  <2>4. QED
    BY <2>1, <2>3 DEF Ledger!Init
<1>2. TypeOK /\ Kept /\ [Next]_vars => Kept'
  BY NothingRemoved DEF vars
<1>3. OrderInv /\ Kept /\ [Next]_vars => [Ledger!Next]_LedgerNow
  BY LedgerStep
<1> HIDE DEF Kept
<1>4. QED
  BY <1>1, <1>2, <1>3, OneByOneInvariant, TypeCorrect, PTL
     DEF Spec, ImplementsLedger, Ledger!Spec, LedgerNow

-----------------------------------------------------------------------------
(* The check-in row.  With one publisher the rows of a day are in order by  *)
(* id as they are by time, so the row that moves is never the first one.    *)

InOrderById ==
    \A i, j \in DOMAIN table :
        i < j /\ table[i].employee = table[j].employee /\ table[i].day = table[j].day
            => table[i].at <= table[j].at

MovesALaterRow ==
    pc = "write" /\ decision.act = "update" =>
        \E j \in DayIds(EmployeeOf[current.msg], DayOf(current.msg)) : j < decision.id

RowOrderInv ==
    spent.replays = 0 /\ spent.deletes = 0 => InOrderById /\ MovesALaterRow

\* The row decide moves is not the one with the lowest id.
LEMMA ReadMovesALaterRow ==
    ASSUME TypeOK, TwoRowsPerDay, InOrderById, Read, decision'.act = "update"
    PROVE  \E j \in DayIds(EmployeeOf[current.msg], DayOf(current.msg)) : j < decision'.id
<1> DEFINE m == current.msg
<1>1. PICK S : S = DayIds(EmployeeOf[m], DayOf(m))
  OBVIOUS
<1>2. PICK rows : rows = DayRows(m)
  OBVIOUS
<1>3. /\ S \subseteq Nat /\ IsFiniteSet(S) /\ Cardinality(S) \in Nat
      /\ S \subseteq DOMAIN table
      /\ rows \in [S -> Int] /\ DOMAIN rows = S
      /\ \A i \in S : rows[i] = table[i].at
  BY <1>1, <1>2, CurrentType, DayIdsType, DayRowsType DEF DayRows
<1>4. Cardinality(S) <= 2
  BY <1>1, CurrentType, MessageTimes DEF TwoRowsPerDay
<1>5. decision' = Decide(rows, LocalTime(m))
  BY <1>2 DEF Read
<1>6. decision'.id = SecondRow(rows) /\ Cardinality(S) = 2
  <2>1. decision' = Update(SecondRow(rows)) /\ ~(Cardinality(S) < 2)
    BY <1>3, <1>5 DEF Decide, Skip, Insert
  <2>2. QED
    BY <1>3, <1>4, <2>1 DEF Update
<1>7. PICK k \in S, j \in S : k = SecondRow(rows) /\ Precedes(rows, j, k)
  BY <1>3, <1>6, SecondRowOfTwo
<1>8. /\ j \in Nat /\ k \in Nat /\ rows[j] \in Int /\ rows[k] \in Int
      /\ table[j].employee = table[k].employee /\ table[j].day = table[k].day
  BY <1>1, <1>3 DEF DayIds
<1>9. ~(k < j) \/ rows[k] <= rows[j]
  BY <1>3, <1>8 DEF InOrderById
<1>10. j < k
  BY <1>7, <1>8, <1>9 DEF Precedes
<1>11. QED
  BY <1>1, <1>6, <1>7, <1>10

\* A new row has the highest id and the latest time; a row that moves, moves forward and
\* is the last of its day.
LEMMA RowOrderStep ==
    ASSUME OneByOne, OrderInv, RowOrderInv, Next
    PROVE  RowOrderInv'
<1> SUFFICES ASSUME spent'.replays = 0, spent'.deletes = 0
             PROVE  InOrderById' /\ MovesALaterRow'
  BY DEF RowOrderInv
<1>1. /\ TypeOK /\ DeliveryInHand /\ DecisionStillFits /\ TwoRowsPerDay
      /\ WriteIsSpaced /\ RowsComeFromPunches
  BY DEF OrderInv, SafetyInv
<1>2. /\ spent.replays = 0 /\ spent.deletes = 0
      /\ ~\E i \in DOMAIN table : DeleteRow(i)
  BY <1>1, SpentGrows DEF Budgets
<1>3. InOrderById /\ MovesALaterRow /\ Ordered
  BY <1>2 DEF RowOrderInv, OrderInv, DepartureInv
<1>4. MovesALaterRow'
  <2>1. CASE pc' = "write" /\ Read /\ UNCHANGED <<table, current>>
    BY <1>1, <1>3, <2>1, ReadMovesALaterRow DEF MovesALaterRow, DayIds
  <2>2. CASE pc = "write" /\ UNCHANGED <<table, current, decision>>
    BY <1>3, <2>2 DEF MovesALaterRow, DayIds
  <2>3. QED
    BY <1>2, <2>1, <2>2, WhoDecides DEF MovesALaterRow
<1>5. ASSUME NEW i \in DayIds(EmployeeOf[current.msg], DayOf(current.msg)), pc = "write"
      PROVE  table[i].at <= Stored(LocalTime(current.msg))
  <2>1. Stored(LocalTime(current.msg)) >= table[i].at + Gap
    BY <1>1, <1>3, <1>5, WriteMovesForward
  <2>2. table[i].at \in Int /\ Stored(LocalTime(current.msg)) \in Int /\ Gap \in Nat
    BY <1>1, CurrentType, StoredType, PolicyAssumption DEF TypeOK, Row, DayIds
  <2>3. QED
    BY <2>1, <2>2
<1>6. CASE table' = table
  BY <1>3, <1>4, <1>6 DEF InOrderById
<1>7. CASE InsertRow
  <2>1. /\ pc = "write"
        /\ DOMAIN table' = DOMAIN table \cup {nextRow}
        /\ nextRow \notin DOMAIN table
        /\ table'[nextRow] = RowFor(current.msg)
        /\ \A j \in DOMAIN table : table'[j] = table[j]
    BY <1>1, <1>7, InsertedDays DEF InsertRow, Commit
  <2>2. \A j \in DOMAIN table : ~(nextRow < j)
    BY <1>1 DEF TypeOK
  <2>3. /\ RowFor(current.msg).employee = EmployeeOf[current.msg]
        /\ RowFor(current.msg).day = DayOf(current.msg)
        /\ RowFor(current.msg).at = Stored(LocalTime(current.msg))
        /\ RowFor(current.msg).at \in Int
    BY <1>1, CurrentType DEF RowFor
  <2>4. ASSUME NEW i \in DOMAIN table', NEW j \in DOMAIN table', i < j,
               table'[i].employee = table'[j].employee, table'[i].day = table'[j].day
        PROVE  table'[i].at <= table'[j].at
    <3>1. CASE i \in DOMAIN table /\ j \in DOMAIN table
      BY <1>3, <2>1, <2>4, <3>1 DEF InOrderById
    <3>2. CASE i \in DOMAIN table /\ j = nextRow
      BY <1>5, <2>1, <2>3, <2>4, <3>2 DEF DayIds
    <3>3. CASE i = nextRow
      <4>1. nextRow \in Nat
        BY <1>1 DEF TypeOK
      <4>2. QED
        BY <2>1, <2>2, <2>4, <3>3, <4>1
    <3>4. QED
      BY <2>1, <2>4, <3>1, <3>2, <3>3
  <2>5. QED
    BY <1>4, <2>4 DEF InOrderById
<1>8. CASE UpdateRow
  <2>1. PICK k \in DayIds(EmployeeOf[current.msg], DayOf(current.msg)) : k = decision.id
    BY <1>1, <1>2, <1>8, DayRowsDomain DEF UpdateRow, DecisionStillFits
  <2>2. /\ pc = "write"
        /\ table' = [table EXCEPT ![k].at = Stored(LocalTime(current.msg))]
    BY <1>8, <2>1 DEF UpdateRow, Commit
  <2>3. PICK l \in DayIds(EmployeeOf[current.msg], DayOf(current.msg)) : l < k
    BY <1>3, <1>8, <2>1 DEF MovesALaterRow, UpdateRow
  <2>4. DayIds(EmployeeOf[current.msg], DayOf(current.msg)) = {k, l} /\ k \in Nat /\ l \in Nat
    <3>1. PICK S : S = DayIds(EmployeeOf[current.msg], DayOf(current.msg))
      OBVIOUS
    <3>2. /\ IsFiniteSet(S) /\ Cardinality(S) \in Nat /\ S \subseteq Nat
          /\ k \in S /\ l \in S /\ k # l
      BY <1>1, <2>1, <2>3, <3>1, DayIdsType
    <3>3. PICK c \in Nat : c = Cardinality(S) /\ c <= 2
      BY <1>1, <3>1, <3>2, CurrentType, MessageTimes DEF TwoRowsPerDay
    <3>4. c = 2
      <4>1. Cardinality(S) # 0
        BY <3>2, FS_EmptySet
      <4>2. Cardinality(S) # 1
        BY <3>2, FS_Singleton
      <4>3. QED
        BY <3>3, <4>1, <4>2
    <3>5. S = {k, l}
      <4>1. PICK a, b \in S : S = {a, b}
        BY <3>2, <3>3, <3>4, PairOf
      <4>2. QED
        BY <3>2, <4>1
    <3>6. k \in Nat /\ l \in Nat
      BY <3>2
    <3>7. QED
      BY <3>1, <3>5, <3>6
  <2>5. /\ DOMAIN table' = DOMAIN table /\ k \in DOMAIN table
        /\ \A j \in DOMAIN table \ {k} : table'[j] = table[j]
        /\ table'[k].at = Stored(LocalTime(current.msg))
        /\ table'[k].employee = table[k].employee /\ table'[k].day = table[k].day
    <3>1. k \in DOMAIN table /\ table[k] \in Row
      BY <1>1, <2>1 DEF DayIds, TypeOK
    <3>2. QED
      BY <2>2, <3>1 DEF Row
  <2>6. ASSUME NEW i \in DOMAIN table, NEW j \in DOMAIN table, i < j,
               table'[i].employee = table'[j].employee, table'[i].day = table'[j].day
        PROVE  table'[i].at <= table'[j].at
    <3>1. CASE i # k /\ j # k
      BY <1>3, <2>5, <2>6, <3>1 DEF InOrderById
    <3>2. CASE j = k /\ i # k
      <4>1. i \in DayIds(EmployeeOf[current.msg], DayOf(current.msg))
        BY <2>1, <2>5, <2>6, <3>2 DEF DayIds
      <4>2. QED
        BY <1>5, <2>2, <2>5, <3>2, <4>1
    <3>3. CASE i = k
      <4>1. j \in Nat /\ j # k
        BY <1>1, <2>4, <2>6, <3>3 DEF TypeOK
      <4>2. j \in DayIds(EmployeeOf[current.msg], DayOf(current.msg))
        BY <2>1, <2>5, <2>6, <3>3, <4>1 DEF DayIds
      <4>3. j = l
        BY <2>4, <4>1, <4>2
      <4>4. QED
        BY <2>3, <2>4, <2>6, <3>3, <4>3
    <3>4. QED
      BY <3>1, <3>2, <3>3
  <2>7. QED
    BY <1>4, <2>5, <2>6 DEF InOrderById
<1>9. QED
  BY <1>2, <1>4, <1>6, <1>7, <1>8, WhoWrites

\* policy.py:13, "The check-in row is written once and never touched again": with one
\* publisher and one delivery outstanding, where rows stay and dead letters are left
\* alone.  (With two cameras a run refutes it.)
THEOREM CheckInRowStays ==
    ASSUME OneByOne, MaxDeletes = 0, MaxReplays = 0
    PROVE  Spec => CheckInRowWrittenOnce
<1> DEFINE Kept == spent.deletes = 0 /\ spent.replays = 0
           Action == \A i \in DOMAIN table \cap DOMAIN table' :
                        (\A j \in DayIds(table[i].employee, table[i].day) : i <= j)
                            => table'[i] = table[i]
<1>1. Init => Kept /\ RowOrderInv
  BY DEF Init, Budgets, RowOrderInv, InOrderById, MovesALaterRow
<1>2. OrderInv /\ Kept /\ RowOrderInv /\ [Next]_vars => Kept' /\ RowOrderInv'
  <2> SUFFICES ASSUME OrderInv, Kept, RowOrderInv, [Next]_vars PROVE Kept' /\ RowOrderInv'
    OBVIOUS
  <2>1. CASE Next
    BY <2>1, NothingRemoved, RowOrderStep DEF OrderInv, SafetyInv
  <2>2. CASE UNCHANGED vars
    BY <2>2 DEF vars, erp, RowOrderInv, InOrderById, MovesALaterRow, DayIds
  <2>3. QED
    BY <2>1, <2>2
<1>3. OrderInv /\ Kept /\ RowOrderInv /\ [Next]_vars => [Action]_vars
  <2> SUFFICES ASSUME OrderInv, Kept, RowOrderInv, Next,
                      NEW i \in DOMAIN table \cap DOMAIN table',
                      \A j \in DayIds(table[i].employee, table[i].day) : i <= j
               PROVE  table'[i] = table[i]
    OBVIOUS
  <2>1. TypeOK /\ DecisionStillFits /\ MovesALaterRow
    BY DEF OrderInv, SafetyInv, RowOrderInv
  <2>2. CASE InsertRow
    BY <2>1, <2>2, InsertedDays
  <2>3. CASE UpdateRow
    <3>1. /\ pc = "write" /\ decision.act = "update"
          /\ table' = [table EXCEPT ![decision.id].at = Stored(LocalTime(current.msg))]
          /\ decision.id \in DayIds(EmployeeOf[current.msg], DayOf(current.msg))
      BY <2>1, <2>3, DayRowsDomain DEF UpdateRow, Commit, DecisionStillFits
    <3>2. CASE i = decision.id
      <4>1. PICK j \in DayIds(EmployeeOf[current.msg], DayOf(current.msg)) : j < i
        BY <2>1, <3>1, <3>2 DEF MovesALaterRow
      <4>2. i <= j
        BY <3>1, <3>2, <4>1 DEF DayIds
      <4>3. i \in Nat /\ j \in Nat
        BY <2>1, <4>1, DayIdsType DEF TypeOK
      <4>4. QED
        BY <4>1, <4>2, <4>3
    <3>3. QED
      BY <3>1, <3>2
  <2>4. CASE \E k \in DOMAIN table : DeleteRow(k)
    BY <2>4 DEF DeleteRow
  <2>5. QED
    BY <2>2, <2>3, <2>4, WhoWrites
<1> HIDE DEF Kept
<1>4. QED
  BY <1>1, <1>2, <1>3, OneByOneInvariant, PTL DEF Spec, CheckInRowWrittenOnce
===============================================================================
