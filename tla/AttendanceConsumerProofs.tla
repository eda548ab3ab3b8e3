---------------------- MODULE AttendanceConsumerProofs ----------------------
(***************************************************************************)
(* Theorems about AttendanceConsumer for every set of messages and         *)
(* employees, every bound, any order of arrival and any prefetch window.   *)
(***************************************************************************)
EXTENDS AttendanceConsumer, FiniteSetTheorems, SequenceTheorems, TLAPS

-----------------------------------------------------------------------------
(* The policy.                                                              *)

\* What is stored is an integer number of ticks (format_datetime).
LEMMA StoredType ==
    ASSUME NEW t \in Int
    PROVE  Stored(t) \in Int
BY PolicyAssumption DEF Stored

\* A message has a local time, a day and an employee, and makes a row.
LEMMA MessageTimes ==
    ASSUME NEW m \in Messages
    PROVE  /\ LocalTime(m) \in Int
           /\ DayOf(m) \in Days
           /\ EmployeeOf[m] \in Employees
           /\ RowFor(m) \in Row
BY StoredType, PolicyAssumption, ConsumerAssumption
   DEF LocalTime, ToLocal, DayOf, Days, RowFor, Row

\* A set of two elements, written out.
LEMMA PairOf ==
    ASSUME NEW S, IsFiniteSet(S), Cardinality(S) = 2
    PROVE  \E a, b \in S : a # b /\ S = {a, b}
<1>1. PICK a \in S : TRUE
  BY FS_EmptySet
<1>2. /\ IsFiniteSet(S \ {a})
      /\ Cardinality(S \ {a}) = 1
  BY <1>1, FS_RemoveElement
<1>3. PICK b : S \ {a} = {b}
  BY <1>2, FS_Singleton
<1>4. QED
  BY <1>1, <1>3

\* On a day of two rows, the row decide updates exists and comes second: the
\* other row is not later.
LEMMA SecondRowOfTwo ==
    ASSUME NEW S, S \subseteq Nat, IsFiniteSet(S), Cardinality(S) = 2,
           NEW rows \in [S -> Int]
    PROVE  /\ SecondRow(rows) \in S
           /\ \E j \in S \ {SecondRow(rows)} : rows[j] <= rows[SecondRow(rows)]
           /\ \E j \in S : Precedes(rows, j, SecondRow(rows))
<1>1. PICK a \in S, b \in S : a # b /\ S = {a, b}
  BY PairOf
<1>2. DOMAIN rows = S /\ a \in Nat /\ b \in Nat /\ rows[a] \in Int /\ rows[b] \in Int
  BY <1>1
<1>3. \E i \in S : Cardinality(Before(rows, i)) = 1
  <2>1. CASE Precedes(rows, a, b)
    <3>1. Before(rows, b) = {a}
      BY <1>1, <1>2, <2>1 DEF Before, Precedes
    <3>2. QED
      BY <3>1, FS_Singleton, <1>1
  <2>2. CASE ~Precedes(rows, a, b)
    <3>1. Before(rows, a) = {b}
      BY <1>1, <1>2, <2>2 DEF Before, Precedes
    <3>2. QED
      BY <3>1, FS_Singleton, <1>1
  <2>3. QED
    BY <2>1, <2>2
<1> DEFINE i == SecondRow(rows)
<1>4. i \in S /\ Cardinality(Before(rows, i)) = 1
  BY <1>2, <1>3 DEF SecondRow
<1>5. Before(rows, i) # {}
  BY <1>4, FS_EmptySet
<1>6. PICK j \in S : Precedes(rows, j, i)
  BY <1>2, <1>5 DEF Before
<1>7. j # i /\ rows[j] <= rows[i]
  <2>1. i \in Nat /\ j \in Nat /\ rows[i] \in Int /\ rows[j] \in Int
    BY <1>4, <1>6
  <2> HIDE DEF i
  <2>2. QED
    BY <2>1, <1>6 DEF Precedes
<1>8. QED
  BY <1>4, <1>6, <1>7

\* What decide returns for the rows of a day that has two at most.
LEMMA DecideOnADay ==
    ASSUME NEW S, S \subseteq Nat, IsFiniteSet(S), Cardinality(S) <= 2,
           NEW rows \in [S -> Int], NEW punch \in Int
    PROVE  LET d == Decide(rows, punch)
           IN  /\ d \in Decisions
               /\ d.act = "insert" => Cardinality(S) < 2
               /\ d.act = "update" =>
                     /\ d.id \in S
                     /\ \E j \in S \ {d.id} : rows[j] <= rows[d.id]
<1> DEFINE d == Decide(rows, punch)
<1>1. DOMAIN rows = S /\ Cardinality(S) \in Nat
  BY FS_CardinalityType
<1>2. CASE d = Skip
  BY <1>2 DEF Skip, Decisions, NoRow
<1>3. CASE d = Insert /\ Cardinality(S) < 2
  BY <1>3 DEF Insert, Decisions, NoRow
<1>4. CASE d = Update(SecondRow(rows)) /\ Cardinality(S) = 2
  <2>1. /\ SecondRow(rows) \in S
        /\ \E j \in S \ {SecondRow(rows)} : rows[j] <= rows[SecondRow(rows)]
    BY <1>4, SecondRowOfTwo
  <2>2. Update(SecondRow(rows)) \in Decisions
    BY <2>1 DEF Update, Decisions
  <2>3. d.act = "update" /\ d.id = SecondRow(rows)
    BY <1>4 DEF Update
  <2>4. QED
    BY <1>4, <2>1, <2>2, <2>3
<1>5. QED
  BY <1>1, <1>2, <1>3, <1>4 DEF Decide

-----------------------------------------------------------------------------
(* Types.                                                                   *)

\* The rows of a day are a finite set of row ids, with a time for each.
LEMMA DayIdsType ==
    ASSUME TypeOK, NEW e, NEW day
    PROVE  /\ DayIds(e, day) \subseteq DOMAIN table
           /\ DayIds(e, day) \subseteq Nat
           /\ IsFiniteSet(DayIds(e, day))
           /\ Cardinality(DayIds(e, day)) \in Nat
<1>1. IsFiniteSet(1 .. nextRow - 1)
  <2>1. nextRow - 1 \in Int
    BY DEF TypeOK
  <2>2. QED
    BY <2>1, FS_Interval
<1>2. DayIds(e, day) \subseteq 1 .. nextRow - 1
  BY DEF TypeOK, DayIds
<1>3. IsFiniteSet(DayIds(e, day))
  BY <1>1, <1>2, FS_Subset
<1>4. QED
  BY <1>2, <1>3, FS_CardinalityType DEF DayIds

\* day_rows returns a time for each of the day's row ids.
LEMMA DayRowsType ==
    ASSUME TypeOK, NEW m \in Messages
    PROVE  DayRows(m) \in [DayIds(EmployeeOf[m], DayOf(m)) -> Int]
BY DEF TypeOK, DayRows, DayIds, Row

\* Requeueing deliveries yields a queue of entries again.
LEMMA RequeuedType ==
    ASSUME TypeOK, NEW ds \in Seq(Delivery)
    PROVE  Requeued(ds) \in Seq(Entry)
<1> DEFINE e(i) == [msg |-> ds[i].msg, keyed |-> ds[i].keyed]
<1>1. Len(ds) \in Nat /\ DOMAIN ds = 1 .. Len(ds)
  BY LenProperties
<1>2. \A i \in 1 .. Len(ds) : e(i) \in Entry
  <2>1. \A i \in 1 .. Len(ds) : ds[i] \in Delivery
    BY ElementOfSeq
  <2>2. QED
    BY <2>1 DEF Delivery, Entry
<1> HIDE DEF e
<1>3. [i \in 1 .. Len(ds) |-> e(i)] \in Seq(Entry)
  BY <1>1, <1>2, IsASeq
<1>4. [i \in DOMAIN ds |-> e(i)] \in Seq(Entry)
  BY <1>1, <1>3
<1>5. [i \in DOMAIN ds |-> e(i)] \o queue \in Seq(Entry)
  BY <1>4, ConcatProperties DEF TypeOK
<1>6. QED
  BY <1>5 DEF Requeued, e

\* A broken connection leaves a queue of entries and an empty channel.
LEMMA DisconnectType ==
    ASSUME TypeOK, Disconnect
    PROVE  /\ queue' \in Seq(Entry)
           /\ unacked' \in Seq(Delivery)
           /\ link' = "down"
           /\ nextTag' \in Nat
BY RequeuedType DEF TypeOK, Disconnect

\* The bookkeeping of the environment stays a count per bound.
LEMMA SpendType ==
    ASSUME TypeOK, NEW b \in Budgets, NEW limit, Spend(b, limit)
    PROVE  spent' \in [Budgets -> Nat]
BY DEF TypeOK, Spend

\* The values current and decision have before the first message.
LEMMA IdleValues == NoDelivery \in Delivery /\ Skip \in Decisions
BY ConsumerAssumption DEF NoDelivery, Delivery, Skip, NoRow, Decisions

\* The consumer starts with every variable of its type.
LEMMA InitType == Init => TypeOK
<1> SUFFICES ASSUME Init PROVE TypeOK
  OBVIOUS
<1>1. queue \in Seq(Entry) /\ unacked \in Seq(Delivery)
  BY DEF Init
<1>2. /\ DOMAIN table = {}
      /\ table \in [DOMAIN table -> Row]
      /\ nextRow \in Nat \ {0}
  BY DEF Init
<1>3. staff \subseteq Employees
  BY ConsumerAssumption DEF Init
<1>4. QED
  BY <1>1, <1>2, <1>3, IdleValues DEF Init, TypeOK

\* Steps of the environment.
LEMMA EnvironmentType ==
    ASSUME TypeOK, Environment
    PROVE  TypeOK'
<1> USE DEF broker, memory, erp, history
<1>0. \A b \in {"faults", "stops", "duplicates", "replays", "deletes", "staff"} :
          b \in Budgets
  BY DEF Budgets
<1>1. ASSUME NEW m \in Messages, NEW k \in BOOLEAN, Enqueue(m, k)
      PROVE  queue' \in Seq(Entry)
  BY <1>1 DEF Enqueue, TypeOK, Entry
<1>2. ASSUME NEW m \in Messages, Publish(m) PROVE TypeOK'
  BY <1>1, <1>2 DEF Publish, Enqueue, TypeOK
<1>3. ASSUME NEW m \in Messages, PublishAgain(m) PROVE TypeOK'
  <2>1. queue' \in Seq(Entry) /\ spent' \in [Budgets -> Nat]
    BY <1>0, <1>1, <1>3, SpendType DEF PublishAgain
  <2>2. QED
    BY <1>3, <2>1 DEF PublishAgain, Enqueue, TypeOK
<1>4. ASSUME NEW m \in Messages, Replay(m) PROVE TypeOK'
  <2>1. queue' \in Seq(Entry) /\ spent' \in [Budgets -> Nat]
    BY <1>0, <1>1, <1>4, SpendType DEF Replay
  <2>2. QED
    BY <1>4, <2>1 DEF Replay, Enqueue, TypeOK
<1>5. ASSUME NEW i \in DOMAIN table, DeleteRow(i) PROVE TypeOK'
  <2>1. spent' \in [Budgets -> Nat]
    BY <1>0, <1>5, SpendType DEF DeleteRow
  <2>2. /\ DOMAIN table' \subseteq 1 .. nextRow - 1
        /\ table' \in [DOMAIN table' -> Row]
    BY <1>5 DEF DeleteRow, TypeOK
  <2>3. QED
    BY <1>5, <2>1, <2>2 DEF DeleteRow, TypeOK
<1>6. ASSUME NEW e \in Employees, ChangeStaff(e) PROVE TypeOK'
  <2>1. spent' \in [Budgets -> Nat] /\ staff' \subseteq Employees
    BY <1>0, <1>6, SpendType DEF ChangeStaff, TypeOK
  <2>2. QED
    BY <1>6, <2>1 DEF ChangeStaff, TypeOK
<1>7. ASSUME DropLink PROVE TypeOK'
  <2>1. spent' \in [Budgets -> Nat]
    BY <1>0, <1>7, SpendType DEF DropLink
  <2>2. pc' \in Steps \cup {"down", "idle", "stopped"}
    BY <1>7 DEF DropLink, TypeOK
  <2>3. QED
    BY <1>7, <2>1, <2>2, DisconnectType DEF DropLink, TypeOK
<1>8. ASSUME Crash PROVE TypeOK'
  <2>1. spent' \in [Budgets -> Nat]
    BY <1>0, <1>8, SpendType DEF Crash
  <2>2. QED
    BY <1>8, <2>1, IdleValues, DisconnectType DEF Crash, TypeOK
<1>9. ASSUME Stop PROVE TypeOK'
  <2>1. spent' \in [Budgets -> Nat]
    BY <1>0, <1>9, SpendType DEF Stop
  <2>2. QED
    BY <1>9, <2>1 DEF Stop, TypeOK
<1>10. QED
  BY <1>2, <1>3, <1>4, <1>5, <1>6, <1>7, <1>8, <1>9 DEF Environment

\* Settling removes the oldest delivery, which DeliveryInHand says is there.
LEMMA BasicAckType ==
    ASSUME TypeOK, DeliveryInHand, pc \in Steps, BasicAck
    PROVE  /\ queue' \in Seq(Entry)
           /\ unacked' \in Seq(Delivery)
           /\ link' \in {"up", "down"}
           /\ nextTag' \in Nat
           /\ pc' \in {"down", "idle"}
<1>1. CASE LeaveBroken
  BY <1>1 DEF LeaveBroken, broker, TypeOK
<1>2. CASE /\ link = "up"
           /\ unacked' = Tail(unacked)
           /\ pc' = "idle"
           /\ UNCHANGED <<queue, link, nextTag>>
  <2>1. unacked # <<>> /\ unacked \in Seq(Delivery)
    BY <1>2 DEF DeliveryInHand, TypeOK
  <2>2. unacked' \in Seq(Delivery)
    BY <1>2, <2>1, HeadTailProperties
  <2>3. QED
    BY <1>2, <2>2 DEF TypeOK
<1>3. QED
  BY <1>1, <1>2 DEF BasicAck

\* The message in hand is one of the messages, with the times of one.
LEMMA CurrentType ==
    ASSUME TypeOK
    PROVE  /\ current.msg \in Messages
           /\ EmployeeOf[current.msg] \in Employees
           /\ LocalTime(current.msg) \in Int
           /\ RowFor(current.msg) \in Row
           /\ RowFor(current.msg).at = Stored(LocalTime(current.msg))
           /\ RowFor(current.msg).at \in Int
<1>1. current.msg \in Messages
  BY DEF TypeOK, Delivery
<1>2. QED
  BY <1>1, MessageTimes DEF RowFor, Row

\* A step that only moves the consumer thread.
LEMMA GotoType ==
    ASSUME TypeOK, NEW step \in Steps, Goto(step), decision' \in Decisions
    PROVE  TypeOK'
BY DEF TypeOK, Goto, broker, memory, erp, history

\* The decision is made for a day of two rows at most.
LEMMA ReadDecision ==
    ASSUME TypeOK, TwoRowsPerDay, Read
    PROVE  LET ids == DOMAIN DayRows(current.msg)
           IN  /\ decision' \in Decisions
               /\ decision'.act = "insert" => Cardinality(ids) < 2
               /\ decision'.act = "update" =>
                     /\ decision'.id \in ids
                     /\ \E j \in ids \ {decision'.id} :
                            table[j].at <= table[decision'.id].at
<1> DEFINE m == current.msg
           S == DayIds(EmployeeOf[m], DayOf(m))
           rows == DayRows(m)
<1>1. m \in Messages /\ EmployeeOf[m] \in Employees /\ DayOf(m) \in Days
      /\ LocalTime(m) \in Int
  BY CurrentType, MessageTimes
<1>2. S \subseteq Nat /\ IsFiniteSet(S) /\ Cardinality(S) <= 2
  BY <1>1, DayIdsType DEF TwoRowsPerDay
<1>3. rows \in [S -> Int] /\ DOMAIN rows = S
  BY <1>1, DayRowsType
<1>4. \A i \in S : rows[i] = table[i].at
  BY DEF DayRows
<1>5. decision' = Decide(rows, LocalTime(m))
  BY DEF Read
<1> HIDE DEF S, rows
<1>6. /\ decision' \in Decisions
      /\ decision'.act = "insert" => Cardinality(S) < 2
      /\ decision'.act = "update" =>
            /\ decision'.id \in S
            /\ \E j \in S \ {decision'.id} : rows[j] <= rows[decision'.id]
  BY <1>1, <1>2, <1>3, <1>5, DecideOnADay
<1>7. /\ decision'.act = "insert" => Cardinality(DOMAIN rows) < 2
      /\ decision'.act = "update" =>
            /\ decision'.id \in DOMAIN rows
            /\ \E j \in DOMAIN rows \ {decision'.id} :
                   table[j].at <= table[decision'.id].at
  BY <1>3, <1>4, <1>6
<1>8. QED
  BY <1>6, <1>7 DEF rows

\* The table after either write is a table again.
LEMMA WriteType ==
    ASSUME TypeOK, InsertRow \/ UpdateRow
    PROVE  /\ nextRow' \in Nat \ {0}
           /\ DOMAIN table' \subseteq 1 .. nextRow' - 1
           /\ table' \in [DOMAIN table' -> Row]
<1>1. CASE InsertRow
  <2>1. /\ nextRow \in Nat \ {0}
        /\ DOMAIN table \subseteq 1 .. nextRow - 1
        /\ \A i \in DOMAIN table : table[i] \in Row
    BY DEF TypeOK
  <2>2. /\ table' = [i \in DOMAIN table \cup {nextRow} |->
                        IF i = nextRow THEN RowFor(current.msg) ELSE table[i]]
        /\ nextRow' = nextRow + 1
    BY <1>1 DEF InsertRow, Commit
  <2>3. RowFor(current.msg) \in Row
    BY CurrentType
  <2>4. DOMAIN table' = DOMAIN table \cup {nextRow}
    BY <2>2
  <2>5. DOMAIN table' \subseteq 1 .. nextRow' - 1
    BY <2>1, <2>2, <2>4
  <2>6. table' \in [DOMAIN table' -> Row]
    BY <2>1, <2>2, <2>3, <2>4
  <2>7. QED
    BY <2>1, <2>2, <2>5, <2>6
<1>2. CASE UpdateRow
  <2>1. /\ table' = [table EXCEPT ![decision.id].at = Stored(LocalTime(current.msg))]
        /\ nextRow' = nextRow
    BY <1>2 DEF UpdateRow, Commit
  <2>2. Stored(LocalTime(current.msg)) \in Int
    BY CurrentType, StoredType
  <2>3. \A i \in DOMAIN table : table[i] \in Row
    BY DEF TypeOK
  <2>4. table' \in [DOMAIN table -> Row]
    BY <2>1, <2>2, <2>3 DEF Row
  <2>5. QED
    BY <2>1, <2>4 DEF TypeOK
<1>3. QED
  BY <1>1, <1>2

\* Steps of the consumer thread.
LEMMA HandleType ==
    ASSUME TypeOK, TwoRowsPerDay, DeliveryInHand, Handle
    PROVE  TypeOK'
<1> USE DEF broker, memory, erp, history
<1>1. ASSUME Dispatch PROVE TypeOK'
  <2>1. Head(unacked) \in Delivery
    BY <1>1, HeadTailProperties DEF Dispatch, TypeOK
  <2>2. QED
    BY <1>1, <2>1, IdleValues DEF Dispatch, TypeOK, Steps
<1>2. ASSUME LookupCached PROVE TypeOK'
  BY <1>2, GotoType DEF LookupCached, AfterLookup, Steps, TypeOK
<1>3. ASSUME LookupQueried PROVE TypeOK'
  BY <1>3, CurrentType DEF LookupQueried, AfterLookup, Standing, Steps, TypeOK
<1>4. ASSUME Read PROVE TypeOK'
  <2>1. decision' \in Decisions
    BY <1>4, ReadDecision
  <2>2. QED
    BY <1>4, <2>1, GotoType DEF Read, Steps
<1>5. ASSUME DatabaseFails PROVE TypeOK'
  BY <1>5, GotoType DEF DatabaseFails, Steps, TypeOK
<1>6. ASSUME InsertRow \/ UpdateRow PROVE TypeOK'
  <2>1. /\ nextRow' \in Nat \ {0}
        /\ DOMAIN table' \subseteq 1 .. nextRow' - 1
        /\ table' \in [DOMAIN table' -> Row]
    BY <1>6, WriteType
  <2>2. applied' \subseteq Messages /\ pc' \in Steps
    BY <1>6, CurrentType DEF InsertRow, UpdateRow, Commit, Steps, TypeOK
  <2>3. QED
    BY <1>6, <2>1, <2>2 DEF InsertRow, UpdateRow, Commit, TypeOK
<1>7. ASSUME UpdateTouchesNothing PROVE TypeOK'
  BY <1>7, GotoType DEF UpdateTouchesNothing, Steps, TypeOK
<1>8. ASSUME Ack PROVE TypeOK'
  BY <1>8, BasicAckType, CurrentType DEF Ack, Steps, TypeOK
<1>9. ASSUME Retry PROVE TypeOK'
  <2> DEFINE k == Key(current)
             n == attempts[k] + 1
  <2>1. k \in Keys => n \in Nat
    BY DEF TypeOK
  <2>2. attempts' = [attempts EXCEPT ![k] = IF n >= MaxAttempts THEN 0 ELSE n]
    BY <1>9 DEF Retry
  <2> HIDE DEF k, n
  <2>3. attempts' \in [Keys -> Nat]
    BY <2>1, <2>2 DEF TypeOK
  <2>4. failures' \in [Messages -> Nat]
    BY <1>9, CurrentType DEF Retry, TypeOK
  <2>5. pc' \in Steps
    BY <1>9 DEF Retry, Steps
  <2>6. QED
    BY <1>9, <2>3, <2>4, <2>5 DEF Retry, TypeOK
<1>10. ASSUME Nack PROVE TypeOK'
  <2>1. CASE LeaveBroken
    BY <1>10, <2>1 DEF Nack, LeaveBroken, TypeOK
  <2>2. CASE link = "up"
    <3>1. unacked # <<>> /\ unacked \in Seq(Delivery)
      BY <1>10, <2>2 DEF Nack, DeliveryInHand, Steps, TypeOK
    <3>2. Head(unacked) \in Delivery /\ Tail(unacked) \in Seq(Delivery)
      BY <3>1, HeadTailProperties
    <3>3. <<Head(unacked)>> \in Seq(Delivery)
      BY <3>2
    <3>4. Requeued(<<Head(unacked)>>) \in Seq(Entry)
      BY <3>3, RequeuedType
    <3>5. QED
      BY <1>10, <2>2, <3>2, <3>4 DEF Nack, LeaveBroken, TypeOK
  <2>3. QED
    BY <1>10, <2>1, <2>2 DEF Nack
<1>11. ASSUME Bury PROVE TypeOK'
  BY <1>11, CurrentType DEF Bury, Steps, TypeOK
<1>12. ASSUME BuryAck PROVE TypeOK'
  BY <1>12, BasicAckType DEF BuryAck, Steps, TypeOK
<1>13. QED
  BY <1>1, <1>2, <1>3, <1>4, <1>5, <1>6, <1>7, <1>8, <1>9, <1>10, <1>11,
     <1>12 DEF Handle

\* Steps between broker and consumer.
LEMMA LinkType ==
    ASSUME TypeOK, Connect \/ Deliver \/ Halt
    PROVE  TypeOK'
<1> USE DEF broker, memory, erp, history
<1>1. ASSUME Connect PROVE TypeOK'
  BY <1>1 DEF Connect, TypeOK
<1>2. ASSUME Deliver PROVE TypeOK'
  <2> DEFINE d == [msg |-> Head(queue).msg, keyed |-> Head(queue).keyed,
                   tag |-> nextTag]
  <2>1. Head(queue) \in Entry /\ Tail(queue) \in Seq(Entry)
    BY <1>2, HeadTailProperties DEF Deliver, TypeOK
  <2>2. d \in Delivery
    BY <2>1 DEF Entry, Delivery, TypeOK
  <2>3. unacked' = Append(unacked, d) /\ queue' = Tail(queue)
        /\ nextTag' = nextTag + 1
    BY <1>2 DEF Deliver
  <2> HIDE DEF d
  <2>4. unacked' \in Seq(Delivery)
    BY <2>2, <2>3, AppendProperties DEF TypeOK
  <2>5. QED
    BY <1>2, <2>1, <2>3, <2>4 DEF Deliver, TypeOK
<1>3. ASSUME Halt PROVE TypeOK'
  BY <1>3, DisconnectType DEF Halt, TypeOK
<1>4. QED
  BY <1>1, <1>2, <1>3

-----------------------------------------------------------------------------
(* The invariant.  Two rows a day needs to know that the decision, made     *)
(* from rows read earlier, still fits the table; settling needs to know     *)
(* that the delivery in hand is the oldest one of the channel.              *)

\* As long as nobody deletes rows, the arrival is kept.
ArrivalKept == spent.deletes = 0 => ArrivalIsEarliest

SafetyInv ==
    /\ TypeOK
    /\ DeliveryInHand
    /\ DecisionStillFits
    /\ TwoRowsPerDay
    /\ ArrivalKept

\* Every step keeps the channel, the deliveries and the thread in agreement.
LEMMA DeliveryInHandStep ==
    ASSUME TypeOK, DeliveryInHand, Next
    PROVE  DeliveryInHand'
<1> USE DEF DeliveryInHand, broker, Steps
<1>1. ASSUME NEW m \in Messages, Publish(m) \/ PublishAgain(m) \/ Replay(m)
      PROVE  DeliveryInHand'
  BY <1>1 DEF Publish, PublishAgain, Replay, Enqueue
<1>2. ASSUME NEW i \in DOMAIN table, DeleteRow(i) PROVE DeliveryInHand'
  BY <1>2 DEF DeleteRow
<1>3. ASSUME NEW e \in Employees, ChangeStaff(e) PROVE DeliveryInHand'
  BY <1>3 DEF ChangeStaff
<1>4. ASSUME DropLink \/ Crash \/ Halt PROVE DeliveryInHand'
  BY <1>4 DEF DropLink, Crash, Halt, Disconnect
<1>5. ASSUME Stop PROVE DeliveryInHand'
  BY <1>5 DEF Stop
<1>6. ASSUME Connect PROVE DeliveryInHand'
  BY <1>6 DEF Connect
<1>7. ASSUME Deliver PROVE DeliveryInHand'
  <2> DEFINE d == [msg |-> Head(queue).msg, keyed |-> Head(queue).keyed,
                   tag |-> nextTag]
  <2>1. Head(queue) \in Entry
    BY <1>7, HeadTailProperties DEF Deliver, TypeOK
  <2>2. d \in Delivery
    BY <2>1 DEF Entry, Delivery, TypeOK
  <2>3. unacked' = Append(unacked, d)
    BY <1>7 DEF Deliver
  <2>4. unacked \in Seq(Delivery)
    BY DEF TypeOK
  <2> HIDE DEF d
  <2>5. unacked' # <<>> /\ (unacked # <<>> => Head(unacked') = Head(unacked))
    BY <2>2, <2>3, <2>4
  <2>6. QED
    BY <1>7, <2>5 DEF Deliver
<1>8. ASSUME Dispatch PROVE DeliveryInHand'
  BY <1>8 DEF Dispatch
<1>9. ASSUME LookupCached \/ LookupQueried PROVE DeliveryInHand'
  BY <1>9 DEF LookupCached, LookupQueried, Goto, AfterLookup
<1>10. ASSUME Read \/ DatabaseFails \/ UpdateTouchesNothing
       PROVE  DeliveryInHand'
  BY <1>10 DEF Read, DatabaseFails, UpdateTouchesNothing, Goto
<1>11. ASSUME InsertRow \/ UpdateRow PROVE DeliveryInHand'
  BY <1>11 DEF InsertRow, UpdateRow, Commit
<1>12. ASSUME Ack \/ BuryAck PROVE DeliveryInHand'
  BY <1>12 DEF Ack, BuryAck, BasicAck, LeaveBroken
<1>13. ASSUME Nack PROVE DeliveryInHand'
  BY <1>13 DEF Nack, LeaveBroken
<1>14. ASSUME Retry \/ Bury PROVE DeliveryInHand'
  BY <1>14 DEF Retry, Bury
<1>15. QED
  BY <1>1, <1>2, <1>3, <1>4, <1>5, <1>6, <1>7, <1>8, <1>9, <1>10, <1>11,
     <1>12, <1>13, <1>14 DEF Next, Environment, Handle

\* The steps that leave the table alone.
LEMMA WhoWrites ==
    ASSUME Next, table' # table
    PROVE  \/ \E i \in DOMAIN table : DeleteRow(i)
           \/ InsertRow
           \/ UpdateRow
BY DEF Next, Environment, Handle, Publish, PublishAgain, Replay, Enqueue,
       ChangeStaff, DropLink, Crash, Stop, Connect, Deliver, Halt, Dispatch,
       LookupCached, LookupQueried, Read, DatabaseFails, UpdateTouchesNothing,
       Ack, Retry, Nack, Bury, BuryAck, Goto, erp

\* Rows are deleted by DeleteRow only, and it is counted.
LEMMA DeletesCounted ==
    ASSUME TypeOK, Next
    PROVE  \/ spent'.deletes = spent.deletes
           \/ /\ \E i \in DOMAIN table : DeleteRow(i)
              /\ spent'.deletes = spent.deletes + 1
              /\ spent.deletes \in Nat
<1>0. spent \in [Budgets -> Nat] /\ "deletes" \in Budgets
  BY DEF TypeOK, Budgets
<1>1. ASSUME NEW b, b # "deletes", NEW limit, Spend(b, limit)
      PROVE  spent'.deletes = spent.deletes
  BY <1>0, <1>1 DEF Spend
<1>2. ASSUME NEW i \in DOMAIN table, DeleteRow(i)
      PROVE  spent'.deletes = spent.deletes + 1
  BY <1>0, <1>2 DEF DeleteRow, Spend
<1>3. CASE \E m \in Messages : PublishAgain(m) \/ Replay(m)
  BY <1>1, <1>3 DEF PublishAgain, Replay
<1>4. CASE DropLink \/ Crash \/ Stop \/ \E e \in Employees : ChangeStaff(e)
  BY <1>1, <1>4 DEF DropLink, Crash, Stop, ChangeStaff
<1>5. CASE \E m \in Messages : Publish(m)
  BY <1>5 DEF Publish
<1>6. CASE Connect \/ Deliver \/ Halt
  BY <1>6 DEF Connect, Deliver, Halt
<1>7. CASE Handle
  BY <1>7 DEF Handle, Dispatch, LookupCached, LookupQueried, Read,
      DatabaseFails, InsertRow, UpdateRow, UpdateTouchesNothing, Commit, Ack,
      Retry, Nack, Bury, BuryAck, Goto
<1>8. CASE \E i \in DOMAIN table : DeleteRow(i)
  BY <1>0, <1>2, <1>8
<1>9. QED
  BY <1>3, <1>4, <1>5, <1>6, <1>7, <1>8 DEF Next, Environment

\* The steps that lead to a write, and those that leave a pending one alone.
LEMMA WhoDecides ==
    ASSUME Next, pc' = "write"
    PROVE  \/ Read /\ UNCHANGED <<table, current>>
           \/ \E i \in DOMAIN table : DeleteRow(i)
           \/ pc = "write" /\ UNCHANGED <<table, current, decision>>
<1> USE DEF erp, broker
<1>1. CASE Environment
  BY <1>1 DEF Environment, Publish, PublishAgain, Replay, Enqueue, ChangeStaff,
      DropLink, Crash, Stop
<1>2. CASE Connect \/ Deliver \/ Halt
  BY <1>2 DEF Connect, Deliver, Halt
<1>3. CASE Handle
  <2>1. CASE Read
    BY <2>1 DEF Read, Goto
  <2>2. CASE Dispatch \/ LookupCached \/ LookupQueried \/ DatabaseFails
             \/ UpdateTouchesNothing \/ InsertRow \/ UpdateRow
    BY <2>2 DEF Dispatch, LookupCached, LookupQueried, DatabaseFails, InsertRow,
        UpdateRow, UpdateTouchesNothing, Commit, Goto, AfterLookup
  <2>3. CASE Ack \/ Retry \/ Nack \/ Bury \/ BuryAck
    BY <2>3 DEF Ack, Retry, Nack, Bury, BuryAck, BasicAck, LeaveBroken
  <2>4. QED
    BY <1>3, <2>1, <2>2, <2>3 DEF Handle
<1>4. QED
  BY <1>1, <1>2, <1>3 DEF Next

-----------------------------------------------------------------------------
(* The rows of a day after a step.                                          *)

\* A step that leaves the table alone leaves every day alone.
LEMMA SameDays ==
    ASSUME table' = table, NEW e, NEW day
    PROVE  DayIds(e, day)' = DayIds(e, day)
BY DEF DayIds

\* A deletion takes rows from a day and changes none.
LEMMA DeletedDays ==
    ASSUME NEW i \in DOMAIN table, DeleteRow(i), NEW e, NEW day
    PROVE  /\ DayIds(e, day)' \subseteq DayIds(e, day)
           /\ \A j \in DayIds(e, day)' : table'[j] = table[j]
BY DEF DeleteRow, DayIds

\* An update changes neither employee nor day of its row, nor any other row.
LEMMA UpdatedDays ==
    ASSUME TypeOK, UpdateRow, NEW e, NEW day
    PROVE  /\ DayIds(e, day)' = DayIds(e, day)
           /\ \A j \in DayIds(e, day) \ {decision.id} : table'[j] = table[j]
           /\ table'[decision.id].at = Stored(LocalTime(current.msg))
<1>1. /\ decision.id \in DOMAIN table
      /\ table' = [table EXCEPT ![decision.id].at = Stored(LocalTime(current.msg))]
  BY DEF UpdateRow, Commit
<1>2. \A j \in DOMAIN table : table[j] \in Row
  BY DEF TypeOK
<1>3. /\ DOMAIN table' = DOMAIN table
      /\ \A j \in DOMAIN table \ {decision.id} : table'[j] = table[j]
      /\ table'[decision.id].at = Stored(LocalTime(current.msg))
      /\ table'[decision.id].employee = table[decision.id].employee
      /\ table'[decision.id].day = table[decision.id].day
  BY <1>1, <1>2 DEF Row
<1>4. QED
  BY <1>3 DEF DayIds

\* An insert adds one row, to the day of the message.
LEMMA InsertedDays ==
    ASSUME TypeOK, InsertRow, NEW e, NEW day
    PROVE  /\ nextRow \notin DOMAIN table
           /\ table'[nextRow] = RowFor(current.msg)
           /\ \A j \in DOMAIN table : table'[j] = table[j]
           /\ IF e = EmployeeOf[current.msg] /\ day = DayOf(current.msg)
              THEN DayIds(e, day)' = DayIds(e, day) \cup {nextRow}
              ELSE DayIds(e, day)' = DayIds(e, day)
<1>1. nextRow \notin DOMAIN table
  BY DEF TypeOK
<1>2. table' = [i \in DOMAIN table \cup {nextRow} |->
                   IF i = nextRow THEN RowFor(current.msg) ELSE table[i]]
  BY DEF InsertRow, Commit
<1>3. /\ DOMAIN table' = DOMAIN table \cup {nextRow}
      /\ table'[nextRow] = RowFor(current.msg)
      /\ \A j \in DOMAIN table : table'[j] = table[j]
  BY <1>1, <1>2
<1>4. /\ RowFor(current.msg).employee = EmployeeOf[current.msg]
      /\ RowFor(current.msg).day = DayOf(current.msg)
  BY DEF RowFor
<1>5. QED
  BY <1>1, <1>3, <1>4 DEF DayIds

\* The rows read for a message are those of its employee and day.
LEMMA DayRowsDomain ==
    ASSUME NEW m
    PROVE  DOMAIN DayRows(m) = DayIds(EmployeeOf[m], DayOf(m))
BY DEF DayRows

-----------------------------------------------------------------------------
(* Two rows a day.                                                          *)

\* No step opens a third row.
LEMMA TwoRowsStep ==
    ASSUME TypeOK, DecisionStillFits, TwoRowsPerDay, Next
    PROVE  TwoRowsPerDay'
<1> SUFFICES ASSUME NEW e \in Employees, NEW day \in Days
             PROVE  Cardinality(DayIds(e, day)') <= 2
  BY DEF TwoRowsPerDay
<1>1. /\ Cardinality(DayIds(e, day)) <= 2
      /\ Cardinality(DayIds(e, day)) \in Nat
      /\ IsFiniteSet(DayIds(e, day))
      /\ DayIds(e, day) \subseteq DOMAIN table
  BY DayIdsType DEF TwoRowsPerDay
<1>2. CASE table' = table
  BY <1>1, <1>2, SameDays
<1>3. ASSUME NEW i \in DOMAIN table, DeleteRow(i)
      PROVE  Cardinality(DayIds(e, day)') <= 2
  <2>1. DayIds(e, day)' \subseteq DayIds(e, day)
    BY <1>3, DeletedDays
  <2>2. /\ Cardinality(DayIds(e, day)') <= Cardinality(DayIds(e, day))
        /\ Cardinality(DayIds(e, day)') \in Nat
    BY <1>1, <2>1, FS_Subset, FS_CardinalityType
  <2>3. QED
    BY <1>1, <2>2
<1>4. CASE InsertRow
  <2>1. CASE e = EmployeeOf[current.msg] /\ day = DayOf(current.msg)
    <3>1. Cardinality(DayIds(e, day)) < 2
      <4>1. pc = "write" /\ decision.act = "insert"
        BY <1>4 DEF InsertRow
      <4>2. Cardinality(DOMAIN DayRows(current.msg)) < 2
        BY <4>1 DEF DecisionStillFits
      <4>3. DOMAIN DayRows(current.msg) = DayIds(e, day)
        BY <2>1, DayRowsDomain
      <4>4. QED
        BY <4>2, <4>3
    <3>2. /\ nextRow \notin DayIds(e, day)
          /\ DayIds(e, day)' = DayIds(e, day) \cup {nextRow}
      BY <1>1, <1>4, <2>1, InsertedDays
    <3>3. Cardinality(DayIds(e, day) \cup {nextRow})
              = Cardinality(DayIds(e, day)) + 1
      BY <1>1, <3>2, FS_AddElement
    <3>4. QED
      BY <1>1, <3>1, <3>2, <3>3
  <2>2. CASE ~(e = EmployeeOf[current.msg] /\ day = DayOf(current.msg))
    <3>1. DayIds(e, day)' = DayIds(e, day)
      BY <1>4, <2>2, InsertedDays
    <3>2. QED
      BY <1>1, <3>1
  <2>3. QED
    BY <2>1, <2>2
<1>5. CASE UpdateRow
  <2>1. DayIds(e, day)' = DayIds(e, day)
    BY <1>5, UpdatedDays
  <2>2. QED
    BY <1>1, <2>1
<1>6. QED
  BY <1>2, <1>3, <1>4, <1>5, WhoWrites

\* Between the read and the write only a deletion changes the table, and that
\* makes room: an insert still finds its place, an update may lose its row.
LEMMA DecisionStep ==
    ASSUME TypeOK, DecisionStillFits, TwoRowsPerDay, Next
    PROVE  DecisionStillFits'
<1> SUFFICES ASSUME pc' = "write"
             PROVE  LET ids == DOMAIN DayRows(current.msg)'
                    IN  /\ decision'.act \in {"insert", "update"}
                        /\ decision'.act = "insert" => Cardinality(ids) < 2
                        /\ decision'.act = "update" /\ spent'.deletes = 0 =>
                               /\ decision'.id \in ids
                               /\ \E j \in ids \ {decision'.id} :
                                      table'[j].at <= table'[decision'.id].at
  BY DEF DecisionStillFits
<1>0. current.msg \in Messages
  BY CurrentType
<1>1. CASE Read /\ UNCHANGED <<table, current>>
  <2>1. DayRows(current.msg)' = DayRows(current.msg)
    BY <1>1 DEF DayRows, DayIds
  <2>2. decision'.act # "skip"
    BY <1>1 DEF Read, Goto
  <2>3. decision'.act \in {"insert", "update"}
    BY <1>1, <2>2, ReadDecision DEF Decisions
  <2>4. QED
    BY <1>1, <2>1, <2>3, ReadDecision
<1>2. ASSUME NEW i \in DOMAIN table, DeleteRow(i), pc = "write",
             UNCHANGED <<current, decision>>
      PROVE  /\ decision'.act \in {"insert", "update"}
             /\ decision'.act = "insert" =>
                    Cardinality(DOMAIN DayRows(current.msg)') < 2
             /\ spent'.deletes # 0
  <2> DEFINE S == DOMAIN DayRows(current.msg)
             T == DOMAIN DayRows(current.msg)'
  <2>1. S = DayIds(EmployeeOf[current.msg], DayOf(current.msg))
    BY DayRowsDomain
  <2>2. IsFiniteSet(S) /\ Cardinality(S) \in Nat
    BY <2>1, DayIdsType
  <2>3. T \subseteq S
    BY <1>2 DEF DayRows, DayIds, DeleteRow
  <2>4. spent'.deletes # 0
    <3>1. spent.deletes \in Nat /\ spent'.deletes = spent.deletes + 1
      BY <1>2 DEF DeleteRow, Spend, TypeOK, Budgets
    <3>2. QED
      BY <3>1
  <2> HIDE DEF S, T
  <2>5. Cardinality(T) <= Cardinality(S) /\ Cardinality(T) \in Nat
    BY <2>2, <2>3, FS_Subset, FS_CardinalityType
  <2>6. /\ decision.act \in {"insert", "update"}
        /\ decision.act = "insert" => Cardinality(S) < 2
    BY <1>2 DEF DecisionStillFits, S
  <2>7. decision.act = "insert" => Cardinality(T) < 2
    BY <2>2, <2>5, <2>6
  <2>8. QED
    BY <1>2, <2>4, <2>6, <2>7 DEF T
<1>3. ASSUME pc = "write", UNCHANGED <<table, current, decision>>
      PROVE  /\ decision'.act \in {"insert", "update"}
             /\ DayRows(current.msg)' = DayRows(current.msg)
  BY <1>3 DEF DecisionStillFits, DayRows, DayIds
<1>4. CASE pc = "write" /\ UNCHANGED <<table, current, decision>>
  <2>1. spent'.deletes = 0 => spent.deletes = 0
    BY DeletesCounted
  <2>2. QED
    BY <1>3, <1>4, <2>1 DEF DecisionStillFits
<1>5. CASE \E i \in DOMAIN table : DeleteRow(i)
  BY <1>2, <1>5 DEF DeleteRow
<1>6. QED
  BY <1>1, <1>4, <1>5, WhoDecides

-----------------------------------------------------------------------------
(* The arrival.                                                             *)

\* The row that is as early as a written punch survives every step: an update
\* that moves it away leaves a row of that day that is not later.
LEMMA ArrivalStep ==
    ASSUME TypeOK, DecisionStillFits, ArrivalKept, Next
    PROVE  ArrivalKept'
<1> SUFFICES ASSUME spent'.deletes = 0, NEW m \in applied'
             PROVE  \E i \in DayIds(EmployeeOf[m], DayOf(m))' :
                        table'[i].at <= Stored(LocalTime(m))
  BY DEF ArrivalKept, ArrivalIsEarliest
<1> DEFINE e == EmployeeOf[m]
           day == DayOf(m)
<1>1. spent.deletes = 0 /\ ~\E i \in DOMAIN table : DeleteRow(i)
  <2>1. spent.deletes = 0
    BY DeletesCounted
  <2>2. ASSUME NEW i \in DOMAIN table, DeleteRow(i) PROVE FALSE
    <3>1. spent'.deletes = 1
      BY <2>1, <2>2 DEF DeleteRow, Spend, TypeOK, Budgets
    <3>2. QED
      BY <3>1
  <2>3. QED
    BY <2>1, <2>2
<1>2. \A n \in applied : \E i \in DayIds(EmployeeOf[n], DayOf(n)) :
          table[i].at <= Stored(LocalTime(n))
  BY <1>1 DEF ArrivalKept, ArrivalIsEarliest
<1>3. m \in Messages /\ Stored(LocalTime(m)) \in Int
  <2>1. applied' \subseteq Messages
    <3>1. applied' = applied \/ applied' = applied \cup {current.msg}
      BY DEF Next, Environment, Handle, Publish, PublishAgain, Replay, DeleteRow,
             ChangeStaff, DropLink, Crash, Stop, Connect, Deliver, Halt,
             Dispatch, LookupCached, LookupQueried, Read, DatabaseFails,
             InsertRow, UpdateRow, Commit, UpdateTouchesNothing, Ack, Retry,
             Nack, Bury, BuryAck, Goto, history
    <3>2. QED
      BY <3>1, CurrentType DEF TypeOK
  <2>2. QED
    BY <2>1, MessageTimes, StoredType
<1>4. CASE InsertRow
  <2>1. applied' = applied \cup {current.msg}
    BY <1>4 DEF InsertRow, Commit
  <2>2. CASE m = current.msg
    <3>1. nextRow \in DayIds(e, day)'
      BY <1>4, <2>2, InsertedDays
    <3>2. table'[nextRow].at = Stored(LocalTime(m))
      BY <1>4, <2>2, InsertedDays DEF RowFor
    <3>3. QED
      BY <1>3, <3>1, <3>2
  <2>3. CASE m \in applied
    <3>1. PICK i \in DayIds(e, day) : table[i].at <= Stored(LocalTime(m))
      BY <1>2, <2>3
    <3>2. i \in DayIds(e, day)' /\ table'[i] = table[i]
      BY <1>4, <3>1, InsertedDays, DayIdsType
    <3>3. QED
      BY <3>1, <3>2
  <2>4. QED
    BY <2>1, <2>2, <2>3
<1>5. CASE UpdateRow
  <2> DEFINE k == decision.id
  <2>1. applied' = applied \cup {current.msg}
    BY <1>5 DEF UpdateRow, Commit
  <2>2. /\ k \in DayIds(EmployeeOf[current.msg], DayOf(current.msg))
        /\ \E j \in DayIds(EmployeeOf[current.msg], DayOf(current.msg)) \ {k} :
               table[j].at <= table[k].at
    <3>1. pc = "write" /\ decision.act = "update"
      BY <1>5 DEF UpdateRow
    <3>2. QED
      BY <1>1, <3>1, DayRowsDomain DEF DecisionStillFits
  <2>3. /\ DayIds(e, day)' = DayIds(e, day)
        /\ \A j \in DayIds(e, day) \ {k} : table'[j] = table[j]
        /\ table'[k].at = Stored(LocalTime(current.msg))
    BY <1>5, UpdatedDays
  <2>4. CASE m = current.msg
    <3>1. k \in DayIds(e, day)' /\ table'[k].at <= Stored(LocalTime(m))
      BY <1>3, <2>2, <2>3, <2>4
    <3>2. QED
      BY <3>1
  <2>5. CASE m \in applied
    <3>1. PICK i \in DayIds(e, day) : table[i].at <= Stored(LocalTime(m))
      BY <1>2, <2>5
    <3>2. CASE i # k
      <4>1. i \in DayIds(e, day)' /\ table'[i].at <= Stored(LocalTime(m))
        BY <2>3, <3>1, <3>2
      <4>2. QED
        BY <4>1
    <3>3. CASE i = k
      <4>1. /\ e = EmployeeOf[current.msg]
            /\ day = DayOf(current.msg)
        BY <2>2, <3>1, <3>3 DEF DayIds
      <4>2. PICK j \in DayIds(e, day) \ {k} : table[j].at <= table[k].at
        BY <2>2, <4>1
      <4>3. table[j].at \in Int /\ table[k].at \in Int
        BY <3>1, <3>3, <4>2 DEF TypeOK, Row, DayIds
      <4>4. table[j].at <= Stored(LocalTime(m))
        BY <1>3, <3>1, <3>3, <4>2, <4>3
      <4>5. j \in DayIds(e, day)' /\ table'[j].at <= Stored(LocalTime(m))
        BY <2>3, <4>2, <4>4
      <4>6. QED
        BY <4>5
    <3>4. QED
      BY <3>2, <3>3
  <2>6. QED
    BY <2>1, <2>4, <2>5
<1>6. CASE table' = table /\ m \in applied
  BY <1>2, <1>6, SameDays
<1>7. ~InsertRow /\ ~UpdateRow => applied' = applied
  BY DEF Next, Environment, Handle, Publish, PublishAgain, Replay, DeleteRow,
         ChangeStaff, DropLink, Crash, Stop, Connect, Deliver, Halt, Dispatch,
         LookupCached, LookupQueried, Read, DatabaseFails,
         UpdateTouchesNothing, Ack, Retry, Nack, Bury, BuryAck, Goto, history
<1>8. QED
  BY <1>1, <1>4, <1>5, <1>6, <1>7, WhoWrites

-----------------------------------------------------------------------------
(* The theorems.                                                            *)

\* The invariant holds when the consumer starts ...
LEMMA SafetyInit == Init => SafetyInv
<1> SUFFICES ASSUME Init PROVE SafetyInv
  OBVIOUS
<1>1. TypeOK
  BY InitType
<1>2. DeliveryInHand
  BY DEF Init, DeliveryInHand, Steps
<1>3. DecisionStillFits
  BY DEF Init, DecisionStillFits
<1>4. TwoRowsPerDay
  <2>1. \A e, day : DayIds(e, day) = {}
    BY DEF Init, DayIds
  <2>2. QED
    BY <2>1, FS_EmptySet DEF TwoRowsPerDay
<1>5. ArrivalKept
  BY DEF Init, ArrivalKept, ArrivalIsEarliest
<1>6. QED
  BY <1>1, <1>2, <1>3, <1>4, <1>5 DEF SafetyInv

\* ... and every step keeps it.
LEMMA SafetyStep == SafetyInv /\ [Next]_vars => SafetyInv'
<1> SUFFICES ASSUME SafetyInv, [Next]_vars PROVE SafetyInv'
  OBVIOUS
<1>1. CASE Next
  <2>1. TypeOK /\ DeliveryInHand /\ DecisionStillFits /\ TwoRowsPerDay
        /\ ArrivalKept
    BY DEF SafetyInv
  <2>2. TypeOK'
    BY <1>1, <2>1, EnvironmentType, LinkType, HandleType DEF Next
  <2>3. DeliveryInHand'
    BY <1>1, <2>1, DeliveryInHandStep
  <2>4. DecisionStillFits'
    BY <1>1, <2>1, DecisionStep
  <2>5. TwoRowsPerDay'
    BY <1>1, <2>1, TwoRowsStep
  <2>6. ArrivalKept'
    BY <1>1, <2>1, ArrivalStep
  <2>7. QED
    BY <2>2, <2>3, <2>4, <2>5, <2>6 DEF SafetyInv
<1>2. CASE UNCHANGED vars
  <2> USE <1>2 DEF SafetyInv, vars, broker, memory, erp, history
  <2>1. TypeOK'
    BY DEF TypeOK
  <2>2. DeliveryInHand'
    BY DEF DeliveryInHand
  <2>3. DecisionStillFits'
    BY DEF DecisionStillFits, DayRows, DayIds
  <2>4. TwoRowsPerDay'
    BY SameDays DEF TwoRowsPerDay
  <2>5. ArrivalKept'
    BY DEF ArrivalKept, ArrivalIsEarliest, DayIds
  <2>6. QED
    BY <2>1, <2>2, <2>3, <2>4, <2>5
<1>3. QED
  BY <1>1, <1>2

\* The invariant the theorems below are read off.
THEOREM Safety == Spec => []SafetyInv
BY SafetyInit, SafetyStep, PTL DEF Spec

\* Every variable keeps its type; in particular settling a delivery never finds
\* the channel without one (consumer.py, _dispatch).
THEOREM TypeCorrect == Spec => []TypeOK
<1>1. SafetyInv => TypeOK
  BY DEF SafetyInv
<1>2. QED
  BY <1>1, Safety, PTL

\* What consumer.py settles on a live channel is the oldest delivery of that
\* channel, and it is the message that was handled.
THEOREM DeliveryStaysInHand == Spec => []DeliveryInHand
<1>1. SafetyInv => DeliveryInHand
  BY DEF SafetyInv
<1>2. QED
  BY <1>1, Safety, PTL

\* policy.py:7, "two rows per employee per day", through every redelivery, retry,
\* duplicate, crash and deletion, in any order of arrival.
THEOREM AtMostTwoRows == Spec => []TwoRowsPerDay
<1>1. SafetyInv => TwoRowsPerDay
  BY DEF SafetyInv
<1>2. QED
  BY <1>1, Safety, PTL

\* The decision made on the rows that were read is still right when it is
\* carried out (writer.py, handle: two statements, no transaction around them).
THEOREM DecisionsFit == Spec => []DecisionStillFits
<1>1. SafetyInv => DecisionStillFits
  BY DEF SafetyInv
<1>2. QED
  BY <1>1, Safety, PTL

\* policy.py:13, no later punch can destroy the arrival time, as long as nobody
\* deletes rows of the table.
THEOREM ArrivalStays == Spec => [](spent.deletes = 0 => ArrivalIsEarliest)
<1>1. SafetyInv => (spent.deletes = 0 => ArrivalIsEarliest)
  BY DEF SafetyInv, ArrivalKept
<1>2. QED
  BY <1>1, Safety, PTL

-----------------------------------------------------------------------------
(* Where rows come from.  A row id is never given out twice and nothing     *)
(* moves a row to another employee or day, so an update that was decided    *)
(* for a row still writes into the sheet it was decided for.                *)

SheetInv ==
    /\ RowsComeFromPunches
    /\ pc = "write" /\ decision.act = "update" /\ decision.id \in DOMAIN table =>
           decision.id \in DayIds(EmployeeOf[current.msg], DayOf(current.msg))

\* A pending update points into the sheet of its message.
LEMMA PendingUpdateStep ==
    ASSUME SafetyInv, SheetInv, Next,
           pc' = "write", decision'.act = "update", decision'.id \in DOMAIN table'
    PROVE  decision'.id \in DayIds(EmployeeOf[current.msg], DayOf(current.msg))'
<1>1. TypeOK /\ TwoRowsPerDay
  BY DEF SafetyInv
<1>2. CASE Read /\ UNCHANGED <<table, current>>
  <2>1. decision'.id \in DayIds(EmployeeOf[current.msg], DayOf(current.msg))
    BY <1>1, <1>2, ReadDecision, DayRowsDomain
  <2>2. QED
    BY <1>2, <2>1 DEF DayIds
<1>3. ASSUME NEW i \in DOMAIN table, DeleteRow(i)
      PROVE  decision'.id \in DayIds(EmployeeOf[current.msg], DayOf(current.msg))'
  <2>1. /\ pc = "write" /\ UNCHANGED <<current, decision>>
        /\ table' = [j \in DOMAIN table \ {i} |-> table[j]]
    BY <1>3 DEF DeleteRow
  <2>2. decision.id \in DOMAIN table
    BY <2>1
  <2>3. decision.id \in DayIds(EmployeeOf[current.msg], DayOf(current.msg))
    BY <2>1, <2>2 DEF SheetInv
  <2>4. QED
    BY <2>1, <2>3 DEF DayIds
<1>4. CASE pc = "write" /\ UNCHANGED <<table, current, decision>>
  BY <1>4 DEF SheetInv, DayIds
<1>5. QED
  BY <1>2, <1>3, <1>4, WhoDecides

\* Every row stays what some written punch wrote.
LEMMA RowsStep ==
    ASSUME SafetyInv, SheetInv, Next
    PROVE  RowsComeFromPunches'
<1>1. TypeOK
  BY DEF SafetyInv
<1>2. \A i \in DOMAIN table : \E m \in applied : table[i] = RowFor(m)
  BY DEF SheetInv, RowsComeFromPunches
<1>3. applied \subseteq applied'
  BY DEF Next, Environment, Handle, Publish, PublishAgain, Replay, DeleteRow,
         ChangeStaff, DropLink, Crash, Stop, Connect, Deliver, Halt, Dispatch,
         LookupCached, LookupQueried, Read, DatabaseFails, InsertRow, UpdateRow,
         Commit, UpdateTouchesNothing, Ack, Retry, Nack, Bury, BuryAck, Goto,
         history
<1>4. CASE table' = table
  BY <1>2, <1>3, <1>4 DEF RowsComeFromPunches
<1>5. ASSUME NEW i \in DOMAIN table, DeleteRow(i) PROVE RowsComeFromPunches'
  BY <1>2, <1>3, <1>5 DEF DeleteRow, RowsComeFromPunches
<1>6. CASE InsertRow
  <2>1. /\ current.msg \in applied'
        /\ DOMAIN table' = DOMAIN table \cup {nextRow}
    BY <1>6 DEF InsertRow, Commit
  <2>2. /\ table'[nextRow] = RowFor(current.msg)
        /\ \A j \in DOMAIN table : table'[j] = table[j]
    BY <1>1, <1>6, InsertedDays
  <2>3. QED
    BY <1>2, <1>3, <2>1, <2>2 DEF RowsComeFromPunches
<1>7. CASE UpdateRow
  <2> DEFINE k == decision.id
  <2>1. /\ current.msg \in applied'
        /\ pc = "write" /\ decision.act = "update" /\ k \in DOMAIN table
        /\ table' = [table EXCEPT ![k].at = Stored(LocalTime(current.msg))]
    BY <1>7 DEF UpdateRow, Commit
  <2>2. /\ table[k].employee = EmployeeOf[current.msg]
        /\ table[k].day = DayOf(current.msg)
        /\ table[k] \in Row
    BY <1>1, <2>1 DEF SheetInv, DayIds, TypeOK
  <2>3. table'[k] = RowFor(current.msg)
    <3>1. table'[k] = [table[k] EXCEPT !.at = Stored(LocalTime(current.msg))]
      BY <2>1
    <3>2. QED
      BY <2>2, <3>1 DEF RowFor, Row
  <2>4. /\ DOMAIN table' = DOMAIN table
        /\ \A j \in DOMAIN table \ {k} : table'[j] = table[j]
    BY <2>1
  <2>5. QED
    BY <1>2, <1>3, <2>1, <2>3, <2>4 DEF RowsComeFromPunches
<1>8. QED
  BY <1>4, <1>5, <1>6, <1>7, WhoWrites

\* Whatever is deleted, retried or switched off, a row of the table is exactly
\* what some punch wrote (mysql.py, insert and update).
THEOREM RowsArePunches == Spec => []RowsComeFromPunches
<1>1. Init => SheetInv
  BY DEF Init, SheetInv, RowsComeFromPunches
<1>2. SafetyInv /\ SheetInv /\ [Next]_vars => SheetInv'
  <2> SUFFICES ASSUME SafetyInv, SheetInv, [Next]_vars PROVE SheetInv'
    OBVIOUS
  <2>1. CASE Next
    BY <2>1, PendingUpdateStep, RowsStep DEF SheetInv
  <2>2. CASE UNCHANGED vars
    BY <2>2 DEF vars, erp, history, SheetInv, RowsComeFromPunches, DayIds
  <2>3. QED
    BY <2>1, <2>2
<1>3. SheetInv => RowsComeFromPunches
  BY DEF SheetInv
<1>4. QED
  BY <1>1, <1>2, <1>3, Safety, PTL DEF Spec
=============================================================================
