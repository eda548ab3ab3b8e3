------------------------- MODULE AttendanceConsumer -------------------------
(***************************************************************************)
(* The consumer that drains the attendance queue into the attendance table *)
(* (app/services/attendance_consumer): consumer.py moves deliveries,       *)
(* writer.py turns one message into one write, mysql.py is the only code   *)
(* that touches the two tables, policy.py (PunchPolicy) decides.           *)
(*                                                                         *)
(* One message is handled in the steps between which the rest of the world *)
(* can move: look the employee up, read the day's rows, write, settle with *)
(* the broker.  Every database access can fail, and a write can fail after *)
(* it was committed.  The connection to the broker can drop and the        *)
(* process can die between any two steps.                                  *)
(***************************************************************************)
EXTENDS PunchPolicy, Sequences

CONSTANTS
    Messages,        \* the events the pipeline may publish
    Employees,
    EmployeeOf,      \* [Messages -> Employees], employee_code
    CapturedAt,      \* [Messages -> Nat], the UTC capture time in ticks
    Malformed,       \* messages that fail json.loads, _require or _timestamp
    Unmapped,        \* messages whose camera has no usable mapping
    InitialStaff,    \* employees the ERP's table holds at the start
    MaxAttempts,     \* MAX_ATTEMPTS
    Prefetch,        \* attendance_consumer_prefetch
    InOrder,         \* one publisher: events reach the queue in capture order
    LossyDeadLetter, \* a publish to the dead-letter exchange may be lost
    \* Bounds on what the environment does.
    MaxFaults,       \* dropped connections and killed processes
    MaxStops,        \* orderly shutdowns
    MaxDuplicates,   \* events published a second time
    MaxReplays,      \* dead letters an operator puts back
    MaxDeletes,      \* rows someone removes from the table
    MaxStaffChanges, \* hires and departures in the ERP's employee table
    MaxTag           \* deliveries on one channel

ASSUME ConsumerAssumption ==
    /\ Messages # {}
    /\ EmployeeOf \in [Messages -> Employees]
    /\ CapturedAt \in [Messages -> Nat]
    /\ Malformed \subseteq Messages
    /\ Unmapped \subseteq Messages
    /\ InitialStaff \subseteq Employees
    /\ MaxAttempts \in Nat \ {0}
    /\ Prefetch \in Nat \ {0}
    /\ InOrder \in BOOLEAN
    /\ LossyDeadLetter \in BOOLEAN
    /\ {MaxFaults, MaxStops, MaxDuplicates, MaxReplays, MaxDeletes,
        MaxStaffChanges, MaxTag} \subseteq Nat

VARIABLES
    queue,      \* the durable queue: entries waiting to be delivered
    unacked,    \* deliveries the broker has handed out and not had settled
    link,       \* the consumer's channel to the broker
    nextTag,    \* delivery tag of the channel's next delivery
    pc,         \* where the consumer thread is
    current,    \* the delivery _dispatch is working on
    decision,   \* what decide returned for it
    attempts,   \* _attempts; 0 stands for "no entry"
    lookup,     \* _employee_cache
    stopping,   \* _stop
    staff,      \* ERP: employees in the employee table
    table,      \* ERP: the attendance log, a function on the row ids in use
    nextRow,    \* ERP: AUTO_INCREMENT
    deadLetters \* messages in the dead-letter queue

\* History and bookkeeping, read by no step of the program.
VARIABLES
    published,  \* messages that have reached the queue
    applied,    \* messages one of whose writes has been committed
    failures,   \* transient failures of a message since it was last settled
    spent       \* how much of each environment bound is used

broker  == <<queue, unacked, link, nextTag>>
memory  == <<attempts, lookup, stopping>>
erp     == <<staff, table, nextRow>>
history == <<published, applied, failures>>
vars    == <<broker, pc, current, decision, memory, erp, deadLetters,
             history, spent>>

Entry    == [msg : Messages, keyed : BOOLEAN]
Delivery == [msg : Messages, keyed : BOOLEAN, tag : Nat]
Keys     == Messages \cup 1 .. MaxTag
Steps    == {"lookup", "read", "write", "ack", "retry", "nack", "bury",
             "buryAck"}
Budgets  == {"faults", "stops", "duplicates", "replays", "deletes",
             "staff"}

NoDelivery == [msg |-> CHOOSE m \in Messages : TRUE, keyed |-> TRUE, tag |-> 0]

\* message_id when the publisher set one, else the delivery tag.
Key(d) == IF d.keyed THEN d.msg ELSE d.tag

LocalTime(m) == ToLocal(CapturedAt[m])

DayOf(m) == LocalDate(LocalTime(m))

Days == {DayOf(m) : m \in Messages}

Row == [employee : Employees, day : Days, at : Int]

\* The day query without its attendance_id_no condition.
AnyonesDayIds(e, day) == {i \in DOMAIN table : table[i].day = day}

DayIds(e, day) ==
    {i \in DOMAIN table : table[i].employee = e /\ table[i].day = day}

\* day_rows for the message: that employee, that local date.
DayRows(m) ==
    [i \in DayIds(EmployeeOf[m], DayOf(m)) |-> table[i].at]

RowFor(m) ==
    [employee |-> EmployeeOf[m],
     day |-> DayOf(m),
     at |-> Stored(LocalTime(m))]

Spend(budget, limit) ==
    /\ spent[budget] < limit
    /\ spent' = [spent EXCEPT ![budget] = @ + 1]

-----------------------------------------------------------------------------
Init ==
    /\ queue = <<>> /\ unacked = <<>> /\ link = "down" /\ nextTag = 1
    /\ pc = "down" /\ current = NoDelivery /\ decision = Skip
    /\ attempts = [k \in Keys |-> 0]
    /\ lookup = [e \in Employees |-> "absent"]
    /\ stopping = FALSE
    /\ staff = InitialStaff
    /\ table = [i \in {} |-> 0]
    /\ nextRow = 1
    /\ deadLetters = {}
    /\ published = {} /\ applied = {}
    /\ failures = [m \in Messages |-> 0]
    /\ spent = [b \in Budgets |-> 0]

-----------------------------------------------------------------------------
(* The publishers.  One camera publishes its events one after the other, a  *)
(* publish that was retried after a lost confirm included, so the queue     *)
(* sees them in capture order; several cameras give no such order.          *)

NewestOf(m) == \A n \in published : CapturedAt[n] <= CapturedAt[m]

Enqueue(m, keyed) ==
    /\ queue' = Append(queue, [msg |-> m, keyed |-> keyed])
    /\ UNCHANGED <<unacked, link, nextTag, pc, current, decision, memory, erp>>

Publish(m) ==
    /\ m \notin published
    /\ InOrder => NewestOf(m)
    /\ Enqueue(m, TRUE)
    /\ published' = published \cup {m}
    /\ UNCHANGED <<deadLetters, applied, failures, spent>>

PublishAgain(m) ==
    /\ m \in published
    /\ InOrder => NewestOf(m)
    /\ Spend("duplicates", MaxDuplicates)
    /\ Enqueue(m, TRUE)
    /\ UNCHANGED <<deadLetters, history>>

(* The operator moves a dead letter back.  _dead_letter republished it      *)
(* without a message_id, so the copy has none.                              *)
Replay(m) ==
    /\ m \in deadLetters
    /\ Spend("replays", MaxReplays)
    /\ Enqueue(m, FALSE)
    /\ deadLetters' = deadLetters \ {m}
    /\ UNCHANGED history

-----------------------------------------------------------------------------
(* The tables of the ERP, which others write too.                           *)

DeleteRow(i) ==
    /\ i \in DOMAIN table
    /\ Spend("deletes", MaxDeletes)
    /\ table' = [j \in DOMAIN table \ {i} |-> table[j]]
    /\ UNCHANGED <<broker, pc, current, decision, memory, staff, nextRow,
                   deadLetters, history>>

ChangeStaff(e) ==
    /\ Spend("staff", MaxStaffChanges)
    /\ staff' = IF e \in staff THEN staff \ {e} ELSE staff \cup {e}
    /\ UNCHANGED <<broker, pc, current, decision, memory, table, nextRow,
                   deadLetters, history>>

-----------------------------------------------------------------------------
(* The connection to the broker.                                            *)

\* Unsettled deliveries return to the places they had: ahead of the rest.
Requeued(ds) ==
    [i \in DOMAIN ds |-> [msg |-> ds[i].msg, keyed |-> ds[i].keyed]] \o queue

Disconnect ==
    /\ queue' = Requeued(unacked)
    /\ unacked' = <<>>
    /\ link' = "down"
    /\ nextTag' = 1

\* _consume up to the loop: connect, declare, qos.
Connect ==
    /\ pc = "down" /\ ~stopping
    /\ link' = "up"
    /\ pc' = "idle"
    /\ UNCHANGED <<queue, unacked, nextTag, current, decision, memory, erp,
                   deadLetters, history, spent>>

\* A prefetch window that is one delivery too wide.
DeliverOneMore ==
    /\ link = "up" /\ queue # <<>> /\ Len(unacked) <= Prefetch
    /\ nextTag <= MaxTag
    /\ unacked' = Append(unacked, [msg |-> Head(queue).msg,
                                   keyed |-> Head(queue).keyed,
                                   tag |-> nextTag])
    /\ queue' = Tail(queue)
    /\ nextTag' = nextTag + 1
    /\ UNCHANGED <<link, pc, current, decision, memory, erp, deadLetters,
                   history, spent>>

\* The broker keeps at most Prefetch deliveries outstanding on the channel.
Deliver ==
    /\ link = "up" /\ queue # <<>> /\ Len(unacked) < Prefetch
    /\ nextTag <= MaxTag
    /\ unacked' = Append(unacked, [msg |-> Head(queue).msg,
                                   keyed |-> Head(queue).keyed,
                                   tag |-> nextTag])
    /\ queue' = Tail(queue)
    /\ nextTag' = nextTag + 1
    /\ UNCHANGED <<link, pc, current, decision, memory, erp, deadLetters,
                   history, spent>>

\* The broker goes away.  A consumer waiting in the loop notices at once; one
\* that is handling a message notices when it settles it.
DropLink ==
    /\ link = "up"
    /\ Spend("faults", MaxFaults)
    /\ Disconnect
    /\ pc' = IF pc = "idle" THEN "down" ELSE pc
    /\ UNCHANGED <<current, decision, memory, erp, deadLetters, history>>

\* The process dies and another is started: everything in memory is gone.
Crash ==
    /\ Spend("faults", MaxFaults)
    /\ Disconnect
    /\ pc' = "down"
    /\ current' = NoDelivery /\ decision' = Skip
    /\ attempts' = [k \in Keys |-> 0]
    /\ lookup' = [e \in Employees |-> "absent"]
    /\ stopping' = FALSE
    /\ failures' = [m \in Messages |-> 0]
    /\ UNCHANGED <<erp, deadLetters, published, applied>>

Stop ==
    /\ ~stopping
    /\ Spend("stops", MaxStops)
    /\ stopping' = TRUE
    /\ UNCHANGED <<broker, pc, current, decision, attempts, lookup, erp,
                   deadLetters, history>>

\* The flag is read between messages and between connection attempts.
Halt ==
    /\ stopping /\ pc \in {"idle", "down"}
    /\ pc' = "stopped"
    /\ Disconnect
    /\ UNCHANGED <<current, decision, memory, erp, deadLetters, history, spent>>

-----------------------------------------------------------------------------
(* _dispatch and AttendanceLogWriter.handle.                                *)

\* The consumer thread moves on without touching broker, tables or memory.
Goto(step) ==
    /\ pc' = step
    /\ UNCHANGED <<broker, current, memory, erp, deadLetters, history, spent>>

\* _require, _timestamp and _resolve_camera: the message itself is no good.
Rejected(m) == m \in Malformed \cup Unmapped

\* Decode the payload, _require its fields, resolve its camera.
Dispatch ==
    /\ pc = "idle" /\ ~stopping /\ unacked # <<>>
    /\ LET d == Head(unacked)
       IN  /\ current' = d
           /\ pc' = IF Rejected(d.msg) THEN "bury" ELSE "lookup"
    /\ decision' = Skip
    /\ UNCHANGED <<broker, memory, erp, deadLetters, history, spent>>

Standing(e) == IF e \in staff THEN "known" ELSE "unknown"

AfterLookup(standing) == IF standing = "known" THEN "read" ELSE "bury"

\* The cached answer, a remembered "unknown" too, until its ttl is over.
LookupCached ==
    LET e == EmployeeOf[current.msg]
    IN  /\ pc = "lookup" /\ lookup[e] # "absent"
        /\ Goto(AfterLookup(lookup[e]))
        /\ UNCHANGED decision

\* No entry, or one older than lookup_ttl_seconds: ask the table and remember.
LookupQueried ==
    LET e == EmployeeOf[current.msg]
    IN  /\ pc = "lookup"
        /\ lookup' = [lookup EXCEPT ![e] = Standing(e)]
        /\ pc' = AfterLookup(Standing(e))
        /\ UNCHANGED <<broker, current, decision, attempts, stopping, erp,
                       deadLetters, history, spent>>

\* day_rows, then decide on what it returned.
Read ==
    /\ pc = "read"
    /\ decision' = Decide(DayRows(current.msg), LocalTime(current.msg))
    /\ Goto(IF decision'.act = "skip" THEN "ack" ELSE "write")

\* Connecting, querying or committing raised: TransientDatabaseError.
DatabaseFails ==
    /\ pc \in {"lookup", "read", "write"}
    /\ Goto("retry")
    /\ UNCHANGED decision

(* autocommit=True: the statement takes effect on its own.  The client sees *)
(* it succeed, or loses the connection before the server's answer.          *)
Commit(newTable) ==
    /\ table' = newTable
    /\ applied' = applied \cup {current.msg}
    /\ pc' \in {"ack", "retry"}
    /\ UNCHANGED <<broker, current, decision, memory, staff, deadLetters,
                   published, failures, spent>>

InsertRow ==
    /\ pc = "write" /\ decision.act = "insert"
    /\ Commit([i \in DOMAIN table \cup {nextRow} |->
                  IF i = nextRow THEN RowFor(current.msg) ELSE table[i]])
    /\ nextRow' = nextRow + 1

\* _UPDATE sets the time and leaves attendance_id_no and log_date_only alone.
UpdateRow ==
    /\ pc = "write" /\ decision.act = "update"
    /\ decision.id \in DOMAIN table
    /\ Commit([table EXCEPT ![decision.id].at = Stored(LocalTime(current.msg))])
    /\ UNCHANGED nextRow

\* Zero rows are taken for a write that was done before.
UpdateTouchesNothingAcked ==
    /\ pc = "write" /\ decision.act = "update"
    /\ decision.id \in DOMAIN table =>
           table[decision.id].at = Stored(LocalTime(current.msg))
    /\ Goto("ack")
    /\ UNCHANGED decision

(* rowcount = 0: the row is gone, or (the driver counts changed rows) it    *)
(* already held exactly these values.  PermanentFailure either way.         *)
UpdateTouchesNothing ==
    /\ pc = "write" /\ decision.act = "update"
    /\ decision.id \in DOMAIN table =>
           table[decision.id].at = Stored(LocalTime(current.msg))
    /\ Goto("bury")
    /\ UNCHANGED decision

-----------------------------------------------------------------------------
(* Settling the delivery.  On a dead channel the call raises, run_forever   *)
(* tears down, and the broker has the message back already.                 *)

\* The error is swallowed, and the loop goes on with the next message.
LeaveBrokenButContinue == link = "down" /\ pc' = "idle" /\ UNCHANGED broker

LeaveBroken == link = "down" /\ pc' = "down" /\ UNCHANGED broker

BasicAck ==
    \/ LeaveBroken
    \/ /\ link = "up"
       /\ unacked' = Tail(unacked)
       /\ pc' = "idle"
       /\ UNCHANGED <<queue, link, nextTag>>

\* The count is not popped: the next failure of that message starts from it.
AckKeepsCount ==
    /\ pc = "ack"
    /\ failures' = [failures EXCEPT ![current.msg] = 0]
    /\ BasicAck
    /\ UNCHANGED <<current, decision, memory, erp, deadLetters, published,
                   applied, spent>>

\* The write is done, or was done before: forget the failures, acknowledge.
Ack ==
    /\ pc = "ack"
    /\ attempts' = [attempts EXCEPT ![Key(current)] = 0]
    /\ failures' = [failures EXCEPT ![current.msg] = 0]
    /\ BasicAck
    /\ UNCHANGED <<current, decision, lookup, stopping, erp, deadLetters,
                   published, applied, spent>>

\* _retry up to the sleep: give up at MAX_ATTEMPTS, else wait and requeue.
Retry ==
    LET k == Key(current)
        n == attempts[k] + 1
    IN  /\ pc = "retry"
        /\ attempts' = [attempts EXCEPT ![k] = IF n >= MaxAttempts THEN 0 ELSE n]
        /\ pc' = IF n >= MaxAttempts THEN "bury" ELSE "nack"
        /\ failures' = [failures EXCEPT ![current.msg] = @ + 1]
        /\ UNCHANGED <<broker, current, decision, lookup, stopping, erp,
                       deadLetters, published, applied, spent>>

\* basic_nack(requeue=True) after the sleep.
Nack ==
    /\ pc = "nack"
    /\ \/ LeaveBroken
       \/ /\ link = "up"
          /\ queue' = Requeued(<<Head(unacked)>>)
          /\ unacked' = Tail(unacked)
          /\ pc' = "idle"
          /\ UNCHANGED <<link, nextTag>>
    /\ UNCHANGED <<current, decision, memory, erp, deadLetters, history, spent>>

\* No dead-letter exchange to publish to: the message is only logged.
BuryNowhere ==
    /\ pc = "bury"
    /\ pc' = "buryAck"
    /\ failures' = [failures EXCEPT ![current.msg] = 0]
    /\ UNCHANGED <<broker, current, decision, memory, erp, deadLetters,
                   published, applied, spent>>

\* _dead_letter, first half.  A failed publish is logged and swallowed.
Bury ==
    /\ pc = "bury"
    /\ \/ link = "up" /\ deadLetters' = deadLetters \cup {current.msg}
       \/ link = "down" /\ UNCHANGED deadLetters
       \/ LossyDeadLetter /\ UNCHANGED deadLetters
    /\ pc' = "buryAck"
    /\ failures' = [failures EXCEPT ![current.msg] = 0]
    /\ UNCHANGED <<broker, current, decision, memory, erp, published, applied,
                   spent>>

\* Requeued instead: the message comes back, and is buried again.
BuryAckRequeues ==
    /\ pc = "buryAck"
    /\ \/ LeaveBroken
       \/ /\ link = "up"
          /\ queue' = Requeued(<<Head(unacked)>>)
          /\ unacked' = Tail(unacked)
          /\ pc' = "idle"
          /\ UNCHANGED <<link, nextTag>>
    /\ UNCHANGED <<current, decision, memory, erp, deadLetters, history, spent>>

\* _dead_letter, second half: acked either way.
BuryAck ==
    /\ pc = "buryAck"
    /\ BasicAck
    /\ UNCHANGED <<current, decision, memory, erp, deadLetters, history, spent>>

-----------------------------------------------------------------------------
Handle ==
    \/ Dispatch
    \/ LookupCached
    \/ LookupQueried
    \/ Read
    \/ DatabaseFails
    \/ InsertRow
    \/ UpdateRow
    \/ UpdateTouchesNothing
    \/ Ack
    \/ Retry
    \/ Nack
    \/ Bury
    \/ BuryAck

Environment ==
    \/ \E m \in Messages : Publish(m) \/ PublishAgain(m) \/ Replay(m)
    \/ \E i \in DOMAIN table : DeleteRow(i)
    \/ \E e \in Employees : ChangeStaff(e)
    \/ DropLink
    \/ Crash
    \/ Stop

Next ==
    \/ Environment
    \/ Connect
    \/ Deliver
    \/ Halt
    \/ Handle

Spec == Init /\ [][Next]_vars

(***************************************************************************)
(* The consumer thread is scheduled, the broker delivers what it holds, and *)
(* run_forever keeps trying to connect.  Nothing obliges the environment.   *)
(***************************************************************************)
Fairness ==
    /\ WF_vars(Handle)
    /\ WF_vars(Connect)
    /\ WF_vars(Deliver)
    /\ WF_vars(Halt)

FairSpec == Spec /\ Fairness

-----------------------------------------------------------------------------
(* What the consumer promises.                                              *)

\* Every variable keeps its kind; table row ids are ones AUTO_INCREMENT gave.
TypeOK ==
    /\ queue \in Seq(Entry)
    /\ unacked \in Seq(Delivery)
    /\ link \in {"up", "down"}
    /\ nextTag \in Nat
    /\ pc \in Steps \cup {"down", "idle", "stopped"}
    /\ current \in Delivery
    /\ decision \in Decisions
    /\ attempts \in [Keys -> Nat]
    /\ lookup \in [Employees -> {"absent", "known", "unknown"}]
    /\ stopping \in BOOLEAN
    /\ staff \subseteq Employees
    /\ nextRow \in Nat \ {0}
    /\ DOMAIN table \subseteq 1 .. nextRow - 1
    /\ table \in [DOMAIN table -> Row]
    /\ deadLetters \subseteq Messages
    /\ published \subseteq Messages
    /\ applied \subseteq Messages
    /\ failures \in [Messages -> Nat]
    /\ spent \in [Budgets -> Nat]

\* policy.py:7, "two rows per employee per day": the read and the write of one
\* message are separate statements, and a write may commit and still be retried.
TwoRowsPerDay ==
    \A e \in Employees, day \in Days : Cardinality(DayIds(e, day)) <= 2

\* The decision is used after the rows it was made from were read.  An insert
\* still finds less than two rows and, unless rows were deleted, an update still
\* finds its row with another one of the day before it.
DecisionStillFits ==
    pc = "write" =>
        LET ids == DOMAIN DayRows(current.msg)
        IN  /\ decision.act \in {"insert", "update"}
            /\ decision.act = "insert" => Cardinality(ids) < 2
            /\ decision.act = "update" /\ spent.deletes = 0 =>
                   /\ decision.id \in ids
                   /\ \E j \in ids \ {decision.id} :
                          table[j].at <= table[decision.id].at

\* Where the thread is, the channel and the deliveries agree: what is settled on
\* a live channel is the oldest delivery, and it is the one being handled.
DeliveryInHand ==
    /\ pc = "idle" => link = "up"
    /\ pc \in {"down", "stopped"} => link = "down"
    /\ link = "down" => unacked = <<>>
    /\ link = "up" /\ pc \in Steps =>
           unacked # <<>> /\ Head(unacked) = current

\* policy.py:77, the gap check "makes an at-least-once redelivery a no-op": no
\* message whose write was committed gets as far as a second write.
RedeliveryChangesNothing ==
    pc = "write" => current.msg \notin applied

\* policy.py:13: no later punch can destroy the arrival time.  In whatever order
\* punches arrive, the day keeps a row as early as the earliest one written.
ArrivalIsEarliest ==
    \A m \in applied :
        \E i \in DayIds(EmployeeOf[m], DayOf(m)) :
            table[i].at <= Stored(LocalTime(m))

\* policy.py:11: the second row "always holds the latest punch".  No punch that
\* was written is later than every row of its day.
DepartureIsLatest ==
    \A m \in applied :
        \E i \in DayIds(EmployeeOf[m], DayOf(m)) :
            table[i].at >= Stored(LocalTime(m))

\* Every row is exactly what some punch wrote: an update never mixes the time of
\* one employee or day into the row of another, whatever changed under it.
RowsComeFromPunches ==
    \A i \in DOMAIN table : \E m \in applied : table[i] = RowFor(m)

Waiting(m) ==
    \/ \E i \in DOMAIN queue : queue[i].msg = m
    \/ \E i \in DOMAIN unacked : unacked[i].msg = m

\* Another written punch of that employee and day lies within the gap.
Covered(m) ==
    \E n \in applied :
        /\ EmployeeOf[n] = EmployeeOf[m] /\ DayOf(n) = DayOf(m)
        /\ Distance(LocalTime(m), Stored(LocalTime(n))) < Gap

\* consumer.py:7-17: acked late, retried or dead-lettered, a punch that reached
\* the queue is always still waiting, parked, written, or a duplicate of one
\* that was written.
NothingLost ==
    \A m \in published :
        \/ Waiting(m)
        \/ m \in deadLetters
        \/ m \in applied
        \/ Covered(m)

\* writer.py:9: a message is dead-lettered when "it can never succeed however
\* often it is retried", or when its MAX_ATTEMPTS are used up.
BuriedOnlyIfHopeless ==
    pc = "bury" =>
        \/ Rejected(current.msg)
        \/ EmployeeOf[current.msg] \notin staff
        \/ failures[current.msg] >= MaxAttempts

\* policy.py:13: "The check-in row is written once and never touched again", the
\* check-in row being the one inserted first.
CheckInRowWrittenOnce ==
    [][\A i \in DOMAIN table \cap DOMAIN table' :
          (\A j \in DayIds(table[i].employee, table[i].day) : i <= j)
              => table'[i] = table[i]]_vars

\* consumer.py:9-17: whatever the databases do, a delivery does not stay with a
\* running consumer for ever, so nothing waits behind it for ever.
EventuallySettled ==
    \A m \in Messages : Waiting(m) ~> (~Waiting(m) \/ pc = "stopped")
=============================================================================
