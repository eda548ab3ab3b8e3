------------------------------- MODULE Reporter -------------------------------
(***************************************************************************)
(* services/attendance_reporter/rabbitmq.py: the one connection every      *)
(* publish goes through.                                                   *)
(*                                                                         *)
(* A publish runs on a thread of the pool (attendance_handlers.py:61).  It *)
(* connects when it has to and publishes with the lock held, releases the  *)
(* lock when that raised, takes it again to tear the connection down, and  *)
(* tries again.  Other publishes run between those steps.  Cancelling the  *)
(* scan does not stop the thread, and shutdown closes the reporter without *)
(* waiting for it; what is reported after that connects again.  The broker *)
(* goes down, comes back, may take a message whose confirm is then lost,   *)
(* and may refuse while it is up: a message (a nack), or a declaration,    *)
(* which leaves a connection with a channel that is closed.                *)
(***************************************************************************)
EXTENDS Naturals, FiniteSets

CONSTANTS Events,      \* the punches to report
          Retries,     \* ATTENDANCE_PUBLISH_RETRIES
          MaxOutages,  \* bound: times the broker goes down
          MaxLost,     \* bound: confirms lost on the way
          MaxRefusals, \* bound: what a broker that is up refuses
          MayClose     \* whether the service is shut down

ASSUME ReporterAssumption ==
    /\ Retries \in Nat \ {0}
    /\ MaxOutages \in Nat
    /\ MaxLost \in Nat
    /\ MaxRefusals \in Nat
    /\ MayClose \in BOOLEAN

VARIABLES broker,     \* whether the broker is up
          connection, \* "none", "open", or "stale": of no use, and open to the client
          pc,         \* what each event's publish does next
          attempt,    \* attempts of it that have failed
          result,     \* what report returned
          copies,     \* messages of it in the exchange
          lost,       \* history: confirms of it lost
          troubled,   \* history: whether during it the broker was down or refused it,
                      \* or a connection broke
          closed,     \* whether close has run
          outages,    \* outages so far
          refusals    \* refusals so far

vars == <<broker, connection, pc, attempt, result, copies, lost, troubled, closed, outages, refusals>>

Init ==
    /\ broker = "up"
    /\ connection = "open"
    /\ pc = [e \in Events |-> "idle"]
    /\ attempt = [e \in Events |-> 0]
    /\ result = [e \in Events |-> "none"]
    /\ copies = [e \in Events |-> 0]
    /\ lost = [e \in Events |-> 0]
    /\ troubled = [e \in Events |-> FALSE]
    /\ closed = FALSE
    /\ outages = 0
    /\ refusals = 0

TypeOK ==
    /\ broker \in {"up", "down"}
    /\ connection \in {"none", "open", "stale"}
    /\ pc \in [Events -> {"idle", "publish", "teardown", "sleep", "done"}]
    /\ attempt \in [Events -> 0 .. Retries]
    /\ result \in [Events -> {"none", "success", "failure"}]
    /\ copies \in [Events -> Nat]
    /\ lost \in [Events -> Nat]
    /\ troubled \in [Events -> BOOLEAN]
    /\ closed \in BOOLEAN
    /\ outages \in 0 .. MaxOutages
    /\ refusals \in 0 .. MaxRefusals

Reporting(e) == pc[e] \notin {"idle", "done"}

-------------------------------------------------------------------------------
(* The broker *)

BrokerDown ==
    /\ broker = "up"
    /\ outages < MaxOutages
    /\ broker' = "down"
    /\ connection' = IF connection = "open" THEN "stale" ELSE connection
    /\ troubled' = [e \in Events |-> troubled[e] \/ Reporting(e)]
    /\ outages' = outages + 1
    /\ UNCHANGED <<pc, attempt, result, copies, lost, closed, refusals>>

BrokerUp ==
    /\ broker = "down"
    /\ broker' = "up"
    /\ UNCHANGED <<connection, pc, attempt, result, copies, lost, troubled, closed, outages, refusals>>

-------------------------------------------------------------------------------
(* report *)

Begin(e) ==
    /\ pc[e] = "idle"
    /\ pc' = [pc EXCEPT ![e] = "publish"]
    /\ troubled' = [troubled EXCEPT ![e] = broker = "down"]
    /\ UNCHANGED <<broker, connection, attempt, result, copies, lost, closed, outages, refusals>>

\* _ensure_connected: a connection believed open is used as it is.
CanPublish == broker = "up" /\ connection # "stale"

\* Connected, published and confirmed, all with the lock held.
Published(e) ==
    /\ pc[e] = "publish"
    /\ CanPublish
    /\ connection' = "open"
    /\ copies' = [copies EXCEPT ![e] = @ + 1]
    /\ result' = [result EXCEPT ![e] = "success"]
    /\ pc' = [pc EXCEPT ![e] = "done"]
    /\ UNCHANGED <<broker, attempt, lost, troubled, closed, outages, refusals>>

NotPublishedButDone(e) ==
    /\ pc[e] = "publish"
    /\ ~CanPublish
    /\ pc' = [pc EXCEPT ![e] = "done"]
    /\ result' = [result EXCEPT ![e] = "success"]
    /\ UNCHANGED <<broker, connection, attempt, copies, lost, troubled, closed, outages, refusals>>

\* There is no broker to connect to, or the connection at hand turns out to be gone,
\* and closed from then on, or its channel to be closed.
NotPublished(e) ==
    /\ pc[e] = "publish"
    /\ ~CanPublish
    /\ connection' \in {connection, "none"}
    /\ pc' = [pc EXCEPT ![e] = "teardown"]
    /\ UNCHANGED <<broker, attempt, result, copies, lost, troubled, closed, outages, refusals>>

\* The broker is there and refuses the message.
Nacked(e) ==
    /\ pc[e] = "publish"
    /\ CanPublish
    /\ refusals < MaxRefusals
    /\ refusals' = refusals + 1
    /\ connection' = "open"
    /\ troubled' = [troubled EXCEPT ![e] = TRUE]
    /\ pc' = [pc EXCEPT ![e] = "teardown"]
    /\ UNCHANGED <<broker, attempt, result, copies, lost, closed, outages>>

\* The broker refuses the exchange or the queue, and closes the channel.  Until it is
\* torn down others take the connection for one that is set up.
DeclareFails(e) ==
    /\ pc[e] = "publish"
    /\ broker = "up"
    /\ connection = "none"
    /\ refusals < MaxRefusals
    /\ refusals' = refusals + 1
    /\ connection' = "stale"
    /\ troubled' = [d \in Events |-> troubled[d] \/ Reporting(d)]
    /\ pc' = [pc EXCEPT ![e] = "teardown"]
    /\ UNCHANGED <<broker, attempt, result, copies, lost, closed, outages>>

\* The broker took the message, and the connection broke before the confirm.
ConfirmLost(e) ==
    /\ pc[e] = "publish"
    /\ CanPublish
    /\ lost[e] < MaxLost
    /\ connection' \in {"stale", "none"}
    /\ copies' = [copies EXCEPT ![e] = @ + 1]
    /\ lost' = [lost EXCEPT ![e] = @ + 1]
    /\ pc' = [pc EXCEPT ![e] = "teardown"]
    /\ troubled' = [d \in Events |-> troubled[d] \/ Reporting(d)]
    /\ UNCHANGED <<broker, attempt, result, closed, outages, refusals>>

TeardownKeepsConnection(e) ==
    /\ pc[e] = "teardown"
    /\ attempt' = [attempt EXCEPT ![e] = @ + 1]
    /\ pc' = [pc EXCEPT ![e] = IF attempt'[e] < Retries THEN "sleep" ELSE "done"]
    /\ result' = [result EXCEPT ![e] = IF attempt'[e] < Retries THEN @ ELSE "failure"]
    /\ UNCHANGED <<broker, connection, copies, lost, troubled, closed, outages, refusals>>

\* With the lock again: whatever connection there is by now is torn down.
Teardown(e) ==
    /\ pc[e] = "teardown"
    /\ connection' = "none"
    /\ attempt' = [attempt EXCEPT ![e] = @ + 1]
    /\ \/ /\ attempt'[e] < Retries
          /\ pc' = [pc EXCEPT ![e] = "sleep"]
          /\ UNCHANGED result
       \/ /\ attempt'[e] = Retries
          /\ pc' = [pc EXCEPT ![e] = "done"]
          /\ result' = [result EXCEPT ![e] = "failure"]
    /\ UNCHANGED <<broker, copies, lost, troubled, closed, outages, refusals>>

\* The pause before the next attempt is over.
Wake(e) ==
    /\ pc[e] = "sleep"
    /\ pc' = [pc EXCEPT ![e] = "publish"]
    /\ UNCHANGED <<broker, connection, attempt, result, copies, lost, troubled, closed, outages, refusals>>

-------------------------------------------------------------------------------

\* shutdown, which waits for no report.
Close ==
    /\ MayClose
    /\ ~closed
    /\ closed' = TRUE
    /\ connection' = "none"
    /\ UNCHANGED <<broker, pc, attempt, result, copies, lost, troubled, outages, refusals>>

Step(e) ==
    \/ Published(e) \/ NotPublished(e) \/ Nacked(e) \/ DeclareFails(e) \/ ConfirmLost(e)
    \/ Teardown(e) \/ Wake(e)

Next ==
    \/ BrokerDown \/ BrokerUp \/ Close
    \/ \E e \in Events : Begin(e) \/ Step(e)

Spec == Init /\ [][Next]_vars

-------------------------------------------------------------------------------
(* What has to hold *)

\* "The acknowledgement is the only safety net" (rabbitmq.py:69): a punch reported as
\* published is in the exchange, and there is one message more than that only for each
\* confirm that was lost, whatever the other publishes did to the connection.
ConfirmedMeansDelivered ==
    \A e \in Events : copies[e] = lost[e] + (IF result[e] = "success" THEN 1 ELSE 0)

\* "A broker restart does not kill the worker" (rabbitmq.py:9): a connection that went
\* stale before a report began costs an attempt and not the punch; a report fails only
\* when the broker was down or refused it, or a connection broke, while it was trying.
FailsOnlyInTrouble ==
    \A e \in Events : result[e] = "failure" /\ Retries > 1 => troubled[e]
=============================================================================
