------------------------------ MODULE Lifecycle -------------------------------
(***************************************************************************)
(* The process from boot to shutdown: main.py's lifespan, container.py,    *)
(* the endpoints that reach the container, and the threads it starts.      *)
(*                                                                         *)
(* One reentrant lock guards what the container builds lazily.  It is held *)
(* while the models load, which takes seconds, and during the whole of     *)
(* shutdown, joins included.  The thread "main" is the event loop: an      *)
(* endpoint that waits for the lock, or joins a thread, keeps every other  *)
(* request waiting.  A join gives up after ten seconds.                    *)
(***************************************************************************)
EXTENDS Naturals, FiniteSets

CONSTANTS Autostart,   \* CAMERA_AUTOSTART
          Inproc,      \* the attendance consumer is enabled, and in this process
          BrokerAtBoot,\* whether the broker is sure to be up when the service starts
          MaxRequests, \* bound: requests served
          MaxMessages, \* bound: messages the consumer takes
          MaxFailures  \* bound: models that do not load, messages that are retried

Threads == {"main", "build", "reload", "camera", "consumer"}
Free == "free"

VARIABLES lock,      \* Container._lock: its holder, or Free
          loaded,    \* Container._models is not None
          loads,     \* history: times the models were loaded
          pc,        \* what each thread does next; "off" when it is not running
          stop,      \* the threads told to stop
          swapped,   \* a gallery was swapped in that the camera has not seen
          closed,    \* the reporter is closed
          late,      \* history: messages handled after the consumer was told to stop
          spent      \* budgets used

vars == <<lock, loaded, loads, pc, stop, swapped, closed, late, spent>>

Goto(t, there) == pc' = [pc EXCEPT ![t] = there]

Init ==
    /\ lock = Free
    /\ loaded = FALSE
    /\ loads = 0
    /\ pc = [t \in Threads |-> IF t = "main" THEN "boot" ELSE "off"]
    /\ stop = {}
    /\ swapped = FALSE
    /\ closed = FALSE
    /\ late = 0
    /\ spent = [requests |-> 0, messages |-> 0, failures |-> 0]

-------------------------------------------------------------------------------
(* The models, and who uses them *)

HasModels(t) == IF t = "main" THEN "serving"
                ELSE IF t = "camera" THEN "running"
                ELSE "embedding"

WithoutModels(t) == IF t = "main" THEN "serving" ELSE "off"

\* The property finds them there.
UseModels(t) ==
    /\ pc[t] = "wants models"
    /\ lock = Free
    /\ loaded
    /\ Goto(t, HasModels(t))
    /\ UNCHANGED <<lock, loaded, loads, stop, swapped, closed, late, spent>>

BeginLoadUnlocked(t) ==
    /\ pc[t] = "wants models"
    /\ ~loaded
    /\ Goto(t, "loading")
    /\ UNCHANGED <<lock, loaded, loads, stop, swapped, closed, late, spent>>

\* It loads them with the lock held.
BeginLoad(t) ==
    /\ pc[t] = "wants models"
    /\ lock = Free
    /\ ~loaded
    /\ lock' = t
    /\ Goto(t, "loading")
    /\ UNCHANGED <<loaded, loads, stop, swapped, closed, late, spent>>

EndLoad(t) ==
    /\ pc[t] = "loading"
    /\ loaded' = TRUE
    /\ loads' = loads + 1
    /\ lock' = Free
    /\ Goto(t, HasModels(t))
    /\ UNCHANGED <<stop, swapped, closed, late, spent>>

\* A model file is missing or broken: the thread ends, or the socket does.
LoadFails(t) ==
    /\ pc[t] = "loading"
    /\ spent.failures < MaxFailures
    /\ spent' = [spent EXCEPT !.failures = @ + 1]
    /\ lock' = Free
    /\ Goto(t, WithoutModels(t))
    /\ UNCHANGED <<loaded, loads, stop, swapped, closed, late>>

\* The gallery is embedded and swapped in.
EndBuild(t) ==
    /\ pc[t] = "embedding"
    /\ t \in {"build", "reload"}
    /\ swapped' = TRUE
    /\ Goto(t, "off")
    /\ UNCHANGED <<lock, loaded, loads, stop, closed, late, spent>>

\* The camera finds another gallery and builds its pipeline again, or finds that it
\* is told to stop.
CameraStep ==
    /\ pc["camera"] = "running"
    /\ \/ /\ "camera" \in stop
          /\ Goto("camera", "off")
          /\ UNCHANGED swapped
       \/ /\ "camera" \notin stop
          /\ swapped
          /\ swapped' = FALSE
          /\ Goto("camera", "wants models")
    /\ UNCHANGED <<lock, loaded, loads, stop, closed, late, spent>>

-------------------------------------------------------------------------------
(* The consumer *)

TakeAnyMessage ==
    /\ pc["consumer"] = "waiting"
    /\ spent.messages < MaxMessages
    /\ spent' = [spent EXCEPT !.messages = @ + 1]
    /\ Goto("consumer", "handling")
    /\ UNCHANGED <<lock, loaded, loads, stop, swapped, closed, late>>

\* _consume: the event is looked at before each message.
TakeMessage ==
    /\ pc["consumer"] = "waiting"
    /\ "consumer" \notin stop
    /\ spent.messages < MaxMessages
    /\ spent' = [spent EXCEPT !.messages = @ + 1]
    /\ Goto("consumer", "handling")
    /\ UNCHANGED <<lock, loaded, loads, stop, swapped, closed, late>>

\* _dispatch: written, buried, or slept over for as long as _retry says.
HandleMessage ==
    /\ pc["consumer"] = "handling"
    /\ late' = IF "consumer" \in stop THEN late + 1 ELSE late
    /\ \/ /\ Goto("consumer", "waiting")
          /\ UNCHANGED spent
       \/ /\ spent.failures < MaxFailures
          /\ spent' = [spent EXCEPT !.failures = @ + 1]
          /\ Goto("consumer", "asleep")
    /\ UNCHANGED <<lock, loaded, loads, stop, swapped, closed>>

\* The sleep is over, after a retry or after a broken connection.
WakeConsumer ==
    /\ pc["consumer"] = "asleep"
    /\ Goto("consumer", "waiting")
    /\ UNCHANGED <<lock, loaded, loads, stop, swapped, closed, late, spent>>

Disconnect ==
    /\ pc["consumer"] = "waiting"
    /\ "consumer" \notin stop
    /\ spent.failures < MaxFailures
    /\ spent' = [spent EXCEPT !.failures = @ + 1]
    /\ Goto("consumer", "asleep")
    /\ UNCHANGED <<lock, loaded, loads, stop, swapped, closed, late>>

EndConsumer ==
    /\ pc["consumer"] = "waiting"
    /\ "consumer" \in stop
    /\ Goto("consumer", "off")
    /\ UNCHANGED <<lock, loaded, loads, stop, swapped, closed, late, spent>>

-------------------------------------------------------------------------------
(* The event loop: boot *)

\* Container(): the reporter connects at once.  Then the gallery build is started.
Construct ==
    /\ pc["main"] = "boot"
    /\ \/ /\ pc' = [pc EXCEPT !["main"] = IF Autostart THEN "autostart" ELSE "start consumer",
                              !["build"] = "wants models"]
       \/ /\ ~BrokerAtBoot
          /\ Goto("main", "crashed")
    /\ UNCHANGED <<lock, loaded, loads, stop, swapped, closed, late, spent>>

\* container.camera_runner.start()
StartAtBoot ==
    /\ pc["main"] = "autostart"
    /\ lock = Free
    /\ pc' = [pc EXCEPT !["main"] = "start consumer", !["camera"] = "wants models"]
    /\ UNCHANGED <<lock, loaded, loads, stop, swapped, closed, late, spent>>

StartConsumer ==
    /\ pc["main"] = "start consumer"
    /\ pc' = [pc EXCEPT !["main"] = "serving",
                        !["consumer"] = IF Inproc THEN "waiting" ELSE "off"]
    /\ UNCHANGED <<lock, loaded, loads, stop, swapped, closed, late, spent>>

-------------------------------------------------------------------------------
(* The event loop: requests *)

\* A request comes in; a viewer of /webcam/ws builds a pipeline of its own.
Ask(request) ==
    /\ pc["main"] = "serving"
    /\ spent.requests < MaxRequests
    /\ spent' = [spent EXCEPT !.requests = @ + 1]
    /\ Goto("main", request)
    /\ UNCHANGED <<lock, loaded, loads, stop, swapped, closed, late>>

\* /health and /camera/status read container.camera_runner.
Status ==
    /\ pc["main"] = "status"
    /\ lock = Free
    /\ Goto("main", "serving")
    /\ UNCHANGED <<lock, loaded, loads, stop, swapped, closed, late, spent>>

\* /camera/start, refused while the camera's thread is alive.
StartCamera ==
    /\ pc["main"] = "start"
    /\ lock = Free
    /\ \/ /\ pc["camera"] = "off"
          /\ pc' = [pc EXCEPT !["main"] = "serving", !["camera"] = "wants models"]
          /\ stop' = stop \ {"camera"}
       \/ /\ pc["camera"] # "off"
          /\ Goto("main", "serving")
          /\ UNCHANGED stop
    /\ UNCHANGED <<lock, loaded, loads, swapped, closed, late, spent>>

\* /camera/stop: the container's lock is released again before the join.
StopCamera ==
    /\ pc["main"] = "stop"
    /\ lock = Free
    /\ stop' = stop \cup {"camera"}
    /\ Goto("main", "stopping")
    /\ UNCHANGED <<lock, loaded, loads, swapped, closed, late, spent>>

StoppedCamera ==
    /\ pc["main"] = "stopping"
    /\ pc["camera"] = "off"
    /\ Goto("main", "serving")
    /\ UNCHANGED <<lock, loaded, loads, stop, swapped, closed, late, spent>>

\* /gallery/reload, refused while a reload is running.
Reload ==
    /\ pc["main"] = "reload"
    /\ pc' = [pc EXCEPT !["main"] = "serving",
                        !["reload"] = IF @ = "off" THEN "wants models" ELSE @]
    /\ UNCHANGED <<lock, loaded, loads, stop, swapped, closed, late, spent>>

-------------------------------------------------------------------------------
(* The event loop: shutdown *)

\* The server is told to end.
Signal ==
    /\ pc["main"] = "serving"
    /\ Goto("main", "shutdown")
    /\ UNCHANGED <<lock, loaded, loads, stop, swapped, closed, late, spent>>

\* The lock is taken, and kept.
BeginShutdown ==
    /\ pc["main"] = "shutdown"
    /\ lock = Free
    /\ lock' = "main"
    /\ stop' = stop \cup {"consumer"}
    /\ Goto("main", "join consumer")
    /\ UNCHANGED <<loaded, loads, swapped, closed, late, spent>>

\* What a join waits for in vain: a thread that needs the lock the joining one holds,
\* or that sleeps, or loads, for longer than ten seconds.
Stuck(t) ==
    \/ pc[t] = "wants models" /\ lock # Free
    \/ pc[t] \in {"asleep", "loading"}

JoinForever(t) == pc[t] = "off"

\* thread.join(timeout=10.0)
Join(t) == pc[t] = "off" \/ Stuck(t)

ConsumerJoined ==
    /\ pc["main"] = "join consumer"
    /\ Join("consumer")
    /\ stop' = stop \cup {"camera"}
    /\ Goto("main", "join camera")
    /\ UNCHANGED <<lock, loaded, loads, swapped, closed, late, spent>>

CameraJoined ==
    /\ pc["main"] = "join camera"
    /\ Join("camera")
    /\ Goto("main", "close")
    /\ UNCHANGED <<lock, loaded, loads, stop, swapped, closed, late, spent>>

\* attendance_reporter.close(), and the lock is free.
CloseReporter ==
    /\ pc["main"] = "close"
    /\ closed' = TRUE
    /\ lock' = Free
    /\ Goto("main", "exited")
    /\ UNCHANGED <<loaded, loads, stop, swapped, late, spent>>

\* An endpoint's join gives up as well.
GiveUpStop ==
    /\ pc["main"] = "stopping"
    /\ Stuck("camera")
    /\ Goto("main", "serving")
    /\ UNCHANGED <<lock, loaded, loads, stop, swapped, closed, late, spent>>

-------------------------------------------------------------------------------

ModelStep(t) == UseModels(t) \/ BeginLoad(t) \/ EndLoad(t) \/ LoadFails(t) \/ EndBuild(t)
ConsumerStep == HandleMessage \/ WakeConsumer \/ EndConsumer
MainStep ==
    \/ Construct \/ StartAtBoot \/ StartConsumer
    \/ Status \/ StartCamera \/ StopCamera \/ StoppedCamera \/ GiveUpStop \/ Reload
    \/ BeginShutdown \/ ConsumerJoined \/ CameraJoined \/ CloseReporter

Requests == {"status", "start", "stop", "reload", "wants models"}

Next ==
    \/ \E t \in Threads \ {"consumer"} : ModelStep(t)
    \/ CameraStep \/ TakeMessage \/ Disconnect \/ ConsumerStep
    \/ MainStep \/ Signal
    \/ \E request \in Requests : Ask(request)

Spec == Init /\ [][Next]_vars

\* Threads are scheduled, sleeps and loads end; nobody has to ask anything.
FairSpec ==
    /\ Spec
    /\ \A t \in Threads \ {"consumer"} : WF_vars(ModelStep(t))
    /\ WF_vars(CameraStep) /\ WF_vars(ConsumerStep) /\ WF_vars(MainStep)

-------------------------------------------------------------------------------
(* What has to hold *)

MainPlaces ==
    {"boot", "autostart", "start consumer", "serving", "status", "start", "stop", "stopping",
     "reload", "wants models", "loading", "shutdown", "join consumer", "join camera", "close",
     "exited", "crashed"}

Places == MainPlaces \cup {"off", "embedding", "running", "waiting", "handling", "asleep"}

Values ==
    /\ lock \in {Free} \cup Threads
    /\ loaded \in BOOLEAN
    /\ loads \in Nat
    /\ stop \subseteq Threads
    /\ swapped \in BOOLEAN
    /\ closed \in BOOLEAN
    /\ late \in Nat
    /\ spent \in [requests : Nat, messages : Nat, failures : Nat]

Located == pc \in [Threads -> Places]

Whereabouts ==
    /\ pc["main"] \in MainPlaces
    /\ \A t \in {"build", "reload"} : pc[t] \in {"off", "wants models", "loading", "embedding"}
    /\ pc["camera"] \in {"off", "wants models", "loading", "running"}
    /\ pc["consumer"] \in {"off", "waiting", "handling", "asleep"}

TypeOK == Values /\ Located /\ Whereabouts

\* "Called exactly once" (runtime.py load_models): whichever threads ask for the models
\* first, they are loaded once.
ModelsLoadedOnce == loads = (IF loaded THEN 1 ELSE 0)

\* The lock is held by a thread that is loading the models or shutting down, and by no
\* other: a load that fails, and a shutdown that ends, leave it free.
Holding == {t \in Threads : pc[t] = "loading"}
           \cup {t \in {"main"} : pc[t] \in {"join consumer", "join camera", "close"}}

LockIsHeldByItsUser == Holding = IF lock = Free THEN {} ELSE {lock}

\* Told to stop, the consumer handles the message it has in hand and takes no other,
\* although the stop gives up its join.
OneAfterStop == late <= 1

\* Shutdown ends, though it joins threads that need the lock it holds.
ShutdownEnds == pc["main"] = "shutdown" ~> pc["main"] = "exited"
=============================================================================
