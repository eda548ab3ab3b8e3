----------------------------- MODULE CameraRunner -----------------------------
(***************************************************************************)
(* The always-on camera loop of camera/runner.py, the hub it publishes     *)
(* into, and the endpoints that start and stop it.                         *)
(*                                                                         *)
(* Every start makes a loop on a thread of its own; the loops share one    *)
(* stop event, one hub and the runner's _deps.  start and stop are called  *)
(* on the one event loop of the API, so a caller never meets another, but  *)
(* it meets the threads: stop gives up its join after ten seconds, and a   *)
(* loop may sleep for thirty between two attempts to open the camera.      *)
(*                                                                         *)
(* A scan is a task on the loop's own event loop: it advances only while   *)
(* the loop awaits.                                                        *)
(***************************************************************************)
EXTENDS Integers, FiniteSets

CONSTANTS MaxStarts,     \* bound: calls of start that make a loop
          MaxGalleries,  \* bound: galleries swapped in
          MaxCrashes,    \* bound: exceptions that end a loop
          JoinTimesOut   \* whether a join may give up

Gens == 1 .. MaxStarts
NoThread == 0
Nothing == 0

VARIABLES control,   \* where a caller of stop is
          joining,   \* the loop that stop took off _thread
          thread,    \* _thread: the loop of the last start, or none
          stopping,  \* the stop event
          started,   \* loops made so far; the last one's RunnerState is in _deps
          state,     \* the RunnerState of each loop
          pc,        \* where each loop is
          reader,    \* whether each loop has an open reader
          scan,      \* the scan task of each loop
          seen,      \* the gallery each loop has compared with
          pipeline,  \* the gallery each loop's pipeline was built on
          gallery,   \* GalleryHandle.current
          hub,       \* the loop whose frame and detection the hub holds
          abandoned, \* history: the loops stop gave up on
          crashes    \* budget used

controls == <<control, joining, thread, stopping, started>>
loops == <<pc, reader, scan, seen, pipeline>>
vars == <<control, joining, thread, stopping, started, state, pc, reader, scan, seen,
          pipeline, gallery, hub, abandoned, crashes>>

EmptyHub == [frame |-> Nothing, detection |-> Nothing]
Off == [running |-> FALSE, connected |-> FALSE]

Alive(g) == pc[g] \notin {"unborn", "dead"}

Init ==
    /\ control = "idle"
    /\ joining = NoThread
    /\ thread = NoThread
    /\ stopping = FALSE
    /\ started = 0
    /\ state = [g \in Gens |-> Off]
    /\ pc = [g \in Gens |-> "unborn"]
    /\ reader = [g \in Gens |-> FALSE]
    /\ scan = [g \in Gens |-> "none"]
    /\ seen = [g \in Gens |-> 0]
    /\ pipeline = [g \in Gens |-> 0]
    /\ gallery = 0
    /\ hub = EmptyHub
    /\ abandoned = {}
    /\ crashes = 0

-------------------------------------------------------------------------------
(* start and stop *)

Running == thread # NoThread /\ Alive(thread)

StartUnchecked ==
    /\ control = "idle"
    /\ started < MaxStarts
    /\ started' = started + 1
    /\ thread' = started + 1
    /\ stopping' = FALSE
    /\ state' = [state EXCEPT ![started + 1].running = TRUE]
    /\ pc' = [pc EXCEPT ![started + 1] = "starting"]
    /\ UNCHANGED <<control, joining, reader, scan, seen, pipeline, gallery, hub, abandoned, crashes>>

\* start: refused while _thread is alive; else the stop event is cleared and a
\* new loop starts under a new state.
Start ==
    /\ control = "idle"
    /\ ~Running
    /\ started < MaxStarts
    /\ started' = started + 1
    /\ thread' = started + 1
    /\ stopping' = FALSE
    /\ state' = [state EXCEPT ![started + 1].running = TRUE]
    /\ pc' = [pc EXCEPT ![started + 1] = "starting"]
    /\ UNCHANGED <<control, joining, reader, scan, seen, pipeline, gallery, hub, abandoned, crashes>>

\* stop, step by step: take the thread, set the event, join, report and clear.
TakeThread ==
    /\ control = "idle"
    /\ started > 0
    /\ joining' = thread
    /\ thread' = NoThread
    /\ control' = "taken"
    /\ UNCHANGED <<stopping, started, state, loops, gallery, hub, abandoned, crashes>>

SetStop ==
    /\ control = "taken"
    /\ stopping' = TRUE
    /\ control' = "joining"
    /\ UNCHANGED <<joining, thread, started, state, loops, gallery, hub, abandoned, crashes>>

JoinedAtOnce ==
    /\ control = "joining"
    /\ control' = "joined"
    /\ UNCHANGED <<joining, thread, stopping, started, state, loops, gallery, hub, abandoned, crashes>>

Joined ==
    /\ control = "joining"
    /\ joining # NoThread => ~Alive(joining)
    /\ control' = "joined"
    /\ UNCHANGED <<joining, thread, stopping, started, state, loops, gallery, hub, abandoned, crashes>>

\* Ten seconds have passed: a warning is logged, and stop goes on.
GiveUpJoin ==
    /\ JoinTimesOut
    /\ control = "joining"
    /\ joining # NoThread
    /\ Alive(joining)
    /\ control' = "joined"
    /\ abandoned' = abandoned \cup {joining}
    /\ UNCHANGED <<joining, thread, stopping, started, state, loops, gallery, hub, crashes>>

ReportStopped ==
    /\ control = "joined"
    /\ control' = "idle"
    /\ joining' = NoThread
    /\ state' = [state EXCEPT ![started] = Off]
    /\ hub' = EmptyHub
    /\ UNCHANGED <<thread, stopping, started, loops, gallery, abandoned, crashes>>

-------------------------------------------------------------------------------
(* One loop *)

At(g, from, to) == pc[g] = from /\ pc' = [pc EXCEPT ![g] = to]

SetConnected(g, value) == state' = [state EXCEPT ![g].connected = value]

\* The gallery is remembered, then the pipeline is built on the current one.
Begin(g) ==
    /\ At(g, "starting", "build")
    /\ seen' = [seen EXCEPT ![g] = gallery]
    /\ UNCHANGED <<controls, state, reader, scan, pipeline, gallery, hub, abandoned, crashes>>

BuildOnSeen(g) ==
    /\ pc[g] \in {"build", "rebuild"}
    /\ pc' = [pc EXCEPT ![g] = IF pc[g] = "build" THEN "top" ELSE "publish"]
    /\ pipeline' = [pipeline EXCEPT ![g] = seen[g]]
    /\ seen' = [seen EXCEPT ![g] = gallery]
    /\ UNCHANGED <<controls, state, reader, scan, gallery, hub, abandoned, crashes>>

Build(g) ==
    /\ pc[g] \in {"build", "rebuild"}
    /\ pc' = [pc EXCEPT ![g] = IF pc[g] = "build" THEN "top" ELSE "publish"]
    /\ pipeline' = [pipeline EXCEPT ![g] = gallery]
    /\ UNCHANGED <<controls, state, reader, scan, seen, gallery, hub, abandoned, crashes>>

\* The models do not load: the exception ends the loop.
BuildFails(g) ==
    /\ crashes < MaxCrashes
    /\ pc[g] \in {"build", "rebuild"}
    /\ pc' = [pc EXCEPT ![g] = "ending"]
    /\ crashes' = crashes + 1
    /\ UNCHANGED <<controls, state, reader, scan, seen, pipeline, gallery, hub, abandoned>>

TopKeepsReading(g) ==
    /\ pc[g] = "top"
    /\ pc' = [pc EXCEPT ![g] = IF reader[g] THEN "reading"
                               ELSE IF stopping THEN "ending" ELSE "opening"]
    /\ UNCHANGED <<controls, state, reader, scan, seen, pipeline, gallery, hub, abandoned, crashes>>

\* The head of the while loop.
Top(g) ==
    /\ pc[g] = "top"
    /\ pc' = [pc EXCEPT ![g] = IF stopping THEN "ending"
                               ELSE IF reader[g] THEN "reading" ELSE "opening"]
    /\ UNCHANGED <<controls, state, reader, scan, seen, pipeline, gallery, hub, abandoned, crashes>>

OpenSucceeds(g) ==
    /\ At(g, "opening", "reading")
    /\ reader' = [reader EXCEPT ![g] = TRUE]
    /\ SetConnected(g, TRUE)
    /\ UNCHANGED <<controls, scan, seen, pipeline, gallery, hub, abandoned, crashes>>

\* The loop awaits its backoff, then tries again.
OpenFails(g) ==
    /\ At(g, "opening", "asleep")
    /\ SetConnected(g, FALSE)
    /\ UNCHANGED <<controls, reader, scan, seen, pipeline, gallery, hub, abandoned, crashes>>

ReadSucceeds(g) ==
    /\ At(g, "reading", "compare")
    /\ UNCHANGED <<controls, state, reader, scan, seen, pipeline, gallery, hub, abandoned, crashes>>

\* None or an exception: the reader is closed, and the loop goes on at its head.
ReadFails(g) ==
    /\ At(g, "reading", "top")
    /\ reader' = [reader EXCEPT ![g] = FALSE]
    /\ SetConnected(g, FALSE)
    /\ UNCHANGED <<controls, scan, seen, pipeline, gallery, hub, abandoned, crashes>>

\* A gallery that is a new object calls for a new pipeline.
Compare(g) ==
    /\ pc[g] = "compare"
    /\ pc' = [pc EXCEPT ![g] = IF gallery # seen[g] THEN "rebuild" ELSE "publish"]
    /\ seen' = [seen EXCEPT ![g] = gallery]
    /\ UNCHANGED <<controls, state, reader, scan, pipeline, gallery, hub, abandoned, crashes>>

PublishFrame(g) ==
    /\ At(g, "publish", "harvest")
    /\ hub' = [hub EXCEPT !.frame = g]
    /\ UNCHANGED <<controls, state, reader, scan, seen, pipeline, gallery, abandoned, crashes>>

\* A finished scan is published, a failed one dropped; then a scan starts when none
\* is running and the interval has passed.
HarvestAndSchedule(g) ==
    /\ At(g, "harvest", "asleep")
    /\ hub' = IF scan[g] = "done" THEN [hub EXCEPT !.detection = g] ELSE hub
    /\ \E due \in BOOLEAN :
          LET free == scan[g] # "running"
          IN  scan' = [scan EXCEPT ![g] = IF free /\ due THEN "running"
                                          ELSE IF free THEN "none" ELSE @]
    /\ UNCHANGED <<controls, state, reader, seen, pipeline, gallery, abandoned, crashes>>

\* The scan task runs to its end while the loop awaits.
ScanEnds(g) ==
    /\ pc[g] = "asleep"
    /\ scan[g] = "running"
    /\ \E result \in {"done", "failed"} : scan' = [scan EXCEPT ![g] = result]
    /\ UNCHANGED <<controls, state, pc, reader, seen, pipeline, gallery, hub, abandoned, crashes>>

Wake(g) ==
    /\ At(g, "asleep", "top")
    /\ UNCHANGED <<controls, state, reader, scan, seen, pipeline, gallery, hub, abandoned, crashes>>

CloseScanOnly(g) ==
    /\ At(g, "ending", "closed")
    /\ scan' = [scan EXCEPT ![g] = "none"]
    /\ UNCHANGED <<controls, state, reader, seen, pipeline, gallery, hub, abandoned, crashes>>

\* finally: the scan is cancelled and the reader closed.
Close(g) ==
    /\ At(g, "ending", "closed")
    /\ scan' = [scan EXCEPT ![g] = "none"]
    /\ reader' = [reader EXCEPT ![g] = FALSE]
    /\ UNCHANGED <<controls, state, seen, pipeline, gallery, hub, abandoned, crashes>>

ReportDeadOnCrash(g) ==
    /\ At(g, "closed", "reported")
    /\ state' = IF crashes > 0 THEN state ELSE [state EXCEPT ![started] = Off]
    /\ UNCHANGED <<controls, reader, scan, seen, pipeline, gallery, hub, abandoned, crashes>>

\* _run's finally marks the state that is in _deps by now, whoever's it is.
ReportDead(g) ==
    /\ At(g, "closed", "reported")
    /\ state' = [state EXCEPT ![started] = Off]
    /\ UNCHANGED <<controls, reader, scan, seen, pipeline, gallery, hub, abandoned, crashes>>

Die(g) ==
    /\ At(g, "reported", "dead")
    /\ UNCHANGED <<controls, state, reader, scan, seen, pipeline, gallery, hub, abandoned, crashes>>

Work(g) ==
    \/ Begin(g) \/ Build(g) \/ BuildFails(g) \/ Top(g)
    \/ OpenSucceeds(g) \/ OpenFails(g)
    \/ ReadSucceeds(g) \/ ReadFails(g) \/ Compare(g)
    \/ PublishFrame(g) \/ HarvestAndSchedule(g) \/ Wake(g)
    \/ Close(g) \/ ReportDead(g) \/ Die(g)

\* A gallery build has finished: the handle swaps in a new object.
SwapGallery ==
    /\ gallery < MaxGalleries
    /\ gallery' = gallery + 1
    /\ UNCHANGED <<controls, state, loops, hub, abandoned, crashes>>

Stop == TakeThread \/ SetStop \/ Joined \/ GiveUpJoin \/ ReportStopped

Next ==
    \/ Start \/ Stop \/ SwapGallery
    \/ \E g \in Gens : Work(g) \/ ScanEnds(g)

Spec == Init /\ [][Next]_vars

\* Threads are scheduled, and a stop that was called goes on.  A scan that may
\* advance does.
Fairness ==
    /\ \A g \in Gens : WF_vars(Work(g)) /\ WF_vars(ScanEnds(g))
    /\ WF_vars(SetStop) /\ WF_vars(Joined) /\ WF_vars(ReportStopped)

FairSpec == Spec /\ Fairness

\* A camera that is asked again and again opens and delivers a frame some time.
HealthyCamera ==
    \A g \in Gens : SF_vars(OpenSucceeds(g)) /\ SF_vars(ReadSucceeds(g))

HealthySpec == FairSpec /\ HealthyCamera

-------------------------------------------------------------------------------
(* What has to hold *)

\* The types, and: a loop that has ended holds no camera and no scan.
TypeOK ==
    /\ control \in {"idle", "taken", "joining", "joined"}
    /\ {joining, thread, started} \subseteq 0 .. MaxStarts
    /\ stopping \in BOOLEAN
    /\ state \in [Gens -> [running : BOOLEAN, connected : BOOLEAN]]
    /\ pc \in [Gens -> {"unborn", "starting", "build", "top", "opening", "reading",
                        "compare", "rebuild", "publish", "harvest", "asleep",
                        "ending", "closed", "reported", "dead"}]
    /\ reader \in [Gens -> BOOLEAN]
    /\ scan \in [Gens -> {"none", "running", "done", "failed"}]
    /\ {gallery} \cup {seen[g] : g \in Gens} \cup {pipeline[g] : g \in Gens}
          \subseteq 0 .. MaxGalleries
    /\ hub \in [frame : 0 .. MaxStarts, detection : 0 .. MaxStarts]
    /\ \A g \in Gens : ~Alive(g) => ~reader[g] /\ scan[g] = "none"

\* There is one camera loop, not counting those a stop gave up on: start is refused
\* while a loop is alive, and stop has seen the loop end before the next start
\* (runner.py start, stop).
AtMostOneLoop == Cardinality({g \in Gens : Alive(g)} \ abandoned) <= 1

\* What /camera/status says under "camera" is true of the loop that was started
\* last, through stops, crashes and restarts, unless a stop gave up on a loop, which
\* then reports into the state of its successor (runner.py stop, _run).
StatusIsTrue ==
    control = "idle" /\ started > 0 /\ abandoned = {} =>
        (state[started].running <=> pc[started] \notin {"reported", "dead"})

\* "a stopped camera stops serving a frozen image" (hub.py:58): after a stop that saw
\* its loop end the hub is empty, and stays so until the next start.
StoppedHubIsEmpty ==
    control = "idle" /\ thread = NoThread /\ abandoned = {} => hub = EmptyHub

\* A caller of stop comes back: the join waits for nothing that waits for the
\* caller (runner.py stop).
StopReturns == control # "idle" ~> control = "idle"

\* The pipeline of a running camera is on the newest gallery in the end, whenever
\* the swap came: during a build, a scan or a reconnect (runner.py:208-214).
SwapReachesCamera ==
    \A g \in Gens :
        Alive(g) /\ pipeline[g] # gallery ~> ~Alive(g) \/ pipeline[g] = gallery
=============================================================================
