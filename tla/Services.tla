------------------------------- MODULE Services --------------------------------
(***************************************************************************)
(* The components whose threads run beside the pipeline and share no state *)
(* with one another in these modules: the reporter, the container from     *)
(* boot to shutdown, the camera's loops, the sockets that show the camera, *)
(* the downloader of the models.  An initial state says which of them this *)
(* behaviour is about; the others stand still.                             *)
(***************************************************************************)
EXTENDS Reporter, FiniteSets

\* The constants of the components have the components' names; a bound that two of them
\* have is told apart.
CONSTANTS
    Autostart, Inproc, BrokerAtBoot, MaxRequests, MaxMessages, MaxLoadFailures, \* Lifecycle
    Pages, Encodes, MaxPictures, MaxDetections, MaxStops,                       \* Viewers
    Runs, Chunks, Checked, MayEndShort, MaxFetchFailures,                       \* ModelFiles
    MaxStarts, MaxGalleries, MaxCrashes, JoinTimesOut                           \* CameraRunner

ASSUME ServicesAssumption ==
    /\ MaxPictures \in Nat /\ MaxStops \in Nat
    /\ Chunks \in Nat /\ IsFiniteSet(Runs) /\ Checked \in BOOLEAN
    /\ MaxStarts \in Nat /\ MaxGalleries \in Nat

VARIABLES
    about,                                                            \* which component
    lock, loaded, loads, place, stop, swapped, shut, late, used,      \* Lifecycle
    slots, taken, scanned, step, viewer, shown, boxes, stops,   \* Viewers
    dest, part, content, run, handle, position, overlapped, failures, \* ModelFiles
    control, joining, thread, stopping, started, state, loop, reader, \* CameraRunner
    scan, seen, pipeline, gallery, hub, abandoned, crashes

life   == <<lock, loaded, loads, place, stop, swapped, shut, late, used>>
views  == <<slots, taken, scanned, step, viewer, shown, boxes, stops>>
files  == <<dest, part, content, run, handle, position, overlapped, failures>>
camera == <<control, joining, thread, stopping, started, state, loop, reader, scan, seen,
            pipeline, gallery, hub, abandoned, crashes>>
all    == <<about, vars, life, views, files, camera>>

L == INSTANCE Lifecycle WITH
        MaxFailures <- MaxLoadFailures, pc <- place, closed <- shut, spent <- used

V == INSTANCE Viewers WITH hub <- slots, scan <- scanned, pc <- step

F == INSTANCE ModelFiles WITH MaxFailures <- MaxFetchFailures, pc <- run

C == INSTANCE CameraRunner WITH pc <- loop

Components == {"reporter", "container", "viewers", "files", "camera"}

ServicesInit ==
    /\ about \in Components
    /\ Init /\ L!Init /\ V!Init /\ F!Init /\ C!Init

\* A step of one component, in the behaviours that are about it.
OfReporter  == about = "reporter"  /\ UNCHANGED <<about, life, views, files, camera>>
OfContainer == about = "container" /\ UNCHANGED <<about, vars, views, files, camera>>
OfViewers   == about = "viewers"   /\ UNCHANGED <<about, vars, life, files, camera>>
OfFiles     == about = "files"     /\ UNCHANGED <<about, vars, life, views, camera>>
OfCamera    == about = "camera"    /\ UNCHANGED <<about, vars, life, views, files>>

ServicesNext ==
    \/ OfReporter /\ Next
    \/ OfContainer /\ L!Next
    \/ OfViewers /\ V!Next
    \/ OfFiles /\ F!Next
    \/ OfCamera /\ C!Next

\* What each component's own FairSpec asks, HealthySpec for the camera.
ServicesFairness ==
    /\ \A t \in L!Threads \ {"consumer"} : WF_all(OfContainer /\ L!ModelStep(t))
    /\ WF_all(OfContainer /\ L!CameraStep)
    /\ WF_all(OfContainer /\ L!ConsumerStep)
    /\ WF_all(OfContainer /\ L!MainStep)
    /\ \A p \in Pages : WF_all(OfViewers /\ V!Poll(p))
    /\ \A g \in C!Gens :
          /\ WF_all(OfCamera /\ C!Work(g)) /\ WF_all(OfCamera /\ C!ScanEnds(g))
          /\ SF_all(OfCamera /\ C!OpenSucceeds(g)) /\ SF_all(OfCamera /\ C!ReadSucceeds(g))
    /\ WF_all(OfCamera /\ C!SetStop)
    /\ WF_all(OfCamera /\ C!Joined)
    /\ WF_all(OfCamera /\ C!ReportStopped)

ServicesSpec == ServicesInit /\ [][ServicesNext]_all /\ ServicesFairness

-------------------------------------------------------------------------------
(* The properties, each stated in the module it is of.                     *)

\* Every component's variables keep their types, and what a thread that has ended held
\* is given back.
TypesOK == TypeOK /\ L!TypeOK /\ V!TypeOK /\ F!TypeOK /\ C!TypeOK

\* Lifecycle: whichever threads ask for the models first, they are loaded once.
ModelsLoadedOnce == L!ModelsLoadedOnce

\* Lifecycle: a consumer told to stop handles the message in hand and takes no other.
OneAfterStop == L!OneAfterStop

\* Lifecycle: shutdown ends, though it joins threads that need the lock it holds.
ShutdownEnds == L!ShutdownEnds

\* Viewers: a page that has seen the current number was shown the current picture.
SeenMeansShown == V!SeenMeansShown

\* Viewers: a picture that stays in the hub reaches every page that stays connected.
LatestReachesPages == V!LatestReachesPages

\* ModelFiles: what the loader finds under the model's name is the whole file.
ResolvedIsWhole == F!ResolvedIsWhole

\* CameraRunner: a caller of stop comes back.
StopReturns == C!StopReturns

\* CameraRunner: a running camera's pipeline is on the newest gallery in the end.
SwapReachesCamera == C!SwapReachesCamera
=============================================================================
