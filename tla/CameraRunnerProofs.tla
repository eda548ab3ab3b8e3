--------------------------- MODULE CameraRunnerProofs -------------------------
(***************************************************************************)
(* Theorems about CameraRunner for every number of starts, gallery swaps   *)
(* and crashes, whether or not a join may give up: what stop and start     *)
(* promise of the loops, the status and the hub.                           *)
(***************************************************************************)
EXTENDS CameraRunner, FiniteSetTheorems, TLAPS

\* What the proofs need of the types.
Places == {"unborn", "starting", "build", "top", "opening", "reading", "compare", "rebuild",
           "publish", "harvest", "asleep", "ending", "closed", "reported", "dead"}

Typed ==
    /\ control \in {"idle", "taken", "joining", "joined"}
    /\ {joining, thread, started} \subseteq Nat
    /\ pc \in [Gens -> Places]
    /\ state \in [Gens -> [running : BOOLEAN, connected : BOOLEAN]]

\* Loops are born in the order of their numbers.
BornInOrder == \A g \in Gens : g > started <=> pc[g] = "unborn"

\* A loop is alive that start made last, that stop is about to see end, or that a stop
\* gave up on.
Accounted ==
    \A g \in Gens : Alive(g) =>
        \/ g \in abandoned
        \/ control = "idle" /\ g = thread
        \/ control \in {"taken", "joining"} /\ g = joining

\* Only an idle control has a thread, and it is the one made last.
ThreadIsLast ==
    /\ thread \in {NoThread, started}
    /\ joining \in {NoThread, started}
    /\ control # "idle" => thread = NoThread /\ started > 0
    /\ control = "idle" => joining = NoThread

\* While no stop has given up, the last loop's status says whether it is running.
StatusRule ==
    abandoned = {} /\ started > 0 =>
        (state[started].running <=> pc[started] \notin {"reported", "dead"})

\* The inductive invariant.
IInv == Typed /\ BornInOrder /\ Accounted /\ ThreadIsLast /\ StatusRule /\ StoppedHubIsEmpty

-------------------------------------------------------------------------------

LEMMA InitInv ==
    ASSUME MaxStarts \in Nat, Init
    PROVE  IInv
<1>1. Typed
  BY DEF Init, Typed, Places, NoThread, Off
<1>2. BornInOrder /\ Accounted
  BY DEF Init, BornInOrder, Accounted, Alive, Gens
<1>3. ThreadIsLast
  BY DEF Init, ThreadIsLast, NoThread
<1>4. StatusRule /\ StoppedHubIsEmpty
  BY DEF Init, StatusRule, StoppedHubIsEmpty
<1>5. QED
  BY <1>1, <1>2, <1>3, <1>4 DEF IInv

\* A step of a loop is a step of a living loop, which is not unborn afterwards; it
\* changes only its own status, except that its end marks the one made last.
LEMMA LoopStep ==
    ASSUME Typed, NEW g \in Gens, Work(g) \/ ScanEnds(g)
    PROVE  /\ Alive(g)
           /\ \E there \in Places \ {"unborn"} : pc' = [pc EXCEPT ![g] = there]
           /\ UNCHANGED <<controls, abandoned>>
           /\ state' \in [Gens -> [running : BOOLEAN, connected : BOOLEAN]]
           /\ \/ /\ \A h \in Gens : state'[h].running = state[h].running
                 /\ pc[g] \in {"reported", "dead"} <=> pc'[g] \in {"reported", "dead"}
              \/ state' = [state EXCEPT ![started] = Off] /\ pc'[g] = "reported"
<1> USE DEF Typed, Alive, Places, At, SetConnected, Off
<1>1. CASE Begin(g)
  BY <1>1 DEF Begin
<1>2. CASE Build(g)
  BY <1>2 DEF Build
<1>3. CASE BuildFails(g)
  BY <1>3 DEF BuildFails
<1>4. CASE Top(g)
  BY <1>4 DEF Top
<1>5. CASE OpenSucceeds(g)
  BY <1>5 DEF OpenSucceeds
<1>6. CASE OpenFails(g)
  BY <1>6 DEF OpenFails
<1>7. CASE ReadSucceeds(g)
  BY <1>7 DEF ReadSucceeds
<1>8. CASE ReadFails(g)
  BY <1>8 DEF ReadFails
<1>9. CASE Compare(g)
  BY <1>9 DEF Compare
<1>10. CASE PublishFrame(g)
  BY <1>10 DEF PublishFrame
<1>11. CASE HarvestAndSchedule(g)
  BY <1>11 DEF HarvestAndSchedule
<1>12. CASE Wake(g)
  BY <1>12 DEF Wake
<1>13. CASE Close(g)
  BY <1>13 DEF Close
<1>14. CASE ReportDead(g)
  BY <1>14 DEF ReportDead
<1>15. CASE Die(g)
  BY <1>15 DEF Die
<1>16. CASE ScanEnds(g)
  BY <1>16 DEF ScanEnds
<1>17. QED
  BY <1>1, <1>2, <1>3, <1>4, <1>5, <1>6, <1>7, <1>8, <1>9, <1>10, <1>11,
     <1>12, <1>13, <1>14, <1>15, <1>16 DEF Work

\* A loop's step keeps the invariant: a loop that is alive is accounted for, and while no
\* stop has given up that makes it the one made last.
LEMMA LoopInv ==
    ASSUME IInv, NEW g \in Gens, Work(g) \/ ScanEnds(g)
    PROVE  IInv'
<1>1. PICK there \in Places \ {"unborn"} : pc' = [pc EXCEPT ![g] = there]
  BY LoopStep DEF IInv
<1>2. Alive(g) /\ UNCHANGED <<control, joining, thread, stopping, started, abandoned>>
  BY LoopStep DEF IInv, controls
<1>3. Typed'
  BY <1>1, <1>2, LoopStep DEF IInv, Typed
<1>4. BornInOrder'
  BY <1>1, <1>2 DEF IInv, BornInOrder, Alive, Typed
<1>5. \A h \in Gens : Alive(h)' => Alive(h)
  BY <1>1, <1>2 DEF IInv, Typed, Alive
<1>6. Accounted'
  BY <1>2, <1>5 DEF IInv, Accounted
<1>7. ThreadIsLast'
  BY <1>2 DEF IInv, ThreadIsLast
<1>8. abandoned = {} => g = started /\ (control = "idle" => thread # NoThread)
  BY <1>2 DEF IInv, Accounted, ThreadIsLast, NoThread, Gens
<1>9. StatusRule'
  <2> SUFFICES ASSUME abandoned = {}, started > 0
               PROVE  state'[g].running <=> pc'[g] \notin {"reported", "dead"}
    BY <1>2, <1>8 DEF StatusRule
  <2>1. state[g].running <=> pc[g] \notin {"reported", "dead"}
    BY <1>8 DEF IInv, StatusRule
  <2>2. CASE state' = [state EXCEPT ![started] = Off] /\ pc'[g] = "reported"
    BY <2>2, <1>8 DEF IInv, Typed, Off
  <2>3. CASE /\ \A h \in Gens : state'[h].running = state[h].running
             /\ pc[g] \in {"reported", "dead"} <=> pc'[g] \in {"reported", "dead"}
    BY <2>1, <2>3
  <2>4. QED
    BY <2>2, <2>3, LoopStep DEF IInv
<1>10. StoppedHubIsEmpty'
  BY <1>2, <1>8 DEF StoppedHubIsEmpty
<1>11. QED
  BY <1>3, <1>4, <1>6, <1>7, <1>9, <1>10 DEF IInv

\* start makes a loop when the one it made last has ended, and no stop is under way.
LEMMA StartInv ==
    ASSUME MaxStarts \in Nat, IInv, Start
    PROVE  IInv'
<1> DEFINE new == started + 1
<1>1. /\ new \in Gens /\ new # NoThread /\ started' = new /\ thread' = new
      /\ control = "idle" /\ UNCHANGED <<control, joining, abandoned, hub>>
      /\ pc' = [pc EXCEPT ![new] = "starting"]
      /\ state' = [state EXCEPT ![new].running = TRUE]
  BY DEF Start, IInv, Typed, Gens, NoThread
<1>2. \A g \in Gens : Alive(g) => g \in abandoned
  BY DEF Start, Running, IInv, Accounted, Gens, NoThread
<1>3. Typed'
  <2>1. (state \in [Gens -> [running : BOOLEAN, connected : BOOLEAN]])'
    BY <1>1 DEF IInv, Typed
  <2>2. (pc \in [Gens -> Places])'
    BY <1>1 DEF IInv, Typed, Places
  <2>3. QED
    BY <1>1, <2>1, <2>2 DEF IInv, Typed
<1>4. BornInOrder'
  BY <1>1 DEF IInv, BornInOrder, Typed, Gens
<1>5. Accounted'
  BY <1>1, <1>2 DEF IInv, Typed, Accounted, Alive
<1>6. ThreadIsLast'
  BY <1>1 DEF IInv, ThreadIsLast
<1>7. StatusRule'
  BY <1>1 DEF IInv, Typed, StatusRule
<1>8. StoppedHubIsEmpty'
  BY <1>1 DEF StoppedHubIsEmpty
<1>9. QED
  BY <1>3, <1>4, <1>5, <1>6, <1>7, <1>8 DEF IInv

\* The steps of stop.  After the join nobody is alive that it did not give up on.
LEMMA StopInv ==
    ASSUME IInv, Stop
    PROVE  IInv'
<1> USE DEF IInv, loops
<1>1. CASE TakeThread
  <2> USE <1>1 DEF TakeThread
  <2>1. Typed'
    BY DEF Typed, NoThread
  <2>2. BornInOrder' /\ Accounted'
    BY DEF BornInOrder, Accounted, Alive
  <2>3. ThreadIsLast'
    BY DEF ThreadIsLast, Typed
  <2>4. StatusRule' /\ StoppedHubIsEmpty'
    BY DEF StatusRule, StoppedHubIsEmpty
  <2>5. QED
    BY <2>1, <2>2, <2>3, <2>4
<1>2. CASE SetStop
  <2> USE <1>2 DEF SetStop
  <2>1. Typed' /\ ThreadIsLast'
    BY DEF Typed, ThreadIsLast
  <2>2. BornInOrder' /\ Accounted'
    BY DEF BornInOrder, Accounted, Alive
  <2>3. StatusRule' /\ StoppedHubIsEmpty'
    BY DEF StatusRule, StoppedHubIsEmpty
  <2>4. QED
    BY <2>1, <2>2, <2>3
<1>3. CASE Joined
  <2> USE <1>3 DEF Joined
  <2>1. Typed' /\ ThreadIsLast'
    BY DEF Typed, ThreadIsLast
  <2>2. BornInOrder' /\ Accounted'
    BY DEF BornInOrder, Accounted, Alive, Gens, NoThread
  <2>3. StatusRule' /\ StoppedHubIsEmpty'
    BY DEF StatusRule, StoppedHubIsEmpty
  <2>4. QED
    BY <2>1, <2>2, <2>3
<1>4. CASE GiveUpJoin
  <2> USE <1>4 DEF GiveUpJoin
  <2>1. Typed' /\ ThreadIsLast'
    BY DEF Typed, ThreadIsLast
  <2>2. BornInOrder' /\ Accounted'
    BY DEF BornInOrder, Accounted, Alive
  <2>3. StatusRule' /\ StoppedHubIsEmpty'
    BY DEF StatusRule, StoppedHubIsEmpty
  <2>4. QED
    BY <2>1, <2>2, <2>3
<1>5. CASE ReportStopped
  <2> USE <1>5 DEF ReportStopped
  <2>1. (state \in [Gens -> [running : BOOLEAN, connected : BOOLEAN]])'
    BY DEF Typed, Off
  <2>2. Typed'
    BY <2>1 DEF Typed, NoThread
  <2>3. ThreadIsLast'
    BY DEF ThreadIsLast
  <2>4. BornInOrder' /\ Accounted'
    BY DEF BornInOrder, Accounted, Alive
  <2>5. StatusRule'
    BY DEF StatusRule, Accounted, BornInOrder, Alive, Typed, Off
  <2>6. StoppedHubIsEmpty'
    BY DEF StoppedHubIsEmpty
  <2>7. QED
    BY <2>2, <2>3, <2>4, <2>5, <2>6
<1>6. QED
  BY <1>1, <1>2, <1>3, <1>4, <1>5 DEF Stop

LEMMA StepInv ==
    ASSUME MaxStarts \in Nat, IInv, [Next]_vars
    PROVE  IInv'
<1>1. CASE Start
  BY <1>1, StartInv
<1>2. CASE Stop
  BY <1>2, StopInv
<1>3. CASE SwapGallery
  BY <1>3 DEF SwapGallery, controls, loops, IInv, Typed, BornInOrder, Accounted, Alive,
              ThreadIsLast, StatusRule, StoppedHubIsEmpty
<1>4. CASE \E g \in Gens : Work(g) \/ ScanEnds(g)
  BY <1>4, LoopInv
<1>5. CASE UNCHANGED vars
  BY <1>5 DEF vars, IInv, Typed, BornInOrder, Accounted, Alive,
              ThreadIsLast, StatusRule, StoppedHubIsEmpty
<1>6. QED
  BY <1>1, <1>2, <1>3, <1>4, <1>5 DEF Next

\* What StepInv keeps is true throughout: the loops, their states and the hub agree.
THEOREM Invariance ==
    ASSUME MaxStarts \in Nat
    PROVE  Spec => []IInv
<1>1. Init => IInv
  BY InitInv
<1>2. IInv /\ [Next]_vars => IInv'
  BY StepInv
<1>3. QED
  BY <1>1, <1>2, PTL DEF Spec

\* However often the camera is started and stopped, one loop at most is alive that no
\* stop has given up on.
THEOREM OneLoop ==
    ASSUME MaxStarts \in Nat
    PROVE  Spec => []AtMostOneLoop
<1>1. IInv => AtMostOneLoop
  <2> SUFFICES ASSUME IInv
               PROVE  AtMostOneLoop
    OBVIOUS
  <2> DEFINE Living == {g \in Gens : Alive(g)} \ abandoned
  <2>1. \A g, h \in Living : g = h
    BY DEF IInv, Accounted
  <2>2. CASE Living = {}
    <3>1. Cardinality(Living) = 0
      BY <2>2, FS_EmptySet
    <3>2. QED
      BY <3>1 DEF AtMostOneLoop
  <2>3. CASE Living # {}
    <3>1. PICK g \in Living : TRUE
      BY <2>3
    <3>2. Living = {g}
      BY <2>1, <3>1
    <3>3. Cardinality(Living) = 1
      BY <3>2, FS_Singleton
    <3>4. QED
      BY <3>3 DEF AtMostOneLoop
  <2>4. QED
    BY <2>2, <2>3
<1>2. QED
  BY <1>1, Invariance, PTL

\* /camera/status is true of the loop started last, if no stop has given up on one.
THEOREM StatusTrue ==
    ASSUME MaxStarts \in Nat
    PROVE  Spec => []StatusIsTrue
<1>1. IInv => StatusIsTrue
  BY DEF IInv, StatusRule, StatusIsTrue
<1>2. QED
  BY <1>1, Invariance, PTL

\* A camera whose loop a stop has seen end serves no picture until the next start.
THEOREM HubEmpty ==
    ASSUME MaxStarts \in Nat
    PROVE  Spec => []StoppedHubIsEmpty
<1>1. IInv => StoppedHubIsEmpty
  BY DEF IInv
<1>2. QED
  BY <1>1, Invariance, PTL

-------------------------------------------------------------------------------
(* Types *)

\* The types, and: a loop past its finally, or not yet born, holds no camera and no scan.
Values ==
    /\ {joining, thread, started} \subseteq 0 .. MaxStarts
    /\ stopping \in BOOLEAN
    /\ reader \in [Gens -> BOOLEAN]
    /\ scan \in [Gens -> {"none", "running", "done", "failed"}]
    /\ gallery \in 0 .. MaxGalleries
    /\ seen \in [Gens -> 0 .. MaxGalleries]
    /\ pipeline \in [Gens -> 0 .. MaxGalleries]
    /\ hub \in [frame : 0 .. MaxStarts, detection : 0 .. MaxStarts]

Released ==
    \A g \in Gens :
        pc[g] \in {"unborn", "closed", "reported", "dead"} => ~reader[g] /\ scan[g] = "none"

\* What a loop does to its camera, its scan, its galleries and the hub.
LEMMA LoopValues ==
    ASSUME MaxStarts \in Nat, Typed, Values, Released, NEW g \in Gens, Work(g) \/ ScanEnds(g)
    PROVE  Values' /\ Released'
<1> USE DEF Typed, Values, Released, At
<1>1. g \in 0 .. MaxStarts /\ g \in Gens
  BY DEF Gens
<1>2. CASE Begin(g) \/ Build(g) \/ BuildFails(g)
  BY <1>2 DEF Begin, Build, BuildFails, controls
<1>3. CASE Top(g) \/ OpenFails(g) \/ ReadSucceeds(g) \/ Wake(g)
  BY <1>3 DEF Top, OpenFails, ReadSucceeds, Wake, controls
<1>4. CASE OpenSucceeds(g) \/ ReadFails(g)
  BY <1>4 DEF OpenSucceeds, ReadFails, controls
<1>5. CASE Compare(g)
  BY <1>5 DEF Compare, controls
<1>6. CASE PublishFrame(g)
  <2>1. hub' \in [frame : 0 .. MaxStarts, detection : 0 .. MaxStarts]
    BY <1>1, <1>6 DEF PublishFrame
  <2>2. QED
    BY <1>6, <2>1 DEF PublishFrame, controls
<1>7. CASE HarvestAndSchedule(g)
  <2>1. hub' \in [frame : 0 .. MaxStarts, detection : 0 .. MaxStarts]
    BY <1>1, <1>7 DEF HarvestAndSchedule
  <2>2. QED
    BY <1>7, <2>1 DEF HarvestAndSchedule, controls
<1>8. CASE ScanEnds(g)
  BY <1>8 DEF ScanEnds, controls
<1>9. CASE Close(g)
  BY <1>9 DEF Close, controls
<1>10. CASE ReportDead(g) \/ Die(g)
  BY <1>10 DEF ReportDead, Die, controls
<1>11. QED
  BY <1>2, <1>3, <1>4, <1>5, <1>6, <1>7, <1>8, <1>9, <1>10 DEF Work

LEMMA ValuesStep ==
    ASSUME MaxStarts \in Nat, MaxGalleries \in Nat, IInv, Values, Released, [Next]_vars
    PROVE  Values' /\ Released'
<1>1. Typed
  BY DEF IInv
<1>2. CASE Start
  <2>1. started + 1 \in 0 .. MaxStarts
    BY <1>2 DEF Start, Values
  <2>2. QED
    BY <1>1, <1>2, <2>1 DEF Start, Typed, Values, Released
<1>3. CASE Stop
  <2> USE DEF loops, NoThread, Values, Released
  <2>1. 0 \in 0 .. MaxStarts /\ EmptyHub \in [frame : 0 .. MaxStarts, detection : 0 .. MaxStarts]
    BY DEF EmptyHub, Nothing
  <2>2. CASE TakeThread
    BY <2>1, <2>2 DEF TakeThread
  <2>3. CASE SetStop \/ Joined \/ GiveUpJoin
    BY <2>3 DEF SetStop, Joined, GiveUpJoin
  <2>4. CASE ReportStopped
    BY <2>1, <2>4 DEF ReportStopped
  <2>5. QED
    BY <1>3, <2>2, <2>3, <2>4 DEF Stop
<1>4. CASE SwapGallery
  BY <1>4 DEF SwapGallery, controls, loops, Values, Released
<1>5. CASE \E g \in Gens : Work(g) \/ ScanEnds(g)
  BY <1>1, <1>5, LoopValues
<1>6. CASE UNCHANGED vars
  BY <1>6 DEF vars, Values, Released
<1>7. QED
  BY <1>2, <1>3, <1>4, <1>5, <1>6 DEF Next

\* Every variable has its type, and a loop that has ended holds no camera and no scan.
THEOREM TypeCorrect ==
    ASSUME MaxStarts \in Nat, MaxGalleries \in Nat
    PROVE  Spec => []TypeOK
<1>1. Init => Values /\ Released
  <2>1. EmptyHub \in [frame : 0 .. MaxStarts, detection : 0 .. MaxStarts]
    BY DEF EmptyHub, Nothing
  <2>2. ASSUME Init PROVE Released
    BY <2>2 DEF Init, Released
  <2>3. ASSUME Init PROVE Values
    <3>1. 0 \in 0 .. MaxStarts /\ 0 \in 0 .. MaxGalleries
      OBVIOUS
    <3>2. reader \in [Gens -> BOOLEAN] /\ seen \in [Gens -> 0 .. MaxGalleries]
          /\ pipeline \in [Gens -> 0 .. MaxGalleries]
          /\ scan \in [Gens -> {"none", "running", "done", "failed"}]
      BY <2>3, <3>1 DEF Init
    <3>3. QED
      BY <2>1, <2>3, <3>1, <3>2 DEF Init, Values, NoThread
  <2>4. QED
    BY <2>2, <2>3
<1>2. IInv /\ Values /\ Released /\ [Next]_vars => Values' /\ Released'
  BY ValuesStep
<1>3. IInv /\ Values /\ Released => TypeOK
  BY DEF IInv, Typed, Places, Values, Released, TypeOK, Alive
<1>4. QED
  BY <1>1, <1>2, <1>3, Invariance, PTL DEF Spec
=============================================================================
