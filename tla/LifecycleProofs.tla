--------------------------- MODULE LifecycleProofs ----------------------------
(***************************************************************************)
(* Theorems about Lifecycle for every bound and every setting: the models  *)
(* are loaded once, and the container's lock is held by whoever loads them *)
(* or shuts down.                                                          *)
(***************************************************************************)
EXTENDS Lifecycle, TLAPS

\* The thread is where the lock is held.
Uses(t) ==
    \/ pc[t] = "loading"
    \/ t = "main" /\ pc[t] \in {"join consumer", "join camera", "close"}

\* A thread holds the lock when it is in such a place, and only then.
LockRule == \A t \in Threads : Uses(t) <=> lock = t

\* Nobody loads models that are there.
LoadsOnlyMissing == \A t \in Threads : pc[t] = "loading" => ~loaded

\* Before the container is made nothing is being built.
BootsAlone == pc["main"] = "boot" => pc["build"] = "off"

\* The inductive invariant: that the models are loaded once rests on the lock, which
\* keeps a second load from beginning before the first has ended.
IInv ==
    /\ Values
    /\ Located
    /\ Whereabouts
    /\ BootsAlone
    /\ LockRule
    /\ LoadsOnlyMissing
    /\ ModelsLoadedOnce

LEMMA InitInv == Init => IInv
<1> SUFFICES ASSUME Init
             PROVE  IInv
  OBVIOUS
<1>1. Values
  BY DEF Init, Values
<1>2. Located /\ Whereabouts
  <2>1. Located
    BY DEF Init, Located, Threads, Places, MainPlaces
  <2>2. Whereabouts
    BY DEF Init, Whereabouts, Threads, MainPlaces
  <2>3. QED
    BY <2>1, <2>2
<1>3. BootsAlone
  BY DEF Init, BootsAlone, Threads
<1>4. LockRule
  BY DEF Init, LockRule, Uses, Threads, Free
<1>5. LoadsOnlyMissing /\ ModelsLoadedOnce
  BY DEF Init, LoadsOnlyMissing, ModelsLoadedOnce
<1>6. QED
  BY <1>1, <1>2, <1>3, <1>4, <1>5 DEF IInv

\* What the threads that use the models do.
LEMMA ModelInv ==
    ASSUME IInv, NEW t \in Threads \ {"consumer"}, ModelStep(t)
    PROVE  IInv'
<1>1. CASE UseModels(t)
  <2> USE <1>1 DEF IInv, UseModels, Goto, HasModels
  <2>1. Values'
    BY DEF Values, Threads, Free
  <2>2. Whereabouts'
    BY DEF Located, Whereabouts, Threads, MainPlaces
  <2>3. Located' /\ BootsAlone'
    <3>1. Located'
      BY DEF Located, Threads, Places, MainPlaces
    <3>2. BootsAlone'
      BY DEF BootsAlone, Located, Threads
    <3>3. QED
      BY <3>1, <3>2
  <2>4. LockRule'
    BY DEF LockRule, Uses, Located, Whereabouts, Threads, Free
  <2>5. LoadsOnlyMissing' /\ ModelsLoadedOnce'
    BY DEF LoadsOnlyMissing, ModelsLoadedOnce, LockRule, Uses, Values, Located,
           Threads, Free
  <2>6. QED
    BY <2>1, <2>2, <2>3, <2>4, <2>5
<1>2. CASE BeginLoad(t)
  <2> USE <1>2 DEF IInv, BeginLoad, Goto
  <2>1. Values'
    BY DEF Values, Threads, Free
  <2>2. Whereabouts'
    BY DEF Located, Whereabouts, Threads, MainPlaces
  <2>3. Located' /\ BootsAlone'
    <3>1. Located'
      BY DEF Located, Threads, Places, MainPlaces
    <3>2. BootsAlone'
      BY DEF BootsAlone, Located, Threads
    <3>3. QED
      BY <3>1, <3>2
  <2>4. LockRule'
    BY DEF LockRule, Uses, Located, Whereabouts, Threads, Free
  <2>5. LoadsOnlyMissing' /\ ModelsLoadedOnce'
    BY DEF LoadsOnlyMissing, ModelsLoadedOnce, LockRule, Uses, Values, Located,
           Threads, Free
  <2>6. QED
    BY <2>1, <2>2, <2>3, <2>4, <2>5
<1>3. CASE EndLoad(t)
  <2> USE <1>3 DEF IInv, EndLoad, Goto, HasModels
  <2>1. Values'
    BY DEF Values, Threads, Free
  <2>2. Whereabouts'
    BY DEF Located, Whereabouts, Threads, MainPlaces
  <2>3. Located' /\ BootsAlone'
    <3>1. Located'
      BY DEF Located, Threads, Places, MainPlaces
    <3>2. BootsAlone'
      BY DEF BootsAlone, Located, Threads
    <3>3. QED
      BY <3>1, <3>2
  <2>4. LockRule'
    BY DEF LockRule, Uses, Located, Whereabouts, Threads, Free
  <2>5. \A u \in Threads \ {t} : pc[u] # "loading"
    BY DEF LockRule, Uses, Threads
  <2>6. LoadsOnlyMissing'
    BY <2>5 DEF LoadsOnlyMissing, Located, Threads
  <2>7. ~loaded
    BY DEF LoadsOnlyMissing
  <2>8. ModelsLoadedOnce'
    BY <2>7 DEF ModelsLoadedOnce
  <2>9. QED
    BY <2>1, <2>2, <2>3, <2>4, <2>6, <2>8
<1>4. CASE LoadFails(t)
  <2> USE <1>4 DEF IInv, LoadFails, Goto, WithoutModels
  <2>1. Values'
    BY DEF Values, Threads, Free
  <2>2. Whereabouts'
    BY DEF Located, Whereabouts, Threads, MainPlaces
  <2>3. Located' /\ BootsAlone'
    <3>1. Located'
      BY DEF Located, Threads, Places, MainPlaces
    <3>2. BootsAlone'
      BY DEF BootsAlone, Located, Threads
    <3>3. QED
      BY <3>1, <3>2
  <2>4. LockRule'
    BY DEF LockRule, Uses, Located, Whereabouts, Threads, Free
  <2>5. LoadsOnlyMissing' /\ ModelsLoadedOnce'
    BY DEF LoadsOnlyMissing, ModelsLoadedOnce, LockRule, Uses, Values, Located,
           Threads, Free
  <2>6. QED
    BY <2>1, <2>2, <2>3, <2>4, <2>5
<1>5. CASE EndBuild(t)
  <2> USE <1>5 DEF IInv, EndBuild, Goto
  <2>1. Values'
    BY DEF Values, Threads, Free
  <2>2. Whereabouts'
    BY DEF Located, Whereabouts, Threads, MainPlaces
  <2>3. Located' /\ BootsAlone'
    <3>1. Located'
      BY DEF Located, Threads, Places, MainPlaces
    <3>2. BootsAlone'
      BY DEF BootsAlone, Located, Threads
    <3>3. QED
      BY <3>1, <3>2
  <2>4. LockRule'
    BY DEF LockRule, Uses, Located, Whereabouts, Threads, Free
  <2>5. LoadsOnlyMissing' /\ ModelsLoadedOnce'
    BY DEF LoadsOnlyMissing, ModelsLoadedOnce, LockRule, Uses, Values, Located,
           Threads, Free
  <2>6. QED
    BY <2>1, <2>2, <2>3, <2>4, <2>5
<1>6. QED
  BY <1>1, <1>2, <1>3, <1>4, <1>5 DEF ModelStep

\* What the camera's thread and the consumer's do.
LEMMA WorkerInv ==
    ASSUME IInv, CameraStep \/ TakeMessage \/ Disconnect \/ ConsumerStep
    PROVE  IInv'
<1>1. CASE CameraStep
  <2> USE <1>1 DEF IInv, CameraStep, Goto
  <2>1. Values'
    BY DEF Values, Threads, Free
  <2>2. Whereabouts'
    BY DEF Located, Whereabouts, Threads, MainPlaces
  <2>3. Located' /\ BootsAlone'
    <3>1. Located'
      BY DEF Located, Threads, Places, MainPlaces
    <3>2. BootsAlone'
      BY DEF BootsAlone, Located, Threads
    <3>3. QED
      BY <3>1, <3>2
  <2>4. LockRule'
    BY DEF LockRule, Uses, Located, Whereabouts, Threads, Free
  <2>5. LoadsOnlyMissing' /\ ModelsLoadedOnce'
    BY DEF LoadsOnlyMissing, ModelsLoadedOnce, LockRule, Uses, Values, Located,
           Threads, Free
  <2>6. QED
    BY <2>1, <2>2, <2>3, <2>4, <2>5
<1>2. CASE TakeMessage
  <2> USE <1>2 DEF IInv, TakeMessage, Goto
  <2>1. Values'
    BY DEF Values, Threads, Free
  <2>2. Whereabouts'
    BY DEF Located, Whereabouts, Threads, MainPlaces
  <2>3. Located' /\ BootsAlone'
    <3>1. Located'
      BY DEF Located, Threads, Places, MainPlaces
    <3>2. BootsAlone'
      BY DEF BootsAlone, Located, Threads
    <3>3. QED
      BY <3>1, <3>2
  <2>4. LockRule'
    BY DEF LockRule, Uses, Located, Whereabouts, Threads, Free
  <2>5. LoadsOnlyMissing' /\ ModelsLoadedOnce'
    BY DEF LoadsOnlyMissing, ModelsLoadedOnce, LockRule, Uses, Values, Located,
           Threads, Free
  <2>6. QED
    BY <2>1, <2>2, <2>3, <2>4, <2>5
<1>3. CASE Disconnect
  <2> USE <1>3 DEF IInv, Disconnect, Goto
  <2>1. Values'
    BY DEF Values, Threads, Free
  <2>2. Whereabouts'
    BY DEF Located, Whereabouts, Threads, MainPlaces
  <2>3. Located' /\ BootsAlone'
    <3>1. Located'
      BY DEF Located, Threads, Places, MainPlaces
    <3>2. BootsAlone'
      BY DEF BootsAlone, Located, Threads
    <3>3. QED
      BY <3>1, <3>2
  <2>4. LockRule'
    BY DEF LockRule, Uses, Located, Whereabouts, Threads, Free
  <2>5. LoadsOnlyMissing' /\ ModelsLoadedOnce'
    BY DEF LoadsOnlyMissing, ModelsLoadedOnce, LockRule, Uses, Values, Located,
           Threads, Free
  <2>6. QED
    BY <2>1, <2>2, <2>3, <2>4, <2>5
<1>4. CASE HandleMessage
  <2> USE <1>4 DEF IInv, HandleMessage, Goto
  <2>1. Values'
    BY DEF Values, Threads, Free
  <2>2. Whereabouts'
    BY DEF Located, Whereabouts, Threads, MainPlaces
  <2>3. Located' /\ BootsAlone'
    <3>1. Located'
      BY DEF Located, Threads, Places, MainPlaces
    <3>2. BootsAlone'
      BY DEF BootsAlone, Located, Threads
    <3>3. QED
      BY <3>1, <3>2
  <2>4. LockRule'
    BY DEF LockRule, Uses, Located, Whereabouts, Threads, Free
  <2>5. LoadsOnlyMissing' /\ ModelsLoadedOnce'
    BY DEF LoadsOnlyMissing, ModelsLoadedOnce, LockRule, Uses, Values, Located,
           Threads, Free
  <2>6. QED
    BY <2>1, <2>2, <2>3, <2>4, <2>5
<1>5. CASE WakeConsumer
  <2> USE <1>5 DEF IInv, WakeConsumer, Goto
  <2>1. Values'
    BY DEF Values, Threads, Free
  <2>2. Whereabouts'
    BY DEF Located, Whereabouts, Threads, MainPlaces
  <2>3. Located' /\ BootsAlone'
    <3>1. Located'
      BY DEF Located, Threads, Places, MainPlaces
    <3>2. BootsAlone'
      BY DEF BootsAlone, Located, Threads
    <3>3. QED
      BY <3>1, <3>2
  <2>4. LockRule'
    BY DEF LockRule, Uses, Located, Whereabouts, Threads, Free
  <2>5. LoadsOnlyMissing' /\ ModelsLoadedOnce'
    BY DEF LoadsOnlyMissing, ModelsLoadedOnce, LockRule, Uses, Values, Located,
           Threads, Free
  <2>6. QED
    BY <2>1, <2>2, <2>3, <2>4, <2>5
<1>6. CASE EndConsumer
  <2> USE <1>6 DEF IInv, EndConsumer, Goto
  <2>1. Values'
    BY DEF Values, Threads, Free
  <2>2. Whereabouts'
    BY DEF Located, Whereabouts, Threads, MainPlaces
  <2>3. Located' /\ BootsAlone'
    <3>1. Located'
      BY DEF Located, Threads, Places, MainPlaces
    <3>2. BootsAlone'
      BY DEF BootsAlone, Located, Threads
    <3>3. QED
      BY <3>1, <3>2
  <2>4. LockRule'
    BY DEF LockRule, Uses, Located, Whereabouts, Threads, Free
  <2>5. LoadsOnlyMissing' /\ ModelsLoadedOnce'
    BY DEF LoadsOnlyMissing, ModelsLoadedOnce, LockRule, Uses, Values, Located,
           Threads, Free
  <2>6. QED
    BY <2>1, <2>2, <2>3, <2>4, <2>5
<1>7. QED
  BY <1>1, <1>2, <1>3, <1>4, <1>5, <1>6 DEF ConsumerStep

\* What the event loop does when it boots and serves.
LEMMA ServingInv ==
    ASSUME IInv,
           \/ Construct \/ StartAtBoot \/ StartConsumer \/ Signal
           \/ Status \/ StartCamera \/ StopCamera \/ StoppedCamera \/ GiveUpStop \/ Reload
           \/ \E request \in Requests : Ask(request)
    PROVE  IInv'
<1>1. CASE Construct
  <2>1. PICK there \in {"autostart", "start consumer", "crashed"} :
           \/ /\ there # "crashed"
              /\ pc' = [pc EXCEPT !["main"] = there, !["build"] = "wants models"]
           \/ pc' = [pc EXCEPT !["main"] = there]
    <3>1. CASE Autostart
      BY <1>1, <3>1 DEF Construct, Goto
    <3>2. CASE ~Autostart
      BY <1>1, <3>2 DEF Construct, Goto
    <3>3. QED
      BY <3>1, <3>2
  <2>2. UNCHANGED <<lock, loaded, loads, stop, swapped, closed, late, spent>>
    BY <1>1 DEF Construct
  <2>3. pc["main"] = "boot"
    BY <1>1 DEF Construct
  <2> USE <2>1, <2>2, <2>3 DEF IInv
  <2>4. Values'
    BY DEF Values, Threads, Free
  <2>5. Whereabouts'
    BY DEF Located, Whereabouts, Threads, MainPlaces
  <2>6. Located' /\ BootsAlone'
    <3>1. Located'
      BY DEF Located, Threads, Places, MainPlaces
    <3>2. BootsAlone'
      BY DEF BootsAlone, Located, Threads
    <3>3. QED
      BY <3>1, <3>2
  <2>7. LockRule'
    <3>1. CASE there # "crashed" /\ pc' = [pc EXCEPT !["main"] = there, !["build"] = "wants models"]
      BY <3>1 DEF BootsAlone, LockRule, Uses, Located, Whereabouts, Threads, Free
    <3>2. CASE pc' = [pc EXCEPT !["main"] = there]
      BY <3>2 DEF LockRule, Uses, Located, Whereabouts, Threads, Free
    <3>3. QED
      BY <3>1, <3>2
  <2>8. LoadsOnlyMissing' /\ ModelsLoadedOnce'
    BY DEF LoadsOnlyMissing, ModelsLoadedOnce, Values, Located, Threads
  <2>9. QED
    BY <2>4, <2>5, <2>6, <2>7, <2>8
<1>2. CASE StartAtBoot
  <2> USE <1>2 DEF IInv, StartAtBoot
  <2>1. Values'
    BY DEF Values, Threads, Free
  <2>2. Whereabouts'
    BY DEF Located, Whereabouts, Threads, MainPlaces
  <2>3. Located' /\ BootsAlone'
    <3>1. Located'
      BY DEF Located, Threads, Places, MainPlaces
    <3>2. BootsAlone'
      BY DEF BootsAlone, Located, Threads
    <3>3. QED
      BY <3>1, <3>2
  <2>4. LockRule'
    BY DEF LockRule, Uses, Located, Whereabouts, Threads, Free
  <2>5. LoadsOnlyMissing' /\ ModelsLoadedOnce'
    BY DEF LoadsOnlyMissing, ModelsLoadedOnce, LockRule, Uses, Values, Located,
           Threads, Free
  <2>6. QED
    BY <2>1, <2>2, <2>3, <2>4, <2>5
<1>3. CASE StartConsumer
  <2> USE <1>3 DEF IInv, StartConsumer
  <2>1. Values'
    BY DEF Values, Threads, Free
  <2>2. Whereabouts'
    BY DEF Located, Whereabouts, Threads, MainPlaces
  <2>3. Located' /\ BootsAlone'
    <3>1. Located'
      BY DEF Located, Threads, Places, MainPlaces
    <3>2. BootsAlone'
      BY DEF BootsAlone, Located, Threads
    <3>3. QED
      BY <3>1, <3>2
  <2>4. LockRule'
    BY DEF LockRule, Uses, Located, Whereabouts, Threads, Free
  <2>5. LoadsOnlyMissing' /\ ModelsLoadedOnce'
    BY DEF LoadsOnlyMissing, ModelsLoadedOnce, LockRule, Uses, Values, Located,
           Threads, Free
  <2>6. QED
    BY <2>1, <2>2, <2>3, <2>4, <2>5
<1>4. CASE Signal
  <2> USE <1>4 DEF IInv, Signal, Goto
  <2>1. Values'
    BY DEF Values, Threads, Free
  <2>2. Whereabouts'
    BY DEF Located, Whereabouts, Threads, MainPlaces
  <2>3. Located' /\ BootsAlone'
    <3>1. Located'
      BY DEF Located, Threads, Places, MainPlaces
    <3>2. BootsAlone'
      BY DEF BootsAlone, Located, Threads
    <3>3. QED
      BY <3>1, <3>2
  <2>4. LockRule'
    BY DEF LockRule, Uses, Located, Whereabouts, Threads, Free
  <2>5. LoadsOnlyMissing' /\ ModelsLoadedOnce'
    BY DEF LoadsOnlyMissing, ModelsLoadedOnce, LockRule, Uses, Values, Located,
           Threads, Free
  <2>6. QED
    BY <2>1, <2>2, <2>3, <2>4, <2>5
<1>5. CASE Status
  <2> USE <1>5 DEF IInv, Status, Goto
  <2>1. Values'
    BY DEF Values, Threads, Free
  <2>2. Whereabouts'
    BY DEF Located, Whereabouts, Threads, MainPlaces
  <2>3. Located' /\ BootsAlone'
    <3>1. Located'
      BY DEF Located, Threads, Places, MainPlaces
    <3>2. BootsAlone'
      BY DEF BootsAlone, Located, Threads
    <3>3. QED
      BY <3>1, <3>2
  <2>4. LockRule'
    BY DEF LockRule, Uses, Located, Whereabouts, Threads, Free
  <2>5. LoadsOnlyMissing' /\ ModelsLoadedOnce'
    BY DEF LoadsOnlyMissing, ModelsLoadedOnce, LockRule, Uses, Values, Located,
           Threads, Free
  <2>6. QED
    BY <2>1, <2>2, <2>3, <2>4, <2>5
<1>6. CASE StartCamera
  <2> USE <1>6 DEF IInv, StartCamera, Goto
  <2>1. Values'
    BY DEF Values, Threads, Free
  <2>2. Whereabouts'
    BY DEF Located, Whereabouts, Threads, MainPlaces
  <2>3. Located' /\ BootsAlone'
    <3>1. Located'
      BY DEF Located, Threads, Places, MainPlaces
    <3>2. BootsAlone'
      BY DEF BootsAlone, Located, Threads
    <3>3. QED
      BY <3>1, <3>2
  <2>4. LockRule'
    BY DEF LockRule, Uses, Located, Whereabouts, Threads, Free
  <2>5. LoadsOnlyMissing' /\ ModelsLoadedOnce'
    BY DEF LoadsOnlyMissing, ModelsLoadedOnce, LockRule, Uses, Values, Located,
           Threads, Free
  <2>6. QED
    BY <2>1, <2>2, <2>3, <2>4, <2>5
<1>7. CASE StopCamera
  <2> USE <1>7 DEF IInv, StopCamera, Goto
  <2>1. Values'
    BY DEF Values, Threads, Free
  <2>2. Whereabouts'
    BY DEF Located, Whereabouts, Threads, MainPlaces
  <2>3. Located' /\ BootsAlone'
    <3>1. Located'
      BY DEF Located, Threads, Places, MainPlaces
    <3>2. BootsAlone'
      BY DEF BootsAlone, Located, Threads
    <3>3. QED
      BY <3>1, <3>2
  <2>4. LockRule'
    BY DEF LockRule, Uses, Located, Whereabouts, Threads, Free
  <2>5. LoadsOnlyMissing' /\ ModelsLoadedOnce'
    BY DEF LoadsOnlyMissing, ModelsLoadedOnce, LockRule, Uses, Values, Located,
           Threads, Free
  <2>6. QED
    BY <2>1, <2>2, <2>3, <2>4, <2>5
<1>8. CASE StoppedCamera
  <2> USE <1>8 DEF IInv, StoppedCamera, Goto
  <2>1. Values'
    BY DEF Values, Threads, Free
  <2>2. Whereabouts'
    BY DEF Located, Whereabouts, Threads, MainPlaces
  <2>3. Located' /\ BootsAlone'
    <3>1. Located'
      BY DEF Located, Threads, Places, MainPlaces
    <3>2. BootsAlone'
      BY DEF BootsAlone, Located, Threads
    <3>3. QED
      BY <3>1, <3>2
  <2>4. LockRule'
    BY DEF LockRule, Uses, Located, Whereabouts, Threads, Free
  <2>5. LoadsOnlyMissing' /\ ModelsLoadedOnce'
    BY DEF LoadsOnlyMissing, ModelsLoadedOnce, LockRule, Uses, Values, Located,
           Threads, Free
  <2>6. QED
    BY <2>1, <2>2, <2>3, <2>4, <2>5
<1>9. CASE GiveUpStop
  <2> USE <1>9 DEF IInv, GiveUpStop, Goto
  <2>1. Values'
    BY DEF Values, Threads, Free
  <2>2. Whereabouts'
    BY DEF Located, Whereabouts, Threads, MainPlaces
  <2>3. Located' /\ BootsAlone'
    <3>1. Located'
      BY DEF Located, Threads, Places, MainPlaces
    <3>2. BootsAlone'
      BY DEF BootsAlone, Located, Threads
    <3>3. QED
      BY <3>1, <3>2
  <2>4. LockRule'
    BY DEF LockRule, Uses, Located, Whereabouts, Threads, Free
  <2>5. LoadsOnlyMissing' /\ ModelsLoadedOnce'
    BY DEF LoadsOnlyMissing, ModelsLoadedOnce, LockRule, Uses, Values, Located,
           Threads, Free
  <2>6. QED
    BY <2>1, <2>2, <2>3, <2>4, <2>5
<1>10. CASE Reload
  <2> USE <1>10 DEF IInv, Reload
  <2>1. Values'
    BY DEF Values, Threads, Free
  <2>2. Whereabouts'
    BY DEF Located, Whereabouts, Threads, MainPlaces
  <2>3. Located' /\ BootsAlone'
    <3>1. Located'
      BY DEF Located, Threads, Places, MainPlaces
    <3>2. BootsAlone'
      BY DEF BootsAlone, Located, Threads
    <3>3. QED
      BY <3>1, <3>2
  <2>4. LockRule'
    BY DEF LockRule, Uses, Located, Whereabouts, Threads, Free
  <2>5. LoadsOnlyMissing' /\ ModelsLoadedOnce'
    BY DEF LoadsOnlyMissing, ModelsLoadedOnce, LockRule, Uses, Values, Located,
           Threads, Free
  <2>6. QED
    BY <2>1, <2>2, <2>3, <2>4, <2>5
<1>11. CASE \E request \in Requests : Ask(request)
  <2>1. PICK request \in Requests : Ask(request)
    BY <1>11
  <2>2. Values'
    <3>1. spent' = [spent EXCEPT !.requests = @ + 1]
      BY <2>1 DEF Ask
    <3>2. (spent \in [requests : Nat, messages : Nat, failures : Nat])'
      BY <3>1 DEF IInv, Values
    <3>3. UNCHANGED <<lock, loaded, loads, stop, swapped, closed, late>>
      BY <2>1 DEF Ask
    <3>4. QED
      BY <3>2, <3>3 DEF IInv, Values
  <2> USE <2>1 DEF IInv, Ask, Goto, Requests
  <2>3. Whereabouts'
    BY DEF Located, Whereabouts, Threads, MainPlaces
  <2>4. Located' /\ BootsAlone'
    <3>1. Located'
      BY DEF Located, Threads, Places, MainPlaces
    <3>2. BootsAlone'
      BY DEF BootsAlone, Located, Threads
    <3>3. QED
      BY <3>1, <3>2
  <2>5. LockRule'
    BY DEF LockRule, Uses, Located, Whereabouts, Threads, Free
  <2>6. LoadsOnlyMissing'
    BY DEF LoadsOnlyMissing, Located, Threads
  <2>7. ModelsLoadedOnce'
    BY DEF ModelsLoadedOnce
  <2>8. QED
    BY <2>2, <2>3, <2>4, <2>5, <2>6, <2>7
<1>12. QED
  BY <1>1, <1>2, <1>3, <1>4, <1>5, <1>6, <1>7, <1>8, <1>9, <1>10, <1>11

\* What it does when it shuts down.
LEMMA ShutdownInv ==
    ASSUME IInv, BeginShutdown \/ ConsumerJoined \/ CameraJoined \/ CloseReporter
    PROVE  IInv'
<1>1. CASE BeginShutdown
  <2> USE <1>1 DEF IInv, BeginShutdown, Goto
  <2>1. Values'
    BY DEF Values, Threads, Free
  <2>2. Whereabouts'
    BY DEF Located, Whereabouts, Threads, MainPlaces
  <2>3. Located' /\ BootsAlone'
    <3>1. Located'
      BY DEF Located, Threads, Places, MainPlaces
    <3>2. BootsAlone'
      BY DEF BootsAlone, Located, Threads
    <3>3. QED
      BY <3>1, <3>2
  <2>4. LockRule'
    BY DEF LockRule, Uses, Located, Whereabouts, Threads, Free
  <2>5. LoadsOnlyMissing' /\ ModelsLoadedOnce'
    BY DEF LoadsOnlyMissing, ModelsLoadedOnce, LockRule, Uses, Values, Located,
           Threads, Free
  <2>6. QED
    BY <2>1, <2>2, <2>3, <2>4, <2>5
<1>2. CASE ConsumerJoined
  <2> USE <1>2 DEF IInv, ConsumerJoined, Goto
  <2>1. Values'
    BY DEF Values, Threads, Free
  <2>2. Whereabouts'
    BY DEF Located, Whereabouts, Threads, MainPlaces
  <2>3. Located' /\ BootsAlone'
    <3>1. Located'
      BY DEF Located, Threads, Places, MainPlaces
    <3>2. BootsAlone'
      BY DEF BootsAlone, Located, Threads
    <3>3. QED
      BY <3>1, <3>2
  <2>4. LockRule'
    BY DEF LockRule, Uses, Located, Whereabouts, Threads, Free
  <2>5. LoadsOnlyMissing' /\ ModelsLoadedOnce'
    BY DEF LoadsOnlyMissing, ModelsLoadedOnce, LockRule, Uses, Values, Located,
           Threads, Free
  <2>6. QED
    BY <2>1, <2>2, <2>3, <2>4, <2>5
<1>3. CASE CameraJoined
  <2> USE <1>3 DEF IInv, CameraJoined, Goto
  <2>1. Values'
    BY DEF Values, Threads, Free
  <2>2. Whereabouts'
    BY DEF Located, Whereabouts, Threads, MainPlaces
  <2>3. Located' /\ BootsAlone'
    <3>1. Located'
      BY DEF Located, Threads, Places, MainPlaces
    <3>2. BootsAlone'
      BY DEF BootsAlone, Located, Threads
    <3>3. QED
      BY <3>1, <3>2
  <2>4. LockRule'
    BY DEF LockRule, Uses, Located, Whereabouts, Threads, Free
  <2>5. LoadsOnlyMissing' /\ ModelsLoadedOnce'
    BY DEF LoadsOnlyMissing, ModelsLoadedOnce, LockRule, Uses, Values, Located,
           Threads, Free
  <2>6. QED
    BY <2>1, <2>2, <2>3, <2>4, <2>5
<1>4. CASE CloseReporter
  <2> USE <1>4 DEF IInv, CloseReporter, Goto
  <2>1. Values'
    BY DEF Values, Threads, Free
  <2>2. Whereabouts'
    BY DEF Located, Whereabouts, Threads, MainPlaces
  <2>3. Located' /\ BootsAlone'
    <3>1. Located'
      BY DEF Located, Threads, Places, MainPlaces
    <3>2. BootsAlone'
      BY DEF BootsAlone, Located, Threads
    <3>3. QED
      BY <3>1, <3>2
  <2>4. LockRule'
    BY DEF LockRule, Uses, Located, Whereabouts, Threads, Free
  <2>5. LoadsOnlyMissing' /\ ModelsLoadedOnce'
    BY DEF LoadsOnlyMissing, ModelsLoadedOnce, LockRule, Uses, Values, Located,
           Threads, Free
  <2>6. QED
    BY <2>1, <2>2, <2>3, <2>4, <2>5
<1>5. QED
  BY <1>1, <1>2, <1>3, <1>4

LEMMA StepInv == IInv /\ [Next]_vars => IInv'
<1> SUFFICES ASSUME IInv, [Next]_vars
             PROVE  IInv'
  OBVIOUS
<1>1. CASE UNCHANGED vars
  BY <1>1 DEF vars, IInv, Values, Located, Whereabouts, BootsAlone, LockRule,
           LoadsOnlyMissing, ModelsLoadedOnce, Uses
<1>2. CASE Next
  BY <1>2, ModelInv, WorkerInv, ServingInv, ShutdownInv DEF Next, MainStep
<1>3. QED
  BY <1>1, <1>2

\* What StepInv keeps is true throughout: lock, models and threads agree.
THEOREM Invariance == Spec => []IInv
<1>1. QED
  BY InitInv, StepInv, PTL DEF Spec

\* Every variable has its type, and every thread is somewhere it can be.
THEOREM TypeCorrect == Spec => []TypeOK
<1>1. IInv => TypeOK
  BY DEF IInv, TypeOK
<1>2. QED
  BY <1>1, Invariance, PTL

\* load_models is called once at most, whichever threads ask for the models first.
THEOREM ModelsOnce == Spec => []ModelsLoadedOnce
<1>1. IInv => ModelsLoadedOnce
  BY DEF IInv
<1>2. QED
  BY <1>1, Invariance, PTL

\* The container's lock is held by the thread that loads the models or shuts down, and
\* is free when none does.
THEOREM LockHolder == Spec => []LockIsHeldByItsUser
<1>1. IInv => LockIsHeldByItsUser
  BY DEF IInv, Values, LockRule, Uses, LockIsHeldByItsUser, Holding, Threads, Free
<1>2. QED
  BY <1>1, Invariance, PTL

-------------------------------------------------------------------------------
(* What the consumer does after it was told to stop *)

\* A message was handled after the stop, and then the consumer has none in hand.
LateRule ==
    \/ late = 0
    \/ late = 1 /\ "consumer" \in stop /\ pc["consumer"] # "handling"

\* Nobody hands the consumer a message but itself, and nobody takes the stop back.
LEMMA OthersKeepLateRule ==
    ASSUME Located, LateRule,
           \/ \E t \in Threads \ {"consumer"} : ModelStep(t)
           \/ CameraStep \/ MainStep \/ Signal
           \/ \E request \in Requests : Ask(request)
    PROVE  LateRule'
<1> USE DEF Located, LateRule, Threads, Goto
<1>1. CASE \E t \in Threads \ {"consumer"} : ModelStep(t)
  <2>1. PICK t \in Threads \ {"consumer"} : ModelStep(t)
    BY <1>1
  <2>2. UNCHANGED <<late, stop>>
    BY <2>1 DEF ModelStep, UseModels, BeginLoad, EndLoad, LoadFails, EndBuild
  <2>3. \E there : pc' = [pc EXCEPT ![t] = there]
    BY <2>1 DEF ModelStep, UseModels, BeginLoad, EndLoad, LoadFails, EndBuild
  <2>4. QED
    BY <2>2, <2>3
<1>2. CASE CameraStep
  BY <1>2 DEF CameraStep
<1>3. CASE Construct
  BY <1>3 DEF Construct
<1>4. CASE StartAtBoot
  BY <1>4 DEF StartAtBoot
<1>5. CASE StartConsumer
  BY <1>5 DEF StartConsumer
<1>6. CASE Status
  BY <1>6 DEF Status
<1>7. CASE StartCamera
  BY <1>7 DEF StartCamera
<1>8. CASE StopCamera
  BY <1>8 DEF StopCamera
<1>9. CASE StoppedCamera
  BY <1>9 DEF StoppedCamera
<1>10. CASE GiveUpStop
  BY <1>10 DEF GiveUpStop
<1>11. CASE Reload
  BY <1>11 DEF Reload
<1>12. CASE BeginShutdown
  BY <1>12 DEF BeginShutdown
<1>13. CASE ConsumerJoined
  BY <1>13 DEF ConsumerJoined
<1>14. CASE CameraJoined
  BY <1>14 DEF CameraJoined
<1>15. CASE CloseReporter
  BY <1>15 DEF CloseReporter
<1>16. CASE Signal
  BY <1>16 DEF Signal
<1>17. CASE \E request \in Requests : Ask(request)
  BY <1>17 DEF Ask, Requests
<1>18. QED
  BY <1>1, <1>2, <1>3, <1>4, <1>5, <1>6, <1>7, <1>8, <1>9, <1>10, <1>11, <1>12, <1>13, <1>14, <1>15, <1>16, <1>17 DEF MainStep

LEMMA LateStep == Located /\ LateRule /\ [Next]_vars => LateRule'
<1> SUFFICES ASSUME Located, LateRule, [Next]_vars
             PROVE  LateRule'
  OBVIOUS
<1> USE DEF Located, LateRule, Threads, Goto
<1>1. CASE UNCHANGED vars
  BY <1>1 DEF vars
<1>2. CASE TakeMessage
  BY <1>2 DEF TakeMessage
<1>3. CASE Disconnect
  BY <1>3 DEF Disconnect
<1>4. CASE HandleMessage
  BY <1>4 DEF HandleMessage
<1>5. CASE WakeConsumer
  BY <1>5 DEF WakeConsumer
<1>6. CASE EndConsumer
  BY <1>6 DEF EndConsumer
<1>7. QED
  BY <1>1, <1>2, <1>3, <1>4, <1>5, <1>6, OthersKeepLateRule DEF Next, ConsumerStep

\* A consumer that is told to stop handles the message it has in hand, and no other,
\* whoever gives up waiting for it.
THEOREM StopTakesOneMore == Spec => []OneAfterStop
<1>1. Init => LateRule
  BY DEF Init, LateRule
<1>2. IInv => Located
  BY DEF IInv
<1>3. LateRule => OneAfterStop
  BY DEF LateRule, OneAfterStop
<1>4. QED
  BY <1>1, <1>2, <1>3, LateStep, Invariance, PTL DEF Spec
=============================================================================
