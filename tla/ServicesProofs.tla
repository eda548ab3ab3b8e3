---------------------------- MODULE ServicesProofs -----------------------------
(***************************************************************************)
(* Theorems about the services that run beside the pipeline, for every     *)
(* value of the constants: the reporter, the viewers and the model files   *)
(* are proved here, the container and the camera's loops in modules of     *)
(* their own; and a step of the composition is a step of one of them.      *)
(***************************************************************************)
EXTENDS Services, SequenceTheorems, FiniteSetTheorems, TLAPS

-------------------------------------------------------------------------------
(* The reporter *)

\* A report has a result when it is over, and not before.
ResultRule == \A e \in Events : result[e] = "none" <=> pc[e] # "done"

\* It has an attempt left while it is at work, and has made none before it begins.
AttemptRule ==
    \A e \in Events :
        /\ Reporting(e) => attempt[e] < Retries
        /\ pc[e] = "idle" => attempt[e] = 0

\* A report is in trouble that is at work while the broker is down.  One that is not in
\* trouble and has failed once has torn the stale connection down, and will not fail again.
TroubleRule ==
    \A e \in Events :
        Reporting(e) /\ ~troubled[e] =>
            /\ broker = "up"
            /\ attempt[e] >= 1 => connection # "stale" /\ pc[e] # "teardown"

\* The inductive invariant.
ReporterInv ==
    /\ TypeOK
    /\ ConfirmedMeansDelivered
    /\ FailsOnlyInTrouble
    /\ ResultRule
    /\ AttemptRule
    /\ TroubleRule

LEMMA ReporterInit == Init => ReporterInv
<1> SUFFICES ASSUME Init
             PROVE  ReporterInv
  OBVIOUS
<1> USE ReporterAssumption DEF Init
<1>1. TypeOK
  <2>1. outages \in 0 .. MaxOutages /\ refusals \in 0 .. MaxRefusals
    OBVIOUS
  <2>2. attempt \in [Events -> 0 .. Retries]
    OBVIOUS
  <2>3. QED
    BY <2>1, <2>2 DEF TypeOK
<1>2. ConfirmedMeansDelivered /\ FailsOnlyInTrouble
  BY DEF ConfirmedMeansDelivered, FailsOnlyInTrouble
<1>3. ResultRule /\ AttemptRule /\ TroubleRule
  BY DEF ResultRule, AttemptRule, TroubleRule, Reporting
<1>4. QED
  BY <1>1, <1>2, <1>3 DEF ReporterInv

\* What the broker and the shutdown do.
LEMMA WorldInv ==
    ASSUME ReporterInv, BrokerDown \/ BrokerUp \/ Close
    PROVE  ReporterInv'
<1> USE ReporterAssumption DEF ReporterInv
<1>1. CASE BrokerDown
  <2> USE <1>1 DEF BrokerDown
  <2>1. TypeOK'
    BY DEF TypeOK, AttemptRule, Reporting
  <2>2. ConfirmedMeansDelivered'
    BY DEF TypeOK, ConfirmedMeansDelivered, ResultRule
  <2>3. FailsOnlyInTrouble'
    BY DEF TypeOK, FailsOnlyInTrouble, TroubleRule, Reporting, ResultRule
  <2>4. ResultRule' /\ AttemptRule'
    BY DEF TypeOK, ResultRule, AttemptRule, Reporting
  <2>5. TroubleRule'
    BY DEF TypeOK, TroubleRule, AttemptRule, Reporting
  <2>6. QED
    BY <2>1, <2>2, <2>3, <2>4, <2>5
<1>2. CASE BrokerUp
  <2> USE <1>2 DEF BrokerUp
  <2>1. TypeOK'
    BY DEF TypeOK, AttemptRule, Reporting
  <2>2. ConfirmedMeansDelivered'
    BY DEF TypeOK, ConfirmedMeansDelivered, ResultRule
  <2>3. FailsOnlyInTrouble'
    BY DEF TypeOK, FailsOnlyInTrouble, TroubleRule, Reporting, ResultRule
  <2>4. ResultRule' /\ AttemptRule'
    BY DEF TypeOK, ResultRule, AttemptRule, Reporting
  <2>5. TroubleRule'
    BY DEF TypeOK, TroubleRule, AttemptRule, Reporting
  <2>6. QED
    BY <2>1, <2>2, <2>3, <2>4, <2>5
<1>3. CASE Close
  <2> USE <1>3 DEF Close
  <2>1. TypeOK'
    BY DEF TypeOK, AttemptRule, Reporting
  <2>2. ConfirmedMeansDelivered'
    BY DEF TypeOK, ConfirmedMeansDelivered, ResultRule
  <2>3. FailsOnlyInTrouble'
    BY DEF TypeOK, FailsOnlyInTrouble, TroubleRule, Reporting, ResultRule
  <2>4. ResultRule' /\ AttemptRule'
    BY DEF TypeOK, ResultRule, AttemptRule, Reporting
  <2>5. TroubleRule'
    BY DEF TypeOK, TroubleRule, AttemptRule, Reporting
  <2>6. QED
    BY <2>1, <2>2, <2>3, <2>4, <2>5
<1>4. QED
  BY <1>1, <1>2, <1>3

\* What the publish of one punch does.
LEMMA ReportInv ==
    ASSUME ReporterInv, NEW e \in Events, Begin(e) \/ Step(e)
    PROVE  ReporterInv'
<1> USE ReporterAssumption DEF ReporterInv
<1>1. CASE Begin(e)
  <2> USE <1>1 DEF Begin
  <2>1. TypeOK'
    BY DEF TypeOK, AttemptRule, Reporting
  <2>2. ConfirmedMeansDelivered'
    BY DEF TypeOK, ConfirmedMeansDelivered, ResultRule
  <2>3. FailsOnlyInTrouble'
    BY DEF TypeOK, FailsOnlyInTrouble, TroubleRule, Reporting, ResultRule
  <2>4. ResultRule' /\ AttemptRule'
    BY DEF TypeOK, ResultRule, AttemptRule, Reporting
  <2>5. TroubleRule'
    <3>1. attempt'[e] = 0
      BY DEF AttemptRule
    <3>2. troubled'[e] \/ broker' = "up"
      <4>1. troubled'[e] = (broker = "down")
        BY DEF TypeOK
      <4>2. QED
        BY <4>1 DEF TypeOK
    <3>3. \A d \in Events \ {e} : troubled'[d] = troubled[d] /\ pc'[d] = pc[d]
      BY DEF TypeOK
    <3>4. UNCHANGED <<attempt, broker, connection>>
      OBVIOUS
    <3> HIDE <1>1
    <3>5. QED
      BY <3>1, <3>2, <3>3, <3>4 DEF TroubleRule, Reporting
  <2>6. QED
    BY <2>1, <2>2, <2>3, <2>4, <2>5
<1>2. CASE Published(e)
  <2> USE <1>2 DEF Published, CanPublish
  <2>1. TypeOK'
    BY DEF TypeOK, AttemptRule, Reporting
  <2>2. ConfirmedMeansDelivered'
    BY DEF TypeOK, ConfirmedMeansDelivered, ResultRule
  <2>3. FailsOnlyInTrouble'
    BY DEF TypeOK, FailsOnlyInTrouble, TroubleRule, Reporting, ResultRule
  <2>4. ResultRule' /\ AttemptRule'
    BY DEF TypeOK, ResultRule, AttemptRule, Reporting
  <2>5. TroubleRule'
    BY DEF TypeOK, TroubleRule, AttemptRule, Reporting
  <2>6. QED
    BY <2>1, <2>2, <2>3, <2>4, <2>5
<1>3. CASE NotPublished(e)
  <2> USE <1>3 DEF NotPublished, CanPublish
  <2>1. TypeOK'
    BY DEF TypeOK, AttemptRule, Reporting
  <2>2. ConfirmedMeansDelivered'
    BY DEF TypeOK, ConfirmedMeansDelivered, ResultRule
  <2>3. FailsOnlyInTrouble'
    BY DEF TypeOK, FailsOnlyInTrouble, TroubleRule, Reporting, ResultRule
  <2>4. ResultRule' /\ AttemptRule'
    BY DEF TypeOK, ResultRule, AttemptRule, Reporting
  <2>5. TroubleRule'
    BY DEF TypeOK, TroubleRule, AttemptRule, Reporting
  <2>6. QED
    BY <2>1, <2>2, <2>3, <2>4, <2>5
<1>4. CASE ConfirmLost(e)
  <2> USE <1>4 DEF ConfirmLost, CanPublish
  <2>1. TypeOK'
    BY DEF TypeOK, AttemptRule, Reporting
  <2>2. ConfirmedMeansDelivered'
    BY DEF TypeOK, ConfirmedMeansDelivered, ResultRule
  <2>3. FailsOnlyInTrouble'
    BY DEF TypeOK, FailsOnlyInTrouble, TroubleRule, Reporting, ResultRule
  <2>4. ResultRule' /\ AttemptRule'
    BY DEF TypeOK, ResultRule, AttemptRule, Reporting
  <2>5. TroubleRule'
    BY DEF TypeOK, TroubleRule, AttemptRule, Reporting
  <2>6. QED
    BY <2>1, <2>2, <2>3, <2>4, <2>5
<1>5. CASE Teardown(e)
  <2> USE <1>5 DEF Teardown
  <2>1. TypeOK'
    BY DEF TypeOK, AttemptRule, Reporting
  <2>2. ConfirmedMeansDelivered'
    BY DEF TypeOK, ConfirmedMeansDelivered, ResultRule
  <2>3. FailsOnlyInTrouble'
    BY DEF TypeOK, FailsOnlyInTrouble, TroubleRule, Reporting, ResultRule
  <2>4. ResultRule' /\ AttemptRule'
    BY DEF TypeOK, ResultRule, AttemptRule, Reporting
  <2>5. TroubleRule'
    BY DEF TypeOK, TroubleRule, AttemptRule, Reporting
  <2>6. QED
    BY <2>1, <2>2, <2>3, <2>4, <2>5
<1>6. CASE Wake(e)
  <2> USE <1>6 DEF Wake
  <2>1. TypeOK'
    BY DEF TypeOK, AttemptRule, Reporting
  <2>2. ConfirmedMeansDelivered'
    BY DEF TypeOK, ConfirmedMeansDelivered, ResultRule
  <2>3. FailsOnlyInTrouble'
    BY DEF TypeOK, FailsOnlyInTrouble, TroubleRule, Reporting, ResultRule
  <2>4. ResultRule' /\ AttemptRule'
    BY DEF TypeOK, ResultRule, AttemptRule, Reporting
  <2>5. TroubleRule'
    BY DEF TypeOK, TroubleRule, AttemptRule, Reporting
  <2>6. QED
    BY <2>1, <2>2, <2>3, <2>4, <2>5
<1>7. CASE Nacked(e)
  <2> USE <1>7 DEF Nacked, CanPublish
  <2>1. TypeOK'
    BY DEF TypeOK, AttemptRule, Reporting
  <2>2. ConfirmedMeansDelivered'
    BY DEF TypeOK, ConfirmedMeansDelivered, ResultRule
  <2>3. FailsOnlyInTrouble'
    BY DEF TypeOK, FailsOnlyInTrouble, TroubleRule, Reporting, ResultRule
  <2>4. ResultRule' /\ AttemptRule'
    BY DEF TypeOK, ResultRule, AttemptRule, Reporting
  <2>5. TroubleRule'
    BY DEF TypeOK, TroubleRule, AttemptRule, Reporting
  <2>6. QED
    BY <2>1, <2>2, <2>3, <2>4, <2>5
<1>8. CASE DeclareFails(e)
  <2> USE <1>8 DEF DeclareFails
  <2>1. TypeOK'
    BY DEF TypeOK, AttemptRule, Reporting
  <2>2. ConfirmedMeansDelivered'
    BY DEF TypeOK, ConfirmedMeansDelivered, ResultRule
  <2>3. FailsOnlyInTrouble'
    BY DEF TypeOK, FailsOnlyInTrouble, TroubleRule, Reporting, ResultRule
  <2>4. ResultRule' /\ AttemptRule'
    BY DEF TypeOK, ResultRule, AttemptRule, Reporting
  <2>5. TroubleRule'
    BY DEF TypeOK, TroubleRule, AttemptRule, Reporting
  <2>6. QED
    BY <2>1, <2>2, <2>3, <2>4, <2>5
<1>9. QED
  BY <1>1, <1>2, <1>3, <1>4, <1>5, <1>6, <1>7, <1>8 DEF Step

LEMMA ReporterStep == ReporterInv /\ [Next]_vars => ReporterInv'
<1> SUFFICES ASSUME ReporterInv, [Next]_vars
             PROVE  ReporterInv'
  OBVIOUS
<1>1. CASE UNCHANGED vars
  BY <1>1 DEF vars, ReporterInv, TypeOK, ConfirmedMeansDelivered, FailsOnlyInTrouble, ResultRule,
              AttemptRule, TroubleRule, Reporting
<1>2. CASE Next
  BY <1>2, WorldInv, ReportInv DEF Next
<1>3. QED
  BY <1>1, <1>2

\* What holds of the reporter throughout: attempts, troubles and confirms agree.
THEOREM ReporterInvariance == Spec => []ReporterInv
<1>1. QED
  BY ReporterInit, ReporterStep, PTL DEF Spec

\* A punch that was reported as published is in the exchange, once more for each of its
\* confirms that was lost, and one that was not only for those.
THEOREM ConfirmedDelivered == Spec => []ConfirmedMeansDelivered
<1>1. ReporterInv => ConfirmedMeansDelivered
  BY DEF ReporterInv
<1>2. QED
  BY <1>1, ReporterInvariance, PTL

\* With a retry to spare, a report fails only when the broker was down or refused it, or a
\* connection broke, while it was trying.
THEOREM FailureMeansTrouble == Spec => []FailsOnlyInTrouble
<1>1. ReporterInv => FailsOnlyInTrouble
  BY DEF ReporterInv
<1>2. QED
  BY <1>1, ReporterInvariance, PTL

-------------------------------------------------------------------------------
(* The viewers *)

Hub == [picture : Int, boxes : Int, frame_seq : Nat, detection_seq : Nat]

Viewer == [at : {"gone", "poll", "frame", "detection"}, snapshot : Hub,
           last_frame : Int, last_detection : Int]

ViewTyped ==
    /\ slots \in Hub
    /\ taken \in Nat
    /\ scanned \in Int
    /\ viewer \in [Pages -> Viewer]
    /\ shown \in [Pages -> Seq(Int)]

\* No page has seen, or has in its snapshot, a number that is yet to come; and a number
\* is of one picture: a snapshot with the current number has the current picture.
NumbersAreOfOnePicture ==
    \A v \in Pages :
        /\ viewer[v].last_frame <= slots.frame_seq
        /\ viewer[v].snapshot.frame_seq <= slots.frame_seq
        /\ viewer[v].snapshot.frame_seq = slots.frame_seq =>
              viewer[v].at \notin {"frame", "detection"}
              \/ viewer[v].snapshot.picture = slots.picture

ViewInv == ViewTyped /\ NumbersAreOfOnePicture /\ V!SeenMeansShown

LEMMA ViewInit == V!Init => ViewInv
<1> SUFFICES ASSUME V!Init
             PROVE  ViewInv
  OBVIOUS
<1>1. V!EmptyHub \in Hub
  BY DEF V!EmptyHub, Hub, V!None
<1>2. V!Gone \in Viewer
  BY <1>1 DEF V!Gone, Viewer
<1>3. ViewTyped
  BY <1>1, <1>2 DEF V!Init, ViewTyped, V!None
<1>4. NumbersAreOfOnePicture /\ V!SeenMeansShown
  BY DEF V!Init, NumbersAreOfOnePicture, V!SeenMeansShown, V!Connected, V!Gone, V!EmptyHub
<1>5. QED
  BY <1>3, <1>4 DEF ViewInv

\* A step of the camera that leaves the picture and its number alone disturbs nothing.
LEMMA SamePicture ==
    ASSUME ViewInv, slots' \in Hub, taken' \in Nat, scanned' \in Int, UNCHANGED <<viewer, shown>>,
           slots'.picture = slots.picture, slots'.frame_seq = slots.frame_seq
    PROVE  ViewInv'
<1>1. ViewTyped'
  BY DEF ViewInv, ViewTyped
<1>2. NumbersAreOfOnePicture' /\ V!SeenMeansShown'
  BY DEF ViewInv, NumbersAreOfOnePicture, V!SeenMeansShown, V!Connected
<1>3. QED
  BY <1>1, <1>2 DEF ViewInv

\* One that writes the slot takes a number nobody has seen.
LEMMA NewNumber ==
    ASSUME ViewInv, slots' \in Hub, taken' \in Nat, scanned' \in Int, UNCHANGED <<viewer, shown>>,
           slots'.frame_seq = slots.frame_seq + 1
    PROVE  ViewInv'
<1>1. ViewTyped'
  BY DEF ViewInv, ViewTyped
<1>2. \A v \in Pages :
         /\ viewer[v].last_frame \in Int /\ viewer[v].snapshot.frame_seq \in Nat
         /\ slots.frame_seq \in Nat
  BY DEF ViewInv, ViewTyped, Viewer, Hub
<1>3. NumbersAreOfOnePicture' /\ V!SeenMeansShown'
  BY <1>2 DEF ViewInv, NumbersAreOfOnePicture, V!SeenMeansShown, V!Connected
<1>4. QED
  BY <1>1, <1>3 DEF ViewInv

LEMMA PublishInv ==
    ASSUME ViewInv, V!PublishFrame \/ V!SkipFrame \/ V!PublishDetection \/ V!Clear
    PROVE  ViewInv'
<1> USE DEF ViewInv, ViewTyped
<1>1. CASE V!PublishFrame
  <2>1. taken' \in Nat /\ scanned' \in Int /\ UNCHANGED <<viewer, shown>>
    BY <1>1 DEF V!PublishFrame
  <2>2. slots' \in Hub /\ slots'.frame_seq = slots.frame_seq + 1
    <3>1. slots \in Hub /\ slots.frame_seq + 1 \in Nat
      BY DEF Hub
    <3>2. PICK p \in Nat, n \in Nat :
             n = slots.frame_seq + 1 /\ slots' = [slots EXCEPT !.picture = p, !.frame_seq = n]
      BY <1>1, <2>1, <3>1 DEF V!PublishFrame
    <3>3. slots' \in Hub /\ slots'.frame_seq = n
      <4>1. p \in Int
        BY p \in Nat
      <4>2. QED
        BY ONLY <3>1, <3>2, <4>1, n \in Nat DEF Hub
    <3>4. QED
      BY <3>2, <3>3
  <2>3. QED
    BY <2>1, <2>2, NewNumber
<1>2. CASE V!SkipFrame
  BY <1>2, SamePicture DEF V!SkipFrame
<1>3. CASE V!PublishDetection
  <2>1. taken' \in Nat /\ scanned' \in Int /\ UNCHANGED <<viewer, shown>>
    BY <1>3 DEF V!PublishDetection, V!None
  <2>2. /\ slots' \in Hub
        /\ slots'.picture = slots.picture /\ slots'.frame_seq = slots.frame_seq
    <3>1. slots \in Hub /\ scanned \in Int /\ slots.detection_seq + 1 \in Nat
      BY DEF Hub
    <3>2. CASE slots' = slots
      BY <3>2
    <3>3. CASE slots' = [slots EXCEPT !.boxes = scanned, !.detection_seq = @ + 1]
      <4>1. PICK b \in Int, n \in Nat : slots' = [slots EXCEPT !.boxes = b, !.detection_seq = n]
        BY <3>1, <3>3
      <4>2. QED
        BY ONLY <3>1, <4>1, b \in Int, n \in Nat DEF Hub
    <3>4. QED
      BY <1>3, <3>2, <3>3 DEF V!PublishDetection
  <2>3. QED
    BY <2>1, <2>2, SamePicture
<1>4. CASE V!Clear
  <2>1. taken' \in Nat /\ scanned' \in Int /\ UNCHANGED <<viewer, shown>>
    BY <1>4 DEF V!Clear, V!None
  <2>2. slots' \in Hub /\ slots'.frame_seq = slots.frame_seq + 1
    BY <1>4 DEF V!Clear, Hub, V!None
  <2>3. QED
    BY <2>1, <2>2, NewNumber
<1>5. QED
  BY <1>1, <1>2, <1>3, <1>4

\* A step of one page keeps what is said of it, and the others are as they were.
LEMMA PageInv ==
    ASSUME ViewInv, NEW v \in Pages, V!Connect(v) \/ V!Poll(v) \/ V!Disconnect(v)
    PROVE  ViewInv'
<1>1. /\ viewer[v] \in Viewer /\ shown[v] \in Seq(Int)
      /\ slots \in Hub /\ viewer[v].snapshot \in Hub
  BY DEF ViewInv, ViewTyped, Viewer
<1>0. /\ viewer[v].snapshot.frame_seq \in Nat /\ viewer[v].snapshot.detection_seq \in Nat
      /\ viewer[v].snapshot.picture \in Int
  BY <1>1 DEF Hub
<1>2. UNCHANGED <<slots, taken, scanned>>
  BY DEF V!Connect, V!Poll, V!TakeSnapshot, V!SendFrame, V!SendDetection, V!Disconnect
<1> DEFINE
      Good(w, s) ==
          /\ w \in Viewer
          /\ s \in Seq(Int)
          /\ w.last_frame <= slots.frame_seq
          /\ w.snapshot.frame_seq <= slots.frame_seq
          /\ w.snapshot.frame_seq = slots.frame_seq =>
                w.at \notin {"frame", "detection"} \/ w.snapshot.picture = slots.picture
          /\ w.at # "gone" /\ w.last_frame = slots.frame_seq =>
                s # <<>> /\ s[Len(s)] = slots.picture
<1>3. Good(viewer[v], shown[v])
  BY <1>1 DEF ViewInv, NumbersAreOfOnePicture, V!SeenMeansShown, V!Connected
<1>4. V!EmptyHub \in Hub
  BY DEF V!EmptyHub, Hub, V!None
<1>5. V!Gone \in Viewer /\ V!Gone.last_frame = -1 /\ V!Gone.at = "gone"
      /\ V!Gone.snapshot.frame_seq = 0
  BY <1>4 DEF V!Gone, Viewer, V!EmptyHub
<1>6. slots.frame_seq \in Nat
  BY <1>1 DEF Hub
<1>7. \E w, s : /\ viewer' = [viewer EXCEPT ![v] = w]
                /\ shown' = [shown EXCEPT ![v] = s]
                /\ Good(w, s)
  <2>1. CASE V!Connect(v)
    <3> DEFINE w == [V!Gone EXCEPT !.at = "poll"]
    <3>1. viewer' = [viewer EXCEPT ![v] = w] /\ shown' = [shown EXCEPT ![v] = <<>>]
      BY <2>1 DEF V!Connect
    <3>2. w \in Viewer /\ w.last_frame = -1 /\ w.at = "poll" /\ w.snapshot.frame_seq = 0
      BY <1>5 DEF Viewer
    <3>3. Good(w, <<>>)
      BY <1>6, <3>2
    <3>4. QED
      BY <3>1, <3>3
  <2>2. CASE V!TakeSnapshot(v)
    <3> DEFINE w == [viewer[v] EXCEPT !.at = "frame", !.snapshot = slots]
    <3>1. viewer' = [viewer EXCEPT ![v] = w] /\ shown' = [shown EXCEPT ![v] = shown[v]]
      BY <2>2 DEF V!TakeSnapshot, ViewInv, ViewTyped
    <3>2. w \in Viewer /\ w.snapshot = slots /\ w.last_frame = viewer[v].last_frame
          /\ w.at = "frame" /\ viewer[v].at = "poll"
      BY <1>1, <2>2 DEF Viewer, V!TakeSnapshot
    <3>3. Good(w, shown[v])
      BY <1>3, <1>6, <3>2
    <3>4. QED
      BY <3>1, <3>3
  <2>3. CASE V!SendFrame(v)
    <3> DEFINE snapshot == viewer[v].snapshot
               fresh == snapshot.picture # V!None /\ snapshot.frame_seq # viewer[v].last_frame
    <3>1. CASE fresh
      <4> DEFINE w == [viewer[v] EXCEPT !.at = "detection", !.last_frame = snapshot.frame_seq]
                 s == Append(shown[v], snapshot.picture)
      <4>1. viewer' = [viewer EXCEPT ![v] = w] /\ shown' = [shown EXCEPT ![v] = s]
        BY <2>3, <3>1 DEF V!SendFrame
      <4>2. w \in Viewer /\ w.snapshot = snapshot /\ w.last_frame = snapshot.frame_seq
            /\ w.at = "detection" /\ viewer[v].at = "frame"
        <5>1. viewer[v].at = "frame"
          BY <2>3 DEF V!SendFrame
        <5>2. QED
          <6>1. PICK n \in Int : n = snapshot.frame_seq
            BY <1>0
          <6>2. /\ [viewer[v] EXCEPT !.at = "detection", !.last_frame = n] \in Viewer
                /\ [viewer[v] EXCEPT !.at = "detection", !.last_frame = n].snapshot = snapshot
                /\ [viewer[v] EXCEPT !.at = "detection", !.last_frame = n].last_frame = n
                /\ [viewer[v] EXCEPT !.at = "detection", !.last_frame = n].at = "detection"
            BY ONLY <1>1, n \in Int DEF Viewer
          <6>3. QED
            BY <5>1, <6>1, <6>2
      <4>3. s \in Seq(Int) /\ s # <<>> /\ s[Len(s)] = snapshot.picture
        <5>1. /\ shown[v] \in Seq(Int) /\ snapshot.picture \in Int
              /\ Len(shown[v]) \in Nat
          BY <1>0, <1>1
        <5>2. s \in Seq(Int) /\ Len(s) = Len(shown[v]) + 1
          BY <5>1
        <5>3. s[Len(shown[v]) + 1] = snapshot.picture
          BY <5>1
        <5>4. QED
          BY <5>1, <5>2, <5>3
      <4>4. Good(w, s)
        BY <1>3, <4>2, <4>3
      <4>5. QED
        BY <4>1, <4>4
    <3>2. CASE ~fresh
      <4> DEFINE w == [viewer[v] EXCEPT !.at = "detection"]
      <4>1. viewer' = [viewer EXCEPT ![v] = w] /\ shown' = [shown EXCEPT ![v] = shown[v]]
        BY <2>3, <3>2 DEF V!SendFrame, ViewInv, ViewTyped
      <4>2. w \in Viewer /\ w.snapshot = snapshot /\ w.last_frame = viewer[v].last_frame
            /\ w.at = "detection" /\ viewer[v].at = "frame"
        BY <1>1, <2>3 DEF Viewer, V!SendFrame
      <4>3. Good(w, shown[v])
        BY <1>3, <4>2
      <4>4. QED
        BY <4>1, <4>3
    <3>3. QED
      BY <3>1, <3>2
  <2>4. CASE V!SendDetection(v)
    <3>1. PICK n \in {viewer[v].last_detection, viewer[v].snapshot.detection_seq} :
             viewer' = [viewer EXCEPT ![v] =
                           [viewer[v] EXCEPT !.at = "poll", !.last_detection = n]]
      BY <1>1, <2>4 DEF V!SendDetection, Viewer
    <3> DEFINE w == [viewer[v] EXCEPT !.at = "poll", !.last_detection = n]
    <3>2. shown' = [shown EXCEPT ![v] = shown[v]]
      BY <2>4 DEF V!SendDetection, ViewInv, ViewTyped
    <3>3. w \in Viewer /\ w.snapshot = viewer[v].snapshot /\ w.at = "poll"
          /\ w.last_frame = viewer[v].last_frame /\ viewer[v].at = "detection"
      <4>1. viewer[v].at = "detection"
        BY <2>4 DEF V!SendDetection
      <4>2. n \in Int
        BY <1>0, <1>1 DEF Viewer
      <4>3. QED
        BY <1>1, <4>1, <4>2 DEF Viewer
    <3>4. Good(w, shown[v])
      BY <1>3, <3>3
    <3>5. QED
      BY <3>1, <3>2, <3>4
  <2>5. CASE V!Disconnect(v)
    <3>1. viewer' = [viewer EXCEPT ![v] = V!Gone] /\ shown' = [shown EXCEPT ![v] = shown[v]]
      BY <2>5 DEF V!Disconnect, ViewInv, ViewTyped
    <3>2. Good(V!Gone, shown[v])
      BY <1>1, <1>5, <1>6
    <3>3. QED
      BY <3>1, <3>2
  <2>6. QED
    BY <2>1, <2>2, <2>3, <2>4, <2>5 DEF V!Poll
<1>8. \A u \in Pages : Good(viewer'[u], shown'[u])
  <2>1. \A u \in Pages \ {v} : Good(viewer[u], shown[u])
    BY DEF ViewInv, ViewTyped, NumbersAreOfOnePicture, V!SeenMeansShown, V!Connected
  <2> HIDE DEF Good
  <2>2. QED
    BY <1>7, <2>1 DEF ViewInv, ViewTyped
<1>9. ViewTyped'
  <2>1. \E w, s : viewer' = [viewer EXCEPT ![v] = w] /\ shown' = [shown EXCEPT ![v] = s]
    BY <1>7
  <2>2. DOMAIN viewer' = Pages /\ DOMAIN shown' = Pages
    BY <2>1 DEF ViewInv, ViewTyped
  <2>3. viewer' \in [Pages -> Viewer] /\ shown' \in [Pages -> Seq(Int)]
    BY <1>8, <2>1, <2>2 DEF ViewInv, ViewTyped
  <2>4. QED
    BY <1>2, <2>3 DEF ViewInv, ViewTyped
<1>10. NumbersAreOfOnePicture' /\ V!SeenMeansShown'
  BY <1>2, <1>8 DEF NumbersAreOfOnePicture, V!SeenMeansShown, V!Connected
<1>11. QED
  BY <1>9, <1>10 DEF ViewInv

LEMMA ViewStep == ViewInv /\ [V!Next]_(V!vars) => ViewInv'
<1> SUFFICES ASSUME ViewInv, [V!Next]_(V!vars)
             PROVE  ViewInv'
  OBVIOUS
<1>1. CASE UNCHANGED V!vars
  BY <1>1 DEF V!vars, ViewInv, ViewTyped, NumbersAreOfOnePicture, V!SeenMeansShown, V!Connected
<1>2. CASE V!Next
  BY <1>2, PublishInv, PageInv DEF V!Next
<1>3. QED
  BY <1>1, <1>2

\* A page that has seen the number the hub has now was shown the picture it has now,
\* through stops and starts of the camera and connections of the page.
THEOREM SeenShown == V!Spec => []V!SeenMeansShown
<1>1. ViewInv => V!SeenMeansShown
  BY DEF ViewInv
<1>2. QED
  BY <1>1, ViewInit, ViewStep, PTL DEF V!Spec

\* A number that is published or seen is one the hub has given out, and a picture that is
\* held, scanned or shown is one that was taken.
HubBounds ==
    /\ slots.picture \in {V!None} \cup 1 .. taken
    /\ slots.boxes \in V!None .. taken /\ scanned \in V!None .. taken
    /\ taken <= MaxPictures
    /\ stops \in 0 .. MaxStops
    /\ step \in {"picture", "result"}

PageBounds ==
    /\ boxes \in [Pages -> Int]
    /\ \A v \in Pages :
          /\ viewer[v].last_frame \in -1 .. slots.frame_seq
          /\ viewer[v].last_detection \in -1 .. slots.detection_seq
          /\ viewer[v].snapshot.frame_seq <= slots.frame_seq
          /\ viewer[v].snapshot.detection_seq <= slots.detection_seq
          /\ viewer[v].snapshot.picture \in {V!None} \cup 1 .. taken
          /\ viewer[v].snapshot.boxes \in V!None .. taken
          /\ \A i \in DOMAIN shown[v] : shown[v][i] \in 1 .. taken
          /\ boxes[v] \in V!None .. taken

ViewBounds == HubBounds /\ PageBounds

\* Numbers and pictures only grow, so what was in bounds stays so.
LEMMA PagesStay ==
    ASSUME ViewInv, ViewBounds, UNCHANGED <<viewer, shown, boxes>>, slots' \in Hub, taken' \in Nat,
           taken <= taken', slots.frame_seq <= slots'.frame_seq,
           slots.detection_seq <= slots'.detection_seq
    PROVE  PageBounds'
<1>1. /\ taken \in Nat /\ boxes \in [Pages -> Int]
      /\ slots.frame_seq \in Nat /\ slots.detection_seq \in Nat
      /\ slots'.frame_seq \in Nat /\ slots'.detection_seq \in Nat
  BY DEF ViewInv, ViewTyped, Hub, ViewBounds, PageBounds
<1>2. \A v \in Pages :
         /\ viewer[v].snapshot.frame_seq \in Nat /\ viewer[v].snapshot.detection_seq \in Nat
         /\ viewer[v].snapshot.picture \in Int /\ viewer[v].snapshot.boxes \in Int
         /\ viewer[v].last_frame \in Int /\ viewer[v].last_detection \in Int
  BY DEF ViewInv, ViewTyped, Viewer, Hub
<1>3. QED
  BY <1>1, <1>2 DEF ViewBounds, PageBounds

LEMMA CameraBounds ==
    ASSUME MaxPictures \in Nat, MaxStops \in Nat, ViewInv, ViewBounds, ViewInv',
           V!PublishFrame \/ V!SkipFrame \/ V!PublishDetection \/ V!Clear
    PROVE  ViewBounds'
<1>1. /\ slots \in Hub /\ taken \in Nat /\ scanned \in Int
      /\ slots' \in Hub /\ taken' \in Nat /\ scanned' \in Int
  BY DEF ViewInv, ViewTyped
<1>2. /\ slots.picture \in Int /\ slots.boxes \in Int
      /\ slots.frame_seq \in Nat /\ slots.detection_seq \in Nat
      /\ slots'.frame_seq \in Nat /\ slots'.detection_seq \in Nat
  BY <1>1 DEF Hub
<1>3. UNCHANGED <<viewer, shown, boxes>>
  BY DEF V!PublishFrame, V!SkipFrame, V!PublishDetection, V!Clear
<1>4. HubBounds' /\ taken <= taken' /\ slots.frame_seq <= slots'.frame_seq
      /\ slots.detection_seq <= slots'.detection_seq
  <2> USE DEF ViewBounds, HubBounds
  <2>1. CASE V!PublishFrame
    <3>1. PICK n \in Nat : n = slots.frame_seq + 1
      BY <1>2
    <3>2. /\ taken' = taken + 1 /\ taken < MaxPictures
          /\ slots' = [slots EXCEPT !.picture = taken', !.frame_seq = n]
      BY <2>1, <3>1 DEF V!PublishFrame
    <3>3. slots'.picture = taken' /\ slots'.frame_seq = n
          /\ slots'.boxes = slots.boxes /\ slots'.detection_seq = slots.detection_seq
      BY <1>1, <3>2 DEF Hub
    <3>4. scanned' = scanned /\ stops' = stops /\ step' = "result"
      BY <2>1 DEF V!PublishFrame
    <3>5. QED
      BY <1>1, <1>2, <3>1, <3>2, <3>3, <3>4
  <2>2. CASE V!SkipFrame
    BY <1>1, <1>2, <2>2 DEF V!SkipFrame
  <2>3. CASE V!PublishDetection
    <3>1. scanned' \in V!None .. taken /\ taken' = taken /\ stops' = stops /\ step' = "picture"
      BY <1>1, <2>3 DEF V!PublishDetection, V!None
    <3>2. /\ slots'.picture = slots.picture /\ slots'.frame_seq = slots.frame_seq
          /\ slots'.boxes \in V!None .. taken /\ slots'.detection_seq >= slots.detection_seq
      <4>1. PICK n \in Nat : n = slots.detection_seq + 1
        BY <1>2
      <4>2. slots' = slots \/ slots' = [slots EXCEPT !.boxes = scanned, !.detection_seq = n]
        BY <2>3, <4>1 DEF V!PublishDetection
      <4>3. CASE slots' = slots
        BY <1>2, <4>3
      <4>4. CASE slots' = [slots EXCEPT !.boxes = scanned, !.detection_seq = n]
        <5>1. /\ slots'.picture = slots.picture /\ slots'.frame_seq = slots.frame_seq
              /\ slots'.boxes = scanned /\ slots'.detection_seq = n
          BY <1>1, <4>4 DEF Hub
        <5>2. QED
          BY <1>2, <4>1, <5>1
      <4>5. QED
        BY <4>2, <4>3, <4>4
    <3>3. QED
      BY <1>1, <1>2, <3>1, <3>2
  <2>4. CASE V!Clear
    <3>1. /\ slots'.picture = V!None /\ slots'.boxes = V!None /\ scanned' = V!None
          /\ slots'.frame_seq = slots.frame_seq + 1
          /\ slots'.detection_seq = slots.detection_seq + 1
      BY <2>4 DEF V!Clear, V!None
    <3>2. stops' = stops + 1 /\ stops < MaxStops /\ step' = "picture" /\ taken' = taken /\ step' = step
      BY <2>4 DEF V!Clear
    <3>3. QED
      BY <1>1, <1>2, <3>1, <3>2
  <2>5. QED
    BY <2>1, <2>2, <2>3, <2>4
<1>5. QED
  BY <1>1, <1>3, <1>4, PagesStay DEF ViewBounds

LEMMA PageStepBounds ==
    ASSUME ViewInv, ViewBounds, NEW v \in Pages, V!Connect(v) \/ V!Poll(v) \/ V!Disconnect(v)
    PROVE  ViewBounds'
<1>1. /\ viewer \in [Pages -> Viewer] /\ shown \in [Pages -> Seq(Int)]
      /\ boxes \in [Pages -> Int]
      /\ viewer[v] \in Viewer /\ shown[v] \in Seq(Int) /\ boxes[v] \in Int
      /\ slots \in Hub /\ viewer[v].snapshot \in Hub /\ taken \in Nat
  BY DEF ViewInv, ViewTyped, Viewer, ViewBounds, PageBounds
<1>2. /\ viewer[v].snapshot.frame_seq \in Nat /\ viewer[v].snapshot.detection_seq \in Nat
      /\ viewer[v].snapshot.picture \in Int /\ viewer[v].snapshot.boxes \in Int
      /\ slots.frame_seq \in Nat /\ slots.detection_seq \in Nat
      /\ slots.picture \in Int /\ slots.boxes \in Int
  BY <1>1 DEF Hub
<1>3. UNCHANGED <<slots, taken, scanned, step, stops>>
  BY DEF V!Connect, V!Poll, V!TakeSnapshot, V!SendFrame, V!SendDetection, V!Disconnect
<1> DEFINE
      Good(w, s, b) ==
          /\ w.last_frame \in -1 .. slots.frame_seq
          /\ w.last_detection \in -1 .. slots.detection_seq
          /\ w.snapshot.frame_seq <= slots.frame_seq
          /\ w.snapshot.detection_seq <= slots.detection_seq
          /\ w.snapshot.picture \in {V!None} \cup 1 .. taken
          /\ w.snapshot.boxes \in V!None .. taken
          /\ \A i \in DOMAIN s : s[i] \in 1 .. taken
          /\ b \in V!None .. taken
<1>4. Good(viewer[v], shown[v], boxes[v]) /\ slots.picture \in {V!None} \cup 1 .. taken
      /\ slots.boxes \in V!None .. taken
  BY <1>1 DEF ViewBounds, HubBounds, PageBounds
<1>5. Good(V!Gone, <<>>, V!None) /\ V!Gone \in Viewer
  BY <1>1, <1>2 DEF V!Gone, V!EmptyHub, V!None, Viewer, Hub
<1>6. \E w, s, b : /\ viewer' = [viewer EXCEPT ![v] = w]
                   /\ shown' = [shown EXCEPT ![v] = s]
                   /\ boxes' = [boxes EXCEPT ![v] = b]
                   /\ Good(w, s, b)
  <2>0. viewer = [viewer EXCEPT ![v] = viewer[v]] /\ shown = [shown EXCEPT ![v] = shown[v]]
        /\ boxes = [boxes EXCEPT ![v] = boxes[v]]
    BY <1>1
  <2>1. CASE V!Connect(v)
    <3>1. Good([V!Gone EXCEPT !.at = "poll"], <<>>, V!None)
      BY <1>5 DEF Viewer
    <3>2. QED
      BY <2>1, <3>1 DEF V!Connect, V!None
  <2>2. CASE V!TakeSnapshot(v)
    <3> DEFINE w == [viewer[v] EXCEPT !.at = "frame", !.snapshot = slots]
    <3>1. /\ w.snapshot = slots /\ w.last_frame = viewer[v].last_frame
          /\ w.last_detection = viewer[v].last_detection
      BY <1>1 DEF Viewer
    <3>2. Good(w, shown[v], boxes[v])
      BY <1>2, <1>4, <3>1
    <3>3. viewer' = [viewer EXCEPT ![v] = w] /\ shown' = shown /\ boxes' = boxes
      BY <2>2 DEF V!TakeSnapshot
    <3>4. QED
      BY <2>0, <3>2, <3>3
  <2>3. CASE V!SendFrame(v)
    <3> DEFINE snapshot == viewer[v].snapshot
    <3>1. CASE snapshot.picture # V!None /\ snapshot.frame_seq # viewer[v].last_frame
      <4> DEFINE w == [viewer[v] EXCEPT !.at = "detection", !.last_frame = snapshot.frame_seq]
                 s == Append(shown[v], snapshot.picture)
      <4>1. /\ w.snapshot = snapshot /\ w.last_frame = snapshot.frame_seq
            /\ w.last_detection = viewer[v].last_detection
        BY <1>1 DEF Viewer
      <4>2. \A i \in DOMAIN s : s[i] \in 1 .. taken
        <5>1. PICK p \in Nat : p = snapshot.picture /\ p \in 1 .. taken
          BY <1>1, <1>2, <1>4, <3>1 DEF V!None
        <5>2. PICK h \in Seq(Int) : h = shown[v] /\ \A i \in DOMAIN h : h[i] \in 1 .. taken
          BY <1>1, <1>4
        <5>3. \A i \in DOMAIN Append(h, p) : Append(h, p)[i] \in 1 .. taken
          BY <5>1, <5>2
        <5>4. QED
          BY <5>1, <5>2, <5>3
      <4>3. Good(w, s, boxes[v])
        <5>1. snapshot.frame_seq \in -1 .. slots.frame_seq
          BY <1>2, <1>4
        <5> HIDE DEF w, s
        <5>2. QED
          BY <1>4, <4>1, <4>2, <5>1
      <4>4. viewer' = [viewer EXCEPT ![v] = w] /\ shown' = [shown EXCEPT ![v] = s]
            /\ boxes' = boxes
        BY <2>3, <3>1 DEF V!SendFrame
      <4> HIDE DEF w, s, Good
      <4>5. QED
        BY <2>0, <4>3, <4>4
    <3>2. CASE ~(snapshot.picture # V!None /\ snapshot.frame_seq # viewer[v].last_frame)
      <4> DEFINE w == [viewer[v] EXCEPT !.at = "detection"]
      <4>1. /\ w.snapshot = snapshot /\ w.last_frame = viewer[v].last_frame
            /\ w.last_detection = viewer[v].last_detection
        BY <1>1 DEF Viewer
      <4>2. Good(w, shown[v], boxes[v])
        BY <1>4, <4>1
      <4>3. viewer' = [viewer EXCEPT ![v] = w] /\ shown' = shown /\ boxes' = boxes
        BY <2>3, <3>2 DEF V!SendFrame
      <4>4. QED
        BY <2>0, <4>2, <4>3
    <3>3. QED
      BY <3>1, <3>2
  <2>4. CASE V!SendDetection(v)
    <3>1. PICK n \in {viewer[v].last_detection, viewer[v].snapshot.detection_seq},
               b \in {boxes[v], viewer[v].snapshot.boxes} :
             /\ viewer' = [viewer EXCEPT ![v] =
                              [viewer[v] EXCEPT !.at = "poll", !.last_detection = n]]
             /\ boxes' = [boxes EXCEPT ![v] = b]
      BY <1>1, <2>4 DEF V!SendDetection, Viewer
    <3> DEFINE w == [viewer[v] EXCEPT !.at = "poll", !.last_detection = n]
    <3>2. /\ w.snapshot = viewer[v].snapshot /\ w.last_frame = viewer[v].last_frame
          /\ w.last_detection = n
      BY <1>1 DEF Viewer
    <3>3. n \in -1 .. slots.detection_seq /\ b \in V!None .. taken
      <4>1. viewer[v].snapshot.detection_seq \in -1 .. slots.detection_seq
        BY <1>2, <1>4
      <4>2. QED
        BY <1>2, <1>4, <4>1
    <3>4. Good(w, shown[v], b)
      BY <1>4, <3>2, <3>3
    <3>5. shown' = shown
      BY <2>4 DEF V!SendDetection
    <3>6. QED
      BY <2>0, <3>1, <3>4, <3>5
  <2>5. CASE V!Disconnect(v)
    <3>1. Good(V!Gone, shown[v], boxes[v])
      BY <1>4, <1>5
    <3>2. QED
      BY <2>0, <2>5, <3>1 DEF V!Disconnect
  <2>6. QED
    BY <2>1, <2>2, <2>3, <2>4, <2>5 DEF V!Poll
<1>7. \A u \in Pages : Good(viewer'[u], shown'[u], boxes'[u])
  <2>1. \A u \in Pages \ {v} : Good(viewer[u], shown[u], boxes[u])
    BY DEF ViewBounds, PageBounds
  <2> HIDE DEF Good
  <2>2. QED
    BY <1>1, <1>6, <2>1
<1>8. boxes' \in [Pages -> Int]
  <2>1. DOMAIN boxes' = Pages /\ \E b : boxes' = [boxes EXCEPT ![v] = b]
    BY <1>1, <1>6
  <2>2. \A u \in Pages : boxes'[u] \in Int
    BY <1>7
  <2>3. QED
    BY <2>1, <2>2
<1>9. PageBounds'
  BY <1>3, <1>7, <1>8 DEF PageBounds
<1>10. HubBounds'
  BY <1>3 DEF ViewBounds, HubBounds
<1>11. QED
  BY <1>9, <1>10 DEF ViewBounds

\* A sequence is one of what its elements are.
LEMMA SequenceOf ==
    ASSUME NEW S, NEW T, NEW s \in Seq(S), \A i \in DOMAIN s : s[i] \in T
    PROVE  s \in Seq(T)
<1>1. Len(s) \in Nat /\ DOMAIN s = 1 .. Len(s)
  BY LenProperties
<1>2. s \in [1 .. Len(s) -> T]
  <2>1. s = [i \in 1 .. Len(s) |-> s[i]]
    BY <1>1, LenProperties, Zenon
  <2>2. QED
    BY <1>1, <2>1, Zenon
<1>3. [1 .. Len(s) -> T] \in {[1 .. n -> T] : n \in Nat}
  BY <1>1, Zenon
<1>4. QED
  BY <1>2, <1>3, SeqDef, Zenon

\* The types of the viewers.
LEMMA ViewBoundsAreTypes ==
    ASSUME MaxPictures \in Nat, ViewInv, ViewBounds
    PROVE  V!TypeOK
<1>1. slots \in Hub /\ taken \in Nat /\ scanned \in Int /\ viewer \in [Pages -> Viewer]
      /\ shown \in [Pages -> Seq(Int)]
  BY DEF ViewInv, ViewTyped
<1>2. slots \in [picture : {V!None} \cup 1 .. taken, boxes : V!None .. taken, frame_seq : Nat,
                detection_seq : Nat]
  BY <1>1 DEF ViewBounds, HubBounds, Hub
<1>3. scanned \in V!None .. taken /\ step \in {"picture", "result"} /\ stops \in 0 .. MaxStops
  BY <1>1 DEF ViewBounds, HubBounds
<1>4. taken \in 0 .. MaxPictures
  BY <1>1 DEF ViewBounds, HubBounds
<1>5. ASSUME NEW v \in Pages
      PROVE  /\ viewer[v].at \in {"gone", "poll", "frame", "detection"}
             /\ viewer[v].last_frame \in -1 .. slots.frame_seq
             /\ viewer[v].last_detection \in -1 .. slots.detection_seq
             /\ shown[v] \in Seq(1 .. taken)
             /\ boxes[v] \in V!None .. taken
  <2>1. viewer[v] \in Viewer /\ shown[v] \in Seq(Int)
    BY <1>1
  <2>2. shown[v] \in Seq(1 .. taken)
    BY <2>1, SequenceOf DEF ViewBounds, PageBounds
  <2>3. boxes[v] \in V!None .. taken
    BY <1>1 DEF ViewBounds, PageBounds
  <2>4. QED
    BY <2>1, <2>2, <2>3 DEF Viewer, ViewBounds, PageBounds
<1>6. QED
  BY <1>2, <1>3, <1>4, <1>5 DEF V!TypeOK

-------------------------------------------------------------------------------
(* The model files *)

Sizes == Chunks \in Nat /\ IsFiniteSet(Runs) /\ Checked \in BOOLEAN

\* F counts its runs with its own copy of Cardinality.
LEMMA FilesAreCounted == F!Cardinality(Runs) = Cardinality(Runs)
BY DEF F!Cardinality, Cardinality

Working(r) == run[r] # "off"

FileTyped ==
    /\ dest \in F!Inodes \cup {F!None}
    /\ part \in F!Inodes \cup {F!None}
    /\ content \in [F!Inodes -> SUBSET (1 .. Chunks)]
    /\ run \in [Runs -> {"off", "open", "stream", "replace", "unlink"}]
    /\ handle \in [Runs -> F!Inodes \cup {F!None}]
    /\ position \in [Runs -> 0 .. Chunks]

\* One run is under way at most, and only while there is no file; the others hold no
\* inode.
Alone ==
    /\ \A r, q \in Runs : Working(r) /\ Working(q) => r = q
    /\ \A r \in Runs : Working(r) => dest = F!None
    /\ \A r \in Runs : run[r] \in {"off", "open"} => handle[r] = F!None

\* It writes to the .part file, which has what it has written so far and all of it in
\* the end.
PartIsPrefix ==
    \A r \in Runs :
        /\ run[r] \in {"stream", "replace"} => part # F!None /\ handle[r] = part
        /\ run[r] = "stream" => content[part] = 1 .. position[r]
        /\ run[r] = "replace" => content[part] = 1 .. Chunks

Whole == dest # F!None => content[dest] = 1 .. Chunks

FileCore == FileTyped /\ Alone /\ PartIsPrefix /\ Whole

\* The inductive invariant: nothing is said once two runs were under way at once.
FileInv == overlapped \in BOOLEAN /\ (Checked /\ ~overlapped => FileCore)

LEMMA FileInit ==
    ASSUME Sizes, F!Init
    PROVE  FileInv
<1>1. FileTyped
  BY DEF F!Init, FileTyped, Sizes
<1>2. Alone /\ PartIsPrefix /\ Whole
  BY DEF F!Init, Alone, Working, PartIsPrefix, Whole
<1>3. QED
  BY <1>1, <1>2 DEF FileInv, FileCore, F!Init

\* The inodes in use are those of the handles and the one under the model's name, fewer than
\* there are: one is free for a new .part file, however many runs are under way.
LEMMA InodesSuffice ==
    ASSUME Sizes, FileTyped, part = F!None
    PROVE  (CHOOSE i \in F!Unused : TRUE) \in F!Inodes
<1> DEFINE Handles == {handle[r] : r \in Runs}
           Used == Handles \cup {dest}
<1>1. IsFiniteSet(Runs) /\ Cardinality(Runs) \in Nat
  BY FS_CardinalityType DEF Sizes
<1>2. IsFiniteSet(Handles) /\ Cardinality(Handles) <= Cardinality(Runs)
  <2>1. handle \in Surjection(Runs, Handles)
    BY DEF FileTyped, Surjection
  <2>2. QED
    BY <1>1, <2>1, FS_Surjection
<1>3. /\ IsFiniteSet(Used) /\ Cardinality(Used) <= Cardinality(Runs) + 1
      /\ Cardinality(Used) \in Nat
  <2>1. Cardinality(Handles) \in Nat
    BY <1>2, FS_CardinalityType
  <2> HIDE DEF Handles
  <2>2. IsFiniteSet(Used) /\ (Cardinality(Used) = Cardinality(Handles)
                              \/ Cardinality(Used) = Cardinality(Handles) + 1)
    BY <1>2, FS_AddElement
  <2>3. QED
    BY <1>1, <1>2, <2>1, <2>2, FS_CardinalityType
<1>4. IsFiniteSet(F!Inodes) /\ Cardinality(F!Inodes) = Cardinality(Runs) + 2
  BY <1>1, FilesAreCounted, FS_Interval DEF F!Inodes
<1>5. ~(F!Inodes \subseteq Used)
  <2> HIDE DEF Used
  <2>1. ASSUME F!Inodes \subseteq Used PROVE FALSE
    <3>1. Cardinality(F!Inodes) <= Cardinality(Used)
      BY <1>3, <2>1, FS_Subset
    <3>2. QED
      BY <1>1, <1>3, <1>4, <3>1
  <2>2. QED
    BY <2>1
<1>6. PICK i \in F!Inodes : i \notin Used
  BY <1>5
<1>7. i \in F!Unused
  <2>1. i # part
    BY <1>6 DEF F!None, F!Inodes
  <2>2. QED
    BY <1>6, <2>1 DEF F!Unused
<1>8. QED
  BY <1>7 DEF F!Unused

\* The steps of a run.  A second one that begins is an overlap.
LEMMA RunInv ==
    ASSUME Sizes, FileInv, NEW r \in Runs, Checked, ~overlapped',
           F!Check(r) \/ F!RunStep(r) \/ F!Fail(r) \/ F!Kill(r)
    PROVE  FileCore'
<1>1. FileCore /\ ~overlapped
  BY DEF FileInv, F!Check, F!RunStep, F!Open, F!Write, F!EndStream, F!Replace, F!Unlink,
         F!Fail, F!Kill
<1> USE <1>1 DEF FileCore, F!Goto
<1>2. CASE F!Check(r)
  <2> USE <1>2 DEF F!Check
  <2>1. \A q \in Runs : ~Working(q)
    BY DEF Working
  <2>2. FileTyped'
    BY DEF FileTyped
  <2>3. Alone' /\ PartIsPrefix' /\ Whole'
    BY <2>1 DEF FileTyped, Alone, Working, PartIsPrefix, Whole
  <2>4. QED
    BY <2>2, <2>3
<1>3. CASE F!Open(r)
  <2> USE <1>3 DEF F!Open
  <2>1. part' \in F!Inodes
    BY InodesSuffice, <1>3 DEF FileTyped
  <2>2. FileTyped'
    BY <2>1 DEF FileTyped, Sizes
  <2>3. Alone'
    BY DEF FileTyped, Alone, Working
  <2>4. /\ \A q \in Runs \ {r} : run'[q] = "off"
        /\ run'[r] = "stream" /\ handle'[r] = part' /\ position'[r] = 0
        /\ content'[part'] = {}
    BY <2>1 DEF FileTyped, Alone, Working
  <2>5. part' # F!None
    BY ONLY <2>1, Sizes, FS_CardinalityType DEF Sizes, F!Inodes, F!None
  <2>6. PartIsPrefix'
    <3>1. \A q \in Runs : run'[q] \in {"stream", "replace"} => q = r
      BY ONLY <2>4
    <3>2. content'[part'] = 1 .. position'[r]
      BY ONLY <2>4
    <3>3. QED
      BY ONLY <2>4, <2>5, <3>1, <3>2 DEF PartIsPrefix
  <2>7. Whole'
    BY DEF Alone, Working, Whole
  <2>8. QED
    BY <2>2, <2>3, <2>6, <2>7
<1>4. CASE F!Write(r)
  <2> USE <1>4 DEF F!Write
  <2>1. /\ part \in F!Inodes /\ part # F!None /\ handle[r] = part
        /\ content[part] = 1 .. position[r] /\ position[r] \in 0 .. Chunks
    BY DEF PartIsPrefix, FileTyped
  <2>2. /\ position'[r] = position[r] + 1
        /\ content'[part] = 1 .. position[r] + 1
    BY <2>1 DEF FileTyped
  <2>3. position[r] + 1 \in 0 .. Chunks /\ 1 .. position[r] + 1 \in SUBSET (1 .. Chunks)
    BY <2>1 DEF Sizes
  <2>4. position' \in [Runs -> 0 .. Chunks] /\ content' \in [F!Inodes -> SUBSET (1 .. Chunks)]
    BY <2>1, <2>2, <2>3 DEF FileTyped
  <2>5. FileTyped'
    BY <2>4 DEF FileTyped
  <2>6. Alone' /\ Whole'
    BY DEF Alone, Working, Whole
  <2>7. PartIsPrefix'
    BY <2>1, <2>2 DEF PartIsPrefix, Alone, Working
  <2>8. QED
    BY <2>5, <2>6, <2>7
<1>5. CASE F!EndStream(r)
  <2> USE <1>5 DEF F!EndStream
  <2>1. FileTyped' /\ Alone'
    BY DEF FileTyped, Alone, Working
  <2>2. PartIsPrefix' /\ Whole'
    BY DEF FileTyped, Alone, Working, PartIsPrefix, Whole
  <2>3. QED
    BY <2>1, <2>2
<1>6. CASE F!Fail(r)
  <2> USE <1>6 DEF F!Fail
  <2>1. FileTyped' /\ Alone'
    BY DEF FileTyped, Alone, Working
  <2>2. PartIsPrefix' /\ Whole'
    BY DEF FileTyped, Alone, Working, PartIsPrefix, Whole
  <2>3. QED
    BY <2>1, <2>2
<1>7. CASE F!Replace(r)
  <2> USE <1>7 DEF F!Replace
  <2>1. part # F!None /\ content[part] = 1 .. Chunks
    BY DEF PartIsPrefix
  <2>2. FileTyped'
    BY <2>1 DEF FileTyped
  <2>3. Alone' /\ PartIsPrefix' /\ Whole'
    BY <2>1 DEF FileTyped, Alone, Working, PartIsPrefix, Whole
  <2>4. QED
    BY <2>2, <2>3
<1>8. CASE F!Unlink(r)
  <2> USE <1>8 DEF F!Unlink
  <2>1. FileTyped' /\ Alone'
    BY DEF FileTyped, Alone, Working
  <2>2. PartIsPrefix' /\ Whole'
    BY DEF FileTyped, Alone, Working, PartIsPrefix, Whole
  <2>3. QED
    BY <2>1, <2>2
<1>9. CASE F!Kill(r)
  <2> USE <1>9 DEF F!Kill
  <2>1. FileTyped' /\ Alone'
    BY DEF FileTyped, Alone, Working
  <2>2. PartIsPrefix' /\ Whole'
    BY DEF FileTyped, Alone, Working, PartIsPrefix, Whole
  <2>3. QED
    BY <2>1, <2>2
<1>10. QED
  BY <1>2, <1>3, <1>4, <1>5, <1>6, <1>7, <1>8, <1>9 DEF F!RunStep

LEMMA FileStep ==
    ASSUME Sizes, FileInv, [F!Next]_(F!vars)
    PROVE  FileInv'
<1>1. CASE UNCHANGED F!vars
  BY <1>1 DEF F!vars, FileInv, FileCore, FileTyped, Alone, Working, PartIsPrefix, Whole
<1>2. CASE F!Next
  <2>1. PICK r \in Runs : F!Check(r) \/ F!RunStep(r) \/ F!Fail(r) \/ F!Kill(r)
    BY <1>2 DEF F!Next
  <2>2. overlapped' \in BOOLEAN
    BY <2>1 DEF FileInv, F!Check, F!RunStep, F!Open, F!Write, F!EndStream, F!Replace,
                F!Unlink, F!Fail, F!Kill
  <2>3. QED
    BY <2>1, <2>2, RunInv DEF FileInv
<1>3. QED
  BY <1>1, <1>2

\* "So a partial file never looks complete": the name of a model is of the whole file,
\* whatever failed, ended short or was killed, when its length is checked and no two runs
\* were under way at once.
THEOREM ResolvedWhole ==
    ASSUME Chunks \in Nat, IsFiniteSet(Runs), Checked \in BOOLEAN
    PROVE  F!Spec => []F!ResolvedIsWhole
<1>1. Sizes
  BY DEF Sizes
<1>2. F!Init => FileInv
  BY <1>1, FileInit
<1>3. FileInv /\ [F!Next]_(F!vars) => FileInv'
  BY <1>1, FileStep
<1>4. FileInv => F!ResolvedIsWhole
  BY DEF FileInv, FileCore, Whole, F!ResolvedIsWhole
<1>5. QED
  BY <1>2, <1>3, <1>4, PTL DEF F!Spec

\* A run that is off has closed its file.
FilesClosed == \A r \in Runs : run[r] = "off" => handle[r] = F!None

LEMMA FileTypeStep ==
    ASSUME Sizes, FileTyped, FilesClosed, [F!Next]_(F!vars)
    PROVE  FileTyped' /\ FilesClosed'
<1>1. CASE UNCHANGED F!vars
  BY <1>1 DEF F!vars, FileTyped, FilesClosed
<1>2. ASSUME NEW r \in Runs, F!Check(r) PROVE FileTyped' /\ FilesClosed'
  BY <1>2 DEF F!Check, F!Goto, FileTyped, FilesClosed
<1>3. ASSUME NEW r \in Runs, F!Open(r) PROVE FileTyped' /\ FilesClosed'
  <2>1. part' \in F!Inodes
    BY <1>3, InodesSuffice DEF F!Open, FileTyped
  <2>2. QED
    BY <1>3, <2>1 DEF F!Open, F!Goto, FileTyped, FilesClosed, Sizes
<1>4. ASSUME NEW r \in Runs, F!Write(r) PROVE FileTyped' /\ FilesClosed'
  <2>1. position' \in [Runs -> 0 .. Chunks] /\ position'[r] \in 1 .. Chunks
    BY <1>4 DEF F!Write, FileTyped, Sizes
  <2>2. QED
    BY <1>4, <2>1 DEF F!Write, FileTyped, FilesClosed
<1>5. ASSUME NEW r \in Runs, F!EndStream(r) PROVE FileTyped' /\ FilesClosed'
  BY <1>5 DEF F!EndStream, F!Goto, FileTyped, FilesClosed
<1>6. ASSUME NEW r \in Runs, F!Fail(r) PROVE FileTyped' /\ FilesClosed'
  BY <1>6 DEF F!Fail, F!Goto, FileTyped, FilesClosed
<1>7. ASSUME NEW r \in Runs, F!Replace(r) PROVE FileTyped' /\ FilesClosed'
  BY <1>7 DEF F!Replace, F!Goto, FileTyped, FilesClosed
<1>8. ASSUME NEW r \in Runs, F!Unlink(r) \/ F!Kill(r) PROVE FileTyped' /\ FilesClosed'
  BY <1>8 DEF F!Unlink, F!Kill, F!Goto, FileTyped, FilesClosed
<1>9. QED
  BY <1>1, <1>2, <1>3, <1>4, <1>5, <1>6, <1>7, <1>8 DEF F!Next, F!RunStep

-------------------------------------------------------------------------------
(* The container and the camera's loops: the theorems of LifecycleProofs and *)
(* CameraRunnerProofs about their own copies of the definitions are about    *)
(* those that Services composes.                                             *)

LP == INSTANCE LifecycleProofs WITH
        MaxFailures <- MaxLoadFailures, pc <- place, closed <- shut, spent <- used

CP == INSTANCE CameraRunnerProofs WITH pc <- loop

LEMMA ContainerIsLifecycle ==
    /\ L!Init => LP!Init
    /\ [L!Next]_(L!vars) => [LP!Next]_(LP!vars)
BY DEF L!Threads, LP!Threads, L!Free, LP!Free, L!vars, LP!vars, L!Goto, LP!Goto,
       L!Init, LP!Init, L!HasModels, LP!HasModels, L!WithoutModels, LP!WithoutModels,
       L!UseModels, LP!UseModels,
       L!BeginLoad, LP!BeginLoad, L!EndLoad, LP!EndLoad, L!LoadFails, LP!LoadFails,
       L!EndBuild, LP!EndBuild, L!CameraStep, LP!CameraStep, L!TakeMessage,
       LP!TakeMessage, L!HandleMessage, LP!HandleMessage, L!WakeConsumer,
       LP!WakeConsumer, L!Disconnect, LP!Disconnect, L!EndConsumer, LP!EndConsumer,
       L!Construct, LP!Construct, L!StartAtBoot, LP!StartAtBoot, L!StartConsumer,
       LP!StartConsumer, L!Ask, LP!Ask, L!Status, LP!Status, L!StartCamera,
       LP!StartCamera, L!StopCamera, LP!StopCamera, L!StoppedCamera,
       LP!StoppedCamera, L!Reload, LP!Reload, L!Signal, LP!Signal, L!BeginShutdown,
       LP!BeginShutdown, L!Stuck, LP!Stuck, L!Join, LP!Join, L!ConsumerJoined,
       LP!ConsumerJoined, L!CameraJoined, LP!CameraJoined, L!CloseReporter,
       LP!CloseReporter, L!GiveUpStop, LP!GiveUpStop, L!ModelStep, LP!ModelStep,
       L!ConsumerStep, LP!ConsumerStep, L!MainStep, LP!MainStep, L!Requests,
       LP!Requests, L!Next, LP!Next

LEMMA CameraIsCameraRunner ==
    /\ C!Init => CP!Init
    /\ [C!Next]_(C!vars) => [CP!Next]_(CP!vars)
BY DEF C!Gens, CP!Gens, C!NoThread, CP!NoThread, C!Nothing, CP!Nothing, C!controls,
       CP!controls, C!loops, CP!loops, C!vars, CP!vars, C!EmptyHub, CP!EmptyHub,
       C!Off, CP!Off, C!Alive, CP!Alive, C!Init, CP!Init, C!Running, CP!Running,
       C!Start, CP!Start, C!TakeThread, CP!TakeThread, C!SetStop, CP!SetStop,
       C!Joined, CP!Joined, C!GiveUpJoin, CP!GiveUpJoin, C!ReportStopped,
       CP!ReportStopped, C!At, CP!At, C!SetConnected, CP!SetConnected, C!Begin,
       CP!Begin, C!Build, CP!Build, C!BuildFails, CP!BuildFails, C!Top, CP!Top,
       C!OpenSucceeds, CP!OpenSucceeds, C!OpenFails, CP!OpenFails, C!ReadSucceeds,
       CP!ReadSucceeds, C!ReadFails, CP!ReadFails, C!Compare, CP!Compare,
       C!PublishFrame, CP!PublishFrame, C!HarvestAndSchedule, CP!HarvestAndSchedule,
       C!ScanEnds, CP!ScanEnds, C!Wake, CP!Wake, C!Close, CP!Close, C!ReportDead,
       CP!ReportDead, C!Die, CP!Die, C!Work, CP!Work, C!SwapGallery, CP!SwapGallery,
       C!Stop, CP!Stop, C!Next, CP!Next

\* What a component of its own is in the composition.
LEMMA ContainerSpec == L!Spec => LP!Spec
BY ContainerIsLifecycle, PTL DEF L!Spec, LP!Spec

LEMMA CameraSpec == C!Spec => CP!Spec
BY CameraIsCameraRunner, PTL DEF C!Spec, CP!Spec

-------------------------------------------------------------------------------
(* Types *)

LEMMA ReporterTyped == Spec => []TypeOK
<1>1. ReporterInv => TypeOK
  BY DEF ReporterInv
<1>2. QED
  BY <1>1, ReporterInvariance, PTL

LEMMA ViewersTyped == V!Spec => []V!TypeOK
<1>1. V!Init => ViewBounds
  BY ServicesAssumption DEF V!Init, V!EmptyHub, V!Gone, V!None, ViewBounds, HubBounds, PageBounds
<1>2. ViewInv /\ ViewInv' /\ ViewBounds /\ [V!Next]_(V!vars) => ViewBounds'
  <2>1. ASSUME UNCHANGED V!vars, ViewBounds PROVE ViewBounds'
    BY <2>1 DEF V!vars, ViewBounds, HubBounds, PageBounds
  <2>2. QED
    BY <2>1, CameraBounds, PageStepBounds, ServicesAssumption DEF V!Next
<1>3. ViewInv /\ ViewBounds => V!TypeOK
  BY ViewBoundsAreTypes, ServicesAssumption
<1>4. QED
  BY <1>1, <1>2, <1>3, ViewInit, ViewStep, PTL DEF V!Spec

LEMMA FilesTyped == F!Spec => []F!TypeOK
<1>1. Sizes
  BY ServicesAssumption DEF Sizes
<1>2. F!Init => FileTyped /\ FilesClosed
  BY <1>1 DEF F!Init, FileTyped, FilesClosed, Sizes
<1>3. FileTyped /\ FilesClosed /\ [F!Next]_(F!vars) => FileTyped' /\ FilesClosed'
  BY <1>1, FileTypeStep
<1>4. FileTyped /\ FilesClosed => F!TypeOK
  BY DEF FileTyped, FilesClosed, F!TypeOK
<1>5. QED
  BY <1>2, <1>3, <1>4, PTL DEF F!Spec

LEMMA ContainerTyped == L!Spec => []L!TypeOK
<1>1. LP!TypeOK => L!TypeOK
  BY DEF L!TypeOK, LP!TypeOK, L!Values, LP!Values, L!Located, LP!Located,
         L!Whereabouts, LP!Whereabouts, L!MainPlaces, LP!MainPlaces, L!Places,
         LP!Places, L!Threads, LP!Threads, L!Free, LP!Free
<1>2. QED
  BY <1>1, ContainerSpec, LP!TypeCorrect, PTL

LEMMA CameraTyped == C!Spec => []C!TypeOK
<1>1. CP!TypeOK => C!TypeOK
  BY DEF C!TypeOK, CP!TypeOK, C!Gens, CP!Gens, C!Alive, CP!Alive
<1>2. CP!Spec => []CP!TypeOK
  BY CP!TypeCorrect, ServicesAssumption
<1>3. QED
  BY <1>1, <1>2, CameraSpec, PTL

-------------------------------------------------------------------------------
(* The composition *)

\* A step of the services is a step of the component this behaviour is about, and the
\* others stand still.
LEMMA StepOfOne ==
    ASSUME [ServicesNext]_all
    PROVE  /\ [Next]_vars
           /\ [L!Next]_(L!vars)
           /\ [V!Next]_(V!vars)
           /\ [F!Next]_(F!vars)
           /\ [C!Next]_(C!vars)
BY DEF ServicesNext, OfReporter, OfContainer, OfViewers, OfFiles, OfCamera, all, life, views,
       files, camera, L!vars, V!vars, F!vars, C!vars, C!controls, C!loops

\* A behaviour of the services is one of each component.
THEOREM ServicesCompose ==
    ServicesSpec => Spec /\ L!Spec /\ V!Spec /\ F!Spec /\ C!Spec
<1>1. ServicesInit => Init /\ L!Init /\ V!Init /\ F!Init /\ C!Init
  BY DEF ServicesInit
<1>2. [ServicesNext]_all =>
         /\ [Next]_vars
         /\ [L!Next]_(L!vars)
         /\ [V!Next]_(V!vars)
         /\ [F!Next]_(F!vars)
         /\ [C!Next]_(C!vars)
  BY StepOfOne
<1>3. QED
  BY <1>1, <1>2, PTL DEF ServicesSpec, Spec, L!Spec, V!Spec, F!Spec, C!Spec

\* Whichever of the threads asks first, and however often a load fails, the models are
\* loaded once.
THEOREM ServicesLoadOnce == ServicesSpec => []ModelsLoadedOnce
<1>1. LP!ModelsLoadedOnce => ModelsLoadedOnce
  BY DEF ModelsLoadedOnce, L!ModelsLoadedOnce, LP!ModelsLoadedOnce
<1>2. QED
  BY <1>1, ServicesCompose, ContainerSpec, LP!ModelsOnce, PTL

\* A consumer told to stop takes no other message.
THEOREM ServicesStopConsumer == ServicesSpec => []OneAfterStop
<1>1. LP!OneAfterStop => OneAfterStop
  BY DEF OneAfterStop, L!OneAfterStop, LP!OneAfterStop
<1>2. QED
  BY <1>1, ServicesCompose, ContainerSpec, LP!StopTakesOneMore, PTL

\* A page that has seen the current number was shown the current picture.
THEOREM ServicesShow == ServicesSpec => []SeenMeansShown
BY ServicesCompose, SeenShown, PTL DEF SeenMeansShown

\* What is found under a model's name is the whole file, when its length is checked and no
\* two runs overlapped.
THEOREM ServicesResolve == ServicesSpec => []ResolvedIsWhole
<1>1. F!Spec => []F!ResolvedIsWhole
  BY ResolvedWhole, ServicesAssumption
<1>2. QED
  BY <1>1, ServicesCompose, PTL DEF ResolvedIsWhole

\* What is reported as published was delivered, and a report fails only when the broker was
\* down or refused it, or a connection broke.
THEOREM ServicesReport == ServicesSpec => [](ConfirmedMeansDelivered /\ FailsOnlyInTrouble)
BY ServicesCompose, ConfirmedDelivered, FailureMeansTrouble, PTL

\* The variables of every component keep their types, and what a loop or a run that has
\* ended held is given back.
THEOREM ServicesTyped == ServicesSpec => []TypesOK
<1>1. Spec => []TypeOK
  BY ReporterTyped
<1>2. L!Spec => []L!TypeOK
  BY ContainerTyped
<1>3. V!Spec => []V!TypeOK
  BY ViewersTyped
<1>4. F!Spec => []F!TypeOK
  BY FilesTyped
<1>5. C!Spec => []C!TypeOK
  BY CameraTyped
<1>6. QED
  BY <1>1, <1>2, <1>3, <1>4, <1>5, ServicesCompose, PTL DEF TypesOK
=============================================================================
