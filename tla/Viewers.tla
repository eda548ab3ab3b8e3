-------------------------------- MODULE Viewers --------------------------------
(***************************************************************************)
(* camera/hub.py and the sockets of /camera/ws that poll it: what a page   *)
(* is shown of what the camera publishes.                                  *)
(*                                                                         *)
(* The loop publishes on its own thread, a picture and, some iterations    *)
(* after it was scheduled, the result of a scan.  A viewer takes a         *)
(* snapshot, sends what is new in it, awaiting each send, and sleeps.      *)
(* Pictures are numbered from 1 here; a result is known by the last        *)
(* picture published before its scan, 0 when there was none.               *)
(* /camera/stream is a viewer that sends no results.                       *)
(***************************************************************************)
EXTENDS Integers, Sequences

CONSTANTS Pages,         \* the connections
          Encodes,       \* whether every frame can be encoded
          MaxPictures,   \* bound: pictures published
          MaxDetections, \* bound: the highest number a published result has
          MaxStops       \* bound: stops of the camera

VARIABLES hub,     \* FrameHub: what it holds, and how often each slot was written
          taken,   \* history: pictures published
          scan,    \* the picture the scan in flight is of, None when there is none
          pc,      \* the camera: "picture" or "result"
          viewer,  \* each connection: where it is, its snapshot, the numbers it has seen
          shown,   \* history: the pictures each connection was sent
          boxes,   \* history: the picture the results each page draws are of
          stops    \* stops so far

vars == <<hub, taken, scan, pc, viewer, shown, boxes, stops>>

None == -1

EmptyHub == [picture |-> None, boxes |-> None, frame_seq |-> 0, detection_seq |-> 0]
Gone == [at |-> "gone", snapshot |-> EmptyHub, last_frame |-> -1, last_detection |-> -1]

Init ==
    /\ hub = EmptyHub
    /\ taken = 0
    /\ scan = None
    /\ pc = "picture"
    /\ viewer = [v \in Pages |-> Gone]
    /\ shown = [v \in Pages |-> <<>>]
    /\ boxes = [v \in Pages |-> None]
    /\ stops = 0

-------------------------------------------------------------------------------
(* The camera's thread *)

\* A frame is read and published.
PublishFrame ==
    /\ pc = "picture"
    /\ taken < MaxPictures
    /\ taken' = taken + 1
    /\ hub' = [hub EXCEPT !.picture = taken', !.frame_seq = @ + 1]
    /\ pc' = "result"
    /\ UNCHANGED <<scan, viewer, shown, boxes, stops>>

\* The frame cannot be encoded, and the loop goes on with it.
SkipFrame ==
    /\ pc = "picture"
    /\ ~Encodes
    /\ pc' = "result"
    /\ UNCHANGED <<hub, taken, scan, viewer, shown, boxes, stops>>

\* A scan that is done is published, or has failed and is dropped; when there is none
\* in flight and it is time, one is scheduled on this frame.
PublishDetection ==
    /\ pc = "result"
    /\ \/ /\ scan # None
          /\ \/ /\ hub.detection_seq < MaxDetections
                /\ hub' = [hub EXCEPT !.boxes = scan, !.detection_seq = @ + 1]
             \/ UNCHANGED hub
          /\ scan' \in {None, taken}
       \/ /\ scan = None
          /\ scan' = taken
          /\ UNCHANGED hub
       \/ UNCHANGED <<hub, scan>>
    /\ pc' = "picture"
    /\ UNCHANGED <<taken, viewer, shown, boxes, stops>>

ClearAndReset ==
    /\ pc = "picture"
    /\ stops < MaxStops
    /\ stops' = stops + 1
    /\ scan' = None
    /\ hub' = EmptyHub
    /\ UNCHANGED <<taken, pc, viewer, shown, boxes>>

\* The camera is stopped, which cancels the scan and clears the hub, and starts again.
Clear ==
    /\ pc = "picture"
    /\ stops < MaxStops
    /\ stops' = stops + 1
    /\ scan' = None
    /\ hub' = [picture       |-> None,
               boxes         |-> None,
               frame_seq     |-> hub.frame_seq + 1,
               detection_seq |-> hub.detection_seq + 1]
    /\ UNCHANGED <<taken, pc, viewer, shown, boxes>>

-------------------------------------------------------------------------------
(* One connection *)

Connect(v) ==
    /\ viewer[v].at = "gone"
    /\ viewer' = [viewer EXCEPT ![v] = [Gone EXCEPT !.at = "poll"]]
    /\ shown' = [shown EXCEPT ![v] = <<>>]
    /\ boxes' = [boxes EXCEPT ![v] = None]
    /\ UNCHANGED <<hub, taken, scan, pc, stops>>

\* hub.snapshot(), with the hub's lock.
TakeSnapshot(v) ==
    /\ viewer[v].at = "poll"
    /\ viewer' = [viewer EXCEPT ![v].at = "frame", ![v].snapshot = hub]
    /\ UNCHANGED <<hub, taken, scan, pc, shown, boxes, stops>>

SendFrameSeenNow(v) ==
    LET snapshot == viewer[v].snapshot
    IN  /\ viewer[v].at = "frame"
        /\ IF snapshot.picture # None /\ snapshot.frame_seq # viewer[v].last_frame
           THEN /\ shown' = [shown EXCEPT ![v] = Append(@, snapshot.picture)]
                /\ viewer' = [viewer EXCEPT ![v].at = "detection",
                                            ![v].last_frame = hub.frame_seq]
           ELSE /\ viewer' = [viewer EXCEPT ![v].at = "detection"]
                /\ UNCHANGED shown
        /\ UNCHANGED <<hub, taken, scan, pc, boxes, stops>>

SendFrame(v) ==
    LET snapshot == viewer[v].snapshot
    IN  /\ viewer[v].at = "frame"
        /\ IF snapshot.picture # None /\ snapshot.frame_seq # viewer[v].last_frame
           THEN /\ shown' = [shown EXCEPT ![v] = Append(@, snapshot.picture)]
                /\ viewer' = [viewer EXCEPT ![v].at = "detection",
                                            ![v].last_frame = snapshot.frame_seq]
           ELSE /\ viewer' = [viewer EXCEPT ![v].at = "detection"]
                /\ UNCHANGED shown
        /\ UNCHANGED <<hub, taken, scan, pc, boxes, stops>>

\* Then the viewer sleeps, and polls again.
SendDetection(v) ==
    LET snapshot == viewer[v].snapshot
    IN  /\ viewer[v].at = "detection"
        /\ IF snapshot.boxes # None /\ snapshot.detection_seq # viewer[v].last_detection
           THEN /\ boxes' = [boxes EXCEPT ![v] = snapshot.boxes]
                /\ viewer' = [viewer EXCEPT ![v].at = "poll",
                                            ![v].last_detection = snapshot.detection_seq]
           ELSE /\ viewer' = [viewer EXCEPT ![v].at = "poll"]
                /\ UNCHANGED boxes
        /\ UNCHANGED <<hub, taken, scan, pc, shown, stops>>

\* A send finds the page closed.
Disconnect(v) ==
    /\ viewer[v].at \in {"frame", "detection"}
    /\ viewer' = [viewer EXCEPT ![v] = Gone]
    /\ UNCHANGED <<hub, taken, scan, pc, shown, boxes, stops>>

Poll(v) == TakeSnapshot(v) \/ SendFrame(v) \/ SendDetection(v)

Next ==
    \/ PublishFrame \/ SkipFrame \/ PublishDetection \/ Clear
    \/ \E v \in Pages : Connect(v) \/ Poll(v) \/ Disconnect(v)

Spec == Init /\ [][Next]_vars

\* Sleeps end and sends come back.
FairSpec == Spec /\ \A v \in Pages : WF_vars(Poll(v))

-------------------------------------------------------------------------------
(* What has to hold *)

TypeOK ==
    /\ hub \in [picture : {None} \cup 1 .. taken, boxes : None .. taken, frame_seq : Nat, detection_seq : Nat]
    /\ taken \in 0 .. MaxPictures
    /\ scan \in None .. taken
    /\ pc \in {"picture", "result"}
    /\ stops \in 0 .. MaxStops
    /\ \A v \in Pages :
          /\ viewer[v].at \in {"gone", "poll", "frame", "detection"}
          /\ viewer[v].last_frame \in -1 .. hub.frame_seq
          /\ viewer[v].last_detection \in -1 .. hub.detection_seq
          /\ shown[v] \in Seq(1 .. taken)
          /\ boxes[v] \in None .. taken

Connected(v) == viewer[v].at # "gone"

\* What a page that has seen the current number was shown is the current picture: a
\* camera that was stopped and started does not reuse a number.
SeenMeansShown ==
    \A v \in Pages :
        Connected(v) /\ viewer[v].last_frame = hub.frame_seq =>
            shown[v] # <<>> /\ shown[v][Len(shown[v])] = hub.picture

\* "Forwards whatever it last published" (websocket.py:6): a picture that stays in the
\* hub reaches every page that stays connected.
LatestReachesPages ==
    \A v \in Pages, p \in 1 .. MaxPictures :
        Connected(v) /\ hub.picture = p ~>
            \/ ~Connected(v)
            \/ hub.picture # p
            \/ shown[v] # <<>> /\ shown[v][Len(shown[v])] = p
=============================================================================
