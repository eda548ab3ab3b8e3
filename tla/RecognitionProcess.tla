-------------------------- MODULE RecognitionProcess --------------------------
(***************************************************************************)
(* One camera's pipeline: process_frames of services/face_recognition/     *)
(* process.py on the tracker, and step 5 of it, the publishing of          *)
(* core/face_processing/attendance_handlers.py behind the suppressor of    *)
(* services/duplicate_suppressor.py.                                       *)
(*                                                                         *)
(* People come and go in front of the camera between and during the scans. *)
(* What the models see is a choice: which faces are found and in which     *)
(* order, which of them look and raise a hand, and whom the gallery names. *)
(* A scan is in flight at most once (camera/runner.py:289), so nothing     *)
(* else touches its tracker; a swapped gallery replaces pipeline and       *)
(* tracker, and a scan in flight then ends on the old ones.                *)
(***************************************************************************)
EXTENDS FaceTracker, SequencesExt

CONSTANTS People, Spots, Away,
          Box,              \* the box of a face at each spot
          MinFacePixels,    \* narrower faces are not embedded
          Verdicts,         \* what the recogniser may say of each person
          Suppression,      \* the suppressor's window, in scans
          MaxScans,         \* bound: scans of a behaviour
          MaxMoves,         \* bound: arrivals, steps and departures
          MaxFailures,      \* bound: publishes that fail
          MaxSwaps          \* bound: gallery swaps

ASSUME ProcessAssumption ==
    /\ IsFiniteSet(People)
    /\ Away \notin Spots
    /\ Suppression \in Nat
    /\ \A s \in Spots : Box[s].left < Box[s].right

VARIABLES standing,  \* where each person is
          tracks,    \* the tracker: live id -> track
          nextId,    \* the tracker: the next id
          pc,        \* the step process_frames is at
          scan,      \* the scan in flight: faces, their match, their ids, raised hands
          queue,     \* confirmed faces, as events still to be marked
          recorded,  \* the suppressor: code -> scan of its last report
          replaced,  \* the gallery was swapped while this scan was in flight
          gen,       \* history: which tracker is in use
          cast,      \* history: every vote
          reports,   \* history: every call of the reporter, and whether it succeeded
          crashes,   \* history: scans that raised
          spent      \* budgets used: scans, moves, failures, swaps

tracker == <<tracks, nextId>>
history == <<gen, cast, reports, crashes>>
vars == <<standing, tracks, nextId, pc, scan, queue, recorded, replaced,
          gen, cast, reports, crashes, spent>>

NoScan == [faces |-> <<>>, match |-> <<>>, ids |-> <<>>, hands |-> <<>>]

Present == {p \in People : standing[p] # Away}

Face(p) == [person |-> p, box |-> Box[standing[p]]]

BoxesOf(faces) == [i \in DOMAIN faces |-> faces[i].box]

TooSmall(face) == Width(face.box) < MinFacePixels

Init ==
    /\ standing = [p \in People |-> Away]
    /\ tracks = <<>>
    /\ nextId = 1
    /\ pc = "idle"
    /\ scan = NoScan
    /\ queue = <<>>
    /\ recorded = <<>>
    /\ replaced = FALSE
    /\ gen = 1
    /\ cast = <<>>
    /\ reports = <<>>
    /\ crashes = 0
    /\ spent = [scans |-> 0, moves |-> 0, failures |-> 0, swaps |-> 0]

-------------------------------------------------------------------------------
(* The people and the gallery *)

Free(s) == \A p \in People : standing[p] # s

\* A person arrives at a free spot, or steps to another one.
Move(p, s) ==
    /\ spent.moves < MaxMoves
    /\ Free(s)
    /\ standing' = [standing EXCEPT ![p] = s]
    /\ spent' = [spent EXCEPT !.moves = @ + 1]
    /\ UNCHANGED <<tracker, pc, scan, queue, recorded, replaced, history>>

Leave(p) ==
    /\ spent.moves < MaxMoves
    /\ standing[p] # Away
    /\ standing' = [standing EXCEPT ![p] = Away]
    /\ spent' = [spent EXCEPT !.moves = @ + 1]
    /\ UNCHANGED <<tracker, pc, scan, queue, recorded, replaced, history>>

\* The loop sees a new gallery and builds a pipeline with a tracker of its own
\* (camera/runner.py); a scan in flight keeps the old one until it ends.
SwapGallery ==
    /\ spent.swaps < MaxSwaps
    /\ spent' = [spent EXCEPT !.swaps = @ + 1]
    /\ IF pc = "idle"
       THEN tracks' = <<>> /\ nextId' = 1 /\ gen' = gen + 1 /\ UNCHANGED replaced
       ELSE replaced' = TRUE /\ UNCHANGED <<tracks, nextId, gen>>
    /\ UNCHANGED <<standing, pc, scan, queue, recorded, cast, reports, crashes>>

-------------------------------------------------------------------------------
(* The scan *)

FinishOnOldTracks(left) ==
    /\ pc' = "idle"
    /\ scan' = NoScan
    /\ queue' = <<>>
    /\ replaced' = FALSE
    /\ tracks' = left
    /\ IF replaced THEN nextId' = 1 /\ gen' = gen + 1 ELSE UNCHANGED <<nextId, gen>>

\* The scan is over, with these tracks left; the next one uses the new tracker
\* if the gallery was swapped meanwhile.
Finish(left) ==
    /\ pc' = "idle"
    /\ scan' = NoScan
    /\ queue' = <<>>
    /\ replaced' = FALSE
    /\ IF replaced
       THEN tracks' = <<>> /\ nextId' = 1 /\ gen' = gen + 1
       ELSE tracks' = left /\ UNCHANGED <<nextId, gen>>

\* Step 1: some of the people present are detected, in an order of the
\* detector's, and matched with the live tracks.  A scan without a face ends
\* here, before the tracker hears of it.
Detect ==
    /\ pc = "idle"
    /\ spent.scans < MaxScans
    /\ spent' = [spent EXCEPT !.scans = @ + 1]
    /\ \E found \in SUBSET Present :
          \E order \in SetToSeqs(found) :
             LET faces == [i \in DOMAIN order |-> Face(order[i])]
             IN  IF found = {}
                 THEN UNCHANGED <<pc, scan>>
                 ELSE \E m \in Matches(BoxesOf(faces), tracks) :
                         /\ scan' = [NoScan EXCEPT !.faces = faces, !.match = m]
                         /\ pc' = "assign"
    /\ UNCHANGED <<standing, tracker, queue, recorded, replaced, history>>

\* update, one face of the list after the other.
Assigning == pc = "assign" /\ Len(scan.ids) < Len(scan.faces)
NextFace == Len(scan.ids) + 1
Matched == scan.match[NextFace]
Assigned(id) == [scan EXCEPT !.ids = Append(@, id)]

\* The face continues a track.
ContinueTrack ==
    /\ Assigning
    /\ Matched # None
    /\ Matched \in DOMAIN tracks
    /\ tracks' = Seen(tracks, Matched, scan.faces[NextFace].box)
    /\ scan' = Assigned(Matched)
    /\ UNCHANGED <<standing, nextId, pc, queue, recorded, replaced, history, spent>>

\* The face opens a track, for which another may have to make room.
OpenTrack ==
    /\ Assigning
    /\ Matched = None
    /\ tracks' = Open(tracks, nextId, scan.faces[NextFace].box)
    /\ nextId' = nextId + 1
    /\ scan' = Assigned(nextId)
    /\ UNCHANGED <<standing, pc, queue, recorded, replaced, history, spent>>

\* The matched track has made room for an earlier face of this scan: the lookup
\* raises, and the scan is lost with the tracks as they are by now.
LoseTrack ==
    /\ Assigning
    /\ Matched # None
    /\ Matched \notin DOMAIN tracks
    /\ Finish(tracks)
    /\ crashes' = crashes + 1
    /\ UNCHANGED <<standing, recorded, cast, reports, spent>>

\* The rest of update and the gates: unmatched tracks age; some of the faces look
\* and raise a hand.  Without one the scan ends here, and no track expires.
Gate ==
    /\ pc = "assign"
    /\ Len(scan.ids) = Len(scan.faces)
    /\ LET aged == Aged(tracks, Range(scan.ids))
       IN  \E raised \in SUBSET DOMAIN scan.faces :
              IF raised = {}
              THEN Finish(aged)
              ELSE /\ \E hands \in SetToSeqs(raised) :
                         /\ \A i, j \in DOMAIN hands : i < j => hands[i] < hands[j]
                         /\ scan' = [scan EXCEPT !.hands = hands]
                   /\ tracks' = aged
                   /\ pc' = "vote"
                   /\ UNCHANGED <<nextId, queue, replaced, gen>>
    /\ UNCHANGED <<standing, recorded, cast, reports, crashes, spent>>

\* Step 4 for the next raised hand: whom the gallery names, and the vote of the
\* face's track on it.  A face too small is not searched for.
Vote ==
    /\ pc = "vote"
    /\ LET i    == Head(scan.hands)
           face == scan.faces[i]
           id   == scan.ids[i]
       IN  \E code \in (IF TooSmall(face) THEN {None} ELSE Verdicts[face.person]) :
              LET event == [person |-> face.person, track |-> <<gen, id>>, code |-> code,
                           scan |-> spent.scans]
                  sure  == Confirms(tracks, id, code)
                  voted == Cast(tracks, id, code)
              IN  /\ cast' = Append(cast, event)
                  /\ tracks' = IF sure THEN Publish(voted, id) ELSE voted
                  /\ queue' = IF sure THEN Append(queue, event) ELSE queue
    /\ scan' = [scan EXCEPT !.hands = Tail(@)]
    /\ pc' = IF Len(scan.hands) = 1 THEN "mark" ELSE "vote"
    /\ UNCHANGED <<standing, nextId, recorded, replaced, gen, reports, crashes, spent>>

\* check_and_record: was this code reported within the window?
Allowed(code) ==
    code \notin DOMAIN recorded \/ spent.scans - recorded[code] >= Suppression

Recorded(code) ==
    [c \in (DOMAIN recorded) \cup {code} |-> IF c = code THEN spent.scans ELSE recorded[c]]

\* Step 5 for the next event: dropped by the suppressor, or recorded there and
\* reported.  A report that fails after its retries is logged and passed over.
Mark ==
    /\ pc = "mark"
    /\ queue # <<>>
    /\ queue' = Tail(queue)
    /\ IF Allowed(Head(queue).code)
       THEN /\ recorded' = Recorded(Head(queue).code)
            /\ \E ok \in BOOLEAN :
                  /\ ok \/ spent.failures < MaxFailures
                  /\ reports' = Append(reports,
                        [event |-> Head(queue), ok |-> ok, at |-> spent.scans])
                  /\ spent' = [spent EXCEPT !.failures = IF ok THEN @ ELSE @ + 1]
       ELSE UNCHANGED <<recorded, reports, spent>>
    /\ UNCHANGED <<standing, tracker, pc, scan, replaced, gen, cast, crashes>>

\* The tracks whose person has left are dropped, and the scan is over.
Retire ==
    /\ pc = "mark"
    /\ queue = <<>>
    /\ Finish(Without(tracks, Expired(tracks)))
    /\ UNCHANGED <<standing, recorded, cast, reports, crashes, spent>>

Next ==
    \/ \E p \in People : Leave(p) \/ \E s \in Spots : Move(p, s)
    \/ SwapGallery
    \/ Detect \/ ContinueTrack \/ OpenTrack \/ LoseTrack
    \/ Gate \/ Vote \/ Mark \/ Retire

Spec == Init /\ [][Next]_vars

-------------------------------------------------------------------------------
(* What has to hold *)

Codes   == (UNION {Verdicts[p] : p \in People}) \ {None}
Votes   == Codes \cup {None}
Spotted == {Box[s] : s \in Spots}
Faces   == [person : People, box : Spotted]
Tracks  == [box : Spotted, misses : Nat, votes : Seq(Votes), published : BOOLEAN]
Scans   == [faces : Seq(Faces), match : Seq(Nat \cup {None}), ids : Seq(Nat), hands : Seq(Nat)]
Ballots == [person : People, track : Nat \X Nat, code : Votes, scan : Nat]
Punches == [event : Ballots, ok : BOOLEAN, at : Nat]

\* Every variable keeps its type; the tracker holds only ids it has given out, and only
\* employees are queued for a report or remembered by the suppressor.
TypeOK ==
    /\ standing \in [People -> Spots \cup {Away}]
    /\ nextId \in Nat \ {0}
    /\ DOMAIN tracks \subseteq 1 .. nextId - 1
    /\ \A t \in DOMAIN tracks : tracks[t] \in Tracks
    /\ pc \in {"idle", "assign", "vote", "mark"}
    /\ scan \in Scans
    /\ queue \in Seq(Ballots) /\ \A i \in DOMAIN queue : queue[i].code \in Codes
    /\ DOMAIN recorded \subseteq Codes /\ recorded \in [DOMAIN recorded -> Nat]
    /\ replaced \in BOOLEAN
    /\ gen \in Nat
    /\ cast \in Seq(Ballots)
    /\ reports \in Seq(Punches)
    /\ crashes \in Nat
    /\ spent \in [scans : Nat, moves : Nat, failures : Nat, swaps : Nat]

\* A track produces one event however long its person stands there
\* (tracker.py vote: "Returns a code exactly once per track").
OnePunchPerTrack ==
    \A i, j \in DOMAIN reports :
        reports[i].event.track = reports[j].event.track => i = j

\* Nobody is reported before ConfirmScans scans of the track named them with no
\* scan between that named somebody else: a track that alternates between two
\* employees punches neither in (tracker.py vote).
AgreementBeforePunch ==
    \A r \in Range(reports) :
        LET mine == {c \in Range(cast) : c.track = r.event.track /\ c.scan <= r.event.scan}
            run  == {c \in mine : \A d \in mine :
                        d.scan >= c.scan => d.code \in {None, r.event.code}}
        IN  Cardinality({c \in run : c.code = r.event.code}) >= ConfirmScans

\* Two faces of a scan are never the same person to the tracker
\* (test_face_tracker.py test_one_box_can_only_claim_one_track).
OneTrackPerFace ==
    \A i, j \in DOMAIN scan.ids : scan.ids[i] = scan.ids[j] => i = j

\* update assigns "a track id to each box, in the order given": no scan is lost
\* because a track it matched has made room for another face.
EveryFaceGetsATrack == crashes = 0
=============================================================================
