----------------------------- MODULE FaceTracker -----------------------------
(***************************************************************************)
(* The tracker of services/face_recognition/tracker.py: which track a face *)
(* of this scan continues, and when the verdicts of a track agree.  The    *)
(* tracks are a function from the live ids to records; the dict of the     *)
(* code keeps them in the order of their ids.                              *)
(*                                                                         *)
(* A box is its left and right edge: heads in front of a fixed camera are  *)
(* at one height.  Scores are fractions, compared by cross-multiplication. *)
(***************************************************************************)
EXTENDS Integers, Sequences, FiniteSets

CONSTANTS ConfirmScans,   \* agreeing scans that confirm a track
          MaxAge,         \* missed scans after which a track is dropped
          MaxTracks,      \* tracks held at once
          None            \* no track, no employee

ASSUME TrackerAssumption ==
    /\ ConfirmScans \in Nat \ {0}
    /\ MaxAge \in Nat \ {0}
    /\ MaxTracks \in Nat \ {0}

Track(box) == [box |-> box, misses |-> 0, votes |-> <<>>, published |-> FALSE]

Width(box) == box.right - box.left

LOCAL Larger(a, b) == IF a >= b THEN a ELSE b
LOCAL Smaller(a, b) == IF a <= b THEN a ELSE b

Overlap(a, b) ==
    Larger(0, Smaller(a.right, b.right) - Larger(a.left, b.left))

Union(a, b) == Width(a) + Width(b) - Overlap(a, b)

\* The distance of the two centres, doubled.
Apart(a, b) ==
    LET d == (a.left + a.right) - (b.left + b.right)
    IN  IF d >= 0 THEN d ELSE -d

\* A tenth is the unit of the two thresholds: an IoU of 0.3, widths 0.7 to 1.4.
Overlapping(box, last) == 10 * Overlap(box, last) >= 3 * Union(box, last)

SameSize(box, last) ==
    /\ 10 * Width(box) >= 7 * Width(last)
    /\ 10 * Width(box) <= 14 * Width(last)

\* How much a box looks like the last box of a track: 1 + IoU when they
\* overlap, below 1 when only the centre is near, 0 for somebody else.
Affinity(box, last) ==
    LET widths == Width(box) + Width(last)
    IN  CASE Overlapping(box, last) ->
               [num |-> Union(box, last) + Overlap(box, last), den |-> Union(box, last)]
          [] ~Overlapping(box, last) /\ SameSize(box, last)
               /\ 2 * Apart(box, last) <= 3 * widths ->
               [num |-> 3 * widths - 2 * Apart(box, last), den |-> 3 * widths]
          [] OTHER -> [num |-> 0, den |-> 1]

\* A pair is a box of this scan (its place in the list) and a live track.
Score(boxes, tracks, pair) == Affinity(boxes[pair[1]], tracks[pair[2]].box)

Candidates(boxes, tracks) ==
    {pair \in (DOMAIN boxes) \X (DOMAIN tracks) : Score(boxes, tracks, pair).num > 0}

\* The order in which the pairs are tried: by score, the sort being stable.
Before(boxes, tracks, p, q) ==
    LET a == Score(boxes, tracks, p).num * Score(boxes, tracks, q).den
        b == Score(boxes, tracks, q).num * Score(boxes, tracks, p).den
    IN  \/ a > b
        \/ a = b /\ p[1] < q[1]
        \/ a = b /\ p[1] = q[1] /\ p[2] < q[2]

GreedyMatchShared(m, boxes, tracks) ==
    LET pairs == {<<i, m[i]>> : i \in {j \in DOMAIN m : m[j] # None}}
    IN  /\ pairs \subseteq Candidates(boxes, tracks)
        /\ \A c \in Candidates(boxes, tracks) \ pairs :
              \E p \in pairs : p[1] = c[1] /\ Before(boxes, tracks, p, c)

\* The greedy one-to-one assignment: a candidate pair is passed over only for
\* a better pair that has its box or its track.
GreedyMatch(m, boxes, tracks) ==
    LET pairs == {<<i, m[i]>> : i \in {j \in DOMAIN m : m[j] # None}}
        Clash(p, q) == p[1] = q[1] \/ p[2] = q[2]
    IN  /\ pairs \subseteq Candidates(boxes, tracks)
        /\ \A p, q \in pairs : p[2] = q[2] => p = q
        /\ \A c \in Candidates(boxes, tracks) \ pairs :
              \E p \in pairs : Clash(p, c) /\ Before(boxes, tracks, p, c)

Matches(boxes, tracks) ==
    {m \in [DOMAIN boxes -> (DOMAIN tracks) \cup {None}] : GreedyMatch(m, boxes, tracks)}

\* The track that makes room: the most misses, the oldest of those.
Evicted(tracks) ==
    CHOOSE t \in DOMAIN tracks :
        \A u \in DOMAIN tracks :
            \/ tracks[t].misses > tracks[u].misses
            \/ tracks[t].misses = tracks[u].misses /\ t <= u

Without(tracks, gone) == [t \in (DOMAIN tracks) \ gone |-> tracks[t]]

MakeRoom(tracks) ==
    IF Cardinality(DOMAIN tracks) >= MaxTracks
    THEN Without(tracks, {Evicted(tracks)})
    ELSE tracks

\* _open: room is made, then the box gets the next id.
Open(tracks, id, box) ==
    LET kept == MakeRoom(tracks)
    IN  [t \in (DOMAIN kept) \cup {id} |-> IF t = id THEN Track(box) ELSE kept[t]]

Seen(tracks, id, box) ==
    [tracks EXCEPT ![id].box = box, ![id].misses = 0]

\* Every track that no face of the scan continued ages by one scan.
Aged(tracks, matched) ==
    [t \in DOMAIN tracks |->
        IF t \in matched THEN tracks[t]
        ELSE [tracks[t] EXCEPT !.misses = @ + 1]]

Cast(tracks, id, code) ==
    IF id \in DOMAIN tracks
    THEN [tracks EXCEPT ![id].votes = Append(@, code)]
    ELSE tracks

AgreeingAnywhere(votes, code) == {i \in DOMAIN votes : votes[i] = code}

\* The votes that agree with the newest one: those for its code since the last
\* vote that named somebody else.  A scan that matched nobody contradicts nothing.
Agreeing(votes, code) ==
    {i \in DOMAIN votes :
        /\ votes[i] = code
        /\ \A k \in i .. Len(votes) : votes[k] \in {code, None}}

ConfirmsAgain(tracks, id, code) ==
    /\ id \in DOMAIN tracks
    /\ code # None
    /\ Cardinality(Agreeing(Append(tracks[id].votes, code), code)) >= ConfirmScans

\* vote returns the code: the track has just reached agreement.
Confirms(tracks, id, code) ==
    /\ id \in DOMAIN tracks
    /\ ~tracks[id].published
    /\ code # None
    /\ Cardinality(Agreeing(Append(tracks[id].votes, code), code)) >= ConfirmScans

Publish(tracks, id) == [tracks EXCEPT ![id].published = TRUE]

\* expire: the tracks whose person has left, published or not.
Expired(tracks) == {t \in DOMAIN tracks : tracks[t].misses >= MaxAge}
=============================================================================
