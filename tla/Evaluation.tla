------------------------------ MODULE Evaluation ------------------------------
(***************************************************************************)
(* services/evaluation.py: one pass over labelled frames, and the false    *)
(* accept and false reject rates read off the scores it collected.         *)
(*                                                                         *)
(* A frame's directory names the employees in shot, perhaps somebody who   *)
(* is not enrolled, perhaps nobody.  A face is scored against everybody    *)
(* enrolled; its cosines are integers.  Widths are pixels.  Latencies, the *)
(* correlation of consecutive embeddings and the wording of the report are *)
(* left out.                                                               *)
(***************************************************************************)
EXTENDS Integers, Sequences, FiniteSets, FiniteSetsExt, SequencesExt

CONSTANTS Employees,   \* the employees enrolled
          Directories, \* the sets of employees that directories are named after
          Edges,       \* WIDTH_BUCKETS, ascending
          Widths,      \* the widths of faces
          Scores,      \* the cosines
          Thresholds,  \* the rows of the sweep
          Targets,     \* the false accept rates asked for: <<numerator, denominator>>
          Sizes,       \* the input sizes detection is measured at
          MaxFrames,   \* bound: frames
          MaxReferences,\* bound: faces the reference pass finds in a frame
          MaxFaces     \* bound: faces that are scored

\* There is an edge, the edges ascend, and what is measured are numbers.
Measurable ==
    /\ IsFiniteSet(Employees)
    /\ Edges \in Seq(Nat) /\ Edges # <<>>
    /\ \A i \in 1 .. Len(Edges) - 1 : Edges[i] < Edges[i + 1]
    /\ Widths \subseteq Nat /\ IsFiniteSet(Widths) /\ Scores \subseteq Int
    /\ Thresholds \subseteq Int /\ IsFiniteSet(Thresholds)
    /\ Targets \subseteq Nat \X (Nat \ {0})
    /\ MaxFrames \in Nat /\ MaxReferences \in Nat /\ MaxFaces \in Nat

VARIABLES at,        \* the frame in hand: its number and its labels
          pc,        \* "frame", "detect", "faces" or "report"
          references,\* Accumulator.reference_by_bucket
          widths,    \* Accumulator.face_widths: how many there are
          found,     \* Accumulator.found
          genuine,   \* Accumulator.genuine
          impostor,  \* Accumulator.impostor
          rank1,     \* Accumulator.rank1_by_bucket, rank1_hits and rank1_total
          scored     \* history: each face that was scored, with its frame's labels

vars == <<at, pc, references, widths, found, genuine, impostor, rank1, scored>>

-------------------------------------------------------------------------------
(* Buckets of widths: <<low, high>>, high = 0 in the last *)

\* The last edge at or under the width begins its bucket.
BucketOf(width) ==
    LET below == {i \in 1 .. Len(Edges) : Edges[i] <= width}
    IN  IF below = {} THEN <<0, Edges[1]>>
        ELSE LET i == Max(below)
             IN  <<Edges[i], IF i = Len(Edges) THEN 0 ELSE Edges[i + 1]>>

\* bucket_labels: those that are printed.
BucketLabels ==
    {<<0, Edges[1]>>, <<Edges[Len(Edges)], 0>>}
    \cup {<<Edges[i], Edges[i + 1]>> : i \in 1 .. Len(Edges) - 1}

Buckets == {BucketOf(width) : width \in Widths}

Init ==
    /\ at = [frame |-> 0, labels |-> {}]
    /\ pc = "frame"
    /\ references = [b \in Buckets |-> 0]
    /\ widths = 0
    /\ found = [size \in Sizes |-> [b \in Buckets |-> 0]]
    /\ genuine = <<>>
    /\ impostor = <<>>
    /\ rank1 = [buckets |-> [b \in Buckets |-> [hits |-> 0, total |-> 0]], hits |-> 0, total |-> 0]
    /\ scored = <<>>

-------------------------------------------------------------------------------
(* evaluate: one frame *)

\* The frame is in this directory.  It may be unreadable, which is counted, and the
\* pass goes on to the next.
ReadFrame(labels) ==
    /\ pc = "frame"
    /\ at.frame < MaxFrames
    /\ at' = [frame |-> at.frame + 1, labels |-> labels]
    /\ \/ pc' = "detect"
       \/ pc' = "frame"
    /\ UNCHANGED <<references, widths, found, genuine, impostor, rank1, scored>>

InBucket(faces, b) == {i \in DOMAIN faces : BucketOf(faces[i]) = b}

\* The reference pass finds faces of these widths; each matches some boxes of the pass
\* at each size, and is found when it matches any.
Detect(faces, matches) ==
    /\ pc = "detect"
    /\ widths' = widths + Len(faces)
    /\ references' = [b \in Buckets |-> references[b] + Cardinality(InBucket(faces, b))]
    /\ found' = [size \in Sizes |-> [b \in Buckets |->
                    found[size][b]
                    + Cardinality({i \in InBucket(faces, b) : matches[size][i] > 0})]]
    /\ pc' = "faces"
    /\ UNCHANGED <<at, genuine, impostor, rank1, scored>>

-------------------------------------------------------------------------------
(* _score_faces: one face of the frame, as long as there is another *)

Present(labels) == labels \cap Employees
Absent(labels) == Employees \ labels

\* The best score of the employees in shot, when any of them is enrolled.
GenuineOf(scores, labels) ==
    IF Present(labels) = {} THEN <<>> ELSE <<Max({scores[e] : e \in Present(labels)})>>

\* Everybody else's.
ImpostorsOf(scores, labels) ==
    LET order == SetToSeq(Absent(labels)) IN [i \in DOMAIN order |-> scores[order[i]]]

NoteRank1(width, hit) ==
    LET b == BucketOf(width)
        n == IF hit THEN 1 ELSE 0
    IN  rank1' = [buckets |-> [rank1.buckets EXCEPT ![b] =
                                  [hits |-> @.hits + n, total |-> @.total + 1]],
                  hits |-> rank1.hits + n,
                  total |-> rank1.total + 1]

\* A face with landmarks and a finite embedding.  Whoever scores best comes first, in
\* either order when two do.  A frame of nobody adds no rank.
ScoreFace(width, scores) ==
    /\ pc = "faces"
    /\ Len(scored) < MaxFaces
    /\ genuine' = genuine \o GenuineOf(scores, at.labels)
    /\ impostor' = impostor \o ImpostorsOf(scores, at.labels)
    /\ IF at.labels = {}
       THEN UNCHANGED rank1
       ELSE \E first \in {e \in Employees : \A o \in Employees : scores[o] <= scores[e]} :
               NoteRank1(width, first \in at.labels)
    /\ scored' = Append(scored, [labels |-> at.labels, scores |-> scores])
    /\ UNCHANGED <<at, pc, references, widths, found>>

EndFrame ==
    /\ pc = "faces"
    /\ pc' = "frame"
    /\ UNCHANGED <<at, references, widths, found, genuine, impostor, rank1, scored>>

Finish ==
    /\ pc = "frame"
    /\ pc' = "report"
    /\ UNCHANGED <<at, references, widths, found, genuine, impostor, rank1, scored>>

Next ==
    \/ \E labels \in Directories : ReadFrame(labels)
    \/ \E n \in 0 .. MaxReferences : \E faces \in [1 .. n -> Widths] :
          \E matches \in [Sizes -> [1 .. n -> 0 .. 2]] : Detect(faces, matches)
    \/ \E width \in Widths, scores \in [Employees -> Scores] : ScoreFace(width, scores)
    \/ EndFrame \/ Finish

Spec == Init /\ [][Next]_vars

-------------------------------------------------------------------------------
(* far_frr_sweep *)

Accepted(t) == Cardinality({i \in DOMAIN impostor : impostor[i] >= t})

Rejected(t) == Cardinality({i \in DOMAIN genuine : genuine[i] < t})

ThresholdAtFarCruellest(target) ==
    LET allowed  == {t \in Thresholds : Accepted(t) * target[2] <= target[1] * Len(impostor)}
        cruelest == {t \in allowed : \A o \in allowed : Rejected(t) >= Rejected(o)}
    IN  {t \in cruelest : \A o \in cruelest : t <= o}

\* Sweep.threshold_at_far: the first row, of those whose FAR is at or under the target,
\* with the lowest FRR; none when there is no such row.
ThresholdAtFar(target) ==
    LET allowed == {t \in Thresholds : Accepted(t) * target[2] <= target[1] * Len(impostor)}
        kindest == {t \in allowed : \A o \in allowed : Rejected(t) <= Rejected(o)}
    IN  {t \in kindest : \A o \in kindest : t <= o}

-------------------------------------------------------------------------------
(* What has to hold *)

TypeOK ==
    /\ at.frame \in 0 .. MaxFrames
    /\ pc \in {"frame", "detect", "faces", "report"}
    /\ references \in [Buckets -> Nat]
    /\ found \in [Sizes -> [Buckets -> Nat]]
    /\ widths \in Nat
    /\ genuine \in Seq(Scores)
    /\ impostor \in Seq(Scores)
    /\ Len(genuine) <= Len(scored)

\* What a table adds up to: the buckets that it has lines for.
Printed(lines) ==
    MapThenSumSet(LAMBDA b : IF b \in BucketLabels THEN lines[b] ELSE 0, Buckets)

\* "So empty buckets still print" (evaluation.py:109): bucket_of and bucket_labels agree,
\* so that the lines of a table add up to the faces it is about, and no line reports
\* more faces found than there were.
TablesAddUp ==
    /\ Printed(references) = widths
    /\ Printed([b \in Buckets |-> rank1.buckets[b].total]) = rank1.total
    /\ Printed([b \in Buckets |-> rank1.buckets[b].hits]) = rank1.hits
    /\ \A size \in Sizes, b \in Buckets : found[size][b] <= references[b]

\* The employees a face was scored against who were not in shot.
Strangers == {pair \in (DOMAIN scored) \X Employees : pair[2] \notin scored[pair[1]].labels}
Mistaken(t) == Cardinality({pair \in Strangers : scored[pair[1]].scores[pair[2]] >= t})

\* "A face is right if it matches either" (evaluation.py:32): at every threshold, what
\* is rejected is each face whose people in shot are enrolled and all score under it,
\* and what is accepted is each employee, not in shot, that a face scores at or over it
\* against.
RatesArePeoples ==
    \A t \in Thresholds :
        /\ Rejected(t) =
              Cardinality({i \in DOMAIN scored :
                  /\ Present(scored[i].labels) # {}
                  /\ \A e \in Present(scored[i].labels) : scored[i].scores[e] < t})
        /\ Accepted(t) = Mistaken(t)

\* "The lowest threshold whose FAR is at or under target" (evaluation.py:150): at the
\* threshold that is reported no more employees who are not in shot would be accepted
\* than the target allows, and at every lower one more would.
OperatingPointIsLowest ==
    \A target \in Targets :
        LET allowed == {t \in Thresholds :
                           Mistaken(t) * target[2] <= target[1] * Cardinality(Strangers)}
        IN  ThresholdAtFar(target) = IF allowed = {} THEN {} ELSE {Min(allowed)}
=============================================================================
