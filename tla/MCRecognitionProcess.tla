------------------------- MODULE MCRecognitionProcess -------------------------
(***************************************************************************)
(* Small instances of the pipeline: a door and a desk far apart, and a     *)
(* spot half a step from the door whose box overlaps the door's.           *)
(***************************************************************************)
EXTENDS RecognitionProcess, TLC

CONSTANTS ann, bob, eve, door, step, desk, far

\* far is a face so narrow that its embedding would mean nothing.
Boxes == [s \in Spots |->
    (door :> [left |-> 0, right |-> 10] @@ step :> [left |-> 4, right |-> 14]
     @@ desk :> [left |-> 100, right |-> 110] @@ far :> [left |-> 50, right |-> 53])[s]]

\* The gallery misses ann at times, and names her where bob stands; eve is in it.
Fallible == [p \in People |->
    (ann :> {ann, None} @@ bob :> {bob, ann, None} @@ eve :> {eve})[p]]

\* Everybody is recognised in every scan.
Infallible == [p \in People |-> {p}]
=============================================================================
