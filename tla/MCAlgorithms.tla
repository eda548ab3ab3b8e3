----------------------------- MODULE MCAlgorithms ------------------------------
(* Small instances of the algorithms *)
EXTENDS Algorithms

CONSTANTS ann, bob, eve

\* Galleries small and lopsided: every one of up to two photos, and some in which one
\* employee has more photos than ten per employee asked for.
Rows == [code : {ann, bob, eve}, score : 0 .. 2]
Small == UNION {[1 .. n -> Rows] : n \in 0 .. 2}
Portraits(code, score, n) == [i \in 1 .. n |-> [code |-> code, score |-> score]]
Lopsided ==
    {Portraits(ann, s, 22) \o <<[code |-> bob, score |-> t], [code |-> eve, score |-> u]>> :
        s, t, u \in 0 .. 2}
AllGalleries == Small \cup Lopsided

\* Directories of nobody, of two employees together, of one with somebody who is not
\* enrolled, of that one alone.
AllDirectories == {{}, {ann, bob}, {ann, eve}, {eve}}

\* The edges of the buckets of widths, and the false accept rates asked for.
TwoEdges == <<30, 60>>
TwoTargets == {<<0, 1>>, <<1, 3>>}

\* A frame the grids divide, one they do not, one that is much wider than high.
ThreeShapes == {<<18, 24>>, <<17, 23>>, <<20, 31>>}
=============================================================================
