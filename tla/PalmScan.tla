------------------------------- MODULE PalmScan --------------------------------
(***************************************************************************)
(* palm_detection_handlers.py: looking for a hand anywhere in a frame, in  *)
(* the whole of it and then in overlapping crops, up to the first that     *)
(* clears the threshold.                                                   *)
(*                                                                         *)
(* A hand clears in a region that holds all of it and that it fills a      *)
(* share of, since every region is squeezed into the same input.           *)
(* Lengths are pixels, cut off to whole ones as the code does.             *)
(***************************************************************************)
EXTENDS Integers, Sequences, FiniteSets

CONSTANTS Shapes,  \* the frames: <<height, width>>
          Grids,   \* palm_scan_grid
          Overlap, \* palm_scan_overlap, in percent of a tile
          Hands,   \* the sizes of hands
          Reach    \* a hand is seen in a region of at most Reach times its size

\* The sizes of a hand and of what it is seen in; the pads.
Scannable ==
    /\ Shapes \subseteq (Nat \ {0}) \X (Nat \ {0})
    /\ Grids \subseteq Nat \ {0}
    /\ Hands \subseteq Nat \ {0}
    /\ Overlap \in Nat /\ Reach \in Nat

VARIABLES shape, \* the frame
          grid,
          hand,  \* where the hand is: its size and its top left corner
          next,  \* the regions scored so far
          best,  \* whether one of them cleared the threshold
          done

vars == <<shape, grid, hand, next, best, done>>

-------------------------------------------------------------------------------
(* scan_regions.  Along one side of the frame, in hundredths of 1/grid pixel *)

Least(a, b) == IF a < b THEN a ELSE b
Most(a, b) == IF a < b THEN b ELSE a

TileWithoutOverlap(length, n) ==
    << (length * n) \div grid, Least(length, (length * (n + 1)) \div grid) >>

\* From a pad before the n-th tile to a pad after it.
Tile(length, n) ==
    << Most(0, length * (100 * n - Overlap)) \div (100 * grid),
       Least(length, (length * (100 * (n + 1) + Overlap)) \div (100 * grid)) >>

\* The k-th region: <<top, bottom>> and <<left, right>>.
Region(k) ==
    IF k = 0 THEN << <<0, shape[1]>>, <<0, shape[2]>> >>
    ELSE << Tile(shape[1], (k - 1) \div grid), Tile(shape[2], (k - 1) % grid) >>

Regions == IF grid = 1 THEN {0} ELSE 0 .. grid * grid

Inside(side, from) == side[1] <= from /\ from + hand.size <= side[2]
Length(side) == side[2] - side[1]

\* _region_score, as far as the threshold goes.
Clears(k) ==
    LET region == Region(k)
    IN  /\ Inside(region[1], hand.top)
        /\ Inside(region[2], hand.left)
        /\ Most(Length(region[1]), Length(region[2])) <= Reach * hand.size

-------------------------------------------------------------------------------

\* A hand somewhere in a frame.
Places(frame) ==
    UNION {[size : {s}, top : 0 .. frame[1] - s, left : 0 .. frame[2] - s] : s \in Hands}

Init ==
    /\ shape \in Shapes
    /\ grid \in Grids
    /\ hand \in Places(shape)
    /\ next = 0
    /\ best = FALSE
    /\ done = FALSE

\* The next region is scored; an empty one is left out.
Score ==
    /\ ~done
    /\ best' = Clears(next)
    /\ next' = next + 1
    /\ done' = (best' \/ next' \notin Regions)
    /\ UNCHANGED <<shape, grid, hand>>

Next == Score

Spec == Init /\ [][Next]_vars

-------------------------------------------------------------------------------
(* What has to hold *)

\* A tile, with the pads on both sides of it.
Padded(side) == (side * (100 + 2 * Overlap)) \div (100 * grid) + 1

Fits(side) ==
    /\ hand.size * 100 * grid <= 2 * Overlap * side
    /\ Padded(side) <= Reach * hand.size

\* "So a hand straddling a tile boundary still lands whole inside at least one region"
\* (palm_detection_handlers.py:34): a hand no wider than the two pads together, and
\* large enough to be seen in a tile, is seen, wherever it is.
HandIsSeen == done /\ Fits(shape[1]) /\ Fits(shape[2]) => best
=============================================================================
