------------------------ MODULE MCAttendanceConsumer ------------------------
(***************************************************************************)
(* Small instances of the consumer.  A second is 2 ticks, the gap 2        *)
(* seconds, a local day 20 ticks, and the zone 3 ticks ahead of UTC.       *)
(***************************************************************************)
EXTENDS ConsumerLedger, TLC

CONSTANTS m1, m2, m3, m4, m5, ann, bob

OneEmployee == [m \in Messages |-> ann]

\* ann's day: a first punch whose half-second is dropped (local 5, stored 4), one
\* within the gap of it (7), one exactly the gap away (8), a later one (15),
\* and one that UTC would file under the same day but local time does not (21).
\* The runs take the first, third and fourth, and the fifth as a message that is no
\* good; the theorems are about punches of any time.
DayOfPunches ==
    [m \in Messages |->
        (m1 :> 2 @@ m2 :> 4 @@ m3 :> 5 @@ m4 :> 12 @@ m5 :> 18)[m]]

\* Two employees share a day: its last punch is bob's.
BobIsLate == [m \in Messages |-> IF m = m4 THEN bob ELSE ann]

\* Punches of one local day, far enough apart to be four punches.
LatePunches ==
    [m \in Messages |-> (m1 :> 1 @@ m2 :> 5 @@ m3 :> 9 @@ m4 :> 13)[m]]
=============================================================================
