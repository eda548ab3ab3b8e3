------------------------------ MODULE DayLedger ------------------------------
(***************************************************************************)
(* What the attendance table promises to whoever reads it: per employee    *)
(* and day an arrival, fixed once written, and a departure that only moves *)
(* forward, at least MinGap after what was there before.                   *)
(***************************************************************************)
EXTENDS Naturals, Integers, Sequences

CONSTANTS
    Sheets,  \* one per employee and day
    Times,   \* the times that can be written
    MinGap

VARIABLE ledger  \* [Sheets -> sequences of at most two times]

Init == ledger = [s \in Sheets |-> <<>>]

CheckIn(s, t) ==
    /\ ledger[s] = <<>>
    /\ ledger' = [ledger EXCEPT ![s] = <<t>>]

CheckOut(s, t) ==
    /\ Len(ledger[s]) = 1
    /\ t >= ledger[s][1] + MinGap
    /\ ledger' = [ledger EXCEPT ![s] = Append(@, t)]

MoveCheckOut(s, t) ==
    /\ Len(ledger[s]) = 2
    /\ t >= ledger[s][2] + MinGap
    /\ ledger' = [ledger EXCEPT ![s][2] = t]

Next ==
    \E s \in Sheets, t \in Times :
        CheckIn(s, t) \/ CheckOut(s, t) \/ MoveCheckOut(s, t)

Spec == Init /\ [][Next]_ledger
=============================================================================
