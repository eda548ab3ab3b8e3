---------------------------- MODULE ConsumerLedger ----------------------------
(***************************************************************************)
(* The consumer, fed by one publisher, implements the ledger: lost links,  *)
(* killed processes, database failures before or after a commit, retries,  *)
(* redeliveries and duplicates are all steps that leave the ledger alone   *)
(* or write one new punch into it.                                         *)
(***************************************************************************)
EXTENDS AttendanceConsumer

\* The rows of a day in the order _DAY_ROWS returns them, as the reader sees them.
SheetOf(e, day) ==
    LET rows == [i \in DayIds(e, day) |-> table[i].at]
    IN  CASE Cardinality(DOMAIN rows) = 0 -> <<>>
          [] Cardinality(DOMAIN rows) = 1 -> <<rows[FirstRow(rows)]>>
          [] OTHER -> <<rows[FirstRow(rows)], rows[SecondRow(rows)]>>

Ledger ==
    INSTANCE DayLedger WITH
        Sheets <- Employees \X Days,
        Times  <- {Stored(LocalTime(m)) : m \in Messages},
        MinGap <- Gap,
        ledger <- [s \in Employees \X Days |-> SheetOf(s[1], s[2])]

\* Per employee and day the arrival is never changed and the departure only
\* moves forward, by the gap at least (policy.py:9-15), through every failure.
ImplementsLedger == Ledger!Spec
=============================================================================
