----------------------------- MODULE PunchPolicy -----------------------------
(***************************************************************************)
(* What one punch does to the rows an employee already has on its day:     *)
(* app/services/attendance_consumer/policy.py, and the ordering of the     *)
(* query that hands it the rows (mysql.py, _DAY_ROWS).                     *)
(*                                                                         *)
(* Time is counted in ticks.  A second is SecondTicks ticks, so that the   *)
(* sub-second part of a capture time, which the table drops, is visible.   *)
(* The day's rows are a function from row id to stored time.               *)
(***************************************************************************)
EXTENDS Integers, FiniteSets

CONSTANTS
    Gap,          \* min_punch_gap_seconds, in ticks; 0 switches the check off
    SecondTicks,  \* ticks in one second, the resolution of MySQL DATETIME
    DayTicks,     \* ticks in one local day
    ZoneShift     \* offset of ATTENDANCE_TIMEZONE from UTC (no DST), in ticks

\* Whole seconds make up the gap and the day (settings.py: both are integers).
ASSUME PolicyAssumption ==
    /\ SecondTicks \in Nat \ {0}
    /\ DayTicks \in Nat \ {0} /\ DayTicks % SecondTicks = 0
    /\ Gap \in Nat /\ Gap % SecondTicks = 0
    /\ ZoneShift \in Int

\* The zone shift of to_local; the fallback to UTC is ZoneShift = 0.
ToLocal(t) == t + ZoneShift

\* format_date: the local calendar day.
LocalDate(local) == local \div DayTicks

\* format_datetime: the literal that is stored has no sub-second part.
Stored(local) == (local \div SecondTicks) * SecondTicks

Distance(a, b) == IF a <= b THEN b - a ELSE a - b

\* ORDER BY log_date_time, id.
Precedes(rows, i, j) ==
    \/ rows[i] < rows[j]
    \/ rows[i] = rows[j] /\ i < j

Before(rows, i) == {j \in DOMAIN rows : Precedes(rows, j, i)}

\* rows[0] and rows[1] of the ordered list.
FirstRow(rows) == CHOOSE i \in DOMAIN rows : Before(rows, i) = {}

SecondRow(rows) == CHOOSE i \in DOMAIN rows : Cardinality(Before(rows, i)) = 1

-----------------------------------------------------------------------------
NoRow == 0

Decisions == [act : {"skip", "insert", "update"}, id : Nat]

Skip == [act |-> "skip", id |-> NoRow]

Insert == [act |-> "insert", id |-> NoRow]

Update(i) == [act |-> "update", id |-> i]

\* Without the gap check a redelivery is decided like a new punch.
DecideWithoutGap(rows, punch) ==
    IF Cardinality(DOMAIN rows) < 2 THEN Insert ELSE Update(SecondRow(rows))

\* An off-by-one in the row count opens a third row.
DecideThreeRows(rows, punch) ==
    IF \E i \in DOMAIN rows : Distance(punch, rows[i]) < Gap THEN Skip
    ELSE IF Cardinality(DOMAIN rows) <= 2 THEN Insert
    ELSE Update(SecondRow(rows))

\* The earlier implementation: later punches overwrite the day's first row.
DecideFirstRow(rows, punch) ==
    IF \E i \in DOMAIN rows : Distance(punch, rows[i]) < Gap THEN Skip
    ELSE IF Cardinality(DOMAIN rows) < 2 THEN Insert
    ELSE Update(FirstRow(rows))

\* decide: the gap check first, then two inserts, then the check-out moves.
Decide(rows, punch) ==
    IF Gap > 0 /\ \E i \in DOMAIN rows : Distance(punch, rows[i]) < Gap
    THEN Skip
    ELSE IF Cardinality(DOMAIN rows) < 2
    THEN Insert
    ELSE Update(SecondRow(rows))
=============================================================================
