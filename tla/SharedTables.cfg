\* Two employees share a day; rows are deleted, one while it is being updated, staff changes, a dead letter is put back.
SPECIFICATION Spec
CONSTANTS
    m1 = m1
    m2 = m2
    m3 = m3
    m4 = m4
    m5 = m5
    ann = ann
    bob = bob
    Messages = {m1, m2, m3, m4}
    Employees = {ann, bob}
    EmployeeOf <- BobIsLate
    CapturedAt <- LatePunches
    Malformed = {}
    Unmapped = {}
    InitialStaff = {ann}
    Gap = 4
    SecondTicks = 2
    DayTicks = 20
    ZoneShift = 3
    MaxAttempts = 2
    Prefetch = 1
    InOrder = TRUE
    LossyDeadLetter = FALSE
    MaxFaults = 0
    MaxStops = 1
    MaxDuplicates = 0
    MaxReplays = 1
    MaxDeletes = 1
    MaxStaffChanges = 1
    MaxTag = 8
INVARIANTS
    RowsComeFromPunches
    NothingLost
CHECK_DEADLOCK FALSE
