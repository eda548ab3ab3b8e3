SPECIFICATION Spec
CONSTANTS
    m1 = m1
    m2 = m2
    m3 = m3
    m4 = m4
    m5 = m5
    ann = ann
    bob = bob
    Messages = {m1, m3, m4}
    Employees = {ann}
    EmployeeOf <- OneEmployee
    CapturedAt <- DayOfPunches
    Malformed = {}
    Unmapped = {}
    InitialStaff = {ann}
    Gap = 4
    SecondTicks = 2
    DayTicks = 20
    ZoneShift = 3
    MaxAttempts = 2
    Prefetch = 1
    InOrder = FALSE
    LossyDeadLetter = FALSE
    MaxFaults = 0
    MaxStops = 0
    MaxDuplicates = 1
    MaxReplays = 0
    MaxDeletes = 0
    MaxStaffChanges = 0
    MaxTag = 12
INVARIANTS
    RedeliveryChangesNothing
CHECK_DEADLOCK FALSE
