\* One publisher, one message that is no good, one duplicate, one crash or dropped connection; a publish to the dead-letter exchange may be lost.
SPECIFICATION FairSpec
CONSTANTS
    m1 = m1
    m2 = m2
    m3 = m3
    m4 = m4
    m5 = m5
    ann = ann
    bob = bob
    Messages = {m1, m3, m4, m5}
    Employees = {ann}
    EmployeeOf <- OneEmployee
    CapturedAt <- DayOfPunches
    Malformed = {m5}
    Unmapped = {}
    InitialStaff = {ann}
    Gap = 4
    SecondTicks = 2
    DayTicks = 20
    ZoneShift = 3
    MaxAttempts = 2
    Prefetch = 1
    InOrder = TRUE
    LossyDeadLetter = TRUE
    MaxFaults = 1
    MaxStops = 0
    MaxDuplicates = 1
    MaxReplays = 0
    MaxDeletes = 0
    MaxStaffChanges = 0
    MaxTag = 12
INVARIANTS
    RedeliveryChangesNothing
    DepartureIsLatest
    BuriedOnlyIfHopeless
PROPERTIES
    ImplementsLedger
    EventuallySettled
CHECK_DEADLOCK FALSE
