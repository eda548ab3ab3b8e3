\* Three threads at one client's limiter; galleries small and lopsided; a width under the
\* first edge and one at the last; two scans confirm a badge; small hands in small frames;
\* two starts of the camera.
SPECIFICATION AlgorithmsSpec
CONSTANTS
    ann = ann
    bob = bob
    eve = eve
    Threads = {1, 2, 3}
    Clients = {1}
    MaxRequests = 2
    Window = 2
    MaxLag = 1
    MaxClock = 5
    Galleries <- AllGalleries
    K = 2
    Threshold = 1
    Margin = 1
    Employees = {ann, bob}
    Directories <- AllDirectories
    Edges <- TwoEdges
    Widths = {29, 60}
    Scores = {0, 1, 2}
    Thresholds = {1, 2}
    Targets <- TwoTargets
    Sizes = {640}
    MaxFrames = 2
    MaxReferences = 1
    MaxFaces = 2
    DetectEvery = 2
    ConfirmFrames = 2
    MaxMessages = 14
    Shapes <- ThreeShapes
    Grids = {1, 2, 3}
    Overlap = 20
    Hands = {2, 3, 4}
    Reach = 6
    MaxStarts = 2
    MaxGalleries = 0
    MaxCrashes = 1
    JoinTimesOut = TRUE
INVARIANTS
    WindowIsBounded
    AnswerIsTopK
    NamedAfterClearWinner
    ReportIsTrue
    BadgeIsLastConfirmed
    HandIsSeen
    AtMostOneLoop
    StatusIsTrue
    StoppedHubIsEmpty
CHECK_DEADLOCK FALSE
