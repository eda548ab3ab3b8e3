\* The container, the reporter, the camera, its viewers and the model files, one at a time:
\* a camera that starts with the service, the consumer in the same process, a broker that
\* may be down at boot; one page; two runs of the downloader; two starts of the camera,
\* a gallery swap between or during them, a crash.
SPECIFICATION ServicesSpec
CONSTANTS
    Events = {1, 2}
    Retries = 2
    MaxOutages = 1
    MaxLost = 1
    MaxRefusals = 2
    MayClose = TRUE
    Autostart = TRUE
    Inproc = TRUE
    BrokerAtBoot = FALSE
    MaxRequests = 2
    MaxMessages = 2
    MaxLoadFailures = 1
    Pages = {page}
    Encodes = FALSE
    MaxPictures = 2
    MaxDetections = 2
    MaxStops = 1
    Runs = {1, 2}
    Chunks = 2
    Checked = TRUE
    MayEndShort = TRUE
    MaxFetchFailures = 2
    MaxStarts = 2
    MaxGalleries = 1
    MaxCrashes = 1
    JoinTimesOut = FALSE
INVARIANTS
    TypesOK
    ConfirmedMeansDelivered
    FailsOnlyInTrouble
    ModelsLoadedOnce
    OneAfterStop
    SeenMeansShown
    ResolvedIsWhole
PROPERTIES
    ShutdownEnds
    LatestReachesPages
    StopReturns
    SwapReachesCamera
CHECK_DEADLOCK FALSE
