\* Three people and room for two tracks: every newcomer evicts somebody; one report fails.
SPECIFICATION Spec
CONSTANTS
    ann = ann
    bob = bob
    eve = eve
    door = door
    step = step
    desk = desk
    far = far
    None = None
    Away = Away
    Box <- Boxes
    MinFacePixels = 5
    People = {ann, bob, eve}
    Spots = {door, desk, far}
    Verdicts <- Infallible
    ConfirmScans = 1
    MaxAge = 1
    MaxTracks = 2
    Suppression = 1
    MaxScans = 2
    MaxMoves = 3
    MaxFailures = 1
    MaxSwaps = 0
INVARIANTS
    OnePunchPerTrack
CHECK_DEADLOCK FALSE
