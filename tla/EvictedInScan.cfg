\* Three people and room for two tracks.
SPECIFICATION Spec
CONSTANTS
    ann = ann
    bob = bob
    eve = eve
    door = door
    step = step
    desk = desk
    far = far
    None = None
    Away = Away
    Box <- Boxes
    Verdicts <- Infallible
    MinFacePixels = 5
    ConfirmScans = 1
    People = {ann, bob, eve}
    Spots = {door, desk, far}
    MaxAge = 1
    MaxTracks = 2
    Suppression = 1
    MaxScans = 2
    MaxMoves = 3
    MaxFailures = 0
    MaxSwaps = 0
INVARIANTS
    EveryFaceGetsATrack
CHECK_DEADLOCK FALSE
