\* Two people, two overlapping spots and a desk, a gallery that misses or confuses them, one swap of it.
SPECIFICATION Spec
CONSTANTS
    ann = ann
    bob = bob
    eve = eve
    door = door
    step = step
    desk = desk
    far = far
    None = None
    Away = Away
    Box <- Boxes
    MinFacePixels = 5
    People = {ann, bob}
    Spots = {door, step, desk}
    Verdicts <- Fallible
    ConfirmScans = 2
    MaxAge = 1
    MaxTracks = 2
    Suppression = 1
    MaxScans = 3
    MaxMoves = 2
    MaxFailures = 0
    MaxSwaps = 1
INVARIANTS
    TypeOK
    AgreementBeforePunch
    OneTrackPerFace
CHECK_DEADLOCK FALSE
