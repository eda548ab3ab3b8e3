\* A kill between the two cache files, after the listing has changed.
SPECIFICATION Spec
CONSTANTS
    ann = ann
    bob = bob
    eve = eve
    Listing <- Three
    Untagged = {}
    MayLeave = {ann}
    Overlapping = FALSE
    RollsBack = FALSE
    MaxEdits = 2
    MaxReloads = 1
    MaxOutages = 0
    MaxFaults = 1
    MaxModels = 1
INVARIANTS
    GalleryIsRight
CHECK_DEADLOCK FALSE
