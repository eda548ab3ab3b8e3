\* Photos added, edited, removed or out of reach; a reload beside the build at boot, a kill, newer models.
SPECIFICATION Spec
CONSTANTS
    ann = ann
    bob = bob
    eve = eve
    Listing <- Two
    Untagged = {bob}
    MayLeave = {ann}
    Overlapping = TRUE
    RollsBack = FALSE
    MaxEdits = 1
    MaxReloads = 1
    MaxOutages = 1
    MaxFaults = 1
    MaxModels = 2
INVARIANTS
    TypeOK
    UntornGalleryIsRight
    GalleryIsOneModel
    GalleryIsFresh
    ReachableAreEnrolled
CHECK_DEADLOCK FALSE
