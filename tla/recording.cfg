SPECIFICATION RecordingSpec
CONSTANTS
    Capacity = 4
    MaxDimMarkers = 2
    Sizes = {s1, s2, s3}
    None = None
    MaxBytes = 7
    MaxChunk = 5
    MaxResizes = 3
    MaxUpgrades = 1
INVARIANT ReadIsSuffix
INVARIANT MarkersOrdered
INVARIANT PublishedIsReal
INVARIANT SegmentsAreTrue
INVARIANT FilterIsFaithful
INVARIANT SpansAreClients
CHECK_DEADLOCK FALSE
