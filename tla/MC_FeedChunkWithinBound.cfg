CONSTANTS
    MsgsPerWsMsg = 2
    Ids = {1, 2, 3}
    MaxEntries = 3
    MaxUpdated = 2
    MaxSlots = 5

SPECIFICATION Spec

INVARIANT FeedChunkWithinBound
