SPECIFICATION PartsSpec
CONSTANTS
    p0 = p0
    p1 = p1
    p2 = p2
    Pane <- OnePane
    Windows = 1
    Cap = 1
    WriterBatch = 2
    BatchLimit = 2
    Quota = 1
    ChanCap = 2
    NotifyCap = 1
    MaxOutput = 2
    MaxReply = 1
    MaxNotice = 0
    MaxName = 0
SYMMETRY Symmetry
INVARIANT NothingLost
INVARIANT ConnectionKept
INVARIANT ChunksInOrder
PROPERTY InOrder
