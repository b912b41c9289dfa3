SPECIFICATION Spec
INVARIANT GridWhole
INVARIANT ImagesAgree
INVARIANT RebuiltIsReplayed
PROPERTY RegionScrolls
PROPERTY ResizeKeepsText
PROPERTY UploadStored
CHECK_DEADLOCK FALSE
