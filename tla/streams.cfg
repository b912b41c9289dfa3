SPECIFICATION Spec
INVARIANT BridgeKeepsOrder
INVARIANT MessagesFound
INVARIANT UploadsEnd
INVARIANT DropsGoHome
CHECK_DEADLOCK FALSE
