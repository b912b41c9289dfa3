SPECIFICATION Spec
INVARIANT GroupAgrees
INVARIANT ScreenIsActive
INVARIANT WheelIsKept
PROPERTY PrefixActs
PROPERTY GesturesReported
CHECK_DEADLOCK FALSE
