SPECIFICATION Spec
CONSTANTS
    Conn = {"c1"}
    Cap = 1
    MaxChunk = 2
    MaxAttach = 2
    MaxRequest = 0
    MaxToggle = 0
    Oversize = FALSE
INVARIANT NoDoubleApply
