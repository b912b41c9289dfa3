SPECIFICATION PaneSpec
CONSTANTS
    c1 = c1
    c2 = c2
    Conn <- TwoConns
    Cap = 1
    MaxChunk = 2
    MaxAttach = 1
    MaxRequest = 0
    MaxToggle = 1
    Oversize = FALSE
SYMMETRY Symmetry
INVARIANT TypeOK
INVARIANT NoDoubleApply
INVARIANT OutputArrives
INVARIANT LastAttachedOwnsPane
PROPERTY NeverConnectHidden
