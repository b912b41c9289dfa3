SPECIFICATION Spec
CONSTANTS
    p1 = p1
    p2 = p2
    p3 = p3
SYMMETRY Symmetry
INVARIANT ReapersSafe
INVARIANT TreeKept
INVARIANT PanesSurvive
INVARIANT StatusAgrees
INVARIANT QueueKept
PROPERTY StepsAreRight
PROPERTY StartKeepsOne
