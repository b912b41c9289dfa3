SPECIFICATION Spec
CONSTANTS
    Fd = {1, 2, 3, 4, 5, 6}
    Sub = {}
    Cand = {"good"}
    BadSchema = {}
    Faults = {"create"}
    MaxPty = 2
    MaxOpen = 2
    MaxRev = 0
    MaxTry = 1
INVARIANT NoShellLost
