SPECIFICATION Spec
CONSTANTS
    Con = {c1, c2, c3}
    MaxWalks = 2
    None = None
INVARIANT WalksTunnelsOnly
CHECK_DEADLOCK FALSE
