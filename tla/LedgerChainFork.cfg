SPECIFICATION Spec
CONSTANTS
    Writers = {w1, w2}
    Bodies = {b1, b2}
    WideBodies = {}
    MaxLines = 3
    MaxCrashes = 0
INVARIANTS
    ChainVerifies
CHECK_DEADLOCK FALSE
