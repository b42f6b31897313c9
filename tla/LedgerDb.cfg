SPECIFICATION FairSpec
CONSTANTS
    Writers = {w1, w2, w3}
    Bodies = {b1, b2}
    NoWriter = NoWriter
    MaxEvents = 3
INVARIANTS
    TypeOK
    ChainVerifies
PROPERTIES
    ImplementsAppendLog
    EveryCallEnds
\* The bound stops the writers once the table is full.
CHECK_DEADLOCK FALSE
