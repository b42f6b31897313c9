SPECIFICATION Spec
CONSTANTS
    Writers = {w1, w2}
    Bodies = {b1, b2, wide}
    WideBodies = {wide}
    MaxLines = 3
    MaxCrashes = 2
INVARIANTS
    TypeOK
    SequentialVerifies
    AckedOrDetected
    DamageIsLast
PROPERTIES
    FailStop
\* After damage or a wide line every further append raises.
CHECK_DEADLOCK FALSE
