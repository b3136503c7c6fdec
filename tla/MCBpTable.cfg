SPECIFICATION Spec
CONSTANTS
    NumBps = 3
    BpAddr = {1, 2}
    MaxOverlap = 2
INVARIANT TypeOK
INVARIANT GenuineHit
INVARIANT GenuineMiss
