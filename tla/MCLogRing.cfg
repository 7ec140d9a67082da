SPECIFICATION FairSpec
CONSTANTS
    Writers = {w1, w2}
    RingSize = 4
    LineMax = 2
    ChunkSize = 3
    Modulus = 8
    MaxLogged = 21
INVARIANTS
    ChunkIsIntact
    NoLostWakeup
PROPERTIES
    OnlyOverwrittenIsSkipped
    LoggedIsSent
