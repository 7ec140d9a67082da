SPECIFICATION FairSpec
CONSTANTS
    WorkerCount = 2
    MaxSequence = 3
INVARIANTS
    NoLostWakeup
    SequencesInOrder
PROPERTIES
    ImplementsLatestValue
    NewestIsDelivered
    GoneClientIsReleased
