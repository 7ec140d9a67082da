SPECIFICATION Spec
CONSTANTS
    CandidateQueueLength = 2
    EpochMax = 3
    Hdops = {1, 2}
    None = None
INVARIANTS
    MarkersMatchItems
    ParserHoldsSelectedSource
    EpochIdentifiesSource
    FlushLeavesNothing
    AcknowledgementIsAwaited
    BestIsLowest
PROPERTIES
    MockOnlyWhileOverridden
    ImplementsBestOfWindow
