SPECIFICATION FairSpec
CONSTANTS
    CandidateQueueLength = 2
    EpochMax = 2
    Hdops = {1}
    None = None
PROPERTIES
    OverrideEnds
    BestIsPublished
    CandidatesDrain
