SPECIFICATION Spec
CONSTANTS
    CandidateQueueLength = 1
    EpochMax = 2
    Hdops = {1}
    None = None
PROPERTIES
    PublishesSelectedSource
