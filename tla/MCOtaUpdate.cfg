SPECIFICATION FairSpec
CONSTANTS
    Chunks = 2
    MaxTimeouts = 2
INVARIANTS
    ConfirmedHasRun
    TrialHasFallback
PROPERTIES
    ImplementsOneTrial
    OnlyVerifiedIsSelected
    TrialEnds
    AcceptedIsTried
    WorkerIsReleased
