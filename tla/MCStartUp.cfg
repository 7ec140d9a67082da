SPECIFICATION FairSpec
CONSTANTS
    StreamWorkers = {w1, w2}
    Blinks = 1
    PendingMax = 2
    Stations = {s1}
    MaxStations = 1
    EventQueueLength = 2
INVARIANTS
    NothingIsUsedTooEarly
    CountersAreRight
    LedIsWoken
    ReportsCatchUp
PROPERTIES
    LedSettlesOff
