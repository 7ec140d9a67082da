SPECIFICATION FairSpec
CONSTANTS
    MaxSentenceLen = 26
    IntMax = 32767
    ByteValue <- MCByteValue
    None = None
    Rates <- MCRates
    DwellTicks <- MCDwellTicks
    ReadTicks = 2
    TickModulus = 256
    Antennas <- MCAntennas
    Burst <- MCBurst
    Noise <- MCNoise
    Traffic <- MCTraffic
    Sentences <- MCSentences
    MaxReads = 3
INVARIANTS
    TypeOK
    LocksOnSentence
    PairsAreExact
PROPERTIES
    AntennaIsFound
