SPECIFICATION FairSpec
CONSTANTS
    StreamWorkers = 2
    SinglePools = {"write"}
    Sockets = {s1, s2}
INVARIANTS
    CapacityIsConserved
    AsyncSocketHasOneOwner
PROPERTIES
    AcceptedIsServed
    GoneSocketIsClosed
