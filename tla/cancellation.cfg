\* An execute action, a streamed query and a DDL passthrough share a connection.
SPECIFICATION FairSpec
CONSTANTS
    r1 = r1
    r2 = r2
    r3 = r3
    NoOne = NoOne
    Requests = {r1, r2, r3}
    Kind <- AllKinds
    ChannelCapacity = 1
    MaxBatches = 1
INVARIANTS OnlyOwnInterrupts CancelledIsChased 
PROPERTIES CancelledReleases
