\* Three futures and a pool of one connection.
SPECIFICATION FairSpec
CONSTANTS
    Callers = {c1, c2, c3}
    MaxSize = 1
    MinIdle = 1
    MaxConnections = 3
INVARIANTS SlotsAccounted PermitsConserved
PROPERTIES Served PoolSpec
