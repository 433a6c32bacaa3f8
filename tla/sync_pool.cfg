\* Three threads and a pool of two connections.
SPECIFICATION Spec
CONSTANTS
    Callers = {c1, c2, c3}
    MaxSize = 2
    MinIdle = 1
    MaxConnections = 2
INVARIANTS SlotsAccounted NoSleepWhileIdle
PROPERTIES PoolSpec
