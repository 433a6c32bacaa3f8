SPECIFICATION LdSpec
CONSTANTS
    Lanes = {l1, l2, l3}
    Catalogs = {sales, runs}
    Roots = {d1, d2, d3}
    NoLane = NoLane
    NoRoot = NoRoot
    MaxFaults = 2
    MaxMoves = 1
    MaxCalls = 5
SYMMETRY Symmetry
INVARIANTS LockedBeforeUserSql AttachedIsReadable
