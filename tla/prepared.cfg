SPECIFICATION Spec
CONSTANTS
    Clients = {c1, c2}
    q = q
    script = script
    odd = odd
    Sqls <- mc_Sqls
    Unparsed <- mc_Unparsed
    Queries <- mc_Queries
    Multi <- mc_Multi
    Inserts <- mc_Inserts
    Prefixed <- mc_Prefixed
    Changing <- mc_Changing
    NoSql = NoSql
    Capacity = 1
    MaxHandles = 2
    MaxBinds = 1
    MaxChanges = 1
    MaxSets = 1
SYMMETRY Symmetry
INVARIANTS  LastHandleLives NoEphemeralLeak BoundOnce RunsWhatItNames  
