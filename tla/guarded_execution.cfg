SPECIFICATION Spec
CONSTANTS
    Processes = {p1, p2, p3, p4}
    Requests = {r1}
    Sends = {first, again}
    NoProcess = NoProcess
    Damaged = Damaged
SYMMETRY Symmetry
CHECK_DEADLOCK FALSE
INVARIANTS ReplacementProvesTermination   OneOwner
