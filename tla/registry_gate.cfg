\* Two requests at the gate of a duckvis server with room for two sessions, which may restart.
SPECIFICATION Spec
CONSTANTS
    Ids = {s1, s2}
    Lanes = {l1, l2}
    Subjects = {u1, u2}
    Projects = {p1}
    NoProject = NoProject
    NoRequest = NoRequest
    Duckvis = TRUE
    MaxSessions = 2
    MaxIncarnations = 2
    MaxRestarts = 1
INVARIANTS PermitsConserved RunsOnOwnSession
PROPERTIES EntryStability DirectorySpec
SYMMETRY Symmetric
CHECK_DEADLOCK FALSE
