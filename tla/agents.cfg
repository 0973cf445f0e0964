SPECIFICATION FairSpec
CONSTANTS
    a1 = a1
    a2 = a2
    j1 = j1
    j2 = j2
    Agent = {a1, a2}
    Job = {j1}
    Oneshot = {a2}
    Mortal = {a1}
    Nobody = Nobody
    NoJob = NoJob
INVARIANTS NoneForgotten WorkKept
PROPERTIES AssignmentSpec TakenIsClosed ShutdownEnds
CHECK_DEADLOCK FALSE
