SPECIFICATION FairSpec
CONSTANTS
    q1 = q1  q2 = q2  a1 = a1  a2 = a2  b1 = b1  A = A  B = B
    web = web  web2 = web2  planner = planner
    j1 = j1  j2 = j2
    Queue = {q1, q2}
    Target = {a1, a2}
    Net = {A, B}
    hashval <- HashvalAB
    Excluded = {a2}
    HotLevel = 1
    Job = {j1, j2}
    Session = {web, planner}
    Ops <- OpsSafe
    Mortal = {}
    Batch <- BatchOne
    MaxGroup = 2
    MaxCopies = 1
    NoQueue = NoQueue  NoJob = NoJob  NoSession = NoSession
PROPERTY HandlersEnd
CHECK_DEADLOCK FALSE
