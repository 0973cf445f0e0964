SPECIFICATION Spec
CONSTANTS
    scan = scan  disco = disco  sixdns = sixdns  sixenum = sixenum
    netlist = netlist  sixes = sixes  rescan = rescan  cleanup = cleanup
    a = a  b = b  c = c  d = d  n = n  p1 = p1  p2 = p2
    j1 = j1  j2 = j2  j3 = j3
    Stage = {scan, disco, netlist, cleanup}
    Order <- OrderClean
    Kind <- PipelineKind
    NextStages <- PipelineNext
    Address = {a}
    Port = {p1}
    Netlist = {a}
    Network = {}
    SixNet <- PipelineSix
    Within <- PipelineWithin
    Filternets <- PipelineNets
    Threshold = 1
    Outputs <- OutputsPlain
    Entered = {a}
    Enqueued <- EnqueuedHost
    Removed = {a}
    Job = {j1, j2}
    Operator = TRUE
    Interrupted = TRUE
    Disconnected = TRUE
    None = None  Unreadable = Unreadable
INVARIANTS NothingLost QueuedOnce
SYMMETRY SymmetricJobs
