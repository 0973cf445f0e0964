SPECIFICATION FairSpec
CONSTANTS
    scan = scan  disco = disco  sixdns = sixdns  sixenum = sixenum
    netlist = netlist  sixes = sixes  rescan = rescan  cleanup = cleanup
    a = a  b = b  c = c  d = d  n = n  p1 = p1  p2 = p2
    j1 = j1  j2 = j2  j3 = j3
    Stage = {scan, disco, sixdns, sixenum, sixes, rescan, cleanup}
    Order <- OrderSix
    Kind <- PipelineKind
    NextStages <- PipelineNext
    Address = {a, c, d}
    Port = {p1, p2}
    Netlist = {}
    Network = {n}
    SixNet <- PipelineSix
    Within <- PipelineWithin
    Filternets <- PipelineNets
    Threshold = 1
    Outputs <- OutputsAll
    Entered <- EnteredService
    Enqueued <- EnqueuedSix
    Removed <- EnteredService
    Job = {j1, j2}
    Operator = FALSE
    Interrupted = FALSE
    Disconnected = FALSE
    None = None  Unreadable = Unreadable
INVARIANTS OnlyWanted
 
