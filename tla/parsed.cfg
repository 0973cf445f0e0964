SPECIFICATION Spec
CONSTANTS
    a1 = a1
    a2 = a2
    p1 = p1
    p2 = p2
    n1 = n1
    open = open
    closed = closed
    Address = {a1, a2}
    Port = {p1, p2}
    Name = {n1}
    Value = {open, closed}
    Open = {open}
    Threshold = 1
    MaxRows = 5
    None = None
INVARIANTS Identified Resolves
PROPERTY ReportSpec
CHECK_DEADLOCK FALSE
