SPECIFICATION Spec
CONSTANTS
    Module = {"jarm", "manymap", "nmap", "nuclei", "six_dns_discover", "six_enum_discover", "testssl"}
    MaxBatches = 3
INVARIANTS Complete FailureShows AtMostOneMore
CHECK_DEADLOCK FALSE
