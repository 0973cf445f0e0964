SPECIFICATION Spec
CONSTANTS
    planner = planner
    import = import
    Process = {planner, import}
    Ops <- Split
    Parsed <- Outputs
    Edits = {"add", "edit", "delete"}
    Typed <- Forms
    MaxRuns = 2
    MaxEdits = 1
    NoId = NoId
    NoService = NoService
INVARIANT Unique
PROPERTIES CleanupSpares ImportComplete
CHECK_DEADLOCK FALSE
