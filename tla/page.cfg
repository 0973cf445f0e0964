SPECIFICATION FairSpec
CONSTANTS
    a = a
    b = b
    todo = todo
    Todo = Todo
    silent = silent
    said = said
    Items = {a}
    Tags = {todo, Todo}
    Lower <- Lowered
    Comments = {silent, said}
    Stored <- Both
    Actions = {"annotate", "freetag", "tag", "delete"}
    Manners = {TRUE, FALSE}
    MaxAsks = 2
    MaxOthers = 1
    Gone = Gone
    NoForm = NoForm
    NoElement = NoElement
INVARIANTS PageFree TableFresh
PROPERTIES ClosedWhenSaved SavesOnlyEdits Appears
CHECK_DEADLOCK FALSE
