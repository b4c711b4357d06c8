CONSTANTS
    Acme = Acme
    Services = {api}
    Runs = {r1}
    Handlers = {h1}
    Workers = {w1}
    Operators = {o1}
    Targets <- MCTargets
    NoRun = NoRun
    NoTarget = NoTarget
    NoControl = NoControl
    Live = FALSE
    QueueSize = 1
    Quota = 0
    MaxRetries = 0
    Commands = {"cancel"}
    KillSwitches = FALSE
    Shutdowns = FALSE
    LockRequests = {TRUE, FALSE}
    Pauses = {}
    MaxCommands = 1
    MaxRunFaults = 0
    MaxCreateFaults = 0
SYMMETRY Symmetry
SPECIFICATION Spec
CHECK_DEADLOCK FALSE
PROPERTIES
    CancelPreventsExecution
