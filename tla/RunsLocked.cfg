CONSTANTS
    Acme = Acme
    Services = {api}
    Runs = {r1, r2}
    Handlers = {h1, h2}
    Workers = {w1, w2}
    Operators = {}
    Targets <- MCTargets
    NoRun = NoRun
    NoTarget = NoTarget
    NoControl = NoControl
    Live = TRUE
    QueueSize = 2
    Quota = 0
    MaxRetries = 0
    Commands = {}
    KillSwitches = FALSE
    Shutdowns = FALSE
    LockRequests = {FALSE}
    Pauses = {}
    MaxCommands = 0
    MaxRunFaults = 0
    MaxCreateFaults = 0
SYMMETRY Symmetry
SPECIFICATION Spec
CHECK_DEADLOCK FALSE
INVARIANTS
    LiveTargetExclusive
