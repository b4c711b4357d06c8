CONSTANTS
    Acme = Acme
    Services = {api}
    Runs = {r1, r2}
    Handlers = {h1, h2}
    Workers = {w1}
    Operators = {o1}
    Targets <- MCTargets
    NoRun = NoRun
    NoTarget = NoTarget
    NoControl = NoControl
    Live = FALSE
    QueueSize = 1
    Quota = 0
    MaxRetries = 1
    Commands = {"cancel"}
    KillSwitches = FALSE
    Shutdowns = TRUE
    LockRequests = {FALSE}
    Pauses = {}
    MaxCommands = 1
    MaxRunFaults = 1
    MaxCreateFaults = 1
SPECIFICATION FairSpec
CHECK_DEADLOCK FALSE
INVARIANTS
    AdmissionReleased

    
