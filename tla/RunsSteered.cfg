CONSTANTS
    Acme = Acme
    Services = {api}
    Runs = {r1}
    Handlers = {h1}
    Workers = {w1}
    Operators = {o1}
    Targets <- MCTargets
    NoRun = NoRun
    NoTarget = NoTarget
    NoControl = NoControl
    Live = FALSE
    QueueSize = 1
    Quota = 0
    MaxRetries = 0
    Commands = {"approve", "cancel", "auto_on", "auto_off", "override", "pause_evaluation", "note", "handoff"}
    KillSwitches = TRUE
    Shutdowns = FALSE
    LockRequests = {TRUE}
    Pauses = {"feedback_ready"}
    MaxCommands = 2
    MaxRunFaults = 2
    MaxCreateFaults = 0
SYMMETRY Symmetry
SPECIFICATION Spec
CHECK_DEADLOCK FALSE
INVARIANTS
    TypeOK
    EvaluatedBeforeExecution
    ConsentBeforeExecution
    AdmissionReleased
PROPERTIES
    LateOverridesRejected
