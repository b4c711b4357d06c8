CONSTANTS
    Runs = {r1, r2, r3}
    Processes = {p1, p2}
    NoRun = NoRun
    Limit = 2
    MaxSignals = 2
    MaxFaults = 1
SPECIFICATION FairSpec
INVARIANTS
    OneClaimant
    RecheckedOnce
PROPERTIES
    RechecksSettle
CHECK_DEADLOCK FALSE
