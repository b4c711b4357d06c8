CONSTANTS
    Targets = {t1}
    Signatures = {"crash", "oom"}
    Threads = {th1, th2}
    Runs = {r1, r2, r3, r4}
    NoTarget = NoTarget
    NoRun = NoRun
    NoThread = NoThread
    MaxUpsets = 1
SPECIFICATION FairSpec
INVARIANTS
    OneRunPerTarget
PROPERTIES
    NewFailuresAreTaken
CHECK_DEADLOCK FALSE
