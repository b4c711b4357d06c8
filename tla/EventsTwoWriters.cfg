CONSTANTS
    Threads = {t1, t2}
    Subscribers = {s1}
    NoThread = NoThread
    Cold = Cold
    MaxEvents = 3
    CacheSize = 2
SPECIFICATION Spec
INVARIANTS
    StreamSkipsNothing
