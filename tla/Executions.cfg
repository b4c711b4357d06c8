CONSTANTS
    k1 = k1
    Runs = {r1, r2, r3}
    Keys = {k1}
    KeyOf <- MCKeyOf
    MaxRetries = 1
    MaxCrashes = 1
SPECIFICATION FairSpec
INVARIANTS
    TypeOK
    SentOnce
    NoLateResend
    AnswersOnRecord
PROPERTIES
    UnknownStaysUnknown
    ExecuteReturns
    ImplementsAtMostOnce
CHECK_DEADLOCK FALSE
