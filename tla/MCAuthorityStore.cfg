CONSTANTS
    Leases = {l1, l2, l3}
    NoLease = NoLease
    Bindings = {b1, b2}
    NoBinding = NoBinding
    Results = {r1, r2}
    NoResult = NoResult
    LeaseSeconds = 1
    Authorities = {a1}
    Callers = {c1, c2, c3}
    Times <- MCTimes
SYMMETRY Symmetry
SPECIFICATION Spec
INVARIANTS
    TypeOK
    SingleDispatch
    AnswersAgree
    OutcomeFollowsDispatch
    ReconciliationAccepts
PROPERTIES
    LifecycleMonotone
    ImplementsAtMostOnce
