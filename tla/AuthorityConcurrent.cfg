CONSTANTS
    Clients = {c1, c2}
    Keys = {k1}
    Procs = {p1, p2}
    Gates = {g1}
    NoGate = NoGate
    NoContent = NoContent
    NoLease = NoLease
    NoBinding = NoBinding
    NoResult = NoResult
    NoKey = NoKey
    NoClient = NoClient
    NoProc = NoProc
    Edit = Edit
    Times = {0}
    LeaseSeconds = 1
    MaxCrashes = 0
SYMMETRY Symmetry
SPECIFICATION Spec
INVARIANTS
    RejectedMeansUntouched
    RepliesAgree
    AtMostOncePromotion
