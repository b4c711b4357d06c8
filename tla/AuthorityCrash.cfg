CONSTANTS
    Clients = {c1}
    Keys = {k1, k2}
    Procs = {p1}
    Gates = {g1}
    NoGate = NoGate
    NoContent = NoContent
    NoLease = NoLease
    NoBinding = NoBinding
    NoResult = NoResult
    NoKey = NoKey
    NoClient = NoClient
    NoProc = NoProc
    Edit = Edit
    Times = {0}
    LeaseSeconds = 1
    MaxCrashes = 2
SYMMETRY Symmetry
SPECIFICATION Spec
INVARIANTS
    OutcomeMatchesPermit
    PatchIsRecoverable
    LedgerMatchesTarget
PROPERTIES
    ServesRecovered
    LedgerSettles
