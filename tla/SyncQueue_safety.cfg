SPECIFICATION Spec
CONSTANTS
    Users = {u1, u2}
    NoUser = NoUser
    Runner = Runner
    Jobs = {j1}
    ResetUsers = {}
    BatchSize = 1
    Events = {"preshift"}
    MaxGens = 3
    MaxRestarts = 1
SYMMETRY Symmetry
INVARIANTS
    SingleActiveScheduled
    SettledByMembers
    RunningIsHeld
    OneCapturePerUser
PROPERTIES
    NoRegress
    ImplementsLedger
    PendingKeepsPlan
CONSTRAINT Bounded
