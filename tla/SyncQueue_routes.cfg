SPECIFICATION FairSpec
CONSTANTS
    Users = {u1}
    NoUser = NoUser
    Runner = Runner
    Jobs = {j1, j2}
    ResetUsers = {u1}
    BatchSize = 1
    Events = {"slow"}
    MaxGens = 2
    MaxRestarts = 0
INVARIANTS
    ClaimHasWorker
PROPERTIES
    ManualRequestEnds
