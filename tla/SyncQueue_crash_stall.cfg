SPECIFICATION FairSpec
CONSTANTS
    Users = {u1, u2}
    NoUser = NoUser
    Runner = Runner
    Jobs = {}
    ResetUsers = {}
    BatchSize = 1
    Events = {}
    MaxGens = 1
    MaxRestarts = 1
PROPERTIES
    ScheduledSettles
