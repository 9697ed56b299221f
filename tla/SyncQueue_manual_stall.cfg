SPECIFICATION FairSpec
CONSTANTS
    Users = {u1}
    NoUser = NoUser
    Runner = Runner
    Jobs = {j1}
    ResetUsers = {}
    BatchSize = 1
    Events = {"daily"}
    MaxGens = 3
    MaxRestarts = 0
PROPERTIES
    ScheduledSettles
