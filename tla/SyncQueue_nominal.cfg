SPECIFICATION FairSpec
CONSTANTS
    Users = {u1, u2}
    NoUser = NoUser
    Runner = Runner
    Jobs = {}
    ResetUsers = {}
    BatchSize = 1
    Events = {"daily", "preshift"}
    MaxGens = 2
    MaxRestarts = 0
INVARIANTS
    PlannedHasMember
PROPERTIES
    ScheduledSettles
    DailyTargetPlanned
