\* Two meetings, two passes and a fault; two Admins, two runners, a restart.
CONSTANTS
    m1 = m1
    m2 = m2
    w1 = w1
    w2 = w2
    a1 = a1
    a2 = a2
    r1 = r1
    r2 = r2
    Meetings = {m1, m2}
    Workers = {w1, w2}
    JobIds = {1, 2}
    Times = {t1, t2}
    ClaimLimit = 3
    MaxFaults = 1
    Findings = {f1}
    Admins = {a1, a2}
    Devices = {d1}
    Runners = {r1, r2}
    MaxGenerations = 2
    MaxRestarts = 1
SPECIFICATION Passes
INVARIANTS
    NoProvisionalAlert
    PushedOnce
PROPERTIES
    ProgrammeKept
    JobsEnd
    AlertedBeforeBaselined
    AlertsSettle
CONSTRAINT Bounded
CHECK_DEADLOCK FALSE
