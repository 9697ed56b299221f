\* Two requests; three backups; two accounts, two shifts, three captures; three
\* people and two logins; a batch of two assignments with every fault, whose
\* rosters others remove or lock.
CONSTANTS
    a1 = a1
    a2 = a2
    q1 = q1
    q2 = q2
    u1 = u1
    u2 = u2
    s1 = s1
    s2 = s2
    pe = pe
    pa = pa
    pb = pb
    Accounts = {a1, a2}
    AdminRequests = {q1, q2}
    RetentionDays = 1
    MaxBackups = 3
    MaxDay = 2
    Users = {u1, u2}
    Others = {}
    ShiftIds = {s1, s2}
    Events = {e1}
    Kinds <- MCKinds
    MaxEdits = 1
    MaxCaptures = 3
    Persons = {pe, pa, pb}
    Employees = {pe}
    LoginCount = 2
    Days = {day1}
    Keys = {k1, k2}
    Versions = {v1}
    Slots = {r1}
    None = none
    Publish = publish
    Faults = {"lost", "error", "readiness", "crash"}
    Edits = {"remove", "lock"}
SPECIFICATION Services
SYMMETRY Symmetry
INVARIANTS
    SuccessIsRestorable
    AuditTellsTruth
    ErasedAfterBackup
    RoleAuditNamesAccounts
    LastAdminNeedsRace
    SeenIsKept
    SharedShiftBacked
    RedirectsEnd
    ReconciliationRuns
    VisibilityCurrent
    PublishAfterAll
PROPERTIES
    ImplementsStore
    SharedHistoryKept
    MergesLast
CONSTRAINT Bounded
CHECK_DEADLOCK FALSE
