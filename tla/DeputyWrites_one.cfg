\* One assignment, two shifts, two roster ids, every fault and outside edit.
CONSTANTS
    Keys = {k1}
    Versions = {v1, v2}
    Slots = {s1, s2}
    None = none
    Publish = publish
    Faults = {"lost", "error", "readiness", "crash"}
    Edits = {"add", "edit", "remove", "lock"}
SPECIFICATION Spec
SYMMETRY Symmetry
INVARIANTS OwnershipIsCurrent DeleteAuthority OneOwnShift
