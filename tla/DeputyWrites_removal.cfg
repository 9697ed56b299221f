\* Deputy answers everything and nobody else edits it.
CONSTANTS
    Keys = {k1, k2}
    Versions = {v1, v2}
    Slots = {s1, s2}
    None = none
    Publish = publish
    Faults = {}
    Edits = {}
SPECIFICATION Spec
SYMMETRY Symmetry
INVARIANT FaultFreePublish
