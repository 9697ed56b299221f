CONSTANTS
    People = {x1, x2}
    NoOne = noOne
    Positions = {p1, p2}
    NoPosition = noPosition
    Loop = loop
    Pool = {r1, r2}
    MaxApps = 2
    MaxVersions = 2
    MaxSaves = 2
    Forms <- MCForms
SPECIFICATION Spec
SYMMETRY Symmetry
PROPERTY WithdrawnWhilePending
