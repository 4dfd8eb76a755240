\* A margin of half the limit: the soft threshold is zero.
CONSTANTS
    Binary = "frontend"
    Limit = 10
    Margin = 5
    Configured = TRUE
    Base = 4
    MaxMsg = 2
    MaxGarbage = 4
    r1 = r1
    r2 = r2
    r3 = r3
    Reqs <- MCReqs
SYMMETRY MCSymmetry
SPECIFICATION Spec
PROPERTY AdmitOnlyWithMargin
