\* CheckToken's read of c.accounts against Set's writes to it.
CONSTANTS
    NGroups = 2
    a1 = a1
    a2 = a2
    SAs <- MCSAs
    NoSA = NoSA
    Rejects = {2}
    q1 = q1
    q2 = q2
    Reqs <- MCReqs
    MaxSets = 3
SPECIFICATION Spec
PROPERTY NoUnlockedAccountsRead
