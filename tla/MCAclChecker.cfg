\* Three Sets over two groups and two service accounts: enough for a Set
\* that fails after creating an account, a Set that deletes one, and a
\* CheckToken that looks an account up in between.
CONSTANTS
    NGroups = 2
    a1 = a1
    a2 = a2
    SAs <- MCSAs
    NoSA = NoSA
    Rejects = {2}
    q1 = q1
    q2 = q2
    Reqs <- MCReqs
    MaxSets = 3
SPECIFICATION Spec
INVARIANT TypeOK AccountsCoverConfig AccountsMatchConfig NotFoundOnlyAfterConcurrentSet
