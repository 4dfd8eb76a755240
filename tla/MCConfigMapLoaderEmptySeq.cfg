CONSTANTS
    r1 = r1
    r2 = r2
    Runtimes <- MCRuntimes
    NoAddr = {r2}
    MaxGen = 2
    MaxFailures = 2
    MaxEdits = 2
    EmptySeqFile = TRUE
    NoSeq = NoSeq
    Absent = Absent

SPECIFICATION Spec

INVARIANT LoadMatchesSeqs
