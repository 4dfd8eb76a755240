CONSTANTS
    NObjs = 4
    Concurrency = 2
SPECIFICATION Spec
PROPERTY AbortOnFirstError
