CONSTANTS
    NObjs = 4
    Concurrency = 2
SPECIFICATION Spec
INVARIANT TypeOK BoundedWorkers OkOnlyWithoutReadFailure
PROPERTY FetchRefinement
