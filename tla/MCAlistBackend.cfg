SPECIFICATION Spec
CONSTANTS
    p1 = p1
    p2 = p2
    f1 = f1
    f2 = f2
    n1 = n1
    n2 = n2
    Procs <- MCProcs
    Files <- MCFiles
    Scopes <- MCScopes
    ScopeOf <- MCScopeOf
    Sizes <- MCSizes
    MaxTotal = 2
    TTL = 1
    MaxTime = 3
SYMMETRY Goroutines
INVARIANTS TypeOK QuotaRespected BookedFilesExist DeadlineCoversFile
