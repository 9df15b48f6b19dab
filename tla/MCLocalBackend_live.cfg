SPECIFICATION Spec
CONSTANTS
    p1 = p1
    p2 = p2
    cleaner = cleaner
    nobody = nobody
    f1 = f1
    f2 = f2
    Procs <- TwoCalls
    Cleaner = cleaner
    Nobody = nobody
    Files <- OneFile
    Sizes = {1}
    MaxFile = 2
    MaxTotal = 2
    TTL = 1
    MaxTime = 2
CHECK_DEADLOCK FALSE
PROPERTIES ExpiredFileGoes OperationsReturn
