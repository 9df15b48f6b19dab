SPECIFICATION Spec
CONSTANTS
    p1 = p1
    p2 = p2
    cleaner = cleaner
    nobody = nobody
    f1 = f1
    f2 = f2
    Procs <- OneCall
    Cleaner = cleaner
    Nobody = nobody
    Files <- TwoFiles
    Sizes = {1, 2}
    MaxFile = 2
    MaxTotal = 2
    TTL = 2
    MaxTime = 3
CHECK_DEADLOCK FALSE
PROPERTY OnlyExpiredFilesReaped
