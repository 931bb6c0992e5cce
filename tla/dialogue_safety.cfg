SPECIFICATION Spec
CONSTANTS
    t1 = t1
    t2 = t2
    t3 = t3
    free = free
    locked = locked
    Tasks <- MCTasks
    Urls <- MCUrls
    AuthUrls <- MCAuthUrls
    NoUrl = NoUrl
    NoTask = NoTask
SYMMETRY TaskSymmetry
INVARIANTS LastWriterDecides StatusMessageGone ProcessedUrlsWereSent
CHECK_DEADLOCK FALSE
