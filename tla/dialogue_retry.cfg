SPECIFICATION Spec
CONSTANTS
    t1 = t1
    t2 = t2
    t3 = t3
    free = free
    locked = locked
    Tasks <- MCTasks
    Urls <- MCUrls
    AuthUrls <- MCAuthUrls
    NoUrl = NoUrl
    NoTask = NoTask
INVARIANT RetryProcessesItsRequest
CHECK_DEADLOCK FALSE
