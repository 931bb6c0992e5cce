SPECIFICATION FairSpec
CONSTANTS
    f1 = f1
    f2 = f2
    f3 = f3
    Fetches <- MCFetches
    Cooldown = 3
    MaxRedirects = 3
INVARIANT WaybackBeforeGivingUp
PROPERTIES PauseIsKept PauseEnds EveryFetchEnds
