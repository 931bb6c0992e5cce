SPECIFICATION FairBotSpec
CONSTANTS
    free = free
    locked = locked
    elsewhere = elsewhere
    Tasks = {t1, t2}
    Urls = {free, locked}
    AuthUrls = {locked}
    Articles <- MCArticles
    Fits <- MCFits
    NoUrl = NoUrl
    NoTask = NoTask
INVARIANT DeliveredTextFits
PROPERTY EveryUpdateEnds
CHECK_DEADLOCK FALSE
