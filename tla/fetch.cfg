SPECIFICATION FairSpec
CONSTANTS
    NoUrl = NoUrl
    None = None
    Labels <- MCLabels
    Segments <- MCSegments
    Queries <- MCQueries
    Entries <- MCEntries
    Links <- MCLinks
    Served <- MCServed
    Promos <- MCPromos
    MinLength = 2
    PromoLength = 3
    FewPromos = 2
    ManyPromos = 3
    MaxRetry = 3
    MaxRedirects = 1
    MaxBytes = 2
    PartialLength = 3
INVARIANTS ResultsAsExpected ClientIsClosed SiteIsSpared OnlyCheckedPagesAreRead
    CutTextIsMarked RecognisedByItsEntry CacheKeySeparatesPages
PROPERTY EveryFetchEnds
CHECK_DEADLOCK FALSE
