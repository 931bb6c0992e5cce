SPECIFICATION FairSpec
CONSTANTS
    r1 = r1
    r2 = r2
    None = None
    Requests <- MCRequests
    Urls <- AllUrls
    Pages <- AllPages
    Class <- MCClass
    Variant <- MCVariant
    WithAccounts <- MCWithAccounts
INVARIANTS PartialIsFlagged ArchiveBeforeGivingUp RecoverableErrorsAreRecovered CacheHoldsUsableTexts
PROPERTIES ImplementsExtraction EveryRequestEnds
CHECK_DEADLOCK FALSE
