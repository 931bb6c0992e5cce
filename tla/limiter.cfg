SPECIFICATION FairSpec
CONSTANTS
    Limit <- MCLimit
    Ttl <- MCTtl
INVARIANTS CountersAreBounded BurstIsBounded
PROPERTY NobodyIsLockedOut
