SPECIFICATION FairSpec
CONSTANTS
    c1 = c1
    c2 = c2
    ann = ann
    bob = bob
    mail = mail
    Tasks <- MCTasks
    Users <- MCUsers
    Shared = Shared
    Emails <- MCEmails
    Domain <- MCDomain
    None = None
    Unknown = Unknown
INVARIANT AcknowledgedIsDurable
PROPERTIES OwnAccountsOnly EveryCallEnds
CHECK_DEADLOCK FALSE
