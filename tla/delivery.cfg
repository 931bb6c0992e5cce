SPECIFICATION FairSpec
CONSTANTS
    d1 = d1
    d2 = d2
    Deliveries <- MCDeliveries
    Characters <- MCCharacters
    Texts <- MCTexts
    MaxLength = 3
    TelegraphEnabled = TRUE
    NoToken = NoToken
INVARIANTS TypeOK WholeTextArrives PartsAreSendable WordsStayWhole
PROPERTY EveryDeliveryEnds
CHECK_DEADLOCK FALSE
