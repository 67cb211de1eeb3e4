SPECIFICATION FairExplorerSpec
CONSTANTS
    Alice = Alice
    Bob = Bob
    Depth = 3
    Word = 64
    Offers <- MCOffers
    GenesisTimes = {0}
    StartFiles <- MCStartFiles
    Conns = {c1}
    Requests <- AllRequests
    DefaultLimit = 2
    MaxLimit = 3
CHECK_DEADLOCK FALSE
INVARIANTS
    ExplorerTypeOK
    AnswersExact
PROPERTIES
    FileLeftAlone
    StopReturns
    RequestsAnswered
