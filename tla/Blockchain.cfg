SPECIFICATION ChainSpec
CONSTANTS
    Alice = Alice
    Bob = Bob
    Depth = 3
    Word = 64
    Offers <- MCOffers
    GenesisTimes <- MCGenesisTimes
INVARIANTS
    ChainTypeOK
    UtxoMatchesHistory
    ChainLinked
    HashLookupExact
    ChainSpendsOwnUnspent
