SPECIFICATION PoolSpec
CONSTANTS
    Alice = Alice
    Bob = Bob
    Word = 64
    Txs <- MCTxs
INVARIANTS
    PoolTypeOK
    PoolConflictFree
    RefusesOnlyConflicts
    SelectionIsBest
