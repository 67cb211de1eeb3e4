SPECIFICATION FairNodeSpec
CONSTANTS
    Alice = Alice
    Bob = Bob
    MinerKey = MinerKey
    PeerKey = PeerKey
    h1 = h1
    h2 = h2
    Handlers = {h1}
    Word = 1024
    Word32 = 32
    tx_count_threshold = 1
    value_threshold = 100
    min_block_gap_sec = 1
    max_block_gap_sec = 2
    initial_difficulty = 1
    target_block_time_sec = 2
    SecondsPerYear = 4
    HalfCoin = 4
    StartChain <- MCStartChain
    Txs <- OneTx
    MessageTypes = {"tx"}
    MaxDeliveries = 2
    MaxPeerBlocks = 0
    MaxBlocks = 5
    MaxTxsPerBlock = 2
    Lookback = 2
    Skew = 0
PROPERTIES
    NoStall
