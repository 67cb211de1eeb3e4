SPECIFICATION RetargetSpec
CONSTANTS
    Word = 1048576
    Word32 = 65536
    tx_count_threshold = 100
    value_threshold = 1000
    min_block_gap_sec = 3
    max_block_gap_sec = 60
    initial_difficulty = 1
    target_block_time_sec = 5
    SecondsPerYear = 31536000
    HalfCoin = 50
    Lookback = 3
    Gaps <- MCGaps
    GenesisTime = 100
    MaxHeight = 7
CHECK_DEADLOCK FALSE
INVARIANTS
    RetargetTypeOK
PROPERTIES
    FollowsPace
