----------------------------- MODULE Consensus -----------------------------
(***************************************************************************)
(* class ConsensusEngine and struct ConsensusParams (consensus.cpp): when  *)
(* to produce a block, at which difficulty, for which reward.  The module  *)
(* has no state; the fields of ConsensusParams are constants.              *)
(*                                                                         *)
(* Differences of uint64_t wrap at Word.  Ratios of doubles are exact      *)
(* fractions here.                                                         *)
(***************************************************************************)
EXTENDS Ledger

CONSTANTS
    tx_count_threshold,     \* pending transactions that trigger a block
    value_threshold,        \* pending value that triggers a block
    min_block_gap_sec,      \* seconds between two blocks, at least
    max_block_gap_sec,      \* seconds after which a block is forced
    initial_difficulty,
    target_block_time_sec,
    Lookback,               \* blocks that the difficulty looks back over (1000)
    SecondsPerYear,
    HalfCoin,               \* 0.5 * COIN
    Word32                  \* one more than the largest uint32_t

ASSUME ConsensusAssumption ==
    /\ {tx_count_threshold, value_threshold, initial_difficulty, HalfCoin, Lookback}
         \subseteq Nat
    /\ {min_block_gap_sec, max_block_gap_sec} \subseteq Nat
    /\ min_block_gap_sec <= max_block_gap_sec
    /\ {target_block_time_sec, SecondsPerYear, Word32} \subseteq Nat \ {0}

\* a - b of two uint64_t.
Minus(a, b) == (a - b) % Word

\* Half a coin a block in the first year, half a coin more in each of the
\* next three, two coins from then on.
get_block_reward(genesis_timestamp, now) ==
    LET years == Minus(now, genesis_timestamp) \div SecondsPerYear
    IN  HalfCoin * (1 + IF years < 3 THEN years ELSE 3)

\* Mutant: the minimum gap is not waited for.
ProduceAnyTime(pending, value, last_timestamp, now) ==
    \/ Minus(now, last_timestamp) >= max_block_gap_sec
    \/ pending >= tx_count_threshold
    \/ value >= value_threshold

\* The safety floor first, then the minimum gap, then the triggers.
should_produce_block(pending, value, last_timestamp, now) ==
    LET gap == Minus(now, last_timestamp)
    IN  \/ gap >= max_block_gap_sec
        \/ /\ gap >= min_block_gap_sec
           /\ \/ pending >= tx_count_threshold
              \/ value >= value_threshold

\* Mutant: the number of blocks is that of the time stamps.
DifficultyPerStamp(timestamps, current_difficulty) ==
    LET target  == Len(timestamps) * target_block_time_sec
        total   == Minus(timestamps[Len(timestamps)], timestamps[1])
        half(d) == (current_difficulty * d) \div (2 * target)
        atLeast1(d) == IF d > 1 THEN d ELSE 1
    IN  IF 10 * total < 8 * target
        THEN {current_difficulty + atLeast1(half(target - total))}
        ELSE IF 10 * total <= 12 * target \/ current_difficulty <= 1
        THEN {current_difficulty}
        ELSE {IF current_difficulty > atLeast1(half(total - target))
              THEN current_difficulty - atLeast1(half(total - target)) ELSE 1}

\* The possible results of calculate_difficulty.  The average block time is
\* compared with the target: below 80 % the difficulty rises, above 120 % it
\* falls, by half the deviation and by at least 1.  A fall that a uint32_t
\* cannot hold is undefined behaviour: any fall.
calculate_difficulty(timestamps, current_difficulty) ==
    LET current == IF current_difficulty > 0 THEN current_difficulty
                   ELSE initial_difficulty
        blocks  == Len(timestamps) - 1
        total   == Minus(timestamps[Len(timestamps)], timestamps[1])
        target  == blocks * target_block_time_sec
        half(d) == (current * d) \div (2 * target)
        atLeast1(d) == IF d > 1 THEN d ELSE 1
        fall    == half(total - target)
    IN  IF Len(timestamps) < 2 THEN {current}
        ELSE IF 10 * total < 8 * target
        THEN {(current + atLeast1(half(target - total))) % Word32}
        ELSE IF 10 * total <= 12 * target THEN {current}
        ELSE IF current <= 1 THEN {1}
        ELSE {IF current > atLeast1(d) THEN current - atLeast1(d) ELSE 1 :
                d \in IF fall < Word32 THEN {fall} ELSE 0..(Word32 - 1)}

\* Mutant: without enough time stamps the difficulty is zero-initialised.
DifficultyFromZero(c, last) ==
    IF Len(c) < 3 THEN {0}
    ELSE calculate_difficulty([i \in 1..(Len(c) - 1) |-> c[i].header.timestamp],
                              last.header.difficulty)

\* The difficulty of the next block of chain c, whose last block the caller
\* believes to be last.  The time stamps it averages leave out c's last block.
NextDifficulty(c, last) ==
    LET chain_h    == Len(c) - 1
        lookback   == IF chain_h < Lookback THEN chain_h ELSE Lookback
        timestamps == [i \in 1..lookback |->
                         c[chain_h - lookback + i].header.timestamp]
    IN  IF Len(timestamps) >= 2
        THEN calculate_difficulty(timestamps, last.header.difficulty)
        ELSE {initial_difficulty}
=============================================================================
