------------------------------ MODULE Retarget ------------------------------
(***************************************************************************)
(* How the difficulty follows the pace of the blocks: a chain of headers,  *)
(* each mined at NextDifficulty by whoever is first, in run mode or in     *)
(* mine mode.                                                              *)
(*                                                                         *)
(* Gaps are the seconds between the time stamps of a block and its parent, *)
(* by the clocks of their miners.  add_block compares no time stamps, and  *)
(* should_produce_block takes a negative gap for a very long one: a gap is *)
(* negative when the miner's clock is behind that of the miner before.     *)
(***************************************************************************)
EXTENDS Consensus

CONSTANTS
    Gaps,           \* the gaps that happen
    GenesisTime,    \* the time stamp of the genesis block
    MaxHeight       \* the height at which mining stops

ASSUME RetargetAssumption ==
    /\ Gaps \subseteq Int
    /\ {GenesisTime, MaxHeight} \subseteq Nat
    /\ initial_difficulty \in 1..(Word32 - 1)
    /\ Lookback >= 2 /\ Word32 > 2

VARIABLE headers    \* the chain

Header(timestamp, difficulty) ==
    [header |-> [timestamp |-> timestamp, difficulty |-> difficulty]]

last == headers[Len(headers)]

\* A block that is mined gap seconds after the last one.
Mine(gap) ==
    \E difficulty \in NextDifficulty(headers, last) :
        headers' = Append(headers, Header(last.header.timestamp + gap, difficulty))

RetargetInit ==
    headers = <<Header(GenesisTime, create_genesis_block(GenesisTime).header.difficulty)>>

RetargetNext == Len(headers) <= MaxHeight /\ \E gap \in Gaps : Mine(gap)

RetargetSpec == RetargetInit /\ [][RetargetNext]_headers

-----------------------------------------------------------------------------
(* Properties.  Once there are three blocks the difficulty is computed; a  *)
(* pace is fast below 80 % of the target, slow above 120 %, else steady.   *)
(* A negative gap is of no pace: the span that contains it may wrap.       *)

Fast(gap)   == gap >= 0 /\ 10 * gap < 8 * target_block_time_sec
Slow(gap)   == 10 * gap > 12 * target_block_time_sec
Steady(gap) == ~Slow(gap) /\ 10 * gap >= 8 * target_block_time_sec

\* All of the gaps between the last Lookback + 1 blocks are of this pace.
Recently(Pace(_)) ==
    /\ Len(headers) >= 3
    /\ \A i \in 1..(Len(headers) - 1) :
         i >= Len(headers) - Lookback =>
           Pace(headers[i + 1].header.timestamp - headers[i].header.timestamp)

before == last.header.difficulty
after  == headers'[Len(headers')].header.difficulty

\* Blocks come too fast: the difficulty rises, by at most one half or by 1.
FastStep ==
    Recently(Fast) => after > before /\ (after = before + 1 \/ 2 * after <= 3 * before)

\* Blocks come too slowly: it falls, unless it is 1.
SlowStep == Recently(Slow) => after < before \/ (before = 1 /\ after = 1)

SteadyStep == Recently(Steady) => after = before

\* Type invariant.  "Minimum difficulty: 1", however slow the blocks are and
\* however far the span of their time stamps wraps.
RetargetTypeOK ==
    /\ Len(headers) \in 1..(MaxHeight + 1)
    /\ \A i \in DOMAIN headers :
         /\ headers[i].header.timestamp \in Int
         /\ headers[i].header.difficulty \in 1..(Word32 - 1)

\* The difficulty of the next block rises when the recent blocks were too
\* fast, falls when they were too slow and stays when they were on target,
\* whatever the blocks before them were like.
FollowsPace == [][FastStep /\ SlowStep /\ SteadyStep]_headers
=============================================================================
