--------------------------- MODULE EconomyProofs ---------------------------
(***************************************************************************)
(* What mining and paying rely on: the difficulty (Retarget) and the       *)
(* payments of a wallet (WalletCli), two state machines over a chain that  *)
(* grows, whose arithmetic is in integers of fixed width.                  *)
(*                                                                         *)
(* The difficulty keeps to its floor and follows the pace of the blocks,   *)
(* for any gaps, any target, any number of blocks looked back over and any *)
(* width of the integers, as long as nothing is out of range: add_block    *)
(* does not look at the difficulty, and nothing stops it from wrapping.    *)
(* The arithmetic comes first: what a raise and a fall do to a difficulty, *)
(* and what the gaps say of the span of the time stamps, whose length is   *)
(* not known.                                                              *)
(*                                                                         *)
(* A payment takes what it gives and stays one that nodes accept, for any  *)
(* keys, any amounts and any number of blocks and payments.  What it rests *)
(* on is that every entry of the UTXO set says what the hash in its key    *)
(* says: an output can be lost to a block, never changed.                  *)
(***************************************************************************)
EXTENDS Retarget, WalletCli, FiniteSetTheorems, NaturalsInduction,
        WellFoundedInduction, TLAPS

-----------------------------------------------------------------------------
(* Half of a share, and sums of gaps.                                      *)

\* A quotient, times its divisor, is at most what was divided.
LEMMA DivBounds ==
    ASSUME NEW a \in Nat, NEW b \in Nat \ {0}
    PROVE  /\ a \div b \in Nat
           /\ b * (a \div b) <= a
  OBVIOUS

\* Half of c's share d of T is at most half of c.
LEMMA HalfBounds ==
    ASSUME NEW c \in Nat, NEW T \in Nat \ {0}, NEW d \in 0..T
    PROVE  /\ (c * d) \div (2 * T) \in Nat
           /\ 2 * ((c * d) \div (2 * T)) <= c
<1> DEFINE h == (c * d) \div (2 * T)
<1>1. c * d \in Nat /\ 2 * T \in Nat \ {0}
  OBVIOUS
<1>2. h \in Nat /\ (2 * T) * h <= c * d
  BY <1>1, DivBounds
<1>3. c * d <= c * T
  OBVIOUS
<1> HIDE DEF h
<1>4. T * (2 * h) <= T * c
  BY <1>2, <1>3
<1>5. 2 * h <= c
  <2>1. SUFFICES ASSUME 2 * h >= c + 1 PROVE FALSE
    BY <1>2
  <2>2. T * (2 * h) >= T * (c + 1)
    BY <2>1, <1>2
  <2>. QED BY <2>2, <1>4, <1>2
<1>. QED BY <1>2, <1>5 DEF h

\* A set of numbers has a least one.
LEMMA LeastExists ==
    ASSUME NEW S \in SUBSET Nat, S # {}
    PROVE  \E x \in S : \A y \in S : x <= y
<1>1. PICK x \in S : \A y \in S : ~(<<y, x>> \in OpToRel(<, Nat))
  BY NatLessThanWellFounded, WFMin
<1>2. \A y \in S : ~(y < x)
  BY <1>1 DEF OpToRel
<1>. QED BY <1>2

\* n gaps that are each at most hi tenths of a second are together at most
\* n times as much: there is no first one at which this fails.
LEMMA GapsBounded ==
    ASSUME NEW t, NEW a \in Nat, NEW n \in Nat, NEW hi \in Int,
           \A i \in a..(a + n) : t[i] \in Int,
           \A i \in a..(a + n - 1) : 10 * (t[i + 1] - t[i]) <= hi
    PROVE  10 * (t[a + n] - t[a]) <= hi * n
<1> DEFINE P(k) == 10 * (t[a + k] - t[a]) <= hi * k
           S == {k \in 0..n : ~P(k)}
<1>1. S = {} => P(n)
  <2>1. ~P(n) => n \in S
    <3> HIDE DEF P
    <3>. QED OBVIOUS
  <2>. QED BY <2>1
<1>2. SUFFICES ASSUME S # {} PROVE FALSE
  BY <1>1
<1>3. S \in SUBSET Nat
  OBVIOUS
<1> HIDE DEF S
<1>4. PICK x \in S : \A y \in S : x <= y
  BY <1>2, <1>3, LeastExists
<1>5. x \in 0..n /\ ~P(x)
  BY <1>4 DEF S
<1>6. x # 0
  <2>1. P(0)
    OBVIOUS
  <2>. QED BY <2>1, <1>5
<1>7. x - 1 \in 0..n /\ x \in 1..n
  BY <1>5, <1>6
<1>8. P(x - 1)
  <2>1. x - 1 \notin S
    BY <1>4, <1>7
  <2>. QED BY <2>1, <1>7 DEF S
<1>9. 10 * (t[a + x] - t[a + (x - 1)]) <= hi
  <2>1. a + (x - 1) \in a..(a + n - 1) /\ (a + (x - 1)) + 1 = a + x
    BY <1>7
  <2>. QED BY <2>1
<1>10. t[a + x] \in Int /\ t[a + (x - 1)] \in Int /\ t[a] \in Int
  BY <1>7
<1>11. hi * (x - 1) + hi = hi * x
  BY <1>7
<1>12. P(x)
  BY <1>8, <1>9, <1>10, <1>11, <1>7
<1>. QED BY <1>12, <1>5

\* The same from below.
LEMMA GapsBoundedBelow ==
    ASSUME NEW t, NEW a \in Nat, NEW n \in Nat, NEW lo \in Int,
           \A i \in a..(a + n) : t[i] \in Int,
           \A i \in a..(a + n - 1) : 10 * (t[i + 1] - t[i]) >= lo
    PROVE  10 * (t[a + n] - t[a]) >= lo * n
<1> DEFINE u == [i \in a..(a + n) |-> -t[i]]
<1>1. \A i \in a..(a + n) : u[i] \in Int /\ u[i] = -t[i]
  OBVIOUS
<1> HIDE DEF u
<1>2. \A i \in a..(a + n - 1) : 10 * (u[i + 1] - u[i]) <= -lo
  <2>1. SUFFICES ASSUME NEW i \in a..(a + n - 1)
                 PROVE  10 * (u[i + 1] - u[i]) <= -lo
    OBVIOUS
  <2>2. i \in a..(a + n) /\ i + 1 \in a..(a + n)
    OBVIOUS
  <2>. QED BY <2>2, <1>1
<1>3. -lo \in Int
  OBVIOUS
<1>4. 10 * (u[a + n] - u[a]) <= (-lo) * n
  BY <1>1, <1>2, <1>3, GapsBounded
<1>5. u[a + n] = -t[a + n] /\ u[a] = -t[a] /\ t[a + n] \in Int /\ t[a] \in Int
  BY <1>1
<1>6. (-lo) * n = -(lo * n)
  OBVIOUS
<1>. QED BY <1>4, <1>5, <1>6

-----------------------------------------------------------------------------
(* One call of calculate_difficulty.                                       *)

AtLeast1(d) == IF d > 1 THEN d ELSE 1

\* A raise that a uint32_t can hold adds at least 1, and no more than half.
LEMMA Rise ==
    ASSUME NEW current \in Nat \ {0}, NEW target \in Nat \ {0}, NEW total \in Nat,
           10 * total < 8 * target, 3 * current < 2 * Word32, Word32 > 2,
           NEW r, r = (current + AtLeast1((current * (target - total)) \div (2 * target)))
                        % Word32
    PROVE  /\ r \in 1..(Word32 - 1)
           /\ r > current
           /\ r = current + 1 \/ 2 * r <= 3 * current
<1>1. target - total \in 0..target /\ current \in Nat
  OBVIOUS
<1>2. PICK h : h = (current * (target - total)) \div (2 * target)
  OBVIOUS
<1>3. h \in Nat /\ 2 * h <= current
  BY <1>1, <1>2, HalfBounds
<1>4. PICK v \in Nat : v = current + AtLeast1(h)
  BY <1>3 DEF AtLeast1
<1>5. Word32 \in Nat
  BY ConsensusAssumption
<1>6. v > current /\ v < Word32 /\ (v = current + 1 \/ 2 * v <= 3 * current)
  BY <1>3, <1>4, <1>5 DEF AtLeast1
<1>7. r = v % Word32
  BY <1>2, <1>4
<1>8. v % Word32 = v
  BY <1>5, <1>6
<1>. QED BY <1>5, <1>6, <1>7, <1>8

\* The difficulties that a fall from current may end at.
Lowered(current, fall) ==
    {IF current > AtLeast1(d) THEN current - AtLeast1(d) ELSE 1 :
       d \in IF fall < Word32 THEN {fall} ELSE 0..(Word32 - 1)}

\* A fall, also one that is undefined behaviour, takes at least 1 and leaves 1.
LEMMA Fall ==
    ASSUME NEW current \in Nat, current > 1, NEW target \in Nat \ {0}, NEW total \in Nat,
           total > target,
           NEW r \in Lowered(current, (current * (total - target)) \div (2 * target))
    PROVE  r \in 1..(current - 1)
<1>1. PICK fall : fall = (current * (total - target)) \div (2 * target)
  OBVIOUS
<1>2. fall \in Nat
  <2>1. PICK e \in Nat : e = total - target
    OBVIOUS
  <2>2. current * e \in Nat /\ 2 * target \in Nat \ {0}
    OBVIOUS
  <2>. QED BY <1>1, <2>1, <2>2, DivBounds
<1>3. PICK d \in (IF fall < Word32 THEN {fall} ELSE 0..(Word32 - 1)) :
        r = IF current > AtLeast1(d) THEN current - AtLeast1(d) ELSE 1
  BY <1>1 DEF Lowered
<1>4. d \in Nat
  BY <1>2, <1>3
<1>. QED BY <1>3, <1>4 DEF AtLeast1

\* calculate_difficulty for at least two time stamps, total apart, that ought to
\* be target apart.
Retargeted(current, total, target) ==
    IF 10 * total < 8 * target
    THEN {(current + AtLeast1((current * (target - total)) \div (2 * target))) % Word32}
    ELSE IF 10 * total <= 12 * target THEN {current}
    ELSE IF current <= 1 THEN {1}
    ELSE Lowered(current, (current * (total - target)) \div (2 * target))

\* It is calculate_difficulty.
LEMMA CalculatesRetargeted ==
    ASSUME NEW ts \in Seq(Int), Len(ts) >= 2, NEW current \in 1..(Word32 - 1)
    PROVE  calculate_difficulty(ts, current) =
             Retargeted(current, Minus(ts[Len(ts)], ts[1]), (Len(ts) - 1) * target_block_time_sec)
<1>1. current > 0 /\ ~(Len(ts) < 2)
  BY ConsensusAssumption
<1>. QED BY <1>1, Zenon DEF calculate_difficulty, Retargeted, Lowered, AtLeast1

\* What it does below, at and above the target.
LEMMA RetargetedBounds ==
    ASSUME NEW current \in Nat \ {0}, NEW target \in Nat \ {0}, NEW total \in Nat,
           3 * current < 2 * Word32, Word32 > 2,
           NEW r \in Retargeted(current, total, target)
    PROVE  /\ 10 * total < 8 * target =>
                r \in 1..(Word32 - 1) /\ r > current
                /\ (r = current + 1 \/ 2 * r <= 3 * current)
           /\ 10 * total >= 8 * target /\ 10 * total <= 12 * target => r = current
           /\ 10 * total > 12 * target => r \in 1..(current - 1) \/ (r = 1 /\ current = 1)
<1>1. CASE 10 * total < 8 * target
  <2>1. r = (current + AtLeast1((current * (target - total)) \div (2 * target))) % Word32
    BY <1>1 DEF Retargeted
  <2>2. r \in 1..(Word32 - 1) /\ r > current /\ (r = current + 1 \/ 2 * r <= 3 * current)
    BY <1>1, <2>1, Rise
  <2>. QED BY <1>1, <2>2
<1>2. CASE 10 * total >= 8 * target /\ 10 * total <= 12 * target
  BY <1>2 DEF Retargeted
<1>3. CASE 10 * total > 12 * target
  <2>1. CASE current <= 1
    BY <1>3, <2>1 DEF Retargeted
  <2>2. CASE current > 1
    <3>1. r \in Lowered(current, (current * (total - target)) \div (2 * target))
      BY <1>3, <2>2 DEF Retargeted
    <3>2. total > target
      BY <1>3
    <3>3. r \in 1..(current - 1)
      BY <2>2, <3>1, <3>2, Fall
    <3>. QED BY <1>3, <3>3
  <2>. QED BY <2>1, <2>2
<1>. QED BY <1>1, <1>2, <1>3

-----------------------------------------------------------------------------

-----------------------------------------------------------------------------
(* The chain of headers.                                                   *)

Headers == [header : [timestamp : Int, difficulty : 1..(Word32 - 1)]]

\* The inductive invariant.
HeadersInv ==
    /\ headers \in Seq(Headers)
    /\ Len(headers) \in 1..(MaxHeight + 1)

\* The time stamps fit a uint64_t, and no raise takes a difficulty out of a
\* uint32_t.
InRange ==
    \A i \in DOMAIN headers :
      /\ headers[i].header.timestamp \in 0..(Word - 1)
      /\ 3 * headers[i].header.difficulty < 2 * Word32

\* The number of blocks between those whose time stamps are compared, and the
\* first and the last of these.
blocks == (IF Len(headers) - 1 < Lookback THEN Len(headers) - 1 ELSE Lookback) - 1
newest == Len(headers) - 1
oldest == newest - blocks
span   == headers[newest].header.timestamp - headers[oldest].header.timestamp

\* NextDifficulty compares the pace of those blocks with the target.
LEMMA WindowStep ==
    ASSUME HeadersInv, InRange
    PROVE  IF blocks >= 1
           THEN /\ oldest \in 1..newest /\ newest < Len(headers)
                /\ blocks \in Nat \ {0} /\ newest = oldest + blocks
                /\ NextDifficulty(headers, last) =
                     Retargeted(last.header.difficulty, span % Word, blocks * target_block_time_sec)
           ELSE NextDifficulty(headers, last) = {initial_difficulty}
<1> DEFINE chain_h    == Len(headers) - 1
           lookback   == IF chain_h < Lookback THEN chain_h ELSE Lookback
           timestamps == [i \in 1..lookback |->
                            headers[chain_h - lookback + i].header.timestamp]
<1>1. Len(headers) \in Nat \ {0} /\ Lookback \in Nat /\ chain_h \in Nat /\ lookback \in Nat
      /\ lookback <= chain_h /\ blocks = lookback - 1
  BY ConsensusAssumption DEF HeadersInv, blocks
<1>2. \A i \in 1..Len(headers) :
        /\ headers[i].header.timestamp \in Int
        /\ headers[i].header.difficulty \in 1..(Word32 - 1)
  <2>1. SUFFICES ASSUME NEW i \in 1..Len(headers)
                 PROVE  /\ headers[i].header.timestamp \in Int
                        /\ headers[i].header.difficulty \in 1..(Word32 - 1)
    OBVIOUS
  <2>2. headers[i] \in Headers
    BY DEF HeadersInv
  <2>. QED BY <2>2 DEF Headers
<1>3. timestamps \in Seq(Int) /\ Len(timestamps) = lookback
  <2>1. \A i \in 1..lookback : chain_h - lookback + i \in 1..Len(headers)
    BY <1>1
  <2>2. \A i \in 1..lookback : headers[chain_h - lookback + i].header.timestamp \in Int
    BY <2>1, <1>2
  <2>. HIDE DEF lookback, chain_h
  <2>. QED BY <1>1, <2>2
<1>4. NextDifficulty(headers, last) =
        IF Len(timestamps) >= 2
        THEN calculate_difficulty(timestamps, last.header.difficulty)
        ELSE {initial_difficulty}
  BY Zenon DEF NextDifficulty
<1>5. CASE blocks >= 1
  <2>1. lookback >= 2
    BY <1>1, <1>5
  <2>2. last.header.difficulty \in 1..(Word32 - 1)
    BY <1>1, <1>2 DEF last
  <2>3. /\ oldest \in 1..newest /\ newest < Len(headers)
        /\ blocks \in Nat \ {0} /\ newest = oldest + blocks
        /\ oldest = chain_h - lookback + 1 /\ newest = chain_h - lookback + lookback
    <3>1. newest = chain_h /\ newest < Len(headers) /\ newest \in Nat
      BY <1>1 DEF newest
    <3>. HIDE DEF lookback, chain_h
    <3>2. oldest = chain_h - (lookback - 1) /\ blocks = lookback - 1
      BY <1>1, <3>1 DEF oldest
    <3>. QED BY <1>1, <1>5, <3>1, <3>2
  <2>4. /\ timestamps[1] = headers[oldest].header.timestamp
        /\ timestamps[lookback] = headers[newest].header.timestamp
    BY <2>1, <2>3, <1>1
  <2>5. Minus(timestamps[Len(timestamps)], timestamps[1]) = span % Word
    BY <2>4, <1>3, Zenon DEF Minus, span
  <2>6. (Len(timestamps) - 1) * target_block_time_sec = blocks * target_block_time_sec
    BY <1>3, <1>1
  <2>. HIDE DEF timestamps, lookback
  <2>7. calculate_difficulty(timestamps, last.header.difficulty)
          = Retargeted(last.header.difficulty, span % Word, blocks * target_block_time_sec)
    <3>1. Len(timestamps) >= 2
      BY <1>3, <2>1
    <3>2. calculate_difficulty(timestamps, last.header.difficulty)
            = Retargeted(last.header.difficulty, Minus(timestamps[Len(timestamps)], timestamps[1]),
                   (Len(timestamps) - 1) * target_block_time_sec)
      BY <1>3, <2>2, <3>1, CalculatesRetargeted
    <3>. QED BY <3>2, <2>5, <2>6, Zenon
  <2>. QED BY <1>3, <1>4, <1>5, <2>1, <2>3, <2>7
<1>6. CASE ~(blocks >= 1)
  <2>1. ~(Len(timestamps) >= 2)
    BY <1>1, <1>3, <1>6
  <2>. QED BY <1>4, <1>6, <2>1
<1>. QED BY <1>5, <1>6

\* The genesis block has difficulty 1.
LEMMA InitHolds == RetargetInit => HeadersInv
<1>1. create_genesis_block(GenesisTime).header.difficulty = 1
  <2>1. \A h : Sealed(h, <<>>).header = h
    BY DEF Sealed
  <2>2. PICK m, a, p :
          create_genesis_block(GenesisTime) =
            Sealed([index |-> 0, previous_hash |-> p, timestamp |-> GenesisTime, nonce |-> 0,
                    merkle_root |-> m, difficulty |-> 1, miner_address |-> a], <<>>)
    BY Zenon DEF create_genesis_block
  <2>. QED BY <2>1, <2>2
<1>2. Header(GenesisTime, 1) \in Headers
  BY RetargetAssumption, ConsensusAssumption DEF Header, Headers
<1>. QED BY <1>1, <1>2, RetargetAssumption DEF RetargetInit, HeadersInv

\* A step mines at a difficulty that NextDifficulty gives, and keeps the
\* invariant.
LEMMA NextHeader ==
    ASSUME HeadersInv, InRange, RetargetNext
    PROVE  /\ after \in NextDifficulty(headers, last)
           /\ after \in 1..(Word32 - 1)
           /\ HeadersInv'
<1>1. PICK gap \in Gaps, difficulty \in NextDifficulty(headers, last) :
        headers' = Append(headers, Header(last.header.timestamp + gap, difficulty))
  BY DEF RetargetNext, Mine
<1>2. headers \in Seq(Headers) /\ Len(headers) \in Nat \ {0} /\ Len(headers) <= MaxHeight
      /\ MaxHeight \in Nat /\ Word32 \in Nat /\ gap \in Int
  BY RetargetAssumption, ConsensusAssumption DEF HeadersInv, RetargetNext
<1>3. last \in Headers
  BY <1>2 DEF last
<1>4. /\ headers'[Len(headers')] = Header(last.header.timestamp + gap, difficulty)
      /\ Len(headers') = Len(headers) + 1
  BY <1>1, <1>2
<1>5. after = difficulty
  BY <1>4 DEF after, Header
<1>6. difficulty \in 1..(Word32 - 1)
  <2>1. CASE blocks >= 1
    <3>1. difficulty \in Retargeted(last.header.difficulty, span % Word,
                              blocks * target_block_time_sec)
      BY <2>1, WindowStep
    <3>2. PICK total \in Nat : total = span % Word
      <4>1. oldest \in 1..Len(headers) /\ newest \in 1..Len(headers)
        BY <2>1, WindowStep, <1>2
      <4>2. headers[oldest] \in Headers /\ headers[newest] \in Headers
        BY <4>1, <1>2
      <4>3. span \in Int
        BY <4>2 DEF span, Headers
      <4>. QED BY <4>3, WordAssumption
    <3>3. PICK target \in Nat \ {0} : target = blocks * target_block_time_sec
      BY <2>1, WindowStep, ConsensusAssumption
    <3>4. PICK current \in Nat \ {0} : current = last.header.difficulty /\ current < Word32
      BY <1>2, <1>3 DEF Headers
    <3>5. 3 * current < 2 * Word32
      BY <1>2, <3>4 DEF InRange, last
    <3>6. difficulty \in Retargeted(current, total, target)
      BY <3>1, <3>2, <3>3, <3>4
    <3>7. \/ difficulty \in 1..(Word32 - 1) \/ difficulty = current
          \/ difficulty \in 1..(current - 1) \/ (difficulty = 1 /\ current = 1)
      BY <3>5, <3>6, RetargetAssumption, RetargetedBounds
    <3>. QED BY <3>4, <3>7, <1>2
  <2>2. CASE ~(blocks >= 1)
    BY <2>2, WindowStep, RetargetAssumption
  <2>. QED BY <2>1, <2>2
<1>7. Header(last.header.timestamp + gap, difficulty) \in Headers
  BY <1>2, <1>3, <1>6 DEF Header, Headers
<1>8. headers' \in Seq(Headers)
  BY <1>1, <1>2, <1>7
<1>. QED BY <1>1, <1>2, <1>4, <1>5, <1>6, <1>8 DEF HeadersInv

\* A step follows the pace: the gaps bound the span, and the span decides.
LEMMA PaceStep ==
    ASSUME HeadersInv, InRange, RetargetNext
    PROVE  FastStep /\ SlowStep /\ SteadyStep
<1>1. SUFFICES ASSUME Len(headers) >= 3
               PROVE  FastStep /\ SlowStep /\ SteadyStep
  BY DEF FastStep, SlowStep, SteadyStep, Recently
<1> DEFINE t == [i \in DOMAIN headers |-> headers[i].header.timestamp]
           gaps == oldest..(oldest + blocks - 1)
<1>2. /\ headers \in Seq(Headers) /\ Len(headers) \in Nat /\ Word \in Nat /\ Word32 \in Nat
      /\ Lookback \in Nat /\ target_block_time_sec \in Nat \ {0}
  BY WordAssumption, ConsensusAssumption DEF HeadersInv
<1>3. blocks >= 1 /\ blocks <= Lookback - 1
  BY <1>1, <1>2, RetargetAssumption DEF blocks
<1>4. /\ oldest \in 1..newest /\ newest < Len(headers) /\ newest = Len(headers) - 1
      /\ blocks \in Nat \ {0} /\ newest = oldest + blocks
      /\ after \in Retargeted(last.header.difficulty, span % Word, blocks * target_block_time_sec)
  BY <1>3, WindowStep, NextHeader DEF newest
<1>5. \A i \in gaps : i \in 1..(Len(headers) - 1) /\ i >= Len(headers) - Lookback
  BY <1>2, <1>3, <1>4
<1>6. \A i \in 1..Len(headers) : t[i] \in 0..(Word - 1)
  BY <1>2 DEF InRange
<1>7. /\ \A i \in oldest..(oldest + blocks) : t[i] \in Int
      /\ span = t[oldest + blocks] - t[oldest]
      /\ oldest \in Nat /\ blocks \in Nat
      /\ span \in Int /\ span < Word
  <2>1. oldest \in 1..Len(headers) /\ newest \in 1..Len(headers) /\ oldest \in Nat /\ blocks \in Nat
    BY <1>2, <1>4
  <2>2. span = t[newest] - t[oldest]
    BY <1>2, <2>1 DEF span
  <2>3. \A i \in oldest..(oldest + blocks) : i \in 1..Len(headers)
    BY <1>2, <1>4, <2>1
  <2> HIDE DEF t
  <2>4. t[newest] \in 0..(Word - 1) /\ t[oldest] \in 0..(Word - 1)
    BY <1>6, <2>1
  <2>5. \A i \in oldest..(oldest + blocks) : t[i] \in Int
    BY <1>6, <2>3
  <2>6. span \in Int /\ span < Word
    BY <1>2, <2>2, <2>4
  <2>7. span = t[oldest + blocks] - t[oldest]
    BY <1>4, <2>2
  <2>. QED BY <2>1, <2>5, <2>6, <2>7
<1>8. \A i \in gaps : t[i + 1] - t[i] = headers[i + 1].header.timestamp - headers[i].header.timestamp
                      /\ t[i + 1] - t[i] \in Int
  <2>1. SUFFICES ASSUME NEW i \in gaps
                 PROVE  /\ t[i + 1] - t[i] = headers[i + 1].header.timestamp - headers[i].header.timestamp
                        /\ t[i + 1] - t[i] \in Int
    OBVIOUS
  <2>2. i \in 1..Len(headers) /\ i + 1 \in 1..Len(headers)
    BY <1>2, <1>5
  <2>3. t[i + 1] \in Int /\ t[i] \in Int
    <3> HIDE DEF t
    <3>. QED BY <1>2, <1>6, <2>2
  <2>4. t[i + 1] = headers[i + 1].header.timestamp /\ t[i] = headers[i].header.timestamp
    BY <1>2, <2>2
  <2>. QED BY <2>3, <2>4
<1> HIDE DEF t
<1>9. PICK T \in Nat \ {0} : T = target_block_time_sec
  BY <1>2
<1>10. PICK n \in Nat \ {0} : n = blocks
  BY <1>4
<1>11. PICK total \in Nat : total = span % Word
  BY <1>7, WordAssumption
<1>12. PICK current \in Nat \ {0} : current = last.header.difficulty /\ 3 * current < 2 * Word32
  <2>1. last \in Headers
    BY <1>1, <1>2 DEF last
  <2>. QED BY <1>1, <1>2, <2>1 DEF InRange, last, Headers
<1>13. PICK target \in Nat \ {0} : target = n * T
  BY <1>9, <1>10
<1>14. after \in Retargeted(current, total, target)
  BY <1>4, <1>9, <1>10, <1>11, <1>12, <1>13
<1>15. /\ 10 * total < 8 * target =>
              after \in 1..(Word32 - 1) /\ after > current
              /\ (after = current + 1 \/ 2 * after <= 3 * current)
       /\ 10 * total >= 8 * target /\ 10 * total <= 12 * target => after = current
       /\ 10 * total > 12 * target => after \in 1..(current - 1) \/ (after = 1 /\ current = 1)
  BY <1>12, <1>14, RetargetAssumption, RetargetedBounds
<1>16. before = current
  BY <1>12 DEF before
<1>17. span >= 0 => total = span
  <2>1. PICK w \in Nat : w = Word
    BY <1>2
  <2>2. PICK s \in Int : s = span /\ s < w
    BY <1>7, <2>1
  <2>3. s >= 0 => s % w = s
    BY <2>2
  <2>. QED BY <1>11, <2>1, <2>2, <2>3
<1>18. ASSUME Recently(Fast) PROVE 10 * total < 8 * target
  <2>1. /\ \A i \in gaps : 10 * (t[i + 1] - t[i]) >= 0
        /\ \A i \in gaps : 10 * (t[i + 1] - t[i]) <= 8 * T - 1
    <3>1. \A i \in gaps : Fast(t[i + 1] - t[i])
      BY <1>5, <1>8, <1>18 DEF Recently
    <3>. QED BY <1>8, <1>9, <3>1 DEF Fast
  <2>2. 10 * span >= 0 * n
    BY <1>7, <1>10, <2>1, GapsBoundedBelow
  <2>3. 10 * span <= (8 * T - 1) * n
    <3>1. PICK hi \in Int : hi = 8 * T - 1
      OBVIOUS
    <3>2. 10 * span <= hi * n
      BY <1>7, <1>10, <2>1, <3>1, GapsBounded
    <3>. QED BY <3>1, <3>2
  <2>4. (8 * T - 1) * n = 8 * target - n
    BY <1>13
  <2>. QED BY <2>2, <2>3, <2>4, <1>17, <1>7
<1>19. ASSUME Recently(Slow) PROVE 10 * total > 12 * target
  <2>1. \A i \in gaps : 10 * (t[i + 1] - t[i]) >= 12 * T + 1
    <3>1. \A i \in gaps : Slow(t[i + 1] - t[i])
      BY <1>5, <1>8, <1>19 DEF Recently
    <3>. QED BY <1>8, <1>9, <3>1 DEF Slow
  <2>2. 10 * span >= (12 * T + 1) * n
    BY <1>7, <1>10, <2>1, GapsBoundedBelow
  <2>3. (12 * T + 1) * n = 12 * target + n
    BY <1>13
  <2>. QED BY <2>2, <2>3, <1>17, <1>7
<1>20. ASSUME Recently(Steady)
       PROVE  10 * total >= 8 * target /\ 10 * total <= 12 * target
  <2>1. /\ \A i \in gaps : 10 * (t[i + 1] - t[i]) >= 8 * T
        /\ \A i \in gaps : 10 * (t[i + 1] - t[i]) <= 12 * T
    <3>1. \A i \in gaps : Steady(t[i + 1] - t[i])
      BY <1>5, <1>8, <1>20 DEF Recently
    <3>. QED BY <1>8, <1>9, <3>1 DEF Steady, Slow
  <2>2. 10 * span >= (8 * T) * n
    BY <1>7, <1>10, <2>1, GapsBoundedBelow
  <2>3. 10 * span <= (12 * T) * n
    <3>1. PICK hi \in Int : hi = 12 * T
      OBVIOUS
    <3>2. 10 * span <= hi * n
      BY <1>7, <1>10, <2>1, <3>1, GapsBounded
    <3>. QED BY <3>1, <3>2
  <2>4. (8 * T) * n = 8 * target /\ (12 * T) * n = 12 * target
    BY <1>13
  <2>. QED BY <2>2, <2>3, <2>4, <1>17, <1>7
<1>21. FastStep
  BY <1>15, <1>16, <1>18 DEF FastStep
<1>22. SlowStep
  BY <1>15, <1>16, <1>19 DEF SlowStep
<1>23. SteadyStep
  BY <1>15, <1>16, <1>20 DEF SteadyStep
<1>. QED BY <1>21, <1>22, <1>23

-----------------------------------------------------------------------------
(* The theorems.                                                           *)

\* The inductive invariant of a chain whose numbers stay in range.
THEOREM HeadersInvariant == RetargetSpec /\ []InRange => []HeadersInv
<1>1. HeadersInv /\ InRange /\ [RetargetNext]_headers => HeadersInv'
  <2>1. ASSUME HeadersInv, UNCHANGED headers PROVE HeadersInv'
    BY <2>1 DEF HeadersInv
  <2>. QED BY <2>1, NextHeader
<1>. QED BY <1>1, InitHolds, PTL DEF RetargetSpec

\* Type invariant.  Whatever the gaps, also negative ones, and however far the
\* span of the time stamps wraps, the difficulty is at least 1 and fits a
\* uint32_t: calculate_difficulty (consensus.cpp:69).
THEOREM FloorKept == RetargetSpec /\ []InRange => []RetargetTypeOK
<1>1. HeadersInv => RetargetTypeOK
  <2>1. SUFFICES ASSUME HeadersInv PROVE RetargetTypeOK
    OBVIOUS
  <2>2. \A i \in DOMAIN headers : headers[i] \in Headers
    BY <2>1 DEF HeadersInv
  <2>. QED BY <2>1, <2>2 DEF HeadersInv, RetargetTypeOK, Headers
<1>. QED BY <1>1, HeadersInvariant, PTL

\* Blocks that come too fast raise the difficulty, by at most one half or by 1,
\* blocks that come too slowly lower it, and blocks on target leave it: for any
\* gaps of that pace, whatever there was before them.
THEOREM PaceFollowed == RetargetSpec /\ []InRange => FollowsPace
<1>1. HeadersInv /\ InRange /\ [RetargetNext]_headers
        => [FastStep /\ SlowStep /\ SteadyStep]_headers
  BY PaceStep
<1>. QED BY <1>1, HeadersInvariant, PTL DEF RetargetSpec, FollowsPace

\* The lemmas about chains, for the folds and sums that both modules define
\* alike: the variables of the instance play no part in them.
ChainP == INSTANCE BlockchainProofs WITH
    Offers <- {}, GenesisTimes <- {}, utxo_set <- <<>>, hash_index <- <<>>,
    applied <- 0, file <- <<>>

-----------------------------------------------------------------------------
(* The UTXO set of a chain is a fold over its blocks, last block first.    *)
(* As with the sums of BlockchainProofs, that the recursion has a solution *)
(* is proved by looking at a smallest set where it would not.              *)

\* The UTXO set of chain c.
Folded(c) == FoldLeft(ChainOps!apply_block_to_utxo_set, ChainOps!EmptyMap, c)

\* The equation of the recursion at a set s of positions of c.
FoldEquation(g, c, s) ==
    g[s] = IF s = {} THEN ChainOps!EmptyMap
           ELSE ChainOps!apply_block_to_utxo_set(g[s \ {Max(s)}], c[Max(s)])

\* g is a solution on the subsets of S.
Folds(g, c, S) ==
    g = [s \in SUBSET S |->
           IF s = {} THEN ChainOps!EmptyMap
           ELSE ChainOps!apply_block_to_utxo_set(g[s \ {Max(s)}], c[Max(s)])]

\* The UTXO set is the value of a function that recurses down to no blocks.
LEMMA FoldUnfolds ==
    ASSUME NEW c
    PROVE  Folded(c) = (CHOOSE g : Folds(g, c, DOMAIN c))[DOMAIN c]
  BY Zenon DEF Folded, FoldLeft, MapThenFoldSet, Folds

\* A set of positions has a last one.
LEMMA MaxIn ==
    ASSUME NEW n \in Nat, NEW s \in SUBSET (1..n), s # {}
    PROVE  Max(s) \in s /\ \A y \in s : Max(s) >= y
<1>. DEFINE D == {n - x : x \in s}
<1>1. D \in SUBSET Nat /\ D # {}
  <2>1. \A x \in s : n - x \in Nat
    OBVIOUS
  <2>. QED BY <2>1
<1>2. PICK z \in D : \A y \in D : z <= y
  BY <1>1, LeastExists
<1>3. PICK x \in s : z = n - x
  BY <1>2
<1>4. \A y \in s : x >= y
  <2>1. SUFFICES ASSUME NEW y \in s PROVE x >= y
    OBVIOUS
  <2>2. n - y \in D /\ x \in Int /\ y \in Int
    OBVIOUS
  <2>. QED BY <1>2, <1>3, <2>2
<1>. QED BY <1>4 DEF Max

\* The last position of a beginning.
LEMMA MaxOfInterval ==
    ASSUME NEW n \in Nat
    PROVE  /\ 1..(n + 1) # {} /\ Max(1..(n + 1)) = n + 1
           /\ (1..(n + 1)) \ {n + 1} = 1..n
<1>1. 1..(n + 1) # {} /\ 1..(n + 1) \in SUBSET (1..(n + 1)) /\ n + 1 \in Nat
  OBVIOUS
<1>2. Max(1..(n + 1)) \in 1..(n + 1) /\ \A y \in 1..(n + 1) : Max(1..(n + 1)) >= y
  BY <1>1, MaxIn
<1>3. (1..(n + 1)) \ {n + 1} = 1..n
  OBVIOUS
<1>4. Max(1..(n + 1)) = n + 1
  BY <1>2
<1>. QED BY <1>1, <1>3, <1>4

\* A solution on the sets of positions up to m.
FoldsTo(g, c, m) ==
    /\ g = [s \in SUBSET (1..m) |-> g[s]]
    /\ \A s \in SUBSET (1..m) : FoldEquation(g, c, s)

\* A solution extends to one more position.
LEMMA FoldExtends ==
    ASSUME NEW c, NEW m \in Nat, NEW g, FoldsTo(g, c, m)
    PROVE  \E h : FoldsTo(h, c, m + 1)
<1>. DEFINE S == SUBSET (1..m)
            T == SUBSET (1..(m + 1))
            h == [s \in T |-> IF s \in S THEN g[s]
                              ELSE ChainOps!apply_block_to_utxo_set(g[s \ {m + 1}], c[m + 1])]
<1>1. S \subseteq T
  OBVIOUS
<1>2. ASSUME NEW s \in S PROVE h[s] = g[s]
  BY <1>1
<1>3. ASSUME NEW s \in T PROVE FoldEquation(h, c, s)
  <2>1. CASE s \in S
    <3>1. FoldEquation(g, c, s)
      BY <2>1 DEF FoldsTo
    <3>2. s \ {Max(s)} \in S
      BY <2>1
    <3>3. h[s \ {Max(s)}] = g[s \ {Max(s)}] /\ h[s] = g[s]
      BY <1>2, <2>1, <3>2
    <3>. HIDE DEF h
    <3>. QED BY <3>1, <3>3 DEF FoldEquation
  <2>2. CASE s \notin S
    <3>1. m + 1 \in s
      BY <2>2
    <3>2. s # {} /\ Max(s) = m + 1
      <4>1. Max(s) \in s /\ Max(s) >= m + 1
        BY <3>1, MaxIn
      <4>2. Max(s) \in 1..(m + 1)
        BY <4>1
      <4>. QED BY <3>1, <4>1, <4>2
    <3>3. s \ {m + 1} \in S
      OBVIOUS
    <3>4. h[s] = ChainOps!apply_block_to_utxo_set(g[s \ {m + 1}], c[m + 1])
      BY <2>2
    <3>5. h[s \ {m + 1}] = g[s \ {m + 1}]
      BY <1>2, <3>3
    <3>. HIDE DEF h
    <3>. QED BY <3>2, <3>4, <3>5 DEF FoldEquation
  <2>. QED BY <2>1, <2>2
<1>4. h = [s \in T |-> h[s]]
  OBVIOUS
<1>. HIDE DEF h
<1>. QED BY <1>3, <1>4 DEF FoldsTo

\* There is one for every length.
LEMMA FoldExists ==
    ASSUME NEW c, NEW n \in Nat
    PROVE  \E g : FoldsTo(g, c, n)
<1>. DEFINE B == {m \in Nat : ~\E g : FoldsTo(g, c, m)}
<1>1. SUFFICES ASSUME B # {} PROVE FALSE
  OBVIOUS
<1>2. B \in SUBSET Nat
  OBVIOUS
<1>. HIDE DEF B
<1>3. PICK m \in B : \A y \in B : m <= y
  BY <1>1, <1>2, LeastExists
<1>4. m # 0
  <2>. DEFINE z == [s \in SUBSET (1..0) |-> ChainOps!EmptyMap]
  <2>1. \A s \in SUBSET (1..0) : s = {}
    OBVIOUS
  <2>2. FoldsTo(z, c, 0)
    BY <2>1 DEF FoldsTo, FoldEquation
  <2>. QED BY <1>3, <2>2 DEF B
<1>5. m - 1 \in Nat /\ m - 1 \notin B /\ m \in Nat
  BY <1>2, <1>3, <1>4
<1>6. PICK g : FoldsTo(g, c, m - 1)
  BY <1>5 DEF B
<1>7. \E h : FoldsTo(h, c, (m - 1) + 1)
  BY <1>5, <1>6, FoldExtends
<1>. QED BY <1>3, <1>5, <1>7 DEF B

\* The UTXO set is the value of a solution.
LEMMA FoldValue ==
    ASSUME NEW c, NEW n \in Nat, DOMAIN c = 1..n
    PROVE  \E g : Folds(g, c, 1..n) /\ Folded(c) = g[1..n]
<1>1. PICK g : FoldsTo(g, c, n)
  BY FoldExists
<1>2. Folds(g, c, 1..n)
  BY <1>1 DEF FoldsTo, Folds, FoldEquation
<1>. DEFINE h == CHOOSE h : Folds(h, c, 1..n)
<1>3. Folds(h, c, 1..n)
  BY <1>2
<1>4. Folded(c) = h[1..n]
  BY FoldUnfolds
<1>. QED BY <1>3, <1>4

\* The value of a solution at positions that are not none.
LEMMA FoldAt ==
    ASSUME NEW g, NEW c, NEW S, Folds(g, c, S), NEW s \in SUBSET S, s # {}
    PROVE  g[s] = ChainOps!apply_block_to_utxo_set(g[s \ {Max(s)}], c[Max(s)])
  BY DEF Folds

\* Solutions for chains that begin alike agree on the beginning.
LEMMA FoldUnique ==
    ASSUME NEW c, NEW d, NEW n \in Nat, NEW m \in Nat, m <= n,
           \A i \in 1..m : d[i] = c[i],
           NEW g, Folds(g, c, 1..m), NEW h, Folds(h, d, 1..n)
    PROVE  g[1..m] = h[1..m]
<1>. DEFINE B == {i \in 0..m : g[1..i] # h[1..i]}
<1>1. SUFFICES ASSUME B # {} PROVE FALSE
  OBVIOUS
<1>2. B \in SUBSET Nat
  OBVIOUS
<1>. HIDE DEF B
<1>3. PICK i \in B : \A y \in B : i <= y
  BY <1>1, <1>2, LeastExists
<1>4. i \in 0..m /\ g[1..i] # h[1..i]
  BY <1>3 DEF B
<1>5. ASSUME NEW j \in 0..m PROVE 1..j \in SUBSET (1..m) /\ 1..j \in SUBSET (1..n)
  OBVIOUS
<1>6. i # 0
  <2>1. 1..0 = {}
    OBVIOUS
  <2>2. 1..0 \in SUBSET (1..m) /\ 1..0 \in SUBSET (1..n)
    OBVIOUS
  <2>. QED BY <1>4, <2>1, <2>2 DEF Folds
<1>7. PICK k \in Nat : i = k + 1
  <2>1. i - 1 \in Nat /\ i = (i - 1) + 1
    BY <1>4, <1>6
  <2>. QED BY <2>1
<1>8. k \in 0..m /\ k \notin B /\ i \in 1..m
  BY <1>3, <1>4, <1>7
<1>9. g[1..k] = h[1..k]
  BY <1>8 DEF B
<1>10. 1..i # {} /\ Max(1..i) = i /\ (1..i) \ {i} = 1..k
  BY <1>7, MaxOfInterval
<1>11. 1..i \in SUBSET (1..m) /\ 1..i \in SUBSET (1..n)
  BY <1>4, <1>5
<1>12. g[1..i] = ChainOps!apply_block_to_utxo_set(g[1..k], c[i])
  <2>1. g[1..i] = ChainOps!apply_block_to_utxo_set(g[(1..i) \ {Max(1..i)}], c[Max(1..i)])
    <3>1. PICK s, S : s = 1..i /\ S = 1..m
      OBVIOUS
    <3>2. Folds(g, c, S) /\ s \in SUBSET S /\ s # {}
      BY <1>10, <1>11, <3>1, Zenon
    <3>3. g[s] = ChainOps!apply_block_to_utxo_set(g[s \ {Max(s)}], c[Max(s)])
      BY ONLY <3>2, FoldAt
    <3>. QED BY <3>1, <3>3, Zenon
  <2>. QED BY <1>10, <2>1, Zenon
<1>13. h[1..i] = ChainOps!apply_block_to_utxo_set(h[1..k], d[i])
  <2>1. h[1..i] = ChainOps!apply_block_to_utxo_set(h[(1..i) \ {Max(1..i)}], d[Max(1..i)])
    <3>1. PICK s, S : s = 1..i /\ S = 1..n
      OBVIOUS
    <3>2. Folds(h, d, S) /\ s \in SUBSET S /\ s # {}
      BY <1>10, <1>11, <3>1, Zenon
    <3>3. h[s] = ChainOps!apply_block_to_utxo_set(h[s \ {Max(s)}], d[Max(s)])
      BY ONLY <3>2, FoldAt
    <3>. QED BY <3>1, <3>3, Zenon
  <2>. QED BY <1>10, <2>1, Zenon
<1>. QED BY <1>4, <1>8, <1>9, <1>12, <1>13

\* One more block is applied to the UTXO set.
LEMMA FoldNext ==
    ASSUME NEW c, NEW d, NEW n \in Nat, DOMAIN c = 1..n, DOMAIN d = 1..(n + 1),
           \A i \in 1..n : d[i] = c[i]
    PROVE  Folded(d) = ChainOps!apply_block_to_utxo_set(Folded(c), d[n + 1])
<1>1. PICK g : Folds(g, c, 1..n) /\ Folded(c) = g[1..n]
  BY FoldValue
<1>2. n + 1 \in Nat
  OBVIOUS
<1>3. PICK h : Folds(h, d, 1..(n + 1)) /\ Folded(d) = h[1..(n + 1)]
  BY <1>2, FoldValue
<1>4. g[1..n] = h[1..n]
  BY <1>1, <1>2, <1>3, FoldUnique
<1>5. 1..(n + 1) # {} /\ Max(1..(n + 1)) = n + 1 /\ (1..(n + 1)) \ {n + 1} = 1..n
  BY MaxOfInterval
<1>6. h[1..(n + 1)] = ChainOps!apply_block_to_utxo_set(h[1..n], d[n + 1])
  BY <1>3, <1>5 DEF Folds
<1>. QED BY <1>1, <1>3, <1>4, <1>6

\* A chain with one block.
LEMMA FoldFirst ==
    ASSUME NEW d, DOMAIN d = 1..1
    PROVE  Folded(d) = ChainOps!apply_block_to_utxo_set(ChainOps!EmptyMap, d[1])
<1>1. PICK h : Folds(h, d, 1..1) /\ Folded(d) = h[1..1]
  BY FoldValue
<1>2. 1..1 # {} /\ Max(1..1) = 1 /\ (1..1) \ {1} = {}
  <2>1. 1..1 \in SUBSET (1..1) /\ 1..1 # {} /\ 1 \in Nat
    OBVIOUS
  <2>2. Max(1..1) \in 1..1
    BY <2>1, MaxIn
  <2>. QED BY <2>2
<1>3. h[1..1] = ChainOps!apply_block_to_utxo_set(h[{}], d[1])
  BY <1>1, <1>2 DEF Folds
<1>4. h[{}] = ChainOps!EmptyMap
  BY <1>1 DEF Folds
<1>. QED BY <1>1, <1>3, <1>4

\* The sums of BlockchainProofs are those of the wallet.
LEMMA SameSums ==
    ASSUME NEW f, NEW S
    PROVE  ChainP!SumFunctionOnSet(f, S) = SumFunctionOnSet(f, S)
  BY DEF ChainP!SumFunctionOnSet, ChainP!FoldFunctionOnSet, ChainP!MapThenFoldSet,
         SumFunctionOnSet, FoldFunctionOnSet, MapThenFoldSet

\* So are its finite sets.
LEMMA SameFinite == \A S : ChainP!IsFiniteSet(S) <=> IsFiniteSet(S)
  BY DEF ChainP!IsFiniteSet, IsFiniteSet

-----------------------------------------------------------------------------
(* The UTXO set of a chain of hashed transactions.                         *)

\* A transaction whose hash is its own and whose amounts are numbers.
HashedTx(t) ==
    /\ t.hash = tx_calculate_hash(t)
    /\ Len(t.inputs) \in Nat /\ DOMAIN t.inputs = 1..Len(t.inputs)
    /\ Len(t.outputs) \in Nat /\ DOMAIN t.outputs = 1..Len(t.outputs)
    /\ \A i \in DOMAIN t.outputs : t.outputs[i].amount \in Nat

\* A block of such transactions.
HashedBlock(b) ==
    /\ Len(b.transactions) \in Nat
    /\ DOMAIN b.transactions = 1..Len(b.transactions)
    /\ \A i \in DOMAIN b.transactions : HashedTx(b.transactions[i])

\* What is stored under key k: the output that is in the hash k names.
Stored(k) ==
    LET out == k.tx_id.sha256d.outputs[k.output_index + 1]
    IN  [tx_id |-> k.tx_id, output_index |-> k.output_index,
         address |-> out.address, amount |-> out.amount]

\* k is the key of an output of a transaction with a hash.
HashedKey(k) ==
    /\ k = utxo_key(k.tx_id, k.output_index)
    /\ k.tx_id = double_sha256(k.tx_id.sha256d)

\* A set that has stored what the hashes say.
HashedUtxos(u) ==
    /\ IsFiniteSet(DOMAIN u)
    /\ \A k \in DOMAIN u : HashedKey(k) /\ u[k] = Stored(k) /\ u[k].amount \in Nat

\* The keys of the chain's module are those of the wallet.
LEMMA SameKeys ==
    /\ \A t : ChainOps!OutputKeys(t) = OutputKeys(t)
    /\ \A t : ChainOps!InputKeys(t) = InputKeys(t)
  BY DEF ChainOps!OutputKeys, OutputKeys, ChainOps!InputKeys, InputKeys,
         ChainOps!utxo_key, utxo_key

\* The image of a finite set is finite.
LEMMA ImageFinite ==
    ASSUME NEW S, IsFiniteSet(S), NEW e
    PROVE  IsFiniteSet({e[i] : i \in S})
<1>. DEFINE T == {e[i] : i \in S}
            g == [i \in S |-> e[i]]
<1>1. g \in Surjection(S, T)
  BY DEF Surjection
<1>. QED BY <1>1, FS_Surjection

\* A transaction creates finitely many outputs.
LEMMA OutputKeysFinite ==
    ASSUME NEW t, HashedTx(t)
    PROVE  IsFiniteSet(OutputKeys(t))
<1>. DEFINE e == [i \in DOMAIN t.outputs |-> utxo_key(t.hash, i - 1)]
<1>1. IsFiniteSet(DOMAIN t.outputs)
  BY FS_Interval DEF HashedTx
<1>2. IsFiniteSet({e[i] : i \in DOMAIN t.outputs})
  BY <1>1, ImageFinite
<1>3. OutputKeys(t) = {e[i] : i \in DOMAIN t.outputs}
  BY DEF OutputKeys
<1>. QED BY <1>2, <1>3

\* What is stored under a created key.
LEMMA CreatedStored ==
    ASSUME NEW b, HashedBlock(b), NEW k \in ChainOps!Creates(b)
    PROVE  /\ HashedKey(k)
           /\ ChainOps!UtxoOf(b, k) = Stored(k)
           /\ Stored(k).amount \in Nat
<1>. DEFINE t == CHOOSE t \in ChainOps!BlockTxs(b) : k \in OutputKeys(t)
<1>1. t \in ChainOps!BlockTxs(b) /\ k \in OutputKeys(t)
  BY DEF ChainOps!Creates, ChainOps!OutputKeys, OutputKeys, ChainOps!utxo_key, utxo_key
<1>2. ChainOps!UtxoOf(b, k) =
        [tx_id |-> k.tx_id, output_index |-> k.output_index,
         address |-> t.outputs[k.output_index + 1].address,
         amount |-> t.outputs[k.output_index + 1].amount]
  BY DEF ChainOps!UtxoOf, ChainOps!OutputKeys, OutputKeys, ChainOps!utxo_key, utxo_key
<1>. HIDE DEF t
<1>3. HashedTx(t)
  BY <1>1 DEF HashedBlock, ChainOps!BlockTxs
<1>4. PICK i \in DOMAIN t.outputs : k = utxo_key(t.hash, i - 1)
  BY <1>1 DEF OutputKeys
<1>5. k = [tx_id |-> t.hash, output_index |-> i - 1] /\ i \in Nat
  BY <1>3, <1>4 DEF HashedTx, utxo_key
<1>6. t.hash = [sha256d |-> tx_serialize(t)] /\ tx_serialize(t).outputs = t.outputs
  BY <1>3 DEF HashedTx, tx_calculate_hash, double_sha256, tx_serialize
<1>7. k.output_index + 1 = i /\ k.tx_id.sha256d.outputs = t.outputs
  BY <1>5, <1>6
<1>8. t.outputs[i].amount \in Nat
  BY <1>3 DEF HashedTx
<1>9. HashedKey(k)
  BY <1>5, <1>6 DEF HashedKey, utxo_key, double_sha256
<1>. QED BY <1>2, <1>7, <1>8, <1>9 DEF Stored

\* A block creates finitely many outputs.
LEMMA CreatesFinite ==
    ASSUME NEW b, HashedBlock(b)
    PROVE  IsFiniteSet(ChainOps!Creates(b))
<1>. DEFINE I == DOMAIN b.transactions
            S == [i \in I |-> OutputKeys(b.transactions[i])]
            f == [x \in UNION {S[i] : i \in I} |-> 0]
<1>1. IsFiniteSet(I)
  BY FS_Interval DEF HashedBlock
<1>2. \A i \in I : IsFiniteSet(S[i])
  BY OutputKeysFinite DEF HashedBlock
<1>. DEFINE B == {s \in SUBSET I : IsFiniteSet(UNION {S[i] : i \in s})}
<1>3. {} \in B
  <2>1. UNION {S[i] : i \in {}} = {}
    OBVIOUS
  <2>. QED BY <2>1, FS_EmptySet
<1>4. ASSUME NEW s \in B, NEW x \in I \ s PROVE s \cup {x} \in B
  <2>1. UNION {S[i] : i \in s \cup {x}} = (UNION {S[i] : i \in s}) \cup S[x]
    OBVIOUS
  <2>2. IsFiniteSet(UNION {S[i] : i \in s \cup {x}})
    <3>1. IsFiniteSet(UNION {S[i] : i \in s}) /\ IsFiniteSet(S[x])
      BY <1>2
    <3>. HIDE DEF S, I, B
    <3>2. IsFiniteSet((UNION {S[i] : i \in s}) \cup S[x])
      BY ONLY <3>1, FS_Union
    <3>. QED BY ONLY <2>1, <3>2, Zenon
  <2>. QED BY <2>2
<1>5. B \in SUBSET (SUBSET I)
  OBVIOUS
<1>6. ChainOps!Creates(b) = UNION {S[i] : i \in I}
  <2>1. \A x : x \in ChainOps!Creates(b)
                <=> \E i \in I : x \in OutputKeys(b.transactions[i])
    BY SameKeys DEF ChainOps!Creates, ChainOps!BlockTxs
  <2>2. \A x : x \in UNION {S[i] : i \in I}
                <=> \E i \in I : x \in OutputKeys(b.transactions[i])
    OBVIOUS
  <2>. HIDE DEF S, I
  <2>. QED BY <2>1, <2>2
<1>7. I \in B => IsFiniteSet(UNION {S[i] : i \in I})
  OBVIOUS
<1>. HIDE DEF B, S, I
<1>8. \A s \in SUBSET I : s \in B
  BY <1>1, <1>3, <1>4, <1>5, WordAssumption, ChainP!SubsetInduction, SameFinite
<1>. QED BY <1>6, <1>7, <1>8

\* A block keeps the set as it should be.
LEMMA AppliedHashed ==
    ASSUME NEW u, HashedUtxos(u), NEW b, HashedBlock(b)
    PROVE  HashedUtxos(ChainOps!apply_block_to_utxo_set(u, b))
<1>. DEFINE v == ChainOps!apply_block_to_utxo_set(u, b)
<1>1. DOMAIN v = (DOMAIN u \ ChainOps!Spends(b)) \cup ChainOps!Creates(b)
  BY DEF ChainOps!apply_block_to_utxo_set
<1>2. IsFiniteSet(DOMAIN v)
  <2>1. IsFiniteSet(DOMAIN u \ ChainOps!Spends(b))
    BY FS_Difference DEF HashedUtxos
  <2>. QED BY <1>1, <2>1, CreatesFinite, FS_Union
<1>3. ASSUME NEW k \in DOMAIN v
      PROVE  HashedKey(k) /\ v[k] = Stored(k) /\ v[k].amount \in Nat
  <2>1. CASE k \in ChainOps!Creates(b)
    <3>1. v[k] = ChainOps!UtxoOf(b, k)
      BY <2>1 DEF ChainOps!apply_block_to_utxo_set
    <3>. HIDE DEF v
    <3>. QED BY <2>1, <3>1, CreatedStored
  <2>2. CASE k \notin ChainOps!Creates(b)
    <3>1. k \in DOMAIN u /\ v[k] = u[k]
      BY <1>1, <2>2 DEF ChainOps!apply_block_to_utxo_set
    <3>. HIDE DEF v
    <3>. QED BY <3>1 DEF HashedUtxos
  <2>. QED BY <2>1, <2>2
<1>. HIDE DEF v
<1>4. HashedUtxos(v)
  BY <1>2, <1>3 DEF HashedUtxos
<1>. QED BY <1>4 DEF v

\* The key of a stored output is what its entry names.
LEMMA EntryKey ==
    ASSUME NEW u, HashedUtxos(u), NEW k \in DOMAIN u
    PROVE  utxo_key(u[k].tx_id, u[k].output_index) = k
  BY DEF HashedUtxos, HashedKey, Stored

-----------------------------------------------------------------------------
(* Blocks that are mined.                                                  *)

\* A coinbase has the hash it should.
LEMMA CoinbaseHashed ==
    ASSUME NEW address, NEW amount \in Nat, NEW time
    PROVE  HashedTx(coinbase_transaction(address, amount, time))
<1>. DEFINE inputs   == <<[tx_id        |-> null_hash,
                           output_index |-> 0,
                           signature    |-> Text("coinbase"),
                           public_key   |-> Text("coinbase")]>>
            outputs  == <<[address |-> address, amount |-> amount]>>
            unhashed == [timestamp |-> time, fee |-> 0, inputs |-> inputs,
                         outputs |-> outputs, hash |-> Text("")]
            h        == tx_calculate_hash(unhashed)
            t        == coinbase_transaction(address, amount, time)
<1>1. t = [timestamp |-> time, fee |-> 0, inputs |-> inputs, outputs |-> outputs,
           hash |-> h]
  <2>1. t = [unhashed EXCEPT !.hash = h]
    BY DEF coinbase_transaction
  <2>. HIDE DEF inputs, outputs, h, t
  <2>. QED BY <2>1
<1>2. /\ Len(inputs) = 1 /\ DOMAIN inputs = 1..1
      /\ Len(outputs) = 1 /\ DOMAIN outputs = 1..1 /\ outputs[1].amount = amount
  OBVIOUS
<1>. HIDE DEF inputs, outputs, t
<1>3. tx_serialize(t) = tx_serialize(unhashed)
  BY <1>1 DEF tx_serialize
<1>4. t.inputs = inputs /\ t.outputs = outputs /\ t.hash = h
  BY <1>1
<1>5. t.hash = tx_calculate_hash(t)
  BY <1>3, <1>4 DEF tx_calculate_hash
<1>6. /\ \A i \in DOMAIN outputs : outputs[i].amount \in Nat
      /\ DOMAIN inputs = 1..Len(inputs) /\ DOMAIN outputs = 1..Len(outputs)
      /\ Len(inputs) \in Nat /\ Len(outputs) \in Nat
  BY <1>2
<1>. HIDE DEF h
<1>7. HashedTx(t)
  BY <1>2, <1>4, <1>5, <1>6 DEF HashedTx
<1>. QED BY <1>7 DEF t

\* Fees are numbers.
LEMMA FeesAreNumbers ==
    ASSUME NEW txs, NEW n \in Nat, DOMAIN txs = 1..n, \A i \in DOMAIN txs : txs[i].fee \in Int
    PROVE  SumFunction([i \in DOMAIN txs |-> txs[i].fee]) \in Int
<1>. DEFINE f == [i \in DOMAIN txs |-> txs[i].fee]
<1>1. IsFiniteSet(DOMAIN txs) /\ \A i \in DOMAIN txs : f[i] \in Int
  BY FS_Interval
<1>2. DOMAIN f = DOMAIN txs
  OBVIOUS
<1>. HIDE DEF f
<1>3. SumFunctionOnSet(f, DOMAIN txs) \in Int
  BY <1>1, WordAssumption, ChainP!SumInt, SameSums, SameFinite
<1>4. SumFunction(f) \in Int
  BY <1>2, <1>3 DEF SumFunction
<1>. QED BY <1>4 DEF f

\* The block that a miner makes of hashed transactions is a block of them.
LEMMA MinedHashed ==
    ASSUME NEW previous, NEW address, NEW time,
           NEW T, \A t \in T : HashedTx(t) /\ t.fee \in Nat, NEW txs \in Seq(T)
    PROVE  HashedBlock(mine_block(previous, txs, address, 1, Reward, time))
<1>. DEFINE b == mine_block(previous, txs, address, 1, Reward, time)
            fees == SumFunction([i \in DOMAIN txs |-> txs[i].fee])
            cb == coinbase_transaction(address, (Reward + fees) % Word, time)
            all == <<cb>> \o txs
<1>1. /\ Len(txs) \in Nat /\ DOMAIN txs = 1..Len(txs)
      /\ \A i \in DOMAIN txs : txs[i] \in T
  OBVIOUS
<1>2. fees \in Int
  BY <1>1, FeesAreNumbers
<1>3. (Reward + fees) % Word \in Nat
  <2>. HIDE DEF fees
  <2>. QED BY <1>2, WordAssumption, WalletAssumption
<1>4. HashedTx(cb)
  BY <1>3, CoinbaseHashed
<1>5. b.transactions = all
  BY DEF mine_block, Sealed
<1>. HIDE DEF b, cb
<1>6. /\ Len(all) = 1 + Len(txs) /\ DOMAIN all = 1..Len(all) /\ all[1] = cb
      /\ \A i \in 2..Len(all) : all[i] = txs[i - 1] /\ i - 1 \in DOMAIN txs
  OBVIOUS
<1>. HIDE DEF all
<1>7. ASSUME NEW i \in DOMAIN all PROVE HashedTx(all[i])
  <2>1. i = 1 \/ i \in 2..Len(all)
    BY <1>1, <1>6
  <2>. QED BY <1>1, <1>4, <1>6, <2>1
<1>8. HashedBlock(b)
  BY <1>1, <1>5, <1>6, <1>7 DEF HashedBlock
<1>. QED BY <1>8 DEF b

-----------------------------------------------------------------------------
(* A payment that is made.                                                 *)

\* What the first n of the UTXOs bring.
Total(order, n) == SumFunction([i \in 1..n |-> order[i].amount]) % Word

\* The inputs of a payment by k that takes the first n of the UTXOs.
SignedInputs(tx, k, order, n) ==
    [i \in 1..n |->
        [tx_id        |-> order[i].tx_id,
         output_index |-> order[i].output_index,
         signature    |-> sign(k, tx_serialize(tx)),
         public_key   |-> get_public_key_hex(k)]]

\* Numbers up to a number.
LEMMA UpTo == \A m \in Nat : 0..m \subseteq Nat
  OBVIOUS

\* An input that is signed again.
LEMMA Resign ==
    ASSUME NEW r, NEW a, NEW b, NEW c, NEW d, NEW s,
           r = [tx_id |-> a, output_index |-> b, signature |-> c, public_key |-> d]
    PROVE  [r EXCEPT !.signature = s]
             = [tx_id |-> a, output_index |-> b, signature |-> s, public_key |-> d]
  OBVIOUS

\* The transaction of a payment of amount by k, out of the first n of the
\* UTXOs: they cover it, the rest is returned, and it is signed as it stands.
Paying(tx, k, to, amount, fee, order, n) ==
    LET needed == (amount + fee) % Word
    IN  /\ Total(order, n) >= needed
        /\ tx.fee = fee
        /\ tx.outputs = <<[address |-> to, amount |-> amount]>>
                          \o change_outputs(k, Total(order, n) - needed)
        /\ tx.inputs = SignedInputs(tx, k, order, n)
        /\ tx.hash = tx_calculate_hash(tx)

\* A transaction that create_transaction gives a hash is of this kind.
LEMMA CreatedPays ==
    ASSUME NEW k, NEW to, NEW amount \in Nat, NEW fee \in Nat, NEW order, NEW time,
           Len(order) \in Nat,
           create_transaction(k, to, amount, fee, order, time).hash # Text("")
    PROVE  \E n \in 0..Len(order) :
             Paying(create_transaction(k, to, amount, fee, order, time),
                    k, to, amount, fee, order, n)
<1>. DEFINE tx       == create_transaction(k, to, amount, fee, order, time)
            needed   == (amount + fee) % Word
            covering == {n \in 0..Len(order) : Total(order, n) >= needed}
            taken    == IF covering = {} THEN Len(order) ELSE Min(covering)
            outputs  == IF covering = {} THEN <<>>
                        ELSE <<[address |-> to, amount |-> amount]>>
                               \o change_outputs(k, Total(order, taken) - needed)
            unsigned ==
                [timestamp |-> time,
                 fee       |-> fee,
                 inputs    |-> [i \in 1..taken |->
                                  [tx_id        |-> order[i].tx_id,
                                   output_index |-> order[i].output_index,
                                   signature    |-> Text(""),
                                   public_key   |-> get_public_key_hex(k)]],
                 outputs   |-> outputs,
                 hash      |-> Text("")]
            signed   ==
                [unsigned EXCEPT !.inputs =
                   [i \in 1..taken |->
                      [unsigned.inputs[i] EXCEPT
                         !.signature = sign(k, tx_serialize(unsigned))]]]
<1>1. tx = IF covering = {} THEN unsigned
           ELSE [signed EXCEPT !.hash = tx_calculate_hash(signed)]
  BY DEF create_transaction, Total
<1>2. covering # {}
  <2>1. covering = {} => tx.hash = Text("")
    <3>. HIDE DEF covering, taken, outputs, tx
    <3>. QED BY <1>1
  <2>. QED BY <2>1
<1>3. taken \in covering
  <2>1. covering \in SUBSET Nat
    <3>1. covering \subseteq 0..Len(order)
      BY Zenon
    <3>. QED BY ONLY <3>1, UpTo, Len(order) \in Nat, Zenon
  <2>. HIDE DEF covering
  <2>. QED BY <1>2, <2>1, LeastExists DEF Min
<1>4. taken \in 0..Len(order) /\ Total(order, taken) >= needed
  BY <1>3
<1>5. outputs = <<[address |-> to, amount |-> amount]>>
                  \o change_outputs(k, Total(order, taken) - needed)
  BY <1>2
<1>6. tx = [signed EXCEPT !.hash = tx_calculate_hash(signed)]
  BY <1>1, <1>2
<1>. HIDE DEF covering, taken, outputs, tx
<1>7. signed = [timestamp |-> time, fee |-> fee,
                inputs |-> SignedInputs(unsigned, k, order, taken),
                outputs |-> outputs, hash |-> Text("")]
  <2>. DEFINE s == sign(k, tx_serialize(unsigned))
              blank == unsigned.inputs
              resigned == [i \in 1..taken |-> [blank[i] EXCEPT !.signature = s]]
  <2>1. blank = [i \in 1..taken |->
                    [tx_id        |-> order[i].tx_id,
                     output_index |-> order[i].output_index,
                     signature    |-> Text(""),
                     public_key   |-> get_public_key_hex(k)]]
    OBVIOUS
  <2>2. signed = [unsigned EXCEPT !.inputs = resigned]
    OBVIOUS
  <2>3. resigned = SignedInputs(unsigned, k, order, taken)
    <3>. HIDE DEF blank, unsigned
    <3>1. ASSUME NEW i \in 1..taken
          PROVE  [blank[i] EXCEPT !.signature = s]
                   = [tx_id        |-> order[i].tx_id,
                      output_index |-> order[i].output_index,
                      signature    |-> s,
                      public_key   |-> get_public_key_hex(k)]
      <4>. HIDE DEF s
      <4>1. PICK r : r = blank[i]
        OBVIOUS
      <4>2. PICK a, b, c, d, e :
              a = order[i].tx_id /\ b = order[i].output_index /\ c = Text("")
              /\ d = get_public_key_hex(k) /\ e = s
        OBVIOUS
      <4>3. r = [tx_id |-> a, output_index |-> b, signature |-> c, public_key |-> d]
        BY <2>1, <4>1, <4>2
      <4>4. [r EXCEPT !.signature = e]
              = [tx_id |-> a, output_index |-> b, signature |-> e, public_key |-> d]
        BY ONLY <4>3, Resign
      <4>. QED BY ONLY <4>1, <4>2, <4>4, Zenon
    <3>. QED BY <3>1 DEF SignedInputs
  <2>. HIDE DEF signed, resigned, s, blank
  <2>4. signed = [unsigned EXCEPT !.inputs = SignedInputs(unsigned, k, order, taken)]
    BY <2>2, <2>3
  <2>5. PICK x : x = SignedInputs(unsigned, k, order, taken)
    OBVIOUS
  <2>6. signed = [unsigned EXCEPT !.inputs = x]
    BY <2>4, <2>5
  <2>7. signed = [timestamp |-> time, fee |-> fee, inputs |-> x,
                  outputs |-> outputs, hash |-> Text("")]
    BY <2>6
  <2>. QED BY <2>5, <2>7
<1>. HIDE DEF signed
<1>8. tx = [timestamp |-> time, fee |-> fee,
            inputs |-> SignedInputs(unsigned, k, order, taken),
            outputs |-> outputs, hash |-> tx_calculate_hash(signed)]
  BY <1>6, <1>7
<1>9. tx_serialize(tx) = tx_serialize(signed)
  BY <1>7, <1>8 DEF tx_serialize
<1>10. tx_serialize(tx) = tx_serialize(unsigned)
  BY <1>8 DEF tx_serialize, SignedInputs
<1>11. tx.hash = tx_calculate_hash(tx)
  BY <1>8, <1>9 DEF tx_calculate_hash
<1>12. tx.inputs = SignedInputs(tx, k, order, taken)
  BY <1>8, <1>10 DEF SignedInputs
<1>. HIDE DEF unsigned, needed
<1>13. tx.fee = fee /\ tx.outputs = outputs
  BY <1>8
<1>14. Paying(tx, k, to, amount, fee, order, taken)
  BY <1>4, <1>5, <1>11, <1>12, <1>13 DEF Paying, needed
<1>. QED BY <1>4, <1>14 DEF tx

\* What a set of UTXOs is worth.
Worth(utxos) == SumFunction([u \in utxos |-> u.amount])

\* The UTXOs of an address are those that the set stores, under their keys.
LEMMA EntriesOf ==
    ASSUME NEW u, HashedUtxos(u), NEW address,
           NEW e \in ChainOps!get_utxos_for_address(u, address)
    PROVE  LET k == utxo_key(e.tx_id, e.output_index)
           IN  /\ k \in DOMAIN u /\ u[k] = e /\ HashedKey(k)
               /\ e.address = address /\ e.amount \in Nat
               /\ Stored(k).address = address
<1>1. PICK k \in DOMAIN u : u[k].address = address /\ e = u[k]
  BY DEF ChainOps!get_utxos_for_address
<1>2. utxo_key(e.tx_id, e.output_index) = k
  BY <1>1, EntryKey
<1>3. HashedKey(k) /\ u[k] = Stored(k) /\ u[k].amount \in Nat
  BY <1>1 DEF HashedUtxos
<1>. QED BY <1>1, <1>2, <1>3

\* They are finitely many.
LEMMA EntriesFinite ==
    ASSUME NEW u, HashedUtxos(u), NEW address
    PROVE  IsFiniteSet(ChainOps!get_utxos_for_address(u, address))
<1>. DEFINE D == {x \in DOMAIN u : u[x].address = address}
<1>1. IsFiniteSet(D)
  BY FS_Subset DEF HashedUtxos
<1>. HIDE DEF D
<1>2. IsFiniteSet({u[k] : k \in D})
  BY <1>1, ImageFinite
<1>. QED BY <1>2 DEF ChainOps!get_utxos_for_address, D

\* An order of a set.
LEMMA Orders ==
    ASSUME NEW S, IsFiniteSet(S), NEW order \in SetToSeqs(S)
    PROVE  /\ Cardinality(S) \in Nat /\ DOMAIN order = 1..Cardinality(S)
           /\ Len(order) = Cardinality(S)
           /\ \A i \in 1..Cardinality(S) : order[i] \in S
           /\ \A i, j \in 1..Cardinality(S) : order[i] = order[j] => i = j
<1>1. Cardinality(S) \in Nat
  BY FS_CardinalityType
<1>2. /\ order \in [1..Cardinality(S) -> S]
      /\ \A i, j \in 1..Cardinality(S) : i # j => order[i] # order[j]
  BY DEF SetToSeqs
<1>3. DOMAIN order = 1..Cardinality(S) /\ Len(order) = Cardinality(S)
  BY <1>1, <1>2
<1>. QED BY <1>1, <1>2, <1>3

\* Payment p is made from the UTXO set u.
Made(p, u) ==
    /\ p.from \in Keys /\ p.amount \in Amounts
    /\ p.utxos = ChainOps!get_utxos_for_address(u, get_address(p.from))
    /\ \E order \in SetToSeqs(p.utxos) : \E n \in 0..Cardinality(p.utxos) :
         Paying(p.tx, p.from, get_address(Payee), p.amount, Fee, order, n)

\* Sending makes a payment.
LEMMA SendMakes ==
    ASSUME HashedUtxos(Utxos), NEW amount \in Amounts, Send(amount),
           key_file # <<>> => key_file[1] \in Keys
    PROVE  \E p : Made(p, Utxos) /\ payments' = payments \cup {p}
<1>. DEFINE k     == key_file[1]
            utxos == ChainOps!get_utxos_for_address(Utxos, get_address(k))
<1>1. PICK order \in SetToSeqs(utxos) :
        LET tx == create_transaction(k, get_address(Payee), amount, Fee, order, now)
        IN  /\ tx.hash # Text("")
            /\ payments' = payments \cup
                 {[tx |-> tx, amount |-> amount, from |-> k, utxos |-> utxos]}
  BY DEF Send
<1>. DEFINE tx == create_transaction(k, get_address(Payee), amount, Fee, order, now)
            p  == [tx |-> tx, amount |-> amount, from |-> k, utxos |-> utxos]
<1>2. k \in Keys
  BY DEF Send
<1>. HIDE DEF k
<1>3. IsFiniteSet(utxos)
  BY EntriesFinite
<1>. HIDE DEF utxos
<1>4. Len(order) \in Nat /\ Len(order) = Cardinality(utxos)
  BY <1>3, Orders
<1>5. amount \in Nat /\ Fee \in Nat
  BY WalletAssumption
<1>6. PICK n \in 0..Len(order) : Paying(tx, k, get_address(Payee), amount, Fee, order, n)
  <2>1. tx.hash # Text("")
    BY <1>1
  <2>. QED BY ONLY <1>4, <1>5, <2>1, CreatedPays
<1>. HIDE DEF tx
<1>7. p.tx = tx /\ p.amount = amount /\ p.from = k /\ p.utxos = utxos
  OBVIOUS
<1>8. payments' = payments \cup {p}
  BY <1>1 DEF tx
<1>. HIDE DEF p
<1>9. Paying(p.tx, p.from, get_address(Payee), p.amount, Fee, order, n)
  BY <1>6, <1>7
<1>10. Made(p, Utxos)
  BY <1>2, <1>4, <1>6, <1>7, <1>9 DEF Made, utxos
<1>. QED BY <1>8, <1>10

\* A sum of amounts, wrapped, is a number below Word.
LEMMA TotalBounds ==
    ASSUME NEW order, NEW n \in Nat, \A i \in 1..n : order[i].amount \in Nat
    PROVE  /\ SumFunction([i \in 1..n |-> order[i].amount]) \in Nat
           /\ Total(order, n) \in 0..(Word - 1)
<1>. DEFINE f == [i \in 1..n |-> order[i].amount]
<1>1. IsFiniteSet(1..n) /\ (\A i \in 1..n : f[i] \in Nat) /\ DOMAIN f = 1..n
  BY FS_Interval
<1>2. Total(order, n) = SumFunction(f) % Word
  BY DEF Total
<1>. HIDE DEF f
<1>3. SumFunctionOnSet(f, 1..n) \in Nat
  BY <1>1, WordAssumption, ChainP!SumNat, SameSums, SameFinite
<1>4. SumFunction(f) \in Nat
  BY <1>1, <1>3 DEF SumFunction
<1>5. \A x \in Nat : x % Word \in 0..(Word - 1)
  BY WordAssumption
<1>6. Total(order, n) \in 0..(Word - 1)
  BY <1>2, <1>4, <1>5
<1>. QED BY <1>4, <1>6 DEF f

\* Two sequences in a row.
LEMMA InARow ==
    ASSUME NEW T, NEW s \in Seq(T), NEW t \in Seq(T)
    PROVE  /\ DOMAIN (s \o t) = 1..(Len(s) + Len(t)) /\ Len(s \o t) = Len(s) + Len(t)
           /\ \A i \in 1..Len(s) : (s \o t)[i] = s[i]
           /\ \A i \in 1..Len(t) : (s \o t)[Len(s) + i] = t[i]
  OBVIOUS

\* The outputs of a payment: the payee's, and the change if there is any.
PaysOut(outputs, first, k, change) ==
    /\ Len(outputs) = IF change > 0 THEN 2 ELSE 1
    /\ DOMAIN outputs = 1..Len(outputs)
    /\ outputs[1] = first
    /\ change > 0 => outputs[2] = [address |-> get_address(k), amount |-> change]

\* create_transaction makes such outputs.
LEMMA OutputsOf ==
    ASSUME NEW outputs, NEW first, NEW k, NEW change \in Int,
           outputs = <<first>> \o change_outputs(k, change)
    PROVE  PaysOut(outputs, first, k, change)
<1>1. CASE change > 0
  <2>. DEFINE rest == [address |-> get_address(k), amount |-> change]
  <2>1. outputs = <<first>> \o <<rest>>
    BY <1>1 DEF change_outputs
  <2>. HIDE DEF rest
  <2>2. <<first>> \in Seq({first, rest}) /\ <<rest>> \in Seq({first, rest})
    OBVIOUS
  <2>3. /\ Len(<<first>>) = 1 /\ <<first>>[1] = first
        /\ Len(<<rest>>) = 1 /\ <<rest>>[1] = rest
    OBVIOUS
  <2>4. PICK s, t : s = <<first>> /\ t = <<rest>>
    OBVIOUS
  <2>5. s \in Seq({first, rest}) /\ t \in Seq({first, rest})
    BY <2>2, <2>4
  <2>6. /\ DOMAIN (s \o t) = 1..(Len(s) + Len(t)) /\ Len(s \o t) = Len(s) + Len(t)
        /\ \A i \in 1..Len(s) : (s \o t)[i] = s[i]
        /\ \A i \in 1..Len(t) : (s \o t)[Len(s) + i] = t[i]
    BY ONLY <2>5, InARow
  <2>7. Len(s) = 1 /\ Len(t) = 1 /\ s[1] = first /\ t[1] = rest /\ outputs = s \o t
    BY ONLY <2>1, <2>3, <2>4, Zenon
  <2>. QED BY <1>1, <2>6, <2>7 DEF rest, PaysOut
<1>2. CASE ~(change > 0)
  <2>1. outputs = <<first>> \o <<>>
    BY <1>2 DEF change_outputs
  <2>2. <<first>> \in Seq({first}) /\ <<>> \in Seq({first})
    OBVIOUS
  <2>3. Len(<<first>>) = 1 /\ <<first>>[1] = first /\ Len(<<>>) = 0
    OBVIOUS
  <2>4. PICK s, t : s = <<first>> /\ t = <<>>
    OBVIOUS
  <2>5. s \in Seq({first}) /\ t \in Seq({first})
    BY <2>2, <2>4
  <2>6. /\ DOMAIN (s \o t) = 1..(Len(s) + Len(t)) /\ Len(s \o t) = Len(s) + Len(t)
        /\ \A i \in 1..Len(s) : (s \o t)[i] = s[i]
    BY ONLY <2>5, InARow
  <2>7. Len(s) = 1 /\ Len(t) = 0 /\ s[1] = first /\ outputs = s \o t
    BY ONLY <2>1, <2>3, <2>4, Zenon
  <2>. QED BY <1>2, <2>6, <2>7 DEF PaysOut
<1>. QED BY <1>1, <1>2

\* What payment p is made of: the UTXOs it takes, in the order they came in,
\* are of its address and known to the set it is made from.
Takes(p, u, order, n) ==
    /\ n \in Nat
    /\ Paying(p.tx, p.from, get_address(Payee), p.amount, Fee, order, n)
    /\ \A i \in 1..n : /\ order[i] \in p.utxos
                       /\ utxo_key(order[i].tx_id, order[i].output_index) \in DOMAIN u
                       /\ u[utxo_key(order[i].tx_id, order[i].output_index)] = order[i]
                       /\ HashedKey(utxo_key(order[i].tx_id, order[i].output_index))
                       /\ Stored(utxo_key(order[i].tx_id, order[i].output_index)).address
                            = get_address(p.from)
                       /\ order[i].amount \in Nat
    /\ \A i, j \in 1..n : order[i] = order[j] => i = j

\* The outputs that create_transaction takes, in the order it found them in.
LEMMA MadeTakes ==
    ASSUME NEW u, HashedUtxos(u), NEW p, Made(p, u)
    PROVE  /\ IsFiniteSet(p.utxos)
           /\ \A e \in p.utxos : /\ e.amount \in Nat
                                 /\ u[utxo_key(e.tx_id, e.output_index)] = e
           /\ p.amount \in Nat /\ Fee \in Nat
           /\ \E order, n : Takes(p, u, order, n)
<1>1. /\ p.from \in Keys /\ p.amount \in Amounts
      /\ p.utxos = ChainOps!get_utxos_for_address(u, get_address(p.from))
  BY DEF Made
<1>2. PICK order \in SetToSeqs(p.utxos) : \E n \in 0..Cardinality(p.utxos) :
        Paying(p.tx, p.from, get_address(Payee), p.amount, Fee, order, n)
  BY DEF Made
<1>3. IsFiniteSet(p.utxos)
  BY <1>1, EntriesFinite
<1>4. PICK n \in 0..Cardinality(p.utxos) :
        Paying(p.tx, p.from, get_address(Payee), p.amount, Fee, order, n)
  BY <1>2
<1>5. /\ Cardinality(p.utxos) \in Nat
      /\ \A i \in 1..Cardinality(p.utxos) : order[i] \in p.utxos
      /\ \A i, j \in 1..Cardinality(p.utxos) : order[i] = order[j] => i = j
  BY <1>2, <1>3, Orders
<1>6. n \in Nat /\ \A i \in 1..n : i \in 1..Cardinality(p.utxos)
  BY <1>4, <1>5
<1>7. ASSUME NEW e \in p.utxos
      PROVE  LET k == utxo_key(e.tx_id, e.output_index)
             IN  /\ k \in DOMAIN u /\ u[k] = e /\ HashedKey(k)
                 /\ e.address = get_address(p.from) /\ e.amount \in Nat
                 /\ Stored(k).address = get_address(p.from)
  BY <1>1, EntriesOf
<1>8. Takes(p, u, order, n)
  BY <1>4, <1>5, <1>6, <1>7 DEF Takes
<1>. QED BY <1>1, <1>3, <1>7, <1>8, WalletAssumption

\* The inputs of a payment.
LEMMA InputsOf ==
    ASSUME NEW u, NEW p, NEW order, NEW n, Takes(p, u, order, n)
    PROVE  /\ Len(p.tx.inputs) = n /\ DOMAIN p.tx.inputs = 1..n
           /\ \A i \in 1..n :
                /\ p.tx.inputs[i].tx_id = order[i].tx_id
                /\ p.tx.inputs[i].output_index = order[i].output_index
                /\ p.tx.inputs[i].signature = sign(p.from, tx_serialize(p.tx))
                /\ p.tx.inputs[i].public_key = get_public_key_hex(p.from)
           /\ InputKeys(p.tx) =
                {utxo_key(order[i].tx_id, order[i].output_index) : i \in 1..n}
<1>1. n \in Nat /\ p.tx.inputs = SignedInputs(p.tx, p.from, order, n)
  BY DEF Takes, Paying
<1>2. DOMAIN p.tx.inputs = 1..n
  BY <1>1 DEF SignedInputs
<1>3. Len(p.tx.inputs) = n
  BY <1>1 DEF SignedInputs
<1>4. \A i \in 1..n :
        /\ p.tx.inputs[i].tx_id = order[i].tx_id
        /\ p.tx.inputs[i].output_index = order[i].output_index
        /\ p.tx.inputs[i].signature = sign(p.from, tx_serialize(p.tx))
        /\ p.tx.inputs[i].public_key = get_public_key_hex(p.from)
  BY <1>1 DEF SignedInputs
<1>5. InputKeys(p.tx) = {utxo_key(order[i].tx_id, order[i].output_index) : i \in 1..n}
  BY <1>2, <1>4 DEF InputKeys
<1>. QED BY <1>2, <1>3, <1>4, <1>5

\* The outputs of a payment.
LEMMA PaymentOutputs ==
    ASSUME NEW u, NEW p, NEW order, NEW n, Takes(p, u, order, n),
           p.amount \in Nat, Fee \in Nat
    PROVE  LET change == Total(order, n) - ((p.amount + Fee) % Word)
           IN  /\ change \in Nat
               /\ PaysOut(p.tx.outputs,
                          [address |-> get_address(Payee), amount |-> p.amount],
                          p.from, change)
<1>. DEFINE needed == (p.amount + Fee) % Word
            first  == [address |-> get_address(Payee), amount |-> p.amount]
<1>1. /\ Total(order, n) >= needed
      /\ p.tx.outputs = <<first>> \o change_outputs(p.from, Total(order, n) - needed)
  BY DEF Takes, Paying
<1>. HIDE DEF first
<1>2. Total(order, n) \in Int
  <2>1. n \in Nat /\ \A i \in 1..n : order[i].amount \in Nat
    BY DEF Takes
  <2>2. Total(order, n) \in 0..(Word - 1)
    BY ONLY <2>1, TotalBounds
  <2>. QED BY <2>2
<1>3. needed \in Int
  BY WordAssumption
<1>. HIDE DEF needed
<1>4. PICK change \in Int : change = Total(order, n) - needed
  BY <1>2, <1>3
<1>5. change \in Nat
  BY <1>1, <1>2, <1>3, <1>4
<1>6. PICK outputs, k : outputs = p.tx.outputs /\ k = p.from
  OBVIOUS
<1>7. outputs = <<first>> \o change_outputs(k, change)
  BY <1>1, <1>4, <1>6, Zenon
<1>8. PaysOut(outputs, first, k, change)
  BY ONLY <1>7, change \in Int, OutputsOf
<1>9. change \in Nat /\ PaysOut(p.tx.outputs, first, p.from, change)
  BY <1>5, <1>6, <1>8, Zenon
<1>10. /\ Total(order, n) - needed \in Nat
       /\ PaysOut(p.tx.outputs, first, p.from, Total(order, n) - needed)
  BY <1>4, <1>9, Zenon
<1>. QED BY <1>10 DEF first, needed

\* A payment is a transaction with a hash.
LEMMA MadeHashed ==
    ASSUME NEW u, HashedUtxos(u), NEW p, Made(p, u)
    PROVE  /\ HashedTx(p.tx) /\ p.tx.fee \in Nat
           /\ InputKeys(p.tx) \subseteq DOMAIN u
<1>1. p.amount \in Nat /\ Fee \in Nat
  BY MadeTakes
<1>2. PICK order, n : Takes(p, u, order, n)
  BY MadeTakes
<1>3. n \in Nat /\ p.tx.fee = Fee /\ p.tx.hash = tx_calculate_hash(p.tx)
  BY <1>2 DEF Takes, Paying
<1>4. Len(p.tx.inputs) = n /\ DOMAIN p.tx.inputs = 1..n
  BY <1>2, InputsOf
<1>5. InputKeys(p.tx) = {utxo_key(order[i].tx_id, order[i].output_index) : i \in 1..n}
  BY <1>2, InputsOf
<1>6. InputKeys(p.tx) \subseteq DOMAIN u
  BY <1>2, <1>5 DEF Takes
<1>. DEFINE change == Total(order, n) - ((p.amount + Fee) % Word)
<1>7. /\ change \in Nat
      /\ Len(p.tx.outputs) = IF change > 0 THEN 2 ELSE 1
      /\ DOMAIN p.tx.outputs = 1..Len(p.tx.outputs)
      /\ p.tx.outputs[1] = [address |-> get_address(Payee), amount |-> p.amount]
      /\ change > 0 => p.tx.outputs[2] =
                         [address |-> get_address(p.from), amount |-> change]
  BY <1>1, <1>2, PaymentOutputs, Zenon DEF PaysOut
<1>. HIDE DEF change
<1>8. Len(p.tx.outputs) \in Nat
  BY <1>7
<1>9. \A i \in DOMAIN p.tx.outputs : p.tx.outputs[i].amount \in Nat
  <2>1. p.tx.outputs[1].amount \in Nat
    BY <1>1, <1>7
  <2>2. change > 0 => p.tx.outputs[2].amount \in Nat
    BY <1>7
  <2>3. \A i \in 1..Len(p.tx.outputs) : i = 1 \/ (i = 2 /\ change > 0)
    BY <1>7
  <2>. QED BY <1>7, <2>1, <2>2, <2>3
<1>. QED BY <1>1, <1>3, <1>4, <1>6, <1>7, <1>8, <1>9 DEF HashedTx

\* A payment spends the UTXOs that it takes, and no two of its inputs spend
\* the same one.
LEMMA SpentTaken ==
    ASSUME NEW u, NEW p, NEW order, NEW n, Takes(p, u, order, n),
           \A e \in p.utxos : u[utxo_key(e.tx_id, e.output_index)] = e
    PROVE  Spent(p) = {order[i] : i \in 1..n}
<1>1. InputKeys(p.tx) = {utxo_key(order[i].tx_id, order[i].output_index) : i \in 1..n}
  BY InputsOf
<1>2. ASSUME NEW i \in 1..n PROVE order[i] \in Spent(p)
  BY <1>1 DEF Takes, Spent
<1>3. ASSUME NEW e \in Spent(p) PROVE \E i \in 1..n : e = order[i]
  <2>1. e \in p.utxos /\ utxo_key(e.tx_id, e.output_index) \in InputKeys(p.tx)
    BY DEF Spent
  <2>2. PICK i \in 1..n : utxo_key(e.tx_id, e.output_index)
                            = utxo_key(order[i].tx_id, order[i].output_index)
    BY <1>1, <2>1
  <2>3. u[utxo_key(order[i].tx_id, order[i].output_index)] = order[i]
    BY DEF Takes
  <2>. QED BY <2>1, <2>2, <2>3
<1>. QED BY <1>2, <1>3

\* What a payment takes in is the sum over the UTXOs in their order, and it
\* is part of what they all are worth.
LEMMA TakenIn ==
    ASSUME NEW u, NEW p, NEW order, NEW n, Takes(p, u, order, n), IsFiniteSet(p.utxos),
           \A e \in p.utxos : e.amount \in Nat
                              /\ u[utxo_key(e.tx_id, e.output_index)] = e
    PROVE  /\ In(p) = SumFunction([i \in 1..n |-> order[i].amount])
           /\ In(p) \in Nat /\ In(p) <= Worth(p.utxos)
           /\ Cardinality(Spent(p)) = n
<1>. DEFINE f == [i \in 1..n |-> order[i].amount]
            g == [e \in Spent(p) |-> e.amount]
            h == [e \in p.utxos |-> e.amount]
<1>1. Spent(p) = {order[i] : i \in 1..n}
  BY SpentTaken
<1>2. /\ n \in Nat /\ \A i \in 1..n : order[i].amount \in Nat /\ order[i] \in p.utxos
      /\ \A i, j \in 1..n : order[i] = order[j] => i = j
  BY DEF Takes
<1>3. IsFiniteSet(1..n) /\ Cardinality(1..n) = n
  BY <1>2, FS_Interval
<1>4. \A i \in 1..n : f[i] \in Int /\ g[order[i]] = f[i]
  BY <1>1, <1>2
<1>5. /\ DOMAIN f = 1..n /\ DOMAIN g = Spent(p) /\ DOMAIN h = p.utxos
      /\ \A e \in p.utxos : h[e] \in Nat
      /\ \A e \in Spent(p) : e \in p.utxos /\ g[e] = h[e]
  BY DEF Spent
<1>6. In(p) = SumFunctionOnSet(g, Spent(p))
  BY DEF In, SumFunction
<1>7. Worth(p.utxos) = SumFunctionOnSet(h, p.utxos)
  BY DEF Worth, SumFunction
<1>8. SumFunction(f) = SumFunctionOnSet(f, 1..n)
  BY <1>5 DEF SumFunction
<1>. HIDE DEF f, g, h
<1>9. SumFunctionOnSet(g, {order[i] : i \in 1..n}) = SumFunctionOnSet(f, 1..n)
  <2>1. ChainP!IsFiniteSet(1..n)
    BY <1>3, SameFinite
  <2>2. PICK S : S = 1..n
    OBVIOUS
  <2>3. ChainP!SumFunctionOnSet(g, {order[i] : i \in S}) = ChainP!SumFunctionOnSet(f, S)
    <3>1. /\ ChainP!IsFiniteSet(S) /\ \A x \in S : f[x] \in Int /\ g[order[x]] = f[x]
          /\ \A x, y \in S : order[x] = order[y] => x = y
      BY <1>2, <1>4, <2>1, <2>2
    <3>. QED BY ONLY <3>1, WordAssumption, ChainP!SumImage
  <2>. QED BY <2>2, <2>3, SameSums
<1>10. In(p) = SumFunction(f)
  BY <1>1, <1>6, <1>8, <1>9
<1>11. Spent(p) \in SUBSET p.utxos /\ IsFiniteSet(Spent(p))
  BY <1>5, FS_Subset
<1>12. SumFunctionOnSet(g, Spent(p)) = SumFunctionOnSet(h, Spent(p))
  <2>1. \A e \in Spent(p) : h[e] \in Int /\ g[e] = h[e]
    BY <1>5
  <2>. QED BY <1>11, <2>1, WordAssumption, ChainP!SumSame, SameSums, SameFinite
<1>13. SumFunctionOnSet(h, Spent(p)) <= SumFunctionOnSet(h, p.utxos)
  BY <1>5, <1>11, WordAssumption, ChainP!SumMonotone, SameSums, SameFinite
<1>14. SumFunctionOnSet(h, Spent(p)) \in Nat
  <2>1. \A e \in Spent(p) : h[e] \in Nat
    BY <1>5
  <2>. QED BY <1>11, <2>1, WordAssumption, ChainP!SumNat, SameSums, SameFinite
<1>15. Cardinality(Spent(p)) = n
  <2>. DEFINE b == [i \in 1..n |-> order[i]]
  <2>1. b \in Bijection(1..n, Spent(p))
    BY <1>1, <1>2 DEF Bijection, Injection, Surjection, IsInjective
  <2>2. ExistsBijection(1..n, Spent(p))
    BY <2>1 DEF ExistsBijection
  <2>. QED BY <1>3, <2>2, FS_Bijection
<1>16. In(p) = SumFunction([i \in 1..n |-> order[i].amount])
  BY <1>10 DEF f
<1>. QED BY <1>6, <1>7, <1>12, <1>13, <1>14, <1>15, <1>16

\* What a payment gives out, without the fee.
LEMMA GivenOut ==
    ASSUME NEW p, NEW first, NEW k, NEW change \in Nat,
           PaysOut(p.tx.outputs, first, k, change), first.amount \in Nat
    PROVE  Out(p) = first.amount + change
<1>. DEFINE f == [i \in DOMAIN p.tx.outputs |-> p.tx.outputs[i].amount]
<1>1. Out(p) = SumFunctionOnSet(f, DOMAIN p.tx.outputs)
  BY DEF Out, SumFunction
<1>2. /\ DOMAIN p.tx.outputs = IF change > 0 THEN 1..2 ELSE 1..1
      /\ p.tx.outputs[1] = first
      /\ change > 0 => p.tx.outputs[2].amount = change
  <2>1. DOMAIN p.tx.outputs = 1..(IF change > 0 THEN 2 ELSE 1)
    BY Zenon DEF PaysOut
  <2>2. p.tx.outputs[1] = first
    BY DEF PaysOut
  <2>3. change > 0 => p.tx.outputs[2].amount = change
    BY DEF PaysOut
  <2>. QED BY <2>1, <2>2, <2>3
<1>3. f[1] = first.amount /\ (change > 0 => f[2] = change)
  BY <1>2
<1>. HIDE DEF f
<1>4. SumFunctionOnSet(f, {}) = 0
  BY WordAssumption, ChainP!SumEmpty, SameSums
<1>5. SumFunctionOnSet(f, {} \cup {1}) = SumFunctionOnSet(f, {}) + f[1]
  BY <1>3, FS_EmptySet, WordAssumption, ChainP!SumAdd, SameSums, SameFinite
<1>6. SumFunctionOnSet(f, {1}) = first.amount
  <2>1. {} \cup {1} = {1}
    OBVIOUS
  <2>. QED BY <1>3, <1>4, <1>5, <2>1
<1>7. CASE change > 0
  <2>1. f[2] \in Int /\ \A y \in {1} : f[y] \in Int
    BY <1>3, <1>7
  <2>2. IsFiniteSet({1}) /\ 2 \notin {1}
    <3>1. IsFiniteSet({1})
      BY FS_Singleton
    <3>. QED BY <3>1
  <2>3. SumFunctionOnSet(f, {1} \cup {2}) = SumFunctionOnSet(f, {1}) + f[2]
    BY <2>1, <2>2, WordAssumption, ChainP!SumAdd, SameSums, SameFinite
  <2>4. DOMAIN p.tx.outputs = {1} \cup {2}
    BY <1>2, <1>7
  <2>. QED BY <1>1, <1>3, <1>6, <1>7, <2>3, <2>4
<1>8. CASE change = 0
  <2>1. DOMAIN p.tx.outputs = {1}
    BY <1>2, <1>8
  <2>. QED BY <1>1, <1>6, <1>8, <2>1
<1>. QED BY <1>7, <1>8

\* What PaymentExact says of one payment.
Exact(p) ==
    p.amount + Fee < Word =>
        /\ In(p) = Out(p) + Fee
        /\ Cardinality(Spent(p)) = Len(p.tx.inputs)
        /\ p.tx.outputs[1] = [address |-> get_address(Payee), amount |-> p.amount]
        /\ \A i \in 2..Len(p.tx.outputs) : p.tx.outputs[i].address = get_address(p.from)

\* A payment is exact if the sums over the UTXOs fit the width.
LEMMA MadeExact ==
    ASSUME NEW u, HashedUtxos(u), NEW p, Made(p, u), Worth(p.utxos) < Word
    PROVE  Exact(p)
<1>1. /\ IsFiniteSet(p.utxos)
      /\ \A e \in p.utxos : e.amount \in Nat
                            /\ u[utxo_key(e.tx_id, e.output_index)] = e
      /\ p.amount \in Nat /\ Fee \in Nat
  BY MadeTakes
<1>2. PICK order, n : Takes(p, u, order, n)
  BY MadeTakes
<1>3. SUFFICES ASSUME p.amount + Fee < Word
               PROVE  /\ In(p) = Out(p) + Fee
                      /\ Cardinality(Spent(p)) = Len(p.tx.inputs)
                      /\ p.tx.outputs[1] = [address |-> get_address(Payee),
                                            amount |-> p.amount]
                      /\ \A i \in 2..Len(p.tx.outputs) :
                           p.tx.outputs[i].address = get_address(p.from)
  BY DEF Exact
<1>. DEFINE first == [address |-> get_address(Payee), amount |-> p.amount]
<1>4. /\ In(p) = SumFunction([i \in 1..n |-> order[i].amount])
      /\ In(p) \in Nat /\ In(p) <= Worth(p.utxos) /\ Cardinality(Spent(p)) = n
  BY <1>1, <1>2, TakenIn
<1>5. Total(order, n) = In(p) % Word
  BY <1>4 DEF Total
<1>6. In(p) < Word
  <2>1. Worth(p.utxos) \in Int
    <3>. DEFINE h == [e \in p.utxos |-> e.amount]
    <3>1. (\A e \in p.utxos : h[e] \in Int) /\ DOMAIN h = p.utxos
      BY <1>1
    <3>2. Worth(p.utxos) = SumFunctionOnSet(h, p.utxos)
      BY DEF Worth, SumFunction
    <3>. HIDE DEF h
    <3>. QED BY <1>1, <3>1, <3>2, WordAssumption, ChainP!SumInt, SameSums, SameFinite
  <2>. QED BY <1>4, <2>1, WordAssumption
<1>7. \A x \in Nat : x < Word => x % Word = x
  BY WordAssumption
<1>8. Total(order, n) = In(p) /\ (p.amount + Fee) % Word = p.amount + Fee
  <2>1. p.amount + Fee \in Nat
    BY <1>1
  <2>. QED BY <1>3, <1>4, <1>5, <1>6, <1>7, <2>1
<1>9. /\ Total(order, n) - ((p.amount + Fee) % Word) \in Nat
      /\ PaysOut(p.tx.outputs, first, p.from, Total(order, n) - ((p.amount + Fee) % Word))
  BY <1>1, <1>2, PaymentOutputs
<1>10. PICK change \in Nat : change = Total(order, n) - ((p.amount + Fee) % Word)
  BY <1>9
<1>11. PaysOut(p.tx.outputs, first, p.from, change)
  BY <1>9, <1>10, Zenon
<1>12. first.amount = p.amount
  OBVIOUS
<1>. HIDE DEF first
<1>13. Out(p) = p.amount + change
  BY ONLY <1>1, <1>11, <1>12, change \in Nat, GivenOut
<1>14. In(p) = Out(p) + Fee
  BY <1>1, <1>4, <1>8, <1>10, <1>13
<1>15. Len(p.tx.inputs) = n
  BY <1>2, InputsOf
<1>16. /\ p.tx.outputs[1] = first
       /\ \A i \in 2..Len(p.tx.outputs) : p.tx.outputs[i].address = get_address(p.from)
  BY <1>11 DEF PaysOut
<1>. QED BY <1>4, <1>14, <1>15, <1>16 DEF first

\* The functions of transactions in the chain's module are those of the wallet.
LEMMA SameFunctions ==
    /\ \A t : ChainOps!tx_serialize(t) = tx_serialize(t)
    /\ \A t : ChainOps!tx_calculate_hash(t) = tx_calculate_hash(t)
    /\ \A k : ChainOps!address_from_public_key(k) = address_from_public_key(k)
    /\ \A d, s, k : ChainOps!verify(d, s, k) <=> verify(d, s, k)
    /\ \A i, n : ChainOps!utxo_key(i, n) = utxo_key(i, n)
<1>1. \A t : ChainOps!tx_serialize(t) = tx_serialize(t)
  BY DEF ChainOps!tx_serialize, tx_serialize
<1>2. \A t : ChainOps!tx_calculate_hash(t) = tx_calculate_hash(t)
  BY <1>1 DEF ChainOps!tx_calculate_hash, tx_calculate_hash,
              ChainOps!double_sha256, double_sha256
<1>3. \A k : ChainOps!address_from_public_key(k) = address_from_public_key(k)
  BY DEF ChainOps!address_from_public_key, address_from_public_key
<1>4. \A d, s, k : ChainOps!verify(d, s, k) <=> verify(d, s, k)
  BY DEF ChainOps!verify, verify
<1>5. \A i, n : ChainOps!utxo_key(i, n) = utxo_key(i, n)
  BY DEF ChainOps!utxo_key, utxo_key
<1>. QED BY <1>1, <1>2, <1>3, <1>4, <1>5

\* Hashes, addresses and signatures are not the strings they are compared with.
LEMMA NotText ==
    /\ \A d, s : double_sha256(d) # ChainOps!Text(s)
    /\ \A k, s : get_address(k) # ChainOps!Text(s)
    /\ \A k, d, s : sign(k, d) # ChainOps!Text(s)
<1>1. \A d, s : double_sha256(d) # ChainOps!Text(s)
  <2>1. \A x, y : [sha256d |-> x] # [text |-> y]
    <3>1. \A x : "sha256d" \in DOMAIN [sha256d |-> x]
      OBVIOUS
    <3>2. \A y : "sha256d" \notin DOMAIN [text |-> y]
      OBVIOUS
    <3>. QED BY <3>1, <3>2
  <2>. QED BY <2>1 DEF double_sha256, ChainOps!Text
<1>2. \A k, s : get_address(k) # ChainOps!Text(s)
  <2>1. \A x, y : [address_of |-> x] # [text |-> y]
    <3>1. \A x : "address_of" \in DOMAIN [address_of |-> x]
      OBVIOUS
    <3>2. \A y : "address_of" \notin DOMAIN [text |-> y]
      OBVIOUS
    <3>. QED BY <3>1, <3>2
  <2>. QED BY <2>1 DEF get_address, address_from_public_key, ChainOps!Text
<1>3. \A k, d, s : sign(k, d) # ChainOps!Text(s)
  <2>1. \A x, y, z : [signed |-> x, by |-> y] # [text |-> z]
    <3>1. \A x, y : "signed" \in DOMAIN [signed |-> x, by |-> y]
      OBVIOUS
    <3>2. \A y : "signed" \notin DOMAIN [text |-> y]
      OBVIOUS
    <3>. QED BY <3>1, <3>2
  <2>. QED BY <2>1 DEF sign, ChainOps!Text
<1>. QED BY <1>1, <1>2, <1>3

\* A payment of something takes something.
LEMMA TakesSome ==
    ASSUME NEW u, NEW p, NEW order, NEW n, Takes(p, u, order, n),
           (p.amount + Fee) % Word # 0, p.amount \in Nat, Fee \in Nat
    PROVE  n # 0
<1>1. SUFFICES ASSUME n = 0 PROVE FALSE
  OBVIOUS
<1>. DEFINE f == [i \in 1..0 |-> order[i].amount]
<1>2. SumFunction(f) = SumFunctionOnSet(f, {})
  <2>1. DOMAIN f = {}
    OBVIOUS
  <2>. HIDE DEF f
  <2>. QED BY <2>1 DEF SumFunction
<1>3. SumFunctionOnSet(f, {}) = 0
  <2>. HIDE DEF f
  <2>. QED BY WordAssumption, ChainP!SumEmpty, SameSums
<1>4. Total(order, n) = 0 % Word
  BY <1>1, <1>2, <1>3 DEF Total
<1>5. 0 % Word = 0
  BY WordAssumption
<1>6. Total(order, n) >= (p.amount + Fee) % Word
  BY DEF Takes, Paying
<1>7. (p.amount + Fee) % Word \in Nat
  <2>1. p.amount + Fee \in Nat
    OBVIOUS
  <2>. QED BY <2>1, WordAssumption
<1>. QED BY <1>4, <1>5, <1>6, <1>7

\* The shape of a payment is what the nodes ask for.
LEMMA MadeStructure ==
    ASSUME NEW u, HashedUtxos(u), NEW p, Made(p, u),
           p.amount # 0, (p.amount + Fee) % Word # 0
    PROVE  ~ChainOps!is_coinbase(p.tx) /\ ChainOps!is_valid_structure(p.tx)
<1>1. p.amount \in Nat /\ Fee \in Nat
  BY MadeTakes
<1>2. PICK order, n : Takes(p, u, order, n)
  BY MadeTakes
<1>3. n \in Nat /\ n # 0
  <2>1. n \in Nat
    BY <1>2 DEF Takes
  <2>2. n # 0
    BY <1>1, <1>2, TakesSome
  <2>. QED BY <2>1, <2>2
<1>4. /\ Len(p.tx.inputs) = n /\ DOMAIN p.tx.inputs = 1..n
      /\ \A i \in 1..n : /\ p.tx.inputs[i].tx_id = order[i].tx_id
                         /\ p.tx.inputs[i].signature = sign(p.from, tx_serialize(p.tx))
  BY <1>2, InputsOf
<1>5. ~ChainOps!is_coinbase(p.tx)
  <2>1. 1 \in 1..n
    BY <1>3
  <2>. QED BY <1>4, <2>1, NotText DEF ChainOps!is_coinbase
<1>6. p.tx.inputs # <<>>
  BY <1>3, <1>4
<1>7. \A i \in DOMAIN p.tx.inputs : p.tx.inputs[i].tx_id # ChainOps!Text("")
  <2>1. SUFFICES ASSUME NEW i \in 1..n
                 PROVE  order[i].tx_id # ChainOps!Text("")
    BY <1>4
  <2>2. HashedKey(utxo_key(order[i].tx_id, order[i].output_index))
    BY <1>2 DEF Takes
  <2>3. order[i].tx_id = double_sha256(order[i].tx_id.sha256d)
    BY <2>2 DEF HashedKey, utxo_key
  <2>. QED BY <2>3, NotText
<1>8. PICK change \in Nat : PaysOut(p.tx.outputs,
                              [address |-> get_address(Payee), amount |-> p.amount],
                              p.from, change)
  BY <1>1, <1>2, PaymentOutputs
<1>9. /\ p.tx.outputs[1].amount = p.amount
      /\ p.tx.outputs[1].address = get_address(Payee)
  BY <1>8 DEF PaysOut
<1>10. change > 0 => /\ p.tx.outputs[2].amount = change
                     /\ p.tx.outputs[2].address = get_address(p.from)
  BY <1>8 DEF PaysOut
<1>11. /\ Len(p.tx.outputs) = IF change > 0 THEN 2 ELSE 1
       /\ DOMAIN p.tx.outputs = 1..Len(p.tx.outputs)
  BY <1>8, Zenon DEF PaysOut
<1>12. p.tx.outputs # <<>>
  BY <1>11
<1>13. ASSUME NEW i \in DOMAIN p.tx.outputs
       PROVE  /\ p.tx.outputs[i].amount # 0
              /\ p.tx.outputs[i].address # ChainOps!Text("")
  <2>1. i = 1 \/ (i = 2 /\ change > 0)
    BY <1>11
  <2>2. CASE i = 1
    BY <1>9, <2>2, NotText
  <2>3. CASE i = 2 /\ change > 0
    <3>1. p.tx.outputs[i].amount = change /\ change > 0
      BY <1>10, <2>3
    <3>2. p.tx.outputs[i].address = get_address(p.from)
      BY <1>10, <2>3
    <3>3. p.tx.outputs[i].address # ChainOps!Text("")
      BY <3>2, NotText
    <3>4. change # 0
      BY <3>1, change \in Nat
    <3>. QED BY <3>1, <3>3, <3>4
  <2>. QED BY <2>1, <2>2, <2>3
<1>14. ChainOps!is_valid_structure(p.tx)
  BY <1>6, <1>7, <1>12, <1>13 DEF ChainOps!is_valid_structure
<1>. QED BY <1>5, <1>14

\* A payment is one that nodes accept wherever its inputs are unspent.
LEMMA MadeValid ==
    ASSUME NEW u, HashedUtxos(u), NEW p, Made(p, u),
           p.amount # 0, (p.amount + Fee) % Word # 0,
           NEW v, HashedUtxos(v), InputKeys(p.tx) \subseteq DOMAIN v
    PROVE  ChainOps!validate_transaction(v, p.tx)
<1>1. PICK order, n : Takes(p, u, order, n)
  BY MadeTakes
<1>2. /\ DOMAIN p.tx.inputs = 1..n
      /\ \A i \in 1..n : /\ p.tx.inputs[i].tx_id = order[i].tx_id
                         /\ p.tx.inputs[i].output_index = order[i].output_index
                         /\ p.tx.inputs[i].signature = sign(p.from, tx_serialize(p.tx))
                         /\ p.tx.inputs[i].public_key = get_public_key_hex(p.from)
      /\ \A i \in 1..n : utxo_key(order[i].tx_id, order[i].output_index) \in InputKeys(p.tx)
  <2>1. InputKeys(p.tx) = {utxo_key(order[i].tx_id, order[i].output_index) : i \in 1..n}
    BY <1>1, InputsOf
  <2>2. \A i \in 1..n : utxo_key(order[i].tx_id, order[i].output_index) \in InputKeys(p.tx)
    BY <2>1
  <2>. QED BY <1>1, <2>2, InputsOf
<1>3. ChainOps!tx_calculate_hash(p.tx) = p.tx.hash
  BY <1>1, SameFunctions DEF Takes, Paying
<1>4. ChainOps!InputKeys(p.tx) \subseteq DOMAIN v
  BY SameKeys
<1>5. ASSUME NEW i \in 1..n
      PROVE  LET in  == p.tx.inputs[i]
                 key == ChainOps!utxo_key(in.tx_id, in.output_index)
             IN  /\ key \in DOMAIN v
                 /\ v[key].address = ChainOps!address_from_public_key(in.public_key)
                 /\ ChainOps!verify(ChainOps!tx_serialize(p.tx), in.signature, in.public_key)
  <2>. DEFINE key == utxo_key(order[i].tx_id, order[i].output_index)
  <2>1. key \in DOMAIN v
    BY <1>2
  <2>2. Stored(key).address = get_address(p.from)
    BY <1>1 DEF Takes
  <2>3. v[key] = Stored(key)
    BY <2>1 DEF HashedUtxos
  <2>4. ChainOps!utxo_key(p.tx.inputs[i].tx_id, p.tx.inputs[i].output_index) = key
    BY <1>2, SameFunctions
  <2>. HIDE DEF key
  <2>5. ChainOps!address_from_public_key(p.tx.inputs[i].public_key) = get_address(p.from)
    BY <1>2, SameFunctions DEF get_address
  <2>6. ChainOps!verify(ChainOps!tx_serialize(p.tx), p.tx.inputs[i].signature,
                        p.tx.inputs[i].public_key)
    <3>1. verify(tx_serialize(p.tx), sign(p.from, tx_serialize(p.tx)),
                 get_public_key_hex(p.from))
      BY DEF verify, sign
    <3>. QED BY <1>2, <3>1, SameFunctions
  <2>. QED BY <2>1, <2>2, <2>3, <2>4, <2>5, <2>6
<1>6. ChainOps!verify_transaction_signatures(v, p.tx)
  BY <1>2, <1>5 DEF ChainOps!verify_transaction_signatures
<1>7. ~ChainOps!is_coinbase(p.tx) /\ ChainOps!is_valid_structure(p.tx)
  BY MadeStructure
<1>. QED BY <1>3, <1>4, <1>6, <1>7 DEF ChainOps!validate_transaction

-----------------------------------------------------------------------------
(* The invariant.                                                          *)

\* A block that spends what payment p spends.
Overtaken(p, c) ==
    \E n \in DOMAIN c : InputKeys(p.tx) \cap ChainOps!Spends(c[n]) # {}

\* The chain and its UTXO set.
ChainSound ==
    /\ \E T : chain \in Seq(T)
    /\ Len(chain) \in 1..MaxBlocks
    /\ HashedUtxos(Utxos)

\* The keys.
KeysSound ==
    /\ key_file \in {<<>>} \cup {<<k>> : k \in generated}
    /\ generated \subseteq Keys
    /\ shown \subseteq {get_address(k) : k \in generated}

\* The payments: each was made from a UTXO set of the chain, and its inputs are
\* unspent or a block has spent one of them.
PaymentsSound ==
    /\ IsFiniteSet(payments) /\ Cardinality(payments) <= MaxSends
    /\ \A p \in payments :
         /\ \E u : HashedUtxos(u) /\ Made(p, u)
         /\ InputKeys(p.tx) \subseteq DOMAIN Utxos \/ Overtaken(p, chain)

\* The inductive invariant.
WalletInv == ChainSound /\ KeysSound /\ PaymentsSound

\* One more block on a chain.
LEMMA OneMore ==
    ASSUME NEW T, NEW c \in Seq(T), NEW b
    PROVE  /\ \E S : Append(c, b) \in Seq(S)
           /\ Len(c) \in Nat /\ DOMAIN c = 1..Len(c)
           /\ DOMAIN Append(c, b) = 1..(Len(c) + 1)
           /\ Len(Append(c, b)) = Len(c) + 1
           /\ \A i \in 1..Len(c) : Append(c, b)[i] = c[i]
           /\ Append(c, b)[Len(c) + 1] = b
<1>1. c \in Seq(T \cup {b}) /\ b \in T \cup {b}
  OBVIOUS
<1>2. Append(c, b) \in Seq(T \cup {b})
  BY <1>1
<1>. QED BY <1>1, <1>2

\* A block of hashed transactions keeps the chain sound, and the payments
\* whose inputs it does not spend stay as they are.
LEMMA MineKeeps ==
    ASSUME ChainSound, PaymentsSound, NEW T, \A t \in T : HashedTx(t) /\ t.fee \in Nat,
           NEW txs \in Seq(T), NEW address, MineFor(address, txs), UNCHANGED payments
    PROVE  ChainSound' /\ PaymentsSound'
<1>. DEFINE b == mine_block(Last(chain), txs, address, 1, Reward, now)
<1>1. Len(chain) < MaxBlocks /\ chain' = Append(chain, b)
  BY DEF MineFor
<1>2. HashedBlock(b)
  BY MinedHashed
<1>. HIDE DEF b
<1>3. PICK S : chain \in Seq(S)
  BY DEF ChainSound
<1>4. /\ \E R : chain' \in Seq(R)
      /\ Len(chain) \in Nat /\ DOMAIN chain = 1..Len(chain)
      /\ DOMAIN chain' = 1..(Len(chain) + 1)
      /\ Len(chain') = Len(chain) + 1
      /\ \A i \in 1..Len(chain) : chain'[i] = chain[i]
      /\ chain'[Len(chain) + 1] = b
  <2>1. /\ \E R : Append(chain, b) \in Seq(R)
        /\ Len(chain) \in Nat /\ DOMAIN chain = 1..Len(chain)
        /\ DOMAIN Append(chain, b) = 1..(Len(chain) + 1)
        /\ Len(Append(chain, b)) = Len(chain) + 1
        /\ \A i \in 1..Len(chain) : Append(chain, b)[i] = chain[i]
        /\ Append(chain, b)[Len(chain) + 1] = b
    BY ONLY <1>3, OneMore
  <2>. QED BY ONLY <1>1, <2>1, Zenon
<1>5. Folded(chain') = ChainOps!apply_block_to_utxo_set(Folded(chain), chain'[Len(chain) + 1])
  BY <1>4, FoldNext
<1>6. Utxos' = ChainOps!apply_block_to_utxo_set(Utxos, b)
  BY <1>4, <1>5 DEF Utxos, Folded
<1>7. HashedUtxos(Utxos')
  BY <1>2, <1>6, AppliedHashed DEF ChainSound
<1>8. Len(chain') \in 1..MaxBlocks
  BY <1>1, <1>4, WalletAssumption
<1>9. ChainSound'
  BY <1>4, <1>7, <1>8 DEF ChainSound
<1>10. ASSUME NEW p \in payments
       PROVE  InputKeys(p.tx) \subseteq DOMAIN Utxos' \/ Overtaken(p, chain')
  <2>1. CASE Overtaken(p, chain)
    <3>1. PICK n \in DOMAIN chain : InputKeys(p.tx) \cap ChainOps!Spends(chain[n]) # {}
      BY <2>1 DEF Overtaken
    <3>2. n \in DOMAIN chain' /\ chain'[n] = chain[n]
      BY <1>4
    <3>. QED BY <3>1, <3>2 DEF Overtaken
  <2>2. CASE InputKeys(p.tx) \cap ChainOps!Spends(b) # {}
    <3>1. Len(chain) + 1 \in DOMAIN chain'
      BY <1>4
    <3>. QED BY <1>4, <2>2, <3>1 DEF Overtaken
  <2>3. CASE /\ InputKeys(p.tx) \subseteq DOMAIN Utxos
             /\ InputKeys(p.tx) \cap ChainOps!Spends(b) = {}
    <3>1. DOMAIN Utxos' = (DOMAIN Utxos \ ChainOps!Spends(b)) \cup ChainOps!Creates(b)
      BY <1>6 DEF ChainOps!apply_block_to_utxo_set
    <3>. QED BY <2>3, <3>1
  <2>. QED BY <2>1, <2>2, <2>3 DEF PaymentsSound
<1>11. PaymentsSound'
  BY <1>10 DEF PaymentsSound
<1>. QED BY <1>9, <1>11

\* A chain that is left alone stays sound.
LEMMA ChainKept ==
    ASSUME ChainSound, UNCHANGED chain
    PROVE  ChainSound' /\ Utxos' = Utxos
  BY DEF ChainSound, Utxos

\* Payments that are left alone over a chain that is left alone stay sound.
LEMMA PaymentsKept ==
    ASSUME ChainSound, PaymentsSound, UNCHANGED <<chain, payments>>
    PROVE  PaymentsSound'
  BY ChainKept DEF PaymentsSound

\* A key pair is generated.
LEMMA Generates ==
    ASSUME KeysSound, NEW k \in Keys, generated' = generated \cup {k},
           shown' \in {shown, shown \cup {get_address(k)}},
           key_file' \in {key_file, <<k>>}
    PROVE  KeysSound'
<1>1. generated' \subseteq Keys /\ generated \subseteq generated'
  BY DEF KeysSound
<1>2. shown' \subseteq {get_address(x) : x \in generated'}
  BY DEF KeysSound
<1>3. key_file' \in {<<>>} \cup {<<x>> : x \in generated'}
  BY DEF KeysSound
<1>. QED BY <1>1, <1>2, <1>3 DEF KeysSound

\* wallet --new only adds a key, and replaces the key file.
LEMMA NewWalletKeeps == ASSUME WalletInv, NewWallet PROVE WalletInv'
<1>1. PICK k \in Keys \ generated :
        /\ key_file' = <<k>>
        /\ generated' = generated \cup {k}
        /\ shown' = shown \cup {get_address(k)}
  BY DEF NewWallet
<1>2. UNCHANGED <<chain, payments>>
  BY DEF NewWallet
<1>3. KeysSound'
  BY <1>1, Generates DEF WalletInv
<1>. QED BY <1>2, <1>3, ChainKept, PaymentsKept DEF WalletInv

\* A key that could not be saved is shown all the same.
LEMMA NewWalletFailsKeeps == ASSUME WalletInv, NewWalletFails PROVE WalletInv'
<1>1. PICK k \in Keys \ generated : generated' = generated \cup {k}
  BY DEF NewWalletFails
<1>2. UNCHANGED <<chain, key_file, shown, payments>>
  BY DEF NewWalletFails
<1>3. KeysSound'
  BY <1>1, <1>2, Generates DEF WalletInv
<1>. QED BY <1>2, <1>3, ChainKept, PaymentsKept DEF WalletInv

\* mine without --address adds a block and a key that is not kept.
LEMMA MineToNewWalletKeeps == ASSUME WalletInv, MineToNewWallet PROVE WalletInv'
<1>1. PICK k \in Keys \ generated :
        /\ generated' = generated \cup {k}
        /\ shown' = shown \cup {get_address(k)}
        /\ MineFor(get_address(k), <<>>)
  BY DEF MineToNewWallet
<1>2. UNCHANGED <<key_file, payments>>
  BY DEF MineToNewWallet
<1>3. KeysSound'
  BY <1>1, <1>2, Generates DEF WalletInv
<1>4. <<>> \in Seq({}) /\ \A t \in {} : HashedTx(t) /\ t.fee \in Nat
  OBVIOUS
<1>5. ChainSound' /\ PaymentsSound'
  BY <1>1, <1>2, <1>4, MineKeeps DEF WalletInv
<1>. QED BY <1>3, <1>5 DEF WalletInv

\* mine --address adds a block.
LEMMA MineToAddressKeeps == ASSUME WalletInv, MineToAddress PROVE WalletInv'
<1>1. PICK address \in shown : MineFor(address, <<>>)
  BY DEF MineToAddress
<1>2. UNCHANGED <<key_file, generated, shown, payments>>
  BY DEF MineToAddress
<1>3. KeysSound'
  BY <1>2 DEF WalletInv, KeysSound
<1>4. <<>> \in Seq({}) /\ \A t \in {} : HashedTx(t) /\ t.fee \in Nat
  OBVIOUS
<1>5. ChainSound' /\ PaymentsSound'
  BY <1>1, <1>2, <1>4, MineKeeps DEF WalletInv
<1>. QED BY <1>3, <1>5 DEF WalletInv

\* A block with a payment in it adds outputs and spends the payment's inputs,
\* so that it overtakes the payments that spend them too.
LEMMA ConfirmKeeps == ASSUME WalletInv, Confirm PROVE WalletInv'
<1>1. PICK p \in payments : MineFor(get_address(Payee), <<p.tx>>)
  BY DEF Confirm
<1>2. UNCHANGED <<key_file, generated, shown, payments>>
  BY DEF Confirm
<1>3. KeysSound'
  BY <1>2 DEF WalletInv, KeysSound
<1>4. HashedTx(p.tx) /\ p.tx.fee \in Nat
  BY MadeHashed DEF WalletInv, PaymentsSound
<1>5. <<p.tx>> \in Seq({p.tx}) /\ \A t \in {p.tx} : HashedTx(t) /\ t.fee \in Nat
  BY <1>4
<1>6. ChainSound' /\ PaymentsSound'
  BY <1>1, <1>2, <1>5, MineKeeps DEF WalletInv
<1>. QED BY <1>3, <1>6 DEF WalletInv

\* The payment that Send prints.
LEMMA SendAdds ==
    ASSUME WalletInv, NEW amount \in Amounts, Send(amount)
    PROVE  \E p : Made(p, Utxos) /\ payments' = payments \cup {p}
<1>1. key_file # <<>> => key_file[1] \in Keys
  BY DEF WalletInv, KeysSound
<1>2. HashedUtxos(Utxos)
  BY DEF WalletInv, ChainSound
<1>. QED BY <1>1, <1>2, SendMakes

\* send adds a payment made from the UTXO set of the chain as it is.
LEMMA SendKeeps ==
    ASSUME WalletInv, NEW amount \in Amounts, Send(amount) PROVE WalletInv'
<1>1. PICK p : Made(p, Utxos) /\ payments' = payments \cup {p}
  BY SendAdds
<1>2. Cardinality(payments) < MaxSends /\ UNCHANGED <<chain, key_file, generated, shown>>
  BY DEF Send
<1>3. ChainSound' /\ Utxos' = Utxos
  BY <1>2, ChainKept DEF WalletInv
<1>4. KeysSound'
  BY <1>2 DEF WalletInv, KeysSound
<1>5. HashedUtxos(Utxos)
  BY DEF WalletInv, ChainSound
<1>6. InputKeys(p.tx) \subseteq DOMAIN Utxos
  BY <1>1, <1>5, MadeHashed
<1>7. IsFiniteSet(payments') /\ Cardinality(payments') <= MaxSends
  <2>1. IsFiniteSet(payments) /\ Cardinality(payments) \in Nat
    BY FS_CardinalityType DEF WalletInv, PaymentsSound
  <2>2. /\ IsFiniteSet(payments \cup {p})
        /\ \/ Cardinality(payments \cup {p}) = Cardinality(payments)
           \/ Cardinality(payments \cup {p}) = Cardinality(payments) + 1
    BY <2>1, FS_AddElement
  <2>3. MaxSends \in Nat
    BY WalletAssumption
  <2>. QED BY <1>1, <1>2, <2>1, <2>2, <2>3
<1>8. ASSUME NEW q \in payments'
      PROVE  /\ \E u : HashedUtxos(u) /\ Made(q, u)
             /\ InputKeys(q.tx) \subseteq DOMAIN Utxos' \/ Overtaken(q, chain')
  <2>1. CASE q = p
    BY <1>1, <1>3, <1>5, <1>6, <2>1
  <2>2. CASE q \in payments
    BY <1>2, <1>3, <2>2 DEF WalletInv, PaymentsSound
  <2>. QED BY <1>1, <2>1, <2>2
<1>9. PaymentsSound'
  BY <1>7, <1>8 DEF PaymentsSound
<1>. QED BY <1>3, <1>4, <1>9 DEF WalletInv

\* A new chain, and no keys and no payments.
LEMMA InitialWallet == ASSUME WalletInit PROVE WalletInv
<1>. DEFINE b == create_genesis_block(0)
<1>1. /\ chain = <<b>> /\ key_file = <<>> /\ generated = {} /\ shown = {}
      /\ payments = {}
  BY DEF WalletInit
<1>2. b.transactions = <<>>
  BY DEF create_genesis_block, Sealed
<1>3. HashedBlock(b)
  <2>1. Len(<<>>) = 0 /\ DOMAIN <<>> = 1..0 /\ 1..0 = {}
    OBVIOUS
  <2>. HIDE DEF b
  <2>. QED BY <1>2, <2>1 DEF HashedBlock
<1>. HIDE DEF b
<1>4. /\ chain \in Seq({b}) /\ Len(chain) = 1 /\ DOMAIN chain = 1..1 /\ chain[1] = b
  BY <1>1
<1>5. Utxos = ChainOps!apply_block_to_utxo_set(ChainOps!EmptyMap, b)
  BY <1>4, FoldFirst DEF Utxos, Folded
<1>6. HashedUtxos(ChainOps!EmptyMap)
  <2>1. DOMAIN ChainOps!EmptyMap = {}
    BY DEF ChainOps!EmptyMap
  <2>. QED BY <2>1, FS_EmptySet DEF HashedUtxos
<1>7. HashedUtxos(Utxos)
  BY <1>3, <1>5, <1>6, AppliedHashed
<1>8. ChainSound
  BY <1>4, <1>7, WalletAssumption DEF ChainSound
<1>9. KeysSound
  BY <1>1 DEF KeysSound
<1>10. PaymentsSound
  BY <1>1, FS_EmptySet, WalletAssumption DEF PaymentsSound
<1>. QED BY <1>8, <1>9, <1>10 DEF WalletInv

\* One step of the wallet's commands and of the blocks.
LEMMA StepKeepsWallet == ASSUME WalletInv, [WalletNext]_vars PROVE WalletInv'
<1>1. CASE NewWallet
  BY <1>1, NewWalletKeeps
<1>2. CASE NewWalletFails
  BY <1>2, NewWalletFailsKeeps
<1>3. CASE MineToNewWallet
  BY <1>3, MineToNewWalletKeeps
<1>4. CASE MineToAddress
  BY <1>4, MineToAddressKeeps
<1>5. CASE \E amount \in Amounts : Send(amount)
  BY <1>5, SendKeeps
<1>6. CASE Confirm
  BY <1>6, ConfirmKeeps
<1>7. CASE UNCHANGED vars
  <2>1. UNCHANGED <<chain, key_file, generated, shown, payments>>
    BY <1>7 DEF vars
  <2>2. KeysSound'
    BY <2>1 DEF WalletInv, KeysSound
  <2>. QED BY <2>1, <2>2, ChainKept, PaymentsKept DEF WalletInv
<1>. QED BY <1>1, <1>2, <1>3, <1>4, <1>5, <1>6, <1>7 DEF WalletNext

\* The invariant of the wallet.
THEOREM WalletInvariant == WalletSpec => []WalletInv
<1>1. WalletInit => WalletInv
  BY InitialWallet
<1>2. WalletInv /\ [WalletNext]_vars => WalletInv'
  BY StepKeepsWallet
<1>. QED BY <1>1, <1>2, PTL DEF WalletSpec

\* The chain and the payments keep to their bounds, the key file holds one of
\* the keys that wallet --new generated or none, and only their addresses were
\* shown.
THEOREM WalletTypeCorrect == WalletSpec => []WalletTypeOK
<1>1. WalletInv => WalletTypeOK
  BY DEF WalletInv, ChainSound, KeysSound, PaymentsSound, WalletTypeOK
<1>. QED BY <1>1, WalletInvariant, PTL

\* What a user would ask for: the code does not reject 0, which is_valid_structure
\* then finds in an output, nor an amount that wraps to 0 with the fee, which
\* takes no inputs.
AmountsPositive == \A a \in Amounts : a # 0 /\ (a + Fee) % Word # 0

\* A payment that send printed is one that validate_transaction accepts, and it
\* stays so over new blocks, new keys and other payments, until a block spends
\* one of its inputs.
THEOREM PaymentsAlwaysValid ==
    ASSUME AmountsPositive PROVE WalletSpec => []PaymentStaysValid
<1>1. ASSUME WalletInv PROVE PaymentStaysValid
  <2>1. SUFFICES ASSUME NEW p \in payments
                 PROVE  \/ ChainOps!validate_transaction(Utxos, p.tx)
                        \/ Overtaken(p, chain)
    BY DEF PaymentStaysValid, Overtaken
  <2>2. PICK u : HashedUtxos(u) /\ Made(p, u)
    BY <1>1 DEF WalletInv, PaymentsSound
  <2>3. p.amount # 0 /\ (p.amount + Fee) % Word # 0
    BY <2>2 DEF Made, AmountsPositive
  <2>4. HashedUtxos(Utxos)
    BY <1>1 DEF WalletInv, ChainSound
  <2>5. InputKeys(p.tx) \subseteq DOMAIN Utxos
          => ChainOps!validate_transaction(Utxos, p.tx)
    BY <2>2, <2>3, <2>4, MadeValid
  <2>. QED BY <1>1, <2>5 DEF WalletInv, PaymentsSound
<1>. QED BY <1>1, WalletInvariant, PTL

\* What each address holds fits the width of the code's sums.
BalancesFit ==
    \A k \in Keys :
        Worth(ChainOps!get_utxos_for_address(Utxos, get_address(k))) < Word

\* All payments so far are exact.
PaymentsExact == \A p \in payments : Exact(p)

\* A payment that is sent while the balances fit is exact.
LEMMA ExactKept ==
    ASSUME WalletInv, BalancesFit, PaymentsExact, [WalletNext]_vars
    PROVE  PaymentsExact'
<1>1. CASE \E amount \in Amounts : Send(amount)
  <2>1. PICK p : Made(p, Utxos) /\ payments' = payments \cup {p}
    BY <1>1, SendAdds
  <2>2. HashedUtxos(Utxos)
    BY DEF WalletInv, ChainSound
  <2>3. Worth(p.utxos) < Word
    BY <2>1 DEF BalancesFit, Made
  <2>4. Exact(p)
    BY <2>1, <2>2, <2>3, MadeExact
  <2>. QED BY <2>1, <2>4 DEF PaymentsExact
<1>2. CASE UNCHANGED payments
  BY <1>2 DEF PaymentsExact
<1>3. UNCHANGED payments \/ \E amount \in Amounts : Send(amount)
  BY DEF WalletNext, NewWallet, NewWalletFails, MineToNewWallet, MineToAddress,
         Confirm, vars
<1>. QED BY <1>1, <1>2, <1>3

\* A payment takes from the sender what it gives to the payee, the change and
\* the fee, whatever it is and however often wallets pay each other, as long
\* as the sums over what an address holds fit the width of the integers.
THEOREM PaymentsAlwaysExact == WalletSpec /\ []BalancesFit => []PaymentExact
<1>1. WalletInit => PaymentsExact
  BY DEF WalletInit, PaymentsExact
<1>2. WalletInv /\ BalancesFit /\ PaymentsExact /\ [WalletNext]_vars => PaymentsExact'
  BY ExactKept
<1>3. PaymentsExact => PaymentExact
  BY DEF PaymentsExact, PaymentExact, Exact
<1>. QED BY <1>1, <1>2, <1>3, WalletInvariant, PTL DEF WalletSpec

-----------------------------------------------------------------------------
(* That the balances fit: mining is what brings coins.                     *)

\* What the hash in key k says the output is worth.
Value(K) == [k \in K |-> Stored(k).amount]

\* All coins of a UTXO set.
Coins(u) == SumFunctionOnSet(Value(DOMAIN u), DOMAIN u)

\* The values of some keys are those of more keys.
LEMMA ValueOfPart ==
    ASSUME NEW K, NEW L \in SUBSET K, IsFiniteSet(L), \A k \in L : Stored(k).amount \in Nat
    PROVE  /\ SumFunctionOnSet(Value(L), L) = SumFunctionOnSet(Value(K), L)
           /\ SumFunctionOnSet(Value(L), L) \in Nat
<1>1. \A k \in L : /\ Value(L)[k] \in Nat /\ Value(L)[k] \in Int
                   /\ Value(L)[k] = Value(K)[k]
  BY DEF Value
<1>2. SumFunctionOnSet(Value(K), L) = SumFunctionOnSet(Value(L), L)
  <2>1. \A k \in L : Value(L)[k] \in Int /\ Value(K)[k] = Value(L)[k]
    BY <1>1
  <2>. QED BY <2>1, WordAssumption, ChainP!SumSame, SameSums, SameFinite
<1>3. SumFunctionOnSet(Value(L), L) \in Nat
  BY <1>1, WordAssumption, ChainP!SumNat, SameSums, SameFinite
<1>. QED BY <1>2, <1>3

\* Two sets of keys are together worth no more than each for itself.
LEMMA ValueOfUnion ==
    ASSUME NEW A, NEW C, IsFiniteSet(A), IsFiniteSet(C),
           \A k \in A \cup C : Stored(k).amount \in Nat
    PROVE  /\ SumFunctionOnSet(Value(A), A) \in Nat
           /\ SumFunctionOnSet(Value(C), C) \in Nat
           /\ SumFunctionOnSet(Value(A \cup C), A \cup C) \in Nat
           /\ SumFunctionOnSet(Value(A \cup C), A \cup C)
                <= SumFunctionOnSet(Value(A), A) + SumFunctionOnSet(Value(C), C)
<1>. DEFINE f == Value(A \cup C)
            D == C \ A
<1>1. \A k \in A \cup C : f[k] \in Nat /\ f[k] \in Int
  BY DEF Value
<1>2. /\ IsFiniteSet(D) /\ IsFiniteSet(A \cup C) /\ D \in SUBSET C
      /\ A \cup D = A \cup C /\ A \cap D = {}
  <2>1. IsFiniteSet(D)
    BY FS_Difference
  <2>2. IsFiniteSet(A \cup C)
    BY FS_Union
  <2>. QED BY <2>1, <2>2
<1>3. /\ SumFunctionOnSet(Value(A), A) = SumFunctionOnSet(f, A)
      /\ SumFunctionOnSet(Value(A), A) \in Nat
  BY ValueOfPart
<1>4. /\ SumFunctionOnSet(Value(C), C) = SumFunctionOnSet(f, C)
      /\ SumFunctionOnSet(Value(C), C) \in Nat
  BY ValueOfPart
<1>5. SumFunctionOnSet(f, A \cup C) \in Nat
  BY <1>2, ValueOfPart
<1>. HIDE DEF f
<1>6. SumFunctionOnSet(f, D) <= SumFunctionOnSet(f, C)
  <2>1. \A k \in C : f[k] \in Nat
    BY <1>1
  <2>. QED BY <1>2, <2>1, WordAssumption, ChainP!SumMonotone, SameSums, SameFinite
<1>7. SumFunctionOnSet(f, A \cup D) = SumFunctionOnSet(f, A) + SumFunctionOnSet(f, D)
  <2>1. \A k \in A \cup D : f[k] \in Int
    BY <1>1
  <2>. HIDE DEF D
  <2>. QED BY <1>2, <2>1, WordAssumption, ChainP!SumUnion, SameSums, SameFinite
<1>8. SumFunctionOnSet(f, D) \in Int
  <2>1. \A k \in D : f[k] \in Int
    BY <1>1
  <2>. HIDE DEF D
  <2>. QED BY <1>2, <2>1, WordAssumption, ChainP!SumInt, SameSums, SameFinite
<1>9. SumFunctionOnSet(f, A \cup C) <= SumFunctionOnSet(Value(A), A) + SumFunctionOnSet(Value(C), C)
  <2>1. PICK x \in Int : x = SumFunctionOnSet(f, D)
    BY <1>8
  <2>2. PICK y \in Nat : y = SumFunctionOnSet(f, C)
    BY <1>4
  <2>3. PICK z \in Nat : z = SumFunctionOnSet(f, A)
    BY <1>3
  <2>. HIDE DEF D
  <2>4. x <= y /\ SumFunctionOnSet(f, A \cup C) = z + x
    BY <1>2, <1>6, <1>7, <2>1, <2>2, <2>3
  <2>. QED BY <1>3, <1>4, <2>2, <2>3, <2>4
<1>. QED BY <1>3, <1>4, <1>5, <1>9 DEF f

\* What is left without the coins that are spent.
LEMMA ValueOfRest ==
    ASSUME NEW K, IsFiniteSet(K), \A k \in K : Stored(k).amount \in Nat,
           NEW S, NEW L \in SUBSET K, L \subseteq S
    PROVE  /\ IsFiniteSet(K \ S) /\ IsFiniteSet(L)
           /\ SumFunctionOnSet(Value(K \ S), K \ S) \in Nat
           /\ SumFunctionOnSet(Value(L), L) \in Nat
           /\ SumFunctionOnSet(Value(K), K) \in Nat
           /\ SumFunctionOnSet(Value(K \ S), K \ S) + SumFunctionOnSet(Value(L), L)
                <= SumFunctionOnSet(Value(K), K)
<1>. DEFINE f == Value(K)
            R == K \ S
            U == R \cup L
<1>1. /\ IsFiniteSet(R) /\ IsFiniteSet(L) /\ R \cap L = {} /\ U \in SUBSET K
      /\ R \in SUBSET K
  BY FS_Subset
<1>2. \A k \in K : f[k] \in Nat /\ f[k] \in Int
  BY DEF Value
<1>3. /\ SumFunctionOnSet(Value(R), R) = SumFunctionOnSet(f, R)
      /\ SumFunctionOnSet(Value(R), R) \in Nat
  BY <1>1, ValueOfPart
<1>4. /\ SumFunctionOnSet(Value(L), L) = SumFunctionOnSet(f, L)
      /\ SumFunctionOnSet(Value(L), L) \in Nat
  BY <1>1, ValueOfPart
<1>5. SumFunctionOnSet(f, K) \in Nat
  BY ValueOfPart
<1>. HIDE DEF f, R
<1>6. SumFunctionOnSet(f, R \cup L) = SumFunctionOnSet(f, R) + SumFunctionOnSet(f, L)
  <2>1. \A k \in R \cup L : f[k] \in Int
    BY <1>1, <1>2
  <2>. QED BY <1>1, <2>1, WordAssumption, ChainP!SumUnion, SameSums, SameFinite
<1>7. SumFunctionOnSet(f, U) <= SumFunctionOnSet(f, K)
  <2>. HIDE DEF U
  <2>. QED BY <1>1, <1>2, WordAssumption, ChainP!SumMonotone, SameSums, SameFinite
<1>8. SumFunctionOnSet(Value(R), R) + SumFunctionOnSet(Value(L), L) <= SumFunctionOnSet(f, K)
  BY <1>3, <1>4, <1>6, <1>7
<1>. QED BY <1>1, <1>3, <1>4, <1>5, <1>8 DEF f, R

\* The outputs of a transaction are worth what their amounts sum up to.
LEMMA ValueOfOutputs ==
    ASSUME NEW t, HashedTx(t)
    PROVE  /\ IsFiniteSet(OutputKeys(t))
           /\ \A k \in OutputKeys(t) : Stored(k).amount \in Nat
           /\ SumFunctionOnSet(Value(OutputKeys(t)), OutputKeys(t))
                = SumFunction([i \in DOMAIN t.outputs |-> t.outputs[i].amount])
<1>. DEFINE I == DOMAIN t.outputs
            K == OutputKeys(t)
            e == [i \in I |-> utxo_key(t.hash, i - 1)]
            f == [i \in I |-> t.outputs[i].amount]
            g == Value(K)
<1>1. /\ IsFiniteSet(I) /\ I = 1..Len(t.outputs) /\ Len(t.outputs) \in Nat
      /\ \A i \in I : t.outputs[i].amount \in Nat
  BY FS_Interval DEF HashedTx
<1>2. K = {e[i] : i \in I}
  BY DEF OutputKeys
<1>3. ASSUME NEW i \in I PROVE Stored(e[i]).amount = t.outputs[i].amount
  <2>1. t.hash = [sha256d |-> tx_serialize(t)] /\ tx_serialize(t).outputs = t.outputs
    BY DEF HashedTx, tx_calculate_hash, double_sha256, tx_serialize
  <2>2. e[i] = [tx_id |-> t.hash, output_index |-> i - 1] /\ i \in Int
    BY <1>1 DEF utxo_key
  <2>3. e[i].output_index + 1 = i /\ e[i].tx_id.sha256d.outputs = t.outputs
    BY <2>1, <2>2
  <2>. HIDE DEF e
  <2>. QED BY <2>3 DEF Stored
<1>4. ASSUME NEW i \in I, NEW j \in I, e[i] = e[j] PROVE i = j
  <2>1. i \in Int /\ j \in Int
    BY <1>1
  <2>2. i - 1 = j - 1
    BY <1>4 DEF utxo_key
  <2>. QED BY <2>1, <2>2
<1>5. \A k \in K : Stored(k).amount \in Nat
  <2>. HIDE DEF e, K
  <2>. QED BY <1>1, <1>2, <1>3
<1>6. \A i \in I : f[i] \in Int /\ g[e[i]] = f[i]
  <2>1. \A i \in I : e[i] \in K /\ f[i] = t.outputs[i].amount
    BY <1>2
  <2>. HIDE DEF e, K, f
  <2>. QED BY <1>1, <1>3, <2>1 DEF Value
<1>7. SumFunction(f) = SumFunctionOnSet(f, I)
  BY DEF SumFunction
<1>. HIDE DEF e, f, g, K, I
<1>8. SumFunctionOnSet(g, {e[i] : i \in I}) = SumFunctionOnSet(f, I)
  <2>1. \A x, y \in I : e[x] = e[y] => x = y
    BY <1>4
  <2>2. ChainP!IsFiniteSet(I)
    BY <1>1, SameFinite
  <2>3. ChainP!SumFunctionOnSet(g, {e[i] : i \in I}) = ChainP!SumFunctionOnSet(f, I)
    BY ONLY <1>6, <2>1, <2>2, WordAssumption, ChainP!SumImage
  <2>. QED BY <2>3, SameSums
<1>9. IsFiniteSet(K)
  BY OutputKeysFinite DEF K
<1>10. SumFunctionOnSet(g, K) = SumFunction(f)
  BY <1>2, <1>7, <1>8
<1>. QED BY <1>5, <1>9, <1>10 DEF g, f, K, I

\* The inputs of a payment are worth what it takes in.
LEMMA ValueOfInputs ==
    ASSUME NEW u, HashedUtxos(u), NEW p, Made(p, u)
    PROVE  /\ IsFiniteSet(InputKeys(p.tx))
           /\ SumFunctionOnSet(Value(InputKeys(p.tx)), InputKeys(p.tx)) = In(p)
<1>0. /\ IsFiniteSet(p.utxos)
      /\ \A x \in p.utxos : x.amount \in Nat
                            /\ u[utxo_key(x.tx_id, x.output_index)] = x
  BY MadeTakes
<1>1. PICK order, n : Takes(p, u, order, n)
  BY MadeTakes
<1>. DEFINE I == 1..n
            K == InputKeys(p.tx)
            e == [i \in I |-> utxo_key(order[i].tx_id, order[i].output_index)]
            f == [i \in I |-> order[i].amount]
            g == Value(K)
<1>2. /\ n \in Nat /\ IsFiniteSet(I)
      /\ \A i \in I : /\ e[i] \in DOMAIN u /\ u[e[i]] = order[i]
                      /\ f[i] = order[i].amount /\ order[i].amount \in Nat
      /\ \A i, j \in I : order[i] = order[j] => i = j
  <2>1. n \in Nat /\ IsFiniteSet(I)
    BY <1>1, FS_Interval DEF Takes
  <2>2. \A i \in I : /\ e[i] \in DOMAIN u /\ u[e[i]] = order[i]
                     /\ f[i] = order[i].amount /\ order[i].amount \in Nat
    BY <1>1 DEF Takes
  <2>3. \A i, j \in I : order[i] = order[j] => i = j
    BY <1>1 DEF Takes
  <2>. QED BY <2>1, <2>2, <2>3
<1>3. K = {e[i] : i \in I}
  BY <1>1, InputsOf
<1>4. In(p) = SumFunction(f)
  BY <1>0, <1>1, TakenIn
<1>5. SumFunction(f) = SumFunctionOnSet(f, I)
  BY DEF SumFunction
<1>. HIDE DEF I, K, e, f
<1>6. \A i \in I : f[i] \in Int /\ g[e[i]] = f[i]
  <2>1. SUFFICES ASSUME NEW i \in I PROVE f[i] \in Int /\ g[e[i]] = f[i]
    OBVIOUS
  <2>2. e[i] \in K /\ u[e[i]] = Stored(e[i])
    BY <1>2, <1>3 DEF HashedUtxos
  <2>3. g[e[i]] = Stored(e[i]).amount
    BY <2>2 DEF Value
  <2>. QED BY <1>2, <2>2, <2>3
<1>7. \A x, y \in I : e[x] = e[y] => x = y
  BY <1>2
<1>. HIDE DEF g
<1>8. SumFunctionOnSet(g, {e[i] : i \in I}) = SumFunctionOnSet(f, I)
  <2>1. ChainP!IsFiniteSet(I)
    BY <1>2, SameFinite
  <2>2. ChainP!SumFunctionOnSet(g, {e[i] : i \in I}) = ChainP!SumFunctionOnSet(f, I)
    BY ONLY <1>6, <1>7, <2>1, WordAssumption, ChainP!SumImage
  <2>. QED BY <2>2, SameSums
<1>9. IsFiniteSet({e[i] : i \in I})
  BY <1>2, ImageFinite
<1>. QED BY <1>3, <1>4, <1>5, <1>8, <1>9 DEF g, K

\* A sum of one number.
LEMMA SumOfOne ==
    ASSUME NEW f, DOMAIN f = {1}, f[1] \in Int
    PROVE  SumFunction(f) = f[1]
<1>1. SumFunctionOnSet(f, {}) = 0
  BY WordAssumption, ChainP!SumEmpty, SameSums
<1>2. SumFunctionOnSet(f, {} \cup {1}) = SumFunctionOnSet(f, {}) + f[1]
  BY FS_EmptySet, WordAssumption, ChainP!SumAdd, SameSums, SameFinite
<1>3. {} \cup {1} = {1}
  OBVIOUS
<1>. QED BY <1>1, <1>2, <1>3 DEF SumFunction

\* The fees of the transactions.
FeesOf(txs) == SumFunction([i \in DOMAIN txs |-> txs[i].fee])

\* Block b pays address no more than the reward and the fees, and holds the
\* transactions.
Brings(b, address, time, txs, fees) ==
    \E amount \in Nat :
        /\ amount <= Reward + fees
        /\ ChainOps!BlockTxs(b) = {coinbase_transaction(address, amount, time)}
                                    \cup {txs[i] : i \in DOMAIN txs}

\* What a miner puts into a block: a coinbase of no more than the reward and
\* the fees, and the transactions.
LEMMA MinedParts ==
    ASSUME NEW previous, NEW address, NEW time,
           NEW T, NEW txs \in Seq(T), FeesOf(txs) \in Nat
    PROVE  Brings(mine_block(previous, txs, address, 1, Reward, time),
                  address, time, txs, FeesOf(txs))
<1>. DEFINE b == mine_block(previous, txs, address, 1, Reward, time)
            fees == FeesOf(txs)
            amount == (Reward + fees) % Word
            cb == coinbase_transaction(address, amount, time)
            all == <<cb>> \o txs
<1>1. b.transactions = all
  BY DEF mine_block, Sealed, FeesOf
<1>2. amount \in Nat /\ amount <= Reward + fees
  <2>1. Reward + fees \in Nat
    BY WalletAssumption
  <2>2. \A x \in Nat : x % Word \in Nat /\ x % Word <= x
    BY WordAssumption
  <2>. QED BY <2>1, <2>2
<1>. HIDE DEF b, cb, amount
<1>3. /\ Len(txs) \in Nat /\ DOMAIN txs = 1..Len(txs)
      /\ DOMAIN all = 1..(1 + Len(txs)) /\ all[1] = cb
      /\ \A i \in 1..Len(txs) : all[1 + i] = txs[i]
  OBVIOUS
<1>. HIDE DEF all
<1>4. {all[i] : i \in DOMAIN all} = {cb} \cup {txs[i] : i \in DOMAIN txs}
  <2>1. ASSUME NEW i \in DOMAIN all PROVE all[i] \in {cb} \cup {txs[j] : j \in DOMAIN txs}
    <3>1. i = 1 \/ (i - 1 \in 1..Len(txs) /\ i = 1 + (i - 1))
      BY <1>3
    <3>. QED BY <1>3, <3>1
  <2>2. cb \in {all[i] : i \in DOMAIN all}
    <3>1. 1 \in DOMAIN all
      BY <1>3
    <3>. QED BY <1>3, <3>1
  <2>3. ASSUME NEW j \in DOMAIN txs PROVE txs[j] \in {all[i] : i \in DOMAIN all}
    <3>1. 1 + j \in DOMAIN all /\ all[1 + j] = txs[j]
      BY <1>3
    <3>. QED BY <3>1
  <2>. QED BY <2>1, <2>2, <2>3
<1>5. ChainOps!BlockTxs(b) = {cb} \cup {txs[i] : i \in DOMAIN txs}
  BY <1>1, <1>4 DEF ChainOps!BlockTxs
<1>. QED BY <1>2, <1>5 DEF b, cb, Brings

\* The outputs of a coinbase are worth its amount.
LEMMA CoinbaseWorth ==
    ASSUME NEW address, NEW amount \in Nat, NEW time
    PROVE  LET K == OutputKeys(coinbase_transaction(address, amount, time))
           IN  /\ IsFiniteSet(K)
               /\ \A k \in K : Stored(k).amount \in Nat
               /\ SumFunctionOnSet(Value(K), K) = amount
<1>. DEFINE t == coinbase_transaction(address, amount, time)
            f == [i \in DOMAIN t.outputs |-> t.outputs[i].amount]
<1>1. HashedTx(t)
  BY CoinbaseHashed
<1>2. t.outputs = <<[address |-> address, amount |-> amount]>>
  BY DEF coinbase_transaction
<1>3. DOMAIN f = {1} /\ f[1] = amount
  <2>. HIDE DEF t
  <2>1. DOMAIN t.outputs = 1..1 /\ t.outputs[1].amount = amount
    BY <1>2
  <2>2. 1..1 = {1}
    OBVIOUS
  <2>. QED BY <2>1, <2>2
<1>. HIDE DEF t
<1>4. SumFunction(f) = amount
  <2>. HIDE DEF f
  <2>. QED BY <1>3, SumOfOne
<1>. QED BY <1>1, <1>4, ValueOfOutputs DEF t

\* Entries that say what the hashes say are worth what the hashes say.
LEMMA HashedValues ==
    ASSUME NEW u, HashedUtxos(u)
    PROVE  IsFiniteSet(DOMAIN u) /\ \A k \in DOMAIN u : Stored(k).amount \in Nat
  BY DEF HashedUtxos

\* A block that holds a coinbase only brings its amount and no more.
LEMMA RewardBrings ==
    ASSUME NEW u, HashedUtxos(u), NEW b, NEW address, NEW amount \in Nat, NEW time,
           ChainOps!BlockTxs(b) = {coinbase_transaction(address, amount, time)}
    PROVE  Coins(ChainOps!apply_block_to_utxo_set(u, b)) <= Coins(u) + amount
<1>. DEFINE t == coinbase_transaction(address, amount, time)
            C == OutputKeys(t)
            R == DOMAIN u \ ChainOps!Spends(b)
            v == ChainOps!apply_block_to_utxo_set(u, b)
<1>1. ChainOps!Creates(b) = C
  BY SameKeys DEF ChainOps!Creates
<1>2. DOMAIN v = R \cup C
  BY <1>1 DEF ChainOps!apply_block_to_utxo_set
<1>3. /\ IsFiniteSet(C) /\ \A k \in C : Stored(k).amount \in Nat
      /\ SumFunctionOnSet(Value(C), C) = amount
  BY CoinbaseWorth
<1>4. IsFiniteSet(DOMAIN u) /\ \A k \in DOMAIN u : Stored(k).amount \in Nat
  BY HashedValues
<1>. HIDE DEF C, v
<1>5. /\ IsFiniteSet(R) /\ SumFunctionOnSet(Value(R), R) \in Nat
      /\ SumFunctionOnSet(Value({}), {}) \in Nat
      /\ SumFunctionOnSet(Value(DOMAIN u), DOMAIN u) \in Nat
      /\ SumFunctionOnSet(Value(R), R) + SumFunctionOnSet(Value({}), {})
           <= SumFunctionOnSet(Value(DOMAIN u), DOMAIN u)
  <2>1. {} \in SUBSET (DOMAIN u) /\ {} \subseteq ChainOps!Spends(b)
    OBVIOUS
  <2>. QED BY <1>4, <2>1, ValueOfRest
<1>6. \A k \in R \cup C : Stored(k).amount \in Nat
  BY <1>3, <1>4
<1>. HIDE DEF R
<1>7. SumFunctionOnSet(Value(R \cup C), R \cup C)
        <= SumFunctionOnSet(Value(R), R) + SumFunctionOnSet(Value(C), C)
  BY <1>3, <1>5, <1>6, ValueOfUnion
<1>8. SumFunctionOnSet(Value(R \cup C), R \cup C) \in Nat
  BY <1>3, <1>5, <1>6, ValueOfUnion
<1>9. Coins(v) <= Coins(u) + amount
  BY <1>2, <1>3, <1>5, <1>7, <1>8 DEF Coins
<1>. QED BY <1>9 DEF v

\* A block with a payment that gives what it takes moves coins about, and
\* brings what the coinbase is worth above the fee.
LEMMA PaymentBrings ==
    ASSUME NEW u, HashedUtxos(u), NEW b, NEW address, NEW amount \in Nat, NEW time,
           NEW w, HashedUtxos(w), NEW p, Made(p, w), In(p) = Out(p) + Fee,
           InputKeys(p.tx) \subseteq DOMAIN u,
           ChainOps!BlockTxs(b) = {coinbase_transaction(address, amount, time), p.tx}
    PROVE  Coins(ChainOps!apply_block_to_utxo_set(u, b)) + Fee <= Coins(u) + amount
<1>. DEFINE t == coinbase_transaction(address, amount, time)
            C == OutputKeys(t)
            D == OutputKeys(p.tx)
            L == InputKeys(p.tx)
            R == DOMAIN u \ ChainOps!Spends(b)
            v == ChainOps!apply_block_to_utxo_set(u, b)
<1>1. ChainOps!Creates(b) = C \cup D
  BY SameKeys DEF ChainOps!Creates
<1>2. DOMAIN v = R \cup (C \cup D)
  BY <1>1 DEF ChainOps!apply_block_to_utxo_set
<1>3. L \in SUBSET (DOMAIN u) /\ L \subseteq ChainOps!Spends(b)
  BY SameKeys DEF ChainOps!Spends
<1>4. /\ IsFiniteSet(C) /\ \A k \in C : Stored(k).amount \in Nat
      /\ SumFunctionOnSet(Value(C), C) = amount
  BY CoinbaseWorth
<1>5. /\ IsFiniteSet(D) /\ \A k \in D : Stored(k).amount \in Nat
      /\ SumFunctionOnSet(Value(D), D) = Out(p)
  BY MadeHashed, ValueOfOutputs DEF Out
<1>6. SumFunctionOnSet(Value(L), L) = In(p)
  BY ValueOfInputs
<1>7. IsFiniteSet(DOMAIN u) /\ \A k \in DOMAIN u : Stored(k).amount \in Nat
  BY HashedValues
<1>. HIDE DEF C, D, L, v
<1>8. /\ IsFiniteSet(R) /\ SumFunctionOnSet(Value(R), R) \in Nat
      /\ SumFunctionOnSet(Value(L), L) \in Nat
      /\ SumFunctionOnSet(Value(DOMAIN u), DOMAIN u) \in Nat
      /\ SumFunctionOnSet(Value(R), R) + SumFunctionOnSet(Value(L), L)
           <= SumFunctionOnSet(Value(DOMAIN u), DOMAIN u)
  BY <1>3, <1>7, ValueOfRest
<1>9. /\ \A k \in C \cup D : Stored(k).amount \in Nat
      /\ \A k \in R \cup (C \cup D) : Stored(k).amount \in Nat
  BY <1>4, <1>5, <1>7
<1>. HIDE DEF R
<1>10. /\ SumFunctionOnSet(Value(C), C) \in Nat
       /\ SumFunctionOnSet(Value(D), D) \in Nat
       /\ SumFunctionOnSet(Value(C \cup D), C \cup D) \in Nat
       /\ SumFunctionOnSet(Value(C \cup D), C \cup D)
            <= SumFunctionOnSet(Value(C), C) + SumFunctionOnSet(Value(D), D)
  BY ONLY <1>4, <1>5, <1>9, ValueOfUnion
<1>11. IsFiniteSet(C \cup D)
  BY <1>4, <1>5, FS_Union
<1>12. PICK X : X = C \cup D
  OBVIOUS
<1>13. /\ SumFunctionOnSet(Value(R \cup X), R \cup X) \in Nat
       /\ SumFunctionOnSet(Value(R \cup X), R \cup X)
            <= SumFunctionOnSet(Value(R), R) + SumFunctionOnSet(Value(X), X)
  <2>1. IsFiniteSet(X) /\ \A k \in R \cup X : Stored(k).amount \in Nat
    BY <1>9, <1>11, <1>12
  <2>. QED BY ONLY <1>8, <2>1, ValueOfUnion
<1>14. Coins(v) = SumFunctionOnSet(Value(R \cup X), R \cup X)
  BY <1>2, <1>12 DEF Coins
<1>15. Coins(u) = SumFunctionOnSet(Value(DOMAIN u), DOMAIN u)
  BY DEF Coins
<1>16. SumFunctionOnSet(Value(X), X) = SumFunctionOnSet(Value(C \cup D), C \cup D)
  BY <1>12
<1>17. Fee \in Nat
  BY WalletAssumption
<1>18. PICK r \in Nat : r = SumFunctionOnSet(Value(R), R)
  BY <1>8
<1>19. PICK x \in Nat : x = SumFunctionOnSet(Value(X), X)
  BY <1>10, <1>16
<1>20. PICK o \in Nat : o = Out(p)
  BY <1>5, <1>10
<1>21. PICK c \in Nat : c = Coins(v)
  BY <1>13, <1>14
<1>22. PICK d \in Nat : d = Coins(u)
  BY <1>8, <1>15
<1>23. c <= r + x
  BY <1>13, <1>14, <1>18, <1>19, <1>21
<1>24. x <= amount + o
  BY <1>4, <1>5, <1>10, <1>16, <1>19, <1>20
<1>25. r + (o + Fee) <= d
  BY <1>6, <1>8, <1>15, <1>18, <1>20, <1>22
<1>26. c + Fee <= d + amount
  BY ONLY <1>17, <1>23, <1>24, <1>25, c \in Nat, d \in Nat, r \in Nat, x \in Nat, o \in Nat,
          amount \in Nat
<1>. QED BY <1>21, <1>22, <1>26 DEF v

\* An address holds no more than there is.
LEMMA WorthWithin ==
    ASSUME NEW u, HashedUtxos(u), NEW address
    PROVE  /\ Worth(ChainOps!get_utxos_for_address(u, address)) <= Coins(u)
           /\ Worth(ChainOps!get_utxos_for_address(u, address)) \in Nat
           /\ Coins(u) \in Nat
<1>. DEFINE D == {x \in DOMAIN u : u[x].address = address}
            f == Value(D)
            E == ChainOps!get_utxos_for_address(u, address)
            g == [x \in E |-> x.amount]
<1>1. /\ IsFiniteSet(DOMAIN u) /\ \A k \in DOMAIN u : Stored(k).amount \in Nat
  BY HashedValues
<1>2. D \in SUBSET DOMAIN u /\ E = {u[k] : k \in D}
  BY DEF ChainOps!get_utxos_for_address
<1>3. \A x, y \in D : u[x] = u[y] => x = y
  BY <1>2, EntryKey
<1>4. \A k \in D : f[k] \in Int /\ g[u[k]] = f[k]
  <2>1. SUFFICES ASSUME NEW k \in D PROVE f[k] \in Int /\ g[u[k]] = f[k]
    OBVIOUS
  <2>2. k \in DOMAIN u /\ u[k] \in E
    BY <1>2
  <2>3. u[k] = Stored(k)
    BY <2>2 DEF HashedUtxos
  <2>4. g[u[k]] = u[k].amount
    BY <2>2
  <2>5. f[k] = Stored(k).amount
    BY DEF Value
  <2>. QED BY <1>1, <2>2, <2>3, <2>4, <2>5
<1>5. Worth(E) = SumFunctionOnSet(g, E)
  BY DEF Worth, SumFunction
<1>. HIDE DEF D, f, E, g
<1>6. IsFiniteSet(D)
  BY <1>1, <1>2, FS_Subset
<1>7. SumFunctionOnSet(g, {u[k] : k \in D}) = SumFunctionOnSet(f, D)
  <2>1. ChainP!IsFiniteSet(D)
    BY <1>6, SameFinite
  <2>2. ChainP!SumFunctionOnSet(g, {u[k] : k \in D}) = ChainP!SumFunctionOnSet(f, D)
    BY ONLY <1>3, <1>4, <2>1, WordAssumption, ChainP!SumImage
  <2>. QED BY <2>2, SameSums
<1>8. /\ SumFunctionOnSet(Value(D), D) = SumFunctionOnSet(Value(DOMAIN u), D)
      /\ SumFunctionOnSet(Value(D), D) \in Nat
  BY <1>1, <1>2, <1>6, ValueOfPart
<1>9. SumFunctionOnSet(Value(DOMAIN u), DOMAIN u) \in Nat
  BY <1>1, ValueOfPart
<1>10. SumFunctionOnSet(Value(DOMAIN u), D) <= SumFunctionOnSet(Value(DOMAIN u), DOMAIN u)
  <2>. DEFINE h == Value(DOMAIN u)
  <2>1. \A k \in DOMAIN u : h[k] \in Nat
    BY <1>1 DEF Value
  <2>. HIDE DEF h
  <2>2. SumFunctionOnSet(h, D) <= SumFunctionOnSet(h, DOMAIN u)
    BY <1>1, <1>2, <2>1, WordAssumption, ChainP!SumMonotone, SameSums, SameFinite
  <2>. QED BY <2>2 DEF h
<1>11. Worth(E) <= Coins(u) /\ Worth(E) \in Nat /\ Coins(u) \in Nat
  BY <1>2, <1>5, <1>7, <1>8, <1>9, <1>10 DEF f, Coins
<1>. QED BY <1>11 DEF E

\* No amount with the fee wraps, and all rewards together fit the width.
AmountsFit ==
    /\ \A a \in Amounts : a + Fee < Word
    /\ Reward * MaxBlocks < Word

\* There are no more coins than the blocks have brought.
CoinsBounded == Coins(Utxos) <= Reward * (Len(chain) - 1)

\* Rewards add up.
LEMMA RewardsAdd ==
    ASSUME NEW n \in Nat
    PROVE  Reward * n \in Nat /\ Reward * (n + 1) = Reward * n + Reward
  BY WalletAssumption

\* Fewer blocks bring no more.
LEMMA RewardsGrow ==
    ASSUME NEW n \in Nat, n <= MaxBlocks
    PROVE  Reward * n <= Reward * MaxBlocks /\ Reward * MaxBlocks \in Nat
  BY WalletAssumption

\* With so many coins the balances fit.
LEMMA BoundedFit ==
    ASSUME AmountsFit, WalletInv, CoinsBounded PROVE BalancesFit
<1>1. SUFFICES ASSUME NEW k \in Keys
               PROVE  Worth(ChainOps!get_utxos_for_address(Utxos, get_address(k))) < Word
  BY DEF BalancesFit
<1>. DEFINE x == Worth(ChainOps!get_utxos_for_address(Utxos, get_address(k)))
<1>2. x <= Coins(Utxos) /\ x \in Nat /\ Coins(Utxos) \in Nat
  BY WorthWithin DEF WalletInv, ChainSound
<1>3. Len(chain) - 1 \in Nat /\ Len(chain) - 1 <= MaxBlocks
  BY WalletAssumption DEF WalletInv, ChainSound
<1>4. PICK n \in Nat : n = Len(chain) - 1
  BY <1>3
<1>5. Reward * n <= Reward * MaxBlocks /\ Reward * MaxBlocks \in Nat /\ Reward * n \in Nat
  BY <1>3, <1>4, RewardsGrow, RewardsAdd
<1>6. Coins(Utxos) <= Reward * n /\ Reward * MaxBlocks < Word
  BY <1>4 DEF CoinsBounded, AmountsFit
<1>. HIDE DEF x
<1>7. x < Word
  BY <1>2, <1>5, <1>6, WordAssumption
<1>. QED BY <1>7 DEF x

\* A block that brings no more than the reward keeps the bound.
LEMMA BoundKept ==
    ASSUME WalletInv, CoinsBounded, Len(chain') = Len(chain) + 1,
           Coins(Utxos') \in Nat, Coins(Utxos) \in Nat,
           Coins(Utxos') <= Coins(Utxos) + Reward
    PROVE  CoinsBounded'
<1>1. PICK n \in Nat : n = Len(chain) - 1
  BY WalletAssumption DEF WalletInv, ChainSound
<1>2. Len(chain') - 1 = n + 1
  BY <1>1 DEF WalletInv, ChainSound
<1>3. Reward * (n + 1) = Reward * n + Reward /\ Reward * n \in Nat /\ Reward \in Nat
  BY RewardsAdd, WalletAssumption
<1>4. Coins(Utxos) <= Reward * n
  BY <1>1 DEF CoinsBounded
<1>5. Coins(Utxos') <= Reward * (n + 1)
  BY <1>3, <1>4
<1>. QED BY <1>2, <1>5 DEF CoinsBounded

\* What MineFor does to the UTXO set.
LEMMA MineApplies ==
    ASSUME ChainSound, NEW txs, NEW address, MineFor(address, txs)
    PROVE  LET b == mine_block(Last(chain), txs, address, 1, Reward, now)
           IN  /\ Len(chain') = Len(chain) + 1
               /\ Utxos' = ChainOps!apply_block_to_utxo_set(Utxos, b)
<1>. DEFINE b == mine_block(Last(chain), txs, address, 1, Reward, now)
<1>1. chain' = Append(chain, b)
  BY DEF MineFor
<1>. HIDE DEF b
<1>2. PICK S : chain \in Seq(S)
  BY DEF ChainSound
<1>3. /\ Len(chain) \in Nat /\ DOMAIN chain = 1..Len(chain)
      /\ DOMAIN chain' = 1..(Len(chain) + 1)
      /\ Len(chain') = Len(chain) + 1
      /\ \A i \in 1..Len(chain) : chain'[i] = chain[i]
      /\ chain'[Len(chain) + 1] = b
  <2>1. /\ Len(chain) \in Nat /\ DOMAIN chain = 1..Len(chain)
        /\ DOMAIN Append(chain, b) = 1..(Len(chain) + 1)
        /\ Len(Append(chain, b)) = Len(chain) + 1
        /\ \A i \in 1..Len(chain) : Append(chain, b)[i] = chain[i]
        /\ Append(chain, b)[Len(chain) + 1] = b
    BY ONLY <1>2, OneMore
  <2>. QED BY ONLY <1>1, <2>1, Zenon
<1>4. Folded(chain') = ChainOps!apply_block_to_utxo_set(Folded(chain), chain'[Len(chain) + 1])
  BY <1>3, FoldNext
<1>5. Utxos' = ChainOps!apply_block_to_utxo_set(Utxos, b)
  BY <1>3, <1>4 DEF Utxos, Folded
<1>. QED BY <1>3, <1>5 DEF b

\* Without transactions there are no fees.
LEMMA NoFees == SumFunction([i \in DOMAIN <<>> |-> <<>>[i].fee]) = 0
<1>. DEFINE f == [i \in DOMAIN <<>> |-> <<>>[i].fee]
<1>1. DOMAIN f = {}
  OBVIOUS
<1>. HIDE DEF f
<1>2. SumFunctionOnSet(f, {}) = 0
  BY WordAssumption, ChainP!SumEmpty, SameSums
<1>3. SumFunction(f) = 0
  BY <1>1, <1>2 DEF SumFunction
<1>. QED BY <1>3 DEF f

\* A block without transactions keeps the bound.
LEMMA RewardBounded ==
    ASSUME WalletInv, WalletInv', CoinsBounded, NEW address, MineFor(address, <<>>)
    PROVE  CoinsBounded'
<1>. DEFINE b == mine_block(Last(chain), <<>>, address, 1, Reward, now)
<1>1. Len(chain') = Len(chain) + 1 /\ Utxos' = ChainOps!apply_block_to_utxo_set(Utxos, b)
  BY MineApplies DEF WalletInv
<1>2. PICK amount \in Nat :
        /\ amount <= Reward + 0
        /\ ChainOps!BlockTxs(b) = {coinbase_transaction(address, amount, now)}
                                    \cup {<<>>[i] : i \in DOMAIN <<>>}
  <2>1. PICK txs : txs = <<>>
    OBVIOUS
  <2>2. txs \in Seq({})
    BY <2>1
  <2>3. FeesOf(txs) = 0
    BY ONLY <2>1, NoFees, Zenon DEF FeesOf
  <2>4. FeesOf(txs) \in Nat
    BY <2>3
  <2>5. PICK tip : tip = Last(chain)
    OBVIOUS
  <2>6. Brings(mine_block(tip, txs, address, 1, Reward, now), address, now, txs, FeesOf(txs))
    BY ONLY <2>2, <2>4, MinedParts
  <2>7. Brings(b, address, now, <<>>, 0)
    BY ONLY <2>1, <2>3, <2>5, <2>6, Zenon DEF b
  <2>. QED BY ONLY <2>7, Zenon DEF Brings
<1>. HIDE DEF b
<1>3. ChainOps!BlockTxs(b) = {coinbase_transaction(address, amount, now)}
  <2>1. {<<>>[i] : i \in DOMAIN <<>>} = {}
    OBVIOUS
  <2>. QED BY <1>2, <2>1
<1>4. HashedUtxos(Utxos) /\ HashedUtxos(Utxos')
  BY DEF WalletInv, ChainSound
<1>5. Coins(Utxos') <= Coins(Utxos) + amount
  BY <1>1, <1>3, <1>4, RewardBrings
<1>6. Coins(Utxos) \in Nat /\ Coins(Utxos') \in Nat
  BY <1>4, WorthWithin
<1>7. Reward \in Nat
  BY WalletAssumption
<1>8. Coins(Utxos') <= Coins(Utxos) + Reward
  BY <1>2, <1>5, <1>6, <1>7
<1>. QED BY <1>1, <1>6, <1>8, BoundKept

\* So does a block with a payment that gives what it takes.
LEMMA PaymentBounded ==
    ASSUME AmountsFit, WalletInv, WalletInv', PaymentsExact, CoinsBounded, Confirm
    PROVE  CoinsBounded'
<1>1. PICK p \in payments : /\ ChainOps!validate_transaction(Utxos, p.tx)
                            /\ MineFor(get_address(Payee), <<p.tx>>)
  BY DEF Confirm
<1>. DEFINE txs == <<p.tx>>
            b == mine_block(Last(chain), txs, get_address(Payee), 1, Reward, now)
<1>2. Len(chain') = Len(chain) + 1 /\ Utxos' = ChainOps!apply_block_to_utxo_set(Utxos, b)
  BY <1>1, MineApplies DEF WalletInv
<1>3. PICK w : HashedUtxos(w) /\ Made(p, w)
  BY DEF WalletInv, PaymentsSound
<1>4. p.tx.fee = Fee /\ Fee \in Nat
  BY <1>3, MadeTakes DEF Takes, Paying
<1>5. SumFunction([i \in DOMAIN txs |-> txs[i].fee]) = Fee
  <2>. DEFINE f == [i \in DOMAIN txs |-> txs[i].fee]
  <2>1. DOMAIN f = {1} /\ f[1] = Fee
    <3>1. DOMAIN txs = {1} /\ txs[1] = p.tx
      OBVIOUS
    <3>. HIDE DEF txs
    <3>. QED BY <1>4, <3>1
  <2>. HIDE DEF f
  <2>2. SumFunction(f) = Fee
    BY <1>4, <2>1, SumOfOne
  <2>. QED BY <2>2 DEF f
<1>6. txs \in Seq({p.tx}) /\ \A t \in {p.tx} : t.fee \in Nat
  BY <1>4
<1>7. {txs[i] : i \in DOMAIN txs} = {p.tx}
  <2>1. DOMAIN txs = {1} /\ txs[1] = p.tx
    OBVIOUS
  <2>. HIDE DEF txs
  <2>. QED BY <2>1
<1>. HIDE DEF txs
<1>8. PICK amount \in Nat :
        /\ amount <= Reward + Fee
        /\ ChainOps!BlockTxs(b) = {coinbase_transaction(get_address(Payee), amount, now)}
                                    \cup {txs[i] : i \in DOMAIN txs}
  <2>1. FeesOf(txs) = Fee /\ FeesOf(txs) \in Nat
    BY <1>4, <1>5 DEF FeesOf
  <2>2. PICK tip : tip = Last(chain)
    OBVIOUS
  <2>3. PICK address : address = get_address(Payee)
    OBVIOUS
  <2>4. PICK T : txs \in Seq(T)
    BY <1>6
  <2>5. Brings(mine_block(tip, txs, address, 1, Reward, now), address, now, txs, FeesOf(txs))
    BY ONLY <2>1, <2>4, MinedParts
  <2>6. Brings(b, get_address(Payee), now, txs, Fee)
    BY ONLY <2>1, <2>2, <2>3, <2>5, Zenon DEF b
  <2>. QED BY ONLY <2>6, Zenon DEF Brings
<1>. HIDE DEF b
<1>9. ChainOps!BlockTxs(b) = {coinbase_transaction(get_address(Payee), amount, now), p.tx}
  BY <1>7, <1>8
<1>10. HashedUtxos(Utxos) /\ HashedUtxos(Utxos')
  BY DEF WalletInv, ChainSound
<1>11. InputKeys(p.tx) \subseteq DOMAIN Utxos
  BY <1>1, SameKeys DEF ChainOps!validate_transaction
<1>12. In(p) = Out(p) + Fee
  <2>1. p.amount + Fee < Word
    BY <1>3 DEF AmountsFit, Made
  <2>. QED BY <2>1 DEF PaymentsExact, Exact
<1>13. Coins(Utxos') + Fee <= Coins(Utxos) + amount
  BY <1>2, <1>3, <1>9, <1>10, <1>11, <1>12, PaymentBrings
<1>14. Coins(Utxos) \in Nat /\ Coins(Utxos') \in Nat
  BY <1>10, WorthWithin
<1>15. Reward \in Nat
  BY WalletAssumption
<1>16. Coins(Utxos') <= Coins(Utxos) + Reward
  BY <1>4, <1>8, <1>13, <1>14, <1>15
<1>. QED BY <1>2, <1>14, <1>16, BoundKept

\* There are no coins at first.
LEMMA InitialCoins == ASSUME WalletInit PROVE CoinsBounded
<1>. DEFINE b == create_genesis_block(0)
<1>1. chain = <<b>>
  BY DEF WalletInit
<1>2. b.transactions = <<>>
  BY DEF create_genesis_block, Sealed
<1>. HIDE DEF b
<1>3. Len(chain) = 1 /\ DOMAIN chain = 1..1 /\ chain[1] = b
  BY <1>1
<1>4. Utxos = ChainOps!apply_block_to_utxo_set(ChainOps!EmptyMap, b)
  BY <1>3, FoldFirst DEF Utxos, Folded
<1>5. ChainOps!BlockTxs(b) = {}
  <2>1. DOMAIN b.transactions = {}
    BY <1>2
  <2>. QED BY <2>1 DEF ChainOps!BlockTxs
<1>6. DOMAIN Utxos = {}
  BY <1>4, <1>5 DEF ChainOps!apply_block_to_utxo_set, ChainOps!Creates, ChainOps!EmptyMap
<1>7. Coins(Utxos) = 0
  BY <1>6, WordAssumption, ChainP!SumEmpty, SameSums DEF Coins
<1>8. Reward * (Len(chain) - 1) = 0
  BY <1>3, WalletAssumption
<1>. QED BY <1>7, <1>8 DEF CoinsBounded

\* No coins come from anything but mining, so that what each address holds
\* fits the width of the sums.
THEOREM BalancesAlwaysFit == ASSUME AmountsFit PROVE WalletSpec => []BalancesFit
<1>. DEFINE Inv == WalletInv /\ PaymentsExact /\ CoinsBounded
<1>1. WalletInit => Inv
  BY InitialWallet, InitialCoins DEF WalletInit, PaymentsExact
<1>2. ASSUME Inv, [WalletNext]_vars PROVE Inv'
  <2>1. WalletInv'
    BY <1>2, StepKeepsWallet
  <2>2. PaymentsExact'
    BY <1>2, BoundedFit, ExactKept
  <2>3. CoinsBounded'
    <3>1. CASE MineToNewWallet
      BY <1>2, <2>1, <3>1, RewardBounded DEF MineToNewWallet
    <3>2. CASE MineToAddress
      BY <1>2, <2>1, <3>2, RewardBounded DEF MineToAddress
    <3>3. CASE Confirm
      BY <1>2, <2>1, <3>3, PaymentBounded
    <3>4. CASE UNCHANGED chain
      BY <1>2, <3>4 DEF CoinsBounded, Utxos
    <3>5. \/ MineToNewWallet \/ MineToAddress \/ Confirm \/ UNCHANGED chain
      BY <1>2 DEF WalletNext, NewWallet, NewWalletFails, Send, vars
    <3>. QED BY <3>1, <3>2, <3>3, <3>4, <3>5
  <2>. QED BY <2>1, <2>2, <2>3
<1>3. Inv => BalancesFit
  BY BoundedFit
<1>. QED BY <1>1, <1>2, <1>3, PTL DEF WalletSpec

\* Payments are exact when the rewards of all blocks, and each amount with the
\* fee, fit the width of the integers: the 64 bits of the code hold the rewards
\* of some 9 * 10^10 blocks at the highest rate of get_block_reward.
THEOREM PaymentsExactInRange == ASSUME AmountsFit PROVE WalletSpec => []PaymentExact
  BY BalancesAlwaysFit, PaymentsAlwaysExact, PTL
=============================================================================
