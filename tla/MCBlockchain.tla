---------------------------- MODULE MCBlockchain ----------------------------
(***************************************************************************)
(* A small world of blocks for Blockchain: the tree of chains that two     *)
(* wallets and two miners can build on one genesis block, forks included,  *)
(* and blocks of that tree with one defect each.                           *)
(***************************************************************************)
EXTENDS Blockchain, SequencesExt

CONSTANTS Alice, Bob      \* key pairs
CONSTANT  Depth           \* blocks mined on top of the genesis block

MCGenesisTimes == {0, 1}

Reward == 4
Keys == {Alice, Bob}

Replay(c) == FoldLeft(apply_block_to_utxo_set, EmptyMap, c)

\* Payments that key pair k can make out of the UTXO set u at time now.
Payments(u, k, now) ==
    LET mine == get_utxos_for_address(u, get_address(k))
        to   == get_address(CHOOSE other \in Keys : other # k)
    IN  {create_transaction(k, to, 2, 1, <<out>>, now) :
            out \in {o \in mine : o.amount >= 3}}

\* The blocks a miner can build on chain c: empty, or with payments out of
\* the outputs that some prefix of c leaves unspent, as a mempool holds them
\* that c has overtaken.
Candidates(c) ==
    LET tip  == Last(c)
        now  == tip.header.timestamp + 3
        pool == UNION {Payments(Replay(SubSeq(c, 1, n)), k, now) :
                          n \in 1..Len(c), k \in Keys}
        txs  == {<<>>} \cup {<<tx>> : tx \in pool}
                \cup {p \in pool \X pool : InputKeys(p[1]) \cap InputKeys(p[2]) = {}}
    IN  {mine_block(tip, t, get_address(Alice), 1, Reward, now) : t \in txs}

Extensions(c) ==
    {Append(c, b) : b \in {x \in Candidates(c) : TransactionsValid(Replay(c), x)}}

Branches[n \in 0..Depth] ==
    IF n = 0 THEN {<<create_genesis_block(0)>>}
    ELSE UNION {Extensions(c) : c \in Branches[n-1]}

Mined == UNION {UNION {Candidates(c) : c \in Branches[n]} : n \in 0..(Depth-1)}

Seal(b) ==
    LET rooted == [b EXCEPT !.header.merkle_root = calculate_merkle_root(b)]
    IN  [rooted EXCEPT !.hash = block_calculate_hash(rooted)]

Rehash(b) == [b EXCEPT !.hash = block_calculate_hash(b)]

\* One defect at a time; everything else about the block is in order.
Defective(b) ==
    {Rehash([b EXCEPT !.header.index = @ + 1]),
     Rehash([b EXCEPT !.header.previous_hash = null_hash]),
     [b EXCEPT !.header.timestamp = @ + 1],
     Rehash([b EXCEPT !.header.nonce = 0]),
     Rehash([b EXCEPT !.header.merkle_root = double_sha256(Text(""))])}
    \cup
    IF Len(b.transactions) = 1
    THEN {}
    ELSE LET tx     == b.transactions[2]
             wrong  == CHOOSE k \in Keys :
                          get_public_key_hex(k) # tx.inputs[1].public_key
             other  == [tx EXCEPT !.inputs[1].public_key = get_public_key_hex(wrong)]
             missigned == [other EXCEPT
                          !.hash = tx_calculate_hash(other),
                          !.inputs[1].signature = sign(wrong, tx_serialize(other))]
         IN  {Seal([b EXCEPT !.transactions[2].hash = b.transactions[1].hash]),
              Seal([b EXCEPT !.transactions[2].outputs[1].amount = 0]),
              Seal([b EXCEPT !.transactions[2] = missigned])}

MCOffers == Mined \cup UNION {Defective(b) : b \in Mined}
=============================================================================
