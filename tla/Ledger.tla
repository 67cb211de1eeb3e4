------------------------------- MODULE Ledger -------------------------------
(***************************************************************************)
(* The data that BitVoid nodes exchange: transactions, blocks, keys and    *)
(* the functions of transaction.cpp, block.cpp, wallet.cpp and mine_block  *)
(* of consensus.cpp that build and inspect them.  The module has no state. *)
(*                                                                         *)
(* Cryptography is symbolic.  A hash is a record that holds what was       *)
(* hashed, so equal hashes mean equal contents; an address is a record     *)
(* that holds the public key it is derived from; a signature holds the     *)
(* data signed and the public key it verifies under.                       *)
(***************************************************************************)
EXTENDS Integers, Sequences, FiniteSetsExt

CONSTANT Word   \* one more than the largest uint64_t: arithmetic wraps at it

ASSUME WordAssumption == Word \in Nat \ {0}

-----------------------------------------------------------------------------
(* Hashes, keys and signatures.                                            *)

\* SHA-256 applied twice.
double_sha256(data) == [sha256d |-> data]

\* A string constant of the code; the only strings compared with hashes,
\* addresses and signatures.
Text(s) == [text |-> s]

\* The 64 zeros that stand for "no previous block" and "no previous output".
null_hash == Text("0")

\* The public half of key pair k, and the address derived from a public key.
get_public_key_hex(k) == [public_of |-> k]
address_from_public_key(public_key) == [address_of |-> public_key]
get_address(k) == address_from_public_key(get_public_key_hex(k))

\* Mutant: the digest of the data is signed.
SignDigest(k, data) == [signed |-> double_sha256(data), by |-> get_public_key_hex(k)]

\* An ML-DSA-65 signature by key pair k, and its verification.
sign(k, data) == [signed |-> data, by |-> get_public_key_hex(k)]
verify(data, signature, public_key) ==
    signature = [signed |-> data, by |-> public_key]

-----------------------------------------------------------------------------
(* Transactions.                                                           *)

\* The key under which an output is stored in the UTXO set and in the
\* mempool's index of spent outputs.
utxo_key(tx_id, output_index) == [tx_id |-> tx_id, output_index |-> output_index]

\* The outputs a transaction spends, and the outputs it creates.
InputKeys(tx) ==
    {utxo_key(tx.inputs[i].tx_id, tx.inputs[i].output_index) :
        i \in DOMAIN tx.inputs}
OutputKeys(tx) == {utxo_key(tx.hash, i - 1) : i \in DOMAIN tx.outputs}

\* What is hashed and signed: everything but the signatures.
tx_serialize(tx) ==
    [timestamp |-> tx.timestamp,
     fee       |-> tx.fee,
     inputs    |-> [i \in DOMAIN tx.inputs |->
                      [tx_id        |-> tx.inputs[i].tx_id,
                       output_index |-> tx.inputs[i].output_index,
                       public_key   |-> tx.inputs[i].public_key]],
     outputs   |-> tx.outputs]

tx_calculate_hash(tx) == double_sha256(tx_serialize(tx))

is_valid_structure(tx) ==
    /\ tx.inputs # <<>>
    /\ tx.outputs # <<>>
    /\ \A i \in DOMAIN tx.outputs :
         /\ tx.outputs[i].amount # 0
         /\ tx.outputs[i].address # Text("")
    /\ \A i \in DOMAIN tx.inputs : tx.inputs[i].tx_id # Text("")

is_coinbase(tx) ==
    /\ Len(tx.inputs) = 1
    /\ tx.inputs[1].tx_id = null_hash
    /\ tx.inputs[1].signature = Text("coinbase")

total_output(tx) ==
    SumFunction([i \in DOMAIN tx.outputs |-> tx.outputs[i].amount]) % Word

\* The JSON objects of inputs, outputs and transactions have the same fields
\* as the structures.
InputFields(in) ==
    [tx_id        |-> in.tx_id,
     output_index |-> in.output_index,
     signature    |-> in.signature,
     public_key   |-> in.public_key]

OutputFields(out) == [address |-> out.address, amount |-> out.amount]

TxFields(t) ==
    [timestamp |-> t.timestamp,
     fee       |-> t.fee,
     inputs    |-> [i \in DOMAIN t.inputs |-> InputFields(t.inputs[i])],
     outputs   |-> [i \in DOMAIN t.outputs |-> OutputFields(t.outputs[i])],
     hash      |-> t.hash]

tx_to_json(tx)  == TxFields(tx)
tx_from_json(j) == TxFields(j)

\* Mutant: the change is kept by nobody.
NoChange(k, change) == <<>>

\* "Create change output back to self."
change_outputs(k, change) ==
    IF change > 0 THEN <<[address |-> get_address(k), amount |-> change]>> ELSE <<>>

\* Wallet k pays amount to to_address.  utxos is the sequence of UTXOs it is
\* offered: it takes them in order until they cover amount + fee, and returns
\* the change to itself.  Without the funds the transaction has no hash.
create_transaction(k, to_address, amount, fee, utxos, now) ==
    LET needed      == (amount + fee) % Word
        total(n)    == SumFunction([i \in 1..n |-> utxos[i].amount]) % Word
        covering    == {n \in 0..Len(utxos) : total(n) >= needed}
        taken       == IF covering = {} THEN Len(utxos) ELSE Min(covering)
        change      == total(taken) - needed
        public_key  == get_public_key_hex(k)
        unsigned    ==
            [timestamp |-> now,
             fee       |-> fee,
             inputs    |-> [i \in 1..taken |->
                              [tx_id        |-> utxos[i].tx_id,
                               output_index |-> utxos[i].output_index,
                               signature    |-> Text(""),
                               public_key   |-> public_key]],
             outputs   |-> IF covering = {} THEN <<>>
                           ELSE <<[address |-> to_address, amount |-> amount]>>
                                \o change_outputs(k, change),
             hash      |-> Text("")]
        signed      ==
            [unsigned EXCEPT !.inputs =
               [i \in 1..taken |->
                  [unsigned.inputs[i] EXCEPT
                     !.signature = sign(k, tx_serialize(unsigned))]]]
    IN  IF covering = {} THEN unsigned
        ELSE [signed EXCEPT !.hash = tx_calculate_hash(signed)]

-----------------------------------------------------------------------------
(* Blocks.  The energy fields of a header are neither hashed nor checked,  *)
(* and are left out.                                                       *)

block_serialize(b) ==
    [header    |-> b.header,
     tx_hashes |-> [i \in DOMAIN b.transactions |-> b.transactions[i].hash]]

block_calculate_hash(b) == double_sha256(block_serialize(b))

\* The block with this header and these transactions, and its hash.
Sealed(header, transactions) ==
    [header       |-> header,
     transactions |-> transactions,
     hash         |-> block_calculate_hash([header       |-> header,
                                            transactions |-> transactions])]

\* One pass of the Merkle loop: adjacent hashes are paired, an odd last one
\* with itself.
MerkleLayer(layer) ==
    [i \in 1..((Len(layer) + 1) \div 2) |->
        double_sha256([left  |-> layer[2*i - 1],
                       right |-> layer[IF 2*i <= Len(layer)
                                       THEN 2*i ELSE 2*i - 1]])]

calculate_merkle_root(b) ==
    LET hashes == [i \in DOMAIN b.transactions |-> b.transactions[i].hash]
        layer[n \in Nat] ==
            IF n = 0 THEN hashes
            ELSE IF Len(layer[n-1]) > 1 THEN MerkleLayer(layer[n-1])
                 ELSE layer[n-1]
    IN  IF b.transactions = <<>> THEN double_sha256(Text(""))
        ELSE layer[Len(hashes)][1]

\* The model keeps of a nonce the one thing it is searched for: the number
\* of leading zero bits that it gives the hash of its block.
zero_bits(hash) == hash.sha256d.header.nonce
meets_difficulty(b) == zero_bits(b.hash) >= b.header.difficulty

create_genesis_block(now) ==
    LET header  == [index         |-> 0,
                    previous_hash |-> null_hash,
                    timestamp     |-> now,
                    nonce         |-> 0,
                    merkle_root   |-> double_sha256(Text("")),
                    difficulty    |-> 1,
                    miner_address |-> Text("genesis")]
    IN  Sealed(header, <<>>)

\* The first transaction of a mined block: the reward and the fees.
coinbase_transaction(miner_address, amount, now) ==
    LET coinbase ==
            [timestamp |-> now,
             fee       |-> 0,
             inputs    |-> <<[tx_id        |-> null_hash,
                              output_index |-> 0,
                              signature    |-> Text("coinbase"),
                              public_key   |-> Text("coinbase")]>>,
             outputs   |-> <<[address |-> miner_address, amount |-> amount]>>,
             hash      |-> Text("")]
    IN  [coinbase EXCEPT !.hash = tx_calculate_hash(coinbase)]

\* Mutant: the coinbase leaves out the fees.
MineWithoutFees(previous_block, transactions, miner_address, difficulty, reward, now) ==
    LET txs    == <<coinbase_transaction(miner_address, reward, now)>> \o transactions
        header == [index         |-> previous_block.header.index + 1,
                   previous_hash |-> previous_block.hash,
                   timestamp     |-> now,
                   nonce         |-> difficulty,
                   merkle_root   |-> calculate_merkle_root([transactions |-> txs]),
                   difficulty    |-> difficulty,
                   miner_address |-> miner_address]
    IN  Sealed(header, txs)

\* The block a miner builds on previous_block at time now, once it has found
\* a nonce whose hash has enough zero bits.
mine_block(previous_block, transactions, miner_address, difficulty, reward, now) ==
    LET fees   == SumFunction([i \in DOMAIN transactions |-> transactions[i].fee])
        txs    == <<coinbase_transaction(miner_address,
                                         (reward + fees) % Word, now)>>
                  \o transactions
        header == [index         |-> previous_block.header.index + 1,
                   previous_hash |-> previous_block.hash,
                   timestamp     |-> now,
                   nonce         |-> difficulty,
                   merkle_root   |-> calculate_merkle_root([transactions |-> txs]),
                   difficulty    |-> difficulty,
                   miner_address |-> miner_address]
    IN  Sealed(header, txs)

\* The JSON form of a block: the header's fields beside its own.
block_to_json(b) ==
    [index         |-> b.header.index,
     previous_hash |-> b.header.previous_hash,
     timestamp     |-> b.header.timestamp,
     nonce         |-> b.header.nonce,
     merkle_root   |-> b.header.merkle_root,
     difficulty    |-> b.header.difficulty,
     miner_address |-> b.header.miner_address,
     hash          |-> b.hash,
     transactions  |-> [i \in DOMAIN b.transactions |-> tx_to_json(b.transactions[i])]]

\* Mutant: the nonce is not read back.
BlockWithoutNonce(j) ==
    [header       |-> [index         |-> j.index,
                       previous_hash |-> j.previous_hash,
                       timestamp     |-> j.timestamp,
                       nonce         |-> 0,
                       merkle_root   |-> j.merkle_root,
                       difficulty    |-> j.difficulty,
                       miner_address |-> j.miner_address],
     transactions |-> [i \in DOMAIN j.transactions |-> tx_from_json(j.transactions[i])],
     hash         |-> j.hash]

block_from_json(j) ==
    [header       |-> [index         |-> j.index,
                       previous_hash |-> j.previous_hash,
                       timestamp     |-> j.timestamp,
                       nonce         |-> j.nonce,
                       merkle_root   |-> j.merkle_root,
                       difficulty    |-> j.difficulty,
                       miner_address |-> j.miner_address],
     transactions |-> [i \in DOMAIN j.transactions |-> tx_from_json(j.transactions[i])],
     hash         |-> j.hash]
=============================================================================
