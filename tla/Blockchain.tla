----------------------------- MODULE Blockchain -----------------------------
(***************************************************************************)
(* class Blockchain (blockchain.cpp): the chain of blocks, the UTXO set    *)
(* and the hash index derived from it, and the chain file.                 *)
(*                                                                         *)
(* Every public method runs under mutex_ and is one atomic step, with one  *)
(* exception.  load_from_disk replays the chain block by block to rebuild  *)
(* the UTXO set, and the model takes that loop one iteration at a time:    *)
(* while applied < Len(chain) the loader holds the mutex and nothing else  *)
(* can happen.                                                             *)
(***************************************************************************)
EXTENDS Ledger

CONSTANTS
    Offers,         \* the blocks that callers may pass to add_block
    GenesisTimes    \* the clock readings at which init may run

VARIABLES
    chain,          \* chain_
    utxo_set,       \* utxo_set_: utxo_key -> UTXO
    hash_index,     \* hash_index_: block hash -> index
    applied,        \* number of blocks of chain that utxo_set reflects
    file            \* the JSON array in the chain file, NoFile if there is none

chainVars == <<chain, utxo_set, hash_index, applied, file>>

NoFile == <<>>

EmptyMap == [k \in {} |-> k]

\* mutex_ is free: no load is in progress.
Unlocked == applied = Len(chain)

latest == chain[Len(chain)]

\* height() of a node whose chain is c.
height(c) == IF c = <<>> THEN 0 ELSE Len(c) - 1

-----------------------------------------------------------------------------
(* The UTXO set.                                                           *)

BlockTxs(b) == {b.transactions[i] : i \in DOMAIN b.transactions}
Spends(b)   == UNION {InputKeys(tx) : tx \in BlockTxs(b)}
Creates(b)  == UNION {OutputKeys(tx) : tx \in BlockTxs(b)}

\* The UTXO that block b stores under key k.
UtxoOf(b, k) ==
    LET tx == CHOOSE t \in BlockTxs(b) : k \in OutputKeys(t)
        out == tx.outputs[k.output_index + 1]
    IN  [tx_id        |-> k.tx_id,
         output_index |-> k.output_index,
         address      |-> out.address,
         amount       |-> out.amount]

\* Mutant: spent outputs are not erased.
ApplyWithoutErase(u, b) ==
    [k \in DOMAIN u \cup Creates(b) |->
        IF k \in Creates(b) THEN UtxoOf(b, k) ELSE u[k]]

\* All inputs are erased first; then all outputs are added.
apply_block_to_utxo_set(u, b) ==
    [k \in (DOMAIN u \ Spends(b)) \cup Creates(b) |->
        IF k \in Creates(b) THEN UtxoOf(b, k) ELSE u[k]]

-----------------------------------------------------------------------------
(* Validation.                                                             *)

\* Mutant: the owner of the output is not compared with the key.
SignaturesAnyOwner(u, tx) ==
    \A i \in DOMAIN tx.inputs :
        LET in  == tx.inputs[i]
            key == utxo_key(in.tx_id, in.output_index)
        IN  /\ key \in DOMAIN u
            /\ verify(tx_serialize(tx), in.signature, in.public_key)

\* Every input is unspent, belongs to the key that spends it, and is signed.
verify_transaction_signatures(u, tx) ==
    \A i \in DOMAIN tx.inputs :
        LET in  == tx.inputs[i]
            key == utxo_key(in.tx_id, in.output_index)
        IN  /\ key \in DOMAIN u
            /\ u[key].address = address_from_public_key(in.public_key)
            /\ verify(tx_serialize(tx), in.signature, in.public_key)

\* validate_transaction: what the mempool's callers ask before they add.
validate_transaction(u, tx) ==
    /\ ~is_coinbase(tx)
    /\ is_valid_structure(tx)
    /\ tx_calculate_hash(tx) = tx.hash
    /\ InputKeys(tx) \subseteq DOMAIN u
    /\ verify_transaction_signatures(u, tx)

\* Mutant: the previous hash is not compared.
ValidateAnyParent(tip, b) ==
    /\ b.header.index = tip.header.index + 1
    /\ block_calculate_hash(b) = b.hash
    /\ meets_difficulty(b)
    /\ calculate_merkle_root(b) = b.header.merkle_root

\* validate_block on a chain that ends in tip: it looks at the header only.
validate_block(tip, b) ==
    /\ b.header.index = tip.header.index + 1
    /\ b.header.previous_hash = tip.hash
    /\ block_calculate_hash(b) = b.hash
    /\ meets_difficulty(b)
    /\ calculate_merkle_root(b) = b.header.merkle_root

\* Mutant: the transactions are checked each for itself, not against the set.
TransactionsWellFormed(u, b) ==
    \A i \in DOMAIN b.transactions :
        is_coinbase(b.transactions[i]) \/ is_valid_structure(b.transactions[i])

\* The loop of add_block over the transactions: all of them are verified
\* against the UTXO set as it is before the block.
TransactionsValid(u, b) ==
    \A i \in DOMAIN b.transactions :
        LET tx == b.transactions[i]
        IN  /\ is_valid_structure(tx)
            /\ tx_calculate_hash(tx) = tx.hash
            /\ (i = 1 /\ is_coinbase(tx)) \/ verify_transaction_signatures(u, tx)

\* add_block accepts b on a chain that is not empty.
Accepts(tip, u, b) == validate_block(tip, b) /\ TransactionsValid(u, b)

-----------------------------------------------------------------------------
(* Operations that change the state.                                       *)

\* Mutant: the new block is not indexed.
PushUnindexed(b, index) ==
    /\ chain' = Append(chain, b)
    /\ utxo_set' = apply_block_to_utxo_set(utxo_set, b)
    /\ applied' = applied + 1
    /\ UNCHANGED <<hash_index, file>>

\* push_back, hash_index_, apply_block_to_utxo_set.
Push(b, index) ==
    /\ chain' = Append(chain, b)
    /\ hash_index' = [h \in DOMAIN hash_index \cup {b.hash} |->
                        IF h = b.hash THEN index ELSE hash_index[h]]
    /\ utxo_set' = apply_block_to_utxo_set(utxo_set, b)
    /\ applied' = applied + 1
    /\ UNCHANGED file

\* init: the genesis block has no transactions.
init ==
    /\ Unlocked
    /\ chain = <<>>
    /\ \E now \in GenesisTimes :
         LET genesis == create_genesis_block(now)
         IN  /\ chain' = <<genesis>>
             /\ hash_index' = [h \in {genesis.hash} |-> 0]
             /\ applied' = 1
    /\ UNCHANGED <<utxo_set, file>>

\* add_block on an initialised chain; add_block_rejected leaves all alone.
add_block(b) ==
    /\ Unlocked
    /\ chain # <<>>
    /\ Accepts(latest, utxo_set, b)
    /\ Push(b, b.header.index)

add_block_rejected(b) ==
    /\ Unlocked
    /\ chain # <<>>
    /\ ~Accepts(latest, utxo_set, b)
    /\ UNCHANGED chainVars

save_to_disk ==
    /\ Unlocked
    /\ file' = [i \in DOMAIN chain |-> block_to_json(chain[i])]
    /\ UNCHANGED <<chain, utxo_set, hash_index, applied>>

\* load_from_disk up to rebuild_utxo_set: the chain is read back and indexed
\* (a later block with the same hash overwrites an earlier one).
load_from_disk ==
    /\ Unlocked
    /\ file # NoFile
    /\ LET loaded  == [i \in DOMAIN file |-> block_from_json(file[i])]
           hashes  == {loaded[i].hash : i \in DOMAIN loaded}
           last(h) == CHOOSE i \in DOMAIN loaded :
                         /\ loaded[i].hash = h
                         /\ \A j \in DOMAIN loaded : loaded[j].hash = h => j <= i
       IN  /\ chain' = loaded
           /\ hash_index' = [h \in hashes |-> loaded[last(h)].header.index]
    /\ utxo_set' = EmptyMap
    /\ applied' = 0
    /\ UNCHANGED file

\* An iteration of the loop of rebuild_utxo_set, inside load_from_disk.
rebuild_utxo_set ==
    /\ applied < Len(chain)
    /\ utxo_set' = apply_block_to_utxo_set(utxo_set, chain[applied + 1])
    /\ applied' = applied + 1
    /\ UNCHANGED <<chain, hash_index, file>>

\* The process ends, between two operations or while it loads, and another
\* one starts with an empty Blockchain object.  The file stays.
Restart ==
    /\ chain # <<>>
    /\ chain' = <<>>
    /\ utxo_set' = EmptyMap
    /\ hash_index' = EmptyMap
    /\ applied' = 0
    /\ UNCHANGED file

-----------------------------------------------------------------------------
(* Reads.                                                                  *)

get_block_by_hash(h) ==
    IF h \in DOMAIN hash_index THEN {chain[hash_index[h] + 1]} ELSE {}

\* get_blocks of a node whose chain is c: from an index to the end.
get_blocks(c, from_index) == SubSeq(c, from_index + 1, Len(c))

\* The entries of a UTXO set that belong to an address.
get_utxos_for_address(u, address) ==
    {u[k] : k \in {x \in DOMAIN u : u[x].address = address}}

-----------------------------------------------------------------------------
(* Specification.  Every mode of main.cpp initialises the chain, from the  *)
(* file or with init, before it offers a block to it: the branch of        *)
(* add_block that makes any block the first one is not reached.            *)

ChainInit ==
    /\ chain = <<>>
    /\ utxo_set = EmptyMap
    /\ hash_index = EmptyMap
    /\ applied = 0
    /\ file = NoFile

ChainNext ==
    \/ init
    \/ \E b \in Offers : add_block(b) \/ add_block_rejected(b)
    \/ chain # <<>> /\ save_to_disk
    \/ chain = <<>> /\ load_from_disk
    \/ rebuild_utxo_set
    \/ Restart

ChainSpec == ChainInit /\ [][ChainNext]_chainVars

-----------------------------------------------------------------------------
(* What callers and the genesis block give the chain.  Offers are blocks   *)
(* with all their fields; what the fields hold is up to add_block.         *)

Genesis == {create_genesis_block(now) : now \in GenesisTimes}
Blocks  == Offers \cup Genesis

IsTransaction(tx) ==
    /\ tx = TxFields(tx)
    /\ Len(tx.inputs) \in Nat /\ DOMAIN tx.inputs = 1..Len(tx.inputs)
    /\ Len(tx.outputs) \in Nat /\ DOMAIN tx.outputs = 1..Len(tx.outputs)

IsBlock(b) ==
    /\ b = [header       |-> [index         |-> b.header.index,
                              previous_hash |-> b.header.previous_hash,
                              timestamp     |-> b.header.timestamp,
                              nonce         |-> b.header.nonce,
                              merkle_root   |-> b.header.merkle_root,
                              difficulty    |-> b.header.difficulty,
                              miner_address |-> b.header.miner_address],
            transactions |-> b.transactions,
            hash         |-> b.hash]
    /\ b.header.index \in Nat
    /\ b.transactions = [i \in DOMAIN b.transactions |-> b.transactions[i]]
    /\ \A tx \in BlockTxs(b) : IsTransaction(tx)

ASSUME OffersAssumption == \A b \in Offers : IsBlock(b)

-----------------------------------------------------------------------------
(* Properties.                                                             *)

\* Type invariant: the chain and the file hold blocks that were offered or
\* created by init, and applied counts blocks of the chain.
ChainTypeOK ==
    /\ chain \in Seq(Blocks)
    /\ file \in Seq({block_to_json(b) : b \in Blocks})
    /\ applied \in 0..Len(chain)

\* The outputs that the first len blocks of c leave unspent: created by one
\* of them and spent by no later one.
Unspent(c, len) ==
    {k \in UNION {Creates(c[n]) : n \in 1..len} :
        \E n \in 1..len :
            /\ k \in Creates(c[n])
            /\ \A m \in (n+1)..len : k \notin Spends(c[m])}

\* u holds exactly the outputs that the first len blocks of c leave unspent,
\* each with the address and the amount its transaction gave it.
Reflects(u, c, len) ==
    /\ DOMAIN u = Unspent(c, len)
    /\ \A n \in 1..len : \A tx \in BlockTxs(c[n]) : \A i \in DOMAIN tx.outputs :
         utxo_key(tx.hash, i - 1) \in DOMAIN u =>
            /\ u[utxo_key(tx.hash, i - 1)].address = tx.outputs[i].address
            /\ u[utxo_key(tx.hash, i - 1)].amount = tx.outputs[i].amount

\* The UTXO set, which add_block updates block by block and load_from_disk
\* rebuilds, is the one that the recorded blocks define.
UtxoMatchesHistory == Reflects(utxo_set, chain, applied)

\* c is linked: its blocks are numbered from 0, each names its predecessor's
\* hash, and every hash is the hash of what carries it.
Linked(c) ==
    \A n \in 1..Len(c) :
        /\ c[n].header.index = n - 1
        /\ c[n].hash = block_calculate_hash(c[n])
        /\ n > 1 => c[n].header.previous_hash = c[n-1].hash
        /\ \A tx \in BlockTxs(c[n]) : tx.hash = tx_calculate_hash(tx)

\* The chain is linked, through add_block, save_to_disk and load_from_disk
\* (which checks nothing of what it reads).
ChainLinked == Linked(chain)

\* get_block_by_hash finds every block of the chain under its hash and
\* nothing else, although hash_index_ stores header.index, a field of the
\* block, and not the position at which the block was pushed.
HashLookupExact ==
    /\ DOMAIN hash_index = {chain[n].hash : n \in 1..Len(chain)}
    /\ \A n \in 1..Len(chain) : get_block_by_hash(chain[n].hash) = {chain[n]}

\* Input in of transaction tx in block m of c spends an output that an
\* earlier block created, that no block in between spent, and that is
\* addressed to the key that signed tx.
SpendsOwnUnspent(c, m, tx, in) ==
    LET k == utxo_key(in.tx_id, in.output_index)
    IN  /\ verify(tx_serialize(tx), in.signature, in.public_key)
        /\ \E n \in 1..(m-1) :
             /\ \A j \in (n+1)..(m-1) : k \notin Spends(c[j])
             /\ \E source \in BlockTxs(c[n]) :
                  /\ k \in OutputKeys(source)
                  /\ source.outputs[in.output_index + 1].address
                       = address_from_public_key(in.public_key)

AllSpendsOwnUnspent(c) ==
    \A m \in 1..Len(c) : \A t \in DOMAIN c[m].transactions :
        ~(t = 1 /\ is_coinbase(c[m].transactions[t])) =>
            \A i \in DOMAIN c[m].transactions[t].inputs :
                SpendsOwnUnspent(c, m, c[m].transactions[t],
                                 c[m].transactions[t].inputs[i])

\* No block of the chain spends an output that is not there, that an earlier
\* block spent, or that belongs to another key: what add_block decided
\* against the UTXO set of its time is true of the recorded history.
ChainSpendsOwnUnspent == AllSpendsOwnUnspent(chain)
=============================================================================
