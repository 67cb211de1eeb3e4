--------------------------- MODULE FullNodeProofs ---------------------------
(***************************************************************************)
(* The invariants of a node in run mode, for any number of connections, of *)
(* announced blocks and of transactions, and any chain to start from.      *)
(*                                                                         *)
(* NodeInv is what holds whatever the clocks do: blocks and transactions   *)
(* on their way between two calls are well-formed, so that the chain stays *)
(* a chain, the file a prefix of it and the mempool consistent.  LedgerInv *)
(* (time and money, below) adds what needs the clocks to agree, CoinsInv   *)
(* (the supply) what needs the sums to stay below the limit of uint64_t.   *)
(***************************************************************************)
EXTENDS FullNode, FiniteSetTheorems, TLAPS

PoolP  == INSTANCE MempoolProofs
ChainP == INSTANCE BlockchainProofs WITH Offers <- {}, GenesisTimes <- {}

\* The positions on the chain from the last block of the start chain on.
Recent == Len(StartChain)..Len(chain)

HandlerFields == {"pc", "data", "i", "added"}
MinerFields   == {"pc", "latest", "txs", "block", "i"}

\* txs is a list that a loop can run over, with something in it.
Listed(txs) == Len(txs) \in Nat \ {0} /\ DOMAIN txs = 1..Len(txs)

\* What the thread of connection h has got ready for its next call.
HandlerInv(h) ==
    LET s == handler[h]
    IN  /\ DOMAIN s = HandlerFields
        /\ s.pc \in {"idle", "add_tx", "add_block", "remove", "sync", "sync_save"}
        /\ s.pc = "add_tx" => s.data[1] \in Txs
        /\ s.pc \in {"add_block", "remove"} =>
             Chain!IsBlock(s.data[1]) /\ Listed(s.data[1].transactions)
        /\ s.pc = "remove" => s.i \in DOMAIN s.data[1].transactions
        /\ s.pc = "sync" =>
             /\ Len(s.data) \in Nat /\ s.i \in 1..Len(s.data)
             /\ \A k \in 1..Len(s.data) : Chain!IsBlock(s.data[k])

\* What the main thread has got ready.
MinerInv ==
    /\ DOMAIN miner = MinerFields
    /\ miner.pc \in {"read", "check", "select", "mine", "add", "save", "remove"}
    /\ miner.pc \in {"check", "select", "mine"} =>
         \E n \in Recent : miner.latest[1] = chain[n]
    /\ miner.pc = "mine" => miner.txs \in Seq(Txs)
    /\ miner.pc \in {"add", "save", "remove"} =>
         Chain!IsBlock(miner.block[1]) /\ Listed(miner.block[1].transactions)
    /\ miner.pc = "save" => miner.i = 1
    /\ miner.pc = "remove" => miner.i \in DOMAIN miner.block[1].transactions

\* The file holds the first blocks of the chain.
FileInv ==
    \E n \in 0..Len(chain) : file = [i \in 1..n |-> block_to_json(chain[i])]

\* What the methods of the chain and of the mempool keep.
ChainInv ==
    /\ BlocksSound(chain)
    /\ Len(chain) >= Len(StartChain)
    /\ applied = Len(chain)
    /\ FileInv

HandlersInv == DOMAIN handler = Handlers /\ \A h \in Handlers : HandlerInv(h)

PeersInv ==
    \A b \in peer_blocks :
        /\ Chain!IsBlock(b) /\ Listed(b.transactions)
        /\ b.header.index \in 1..Len(chain)

NodeInv ==
    /\ ChainInv /\ PoolP!PoolInv /\ MinerInv /\ HandlersInv /\ PeersInv
    /\ now \in Nat

-----------------------------------------------------------------------------

\* The transactions of s that spend outputs spend different ones.
ConflictFree(s) ==
    \A i, j \in DOMAIN s :
        (i # j /\ ~is_coinbase(s[i]) /\ ~is_coinbase(s[j]))
            => InputKeys(s[i]) \cap InputKeys(s[j]) = {}

\* A coinbase of that time, then txs.
CoinbaseFirst(all, txs, time) ==
    \E cb : is_coinbase(cb) /\ cb.timestamp = time /\ all = <<cb>> \o txs

-----------------------------------------------------------------------------
(* The operators of the ledger are the same in every module.               *)

\* The instances of the chain and of the pool hash and key alike,
LEMMA SameLedger ==
    ASSUME NEW x
    PROVE  /\ Chain!tx_calculate_hash(x) = tx_calculate_hash(x)
           /\ Chain!block_calculate_hash(x) = block_calculate_hash(x)
           /\ Chain!InputKeys(x) = InputKeys(x) /\ PoolP!InputKeys(x) = InputKeys(x)
           /\ Chain!OutputKeys(x) = OutputKeys(x)
           /\ Chain!is_coinbase(x) = is_coinbase(x)
           /\ Chain!block_to_json(x) = block_to_json(x)
           /\ ChainP!block_to_json(x) = block_to_json(x)
           /\ ChainP!block_from_json(x) = block_from_json(x)
<1>1. /\ Chain!tx_calculate_hash(x) = tx_calculate_hash(x)
      /\ Chain!block_calculate_hash(x) = block_calculate_hash(x)
  BY DEF Chain!tx_calculate_hash, tx_calculate_hash, Chain!tx_serialize, tx_serialize,
         Chain!block_calculate_hash, block_calculate_hash, Chain!block_serialize,
         block_serialize, Chain!double_sha256, double_sha256
<1>2. /\ Chain!InputKeys(x) = InputKeys(x) /\ PoolP!InputKeys(x) = InputKeys(x)
      /\ Chain!OutputKeys(x) = OutputKeys(x)
  BY DEF Chain!InputKeys, InputKeys, PoolP!InputKeys, Chain!OutputKeys, OutputKeys,
         Chain!utxo_key, utxo_key, PoolP!utxo_key
<1>3. Chain!is_coinbase(x) = is_coinbase(x)
  BY DEF Chain!is_coinbase, is_coinbase, Chain!null_hash, null_hash, Chain!Text, Text
<1>4. /\ Chain!block_to_json(x) = block_to_json(x)
      /\ ChainP!block_to_json(x) = block_to_json(x)
      /\ ChainP!block_from_json(x) = block_from_json(x)
  BY DEF Chain!block_to_json, block_to_json, ChainP!block_to_json,
         ChainP!block_from_json, block_from_json, Chain!tx_to_json, tx_to_json,
         ChainP!tx_to_json, ChainP!tx_from_json, tx_from_json, Chain!TxFields, TxFields,
         ChainP!TxFields, Chain!InputFields, InputFields, ChainP!InputFields,
         Chain!OutputFields, OutputFields, ChainP!OutputFields
<1>. QED BY <1>1, <1>2, <1>3, <1>4

\* and so do the two that know blocks.
LEMMA SameBlocks ==
    ASSUME NEW b
    PROVE  (ChainP!IsBlock(b) <=> Chain!IsBlock(b))
  BY DEF Chain!IsBlock, ChainP!IsBlock, Chain!IsTransaction, ChainP!IsTransaction,
         Chain!TxFields, ChainP!TxFields, Chain!InputFields, ChainP!InputFields,
         Chain!OutputFields, ChainP!OutputFields, Chain!BlockTxs, ChainP!BlockTxs

\* The methods of the mempool are the same as well.
LEMMA SamePool ==
    /\ \A tx : Pool!add_transaction(tx) => PoolP!add_transaction(tx)
    /\ \A h : Pool!remove_transaction(h) => PoolP!remove_transaction(h)
    /\ UNCHANGED poolVars <=> UNCHANGED PoolP!poolVars
    /\ \A n : Pool!get_for_block(n) = PoolP!get_for_block(n)
<1>1. \A tx : Pool!InputKeys(tx) = PoolP!InputKeys(tx)
  BY DEF Pool!InputKeys, PoolP!InputKeys, Pool!utxo_key, PoolP!utxo_key
<1>2. UNCHANGED Pool!poolVars <=> UNCHANGED PoolP!poolVars
  BY DEF Pool!poolVars, PoolP!poolVars
<1>3. \A tx : Pool!add_transaction(tx) => PoolP!add_transaction(tx)
  BY <1>1, <1>2 DEF Pool!add_transaction, PoolP!add_transaction, Pool!PoolAccepts,
     PoolP!PoolAccepts, Pool!has_conflicting_inputs, PoolP!has_conflicting_inputs
<1>4. \A h : Pool!remove_transaction(h) => PoolP!remove_transaction(h)
  BY <1>1, <1>2 DEF Pool!remove_transaction, PoolP!remove_transaction
<1>5. UNCHANGED poolVars <=> UNCHANGED PoolP!poolVars
  BY DEF poolVars, PoolP!poolVars
<1>6. \A n : Pool!get_for_block(n) = PoolP!get_for_block(n)
  <2>1. Pool!Pending = PoolP!Pending
    BY DEF Pool!Pending, PoolP!Pending
  <2>2. \A S : Pool!Cardinality(S) = PoolP!Cardinality(S)
    BY DEF Pool!Cardinality, PoolP!Cardinality
  <2>3. Pool!ByFee = PoolP!ByFee
    BY <2>1, <2>2 DEF Pool!ByFee, PoolP!ByFee
  <2>. QED BY <2>3 DEF Pool!get_for_block, PoolP!get_for_block, Pool!Cut, PoolP!Cut
<1>. QED BY <1>3, <1>4, <1>5, <1>6

-----------------------------------------------------------------------------
(* Hashes.                                                                 *)

\* Blocks with the same hash have the same header.
LEMMA HashHasHeader ==
    ASSUME NEW a, NEW b, block_calculate_hash(a) = block_calculate_hash(b)
    PROVE  a.header = b.header
  BY DEF block_calculate_hash, block_serialize, double_sha256

\* Transactions with the same hash have the same time stamp and spend the
\* same outputs; their signatures may differ.
LEMMA HashHasContents ==
    ASSUME NEW s, NEW t, tx_calculate_hash(s) = tx_calculate_hash(t)
    PROVE  s.timestamp = t.timestamp /\ InputKeys(s) = InputKeys(t)
<1>1. tx_serialize(s) = tx_serialize(t)
  BY DEF tx_calculate_hash, double_sha256
<1>2. s.timestamp = t.timestamp
  BY <1>1 DEF tx_serialize
<1>3. tx_serialize(s).inputs = tx_serialize(t).inputs
  BY <1>1
<1>4. DOMAIN s.inputs = DOMAIN t.inputs
  BY <1>3 DEF tx_serialize
<1>5. ASSUME NEW i \in DOMAIN s.inputs
      PROVE  s.inputs[i].tx_id = t.inputs[i].tx_id
               /\ s.inputs[i].output_index = t.inputs[i].output_index
  <2>1. tx_serialize(s).inputs[i] = tx_serialize(t).inputs[i]
    BY <1>3
  <2>. QED BY <1>4, <2>1 DEF tx_serialize
<1>6. InputKeys(s) = InputKeys(t)
  BY <1>4, <1>5 DEF InputKeys
<1>. QED BY <1>2, <1>6

\* No transaction has the hash that stands for "no previous output".
LEMMA HashIsNotNull ==
    ASSUME NEW tx PROVE tx_calculate_hash(tx) # null_hash
  BY DEF tx_calculate_hash, double_sha256, null_hash, Text

\* The input of a coinbase.
LEMMA CoinbaseInput ==
    ASSUME NEW tx, is_coinbase(tx), DOMAIN tx.inputs = 1..Len(tx.inputs)
    PROVE  \E k \in InputKeys(tx) : k.tx_id = null_hash
<1>1. 1 \in DOMAIN tx.inputs /\ tx.inputs[1].tx_id = null_hash
  BY DEF is_coinbase
<1>. DEFINE k == utxo_key(tx.inputs[1].tx_id, tx.inputs[1].output_index)
<1>2. k \in InputKeys(tx) /\ k.tx_id = null_hash
  BY <1>1 DEF InputKeys, utxo_key
<1>. QED BY <1>2

-----------------------------------------------------------------------------
(* Blocks.                                                                 *)

\* What add_block asks of a block, as far as the proofs use it.
LEMMA AcceptedBlock ==
    ASSUME NEW t, NEW u, NEW b, Chain!Accepts(t, u, b)
    PROVE  /\ b.header.index = t.header.index + 1
           /\ b.header.previous_hash = t.hash
           /\ b.hash = block_calculate_hash(b)
           /\ \A i \in DOMAIN b.transactions :
                LET tx == b.transactions[i]
                IN  /\ tx.inputs # <<>>
                    /\ tx.hash = tx_calculate_hash(tx)
                    /\ (i = 1 /\ is_coinbase(tx)) \/ InputKeys(tx) \subseteq DOMAIN u
<1>1. Chain!validate_block(t, b) /\ Chain!TransactionsValid(u, b)
  BY DEF Chain!Accepts
<1>2. /\ b.header.index = t.header.index + 1
      /\ b.header.previous_hash = t.hash
      /\ b.hash = block_calculate_hash(b)
  BY <1>1, SameLedger DEF Chain!validate_block
<1>3. ASSUME NEW i \in DOMAIN b.transactions
      PROVE  LET tx == b.transactions[i]
             IN  /\ tx.inputs # <<>>
                 /\ tx.hash = tx_calculate_hash(tx)
                 /\ (i = 1 /\ is_coinbase(tx)) \/ InputKeys(tx) \subseteq DOMAIN u
  <2>. DEFINE tx == b.transactions[i]
  <2>1. /\ Chain!is_valid_structure(tx)
        /\ Chain!tx_calculate_hash(tx) = tx.hash
        /\ (i = 1 /\ Chain!is_coinbase(tx)) \/ Chain!verify_transaction_signatures(u, tx)
    BY <1>1 DEF Chain!TransactionsValid
  <2>. HIDE DEF tx
  <2>2. tx.inputs # <<>>
    BY <2>1 DEF Chain!is_valid_structure
  <2>3. Chain!verify_transaction_signatures(u, tx) => Chain!InputKeys(tx) \subseteq DOMAIN u
    BY DEF Chain!verify_transaction_signatures, Chain!InputKeys
  <2>4. /\ tx.inputs # <<>>
        /\ tx.hash = tx_calculate_hash(tx)
        /\ (i = 1 /\ is_coinbase(tx)) \/ InputKeys(tx) \subseteq DOMAIN u
    BY <2>1, <2>2, <2>3, SameLedger
  <2>. QED BY <2>4 DEF tx
<1>. QED BY <1>2, <1>3

\* The UTXO set after a block: nothing the block spends, unless the block
\* creates it.
LEMMA AppliedBlock ==
    ASSUME NEW u, NEW b, NEW k \in DOMAIN Chain!apply_block_to_utxo_set(u, b)
    PROVE  \/ k \in DOMAIN u /\ \A tx \in Chain!BlockTxs(b) : k \notin InputKeys(tx)
           \/ \E tx \in Chain!BlockTxs(b) : k.tx_id = tx.hash
<1>1. k \in (DOMAIN u \ Chain!Spends(b)) \cup Chain!Creates(b)
  BY DEF Chain!apply_block_to_utxo_set
<1>2. CASE k \in Chain!Creates(b)
  <2>1. PICK tx \in Chain!BlockTxs(b) : k \in OutputKeys(tx)
    BY <1>2, SameLedger DEF Chain!Creates
  <2>2. k.tx_id = tx.hash
    BY <2>1 DEF OutputKeys, utxo_key
  <2>. QED BY <2>2
<1>3. CASE k \in DOMAIN u \ Chain!Spends(b)
  BY <1>3, SameLedger DEF Chain!Spends
<1>. QED BY <1>1, <1>2, <1>3

\* A coinbase made by mine_block.
LEMMA MinedCoinbase ==
    ASSUME NEW address, NEW amount, NEW time
    PROVE  LET cb == coinbase_transaction(address, amount, time)
           IN  /\ Chain!IsTransaction(cb)
               /\ is_coinbase(cb)
               /\ cb.timestamp = time
<1>. DEFINE in  == [tx_id        |-> null_hash,
                    output_index |-> 0,
                    signature    |-> Text("coinbase"),
                    public_key   |-> Text("coinbase")]
            out == [address |-> address, amount |-> amount]
            unhashed == [timestamp |-> time, fee |-> 0, inputs |-> <<in>>,
                         outputs |-> <<out>>, hash |-> Text("")]
            h   == tx_calculate_hash(unhashed)
            cb  == coinbase_transaction(address, amount, time)
<1>1. cb = [timestamp |-> time, fee |-> 0, inputs |-> <<in>>,
            outputs |-> <<out>>, hash |-> h]
  <2>1. cb = [unhashed EXCEPT !.hash = h]
    BY DEF coinbase_transaction
  <2>. HIDE DEF in, out, h, cb
  <2>. QED BY <2>1
<1>. HIDE DEF cb, h
<1>2. /\ cb.timestamp = time /\ cb.fee = 0 /\ cb.inputs = <<in>>
      /\ cb.outputs = <<out>> /\ cb.hash = h
  BY <1>1
<1>3. is_coinbase(cb)
  BY <1>2 DEF is_coinbase
<1>4. /\ Len(cb.inputs) = 1 /\ DOMAIN cb.inputs = 1..1 /\ cb.inputs[1] = in
      /\ Len(cb.outputs) = 1 /\ DOMAIN cb.outputs = 1..1 /\ cb.outputs[1] = out
  BY <1>2
<1>5. Chain!InputFields(in) = in /\ Chain!OutputFields(out) = out
  BY DEF Chain!InputFields, Chain!OutputFields
<1>6. /\ [i \in DOMAIN cb.inputs |-> Chain!InputFields(cb.inputs[i])] = cb.inputs
      /\ [i \in DOMAIN cb.outputs |-> Chain!OutputFields(cb.outputs[i])] = cb.outputs
  <2>. HIDE DEF in, out
  <2>1. \A i \in 1..1 : i = 1
    OBVIOUS
  <2>2. /\ [i \in 1..1 |-> Chain!InputFields(cb.inputs[i])] = [i \in 1..1 |-> in]
        /\ [i \in 1..1 |-> Chain!OutputFields(cb.outputs[i])] = [i \in 1..1 |-> out]
    BY <1>4, <1>5, <2>1
  <2>3. cb.inputs = [i \in 1..1 |-> in] /\ cb.outputs = [i \in 1..1 |-> out]
    BY <1>2
  <2>. QED BY <1>4, <2>2, <2>3
<1>7. cb = Chain!TxFields(cb)
  BY <1>1, <1>2, <1>6 DEF Chain!TxFields
<1>8. Chain!IsTransaction(cb)
  BY <1>4, <1>7 DEF Chain!IsTransaction
<1>. QED BY <1>2, <1>3, <1>8 DEF cb

\* A block made by mine_block on previous, from transactions of the wallets.
LEMMA MinedBlock ==
    ASSUME NEW previous, previous.header.index \in Nat,
           NEW txs \in Seq(Txs), NEW address, NEW difficulty, NEW reward, NEW time
    PROVE  LET b == mine_block(previous, txs, address, difficulty, reward, time)
           IN  /\ Chain!IsBlock(b) /\ Listed(b.transactions)
               /\ b.header.index = previous.header.index + 1
               /\ b.header.previous_hash = previous.hash
               /\ b.header.timestamp = time
               /\ b.hash = block_calculate_hash(b)
               /\ CoinbaseFirst(b.transactions, txs, time)
<1>. DEFINE b == mine_block(previous, txs, address, difficulty, reward, time)
            amount == (reward + SumFunction([i \in DOMAIN txs |-> txs[i].fee])) % Word
            cb == coinbase_transaction(address, amount, time)
            all == <<cb>> \o txs
            header == [index         |-> previous.header.index + 1,
                       previous_hash |-> previous.hash,
                       timestamp     |-> time,
                       nonce         |-> difficulty,
                       merkle_root   |-> calculate_merkle_root([transactions |-> all]),
                       difficulty    |-> difficulty,
                       miner_address |-> address]
<1>1. b = Sealed(header, all)
  BY DEF mine_block
<1>2. Chain!IsTransaction(cb) /\ is_coinbase(cb) /\ cb.timestamp = time
  BY MinedCoinbase
<1>. HIDE DEF b, cb, amount
<1>3. all \in Seq(Txs \cup {cb}) /\ Len(all) = 1 + Len(txs)
  OBVIOUS
<1>. HIDE DEF all
<1>4. /\ header = [index         |-> header.index,
                   previous_hash |-> header.previous_hash,
                   timestamp     |-> header.timestamp,
                   nonce         |-> header.nonce,
                   merkle_root   |-> header.merkle_root,
                   difficulty    |-> header.difficulty,
                   miner_address |-> header.miner_address]
      /\ header.index = previous.header.index + 1
      /\ header.previous_hash = previous.hash
      /\ header.timestamp = time
  OBVIOUS
<1>. HIDE DEF header
<1>5. /\ b.header = header /\ b.transactions = all
      /\ b = [header |-> b.header, transactions |-> b.transactions, hash |-> b.hash]
  BY <1>1 DEF Sealed
<1>6. b.hash = block_calculate_hash(b)
  <2>1. block_serialize(b) = block_serialize([header |-> header, transactions |-> all])
    BY <1>5 DEF block_serialize
  <2>2. b.hash = block_calculate_hash([header |-> header, transactions |-> all])
    BY <1>1 DEF Sealed
  <2>. QED BY <2>1, <2>2 DEF block_calculate_hash
<1>7. all = [i \in DOMAIN all |-> all[i]]
  BY <1>3
<1>8. \A i \in DOMAIN all : Chain!IsTransaction(all[i])
  <2>1. \A i \in DOMAIN all : all[i] \in Txs \cup {cb}
    BY <1>3
  <2>. QED BY <1>2, <2>1, StartAssumption
<1>9. Chain!IsBlock(b)
  BY <1>4, <1>5, <1>7, <1>8 DEF Chain!IsBlock, Chain!BlockTxs
<1>10. CoinbaseFirst(b.transactions, txs, time)
  BY <1>2, <1>5 DEF all, CoinbaseFirst
<1>11. Listed(b.transactions)
  BY <1>3, <1>5 DEF Listed
<1>. QED BY <1>4, <1>5, <1>6, <1>9, <1>10, <1>11 DEF b

-----------------------------------------------------------------------------
(* What one call of the chain or of the mempool can do.                    *)

ChainStep ==
    \/ UNCHANGED chainVars
    \/ Chain!save_to_disk
    \/ \E b : Chain!IsBlock(b) /\ Chain!add_block(b)

PoolStep ==
    \/ UNCHANGED poolVars
    \/ \E tx \in Txs : Pool!add_transaction(tx)
    \/ \E h : Pool!remove_transaction(h)

\* The chain only grows.
ChainGrows ==
    /\ Len(chain) \in Nat /\ Len(chain') \in Nat /\ Len(chain') >= Len(chain)
    /\ \A n \in 1..Len(chain) : chain'[n] = chain[n]

\* A chain with one more block.
LEMMA AppendBlock ==
    ASSUME NEW c, c \in Seq({c[n] : n \in DOMAIN c}), NEW b
    PROVE  LET d == Append(c, b)
           IN  /\ Len(c) \in Nat /\ DOMAIN c = 1..Len(c)
               /\ Len(d) = Len(c) + 1 /\ DOMAIN d = 1..(Len(c) + 1)
               /\ \A n \in 1..Len(c) : d[n] = c[n]
               /\ d[Len(c) + 1] = b
               /\ d # <<>> /\ d \in Seq({d[n] : n \in DOMAIN d})
<1>. DEFINE S == {c[n] : n \in DOMAIN c} \cup {b}
            d == Append(c, b)
<1>1. c \in Seq(S)
  OBVIOUS
<1>. HIDE DEF S
<1>2. b \in S
  BY DEF S
<1>3. /\ Len(c) \in Nat /\ DOMAIN c = 1..Len(c)
      /\ d \in Seq(S)
      /\ Len(d) = Len(c) + 1 /\ DOMAIN d = 1..(Len(c) + 1)
      /\ \A n \in 1..Len(c) : d[n] = c[n]
      /\ d[Len(c) + 1] = b
  BY <1>1, <1>2
<1>. HIDE DEF d
<1>4. d # <<>>
  BY <1>3
<1>5. d \in Seq({d[n] : n \in DOMAIN d})
  BY <1>3
<1>. QED BY <1>3, <1>4, <1>5 DEF d

\* Its transactions.
LEMMA AppendTxs ==
    ASSUME NEW c, c \in Seq({c[n] : n \in DOMAIN c}), NEW b
    PROVE  /\ TxsOf(Append(c, b)) = TxsOf(c) \cup Chain!BlockTxs(b)
           /\ TxHashes(Append(c, b))
                = TxHashes(c) \cup {tx.hash : tx \in Chain!BlockTxs(b)}
<1>1. TxsOf(Append(c, b)) = TxsOf(c) \cup Chain!BlockTxs(b)
  <2>. DEFINE d == Append(c, b)
  <2>1. /\ Len(c) \in Nat /\ DOMAIN c = 1..Len(c) /\ DOMAIN d = 1..(Len(c) + 1)
        /\ \A n \in 1..Len(c) : d[n] = c[n]
        /\ d[Len(c) + 1] = b
    BY AppendBlock
  <2>. HIDE DEF d
  <2>2. DOMAIN d = DOMAIN c \cup {Len(c) + 1}
    BY <2>1
  <2>3. TxsOf(d) = TxsOf(c) \cup Chain!BlockTxs(b)
    BY <2>1, <2>2 DEF TxsOf
  <2>. QED BY <2>3 DEF d
<1>. QED BY <1>1 DEF TxHashes

\* An accepted block extends a sound chain to a sound chain.
LEMMA AppendSound ==
    ASSUME NEW c, BlocksSound(c), NEW b, Chain!IsBlock(b), NEW u,
           Chain!Accepts(c[Len(c)], u, b)
    PROVE  BlocksSound(Append(c, b))
<1>. DEFINE d == Append(c, b)
<1>. c \in Seq({c[n] : n \in DOMAIN c}) /\ c # <<>>
  BY DEF BlocksSound
<1>1. /\ Len(c) \in Nat /\ DOMAIN c = 1..Len(c)
      /\ DOMAIN d = 1..(Len(c) + 1)
      /\ \A n \in 1..Len(c) : d[n] = c[n]
      /\ d[Len(c) + 1] = b
      /\ d # <<>> /\ d \in Seq({d[n] : n \in DOMAIN d})
  BY AppendBlock
<1>2. TxsOf(d) = TxsOf(c) \cup Chain!BlockTxs(b)
  BY AppendTxs
<1>. HIDE DEF d
<1>3. /\ b.header.index = c[Len(c)].header.index + 1
      /\ b.hash = block_calculate_hash(b)
      /\ \A tx \in Chain!BlockTxs(b) : tx.hash = tx_calculate_hash(tx)
  BY AcceptedBlock DEF Chain!BlockTxs
<1>4. Len(c) \in DOMAIN c /\ c[Len(c)].header.index = Len(c) - 1
  <2>1. Len(c) # 0
    OBVIOUS
  <2>2. Len(c) \in DOMAIN c
    BY <1>1, <2>1
  <2>. QED BY <2>2 DEF BlocksSound
<1>5. ASSUME NEW n \in DOMAIN d
      PROVE  /\ Chain!IsBlock(d[n])
             /\ d[n].header.index = n - 1
             /\ d[n].hash = block_calculate_hash(d[n])
  <2>1. CASE n \in 1..Len(c)
    BY <1>1, <2>1 DEF BlocksSound
  <2>2. CASE n = Len(c) + 1
    BY <1>1, <1>3, <1>4, <2>2
  <2>. QED BY <1>1, <2>1, <2>2
<1>6. BlocksSound(d)
  BY <1>1, <1>2, <1>3, <1>5 DEF BlocksSound
<1>. QED BY <1>6 DEF d

\* What add_block does to a sound chain.
LEMMA AddedBlock ==
    ASSUME ChainInv, NEW b, Chain!add_block(b)
    PROVE  /\ Chain!Accepts(tip, utxo_set, b)
           /\ chain' = Append(chain, b)
           /\ utxo_set' = Chain!apply_block_to_utxo_set(utxo_set, b)
           /\ applied' = applied + 1
           /\ file' = file
  BY DEF Chain!add_block, Chain!Push, Chain!latest, tip

\* The facts about a sound chain that steps keep needing.
LEMMA SoundChain ==
    ASSUME NEW c, BlocksSound(c)
    PROVE  /\ Len(c) \in Nat /\ Len(c) >= 1 /\ DOMAIN c = 1..Len(c)
           /\ c \in Seq({c[n] : n \in DOMAIN c}) /\ c # <<>>
<1>1. c \in Seq({c[n] : n \in DOMAIN c}) /\ c # <<>>
  BY DEF BlocksSound
<1>2. Len(c) \in Nat /\ DOMAIN c = 1..Len(c) /\ Len(c) # 0
  BY <1>1
<1>. QED BY <1>1, <1>2

\* A call of the chain leaves a sound chain that has only grown, of which the
\* file holds the first blocks.
LEMMA ChainStepKeepsInv ==
    ASSUME ChainInv, ChainStep
    PROVE  ChainInv' /\ ChainGrows
<1>1. Len(chain) \in Nat /\ Len(chain) >= 1 /\ DOMAIN chain = 1..Len(chain)
  BY SoundChain DEF ChainInv
<1>2. CASE UNCHANGED chainVars
  BY <1>1, <1>2 DEF chainVars, ChainInv, ChainGrows, FileInv, BlocksSound, TxsOf
<1>3. CASE Chain!save_to_disk
  <2>1. /\ chain' = chain /\ applied' = applied
        /\ file' = [i \in 1..Len(chain) |-> block_to_json(chain[i])]
    BY <1>1, <1>3, SameLedger DEF Chain!save_to_disk
  <2>2. FileInv'
    <3>1. /\ Len(chain') \in 0..Len(chain')
          /\ file' = [i \in 1..Len(chain') |-> block_to_json(chain'[i])]
      BY <1>1, <2>1
    <3>. QED BY <3>1 DEF FileInv
  <2>. QED BY <1>1, <2>1, <2>2 DEF ChainInv, ChainGrows, BlocksSound, TxsOf
<1>4. ASSUME NEW b, Chain!IsBlock(b), Chain!add_block(b)
      PROVE  ChainInv' /\ ChainGrows
  <2>1. /\ Chain!Accepts(tip, utxo_set, b) /\ chain' = Append(chain, b)
        /\ applied' = applied + 1 /\ file' = file
    BY <1>4, AddedBlock
  <2>2. /\ Len(chain') = Len(chain) + 1
        /\ \A n \in 1..Len(chain) : chain'[n] = chain[n]
    BY <2>1, SoundChain, AppendBlock DEF ChainInv
  <2>3. BlocksSound(chain')
    BY <1>4, <2>1, AppendSound DEF ChainInv, tip
  <2>4. FileInv'
    <3>1. PICK n \in 0..Len(chain) : file = [i \in 1..n |-> block_to_json(chain[i])]
      BY DEF ChainInv, FileInv
    <3>2. \A i \in 1..n : chain'[i] = chain[i]
      BY <1>1, <2>2
    <3>3. n \in 0..Len(chain') /\ file' = [i \in 1..n |-> block_to_json(chain'[i])]
      BY <1>1, <2>1, <2>2, <3>1, <3>2
    <3>. QED BY <3>3 DEF FileInv
  <2>5. Len(StartChain) \in Nat
    BY SoundChain, StartAssumption
  <2>. QED BY <1>1, <2>1, <2>2, <2>3, <2>4, <2>5 DEF ChainInv, ChainGrows
<1>. QED BY <1>2, <1>3, <1>4 DEF ChainStep

\* A call of the mempool keeps it consistent.
LEMMA PoolStepKeepsInv ==
    ASSUME PoolP!PoolInv, PoolStep
    PROVE  PoolP!PoolInv'
<1>1. CASE UNCHANGED poolVars
  BY <1>1 DEF poolVars, PoolP!PoolInv, PoolP!PoolTypeOK, PoolP!PoolConflictFree,
              PoolP!SpentIndexExact, PoolP!Pending
<1>2. ASSUME NEW tx \in Txs, Pool!add_transaction(tx)
      PROVE  PoolP!PoolInv'
  BY <1>2, SamePool, WordAssumption, PoolP!AddKeepsInv
<1>3. ASSUME NEW h, Pool!remove_transaction(h)
      PROVE  PoolP!PoolInv'
  BY <1>3, SamePool, WordAssumption, PoolP!RemoveKeepsInv
<1>. QED BY <1>1, <1>2, <1>3 DEF PoolStep

\* What the miner takes from a consistent mempool: transactions of the
\* wallets that do not conflict.
LEMMA Selection ==
    ASSUME PoolP!PoolInv, NEW s \in Pool!get_for_block(MaxTxsPerBlock)
    PROVE  s \in Seq(Txs) /\ ConflictFree(s)
<1>1. MaxTxsPerBlock \in Nat /\ s \in PoolP!get_for_block(MaxTxsPerBlock)
  BY SamePool, NodeAssumption
<1>2. s \in Seq(PoolP!Pending) /\ PoolP!BestChoice(s, MaxTxsPerBlock)
  BY <1>1, WordAssumption, PoolP!SelectionBest
<1>3. PoolP!Pending \subseteq Txs
  BY DEF PoolP!PoolInv, PoolP!PoolTypeOK, PoolP!Pending
<1>4. ConflictFree(s)
  BY <1>2, SameLedger DEF PoolP!BestChoice, ConflictFree
<1>. QED BY <1>2, <1>3, <1>4

-----------------------------------------------------------------------------
(* What a step leaves alone.                                               *)

\* A node starts with the genesis block at least.
LEMMA StartLength == Len(StartChain) \in Nat /\ Len(StartChain) >= 1
  BY SoundChain, StartAssumption

\* Positions on the chain stay positions of the same blocks.
LEMMA RecentGrows ==
    ASSUME ChainGrows, NEW n \in Recent
    PROVE  n \in Recent' /\ chain'[n] = chain[n]
  BY StartLength DEF ChainGrows, Recent

\* What the miner has read stays true while others add to the chain,
LEMMA MinerKept ==
    ASSUME MinerInv, ChainGrows, UNCHANGED miner PROVE MinerInv'
  BY RecentGrows DEF MinerInv

\* so do the blocks that peers have,
LEMMA PeersKept ==
    ASSUME PeersInv, ChainGrows, UNCHANGED peer_blocks PROVE PeersInv'
  BY DEF PeersInv, ChainGrows

\* and the locals of the handlers.
LEMMA HandlersKept ==
    ASSUME HandlersInv, UNCHANGED handler PROVE HandlersInv'
  BY DEF HandlersInv, HandlerInv

\* One handler takes a step.
LEMMA OneHandler ==
    ASSUME HandlersInv, NEW h \in Handlers, NEW s,
           handler' = [handler EXCEPT ![h] = s],
           HandlerInv(h)'
    PROVE  HandlersInv'
<1>1. DOMAIN handler' = Handlers /\ \A x \in Handlers \ {h} : handler'[x] = handler[x]
  BY DEF HandlersInv
<1>2. \A x \in Handlers \ {h} : HandlerInv(x)'
  BY <1>1 DEF HandlersInv, HandlerInv
<1>. QED BY <1>1, <1>2 DEF HandlersInv

-----------------------------------------------------------------------------
(* The steps of the main thread.                                           *)

\* Every step of the miner keeps the invariant, and is a step of the chain and
\* one of the pool.
LEMMA MinerKeepsInv ==
    ASSUME NodeInv, Miner
    PROVE  NodeInv' /\ ChainStep /\ PoolStep
<1>. USE DEF NodeInv
<1>1. ASSUME MinerRead PROVE NodeInv' /\ ChainStep /\ PoolStep
  <2>1. /\ miner' = [miner EXCEPT !.pc = "check", !.latest = <<tip>>]
        /\ UNCHANGED <<chainVars, poolVars, now, handler, peerVars>>
    BY <1>1 DEF MinerRead
  <2>2. MinerInv'
    <3>1. Len(chain) \in Recent /\ tip = chain[Len(chain)]
      BY StartLength, SoundChain DEF ChainInv, Recent, tip
    <3>2. /\ DOMAIN miner' = MinerFields
          /\ miner'.pc = "check" /\ miner'.latest[1] = tip
      BY <2>1 DEF MinerInv, MinerFields
    <3>3. Len(chain) \in Recent' /\ miner'.latest[1] = chain'[Len(chain)]
      BY <2>1, <3>1, <3>2 DEF Recent, chainVars
    <3>. QED BY <3>2, <3>3 DEF MinerInv
  <2>3. ChainStep /\ PoolStep
    BY <2>1 DEF ChainStep, PoolStep
  <2>. QED BY <2>1, <2>2, <2>3, ChainStepKeepsInv, PoolStepKeepsInv, HandlersKept,
              PeersKept DEF peerVars
<1>2. ASSUME MinerCheck PROVE NodeInv' /\ ChainStep /\ PoolStep
  <2>1. /\ miner.pc = "check"
        /\ miner' = [miner EXCEPT !.pc = "select"] \/ miner' = LoopTop
        /\ UNCHANGED <<chainVars, poolVars, now, handler, peerVars>>
    BY <1>2 DEF MinerCheck
  <2>2. ChainStep /\ PoolStep
    BY <2>1 DEF ChainStep, PoolStep
  <2>3. MinerInv'
    <3>1. CASE miner' = LoopTop
      BY <3>1 DEF LoopTop, MinerInv, MinerFields
    <3>2. CASE miner' = [miner EXCEPT !.pc = "select"]
      <4>1. DOMAIN miner' = MinerFields /\ miner'.pc = "select" /\ miner'.latest = miner.latest
        BY <3>2 DEF MinerInv, MinerFields
      <4>. QED BY <2>1, <4>1 DEF MinerInv, Recent, chainVars
    <3>. QED BY <2>1, <3>1, <3>2
  <2>. QED BY <2>1, <2>2, <2>3, ChainStepKeepsInv, PoolStepKeepsInv, HandlersKept,
              PeersKept DEF peerVars
<1>3. ASSUME MinerSelect PROVE NodeInv' /\ ChainStep /\ PoolStep
  <2>1. PICK txs \in Pool!get_for_block(MaxTxsPerBlock) :
          miner' = [miner EXCEPT !.pc = "mine", !.txs = txs]
    BY <1>3 DEF MinerSelect
  <2>2. miner.pc = "select" /\ UNCHANGED <<chainVars, poolVars, now, handler, peerVars>>
    BY <1>3 DEF MinerSelect
  <2>3. ChainStep /\ PoolStep
    BY <2>2 DEF ChainStep, PoolStep
  <2>4. MinerInv'
    <3>1. /\ DOMAIN miner' = MinerFields /\ miner'.pc = "mine"
          /\ miner'.latest = miner.latest /\ miner'.txs = txs
      BY <2>1 DEF MinerInv, MinerFields
    <3>2. txs \in Seq(Txs)
      BY Selection
    <3>. QED BY <2>2, <3>1, <3>2 DEF MinerInv, Recent, chainVars
  <2>. QED BY <2>2, <2>3, <2>4, ChainStepKeepsInv, PoolStepKeepsInv, HandlersKept,
              PeersKept DEF peerVars
<1>4. ASSUME MinerMine PROVE NodeInv' /\ ChainStep /\ PoolStep
  <2>1. PICK difficulty, b :
          /\ b \in Minable(miner.latest[1], miner.txs, MinerKey, difficulty, now)
          /\ miner' = [LoopTop EXCEPT !.pc = "add", !.block = <<b>>]
    BY <1>4 DEF MinerMine
  <2>2. miner.pc = "mine" /\ UNCHANGED <<chainVars, poolVars, now, handler, peerVars>>
    BY <1>4 DEF MinerMine
  <2>3. ChainStep /\ PoolStep
    BY <2>2 DEF ChainStep, PoolStep
  <2>4. Chain!IsBlock(b) /\ Listed(b.transactions)
    <3>1. miner.txs \in Seq(Txs) /\ \E n \in Recent : miner.latest[1] = chain[n]
      BY <2>2 DEF MinerInv
    <3>2. miner.latest[1].header.index \in Nat
      <4>1. PICK n \in Recent : miner.latest[1] = chain[n]
        BY <3>1
      <4>2. n \in DOMAIN chain
        BY StartLength, SoundChain DEF ChainInv, Recent
      <4>. QED BY <4>1, <4>2 DEF ChainInv, BlocksSound, Chain!IsBlock
    <3>. QED BY <2>1, <3>1, <3>2, MinedBlock DEF Minable
  <2>5. MinerInv'
    <3>1. DOMAIN miner' = MinerFields /\ miner'.pc = "add" /\ miner'.block[1] = b
      BY <2>1 DEF LoopTop, MinerFields
    <3>. QED BY <2>4, <3>1 DEF MinerInv
  <2>. QED BY <2>2, <2>3, <2>5, ChainStepKeepsInv, PoolStepKeepsInv, HandlersKept,
              PeersKept DEF peerVars
<1>5. ASSUME MinerAdd PROVE NodeInv' /\ ChainStep /\ PoolStep
  <2>1. /\ miner.pc = "add"
        /\ AddBlock(miner.block[1], miner' = [miner EXCEPT !.pc = "save", !.i = 1],
                    miner' = LoopTop)
        /\ UNCHANGED <<poolVars, now, handler, peerVars>>
    BY <1>5 DEF MinerAdd
  <2>2. /\ Chain!add_block(miner.block[1]) \/ UNCHANGED chainVars
        /\ miner' = [miner EXCEPT !.pc = "save", !.i = 1] \/ miner' = LoopTop
    BY <2>1 DEF AddBlock, Chain!add_block_rejected, Chain!chainVars, chainVars
  <2>3. ChainStep /\ PoolStep
    BY <2>1, <2>2 DEF ChainStep, PoolStep, MinerInv
  <2>4. MinerInv'
    <3>1. CASE miner' = LoopTop
      BY <3>1 DEF LoopTop, MinerInv, MinerFields
    <3>2. CASE miner' = [miner EXCEPT !.pc = "save", !.i = 1]
      <4>1. /\ DOMAIN miner' = MinerFields /\ miner'.pc = "save"
            /\ miner'.i = 1 /\ miner'.block = miner.block
        BY <3>2 DEF MinerInv, MinerFields
      <4>. QED BY <2>1, <4>1 DEF MinerInv
    <3>. QED BY <2>2, <3>1, <3>2
  <2>. QED BY <2>1, <2>3, <2>4, ChainStepKeepsInv, PoolStepKeepsInv, HandlersKept,
              PeersKept DEF peerVars
<1>6. ASSUME MinerSave PROVE NodeInv' /\ ChainStep /\ PoolStep
  <2>1. /\ Chain!save_to_disk /\ miner' = [miner EXCEPT !.pc = "remove"]
        /\ miner.pc = "save"
        /\ UNCHANGED <<poolVars, now, handler, peerVars>>
    BY <1>6 DEF MinerSave
  <2>2. ChainStep /\ PoolStep
    BY <2>1 DEF ChainStep, PoolStep
  <2>3. MinerInv'
    <3>1. /\ DOMAIN miner' = MinerFields /\ miner'.pc = "remove"
          /\ miner'.block = miner.block /\ miner'.i = 1
      BY <2>1 DEF MinerInv, MinerFields
    <3>2. Listed(miner.block[1].transactions)
      BY <2>1 DEF MinerInv
    <3>3. 1 \in DOMAIN miner.block[1].transactions
      BY <3>2 DEF Listed
    <3>. QED BY <2>1, <3>1, <3>3 DEF MinerInv
  <2>. QED BY <2>1, <2>2, <2>3, ChainStepKeepsInv, PoolStepKeepsInv, HandlersKept,
              PeersKept DEF peerVars
<1>7. ASSUME MinerRemove PROVE NodeInv' /\ ChainStep /\ PoolStep
  <2>1. /\ miner.pc = "remove"
        /\ \E h : Pool!remove_transaction(h)
        /\ \/ /\ miner.i < Len(miner.block[1].transactions)
              /\ miner' = [miner EXCEPT !.i = @ + 1]
           \/ miner' = LoopTop
        /\ UNCHANGED <<chainVars, now, handler, peerVars>>
    BY <1>7 DEF MinerRemove
  <2>2. ChainStep /\ PoolStep
    BY <2>1 DEF ChainStep, PoolStep
  <2>3. MinerInv'
    <3>1. CASE miner' = LoopTop
      BY <3>1 DEF LoopTop, MinerInv, MinerFields
    <3>2. CASE miner.i < Len(miner.block[1].transactions) /\ miner' = [miner EXCEPT !.i = @ + 1]
      <4>1. /\ DOMAIN miner' = MinerFields /\ miner'.pc = "remove"
            /\ miner'.block = miner.block /\ miner'.i = miner.i + 1
        BY <2>1, <3>2 DEF MinerInv, MinerFields
      <4>2. /\ Listed(miner.block[1].transactions)
            /\ miner.i \in DOMAIN miner.block[1].transactions
        BY <2>1 DEF MinerInv
      <4>3. miner.i + 1 \in DOMAIN miner.block[1].transactions
        BY <3>2, <4>2 DEF Listed
      <4>. QED BY <2>1, <4>1, <4>3 DEF MinerInv
    <3>. QED BY <2>1, <3>1, <3>2
  <2>. QED BY <2>1, <2>2, <2>3, ChainStepKeepsInv, PoolStepKeepsInv, HandlersKept,
              PeersKept DEF peerVars
<1>. QED BY <1>1, <1>2, <1>3, <1>4, <1>5, <1>6, <1>7 DEF Miner

-----------------------------------------------------------------------------
(* The steps of the handlers.                                              *)

\* What a peer's sync_response holds: blocks of our own chain and one more.
LEMMA SyncBlocks ==
    ASSUME ChainInv, NEW b, b.header.index \in 1..Len(chain),
           NEW from \in 0..b.header.index
    PROVE  LET s == Chain!get_blocks(Append(SubSeq(chain, 1, b.header.index), b), from)
           IN  /\ Len(s) = b.header.index + 1 - from
               /\ \A k \in 1..Len(s) :
                    \/ s[k] = b
                    \/ k + from \in 1..b.header.index /\ s[k] = chain[k + from]
<1>. DEFINE n == b.header.index
            c == SubSeq(chain, 1, n)
            d == Append(c, b)
            s == Chain!get_blocks(d, from)
            S == {chain[i] : i \in DOMAIN chain} \cup {b}
<1>1. Len(chain) \in Nat /\ chain \in Seq({chain[i] : i \in DOMAIN chain})
  BY SoundChain DEF ChainInv
<1>2. chain \in Seq(S)
  BY <1>1
<1>. HIDE DEF S
<1>3. n \in Nat /\ n <= Len(chain)
  BY <1>1
<1>. HIDE DEF n
<1>4. c \in Seq(S) /\ Len(c) = n /\ \A i \in 1..n : c[i] = chain[i]
  BY <1>1, <1>2, <1>3
<1>. HIDE DEF c
<1>5. /\ d \in Seq(S) /\ Len(d) = n + 1 /\ d[n + 1] = b
      /\ \A i \in 1..n : d[i] = chain[i]
  <2>1. b \in S
    BY DEF S
  <2>. QED BY <1>3, <1>4, <2>1
<1>. HIDE DEF d
<1>6. from \in 0..n
  BY DEF n
<1>7. /\ Len(s) = n + 1 - from
      /\ \A k \in 1..Len(s) : s[k] = d[k + from] /\ k + from \in 1..(n + 1)
  BY <1>3, <1>5, <1>6 DEF Chain!get_blocks
<1>. HIDE DEF s
<1>8. \A k \in 1..Len(s) : s[k] = b \/ (k + from \in 1..n /\ s[k] = chain[k + from])
  BY <1>3, <1>5, <1>6, <1>7
<1>. QED BY <1>7, <1>8 DEF s, d, c, n

\* A message arrives.
LEMMA ReceiveKeepsInv ==
    ASSUME NodeInv, NEW h \in Handlers, Receive(h)
    PROVE  NodeInv' /\ UNCHANGED <<chainVars, poolVars, now, miner, peer_blocks>>
<1>. USE DEF NodeInv
<1>1. UNCHANGED <<chainVars, poolVars, now, miner, peer_blocks>>
  BY DEF Receive, ReceiveTx, ReceiveBlock, ReceiveSync, peerVars
<1>2. ChainStep /\ PoolStep
  BY <1>1 DEF ChainStep, PoolStep
<1>3. handler[h].pc = "idle" /\ DOMAIN handler[h] = HandlerFields /\ DOMAIN handler = Handlers
  BY DEF Receive, ReceiveTx, ReceiveBlock, ReceiveSync, HandlersInv, HandlerInv
<1>4. HandlersInv'
  <2>1. CASE UNCHANGED handler
    BY <2>1, HandlersKept
  <2>2. ASSUME NEW tx \in Txs,
               handler' = [handler EXCEPT ![h].pc = "add_tx", ![h].data = <<tx>>]
        PROVE  HandlersInv'
    <3>. DEFINE s == [handler[h] EXCEPT !.pc = "add_tx", !.data = <<tx>>]
    <3>1. DOMAIN s = HandlerFields /\ s.pc = "add_tx" /\ s.data = <<tx>>
      BY <1>3 DEF HandlerFields
    <3>2. handler' = [handler EXCEPT ![h] = s]
      BY <1>3, <2>2
    <3>. HIDE DEF s
    <3>3. handler'[h] = s
      BY <1>3, <3>2
    <3>4. HandlerInv(h)'
      BY <3>1, <3>3 DEF HandlerInv
    <3>. QED BY <3>2, <3>4, OneHandler
  <2>3. ASSUME NEW b \in peer_blocks,
               handler' = [handler EXCEPT ![h].pc = "add_block", ![h].data = <<b>>]
        PROVE  HandlersInv'
    <3>. DEFINE s == [handler[h] EXCEPT !.pc = "add_block", !.data = <<b>>]
    <3>1. DOMAIN s = HandlerFields /\ s.pc = "add_block" /\ s.data = <<b>>
      BY <1>3 DEF HandlerFields
    <3>2. handler' = [handler EXCEPT ![h] = s]
      BY <1>3, <2>3
    <3>. HIDE DEF s
    <3>3. handler'[h] = s
      BY <1>3, <3>2
    <3>4. HandlerInv(h)'
      BY <3>1, <3>3 DEF HandlerInv, PeersInv
    <3>. QED BY <3>2, <3>4, OneHandler
  <2>4. ASSUME NEW b \in peer_blocks, NEW from \in 0..b.header.index, NEW data,
               data = Chain!get_blocks(Append(SubSeq(chain, 1, b.header.index), b), from),
               handler' = [handler EXCEPT ![h].pc = "sync", ![h].data = data, ![h].i = 1]
        PROVE  HandlersInv'
    <3>. DEFINE s == [handler[h] EXCEPT !.pc = "sync", !.data = data, !.i = 1]
    <3>1. DOMAIN s = HandlerFields /\ s.pc = "sync" /\ s.data = data /\ s.i = 1
      BY <1>3 DEF HandlerFields
    <3>2. handler' = [handler EXCEPT ![h] = s]
      BY <1>3, <2>4
    <3>. HIDE DEF s
    <3>3. handler'[h] = s
      BY <1>3, <3>2
    <3>4. b.header.index \in 1..Len(chain) /\ Chain!IsBlock(b)
      BY DEF PeersInv
    <3>5. /\ Len(data) = b.header.index + 1 - from
          /\ \A k \in 1..Len(data) :
               \/ data[k] = b
               \/ k + from \in 1..b.header.index /\ data[k] = chain[k + from]
      BY <2>4, <3>4, SyncBlocks
    <3>6. Len(data) \in Nat /\ Len(data) >= 1
      BY <3>4, <3>5, SoundChain DEF ChainInv
    <3>7. \A n \in 1..Len(chain) : Chain!IsBlock(chain[n])
      BY SoundChain DEF ChainInv, BlocksSound
    <3>8. \A n \in 1..b.header.index : n \in 1..Len(chain)
      BY <3>4, SoundChain DEF ChainInv
    <3>9. \A k \in 1..Len(data) : Chain!IsBlock(data[k])
      BY <3>4, <3>5, <3>7, <3>8
    <3>10. HandlerInv(h)'
      BY <3>1, <3>3, <3>6, <3>9 DEF HandlerInv
    <3>. QED BY <3>2, <3>10, OneHandler
  <2>5. CASE ReceiveTx(h)
    BY <2>1, <2>2, <2>5 DEF ReceiveTx
  <2>6. CASE ReceiveBlock(h)
    BY <2>3, <2>6 DEF ReceiveBlock
  <2>7. CASE ReceiveSync(h)
    BY <2>4, <2>7 DEF ReceiveSync
  <2>. QED BY <2>5, <2>6, <2>7 DEF Receive
<1>. QED BY <1>1, <1>2, <1>4, ChainStepKeepsInv, PoolStepKeepsInv, MinerKept, PeersKept

\* A handler makes its next call.
LEMMA HandleKeepsInv ==
    ASSUME NodeInv, NEW h \in Handlers, Handle(h)
    PROVE  /\ NodeInv' /\ ChainStep /\ PoolStep
           /\ UNCHANGED <<now, miner, peerVars>>
<1>. USE DEF NodeInv
<1>0. DOMAIN handler[h] = HandlerFields /\ DOMAIN handler = Handlers /\ HandlerInv(h)
  BY DEF HandlersInv, HandlerInv
<1>1. ASSUME NEW s, handler' = [handler EXCEPT ![h] = s], DOMAIN s = HandlerFields,
             s.pc \in {"idle", "sync_save"}
      PROVE  HandlersInv'
  <2>1. handler'[h] = s
    BY <1>0, <1>1
  <2>2. HandlerInv(h)'
    BY <1>1, <2>1 DEF HandlerInv
  <2>. QED BY <1>1, <2>2, OneHandler
<1>2. DOMAIN Idle = HandlerFields /\ Idle.pc = "idle"
  BY DEF Idle, HandlerFields
<1>3. CASE AddTx(h)
  <2>1. /\ Pool!add_transaction(handler[h].data[1]) /\ handler[h].pc = "add_tx"
        /\ handler' = [handler EXCEPT ![h] = Idle]
        /\ UNCHANGED <<chainVars, now, miner, peerVars>>
    BY <1>3 DEF AddTx
  <2>2. ChainStep /\ PoolStep
    BY <1>0, <2>1 DEF ChainStep, PoolStep, HandlerInv
  <2>3. HandlersInv'
    BY <1>1, <1>2, <2>1
  <2>. QED BY <2>1, <2>2, <2>3, ChainStepKeepsInv, PoolStepKeepsInv, MinerKept,
              PeersKept DEF peerVars
<1>4. CASE AddReceivedBlock(h)
  <2>1. /\ AddBlock(handler[h].data[1], TRUE, TRUE) /\ handler[h].pc = "add_block"
        /\ handler' = [handler EXCEPT ![h].pc = "remove", ![h].i = 1]
        /\ UNCHANGED <<poolVars, now, miner, peerVars>>
    BY <1>4 DEF AddReceivedBlock
  <2>2. Chain!add_block(handler[h].data[1]) \/ UNCHANGED chainVars
    BY <2>1 DEF AddBlock, Chain!add_block_rejected, Chain!chainVars, chainVars
  <2>3. ChainStep /\ PoolStep
    BY <1>0, <2>1, <2>2 DEF ChainStep, PoolStep, HandlerInv
  <2>4. HandlersInv'
    <3>. DEFINE s == [handler[h] EXCEPT !.pc = "remove", !.i = 1]
    <3>1. DOMAIN s = HandlerFields /\ s.pc = "remove" /\ s.data = handler[h].data /\ s.i = 1
      BY <1>0 DEF HandlerFields
    <3>2. handler' = [handler EXCEPT ![h] = s]
      BY <1>0, <2>1
    <3>. HIDE DEF s
    <3>3. handler'[h] = s
      BY <1>0, <3>2
    <3>4. Listed(handler[h].data[1].transactions)
      BY <1>0, <2>1 DEF HandlerInv
    <3>5. 1 \in DOMAIN handler[h].data[1].transactions
      BY <3>4 DEF Listed
    <3>6. HandlerInv(h)'
      BY <1>0, <2>1, <3>1, <3>3, <3>5 DEF HandlerInv
    <3>. QED BY <3>2, <3>6, OneHandler
  <2>. QED BY <2>1, <2>3, <2>4, ChainStepKeepsInv, PoolStepKeepsInv, MinerKept,
              PeersKept DEF peerVars
<1>5. CASE RemoveConfirmed(h)
  <2>1. /\ \E x : Pool!remove_transaction(x)
        /\ handler[h].pc = "remove"
        /\ \/ /\ handler[h].i < Len(handler[h].data[1].transactions)
              /\ handler' = [handler EXCEPT ![h].i = @ + 1]
           \/ handler' = [handler EXCEPT ![h] = Idle]
        /\ UNCHANGED <<chainVars, now, miner, peerVars>>
    BY <1>5 DEF RemoveConfirmed
  <2>2. ChainStep /\ PoolStep
    BY <2>1 DEF ChainStep, PoolStep
  <2>3. HandlersInv'
    <3>1. CASE /\ handler[h].i < Len(handler[h].data[1].transactions)
               /\ handler' = [handler EXCEPT ![h].i = @ + 1]
      <4>. DEFINE s == [handler[h] EXCEPT !.i = handler[h].i + 1]
      <4>1. /\ DOMAIN s = HandlerFields /\ s.pc = "remove"
            /\ s.data = handler[h].data /\ s.i = handler[h].i + 1
        BY <1>0, <2>1 DEF HandlerFields
      <4>2. handler' = [handler EXCEPT ![h] = s]
        BY <1>0, <3>1
      <4>. HIDE DEF s
      <4>3. handler'[h] = s
        BY <1>0, <4>2
      <4>4. /\ Listed(handler[h].data[1].transactions)
            /\ handler[h].i \in DOMAIN handler[h].data[1].transactions
        BY <1>0, <2>1 DEF HandlerInv
      <4>5. handler[h].i + 1 \in DOMAIN handler[h].data[1].transactions
        BY <3>1, <4>4 DEF Listed
      <4>6. HandlerInv(h)'
        BY <1>0, <2>1, <4>1, <4>3, <4>5 DEF HandlerInv
      <4>. QED BY <4>2, <4>6, OneHandler
    <3>2. CASE handler' = [handler EXCEPT ![h] = Idle]
      BY <1>1, <1>2, <3>2
    <3>. QED BY <2>1, <3>1, <3>2
  <2>. QED BY <2>1, <2>2, <2>3, ChainStepKeepsInv, PoolStepKeepsInv, MinerKept,
              PeersKept DEF peerVars
<1>6. CASE SyncAdd(h)
  <2>. DEFINE data == handler[h].data
              i    == handler[h].i
              more(done) == [handler[h] EXCEPT !.i = i + 1, !.added = done]
              last       == [handler[h] EXCEPT !.pc = "sync_save", !.added = TRUE]
              next(done) == IF i < Len(data) THEN more(done)
                            ELSE IF done THEN last ELSE Idle
  <2>1. /\ AddBlock(data[i],
                    handler' = [handler EXCEPT ![h] = next(TRUE)],
                    handler' = [handler EXCEPT ![h] = next(handler[h].added)])
        /\ handler[h].pc = "sync"
        /\ UNCHANGED <<poolVars, now, miner, peerVars>>
    BY <1>6 DEF SyncAdd
  <2>2. /\ Chain!add_block(data[i]) \/ UNCHANGED chainVars
        /\ \E done : handler' = [handler EXCEPT ![h] = next(done)]
    <3>. HIDE DEF next
    <3>. QED BY <2>1 DEF AddBlock, Chain!add_block_rejected, Chain!chainVars, chainVars
  <2>3. /\ Len(data) \in Nat /\ i \in 1..Len(data)
        /\ \A k \in 1..Len(data) : Chain!IsBlock(data[k])
    BY <1>0, <2>1 DEF HandlerInv
  <2>4. ChainStep /\ PoolStep
    BY <2>1, <2>2, <2>3 DEF ChainStep, PoolStep
  <2>5. HandlersInv'
    <3>1. PICK done : handler' = [handler EXCEPT ![h] = next(done)]
      BY <2>2
    <3>2. CASE i < Len(data)
      <4>. DEFINE s == more(done)
      <4>1. DOMAIN s = HandlerFields /\ s.pc = "sync" /\ s.data = data /\ s.i = i + 1
        BY <1>0, <2>1 DEF HandlerFields
      <4>2. handler' = [handler EXCEPT ![h] = s]
        BY <3>1, <3>2
      <4>. HIDE DEF s
      <4>3. handler'[h] = s
        BY <1>0, <4>2
      <4>4. HandlerInv(h)'
        BY <2>3, <3>2, <4>1, <4>3 DEF HandlerInv
      <4>. QED BY <4>2, <4>4, OneHandler
    <3>3. CASE ~(i < Len(data)) /\ done
      <4>1. DOMAIN last = HandlerFields /\ last.pc = "sync_save"
        BY <1>0 DEF HandlerFields
      <4>2. handler' = [handler EXCEPT ![h] = last]
        BY <3>1, <3>3
      <4>. HIDE DEF last
      <4>. QED BY <1>1, <4>1, <4>2
    <3>4. CASE ~(i < Len(data)) /\ ~done
      BY <1>1, <1>2, <3>1, <3>4
    <3>. QED BY <3>2, <3>3, <3>4
  <2>. QED BY <2>1, <2>4, <2>5, ChainStepKeepsInv, PoolStepKeepsInv, MinerKept,
              PeersKept DEF peerVars
<1>7. CASE SyncSave(h)
  <2>1. /\ Chain!save_to_disk /\ handler' = [handler EXCEPT ![h] = Idle]
        /\ UNCHANGED <<poolVars, now, miner, peerVars>>
    BY <1>7 DEF SyncSave
  <2>2. ChainStep /\ PoolStep
    BY <2>1 DEF ChainStep, PoolStep
  <2>3. HandlersInv'
    BY <1>1, <1>2, <2>1
  <2>. QED BY <2>1, <2>2, <2>3, ChainStepKeepsInv, PoolStepKeepsInv, MinerKept,
              PeersKept DEF peerVars
<1>. QED BY <1>3, <1>4, <1>5, <1>6, <1>7 DEF Handle

-----------------------------------------------------------------------------
(* The steps of the environment, and all steps.                            *)

\* A block that a peer can announce.
LEMMA PeerBlock ==
    ASSUME NodeInv, PeerMine
    PROVE  \E n \in Recent, time \in now..(now + Skew), txs \in Seq(Txs) :
             \E difficulty : \E b \in Minable(chain[n], txs, PeerKey, difficulty, time) :
               /\ Minus(time, chain[n].header.timestamp) >= min_block_gap_sec
               /\ peer_blocks' = peer_blocks \cup {b}
               /\ ConflictFree(txs)
<1>1. PICK n \in {Len(chain) - 1, Len(chain)} \cap (Len(StartChain)..(MaxBlocks - 1)) :
        \E time \in now..(now + Skew) :
           /\ Minus(time, chain[n].header.timestamp) >= min_block_gap_sec
           /\ \E txs \in PeerTxs(SubSeq(chain, 1, n)),
                 difficulty \in NextDifficulty(SubSeq(chain, 1, n), chain[n]) :
                \E b \in Minable(chain[n], txs, PeerKey, difficulty, time) :
                   peer_blocks' = peer_blocks \cup {b}
  BY DEF PeerMine
<1>2. n \in Recent
  BY StartLength, SoundChain DEF NodeInv, ChainInv, Recent
<1>3. ASSUME NEW txs \in PeerTxs(SubSeq(chain, 1, n))
      PROVE  txs \in Seq(Txs) /\ ConflictFree(txs)
  <2>1. txs = <<>> \/ \E tx \in Txs : txs = <<tx>>
    BY DEF PeerTxs
  <2>2. CASE txs = <<>>
    <3>1. DOMAIN txs = {}
      BY <2>2
    <3>. QED BY <2>2, <3>1 DEF ConflictFree
  <2>3. ASSUME NEW tx \in Txs, txs = <<tx>>
        PROVE  txs \in Seq(Txs) /\ ConflictFree(txs)
    <3>1. DOMAIN txs = 1..1
      BY <2>3
    <3>2. \A i, j \in 1..1 : i = j
      OBVIOUS
    <3>. QED BY <2>3, <3>1, <3>2 DEF ConflictFree
  <2>. QED BY <2>1, <2>2, <2>3
<1>. QED BY <1>1, <1>2, <1>3

\* What Minable blocks are, on a block of the chain.
LEMMA MinableBlock ==
    ASSUME ChainInv, NEW n \in Recent, NEW txs \in Seq(Txs), NEW key, NEW difficulty,
           NEW time, NEW b \in Minable(chain[n], txs, key, difficulty, time)
    PROVE  /\ Chain!IsBlock(b) /\ Listed(b.transactions)
           /\ b.header.index = n /\ n \in 1..Len(chain)
           /\ b.header.previous_hash = chain[n].hash
           /\ b.header.timestamp = time
           /\ CoinbaseFirst(b.transactions, txs, time)
<1>1. n \in 1..Len(chain) /\ n \in DOMAIN chain
  BY StartLength, SoundChain DEF ChainInv, Recent
<1>2. chain[n].header.index = n - 1
  BY <1>1 DEF ChainInv, BlocksSound
<1>3. n - 1 \in Nat /\ (n - 1) + 1 = n
  BY <1>1
<1>4. PICK reward : b = mine_block(chain[n], txs, get_address(key), difficulty, reward, time)
  BY DEF Minable
<1>. DEFINE address == get_address(key)
<1>5. b = mine_block(chain[n], txs, address, difficulty, reward, time)
  BY <1>4
<1>. HIDE DEF address
<1>6. chain[n].header.index \in Nat /\ chain[n].header.index + 1 = n
  BY <1>2, <1>3
<1>7. /\ Chain!IsBlock(b) /\ Listed(b.transactions)
      /\ b.header.index = chain[n].header.index + 1
      /\ b.header.previous_hash = chain[n].hash
      /\ b.header.timestamp = time
  BY <1>5, <1>6, MinedBlock
<1>8. CoinbaseFirst(b.transactions, txs, time)
  BY <1>5, <1>6, MinedBlock
<1>. QED BY <1>1, <1>6, <1>7, <1>8

\* Every step keeps the invariant, and is one of a call of the chain and one
\* of the mempool.
LEMMA StepKeepsInv ==
    ASSUME NodeInv, [NodeNext]_vars
    PROVE  NodeInv' /\ ChainStep /\ PoolStep
<1>1. CASE Miner
  BY <1>1, MinerKeepsInv
<1>2. ASSUME NEW h \in Handlers, Receive(h)
      PROVE  NodeInv' /\ ChainStep /\ PoolStep
  BY <1>2, ReceiveKeepsInv DEF ChainStep, PoolStep
<1>3. ASSUME NEW h \in Handlers, Handle(h)
      PROVE  NodeInv' /\ ChainStep /\ PoolStep
  BY <1>3, HandleKeepsInv
<1>4. ASSUME UNCHANGED <<chainVars, poolVars, miner, handler>>, PeersInv', now' \in Nat
      PROVE  NodeInv' /\ ChainStep /\ PoolStep
  BY <1>4, ChainStepKeepsInv, PoolStepKeepsInv, MinerKept, HandlersKept
     DEF NodeInv, ChainStep, PoolStep
<1>5. CASE PeerMine
  <2>1. UNCHANGED <<chainVars, poolVars, now, miner, handler, deliveries>>
    BY <1>5 DEF PeerMine
  <2>2. PICK n \in Recent, time \in now..(now + Skew), txs \in Seq(Txs) :
               \E difficulty : \E b \in Minable(chain[n], txs, PeerKey, difficulty, time) :
                  peer_blocks' = peer_blocks \cup {b}
    BY <1>5, PeerBlock
  <2>3. PICK difficulty, b : /\ b \in Minable(chain[n], txs, PeerKey, difficulty, time)
                             /\ peer_blocks' = peer_blocks \cup {b}
    BY <2>2
  <2>4. Chain!IsBlock(b) /\ Listed(b.transactions) /\ b.header.index \in 1..Len(chain)
    <3>1. ChainInv
      BY DEF NodeInv
    <3>2. n \in Recent /\ txs \in Seq(Txs)
      BY <2>2
    <3>3. b \in Minable(chain[n], txs, PeerKey, difficulty, time)
      BY <2>3
    <3>4. /\ Chain!IsBlock(b) /\ Listed(b.transactions)
          /\ b.header.index = n /\ n \in 1..Len(chain)
      BY ONLY <3>1, <3>2, <3>3, MinableBlock
    <3>. QED BY <3>4
  <2>5. PeersInv'
    BY <2>1, <2>3, <2>4 DEF NodeInv, PeersInv, chainVars
  <2>. QED BY <1>4, <2>1, <2>5 DEF NodeInv
<1>6. CASE Tick
  <2>1. UNCHANGED <<chainVars, poolVars, miner, handler, peerVars>> /\ now' = now + 1
    BY <1>6 DEF Tick
  <2>2. PeersInv'
    BY <2>1 DEF NodeInv, PeersInv, chainVars, peerVars
  <2>. QED BY <1>4, <2>1, <2>2 DEF NodeInv
<1>7. CASE UNCHANGED vars
  BY <1>4, <1>7 DEF vars, NodeInv, PeersInv, chainVars, peerVars
<1>. QED BY <1>1, <1>2, <1>3, <1>5, <1>6, <1>7 DEF NodeNext, BoundReached

\* A node that has loaded the chain it starts with.
LEMMA InitialInv == ASSUME NodeInit PROVE NodeInv
<1>1. ChainInv
  <2>1. chain = StartChain /\ applied = Len(StartChain)
        /\ file = [i \in DOMAIN StartChain |-> block_to_json(StartChain[i])]
    BY DEF NodeInit
  <2>2. BlocksSound(StartChain) /\ DOMAIN StartChain = 1..Len(StartChain)
        /\ Len(StartChain) \in Nat
    BY SoundChain, StartAssumption
  <2>3. Len(StartChain) \in 0..Len(chain)
        /\ file = [i \in 1..Len(StartChain) |-> block_to_json(chain[i])]
    BY <2>1, <2>2
  <2>. QED BY <2>1, <2>2, <2>3 DEF ChainInv, FileInv
<1>2. PoolP!PoolInv
  <2>1. transactions = [h \in {} |-> h] /\ spent_in_mempool = {}
    BY DEF NodeInit, Pool!PoolInit
  <2>2. DOMAIN transactions = {} /\ PoolP!Pending = {}
    BY <2>1 DEF PoolP!Pending
  <2>3. PoolP!PoolTypeOK /\ PoolP!PoolConflictFree
    BY <2>2 DEF PoolP!PoolTypeOK, PoolP!PoolConflictFree
  <2>4. PoolP!SpentIndexExact
    BY <2>1, <2>2 DEF PoolP!SpentIndexExact
  <2>5. PoolP!IsFiniteSet(PoolP!Pending)
    BY <2>2, WordAssumption, PoolP!FS_EmptySet
  <2>. QED BY <2>3, <2>4, <2>5 DEF PoolP!PoolInv
<1>3. MinerInv
  BY DEF NodeInit, MinerInv, LoopTop, MinerFields
<1>4. HandlersInv
  BY DEF NodeInit, HandlersInv, HandlerInv, Idle, HandlerFields
<1>5. PeersInv
  BY DEF NodeInit, PeersInv
<1>6. now \in Nat
  BY StartAssumption DEF NodeInit, CoinbasesPast
<1>. QED BY <1>1, <1>2, <1>3, <1>4, <1>5, <1>6 DEF NodeInv

\* Whatever the threads are in the middle of, what they have got ready for
\* their next calls is well-formed, and so are the chain, the file and the
\* mempool.
THEOREM NodeInvariant == NodeSpec => []NodeInv
<1>1. NodeInit => NodeInv
  BY InitialInv
<1>2. NodeInv /\ [NodeNext]_vars => NodeInv'
  BY StepKeepsInv
<1>. QED BY <1>1, <1>2, PTL DEF NodeSpec

\* The threads are at places of their code with locals of the types these
\* need, no loop of theirs runs out of its list, the mempool holds transactions
\* of the wallets under their hashes, and applied counts the blocks of the
\* chain.
THEOREM NodeTypeCorrect == NodeSpec => []NodeTypeOK
<1>1. ASSUME NodeInv PROVE NodeTypeOK
  <2>1. MinerTypeOK
    BY <1>1 DEF NodeInv, MinerInv, MinerTypeOK, Recent
  <2>2. ASSUME NEW h \in Handlers PROVE HandlerTypeOK(h)
    BY <1>1 DEF NodeInv, HandlersInv, HandlerInv, HandlerTypeOK
  <2>. QED BY <1>1, <2>1, <2>2
           DEF NodeInv, NodeTypeOK, ChainInv, PoolP!PoolInv, PoolP!PoolTypeOK
<1>. QED BY <1>1, NodeInvariant, PTL

\* The file is the chain of some earlier moment, whichever of the threads
\* wrote it: read back, it is the first blocks of the chain.
THEOREM SavedAlwaysPrefix == NodeSpec => []SavedIsPrefix
<1>1. ASSUME NodeInv PROVE SavedIsPrefix
  <2>1. PICK n \in 0..Len(chain) : file = [i \in 1..n |-> block_to_json(chain[i])]
    BY <1>1 DEF NodeInv, ChainInv, FileInv
  <2>2. /\ Len(chain) \in Nat
        /\ \A i \in 1..Len(chain) : Chain!IsBlock(chain[i])
    BY <1>1, SoundChain DEF NodeInv, ChainInv, BlocksSound
  <2>3. Len(file) = n /\ DOMAIN file = 1..n
    BY <2>1
  <2>4. ASSUME NEW i \in 1..n PROVE block_from_json(file[i]) = chain[i]
    <3>1. Chain!IsBlock(chain[i]) /\ file[i] = block_to_json(chain[i])
      BY <2>1, <2>2
    <3>2. ChainP!block_from_json(ChainP!block_to_json(chain[i])) = chain[i]
      BY <3>1, SameBlocks, WordAssumption, ChainP!JsonRoundTrip
    <3>. QED BY <3>1, <3>2, SameLedger
  <2>. QED BY <2>2, <2>3, <2>4 DEF SavedIsPrefix
<1>. QED BY <1>1, NodeInvariant, PTL

\* Miner and handlers save one after the other; none of them writes back an
\* older chain than the file already holds.
THEOREM SavesNeverShrink == NodeSpec => SavedNeverShrinks
<1>1. ASSUME NodeInv, [NodeNext]_vars PROVE [Len(file') >= Len(file)]_vars
  <2>1. ChainStep
    BY <1>1, StepKeepsInv
  <2>2. PICK n \in 0..Len(chain) : file = [i \in 1..n |-> block_to_json(chain[i])]
    BY <1>1 DEF NodeInv, ChainInv, FileInv
  <2>3. Len(chain) \in Nat /\ DOMAIN chain = 1..Len(chain)
    BY <1>1, SoundChain DEF NodeInv, ChainInv
  <2>4. Len(file) = n
    BY <2>2
  <2>5. file' = file \/ file' = [i \in 1..Len(chain) |-> block_to_json(chain[i])]
    BY <2>1, <2>3, SameLedger DEF ChainStep, chainVars, Chain!save_to_disk,
       Chain!add_block, Chain!Push
  <2>6. file' = file \/ Len(file') = Len(chain)
    BY <2>3, <2>5
  <2>. QED BY <2>3, <2>4, <2>6
<1>. QED BY <1>1, NodeInvariant, PTL DEF NodeSpec, SavedNeverShrinks

\* Inside the node the mempool only ever does what its own specification lets
\* it do, so that the theorems of MempoolProofs hold here: no thread adds a
\* transaction that is not one of the wallets', whatever block it removes from.
THEOREM PoolRefinement == NodeSpec => PoolRefined
<1>1. NodeInit => Pool!PoolInit
  BY DEF NodeInit
<1>2. ASSUME NodeInv, [NodeNext]_vars PROVE [Pool!PoolNext]_(Pool!poolVars)
  <2>1. PoolStep
    BY <1>2, StepKeepsInv
  <2>2. CASE UNCHANGED poolVars
    BY <2>2 DEF poolVars, Pool!poolVars
  <2>3. CASE \E tx \in Txs : Pool!add_transaction(tx)
    BY <2>3 DEF Pool!PoolNext
  <2>4. ASSUME NEW h, Pool!remove_transaction(h)
        PROVE  [Pool!PoolNext]_(Pool!poolVars)
    <3>1. CASE h \notin DOMAIN transactions
      BY <2>4, <3>1 DEF Pool!remove_transaction
    <3>2. CASE h \in DOMAIN transactions
      <4>1. transactions[h] \in Txs /\ transactions[h].hash = h
        BY <1>2, <3>2 DEF NodeInv, PoolP!PoolInv, PoolP!PoolTypeOK
      <4>2. \E tx \in Txs : Pool!remove_transaction(tx.hash)
        BY <2>4, <4>1
      <4>. QED BY <4>2 DEF Pool!PoolNext
    <3>. QED BY <3>1, <3>2
  <2>. QED BY <2>1, <2>2, <2>3, <2>4 DEF PoolStep
<1>. QED BY <1>1, <1>2, NodeInvariant, PTL DEF NodeSpec, PoolRefined, Pool!PoolSpec

-----------------------------------------------------------------------------
(* Time and money.  Both need the peers' clocks to agree with ours         *)
(* (Skew = 0) and a minimum gap between blocks.                            *)
(*                                                                         *)
(* A block that add_block will be offered is Acceptable: it does not       *)
(* conflict with itself, and it is younger than a block of our chain that  *)
(* it names as its parent.  Then no transaction can enter the chain a      *)
(* second time, because its inputs are gone or, for a coinbase, because    *)
(* its time stamp is new; so no output that was spent comes back to be     *)
(* spent again.                                                            *)

\* Our peers' clocks show our time, and blocks are some time apart.
ClocksAgree == Skew = 0 /\ min_block_gap_sec > 0

\* Block b, if add_block takes it, does no harm.
Acceptable(b) ==
    /\ b.header.timestamp \in 0..now
    /\ \E n \in Recent :
         /\ chain[n].hash = b.header.previous_hash
         /\ b.header.timestamp >= chain[n].header.timestamp + min_block_gap_sec
    /\ ConflictFree(b.transactions)
    /\ \A tx \in Chain!BlockTxs(b) :
         is_coinbase(tx) => tx.timestamp = b.header.timestamp

\* add_block has taken b before.
Known(b) == \E n \in DOMAIN chain : b = chain[n]

\* The chain is in order and, for the outputs, the chain and the UTXO set.
TimesInv ==
    \A n \in Recent : chain[n].header.timestamp \in 0..now

MoneyInv ==
    /\ CoinbasesPast(chain)
    /\ OutputsSound(chain, utxo_set)
    /\ SpentOnce(chain)

\* What the main thread has got ready.
MinerLedgerInv ==
    /\ miner.pc \in {"select", "mine"} =>
         now >= miner.latest[1].header.timestamp + min_block_gap_sec
    /\ miner.pc = "mine" => ConflictFree(miner.txs)
    /\ miner.pc = "add" => Acceptable(miner.block[1])

\* What a connection's thread in state s has got ready.
HandlerLedgerInv(s) ==
    /\ s.pc = "add_block" => Acceptable(s.data[1])
    /\ s.pc = "sync" =>
         \A k \in 1..Len(s.data) : Acceptable(s.data[k]) \/ Known(s.data[k])

LedgerInv ==
    /\ TimesInv /\ MinGapKept /\ MoneyInv /\ MinerLedgerInv
    /\ \A h \in Handlers : HandlerLedgerInv(handler[h])
    /\ \A b \in peer_blocks : Acceptable(b)

-----------------------------------------------------------------------------
(* A block that is younger than the chain that accepts it.                 *)

GoodNext(c, u, b) ==
    /\ BlocksSound(c) /\ CoinbasesPast(c) /\ OutputsSound(c, u) /\ SpentOnce(c)
    /\ Chain!IsBlock(b) /\ Chain!Accepts(c[Len(c)], u, b)
    /\ b.header.timestamp \in Nat
    /\ b.header.timestamp > c[Len(c)].header.timestamp
    /\ ConflictFree(b.transactions)
    /\ \A tx \in Chain!BlockTxs(b) :
         is_coinbase(tx) => tx.timestamp = b.header.timestamp

\* Its transactions spend outputs of the UTXO set, or are coinbases.
LEMMA NextSpends ==
    ASSUME NEW c, NEW u, NEW b, GoodNext(c, u, b), NEW tx \in Chain!BlockTxs(b)
    PROVE  /\ Chain!IsTransaction(tx) /\ tx.inputs # <<>>
           /\ tx.hash = tx_calculate_hash(tx)
           /\ is_coinbase(tx) \/ InputKeys(tx) \subseteq DOMAIN u
<1>1. Chain!IsTransaction(tx)
  BY DEF GoodNext, Chain!IsBlock
<1>2. PICK i \in DOMAIN b.transactions : tx = b.transactions[i]
  BY DEF Chain!BlockTxs
<1>3. Chain!Accepts(c[Len(c)], u, b)
  BY DEF GoodNext
<1>4. /\ tx.inputs # <<>> /\ tx.hash = tx_calculate_hash(tx)
      /\ (i = 1 /\ is_coinbase(tx)) \/ InputKeys(tx) \subseteq DOMAIN u
  BY <1>2, <1>3, AcceptedBlock
<1>. QED BY <1>1, <1>4

\* A transaction with inputs spends something.
LEMMA SpendsSomething ==
    ASSUME NEW tx, Chain!IsTransaction(tx), tx.inputs # <<>>
    PROVE  \E k : k \in InputKeys(tx)
<1>1. Len(tx.inputs) \in Nat /\ DOMAIN tx.inputs = 1..Len(tx.inputs)
  BY DEF Chain!IsTransaction
<1>2. tx.inputs = [i \in DOMAIN tx.inputs |-> Chain!InputFields(tx.inputs[i])]
  BY DEF Chain!IsTransaction, Chain!TxFields
<1>3. Len(tx.inputs) # 0
  <2>1. SUFFICES ASSUME DOMAIN tx.inputs = 1..0 PROVE FALSE
    BY <1>1
  <2>2. tx.inputs = [i \in 1..0 |-> Chain!InputFields(tx.inputs[i])]
    BY <1>2, <2>1
  <2>3. tx.inputs = <<>>
    BY <2>2
  <2>. QED BY <2>3
<1>4. 1 \in DOMAIN tx.inputs
  BY <1>1, <1>3
<1>5. utxo_key(tx.inputs[1].tx_id, tx.inputs[1].output_index) \in InputKeys(tx)
  BY <1>4 DEF InputKeys
<1>. QED BY <1>5

\* No output of a sound chain has the hash that stands for none.
LEMMA NullNotOnChain ==
    ASSUME NEW c, BlocksSound(c)
    PROVE  null_hash \notin TxHashes(c)
<1>1. ASSUME NEW tx \in TxsOf(c) PROVE tx.hash # null_hash
  BY HashIsNotNull DEF BlocksSound
<1>. QED BY <1>1 DEF TxHashes

\* Its transactions are new: one with the hash of an older transaction would
\* spend what is gone, or be a coinbase of the past.
LEMMA NextIsNew ==
    ASSUME NEW c, NEW u, NEW b, GoodNext(c, u, b), NEW tx \in Chain!BlockTxs(b)
    PROVE  tx.hash \notin TxHashes(c)
<1>1. SUFFICES ASSUME NEW old \in TxsOf(c), old.hash = tx.hash PROVE FALSE
  BY DEF TxHashes
<1>2. /\ Chain!IsTransaction(tx) /\ tx.inputs # <<>>
      /\ tx.hash = tx_calculate_hash(tx)
      /\ is_coinbase(tx) \/ InputKeys(tx) \subseteq DOMAIN u
  BY NextSpends
<1>3. /\ BlocksSound(c) /\ CoinbasesPast(c) /\ OutputsSound(c, u)
  BY DEF GoodNext
<1>4. old.hash = tx_calculate_hash(old)
  BY <1>3 DEF BlocksSound
<1>5. tx.timestamp = old.timestamp /\ InputKeys(tx) = InputKeys(old)
  BY <1>1, <1>2, <1>4, HashHasContents
<1>6. null_hash \notin TxHashes(c)
  BY <1>3, NullNotOnChain
<1>7. Chain!IsTransaction(old)
  <2>1. PICK n \in DOMAIN c : old \in Chain!BlockTxs(c[n])
    BY DEF TxsOf
  <2>. QED BY <1>3, <2>1 DEF BlocksSound, Chain!IsBlock
<1>8. ASSUME NEW t, Chain!IsTransaction(t), is_coinbase(t), InputKeys(t) = InputKeys(tx)
      PROVE  \E k \in InputKeys(tx) : k.tx_id = null_hash
  <2>1. DOMAIN t.inputs = 1..Len(t.inputs)
    BY <1>8 DEF Chain!IsTransaction
  <2>. QED BY <1>8, <2>1, CoinbaseInput
<1>9. CASE is_coinbase(tx)
  <2>1. PICK k \in InputKeys(tx) : k.tx_id = null_hash
    BY <1>2, <1>8, <1>9
  <2>2. ~is_coinbase(old) => k.tx_id \in TxHashes(c)
    BY <1>3, <1>5, <2>1 DEF OutputsSound
  <2>3. is_coinbase(old)
    BY <1>6, <2>1, <2>2
  <2>4. old.timestamp \in 0..c[Len(c)].header.timestamp
    BY <1>3, <2>3 DEF CoinbasesPast
  <2>5. tx.timestamp = b.header.timestamp
    BY <1>9 DEF GoodNext
  <2>6. /\ c[Len(c)].header.timestamp \in Nat /\ b.header.timestamp \in Nat
        /\ b.header.timestamp > c[Len(c)].header.timestamp
    BY <1>3 DEF GoodNext, CoinbasesPast
  <2>. QED BY <1>5, <2>4, <2>5, <2>6
<1>10. CASE InputKeys(tx) \subseteq DOMAIN u
  <2>1. CASE is_coinbase(old)
    <3>1. PICK k \in InputKeys(tx) : k.tx_id = null_hash
      BY <1>5, <1>7, <1>8, <2>1
    <3>2. k.tx_id \in TxHashes(c)
      BY <1>3, <1>10, <3>1 DEF OutputsSound
    <3>. QED BY <1>6, <3>1, <3>2
  <2>2. CASE ~is_coinbase(old)
    <3>1. PICK k : k \in InputKeys(tx)
      BY <1>2, SpendsSomething
    <3>2. k \notin DOMAIN u
      BY <1>3, <1>5, <2>2, <3>1 DEF OutputsSound
    <3>. QED BY <1>10, <3>1, <3>2
  <2>. QED BY <2>1, <2>2
<1>. QED BY <1>2, <1>9, <1>10

\* The chain with it: no output that was spent is there again.
LEMMA NextOutputsSound ==
    ASSUME NEW c, NEW u, NEW b, GoodNext(c, u, b)
    PROVE  OutputsSound(Append(c, b), Chain!apply_block_to_utxo_set(u, b))
<1>. DEFINE d == Append(c, b)
            v == Chain!apply_block_to_utxo_set(u, b)
<1>1. BlocksSound(c) /\ OutputsSound(c, u)
  BY DEF GoodNext
<1>2. /\ TxsOf(d) = TxsOf(c) \cup Chain!BlockTxs(b)
      /\ TxHashes(d) = TxHashes(c) \cup {tx.hash : tx \in Chain!BlockTxs(b)}
  BY <1>1, AppendTxs DEF BlocksSound
<1>3. ASSUME NEW k \in DOMAIN v
      PROVE  \/ k \in DOMAIN u /\ \A tx \in Chain!BlockTxs(b) : k \notin InputKeys(tx)
             \/ \E tx \in Chain!BlockTxs(b) : k.tx_id = tx.hash
  BY AppliedBlock
<1>. HIDE DEF d, v
<1>4. \A k \in DOMAIN v : k.tx_id \in TxHashes(d)
  BY <1>1, <1>2, <1>3 DEF OutputsSound
<1>5. \A tx \in Chain!BlockTxs(b) : tx.hash \notin TxHashes(c)
  BY NextIsNew
<1>6. ASSUME NEW tx \in TxsOf(d), ~is_coinbase(tx), NEW k \in InputKeys(tx)
      PROVE  k \notin DOMAIN v /\ k.tx_id \in TxHashes(d)
  <2>1. CASE tx \in TxsOf(c)
    <3>1. k \notin DOMAIN u /\ k.tx_id \in TxHashes(c)
      BY <1>1, <1>6, <2>1 DEF OutputsSound
    <3>. QED BY <1>2, <1>3, <1>5, <3>1
  <2>2. CASE tx \in Chain!BlockTxs(b)
    <3>1. k \in DOMAIN u
      BY <1>6, <2>2, NextSpends
    <3>2. k.tx_id \in TxHashes(c)
      BY <1>1, <3>1 DEF OutputsSound
    <3>. QED BY <1>2, <1>3, <1>5, <2>2, <3>2
  <2>. QED BY <1>2, <2>1, <2>2
<1>7. OutputsSound(d, v)
  BY <1>4, <1>6 DEF OutputsSound
<1>. QED BY <1>7 DEF d, v

\* The chain with it: no coinbase of the future.
LEMMA NextCoinbasesPast ==
    ASSUME NEW c, NEW u, NEW b, GoodNext(c, u, b)
    PROVE  CoinbasesPast(Append(c, b))
<1>. DEFINE d == Append(c, b)
<1>1. BlocksSound(c) /\ CoinbasesPast(c)
  BY DEF GoodNext
<1>2. TxsOf(d) = TxsOf(c) \cup Chain!BlockTxs(b)
  BY <1>1, AppendTxs DEF BlocksSound
<1>3. d[Len(d)] = b
  BY <1>1, AppendBlock DEF BlocksSound
<1>. HIDE DEF d
<1>4. /\ c[Len(c)].header.timestamp \in Nat /\ b.header.timestamp \in Nat
      /\ b.header.timestamp > c[Len(c)].header.timestamp
  BY <1>1 DEF GoodNext, CoinbasesPast
<1>5. ASSUME NEW tx \in TxsOf(d), is_coinbase(tx)
      PROVE  tx.timestamp \in 0..b.header.timestamp
  <2>1. CASE tx \in TxsOf(c)
    <3>1. tx.timestamp \in 0..c[Len(c)].header.timestamp
      BY <1>1, <1>5, <2>1 DEF CoinbasesPast
    <3>. QED BY <1>4, <3>1
  <2>2. CASE tx \in Chain!BlockTxs(b)
    <3>1. tx.timestamp = b.header.timestamp
      BY <1>5, <2>2 DEF GoodNext
    <3>. QED BY <1>4, <3>1
  <2>. QED BY <1>2, <2>1, <2>2
<1>6. CoinbasesPast(d)
  BY <1>3, <1>4, <1>5 DEF CoinbasesPast
<1>. QED BY <1>6 DEF d

\* The chain with it: nothing is spent twice.
LEMMA NextSpentOnce ==
    ASSUME NEW c, NEW u, NEW b, GoodNext(c, u, b)
    PROVE  SpentOnce(Append(c, b))
<1>. DEFINE d == Append(c, b)
<1>1. /\ BlocksSound(c) /\ OutputsSound(c, u) /\ SpentOnce(c)
      /\ ConflictFree(b.transactions)
  BY DEF GoodNext
<1>2. /\ Len(c) \in Nat /\ DOMAIN c = 1..Len(c) /\ DOMAIN d = 1..(Len(c) + 1)
      /\ \A n \in 1..Len(c) : d[n] = c[n]
      /\ d[Len(c) + 1] = b
  BY <1>1, AppendBlock DEF BlocksSound
<1>. HIDE DEF d
<1>3. ASSUME NEW n \in DOMAIN d
      PROVE  \/ n \in DOMAIN c /\ d[n] = c[n]
             \/ n = Len(c) + 1 /\ d[n] = b
  <2>1. n \in 1..Len(c) \/ n = Len(c) + 1
    BY <1>2
  <2>. QED BY <1>2, <2>1
<1>4. Len(c) + 1 \notin DOMAIN c
  BY <1>2
<1>5. ASSUME NEW n \in DOMAIN c, NEW s \in DOMAIN c[n].transactions,
             NEW t \in DOMAIN b.transactions,
             ~is_coinbase(c[n].transactions[s]), ~is_coinbase(b.transactions[t])
      PROVE  InputKeys(c[n].transactions[s]) \cap InputKeys(b.transactions[t]) = {}
  <2>. DEFINE old == c[n].transactions[s]
              new == b.transactions[t]
  <2>1. old \in TxsOf(c)
    BY DEF TxsOf, Chain!BlockTxs
  <2>2. new \in Chain!BlockTxs(b)
    BY DEF Chain!BlockTxs
  <2>3. ~is_coinbase(old) /\ ~is_coinbase(new)
    BY <1>5
  <2>. HIDE DEF old, new
  <2>4. InputKeys(old) \cap DOMAIN u = {}
    BY <1>1, <2>1, <2>3 DEF OutputsSound
  <2>5. InputKeys(new) \subseteq DOMAIN u
    BY <2>2, <2>3, NextSpends
  <2>6. InputKeys(old) \cap InputKeys(new) = {}
    BY <2>4, <2>5
  <2>. QED BY <2>6 DEF old, new
<1>6. ASSUME NEW m \in DOMAIN d, NEW n \in DOMAIN d,
             NEW s \in DOMAIN d[m].transactions, NEW t \in DOMAIN d[n].transactions,
             <<m, s>> # <<n, t>>,
             ~is_coinbase(d[m].transactions[s]), ~is_coinbase(d[n].transactions[t])
      PROVE  InputKeys(d[m].transactions[s]) \cap InputKeys(d[n].transactions[t]) = {}
  <2>1. CASE m \in DOMAIN c /\ d[m] = c[m] /\ n \in DOMAIN c /\ d[n] = c[n]
    BY <1>1, <1>6, <2>1 DEF SpentOnce
  <2>2. CASE m \in DOMAIN c /\ d[m] = c[m] /\ n = Len(c) + 1 /\ d[n] = b
    BY <1>5, <1>6, <2>2
  <2>3. CASE m = Len(c) + 1 /\ d[m] = b /\ n \in DOMAIN c /\ d[n] = c[n]
    BY <1>5, <1>6, <2>3
  <2>4. CASE m = Len(c) + 1 /\ d[m] = b /\ n = Len(c) + 1 /\ d[n] = b
    BY <1>1, <1>6, <2>4 DEF ConflictFree
  <2>. QED BY <1>3, <2>1, <2>2, <2>3, <2>4
<1>7. SpentOnce(d)
  BY <1>6 DEF SpentOnce
<1>. QED BY <1>7 DEF d

-----------------------------------------------------------------------------
(* What a step changes for the blocks on their way.                        *)

\* The chain grows and the clock does not go back.
LEMMA AcceptableKept ==
    ASSUME ChainGrows, now \in Nat, now' \in Nat, now' >= now,
           NEW b, Acceptable(b)
    PROVE  Acceptable(b)'
<1>1. PICK n \in Recent :
        /\ chain[n].hash = b.header.previous_hash
        /\ b.header.timestamp >= chain[n].header.timestamp + min_block_gap_sec
  BY DEF Acceptable
<1>2. n \in Recent' /\ chain'[n] = chain[n]
  BY <1>1, RecentGrows
<1>3. b.header.timestamp \in 0..now'
  BY DEF Acceptable
<1>. QED BY <1>1, <1>2, <1>3 DEF Acceptable

\* A block that is known stays known on a longer chain.
LEMMA KnownKept ==
    ASSUME ChainGrows, ChainInv, ChainInv', NEW b, Known(b)
    PROVE  Known(b)'
<1>1. /\ DOMAIN chain = 1..Len(chain) /\ DOMAIN chain' = 1..Len(chain')
  BY SoundChain DEF ChainInv
<1>. QED BY <1>1 DEF Known, ChainGrows

\* A block of the chain is not accepted again.
LEMMA KnownRejected ==
    ASSUME ChainInv, NEW b, Known(b)
    PROVE  ~Chain!add_block(b)
<1>1. SUFFICES ASSUME Chain!add_block(b) PROVE FALSE
  OBVIOUS
<1>2. PICK n \in DOMAIN chain : b = chain[n]
  BY DEF Known
<1>3. /\ Len(chain) \in Nat /\ Len(chain) >= 1 /\ DOMAIN chain = 1..Len(chain)
  BY SoundChain DEF ChainInv
<1>4. b.header.index = n - 1 /\ tip.header.index = Len(chain) - 1
  BY <1>2, <1>3 DEF ChainInv, BlocksSound, tip
<1>5. b.header.index = tip.header.index + 1
  BY <1>1, AddedBlock, AcceptedBlock
<1>. QED BY <1>2, <1>3, <1>4, <1>5

\* What add_block takes is a block on top of the last one.
LEMMA AcceptableOnTop ==
    ASSUME NodeInv, LedgerInv, ClocksAgree, NEW b, Chain!IsBlock(b),
           Chain!add_block(b), Acceptable(b)
    PROVE  /\ GoodNext(chain, utxo_set, b)
           /\ b.header.timestamp >= tip.header.timestamp + min_block_gap_sec
<1>1. /\ Len(chain) \in Nat /\ Len(chain) >= 1 /\ DOMAIN chain = 1..Len(chain)
  BY SoundChain DEF NodeInv, ChainInv
<1>2. PICK n \in Recent :
        /\ chain[n].hash = b.header.previous_hash
        /\ b.header.timestamp >= chain[n].header.timestamp + min_block_gap_sec
  BY DEF Acceptable
<1>3. Chain!Accepts(tip, utxo_set, b)
  BY AddedBlock DEF NodeInv
<1>4. b.header.previous_hash = tip.hash
  BY <1>3, AcceptedBlock
<1>5. n \in DOMAIN chain /\ Len(chain) \in DOMAIN chain
  BY <1>1, <1>2, StartLength DEF Recent
<1>6. chain[n].hash = block_calculate_hash(chain[n]) /\ tip.hash = block_calculate_hash(tip)
  BY <1>5 DEF NodeInv, ChainInv, BlocksSound, tip
<1>7. chain[n].header = tip.header
  BY <1>2, <1>4, <1>6, HashHasHeader
<1>8. /\ b.header.timestamp >= tip.header.timestamp + min_block_gap_sec
  BY <1>2, <1>7
<1>9. /\ b.header.timestamp \in Nat /\ tip.header.timestamp \in Nat
      /\ min_block_gap_sec \in Nat /\ min_block_gap_sec > 0
  BY ConsensusAssumption DEF Acceptable, LedgerInv, MoneyInv, CoinbasesPast, tip, NodeInv,
     ClocksAgree
<1>10. b.header.timestamp > tip.header.timestamp
  BY <1>8, <1>9
<1>. QED BY <1>3, <1>8, <1>9, <1>10 DEF GoodNext, tip, NodeInv, ChainInv, LedgerInv, MoneyInv,
            Acceptable

\* A call of the chain that takes no block.
SameChain == UNCHANGED <<chain, utxo_set>>

\* A call of the chain that takes an acceptable block, if any.
LEMMA ChainLedgerKept ==
    ASSUME NodeInv, LedgerInv, ClocksAgree, ChainGrows, now' = now,
           \/ SameChain
           \/ \E b : Chain!IsBlock(b) /\ Chain!add_block(b) /\ Acceptable(b)
    PROVE  (TimesInv /\ MinGapKept /\ MoneyInv)'
<1>1. CASE SameChain
  <2>1. TimesInv'
    BY <1>1 DEF SameChain, LedgerInv, TimesInv, Recent
  <2>2. MinGapKept'
    BY <1>1 DEF SameChain, LedgerInv, MinGapKept
  <2>3. MoneyInv'
    BY <1>1 DEF SameChain, LedgerInv, MoneyInv
  <2>. QED BY <2>1, <2>2, <2>3
<1>2. ASSUME NEW b, Chain!IsBlock(b), Chain!add_block(b), Acceptable(b)
      PROVE  (TimesInv /\ MinGapKept /\ MoneyInv)'
  <2>1. /\ GoodNext(chain, utxo_set, b)
        /\ b.header.timestamp >= tip.header.timestamp + min_block_gap_sec
    BY <1>2, AcceptableOnTop
  <2>2. /\ chain' = Append(chain, b)
        /\ utxo_set' = Chain!apply_block_to_utxo_set(utxo_set, b)
    BY <1>2, AddedBlock DEF NodeInv
  <2>3. MoneyInv'
    BY <2>1, <2>2, NextCoinbasesPast, NextOutputsSound, NextSpentOnce DEF MoneyInv
  <2>4. /\ Len(chain) \in Nat /\ Len(chain) >= 1 /\ DOMAIN chain = 1..Len(chain)
        /\ Len(chain') = Len(chain) + 1
        /\ \A n \in 1..Len(chain) : chain'[n] = chain[n]
        /\ chain'[Len(chain) + 1] = b
    <3>1. BlocksSound(chain)
      BY DEF NodeInv, ChainInv
    <3>2. chain \in Seq({chain[n] : n \in DOMAIN chain}) /\ Len(chain) >= 1
      BY <3>1, SoundChain
    <3>. QED BY <2>2, <3>2, AppendBlock
  <2>5. TimesInv'
    <3>1. SUFFICES ASSUME NEW n \in Recent' PROVE chain'[n].header.timestamp \in 0..now
      BY DEF TimesInv
    <3>2. n \in Recent \/ n = Len(chain) + 1
      BY <2>4, StartLength DEF Recent
    <3>3. CASE n \in Recent
      BY <2>4, <3>3, RecentGrows DEF LedgerInv, TimesInv
    <3>4. CASE n = Len(chain) + 1
      BY <1>2, <2>4, <3>4 DEF Acceptable
    <3>. QED BY <3>2, <3>3, <3>4
  <2>6. MinGapKept'
    <3>1. SUFFICES ASSUME NEW n \in Len(StartChain)..(Len(chain') - 1)
                   PROVE  chain'[n+1].header.timestamp
                            >= chain'[n].header.timestamp + min_block_gap_sec
      BY DEF MinGapKept
    <3>2. n \in 1..Len(chain) /\ chain'[n] = chain[n]
      BY <2>4, StartLength
    <3>3. CASE n = Len(chain)
      BY <2>1, <2>4, <3>2, <3>3 DEF tip
    <3>4. CASE n # Len(chain)
      <4>1. Len(chain) \in Nat /\ Len(StartChain) \in Nat /\ n >= Len(StartChain)
        BY <2>4, <3>1, StartLength
      <4>2. n \in Len(StartChain)..(Len(chain) - 1) /\ n + 1 \in 1..Len(chain)
        BY <3>2, <3>4, <4>1
      <4>. QED BY <2>4, <3>2, <4>2 DEF LedgerInv, MinGapKept
    <3>. QED BY <3>3, <3>4
  <2>. QED BY <2>3, <2>5, <2>6
<1>. QED BY <1>1, <1>2

\* A coinbase in front does no harm.
LEMMA CoinbaseInFront ==
    ASSUME NEW txs \in Seq(Txs), ConflictFree(txs), NEW all, NEW time,
           CoinbaseFirst(all, txs, time)
    PROVE  /\ ConflictFree(all)
           /\ \A i \in DOMAIN all : is_coinbase(all[i]) => all[i].timestamp = time
<1>1. PICK cb : is_coinbase(cb) /\ cb.timestamp = time /\ all = <<cb>> \o txs
  BY DEF CoinbaseFirst
<1>2. /\ Len(txs) \in Nat /\ DOMAIN txs = 1..Len(txs)
      /\ \A i \in 1..Len(txs) : txs[i] \in Txs
  OBVIOUS
<1>3. /\ DOMAIN all = 1..(1 + Len(txs)) /\ all[1] = cb
      /\ \A i \in 2..(1 + Len(txs)) : all[i] = txs[i - 1]
  BY <1>1
<1>4. ASSUME NEW i \in DOMAIN all, i # 1
      PROVE  i - 1 \in DOMAIN txs /\ all[i] = txs[i - 1] /\ ~is_coinbase(all[i])
  <2>1. i \in 2..(1 + Len(txs)) /\ i - 1 \in 1..Len(txs)
    BY <1>2, <1>3, <1>4
  <2>2. all[i] = txs[i - 1] /\ txs[i - 1] \in Txs
    BY <1>2, <1>3, <2>1
  <2>. QED BY <1>2, <2>1, <2>2, StartAssumption
<1>5. ConflictFree(all)
  <2>1. SUFFICES ASSUME NEW i \in DOMAIN all, NEW j \in DOMAIN all, i # j,
                        ~is_coinbase(all[i]), ~is_coinbase(all[j])
                 PROVE  InputKeys(all[i]) \cap InputKeys(all[j]) = {}
    BY DEF ConflictFree
  <2>2. i # 1 /\ j # 1
    BY <1>1, <1>3, <2>1
  <2>3. /\ i - 1 \in DOMAIN txs /\ all[i] = txs[i - 1]
        /\ j - 1 \in DOMAIN txs /\ all[j] = txs[j - 1]
    BY <1>4, <2>2
  <2>4. i - 1 # j - 1
    BY <1>2, <1>3, <2>1
  <2>. QED BY <2>1, <2>3, <2>4 DEF ConflictFree
<1>6. \A i \in DOMAIN all : is_coinbase(all[i]) => all[i].timestamp = time
  BY <1>1, <1>3, <1>4
<1>. QED BY <1>5, <1>6

\* A block that is mined now, late enough after a block of our chain.
LEMMA MinedAcceptable ==
    ASSUME NodeInv, NEW n \in Recent, NEW txs \in Seq(Txs), ConflictFree(txs), NEW key,
           NEW difficulty, now >= chain[n].header.timestamp + min_block_gap_sec,
           NEW b \in Minable(chain[n], txs, key, difficulty, now)
    PROVE  Acceptable(b)
<1>1. ChainInv /\ now \in Nat
  BY DEF NodeInv
<1>2. /\ b.header.previous_hash = chain[n].hash
      /\ b.header.timestamp = now
      /\ CoinbaseFirst(b.transactions, txs, now)
  BY ONLY <1>1, n \in Recent, txs \in Seq(Txs),
          b \in Minable(chain[n], txs, key, difficulty, now), MinableBlock
<1>3. /\ ConflictFree(b.transactions)
      /\ \A i \in DOMAIN b.transactions :
           is_coinbase(b.transactions[i]) => b.transactions[i].timestamp = now
  BY <1>2, CoinbaseInFront
<1>4. now \in 0..now
  BY <1>1
<1>. QED BY <1>2, <1>3, <1>4 DEF Acceptable, Chain!BlockTxs

\* The time that uint64_t arithmetic computes is no longer than it is.
LEMMA GapReached ==
    ASSUME NEW t \in Nat, NEW s \in 0..t, NEW gap \in Nat, Minus(t, s) >= gap
    PROVE  t >= s + gap
<1>1. t - s \in Nat /\ Word \in Nat \ {0}
  BY WordAssumption
<1>2. (t - s) % Word <= t - s
  BY <1>1
<1>3. (t - s) % Word \in Nat
  BY <1>1
<1>. QED BY <1>2, <1>3 DEF Minus

-----------------------------------------------------------------------------
(* What a step leaves alone.                                               *)

\* The tip that the miner has read is not from the future.
LEMMA LatestTime ==
    ASSUME NodeInv, LedgerInv, miner.pc \in {"check", "select", "mine"}
    PROVE  miner.latest[1].header.timestamp \in 0..now
  BY DEF NodeInv, MinerInv, LedgerInv, TimesInv

\* What the miner holds stays fit for the ledger while others add to it,
LEMMA MinerLedgerKept ==
    ASSUME NodeInv, LedgerInv, ChainGrows, now' \in Nat, now' >= now, UNCHANGED miner
    PROVE  MinerLedgerInv'
<1>1. now \in Nat /\ MinerLedgerInv
  BY DEF NodeInv, LedgerInv
<1>2. miner.pc \in {"select", "mine"} =>
         now' >= miner.latest[1].header.timestamp + min_block_gap_sec
  <2>1. SUFFICES ASSUME miner.pc \in {"select", "mine"}
                 PROVE  now' >= miner.latest[1].header.timestamp + min_block_gap_sec
    OBVIOUS
  <2>2. now >= miner.latest[1].header.timestamp + min_block_gap_sec
    BY <1>1, <2>1 DEF MinerLedgerInv
  <2>3. miner.latest[1].header.timestamp \in Int /\ min_block_gap_sec \in Nat
    BY <2>1, LatestTime, ConsensusAssumption
  <2>. QED BY <1>1, <2>2, <2>3
<1>3. miner.pc = "add" => Acceptable(miner.block[1])'
  <2>1. SUFFICES ASSUME miner.pc = "add" PROVE Acceptable(miner.block[1])'
    OBVIOUS
  <2>2. PICK b : b = miner.block[1]
    OBVIOUS
  <2>3. Acceptable(b)'
    BY <1>1, <2>1, <2>2, AcceptableKept DEF MinerLedgerInv
  <2>. QED BY <2>2, <2>3 DEF Acceptable
<1>. QED BY <1>1, <1>2, <1>3 DEF MinerLedgerInv

\* so does what a handler holds,
LEMMA HandlerLedgerKept ==
    ASSUME NodeInv, NodeInv', ChainGrows, now' >= now, NEW s, HandlerLedgerInv(s)
    PROVE  HandlerLedgerInv(s)'
<1>1. now \in Nat /\ now' \in Nat /\ ChainInv /\ ChainInv'
  BY DEF NodeInv
<1>2. s.pc = "add_block" => Acceptable(s.data[1])'
  BY <1>1, AcceptableKept DEF HandlerLedgerInv
<1>3. ASSUME s.pc = "sync", NEW k \in 1..Len(s.data)
      PROVE  Acceptable(s.data[k])' \/ Known(s.data[k])'
  <2>1. Acceptable(s.data[k]) \/ Known(s.data[k])
    BY <1>3 DEF HandlerLedgerInv
  <2>. QED BY <1>1, <2>1, AcceptableKept, KnownKept
<1>. QED BY <1>2, <1>3 DEF HandlerLedgerInv

\* The connections whose threads do not move.
LEMMA HandlersLedgerKept ==
    ASSUME NodeInv, NodeInv', LedgerInv, ChainGrows, now' >= now,
           NEW h \in Handlers, handler'[h] = handler[h]
    PROVE  HandlerLedgerInv(handler[h])'
<1>1. PICK s : s = handler[h]
  OBVIOUS
<1>2. HandlerLedgerInv(s)'
  BY <1>1, HandlerLedgerKept DEF LedgerInv
<1>. QED BY <1>1, <1>2

\* and a block of a peer stays acceptable.
LEMMA PeersLedgerKept ==
    ASSUME NodeInv, NodeInv', LedgerInv, ChainGrows, now' >= now,
           NEW b \in peer_blocks
    PROVE  Acceptable(b)'
<1>1. now \in Nat /\ now' \in Nat
  BY DEF NodeInv
<1>. QED BY <1>1, AcceptableKept DEF LedgerInv

-----------------------------------------------------------------------------
(* The steps.                                                              *)

\* A step of the main thread or of a handler, once it is known that what it
\* adds to the chain is acceptable and what it gets ready is in order.
LEMMA CallKeepsLedger ==
    ASSUME NodeInv, NodeInv', LedgerInv, ClocksAgree, ChainGrows,
           UNCHANGED <<now, peer_blocks>>,
           \/ SameChain
           \/ \E b : Chain!IsBlock(b) /\ Chain!add_block(b) /\ Acceptable(b),
           MinerLedgerInv',
           \A h \in Handlers : HandlerLedgerInv(handler[h])'
    PROVE  LedgerInv'
<1>1. now \in Nat /\ now' = now
  BY DEF NodeInv
<1>2. (TimesInv /\ MinGapKept /\ MoneyInv)'
  BY <1>1, ChainLedgerKept
<1>3. \A b \in peer_blocks' : Acceptable(b)'
  BY <1>1, PeersLedgerKept
<1>. QED BY <1>2, <1>3 DEF LedgerInv

\* Every step of the miner keeps the recorded history sound,
LEMMA MinerKeepsLedger ==
    ASSUME NodeInv, LedgerInv, ClocksAgree, Miner
    PROVE  LedgerInv'
<1>1. NodeInv' /\ ChainStep
  BY MinerKeepsInv
<1>2. ChainGrows /\ now \in Nat
  BY <1>1, ChainStepKeepsInv DEF NodeInv
<1>3. UNCHANGED <<now, peer_blocks, handler>>
  BY DEF Miner, MinerRead, MinerCheck, MinerSelect, MinerMine, MinerAdd, MinerSave,
         MinerRemove, peerVars
<1>4. \A h \in Handlers : HandlerLedgerInv(handler[h])'
  BY <1>1, <1>2, <1>3, HandlersLedgerKept
<1>5. ASSUME \/ SameChain
             \/ \E b : Chain!IsBlock(b) /\ Chain!add_block(b) /\ Acceptable(b),
             MinerLedgerInv'
      PROVE  LedgerInv'
  BY <1>1, <1>2, <1>3, <1>4, <1>5, CallKeepsLedger
<1>6. ASSUME miner'.pc \notin {"select", "mine", "add"} PROVE MinerLedgerInv'
  BY <1>6 DEF MinerLedgerInv
<1>7. DOMAIN miner = MinerFields /\ LoopTop.pc = "read"
  BY DEF NodeInv, MinerInv, LoopTop
<1>8. CASE MinerRead
  <2>1. SameChain /\ miner'.pc = "check"
    BY <1>7, <1>8 DEF MinerRead, SameChain, chainVars, MinerFields
  <2>. QED BY <1>5, <1>6, <2>1
<1>9. CASE MinerCheck
  <2>1. SameChain /\ miner.pc = "check"
    BY <1>9 DEF MinerCheck, SameChain, chainVars
  <2>2. CASE miner' = LoopTop
    BY <1>5, <1>6, <1>7, <2>1, <2>2
  <2>3. CASE /\ should_produce_block(Pool!size, Pool!total_pending_value,
                                     miner.latest[1].header.timestamp, now)
             /\ miner' = [miner EXCEPT !.pc = "select"]
    <3>. DEFINE last == miner.latest[1].header.timestamp
    <3>1. miner'.pc = "select" /\ miner'.latest = miner.latest
      BY <1>7, <2>3 DEF MinerFields
    <3>2. last \in 0..now
      BY <2>1, LatestTime
    <3>3. \/ Minus(now, last) >= max_block_gap_sec
          \/ Minus(now, last) >= min_block_gap_sec
      BY <2>3 DEF should_produce_block
    <3>. HIDE DEF last
    <3>4. /\ min_block_gap_sec \in Nat /\ max_block_gap_sec \in Nat
          /\ min_block_gap_sec <= max_block_gap_sec
      BY ConsensusAssumption
    <3>5. now >= last + min_block_gap_sec
      <4>1. now >= last + max_block_gap_sec \/ now >= last + min_block_gap_sec
        BY <1>2, <3>2, <3>3, <3>4, GapReached
      <4>. QED BY <1>2, <3>2, <3>4, <4>1
    <3>6. MinerLedgerInv'
      BY <1>3, <3>1, <3>5 DEF MinerLedgerInv, last
    <3>. QED BY <1>5, <2>1, <3>6
  <2>. QED BY <1>9, <2>2, <2>3 DEF MinerCheck
<1>10. CASE MinerSelect
  <2>1. SameChain /\ miner.pc = "select"
    BY <1>10 DEF MinerSelect, SameChain, chainVars
  <2>2. PICK txs \in Pool!get_for_block(MaxTxsPerBlock) :
          miner' = [miner EXCEPT !.pc = "mine", !.txs = txs]
    BY <1>10 DEF MinerSelect
  <2>3. miner'.pc = "mine" /\ miner'.latest = miner.latest /\ miner'.txs = txs
    BY <1>7, <2>2 DEF MinerFields
  <2>4. ConflictFree(txs)
    BY <2>2, Selection DEF NodeInv
  <2>5. now >= miner.latest[1].header.timestamp + min_block_gap_sec
    BY <2>1 DEF LedgerInv, MinerLedgerInv
  <2>6. MinerLedgerInv'
    BY <1>3, <2>3, <2>4, <2>5 DEF MinerLedgerInv
  <2>. QED BY <1>5, <2>1, <2>6
<1>11. CASE MinerMine
  <2>1. SameChain /\ miner.pc = "mine" /\ chain' = chain
    BY <1>11 DEF MinerMine, SameChain, chainVars
  <2>2. PICK difficulty, b :
          /\ b \in Minable(miner.latest[1], miner.txs, MinerKey, difficulty, now)
          /\ miner' = [LoopTop EXCEPT !.pc = "add", !.block = <<b>>]
    BY <1>11 DEF MinerMine
  <2>3. miner'.pc = "add" /\ miner'.block[1] = b
    BY <2>2 DEF LoopTop
  <2>4. PICK n \in Recent : miner.latest[1] = chain[n]
    BY <2>1 DEF NodeInv, MinerInv
  <2>5. PICK txs \in Seq(Txs) : txs = miner.txs
    BY <2>1 DEF NodeInv, MinerInv
  <2>6. ConflictFree(txs) /\ now >= chain[n].header.timestamp + min_block_gap_sec
    BY <2>1, <2>4, <2>5 DEF LedgerInv, MinerLedgerInv
  <2>7. b \in Minable(chain[n], txs, MinerKey, difficulty, now)
    BY <2>2, <2>4, <2>5
  <2>8. Acceptable(b)
    BY <2>4, <2>5, <2>6, <2>7, MinedAcceptable
  <2>9. Acceptable(b)'
    BY <1>2, <1>3, <2>8, AcceptableKept
  <2>10. MinerLedgerInv'
    BY <2>3, <2>9 DEF MinerLedgerInv, Acceptable
  <2>. QED BY <1>5, <2>1, <2>10
<1>12. CASE MinerAdd
  <2>1. /\ miner.pc = "add"
        /\ Chain!add_block(miner.block[1]) \/ SameChain
        /\ miner' = [miner EXCEPT !.pc = "save", !.i = 1] \/ miner' = LoopTop
    BY <1>12 DEF MinerAdd, AddBlock, Chain!add_block_rejected, Chain!chainVars, SameChain
  <2>2. Chain!IsBlock(miner.block[1]) /\ Acceptable(miner.block[1])
    BY <2>1 DEF NodeInv, MinerInv, LedgerInv, MinerLedgerInv
  <2>3. miner'.pc \in {"save", "read"}
    BY <1>7, <2>1 DEF MinerFields
  <2>. QED BY <1>5, <1>6, <2>1, <2>2, <2>3
<1>13. CASE MinerSave
  <2>1. SameChain /\ miner'.pc = "remove"
    BY <1>7, <1>13 DEF MinerSave, SameChain, Chain!save_to_disk, MinerFields
  <2>. QED BY <1>5, <1>6, <2>1
<1>14. CASE MinerRemove
  <2>1. /\ SameChain /\ miner.pc = "remove"
        /\ miner' = [miner EXCEPT !.i = @ + 1] \/ miner' = LoopTop
    BY <1>14 DEF MinerRemove, SameChain, chainVars
  <2>2. miner'.pc \in {"remove", "read"}
    BY <1>7, <2>1 DEF MinerFields
  <2>. QED BY <1>5, <1>6, <2>1, <2>2
<1>. QED BY <1>8, <1>9, <1>10, <1>11, <1>12, <1>13, <1>14 DEF Miner

\* One handler gets to a state in which what it has ready is in order.
LEMMA OneHandlerLedger ==
    ASSUME NodeInv, NodeInv', LedgerInv, ClocksAgree, ChainGrows,
           UNCHANGED <<now, miner, peer_blocks>>,
           \/ SameChain
           \/ \E b : Chain!IsBlock(b) /\ Chain!add_block(b) /\ Acceptable(b),
           NEW h \in Handlers, NEW s, handler' = [handler EXCEPT ![h] = s],
           HandlerLedgerInv(s)
    PROVE  LedgerInv'
<1>1. now \in Nat /\ now' = now
  BY DEF NodeInv
<1>2. DOMAIN handler = Handlers
  BY DEF NodeInv, HandlersInv
<1>3. handler'[h] = s /\ \A x \in Handlers \ {h} : handler'[x] = handler[x]
  BY <1>2
<1>4. HandlerLedgerInv(handler[h])'
  <2>1. HandlerLedgerInv(s)'
    BY <1>1, HandlerLedgerKept
  <2>. QED BY <1>3, <2>1 DEF HandlerLedgerInv, Acceptable, Known
<1>5. \A x \in Handlers \ {h} : HandlerLedgerInv(handler[x])'
  BY <1>1, <1>3, HandlersLedgerKept
<1>6. MinerLedgerInv'
  BY <1>1, MinerLedgerKept
<1>. QED BY <1>4, <1>5, <1>6, CallKeepsLedger

\* so does receiving a message,
LEMMA ReceiveKeepsLedger ==
    ASSUME NodeInv, LedgerInv, ClocksAgree, NEW h \in Handlers, Receive(h)
    PROVE  LedgerInv'
<1>1. NodeInv' /\ UNCHANGED <<chainVars, now, miner, peer_blocks>>
  BY ReceiveKeepsInv
<1>2. SameChain /\ ChainGrows
  BY <1>1, ChainStepKeepsInv DEF SameChain, chainVars, ChainStep, NodeInv
<1>3. ASSUME NEW s, handler' = [handler EXCEPT ![h] = s], HandlerLedgerInv(s)
      PROVE  LedgerInv'
  BY <1>1, <1>2, <1>3, OneHandlerLedger
<1>4. DOMAIN handler[h] = HandlerFields /\ DOMAIN handler = Handlers
  BY DEF NodeInv, HandlersInv, HandlerInv
<1>5. CASE UNCHANGED handler
  <2>1. \A x \in Handlers : HandlerLedgerInv(handler[x])'
    BY <1>1, <1>2, <1>5, HandlersLedgerKept DEF NodeInv
  <2>2. MinerLedgerInv'
    BY <1>1, <1>2, MinerLedgerKept DEF NodeInv
  <2>. QED BY <1>1, <1>2, <2>1, <2>2, CallKeepsLedger
<1>6. ASSUME NEW tx, handler' = [handler EXCEPT ![h].pc = "add_tx", ![h].data = <<tx>>]
      PROVE  LedgerInv'
  <2>. DEFINE s == [handler[h] EXCEPT !.pc = "add_tx", !.data = <<tx>>]
  <2>1. s.pc = "add_tx"
    BY <1>4 DEF HandlerFields
  <2>2. handler' = [handler EXCEPT ![h] = s]
    BY <1>4, <1>6
  <2>. HIDE DEF s
  <2>3. HandlerLedgerInv(s)
    BY <2>1 DEF HandlerLedgerInv
  <2>. QED BY <1>3, <2>2, <2>3
<1>7. ASSUME NEW b \in peer_blocks,
             handler' = [handler EXCEPT ![h].pc = "add_block", ![h].data = <<b>>]
      PROVE  LedgerInv'
  <2>. DEFINE s == [handler[h] EXCEPT !.pc = "add_block", !.data = <<b>>]
  <2>1. s.pc = "add_block" /\ s.data = <<b>>
    BY <1>4 DEF HandlerFields
  <2>2. handler' = [handler EXCEPT ![h] = s]
    BY <1>4, <1>7
  <2>. HIDE DEF s
  <2>3. HandlerLedgerInv(s)
    BY <2>1 DEF HandlerLedgerInv, LedgerInv
  <2>. QED BY <1>3, <2>2, <2>3
<1>8. ASSUME NEW b \in peer_blocks, NEW from \in 0..b.header.index, NEW data,
             data = Chain!get_blocks(Append(SubSeq(chain, 1, b.header.index), b), from),
             handler' = [handler EXCEPT ![h].pc = "sync", ![h].data = data, ![h].i = 1]
      PROVE  LedgerInv'
  <2>. DEFINE s == [handler[h] EXCEPT !.pc = "sync", !.data = data, !.i = 1]
  <2>1. s.pc = "sync" /\ s.data = data
    BY <1>4 DEF HandlerFields
  <2>2. handler' = [handler EXCEPT ![h] = s]
    BY <1>4, <1>8
  <2>. HIDE DEF s
  <2>3. ChainInv /\ b.header.index \in 1..Len(chain)
    BY DEF NodeInv, PeersInv
  <2>4. \A k \in 1..Len(data) :
          data[k] = b \/ (k + from \in 1..b.header.index /\ data[k] = chain[k + from])
    BY <1>8, <2>3, SyncBlocks
  <2>5. \A n \in 1..b.header.index : n \in DOMAIN chain
    BY <2>3, SoundChain DEF ChainInv
  <2>6. \A k \in 1..Len(data) : Acceptable(data[k]) \/ Known(data[k])
    BY <2>4, <2>5 DEF Known, LedgerInv
  <2>7. HandlerLedgerInv(s)
    BY <2>1, <2>6 DEF HandlerLedgerInv
  <2>. QED BY <1>3, <2>2, <2>7
<1>9. CASE ReceiveTx(h)
  BY <1>5, <1>6, <1>9 DEF ReceiveTx
<1>10. CASE ReceiveBlock(h)
  BY <1>7, <1>10 DEF ReceiveBlock
<1>11. CASE ReceiveSync(h)
  BY <1>8, <1>11 DEF ReceiveSync
<1>. QED BY <1>9, <1>10, <1>11 DEF Receive

\* and each handling of what was received.
LEMMA HandleKeepsLedger ==
    ASSUME NodeInv, LedgerInv, ClocksAgree, NEW h \in Handlers, Handle(h)
    PROVE  LedgerInv'
<1>1. NodeInv' /\ ChainStep /\ UNCHANGED <<now, miner, peer_blocks>>
  BY HandleKeepsInv DEF peerVars
<1>2. ChainGrows
  BY <1>1, ChainStepKeepsInv DEF NodeInv
<1>3. /\ DOMAIN handler[h] = HandlerFields /\ DOMAIN handler = Handlers
      /\ HandlerInv(h) /\ HandlerLedgerInv(handler[h])
  BY DEF NodeInv, LedgerInv, HandlersInv, HandlerInv
<1>4. ASSUME \/ SameChain
             \/ \E b : Chain!IsBlock(b) /\ Chain!add_block(b) /\ Acceptable(b),
             NEW s, handler' = [handler EXCEPT ![h] = s], HandlerLedgerInv(s)
      PROVE  LedgerInv'
  BY <1>1, <1>2, <1>4, OneHandlerLedger
<1>5. ASSUME NEW s, s.pc \notin {"add_block", "sync"}
      PROVE  HandlerLedgerInv(s)
  BY <1>5 DEF HandlerLedgerInv
<1>6. HandlerLedgerInv(Idle)
  BY <1>5 DEF Idle
<1>7. CASE AddTx(h)
  <2>1. SameChain /\ handler' = [handler EXCEPT ![h] = Idle]
    BY <1>7 DEF AddTx, SameChain, chainVars
  <2>. QED BY <1>4, <1>6, <2>1
<1>8. CASE AddReceivedBlock(h)
  <2>1. /\ handler[h].pc = "add_block"
        /\ handler' = [handler EXCEPT ![h].pc = "remove", ![h].i = 1]
        /\ Chain!add_block(handler[h].data[1]) \/ SameChain
    BY <1>8 DEF AddReceivedBlock, AddBlock, Chain!add_block_rejected, Chain!chainVars,
       SameChain
  <2>2. Chain!IsBlock(handler[h].data[1]) /\ Acceptable(handler[h].data[1])
    BY <1>3, <2>1 DEF HandlerInv, HandlerLedgerInv
  <2>. DEFINE s == [handler[h] EXCEPT !.pc = "remove", !.i = 1]
  <2>3. s.pc = "remove"
    BY <1>3 DEF HandlerFields
  <2>4. handler' = [handler EXCEPT ![h] = s]
    BY <1>3, <2>1
  <2>. HIDE DEF s
  <2>5. HandlerLedgerInv(s)
    BY <1>5, <2>3
  <2>. QED BY <1>4, <2>1, <2>2, <2>4, <2>5
<1>9. CASE RemoveConfirmed(h)
  <2>1. /\ SameChain /\ handler[h].pc = "remove"
        /\ \/ handler' = [handler EXCEPT ![h].i = @ + 1]
           \/ handler' = [handler EXCEPT ![h] = Idle]
    BY <1>9 DEF RemoveConfirmed, SameChain, chainVars
  <2>2. CASE handler' = [handler EXCEPT ![h].i = @ + 1]
    <3>. DEFINE s == [handler[h] EXCEPT !.i = handler[h].i + 1]
    <3>1. s.pc = "remove"
      BY <1>3, <2>1 DEF HandlerFields
    <3>2. handler' = [handler EXCEPT ![h] = s]
      BY <1>3, <2>2
    <3>. HIDE DEF s
    <3>3. HandlerLedgerInv(s)
      BY <1>5, <3>1
    <3>. QED BY <1>4, <2>1, <3>2, <3>3
  <2>3. CASE handler' = [handler EXCEPT ![h] = Idle]
    BY <1>4, <1>6, <2>1, <2>3
  <2>. QED BY <2>1, <2>2, <2>3
<1>10. CASE SyncAdd(h)
  <2>. DEFINE data == handler[h].data
              i    == handler[h].i
              more(done) == [handler[h] EXCEPT !.i = i + 1, !.added = done]
              last       == [handler[h] EXCEPT !.pc = "sync_save", !.added = TRUE]
              next(done) == IF i < Len(data) THEN more(done)
                            ELSE IF done THEN last ELSE Idle
  <2>1. /\ AddBlock(data[i],
                    handler' = [handler EXCEPT ![h] = next(TRUE)],
                    handler' = [handler EXCEPT ![h] = next(handler[h].added)])
        /\ handler[h].pc = "sync"
    BY <1>10 DEF SyncAdd
  <2>2. /\ Chain!add_block(data[i]) \/ SameChain
        /\ \E done : handler' = [handler EXCEPT ![h] = next(done)]
    <3>. HIDE DEF next
    <3>. QED BY <2>1 DEF AddBlock, Chain!add_block_rejected, Chain!chainVars, SameChain
  <2>3. /\ i \in 1..Len(data)
        /\ \A k \in 1..Len(data) : Chain!IsBlock(data[k])
        /\ \A k \in 1..Len(data) : Acceptable(data[k]) \/ Known(data[k])
    BY <1>3, <2>1 DEF HandlerInv, HandlerLedgerInv
  <2>4. SameChain \/ (Chain!add_block(data[i]) /\ Acceptable(data[i]))
    <3>1. PICK b : b = data[i]
      OBVIOUS
    <3>2. Acceptable(b) \/ Known(b)
      BY <2>3, <3>1
    <3>3. ChainInv
      BY DEF NodeInv
    <3>4. Chain!add_block(b) => Acceptable(b)
      BY <3>2, <3>3, KnownRejected
    <3>. HIDE DEF data, i
    <3>. QED BY <2>2, <3>1, <3>4
  <2>5. ASSUME NEW done PROVE HandlerLedgerInv(next(done))
    <3>1. CASE i < Len(data)
      <4>. DEFINE s == more(done)
      <4>1. s.pc = "sync" /\ s.data = data
        BY <1>3, <2>1 DEF HandlerFields
      <4>. HIDE DEF s
      <4>2. HandlerLedgerInv(s)
        BY <2>3, <4>1 DEF HandlerLedgerInv
      <4>. QED BY <3>1, <4>2 DEF s
    <3>2. HandlerLedgerInv(last)
      <4>1. last.pc = "sync_save"
        BY <1>3 DEF HandlerFields
      <4>. HIDE DEF last
      <4>. QED BY <1>5, <4>1
    <3>. HIDE DEF more, last
    <3>. QED BY <1>6, <3>1, <3>2
  <2>6. PICK done : handler' = [handler EXCEPT ![h] = next(done)]
    BY <2>2
  <2>. HIDE DEF next
  <2>. QED BY <1>4, <2>3, <2>4, <2>5, <2>6
<1>11. CASE SyncSave(h)
  <2>1. SameChain /\ handler' = [handler EXCEPT ![h] = Idle]
    BY <1>11 DEF SyncSave, SameChain, Chain!save_to_disk
  <2>. QED BY <1>4, <1>6, <2>1
<1>. QED BY <1>7, <1>8, <1>9, <1>10, <1>11 DEF Handle

\* A peer, whose clock shows our time, mines a block.
LEMMA PeerKeepsLedger ==
    ASSUME NodeInv, LedgerInv, ClocksAgree, PeerMine
    PROVE  LedgerInv'
<1>1. NodeInv' /\ UNCHANGED <<chainVars, now, miner, handler>>
  BY StepKeepsInv DEF PeerMine, NodeNext
<1>2. SameChain /\ ChainGrows /\ now \in Nat
  BY <1>1, ChainStepKeepsInv DEF SameChain, chainVars, ChainStep, NodeInv
<1>3. PICK n \in Recent, time \in now..(now + Skew), txs \in Seq(Txs) :
        \E difficulty : \E b \in Minable(chain[n], txs, PeerKey, difficulty, time) :
          /\ Minus(time, chain[n].header.timestamp) >= min_block_gap_sec
          /\ peer_blocks' = peer_blocks \cup {b}
          /\ ConflictFree(txs)
  BY PeerBlock
<1>4. PICK difficulty, b :
        /\ b \in Minable(chain[n], txs, PeerKey, difficulty, time)
        /\ Minus(time, chain[n].header.timestamp) >= min_block_gap_sec
        /\ peer_blocks' = peer_blocks \cup {b}
        /\ ConflictFree(txs)
  BY <1>3
<1>5. time = now
  BY <1>2, <1>3 DEF ClocksAgree
<1>6. now >= chain[n].header.timestamp + min_block_gap_sec
  <2>1. chain[n].header.timestamp \in 0..now /\ min_block_gap_sec \in Nat
    BY <1>3, ConsensusAssumption DEF LedgerInv, TimesInv
  <2>2. Minus(now, chain[n].header.timestamp) >= min_block_gap_sec
    BY <1>4, <1>5
  <2>. QED BY <1>2, <2>1, <2>2, GapReached
<1>7. Acceptable(b)
  <2>1. n \in Recent /\ txs \in Seq(Txs) /\ ConflictFree(txs)
        /\ b \in Minable(chain[n], txs, PeerKey, difficulty, now)
    BY <1>3, <1>4, <1>5
  <2>. QED BY <1>6, <2>1, MinedAcceptable
<1>8. \A x \in peer_blocks' : Acceptable(x)'
  <2>1. ASSUME NEW x \in peer_blocks' PROVE Acceptable(x)
    BY <1>4, <1>7 DEF LedgerInv
  <2>. QED BY <1>1, <1>2, <2>1, AcceptableKept
<1>9. \A h \in Handlers : HandlerLedgerInv(handler[h])'
  BY <1>1, <1>2, HandlersLedgerKept
<1>10. MinerLedgerInv'
  BY <1>1, <1>2, MinerLedgerKept
<1>11. (TimesInv /\ MinGapKept /\ MoneyInv)'
  BY <1>1, <1>2, ChainLedgerKept
<1>. QED BY <1>8, <1>9, <1>10, <1>11 DEF LedgerInv

\* A second passes.
LEMMA TickKeepsLedger ==
    ASSUME NodeInv, LedgerInv, Tick
    PROVE  LedgerInv'
<1>1. /\ NodeInv' /\ now' = now + 1 /\ now \in Nat
      /\ UNCHANGED <<chainVars, miner, handler, peer_blocks>>
  BY StepKeepsInv DEF Tick, NodeNext, peerVars, NodeInv
<1>2. ChainGrows /\ now' \in Nat /\ now' >= now /\ UNCHANGED <<chain, utxo_set>>
  BY <1>1, ChainStepKeepsInv DEF chainVars, ChainStep, NodeInv
<1>3. TimesInv'
  <2>1. \A n \in Recent' : n \in Recent /\ chain'[n] = chain[n]
    BY <1>2 DEF Recent
  <2>2. \A n \in Recent : chain[n].header.timestamp \in 0..now'
    BY <1>1, <1>2 DEF LedgerInv, TimesInv
  <2>. QED BY <2>1, <2>2 DEF TimesInv
<1>4. MinGapKept' /\ MoneyInv'
  BY <1>2 DEF LedgerInv, MinGapKept, MoneyInv
<1>5. \A h \in Handlers : HandlerLedgerInv(handler[h])'
  BY <1>1, <1>2, HandlersLedgerKept
<1>6. MinerLedgerInv'
  BY <1>1, <1>2, MinerLedgerKept
<1>7. \A b \in peer_blocks' : Acceptable(b)'
  BY <1>1, <1>2, PeersLedgerKept
<1>. QED BY <1>3, <1>4, <1>5, <1>6, <1>7 DEF LedgerInv

\* The history that a node starts with is sound.
LEMMA InitialLedger == ASSUME NodeInit PROVE LedgerInv
<1>1. /\ chain = StartChain /\ utxo_set = Replay(StartChain) /\ miner.pc = "read"
      /\ now = chain[Len(chain)].header.timestamp
      /\ \A h \in Handlers : handler[h].pc = "idle"
      /\ peer_blocks = {}
  BY DEF NodeInit, LoopTop, Idle
<1>2. MoneyInv
  BY <1>1, StartAssumption DEF MoneyInv
<1>3. now \in Nat
  BY <1>1, <1>2 DEF MoneyInv, CoinbasesPast
<1>4. TimesInv
  <2>1. \A n \in Recent : n = Len(chain)
    BY <1>1, StartLength DEF Recent
  <2>. QED BY <1>1, <1>3, <2>1 DEF TimesInv
<1>5. MinGapKept
  <2>1. \A n \in Len(StartChain)..(Len(chain) - 1) : FALSE
    BY <1>1, StartLength
  <2>. QED BY <2>1 DEF MinGapKept
<1>. QED BY <1>1, <1>2, <1>4, <1>5 DEF LedgerInv, MinerLedgerInv, HandlerLedgerInv

\* Every step of the node keeps the recorded history sound.
LEMMA StepKeepsLedger ==
    ASSUME NodeInv, LedgerInv, ClocksAgree, [NodeNext]_vars
    PROVE  LedgerInv'
<1>1. CASE UNCHANGED vars
  BY <1>1 DEF vars, chainVars, peerVars, LedgerInv, TimesInv, Recent, MinGapKept, MoneyInv,
     MinerLedgerInv, HandlerLedgerInv, Acceptable, Known
<1>2. CASE NodeNext
  BY <1>1, <1>2, MinerKeepsLedger, ReceiveKeepsLedger, HandleKeepsLedger, PeerKeepsLedger,
     TickKeepsLedger DEF NodeNext, BoundReached
<1>. QED BY <1>1, <1>2

-----------------------------------------------------------------------------
(* The theorems.                                                           *)

\* When the peers' clocks agree with ours, the ledger invariant holds.
THEOREM LedgerInvariant == ASSUME ClocksAgree PROVE NodeSpec => []LedgerInv
<1>1. NodeInit => LedgerInv
  BY InitialLedger
<1>2. NodeInv /\ LedgerInv /\ [NodeNext]_vars => LedgerInv'
  BY StepKeepsLedger
<1>. QED BY <1>1, <1>2, NodeInvariant, PTL DEF NodeSpec

\* No output is spent twice on the chain, in two blocks or in one, although
\* add_block checks each transaction of a block for itself and the mempool
\* changes between any two calls of the threads that fill and empty it.
THEOREM NothingSpentTwice == ASSUME ClocksAgree PROVE NodeSpec => []NoDoubleSpend
<1>1. LedgerInv => NoDoubleSpend
  BY DEF LedgerInv, MoneyInv, NoDoubleSpend
<1>. QED BY <1>1, LedgerInvariant, PTL

\* Blocks on the chain are at least the minimum gap apart, although the miner
\* compares the clock with a block that may no longer be the last one.
THEOREM MinGapAlwaysKept == ASSUME ClocksAgree PROVE NodeSpec => []MinGapKept
<1>1. LedgerInv => MinGapKept
  BY DEF LedgerInv
<1>. QED BY <1>1, LedgerInvariant, PTL

-----------------------------------------------------------------------------
(* The supply.  A transaction takes what it gives and its fee, a coinbase  *)
(* creates the fees of its block and the reward: so each block adds its    *)
(* reward to the supply.  That holds for every block that a miner made,    *)
(* wherever it waits for add_block and however often it comes.             *)

\* The time of the genesis block.
StartTime == StartChain[1].header.timestamp

\* The fees of a sequence of transactions.
Fees(txs) == SumFunction([i \in DOMAIN txs |-> txs[i].fee])

\* The reward of block b, for a time delay seconds after its time stamp.
Reward(b, delay) == get_block_reward(StartTime, b.header.timestamp + delay)

\* The first transaction of b pays its miner the reward and the fees of the
\* others.
Pays(b, txs, address, delay) ==
    b.transactions =
        <<coinbase_transaction(address, (Reward(b, delay) + Fees(txs)) % Word,
                               b.header.timestamp)>> \o txs

\* What the transactions of a sequence take and give, all together.
TakenBy(txs) == SumFunction([i \in DOMAIN txs |-> Taken(txs[i])])
GivenBy(txs) == SumFunction([i \in DOMAIN txs |-> Given(txs[i])])

\* The coins that block b adds to those in circulation: what its coinbases
\* give, and what its other transactions give and have not taken.
Created(b) ==
    SumFunction([i \in DOMAIN b.transactions |->
        LET tx == b.transactions[i]
        IN  IF is_coinbase(tx) THEN Given(tx) ELSE Given(tx) - Taken(tx)])

\* The coins that the blocks after those of the chain file add.
CreatedSince(c) ==
    SumFunction([n \in (Len(StartChain) + 1)..Len(c) |-> Created(c[n])])

\* The coins in circulation are those of the chain file and those that each
\* block since then has added: none is counted twice, lost or overwritten.
SupplyAccounted == Supply(utxo_set) = Supply(Replay(StartChain)) + CreatedSince(chain)

\* b pays its miner what mine_block computes.
Paying(b) == \E txs \in Seq(Txs), delay \in {0, 1} : \E address : Pays(b, txs, address, delay)

-----------------------------------------------------------------------------
\* The sums of BlockchainProofs are those of the node.
LEMMA SameSums ==
    ASSUME NEW f, NEW S
    PROVE  ChainP!SumFunctionOnSet(f, S) = SumFunctionOnSet(f, S)
  BY DEF ChainP!SumFunctionOnSet, ChainP!FoldFunctionOnSet, ChainP!MapThenFoldSet,
         SumFunctionOnSet, FoldFunctionOnSet, MapThenFoldSet

\* The finite sets of BlockchainProofs are those of the node.
LEMMA SameFinite == \A S : ChainP!IsFiniteSet(S) <=> IsFiniteSet(S)
  BY DEF ChainP!IsFiniteSet, IsFiniteSet

\* What goes and what comes.
LEMMA Exchange ==
    ASSUME NEW f, NEW U, NEW S \in SUBSET U, NEW C, IsFiniteSet(U), IsFiniteSet(C),
           C \cap U = {}, \A x \in U \cup C : f[x] \in Int
    PROVE  /\ IsFiniteSet((U \ S) \cup C)
           /\ SumFunctionOnSet(f, (U \ S) \cup C) + SumFunctionOnSet(f, S)
                = SumFunctionOnSet(f, U) + SumFunctionOnSet(f, C)
<1>1. /\ IsFiniteSet(S) /\ IsFiniteSet(U \ S) /\ S \cap (U \ S) = {}
      /\ (U \ S) \cap C = {} /\ S \cup (U \ S) = U
  BY FS_Subset
<1>2. /\ \A x \in S \cup (U \ S) : f[x] \in Int
      /\ \A x \in (U \ S) \cup C : f[x] \in Int
  OBVIOUS
<1>3. SumFunctionOnSet(f, U) = SumFunctionOnSet(f, S) + SumFunctionOnSet(f, U \ S)
  BY <1>1, <1>2, WordAssumption, ChainP!SumUnion, SameSums, SameFinite
<1>4. SumFunctionOnSet(f, (U \ S) \cup C) = SumFunctionOnSet(f, U \ S) + SumFunctionOnSet(f, C)
  BY <1>1, <1>2, WordAssumption, ChainP!SumUnion, SameSums, SameFinite
<1>5. PICK a \in Int : a = SumFunctionOnSet(f, S)
  BY <1>1, <1>2, WordAssumption, ChainP!SumInt, SameSums, SameFinite
<1>6. PICK d \in Int : d = SumFunctionOnSet(f, U \ S)
  BY <1>1, <1>2, WordAssumption, ChainP!SumInt, SameSums, SameFinite
<1>7. PICK e \in Int : e = SumFunctionOnSet(f, C)
  BY <1>1, <1>2, WordAssumption, ChainP!SumInt, SameSums, SameFinite
<1>8. (d + e) + a = (a + d) + e
  OBVIOUS
<1>9. IsFiniteSet((U \ S) \cup C)
  BY <1>1, FS_Union
<1>. QED BY <1>3, <1>4, <1>5, <1>6, <1>7, <1>8, <1>9

\* The image of a finite set is finite.
LEMMA ImageFinite ==
    ASSUME NEW S, IsFiniteSet(S), NEW e
    PROVE  IsFiniteSet({e[i] : i \in S})
<1>. DEFINE T == {e[i] : i \in S}
            g == [i \in S |-> e[i]]
<1>1. g \in Surjection(S, T)
  BY DEF Surjection
<1>. HIDE DEF g, T
<1>2. IsFiniteSet(T)
  BY <1>1, FS_Surjection
<1>. QED BY <1>2 DEF T

\* A transaction's hash determines the amounts of its outputs.
LEMMA OutputAmount ==
    ASSUME NEW tx, tx.hash = tx_calculate_hash(tx), NEW i \in Int
    PROVE  AmountOf(utxo_key(tx.hash, i - 1)) = tx.outputs[i].amount
<1>1. tx.hash.sha256d.outputs = tx.outputs
  BY DEF tx_calculate_hash, double_sha256, tx_serialize
<1>2. (i - 1) + 1 = i
  OBVIOUS
<1>. QED BY <1>1, <1>2 DEF AmountOf, utxo_key

\* The outputs of a transaction, summed up under their keys.
LEMMA OutputSum ==
    ASSUME NEW tx, tx.hash = tx_calculate_hash(tx), Chain!IsTransaction(tx),
           \A i \in DOMAIN tx.outputs : tx.outputs[i].amount \in Int,
           NEW f, \A k \in OutputKeys(tx) : f[k] = AmountOf(k)
    PROVE  /\ IsFiniteSet(OutputKeys(tx))
           /\ SumFunctionOnSet(f, OutputKeys(tx))
                = SumFunction([i \in DOMAIN tx.outputs |-> tx.outputs[i].amount])
<1>. DEFINE D == DOMAIN tx.outputs
            g == [i \in D |-> tx.outputs[i].amount]
            e == [i \in D |-> utxo_key(tx.hash, i - 1)]
<1>1. Len(tx.outputs) \in Nat /\ D = 1..Len(tx.outputs)
  BY DEF Chain!IsTransaction
<1>2. IsFiniteSet(D)
  BY <1>1, FS_Interval
<1>3. OutputKeys(tx) = {e[i] : i \in D}
  BY DEF OutputKeys
<1>4. ASSUME NEW i \in D PROVE f[e[i]] = g[i]
  <2>1. e[i] \in OutputKeys(tx) /\ i \in Int
    BY <1>1, <1>3
  <2>. QED BY <2>1, OutputAmount
<1>5. ASSUME NEW i \in D, NEW j \in D, e[i] = e[j] PROVE i = j
  <2>1. e[i].output_index = i - 1 /\ e[j].output_index = j - 1
    BY DEF utxo_key
  <2>2. i \in Int /\ j \in Int /\ i - 1 = j - 1
    BY <1>1, <1>5, <2>1
  <2>. QED BY <2>2
<1>6. \A i \in D : g[i] \in Int
  OBVIOUS
<1>7. DOMAIN g = D
  OBVIOUS
<1>8. IsFiniteSet({e[i] : i \in D})
  BY <1>2, ImageFinite
<1>. HIDE DEF D, g, e
<1>9. SumFunctionOnSet(f, {e[i] : i \in D}) = SumFunctionOnSet(g, D)
  BY <1>2, <1>4, <1>5, <1>6, WordAssumption, ChainP!SumImage, SameSums, SameFinite
<1>10. SumFunction(g) = SumFunctionOnSet(g, D)
  BY <1>7 DEF SumFunction
<1>. QED BY <1>3, <1>8, <1>9, <1>10 DEF g, D

\* What a transaction spends is finitely much.
LEMMA InputKeysFinite ==
    ASSUME NEW tx, Chain!IsTransaction(tx)
    PROVE  IsFiniteSet(InputKeys(tx))
<1>1. Len(tx.inputs) \in Nat /\ DOMAIN tx.inputs = 1..Len(tx.inputs)
  BY DEF Chain!IsTransaction
<1>2. IsFiniteSet(DOMAIN tx.inputs)
  BY <1>1, FS_Interval
<1>. DEFINE e(i) == utxo_key(tx.inputs[i].tx_id, tx.inputs[i].output_index)
            D == DOMAIN tx.inputs
<1>3. InputKeys(tx) = {e(i) : i \in D}
  BY DEF InputKeys
<1>4. IsFiniteSet({e(i) : i \in D})
  <2>. DEFINE g == [i \in D |-> e(i)]
  <2>1. {e(i) : i \in D} = {g[i] : i \in D}
    OBVIOUS
  <2>2. IsFiniteSet({g[i] : i \in D})
    BY <1>2, ImageFinite
  <2>. QED BY <2>1, <2>2
<1>. QED BY <1>3, <1>4
-----------------------------------------------------------------------------
(* A block that is accepted.                                               *)

\* Its transactions: a coinbase and txs.
LEMMA BlockTransactions ==
    ASSUME NEW b, NEW txs \in Seq(Txs), NEW cb, b.transactions = <<cb>> \o txs
    PROVE  /\ Len(txs) \in Nat /\ DOMAIN txs = 1..Len(txs)
           /\ DOMAIN b.transactions = 1..(Len(txs) + 1)
           /\ b.transactions[1] = cb
           /\ \A i \in 1..Len(txs) : txs[i] \in Txs /\ b.transactions[i + 1] = txs[i]
           /\ Chain!BlockTxs(b) = {cb} \cup {txs[i] : i \in 1..Len(txs)}
<1>1. /\ Len(txs) \in Nat /\ DOMAIN txs = 1..Len(txs)
      /\ \A i \in 1..Len(txs) : txs[i] \in Txs
  OBVIOUS
<1>2. /\ DOMAIN b.transactions = 1..(Len(txs) + 1)
      /\ b.transactions[1] = cb
      /\ \A i \in 1..Len(txs) : b.transactions[i + 1] = txs[i]
  BY <1>1
<1>3. Chain!BlockTxs(b) \subseteq {cb} \cup {txs[i] : i \in 1..Len(txs)}
  <2>1. SUFFICES ASSUME NEW j \in 1..(Len(txs) + 1)
                 PROVE  b.transactions[j] \in {cb} \cup {txs[i] : i \in 1..Len(txs)}
    BY <1>2 DEF Chain!BlockTxs
  <2>2. CASE j = 1
    BY <1>2, <2>2
  <2>3. CASE j # 1
    <3>1. j - 1 \in 1..Len(txs) /\ (j - 1) + 1 = j
      BY <1>1, <2>3
    <3>. QED BY <1>2, <3>1
  <2>. QED BY <2>2, <2>3
<1>4. {cb} \cup {txs[i] : i \in 1..Len(txs)} \subseteq Chain!BlockTxs(b)
  <2>1. 1 \in DOMAIN b.transactions /\ \A i \in 1..Len(txs) : i + 1 \in DOMAIN b.transactions
    BY <1>1, <1>2
  <2>. QED BY <1>2, <2>1 DEF Chain!BlockTxs
<1>. QED BY <1>1, <1>2, <1>3, <1>4

\* What txs spend is there, each of them spends something else, and what they
\* and the coinbase create is new and different.
LEMMA NextParts ==
    ASSUME NEW c, NEW u, NEW b, GoodNext(c, u, b), NEW txs \in Seq(Txs), NEW cb,
           b.transactions = <<cb>> \o txs, is_coinbase(cb)
    PROVE  /\ \A i \in 1..Len(txs) : InputKeys(txs[i]) \subseteq DOMAIN u
           /\ \A i, j \in 1..Len(txs) : i # j =>
                /\ InputKeys(txs[i]) \cap InputKeys(txs[j]) = {}
                /\ OutputKeys(txs[i]) \cap OutputKeys(txs[j]) = {}
           /\ \A i \in 1..Len(txs) : OutputKeys(cb) \cap OutputKeys(txs[i]) = {}
           /\ Chain!Creates(b) \cap DOMAIN u = {}
           /\ \A k \in InputKeys(cb) : k.tx_id = null_hash => k \notin DOMAIN u
<1>. DEFINE I == 1..Len(txs)
<1>1. /\ Len(txs) \in Nat /\ DOMAIN b.transactions = 1..(Len(txs) + 1)
      /\ \A i \in I : txs[i] \in Txs /\ b.transactions[i + 1] = txs[i]
      /\ Chain!BlockTxs(b) = {cb} \cup {txs[i] : i \in I}
  BY BlockTransactions
<1>2. /\ BlocksSound(c) /\ OutputsSound(c, u) /\ ConflictFree(b.transactions)
  BY DEF GoodNext
<1>3. ASSUME NEW i \in I
      PROVE  /\ Chain!IsTransaction(txs[i]) /\ txs[i].inputs # <<>>
             /\ txs[i].hash = tx_calculate_hash(txs[i])
             /\ ~is_coinbase(txs[i])
             /\ InputKeys(txs[i]) \subseteq DOMAIN u
  <2>1. txs[i] \in Chain!BlockTxs(b) /\ ~is_coinbase(txs[i])
    BY <1>1, StartAssumption
  <2>. QED BY <2>1, NextSpends
<1>4. ASSUME NEW s, NEW t, s.hash # t.hash
      PROVE  OutputKeys(s) \cap OutputKeys(t) = {}
  BY <1>4 DEF OutputKeys, utxo_key
<1>5. ASSUME NEW i \in I, NEW j \in I, i # j
      PROVE  /\ InputKeys(txs[i]) \cap InputKeys(txs[j]) = {}
             /\ OutputKeys(txs[i]) \cap OutputKeys(txs[j]) = {}
  <2>1. i + 1 \in DOMAIN b.transactions /\ j + 1 \in DOMAIN b.transactions /\ i + 1 # j + 1
    BY <1>1, <1>5
  <2>2. InputKeys(txs[i]) \cap InputKeys(txs[j]) = {}
    BY <1>1, <1>2, <1>3, <2>1 DEF ConflictFree
  <2>3. txs[i].hash # txs[j].hash
    <3>1. SUFFICES ASSUME txs[i].hash = txs[j].hash PROVE FALSE
      OBVIOUS
    <3>2. InputKeys(txs[i]) = InputKeys(txs[j])
      BY <1>3, <3>1, HashHasContents
    <3>3. \E k : k \in InputKeys(txs[i])
      BY <1>3, SpendsSomething
    <3>. QED BY <2>2, <3>2, <3>3
  <2>. QED BY <1>4, <2>2, <2>3
<1>6. null_hash \notin TxHashes(c)
  BY <1>2, NullNotOnChain
<1>7. \A k \in DOMAIN u : k.tx_id \in TxHashes(c)
  BY <1>2 DEF OutputsSound
<1>8. ASSUME NEW i \in I PROVE OutputKeys(cb) \cap OutputKeys(txs[i]) = {}
  <2>1. cb \in Chain!BlockTxs(b)
    BY <1>1
  <2>2. /\ Chain!IsTransaction(cb) /\ cb.hash = tx_calculate_hash(cb)
    BY <2>1, NextSpends
  <2>3. PICK k \in InputKeys(cb) : k.tx_id = null_hash
    BY <2>2, CoinbaseInput DEF Chain!IsTransaction
  <2>4. cb.hash # txs[i].hash
    <3>1. SUFFICES ASSUME cb.hash = txs[i].hash PROVE FALSE
      OBVIOUS
    <3>2. InputKeys(cb) = InputKeys(txs[i])
      BY <1>3, <2>2, <3>1, HashHasContents
    <3>. QED BY <1>3, <1>6, <1>7, <2>3, <3>2
  <2>. QED BY <1>4, <2>4
<1>9. Chain!Creates(b) \cap DOMAIN u = {}
  <2>1. SUFFICES ASSUME NEW tx \in Chain!BlockTxs(b), NEW k \in OutputKeys(tx), k \in DOMAIN u
                 PROVE  FALSE
    BY SameLedger DEF Chain!Creates
  <2>2. k.tx_id = tx.hash
    BY <2>1 DEF OutputKeys, utxo_key
  <2>3. tx.hash \notin TxHashes(c)
    BY <2>1, NextIsNew
  <2>. QED BY <1>7, <2>1, <2>2, <2>3
<1>. QED BY <1>3, <1>5, <1>6, <1>7, <1>8, <1>9

\* The coinbase of mine_block.
LEMMA CoinbaseParts ==
    ASSUME NEW address, NEW amount, NEW time
    PROVE  LET cb == coinbase_transaction(address, amount, time)
           IN  /\ cb.outputs = <<[address |-> address, amount |-> amount]>>
               /\ \A k \in InputKeys(cb) : k.tx_id = null_hash
               /\ is_coinbase(cb)
<1>. DEFINE in  == [tx_id        |-> null_hash,
                    output_index |-> 0,
                    signature    |-> Text("coinbase"),
                    public_key   |-> Text("coinbase")]
            out == [address |-> address, amount |-> amount]
            unhashed == [timestamp |-> time, fee |-> 0, inputs |-> <<in>>,
                         outputs |-> <<out>>, hash |-> Text("")]
            h   == tx_calculate_hash(unhashed)
            cb  == coinbase_transaction(address, amount, time)
<1>1. cb = [unhashed EXCEPT !.hash = h]
  BY DEF coinbase_transaction
<1>2. cb.inputs = <<in>> /\ cb.outputs = <<out>>
  <2>. HIDE DEF in, out, h, cb
  <2>. QED BY <1>1
<1>3. DOMAIN cb.inputs = {1} /\ cb.inputs[1].tx_id = null_hash
  <2>1. in.tx_id = null_hash
    OBVIOUS
  <2>. HIDE DEF in, cb
  <2>. QED BY <1>2, <2>1
<1>4. \A k \in InputKeys(cb) : k.tx_id = null_hash
  <2>. HIDE DEF cb, in
  <2>. QED BY <1>3 DEF InputKeys, utxo_key
<1>5. is_coinbase(cb)
  BY MinedCoinbase
<1>. QED BY <1>2, <1>4, <1>5

\* cb is a coinbase of that amount.
IsCoinbaseOf(cb, amount) ==
    \E address, time : cb = coinbase_transaction(address, amount, time)

\* What it creates is its amount.
LEMMA CoinbaseSum ==
    ASSUME NEW amount \in Nat, NEW cb, IsCoinbaseOf(cb, amount),
           cb.hash = tx_calculate_hash(cb), NEW f, \A k \in OutputKeys(cb) : f[k] = AmountOf(k)
    PROVE  /\ IsFiniteSet(OutputKeys(cb)) /\ SumFunctionOnSet(f, OutputKeys(cb)) = amount
           /\ \A k \in OutputKeys(cb) : AmountOf(k) = amount
           /\ Given(cb) = amount
<1>0. PICK address, time : cb = coinbase_transaction(address, amount, time)
  BY DEF IsCoinbaseOf
<1>1. /\ cb.outputs = <<[address |-> address, amount |-> amount]>>
      /\ Chain!IsTransaction(cb)
  BY <1>0, CoinbaseParts, MinedCoinbase
<1>2. DOMAIN cb.outputs = {1} /\ cb.outputs[1].amount = amount
  BY <1>1
<1>. DEFINE g == [i \in DOMAIN cb.outputs |-> cb.outputs[i].amount]
<1>3. g[1] = amount /\ DOMAIN g = {} \cup {1} /\ \A y \in {} : g[y] \in Int
  BY <1>2
<1>4. IsFiniteSet(OutputKeys(cb)) /\ SumFunctionOnSet(f, OutputKeys(cb)) = SumFunction(g)
  BY <1>1, <1>2, OutputSum
<1>5. \A k \in OutputKeys(cb) : AmountOf(k) = amount
  <2>1. OutputKeys(cb) = {utxo_key(cb.hash, 1 - 1)}
    BY <1>2 DEF OutputKeys
  <2>2. AmountOf(utxo_key(cb.hash, 1 - 1)) = cb.outputs[1].amount
    BY OutputAmount
  <2>. QED BY <1>2, <2>1, <2>2
<1>. HIDE DEF g
<1>6. SumFunctionOnSet(g, {} \cup {1}) = SumFunctionOnSet(g, {}) + g[1]
  BY <1>3, FS_EmptySet, WordAssumption, ChainP!SumAdd, SameSums, SameFinite
<1>7. SumFunctionOnSet(g, {}) = 0
  BY WordAssumption, ChainP!SumEmpty, SameSums
<1>8. SumFunction(g) = SumFunctionOnSet(g, {} \cup {1})
  BY <1>3 DEF SumFunction
<1>9. Given(cb) = SumFunction(g)
  BY DEF Given, g
<1>. QED BY <1>3, <1>4, <1>5, <1>6, <1>7, <1>8, <1>9

\* One of txs: what it takes and gives, summed up under the keys.
LEMMA TxSums ==
    ASSUME NEW tx \in Txs, tx.hash = tx_calculate_hash(tx), NEW f,
           \A k \in InputKeys(tx) \cup OutputKeys(tx) : f[k] = AmountOf(k),
           \A k \in InputKeys(tx) : AmountOf(k) \in Nat
    PROVE  /\ IsFiniteSet(InputKeys(tx)) /\ IsFiniteSet(OutputKeys(tx))
           /\ \A k \in InputKeys(tx) \cup OutputKeys(tx) : f[k] \in Nat
           /\ SumFunctionOnSet(f, InputKeys(tx)) = Taken(tx) /\ Taken(tx) \in Nat
           /\ SumFunctionOnSet(f, OutputKeys(tx)) = Given(tx) /\ Given(tx) \in Nat
<1>1. /\ Chain!IsTransaction(tx)
      /\ \A i \in DOMAIN tx.outputs : tx.outputs[i].amount \in Nat
  BY StartAssumption, MoneyAssumption
<1>2. IsFiniteSet(InputKeys(tx))
  BY <1>1, InputKeysFinite
<1>. DEFINE in  == [k \in InputKeys(tx) |-> AmountOf(k)]
            out == [i \in DOMAIN tx.outputs |-> tx.outputs[i].amount]
<1>3. Taken(tx) = SumFunction(in) /\ Given(tx) = SumFunction(out)
  BY DEF Taken, Given
<1>4. /\ IsFiniteSet(OutputKeys(tx))
      /\ SumFunctionOnSet(f, OutputKeys(tx)) = SumFunction(out)
  BY <1>1, OutputSum
<1>5. \A k \in OutputKeys(tx) : AmountOf(k) \in Nat
  <2>1. SUFFICES ASSUME NEW i \in DOMAIN tx.outputs
                 PROVE  AmountOf(utxo_key(tx.hash, i - 1)) \in Nat
    BY DEF OutputKeys
  <2>2. i \in Int
    BY <1>1 DEF Chain!IsTransaction
  <2>. QED BY <1>1, <2>2, OutputAmount
<1>6. /\ DOMAIN in = InputKeys(tx)
      /\ \A k \in InputKeys(tx) : in[k] \in Nat /\ f[k] = in[k]
  OBVIOUS
<1>. HIDE DEF in, out
<1>7. SumFunctionOnSet(f, InputKeys(tx)) = SumFunctionOnSet(in, InputKeys(tx))
  <2>1. \A k \in InputKeys(tx) : in[k] \in Int /\ f[k] = in[k]
    BY <1>6
  <2>. QED BY <1>2, <2>1, WordAssumption, ChainP!SumSame, SameSums, SameFinite
<1>8. SumFunction(in) = SumFunctionOnSet(in, InputKeys(tx))
  BY <1>6 DEF SumFunction
<1>9. \A k \in InputKeys(tx) \cup OutputKeys(tx) : f[k] \in Nat
  BY <1>5
<1>10. /\ SumFunctionOnSet(f, InputKeys(tx)) \in Nat
       /\ SumFunctionOnSet(f, OutputKeys(tx)) \in Nat
  BY <1>2, <1>4, <1>9, WordAssumption, ChainP!SumNat, SameSums, SameFinite
<1>. QED BY <1>2, <1>3, <1>4, <1>7, <1>8, <1>9, <1>10

\* An output that b creates is stored with its amount.
LEMMA CreatedAmount ==
    ASSUME NEW b,
           \A tx \in Chain!BlockTxs(b) :
             Chain!IsTransaction(tx) /\ tx.hash = tx_calculate_hash(tx),
           NEW k \in Chain!Creates(b)
    PROVE  Chain!UtxoOf(b, k).amount = AmountOf(k)
<1>. DEFINE tx == CHOOSE t \in Chain!BlockTxs(b) : k \in Chain!OutputKeys(t)
<1>1. \E t \in Chain!BlockTxs(b) : k \in Chain!OutputKeys(t)
  BY DEF Chain!Creates
<1>2. tx \in Chain!BlockTxs(b) /\ k \in OutputKeys(tx)
  BY <1>1, SameLedger
<1>3. Chain!UtxoOf(b, k).amount = tx.outputs[k.output_index + 1].amount
  BY DEF Chain!UtxoOf
<1>. HIDE DEF tx
<1>4. PICK i \in DOMAIN tx.outputs : k = utxo_key(tx.hash, i - 1)
  BY <1>2 DEF OutputKeys
<1>5. i \in Int /\ k.output_index = i - 1
  BY <1>2, <1>4 DEF Chain!IsTransaction, utxo_key
<1>6. k.output_index + 1 = i
  BY <1>5
<1>7. AmountOf(k) = tx.outputs[i].amount
  BY <1>2, <1>4, <1>5, OutputAmount
<1>. QED BY <1>3, <1>6, <1>7

\* What txs take and give, summed up under the keys.
LEMMA TxsSums ==
    ASSUME NEW txs, Len(txs) \in Nat, DOMAIN txs = 1..Len(txs),
           \A i \in 1..Len(txs) : txs[i] \in Txs /\ txs[i].hash = tx_calculate_hash(txs[i]),
           \A i, j \in 1..Len(txs) : i # j =>
             /\ InputKeys(txs[i]) \cap InputKeys(txs[j]) = {}
             /\ OutputKeys(txs[i]) \cap OutputKeys(txs[j]) = {},
           NEW f, \A i \in 1..Len(txs) : \A k \in InputKeys(txs[i]) \cup OutputKeys(txs[i]) :
                    f[k] = AmountOf(k),
           \A i \in 1..Len(txs) : \A k \in InputKeys(txs[i]) : AmountOf(k) \in Nat
    PROVE  LET In  == UNION {InputKeys(txs[i]) : i \in 1..Len(txs)}
               Out == UNION {OutputKeys(txs[i]) : i \in 1..Len(txs)}
           IN  /\ IsFiniteSet(In) /\ IsFiniteSet(Out)
               /\ \A k \in In \cup Out : f[k] \in Nat
               /\ SumFunctionOnSet(f, In) = TakenBy(txs) /\ TakenBy(txs) \in Nat
               /\ SumFunctionOnSet(f, Out) = GivenBy(txs) /\ GivenBy(txs) \in Nat
               /\ \A i \in 1..Len(txs) : Taken(txs[i]) \in Nat /\ Given(txs[i]) \in Nat
<1>. DEFINE I  == 1..Len(txs)
            S  == [i \in I |-> InputKeys(txs[i])]
            T  == [i \in I |-> OutputKeys(txs[i])]
            s  == [i \in I |-> Taken(txs[i])]
            t  == [i \in I |-> Given(txs[i])]
            In == UNION {InputKeys(txs[i]) : i \in I}
            Out == UNION {OutputKeys(txs[i]) : i \in I}
<1>1. IsFiniteSet(I)
  BY FS_Interval
<1>2. ASSUME NEW i \in I
      PROVE  /\ IsFiniteSet(InputKeys(txs[i])) /\ IsFiniteSet(OutputKeys(txs[i]))
             /\ \A k \in InputKeys(txs[i]) \cup OutputKeys(txs[i]) : f[k] \in Nat
             /\ SumFunctionOnSet(f, InputKeys(txs[i])) = Taken(txs[i])
             /\ SumFunctionOnSet(f, OutputKeys(txs[i])) = Given(txs[i])
             /\ Taken(txs[i]) \in Nat /\ Given(txs[i]) \in Nat
  BY TxSums
<1>3. ASSUME NEW i \in I
      PROVE  /\ IsFiniteSet(S[i]) /\ s[i] = SumFunctionOnSet(f, S[i])
             /\ IsFiniteSet(T[i]) /\ t[i] = SumFunctionOnSet(f, T[i])
             /\ \A k \in S[i] \cup T[i] : f[k] \in Nat
             /\ s[i] \in Nat /\ t[i] \in Nat
  BY <1>2
<1>4. \A i, j \in I : i # j => S[i] \cap S[j] = {} /\ T[i] \cap T[j] = {}
  OBVIOUS
<1>5. In = UNION {S[i] : i \in I} /\ Out = UNION {T[i] : i \in I}
  OBVIOUS
<1>6. TakenBy(txs) = SumFunctionOnSet(s, I) /\ GivenBy(txs) = SumFunctionOnSet(t, I)
  <2>1. DOMAIN s = I /\ DOMAIN t = I
    OBVIOUS
  <2>2. TakenBy(txs) = SumFunction(s) /\ GivenBy(txs) = SumFunction(t)
    BY DEF TakenBy, GivenBy
  <2>. QED BY <2>1, <2>2 DEF SumFunction
<1>7. \A i \in I : Taken(txs[i]) \in Nat /\ Given(txs[i]) \in Nat
  BY <1>2
<1>. HIDE DEF I, S, T, s, t, In, Out
<1>8. /\ \A i \in I : IsFiniteSet(S[i]) /\ s[i] = SumFunctionOnSet(f, S[i])
      /\ \A i \in I : \A k \in S[i] : f[k] \in Int
      /\ \A i, j \in I : i # j => S[i] \cap S[j] = {}
  BY <1>3, <1>4
<1>9. /\ \A i \in I : IsFiniteSet(T[i]) /\ t[i] = SumFunctionOnSet(f, T[i])
      /\ \A i \in I : \A k \in T[i] : f[k] \in Int
      /\ \A i, j \in I : i # j => T[i] \cap T[j] = {}
  BY <1>3, <1>4
<1>10. /\ IsFiniteSet(UNION {S[i] : i \in I})
       /\ SumFunctionOnSet(f, UNION {S[i] : i \in I}) = SumFunctionOnSet(s, I)
  BY ONLY <1>1, <1>8, WordAssumption, ChainP!SumUnions, SameSums, SameFinite
<1>11. /\ IsFiniteSet(UNION {T[i] : i \in I})
       /\ SumFunctionOnSet(f, UNION {T[i] : i \in I}) = SumFunctionOnSet(t, I)
  BY ONLY <1>1, <1>9, WordAssumption, ChainP!SumUnions, SameSums, SameFinite
<1>12. SumFunctionOnSet(s, I) \in Nat /\ SumFunctionOnSet(t, I) \in Nat
  BY <1>1, <1>3, WordAssumption, ChainP!SumNat, SameSums, SameFinite
<1>13. ASSUME NEW k \in In \cup Out PROVE f[k] \in Nat
  <2>1. PICK i \in I : k \in S[i] \cup T[i]
    BY <1>5
  <2>. QED BY <1>3, <2>1
<1>14. /\ IsFiniteSet(In) /\ IsFiniteSet(Out)
       /\ SumFunctionOnSet(f, In) = TakenBy(txs) /\ TakenBy(txs) \in Nat
       /\ SumFunctionOnSet(f, Out) = GivenBy(txs) /\ GivenBy(txs) \in Nat
  BY <1>5, <1>6, <1>10, <1>11, <1>12
<1>. QED BY <1>7, <1>13, <1>14 DEF I, In, Out

\* If the wallets' transactions are balanced, what txs take they give, and the
\* fees.
LEMMA TxsBalance ==
    ASSUME TransactionsBalanced, NEW txs \in Seq(Txs),
           \A i \in 1..Len(txs) : Taken(txs[i]) \in Nat /\ Given(txs[i]) \in Nat
    PROVE  TakenBy(txs) = GivenBy(txs) + Fees(txs)
<1>. DEFINE I == 1..Len(txs)
            s == [i \in I |-> Taken(txs[i])]
            t == [i \in I |-> Given(txs[i])]
            e == [i \in I |-> txs[i].fee]
<1>1. Len(txs) \in Nat /\ DOMAIN txs = I /\ \A i \in I : txs[i] \in Txs
  OBVIOUS
<1>2. IsFiniteSet(I)
  BY <1>1, FS_Interval
<1>3. \A i \in I : t[i] \in Int /\ e[i] \in Int /\ s[i] = t[i] + e[i]
  BY <1>1, MoneyAssumption DEF TransactionsBalanced
<1>4. DOMAIN s = I /\ DOMAIN t = I /\ DOMAIN e = I
  OBVIOUS
<1>5. /\ TakenBy(txs) = SumFunction(s) /\ GivenBy(txs) = SumFunction(t)
      /\ Fees(txs) = SumFunction(e)
  BY <1>1 DEF TakenBy, GivenBy, Fees
<1>. HIDE DEF I, s, t, e
<1>6. SumFunctionOnSet(s, I) = SumFunctionOnSet(t, I) + SumFunctionOnSet(e, I)
  BY ONLY <1>2, <1>3, WordAssumption, ChainP!SumPlus, SameSums, SameFinite
<1>. QED BY <1>4, <1>5, <1>6 DEF SumFunction

\* What a block adds: the amount of its coinbase, and what the others give and
\* have not taken.
LEMMA NextCreated ==
    ASSUME NEW b, NEW txs \in Seq(Txs), NEW cb, NEW amount \in Nat,
           is_coinbase(cb), Given(cb) = amount, b.transactions = <<cb>> \o txs,
           \A i \in 1..Len(txs) : Taken(txs[i]) \in Nat /\ Given(txs[i]) \in Nat,
           TakenBy(txs) \in Nat, GivenBy(txs) \in Nat
    PROVE  /\ Created(b) \in Int
           /\ Created(b) + TakenBy(txs) = amount + GivenBy(txs)
<1>. DEFINE I == 1..Len(txs)
            e == [i \in I |-> i + 1]
            J == {e[i] : i \in I}
            s == [i \in I |-> Taken(txs[i])]
            t == [i \in I |-> Given(txs[i])]
            d == [i \in I |-> Given(txs[i]) - Taken(txs[i])]
            g == [i \in DOMAIN b.transactions |->
                    LET tx == b.transactions[i]
                    IN  IF is_coinbase(tx) THEN Given(tx) ELSE Given(tx) - Taken(tx)]
<1>1. /\ Len(txs) \in Nat /\ DOMAIN txs = I
      /\ DOMAIN b.transactions = 1..(Len(txs) + 1) /\ b.transactions[1] = cb
      /\ \A i \in I : txs[i] \in Txs /\ b.transactions[i + 1] = txs[i]
  BY BlockTransactions
<1>2. DOMAIN b.transactions = J \cup {1} /\ 1 \notin J
  <2>1. 1..(Len(txs) + 1) \subseteq J \cup {1}
    <3>1. SUFFICES ASSUME NEW j \in 1..(Len(txs) + 1), j # 1 PROVE j \in J
      OBVIOUS
    <3>2. j - 1 \in I /\ e[j - 1] = j
      BY <1>1, <3>1
    <3>. QED BY <3>2
  <2>2. \A i \in I : e[i] \in 1..(Len(txs) + 1) /\ e[i] # 1
    BY <1>1
  <2>3. 1 \in 1..(Len(txs) + 1)
    BY <1>1
  <2>. QED BY <1>1, <2>1, <2>2, <2>3
<1>3. IsFiniteSet(I)
  BY <1>1, FS_Interval
<1>4. IsFiniteSet(J)
  BY <1>3, ImageFinite
<1>5. g[1] = amount
  BY <1>1, <1>2
<1>6. ASSUME NEW i \in I PROVE g[e[i]] = d[i] /\ d[i] \in Int /\ t[i] = s[i] + d[i]
                               /\ s[i] \in Int
  <2>1. ~is_coinbase(txs[i]) /\ i + 1 \in DOMAIN b.transactions
    BY <1>1, StartAssumption
  <2>. QED BY <1>1, <2>1
<1>7. \A i, j \in I : e[i] = e[j] => i = j
  <2>1. \A i, j \in I : i \in Int /\ j \in Int
    BY <1>1
  <2>. QED BY <2>1
<1>8. Created(b) = SumFunction(g) /\ DOMAIN g = J \cup {1}
  BY <1>2 DEF Created
<1>9. /\ TakenBy(txs) = SumFunction(s) /\ DOMAIN s = I
      /\ GivenBy(txs) = SumFunction(t) /\ DOMAIN t = I
  BY <1>1 DEF TakenBy, GivenBy
<1>10. \A j \in J : g[j] \in Int
  BY <1>6
<1>11. \A i \in I : d[i] \in Int /\ g[e[i]] = d[i]
  BY <1>6
<1>12. \A i \in I : s[i] \in Int /\ d[i] \in Int /\ t[i] = s[i] + d[i]
  BY <1>6
<1>. HIDE DEF I, e, s, t, d, g
<1>13. SumFunctionOnSet(g, {e[i] : i \in I}) = SumFunctionOnSet(d, I)
  BY ONLY <1>3, <1>7, <1>11, WordAssumption, ChainP!SumImage, SameSums, SameFinite
<1>14. SumFunctionOnSet(t, I) = SumFunctionOnSet(s, I) + SumFunctionOnSet(d, I)
  BY ONLY <1>3, <1>12, WordAssumption, ChainP!SumPlus, SameSums, SameFinite
<1>15. SumFunctionOnSet(d, I) \in Int
  BY ONLY <1>3, <1>12, WordAssumption, ChainP!SumInt, SameSums, SameFinite
<1>16. SumFunctionOnSet(g, J \cup {1}) = SumFunctionOnSet(g, J) + g[1]
  <2>1. g[1] \in Int
    BY <1>5
  <2>. HIDE DEF J
  <2>. QED BY ONLY <1>2, <1>4, <1>10, <2>1, WordAssumption, ChainP!SumAdd, SameSums, SameFinite
<1>17. PICK y \in Int : y = SumFunctionOnSet(d, I)
  BY <1>15
<1>18. Created(b) = y + amount
  BY <1>5, <1>8, <1>13, <1>16, <1>17 DEF SumFunction
<1>19. GivenBy(txs) = TakenBy(txs) + y
  BY <1>9, <1>14, <1>17 DEF SumFunction
<1>. QED BY <1>18, <1>19

\* The supply after the block: what it takes is gone, what it gives is new.
LEMMA NextSupply ==
    ASSUME NEW c, NEW u, NEW b, GoodNext(c, u, b), AmountsSound(u),
           NEW txs \in Seq(Txs), NEW address, NEW amount \in Nat, NEW time,
           b.transactions = <<coinbase_transaction(address, amount, time)>> \o txs
    PROVE  LET v == Chain!apply_block_to_utxo_set(u, b)
           IN  /\ AmountsSound(v)
               /\ Supply(u) \in Nat /\ Supply(v) \in Nat
               /\ TakenBy(txs) \in Nat /\ GivenBy(txs) \in Nat
               /\ \A i \in 1..Len(txs) : Taken(txs[i]) \in Nat /\ Given(txs[i]) \in Nat
               /\ TakenBy(txs) <= Supply(u)
               /\ Supply(v) + TakenBy(txs) = Supply(u) + (amount + GivenBy(txs))
               /\ Created(b) \in Int /\ Supply(v) = Supply(u) + Created(b)
<1>. DEFINE v   == Chain!apply_block_to_utxo_set(u, b)
            cb  == coinbase_transaction(address, amount, time)
            I   == 1..Len(txs)
            In  == UNION {InputKeys(txs[i]) : i \in I}
            Out == UNION {OutputKeys(txs[i]) : i \in I}
            f   == [k \in DOMAIN u \cup Chain!Creates(b) |-> AmountOf(k)]
            U   == DOMAIN u
<1>1. is_coinbase(cb) /\ \A k \in InputKeys(cb) : k.tx_id = null_hash
  BY CoinbaseParts
<1>. HIDE DEF cb
<1>2. /\ Len(txs) \in Nat /\ DOMAIN txs = I
      /\ \A i \in I : txs[i] \in Txs
      /\ Chain!BlockTxs(b) = {cb} \cup {txs[i] : i \in I}
  BY BlockTransactions DEF cb
<1>3. /\ \A i \in I : InputKeys(txs[i]) \subseteq U
      /\ \A i, j \in I : i # j =>
           /\ InputKeys(txs[i]) \cap InputKeys(txs[j]) = {}
           /\ OutputKeys(txs[i]) \cap OutputKeys(txs[j]) = {}
      /\ \A i \in I : OutputKeys(cb) \cap OutputKeys(txs[i]) = {}
      /\ Chain!Creates(b) \cap U = {}
      /\ \A k \in InputKeys(cb) : k.tx_id = null_hash => k \notin U
  BY <1>1, NextParts DEF cb
<1>4. \A tx \in Chain!BlockTxs(b) : Chain!IsTransaction(tx) /\ tx.hash = tx_calculate_hash(tx)
  BY NextSpends
<1>5. Chain!Creates(b) = OutputKeys(cb) \cup Out
  BY <1>2, SameLedger DEF Chain!Creates
<1>6. U \ Chain!Spends(b) = U \ In
  <2>1. Chain!Spends(b) = InputKeys(cb) \cup In
    BY <1>2, SameLedger DEF Chain!Spends
  <2>. QED BY <1>1, <1>3, <2>1
<1>7. In \subseteq U
  BY <1>3
<1>8. \A k \in U \cup Chain!Creates(b) : f[k] = AmountOf(k)
  OBVIOUS
<1>9. ASSUME NEW i \in I, NEW k \in InputKeys(txs[i]) \cup OutputKeys(txs[i])
      PROVE  k \in U \cup Chain!Creates(b)
  BY <1>3, <1>5
<1>. HIDE DEF f
<1>10. /\ IsFiniteSet(In) /\ IsFiniteSet(Out)
       /\ \A k \in In \cup Out : f[k] \in Nat
       /\ SumFunctionOnSet(f, In) = TakenBy(txs) /\ TakenBy(txs) \in Nat
       /\ SumFunctionOnSet(f, Out) = GivenBy(txs) /\ GivenBy(txs) \in Nat
       /\ \A i \in I : Taken(txs[i]) \in Nat /\ Given(txs[i]) \in Nat
  <2>1. \A i \in I : txs[i].hash = tx_calculate_hash(txs[i])
    BY <1>2, <1>4
  <2>2. \A i \in I : \A k \in InputKeys(txs[i]) \cup OutputKeys(txs[i]) : f[k] = AmountOf(k)
    BY <1>8, <1>9
  <2>3. \A i \in I : \A k \in InputKeys(txs[i]) : AmountOf(k) \in Nat
    BY <1>3 DEF AmountsSound
  <2>. QED BY <1>2, <1>3, <2>1, <2>2, <2>3, TxsSums
<1>11. /\ IsFiniteSet(OutputKeys(cb)) /\ SumFunctionOnSet(f, OutputKeys(cb)) = amount
       /\ \A k \in OutputKeys(cb) : f[k] \in Nat
       /\ Given(cb) = amount
  <2>1. cb.hash = tx_calculate_hash(cb)
    BY <1>2, <1>4
  <2>2. \A k \in OutputKeys(cb) : f[k] = AmountOf(k)
    BY <1>5, <1>8
  <2>3. IsCoinbaseOf(cb, amount)
    BY DEF cb, IsCoinbaseOf
  <2>4. /\ IsFiniteSet(OutputKeys(cb)) /\ SumFunctionOnSet(f, OutputKeys(cb)) = amount
        /\ \A k \in OutputKeys(cb) : AmountOf(k) = amount
        /\ Given(cb) = amount
    BY <2>1, <2>2, <2>3, CoinbaseSum
  <2>. QED BY <2>2, <2>4
<1>12. /\ IsFiniteSet(U) /\ \A k \in U : f[k] \in Nat /\ u[k].amount = f[k]
  BY <1>8 DEF AmountsSound
<1>13. /\ IsFiniteSet(Chain!Creates(b)) /\ \A k \in Chain!Creates(b) : f[k] \in Nat
       /\ SumFunctionOnSet(f, Chain!Creates(b)) = amount + SumFunctionOnSet(f, Out)
  <2>1. OutputKeys(cb) \cap Out = {}
    BY <1>3
  <2>2. \A k \in OutputKeys(cb) \cup Out : f[k] \in Int
    BY <1>10, <1>11
  <2>3. SumFunctionOnSet(f, OutputKeys(cb) \cup Out)
          = SumFunctionOnSet(f, OutputKeys(cb)) + SumFunctionOnSet(f, Out)
    BY <1>10, <1>11, <2>1, <2>2, WordAssumption, ChainP!SumUnion, SameSums, SameFinite
  <2>4. IsFiniteSet(OutputKeys(cb) \cup Out)
    BY <1>10, <1>11, FS_Union
  <2>. QED BY <1>5, <1>10, <1>11, <2>3, <2>4
<1>14. Supply(u) = SumFunctionOnSet(f, U) /\ Supply(u) \in Nat
  <2>. DEFINE g == [k \in DOMAIN u |-> u[k].amount]
  <2>1. DOMAIN g = U /\ \A k \in U : g[k] = f[k] /\ f[k] \in Int
    BY <1>12
  <2>2. Supply(u) = SumFunction(g)
    BY DEF Supply
  <2>. HIDE DEF g
  <2>3. SumFunctionOnSet(g, U) = SumFunctionOnSet(f, U)
    BY <1>12, <2>1, WordAssumption, ChainP!SumSame, SameSums, SameFinite
  <2>4. SumFunctionOnSet(f, U) \in Nat
    BY <1>12, WordAssumption, ChainP!SumNat, SameSums, SameFinite
  <2>. QED BY <2>1, <2>2, <2>3, <2>4 DEF SumFunction
<1>15. DOMAIN v = (U \ In) \cup Chain!Creates(b)
  BY <1>6 DEF Chain!apply_block_to_utxo_set
<1>16. ASSUME NEW k \in DOMAIN v PROVE v[k].amount = AmountOf(k)
  <2>1. CASE k \in Chain!Creates(b)
    <3>1. v[k] = Chain!UtxoOf(b, k)
      BY <2>1 DEF Chain!apply_block_to_utxo_set
    <3>. QED BY <1>4, <2>1, <3>1, CreatedAmount
  <2>2. CASE k \notin Chain!Creates(b)
    <3>1. v[k] = u[k] /\ k \in U
      BY <2>2 DEF Chain!apply_block_to_utxo_set
    <3>. QED BY <3>1 DEF AmountsSound
  <2>. QED BY <2>1, <2>2
<1>17. \A k \in U \cup Chain!Creates(b) : f[k] \in Int
  BY <1>12, <1>13
<1>18. /\ IsFiniteSet((U \ In) \cup Chain!Creates(b))
       /\ SumFunctionOnSet(f, (U \ In) \cup Chain!Creates(b)) + SumFunctionOnSet(f, In)
            = SumFunctionOnSet(f, U) + SumFunctionOnSet(f, Chain!Creates(b))
  <2>. DEFINE C == Chain!Creates(b)
  <2>1. /\ In \in SUBSET U /\ IsFiniteSet(U) /\ IsFiniteSet(C) /\ C \cap U = {}
        /\ \A k \in U \cup C : f[k] \in Int
    BY <1>3, <1>7, <1>12, <1>13, <1>17
  <2>. HIDE DEF In, U, C
  <2>2. /\ IsFiniteSet((U \ In) \cup C)
        /\ SumFunctionOnSet(f, (U \ In) \cup C) + SumFunctionOnSet(f, In)
             = SumFunctionOnSet(f, U) + SumFunctionOnSet(f, C)
    BY ONLY <2>1, Exchange
  <2>. QED BY <2>2 DEF C
<1>19. \A k \in DOMAIN v : k \in U \cup Chain!Creates(b) /\ f[k] = AmountOf(k)
  BY <1>8, <1>15
<1>20. \A k \in DOMAIN v : f[k] \in Nat
  BY <1>12, <1>13, <1>19
<1>21. Supply(v) = SumFunctionOnSet(f, DOMAIN v)
  <2>. DEFINE g == [k \in DOMAIN v |-> v[k].amount]
  <2>1. DOMAIN g = DOMAIN v /\ \A k \in DOMAIN v : g[k] = f[k] /\ f[k] \in Int
    BY <1>16, <1>19, <1>20
  <2>2. Supply(v) = SumFunction(g)
    BY DEF Supply
  <2>. HIDE DEF g, v
  <2>3. SumFunctionOnSet(g, DOMAIN v) = SumFunctionOnSet(f, DOMAIN v)
    BY <1>15, <1>18, <2>1, WordAssumption, ChainP!SumSame, SameSums, SameFinite
  <2>. QED BY <2>1, <2>2, <2>3 DEF SumFunction
<1>22. AmountsSound(v)
  BY <1>15, <1>16, <1>18, <1>19, <1>20 DEF AmountsSound
<1>23. SumFunctionOnSet(f, In) <= SumFunctionOnSet(f, U)
  BY <1>7, <1>12, WordAssumption, ChainP!SumMonotone, SameSums, SameFinite
<1>24. PICK o \in Nat : o = GivenBy(txs)
  BY <1>10
<1>25. PICK d \in Nat : d = SumFunctionOnSet(f, U)
  BY <1>14
<1>26. PICK e \in Nat : e = TakenBy(txs)
  BY <1>10
<1>27. SumFunctionOnSet(f, DOMAIN v) \in Nat
  <2>. HIDE DEF v
  <2>. QED BY <1>15, <1>18, <1>20, WordAssumption, ChainP!SumNat, SameSums, SameFinite
<1>28. PICK w \in Nat : w = SumFunctionOnSet(f, DOMAIN v)
  BY <1>27
<1>29. w + e = d + (amount + o) /\ e <= d
  BY <1>10, <1>13, <1>15, <1>18, <1>23, <1>24, <1>25, <1>26, <1>28
<1>30. Created(b) \in Int /\ Created(b) + e = amount + o
  <2>1. b.transactions = <<cb>> \o txs
    BY DEF cb
  <2>2. /\ Created(b) \in Int
        /\ Created(b) + TakenBy(txs) = amount + GivenBy(txs)
    BY <1>1, <1>10, <1>11, <2>1, NextCreated
  <2>. QED BY <1>24, <1>26, <2>2
<1>31. w = d + Created(b)
  BY <1>29, <1>30
<1>. HIDE DEF v
<1>. QED BY <1>10, <1>14, <1>21, <1>22, <1>24, <1>25, <1>26, <1>28, <1>29, <1>30, <1>31 DEF v

-----------------------------------------------------------------------------
(* Rewards.                                                                *)

\* A reward is a natural number.
LEMMA RewardNat ==
    ASSUME NEW s \in Int, NEW t \in Int
    PROVE  get_block_reward(s, t) \in Nat
<1>. DEFINE years == Minus(t, s) \div SecondsPerYear
<1>1. SecondsPerYear \in Nat \ {0} /\ HalfCoin \in Nat /\ Word \in Nat \ {0}
  BY ConsensusAssumption, WordAssumption
<1>2. Minus(t, s) \in Nat
  BY <1>1 DEF Minus
<1>3. years \in Nat
  BY <1>1, <1>2
<1>4. get_block_reward(s, t) = HalfCoin * (1 + IF years < 3 THEN years ELSE 3)
  BY DEF get_block_reward
<1>. HIDE DEF years
<1>5. PICK k \in Nat : k = 1 + IF years < 3 THEN years ELSE 3
  BY <1>3
<1>6. HalfCoin * k \in Nat
  BY <1>1
<1>. QED BY <1>4, <1>5, <1>6

\* Whole years grow with the seconds.
LEMMA DivMonotone ==
    ASSUME NEW x \in Nat, NEW y \in Nat, x <= y, NEW d \in Nat \ {0}
    PROVE  x \div d \in Nat /\ y \div d \in Nat /\ x \div d <= y \div d
<1>1. PICK p \in Int : p = x \div d
  OBVIOUS
<1>2. PICK q \in Int : q = y \div d
  OBVIOUS
<1>3. d * p <= x /\ x < d * p + d
  BY <1>1
<1>4. d * q <= y /\ y < d * q + d
  BY <1>2
<1>5. ASSUME q < p PROVE FALSE
  <2>1. d * (q + 1) <= d * p
    <3>1. PICK e \in Nat : p = q + 1 + e
      <4>1. p - q - 1 \in Nat /\ p = q + 1 + (p - q - 1)
        BY <1>5
      <4>. QED BY <4>1
    <3>2. d * p = d * (q + 1) + d * e /\ d * e >= 0
      BY <3>1
    <3>3. d * (q + 1) \in Int /\ d * e \in Int /\ d * p \in Int
      OBVIOUS
    <3>. QED BY <3>2, <3>3
  <2>2. d * (q + 1) = d * q + d
    OBVIOUS
  <2>. QED BY <1>3, <1>4, <2>1, <2>2
<1>6. p >= 0 /\ q >= 0
  BY <1>1, <1>2
<1>. QED BY <1>1, <1>2, <1>5, <1>6

\* A second later the reward is not less, in the range of uint64_t.
LEMMA RewardGrows ==
    ASSUME NEW s \in Nat, NEW t \in Nat, s <= t, t + 1 < s + Word
    PROVE  get_block_reward(s, t) <= get_block_reward(s, t + 1)
<1>1. SecondsPerYear \in Nat \ {0} /\ HalfCoin \in Nat /\ Word \in Nat \ {0}
  BY ConsensusAssumption, WordAssumption
<1>2. PICK x \in Nat : x = t - s
  OBVIOUS
<1>3. Minus(t, s) = x /\ Minus(t + 1, s) = x + 1
  <2>1. (t + 1) - s = x + 1 /\ x + 1 < Word
    BY <1>1, <1>2
  <2>2. x % Word = x /\ (x + 1) % Word = x + 1
    BY <1>1, <2>1
  <2>. QED BY <1>2, <2>1, <2>2 DEF Minus
<1>4. PICK p \in Nat : p = x \div SecondsPerYear
  BY <1>1, DivMonotone
<1>5. PICK q \in Nat : q = (x + 1) \div SecondsPerYear /\ p <= q
  BY <1>1, <1>4, DivMonotone
<1>6. PICK k \in Nat : k = 1 + IF p < 3 THEN p ELSE 3
  OBVIOUS
<1>7. PICK m \in Nat : m = 1 + IF q < 3 THEN q ELSE 3
  OBVIOUS
<1>8. /\ get_block_reward(s, t) = HalfCoin * k
      /\ get_block_reward(s, t + 1) = HalfCoin * m
  BY <1>3, <1>4, <1>5, <1>6, <1>7 DEF get_block_reward
<1>9. HalfCoin * k <= HalfCoin * m
  <2>1. PICK e \in Nat : m = k + e
    <3>1. m - k \in Nat /\ m = k + (m - k)
      BY <1>5, <1>6, <1>7
    <3>. QED BY <3>1
  <2>2. HalfCoin * m = HalfCoin * k + HalfCoin * e /\ HalfCoin * e >= 0
    BY <1>1, <2>1
  <2>3. HalfCoin * m \in Int /\ HalfCoin * k \in Int /\ HalfCoin * e \in Int
    BY <1>1
  <2>. QED BY <2>2, <2>3
<1>. QED BY <1>8, <1>9

\* One more block, one more reward.
LEMMA IssuedNext ==
    ASSUME NEW c, BlocksSound(c), NEW b, NEW delay \in {0, 1},
           c[1].header.timestamp = StartTime, StartTime \in Nat,
           \A n \in DOMAIN c : c[n].header.timestamp \in Nat,
           b.header.timestamp \in Nat
    PROVE  /\ Issued(c, delay) \in Nat /\ Reward(b, delay) \in Nat
           /\ Issued(Append(c, b), delay) = Issued(c, delay) + Reward(b, delay)
<1>. DEFINE d == Append(c, b)
            r(x) == [n \in 2..Len(x) |->
                       get_block_reward(x[1].header.timestamp, x[n].header.timestamp + delay)]
            f == r(c)
            g == r(d)
            I == 2..Len(c)
<1>1. c \in Seq({c[n] : n \in DOMAIN c})
  BY SoundChain
<1>2. /\ Len(c) \in Nat /\ Len(c) >= 1 /\ DOMAIN c = 1..Len(c)
      /\ Len(d) = Len(c) + 1
      /\ \A n \in 1..Len(c) : d[n] = c[n]
      /\ d[Len(c) + 1] = b
  BY <1>1, SoundChain, AppendBlock
<1>. HIDE DEF d
<1>3. /\ 1 \in 1..Len(c) /\ \A n \in I : n \in 1..Len(c)
      /\ 2..Len(d) = I \cup {Len(c) + 1} /\ Len(c) + 1 \notin I
  BY <1>2
<1>4. ASSUME NEW n \in I PROVE f[n] \in Nat /\ g[n] = f[n]
  <2>1. c[n].header.timestamp + delay \in Int
    BY <1>2, <1>3
  <2>2. n \in 2..Len(d) /\ d[1] = c[1] /\ d[n] = c[n]
    BY <1>2, <1>3
  <2>3. /\ f[n] = get_block_reward(StartTime, c[n].header.timestamp + delay)
        /\ g[n] = get_block_reward(StartTime, c[n].header.timestamp + delay)
    BY <2>2
  <2>4. get_block_reward(StartTime, c[n].header.timestamp + delay) \in Nat
    <3>1. StartTime \in Int
      OBVIOUS
    <3>. QED BY ONLY <2>1, <3>1, RewardNat
  <2>. QED BY <2>3, <2>4
<1>5. Reward(b, delay) \in Nat /\ g[Len(c) + 1] = Reward(b, delay)
  <2>1. b.header.timestamp + delay \in Int
    OBVIOUS
  <2>2. Len(c) + 1 \in 2..Len(d) /\ d[1] = c[1]
    BY <1>2, <1>3
  <2>3. g[Len(c) + 1] = get_block_reward(StartTime, b.header.timestamp + delay)
    BY <1>2, <2>2
  <2>4. get_block_reward(StartTime, b.header.timestamp + delay) \in Nat
    <3>1. StartTime \in Int
      OBVIOUS
    <3>. QED BY ONLY <2>1, <3>1, RewardNat
  <2>. QED BY <2>3, <2>4 DEF Reward
<1>6. IsFiniteSet(I)
  BY FS_Interval
<1>7. DOMAIN f = I /\ DOMAIN g = I \cup {Len(c) + 1}
  BY <1>3
<1>8. Issued(c, delay) = SumFunction(f) /\ Issued(d, delay) = SumFunction(g)
  BY DEF Issued
<1>. HIDE DEF f, g, I, r
<1>9. \A n \in I : f[n] \in Int /\ g[n] \in Int /\ g[n] = f[n] /\ f[n] \in Nat
  BY <1>4
<1>10. g[Len(c) + 1] \in Int
  BY <1>5
<1>11. SumFunctionOnSet(g, I \cup {Len(c) + 1}) = SumFunctionOnSet(g, I) + g[Len(c) + 1]
  BY <1>3, <1>6, <1>9, <1>10, WordAssumption, ChainP!SumAdd, SameSums, SameFinite
<1>12. SumFunctionOnSet(g, I) = SumFunctionOnSet(f, I)
  BY <1>6, <1>9, WordAssumption, ChainP!SumSame, SameSums, SameFinite
<1>13. SumFunctionOnSet(f, I) \in Nat
  BY <1>6, <1>9, WordAssumption, ChainP!SumNat, SameSums, SameFinite
<1>. QED BY <1>5, <1>7, <1>8, <1>11, <1>12, <1>13 DEF SumFunction, d

-----------------------------------------------------------------------------
(* The invariant.                                                          *)

\* No number of coins or seconds reaches the limit of uint64_t.
NothingWraps ==
    /\ Issued(chain, 1) < Word
    /\ now + 1 < StartTime + Word

\* Block b is one that a miner made, or from the chain file.
Legit(b) == Paying(b) \/ \E n \in DOMAIN StartChain : b = StartChain[n]

\* The chain begins with that of the chain file.
StartKept == \A n \in DOMAIN StartChain : chain[n] = StartChain[n]

\* The chain and the coins on it.
ChainCoins ==
    /\ StartKept
    /\ \A n \in DOMAIN chain : Legit(chain[n]) /\ chain[n].header.timestamp \in Nat
    /\ StartTime <= tip.header.timestamp
    /\ AmountsSound(utxo_set)
    /\ \A n \in (Len(StartChain) + 1)..Len(chain) : Created(chain[n]) \in Int
    /\ SupplyAccounted

\* The blocks that a connection's thread in state s has got ready.
HandlerCoins(s) ==
    /\ s.pc = "add_block" => Legit(s.data[1])
    /\ s.pc = "sync" => \A k \in 1..Len(s.data) : Legit(s.data[k])

\* The blocks that are on their way.
ReadyCoins ==
    /\ miner.pc = "add" => Legit(miner.block[1])
    /\ \A h \in Handlers : HandlerCoins(handler[h])
    /\ \A b \in peer_blocks : Legit(b)

\* The inductive invariant of the supply.
CoinsInv == ChainCoins /\ ReadyCoins

\* The chain stays, or takes a block that a miner made.
PaidStep ==
    \/ SameChain
    \/ /\ now' = now
       /\ \E b : Chain!IsBlock(b) /\ Chain!add_block(b) /\ Acceptable(b) /\ Legit(b)

\* The chain file.
LEMMA StartParts ==
    /\ DOMAIN StartChain = 1..Len(StartChain) /\ 1 \in DOMAIN StartChain
    /\ StartTime \in Nat
<1>1. BlocksSound(StartChain)
  BY StartAssumption
<1>2. DOMAIN StartChain = 1..Len(StartChain) /\ 1 \in DOMAIN StartChain
  <2>1. DOMAIN StartChain = 1..Len(StartChain)
    BY <1>1, SoundChain
  <2>. QED BY <2>1, StartLength
<1>3. StartChain[1].header.timestamp \in Nat
  BY <1>2, MoneyAssumption
<1>. QED BY <1>2, <1>3 DEF StartTime

\* The first block of the chain is that of the chain file.
LEMMA FirstBlock ==
    ASSUME StartKept PROVE chain[1].header.timestamp = StartTime
  BY StartParts DEF StartKept, StartTime

\* What a miner makes pays it the reward and the fees.
LEMMA MinablePays ==
    ASSUME StartKept, NEW n, NEW txs \in Seq(Txs), NEW key, NEW difficulty,
           NEW time \in Nat, NEW b \in Minable(chain[n], txs, key, difficulty, time)
    PROVE  Legit(b)
<1>1. PICK paid \in {time, time + 1} :
        b = mine_block(chain[n], txs, get_address(key), difficulty,
                       get_block_reward(StartTime, paid), time)
  BY FirstBlock DEF Minable, genesis_timestamp
<1>2. PICK delay \in {0, 1} : paid = time + delay
  <2>1. CASE paid = time
    <3>1. paid = time + 0
      BY <2>1
    <3>. QED BY <3>1
  <2>2. CASE paid = time + 1
    BY <2>2
  <2>. QED BY <2>1, <2>2
<1>. DEFINE address == get_address(key)
            reward  == get_block_reward(StartTime, paid)
            all == <<coinbase_transaction(address, (reward + Fees(txs)) % Word, time)>> \o txs
            header == [index         |-> chain[n].header.index + 1,
                       previous_hash |-> chain[n].hash,
                       timestamp     |-> time,
                       nonce         |-> difficulty,
                       merkle_root   |-> calculate_merkle_root([transactions |-> all]),
                       difficulty    |-> difficulty,
                       miner_address |-> address]
<1>3. b = Sealed(header, all)
  BY <1>1 DEF mine_block, Fees
<1>4. header.timestamp = time
  OBVIOUS
<1>. HIDE DEF all, header
<1>5. b.header.timestamp = time /\ b.transactions = all
  BY <1>3, <1>4 DEF Sealed
<1>6. reward = Reward(b, delay)
  BY <1>2, <1>5 DEF Reward
<1>. HIDE DEF reward, address
<1>7. Pays(b, txs, address, delay)
  BY <1>5, <1>6 DEF Pays, all
<1>. QED BY <1>7 DEF Legit, Paying

\* Fees are natural numbers.
LEMMA FeesNat == ASSUME NEW txs \in Seq(Txs) PROVE Fees(txs) \in Nat
<1>. DEFINE e == [i \in DOMAIN txs |-> txs[i].fee]
<1>1. Len(txs) \in Nat /\ DOMAIN txs = 1..Len(txs) /\ \A i \in DOMAIN txs : txs[i] \in Txs
  OBVIOUS
<1>2. \A i \in DOMAIN txs : e[i] \in Nat
  BY <1>1, MoneyAssumption
<1>3. IsFiniteSet(DOMAIN txs)
  BY <1>1, FS_Interval
<1>4. DOMAIN e = DOMAIN txs /\ Fees(txs) = SumFunction(e)
  BY DEF Fees
<1>. HIDE DEF e
<1>. QED BY <1>2, <1>3, <1>4, WordAssumption, ChainP!SumNat, SameSums, SameFinite DEF SumFunction

\* Coins are, too.
LEMMA SupplyNat == ASSUME NEW u, AmountsSound(u) PROVE Supply(u) \in Nat
<1>. DEFINE g == [k \in DOMAIN u |-> u[k].amount]
<1>1. IsFiniteSet(DOMAIN u) /\ \A k \in DOMAIN u : g[k] \in Nat
  BY DEF AmountsSound
<1>2. DOMAIN g = DOMAIN u /\ Supply(u) = SumFunction(g)
  BY DEF Supply
<1>. HIDE DEF g
<1>. QED BY <1>1, <1>2, WordAssumption, ChainP!SumNat, SameSums, SameFinite DEF SumFunction

\* One more block, and what it creates.
LEMMA CreatedNext ==
    ASSUME NEW c, NEW b, Len(c) \in Nat, Len(c) >= Len(StartChain),
           Len(Append(c, b)) = Len(c) + 1, Append(c, b)[Len(c) + 1] = b,
           \A n \in 1..Len(c) : Append(c, b)[n] = c[n],
           \A n \in (Len(StartChain) + 1)..Len(c) : Created(c[n]) \in Int,
           Created(b) \in Int
    PROVE  /\ CreatedSince(c) \in Int
           /\ CreatedSince(Append(c, b)) = CreatedSince(c) + Created(b)
<1>. DEFINE d == Append(c, b)
            I == (Len(StartChain) + 1)..Len(c)
            f == [n \in I |-> Created(c[n])]
            g == [n \in (Len(StartChain) + 1)..Len(d) |-> Created(d[n])]
<1>. HIDE DEF d
<1>1. /\ Len(d) = Len(c) + 1 /\ d[Len(c) + 1] = b
      /\ \A n \in 1..Len(c) : d[n] = c[n]
  BY DEF d
<1>2. /\ (Len(StartChain) + 1)..Len(d) = I \cup {Len(c) + 1}
      /\ Len(c) + 1 \notin I /\ \A n \in I : n \in 1..Len(c)
  BY <1>1, StartLength
<1>3. \A n \in I : f[n] \in Int /\ g[n] = f[n]
  BY <1>1, <1>2
<1>4. g[Len(c) + 1] = Created(b) /\ \A n \in I : g[n] \in Int
  BY <1>1, <1>2, <1>3
<1>5. IsFiniteSet(I)
  BY StartLength, FS_Interval
<1>6. /\ CreatedSince(c) = SumFunction(f) /\ DOMAIN f = I
      /\ CreatedSince(d) = SumFunction(g) /\ DOMAIN g = I \cup {Len(c) + 1}
  BY <1>2 DEF CreatedSince
<1>. HIDE DEF I, f, g
<1>7. SumFunctionOnSet(g, I) = SumFunctionOnSet(f, I)
  BY ONLY <1>3, <1>5, WordAssumption, ChainP!SumSame, SameSums, SameFinite
<1>8. SumFunctionOnSet(f, I) \in Int
  BY ONLY <1>3, <1>5, WordAssumption, ChainP!SumInt, SameSums, SameFinite
<1>9. SumFunctionOnSet(g, I \cup {Len(c) + 1}) = SumFunctionOnSet(g, I) + g[Len(c) + 1]
  <2>1. g[Len(c) + 1] \in Int
    BY <1>4
  <2>2. PICK x : x = Len(c) + 1
    OBVIOUS
  <2>3. x \notin I /\ g[x] \in Int
    BY <1>2, <2>1, <2>2
  <2>4. SumFunctionOnSet(g, I \cup {x}) = SumFunctionOnSet(g, I) + g[x]
    BY ONLY <1>4, <1>5, <2>3, WordAssumption, ChainP!SumAdd, SameSums, SameFinite
  <2>. QED BY <2>2, <2>4
<1>. QED BY <1>4, <1>6, <1>7, <1>8, <1>9 DEF SumFunction, d

\* A block that add_block takes, and what it does to the supply.
LEMMA BlockTaken ==
    ASSUME NodeInv, LedgerInv, ClocksAgree, ChainCoins, now' = now, NEW b,
           Chain!IsBlock(b), Chain!add_block(b), Acceptable(b), Legit(b)
    PROVE  /\ chain' = Append(chain, b) /\ BlocksSound(chain)
           /\ Len(chain) \in Nat /\ Len(chain) >= 1 /\ Len(chain) >= Len(StartChain)
           /\ DOMAIN chain = 1..Len(chain)
           /\ Len(chain') = Len(chain) + 1 /\ DOMAIN chain' = 1..(Len(chain) + 1)
           /\ \A n \in 1..Len(chain) : chain'[n] = chain[n]
           /\ chain'[Len(chain) + 1] = b
           /\ StartKept /\ StartKept'
           /\ b.header.timestamp \in Nat /\ b.header.timestamp <= now /\ now \in Nat
           /\ b.header.timestamp > tip.header.timestamp
           /\ tip.header.timestamp \in Nat /\ StartTime \in Nat
           /\ StartTime <= tip.header.timestamp
           /\ AmountsSound(utxo_set')
           /\ Created(b) \in Int
           /\ Supply(utxo_set) \in Nat /\ Supply(utxo_set') \in Nat
           /\ Supply(utxo_set') = Supply(utxo_set) + Created(b)
           /\ \E txs \in Seq(Txs), delay \in {0, 1} : \E amount \in Nat :
                /\ amount = (Reward(b, delay) + Fees(txs)) % Word
                /\ Fees(txs) \in Nat
                /\ TakenBy(txs) \in Nat /\ GivenBy(txs) \in Nat
                /\ \A i \in 1..Len(txs) : Taken(txs[i]) \in Nat /\ Given(txs[i]) \in Nat
                /\ TakenBy(txs) <= Supply(utxo_set)
                /\ Supply(utxo_set') + TakenBy(txs)
                     = Supply(utxo_set) + (amount + GivenBy(txs))
<1>1. GoodNext(chain, utxo_set, b)
  BY AcceptableOnTop
<1>2. /\ chain' = Append(chain, b)
      /\ utxo_set' = Chain!apply_block_to_utxo_set(utxo_set, b)
  BY AddedBlock DEF NodeInv
<1>3. BlocksSound(chain)
  BY DEF NodeInv, ChainInv
<1>4. /\ Len(chain) \in Nat /\ Len(chain) >= 1 /\ DOMAIN chain = 1..Len(chain)
      /\ Len(chain') = Len(chain) + 1 /\ DOMAIN chain' = 1..(Len(chain) + 1)
      /\ \A n \in 1..Len(chain) : chain'[n] = chain[n]
      /\ chain'[Len(chain) + 1] = b
  <2>1. /\ Len(chain) \in Nat /\ Len(chain) >= 1 /\ DOMAIN chain = 1..Len(chain)
        /\ chain \in Seq({chain[n] : n \in DOMAIN chain})
    BY <1>3, SoundChain
  <2>. QED BY <1>2, <2>1, AppendBlock
<1>5. Len(chain) >= Len(StartChain)
  BY DEF NodeInv, ChainInv
<1>6. StartKept /\ StartKept'
  <2>1. StartKept
    BY DEF ChainCoins
  <2>2. \A n \in DOMAIN StartChain : n \in 1..Len(chain)
    BY <1>4, <1>5, StartParts, StartLength
  <2>. QED BY <1>4, <2>1, <2>2 DEF StartKept
<1>7. /\ b.header.timestamp \in Nat /\ b.header.timestamp <= now /\ now \in Nat
      /\ b.header.timestamp > tip.header.timestamp
      /\ tip.header.timestamp \in Nat /\ StartTime \in Nat
      /\ StartTime <= tip.header.timestamp
  BY <1>1, StartParts DEF Acceptable, GoodNext, CoinbasesPast, ChainCoins, tip, NodeInv
<1>8. Paying(b)
  <2>1. ~Known(b)
    BY KnownRejected DEF NodeInv
  <2>2. \A n \in DOMAIN StartChain : b # StartChain[n]
    <3>1. \A n \in DOMAIN StartChain : n \in DOMAIN chain
      BY <1>4, <1>5, StartParts, StartLength
    <3>. QED BY <1>6, <2>1, <3>1 DEF Known, StartKept
  <2>. QED BY <2>2 DEF Legit
<1>9. PICK txs \in Seq(Txs), delay \in {0, 1} : \E address : Pays(b, txs, address, delay)
  BY <1>8 DEF Paying
<1>10. PICK address : Pays(b, txs, address, delay)
  BY <1>9
<1>11. Reward(b, delay) \in Nat
  <2>1. delay \in Int /\ StartTime \in Int
    BY <1>7
  <2>2. b.header.timestamp + delay \in Int
    BY <1>7, <2>1
  <2>3. get_block_reward(StartTime, b.header.timestamp + delay) \in Nat
    BY ONLY <2>1, <2>2, RewardNat
  <2>. QED BY <2>3 DEF Reward
<1>. DEFINE amount == (Reward(b, delay) + Fees(txs)) % Word
            v      == utxo_set'
<1>12. AmountsSound(utxo_set)
  BY DEF ChainCoins
<1>13. /\ amount \in Nat /\ Fees(txs) \in Nat
       /\ b.transactions =
            <<coinbase_transaction(address, amount, b.header.timestamp)>> \o txs
  <2>2. Fees(txs) \in Nat
    BY FeesNat
  <2>3. Reward(b, delay) + Fees(txs) \in Nat /\ Word \in Nat \ {0}
    BY <1>11, <2>2, WordAssumption
  <2>. QED BY <1>10, <2>2, <2>3 DEF Pays
<1>14. PICK paid \in Nat : paid = amount
  BY <1>13
<1>. HIDE DEF amount
<1>15. /\ AmountsSound(v)
       /\ Supply(utxo_set) \in Nat /\ Supply(v) \in Nat
       /\ TakenBy(txs) \in Nat /\ GivenBy(txs) \in Nat
       /\ \A i \in 1..Len(txs) : Taken(txs[i]) \in Nat /\ Given(txs[i]) \in Nat
       /\ TakenBy(txs) <= Supply(utxo_set)
       /\ Supply(v) + TakenBy(txs) = Supply(utxo_set) + (paid + GivenBy(txs))
       /\ Created(b) \in Int /\ Supply(v) = Supply(utxo_set) + Created(b)
  BY <1>1, <1>2, <1>12, <1>13, <1>14, NextSupply
<1>16. \E t \in Seq(Txs), d \in {0, 1} : \E a \in Nat :
         /\ a = (Reward(b, d) + Fees(t)) % Word
         /\ Fees(t) \in Nat
         /\ TakenBy(t) \in Nat /\ GivenBy(t) \in Nat
         /\ \A i \in 1..Len(t) : Taken(t[i]) \in Nat /\ Given(t[i]) \in Nat
         /\ TakenBy(t) <= Supply(utxo_set)
         /\ Supply(v) + TakenBy(t) = Supply(utxo_set) + (a + GivenBy(t))
  BY <1>13, <1>14, <1>15 DEF amount
<1>. QED BY <1>2, <1>3, <1>4, <1>5, <1>6, <1>7, <1>15, <1>16

\* The chain's part: what add_block takes pays its miner what it may.
LEMMA ChainCoinsKept ==
    ASSUME NodeInv, LedgerInv, ClocksAgree, ChainCoins, PaidStep
    PROVE  ChainCoins'
<1>1. CASE SameChain
  BY <1>1 DEF SameChain, ChainCoins, StartKept, tip, SupplyAccounted
<1>2. ASSUME now' = now, NEW b,
             Chain!IsBlock(b), Chain!add_block(b), Acceptable(b), Legit(b)
      PROVE  ChainCoins'
  <2>1. /\ chain' = Append(chain, b)
        /\ Len(chain) \in Nat /\ Len(chain) >= 1 /\ Len(chain) >= Len(StartChain)
        /\ Len(chain') = Len(chain) + 1 /\ DOMAIN chain' = 1..(Len(chain) + 1)
        /\ DOMAIN chain = 1..Len(chain)
        /\ \A n \in 1..Len(chain) : chain'[n] = chain[n]
        /\ chain'[Len(chain) + 1] = b
        /\ StartKept'
    BY <1>2, BlockTaken
  <2>2. /\ b.header.timestamp \in Nat /\ b.header.timestamp > tip.header.timestamp
        /\ tip.header.timestamp \in Nat /\ StartTime \in Nat
        /\ StartTime <= tip.header.timestamp
        /\ AmountsSound(utxo_set')
        /\ Created(b) \in Int
        /\ Supply(utxo_set) \in Nat
        /\ Supply(utxo_set') = Supply(utxo_set) + Created(b)
    BY <1>2, BlockTaken
  <2>3. StartTime <= tip'.header.timestamp
    BY <2>1, <2>2 DEF tip
  <2>4. \A n \in DOMAIN chain' : Legit(chain'[n]) /\ chain'[n].header.timestamp \in Nat
    BY <1>2, <2>1, <2>2 DEF ChainCoins
  <2>5. \A n \in (Len(StartChain) + 1)..Len(chain) : Created(chain[n]) \in Int
    BY DEF ChainCoins
  <2>6. \A n \in (Len(StartChain) + 1)..Len(chain') : Created(chain'[n]) \in Int
    <3>1. ASSUME NEW n \in (Len(StartChain) + 1)..Len(chain') PROVE Created(chain'[n]) \in Int
      <4>1. CASE n = Len(chain) + 1
        BY <2>1, <2>2, <4>1
      <4>2. CASE n # Len(chain) + 1
        <5>1. n \in (Len(StartChain) + 1)..Len(chain) /\ n \in 1..Len(chain)
          BY <2>1, <3>1, <4>2, StartLength
        <5>. QED BY <2>1, <2>5, <5>1
      <4>. QED BY <4>1, <4>2
    <3>. QED BY <3>1
  <2>7. CreatedSince(chain) \in Int /\ CreatedSince(chain') = CreatedSince(chain) + Created(b)
    BY <2>1, <2>2, <2>5, CreatedNext
  <2>8. SupplyAccounted'
    <3>1. Supply(utxo_set) = Supply(Replay(StartChain)) + CreatedSince(chain)
      BY DEF ChainCoins, SupplyAccounted
    <3>2. Supply(Replay(StartChain)) \in Int
      BY MoneyAssumption, SupplyNat
    <3>3. Supply(utxo_set') = Supply(Replay(StartChain)) + CreatedSince(chain')
      BY <2>2, <2>7, <3>1, <3>2
    <3>. QED BY <3>3 DEF SupplyAccounted
  <2>. QED BY <2>1, <2>2, <2>3, <2>4, <2>6, <2>8 DEF ChainCoins
<1>. QED BY <1>1, <1>2 DEF PaidStep

\* If the wallets' transactions are balanced, a block adds its reward.
LEMMA SupplyKept ==
    ASSUME NodeInv, LedgerInv, ClocksAgree, TransactionsBalanced, ChainCoins,
           SupplyConserved, NothingWraps', PaidStep
    PROVE  SupplyConserved'
<1>1. CASE SameChain
  BY <1>1 DEF SameChain, SupplyConserved
<1>2. ASSUME now' = now, NEW b,
             Chain!IsBlock(b), Chain!add_block(b), Acceptable(b), Legit(b)
      PROVE  SupplyConserved'
  <2>1. /\ chain' = Append(chain, b) /\ BlocksSound(chain) /\ StartKept
        /\ b.header.timestamp \in Nat /\ b.header.timestamp <= now /\ now \in Nat
        /\ b.header.timestamp > tip.header.timestamp
        /\ tip.header.timestamp \in Nat /\ StartTime \in Nat
        /\ StartTime <= tip.header.timestamp
        /\ Supply(utxo_set) \in Nat /\ Supply(utxo_set') \in Nat
    BY <1>2, BlockTaken
  <2>2. PICK txs \in Seq(Txs), delay \in {0, 1} : \E amount \in Nat :
          /\ amount = (Reward(b, delay) + Fees(txs)) % Word
          /\ Fees(txs) \in Nat
          /\ TakenBy(txs) \in Nat /\ GivenBy(txs) \in Nat
          /\ \A i \in 1..Len(txs) : Taken(txs[i]) \in Nat /\ Given(txs[i]) \in Nat
          /\ TakenBy(txs) <= Supply(utxo_set)
          /\ Supply(utxo_set') + TakenBy(txs) = Supply(utxo_set) + (amount + GivenBy(txs))
    BY <1>2, BlockTaken
  <2>3. PICK amount \in Nat :
          /\ amount = (Reward(b, delay) + Fees(txs)) % Word
          /\ Supply(utxo_set') + TakenBy(txs) = Supply(utxo_set) + (amount + GivenBy(txs))
    BY <2>2
  <2>4. TakenBy(txs) = GivenBy(txs) + Fees(txs)
    BY <2>2, TxsBalance
  <2>5. ASSUME NEW d \in {0, 1}
         PROVE  /\ Issued(chain, d) \in Nat /\ Reward(b, d) \in Nat
                /\ Issued(chain', d) = Issued(chain, d) + Reward(b, d)
    <3>1. \A n \in DOMAIN chain : chain[n].header.timestamp \in Nat
      BY DEF ChainCoins
    <3>2. chain[1].header.timestamp = StartTime
      BY <2>1, FirstBlock
    <3>. QED BY <2>1, <3>1, <3>2, IssuedNext
  <2>6. Reward(b, 0) <= Reward(b, 1)
    <3>1. PICK t \in Nat : t = b.header.timestamp
      BY <2>1
    <3>2. t + 0 = t /\ StartTime <= t /\ t + 1 < StartTime + Word
      <4>1. now + 1 < StartTime + Word
        BY <1>2 DEF NothingWraps
      <4>2. Word \in Nat
        BY WordAssumption
      <4>. QED BY <2>1, <3>1, <4>1, <4>2
    <3>3. get_block_reward(StartTime, t) <= get_block_reward(StartTime, t + 1)
      BY <2>1, <3>2, RewardGrows
    <3>. QED BY <3>1, <3>2, <3>3 DEF Reward
  <2>7. Supply(utxo_set) \in Issued(chain, 0)..Issued(chain, 1)
    BY DEF SupplyConserved
  <2>8. Issued(chain', 1) < Word
    BY DEF NothingWraps
  <2>9. Reward(b, 0) <= Reward(b, delay) /\ Reward(b, delay) <= Reward(b, 1)
    BY <2>5, <2>6
  <2>10. amount = Reward(b, delay) + Fees(txs)
    <3>1. /\ Issued(chain, 1) \in Nat /\ Reward(b, 1) \in Nat /\ Reward(b, delay) \in Nat
          /\ Issued(chain', 1) = Issued(chain, 1) + Reward(b, 1)
      BY <2>5
    <3>2. Fees(txs) \in Nat /\ Fees(txs) <= Supply(utxo_set)
      BY <2>1, <2>2, <2>4
    <3>3. /\ Reward(b, delay) + Fees(txs) < Word /\ Reward(b, delay) + Fees(txs) \in Nat
          /\ Word \in Nat \ {0}
      BY <2>1, <2>7, <2>8, <2>9, <3>1, <3>2, WordAssumption
    <3>. QED BY <2>3, <3>3
  <2>11. Supply(utxo_set') = Supply(utxo_set) + Reward(b, delay)
    <3>1. PICK x \in Nat : x = Supply(utxo_set)
      BY <2>1
    <3>2. PICK y \in Nat : y = Supply(utxo_set')
      BY <2>1
    <3>3. PICK g \in Nat : g = GivenBy(txs)
      BY <2>2
    <3>4. PICK e \in Nat : e = Fees(txs)
      BY <2>2
    <3>5. PICK r \in Nat : r = Reward(b, delay)
      BY <2>5
    <3>6. y + (g + e) = x + ((r + e) + g)
      BY <2>3, <2>4, <2>10, <3>1, <3>2, <3>3, <3>4, <3>5
    <3>7. y = x + r
      BY <3>6
    <3>. QED BY <3>1, <3>2, <3>5, <3>7
  <2>12. /\ Issued(chain, 0) \in Nat /\ Reward(b, 0) \in Nat
         /\ Issued(chain, 1) \in Nat /\ Reward(b, 1) \in Nat /\ Reward(b, delay) \in Nat
         /\ Issued(chain', 0) = Issued(chain, 0) + Reward(b, 0)
         /\ Issued(chain', 1) = Issued(chain, 1) + Reward(b, 1)
    BY <2>5
  <2>13. Supply(utxo_set') \in Issued(chain', 0)..Issued(chain', 1)
    BY <2>1, <2>7, <2>9, <2>11, <2>12
  <2>. QED BY <2>13 DEF SupplyConserved
<1>. QED BY <1>1, <1>2 DEF PaidStep

-----------------------------------------------------------------------------
(* The steps.                                                              *)

\* The main thread gets a block ready that pays it, and adds what is ready.
LEMMA MinerKeepsCoins ==
    ASSUME NodeInv, LedgerInv, ClocksAgree, CoinsInv, Miner
    PROVE  CoinsInv' /\ PaidStep
<1>1. UNCHANGED <<now, peer_blocks, handler>>
  BY DEF Miner, MinerRead, MinerCheck, MinerSelect, MinerMine, MinerAdd, MinerSave,
         MinerRemove, peerVars
<1>2. ASSUME \/ SameChain
             \/ \E b : /\ Chain!IsBlock(b) /\ Chain!add_block(b)
                       /\ Acceptable(b) /\ Legit(b),
             miner'.pc = "add" => Legit(miner'.block[1])
      PROVE  CoinsInv' /\ PaidStep
  <2>1. PaidStep /\ ChainCoins'
    BY <1>1, <1>2, ChainCoinsKept DEF CoinsInv, PaidStep
  <2>2. \A h \in Handlers : HandlerCoins(handler[h])'
    BY <1>1 DEF CoinsInv, ReadyCoins, HandlerCoins
  <2>3. \A b \in peer_blocks' : Legit(b)
    BY <1>1 DEF CoinsInv, ReadyCoins
  <2>. QED BY <1>2, <2>1, <2>2, <2>3 DEF CoinsInv, ReadyCoins
<1>3. DOMAIN miner = MinerFields /\ LoopTop.pc = "read"
  BY DEF NodeInv, MinerInv, LoopTop
<1>4. CASE MinerRead
  <2>1. SameChain /\ miner'.pc = "check"
    BY <1>3, <1>4 DEF MinerRead, SameChain, chainVars, MinerFields
  <2>. QED BY <1>2, <2>1
<1>5. CASE MinerCheck
  <2>1. SameChain /\ (miner' = [miner EXCEPT !.pc = "select"] \/ miner' = LoopTop)
    BY <1>5 DEF MinerCheck, SameChain, chainVars
  <2>2. miner'.pc \in {"select", "read"}
    BY <1>3, <2>1 DEF MinerFields
  <2>. QED BY <1>2, <2>1, <2>2
<1>6. CASE MinerSelect
  <2>1. PICK txs : miner' = [miner EXCEPT !.pc = "mine", !.txs = txs]
    BY <1>6 DEF MinerSelect
  <2>2. SameChain /\ miner'.pc = "mine"
    BY <1>3, <1>6, <2>1 DEF MinerSelect, SameChain, chainVars, MinerFields
  <2>. QED BY <1>2, <2>2
<1>7. CASE MinerMine
  <2>1. SameChain /\ miner.pc = "mine"
    BY <1>7 DEF MinerMine, SameChain, chainVars
  <2>2. PICK difficulty, b :
          /\ b \in Minable(miner.latest[1], miner.txs, MinerKey, difficulty, now)
          /\ miner' = [LoopTop EXCEPT !.pc = "add", !.block = <<b>>]
    BY <1>7 DEF MinerMine
  <2>3. miner'.block[1] = b
    BY <2>2 DEF LoopTop
  <2>4. PICK n \in Recent : miner.latest[1] = chain[n]
    BY <2>1 DEF NodeInv, MinerInv
  <2>5. PICK txs \in Seq(Txs) : txs = miner.txs
    BY <2>1 DEF NodeInv, MinerInv
  <2>6. b \in Minable(chain[n], txs, MinerKey, difficulty, now)
    BY <2>2, <2>4, <2>5
  <2>7. now \in Nat /\ StartKept
    BY DEF NodeInv, CoinsInv, ChainCoins
  <2>8. Legit(b)
    BY <2>5, <2>6, <2>7, MinablePays
  <2>. QED BY <1>2, <2>1, <2>3, <2>8
<1>8. CASE MinerAdd
  <2>1. /\ miner.pc = "add"
        /\ Chain!add_block(miner.block[1]) \/ SameChain
        /\ miner' = [miner EXCEPT !.pc = "save", !.i = 1] \/ miner' = LoopTop
    BY <1>8 DEF MinerAdd, AddBlock, Chain!add_block_rejected, Chain!chainVars, SameChain
  <2>2. /\ Chain!IsBlock(miner.block[1]) /\ Acceptable(miner.block[1])
        /\ Legit(miner.block[1])
    BY <2>1 DEF NodeInv, MinerInv, LedgerInv, MinerLedgerInv, CoinsInv, ReadyCoins
  <2>3. miner'.pc \in {"save", "read"}
    BY <1>3, <2>1 DEF MinerFields
  <2>. QED BY <1>2, <2>1, <2>2, <2>3
<1>9. CASE MinerSave
  <2>1. SameChain /\ miner'.pc = "remove"
    BY <1>3, <1>9 DEF MinerSave, SameChain, Chain!save_to_disk, MinerFields
  <2>. QED BY <1>2, <2>1
<1>10. CASE MinerRemove
  <2>1. /\ SameChain /\ miner.pc = "remove"
        /\ miner' = [miner EXCEPT !.i = @ + 1] \/ miner' = LoopTop
    BY <1>10 DEF MinerRemove, SameChain, chainVars
  <2>2. miner'.pc \in {"remove", "read"}
    BY <1>3, <2>1 DEF MinerFields
  <2>. QED BY <1>2, <2>1, <2>2
<1>. QED BY <1>4, <1>5, <1>6, <1>7, <1>8, <1>9, <1>10 DEF Miner

\* One handler gets to a state in which what it has ready pays its miner.
LEMMA OneHandlerCoins ==
    ASSUME NodeInv, LedgerInv, ClocksAgree, CoinsInv,
           UNCHANGED <<now, miner, peer_blocks>>,
           \/ SameChain
           \/ \E b : Chain!IsBlock(b) /\ Chain!add_block(b) /\ Acceptable(b) /\ Legit(b),
           NEW h \in Handlers, NEW s, handler' = [handler EXCEPT ![h] = s],
           HandlerCoins(s)
    PROVE  CoinsInv' /\ PaidStep
<1>1. PaidStep /\ ChainCoins'
  BY ChainCoinsKept DEF CoinsInv, PaidStep
<1>2. DOMAIN handler = Handlers
  BY DEF NodeInv, HandlersInv
<1>3. handler'[h] = s /\ \A x \in Handlers \ {h} : handler'[x] = handler[x]
  BY <1>2
<1>4. \A x \in Handlers : HandlerCoins(handler[x])'
  BY <1>3 DEF HandlerCoins, CoinsInv, ReadyCoins
<1>5. /\ miner'.pc = "add" => Legit(miner'.block[1])
      /\ \A b \in peer_blocks' : Legit(b)
  BY DEF CoinsInv, ReadyCoins
<1>. QED BY <1>1, <1>4, <1>5 DEF CoinsInv, ReadyCoins

\* A message arrives.
LEMMA ReceiveKeepsCoins ==
    ASSUME NodeInv, LedgerInv, ClocksAgree, CoinsInv, NEW h \in Handlers, Receive(h)
    PROVE  CoinsInv' /\ PaidStep
<1>1. SameChain /\ UNCHANGED <<now, miner, peer_blocks>>
  BY ReceiveKeepsInv DEF SameChain, chainVars
<1>2. DOMAIN handler[h] = HandlerFields /\ DOMAIN handler = Handlers
  BY DEF NodeInv, HandlersInv, HandlerInv
<1>3. ASSUME NEW s, handler' = [handler EXCEPT ![h] = s], HandlerCoins(s)
      PROVE  CoinsInv' /\ PaidStep
  BY <1>1, <1>3, OneHandlerCoins
<1>4. CASE UNCHANGED handler
  <2>1. PaidStep /\ ChainCoins'
    BY <1>1, ChainCoinsKept DEF CoinsInv, PaidStep
  <2>. QED BY <1>1, <1>4, <2>1 DEF CoinsInv, ReadyCoins, HandlerCoins
<1>5. ASSUME NEW tx, handler' = [handler EXCEPT ![h].pc = "add_tx", ![h].data = <<tx>>]
      PROVE  CoinsInv' /\ PaidStep
  <2>. DEFINE s == [handler[h] EXCEPT !.pc = "add_tx", !.data = <<tx>>]
  <2>1. s.pc = "add_tx"
    BY <1>2 DEF HandlerFields
  <2>2. handler' = [handler EXCEPT ![h] = s]
    BY <1>2, <1>5
  <2>. HIDE DEF s
  <2>3. HandlerCoins(s)
    BY <2>1 DEF HandlerCoins
  <2>. QED BY <1>3, <2>2, <2>3
<1>6. ASSUME NEW b \in peer_blocks,
             handler' = [handler EXCEPT ![h].pc = "add_block", ![h].data = <<b>>]
      PROVE  CoinsInv' /\ PaidStep
  <2>. DEFINE s == [handler[h] EXCEPT !.pc = "add_block", !.data = <<b>>]
  <2>1. s.pc = "add_block" /\ s.data = <<b>>
    BY <1>2 DEF HandlerFields
  <2>2. handler' = [handler EXCEPT ![h] = s]
    BY <1>2, <1>6
  <2>. HIDE DEF s
  <2>3. HandlerCoins(s)
    BY <2>1 DEF HandlerCoins, CoinsInv, ReadyCoins
  <2>. QED BY <1>3, <2>2, <2>3
<1>7. ASSUME NEW b \in peer_blocks, NEW from \in 0..b.header.index, NEW data,
             data = Chain!get_blocks(Append(SubSeq(chain, 1, b.header.index), b), from),
             handler' = [handler EXCEPT ![h].pc = "sync", ![h].data = data, ![h].i = 1]
      PROVE  CoinsInv' /\ PaidStep
  <2>. DEFINE s == [handler[h] EXCEPT !.pc = "sync", !.data = data, !.i = 1]
  <2>1. s.pc = "sync" /\ s.data = data
    BY <1>2 DEF HandlerFields
  <2>2. handler' = [handler EXCEPT ![h] = s]
    BY <1>2, <1>7
  <2>. HIDE DEF s
  <2>3. ChainInv /\ b.header.index \in 1..Len(chain)
    BY DEF NodeInv, PeersInv
  <2>4. \A k \in 1..Len(data) :
          data[k] = b \/ (k + from \in 1..b.header.index /\ data[k] = chain[k + from])
    BY <1>7, <2>3, SyncBlocks
  <2>5. \A n \in 1..b.header.index : n \in DOMAIN chain
    BY <2>3, SoundChain DEF ChainInv
  <2>6. \A k \in 1..Len(data) : Legit(data[k])
    BY <2>4, <2>5 DEF CoinsInv, ReadyCoins, ChainCoins
  <2>7. HandlerCoins(s)
    BY <2>1, <2>6 DEF HandlerCoins
  <2>. QED BY <1>3, <2>2, <2>7
<1>8. CASE ReceiveTx(h)
  BY <1>4, <1>5, <1>8 DEF ReceiveTx
<1>9. CASE ReceiveBlock(h)
  BY <1>6, <1>9 DEF ReceiveBlock
<1>10. CASE ReceiveSync(h)
  BY <1>7, <1>10 DEF ReceiveSync
<1>. QED BY <1>8, <1>9, <1>10 DEF Receive

\* A handler makes its next call.
LEMMA HandleKeepsCoins ==
    ASSUME NodeInv, LedgerInv, ClocksAgree, CoinsInv, NEW h \in Handlers, Handle(h)
    PROVE  CoinsInv' /\ PaidStep
<1>1. UNCHANGED <<now, miner, peer_blocks>>
  BY HandleKeepsInv DEF peerVars
<1>2. /\ DOMAIN handler[h] = HandlerFields /\ DOMAIN handler = Handlers
      /\ HandlerInv(h) /\ HandlerLedgerInv(handler[h]) /\ HandlerCoins(handler[h])
  BY DEF NodeInv, LedgerInv, HandlersInv, HandlerInv, CoinsInv, ReadyCoins
<1>3. ASSUME \/ SameChain
             \/ \E b : /\ Chain!IsBlock(b) /\ Chain!add_block(b)
                       /\ Acceptable(b) /\ Legit(b),
             NEW s, handler' = [handler EXCEPT ![h] = s], HandlerCoins(s)
      PROVE  CoinsInv' /\ PaidStep
  BY <1>1, <1>3, OneHandlerCoins
<1>4. ASSUME NEW s, s.pc \notin {"add_block", "sync"}
      PROVE  HandlerCoins(s)
  BY <1>4 DEF HandlerCoins
<1>5. HandlerCoins(Idle)
  BY <1>4 DEF Idle
<1>6. CASE AddTx(h)
  <2>1. SameChain /\ handler' = [handler EXCEPT ![h] = Idle]
    BY <1>6 DEF AddTx, SameChain, chainVars
  <2>. QED BY <1>3, <1>5, <2>1
<1>7. CASE AddReceivedBlock(h)
  <2>1. /\ handler[h].pc = "add_block"
        /\ handler' = [handler EXCEPT ![h].pc = "remove", ![h].i = 1]
        /\ Chain!add_block(handler[h].data[1]) \/ SameChain
    BY <1>7 DEF AddReceivedBlock, AddBlock, Chain!add_block_rejected, Chain!chainVars,
       SameChain
  <2>2. /\ Chain!IsBlock(handler[h].data[1]) /\ Acceptable(handler[h].data[1])
        /\ Legit(handler[h].data[1])
    BY <1>2, <2>1 DEF HandlerInv, HandlerLedgerInv, HandlerCoins
  <2>. DEFINE s == [handler[h] EXCEPT !.pc = "remove", !.i = 1]
  <2>3. s.pc = "remove"
    BY <1>2 DEF HandlerFields
  <2>4. handler' = [handler EXCEPT ![h] = s]
    BY <1>2, <2>1
  <2>. HIDE DEF s
  <2>5. HandlerCoins(s)
    BY <1>4, <2>3
  <2>. QED BY <1>3, <2>1, <2>2, <2>4, <2>5
<1>8. CASE RemoveConfirmed(h)
  <2>1. /\ SameChain /\ handler[h].pc = "remove"
        /\ \/ handler' = [handler EXCEPT ![h].i = @ + 1]
           \/ handler' = [handler EXCEPT ![h] = Idle]
    BY <1>8 DEF RemoveConfirmed, SameChain, chainVars
  <2>2. CASE handler' = [handler EXCEPT ![h].i = @ + 1]
    <3>. DEFINE s == [handler[h] EXCEPT !.i = handler[h].i + 1]
    <3>1. s.pc = "remove"
      BY <1>2, <2>1 DEF HandlerFields
    <3>2. handler' = [handler EXCEPT ![h] = s]
      BY <1>2, <2>2
    <3>. HIDE DEF s
    <3>3. HandlerCoins(s)
      BY <1>4, <3>1
    <3>. QED BY <1>3, <2>1, <3>2, <3>3
  <2>3. CASE handler' = [handler EXCEPT ![h] = Idle]
    BY <1>3, <1>5, <2>1, <2>3
  <2>. QED BY <2>1, <2>2, <2>3
<1>9. CASE SyncAdd(h)
  <2>. DEFINE data == handler[h].data
              i    == handler[h].i
              more(done) == [handler[h] EXCEPT !.i = i + 1, !.added = done]
              last       == [handler[h] EXCEPT !.pc = "sync_save", !.added = TRUE]
              next(done) == IF i < Len(data) THEN more(done)
                            ELSE IF done THEN last ELSE Idle
  <2>1. /\ AddBlock(data[i],
                    handler' = [handler EXCEPT ![h] = next(TRUE)],
                    handler' = [handler EXCEPT ![h] = next(handler[h].added)])
        /\ handler[h].pc = "sync"
    BY <1>9 DEF SyncAdd
  <2>2. /\ Chain!add_block(data[i]) \/ SameChain
        /\ \E done : handler' = [handler EXCEPT ![h] = next(done)]
    <3>. HIDE DEF next
    <3>. QED BY <2>1 DEF AddBlock, Chain!add_block_rejected, Chain!chainVars, SameChain
  <2>3. /\ i \in 1..Len(data)
        /\ \A k \in 1..Len(data) : Chain!IsBlock(data[k])
        /\ \A k \in 1..Len(data) : Acceptable(data[k]) \/ Known(data[k])
        /\ \A k \in 1..Len(data) : Legit(data[k])
    BY <1>2, <2>1 DEF HandlerInv, HandlerLedgerInv, HandlerCoins
  <2>4. SameChain \/ (Chain!add_block(data[i]) /\ Acceptable(data[i]))
    <3>1. PICK b : b = data[i]
      OBVIOUS
    <3>2. Acceptable(b) \/ Known(b)
      BY <2>3, <3>1
    <3>3. ChainInv
      BY DEF NodeInv
    <3>4. Chain!add_block(b) => Acceptable(b)
      BY <3>2, <3>3, KnownRejected
    <3>. HIDE DEF data, i
    <3>. QED BY <2>2, <3>1, <3>4
  <2>5. ASSUME NEW done PROVE HandlerCoins(next(done))
    <3>1. CASE i < Len(data)
      <4>. DEFINE s == more(done)
      <4>1. s.pc = "sync" /\ s.data = data
        BY <1>2, <2>1 DEF HandlerFields
      <4>. HIDE DEF s
      <4>2. HandlerCoins(s)
        BY <2>3, <4>1 DEF HandlerCoins
      <4>. QED BY <3>1, <4>2 DEF s
    <3>2. HandlerCoins(last)
      <4>1. last.pc = "sync_save"
        BY <1>2 DEF HandlerFields
      <4>. HIDE DEF last
      <4>. QED BY <1>4, <4>1
    <3>. HIDE DEF more, last
    <3>. QED BY <1>5, <3>1, <3>2
  <2>6. PICK done : handler' = [handler EXCEPT ![h] = next(done)]
    BY <2>2
  <2>. HIDE DEF next
  <2>. QED BY <1>3, <2>3, <2>4, <2>5, <2>6
<1>10. CASE SyncSave(h)
  <2>1. SameChain /\ handler' = [handler EXCEPT ![h] = Idle]
    BY <1>10 DEF SyncSave, SameChain, Chain!save_to_disk
  <2>. QED BY <1>3, <1>5, <2>1
<1>. QED BY <1>6, <1>7, <1>8, <1>9, <1>10 DEF Handle

\* A peer mines a block that pays it.
LEMMA PeerKeepsCoins ==
    ASSUME NodeInv, LedgerInv, ClocksAgree, CoinsInv, PeerMine
    PROVE  CoinsInv' /\ PaidStep
<1>1. SameChain /\ UNCHANGED <<now, miner, handler>>
  BY DEF PeerMine, SameChain, chainVars
<1>2. PICK n \in Recent, time \in now..(now + Skew), txs \in Seq(Txs) :
        \E difficulty : \E b \in Minable(chain[n], txs, PeerKey, difficulty, time) :
          peer_blocks' = peer_blocks \cup {b}
  BY PeerBlock
<1>3. PICK difficulty, b :
        /\ b \in Minable(chain[n], txs, PeerKey, difficulty, time)
        /\ peer_blocks' = peer_blocks \cup {b}
  BY <1>2
<1>4. time \in Nat /\ StartKept
  <2>1. now \in Nat
    BY DEF NodeInv
  <2>. QED BY <1>2, <2>1 DEF CoinsInv, ChainCoins
<1>5. Legit(b)
  BY <1>2, <1>3, <1>4, MinablePays
<1>6. \A x \in peer_blocks' : Legit(x)
  BY <1>3, <1>5 DEF CoinsInv, ReadyCoins
<1>7. PaidStep /\ ChainCoins'
  BY <1>1, ChainCoinsKept DEF CoinsInv, PaidStep
<1>. QED BY <1>1, <1>6, <1>7 DEF CoinsInv, ReadyCoins, HandlerCoins

\* Every step keeps it.
LEMMA StepKeepsCoins ==
    ASSUME NodeInv, LedgerInv, ClocksAgree, CoinsInv, [NodeNext]_vars
    PROVE  CoinsInv' /\ PaidStep
<1>1. ASSUME UNCHANGED <<chain, utxo_set, miner, handler, peer_blocks>>
      PROVE  CoinsInv' /\ PaidStep
  BY <1>1 DEF CoinsInv, ChainCoins, StartKept, tip, SupplyAccounted, ReadyCoins, HandlerCoins,
              PaidStep, SameChain
<1>2. CASE UNCHANGED vars
  BY <1>1, <1>2 DEF vars, chainVars, peerVars
<1>3. CASE Tick
  BY <1>1, <1>3 DEF Tick, chainVars, peerVars
<1>4. CASE NodeNext
  BY <1>2, <1>3, <1>4, MinerKeepsCoins, ReceiveKeepsCoins, HandleKeepsCoins, PeerKeepsCoins
     DEF NodeNext, BoundReached
<1>. QED BY <1>2, <1>4

\* The chain file has it.
LEMMA InitialCoins == ASSUME NodeInit PROVE CoinsInv
<1>1. /\ chain = StartChain /\ utxo_set = Replay(StartChain) /\ miner.pc = "read"
      /\ \A h \in Handlers : handler[h].pc = "idle"
      /\ peer_blocks = {}
  BY DEF NodeInit, LoopTop, Idle
<1>2. StartKept /\ \A n \in DOMAIN chain : Legit(chain[n])
  BY <1>1 DEF StartKept, Legit
<1>3. \A n \in DOMAIN chain : chain[n].header.timestamp \in Nat
  BY <1>1, MoneyAssumption
<1>4. StartTime <= tip.header.timestamp
  BY <1>1, MoneyAssumption DEF tip, StartTime
<1>5. AmountsSound(utxo_set) /\ Supply(utxo_set) \in Nat
  BY <1>1, MoneyAssumption, SupplyNat
<1>6. (Len(StartChain) + 1)..Len(chain) = {}
  BY <1>1, StartLength
<1>7. SupplyAccounted
  <2>. DEFINE f == [n \in (Len(StartChain) + 1)..Len(chain) |-> Created(chain[n])]
  <2>1. CreatedSince(chain) = SumFunction(f) /\ DOMAIN f = {}
    BY <1>6 DEF CreatedSince
  <2>. HIDE DEF f
  <2>2. SumFunctionOnSet(f, {}) = 0
    BY WordAssumption, ChainP!SumEmpty, SameSums
  <2>3. CreatedSince(chain) = 0
    BY <2>1, <2>2 DEF SumFunction
  <2>. QED BY <1>1, <1>5, <2>3 DEF SupplyAccounted
<1>. QED BY <1>1, <1>2, <1>3, <1>4, <1>5, <1>6, <1>7
     DEF CoinsInv, ChainCoins, ReadyCoins, HandlerCoins

\* Whatever the threads do: each block on the chain has changed the supply once,
\* by what its transactions give and take.  A block that was rejected or came
\* twice has not, and no output replaced another one.
THEOREM SupplyAlwaysAccounted ==
    ASSUME ClocksAgree PROVE NodeSpec => []SupplyAccounted
<1>1. NodeInit => CoinsInv
  BY InitialCoins
<1>2. NodeInv /\ LedgerInv /\ CoinsInv /\ [NodeNext]_vars => CoinsInv'
  BY StepKeepsCoins
<1>3. CoinsInv => SupplyAccounted
  BY DEF CoinsInv, ChainCoins
<1>. QED BY <1>1, <1>2, <1>3, NodeInvariant, LedgerInvariant, PTL DEF NodeSpec

\* Fees move and change returns: the coins in circulation are those that were
\* paid as rewards, if the wallets' transactions are balanced (which the node
\* does not check), the peers mine by the same rules with clocks that agree
\* with ours, and no sum reaches the limit of uint64_t.
THEOREM SupplyAlwaysConserved ==
    ASSUME ClocksAgree, TransactionsBalanced
    PROVE  NodeSpec /\ []NothingWraps => []SupplyConserved
<1>1. NodeInit => CoinsInv /\ SupplyConserved
  BY InitialCoins, MoneyAssumption DEF NodeInit, SupplyConserved
<1>2. ASSUME NodeInv, LedgerInv, CoinsInv, SupplyConserved, NothingWraps', [NodeNext]_vars
      PROVE  CoinsInv' /\ SupplyConserved'
  <2>1. CoinsInv' /\ PaidStep
    BY <1>2, StepKeepsCoins
  <2>. QED BY <1>2, <2>1, SupplyKept DEF CoinsInv
<1>. QED BY <1>1, <1>2, NodeInvariant, LedgerInvariant, PTL DEF NodeSpec
=============================================================================
