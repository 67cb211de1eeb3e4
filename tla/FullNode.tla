------------------------------ MODULE FullNode ------------------------------
(***************************************************************************)
(* A process in run mode (run_mode of main.cpp): the mining loop of the    *)
(* main thread and one thread per peer connection that handles messages    *)
(* (handle_message of node.cpp), over one Blockchain and one Mempool.      *)
(*                                                                         *)
(* A step is one critical section: a call of a Blockchain or Mempool       *)
(* method.  Between two calls any other thread may run.  What a thread     *)
(* keeps between its calls is in miner and handler.                        *)
(*                                                                         *)
(* Peers run the same code on the same genesis block.  They relay          *)
(* transactions that wallets made and announce blocks that are valid on    *)
(* their own chain, which may differ from ours in its last block.          *)
(***************************************************************************)
EXTENDS Consensus, SequencesExt

CONSTANTS
    Txs,            \* the transactions that wallets send
    Handlers,       \* the peer connections
    MinerKey,       \* the key pair of this node's mining address
    PeerKey,        \* the key pair of the other miners' address
    StartChain,     \* the chain in the file when the process starts
    MessageTypes,   \* the messages that peers send
    MaxDeliveries,  \* how often peers send one transaction
    MaxPeerBlocks,  \* blocks that peers announce
    MaxBlocks,      \* length of the chain at which mining stops
    MaxTxsPerBlock, \* the limit passed to get_for_block (100)
    Skew            \* how far the peers' clocks may be ahead

ASSUME NodeAssumption ==
    /\ {MaxDeliveries, MaxPeerBlocks, MaxBlocks, MaxTxsPerBlock, Skew}
         \subseteq Nat
    /\ MessageTypes \subseteq {"tx", "block", "sync_response"}

VARIABLES
    chain, utxo_set, hash_index, applied, file,     \* class Blockchain
    transactions, spent_in_mempool,                 \* class Mempool
    now,            \* the clock
    miner,          \* the main thread
    handler,        \* the thread of each connection
    deliveries,     \* how often each transaction has been sent to us
    peer_blocks     \* the blocks that peers have announced

Chain == INSTANCE Blockchain WITH Offers <- {}, GenesisTimes <- {}
Pool  == INSTANCE Mempool

chainVars == <<chain, utxo_set, hash_index, applied, file>>
poolVars  == <<transactions, spent_in_mempool>>
peerVars  == <<deliveries, peer_blocks>>
vars      == <<chainVars, poolVars, now, miner, handler, peerVars>>

tip == chain[Len(chain)]

genesis_timestamp == chain[1].header.timestamp

Replay(c) == FoldLeft(Chain!apply_block_to_utxo_set, Chain!EmptyMap, c)

\* chain.add_block(b), and what happens then if it is accepted or rejected.
AddBlock(b, accepted, rejected) ==
    \/ Chain!add_block(b) /\ accepted
    \/ Chain!add_block_rejected(b) /\ rejected

-----------------------------------------------------------------------------
(* What the process starts with: the wallets' transactions, and a chain    *)
(* file that a node of the same kind has saved.                            *)

TxsOf(c)    == UNION {Chain!BlockTxs(c[n]) : n \in DOMAIN c}
TxHashes(c) == {tx.hash : tx \in TxsOf(c)}

\* Two transactions of chain c that spend outputs do not spend the same one.
SpentOnce(c) ==
    \A m, n \in DOMAIN c :
        \A s \in DOMAIN c[m].transactions, t \in DOMAIN c[n].transactions :
            LET a == c[m].transactions[s]
                b == c[n].transactions[t]
            IN  (<<m, s>> # <<n, t>> /\ ~is_coinbase(a) /\ ~is_coinbase(b))
                    => InputKeys(a) \cap InputKeys(b) = {}

\* The blocks of chain c have their fields, places and hashes.
BlocksSound(c) ==
    /\ c # <<>> /\ c \in Seq({c[n] : n \in DOMAIN c})
    /\ \A n \in DOMAIN c :
         /\ Chain!IsBlock(c[n])
         /\ c[n].header.index = n - 1
         /\ c[n].hash = block_calculate_hash(c[n])
    /\ \A tx \in TxsOf(c) : tx.hash = tx_calculate_hash(tx)

\* No coinbase of chain c is younger than its last block.
CoinbasesPast(c) ==
    /\ c[Len(c)].header.timestamp \in Nat
    /\ \A tx \in TxsOf(c) :
         is_coinbase(tx) => tx.timestamp \in 0..c[Len(c)].header.timestamp

\* u only has outputs of chain c, and none that the chain spends.
OutputsSound(c, u) ==
    /\ \A k \in DOMAIN u : k.tx_id \in TxHashes(c)
    /\ \A tx \in TxsOf(c) : ~is_coinbase(tx) =>
         \A k \in InputKeys(tx) : k \notin DOMAIN u /\ k.tx_id \in TxHashes(c)

ASSUME StartAssumption ==
    /\ BlocksSound(StartChain)
    /\ CoinbasesPast(StartChain)
    /\ OutputsSound(StartChain, Replay(StartChain))
    /\ SpentOnce(StartChain)
    /\ \A tx \in Txs : Chain!IsTransaction(tx) /\ ~is_coinbase(tx)

\* The coins in UTXO set u, and the rewards of the blocks of chain c, each for
\* a time delay seconds after its time stamp.
Supply(u) == SumFunction([k \in DOMAIN u |-> u[k].amount])
Issued(c, delay) ==
    SumFunction([n \in 2..Len(c) |->
        get_block_reward(c[1].header.timestamp, c[n].header.timestamp + delay)])

\* The amount of the output under key k, which the hash in k determines.
AmountOf(k) == k.tx_id.sha256d.outputs[k.output_index + 1].amount

\* The coins in the outputs that tx spends, and in those that it creates.
Taken(tx) == SumFunction([k \in InputKeys(tx) |-> AmountOf(k)])
Given(tx) == SumFunction([i \in DOMAIN tx.outputs |-> tx.outputs[i].amount])

\* Every wallet's transaction gives what it takes, less its fee.  That is a
\* hypothesis: nothing in validate_transaction or add_block compares the two,
\* a node relies on the wallets for it (WalletCli: PaymentExact).
TransactionsBalanced == \A tx \in Txs : Taken(tx) = Given(tx) + tx.fee

\* u is a finite map to the amounts that the keys determine.
AmountsSound(u) ==
    /\ IsFiniteSet(DOMAIN u)
    /\ \A k \in DOMAIN u : u[k].amount \in Nat /\ u[k].amount = AmountOf(k)

ASSUME MoneyAssumption ==
    /\ \A tx \in Txs : tx.fee \in Nat /\ \A i \in DOMAIN tx.outputs : tx.outputs[i].amount \in Nat
    /\ AmountsSound(Replay(StartChain))
    /\ Supply(Replay(StartChain)) \in Issued(StartChain, 0)..Issued(StartChain, 1)
    /\ \A n \in DOMAIN StartChain : StartChain[n].header.timestamp \in Nat
    /\ StartChain[1].header.timestamp <= StartChain[Len(StartChain)].header.timestamp

-----------------------------------------------------------------------------
(* The mining loop.                                                        *)

\* The top of the loop: its variables are out of scope.
LoopTop == [pc |-> "read", latest |-> <<>>, txs |-> <<>>, block |-> <<>>, i |-> 0]

\* Block latest = chain.get_latest_block();
MinerRead ==
    /\ miner.pc = "read"
    /\ Len(chain) < MaxBlocks
    /\ miner' = [miner EXCEPT !.pc = "check", !.latest = <<tip>>]
    /\ UNCHANGED <<chainVars, poolVars, now, handler, peerVars>>

\* if (!consensus.should_produce_block(...)) continue;
MinerCheck ==
    /\ miner.pc = "check"
    /\ miner' = IF should_produce_block(Pool!size, Pool!total_pending_value,
                                        miner.latest[1].header.timestamp, now)
                THEN [miner EXCEPT !.pc = "select"] ELSE LoopTop
    /\ UNCHANGED <<chainVars, poolVars, now, handler, peerVars>>

\* txs = mempool.get_for_block(100);
MinerSelect ==
    /\ miner.pc = "select"
    /\ \E txs \in Pool!get_for_block(MaxTxsPerBlock) :
         miner' = [miner EXCEPT !.pc = "mine", !.txs = txs]
    /\ UNCHANGED <<chainVars, poolVars, now, handler, peerVars>>

\* The blocks that a miner who starts at time can come up with.  mine_block
\* reads the clock for the header and again for the reward: a second may pass
\* in between.
Minable(previous, txs, key, difficulty, time) ==
    {mine_block(previous, txs, get_address(key), difficulty,
                get_block_reward(genesis_timestamp, paid), time) :
        paid \in {time, time + 1}}

\* Difficulty, reward and mine_block.  Time passes before the block is added.
MinerMine ==
    /\ miner.pc = "mine"
    /\ \E difficulty \in NextDifficulty(chain, miner.latest[1]) :
         \E b \in Minable(miner.latest[1], miner.txs, MinerKey, difficulty, now) :
           miner' = [LoopTop EXCEPT !.pc = "add", !.block = <<b>>]
    /\ UNCHANGED <<chainVars, poolVars, now, handler, peerVars>>

\* if (chain.add_block(*block)) ... else "Block rejected by chain!"
MinerAdd ==
    /\ miner.pc = "add"
    /\ AddBlock(miner.block[1],
                miner' = [miner EXCEPT !.pc = "save", !.i = 1],
                miner' = LoopTop)
    /\ UNCHANGED <<poolVars, now, handler, peerVars>>

\* Mutant: the file gets the chain up to the block that was mined.
SaveUpToMined ==
    /\ miner.pc = "save"
    /\ file' = [i \in 1..(miner.block[1].header.index + 1) |->
                  block_to_json(chain[i])]
    /\ miner' = [miner EXCEPT !.pc = "remove"]
    /\ UNCHANGED <<chain, utxo_set, hash_index, applied,
                   poolVars, now, handler, peerVars>>

\* chain.save_to_disk("bitvoid.chain");
MinerSave ==
    /\ miner.pc = "save"
    /\ Chain!save_to_disk
    /\ miner' = [miner EXCEPT !.pc = "remove"]
    /\ UNCHANGED <<poolVars, now, handler, peerVars>>

\* Mutant: the loop stops before the last transaction.
RemoveAllButLast ==
    /\ miner.pc = "remove"
    /\ IF miner.i < Len(miner.block[1].transactions)
       THEN /\ Pool!remove_transaction(miner.block[1].transactions[miner.i].hash)
            /\ miner' = [miner EXCEPT !.i = @ + 1]
       ELSE miner' = LoopTop /\ UNCHANGED poolVars
    /\ UNCHANGED <<chainVars, now, handler, peerVars>>

\* mempool.remove_transaction for each transaction of the block, then
\* node.broadcast_block and around the loop.
MinerRemove ==
    /\ miner.pc = "remove"
    /\ Pool!remove_transaction(miner.block[1].transactions[miner.i].hash)
    /\ miner' = IF miner.i < Len(miner.block[1].transactions)
                THEN [miner EXCEPT !.i = @ + 1] ELSE LoopTop
    /\ UNCHANGED <<chainVars, now, handler, peerVars>>

Miner ==
    \/ MinerRead \/ MinerCheck \/ MinerSelect \/ MinerMine
    \/ MinerAdd \/ MinerSave \/ MinerRemove

-----------------------------------------------------------------------------
(* The message handlers.                                                   *)

Idle == [pc |-> "idle", data |-> <<>>, i |-> 0, added |-> FALSE]

\* "tx": if (chain_.validate_transaction(tx)) ...
ReceiveTx(h) ==
    /\ "tx" \in MessageTypes
    /\ handler[h].pc = "idle"
    /\ \E tx \in Txs :
         /\ deliveries[tx.hash] < MaxDeliveries
         /\ deliveries' = [deliveries EXCEPT ![tx.hash] = @ + 1]
         /\ handler' = IF Chain!validate_transaction(utxo_set, tx)
                       THEN [handler EXCEPT ![h].pc = "add_tx", ![h].data = <<tx>>]
                       ELSE handler
    /\ UNCHANGED <<chainVars, poolVars, now, miner, peer_blocks>>

\* Mutant: the transaction is stored and its inputs are not recorded.
AddTxUnindexed(h) ==
    /\ handler[h].pc = "add_tx"
    /\ LET tx == handler[h].data[1]
       IN  transactions' = [x \in DOMAIN transactions \cup {tx.hash} |->
                              IF x = tx.hash THEN tx ELSE transactions[x]]
    /\ handler' = [handler EXCEPT ![h] = Idle]
    /\ UNCHANGED <<chainVars, spent_in_mempool, now, miner, peerVars>>

\* mempool_.add_transaction(tx), whose result is not looked at, and
\* broadcast_transaction(tx) (for which see Network).
AddTx(h) ==
    /\ handler[h].pc = "add_tx"
    /\ Pool!add_transaction(handler[h].data[1])
    /\ handler' = [handler EXCEPT ![h] = Idle]
    /\ UNCHANGED <<chainVars, now, miner, peerVars>>

\* "block": if (chain_.validate_block(block)) ...
ReceiveBlock(h) ==
    /\ "block" \in MessageTypes
    /\ handler[h].pc = "idle"
    /\ \E b \in peer_blocks :
         /\ Chain!validate_block(tip, b)
         /\ handler' = [handler EXCEPT ![h].pc = "add_block", ![h].data = <<b>>]
    /\ UNCHANGED <<chainVars, poolVars, now, miner, peerVars>>

\* chain_.add_block(block), whose result is not looked at.
AddReceivedBlock(h) ==
    /\ handler[h].pc = "add_block"
    /\ AddBlock(handler[h].data[1], TRUE, TRUE)
    /\ handler' = [handler EXCEPT ![h].pc = "remove", ![h].i = 1]
    /\ UNCHANGED <<poolVars, now, miner, peerVars>>

\* mempool_.remove_transaction for each transaction, then broadcast_block.
RemoveConfirmed(h) ==
    /\ handler[h].pc = "remove"
    /\ LET b == handler[h].data[1]
       IN  /\ Pool!remove_transaction(b.transactions[handler[h].i].hash)
           /\ handler' = IF handler[h].i < Len(b.transactions)
                         THEN [handler EXCEPT ![h].i = @ + 1]
                         ELSE [handler EXCEPT ![h] = Idle]
    /\ UNCHANGED <<chainVars, now, miner, peerVars>>

\* "sync_response": what a peer whose chain ends with b answered to our
\* sync_request, the blocks from our height at the time we asked to its last.
ReceiveSync(h) ==
    /\ "sync_response" \in MessageTypes
    /\ handler[h].pc = "idle"
    /\ \E b \in peer_blocks : \E from \in 0..b.header.index :
         /\ from + 1 >= Len(StartChain)
         /\ handler' = [handler EXCEPT
              ![h].pc = "sync",
              ![h].data = Chain!get_blocks(
                            Append(SubSeq(chain, 1, b.header.index), b), from),
              ![h].i = 1]
    /\ UNCHANGED <<chainVars, poolVars, now, miner, peerVars>>

\* if (chain_.add_block(block)) added++; for one block of the response.
SyncAdd(h) ==
    /\ handler[h].pc = "sync"
    /\ LET s          == handler[h]
           next(done) == IF s.i < Len(s.data)
                         THEN [s EXCEPT !.i = @ + 1, !.added = done]
                         ELSE IF done THEN [s EXCEPT !.pc = "sync_save", !.added = TRUE]
                                      ELSE Idle
       IN  AddBlock(s.data[s.i],
                    handler' = [handler EXCEPT ![h] = next(TRUE)],
                    handler' = [handler EXCEPT ![h] = next(s.added)])
    /\ UNCHANGED <<poolVars, now, miner, peerVars>>

\* if (added > 0) chain_.save_to_disk("bitvoid.chain");
SyncSave(h) ==
    /\ handler[h].pc = "sync_save"
    /\ Chain!save_to_disk
    /\ handler' = [handler EXCEPT ![h] = Idle]
    /\ UNCHANGED <<poolVars, now, miner, peerVars>>

Receive(h) == ReceiveTx(h) \/ ReceiveBlock(h) \/ ReceiveSync(h)

Handle(h) ==
    \/ AddTx(h) \/ AddReceivedBlock(h) \/ RemoveConfirmed(h)
    \/ SyncAdd(h) \/ SyncSave(h)

-----------------------------------------------------------------------------
(* The environment.                                                        *)

\* Transactions that a peer can have in a block on chain c: at most one of
\* the wallets', which its own chain accepts.
PeerTxs(c) ==
    {<<>>} \cup {<<tx>> : tx \in {t \in Txs : Chain!validate_transaction(Replay(c), t)}}

\* A peer whose chain ends with our last block, or with the one before it,
\* mines a block there and announces it.
PeerMine ==
    /\ Cardinality(peer_blocks) < MaxPeerBlocks
    /\ \E n \in {Len(chain) - 1, Len(chain)} \cap (Len(StartChain)..(MaxBlocks - 1)) :
         LET c == SubSeq(chain, 1, n)
         IN  \E time \in now..(now + Skew) :
               /\ Minus(time, chain[n].header.timestamp) >= min_block_gap_sec
               /\ \E txs \in PeerTxs(c), difficulty \in NextDifficulty(c, chain[n]) :
                    \E b \in Minable(chain[n], txs, PeerKey, difficulty, time) :
                      peer_blocks' = peer_blocks \cup {b}
    /\ UNCHANGED <<chainVars, poolVars, now, miner, handler, deliveries>>

\* A second passes.  The clock stops where more time changes nothing: once
\* the safety floor is reached.
Tick ==
    /\ now < tip.header.timestamp + max_block_gap_sec
    /\ now' = now + 1
    /\ UNCHANGED <<chainVars, poolVars, miner, handler, peerVars>>

\* The chain has the length at which the model stops mining.
BoundReached ==
    /\ Len(chain) >= MaxBlocks
    /\ miner.pc = "read"
    /\ UNCHANGED vars

-----------------------------------------------------------------------------
(* Specification.  The process has loaded its chain file.                  *)

NodeInit ==
    /\ chain = StartChain
    /\ utxo_set = Replay(StartChain)
    /\ hash_index = [h \in {StartChain[i].hash : i \in DOMAIN StartChain} |->
                       (CHOOSE i \in DOMAIN StartChain : StartChain[i].hash = h) - 1]
    /\ applied = Len(StartChain)
    /\ file = [i \in DOMAIN StartChain |-> block_to_json(StartChain[i])]
    /\ Pool!PoolInit
    /\ now = StartChain[Len(StartChain)].header.timestamp
    /\ miner = LoopTop
    /\ handler = [h \in Handlers |-> Idle]
    /\ deliveries = [x \in {tx.hash : tx \in Txs} |-> 0]
    /\ peer_blocks = {}

NodeNext ==
    \/ Miner
    \/ \E h \in Handlers : Receive(h) \/ Handle(h)
    \/ PeerMine
    \/ Tick
    \/ BoundReached

NodeSpec == NodeInit /\ [][NodeNext]_vars

\* Threads that can run do run, and time passes.  Peers need not send.
FairNodeSpec ==
    /\ NodeSpec
    /\ WF_vars(Miner)
    /\ \A h \in Handlers : WF_vars(Handle(h))
    /\ WF_vars(Tick)

-----------------------------------------------------------------------------
(* Properties.                                                             *)

\* What the main thread keeps between two calls: the block it has read is one
\* of the chain, if not the last one, and its removal loop stays in its block.
MinerTypeOK ==
    /\ miner.pc \in {"read", "check", "select", "mine", "add", "save", "remove"}
    /\ miner.pc \in {"check", "select", "mine"} =>
         \E n \in Len(StartChain)..Len(chain) : miner.latest[1] = chain[n]
    /\ miner.pc = "mine" => miner.txs \in Seq(Txs)
    /\ miner.pc \in {"add", "save", "remove"} => Chain!IsBlock(miner.block[1])
    /\ miner.pc = "remove" => miner.i \in DOMAIN miner.block[1].transactions

\* What the thread of connection h keeps: the message it handles is what its
\* type says, and its loops stay in it.
HandlerTypeOK(h) ==
    LET s == handler[h]
    IN  /\ s.pc \in {"idle", "add_tx", "add_block", "remove", "sync", "sync_save"}
        /\ s.pc = "add_tx" => s.data[1] \in Txs
        /\ s.pc \in {"add_block", "remove"} => Chain!IsBlock(s.data[1])
        /\ s.pc = "remove" => s.i \in DOMAIN s.data[1].transactions
        /\ s.pc = "sync" =>
             s.i \in 1..Len(s.data) /\ \A k \in 1..Len(s.data) : Chain!IsBlock(s.data[k])

\* Type invariant.
NodeTypeOK ==
    /\ \A h \in DOMAIN transactions :
         transactions[h] \in Txs /\ transactions[h].hash = h
    /\ applied = Len(chain)
    /\ MinerTypeOK
    /\ \A h \in Handlers : HandlerTypeOK(h)
    /\ now \in Nat

\* No output is spent twice on the chain, by two blocks or within one.
\* add_block checks the transactions of a block against the UTXO set from
\* before the block, one by one; that they do not conflict with each other
\* rests on the mempool they were selected from.
NoDoubleSpend == SpentOnce(chain)

\* The coins in circulation are the block rewards paid so far: fees move,
\* change returns, and no coinbase overwrites another's output.  Each block
\* pays the reward of its time stamp or, mined across the end of a year, that
\* of the second after it.
SupplyConserved == Supply(utxo_set) \in Issued(chain, 0)..Issued(chain, 1)

\* Whoever saves last, miner or handler, the file holds a prefix of the
\* chain.
SavedIsPrefix ==
    /\ Len(file) <= Len(chain)
    /\ \A i \in DOMAIN file : block_from_json(file[i]) = chain[i]

\* No save takes back what an earlier one wrote.
SavedNeverShrinks == [][Len(file') >= Len(file)]_vars

\* Blocks on the chain are at least the minimum gap apart, although the
\* miner compares the clock with a block that need not be the last one any
\* more ("Minimum 3-second block gap prevents rapid-fire blocks").
MinGapKept ==
    \A n \in Len(StartChain)..(Len(chain) - 1) :
        chain[n+1].header.timestamp >= chain[n].header.timestamp + min_block_gap_sec

\* What the threads do to the mempool between them, the mempool's own
\* specification allows: its theorems hold inside the node.
PoolRefined == Pool!PoolSpec

\* tx is in a block of the chain.
Confirmed(tx) == \E n \in DOMAIN chain : tx \in Chain!BlockTxs(chain[n])

\* The chain keeps growing ("60-second timeout - safety floor prevents chain
\* stall").
NoStall ==
    \A n \in Len(StartChain)..(MaxBlocks - 1) : Len(chain) = n ~> Len(chain) > n

\* A transaction that is pending when two blocks are still to be mined is in
\* one of them ("Confirmation time | 6-9 seconds (2 blocks)"): the first may
\* have been assembled before it came, the second takes it.
ConfirmedWithinTwoBlocks ==
    \A tx \in Txs :
        (tx.hash \in DOMAIN transactions /\ Len(chain) <= MaxBlocks - 2)
            ~> Confirmed(tx)
=============================================================================
