# BitVoid in TLA+

A verification development for BitVoid (BTVD), a proof-of-work ledger written in
C++: TLA+ modules of its core, TLC configurations that check them on small
instances, and TLAPS proofs for every size. Paths such as `node.cpp` are under
`src/src/`; documents under `src/docs/`.

## 1. Inventory

| Component | Source | State | Operations | Interacts with |
|---|---|---|---|---|
| Ledger data | `transaction.*`, `block.*`, `sha256.*` | none | hashing, serialisation, Merkle root, structure checks, JSON | used by all |
| Wallet | `wallet.*` | a key pair and its file | `generate_keys`, `create_transaction`, `sign`, `verify`, `save`, `load` | UTXOs of the chain |
| Blockchain | `blockchain.*` | `chain_`, `utxo_set_`, `hash_index_`, the chain file; one mutex | `init`, `add_block`, `validate_*`, `save_to_disk`, `load_from_disk`, lookups | miner, handlers, API |
| Mempool | `mempool.*` | `transactions_`, `spent_in_mempool_`; one mutex | `add_transaction`, `remove_transaction`, `clear`, `get_for_block`, sizes | miner, handlers, API |
| ConsensusEngine | `consensus.*` | parameters | `should_produce_block`, `calculate_difficulty`, `get_block_reward`, `mine_block` | clock, mempool |
| Full node | `run_mode` in `main.cpp`, `handle_message` in `node.cpp` | local variables of the mining loop and of one thread per connection | the loop; the handlers of `tx`, `block`, `sync_response` | chain, pool, peers |
| Networking | `node.*` | `peers_`, `running_`, sockets; one mutex | connect, accept, relay, discovery, stop | peers |
| Modes | `main.cpp` | `bitvoid.chain` shared by all modes | mine, node, run, wallet, status, explorer | Blockchain |
| Explorer API, HTTP server | `api.*`, `httpserver.*` | none of their own | read-only queries, a thread per request | chain, pool |
| Web pages, scripts | `src/web`, `src/scripts` | none | presentation, launching | API |

What is hard here, and what makes each part correct:

- **Check, then act, in two critical sections.** A handler validates a
  transaction or a block in one and acts on it in the next; the miner builds on
  a block it read four calls earlier. Correct: what the code then does
  (removing, relaying, adding to the pool) is still justified.
- **Two representations of one fact.** `utxo_set_` against the blocks,
  `hash_index_` against positions, `spent_in_mempool_` against the pending
  transactions, the file against the chain. Correct: they never part, on any
  sequence of operations, restarts included.
- **Division of labour.** `add_block` does not look for conflicts between the
  transactions of one block; the mempool must never hand out any.
- **Liveness.** The chain keeps growing and pending transactions are confirmed,
  although nothing evicts a transaction that has become invalid.
- **Unsigned time.** Differences of time stamps wrap; clocks of peers differ;
  the reward depends on a second reading of the clock.
- **Crashes.** The chain file is rewritten in place and trusted when read; a
  mined block is saved before peers hear of it.
- **One file, several processes.** Every mode of `main.cpp` opens
  `bitvoid.chain`, none locks it, one does not read it before it writes it.
- **A network without repair.** Blocks are gossiped once and asked for only on
  connect. Whether nodes end up with the same chain depends on the order in
  which threads send, on when connections were made, and on room in sockets
  that are written to under a mutex.
- **Threads that nobody waits for.** Connections are served by detached
  threads; `stop` must return, close every socket once, and leave nobody behind.
- **Keys that are not kept.** What a user can spend depends on which commands
  saved a key, and in which order they were given.

`PROJECT.json` lists each of these at the line where it bites ("hazards").

## 2. Modules

| Module | Models | Notes |
|---|---|---|
| `Ledger` | the functions on transactions, blocks and keys, `mine_block` | no state |
| `Blockchain` | class `Blockchain` and the chain file | one action per method that changes state |
| `Mempool` | class `Mempool` | one action per method that changes state |
| `Consensus` | `ConsensusEngine`, `ConsensusParams` | no state; parameters are constants |
| `FullNode` | a process in run mode | composes the other four: `Chain == INSTANCE Blockchain`, `Pool == INSTANCE Mempool` |
| `ChainFile` | the processes of one user over `bitvoid.chain` | chains are sequences of block numbers |
| `Network` | several nodes, their connections and threads | blocks are the chains they end |
| `PeerTable` | class `Node` without its messages: sockets, threads, `peers_`, `stop` | |
| `Retarget` | the difficulty along a growing chain | uses `Consensus` |
| `WalletCli` | the commands of one user, key file and chain file | uses `Ledger`, and `Blockchain` for the UTXO set |
| `Explorer` | `explorer_mode`, `ExplorerApi`, `HttpServer` | extends `Blockchain` |
| `BlockchainProofs`, `MempoolProofs`, `PeerTableProofs`, `FullNodeProofs`, `ChainFileProofs`, `NetworkProofs`, `ExplorerProofs` | theorems about the module of that name | |
| `EconomyProofs` | theorems about `Retarget` and `WalletCli` | |
| `MC...` | constants for TLC, one module per component | |

Operators that end up in a mutation test of a property (each is introduced by
"Mutant:") stand before the definition that they vary and are used nowhere else.

**Ledger.** Cryptography is symbolic: a hash is a record of what was hashed, an
address a record of the public key, a signature a record of the data and the
key (ML-DSA-65 in the code). Hashes are therefore injective on the *fields*; the
code concatenates the fields without separators, which the model does not show.
Of a nonce the model keeps the number of zero bits it gives its block's hash, so
that the nonce search is one step, and `meets_difficulty` a comparison. The
energy fields of a header are neither hashed nor checked and are left out. JSON
of blocks is modelled as the flat object the code writes, JSON of transactions
field by field. Amounts wrap at `Word`.

**Blockchain.** `chain`, `utxo_set`, `hash_index` and `file` are the members and
the file. Public methods hold `mutex_` and are atomic, but the loop of
`rebuild_utxo_set` is taken one block at a time, so that a process may end in
the middle of a load; `applied` is the loop's counter, and while it is behind
the chain's length the mutex is held and nothing else happens. `add_block` has
two actions: accepted and rejected. `Restart` ends the process and keeps the
file. `ChainSpec` follows the modes of `main.cpp`, which always load or
initialise before they add, so that the branch of `add_block` for an empty
chain, which takes any block, is not reached.

**Mempool.** A function from hashes to transactions and a set of output keys.
`get_for_block` is the *set* of its possible results: `std::sort` leaves equal
fees in any order.

**Consensus.** `uint64_t` differences wrap at `Word`, the sum in
`calculate_difficulty` at `Word32`. Ratios of doubles are exact fractions. A
deviation that a `uint32_t` cannot hold is undefined behaviour when converted:
the result is then any fall, and `calculate_difficulty` a set of results.

**FullNode.** `miner` and `handler[h]` hold what a thread keeps between calls:
where it is (`pc`), the block it read (`latest`), the selected transactions, the
block it mined or received and the index of its removal loop. A step is one
critical section of the chain or the pool:

| Action | Code |
|---|---|
| `MinerRead`, `MinerCheck`, `MinerSelect`, `MinerMine`, `MinerAdd`, `MinerSave`, `MinerRemove` | the loop of `run_mode`, call by call |
| `ReceiveTx`, `AddTx` | `"tx"`: `validate_transaction`, then `add_transaction` and relay |
| `ReceiveBlock`, `AddReceivedBlock`, `RemoveConfirmed` | `"block"`: `validate_block`, `add_block` (result ignored), one `remove_transaction` per step, relay |
| `ReceiveSync`, `SyncAdd`, `SyncSave` | `"sync_response"`: one `add_block` per step, then `save_to_disk` |
| `PeerMine` | a peer in run mode whose chain ends with our last block or the one before it announces a block |
| `Tick` | the clock |
| `BoundReached` | the model's bound on the chain's length |

Simplifications: the pool's size and value, read one after the other by
`should_produce_block`, are read in one step (they only decide when to mine);
the block index reads for the difficulty are one step (the chain only grows);
relaying, which is the subject of `Network`, goes with the last local step
before it and is not recorded; `mine_block` reads the clock
twice, at most a second apart. Messages that fail validation change nothing and
are not sent in the model; malformed ones raise an exception that
`handle_message` catches. `sync_request` and `peer_list` do not change chain or
pool (see `Network` and `PeerTable`).

**ChainFile.** A process is off or runs in a mode, with the chain it has in
memory. `StartLoaded` and `StartFresh` are the two ways a mode begins; `Mine`,
`Receive` and `Sync` extend the chain and say whether a save follows; `Announce`
is `broadcast_block`, after the save; `End` is the signal. A save has two steps,
`SaveOpen` (the `ofstream` truncates the file) and `SaveClose`; `Kill` may come
between any two steps. A torn file does not parse, `load_from_disk` throws, and
the process ends: no start action is enabled. `saved` and `announced` remember
what was written last as a whole and what peers have been told. Threads inside
a process are the subject of `FullNode`.

**Network.** A thread per connection and a mining thread at each node; a socket
buffers `Capacity` messages each way and `send` blocks when it is full. The
variable `net` is the deployment, chosen in the first state from `Deployments`
and never changed: who is connected to whom, who mines, which chains the nodes
loaded, which transactions clients send, how much a socket buffers.
`SendToAllLock`, `SendToAllNext` and `SendToAllUnlock` are `send_to_all`, one
`send` per step under `peers_mutex_`. `AddPeer`, `RequestSync`, `SendToPeer`,
`SendPeerList` and `PeerListSent` are the beginning of `handle_peer_connection`;
the list is sent under `peers_mutex_` too. `Receive...` are the branches of
`handle_message`; what they do to chain and pool is one step here. As a hash
covers all that came before, a block *is* the chain that it ends, and
`validate_block` is a comparison of chains. Every transaction is valid until it
is confirmed. A peer list takes room in its socket and is read; what its receiver
then does is left to `PeerTable`. No code sends `get_height`,
so that its handler and that of `height` cannot be reached between nodes of
this program; they are left out.

**PeerTable.** `running`, `peers`, the holder of `peers_mutex_` (`lock`) and one
record per socket: where its thread is, the address under which it is recorded,
and what the messages it has received have left to do (`todo`). Of a message
only that is kept: addresses to look up, a broadcast to relay, an answer to
send. Which messages lead to it is the subject of `FullNode` and `Network`.

| Action | Code |
|---|---|
| `Accept`, `ServerEnds` | `server_loop` |
| `AddPeer`, `SyncSent`, `SendPeerList`, `PeerListSent` | `handle_peer_connection` up to its loop |
| `LoopTop`, `Receive`, `Disconnected`, `RemovePeer` | its loop, and the end |
| `Relay`, `Relayed`, `Answered` | `send_to_all` and `send_to_peer` in the thread of a connection |
| `Lookup`, `Connect`, `ConnectFails` | `connect_to_known_peers`, one address at a time |
| `ConnectFirst`, `Broadcast`, `BroadcastLock`, `BroadcastSent` | the main thread of run mode before the signal |
| `StopFlag`, `StopJoin`, `StopClose` | `stop` |

A send is two steps: the thread is in it, and it has returned. In between,
`send_to_all` and `send_peer_list` hold the mutex, on which every other user of
the table waits, `stop` included. How long a send takes is up to the peer, so
that the second step is one of the peer's (`Peer`). All messages that one `recv`
completes are handled before `running_` is looked at again. `closes` counts how
often a socket was closed. `close` does not wake a thread that waits in `recv`;
it stays until its peer sends or disconnects. Descriptors are not reused in the
model: the code's `close` in `stop`, followed by a new socket with the same
number, is not shown.

**Retarget.** A chain of headers (time stamp and difficulty) that grows by
blocks mined at `NextDifficulty`, with the gaps of a constant set.

**WalletCli.** Each command runs to its end. A new key pair is fresh; `shown`
are the addresses the user was told are his. `--send` takes the UTXOs in any
order, as `unordered_map` gives them. `Confirm` is a block of somebody else with
a printed payment. Amounts are whole base units of at least 1 (the code parses
a double).

**Explorer.** A request is the sequence of the words between its spaces, and
`Recv` may return only the first of them, as TCP may deliver a request in
pieces. Bodies are records. The
mempool of this process is created empty and nothing enters it, so that its
size is 0 and its search is left out.

## 3. Runs

| Run | Question | Result |
|---|---|---|
| `blockchain` | Do UTXO set, hash index, links and recorded spends stay right over forks, defective blocks, saves, restarts and interrupted loads? | holds |
| `mempool` | Under overlapping conflicts, does the pool refuse conflicts and duplicates and nothing else, and is the selection the best one? | yes |
| `node_relay` | Miner and two connections that bring a transaction, a peer's block and sync responses, interleaved at every critical section: no double spend, supply equals rewards, minimum gap, the file a prefix of the chain that never shrinks, pool refines `PoolSpec`? | holds |
| `node_progress` | Does the chain keep growing, and is a pending transaction in one of the next two blocks, when each transaction comes once and nobody else mines? | yes |
| `chain_file` | One writer, readers beside it, kills at any time: does a save take back saved blocks, or a restart announced ones? | no |
| `network` | Three deployments (below): do broadcasts and peer lists exclude each other, does everybody follow the miner, do all chains become equal, does the traffic die out? | yes |
| `peer_table` | In any order of connects, disconnects, discovery and stop: is every socket closed exactly once, does the table hold only open ones? If sends return, does `stop`, and are all sockets closed for good in the end? | yes |
| `retarget` | Does the difficulty keep to its floor and follow the pace of the blocks, also after time stamps that went back? | yes |
| `wallet` | Does a payment take what it gives, and does it stay acceptable until its inputs are spent? | yes |
| `explorer` | Does each endpoint say what the recorded blocks say, does the write-back leave the file as it was, does `stop` return, is a request answered? | yes |
| `node_stall` | "safety floor prevents chain stall", a transaction delivered twice | violated |
| `net_storm` | "Received transactions are validated and relayed to all other peers", a transaction in a triangle of nodes | violated |

`PoolRefined` in `node_relay` is a refinement: the node's threads together
implement the mempool's specification, so that the theorems about it hold in
the node.

The deployments of `network`: *Gossip*, one miner in a triangle of nodes, so
that a block comes back on another way; *Join*, two nodes that connect to one
which is two blocks ahead, while nobody mines; *Payments*, two nodes that relay
two transactions back and forth while one of them mines. `Converges` and
`TrafficEnds` make an exception for behaviours in which a transaction is never
confirmed everywhere, as happens after the miner has stopped at its bound: its
copies then go round for ever (`node.cpp:253`).

What the violated runs show:

- `node_stall`: the second copy of a transaction is validated before the block
  that confirms the first, and added after the miner removed the block's
  transactions. It can never be valid again, nothing evicts it, and it is
  selected for every further block, each of which `add_block` rejects.
- `net_storm`: each of three nodes has a thread in the middle of a broadcast. It
  holds its node's `peers_mutex_` and waits for room in a socket whose reader is
  such a thread itself, or waits for that mutex. No thread can go on.

### Divergences met while modelling

The models show these too, in other instances or with other formulas than those
of the runs. Each is at odds with the line that is quoted.

- `blockchain.cpp:34`: on an empty chain `add_block` takes any block ("First
  block must be genesis."). The modes never get there.
- `node.cpp:292`: `sync_response` does not remove confirmed transactions from the
  pool, with the consequence of `node_stall`: `NoStall` fails in the instance of
  `node_progress` with one connection, `MessageTypes` {"tx", "sync_response"}
  and `MaxPeerBlocks` = 1.
- `node.cpp:261`, `node.cpp:270`: the chain may grow between `validate_block` and
  `add_block`; the handler ignores the rejection, removes the block's
  transactions from the pool ("Remove confirmed transactions from mempool.",
  `node.cpp:264`) and relays the block ("Invalid transactions/blocks are
  rejected and not relayed", `TECHNICAL_SPEC.md:364`).
- `consensus.cpp:46`: when the last block's time stamp is ahead of the clock the
  unsigned difference wraps and the safety floor fires at once ("Minimum
  3-second block gap", `TECHNICAL_SPEC.md:214`): `MinGapKept` fails in the
  instance of `node_relay` with `Skew` = 1.
- `main.cpp:155`, `main.cpp:422`, `blockchain.cpp:225`: the three ways in which
  the file loses blocks. `node_mode` does not load it ("On startup, rebuilds
  UTXO set from all blocks", `TECHNICAL_SPEC.md:401`); an explorer beside a
  miner writes back what it read; a kill between truncation and write leaves a
  file with which no mode starts that loads. `SavedOnlyGrows` fails in
  `ChainFile` with modes {"run", "node"}, and with a miner and an explorer.
- `node.cpp:277`, `node.cpp:293`: "On connect, a sync request is sent to get any
  missing blocks" (`TECHNICAL_SPEC.md:358`). A block that is mined between the
  request and the answer overtakes the answer and is rejected; synced blocks are
  not relayed to nodes that connected before. `Converges` fails for a pair of
  which one mines and which is not yet connected, and for a line of three.
- `node.cpp:270`: two connection threads of a node add blocks 1 and 2 and
  broadcast 2 before 1. In a triangle others bring the missing one; a fourth
  node that is connected to this one only stays behind.
- `node.cpp:105`, `main.cpp:155`: nothing chooses between chains, and a sync
  starts at the own height: two miners at one height, or a node with its own
  genesis block ("syncs chain, validates blocks", `PROJECT.md:228`), never
  agree.
- `node.cpp:127`: "already-connected peers are skipped"
  (`TECHNICAL_SPEC.md:357`). A peer that connected to us is recorded under its
  ephemeral port, so that its listening address looks new; two lookups before
  either connection is recorded have the same effect.
- `node.cpp:48`, `httpserver.cpp:96`: `stop` does not wait for detached threads,
  which refer to objects on the stack of the mode that is about to return
  ("Node stopped.", "HTTP server stopped.").
- `node.cpp:55`: `stop` takes `peers_mutex_`, which threads hold while they send
  (`node.cpp:101`, `node.cpp:124`). A peer that does not read, or the circle of
  `net_storm`, keeps it from returning ("Node stopped."): without its hypothesis
  `SendsReturn`, `StopFreesSockets` fails in the instance of `peer_table`.
- `main.cpp:246`: "Last 1,000 blocks" (`TECHNICAL_SPEC.md:162`). The loop ends one
  block early; the last gap counts one block later.
- `consensus.cpp:73`: "If blocks come too fast → increase difficulty"
  (`PROJECT.md:68`). When the time stamps of the window go back the span wraps,
  and the difficulty falls.
- `wallet.cpp:150`: "to cover `amount + fee`" (`TECHNICAL_SPEC.md:287`); the sum
  wraps. `main.cpp:291`: `wallet --new` overwrites a key ("You need it to spend
  your BTVD."). `main.cpp:69`: the key of a generated mining address is never
  saved. `main.cpp:344`: two payments before the first is confirmed spend the
  same outputs.
- `httpserver.cpp:106`: one `recv` per request; one that is cut within the target
  gets no answer. `httpserver.cpp:119`: "Bad Request" is text ("All responses
  are JSON.", `TECHNICAL_SPEC.md:390`). `httpserver.cpp:71`: a failure to bind
  comes after "HTTP server started on port".

### Bounds

- `blockchain`: three blocks above the genesis block (`Depth`), all forks that
  two wallets and one mining address make of them, and each block with one
  defect of each kind. Three is what a spend of change on top of a spend needs.
  Two genesis times, so that a restarted process can start another chain.
- `mempool`: ten transactions over five outputs, some with two inputs, so that
  conflicts overlap without being transitive; equal and different fees.
- `FullNode` runs: a start chain with two coins and two more blocks
  (`MaxBlocks` = 5): enough for a block that overtakes one in the making and
  another one after it. One or two transactions, one or two connections, one
  peer block, one or two deliveries of a transaction. Rival transactions are in
  `mempool`; within the node a transaction rivals its own copy in a peer's
  block. Clocks agree (`Skew` = 0). The rules of a step do not
  depend on the number of blocks. The gaps are 1 and 2 seconds instead of 3 and
  60, and a year has 4 seconds, so that the reward rises during a run. The clock
  stops at the safety floor, after which more time changes nothing. `Word` =
  1024 is above every amount and far below a wrapped difference. Difficulty
  rises from the start chain's blocks on. Connections are interchangeable in
  `node_relay`, which uses symmetry.
- `chain_file`: one writer (run, mine or explorer, one after another), a reader
  beside it, five blocks, and kills at any step: enough to start, save, be
  killed, start again and save on top.
- `network`, `net_storm`: two or three nodes in the smallest shape that has the
  case. A socket buffers one or two messages, which stands for any buffer: enough
  copies fill each. It is two in *Join*, where both ends of a new connection send
  a request and a list before they read: two such messages fit any real buffer.
  Miners stop at `MaxLen` = 3, two blocks under way at once.
- `peer_table`: three sockets, one other host and its two addresses, and our own;
  one task after one `recv`, so that a thread may take up task after task. With
  two sockets and two tasks (`MaxList` = 2) the properties hold as well.
- `retarget`: gaps on both sides of both thresholds and one below zero, windows
  of three instead of 1000 blocks, eight blocks: longer than the window by more
  than the window.
- `wallet`: two key pairs (symmetry), amounts that need one coin, one coin
  exactly with the fee, two, and one that wraps with the fee; `Word` = 64.
- `explorer`: all chains of the block world of `blockchain`, every block, hash,
  transaction and address in them, limits from 0 to beyond chain and maximum;
  one connection, since connections share nothing that changes.
- The runs of these modules do not check deadlock: a process may end, a miner
  stops at the bound, and the user may stop giving commands.
- In `node_relay` deadlock is checked; the bound on the chain's length is a
  stuttering step and not a deadlock.

### Fairness

`FairNodeSpec` assumes weak fairness of the mining thread, of each handler that
is in the middle of a message, and of the clock: the operating system schedules
runnable threads, every mutex is held for a bounded time, and at the
difficulties of the runs the nonce search ends. Nothing is assumed of peers:
they need not send anything.

`FairNetSpec` assumes weak fairness of each thread's next step and of mining. A
thread that waits for a mutex or for room in a socket is not enabled, so that
nothing is assumed of it: circular waiting remains possible. Weak fairness for
the mutex is what `std::mutex` gives as long as its holder lets go. Clients need
not send.

`FairPeerSpec` assumes that the accepting thread sees the flag, that `stop`,
once called, goes on when it can, and the same of each connection thread's own
steps (`Handle`); `connect` returns or fails some day, as the kernel gives up.
Nothing is assumed of peers, which need neither send nor read. A thread that
waits for the mutex is not enabled while another one holds it. That every send
returns is the hypothesis `SendsReturn` of `StopFreesSockets` and no fairness:
nothing in the code guarantees it.
`FairExplorerSpec` assumes only that threads run.

## 4. Proofs

`tlapm` proves for every set of blocks offered, every set of transactions, every
set of sockets, hosts, nodes, connections and processes, and every number of
steps, what follows. A theorem about a component is reached in the same way
each time: the property is not inductive, a larger invariant is, and the cited
module names the parts that are added to it.

- `MempoolProofs`: `PoolSpec => []PoolInv`, and from it `PoolTypeOK`,
  `PoolConflictFree`, `SpentIndexExact` and `RefusesOnlyConflicts`. `PoolInv` is
  the conjunction of types, absence of conflicts and exactness of the index.
  Neither of the last two is inductive alone: `add_transaction` keeps the pool
  free of conflicts because the index is exact, and `remove_transaction` keeps
  the index exact, although it erases without a count, because no other pending
  transaction holds the same mark. No assumption is used. `SelectionAlwaysBest`
  adds `SelectionIsBest`: with finitely many transactions, an order of the pool
  by fee is a bijection (`ByFeeOrders`), so that what a cut leaves out pays no
  more than what it takes.
- `BlockchainProofs`: `ChainSpec => []ChainInv`, and from it `ChainTypeOK`,
  `UtxoMatchesHistory`, `ChainLinked`, `HashLookupExact` and
  `ChainSpendsOwnUnspent`. `ChainInv` adds two things to these. `FileSound`
  says of the blocks in the file what the properties say of the chain:
  `load_from_disk` checks nothing, so what holds after a restart must have held
  of the file before it. `IndexExact` says that the hash index gives
  each block's place. The central lemmas are `UnspentStep` (what one more block
  does to the declarative set of unspent outputs), `ReflectsStep` (that
  `apply_block_to_utxo_set` does the same) and `VerifiedSpend` (an input that
  verifies against a UTXO set that reflects a chain spends an output of that
  chain that is its own). Equal hashes mean equal contents, by the symbolic
  hashes. The only assumption is `OffersAssumption`: offered blocks have the
  fields of blocks, with a natural number as index; nothing is assumed of what
  the fields hold.
  The module also has the lemmas about sums that the proofs about money use.
  The community modules define a sum over a set with `CHOOSE`: the order
  of summation is chosen, not given. That the sum of a set with one more element is the old sum plus that element (`SumAdd`), that it does not depend
  on names (`SumImage`), and is additive and monotone, is induction over the
  size of the set. The library's induction theorems take an operator as
  parameter, which the provers cannot instantiate; instead, a least
  counterexample is taken (`LeastNumber`, from the well-foundedness of the
  natural numbers) and led to a contradiction. What `FoldLeft` makes of one more
  element (`FoldNext`, in `EconomyProofs`) is obtained likewise.
- `PeerTableProofs`: `PeerSpec => []PeerInv`, and from it `PeerTypeOK`,
  `ClosedOnce` and `EntriesOpen`. `PeerInv` adds `Accounted`: a socket whose
  thread has not reached `add_peer` is open and not in the table; after it, the
  socket is either in the table and open, or out of it and closed once. Neither
  property is inductive without it: what keeps `remove_peer` and `stop` from
  closing a socket twice is that both close exactly the entries that they remove.
  `NoTwice` is needed because `remove_peer` erases one entry only. `PeerTypeOK`
  has `MutexHeld` (who holds the mutex is in a send under it, and the reverse),
  which is why a send that ends gives back the thread's own mutex. The proof
  splits the steps into those that neither touch the table nor take the mutex
  (`Quiet`), those that take it or give it back (`Locking`), both of which leave
  table and sockets alone (`MovesOn`), and `add_peer`, `remove_peer` and `stop`.
  The only assumption is `PeerAssumption`: the number of tasks is a natural number,
  and the names of the main thread and of nobody are no sockets.
- `FullNodeProofs`: `NodeSpec => []NodeInv`, and from it `NodeTypeOK`,
  `SavedIsPrefix`, `SavedNeverShrinks` and `PoolRefined`, for any number of
  connections and any interleaving. `NodeInv` says of each thread what it holds
  between two calls: the block that the miner read is still on the chain
  (`MinerInv`: the chain only grows), what a handler is about to add is a block
  or a transaction with its fields (`HandlerInv`), and what loops walk through is
  as long as their indices say. `NodeTypeOK` states this of every thread. The invariant of the mempool
  is taken over from `MempoolProofs` by instantiation, the lemmas about
  transactions and blocks from `BlockchainProofs`. `PoolRefined` is proved step
  by step: the steps that call the mempool map to its actions, all others leave
  it alone. `StartAssumption` describes the file that the process loads: blocks
  in order with correct hashes, no output spent twice, a UTXO set that belongs
  to the chain. This is what the theorems about `Blockchain` and the next ones
  say of any file that a node has saved; TLC evaluates it on the start chains of
  the runs.
  Time and money are its second half: `NodeSpec => []LedgerInv`, and from it
  `NoDoubleSpend` and `MinGapKept`. `add_block` compares no two transactions of
  a block and does not look for a transaction that was recorded before, so that
  the argument needs the whole node. A block on its way is `Acceptable`: it has no conflict in
  itself (the miner's, because the pool has none; a peer's, because peers run
  the same program) and is younger than the block of our chain that it names as
  its parent. An output cannot come back after it was spent: a payment's inputs
  are gone, and a coinbase has a time stamp that none before had. These
  theorems assume `ClocksAgree`: `Skew` = 0, without which `MinGapKept` is false
  (`consensus.cpp:46`, above), and a positive minimum gap (the code's is 3 s),
  without which two coinbases may be equal.
  The third part is the supply, also under `ClocksAgree`. What is proved of the
  node alone is `SupplyAccounted`: the unspent outputs are worth what was there
  at the start, and what each block since then has added, once: the outputs of
  its transactions less what they spent. No assumption is made about the payments
  that clients send, which need not balance: `validate_transaction`
  and `add_block` compare no sums and no coinbase with the reward
  (`blockchain.cpp:29`, `:164`). `CoinsInv` says that the entries of the UTXO
  set are worth what the hashes in their keys say, and that each block under way
  pays its miner the reward of its time and the fees of its transactions. A
  block that `add_block` takes removes what its inputs are worth and adds what
  its outputs are worth; that nothing else changes rests on the parts before: no
  input is spent twice in the block (`Acceptable`), all of them are unspent, and
  no output replaces another one (a coinbase has a time stamp of its own).
  `SupplyConserved`, the supply is the rewards of the recorded blocks, follows
  under two more hypotheses, and neither is one that the code enforces.
  `TransactionsBalanced`: the transactions that clients send give what they take
  less the fee, as those of a wallet of this program do as long as no amount
  wraps with the fee (`PaymentExact`); with a payment that gives less than it
  takes, `SupplyConserved` fails in the instance of `node_relay` and
  `SupplyAccounted` holds. `NothingWraps`: the rewards, and the
  seconds since the genesis block, stay below 2^64. In both theorems peers are
  other nodes of this program, which pay themselves the reward and the fees
  (`PeerMine`). `MoneyAssumption` only says that fees and amounts are unsigned,
  and that the start chain holds the rewards of its blocks. TLC evaluates it and
  `TransactionsBalanced` on the constants of the runs; `CoinsInv`,
  `SupplyAccounted` and `NothingWraps` were checked on the instance of
  `node_relay`.
- `ChainFileProofs`: `FileTypeOK` without conditions on the modes (among others,
  no chain anywhere has a block that was not created before; a step either makes
  one new block and puts it after a chain that is there, or moves chains), and `AnnouncedIsSaved` and
  `SavedOnlyGrows` under `SingleWriter`. `WriterInv` says that the chain of a
  process that writes starts with what was saved last, and that what was
  announced starts what was saved; it survives a kill between truncation and
  write because then nobody can start. `SingleWriter` (no two processes in modes
  that write, none in node mode) is how the program has to be used, not
  something it enforces: without it the properties are false, as the
  divergences say.
- `NetworkProofs`: `NetTypeOK` and `BroadcastsExclusive` for every network, and
  `FollowsMiner` under `OneMiner`. `Busy` ties the state of a thread, in a broadcast
  or in a peer list, to the mutex of its node. `Flow(C)` says that each chain in memory, in a thread's hands and
  in a message is in the set C. No step but `Mine` makes a chain that was not
  there, so that one proof of the steps does for every C: with all chains as C
  it gives the types, with the beginnings of the miner's chain it gives
  `FollowsMiner`. `OneMiner` excludes rival chains, between which nothing in the
  code chooses. `NetAssumption` says what a deployment is: finitely many nodes,
  connections that go both ways, at least one message per socket.
- `ExplorerProofs`: `ExplorerTypeOK`, `AnswersExact` and `FileLeftAlone`, for any
  saved chain, any connections and any requests. `ExplorerInv` takes `ChainInv`
  over from `BlockchainProofs` (the explorer's steps on the chain are
  `Blockchain`'s) and adds that each UTXO carries its own key, that the chain is
  what the file says, and that the accepting thread is there once the server was
  started, nobody is connected before it has tried to bind, and it has ended
  before the chain is saved, which `ExplorerTypeOK` states too.
  The chain does not change after that, so that an answer that was right when it
  was computed stays right (`ExactKept`). A balance is compared as the sum of one
  function over one set of keys, as large as `uint64_t` allows (`% Word`), so
  that here nothing has to be known of sums. `ExplorerAssumption` says that the file
  is one that a node has saved (`FileSound` says it of every file that the methods
  of the chain write), that
  requests are sequences, and that numbers in them are unsigned. All three are
  evaluated by TLC on every chain and request of the run.
- `EconomyProofs`, difficulty: `RetargetTypeOK` (the floor of 1) and `FollowsPace`, for any
  gaps, any target and any look-back, under `[]InRange`: time stamps are in
  0..2^64 - 1 and three times a difficulty is below 2 * 2^32. Nothing in the
  code keeps a difficulty there: a raise that overflows may even wrap to 0, so
  that without it the theorems are false. It holds in every state of the run.
  The span of the time stamps is a sum of gaps whose number is not known; that
  it is bounded by their bounds is shown by a least counterexample
  (`GapsBounded`), which needs no induction theorem. `RetargetAssumption` asks
  for a look-back of two blocks or more, without which there is no pace.
- `EconomyProofs`, wallet: `WalletSpec => []WalletInv`, and from it
  `WalletTypeOK`, `PaymentStaysValid` and `PaymentExact`, for any keys and
  amounts and any number of blocks and payments. The UTXO set of `WalletCli` is a
  fold over the chain; `HashedUtxos` says that each of its entries is what the
  hash in its key says. This is why the set need not be remembered: a payment
  was made from *some* set of such entries (`Made`), and an output that is in
  today's set under the same key is the same output. `PaymentsSound` adds that
  the inputs of a payment are unspent or that a block has spent one of them.
  Neither property is inductive without these.
  `PaymentsAlwaysValid` assumes `AmountsPositive`: no amount is 0 or wraps to 0
  with the fee. `wallet --send` prints a payment of 0 too
  (`main.cpp:350`), which `is_valid_structure` refuses everywhere, and for a
  sum that wraps to 0 it signs a transaction without inputs.
  `PaymentsAlwaysExact` assumes `[]BalancesFit`: what each of the user's
  addresses holds fits the 64 bits in which `create_transaction` adds it up; the
  running sum then equals the true one at every step, and the order in which
  the hash table gives the outputs does not matter. `BalancesAlwaysFit`
  derives that from the constants (`AmountsFit`: the rewards of all blocks fit,
  and each amount with the fee): exactness and the bound on the coins hold each
  other up, since an exact payment moves coins and makes none. Together they
  are `PaymentsExactInRange`. (`Reward` is one number here, of any size; the
  reward of the code rises with the years.) The run has an amount that wraps with the fee, for
  which `BalancesFit` was checked by TLC.

Every invariant and every action property that a passing run checks is stated
by a theorem. Model-checked only is liveness (`NoStall`,
`ConfirmedWithinTwoBlocks`, `Converges`, `TrafficEnds`, `StopFreesSockets`,
`StopReturns`, `RequestsAnswered`): fairness and `ENABLED` are out of the
prover's reach.

What `calculate_merkle_root` computes is defined by recursion over data; the
proofs use it as an uninterpreted function.

## 5. Plan

Every component with behaviour of its own has a module, and every safety
property a theorem. What is left:

1. `Network` takes a block to be the chain that it ends and one message to be one
   step on chain and mempool. A mapping of `FullNode`'s blocks to such chains
   would connect what the two modules prove.
2. `TransactionsBalanced` of `FullNode` is what `PaymentExact` of `WalletCli` says of a
   payment. The two modules are not composed: a client of a node is a set of
   transactions, not a wallet.

## 6. Not modelled

- The web pages and the launch scripts: presentation.
- Parsing of command-line arguments and what is printed, except where a
  statement of it is checked; the conversion of `--send`'s amount from a double.
- The estimate of energy and the energy fields: no decision depends on them.
- Hashing, signatures and key encoding below the level of their contents; the
  concatenation of fields without separators before hashing.
- The handlers of `get_height` and `height`, which no code of the program
  triggers, and `serialize_full`, `generate_new_wallet`, `has_utxo`, `get_utxo`
  and `get_peers`, which only read or are not called.
- Short writes, errors of `send`, writes of two threads to one socket that
  interleave within a message, and reuse of descriptor numbers: the model sends
  whole messages over sockets that are used once.
- The result of `save_to_disk`, which no caller looks at.
