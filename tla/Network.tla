------------------------------ MODULE Network ------------------------------
(***************************************************************************)
(* Several nodes in run mode and the connections between them (node.cpp):  *)
(* sync on connect, and gossip of blocks and transactions.                 *)
(*                                                                         *)
(* Each node has a mining thread and one thread per connection, which      *)
(* receives, handles and answers messages.  A socket buffers Capacity      *)
(* messages each way; send blocks while the buffer is full.  send_to_all   *)
(* keeps peers_mutex_ while it sends to one peer after the other, and      *)
(* send_peer_list while it sends to one.                                   *)
(*                                                                         *)
(* A block is the chain that it ends: its hash covers all before it.  A    *)
(* link of a chain says who mined it and which transactions it confirms.   *)
(* What a thread does to chain and mempool for one message is one step     *)
(* here (its parts are the subject of FullNode).  Of a peer list only the  *)
(* sending is here; what its receiver does is the subject of PeerTable.    *)
(***************************************************************************)
EXTENDS Naturals, Sequences, SequencesExt

CONSTANTS
    Nodes,
    Entry,          \* the node that clients send transactions to
    MaxLen,         \* length of a chain at which its node stops mining
    Deployments     \* how the nodes may have been started: records with
                    \*   links      <<n, m>>: n has a connection to m
                    \*   connected  whether the connections are set up already
                    \*   miners     the nodes that mine
                    \*   start      node -> the chain that it has loaded
                    \*   txs        transactions that clients send
                    \*   capacity   messages that a socket buffers in a direction

\* What the chains that the nodes start with are made of.
Past(d) == UNION {Range(d.start[n]) : n \in Nodes}

ASSUME NetAssumption ==
    /\ IsFiniteSet(Nodes) /\ "free" \notin Nodes
    /\ Entry \in Nodes /\ MaxLen \in Nat
    /\ \A d \in Deployments :
         /\ d.links \subseteq {l \in Nodes \X Nodes : l[1] # l[2]}
         /\ \A l \in d.links : <<l[2], l[1]>> \in d.links
         /\ d.connected \in BOOLEAN
         /\ d.miners \subseteq Nodes
         /\ d.start \in [Nodes -> Seq(Past(d))]
         /\ d.capacity \in Nat \ {0}

VARIABLES
    net,            \* the deployment, which does not change
    chain,          \* node -> its chain
    pool,           \* node -> its pending transactions
    peers,          \* node -> peers_, the nodes in the order they were added
    lock,           \* node -> the thread that holds peers_mutex_
    channel,        \* link <<n, m>> -> messages from n to m
    thread,         \* the threads
    submitted       \* transactions that clients have sent

vars == <<net, chain, pool, peers, lock, channel, thread, submitted>>

Links    == net.links
Miners   == net.miners
Capacity == net.capacity

\* Threads: <<n, m>> serves n's connection to m, <<n, "miner">> mines, and
\* <<n, "client">> serves a connection over which clients send transactions.
AllThreads ==
    (Nodes \X Nodes) \cup (Nodes \X {"miner"}) \cup {<<Entry, "client">>}
Threads ==
    Links \cup (Miners \X {"miner"}) \cup {<<Entry, "client">>}

Free == <<"free", "free">>

\* Where a thread is when it has nothing to do.
Home(t) == IF t \in Links THEN "recv" ELSE "idle"

NoMessage == [type |-> "none"]

Set(t, pc, out) == thread' = [thread EXCEPT ![t].pc = pc, ![t].out = out]

Confirmed(c) == UNION {c[i].txs : i \in DOMAIN c}

-----------------------------------------------------------------------------
(* A new connection: handle_peer_connection up to its loop.                *)

\* add_peer(socket, ...)
AddPeer(l) ==
    /\ thread[l].pc = "add"
    /\ lock[l[1]] = Free
    /\ peers' = [peers EXCEPT ![l[1]] = Append(@, l[2])]
    /\ Set(l, "sync", NoMessage)
    /\ UNCHANGED <<net, chain, pool, lock, channel, submitted>>

\* Mutant: asks for the blocks after the one it does not have yet.
RequestNext(l) ==
    /\ thread[l].pc = "sync"
    /\ Set(l, "send", [type |-> "sync_request", from |-> Len(chain[l[1]]) + 1])
    /\ UNCHANGED <<net, chain, pool, peers, lock, channel, submitted>>

\* request_sync(socket): from our height, that is our last block.
RequestSync(l) ==
    /\ thread[l].pc = "sync"
    /\ Set(l, "send", [type |-> "sync_request", from |-> Len(chain[l[1]]) - 1])
    /\ UNCHANGED <<net, chain, pool, peers, lock, channel, submitted>>

-----------------------------------------------------------------------------
(* Sending.                                                                *)

\* send_to_peer, once there is room.  After request_sync comes
\* send_peer_list, after an answer the next message.
SendToPeer(l) ==
    /\ thread[l].pc = "send"
    /\ Len(channel[l]) < Capacity
    /\ channel' = [channel EXCEPT ![l] = Append(@, thread[l].out)]
    /\ Set(l, IF thread[l].out.type = "sync_request" THEN "list" ELSE "recv", NoMessage)
    /\ UNCHANGED <<net, chain, pool, peers, lock, submitted>>

\* send_peer_list: takes the mutex,
SendPeerList(l) ==
    /\ thread[l].pc = "list"
    /\ lock[l[1]] = Free
    /\ lock' = [lock EXCEPT ![l[1]] = l]
    /\ Set(l, "listing", [type |-> "peer_list"])
    /\ UNCHANGED <<net, chain, pool, peers, channel, submitted>>

\* and gives it back when it has sent the list.
PeerListSent(l) ==
    /\ thread[l].pc = "listing"
    /\ Len(channel[l]) < Capacity
    /\ channel' = [channel EXCEPT ![l] = Append(@, thread[l].out)]
    /\ lock' = [lock EXCEPT ![l[1]] = Free]
    /\ Set(l, "recv", NoMessage)
    /\ UNCHANGED <<net, chain, pool, peers, submitted>>

\* Mutant: the mutex is not waited for.
SendToAllUnlocked(t) ==
    /\ thread[t].pc = "lock"
    /\ lock' = [lock EXCEPT ![t[1]] = t]
    /\ thread' = [thread EXCEPT ![t].pc = "relay", ![t].todo = peers[t[1]]]
    /\ UNCHANGED <<net, chain, pool, peers, channel, submitted>>

\* send_to_all: takes the mutex,
SendToAllLock(t) ==
    /\ thread[t].pc = "lock"
    /\ lock[t[1]] = Free
    /\ lock' = [lock EXCEPT ![t[1]] = t]
    /\ thread' = [thread EXCEPT ![t].pc = "relay", ![t].todo = peers[t[1]]]
    /\ UNCHANGED <<net, chain, pool, peers, channel, submitted>>

\* sends to one peer after the other, when there is room,
SendToAllNext(t) ==
    /\ thread[t].pc = "relay"
    /\ thread[t].todo # <<>>
    /\ LET l == <<t[1], Head(thread[t].todo)>>
       IN  /\ Len(channel[l]) < Capacity
           /\ channel' = [channel EXCEPT ![l] = Append(@, thread[t].out)]
    /\ thread' = [thread EXCEPT ![t].todo = Tail(@)]
    /\ UNCHANGED <<net, chain, pool, peers, lock, submitted>>

\* Mutant: gives up with peers left to send to.
SendToAllGivesUp(t) ==
    /\ thread[t].pc = "relay"
    /\ lock' = [lock EXCEPT ![t[1]] = Free]
    /\ Set(t, Home(t), NoMessage)
    /\ UNCHANGED <<net, chain, pool, peers, channel, submitted>>

\* and gives the mutex back.
SendToAllUnlock(t) ==
    /\ thread[t].pc = "relay"
    /\ thread[t].todo = <<>>
    /\ lock' = [lock EXCEPT ![t[1]] = Free]
    /\ Set(t, Home(t), NoMessage)
    /\ UNCHANGED <<net, chain, pool, peers, channel, submitted>>

-----------------------------------------------------------------------------
(* Receiving: the loop of handle_peer_connection and handle_message.       *)

\* The thread of link l takes the next message, which has this type.
Takes(l, type) ==
    LET from == <<l[2], l[1]>>
    IN  /\ thread[l].pc = "recv"
        /\ channel[from] # <<>>
        /\ Head(channel[from]).type = type
        /\ channel' = [channel EXCEPT ![from] = Tail(@)]

Received(l) == Head(channel[<<l[2], l[1]>>])

\* Mutant: a confirmed transaction is relayed too.
RelayEveryTx(l) ==
    /\ Takes(l, "tx")
    /\ pool' = [pool EXCEPT ![l[1]] = @ \cup ({Received(l).tx} \ Confirmed(chain[l[1]]))]
    /\ Set(l, "lock", Received(l))
    /\ UNCHANGED <<net, chain, peers, lock, submitted>>

\* "tx": validate_transaction asks the chain only.  A valid transaction is
\* offered to the pool and relayed, also when the pool has it already.
ReceiveTx(l) ==
    /\ Takes(l, "tx")
    /\ LET n  == l[1]
           tx == Received(l).tx
       IN  IF tx \in Confirmed(chain[n])
           THEN UNCHANGED <<pool, thread>>
           ELSE /\ pool' = [pool EXCEPT ![n] = @ \cup {tx}]
                /\ Set(l, "lock", Received(l))
    /\ UNCHANGED <<net, chain, peers, lock, submitted>>

\* Mutant: the block is not validated.
ReceiveAnyBlock(l) ==
    /\ Takes(l, "block")
    /\ LET n == l[1]
           b == Received(l).block
       IN  /\ chain' = [chain EXCEPT ![n] = Append(@, b[Len(b)])]
           /\ pool' = [pool EXCEPT ![n] = @ \ b[Len(b)].txs]
           /\ Set(l, "lock", Received(l))
    /\ UNCHANGED <<net, peers, lock, submitted>>

\* Mutant: a rejected block is relayed too.
RelayEveryBlock(l) ==
    /\ Takes(l, "block")
    /\ LET n == l[1]
           b == Received(l).block
       IN  /\ chain' = [chain EXCEPT ![n] = IF Front(b) = @ THEN b ELSE @]
           /\ pool' = [pool EXCEPT ![n] = @ \ b[Len(b)].txs]
           /\ Set(l, "lock", Received(l))
    /\ UNCHANGED <<net, peers, lock, submitted>>

\* "block": one that extends our last block is added and relayed.
ReceiveBlock(l) ==
    /\ Takes(l, "block")
    /\ LET n == l[1]
           b == Received(l).block
       IN  IF Front(b) = chain[n]
           THEN /\ chain' = [chain EXCEPT ![n] = b]
                /\ pool' = [pool EXCEPT ![n] = @ \ b[Len(b)].txs]
                /\ Set(l, "lock", Received(l))
           ELSE UNCHANGED <<chain, pool, thread>>
    /\ UNCHANGED <<net, peers, lock, submitted>>

\* "sync_request": get_blocks now, the answer when there is room.
ReceiveSyncRequest(l) ==
    /\ Takes(l, "sync_request")
    /\ Set(l, "send", [type |-> "sync_response", from |-> Received(l).from,
                       blocks |-> chain[l[1]]])
    /\ UNCHANGED <<net, chain, pool, peers, lock, submitted>>

\* "sync_response": the blocks from index from on; add_block takes those that
\* continue our chain.  Nothing is relayed, nothing leaves the pool.
ReceiveSyncResponse(l) ==
    /\ Takes(l, "sync_response")
    /\ LET n == l[1]
           r == Received(l)
       IN  chain' = [chain EXCEPT ![n] = IF IsPrefix(@, r.blocks) /\ Len(@) >= r.from
                                         THEN r.blocks ELSE @]
    /\ UNCHANGED <<net, pool, peers, lock, thread, submitted>>

\* "peer_list": a connection that it leads to is the subject of PeerTable.
ReceivePeerList(l) ==
    /\ Takes(l, "peer_list")
    /\ UNCHANGED <<net, chain, pool, peers, lock, thread, submitted>>

Receive(l) ==
    \/ ReceiveTx(l) \/ ReceiveBlock(l)
    \/ ReceiveSyncRequest(l) \/ ReceiveSyncResponse(l) \/ ReceivePeerList(l)

-----------------------------------------------------------------------------
(* Mining, and the clients.                                                *)

\* The loop of run_mode: a block with what is pending is mined, added and
\* broadcast.  (A block with a confirmed transaction would be rejected.)
Mine(n) ==
    /\ n \in Miners
    /\ thread[<<n, "miner">>].pc = "idle"
    /\ Len(chain[n]) < MaxLen
    /\ pool[n] \cap Confirmed(chain[n]) = {}
    /\ LET b == Append(chain[n], [by |-> n, txs |-> pool[n]])
       IN  /\ chain' = [chain EXCEPT ![n] = b]
           /\ Set(<<n, "miner">>, "lock", [type |-> "block", block |-> b])
    /\ pool' = [pool EXCEPT ![n] = {}]
    /\ UNCHANGED <<net, peers, lock, channel, submitted>>

\* A client delivers a transaction and disconnects.
Submit(tx) ==
    /\ tx \notin submitted
    /\ thread[<<Entry, "client">>].pc = "idle"
    /\ submitted' = submitted \cup {tx}
    /\ pool' = [pool EXCEPT ![Entry] = @ \cup {tx}]
    /\ Set(<<Entry, "client">>, "lock", [type |-> "tx", tx |-> tx])
    /\ UNCHANGED <<net, chain, peers, lock, channel>>

-----------------------------------------------------------------------------

NetInit ==
    /\ net \in Deployments
    /\ chain = net.start
    /\ pool = [n \in Nodes |-> {}]
    /\ peers = [n \in Nodes |->
                  IF net.connected THEN SetToSeq({l[2] : l \in {x \in Links : x[1] = n}})
                                   ELSE <<>>]
    /\ lock = [n \in Nodes |-> Free]
    /\ channel = [l \in Links |-> <<>>]
    /\ thread = [t \in Threads |->
                   [pc   |-> IF t \in Links /\ ~net.connected THEN "add" ELSE Home(t),
                    out  |-> NoMessage,
                    todo |-> <<>>]]
    /\ submitted = {}

Step(t) ==
    /\ t \in Threads
    /\ \/ SendToAllLock(t) \/ SendToAllNext(t) \/ SendToAllUnlock(t)
       \/ /\ t \in Links
          /\ \/ AddPeer(t) \/ RequestSync(t) \/ SendToPeer(t)
             \/ SendPeerList(t) \/ PeerListSent(t) \/ Receive(t)

NetNext ==
    \/ \E t \in AllThreads : Step(t)
    \/ \E n \in Nodes : Mine(n)
    \/ \E tx \in net.txs : Submit(tx)

NetSpec == NetInit /\ [][NetNext]_vars

\* Threads that can run do run, and miners find blocks.  Clients may send.
FairNetSpec ==
    /\ NetSpec
    /\ \A t \in AllThreads : WF_vars(Step(t))
    /\ \A n \in Nodes : WF_vars(Mine(n))

-----------------------------------------------------------------------------
(* Properties.                                                             *)

\* Type invariant: buffers keep to their size, and only a thread that is
\* sending to all has peers left to send to.
NetTypeOK ==
    /\ \A l \in Links : Len(channel[l]) <= Capacity
    /\ \A t \in Threads :
         /\ thread[t].pc \in {"add", "sync", "send", "list", "listing", "recv", "idle",
                               "lock", "relay"}
         /\ thread[t].todo # <<>> => thread[t].pc = "relay"
         /\ thread[t].pc \in {"send", "listing", "lock", "relay"} <=> thread[t].out # NoMessage
    /\ \A n \in Nodes : pool[n] \subseteq submitted

\* peers_mutex_ keeps broadcasts and peer lists apart: a thread is in the
\* middle of one if and only if it holds its node's mutex, so that the messages
\* of two broadcasts reach all peers in the same order.
BroadcastsExclusive ==
    \A t \in Threads : thread[t].pc \in {"relay", "listing"} <=> lock[t[1]] = t

\* The blocks that are under way to somebody.
InFlight ==
    {m.block : m \in {x \in UNION {Range(channel[l]) : l \in Links} : x.type = "block"}}

\* With one miner nobody invents or reorders blocks: every other chain, and
\* every block under way, is a beginning of the miner's chain.
FollowsMiner ==
    \A n \in Miners :
        /\ \A m \in Nodes : IsPrefix(chain[m], chain[n])
        /\ \A b \in InFlight : IsPrefix(b, chain[n])

\* A transaction that clients have sent is not confirmed everywhere.
Waiting == \E l \in Links : ~(submitted \subseteq Confirmed(chain[l[1]]))

\* In the end all nodes have the same chain, unless some transaction is never
\* confirmed everywhere ("On connect, a sync request is sent to get any
\* missing blocks"; "Received blocks are validated, added to chain, and
\* relayed").
Converges ==
    []<>Waiting \/ <>[](\A l \in Links : chain[l[1]] = chain[l[2]])

\* In the end nobody sends anything, unless some transaction is never confirmed
\* everywhere: a confirmed transaction and a known block are not relayed again.
TrafficEnds ==
    []<>Waiting \/ <>[](\A l \in Links : channel[l] = <<>>)

\* "Received transactions are validated and relayed to all other peers": as
\* long as a broadcast is under way, some thread can go on.
NoGridlock ==
    (\E t \in Threads : thread[t].pc = "relay") => \E t \in Threads : ENABLED Step(t)
=============================================================================
