--------------------------- MODULE NetworkProofs ---------------------------
(***************************************************************************)
(* The network of nodes, for any number of nodes, connections, chains and  *)
(* messages in a buffer.                                                   *)
(*                                                                         *)
(* The invariant has two parts.  Busy is about the threads of one node:    *)
(* who is sending a broadcast or a peer list holds the mutex.  Flow(C) is  *)
(* about what goes between nodes: all chains are in C, in memory, in a     *)
(* thread's hands and under way.  No step but Mine makes a chain, so that  *)
(* Flow(C) is kept for any set C that has the mined ones.  With C = all    *)
(* chains it gives types, with C = the beginnings of the chain of the only *)
(* miner it says that everybody follows him.                               *)
(***************************************************************************)
EXTENDS Network, FiniteSetTheorems, SequenceTheorems, TLAPS

\* The chains that the deployment allows: of links that were loaded, and of
\* links that are mined.
Chains == Seq(Past(net) \cup [by : Nodes, txs : SUBSET net.txs])

\* The messages about transactions in T and with chains in C.
Messages(T, C) ==
    [type : {"tx"}, tx : T] \cup [type : {"block"}, block : C]
    \cup [type : {"sync_request"}, from : Int]
    \cup [type : {"sync_response"}, from : Int, blocks : C]
    \cup {[type |-> "peer_list"]}

Linked(n) == {m \in Nodes : <<n, m>> \in Links}

Places == {"add", "sync", "send", "list", "listing", "recv", "idle", "lock", "relay"}

Records(M) == [pc : Places, out : M \cup {NoMessage}, todo : Seq(Nodes)]

Flow(C) ==
    /\ chain \in [Nodes -> C]
    /\ channel \in [Links -> Seq(Messages(submitted, C))]
    /\ thread \in [Threads -> Records(Messages(submitted, C))]

Shape ==
    /\ net \in Deployments
    /\ submitted \subseteq net.txs
    /\ pool \in [Nodes -> SUBSET submitted]
    /\ \A n \in Nodes : peers[n] \in Seq(Linked(n))
    /\ peers \in [Nodes -> Seq(Nodes)]
    /\ lock \in [Nodes -> AllThreads \cup {Free}]

Rooms == \A l \in Links : Len(channel[l]) <= Capacity

\* What thread t is doing, and whether it holds the mutex for it.
Busy(t) ==
    /\ thread[t].todo # <<>> => thread[t].pc = "relay"
    /\ thread[t].pc \in {"send", "listing", "lock", "relay"} <=> thread[t].out # NoMessage
    /\ thread[t].todo \in Seq(Linked(t[1]))
    /\ thread[t].pc \in {"relay", "listing"} <=> lock[t[1]] = t

NetInv == Shape /\ Flow(Chains) /\ Rooms /\ \A t \in Threads : Busy(t)

\* The beginnings of a chain.
Beginnings(c) == {b \in Chains : IsPrefix(b, c)}

\* At most one node mines, and it starts with the longest chain.
OneMiner ==
    \A d \in Deployments : \A n \in d.miners :
        /\ d.miners = {n}
        /\ \A m \in Nodes : IsPrefix(d.start[m], d.start[n])

FollowInv == \A n \in Miners : Flow(Beginnings(chain[n]))

-----------------------------------------------------------------------------
(* Messages.                                                               *)

\* A sequence over a set is one over a larger set.
LEMMA SeqGrow == ASSUME NEW A, NEW B, A \subseteq B PROVE Seq(A) \subseteq Seq(B)
<1>. SUFFICES ASSUME NEW s \in Seq(A) PROVE s \in Seq(B)
  OBVIOUS
<1>1. Len(s) \in Nat /\ s \in [1..Len(s) -> B]
  OBVIOUS
<1>. QED BY <1>1

\* What is left of a sequence without its head.
LEMMA TailTyped == ASSUME NEW A, NEW s \in Seq(A), s # <<>> PROVE Tail(s) \in Seq(A)
  OBVIOUS

\* More transactions and more chains are more messages.
LEMMA MessagesGrow ==
    ASSUME NEW T, NEW U, T \subseteq U, NEW C, NEW D, C \subseteq D
    PROVE  Messages(T, C) \subseteq Messages(U, D)
  BY DEF Messages

\* What a message of each type brings.
LEMMA MessageBrings ==
    ASSUME NEW T, NEW C, NEW m \in Messages(T, C)
    PROVE  /\ m.type = "tx" => m.tx \in T
           /\ m.type = "block" => m.block \in C
           /\ m.type = "sync_response" => m.blocks \in C
           /\ m.type = "sync_request" => m.from \in Int
           /\ m.type = "sync_response" => m.from \in Int
           /\ m # NoMessage
<1>1. m.type # "none"
  BY DEF Messages
<1>2. m # NoMessage
  BY <1>1 DEF NoMessage
<1>. QED BY <1>2 DEF Messages

\* The records of the threads after one of them has gone on.
LEMMA SetTyped ==
    ASSUME NEW M, NEW N, M \subseteq N,
           thread \in [Threads -> Records(M)], net' = net,
           NEW t \in Threads, NEW pc \in Places, NEW out \in N \cup {NoMessage},
           Set(t, pc, out)
    PROVE  /\ thread' \in [Threads' -> Records(N)]
           /\ thread' = [thread EXCEPT ![t] = [pc |-> pc, out |-> out, todo |-> thread[t].todo]]
<1>1. Threads' = Threads
  BY DEF Threads, Links, Miners
<1>. DEFINE r == [pc |-> pc, out |-> out, todo |-> thread[t].todo]
<1>. DEFINE old == thread[t]
<1>2. old \in [pc : Places, out : M \cup {NoMessage}, todo : Seq(Nodes)]
  BY DEF Records
<1>. HIDE DEF old
<1>3. [old EXCEPT !.pc = pc, !.out = out] = [pc |-> pc, out |-> out, todo |-> old.todo]
  <2>1. DOMAIN old = {"pc", "out", "todo"}
    BY <1>2
  <2>2. [old EXCEPT !.pc = pc, !.out = out] = [f \in {"pc", "out", "todo"} |->
            IF f = "out" THEN out ELSE IF f = "pc" THEN pc ELSE old[f]]
    BY <2>1
  <2>3. [pc |-> pc, out |-> out, todo |-> old.todo] = [f \in {"pc", "out", "todo"} |->
            IF f = "out" THEN out ELSE IF f = "pc" THEN pc ELSE old[f]]
    OBVIOUS
  <2>. QED BY <2>2, <2>3
<1>4. [thread[t] EXCEPT !.pc = pc, !.out = out] = r
  BY <1>3 DEF old
<1>5. thread' = [thread EXCEPT ![t] = r]
  BY <1>4 DEF Set
<1>6. r \in Records(N) /\ \A u \in Threads : thread[u] \in Records(N)
  BY DEF Records
<1>. HIDE DEF r
<1>7. thread' \in [Threads -> Records(N)]
  BY <1>5, <1>6
<1>. QED BY <1>1, <1>5, <1>7 DEF r

\* A thread and its link are of one node; messages come from the other end.
LEMMA Ends ==
    ASSUME NetAssumption, net \in Deployments
    PROVE  /\ \A l \in Links : /\ l \in Threads /\ l = <<l[1], l[2]>>
                               /\ l[1] \in Nodes /\ l[2] \in Nodes
                               /\ <<l[2], l[1]>> \in Links
           /\ \A n \in Miners : n \in Nodes /\ <<n, "miner">> \in Threads
           /\ <<Entry, "client">> \in Threads
           /\ \A t \in Threads : t[1] \in Nodes /\ t \in AllThreads
           /\ Capacity \in Nat \ {0}
<1>1. /\ Links \subseteq {l \in Nodes \X Nodes : l[1] # l[2]}
      /\ \A l \in Links : <<l[2], l[1]>> \in Links
      /\ Miners \subseteq Nodes /\ Capacity \in Nat \ {0} /\ Entry \in Nodes
  BY DEF NetAssumption, Links, Miners, Capacity
<1>. QED BY <1>1 DEF Threads, AllThreads

\* Taking the next message.
LEMMA TakeTyped ==
    ASSUME NEW M, net \in Deployments, channel \in [Links -> Seq(M)],
           NEW l \in Links, NEW type, Takes(l, type)
    PROVE  /\ channel' \in [Links -> Seq(M)]
           /\ Received(l) \in M /\ Received(l).type = type
           /\ thread[l].pc = "recv"
           /\ \A k \in Links : Len(channel'[k]) <= Len(channel[k])
<1>. DEFINE from == <<l[2], l[1]>>
<1>1. from \in Links
  BY NetAssumption, Ends
<1>2. channel[from] \in Seq(M) /\ channel[from] # <<>>
  BY <1>1 DEF Takes
<1>3. Tail(channel[from]) \in Seq(M) /\ Head(channel[from]) \in M
      /\ Len(Tail(channel[from])) = Len(channel[from]) - 1 /\ Len(channel[from]) \in Nat
  BY <1>2
<1>4. channel' = [channel EXCEPT ![from] = Tail(channel[from])]
  BY DEF Takes
<1>5. ASSUME NEW k \in Links PROVE Len(channel'[k]) <= Len(channel[k])
  <2>1. CASE k = from
    BY <1>1, <1>3, <1>4, <2>1
  <2>2. CASE k # from
    <3>1. channel'[k] = channel[k] /\ Len(channel[k]) \in Nat
      BY <1>1, <1>4, <2>2
    <3>. QED BY <3>1
  <2>. QED BY <2>1, <2>2
<1>. QED BY <1>1, <1>3, <1>4, <1>5 DEF Takes, Received

-----------------------------------------------------------------------------
(* What goes from node to node.  No step but Mine makes a chain.           *)

\* No step puts anything into memory or under way but what was mined or
\* submitted.
LEMMA FlowStep ==
    ASSUME NEW C, NEW D, C \subseteq D,
           net \in Deployments, C \subseteq Chains, Flow(C), Shape,
           \A t \in Threads : Busy(t), NetNext,
           \A n \in Nodes : Mine(n) => chain'[n] \in D
    PROVE  Flow(D)'
<1>. DEFINE M == Messages(submitted, C)
            N == Messages(submitted', D)
<1>1. /\ chain \in [Nodes -> C] /\ channel \in [Links -> Seq(M)]
      /\ thread \in [Threads -> Records(M)]
  BY DEF Flow
<1>2. net' = net /\ Links' = Links /\ submitted \subseteq submitted'
  BY DEF NetNext, Step, SendToAllLock, SendToAllNext, SendToAllUnlock, AddPeer,
         RequestSync, SendToPeer, SendPeerList, PeerListSent, Receive, ReceiveTx, ReceiveBlock,
         ReceiveSyncRequest, ReceiveSyncResponse, ReceivePeerList, Mine, Submit, Links
<1>3. M \subseteq N /\ Seq(M) \subseteq Seq(N)
  BY <1>2, MessagesGrow, SeqGrow
<1>4. chain \in [Nodes -> D] /\ channel \in [Links -> Seq(N)]
  BY <1>1, <1>3
<1>5. Records(M) \subseteq Records(N)
  BY <1>3 DEF Records
<1>6. thread \in [Threads -> Records(N)] /\ Threads' = Threads
  BY <1>1, <1>2, <1>5 DEF Threads, Links, Miners
<1>7. ASSUME chain' \in [Nodes -> D], channel' \in [Links -> Seq(N)],
             thread' \in [Threads' -> Records(N)]
      PROVE  Flow(D)'
  BY <1>2, <1>7 DEF Flow
<1>. HIDE DEF M, N
<1>8. \A c \in C : c \in D /\ Len(c) \in Nat
  BY DEF Chains
<1>9. \A l \in Links : l \in Threads /\ l[1] \in Nodes
  BY NetAssumption, Ends
<1>10. NoMessage \in N \cup {NoMessage}
      /\ {"sync", "send", "list", "listing", "recv", "idle", "lock"} \subseteq Places
  BY DEF Places
<1>11. ASSUME NEW t \in Threads, SendToAllLock(t) PROVE Flow(D)'
  <2>1. t[1] \in Nodes
    BY NetAssumption, Ends
  <2>2. peers[t[1]] \in Seq(Nodes)
    BY <2>1 DEF Shape
  <2>. DEFINE r == [thread[t] EXCEPT !.pc = "relay", !.todo = peers[t[1]]]
  <2>3. r \in Records(N)
    BY <1>6, <2>2 DEF Records, Places
  <2>4. thread' = [thread EXCEPT ![t] = r]
    BY <1>11 DEF SendToAllLock
  <2>. HIDE DEF r
  <2>5. thread' \in [Threads' -> Records(N)]
    BY <1>6, <2>3, <2>4
  <2>. QED BY <1>4, <1>7, <1>11, <2>5 DEF SendToAllLock
<1>12. ASSUME NEW t \in Threads, SendToAllNext(t) PROVE Flow(D)'
  <2>. DEFINE l == <<t[1], Head(thread[t].todo)>>
              q == Append(channel[l], thread[t].out)
              r == [thread[t] EXCEPT !.todo = Tail(thread[t].todo)]
  <2>1. thread[t] \in Records(N) /\ thread[t].todo \in Seq(Nodes) /\ thread[t].todo # <<>>
    BY <1>6, <1>12 DEF SendToAllNext, Records
  <2>2. Tail(thread[t].todo) \in Seq(Nodes)
    BY <2>1
  <2>3. r \in Records(N)
    BY <2>1, <2>2 DEF Records
  <2>4. thread' = [thread EXCEPT ![t] = r]
    BY <1>12 DEF SendToAllNext
  <2>5. thread' \in [Threads' -> Records(N)]
    <3>. HIDE DEF r
    <3>. QED BY <1>6, <2>3, <2>4
  <2>6. thread[t].out \in N
    BY <1>6, <1>12, <2>1 DEF Records, Busy, SendToAllNext
  <2>7. channel' = [channel EXCEPT ![l] = q]
    BY <1>12 DEF SendToAllNext
  <2>8. l \in Links => q \in Seq(N)
    BY <1>4, <2>6
  <2>9. channel' \in [Links -> Seq(N)]
    <3>. HIDE DEF l, q
    <3>. QED BY <1>4, <2>7, <2>8
  <2>. QED BY <1>4, <1>7, <1>12, <2>5, <2>9 DEF SendToAllNext
<1>13. ASSUME NEW t \in Threads, SendToAllUnlock(t) PROVE Flow(D)'
  <2>1. Home(t) \in Places /\ Set(t, Home(t), NoMessage)
    BY <1>13 DEF SendToAllUnlock, Home, Places
  <2>2. thread' \in [Threads' -> Records(N)]
    BY <1>1, <1>2, <1>3, <1>10, <2>1, SetTyped
  <2>. QED BY <1>4, <1>7, <1>13, <2>2 DEF SendToAllUnlock
<1>14. ASSUME NEW l \in Links, AddPeer(l) PROVE Flow(D)'
  <2>1. thread' \in [Threads' -> Records(N)]
    BY <1>1, <1>2, <1>3, <1>9, <1>10, <1>14, SetTyped DEF AddPeer
  <2>. QED BY <1>4, <1>7, <1>14, <2>1 DEF AddPeer
<1>15. ASSUME NEW l \in Links, RequestSync(l) PROVE Flow(D)'
  <2>1. PICK m : m = [type |-> "sync_request", from |-> Len(chain[l[1]]) - 1]
    OBVIOUS
  <2>2. m \in N
    BY <1>1, <1>8, <1>9, <2>1 DEF N, Messages
  <2>3. thread' \in [Threads' -> Records(N)]
    BY <1>1, <1>2, <1>3, <1>9, <1>10, <1>15, <2>1, <2>2, SetTyped DEF RequestSync
  <2>. QED BY <1>4, <1>7, <1>15, <2>3 DEF RequestSync
<1>16. ASSUME NEW l \in Links, SendToPeer(l) PROVE Flow(D)'
  <2>1. thread[l].out \in N
    BY <1>6, <1>9, <1>16 DEF SendToPeer, Records, Busy
  <2>2. Append(channel[l], thread[l].out) \in Seq(N)
    BY <1>4, <2>1
  <2>3. channel' \in [Links -> Seq(N)]
    BY <1>4, <1>16, <2>2 DEF SendToPeer
  <2>4. PICK pc \in {"list", "recv"} : Set(l, pc, NoMessage)
    BY <1>16 DEF SendToPeer
  <2>5. thread' \in [Threads' -> Records(N)]
    BY <1>1, <1>2, <1>3, <1>9, <1>10, <2>4, SetTyped
  <2>. QED BY <1>4, <1>7, <1>16, <2>3, <2>5 DEF SendToPeer
<1>17. ASSUME NEW l \in Links, ReceiveTx(l) PROVE Flow(D)'
  <2>1. Takes(l, "tx")
    BY <1>17 DEF ReceiveTx
  <2>2. channel' \in [Links -> Seq(M)] /\ Received(l) \in M /\ Received(l).type = "tx"
    BY <1>1, <2>1, TakeTyped
  <2>3. channel' \in [Links -> Seq(N)] /\ Received(l) \in N
    BY <1>3, <2>2
  <2>4. PICK m : m = Received(l)
    OBVIOUS
  <2>5. thread' = thread \/ Set(l, "lock", m)
    BY <1>17, <2>4 DEF ReceiveTx
  <2>6. thread' \in [Threads' -> Records(N)]
    BY <1>1, <1>2, <1>3, <1>6, <1>9, <1>10, <2>3, <2>4, <2>5, SetTyped
  <2>. QED BY <1>4, <1>7, <1>17, <2>3, <2>6 DEF ReceiveTx
<1>18. ASSUME NEW l \in Links, ReceiveBlock(l) PROVE Flow(D)'
  <2>1. Takes(l, "block")
    BY <1>18 DEF ReceiveBlock
  <2>2. channel' \in [Links -> Seq(M)] /\ Received(l) \in M /\ Received(l).type = "block"
    BY <1>1, <2>1, TakeTyped
  <2>3. channel' \in [Links -> Seq(N)] /\ Received(l) \in N
    BY <1>3, <2>2
  <2>4. PICK m : m = Received(l)
    OBVIOUS
  <2>5. thread' = thread \/ Set(l, "lock", m)
    BY <1>18, <2>4 DEF ReceiveBlock
  <2>6. thread' \in [Threads' -> Records(N)]
    BY <1>1, <1>2, <1>3, <1>6, <1>9, <1>10, <2>3, <2>4, <2>5, SetTyped
  <2>7. Received(l).block \in D
    BY <1>8, <2>2, MessageBrings DEF M
  <2>8. chain' \in [Nodes -> D]
    BY <1>4, <1>18, <2>7 DEF ReceiveBlock
  <2>. QED BY <1>7, <1>18, <2>3, <2>6, <2>8 DEF ReceiveBlock
<1>19. ASSUME NEW l \in Links, ReceiveSyncRequest(l) PROVE Flow(D)'
  <2>1. Takes(l, "sync_request")
    BY <1>19 DEF ReceiveSyncRequest
  <2>2. channel' \in [Links -> Seq(M)] /\ Received(l) \in M /\ Received(l).type = "sync_request"
    BY <1>1, <2>1, TakeTyped
  <2>3. channel' \in [Links -> Seq(N)] /\ Received(l) \in N
    BY <1>3, <2>2
  <2>4. PICK m : m = [type |-> "sync_response", from |-> Received(l).from,
                      blocks |-> chain[l[1]]]
    OBVIOUS
  <2>5. Received(l).from \in Int
    BY <2>2, MessageBrings DEF M
  <2>6. m \in N
    BY <1>4, <1>9, <2>4, <2>5 DEF N, Messages
  <2>7. thread' \in [Threads' -> Records(N)]
    BY <1>1, <1>2, <1>3, <1>9, <1>10, <1>19, <2>4, <2>6, SetTyped DEF ReceiveSyncRequest
  <2>. QED BY <1>4, <1>7, <1>19, <2>3, <2>7 DEF ReceiveSyncRequest
<1>20. ASSUME NEW l \in Links, ReceiveSyncResponse(l) PROVE Flow(D)'
  <2>1. Takes(l, "sync_response")
    BY <1>20 DEF ReceiveSyncResponse
  <2>2. channel' \in [Links -> Seq(M)] /\ Received(l) \in M /\ Received(l).type = "sync_response"
    BY <1>1, <2>1, TakeTyped
  <2>3. channel' \in [Links -> Seq(N)] /\ Received(l) \in N
    BY <1>3, <2>2
  <2>4. Received(l).blocks \in D
    BY <1>8, <2>2, MessageBrings DEF M
  <2>5. chain' \in [Nodes -> D]
    BY <1>4, <1>20, <2>4 DEF ReceiveSyncResponse
  <2>. QED BY <1>6, <1>7, <1>20, <2>3, <2>5 DEF ReceiveSyncResponse
<1>21. ASSUME NEW n \in Nodes, Mine(n) PROVE Flow(D)'
  <2>1. PICK b : b = Append(chain[n], [by |-> n, txs |-> pool[n]])
    OBVIOUS
  <2>2. chain' = [chain EXCEPT ![n] = b] /\ Set(<<n, "miner">>, "lock", [type |-> "block", block |-> b])
    BY <1>21, <2>1 DEF Mine
  <2>3. b \in D
    BY <1>4, <1>21, <2>2
  <2>4. chain' \in [Nodes -> D]
    BY <1>4, <2>2, <2>3
  <2>5. [type |-> "block", block |-> b] \in N
    BY <2>3 DEF N, Messages
  <2>6. <<n, "miner">> \in Threads
    BY <1>21, NetAssumption, Ends DEF Mine
  <2>7. thread' \in [Threads' -> Records(N)]
    BY <1>1, <1>2, <1>3, <1>10, <2>2, <2>5, <2>6, SetTyped
  <2>. QED BY <1>4, <1>7, <1>21, <2>4, <2>7 DEF Mine
<1>22. ASSUME NEW tx \in net.txs, Submit(tx) PROVE Flow(D)'
  <2>1. tx \in submitted'
    BY <1>22 DEF Submit
  <2>2. PICK m : m = [type |-> "tx", tx |-> tx]
    OBVIOUS
  <2>3. m \in N
    BY <2>1, <2>2 DEF N, Messages
  <2>4. <<Entry, "client">> \in Threads
    BY NetAssumption, Ends
  <2>5. thread' \in [Threads' -> Records(N)]
    BY <1>1, <1>2, <1>3, <1>10, <1>22, <2>2, <2>3, <2>4, SetTyped DEF Submit
  <2>. QED BY <1>4, <1>7, <1>22, <2>5 DEF Submit
<1>23. ASSUME NEW l \in Links, SendPeerList(l) PROVE Flow(D)'
  <2>1. PICK m : m = [type |-> "peer_list"]
    OBVIOUS
  <2>2. m \in N
    BY <2>1 DEF N, Messages
  <2>3. thread' \in [Threads' -> Records(N)]
    BY <1>1, <1>2, <1>3, <1>9, <1>10, <1>23, <2>1, <2>2, SetTyped DEF SendPeerList
  <2>. QED BY <1>4, <1>7, <1>23, <2>3 DEF SendPeerList
<1>24. ASSUME NEW l \in Links, PeerListSent(l) PROVE Flow(D)'
  <2>1. thread[l].out \in N
    BY <1>6, <1>9, <1>24 DEF PeerListSent, Records, Busy
  <2>2. Append(channel[l], thread[l].out) \in Seq(N)
    BY <1>4, <2>1
  <2>3. channel' \in [Links -> Seq(N)]
    BY <1>4, <1>24, <2>2 DEF PeerListSent
  <2>4. thread' \in [Threads' -> Records(N)]
    BY <1>1, <1>2, <1>3, <1>9, <1>10, <1>24, SetTyped DEF PeerListSent
  <2>. QED BY <1>4, <1>7, <1>24, <2>3, <2>4 DEF PeerListSent
<1>25. ASSUME NEW l \in Links, ReceivePeerList(l) PROVE Flow(D)'
  <2>1. Takes(l, "peer_list")
    BY <1>25 DEF ReceivePeerList
  <2>2. channel' \in [Links -> Seq(N)]
    BY <1>1, <1>3, <2>1, TakeTyped
  <2>. QED BY <1>4, <1>6, <1>7, <1>25, <2>2 DEF ReceivePeerList
<1>. QED BY <1>11, <1>12, <1>13, <1>14, <1>15, <1>16, <1>17, <1>18, <1>19, <1>20,
            <1>21, <1>22, <1>23, <1>24, <1>25 DEF NetNext, Step, Receive

-----------------------------------------------------------------------------
(* What the threads of one node do.                                        *)

\* The network stays as it was deployed.
LEMMA NetConstant ==
    ASSUME NetNext
    PROVE  /\ net' = net /\ Links' = Links /\ Threads' = Threads /\ Capacity' = Capacity
           /\ Miners' = Miners /\ Chains' = Chains /\ \A n : Linked(n)' = Linked(n)
<1>1. net' = net
  BY DEF NetNext, Step, SendToAllLock, SendToAllNext, SendToAllUnlock, AddPeer,
         RequestSync, SendToPeer, SendPeerList, PeerListSent, Receive, ReceiveTx, ReceiveBlock,
         ReceiveSyncRequest, ReceiveSyncResponse, ReceivePeerList, Mine, Submit
<1>. QED BY <1>1 DEF Links, Threads, Capacity, Miners, Chains, Linked

\* A step between two places at which the mutex is not held.
LEMMA SetKeeps ==
    ASSUME NetInv, NetNext, lock' = lock, NEW t \in Threads,
           thread[t].pc \notin {"relay", "listing"},
           NEW pc \in Places \ {"relay", "listing"}, NEW out, Set(t, pc, out),
           pc \in {"send", "lock"} <=> out # NoMessage
    PROVE  \A u \in Threads' : Busy(u)'
<1>1. Threads' = Threads /\ \A n : Linked(n)' = Linked(n)
  BY NetConstant
<1>2. thread \in [Threads -> Records(Messages(submitted, Chains))]
      /\ \A u \in Threads : Busy(u)
  BY DEF NetInv, Flow
<1>3. thread[t] \in Records(Messages(submitted, Chains))
  BY <1>2
<1>4. /\ thread'[t].pc = pc /\ thread'[t].out = out /\ thread'[t].todo = thread[t].todo
      /\ \A u \in Threads : u # t => thread'[u] = thread[u]
  BY <1>2, <1>3 DEF Set, Records
<1>5. ASSUME NEW u \in Threads, u # t PROVE Busy(u)'
  BY <1>1, <1>2, <1>4, <1>5 DEF Busy
<1>6. Busy(t)'
  BY <1>1, <1>2, <1>4 DEF Busy
<1>. QED BY <1>1, <1>5, <1>6

\* A step that leaves the threads alone.
LEMMA SameKeeps ==
    ASSUME NetInv, NetNext, UNCHANGED <<lock, thread>>
    PROVE  \A u \in Threads' : Busy(u)'
<1>1. Threads' = Threads /\ \A n : Linked(n)' = Linked(n)
  BY NetConstant
<1>. QED BY <1>1 DEF NetInv, Busy

\* A thread that takes a peers_mutex_ is the only one that holds it.
LEMMA LockKeeps ==
    ASSUME NetInv, NetNext, NEW t \in Threads, SendToAllLock(t)
    PROVE  \A u \in Threads' : Busy(u)'
<1>1. Threads' = Threads /\ \A n : Linked(n)' = Linked(n)
  BY NetConstant
<1>2. /\ thread \in [Threads -> Records(Messages(submitted, Chains))]
      /\ \A u \in Threads : Busy(u)
      /\ lock \in [Nodes -> AllThreads \cup {Free}]
      /\ \A n \in Nodes : peers[n] \in Seq(Linked(n))
      /\ net \in Deployments
  BY DEF NetInv, Flow, Shape
<1>3. t[1] \in Nodes /\ Free \notin Threads
  BY <1>2, NetAssumption, Ends DEF Free, AllThreads
<1>4. thread[t] \in Records(Messages(submitted, Chains))
  BY <1>2
<1>5. /\ thread'[t].pc = "relay" /\ thread'[t].out = thread[t].out
      /\ thread'[t].todo = peers[t[1]]
      /\ \A u \in Threads : u # t => thread'[u] = thread[u]
  BY <1>2, <1>4 DEF SendToAllLock, Records
<1>6. thread[t].pc = "lock" /\ lock[t[1]] = Free /\ lock' = [lock EXCEPT ![t[1]] = t]
  BY DEF SendToAllLock
<1>7. Busy(t)'
  BY <1>1, <1>2, <1>3, <1>5, <1>6 DEF Busy
<1>8. ASSUME NEW u \in Threads, u # t PROVE Busy(u)'
  <2>1. thread'[u] = thread[u] /\ Busy(u) /\ u # Free
    BY <1>2, <1>3, <1>5, <1>8
  <2>2. lock'[u[1]] = u <=> lock[u[1]] = u
    BY <1>2, <1>3, <1>6, <1>8, <2>1
  <2>. QED BY <1>1, <2>1, <2>2 DEF Busy
<1>. QED BY <1>1, <1>7, <1>8

\* A thread that sends to its next peer keeps the lock.
LEMMA NextKeeps ==
    ASSUME NetInv, NetNext, NEW t \in Threads, SendToAllNext(t)
    PROVE  \A u \in Threads' : Busy(u)'
<1>1. Threads' = Threads /\ \A n : Linked(n)' = Linked(n)
  BY NetConstant
<1>2. /\ thread \in [Threads -> Records(Messages(submitted, Chains))]
      /\ \A u \in Threads : Busy(u)
  BY DEF NetInv, Flow
<1>3. thread[t] \in Records(Messages(submitted, Chains))
  BY <1>2
<1>4. /\ thread'[t].pc = thread[t].pc /\ thread'[t].out = thread[t].out
      /\ thread'[t].todo = Tail(thread[t].todo)
      /\ \A u \in Threads : u # t => thread'[u] = thread[u]
      /\ lock' = lock /\ thread[t].pc = "relay" /\ thread[t].todo # <<>>
  BY <1>2, <1>3 DEF SendToAllNext, Records
<1>5. Tail(thread[t].todo) \in Seq(Linked(t[1]))
  BY <1>2, <1>4, TailTyped DEF Busy
<1>6. Busy(t)'
  BY <1>1, <1>2, <1>4, <1>5 DEF Busy
<1>7. ASSUME NEW u \in Threads, u # t PROVE Busy(u)'
  BY <1>1, <1>2, <1>4, <1>7 DEF Busy
<1>. QED BY <1>1, <1>6, <1>7

\* A thread that is done with its peers gives the lock back.
LEMMA UnlockKeeps ==
    ASSUME NetInv, NetNext, NEW t \in Threads, SendToAllUnlock(t)
    PROVE  \A u \in Threads' : Busy(u)'
<1>1. Threads' = Threads /\ \A n : Linked(n)' = Linked(n)
  BY NetConstant
<1>2. /\ thread \in [Threads -> Records(Messages(submitted, Chains))]
      /\ \A u \in Threads : Busy(u)
      /\ lock \in [Nodes -> AllThreads \cup {Free}]
      /\ net \in Deployments
  BY DEF NetInv, Flow, Shape
<1>3. t[1] \in Nodes /\ Free \notin Threads
  BY <1>2, NetAssumption, Ends DEF Free, AllThreads
<1>4. thread[t] \in Records(Messages(submitted, Chains))
  BY <1>2
<1>5. /\ thread'[t].pc = Home(t) /\ thread'[t].out = NoMessage
      /\ thread'[t].todo = thread[t].todo /\ thread[t].todo = <<>>
      /\ \A u \in Threads : u # t => thread'[u] = thread[u]
  BY <1>2, <1>4 DEF SendToAllUnlock, Set, Records
<1>6. thread[t].pc = "relay" /\ lock' = [lock EXCEPT ![t[1]] = Free]
  BY DEF SendToAllUnlock
<1>7. lock[t[1]] = t
  BY <1>2, <1>6 DEF Busy
<1>8. Busy(t)'
  BY <1>1, <1>2, <1>3, <1>5, <1>6 DEF Busy, Home
<1>9. ASSUME NEW u \in Threads, u # t PROVE Busy(u)'
  <2>1. thread'[u] = thread[u] /\ Busy(u) /\ u # Free
    BY <1>2, <1>3, <1>5, <1>9
  <2>2. lock'[u[1]] = u <=> lock[u[1]] = u
    BY <1>2, <1>3, <1>6, <1>7, <1>9, <2>1
  <2>. QED BY <1>1, <2>1, <2>2 DEF Busy
<1>. QED BY <1>1, <1>8, <1>9

\* A peer list is sent under the mutex too.
LEMMA ListKeeps ==
    ASSUME NetInv, NetNext, NEW l \in Links, SendPeerList(l) \/ PeerListSent(l)
    PROVE  \A u \in Threads' : Busy(u)'
<1>1. Threads' = Threads /\ \A n : Linked(n)' = Linked(n)
  BY NetConstant
<1>2. /\ thread \in [Threads -> Records(Messages(submitted, Chains))]
      /\ \A u \in Threads : Busy(u)
      /\ lock \in [Nodes -> AllThreads \cup {Free}]
      /\ net \in Deployments
  BY DEF NetInv, Flow, Shape
<1>3. l \in Threads /\ l[1] \in Nodes /\ Free \notin Threads
  BY <1>2, NetAssumption, Ends DEF Free, AllThreads
<1>4. thread[l] \in Records(Messages(submitted, Chains))
  BY <1>2, <1>3
<1>5. PICK pc \in {"listing", "recv"}, out \in {NoMessage, [type |-> "peer_list"]},
           holder \in {l, Free} :
         /\ Set(l, pc, out) /\ lock' = [lock EXCEPT ![l[1]] = holder]
         /\ pc = "listing" <=> out # NoMessage
         /\ pc = "listing" <=> holder = l
         /\ thread[l].pc \in {"list", "listing"}
         /\ lock[l[1]] = Free \/ thread[l].pc = "listing"
  <2>1. [type |-> "peer_list"] # NoMessage
    BY DEF NoMessage
  <2>2. CASE SendPeerList(l)
    BY <2>1, <2>2 DEF SendPeerList
  <2>3. CASE PeerListSent(l)
    <3>1. l # Free
      BY <1>3
    <3>. QED BY <2>3, <3>1 DEF PeerListSent
  <2>. QED BY <2>2, <2>3
<1>6. lock[l[1]] \in {l, Free}
  BY <1>2, <1>3, <1>5 DEF Busy
<1>7. /\ thread'[l].pc = pc /\ thread'[l].out = out
      /\ thread'[l].todo = thread[l].todo
      /\ \A u \in Threads : u # l => thread'[u] = thread[u]
  BY <1>2, <1>3, <1>4, <1>5 DEF Set, Records
<1>8. Busy(l)'
  <2>1. lock'[l[1]] = holder
    BY <1>2, <1>3, <1>5
  <2>2. thread[l].pc # "relay" /\ thread[l].todo = <<>> /\ thread[l].todo \in Seq(Linked(l[1]))
    BY <1>2, <1>3, <1>5 DEF Busy
  <2>. QED BY <1>1, <1>5, <1>7, <2>1, <2>2 DEF Busy
<1>9. ASSUME NEW u \in Threads, u # l PROVE Busy(u)'
  <2>1. thread'[u] = thread[u] /\ Busy(u) /\ u # Free
    BY <1>2, <1>3, <1>7, <1>9
  <2>2. lock'[u[1]] = u <=> lock[u[1]] = u
    BY <1>2, <1>3, <1>5, <1>6, <1>9, <2>1
  <2>. QED BY <1>1, <2>1, <2>2 DEF Busy
<1>. QED BY <1>1, <1>8, <1>9

\* Every step keeps the threads and their locks in order.
LEMMA BusyStep ==
    ASSUME NetInv, NetNext PROVE \A t \in Threads' : Busy(t)'
<1>. DEFINE M == Messages(submitted, Chains)
<1>1. /\ net \in Deployments /\ channel \in [Links -> Seq(M)]
      /\ \A t \in Threads : Busy(t)
  BY DEF NetInv, Shape, Flow
<1>2. \A l \in Links : l \in Threads /\ l[1] \in Nodes
  BY <1>1, NetAssumption, Ends
<1>3. {"sync", "send", "list", "recv", "idle", "lock"} \subseteq Places \ {"relay", "listing"}
  BY DEF Places
<1>4. ASSUME NEW l \in Links, NEW type \in {"tx", "block", "sync_request", "sync_response"},
             Takes(l, type)
      PROVE  thread[l].pc = "recv" /\ Received(l) # NoMessage
  <2>. HIDE DEF M
  <2>1. Received(l) \in M /\ thread[l].pc = "recv"
    BY <1>1, <1>4, TakeTyped
  <2>. QED BY <2>1, MessageBrings DEF M
<1>5. ASSUME NEW l \in Links, AddPeer(l) PROVE \A t \in Threads' : Busy(t)'
  BY <1>2, <1>3, <1>5, SetKeeps DEF AddPeer
<1>6. ASSUME NEW l \in Links, RequestSync(l) PROVE \A t \in Threads' : Busy(t)'
  <2>1. PICK m : m = [type |-> "sync_request", from |-> Len(chain[l[1]]) - 1]
    OBVIOUS
  <2>2. m.type # NoMessage.type
    BY <2>1 DEF NoMessage
  <2>. QED BY <1>2, <1>3, <1>6, <2>1, <2>2, SetKeeps DEF RequestSync
<1>7. ASSUME NEW l \in Links, SendToPeer(l) PROVE \A t \in Threads' : Busy(t)'
  <2>1. PICK pc \in {"list", "recv"} : Set(l, pc, NoMessage)
    BY <1>7 DEF SendToPeer
  <2>. QED BY <1>2, <1>3, <1>7, <2>1, SetKeeps DEF SendToPeer
<1>8. ASSUME NEW l \in Links, ReceiveTx(l) PROVE \A t \in Threads' : Busy(t)'
  <2>1. PICK m : m = Received(l)
    OBVIOUS
  <2>2. thread[l].pc = "recv" /\ m # NoMessage
    BY <1>4, <1>8, <2>1 DEF ReceiveTx
  <2>3. thread' = thread \/ Set(l, "lock", m)
    BY <1>8, <2>1 DEF ReceiveTx
  <2>. QED BY <1>2, <1>3, <1>8, <2>2, <2>3, SetKeeps, SameKeeps DEF ReceiveTx
<1>9. ASSUME NEW l \in Links, ReceiveBlock(l) PROVE \A t \in Threads' : Busy(t)'
  <2>1. PICK m : m = Received(l)
    OBVIOUS
  <2>2. thread[l].pc = "recv" /\ m # NoMessage
    BY <1>4, <1>9, <2>1 DEF ReceiveBlock
  <2>3. thread' = thread \/ Set(l, "lock", m)
    BY <1>9, <2>1 DEF ReceiveBlock
  <2>. QED BY <1>2, <1>3, <1>9, <2>2, <2>3, SetKeeps, SameKeeps DEF ReceiveBlock
<1>10. ASSUME NEW l \in Links, ReceiveSyncRequest(l) PROVE \A t \in Threads' : Busy(t)'
  <2>1. PICK m : m = [type |-> "sync_response", from |-> Received(l).from,
                      blocks |-> chain[l[1]]]
    OBVIOUS
  <2>2. m.type # NoMessage.type
    BY <2>1 DEF NoMessage
  <2>3. thread[l].pc = "recv"
    BY <1>4, <1>10 DEF ReceiveSyncRequest
  <2>. QED BY <1>2, <1>3, <1>10, <2>1, <2>2, <2>3, SetKeeps DEF ReceiveSyncRequest
<1>11. ASSUME NEW l \in Links, ReceiveSyncResponse(l) PROVE \A t \in Threads' : Busy(t)'
  BY <1>11, SameKeeps DEF ReceiveSyncResponse
<1>14. ASSUME NEW l \in Links, ReceivePeerList(l) PROVE \A t \in Threads' : Busy(t)'
  BY <1>14, SameKeeps DEF ReceivePeerList
<1>12. ASSUME NEW n \in Nodes, Mine(n) PROVE \A t \in Threads' : Busy(t)'
  <2>1. PICK m : m = [type |-> "block", block |-> Append(chain[n], [by |-> n, txs |-> pool[n]])]
    OBVIOUS
  <2>2. m.type # NoMessage.type
    BY <2>1 DEF NoMessage
  <2>3. <<n, "miner">> \in Threads
    BY <1>1, <1>12, NetAssumption, Ends DEF Mine
  <2>. QED BY <1>3, <1>12, <2>1, <2>2, <2>3, SetKeeps DEF Mine
<1>13. ASSUME NEW tx \in net.txs, Submit(tx) PROVE \A t \in Threads' : Busy(t)'
  <2>1. PICK m : m = [type |-> "tx", tx |-> tx]
    OBVIOUS
  <2>2. m.type # NoMessage.type
    BY <2>1 DEF NoMessage
  <2>3. <<Entry, "client">> \in Threads
    BY <1>1, NetAssumption, Ends
  <2>. QED BY <1>3, <1>13, <2>1, <2>2, <2>3, SetKeeps DEF Submit
<1>. QED BY <1>5, <1>6, <1>7, <1>8, <1>9, <1>10, <1>11, <1>12, <1>13, <1>14,
            LockKeeps, NextKeeps, UnlockKeeps, ListKeeps DEF NetNext, Step, Receive

-----------------------------------------------------------------------------
(* Buffers, and the data of a node.                                        *)

\* No step overfills a buffer.
LEMMA RoomsStep == ASSUME NetInv, NetNext PROVE Rooms'
<1>. DEFINE M == Messages(submitted, Chains)
<1>1. /\ net \in Deployments /\ channel \in [Links -> Seq(M)]
      /\ Capacity \in Nat \ {0} /\ \A l \in Links : Len(channel[l]) <= Capacity
  BY NetAssumption, Ends DEF NetInv, Shape, Flow, Rooms
<1>2. Links' = Links /\ Capacity' = Capacity
  BY NetConstant
<1>. HIDE DEF M
<1>3. ASSUME NEW l \in Links, NEW type, Takes(l, type) PROVE Rooms'
  <2>1. \A k \in Links : Len(channel'[k]) <= Len(channel[k])
    BY <1>1, <1>3, TakeTyped
  <2>2. channel' \in [Links -> Seq(M)]
    BY <1>1, <1>3, TakeTyped
  <2>3. ASSUME NEW k \in Links PROVE Len(channel'[k]) <= Capacity
    <3>1. Len(channel'[k]) \in Nat /\ Len(channel[k]) \in Nat
      BY <1>1, <2>2
    <3>. QED BY <1>1, <2>1, <3>1
  <2>. QED BY <1>2, <2>3 DEF Rooms
<1>4. ASSUME NEW l, Len(channel[l]) < Capacity, NEW m,
             channel' = [channel EXCEPT ![l] = Append(@, m)]
      PROVE  Rooms'
  <2>1. ASSUME NEW k \in Links PROVE Len(channel'[k]) <= Capacity
    <3>1. CASE k = l
      <4>1. channel'[k] = Append(channel[k], m) /\ channel[k] \in Seq(M)
        BY <1>1, <1>4, <3>1
      <4>2. Len(Append(channel[k], m)) = Len(channel[k]) + 1 /\ Len(channel[k]) \in Nat
        BY <4>1
      <4>. QED BY <1>1, <1>4, <3>1, <4>1, <4>2
    <3>2. CASE k # l
      <4>1. channel'[k] = channel[k]
        BY <1>1, <1>4, <3>2
      <4>. QED BY <1>1, <4>1
    <3>. QED BY <3>1, <3>2
  <2>. QED BY <1>2, <2>1 DEF Rooms
<1>5. ASSUME channel' = channel PROVE Rooms'
  BY <1>1, <1>2, <1>5 DEF Rooms
<1>6. ASSUME NEW t \in Threads, SendToAllNext(t) PROVE Rooms'
  <2>1. PICK l : l = <<t[1], Head(thread[t].todo)>>
    OBVIOUS
  <2>2. PICK m : m = thread[t].out
    OBVIOUS
  <2>. QED BY <1>4, <1>6, <2>1, <2>2 DEF SendToAllNext
<1>7. ASSUME NEW l \in Links, SendToPeer(l) \/ PeerListSent(l) PROVE Rooms'
  <2>1. PICK m : m = thread[l].out
    OBVIOUS
  <2>. QED BY <1>4, <1>7, <2>1 DEF SendToPeer, PeerListSent
<1>8. ASSUME NEW l \in Links, Receive(l) PROVE Rooms'
  BY <1>3, <1>8 DEF Receive, ReceiveTx, ReceiveBlock, ReceiveSyncRequest, ReceiveSyncResponse,
                     ReceivePeerList
<1>9. ASSUME NEW t \in Threads,
             SendToAllLock(t) \/ SendToAllUnlock(t) \/ AddPeer(t) \/ RequestSync(t)
                \/ SendPeerList(t)
      PROVE  Rooms'
  BY <1>5, <1>9 DEF SendToAllLock, SendToAllUnlock, AddPeer, RequestSync, SendPeerList
<1>10. ASSUME NEW n, Mine(n) \/ Submit(n) PROVE Rooms'
  BY <1>5, <1>10 DEF Mine, Submit
<1>. QED BY <1>6, <1>7, <1>8, <1>9, <1>10 DEF NetNext, Step

\* Every step keeps the types of the variables.
LEMMA ShapeStep == ASSUME NetInv, NetNext PROVE Shape'
<1>1. /\ net \in Deployments /\ submitted \subseteq net.txs
      /\ pool \in [Nodes -> SUBSET submitted]
      /\ \A n \in Nodes : peers[n] \in Seq(Linked(n))
      /\ peers \in [Nodes -> Seq(Nodes)]
      /\ lock \in [Nodes -> AllThreads \cup {Free}]
  BY DEF NetInv, Shape
<1>2. net' = net /\ \A n : Linked(n)' = Linked(n)
  BY NetConstant
<1>3. \A l \in Links : l[1] \in Nodes /\ l[2] \in Linked(l[1]) /\ l[2] \in Nodes
  BY <1>1, NetAssumption, Ends DEF Linked
<1>4. \A t \in Threads : t[1] \in Nodes /\ t \in AllThreads
  BY <1>1, NetAssumption, Ends
\* Most steps leave the peers alone and put no transaction into the pool.
<1>5. ASSUME UNCHANGED <<peers, submitted>>, pool' \in [Nodes -> SUBSET submitted],
             lock' \in [Nodes -> AllThreads \cup {Free}]
      PROVE  Shape'
  BY <1>1, <1>2, <1>5 DEF Shape
<1>6. ASSUME NEW t \in Threads,
             SendToAllLock(t) \/ SendToAllNext(t) \/ SendToAllUnlock(t)
      PROVE  Shape'
  BY <1>1, <1>4, <1>5, <1>6 DEF SendToAllLock, SendToAllNext, SendToAllUnlock
<1>7. ASSUME NEW l \in Links, AddPeer(l) PROVE Shape'
  <2>1. peers' = [peers EXCEPT ![l[1]] = Append(peers[l[1]], l[2])]
    BY <1>7 DEF AddPeer
  <2>2. /\ Append(peers[l[1]], l[2]) \in Seq(Nodes)
        /\ Append(peers[l[1]], l[2]) \in Seq(Linked(l[1]))
    BY <1>1, <1>3
  <2>3. peers' \in [Nodes -> Seq(Nodes)] /\ \A n \in Nodes : peers'[n] \in Seq(Linked(n))
    BY <1>1, <1>3, <2>1, <2>2
  <2>. QED BY <1>1, <1>2, <1>7, <2>3 DEF Shape, AddPeer
<1>8. ASSUME NEW l \in Links, RequestSync(l) \/ SendToPeer(l) PROVE Shape'
  BY <1>1, <1>5, <1>8 DEF RequestSync, SendToPeer
<1>9. ASSUME NEW l \in Links, ReceiveTx(l) PROVE Shape'
  <2>. DEFINE M == Messages(submitted, Chains)
  <2>1. channel \in [Links -> Seq(M)] /\ Takes(l, "tx")
    BY <1>9 DEF NetInv, Flow, ReceiveTx
  <2>. HIDE DEF M
  <2>2. Received(l) \in M /\ Received(l).type = "tx"
    BY <1>1, <2>1, TakeTyped
  <2>3. Received(l).tx \in submitted
    BY <2>2, MessageBrings DEF M
  <2>4. pool' \in [Nodes -> SUBSET submitted]
    BY <1>1, <1>9, <2>3 DEF ReceiveTx
  <2>. QED BY <1>1, <1>5, <1>9, <2>4 DEF ReceiveTx
<1>10. ASSUME NEW l \in Links, ReceiveBlock(l) PROVE Shape'
  <2>1. pool' \in [Nodes -> SUBSET submitted]
    BY <1>1, <1>10 DEF ReceiveBlock
  <2>. QED BY <1>1, <1>5, <1>10, <2>1 DEF ReceiveBlock
<1>11. ASSUME NEW l \in Links,
              ReceiveSyncRequest(l) \/ ReceiveSyncResponse(l) \/ ReceivePeerList(l)
       PROVE  Shape'
  BY <1>1, <1>5, <1>11 DEF ReceiveSyncRequest, ReceiveSyncResponse, ReceivePeerList
<1>14. ASSUME NEW l \in Links, SendPeerList(l) \/ PeerListSent(l) PROVE Shape'
  <2>1. l \in AllThreads /\ l[1] \in Nodes
    BY <1>1, NetAssumption, Ends
  <2>2. lock' \in [Nodes -> AllThreads \cup {Free}]
    BY <1>1, <1>14, <2>1 DEF SendPeerList, PeerListSent
  <2>. QED BY <1>1, <1>5, <1>14, <2>2 DEF SendPeerList, PeerListSent
<1>12. ASSUME NEW n \in Nodes, Mine(n) PROVE Shape'
  BY <1>1, <1>5, <1>12 DEF Mine
<1>13. ASSUME NEW tx \in net.txs, Submit(tx) PROVE Shape'
  <2>1. submitted' = submitted \cup {tx} /\ UNCHANGED <<peers, lock>>
    BY <1>13 DEF Submit
  <2>2. pool' \in [Nodes -> SUBSET submitted']
    BY <1>1, <1>13, <2>1 DEF Submit
  <2>. QED BY <1>1, <1>2, <1>13, <2>1, <2>2 DEF Shape
<1>. QED BY <1>6, <1>7, <1>8, <1>9, <1>10, <1>11, <1>12, <1>13, <1>14
     DEF NetNext, Step, Receive

-----------------------------------------------------------------------------
(* Types and the mutex.                                                    *)

\* An ordering of a set is a sequence over it.
LEMMA SetToSeqTyped == ASSUME NEW S, IsFiniteSet(S) PROVE SetToSeq(S) \in Seq(S)
<1>1. Cardinality(S) \in Nat
  BY FS_CardinalityType
<1>2. PICK f : f \in Bijection(1..Cardinality(S), S)
  BY FS_CardinalityType DEF ExistsBijection
<1>3. f \in [1..Cardinality(S) -> S] /\ IsInjective(f)
  BY <1>2 DEF Bijection, Injection
<1>4. SetToSeq(S) \in [1..Cardinality(S) -> S]
  BY <1>3 DEF SetToSeq
<1>. QED BY <1>1, <1>4

\* The chains that nodes start with are chains.
LEMMA StartTyped ==
    ASSUME NetInit
    PROVE  /\ net \in Deployments /\ chain = net.start
           /\ chain \in [Nodes -> Chains]
<1>1. net \in Deployments /\ chain = net.start
  BY DEF NetInit
<1>2. net.start \in [Nodes -> Seq(Past(net))]
  BY <1>1, NetAssumption
<1>3. Seq(Past(net)) \subseteq Chains
  BY SeqGrow DEF Chains
<1>. QED BY <1>1, <1>2, <1>3

\* At the start, whatever set has the chains that are loaded.
LEMMA FlowInit ==
    ASSUME NetInit, NEW C, chain \in [Nodes -> C] PROVE Flow(C)
<1>1. <<>> \in Seq(Messages(submitted, C)) /\ <<>> \in Seq(Nodes)
  OBVIOUS
<1>2. channel \in [Links -> Seq(Messages(submitted, C))]
  BY <1>1 DEF NetInit
<1>3. \A t : [pc   |-> IF t \in Links /\ ~net.connected THEN "add" ELSE Home(t),
              out  |-> NoMessage,
              todo |-> <<>>] \in Records(Messages(submitted, C))
  BY <1>1 DEF Records, Places, Home
<1>4. thread \in [Threads -> Records(Messages(submitted, C))]
  BY <1>3 DEF NetInit
<1>. QED BY <1>2, <1>4 DEF Flow

\* A network in which nothing has been sent.
LEMMA NetInvInit == ASSUME NetInit PROVE NetInv
<1>1. net \in Deployments /\ Flow(Chains)
  BY StartTyped, FlowInit
<1>2. /\ \A l \in Links : l[1] \in Nodes /\ l[2] \in Nodes /\ l = <<l[1], l[2]>>
      /\ \A t \in Threads : t[1] \in Nodes /\ t \in AllThreads
      /\ Capacity \in Nat \ {0}
  BY <1>1, NetAssumption, Ends
<1>3. Rooms
  BY <1>2 DEF NetInit, Rooms
<1>4. ASSUME NEW n \in Nodes PROVE peers[n] \in Seq(Linked(n)) /\ peers[n] \in Seq(Nodes)
  <2>. DEFINE S == {l[2] : l \in {x \in Links : x[1] = n}}
  <2>1. S \subseteq Linked(n) /\ S \subseteq Nodes /\ Linked(n) \subseteq Nodes
    BY <1>2 DEF Linked
  <2>2. IsFiniteSet(S)
    BY <2>1, NetAssumption, FS_Subset
  <2>3. SetToSeq(S) \in Seq(S) /\ <<>> \in Seq(S)
    BY <2>2, SetToSeqTyped
  <2>4. peers[n] \in Seq(S)
    BY <2>3 DEF NetInit
  <2>. HIDE DEF S
  <2>. QED BY <2>1, <2>4, SeqGrow
<1>5. Shape
  <2>1. DOMAIN peers = Nodes /\ peers = [n \in Nodes |-> peers[n]]
    BY DEF NetInit
  <2>. QED BY <1>1, <1>4, <2>1 DEF NetInit, Shape
<1>6. ASSUME NEW t \in Threads PROVE Busy(t)
  <2>1. /\ thread[t].pc \in {"add", "recv", "idle"} /\ thread[t].out = NoMessage
        /\ thread[t].todo = <<>> /\ lock[t[1]] = Free
    BY <1>2 DEF NetInit, Home
  <2>2. t # Free
    BY <1>2, NetAssumption DEF Free, AllThreads
  <2>. QED BY <2>1, <2>2 DEF Busy
<1>. QED BY <1>1, <1>3, <1>5, <1>6 DEF NetInv

\* A mined block takes what is in the pool of its node.
LEMMA MinedTyped ==
    ASSUME NetInv, NEW n \in Nodes, Mine(n)
    PROVE  /\ chain'[n] \in Chains
           /\ \E b : chain'[n] = Append(chain[n], b) /\ b \in Past(net) \cup [by : Nodes, txs : SUBSET net.txs]
<1>. DEFINE b == [by |-> n, txs |-> pool[n]]
<1>1. chain[n] \in Seq(Past(net) \cup [by : Nodes, txs : SUBSET net.txs])
  BY DEF NetInv, Flow, Chains
<1>2. pool[n] \subseteq net.txs
  BY DEF NetInv, Shape
<1>3. b \in Past(net) \cup [by : Nodes, txs : SUBSET net.txs]
  BY <1>2
<1>4. chain'[n] = Append(chain[n], b)
  BY DEF Mine, NetInv, Flow
<1>. HIDE DEF b
<1>5. chain'[n] \in Chains
  BY <1>1, <1>3, <1>4 DEF Chains
<1>. QED BY <1>3, <1>4, <1>5

\* Every step of the network keeps its invariant.
LEMMA NetInvStep == ASSUME NetInv, [NetNext]_vars PROVE NetInv'
<1>1. CASE NetNext
  <2>1. net \in Deployments /\ Flow(Chains) /\ Shape /\ \A t \in Threads : Busy(t)
    BY DEF NetInv, Shape
  <2>2. \A n \in Nodes : Mine(n) => chain'[n] \in Chains
    BY MinedTyped
  <2>3. PICK C : C = Chains
    OBVIOUS
  <2>4. Flow(C)'
    BY <1>1, <2>1, <2>2, <2>3, FlowStep
  <2>5. C = Chains'
    BY <1>1, <2>3, NetConstant
  <2>6. Flow(Chains)'
    BY <2>4, <2>5 DEF Flow
  <2>. QED BY <1>1, <2>6, BusyStep, RoomsStep, ShapeStep DEF NetInv
<1>2. CASE UNCHANGED vars
  <2>1. Shape' /\ Flow(Chains)' /\ Rooms'
    BY <1>2 DEF vars, NetInv, Shape, Flow, Rooms, Links, Threads, Miners, Capacity,
                Chains, Linked
  <2>2. \A t \in Threads' : Busy(t)'
    BY <1>2 DEF vars, NetInv, Busy, Links, Threads, Miners, Linked
  <2>. QED BY <2>1, <2>2 DEF NetInv
<1>. QED BY <1>1, <1>2

\* Buffers keep to their size, whoever sends, and pools hold what was sent.
THEOREM NetTypeCorrect == NetSpec => []NetTypeOK
<1>1. NetInv => NetTypeOK
  <2>. SUFFICES ASSUME NetInv PROVE NetTypeOK
    OBVIOUS
  <2>1. \A t \in Threads : Busy(t) /\ thread[t].pc \in Places
    BY DEF NetInv, Flow, Records
  <2>2. \A n \in Nodes : pool[n] \subseteq submitted
    BY DEF NetInv, Shape
  <2>. QED BY <2>1, <2>2 DEF NetInv, NetTypeOK, Rooms, Busy, Places
<1>. QED BY <1>1, NetInvInit, NetInvStep, PTL DEF NetSpec

\* Two threads of a node are never both in the middle of a broadcast: the one
\* that is holds peers_mutex_.
THEOREM BroadcastsAlwaysExclusive == NetSpec => []BroadcastsExclusive
<1>1. NetInv => BroadcastsExclusive
  BY DEF NetInv, Busy, BroadcastsExclusive
<1>. QED BY <1>1, NetInvInit, NetInvStep, PTL DEF NetSpec

-----------------------------------------------------------------------------
(* One miner.                                                              *)

\* A sequence is a prefix when it agrees in all its elements.
LEMMA PrefixElements ==
    ASSUME NEW S, NEW s \in Seq(S), NEW t \in Seq(S)
    PROVE  IsPrefix(s, t) <=> /\ Len(s) <= Len(t)
                              /\ \A i \in 1..Len(s) : s[i] = t[i]
<1>1. SubSeq(s, 1, Len(s)) = s
  BY DEF IsPrefix
<1>2. CASE Len(s) <= Len(t)
  <2>1. SubSeq(t, 1, Len(s)) \in Seq(S) /\ Len(SubSeq(t, 1, Len(s))) = Len(s)
        /\ \A i \in 1..Len(s) : SubSeq(t, 1, Len(s))[i] = t[i]
    BY <1>2
  <2>. QED BY <1>1, <1>2, <2>1, SeqEqual DEF IsPrefix
<1>. QED BY <1>2 DEF IsPrefix

\* Every sequence is a prefix of itself,
LEMMA PrefixSelf == ASSUME NEW S, NEW s \in Seq(S) PROVE IsPrefix(s, s)
  BY PrefixElements

\* a prefix of a prefix is a prefix,
LEMMA PrefixTransitive ==
    ASSUME NEW S, NEW s \in Seq(S), NEW t \in Seq(S), NEW u \in Seq(S),
           IsPrefix(s, t), IsPrefix(t, u)
    PROVE  IsPrefix(s, u)
  BY PrefixElements

\* a sequence is a prefix of it with one more element,
LEMMA PrefixAppend ==
    ASSUME NEW S, NEW s \in Seq(S), NEW e \in S PROVE IsPrefix(s, Append(s, e))
<1>1. /\ Append(s, e) \in Seq(S) /\ Len(Append(s, e)) = Len(s) + 1
      /\ \A i \in 1..Len(s) : Append(s, e)[i] = s[i]
  OBVIOUS
<1>2. Len(s) <= Len(Append(s, e))
  BY <1>1
<1>. QED BY <1>1, <1>2, PrefixElements

\* and without its last one it is a prefix of it.
LEMMA PrefixFront == ASSUME NEW S, NEW s \in Seq(S) PROVE IsPrefix(Front(s), s)
<1>1. CASE s = <<>>
  <2>1. Front(s) = <<>> /\ Len(s) = 0
    BY <1>1 DEF Front
  <2>. QED BY <1>1, <2>1, PrefixSelf
<1>2. CASE s # <<>>
  <2>1. Len(s) \in Nat /\ Len(s) >= 1
    BY <1>2
  <2>2. Front(s) \in Seq(S) /\ Len(Front(s)) = Len(s) - 1
        /\ \A i \in 1..(Len(s) - 1) : Front(s)[i] = s[i]
    <3>1. PICK k : k = Len(s) - 1 /\ k \in 0..Len(s)
      BY <2>1
    <3>2. SubSeq(s, 1, k) \in Seq(S) /\ Len(SubSeq(s, 1, k)) = k
          /\ \A i \in 1..k : SubSeq(s, 1, k)[i] = s[i]
      BY <2>1, <3>1
    <3>. QED BY <3>1, <3>2 DEF Front
  <2>3. Len(Front(s)) <= Len(s)
    BY <2>1, <2>2
  <2>. QED BY <2>1, <2>2, <2>3, PrefixElements
<1>. QED BY <1>1, <1>2

\* A node never takes a block back.
LEMMA ChainsGrow ==
    ASSUME NetInv, NetNext, NEW n \in Nodes PROVE IsPrefix(chain[n], chain'[n])
<1>. DEFINE M == Messages(submitted, Chains)
<1>1. /\ chain \in [Nodes -> Chains] /\ channel \in [Links -> Seq(M)]
      /\ net \in Deployments
  BY DEF NetInv, Flow, Shape
<1>2. IsPrefix(chain[n], chain[n])
  BY <1>1, PrefixSelf DEF Chains
<1>. HIDE DEF M
<1>3. ASSUME NEW l \in Links, ReceiveBlock(l) PROVE IsPrefix(chain[n], chain'[n])
  <2>1. Received(l) \in M /\ Received(l).type = "block"
    BY <1>1, <1>3, TakeTyped DEF ReceiveBlock
  <2>2. Received(l).block \in Chains
    BY <2>1, MessageBrings DEF M
  <2>3. chain' = chain \/ /\ chain' = [chain EXCEPT ![l[1]] = Received(l).block]
                          /\ Front(Received(l).block) = chain[l[1]]
    BY <1>3 DEF ReceiveBlock
  <2>4. IsPrefix(Front(Received(l).block), Received(l).block)
    BY <2>2, PrefixFront DEF Chains
  <2>. QED BY <1>1, <1>2, <2>3, <2>4
<1>4. ASSUME NEW l \in Links, ReceiveSyncResponse(l) PROVE IsPrefix(chain[n], chain'[n])
  BY <1>1, <1>2, <1>4 DEF ReceiveSyncResponse
<1>5. ASSUME NEW m \in Nodes, Mine(m) PROVE IsPrefix(chain[n], chain'[n])
  <2>1. CASE n = m
    <3>1. PICK b : chain'[n] = Append(chain[n], b)
                   /\ b \in Past(net) \cup [by : Nodes, txs : SUBSET net.txs]
      BY <1>5, <2>1, MinedTyped
    <3>. QED BY <1>1, <3>1, PrefixAppend DEF Chains
  <2>2. CASE n # m
    BY <1>1, <1>2, <1>5, <2>2 DEF Mine
  <2>. QED BY <2>1, <2>2
<1>6. CASE chain' = chain
  BY <1>2, <1>6
<1>. QED BY <1>3, <1>4, <1>5, <1>6
     DEF NetNext, Step, SendToAllLock, SendToAllNext, SendToAllUnlock, AddPeer,
         RequestSync, SendToPeer, SendPeerList, PeerListSent, Receive, ReceiveTx,
         ReceiveSyncRequest, ReceivePeerList, Submit

\* All chains are beginnings of the miner's at first.
LEMMA FollowInit == ASSUME OneMiner, NetInit PROVE FollowInv
<1>. SUFFICES ASSUME NEW n \in Miners PROVE Flow(Beginnings(chain[n]))
  BY DEF FollowInv
<1>1. /\ net \in Deployments /\ chain = net.start
      /\ chain \in [Nodes -> Chains]
  BY StartTyped
<1>2. \A m \in Nodes : IsPrefix(chain[m], chain[n])
  BY <1>1 DEF OneMiner, Miners
<1>3. PICK C : C = Beginnings(chain[n])
  OBVIOUS
<1>4. chain \in [Nodes -> C]
  BY <1>1, <1>2, <1>3 DEF Beginnings
<1>. QED BY <1>3, <1>4, FlowInit

\* No step puts a block into memory or under way that the miner has not mined.
LEMMA FollowStep ==
    ASSUME OneMiner, NetInv, FollowInv, [NetNext]_vars PROVE FollowInv'
<1>1. CASE NetNext
  <2>1. net' = net /\ Miners' = Miners /\ Chains' = Chains
    BY <1>1, NetConstant
  <2>. SUFFICES ASSUME NEW n \in Miners PROVE Flow(Beginnings(chain[n]))'
    BY <2>1 DEF FollowInv
  <2>2. /\ net \in Deployments /\ Shape /\ \A t \in Threads : Busy(t)
        /\ chain \in [Nodes -> Chains]
    BY DEF NetInv, Shape, Flow
  <2>3. n \in Nodes /\ Miners = {n}
    BY <2>2, NetAssumption, Ends DEF OneMiner, Miners
  <2>4. chain' \in [Nodes -> Chains]
    BY <1>1, <2>1, NetInvStep DEF NetInv, Flow
  <2>5. PICK C : C = Beginnings(chain[n])
    OBVIOUS
  <2>6. PICK D : D = {b \in Chains : IsPrefix(b, chain'[n])}
    OBVIOUS
  <2>7. IsPrefix(chain[n], chain'[n])
    BY <1>1, <2>3, ChainsGrow
  <2>8. C \subseteq Chains /\ C \subseteq D
    <3>1. \A b \in Chains : IsPrefix(b, chain[n]) => IsPrefix(b, chain'[n])
      BY <2>2, <2>3, <2>4, <2>7, PrefixTransitive DEF Chains
    <3>. QED BY <2>5, <2>6, <3>1 DEF Beginnings
  <2>9. \A m \in Nodes : Mine(m) => chain'[m] \in D
    <3>1. IsPrefix(chain'[n], chain'[n]) /\ chain'[n] \in Chains
      BY <2>3, <2>4, PrefixSelf DEF Chains
    <3>. QED BY <2>3, <2>6, <3>1 DEF Mine
  <2>10. Flow(C)
    BY <2>5 DEF FollowInv
  <2>11. Flow(D)'
    BY <1>1, <2>2, <2>8, <2>9, <2>10, FlowStep
  <2>12. D = Beginnings(chain[n])'
    BY <2>1, <2>6 DEF Beginnings
  <2>. QED BY <2>11, <2>12 DEF Flow
<1>2. CASE UNCHANGED vars
  BY <1>2 DEF vars, FollowInv, Flow, Beginnings, Links, Threads, Miners, Chains
<1>. QED BY <1>1, <1>2

\* With one miner nobody invents or reorders blocks: every other chain, and
\* every block under way, is a beginning of the miner's chain.
THEOREM AllFollowMiner == ASSUME OneMiner PROVE NetSpec => []FollowsMiner
<1>. USE OneMiner
<1>1. NetInv /\ FollowInv => FollowsMiner
  <2>. SUFFICES ASSUME NetInv, FollowInv, NEW n \in Miners
                PROVE  /\ \A m \in Nodes : IsPrefix(chain[m], chain[n])
                       /\ \A b \in InFlight : IsPrefix(b, chain[n])
    BY DEF FollowsMiner
  <2>1. PICK C : C = Beginnings(chain[n])
    OBVIOUS
  <2>2. chain \in [Nodes -> C] /\ channel \in [Links -> Seq(Messages(submitted, C))]
    BY <2>1 DEF FollowInv, Flow
  <2>3. ASSUME NEW l \in Links, NEW m \in Range(channel[l]), m.type = "block"
        PROVE  m.block \in C
    <3>1. channel[l] \in Seq(Messages(submitted, C))
      BY <2>2
    <3>2. m \in Messages(submitted, C)
      BY <3>1 DEF Range
    <3>. QED BY <2>3, <3>2, MessageBrings
  <2>4. \A b \in InFlight : b \in C
    BY <2>3 DEF InFlight
  <2>. QED BY <2>1, <2>2, <2>4 DEF Beginnings
<1>. QED BY <1>1, NetInvInit, NetInvStep, FollowInit, FollowStep, PTL DEF NetSpec
=============================================================================
