----------------------------- MODULE PeerTable -----------------------------
(***************************************************************************)
(* The connections of one node (class Node, node.cpp): the accepting       *)
(* thread, a detached thread per connection, discovery by peer lists, and  *)
(* stop, which the main thread calls while the others go on.               *)
(*                                                                         *)
(* An address has a host and a port.  A peer listens on one port; when it  *)
(* connects to us, its socket has another one, and that is the address     *)
(* under which the connection is recorded.  A socket is a member of Conns  *)
(* and is used once.                                                       *)
(*                                                                         *)
(* close does not wake a thread that is blocked in recv on the same        *)
(* descriptor: it stays there until the peer sends or disconnects.  A send *)
(* blocks until the peer makes room for it or disconnects, and the         *)
(* broadcasts and the peer lists are sent under peers_mutex_.              *)
(***************************************************************************)
EXTENDS Naturals, Sequences, SequencesExt

CONSTANTS
    Conns,          \* the descriptors
    Hosts,          \* the other nodes
    MaxList         \* what a thread has to do after one recv

ASSUME PeerAssumption ==
    /\ MaxList \in Nat
    /\ "main" \notin Conns /\ "nobody" \notin Conns

VARIABLES
    running,        \* running_
    server,         \* the accepting thread: "loop" or "ended"
    main,           \* the main thread
    peers,          \* peers_
    lock,           \* the thread that holds peers_mutex_, or "nobody"
    conn,           \* socket -> its thread
    closes          \* socket -> how often it was closed

vars == <<running, server, main, peers, lock, conn, closes>>

Listening(host) == [host |-> host, port |-> "listening"]
Ephemeral(host) == [host |-> host, port |-> "ephemeral"]
Self == Listening("self")       \* our own port on 127.0.0.1

Addresses == {Self} \cup {Listening(h) : h \in Hosts} \cup {Ephemeral(h) : h \in Hosts}

\* What a message makes a thread do: look up an address of a "peer_list"
\* ("known"), send a valid transaction or block to all ("relay"), or answer its
\* peer ("answer": "sync_request", "get_height", "height").
Tasks ==
    [type : {"known"}, address : Addresses] \cup {[type |-> "relay"], [type |-> "answer"]}

\* A socket without a thread; todo is what its messages have left to do.
Unused == [pc |-> "none", address |-> Self, todo |-> <<>>]

Thread(address) == [pc |-> "new", address |-> address, todo |-> <<>>]

Goto(c, pc) == conn' = [conn EXCEPT ![c].pc = pc]

\* Sockets in use: opened and not closed.
Open == {c \in Conns : conn[c].pc # "none" /\ closes[c] = 0}

Entries == {peers[i] : i \in DOMAIN peers}

-----------------------------------------------------------------------------
(* The accepting thread.                                                   *)

\* accept; handle_peer_connection in a detached thread.
Accept ==
    /\ server = "loop"
    /\ \E c \in Conns, h \in Hosts :
         /\ conn[c].pc = "none"
         /\ conn' = [conn EXCEPT ![c] = Thread(Ephemeral(h))]
    /\ UNCHANGED <<running, server, main, peers, lock, closes>>

\* while (running_), looked at once a second.
ServerEnds ==
    /\ server = "loop"
    /\ ~running
    /\ server' = "ended"
    /\ UNCHANGED <<running, main, peers, lock, conn, closes>>

-----------------------------------------------------------------------------
(* The thread of connection c: handle_peer_connection.                     *)

\* add_peer: the same socket is not recorded twice.  Then request_sync sends.
AddPeer(c) ==
    /\ conn[c].pc = "new"
    /\ lock = "nobody"
    /\ peers' = IF c \in Entries THEN peers ELSE Append(peers, c)
    /\ Goto(c, "sync")
    /\ UNCHANGED <<running, server, main, lock, closes>>

\* The send of request_sync has returned: send_peer_list.
SyncSent(c) ==
    /\ conn[c].pc = "sync"
    /\ Goto(c, "list")
    /\ UNCHANGED <<running, server, main, peers, lock, closes>>

\* send_peer_list: takes the mutex, collects the addresses of the other
\* entries, and sends them.
SendPeerList(c) ==
    /\ conn[c].pc = "list"
    /\ lock = "nobody"
    /\ lock' = c
    /\ Goto(c, "listing")
    /\ UNCHANGED <<running, server, main, peers, closes>>

\* The send has returned; the mutex is given back.
PeerListSent(c) ==
    /\ conn[c].pc = "listing"
    /\ lock' = "nobody"
    /\ Goto(c, "top")
    /\ UNCHANGED <<running, server, main, peers, closes>>

\* Mutant: the loop does not look at running_.
LoopForEver(c) ==
    /\ conn[c].pc = "top"
    /\ Goto(c, "recv")
    /\ UNCHANGED <<running, server, main, peers, lock, closes>>

\* while (running_) ...
LoopTop(c) ==
    /\ conn[c].pc = "top"
    /\ Goto(c, IF running THEN "recv" ELSE "leave")
    /\ UNCHANGED <<running, server, main, peers, lock, closes>>

\* Where a thread goes with this left to do.
Place(todo) == IF todo = <<>> THEN "top" ELSE Head(todo).type

\* recv, from a peer that records any addresses.  All messages that it
\* completes are handled before running_ is looked at again; those that ask for
\* nothing leave no task.
Receive(c) ==
    /\ conn[c].pc = "recv"
    /\ \E todo \in BoundedSeq(Tasks, MaxList) :
         conn' = [conn EXCEPT ![c] = [pc |-> Place(todo), address |-> @.address, todo |-> todo]]
    /\ UNCHANGED <<running, server, main, peers, lock, closes>>

\* recv fails: the peer has disconnected.
Disconnected(c) ==
    /\ conn[c].pc = "recv"
    /\ Goto(c, "leave")
    /\ UNCHANGED <<running, server, main, peers, lock, closes>>

\* Mutant: the end of the list is not looked at.
NextForEver(c) ==
    [pc |-> "known", address |-> conn[c].address, todo |-> Tail(conn[c].todo)]

\* The thread of c is done with the first of its tasks.
NextTask(c) ==
    [pc      |-> Place(Tail(conn[c].todo)),
     address |-> conn[c].address,
     todo    |-> Tail(conn[c].todo)]

\* send_to_all: takes the mutex, and sends to one entry after the other.
Relay(c) ==
    /\ conn[c].pc = "relay"
    /\ lock = "nobody"
    /\ lock' = c
    /\ Goto(c, "relaying")
    /\ UNCHANGED <<running, server, main, peers, closes>>

\* The last of its sends has returned; the mutex is given back.
Relayed(c) ==
    /\ conn[c].pc = "relaying"
    /\ lock' = "nobody"
    /\ conn' = [conn EXCEPT ![c] = NextTask(c)]
    /\ UNCHANGED <<running, server, main, peers, closes>>

\* The send of send_to_peer has returned.
Answered(c) ==
    /\ conn[c].pc = "answer"
    /\ conn' = [conn EXCEPT ![c] = NextTask(c)]
    /\ UNCHANGED <<running, server, main, peers, lock, closes>>

\* connect_to_known_peers, for the next address: "Skip our own port.";
\* "Check if already connected."
Lookup(c) ==
    /\ conn[c].pc = "known"
    /\ lock = "nobody"
    /\ LET a == Head(conn[c].todo).address
       IN  conn' = [conn EXCEPT ![c] =
                      IF a = Self \/ \E d \in Entries : conn[d].address = a
                      THEN NextTask(c) ELSE [conn[c] EXCEPT !.pc = "connect"]]
    /\ UNCHANGED <<running, server, main, peers, lock, closes>>

\* connect_to_peer: only a listening port can be connected to.
Connect(c) ==
    /\ conn[c].pc = "connect"
    /\ LET a == Head(conn[c].todo).address
       IN  /\ a.port = "listening"
           /\ \E d \in Conns :
                /\ conn[d].pc = "none"
                /\ conn' = [conn EXCEPT ![d] = Thread(a), ![c] = NextTask(c)]
    /\ UNCHANGED <<running, server, main, peers, lock, closes>>

\* socket() or connect() fails.
ConnectFails(c) ==
    /\ conn[c].pc = "connect"
    /\ conn' = [conn EXCEPT ![c] = NextTask(c)]
    /\ UNCHANGED <<running, server, main, peers, lock, closes>>

\* Mutant: closes the socket also when the table no longer has it.
RemoveAlwaysCloses(c) ==
    /\ conn[c].pc = "leave"
    /\ lock = "nobody"
    /\ closes' = [closes EXCEPT ![c] = @ + 1]
    /\ peers' = SelectSeq(peers, LAMBDA d : d # c)
    /\ Goto(c, "ended")
    /\ UNCHANGED <<running, server, main, lock>>

\* remove_peer: closes the socket if the table still has it.
RemovePeer(c) ==
    /\ conn[c].pc = "leave"
    /\ lock = "nobody"
    /\ IF c \in Entries
       THEN /\ \E i \in DOMAIN peers :
                 /\ peers[i] = c
                 /\ \A j \in 1..(i - 1) : peers[j] # c
                 /\ peers' = RemoveAt(peers, i)
            /\ closes' = [closes EXCEPT ![c] = @ + 1]
       ELSE UNCHANGED <<peers, closes>>
    /\ Goto(c, "ended")
    /\ UNCHANGED <<running, server, main, lock>>

-----------------------------------------------------------------------------
(* The main thread: connect, broadcast until the signal comes, stop.       *)

\* --connect, which may fail.
ConnectFirst ==
    /\ main = "start"
    /\ \/ UNCHANGED conn
       \/ \E c \in Conns, h \in Hosts :
            /\ conn[c].pc = "none"
            /\ conn' = [conn EXCEPT ![c] = Thread(Listening(h))]
    /\ main' = "wait"
    /\ UNCHANGED <<running, server, peers, lock, closes>>

\* The miner of run mode has a block for broadcast_block.
Broadcast ==
    /\ main = "wait"
    /\ main' = "relay"
    /\ UNCHANGED <<running, server, peers, lock, conn, closes>>

\* Its send_to_all takes the mutex,
BroadcastLock ==
    /\ main = "relay"
    /\ lock = "nobody"
    /\ lock' = "main"
    /\ main' = "relaying"
    /\ UNCHANGED <<running, server, peers, conn, closes>>

\* and gives it back when the last of its sends has returned.
BroadcastSent ==
    /\ main = "relaying"
    /\ lock' = "nobody"
    /\ main' = "wait"
    /\ UNCHANGED <<running, server, peers, conn, closes>>

\* SIGINT; running_ = false;
StopFlag ==
    /\ main = "wait"
    /\ running' = FALSE
    /\ main' = "join"
    /\ UNCHANGED <<server, peers, lock, conn, closes>>

StopJoin ==
    /\ main = "join"
    /\ server = "ended"
    /\ main' = "close"
    /\ UNCHANGED <<running, server, peers, lock, conn, closes>>

\* Mutant: the table is not cleared.
StopKeepsTable ==
    /\ main = "close"
    /\ lock = "nobody"
    /\ closes' = [c \in Conns |-> IF c \in Entries THEN closes[c] + 1 ELSE closes[c]]
    /\ main' = "stopped"
    /\ UNCHANGED <<running, server, peers, lock, conn>>

\* "Close all peer sockets.", once the mutex is free.
StopClose ==
    /\ main = "close"
    /\ lock = "nobody"
    /\ closes' = [c \in Conns |-> IF c \in Entries THEN closes[c] + 1 ELSE closes[c]]
    /\ peers' = <<>>
    /\ main' = "stopped"
    /\ UNCHANGED <<running, server, lock, conn>>

-----------------------------------------------------------------------------

\* start: server_loop returns at once when it cannot bind the port.
PeerInit ==
    /\ running = TRUE
    /\ server \in {"loop", "ended"}
    /\ main = "start"
    /\ peers = <<>>
    /\ lock = "nobody"
    /\ conn = [c \in Conns |-> Unused]
    /\ closes = [c \in Conns |-> 0]

\* What a thread of the node does by itself.
Handle(c) ==
    \/ AddPeer(c) \/ SendPeerList(c) \/ LoopTop(c) \/ Relay(c) \/ Lookup(c)
    \/ Connect(c) \/ ConnectFails(c) \/ RemovePeer(c)

\* What it takes a peer for: something to receive, or room for what is sent.
Peer(c) ==
    \/ Receive(c) \/ Disconnected(c)
    \/ SyncSent(c) \/ PeerListSent(c) \/ Relayed(c) \/ Answered(c)

Run  == ConnectFirst \/ Broadcast \/ BroadcastLock \/ BroadcastSent
Stop == StopFlag \/ StopJoin \/ StopClose

PeerNext ==
    \/ Accept \/ ServerEnds \/ Run \/ Stop
    \/ \E c \in Conns : Handle(c) \/ Peer(c)

PeerSpec == PeerInit /\ [][PeerNext]_vars

\* Threads that can run do run: those of the node, and stop once it was called.
\* Nothing is assumed of peers, which need neither send nor receive.
FairPeerSpec ==
    /\ PeerSpec
    /\ WF_vars(ServerEnds) /\ WF_vars(StopJoin) /\ WF_vars(StopClose)
    /\ \A c \in Conns : WF_vars(Handle(c))

-----------------------------------------------------------------------------
(* Properties.                                                             *)

Threads ==
    [pc      : {"none", "new", "sync", "list", "listing", "top", "recv", "known", "connect",
                "relay", "relaying", "answer", "leave", "ended"},
     address : Addresses,
     todo    : Seq(Tasks)]

\* A thread has tasks left exactly while it is at one, and the one it is at is
\* the first of them.
AtTask(t) ==
    /\ t.pc \in {"known", "connect", "relay", "relaying", "answer"} <=> t.todo # <<>>
    /\ t.pc \in {"known", "connect"} => Head(t.todo).type = "known"

\* peers_mutex_ is held exactly by the thread that sends under it.
MutexHeld ==
    /\ \A c \in Conns : conn[c].pc \in {"listing", "relaying"} <=> lock = c
    /\ main = "relaying" <=> lock = "main"

\* Type invariant; no thread takes a task from the end of its list, and nobody
\* holds the mutex who is not sending.
PeerTypeOK ==
    /\ running \in BOOLEAN
    /\ server \in {"loop", "ended"}
    /\ main \in {"start", "wait", "relay", "relaying", "join", "close", "stopped"}
    /\ peers \in Seq(Conns)
    /\ lock \in Conns \cup {"main", "nobody"}
    /\ conn \in [Conns -> Threads]
    /\ \A c \in Conns : AtTask(conn[c])
    /\ closes \in [Conns -> Nat]
    /\ MutexHeld

\* Each socket is closed at most once, by its own thread or by stop, and it
\* is closed when its thread has ended: also when the connection came while
\* stop was clearing the table.
ClosedOnce ==
    \A c \in Conns :
        /\ closes[c] <= 1
        /\ conn[c].pc = "ended" => closes[c] = 1

\* The table names each socket at most once, and only open ones whose thread
\* is still there to remove them: send_to_all never writes to a closed one.
EntriesOpen ==
    /\ IsInjective(peers)
    /\ \A c \in Entries : c \in Open /\ conn[c].pc # "new"

\* Every send of a connection thread returns some day.  Nothing in the code sees
\* to that: a peer that does not read leaves the thread where it is.
SendsReturn ==
    \A c \in Conns : []<>(conn[c].pc \notin {"sync", "listing", "relaying", "answer"})

\* Provided that sends return: stop, which waits for the accepting thread and
\* for peers_mutex_, returns, and in the end all sockets are closed for good,
\* those too that connection threads opened while it ran or after it.
StopFreesSockets ==
    SendsReturn => ((main = "join") ~> [](main = "stopped" /\ Open = {}))
=============================================================================
