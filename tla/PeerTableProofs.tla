-------------------------- MODULE PeerTableProofs --------------------------
(***************************************************************************)
(* The peer table, for any number of sockets, hosts and addresses in a     *)
(* list: each socket is closed at most once and the table names only open  *)
(* ones, whatever stop and the connection threads interleave.              *)
(***************************************************************************)
EXTENDS PeerTable, SequenceTheorems, TLAPS

(* Which sockets are in the table and which are closed, by where the thread *)
(* is: one that has passed add_peer is in the table until someone closes it. *)
Accounted ==
    \A c \in Conns :
        /\ conn[c].pc \in {"none", "new"} => closes[c] = 0 /\ c \notin Entries
        /\ c \in Entries => closes[c] = 0 /\ conn[c].pc # "ended"
        /\ conn[c].pc \notin {"none", "new"} /\ c \notin Entries => closes[c] = 1

(* No socket twice.  remove_peer erases one entry only. *)
NoTwice == \A i, j \in DOMAIN peers : peers[i] = peers[j] => i = j

PeerInv == PeerTypeOK /\ NoTwice /\ Accounted

-----------------------------------------------------------------------------
(* Sequences.                                                              *)

\* add_peer's push_back adds one element to the table.
LEMMA AppendEntries ==
    ASSUME NEW S, NEW s \in Seq(S), NEW e \in S
    PROVE  /\ Append(s, e) \in Seq(S)
           /\ DOMAIN Append(s, e) = 1..(Len(s) + 1)
           /\ \A i \in 1..Len(s) : Append(s, e)[i] = s[i]
           /\ Append(s, e)[Len(s) + 1] = e
  OBVIOUS

\* remove_peer's erase keeps the other elements, in their order.
LEMMA RemoveAtEntries ==
    ASSUME NEW S, NEW s \in Seq(S), NEW k \in 1..Len(s)
    PROVE  /\ RemoveAt(s, k) \in Seq(S)
           /\ DOMAIN RemoveAt(s, k) = 1..(Len(s) - 1)
           /\ \A i \in 1..(Len(s) - 1) :
                 RemoveAt(s, k)[i] = IF i < k THEN s[i] ELSE s[i + 1]
<1> DEFINE a == SubSeq(s, 1, k - 1)
           b == SubSeq(s, k + 1, Len(s))
<1>1. /\ a \in Seq(S) /\ Len(a) = k - 1
      /\ \A i \in 1..(k - 1) : a[i] = s[i]
  OBVIOUS
<1>2. /\ b \in Seq(S) /\ Len(b) = Len(s) - k
      /\ \A i \in 1..(Len(s) - k) : b[i] = s[i + k]
  OBVIOUS
<1>3. RemoveAt(s, k) = a \o b
  BY DEF RemoveAt
<1> HIDE DEF a, b
<1>4. /\ a \o b \in Seq(S) /\ Len(a \o b) = Len(s) - 1
      /\ \A i \in 1..(Len(s) - 1) :
            (a \o b)[i] = IF i <= Len(a) THEN a[i] ELSE b[i - Len(a)]
  BY <1>1, <1>2, ConcatProperties
<1>5. ASSUME NEW i \in 1..(Len(s) - 1)
      PROVE  (a \o b)[i] = IF i < k THEN s[i] ELSE s[i + 1]
  <2>1. CASE i < k
    BY <2>1, <1>1, <1>4
  <2>2. CASE ~(i < k)
    <3>1. i - (k - 1) \in 1..(Len(s) - k) /\ (i - (k - 1)) + k = i + 1
      BY <2>2
    <3> QED  BY <3>1, <2>2, <1>1, <1>2, <1>4
  <2> QED  BY <2>1, <2>2
<1> QED  BY <1>3, <1>4, <1>5

\* What one recv leaves a thread to do is a sequence of tasks.
LEMMA BatchIsSequence ==
    ASSUME NEW S, NEW n \in Nat, NEW s \in BoundedSeq(S, n)
    PROVE  s \in Seq(S)
  BY DEF BoundedSeq, SeqOf

\* The next task of a thread, and what is left after it.
LEMMA HeadAndTail ==
    ASSUME NEW S, NEW s \in Seq(S), s # <<>>
    PROVE  Head(s) \in S /\ Tail(s) \in Seq(S)
  OBVIOUS

-----------------------------------------------------------------------------
(* The type invariant.                                                     *)

\* Where the threads are that have a task, those that hold the mutex, and all
\* between add_peer and remove_peer.
AtOne    == {"known", "connect", "relay", "relaying", "answer"}
Holding  == {"listing", "relaying"}
Serving  == {"sync", "list", "listing", "top", "recv"} \cup AtOne

\* The threads' part of the type invariant.
ConnTyped == conn \in [Conns -> Threads] /\ \A d \in Conns : AtTask(conn[d])

\* Before any thread runs.
LEMMA InitTyped == PeerInit => PeerTypeOK
<1> SUFFICES ASSUME PeerInit
             PROVE  PeerTypeOK
  OBVIOUS
<1>1. Unused \in Threads /\ AtTask(Unused) /\ Unused.pc = "none"
  BY DEF Unused, Threads, AtTask, Addresses
<1>2. \A c \in Conns : conn[c] = Unused
  BY DEF PeerInit
<1>3. MutexHeld
  BY <1>1, <1>2, PeerAssumption DEF PeerInit, MutexHeld
<1> QED  BY <1>1, <1>3 DEF PeerInit, PeerTypeOK

\* Where a thread goes is determined by the first of its tasks.
LEMMA PlaceOfTask ==
    ASSUME NEW todo \in Seq(Tasks)
    PROVE  /\ Place(todo) \in {"top", "known", "relay", "answer"}
           /\ Place(todo) = "top" <=> todo = <<>>
           /\ Place(todo) = "known" => Head(todo).type = "known"
<1>1. CASE todo = <<>>
  BY <1>1 DEF Place
<1>2. CASE todo # <<>>
  <2>1. Head(todo) \in Tasks
    BY <1>2, HeadAndTail
  <2>2. Head(todo).type \in {"known", "relay", "answer"}
    BY <2>1 DEF Tasks
  <2> QED  BY <1>2, <2>2 DEF Place
<1> QED  BY <1>1, <1>2

\* A step that gives one thread a new record.
LEMMA UpdateTyped ==
    ASSUME ConnTyped, NEW c \in Conns, NEW t \in Threads, AtTask(t),
           conn' = [conn EXCEPT ![c] = t]
    PROVE  /\ ConnTyped'
           /\ conn'[c] = t
           /\ \A d \in Conns \ {c} : conn'[d] = conn[d]
<1>1. /\ conn' \in [Conns -> Threads]
      /\ conn'[c] = t
      /\ \A d \in Conns \ {c} : conn'[d] = conn[d]
  BY DEF ConnTyped
<1> QED  BY <1>1 DEF ConnTyped

\* A step that moves one thread on which has no task.
LEMMA GotoTyped ==
    ASSUME ConnTyped, NEW c \in Conns, conn[c].pc \notin AtOne,
           NEW pc \in {"new", "sync", "list", "listing", "top", "recv", "leave", "ended"},
           Goto(c, pc)
    PROVE  /\ ConnTyped'
           /\ conn'[c].pc = pc
           /\ \A d \in Conns \ {c} : conn'[d] = conn[d]
<1> DEFINE t == [conn[c] EXCEPT !.pc = pc]
<1>1. conn[c] \in Threads /\ conn[c].todo = <<>>
  BY DEF ConnTyped, AtTask, AtOne
<1>2. t \in Threads /\ t.pc = pc /\ t.todo = <<>>
  BY <1>1 DEF Threads
<1>3. conn' = [conn EXCEPT ![c] = t]
  BY DEF Goto
<1>4. AtTask(t)
  BY <1>2 DEF AtTask
<1> HIDE DEF t
<1> QED  BY <1>2, <1>3, <1>4, UpdateTyped

\* A step that moves a thread on within its task.
LEMMA WithinTaskTyped ==
    ASSUME ConnTyped, NEW c \in Conns,
           NEW pc \in {"connect", "relaying"},
           conn[c].pc = IF pc = "connect" THEN "known" ELSE "relay",
           conn' = [conn EXCEPT ![c] = [conn[c] EXCEPT !.pc = pc]]
    PROVE  /\ ConnTyped'
           /\ conn'[c].pc = pc
           /\ \A d \in Conns \ {c} : conn'[d] = conn[d]
<1> DEFINE t == [conn[c] EXCEPT !.pc = pc]
<1>1. conn[c] \in Threads /\ AtTask(conn[c])
  BY DEF ConnTyped
<1>2. t \in Threads /\ t.pc = pc /\ t.todo = conn[c].todo
  BY <1>1 DEF Threads
<1>3. AtTask(t)
  BY <1>1, <1>2 DEF AtTask
<1>4. conn' = [conn EXCEPT ![c] = t]
  OBVIOUS
<1> HIDE DEF t
<1> QED  BY <1>2, <1>3, <1>4, UpdateTyped

\* What is left after the first task of a thread.
LEMMA NextTaskTyped ==
    ASSUME ConnTyped, NEW c \in Conns, conn[c].pc \in AtOne
    PROVE  /\ NextTask(c) \in Threads
           /\ AtTask(NextTask(c))
           /\ NextTask(c).pc \in {"top", "known", "relay", "answer"}
<1>1. conn[c].todo \in Seq(Tasks) /\ conn[c].todo # <<>> /\ conn[c].address \in Addresses
  BY DEF ConnTyped, Threads, AtTask, AtOne
<1> DEFINE rest == Tail(conn[c].todo)
<1>2. rest \in Seq(Tasks)
  BY <1>1, HeadAndTail
<1>3. NextTask(c) = [pc |-> Place(rest), address |-> conn[c].address, todo |-> rest]
  BY DEF NextTask
<1> HIDE DEF rest
<1>4. /\ Place(rest) \in {"top", "known", "relay", "answer"}
      /\ Place(rest) = "top" <=> rest = <<>>
      /\ Place(rest) = "known" => Head(rest).type = "known"
  BY <1>2, PlaceOfTask
<1>5. NextTask(c) \in Threads
  BY <1>1, <1>2, <1>3, <1>4 DEF Threads
<1>6. NextTask(c).pc = Place(rest) /\ NextTask(c).todo = rest
  BY <1>3
<1>7. AtTask(NextTask(c))
  BY <1>4, <1>6 DEF AtTask
<1> QED  BY <1>4, <1>5, <1>6, <1>7

\* The address that a thread looks up or connects to.
LEMMA TaskAddress ==
    ASSUME ConnTyped, NEW c \in Conns, conn[c].pc \in {"known", "connect"}
    PROVE  Head(conn[c].todo).address \in Addresses
<1>1. /\ conn[c].todo \in Seq(Tasks) /\ conn[c].todo # <<>>
      /\ Head(conn[c].todo).type = "known"
  BY DEF ConnTyped, Threads, AtTask
<1>2. Head(conn[c].todo) \in Tasks
  BY <1>1, HeadAndTail
<1> QED  BY <1>1, <1>2 DEF Tasks

-----------------------------------------------------------------------------
(* Steps that touch neither the table nor the sockets.                     *)

\* Such a step starts a thread, or moves one on between add_peer and
\* remove_peer.
MovesOn ==
    /\ ConnTyped'
    /\ \A d \in Conns :
         \/ conn'[d].pc = conn[d].pc
         \/ conn[d].pc = "none" /\ conn'[d].pc = "new"
         \/ conn[d].pc \in Serving /\ conn'[d].pc \in Serving \cup {"leave"}

\* Nobody takes the mutex or gives it back.
HoldKept == \A d \in Conns : conn'[d].pc \in Holding <=> conn[d].pc \in Holding

\* A new thread: accept, connect_to_peer.
LEMMA ThreadMovesOn ==
    ASSUME ConnTyped, NEW c \in Conns, conn[c].pc = "none", NEW a \in Addresses,
           conn' = [conn EXCEPT ![c] = Thread(a)]
    PROVE  MovesOn /\ HoldKept
<1>1. Thread(a) \in Threads /\ AtTask(Thread(a)) /\ Thread(a).pc = "new"
  BY DEF Thread, Threads, AtTask
<1>2. /\ ConnTyped'
      /\ conn'[c] = Thread(a)
      /\ \A d \in Conns \ {c} : conn'[d] = conn[d]
  BY <1>1, UpdateTyped
<1> QED  BY <1>1, <1>2 DEF MovesOn, HoldKept, Holding

\* A thread that neither held the mutex nor takes it.
LEMMA ServingMovesOn ==
    ASSUME ConnTyped', NEW c \in Conns,
           conn[c].pc \in Serving \ Holding,
           conn'[c].pc \in (Serving \ Holding) \cup {"leave"},
           \A d \in Conns \ {c} : conn'[d] = conn[d]
    PROVE  MovesOn /\ HoldKept
<1>1. "leave" \notin Holding
  BY DEF Holding
<1> QED  BY <1>1 DEF MovesOn, HoldKept

\* The steps that leave table, sockets and mutex alone.
Quiet ==
    \/ Accept \/ ConnectFirst
    \/ \E c \in Conns :
         \/ SyncSent(c) \/ LoopTop(c) \/ Receive(c) \/ Disconnected(c)
         \/ Answered(c) \/ Lookup(c) \/ Connect(c) \/ ConnectFails(c)

\* The threads that receive and work on peer lists, the accepting thread and
\* --connect only move on.
LEMMA QuietMovesOn ==
    ASSUME ConnTyped, Quiet
    PROVE  MovesOn /\ HoldKept
<1> USE DEF AtOne, Holding, Serving
<1>1. CASE Accept
  <2>1. PICK c \in Conns, h \in Hosts :
           conn[c].pc = "none" /\ conn' = [conn EXCEPT ![c] = Thread(Ephemeral(h))]
    BY <1>1 DEF Accept
  <2>2. Ephemeral(h) \in Addresses
    BY DEF Addresses
  <2> QED  BY <2>1, <2>2, ThreadMovesOn
<1>2. CASE ConnectFirst
  <2>1. CASE UNCHANGED conn
    BY <2>1 DEF MovesOn, HoldKept, ConnTyped
  <2>2. CASE \E c \in Conns, h \in Hosts :
                conn[c].pc = "none" /\ conn' = [conn EXCEPT ![c] = Thread(Listening(h))]
    <3>1. PICK c \in Conns, h \in Hosts :
             conn[c].pc = "none" /\ conn' = [conn EXCEPT ![c] = Thread(Listening(h))]
      BY <2>2
    <3>2. Listening(h) \in Addresses
      BY DEF Addresses
    <3> QED  BY <3>1, <3>2, ThreadMovesOn
  <2> QED  BY <1>2, <2>1, <2>2 DEF ConnectFirst
<1>3. ASSUME NEW c \in Conns, SyncSent(c) \/ LoopTop(c) \/ Disconnected(c)
      PROVE  MovesOn /\ HoldKept
  <2>1. PICK pc \in {"list", "recv", "leave"} :
           conn[c].pc \in {"sync", "top", "recv"} /\ Goto(c, pc)
    BY <1>3 DEF SyncSent, LoopTop, Disconnected
  <2>2. /\ ConnTyped'
        /\ conn'[c].pc = pc
        /\ \A d \in Conns \ {c} : conn'[d] = conn[d]
    BY <2>1, GotoTyped
  <2> QED  BY <2>1, <2>2, ServingMovesOn
<1>4. ASSUME NEW c \in Conns, Receive(c)
      PROVE  MovesOn /\ HoldKept
  <2>1. PICK todo \in BoundedSeq(Tasks, MaxList) :
           conn' = [conn EXCEPT ![c] =
                      [pc |-> Place(todo), address |-> conn[c].address, todo |-> todo]]
    BY <1>4 DEF Receive
  <2>2. todo \in Seq(Tasks)
    BY BatchIsSequence, PeerAssumption
  <2>3. /\ Place(todo) \in {"top", "known", "relay", "answer"}
        /\ Place(todo) = "top" <=> todo = <<>>
        /\ Place(todo) = "known" => Head(todo).type = "known"
    BY <2>2, PlaceOfTask
  <2> DEFINE t == [pc |-> Place(todo), address |-> conn[c].address, todo |-> todo]
  <2>4. conn[c].pc = "recv" /\ conn[c].address \in Addresses
    BY <1>4 DEF Receive, ConnTyped, Threads
  <2>5. t \in Threads /\ t.pc = Place(todo) /\ t.todo = todo
    BY <2>2, <2>3, <2>4 DEF Threads
  <2>6. AtTask(t)
    BY <2>3, <2>5 DEF AtTask
  <2>7. conn' = [conn EXCEPT ![c] = t]
    BY <2>1
  <2> HIDE DEF t
  <2>8. ConnTyped' /\ conn'[c] = t /\ \A d \in Conns \ {c} : conn'[d] = conn[d]
    BY <2>5, <2>6, <2>7, UpdateTyped
  <2> QED  BY <2>3, <2>4, <2>5, <2>8, ServingMovesOn
<1>5. ASSUME NEW c \in Conns, conn[c].pc \in {"known", "connect", "answer"},
             conn' = [conn EXCEPT ![c] = NextTask(c)]
      PROVE  MovesOn /\ HoldKept
  <2>1. /\ NextTask(c) \in Threads /\ AtTask(NextTask(c))
        /\ NextTask(c).pc \in {"top", "known", "relay", "answer"}
    BY <1>5, NextTaskTyped
  <2>2. /\ ConnTyped' /\ conn'[c] = NextTask(c)
        /\ \A d \in Conns \ {c} : conn'[d] = conn[d]
    BY <1>5, <2>1, UpdateTyped
  <2> QED  BY <1>5, <2>1, <2>2, ServingMovesOn
<1>6. ASSUME NEW c \in Conns, Answered(c) \/ ConnectFails(c)
      PROVE  MovesOn /\ HoldKept
  BY <1>5, <1>6 DEF Answered, ConnectFails
<1>7. ASSUME NEW c \in Conns, Lookup(c)
      PROVE  MovesOn /\ HoldKept
  <2>1. conn[c].pc = "known"
    BY <1>7 DEF Lookup
  <2>2. \/ conn' = [conn EXCEPT ![c] = NextTask(c)]
        \/ conn' = [conn EXCEPT ![c] = [conn[c] EXCEPT !.pc = "connect"]]
    BY <1>7 DEF Lookup
  <2>3. CASE conn' = [conn EXCEPT ![c] = NextTask(c)]
    BY <1>5, <2>1, <2>3
  <2>4. CASE conn' = [conn EXCEPT ![c] = [conn[c] EXCEPT !.pc = "connect"]]
    <3>1. /\ ConnTyped'
          /\ conn'[c].pc = "connect"
          /\ \A d \in Conns \ {c} : conn'[d] = conn[d]
      BY <2>1, <2>4, WithinTaskTyped
    <3> QED  BY <2>1, <3>1, ServingMovesOn
  <2> QED  BY <2>2, <2>3, <2>4
<1>8. ASSUME NEW c \in Conns, Connect(c)
      PROVE  MovesOn /\ HoldKept
  <2> DEFINE t == Thread(Head(conn[c].todo).address)
  <2>1. PICK d \in Conns :
           /\ conn[d].pc = "none"
           /\ conn' = [conn EXCEPT ![d] = t, ![c] = NextTask(c)]
    BY <1>8 DEF Connect
  <2>2. conn[c].pc = "connect" /\ c # d
    BY <1>8, <2>1 DEF Connect
  <2>3. /\ NextTask(c) \in Threads /\ AtTask(NextTask(c))
        /\ NextTask(c).pc \in {"top", "known", "relay", "answer"}
    BY <2>2, NextTaskTyped
  <2>4. t \in Threads /\ AtTask(t) /\ t.pc = "new"
    <3>1. Head(conn[c].todo).address \in Addresses
      BY <2>2, TaskAddress
    <3> QED  BY <3>1 DEF Thread, Threads, AtTask
  <2> HIDE DEF t
  <2>5. /\ conn' \in [Conns -> Threads]
        /\ conn'[c] = NextTask(c) /\ conn'[d] = t
        /\ \A e \in Conns \ {c, d} : conn'[e] = conn[e]
    BY <2>1, <2>2, <2>3, <2>4 DEF ConnTyped
  <2>6. ConnTyped'
    BY <2>3, <2>4, <2>5 DEF ConnTyped
  <2> QED  BY <2>1, <2>2, <2>3, <2>4, <2>5, <2>6 DEF MovesOn, HoldKept
<1> QED  BY <1>1, <1>2, <1>3, <1>4, <1>6, <1>7, <1>8 DEF Quiet

\* A connection thread takes the mutex or gives it back.
Locking ==
    \E c \in Conns : SendPeerList(c) \/ PeerListSent(c) \/ Relay(c) \/ Relayed(c)

\* Such a step moves the thread on, and the mutex with it.
LEMMA LockingMovesOn ==
    ASSUME ConnTyped, MutexHeld, Locking
    PROVE  /\ MovesOn
           /\ main' = main
           /\ lock' \in Conns \cup {"nobody"}
           /\ MutexHeld'
<1> USE DEF AtOne, Holding, Serving
<1>1. ASSUME NEW c \in Conns,
             lock = "nobody", lock' = c, main' = main,
             ConnTyped', conn[c].pc \in Serving, conn'[c].pc \in Holding,
             \A d \in Conns \ {c} : conn'[d] = conn[d]
      PROVE  MovesOn /\ MutexHeld'
  BY <1>1, PeerAssumption DEF MovesOn, MutexHeld
<1>2. ASSUME NEW c \in Conns,
             lock' = "nobody", main' = main,
             ConnTyped', conn[c].pc \in Holding, conn'[c].pc \in Serving \ Holding,
             \A d \in Conns \ {c} : conn'[d] = conn[d]
      PROVE  MovesOn /\ MutexHeld'
  BY <1>2, PeerAssumption DEF MovesOn, MutexHeld
<1>3. ASSUME NEW c \in Conns, SendPeerList(c)
      PROVE  MovesOn /\ MutexHeld'
  <2>1. /\ conn[c].pc = "list" /\ lock = "nobody" /\ lock' = c /\ main' = main
        /\ Goto(c, "listing")
    BY <1>3 DEF SendPeerList
  <2>2. /\ ConnTyped' /\ conn'[c].pc = "listing"
        /\ \A d \in Conns \ {c} : conn'[d] = conn[d]
    BY <2>1, GotoTyped
  <2> QED  BY <1>1, <2>1, <2>2
<1>4. ASSUME NEW c \in Conns, PeerListSent(c)
      PROVE  MovesOn /\ MutexHeld'
  <2>1. /\ conn[c].pc = "listing" /\ lock' = "nobody" /\ main' = main
        /\ Goto(c, "top")
    BY <1>4 DEF PeerListSent
  <2>2. /\ ConnTyped' /\ conn'[c].pc = "top"
        /\ \A d \in Conns \ {c} : conn'[d] = conn[d]
    BY <2>1, GotoTyped
  <2> QED  BY <1>2, <2>1, <2>2
<1>5. ASSUME NEW c \in Conns, Relay(c)
      PROVE  MovesOn /\ MutexHeld'
  <2>1. /\ conn[c].pc = "relay" /\ lock = "nobody" /\ lock' = c /\ main' = main
        /\ conn' = [conn EXCEPT ![c] = [conn[c] EXCEPT !.pc = "relaying"]]
    BY <1>5 DEF Relay, Goto
  <2>2. /\ ConnTyped' /\ conn'[c].pc = "relaying"
        /\ \A d \in Conns \ {c} : conn'[d] = conn[d]
    BY <2>1, WithinTaskTyped
  <2> QED  BY <1>1, <2>1, <2>2
<1>6. ASSUME NEW c \in Conns, Relayed(c)
      PROVE  MovesOn /\ MutexHeld'
  <2>1. /\ conn[c].pc = "relaying" /\ lock' = "nobody" /\ main' = main
        /\ conn' = [conn EXCEPT ![c] = NextTask(c)]
    BY <1>6 DEF Relayed
  <2>2. /\ NextTask(c) \in Threads /\ AtTask(NextTask(c))
        /\ NextTask(c).pc \in {"top", "known", "relay", "answer"}
    BY <2>1, NextTaskTyped
  <2>3. /\ ConnTyped' /\ conn'[c] = NextTask(c)
        /\ \A d \in Conns \ {c} : conn'[d] = conn[d]
    BY <2>1, <2>2, UpdateTyped
  <2> QED  BY <1>2, <2>1, <2>2, <2>3
<1>7. main' = main /\ lock' \in Conns \cup {"nobody"}
  BY DEF Locking, SendPeerList, PeerListSent, Relay, Relayed
<1> QED  BY <1>3, <1>4, <1>5, <1>6, <1>7 DEF Locking

-----------------------------------------------------------------------------
(* The invariant.                                                          *)

\* Before any thread runs: no entry, no socket.
LEMMA InitInv == PeerInit => PeerInv
<1>1. PeerInit => NoTwice /\ Accounted
  BY DEF PeerInit, NoTwice, Accounted, Entries, Unused
<1> QED  BY <1>1, InitTyped DEF PeerInv

\* The threads' part of the type invariant is part of it.
LEMMA TypedConns ==
    ASSUME PeerTypeOK
    PROVE  ConnTyped
  BY DEF PeerTypeOK, ConnTyped

\* The mutex stays with who has it.
LEMMA HoldKeptHeld ==
    ASSUME MutexHeld, HoldKept, lock' = lock,
           main' = "relaying" <=> main = "relaying"
    PROVE  MutexHeld'
  BY DEF MutexHeld, HoldKept, Holding

\* Steps that touch neither the table nor the sockets keep the account.
LEMMA MovesOnInv ==
    ASSUME PeerInv, MovesOn, UNCHANGED <<peers, closes>>
    PROVE  NoTwice' /\ Accounted'
<1>1. NoTwice'
  BY DEF PeerInv, NoTwice
<1>2. Entries' = Entries
  BY DEF Entries
<1>3. Accounted'
  BY <1>2 DEF PeerInv, Accounted, MovesOn, Serving, AtOne
<1> QED  BY <1>1, <1>3

\* add_peer: the socket of a thread that has just started is not in the table.
LEMMA AddPeerInv ==
    ASSUME PeerInv, NEW c \in Conns, AddPeer(c)
    PROVE  PeerInv'
<1>1. /\ peers \in Seq(Conns) /\ conn[c].pc = "new" /\ closes[c] = 0 /\ c \notin Entries
      /\ closes' = closes /\ ConnTyped
  BY DEF PeerInv, PeerTypeOK, Accounted, AddPeer, ConnTyped
<1>2. peers' = Append(peers, c)
  BY <1>1 DEF AddPeer
<1>3. /\ ConnTyped'
      /\ conn'[c].pc = "sync"
      /\ \A d \in Conns \ {c} : conn'[d] = conn[d]
  BY <1>1, GotoTyped DEF AddPeer, AtOne
<1>4. /\ peers' \in Seq(Conns)
      /\ DOMAIN peers' = 1..(Len(peers) + 1) /\ DOMAIN peers = 1..Len(peers)
      /\ \A i \in 1..Len(peers) : peers'[i] = peers[i]
      /\ peers'[Len(peers) + 1] = c
      /\ Len(peers) \in Nat
  BY <1>1, <1>2, AppendEntries
<1>5. Entries' = Entries \cup {c}
  BY <1>4 DEF Entries
<1>6. PeerTypeOK'
  <2>1. MutexHeld'
    BY <1>1, <1>3, HoldKeptHeld DEF PeerInv, PeerTypeOK, AddPeer, HoldKept, Holding
  <2> QED  BY <1>3, <1>4, <2>1 DEF PeerInv, PeerTypeOK, AddPeer, ConnTyped
<1>7. NoTwice'
  BY <1>1, <1>4 DEF PeerInv, NoTwice, Entries
<1>8. Accounted'
  BY <1>1, <1>3, <1>5 DEF PeerInv, Accounted
<1> QED  BY <1>6, <1>7, <1>8 DEF PeerInv

\* remove_peer: the one entry of the socket goes, and the socket is closed; or
\* stop has already seen to both.
LEMMA RemovePeerInv ==
    ASSUME PeerInv, NEW c \in Conns, RemovePeer(c)
    PROVE  PeerInv'
<1>1. /\ peers \in Seq(Conns) /\ Len(peers) \in Nat /\ DOMAIN peers = 1..Len(peers)
      /\ conn[c].pc = "leave" /\ closes \in [Conns -> Nat] /\ ConnTyped
  BY DEF PeerInv, PeerTypeOK, RemovePeer, ConnTyped
<1>2. /\ conn' \in [Conns -> Threads]
      /\ \A d \in Conns : AtTask(conn'[d])
      /\ conn'[c].pc = "ended"
      /\ \A d \in Conns \ {c} : conn'[d] = conn[d]
  <2>1. Goto(c, "ended")
    BY DEF RemovePeer
  <2> QED  BY <1>1, <2>1, GotoTyped DEF ConnTyped, AtOne
<1>5. MutexHeld'
  BY <1>1, <1>2, HoldKeptHeld DEF PeerInv, PeerTypeOK, RemovePeer, HoldKept, Holding
<1>3. CASE c \in Entries
  <2>1. PICK k \in 1..Len(peers) : peers[k] = c /\ peers' = RemoveAt(peers, k)
    BY <1>1, <1>3 DEF RemovePeer
  <2>2. /\ peers' \in Seq(Conns) /\ DOMAIN peers' = 1..(Len(peers) - 1)
        /\ \A i \in 1..(Len(peers) - 1) :
              peers'[i] = IF i < k THEN peers[i] ELSE peers[i + 1]
    BY <1>1, <2>1, RemoveAtEntries
  <2>3. \A i, j \in 1..Len(peers) : peers[i] = peers[j] => i = j
    BY <1>1 DEF PeerInv, NoTwice
  <2> DEFINE At(i) == IF i < k THEN i ELSE i + 1
  <2>4. ASSUME NEW i \in 1..(Len(peers) - 1)
        PROVE  /\ At(i) \in 1..Len(peers) /\ At(i) # k
               /\ peers'[i] = peers[At(i)]
    <3>1. At(i) \in 1..Len(peers) /\ At(i) # k
      BY <1>1
    <3>2. peers'[i] = peers[At(i)]
      BY <2>2
    <3> QED  BY <3>1, <3>2
  <2>5. \A i, j \in 1..(Len(peers) - 1) : At(i) = At(j) => i = j
    BY <1>1
  <2>6. \A i \in 1..Len(peers) \ {k} : \E j \in 1..(Len(peers) - 1) : At(j) = i
    <3>1. ASSUME NEW i \in 1..Len(peers), i < k
          PROVE  i \in 1..(Len(peers) - 1) /\ At(i) = i
      BY <1>1, <3>1
    <3>2. ASSUME NEW i \in 1..Len(peers), i > k
          PROVE  i - 1 \in 1..(Len(peers) - 1) /\ At(i - 1) = i
      BY <1>1, <3>2
    <3> HIDE DEF At
    <3> QED  BY <1>1, <3>1, <3>2
  <2> HIDE DEF At
  <2>7. NoTwice'
    <3>1. ASSUME NEW i \in 1..(Len(peers) - 1), NEW j \in 1..(Len(peers) - 1),
                 peers'[i] = peers'[j]
          PROVE  i = j
      <4>1. At(i) = At(j)
        BY <3>1, <2>3, <2>4
      <4> QED  BY <4>1, <2>5
    <3> QED  BY <3>1, <2>2 DEF NoTwice
  <2>8. Entries' = Entries \ {c}
    <3>1. ASSUME NEW i \in 1..(Len(peers) - 1)
          PROVE  peers'[i] \in Entries /\ peers'[i] # c
      BY <1>1, <2>1, <2>3, <2>4 DEF Entries
    <3>2. ASSUME NEW i \in 1..Len(peers), peers[i] # c
          PROVE  peers[i] \in Entries'
      <4>1. PICK j \in 1..(Len(peers) - 1) : At(j) = i
        BY <2>1, <2>6, <3>2
      <4>2. peers'[j] = peers[i]
        BY <4>1, <2>4
      <4> QED  BY <4>2, <2>2 DEF Entries
    <3> QED  BY <1>1, <2>2, <3>1, <3>2 DEF Entries
  <2>9. closes' = [closes EXCEPT ![c] = closes[c] + 1]
    BY <1>3 DEF RemovePeer
  <2>10. PeerTypeOK'
    BY <1>1, <1>2, <1>5, <2>2, <2>9 DEF PeerInv, PeerTypeOK, RemovePeer
  <2>11. Accounted'
    BY <1>1, <1>2, <1>3, <2>8, <2>9 DEF PeerInv, Accounted
  <2> QED  BY <2>7, <2>10, <2>11 DEF PeerInv
<1>4. CASE c \notin Entries
  <2>1. UNCHANGED <<peers, closes>>
    BY <1>4 DEF RemovePeer
  <2>2. Entries' = Entries
    BY <2>1 DEF Entries
  <2>3. PeerTypeOK' /\ NoTwice'
    BY <1>2, <1>5, <2>1 DEF PeerInv, PeerTypeOK, NoTwice, RemovePeer
  <2>4. Accounted'
    BY <1>1, <1>2, <1>4, <2>1, <2>2 DEF PeerInv, Accounted
  <2> QED  BY <2>3, <2>4 DEF PeerInv
<1> QED  BY <1>3, <1>4

\* stop closes the sockets of all entries, and only those.
LEMMA StopCloseInv ==
    ASSUME PeerInv, StopClose
    PROVE  PeerInv'
<1>1. /\ closes' = [c \in Conns |-> IF c \in Entries THEN closes[c] + 1 ELSE closes[c]]
      /\ peers' = <<>> /\ conn' = conn /\ closes \in [Conns -> Nat]
  BY DEF StopClose, PeerInv, PeerTypeOK
<1>2. Entries' = {}
  BY <1>1 DEF Entries
<1>3. PeerTypeOK'
  <2>1. MutexHeld'
    BY <1>1 DEF PeerInv, PeerTypeOK, StopClose, MutexHeld
  <2> QED  BY <1>1, <2>1 DEF PeerInv, PeerTypeOK, StopClose
<1>4. NoTwice'
  BY <1>1 DEF NoTwice
<1>5. Accounted'
  BY <1>1, <1>2 DEF PeerInv, Accounted
<1> QED  BY <1>3, <1>4, <1>5 DEF PeerInv

\* Every step keeps the invariant.
LEMMA NextInv == PeerInv /\ [PeerNext]_vars => PeerInv'
<1> SUFFICES ASSUME PeerInv, [PeerNext]_vars
             PROVE  PeerInv'
  OBVIOUS
<1> USE TypedConns DEF PeerInv
<1>1. CASE Quiet
  <2>1. MovesOn /\ HoldKept
    BY <1>1, QuietMovesOn
  <2>2. /\ UNCHANGED <<peers, lock, closes, running, server>>
        /\ main' = main \/ (main = "start" /\ main' = "wait")
    BY <1>1 DEF Quiet, Accept, ConnectFirst, SyncSent, LoopTop, Receive, Disconnected,
                Answered, Lookup, Connect, ConnectFails
  <2>3. MutexHeld'
    BY <2>1, <2>2, HoldKeptHeld DEF PeerTypeOK
  <2>4. PeerTypeOK'
    BY <2>1, <2>2, <2>3 DEF PeerTypeOK, MovesOn, ConnTyped
  <2> QED  BY <2>1, <2>2, <2>4, MovesOnInv
<1>2. CASE Locking
  <2>1. MovesOn /\ main' = main /\ lock' \in Conns \cup {"nobody"} /\ MutexHeld'
    BY <1>2, LockingMovesOn DEF PeerTypeOK
  <2>2. UNCHANGED <<peers, closes, running, server>>
    BY <1>2 DEF Locking, SendPeerList, PeerListSent, Relay, Relayed
  <2>3. PeerTypeOK'
    BY <2>1, <2>2 DEF PeerTypeOK, MovesOn, ConnTyped
  <2> QED  BY <2>1, <2>2, <2>3, MovesOnInv
<1>6. CASE ServerEnds \/ Broadcast \/ BroadcastLock \/ BroadcastSent
             \/ StopFlag \/ StopJoin \/ UNCHANGED vars
  <2>1. UNCHANGED <<peers, closes, conn>>
    BY <1>6 DEF ServerEnds, Broadcast, BroadcastLock, BroadcastSent, StopFlag, StopJoin, vars
  <2>2. MutexHeld'
    <3>1. CASE BroadcastLock
      BY <2>1, <3>1, PeerAssumption DEF BroadcastLock, PeerTypeOK, MutexHeld
    <3>2. CASE BroadcastSent
      BY <2>1, <3>2, PeerAssumption DEF BroadcastSent, PeerTypeOK, MutexHeld
    <3>3. CASE ServerEnds \/ Broadcast \/ StopFlag \/ StopJoin \/ UNCHANGED vars
      BY <2>1, <3>3 DEF ServerEnds, Broadcast, StopFlag, StopJoin, vars, PeerTypeOK, MutexHeld
    <3> QED  BY <1>6, <3>1, <3>2, <3>3
  <2>3. PeerTypeOK'
    BY <1>6, <2>1, <2>2
       DEF PeerTypeOK, ServerEnds, Broadcast, BroadcastLock, BroadcastSent, StopFlag, StopJoin, vars
  <2>4. MovesOn
    BY <2>1 DEF MovesOn, ConnTyped
  <2> QED  BY <2>1, <2>3, <2>4, MovesOnInv
<1>3. CASE StopClose
  BY <1>3, StopCloseInv
<1>4. CASE \E c \in Conns : AddPeer(c)
  BY <1>4, AddPeerInv
<1>5. CASE \E c \in Conns : RemovePeer(c)
  BY <1>5, RemovePeerInv
<1> QED
  BY <1>1, <1>2, <1>3, <1>4, <1>5, <1>6
     DEF PeerNext, Run, Stop, Handle, Peer, Quiet, Locking

\* In every reachable state, each socket that has passed add_peer is either in
\* the table, once and open, or closed once.
THEOREM PeerInvariant == PeerSpec => []PeerInv
  BY InitInv, NextInv, PTL DEF PeerSpec

\* Type correctness; no thread takes a task from the end of its list, and
\* peers_mutex_ is held exactly by the thread that sends under it.
THEOREM PeerTypeCorrect == PeerSpec => []PeerTypeOK
<1>1. PeerInv => PeerTypeOK
  BY DEF PeerInv
<1> QED  BY <1>1, PeerInvariant, PTL

\* No socket is closed twice, and none whose thread has ended stays open:
\* remove_peer and stop never both close it, and never both leave it.
THEOREM SocketsClosedOnce == PeerSpec => []ClosedOnce
<1>1. PeerInv => ClosedOnce
  BY DEF PeerInv, PeerTypeOK, Accounted, ClosedOnce
<1> QED  BY <1>1, PeerInvariant, PTL

\* Every entry that send_to_all writes to is open, and no socket has two.
THEOREM TableNamesOpenSockets == PeerSpec => []EntriesOpen
<1>1. PeerInv => EntriesOpen
  <2> SUFFICES ASSUME PeerInv
               PROVE  EntriesOpen
    OBVIOUS
  <2>1. IsInjective(peers)
    BY DEF PeerInv, NoTwice, IsInjective
  <2>2. Entries \subseteq Conns
    BY DEF PeerInv, PeerTypeOK, Entries
  <2> QED  BY <2>1, <2>2 DEF PeerInv, Accounted, EntriesOpen, Open
<1> QED  BY <1>1, PeerInvariant, PTL
=============================================================================
