------------------------------- MODULE Mempool -------------------------------
(***************************************************************************)
(* class Mempool (mempool.cpp): the pending transactions and the index of  *)
(* the outputs they spend.  Every method runs under the mempool's mutex_   *)
(* and is one atomic step.                                                 *)
(***************************************************************************)
EXTENDS Ledger

CONSTANT Txs        \* the transactions that callers may add

VARIABLES
    transactions,       \* transactions_: hash -> transaction
    spent_in_mempool    \* the keys of spent_in_mempool_

poolVars == <<transactions, spent_in_mempool>>

Pending == {transactions[h] : h \in DOMAIN transactions}

\* The result of has_conflicting_inputs, also computed by add_transaction.
has_conflicting_inputs(tx) == InputKeys(tx) \cap spent_in_mempool # {}

\* Mutant: only the hash is looked up.
AcceptsAnyInputs(tx) == tx.hash \notin DOMAIN transactions

\* add_transaction returns true.
PoolAccepts(tx) ==
    /\ tx.hash \notin DOMAIN transactions
    /\ ~has_conflicting_inputs(tx)

\* Mutant: stored under the transaction it spends from, not under its own hash.
AddUnderSource(tx) ==
    \/ /\ PoolAccepts(tx)
       /\ LET key == tx.inputs[1].tx_id
          IN  transactions' = [h \in DOMAIN transactions \cup {key} |->
                                 IF h = key THEN tx ELSE transactions[h]]
       /\ spent_in_mempool' = spent_in_mempool \cup InputKeys(tx)
    \/ ~PoolAccepts(tx) /\ UNCHANGED poolVars

\* add_transaction: refused without a trace, or stored and its inputs marked.
add_transaction(tx) ==
    \/ /\ PoolAccepts(tx)
       /\ transactions' = [h \in DOMAIN transactions \cup {tx.hash} |->
                             IF h = tx.hash THEN tx ELSE transactions[h]]
       /\ spent_in_mempool' = spent_in_mempool \cup InputKeys(tx)
    \/ /\ ~PoolAccepts(tx)
       /\ UNCHANGED poolVars

\* Mutant: the inputs stay marked.
RemoveStillMarked(h) ==
    \/ /\ h \in DOMAIN transactions
       /\ transactions' = [x \in DOMAIN transactions \ {h} |-> transactions[x]]
       /\ UNCHANGED spent_in_mempool
    \/ h \notin DOMAIN transactions /\ UNCHANGED poolVars

\* remove_transaction: its inputs are unmarked.
remove_transaction(h) ==
    \/ /\ h \in DOMAIN transactions
       /\ spent_in_mempool' = spent_in_mempool \ InputKeys(transactions[h])
       /\ transactions' = [x \in DOMAIN transactions \ {h} |-> transactions[x]]
    \/ /\ h \notin DOMAIN transactions
       /\ UNCHANGED poolVars

clear ==
    /\ transactions' = [h \in {} |-> h]
    /\ spent_in_mempool' = {}

-----------------------------------------------------------------------------
(* Reads.                                                                  *)

\* The first max_count transactions of the sequences p.
Cut(sequences, max_count) ==
    {SubSeq(p, 1, IF Len(p) > max_count THEN max_count ELSE Len(p)) : p \in sequences}

\* The pending transactions in the orders that std::sort can leave them in: by
\* falling fees, and equal fees in any order.
ByFee ==
    {p \in [1..Cardinality(Pending) -> Pending] :
        \A i, j \in DOMAIN p : i < j => p[i] # p[j] /\ p[i].fee >= p[j].fee}

\* Mutant: the lowest fees first.
SelectLowest(max_count) ==
    Cut({p \in [1..Cardinality(Pending) -> Pending] :
            \A i, j \in DOMAIN p : i < j => p[i] # p[j] /\ p[i].fee <= p[j].fee},
        max_count)

\* Mutant: a full block is one transaction short.
SelectOneLess(max_count) ==
    {SubSeq(p, 1, IF Len(p) >= max_count THEN max_count - 1 ELSE Len(p)) : p \in ByFee}

\* The possible results of get_for_block.
get_for_block(max_count) == Cut(ByFee, max_count)

size == Cardinality(DOMAIN transactions)

total_pending_value ==
    MapThenSumSet(LAMBDA h : total_output(transactions[h]) + transactions[h].fee,
                  DOMAIN transactions) % Word

-----------------------------------------------------------------------------
(* Specification.                                                          *)

PoolInit ==
    /\ transactions = [h \in {} |-> h]
    /\ spent_in_mempool = {}

PoolNext ==
    \/ \E tx \in Txs : add_transaction(tx)
    \/ \E tx \in Txs : remove_transaction(tx.hash)
    \/ clear

PoolSpec == PoolInit /\ [][PoolNext]_poolVars

-----------------------------------------------------------------------------
(* Properties.                                                             *)

\* Type invariant: every entry is a transaction that was offered, stored
\* under its own hash.
PoolTypeOK ==
    /\ DOMAIN transactions \subseteq {tx.hash : tx \in Txs}
    /\ \A h \in DOMAIN transactions :
         transactions[h] \in Txs /\ transactions[h].hash = h

\* No two pending transactions spend the same output: a block made of them
\* spends nothing twice.
PoolConflictFree ==
    \A g, h \in DOMAIN transactions :
        g # h => InputKeys(transactions[g]) \cap InputKeys(transactions[h]) = {}

\* The index that remove_transaction erases from, key by key and without a
\* count, still holds exactly the outputs that pending transactions spend:
\* nothing pending is unprotected and no output stays blocked.
SpentIndexExact ==
    spent_in_mempool = UNION {InputKeys(tx) : tx \in Pending}

\* add_transaction refuses exactly the transactions that are pending already
\* or that spend an output some pending transaction spends.
RefusesOnlyConflicts ==
    \A tx \in Txs :
        PoolAccepts(tx) <=>
            /\ tx.hash \notin DOMAIN transactions
            /\ \A other \in Pending : InputKeys(tx) \cap InputKeys(other) = {}

\* s is a best choice of at most max_count pending transactions: as many as
\* the limit allows, each once, none left out that pays more than one taken,
\* and no output spent twice.
BestChoice(s, max_count) ==
    LET taken == {s[i] : i \in DOMAIN s}
    IN  /\ taken \subseteq Pending
        /\ Cardinality(taken) = Len(s)
        /\ Len(s) = max_count \/ taken = Pending
        /\ \A tx \in taken, other \in Pending \ taken : tx.fee >= other.fee
        /\ \A i, j \in DOMAIN s :
             i # j => InputKeys(s[i]) \cap InputKeys(s[j]) = {}

\* What get_for_block hands to the miner, for any limit, is a best choice.
SelectionIsBest ==
    \A max_count \in 0..Cardinality(Txs) :
        \A s \in get_for_block(max_count) : BestChoice(s, max_count)
=============================================================================
