--------------------------- MODULE MempoolProofs ---------------------------
(***************************************************************************)
(* The mempool's invariants for every set of transactions.                 *)
(*                                                                         *)
(* PoolConflictFree and SpentIndexExact need each other.  add_transaction  *)
(* consults the index and not the transactions, so that conflict-freedom   *)
(* rests on the index being complete; remove_transaction erases keys       *)
(* without asking who else spends them, so that the index stays complete   *)
(* only because nobody else does.  Their conjunction with the type         *)
(* invariant is inductive.                                                 *)
(***************************************************************************)
EXTENDS Mempool, FiniteSetTheorems, TLAPS

PoolInv ==
    PoolTypeOK /\ PoolConflictFree /\ SpentIndexExact /\ IsFiniteSet(Pending)

\* Storing one more transaction under a new hash leaves the others alone.
LEMMA AddPending ==
    ASSUME NEW tx,
           PoolTypeOK,
           tx.hash \notin DOMAIN transactions,
           transactions' = [h \in DOMAIN transactions \cup {tx.hash} |->
                              IF h = tx.hash THEN tx ELSE transactions[h]]
    PROVE  /\ DOMAIN transactions' = DOMAIN transactions \cup {tx.hash}
           /\ \A h \in DOMAIN transactions : transactions'[h] = transactions[h]
           /\ transactions'[tx.hash] = tx
           /\ Pending' = Pending \cup {tx}
  BY DEF Pending

\* Erasing the entry of a hash leaves the others alone.
LEMMA RemovePending ==
    ASSUME NEW h \in DOMAIN transactions,
           PoolTypeOK,
           transactions' = [x \in DOMAIN transactions \ {h} |-> transactions[x]]
    PROVE  /\ DOMAIN transactions' = DOMAIN transactions \ {h}
           /\ \A x \in DOMAIN transactions \ {h} : transactions'[x] = transactions[x]
           /\ Pending' = Pending \ {transactions[h]}
  BY DEF Pending, PoolTypeOK

\* What add_transaction does when it accepts keeps the invariant.
LEMMA AddKeepsInv ==
    ASSUME PoolInv, NEW tx \in Txs, add_transaction(tx)
    PROVE  PoolInv'
<1>1. CASE ~PoolAccepts(tx)
  BY <1>1 DEF add_transaction, poolVars, PoolInv, PoolTypeOK, PoolConflictFree,
              SpentIndexExact, Pending
<1>2. CASE PoolAccepts(tx)
  <2>1. /\ transactions' = [h \in DOMAIN transactions \cup {tx.hash} |->
                              IF h = tx.hash THEN tx ELSE transactions[h]]
        /\ spent_in_mempool' = spent_in_mempool \cup InputKeys(tx)
        /\ tx.hash \notin DOMAIN transactions
        /\ InputKeys(tx) \cap spent_in_mempool = {}
    BY <1>2 DEF add_transaction, PoolAccepts, has_conflicting_inputs
  <2>2. /\ DOMAIN transactions' = DOMAIN transactions \cup {tx.hash}
        /\ \A h \in DOMAIN transactions : transactions'[h] = transactions[h]
        /\ transactions'[tx.hash] = tx
        /\ Pending' = Pending \cup {tx}
    BY <2>1, AddPending DEF PoolInv
  <2>3. PoolTypeOK'
    BY <2>1, <2>2 DEF PoolInv, PoolTypeOK
  <2>4. \A h \in DOMAIN transactions :
            InputKeys(tx) \cap InputKeys(transactions[h]) = {}
    BY <2>1 DEF PoolInv, SpentIndexExact, Pending
  <2>5. PoolConflictFree'
    BY <2>2, <2>4 DEF PoolInv, PoolConflictFree
  <2>6. SpentIndexExact'
    BY <2>1, <2>2 DEF PoolInv, SpentIndexExact
  <2>7. IsFiniteSet(Pending')
    BY <2>2, FS_AddElement DEF PoolInv
  <2>. QED BY <2>3, <2>5, <2>6, <2>7 DEF PoolInv
<1>. QED BY <1>1, <1>2

\* remove_transaction keeps the invariant.
LEMMA RemoveKeepsInv ==
    ASSUME PoolInv, NEW h, remove_transaction(h)
    PROVE  PoolInv'
<1>1. CASE h \notin DOMAIN transactions
  BY <1>1 DEF remove_transaction, poolVars, PoolInv, PoolTypeOK,
              PoolConflictFree, SpentIndexExact, Pending
<1>2. CASE h \in DOMAIN transactions
  <2>1. /\ transactions' = [x \in DOMAIN transactions \ {h} |-> transactions[x]]
        /\ spent_in_mempool' = spent_in_mempool \ InputKeys(transactions[h])
    BY <1>2 DEF remove_transaction
  <2>2. /\ DOMAIN transactions' = DOMAIN transactions \ {h}
        /\ \A x \in DOMAIN transactions \ {h} : transactions'[x] = transactions[x]
        /\ Pending' = Pending \ {transactions[h]}
    BY <1>2, <2>1, RemovePending DEF PoolInv
  <2>3. PoolTypeOK'
    BY <2>2 DEF PoolInv, PoolTypeOK
  <2>4. PoolConflictFree'
    BY <2>2 DEF PoolInv, PoolConflictFree
  <2>5. \A tx \in Pending \ {transactions[h]} :
            InputKeys(tx) \cap InputKeys(transactions[h]) = {}
    BY <1>2 DEF PoolInv, PoolConflictFree, Pending
  <2>6. SpentIndexExact'
    BY <1>2, <2>1, <2>2, <2>5 DEF PoolInv, SpentIndexExact, Pending
  <2>7. IsFiniteSet(Pending')
    BY <2>2, FS_Subset DEF PoolInv
  <2>. QED BY <2>3, <2>4, <2>6, <2>7 DEF PoolInv
<1>. QED BY <1>1, <1>2

-----------------------------------------------------------------------------
(* What get_for_block returns.                                             *)

\* An order of the pending transactions has each of them once.
LEMMA ByFeeOrders ==
    ASSUME PoolInv, NEW p \in ByFee
    PROVE  /\ p \in Seq(Pending)
           /\ \A i, j \in 1..Len(p) : i # j => p[i] # p[j]
           /\ \A i, j \in 1..Len(p) : i < j => p[i].fee >= p[j].fee
           /\ \A tx \in Pending : \E i \in 1..Len(p) : p[i] = tx
<1>. DEFINE n == Cardinality(Pending)
<1>1. n \in Nat /\ IsFiniteSet(Pending)
  BY FS_CardinalityType DEF PoolInv
<1>2. /\ p \in [1..n -> Pending]
      /\ \A i, j \in 1..n : i < j => p[i] # p[j] /\ p[i].fee >= p[j].fee
  BY DEF ByFee
<1>3. IsFiniteSet(1..n) /\ Cardinality(1..n) = n
  BY <1>1, FS_Interval
<1>4. \A i, j \in 1..n : i # j => p[i] # p[j]
  <2>1. \A i, j \in 1..n : i # j => i < j \/ j < i
    BY <1>1
  <2>. QED BY <1>2, <2>1
<1>5. p \in Injection(1..n, Pending)
  BY <1>2, <1>4 DEF Injection, IsInjective
<1>6. p \in Surjection(1..n, Pending)
  BY <1>1, <1>3, <1>5, FS_Injection
<1>. HIDE DEF n
<1>7. p \in Seq(Pending) /\ Len(p) = n
  BY <1>1, <1>2
<1>. QED BY <1>2, <1>4, <1>6, <1>7 DEF Surjection

\* It is a best choice, whatever the limit.
LEMMA SelectionBest ==
    ASSUME PoolInv, NEW max_count \in Nat, NEW s \in get_for_block(max_count)
    PROVE  s \in Seq(Pending) /\ BestChoice(s, max_count)
<1>1. PICK p \in ByFee :
        s = SubSeq(p, 1, IF Len(p) > max_count THEN max_count ELSE Len(p))
  BY DEF get_for_block, Cut
<1>2. /\ p \in Seq(Pending) /\ Len(p) \in Nat
      /\ \A i, j \in 1..Len(p) : i # j => p[i] # p[j]
      /\ \A i, j \in 1..Len(p) : i < j => p[i].fee >= p[j].fee
      /\ \A tx \in Pending : \E i \in 1..Len(p) : p[i] = tx
  BY <1>1, ByFeeOrders
<1>3. PICK n \in 0..Len(p) : s = SubSeq(p, 1, n) /\ (n = max_count \/ n = Len(p))
  BY <1>1, <1>2
<1>4. /\ s \in Seq(Pending) /\ Len(s) = n /\ DOMAIN s = 1..n
      /\ \A i \in 1..n : s[i] = p[i] /\ i \in 1..Len(p)
  BY <1>2, <1>3
<1>. DEFINE taken == {s[i] : i \in DOMAIN s}
<1>5. taken \subseteq Pending
  BY <1>4
<1>6. Cardinality(taken) = Len(s)
  <2>1. s \in Surjection(1..n, taken) /\ s \in Injection(1..n, taken)
    <3>1. s \in [1..n -> taken] /\ \A t \in taken : \E i \in 1..n : s[i] = t
      BY <1>4
    <3>2. \A i, j \in 1..n : s[i] = s[j] => i = j
      BY <1>2, <1>4
    <3>. QED BY <3>1, <3>2 DEF Surjection, Injection, IsInjective
  <2>2. IsFiniteSet(1..n) /\ Cardinality(1..n) = n
    BY FS_Interval
  <2>. HIDE DEF taken
  <2>3. Cardinality(taken) = Cardinality(1..n)
    BY <2>1, <2>2, FS_Surjection
  <2>. QED BY <1>4, <2>2, <2>3
<1>7. Len(s) = max_count \/ taken = Pending
  <2>1. CASE n = max_count
    BY <1>4, <2>1
  <2>2. CASE n = Len(p)
    <3>1. ASSUME NEW tx \in Pending PROVE tx \in taken
      <4>1. PICK i \in 1..Len(p) : p[i] = tx
        BY <1>2
      <4>2. i \in DOMAIN s /\ s[i] = tx
        BY <1>4, <2>2, <4>1
      <4>. QED BY <4>2
    <3>. QED BY ONLY <1>5, <3>1
  <2>. QED BY <1>3, <2>1, <2>2
<1>8. ASSUME NEW tx \in taken, NEW other \in Pending \ taken
      PROVE  tx.fee >= other.fee
  <2>1. PICK i \in 1..n : tx = p[i]
    BY <1>4
  <2>2. PICK j \in 1..Len(p) : other = p[j]
    BY <1>2
  <2>3. j \notin 1..n
    BY <1>4, <2>2
  <2>4. i \in 1..Len(p) /\ i < j
    BY <1>2, <1>3, <2>3
  <2>. QED BY <1>2, <2>1, <2>2, <2>4
<1>9. ASSUME NEW i \in DOMAIN s, NEW j \in DOMAIN s, i # j
      PROVE  InputKeys(s[i]) \cap InputKeys(s[j]) = {}
  <2>1. i \in 1..Len(p) /\ j \in 1..Len(p) /\ s[i] = p[i] /\ s[j] = p[j]
    BY <1>4
  <2>2. s[i] \in Pending /\ s[j] \in Pending
    BY <1>4
  <2>3. s[i] # s[j]
    BY <1>2, <1>9, <2>1
  <2>. QED BY <2>2, <2>3 DEF PoolInv, PoolConflictFree, Pending
<1>. QED BY <1>4, <1>5, <1>6, <1>7, <1>8, <1>9 DEF BestChoice

-----------------------------------------------------------------------------
(* The theorems.                                                           *)

\* The inductive invariant holds of every behaviour of the mempool.
THEOREM PoolInvariant == PoolSpec => []PoolInv
<1>1. PoolInit => PoolInv
  BY FS_EmptySet DEF PoolInit, PoolInv, PoolTypeOK, PoolConflictFree, SpentIndexExact, Pending
<1>2. PoolInv /\ [PoolNext]_poolVars => PoolInv'
  <2>. SUFFICES ASSUME PoolInv, [PoolNext]_poolVars PROVE PoolInv'
    OBVIOUS
  <2>1. ASSUME NEW tx \in Txs, add_transaction(tx) PROVE PoolInv'
    BY <2>1, AddKeepsInv
  <2>2. ASSUME NEW tx \in Txs, remove_transaction(tx.hash) PROVE PoolInv'
    BY <2>2, RemoveKeepsInv
  <2>3. CASE clear
    BY <2>3, FS_EmptySet DEF clear, PoolInv, PoolTypeOK, PoolConflictFree, SpentIndexExact, Pending
  <2>4. CASE UNCHANGED poolVars
    BY <2>4 DEF poolVars, PoolInv, PoolTypeOK, PoolConflictFree, SpentIndexExact, Pending
  <2>. QED BY <2>1, <2>2, <2>3, <2>4 DEF PoolNext
<1>. QED BY <1>1, <1>2, PTL DEF PoolSpec

\* Every entry of the mempool is stored under its own hash.
THEOREM PoolTypeCorrect == PoolSpec => []PoolTypeOK
<1>1. PoolInv => PoolTypeOK
  BY DEF PoolInv
<1>. QED BY <1>1, PoolInvariant, PTL

\* No two pending transactions spend the same output, whatever is added,
\* removed or cleared: what the miner takes from the pool never conflicts.
THEOREM PoolNeverConflicts == PoolSpec => []PoolConflictFree
<1>1. PoolInv => PoolConflictFree
  BY DEF PoolInv
<1>. QED BY <1>1, PoolInvariant, PTL

\* The index of spent outputs is exact, so that add_transaction refuses a
\* transaction only for a conflict with one that is pending.
THEOREM PoolRefusesOnlyConflicts == PoolSpec => [](SpentIndexExact /\ RefusesOnlyConflicts)
<1>1. PoolInv => SpentIndexExact /\ RefusesOnlyConflicts
  BY DEF PoolInv, SpentIndexExact, RefusesOnlyConflicts, PoolAccepts,
         has_conflicting_inputs
<1>. QED BY <1>1, PoolInvariant, PTL

\* get_for_block hands the miner a best choice: the highest fees, no more than
\* it asked for, nothing twice and nothing that conflicts.
THEOREM SelectionAlwaysBest ==
    ASSUME IsFiniteSet(Txs)
    PROVE  PoolSpec => []SelectionIsBest
<1>1. \A max_count \in 0..Cardinality(Txs) : max_count \in Nat
  BY FS_CardinalityType
<1>2. PoolInv => SelectionIsBest
  BY <1>1, SelectionBest DEF SelectionIsBest
<1>. QED BY <1>2, PoolInvariant, PTL
=============================================================================
