-------------------------- MODULE BlockchainProofs --------------------------
(***************************************************************************)
(* The invariants of Blockchain for every set of offered blocks.           *)
(*                                                                         *)
(* The inductive invariant adds to the properties of Blockchain what the   *)
(* chain file must satisfy: load_from_disk checks nothing, so that the     *)
(* chain it restores is sound only because the saved one was.              *)
(***************************************************************************)
EXTENDS Blockchain, FiniteSetTheorems, SequenceTheorems, WellFoundedInduction, TLAPS

\* The chain that load_from_disk would read.
FileChain == [i \in DOMAIN file |-> block_from_json(file[i])]

\* The saved chain is made of blocks, linked, and spends properly.
FileSound ==
    /\ FileChain \in Seq(Blocks)
    /\ Linked(FileChain)
    /\ AllSpendsOwnUnspent(FileChain)

\* The index maps the hash of every block to its position.
IndexExact ==
    /\ DOMAIN hash_index = {chain[n].hash : n \in 1..Len(chain)}
    /\ \A n \in 1..Len(chain) : hash_index[chain[n].hash] = n - 1

\* The inductive invariant.
ChainInv ==
    /\ ChainTypeOK
    /\ FileSound
    /\ ChainLinked
    /\ IndexExact
    /\ UtxoMatchesHistory
    /\ ChainSpendsOwnUnspent

-----------------------------------------------------------------------------
(* Blocks and hashes.                                                      *)

\* A sealed block has its header, its transactions and its hash.
LEMMA SealedBlock ==
    ASSUME NEW header, NEW transactions
    PROVE  LET b == Sealed(header, transactions)
           IN  /\ b.header = header
               /\ b.transactions = transactions
               /\ b.hash = block_calculate_hash(b)
               /\ b = [header |-> b.header, transactions |-> b.transactions,
                       hash |-> b.hash]
<1>1. /\ Sealed(header, transactions).header = header
      /\ Sealed(header, transactions).transactions = transactions
  BY DEF Sealed
<1>2. block_serialize(Sealed(header, transactions))
        = block_serialize([header |-> header, transactions |-> transactions])
  BY <1>1 DEF block_serialize
<1>. QED BY <1>1, <1>2 DEF Sealed, block_calculate_hash

\* Genesis blocks are blocks, and hash as they should.
LEMMA GenesisIsBlock ==
    ASSUME NEW now
    PROVE  LET g == create_genesis_block(now)
           IN  /\ IsBlock(g)
               /\ g.header.index = 0
               /\ g.hash = block_calculate_hash(g)
               /\ BlockTxs(g) = {}
<1>. DEFINE g == create_genesis_block(now)
            h == [index         |-> 0,
                  previous_hash |-> null_hash,
                  timestamp     |-> now,
                  nonce         |-> 0,
                  merkle_root   |-> double_sha256(Text("")),
                  difficulty    |-> 1,
                  miner_address |-> Text("genesis")]
<1>1. g = Sealed(h, <<>>)
  BY DEF create_genesis_block
<1>. HIDE DEF g
<1>2. /\ g.header = h
      /\ g.transactions = <<>>
      /\ g.hash = block_calculate_hash(g)
      /\ g = [header |-> g.header, transactions |-> g.transactions, hash |-> g.hash]
  BY <1>1, SealedBlock
<1>3. BlockTxs(g) = {}
  <2>1. g.transactions = <<>>
    BY <1>2
  <2>2. DOMAIN g.transactions = {}
    BY <2>1
  <2>. QED BY <2>2 DEF BlockTxs
<1>4. h = [index         |-> h.index,
           previous_hash |-> h.previous_hash,
           timestamp     |-> h.timestamp,
           nonce         |-> h.nonce,
           merkle_root   |-> h.merkle_root,
           difficulty    |-> h.difficulty,
           miner_address |-> h.miner_address] /\ h.index = 0
  OBVIOUS
<1>. HIDE DEF h
<1>5. IsBlock(g)
  BY <1>2, <1>3, <1>4 DEF IsBlock
<1>. QED BY <1>2, <1>3, <1>4, <1>5 DEF g

\* Every block that can reach the chain has all the fields of a block.
LEMMA BlocksAreBlocks == \A b \in Blocks : IsBlock(b)
  BY OffersAssumption, GenesisIsBlock DEF Blocks, Genesis

\* from_json undoes to_json.
LEMMA JsonRoundTrip ==
    ASSUME NEW b, IsBlock(b)
    PROVE  block_from_json(block_to_json(b)) = b
<1>. DEFINE txs == b.transactions
            j   == block_to_json(b)
<1>1. ASSUME NEW i \in DOMAIN txs
      PROVE  tx_from_json(tx_to_json(txs[i])) = txs[i]
  <2>1. txs[i] = TxFields(txs[i])
    BY DEF IsBlock, BlockTxs, IsTransaction
  <2>. QED BY <2>1 DEF tx_from_json, tx_to_json
<1>2. j.transactions = [i \in DOMAIN txs |-> tx_to_json(txs[i])]
  BY DEF block_to_json
<1>3. block_from_json(j).transactions
        = [i \in DOMAIN txs |-> tx_from_json(tx_to_json(txs[i]))]
  BY <1>2 DEF block_from_json
<1>4. block_from_json(j).transactions = txs
  <2>1. [i \in DOMAIN txs |-> tx_from_json(tx_to_json(txs[i]))] = [i \in DOMAIN txs |-> txs[i]]
    BY <1>1
  <2>. QED BY <1>3, <2>1 DEF IsBlock
<1>5. /\ block_from_json(j) = [header       |-> block_from_json(j).header,
                               transactions |-> block_from_json(j).transactions,
                               hash         |-> block_from_json(j).hash]
      /\ block_from_json(j).header = b.header
      /\ block_from_json(j).hash = b.hash
      /\ b = [header |-> b.header, transactions |-> b.transactions, hash |-> b.hash]
  BY DEF IsBlock, block_from_json, block_to_json
<1>. QED BY <1>4, <1>5

\* Blocks with the same hash have the same index.
LEMMA HashHasIndex ==
    ASSUME NEW a, NEW b, block_calculate_hash(a) = block_calculate_hash(b)
    PROVE  a.header.index = b.header.index
  BY DEF block_calculate_hash, block_serialize, double_sha256

\* Transactions with the same hash have the same outputs.
LEMMA HashHasOutputs ==
    ASSUME NEW s, NEW t, tx_calculate_hash(s) = tx_calculate_hash(t)
    PROVE  s.outputs = t.outputs
  BY DEF tx_calculate_hash, tx_serialize, double_sha256

-----------------------------------------------------------------------------
(* Sums.  SumFunctionOnSet is defined by recursion over subsets: that the  *)
(* recursion has a solution, and one only, is proved here by looking at a  *)
(* smallest subset where it would not.  Everything about sums follows from *)
(* the equation and from induction over the subsets of a finite set.       *)

\* The element that the recursion takes out of s.
Pick(s) == CHOOSE x \in s : TRUE

\* The equation of the recursion at a set s.
Equation(g, f, s) ==
    g[s] = IF s = {} THEN 0 ELSE f[Pick(s)] + g[s \ {Pick(s)}]

\* g is a solution on the subsets of S.
Recurses(g, f, S) ==
    g = [s \in SUBSET S |-> IF s = {} THEN 0 ELSE f[Pick(s)] + g[s \ {Pick(s)}]]

\* The sum over S is the value at S of a function that recurses down to {}.
LEMMA SumUnfolds ==
    ASSUME NEW f, NEW S
    PROVE  SumFunctionOnSet(f, S) = (CHOOSE g : Recurses(g, f, S))[S]
  BY Zenon DEF SumFunctionOnSet, FoldFunctionOnSet, MapThenFoldSet, Recurses, Pick

\* A set of numbers has a least one.
LEMMA LeastNumber ==
    ASSUME NEW S \in SUBSET Nat, S # {}
    PROVE  \E x \in S : \A y \in S : x <= y
<1>1. PICK x \in S : \A y \in S : ~(<<y, x>> \in OpToRel(<, Nat))
  BY NatLessThanWellFounded, WFMin
<1>2. \A y \in S : ~(y < x)
  BY <1>1 DEF OpToRel
<1>. QED BY <1>2

\* Pick takes an element of the set.
LEMMA PickIn == ASSUME NEW s, s # {} PROVE Pick(s) \in s
  BY DEF Pick

\* The subsets of S of at most n elements.
Small(S, n) == {s \in SUBSET S : Cardinality(s) <= n}

\* Without the element that Pick takes, a set is smaller by one.
LEMMA SmallStep ==
    ASSUME NEW S, IsFiniteSet(S), NEW n \in Nat, NEW s \in Small(S, n + 1), s # {}
    PROVE  s \ {Pick(s)} \in Small(S, n)
<1>1. IsFiniteSet(s) /\ Pick(s) \in s
  BY PickIn, FS_Subset DEF Small
<1>2. Cardinality(s \ {Pick(s)}) = Cardinality(s) - 1
  BY <1>1, FS_RemoveElement
<1>3. Cardinality(s) \in Nat
  BY <1>1, FS_CardinalityType
<1>. QED BY <1>2, <1>3 DEF Small

\* A solution on small sets.
Solves(g, f, S, n) ==
    /\ g = [s \in Small(S, n) |-> g[s]]
    /\ \A s \in Small(S, n) : Equation(g, f, s)

\* A solution on small sets extends to sets with one more element ...
LEMMA SolutionExtends ==
    ASSUME NEW f, NEW S, IsFiniteSet(S), NEW n \in Nat, NEW g, Solves(g, f, S, n)
    PROVE  \E h : Solves(h, f, S, n + 1)
<1> DEFINE h == [s \in Small(S, n + 1) |->
                   IF s = {} THEN 0 ELSE f[Pick(s)] + g[s \ {Pick(s)}]]
<1>1. Small(S, n) \subseteq Small(S, n + 1)
  <2>1. SUFFICES ASSUME NEW s \in Small(S, n) PROVE s \in Small(S, n + 1)
    OBVIOUS
  <2>2. Cardinality(s) \in Nat
    BY FS_Subset, FS_CardinalityType DEF Small
  <2>. QED BY <2>2 DEF Small
<1>2. ASSUME NEW s \in Small(S, n) PROVE h[s] = g[s]
  BY <1>1 DEF Solves, Equation
<1>3. ASSUME NEW s \in Small(S, n + 1) PROVE Equation(h, f, s)
  <2>1. CASE s = {}
    BY <2>1 DEF Equation
  <2>2. CASE s # {}
    <3>1. h[s \ {Pick(s)}] = g[s \ {Pick(s)}]
      BY <1>2, <2>2, SmallStep
    <3>2. h[s] = f[Pick(s)] + g[s \ {Pick(s)}]
      BY <2>2
    <3>. HIDE DEF h
    <3>. QED BY <2>2, <3>1, <3>2 DEF Equation
  <2>. QED BY <2>1, <2>2
<1>4. h = [s \in Small(S, n + 1) |-> h[s]]
  OBVIOUS
<1>. HIDE DEF h
<1>. QED BY <1>3, <1>4 DEF Solves

\* ... so that there is one on sets of any size ...
LEMMA SolutionExists ==
    ASSUME NEW f, NEW S, IsFiniteSet(S), NEW n \in Nat
    PROVE  \E g : Solves(g, f, S, n)
<1> DEFINE B == {m \in Nat : ~\E g : Solves(g, f, S, m)}
<1>1. SUFFICES ASSUME B # {} PROVE FALSE
  OBVIOUS
<1>2. B \in SUBSET Nat
  OBVIOUS
<1>. HIDE DEF B
<1>3. PICK m \in B : \A y \in B : m <= y
  BY <1>1, <1>2, LeastNumber
<1>4. m # 0
  <2>. DEFINE z == [s \in Small(S, 0) |-> 0]
  <2>1. \A s \in Small(S, 0) : s = {}
    <3>1. SUFFICES ASSUME NEW s \in Small(S, 0) PROVE s = {}
      OBVIOUS
    <3>2. IsFiniteSet(s) /\ Cardinality(s) \in Nat /\ Cardinality(s) <= 0
      BY FS_Subset, FS_CardinalityType DEF Small
    <3>. QED BY <3>2, FS_EmptySet
  <2>2. Solves(z, f, S, 0)
    BY <2>1 DEF Solves, Equation
  <2>. QED BY <1>3, <2>2 DEF B
<1>5. m - 1 \in Nat /\ m - 1 \notin B /\ m \in Nat
  BY <1>2, <1>3, <1>4
<1>6. PICK g : Solves(g, f, S, m - 1)
  BY <1>5 DEF B
<1>7. \E h : Solves(h, f, S, (m - 1) + 1)
  BY <1>5, <1>6, SolutionExtends
<1>. QED BY <1>3, <1>5, <1>7 DEF B

\* ... and on all subsets of S.
LEMMA RecursionExists ==
    ASSUME NEW f, NEW S, IsFiniteSet(S)
    PROVE  \E g : Recurses(g, f, S)
<1>1. Cardinality(S) \in Nat
  BY FS_CardinalityType
<1>2. PICK g : Solves(g, f, S, Cardinality(S))
  BY <1>1, SolutionExists
<1>3. Small(S, Cardinality(S)) = SUBSET S
  BY FS_Subset DEF Small
<1>. QED BY <1>2, <1>3 DEF Solves, Recurses, Equation

\* Solutions agree where both are defined.
LEMMA RecursionUnique ==
    ASSUME NEW f, NEW S, NEW T, IsFiniteSet(T), S \subseteq T,
           NEW g, Recurses(g, f, S), NEW h, Recurses(h, f, T)
    PROVE  \A s \in SUBSET S : g[s] = h[s]
<1> DEFINE B == {Cardinality(s) : s \in {r \in SUBSET S : g[r] # h[r]}}
<1>1. SUFFICES ASSUME B # {} PROVE FALSE
  OBVIOUS
<1>2. \A s \in SUBSET S : IsFiniteSet(s) /\ Cardinality(s) \in Nat
  BY FS_Subset, FS_CardinalityType
<1>3. B \in SUBSET Nat
  BY <1>2
<1>. HIDE DEF B
<1>4. PICK m \in B : \A y \in B : m <= y
  BY <1>1, <1>3, LeastNumber
<1>5. PICK s \in SUBSET S : g[s] # h[s] /\ m = Cardinality(s)
  BY <1>4 DEF B
<1>6. s \in SUBSET T
  BY <1>5
<1>7. s # {}
  BY <1>5, <1>6 DEF Recurses
<1>8. Pick(s) \in s /\ s \ {Pick(s)} \in SUBSET S /\ s \ {Pick(s)} \in SUBSET T
  BY <1>5, <1>7, PickIn
<1>9. Cardinality(s \ {Pick(s)}) = m - 1 /\ m \in Nat
  BY <1>2, <1>5, <1>8, FS_RemoveElement
<1>10. g[s \ {Pick(s)}] = h[s \ {Pick(s)}]
  <2>1. SUFFICES ASSUME g[s \ {Pick(s)}] # h[s \ {Pick(s)}] PROVE FALSE
    OBVIOUS
  <2>2. m - 1 \in B
    BY <1>8, <1>9, <2>1 DEF B
  <2>. QED BY <1>4, <1>9, <2>2
<1>11. g[s] = f[Pick(s)] + g[s \ {Pick(s)}] /\ h[s] = f[Pick(s)] + h[s \ {Pick(s)}]
  BY <1>5, <1>6, <1>7 DEF Recurses
<1>. QED BY <1>5, <1>10, <1>11

\* Induction over the subsets of a finite set: B is the set of those for
\* which a statement holds.
LEMMA SubsetInduction ==
    ASSUME NEW S, IsFiniteSet(S), NEW B \in SUBSET (SUBSET S), {} \in B,
           \A s \in B : \A x \in S \ s : s \cup {x} \in B
    PROVE  \A s \in SUBSET S : s \in B
<1> DEFINE C == {Cardinality(s) : s \in (SUBSET S) \ B}
<1>1. SUFFICES ASSUME C # {} PROVE FALSE
  OBVIOUS
<1>2. \A s \in SUBSET S : IsFiniteSet(s) /\ Cardinality(s) \in Nat
  BY FS_Subset, FS_CardinalityType
<1>3. C \in SUBSET Nat
  BY <1>2
<1>. HIDE DEF C
<1>4. PICK m \in C : \A y \in C : m <= y
  BY <1>1, <1>3, LeastNumber
<1>5. PICK s \in (SUBSET S) \ B : m = Cardinality(s)
  BY <1>4 DEF C
<1>6. PICK x \in s : TRUE
  BY <1>5
<1>7. s \ {x} \in SUBSET S /\ x \in S \ (s \ {x}) /\ (s \ {x}) \cup {x} = s
  BY <1>5, <1>6
<1>8. s \ {x} \notin B
  BY <1>5, <1>7
<1>9. Cardinality(s \ {x}) = m - 1 /\ m \in Nat
  BY <1>2, <1>5, <1>6, FS_RemoveElement
<1>10. m - 1 \in C
  BY <1>7, <1>8, <1>9 DEF C
<1>. QED BY <1>4, <1>9, <1>10

\* The equation of a sum.
LEMMA SumEquation ==
    ASSUME NEW f, NEW S, IsFiniteSet(S)
    PROVE  SumFunctionOnSet(f, S) =
             IF S = {} THEN 0
             ELSE f[Pick(S)] + SumFunctionOnSet(f, S \ {Pick(S)})
<1>1. PICK g : Recurses(g, f, S) /\ SumFunctionOnSet(f, S) = g[S]
  <2>. DEFINE g == CHOOSE g : Recurses(g, f, S)
  <2>1. Recurses(g, f, S)
    BY RecursionExists
  <2>. QED BY <2>1, SumUnfolds
<1>2. CASE S = {}
  BY <1>1, <1>2 DEF Recurses
<1>3. CASE S # {}
  <2>. DEFINE R == S \ {Pick(S)}
  <2>1. IsFiniteSet(R) /\ R \in SUBSET S
    BY FS_Subset
  <2>2. PICK h : Recurses(h, f, R) /\ SumFunctionOnSet(f, R) = h[R]
    <3>. DEFINE h == CHOOSE h : Recurses(h, f, R)
    <3>1. Recurses(h, f, R)
      BY <2>1, RecursionExists
    <3>. QED BY <3>1, SumUnfolds
  <2>4. g[S] = f[Pick(S)] + g[R]
    BY <1>1, <1>3 DEF Recurses
  <2>5. SumFunctionOnSet(f, R) = h[R] /\ R = S \ {Pick(S)}
    BY <2>2
  <2>. HIDE DEF R
  <2>3. h[R] = g[R]
    <3>1. R \subseteq S /\ R \in SUBSET R
      BY <2>1
    <3>2. Recurses(h, f, R) /\ Recurses(g, f, S)
      BY <1>1, <2>2
    <3>3. \A s \in SUBSET R : h[s] = g[s]
      BY <3>1, <3>2, RecursionUnique
    <3>. QED BY <3>1, <3>3
  <2>. QED BY <1>1, <1>3, <2>3, <2>4, <2>5
<1>. QED BY <1>2, <1>3

\* A sum of integers is one.
LEMMA SumInt ==
    ASSUME NEW f, NEW S, IsFiniteSet(S), \A x \in S : f[x] \in Int
    PROVE  SumFunctionOnSet(f, S) \in Int
<1> DEFINE C == {Cardinality(s) : s \in {r \in SUBSET S : SumFunctionOnSet(f, r) \notin Int}}
<1>1. SUFFICES ASSUME C # {} PROVE FALSE
  OBVIOUS
<1>2. \A s \in SUBSET S : IsFiniteSet(s) /\ Cardinality(s) \in Nat
  BY FS_Subset, FS_CardinalityType
<1>3. C \in SUBSET Nat
  BY <1>2
<1>. HIDE DEF C
<1>4. PICK m \in C : \A y \in C : m <= y
  BY <1>1, <1>3, LeastNumber
<1>5. PICK s \in SUBSET S : SumFunctionOnSet(f, s) \notin Int /\ m = Cardinality(s)
  BY <1>4 DEF C
<1>6. s # {}
  <2>1. SumFunctionOnSet(f, {}) = 0
    BY FS_EmptySet, SumEquation
  <2>. QED BY <1>5, <2>1
<1>7. Pick(s) \in s /\ s \ {Pick(s)} \in SUBSET S
  BY <1>6, PickIn
<1>8. Cardinality(s \ {Pick(s)}) = m - 1 /\ m \in Nat
  BY <1>2, <1>5, <1>7, FS_RemoveElement
<1>9. m - 1 \notin C
  BY <1>4, <1>8
<1>10. SumFunctionOnSet(f, s \ {Pick(s)}) \in Int
  BY <1>7, <1>8, <1>9 DEF C
<1>11. SumFunctionOnSet(f, s) = f[Pick(s)] + SumFunctionOnSet(f, s \ {Pick(s)})
  BY <1>2, <1>6, SumEquation
<1>. QED BY <1>5, <1>7, <1>10, <1>11

\* One more element adds its value, whichever one the recursion picks.
LEMMA SumInsert ==
    ASSUME NEW f, NEW S, IsFiniteSet(S), \A x \in S : f[x] \in Int,
           NEW x \in S
    PROVE  SumFunctionOnSet(f, S) = f[x] + SumFunctionOnSet(f, S \ {x})
<1> DEFINE Wrong(s) == \E y \in s :
             SumFunctionOnSet(f, s) # f[y] + SumFunctionOnSet(f, s \ {y})
           C == {Cardinality(s) : s \in {r \in SUBSET S : Wrong(r)}}
<1>1. SUFFICES ASSUME C # {} PROVE FALSE
  <2>1. SUFFICES ASSUME SumFunctionOnSet(f, S) # f[x] + SumFunctionOnSet(f, S \ {x})
                 PROVE  C # {}
    OBVIOUS
  <2>2. Wrong(S) /\ S \in SUBSET S
    BY <2>1
  <2>. HIDE DEF Wrong
  <2>. QED BY <2>2
<1>2. \A s \in SUBSET S : IsFiniteSet(s) /\ Cardinality(s) \in Nat
  BY FS_Subset, FS_CardinalityType
<1>3. C \in SUBSET Nat
  <2>. HIDE DEF Wrong
  <2>. QED BY <1>2
<1>. HIDE DEF C
<1>4. PICK m \in C : \A y \in C : m <= y
  BY <1>1, <1>3, LeastNumber
<1>5. PICK s \in SUBSET S : Wrong(s) /\ m = Cardinality(s)
  <2>. HIDE DEF Wrong
  <2>. QED BY <1>4 DEF C
<1>6. PICK y \in s : SumFunctionOnSet(f, s) # f[y] + SumFunctionOnSet(f, s \ {y})
  BY <1>5
<1>7. PICK p \in s : p = Pick(s) /\ SumFunctionOnSet(f, s) = f[p] + SumFunctionOnSet(f, s \ {p})
  BY <1>2, <1>6, PickIn, SumEquation
<1>8. p # y
  BY <1>6, <1>7
<1>9. ASSUME NEW a \in s, NEW b \in s, a # b
      PROVE  SumFunctionOnSet(f, s \ {a})
               = f[b] + SumFunctionOnSet(f, (s \ {a}) \ {b})
  <2>1. s \ {a} \in SUBSET S /\ b \in s \ {a}
    BY <1>9
  <2>2. Cardinality(s \ {a}) = m - 1 /\ m \in Nat
    BY <1>2, <1>5, FS_RemoveElement
  <2>3. m - 1 \notin C
    BY <1>4, <2>2
  <2>4. ~Wrong(s \ {a})
    <3>. HIDE DEF Wrong
    <3>. QED BY <2>1, <2>2, <2>3 DEF C
  <2>. QED BY <2>1, <2>4
<1>10. (s \ {p}) \ {y} = (s \ {y}) \ {p}
  OBVIOUS
<1>11. /\ SumFunctionOnSet(f, s \ {p}) = f[y] + SumFunctionOnSet(f, (s \ {p}) \ {y})
       /\ SumFunctionOnSet(f, s \ {y}) = f[p] + SumFunctionOnSet(f, (s \ {y}) \ {p})
  BY <1>8, <1>9
<1>12. f[p] \in Int /\ f[y] \in Int /\ SumFunctionOnSet(f, (s \ {p}) \ {y}) \in Int
  <2>1. (s \ {p}) \ {y} \in SUBSET S
    OBVIOUS
  <2>2. IsFiniteSet((s \ {p}) \ {y}) /\ \A z \in (s \ {p}) \ {y} : f[z] \in Int
    BY <1>2, <2>1
  <2>. QED BY <2>2, SumInt
<1>13. PICK a \in Int : a = f[p]
  BY <1>12
<1>14. PICK b \in Int : b = f[y]
  BY <1>12
<1>15. PICK c \in Int : c = SumFunctionOnSet(f, (s \ {p}) \ {y})
  BY <1>12
<1>16. SumFunctionOnSet(f, s) = a + (b + c)
  BY <1>7, <1>11, <1>13, <1>14, <1>15
<1>17. f[y] + SumFunctionOnSet(f, s \ {y}) = b + (a + c)
  BY <1>10, <1>11, <1>13, <1>14, <1>15
<1>18. a + (b + c) = b + (a + c)
  OBVIOUS
<1>. QED BY <1>6, <1>16, <1>17, <1>18

\* The sum over no elements.
LEMMA SumEmpty == ASSUME NEW f PROVE SumFunctionOnSet(f, {}) = 0
  BY FS_EmptySet, SumEquation

\* The sum over one more element.
LEMMA SumAdd ==
    ASSUME NEW f, NEW S, IsFiniteSet(S), NEW x, x \notin S,
           f[x] \in Int, \A y \in S : f[y] \in Int
    PROVE  SumFunctionOnSet(f, S \cup {x}) = SumFunctionOnSet(f, S) + f[x]
<1>1. IsFiniteSet(S \cup {x}) /\ (S \cup {x}) \ {x} = S
  BY FS_AddElement
<1>2. SumFunctionOnSet(f, S \cup {x}) = f[x] + SumFunctionOnSet(f, S)
  BY <1>1, SumInsert
<1>. QED BY <1>2, SumInt

\* Only the values on S count.
LEMMA SumSame ==
    ASSUME NEW S, IsFiniteSet(S), NEW f, NEW g,
           \A x \in S : f[x] \in Int /\ g[x] = f[x]
    PROVE  SumFunctionOnSet(g, S) = SumFunctionOnSet(f, S)
<1> DEFINE B == {s \in SUBSET S : SumFunctionOnSet(g, s) = SumFunctionOnSet(f, s)}
<1>1. B \in SUBSET (SUBSET S) /\ {} \in B
  BY SumEmpty
<1>2. ASSUME NEW s \in B, NEW x \in S \ s PROVE s \cup {x} \in B
  <2>1. s \in SUBSET S /\ SumFunctionOnSet(g, s) = SumFunctionOnSet(f, s)
    BY <1>2
  <2>2. IsFiniteSet(s) /\ x \notin s
    BY <1>2, <2>1, FS_Subset
  <2>3. \A y \in s : f[y] \in Int /\ g[y] \in Int
    BY <2>1
  <2>4. SumFunctionOnSet(f, s \cup {x}) = SumFunctionOnSet(f, s) + f[x]
    BY <1>2, <2>2, <2>3, SumAdd
  <2>5. SumFunctionOnSet(g, s \cup {x}) = SumFunctionOnSet(g, s) + g[x]
    BY <1>2, <2>2, <2>3, SumAdd
  <2>6. SumFunctionOnSet(g, s \cup {x}) = SumFunctionOnSet(f, s \cup {x})
    BY <2>1, <2>4, <2>5
  <2>. QED BY <2>1, <2>6
<1>. HIDE DEF B
<1>3. S \in B
  BY <1>1, <1>2, SubsetInduction
<1>. QED BY <1>3 DEF B

\* Sums over disjoint sets add up.
LEMMA SumUnion ==
    ASSUME NEW f, NEW A, NEW D, IsFiniteSet(A), IsFiniteSet(D), A \cap D = {},
           \A x \in A \cup D : f[x] \in Int
    PROVE  SumFunctionOnSet(f, A \cup D)
             = SumFunctionOnSet(f, A) + SumFunctionOnSet(f, D)
<1> DEFINE B == {s \in SUBSET D : SumFunctionOnSet(f, A \cup s)
                    = SumFunctionOnSet(f, A) + SumFunctionOnSet(f, s)}
<1>0. SumFunctionOnSet(f, A) \in Int
  BY SumInt
<1>1. B \in SUBSET (SUBSET D) /\ {} \in B
  <2>1. A \cup {} = A
    OBVIOUS
  <2>2. SumFunctionOnSet(f, A \cup {}) = SumFunctionOnSet(f, A) + SumFunctionOnSet(f, {})
    BY <1>0, <2>1, SumEmpty
  <2>. QED BY <2>2
<1>2. ASSUME NEW s \in B, NEW x \in D \ s PROVE s \cup {x} \in B
  <2>1. s \in SUBSET D /\ SumFunctionOnSet(f, A \cup s)
                    = SumFunctionOnSet(f, A) + SumFunctionOnSet(f, s)
    BY <1>2
  <2>2. IsFiniteSet(s) /\ x \notin s /\ x \notin A \cup s /\ IsFiniteSet(A \cup s)
    BY <1>2, <2>1, FS_Subset, FS_Union
  <2>3. f[x] \in Int /\ \A y \in A \cup s : f[y] \in Int
    BY <1>2, <2>1
  <2>4. SumFunctionOnSet(f, s \cup {x}) = SumFunctionOnSet(f, s) + f[x]
    BY <2>2, <2>3, SumAdd
  <2>5. SumFunctionOnSet(f, (A \cup s) \cup {x}) = SumFunctionOnSet(f, A \cup s) + f[x]
    BY <2>2, <2>3, SumAdd
  <2>6. SumFunctionOnSet(f, s) \in Int
    BY <2>2, <2>3, SumInt
  <2>7. A \cup (s \cup {x}) = (A \cup s) \cup {x} /\ s \cup {x} \in SUBSET D
    BY <1>2, <2>1
  <2>8. PICK a \in Int : a = SumFunctionOnSet(f, A)
    BY <1>0
  <2>9. PICK b \in Int : b = SumFunctionOnSet(f, s)
    BY <2>6
  <2>10. PICK c \in Int : c = f[x]
    BY <2>3
  <2>11. SumFunctionOnSet(f, (A \cup s) \cup {x}) = (a + b) + c
    BY <2>1, <2>5, <2>8, <2>9, <2>10
  <2>12. SumFunctionOnSet(f, A) + SumFunctionOnSet(f, s \cup {x}) = a + (b + c)
    BY <2>4, <2>8, <2>9, <2>10
  <2>13. (a + b) + c = a + (b + c)
    OBVIOUS
  <2>14. SumFunctionOnSet(f, A \cup (s \cup {x}))
           = SumFunctionOnSet(f, A) + SumFunctionOnSet(f, s \cup {x})
    BY <2>7, <2>11, <2>12, <2>13
  <2>. QED BY <2>7, <2>14
<1>. HIDE DEF B
<1>3. D \in B
  BY <1>1, <1>2, SubsetInduction
<1>. QED BY <1>3 DEF B

\* A sum of natural numbers is one.
LEMMA SumNat ==
    ASSUME NEW f, NEW S, IsFiniteSet(S), \A x \in S : f[x] \in Nat
    PROVE  SumFunctionOnSet(f, S) \in Nat
<1> DEFINE B == {s \in SUBSET S : SumFunctionOnSet(f, s) \in Nat}
<1>1. B \in SUBSET (SUBSET S) /\ {} \in B
  BY SumEmpty
<1>2. ASSUME NEW s \in B, NEW x \in S \ s PROVE s \cup {x} \in B
  <2>1. s \in SUBSET S /\ SumFunctionOnSet(f, s) \in Nat
    BY <1>2
  <2>2. IsFiniteSet(s) /\ x \notin s
    BY <1>2, <2>1, FS_Subset
  <2>3. f[x] \in Nat /\ \A y \in s : f[y] \in Int
    BY <1>2, <2>1
  <2>4. SumFunctionOnSet(f, s \cup {x}) = SumFunctionOnSet(f, s) + f[x]
    BY <2>2, <2>3, SumAdd
  <2>5. SumFunctionOnSet(f, s \cup {x}) \in Nat
    BY <2>1, <2>3, <2>4
  <2>. QED BY <2>1, <2>5
<1>. HIDE DEF B
<1>3. S \in B
  BY <1>1, <1>2, SubsetInduction
<1>. QED BY <1>3 DEF B

\* Sums over two sets whose elements correspond one to one.
LEMMA SumImage ==
    ASSUME NEW S, IsFiniteSet(S), NEW f, NEW g, NEW e, \A x \in S : f[x] \in Int,
           \A x \in S : g[e[x]] = f[x],
           \A x, y \in S : e[x] = e[y] => x = y
    PROVE  SumFunctionOnSet(g, {e[x] : x \in S}) = SumFunctionOnSet(f, S)
<1> DEFINE E(s) == {e[x] : x \in s}
           B == {s \in SUBSET S : IsFiniteSet(E(s)) /\ SumFunctionOnSet(g, E(s)) = SumFunctionOnSet(f, s)}
<1>1. B \in SUBSET (SUBSET S) /\ {} \in B
  <2>1. E({}) = {}
    OBVIOUS
  <2>2. IsFiniteSet(E({})) /\ SumFunctionOnSet(g, E({})) = SumFunctionOnSet(f, {})
    BY <2>1, SumEmpty, FS_EmptySet
  <2>. HIDE DEF E
  <2>. QED BY <2>2
<1>2. ASSUME NEW s \in B, NEW x \in S \ s PROVE s \cup {x} \in B
  <2>1. s \in SUBSET S /\ SumFunctionOnSet(g, E(s)) = SumFunctionOnSet(f, s) /\ IsFiniteSet(E(s))
    BY <1>2
  <2>2. IsFiniteSet(s) /\ x \notin s
    BY <1>2, <2>1, FS_Subset
  <2>3. f[x] \in Int /\ \A y \in s : f[y] \in Int
    BY <1>2, <2>1
  <2>4. SumFunctionOnSet(f, s \cup {x}) = SumFunctionOnSet(f, s) + f[x]
    BY <2>2, <2>3, SumAdd
  <2>5. e[x] \notin E(s) /\ g[e[x]] = f[x] /\ \A y \in E(s) : g[y] \in Int
    BY <1>2, <2>1, <2>2
  <2>6. E(s \cup {x}) = E(s) \cup {e[x]}
    OBVIOUS
  <2>. HIDE DEF E
  <2>7. SumFunctionOnSet(g, E(s) \cup {e[x]}) = SumFunctionOnSet(g, E(s)) + g[e[x]]
    BY <2>1, <2>3, <2>5, SumAdd
  <2>8. SumFunctionOnSet(g, E(s \cup {x})) = SumFunctionOnSet(f, s \cup {x})
    BY <2>1, <2>4, <2>5, <2>6, <2>7
  <2>9. IsFiniteSet(E(s \cup {x}))
    <3>1. IsFiniteSet(E(s) \cup {e[x]})
      BY <2>1, FS_AddElement
    <3>. QED BY <2>6, <3>1
  <2>. QED BY <2>1, <2>8, <2>9
<1>. HIDE DEF B
<1>3. S \in B
  BY <1>1, <1>2, SubsetInduction
<1>. QED BY <1>3 DEF B

\* Where no value is negative, a subset sums to no more.
LEMMA SumMonotone ==
    ASSUME NEW f, NEW S, IsFiniteSet(S), NEW A \in SUBSET S, \A x \in S : f[x] \in Nat
    PROVE  SumFunctionOnSet(f, A) <= SumFunctionOnSet(f, S)
<1>1. IsFiniteSet(A) /\ IsFiniteSet(S \ A) /\ A \cup (S \ A) = S /\ A \cap (S \ A) = {}
  BY FS_Subset
<1>2. \A x \in A \cup (S \ A) : f[x] \in Int
  OBVIOUS
<1>3. SumFunctionOnSet(f, A \cup (S \ A)) = SumFunctionOnSet(f, A) + SumFunctionOnSet(f, S \ A)
  BY <1>1, <1>2, SumUnion
<1>4. SumFunctionOnSet(f, A) \in Nat /\ SumFunctionOnSet(f, S \ A) \in Nat
  BY <1>1, SumNat
<1>5. PICK a \in Nat : a = SumFunctionOnSet(f, A)
  BY <1>4
<1>6. PICK b \in Nat : b = SumFunctionOnSet(f, S \ A)
  BY <1>4
<1>7. SumFunctionOnSet(f, S) = a + b
  BY <1>1, <1>3, <1>5, <1>6
<1>. QED BY <1>5, <1>7
\* The sum of two functions.
LEMMA SumPlus ==
    ASSUME NEW S, IsFiniteSet(S), NEW f, NEW g, NEW h,
           \A x \in S : f[x] \in Int /\ g[x] \in Int /\ h[x] = f[x] + g[x]
    PROVE  SumFunctionOnSet(h, S) = SumFunctionOnSet(f, S) + SumFunctionOnSet(g, S)
<1> DEFINE B == {s \in SUBSET S : SumFunctionOnSet(h, s)
                    = SumFunctionOnSet(f, s) + SumFunctionOnSet(g, s)}
<1>1. B \in SUBSET (SUBSET S) /\ {} \in B
  BY SumEmpty
<1>2. ASSUME NEW s \in B, NEW x \in S \ s PROVE s \cup {x} \in B
  <2>1. s \in SUBSET S /\ SumFunctionOnSet(h, s)
                    = SumFunctionOnSet(f, s) + SumFunctionOnSet(g, s)
    BY <1>2
  <2>2. IsFiniteSet(s) /\ x \notin s
    BY <1>2, <2>1, FS_Subset
  <2>3. \A y \in s : f[y] \in Int /\ g[y] \in Int /\ h[y] \in Int
    BY <2>1
  <2>4. f[x] \in Int /\ g[x] \in Int /\ h[x] \in Int /\ h[x] = f[x] + g[x]
    BY <1>2
  <2>5. /\ SumFunctionOnSet(f, s \cup {x}) = SumFunctionOnSet(f, s) + f[x]
        /\ SumFunctionOnSet(g, s \cup {x}) = SumFunctionOnSet(g, s) + g[x]
        /\ SumFunctionOnSet(h, s \cup {x}) = SumFunctionOnSet(h, s) + h[x]
    BY <2>2, <2>3, <2>4, SumAdd
  <2>6. PICK a \in Int : a = SumFunctionOnSet(f, s)
    BY <2>2, <2>3, SumInt
  <2>7. PICK b \in Int : b = SumFunctionOnSet(g, s)
    BY <2>2, <2>3, SumInt
  <2>8. PICK p \in Int : p = f[x]
    BY <2>4
  <2>9. PICK q \in Int : q = g[x]
    BY <2>4
  <2>10. SumFunctionOnSet(h, s \cup {x}) = (a + b) + (p + q)
    BY <2>1, <2>4, <2>5, <2>6, <2>7, <2>8, <2>9
  <2>11. SumFunctionOnSet(f, s \cup {x}) + SumFunctionOnSet(g, s \cup {x})
           = (a + p) + (b + q)
    BY <2>5, <2>6, <2>7, <2>8, <2>9
  <2>12. (a + b) + (p + q) = (a + p) + (b + q)
    OBVIOUS
  <2>13. s \cup {x} \in SUBSET S
    BY <1>2, <2>1
  <2>. QED BY <2>10, <2>11, <2>12, <2>13
<1>. HIDE DEF B
<1>3. S \in B
  BY <1>1, <1>2, SubsetInduction
<1>. QED BY <1>3 DEF B

\* The sum over a union of disjoint sets is the sum of the sums over them.
LEMMA SumUnions ==
    ASSUME NEW I, IsFiniteSet(I), NEW S, NEW f, NEW g,
           \A i \in I : IsFiniteSet(S[i]) /\ g[i] = SumFunctionOnSet(f, S[i]),
           \A i \in I : \A x \in S[i] : f[x] \in Int,
           \A i, j \in I : i # j => S[i] \cap S[j] = {}
    PROVE  /\ IsFiniteSet(UNION {S[i] : i \in I})
           /\ SumFunctionOnSet(f, UNION {S[i] : i \in I}) = SumFunctionOnSet(g, I)
<1> DEFINE U(s) == UNION {S[i] : i \in s}
           B == {s \in SUBSET I : /\ IsFiniteSet(U(s))
                                  /\ SumFunctionOnSet(f, U(s)) = SumFunctionOnSet(g, s)}
<1>1. B \in SUBSET (SUBSET I) /\ {} \in B
  <2>1. U({}) = {}
    OBVIOUS
  <2>2. IsFiniteSet(U({})) /\ SumFunctionOnSet(f, U({})) = SumFunctionOnSet(g, {})
    BY <2>1, SumEmpty, FS_EmptySet
  <2>. HIDE DEF U
  <2>. QED BY <2>2
<1>2. ASSUME NEW s \in B, NEW x \in I \ s PROVE s \cup {x} \in B
  <2>1. /\ s \in SUBSET I /\ IsFiniteSet(U(s))
        /\ SumFunctionOnSet(f, U(s)) = SumFunctionOnSet(g, s)
    BY <1>2
  <2>2. IsFiniteSet(s) /\ x \notin s
    BY <1>2, <2>1, FS_Subset
  <2>3. \A y \in I : g[y] \in Int
    BY SumInt
  <2>4. SumFunctionOnSet(g, s \cup {x}) = SumFunctionOnSet(g, s) + g[x]
    <3>1. g[x] \in Int /\ \A y \in s : g[y] \in Int
      BY <1>2, <2>1, <2>3
    <3>. QED BY <2>2, <3>1, SumAdd
  <2>5. U(s \cup {x}) = U(s) \cup S[x]
    OBVIOUS
  <2>6. U(s) \cap S[x] = {} /\ \A y \in U(s) \cup S[x] : f[y] \in Int
    <3>1. \A i \in s : i \in I /\ i # x
      BY <2>1, <2>2
    <3>. QED BY <1>2, <3>1
  <2>7. IsFiniteSet(S[x]) /\ g[x] = SumFunctionOnSet(f, S[x])
    BY <1>2
  <2>. HIDE DEF U
  <2>8. SumFunctionOnSet(f, U(s) \cup S[x]) = SumFunctionOnSet(f, U(s)) + SumFunctionOnSet(f, S[x])
    BY <2>1, <2>6, <2>7, SumUnion
  <2>9. SumFunctionOnSet(f, U(s \cup {x})) = SumFunctionOnSet(g, s \cup {x})
    BY <2>1, <2>4, <2>5, <2>7, <2>8
  <2>10. IsFiniteSet(U(s \cup {x}))
    <3>1. IsFiniteSet(U(s) \cup S[x])
      BY <2>1, <2>7, FS_Union
    <3>. QED BY <2>5, <3>1
  <2>11. s \cup {x} \in SUBSET I
    BY <1>2, <2>1
  <2>. QED BY <2>9, <2>10, <2>11
<1>. HIDE DEF B
<1>3. I \in B
  BY <1>1, <1>2, SubsetInduction
<1>. QED BY <1>3 DEF B

-----------------------------------------------------------------------------
(* The outputs a chain leaves unspent.                                     *)

\* One more block: what it spends goes, what it creates comes, in this order.
LEMMA UnspentStep ==
    ASSUME NEW c, NEW n \in Nat
    PROVE  Unspent(c, n + 1)
             = (Unspent(c, n) \ Spends(c[n+1])) \cup Creates(c[n+1])
<1>1. ASSUME NEW k \in Unspent(c, n + 1)
      PROVE  k \in (Unspent(c, n) \ Spends(c[n+1])) \cup Creates(c[n+1])
  <2>1. PICK i \in 1..(n+1) : /\ k \in Creates(c[i])
                              /\ \A m \in (i+1)..(n+1) : k \notin Spends(c[m])
    BY <1>1 DEF Unspent
  <2>2. CASE i = n + 1
    BY <2>1, <2>2
  <2>3. CASE i # n + 1
    <3>1. i \in 1..n /\ n + 1 \in (i+1)..(n+1) /\ (i+1)..n \subseteq (i+1)..(n+1)
      BY <2>3
    <3>. QED BY <2>1, <3>1 DEF Unspent
  <2>. QED BY <2>2, <2>3
<1>2. ASSUME NEW k \in Unspent(c, n), k \notin Spends(c[n+1])
      PROVE  k \in Unspent(c, n + 1)
  <2>1. PICK i \in 1..n : /\ k \in Creates(c[i])
                          /\ \A m \in (i+1)..n : k \notin Spends(c[m])
    BY <1>2 DEF Unspent
  <2>2. i \in 1..(n+1) /\ \A m \in (i+1)..(n+1) : m \in (i+1)..n \/ m = n + 1
    OBVIOUS
  <2>. QED BY <1>2, <2>1, <2>2 DEF Unspent
<1>3. ASSUME NEW k \in Creates(c[n+1])
      PROVE  k \in Unspent(c, n + 1)
  <2>1. n + 1 \in 1..(n+1) /\ (n+1+1)..(n+1) = {}
    OBVIOUS
  <2>. QED BY <1>3, <2>1 DEF Unspent
<1>. QED BY <1>1, <1>2, <1>3

\* Only the first n blocks matter.
LEMMA UnspentAgrees ==
    ASSUME NEW c, NEW d, NEW n \in Nat, \A i \in 1..n : c[i] = d[i]
    PROVE  Unspent(c, n) = Unspent(d, n)
<1>1. \A i \in 1..n : \A m \in (i+1)..n : m \in 1..n
  OBVIOUS
<1>. QED BY <1>1 DEF Unspent

\* A chain with no block applied leaves nothing unspent.
LEMMA UnspentNone == ASSUME NEW c PROVE Unspent(c, 0) = {}
<1>1. 1..0 = {}
  OBVIOUS
<1>. QED BY <1>1 DEF Unspent

-----------------------------------------------------------------------------
(* The UTXO set follows the chain.                                         *)

\* Every transaction of the first n blocks of c has the hash of its contents.
HashedUpTo(c, n) ==
    \A i \in 1..n : \A tx \in BlockTxs(c[i]) :
        IsTransaction(tx) /\ tx.hash = tx_calculate_hash(tx)

\* What a block stores under a key is what any of its transactions with that
\* hash says, because they are all the same.
LEMMA StoredOutput ==
    ASSUME NEW b, NEW tx \in BlockTxs(b), NEW i \in DOMAIN tx.outputs,
           \A t \in BlockTxs(b) : IsTransaction(t) /\ t.hash = tx_calculate_hash(t)
    PROVE  LET k == utxo_key(tx.hash, i - 1)
           IN  /\ k \in Creates(b)
               /\ UtxoOf(b, k).address = tx.outputs[i].address
               /\ UtxoOf(b, k).amount = tx.outputs[i].amount
<1>. DEFINE k == utxo_key(tx.hash, i - 1)
            s == CHOOSE t \in BlockTxs(b) : k \in OutputKeys(t)
<1>1. k \in OutputKeys(tx)
  BY DEF OutputKeys
<1>2. k \in Creates(b)
  BY <1>1 DEF Creates
<1>3. s \in BlockTxs(b) /\ k \in OutputKeys(s)
  BY <1>1
<1>. HIDE DEF s
<1>4. s.hash = tx.hash
  BY <1>3 DEF OutputKeys, utxo_key
<1>5. s.outputs = tx.outputs
  BY <1>3, <1>4, HashHasOutputs
<1>6. i \in Nat
  BY DEF IsTransaction
<1>7. k.output_index + 1 = i
  BY <1>6 DEF utxo_key
<1>8. /\ UtxoOf(b, k).address = s.outputs[k.output_index + 1].address
      /\ UtxoOf(b, k).amount = s.outputs[k.output_index + 1].amount
  BY DEF UtxoOf, s
<1>. QED BY <1>2, <1>5, <1>7, <1>8

\* Applying one more block keeps the UTXO set in step with the chain.
LEMMA ReflectsStep ==
    ASSUME NEW c, NEW n \in Nat, NEW u, Reflects(u, c, n), HashedUpTo(c, n + 1)
    PROVE  Reflects(apply_block_to_utxo_set(u, c[n+1]), c, n + 1)
<1>. DEFINE b == c[n+1]
            v == apply_block_to_utxo_set(u, b)
<1>1. /\ DOMAIN v = (DOMAIN u \ Spends(b)) \cup Creates(b)
      /\ \A k \in DOMAIN v :
            v[k] = IF k \in Creates(b) THEN UtxoOf(b, k) ELSE u[k]
  BY DEF apply_block_to_utxo_set
<1>. HIDE DEF v
<1>2. DOMAIN v = Unspent(c, n + 1)
  BY <1>1, UnspentStep DEF Reflects
<1>3. ASSUME NEW m \in 1..(n+1), NEW tx \in BlockTxs(c[m]),
             NEW i \in DOMAIN tx.outputs,
             utxo_key(tx.hash, i - 1) \in DOMAIN v
      PROVE  /\ v[utxo_key(tx.hash, i - 1)].address = tx.outputs[i].address
             /\ v[utxo_key(tx.hash, i - 1)].amount = tx.outputs[i].amount
  <2>. DEFINE k == utxo_key(tx.hash, i - 1)
  <2>0. n + 1 \in 1..(n+1)
    OBVIOUS
  <2>1. CASE k \in Creates(b)
    <3>1. PICK t \in BlockTxs(b) : k \in OutputKeys(t)
      BY <2>1 DEF Creates
    <3>2. PICK j \in DOMAIN t.outputs : k = utxo_key(t.hash, j - 1)
      BY <3>1 DEF OutputKeys
    <3>3. /\ IsTransaction(t) /\ t.hash = tx_calculate_hash(t)
          /\ IsTransaction(tx) /\ tx.hash = tx_calculate_hash(tx)
      BY <2>0 DEF HashedUpTo
    <3>4. t.hash = tx.hash /\ j - 1 = i - 1
      BY <3>2 DEF utxo_key
    <3>5. t.outputs = tx.outputs
      BY <3>3, <3>4, HashHasOutputs
    <3>6. i = j
      BY <3>3, <3>4 DEF IsTransaction
    <3>7. /\ UtxoOf(b, k).address = t.outputs[j].address
          /\ UtxoOf(b, k).amount = t.outputs[j].amount
      BY <2>0, <3>2, StoredOutput DEF HashedUpTo
    <3>. QED BY <1>1, <1>3, <2>1, <3>5, <3>6, <3>7
  <2>2. CASE k \notin Creates(b)
    <3>1. m # n + 1
      BY <1>3, <2>2 DEF Creates, OutputKeys
    <3>2. m \in 1..n
      BY <3>1
    <3>3. k \in DOMAIN u /\ v[k] = u[k]
      BY <1>1, <1>3, <2>2
    <3>. QED BY <3>2, <3>3 DEF Reflects
  <2>. QED BY <2>1, <2>2
<1>4. Reflects(v, c, n + 1)
  BY <1>2, <1>3 DEF Reflects
<1>. QED BY <1>4 DEF v

\* Only the first n blocks matter to it.
LEMMA ReflectsAgrees ==
    ASSUME NEW c, NEW d, NEW n \in Nat, NEW u, Reflects(u, c, n),
           \A i \in 1..n : c[i] = d[i]
    PROVE  Reflects(u, d, n)
<1>1. Unspent(c, n) = Unspent(d, n)
  BY UnspentAgrees
<1>. QED BY <1>1 DEF Reflects

-----------------------------------------------------------------------------
(* What add_block appends.                                                 *)

\* Append on the chain, element by element.
LEMMA AppendBlock ==
    ASSUME NEW c \in Seq(Blocks), NEW b \in Blocks
    PROVE  /\ Append(c, b) \in Seq(Blocks)
           /\ Len(Append(c, b)) = Len(c) + 1
           /\ Append(c, b)[Len(c) + 1] = b
           /\ \A i \in 1..Len(c) : Append(c, b)[i] = c[i]
           /\ Len(c) \in Nat
  OBVIOUS

\* An accepted block extends a linked chain to a linked chain.
LEMMA LinkedAppend ==
    ASSUME NEW c \in Seq(Blocks), c # <<>>, Linked(c), NEW b \in Blocks, NEW u,
           Accepts(c[Len(c)], u, b)
    PROVE  Linked(Append(c, b))
<1>. DEFINE d == Append(c, b)
<1>1. /\ Len(d) = Len(c) + 1 /\ d[Len(c) + 1] = b
      /\ \A i \in 1..Len(c) : d[i] = c[i]
      /\ Len(c) \in Nat /\ Len(c) >= 1
  BY AppendBlock
<1>. HIDE DEF d
<1>2. /\ b.header.index = c[Len(c)].header.index + 1
      /\ b.header.previous_hash = c[Len(c)].hash
      /\ b.hash = block_calculate_hash(b)
      /\ \A tx \in BlockTxs(b) : tx.hash = tx_calculate_hash(tx)
  BY DEF Accepts, validate_block, TransactionsValid, BlockTxs
<1>3. c[Len(c)].header.index = Len(c) - 1
  BY <1>1 DEF Linked
<1>4. ASSUME NEW n \in 1..Len(d)
      PROVE  /\ d[n].header.index = n - 1
             /\ d[n].hash = block_calculate_hash(d[n])
             /\ n > 1 => d[n].header.previous_hash = d[n-1].hash
             /\ \A tx \in BlockTxs(d[n]) : tx.hash = tx_calculate_hash(tx)
  <2>1. CASE n = Len(c) + 1
    <3>1. d[n] = b /\ d[n-1] = c[Len(c)]
      BY <1>1, <2>1
    <3>. QED BY <1>1, <1>2, <1>3, <2>1, <3>1
  <2>2. CASE n # Len(c) + 1
    <3>1. n \in 1..Len(c) /\ d[n] = c[n] /\ (n > 1 => d[n-1] = c[n-1])
      BY <1>1, <2>2
    <3>. QED BY <3>1 DEF Linked
  <2>. QED BY <2>1, <2>2
<1>5. Linked(d)
  BY <1>4 DEF Linked
<1>. QED BY <1>5 DEF d

\* Transactions of a linked chain of blocks have the hash of their contents.
LEMMA LinkedIsHashed ==
    ASSUME NEW c \in Seq(Blocks), Linked(c), NEW n \in 0..Len(c)
    PROVE  HashedUpTo(c, n)
<1>1. \A i \in 1..n : i \in 1..Len(c) /\ c[i] \in Blocks
  OBVIOUS
<1>. QED BY <1>1, BlocksAreBlocks DEF HashedUpTo, Linked, IsBlock

\* Blocks at different places of a linked chain have different hashes.
LEMMA LinkedHashesDiffer ==
    ASSUME NEW c \in Seq(Blocks), Linked(c),
           NEW m \in 1..Len(c), NEW n \in 1..Len(c), c[m].hash = c[n].hash
    PROVE  m = n
<1>1. block_calculate_hash(c[m]) = block_calculate_hash(c[n])
  BY DEF Linked
<1>2. c[m].header.index = c[n].header.index
  BY <1>1, HashHasIndex
<1>3. c[m].header.index = m - 1 /\ c[n].header.index = n - 1
  BY DEF Linked
<1>4. m - 1 = n - 1
  BY <1>2, <1>3
<1>5. m \in Int /\ n \in Int
  OBVIOUS
<1>. QED BY <1>4, <1>5

\* What SpendsOwnUnspent says of block m is a matter of the blocks before it.
LEMMA SpendAgrees ==
    ASSUME NEW c, NEW d, NEW m \in Nat, NEW tx, NEW in,
           \A i \in 1..(m-1) : c[i] = d[i],
           SpendsOwnUnspent(c, m, tx, in)
    PROVE  SpendsOwnUnspent(d, m, tx, in)
<1>1. \A n \in 1..(m-1) : \A j \in (n+1)..(m-1) : j \in 1..(m-1)
  OBVIOUS
<1>. QED BY <1>1 DEF SpendsOwnUnspent

\* An input that verifies against the UTXO set of a chain spends an output
\* of that chain that is unspent and its own.
LEMMA VerifiedSpend ==
    ASSUME NEW c \in Seq(Blocks), Linked(c), NEW u, Reflects(u, c, Len(c)),
           NEW tx, verify_transaction_signatures(u, tx),
           NEW i \in DOMAIN tx.inputs
    PROVE  SpendsOwnUnspent(c, Len(c) + 1, tx, tx.inputs[i])
<1>. DEFINE in == tx.inputs[i]
            k  == utxo_key(in.tx_id, in.output_index)
<1>1. /\ k \in DOMAIN u
      /\ u[k].address = address_from_public_key(in.public_key)
      /\ verify(tx_serialize(tx), in.signature, in.public_key)
  BY DEF verify_transaction_signatures
<1>2. PICK n \in 1..Len(c) : /\ k \in Creates(c[n])
                             /\ \A j \in (n+1)..Len(c) : k \notin Spends(c[j])
  BY <1>1 DEF Reflects, Unspent
<1>3. PICK source \in BlockTxs(c[n]) : k \in OutputKeys(source)
  BY <1>2 DEF Creates
<1>4. PICK j \in DOMAIN source.outputs : k = utxo_key(source.hash, j - 1)
  BY <1>3 DEF OutputKeys
<1>5. IsTransaction(source)
  <2>1. c[n] \in Blocks
    OBVIOUS
  <2>2. IsBlock(c[n])
    BY <2>1, BlocksAreBlocks
  <2>. QED BY <2>2, <1>3 DEF IsBlock
<1>6. j = in.output_index + 1
  <2>1. in.output_index = j - 1
    BY <1>4 DEF utxo_key
  <2>2. j \in Nat
    BY <1>5 DEF IsTransaction
  <2>. QED BY <2>1, <2>2
<1>7. u[k].address = source.outputs[j].address
  BY <1>1, <1>4 DEF Reflects
<1>8. source.outputs[in.output_index + 1].address
        = address_from_public_key(in.public_key)
  BY <1>1, <1>6, <1>7
<1>9. (Len(c) + 1) - 1 = Len(c)
  OBVIOUS
<1>. QED BY <1>1, <1>2, <1>3, <1>8, <1>9 DEF SpendsOwnUnspent

\* An accepted block extends a chain whose spends are proper to another.
LEMMA SpendsAppend ==
    ASSUME NEW c \in Seq(Blocks), Linked(c), NEW u, Reflects(u, c, Len(c)),
           AllSpendsOwnUnspent(c), NEW b \in Blocks, TransactionsValid(u, b)
    PROVE  AllSpendsOwnUnspent(Append(c, b))
<1>. DEFINE d == Append(c, b)
<1>1. /\ Len(d) = Len(c) + 1 /\ d[Len(c) + 1] = b
      /\ \A i \in 1..Len(c) : d[i] = c[i]
      /\ Len(c) \in Nat
  BY AppendBlock
<1>. HIDE DEF d
<1>2. ASSUME NEW m \in 1..Len(d), NEW t \in DOMAIN d[m].transactions,
             ~(t = 1 /\ is_coinbase(d[m].transactions[t])),
             NEW i \in DOMAIN d[m].transactions[t].inputs
      PROVE  SpendsOwnUnspent(d, m, d[m].transactions[t],
                              d[m].transactions[t].inputs[i])
  <2>. DEFINE tx == d[m].transactions[t]
              in == tx.inputs[i]
  <2>1. SpendsOwnUnspent(c, m, tx, in)
    <3>1. CASE m = Len(c) + 1
      <4>1. d[m] = b
        BY <1>1, <3>1
      <4>2. verify_transaction_signatures(u, tx)
        BY <1>2, <4>1 DEF TransactionsValid
      <4>. QED BY <3>1, <4>2, VerifiedSpend
    <3>2. CASE m # Len(c) + 1
      <4>1. m \in 1..Len(c) /\ d[m] = c[m]
        BY <1>1, <3>2
      <4>. QED BY <1>2, <4>1 DEF AllSpendsOwnUnspent
    <3>. QED BY <3>1, <3>2
  <2>2. m \in Nat /\ \A j \in 1..(m-1) : c[j] = d[j]
    BY <1>1
  <2>. QED BY <2>1, <2>2, SpendAgrees
<1>3. AllSpendsOwnUnspent(d)
  BY <1>2 DEF AllSpendsOwnUnspent
<1>. QED BY <1>3 DEF d

-----------------------------------------------------------------------------
(* The actions.                                                            *)

\* init.
LEMMA InitKeepsInv ==
    ASSUME ChainInv, init PROVE ChainInv'
<1>1. PICK now \in GenesisTimes :
          /\ chain' = <<create_genesis_block(now)>>
          /\ hash_index' = [h \in {create_genesis_block(now).hash} |-> 0]
          /\ applied' = 1
  BY DEF init
<1>. DEFINE g == create_genesis_block(now)
<1>2. /\ g \in Blocks /\ g.header.index = 0 /\ g.hash = block_calculate_hash(g)
      /\ BlockTxs(g) = {}
  BY GenesisIsBlock DEF Blocks, Genesis
<1>3. /\ chain' = <<g>> /\ hash_index' = [h \in {g.hash} |-> 0] /\ applied' = 1
      /\ utxo_set' = utxo_set /\ file' = file /\ applied = 0 /\ chain = <<>>
  BY <1>1 DEF init, Unlocked
<1>. HIDE DEF g
<1>4. Len(chain') = 1 /\ chain'[1] = g /\ chain' \in Seq(Blocks)
  BY <1>2, <1>3
<1>5. ChainTypeOK'
  BY <1>3, <1>4 DEF ChainInv, ChainTypeOK
<1>6. FileSound'
  BY <1>3 DEF ChainInv, FileSound, FileChain
<1>7. ChainLinked'
  BY <1>2, <1>4 DEF ChainLinked, Linked
<1>8. IndexExact'
  BY <1>3, <1>4 DEF IndexExact
<1>9. UtxoMatchesHistory'
  <2>1. Unspent(chain', 1) = {} /\ DOMAIN utxo_set = {}
    <3>1. Creates(g) = {}
      BY <1>2 DEF Creates
    <3>2. Unspent(chain', 0 + 1)
            = (Unspent(chain', 0) \ Spends(chain'[0+1])) \cup Creates(chain'[0+1])
      BY UnspentStep
    <3>. QED BY <1>3, <1>4, <3>1, <3>2, UnspentNone
             DEF ChainInv, UtxoMatchesHistory, Reflects
  <2>. QED BY <1>2, <1>3, <1>4, <2>1 DEF UtxoMatchesHistory, Reflects
<1>10. ChainSpendsOwnUnspent'
  <2>1. DOMAIN g.transactions = {}
    BY <1>2 DEF BlockTxs
  <2>2. \A m \in 1..Len(chain') : chain'[m] = g
    BY <1>4
  <2>. QED BY <2>1, <2>2 DEF ChainSpendsOwnUnspent, AllSpendsOwnUnspent
<1>. QED BY <1>5, <1>6, <1>7, <1>8, <1>9, <1>10 DEF ChainInv

\* add_block.
LEMMA AddBlockKeepsInv ==
    ASSUME ChainInv, NEW b \in Offers, add_block(b) PROVE ChainInv'
<1>1. /\ applied = Len(chain) /\ chain # <<>>
      /\ Accepts(chain[Len(chain)], utxo_set, b)
      /\ chain' = Append(chain, b)
      /\ hash_index' = [h \in DOMAIN hash_index \cup {b.hash} |->
                          IF h = b.hash THEN b.header.index ELSE hash_index[h]]
      /\ utxo_set' = apply_block_to_utxo_set(utxo_set, b)
      /\ applied' = applied + 1
      /\ file' = file
  BY DEF add_block, Unlocked, latest, Push
<1>2. b \in Blocks /\ chain \in Seq(Blocks)
  BY DEF Blocks, ChainInv, ChainTypeOK
<1>3. /\ chain' \in Seq(Blocks)
      /\ Len(chain') = Len(chain) + 1
      /\ chain'[Len(chain) + 1] = b
      /\ \A i \in 1..Len(chain) : chain'[i] = chain[i]
      /\ Len(chain) \in Nat
  BY <1>1, <1>2, AppendBlock
<1>4. ChainTypeOK'
  BY <1>1, <1>3 DEF ChainInv, ChainTypeOK
<1>5. FileSound'
  BY <1>1 DEF ChainInv, FileSound, FileChain
<1>6. Linked(chain')
  BY <1>1, <1>2, LinkedAppend DEF ChainInv, ChainLinked
<1>7. UtxoMatchesHistory'
  <2>1. Reflects(utxo_set, chain, Len(chain))
    BY <1>1 DEF ChainInv, UtxoMatchesHistory
  <2>2. Reflects(utxo_set, chain', Len(chain))
    BY <1>3, <2>1, ReflectsAgrees
  <2>3. HashedUpTo(chain', Len(chain) + 1)
    BY <1>3, <1>6, LinkedIsHashed
  <2>4. Reflects(apply_block_to_utxo_set(utxo_set, chain'[Len(chain) + 1]),
                 chain', Len(chain) + 1)
    BY <1>3, <2>2, <2>3, ReflectsStep
  <2>. QED BY <1>1, <1>3, <2>4 DEF UtxoMatchesHistory
<1>8. ChainSpendsOwnUnspent'
  BY <1>1, <1>2, SpendsAppend
     DEF ChainInv, ChainLinked, UtxoMatchesHistory, ChainSpendsOwnUnspent, Accepts
<1>9. IndexExact'
  <2>1. ASSUME NEW n \in 1..Len(chain')
        PROVE  chain'[n].hash \in DOMAIN hash_index' /\ hash_index'[chain'[n].hash] = n - 1
    <3>1. CASE n = Len(chain) + 1
      <4>1. b.header.index = n - 1
        BY <1>3, <1>6, <3>1 DEF Linked
      <4>. QED BY <1>1, <1>3, <3>1, <4>1
    <3>2. CASE n # Len(chain) + 1
      <4>1. n \in 1..Len(chain) /\ chain'[n] = chain[n]
        BY <1>3, <3>2
      <4>2. chain[n].hash # b.hash
        <5>1. Len(chain) + 1 \in 1..Len(chain')
          BY <1>3
        <5>2. chain'[n].hash # chain'[Len(chain) + 1].hash
          BY <1>3, <1>6, <3>2, <5>1, LinkedHashesDiffer
        <5>. QED BY <1>3, <4>1, <5>2
      <4>3. chain[n].hash \in DOMAIN hash_index
        BY <4>1 DEF ChainInv, IndexExact
      <4>4. hash_index[chain[n].hash] = n - 1
        BY <4>1 DEF ChainInv, IndexExact
      <4>. QED BY <1>1, <4>1, <4>2, <4>3, <4>4
    <3>. QED BY <3>1, <3>2
  <2>2. DOMAIN hash_index' = {chain'[n].hash : n \in 1..Len(chain')}
    <3>1. DOMAIN hash_index' = DOMAIN hash_index \cup {b.hash}
      BY <1>1
    <3>2. DOMAIN hash_index = {chain[n].hash : n \in 1..Len(chain)}
      BY DEF ChainInv, IndexExact
    <3>. QED BY <1>3, <3>1, <3>2
  <2>. QED BY <2>1, <2>2 DEF IndexExact
<1>. QED BY <1>4, <1>5, <1>6, <1>7, <1>8, <1>9 DEF ChainInv, ChainLinked

\* save_to_disk: what load_from_disk would read is the chain.
LEMMA SaveKeepsInv ==
    ASSUME ChainInv, save_to_disk PROVE ChainInv'
<1>1. /\ file' = [i \in DOMAIN chain |-> block_to_json(chain[i])]
      /\ chain' = chain /\ utxo_set' = utxo_set
      /\ hash_index' = hash_index /\ applied' = applied
  BY DEF save_to_disk
<1>2. chain \in Seq(Blocks) /\ DOMAIN chain = 1..Len(chain) /\ Len(chain) \in Nat
  BY DEF ChainInv, ChainTypeOK
<1>3. \A i \in 1..Len(chain) : chain[i] \in Blocks /\ IsBlock(chain[i])
  BY <1>2, BlocksAreBlocks
<1>4. FileChain' = chain
  <2>1. DOMAIN file' = 1..Len(chain)
    BY <1>1, <1>2
  <2>2. \A i \in 1..Len(chain) : block_from_json(file'[i]) = chain[i]
    BY <1>1, <1>2, <1>3, JsonRoundTrip
  <2>3. FileChain' = [i \in 1..Len(chain) |-> block_from_json(file'[i])]
    BY <2>1 DEF FileChain
  <2>4. chain = [i \in 1..Len(chain) |-> chain[i]]
    BY <1>2
  <2>. QED BY <2>2, <2>3, <2>4
<1>5. file' \in Seq({block_to_json(x) : x \in Blocks})
  BY <1>1, <1>2, <1>3
<1>6. ChainTypeOK'
  BY <1>1, <1>5 DEF ChainInv, ChainTypeOK
<1>7. FileSound'
  BY <1>1, <1>2, <1>4 DEF ChainInv, FileSound, ChainLinked, ChainSpendsOwnUnspent
<1>. QED BY <1>1, <1>6, <1>7 DEF ChainInv, ChainLinked, IndexExact,
            UtxoMatchesHistory, ChainSpendsOwnUnspent

\* load_from_disk, up to the rebuilding of the UTXO set.
LEMMA LoadKeepsInv ==
    ASSUME ChainInv, load_from_disk PROVE ChainInv'
<1>. DEFINE last(h) == CHOOSE i \in DOMAIN FileChain :
                /\ FileChain[i].hash = h
                /\ \A j \in DOMAIN FileChain : FileChain[j].hash = h => j <= i
<1>1. /\ chain' = FileChain
      /\ hash_index' = [h \in {FileChain[i].hash : i \in DOMAIN FileChain} |->
                          FileChain[last(h)].header.index]
      /\ utxo_set' = EmptyMap
      /\ applied' = 0
      /\ file' = file
  BY DEF load_from_disk, FileChain
<1>2. /\ FileChain \in Seq(Blocks) /\ Linked(FileChain)
      /\ AllSpendsOwnUnspent(FileChain)
  BY DEF ChainInv, FileSound
<1>3. DOMAIN FileChain = 1..Len(FileChain) /\ Len(FileChain) \in Nat
  BY <1>2
<1>4. ChainTypeOK'
  BY <1>1, <1>2, <1>3 DEF ChainInv, ChainTypeOK
<1>5. FileSound'
  BY <1>1 DEF ChainInv, FileSound, FileChain
<1>6. ChainLinked' /\ ChainSpendsOwnUnspent'
  BY <1>1, <1>2 DEF ChainLinked, ChainSpendsOwnUnspent
<1>7. IndexExact'
  <2>1. ASSUME NEW n \in 1..Len(FileChain)
        PROVE  last(FileChain[n].hash) = n
    <3>1. \A j \in DOMAIN FileChain : FileChain[j].hash = FileChain[n].hash => j = n
      BY <1>2, <1>3, LinkedHashesDiffer
    <3>2. n <= n
      BY <1>3
    <3>3. n \in DOMAIN FileChain
      BY <1>3
    <3>. QED BY <3>1, <3>2, <3>3
  <2>. HIDE DEF last
  <2>2. \A n \in 1..Len(FileChain) : FileChain[n].header.index = n - 1
    BY <1>2 DEF Linked
  <2>3. DOMAIN hash_index' = {FileChain[i].hash : i \in 1..Len(FileChain)}
    BY <1>1, <1>3
  <2>4. \A n \in 1..Len(FileChain) : hash_index'[FileChain[n].hash] = n - 1
    BY <1>1, <1>3, <2>1, <2>2
  <2>. QED BY <1>1, <2>3, <2>4 DEF IndexExact
<1>8. UtxoMatchesHistory'
  BY <1>1, UnspentNone DEF UtxoMatchesHistory, Reflects, EmptyMap
<1>. QED BY <1>4, <1>5, <1>6, <1>7, <1>8 DEF ChainInv

\* An iteration of rebuild_utxo_set.
LEMMA RebuildKeepsInv ==
    ASSUME ChainInv, rebuild_utxo_set PROVE ChainInv'
<1>1. /\ applied < Len(chain)
      /\ utxo_set' = apply_block_to_utxo_set(utxo_set, chain[applied + 1])
      /\ applied' = applied + 1
      /\ chain' = chain /\ hash_index' = hash_index /\ file' = file
  BY DEF rebuild_utxo_set
<1>2. chain \in Seq(Blocks) /\ applied \in Nat /\ applied + 1 \in 0..Len(chain)
  BY <1>1 DEF ChainInv, ChainTypeOK
<1>3. HashedUpTo(chain, applied + 1)
  BY <1>2, LinkedIsHashed DEF ChainInv, ChainLinked
<1>4. Reflects(utxo_set', chain, applied + 1)
  BY <1>1, <1>2, <1>3, ReflectsStep DEF ChainInv, UtxoMatchesHistory
<1>5. ChainTypeOK' /\ FileSound'
  BY <1>1, <1>2 DEF ChainInv, ChainTypeOK, FileSound, FileChain
<1>. QED BY <1>1, <1>4, <1>5 DEF ChainInv, ChainLinked, IndexExact,
            UtxoMatchesHistory, ChainSpendsOwnUnspent

\* A new process starts with nothing but the file.
LEMMA EmptyChainInv ==
    ASSUME chain' = <<>>, utxo_set' = EmptyMap, hash_index' = EmptyMap,
           applied' = 0, FileSound',
           file' \in Seq({block_to_json(b) : b \in Blocks})
    PROVE  ChainInv'
<1>1. Len(chain') = 0 /\ chain' \in Seq(Blocks) /\ 1..0 = {}
  OBVIOUS
<1>2. ChainTypeOK'
  BY <1>1 DEF ChainTypeOK
<1>3. UtxoMatchesHistory'
  BY UnspentNone DEF UtxoMatchesHistory, Reflects, EmptyMap
<1>. QED BY <1>1, <1>2, <1>3 DEF ChainInv, ChainLinked, Linked, IndexExact,
            EmptyMap, ChainSpendsOwnUnspent, AllSpendsOwnUnspent

\* The initial state satisfies the invariant.
LEMMA InitialInv == ASSUME ChainInit PROVE ChainInv
<1>1. /\ chain = <<>> /\ utxo_set = EmptyMap /\ hash_index = EmptyMap
      /\ applied = 0 /\ file = <<>>
  BY DEF ChainInit, NoFile
<1>2. Len(chain) = 0 /\ chain \in Seq(Blocks) /\ 1..0 = {}
  BY <1>1
<1>3. ChainTypeOK
  BY <1>1, <1>2 DEF ChainTypeOK
<1>4. UtxoMatchesHistory
  BY <1>1, UnspentNone DEF UtxoMatchesHistory, Reflects, EmptyMap
<1>5. FileSound
  <2>1. FileChain = <<>>
    BY <1>1 DEF FileChain
  <2>2. Len(FileChain) = 0 /\ FileChain \in Seq(Blocks)
    BY <2>1
  <2>. QED BY <1>2, <2>2 DEF FileSound, Linked, AllSpendsOwnUnspent
<1>. QED BY <1>1, <1>2, <1>3, <1>4, <1>5 DEF ChainInv, ChainLinked, Linked,
            IndexExact, EmptyMap, ChainSpendsOwnUnspent, AllSpendsOwnUnspent

-----------------------------------------------------------------------------
(* The theorems.                                                           *)

\* The inductive invariant holds of every behaviour of the chain.
THEOREM ChainInvariant == ChainSpec => []ChainInv
<1>1. ChainInit => ChainInv
  BY InitialInv
<1>2. ChainInv /\ [ChainNext]_chainVars => ChainInv'
  <2>. SUFFICES ASSUME ChainInv, [ChainNext]_chainVars PROVE ChainInv'
    OBVIOUS
  <2>1. CASE init
    BY <2>1, InitKeepsInv
  <2>2. ASSUME NEW b \in Offers, add_block(b) PROVE ChainInv'
    BY <2>2, AddBlockKeepsInv
  <2>3. CASE UNCHANGED chainVars
    BY <2>3 DEF chainVars, ChainInv, ChainTypeOK, FileSound, FileChain,
                ChainLinked, IndexExact, UtxoMatchesHistory, ChainSpendsOwnUnspent
  <2>4. ASSUME NEW b \in Offers, add_block_rejected(b) PROVE ChainInv'
    BY <2>3, <2>4 DEF add_block_rejected
  <2>5. CASE save_to_disk
    BY <2>5, SaveKeepsInv
  <2>6. CASE load_from_disk
    BY <2>6, LoadKeepsInv
  <2>7. CASE rebuild_utxo_set
    BY <2>7, RebuildKeepsInv
  <2>8. CASE Restart
    <3>1. /\ chain' = <<>> /\ utxo_set' = EmptyMap /\ hash_index' = EmptyMap
          /\ applied' = 0 /\ file' = file
      BY <2>8 DEF Restart
    <3>2. FileSound' /\ file' \in Seq({block_to_json(b) : b \in Blocks})
      BY <3>1 DEF ChainInv, ChainTypeOK, FileSound, FileChain
    <3>. QED BY <3>1, <3>2, EmptyChainInv
  <2>. QED BY <2>1, <2>2, <2>3, <2>4, <2>5, <2>6, <2>7, <2>8 DEF ChainNext
<1>. QED BY <1>1, <1>2, PTL DEF ChainSpec

\* The chain and the file only ever hold blocks that were offered or made by
\* init.
THEOREM ChainTypeCorrect == ChainSpec => []ChainTypeOK
<1>1. ChainInv => ChainTypeOK
  BY DEF ChainInv
<1>. QED BY <1>1, ChainInvariant, PTL

\* The UTXO set, maintained or rebuilt, is the one the recorded blocks define.
THEOREM UtxoCorrect == ChainSpec => []UtxoMatchesHistory
<1>1. ChainInv => UtxoMatchesHistory
  BY DEF ChainInv
<1>. QED BY <1>1, ChainInvariant, PTL

\* The chain is linked by indices and hashes, also when it comes from a file.
THEOREM ChainAlwaysLinked == ChainSpec => []ChainLinked
<1>1. ChainInv => ChainLinked
  BY DEF ChainInv
<1>. QED BY <1>1, ChainInvariant, PTL

\* A block can be found under its hash and under no other.
THEOREM HashLookupCorrect == ChainSpec => []HashLookupExact
<1>1. ChainInv => HashLookupExact
  <2>1. ASSUME ChainInv, NEW n \in 1..Len(chain)
        PROVE  get_block_by_hash(chain[n].hash) = {chain[n]}
    <3>1. hash_index[chain[n].hash] = n - 1 /\ chain[n].hash \in DOMAIN hash_index
      BY <2>1 DEF ChainInv, IndexExact
    <3>2. (n - 1) + 1 = n
      OBVIOUS
    <3>. QED BY <3>1, <3>2 DEF get_block_by_hash
  <2>. QED BY <2>1 DEF ChainInv, IndexExact, HashLookupExact
<1>. QED BY <1>1, ChainInvariant, PTL

\* Every spend on the chain is of an existing, unspent output by its owner.
THEOREM NoForeignOrDoubleSpend == ChainSpec => []ChainSpendsOwnUnspent
<1>1. ChainInv => ChainSpendsOwnUnspent
  BY DEF ChainInv
<1>. QED BY <1>1, ChainInvariant, PTL
=============================================================================
