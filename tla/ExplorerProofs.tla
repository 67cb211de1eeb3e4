--------------------------- MODULE ExplorerProofs ---------------------------
(***************************************************************************)
(* The explorer, for any saved chain, any number of connections and any    *)
(* requests: what it answers is what the recorded blocks say, and it does  *)
(* not change the file.                                                    *)
(*                                                                         *)
(* The chain is loaded as in Blockchain, whose invariant is used.  After   *)
(* that it does not change, so that an answer that was right stays right.  *)
(***************************************************************************)
EXTENDS Explorer, BlockchainProofs, WellFoundedInduction

\* Every UTXO carries the key under which it is stored.
Labelled(u) ==
    \A k \in DOMAIN u : utxo_key(u[k].tx_id, u[k].output_index) = k

\* The accepting thread has tried to bind its socket.
Tried == server \in {"loop", "ended"}

MainInv ==
    /\ main \in {"load", "start", "serve", "join", "save", "exited"}
    /\ running <=> main = "serve"
    /\ server \in {"none", "bind", "loop", "ended"}
    /\ server # "none" <=> Serving
    /\ main \in {"save", "exited"} => server = "ended"
    /\ main = "load" => chain = <<>>
    /\ main # "load" => chain # <<>>
    /\ Serving => Unlocked
    /\ file = NoFile \/ main = "load" \/ chain = FileChain

\* The words of a connection are the first of a request.
ConnInv(c) ==
    /\ DOMAIN conn[c] = {"pc", "words", "response"}
    /\ conn[c].pc \in {"none", "recv", "handle", "closed"}
    /\ conn[c].pc # "none" => Tried
    /\ conn[c].pc = "handle" \/ conn[c].words # <<>> =>
         \E r \in Requests : \E n \in 1..Len(r) : conn[c].words = SubSeq(r, 1, n)
    /\ conn[c].words # <<>> => conn[c].pc \in {"handle", "closed"}
    /\ conn[c].response # <<>> => conn[c].pc = "closed"

ConnsInv == DOMAIN conn = Conns /\ \A c \in Conns : ConnInv(c)

ExplorerInv ==
    ChainInv /\ Labelled(utxo_set) /\ MainInv /\ ConnsInv /\ AnswersExact

-----------------------------------------------------------------------------
(* Numbers.                                                                *)

\* A set of numbers that is not empty has a least one.
LEMMA LeastIsLeast ==
    ASSUME NEW S \in SUBSET Nat, S # {}
    PROVE  Min(S) \in S /\ \A x \in S : Min(S) <= x
<1>1. PICK x \in S : \A y \in S : ~(<<y, x>> \in OpToRel(<, Nat))
  BY NatLessThanWellFounded, WFMin
<1>2. \A y \in S : ~(y < x)
  BY <1>1 DEF OpToRel
<1>3. \A y \in S : x <= y
  BY <1>2
<1>. QED BY <1>3 DEF Min

-----------------------------------------------------------------------------
(* What is on the chain.                                                   *)

\* What the invariant of the chain says of its blocks and their numbers.
LEMMA ChainShape ==
    ASSUME ChainInv
    PROVE  /\ chain \in Seq(Blocks) /\ Len(chain) \in Nat /\ DOMAIN chain = 1..Len(chain)
           /\ \A n \in 1..Len(chain) :
                /\ IsBlock(chain[n]) /\ chain[n].header.index = n - 1
                /\ \A tx \in BlockTxs(chain[n]) :
                     IsTransaction(tx) /\ tx.hash = tx_calculate_hash(tx)
           /\ ToSet(chain) = {chain[n] : n \in 1..Len(chain)}
<1>1. /\ chain \in Seq(Blocks) /\ Len(chain) \in Nat /\ DOMAIN chain = 1..Len(chain)
  BY DEF ChainInv, ChainTypeOK
<1>2. \A n \in 1..Len(chain) : IsBlock(chain[n])
  BY <1>1, BlocksAreBlocks
<1>3. \A n \in 1..Len(chain) : /\ chain[n].header.index = n - 1
        /\ \A tx \in BlockTxs(chain[n]) : tx.hash = tx_calculate_hash(tx)
  BY DEF ChainInv, ChainLinked, Linked
<1>. QED BY <1>1, <1>2, <1>3 DEF IsBlock, ToSet

\* The transactions that are recorded with one hash have the same outputs.
LEMMA OneOutput ==
    ASSUME ChainInv, NEW tx \in ChainTxs, NEW i \in DOMAIN tx.outputs
    PROVE  OutputOf(utxo_key(tx.hash, i - 1)) = tx.outputs[i]
<1>. DEFINE k == utxo_key(tx.hash, i - 1)
            s == CHOOSE t \in ChainTxs : t.hash = k.tx_id
<1>1. k.tx_id = tx.hash /\ k.output_index = i - 1
  BY DEF utxo_key
<1>2. s \in ChainTxs /\ s.hash = tx.hash
  BY <1>1
<1>3. OutputOf(k) = s.outputs[k.output_index + 1]
  BY DEF OutputOf
<1>. HIDE DEF k, s
<1>4. \A t \in ChainTxs : IsTransaction(t) /\ t.hash = tx_calculate_hash(t)
  BY ChainShape DEF ChainTxs
<1>5. s.outputs = tx.outputs
  BY <1>2, <1>4, HashHasOutputs
<1>6. i \in Nat
  BY <1>4 DEF IsTransaction
<1>7. k.output_index + 1 = i
  BY <1>1, <1>6
<1>8. OutputOf(k) = tx.outputs[i]
  BY <1>3, <1>5, <1>7
<1>. QED BY <1>8 DEF k

\* What the UTXO set stores is the recorded output.
LEMMA StoredIsRecorded ==
    ASSUME ChainInv, Unlocked, NEW k \in DOMAIN utxo_set
    PROVE  /\ utxo_set[k].address = OutputOf(k).address
           /\ utxo_set[k].amount = OutputOf(k).amount
<1>1. Reflects(utxo_set, chain, Len(chain))
  BY DEF ChainInv, UtxoMatchesHistory, Unlocked
<1>2. PICK n \in 1..Len(chain) : k \in Creates(chain[n])
  BY <1>1 DEF Reflects, Unspent
<1>3. PICK tx \in BlockTxs(chain[n]) : k \in OutputKeys(tx)
  BY <1>2 DEF Creates
<1>4. PICK i \in DOMAIN tx.outputs : k = utxo_key(tx.hash, i - 1)
  BY <1>3 DEF OutputKeys
<1>5. tx \in ChainTxs
  BY <1>3, ChainShape DEF ChainTxs
<1>6. OutputOf(k) = tx.outputs[i]
  BY <1>4, <1>5, OneOutput
<1>. QED BY <1>1, <1>3, <1>4, <1>6 DEF Reflects

-----------------------------------------------------------------------------
(* The endpoints.                                                          *)

\* /api/status says the height and the hash, time and difficulty of the tip.
LEMMA StatusIsExact ==
    ASSUME ChainInv, chain # <<>> PROVE StatusExact(api_get_status)
<1>1. Len(chain) \in Nat \ {0}
  BY ChainShape
<1>2. /\ api_get_status.height = Len(chain) - 1
      /\ api_get_status.latest_hash = chain[Len(chain)].hash
  BY DEF api_get_status, height, latest
<1>. QED BY <1>1, <1>2 DEF StatusExact

\* /api/blocks lists the newest blocks, newest first, within its limit.
LEMMA BlocksAreExact ==
    ASSUME ChainInv, NEW limit, IsNumber(limit) => limit.number \in Nat
    PROVE  BlocksExact(limit, api_get_blocks(limit).blocks)
<1>. DEFINE asked  == IF ~IsNumber(limit) THEN DefaultLimit ELSE limit.number
            count  == Min({asked, MaxLimit, Len(chain)})
            blocks == api_get_blocks(limit).blocks
            Entry(b) == [index    |-> b.header.index,
                         hash     |-> b.hash,
                         tx_count |-> Len(b.transactions)]
<1>1. {asked, MaxLimit, Len(chain)} \subseteq Nat
  BY ChainShape, ExplorerAssumption
<1>2. /\ count \in Nat /\ count <= Len(chain)
  BY <1>1, LeastIsLeast
<1>3. blocks = [n \in 1..count |-> Entry(chain[Len(chain) + 1 - n])]
  BY DEF api_get_blocks
<1>4. {Len(chain), MaxLimit, IF IsNumber(limit) THEN limit.number ELSE DefaultLimit}
        = {asked, MaxLimit, Len(chain)}
  OBVIOUS
<1>. HIDE DEF asked, count, blocks
<1>5. Len(blocks) = count /\ DOMAIN blocks = 1..count
  BY <1>2, <1>3
<1>6. ASSUME NEW i \in 1..count
      PROVE  /\ blocks[i].index = Len(chain) - i
             /\ blocks[i].hash = chain[blocks[i].index + 1].hash
  <2>1. Len(chain) + 1 - i \in 1..Len(chain) /\ Len(chain) \in Nat
    BY <1>2, ChainShape
  <2>2. chain[Len(chain) + 1 - i].header.index = (Len(chain) + 1 - i) - 1
    BY <2>1, ChainShape
  <2>3. /\ blocks[i].index = chain[Len(chain) + 1 - i].header.index
        /\ blocks[i].hash = chain[Len(chain) + 1 - i].hash
    BY <1>3
  <2>4. (Len(chain) + 1 - i) - 1 = Len(chain) - i /\ (Len(chain) - i) + 1 = Len(chain) + 1 - i
    BY <2>1
  <2>. QED BY <2>2, <2>3, <2>4
<1>7. Len(blocks) = Min({Len(chain), MaxLimit,
                         IF IsNumber(limit) THEN limit.number ELSE DefaultLimit})
  BY <1>4, <1>5 DEF count
<1>8. BlocksExact(limit, blocks)
  BY <1>5, <1>6, <1>7 DEF BlocksExact
<1>. QED BY <1>8 DEF blocks

\* A block that was found is shown field by field.
LEMMA FoundIsExact ==
    ASSUME NEW found PROVE BlockExact(found, BlockJson(found))
  BY DEF BlockExact, BlockJson

\* The index finds the block with a hash, and no other.
LEMMA FoundByHash ==
    ASSUME ChainInv, NEW h
    PROVE  get_block_by_hash(h) = {b \in ToSet(chain) : b.hash = h}
<1>1. /\ DOMAIN hash_index = {chain[n].hash : n \in 1..Len(chain)}
      /\ \A n \in 1..Len(chain) : hash_index[chain[n].hash] = n - 1
  BY DEF ChainInv, IndexExact
<1>2. ToSet(chain) = {chain[n] : n \in 1..Len(chain)}
  BY ChainShape
<1>3. CASE h \in DOMAIN hash_index
  <2>1. PICK n \in 1..Len(chain) : h = chain[n].hash
    BY <1>1, <1>3
  <2>2. hash_index[h] = n - 1 /\ (n - 1) + 1 = n
    BY <1>1, <2>1
  <2>3. get_block_by_hash(h) = {chain[n]}
    BY <1>3, <2>2 DEF get_block_by_hash
  <2>4. \A m \in 1..Len(chain) : chain[m].hash = h => m = n
    BY <2>1, ChainShape, LinkedHashesDiffer DEF ChainInv, ChainLinked
  <2>. QED BY <1>2, <2>1, <2>3, <2>4
<1>4. CASE h \notin DOMAIN hash_index
  BY <1>1, <1>2, <1>4 DEF get_block_by_hash
<1>. QED BY <1>3, <1>4

\* A position is the number of the block there.
LEMMA FoundByNumber ==
    ASSUME ChainInv, NEW index \in Nat
    PROVE  get_block(index) = {b \in ToSet(chain) : b.header.index = index}
<1>1. /\ ToSet(chain) = {chain[n] : n \in 1..Len(chain)} /\ Len(chain) \in Nat
      /\ \A n \in 1..Len(chain) : chain[n].header.index = n - 1
  BY ChainShape
<1>2. CASE index >= Len(chain)
  <2>1. \A n \in 1..Len(chain) : chain[n].header.index # index
    BY <1>1, <1>2
  <2>. QED BY <1>1, <1>2, <2>1 DEF get_block
<1>3. CASE ~(index >= Len(chain))
  <2>1. index + 1 \in 1..Len(chain)
    BY <1>1, <1>3
  <2>2. \A n \in 1..Len(chain) : chain[n].header.index = index <=> n = index + 1
    BY <1>1
  <2>3. get_block(index) = {chain[index + 1]}
    BY <1>3 DEF get_block
  <2>. QED BY <1>1, <2>1, <2>2, <2>3
<1>. QED BY <1>2, <1>3

\* /api/tx finds the first block with the transaction.
LEMMA TransactionIsExact ==
    ASSUME ChainInv, NEW hash
    PROVE  TransactionExact(hash, api_get_transaction(hash))
<1>. DEFINE holding == {n \in DOMAIN chain : \E tx \in BlockTxs(chain[n]) : tx.hash = hash}
            n       == Min(holding)
            body    == api_get_transaction(hash)
<1>1. holding \subseteq 1..Len(chain) /\ 1..Len(chain) \subseteq Nat
  BY ChainShape
<1>2. holding = {} <=> \A tx \in ChainTxs : tx.hash # hash
  BY DEF ChainTxs
<1>3. CASE holding = {}
  <2>1. body = Error("Transaction not found")
    BY <1>3 DEF api_get_transaction
  <2>. QED BY <1>2, <1>3, <2>1 DEF TransactionExact
<1>4. CASE holding # {}
  <2>. DEFINE tx == CHOOSE t \in BlockTxs(chain[n]) : t.hash = hash
  <2>1. n \in holding
    BY <1>1, <1>4, LeastIsLeast
  <2>2. body = [tx           |-> tx_to_json(tx),
                block_height |-> n - 1,
                block_hash   |-> chain[n].hash]
    BY <1>4 DEF api_get_transaction
  <2>. HIDE DEF n, body
  <2>3. tx \in BlockTxs(chain[n]) /\ tx.hash = hash
    BY <2>1
  <2>. HIDE DEF tx
  <2>4. n \in 1..Len(chain)
    BY <1>1, <2>1
  <2>5. tx_to_json(tx) = tx
    BY <2>3, <2>4, ChainShape DEF IsTransaction, tx_to_json
  <2>6. body.block_height + 1 = n
    BY <2>2, <2>4
  <2>7. body.tx = tx /\ body.block_hash = chain[n].hash
    BY <2>2, <2>5
  <2>8. /\ body.tx.hash = hash
        /\ body.tx \in BlockTxs(chain[body.block_height + 1])
        /\ body.block_hash = chain[body.block_height + 1].hash
    BY <2>3, <2>6, <2>7
  <2>9. TransactionExact(hash, body)
    BY <1>2, <1>4, <2>8 DEF TransactionExact
  <2>. QED BY <2>9 DEF body
<1>. QED BY <1>3, <1>4

\* /api/address adds up the outputs of an address, and only those.
LEMMA AddressIsExact ==
    ASSUME ChainInv, Unlocked, Labelled(utxo_set), NEW address
    PROVE  AddressExact(address, api_get_address(address))
<1>. DEFINE own  == {k \in DOMAIN utxo_set : utxo_set[k].address = address}
            body == api_get_address(address)
<1>1. DOMAIN utxo_set = Unspent(chain, Len(chain))
  BY DEF ChainInv, UtxoMatchesHistory, Unlocked, Reflects
<1>2. own = Owned(address)
  BY <1>1, StoredIsRecorded DEF Owned
<1>3. [k \in own |-> utxo_set[k].amount] = [k \in Owned(address) |-> OutputOf(k).amount]
  BY <1>2, StoredIsRecorded
<1>4. /\ body.balance = get_balance(address)
      /\ body.utxos = {utxo_set[k] : k \in own}
  BY DEF api_get_address, get_utxos_for_address
<1>5. get_balance(address) = SumFunction([k \in own |-> utxo_set[k].amount]) % Word
  BY DEF get_balance
<1>. HIDE DEF own, body
<1>6. body.balance = SumFunction([k \in Owned(address) |-> OutputOf(k).amount]) % Word
  BY <1>3, <1>4, <1>5
<1>7. \A k \in own : /\ utxo_key(utxo_set[k].tx_id, utxo_set[k].output_index) = k
                     /\ utxo_set[k].address = address
                     /\ utxo_set[k].amount = OutputOf(k).amount
  BY StoredIsRecorded DEF Labelled, own
<1>8. {utxo_key(u.tx_id, u.output_index) : u \in body.utxos} = Owned(address)
  BY <1>2, <1>4, <1>7
<1>9. \A u \in body.utxos :
         /\ u.address = address
         /\ u.amount = OutputOf(utxo_key(u.tx_id, u.output_index)).amount
  BY <1>4, <1>7
<1>10. AddressExact(address, body)
  BY <1>6, <1>8, <1>9 DEF AddressExact
<1>. QED BY <1>10 DEF body

\* Whatever is asked for, the answer is exact.
LEMMA HandleIsExact ==
    ASSUME ChainInv, Unlocked, Labelled(utxo_set), chain # <<>>,
           NEW target, UnsignedNumbers(target)
    PROVE  AnswerExact(target, handle("GET", target))
<1>. DEFINE body == handle("GET", target)
<1>1. /\ IsNumber(target.arg) => target.arg.number \in Nat
      /\ IsNumber(target.limit) => target.limit.number \in Nat
  BY DEF UnsignedNumbers
<1>2. CASE target.path = "/api/status"
  <2>1. body = api_get_status
    BY <1>2 DEF handle
  <2>. QED BY <1>2, <2>1, StatusIsExact DEF AnswerExact
<1>3. CASE target.path = "/api/blocks"
  <2>1. body = api_get_blocks(target.limit)
    BY <1>3 DEF handle
  <2>2. BlocksExact(target.limit, body.blocks)
    BY <1>1, <2>1, BlocksAreExact
  <2>. QED BY <1>3, <2>2 DEF AnswerExact
<1>4. CASE target.path = "/api/block/hash/"
  <2>1. body = BlockJson({b \in ToSet(chain) : b.hash = target.arg})
    BY <1>4, FoundByHash DEF handle
  <2>2. BlockExact({b \in ToSet(chain) : b.hash = target.arg}, body)
    BY <2>1, FoundIsExact
  <2>. QED BY <1>4, <2>2 DEF AnswerExact
<1>5. CASE target.path = "/api/block/"
  <2>1. ASSUME IsNumber(target.arg)
        PROVE  BlockExact({b \in ToSet(chain) : b.header.index = target.arg.number}, body)
    <3>1. body = BlockJson(get_block(target.arg.number))
      BY <1>5, <2>1 DEF handle
    <3>2. get_block(target.arg.number)
            = {b \in ToSet(chain) : b.header.index = target.arg.number}
      BY <1>1, <2>1, FoundByNumber
    <3>. QED BY <3>1, <3>2, FoundIsExact
  <2>. QED BY <1>5, <2>1 DEF AnswerExact
<1>6. CASE target.path = "/api/tx/"
  <2>1. body = api_get_transaction(target.arg)
    BY <1>6 DEF handle
  <2>. QED BY <1>6, <2>1, TransactionIsExact DEF AnswerExact
<1>7. CASE target.path = "/api/address/"
  <2>1. body = api_get_address(target.arg)
    BY <1>7 DEF handle
  <2>. QED BY <1>7, <2>1, AddressIsExact DEF AnswerExact
<1>8. CASE target.path \notin {"/api/status", "/api/blocks", "/api/block/hash/",
                               "/api/block/", "/api/tx/", "/api/address/"}
  <2>1. body = Error("Not found")
    BY <1>8 DEF handle
  <2>. HIDE DEF body
  <2>2. DOMAIN Error("Not found") = {"error"}
    BY DEF Error
  <2>3. AnswerExact(target, body)
    BY <1>8, <2>1, <2>2 DEF AnswerExact
  <2>. QED BY <2>3 DEF body
<1>. QED BY <1>2, <1>3, <1>4, <1>5, <1>6, <1>7, <1>8

-----------------------------------------------------------------------------
(* The answers that were given stay right.                                 *)

\* An answer stays exact while the chain stays the same.
LEMMA ExactKept ==
    ASSUME NEW target, NEW body, AnswerExact(target, body), chain' = chain
    PROVE  AnswerExact(target, body)'
<1>1. ChainTxs' = ChainTxs
  BY DEF ChainTxs
<1>2. \A k : OutputOf(k)' = OutputOf(k)
  BY <1>1 DEF OutputOf
<1>3. \A address : Owned(address)' = Owned(address)
  BY <1>2 DEF Owned
<1>4. ASSUME NEW address, AddressExact(address, body) PROVE AddressExact(address, body)'
  BY <1>2, <1>3, <1>4 DEF AddressExact
<1>5. \A hash : TransactionExact(hash, body) => TransactionExact(hash, body)'
  BY <1>1 DEF TransactionExact
<1>6. \A limit, blocks : BlocksExact(limit, blocks) => BlocksExact(limit, blocks)'
  BY DEF BlocksExact
<1>7. StatusExact(body) => StatusExact(body)'
  BY DEF StatusExact
<1>. QED BY <1>4, <1>5, <1>6, <1>7 DEF AnswerExact

\* So do they all when those that are new are right.
LEMMA AnswersKept ==
    ASSUME AnswersExact, chain' = chain,
           \A c \in Conns : conn'[c].response = <<>> \/ conn'[c] = conn[c]
    PROVE  AnswersExact'
<1>1. ASSUME NEW c \in Conns, conn'[c].response # <<>>,
             conn'[c].response[1].status = 200, conn'[c].words[1] = "GET"
      PROVE  AnswerExact(conn[c].words[2], conn[c].response[1].body)'
  <2>1. PICK target, body : target = conn[c].words[2] /\ body = conn[c].response[1].body
    OBVIOUS
  <2>2. conn'[c] = conn[c]
    BY <1>1
  <2>3. AnswerExact(target, body)
    BY <1>1, <2>1, <2>2 DEF AnswersExact
  <2>4. AnswerExact(target, body)'
    BY <2>3, ExactKept
  <2>5. target = conn'[c].words[2] /\ body = conn'[c].response[1].body
    BY <2>1, <2>2
  <2>. QED BY <2>4, <2>5
<1>. QED BY <1>1 DEF AnswersExact

-----------------------------------------------------------------------------
(* The steps.                                                              *)

\* Before the server starts, nobody is connected.
LEMMA NobodyServed ==
    ASSUME MainInv, ConnsInv, ~Serving, NEW c \in Conns
    PROVE  conn[c].pc = "none" /\ conn[c].words = <<>> /\ conn[c].response = <<>>
  BY DEF ConnsInv, ConnInv, MainInv, Tried

\* A step of the main thread.
LEMMA ConnsKept ==
    ASSUME ConnsInv, conn' = conn, Tried => Tried' PROVE ConnsInv'
<1>1. ASSUME NEW c \in Conns PROVE ConnInv(c)'
  <2>1. ConnInv(c)
    BY DEF ConnsInv
  <2>. QED BY <2>1 DEF ConnInv
<1>. QED BY <1>1 DEF ConnsInv

\* One connection's step.
LEMMA ConnChanges ==
    ASSUME ConnsInv, UNCHANGED server, NEW c \in Conns, NEW r,
           conn' = [conn EXCEPT ![c] = r],
           /\ DOMAIN r = {"pc", "words", "response"}
           /\ r.pc \in {"recv", "handle", "closed"} /\ Tried
           /\ r.pc = "handle" \/ r.words # <<>> =>
                \E request \in Requests : \E n \in 1..Len(request) :
                    r.words = SubSeq(request, 1, n)
           /\ r.words # <<>> => r.pc \in {"handle", "closed"}
           /\ r.response # <<>> => r.pc = "closed"
    PROVE  ConnsInv'
<1>1. DOMAIN conn' = Conns /\ conn'[c] = r /\ \A d \in Conns : d # c => conn'[d] = conn[d]
  BY DEF ConnsInv
<1>2. ASSUME NEW d \in Conns PROVE ConnInv(d)'
  <2>1. CASE d = c
    BY <1>1, <2>1 DEF ConnInv, Tried
  <2>2. CASE d # c
    <3>1. ConnInv(d) /\ conn'[d] = conn[d]
      BY <1>1, <2>2 DEF ConnsInv
    <3>. QED BY <3>1 DEF ConnInv, Tried
  <2>. QED BY <2>1, <2>2
<1>. QED BY <1>1, <1>2 DEF ConnsInv

\* A record of a connection after some of its fields are set.
LEMMA ConnFields ==
    ASSUME NEW s, DOMAIN s = {"pc", "words", "response"}, NEW p, NEW w, NEW a
    PROVE  /\ LET r == [s EXCEPT !.pc = p]
              IN  DOMAIN r = DOMAIN s /\ r.pc = p /\ r.words = s.words /\ r.response = s.response
           /\ LET r == [s EXCEPT !.pc = p, !.words = w]
              IN  DOMAIN r = DOMAIN s /\ r.pc = p /\ r.words = w /\ r.response = s.response
           /\ LET r == [s EXCEPT !.pc = p, !.response = a]
              IN  DOMAIN r = DOMAIN s /\ r.pc = p /\ r.words = s.words /\ r.response = a
  OBVIOUS

\* Nothing of the chain changes.
LEMMA ChainInvKept ==
    ASSUME ChainInv, UNCHANGED chainVars PROVE ChainInv'
  BY DEF chainVars, ChainInv, ChainTypeOK, FileSound, FileChain,
         ChainLinked, IndexExact, UtxoMatchesHistory, ChainSpendsOwnUnspent

\* The connections do nothing to the main thread.
LEMMA MainKept ==
    ASSUME MainInv, UNCHANGED <<chainVars, main, running>>,
           (server \in {"bind", "loop"} /\ Tried') \/ server' = server
    PROVE  MainInv'
  BY DEF MainInv, chainVars, Serving, Tried, Unlocked, FileChain

\* The keys stay in the UTXOs.
LEMMA LabelsKept ==
    ASSUME NEW u, Labelled(u), NEW b PROVE Labelled(apply_block_to_utxo_set(u, b))
<1>. DEFINE v == apply_block_to_utxo_set(u, b)
<1>1. ASSUME NEW k \in Creates(b)
      PROVE  utxo_key(UtxoOf(b, k).tx_id, UtxoOf(b, k).output_index) = k
  <2>1. PICK tx \in BlockTxs(b) : k \in OutputKeys(tx)
    BY DEF Creates
  <2>2. PICK i \in DOMAIN tx.outputs : k = utxo_key(tx.hash, i - 1)
    BY <2>1 DEF OutputKeys
  <2>. QED BY <2>2 DEF UtxoOf, utxo_key
<1>2. ASSUME NEW k \in DOMAIN v PROVE utxo_key(v[k].tx_id, v[k].output_index) = k
  <2>1. v[k] = IF k \in Creates(b) THEN UtxoOf(b, k) ELSE u[k]
    BY DEF apply_block_to_utxo_set
  <2>2. k \in Creates(b) \/ k \in DOMAIN u
    BY DEF apply_block_to_utxo_set
  <2>. QED BY <1>1, <2>1, <2>2 DEF Labelled
<1>. QED BY <1>2 DEF Labelled

\* What is written is what was read.
LEMMA FileReadBack ==
    ASSUME ChainInv, chain = FileChain, save_to_disk PROVE file' = file
<1>1. file' = [i \in DOMAIN chain |-> block_to_json(chain[i])]
  BY DEF save_to_disk
<1>2. /\ file \in Seq({block_to_json(b) : b \in Blocks})
      /\ DOMAIN file = 1..Len(file) /\ file = [i \in DOMAIN file |-> file[i]]
  BY DEF ChainInv, ChainTypeOK
<1>3. ASSUME NEW i \in DOMAIN file
      PROVE  block_to_json(block_from_json(file[i])) = file[i]
  <2>1. file[i] \in {block_to_json(b) : b \in Blocks}
    BY <1>2
  <2>2. PICK b \in Blocks : file[i] = block_to_json(b)
    BY <2>1
  <2>3. block_from_json(file[i]) = b
    BY <2>2, BlocksAreBlocks, JsonRoundTrip
  <2>. QED BY <2>2, <2>3
<1>4. DOMAIN chain = DOMAIN file /\ \A i \in DOMAIN file : chain[i] = block_from_json(file[i])
  BY DEF FileChain
<1>. QED BY <1>1, <1>2, <1>3, <1>4

\* And what was written would be read as the chain.
LEMMA SavedIsChain ==
    ASSUME ChainInv, save_to_disk PROVE FileChain' = chain'
<1>1. /\ file' = [i \in DOMAIN chain |-> block_to_json(chain[i])] /\ chain' = chain
  BY DEF save_to_disk
<1>2. chain = [i \in DOMAIN chain |-> chain[i]]
  BY ChainShape
<1>3. \A i \in DOMAIN chain : block_from_json(block_to_json(chain[i])) = chain[i]
  BY ChainShape, JsonRoundTrip
<1>4. DOMAIN file' = DOMAIN chain
      /\ \A i \in DOMAIN chain : block_from_json(file'[i]) = chain[i]
  BY <1>1, <1>3
<1>5. FileChain' = [i \in DOMAIN chain |-> block_from_json(file'[i])]
  BY <1>4 DEF FileChain
<1>. QED BY <1>1, <1>2, <1>4, <1>5

\* A connection's words, if there are any.
LEMMA WordsAre ==
    ASSUME NEW r \in Requests, NEW n \in 1..Len(r)
    PROVE  /\ Len(SubSeq(r, 1, n)) = n
           /\ \A i \in 1..n : SubSeq(r, 1, n)[i] = r[i]
           /\ n > 1 => UnsignedNumbers(SubSeq(r, 1, n)[2])
<1>1. /\ Len(r) \in Nat \ {0} /\ r = [i \in 1..Len(r) |-> r[i]]
      /\ Len(r) > 1 => UnsignedNumbers(r[2])
  BY ExplorerAssumption
<1>2. r \in Seq({r[i] : i \in 1..Len(r)})
  <2>1. r \in [1..Len(r) -> {r[i] : i \in 1..Len(r)}]
    BY <1>1
  <2>. QED BY <1>1, <2>1
<1>3. Len(SubSeq(r, 1, n)) = n /\ \A i \in 1..n : SubSeq(r, 1, n)[i] = r[i]
  BY <1>1, <1>2
<1>4. n > 1 => SubSeq(r, 1, n)[2] = r[2] /\ Len(r) > 1
  BY <1>1, <1>3
<1>. QED BY <1>1, <1>3, <1>4

\* An accepted connection has asked nothing yet.
LEMMA AcceptStep ==
    ASSUME ExplorerInv, NEW c \in Conns, Accept(c) PROVE ConnsInv' /\ AnswersExact'
<1>1. ConnInv(c) /\ DOMAIN conn = Conns
  BY DEF ExplorerInv, ConnsInv
<1>2. PICK r : r = [conn[c] EXCEPT !.pc = "recv"]
  OBVIOUS
<1>3. conn' = [conn EXCEPT ![c] = r]
  BY <1>2 DEF Accept
<1>4. /\ DOMAIN r = {"pc", "words", "response"} /\ r.pc = "recv"
      /\ r.words = conn[c].words /\ r.response = conn[c].response
  BY <1>1, <1>2, ConnFields DEF ConnInv
<1>5. r.words = <<>> /\ r.response = <<>>
  BY <1>1, <1>4 DEF Accept, ConnInv
<1>6. Tried
  BY DEF Accept, Tried
<1>7. ConnsInv'
  BY <1>3, <1>4, <1>5, <1>6, ConnChanges DEF ExplorerInv, Accept
<1>8. \A d \in Conns : conn'[d].response = <<>> \/ conn'[d] = conn[d]
  BY <1>1, <1>3, <1>5
<1>. QED BY <1>7, <1>8, AnswersKept DEF ExplorerInv, Accept, chainVars

\* A request, whole or cut, is what its connection asks.
LEMMA RecvStep ==
    ASSUME ExplorerInv, NEW c \in Conns, Recv(c) PROVE ConnsInv' /\ AnswersExact'
<1>1. ConnInv(c) /\ DOMAIN conn = Conns
  BY DEF ExplorerInv, ConnsInv
<1>2. PICK request \in Requests : \E n \in 1..Len(request) :
        conn' = [conn EXCEPT ![c].pc = "handle", ![c].words = SubSeq(request, 1, n)]
  BY DEF Recv
<1>3. PICK n \in 1..Len(request) :
        conn' = [conn EXCEPT ![c].pc = "handle", ![c].words = SubSeq(request, 1, n)]
  BY <1>2
<1>4. PICK r : r = [conn[c] EXCEPT !.pc = "handle", !.words = SubSeq(request, 1, n)]
  OBVIOUS
<1>5. conn' = [conn EXCEPT ![c] = r]
  BY <1>1, <1>3, <1>4
<1>6. /\ DOMAIN r = {"pc", "words", "response"} /\ r.pc = "handle"
      /\ r.words = SubSeq(request, 1, n) /\ r.response = conn[c].response
  BY <1>1, <1>4, ConnFields DEF ConnInv
<1>7. r.response = <<>> /\ Tried
  BY <1>1, <1>6 DEF Recv, ConnInv
<1>8. \E q \in Requests : \E m \in 1..Len(q) : r.words = SubSeq(q, 1, m)
  BY <1>2, <1>3, <1>6
<1>9. ConnsInv'
  BY <1>5, <1>6, <1>7, <1>8, ConnChanges DEF ExplorerInv, Recv
<1>10. \A d \in Conns : conn'[d].response = <<>> \/ conn'[d] = conn[d]
  BY <1>1, <1>5, <1>7
<1>. QED BY <1>9, <1>10, AnswersKept DEF ExplorerInv, Recv, chainVars

\* A connection without a request gets no answer.
LEMMA DisconnectedStep ==
    ASSUME ExplorerInv, NEW c \in Conns, Disconnected(c) PROVE ConnsInv' /\ AnswersExact'
<1>1. ConnInv(c) /\ DOMAIN conn = Conns
  BY DEF ExplorerInv, ConnsInv
<1>2. PICK r : r = [conn[c] EXCEPT !.pc = "closed"]
  OBVIOUS
<1>3. conn' = [conn EXCEPT ![c] = r]
  BY <1>2 DEF Disconnected
<1>4. /\ DOMAIN r = {"pc", "words", "response"} /\ r.pc = "closed"
      /\ r.words = conn[c].words /\ r.response = conn[c].response
  BY <1>1, <1>2, ConnFields DEF ConnInv
<1>5. r.words = <<>> /\ r.response = <<>> /\ Tried
  BY <1>1, <1>4 DEF Disconnected, ConnInv
<1>6. ConnsInv'
  BY <1>3, <1>4, <1>5, ConnChanges DEF ExplorerInv, Disconnected
<1>7. \A d \in Conns : conn'[d].response = <<>> \/ conn'[d] = conn[d]
  BY <1>1, <1>3, <1>5
<1>. QED BY <1>6, <1>7, AnswersKept DEF ExplorerInv, Disconnected, chainVars

\* An answer that is not an error is the handler's.
LEMMA AnswerHas ==
    ASSUME NEW w, Answer(w) # <<>>, Answer(w)[1].status = 200
    PROVE  Len(w) # 1 /\ Answer(w)[1].body = handle(w[1], w[2])
<1>1. \A s, t, b : /\ build_response(s, t, b)[1].status = s
                  /\ build_response(s, t, b)[1].body = b
  BY DEF build_response
<1>2. CASE Len(w) = 1
  <2>1. Answer(w) = build_response(400, "text/plain", BadRequest)
    BY <1>2 DEF Answer
  <2>2. build_response(400, "text/plain", BadRequest)[1].status = 400
    BY <1>1
  <2>3. Answer(w)[1].status = 400
    BY <2>1, <2>2
  <2>. QED BY <2>3
<1>3. CASE Len(w) = 2
  BY <1>3 DEF Answer
<1>4. CASE Len(w) # 1 /\ Len(w) # 2
  <2>1. Answer(w) = build_response(200, "application/json", handle(w[1], w[2]))
    BY <1>4 DEF Answer
  <2>. QED BY <1>1, <1>4, <2>1
<1>. QED BY <1>2, <1>3, <1>4

\* A new answer is right.
LEMMA RespondStep ==
    ASSUME ExplorerInv, NEW c \in Conns, Respond(c) PROVE ConnsInv' /\ AnswersExact'
<1>1. ConnInv(c) /\ DOMAIN conn = Conns
  BY DEF ExplorerInv, ConnsInv
<1>2. PICK w, answer : w = conn[c].words /\ answer = Answer(w)
  OBVIOUS
<1>3. PICK r : r = [conn[c] EXCEPT !.pc = "closed", !.response = answer]
  OBVIOUS
<1>4. conn' = [conn EXCEPT ![c] = r]
  BY <1>1, <1>2, <1>3 DEF Respond
<1>5. /\ DOMAIN r = {"pc", "words", "response"} /\ r.pc = "closed"
      /\ r.words = w /\ r.response = answer
  BY <1>1, <1>2, <1>3, ConnFields DEF ConnInv
<1>6. Tried /\ \E q \in Requests : \E m \in 1..Len(q) : w = SubSeq(q, 1, m)
  BY <1>1, <1>2 DEF Respond, ConnInv
<1>7. ConnsInv'
  <2>1. \E q \in Requests : \E m \in 1..Len(q) : r.words = SubSeq(q, 1, m)
    BY <1>5, <1>6
  <2>. QED BY <1>4, <1>5, <1>6, <2>1, ConnChanges DEF ExplorerInv, Respond
<1>8. ChainInv /\ Unlocked /\ Labelled(utxo_set) /\ chain # <<>> /\ chain' = chain
  BY <1>6 DEF ExplorerInv, MainInv, Respond, chainVars, Serving, Tried
<1>9. ASSUME answer # <<>>, answer[1].status = 200, w[1] = "GET"
      PROVE  AnswerExact(w[2], answer[1].body)
  <2>1. PICK q \in Requests : \E m \in 1..Len(q) : w = SubSeq(q, 1, m)
    BY <1>6
  <2>2. PICK m \in 1..Len(q) : w = SubSeq(q, 1, m)
    BY <2>1
  <2>3. Len(w) = m /\ (m > 1 => UnsignedNumbers(w[2]))
    BY <2>1, <2>2, WordsAre
  <2>4. Len(w) # 1 /\ answer[1].body = handle("GET", w[2])
    BY <1>2, <1>9, AnswerHas
  <2>7. Len(q) \in Nat
    BY <2>1, ExplorerAssumption
  <2>8. UnsignedNumbers(w[2])
    BY <2>2, <2>3, <2>4, <2>7
  <2>9. AnswerExact(w[2], handle("GET", w[2]))
    BY <1>8, <2>8, HandleIsExact
  <2>. QED BY <2>4, <2>9
<1>10. ASSUME NEW d \in Conns, conn'[d].response # <<>>,
              conn'[d].response[1].status = 200, conn'[d].words[1] = "GET"
       PROVE  AnswerExact(conn[d].words[2], conn[d].response[1].body)'
  <2>1. PICK target, body : target = conn'[d].words[2] /\ body = conn'[d].response[1].body
    OBVIOUS
  <2>2. CASE d = c
    <3>1. conn'[d] = r
      BY <1>1, <1>4, <2>2
    <3>2. target = w[2] /\ body = answer[1].body
      BY <1>5, <2>1, <3>1
    <3>3. AnswerExact(target, body)
      BY <1>5, <1>9, <1>10, <3>1, <3>2
    <3>4. AnswerExact(target, body)'
      BY <1>8, <3>3, ExactKept
    <3>. QED BY <2>1, <3>4
  <2>3. CASE d # c
    <3>1. conn'[d] = conn[d]
      BY <1>1, <1>4, <2>3
    <3>2. AnswerExact(target, body)
      BY <1>10, <2>1, <3>1 DEF ExplorerInv, AnswersExact
    <3>3. AnswerExact(target, body)'
      BY <1>8, <3>2, ExactKept
    <3>. QED BY <2>1, <3>3
  <2>. QED BY <2>2, <2>3
<1>11. AnswersExact'
  BY <1>10 DEF AnswersExact
<1>. QED BY <1>7, <1>11

\* The step of a connection, of the server's thread, of the main thread.
LEMMA ConnectionKeepsInv ==
    ASSUME ExplorerInv, NEW c \in Conns,
           Accept(c) \/ Recv(c) \/ Disconnected(c) \/ Respond(c)
    PROVE  ExplorerInv'
<1>1. ConnsInv' /\ AnswersExact'
  BY AcceptStep, RecvStep, DisconnectedStep, RespondStep
<1>2. UNCHANGED <<chainVars, main, running, server>>
  BY DEF Accept, Recv, Disconnected, Respond
<1>3. ChainInv' /\ MainInv'
  BY <1>2, ChainInvKept, MainKept DEF ExplorerInv
<1>4. Labelled(utxo_set)'
  BY <1>2 DEF ExplorerInv, Labelled, chainVars
<1>. QED BY <1>1, <1>3, <1>4 DEF ExplorerInv

\* Binding the port, and the end of the accepting thread.
LEMMA ServerKeepsInv ==
    ASSUME ExplorerInv, Bind \/ ServerEnds PROVE ExplorerInv'
<1>1. /\ UNCHANGED <<chainVars, main, running, conn>>
      /\ server \in {"bind", "loop"} /\ Tried'
  BY DEF Bind, ServerEnds, Tried
<1>2. ChainInv' /\ MainInv'
  BY <1>1, ChainInvKept, MainKept DEF ExplorerInv
<1>3. ConnsInv' /\ AnswersExact' /\ Labelled(utxo_set)'
  BY <1>1, ConnsKept, AnswersKept DEF ExplorerInv, Labelled, chainVars
<1>. QED BY <1>2, <1>3 DEF ExplorerInv

\* Without a connection there is no answer that could be wrong.
LEMMA SilentExact ==
    ASSUME ExplorerInv, ~Serving, conn' = conn PROVE AnswersExact'
<1>1. \A c \in Conns : conn[c].response = <<>>
  BY NobodyServed DEF ExplorerInv
<1>. QED BY <1>1 DEF AnswersExact

\* Reading the file, before the server starts.
LEMMA LoadKeepsAll == ASSUME ExplorerInv, Load PROVE ExplorerInv'
<1>1. /\ main = "load" /\ main' = "start" /\ ~Serving /\ ~(Serving')
      /\ running' = running /\ server' = server /\ conn' = conn
  BY DEF Load, httpVars, Serving
<1>2. ConnsInv' /\ AnswersExact'
  BY <1>1, ConnsKept, SilentExact DEF ExplorerInv, Tried
<1>3. CASE load_from_disk
  <2>1. /\ chain' = FileChain /\ utxo_set' = EmptyMap /\ file' = file /\ file # NoFile
    BY <1>3 DEF load_from_disk, FileChain
  <2>2. ChainInv'
    BY <1>3, LoadKeepsInv DEF ExplorerInv
  <2>3. FileChain' = FileChain
    BY <2>1 DEF FileChain
  <2>4. FileChain # <<>>
    <3>1. file \in Seq({block_to_json(b) : b \in Blocks}) /\ file # <<>>
      BY <2>1 DEF ExplorerInv, ChainInv, ChainTypeOK, NoFile
    <3>2. 1 \in DOMAIN file
      BY <3>1
    <3>3. 1 \in DOMAIN FileChain
      BY <3>2 DEF FileChain
    <3>. QED BY <3>3
  <2>5. Labelled(utxo_set')
    BY <2>1 DEF Labelled, EmptyMap
  <2>6. MainInv'
    BY <1>1, <2>1, <2>3, <2>4 DEF ExplorerInv, MainInv, Serving
  <2>. QED BY <1>2, <2>2, <2>5, <2>6 DEF ExplorerInv, Labelled
<1>4. CASE file = NoFile /\ init
  <2>1. ChainInv'
    BY <1>4, InitKeepsInv DEF ExplorerInv
  <2>2. utxo_set' = utxo_set /\ file' = file
    BY <1>4 DEF init
  <2>3. chain' # <<>>
    BY <1>4 DEF init
  <2>4. MainInv'
    BY <1>1, <1>4, <2>2, <2>3 DEF ExplorerInv, MainInv, Serving
  <2>5. Labelled(utxo_set)'
    BY <2>2 DEF ExplorerInv, Labelled
  <2>. QED BY <1>2, <2>1, <2>4, <2>5 DEF ExplorerInv
<1>. QED BY <1>3, <1>4 DEF Load

\* Each step of rebuild_utxo_set, before the server starts.
LEMMA RebuildKeepsAll == ASSUME ExplorerInv, Rebuild PROVE ExplorerInv'
<1>1. /\ rebuild_utxo_set /\ ~Serving /\ main' = main
      /\ running' = running /\ server' = server /\ conn' = conn
  BY DEF Rebuild, httpVars, Serving
<1>2. /\ utxo_set' = apply_block_to_utxo_set(utxo_set, chain[applied + 1])
      /\ chain' = chain /\ file' = file
  BY <1>1 DEF rebuild_utxo_set
<1>3. ChainInv'
  BY <1>1, RebuildKeepsInv DEF ExplorerInv
<1>4. Labelled(utxo_set')
  BY <1>2, LabelsKept DEF ExplorerInv
<1>5. ConnsInv' /\ AnswersExact'
  BY <1>1, ConnsKept, SilentExact DEF ExplorerInv, Tried
<1>6. MainInv'
  BY <1>1, <1>2 DEF ExplorerInv, MainInv, Serving, FileChain
<1>. QED BY <1>3, <1>4, <1>5, <1>6 DEF ExplorerInv, Labelled

\* start, stop and join leave the chain alone.
LEMMA ServeKeepsInv ==
    ASSUME ExplorerInv, Start \/ Stop \/ Join PROVE ExplorerInv'
<1>1. /\ UNCHANGED <<chainVars, conn>>
      /\ Serving' /\ (Tried => Tried')
  BY DEF Start, Stop, Join, httpVars, ExplorerInv, MainInv, Serving, Tried
<1>2. ChainInv'
  BY <1>1, ChainInvKept DEF ExplorerInv
<1>3. ConnsInv' /\ AnswersExact' /\ Labelled(utxo_set)'
  BY <1>1, ConnsKept, AnswersKept DEF ExplorerInv, Labelled, chainVars
<1>4. MainInv'
  <2>1. CASE Start
    BY <1>1, <2>1 DEF Start, ExplorerInv, MainInv, Serving, chainVars, Unlocked, FileChain
  <2>2. CASE Stop
    BY <1>1, <2>2 DEF Stop, ExplorerInv, MainInv, Serving, chainVars, Unlocked, FileChain
  <2>3. CASE Join
    BY <1>1, <2>3 DEF Join, httpVars, ExplorerInv, MainInv, Serving, chainVars, Unlocked, FileChain
  <2>. QED BY <2>1, <2>2, <2>3
<1>. QED BY <1>2, <1>3, <1>4 DEF ExplorerInv

\* The save at the end, after the server has stopped.
LEMMA SaveKeepsAll == ASSUME ExplorerInv, Save PROVE ExplorerInv'
<1>1. /\ save_to_disk /\ main = "save" /\ main' = "exited"
      /\ running' = running /\ server' = server /\ conn' = conn
  BY DEF Save, httpVars
<1>2. chain' = chain /\ utxo_set' = utxo_set /\ applied' = applied
  BY <1>1 DEF save_to_disk
<1>3. ChainInv' /\ FileChain' = chain'
  BY <1>1, SaveKeepsInv, SavedIsChain DEF ExplorerInv
<1>4. ConnsInv' /\ AnswersExact' /\ Labelled(utxo_set)'
  BY <1>1, <1>2, ConnsKept, AnswersKept DEF ExplorerInv, Labelled, Tried
<1>5. MainInv'
  BY <1>1, <1>2, <1>3 DEF ExplorerInv, MainInv, Serving, Unlocked
<1>. QED BY <1>3, <1>4, <1>5 DEF ExplorerInv

\* Nothing is read or served at first.
LEMMA ExplorerStarts == ASSUME ExplorerInit PROVE ExplorerInv
<1>1. /\ chain = <<>> /\ utxo_set = EmptyMap /\ hash_index = EmptyMap /\ applied = 0
      /\ file \in StartFiles /\ main = "load" /\ running = FALSE /\ server = "none"
      /\ conn = [c \in Conns |-> NoConnection]
  BY DEF ExplorerInit
<1>2. SavedFile(file)
  BY <1>1, ExplorerAssumption
<1>3. file \in Seq({block_to_json(b) : b \in Blocks}) /\ DOMAIN file = 1..Len(file)
  BY <1>2 DEF SavedFile
<1>4. FileSound
  <2>1. Linked(FileChain) /\ AllSpendsOwnUnspent(FileChain)
    BY <1>2 DEF SavedFile, FileChain
  <2>2. \A i \in 1..Len(file) : block_from_json(file[i]) \in Blocks
    <3>1. TAKE i \in 1..Len(file)
    <3>2. file[i] \in {block_to_json(b) : b \in Blocks}
      BY <1>3
    <3>3. PICK b \in Blocks : file[i] = block_to_json(b)
      BY <3>2
    <3>. QED BY <3>3, BlocksAreBlocks, JsonRoundTrip
  <2>3. FileChain = [i \in 1..Len(file) |-> block_from_json(file[i])] /\ Len(file) \in Nat
    BY <1>3 DEF FileChain
  <2>4. FileChain \in Seq(Blocks)
    BY <2>2, <2>3
  <2>. QED BY <2>1, <2>4 DEF FileSound
<1>5. Len(chain) = 0 /\ chain \in Seq(Blocks) /\ 1..0 = {}
  BY <1>1
<1>6. ChainTypeOK
  BY <1>1, <1>3, <1>5 DEF ChainTypeOK
<1>7. UtxoMatchesHistory
  BY <1>1, UnspentNone DEF UtxoMatchesHistory, Reflects, EmptyMap
<1>8. ChainInv
  BY <1>1, <1>4, <1>5, <1>6, <1>7 DEF ChainInv, ChainLinked, Linked, IndexExact, EmptyMap,
     ChainSpendsOwnUnspent, AllSpendsOwnUnspent
<1>9. Labelled(utxo_set)
  BY <1>1 DEF Labelled, EmptyMap
<1>10. MainInv
  BY <1>1 DEF MainInv, Serving
<1>11. ConnsInv /\ AnswersExact
  BY <1>1 DEF ConnsInv, ConnInv, NoConnection, AnswersExact
<1>. QED BY <1>8, <1>9, <1>10, <1>11 DEF ExplorerInv

\* Every step of the explorer keeps its invariant.
LEMMA StepKeepsInv == ASSUME ExplorerInv, [ExplorerNext]_vars PROVE ExplorerInv'
<1>1. CASE UNCHANGED vars
  <2>1. UNCHANGED <<chainVars, main, running, server, conn>>
    BY <1>1 DEF vars, httpVars
  <2>2. ChainInv' /\ MainInv'
    BY <2>1, ChainInvKept, MainKept DEF ExplorerInv
  <2>3. ConnsInv' /\ AnswersExact' /\ Labelled(utxo_set)'
    BY <2>1, ConnsKept, AnswersKept DEF ExplorerInv, Labelled, Tried, chainVars
  <2>. QED BY <2>2, <2>3 DEF ExplorerInv
<1>2. CASE Main
  BY <1>2, LoadKeepsAll, RebuildKeepsAll, ServeKeepsInv, SaveKeepsAll DEF Main
<1>3. CASE Bind \/ ServerEnds
  BY <1>3, ServerKeepsInv
<1>4. CASE \E c \in Conns : Accept(c) \/ Recv(c) \/ Disconnected(c) \/ Respond(c)
  BY <1>4, ConnectionKeepsInv
<1>. QED BY <1>1, <1>2, <1>3, <1>4 DEF ExplorerNext

-----------------------------------------------------------------------------
(* The theorems.                                                           *)

\* The inductive invariant holds of every run of the explorer.
THEOREM ExplorerInvariant == ExplorerSpec => []ExplorerInv
<1>. QED BY ExplorerStarts, StepKeepsInv, PTL DEF ExplorerSpec

\* The accepting thread is there once the server was started and has ended
\* before the chain is saved, a connection is there only once that thread is
\* past its bind, and a connection with an answer is closed.
THEOREM ExplorerTypeCorrect == ExplorerSpec => []ExplorerTypeOK
<1>1. ExplorerInv => ExplorerTypeOK
  BY DEF ExplorerInv, MainInv, ConnsInv, ConnInv, ExplorerTypeOK, Serving, Tried
<1>. QED BY <1>1, ExplorerInvariant, PTL

\* Every answer on every connection says of the chain what the recorded blocks
\* say, whatever was asked and however the request was cut.
THEOREM AnswersAlwaysExact == ExplorerSpec => []AnswersExact
<1>1. ExplorerInv => AnswersExact
  BY DEF ExplorerInv
<1>. QED BY <1>1, ExplorerInvariant, PTL

\* The explorer writes back the file that it read.
THEOREM FileStaysAlone == ExplorerSpec => FileLeftAlone
<1>1. ExplorerInv /\ [ExplorerNext]_vars => [file = NoFile \/ UNCHANGED file]_vars
  <2>. SUFFICES ASSUME ExplorerInv, ExplorerNext, file # NoFile PROVE file' = file
    OBVIOUS
  <2>1. CASE Save
    <3>1. chain = FileChain /\ save_to_disk
      BY <2>1 DEF Save, ExplorerInv, MainInv
    <3>. QED BY <3>1, FileReadBack DEF ExplorerInv
  <2>2. CASE Load
    BY <2>2 DEF Load, load_from_disk
  <2>3. CASE Rebuild \/ Start \/ Stop \/ Join
    BY <2>3 DEF Rebuild, rebuild_utxo_set, Start, Stop, Join, chainVars
  <2>4. CASE Bind \/ ServerEnds
    BY <2>4 DEF Bind, ServerEnds, chainVars
  <2>5. ASSUME NEW c \in Conns, Accept(c) \/ Recv(c) \/ Disconnected(c) \/ Respond(c)
        PROVE  file' = file
    BY <2>5 DEF Accept, Recv, Disconnected, Respond, chainVars
  <2>. QED BY <2>1, <2>2, <2>3, <2>4, <2>5 DEF ExplorerNext, Main
<1>. QED BY <1>1, ExplorerInvariant, PTL DEF ExplorerSpec, FileLeftAlone
=============================================================================
