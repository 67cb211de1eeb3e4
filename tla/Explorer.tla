------------------------------ MODULE Explorer ------------------------------
(***************************************************************************)
(* The explorer process (explorer_mode of main.cpp): the chain it loads    *)
(* once, the answers it computes from it (class ExplorerApi, api.cpp), and *)
(* its HTTP server (class HttpServer, httpserver.cpp) with an accepting    *)
(* thread and a detached thread per connection.                            *)
(*                                                                         *)
(* A request is the sequence of the words between its spaces: the method,  *)
(* the target and the rest.  A target has a path, the last part of the     *)
(* path and the limit of the query, each of the latter a number or not.    *)
(* A body of JSON is a record.  Nothing ever enters the explorer's         *)
(* mempool: it is left out, and so are the fields about energy.            *)
(***************************************************************************)
EXTENDS Blockchain, SequencesExt

CONSTANTS
    StartFiles,     \* what the chain file may hold
    Conns,          \* connections
    Requests,       \* what clients send
    DefaultLimit,   \* blocks in a list when the query has no limit (20)
    MaxLimit        \* the largest limit (1000)

Number(n) == [number |-> n]
IsNumber(arg) == "number" \in DOMAIN arg

\* A node saves what it has added to its chain: f is such a file.
SavedFile(f) ==
    LET c == [i \in DOMAIN f |-> block_from_json(f[i])]
    IN  /\ f \in Seq({block_to_json(b) : b \in Blocks})
        /\ Linked(c)
        /\ AllSpendsOwnUnspent(c)

\* Numbers are read with stoull and stoul.
UnsignedNumbers(target) ==
    \A arg \in {target.arg, target.limit} : IsNumber(arg) => arg.number \in Nat

ASSUME ExplorerAssumption ==
    /\ {DefaultLimit, MaxLimit} \subseteq Nat
    /\ \A r \in Requests :
         /\ Len(r) \in Nat \ {0} /\ r = [i \in 1..Len(r) |-> r[i]]
         /\ Len(r) > 1 => UnsignedNumbers(r[2])
    /\ \A f \in StartFiles : SavedFile(f)

VARIABLES
    main,           \* the main thread
    running,        \* running_
    server,         \* the accepting thread
    conn            \* connection -> its thread

httpVars == <<running, server, conn>>
vars == <<chainVars, main, httpVars>>

-----------------------------------------------------------------------------
(* ExplorerApi.                                                            *)

Error(what) == [error |-> what]

get_block(index) == IF index >= Len(chain) THEN {} ELSE {chain[index + 1]}

\* The block as JSON, if there is one.
BlockJson(found) ==
    IF found = {} THEN Error("Block not found")
    ELSE block_to_json(CHOOSE b \in found : TRUE)

get_balance(address) ==
    LET own == {k \in DOMAIN utxo_set : utxo_set[k].address = address}
    IN  SumFunction([k \in own |-> utxo_set[k].amount]) % Word

api_get_status ==
    [height           |-> height(chain),
     difficulty       |-> latest.header.difficulty,
     latest_hash      |-> latest.hash,
     latest_timestamp |-> latest.header.timestamp,
     mempool_size     |-> 0]

\* Mutant: the loop stops before the genesis block.
BlocksWithoutGenesis(limit) ==
    LET asked == IF ~IsNumber(limit) THEN DefaultLimit ELSE limit.number
        count == Min({asked, MaxLimit, height(chain)})
    IN  [blocks |-> [n \in 1..count |->
           LET b == chain[Len(chain) + 1 - n]
           IN  [index    |-> b.header.index,
                hash     |-> b.hash,
                tx_count |-> Len(b.transactions)]]]

\* From the latest block backwards, up to the limit.
api_get_blocks(limit) ==
    LET asked == IF ~IsNumber(limit) THEN DefaultLimit ELSE limit.number
        count == Min({asked, MaxLimit, Len(chain)})
    IN  [blocks |-> [n \in 1..count |->
           LET b == chain[Len(chain) + 1 - n]
           IN  [index    |-> b.header.index,
                hash     |-> b.hash,
                tx_count |-> Len(b.transactions)]]]

\* The first transaction with this hash, searched from the genesis block on.
api_get_transaction(hash) ==
    LET holding == {n \in DOMAIN chain : \E tx \in BlockTxs(chain[n]) : tx.hash = hash}
        n       == Min(holding)
    IN  IF holding = {} THEN Error("Transaction not found")
        ELSE [tx           |-> tx_to_json(CHOOSE tx \in BlockTxs(chain[n]) : tx.hash = hash),
              block_height |-> n - 1,
              block_hash   |-> chain[n].hash]

api_get_address(address) ==
    [address |-> address,
     balance |-> get_balance(address),
     utxos   |-> get_utxos_for_address(utxo_set, address)]

\* ExplorerApi::handle.
handle(method, target) ==
    CASE method \notin {"GET", "OPTIONS"}      -> Error("Method not allowed")
      [] method = "OPTIONS"                    -> [x \in {} |-> x]
      [] target.path = "/api/status"           -> api_get_status
      [] target.path = "/api/blocks"           -> api_get_blocks(target.limit)
      [] target.path = "/api/block/hash/"      -> BlockJson(get_block_by_hash(target.arg))
      [] target.path = "/api/block/"           ->
           IF IsNumber(target.arg) THEN BlockJson(get_block(target.arg.number))
           ELSE Error("Invalid block height")
      [] target.path = "/api/tx/"              -> api_get_transaction(target.arg)
      [] target.path = "/api/address/"         -> api_get_address(target.arg)
      [] OTHER                                 -> Error("Not found")

-----------------------------------------------------------------------------
(* HttpServer.                                                             *)

NoConnection == [pc |-> "none", words |-> <<>>, response |-> <<>>]

build_response(status, type, body) == <<[status |-> status, type |-> type, body |-> body]>>

\* socket, bind and listen; when one fails the thread ends.
Bind ==
    /\ server = "bind"
    /\ server' \in {"loop", "ended"}
    /\ UNCHANGED <<chainVars, main, running, conn>>

\* accept; handle_connection in a detached thread.
Accept(c) ==
    /\ server = "loop"
    /\ conn[c].pc = "none"
    /\ conn' = [conn EXCEPT ![c].pc = "recv"]
    /\ UNCHANGED <<chainVars, main, running, server>>

\* One call of recv: it need not return all that the client sends.  A target
\* that is cut short has no space after it, as a request of two words has none.
Recv(c) ==
    /\ main # "exited"
    /\ conn[c].pc = "recv"
    /\ \E request \in Requests : \E n \in 1..Len(request) :
         conn' = [conn EXCEPT ![c].pc = "handle", ![c].words = SubSeq(request, 1, n)]
    /\ UNCHANGED <<chainVars, main, running, server>>

\* bytes <= 0.
Disconnected(c) ==
    /\ main # "exited"
    /\ conn[c].pc = "recv"
    /\ conn' = [conn EXCEPT ![c].pc = "closed"]
    /\ UNCHANGED <<chainVars, main, running, server>>

BadRequest == Error("Bad Request")

\* The answer to words: without a space "Bad Request", without a second one
\* none; else what the handler returns.
Answer(words) ==
    CASE Len(words) = 1 -> build_response(400, "text/plain", BadRequest)
      [] Len(words) = 2 -> <<>>
      [] OTHER -> build_response(200, "application/json", handle(words[1], words[2]))

\* Mutant: what is not a whole GET request is dropped.
RespondToGet(c) ==
    /\ main # "exited"
    /\ conn[c].pc = "handle"
    /\ conn' = [conn EXCEPT
         ![c].pc = "closed",
         ![c].response =
           IF Len(conn[c].words) < 3 \/ conn[c].words[1] # "GET" THEN <<>>
           ELSE build_response(200, "application/json",
                               handle(conn[c].words[1], conn[c].words[2]))]
    /\ UNCHANGED <<chainVars, main, running, server>>

\* The rest of handle_connection; the socket is closed.
Respond(c) ==
    /\ main # "exited"
    /\ conn[c].pc = "handle"
    /\ conn' = [conn EXCEPT
         ![c].pc = "closed",
         ![c].response = Answer(conn[c].words)]
    /\ UNCHANGED <<chainVars, main, running, server>>

\* Mutant: the thread waits for the connections to be closed.
ServerEndsLast ==
    /\ server = "loop"
    /\ ~running
    /\ \A c \in Conns : conn[c].pc \in {"none", "closed"}
    /\ server' = "ended"
    /\ UNCHANGED <<chainVars, main, running, conn>>

\* while (running_), looked at once a second.
ServerEnds ==
    /\ server = "loop"
    /\ ~running
    /\ server' = "ended"
    /\ UNCHANGED <<chainVars, main, running, conn>>

-----------------------------------------------------------------------------
(* The main thread: explorer_mode.                                         *)

\* Mutant: the chain starts anew although there is a file.
LoadAnew ==
    /\ main = "load"
    /\ init
    /\ main' = "start"
    /\ UNCHANGED httpVars

\* chain.load_from_disk, or chain.init when there is no file.
Load ==
    /\ main = "load"
    /\ \/ load_from_disk
       \/ file = NoFile /\ init
    /\ main' = "start"
    /\ UNCHANGED httpVars

Rebuild ==
    /\ main = "start"
    /\ rebuild_utxo_set
    /\ UNCHANGED <<main, httpVars>>

\* server.start().
Start ==
    /\ main = "start"
    /\ Unlocked
    /\ main' = "serve"
    /\ running' = TRUE
    /\ server' = "bind"
    /\ UNCHANGED <<chainVars, conn>>

\* Mutant: stop does not tell the accepting thread.
StopUntold ==
    /\ main = "serve"
    /\ main' = "join"
    /\ UNCHANGED <<chainVars, httpVars>>

\* SIGINT; server.stop() up to join.
Stop ==
    /\ main = "serve"
    /\ main' = "join"
    /\ running' = FALSE
    /\ UNCHANGED <<chainVars, server, conn>>

\* "HTTP server stopped."
Join ==
    /\ main = "join"
    /\ server = "ended"
    /\ main' = "save"
    /\ UNCHANGED <<chainVars, httpVars>>

\* chain.save_to_disk, and the process ends with all its threads.
Save ==
    /\ main = "save"
    /\ save_to_disk
    /\ main' = "exited"
    /\ UNCHANGED httpVars

-----------------------------------------------------------------------------

ExplorerInit ==
    /\ chain = <<>>
    /\ utxo_set = EmptyMap
    /\ hash_index = EmptyMap
    /\ applied = 0
    /\ file \in StartFiles
    /\ main = "load"
    /\ running = FALSE
    /\ server = "none"
    /\ conn = [c \in Conns |-> NoConnection]

Main == Load \/ Rebuild \/ Start \/ Stop \/ Join \/ Save

ExplorerNext ==
    \/ Main \/ Bind \/ ServerEnds
    \/ \E c \in Conns : Accept(c) \/ Recv(c) \/ Disconnected(c) \/ Respond(c)

ExplorerSpec == ExplorerInit /\ [][ExplorerNext]_vars

\* Threads that can run do run; the signal need not come, nor the client send.
FairExplorerSpec ==
    /\ ExplorerSpec
    /\ WF_vars(Join \/ Save) /\ WF_vars(Bind \/ ServerEnds)
    /\ \A c \in Conns : WF_vars(Respond(c))

-----------------------------------------------------------------------------
(* Properties.                                                             *)

\* server.start() has been called.
Serving == main \in {"serve", "join", "save", "exited"}

\* Type invariant: the accepting thread is there once the server was started,
\* has ended before the chain is saved, and is past its bind before there is a
\* connection; a connection with an answer is closed.
ExplorerTypeOK ==
    /\ main \in {"load", "start"} \/ Serving
    /\ running <=> main = "serve"
    /\ server \in {"none", "bind", "loop", "ended"}
    /\ server # "none" <=> Serving
    /\ main \in {"save", "exited"} => server = "ended"
    /\ \A c \in Conns :
         /\ conn[c].pc \in {"none", "recv", "handle", "closed"}
         /\ conn[c].pc # "none" => server \in {"loop", "ended"}
         /\ conn[c].words # <<>> => conn[c].pc \in {"handle", "closed"}
         /\ conn[c].response # <<>> => conn[c].pc = "closed"

\* References, told from the blocks alone.
ChainTxs == UNION {BlockTxs(chain[n]) : n \in DOMAIN chain}

\* The output that has key k in the UTXO set.
OutputOf(k) ==
    (CHOOSE tx \in ChainTxs : tx.hash = k.tx_id).outputs[k.output_index + 1]

\* The keys of the unspent outputs that are addressed to address.
Owned(address) ==
    {k \in Unspent(chain, Len(chain)) : OutputOf(k).address = address}

StatusExact(body) ==
    /\ body.height + 1 = Len(chain)
    /\ body.latest_hash = chain[body.height + 1].hash

\* The newest blocks first, without a hole, as many as asked for and there.
BlocksExact(limit, blocks) ==
    /\ \A i \in DOMAIN blocks :
         /\ blocks[i].index = Len(chain) - i
         /\ blocks[i].hash = chain[blocks[i].index + 1].hash
    /\ Len(blocks) = Min({Len(chain), MaxLimit,
                          IF IsNumber(limit) THEN limit.number ELSE DefaultLimit})

BlockExact(found, body) ==
    IF found = {} THEN body = Error("Block not found")
    ELSE \E b \in found : body = block_to_json(b)

TransactionExact(hash, body) ==
    IF \A tx \in ChainTxs : tx.hash # hash THEN body = Error("Transaction not found")
    ELSE /\ body.tx.hash = hash
         /\ body.tx \in BlockTxs(chain[body.block_height + 1])
         /\ body.block_hash = chain[body.block_height + 1].hash

AddressExact(address, body) ==
    /\ body.balance = SumFunction([k \in Owned(address) |-> OutputOf(k).amount]) % Word
    /\ {utxo_key(u.tx_id, u.output_index) : u \in body.utxos} = Owned(address)
    /\ \A u \in body.utxos :
         /\ u.address = address
         /\ u.amount = OutputOf(utxo_key(u.tx_id, u.output_index)).amount

\* What a GET request for target may be answered.
AnswerExact(target, body) ==
    CASE target.path = "/api/status" -> StatusExact(body)
      [] target.path = "/api/blocks" -> BlocksExact(target.limit, body.blocks)
      [] target.path = "/api/block/hash/" ->
           BlockExact({b \in ToSet(chain) : b.hash = target.arg}, body)
      [] target.path = "/api/block/" ->
           IsNumber(target.arg) =>
             BlockExact({b \in ToSet(chain) : b.header.index = target.arg.number}, body)
      [] target.path = "/api/tx/" -> TransactionExact(target.arg, body)
      [] target.path = "/api/address/" -> AddressExact(target.arg, body)
      [] OTHER -> "error" \in DOMAIN body

\* Each answer says of the chain what the recorded blocks say: the balance is
\* what they leave unspent, a transaction is in the block it is said to be in,
\* a block is the one with that hash or height, the newest blocks come first.
AnswersExact ==
    \A c \in Conns :
        (conn[c].response # <<>> /\ conn[c].response[1].status = 200
            /\ conn[c].words[1] = "GET")
        => AnswerExact(conn[c].words[2], conn[c].response[1].body)

\* A process that only reads leaves the chain file as it found it, although it
\* writes the file when it ends; it creates the file when there was none.
FileLeftAlone == [][file = NoFile \/ UNCHANGED file]_vars

\* stop returns and the process ends.
StopReturns == (main = "join") ~> (main = "exited")

\* A client gets an answer, unless the process is stopped or recv returned no
\* more of the request than the method and a part of the target.
RequestsAnswered ==
    \A c \in Conns :
        Len(conn[c].words) \in {1, 3} ~> (conn[c].response # <<>> \/ main # "serve")
=============================================================================
