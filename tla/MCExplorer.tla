---------------------------- MODULE MCExplorer ----------------------------
(***************************************************************************)
(* An explorer of the chains that MCBlockchain's miners build, asked for   *)
(* everything that is in them and for some things that are not.            *)
(***************************************************************************)
EXTENDS Explorer, MCBlockchain

Saved(c) == [i \in DOMAIN c |-> block_to_json(c[i])]

MCStartFiles == {NoFile} \cup {Saved(c) : c \in Branches[Depth]}

Target(path, arg, limit) == [path |-> path, arg |-> arg, limit |-> limit]
Nothing == Text("")
Get(path, arg, limit) == <<"GET", Target(path, arg, limit), "HTTP/1.1">>

ChainBlocks == UNION {ToSet(c) : c \in Branches[Depth]}
BlockHashes == {b.hash : b \in ChainBlocks}
TxHashes    == UNION {{tx.hash : tx \in BlockTxs(b)} : b \in ChainBlocks}

AllRequests ==
    {<<method, Target("/api/status", Nothing, Nothing), "HTTP/1.1">> :
        method \in {"POST", "OPTIONS"}}
    \cup {Get("/api/status", Nothing, Nothing), Get("/", Nothing, Nothing)}
    \cup {Get("/api/blocks", Nothing, limit) :
            limit \in {Nothing} \cup {Number(n) : n \in 0..(Depth + 3)}}
    \cup {Get("/api/block/", arg, Nothing) :
            arg \in {Nothing} \cup {Number(n) : n \in 0..(Depth + 1)}}
    \cup {Get("/api/block/hash/", h, Nothing) : h \in BlockHashes \cup TxHashes}
    \cup {Get("/api/tx/", h, Nothing) : h \in TxHashes \cup {null_hash}}
    \cup {Get("/api/address/", get_address(k), Nothing) : k \in {Alice, Bob}}
=============================================================================
