----------------------------- MODULE WalletCli -----------------------------
(***************************************************************************)
(* The commands of one user (wallet_mode of main.cpp, and the part of      *)
(* mine_mode and run_mode that picks the mining address), over the key     *)
(* file and the chain file in one directory.                               *)
(*                                                                         *)
(* Each command is a process that runs to its end before the user gives    *)
(* the next one.  A key pair is fresh each time one is generated.  The     *)
(* chain of the model is what the chain file holds; other people's nodes   *)
(* add to it.                                                              *)
(***************************************************************************)
EXTENDS Ledger, SequencesExt

CONSTANTS
    Keys,           \* the key pairs that are generated
    Payee,          \* the key pair of the one who is paid
    Amounts,        \* the amounts that --send is given
    Fee,            \* the fee of --send (1000000)
    Reward,         \* what a block brings
    MaxBlocks,      \* length of the chain at which mining stops
    MaxSends        \* payments

ASSUME WalletAssumption ==
    /\ Amounts \subseteq Nat
    /\ {Fee, Reward, MaxSends} \subseteq Nat
    /\ MaxBlocks \in Nat \ {0}

VARIABLES
    chain,          \* the blocks in bitvoid.chain
    key_file,       \* wallet.key: the key pair in it, <<>> if there is none
    generated,      \* the key pairs that have been generated
    shown,          \* the addresses the user was told are his
    payments        \* what --send has printed: the transaction, what was asked

vars == <<chain, key_file, generated, shown, payments>>

ChainOps == INSTANCE Blockchain WITH
    Offers <- {}, GenesisTimes <- {}, utxo_set <- <<>>, hash_index <- <<>>,
    applied <- 0, file <- <<>>

\* The UTXO set after load_from_disk.
Utxos == FoldLeft(ChainOps!apply_block_to_utxo_set, ChainOps!EmptyMap, chain)

now == Len(chain)

\* A block with txs for address: by this user or by anyone.
MineFor(address, txs) ==
    /\ Len(chain) < MaxBlocks
    /\ chain' = Append(chain, mine_block(Last(chain), txs, address, 1, Reward, now))

-----------------------------------------------------------------------------

\* Mutant: the file is opened for appending.
NewWalletAppends ==
    /\ \E k \in Keys \ generated :
         /\ key_file' = Append(key_file, k)
         /\ generated' = generated \cup {k}
         /\ shown' = shown \cup {get_address(k)}
    /\ UNCHANGED <<chain, payments>>

\* wallet --new: "New wallet created!", "Saved to: ".  save writes the file
\* anew, whatever it held.
NewWallet ==
    /\ \E k \in Keys \ generated :
         /\ key_file' = <<k>>
         /\ generated' = generated \cup {k}
         /\ shown' = shown \cup {get_address(k)}
    /\ UNCHANGED <<chain, payments>>

\* "Failed to save wallet": the file cannot be opened and stays as it is; the
\* user is told that this address will not do.
NewWalletFails ==
    /\ \E k \in Keys \ generated : generated' = generated \cup {k}
    /\ UNCHANGED <<chain, key_file, shown, payments>>

\* mine or run without --address: "Generated new wallet".  The key pair goes
\* out of scope with the Wallet object.
MineToNewWallet ==
    /\ \E k \in Keys \ generated :
         /\ generated' = generated \cup {k}
         /\ shown' = shown \cup {get_address(k)}
         /\ MineFor(get_address(k), <<>>)
    /\ UNCHANGED <<key_file, payments>>

\* mine or run with an address that wallet --new has shown.
MineToAddress ==
    /\ \E address \in shown : MineFor(address, <<>>)
    /\ UNCHANGED <<key_file, generated, shown, payments>>

\* wallet --send amount:payee.  The key is loaded, the UTXOs of its address
\* come in the order of a hash table.  Without UTXOs, or with too few of them,
\* nothing is printed but an error.
Send(amount) ==
    /\ Cardinality(payments) < MaxSends
    /\ key_file # <<>>
    /\ LET k     == key_file[1]
           utxos == ChainOps!get_utxos_for_address(Utxos, get_address(k))
       IN  /\ utxos # {}
           /\ \E order \in SetToSeqs(utxos) :
                LET tx == create_transaction(k, get_address(Payee), amount, Fee, order, now)
                IN  /\ tx.hash # Text("")
                    /\ payments' = payments \cup
                         {[tx |-> tx, amount |-> amount, from |-> k, utxos |-> utxos]}
    /\ UNCHANGED <<chain, key_file, generated, shown>>

\* A payment that reached a node is in a block of another miner.
Confirm ==
    /\ \E p \in payments :
         /\ ChainOps!validate_transaction(Utxos, p.tx)
         /\ MineFor(get_address(Payee), <<p.tx>>)
    /\ UNCHANGED <<key_file, generated, shown, payments>>

WalletInit ==
    /\ chain = <<create_genesis_block(0)>>
    /\ key_file = <<>>
    /\ generated = {}
    /\ shown = {}
    /\ payments = {}

WalletNext ==
    \/ NewWallet \/ NewWalletFails \/ MineToNewWallet \/ MineToAddress
    \/ \E amount \in Amounts : Send(amount)
    \/ Confirm

WalletSpec == WalletInit /\ [][WalletNext]_vars

-----------------------------------------------------------------------------
(* Properties.                                                             *)

\* Type invariant.
WalletTypeOK ==
    /\ Len(chain) \in 1..MaxBlocks
    /\ key_file \in {<<>>} \cup {<<k>> : k \in generated}
    /\ generated \subseteq Keys
    /\ shown \subseteq {get_address(k) : k \in generated}
    /\ Cardinality(payments) <= MaxSends

\* The UTXOs that payment p spends; their sum and that of its outputs, as
\* numbers that do not wrap.
Spent(p) ==
    {u \in p.utxos : utxo_key(u.tx_id, u.output_index) \in InputKeys(p.tx)}
In(p)  == SumFunction([u \in Spent(p) |-> u.amount])
Out(p) == SumFunction([i \in DOMAIN p.tx.outputs |-> p.tx.outputs[i].amount])

\* A payment takes from the sender what it gives to the payee, the change and
\* the fee, the payee gets the amount asked for and the sender all the rest:
\* as long as amount + fee fits the 64 bits it is computed in.
PaymentExact ==
    \A p \in payments : p.amount + Fee < Word =>
        /\ In(p) = Out(p) + Fee
        /\ Cardinality(Spent(p)) = Len(p.tx.inputs)
        /\ p.tx.outputs[1] = [address |-> get_address(Payee), amount |-> p.amount]
        /\ \A i \in 2..Len(p.tx.outputs) : p.tx.outputs[i].address = get_address(p.from)

\* A payment that was printed is one that nodes accept, and it stays so,
\* whatever else happens to the chain and to the key file, until a block
\* spends one of its inputs.
PaymentStaysValid ==
    \A p \in payments :
        \/ ChainOps!validate_transaction(Utxos, p.tx)
        \/ \E n \in DOMAIN chain : InputKeys(p.tx) \cap ChainOps!Spends(chain[n]) # {}
=============================================================================
