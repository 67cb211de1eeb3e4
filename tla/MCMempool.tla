----------------------------- MODULE MCMempool -----------------------------
(***************************************************************************)
(* Transactions for Mempool: payments by two wallets out of five coinbase  *)
(* outputs.  Some spend one output, some two, so that conflicts overlap    *)
(* without being transitive, and several pay the same fee.                 *)
(***************************************************************************)
EXTENDS Mempool

CONSTANTS Alice, Bob      \* key pairs

Coin(k, time) ==
    LET tx == coinbase_transaction(get_address(k), 4, time)
    IN  [tx_id |-> tx.hash, output_index |-> 0,
         address |-> get_address(k), amount |-> 4]

A1 == Coin(Alice, 1)
A2 == Coin(Alice, 2)
A3 == Coin(Alice, 3)
B1 == Coin(Bob, 4)
B2 == Coin(Bob, 5)

Pay(k, amount, fee, utxos) ==
    create_transaction(k, get_address(Bob), amount, fee, utxos, 6)

MCTxs ==
    {Pay(Alice, 2, 1, <<A1>>), Pay(Alice, 3, 1, <<A1>>),
     Pay(Alice, 5, 1, <<A1, A2>>),
     Pay(Alice, 2, 2, <<A2>>), Pay(Alice, 6, 2, <<A2, A3>>),
     Pay(Alice, 3, 0, <<A3>>),
     Pay(Bob, 1, 3, <<B1>>), Pay(Bob, 3, 0, <<B1>>),
     Pay(Bob, 5, 2, <<B1, B2>>), Pay(Bob, 2, 1, <<B2>>)}
=============================================================================
