---------------------------- MODULE MCFullNode ----------------------------
(***************************************************************************)
(* A node that starts from a chain with two coins of Alice's, and the      *)
(* payments she makes with them.  The blocks of that chain came twice as   *)
(* fast as the target, so that the difficulty rises.                       *)
(***************************************************************************)
EXTENDS FullNode, TLC

CONSTANTS Alice, Bob      \* key pairs of wallets
CONSTANTS h1, h2          \* connections

Genesis == create_genesis_block(0)
Block1  == mine_block(Genesis, <<>>, get_address(Alice), 1, 4, 1)
Block2  == mine_block(Block1, <<>>, get_address(Alice), 1, 4, 2)

MCStartChain == <<Genesis, Block1, Block2>>

Coin(b) == [tx_id |-> b.transactions[1].hash, output_index |-> 0,
            address |-> get_address(Alice), amount |-> 4]

Pay(amount, utxos) ==
    create_transaction(Alice, get_address(Bob), amount, 1, utxos, 4)

First  == Pay(2, <<Coin(Block1)>>)
Second == Pay(2, <<Coin(Block2)>>)

OneTx    == {First}
TwoTxs   == {First, Second}

\* Alice's wallet balances what it sends, as SupplyConserved requires.
ASSUME AliceBalances == TransactionsBalanced

\* Connections are interchangeable: no operator chooses between them.
HandlerSymmetry == Permutations(Handlers)
=============================================================================
