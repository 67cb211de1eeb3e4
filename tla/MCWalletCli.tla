---------------------------- MODULE MCWalletCli ----------------------------
(***************************************************************************)
(* A user with two key pairs.                                              *)
(***************************************************************************)
EXTENDS WalletCli, TLC

CONSTANTS k1, k2

\* Fresh key pairs are interchangeable.
KeySymmetry == Permutations(Keys)
=============================================================================
