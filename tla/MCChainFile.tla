---------------------------- MODULE MCChainFile ----------------------------
(***************************************************************************)
(* Users of the chain file: which processes, in which modes.               *)
(***************************************************************************)
EXTENDS ChainFile

\* One process at a time that may write, beside any that only read.
OneWriter == [p \in Procs |-> IF p = "writer" THEN {"run", "mine", "explorer"}
                              ELSE {"status", "wallet"}]
=============================================================================
