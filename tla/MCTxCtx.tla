-------------------------------- MODULE MCTxCtx -------------------------------
(* Small instances of TxCtx for TLC.                                       *)
EXTENDS TxCtx, TLC

Symmetry == Permutations(Write)

===============================================================================
