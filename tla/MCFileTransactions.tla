------------------------- MODULE MCFileTransactions --------------------------
(* Nothing to define: the one bound is a number, given in the cfg.           *)
EXTENDS FileTransactions
=============================================================================
