--------------------------- MODULE MCDeferredClose ---------------------------
(* Nothing to define: the module has one numeric bound, given in the cfg.    *)
EXTENDS DeferredClose
=============================================================================
