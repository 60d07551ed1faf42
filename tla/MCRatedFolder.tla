---------------------------- MODULE MCRatedFolder ----------------------------
(* Nothing to define: the bounds are numbers, given in the cfg.              *)
EXTENDS RatedFolder
=============================================================================
