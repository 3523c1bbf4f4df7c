--------------------------------- MODULE MCRed ---------------------------------
(* Red for TLC: the constants are in the cfg.                              *)
EXTENDS Red

=============================================================================
