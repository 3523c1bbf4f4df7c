--------------------------------- MODULE MCDkg ---------------------------------
(* Dkg for TLC: the constants are in the cfg.                              *)
EXTENDS Dkg

=============================================================================
