------------------------------- MODULE MCRespaldo -------------------------------
(* Respaldo for TLC: the constants are in the cfg.                         *)
EXTENDS Respaldo

=============================================================================
