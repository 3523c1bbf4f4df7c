-------------------------------- MODULE MCTablero --------------------------------
(* Tablero for TLC: the constants are in the cfg.                          *)
EXTENDS Tablero

=============================================================================
