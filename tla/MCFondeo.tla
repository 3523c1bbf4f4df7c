------------------------------- MODULE MCFondeo -------------------------------
(* Fondeo on one or two stages, for TLC.                                   *)
EXTENDS Fondeo

(* Two outputs for each wallet: enough to fund a stage twice.              *)
MCSalidas == [n \in Partes |-> IF n = Mandante THEN {"m1", "m2"} ELSE {"c1", "c2"}]

=============================================================================
