---------------------------- MODULE MCCotizacion ----------------------------
(* One node and its price, on a small instance.                            *)
EXTENDS Cotizacion

=============================================================================
