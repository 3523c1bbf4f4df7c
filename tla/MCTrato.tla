------------------------------- MODULE MCTrato -------------------------------
(***************************************************************************)
(* Trato on a small deal, for TLC.  The .cfg files give the people, the    *)
(* prices, the percentages and the bounds of each run.                     *)
(***************************************************************************)
EXTENDS Trato, Functions

CONSTANT Rele \* a third node that stores and announces the deal

Suma(o) == FoldFunction(+, 0, [i \in Indices(o) |-> Capital(o.partidas[i], o.garantia)])

(* The price of the job is the sum of what its stages lock on each side,   *)
(* in every copy that any sequence of counter-offers, extras and merges    *)
(* may build: garantia, n_partidas, trabajo and the amounts of the stages  *)
(* are merged field by field (Obra::fusionar).                             *)
MontosCuadran == \A o \in anunciadas : o.trabajo = Suma(o)

(* Either the terms of the deal move (counter-offer on the bond, extra) or  *)
(* its titles and its closure do: both at once are too many copies for TLC. *)
MontosMovidos == \E o \in anunciadas : o.extra # SinExtra \/ o.garantia # GarantiaPublicada
Cortandose == \E o \in anunciadas :
                o.cierre_seq > 0 \/ \E i \in Indices(o) : o.partidas[i].detalle \in Textos
              \/ ~NadieCancelo
UnaCosaPorVez == ~(MontosMovidos /\ Cortandose)

=============================================================================
