-------------------------------- MODULE Obra --------------------------------
(***************************************************************************)
(* A copy of a deal (obra), the operations the two people run on it, and   *)
(* the merge of two copies.  Source:                                       *)
(* crates/konstruado-core/src/acuerdo.rs, struct Obra.                     *)
(*                                                                         *)
(* An operation of the source that may fail is two operators here: Puede-X *)
(* is the condition under which it returns Ok, X is the copy it leaves.    *)
(* Names, keys, the seal of the words and timestamps are left out; the     *)
(* currency is fixed at publication and is the constant EsUsd.             *)
(***************************************************************************)
EXTENDS Partida

CONSTANTS
  TrabajoOferta,      \* the price of the whole job, as published
  GarantiaPublicada,  \* the bond the principal published
  Garantias,          \* the bonds the contractor may accept with
  MontosExtra,        \* the amounts an extra stage may carry
  EsUsd               \* the deal is in dollars: a proposal fixes a price

Divide(g) == g \in Nat \ {0} /\ TrabajoOferta % g = 0

ASSUME ObraAssumption ==
  /\ TrabajoOferta \in Nat \ {0}
  /\ Divide(GarantiaPublicada)
  /\ \A g \in Garantias : Divide(g)
  /\ MontosExtra \subseteq Nat \ {0}
  /\ EsUsd \in BOOLEAN

-----------------------------------------------------------------------------
(* EstadoObra, by rank.                                                    *)
Publicada  == 0
Contra     == 1
Rechazada  == 2
Acordada   == 3
EnMarcha   == 4
Abandonada == 5
Cerrada    == 6

Terminales == {Rechazada, Abandonada, Cerrada}

SinExtra == [detalle |-> "", monto |-> 0, por |-> Nadie]

TipoExtra == [detalle : Titulos, monto : Nat, por : Partes \cup {Nadie}]

TipoObra ==
  [estado     : Publicada .. Cerrada,
   trabajo    : Nat,
   garantia   : Nat \ {0},
   n_partidas : Nat,
   partidas   : Seq(TipoPartida),
   contra     : Nat,
   extra      : TipoExtra,
   extra_seq  : Nat,
   cierre     : Partes \cup {Nadie},
   cierre_seq : Nat]

NPartidas(trabajo, garantia) == trabajo \div garantia

Pendientes(n, detalle) == [i \in 1 .. n |-> NuevaPartida(detalle)]

(* Obra::desde_oferta: a different bond is a counter-offer.                *)
DesdeOferta(g) ==
  LET n == NPartidas(TrabajoOferta, g) IN
  [estado     |-> IF g # GarantiaPublicada THEN Contra ELSE Acordada,
   trabajo    |-> TrabajoOferta,
   garantia   |-> g,
   n_partidas |-> n,
   partidas   |-> Pendientes(n, DetalleOferta),
   contra     |-> IF g # GarantiaPublicada THEN g ELSE 0,
   extra      |-> SinExtra,
   extra_seq  |-> 0,
   cierre     |-> Nadie,
   cierre_seq |-> 0]

Indices(o) == DOMAIN o.partidas

(* Mutant: a proposed lock is not a risk.                                  *)
HayRiesgoEncerrada(o) == \E i \in Indices(o) : o.partidas[i].estado >= Encerrada

HayRiesgo(o) == \E i \in Indices(o) : o.partidas[i].estado >= Encerrando

TodasPagadas(ps) == \A i \in DOMAIN ps : ps[i].estado = Pagada

(* Obra::activa: the first stage that is not paid yet.                     *)
EsActiva(o, i) ==
  /\ i \in Indices(o)
  /\ o.partidas[i].estado # Pagada
  /\ \A j \in 1 .. i - 1 : o.partidas[j].estado = Pagada

-----------------------------------------------------------------------------
(* The counter-offer on the bond.                                          *)

PuedeConfirmarContra(o, quien) == quien = Mandante /\ o.contra # 0

ConfirmarContra(o, quien) ==
  LET n == NPartidas(TrabajoOferta, o.contra) IN
  [o EXCEPT !.contra     = 0,
            !.garantia   = o.contra,
            !.n_partidas = n,
            !.partidas   = Pendientes(n, DetalleOferta),
            !.estado     = Acordada]

PuedeRechazarContra(o, quien) == quien = Mandante /\ o.contra # 0

(* Mutant: the published bond comes back, the stages stay.                 *)
RechazarContraSinPartir(o, quien) ==
  [o EXCEPT !.contra = 0, !.estado = Rechazada, !.garantia = GarantiaPublicada]

(* The published bond comes back if it still divides the job; the titles   *)
(* of the stages are kept, each stage is new.                              *)
RechazarContra(o, quien) ==
  LET divide == o.trabajo > 0 /\ o.trabajo % GarantiaPublicada = 0
      n == NPartidas(o.trabajo, GarantiaPublicada) IN
  [o EXCEPT !.contra     = 0,
            !.estado     = Rechazada,
            !.garantia   = IF divide THEN GarantiaPublicada ELSE @,
            !.n_partidas = IF divide THEN n ELSE @,
            !.partidas   = IF divide
                           THEN [i \in 1 .. n |->
                                   NuevaPartida(Ajustar(@, n)[i].detalle)]
                           ELSE @]

-----------------------------------------------------------------------------
(* Locking a stage: one proposes, the other confirms, either may cancel.   *)

PuedeProponer(o, i, quien, precio) ==
  /\ i \in Indices(o)
  /\ o.partidas[i].estado = Pendiente
  /\ EsUsd <=> precio # 0

Propuesta(p, quien, precio) ==
  [p EXCEPT !.precio        = precio,
            !.estado        = Encerrando,
            !.encerrado_por = quien,
            !.encerrar_seq  = @ + 1]

Proponer(o, i, quien, precio) ==
  [o EXCEPT !.partidas[i] = Propuesta(@, quien, precio),
            !.estado      = EnMarcha]

PuedeConfirmar(o, i, quien) ==
  /\ i \in Indices(o)
  /\ o.partidas[i].estado = Encerrando
  /\ o.partidas[i].encerrado_por \notin {quien, Nadie}

Confirmada(p) == [p EXCEPT !.estado = Encerrada, !.encerrar_seq = @ + 1]

Confirmar(o, i, quien) == [o EXCEPT !.partidas[i] = Confirmada(@)]

ConFondeo(o, i) == [o EXCEPT !.partidas[i].fondeo_txid = TRUE]

PuedeCancelar(o, i, quien) ==
  /\ i \in Indices(o)
  /\ o.partidas[i].estado = Encerrando

Cancelada(p) ==
  [p EXCEPT !.estado        = Pendiente,
            !.encerrado_por = Nadie,
            !.precio        = 0,
            !.encerrar_seq  = @ + 1]

Cancelar(o, i, quien) == [o EXCEPT !.partidas[i] = Cancelada(@)]

-----------------------------------------------------------------------------
(* Agreeing on the percentage of a locked stage.                           *)

Anotar(p, quien, pct) ==
  [p EXCEPT !.notas     = Append(@, [autor |-> quien, porcentaje |-> pct]),
            !.propuesto = pct,
            !.turno     = Otro(quien)]

PuedeAvisar(o, i, quien, pct) ==
  /\ quien = Contratista
  /\ i \in Indices(o)
  /\ o.partidas[i].estado = Encerrada

AvisarTermino(o, i, quien, pct) ==
  [o EXCEPT !.partidas[i] = [Anotar(@, quien, pct) EXCEPT !.estado = EnTrato]]

(* Mutant: anyone may answer.                                              *)
LeTocaACualquiera(o, i, quien) ==
  i \in Indices(o) /\ o.partidas[i].estado = EnTrato

MeToca(o, i, quien) ==
  /\ i \in Indices(o)
  /\ o.partidas[i].estado = EnTrato
  /\ o.partidas[i].turno = quien

PuedeContraPago(o, i, quien, pct) ==
  MeToca(o, i, quien) /\ o.partidas[i].propuesto # pct

ContraPago(o, i, quien, pct) ==
  [o EXCEPT !.partidas[i] = Anotar(@, quien, pct)]

PuedeAceptarPago(o, i, quien) ==
  MeToca(o, i, quien) /\ o.partidas[i].propuesto # 0

(* The receipt is written here; the last paid stage closes the deal.       *)
AceptarPago(o, i, quien) ==
  LET p == o.partidas[i]
      recibo == [porcentaje |-> p.propuesto,
                 monto |-> MontoPct(Capital(p, o.garantia), p.propuesto),
                 acepto |-> quien]
      ps == [o.partidas EXCEPT ![i] = [@ EXCEPT !.pago   = p.propuesto,
                                                !.turno  = Nadie,
                                                !.estado = Pagada,
                                                !.recibo = recibo]]
  IN [o EXCEPT !.partidas = ps,
               !.estado   = IF TodasPagadas(ps) THEN Cerrada ELSE @]

ConPago(o, i) == [o EXCEPT !.partidas[i].pago_txid = TRUE]

-----------------------------------------------------------------------------
(* Titles and extra stages.                                                *)

PuedeEditar(o, i, quien) ==
  /\ o.estado \notin Terminales
  /\ i \in Indices(o)
  /\ o.partidas[i].estado = Pendiente

EditarDetalle(o, i, quien, texto) == [o EXCEPT !.partidas[i].detalle = texto]

ExtraEnCurso(o) == o.estado \in {Acordada, EnMarcha}

PuedeProponerExtra(o, quien) == ExtraEnCurso(o) /\ o.extra = SinExtra

ProponerExtra(o, quien, detalle, monto) ==
  [o EXCEPT !.extra = [detalle |-> detalle, monto |-> monto, por |-> quien],
            !.extra_seq = @ + 1]

PuedeResponderExtra(o, quien) ==
  /\ ExtraEnCurso(o)
  /\ o.extra # SinExtra
  /\ o.extra.por # quien

AceptarExtra(o, quien) ==
  [o EXCEPT !.extra      = SinExtra,
            !.extra_seq  = @ + 1,
            !.trabajo    = @ + o.extra.monto,
            !.n_partidas = @ + 1,
            !.partidas   = Append(@, PendienteMonto(o.extra.detalle, o.extra.monto))]

RechazarExtra(o, quien) == [o EXCEPT !.extra = SinExtra, !.extra_seq = @ + 1]

-----------------------------------------------------------------------------
(* Cutting the deal: alone when nothing is locked, else both must agree.   *)

PuedeAbandonar(o, quien) ==
  /\ o.estado \notin Terminales
  /\ HayRiesgo(o) => o.cierre = Nadie

Abandonar(o, quien) ==
  IF HayRiesgo(o)
  THEN [o EXCEPT !.cierre = quien, !.cierre_seq = @ + 1]
  ELSE [o EXCEPT !.estado = Abandonada,
                 !.extra = SinExtra, !.extra_seq = @ + 1,
                 !.cierre = Nadie,   !.cierre_seq = @ + 1]

PuedeResponderCierre(o, quien) == o.cierre \notin {quien, Nadie}

AceptarCierre(o, quien) ==
  [o EXCEPT !.estado = Abandonada,
            !.extra = SinExtra, !.extra_seq = @ + 1,
            !.cierre = Nadie,   !.cierre_seq = @ + 1]

RechazarCierre(o, quien) == [o EXCEPT !.cierre = Nadie, !.cierre_seq = @ + 1]

-----------------------------------------------------------------------------
(* Obra::fusionar, pass by pass.  a is this node's copy, b the other's.    *)

Mayor(m, n) == IF m > n THEN m ELSE n

(* The state of the deal and its stages.                                   *)
FusionEstado(a, b) ==
  IF b.estado > a.estado
  THEN [a EXCEPT !.estado     = b.estado,
                 !.garantia   = b.garantia,
                 !.trabajo    = b.trabajo,
                 !.n_partidas = b.n_partidas,
                 !.contra     = b.contra,
                 !.partidas   = FusionarPartidas(@, b.partidas, b.n_partidas)]
  ELSE [a EXCEPT !.contra   = IF a.estado = b.estado THEN Llenar(@, b.contra, 0)
                              ELSE @,
                 !.partidas = IF a.n_partidas = b.n_partidas
                              THEN FusionarPartidas(@, b.partidas, b.n_partidas)
                              ELSE @]

(* A copy with more stages brings an accepted extra; otherwise the newer   *)
(* extra_seq decides.  A terminal deal has neither extra nor closure.      *)
FusionExtra(a, b) ==
  LET crece == /\ b.n_partidas > a.n_partidas
               /\ b.estado >= a.estado
               /\ a.estado \notin {Rechazada, Abandonada}
      c == IF crece
           THEN [a EXCEPT !.trabajo    = b.trabajo,
                          !.n_partidas = b.n_partidas,
                          !.partidas   = FusionarPartidas(@, b.partidas, b.n_partidas),
                          !.extra      = SinExtra,
                          !.extra_seq  = Mayor(@, b.extra_seq)]
           ELSE IF b.extra_seq > a.extra_seq
           THEN [a EXCEPT !.extra = b.extra, !.extra_seq = b.extra_seq]
           ELSE a
  IN IF c.estado \in Terminales
     THEN [c EXCEPT !.extra = SinExtra, !.cierre = Nadie] ELSE c

FusionCierre(a, b) ==
  IF a.estado = Abandonada
  THEN [a EXCEPT !.cierre = Nadie, !.cierre_seq = Mayor(@, b.cierre_seq)]
  ELSE IF b.cierre_seq > a.cierre_seq
  THEN [a EXCEPT !.cierre = b.cierre, !.cierre_seq = b.cierre_seq]
  ELSE a

(* A locked stage sets the deal going; all stages paid close it.           *)
FusionFin(a) ==
  LET marcha == /\ a.estado \notin {Rechazada, Abandonada}
                /\ HayRiesgo(a)
                /\ a.estado < EnMarcha
  IN [a EXCEPT !.estado = IF TodasPagadas(a.partidas) /\ a.partidas # << >>
                          THEN Cerrada
                          ELSE IF marcha THEN EnMarcha ELSE @]

FusionarObra(a, b) ==
  FusionFin(FusionCierre(FusionExtra(FusionEstado(a, b), b), b))

=============================================================================
