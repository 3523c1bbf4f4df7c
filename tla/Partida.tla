------------------------------ MODULE Partida ------------------------------
(***************************************************************************)
(* One installment (partida) of a deal, and the merge of two copies of it. *)
(* Source: crates/konstruado-core/src/acuerdo.rs, struct Partida and       *)
(* Partida::fusionar; crates/konstruado-core/src/partida.rs.               *)
(*                                                                         *)
(* An Option of the source is its value or an absence: 0 for a number,     *)
(* Nadie for a person, "" for a text.  A note keeps its author and its     *)
(* percentage; its words, its seal and every timestamp are left out.  A    *)
(* price is the piconero it fixes.  A transaction id is TRUE once there is *)
(* one.                                                                    *)
(***************************************************************************)
EXTENDS Integers, Sequences

CONSTANTS
  Mandante, Contratista, \* the two people of the deal
  Nadie,                 \* None, where the source has an Option of a person
  IdMenor,               \* which of the two has the smaller id
  Precios,               \* the prices a proposal may fix (USD deals)
  Pcts,                  \* the percentages the two may propose
  DetalleOferta,         \* the title of the published stages
  Textos                 \* the titles an edit may write

Partes == {Mandante, Contratista}

ASSUME PartesAssumption == /\ Mandante # Contratista
                           /\ Nadie \notin Partes
                           /\ IdMenor \in Partes
ASSUME PreciosAssumption == Precios \subseteq Nat \ {0}
ASSUME PctsAssumption == Pcts \subseteq 1 .. 100

-----------------------------------------------------------------------------
(* PartidaEstado: a state is its rank, so "further along" is "greater".    *)
Pendiente  == 0
Encerrando == 1
Encerrada  == 2
EnTrato    == 3
Pagada     == 4

Titulos == Textos \cup {DetalleOferta, ""}

Nota == [autor : Partes, porcentaje : 1 .. 100]

Recibo == [porcentaje : 0 .. 100, monto : Nat, acepto : Partes \cup {Nadie}]
SinRecibo == [porcentaje |-> 0, monto |-> 0, acepto |-> Nadie]

TipoPartida ==
  [detalle       : Titulos,
   estado        : Pendiente .. Pagada,
   propuesto     : 0 .. 100,
   pago          : 0 .. 100,
   turno         : Partes \cup {Nadie},
   notas         : Seq(Nota),
   encerrado_por : Partes \cup {Nadie},
   encerrar_seq  : Nat,
   recibo        : Recibo,
   monto         : Nat,
   fondeo_txid   : BOOLEAN,
   pago_txid     : BOOLEAN,
   precio        : Nat]

PendienteMonto(detalle, monto) ==
  [detalle       |-> detalle,
   estado        |-> Pendiente,
   propuesto     |-> 0,
   pago          |-> 0,
   turno         |-> Nadie,
   notas         |-> << >>,
   encerrado_por |-> Nadie,
   encerrar_seq  |-> 0,
   recibo        |-> SinRecibo,
   monto         |-> monto,
   fondeo_txid   |-> FALSE,
   pago_txid     |-> FALSE,
   precio        |-> 0]

NuevaPartida(detalle) == PendienteMonto(detalle, 0)

(* What each side locks: the stage's own amount, or the bond of the deal.  *)
Capital(p, garantia) == IF p.monto > 0 THEN p.monto ELSE garantia

MontoPct(total, pct) == (total * pct) \div 100

Otro(quien) == IF quien = Mandante THEN Contratista ELSE Mandante

-----------------------------------------------------------------------------
(* Partida::fusionar, pass by pass.  p is this node's copy, o the other's. *)

Llenar(mio, suyo, nada) == IF mio = nada THEN suyo ELSE mio

(* A lower id wins when both sides propose the lock at the same time.      *)
(* Mutant: the other proposal always wins.                                 *)
GanaOtraSiempre(p, o) == o.encerrado_por # Nadie

GanaOtra(p, o) == /\ o.encerrado_por # Nadie
                  /\ \/ p.encerrado_por = Nadie
                     \/ o.encerrado_por = IdMenor /\ p.encerrado_por # IdMenor

Cruce(p, o) == /\ o.encerrar_seq = p.encerrar_seq
               /\ p.estado = Encerrando
               /\ o.estado = Encerrando

TomarEncierre(p, o) ==
  [p EXCEPT !.estado        = o.estado,
            !.encerrado_por = o.encerrado_por,
            !.encerrar_seq  = o.encerrar_seq,
            !.precio        = IF o.estado = Pendiente THEN 0
                              ELSE IF o.precio # 0 THEN o.precio ELSE @]

(* First pass: the sequence number of the lock decides.                    *)
PasoSeq(p, o) ==
  IF o.encerrar_seq > p.encerrar_seq
  THEN IF p.estado < EnTrato
       THEN TomarEncierre(p, o)
       ELSE [p EXCEPT !.encerrar_seq = o.encerrar_seq]
  ELSE IF Cruce(p, o) /\ GanaOtra(p, o)
       THEN [p EXCEPT !.encerrado_por = o.encerrado_por, !.precio = o.precio]
  ELSE IF Cruce(p, o) /\ p.precio = 0 /\ o.encerrado_por = p.encerrado_por
       THEN [p EXCEPT !.precio = o.precio]
  ELSE p

(* Mutant: the thread of notes does not follow the state.                  *)
PasoAvanceSinHilo(p, o) ==
  [p EXCEPT !.estado = o.estado, !.propuesto = o.propuesto, !.pago = o.pago,
            !.turno = o.turno, !.recibo = Llenar(o.recibo, @, SinRecibo)]

(* Second pass, the other copy is further along: its state is taken.       *)
PasoAvance(p, o) ==
  [p EXCEPT !.estado        = o.estado,
            !.propuesto     = o.propuesto,
            !.pago          = o.pago,
            !.turno         = o.turno,
            !.notas         = IF Len(o.notas) >= Len(@) THEN o.notas ELSE @,
            !.encerrado_por = Llenar(o.encerrado_por, @, Nadie),
            !.recibo        = Llenar(o.recibo, @, SinRecibo),
            !.precio        = Llenar(@, o.precio, 0),
            !.fondeo_txid   = @ \/ o.fondeo_txid,
            !.pago_txid     = @ \/ o.pago_txid]

(* Mutant: the longer thread comes without the turn it left.               *)
PasoIgualSinTurno(p, o) ==
  LET largo == Len(o.notas) > Len(p.notas) IN
  [p EXCEPT !.notas     = IF largo THEN o.notas ELSE @,
            !.propuesto = IF largo THEN o.propuesto ELSE @]

(* Second pass, same state: the longer thread wins, gaps are filled.       *)
PasoIgual(p, o) ==
  LET largo == Len(o.notas) > Len(p.notas) IN
  [p EXCEPT !.notas         = IF largo THEN o.notas ELSE @,
            !.propuesto     = IF largo THEN o.propuesto ELSE @,
            !.turno         = IF largo THEN o.turno ELSE @,
            !.pago          = Llenar(@, o.pago, 0),
            !.encerrado_por = Llenar(@, o.encerrado_por, Nadie),
            !.recibo        = Llenar(@, o.recibo, SinRecibo),
            !.monto         = Llenar(@, o.monto, 0),
            !.precio        = IF p.estado = Pendiente THEN @
                              ELSE Llenar(@, o.precio, 0)]

(* Last pass, whenever the other copy was not further along.               *)
PasoResto(p, o) ==
  [p EXCEPT !.monto       = Llenar(@, o.monto, 0),
            !.turno       = IF p.estado = Pagada THEN Nadie ELSE @,
            !.detalle     = IF p.estado = Pendiente /\ o.estado = Pendiente
                            THEN Llenar(o.detalle, @, "") ELSE @,
            !.fondeo_txid = @ \/ o.fondeo_txid,
            !.pago_txid   = @ \/ o.pago_txid]

(* Mutant: a copy that differs is taken, further along or not.             *)
FusionarDistinto(p, o) ==
  LET q == PasoSeq([p EXCEPT !.detalle = Llenar(@, o.detalle, "")], o) IN
  IF o.estado # q.estado THEN PasoAvance(q, o) ELSE PasoResto(PasoIgual(q, o), o)

Fusionar(p, o) ==
  LET q == PasoSeq([p EXCEPT !.detalle = Llenar(@, o.detalle, "")], o) IN
  IF o.estado > q.estado THEN PasoAvance(q, o)
  ELSE IF o.estado = q.estado THEN PasoResto(PasoIgual(q, o), o)
  ELSE PasoResto(q, o)

(* Obra::fusionar_partidas: both lists are resized to n and merged.        *)
Ajustar(ps, n) ==
  [i \in 1 .. n |-> IF i <= Len(ps) THEN ps[i] ELSE NuevaPartida("")]

FusionarPartidas(ps, qs, n) ==
  [i \in 1 .. n |-> Fusionar(Ajustar(ps, n)[i], Ajustar(qs, n)[i])]

=============================================================================
