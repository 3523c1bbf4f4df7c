---------------------------- MODULE TratoProofs ----------------------------
(***************************************************************************)
(* What holds of every deal, for any people, relays, prices, percentages   *)
(* and bounds: the types, and that a locked or paid stage was really       *)
(* funded or paid on the chain.  The invariant Inv is inductive: besides   *)
(* the types it says where copies come from (CopiasAnunciadas), what a     *)
(* transaction id in a box means (CajasEnCadena), and that every copy ever *)
(* announced is backed by the chain (Respaldada).                          *)
(*                                                                         *)
(* First come the facts it needs about stages and deals.  Each pass of     *)
(* Partida::fusionar keeps the type, and the state and the percentage that *)
(* it leaves are related to those of the two copies.  Each operation of a  *)
(* deal, run under its condition, keeps the type of a copy and the length  *)
(* of its list of stages, and moves the stages as Sigue says.  The merge   *)
(* of two deals keeps both, and every stage of the result is in any set    *)
(* that the merge of stages does not leave.                                *)
(***************************************************************************)
EXTENDS Trato, SequenceTheorems, TLAPS

-----------------------------------------------------------------------------
(* Filling a gap stays in the set the two values are in.                   *)
LEMMA LlenarTipo ==
  ASSUME NEW S, NEW mio \in S, NEW suyo \in S, NEW nada
  PROVE  Llenar(mio, suyo, nada) \in S
  BY DEF Llenar

(* A new stage has the type of a stage (Partida::pendiente_monto).         *)
LEMMA PendienteTipo ==
  ASSUME NEW detalle \in Titulos, NEW monto \in Nat
  PROVE  PendienteMonto(detalle, monto) \in TipoPartida
<1>1. /\ Pendiente \in Pendiente .. Pagada
      /\ << >> \in Seq(Nota)
      /\ SinRecibo \in Recibo
  BY DEF Pendiente, Pagada, SinRecibo, Recibo
<1> QED
  BY <1>1 DEF PendienteMonto, TipoPartida

-----------------------------------------------------------------------------
(* The first pass keeps the type.                                          *)
LEMMA PasoSeqTipo ==
  ASSUME NEW p \in TipoPartida, NEW o \in TipoPartida
  PROVE  PasoSeq(p, o) \in TipoPartida
<1>1. TomarEncierre(p, o) \in TipoPartida
  BY ZenonT(60) DEF TomarEncierre, TipoPartida
<1>2. [p EXCEPT !.encerrar_seq = o.encerrar_seq] \in TipoPartida
  BY DEF TipoPartida
<1>3. [p EXCEPT !.encerrado_por = o.encerrado_por, !.precio = o.precio] \in TipoPartida
  BY DEF TipoPartida
<1>4. [p EXCEPT !.precio = o.precio] \in TipoPartida
  BY DEF TipoPartida
<1> QED
  BY <1>1, <1>2, <1>3, <1>4 DEF PasoSeq

(* The second pass keeps the type when the other copy is further along.    *)
LEMMA PasoAvanceTipo ==
  ASSUME NEW p \in TipoPartida, NEW o \in TipoPartida
  PROVE  PasoAvance(p, o) \in TipoPartida
<1> DEFINE notas  == IF Len(o.notas) >= Len(p.notas) THEN o.notas ELSE p.notas
           por    == Llenar(o.encerrado_por, p.encerrado_por, Nadie)
           recibo == Llenar(o.recibo, p.recibo, SinRecibo)
           precio == Llenar(p.precio, o.precio, 0)
           fondeo == p.fondeo_txid \/ o.fondeo_txid
           gasto  == p.pago_txid \/ o.pago_txid
<1>1. /\ o.estado \in Pendiente .. Pagada
      /\ o.propuesto \in 0 .. 100
      /\ o.pago \in 0 .. 100
      /\ o.turno \in Partes \cup {Nadie}
      /\ notas \in Seq(Nota)
  BY DEF TipoPartida
<1>2. /\ por \in Partes \cup {Nadie}
      /\ recibo \in Recibo
      /\ precio \in Nat
  BY LlenarTipo DEF TipoPartida
<1>3. fondeo \in BOOLEAN /\ gasto \in BOOLEAN
  OBVIOUS
<1>4. PasoAvance(p, o) =
        [p EXCEPT !.estado = o.estado, !.propuesto = o.propuesto,
                  !.pago = o.pago, !.turno = o.turno, !.notas = notas,
                  !.encerrado_por = por, !.recibo = recibo, !.precio = precio,
                  !.fondeo_txid = fondeo, !.pago_txid = gasto]
  BY DEF PasoAvance
<1> HIDE DEF notas, por, recibo, precio, fondeo, gasto
<1> DEFINE q == [p EXCEPT !.estado = o.estado, !.propuesto = o.propuesto,
                          !.pago = o.pago, !.turno = o.turno, !.notas = notas]
<1>5. q \in TipoPartida
  BY <1>1 DEF TipoPartida
<1>6. [q EXCEPT !.encerrado_por = por, !.recibo = recibo, !.precio = precio,
                !.fondeo_txid = fondeo, !.pago_txid = gasto] \in TipoPartida
  <2> HIDE DEF q
  <2> QED
    BY <1>2, <1>3, <1>5 DEF TipoPartida
<1> QED
  BY <1>4, <1>6

(* The second pass keeps the type when both are in the same state.         *)
LEMMA PasoIgualTipo ==
  ASSUME NEW p \in TipoPartida, NEW o \in TipoPartida
  PROVE  PasoIgual(p, o) \in TipoPartida
<1> DEFINE largo     == Len(o.notas) > Len(p.notas)
           notas     == IF largo THEN o.notas ELSE p.notas
           propuesto == IF largo THEN o.propuesto ELSE p.propuesto
           turno     == IF largo THEN o.turno ELSE p.turno
           pago      == Llenar(p.pago, o.pago, 0)
           por       == Llenar(p.encerrado_por, o.encerrado_por, Nadie)
           recibo    == Llenar(p.recibo, o.recibo, SinRecibo)
           monto     == Llenar(p.monto, o.monto, 0)
           precio    == IF p.estado = Pendiente THEN p.precio
                        ELSE Llenar(p.precio, o.precio, 0)
<1>1. /\ notas \in Seq(Nota)
      /\ propuesto \in 0 .. 100
      /\ turno \in Partes \cup {Nadie}
  BY DEF TipoPartida
<1>2. /\ pago \in 0 .. 100
      /\ por \in Partes \cup {Nadie}
      /\ recibo \in Recibo
      /\ monto \in Nat
      /\ precio \in Nat
  BY LlenarTipo DEF TipoPartida
<1>3. PasoIgual(p, o) =
        [p EXCEPT !.notas = notas, !.propuesto = propuesto, !.turno = turno,
                  !.pago = pago, !.encerrado_por = por, !.recibo = recibo,
                  !.monto = monto, !.precio = precio]
  BY DEF PasoIgual
<1> HIDE DEF largo, notas, propuesto, turno, pago, por, recibo, monto, precio
<1> DEFINE q == [p EXCEPT !.notas = notas, !.propuesto = propuesto,
                          !.turno = turno, !.pago = pago]
<1>4. q \in TipoPartida
  BY <1>1, <1>2 DEF TipoPartida
<1>5. [q EXCEPT !.encerrado_por = por, !.recibo = recibo,
                !.monto = monto, !.precio = precio] \in TipoPartida
  <2> HIDE DEF q
  <2> QED
    BY <1>2, <1>4 DEF TipoPartida
<1> QED
  BY <1>3, <1>5

(* The last pass keeps the type.                                           *)
LEMMA PasoRestoTipo ==
  ASSUME NEW p \in TipoPartida, NEW o \in TipoPartida
  PROVE  PasoResto(p, o) \in TipoPartida
<1> DEFINE monto   == Llenar(p.monto, o.monto, 0)
           turno   == IF p.estado = Pagada THEN Nadie ELSE p.turno
           detalle == IF p.estado = Pendiente /\ o.estado = Pendiente
                      THEN Llenar(o.detalle, p.detalle, "") ELSE p.detalle
           fondeo  == p.fondeo_txid \/ o.fondeo_txid
           gasto   == p.pago_txid \/ o.pago_txid
<1>1. /\ monto \in Nat
      /\ turno \in Partes \cup {Nadie}
      /\ detalle \in Titulos
  BY LlenarTipo DEF TipoPartida
<1>2. fondeo \in BOOLEAN /\ gasto \in BOOLEAN
  OBVIOUS
<1>3. PasoResto(p, o) =
        [p EXCEPT !.monto = monto, !.turno = turno, !.detalle = detalle,
                  !.fondeo_txid = fondeo, !.pago_txid = gasto]
  BY DEF PasoResto
<1> HIDE DEF monto, turno, detalle, fondeo, gasto
<1> QED
  BY <1>1, <1>2, <1>3, ZenonT(60) DEF TipoPartida

-----------------------------------------------------------------------------
(* What each pass does to the state and the percentage paid.               *)
LEMMA PasosEstado ==
  ASSUME NEW p \in TipoPartida, NEW o \in TipoPartida
  PROVE  /\ PasoSeq(p, o).estado = IF /\ o.encerrar_seq > p.encerrar_seq
                                      /\ p.estado < EnTrato
                                   THEN o.estado ELSE p.estado
         /\ PasoSeq(p, o).pago = p.pago
         /\ PasoAvance(p, o).estado = o.estado
         /\ PasoAvance(p, o).pago = o.pago
         /\ PasoResto(PasoIgual(p, o), o).estado = p.estado
         /\ PasoResto(PasoIgual(p, o), o).pago = Llenar(p.pago, o.pago, 0)
         /\ PasoResto(p, o).estado = p.estado
         /\ PasoResto(p, o).pago = p.pago
<1>1. /\ TomarEncierre(p, o).estado = o.estado
      /\ TomarEncierre(p, o).pago = p.pago
  BY DEF TomarEncierre, TipoPartida
<1>2. /\ PasoSeq(p, o).estado = IF /\ o.encerrar_seq > p.encerrar_seq
                                   /\ p.estado < EnTrato
                                THEN o.estado ELSE p.estado
      /\ PasoSeq(p, o).pago = p.pago
  BY <1>1 DEF PasoSeq, TipoPartida
<1>3. /\ PasoAvance(p, o).estado = o.estado
      /\ PasoAvance(p, o).pago = o.pago
  BY DEF PasoAvance, TipoPartida
<1>4. /\ PasoIgual(p, o).estado = p.estado
      /\ PasoIgual(p, o).pago = Llenar(p.pago, o.pago, 0)
  BY DEF PasoIgual, TipoPartida
<1>5. \A q \in TipoPartida : /\ PasoResto(q, o).estado = q.estado
                             /\ PasoResto(q, o).pago = q.pago
  BY DEF PasoResto, TipoPartida
<1> QED
  BY <1>2, <1>3, <1>4, <1>5, PasoIgualTipo

(* The copy the first pass starts from.                                    *)
LEMMA ConDetalle ==
  ASSUME NEW p \in TipoPartida, NEW o \in TipoPartida
  PROVE  LET d == [p EXCEPT !.detalle = Llenar(@, o.detalle, "")] IN
         /\ d \in TipoPartida
         /\ d.estado = p.estado
         /\ d.pago = p.pago
         /\ d.encerrar_seq = p.encerrar_seq
<1>1. Llenar(p.detalle, o.detalle, "") \in Titulos
  BY LlenarTipo DEF TipoPartida
<1> QED
  BY <1>1 DEF TipoPartida

(* Merging two copies of a stage gives a stage (Partida::fusionar).        *)
LEMMA FusionarTipo ==
  ASSUME NEW p \in TipoPartida, NEW o \in TipoPartida
  PROVE  Fusionar(p, o) \in TipoPartida
<1> DEFINE d == [p EXCEPT !.detalle = Llenar(@, o.detalle, "")]
           q == PasoSeq(d, o)
<1>1. q \in TipoPartida
  BY ConDetalle, PasoSeqTipo
<1> HIDE DEF q
<1>2. /\ PasoAvance(q, o) \in TipoPartida
      /\ PasoResto(PasoIgual(q, o), o) \in TipoPartida
      /\ PasoResto(q, o) \in TipoPartida
  BY <1>1, PasoAvanceTipo, PasoIgualTipo, PasoRestoTipo
<1> QED
  BY <1>2 DEF Fusionar, q

(* The merge takes its state from one of the two copies, never goes back   *)
(* from a stage that is being agreed on, and takes the percentage of a     *)
(* paid stage from a copy that is paid.                                    *)
LEMMA FusionarEstado ==
  ASSUME NEW p \in TipoPartida, NEW o \in TipoPartida
  PROVE  LET c == Fusionar(p, o) IN
         /\ c.estado \in {p.estado, o.estado}
         /\ p.estado >= EnTrato => c.estado >= p.estado
         /\ (p.estado = Pagada /\ p.pago # 0) => c.pago = p.pago
         /\ (c.estado = Pagada /\ c.pago = 0)
              => \/ p.estado = Pagada /\ p.pago = 0
                 \/ o.estado = Pagada /\ o.pago = 0
<1> DEFINE d == [p EXCEPT !.detalle = Llenar(@, o.detalle, "")]
           q == PasoSeq(d, o)
           c == Fusionar(p, o)
<1>1. /\ d \in TipoPartida
      /\ d.estado = p.estado
      /\ d.pago = p.pago
      /\ d.encerrar_seq = p.encerrar_seq
  BY ConDetalle
<1> HIDE DEF d
<1>2. /\ q \in TipoPartida
      /\ q.estado = IF o.encerrar_seq > p.encerrar_seq /\ p.estado < EnTrato
                    THEN o.estado ELSE p.estado
      /\ q.pago = p.pago
  BY <1>1, PasoSeqTipo, PasosEstado
<1> HIDE DEF q
<1>3. c = IF o.estado > q.estado THEN PasoAvance(q, o)
          ELSE IF o.estado = q.estado THEN PasoResto(PasoIgual(q, o), o)
          ELSE PasoResto(q, o)
  BY DEF Fusionar, d, q
<1>4. /\ c.estado = IF o.estado > q.estado THEN o.estado ELSE q.estado
      /\ c.pago = IF o.estado > q.estado THEN o.pago
                  ELSE IF o.estado = q.estado THEN Llenar(p.pago, o.pago, 0)
                  ELSE p.pago
  BY <1>2, <1>3, PasosEstado
<1>5. /\ p.estado \in 0 .. 4 /\ o.estado \in 0 .. 4
      /\ p.pago \in 0 .. 100 /\ o.pago \in 0 .. 100
  BY DEF TipoPartida, Pendiente, Pagada
<1> HIDE DEF c
<1>6. /\ c.estado \in {p.estado, o.estado}
      /\ p.estado >= EnTrato => c.estado >= p.estado
      /\ (p.estado = Pagada /\ p.pago # 0) => c.pago = p.pago
      /\ (c.estado = Pagada /\ c.pago = 0)
           => \/ p.estado = Pagada /\ p.pago = 0
              \/ o.estado = Pagada /\ o.pago = 0
  BY <1>2, <1>4, <1>5 DEF EnTrato, Pagada, Llenar
<1> QED
  BY <1>6 DEF c

-----------------------------------------------------------------------------

(* A copy as the operations keep it: typed, n_partidas counts its stages.  *)
Formada(o) == o \in TipoObra /\ Len(o.partidas) = o.n_partidas

(* What a button may do to the stages: none gets locked, none gets paid.   *)
Sigue(o, c) ==
  \A i \in Indices(c) :
    \/ c.partidas[i].estado < Encerrada
    \/ /\ i \in Indices(o)
       /\ o.partidas[i].estado >= Encerrada
       /\ c.partidas[i].estado < Pagada
    \/ /\ i \in Indices(o)
       /\ c.partidas[i].estado = o.partidas[i].estado
       /\ c.partidas[i].pago = o.partidas[i].pago

-----------------------------------------------------------------------------
(* A function on 1 .. n is a sequence of length n.                         *)
LEMMA Lista ==
  ASSUME NEW S, NEW n \in Nat, NEW f \in [1 .. n -> S]
  PROVE  f \in Seq(S) /\ Len(f) = n /\ DOMAIN f = 1 .. n
<1>1. f \in Seq(S)
  BY SeqDef
<1>2. Len(f) \in Nat /\ DOMAIN f = 1 .. Len(f)
  BY <1>1, LenProperties
<1> QED
  BY <1>1, <1>2

(* The stages of a copy, as a function on their numbers.                   *)
LEMMA FormadaIndices ==
  ASSUME NEW o, Formada(o)
  PROVE  /\ o.n_partidas \in Nat
         /\ Indices(o) = 1 .. o.n_partidas
         /\ o.partidas \in [1 .. o.n_partidas -> TipoPartida]
         /\ \A i \in Indices(o) : o.partidas[i] \in TipoPartida
<1>1. o.partidas \in Seq(TipoPartida) /\ o.n_partidas \in Nat
  BY DEF Formada, TipoObra
<1> QED
  BY <1>1, LenProperties DEF Formada, Indices

(* Replacing one stage keeps a copy well formed and the other stages.      *)
LEMMA OtraPartida ==
  ASSUME NEW o, Formada(o), NEW i \in Indices(o), NEW p \in TipoPartida
  PROVE  LET c == [o EXCEPT !.partidas = [@ EXCEPT ![i] = p]] IN
         /\ Formada(c)
         /\ Indices(c) = Indices(o)
         /\ c.partidas[i] = p
         /\ \A j \in Indices(o) : j # i => c.partidas[j] = o.partidas[j]
<1> DEFINE ps == [o.partidas EXCEPT ![i] = p]
<1>1. /\ o.n_partidas \in Nat
      /\ Indices(o) = 1 .. o.n_partidas
      /\ o.partidas \in [1 .. o.n_partidas -> TipoPartida]
  BY FormadaIndices
<1>2. /\ ps \in [1 .. o.n_partidas -> TipoPartida]
      /\ ps[i] = p
      /\ \A j \in Indices(o) : j # i => ps[j] = o.partidas[j]
  BY <1>1
<1>3. ps \in Seq(TipoPartida) /\ Len(ps) = o.n_partidas /\ DOMAIN ps = Indices(o)
  BY <1>1, <1>2, Lista
<1> HIDE DEF ps
<1> DEFINE c == [o EXCEPT !.partidas = ps]
<1>4. Formada(c) /\ c.partidas = ps
  BY <1>3 DEF Formada, TipoObra
<1> HIDE DEF c
<1>5. Indices(c) = Indices(o)
  BY <1>3, <1>4 DEF Indices
<1> QED
  BY <1>2, <1>4, <1>5 DEF c, ps

(* The number of stages is a natural number.                               *)
LEMMA NPartidasNat ==
  ASSUME NEW trabajo \in Nat, NEW garantia \in Nat \ {0}
  PROVE  NPartidas(trabajo, garantia) \in Nat
  BY DEF NPartidas

(* A percentage of an amount is an amount (monto_pct).                     *)
LEMMA MontoPctNat ==
  ASSUME NEW total \in Nat, NEW pct \in Nat
  PROVE  MontoPct(total, pct) \in Nat
<1>1. total * pct \in Nat
  OBVIOUS
<1> QED
  BY <1>1 DEF MontoPct

(* The ranks of the states.                                                *)
LEMMA Rangos ==
  /\ Pendiente = 0 /\ Encerrando = 1 /\ Encerrada = 2 /\ EnTrato = 3 /\ Pagada = 4
  /\ Publicada = 0 /\ Contra = 1 /\ Rechazada = 2 /\ Acordada = 3
  /\ EnMarcha = 4 /\ Abandonada = 5 /\ Cerrada = 6
  BY DEF Pendiente, Encerrando, Encerrada, EnTrato, Pagada, Publicada, Contra,
         Rechazada, Acordada, EnMarcha, Abandonada, Cerrada

LEMMA EstadoNat ==
  ASSUME NEW o, Formada(o)
  PROVE  o.estado \in Nat
BY Rangos DEF Formada, TipoObra

LEMMA EstadoPartida ==
  ASSUME NEW p \in TipoPartida
  PROVE  p.estado \in Nat
BY Rangos, SMTT(30) DEF TipoPartida

-----------------------------------------------------------------------------
(* A list of new stages.                                                   *)
LEMMA PendientesTipo ==
  ASSUME NEW n \in Nat, NEW detalle \in Titulos
  PROVE  /\ Pendientes(n, detalle) \in [1 .. n -> TipoPartida]
         /\ \A i \in 1 .. n : Pendientes(n, detalle)[i].estado < Encerrada
<1>1. NuevaPartida(detalle) \in TipoPartida /\ NuevaPartida(detalle).estado = Pendiente
  BY PendienteTipo DEF NuevaPartida, PendienteMonto
<1> QED
  BY <1>1, Rangos DEF Pendientes

(* The first copy of a deal (Obra::desde_oferta).                          *)
LEMMA DesdeOfertaFormada ==
  ASSUME NEW g \in Garantias
  PROVE  /\ Formada(DesdeOferta(g))
         /\ \A i \in Indices(DesdeOferta(g)) : DesdeOferta(g).partidas[i].estado < Encerrada
<1> DEFINE n == NPartidas(TrabajoOferta, g)
           ps == Pendientes(n, DetalleOferta)
<1>1. g \in Nat \ {0} /\ TrabajoOferta \in Nat /\ DetalleOferta \in Titulos
  BY ObraAssumption DEF Divide, Titulos
<1>2. n \in Nat
  BY <1>1, NPartidasNat
<1>3. /\ ps \in [1 .. n -> TipoPartida]
      /\ \A i \in 1 .. n : ps[i].estado < Encerrada
  BY <1>1, <1>2, PendientesTipo
<1>4. ps \in Seq(TipoPartida) /\ Len(ps) = n /\ DOMAIN ps = 1 .. n
  BY <1>2, <1>3, Lista
<1> HIDE DEF n, ps
<1>5. SinExtra \in TipoExtra
  BY DEF SinExtra, TipoExtra, Titulos
<1>6. DesdeOferta(g) =
        [estado     |-> IF g # GarantiaPublicada THEN Contra ELSE Acordada,
         trabajo    |-> TrabajoOferta,
         garantia   |-> g,
         n_partidas |-> n,
         partidas   |-> ps,
         contra     |-> IF g # GarantiaPublicada THEN g ELSE 0,
         extra      |-> SinExtra,
         extra_seq  |-> 0,
         cierre     |-> Nadie,
         cierre_seq |-> 0]
  BY DEF DesdeOferta, n, ps
<1> QED
  BY <1>1, <1>2, <1>3, <1>4, <1>5, <1>6, Rangos DEF Formada, TipoObra, Indices

(* The counter-offer is confirmed: all the stages are new.                 *)
LEMMA ConfirmarContraBien ==
  ASSUME NEW o, Formada(o), NEW quien \in Partes, PuedeConfirmarContra(o, quien)
  PROVE  Formada(ConfirmarContra(o, quien)) /\ Sigue(o, ConfirmarContra(o, quien))
<1> DEFINE n == NPartidas(TrabajoOferta, o.contra)
           ps == Pendientes(n, DetalleOferta)
           c == [o EXCEPT !.contra = 0, !.garantia = o.contra, !.n_partidas = n,
                          !.partidas = ps, !.estado = Acordada]
<1>1. o.contra \in Nat \ {0} /\ TrabajoOferta \in Nat /\ DetalleOferta \in Titulos
  BY ObraAssumption DEF Formada, TipoObra, PuedeConfirmarContra, Titulos
<1>2. n \in Nat
  BY <1>1, NPartidasNat
<1>3. /\ ps \in [1 .. n -> TipoPartida]
      /\ \A i \in 1 .. n : ps[i].estado < Encerrada
  BY <1>1, <1>2, PendientesTipo
<1>4. ps \in Seq(TipoPartida) /\ Len(ps) = n /\ DOMAIN ps = 1 .. n
  BY <1>2, <1>3, Lista
<1>5. c = ConfirmarContra(o, quien)
  BY DEF ConfirmarContra
<1> HIDE DEF n, ps
<1>6. o \in TipoObra /\ Acordada \in Publicada .. Cerrada
  BY Rangos DEF Formada
<1>7. c \in TipoObra
  BY <1>1, <1>2, <1>4, <1>6 DEF TipoObra
<1>8. c.partidas = ps /\ c.n_partidas = n
  BY <1>6 DEF TipoObra
<1> HIDE DEF c
<1> QED
  BY <1>3, <1>4, <1>5, <1>7, <1>8 DEF Formada, Sigue, Indices

(* Resizing a list of stages fills it up with new ones.                    *)
LEMMA AjustarTipo ==
  ASSUME NEW o, Formada(o), NEW n \in Nat
  PROVE  Ajustar(o.partidas, n) \in [1 .. n -> TipoPartida]
<1>1. NuevaPartida("") \in TipoPartida
  BY PendienteTipo DEF NuevaPartida, Titulos
<1>2. Len(o.partidas) = o.n_partidas
  BY DEF Formada
<1>3. \A i \in 1 .. n : i <= Len(o.partidas) => o.partidas[i] \in TipoPartida
  BY <1>2, FormadaIndices
<1> QED
  BY <1>1, <1>3 DEF Ajustar

(* The counter-offer is rejected: the stages are new or stay.              *)
LEMMA RechazarContraBien ==
  ASSUME NEW o, Formada(o), NEW quien \in Partes, PuedeRechazarContra(o, quien)
  PROVE  Formada(RechazarContra(o, quien)) /\ Sigue(o, RechazarContra(o, quien))
<1> DEFINE n == NPartidas(o.trabajo, GarantiaPublicada)
           ps == [i \in 1 .. n |-> NuevaPartida(Ajustar(o.partidas, n)[i].detalle)]
           divide == o.trabajo > 0 /\ o.trabajo % GarantiaPublicada = 0
           g2 == IF divide THEN GarantiaPublicada ELSE o.garantia
           n2 == IF divide THEN n ELSE o.n_partidas
           ps2 == IF divide THEN ps ELSE o.partidas
           c == [o EXCEPT !.contra = 0, !.estado = Rechazada, !.garantia = g2,
                          !.n_partidas = n2, !.partidas = ps2]
<1>1. o.trabajo \in Nat /\ o.garantia \in Nat \ {0} /\ GarantiaPublicada \in Nat \ {0}
  BY ObraAssumption DEF Formada, TipoObra, Divide
<1>2. n \in Nat
  BY <1>1, NPartidasNat
<1>3. /\ ps \in [1 .. n -> TipoPartida]
      /\ \A i \in 1 .. n : ps[i].estado < Encerrada
  <2>1. \A d \in Titulos : /\ NuevaPartida(d) \in TipoPartida
                          /\ NuevaPartida(d).estado = Pendiente
    BY PendienteTipo DEF NuevaPartida, PendienteMonto
  <2>2. \A i \in 1 .. n : Ajustar(o.partidas, n)[i].detalle \in Titulos
    <3> HIDE DEF n
    <3>1. \A i \in 1 .. n : Ajustar(o.partidas, n)[i] \in TipoPartida
      BY <1>2, AjustarTipo
    <3> QED
      BY <3>1 DEF TipoPartida
  <2> HIDE DEF n
  <2> QED
    BY <2>1, <2>2, Rangos
<1>4. c = RechazarContra(o, quien)
  BY DEF RechazarContra
<1>5. g2 \in Nat \ {0} /\ n2 \in Nat /\ ps2 \in [1 .. n2 -> TipoPartida]
  <2> HIDE DEF n, ps, divide
  <2> QED
    BY <1>1, <1>2, <1>3, FormadaIndices
<1>6. \A i \in 1 .. n2 : ps2[i].estado < Encerrada \/ ps2 = o.partidas
  <2> HIDE DEF n, ps, divide
  <2> QED
    BY <1>3
<1> HIDE DEF n, ps, divide, g2, n2, ps2
<1>7. ps2 \in Seq(TipoPartida) /\ Len(ps2) = n2 /\ DOMAIN ps2 = 1 .. n2
  BY <1>5, Lista
<1>8. o \in TipoObra /\ Rechazada \in Publicada .. Cerrada
  BY Rangos DEF Formada
<1>9. c \in TipoObra
  BY <1>5, <1>7, <1>8 DEF TipoObra
<1>10. c.partidas = ps2 /\ c.n_partidas = n2
  BY <1>8 DEF TipoObra
<1> HIDE DEF c
<1> QED
  BY <1>4, <1>6, <1>7, <1>9, <1>10 DEF Formada, Sigue, Indices

-----------------------------------------------------------------------------
(* The operations on one stage.                                            *)

(* What follows from replacing one stage, for the other operations.        *)
LEMMA SigueUna ==
  ASSUME NEW o, Formada(o), NEW i \in Indices(o), NEW p \in TipoPartida,
         \/ p.estado < Encerrada
         \/ o.partidas[i].estado >= Encerrada /\ p.estado < Pagada
         \/ p.estado = o.partidas[i].estado /\ p.pago = o.partidas[i].pago
  PROVE  LET c == [o EXCEPT !.partidas = [@ EXCEPT ![i] = p]] IN
         Formada(c) /\ Sigue(o, c)
<1> DEFINE c == [o EXCEPT !.partidas = [@ EXCEPT ![i] = p]]
<1>1. /\ Formada(c)
      /\ Indices(c) = Indices(o)
      /\ c.partidas[i] = p
      /\ \A j \in Indices(o) : j # i => c.partidas[j] = o.partidas[j]
  BY OtraPartida
<1> HIDE DEF c
<1>2. Sigue(o, c)
  BY <1>1 DEF Sigue
<1> QED
  BY <1>1, <1>2 DEF c

(* The lock is proposed (encerrar_proponer_con).                           *)
LEMMA PropuestaTipo ==
  ASSUME NEW p \in TipoPartida, NEW quien \in Partes, NEW precio \in Nat
  PROVE  /\ Propuesta(p, quien, precio) \in TipoPartida
         /\ Propuesta(p, quien, precio).estado < Encerrada
<1> DEFINE seq == p.encerrar_seq + 1
           q == [p EXCEPT !.precio = precio, !.estado = Encerrando,
                          !.encerrado_por = quien, !.encerrar_seq = seq]
<1>1. Encerrando \in Pendiente .. Pagada /\ seq \in Nat /\ quien \in Partes \cup {Nadie}
  BY Rangos DEF TipoPartida
<1>2. q = Propuesta(p, quien, precio)
  BY DEF Propuesta, TipoPartida
<1> HIDE DEF seq
<1>3. q \in TipoPartida /\ q.estado = Encerrando
  BY <1>1 DEF TipoPartida
<1> HIDE DEF q
<1> QED
  BY <1>2, <1>3, Rangos

(* Proposing a lock (encerrar_proponer) locks and pays nothing.            *)
LEMMA ProponerBien ==
  ASSUME NEW o, Formada(o), NEW i, NEW quien \in Partes, NEW precio \in Nat,
         PuedeProponer(o, i, quien, precio)
  PROVE  Formada(Proponer(o, i, quien, precio)) /\ Sigue(o, Proponer(o, i, quien, precio))
<1> DEFINE p == Propuesta(o.partidas[i], quien, precio)
           c == [o EXCEPT !.partidas = [@ EXCEPT ![i] = p]]
           d == [c EXCEPT !.estado = EnMarcha]
<1>1. i \in Indices(o) /\ o.partidas[i] \in TipoPartida
  BY FormadaIndices DEF PuedeProponer
<1>2. p \in TipoPartida /\ p.estado < Encerrada
  BY <1>1, PropuestaTipo
<1>3. d = Proponer(o, i, quien, precio)
  BY DEF Proponer
<1> HIDE DEF p
<1>4. Formada(c) /\ Sigue(o, c)
  BY <1>1, <1>2, SigueUna
<1> HIDE DEF c
<1>5. EnMarcha \in Publicada .. Cerrada
  BY Rangos
<1>6. Formada(d) /\ d.partidas = c.partidas
  BY <1>4, <1>5 DEF Formada, TipoObra
<1> HIDE DEF d
<1> QED
  BY <1>3, <1>4, <1>6 DEF Sigue, Indices

(* The proposal is taken back (encerrar_cancelar).                         *)
LEMMA CanceladaTipo ==
  ASSUME NEW p \in TipoPartida
  PROVE  Cancelada(p) \in TipoPartida /\ Cancelada(p).estado < Encerrada
<1> DEFINE seq == p.encerrar_seq + 1
           q == [p EXCEPT !.estado = Pendiente, !.encerrado_por = Nadie,
                          !.precio = 0, !.encerrar_seq = seq]
<1>1. Pendiente \in Pendiente .. Pagada /\ seq \in Nat /\ Nadie \in Partes \cup {Nadie}
  BY Rangos DEF TipoPartida
<1>2. q = Cancelada(p)
  BY DEF Cancelada, TipoPartida
<1> HIDE DEF seq
<1>3. q \in TipoPartida /\ q.estado = Pendiente
  BY <1>1 DEF TipoPartida
<1> HIDE DEF q
<1> QED
  BY <1>2, <1>3, Rangos

(* Cancelling a lock (encerrar_cancelar) locks and pays nothing.           *)
LEMMA CancelarBien ==
  ASSUME NEW o, Formada(o), NEW i, NEW quien \in Partes, PuedeCancelar(o, i, quien)
  PROVE  Formada(Cancelar(o, i, quien)) /\ Sigue(o, Cancelar(o, i, quien))
<1> DEFINE p == Cancelada(o.partidas[i])
<1>1. i \in Indices(o) /\ o.partidas[i] \in TipoPartida
  BY FormadaIndices DEF PuedeCancelar
<1>2. p \in TipoPartida /\ p.estado < Encerrada
  BY <1>1, CanceladaTipo
<1>3. Cancelar(o, i, quien) = [o EXCEPT !.partidas = [@ EXCEPT ![i] = p]]
  BY DEF Cancelar
<1> HIDE DEF p
<1> QED
  BY <1>1, <1>2, <1>3, SigueUna

(* A note is appended (avisar_termino, contra_pago).                       *)
LEMMA AnotarTipo ==
  ASSUME NEW p \in TipoPartida, NEW quien \in Partes, NEW pct \in Pcts
  PROVE  /\ Anotar(p, quien, pct) \in TipoPartida
         /\ Anotar(p, quien, pct).estado = p.estado
<1> DEFINE nota == [autor |-> quien, porcentaje |-> pct]
           notas == Append(p.notas, nota)
           turno == Otro(quien)
<1>1. pct \in 1 .. 100 /\ turno \in Partes
  BY PctsAssumption DEF Otro, Partes
<1>2. nota \in Nota
  BY <1>1 DEF Nota
<1>3. notas \in Seq(Nota)
  BY <1>2 DEF TipoPartida
<1>4. Anotar(p, quien, pct) = [p EXCEPT !.notas = notas, !.propuesto = pct, !.turno = turno]
  BY DEF Anotar
<1>5. pct \in 0 .. 100 /\ turno \in Partes \cup {Nadie}
  BY <1>1
<1> HIDE DEF notas, turno
<1> QED
  BY <1>3, <1>4, <1>5, ZenonT(60) DEF TipoPartida

(* Reporting a stage finished (avisar_termino) pays nothing.               *)
LEMMA AvisarBien ==
  ASSUME NEW o, Formada(o), NEW i, NEW quien \in Partes, NEW pct \in Pcts,
         PuedeAvisar(o, i, quien, pct)
  PROVE  Formada(AvisarTermino(o, i, quien, pct)) /\ Sigue(o, AvisarTermino(o, i, quien, pct))
<1> DEFINE a == Anotar(o.partidas[i], quien, pct)
           p == [a EXCEPT !.estado = EnTrato]
<1>1. i \in Indices(o) /\ o.partidas[i] \in TipoPartida /\ o.partidas[i].estado = Encerrada
  BY FormadaIndices DEF PuedeAvisar
<1>2. a \in TipoPartida
  BY <1>1, AnotarTipo
<1>3. AvisarTermino(o, i, quien, pct) = [o EXCEPT !.partidas = [@ EXCEPT ![i] = p]]
  BY DEF AvisarTermino
<1> HIDE DEF a
<1>4. EnTrato \in Pendiente .. Pagada
  BY Rangos
<1>5. p \in TipoPartida /\ p.estado = EnTrato
  BY <1>2, <1>4 DEF TipoPartida
<1> HIDE DEF p
<1>6. o.partidas[i].estado >= Encerrada /\ p.estado < Pagada
  BY <1>1, <1>5, Rangos
<1> QED
  BY <1>1, <1>3, <1>5, <1>6, SigueUna

(* Countering the percentage (contra_pago) pays nothing.                   *)
LEMMA ContraPagoBien ==
  ASSUME NEW o, Formada(o), NEW i, NEW quien \in Partes, NEW pct \in Pcts,
         PuedeContraPago(o, i, quien, pct)
  PROVE  Formada(ContraPago(o, i, quien, pct)) /\ Sigue(o, ContraPago(o, i, quien, pct))
<1> DEFINE p == Anotar(o.partidas[i], quien, pct)
<1>1. i \in Indices(o) /\ o.partidas[i] \in TipoPartida /\ o.partidas[i].estado = EnTrato
  BY FormadaIndices DEF PuedeContraPago, MeToca
<1>2. p \in TipoPartida /\ p.estado = EnTrato
  BY <1>1, AnotarTipo
<1>3. ContraPago(o, i, quien, pct) = [o EXCEPT !.partidas = [@ EXCEPT ![i] = p]]
  BY DEF ContraPago
<1> HIDE DEF p
<1>4. o.partidas[i].estado >= Encerrada /\ p.estado < Pagada
  BY <1>1, <1>2, Rangos
<1> QED
  BY <1>1, <1>2, <1>3, <1>4, SigueUna

(* A title is edited (editar_detalle).                                     *)
LEMMA EditarBien ==
  ASSUME NEW o, Formada(o), NEW i, NEW quien \in Partes, NEW texto \in Textos,
         PuedeEditar(o, i, quien)
  PROVE  Formada(EditarDetalle(o, i, quien, texto)) /\ Sigue(o, EditarDetalle(o, i, quien, texto))
<1> DEFINE p == [o.partidas[i] EXCEPT !.detalle = texto]
<1>1. i \in Indices(o) /\ o.partidas[i] \in TipoPartida /\ texto \in Titulos
  BY FormadaIndices DEF PuedeEditar, Titulos
<1>2. p \in TipoPartida /\ p.estado = o.partidas[i].estado /\ p.pago = o.partidas[i].pago
  BY <1>1 DEF TipoPartida
<1>3. EditarDetalle(o, i, quien, texto) = [o EXCEPT !.partidas = [@ EXCEPT ![i] = p]]
  BY DEF EditarDetalle
<1> HIDE DEF p
<1> QED
  BY <1>1, <1>2, <1>3, SigueUna

(* The fields of the thread of notes.                                      *)
MismoHilo(p, q) ==
  /\ q.notas = p.notas /\ q.propuesto = p.propuesto /\ q.turno = p.turno
  /\ q.pago = p.pago /\ q.recibo = p.recibo

(* The fields of its lock: who proposed it, the price.                     *)
MismoPrecio(p, q) == q.encerrado_por = p.encerrado_por /\ q.precio = p.precio

(* q is the stage p of the deal o, accepted by quien.                      *)
Aceptada(o, p, q, quien) ==
  /\ q.notas = p.notas /\ q.propuesto = p.propuesto /\ q.turno = Nadie
  /\ q.pago = p.propuesto /\ q.monto = p.monto
  /\ q.recibo = [porcentaje |-> p.propuesto,
                 monto |-> MontoPct(Capital(p, o.garantia), p.propuesto),
                 acepto |-> quien]
  /\ MismoPrecio(p, q) /\ q.encerrar_seq = p.encerrar_seq

(* The lock is confirmed, with its transaction (encerrar_confirmar,        *)
(* aplicar_hechos_monero): that stage is locked, the others stay.          *)
LEMMA ConfirmarBien ==
  ASSUME NEW o, Formada(o), NEW i, NEW quien \in Partes, PuedeConfirmar(o, i, quien)
  PROVE  LET c == ConFondeo(Confirmar(o, i, quien), i) IN
         /\ Formada(c)
         /\ Indices(c) = Indices(o)
         /\ c.partidas[i].estado = Encerrada
         /\ MismoHilo(o.partidas[i], c.partidas[i])
         /\ MismoPrecio(o.partidas[i], c.partidas[i])
         /\ c.partidas[i].encerrar_seq = o.partidas[i].encerrar_seq + 1
         /\ c.partidas[i].monto = o.partidas[i].monto
         /\ \A j \in Indices(o) : j # i => c.partidas[j] = o.partidas[j]
         /\ c.estado = o.estado /\ c.garantia = o.garantia /\ c.contra = o.contra
         /\ c.extra = o.extra
<1> DEFINE p == o.partidas[i]
           seq == p.encerrar_seq + 1
           q == [p EXCEPT !.estado = Encerrada, !.encerrar_seq = seq]
           r == [q EXCEPT !.fondeo_txid = TRUE]
           d == [o EXCEPT !.partidas = [@ EXCEPT ![i] = q]]
           c == [d EXCEPT !.partidas = [@ EXCEPT ![i] = r]]
<1>1. i \in Indices(o) /\ p \in TipoPartida
  BY FormadaIndices DEF PuedeConfirmar
<1>2. Confirmada(p) = q
  BY <1>1 DEF Confirmada, TipoPartida
<1>3. Confirmar(o, i, quien) = d
  BY <1>2 DEF Confirmar
<1>4. Encerrada \in Pendiente .. Pagada /\ seq \in Nat
  BY <1>1, Rangos DEF TipoPartida
<1> HIDE DEF p, seq
<1>5. /\ q \in TipoPartida /\ q.estado = Encerrada /\ MismoHilo(p, q) /\ q.monto = p.monto
      /\ MismoPrecio(p, q) /\ q.encerrar_seq = seq
  BY <1>1, <1>4 DEF TipoPartida, MismoHilo, MismoPrecio
<1> HIDE DEF q
<1>6. /\ r \in TipoPartida /\ r.estado = Encerrada /\ MismoHilo(q, r) /\ r.monto = q.monto
      /\ MismoPrecio(q, r) /\ r.encerrar_seq = q.encerrar_seq
  BY <1>5 DEF TipoPartida, MismoHilo, MismoPrecio
<1>7. /\ Formada(d) /\ Indices(d) = Indices(o)
      /\ d.partidas[i] = q
      /\ \A j \in Indices(o) : j # i => d.partidas[j] = o.partidas[j]
  BY <1>1, <1>5, OtraPartida
<1>8. ConFondeo(Confirmar(o, i, quien), i) = c
  BY <1>3, <1>7 DEF ConFondeo
<1> HIDE DEF d, r
<1>9. /\ Formada(c) /\ Indices(c) = Indices(d)
      /\ c.partidas[i] = r
      /\ \A j \in Indices(d) : j # i => c.partidas[j] = d.partidas[j]
  BY <1>1, <1>6, <1>7, OtraPartida
<1>10. /\ c.estado = o.estado /\ c.garantia = o.garantia /\ c.contra = o.contra
       /\ c.extra = o.extra
  BY DEF Formada, TipoObra, c, d
<1>11. MismoHilo(p, r) /\ MismoPrecio(p, r)
  BY <1>5, <1>6 DEF MismoHilo, MismoPrecio
<1> HIDE DEF c
<1> QED
  BY <1>5, <1>6, <1>7, <1>8, <1>9, <1>10, <1>11 DEF p, seq

(* The percentage is accepted, with its transaction (aceptar_pago,         *)
(* aplicar_hechos_monero): that stage is paid, the others stay.            *)
LEMMA AceptarBien ==
  ASSUME NEW o, Formada(o), NEW i, NEW quien \in Partes, PuedeAceptarPago(o, i, quien)
  PROVE  LET c == ConPago(AceptarPago(o, i, quien), i) IN
         /\ Formada(c)
         /\ Indices(c) = Indices(o)
         /\ c.partidas[i].estado = Pagada
         /\ c.partidas[i].pago # 0
         /\ \A j \in Indices(o) : j # i => c.partidas[j] = o.partidas[j]
         /\ Aceptada(o, o.partidas[i], c.partidas[i], quien)
         /\ c.estado = IF TodasPagadas(c.partidas) THEN Cerrada ELSE o.estado
         /\ c.garantia = o.garantia /\ c.contra = o.contra /\ c.extra = o.extra
<1> DEFINE p == o.partidas[i]
           recibo == [porcentaje |-> p.propuesto,
                      monto |-> MontoPct(Capital(p, o.garantia), p.propuesto),
                      acepto |-> quien]
           q == [p EXCEPT !.pago = p.propuesto, !.turno = Nadie,
                          !.estado = Pagada, !.recibo = recibo]
           r == [q EXCEPT !.pago_txid = TRUE]
           ps == [o.partidas EXCEPT ![i] = q]
           estado == IF TodasPagadas(ps) THEN Cerrada ELSE o.estado
           d == [o EXCEPT !.partidas = [@ EXCEPT ![i] = q]]
           e == [d EXCEPT !.estado = estado]
           c == [e EXCEPT !.partidas = [@ EXCEPT ![i] = r]]
<1>1. /\ i \in Indices(o) /\ p \in TipoPartida
      /\ p.propuesto # 0 /\ o \in TipoObra
  BY FormadaIndices DEF PuedeAceptarPago, MeToca, Formada
<1>2. /\ p.propuesto \in 0 .. 100 /\ p.propuesto \in Nat
      /\ Capital(p, o.garantia) \in Nat
  <2> HIDE DEF p
  <2>1. p.propuesto \in 0 .. 100 /\ p.monto \in Nat
    BY <1>1 DEF TipoPartida
  <2>2. o.garantia \in Nat
    BY <1>1 DEF TipoObra
  <2> QED
    BY <2>1, <2>2 DEF Capital
<1>3. recibo \in Recibo
  <2> DEFINE capital == Capital(p, o.garantia)
  <2>1. MontoPct(capital, p.propuesto) \in Nat
    <3> HIDE DEF capital, p
    <3> QED
      BY <1>2, MontoPctNat DEF capital
  <2> QED
    BY <1>2, <2>1 DEF Recibo
<1>4. AceptarPago(o, i, quien) = e
  BY DEF AceptarPago
<1>5. Pagada \in Pendiente .. Pagada /\ Cerrada \in Publicada .. Cerrada
  BY Rangos
<1> HIDE DEF p, recibo
<1>6. q \in TipoPartida /\ q.estado = Pagada /\ q.pago = p.propuesto
  BY <1>1, <1>2, <1>3, <1>5 DEF TipoPartida
<1>7. estado \in Publicada .. Cerrada
  BY <1>1, <1>5 DEF TipoObra
<1>14. Aceptada(o, p, q, quien)
  BY <1>1, <1>2, <1>3 DEF TipoPartida, Aceptada, MismoPrecio, recibo
<1> HIDE DEF q, ps, estado
<1>8. /\ r \in TipoPartida /\ r.estado = Pagada /\ r.pago = p.propuesto
      /\ Aceptada(o, p, r, quien)
  BY <1>6, <1>14, ZenonT(60) DEF TipoPartida, Aceptada, MismoPrecio
<1>9. /\ Formada(d) /\ Indices(d) = Indices(o)
      /\ d.partidas[i] = q
      /\ \A j \in Indices(o) : j # i => d.partidas[j] = o.partidas[j]
  BY <1>1, <1>6, OtraPartida
<1> HIDE DEF d
<1>10. Formada(e) /\ e.partidas = d.partidas /\ e.estado = estado
  BY <1>7, <1>9 DEF Formada, TipoObra
<1> HIDE DEF e
<1>11. Indices(e) = Indices(d)
  BY <1>10 DEF Indices
<1>12. ConPago(AceptarPago(o, i, quien), i) = c
  BY <1>4, <1>9, <1>10 DEF ConPago
<1> HIDE DEF r
<1>13. /\ Formada(c) /\ Indices(c) = Indices(e)
       /\ c.partidas[i] = r
       /\ \A j \in Indices(e) : j # i => c.partidas[j] = e.partidas[j]
  BY <1>1, <1>8, <1>9, <1>10, <1>11, OtraPartida
<1>15. /\ c.estado = e.estado /\ c.garantia = e.garantia /\ c.contra = e.contra
       /\ c.extra = e.extra
  BY <1>10 DEF Formada, TipoObra
<1>16. e.garantia = o.garantia /\ e.contra = o.contra /\ e.extra = o.extra
  BY <1>1 DEF TipoObra, d, e
<1> HIDE DEF c
<1>17. TodasPagadas(ps) <=> TodasPagadas(c.partidas)
  <2>1. /\ DOMAIN ps = Indices(o) /\ DOMAIN c.partidas = Indices(o)
        /\ ps[i] = q /\ \A j \in Indices(o) : j # i => ps[j] = o.partidas[j]
    BY <1>1, <1>9, <1>11, <1>13 DEF Indices, ps
  <2>2. \A j \in Indices(o) : ps[j].estado = c.partidas[j].estado
    BY <1>6, <1>8, <1>9, <1>10, <1>11, <1>13, <2>1
  <2> QED
    BY <2>1, <2>2 DEF TodasPagadas
<1> QED
  BY <1>1, <1>8, <1>9, <1>10, <1>11, <1>12, <1>13, <1>15, <1>16, <1>17 DEF p, estado

-----------------------------------------------------------------------------
(* Extras and closures.                                                    *)

(* An operation that leaves the list of stages alone.                      *)
LEMMA MismasPartidas ==
  ASSUME NEW o, Formada(o), NEW c \in TipoObra,
         c.partidas = o.partidas, c.n_partidas = o.n_partidas
  PROVE  Formada(c) /\ Sigue(o, c)
  BY DEF Formada, Sigue, Indices

(* The absence of an extra has the type of an extra.                       *)
LEMMA SinExtraTipo == SinExtra \in TipoExtra
  BY DEF SinExtra, TipoExtra, Titulos

(* Proposing an extra stage (proponer_extra) leaves the stages alone.      *)
LEMMA ProponerExtraBien ==
  ASSUME NEW o, Formada(o), NEW quien \in Partes, NEW monto \in Nat
  PROVE  LET c == ProponerExtra(o, quien, DetalleOferta, monto) IN
         Formada(c) /\ Sigue(o, c)
<1> DEFINE extra == [detalle |-> DetalleOferta, monto |-> monto, por |-> quien]
           seq == o.extra_seq + 1
           c == [o EXCEPT !.extra = extra, !.extra_seq = seq]
<1>1. o \in TipoObra
  BY DEF Formada
<1>2. extra \in TipoExtra /\ seq \in Nat
  <2>1. extra \in TipoExtra
    BY DEF TipoExtra, Titulos
  <2>2. seq \in Nat
    BY <1>1 DEF TipoObra
  <2> QED
    BY <2>1, <2>2
<1>3. c = ProponerExtra(o, quien, DetalleOferta, monto)
  BY <1>1 DEF ProponerExtra, TipoObra
<1> HIDE DEF extra, seq
<1>4. c \in TipoObra /\ c.partidas = o.partidas /\ c.n_partidas = o.n_partidas
  BY <1>1, <1>2 DEF TipoObra
<1> HIDE DEF c
<1>5. Formada(c) /\ Sigue(o, c)
  BY <1>4, MismasPartidas
<1> QED
  BY <1>3, <1>5

(* Rejecting an extra stage (rechazar_extra) leaves the stages alone.      *)
LEMMA RechazarExtraBien ==
  ASSUME NEW o, Formada(o), NEW quien \in Partes
  PROVE  Formada(RechazarExtra(o, quien)) /\ Sigue(o, RechazarExtra(o, quien))
<1> DEFINE seq == o.extra_seq + 1
           c == [o EXCEPT !.extra = SinExtra, !.extra_seq = seq]
<1>1. o \in TipoObra
  BY DEF Formada
<1>2. seq \in Nat
  BY <1>1 DEF TipoObra
<1>3. c = RechazarExtra(o, quien)
  BY <1>1 DEF RechazarExtra, TipoObra
<1> HIDE DEF seq
<1>4. c \in TipoObra /\ c.partidas = o.partidas /\ c.n_partidas = o.n_partidas
  BY <1>1, <1>2, SinExtraTipo DEF TipoObra
<1> HIDE DEF c
<1>5. Formada(c) /\ Sigue(o, c)
  BY <1>4, MismasPartidas
<1> QED
  BY <1>3, <1>5

(* An accepted extra is a new stage at the end of the list.                *)
LEMMA AceptarExtraBien ==
  ASSUME NEW o, Formada(o), NEW quien \in Partes
  PROVE  Formada(AceptarExtra(o, quien)) /\ Sigue(o, AceptarExtra(o, quien))
<1> DEFINE p == PendienteMonto(o.extra.detalle, o.extra.monto)
           n == o.n_partidas + 1
           ps == Append(o.partidas, p)
           t == o.trabajo + o.extra.monto
           s == o.extra_seq + 1
           c == [o EXCEPT !.extra = SinExtra, !.extra_seq = s, !.trabajo = t,
                          !.n_partidas = n, !.partidas = ps]
<1>1. o \in TipoObra /\ Len(o.partidas) = o.n_partidas
  BY DEF Formada
<1>2. o.extra.detalle \in Titulos /\ o.extra.monto \in Nat
  BY <1>1 DEF TipoObra, TipoExtra
<1>3. p \in TipoPartida
  BY <1>2, PendienteTipo
<1>4. p.estado = Pendiente
  BY DEF PendienteMonto
<1> HIDE DEF p
<1>5. /\ o.partidas \in Seq(TipoPartida) /\ o.n_partidas \in Nat
      /\ t \in Nat /\ n \in Nat /\ s \in Nat
  BY <1>1, <1>2, SMTT(30) DEF TipoObra
<1>6. /\ ps \in Seq(TipoPartida) /\ Len(ps) = n
      /\ \A i \in 1 .. n : ps[i] = IF i <= o.n_partidas THEN o.partidas[i] ELSE p
  BY <1>1, <1>3, <1>5
<1>7. c = AceptarExtra(o, quien)
  BY <1>1 DEF AceptarExtra, TipoObra, p
<1> HIDE DEF n, ps, t, s
<1>8. c \in TipoObra /\ c.partidas = ps /\ c.n_partidas = n
  BY <1>1, <1>5, <1>6, SinExtraTipo DEF TipoObra
<1> HIDE DEF c
<1>9. Indices(c) = 1 .. n /\ Indices(o) = 1 .. o.n_partidas
  BY <1>5, <1>6, <1>8, FormadaIndices, LenProperties DEF Indices
<1>10. Sigue(o, c)
  BY <1>4, <1>5, <1>6, <1>8, <1>9, Rangos DEF Sigue, n
<1> QED
  BY <1>6, <1>7, <1>8, <1>10 DEF Formada

(* The deal is cut, or its closure proposed (Obra::abandonar).             *)
LEMMA CortarBien ==
  ASSUME NEW o, Formada(o), NEW quien \in Partes
  PROVE  /\ Formada(AceptarCierre(o, quien)) /\ Sigue(o, AceptarCierre(o, quien))
         /\ Formada(RechazarCierre(o, quien)) /\ Sigue(o, RechazarCierre(o, quien))
         /\ Formada(Abandonar(o, quien)) /\ Sigue(o, Abandonar(o, quien))
<1> DEFINE x == o.extra_seq + 1
           y == o.cierre_seq + 1
           a == [o EXCEPT !.estado = Abandonada, !.extra = SinExtra,
                          !.extra_seq = x, !.cierre = Nadie, !.cierre_seq = y]
           r == [o EXCEPT !.cierre = Nadie, !.cierre_seq = y]
           p == [o EXCEPT !.cierre = quien, !.cierre_seq = y]
<1>1. o \in TipoObra /\ Abandonada \in Publicada .. Cerrada
  BY Rangos DEF Formada
<1>2. x \in Nat /\ y \in Nat
  BY <1>1 DEF TipoObra
<1>3. a = AceptarCierre(o, quien)
  BY <1>1 DEF AceptarCierre, TipoObra
<1>4. r = RechazarCierre(o, quien)
  BY <1>1 DEF RechazarCierre, TipoObra
<1>5. Abandonar(o, quien) = IF HayRiesgo(o) THEN p ELSE a
  BY <1>1 DEF Abandonar, TipoObra
<1> HIDE DEF x, y
<1>6. a \in TipoObra /\ a.partidas = o.partidas /\ a.n_partidas = o.n_partidas
  BY <1>1, <1>2, SinExtraTipo DEF TipoObra
<1>7. r \in TipoObra /\ r.partidas = o.partidas /\ r.n_partidas = o.n_partidas
  BY <1>1, <1>2 DEF TipoObra
<1>8. p \in TipoObra /\ p.partidas = o.partidas /\ p.n_partidas = o.n_partidas
  BY <1>1, <1>2 DEF TipoObra
<1> HIDE DEF a, r, p
<1>9. /\ Formada(a) /\ Sigue(o, a)
      /\ Formada(r) /\ Sigue(o, r)
      /\ Formada(p) /\ Sigue(o, p)
  BY <1>6, <1>7, <1>8, MismasPartidas
<1> QED
  BY <1>3, <1>4, <1>5, <1>9

-----------------------------------------------------------------------------
(* The merge of two copies.                                                *)

(* The merged list of stages (Obra::fusionar_partidas).                    *)
LEMMA FusionarPartidasTipo ==
  ASSUME NEW a, Formada(a), NEW b, Formada(b), NEW n \in Nat
  PROVE  LET ps == FusionarPartidas(a.partidas, b.partidas, n) IN
         /\ ps \in [1 .. n -> TipoPartida]
         /\ ps \in Seq(TipoPartida) /\ Len(ps) = n
<1> DEFINE ps == FusionarPartidas(a.partidas, b.partidas, n)
<1>1. /\ Ajustar(a.partidas, n) \in [1 .. n -> TipoPartida]
      /\ Ajustar(b.partidas, n) \in [1 .. n -> TipoPartida]
  BY AjustarTipo
<1>2. ps \in [1 .. n -> TipoPartida]
  BY <1>1, FusionarTipo DEF FusionarPartidas
<1> HIDE DEF ps
<1>3. ps \in Seq(TipoPartida) /\ Len(ps) = n
  BY <1>2, Lista
<1> QED
  BY <1>2, <1>3 DEF ps

(* The first pass: the stages are a's, or both lists merged.               *)
LEMMA FusionEstadoForma ==
  ASSUME NEW a, Formada(a), NEW b, Formada(b)
  PROVE  LET c == FusionEstado(a, b) IN
         /\ Formada(c)
         /\ \/ /\ c.n_partidas = a.n_partidas
               /\ c.partidas = a.partidas
            \/ /\ c.n_partidas = b.n_partidas
               /\ c.partidas = FusionarPartidas(a.partidas, b.partidas, b.n_partidas)
<1> DEFINE ps == FusionarPartidas(a.partidas, b.partidas, b.n_partidas)
           c == FusionEstado(a, b)
<1>1. a \in TipoObra /\ b \in TipoObra /\ Len(a.partidas) = a.n_partidas
  BY DEF Formada
<1>2. b.n_partidas \in Nat
  BY <1>1 DEF TipoObra
<1>3. ps \in Seq(TipoPartida) /\ Len(ps) = b.n_partidas
  BY <1>2, FusionarPartidasTipo
<1>4. CASE b.estado > a.estado
  <2> DEFINE d == [a EXCEPT !.estado     = b.estado,
                            !.garantia   = b.garantia,
                            !.trabajo    = b.trabajo,
                            !.n_partidas = b.n_partidas,
                            !.contra     = b.contra,
                            !.partidas   = ps]
  <2>1. c = d
    BY <1>4 DEF FusionEstado
  <2> HIDE DEF ps, c
  <2>2. /\ b.estado \in Publicada .. Cerrada /\ b.garantia \in Nat \ {0}
        /\ b.trabajo \in Nat /\ b.contra \in Nat
    BY <1>1 DEF TipoObra
  <2>3. d \in TipoObra /\ d.partidas = ps /\ d.n_partidas = b.n_partidas
    BY <1>1, <1>2, <1>3, <2>2 DEF TipoObra
  <2> QED
    BY <1>3, <2>1, <2>3 DEF Formada, c, ps
<1>5. CASE ~(b.estado > a.estado)
  <2> DEFINE contra == IF a.estado = b.estado THEN Llenar(a.contra, b.contra, 0)
                       ELSE a.contra
             qs == IF a.n_partidas = b.n_partidas THEN ps ELSE a.partidas
             d == [a EXCEPT !.contra = contra, !.partidas = qs]
  <2>1. c = d
    BY <1>5 DEF FusionEstado
  <2> HIDE DEF ps, c
  <2>2. contra \in Nat
    BY <1>1, LlenarTipo DEF TipoObra
  <2>3. qs \in Seq(TipoPartida) /\ Len(qs) = a.n_partidas
    BY <1>1, <1>3 DEF TipoObra
  <2> HIDE DEF contra, qs
  <2>4. d \in TipoObra /\ d.partidas = qs /\ d.n_partidas = a.n_partidas
    BY <1>1, <2>2, <2>3 DEF TipoObra
  <2> HIDE DEF d
  <2> QED
    BY <2>1, <2>3, <2>4 DEF Formada, qs, c, ps
<1> QED
  BY <1>4, <1>5

(* The second pass: the stages are a's, or b has more and both are merged. *)
LEMMA FusionExtraForma ==
  ASSUME NEW a, Formada(a), NEW b, Formada(b)
  PROVE  LET c == FusionExtra(a, b) IN
         /\ Formada(c)
         /\ \/ /\ c.n_partidas = a.n_partidas
               /\ c.partidas = a.partidas
            \/ /\ b.n_partidas > a.n_partidas
               /\ c.n_partidas = b.n_partidas
               /\ c.partidas = FusionarPartidas(a.partidas, b.partidas, b.n_partidas)
<1> DEFINE ps == FusionarPartidas(a.partidas, b.partidas, b.n_partidas)
           crece == /\ b.n_partidas > a.n_partidas
                    /\ b.estado >= a.estado
                    /\ a.estado \notin {Rechazada, Abandonada}
           seq == Mayor(a.extra_seq, b.extra_seq)
           d == [a EXCEPT !.trabajo    = b.trabajo,
                          !.n_partidas = b.n_partidas,
                          !.partidas   = ps,
                          !.extra      = SinExtra,
                          !.extra_seq  = seq]
           e == [a EXCEPT !.extra = b.extra, !.extra_seq = b.extra_seq]
           c == IF crece THEN d ELSE IF b.extra_seq > a.extra_seq THEN e ELSE a
           f == [c EXCEPT !.extra = SinExtra, !.cierre = Nadie]
<1>1. a \in TipoObra /\ b \in TipoObra /\ Len(a.partidas) = a.n_partidas
  BY DEF Formada
<1>2. /\ b.n_partidas \in Nat /\ b.trabajo \in Nat /\ b.extra \in TipoExtra
      /\ b.extra_seq \in Nat /\ seq \in Nat
  BY <1>1 DEF TipoObra, Mayor
<1>3. ps \in Seq(TipoPartida) /\ Len(ps) = b.n_partidas
  BY <1>2, FusionarPartidasTipo
<1>4. FusionExtra(a, b) = IF c.estado \in Terminales THEN f ELSE c
  BY DEF FusionExtra
<1> HIDE DEF ps, seq
<1>5. d \in TipoObra /\ d.partidas = ps /\ d.n_partidas = b.n_partidas
  BY <1>1, <1>2, <1>3, SinExtraTipo DEF TipoObra
<1>6. e \in TipoObra /\ e.partidas = a.partidas /\ e.n_partidas = a.n_partidas
  BY <1>1, <1>2 DEF TipoObra
<1>7. crece => b.n_partidas > a.n_partidas
  OBVIOUS
<1> HIDE DEF d, e, crece
<1>8. /\ c \in TipoObra
      /\ Len(c.partidas) = c.n_partidas
      /\ \/ /\ c.n_partidas = a.n_partidas
            /\ c.partidas = a.partidas
         \/ /\ b.n_partidas > a.n_partidas
            /\ c.n_partidas = b.n_partidas
            /\ c.partidas = ps
  BY <1>1, <1>3, <1>5, <1>6, <1>7
<1> HIDE DEF c
<1>9. f \in TipoObra /\ f.partidas = c.partidas /\ f.n_partidas = c.n_partidas
  BY <1>8, SinExtraTipo DEF TipoObra
<1> HIDE DEF f
<1> DEFINE g == FusionExtra(a, b)
<1>10. g \in TipoObra /\ g.partidas = c.partidas /\ g.n_partidas = c.n_partidas
  BY <1>4, <1>8, <1>9
<1> HIDE DEF g
<1> QED
  BY <1>8, <1>10 DEF Formada, ps, g

(* The last passes leave the list of stages alone.                         *)
LEMMA FusionCierreForma ==
  ASSUME NEW a, Formada(a), NEW b, Formada(b)
  PROVE  LET c == FusionCierre(a, b) IN
         Formada(c) /\ c.partidas = a.partidas /\ c.n_partidas = a.n_partidas
<1> DEFINE seq == Mayor(a.cierre_seq, b.cierre_seq)
           d == [a EXCEPT !.cierre = Nadie, !.cierre_seq = seq]
           e == [a EXCEPT !.cierre = b.cierre, !.cierre_seq = b.cierre_seq]
           c == FusionCierre(a, b)
<1>1. a \in TipoObra /\ b \in TipoObra /\ Len(a.partidas) = a.n_partidas
  BY DEF Formada
<1>2. /\ b.cierre \in Partes \cup {Nadie} /\ b.cierre_seq \in Nat /\ seq \in Nat
  BY <1>1 DEF TipoObra, Mayor
<1>3. c = IF a.estado = Abandonada THEN d
          ELSE IF b.cierre_seq > a.cierre_seq THEN e ELSE a
  BY DEF FusionCierre
<1> HIDE DEF seq, c
<1>4. d \in TipoObra /\ d.partidas = a.partidas /\ d.n_partidas = a.n_partidas
  BY <1>1, <1>2 DEF TipoObra
<1>5. e \in TipoObra /\ e.partidas = a.partidas /\ e.n_partidas = a.n_partidas
  BY <1>1, <1>2 DEF TipoObra
<1> HIDE DEF d, e
<1> QED
  BY <1>1, <1>3, <1>4, <1>5 DEF Formada, c

(* The last pass of the merge changes the state of the deal only.          *)
LEMMA FusionFinForma ==
  ASSUME NEW a, Formada(a)
  PROVE  LET c == FusionFin(a) IN
         Formada(c) /\ c.partidas = a.partidas /\ c.n_partidas = a.n_partidas
<1> DEFINE estado == IF TodasPagadas(a.partidas) /\ a.partidas # << >>
                     THEN Cerrada
                     ELSE IF /\ a.estado \notin {Rechazada, Abandonada}
                             /\ HayRiesgo(a)
                             /\ a.estado < EnMarcha
                          THEN EnMarcha ELSE a.estado
           d == [a EXCEPT !.estado = estado]
<1>1. a \in TipoObra /\ Len(a.partidas) = a.n_partidas
  BY DEF Formada
<1>2. estado \in Publicada .. Cerrada
  BY <1>1, Rangos DEF TipoObra
<1>3. FusionFin(a) = d
  BY DEF FusionFin
<1> HIDE DEF estado
<1>4. d \in TipoObra /\ d.partidas = a.partidas /\ d.n_partidas = a.n_partidas
  BY <1>1, <1>2 DEF TipoObra
<1> HIDE DEF d
<1> QED
  BY <1>1, <1>3, <1>4 DEF Formada

-----------------------------------------------------------------------------
(* Sets of stages that a merge does not leave.                             *)

(* Every stage of o is in the set S gives to its number.                   *)
Dentro(o, S) == \A i \in Indices(o) : o.partidas[i] \in S[i]

(* Merging a stage of S with one of Q stays in S; a new stage, which fills *)
(* a list up, is in Q, and in S past the first n.                          *)
Absorbe(S, Q, n) ==
  /\ \A i \in Nat : \A p \in S[i], q \in Q[i] : Fusionar(p, q) \in S[i]
  /\ \A i \in Nat : NuevaPartida("") \in Q[i]
  /\ \A i \in Nat : i > n => NuevaPartida("") \in S[i]

(* A pass over the stages keeps each one in its set of S.                  *)
LEMMA FusionarPartidasDentro ==
  ASSUME NEW a, Formada(a), NEW b, Formada(b), NEW n \in Nat, NEW S, NEW Q,
         Absorbe(S, Q, a.n_partidas), Dentro(a, S), Dentro(b, Q)
  PROVE  \A i \in 1 .. n : FusionarPartidas(a.partidas, b.partidas, n)[i] \in S[i]
<1> SUFFICES ASSUME NEW i \in 1 .. n
             PROVE  FusionarPartidas(a.partidas, b.partidas, n)[i] \in S[i]
  OBVIOUS
<1> DEFINE p == Ajustar(a.partidas, n)[i]
           q == Ajustar(b.partidas, n)[i]
<1>1. /\ Len(a.partidas) = a.n_partidas /\ a.n_partidas \in Nat
      /\ Indices(a) = 1 .. a.n_partidas
      /\ Len(b.partidas) = b.n_partidas /\ b.n_partidas \in Nat
      /\ Indices(b) = 1 .. b.n_partidas
  BY FormadaIndices DEF Formada
<1>2. p = IF i <= a.n_partidas THEN a.partidas[i] ELSE NuevaPartida("")
  BY <1>1 DEF Ajustar
<1>3. q = IF i <= b.n_partidas THEN b.partidas[i] ELSE NuevaPartida("")
  BY <1>1 DEF Ajustar
<1>4. FusionarPartidas(a.partidas, b.partidas, n)[i] = Fusionar(p, q)
  BY DEF FusionarPartidas
<1> HIDE DEF p, q
<1>5. /\ i \in Nat
      /\ i <= a.n_partidas => i \in Indices(a)
      /\ i <= b.n_partidas => i \in Indices(b)
  BY <1>1
<1>6. /\ \A u \in S[i], v \in Q[i] : Fusionar(u, v) \in S[i]
      /\ NuevaPartida("") \in Q[i]
      /\ i > a.n_partidas => NuevaPartida("") \in S[i]
  BY <1>5 DEF Absorbe
<1>7. p \in S[i]
  <2>1. CASE i <= a.n_partidas
    <3>1. i \in Indices(a) /\ p = a.partidas[i]
      BY <1>2, <1>5, <2>1
    <3> QED
      BY <3>1 DEF Dentro
  <2>2. CASE ~(i <= a.n_partidas)
    <3>1. i > a.n_partidas
      BY <1>1, <1>5, <2>2
    <3> QED
      BY <1>2, <1>6, <2>2, <3>1
  <2> QED
    BY <2>1, <2>2
<1>8. q \in Q[i]
  BY <1>1, <1>3, <1>5, <1>6 DEF Dentro
<1> QED
  BY <1>4, <1>6, <1>7, <1>8

(* Merging two copies gives a copy, and no stage leaves such a set         *)
(* (Obra::fusionar).                                                       *)
LEMMA FusionarObraFormada ==
  ASSUME NEW a, Formada(a), NEW b, Formada(b)
  PROVE  Formada(FusionarObra(a, b))
<1>1. Formada(FusionEstado(a, b))
  BY FusionEstadoForma
<1>2. Formada(FusionExtra(FusionEstado(a, b), b))
  BY <1>1, FusionExtraForma
<1>3. Formada(FusionCierre(FusionExtra(FusionEstado(a, b), b), b))
  BY <1>2, FusionCierreForma
<1> QED
  BY <1>3, FusionFinForma DEF FusionarObra

(* And so does the merge of the whole deal, which makes up to two passes.  *)
LEMMA FusionarObraDentro ==
  ASSUME NEW a, Formada(a), NEW b, Formada(b), NEW S, NEW Q,
         Absorbe(S, Q, a.n_partidas), Dentro(a, S), Dentro(b, Q)
  PROVE  Dentro(FusionarObra(a, b), S)
<1> DEFINE e == FusionEstado(a, b)
           x == FusionExtra(e, b)
           k == FusionCierre(x, b)
           f == FusionFin(k)
<1>1. /\ Formada(e)
      /\ \/ e.n_partidas = a.n_partidas /\ e.partidas = a.partidas
         \/ /\ e.n_partidas = b.n_partidas
            /\ e.partidas = FusionarPartidas(a.partidas, b.partidas, b.n_partidas)
  BY FusionEstadoForma
<1> HIDE DEF e
<1>2. /\ Formada(x)
      /\ \/ x.n_partidas = e.n_partidas /\ x.partidas = e.partidas
         \/ /\ b.n_partidas > e.n_partidas
            /\ x.n_partidas = b.n_partidas
            /\ x.partidas = FusionarPartidas(e.partidas, b.partidas, b.n_partidas)
  BY <1>1, FusionExtraForma
<1> HIDE DEF x
<1>3. Formada(k) /\ k.partidas = x.partidas
  BY <1>2, FusionCierreForma
<1> HIDE DEF k
<1>4. f.partidas = x.partidas
  BY <1>3, FusionFinForma
<1> HIDE DEF f
<1>5. b.n_partidas \in Nat /\ a.n_partidas \in Nat
  BY FormadaIndices
<1>6. \A i \in 1 .. b.n_partidas :
        FusionarPartidas(a.partidas, b.partidas, b.n_partidas)[i] \in S[i]
  BY <1>5, FusionarPartidasDentro
<1>7. Dentro(e, S)
  BY <1>1, <1>6, FormadaIndices DEF Dentro, Indices
<1>8. b.n_partidas > e.n_partidas
        => \A i \in 1 .. b.n_partidas :
             FusionarPartidas(e.partidas, b.partidas, b.n_partidas)[i] \in S[i]
  <2> SUFFICES ASSUME b.n_partidas > e.n_partidas
               PROVE  \A i \in 1 .. b.n_partidas :
                        FusionarPartidas(e.partidas, b.partidas, b.n_partidas)[i] \in S[i]
    OBVIOUS
  <2>1. e.n_partidas = a.n_partidas
    BY <1>1, <1>5
  <2> QED
    BY <1>1, <1>5, <1>7, <2>1, FusionarPartidasDentro
<1>9. Dentro(x, S)
  BY <1>2, <1>7, <1>8, FormadaIndices DEF Dentro, Indices
<1>10. Dentro(f, S)
  BY <1>4, <1>9 DEF Dentro, Indices
<1> QED
  BY <1>10 DEF FusionarObra, e, x, k, f

-----------------------------------------------------------------------------
CopiasAnunciadas ==
  /\ \A n \in Nodos : copia[n] \in anunciadas
  /\ \A n \in Partes : vista[n] \in anunciadas

(* A stage that was given the transaction of another may lack its own.     *)
Fondeada(i) == i \in ajenos \/ \E f \in fondeos : f.partida = i
Gastada(i) == i \in ajenos \/ \E t \in pagos : t.partida = i

(* A box that knows a transaction id knows one of the chain.               *)
CajasEnCadena ==
  \A n \in Partes :
    /\ \A f \in encierres[n] : f.txid => Fondeada(f.partida)
    /\ \A g \in gastos[n] : g.txid => Gastada(g.partida)

(* A locked stage was funded; a paid stage was paid, at some percentage.   *)
Respaldada(o) ==
  \A i \in Indices(o) :
    /\ o.partidas[i].estado >= Encerrada => Fondeada(i)
    /\ o.partidas[i].estado = Pagada => Gastada(i) /\ o.partidas[i].pago # 0

Inv ==
  /\ TypeOK
  /\ CopiasAnunciadas
  /\ CajasEnCadena
  /\ \A o \in anunciadas : Respaldada(o)

-----------------------------------------------------------------------------
(* Every copy of the state is well formed and backed.                      *)
LEMMA CopiasBien ==
  ASSUME Inv
  PROVE  /\ \A o \in anunciadas : Formada(o) /\ Respaldada(o)
         /\ \A n \in Nodos : Formada(copia[n]) /\ Respaldada(copia[n])
         /\ \A n \in Partes : Formada(vista[n]) /\ Respaldada(vista[n])
<1>1. \A o \in anunciadas : Formada(o) /\ Respaldada(o)
  BY DEF Inv, TypeOK, Formada
<1> QED
  BY <1>1 DEF Inv, CopiasAnunciadas

(* A button neither locks nor pays a stage, so its result is backed too.   *)
LEMMA SigueRespaldada ==
  ASSUME NEW o, NEW c, Formada(c), Sigue(o, c), Respaldada(o)
  PROVE  Respaldada(c)
<1> SUFFICES ASSUME NEW i \in Indices(c)
             PROVE  /\ c.partidas[i].estado >= Encerrada => Fondeada(i)
                    /\ c.partidas[i].estado = Pagada
                         => Gastada(i) /\ c.partidas[i].pago # 0
  BY DEF Respaldada
<1>0. c.partidas[i].estado \in 0 .. 4
  BY FormadaIndices, Rangos DEF TipoPartida
<1>1. CASE c.partidas[i].estado < Encerrada
  BY <1>0, <1>1, Rangos
<1>2. CASE /\ i \in Indices(o)
           /\ o.partidas[i].estado >= Encerrada
           /\ c.partidas[i].estado < Pagada
  BY <1>0, <1>2, Rangos DEF Respaldada
<1>3. CASE /\ i \in Indices(o)
           /\ c.partidas[i].estado = o.partidas[i].estado
           /\ c.partidas[i].pago = o.partidas[i].pago
  BY <1>3 DEF Respaldada
<1> QED
  BY <1>1, <1>2, <1>3 DEF Sigue

(* The merge takes no state and no percentage from nowhere, so it is       *)
(* backed by what backs the two copies.                                    *)
LEMMA FusionRespaldada ==
  ASSUME NEW a, Formada(a), Respaldada(a), NEW b, Formada(b), Respaldada(b)
  PROVE  Respaldada(FusionarObra(a, b))
<1> DEFINE Bien(i, p) == /\ p.estado >= Encerrada => Fondeada(i)
                         /\ p.estado = Pagada => Gastada(i) /\ p.pago # 0
           S == [i \in Nat |-> {p \in TipoPartida : Bien(i, p)}]
<1>1. ASSUME NEW i \in Nat, NEW p \in S[i], NEW q \in S[i]
      PROVE  Fusionar(p, q) \in S[i]
  <2>1. p \in TipoPartida /\ q \in TipoPartida /\ Bien(i, p) /\ Bien(i, q)
    BY <1>1
  <2>2. Fusionar(p, q) \in TipoPartida
    BY <2>1, FusionarTipo
  <2>3. /\ Fusionar(p, q).estado \in {p.estado, q.estado}
        /\ (Fusionar(p, q).estado = Pagada /\ Fusionar(p, q).pago = 0)
             => \/ p.estado = Pagada /\ p.pago = 0
                \/ q.estado = Pagada /\ q.pago = 0
    BY <2>1, FusionarEstado
  <2>4. Bien(i, Fusionar(p, q))
    BY <2>1, <2>3
  <2> QED
    BY <2>2, <2>4
<1>2. \A i \in Nat : NuevaPartida("") \in S[i]
  <2>1. NuevaPartida("") \in TipoPartida
    BY PendienteTipo DEF NuevaPartida, Titulos
  <2>2. \A d : NuevaPartida(d).estado = Pendiente
    BY DEF NuevaPartida, PendienteMonto
  <2>3. \A d : /\ ~(NuevaPartida(d).estado >= Encerrada)
               /\ NuevaPartida(d).estado # Pagada
    BY <2>2, Rangos
  <2>4. \A i \in Nat : Bien(i, NuevaPartida(""))
    BY <2>3
  <2> HIDE DEF Bien
  <2> QED
    BY <2>1, <2>4
<1>3. Dentro(a, S) /\ Dentro(b, S)
  <2>1. /\ \A i \in Indices(a) : i \in Nat /\ a.partidas[i] \in TipoPartida
        /\ \A i \in Indices(b) : i \in Nat /\ b.partidas[i] \in TipoPartida
    BY FormadaIndices
  <2> QED
    BY <2>1 DEF Dentro, Respaldada
<1>4. Absorbe(S, S, a.n_partidas)
  <2> HIDE DEF S
  <2> QED
    BY <1>1, <1>2 DEF Absorbe
<1>5. Dentro(FusionarObra(a, b), S)
  <2> HIDE DEF S
  <2> QED
    BY <1>3, <1>4, FusionarObraDentro
<1>6. \A i \in Indices(FusionarObra(a, b)) : i \in Nat
  BY FusionarObraFormada, FormadaIndices
<1> QED
  BY <1>5, <1>6 DEF Dentro, Respaldada

-----------------------------------------------------------------------------
(* Steps that replace one copy and announce it: an operation, a fact of    *)
(* the chain, a merge.                                                     *)
LEMMA GuardaBien ==
  ASSUME Inv, NEW n \in Nodos, NEW o, Formada(o), Respaldada(o),
         copia' = [copia EXCEPT ![n] = o],
         anunciadas' = anunciadas \cup {o},
         vista' = vista \/ (n \in Partes /\ vista' = [vista EXCEPT ![n] = o]),
         UNCHANGED <<cadena, cajas, historia>>
  PROVE  Inv'
<1>1. /\ fondeos' = fondeos /\ pagos' = pagos
      /\ encierres' = encierres /\ gastos' = gastos
      /\ ajenos' = ajenos /\ fallidas' = fallidas
  BY DEF cadena, cajas, historia
<1>2. o \in TipoObra /\ Len(o.partidas) = o.n_partidas
  BY DEF Formada
<1>3. TypeOK'
  <2>1. TypeOK
    BY DEF Inv
  <2>2. copia' \in [Nodos -> TipoObra] /\ vista' \in [Partes -> TipoObra]
    BY <1>2, <2>1 DEF TypeOK
  <2>3. /\ anunciadas' \subseteq TipoObra
        /\ \A x \in anunciadas' : Len(x.partidas) = x.n_partidas
    BY <1>2, <2>1 DEF TypeOK
  <2> QED
    BY <1>1, <2>1, <2>2, <2>3 DEF TypeOK
<1>4. CopiasAnunciadas'
  BY DEF Inv, TypeOK, CopiasAnunciadas
<1>5. CajasEnCadena'
  BY <1>1 DEF Inv, CajasEnCadena, Fondeada, Gastada
<1>6. (\A x \in anunciadas : Respaldada(x))'
  <2>1. \A x \in anunciadas \cup {o} : Respaldada(x)
    BY DEF Inv
  <2> QED
    BY <1>1, <2>1 DEF Respaldada, Fondeada, Gastada
<1> QED
  BY <1>3, <1>4, <1>5, <1>6 DEF Inv

(* A button: the copy it publishes comes from the one its program read.    *)
LEMMA PublicarBien ==
  ASSUME Inv, NEW n \in Partes, NEW o, Formada(o), Sigue(vista[n], o), Publicar(n, o)
  PROVE  Inv'
<1>1. Respaldada(o)
  BY CopiasBien, SigueRespaldada
<1>2. n \in Nodos
  BY TratoAssumption
<1>3. vista' = vista \/ vista' = [vista EXCEPT ![n] = o]
  BY DEF Publicar
<1> QED
  BY <1>1, <1>2, <1>3, GuardaBien DEF Publicar, Guardar

(* Steps of the chain or of a box, which leave the copies alone.           *)
LEMMA CajaBien ==
  ASSUME Inv, UNCHANGED <<copia, anunciadas>>,
         vista' \in [Partes -> TipoObra],
         \A n \in Partes : vista'[n] \in anunciadas,
         fondeos \subseteq fondeos', fondeos' \subseteq Fondeo,
         pagos \subseteq pagos', pagos' \subseteq Pago,
         encierres' \in [Partes -> SUBSET Encierre],
         gastos' \in [Partes -> SUBSET Gasto],
         ajenos \subseteq ajenos', ajenos' \subseteq Nat \ {0}, fallidas' \subseteq Nat \ {0},
         CajasEnCadena'
  PROVE  Inv'
<1>1. TypeOK'
  BY DEF Inv, TypeOK
<1>2. CopiasAnunciadas'
  BY DEF Inv, CopiasAnunciadas
<1>3. \A i : (Fondeada(i) => Fondeada(i)') /\ (Gastada(i) => Gastada(i)')
  BY DEF Fondeada, Gastada
<1>4. (\A x \in anunciadas : Respaldada(x))'
  <2>1. \A x \in anunciadas : Respaldada(x)
    BY DEF Inv
  <2> QED
    BY <1>3, <2>1 DEF Respaldada
<1> QED
  BY <1>1, <1>2, <1>4 DEF Inv

-----------------------------------------------------------------------------
(* One lemma for each action of a person.                                  *)

(* Buttons about the deal: counter-offer, extra stage, closure.            *)
LEMMA AccionDeTratoBien ==
  ASSUME Inv, NEW n \in Partes, AccionDeTrato(n)
  PROVE  Inv'
<1> DEFINE v == vista[n]
<1>1. Formada(v)
  BY CopiasBien
<1>2. CASE AccionConfirmarContra(n)
  BY <1>1, <1>2, ConfirmarContraBien, PublicarBien DEF AccionConfirmarContra
<1>3. CASE AccionRechazarContra(n)
  BY <1>1, <1>3, RechazarContraBien, PublicarBien DEF AccionRechazarContra
<1>4. CASE \E monto \in MontosExtra : AccionProponerExtra(n, monto)
  <2>1. PICK monto \in MontosExtra : AccionProponerExtra(n, monto)
    BY <1>4
  <2>2. monto \in Nat
    BY ObraAssumption
  <2> QED
    BY <1>1, <2>1, <2>2, ProponerExtraBien, PublicarBien DEF AccionProponerExtra
<1>5. CASE AccionAceptarExtra(n)
  BY <1>1, <1>5, AceptarExtraBien, PublicarBien DEF AccionAceptarExtra
<1>6. CASE AccionRechazarExtra(n)
  BY <1>1, <1>6, RechazarExtraBien, PublicarBien DEF AccionRechazarExtra
<1>7. CASE AccionAbandonar(n)
  BY <1>1, <1>7, CortarBien, PublicarBien DEF AccionAbandonar
<1>8. CASE AccionAceptarCierre(n)
  BY <1>1, <1>8, CortarBien, PublicarBien DEF AccionAceptarCierre
<1>9. CASE AccionRechazarCierre(n)
  BY <1>1, <1>9, CortarBien, PublicarBien DEF AccionRechazarCierre
<1> QED
  BY <1>2, <1>3, <1>4, <1>5, <1>6, <1>7, <1>8, <1>9 DEF AccionDeTrato

(* The entry a box opens for a stage has the type of an entry, and knows   *)
(* no transaction yet.                                                     *)
LEMMA NuevasTipo ==
  ASSUME NEW o, Formada(o), NEW i \in Indices(o)
  PROVE  /\ NuevoEncierre(o, i) \in Encierre
         /\ NuevoEncierre(o, i).txid = FALSE
         /\ NuevoGasto(o, i) \in Gasto
         /\ NuevoGasto(o, i).txid = FALSE
         /\ i \in Nat \ {0}
<1>1. i \in Nat \ {0} /\ o.partidas[i] \in TipoPartida
  BY FormadaIndices
<1>2. o.partidas[i].precio \in Nat /\ o.partidas[i].propuesto \in 0 .. 100
  BY <1>1 DEF TipoPartida
<1> QED
  BY <1>1, <1>2 DEF NuevoEncierre, NuevoGasto, Encierre, Gasto

(* A box starts to work on a funding, knowing no transaction.              *)
LEMMA PedirFondeoBien ==
  ASSUME Inv, NEW n \in Partes, NEW o, Formada(o), NEW i \in Indices(o),
         encierres' = [encierres EXCEPT ![n] = @ \cup {NuevoEncierre(o, i)}],
         UNCHANGED <<copia, vista, anunciadas, cadena, gastos, historia>>
  PROVE  Inv'
<1> DEFINE f == NuevoEncierre(o, i)
<1>1. f \in Encierre /\ f.txid = FALSE
  BY NuevasTipo
<1> HIDE DEF f
<1>2. encierres' = [encierres EXCEPT ![n] = @ \cup {f}]
  BY DEF f
<1>3. encierres' \in [Partes -> SUBSET Encierre]
  BY <1>1, <1>2 DEF Inv, TypeOK
<1>4. CajasEnCadena'
  <2>1. CajasEnCadena /\ encierres \in [Partes -> SUBSET Encierre]
    BY DEF Inv, TypeOK
  <2> QED
    BY <1>1, <1>2, <2>1 DEF CajasEnCadena, Fondeada, Gastada, cadena, historia
<1> QED
  BY <1>3, <1>4, CajaBien DEF Inv, TypeOK, CopiasAnunciadas, cadena, historia

(* A box starts to work on a payment, knowing no transaction.              *)
LEMMA AbrirGastoBien ==
  ASSUME Inv, NEW n \in Partes, NEW o, Formada(o), NEW i \in Indices(o), NEW gs,
         gs \subseteq gastos[n],
         gastos' = [gastos EXCEPT ![n] = gs \cup {NuevoGasto(o, i)}],
         UNCHANGED <<copia, vista, anunciadas, cadena, encierres, historia>>
  PROVE  Inv'
<1> DEFINE g == NuevoGasto(o, i)
<1>1. g \in Gasto /\ g.txid = FALSE
  BY NuevasTipo
<1> HIDE DEF g
<1>2. gastos' = [gastos EXCEPT ![n] = gs \cup {g}]
  BY DEF g
<1>3. gastos' \in [Partes -> SUBSET Gasto]
  BY <1>1, <1>2 DEF Inv, TypeOK
<1>4. CajasEnCadena'
  <2>1. CajasEnCadena /\ gastos \in [Partes -> SUBSET Gasto]
    BY DEF Inv, TypeOK
  <2> QED
    BY <1>1, <1>2, <2>1 DEF CajasEnCadena, Fondeada, Gastada, cadena, historia
<1> QED
  BY <1>3, <1>4, CajaBien DEF Inv, TypeOK, CopiasAnunciadas, cadena, historia

(* Buttons about one stage.                                                *)
LEMMA AccionDePartidaBien ==
  ASSUME Inv, NEW n \in Partes, NEW i \in Indices(vista[n]), AccionDePartida(n, i)
  PROVE  Inv'
<1>1. Formada(vista[n])
  BY CopiasBien
<1>2. CASE \E precio \in Precios \cup {0} : AccionProponer(n, i, precio)
  <2>1. PICK precio \in Precios \cup {0} : AccionProponer(n, i, precio)
    BY <1>2
  <2>2. precio \in Nat
    BY PreciosAssumption
  <2> QED
    BY <1>1, <2>1, <2>2, ProponerBien, PublicarBien DEF AccionProponer
<1>3. CASE AccionCancelar(n, i)
  BY <1>1, <1>3, CancelarBien, PublicarBien DEF AccionCancelar
<1>4. CASE \E pct \in Pcts : AccionAvisar(n, i, pct)
  BY <1>1, <1>4, AvisarBien, PublicarBien DEF AccionAvisar
<1>5. CASE \E pct \in Pcts : AccionContraPago(n, i, pct)
  BY <1>1, <1>5, ContraPagoBien, PublicarBien DEF AccionContraPago
<1>6. CASE \E texto \in Textos : AccionEditar(n, i, texto)
  BY <1>1, <1>6, EditarBien, PublicarBien DEF AccionEditar
<1>7. CASE PedirFondeo(n, i)
  BY <1>1, <1>7, PedirFondeoBien DEF PedirFondeo
<1>8. CASE PedirGasto(n, i)
  <2> DEFINE gs == {h \in gastos[n] : h.partida # NuevoGasto(vista[n], i).partida}
  <2>1. gastos' = [gastos EXCEPT ![n] = gs \cup {NuevoGasto(vista[n], i)}]
    BY <1>8 DEF PedirGasto, Poner
  <2>2. gs \subseteq gastos[n]
    OBVIOUS
  <2>3. UNCHANGED <<copia, vista, anunciadas, cadena, encierres, historia>>
    BY <1>8 DEF PedirGasto
  <2> HIDE DEF gs
  <2> QED
    BY <1>1, <2>1, <2>2, <2>3, AbrirGastoBien
<1> QED
  BY <1>2, <1>3, <1>4, <1>5, <1>6, <1>7, <1>8 DEF AccionDePartida

-----------------------------------------------------------------------------
(* One lemma for each step of the boxes and of the chain.                  *)

(* The transaction of stage i is known: the fundings stay fundings, and    *)
(* those that know one now are the ones that did, and those of stage i.    *)
LEMMA ConTxTipo ==
  ASSUME NEW fs, fs \subseteq Encierre, NEW i
  PROVE  /\ ConTx(fs, i) \subseteq Encierre
         /\ \A f \in ConTx(fs, i) :
              f.txid => \/ f.partida = i
                        \/ \E g \in fs : g.txid /\ g.partida = f.partida
<1> SUFFICES ASSUME NEW f \in ConTx(fs, i)
             PROVE  /\ f \in Encierre
                    /\ f.txid => \/ f.partida = i
                                 \/ \E g \in fs : g.txid /\ g.partida = f.partida
  OBVIOUS
<1>1. PICK g \in fs : f = [g EXCEPT !.txid = g.txid \/ g.partida = i]
  BY DEF ConTx
<1> DEFINE t == g.txid \/ g.partida = i
<1>2. t \in BOOLEAN /\ f = [g EXCEPT !.txid = t] /\ g \in Encierre
  BY <1>1
<1> HIDE DEF t
<1>3. f \in Encierre /\ f.partida = g.partida /\ f.txid = t
  BY <1>2 DEF Encierre
<1>4. f.txid => g.txid \/ g.partida = i
  BY <1>3 DEF t
<1> QED
  BY <1>3, <1>4

(* The same of the payments (tomar_txid).                                  *)
LEMMA ConTxidTipo ==
  ASSUME NEW gs, gs \subseteq Gasto, NEW i
  PROVE  /\ ConTxid(gs, i) \subseteq Gasto
         /\ \A g \in ConTxid(gs, i) :
              g.txid => \/ g.partida = i
                        \/ \E h \in gs : h.txid /\ h.partida = g.partida
<1> SUFFICES ASSUME NEW g \in ConTxid(gs, i)
             PROVE  /\ g \in Gasto
                    /\ \/ g.partida = i
                       \/ g \in gs
  BY DEF ConTxid
<1>1. PICK h \in gs : g = IF h.partida = i
                          THEN [h EXCEPT !.txid = TRUE, !.error = FALSE] ELSE h
  BY DEF ConTxid
<1>2. CASE h.partida = i
  BY <1>1, <1>2 DEF Gasto
<1>3. CASE h.partida # i
  BY <1>1, <1>3
<1> QED
  BY <1>2, <1>3

(* A payment that fails forgets no transaction and learns none.            *)
LEMMA ConErrorTipo ==
  ASSUME NEW gs, gs \subseteq Gasto, NEW i \in Nat \ {0}
  PROVE  /\ ConError(gs, i) \subseteq Gasto
         /\ \A g \in ConError(gs, i) :
              g.txid => \E h \in gs : h.txid /\ h.partida = g.partida
<1> DEFINE nuevo == [partida |-> i, porcentaje |-> 0, error |-> TRUE, txid |-> FALSE]
<1> SUFFICES ASSUME NEW g \in ConError(gs, i)
             PROVE  /\ g \in Gasto
                    /\ g.txid => \E h \in gs : h.txid /\ h.partida = g.partida
  OBVIOUS
<1>1. CASE g \in gs
  BY <1>1
<1>2. CASE g = nuevo
  <2>1. g \in Gasto /\ g.txid = FALSE
    BY <1>2 DEF Gasto
  <2> QED
    BY <2>1
<1>3. CASE g \notin gs \cup {nuevo}
  <2>1. PICK h \in gs : g = [h EXCEPT !.error = h.error \/ h.partida = i]
    BY <1>3 DEF ConError
  <2> DEFINE e == h.error \/ h.partida = i
  <2>2. e \in BOOLEAN /\ g = [h EXCEPT !.error = e] /\ h \in Gasto
    BY <2>1
  <2> HIDE DEF e
  <2>3. g \in Gasto /\ g.txid = h.txid /\ g.partida = h.partida
    BY <2>2 DEF Gasto
  <2> QED
    BY <2>3
<1> QED
  BY <1>1, <1>2, <1>3

(* A stage is locked by a box that knows its funding transaction.          *)
LEMMA VerFondeoBien ==
  ASSUME Inv, NEW n \in Partes, NEW i \in Indices(copia[n]), VerFondeo(n, i)
  PROVE  Inv'
<1> DEFINE o == copia[n]
           c == ConFondeo(Confirmar(o, i, n), i)
<1>1. n \in Nodos
  BY TratoAssumption
<1>2. Formada(o) /\ Respaldada(o)
  BY <1>1, CopiasBien
<1>3. PublicarHecho(n, c) /\ PuedeConfirmar(o, i, n) /\ FondeoEnRed(n, i)
  BY DEF VerFondeo
<1> HIDE DEF o
<1>4. /\ Formada(c)
      /\ Indices(c) = Indices(o)
      /\ c.partidas[i].estado = Encerrada
      /\ \A j \in Indices(o) : j # i => c.partidas[j] = o.partidas[j]
  BY <1>2, <1>3, ConfirmarBien
<1> HIDE DEF c
<1>5. Fondeada(i)
  BY <1>3 DEF FondeoEnRed, Inv, CajasEnCadena
<1>6. Respaldada(c)
  BY <1>2, <1>4, <1>5, Rangos DEF Respaldada
<1> QED
  BY <1>1, <1>3, <1>4, <1>6, GuardaBien DEF PublicarHecho, Guardar

(* A stage is paid by a box that knows its payment; it was locked before.  *)
LEMMA VerPagoBien ==
  ASSUME Inv, NEW n \in Partes, NEW i \in Indices(copia[n]), VerPago(n, i)
  PROVE  Inv'
<1> DEFINE o == copia[n]
           c == ConPago(AceptarPago(o, i, n), i)
<1>1. n \in Nodos
  BY TratoAssumption
<1>2. Formada(o) /\ Respaldada(o)
  BY <1>1, CopiasBien
<1>3. /\ PublicarHecho(n, c)
      /\ PuedeAceptarPago(o, i, n)
      /\ \E g \in gastos[n] : g.partida = i /\ g.txid
  BY DEF VerPago
<1>4. o.partidas[i].estado = EnTrato /\ i \in Indices(o)
  BY <1>3 DEF PuedeAceptarPago, MeToca
<1> HIDE DEF o
<1>5. /\ Formada(c)
      /\ Indices(c) = Indices(o)
      /\ c.partidas[i].estado = Pagada
      /\ c.partidas[i].pago # 0
      /\ \A j \in Indices(o) : j # i => c.partidas[j] = o.partidas[j]
  BY <1>2, <1>3, AceptarBien
<1> HIDE DEF c
<1>6. Gastada(i)
  BY <1>3 DEF Inv, CajasEnCadena
<1>7. Fondeada(i)
  BY <1>2, <1>4, Rangos DEF Respaldada
<1>8. Respaldada(c)
  BY <1>2, <1>5, <1>6, <1>7 DEF Respaldada
<1> QED
  BY <1>1, <1>3, <1>5, <1>8, GuardaBien DEF PublicarHecho, Guardar

(* A payment that fails, at one box or at both.                            *)
LEMMA FallarGastoBien ==
  ASSUME Inv, NEW n \in Partes, NEW i \in Nat \ {0}, FallarGasto(n, i)
  PROVE  Inv'
<1>1. PICK avisados \in {{n}, Partes} :
        gastos' = [m \in Partes |->
                     IF m \in avisados THEN ConError(gastos[m], i) ELSE gastos[m]]
  BY DEF FallarGasto
<1>2. \A m \in Partes : gastos[m] \subseteq Gasto
  BY DEF Inv, TypeOK
<1>3. gastos' \in [Partes -> SUBSET Gasto]
  BY <1>1, <1>2, ConErrorTipo
<1>4. \A m \in Partes : \A g \in gastos'[m] :
        g.txid => \E h \in gastos[m] : h.txid /\ h.partida = g.partida
  BY <1>1, <1>2, ConErrorTipo
<1>5. /\ UNCHANGED <<copia, vista, anunciadas, fondeos, pagos, encierres, ajenos>>
      /\ fallidas' = fallidas \cup {i}
  BY DEF FallarGasto, cadena
<1>6. CajasEnCadena'
  BY <1>4, <1>5 DEF Inv, CajasEnCadena, Fondeada, Gastada
<1> QED
  BY <1>3, <1>5, <1>6, CajaBien DEF Inv, TypeOK, CopiasAnunciadas

(* Whatever a box does about a stage of its copy.                          *)
LEMMA PasoDeCajaBien ==
  ASSUME Inv, NEW n \in Partes, NEW i \in Indices(copia[n]), PasoDeCaja(n, i)
  PROVE  Inv'
<1>1. n \in Nodos
  BY TratoAssumption
<1>2. Formada(copia[n])
  BY <1>1, CopiasBien
<1>3. i \in Nat \ {0}
  BY <1>2, FormadaIndices
<1>4. CASE AbrirFondeo(n, i)
  BY <1>2, <1>4, PedirFondeoBien DEF AbrirFondeo
<1>5. CASE VerFondeo(n, i)
  BY <1>5, VerFondeoBien
<1>6. CASE AbrirGasto(n, i)
  <2>1. /\ gastos' = [gastos EXCEPT ![n] = gastos[n] \cup {NuevoGasto(copia[n], i)}]
        /\ UNCHANGED <<copia, vista, anunciadas, cadena, encierres, historia>>
    BY <1>6 DEF AbrirGasto
  <2> QED
    BY <1>2, <2>1, AbrirGastoBien
<1>7. CASE FallarGasto(n, i)
  BY <1>3, <1>7, FallarGastoBien
<1>8. CASE VerPago(n, i)
  BY <1>8, VerPagoBien
<1> QED
  BY <1>4, <1>5, <1>6, <1>7, <1>8 DEF PasoDeCaja

(* Knowing the funding of a stage that has one is safe (fund-tx).          *)
LEMMA SabeFondeo ==
  ASSUME Inv, NEW n \in Partes, NEW i \in Nat \ {0},
         encierres' = [encierres EXCEPT ![n] = ConTx(@, i)],
         fondeos \subseteq fondeos', fondeos' \subseteq Fondeo, Fondeada(i)',
         ajenos \subseteq ajenos', ajenos' \subseteq Nat \ {0},
         UNCHANGED <<copia, vista, anunciadas, pagos, gastos, fallidas>>
  PROVE  Inv'
<1>1. /\ TypeOK
      /\ CopiasAnunciadas
      /\ CajasEnCadena
  BY DEF Inv
<1>2. encierres[n] \subseteq Encierre
  BY <1>1 DEF TypeOK
<1>3. /\ ConTx(encierres[n], i) \subseteq Encierre
      /\ \A f \in ConTx(encierres[n], i) :
           f.txid => \/ f.partida = i
                     \/ \E g \in encierres[n] : g.txid /\ g.partida = f.partida
  BY <1>2, ConTxTipo
<1>4. encierres' \in [Partes -> SUBSET Encierre]
  BY <1>1, <1>3 DEF TypeOK
<1>5. \A j : (Fondeada(j) => Fondeada(j)') /\ (Gastada(j) => Gastada(j)')
  BY DEF Fondeada, Gastada
<1>6. \A m \in Partes : \A f \in encierres'[m] : f.txid => Fondeada(f.partida)'
  <2> SUFFICES ASSUME NEW m \in Partes, NEW f \in encierres'[m], f.txid
               PROVE  Fondeada(f.partida)'
    OBVIOUS
  <2>1. CASE m # n
    BY <1>1, <1>5, <2>1 DEF TypeOK, CajasEnCadena
  <2>2. CASE m = n
    <3>1. f \in ConTx(encierres[n], i)
      BY <1>1, <2>2 DEF TypeOK
    <3> QED
      BY <1>1, <1>3, <1>5, <3>1 DEF CajasEnCadena
  <2> QED
    BY <2>1, <2>2
<1>7. CajasEnCadena'
  BY <1>1, <1>5, <1>6 DEF CajasEnCadena
<1> QED
  BY <1>1, <1>4, <1>7, CajaBien DEF TypeOK, CopiasAnunciadas

(* The same of a payment (spend-tx).                                       *)
LEMMA SabePago ==
  ASSUME Inv, NEW n \in Partes, NEW i \in Nat \ {0},
         gastos' = [gastos EXCEPT ![n] = ConTxid(@, i)],
         pagos \subseteq pagos', pagos' \subseteq Pago, Gastada(i)',
         ajenos \subseteq ajenos', ajenos' \subseteq Nat \ {0},
         UNCHANGED <<copia, vista, anunciadas, fondeos, encierres, fallidas>>
  PROVE  Inv'
<1>1. /\ TypeOK
      /\ CopiasAnunciadas
      /\ CajasEnCadena
  BY DEF Inv
<1>2. gastos[n] \subseteq Gasto
  BY <1>1 DEF TypeOK
<1>3. /\ ConTxid(gastos[n], i) \subseteq Gasto
      /\ \A g \in ConTxid(gastos[n], i) :
           g.txid => \/ g.partida = i
                     \/ \E h \in gastos[n] : h.txid /\ h.partida = g.partida
  BY <1>2, ConTxidTipo
<1>4. gastos' \in [Partes -> SUBSET Gasto]
  BY <1>1, <1>3 DEF TypeOK
<1>5. \A j : (Gastada(j) => Gastada(j)') /\ (Fondeada(j) => Fondeada(j)')
  BY DEF Fondeada, Gastada
<1>6. \A m \in Partes : \A g \in gastos'[m] : g.txid => Gastada(g.partida)'
  <2> SUFFICES ASSUME NEW m \in Partes, NEW g \in gastos'[m], g.txid
               PROVE  Gastada(g.partida)'
    OBVIOUS
  <2>1. CASE m # n
    BY <1>1, <1>5, <2>1 DEF TypeOK, CajasEnCadena
  <2>2. CASE m = n
    <3>1. g \in ConTxid(gastos[n], i)
      BY <1>1, <2>2 DEF TypeOK
    <3> QED
      BY <1>1, <1>3, <1>5, <3>1 DEF CajasEnCadena
  <2> QED
    BY <2>1, <2>2
<1>7. CajasEnCadena'
  BY <1>1, <1>5, <1>6 DEF CajasEnCadena
<1> QED
  BY <1>1, <1>4, <1>7, CajaBien DEF TypeOK, CopiasAnunciadas

(* A broadcast, or the message that tells of it.                           *)
LEMMA PasoDeCadenaBien ==
  ASSUME Inv, NEW i \in Nat \ {0}, PasoDeCadena(i)
  PROVE  Inv'
<1>0. Contratista \in Nodos
  BY TratoAssumption DEF Partes
<1>1. /\ Mandante \in Partes /\ Contratista \in Partes
      /\ fondeos \subseteq Fondeo /\ pagos \subseteq Pago
      /\ encierres \in [Partes -> SUBSET Encierre]
      /\ gastos \in [Partes -> SUBSET Gasto]
  BY DEF Partes, Inv, TypeOK
<1>2. CASE Fondear(i)
  <2>1. PICK f \in encierres[Mandante] :
          fondeos' = fondeos \cup {[partida |-> i, precio |-> f.precio]}
    BY <1>2 DEF Fondear
  <2>2. f \in Encierre
    BY <1>1
  <2>3. [partida |-> i, precio |-> f.precio] \in Fondeo
    BY <2>2 DEF Encierre, Fondeo
  <2> DEFINE t == [partida |-> i, precio |-> f.precio]
  <2>4. Fondeada(i)'
    <3>1. t.partida = i
      OBVIOUS
    <3> HIDE DEF t
    <3>2. t \in fondeos'
      BY <2>1 DEF t
    <3> QED
      BY <3>1, <3>2 DEF Fondeada
  <2>5. /\ encierres' = [encierres EXCEPT ![Mandante] = ConTx(@, i)]
        /\ UNCHANGED <<copia, vista, anunciadas, pagos, gastos, ajenos, fallidas>>
        /\ ajenos \subseteq Nat \ {0}
    BY <1>2 DEF Fondear, historia, Inv, TypeOK
  <2> QED
    BY <1>1, <2>1, <2>3, <2>4, <2>5, SabeFondeo
<1>3. CASE \E j \in Indices(copia[Contratista]) : Enterarse(i, j)
  <2>1. PICK j \in Indices(copia[Contratista]) : Enterarse(i, j)
    BY <1>3
  <2>2. j \in Nat \ {0}
    BY <1>1, <1>0, CopiasBien, FormadaIndices
  <2>3. Fondeada(j)'
    BY <2>1 DEF Enterarse, Fondeada, cadena
  <2>4. /\ encierres' = [encierres EXCEPT ![Contratista] = ConTx(@, j)]
        /\ UNCHANGED <<copia, vista, anunciadas, fondeos, pagos, gastos, fallidas>>
        /\ ajenos' = ajenos \cup ({j} \ {i}) /\ ajenos \subseteq Nat \ {0}
    BY <2>1 DEF Enterarse, cadena, Inv, TypeOK
  <2> QED
    BY <1>1, <2>2, <2>3, <2>4, SabeFondeo
<1>4. CASE Gastar(i)
  <2>1. PICK g \in gastos[Mandante] :
          pagos' = pagos \cup {[partida |-> i, porcentaje |-> g.porcentaje]}
    BY <1>4 DEF Gastar
  <2>2. g \in Gasto
    BY <1>1
  <2>3. [partida |-> i, porcentaje |-> g.porcentaje] \in Pago
    BY <2>2 DEF Gasto, Pago
  <2> DEFINE t == [partida |-> i, porcentaje |-> g.porcentaje]
  <2>4. Gastada(i)'
    <3>1. t.partida = i
      OBVIOUS
    <3> HIDE DEF t
    <3>2. t \in pagos'
      BY <2>1 DEF t
    <3> QED
      BY <3>1, <3>2 DEF Gastada
  <2>5. /\ gastos' = [gastos EXCEPT ![Mandante] = ConTxid(@, i)]
        /\ UNCHANGED <<copia, vista, anunciadas, fondeos, encierres, ajenos, fallidas>>
        /\ ajenos \subseteq Nat \ {0}
    BY <1>4 DEF Gastar, historia, Inv, TypeOK
  <2> QED
    BY <1>1, <2>1, <2>3, <2>4, <2>5, SabePago
<1>5. CASE \E j \in Indices(copia[Contratista]) : TomarTxid(i, j)
  <2>1. PICK j \in Indices(copia[Contratista]) : TomarTxid(i, j)
    BY <1>5
  <2>2. j \in Nat \ {0}
    BY <1>1, <1>0, CopiasBien, FormadaIndices
  <2>3. Gastada(j)'
    BY <2>1 DEF TomarTxid, Gastada, cadena
  <2>4. /\ gastos' = [gastos EXCEPT ![Contratista] = ConTxid(@, j)]
        /\ UNCHANGED <<copia, vista, anunciadas, fondeos, pagos, encierres, fallidas>>
        /\ ajenos' = ajenos \cup ({j} \ {i}) /\ ajenos \subseteq Nat \ {0}
    BY <2>1 DEF TomarTxid, cadena, Inv, TypeOK
  <2> QED
    BY <1>1, <2>2, <2>3, <2>4, SabePago
<1> QED
  BY <1>2, <1>3, <1>4, <1>5 DEF PasoDeCadena

(* Forgetting work that moved on takes nothing away.                       *)
LEMMA LimpiarBien ==
  ASSUME Inv, NEW n \in Partes, Limpiar(n)
  PROVE  Inv'
<1>1. TypeOK /\ CopiasAnunciadas /\ CajasEnCadena
  BY DEF Inv
<1>2. /\ \A m \in Partes : encierres'[m] \subseteq encierres[m]
      /\ \A m \in Partes : gastos'[m] \subseteq gastos[m]
      /\ encierres' \in [Partes -> SUBSET Encierre]
      /\ gastos' \in [Partes -> SUBSET Gasto]
  BY <1>1 DEF Limpiar, TypeOK
<1>3. UNCHANGED <<copia, vista, anunciadas, fondeos, pagos, ajenos, fallidas>>
  BY DEF Limpiar, cadena, historia
<1>4. CajasEnCadena'
  BY <1>1, <1>2, <1>3 DEF CajasEnCadena, Fondeada, Gastada
<1> QED
  BY <1>1, <1>2, <1>3, <1>4, CajaBien DEF TypeOK, CopiasAnunciadas

(* The program reads a copy that was announced.                            *)
LEMMA LeerBien ==
  ASSUME Inv, NEW n \in Partes, Leer(n)
  PROVE  Inv'
<1>1. TypeOK /\ CopiasAnunciadas /\ CajasEnCadena /\ n \in Nodos
  BY TratoAssumption DEF Inv
<1>2. /\ vista' \in [Partes -> TipoObra]
      /\ \A m \in Partes : vista'[m] \in anunciadas
  BY <1>1 DEF Leer, TypeOK, CopiasAnunciadas
<1>3. UNCHANGED <<copia, anunciadas, fondeos, pagos, encierres, gastos, ajenos, fallidas>>
  BY DEF Leer, cadena, cajas, historia
<1>4. CajasEnCadena'
  BY <1>1, <1>3 DEF CajasEnCadena, Fondeada, Gastada
<1> QED
  BY <1>1, <1>2, <1>3, <1>4, CajaBien DEF TypeOK

(* A copy that arrives is merged.                                          *)
LEMMA RecibirBien ==
  ASSUME Inv, NEW n \in Nodos, Recibir(n)
  PROVE  Inv'
<1>1. PICK o \in anunciadas : Fusion(n, o)
  BY DEF Recibir
<1>2. Formada(copia[n]) /\ Respaldada(copia[n]) /\ Formada(o) /\ Respaldada(o)
  BY CopiasBien
<1> DEFINE c == FusionarObra(copia[n], o)
<1>3. Formada(c) /\ Respaldada(c)
  BY <1>2, FusionarObraFormada, FusionRespaldada
<1>4. /\ copia' = [copia EXCEPT ![n] = c]
      /\ anunciadas' = anunciadas \cup {copia'[n]}
      /\ vista' = vista
      /\ UNCHANGED <<cadena, cajas, historia>>
  BY <1>1 DEF Fusion
<1> HIDE DEF c
<1>5. copia'[n] = c
  BY <1>4 DEF Inv, TypeOK
<1> QED
  BY <1>3, <1>4, <1>5, GuardaBien

-----------------------------------------------------------------------------
(* The first copy everyone has is new: nothing is locked in it.            *)
LEMMA InicioBien ==
  ASSUME Init
  PROVE  Inv
<1>1. PICK g \in Garantias :
        /\ copia = [n \in Nodos |-> DesdeOferta(g)]
        /\ vista = [n \in Partes |-> DesdeOferta(g)]
        /\ anunciadas = {DesdeOferta(g)}
        /\ fondeos = {}
        /\ pagos = {}
        /\ encierres = [n \in Partes |-> {}]
        /\ gastos = [n \in Partes |-> {}]
        /\ ajenos = {} /\ fallidas = {}
  BY DEF Init
<1> DEFINE o == DesdeOferta(g)
<1>2. Formada(o) /\ \A i \in Indices(o) : o.partidas[i].estado < Encerrada
  BY DesdeOfertaFormada
<1> HIDE DEF o
<1>3. /\ copia = [n \in Nodos |-> o]
      /\ vista = [n \in Partes |-> o]
      /\ anunciadas = {o}
  BY <1>1 DEF o
<1>4. TypeOK
  BY <1>1, <1>2, <1>3 DEF TypeOK, Formada
<1>5. CopiasAnunciadas /\ CajasEnCadena
  BY <1>1, <1>3 DEF CopiasAnunciadas, CajasEnCadena
<1>6. Respaldada(o)
  <2>1. \A i \in Indices(o) : o.partidas[i].estado \in 0 .. 4
    BY <1>2, FormadaIndices, Rangos DEF TipoPartida
  <2> QED
    BY <1>2, <2>1, Rangos DEF Respaldada
<1> QED
  BY <1>3, <1>4, <1>5, <1>6 DEF Inv

(* Every step, and the stutter, keeps the invariant.                       *)
LEMMA PasoBien ==
  ASSUME Inv, [Next]_vars
  PROVE  Inv'
<1>1. CASE \E n \in Partes : AccionDeTrato(n)
  BY <1>1, AccionDeTratoBien
<1>2. CASE \E n \in Partes : \E i \in Indices(vista[n]) : AccionDePartida(n, i)
  BY <1>2, AccionDePartidaBien
<1>3. CASE \E n \in Partes : \E i \in Indices(copia[n]) : PasoDeCaja(n, i)
  BY <1>3, PasoDeCajaBien
<1>4. CASE \E i \in Indices(copia[Mandante]) : PasoDeCadena(i)
  <2>1. Mandante \in Nodos
    BY TratoAssumption DEF Partes
  <2>2. \A i \in Indices(copia[Mandante]) : i \in Nat \ {0}
    BY <2>1, CopiasBien, FormadaIndices
  <2> QED
    BY <1>4, <2>2, PasoDeCadenaBien
<1>5. CASE \E n \in Partes : Limpiar(n) \/ Leer(n)
  BY <1>5, LimpiarBien, LeerBien
<1>6. CASE \E n \in Nodos : Recibir(n)
  BY <1>6, RecibirBien
<1>7. CASE UNCHANGED vars
  BY <1>7 DEF Inv, TypeOK, CopiasAnunciadas, CajasEnCadena, Respaldada, Fondeada,
              Gastada, vars, cadena, cajas, historia
<1> QED
  BY <1>1, <1>2, <1>3, <1>4, <1>5, <1>6, <1>7 DEF Next

(* The invariant holds of every deal.                                      *)
THEOREM Invariante == Spec => []Inv
<1>1. Init => Inv
  BY InicioBien
<1>2. Inv /\ [Next]_vars => Inv'
  BY PasoBien
<1> QED
  BY <1>1, <1>2, PTL DEF Spec

(* Every copy, box and transaction always has its type, and no merge or    *)
(* operation leaves a copy whose number of stages is not that of its list. *)
THEOREM TipoCorrecto == Spec => []TypeOK
<1>1. Inv => TypeOK
  BY DEF Inv
<1> QED
  BY <1>1, Invariante, PTL

(* No copy ever shows a stage as locked without a funding transaction of   *)
(* that stage on the chain, unless its box was given the transaction of    *)
(* another stage of the deal, however copies cross and whatever is         *)
(* cancelled or fails (Partida::fusionar, tomar_txid,                      *)
(* aplicar_hechos_monero).                                                 *)
THEOREM EncerradaTieneFondeo ==
  Spec => []EncerradaConFondeo
<1>1. Inv => EncerradaConFondeo
  BY DEF Inv, Respaldada, Fondeada, EncerradaConFondeo
<1> QED
  BY <1>1, Invariante, PTL

(* No copy ever shows a stage as paid without a payment of that stage on   *)
(* the chain, with the same exception (hechos, tomar_txid, aceptar_pago).  *)
THEOREM PagadaTieneGasto ==
  Spec => []PagadaConGasto
<1>1. Inv => PagadaConGasto
  BY DEF Inv, Respaldada, Gastada, PagadaConGasto
<1> QED
  BY <1>1, Invariante, PTL

-----------------------------------------------------------------------------
(* A stage that is at least as far as p, when p is being agreed on.        *)
NoAntes(p, q) == p.estado >= EnTrato => /\ q.estado >= p.estado
                                        /\ p.estado = Pagada => q.pago = p.pago

(* Merging any stage into one that is no earlier than p, and into none     *)
(* other, gives one that is no earlier than p.                             *)
LEMMA FusionarNoAntes ==
  ASSUME NEW p \in TipoPartida, p.estado = Pagada => p.pago # 0,
         NEW q \in TipoPartida, NoAntes(p, q), NEW r \in TipoPartida
  PROVE  Fusionar(q, r) \in TipoPartida /\ NoAntes(p, Fusionar(q, r))
<1> DEFINE c == Fusionar(q, r)
<1>1. /\ q.estado >= EnTrato => c.estado >= q.estado
      /\ (q.estado = Pagada /\ q.pago # 0) => c.pago = q.pago
  BY FusionarEstado
<1>2. c \in TipoPartida
  BY FusionarTipo
<1>3. p.estado \in 0 .. 4 /\ q.estado \in 0 .. 4 /\ c.estado \in 0 .. 4
  BY <1>2, Rangos DEF TipoPartida
<1> HIDE DEF c
<1>4. NoAntes(p, c)
  BY <1>1, <1>3, Rangos DEF NoAntes
<1> QED
  BY <1>2, <1>4 DEF c

(* The merge of a whole deal, made of one or more passes over the stages,  *)
(* takes back no stage being agreed on.                                    *)
LEMMA FusionarObraNoAntes ==
  ASSUME NEW a, Formada(a), Respaldada(a), NEW b, Formada(b)
  PROVE  \A i \in Comunes(a, FusionarObra(a, b)) :
           NoAntes(a.partidas[i], FusionarObra(a, b).partidas[i])
<1> DEFINE S == [i \in Nat |-> {q \in TipoPartida :
                                  i \in Indices(a) => NoAntes(a.partidas[i], q)}]
           Q == [i \in Nat |-> TipoPartida]
<1>1. /\ \A i \in Indices(a) : i \in Nat /\ a.partidas[i] \in TipoPartida
      /\ \A i \in Indices(b) : i \in Nat /\ b.partidas[i] \in TipoPartida
      /\ \A i \in Nat : i > a.n_partidas => i \notin Indices(a)
  BY FormadaIndices
<1>2. \A i \in Indices(a) : NoAntes(a.partidas[i], a.partidas[i])
  <2>1. \A i \in Indices(a) : a.partidas[i].estado \in Nat
    BY <1>1, Rangos DEF TipoPartida
  <2> QED
    BY <2>1 DEF NoAntes
<1>3. NuevaPartida("") \in TipoPartida
  BY PendienteTipo DEF NuevaPartida, Titulos
<1>4. \A i \in Nat : \A q \in S[i], r \in Q[i] : Fusionar(q, r) \in S[i]
  <2> SUFFICES ASSUME NEW i \in Nat, NEW q \in S[i], NEW r \in Q[i]
               PROVE  Fusionar(q, r) \in S[i]
    OBVIOUS
  <2>1. CASE i \in Indices(a)
    <3>1. a.partidas[i].estado = Pagada => a.partidas[i].pago # 0
      BY <2>1 DEF Respaldada
    <3> QED
      BY <1>1, <2>1, <3>1, FusionarNoAntes
  <2>2. CASE i \notin Indices(a)
    BY <2>2, FusionarTipo
  <2> QED
    BY <2>1, <2>2
<1>5. Dentro(a, S) /\ Dentro(b, Q)
  BY <1>1, <1>2 DEF Dentro
<1>6. /\ \A i \in Nat : NuevaPartida("") \in Q[i]
      /\ \A i \in Nat : i > a.n_partidas => NuevaPartida("") \in S[i]
  BY <1>1, <1>3
<1>7. Dentro(FusionarObra(a, b), S)
  <2> HIDE DEF S, Q
  <2>1. Absorbe(S, Q, a.n_partidas)
    BY <1>4, <1>6 DEF Absorbe
  <2> QED
    BY <1>5, <2>1, FusionarObraDentro
<1> QED
  BY <1>1, <1>7 DEF Dentro, Comunes

(* Whatever copy arrives next, at any node, a stage being agreed on does   *)
(* not go back and the percentage of a paid one does not change.           *)
THEOREM NadaVuelveDelTrato == Spec => []NoVuelveDelTrato
<1>1. Inv => NoVuelveDelTrato
  <2> SUFFICES ASSUME Inv, NEW n \in Nodos, NEW o \in anunciadas
               PROVE  \A i \in Comunes(copia[n], FusionarObra(copia[n], o)) :
                        NoAntes(copia[n].partidas[i],
                                FusionarObra(copia[n], o).partidas[i])
    BY DEF NoVuelveDelTrato, NoAntes
  <2>1. Formada(copia[n]) /\ Respaldada(copia[n]) /\ Formada(o)
    BY CopiasBien
  <2> QED
    BY <2>1, FusionarObraNoAntes
<1> QED
  BY <1>1, Invariante, PTL

-----------------------------------------------------------------------------
(* The thread of notes of a stage.                                         *)
(*                                                                         *)
(* The two write in turns and the contractor begins, so the author of a    *)
(* note follows from its number.                                           *)
De(k) == IF k % 2 = 1 THEN Contratista ELSE Mandante
Ultima(p) == p.notas[Len(p.notas)]

(* What is agreed on in a stage follows from its thread.                   *)
PartidaBien(p) ==
  /\ p.estado < EnTrato => p.notas = << >>
  /\ p.estado < Pagada => p.pago = 0 /\ p.recibo = SinRecibo
  /\ \A k \in 1 .. Len(p.notas) : p.notas[k].autor = De(k)
  /\ p.estado >= EnTrato => p.notas # << >> /\ p.propuesto = Ultima(p).porcentaje
  /\ p.estado = EnTrato => p.turno = De(Len(p.notas) + 1)
  /\ p.estado = Pagada =>
       /\ p.turno = Nadie /\ p.pago = p.propuesto
       /\ p.recibo.porcentaje = p.pago /\ p.recibo.acepto = De(Len(p.notas) + 1)

(* The thread of a stage: nothing, some notes, or notes and their receipt. *)
SinHilo == [estado |-> Pendiente, notas |-> << >>, recibo |-> SinRecibo]
Hilo(p) == IF p.estado < EnTrato THEN SinHilo
           ELSE [estado |-> p.estado, notas |-> p.notas, recibo |-> p.recibo]
HiloDe(o, i) == IF i \in Indices(o) THEN Hilo(o.partidas[i]) ELSE SinHilo

(* Of two threads, one begins the other; a receipt ends a thread, and      *)
(* there is one.                                                           *)
Compatibles(h, g) ==
  /\ \A k \in 1 .. Len(h.notas) : k <= Len(g.notas) => h.notas[k] = g.notas[k]
  /\ h.estado = Pagada => Len(g.notas) <= Len(h.notas)
  /\ h.estado = Pagada /\ g.estado = Pagada => h = g

LEMMA DeBien ==
  ASSUME NEW k \in Nat
  PROVE  De(k) \in Partes /\ De(k + 1) = Otro(De(k)) /\ De(k + 1) # De(k)
BY PartesAssumption DEF De, Partes, Otro

LEMMA DeUno == De(1) = Contratista
BY DEF De

-----------------------------------------------------------------------------
(* What the passes of the merge do to the fields of the thread.            *)
LEMMA PasosHilo ==
  ASSUME NEW p \in TipoPartida, NEW o \in TipoPartida
  PROVE  /\ MismoHilo(p, PasoSeq(p, o))
         /\ LET c == PasoAvance(p, o) IN
            /\ c.notas = IF Len(o.notas) >= Len(p.notas) THEN o.notas ELSE p.notas
            /\ c.propuesto = o.propuesto /\ c.turno = o.turno /\ c.pago = o.pago
            /\ c.recibo = Llenar(o.recibo, p.recibo, SinRecibo)
         /\ LET c == PasoIgual(p, o)
                largo == Len(o.notas) > Len(p.notas) IN
            /\ c.notas = IF largo THEN o.notas ELSE p.notas
            /\ c.propuesto = IF largo THEN o.propuesto ELSE p.propuesto
            /\ c.turno = IF largo THEN o.turno ELSE p.turno
            /\ c.pago = Llenar(p.pago, o.pago, 0)
            /\ c.recibo = Llenar(p.recibo, o.recibo, SinRecibo)
         /\ LET c == PasoResto(p, o) IN
            /\ c.notas = p.notas /\ c.propuesto = p.propuesto
            /\ c.turno = IF p.estado = Pagada THEN Nadie ELSE p.turno
            /\ c.pago = p.pago /\ c.recibo = p.recibo
<1>1. MismoHilo(p, TomarEncierre(p, o))
  BY DEF TomarEncierre, TipoPartida, MismoHilo
<1>2. MismoHilo(p, PasoSeq(p, o))
  BY <1>1 DEF PasoSeq, TipoPartida, MismoHilo
<1>3. LET c == PasoAvance(p, o) IN
      /\ c.notas = IF Len(o.notas) >= Len(p.notas) THEN o.notas ELSE p.notas
      /\ c.propuesto = o.propuesto /\ c.turno = o.turno /\ c.pago = o.pago
      /\ c.recibo = Llenar(o.recibo, p.recibo, SinRecibo)
  BY DEF PasoAvance, TipoPartida
<1>4. LET c == PasoIgual(p, o)
          largo == Len(o.notas) > Len(p.notas) IN
      /\ c.notas = IF largo THEN o.notas ELSE p.notas
      /\ c.propuesto = IF largo THEN o.propuesto ELSE p.propuesto
      /\ c.turno = IF largo THEN o.turno ELSE p.turno
      /\ c.pago = Llenar(p.pago, o.pago, 0)
      /\ c.recibo = Llenar(p.recibo, o.recibo, SinRecibo)
  BY DEF PasoIgual, TipoPartida
<1>5. LET c == PasoResto(p, o) IN
      /\ c.notas = p.notas /\ c.propuesto = p.propuesto
      /\ c.turno = IF p.estado = Pagada THEN Nadie ELSE p.turno
      /\ c.pago = p.pago /\ c.recibo = p.recibo
  BY DEF PasoResto, TipoPartida
<1> QED
  BY <1>2, <1>3, <1>4, <1>5

LEMMA ConDetalleHilo ==
  ASSUME NEW p \in TipoPartida, NEW o \in TipoPartida
  PROVE  MismoHilo(p, [p EXCEPT !.detalle = Llenar(@, o.detalle, "")])
BY DEF TipoPartida, MismoHilo

(* The fields of the thread after a merge, by the two states.              *)
LEMMA FusionarCampos ==
  ASSUME NEW p \in TipoPartida, NEW o \in TipoPartida
  PROVE  LET c == Fusionar(p, o)
             e == IF o.encerrar_seq > p.encerrar_seq /\ p.estado < EnTrato THEN o.estado ELSE p.estado
             largo == Len(o.notas) > Len(p.notas) IN
         /\ c \in TipoPartida
         /\ o.estado > e =>
              /\ c.estado = o.estado
              /\ c.notas = IF Len(o.notas) >= Len(p.notas) THEN o.notas ELSE p.notas
              /\ c.propuesto = o.propuesto /\ c.turno = o.turno /\ c.pago = o.pago
              /\ c.recibo = Llenar(o.recibo, p.recibo, SinRecibo)
         /\ o.estado = e =>
              /\ c.estado = e
              /\ c.notas = IF largo THEN o.notas ELSE p.notas
              /\ c.propuesto = IF largo THEN o.propuesto ELSE p.propuesto
              /\ c.turno = IF e = Pagada THEN Nadie ELSE IF largo THEN o.turno ELSE p.turno
              /\ c.pago = Llenar(p.pago, o.pago, 0)
              /\ c.recibo = Llenar(p.recibo, o.recibo, SinRecibo)
         /\ o.estado < e =>
              /\ c.estado = e
              /\ c.notas = p.notas /\ c.propuesto = p.propuesto
              /\ c.turno = IF e = Pagada THEN Nadie ELSE p.turno
              /\ c.pago = p.pago /\ c.recibo = p.recibo
<1> DEFINE d == [p EXCEPT !.detalle = Llenar(@, o.detalle, "")]
           q == PasoSeq(d, o)
           c == Fusionar(p, o)
           e == IF o.encerrar_seq > p.encerrar_seq /\ p.estado < EnTrato THEN o.estado ELSE p.estado
           largo == Len(o.notas) > Len(p.notas)
           i == PasoIgual(q, o)
<1>1. d \in TipoPartida /\ d.estado = p.estado /\ d.encerrar_seq = p.encerrar_seq /\ MismoHilo(p, d)
  BY ConDetalle, ConDetalleHilo
<1> HIDE DEF d
<1>2. q \in TipoPartida /\ q.estado = e /\ MismoHilo(d, q)
  <2>1. q \in TipoPartida
    BY <1>1, PasoSeqTipo
  <2>2. MismoHilo(d, q)
    BY <1>1, PasosHilo
  <2>3. PasoSeq(d, o).estado = IF o.encerrar_seq > d.encerrar_seq /\ d.estado < EnTrato
                               THEN o.estado ELSE d.estado
    BY <1>1, PasosEstado
  <2> QED
    BY <1>1, <2>1, <2>2, <2>3
<1> HIDE DEF q
<1>3. MismoHilo(p, q)
  BY <1>1, <1>2 DEF MismoHilo
<1>4. c = IF o.estado > e THEN PasoAvance(q, o)
          ELSE IF o.estado = e THEN PasoResto(i, o)
          ELSE PasoResto(q, o)
  BY <1>2 DEF Fusionar, d, q
<1>5. i \in TipoPartida /\ i.estado = e
  <2>1. i \in TipoPartida
    BY <1>2, PasoIgualTipo
  <2>2. i.estado = q.estado
    BY <1>2 DEF PasoIgual, TipoPartida
  <2> QED
    BY <1>2, <2>1, <2>2
<1> HIDE DEF e
<1>6. o.estado \in Nat /\ e \in Nat
  BY <1>2, EstadoPartida
<1>7. ASSUME o.estado > e
      PROVE  /\ c.estado = o.estado
             /\ c.notas = IF Len(o.notas) >= Len(p.notas) THEN o.notas ELSE p.notas
             /\ c.propuesto = o.propuesto /\ c.turno = o.turno /\ c.pago = o.pago
             /\ c.recibo = Llenar(o.recibo, p.recibo, SinRecibo)
  <2>1. c = PasoAvance(q, o)
    BY <1>4, <1>7
  <2> HIDE DEF c
  <2> QED
    BY <1>2, <1>3, <2>1, PasosEstado, PasosHilo DEF MismoHilo
<1>8. ASSUME o.estado = e
      PROVE  /\ c.estado = e
             /\ c.notas = IF largo THEN o.notas ELSE p.notas
             /\ c.propuesto = IF largo THEN o.propuesto ELSE p.propuesto
             /\ c.turno = IF e = Pagada THEN Nadie ELSE IF largo THEN o.turno ELSE p.turno
             /\ c.pago = Llenar(p.pago, o.pago, 0)
             /\ c.recibo = Llenar(p.recibo, o.recibo, SinRecibo)
  <2>1. c = PasoResto(i, o)
    BY <1>4, <1>6, <1>8
  <2> HIDE DEF c
  <2>2. /\ c.estado = e /\ c.notas = i.notas /\ c.propuesto = i.propuesto
        /\ c.turno = IF e = Pagada THEN Nadie ELSE i.turno
        /\ c.pago = i.pago /\ c.recibo = i.recibo
    <3> HIDE DEF i
    <3> QED
      BY <1>5, <2>1, PasosEstado, PasosHilo
  <2>3. /\ i.notas = IF Len(o.notas) > Len(q.notas) THEN o.notas ELSE q.notas
        /\ i.propuesto = IF Len(o.notas) > Len(q.notas) THEN o.propuesto ELSE q.propuesto
        /\ i.turno = IF Len(o.notas) > Len(q.notas) THEN o.turno ELSE q.turno
        /\ i.pago = Llenar(q.pago, o.pago, 0)
        /\ i.recibo = Llenar(q.recibo, o.recibo, SinRecibo)
    BY <1>2, PasosHilo
  <2> HIDE DEF i
  <2> QED
    BY <1>3, <2>2, <2>3 DEF MismoHilo
<1>9. ASSUME o.estado < e
      PROVE  /\ c.estado = e
             /\ c.notas = p.notas /\ c.propuesto = p.propuesto
             /\ c.turno = IF e = Pagada THEN Nadie ELSE p.turno
             /\ c.pago = p.pago /\ c.recibo = p.recibo
  <2>1. c = PasoResto(q, o)
    BY <1>4, <1>6, <1>9
  <2> HIDE DEF c
  <2> QED
    BY <1>2, <1>3, <2>1, PasosEstado, PasosHilo DEF MismoHilo
<1>10. c \in TipoPartida
  BY FusionarTipo
<1> HIDE DEF c
<1> QED
  BY <1>7, <1>8, <1>9, <1>10 DEF c, e

-----------------------------------------------------------------------------
(* The later of two threads has all of the other, and its receipt.         *)
Mas(h, g) == Len(h.notas) <= Len(g.notas) /\ (h.estado = Pagada => g.estado = Pagada)

(* Merging two stages whose threads fit gives the later thread, with its   *)
(* turn and its receipt (Partida::fusionar).                               *)
IgualQue(p, r) == r.estado = p.estado /\ MismoHilo(p, r)

LEMMA IgualQueBien ==
  ASSUME NEW p, PartidaBien(p), NEW r, IgualQue(p, r)
  PROVE  PartidaBien(r) /\ Hilo(r) = Hilo(p)
<1>1. Hilo(r) = Hilo(p)
  BY DEF Hilo, IgualQue, MismoHilo
<1>2. PartidaBien(r)
  BY DEF PartidaBien, Ultima, IgualQue, MismoHilo
<1> QED
  BY <1>1, <1>2

LEMMA FusionarHilo ==
  ASSUME NEW p \in TipoPartida, PartidaBien(p), NEW q \in TipoPartida, PartidaBien(q),
         Compatibles(Hilo(p), Hilo(q)), Compatibles(Hilo(q), Hilo(p))
  PROVE  LET r == Fusionar(p, q) IN
         /\ r \in TipoPartida
         /\ PartidaBien(r)
         /\ Hilo(r) \in {Hilo(p), Hilo(q)}
         /\ Mas(Hilo(p), Hilo(r)) /\ Mas(Hilo(q), Hilo(r))
<1> DEFINE r == Fusionar(p, q)
           e == IF q.encerrar_seq > p.encerrar_seq /\ p.estado < EnTrato THEN q.estado ELSE p.estado
           largo == Len(q.notas) > Len(p.notas)
<1>1. /\ r \in TipoPartida
      /\ q.estado > e =>
           /\ r.estado = q.estado
           /\ r.notas = IF Len(q.notas) >= Len(p.notas) THEN q.notas ELSE p.notas
           /\ r.propuesto = q.propuesto /\ r.turno = q.turno /\ r.pago = q.pago
           /\ r.recibo = Llenar(q.recibo, p.recibo, SinRecibo)
      /\ q.estado = e =>
           /\ r.estado = e
           /\ r.notas = IF largo THEN q.notas ELSE p.notas
           /\ r.propuesto = IF largo THEN q.propuesto ELSE p.propuesto
           /\ r.turno = IF e = Pagada THEN Nadie ELSE IF largo THEN q.turno ELSE p.turno
           /\ r.pago = Llenar(p.pago, q.pago, 0)
           /\ r.recibo = Llenar(p.recibo, q.recibo, SinRecibo)
      /\ q.estado < e =>
           /\ r.estado = e
           /\ r.notas = p.notas /\ r.propuesto = p.propuesto
           /\ r.turno = IF e = Pagada THEN Nadie ELSE p.turno
           /\ r.pago = p.pago /\ r.recibo = p.recibo
  BY FusionarCampos
<1> HIDE DEF r
<1>2. /\ p.estado \in 0 .. 4 /\ q.estado \in 0 .. 4
      /\ p.notas \in Seq(Nota) /\ q.notas \in Seq(Nota)
      /\ p.recibo \in Recibo /\ q.recibo \in Recibo
  BY Rangos DEF TipoPartida
<1>3. Len(p.notas) \in Nat /\ Len(q.notas) \in Nat
  BY <1>2, LenProperties
<1>4. /\ p.estado < 3 <=> Len(p.notas) = 0
      /\ q.estado < 3 <=> Len(q.notas) = 0
      /\ p.estado < 3 => p.notas = << >>
      /\ q.estado < 3 => q.notas = << >>
  <2>1. p.notas # << >> <=> Len(p.notas) # 0
    BY <1>2, EmptySeq
  <2>2. q.notas # << >> <=> Len(q.notas) # 0
    BY <1>2, EmptySeq
  <2> QED
    BY <1>2, <2>1, <2>2, Rangos DEF PartidaBien
<1>5. /\ p.estado < 4 => p.pago = 0 /\ p.recibo = SinRecibo
      /\ q.estado < 4 => q.pago = 0 /\ q.recibo = SinRecibo
      /\ p.estado = 4 => p.turno = Nadie /\ p.recibo.porcentaje = p.pago /\ p.pago = p.propuesto
      /\ q.estado = 4 => q.turno = Nadie /\ q.recibo.porcentaje = q.pago /\ q.pago = q.propuesto
  BY Rangos DEF PartidaBien
<1>6. /\ Hilo(p).notas = p.notas /\ Hilo(q).notas = q.notas
      /\ Hilo(p).estado = 4 <=> p.estado = 4
      /\ Hilo(q).estado = 4 <=> q.estado = 4
      /\ p.estado = 4 => Hilo(p).recibo = p.recibo
      /\ q.estado = 4 => Hilo(q).recibo = q.recibo
  BY <1>2, <1>4, Rangos DEF Hilo, SinHilo
<1>7. /\ p.estado = 4 => Len(q.notas) <= Len(p.notas)
      /\ q.estado = 4 => Len(p.notas) <= Len(q.notas)
      /\ p.estado = 4 /\ q.estado = 4 => p.notas = q.notas /\ p.recibo = q.recibo
  BY <1>6, Rangos DEF Compatibles
<1>8. \/ IgualQue(p, r) /\ Len(q.notas) <= Len(p.notas) /\ (q.estado = 4 => p.estado = 4)
      \/ IgualQue(q, r) /\ Len(p.notas) <= Len(q.notas) /\ (p.estado = 4 => q.estado = 4)
      \/ r.estado < 3 /\ p.estado < 3 /\ q.estado < 3 /\ r.notas = << >>
         /\ r.pago = 0 /\ r.recibo = SinRecibo
  <2>1. CASE p.estado < 3 /\ q.estado < 3
    <3>1. e < 3 /\ e \in 0 .. 4
      BY <1>2, <2>1
    <3> HIDE DEF e
    <3> QED
      BY <1>1, <1>2, <1>4, <1>5, <2>1, <3>1 DEF Llenar
  <2>2. CASE p.estado < 3 /\ q.estado >= 3
    <3>1. (e = q.estado \/ e < q.estado) /\ e \in 0 .. 4
      BY <1>2, <2>2
    <3> HIDE DEF e
    <3>2. largo /\ Len(q.notas) >= Len(p.notas)
      BY <1>2, <1>3, <1>4, <2>2
    <3>3. /\ r.estado = q.estado /\ r.notas = q.notas /\ r.propuesto = q.propuesto
          /\ r.turno = q.turno
      BY <1>1, <1>2, <1>5, <2>2, <3>1, <3>2, Rangos
    <3>4. r.pago = q.pago /\ r.recibo = q.recibo
      BY <1>1, <1>2, <1>5, <2>2, <3>1, <3>2 DEF Llenar
    <3> QED
      BY <2>2, <3>2, <3>3, <3>4 DEF IgualQue, MismoHilo
  <2>3. CASE p.estado >= 3
    <3>1. e = p.estado
      BY <1>2, <2>3, Rangos
    <3> HIDE DEF e
    <3>2. CASE q.estado < p.estado
      <4>1. IgualQue(p, r)
        BY <1>1, <1>5, <3>1, <3>2, Rangos DEF IgualQue, MismoHilo
      <4>2. Len(q.notas) <= Len(p.notas) /\ q.estado # 4
        BY <1>2, <1>3, <1>4, <1>7, <2>3, <3>2
      <4> QED
        BY <4>1, <4>2
    <3>3. CASE q.estado > p.estado
      <4>1. Len(p.notas) <= Len(q.notas) /\ p.estado = 3 /\ q.estado = 4
        BY <1>2, <1>7, <2>3, <3>3
      <4>2. IgualQue(q, r)
        BY <1>1, <1>3, <1>5, <3>1, <3>3, <4>1 DEF IgualQue, MismoHilo, Llenar
      <4> QED
        BY <4>1, <4>2
    <3>4. CASE q.estado = p.estado /\ p.estado = 4
      <4>1. p.notas = q.notas /\ ~largo /\ p.recibo = q.recibo
        BY <1>3, <1>7, <3>4
      <4>2. IgualQue(p, r)
        BY <1>1, <1>5, <3>1, <3>4, <4>1, Rangos DEF IgualQue, MismoHilo, Llenar
      <4> QED
        BY <1>3, <3>4, <4>1, <4>2
    <3>5. CASE q.estado = p.estado /\ p.estado = 3
      <4>1. CASE largo
        <5>1. IgualQue(q, r)
          BY <1>1, <1>5, <3>1, <3>5, <4>1, Rangos DEF IgualQue, MismoHilo, Llenar
        <5> QED
          BY <1>3, <3>5, <4>1, <5>1
      <4>2. CASE ~largo
        <5>1. IgualQue(p, r)
          BY <1>1, <1>5, <3>1, <3>5, <4>2, Rangos DEF IgualQue, MismoHilo, Llenar
        <5> QED
          BY <1>3, <3>5, <4>2, <5>1
      <4> QED
        BY <4>1, <4>2
    <3> QED
      BY <1>2, <2>3, <3>2, <3>3, <3>4, <3>5
  <2> QED
    BY <1>2, <2>1, <2>2, <2>3
<1>9. ASSUME r.estado < 3, p.estado < 3, q.estado < 3, r.notas = << >>,
             r.pago = 0, r.recibo = SinRecibo
      PROVE  /\ PartidaBien(r) /\ Hilo(r) = SinHilo /\ Hilo(p) = SinHilo /\ Hilo(q) = SinHilo
  BY <1>1, <1>9, Rangos DEF PartidaBien, Hilo, TipoPartida
<1>10. Mas(SinHilo, SinHilo)
  BY DEF Mas
<1>11. r.notas \in Seq(Nota)
  BY <1>1 DEF TipoPartida
<1> HIDE DEF e, largo
<1>12. /\ PartidaBien(r)
       /\ Hilo(r) \in {Hilo(p), Hilo(q)}
       /\ Mas(Hilo(p), Hilo(r)) /\ Mas(Hilo(q), Hilo(r))
  <2>1. CASE IgualQue(p, r) /\ Len(q.notas) <= Len(p.notas) /\ (q.estado = 4 => p.estado = 4)
    BY <1>3, <1>6, <2>1, IgualQueBien, Rangos DEF Mas
  <2>2. CASE IgualQue(q, r) /\ Len(p.notas) <= Len(q.notas) /\ (p.estado = 4 => q.estado = 4)
    BY <1>3, <1>6, <2>2, IgualQueBien, Rangos DEF Mas
  <2>3. CASE r.estado < 3 /\ p.estado < 3 /\ q.estado < 3 /\ r.notas = << >>
             /\ r.pago = 0 /\ r.recibo = SinRecibo
    BY <1>9, <1>10, <2>3
  <2> QED
    BY <1>8, <2>1, <2>2, <2>3
<1> QED
  BY <1>1, <1>12 DEF r

-----------------------------------------------------------------------------
(* The state of the deal after each pass of the merge, and when each pass  *)
(* merges the stages.                                                      *)
LEMMA FusionEstadoEstado ==
  ASSUME NEW a, Formada(a), NEW b, Formada(b)
  PROVE  LET c == FusionEstado(a, b) IN
         /\ c.estado = IF b.estado > a.estado THEN b.estado ELSE a.estado
         /\ c.n_partidas = IF b.estado > a.estado THEN b.n_partidas ELSE a.n_partidas
         /\ c.partidas = IF b.estado > a.estado \/ a.n_partidas = b.n_partidas
                         THEN FusionarPartidas(a.partidas, b.partidas, b.n_partidas)
                         ELSE a.partidas
<1> DEFINE ps == FusionarPartidas(a.partidas, b.partidas, b.n_partidas)
           c == FusionEstado(a, b)
<1>1. a \in TipoObra /\ b \in TipoObra
  BY DEF Formada
<1>2. CASE b.estado > a.estado
  <2>1. c = [a EXCEPT !.estado     = b.estado,
                      !.garantia   = b.garantia,
                      !.trabajo    = b.trabajo,
                      !.n_partidas = b.n_partidas,
                      !.contra     = b.contra,
                      !.partidas   = ps]
    BY <1>2 DEF FusionEstado
  <2> HIDE DEF ps, c
  <2>2. c.estado = b.estado /\ c.n_partidas = b.n_partidas /\ c.partidas = ps
    BY <1>1, <2>1 DEF TipoObra
  <2> QED
    BY <1>2, <2>2 DEF c, ps
<1>3. CASE ~(b.estado > a.estado)
  <2> DEFINE contra == IF a.estado = b.estado THEN Llenar(a.contra, b.contra, 0)
                       ELSE a.contra
             qs == IF a.n_partidas = b.n_partidas THEN ps ELSE a.partidas
  <2>1. c = [a EXCEPT !.contra = contra, !.partidas = qs]
    BY <1>3 DEF FusionEstado
  <2> HIDE DEF c, qs, contra
  <2>2. c.estado = a.estado /\ c.n_partidas = a.n_partidas /\ c.partidas = qs
    BY <1>1, <2>1 DEF TipoObra
  <2> QED
    BY <1>3, <2>2 DEF c, qs
<1> QED
  BY <1>2, <1>3

LEMMA FusionExtraEstado ==
  ASSUME NEW a, Formada(a), NEW b, Formada(b)
  PROVE  LET c == FusionExtra(a, b)
             crece == /\ b.n_partidas > a.n_partidas
                      /\ b.estado >= a.estado
                      /\ a.estado \notin {Rechazada, Abandonada} IN
         /\ c.estado = a.estado
         /\ c.n_partidas = IF crece THEN b.n_partidas ELSE a.n_partidas
         /\ c.partidas = IF crece
                         THEN FusionarPartidas(a.partidas, b.partidas, b.n_partidas)
                         ELSE a.partidas
<1> DEFINE ps == FusionarPartidas(a.partidas, b.partidas, b.n_partidas)
           crece == /\ b.n_partidas > a.n_partidas
                    /\ b.estado >= a.estado
                    /\ a.estado \notin {Rechazada, Abandonada}
           d == [a EXCEPT !.trabajo    = b.trabajo,
                          !.n_partidas = b.n_partidas,
                          !.partidas   = ps,
                          !.extra      = SinExtra,
                          !.extra_seq  = Mayor(a.extra_seq, b.extra_seq)]
           e == [a EXCEPT !.extra = b.extra, !.extra_seq = b.extra_seq]
           c == IF crece THEN d ELSE IF b.extra_seq > a.extra_seq THEN e ELSE a
           f == [c EXCEPT !.extra = SinExtra, !.cierre = Nadie]
<1>1. a \in TipoObra /\ b \in TipoObra
  BY DEF Formada
<1>2. /\ b.n_partidas \in Nat /\ b.trabajo \in Nat /\ b.extra \in TipoExtra
      /\ b.extra_seq \in Nat /\ Mayor(a.extra_seq, b.extra_seq) \in Nat
  BY <1>1 DEF TipoObra, Mayor
<1>3. ps \in Seq(TipoPartida)
  BY <1>2, FusionarPartidasTipo
<1>4. FusionExtra(a, b) = IF c.estado \in Terminales THEN f ELSE c
  BY DEF FusionExtra
<1> HIDE DEF ps
<1>5. /\ d \in TipoObra /\ d.estado = a.estado
      /\ d.partidas = ps /\ d.n_partidas = b.n_partidas
  BY <1>1, <1>2, <1>3, SinExtraTipo DEF TipoObra
<1>6. /\ e \in TipoObra /\ e.estado = a.estado
      /\ e.partidas = a.partidas /\ e.n_partidas = a.n_partidas
  BY <1>1, <1>2 DEF TipoObra
<1> HIDE DEF d, e, crece
<1>7. /\ c \in TipoObra /\ c.estado = a.estado
      /\ c.n_partidas = IF crece THEN b.n_partidas ELSE a.n_partidas
      /\ c.partidas = IF crece THEN ps ELSE a.partidas
  BY <1>1, <1>5, <1>6
<1> HIDE DEF c
<1>8. f.estado = c.estado /\ f.partidas = c.partidas /\ f.n_partidas = c.n_partidas
  BY <1>7 DEF TipoObra
<1> HIDE DEF f
<1> QED
  BY <1>4, <1>7, <1>8 DEF ps, crece

LEMMA FusionCierreEstado ==
  ASSUME NEW a, Formada(a), NEW b, Formada(b)
  PROVE  FusionCierre(a, b).estado = a.estado
BY DEF FusionCierre, Formada, TipoObra

LEMMA FusionFinEstado ==
  ASSUME NEW a, Formada(a)
  PROVE  FusionFin(a).estado =
           IF TodasPagadas(a.partidas) /\ a.partidas # << >> THEN Cerrada
           ELSE IF /\ a.estado \notin {Rechazada, Abandonada}
                   /\ HayRiesgo(a)
                   /\ a.estado < EnMarcha
                THEN EnMarcha ELSE a.estado
BY DEF FusionFin, Formada, TipoObra

(* The merge of two copies: it keeps the stages or makes one pass over     *)
(* both lists, and the state of the deal never goes back (Obra::fusionar). *)
LEMMA FusionarObraEstado ==
  ASSUME NEW a, Formada(a), NEW b, Formada(b)
  PROVE  LET c == FusionarObra(a, b) IN
         /\ Formada(c)
         /\ \/ b.estado <= a.estado /\ c.n_partidas = a.n_partidas /\ c.partidas = a.partidas
            \/ /\ c.n_partidas = b.n_partidas
               /\ c.partidas = FusionarPartidas(a.partidas, b.partidas, b.n_partidas)
               /\ \/ b.estado > a.estado
                  \/ b.n_partidas = a.n_partidas
                  \/ /\ b.n_partidas > a.n_partidas /\ b.estado >= a.estado
                     /\ a.estado \notin {Rechazada, Abandonada}
         /\ c.estado \in Nat /\ c.estado >= a.estado /\ c.estado >= b.estado
         /\ \/ c.estado \in {a.estado, b.estado}
            \/ c.estado = EnMarcha /\ HayRiesgo(c)
            \/ c.estado = Cerrada /\ TodasPagadas(c.partidas) /\ c.partidas # << >>
<1> DEFINE e == FusionEstado(a, b)
           x == FusionExtra(e, b)
           k == FusionCierre(x, b)
           f == FusionFin(k)
<1>1. /\ Formada(e)
      /\ e.estado = IF b.estado > a.estado THEN b.estado ELSE a.estado
      /\ e.n_partidas = IF b.estado > a.estado THEN b.n_partidas ELSE a.n_partidas
      /\ e.partidas = IF b.estado > a.estado \/ a.n_partidas = b.n_partidas
                      THEN FusionarPartidas(a.partidas, b.partidas, b.n_partidas)
                      ELSE a.partidas
  BY FusionEstadoForma, FusionEstadoEstado
<1> HIDE DEF e
<1>2. /\ Formada(x)
      /\ x.estado = e.estado
      /\ \/ x.n_partidas = e.n_partidas /\ x.partidas = e.partidas
         \/ /\ b.n_partidas > e.n_partidas /\ b.estado >= e.estado
            /\ e.estado \notin {Rechazada, Abandonada}
            /\ x.n_partidas = b.n_partidas
            /\ x.partidas = FusionarPartidas(e.partidas, b.partidas, b.n_partidas)
  BY <1>1, FusionExtraForma, FusionExtraEstado
<1> HIDE DEF x
<1>3. /\ Formada(k) /\ k.partidas = x.partidas /\ k.n_partidas = x.n_partidas
      /\ k.estado = e.estado
  BY <1>2, FusionCierreForma, FusionCierreEstado
<1> HIDE DEF k
<1>4. /\ Formada(f) /\ f.partidas = x.partidas /\ f.n_partidas = x.n_partidas
      /\ f.estado = IF TodasPagadas(k.partidas) /\ k.partidas # << >> THEN Cerrada
                    ELSE IF /\ k.estado \notin {Rechazada, Abandonada}
                            /\ HayRiesgo(k)
                            /\ k.estado < EnMarcha
                         THEN EnMarcha ELSE k.estado
  BY <1>3, FusionFinForma, FusionFinEstado
<1> HIDE DEF f
<1>5. /\ a.estado \in 0 .. 6 /\ b.estado \in 0 .. 6
      /\ a.n_partidas \in Nat /\ b.n_partidas \in Nat
  BY Rangos DEF Formada, TipoObra
<1>6. HayRiesgo(f) <=> HayRiesgo(k)
  BY <1>3, <1>4 DEF HayRiesgo, Indices
<1>7. \/ b.estado <= a.estado /\ f.n_partidas = a.n_partidas /\ f.partidas = a.partidas
      \/ /\ f.n_partidas = b.n_partidas
         /\ f.partidas = FusionarPartidas(a.partidas, b.partidas, b.n_partidas)
         /\ \/ b.estado > a.estado
            \/ b.n_partidas = a.n_partidas
            \/ /\ b.n_partidas > a.n_partidas /\ b.estado >= a.estado
               /\ a.estado \notin {Rechazada, Abandonada}
  <2>1. CASE b.estado > a.estado
    BY <1>1, <1>2, <1>4, <1>5, <2>1
  <2>2. CASE ~(b.estado > a.estado) /\ a.n_partidas = b.n_partidas
    BY <1>1, <1>2, <1>4, <1>5, <2>2
  <2>3. CASE ~(b.estado > a.estado) /\ a.n_partidas # b.n_partidas
    BY <1>1, <1>2, <1>4, <1>5, <2>3
  <2> QED
    BY <2>1, <2>2, <2>3
<1>8. /\ f.estado \in Nat /\ f.estado >= a.estado /\ f.estado >= b.estado
      /\ \/ f.estado \in {a.estado, b.estado}
         \/ f.estado = EnMarcha /\ HayRiesgo(f)
         \/ f.estado = Cerrada /\ TodasPagadas(f.partidas) /\ f.partidas # << >>
  BY <1>1, <1>3, <1>4, <1>5, <1>6, Rangos
<1> QED
  BY <1>4, <1>7, <1>8 DEF FusionarObra, e, x, k, f

-----------------------------------------------------------------------------
(* A new stage has no thread.                                              *)
LEMMA NuevaBien ==
  ASSUME NEW detalle, NEW monto
  PROVE  LET p == PendienteMonto(detalle, monto) IN
         /\ PartidaBien(p) /\ Hilo(p) = SinHilo
         /\ p.estado = Pendiente
<1> DEFINE p == PendienteMonto(detalle, monto)
<1>1. /\ p.estado = 0 /\ p.notas = << >> /\ p.pago = 0 /\ p.recibo = SinRecibo
  BY Rangos DEF PendienteMonto
<1> HIDE DEF p
<1>2. Len(p.notas) = 0
  BY <1>1
<1>3. PartidaBien(p)
  BY <1>1, <1>2, Rangos DEF PartidaBien
<1>4. Hilo(p) = SinHilo
  BY <1>1, Rangos DEF Hilo
<1> QED
  BY <1>1, <1>3, <1>4, Rangos DEF p

(* A copy whose stages are right.  A closed deal is paid; before the first *)
(* proposal of a lock every stage is pending.                              *)
Buena(o) ==
  /\ \A i \in Indices(o) : PartidaBien(o.partidas[i])
  /\ o.estado = Cerrada => TodasPagadas(o.partidas)
  /\ o.estado < EnMarcha => \A i \in Indices(o) : o.partidas[i].estado = Pendiente

(* The threads of two copies fit.                                          *)
Encajan(a, b) ==
  \A i \in Nat : /\ Compatibles(HiloDe(a, i), HiloDe(b, i))
                 /\ Compatibles(HiloDe(b, i), HiloDe(a, i))

(* The deal ended, with every stage paid or because it was cut.            *)
Cortada(o) == o.estado \in {Abandonada, Cerrada}

(* The pass over the stages of two copies that fit.                        *)
LEMMA PasadaHilo ==
  ASSUME NEW a, Formada(a), Buena(a), NEW b, Formada(b), Buena(b), Encajan(a, b),
         NEW i \in 1 .. b.n_partidas
  PROVE  LET r == FusionarPartidas(a.partidas, b.partidas, b.n_partidas)[i] IN
         /\ PartidaBien(r)
         /\ Hilo(r) \in {HiloDe(a, i), HiloDe(b, i)}
         /\ Mas(HiloDe(a, i), Hilo(r)) /\ Mas(HiloDe(b, i), Hilo(r))
         /\ i \in Indices(a) /\ a.partidas[i].estado = Pagada => r.estado = Pagada
         /\ b.partidas[i].estado = Pagada => r.estado = Pagada
         /\ (/\ i \in Indices(a) => a.partidas[i].estado = Pendiente
             /\ b.partidas[i].estado = Pendiente) => r.estado = Pendiente
<1> DEFINE r == FusionarPartidas(a.partidas, b.partidas, b.n_partidas)[i]
           u == IF i \in Indices(a) THEN a.partidas[i] ELSE NuevaPartida("")
           v == b.partidas[i]
<1>1. /\ Len(a.partidas) = a.n_partidas /\ a.n_partidas \in Nat
      /\ Indices(a) = 1 .. a.n_partidas
      /\ \A j \in Indices(a) : a.partidas[j] \in TipoPartida
      /\ Len(b.partidas) = b.n_partidas /\ b.n_partidas \in Nat
      /\ Indices(b) = 1 .. b.n_partidas
      /\ \A j \in Indices(b) : b.partidas[j] \in TipoPartida
  BY FormadaIndices DEF Formada
<1>2. i \in Nat /\ i \in Indices(b) /\ (i \in Indices(a) <=> i <= a.n_partidas)
  BY <1>1
<1>3. r = Fusionar(Ajustar(a.partidas, b.n_partidas)[i], Ajustar(b.partidas, b.n_partidas)[i])
  BY DEF FusionarPartidas
<1>4. Ajustar(a.partidas, b.n_partidas)[i] = u /\ Ajustar(b.partidas, b.n_partidas)[i] = v
  <2>1. Ajustar(a.partidas, b.n_partidas)[i] =
          IF i <= a.n_partidas THEN a.partidas[i] ELSE NuevaPartida("")
    BY <1>1 DEF Ajustar
  <2>2. Ajustar(b.partidas, b.n_partidas)[i] =
          IF i <= b.n_partidas THEN b.partidas[i] ELSE NuevaPartida("")
    BY <1>1 DEF Ajustar
  <2>3. i <= b.n_partidas
    BY <1>1
  <2> QED
    BY <1>2, <2>1, <2>2, <2>3
<1>5. NuevaPartida("") \in TipoPartida
  BY PendienteTipo DEF NuevaPartida, Titulos
<1>6. /\ PartidaBien(NuevaPartida("")) /\ Hilo(NuevaPartida("")) = SinHilo
      /\ NuevaPartida("").estado = Pendiente
  BY NuevaBien DEF NuevaPartida
<1>7. /\ u \in TipoPartida /\ v \in TipoPartida /\ PartidaBien(u) /\ PartidaBien(v)
      /\ Hilo(u) = HiloDe(a, i) /\ Hilo(v) = HiloDe(b, i)
      /\ i \in Indices(a) => u = a.partidas[i]
      /\ i \notin Indices(a) => u.estado = Pendiente
  BY <1>1, <1>2, <1>5, <1>6 DEF Buena, HiloDe
<1> HIDE DEF u, v, r
<1>8. Compatibles(Hilo(u), Hilo(v)) /\ Compatibles(Hilo(v), Hilo(u))
  BY <1>2, <1>7 DEF Encajan
<1>9. r = Fusionar(u, v)
  BY <1>3, <1>4
<1>10. /\ r \in TipoPartida /\ PartidaBien(r)
       /\ Hilo(r) \in {Hilo(u), Hilo(v)}
       /\ Mas(Hilo(u), Hilo(r)) /\ Mas(Hilo(v), Hilo(r))
  BY <1>7, <1>8, <1>9, FusionarHilo
<1>11. r.estado \in {u.estado, v.estado}
  BY <1>7, <1>9, FusionarEstado
<1>12. \A w \in TipoPartida : Hilo(w).estado = Pagada <=> w.estado = Pagada
  BY Rangos DEF Hilo, SinHilo, TipoPartida
<1>13. (u.estado = Pagada \/ v.estado = Pagada) => r.estado = Pagada
  BY <1>7, <1>10, <1>12 DEF Mas
<1> QED
  BY <1>2, <1>7, <1>10, <1>11, <1>13 DEF r, v

(* The merge of two deals that fit: each thread is one of the two, the     *)
(* later one; a stage is dropped only by a deal that ended or from one     *)
(* where nothing was being agreed on (Obra::fusionar).                     *)
LEMMA FusionHilo ==
  ASSUME NEW a, Formada(a), Buena(a), NEW b, Formada(b), Buena(b), Encajan(a, b)
  PROVE  LET c == FusionarObra(a, b) IN
         /\ Formada(c) /\ Buena(c)
         /\ \A i \in Nat : HiloDe(c, i) \in {HiloDe(a, i), HiloDe(b, i), SinHilo}
         /\ \A i \in Indices(c) : Mas(HiloDe(a, i), HiloDe(c, i))
         /\ \A i \in Indices(a) \ Indices(c) : Cortada(c) \/ HiloDe(a, i) = SinHilo
         /\ Cortada(a) =>
              /\ Cortada(c)
              /\ \A i \in Indices(c) \ Indices(a) :
                   HiloDe(c, i) = HiloDe(b, i) /\ HiloDe(c, i).estado = Pagada
<1> DEFINE c == FusionarObra(a, b)
           ps == FusionarPartidas(a.partidas, b.partidas, b.n_partidas)
           listo ==
             /\ Formada(c) /\ Buena(c)
             /\ \A i \in Nat : HiloDe(c, i) \in {HiloDe(a, i), HiloDe(b, i), SinHilo}
             /\ \A i \in Indices(c) : Mas(HiloDe(a, i), HiloDe(c, i))
             /\ \A i \in Indices(a) \ Indices(c) : Cortada(c) \/ HiloDe(a, i) = SinHilo
             /\ Cortada(a) =>
                  /\ Cortada(c)
                  /\ \A i \in Indices(c) \ Indices(a) :
                       HiloDe(c, i) = HiloDe(b, i) /\ HiloDe(c, i).estado = Pagada
<1>1. /\ Formada(c)
      /\ \/ b.estado <= a.estado /\ c.n_partidas = a.n_partidas /\ c.partidas = a.partidas
         \/ /\ c.n_partidas = b.n_partidas
            /\ c.partidas = ps
            /\ \/ b.estado > a.estado
               \/ b.n_partidas = a.n_partidas
               \/ /\ b.n_partidas > a.n_partidas /\ b.estado >= a.estado
                  /\ a.estado \notin {Rechazada, Abandonada}
      /\ c.estado \in Nat /\ c.estado >= a.estado /\ c.estado >= b.estado
      /\ \/ c.estado \in {a.estado, b.estado}
         \/ c.estado = EnMarcha /\ HayRiesgo(c)
         \/ c.estado = Cerrada /\ TodasPagadas(c.partidas) /\ c.partidas # << >>
  BY FusionarObraEstado
<1> HIDE DEF c
<1>2. \A i \in 1 .. b.n_partidas :
        /\ PartidaBien(ps[i])
        /\ Hilo(ps[i]) \in {HiloDe(a, i), HiloDe(b, i)}
        /\ Mas(HiloDe(a, i), Hilo(ps[i])) /\ Mas(HiloDe(b, i), Hilo(ps[i]))
        /\ i \in Indices(a) /\ a.partidas[i].estado = Pagada => ps[i].estado = Pagada
        /\ b.partidas[i].estado = Pagada => ps[i].estado = Pagada
        /\ (/\ i \in Indices(a) => a.partidas[i].estado = Pendiente
            /\ b.partidas[i].estado = Pendiente) => ps[i].estado = Pendiente
  BY PasadaHilo
<1> HIDE DEF ps
<1>3. /\ Indices(a) = 1 .. a.n_partidas /\ Indices(b) = 1 .. b.n_partidas
      /\ Indices(c) = 1 .. c.n_partidas
      /\ a.n_partidas \in Nat /\ b.n_partidas \in Nat /\ c.n_partidas \in Nat
      /\ \A i \in Indices(a) : a.partidas[i] \in TipoPartida
      /\ \A i \in Indices(b) : b.partidas[i] \in TipoPartida
      /\ \A i \in Indices(c) : c.partidas[i] \in TipoPartida
  BY <1>1, FormadaIndices
<1>4. a.estado \in 0 .. 6 /\ b.estado \in 0 .. 6 /\ c.estado \in 0 .. 6
  BY <1>1, Rangos DEF Formada, TipoObra
<1>5. \A i \in Nat : LET h == HiloDe(a, i) IN Len(h.notas) \in Nat /\ Mas(h, h)
  <2>1. \A i \in Nat : HiloDe(a, i).notas \in Seq(Nota)
    BY <1>3 DEF HiloDe, Hilo, SinHilo, TipoPartida
  <2> QED
    BY <2>1, LenProperties DEF Mas
<1>6. TodasPagadas(a.partidas) <=> \A i \in Indices(a) : a.partidas[i].estado = Pagada
  BY DEF TodasPagadas, Indices
<1>7. TodasPagadas(b.partidas) <=> \A i \in Indices(b) : b.partidas[i].estado = Pagada
  BY DEF TodasPagadas, Indices
<1>8. TodasPagadas(c.partidas) <=> \A i \in Indices(c) : c.partidas[i].estado = Pagada
  BY DEF TodasPagadas, Indices
<1>9. ASSUME b.estado <= a.estado, c.n_partidas = a.n_partidas, c.partidas = a.partidas
      PROVE  listo
  <2>1. /\ Indices(c) = Indices(a)
        /\ \A i \in Nat : HiloDe(c, i) = HiloDe(a, i)
    BY <1>3, <1>9 DEF HiloDe
  <2>2. c.estado = Cerrada => TodasPagadas(c.partidas)
    BY <1>1, <1>4, <1>9, Rangos DEF Buena
  <2>3. c.estado < EnMarcha => \A i \in Indices(c) : c.partidas[i].estado = Pendiente
    BY <1>1, <1>4, <1>9, <2>1, Rangos DEF Buena
  <2>4. Buena(c)
    BY <1>9, <2>1, <2>2, <2>3 DEF Buena
  <2>5. Cortada(a) => Cortada(c)
    BY <1>1, <1>4, Rangos DEF Cortada
  <2> QED
    BY <1>1, <1>3, <1>5, <2>1, <2>4, <2>5
<1>10. ASSUME c.n_partidas = b.n_partidas,
              c.partidas = ps,
              \/ b.estado > a.estado
              \/ b.n_partidas = a.n_partidas
              \/ /\ b.n_partidas > a.n_partidas /\ b.estado >= a.estado
                 /\ a.estado \notin {Rechazada, Abandonada}
       PROVE  listo
  <2>1. /\ Indices(c) = Indices(b)
        /\ \A i \in Indices(c) : i \in Nat /\ HiloDe(c, i) = Hilo(ps[i])
        /\ \A i \in Nat \ Indices(c) : HiloDe(c, i) = SinHilo
    BY <1>3, <1>10 DEF HiloDe
  <2>2. /\ \A i \in Indices(c) : PartidaBien(c.partidas[i])
        /\ \A i \in Indices(c) : HiloDe(c, i) \in {HiloDe(a, i), HiloDe(b, i)}
        /\ \A i \in Indices(c) : Mas(HiloDe(a, i), HiloDe(c, i)) /\ Mas(HiloDe(b, i), HiloDe(c, i))
        /\ \A i \in Indices(c) : i \in Indices(a) /\ a.partidas[i].estado = Pagada
                                   => c.partidas[i].estado = Pagada
        /\ \A i \in Indices(c) : b.partidas[i].estado = Pagada => c.partidas[i].estado = Pagada
        /\ \A i \in Indices(c) :
             (/\ i \in Indices(a) => a.partidas[i].estado = Pendiente
              /\ b.partidas[i].estado = Pendiente) => c.partidas[i].estado = Pendiente
    BY <1>2, <1>3, <1>10, <2>1
  <2>3. c.estado = Cerrada => TodasPagadas(c.partidas)
    <3> SUFFICES ASSUME c.estado = Cerrada, NEW i \in Indices(c)
                 PROVE  c.partidas[i].estado = Pagada \/ TodasPagadas(c.partidas)
      BY <1>8
    <3>1. \/ a.estado = Cerrada
          \/ b.estado = Cerrada
          \/ TodasPagadas(c.partidas)
      BY <1>1, <1>4, Rangos
    <3>2. CASE b.estado = Cerrada
      BY <1>7, <2>1, <2>2, <3>2 DEF Buena
    <3>3. CASE a.estado = Cerrada /\ b.estado # Cerrada
      <4>1. i \in Indices(a)
        BY <1>3, <1>4, <1>10, <2>1, <3>3, Rangos
      <4> QED
        BY <1>6, <2>2, <3>3, <4>1 DEF Buena
    <3> QED
      BY <3>1, <3>2, <3>3
  <2>4. c.estado < EnMarcha => \A i \in Indices(c) : c.partidas[i].estado = Pendiente
    <3> SUFFICES ASSUME c.estado < EnMarcha, NEW i \in Indices(c)
                 PROVE  c.partidas[i].estado = Pendiente
      OBVIOUS
    <3>1. a.estado < EnMarcha /\ b.estado < EnMarcha
      BY <1>1, <1>4, Rangos
    <3> QED
      BY <2>1, <2>2, <3>1 DEF Buena
  <2>5. Buena(c)
    BY <2>2, <2>3, <2>4 DEF Buena
  <2>6. \A i \in Indices(a) \ Indices(c) : Cortada(c) \/ HiloDe(a, i) = SinHilo
    <3> SUFFICES ASSUME NEW i \in Indices(a) \ Indices(c), ~Cortada(c)
                 PROVE  HiloDe(a, i) = SinHilo
      OBVIOUS
    <3>1. b.estado > a.estado
      BY <1>3, <1>10, <2>1
    <3>2. a.estado < EnMarcha
      BY <1>1, <1>4, <3>1, Rangos DEF Cortada
    <3>3. a.partidas[i].estado = Pendiente
      BY <3>2 DEF Buena
    <3> QED
      BY <3>3, Rangos DEF HiloDe, Hilo
  <2>7. ASSUME Cortada(a)
        PROVE  /\ Cortada(c)
               /\ \A i \in Indices(c) \ Indices(a) :
                    HiloDe(c, i) = HiloDe(b, i) /\ HiloDe(c, i).estado = Pagada
    <3>1. Cortada(c)
      BY <1>1, <1>4, <2>7, Rangos DEF Cortada
    <3> SUFFICES ASSUME NEW i \in Indices(c) \ Indices(a)
                 PROVE  HiloDe(c, i) = HiloDe(b, i) /\ HiloDe(c, i).estado = Pagada
      BY <3>1
    <3>2. b.estado >= a.estado /\ i \in Indices(b)
      BY <1>3, <1>4, <1>10, <2>1
    <3>3. HiloDe(a, i) = SinHilo
      BY DEF HiloDe
    <3>4. b.estado = Cerrada
      BY <1>3, <1>4, <1>10, <2>1, <2>7, <3>2, Rangos DEF Cortada
    <3>5. b.partidas[i].estado = Pagada
      BY <1>7, <3>2, <3>4 DEF Buena
    <3>6. HiloDe(b, i).estado = Pagada
      BY <3>2, <3>5, Rangos DEF HiloDe, Hilo
    <3>7. HiloDe(c, i).estado = Pagada
      BY <2>2, <3>6 DEF Mas
    <3>8. HiloDe(c, i) \in {SinHilo, HiloDe(b, i)}
      BY <2>2, <3>3
    <3> QED
      BY <3>7, <3>8, Rangos DEF SinHilo
  <2> QED
    BY <1>1, <2>1, <2>2, <2>5, <2>6, <2>7
<1> QED
  <2>1. listo
    BY <1>1, <1>9, <1>10
  <2> QED
    BY <2>1 DEF c

-----------------------------------------------------------------------------
(* What one person does to a thread.                                       *)
TipoHilo == [estado : Pendiente .. Pagada, notas : Seq(Nota), recibo : Recibo]

(* x has what n wrote in h, and the receipt of h if n accepted.            *)
Suyo(n, x, h) ==
  /\ \A k \in 1 .. Len(h.notas) : De(k) = n => k <= Len(x.notas)
  /\ h.estado = Pagada /\ De(Len(h.notas) + 1) = n => x.estado = Pagada

(* Nothing; or n, whose turn it is, writes a note or accepts the last one. *)
Hace(n, h, g) ==
  \/ g = h
  \/ /\ h.estado # Pagada /\ De(Len(h.notas) + 1) = n
     /\ \/ g.notas = h.notas /\ g.estado = Pagada
        \/ g.estado = EnTrato /\ \E nota \in Nota : g.notas = Append(h.notas, nota)

LEMMA HiloTipo ==
  ASSUME NEW o, Formada(o), NEW i \in Nat
  PROVE  HiloDe(o, i) \in TipoHilo
<1>1. SinHilo \in TipoHilo
  BY PendienteTipo, Rangos DEF SinHilo, TipoHilo, SinRecibo, Recibo
<1>2. ASSUME NEW p \in TipoPartida
      PROVE  Hilo(p) \in TipoHilo
  BY <1>1 DEF Hilo, TipoHilo, TipoPartida
<1> QED
  BY <1>1, <1>2, FormadaIndices DEF HiloDe

LEMMA SinHiloBien ==
  /\ SinHilo \in TipoHilo
  /\ \A g \in TipoHilo : Compatibles(SinHilo, g) /\ Compatibles(g, SinHilo)
  /\ \A n, x : Suyo(n, x, SinHilo)
<1>1. SinHilo \in TipoHilo
  BY Rangos DEF SinHilo, TipoHilo, SinRecibo, Recibo
<1>2. SinHilo.notas = << >> /\ SinHilo.estado # Pagada /\ Len(SinHilo.notas) = 0
  BY Rangos DEF SinHilo
<1>3. \A g \in TipoHilo : Len(g.notas) \in Nat
  BY LenProperties DEF TipoHilo
<1>4. \A g \in TipoHilo : Compatibles(SinHilo, g) /\ Compatibles(g, SinHilo)
  BY <1>2, <1>3 DEF Compatibles
<1>5. \A n, x : Suyo(n, x, SinHilo)
  BY <1>2 DEF Suyo
<1> QED
  BY <1>1, <1>4, <1>5

LEMMA MismoBien ==
  ASSUME NEW h \in TipoHilo
  PROVE  Compatibles(h, h) /\ Mas(h, h) /\ \A n : Suyo(n, h, h)
<1>1. Len(h.notas) \in Nat
  BY LenProperties DEF TipoHilo
<1> QED
  BY <1>1 DEF Compatibles, Suyo, Mas

(* A later thread still has what was written.                              *)
LEMMA SuyoMas ==
  ASSUME NEW n, NEW x \in TipoHilo, NEW y \in TipoHilo, Mas(x, y), NEW h \in TipoHilo, Suyo(n, x, h)
  PROVE  Suyo(n, y, h)
<1>1. Len(x.notas) \in Nat /\ Len(y.notas) \in Nat /\ Len(h.notas) \in Nat
  BY LenProperties DEF TipoHilo
<1> QED
  BY <1>1 DEF Mas, Suyo

(* Who has the turn and all it wrote has the longest thread.               *)
LEMMA TieneElTurno ==
  ASSUME NEW n \in Partes, NEW h \in TipoHilo, NEW g \in TipoHilo,
         Compatibles(g, h), Suyo(n, h, g), h.estado # Pagada, De(Len(h.notas) + 1) = n
  PROVE  Len(g.notas) <= Len(h.notas) /\ g.estado # Pagada
<1>1. Len(h.notas) \in Nat /\ Len(g.notas) \in Nat
  BY LenProperties DEF TipoHilo
<1>2. Len(g.notas) <= Len(h.notas)
  BY <1>1 DEF Suyo
<1>3. ASSUME g.estado = Pagada
      PROVE  FALSE
  <2>1. Len(g.notas) = Len(h.notas)
    BY <1>1, <1>2, <1>3 DEF Compatibles
  <2> QED
    BY <1>3, <2>1 DEF Suyo
<1> QED
  BY <1>2, <1>3

(* What it does fits with every thread that fitted with what it had.       *)
LEMMA HaceBien ==
  ASSUME NEW n \in Partes, NEW h \in TipoHilo, NEW f \in TipoHilo, NEW g \in TipoHilo,
         Hace(n, h, f), Compatibles(h, g), Compatibles(g, h), Suyo(n, h, g)
  PROVE  Compatibles(f, g) /\ Compatibles(g, f) /\ Suyo(n, f, g) /\ Mas(h, f)
<1>1. /\ Len(h.notas) \in Nat /\ Len(f.notas) \in Nat /\ Len(g.notas) \in Nat
      /\ h.notas \in Seq(Nota)
  BY LenProperties DEF TipoHilo
<1>2. CASE f = h
  BY <1>2, MismoBien
<1>3. CASE /\ h.estado # Pagada /\ De(Len(h.notas) + 1) = n
           /\ f.notas = h.notas /\ f.estado = Pagada
  <2>1. Len(g.notas) <= Len(h.notas) /\ g.estado # Pagada
    BY <1>3, TieneElTurno
  <2>2. Mas(h, f)
    BY <1>1, <1>3 DEF Mas
  <2>3. Compatibles(f, g) /\ Compatibles(g, f)
    BY <1>3, <2>1 DEF Compatibles
  <2> QED
    BY <2>2, <2>3, SuyoMas
<1>4. CASE /\ h.estado # Pagada /\ De(Len(h.notas) + 1) = n /\ f.estado = EnTrato
           /\ \E nota \in Nota : f.notas = Append(h.notas, nota)
  <2>1. PICK nota \in Nota : f.notas = Append(h.notas, nota)
    BY <1>4
  <2>2. /\ Len(f.notas) = Len(h.notas) + 1
        /\ \A k \in 1 .. Len(h.notas) : f.notas[k] = h.notas[k]
    BY <1>1, <2>1
  <2>3. Len(g.notas) <= Len(h.notas) /\ g.estado # Pagada
    BY <1>4, TieneElTurno
  <2>4. Mas(h, f)
    BY <1>1, <1>4, <2>2, Rangos DEF Mas
  <2>5. \A k \in 1 .. Len(g.notas) : k \in 1 .. Len(h.notas) /\ f.notas[k] = g.notas[k]
    BY <1>1, <2>2, <2>3 DEF Compatibles
  <2>6. Compatibles(f, g)
    BY <1>1, <1>4, <2>2, <2>3, <2>5, Rangos DEF Compatibles
  <2>7. Compatibles(g, f)
    BY <1>1, <1>4, <2>2, <2>3, <2>5, Rangos DEF Compatibles
  <2> QED
    BY <2>4, <2>6, <2>7, SuyoMas
<1> QED
  BY <1>2, <1>3, <1>4 DEF Hace

(* And the other has lost nothing of what it wrote.                        *)
LEMMA HaceOtro ==
  ASSUME NEW n \in Partes, NEW m \in Partes, m # n, NEW h \in TipoHilo, NEW f \in TipoHilo,
         NEW x, Hace(n, h, f), Suyo(m, x, h)
  PROVE  Suyo(m, x, f)
<1>1. Len(h.notas) \in Nat /\ Len(f.notas) \in Nat /\ h.notas \in Seq(Nota)
  BY LenProperties DEF TipoHilo
<1>2. CASE f = h
  BY <1>2
<1>3. CASE /\ h.estado # Pagada /\ De(Len(h.notas) + 1) = n
           /\ f.notas = h.notas /\ f.estado = Pagada
  BY <1>3 DEF Suyo
<1>4. CASE /\ h.estado # Pagada /\ De(Len(h.notas) + 1) = n /\ f.estado = EnTrato
           /\ \E nota \in Nota : f.notas = Append(h.notas, nota)
  <2>1. Len(f.notas) = Len(h.notas) + 1
    BY <1>1, <1>4
  <2>2. f.estado # Pagada
    BY <1>4, Rangos
  <2> QED
    BY <1>1, <1>4, <2>1, <2>2 DEF Suyo
<1> QED
  BY <1>2, <1>3, <1>4 DEF Hace

-----------------------------------------------------------------------------
(* The invariant of the threads, for two people on the phone.              *)

(* X, a copy of n, has all that n ever wrote and accepted of o, unless the *)
(* deal ended and X has not the stage.                                     *)
Recuerda(n, X, o) ==
  \A i \in Nat : \/ Suyo(n, HiloDe(X, i), HiloDe(o, i))
                 \/ i \notin Indices(X) /\ Cortada(X)

(* Nothing was done yet: the principal did not answer the counter-offer.   *)
EnContra(os) ==
  \A o \in os : /\ o.estado \in {Contra, Abandonada}
                /\ \A i \in Indices(o) : o.partidas[i].estado = Pendiente

Buenas(os) == \A o \in os : Formada(o) /\ Buena(o)

Encajadas(os) == \A a, b \in os : Encajan(a, b)

(* What the copies of n keep: X is the one it stores or the one it read.   *)
Guarda(n, X, os) ==
  /\ X \in os
  /\ \A o \in os : Recuerda(n, X, o)
  /\ n = Mandante /\ X.estado <= Contra => EnContra(os)

HiloInv ==
  /\ Buenas(anunciadas)
  /\ Encajadas(anunciadas)
  /\ \A n \in Nodos : copia[n] \in anunciadas
  /\ \A n \in Partes : Guarda(n, copia[n], anunciadas) /\ Guarda(n, vista[n], anunciadas)

(* A copy without a thread fits with every other, and forgets nothing of   *)
(* theirs when they have none either.                                      *)
LEMMA SinHilos ==
  ASSUME NEW o, \A i \in Indices(o) : o.partidas[i].estado = Pendiente
  PROVE  \A i \in Nat : HiloDe(o, i) = SinHilo
BY Rangos DEF HiloDe, Hilo

(* One more copy, that fits with the others and of which each copy of the  *)
(* others forgets nothing.                                                 *)
LEMMA Anunciar ==
  ASSUME NEW os, Buenas(os), Encajadas(os), NEW c, Formada(c), Buena(c),
         \A o \in os : Encajan(c, o)
  PROVE  Buenas(os \cup {c}) /\ Encajadas(os \cup {c})
<1>1. \A i \in Nat : HiloDe(c, i) \in TipoHilo
  BY HiloTipo
<1>2. Encajan(c, c)
  BY <1>1, MismoBien DEF Encajan
<1>3. \A o \in os : Encajan(o, c)
  BY DEF Encajan
<1> QED
  BY <1>2, <1>3 DEF Buenas, Encajadas

(* A copy of a person that learns of one more copy.                        *)
LEMMA Guardar1 ==
  ASSUME NEW os, NEW n, NEW X, Guarda(n, X, os), NEW c, Recuerda(n, X, c),
         EnContra(os) => EnContra({c})
  PROVE  Guarda(n, X, os \cup {c})
<1>1. n = Mandante /\ X.estado <= Contra => EnContra(os \cup {c})
  BY DEF Guarda, EnContra
<1> QED
  BY <1>1 DEF Guarda

(* A copy that a person puts in the place of X.                            *)
LEMMA Sustituye ==
  ASSUME NEW os, NEW n, NEW c, Formada(c), \A o \in os : Recuerda(n, c, o),
         n = Mandante /\ c.estado <= Contra => EnContra(os) /\ EnContra({c})
  PROVE  Guarda(n, c, os \cup {c})
<1>1. \A i \in Nat : HiloDe(c, i) \in TipoHilo
  BY HiloTipo
<1>2. Recuerda(n, c, c)
  BY <1>1, MismoBien DEF Recuerda
<1>3. n = Mandante /\ c.estado <= Contra => EnContra(os \cup {c})
  BY DEF EnContra
<1> QED
  BY <1>2, <1>3 DEF Guarda

(* A copy c that n makes of X: it does its part in each thread, it may add *)
(* a stage, and it drops none.                                             *)
Deriva(n, X, c) ==
  /\ Formada(c) /\ Buena(c)
  /\ Indices(X) \subseteq Indices(c)
  /\ \A i \in Indices(X) : Hace(n, HiloDe(X, i), HiloDe(c, i))
  /\ \A i \in Indices(c) \ Indices(X) : HiloDe(c, i) = SinHilo
  /\ Cortada(X) => Cortada(c) /\ Indices(c) = Indices(X)
  /\ c.estado <= Contra => X.estado <= Contra
  /\ EnContra({X}) => EnContra({c})

(* No note is written, but in the stages of S.                             *)
Callada(X, c, S) ==
  \A i \in Indices(X) \ S : HiloDe(c, i).notas = HiloDe(X, i).notas

LEMMA DerivaEncaja ==
  ASSUME HiloInv, NEW n \in Partes, NEW X, Guarda(n, X, anunciadas), NEW c, Deriva(n, X, c)
  PROVE  /\ \A o \in anunciadas : Encajan(c, o)
         /\ \A o \in anunciadas : Recuerda(n, c, o)
<1>1. /\ X \in anunciadas /\ Formada(X) /\ Formada(c)
      /\ \A o \in anunciadas : Formada(o) /\ Recuerda(n, X, o) /\ Encajan(X, o)
  BY DEF HiloInv, Buenas, Encajadas, Guarda, Deriva
<1>2. Indices(X) \subseteq Nat /\ Indices(c) \subseteq Nat
  BY <1>1, FormadaIndices
<1> SUFFICES ASSUME NEW o \in anunciadas, NEW i \in Nat
             PROVE  /\ Compatibles(HiloDe(c, i), HiloDe(o, i))
                    /\ Compatibles(HiloDe(o, i), HiloDe(c, i))
                    /\ \/ Suyo(n, HiloDe(c, i), HiloDe(o, i))
                       \/ i \notin Indices(c) /\ Cortada(c)
  BY DEF Encajan, Recuerda
<1>3. HiloDe(X, i) \in TipoHilo /\ HiloDe(c, i) \in TipoHilo /\ HiloDe(o, i) \in TipoHilo
  BY <1>1, HiloTipo
<1>4. CASE i \in Indices(X)
  <2>1. Suyo(n, HiloDe(X, i), HiloDe(o, i))
    BY <1>1, <1>4 DEF Recuerda
  <2>2. Compatibles(HiloDe(X, i), HiloDe(o, i)) /\ Compatibles(HiloDe(o, i), HiloDe(X, i))
    BY <1>1 DEF Encajan
  <2>3. Hace(n, HiloDe(X, i), HiloDe(c, i))
    BY <1>4 DEF Deriva
  <2> QED
    BY <1>3, <2>1, <2>2, <2>3, HaceBien
<1>5. CASE i \notin Indices(X)
  <2>1. HiloDe(X, i) = SinHilo /\ HiloDe(c, i) = SinHilo
    BY <1>5 DEF HiloDe, Deriva
  <2>2. \/ Suyo(n, SinHilo, HiloDe(o, i))
        \/ i \notin Indices(X) /\ Cortada(X)
    BY <1>1, <2>1 DEF Recuerda
  <2>3. Cortada(X) => i \notin Indices(c) /\ Cortada(c)
    BY <1>5 DEF Deriva
  <2> QED
    BY <1>3, <2>1, <2>2, <2>3, SinHiloBien
<1> QED
  BY <1>4, <1>5

LEMMA DerivaOtro ==
  ASSUME HiloInv, NEW n \in Partes, NEW X, Guarda(n, X, anunciadas), NEW c, Deriva(n, X, c),
         NEW m \in Partes, m # n, NEW Y, Guarda(m, Y, anunciadas)
  PROVE  Guarda(m, Y, anunciadas \cup {c})
<1>1. X \in anunciadas /\ Formada(X) /\ Formada(c) /\ Y \in anunciadas /\ Formada(Y)
  BY DEF HiloInv, Buenas, Guarda, Deriva
<1>2. Recuerda(m, Y, c)
  <2> SUFFICES ASSUME NEW i \in Nat
               PROVE  \/ Suyo(m, HiloDe(Y, i), HiloDe(c, i))
                      \/ i \notin Indices(Y) /\ Cortada(Y)
    BY DEF Recuerda
  <2>1. HiloDe(X, i) \in TipoHilo /\ HiloDe(c, i) \in TipoHilo /\ HiloDe(Y, i) \in TipoHilo
    BY <1>1, HiloTipo
  <2>2. CASE i \in Indices(X)
    <3>1. Hace(n, HiloDe(X, i), HiloDe(c, i))
      BY <2>2 DEF Deriva
    <3>2. \/ Suyo(m, HiloDe(Y, i), HiloDe(X, i))
          \/ i \notin Indices(Y) /\ Cortada(Y)
      BY <1>1 DEF Guarda, Recuerda
    <3> QED
      BY <2>1, <3>1, <3>2, HaceOtro
  <2>3. CASE i \notin Indices(X)
    <3>1. HiloDe(c, i) = SinHilo
      BY <2>3 DEF HiloDe, Deriva
    <3> QED
      BY <3>1, SinHiloBien
  <2> QED
    BY <2>2, <2>3
<1>3. EnContra(anunciadas) => EnContra({c})
  BY <1>1 DEF EnContra, Deriva
<1> QED
  BY <1>2, <1>3, Guardar1

(* A step of a person on the phone.                                        *)
LEMMA DerivaBien ==
  ASSUME TypeOK, HiloInv, NEW n \in Partes, NEW X, Guarda(n, X, anunciadas), NEW c, Deriva(n, X, c),
         copia' = [copia EXCEPT ![n] = c],
         vista' = [vista EXCEPT ![n] = c],
         anunciadas' = anunciadas \cup {c}
  PROVE  HiloInv'
<1>1. Formada(c) /\ Buena(c) /\ X \in anunciadas /\ n \in Nodos
  BY TratoAssumption DEF Deriva, Guarda
<1>2. /\ \A o \in anunciadas : Encajan(c, o)
      /\ \A o \in anunciadas : Recuerda(n, c, o)
  BY DerivaEncaja
<1>3. Buenas(anunciadas') /\ Encajadas(anunciadas')
  BY <1>1, <1>2, Anunciar DEF HiloInv
<1>4. EnContra(anunciadas) => EnContra({c})
  BY <1>1 DEF EnContra, Deriva
<1>5. Guarda(n, c, anunciadas')
  <2>1. n = Mandante /\ c.estado <= Contra => EnContra(anunciadas) /\ EnContra({c})
    BY <1>4 DEF Guarda, Deriva
  <2> QED
    BY <1>1, <1>2, <2>1, Sustituye
<1>6. \A m \in Partes : m # n => /\ Guarda(m, copia[m], anunciadas')
                               /\ Guarda(m, vista[m], anunciadas')
  BY DerivaOtro DEF HiloInv
<1>7. /\ copia'[n] = c /\ vista'[n] = c
      /\ \A m \in Nodos : m # n => copia'[m] = copia[m]
      /\ \A m \in Partes : m # n => vista'[m] = vista[m]
  BY <1>1 DEF TypeOK
<1>8. \A m \in Partes : Guarda(m, copia'[m], anunciadas') /\ Guarda(m, vista'[m], anunciadas')
  <2> SUFFICES ASSUME NEW m \in Partes
               PROVE  Guarda(m, copia'[m], anunciadas') /\ Guarda(m, vista'[m], anunciadas')
    OBVIOUS
  <2>1. m \in Nodos
    BY TratoAssumption
  <2> QED
    BY <1>5, <1>6, <1>7, <2>1
<1>9. \A m \in Nodos : copia'[m] \in anunciadas'
  BY <1>7 DEF HiloInv
<1> QED
  BY <1>3, <1>8, <1>9 DEF HiloInv

(* The answer to the counter-offer, when nothing was done yet.             *)
LEMMA ReiniciaBien ==
  ASSUME TypeOK, HiloInv, EnContra(anunciadas), NEW c, Formada(c), Buena(c), c.estado > Contra,
         \A i \in Indices(c) : c.partidas[i].estado = Pendiente,
         copia' = [copia EXCEPT ![Mandante] = c],
         vista' = [vista EXCEPT ![Mandante] = c],
         anunciadas' = anunciadas \cup {c}
  PROVE  HiloInv'
<1>1. Mandante \in Partes /\ Partes \subseteq Nodos /\ Contratista # Mandante
  BY TratoAssumption, PartesAssumption DEF Partes
<1>2. \A i \in Nat : HiloDe(c, i) = SinHilo
  BY SinHilos
<1>3. \A o \in anunciadas : \A i \in Nat : HiloDe(o, i) = SinHilo
  BY SinHilos DEF EnContra
<1>4. \A o \in anunciadas : Encajan(c, o) /\ \A n : Recuerda(n, c, o) /\ Recuerda(n, o, c)
  BY <1>2, <1>3, SinHiloBien DEF Encajan, Recuerda
<1>5. Buenas(anunciadas') /\ Encajadas(anunciadas')
  BY <1>4, Anunciar DEF HiloInv
<1>6. c.estado \in Nat
  BY Rangos DEF Formada, TipoObra
<1>7. Guarda(Mandante, c, anunciadas')
  <2>1. ~(c.estado <= Contra)
    BY <1>6, Rangos
  <2> QED
    BY <1>4, <2>1, Sustituye
<1>8. ASSUME NEW m \in Partes, m # Mandante, NEW Y, Guarda(m, Y, anunciadas)
      PROVE  Guarda(m, Y, anunciadas')
  BY <1>4, <1>8 DEF Guarda
<1>9. /\ copia'[Mandante] = c /\ vista'[Mandante] = c
      /\ \A m \in Nodos : m # Mandante => copia'[m] = copia[m]
      /\ \A m \in Partes : m # Mandante => vista'[m] = vista[m]
  BY <1>1 DEF TypeOK
<1>10. \A m \in Partes : Guarda(m, copia'[m], anunciadas') /\ Guarda(m, vista'[m], anunciadas')
  <2> SUFFICES ASSUME NEW m \in Partes
               PROVE  Guarda(m, copia'[m], anunciadas') /\ Guarda(m, vista'[m], anunciadas')
    OBVIOUS
  <2>1. m \in Nodos
    BY <1>1
  <2>2. Guarda(m, copia[m], anunciadas) /\ Guarda(m, vista[m], anunciadas)
    BY DEF HiloInv
  <2> QED
    BY <1>7, <1>8, <1>9, <2>1, <2>2
<1>11. \A m \in Nodos : copia'[m] \in anunciadas'
  BY <1>9 DEF HiloInv
<1> QED
  BY <1>5, <1>10, <1>11 DEF HiloInv

-----------------------------------------------------------------------------
(* Merging copies whose stages are all pending gives another.              *)
LEMMA FusionPendiente ==
  ASSUME NEW a, Formada(a), Buena(a), NEW b, Formada(b), Buena(b), Encajan(a, b),
         \A i \in Indices(a) : a.partidas[i].estado = Pendiente,
         \A i \in Indices(b) : b.partidas[i].estado = Pendiente
  PROVE  LET c == FusionarObra(a, b) IN
         /\ c.estado \in {a.estado, b.estado}
         /\ \A i \in Indices(c) : c.partidas[i].estado = Pendiente
<1> DEFINE c == FusionarObra(a, b)
           ps == FusionarPartidas(a.partidas, b.partidas, b.n_partidas)
<1>1. /\ Formada(c)
      /\ \/ c.n_partidas = a.n_partidas /\ c.partidas = a.partidas
         \/ c.n_partidas = b.n_partidas /\ c.partidas = ps
      /\ \/ c.estado \in {a.estado, b.estado}
         \/ c.estado = EnMarcha /\ HayRiesgo(c)
         \/ c.estado = Cerrada /\ TodasPagadas(c.partidas) /\ c.partidas # << >>
  BY FusionarObraEstado
<1> HIDE DEF c
<1>2. /\ Indices(a) = 1 .. a.n_partidas /\ Indices(b) = 1 .. b.n_partidas
      /\ Indices(c) = 1 .. c.n_partidas /\ Formada(c)
  BY <1>1, FormadaIndices
<1>5. \A i \in 1 .. b.n_partidas : ps[i].estado = Pendiente
  BY <1>2, PasadaHilo
<1> HIDE DEF ps
<1>6. \A i \in Indices(c) : c.partidas[i].estado = Pendiente
  BY <1>1, <1>2, <1>5
<1>7. ~HayRiesgo(c)
  BY <1>6, Rangos DEF HayRiesgo
<1>8. ~(TodasPagadas(c.partidas) /\ c.partidas # << >>)
  <2>1. c.partidas # << >> => Indices(c) # {}
    <3>1. c.partidas \in Seq(TipoPartida)
      BY <1>1 DEF Formada, TipoObra
    <3>2. c.partidas # << >> => Len(c.partidas) # 0
      BY <3>1, EmptySeq
    <3>3. Len(c.partidas) \in Nat
      BY <3>1, LenProperties
    <3>4. ASSUME c.partidas # << >>
          PROVE  1 \in Indices(c)
      <4>1. Len(c.partidas) # 0
        BY <3>2, <3>4
      <4>2. 1 \in 1 .. Len(c.partidas)
        BY ONLY <3>3, <4>1
      <4> QED
        BY ONLY <4>2 DEF Indices
    <3> QED
      BY ONLY <3>4
  <2> QED
    BY <1>6, <2>1, Rangos DEF TodasPagadas, Indices
<1>9. c.estado \in {a.estado, b.estado}
  BY <1>1, <1>7, <1>8
<1> QED
  BY <1>6, <1>9 DEF c

(* Merging copies where nothing was done gives one where nothing was done. *)
LEMMA FusionEnContra ==
  ASSUME NEW a, Formada(a), Buena(a), NEW b, Formada(b), Buena(b), Encajan(a, b),
         EnContra({a}), EnContra({b})
  PROVE  EnContra({FusionarObra(a, b)})
<1>1. /\ \A i \in Indices(a) : a.partidas[i].estado = Pendiente
      /\ \A i \in Indices(b) : b.partidas[i].estado = Pendiente
      /\ a.estado \in {Contra, Abandonada} /\ b.estado \in {Contra, Abandonada}
  BY DEF EnContra
<1>2. LET c == FusionarObra(a, b) IN
      /\ c.estado \in {a.estado, b.estado}
      /\ \A i \in Indices(c) : c.partidas[i].estado = Pendiente
  BY <1>1, FusionPendiente
<1> QED
  BY <1>1, <1>2 DEF EnContra

(* A copy that arrives and is merged.                                      *)
LEMMA FusionBien ==
  ASSUME TypeOK, HiloInv, NEW n \in Nodos, NEW b \in anunciadas, NEW c,
         c = FusionarObra(copia[n], b),
         copia' = [copia EXCEPT ![n] = c],
         vista' = vista,
         anunciadas' = anunciadas \cup {c}
  PROVE  HiloInv'
<1> DEFINE a == copia[n]
<1>1. /\ a \in anunciadas /\ Formada(a) /\ Buena(a) /\ Formada(b) /\ Buena(b) /\ Encajan(a, b)
  BY DEF HiloInv, Buenas, Encajadas
<1>2. c = FusionarObra(a, b)
  OBVIOUS
<1> HIDE DEF a
<1>3. /\ Formada(c) /\ Buena(c)
      /\ \A i \in Nat : HiloDe(c, i) \in {HiloDe(a, i), HiloDe(b, i), SinHilo}
      /\ \A i \in Indices(c) : Mas(HiloDe(a, i), HiloDe(c, i))
      /\ \A i \in Indices(a) \ Indices(c) : Cortada(c) \/ HiloDe(a, i) = SinHilo
      /\ Cortada(a) =>
           /\ Cortada(c)
           /\ \A i \in Indices(c) \ Indices(a) :
                HiloDe(c, i) = HiloDe(b, i) /\ HiloDe(c, i).estado = Pagada
  BY <1>1, <1>2, FusionHilo
<1>4. /\ Indices(a) \subseteq Nat /\ Indices(c) \subseteq Nat
      /\ \A o \in anunciadas : Formada(o)
      /\ \A o \in anunciadas : Encajan(a, o) /\ Encajan(b, o)
  BY <1>1, <1>3, FormadaIndices DEF HiloInv, Buenas, Encajadas
<1>5. \A o \in anunciadas : Encajan(c, o)
  <2> SUFFICES ASSUME NEW o \in anunciadas, NEW i \in Nat
               PROVE  /\ Compatibles(HiloDe(c, i), HiloDe(o, i))
                      /\ Compatibles(HiloDe(o, i), HiloDe(c, i))
    BY DEF Encajan
  <2>1. HiloDe(o, i) \in TipoHilo
    BY <1>4, HiloTipo
  <2>2. HiloDe(c, i) \in {HiloDe(a, i), HiloDe(b, i), SinHilo}
    BY <1>3
  <2>3. /\ Compatibles(HiloDe(a, i), HiloDe(o, i)) /\ Compatibles(HiloDe(o, i), HiloDe(a, i))
        /\ Compatibles(HiloDe(b, i), HiloDe(o, i)) /\ Compatibles(HiloDe(o, i), HiloDe(b, i))
    BY <1>4 DEF Encajan
  <2> QED
    BY <2>1, <2>2, <2>3, SinHiloBien
<1>6. EnContra(anunciadas) => EnContra({c})
  <2> SUFFICES ASSUME EnContra(anunciadas)
               PROVE  EnContra({c})
    OBVIOUS
  <2>1. EnContra({a}) /\ EnContra({b})
    BY <1>1 DEF EnContra
  <2> QED
    BY <1>1, <1>2, <2>1, FusionEnContra
<1>7. ASSUME NEW m \in Partes, NEW Y, Guarda(m, Y, anunciadas)
      PROVE  Guarda(m, Y, anunciadas \cup {c})
  <2>1. Recuerda(m, Y, a) /\ Recuerda(m, Y, b)
    BY <1>1, <1>7 DEF Guarda
  <2>2. Recuerda(m, Y, c)
    BY <1>3, <2>1, SinHiloBien DEF Recuerda
  <2> QED
    BY <1>6, <1>7, <2>2, Guardar1
<1>8. ASSUME n \in Partes
      PROVE  Guarda(n, c, anunciadas \cup {c})
  <2>1. Guarda(n, a, anunciadas)
    BY <1>8 DEF HiloInv, a
  <2>2. \A o \in anunciadas : Recuerda(n, c, o)
    <3> SUFFICES ASSUME NEW o \in anunciadas, NEW i \in Nat
                 PROVE  \/ Suyo(n, HiloDe(c, i), HiloDe(o, i))
                        \/ i \notin Indices(c) /\ Cortada(c)
      BY DEF Recuerda
    <3>1. \/ Suyo(n, HiloDe(a, i), HiloDe(o, i))
          \/ i \notin Indices(a) /\ Cortada(a)
      BY <2>1 DEF Guarda, Recuerda
    <3>2. HiloDe(a, i) \in TipoHilo /\ HiloDe(c, i) \in TipoHilo /\ HiloDe(o, i) \in TipoHilo
      BY <1>1, <1>3, <1>4, HiloTipo
    <3>3. CASE i \in Indices(c) /\ Suyo(n, HiloDe(a, i), HiloDe(o, i))
      BY <1>3, <3>2, <3>3, SuyoMas
    <3>4. CASE i \in Indices(c) /\ i \notin Indices(a) /\ Cortada(a)
      <4>1. HiloDe(c, i) = HiloDe(b, i) /\ HiloDe(c, i).estado = Pagada
        BY <1>3, <3>4
      <4>2. Compatibles(HiloDe(c, i), HiloDe(o, i))
        BY <1>4, <4>1 DEF Encajan
      <4>3. Len(HiloDe(o, i).notas) <= Len(HiloDe(c, i).notas)
        BY <4>1, <4>2 DEF Compatibles
      <4>4. Len(HiloDe(o, i).notas) \in Nat /\ Len(HiloDe(c, i).notas) \in Nat
        BY <3>2, LenProperties DEF TipoHilo
      <4> QED
        BY <4>1, <4>3, <4>4 DEF Suyo
    <3>5. CASE i \notin Indices(c)
      <4>1. CASE Cortada(c)
        BY <3>5, <4>1
      <4>2. CASE ~Cortada(c)
        <5>1. HiloDe(a, i) = SinHilo
          BY <1>3, <3>5, <4>2 DEF HiloDe
        <5>2. HiloDe(c, i) = SinHilo
          BY <3>5 DEF HiloDe
        <5>3. ~Cortada(a)
          BY <1>3, <4>2
        <5> QED
          BY <3>1, <5>1, <5>2, <5>3
      <4> QED
        BY <4>1, <4>2
    <3> QED
      BY <3>1, <3>3, <3>4, <3>5
  <2>3. n = Mandante /\ c.estado <= Contra => EnContra(anunciadas) /\ EnContra({c})
    <3>1. c.estado >= a.estado /\ c.estado \in Nat /\ a.estado \in Nat
      <4>1. a.estado \in Nat /\ c.estado \in Nat
        <5>1. \A o : Formada(o) => o.estado \in Nat
          BY Rangos DEF Formada, TipoObra
        <5> QED
          BY <1>1, <1>3, <5>1
      <4>2. c.estado >= a.estado
        BY <1>1, <1>2, FusionarObraEstado
      <4> QED
        BY <4>1, <4>2
    <3>2. c.estado <= Contra => a.estado <= Contra
      BY <3>1, Rangos
    <3> QED
      BY <1>6, <2>1, <3>2 DEF Guarda
  <2> QED
    BY <1>3, <2>2, <2>3, Sustituye
<1>9. Buenas(anunciadas') /\ Encajadas(anunciadas')
  BY <1>3, <1>5, Anunciar DEF HiloInv
<1>10. /\ copia'[n] = c
       /\ \A m \in Nodos : m # n => copia'[m] = copia[m]
  BY DEF TypeOK
<1>11. \A m \in Partes : Guarda(m, copia'[m], anunciadas') /\ Guarda(m, vista'[m], anunciadas')
  <2> SUFFICES ASSUME NEW m \in Partes
               PROVE  Guarda(m, copia'[m], anunciadas') /\ Guarda(m, vista'[m], anunciadas')
    OBVIOUS
  <2>1. m \in Nodos
    BY TratoAssumption
  <2>2. Guarda(m, copia[m], anunciadas) /\ Guarda(m, vista[m], anunciadas)
    BY DEF HiloInv
  <2> QED
    BY <1>7, <1>8, <1>10, <2>1, <2>2
<1>12. \A m \in Nodos : copia'[m] \in anunciadas'
  BY <1>10 DEF HiloInv
<1> QED
  BY <1>9, <1>11, <1>12 DEF HiloInv

-----------------------------------------------------------------------------
(* Each operation makes such a copy.                                       *)

(* It replaces one stage.                                                  *)
LEMMA DerivaUna ==
  ASSUME NEW n \in Partes, NEW X, Formada(X), Buena(X), NEW i \in Indices(X),
         NEW c, Formada(c), Indices(c) = Indices(X),
         \A j \in Indices(X) : j # i => c.partidas[j] = X.partidas[j],
         PartidaBien(c.partidas[i]),
         Hace(n, Hilo(X.partidas[i]), Hilo(c.partidas[i])),
         c.estado = Cerrada => TodasPagadas(c.partidas),
         c.estado < EnMarcha => X.estado < EnMarcha /\ c.partidas[i].estado = Pendiente,
         Cortada(X) => Cortada(c),
         c.estado <= Contra => X.estado <= Contra,
         EnContra({X}) => c.estado \in {Contra, Abandonada} /\ c.partidas[i].estado = Pendiente
  PROVE  /\ Deriva(n, X, c)
         /\ Callada(X, c, {i})
         /\ c.partidas[i].notas = X.partidas[i].notas => Callada(X, c, {})
<1>1. Buena(c)
  BY DEF Buena
<1>2. \A j \in Indices(X) : Hace(n, HiloDe(X, j), HiloDe(c, j))
  BY DEF Hace, HiloDe
<1>3. EnContra({X}) => EnContra({c})
  BY DEF EnContra
<1>4. \A p : PartidaBien(p) => Hilo(p).notas = p.notas
  BY DEF PartidaBien, Hilo, SinHilo
<1>5. /\ Callada(X, c, {i})
      /\ c.partidas[i].notas = X.partidas[i].notas => Callada(X, c, {})
  BY <1>4 DEF Callada, HiloDe, Buena
<1> QED
  BY <1>1, <1>2, <1>3, <1>5 DEF Deriva

(* It leaves the stages alone.                                             *)
LEMMA DerivaMismas ==
  ASSUME NEW n \in Partes, NEW X, Formada(X), Buena(X), NEW c, Formada(c),
         c.partidas = X.partidas, c.estado = X.estado \/ c.estado = Abandonada
  PROVE  Deriva(n, X, c) /\ Callada(X, c, {})
<1>1. Indices(c) = Indices(X)
  BY DEF Indices
<1>2. X.estado \in Nat
  BY EstadoNat
<1>3. Buena(c)
  BY <1>1, <1>2, Rangos DEF Buena
<1>4. \A i \in Indices(X) : Hace(n, HiloDe(X, i), HiloDe(c, i))
  BY <1>1 DEF Hace, HiloDe
<1>5. EnContra({X}) => EnContra({c})
  BY <1>1 DEF EnContra
<1>6. /\ Cortada(X) => Cortada(c)
      /\ c.estado <= Contra => X.estado <= Contra
  BY <1>2, Rangos DEF Cortada
<1>7. Callada(X, c, {})
  BY <1>1 DEF Callada, HiloDe
<1> QED
  BY <1>1, <1>3, <1>4, <1>5, <1>6, <1>7 DEF Deriva

(* The operations on the deal: an extra stage, a closure.                  *)
LEMMA DerivaDeTrato ==
  ASSUME NEW n \in Partes, NEW X, Formada(X), Buena(X)
  PROVE  /\ \A monto \in Nat :
              LET c == ProponerExtra(X, n, DetalleOferta, monto) IN
              Deriva(n, X, c) /\ Callada(X, c, {})
         /\ \A c \in {RechazarExtra(X, n), Abandonar(X, n), AceptarCierre(X, n), RechazarCierre(X, n)} :
              Deriva(n, X, c) /\ Callada(X, c, {})
<1>1. X \in TipoObra
  BY DEF Formada
<1>2. ASSUME NEW monto \in Nat
      PROVE  LET c == ProponerExtra(X, n, DetalleOferta, monto) IN
             Deriva(n, X, c) /\ Callada(X, c, {})
  <2> DEFINE c == ProponerExtra(X, n, DetalleOferta, monto)
  <2>1. c.partidas = X.partidas /\ c.estado = X.estado
    BY <1>1 DEF ProponerExtra, TipoObra
  <2>2. Formada(c)
    BY <1>2, ProponerExtraBien
  <2> HIDE DEF c
  <2>3. Deriva(n, X, c) /\ Callada(X, c, {})
    BY <2>1, <2>2, DerivaMismas
  <2> QED
    BY <2>3 DEF c
<1>3. Deriva(n, X, RechazarExtra(X, n)) /\ Callada(X, RechazarExtra(X, n), {})
  <2>1. RechazarExtra(X, n).partidas = X.partidas /\ RechazarExtra(X, n).estado = X.estado
    BY <1>1 DEF RechazarExtra, TipoObra
  <2> QED
    BY <2>1, RechazarExtraBien, DerivaMismas
<1>4. /\ AceptarCierre(X, n).partidas = X.partidas /\ AceptarCierre(X, n).estado = Abandonada
      /\ RechazarCierre(X, n).partidas = X.partidas /\ RechazarCierre(X, n).estado = X.estado
      /\ Abandonar(X, n).partidas = X.partidas
      /\ Abandonar(X, n).estado \in {X.estado, Abandonada}
  BY <1>1 DEF AceptarCierre, RechazarCierre, Abandonar, TipoObra
<1>5. /\ Deriva(n, X, AceptarCierre(X, n)) /\ Callada(X, AceptarCierre(X, n), {})
      /\ Deriva(n, X, RechazarCierre(X, n)) /\ Callada(X, RechazarCierre(X, n), {})
      /\ Deriva(n, X, Abandonar(X, n)) /\ Callada(X, Abandonar(X, n), {})
  BY <1>4, CortarBien, DerivaMismas
<1> QED
  BY <1>2, <1>3, <1>5

(* An extra stage is accepted: a new stage at the end.                     *)
LEMMA DerivaExtra ==
  ASSUME NEW n \in Partes, NEW X, Formada(X), Buena(X), PuedeResponderExtra(X, n)
  PROVE  Deriva(n, X, AceptarExtra(X, n)) /\ Callada(X, AceptarExtra(X, n), {})
<1> DEFINE c == AceptarExtra(X, n)
           p == PendienteMonto(X.extra.detalle, X.extra.monto)
<1>1. /\ X \in TipoObra /\ Len(X.partidas) = X.n_partidas /\ X.partidas \in Seq(TipoPartida)
      /\ X.n_partidas \in Nat /\ Indices(X) = 1 .. X.n_partidas
  BY FormadaIndices DEF Formada, TipoObra
<1>2. /\ c.partidas = Append(X.partidas, p) /\ c.n_partidas = X.n_partidas + 1
      /\ c.estado = X.estado
  BY <1>1 DEF AceptarExtra, TipoObra
<1>3. Formada(c)
  BY AceptarExtraBien
<1> HIDE DEF c
<1>4. Indices(c) = 1 .. X.n_partidas + 1
  BY <1>2, <1>3, FormadaIndices
<1>5. X.extra.detalle \in Titulos /\ X.extra.monto \in Nat
  BY <1>1 DEF TipoObra, TipoExtra
<1>6. PartidaBien(p) /\ Hilo(p) = SinHilo /\ p.estado = Pendiente /\ p \in TipoPartida
  BY <1>5, NuevaBien, PendienteTipo
<1> HIDE DEF p
<1>7. /\ \A i \in Indices(X) : c.partidas[i] = X.partidas[i]
      /\ \A i \in Indices(c) \ Indices(X) : c.partidas[i] = p
  BY <1>1, <1>2, <1>4, <1>6
<1>8. Indices(X) \subseteq Indices(c)
  BY <1>1, <1>4
<1>9. X.estado \in {Acordada, EnMarcha}
  BY DEF PuedeResponderExtra, ExtraEnCurso
<1>10. \A i \in Indices(c) : PartidaBien(c.partidas[i])
  BY <1>6, <1>7 DEF Buena
<1>11. c.estado < EnMarcha => \A i \in Indices(c) : c.partidas[i].estado = Pendiente
  BY <1>2, <1>6, <1>7 DEF Buena
<1>12. Buena(c)
  <2>1. c.estado # Cerrada
    BY <1>2, <1>9, Rangos
  <2> QED
    BY <1>10, <1>11, <2>1 DEF Buena
<1>13. /\ \A i \in Indices(X) : Hace(n, HiloDe(X, i), HiloDe(c, i))
       /\ \A i \in Indices(c) \ Indices(X) : HiloDe(c, i) = SinHilo
  BY <1>6, <1>7, <1>8 DEF Hace, HiloDe
<1>14. ~Cortada(X) /\ ~EnContra({X})
  BY <1>9, Rangos DEF Cortada, EnContra
<1>15. Deriva(n, X, c)
  BY <1>2, <1>3, <1>8, <1>12, <1>13, <1>14 DEF Deriva
<1>16. Callada(X, c, {})
  BY <1>7, <1>8 DEF Callada, HiloDe
<1> QED
  BY <1>15, <1>16 DEF c

(* The lock of a stage is proposed or cancelled, a title is edited: there  *)
(* is no thread yet.                                                       *)
LEMMA DerivaSinHilo ==
  ASSUME NEW n \in Partes, NEW X, Formada(X), Buena(X), NEW i \in Indices(X),
         NEW c, Formada(c), NEW p \in TipoPartida,
         c.partidas = [X.partidas EXCEPT ![i] = p],
         p.estado < EnTrato, X.partidas[i].estado < EnTrato, MismoHilo(X.partidas[i], p),
         c.estado # Cerrada, X.estado \notin Terminales,
         \/ c.estado = EnMarcha /\ X.estado # Contra
         \/ c.estado = X.estado /\ p.estado = Pendiente
         \/ c.estado = X.estado /\ X.partidas[i].estado # Pendiente
  PROVE  Deriva(n, X, c) /\ Callada(X, c, {})
<1>1. /\ X.partidas \in [1 .. X.n_partidas -> TipoPartida] /\ Indices(X) = 1 .. X.n_partidas
      /\ X.estado \in Nat
  BY FormadaIndices, EstadoNat
<1>2. /\ c.partidas[i] = p /\ Indices(c) = Indices(X)
      /\ \A j \in Indices(X) : j # i => c.partidas[j] = X.partidas[j]
  BY <1>1 DEF Indices
<1>3. PartidaBien(X.partidas[i])
  BY DEF Buena
<1>4. X.partidas[i].estado \in Nat /\ p.estado \in Nat
  <2>1. X.partidas[i] \in TipoPartida
    BY FormadaIndices
  <2> QED
    BY <2>1, EstadoPartida
<1>5. PartidaBien(p)
  BY <1>3, <1>4, Rangos DEF PartidaBien, MismoHilo
<1>6. Hace(n, Hilo(X.partidas[i]), Hilo(p))
  BY DEF Hace, Hilo
<1>7. X.estado < EnMarcha => X.partidas[i].estado = Pendiente
  BY DEF Buena
<1>8. c.estado < EnMarcha => X.estado < EnMarcha /\ p.estado = Pendiente
  BY <1>1, <1>7, Rangos
<1>9. ~Cortada(X)
  BY DEF Cortada, Terminales
<1>10. c.estado <= Contra => X.estado <= Contra
  BY <1>1, Rangos
<1>11. EnContra({X}) => c.estado \in {Contra, Abandonada} /\ p.estado = Pendiente
  BY <1>1, Rangos DEF EnContra, Terminales
<1> QED
  BY <1>2, <1>5, <1>6, <1>8, <1>9, <1>10, <1>11, DerivaUna DEF MismoHilo

LEMMA DerivaProponer ==
  ASSUME NEW n \in Partes, NEW X, Formada(X), Buena(X), NEW i, NEW precio \in Nat,
         Abierta(X), X.estado # Contra, PuedeProponer(X, i, n, precio)
  PROVE  Deriva(n, X, Proponer(X, i, n, precio)) /\ Callada(X, Proponer(X, i, n, precio), {})
<1> DEFINE p == Propuesta(X.partidas[i], n, precio)
           c == Proponer(X, i, n, precio)
<1>1. i \in Indices(X) /\ X.partidas[i] \in TipoPartida /\ X.partidas[i].estado = Pendiente
  BY FormadaIndices DEF PuedeProponer
<1>2. p \in TipoPartida
  BY <1>1, PropuestaTipo
<1>3. p.estado = Encerrando /\ MismoHilo(X.partidas[i], p)
  BY <1>1 DEF Propuesta, TipoPartida, MismoHilo
<1>4. c.partidas = [X.partidas EXCEPT ![i] = p] /\ c.estado = EnMarcha
  BY DEF Proponer, Formada, TipoObra
<1>5. Formada(c)
  BY ProponerBien
<1> HIDE DEF p, c
<1>6. Deriva(n, X, c) /\ Callada(X, c, {})
  BY <1>1, <1>2, <1>3, <1>4, <1>5, DerivaSinHilo, Rangos DEF Abierta
<1> QED
  BY <1>6 DEF c

LEMMA DerivaCancelar ==
  ASSUME NEW n \in Partes, NEW X, Formada(X), Buena(X), NEW i,
         Abierta(X), PuedeCancelar(X, i, n)
  PROVE  Deriva(n, X, Cancelar(X, i, n)) /\ Callada(X, Cancelar(X, i, n), {})
<1> DEFINE p == Cancelada(X.partidas[i])
           c == Cancelar(X, i, n)
<1>1. i \in Indices(X) /\ X.partidas[i] \in TipoPartida /\ X.partidas[i].estado = Encerrando
  BY FormadaIndices DEF PuedeCancelar
<1>2. p \in TipoPartida
  BY <1>1, CanceladaTipo
<1>3. p.estado = Pendiente /\ MismoHilo(X.partidas[i], p)
  BY <1>1 DEF Cancelada, TipoPartida, MismoHilo
<1>4. c.partidas = [X.partidas EXCEPT ![i] = p] /\ c.estado = X.estado
  BY DEF Cancelar, Formada, TipoObra
<1>5. Formada(c)
  BY CancelarBien
<1> HIDE DEF p, c
<1>6. Deriva(n, X, c) /\ Callada(X, c, {})
  BY <1>1, <1>2, <1>3, <1>4, <1>5, DerivaSinHilo, Rangos DEF Abierta, Terminales
<1> QED
  BY <1>6 DEF c

LEMMA DerivaEditar ==
  ASSUME NEW n \in Partes, NEW X, Formada(X), Buena(X), NEW i, NEW texto \in Textos,
         PuedeEditar(X, i, n)
  PROVE  Deriva(n, X, EditarDetalle(X, i, n, texto)) /\ Callada(X, EditarDetalle(X, i, n, texto), {})
<1> DEFINE p == [X.partidas[i] EXCEPT !.detalle = texto]
           c == EditarDetalle(X, i, n, texto)
<1>1. /\ i \in Indices(X) /\ X.partidas[i] \in TipoPartida /\ X.partidas[i].estado = Pendiente
      /\ X.estado \notin Terminales /\ texto \in Titulos
  BY FormadaIndices DEF PuedeEditar, Titulos
<1>2. p \in TipoPartida /\ p.estado = Pendiente /\ MismoHilo(X.partidas[i], p)
  BY <1>1, ZenonT(60) DEF TipoPartida, MismoHilo
<1>3. c.partidas = [X.partidas EXCEPT ![i] = p] /\ c.estado = X.estado
  BY DEF EditarDetalle, Formada, TipoObra
<1>4. Formada(c)
  BY EditarBien
<1> HIDE DEF p, c
<1>5. Deriva(n, X, c) /\ Callada(X, c, {})
  BY <1>1, <1>2, <1>3, <1>4, DerivaSinHilo, Rangos DEF Terminales
<1> QED
  BY <1>5 DEF c

(* A note is written (avisar_termino, contra_pago).                        *)
LEMMA NotaBien ==
  ASSUME NEW n \in Partes, NEW p \in TipoPartida, PartidaBien(p), p.estado < Pagada,
         De(Len(p.notas) + 1) = n, NEW pct \in Pcts, NEW q \in TipoPartida,
         q.estado = EnTrato, q.propuesto = pct, q.turno = Otro(n),
         q.notas = Append(p.notas, [autor |-> n, porcentaje |-> pct]),
         q.pago = p.pago, q.recibo = p.recibo
  PROVE  PartidaBien(q) /\ Hace(n, Hilo(p), Hilo(q))
<1> DEFINE nota == [autor |-> n, porcentaje |-> pct]
<1>1. p.notas \in Seq(Nota) /\ Len(p.notas) \in Nat /\ p.estado \in Nat
  BY LenProperties, Rangos DEF TipoPartida
<1>2. nota \in Nota /\ nota.autor = n /\ nota.porcentaje = pct
  BY PctsAssumption DEF Nota
<1> HIDE DEF nota
<1>3. /\ Len(q.notas) = Len(p.notas) + 1 /\ q.notas[Len(p.notas) + 1] = nota
      /\ \A k \in 1 .. Len(p.notas) : q.notas[k] = p.notas[k]
  BY <1>1, <1>2 DEF nota
<1>4. \A k \in 1 .. Len(q.notas) : q.notas[k].autor = De(k)
  <2> SUFFICES ASSUME NEW k \in 1 .. Len(q.notas)
               PROVE  q.notas[k].autor = De(k)
    OBVIOUS
  <2>1. CASE k \in 1 .. Len(p.notas)
    BY <1>3, <2>1 DEF PartidaBien
  <2>2. CASE k = Len(p.notas) + 1
    BY <1>2, <1>3, <2>2
  <2> QED
    BY <1>1, <1>3, <2>1, <2>2
<1>5. q.notas # << >> /\ Ultima(q).porcentaje = pct
  BY <1>1, <1>2, <1>3 DEF Ultima
<1>6. De(Len(q.notas) + 1) = Otro(n)
  <2>1. Len(p.notas) + 1 \in Nat
    BY <1>1
  <2> QED
    BY <1>3, <2>1, DeBien
<1>7. PartidaBien(q)
  BY <1>1, <1>4, <1>5, <1>6, Rangos DEF PartidaBien
<1>8. /\ Hilo(q).estado = EnTrato /\ Hilo(q).notas = Append(p.notas, nota)
      /\ Hilo(p).notas = p.notas /\ Hilo(p).estado # Pagada
  BY <1>1, Rangos DEF Hilo, SinHilo, PartidaBien, nota
<1>9. Hace(n, Hilo(p), Hilo(q))
  BY <1>2, <1>8 DEF Hace
<1> QED
  BY <1>7, <1>9

(* The stage that the note is written in, and the deal around it.          *)
LEMMA DerivaNota ==
  ASSUME NEW n \in Partes, NEW X, Formada(X), Buena(X), NEW i \in Indices(X),
         NEW c, Formada(c), NEW p \in TipoPartida, Abierta(X), c.estado = X.estado,
         c.partidas = [X.partidas EXCEPT ![i] = p],
         X.partidas[i].estado # Pendiente,
         PartidaBien(p), Hace(n, Hilo(X.partidas[i]), Hilo(p))
  PROVE  Deriva(n, X, c) /\ Callada(X, c, {i})
<1>1. /\ X.partidas \in [1 .. X.n_partidas -> TipoPartida] /\ Indices(X) = 1 .. X.n_partidas
      /\ X.estado \in Nat
  BY FormadaIndices, EstadoNat
<1>2. /\ c.partidas[i] = p /\ Indices(c) = Indices(X)
      /\ \A j \in Indices(X) : j # i => c.partidas[j] = X.partidas[j]
  BY <1>1 DEF Indices
<1>3. ~(X.estado < EnMarcha) /\ ~EnContra({X})
  BY DEF Buena, EnContra
<1>4. ~Cortada(X) /\ X.estado # Cerrada
  BY DEF Abierta, Cortada, Terminales
<1> QED
  BY <1>2, <1>3, <1>4, DerivaUna

LEMMA DerivaAvisar ==
  ASSUME NEW n \in Partes, NEW X, Formada(X), Buena(X), NEW i, NEW pct \in Pcts,
         Abierta(X), PuedeAvisar(X, i, n, pct)
  PROVE  Deriva(n, X, AvisarTermino(X, i, n, pct)) /\ Callada(X, AvisarTermino(X, i, n, pct), {i})
<1> DEFINE p == X.partidas[i]
           a == Anotar(p, n, pct)
           q == [a EXCEPT !.estado = EnTrato]
           c == AvisarTermino(X, i, n, pct)
<1>1. /\ i \in Indices(X) /\ p \in TipoPartida /\ p.estado = Encerrada /\ n = Contratista
      /\ PartidaBien(p)
  BY FormadaIndices DEF PuedeAvisar, Buena
<1> HIDE DEF p
<1>2. a \in TipoPartida
  BY <1>1, AnotarTipo
<1>3. /\ a.propuesto = pct /\ a.turno = Otro(n)
      /\ a.notas = Append(p.notas, [autor |-> n, porcentaje |-> pct])
      /\ a.pago = p.pago /\ a.recibo = p.recibo
  BY <1>1 DEF Anotar, TipoPartida
<1>4. c.partidas = [X.partidas EXCEPT ![i] = q] /\ c.estado = X.estado
  BY DEF AvisarTermino, Formada, TipoObra, p
<1> HIDE DEF a
<1>5. EnTrato \in Pendiente .. Pagada
  BY Rangos
<1>6. /\ q \in TipoPartida /\ q.estado = EnTrato /\ q.propuesto = a.propuesto
      /\ q.turno = a.turno /\ q.notas = a.notas /\ q.pago = a.pago /\ q.recibo = a.recibo
  BY <1>2, <1>5 DEF TipoPartida
<1>7. Formada(c)
  BY AvisarBien
<1> HIDE DEF q, c
<1>8. Len(p.notas) = 0 /\ p.estado < Pagada
  BY <1>1, Rangos DEF PartidaBien
<1>9. De(Len(p.notas) + 1) = n
  BY <1>1, <1>8, DeUno
<1>10. PartidaBien(q) /\ Hace(n, Hilo(p), Hilo(q))
  BY <1>1, <1>3, <1>6, <1>8, <1>9, NotaBien
<1>11. Deriva(n, X, c) /\ Callada(X, c, {i})
  BY <1>1, <1>4, <1>6, <1>7, <1>10, DerivaNota, Rangos DEF p
<1> QED
  BY <1>11 DEF c

LEMMA DerivaContraPago ==
  ASSUME NEW n \in Partes, NEW X, Formada(X), Buena(X), NEW i, NEW pct \in Pcts,
         Abierta(X), PuedeContraPago(X, i, n, pct)
  PROVE  Deriva(n, X, ContraPago(X, i, n, pct)) /\ Callada(X, ContraPago(X, i, n, pct), {i})
<1> DEFINE p == X.partidas[i]
           q == Anotar(p, n, pct)
           c == ContraPago(X, i, n, pct)
<1>1. /\ i \in Indices(X) /\ p \in TipoPartida /\ p.estado = EnTrato /\ p.turno = n
      /\ PartidaBien(p)
  BY FormadaIndices DEF PuedeContraPago, MeToca, Buena
<1> HIDE DEF p
<1>2. q \in TipoPartida /\ q.estado = EnTrato
  BY <1>1, AnotarTipo
<1>3. /\ q.propuesto = pct /\ q.turno = Otro(n)
      /\ q.notas = Append(p.notas, [autor |-> n, porcentaje |-> pct])
      /\ q.pago = p.pago /\ q.recibo = p.recibo
  BY <1>1 DEF Anotar, TipoPartida
<1>4. c.partidas = [X.partidas EXCEPT ![i] = q] /\ c.estado = X.estado
  BY DEF ContraPago, Formada, TipoObra, p
<1>5. Formada(c)
  BY ContraPagoBien
<1> HIDE DEF q, c
<1>6. De(Len(p.notas) + 1) = n /\ p.estado < Pagada
  BY <1>1, Rangos DEF PartidaBien
<1>7. PartidaBien(q) /\ Hace(n, Hilo(p), Hilo(q))
  BY <1>1, <1>2, <1>3, <1>6, NotaBien
<1>8. Deriva(n, X, c) /\ Callada(X, c, {i})
  BY <1>1, <1>2, <1>4, <1>5, <1>7, DerivaNota, Rangos DEF p
<1> QED
  BY <1>8 DEF c

(* The lock of a stage is confirmed.                                       *)
LEMMA DerivaConfirmar ==
  ASSUME NEW n \in Partes, NEW X, Formada(X), Buena(X), NEW i, PuedeConfirmar(X, i, n)
  PROVE  LET c == ConFondeo(Confirmar(X, i, n), i) IN Deriva(n, X, c) /\ Callada(X, c, {})
<1> DEFINE c == ConFondeo(Confirmar(X, i, n), i)
<1>1. i \in Indices(X) /\ X.partidas[i].estado = Encerrando /\ PartidaBien(X.partidas[i])
  BY DEF PuedeConfirmar, Buena
<1>2. /\ Formada(c) /\ Indices(c) = Indices(X)
      /\ c.partidas[i].estado = Encerrada /\ MismoHilo(X.partidas[i], c.partidas[i])
      /\ \A j \in Indices(X) : j # i => c.partidas[j] = X.partidas[j]
      /\ c.estado = X.estado
  BY ConfirmarBien
<1> HIDE DEF c
<1>3. PartidaBien(c.partidas[i])
  BY <1>1, <1>2, Rangos DEF PartidaBien, MismoHilo
<1>4. Hace(n, Hilo(X.partidas[i]), Hilo(c.partidas[i]))
  BY <1>1, <1>2, Rangos DEF Hace, Hilo
<1>5. ~(X.estado < EnMarcha) /\ ~EnContra({X})
  BY <1>1, Rangos DEF Buena, EnContra
<1>6. X.estado # Cerrada
  BY <1>1, Rangos DEF Buena, TodasPagadas, Indices
<1>7. Cortada(X) => Cortada(c)
  BY <1>2 DEF Cortada
<1>8. Deriva(n, X, c) /\ Callada(X, c, {})
  BY <1>1, <1>2, <1>3, <1>4, <1>5, <1>6, <1>7, DerivaUna DEF MismoHilo
<1> QED
  BY <1>8 DEF c

(* The last percentage of a stage is accepted.                             *)
LEMMA DerivaAceptar ==
  ASSUME NEW n \in Partes, NEW X, Formada(X), Buena(X), NEW i, PuedeAceptarPago(X, i, n)
  PROVE  LET c == ConPago(AceptarPago(X, i, n), i) IN Deriva(n, X, c) /\ Callada(X, c, {})
<1> DEFINE c == ConPago(AceptarPago(X, i, n), i)
           p == X.partidas[i]
           q == c.partidas[i]
<1>1. /\ i \in Indices(X) /\ p.estado = EnTrato /\ p.turno = n /\ PartidaBien(p)
      /\ p \in TipoPartida
  BY FormadaIndices DEF PuedeAceptarPago, MeToca, Buena
<1>2. /\ Formada(c) /\ Indices(c) = Indices(X)
      /\ q.estado = Pagada /\ Aceptada(X, p, q, n)
      /\ \A j \in Indices(X) : j # i => c.partidas[j] = X.partidas[j]
      /\ c.estado = IF TodasPagadas(c.partidas) THEN Cerrada ELSE X.estado
  BY AceptarBien
<1> HIDE DEF c
<1>3. De(Len(p.notas) + 1) = n /\ p.notas # << >>
  BY <1>1, Rangos DEF PartidaBien
<1>4. PartidaBien(q)
  <2> HIDE DEF p, q
  <2> QED
    BY <1>1, <1>2, <1>3, Rangos DEF PartidaBien, Aceptada, Ultima
<1>5. Hace(n, Hilo(p), Hilo(q))
  <2> HIDE DEF p, q
  <2>1. /\ Hilo(p).estado = EnTrato /\ Hilo(p).notas = p.notas
        /\ Hilo(q).estado = Pagada /\ Hilo(q).notas = p.notas
    BY <1>1, <1>2, Rangos DEF Hilo, Aceptada
  <2> QED
    BY <1>3, <2>1, Rangos DEF Hace
<1>6. ~(X.estado < EnMarcha) /\ ~EnContra({X}) /\ X.estado \in Nat
  BY <1>1, EstadoNat, Rangos DEF Buena, EnContra
<1>7. X.estado # Cerrada
  BY <1>1, Rangos DEF Buena, TodasPagadas, Indices
<1>8. /\ c.estado = Cerrada => TodasPagadas(c.partidas)
      /\ ~(c.estado < EnMarcha) /\ ~(c.estado <= Contra)
      /\ Cortada(X) => Cortada(c)
  BY <1>2, <1>6, <1>7, Rangos DEF Cortada
<1>9. Deriva(n, X, c) /\ Callada(X, c, {})
  BY <1>1, <1>2, <1>4, <1>5, <1>6, <1>8, DerivaUna DEF Aceptada
<1> QED
  BY <1>9 DEF c

(* The principal answers the counter-offer: every stage is new.            *)
LEMMA RespuestaBien ==
  ASSUME NEW X, Formada(X), Buena(X), X.estado = Contra,
         PuedeConfirmarContra(X, Mandante)
  PROVE  /\ Formada(ConfirmarContra(X, Mandante)) /\ Buena(ConfirmarContra(X, Mandante))
         /\ ConfirmarContra(X, Mandante).estado = Acordada
         /\ \A i \in Indices(ConfirmarContra(X, Mandante)) :
              ConfirmarContra(X, Mandante).partidas[i].estado = Pendiente
         /\ Formada(RechazarContra(X, Mandante)) /\ Buena(RechazarContra(X, Mandante))
         /\ RechazarContra(X, Mandante).estado = Rechazada
         /\ \A i \in Indices(RechazarContra(X, Mandante)) :
              RechazarContra(X, Mandante).partidas[i].estado = Pendiente
<1>1. X \in TipoObra /\ Mandante \in Partes /\ PuedeRechazarContra(X, Mandante)
  BY DEF Formada, Partes, PuedeRechazarContra, PuedeConfirmarContra
<1>2. \A d \in Titulos : /\ PartidaBien(NuevaPartida(d))
                         /\ NuevaPartida(d).estado = Pendiente
  BY NuevaBien DEF NuevaPartida
<1>3. /\ Formada(ConfirmarContra(X, Mandante)) /\ Formada(RechazarContra(X, Mandante))
  BY <1>1, ConfirmarContraBien, RechazarContraBien
<1>4. \A i \in Indices(X) : X.partidas[i].estado = Pendiente /\ PartidaBien(X.partidas[i])
  BY Rangos DEF Buena
<1>5. \A i \in Indices(ConfirmarContra(X, Mandante)) :
        LET p == ConfirmarContra(X, Mandante).partidas[i] IN
        p.estado = Pendiente /\ PartidaBien(p)
  <2> DEFINE m == NPartidas(TrabajoOferta, X.contra)
  <2>1. ConfirmarContra(X, Mandante).partidas = Pendientes(m, DetalleOferta)
    BY <1>1 DEF ConfirmarContra, TipoObra
  <2> HIDE DEF m
  <2> QED
    BY <1>2, <2>1 DEF Pendientes, Indices, Titulos
<1>6. \A i \in Indices(RechazarContra(X, Mandante)) :
        LET p == RechazarContra(X, Mandante).partidas[i] IN
        p.estado = Pendiente /\ PartidaBien(p)
  <2> DEFINE divide == X.trabajo > 0 /\ X.trabajo % GarantiaPublicada = 0
             m == NPartidas(X.trabajo, GarantiaPublicada)
             ps == [i \in 1 .. m |-> NuevaPartida(Ajustar(X.partidas, m)[i].detalle)]
  <2>1. RechazarContra(X, Mandante).partidas = IF divide THEN ps ELSE X.partidas
    BY <1>1 DEF RechazarContra, TipoObra
  <2>2. m \in Nat
    BY <1>1, NPartidasNat, ObraAssumption DEF TipoObra, Divide
  <2> HIDE DEF m, divide
  <2>3. \A i \in 1 .. m : Ajustar(X.partidas, m)[i].detalle \in Titulos
    <3>1. \A i \in 1 .. m : Ajustar(X.partidas, m)[i] \in TipoPartida
      BY <1>1, <2>2, AjustarTipo DEF TipoObra
    <3> QED
      BY <3>1 DEF TipoPartida
  <2>4. DOMAIN ps = 1 .. m /\ \A i \in 1 .. m : ps[i] = NuevaPartida(Ajustar(X.partidas, m)[i].detalle)
    OBVIOUS
  <2> HIDE DEF ps
  <2>5. \A i \in 1 .. m : ps[i].estado = Pendiente /\ PartidaBien(ps[i])
    BY <1>2, <2>3, <2>4
  <2> QED
    BY <1>4, <2>1, <2>4, <2>5 DEF Indices
<1>7. /\ ConfirmarContra(X, Mandante).estado = Acordada
      /\ RechazarContra(X, Mandante).estado = Rechazada
  BY <1>1 DEF ConfirmarContra, RechazarContra, TipoObra
<1>8. Buena(ConfirmarContra(X, Mandante)) /\ Buena(RechazarContra(X, Mandante))
  BY <1>5, <1>6, <1>7, Rangos DEF Buena
<1> QED
  BY <1>3, <1>5, <1>6, <1>7, <1>8

-----------------------------------------------------------------------------
(* The invariant at the start, and after each step, when both use phones.  *)
LEMMA HiloInicio ==
  Init => HiloInv
<1> SUFFICES ASSUME NEW g \in Garantias,
                    copia = [n \in Nodos |-> DesdeOferta(g)],
                    vista = [n \in Partes |-> DesdeOferta(g)],
                    anunciadas = {DesdeOferta(g)}
             PROVE  HiloInv
  BY DEF Init
<1> DEFINE o == DesdeOferta(g)
<1>1. Formada(o)
  BY DesdeOfertaFormada
<1>2. /\ o.estado = IF g # GarantiaPublicada THEN Contra ELSE Acordada
      /\ o.partidas = Pendientes(NPartidas(TrabajoOferta, g), DetalleOferta)
  BY DEF DesdeOferta
<1>3. DetalleOferta \in Titulos
  BY DEF Titulos
<1>4. PartidaBien(NuevaPartida(DetalleOferta)) /\ NuevaPartida(DetalleOferta).estado = Pendiente
  BY <1>3, NuevaBien DEF NuevaPartida
<1>5. \A i \in Indices(o) : o.partidas[i].estado = Pendiente /\ PartidaBien(o.partidas[i])
  <2> DEFINE m == NPartidas(TrabajoOferta, g)
  <2> HIDE DEF m, o
  <2> QED
    BY <1>2, <1>4 DEF Pendientes, Indices, m
<1> HIDE DEF o
<1>6. Buena(o)
  BY <1>2, <1>5, Rangos DEF Buena
<1>7. \A i \in Nat : HiloDe(o, i) = SinHilo
  BY <1>5, SinHilos
<1>8. Encajan(o, o)
  BY <1>7, SinHiloBien DEF Encajan
<1>9. o.estado <= Contra => EnContra({o})
  BY <1>2, <1>5, Rangos DEF EnContra
<1>10. \A n \in Partes : Guarda(n, o, {o})
  BY <1>7, <1>9, SinHiloBien DEF Guarda, Recuerda
<1>11. anunciadas = {o} /\ (\A n \in Nodos : copia[n] = o) /\ (\A n \in Partes : vista[n] = o)
  BY DEF o
<1>12. Partes \subseteq Nodos
  BY TratoAssumption
<1> QED
  BY <1>1, <1>6, <1>8, <1>10, <1>11, <1>12 DEF HiloInv, Buenas, Encajadas

(* Steps that change no copy.                                              *)
LEMMA HiloIgual ==
  ASSUME HiloInv, UNCHANGED <<copia, vista, anunciadas>>
  PROVE  HiloInv'
BY DEF HiloInv

(* A button of the phone acts on the copy read last, which nobody else     *)
(* writes.                                                                 *)
LEMMA BotonBien ==
  ASSUME Escritorio = {}, Inv, HiloInv, NEW n \in Partes, NEW c,
         Deriva(n, vista[n], c), Publicar(n, c)
  PROVE  HiloInv'
<1>1. /\ copia' = [copia EXCEPT ![n] = c] /\ vista' = [vista EXCEPT ![n] = c]
      /\ anunciadas' = anunciadas \cup {c}
  BY DEF Publicar, Guardar
<1>2. TypeOK /\ Guarda(n, vista[n], anunciadas)
  BY DEF Inv, HiloInv
<1> QED
  BY <1>1, <1>2, DerivaBien

(* A fact of the chain is applied to the stored copy.                      *)
LEMMA HechoBien ==
  ASSUME Inv, HiloInv, NEW n \in Partes, NEW c,
         Deriva(n, copia[n], c), PublicarHecho(n, c)
  PROVE  HiloInv'
<1>1. /\ copia' = [copia EXCEPT ![n] = c] /\ vista' = [vista EXCEPT ![n] = c]
      /\ anunciadas' = anunciadas \cup {c}
  BY DEF PublicarHecho, Guardar
<1>2. TypeOK /\ Guarda(n, copia[n], anunciadas)
  BY DEF Inv, HiloInv
<1> QED
  BY <1>1, <1>2, DerivaBien

(* The copies of a person, well formed and with their threads.             *)
LEMMA CopiasBuenas ==
  ASSUME Inv, HiloInv, NEW n \in Partes
  PROVE  /\ Formada(vista[n]) /\ Buena(vista[n])
         /\ Formada(copia[n]) /\ Buena(copia[n])
<1>1. n \in Nodos
  BY TratoAssumption
<1> QED
  BY <1>1 DEF Inv, CopiasAnunciadas, HiloInv, Buenas

(* The answer to the counter-offer: nothing was done before it.            *)
LEMMA HiloRespuesta ==
  ASSUME Escritorio = {}, Inv, HiloInv, NEW n \in Partes,
         AccionConfirmarContra(n) \/ AccionRechazarContra(n)
  PROVE  HiloInv'
<1>1. n = Mandante /\ vista[n].estado = Contra /\ PuedeConfirmarContra(vista[n], Mandante)
  BY DEF AccionConfirmarContra, AccionRechazarContra, PuedeConfirmarContra, PuedeRechazarContra
<1>2. Formada(vista[n]) /\ Buena(vista[n])
  BY CopiasBuenas
<1>3. EnContra(anunciadas)
  BY <1>1, Rangos DEF HiloInv, Guarda
<1>4. PICK c \in {ConfirmarContra(vista[n], Mandante), RechazarContra(vista[n], Mandante)} :
        Publicar(n, c)
  BY <1>1 DEF AccionConfirmarContra, AccionRechazarContra
<1>5. /\ Formada(c) /\ Buena(c) /\ c.estado \in {Acordada, Rechazada}
      /\ \A i \in Indices(c) : c.partidas[i].estado = Pendiente
  BY <1>1, <1>2, <1>4, RespuestaBien
<1>6. /\ copia' = [copia EXCEPT ![Mandante] = c] /\ vista' = [vista EXCEPT ![Mandante] = c]
      /\ anunciadas' = anunciadas \cup {c}
  BY <1>1, <1>4 DEF Publicar, Guardar
<1>7. TypeOK /\ c.estado > Contra
  BY <1>5, Rangos DEF Inv
<1> QED
  BY <1>3, <1>5, <1>6, <1>7, ReiniciaBien

LEMMA HiloDeTrato ==
  ASSUME Escritorio = {}, Inv, HiloInv, NEW n \in Partes, AccionDeTrato(n)
  PROVE  HiloInv'
<1>1. Formada(vista[n]) /\ Buena(vista[n])
  BY CopiasBuenas
<1>2. CASE AccionConfirmarContra(n) \/ AccionRechazarContra(n)
  BY <1>2, HiloRespuesta
<1>3. CASE \E monto \in MontosExtra : AccionProponerExtra(n, monto)
  <2>1. PICK monto \in MontosExtra : AccionProponerExtra(n, monto)
    BY <1>3
  <2>2. Deriva(n, vista[n], ProponerExtra(vista[n], n, DetalleOferta, monto))
    BY <1>1, DerivaDeTrato, ObraAssumption
  <2> QED
    BY <2>1, <2>2, BotonBien DEF AccionProponerExtra
<1>4. CASE AccionAceptarExtra(n)
  <2>1. Deriva(n, vista[n], AceptarExtra(vista[n], n))
    BY <1>1, <1>4, DerivaExtra DEF AccionAceptarExtra
  <2> QED
    BY <1>4, <2>1, BotonBien DEF AccionAceptarExtra
<1>5. CASE AccionRechazarExtra(n)
  BY <1>1, <1>5, DerivaDeTrato, BotonBien DEF AccionRechazarExtra
<1>6. CASE AccionAbandonar(n)
  BY <1>1, <1>6, DerivaDeTrato, BotonBien DEF AccionAbandonar
<1>7. CASE AccionAceptarCierre(n)
  BY <1>1, <1>7, DerivaDeTrato, BotonBien DEF AccionAceptarCierre
<1>8. CASE AccionRechazarCierre(n)
  BY <1>1, <1>8, DerivaDeTrato, BotonBien DEF AccionRechazarCierre
<1> QED
  BY <1>2, <1>3, <1>4, <1>5, <1>6, <1>7, <1>8 DEF AccionDeTrato

LEMMA HiloDePartida ==
  ASSUME Escritorio = {}, Inv, HiloInv, NEW n \in Partes, NEW i, AccionDePartida(n, i)
  PROVE  HiloInv'
<1>1. Formada(vista[n]) /\ Buena(vista[n])
  BY CopiasBuenas
<1>2. CASE \E precio \in Precios \cup {0} : AccionProponer(n, i, precio)
  <2>1. PICK precio \in Precios \cup {0} : AccionProponer(n, i, precio)
    BY <1>2
  <2>2. precio \in Nat
    BY PreciosAssumption
  <2>3. Deriva(n, vista[n], Proponer(vista[n], i, n, precio))
    BY <1>1, <2>1, <2>2, DerivaProponer DEF AccionProponer
  <2> QED
    BY <2>1, <2>3, BotonBien DEF AccionProponer
<1>3. CASE AccionCancelar(n, i)
  BY <1>1, <1>3, DerivaCancelar, BotonBien DEF AccionCancelar
<1>4. CASE \E pct \in Pcts : AccionAvisar(n, i, pct)
  BY <1>1, <1>4, DerivaAvisar, BotonBien DEF AccionAvisar
<1>5. CASE \E pct \in Pcts : AccionContraPago(n, i, pct)
  BY <1>1, <1>5, DerivaContraPago, BotonBien DEF AccionContraPago
<1>6. CASE \E texto \in Textos : AccionEditar(n, i, texto)
  BY <1>1, <1>6, DerivaEditar, BotonBien DEF AccionEditar
<1>7. CASE PedirFondeo(n, i) \/ PedirGasto(n, i)
  BY <1>7, HiloIgual DEF PedirFondeo, PedirGasto
<1> QED
  BY <1>2, <1>3, <1>4, <1>5, <1>6, <1>7 DEF AccionDePartida

LEMMA HiloDeCaja ==
  ASSUME Inv, HiloInv, NEW n \in Partes, NEW i, PasoDeCaja(n, i)
  PROVE  HiloInv'
<1>1. Formada(copia[n]) /\ Buena(copia[n])
  BY CopiasBuenas
<1>2. CASE VerFondeo(n, i)
  BY <1>1, <1>2, DerivaConfirmar, HechoBien DEF VerFondeo
<1>3. CASE VerPago(n, i)
  BY <1>1, <1>3, DerivaAceptar, HechoBien DEF VerPago
<1>4. CASE AbrirFondeo(n, i) \/ AbrirGasto(n, i) \/ FallarGasto(n, i)
  BY <1>4, HiloIgual DEF AbrirFondeo, AbrirGasto, FallarGasto
<1> QED
  BY <1>2, <1>3, <1>4 DEF PasoDeCaja

(* The program of n reads its copy.                                        *)
LEMMA HiloLeer ==
  ASSUME Inv, HiloInv, NEW n \in Partes, Leer(n)
  PROVE  HiloInv'
<1>1. UNCHANGED <<copia, anunciadas>> /\ vista' = [vista EXCEPT ![n] = copia[n]]
  BY DEF Leer
<1>2. \A m \in Partes : vista'[m] \in {vista[m], copia[m]}
  BY <1>1 DEF Inv, TypeOK
<1>3. \A m \in Partes : Guarda(m, vista'[m], anunciadas)
  BY <1>2 DEF HiloInv
<1> QED
  BY <1>1, <1>3 DEF HiloInv

LEMMA HiloRecibir ==
  ASSUME Inv, HiloInv, NEW n \in Nodos, Recibir(n)
  PROVE  HiloInv'
<1> DEFINE c(o) == FusionarObra(copia[n], o)
<1>1. PICK o \in anunciadas : Fusion(n, o)
  BY DEF Recibir
<1>2. copia' = [copia EXCEPT ![n] = c(o)]
  BY <1>1 DEF Fusion
<1>3. copia'[n] = c(o)
  BY <1>2 DEF Inv, TypeOK
<1>4. anunciadas' = anunciadas \cup {c(o)} /\ vista' = vista
  BY <1>1, <1>3 DEF Fusion
<1>5. TypeOK
  BY DEF Inv
<1> QED
  BY <1>2, <1>4, <1>5, FusionBien

LEMMA HiloPaso ==
  ASSUME Escritorio = {}, Inv, HiloInv, [Next]_vars
  PROVE  HiloInv'
<1>1. CASE \E n \in Partes : AccionDeTrato(n)
  BY <1>1, HiloDeTrato
<1>2. CASE \E n \in Partes : \E i \in Indices(vista[n]) : AccionDePartida(n, i)
  BY <1>2, HiloDePartida
<1>3. CASE \E n \in Partes : \E i \in Indices(copia[n]) : PasoDeCaja(n, i)
  BY <1>3, HiloDeCaja
<1>4. CASE \E i \in Indices(copia[Mandante]) : PasoDeCadena(i)
  BY <1>4, HiloIgual DEF PasoDeCadena, Fondear, Gastar, Enterarse, TomarTxid
<1>5. CASE \E n \in Partes : Limpiar(n) \/ Leer(n)
  BY <1>5, HiloIgual, HiloLeer DEF Limpiar
<1>6. CASE \E n \in Nodos : Recibir(n)
  BY <1>6, HiloRecibir
<1>7. CASE UNCHANGED vars
  BY <1>7, HiloIgual DEF vars
<1> QED
  BY <1>1, <1>2, <1>3, <1>4, <1>5, <1>6, <1>7 DEF Next

(* Whatever was agreed on in a stage, the copies of the two hold parts of  *)
(* one thread, when both use the phone, whose program reads its copy as    *)
(* an operation starts.                                                    *)
THEOREM UnSoloHilo ==
  ASSUME Escritorio = {}
  PROVE  Spec => []HiloInv
<1>1. Init => HiloInv
  BY HiloInicio
<1>2. Inv /\ HiloInv /\ [Next]_vars => HiloInv'
  BY HiloPaso
<1> QED
  BY <1>1, <1>2, Invariante, PTL DEF Spec

(* In the same case the two never hold receipts for different percentages  *)
(* of a stage, in whatever order counter-offers, acceptances and merges    *)
(* cross (contra_pago, aceptar_pago, Partida::fusionar).                   *)
THEOREM UnSoloRecibo ==
  ASSUME Escritorio = {}
  PROVE  Spec => []PagoAcordado
<1>1. HiloInv => PagoAcordado
  <2> SUFFICES ASSUME HiloInv, NEW a \in anunciadas, NEW b \in anunciadas,
                      NEW i \in Comunes(a, b),
                      a.partidas[i].estado = Pagada, b.partidas[i].estado = Pagada
               PROVE  /\ a.partidas[i].pago = b.partidas[i].pago
                      /\ a.partidas[i].recibo = b.partidas[i].recibo
    BY DEF PagoAcordado
  <2> DEFINE p == a.partidas[i]
             q == b.partidas[i]
  <2>1. /\ i \in Indices(a) /\ i \in Indices(b)
        /\ Formada(a) /\ Buena(a) /\ Buena(b) /\ Encajan(a, b)
    BY DEF Comunes, HiloInv, Buenas, Encajadas
  <2>2. i \in Nat
    BY <2>1, FormadaIndices
  <2>3. Compatibles(Hilo(p), Hilo(q))
    BY <2>1, <2>2 DEF Encajan, HiloDe
  <2>4. PartidaBien(p) /\ PartidaBien(q)
    BY <2>1 DEF Buena
  <2> HIDE DEF p, q
  <2>5. p.estado = Pagada /\ q.estado = Pagada
    BY DEF p, q
  <2>6. /\ Hilo(p).estado = Pagada /\ Hilo(p).recibo = p.recibo
        /\ Hilo(q).estado = Pagada /\ Hilo(q).recibo = q.recibo
    BY <2>5, Rangos DEF Hilo
  <2>7. p.recibo = q.recibo
    BY <2>3, <2>6 DEF Compatibles
  <2>8. p.pago = p.recibo.porcentaje /\ q.pago = q.recibo.porcentaje
    BY <2>4, <2>5 DEF PartidaBien
  <2> QED
    BY <2>7, <2>8 DEF p, q
<1> QED
  BY <1>1, UnSoloHilo, PTL

-----------------------------------------------------------------------------
(* The percentage of a payment.                                            *)
(*                                                                         *)
(* The longest thread of a stage has k notes, and the last has pct.        *)
Tope(os, i, k, pct) ==
  /\ \A o \in os : /\ Len(HiloDe(o, i).notas) <= k
                   /\ Len(HiloDe(o, i).notas) = k => HiloDe(o, i).notas[k].porcentaje = pct
  /\ \E o \in os : Len(HiloDe(o, i).notas) = k

(* X has the whole thread of the stage, or cut the deal and dropped it.    *)
Tiene(X, i, k) == IF i \in Indices(X) THEN Len(HiloDe(X, i).notas) = k ELSE Cortada(X)

(* The box works on a payment of the stage.                                *)
EnCaja(gs, i) == \E g \in gs : g.partida = i

(* Who has X cannot write in the thread: the box is at it, or it is over.  *)
Ocupado(gs, X, i) == EnCaja(gs, i) \/ HiloDe(X, i).estado = Pagada \/ i \notin Indices(X)

(* All that is paid, and that the boxes would pay, is pct.                 *)
DeUnPct(gs, i, pct) == \A g \in gs : g.partida = i => g.porcentaje = pct

(* The payment of stage i is for the k-th note, of pct; the one who did    *)
(* not write it waits.                                                     *)
Firme(i, k, pct) ==
  /\ Tope(anunciadas, i, k, pct)
  /\ \A n \in Partes :
       /\ DeUnPct(gastos[n], i, pct)
       /\ n = De(k + 1) =>
            /\ Tiene(copia[n], i, k) /\ Ocupado(gastos[n], copia[n], i)
            /\ Tiene(vista[n], i, k) /\ Ocupado(gastos[n], vista[n], i)
  /\ DeUnPct(pagos, i, pct)

(* Some box works on the payment of stage i, or it is on the chain.        *)
EnPago(i) ==
  /\ i \notin fallidas
  /\ (\E n \in Partes : EnCaja(gastos[n], i)) \/ EnCaja(pagos, i)

(* What a person stores is no earlier than what it read.                   *)
NoAtras(V, C) ==
  \A i \in Indices(V) : \/ Mas(HiloDe(V, i), HiloDe(C, i))
                        \/ i \notin Indices(C) /\ Cortada(C)

(* Only the payments that failed have an error.                            *)
SinError(gs, fs) == \A g \in gs : g.error => g.partida \in fs

GastoInv ==
  /\ \A n \in Partes : SinError(gastos[n], fallidas)
  /\ \A i \in Nat : EnPago(i) => \E k \in Nat \ {0} : \E pct \in Nat : Firme(i, k, pct)
  /\ \A n \in Partes : NoAtras(vista[n], copia[n])

-----------------------------------------------------------------------------
(* The stage with a payment of its own, and who may not write in it.       *)
LEMMA TopeMas ==
  ASSUME NEW os, NEW i, NEW k \in Nat \ {0}, NEW pct, Tope(os, i, k, pct), NEW c,
         \/ \E o \in os : HiloDe(c, i).notas = HiloDe(o, i).notas
         \/ HiloDe(c, i) = SinHilo
  PROVE  Tope(os \cup {c}, i, k, pct)
<1>1. Len(SinHilo.notas) = 0
  BY DEF SinHilo
<1>2. /\ Len(HiloDe(c, i).notas) <= k
      /\ Len(HiloDe(c, i).notas) = k => HiloDe(c, i).notas[k].porcentaje = pct
  <2>1. CASE HiloDe(c, i) = SinHilo
    BY <1>1, <2>1
  <2>2. CASE \E o \in os : HiloDe(c, i).notas = HiloDe(o, i).notas
    BY <2>2 DEF Tope
  <2> QED
    BY <2>1, <2>2
<1> QED
  BY <1>2 DEF Tope

(* The longest thread: a paid thread has all of it, and what the others    *)
(* wrote of it they keep.                                                  *)
LEMMA TopePagado ==
  ASSUME NEW os, Buenas(os), Encajadas(os), NEW i \in Nat, NEW k \in Nat \ {0}, NEW pct,
         Tope(os, i, k, pct), NEW o \in os, HiloDe(o, i).estado = Pagada
  PROVE  Len(HiloDe(o, i).notas) = k
<1>1. PICK w \in os : Len(HiloDe(w, i).notas) = k
  BY DEF Tope
<1>2. Compatibles(HiloDe(o, i), HiloDe(w, i))
  BY DEF Encajadas, Encajan
<1>3. HiloDe(o, i) \in TipoHilo
  BY HiloTipo DEF Buenas
<1>4. Len(HiloDe(o, i).notas) \in Nat
  BY <1>3, LenProperties DEF TipoHilo
<1>5. k <= Len(HiloDe(o, i).notas) /\ Len(HiloDe(o, i).notas) <= k
  BY <1>1, <1>2 DEF Compatibles, Tope
<1> QED
  BY <1>4, <1>5

(* The author of the last note has it, in every copy with the stage.       *)
LEMMA TopeAutor ==
  ASSUME NEW os, Buenas(os), NEW i \in Nat, NEW k \in Nat \ {0}, NEW pct,
         Tope(os, i, k, pct), NEW n \in Partes, NEW X, Guarda(n, X, os), i \in Indices(X),
         De(k) = n
  PROVE  Len(HiloDe(X, i).notas) = k
<1>1. PICK w \in os : Len(HiloDe(w, i).notas) = k
  BY DEF Tope
<1>2. Suyo(n, HiloDe(X, i), HiloDe(w, i)) /\ X \in os
  BY DEF Guarda, Recuerda
<1>3. k <= Len(HiloDe(X, i).notas) /\ Len(HiloDe(X, i).notas) <= k
  BY <1>1, <1>2 DEF Suyo, Tope
<1>4. HiloDe(X, i) \in TipoHilo
  BY <1>2, HiloTipo DEF Buenas
<1>5. Len(HiloDe(X, i).notas) \in Nat
  BY <1>4, LenProperties DEF TipoHilo
<1> QED
  BY <1>3, <1>5

(* One of the two has the turn.                                            *)
LEMMA DeDos ==
  ASSUME NEW k \in Nat \ {0}, NEW n \in Partes
  PROVE  De(k) = n \/ De(k + 1) = n
BY PartesAssumption DEF De, Partes

(* Who has the turn in a stage that is being paid is the one who waits,    *)
(* with the whole thread.                                                  *)
LEMMA TurnoTope ==
  ASSUME HiloInv, NEW i \in Nat, NEW k \in Nat \ {0}, NEW pct, Tope(anunciadas, i, k, pct),
         NEW n \in Partes, NEW X, Guarda(n, X, anunciadas), i \in Indices(X),
         HiloDe(X, i).estado # Pagada, De(Len(HiloDe(X, i).notas) + 1) = n
  PROVE  Len(HiloDe(X, i).notas) = k /\ De(k + 1) = n
<1>1. PICK w \in anunciadas : Len(HiloDe(w, i).notas) = k
  BY DEF Tope
<1>2. Buenas(anunciadas) /\ X \in anunciadas
  BY DEF HiloInv, Guarda
<1>3. HiloDe(X, i) \in TipoHilo /\ HiloDe(w, i) \in TipoHilo
  BY <1>1, <1>2, HiloTipo DEF Buenas
<1>4. Compatibles(HiloDe(w, i), HiloDe(X, i)) /\ Suyo(n, HiloDe(X, i), HiloDe(w, i))
  BY <1>1, <1>2 DEF HiloInv, Encajadas, Encajan, Guarda, Recuerda
<1>5. k <= Len(HiloDe(X, i).notas)
  BY <1>1, <1>3, <1>4, TieneElTurno
<1>6. Len(HiloDe(X, i).notas) <= k /\ Len(HiloDe(X, i).notas) \in Nat
  BY <1>2, <1>3, LenProperties DEF Tope, TipoHilo
<1> QED
  BY <1>5, <1>6

(* A note may be written in the stages of S: the first, or while the box   *)
(* does not work on the payment (the buttons of a payment).                *)
PuedeAnotar(gs, X, S) ==
  \A i \in S : i \in fallidas \/ ~EnCaja(gs, i) \/ HiloDe(X, i).notas = << >>

LEMMA NoAtrasMismo ==
  ASSUME NEW X, Formada(X)
  PROVE  NoAtras(X, X)
<1> SUFFICES ASSUME NEW i \in Indices(X)
             PROVE  Mas(HiloDe(X, i), HiloDe(X, i))
  BY DEF NoAtras
<1>1. i \in Nat
  BY FormadaIndices
<1>2. HiloDe(X, i) \in TipoHilo
  BY <1>1, HiloTipo
<1> QED
  BY <1>2, MismoBien

(* A person acts on a copy: no payment asked for changes its percentage,   *)
(* as the only note that could be written is the one who waits's.          *)
LEMMA GastoHilo ==
  ASSUME HiloInv, NEW n \in Partes, NEW X \in {copia[n], vista[n]}, NEW c, NEW S,
         Deriva(n, X, c), Callada(X, c, S),
         PuedeAnotar(gastos[n], X, S),
         NEW i \in Nat \ fallidas, NEW k \in Nat \ {0}, NEW pct \in Nat, Firme(i, k, pct)
  PROVE  /\ i \in Indices(X) => HiloDe(c, i).notas = HiloDe(X, i).notas
         /\ Tope(anunciadas \cup {c}, i, k, pct)
         /\ n = De(k + 1) => Tiene(c, i, k) /\ Ocupado(gastos[n], c, i)
<1>1. Guarda(n, X, anunciadas) /\ X \in anunciadas
  BY DEF HiloInv, Guarda
<1>2. Tope(anunciadas, i, k, pct)
  BY DEF Firme
<1>3. ASSUME i \in Indices(X)
      PROVE  HiloDe(c, i).notas = HiloDe(X, i).notas
  <2> SUFFICES ASSUME HiloDe(c, i).notas # HiloDe(X, i).notas
               PROVE  FALSE
    OBVIOUS
  <2>1. i \in S
    BY <1>3 DEF Callada
  <2>2. HiloDe(X, i).estado # Pagada /\ De(Len(HiloDe(X, i).notas) + 1) = n
    BY <1>3 DEF Deriva, Hace
  <2>3. Len(HiloDe(X, i).notas) = k /\ De(k + 1) = n
    BY <1>1, <1>2, <1>3, <2>2, TurnoTope
  <2>4. EnCaja(gastos[n], i)
    BY <1>3, <2>2, <2>3 DEF Firme, Ocupado
  <2>5. HiloDe(X, i).notas = << >>
    BY <2>1, <2>4 DEF PuedeAnotar
  <2> QED
    BY <2>3, <2>5
<1>4. Tope(anunciadas \cup {c}, i, k, pct)
  <2>1. i \notin Indices(X) => HiloDe(c, i) = SinHilo
    BY DEF Deriva, HiloDe
  <2> QED
    BY <1>1, <1>2, <1>3, <2>1, TopeMas
<1>5. ASSUME n = De(k + 1)
      PROVE  Tiene(c, i, k) /\ Ocupado(gastos[n], c, i)
  <2>1. Tiene(X, i, k) /\ Ocupado(gastos[n], X, i)
    BY <1>5 DEF Firme
  <2>2. CASE i \in Indices(X)
    <3>1. i \in Indices(c)
      BY <2>2 DEF Deriva
    <3>2. Tiene(c, i, k)
      BY <1>3, <2>1, <2>2, <3>1 DEF Tiene
    <3>3. HiloDe(X, i).estado = Pagada => HiloDe(c, i).estado = Pagada
      BY <2>2 DEF Deriva, Hace
    <3> QED
      BY <2>1, <2>2, <3>2, <3>3 DEF Ocupado
  <2>3. CASE i \notin Indices(X)
    <3>1. Cortada(X)
      BY <2>1, <2>3 DEF Tiene
    <3>2. Cortada(c) /\ i \notin Indices(c)
      BY <2>3, <3>1 DEF Deriva
    <3> QED
      BY <3>2 DEF Tiene, Ocupado
  <2> QED
    BY <2>2, <2>3
<1> QED
  BY <1>3, <1>4, <1>5

LEMMA GastoDeriva ==
  ASSUME TypeOK, HiloInv, GastoInv, NEW n \in Partes, NEW X \in {copia[n], vista[n]},
         NEW c, NEW S, Deriva(n, X, c), Callada(X, c, S),
         PuedeAnotar(gastos[n], X, S),
         copia' = [copia EXCEPT ![n] = c],
         vista' = [vista EXCEPT ![n] = c],
         anunciadas' = anunciadas \cup {c},
         UNCHANGED <<pagos, gastos, fallidas>>
  PROVE  GastoInv'
<1>1. /\ copia'[n] = c /\ vista'[n] = c
      /\ \A m \in Partes : m # n => copia'[m] = copia[m] /\ vista'[m] = vista[m]
  BY TratoAssumption DEF TypeOK
<1>2. Formada(c)
  BY DEF Deriva
<1>3. ASSUME NEW i \in Nat \ fallidas, NEW k \in Nat \ {0}, NEW pct \in Nat, Firme(i, k, pct)
      PROVE  Firme(i, k, pct)'
  <2>1. /\ Tope(anunciadas \cup {c}, i, k, pct)
        /\ n = De(k + 1) => Tiene(c, i, k) /\ Ocupado(gastos[n], c, i)
    BY <1>3, GastoHilo
  <2>2. /\ DeUnPct(pagos, i, pct)
        /\ \A m \in Partes :
             /\ DeUnPct(gastos[m], i, pct)
             /\ m = De(k + 1) =>
                  /\ Tiene(copia[m], i, k) /\ Ocupado(gastos[m], copia[m], i)
                  /\ Tiene(vista[m], i, k) /\ Ocupado(gastos[m], vista[m], i)
    BY <1>3 DEF Firme
  <2>3. ASSUME NEW m \in Partes, m = De(k + 1)
        PROVE  /\ Tiene(copia'[m], i, k) /\ Ocupado(gastos[m], copia'[m], i)
               /\ Tiene(vista'[m], i, k) /\ Ocupado(gastos[m], vista'[m], i)
    <3>1. CASE m = n
      BY <1>1, <2>1, <2>3, <3>1
    <3>2. CASE m # n
      BY <1>1, <2>2, <2>3, <3>2
    <3> QED
      BY <3>1, <3>2
  <2> QED
    BY <2>1, <2>2, <2>3 DEF Firme
<1>4. \A i : EnPago(i)' <=> EnPago(i)
  BY DEF EnPago
<1>5. \A m \in Partes : NoAtras(vista'[m], copia'[m])
  <2>1. \A m \in Partes : m # n => NoAtras(vista'[m], copia'[m])
    BY <1>1 DEF GastoInv
  <2>2. NoAtras(vista'[n], copia'[n])
    BY <1>1, <1>2, NoAtrasMismo
  <2> QED
    BY <2>1, <2>2
<1>6. \A m \in Partes : SinError(gastos'[m], fallidas')
  BY DEF GastoInv
<1>7. \A i \in Nat : EnPago(i)' => \E k \in Nat \ {0} : \E pct \in Nat : Firme(i, k, pct)'
  BY <1>3, <1>4 DEF GastoInv, EnPago
<1> QED
  BY <1>5, <1>6, <1>7 DEF GastoInv

-----------------------------------------------------------------------------
(* A merge at the node n, of a into c.                                     *)
LEMMA GastoMezcla ==
  ASSUME Buenas(anunciadas), Encajadas(anunciadas),
         NEW a \in anunciadas, NEW b \in anunciadas, NEW c, c = FusionarObra(a, b),
         NEW i \in Nat, NEW k \in Nat \ {0}, NEW pct \in Nat, Tope(anunciadas, i, k, pct)
  PROVE  /\ Tope(anunciadas \cup {c}, i, k, pct)
         /\ Tiene(a, i, k) => Tiene(c, i, k)
         /\ \A gs : Tiene(a, i, k) /\ Ocupado(gs, a, i) => Ocupado(gs, c, i)
<1>1. /\ Formada(a) /\ Buena(a) /\ Formada(b) /\ Buena(b) /\ Encajan(a, b)
  BY DEF Buenas, Encajadas
<1>2. /\ Formada(c)
      /\ HiloDe(c, i) \in {HiloDe(a, i), HiloDe(b, i), SinHilo}
      /\ i \in Indices(c) => Mas(HiloDe(a, i), HiloDe(c, i))
      /\ i \in Indices(a) \ Indices(c) => Cortada(c) \/ HiloDe(a, i) = SinHilo
      /\ Cortada(a) =>
           /\ Cortada(c)
           /\ i \in Indices(c) \ Indices(a) =>
                HiloDe(c, i) = HiloDe(b, i) /\ HiloDe(c, i).estado = Pagada
  BY <1>1, FusionHilo
<1>3. Tope(anunciadas \cup {c}, i, k, pct)
  BY <1>2, TopeMas
<1>4. Len(HiloDe(c, i).notas) <= k /\ Len(HiloDe(c, i).notas) \in Nat
  <2>1. HiloDe(c, i) \in TipoHilo
    BY <1>2, HiloTipo
  <2> QED
    BY <1>3, <2>1, LenProperties DEF Tope, TipoHilo
<1>5. Len(SinHilo.notas) = 0
  BY DEF SinHilo
<1>6. ASSUME Tiene(a, i, k)
      PROVE  Tiene(c, i, k) /\ \A gs : Ocupado(gs, a, i) => Ocupado(gs, c, i)
  <2>1. CASE i \in Indices(a) /\ i \in Indices(c)
    <3>1. Len(HiloDe(c, i).notas) = k
      BY <1>2, <1>4, <1>6, <2>1 DEF Tiene, Mas
    <3>2. HiloDe(a, i).estado = Pagada => HiloDe(c, i).estado = Pagada
      BY <1>2, <2>1 DEF Mas
    <3> QED
      BY <2>1, <3>1, <3>2 DEF Tiene, Ocupado
  <2>2. CASE i \in Indices(a) /\ i \notin Indices(c)
    <3>1. HiloDe(a, i) # SinHilo
      BY <1>5, <1>6, <2>2 DEF Tiene
    <3> QED
      BY <1>2, <2>2, <3>1 DEF Tiene, Ocupado
  <2>3. CASE i \notin Indices(a) /\ i \in Indices(c)
    <3>1. HiloDe(c, i) = HiloDe(b, i) /\ HiloDe(c, i).estado = Pagada
      BY <1>2, <1>6, <2>3 DEF Tiene
    <3>2. Len(HiloDe(b, i).notas) = k
      BY <3>1, TopePagado
    <3> QED
      BY <2>3, <3>1, <3>2 DEF Tiene, Ocupado
  <2>4. CASE i \notin Indices(a) /\ i \notin Indices(c)
    BY <1>2, <1>6, <2>4 DEF Tiene, Ocupado
  <2> QED
    BY <2>1, <2>2, <2>3, <2>4
<1> QED
  BY <1>3, <1>6

LEMMA NoAtrasMezcla ==
  ASSUME Buenas(anunciadas), Encajadas(anunciadas),
         NEW a \in anunciadas, NEW b \in anunciadas, NEW c, c = FusionarObra(a, b),
         NEW V \in anunciadas, NoAtras(V, a)
  PROVE  NoAtras(V, c)
<1> SUFFICES ASSUME NEW i \in Indices(V)
             PROVE  \/ Mas(HiloDe(V, i), HiloDe(c, i))
                    \/ i \notin Indices(c) /\ Cortada(c)
  BY DEF NoAtras
<1>1. /\ Formada(a) /\ Buena(a) /\ Formada(b) /\ Buena(b) /\ Encajan(a, b) /\ Formada(V)
  BY DEF Buenas, Encajadas
<1>2. i \in Nat
  BY <1>1, FormadaIndices
<1>3. /\ Formada(c)
      /\ i \in Indices(c) => Mas(HiloDe(a, i), HiloDe(c, i))
      /\ i \in Indices(a) \ Indices(c) => Cortada(c) \/ HiloDe(a, i) = SinHilo
      /\ Cortada(a) =>
           /\ Cortada(c)
           /\ i \in Indices(c) \ Indices(a) =>
                HiloDe(c, i) = HiloDe(b, i) /\ HiloDe(c, i).estado = Pagada
  BY <1>1, <1>2, FusionHilo
<1>4. HiloDe(V, i) \in TipoHilo /\ HiloDe(a, i) \in TipoHilo /\ HiloDe(c, i) \in TipoHilo
  BY <1>1, <1>2, <1>3, HiloTipo
<1>5. CASE Mas(HiloDe(V, i), HiloDe(a, i))
  <2>1. CASE i \in Indices(c)
    <3>1. /\ Len(HiloDe(V, i).notas) \in Nat /\ Len(HiloDe(a, i).notas) \in Nat
          /\ Len(HiloDe(c, i).notas) \in Nat
      BY <1>4, LenProperties DEF TipoHilo
    <3> QED
      BY <1>3, <1>5, <2>1, <3>1 DEF Mas
  <2>2. CASE i \notin Indices(c) /\ ~Cortada(c)
    <3>1. HiloDe(a, i) = SinHilo /\ HiloDe(c, i) = SinHilo
      BY <1>3, <2>2 DEF HiloDe
    <3> QED
      BY <1>5, <3>1
  <2> QED
    BY <2>1, <2>2
<1>6. CASE i \notin Indices(a) /\ Cortada(a)
  <2>1. CASE i \in Indices(c)
    <3>1. HiloDe(c, i) = HiloDe(b, i) /\ HiloDe(c, i).estado = Pagada
      BY <1>3, <1>6, <2>1
    <3>2. Compatibles(HiloDe(b, i), HiloDe(V, i))
      BY <1>2 DEF Encajadas, Encajan
    <3> QED
      BY <3>1, <3>2 DEF Compatibles, Mas
  <2> QED
    BY <1>3, <1>6, <2>1
<1> QED
  BY <1>5, <1>6 DEF NoAtras

LEMMA GastoFusion ==
  ASSUME TypeOK, HiloInv, GastoInv, NEW n \in Nodos, NEW b \in anunciadas, NEW c,
         c = FusionarObra(copia[n], b),
         copia' = [copia EXCEPT ![n] = c],
         vista' = vista,
         anunciadas' = anunciadas \cup {c},
         UNCHANGED <<pagos, gastos, fallidas>>
  PROVE  GastoInv'
<1>1. /\ copia'[n] = c /\ \A m \in Partes : m # n => copia'[m] = copia[m]
  BY TratoAssumption DEF TypeOK
<1>2. /\ Buenas(anunciadas) /\ Encajadas(anunciadas) /\ copia[n] \in anunciadas
      /\ \A m \in Partes : vista[m] \in anunciadas
  BY DEF HiloInv, Guarda
<1>3. ASSUME NEW i \in Nat, NEW k \in Nat \ {0}, NEW pct \in Nat, Firme(i, k, pct)
      PROVE  Firme(i, k, pct)'
  <2>1. /\ DeUnPct(pagos, i, pct) /\ Tope(anunciadas, i, k, pct)
        /\ \A m \in Partes :
             /\ DeUnPct(gastos[m], i, pct)
             /\ m = De(k + 1) =>
                  /\ Tiene(copia[m], i, k) /\ Ocupado(gastos[m], copia[m], i)
                  /\ Tiene(vista[m], i, k) /\ Ocupado(gastos[m], vista[m], i)
    BY <1>3 DEF Firme
  <2>2. /\ Tope(anunciadas \cup {c}, i, k, pct)
        /\ Tiene(copia[n], i, k) => Tiene(c, i, k)
        /\ \A gs : Tiene(copia[n], i, k) /\ Ocupado(gs, copia[n], i) => Ocupado(gs, c, i)
    BY <1>2, <2>1, GastoMezcla
  <2>3. ASSUME NEW m \in Partes, m = De(k + 1)
        PROVE  /\ Tiene(copia'[m], i, k) /\ Ocupado(gastos[m], copia'[m], i)
               /\ Tiene(vista[m], i, k) /\ Ocupado(gastos[m], vista[m], i)
    <3>1. CASE m = n
      BY <1>1, <2>1, <2>2, <2>3, <3>1
    <3>2. CASE m # n
      BY <1>1, <2>1, <2>3, <3>2
    <3> QED
      BY <3>1, <3>2
  <2> QED
    BY <2>1, <2>2, <2>3 DEF Firme
<1>4. \A i : EnPago(i)' <=> EnPago(i)
  BY DEF EnPago
<1>5. \A m \in Partes : NoAtras(vista[m], copia'[m])
  <2> SUFFICES ASSUME NEW m \in Partes
               PROVE  NoAtras(vista[m], copia'[m])
    OBVIOUS
  <2>1. NoAtras(vista[m], copia[m]) /\ vista[m] \in anunciadas
    BY <1>2 DEF GastoInv
  <2>2. CASE m = n
    <3>1. NoAtras(vista[m], c)
      BY <1>2, <2>1, <2>2, NoAtrasMezcla
    <3> QED
      BY <1>1, <2>2, <3>1
  <2>3. CASE m # n
    BY <1>1, <2>1, <2>3
  <2> QED
    BY <2>2, <2>3
<1>6. \A m \in Partes : SinError(gastos'[m], fallidas')
  BY DEF GastoInv
<1>7. \A i \in Nat : EnPago(i)' => \E k \in Nat \ {0} : \E pct \in Nat : Firme(i, k, pct)'
  BY <1>3, <1>4 DEF GastoInv
<1> QED
  BY <1>5, <1>6, <1>7 DEF GastoInv

-----------------------------------------------------------------------------
(* The steps of the boxes, which change no copy.                           *)
LEMMA FirmeCajas ==
  ASSUME NEW i, NEW k, NEW pct, Firme(i, k, pct), UNCHANGED <<copia, vista, anunciadas>>,
         DeUnPct(pagos', i, pct),
         \A n \in Partes : DeUnPct(gastos'[n], i, pct),
         \A n \in Partes : \A X \in {copia[n], vista[n]} :
           n = De(k + 1) /\ Ocupado(gastos[n], X, i) => Ocupado(gastos'[n], X, i)
  PROVE  Firme(i, k, pct)'
BY DEF Firme

LEMMA GastoCajas ==
  ASSUME GastoInv, UNCHANGED <<copia, vista, anunciadas>>,
         \A n \in Partes : SinError(gastos'[n], fallidas'),
         \A i \in Nat : EnPago(i)' => \E k \in Nat \ {0} : \E pct \in Nat : Firme(i, k, pct)'
  PROVE  GastoInv'
BY DEF GastoInv

(* The id of the transaction is noted.                                     *)
LEMMA ConTxidGasto ==
  ASSUME NEW gs \in SUBSET Gasto, NEW j
  PROVE  /\ \A fs : SinError(gs, fs) => SinError(ConTxid(gs, j), fs)
         /\ \A i : EnCaja(gs, i) <=> EnCaja(ConTxid(gs, j), i)
         /\ \A i, pct : DeUnPct(gs, i, pct) => DeUnPct(ConTxid(gs, j), i, pct)
<1> DEFINE f(g) == IF g.partida = j THEN [g EXCEPT !.txid = TRUE, !.error = FALSE] ELSE g
<1>1. ConTxid(gs, j) = {f(g) : g \in gs}
  BY DEF ConTxid
<1>2. \A g \in gs : /\ f(g).partida = g.partida /\ f(g).porcentaje = g.porcentaje
                    /\ ~g.error => ~f(g).error
  <2> SUFFICES ASSUME NEW g \in gs
               PROVE  /\ f(g).partida = g.partida /\ f(g).porcentaje = g.porcentaje
                      /\ ~g.error => ~f(g).error
    OBVIOUS
  <2>1. g \in Gasto
    OBVIOUS
  <2> QED
    BY <2>1 DEF Gasto
<1> HIDE DEF f
<1> QED
  BY <1>1, <1>2 DEF SinError, EnCaja, DeUnPct

LEMMA GastoTxid ==
  ASSUME TypeOK, GastoInv, UNCHANGED <<copia, vista, anunciadas, fallidas>>,
         NEW n \in Partes, NEW j, gastos' = [gastos EXCEPT ![n] = ConTxid(@, j)],
         \A i \in Nat : EnCaja(pagos', i) =>
           EnCaja(pagos, i) \/ \E m \in Partes : EnCaja(gastos[m], i),
         \A i \in Nat : \A pct \in Nat :
           (/\ DeUnPct(pagos, i, pct)
            /\ \A m \in Partes : DeUnPct(gastos[m], i, pct)) => DeUnPct(pagos', i, pct)
  PROVE  GastoInv'
<1>1. /\ gastos'[n] = ConTxid(gastos[n], j) /\ gastos[n] \in SUBSET Gasto
      /\ \A m \in Partes : m # n => gastos'[m] = gastos[m]
  BY DEF TypeOK
<1>2. /\ SinError(gastos[n], fallidas) => SinError(gastos'[n], fallidas')
      /\ \A i : EnCaja(gastos[n], i) <=> EnCaja(gastos'[n], i)
      /\ \A i, pct : DeUnPct(gastos[n], i, pct) => DeUnPct(gastos'[n], i, pct)
  BY <1>1, ConTxidGasto
<1>3. /\ \A m \in Partes : SinError(gastos'[m], fallidas')
      /\ \A m \in Partes : \A i : EnCaja(gastos[m], i) <=> EnCaja(gastos'[m], i)
      /\ \A m \in Partes : \A i, pct : DeUnPct(gastos[m], i, pct) => DeUnPct(gastos'[m], i, pct)
  <2> SUFFICES ASSUME NEW m \in Partes
               PROVE  /\ SinError(gastos'[m], fallidas')
                      /\ \A i : EnCaja(gastos[m], i) <=> EnCaja(gastos'[m], i)
                      /\ \A i, pct : DeUnPct(gastos[m], i, pct) => DeUnPct(gastos'[m], i, pct)
    OBVIOUS
  <2>1. SinError(gastos[m], fallidas)
    BY DEF GastoInv
  <2>2. CASE m = n
    BY <1>2, <2>1, <2>2
  <2>3. CASE m # n
    BY <1>1, <2>1, <2>3
  <2> QED
    BY <2>2, <2>3
<1>4. ASSUME NEW i \in Nat, EnPago(i)'
      PROVE  \E k \in Nat \ {0} : \E pct \in Nat : Firme(i, k, pct)'
  <2>1. EnPago(i)
    BY <1>3, <1>4 DEF EnPago
  <2>2. PICK k \in Nat \ {0}, pct \in Nat : Firme(i, k, pct)
    BY <2>1 DEF GastoInv
  <2>3. DeUnPct(pagos, i, pct) /\ \A m \in Partes : DeUnPct(gastos[m], i, pct)
    BY <2>2 DEF Firme
  <2>4. DeUnPct(pagos', i, pct) /\ \A m \in Partes : DeUnPct(gastos'[m], i, pct)
    BY <1>3, <2>3
  <2>5. \A m \in Partes : \A X \in {copia[m], vista[m]} :
          m = De(k + 1) /\ Ocupado(gastos[m], X, i) => Ocupado(gastos'[m], X, i)
    BY <1>3 DEF Ocupado
  <2> QED
    BY <2>2, <2>4, <2>5, FirmeCajas
<1> QED
  BY <1>3, <1>4, GastoCajas

(* The principal broadcasts its split.                                     *)
LEMMA GastoGastar ==
  ASSUME TypeOK, GastoInv, NEW i \in Nat, Gastar(i)
  PROVE  GastoInv'
<1>1. PICK g \in gastos[Mandante] :
        /\ g.partida = i
        /\ pagos' = pagos \cup {[partida |-> i, porcentaje |-> g.porcentaje]}
  BY DEF Gastar
<1>2. /\ gastos' = [gastos EXCEPT ![Mandante] = ConTxid(@, i)]
      /\ UNCHANGED <<copia, vista, anunciadas, fallidas>> /\ Mandante \in Partes
  BY DEF Gastar, historia, Partes
<1>3. \A j \in Nat : EnCaja(pagos', j) =>
        EnCaja(pagos, j) \/ \E m \in Partes : EnCaja(gastos[m], j)
  BY <1>1, <1>2 DEF EnCaja
<1>4. \A j \in Nat : \A pct \in Nat :
        (/\ DeUnPct(pagos, j, pct)
         /\ \A m \in Partes : DeUnPct(gastos[m], j, pct)) => DeUnPct(pagos', j, pct)
  BY <1>1, <1>2 DEF DeUnPct
<1> QED
  BY <1>2, <1>3, <1>4, GastoTxid

LEMMA GastoTomarTxid ==
  ASSUME TypeOK, GastoInv, NEW i, NEW j, TomarTxid(i, j)
  PROVE  GastoInv'
<1>1. /\ gastos' = [gastos EXCEPT ![Contratista] = ConTxid(@, j)]
      /\ UNCHANGED <<copia, vista, anunciadas, pagos, fallidas>> /\ Contratista \in Partes
  BY DEF TomarTxid, cadena, Partes
<1> QED
  BY <1>1, GastoTxid

(* The box of n forgets the payments whose stage moved on.                 *)
LEMMA GastoLimpiar ==
  ASSUME TypeOK, HiloInv, GastoInv, NEW n \in Partes, Limpiar(n)
  PROVE  GastoInv'
<1> DEFINE queda(g) == g.partida \in Indices(copia[n])
                         => copia[n].partidas[g.partida].estado = EnTrato
<1>1. /\ UNCHANGED <<copia, vista, anunciadas, pagos, fallidas>>
      /\ gastos' = [gastos EXCEPT ![n] = {g \in @ : queda(g)}]
  BY DEF Limpiar, cadena, historia
<1>2. /\ gastos'[n] = {g \in gastos[n] : queda(g)}
      /\ \A m \in Partes : m # n => gastos'[m] = gastos[m]
  BY <1>1 DEF TypeOK
<1>3. \A m \in Partes : gastos'[m] \subseteq gastos[m]
  BY <1>2
<1>4. \A m \in Partes : SinError(gastos'[m], fallidas')
  BY <1>1, <1>3 DEF GastoInv, SinError
<1>5. ASSUME NEW i \in Nat, EnPago(i)'
      PROVE  \E k \in Nat \ {0} : \E pct \in Nat : Firme(i, k, pct)'
  <2>1. EnPago(i)
    BY <1>1, <1>3, <1>5 DEF EnPago, EnCaja
  <2>2. PICK k \in Nat \ {0}, pct \in Nat : Firme(i, k, pct)
    BY <2>1 DEF GastoInv
  <2>3. DeUnPct(pagos', i, pct) /\ \A m \in Partes : DeUnPct(gastos'[m], i, pct)
    BY <1>1, <1>3, <2>2 DEF Firme, DeUnPct
  <2>4. ASSUME n = De(k + 1), NEW X \in {copia[n], vista[n]}, EnCaja(gastos[n], i),
               ~EnCaja(gastos'[n], i)
        PROVE  HiloDe(X, i).estado = Pagada \/ i \notin Indices(X)
    <3>1. i \in Indices(copia[n]) /\ copia[n].partidas[i].estado # EnTrato
      BY <1>2, <2>4 DEF EnCaja
    <3>2. Len(HiloDe(copia[n], i).notas) = k
      BY <2>2, <2>4, <3>1 DEF Firme, Tiene
    <3>3. /\ copia[n] \in anunciadas /\ Formada(copia[n])
          /\ Guarda(n, vista[n], anunciadas)
      BY TratoAssumption DEF HiloInv, Buenas
    <3>4. copia[n].partidas[i].estado \in 0 .. 4
      BY <3>1, <3>3, FormadaIndices, Rangos DEF TipoPartida
    <3>5. HiloDe(copia[n], i).estado = Pagada
      BY <3>1, <3>2, <3>4, Rangos DEF HiloDe, Hilo, SinHilo
    <3>6. Suyo(n, HiloDe(vista[n], i), HiloDe(copia[n], i)) \/ i \notin Indices(vista[n])
      BY <3>3 DEF Guarda, Recuerda
    <3> QED
      BY <2>4, <3>2, <3>5, <3>6 DEF Suyo
  <2>5. \A m \in Partes : \A X \in {copia[m], vista[m]} :
          m = De(k + 1) /\ Ocupado(gastos[m], X, i) => Ocupado(gastos'[m], X, i)
    BY <1>2, <2>4 DEF Ocupado
  <2> QED
    BY <1>1, <2>2, <2>3, <2>5, FirmeCajas
<1> QED
  BY <1>1, <1>4, <1>5, GastoCajas

(* A box gets an entry for stage i, and keeps those of the other stages.   *)
LEMMA GastoEntrada ==
  ASSUME TypeOK, GastoInv, UNCHANGED <<copia, vista, anunciadas, pagos, fallidas>>,
         NEW n \in Partes, NEW i \in Nat, NEW gs, NEW g,
         gs \subseteq gastos[n], {h \in gastos[n] : h.partida # i} \subseteq gs,
         g.partida = i, ~g.error,
         gastos' = [gastos EXCEPT ![n] = gs \cup {g}],
         i \in fallidas \/ \E k \in Nat \ {0} : \E pct \in Nat : Firme(i, k, pct)'
  PROVE  GastoInv'
<1>1. /\ gastos'[n] = gs \cup {g}
      /\ \A m \in Partes : m # n => gastos'[m] = gastos[m]
  BY DEF TypeOK
<1>2. \A m \in Partes : SinError(gastos'[m], fallidas')
  BY <1>1 DEF GastoInv, SinError
<1>3. ASSUME NEW j \in Nat, j # i, EnPago(j)'
      PROVE  \E k \in Nat \ {0} : \E pct \in Nat : Firme(j, k, pct)'
  <2>1. \A m \in Partes : EnCaja(gastos[m], j) <=> EnCaja(gastos'[m], j)
    BY <1>1, <1>3 DEF EnCaja
  <2>2. EnPago(j)
    BY <1>3, <2>1 DEF EnPago
  <2>3. PICK k \in Nat \ {0}, pct \in Nat : Firme(j, k, pct)
    BY <2>2 DEF GastoInv
  <2>4. DeUnPct(pagos', j, pct) /\ \A m \in Partes : DeUnPct(gastos'[m], j, pct)
    BY <1>1, <1>3, <2>3 DEF Firme, DeUnPct
  <2>5. \A m \in Partes : \A X \in {copia[m], vista[m]} :
          m = De(k + 1) /\ Ocupado(gastos[m], X, j) => Ocupado(gastos'[m], X, j)
    BY <2>1 DEF Ocupado
  <2> QED
    BY <2>3, <2>4, <2>5, FirmeCajas
<1> QED
  BY <1>2, <1>3, GastoCajas DEF EnPago

(* The stage of a copy that is being agreed on, and its last note.         *)
LEMMA EnTratoHilo ==
  ASSUME NEW X, Formada(X), Buena(X), NEW i \in Indices(X), X.partidas[i].estado = EnTrato
  PROVE  LET p == X.partidas[i]
             h == HiloDe(X, i) IN
         /\ i \in Nat /\ h \in TipoHilo /\ Len(h.notas) \in Nat \ {0} /\ h.estado = EnTrato
         /\ h.notas[Len(h.notas)].porcentaje = p.propuesto
         /\ p.turno = De(Len(h.notas) + 1)
         /\ p.propuesto \in Nat
<1> DEFINE p == X.partidas[i]
           h == HiloDe(X, i)
<1>1. i \in Nat /\ p \in TipoPartida /\ PartidaBien(p) /\ h = Hilo(p)
  BY FormadaIndices DEF Buena, HiloDe
<1>2. h \in TipoHilo
  BY <1>1, HiloTipo
<1> HIDE DEF p, h
<1>3. p.estado = EnTrato
  BY DEF p
<1>4. h.estado = EnTrato /\ h.notas = p.notas
  BY <1>1, <1>3, Rangos DEF Hilo
<1>5. p.notas # << >> /\ p.propuesto = p.notas[Len(p.notas)].porcentaje
      /\ p.turno = De(Len(p.notas) + 1)
  BY <1>1, <1>3, Rangos DEF PartidaBien, Ultima
<1>6. Len(p.notas) \in Nat \ {0}
  <2>1. p.notas \in Seq(Nota)
    BY <1>2, <1>4 DEF TipoHilo
  <2> QED
    BY <1>5, <2>1, LenProperties, EmptySeq
<1>7. p.propuesto \in Nat
  <2>1. p.propuesto \in 0 .. 100
    BY <1>1 DEF TipoPartida
  <2> QED
    BY <2>1
<1> QED
  BY <1>1, <1>2, <1>4, <1>5, <1>6, <1>7 DEF p, h

(* "Accept and pay" on the phone: it is the first to ask for it, and the   *)
(* percentage is that of the longest thread.                               *)
LEMMA GastoPedir ==
  ASSUME Inv, HiloInv, GastoInv, NEW n \in Partes, NEW i, PedirGasto(n, i)
  PROVE  GastoInv'
<1> DEFINE X == vista[n]
           p == X.partidas[i]
           h == HiloDe(X, i)
           k == Len(h.notas)
           pct == p.propuesto
           g == NuevoGasto(X, i)
           gs == {y \in gastos[n] : y.partida # g.partida}
<1>1. /\ i \in Indices(X) /\ p.estado = EnTrato /\ p.turno = n /\ ~Pagando(n, i)
      /\ gastos' = [gastos EXCEPT ![n] = gs \cup {g}]
      /\ UNCHANGED <<copia, vista, anunciadas, pagos, fallidas>>
  BY DEF PedirGasto, PuedeAceptarPago, MeToca, Poner, cadena, historia
<1>2. /\ Formada(X) /\ Buena(X) /\ Formada(copia[n])
      /\ Guarda(n, X, anunciadas) /\ X \in anunciadas
      /\ copia[n] \in anunciadas /\ NoAtras(X, copia[n])
  BY CopiasBuenas DEF HiloInv, Guarda, GastoInv
<1>3. /\ i \in Nat /\ h \in TipoHilo /\ k \in Nat \ {0} /\ h.estado = EnTrato
      /\ h.notas[k].porcentaje = pct /\ n = De(k + 1) /\ pct \in Nat
  BY <1>1, <1>2, EnTratoHilo
<1>4. g.partida = i /\ g.porcentaje = pct /\ ~g.error
  BY DEF NuevoGasto
<1>5. h.estado # Pagada
  BY <1>3, Rangos
<1>12. gs \subseteq gastos[n] /\ {y \in gastos[n] : y.partida # i} \subseteq gs
  BY <1>4
<1> HIDE DEF X, p, h, k, pct, g
<1>14. CASE i \in fallidas
  <2>1. TypeOK
    BY DEF Inv
  <2> HIDE DEF gs
  <2> QED
    BY <1>1, <1>3, <1>4, <1>12, <1>14, <2>1, GastoEntrada
<1> SUFFICES ASSUME i \notin fallidas
             PROVE  GastoInv'
  BY <1>14
<1>6. ~EnPago(i)
  <2> SUFFICES ASSUME EnPago(i)
               PROVE  FALSE
    OBVIOUS
  <2>1. PICK k0 \in Nat \ {0}, pct0 \in Nat : Firme(i, k0, pct0)
    BY <1>3 DEF GastoInv
  <2>2. De(k0 + 1) = n
    BY <1>1, <1>2, <1>3, <1>5, <2>1, TurnoTope DEF Firme, h, k
  <2>3. EnCaja(gastos[n], i)
    BY <1>1, <1>5, <2>1, <2>2 DEF Firme, Ocupado, X, h
  <2> QED
    BY <1>1, <2>3 DEF EnCaja, Pagando, GastoInv, SinError
<1>7. Tope(anunciadas, i, k, pct)
  <2>1. ASSUME NEW o \in anunciadas
        PROVE  /\ Len(HiloDe(o, i).notas) <= k
               /\ Len(HiloDe(o, i).notas) = k => HiloDe(o, i).notas[k].porcentaje = pct
    <3>1. /\ HiloDe(o, i) \in TipoHilo /\ Compatibles(HiloDe(o, i), h)
          /\ Suyo(n, h, HiloDe(o, i))
      BY <1>1, <1>2, <1>3, HiloTipo
      DEF HiloInv, Buenas, Encajadas, Encajan, Guarda, Recuerda, h
    <3>2. Len(HiloDe(o, i).notas) <= k
      BY <1>3, <1>5, <3>1, TieneElTurno DEF k
    <3>3. Len(HiloDe(o, i).notas) = k => HiloDe(o, i).notas[k] = h.notas[k]
      BY <1>3, <3>1 DEF Compatibles, k
    <3> QED
      BY <1>3, <3>2, <3>3
  <2>2. Len(HiloDe(X, i).notas) = k
    BY DEF h, k
  <2> QED
    BY <1>2, <2>1, <2>2 DEF Tope
<1>8. Tiene(X, i, k) /\ Tiene(copia[n], i, k)
  <2>1. Tiene(X, i, k)
    BY <1>1 DEF Tiene, h, k
  <2>2. CASE Mas(h, HiloDe(copia[n], i))
    <3>1. HiloDe(copia[n], i) \in TipoHilo
      BY <1>2, <1>3, HiloTipo
    <3>2. Len(HiloDe(copia[n], i).notas) \in Nat
      BY <3>1, LenProperties DEF TipoHilo
    <3>3. Len(HiloDe(copia[n], i).notas) = k
      BY <1>2, <1>3, <1>7, <2>2, <3>2 DEF Mas, Tope, k
    <3>4. i \in Indices(copia[n])
      BY <1>3, <3>3 DEF HiloDe, SinHilo
    <3> QED
      BY <2>1, <3>3, <3>4 DEF Tiene
  <2>3. CASE i \notin Indices(copia[n]) /\ Cortada(copia[n])
    BY <2>1, <2>3 DEF Tiene
  <2> QED
    BY <1>1, <1>2, <2>2, <2>3 DEF NoAtras, h
<1>9. /\ gastos'[n] = gs \cup {g}
      /\ \A m \in Partes : m # n => gastos'[m] = gastos[m]
  BY <1>1 DEF Inv, TypeOK
<1>10. PICK l \in Nat \ {0}, q \in Nat : l = k /\ q = pct
  BY <1>3
<1>11. Firme(i, l, q)'
  <2>1. DeUnPct(pagos', i, q)
    BY <1>1, <1>6 DEF EnPago, EnCaja, DeUnPct
  <2>2. \A m \in Partes : DeUnPct(gastos'[m], i, q)
    BY <1>4, <1>6, <1>9, <1>10 DEF EnPago, EnCaja, DeUnPct
  <2>3. EnCaja(gastos'[n], i)
    BY <1>4, <1>9 DEF EnCaja
  <2>4. \A m \in Partes : m = De(l + 1) =>
          /\ Tiene(copia[m], i, l) /\ Ocupado(gastos'[m], copia[m], i)
          /\ Tiene(vista[m], i, l) /\ Ocupado(gastos'[m], vista[m], i)
    BY <1>3, <1>8, <1>10, <2>3 DEF Ocupado, X
  <2>5. Tope(anunciadas, i, l, q)
    BY <1>7, <1>10
  <2> QED
    BY <1>1, <2>1, <2>2, <2>4, <2>5 DEF Firme
<1>13. TypeOK /\ \E k1 \in Nat \ {0} : \E pct1 \in Nat : Firme(i, k1, pct1)'
  BY <1>11 DEF Inv
<1> HIDE DEF gs
<1> QED
  BY <1>1, <1>3, <1>4, <1>12, <1>13, GastoEntrada

(* The other box opens it with the percentage of its own copy.             *)
LEMMA GastoAbrir ==
  ASSUME Inv, HiloInv, GastoInv, NEW n \in Partes, NEW i, AbrirGasto(n, i)
  PROVE  GastoInv'
<1> DEFINE X == copia[n]
           p == X.partidas[i]
           h == HiloDe(X, i)
           g == NuevoGasto(X, i)
<1>1. /\ i \in Indices(X) /\ p.estado = EnTrato /\ Pagando(Otro(n), i)
      /\ gastos' = [gastos EXCEPT ![n] = gastos[n] \cup {g}]
      /\ UNCHANGED <<copia, vista, anunciadas, pagos, fallidas>>
  BY DEF AbrirGasto, cadena, historia
<1>2. /\ Formada(X) /\ Buena(X)
      /\ Guarda(n, X, anunciadas) /\ X \in anunciadas
  BY CopiasBuenas DEF HiloInv, Guarda
<1>3. /\ i \in Nat /\ Len(h.notas) \in Nat \ {0}
      /\ h.notas[Len(h.notas)].porcentaje = p.propuesto
  BY <1>1, <1>2, EnTratoHilo
<1>4. g.partida = i /\ g.porcentaje = p.propuesto /\ ~g.error
  BY DEF NuevoGasto
<1>12. CASE i \in fallidas
  <2>1. TypeOK
    BY DEF Inv
  <2> HIDE DEF g
  <2> QED
    BY <1>1, <1>3, <1>4, <1>12, <2>1, GastoEntrada
<1> SUFFICES ASSUME i \notin fallidas
             PROVE  GastoInv'
  BY <1>12
<1>5. EnPago(i)
  <2>1. Otro(n) \in Partes
    BY DEF Otro, Partes
  <2> QED
    BY <1>1, <2>1 DEF Pagando, EnPago, EnCaja
<1>6. PICK k \in Nat \ {0}, pct \in Nat : Firme(i, k, pct)
  BY <1>3, <1>5 DEF GastoInv
<1> HIDE DEF h, p, g
<1>7. Len(h.notas) = k
  <2>1. CASE De(k) = n
    BY <1>1, <1>2, <1>3, <1>6, <2>1, TopeAutor DEF Firme, HiloInv, h
  <2>2. CASE De(k + 1) = n
    BY <1>1, <1>6, <2>2 DEF Firme, Tiene, h
  <2> QED
    BY <2>1, <2>2, DeDos
<1>8. g.porcentaje = pct
  BY <1>2, <1>3, <1>4, <1>6, <1>7 DEF Firme, Tope, h
<1>9. /\ gastos'[n] = gastos[n] \cup {g}
      /\ \A m \in Partes : m # n => gastos'[m] = gastos[m]
  BY <1>1 DEF Inv, TypeOK
<1>10. Firme(i, k, pct)'
  <2>1. DeUnPct(pagos', i, pct) /\ \A m \in Partes : DeUnPct(gastos'[m], i, pct)
    BY <1>1, <1>6, <1>8, <1>9 DEF Firme, DeUnPct
  <2>2. \A m \in Partes : \A Y \in {copia[m], vista[m]} :
          m = De(k + 1) /\ Ocupado(gastos[m], Y, i) => Ocupado(gastos'[m], Y, i)
    BY <1>9 DEF Ocupado, EnCaja
  <2> QED
    BY <1>1, <1>6, <2>1, <2>2, FirmeCajas
<1>11. TypeOK /\ \E k1 \in Nat \ {0} : \E pct1 \in Nat : Firme(i, k1, pct1)'
  BY <1>10 DEF Inv
<1> QED
  BY <1>1, <1>3, <1>4, <1>11, GastoEntrada

(* A payment fails: those of the other stages stay as they are.            *)
LEMMA GastoFallar ==
  ASSUME TypeOK, GastoInv, NEW n, NEW i, FallarGasto(n, i)
  PROVE  GastoInv'
<1>1. /\ UNCHANGED <<copia, vista, anunciadas, pagos>> /\ fallidas' = fallidas \cup {i}
      /\ \A m \in Partes : gastos'[m] \in {gastos[m], ConError(gastos[m], i)}
  BY DEF FallarGasto, cadena
<1>2. ASSUME NEW m \in Partes
      PROVE  /\ SinError(gastos'[m], fallidas')
             /\ \A j : j # i => (EnCaja(gastos[m], j) <=> EnCaja(gastos'[m], j))
             /\ \A j, pct : j # i /\ DeUnPct(gastos[m], j, pct) => DeUnPct(gastos'[m], j, pct)
  <2>1. SinError(gastos[m], fallidas) /\ gastos[m] \in SUBSET Gasto
    BY DEF GastoInv, TypeOK
  <2>2. CASE gastos'[m] = gastos[m]
    BY <1>1, <2>1, <2>2 DEF SinError
  <2>3. CASE gastos'[m] = ConError(gastos[m], i) /\ ~\E g \in gastos[m] : g.partida = i
    BY <1>1, <2>1, <2>3 DEF SinError, EnCaja, DeUnPct, ConError
  <2>4. CASE gastos'[m] = ConError(gastos[m], i) /\ \E g \in gastos[m] : g.partida = i
    <3> DEFINE f(g) == [g EXCEPT !.error = @ \/ g.partida = i]
    <3>1. gastos'[m] = {f(g) : g \in gastos[m]}
      BY <2>4 DEF ConError
    <3>2. \A g \in gastos[m] : /\ f(g).partida = g.partida /\ f(g).porcentaje = g.porcentaje
                               /\ f(g).error => g.error \/ g.partida = i
      BY <2>1 DEF Gasto
    <3> HIDE DEF f
    <3> QED
      BY <1>1, <2>1, <3>1, <3>2 DEF SinError, EnCaja, DeUnPct
  <2> QED
    BY <1>1, <2>2, <2>3, <2>4
<1>3. ASSUME NEW j \in Nat, EnPago(j)'
      PROVE  \E k \in Nat \ {0} : \E pct \in Nat : Firme(j, k, pct)'
  <2>1. j # i /\ EnPago(j)
    BY <1>1, <1>2, <1>3 DEF EnPago
  <2>2. PICK k \in Nat \ {0}, pct \in Nat : Firme(j, k, pct)
    BY <2>1 DEF GastoInv
  <2>3. DeUnPct(pagos', j, pct) /\ \A m \in Partes : DeUnPct(gastos'[m], j, pct)
    BY <1>1, <1>2, <2>1, <2>2 DEF Firme
  <2>4. \A m \in Partes : \A X \in {copia[m], vista[m]} :
          m = De(k + 1) /\ Ocupado(gastos[m], X, j) => Ocupado(gastos'[m], X, j)
    BY <1>2, <2>1 DEF Ocupado
  <2> QED
    BY <1>1, <2>2, <2>3, <2>4, FirmeCajas
<1> QED
  BY <1>1, <1>2, <1>3, GastoCajas

-----------------------------------------------------------------------------
(* The invariant at the start, and after each step, when both use phones.  *)
LEMMA GastoInicio ==
  Init => GastoInv
<1> SUFFICES ASSUME NEW g \in Garantias,
                    copia = [n \in Nodos |-> DesdeOferta(g)],
                    vista = [n \in Partes |-> DesdeOferta(g)],
                    pagos = {}, gastos = [n \in Partes |-> {}]
             PROVE  GastoInv
  BY DEF Init
<1>1. \A n \in Partes : NoAtras(vista[n], copia[n])
  <2>1. Formada(DesdeOferta(g))
    BY DesdeOfertaFormada
  <2>2. \A n \in Partes : copia[n] = DesdeOferta(g) /\ vista[n] = DesdeOferta(g)
    BY TratoAssumption
  <2> QED
    BY <2>1, <2>2, NoAtrasMismo
<1>2. \A i : ~EnPago(i)
  BY DEF EnPago, EnCaja
<1> QED
  BY <1>1, <1>2 DEF GastoInv, SinError

(* Steps that change neither a copy nor a payment.                         *)
LEMMA GastoIgual ==
  ASSUME GastoInv, UNCHANGED <<copia, vista, anunciadas, pagos, gastos, fallidas>>
  PROVE  GastoInv'
<1>1. \A i, k, pct : Firme(i, k, pct)' <=> Firme(i, k, pct)
  BY DEF Firme
<1>2. \A i : EnPago(i)' <=> EnPago(i)
  BY DEF EnPago
<1> QED
  BY <1>1, <1>2 DEF GastoInv

LEMMA GastoBoton ==
  ASSUME Escritorio = {}, Inv, HiloInv, GastoInv, NEW n \in Partes, NEW c, NEW S,
         Deriva(n, vista[n], c), Callada(vista[n], c, S),
         PuedeAnotar(gastos[n], vista[n], S), Publicar(n, c)
  PROVE  GastoInv'
<1>1. /\ copia' = [copia EXCEPT ![n] = c] /\ vista' = [vista EXCEPT ![n] = c]
      /\ anunciadas' = anunciadas \cup {c}
      /\ UNCHANGED <<pagos, gastos, fallidas>>
  BY DEF Publicar, Guardar, cadena, cajas, historia
<1>2. TypeOK
  BY DEF Inv
<1> QED
  BY <1>1, <1>2, GastoDeriva

LEMMA GastoHecho ==
  ASSUME Inv, HiloInv, GastoInv, NEW n \in Partes, NEW c,
         Deriva(n, copia[n], c), Callada(copia[n], c, {}), PublicarHecho(n, c)
  PROVE  GastoInv'
<1>1. /\ copia' = [copia EXCEPT ![n] = c] /\ vista' = [vista EXCEPT ![n] = c]
      /\ anunciadas' = anunciadas \cup {c}
      /\ UNCHANGED <<pagos, gastos, fallidas>>
  BY DEF PublicarHecho, Guardar, cadena, cajas, historia
<1>2. TypeOK /\ PuedeAnotar(gastos[n], copia[n], {})
  BY DEF Inv, PuedeAnotar
<1> QED
  BY <1>1, <1>2, GastoDeriva

(* While the counter-offer is open there are no payments.                  *)
LEMMA GastoRespuesta ==
  ASSUME Escritorio = {}, Inv, HiloInv, GastoInv, NEW n \in Partes,
         AccionConfirmarContra(n) \/ AccionRechazarContra(n)
  PROVE  GastoInv'
<1>1. n = Mandante /\ vista[n].estado = Contra /\ PuedeConfirmarContra(vista[n], Mandante)
  BY DEF AccionConfirmarContra, AccionRechazarContra, PuedeConfirmarContra, PuedeRechazarContra
<1>2. Formada(vista[n]) /\ Buena(vista[n])
  BY CopiasBuenas
<1>3. EnContra(anunciadas)
  BY <1>1, Rangos DEF HiloInv, Guarda
<1>4. PICK c \in {ConfirmarContra(vista[n], Mandante), RechazarContra(vista[n], Mandante)} :
        Publicar(n, c)
  BY <1>1 DEF AccionConfirmarContra, AccionRechazarContra
<1>5. Formada(c)
  BY <1>1, <1>2, <1>4, RespuestaBien
<1>6. /\ copia' = [copia EXCEPT ![n] = c] /\ vista' = [vista EXCEPT ![n] = c]
      /\ UNCHANGED <<pagos, gastos, fallidas>>
  BY <1>4 DEF Publicar, Guardar, cadena, cajas, historia
<1>7. /\ copia'[n] = c /\ vista'[n] = c
      /\ \A m \in Partes : m # n => copia'[m] = copia[m] /\ vista'[m] = vista[m]
  BY <1>6, TratoAssumption DEF Inv, TypeOK
<1>8. \A m \in Partes : NoAtras(vista'[m], copia'[m])
  <2>1. NoAtras(c, c)
    BY <1>5, NoAtrasMismo
  <2> QED
    BY <1>7, <2>1 DEF GastoInv
<1>9. \A i \in Nat : ~EnPago(i)
  <2> SUFFICES ASSUME NEW i \in Nat, EnPago(i)
               PROVE  FALSE
    OBVIOUS
  <2>1. PICK k \in Nat \ {0}, pct \in Nat : Firme(i, k, pct)
    BY DEF GastoInv
  <2>2. PICK o \in anunciadas : Len(HiloDe(o, i).notas) = k
    BY <2>1 DEF Firme, Tope
  <2>3. HiloDe(o, i) = SinHilo
    BY <1>3, <2>2, SinHilos DEF EnContra
  <2> QED
    BY <2>2, <2>3 DEF SinHilo
<1>10. \A i : EnPago(i)' <=> EnPago(i)
  BY <1>6 DEF EnPago
<1>11. \A m \in Partes : SinError(gastos'[m], fallidas')
  BY <1>6 DEF GastoInv
<1> QED
  BY <1>8, <1>9, <1>10, <1>11 DEF GastoInv

(* Nothing is written in any stage.                                        *)
LEMMA SinNotas ==
  ASSUME NEW gs, NEW X
  PROVE  PuedeAnotar(gs, X, {})
BY DEF PuedeAnotar

LEMMA GastoDeTrato ==
  ASSUME Escritorio = {}, Inv, HiloInv, GastoInv, NEW n \in Partes, AccionDeTrato(n)
  PROVE  GastoInv'
<1>1. Formada(vista[n]) /\ Buena(vista[n]) /\ PuedeAnotar(gastos[n], vista[n], {})
  BY CopiasBuenas, SinNotas
<1>2. CASE AccionConfirmarContra(n) \/ AccionRechazarContra(n)
  BY <1>2, GastoRespuesta
<1>3. CASE \E monto \in MontosExtra : AccionProponerExtra(n, monto)
  <2>1. PICK monto \in MontosExtra : AccionProponerExtra(n, monto)
    BY <1>3
  <2> DEFINE c == ProponerExtra(vista[n], n, DetalleOferta, monto)
  <2>2. Deriva(n, vista[n], c) /\ Callada(vista[n], c, {})
    BY <1>1, DerivaDeTrato, ObraAssumption
  <2>3. Publicar(n, c)
    BY <2>1 DEF AccionProponerExtra
  <2> HIDE DEF c
  <2> QED
    BY <1>1, <2>2, <2>3, GastoBoton
<1>4. CASE AccionAceptarExtra(n)
  <2>1. /\ Deriva(n, vista[n], AceptarExtra(vista[n], n))
        /\ Callada(vista[n], AceptarExtra(vista[n], n), {})
    BY <1>1, <1>4, DerivaExtra DEF AccionAceptarExtra
  <2> QED
    BY <1>1, <1>4, <2>1, GastoBoton DEF AccionAceptarExtra
<1>5. CASE \/ AccionRechazarExtra(n) \/ AccionAbandonar(n)
           \/ AccionAceptarCierre(n) \/ AccionRechazarCierre(n)
  <2>1. PICK c \in {RechazarExtra(vista[n], n), Abandonar(vista[n], n),
                    AceptarCierre(vista[n], n), RechazarCierre(vista[n], n)} : Publicar(n, c)
    BY <1>5 DEF AccionRechazarExtra, AccionAbandonar, AccionAceptarCierre, AccionRechazarCierre
  <2>2. Deriva(n, vista[n], c) /\ Callada(vista[n], c, {})
    BY <1>1, <2>1, DerivaDeTrato
  <2> QED
    BY <1>1, <2>1, <2>2, GastoBoton
<1> QED
  BY <1>2, <1>3, <1>4, <1>5 DEF AccionDeTrato

LEMMA GastoDePartida ==
  ASSUME Escritorio = {}, Inv, HiloInv, GastoInv, NEW n \in Partes, NEW i, AccionDePartida(n, i)
  PROVE  GastoInv'
<1>1. Formada(vista[n]) /\ Buena(vista[n]) /\ PuedeAnotar(gastos[n], vista[n], {})
  BY CopiasBuenas, SinNotas
<1>2. CASE \E precio \in Precios \cup {0} : AccionProponer(n, i, precio)
  <2>1. PICK precio \in Precios \cup {0} : AccionProponer(n, i, precio)
    BY <1>2
  <2>2. precio \in Nat
    BY PreciosAssumption
  <2>3. /\ Deriva(n, vista[n], Proponer(vista[n], i, n, precio))
        /\ Callada(vista[n], Proponer(vista[n], i, n, precio), {})
    BY <1>1, <2>1, <2>2, DerivaProponer DEF AccionProponer
  <2> QED
    BY <1>1, <2>1, <2>3, GastoBoton DEF AccionProponer
<1>3. CASE AccionCancelar(n, i)
  <2>1. /\ Deriva(n, vista[n], Cancelar(vista[n], i, n))
        /\ Callada(vista[n], Cancelar(vista[n], i, n), {})
    BY <1>1, <1>3, DerivaCancelar DEF AccionCancelar
  <2> QED
    BY <1>1, <1>3, <2>1, GastoBoton DEF AccionCancelar
<1>4. CASE \E pct \in Pcts : AccionAvisar(n, i, pct)
  <2>1. PICK pct \in Pcts : AccionAvisar(n, i, pct)
    BY <1>4
  <2> DEFINE c == AvisarTermino(vista[n], i, n, pct)
  <2>2. Deriva(n, vista[n], c) /\ Callada(vista[n], c, {i}) /\ Publicar(n, c)
    BY <1>1, <2>1, DerivaAvisar DEF AccionAvisar
  <2>3. PuedeAnotar(gastos[n], vista[n], {i})
    <3>1. i \in Indices(vista[n]) /\ vista[n].partidas[i].estado = Encerrada
      BY <2>1 DEF AccionAvisar, PuedeAvisar
    <3>2. HiloDe(vista[n], i).notas = << >>
      BY <3>1, Rangos DEF HiloDe, Hilo, SinHilo
    <3> QED
      BY <3>2 DEF PuedeAnotar
  <2> HIDE DEF c
  <2> QED
    BY <2>2, <2>3, GastoBoton
<1>5. CASE \E pct \in Pcts : AccionContraPago(n, i, pct)
  <2>1. PICK pct \in Pcts : AccionContraPago(n, i, pct)
    BY <1>5
  <2> DEFINE c == ContraPago(vista[n], i, n, pct)
  <2>2. Deriva(n, vista[n], c) /\ Callada(vista[n], c, {i}) /\ Publicar(n, c)
    BY <1>1, <2>1, DerivaContraPago DEF AccionContraPago
  <2>3. PuedeAnotar(gastos[n], vista[n], {i})
    BY <2>1 DEF AccionContraPago, Pagando, PuedeAnotar, EnCaja, GastoInv, SinError
  <2> HIDE DEF c
  <2> QED
    BY <2>2, <2>3, GastoBoton
<1>6. CASE \E texto \in Textos : AccionEditar(n, i, texto)
  <2>1. PICK texto \in Textos : AccionEditar(n, i, texto)
    BY <1>6
  <2>2. /\ Deriva(n, vista[n], EditarDetalle(vista[n], i, n, texto))
        /\ Callada(vista[n], EditarDetalle(vista[n], i, n, texto), {})
    BY <1>1, <2>1, DerivaEditar DEF AccionEditar
  <2> QED
    BY <1>1, <2>1, <2>2, GastoBoton DEF AccionEditar
<1>7. CASE PedirFondeo(n, i)
  BY <1>7, GastoIgual DEF PedirFondeo, cadena, historia
<1>8. CASE PedirGasto(n, i)
  BY <1>8, GastoPedir
<1> QED
  BY <1>2, <1>3, <1>4, <1>5, <1>6, <1>7, <1>8 DEF AccionDePartida

LEMMA GastoDeCaja ==
  ASSUME Inv, HiloInv, GastoInv, NEW n \in Partes, NEW i, PasoDeCaja(n, i)
  PROVE  GastoInv'
<1>1. Formada(copia[n]) /\ Buena(copia[n])
  BY CopiasBuenas
<1>2. CASE VerFondeo(n, i)
  BY <1>1, <1>2, DerivaConfirmar, GastoHecho DEF VerFondeo
<1>3. CASE VerPago(n, i)
  BY <1>1, <1>3, DerivaAceptar, GastoHecho DEF VerPago
<1>4. CASE AbrirFondeo(n, i)
  BY <1>4, GastoIgual DEF AbrirFondeo, cadena, historia
<1>5. CASE AbrirGasto(n, i)
  BY <1>5, GastoAbrir
<1>6. CASE FallarGasto(n, i)
  BY <1>6, GastoFallar DEF Inv
<1> QED
  BY <1>2, <1>3, <1>4, <1>5, <1>6 DEF PasoDeCaja

LEMMA GastoDeCadena ==
  ASSUME Inv, GastoInv, NEW i \in Nat, PasoDeCadena(i)
  PROVE  GastoInv'
<1>1. TypeOK
  BY DEF Inv
<1>2. CASE Fondear(i)
  BY <1>2, GastoIgual DEF Fondear, historia
<1>3. CASE Gastar(i)
  BY <1>1, <1>3, GastoGastar
<1>4. CASE \E j \in Indices(copia[Contratista]) : Enterarse(i, j) \/ TomarTxid(i, j)
  <2>1. PICK j : Enterarse(i, j) \/ TomarTxid(i, j)
    BY <1>4
  <2>2. CASE Enterarse(i, j)
    BY <2>2, GastoIgual DEF Enterarse, cadena, historia
  <2>3. CASE TomarTxid(i, j)
    BY <1>1, <2>3, GastoTomarTxid
  <2> QED
    BY <2>1, <2>2, <2>3
<1> QED
  BY <1>2, <1>3, <1>4 DEF PasoDeCadena

LEMMA GastoLeer ==
  ASSUME Inv, HiloInv, GastoInv, NEW n \in Partes, Leer(n)
  PROVE  GastoInv'
<1>1. /\ UNCHANGED <<copia, anunciadas, pagos, gastos, fallidas>>
      /\ vista' = [vista EXCEPT ![n] = copia[n]]
  BY DEF Leer, cadena, cajas, historia
<1>2. \A m \in Partes : vista'[m] = IF m = n THEN copia[m] ELSE vista[m]
  BY <1>1 DEF Inv, TypeOK
<1>3. ASSUME NEW i, NEW k, NEW pct, Firme(i, k, pct)
      PROVE  Firme(i, k, pct)'
  BY <1>1, <1>2, <1>3 DEF Firme
<1>4. \A i : EnPago(i)' <=> EnPago(i)
  BY <1>1 DEF EnPago
<1>5. \A m \in Partes : NoAtras(vista'[m], copia'[m])
  <2>1. \A m \in Partes : Formada(copia[m]) /\ NoAtras(vista[m], copia[m])
    BY CopiasBuenas DEF GastoInv
  <2> QED
    BY <1>1, <1>2, <2>1, NoAtrasMismo
<1>6. \A m \in Partes : SinError(gastos'[m], fallidas')
  BY <1>1 DEF GastoInv
<1> QED
  BY <1>3, <1>4, <1>5, <1>6 DEF GastoInv

LEMMA GastoRecibir ==
  ASSUME Inv, HiloInv, GastoInv, NEW n \in Nodos, Recibir(n)
  PROVE  GastoInv'
<1> DEFINE c(o) == FusionarObra(copia[n], o)
<1>1. PICK o \in anunciadas : Fusion(n, o)
  BY DEF Recibir
<1>2. copia' = [copia EXCEPT ![n] = c(o)]
  BY <1>1 DEF Fusion
<1>3. copia'[n] = c(o)
  BY <1>2 DEF Inv, TypeOK
<1>4. anunciadas' = anunciadas \cup {c(o)} /\ vista' = vista /\ UNCHANGED <<pagos, gastos, fallidas>>
  BY <1>1, <1>3 DEF Fusion, cadena, cajas, historia
<1>5. TypeOK
  BY DEF Inv
<1> QED
  BY <1>2, <1>4, <1>5, GastoFusion

LEMMA GastoPaso ==
  ASSUME Escritorio = {}, Inv, HiloInv, GastoInv, [Next]_vars
  PROVE  GastoInv'
<1>1. CASE \E n \in Partes : AccionDeTrato(n)
  BY <1>1, GastoDeTrato
<1>2. CASE \E n \in Partes : \E i \in Indices(vista[n]) : AccionDePartida(n, i)
  BY <1>2, GastoDePartida
<1>3. CASE \E n \in Partes : \E i \in Indices(copia[n]) : PasoDeCaja(n, i)
  BY <1>3, GastoDeCaja
<1>4. CASE \E i \in Indices(copia[Mandante]) : PasoDeCadena(i)
  <2>1. Mandante \in Partes
    BY DEF Partes
  <2>2. \A i \in Indices(copia[Mandante]) : i \in Nat
    BY <2>1, CopiasBuenas, FormadaIndices
  <2> QED
    BY <1>4, <2>2, GastoDeCadena
<1>5. CASE \E n \in Partes : Limpiar(n) \/ Leer(n)
  <2>1. TypeOK
    BY DEF Inv
  <2> QED
    BY <1>5, <2>1, GastoLimpiar, GastoLeer
<1>6. CASE \E n \in Nodos : Recibir(n)
  BY <1>6, GastoRecibir
<1>7. CASE UNCHANGED vars
  BY <1>7, GastoIgual DEF vars, cadena, cajas, historia
<1> QED
  BY <1>1, <1>2, <1>3, <1>4, <1>5, <1>6, <1>7 DEF Next

(* On the phone, all that the two boxes would pay of a stage and all that  *)
(* was paid is one percentage, that of the longest thread of the stage,    *)
(* which nobody may lengthen any more, whichever payments of other stages  *)
(* failed and until one of this stage does.                                *)
THEOREM UnSoloPorcentaje ==
  ASSUME Escritorio = {}
  PROVE  Spec => []GastoInv
<1>1. Init => GastoInv
  BY GastoInicio
<1>2. Inv /\ HiloInv /\ GastoInv /\ [Next]_vars => GastoInv'
  BY GastoPaso
<1> QED
  BY <1>1, <1>2, Invariante, UnSoloHilo, PTL DEF Spec

(* In the same case, the percentage of a paid stage is the one its         *)
(* transaction split, whichever copy one looks at (armar_gasto,            *)
(* aceptar_pago, Partida::fusionar), unless a payment of that very stage   *)
(* failed or its box was given the transaction of another one.             *)
THEOREM SePagaLoAcordado ==
  ASSUME Escritorio = {}
  PROVE  Spec => []GastoCuadra
<1>1. Inv /\ HiloInv /\ GastoInv => GastoCuadra
  <2> SUFFICES ASSUME Inv, HiloInv, GastoInv, NEW o \in anunciadas, NEW i \in Indices(o),
                      o.partidas[i].estado = Pagada, i \notin ajenos \cup fallidas
               PROVE  [partida |-> i, porcentaje |-> o.partidas[i].pago] \in pagos
    BY DEF GastoCuadra
  <2> DEFINE p == o.partidas[i]
             h == HiloDe(o, i)
  <2>1. /\ Formada(o) /\ Buena(o) /\ Respaldada(o)
        /\ Buenas(anunciadas) /\ Encajadas(anunciadas)
    BY CopiasBien DEF HiloInv, Buenas
  <2>2. i \in Nat /\ p \in TipoPartida /\ PartidaBien(p)
    BY <2>1, FormadaIndices DEF Buena
  <2>3. PICK t \in pagos : t.partida = i
    BY <2>1 DEF Respaldada, Gastada
  <2>4. PICK k \in Nat \ {0}, pct \in Nat : Firme(i, k, pct)
    BY <2>2, <2>3 DEF GastoInv, EnPago, EnCaja
  <2>5. t.porcentaje = pct
    BY <2>3, <2>4 DEF Firme, DeUnPct
  <2> HIDE DEF p
  <2>6. p.estado = Pagada
    BY DEF p
  <2>7. h = Hilo(p) /\ h.estado = Pagada /\ h.notas = p.notas
    BY <2>6, Rangos DEF HiloDe, Hilo, p
  <2> HIDE DEF h
  <2>8. Len(h.notas) = k
    BY <2>1, <2>2, <2>4, <2>7, TopePagado DEF Firme, h
  <2>9. h.notas[k].porcentaje = pct
    BY <2>4, <2>8 DEF Firme, Tope, h
  <2>10. p.pago = p.notas[Len(p.notas)].porcentaje
    BY <2>2, <2>6, Rangos DEF PartidaBien, Ultima
  <2>11. p.pago = pct
    BY <2>7, <2>8, <2>9, <2>10
  <2>12. t = [partida |-> i, porcentaje |-> pct]
    <3>1. t \in Pago
      BY <2>3 DEF Inv, TypeOK
    <3> QED
      BY <2>3, <2>5, <3>1 DEF Pago
  <2> QED
    BY <2>3, <2>11, <2>12 DEF p
<1> QED
  BY <1>1, Invariante, UnSoloHilo, UnSoloPorcentaje, PTL

-----------------------------------------------------------------------------
(* The receipt of a payment, in a deal without extras.                     *)
(*                                                                         *)
(* No stage has an amount of its own: each locks the bond of the deal.     *)
SinMontos(o) == o.extra = SinExtra /\ \A i \in Indices(o) : o.partidas[i].monto = 0

(* A receipt for a bond of g.                                              *)
PorGarantia(h, g) ==
  h.estado = Pagada => h.recibo.monto = MontoPct(g, h.recibo.porcentaje)

(* The bond of the deal is g, or would be g, and it was paid by it.        *)
DeGarantia(o, g) ==
  /\ o.garantia = g /\ o.contra \in {0, g}
  /\ \A i \in Nat : PorGarantia(HiloDe(o, i), g)

(* Nothing was paid and nothing will: there was no deal.                   *)
Quieta(o) ==
  /\ o.estado \in {Contra, Rechazada, Abandonada}
  /\ \A i \in Indices(o) : o.partidas[i].estado = Pendiente

(* Every copy has the bond that is agreed on or proposed; once a           *)
(* counter-offer was rejected the published one is back in some copies,    *)
(* and nothing is done any more.                                           *)
UnaGarantia(os) ==
  \/ \E g \in Nat \ {0} : \A o \in os : DeGarantia(o, g)
  \/ ~EnContra(os) /\ \A o \in os : Quieta(o)

CobroInv ==
  /\ \A o \in anunciadas : SinMontos(o)
  /\ UnaGarantia(anunciadas)

(* A copy c made of X keeps the bond, and a receipt it adds is for it.     *)
Conserva(X, c) ==
  /\ SinMontos(c) /\ c.garantia = X.garantia /\ c.contra = X.contra
  /\ \A i \in Nat : HiloDe(c, i) = HiloDe(X, i) \/ PorGarantia(HiloDe(c, i), X.garantia)
  /\ Quieta(X) => Quieta(c)

-----------------------------------------------------------------------------
(* A copy whose stages are all pending has no receipt.                     *)
LEMMA SinRecibos ==
  ASSUME NEW o, \A i \in Indices(o) : o.partidas[i].estado = Pendiente, NEW g
  PROVE  \A i \in Nat : PorGarantia(HiloDe(o, i), g)
<1>1. \A i \in Nat : HiloDe(o, i) = SinHilo
  BY SinHilos
<1>2. PorGarantia(SinHilo, g)
  BY Rangos DEF PorGarantia, SinHilo
<1> QED
  BY <1>1, <1>2

(* What keeps the invariant.                                               *)
LEMMA CobroConserva ==
  ASSUME NEW os, UnaGarantia(os), NEW X \in os, NEW c, Conserva(X, c)
  PROVE  UnaGarantia(os \cup {c})
<1>1. CASE \E g \in Nat \ {0} : \A o \in os : DeGarantia(o, g)
  <2>1. PICK g \in Nat \ {0} : \A o \in os : DeGarantia(o, g)
    BY <1>1
  <2>2. DeGarantia(X, g)
    BY <2>1
  <2>3. DeGarantia(c, g)
    BY <2>2 DEF DeGarantia, Conserva
  <2> QED
    BY <2>1, <2>3 DEF UnaGarantia
<1>2. CASE ~EnContra(os) /\ \A o \in os : Quieta(o)
  <2>1. ~EnContra(os \cup {c})
    BY <1>2 DEF EnContra
  <2>2. Quieta(c)
    BY <1>2 DEF Conserva
  <2> QED
    BY <1>2, <2>1, <2>2 DEF UnaGarantia
<1> QED
  BY <1>1, <1>2 DEF UnaGarantia

(* The merge fills no amount in (Partida::fusionar).                       *)
LEMMA FusionarMonto ==
  ASSUME NEW p \in TipoPartida, NEW q \in TipoPartida, p.monto = 0, q.monto = 0
  PROVE  Fusionar(p, q).monto = 0
<1> DEFINE d == [p EXCEPT !.detalle = Llenar(p.detalle, q.detalle, "")]
           r == PasoSeq(d, q)
<1>1. d \in TipoPartida
  BY ConDetalle
<1>2. d.monto = 0
  BY DEF TipoPartida
<1> HIDE DEF d
<1>3. r \in TipoPartida
  BY <1>1, PasoSeqTipo
<1>4. r.monto = 0
  <2>1. TomarEncierre(d, q).monto = 0
    BY <1>1, <1>2 DEF TomarEncierre, TipoPartida
  <2> QED
    BY <1>1, <1>2, <2>1 DEF PasoSeq, TipoPartida
<1> HIDE DEF r
<1>5. PasoAvance(r, q).monto = 0
  BY <1>3, <1>4 DEF PasoAvance, TipoPartida
<1>6. \A t \in TipoPartida : t.monto = 0 => PasoResto(t, q).monto = 0
  BY DEF PasoResto, TipoPartida, Llenar
<1>7. PasoIgual(r, q) \in TipoPartida
  BY <1>3, PasoIgualTipo
<1>8. PasoIgual(r, q).monto = 0
  BY <1>3, <1>4 DEF PasoIgual, TipoPartida, Llenar
<1> QED
  BY <1>3, <1>4, <1>5, <1>6, <1>7, <1>8 DEF Fusionar, r, d

LEMMA FusionMontos ==
  ASSUME NEW a, Formada(a), SinMontos(a), NEW b, Formada(b), SinMontos(b)
  PROVE  \A i \in Indices(FusionarObra(a, b)) : FusionarObra(a, b).partidas[i].monto = 0
<1> DEFINE P == {p \in TipoPartida : p.monto = 0}
           S == [i \in Nat |-> P]
<1>1. NuevaPartida("") \in P
  BY PendienteTipo DEF NuevaPartida, PendienteMonto, Titulos
<1>2. \A p, q \in P : Fusionar(p, q) \in P
  BY FusionarMonto, FusionarTipo
<1>3. /\ Dentro(a, S) /\ Dentro(b, S)
      /\ Indices(FusionarObra(a, b)) \subseteq Nat
  BY FormadaIndices, FusionarObraFormada DEF SinMontos, Dentro
<1> HIDE DEF P
<1>4. Absorbe(S, S, a.n_partidas)
  BY <1>1, <1>2 DEF Absorbe
<1>5. Dentro(FusionarObra(a, b), S)
  BY <1>3, <1>4, FusionarObraDentro
<1> QED
  BY <1>3, <1>5 DEF Dentro, P

(* Bond and counter-offer come from one of the two, and an extra as well.  *)
LEMMA FusionTerminos ==
  ASSUME NEW a, Formada(a), NEW b, Formada(b)
  PROVE  LET c == FusionarObra(a, b) IN
         /\ c.garantia \in {a.garantia, b.garantia}
         /\ c.contra \in {a.contra, b.contra}
         /\ c.extra \in {a.extra, b.extra, SinExtra}
<1> DEFINE e == FusionEstado(a, b)
           x == FusionExtra(e, b)
           k == FusionCierre(x, b)
           f == FusionFin(k)
<1>1. /\ e.garantia \in {a.garantia, b.garantia}
      /\ e.contra \in {a.contra, b.contra} /\ e.extra = a.extra
  BY DEF FusionEstado, Formada, TipoObra, Llenar
<1>2. Formada(e)
  BY FusionEstadoForma
<1> HIDE DEF e
<1>3. /\ x.garantia = e.garantia /\ x.contra = e.contra
      /\ x.extra \in {e.extra, b.extra, SinExtra}
  BY <1>2 DEF FusionExtra, Formada, TipoObra
<1>4. Formada(x)
  BY <1>2, FusionExtraForma
<1> HIDE DEF x
<1>5. k.garantia = x.garantia /\ k.contra = x.contra /\ k.extra = x.extra
  BY <1>4 DEF FusionCierre, Formada, TipoObra
<1>6. Formada(k)
  BY <1>4, FusionCierreForma
<1> HIDE DEF k
<1>7. f.garantia = k.garantia /\ f.contra = k.contra /\ f.extra = k.extra
  BY <1>6 DEF FusionFin, Formada, TipoObra
<1> HIDE DEF f
<1> QED
  BY <1>1, <1>3, <1>5, <1>7 DEF FusionarObra, e, x, k, f

LEMMA CobroFusion ==
  ASSUME NEW os, Buenas(os), Encajadas(os), \A o \in os : SinMontos(o), UnaGarantia(os),
         NEW a \in os, NEW b \in os
  PROVE  LET c == FusionarObra(a, b) IN SinMontos(c) /\ UnaGarantia(os \cup {c})
<1> DEFINE c == FusionarObra(a, b)
<1>1. /\ Formada(a) /\ Buena(a) /\ Formada(b) /\ Buena(b) /\ Encajan(a, b)
      /\ SinMontos(a) /\ SinMontos(b)
  BY DEF Buenas, Encajadas
<1>2. /\ c.garantia \in {a.garantia, b.garantia}
      /\ c.contra \in {a.contra, b.contra}
      /\ c.extra \in {a.extra, b.extra, SinExtra}
  BY <1>1, FusionTerminos
<1>3. \A i \in Nat : HiloDe(c, i) \in {HiloDe(a, i), HiloDe(b, i), SinHilo}
  BY <1>1, FusionHilo
<1>4. SinMontos(c)
  BY <1>1, <1>2, FusionMontos DEF SinMontos
<1>5. CASE \E g \in Nat \ {0} : \A o \in os : DeGarantia(o, g)
  <2>1. PICK g \in Nat \ {0} : \A o \in os : DeGarantia(o, g)
    BY <1>5
  <2>2. DeGarantia(a, g) /\ DeGarantia(b, g)
    BY <2>1
  <2>3. PorGarantia(SinHilo, g)
    BY Rangos DEF PorGarantia, SinHilo
  <2> HIDE DEF c
  <2>4. DeGarantia(c, g)
    BY <1>2, <1>3, <2>2, <2>3 DEF DeGarantia
  <2> QED
    BY <1>4, <2>1, <2>4 DEF UnaGarantia, c
<1>6. CASE ~EnContra(os) /\ \A o \in os : Quieta(o)
  <2>1. ~EnContra(os \cup {c})
    BY <1>6 DEF EnContra
  <2>2. Quieta(a) /\ Quieta(b)
    BY <1>6
  <2>3. c.estado \in {a.estado, b.estado} /\ \A i \in Indices(c) : c.partidas[i].estado = Pendiente
    BY <1>1, <2>2, FusionPendiente DEF Quieta
  <2>4. Quieta(c)
    BY <2>2, <2>3 DEF Quieta
  <2> QED
    BY <1>4, <1>6, <2>1, <2>4 DEF UnaGarantia
<1> QED
  BY <1>5, <1>6 DEF UnaGarantia

-----------------------------------------------------------------------------
(* Each operation keeps the bond.                                          *)

(* It replaces one stage, and does not pay it.                             *)
LEMMA ConservaUna ==
  ASSUME NEW X, Formada(X), SinMontos(X), NEW i \in Indices(X), NEW c,
         Indices(c) = Indices(X),
         \A j \in Indices(X) : j # i => c.partidas[j] = X.partidas[j],
         c.partidas[i].monto = X.partidas[i].monto,
         Hilo(c.partidas[i]) = Hilo(X.partidas[i])
           \/ PorGarantia(Hilo(c.partidas[i]), X.garantia),
         c.garantia = X.garantia, c.contra = X.contra, c.extra = X.extra,
         Quieta(X) => c.estado = X.estado /\ c.partidas[i].estado = Pendiente
  PROVE  Conserva(X, c)
<1>1. SinMontos(c)
  BY DEF SinMontos
<1>2. \A j \in Nat : HiloDe(c, j) = HiloDe(X, j) \/ PorGarantia(HiloDe(c, j), X.garantia)
  BY DEF HiloDe
<1>3. Quieta(X) => Quieta(c)
  BY DEF Quieta
<1> QED
  BY <1>1, <1>2, <1>3 DEF Conserva

(* It leaves the stages alone.                                             *)
LEMMA ConservaMismas ==
  ASSUME NEW X, SinMontos(X), NEW c, c.partidas = X.partidas,
         c.garantia = X.garantia, c.contra = X.contra, c.extra = SinExtra,
         c.estado \in {X.estado, Abandonada}
  PROVE  Conserva(X, c)
<1>1. Indices(c) = Indices(X)
  BY DEF Indices
<1> QED
  BY <1>1 DEF Conserva, SinMontos, HiloDe, Quieta

(* The stage written by a button is not paid.                              *)
LEMMA ConservaBoton ==
  ASSUME NEW X, Formada(X), SinMontos(X), NEW i \in Indices(X), NEW p, NEW c,
         c.partidas = [X.partidas EXCEPT ![i] = p],
         p.monto = X.partidas[i].monto, p.estado # Pagada,
         c.garantia = X.garantia, c.contra = X.contra, c.extra = X.extra,
         Quieta(X) => c.estado = X.estado /\ p.estado = Pendiente
  PROVE  Conserva(X, c)
<1>1. X.partidas \in [1 .. X.n_partidas -> TipoPartida] /\ Indices(X) = 1 .. X.n_partidas
  BY FormadaIndices
<1>2. /\ c.partidas[i] = p /\ Indices(c) = Indices(X)
      /\ \A j \in Indices(X) : j # i => c.partidas[j] = X.partidas[j]
  BY <1>1 DEF Indices
<1>3. PorGarantia(Hilo(p), X.garantia)
  BY Rangos DEF PorGarantia, Hilo, SinHilo
<1>4. SinMontos(c)
  BY <1>2 DEF SinMontos
<1>5. \A j \in Nat : HiloDe(c, j) = HiloDe(X, j) \/ PorGarantia(HiloDe(c, j), X.garantia)
  BY <1>2, <1>3 DEF HiloDe
<1>6. Quieta(X) => Quieta(c)
  BY <1>2 DEF Quieta
<1> QED
  BY <1>4, <1>5, <1>6 DEF Conserva

LEMMA ConservaCierres ==
  ASSUME NEW n, NEW X, Formada(X), SinMontos(X)
  PROVE  \A c \in {Abandonar(X, n), AceptarCierre(X, n), RechazarCierre(X, n)} : Conserva(X, c)
<1> SUFFICES ASSUME NEW c \in {Abandonar(X, n), AceptarCierre(X, n), RechazarCierre(X, n)}
             PROVE  Conserva(X, c)
  OBVIOUS
<1>1. X \in TipoObra /\ X.extra = SinExtra
  BY DEF Formada, SinMontos
<1>2. /\ c.partidas = X.partidas /\ c.garantia = X.garantia /\ c.contra = X.contra
      /\ c.extra = SinExtra /\ c.estado \in {X.estado, Abandonada}
  BY <1>1 DEF Abandonar, AceptarCierre, RechazarCierre, TipoObra
<1> QED
  BY <1>2, ConservaMismas

LEMMA ConservaProponer ==
  ASSUME NEW n, NEW X, Formada(X), SinMontos(X), NEW i, NEW precio \in Nat,
         Abierta(X), X.estado # Contra, PuedeProponer(X, i, n, precio)
  PROVE  Conserva(X, Proponer(X, i, n, precio))
<1> DEFINE p == Propuesta(X.partidas[i], n, precio)
           c == Proponer(X, i, n, precio)
<1>1. i \in Indices(X) /\ X.partidas[i] \in TipoPartida /\ X \in TipoObra
  BY FormadaIndices DEF PuedeProponer, Formada
<1>2. p.estado = Encerrando /\ p.monto = X.partidas[i].monto
  BY <1>1 DEF Propuesta, TipoPartida
<1>3. /\ c.partidas = [X.partidas EXCEPT ![i] = p] /\ c.garantia = X.garantia
      /\ c.contra = X.contra /\ c.extra = X.extra
  BY <1>1 DEF Proponer, TipoObra
<1>4. ~Quieta(X)
  BY DEF Quieta, Abierta, Terminales
<1> HIDE DEF p, c
<1>5. Conserva(X, c)
  BY <1>1, <1>2, <1>3, <1>4, ConservaBoton, Rangos
<1> QED
  BY <1>5 DEF c

LEMMA ConservaCancelar ==
  ASSUME NEW n, NEW X, Formada(X), SinMontos(X), NEW i, PuedeCancelar(X, i, n)
  PROVE  Conserva(X, Cancelar(X, i, n))
<1> DEFINE p == Cancelada(X.partidas[i])
           c == Cancelar(X, i, n)
<1>1. i \in Indices(X) /\ X.partidas[i] \in TipoPartida /\ X \in TipoObra
  BY FormadaIndices DEF PuedeCancelar, Formada
<1>2. p.estado = Pendiente /\ p.monto = X.partidas[i].monto
  BY <1>1 DEF Cancelada, TipoPartida
<1>3. /\ c.partidas = [X.partidas EXCEPT ![i] = p] /\ c.garantia = X.garantia
      /\ c.contra = X.contra /\ c.extra = X.extra /\ c.estado = X.estado
  BY <1>1 DEF Cancelar, TipoObra
<1> HIDE DEF p, c
<1>4. Conserva(X, c)
  BY <1>1, <1>2, <1>3, ConservaBoton, Rangos
<1> QED
  BY <1>4 DEF c

LEMMA ConservaEditar ==
  ASSUME NEW n, NEW X, Formada(X), SinMontos(X), NEW i, NEW texto, PuedeEditar(X, i, n)
  PROVE  Conserva(X, EditarDetalle(X, i, n, texto))
<1> DEFINE p == [X.partidas[i] EXCEPT !.detalle = texto]
           c == EditarDetalle(X, i, n, texto)
<1>1. /\ i \in Indices(X) /\ X.partidas[i] \in TipoPartida /\ X \in TipoObra
      /\ X.partidas[i].estado = Pendiente
  BY FormadaIndices DEF PuedeEditar, Formada
<1>2. p.estado = Pendiente /\ p.monto = X.partidas[i].monto
  BY <1>1 DEF TipoPartida
<1>3. /\ c.partidas = [X.partidas EXCEPT ![i] = p] /\ c.garantia = X.garantia
      /\ c.contra = X.contra /\ c.extra = X.extra /\ c.estado = X.estado
  BY <1>1 DEF EditarDetalle, TipoObra
<1> HIDE DEF p, c
<1>4. Conserva(X, c)
  BY <1>1, <1>2, <1>3, ConservaBoton, Rangos
<1> QED
  BY <1>4 DEF c

LEMMA ConservaNota ==
  ASSUME NEW n, NEW X, Formada(X), SinMontos(X), NEW i, NEW pct
  PROVE  /\ PuedeAvisar(X, i, n, pct) => Conserva(X, AvisarTermino(X, i, n, pct))
         /\ PuedeContraPago(X, i, n, pct) => Conserva(X, ContraPago(X, i, n, pct))
<1> DEFINE p == Anotar(X.partidas[i], n, pct)
           q == [p EXCEPT !.estado = EnTrato]
           c == AvisarTermino(X, i, n, pct)
           d == ContraPago(X, i, n, pct)
<1> SUFFICES ASSUME i \in Indices(X), X.partidas[i].estado \in {Encerrada, EnTrato}
             PROVE  /\ Conserva(X, c)
                    /\ X.partidas[i].estado = EnTrato => Conserva(X, d)
  BY DEF PuedeAvisar, PuedeContraPago, MeToca
<1>1. X.partidas[i] \in TipoPartida /\ X \in TipoObra
  BY FormadaIndices DEF Formada
<1>2. /\ p.estado = X.partidas[i].estado /\ p.monto = X.partidas[i].monto
      /\ q.estado = EnTrato /\ q.monto = X.partidas[i].monto
  BY <1>1 DEF Anotar, TipoPartida
<1>3. /\ c.partidas = [X.partidas EXCEPT ![i] = q] /\ c.garantia = X.garantia
      /\ c.contra = X.contra /\ c.extra = X.extra
  BY <1>1 DEF AvisarTermino, TipoObra
<1>4. /\ d.partidas = [X.partidas EXCEPT ![i] = p] /\ d.garantia = X.garantia
      /\ d.contra = X.contra /\ d.extra = X.extra
  BY <1>1 DEF ContraPago, TipoObra
<1>5. ~Quieta(X)
  BY Rangos DEF Quieta
<1> HIDE DEF p, q, c, d
<1>6. Conserva(X, c)
  BY <1>2, <1>3, <1>5, ConservaBoton, Rangos
<1>7. X.partidas[i].estado = EnTrato => Conserva(X, d)
  BY <1>2, <1>4, <1>5, ConservaBoton, Rangos
<1> QED
  BY <1>6, <1>7

LEMMA ConservaConfirmar ==
  ASSUME NEW n \in Partes, NEW X, Formada(X), SinMontos(X), NEW i, PuedeConfirmar(X, i, n)
  PROVE  Conserva(X, ConFondeo(Confirmar(X, i, n), i))
<1> DEFINE c == ConFondeo(Confirmar(X, i, n), i)
<1>1. i \in Indices(X) /\ X.partidas[i].estado = Encerrando
  BY DEF PuedeConfirmar
<1>2. /\ Indices(c) = Indices(X) /\ c.partidas[i].estado = Encerrada
      /\ c.partidas[i].monto = X.partidas[i].monto
      /\ \A j \in Indices(X) : j # i => c.partidas[j] = X.partidas[j]
      /\ c.garantia = X.garantia /\ c.contra = X.contra /\ c.extra = X.extra
  BY ConfirmarBien
<1> HIDE DEF c
<1>3. Hilo(c.partidas[i]) = Hilo(X.partidas[i]) /\ ~Quieta(X)
  BY <1>1, <1>2, Rangos DEF Hilo, Quieta
<1>4. Conserva(X, c)
  BY <1>1, <1>2, <1>3, ConservaUna
<1> QED
  BY <1>4 DEF c

(* The receipt is for the percentage of the bond (aceptar_pago).           *)
LEMMA ConservaAceptar ==
  ASSUME NEW n \in Partes, NEW X, Formada(X), SinMontos(X), NEW i, PuedeAceptarPago(X, i, n)
  PROVE  Conserva(X, ConPago(AceptarPago(X, i, n), i))
<1> DEFINE c == ConPago(AceptarPago(X, i, n), i)
           p == X.partidas[i]
           q == c.partidas[i]
<1>1. i \in Indices(X) /\ p.estado = EnTrato /\ p.monto = 0
  BY DEF PuedeAceptarPago, MeToca, SinMontos
<1>2. /\ Indices(c) = Indices(X) /\ q.estado = Pagada /\ Aceptada(X, p, q, n)
      /\ \A j \in Indices(X) : j # i => c.partidas[j] = X.partidas[j]
      /\ c.garantia = X.garantia /\ c.contra = X.contra /\ c.extra = X.extra
  BY AceptarBien
<1> HIDE DEF c
<1>3. PorGarantia(Hilo(q), X.garantia)
  <2> HIDE DEF p, q
  <2>1. Hilo(q).recibo = q.recibo
    BY <1>2, Rangos DEF Hilo
  <2>2. q.recibo.monto = MontoPct(X.garantia, q.recibo.porcentaje)
    BY <1>1, <1>2 DEF Aceptada, Capital
  <2> QED
    BY <2>1, <2>2 DEF PorGarantia
<1>4. ~Quieta(X) /\ q.monto = p.monto
  BY <1>1, <1>2, Rangos DEF Quieta, Aceptada
<1>5. Conserva(X, c)
  BY <1>1, <1>2, <1>3, <1>4, ConservaUna
<1> QED
  BY <1>5 DEF c

-----------------------------------------------------------------------------
(* The invariant at the start and after each step.                         *)
LEMMA CobroInicio ==
  Init => CobroInv
<1> SUFFICES ASSUME NEW g \in Garantias, anunciadas = {DesdeOferta(g)}
             PROVE  CobroInv
  BY DEF Init
<1> DEFINE o == DesdeOferta(g)
           m == NPartidas(TrabajoOferta, g)
<1>1. /\ o.partidas = Pendientes(m, DetalleOferta) /\ o.extra = SinExtra
      /\ o.garantia = g /\ o.contra \in {0, g} /\ g \in Nat \ {0}
  BY ObraAssumption DEF DesdeOferta, Divide
<1>2. anunciadas = {o}
  OBVIOUS
<1> HIDE DEF o, m
<1>3. \A i \in Indices(o) : o.partidas[i].monto = 0 /\ o.partidas[i].estado = Pendiente
  BY <1>1 DEF Pendientes, Indices, NuevaPartida, PendienteMonto
<1>4. \A i \in Nat : PorGarantia(HiloDe(o, i), g)
  BY <1>3, SinRecibos
<1> QED
  BY <1>1, <1>2, <1>3, <1>4 DEF CobroInv, SinMontos, UnaGarantia, DeGarantia

(* A copy that keeps the bond is announced.                                *)
LEMMA CobroGuarda ==
  ASSUME CobroInv, NEW X \in anunciadas, NEW c, Conserva(X, c),
         anunciadas' = anunciadas \cup {c}
  PROVE  CobroInv'
BY CobroConserva DEF CobroInv, Conserva

LEMMA CobroCopias ==
  ASSUME HiloInv, CobroInv, NEW n \in Partes
  PROVE  /\ vista[n] \in anunciadas /\ Formada(vista[n]) /\ SinMontos(vista[n])
         /\ copia[n] \in anunciadas /\ Formada(copia[n]) /\ SinMontos(copia[n])
BY DEF HiloInv, Guarda, Buenas, CobroInv

(* The counter-offer is answered when nothing was done; a confirmed one is *)
(* the bond all were proposing.                                            *)
LEMMA CobroRespuesta ==
  ASSUME HiloInv, CobroInv, NEW n \in Partes,
         AccionConfirmarContra(n) \/ AccionRechazarContra(n)
  PROVE  CobroInv'
<1> DEFINE X == vista[n]
<1>1. n = Mandante /\ X.estado = Contra /\ PuedeConfirmarContra(X, Mandante) /\ X.contra # 0
  BY DEF AccionConfirmarContra, AccionRechazarContra, PuedeConfirmarContra, PuedeRechazarContra
<1>2. X \in anunciadas /\ Formada(X) /\ SinMontos(X) /\ Buena(X)
  BY CobroCopias DEF HiloInv, Buenas
<1>3. EnContra(anunciadas)
  BY <1>1, Rangos DEF HiloInv, Guarda
<1>4. PICK g \in Nat \ {0} : \A o \in anunciadas : DeGarantia(o, g)
  BY <1>3 DEF CobroInv, UnaGarantia
<1>5. X.contra = g /\ X \in TipoObra
  BY <1>1, <1>2, <1>4 DEF DeGarantia, Formada
<1>6. CASE AccionConfirmarContra(n)
  <2> DEFINE c == ConfirmarContra(X, Mandante)
             m == NPartidas(TrabajoOferta, X.contra)
  <2>1. anunciadas' = anunciadas \cup {c}
    BY <1>1, <1>6 DEF AccionConfirmarContra, Publicar, Guardar
  <2> HIDE DEF X
  <2>2. /\ c.partidas = Pendientes(m, DetalleOferta) /\ c.extra = X.extra
        /\ c.garantia = g /\ c.contra = 0
    BY <1>5 DEF ConfirmarContra, TipoObra
  <2> HIDE DEF c, m
  <2>3. \A i \in Indices(c) : c.partidas[i].monto = 0 /\ c.partidas[i].estado = Pendiente
    BY <2>2 DEF Pendientes, Indices, NuevaPartida, PendienteMonto
  <2>4. \A i \in Nat : PorGarantia(HiloDe(c, i), g)
    BY <2>3, SinRecibos
  <2>5. SinMontos(c) /\ DeGarantia(c, g)
    BY <1>2, <2>2, <2>3, <2>4 DEF SinMontos, DeGarantia
  <2> QED
    BY <1>4, <2>1, <2>5 DEF CobroInv, UnaGarantia
<1>7. CASE AccionRechazarContra(n)
  <2> DEFINE c == RechazarContra(X, Mandante)
  <2>1. anunciadas' = anunciadas \cup {c}
    BY <1>1, <1>7 DEF AccionRechazarContra, Publicar, Guardar
  <2> HIDE DEF X
  <2>2. c.estado = Rechazada /\ \A i \in Indices(c) : c.partidas[i].estado = Pendiente
    BY <1>1, <1>2, RespuestaBien
  <2>3. SinMontos(c)
    <3> DEFINE divide == X.trabajo > 0 /\ X.trabajo % GarantiaPublicada = 0
               m == NPartidas(X.trabajo, GarantiaPublicada)
               ps == [i \in 1 .. m |-> NuevaPartida(Ajustar(X.partidas, m)[i].detalle)]
    <3>1. c.partidas = (IF divide THEN ps ELSE X.partidas) /\ c.extra = X.extra
      BY <1>5 DEF RechazarContra, TipoObra
    <3>2. \A i \in DOMAIN ps : ps[i].monto = 0
      BY DEF NuevaPartida, PendienteMonto
    <3> HIDE DEF divide, ps, c
    <3> QED
      BY <1>2, <3>1, <3>2 DEF SinMontos, Indices
  <2> HIDE DEF c
  <2>4. Quieta(c) /\ ~EnContra(anunciadas \cup {c})
    BY <2>2, Rangos DEF Quieta, EnContra
  <2>5. \A o \in anunciadas : Quieta(o)
    BY <1>3 DEF EnContra, Quieta
  <2> QED
    BY <2>1, <2>3, <2>4, <2>5 DEF CobroInv, UnaGarantia
<1> QED
  BY <1>6, <1>7

LEMMA CobroDeTrato ==
  ASSUME MontosExtra = {}, HiloInv, CobroInv, NEW n \in Partes, AccionDeTrato(n)
  PROVE  CobroInv'
<1>1. vista[n] \in anunciadas /\ Formada(vista[n]) /\ SinMontos(vista[n])
  BY CobroCopias
<1>2. CASE AccionConfirmarContra(n) \/ AccionRechazarContra(n)
  BY <1>2, CobroRespuesta
<1>3. ~AccionAceptarExtra(n) /\ ~AccionRechazarExtra(n)
      /\ ~\E monto \in MontosExtra : AccionProponerExtra(n, monto)
  BY <1>1 DEF AccionAceptarExtra, AccionRechazarExtra, PuedeResponderExtra, SinMontos
<1>4. CASE AccionAbandonar(n) \/ AccionAceptarCierre(n) \/ AccionRechazarCierre(n)
  <2>1. PICK c \in {Abandonar(vista[n], n), AceptarCierre(vista[n], n), RechazarCierre(vista[n], n)} :
          anunciadas' = anunciadas \cup {c}
    BY <1>4 DEF AccionAbandonar, AccionAceptarCierre, AccionRechazarCierre, Publicar, Guardar
  <2>2. Conserva(vista[n], c)
    BY <1>1, ConservaCierres
  <2> QED
    BY <1>1, <2>1, <2>2, CobroGuarda
<1> QED
  BY <1>2, <1>3, <1>4 DEF AccionDeTrato

LEMMA CobroDePartida ==
  ASSUME HiloInv, CobroInv, NEW n \in Partes, NEW i, AccionDePartida(n, i)
  PROVE  CobroInv'
<1>1. vista[n] \in anunciadas /\ Formada(vista[n]) /\ SinMontos(vista[n])
  BY CobroCopias
<1>2. CASE \E precio \in Precios \cup {0} : AccionProponer(n, i, precio)
  <2>1. PICK precio \in Precios \cup {0} : AccionProponer(n, i, precio)
    BY <1>2
  <2>2. Conserva(vista[n], Proponer(vista[n], i, n, precio))
    BY <1>1, <2>1, ConservaProponer, PreciosAssumption DEF AccionProponer
  <2> QED
    BY <1>1, <2>1, <2>2, CobroGuarda DEF AccionProponer, Publicar, Guardar
<1>3. CASE AccionCancelar(n, i)
  BY <1>1, <1>3, ConservaCancelar, CobroGuarda DEF AccionCancelar, Publicar, Guardar
<1>4. CASE \E pct \in Pcts : AccionAvisar(n, i, pct)
  BY <1>1, <1>4, ConservaNota, CobroGuarda DEF AccionAvisar, Publicar, Guardar
<1>5. CASE \E pct \in Pcts : AccionContraPago(n, i, pct)
  BY <1>1, <1>5, ConservaNota, CobroGuarda DEF AccionContraPago, Publicar, Guardar
<1>6. CASE \E texto \in Textos : AccionEditar(n, i, texto)
  BY <1>1, <1>6, ConservaEditar, CobroGuarda DEF AccionEditar, Publicar, Guardar
<1>7. CASE PedirFondeo(n, i) \/ PedirGasto(n, i)
  BY <1>7 DEF CobroInv, PedirFondeo, PedirGasto
<1> QED
  BY <1>2, <1>3, <1>4, <1>5, <1>6, <1>7 DEF AccionDePartida

LEMMA CobroPaso ==
  ASSUME MontosExtra = {}, Inv, HiloInv, CobroInv, [Next]_vars
  PROVE  CobroInv'
<1>1. CASE \E n \in Partes : AccionDeTrato(n)
  BY <1>1, CobroDeTrato
<1>2. CASE \E n \in Partes : \E i \in Indices(vista[n]) : AccionDePartida(n, i)
  BY <1>2, CobroDePartida
<1>3. CASE \E n \in Partes : \E i \in Indices(copia[n]) : PasoDeCaja(n, i)
  <2>1. PICK n \in Partes : \E j \in Indices(copia[n]) : PasoDeCaja(n, j)
    BY <1>3
  <2>2. PICK i \in Indices(copia[n]) : PasoDeCaja(n, i)
    BY <2>1
  <2>3. copia[n] \in anunciadas /\ Formada(copia[n]) /\ SinMontos(copia[n])
    BY CobroCopias
  <2>4. CASE VerFondeo(n, i)
    BY <2>3, <2>4, ConservaConfirmar, CobroGuarda DEF VerFondeo, PublicarHecho, Guardar
  <2>5. CASE VerPago(n, i)
    BY <2>3, <2>5, ConservaAceptar, CobroGuarda DEF VerPago, PublicarHecho, Guardar
  <2>6. CASE AbrirFondeo(n, i) \/ AbrirGasto(n, i) \/ FallarGasto(n, i)
    BY <2>6 DEF CobroInv, AbrirFondeo, AbrirGasto, FallarGasto
  <2> QED
    BY <2>4, <2>5, <2>6, <2>2 DEF PasoDeCaja
<1>4. CASE \E i \in Indices(copia[Mandante]) : PasoDeCadena(i)
  BY <1>4 DEF CobroInv, PasoDeCadena, Fondear, Gastar, Enterarse, TomarTxid
<1>5. CASE \E n \in Partes : Limpiar(n) \/ Leer(n)
  BY <1>5 DEF CobroInv, Limpiar, Leer
<1>6. CASE \E n \in Nodos : Recibir(n)
  <2>1. PICK n \in Nodos, b \in anunciadas : Fusion(n, b)
    BY <1>6 DEF Recibir
  <2>2. copia[n] \in anunciadas
    BY DEF HiloInv
  <2> DEFINE c == FusionarObra(copia[n], b)
  <2>3. c = copia'[n]
    BY <2>1 DEF Fusion, Inv, TypeOK
  <2>4. anunciadas' = anunciadas \cup {c}
    BY <2>1, <2>3 DEF Fusion
  <2>5. SinMontos(c) /\ UnaGarantia(anunciadas \cup {c})
    BY <2>2, CobroFusion DEF HiloInv, CobroInv
  <2> HIDE DEF c
  <2> QED
    BY <2>4, <2>5 DEF CobroInv
<1>7. CASE UNCHANGED vars
  BY <1>7 DEF CobroInv, vars
<1> QED
  BY <1>1, <1>2, <1>3, <1>4, <1>5, <1>6, <1>7 DEF Next

(* In a deal without extras the receipt of a paid stage belongs to its     *)
(* last note: its percentage, that percentage of the bond, accepted by who *)
(* did not write the note (aceptar_pago, the merges), on phones.           *)
THEOREM ReciboDeLaNota ==
  ASSUME Escritorio = {}, MontosExtra = {}
  PROVE  Spec => []ReciboCoherente
<1>1. Init => CobroInv
  BY CobroInicio
<1>2. Inv /\ HiloInv /\ CobroInv /\ [Next]_vars => CobroInv'
  BY CobroPaso
<1>3. HiloInv /\ CobroInv => ReciboCoherente
  <2> SUFFICES ASSUME HiloInv, CobroInv, NEW o \in anunciadas, NEW i \in Indices(o),
                      o.partidas[i].estado = Pagada
               PROVE  LET p == o.partidas[i]
                          ultima == p.notas[Len(p.notas)] IN
                      /\ p.turno = Nadie /\ p.notas # << >> /\ p.pago = ultima.porcentaje
                      /\ p.recibo = [porcentaje |-> p.pago,
                                     monto |-> MontoPct(Capital(p, o.garantia), p.pago),
                                     acepto |-> Otro(ultima.autor)]
    BY DEF ReciboCoherente
  <2> DEFINE p == o.partidas[i]
             k == Len(p.notas)
  <2>1. Formada(o) /\ Buena(o) /\ SinMontos(o)
    BY DEF HiloInv, Buenas, CobroInv
  <2>2. p \in TipoPartida /\ PartidaBien(p) /\ p.monto = 0 /\ p.estado = Pagada /\ i \in Nat
    BY <2>1, FormadaIndices DEF Buena, SinMontos
  <2>3. HiloDe(o, i).estado = Pagada /\ HiloDe(o, i).recibo = p.recibo
    BY <2>2, Rangos DEF HiloDe, Hilo
  <2>4. PorGarantia(HiloDe(o, i), o.garantia)
    <3>1. ~Quieta(o)
      BY <2>2, Rangos DEF Quieta
    <3> QED
      BY <2>2, <3>1 DEF CobroInv, UnaGarantia, DeGarantia
  <2> HIDE DEF p
  <2>5. k \in Nat /\ k # 0 /\ p.notas \in Seq(Nota)
    BY <2>2, LenProperties, EmptySeq, Rangos DEF TipoPartida, PartidaBien
  <2> HIDE DEF k
  <2>6. /\ p.turno = Nadie /\ p.notas # << >> /\ p.pago = p.notas[k].porcentaje
        /\ p.recibo.porcentaje = p.pago /\ p.recibo.acepto = De(k + 1)
        /\ p.notas[k].autor = De(k)
    BY <2>2, <2>5, Rangos DEF PartidaBien, Ultima, k
  <2>7. De(k + 1) = Otro(p.notas[k].autor)
    BY <2>5, <2>6, DeBien
  <2>8. p.recibo.monto = MontoPct(Capital(p, o.garantia), p.pago)
    BY <2>2, <2>3, <2>4, <2>6 DEF PorGarantia, Capital
  <2>9. p.recibo \in Recibo
    BY <2>2 DEF TipoPartida
  <2>10. p.recibo = [porcentaje |-> p.pago,
                     monto |-> MontoPct(Capital(p, o.garantia), p.pago),
                     acepto |-> Otro(p.notas[k].autor)]
    <3> DEFINE m == MontoPct(Capital(p, o.garantia), p.pago)
               a == Otro(p.notas[k].autor)
    <3>1. p.recibo.porcentaje = p.pago /\ p.recibo.monto = m /\ p.recibo.acepto = a
      BY <2>6, <2>7, <2>8
    <3> HIDE DEF m, a
    <3>2. p.recibo = [porcentaje |-> p.pago, monto |-> m, acepto |-> a]
      BY <2>9, <3>1 DEF Recibo
    <3> QED
      BY <3>2 DEF m, a
  <2> QED
    BY <2>6, <2>10 DEF p, k
<1> QED
  BY <1>1, <1>2, <1>3, Invariante, UnSoloHilo, PTL DEF Spec

-----------------------------------------------------------------------------
(* The price of a locked stage, until a proposal is cancelled.             *)
(*                                                                         *)
(* The lock of a stage: how far it is, who proposed it, the price.         *)
Fase(p) == IF p.estado >= Encerrada THEN 2 ELSE p.estado
Traba(p) == [fase |-> Fase(p), por |-> p.encerrado_por, precio |-> p.precio]
SinTraba == [fase |-> 0, por |-> Nadie, precio |-> 0]
TrabaDe(o, i) == IF i \in Indices(o) THEN Traba(o.partidas[i]) ELSE SinTraba

TrabaBien(t) ==
  /\ t.fase \in 0 .. 2
  /\ t.fase = 0 => t = SinTraba
  /\ t.fase # 0 => t.por \in Partes /\ (t.precio # 0 <=> EsUsd)

(* A stage that was proposed once at most: its number tells how far it is. *)
Trabada(p) == TrabaBien(Traba(p)) /\ p.encerrar_seq = Fase(p)

(* A proposal has one price; a stage is locked by the one of the smaller   *)
(* id if that person proposed it at all.                                   *)
Concuerdan(t, u) ==
  /\ t.por = u.por => t.precio = u.precio
  /\ t.fase = 2 /\ u.por = IdMenor => t.por = IdMenor

(* What the merge keeps: the further one, else that of the smaller id.     *)
Gana(t, u) == IF u.fase > t.fase \/ (u.fase = t.fase /\ u.por = IdMenor) THEN u ELSE t

(* The fields of a lock after each pass of the merge.                      *)
IgualTraba(p, q) ==
  /\ q.estado = p.estado /\ q.encerrar_seq = p.encerrar_seq
  /\ q.encerrado_por = p.encerrado_por /\ q.precio = p.precio

LEMMA PasosTraba ==
  ASSUME NEW p \in TipoPartida, NEW o \in TipoPartida
  PROVE  /\ LET q == TomarEncierre(p, o) IN
            /\ q.estado = o.estado /\ q.encerrado_por = o.encerrado_por
            /\ q.encerrar_seq = o.encerrar_seq
            /\ q.precio = IF o.estado = Pendiente THEN 0
                          ELSE IF o.precio # 0 THEN o.precio ELSE p.precio
         /\ LET q == PasoAvance(p, o) IN
            /\ q.estado = o.estado /\ q.encerrar_seq = p.encerrar_seq
            /\ q.encerrado_por = Llenar(o.encerrado_por, p.encerrado_por, Nadie)
            /\ q.precio = Llenar(p.precio, o.precio, 0)
         /\ LET q == PasoIgual(p, o) IN
            /\ q.estado = p.estado /\ q.encerrar_seq = p.encerrar_seq
            /\ q.encerrado_por = Llenar(p.encerrado_por, o.encerrado_por, Nadie)
            /\ q.precio = IF p.estado = Pendiente THEN p.precio ELSE Llenar(p.precio, o.precio, 0)
         /\ IgualTraba(p, PasoResto(p, o))
         /\ IgualTraba(p, [p EXCEPT !.detalle = Llenar(@, o.detalle, "")])
<1>1. LET q == TomarEncierre(p, o) IN
      /\ q.estado = o.estado /\ q.encerrado_por = o.encerrado_por
      /\ q.encerrar_seq = o.encerrar_seq
      /\ q.precio = IF o.estado = Pendiente THEN 0
                    ELSE IF o.precio # 0 THEN o.precio ELSE p.precio
  BY DEF TomarEncierre, TipoPartida
<1>2. LET q == PasoAvance(p, o) IN
      /\ q.estado = o.estado /\ q.encerrar_seq = p.encerrar_seq
      /\ q.encerrado_por = Llenar(o.encerrado_por, p.encerrado_por, Nadie)
      /\ q.precio = Llenar(p.precio, o.precio, 0)
  BY DEF PasoAvance, TipoPartida
<1>3. LET q == PasoIgual(p, o) IN
      /\ q.estado = p.estado /\ q.encerrar_seq = p.encerrar_seq
      /\ q.encerrado_por = Llenar(p.encerrado_por, o.encerrado_por, Nadie)
      /\ q.precio = IF p.estado = Pendiente THEN p.precio ELSE Llenar(p.precio, o.precio, 0)
  BY DEF PasoIgual, TipoPartida
<1>4. IgualTraba(p, PasoResto(p, o))
  BY DEF PasoResto, TipoPartida, IgualTraba
<1>5. IgualTraba(p, [p EXCEPT !.detalle = Llenar(@, o.detalle, "")])
  BY DEF TipoPartida, IgualTraba
<1> QED
  BY <1>1, <1>2, <1>3, <1>4, <1>5

(* The crossed proposals of two copies (Partida::fusionar).                *)
LEMMA PasoSeqTraba ==
  ASSUME NEW p \in TipoPartida, NEW o \in TipoPartida, p.estado < EnTrato \/ ~(o.encerrar_seq > p.encerrar_seq)
  PROVE  LET q == PasoSeq(p, o) IN
         IF o.encerrar_seq > p.encerrar_seq THEN q = TomarEncierre(p, o)
         ELSE /\ q.estado = p.estado /\ q.encerrar_seq = p.encerrar_seq
              /\ IF Cruce(p, o)
                 THEN IF GanaOtra(p, o)
                      THEN q.encerrado_por = o.encerrado_por /\ q.precio = o.precio
                      ELSE /\ q.encerrado_por = p.encerrado_por
                           /\ q.precio \in {p.precio, IF p.precio = 0 THEN o.precio ELSE p.precio}
                 ELSE IgualTraba(p, q)
<1>1. CASE o.encerrar_seq > p.encerrar_seq
  BY <1>1 DEF PasoSeq
<1>2. CASE ~(o.encerrar_seq > p.encerrar_seq)
  BY <1>2 DEF PasoSeq, TipoPartida, IgualTraba
<1> QED
  BY <1>1, <1>2

(* Two locks at the same point, of a stage locked or of one person, are    *)
(* one.                                                                    *)
LEMMA MismaTraba ==
  ASSUME NEW t, NEW u, TrabaBien(t), TrabaBien(u), Concuerdan(t, u), Concuerdan(u, t), t.fase = u.fase,
         \/ t.fase # 1
         \/ t.por = u.por
  PROVE  t.por = u.por /\ t.precio = u.precio
<1>1. IdMenor \in Partes /\ Partes = {Mandante, Contratista}
  BY PartesAssumption DEF Partes
<1> QED
  BY <1>1 DEF TrabaBien, Concuerdan, SinTraba

LEMMA CamposTraba ==
  ASSUME NEW p \in TipoPartida
  PROVE  /\ Traba(p).fase = Fase(p) /\ Traba(p).por = p.encerrado_por /\ Traba(p).precio = p.precio
         /\ p.estado \in 0 .. 4 /\ p.precio \in Nat
         /\ Fase(p) \in 0 .. 2 /\ (Fase(p) = 2 <=> p.estado >= 2) /\ (Fase(p) < 2 => Fase(p) = p.estado)
<1>1. p.estado \in 0 .. 4 /\ p.precio \in Nat
  BY Rangos DEF TipoPartida
<1> QED
  BY <1>1, Rangos DEF Traba, Fase

(* Merging two stages keeps one of the two locks (Partida::fusionar).      *)
LEMMA FusionarTraba ==
  ASSUME NEW p \in TipoPartida, NEW o \in TipoPartida, Trabada(p), Trabada(o),
         Concuerdan(Traba(p), Traba(o)), Concuerdan(Traba(o), Traba(p))
  PROVE  LET r == Fusionar(p, o) IN
         Trabada(r) /\ Traba(r) = Gana(Traba(p), Traba(o))
<1> DEFINE d == [p EXCEPT !.detalle = Llenar(@, o.detalle, "")]
           q == PasoSeq(d, o)
           i == PasoIgual(q, o)
           r == Fusionar(p, o)
<1>1. d \in TipoPartida /\ IgualTraba(p, d)
  BY ConDetalle, PasosTraba
<1> HIDE DEF d
<1>2. q \in TipoPartida
  BY <1>1, PasoSeqTipo
<1>3. /\ p.estado \in 0 .. 4 /\ p.precio \in Nat
      /\ Fase(p) \in 0 .. 2 /\ (Fase(p) = 2 <=> p.estado >= 2) /\ (Fase(p) < 2 => Fase(p) = p.estado)
      /\ Traba(p).fase = Fase(p) /\ Traba(p).por = p.encerrado_por /\ Traba(p).precio = p.precio
      /\ o.estado \in 0 .. 4 /\ o.precio \in Nat
      /\ Fase(o) \in 0 .. 2 /\ (Fase(o) = 2 <=> o.estado >= 2) /\ (Fase(o) < 2 => Fase(o) = o.estado)
      /\ Traba(o).fase = Fase(o) /\ Traba(o).por = o.encerrado_por /\ Traba(o).precio = o.precio
  BY CamposTraba
<1>4. /\ p.encerrar_seq = Fase(p) /\ o.encerrar_seq = Fase(o)
      /\ Fase(p) = 0 => p.encerrado_por = Nadie /\ p.precio = 0
      /\ Fase(o) = 0 => o.encerrado_por = Nadie /\ o.precio = 0
      /\ Fase(p) # 0 => p.encerrado_por \in Partes /\ (p.precio # 0 <=> EsUsd)
      /\ Fase(o) # 0 => o.encerrado_por \in Partes /\ (o.precio # 0 <=> EsUsd)
  BY <1>3 DEF Trabada, TrabaBien, SinTraba
<1>5. d.estado < EnTrato \/ ~(o.encerrar_seq > d.encerrar_seq)
  BY <1>1, <1>3, <1>4, Rangos DEF IgualTraba
<1>6. IF Fase(o) > Fase(p) THEN q = TomarEncierre(d, o)
      ELSE /\ q.estado = p.estado /\ q.encerrar_seq = Fase(p)
           /\ IF Cruce(d, o)
              THEN IF GanaOtra(d, o)
                   THEN q.encerrado_por = o.encerrado_por /\ q.precio = o.precio
                   ELSE /\ q.encerrado_por = p.encerrado_por
                        /\ q.precio \in {p.precio, IF p.precio = 0 THEN o.precio ELSE p.precio}
              ELSE q.encerrado_por = p.encerrado_por /\ q.precio = p.precio
  BY <1>1, <1>4, <1>5, PasoSeqTraba DEF IgualTraba
<1>7. Cruce(d, o) <=> Fase(o) = Fase(p) /\ p.estado = 1 /\ o.estado = 1
  BY <1>1, <1>4, Rangos DEF Cruce, IgualTraba
<1>8. GanaOtra(d, o) <=> /\ o.encerrado_por # Nadie
                         /\ \/ p.encerrado_por = Nadie
                            \/ o.encerrado_por = IdMenor /\ p.encerrado_por # IdMenor
  BY <1>1 DEF GanaOtra, IgualTraba
<1>9. r = IF o.estado > q.estado THEN PasoAvance(q, o)
          ELSE IF o.estado = q.estado THEN PasoResto(i, o)
          ELSE PasoResto(q, o)
  BY DEF Fusionar, d, q
<1>10. i \in TipoPartida
  BY <1>2, PasoIgualTipo
<1>11. r \in TipoPartida
  BY FusionarTipo
<1> HIDE DEF r
<1>12. Fase(o) > Fase(p) => /\ q.estado = o.estado /\ q.encerrado_por = o.encerrado_por
                            /\ q.encerrar_seq = Fase(o)
                            /\ q.precio = IF o.precio # 0 THEN o.precio ELSE p.precio
  <2>1. /\ TomarEncierre(d, o).estado = o.estado /\ TomarEncierre(d, o).encerrado_por = o.encerrado_por
        /\ TomarEncierre(d, o).encerrar_seq = o.encerrar_seq
        /\ TomarEncierre(d, o).precio = IF o.estado = Pendiente THEN 0
                                        ELSE IF o.precio # 0 THEN o.precio ELSE d.precio
    BY <1>1, PasosTraba
  <2>2. Fase(o) > Fase(p) => o.estado # Pendiente
    BY <1>3, Rangos
  <2> QED
    BY <1>1, <1>4, <1>6, <2>1, <2>2 DEF IgualTraba
<1> HIDE DEF q
<1>13. /\ i.estado = q.estado /\ i.encerrar_seq = q.encerrar_seq
       /\ i.encerrado_por = Llenar(q.encerrado_por, o.encerrado_por, Nadie)
       /\ i.precio = IF q.estado = Pendiente THEN q.precio ELSE Llenar(q.precio, o.precio, 0)
  BY <1>2, PasosTraba
<1> HIDE DEF i
<1>14. /\ o.estado > q.estado =>
            /\ r.estado = o.estado /\ r.encerrar_seq = q.encerrar_seq
            /\ r.encerrado_por = Llenar(o.encerrado_por, q.encerrado_por, Nadie)
            /\ r.precio = Llenar(q.precio, o.precio, 0)
       /\ o.estado = q.estado => IgualTraba(i, r)
       /\ o.estado < q.estado => IgualTraba(q, r)
  <2>1. q.estado \in Nat /\ o.estado \in Nat
    BY <1>2, EstadoPartida
  <2>2. ASSUME o.estado > q.estado
        PROVE  /\ r.estado = o.estado /\ r.encerrar_seq = q.encerrar_seq
               /\ r.encerrado_por = Llenar(o.encerrado_por, q.encerrado_por, Nadie)
               /\ r.precio = Llenar(q.precio, o.precio, 0)
    <3>1. r = PasoAvance(q, o)
      BY <1>9, <2>2
    <3> QED
      BY <1>2, <3>1, PasosTraba
  <2>3. ASSUME o.estado = q.estado
        PROVE  IgualTraba(i, r)
    <3>1. r = PasoResto(i, o)
      BY <1>9, <2>1, <2>3
    <3> QED
      BY <1>10, <3>1, PasosTraba
  <2>4. ASSUME o.estado < q.estado
        PROVE  IgualTraba(q, r)
    <3>1. r = PasoResto(q, o)
      BY <1>9, <2>1, <2>4
    <3> QED
      BY <1>2, <3>1, PasosTraba
  <2> QED
    BY <2>2, <2>3, <2>4
<1>15. Nadie \notin Partes
  BY PartesAssumption
<1>16. ASSUME NEW x \in {p, o}, r.encerrar_seq = Fase(x), Fase(r) = Fase(x),
              r.encerrado_por = x.encerrado_por, r.precio = x.precio
       PROVE  Trabada(r) /\ Traba(r) = Traba(x)
  <2>1. Traba(r) = Traba(x)
    BY <1>16 DEF Traba
  <2> QED
    BY <1>16, <2>1 DEF Trabada
<1>17. CASE Fase(o) > Fase(p)
  <2>1. IgualTraba(i, r) /\ o.encerrado_por # Nadie
    BY <1>3, <1>4, <1>12, <1>14, <1>15, <1>17
  <2>2. q.precio = o.precio
    BY <1>3, <1>4, <1>12, <1>17
  <2>3. /\ i.encerrado_por = o.encerrado_por /\ i.precio = o.precio
        /\ i.encerrar_seq = Fase(o) /\ i.estado = o.estado
    BY <1>12, <1>13, <1>17, <2>1, <2>2 DEF Llenar
  <2>4. Trabada(r) /\ Traba(r) = Traba(o)
    BY <1>16, <2>1, <2>3 DEF IgualTraba, Fase
  <2> QED
    BY <1>3, <1>17, <2>4 DEF Gana, r
<1>18. CASE Fase(o) < Fase(p)
  <2>1. q.encerrado_por = p.encerrado_por /\ q.precio = p.precio /\ q.estado = p.estado
        /\ q.encerrar_seq = Fase(p)
    BY <1>3, <1>6, <1>7, <1>18
  <2>2. IgualTraba(q, r)
    BY <1>3, <1>14, <1>18, <2>1
  <2>3. Trabada(r) /\ Traba(r) = Traba(p)
    BY <1>16, <2>1, <2>2 DEF IgualTraba, Fase
  <2> QED
    BY <1>3, <1>18, <2>3 DEF Gana, r
<1>19. CASE Fase(o) = Fase(p) /\ Fase(p) # 1
  <2>1. q.encerrado_por = p.encerrado_por /\ q.precio = p.precio /\ q.estado = p.estado
        /\ q.encerrar_seq = Fase(p)
    BY <1>3, <1>6, <1>7, <1>19
  <2>2. o.encerrado_por = p.encerrado_por /\ o.precio = p.precio
    <3>1. TrabaBien(Traba(p)) /\ TrabaBien(Traba(o))
      BY DEF Trabada
    <3>2. Traba(p).por = Traba(o).por /\ Traba(p).precio = Traba(o).precio
      BY <1>3, <1>19, <3>1, MismaTraba
    <3> QED
      BY <1>3, <3>2
  <2>3. i.encerrado_por = p.encerrado_por /\ i.precio = p.precio
        /\ i.encerrar_seq = Fase(p) /\ i.estado = p.estado
    BY <1>13, <2>1, <2>2 DEF Llenar
  <2>4. /\ r.encerrado_por = p.encerrado_por /\ r.precio = p.precio
        /\ r.encerrar_seq = Fase(p) /\ r.estado \in {p.estado, o.estado}
    BY <1>3, <1>14, <2>1, <2>2, <2>3 DEF Llenar, IgualTraba
  <2>5. Fase(r) = Fase(p)
    <3>1. r.estado = p.estado => Fase(r) = Fase(p)
      BY DEF Fase
    <3>2. r.estado = o.estado => Fase(r) = Fase(o)
      BY DEF Fase
    <3> QED
      BY <1>19, <2>4, <3>1, <3>2
  <2>6. Trabada(r) /\ Traba(r) = Traba(p)
    BY <1>16, <2>4, <2>5
  <2>7. Traba(p) = Traba(o)
    BY <1>19, <2>2 DEF Traba
  <2> QED
    BY <2>6, <2>7 DEF Gana, r
<1>20. CASE Fase(o) = 1 /\ Fase(p) = 1
  <2>1. p.estado = 1 /\ o.estado = 1 /\ q.estado = 1 /\ q.encerrar_seq = 1
    BY <1>3, <1>6, <1>20
  <2>2. p.precio = 0 <=> o.precio = 0
    BY <1>4, <1>20
  <2>3. o.encerrado_por \in Partes /\ p.encerrado_por \in Partes
    BY <1>4, <1>20
  <2>4. IF o.encerrado_por = IdMenor /\ p.encerrado_por # IdMenor
        THEN q.encerrado_por = o.encerrado_por /\ q.precio = o.precio
        ELSE q.encerrado_por = p.encerrado_por /\ q.precio = p.precio
    BY <1>6, <1>7, <1>8, <1>15, <1>20, <2>1, <2>2, <2>3
  <2>5. /\ r.encerrado_por = q.encerrado_por /\ r.precio = q.precio
        /\ r.encerrar_seq = 1 /\ r.estado = 1
    BY <1>13, <1>14, <1>15, <2>1, <2>2, <2>3, <2>4, Rangos DEF Llenar, IgualTraba
  <2>6. Fase(r) = 1
    BY <2>5, Rangos DEF Fase
  <2>7. CASE o.encerrado_por = IdMenor /\ p.encerrado_por # IdMenor
    <3>1. Trabada(r) /\ Traba(r) = Traba(o)
      BY <1>16, <1>20, <2>4, <2>5, <2>6, <2>7
    <3> QED
      BY <1>3, <1>20, <2>7, <3>1 DEF Gana, r
  <2>8. CASE o.encerrado_por # IdMenor
    <3>1. Trabada(r) /\ Traba(r) = Traba(p)
      BY <1>16, <1>20, <2>4, <2>5, <2>6, <2>8
    <3> QED
      BY <1>3, <1>20, <2>8, <3>1 DEF Gana, r
  <2>9. CASE o.encerrado_por = IdMenor /\ p.encerrado_por = IdMenor
    <3>1. Trabada(r) /\ Traba(r) = Traba(p)
      BY <1>16, <1>20, <2>4, <2>5, <2>6, <2>9
    <3>2. o.precio = p.precio
      BY <1>3, <2>9 DEF Concuerdan
    <3>3. Traba(p) = Traba(o)
      BY <1>20, <2>9, <3>2 DEF Traba
    <3> QED
      BY <3>1, <3>3 DEF Gana, r
  <2> QED
    BY <2>7, <2>8, <2>9
<1> QED
  BY <1>3, <1>17, <1>18, <1>19, <1>20


-----------------------------------------------------------------------------
(* The locks of a copy, and of the merge of two.                           *)
ConTrabas(o) == \A i \in Indices(o) : Trabada(o.partidas[i])

Acordes(os) == \A a, b \in os : \A i \in Nat : Concuerdan(TrabaDe(a, i), TrabaDe(b, i))

LEMMA TrabasBien ==
  ASSUME NEW o, ConTrabas(o), NEW i
  PROVE  TrabaBien(TrabaDe(o, i))
<1>1. TrabaBien(SinTraba)
  BY DEF TrabaBien, SinTraba
<1> QED
  BY <1>1 DEF TrabaDe, ConTrabas, Trabada

(* A stage without a lock is in accord with every other.                   *)
LEMMA SinTrabaAcorde ==
  ASSUME NEW t, TrabaBien(t)
  PROVE  Concuerdan(t, SinTraba) /\ Concuerdan(SinTraba, t) /\ Concuerdan(t, t)
<1>1. Nadie \notin Partes /\ IdMenor \in Partes
  BY PartesAssumption
<1>2. SinTraba.fase = 0 /\ SinTraba.por = Nadie /\ SinTraba.precio = 0
  BY DEF SinTraba
<1>3. t.por = Nadie => t = SinTraba
  BY <1>1 DEF TrabaBien
<1> QED
  BY <1>1, <1>2, <1>3 DEF Concuerdan

(* A new stage, and one that is not proposed.                              *)
LEMMA NuevaTraba ==
  ASSUME NEW detalle, NEW monto
  PROVE  LET p == PendienteMonto(detalle, monto) IN Trabada(p) /\ Traba(p) = SinTraba
<1> DEFINE p == PendienteMonto(detalle, monto)
<1>1. p.estado = 0 /\ p.encerrado_por = Nadie /\ p.precio = 0 /\ p.encerrar_seq = 0
  BY Rangos DEF PendienteMonto
<1> HIDE DEF p
<1>2. Fase(p) = 0
  BY <1>1, Rangos DEF Fase
<1>3. Traba(p) = SinTraba
  BY <1>1, <1>2 DEF Traba, SinTraba
<1>4. Trabada(p)
  BY <1>1, <1>2, <1>3 DEF Trabada, TrabaBien, SinTraba
<1> QED
  BY <1>3, <1>4 DEF p

LEMMA PendienteTraba ==
  ASSUME NEW o, ConTrabas(o), NEW i \in Indices(o), o.partidas[i].estado = Pendiente
  PROVE  TrabaDe(o, i) = SinTraba
<1>1. Fase(o.partidas[i]) = 0
  BY Rangos DEF Fase
<1>2. Traba(o.partidas[i]) = SinTraba
  BY <1>1 DEF ConTrabas, Trabada, TrabaBien, Traba
<1> QED
  BY <1>2 DEF TrabaDe

(* The pass over the stages of two copies in accord.                       *)
LEMMA PasadaTraba ==
  ASSUME NEW a, Formada(a), ConTrabas(a), NEW b, Formada(b), ConTrabas(b), Acordes({a, b}),
         NEW i \in 1 .. b.n_partidas
  PROVE  LET r == FusionarPartidas(a.partidas, b.partidas, b.n_partidas)[i] IN
         Trabada(r) /\ Traba(r) = Gana(TrabaDe(a, i), TrabaDe(b, i))
<1> DEFINE r == FusionarPartidas(a.partidas, b.partidas, b.n_partidas)[i]
           u == IF i \in Indices(a) THEN a.partidas[i] ELSE NuevaPartida("")
           v == b.partidas[i]
<1>1. /\ Len(a.partidas) = a.n_partidas /\ a.n_partidas \in Nat
      /\ Indices(a) = 1 .. a.n_partidas
      /\ \A j \in Indices(a) : a.partidas[j] \in TipoPartida
      /\ Len(b.partidas) = b.n_partidas /\ b.n_partidas \in Nat
      /\ Indices(b) = 1 .. b.n_partidas
      /\ \A j \in Indices(b) : b.partidas[j] \in TipoPartida
  BY FormadaIndices DEF Formada
<1>2. i \in Nat /\ i \in Indices(b) /\ (i \in Indices(a) <=> i <= a.n_partidas)
  BY <1>1
<1>3. r = Fusionar(Ajustar(a.partidas, b.n_partidas)[i], Ajustar(b.partidas, b.n_partidas)[i])
  BY DEF FusionarPartidas
<1>4. Ajustar(a.partidas, b.n_partidas)[i] = u /\ Ajustar(b.partidas, b.n_partidas)[i] = v
  <2>1. Ajustar(a.partidas, b.n_partidas)[i] =
          IF i <= a.n_partidas THEN a.partidas[i] ELSE NuevaPartida("")
    BY <1>1 DEF Ajustar
  <2>2. Ajustar(b.partidas, b.n_partidas)[i] =
          IF i <= b.n_partidas THEN b.partidas[i] ELSE NuevaPartida("")
    BY <1>1 DEF Ajustar
  <2>3. i <= b.n_partidas
    BY <1>1
  <2> QED
    BY <1>2, <2>1, <2>2, <2>3
<1>5. NuevaPartida("") \in TipoPartida
  BY PendienteTipo DEF NuevaPartida, Titulos
<1>6. Trabada(NuevaPartida("")) /\ Traba(NuevaPartida("")) = SinTraba
  BY NuevaTraba DEF NuevaPartida
<1>7. /\ u \in TipoPartida /\ v \in TipoPartida /\ Trabada(u) /\ Trabada(v)
      /\ Traba(u) = TrabaDe(a, i) /\ Traba(v) = TrabaDe(b, i)
  BY <1>1, <1>2, <1>5, <1>6 DEF ConTrabas, TrabaDe
<1> HIDE DEF u, v, r
<1>8. Concuerdan(Traba(u), Traba(v)) /\ Concuerdan(Traba(v), Traba(u))
  BY <1>2, <1>7 DEF Acordes
<1>9. r = Fusionar(u, v)
  BY <1>3, <1>4
<1>10. Trabada(r) /\ Traba(r) = Gana(TrabaDe(a, i), TrabaDe(b, i))
  BY <1>7, <1>8, <1>9, FusionarTraba
<1> QED
  BY <1>10 DEF r

(* What the further lock keeps of the first one.                           *)
LEMMA GanaMas ==
  ASSUME NEW t, TrabaBien(t), NEW u, TrabaBien(u), Concuerdan(u, t)
  PROVE  LET g == Gana(t, u) IN
         /\ g \in {t, u}
         /\ t.fase # 0 => g.fase # 0
         /\ u.fase = 2 => g.fase = 2
         /\ t.por = IdMenor => g.por = IdMenor
<1>1. t.fase \in 0 .. 2 /\ u.fase \in 0 .. 2
  BY DEF TrabaBien
<1>2. Nadie \notin Partes /\ IdMenor \in Partes
  BY PartesAssumption
<1>3. t.por = IdMenor => t.fase # 0
  BY <1>2 DEF TrabaBien, SinTraba
<1> QED
  BY <1>1, <1>3 DEF Gana, Concuerdan

(* The merge of two deals in accord takes each lock from one of them, and  *)
(* goes no step back (Obra::fusionar).                                     *)
LEMMA FusionTraba ==
  ASSUME NEW a, Formada(a), Buena(a), NEW b, Formada(b), Buena(b), Encajan(a, b),
         ConTrabas(a), ConTrabas(b), Acordes({a, b})
  PROVE  LET c == FusionarObra(a, b) IN
         /\ ConTrabas(c)
         /\ \A i \in Nat : TrabaDe(c, i) \in {TrabaDe(a, i), TrabaDe(b, i), SinTraba}
         /\ \A i \in Indices(c) :
              /\ TrabaDe(a, i).fase # 0 => TrabaDe(c, i).fase # 0
              /\ TrabaDe(a, i).por = IdMenor => TrabaDe(c, i).por = IdMenor
         /\ \A i \in Indices(a) \ Indices(c) : Cortada(c) \/ TrabaDe(a, i) = SinTraba
         /\ Cortada(a) =>
              /\ Cortada(c)
              /\ \A i \in Indices(c) \ Indices(a) : TrabaDe(c, i).fase = 2
<1> DEFINE c == FusionarObra(a, b)
           ps == FusionarPartidas(a.partidas, b.partidas, b.n_partidas)
<1>1. /\ Formada(c)
      /\ \/ b.estado <= a.estado /\ c.n_partidas = a.n_partidas /\ c.partidas = a.partidas
         \/ /\ c.n_partidas = b.n_partidas
            /\ c.partidas = ps
            /\ \/ b.estado > a.estado
               \/ b.n_partidas = a.n_partidas
               \/ /\ b.n_partidas > a.n_partidas /\ b.estado >= a.estado
                  /\ a.estado \notin {Rechazada, Abandonada}
      /\ c.estado \in Nat /\ c.estado >= a.estado /\ c.estado >= b.estado
      /\ \/ c.estado \in {a.estado, b.estado}
         \/ c.estado = EnMarcha /\ HayRiesgo(c)
         \/ c.estado = Cerrada /\ TodasPagadas(c.partidas) /\ c.partidas # << >>
  BY FusionarObraEstado
<1>2. /\ Cortada(a) => Cortada(c)
      /\ Cortada(a) => \A i \in Indices(c) \ Indices(a) : HiloDe(c, i).estado = Pagada
  BY FusionHilo
<1> HIDE DEF c
<1>3. /\ Indices(a) = 1 .. a.n_partidas /\ Indices(b) = 1 .. b.n_partidas
      /\ Indices(c) = 1 .. c.n_partidas
      /\ a.n_partidas \in Nat /\ b.n_partidas \in Nat /\ c.n_partidas \in Nat
      /\ \A i \in Indices(c) : c.partidas[i] \in TipoPartida
  BY <1>1, FormadaIndices
<1>4. \A i \in 1 .. b.n_partidas :
        Trabada(ps[i]) /\ Traba(ps[i]) = Gana(TrabaDe(a, i), TrabaDe(b, i))
  BY PasadaTraba
<1> HIDE DEF ps
<1>5. \A i \in Nat : /\ TrabaBien(TrabaDe(a, i)) /\ TrabaBien(TrabaDe(b, i))
                     /\ Concuerdan(TrabaDe(b, i), TrabaDe(a, i))
  BY TrabasBien DEF Acordes
<1>6. /\ ConTrabas(c)
      /\ \A i \in Indices(c) : TrabaDe(c, i) \in {TrabaDe(a, i), Gana(TrabaDe(a, i), TrabaDe(b, i))}
  BY <1>1, <1>3, <1>4 DEF ConTrabas, TrabaDe, Indices
<1>7. \A i \in Indices(c) : /\ TrabaDe(c, i) \in {TrabaDe(a, i), TrabaDe(b, i)}
                            /\ TrabaDe(a, i).fase # 0 => TrabaDe(c, i).fase # 0
                            /\ TrabaDe(a, i).por = IdMenor => TrabaDe(c, i).por = IdMenor
  <2> SUFFICES ASSUME NEW i \in Indices(c)
               PROVE  /\ TrabaDe(c, i) \in {TrabaDe(a, i), TrabaDe(b, i)}
                      /\ TrabaDe(a, i).fase # 0 => TrabaDe(c, i).fase # 0
                      /\ TrabaDe(a, i).por = IdMenor => TrabaDe(c, i).por = IdMenor
    OBVIOUS
  <2>1. i \in Nat
    BY <1>3
  <2>2. LET g == Gana(TrabaDe(a, i), TrabaDe(b, i)) IN
        /\ g \in {TrabaDe(a, i), TrabaDe(b, i)}
        /\ TrabaDe(a, i).fase # 0 => g.fase # 0
        /\ TrabaDe(a, i).por = IdMenor => g.por = IdMenor
    BY <1>5, <2>1, GanaMas
  <2> QED
    BY <1>6, <2>2
<1>8. \A i \in Nat \ Indices(c) : TrabaDe(c, i) = SinTraba
  BY DEF TrabaDe
<1>9. \A i \in Indices(a) \ Indices(c) : Cortada(c) \/ TrabaDe(a, i) = SinTraba
  <2> SUFFICES ASSUME NEW i \in Indices(a) \ Indices(c), ~Cortada(c)
               PROVE  TrabaDe(a, i) = SinTraba
    OBVIOUS
  <2>1. a.estado \in 0 .. 6 /\ b.estado \in 0 .. 6 /\ c.estado \in 0 .. 6
    BY <1>1, Rangos DEF Formada, TipoObra
  <2>2. b.estado > a.estado
    BY <1>1, <1>3
  <2>3. a.estado < EnMarcha
    BY <1>1, <2>1, <2>2, Rangos DEF Cortada
  <2>4. a.partidas[i].estado = Pendiente
    BY <2>3 DEF Buena
  <2> QED
    BY <2>4, PendienteTraba
<1>10. ASSUME Cortada(a), NEW i \in Indices(c) \ Indices(a)
       PROVE  TrabaDe(c, i).fase = 2
  <2>1. HiloDe(c, i).estado = Pagada /\ c.partidas[i] \in TipoPartida
    BY <1>2, <1>3, <1>10
  <2>2. c.partidas[i].estado = Pagada
    BY <2>1, Rangos DEF HiloDe, Hilo, SinHilo, TipoPartida
  <2>3. Fase(c.partidas[i]) = 2
    BY <2>2, Rangos DEF Fase
  <2> QED
    BY <2>3 DEF TrabaDe, Traba
<1> QED
  BY <1>2, <1>6, <1>7, <1>8, <1>9, <1>10 DEF c


-----------------------------------------------------------------------------
(* The invariant of the locks, for two people on the phone.                *)

(* Someone of the two proposed the lock of stage i.                        *)
Propone(os, n, i) == \E o \in os : TrabaDe(o, i).por = n

(* The price pr was proposed for stage i, and no other will lock it: it is *)
(* that of the smaller id, who else proposed nothing.                      *)
Fijo(os, i, pr) ==
  \E o \in os : LET t == TrabaDe(o, i) IN
    /\ t.fase # 0 /\ t.precio = pr
    /\ t.por = IdMenor \/ ~Propone(os, IdMenor, i)

(* The stage is not in X, a deal that ended.                               *)
Falta(X, i) == i \notin Indices(X) /\ Cortada(X)

(* X, a copy of n, shows the lock n proposed; that of the smaller id also  *)
(* shows a lock of each stage in S.                                        *)
Conoce(n, X, os, S) ==
  \A i \in Nat :
    \/ Falta(X, i)
    \/ /\ Propone(os, n, i) => TrabaDe(X, i).fase # 0
       /\ n = IdMenor => /\ Propone(os, n, i) => TrabaDe(X, i).por = n
                         /\ i \in S => TrabaDe(X, i).fase # 0

(* A lock of V is in C as well, unless that deal ended without the stage.  *)
NoSuelta(V, C) == \A i \in Nat : TrabaDe(V, i).fase # 0 => TrabaDe(C, i).fase # 0 \/ Falta(C, i)

EncierreInv ==
  /\ \A o \in anunciadas : ConTrabas(o)
  /\ Acordes(anunciadas)
  /\ \A n \in Partes : /\ Conoce(n, copia[n], anunciadas, EnFondeo)
                       /\ Conoce(n, vista[n], anunciadas, EnFondeo)
  /\ NoSuelta(vista[IdMenor], copia[IdMenor])
  /\ \A i \in EnFondeo : \E o \in anunciadas : TrabaDe(o, i).fase # 0
  /\ \A f \in fondeos \cup encierres[IdMenor] : Fijo(anunciadas, f.partida, f.precio)

(* A copy c whose locks are all known.                                     *)
NadaNuevo(os, c) ==
  \A i \in Nat : TrabaDe(c, i) = SinTraba \/ \E o \in os : TrabaDe(c, i) = TrabaDe(o, i)

LEMMA Viejas ==
  ASSUME NEW os, \A o \in os : ConTrabas(o), Acordes(os),
         NEW c, ConTrabas(c), NadaNuevo(os, c)
  PROVE  /\ Acordes(os \cup {c})
         /\ \A n \in Partes, i \in Nat : Propone(os \cup {c}, n, i) <=> Propone(os, n, i)
         /\ \A i \in Nat : \A pr : Fijo(os, i, pr) => Fijo(os \cup {c}, i, pr)
<1>1. ASSUME NEW o \in os, NEW i \in Nat
      PROVE  Concuerdan(TrabaDe(c, i), TrabaDe(o, i)) /\ Concuerdan(TrabaDe(o, i), TrabaDe(c, i))
  <2>1. TrabaBien(TrabaDe(o, i))
    BY TrabasBien
  <2>2. CASE TrabaDe(c, i) = SinTraba
    BY <2>1, <2>2, SinTrabaAcorde
  <2>3. CASE \E p \in os : TrabaDe(c, i) = TrabaDe(p, i)
    BY <2>3 DEF Acordes
  <2> QED
    BY <2>2, <2>3 DEF NadaNuevo
<1>2. \A i \in Nat : Concuerdan(TrabaDe(c, i), TrabaDe(c, i))
  BY TrabasBien, SinTrabaAcorde
<1>3. Acordes(os \cup {c})
  BY <1>1, <1>2 DEF Acordes
<1>4. ASSUME NEW n \in Partes, NEW i \in Nat
      PROVE  Propone(os \cup {c}, n, i) <=> Propone(os, n, i)
  <2>1. SinTraba.por # n
    BY PartesAssumption DEF SinTraba
  <2> QED
    BY <2>1 DEF Propone, NadaNuevo
<1>5. IdMenor \in Partes
  BY PartesAssumption
<1>6. \A i \in Nat : \A pr : Fijo(os, i, pr) => Fijo(os \cup {c}, i, pr)
  BY <1>4, <1>5 DEF Fijo
<1> QED
  BY <1>3, <1>4, <1>6

(* What a person knew stays known when the copy tells nothing new.         *)
LEMMA ConoceVieja ==
  ASSUME NEW os, NEW c, \A n \in Partes, i \in Nat : Propone(os \cup {c}, n, i) <=> Propone(os, n, i),
         NEW n \in Partes, NEW X, NEW S, Conoce(n, X, os, S)
  PROVE  Conoce(n, X, os \cup {c}, S)
BY DEF Conoce

(* The same locks in a copy that kept the stages.                          *)
MismasTrabas(X, c) == \A i \in Nat : TrabaDe(c, i) = TrabaDe(X, i)

LEMMA ConoceMismas ==
  ASSUME NEW n, NEW X, NEW c, NEW os, NEW S, Conoce(n, X, os, S), MismasTrabas(X, c),
         Cortada(X) => Cortada(c) /\ Indices(c) = Indices(X)
  PROVE  Conoce(n, c, os, S)
BY DEF Conoce, Falta, MismasTrabas

LEMMA NoSueltaEsa ==
  ASSUME NEW c
  PROVE  NoSuelta(c, c)
BY DEF NoSuelta

LEMMA PartidasFondeo ==
  ASSUME TypeOK
  PROVE  /\ \A f \in fondeos : f.partida \in Nat /\ f.precio \in Nat
         /\ \A n \in Partes : \A f \in encierres[n] : f.partida \in Nat /\ f.precio \in Nat
         /\ \A f \in fondeos \cup encierres[IdMenor] : f.partida \in Nat /\ f.partida \in EnFondeo
         /\ EnFondeo \subseteq Nat
<1>1. \A f \in fondeos : f.partida \in Nat /\ f.precio \in Nat
  BY DEF TypeOK, Fondeo
<1>2. \A n \in Partes : encierres[n] \subseteq Encierre
  BY DEF TypeOK
<1>3. \A n \in Partes : \A f \in encierres[n] : f.partida \in Nat /\ f.precio \in Nat
  BY <1>2 DEF Encierre
<1>4. IdMenor \in Partes /\ Partes = {Mandante, Contratista}
  BY PartesAssumption DEF Partes
<1>5. EnFondeo \subseteq Nat
  BY <1>1, <1>3, <1>4 DEF EnFondeo
<1> QED
  BY <1>1, <1>3, <1>4, <1>5 DEF EnFondeo

(* A new copy of n that tells nothing new.                                 *)
LEMMA EncierreVieja ==
  ASSUME TypeOK, EncierreInv, NEW c, ConTrabas(c), NadaNuevo(anunciadas, c),
         anunciadas' = anunciadas \cup {c}, UNCHANGED <<fondeos, encierres>>,
         \A n \in Partes : /\ copia'[n] \in {copia[n], c} /\ vista'[n] \in {vista[n], c}
                           /\ copia'[n] = c => Conoce(n, c, anunciadas', EnFondeo)
                           /\ vista'[n] = c => Conoce(n, c, anunciadas', EnFondeo),
         NoSuelta(vista'[IdMenor], copia'[IdMenor])
  PROVE  EncierreInv'
<1>1. /\ Acordes(anunciadas')
      /\ \A n \in Partes, i \in Nat : Propone(anunciadas', n, i) <=> Propone(anunciadas, n, i)
      /\ \A i \in Nat : \A pr : Fijo(anunciadas, i, pr) => Fijo(anunciadas', i, pr)
  BY Viejas DEF EncierreInv
<1>2. \A n \in Partes : \A X : Conoce(n, X, anunciadas, EnFondeo) => Conoce(n, X, anunciadas', EnFondeo)
  BY <1>1, ConoceVieja
<1>3. EnFondeo' = EnFondeo
  BY DEF EnFondeo
<1>4. \A n \in Partes : /\ Conoce(n, copia'[n], anunciadas', EnFondeo)
                        /\ Conoce(n, vista'[n], anunciadas', EnFondeo)
  BY <1>2 DEF EncierreInv
<1>5. \A i \in EnFondeo : \E o \in anunciadas' : TrabaDe(o, i).fase # 0
  BY DEF EncierreInv
<1>6. \A f \in fondeos \cup encierres[IdMenor] : Fijo(anunciadas', f.partida, f.precio)
  <2>1. \A f \in fondeos \cup encierres[IdMenor] : f.partida \in Nat
    BY PartidasFondeo
  <2> QED
    BY <1>1, <2>1 DEF EncierreInv
<1>7. \A o \in anunciadas' : ConTrabas(o)
  BY DEF EncierreInv
<1> QED
  BY <1>1, <1>3, <1>4, <1>5, <1>6, <1>7 DEF EncierreInv


LEMMA CopiasTrabas ==
  ASSUME HiloInv, EncierreInv, NEW n \in Partes
  PROVE  /\ vista[n] \in anunciadas /\ Formada(vista[n]) /\ Buena(vista[n]) /\ ConTrabas(vista[n])
         /\ copia[n] \in anunciadas /\ Formada(copia[n]) /\ Buena(copia[n]) /\ ConTrabas(copia[n])
         /\ Conoce(n, vista[n], anunciadas, EnFondeo) /\ Conoce(n, copia[n], anunciadas, EnFondeo)
BY DEF HiloInv, Guarda, Buenas, EncierreInv

(* What n does on the phone replaces the copy and the screen at once.      *)
Publica(n, c) ==
  /\ copia' = [copia EXCEPT ![n] = c] /\ vista' = [vista EXCEPT ![n] = c]
  /\ anunciadas' = anunciadas \cup {c}
  /\ UNCHANGED <<fondeos, encierres>>

LEMMA PublicaCopias ==
  ASSUME TypeOK, NEW n \in Partes, NEW c, Publica(n, c)
  PROVE  /\ copia'[n] = c /\ vista'[n] = c
         /\ \A m \in Partes : m # n => copia'[m] = copia[m] /\ vista'[m] = vista[m]
<1>1. n \in Nodos /\ Partes \subseteq Nodos
  BY TratoAssumption
<1> QED
  BY <1>1 DEF TypeOK, Publica

LEMMA BotonPublica ==
  ASSUME NEW n \in Partes, NEW c
  PROVE  /\ Escritorio = {} /\ Publicar(n, c) => Publica(n, c)
         /\ PublicarHecho(n, c) => Publica(n, c)
BY DEF Publicar, PublicarHecho, Guardar, Publica, cadena, cajas, historia

(* It leaves the locks as they are.                                        *)
LEMMA EncierreMismas ==
  ASSUME TypeOK, HiloInv, EncierreInv, NEW n \in Partes, NEW X \in {copia[n], vista[n]}, NEW c,
         Deriva(n, X, c), ConTrabas(c), MismasTrabas(X, c), Publica(n, c)
  PROVE  EncierreInv'
<1>1. X \in anunciadas /\ Conoce(n, X, anunciadas, EnFondeo)
  BY CopiasTrabas
<1>2. NadaNuevo(anunciadas, c)
  BY <1>1 DEF NadaNuevo, MismasTrabas
<1>3. anunciadas' = anunciadas \cup {c} /\ UNCHANGED <<fondeos, encierres>>
  BY DEF Publica
<1>4. /\ copia'[n] = c /\ vista'[n] = c
      /\ \A m \in Partes : m # n => copia'[m] = copia[m] /\ vista'[m] = vista[m]
  BY PublicaCopias
<1>5. \A m \in Partes, i \in Nat : Propone(anunciadas \cup {c}, m, i) <=> Propone(anunciadas, m, i)
  BY <1>2, Viejas DEF EncierreInv
<1>6. Conoce(n, c, anunciadas', EnFondeo)
  <2>1. Conoce(n, c, anunciadas, EnFondeo)
    BY <1>1, ConoceMismas DEF Deriva
  <2> QED
    BY <1>3, <1>5, <2>1, ConoceVieja
<1>7. \A m \in Partes : copia[m] = c => Conoce(m, c, anunciadas', EnFondeo)
  BY <1>3, <1>5, ConoceVieja DEF EncierreInv
<1>8. \A m \in Partes : vista[m] = c => Conoce(m, c, anunciadas', EnFondeo)
  BY <1>3, <1>5, ConoceVieja DEF EncierreInv
<1>9. NoSuelta(vista'[IdMenor], copia'[IdMenor])
  <2>1. IdMenor \in Partes
    BY PartesAssumption
  <2> QED
    BY <1>4, <2>1, NoSueltaEsa DEF EncierreInv
<1>10. \A m \in Partes : /\ copia'[m] \in {copia[m], c} /\ vista'[m] \in {vista[m], c}
                         /\ copia'[m] = c => Conoce(m, c, anunciadas', EnFondeo)
                         /\ vista'[m] = c => Conoce(m, c, anunciadas', EnFondeo)
  BY <1>4, <1>6, <1>7, <1>8
<1> QED
  BY <1>2, <1>3, <1>9, <1>10, EncierreVieja

(* A copy of n differs from X in the lock of stage i.                      *)
OtraTraba(X, c, i) == \A j \in Nat : j # i => TrabaDe(c, j) = TrabaDe(X, j)

(* A lock is proposed: nobody else's is at stake (encerrar_proponer).      *)
LEMMA EncierrePropuesta ==
  ASSUME ajenos = {}, Inv, HiloInv, EncierreInv, NEW n \in Partes, NEW i \in Indices(vista[n]),
         NEW c, NEW pr,
         Deriva(n, vista[n], c), ConTrabas(c), OtraTraba(vista[n], c, i),
         TrabaDe(vista[n], i).fase = 0,
         TrabaDe(c, i) = [fase |-> 1, por |-> n, precio |-> pr], Publica(n, c)
  PROVE  EncierreInv'
<1> DEFINE X == vista[n]
           os == anunciadas \cup {c}
<1>1. X \in anunciadas /\ Formada(X) /\ Conoce(n, X, anunciadas, EnFondeo)
  BY CopiasTrabas
<1>2. i \in Nat /\ ~Falta(X, i)
  BY <1>1, FormadaIndices DEF Falta
<1>3. ~Propone(anunciadas, n, i) /\ (n = IdMenor => i \notin EnFondeo)
  BY <1>1, <1>2 DEF Conoce
<1>4. /\ anunciadas' = os /\ UNCHANGED <<fondeos, encierres>> /\ EnFondeo' = EnFondeo
      /\ \A o \in anunciadas : ConTrabas(o)
      /\ Acordes(anunciadas)
  BY DEF Publica, EncierreInv, EnFondeo
<1>5. /\ copia'[n] = c /\ vista'[n] = c
      /\ \A m \in Partes : m # n => copia'[m] = copia[m] /\ vista'[m] = vista[m]
  BY PublicaCopias DEF Inv
<1>6. /\ TrabaDe(c, i).fase = 1 /\ TrabaDe(c, i).por = n
      /\ \A j \in Nat : j # i => TrabaDe(c, j) = TrabaDe(X, j)
  BY DEF OtraTraba
<1>7. IdMenor \in Partes
  BY PartesAssumption
<1>8. ASSUME NEW o \in anunciadas, TrabaDe(o, i).fase = 2
      PROVE  i \in EnFondeo
  <2>1. i \in Indices(o) /\ Fase(o.partidas[i]) = 2
    BY <1>8 DEF TrabaDe, SinTraba, Traba
  <2>2. Formada(o) /\ Respaldada(o)
    BY DEF HiloInv, Buenas, Inv
  <2>3. o.partidas[i].estado >= Encerrada
    <3>1. o.partidas[i].estado \in Nat
      BY <2>1, <2>2, FormadaIndices, EstadoPartida
    <3> QED
      BY <2>1, <3>1, CamposTraba, FormadaIndices, <2>2, Rangos
  <2>4. \E f \in fondeos : f.partida = i
    BY <2>1, <2>2, <2>3 DEF Respaldada, Fondeada
  <2> QED
    BY <2>4 DEF EnFondeo
<1> HIDE DEF os
<1>9. Acordes(os)
  <2>1. ASSUME NEW o \in anunciadas, NEW j \in Nat
        PROVE  Concuerdan(TrabaDe(c, j), TrabaDe(o, j)) /\ Concuerdan(TrabaDe(o, j), TrabaDe(c, j))
    <3>1. CASE j # i
      BY <1>1, <1>4, <1>6, <3>1 DEF Acordes
    <3>2. CASE j = i
      <4>1. TrabaDe(o, i).por # n
        BY <1>3 DEF Propone
      <4>2. n = IdMenor => TrabaDe(o, i).fase # 2
        BY <1>3, <1>8
      <4> QED
        BY <1>6, <3>2, <4>1, <4>2 DEF Concuerdan
    <3> QED
      BY <3>1, <3>2
  <2>2. \A j \in Nat : Concuerdan(TrabaDe(c, j), TrabaDe(c, j))
    BY TrabasBien, SinTrabaAcorde
  <2> QED
    BY <1>4, <2>1, <2>2 DEF Acordes, os
<1>10. \A m \in Partes, j \in Nat : m # n \/ j # i => (Propone(os, m, j) <=> Propone(anunciadas, m, j))
  BY <1>1, <1>6 DEF Propone, os
<1>11. \A m \in Partes : \A Y : m # n /\ Conoce(m, Y, anunciadas, EnFondeo) => Conoce(m, Y, os, EnFondeo)
  BY <1>10 DEF Conoce
<1>12. Conoce(n, c, os, EnFondeo)
  <2> SUFFICES ASSUME NEW j \in Nat
               PROVE  \/ Falta(c, j)
                      \/ /\ Propone(os, n, j) => TrabaDe(c, j).fase # 0
                         /\ n = IdMenor => /\ Propone(os, n, j) => TrabaDe(c, j).por = n
                                           /\ j \in EnFondeo => TrabaDe(c, j).fase # 0
    BY DEF Conoce
  <2>1. CASE j = i
    BY <1>6, <2>1
  <2>2. CASE j # i
    <3>1. Falta(X, j) => Falta(c, j)
      BY DEF Falta, Deriva
    <3> QED
      BY <1>1, <1>6, <1>10, <2>2, <3>1 DEF Conoce
  <2> QED
    BY <2>1, <2>2
<1>13. \A m \in Partes : Conoce(m, copia'[m], os, EnFondeo) /\ Conoce(m, vista'[m], os, EnFondeo)
  BY <1>5, <1>11, <1>12 DEF EncierreInv
<1>14. NoSuelta(vista'[IdMenor], copia'[IdMenor])
  BY <1>5, <1>7, NoSueltaEsa DEF EncierreInv
<1>15. \A f \in fondeos \cup encierres[IdMenor] : Fijo(os, f.partida, f.precio)
  <2> SUFFICES ASSUME NEW f \in fondeos \cup encierres[IdMenor]
               PROVE  Fijo(os, f.partida, f.precio)
    OBVIOUS
  <2>1. f.partida \in Nat /\ f.partida \in EnFondeo
    BY PartidasFondeo DEF Inv
  <2>2. Fijo(anunciadas, f.partida, f.precio)
    BY DEF EncierreInv
  <2>3. Propone(os, IdMenor, f.partida) <=> Propone(anunciadas, IdMenor, f.partida)
    BY <1>3, <1>7, <1>10, <2>1
  <2> QED
    BY <2>2, <2>3 DEF Fijo, os
<1>16. \A j \in EnFondeo : \E o \in os : TrabaDe(o, j).fase # 0
  BY DEF EncierreInv, os
<1>17. \A o \in os : ConTrabas(o)
  BY <1>4 DEF os
<1> QED
  BY <1>4, <1>9, <1>13, <1>14, <1>15, <1>16, <1>17 DEF EncierreInv


(* A lock is confirmed: if it is not that of the smaller id, that person   *)
(* is the one who confirms, and proposed none (encerrar_confirmar).        *)
LEMMA EncierreConfirma ==
  ASSUME TypeOK, HiloInv, EncierreInv, NEW n \in Partes, NEW i \in Indices(copia[n]), NEW c,
         Deriva(n, copia[n], c), ConTrabas(c), OtraTraba(copia[n], c, i),
         TrabaDe(copia[n], i).fase = 1, TrabaDe(copia[n], i).por # n,
         TrabaDe(c, i) = [TrabaDe(copia[n], i) EXCEPT !.fase = 2], Publica(n, c)
  PROVE  EncierreInv'
<1> DEFINE X == copia[n]
           os == anunciadas \cup {c}
           t == TrabaDe(X, i)
<1>1. X \in anunciadas /\ Formada(X) /\ ConTrabas(X) /\ Conoce(n, X, anunciadas, EnFondeo)
  BY CopiasTrabas
<1>2. i \in Nat /\ ~Falta(X, i)
  BY <1>1, FormadaIndices DEF Falta
<1>3. IdMenor \in Partes /\ Partes = {Mandante, Contratista}
  BY PartesAssumption DEF Partes
<1>4. /\ anunciadas' = os /\ UNCHANGED <<fondeos, encierres>> /\ EnFondeo' = EnFondeo
      /\ \A o \in anunciadas : ConTrabas(o)
      /\ Acordes(anunciadas)
  BY DEF Publica, EncierreInv, EnFondeo
<1>5. /\ copia'[n] = c /\ vista'[n] = c
      /\ \A m \in Partes : m # n => copia'[m] = copia[m] /\ vista'[m] = vista[m]
  BY PublicaCopias
<1>6. /\ TrabaDe(c, i).fase = 2 /\ TrabaDe(c, i).por = t.por /\ TrabaDe(c, i).precio = t.precio
      /\ t.fase = 1 /\ t.por # n /\ t.por \in Partes
      /\ \A j \in Nat : j # i => TrabaDe(c, j) = TrabaDe(X, j)
  <2>1. TrabaDe(X, i) \in {[fase |-> Fase(p), por |-> p.encerrado_por, precio |-> p.precio] : p \in {X.partidas[i]}}
    BY DEF TrabaDe, Traba
  <2>2. TrabaBien(TrabaDe(X, i))
    BY <1>1, TrabasBien
  <2> QED
    BY <2>1, <2>2 DEF OtraTraba, TrabaBien
<1> HIDE DEF os
<1>7. \A o \in anunciadas : TrabaDe(o, i).por = IdMenor => t.por = IdMenor
  <2>1. CASE n = IdMenor
    <3>1. ~Propone(anunciadas, IdMenor, i)
      BY <1>1, <1>2, <1>6, <2>1 DEF Conoce
    <3> QED
      BY <3>1 DEF Propone
  <2>2. CASE n # IdMenor
    BY <1>3, <1>6, <2>2
  <2> QED
    BY <2>1, <2>2
<1>8. Acordes(os)
  <2>1. ASSUME NEW o \in anunciadas, NEW j \in Nat
        PROVE  Concuerdan(TrabaDe(c, j), TrabaDe(o, j)) /\ Concuerdan(TrabaDe(o, j), TrabaDe(c, j))
    <3>1. Concuerdan(TrabaDe(X, j), TrabaDe(o, j)) /\ Concuerdan(TrabaDe(o, j), TrabaDe(X, j))
      BY <1>1, <1>4 DEF Acordes
    <3>2. CASE j # i
      BY <1>6, <3>1, <3>2
    <3>3. CASE j = i
      BY <1>6, <1>7, <3>1, <3>3 DEF Concuerdan
    <3> QED
      BY <3>2, <3>3
  <2>2. \A j \in Nat : Concuerdan(TrabaDe(c, j), TrabaDe(c, j))
    BY TrabasBien, SinTrabaAcorde
  <2> QED
    BY <1>4, <2>1, <2>2 DEF Acordes, os
<1>9. \A m \in Partes, j \in Nat : Propone(os, m, j) <=> Propone(anunciadas, m, j)
  <2> SUFFICES ASSUME NEW m \in Partes, NEW j \in Nat
               PROVE  Propone(os, m, j) <=> Propone(anunciadas, m, j)
    OBVIOUS
  <2>1. TrabaDe(c, j).por = TrabaDe(X, j).por
    BY <1>6
  <2> QED
    BY <1>1, <2>1 DEF Propone, os
<1>10. \A m \in Partes : \A Y : Conoce(m, Y, anunciadas, EnFondeo) => Conoce(m, Y, os, EnFondeo)
  BY <1>9 DEF Conoce
<1>11. Conoce(n, c, os, EnFondeo)
  <2> SUFFICES ASSUME NEW j \in Nat
               PROVE  \/ Falta(c, j)
                      \/ /\ Propone(os, n, j) => TrabaDe(c, j).fase # 0
                         /\ n = IdMenor => /\ Propone(os, n, j) => TrabaDe(c, j).por = n
                                           /\ j \in EnFondeo => TrabaDe(c, j).fase # 0
    BY DEF Conoce
  <2>1. Falta(X, j) => Falta(c, j)
    BY DEF Falta, Deriva
  <2>2. TrabaDe(c, j).por = TrabaDe(X, j).por /\ (TrabaDe(X, j).fase # 0 => TrabaDe(c, j).fase # 0)
    <3>1. CASE j = i
      <4>1. TrabaDe(c, i).por = TrabaDe(X, i).por /\ TrabaDe(c, i).fase # 0
        BY <1>6
      <4> QED
        BY <3>1, <4>1
    <3>2. CASE j # i
      BY <1>6, <3>2
    <3> QED
      BY <3>1, <3>2
  <2> QED
    BY <1>1, <1>9, <2>1, <2>2 DEF Conoce
<1>12. \A m \in Partes : Conoce(m, copia'[m], os, EnFondeo) /\ Conoce(m, vista'[m], os, EnFondeo)
  BY <1>5, <1>10, <1>11 DEF EncierreInv
<1>13. NoSuelta(vista'[IdMenor], copia'[IdMenor])
  BY <1>3, <1>5, NoSueltaEsa DEF EncierreInv
<1>14. \A f \in fondeos \cup encierres[IdMenor] : Fijo(os, f.partida, f.precio)
  <2> SUFFICES ASSUME NEW f \in fondeos \cup encierres[IdMenor]
               PROVE  Fijo(os, f.partida, f.precio)
    OBVIOUS
  <2>1. f.partida \in Nat
    BY PartidasFondeo
  <2>2. Fijo(anunciadas, f.partida, f.precio)
    BY DEF EncierreInv
  <2>3. Propone(os, IdMenor, f.partida) <=> Propone(anunciadas, IdMenor, f.partida)
    BY <1>3, <1>9, <2>1
  <2> QED
    BY <2>2, <2>3 DEF Fijo, os
<1>15. \A j \in EnFondeo : \E o \in os : TrabaDe(o, j).fase # 0
  BY DEF EncierreInv, os
<1>16. \A o \in os : ConTrabas(o)
  BY <1>4 DEF os
<1> QED
  BY <1>4, <1>8, <1>12, <1>13, <1>14, <1>15, <1>16 DEF EncierreInv

(* A copy arrives and is merged.                                           *)
LEMMA EncierreFusion ==
  ASSUME TypeOK, HiloInv, EncierreInv, NEW n \in Nodos, NEW b \in anunciadas, NEW c,
         c = FusionarObra(copia[n], b),
         copia' = [copia EXCEPT ![n] = c], vista' = vista, anunciadas' = anunciadas \cup {c},
         UNCHANGED <<fondeos, encierres>>
  PROVE  EncierreInv'
<1> DEFINE a == copia[n]
<1>1. /\ a \in anunciadas /\ Formada(a) /\ Buena(a) /\ Formada(b) /\ Buena(b) /\ Encajan(a, b)
      /\ ConTrabas(a) /\ ConTrabas(b) /\ Acordes({a, b})
  BY DEF HiloInv, Buenas, Encajadas, EncierreInv, Acordes
<1>2. /\ ConTrabas(c)
      /\ \A i \in Nat : TrabaDe(c, i) \in {TrabaDe(a, i), TrabaDe(b, i), SinTraba}
      /\ \A i \in Indices(c) :
           /\ TrabaDe(a, i).fase # 0 => TrabaDe(c, i).fase # 0
           /\ TrabaDe(a, i).por = IdMenor => TrabaDe(c, i).por = IdMenor
      /\ \A i \in Indices(a) \ Indices(c) : Cortada(c) \/ TrabaDe(a, i) = SinTraba
      /\ Cortada(a) =>
           /\ Cortada(c)
           /\ \A i \in Indices(c) \ Indices(a) : TrabaDe(c, i).fase = 2
  <2>1. c = FusionarObra(a, b)
    OBVIOUS
  <2> HIDE DEF a
  <2> QED
    BY <1>1, <2>1, FusionTraba
<1> HIDE DEF a
<1>3. NadaNuevo(anunciadas, c)
  BY <1>1, <1>2 DEF NadaNuevo
<1>4. /\ Acordes(anunciadas')
      /\ \A m \in Partes, i \in Nat : Propone(anunciadas \cup {c}, m, i) <=> Propone(anunciadas, m, i)
  BY <1>2, <1>3, Viejas DEF EncierreInv
<1>5. /\ copia'[n] = c
      /\ \A m \in Nodos : m # n => copia'[m] = copia[m]
  BY DEF TypeOK
<1>6. \A i \in Nat \ Indices(a) : TrabaDe(a, i) = SinTraba
  BY DEF TrabaDe
<1>7. SinTraba.fase = 0
  BY DEF SinTraba
(* What the merge does to a stage, as the person that holds a sees it.     *)
<1>8. \A i \in Nat :
        \/ Falta(c, i)
        \/ i \in Indices(c) /\ Falta(a, i) /\ TrabaDe(c, i).fase = 2
        \/ ~Falta(a, i) /\ TrabaDe(a, i) = SinTraba
        \/ /\ ~Falta(a, i)
           /\ TrabaDe(a, i).fase # 0 => TrabaDe(c, i).fase # 0
           /\ TrabaDe(a, i).por = IdMenor => TrabaDe(c, i).por = IdMenor
  BY <1>2, <1>6 DEF Falta
<1>9. ASSUME n \in Partes, Conoce(n, a, anunciadas, EnFondeo)
      PROVE  Conoce(n, c, anunciadas, EnFondeo)
  <2> SUFFICES ASSUME NEW i \in Nat, ~Falta(c, i)
               PROVE  /\ Propone(anunciadas, n, i) => TrabaDe(c, i).fase # 0
                      /\ n = IdMenor => /\ Propone(anunciadas, n, i) => TrabaDe(c, i).por = n
                                        /\ i \in EnFondeo => TrabaDe(c, i).fase # 0
    BY DEF Conoce
  <2>1. CASE i \in Indices(c) /\ Falta(a, i) /\ TrabaDe(c, i).fase = 2
    <3>1. ASSUME n = IdMenor, Propone(anunciadas, n, i)
          PROVE  TrabaDe(c, i).por = n
      <4>1. PICK o \in anunciadas : TrabaDe(o, i).por = n
        BY <3>1 DEF Propone
      <4>2. Concuerdan(TrabaDe(c, i), TrabaDe(o, i))
        BY <1>4 DEF Acordes
      <4> QED
        BY <2>1, <3>1, <4>1, <4>2 DEF Concuerdan
    <3> QED
      BY <2>1, <3>1
  <2>2. CASE ~Falta(a, i) /\ TrabaDe(a, i) = SinTraba
    BY <1>7, <1>9, <2>2 DEF Conoce
  <2>3. CASE /\ ~Falta(a, i)
             /\ TrabaDe(a, i).fase # 0 => TrabaDe(c, i).fase # 0
             /\ TrabaDe(a, i).por = IdMenor => TrabaDe(c, i).por = IdMenor
    BY <1>9, <2>3 DEF Conoce
  <2> QED
    BY <1>8, <2>1, <2>2, <2>3
<1>10. ASSUME NEW V, NoSuelta(V, a)
       PROVE  NoSuelta(V, c)
  BY <1>7, <1>8, <1>10 DEF NoSuelta
<1>11. \A m \in Partes : /\ copia'[m] = c => Conoce(m, c, anunciadas', EnFondeo)
                         /\ vista'[m] = c => Conoce(m, c, anunciadas', EnFondeo)
                         /\ copia'[m] \in {copia[m], c} /\ vista'[m] \in {vista[m], c}
  <2> SUFFICES ASSUME NEW m \in Partes
               PROVE  /\ copia'[m] = c => Conoce(m, c, anunciadas', EnFondeo)
                      /\ vista'[m] = c => Conoce(m, c, anunciadas', EnFondeo)
                      /\ copia'[m] \in {copia[m], c} /\ vista'[m] \in {vista[m], c}
    OBVIOUS
  <2>1. m \in Nodos
    BY TratoAssumption
  <2>2. /\ copia[m] = c => Conoce(m, c, anunciadas, EnFondeo)
        /\ vista[m] = c => Conoce(m, c, anunciadas, EnFondeo)
    BY DEF EncierreInv
  <2>3. m = n => Conoce(m, c, anunciadas, EnFondeo)
    BY <1>9 DEF EncierreInv, a
  <2> QED
    BY <1>4, <1>5, <2>1, <2>2, <2>3, ConoceVieja
<1>12. NoSuelta(vista'[IdMenor], copia'[IdMenor])
  <2>1. IdMenor \in Nodos
    BY PartesAssumption, TratoAssumption
  <2>2. IdMenor = n => NoSuelta(vista[IdMenor], c)
    BY <1>10 DEF EncierreInv, a
  <2> QED
    BY <1>5, <2>1, <2>2 DEF EncierreInv
<1> QED
  BY <1>2, <1>3, <1>11, <1>12, EncierreVieja


(* The program of n reads its copy.                                        *)
LEMMA EncierreLeer ==
  ASSUME TypeOK, EncierreInv, NEW n \in Partes, Leer(n)
  PROVE  EncierreInv'
<1>1. /\ UNCHANGED <<copia, anunciadas, fondeos, encierres>>
      /\ vista' = [vista EXCEPT ![n] = copia[n]]
  BY DEF Leer, cadena, cajas, historia
<1>2. /\ vista'[n] = copia[n]
      /\ \A m \in Partes : m # n => vista'[m] = vista[m]
  BY <1>1 DEF TypeOK
<1>3. EnFondeo' = EnFondeo
  BY <1>1 DEF EnFondeo
<1>4. \A m \in Partes : Conoce(m, vista'[m], anunciadas, EnFondeo)
  BY <1>2 DEF EncierreInv
<1>5. NoSuelta(vista'[IdMenor], copia[IdMenor])
  BY <1>2, NoSueltaEsa, PartesAssumption DEF EncierreInv
<1> QED
  BY <1>1, <1>3, <1>4, <1>5 DEF EncierreInv

-----------------------------------------------------------------------------
(* The steps of the boxes and of the chain.                                *)

(* A stage gets into funding once the smaller id shows its lock.           *)
LEMMA EncierreCajas ==
  ASSUME EncierreInv, UNCHANGED <<copia, vista, anunciadas>>,
         \A i \in EnFondeo' :
           \/ i \in EnFondeo
           \/ /\ \E o \in anunciadas : TrabaDe(o, i).fase # 0
              /\ \A X \in {copia[IdMenor], vista[IdMenor]} : Falta(X, i) \/ TrabaDe(X, i).fase # 0,
         \A f \in fondeos' \cup encierres'[IdMenor] : Fijo(anunciadas, f.partida, f.precio)
  PROVE  EncierreInv'
<1>1. \A n \in Partes : \A X \in {copia[n], vista[n]} : Conoce(n, X, anunciadas, EnFondeo')
  <2> SUFFICES ASSUME NEW n \in Partes, NEW X \in {copia[n], vista[n]}, NEW i \in Nat, ~Falta(X, i)
               PROVE  /\ Propone(anunciadas, n, i) => TrabaDe(X, i).fase # 0
                      /\ n = IdMenor => /\ Propone(anunciadas, n, i) => TrabaDe(X, i).por = n
                                        /\ i \in EnFondeo' => TrabaDe(X, i).fase # 0
    BY DEF Conoce
  <2>1. Conoce(n, X, anunciadas, EnFondeo)
    BY DEF EncierreInv
  <2>2. /\ Propone(anunciadas, n, i) => TrabaDe(X, i).fase # 0
        /\ n = IdMenor => /\ Propone(anunciadas, n, i) => TrabaDe(X, i).por = n
                          /\ i \in EnFondeo => TrabaDe(X, i).fase # 0
    BY <2>1 DEF Conoce
  <2> QED
    BY <2>2
<1>2. \A i \in EnFondeo' : \E o \in anunciadas : TrabaDe(o, i).fase # 0
  BY DEF EncierreInv
<1> QED
  BY <1>1, <1>2 DEF EncierreInv

(* No funding but those the boxes were at, at their prices.                *)
LEMMA EncierreMenos ==
  ASSUME TypeOK, EncierreInv, UNCHANGED <<copia, vista, anunciadas>>,
         \A n \in Partes : \A f \in encierres'[n] : \E g \in encierres[n] :
           f.partida = g.partida /\ f.precio = g.precio,
         \A f \in fondeos' : \E g \in fondeos \cup encierres[IdMenor] :
           f.partida = g.partida /\ f.precio = g.precio
  PROVE  EncierreInv'
<1>1. IdMenor \in Partes /\ Partes = {Mandante, Contratista}
  BY PartesAssumption DEF Partes
<1>2. EnFondeo' \subseteq EnFondeo
  <2> SUFFICES ASSUME NEW f \in fondeos' \cup encierres'[Mandante] \cup encierres'[Contratista]
               PROVE  f.partida \in EnFondeo
    BY DEF EnFondeo
  <2>1. \E g \in fondeos \cup encierres[Mandante] \cup encierres[Contratista] : f.partida = g.partida
    BY <1>1
  <2> QED
    BY <2>1 DEF EnFondeo
<1>3. \A f \in fondeos' \cup encierres'[IdMenor] : Fijo(anunciadas, f.partida, f.precio)
  <2> SUFFICES ASSUME NEW f \in fondeos' \cup encierres'[IdMenor]
               PROVE  Fijo(anunciadas, f.partida, f.precio)
    OBVIOUS
  <2>1. PICK g \in fondeos \cup encierres[IdMenor] : f.partida = g.partida /\ f.precio = g.precio
    BY <1>1
  <2> QED
    BY <2>1 DEF EncierreInv
<1> QED
  BY <1>2, <1>3, EncierreCajas

LEMMA ConTxMismos ==
  ASSUME NEW fs \in SUBSET Encierre, NEW i, NEW f \in ConTx(fs, i)
  PROVE  \E g \in fs : f.partida = g.partida /\ f.precio = g.precio
<1>1. PICK g \in fs : f = [g EXCEPT !.txid = g.txid \/ g.partida = i]
  BY DEF ConTx
<1>2. g \in Encierre
  OBVIOUS
<1>3. f.partida = g.partida /\ f.precio = g.precio
  BY <1>1, <1>2 DEF Encierre
<1> QED
  BY <1>3

LEMMA EncierreTx ==
  ASSUME TypeOK, NEW n \in Partes, NEW i,
         encierres' = [encierres EXCEPT ![n] = ConTx(encierres[n], i)]
  PROVE  \A m \in Partes : \A f \in encierres'[m] : \E g \in encierres[m] :
           f.partida = g.partida /\ f.precio = g.precio
<1> SUFFICES ASSUME NEW m \in Partes, NEW f \in encierres'[m]
             PROVE  \E g \in encierres[m] : f.partida = g.partida /\ f.precio = g.precio
  OBVIOUS
<1>1. encierres[n] \in SUBSET Encierre
  BY DEF TypeOK
<1>2. (f \in ConTx(encierres[n], i) /\ m = n) \/ f \in encierres[m]
  BY DEF TypeOK
<1> QED
  BY <1>1, <1>2, ConTxMismos

LEMMA EncierreDeCadena ==
  ASSUME TypeOK, EncierreInv, NEW i, PasoDeCadena(i)
  PROVE  EncierreInv'
<1>1. IdMenor \in Partes /\ Partes = {Mandante, Contratista}
  BY PartesAssumption DEF Partes
<1>2. CASE Fondear(i)
  <2>1. PICK f \in encierres[Mandante], g \in encierres[Contratista] :
          /\ f.partida = i /\ g.partida = i /\ f.precio = g.precio
          /\ fondeos' = fondeos \cup {[partida |-> i, precio |-> f.precio]}
    BY <1>2 DEF Fondear
  <2>2. /\ encierres' = [encierres EXCEPT ![Mandante] = ConTx(encierres[Mandante], i)]
        /\ UNCHANGED <<copia, vista, anunciadas>>
    BY <1>2 DEF Fondear
  <2>3. \A h \in fondeos' : \E e \in fondeos \cup encierres[IdMenor] :
          h.partida = e.partida /\ h.precio = e.precio
    BY <1>1, <2>1
  <2> QED
    BY <1>1, <2>2, <2>3, EncierreTx, EncierreMenos
<1>3. CASE \E j \in Indices(copia[Contratista]) : Enterarse(i, j)
  <2>1. PICK j \in Indices(copia[Contratista]) : Enterarse(i, j)
    BY <1>3
  <2>2. /\ encierres' = [encierres EXCEPT ![Contratista] = ConTx(encierres[Contratista], j)]
        /\ UNCHANGED <<copia, vista, anunciadas>> /\ fondeos' = fondeos
    BY <2>1 DEF Enterarse, cadena, historia
  <2> QED
    BY <1>1, <2>2, EncierreTx, EncierreMenos
<1>4. CASE Gastar(i) \/ \E j \in Indices(copia[Contratista]) : TomarTxid(i, j)
  BY <1>4, EncierreMenos DEF Gastar, TomarTxid, cadena, historia
<1> QED
  BY <1>2, <1>3, <1>4 DEF PasoDeCadena

LEMMA EncierreLimpiar ==
  ASSUME TypeOK, EncierreInv, NEW n \in Partes, Limpiar(n)
  PROVE  EncierreInv'
<1>1. /\ UNCHANGED <<copia, vista, anunciadas>> /\ fondeos' = fondeos
      /\ encierres' = [encierres EXCEPT ![n] =
           {f \in encierres[n] : f.partida \in Indices(copia[n])
                          => copia[n].partidas[f.partida].estado = Encerrando}]
  BY DEF Limpiar, cadena, historia
<1>2. \A m \in Partes : encierres'[m] \subseteq encierres[m]
  BY <1>1 DEF TypeOK
<1> QED
  BY <1>1, <1>2, EncierreMenos

(* A box opens a funding, at the price of a lock that n shows.             *)
LEMMA EncierreAbre ==
  ASSUME TypeOK, HiloInv, EncierreInv, NEW n \in Partes, NEW X \in {copia[n], vista[n]},
         NEW i \in Indices(X), X.partidas[i].estado = Encerrando,
         UNCHANGED <<copia, vista, anunciadas, fondeos>>,
         encierres' = [encierres EXCEPT ![n] = encierres[n] \cup {NuevoEncierre(X, i)}],
         \/ i \in EnFondeo
         \/ X = vista[n] /\ X.partidas[i].encerrado_por # n
  PROVE  EncierreInv'
<1> DEFINE W == IdMenor
<1>1. W \in Partes /\ Partes = {Mandante, Contratista}
  BY PartesAssumption DEF Partes
<1>2. X \in anunciadas /\ Formada(X) /\ ConTrabas(X) /\ Conoce(n, X, anunciadas, EnFondeo)
  BY CopiasTrabas
<1>3. i \in Nat /\ X.partidas[i] \in TipoPartida /\ ~Falta(X, i)
  BY <1>2, FormadaIndices DEF Falta
<1>4. /\ TrabaDe(X, i).fase = 1 /\ TrabaDe(X, i).por = X.partidas[i].encerrado_por
      /\ TrabaDe(X, i).precio = X.partidas[i].precio
  BY Rangos DEF TrabaDe, Traba, Fase
<1>5. TrabaDe(X, i).por \in Partes
  BY <1>2, <1>4, TrabasBien DEF TrabaBien
<1>6. /\ NuevoEncierre(X, i).partida = i /\ NuevoEncierre(X, i).precio = TrabaDe(X, i).precio
  BY <1>4 DEF NuevoEncierre
<1>7. /\ encierres'[n] = encierres[n] \cup {NuevoEncierre(X, i)}
      /\ \A m \in Partes : m # n => encierres'[m] = encierres[m]
  BY DEF TypeOK
<1>8. EnFondeo' \subseteq EnFondeo \cup {i}
  <2> SUFFICES ASSUME NEW f \in fondeos' \cup encierres'[Mandante] \cup encierres'[Contratista]
               PROVE  f.partida \in EnFondeo \cup {i}
    BY DEF EnFondeo
  <2>1. f \in fondeos \cup encierres[Mandante] \cup encierres[Contratista] \/ f = NuevoEncierre(X, i)
    BY <1>1, <1>7
  <2> QED
    BY <1>6, <2>1 DEF EnFondeo
<1>9. ASSUME i \notin EnFondeo, NEW Y \in {copia[W], vista[W]}
      PROVE  Falta(Y, i) \/ TrabaDe(Y, i).fase # 0
  <2>1. X = vista[n] /\ TrabaDe(X, i).por # n
    BY <1>4, <1>9
  <2>2. CASE n = W
    BY <1>3, <1>4, <2>1, <2>2 DEF EncierreInv, NoSuelta
  <2>3. CASE n # W
    <3>1. TrabaDe(X, i).por = W
      BY <1>1, <1>5, <2>1, <2>3
    <3>2. Propone(anunciadas, W, i)
      BY <1>2, <3>1 DEF Propone
    <3>3. Conoce(W, Y, anunciadas, EnFondeo)
      BY <1>1 DEF EncierreInv
    <3> QED
      BY <1>3, <3>2, <3>3 DEF Conoce
  <2> QED
    BY <2>2, <2>3
<1>10. \A f \in fondeos' \cup encierres'[W] : Fijo(anunciadas, f.partida, f.precio)
  <2> SUFFICES ASSUME NEW f \in fondeos' \cup encierres'[W]
               PROVE  Fijo(anunciadas, f.partida, f.precio)
    OBVIOUS
  <2>1. CASE f \in fondeos \cup encierres[W]
    BY <2>1 DEF EncierreInv
  <2>2. CASE n = W /\ f = NuevoEncierre(X, i)
    <3>1. TrabaDe(X, i).por = W \/ ~Propone(anunciadas, W, i)
      BY <1>2, <1>3, <2>2 DEF Conoce
    <3>2. Fijo(anunciadas, i, TrabaDe(X, i).precio)
      BY <1>2, <1>4, <3>1 DEF Fijo
    <3> QED
      BY <1>6, <2>2, <3>2
  <2> QED
    BY <1>1, <1>7, <2>1, <2>2
<1>11. \E o \in anunciadas : TrabaDe(o, i).fase # 0
  BY <1>2, <1>4
<1>12. \A j \in EnFondeo' :
         \/ j \in EnFondeo
         \/ /\ \E o \in anunciadas : TrabaDe(o, j).fase # 0
            /\ \A Y \in {copia[W], vista[W]} : Falta(Y, j) \/ TrabaDe(Y, j).fase # 0
  BY <1>8, <1>9, <1>11
<1> QED
  BY <1>10, <1>12, EncierreCajas

LEMMA EncierrePedir ==
  ASSUME TypeOK, HiloInv, EncierreInv, NEW n \in Partes, NEW i, PedirFondeo(n, i)
  PROVE  EncierreInv'
<1>1. /\ i \in Indices(vista[n]) /\ vista[n].partidas[i].estado = Encerrando
      /\ vista[n].partidas[i].encerrado_por # n
      /\ encierres' = [encierres EXCEPT ![n] = encierres[n] \cup {NuevoEncierre(vista[n], i)}]
      /\ UNCHANGED <<copia, vista, anunciadas, fondeos>>
  BY DEF PedirFondeo, PuedeConfirmar, cadena, historia
<1> QED
  BY <1>1, EncierreAbre

LEMMA EncierreAbrir ==
  ASSUME TypeOK, HiloInv, EncierreInv, NEW n \in Partes, NEW i, AbrirFondeo(n, i)
  PROVE  EncierreInv'
<1>1. /\ i \in Indices(copia[n]) /\ copia[n].partidas[i].estado = Encerrando
      /\ encierres' = [encierres EXCEPT ![n] = encierres[n] \cup {NuevoEncierre(copia[n], i)}]
      /\ UNCHANGED <<copia, vista, anunciadas, fondeos>>
  BY DEF AbrirFondeo, Encerrandose, cadena, historia
<1>2. i \in EnFondeo
  <2>1. Otro(n) \in {Mandante, Contratista}
    BY DEF Otro
  <2> QED
    BY <2>1 DEF AbrirFondeo, Fondeando, EnFondeo
<1> QED
  BY <1>1, <1>2, EncierreAbre


-----------------------------------------------------------------------------
(* The locks after a button, and after a fact of the chain.                *)
LEMMA IgualTrabada ==
  ASSUME NEW p, Trabada(p), NEW q, Fase(q) = Fase(p), MismoPrecio(p, q),
         q.encerrar_seq = p.encerrar_seq
  PROVE  Trabada(q) /\ Traba(q) = Traba(p)
BY DEF Trabada, Traba, MismoPrecio

LEMMA TrabaUna ==
  ASSUME NEW X, ConTrabas(X), NEW i \in Indices(X), NEW c, Indices(c) = Indices(X),
         \A j \in Indices(X) : j # i => c.partidas[j] = X.partidas[j], Trabada(c.partidas[i])
  PROVE  /\ ConTrabas(c) /\ OtraTraba(X, c, i) /\ TrabaDe(c, i) = Traba(c.partidas[i])
         /\ Traba(c.partidas[i]) = Traba(X.partidas[i]) => MismasTrabas(X, c)
BY DEF ConTrabas, OtraTraba, TrabaDe, MismasTrabas

LEMMA TrabaBoton ==
  ASSUME NEW X, Formada(X), ConTrabas(X), NEW i \in Indices(X), NEW p, Trabada(p), NEW c,
         c.partidas = [X.partidas EXCEPT ![i] = p]
  PROVE  /\ ConTrabas(c) /\ OtraTraba(X, c, i) /\ TrabaDe(c, i) = Traba(p)
         /\ Traba(p) = Traba(X.partidas[i]) => MismasTrabas(X, c)
<1>1. X.partidas \in [1 .. X.n_partidas -> TipoPartida] /\ Indices(X) = 1 .. X.n_partidas
  BY FormadaIndices
<1>2. /\ c.partidas[i] = p /\ Indices(c) = Indices(X)
      /\ \A j \in Indices(X) : j # i => c.partidas[j] = X.partidas[j]
  BY <1>1 DEF Indices
<1> QED
  BY <1>2, TrabaUna

LEMMA TrabaMismas ==
  ASSUME NEW X, ConTrabas(X), NEW c, c.partidas = X.partidas
  PROVE  ConTrabas(c) /\ MismasTrabas(X, c)
BY DEF ConTrabas, MismasTrabas, TrabaDe, Indices

LEMMA TrabaDeTrato ==
  ASSUME NEW n, NEW X, Formada(X), ConTrabas(X)
  PROVE  /\ \A monto \in Nat : LET c == ProponerExtra(X, n, DetalleOferta, monto) IN
                               ConTrabas(c) /\ MismasTrabas(X, c)
         /\ \A c \in {RechazarExtra(X, n), Abandonar(X, n), AceptarCierre(X, n), RechazarCierre(X, n)} :
              ConTrabas(c) /\ MismasTrabas(X, c)
<1>1. X \in TipoObra
  BY DEF Formada
<1>2. /\ \A monto \in Nat : ProponerExtra(X, n, DetalleOferta, monto).partidas = X.partidas
      /\ RechazarExtra(X, n).partidas = X.partidas /\ Abandonar(X, n).partidas = X.partidas
      /\ AceptarCierre(X, n).partidas = X.partidas /\ RechazarCierre(X, n).partidas = X.partidas
  BY <1>1 DEF ProponerExtra, RechazarExtra, Abandonar, AceptarCierre, RechazarCierre, TipoObra
<1> QED
  BY <1>2, TrabaMismas

LEMMA TrabaExtra ==
  ASSUME NEW n, NEW X, Formada(X), ConTrabas(X)
  PROVE  ConTrabas(AceptarExtra(X, n)) /\ MismasTrabas(X, AceptarExtra(X, n))
<1> DEFINE c == AceptarExtra(X, n)
           p == PendienteMonto(X.extra.detalle, X.extra.monto)
<1>1. /\ X \in TipoObra /\ Len(X.partidas) = X.n_partidas /\ X.partidas \in Seq(TipoPartida)
      /\ X.n_partidas \in Nat /\ Indices(X) = 1 .. X.n_partidas
  BY FormadaIndices DEF Formada, TipoObra
<1>2. c.partidas = Append(X.partidas, p)
  BY <1>1 DEF AceptarExtra, TipoObra
<1>3. X.extra.detalle \in Titulos /\ X.extra.monto \in Nat
  BY <1>1 DEF TipoObra, TipoExtra
<1>4. p \in TipoPartida /\ Trabada(p) /\ Traba(p) = SinTraba
  BY <1>3, NuevaTraba, PendienteTipo
<1> HIDE DEF c, p
<1>5. /\ Indices(c) = 1 .. X.n_partidas + 1
      /\ \A i \in Indices(X) : c.partidas[i] = X.partidas[i]
      /\ c.partidas[X.n_partidas + 1] = p
  BY <1>1, <1>2, <1>4 DEF Indices
<1>6. \A i \in Indices(c) : i \in Indices(X) \/ c.partidas[i] = p
  BY <1>1, <1>5
<1>7. ConTrabas(c)
  BY <1>4, <1>5, <1>6 DEF ConTrabas
<1>8. Indices(X) \subseteq Indices(c)
  BY <1>1, <1>5
<1>9. MismasTrabas(X, c)
  BY <1>4, <1>5, <1>6, <1>8 DEF MismasTrabas, TrabaDe
<1> QED
  BY <1>7, <1>9 DEF c

LEMMA TrabaProponer ==
  ASSUME NEW n \in Partes, NEW X, Formada(X), ConTrabas(X), NEW i, NEW precio \in Nat,
         PuedeProponer(X, i, n, precio)
  PROVE  LET c == Proponer(X, i, n, precio) IN
         /\ ConTrabas(c) /\ OtraTraba(X, c, i)
         /\ TrabaDe(X, i).fase = 0
         /\ TrabaDe(c, i) = [fase |-> 1, por |-> n, precio |-> precio]
<1> DEFINE p == Propuesta(X.partidas[i], n, precio)
           c == Proponer(X, i, n, precio)
<1>1. /\ i \in Indices(X) /\ X.partidas[i] \in TipoPartida /\ X \in TipoObra
      /\ X.partidas[i].estado = Pendiente /\ (EsUsd <=> precio # 0)
  BY FormadaIndices DEF PuedeProponer, Formada
<1>2. /\ p.estado = Encerrando /\ p.encerrado_por = n /\ p.precio = precio
      /\ p.encerrar_seq = X.partidas[i].encerrar_seq + 1
  BY <1>1 DEF Propuesta, TipoPartida
<1>3. c.partidas = [X.partidas EXCEPT ![i] = p]
  BY <1>1 DEF Proponer, TipoObra
<1> HIDE DEF p, c
<1>4. X.partidas[i].encerrar_seq = 0 /\ TrabaDe(X, i).fase = 0
  <2>1. Fase(X.partidas[i]) = 0 /\ Trabada(X.partidas[i])
    BY <1>1, Rangos DEF ConTrabas, Fase
  <2>2. TrabaDe(X, i) = Traba(X.partidas[i])
    BY <1>1 DEF TrabaDe
  <2> QED
    BY <2>1, <2>2 DEF Trabada, Traba
<1>5. Fase(p) = 1 /\ p.encerrar_seq = 1
  BY <1>2, <1>4, Rangos DEF Fase
<1>6. Traba(p) = [fase |-> 1, por |-> n, precio |-> precio]
  BY <1>2, <1>5 DEF Traba
<1>7. Trabada(p)
  BY <1>1, <1>5, <1>6 DEF Trabada, TrabaBien
<1>8. ConTrabas(c) /\ OtraTraba(X, c, i) /\ TrabaDe(c, i) = Traba(p)
  BY <1>1, <1>3, <1>7, TrabaBoton
<1> QED
  BY <1>4, <1>6, <1>8 DEF c

LEMMA TrabaEditar ==
  ASSUME NEW n, NEW X, Formada(X), ConTrabas(X), NEW i, NEW texto, PuedeEditar(X, i, n)
  PROVE  ConTrabas(EditarDetalle(X, i, n, texto)) /\ MismasTrabas(X, EditarDetalle(X, i, n, texto))
<1> DEFINE p == [X.partidas[i] EXCEPT !.detalle = texto]
           c == EditarDetalle(X, i, n, texto)
<1>1. i \in Indices(X) /\ X.partidas[i] \in TipoPartida /\ X \in TipoObra
  BY FormadaIndices DEF PuedeEditar, Formada
<1>2. /\ p.estado = X.partidas[i].estado /\ p.encerrar_seq = X.partidas[i].encerrar_seq
      /\ MismoPrecio(X.partidas[i], p)
  BY <1>1 DEF TipoPartida, MismoPrecio
<1>3. c.partidas = [X.partidas EXCEPT ![i] = p]
  BY <1>1 DEF EditarDetalle, TipoObra
<1> HIDE DEF p, c
<1>4. Trabada(p) /\ Traba(p) = Traba(X.partidas[i])
  BY <1>1, <1>2, IgualTrabada DEF ConTrabas, Fase
<1>5. ConTrabas(c) /\ MismasTrabas(X, c)
  BY <1>1, <1>3, <1>4, TrabaBoton
<1> QED
  BY <1>5 DEF c

LEMMA TrabaNota ==
  ASSUME NEW n, NEW X, Formada(X), ConTrabas(X), NEW i, NEW pct
  PROVE  /\ PuedeAvisar(X, i, n, pct) =>
              LET c == AvisarTermino(X, i, n, pct) IN ConTrabas(c) /\ MismasTrabas(X, c)
         /\ PuedeContraPago(X, i, n, pct) =>
              LET c == ContraPago(X, i, n, pct) IN ConTrabas(c) /\ MismasTrabas(X, c)
<1> DEFINE p == Anotar(X.partidas[i], n, pct)
           q == [p EXCEPT !.estado = EnTrato]
           c == AvisarTermino(X, i, n, pct)
           d == ContraPago(X, i, n, pct)
<1> SUFFICES ASSUME i \in Indices(X), X.partidas[i].estado \in {Encerrada, EnTrato}
             PROVE  /\ ConTrabas(c) /\ MismasTrabas(X, c)
                    /\ ConTrabas(d) /\ MismasTrabas(X, d)
  BY DEF PuedeAvisar, PuedeContraPago, MeToca
<1>1. X.partidas[i] \in TipoPartida /\ X \in TipoObra /\ Trabada(X.partidas[i])
  BY FormadaIndices DEF Formada, ConTrabas
<1>2. /\ p.estado = X.partidas[i].estado /\ MismoPrecio(X.partidas[i], p)
      /\ q.estado = EnTrato /\ MismoPrecio(X.partidas[i], q)
      /\ p.encerrar_seq = X.partidas[i].encerrar_seq /\ q.encerrar_seq = X.partidas[i].encerrar_seq
  BY <1>1 DEF Anotar, TipoPartida, MismoPrecio
<1>3. c.partidas = [X.partidas EXCEPT ![i] = q] /\ d.partidas = [X.partidas EXCEPT ![i] = p]
  BY <1>1 DEF AvisarTermino, ContraPago, TipoObra
<1> HIDE DEF p, q, c, d
<1>4. Fase(p) = Fase(X.partidas[i]) /\ Fase(q) = Fase(X.partidas[i])
  BY <1>2, Rangos DEF Fase
<1>5. /\ Trabada(p) /\ Traba(p) = Traba(X.partidas[i])
      /\ Trabada(q) /\ Traba(q) = Traba(X.partidas[i])
  BY <1>1, <1>2, <1>4, IgualTrabada
<1> QED
  BY <1>3, <1>5, TrabaBoton

LEMMA TrabaConfirmar ==
  ASSUME NEW n \in Partes, NEW X, Formada(X), ConTrabas(X), NEW i, PuedeConfirmar(X, i, n)
  PROVE  LET c == ConFondeo(Confirmar(X, i, n), i) IN
         /\ i \in Indices(X) /\ ConTrabas(c) /\ OtraTraba(X, c, i)
         /\ TrabaDe(X, i).fase = 1 /\ TrabaDe(X, i).por # n
         /\ TrabaDe(c, i) = [TrabaDe(X, i) EXCEPT !.fase = 2]
<1> DEFINE c == ConFondeo(Confirmar(X, i, n), i)
           p == X.partidas[i]
           q == c.partidas[i]
<1>1. i \in Indices(X) /\ p.estado = Encerrando /\ p.encerrado_por # n /\ Trabada(p)
  BY DEF PuedeConfirmar, ConTrabas
<1>2. /\ Indices(c) = Indices(X) /\ q.estado = Encerrada
      /\ MismoPrecio(p, q) /\ q.encerrar_seq = p.encerrar_seq + 1
      /\ \A j \in Indices(X) : j # i => c.partidas[j] = X.partidas[j]
  BY ConfirmarBien
<1> HIDE DEF c
<1>3. Fase(p) = 1 /\ Fase(q) = 2
  BY <1>1, <1>2, Rangos DEF Fase
<1>4. TrabaDe(X, i) = Traba(p) /\ Traba(p).fase = 1 /\ Traba(p).por # n
  BY <1>1, <1>3 DEF TrabaDe, Traba
<1>5. Traba(q) = [Traba(p) EXCEPT !.fase = 2]
  BY <1>2, <1>3 DEF Traba, MismoPrecio
<1>6. Trabada(q)
  <2> HIDE DEF p, q
  <2>1. q.encerrar_seq = 2
    BY <1>1, <1>2, <1>3 DEF Trabada
  <2>2. /\ Traba(p).por \in Partes /\ (Traba(p).precio # 0 <=> EsUsd)
    BY <1>1, <1>4 DEF Trabada, TrabaBien
  <2>3. Traba(q).fase = 2 /\ Traba(q).por = Traba(p).por /\ Traba(q).precio = Traba(p).precio
    BY <1>2, <1>3 DEF Traba, MismoPrecio
  <2> QED
    BY <1>3, <2>1, <2>2, <2>3 DEF Trabada, TrabaBien
<1>7. ConTrabas(c) /\ OtraTraba(X, c, i) /\ TrabaDe(c, i) = Traba(q)
  BY <1>1, <1>2, <1>6, TrabaUna
<1> QED
  BY <1>1, <1>4, <1>5, <1>7 DEF c

LEMMA TrabaAceptar ==
  ASSUME NEW n \in Partes, NEW X, Formada(X), ConTrabas(X), NEW i, PuedeAceptarPago(X, i, n)
  PROVE  LET c == ConPago(AceptarPago(X, i, n), i) IN ConTrabas(c) /\ MismasTrabas(X, c)
<1> DEFINE c == ConPago(AceptarPago(X, i, n), i)
           p == X.partidas[i]
           q == c.partidas[i]
<1>1. i \in Indices(X) /\ p.estado = EnTrato /\ Trabada(p)
  BY DEF PuedeAceptarPago, MeToca, ConTrabas
<1>2. /\ Indices(c) = Indices(X) /\ q.estado = Pagada /\ Aceptada(X, p, q, n)
      /\ \A j \in Indices(X) : j # i => c.partidas[j] = X.partidas[j]
  BY AceptarBien
<1> HIDE DEF c
<1>3. Fase(q) = Fase(p)
  BY <1>1, <1>2, Rangos DEF Fase
<1>4. Trabada(q) /\ Traba(q) = Traba(p)
  <2> HIDE DEF p, q
  <2> QED
    BY <1>1, <1>2, <1>3, IgualTrabada DEF Aceptada
<1>5. ConTrabas(c) /\ MismasTrabas(X, c)
  BY <1>1, <1>2, <1>4, TrabaUna
<1> QED
  BY <1>5 DEF c


-----------------------------------------------------------------------------
(* The invariant of the locks, at the start and after each step.           *)

(* Every stage is pending: there is no lock, and no box has work.          *)
LEMMA SinTrabas ==
  ASSUME TypeOK, EncierreInv, EnContra(anunciadas)
  PROVE  /\ \A o \in anunciadas : \A i \in Nat : TrabaDe(o, i) = SinTraba
         /\ EnFondeo = {}
<1>1. ASSUME NEW o \in anunciadas, NEW i
      PROVE  TrabaDe(o, i) = SinTraba
  <2>1. CASE i \in Indices(o)
    BY <2>1, PendienteTraba DEF EnContra, EncierreInv
  <2>2. CASE i \notin Indices(o)
    BY <2>2 DEF TrabaDe
  <2> QED
    BY <2>1, <2>2
<1>2. SinTraba.fase = 0
  BY DEF SinTraba
<1> QED
  BY <1>1, <1>2 DEF EncierreInv

(* A copy whose stages are pending is known to all when nothing was done.  *)
LEMMA ConoceNada ==
  ASSUME NEW os, \A o \in os : \A i \in Nat : TrabaDe(o, i) = SinTraba, NEW n \in Partes, NEW X
  PROVE  Conoce(n, X, os, {})
<1>1. SinTraba.por # n
  BY PartesAssumption DEF SinTraba
<1>2. \A i \in Nat : ~Propone(os, n, i)
  BY <1>1 DEF Propone
<1> QED
  BY <1>2 DEF Conoce

LEMMA EncierreInicio ==
  Init => EncierreInv
<1> SUFFICES ASSUME NEW g \in Garantias,
                    copia = [n \in Nodos |-> DesdeOferta(g)],
                    vista = [n \in Partes |-> DesdeOferta(g)],
                    anunciadas = {DesdeOferta(g)}, fondeos = {},
                    encierres = [n \in Partes |-> {}]
             PROVE  EncierreInv
  BY DEF Init
<1> DEFINE o == DesdeOferta(g)
           m == NPartidas(TrabajoOferta, g)
<1>1. o.partidas = Pendientes(m, DetalleOferta)
  BY DEF DesdeOferta
<1>2. anunciadas = {o} /\ (\A n \in Nodos : copia[n] = o) /\ (\A n \in Partes : vista[n] = o)
  OBVIOUS
<1> HIDE DEF o, m
<1>3. \A i \in Indices(o) : Trabada(o.partidas[i]) /\ Traba(o.partidas[i]) = SinTraba
  BY <1>1, NuevaTraba DEF Pendientes, Indices, NuevaPartida
<1>4. ConTrabas(o) /\ \A i \in Nat : TrabaDe(o, i) = SinTraba
  BY <1>3 DEF ConTrabas, TrabaDe
<1>5. Acordes({o})
  <2>1. TrabaBien(SinTraba)
    BY DEF TrabaBien, SinTraba
  <2> QED
    BY <1>4, <2>1, SinTrabaAcorde DEF Acordes
<1>6. IdMenor \in Partes /\ Mandante \in Partes /\ Contratista \in Partes /\ Partes \subseteq Nodos
  BY PartesAssumption, TratoAssumption DEF Partes
<1>7. EnFondeo = {} /\ encierres[IdMenor] = {}
  BY <1>6 DEF EnFondeo
<1>8. \A n \in Partes : Conoce(n, o, {o}, {})
  BY <1>4, ConoceNada
<1>9. \A n \in Partes : copia[n] = o /\ vista[n] = o
  BY <1>2, <1>6
<1> QED
  BY <1>2, <1>4, <1>5, <1>6, <1>7, <1>8, <1>9, NoSueltaEsa DEF EncierreInv

(* The answer to the counter-offer: every stage is new.                    *)
LEMMA RespuestaTrabas ==
  ASSUME NEW X, Formada(X), Buena(X), ConTrabas(X), X.estado = Contra,
         NEW c \in {ConfirmarContra(X, Mandante), RechazarContra(X, Mandante)}
  PROVE  ConTrabas(c)
<1>1. X \in TipoObra
  BY DEF Formada
<1>2. \A d : Trabada(NuevaPartida(d))
  BY NuevaTraba DEF NuevaPartida
<1>3. ConTrabas(ConfirmarContra(X, Mandante))
  <2> DEFINE m == NPartidas(TrabajoOferta, X.contra)
  <2>1. ConfirmarContra(X, Mandante).partidas = Pendientes(m, DetalleOferta)
    BY <1>1 DEF ConfirmarContra, TipoObra
  <2> HIDE DEF m
  <2> QED
    BY <1>2, <2>1 DEF ConTrabas, Pendientes, Indices
<1>4. ConTrabas(RechazarContra(X, Mandante))
  <2> DEFINE divide == X.trabajo > 0 /\ X.trabajo % GarantiaPublicada = 0
             m == NPartidas(X.trabajo, GarantiaPublicada)
             ps == [i \in 1 .. m |-> NuevaPartida(Ajustar(X.partidas, m)[i].detalle)]
  <2>1. RechazarContra(X, Mandante).partidas = IF divide THEN ps ELSE X.partidas
    BY <1>1 DEF RechazarContra, TipoObra
  <2>2. \A i \in DOMAIN ps : Trabada(ps[i])
    BY <1>2
  <2> HIDE DEF divide, ps
  <2> QED
    BY <2>1, <2>2 DEF ConTrabas, Indices
<1> QED
  BY <1>3, <1>4

LEMMA EncierreRespuesta ==
  ASSUME Escritorio = {}, Inv, HiloInv, EncierreInv, NEW n \in Partes,
         AccionConfirmarContra(n) \/ AccionRechazarContra(n)
  PROVE  EncierreInv'
<1>1. n = Mandante /\ vista[n].estado = Contra /\ PuedeConfirmarContra(vista[n], Mandante)
  BY DEF AccionConfirmarContra, AccionRechazarContra, PuedeConfirmarContra, PuedeRechazarContra
<1>2. Formada(vista[n]) /\ Buena(vista[n]) /\ ConTrabas(vista[n])
  BY CopiasTrabas
<1>3. TypeOK /\ EnContra(anunciadas)
  BY <1>1, Rangos DEF HiloInv, Guarda, Inv
<1>4. PICK c \in {ConfirmarContra(vista[n], Mandante), RechazarContra(vista[n], Mandante)} :
        Publicar(n, c)
  BY <1>1 DEF AccionConfirmarContra, AccionRechazarContra
<1>5. ConTrabas(c) /\ \A i \in Indices(c) : c.partidas[i].estado = Pendiente
  BY <1>1, <1>2, <1>4, RespuestaBien, RespuestaTrabas
<1>6. Publica(n, c)
  BY <1>4, BotonPublica
<1>7. /\ copia'[n] = c /\ vista'[n] = c
      /\ \A m \in Partes : m # n => copia'[m] = copia[m] /\ vista'[m] = vista[m]
  BY <1>3, <1>6, PublicaCopias
<1>8. /\ \A o \in anunciadas : \A i \in Nat : TrabaDe(o, i) = SinTraba
      /\ EnFondeo = {}
  BY <1>3, SinTrabas
<1>9. \A i \in Nat : TrabaDe(c, i) = SinTraba
  <2> SUFFICES ASSUME NEW i \in Nat
               PROVE  TrabaDe(c, i) = SinTraba
    OBVIOUS
  <2>1. CASE i \in Indices(c)
    BY <1>5, <2>1, PendienteTraba
  <2>2. CASE i \notin Indices(c)
    BY <2>2 DEF TrabaDe
  <2> QED
    BY <2>1, <2>2
<1>10. anunciadas' = anunciadas \cup {c} /\ UNCHANGED <<fondeos, encierres>>
  BY <1>6 DEF Publica
<1>11. \A m \in Partes : \A X : Conoce(m, X, anunciadas', EnFondeo)
  BY <1>8, <1>9, <1>10, ConoceNada
<1>12. NadaNuevo(anunciadas, c)
  BY <1>9 DEF NadaNuevo
<1>13. NoSuelta(vista'[IdMenor], copia'[IdMenor])
  BY <1>7, NoSueltaEsa, PartesAssumption DEF EncierreInv
<1>14. \A m \in Partes : copia'[m] \in {copia[m], c} /\ vista'[m] \in {vista[m], c}
  BY <1>7
<1> QED
  BY <1>3, <1>5, <1>10, <1>11, <1>12, <1>13, <1>14, EncierreVieja

LEMMA EncierreBoton ==
  ASSUME Escritorio = {}, Inv, HiloInv, EncierreInv, NEW n \in Partes, NEW c,
         Deriva(n, vista[n], c), ConTrabas(c), MismasTrabas(vista[n], c), Publicar(n, c)
  PROVE  EncierreInv'
BY BotonPublica, EncierreMismas DEF Inv

LEMMA EncierreDeTrato ==
  ASSUME Escritorio = {}, Inv, HiloInv, EncierreInv, NEW n \in Partes, AccionDeTrato(n)
  PROVE  EncierreInv'
<1>1. Formada(vista[n]) /\ Buena(vista[n]) /\ ConTrabas(vista[n])
  BY CopiasTrabas
<1>2. CASE AccionConfirmarContra(n) \/ AccionRechazarContra(n)
  BY <1>2, EncierreRespuesta
<1>3. CASE \E monto \in MontosExtra : AccionProponerExtra(n, monto)
  <2>1. PICK monto \in MontosExtra : AccionProponerExtra(n, monto)
    BY <1>3
  <2> DEFINE c == ProponerExtra(vista[n], n, DetalleOferta, monto)
  <2>2. Deriva(n, vista[n], c) /\ ConTrabas(c) /\ MismasTrabas(vista[n], c)
    BY <1>1, DerivaDeTrato, TrabaDeTrato, ObraAssumption
  <2>3. Publicar(n, c)
    BY <2>1 DEF AccionProponerExtra
  <2> HIDE DEF c
  <2> QED
    BY <2>2, <2>3, EncierreBoton
<1>4. CASE AccionAceptarExtra(n)
  <2> DEFINE c == AceptarExtra(vista[n], n)
  <2>1. Deriva(n, vista[n], c) /\ ConTrabas(c) /\ MismasTrabas(vista[n], c)
    BY <1>1, <1>4, DerivaExtra, TrabaExtra DEF AccionAceptarExtra
  <2>2. Publicar(n, c)
    BY <1>4 DEF AccionAceptarExtra
  <2> HIDE DEF c
  <2> QED
    BY <2>1, <2>2, EncierreBoton
<1>5. CASE AccionRechazarExtra(n) \/ AccionAbandonar(n) \/ AccionAceptarCierre(n) \/ AccionRechazarCierre(n)
  <2>1. PICK c \in {RechazarExtra(vista[n], n), Abandonar(vista[n], n),
                    AceptarCierre(vista[n], n), RechazarCierre(vista[n], n)} : Publicar(n, c)
    BY <1>5 DEF AccionRechazarExtra, AccionAbandonar, AccionAceptarCierre, AccionRechazarCierre
  <2>2. Deriva(n, vista[n], c) /\ ConTrabas(c) /\ MismasTrabas(vista[n], c)
    BY <1>1, DerivaDeTrato, TrabaDeTrato
  <2> QED
    BY <2>1, <2>2, EncierreBoton
<1> QED
  BY <1>2, <1>3, <1>4, <1>5 DEF AccionDeTrato

LEMMA EncierreIgual ==
  ASSUME EncierreInv, UNCHANGED <<copia, vista, anunciadas, fondeos, encierres>>
  PROVE  EncierreInv'
BY DEF EncierreInv, EnFondeo

(* Who cancels a proposal announces it.                                    *)
LEMMA NoCancela ==
  ASSUME NEW n \in Partes, NEW i, Formada(vista[n]), NadieCancelo'
  PROVE  ~AccionCancelar(n, i)
<1> DEFINE X == vista[n]
           c == Cancelar(X, i, n)
<1> SUFFICES ASSUME AccionCancelar(n, i)
             PROVE  FALSE
  OBVIOUS
<1>1. i \in Indices(X) /\ c \in anunciadas'
  BY DEF AccionCancelar, PuedeCancelar, Publicar, Guardar
<1>2. X \in TipoObra /\ i \in DOMAIN X.partidas /\ X.partidas[i] \in TipoPartida
  BY <1>1, FormadaIndices DEF Formada, Indices
<1>3. /\ Indices(c) = Indices(X)
      /\ c.partidas[i].estado = Pendiente
      /\ c.partidas[i].encerrar_seq = X.partidas[i].encerrar_seq + 1
  BY <1>2 DEF Cancelar, Cancelada, Indices, TipoObra, TipoPartida
<1>4. X.partidas[i].encerrar_seq \in Nat
  BY <1>2 DEF TipoPartida
<1> HIDE DEF c
<1> QED
  BY <1>1, <1>3, <1>4 DEF NadieCancelo

LEMMA EncierreDePartida ==
  ASSUME Escritorio = {}, ajenos = {}, NadieCancelo',
         Inv, HiloInv, EncierreInv, NEW n \in Partes, NEW i, AccionDePartida(n, i)
  PROVE  EncierreInv'
<1> DEFINE X == vista[n]
<1>1. Formada(X) /\ Buena(X) /\ ConTrabas(X)
  BY CopiasTrabas
<1>2. CASE \E precio \in Precios \cup {0} : AccionProponer(n, i, precio)
  <2>1. PICK precio \in Precios \cup {0} : AccionProponer(n, i, precio)
    BY <1>2
  <2> DEFINE c == Proponer(X, i, n, precio)
  <2>2. /\ precio \in Nat /\ Abierta(X) /\ X.estado # Contra
        /\ PuedeProponer(X, i, n, precio) /\ Publicar(n, c) /\ i \in Indices(X)
    <3>1. precio \in Nat
      BY PreciosAssumption
    <3>2. /\ Abierta(X) /\ X.estado # Contra /\ PuedeProponer(X, i, n, precio)
          /\ Publicar(n, c)
      BY <2>1, Zenon DEF AccionProponer
    <3>3. i \in Indices(X)
      BY <3>2, Zenon DEF PuedeProponer
    <3> QED
      BY <3>1, <3>2, <3>3
  <2>3. /\ Deriva(n, X, c) /\ ConTrabas(c) /\ OtraTraba(X, c, i)
        /\ TrabaDe(X, i).fase = 0
        /\ TrabaDe(c, i) = [fase |-> 1, por |-> n, precio |-> precio]
    BY <1>1, <2>2, DerivaProponer, TrabaProponer
  <2>4. Publica(n, c)
    BY <2>2, BotonPublica
  <2> HIDE DEF c
  <2> QED
    BY <2>2, <2>3, <2>4, EncierrePropuesta
<1>3. ~AccionCancelar(n, i)
  BY <1>1, NoCancela
<1>4. CASE \E pct \in Pcts : AccionAvisar(n, i, pct)
  <2>1. PICK pct \in Pcts : AccionAvisar(n, i, pct)
    BY <1>4
  <2> DEFINE c == AvisarTermino(X, i, n, pct)
  <2>2. Deriva(n, X, c) /\ ConTrabas(c) /\ MismasTrabas(X, c) /\ Publicar(n, c)
    BY <1>1, <2>1, DerivaAvisar, TrabaNota DEF AccionAvisar
  <2> HIDE DEF c
  <2> QED
    BY <2>2, EncierreBoton
<1>5. CASE \E pct \in Pcts : AccionContraPago(n, i, pct)
  <2>1. PICK pct \in Pcts : AccionContraPago(n, i, pct)
    BY <1>5
  <2> DEFINE c == ContraPago(X, i, n, pct)
  <2>2. Deriva(n, X, c) /\ ConTrabas(c) /\ MismasTrabas(X, c) /\ Publicar(n, c)
    BY <1>1, <2>1, DerivaContraPago, TrabaNota DEF AccionContraPago
  <2> HIDE DEF c
  <2> QED
    BY <2>2, EncierreBoton
<1>6. CASE \E texto \in Textos : AccionEditar(n, i, texto)
  <2>1. PICK texto \in Textos : AccionEditar(n, i, texto)
    BY <1>6
  <2> DEFINE c == EditarDetalle(X, i, n, texto)
  <2>2. Deriva(n, X, c) /\ ConTrabas(c) /\ MismasTrabas(X, c) /\ Publicar(n, c)
    BY <1>1, <2>1, DerivaEditar, TrabaEditar DEF AccionEditar
  <2> HIDE DEF c
  <2> QED
    BY <2>2, EncierreBoton
<1>7. CASE PedirFondeo(n, i)
  BY <1>7, EncierrePedir DEF Inv
<1>8. CASE PedirGasto(n, i)
  BY <1>8, EncierreIgual DEF PedirGasto, cadena, historia
<1> QED
  BY <1>2, <1>3, <1>4, <1>5, <1>6, <1>7, <1>8 DEF AccionDePartida

LEMMA EncierreDeCaja ==
  ASSUME Inv, HiloInv, EncierreInv, NEW n \in Partes, NEW i, PasoDeCaja(n, i)
  PROVE  EncierreInv'
<1>1. Formada(copia[n]) /\ Buena(copia[n]) /\ ConTrabas(copia[n]) /\ TypeOK
  BY CopiasTrabas DEF Inv
<1>2. CASE AbrirFondeo(n, i)
  BY <1>1, <1>2, EncierreAbrir
<1>3. CASE VerFondeo(n, i)
  <2> DEFINE c == ConFondeo(Confirmar(copia[n], i, n), i)
  <2>1. PuedeConfirmar(copia[n], i, n) /\ PublicarHecho(n, c)
    BY <1>3 DEF VerFondeo
  <2>2. /\ i \in Indices(copia[n]) /\ Deriva(n, copia[n], c)
        /\ ConTrabas(c) /\ OtraTraba(copia[n], c, i)
        /\ TrabaDe(copia[n], i).fase = 1 /\ TrabaDe(copia[n], i).por # n
        /\ TrabaDe(c, i) = [TrabaDe(copia[n], i) EXCEPT !.fase = 2]
    BY <1>1, <2>1, DerivaConfirmar, TrabaConfirmar
  <2>3. Publica(n, c)
    BY <2>1, BotonPublica
  <2> HIDE DEF c
  <2> QED
    BY <1>1, <2>2, <2>3, EncierreConfirma
<1>4. CASE VerPago(n, i)
  <2> DEFINE c == ConPago(AceptarPago(copia[n], i, n), i)
  <2>1. PuedeAceptarPago(copia[n], i, n) /\ PublicarHecho(n, c)
    BY <1>4 DEF VerPago
  <2>2. Deriva(n, copia[n], c) /\ ConTrabas(c) /\ MismasTrabas(copia[n], c)
    BY <1>1, <2>1, DerivaAceptar, TrabaAceptar
  <2>3. Publica(n, c)
    BY <2>1, BotonPublica
  <2> HIDE DEF c
  <2> QED
    BY <1>1, <2>2, <2>3, EncierreMismas
<1>5. CASE AbrirGasto(n, i) \/ FallarGasto(n, i)
  BY <1>5, EncierreIgual DEF AbrirGasto, FallarGasto, cadena, historia
<1> QED
  BY <1>2, <1>3, <1>4, <1>5 DEF PasoDeCaja

LEMMA EncierreRecibir ==
  ASSUME Inv, HiloInv, EncierreInv, NEW n \in Nodos, Recibir(n)
  PROVE  EncierreInv'
<1> DEFINE c(o) == FusionarObra(copia[n], o)
<1>1. PICK o \in anunciadas : Fusion(n, o)
  BY DEF Recibir
<1>2. copia' = [copia EXCEPT ![n] = c(o)]
  BY <1>1 DEF Fusion
<1>3. copia'[n] = c(o)
  BY <1>2 DEF Inv, TypeOK
<1>4. anunciadas' = anunciadas \cup {c(o)} /\ vista' = vista /\ UNCHANGED <<fondeos, encierres>>
  BY <1>1, <1>3 DEF Fusion, cadena, cajas, historia
<1>5. TypeOK
  BY DEF Inv
<1> QED
  BY <1>2, <1>4, <1>5, EncierreFusion

(* What was announced is never forgotten, nor what went wrong.             *)
LEMMA NadaSeBorra ==
  ASSUME [Next]_vars, NadieCancelo', ajenos' = {}
  PROVE  NadieCancelo /\ ajenos = {}
<1>1. anunciadas \subseteq anunciadas' /\ ajenos \subseteq ajenos'
  <2>1. ASSUME NEW n, NEW c, Guardar(n, c)
        PROVE  anunciadas \subseteq anunciadas' /\ ajenos \subseteq ajenos'
    BY <2>1 DEF Guardar, historia
  <2>2. \A n, c : Publicar(n, c) \/ PublicarHecho(n, c) => Guardar(n, c)
    BY DEF Publicar, PublicarHecho
  <2>3. CASE \E n \in Partes : AccionDeTrato(n)
    BY <2>1, <2>2, <2>3
    DEF AccionDeTrato, AccionConfirmarContra, AccionRechazarContra, AccionProponerExtra,
        AccionAceptarExtra, AccionRechazarExtra, AccionAbandonar, AccionAceptarCierre,
        AccionRechazarCierre
  <2>4. CASE \E n \in Partes : \E i \in Indices(vista[n]) : AccionDePartida(n, i)
    BY <2>1, <2>2, <2>4
    DEF AccionDePartida, AccionProponer, AccionCancelar, AccionAvisar, AccionContraPago,
        AccionEditar, PedirFondeo, PedirGasto, historia
  <2>5. CASE \E n \in Partes : \E i \in Indices(copia[n]) : PasoDeCaja(n, i)
    BY <2>1, <2>2, <2>5
    DEF PasoDeCaja, AbrirFondeo, VerFondeo, AbrirGasto, FallarGasto, VerPago, historia
  <2>6. CASE \E i \in Indices(copia[Mandante]) : PasoDeCadena(i)
    BY <2>6 DEF PasoDeCadena, Fondear, Gastar, Enterarse, TomarTxid, historia
  <2>7. CASE \E n \in Partes : Limpiar(n) \/ Leer(n)
    BY <2>7 DEF Limpiar, Leer, historia
  <2>8. CASE \E n \in Nodos : Recibir(n)
    BY <2>8 DEF Recibir, Fusion, historia
  <2>9. CASE UNCHANGED vars
    BY <2>9 DEF vars, historia
  <2> QED
    BY <2>3, <2>4, <2>5, <2>6, <2>7, <2>8, <2>9 DEF Next
<1> QED
  BY <1>1 DEF NadieCancelo

LEMMA EncierrePaso ==
  ASSUME Escritorio = {}, ajenos = {}, NadieCancelo', Inv, HiloInv, EncierreInv, [Next]_vars
  PROVE  EncierreInv'
<1>0. TypeOK
  BY DEF Inv
<1>1. CASE \E n \in Partes : AccionDeTrato(n)
  BY <1>1, EncierreDeTrato
<1>2. CASE \E n \in Partes : \E i \in Indices(vista[n]) : AccionDePartida(n, i)
  BY <1>2, EncierreDePartida
<1>3. CASE \E n \in Partes : \E i \in Indices(copia[n]) : PasoDeCaja(n, i)
  BY <1>3, EncierreDeCaja
<1>4. CASE \E i \in Indices(copia[Mandante]) : PasoDeCadena(i)
  BY <1>0, <1>4, EncierreDeCadena
<1>5. CASE \E n \in Partes : Limpiar(n) \/ Leer(n)
  BY <1>0, <1>5, EncierreLimpiar, EncierreLeer
<1>6. CASE \E n \in Nodos : Recibir(n)
  BY <1>6, EncierreRecibir
<1>7. CASE UNCHANGED vars
  BY <1>7, EncierreIgual DEF vars, cadena, cajas, historia
<1> QED
  BY <1>1, <1>2, <1>3, <1>4, <1>5, <1>6, <1>7 DEF Next

(* A locked stage has the price its transaction paid, also when the two    *)
(* proposed a price at the same time and each one's box opened a funding:  *)
(* the one whose id is not the smaller locks at the price of the other     *)
(* (Partida::fusionar, abrir_fondeo_red), on the phone, until a proposal   *)
(* is cancelled or a box is given the transaction of another stage.        *)
THEOREM SeEncierraLoFondeado ==
  ASSUME Escritorio = {}
  PROVE  Spec => []FondeoCuadra
<1> DEFINE J == NadieCancelo /\ ajenos = {} => EncierreInv
<1>1. Init => J
  BY EncierreInicio
<1>2. Inv /\ HiloInv /\ J /\ [Next]_vars => J'
  BY NadaSeBorra, EncierrePaso
<1>3. Inv /\ HiloInv /\ J => FondeoCuadra
  <2> SUFFICES ASSUME Inv, HiloInv, EncierreInv, ajenos = {}, NEW o \in anunciadas,
                      NEW i \in Indices(o), o.partidas[i].estado >= Encerrada
               PROVE  [partida |-> i, precio |-> o.partidas[i].precio] \in fondeos
    BY DEF FondeoCuadra
  <2> DEFINE p == o.partidas[i]
  <2>1. Formada(o) /\ ConTrabas(o) /\ Respaldada(o) /\ TypeOK
    BY DEF HiloInv, Buenas, EncierreInv, Inv
  <2>2. i \in Nat
    BY <2>1, FormadaIndices
  <2>3. PICK f \in fondeos : f.partida = i
    BY <2>1 DEF Respaldada, Fondeada
  <2>4. PICK u \in anunciadas :
          /\ TrabaDe(u, i).fase # 0 /\ TrabaDe(u, i).precio = f.precio
          /\ TrabaDe(u, i).por = IdMenor \/ ~Propone(anunciadas, IdMenor, i)
    BY <2>3 DEF EncierreInv, Fijo
  <2>5. /\ TrabaDe(o, i).fase = 2 /\ TrabaDe(o, i).por = p.encerrado_por
        /\ TrabaDe(o, i).precio = p.precio
    BY DEF TrabaDe, Traba, Fase
  <2>6. TrabaDe(o, i).por \in Partes /\ TrabaDe(u, i).por \in Partes
    <3>1. TrabaBien(TrabaDe(o, i)) /\ TrabaBien(TrabaDe(u, i))
      BY <2>1, TrabasBien DEF EncierreInv
    <3> QED
      BY <2>4, <2>5, <3>1 DEF TrabaBien
  <2>7. Concuerdan(TrabaDe(o, i), TrabaDe(u, i))
    BY <2>2 DEF EncierreInv, Acordes
  <2>8. TrabaDe(o, i).por = TrabaDe(u, i).por
    <3>1. CASE TrabaDe(u, i).por = IdMenor
      BY <2>5, <2>7, <3>1 DEF Concuerdan
    <3>2. CASE ~Propone(anunciadas, IdMenor, i)
      <4>1. TrabaDe(o, i).por # IdMenor /\ TrabaDe(u, i).por # IdMenor
        BY <3>2 DEF Propone
      <4> QED
        BY <2>6, <4>1, PartesAssumption DEF Partes
    <3> QED
      BY <2>4, <3>1, <3>2
  <2>9. f.precio = p.precio
    BY <2>4, <2>5, <2>7, <2>8 DEF Concuerdan
  <2>10. f = [partida |-> f.partida, precio |-> f.precio]
    <3>1. f \in Fondeo
      BY <2>1 DEF TypeOK
    <3> QED
      BY <3>1 DEF Fondeo
  <2> QED
    BY <2>3, <2>9, <2>10
<1> QED
  BY <1>1, <1>2, <1>3, Invariante, UnSoloHilo, PTL DEF Spec

-----------------------------------------------------------------------------
(* A deal with money in the box is cut by both, when it is cut once.       *)
(*                                                                         *)
(* X shows a lock of stage i, unless that deal ended without the stage.    *)
Muestra(X, i) == TrabaDe(X, i).fase # 0 \/ Falta(X, i)

(* A copy cut by one person; a proposed closure has a number.              *)
Sola(o) == o.estado = Abandonada /\ o.cierre_seq < 2
Propuesto(o) == o.cierre # Nadie => o.cierre_seq >= 1

(* n ended the deal and never proposed a lock.                             *)
Corto(n) ==
  /\ vista[n].estado >= Abandonada /\ copia[n].estado >= Abandonada
  /\ \A i \in Nat : ~Propone(anunciadas, n, i)

CorteInv ==
  /\ \A n \in Partes : NoSuelta(vista[n], copia[n])
  /\ \A n \in Partes : \A i \in EnFondeo : Muestra(copia[n], i) /\ Muestra(vista[n], i)
  /\ \A o \in anunciadas : Propuesto(o)
  /\ (\E o \in anunciadas : Sola(o)) => EnFondeo = {} /\ \E n \in Partes : Corto(n)

(* What n does to X: a closure keeps its number, an end stays an end.      *)
SigueCorte(X, c) ==
  /\ Propuesto(c)
  /\ Sola(c) => Sola(X)
  /\ X.estado >= Abandonada => c.estado >= Abandonada

(* The locks X shows are shown by c.                                       *)
NoSueltaNada(X, c) == \A i \in Nat : Muestra(X, i) => Muestra(c, i)

LEMMA CortePublica ==
  ASSUME TypeOK, CorteInv, NEW n \in Partes, NEW X \in {copia[n], vista[n]}, NEW c, Publica(n, c),
         SigueCorte(X, c), NoSueltaNada(X, c), X \in anunciadas,
         \A m \in Partes, i \in Nat : Propone(anunciadas \cup {c}, m, i) =>
           Propone(anunciadas, m, i) \/ (m = n /\ ~(X.estado >= Abandonada))
  PROVE  CorteInv'
<1>1. /\ copia'[n] = c /\ vista'[n] = c
      /\ \A m \in Partes : m # n => copia'[m] = copia[m] /\ vista'[m] = vista[m]
  BY PublicaCopias
<1>2. anunciadas' = anunciadas \cup {c} /\ UNCHANGED <<fondeos, encierres>>
  BY DEF Publica
<1>3. EnFondeo' = EnFondeo /\ EnFondeo \subseteq Nat
  BY <1>2, PartidasFondeo DEF EnFondeo
<1>4. \A m \in Partes : NoSuelta(vista'[m], copia'[m])
  BY <1>1, NoSueltaEsa DEF CorteInv
<1>5. \A m \in Partes : \A i \in EnFondeo : Muestra(copia'[m], i) /\ Muestra(vista'[m], i)
  <2>1. \A i \in EnFondeo : Muestra(X, i)
    BY DEF CorteInv
  <2>2. \A i \in EnFondeo : Muestra(c, i)
    BY <1>3, <2>1 DEF NoSueltaNada
  <2> QED
    BY <1>1, <2>2 DEF CorteInv
<1>6. \A o \in anunciadas' : Propuesto(o)
  BY <1>2 DEF CorteInv, SigueCorte
<1>7. ASSUME NEW o \in anunciadas', Sola(o)
      PROVE  EnFondeo = {} /\ \E m \in Partes :
               /\ vista'[m].estado >= Abandonada /\ copia'[m].estado >= Abandonada
               /\ \A i \in Nat : ~Propone(anunciadas', m, i)
  <2>1. \E u \in anunciadas : Sola(u)
    BY <1>2, <1>7 DEF SigueCorte
  <2>2. PICK m \in Partes : Corto(m)
    BY <2>1 DEF CorteInv
  <2>3. EnFondeo = {}
    BY <2>1 DEF CorteInv
  <2>4. CASE m # n
    BY <1>1, <1>2, <2>2, <2>3, <2>4 DEF Corto
  <2>5. CASE m = n
    BY <1>1, <1>2, <2>2, <2>3, <2>5 DEF Corto, SigueCorte
  <2> QED
    BY <2>4, <2>5
<1> QED
  BY <1>3, <1>4, <1>5, <1>6, <1>7 DEF CorteInv, Corto

(* It leaves the locks as they are.                                        *)
LEMMA CorteMismas ==
  ASSUME TypeOK, HiloInv, EncierreInv, CorteInv, NEW n \in Partes, NEW X \in {copia[n], vista[n]},
         NEW c, Deriva(n, X, c), ConTrabas(c), MismasTrabas(X, c), Publica(n, c), SigueCorte(X, c)
  PROVE  CorteInv'
<1>1. X \in anunciadas
  BY CopiasTrabas
<1>2. NadaNuevo(anunciadas, c)
  BY <1>1 DEF NadaNuevo, MismasTrabas
<1>3. \A m \in Partes, i \in Nat : Propone(anunciadas \cup {c}, m, i) <=> Propone(anunciadas, m, i)
  BY <1>2, Viejas DEF EncierreInv
<1>4. NoSueltaNada(X, c)
  BY DEF NoSueltaNada, Muestra, Falta, MismasTrabas, Deriva
<1> QED
  BY <1>1, <1>3, <1>4, CortePublica

LEMMA CorteBoton ==
  ASSUME Escritorio = {}, Inv, HiloInv, EncierreInv, CorteInv, NEW n \in Partes, NEW c,
         Deriva(n, vista[n], c), ConTrabas(c), MismasTrabas(vista[n], c), Publicar(n, c),
         SigueCorte(vista[n], c)
  PROVE  CorteInv'
BY BotonPublica, CorteMismas DEF Inv

(* The operations that are no closure.                                     *)
LEMMA SigueSinCorte ==
  ASSUME NEW X, X \in TipoObra, Propuesto(X), NEW c, c.cierre = X.cierre, c.cierre_seq = X.cierre_seq,
         c.estado = X.estado \/ c.estado = Cerrada
  PROVE  SigueCorte(X, c)
<1>1. X.estado \in 0 .. 6
  BY Rangos DEF TipoObra
<1> QED
  BY <1>1, Rangos DEF SigueCorte, Propuesto, Sola

LEMMA CorteDeOtras ==
  ASSUME NEW X, Formada(X), Propuesto(X), NEW n, NEW i
  PROVE  /\ \A pct : SigueCorte(X, AvisarTermino(X, i, n, pct)) /\ SigueCorte(X, ContraPago(X, i, n, pct))
         /\ \A texto : SigueCorte(X, EditarDetalle(X, i, n, texto))
         /\ \A d, monto : SigueCorte(X, ProponerExtra(X, n, d, monto))
         /\ SigueCorte(X, AceptarExtra(X, n)) /\ SigueCorte(X, RechazarExtra(X, n))
         /\ SigueCorte(X, ConFondeo(Confirmar(X, i, n), i))
         /\ SigueCorte(X, ConPago(AceptarPago(X, i, n), i))
<1>1. X \in TipoObra
  BY DEF Formada
<1> DEFINE Igual(c) == c.cierre = X.cierre /\ c.cierre_seq = X.cierre_seq
<1>2. \A c : Igual(c) /\ (c.estado = X.estado \/ c.estado = Cerrada) => SigueCorte(X, c)
  BY <1>1, SigueSinCorte
<1>3. \A pct : /\ Igual(AvisarTermino(X, i, n, pct)) /\ AvisarTermino(X, i, n, pct).estado = X.estado
              /\ Igual(ContraPago(X, i, n, pct)) /\ ContraPago(X, i, n, pct).estado = X.estado
  BY <1>1 DEF AvisarTermino, ContraPago, TipoObra
<1>4. \A texto : /\ Igual(EditarDetalle(X, i, n, texto))
                /\ EditarDetalle(X, i, n, texto).estado = X.estado
  BY <1>1 DEF EditarDetalle, TipoObra
<1>5. \A d, monto : /\ Igual(ProponerExtra(X, n, d, monto))
                   /\ ProponerExtra(X, n, d, monto).estado = X.estado
  BY <1>1 DEF ProponerExtra, TipoObra
<1>6. /\ Igual(AceptarExtra(X, n)) /\ AceptarExtra(X, n).estado = X.estado
      /\ Igual(RechazarExtra(X, n)) /\ RechazarExtra(X, n).estado = X.estado
  BY <1>1 DEF AceptarExtra, RechazarExtra, TipoObra
<1>7. /\ Igual(ConFondeo(Confirmar(X, i, n), i))
      /\ ConFondeo(Confirmar(X, i, n), i).estado = X.estado
  BY <1>1 DEF ConFondeo, Confirmar, TipoObra
<1>8. /\ Igual(ConPago(AceptarPago(X, i, n), i))
      /\ ConPago(AceptarPago(X, i, n), i).estado \in {X.estado, Cerrada}
  BY <1>1 DEF ConPago, AceptarPago, TipoObra
<1> HIDE DEF Igual
<1> QED
  BY <1>2, <1>3, <1>4, <1>5, <1>6, <1>7, <1>8

(* A proposed closure, and its answers.                                    *)
LEMMA CorteDeCierre ==
  ASSUME NEW X, Formada(X), Propuesto(X), NEW n \in Partes
  PROVE  /\ HayRiesgo(X) => SigueCorte(X, Abandonar(X, n))
         /\ PuedeResponderCierre(X, n) =>
              SigueCorte(X, AceptarCierre(X, n)) /\ SigueCorte(X, RechazarCierre(X, n))
<1>1. X \in TipoObra /\ X.cierre_seq \in Nat /\ X.estado \in 0 .. 6
  BY Rangos DEF Formada, TipoObra
<1>2. ASSUME HayRiesgo(X)
      PROVE  SigueCorte(X, Abandonar(X, n))
  <2> DEFINE c == Abandonar(X, n)
  <2>1. c.estado = X.estado /\ c.cierre_seq = X.cierre_seq + 1
    BY <1>1, <1>2 DEF Abandonar, TipoObra
  <2> HIDE DEF c
  <2>2. SigueCorte(X, c)
    BY <1>1, <2>1 DEF SigueCorte, Propuesto, Sola
  <2> QED
    BY <2>2 DEF c
<1>3. ASSUME PuedeResponderCierre(X, n)
      PROVE  SigueCorte(X, AceptarCierre(X, n)) /\ SigueCorte(X, RechazarCierre(X, n))
  <2> DEFINE c == AceptarCierre(X, n)
             d == RechazarCierre(X, n)
  <2>1. /\ c.estado = Abandonada /\ c.cierre = Nadie /\ c.cierre_seq = X.cierre_seq + 1
        /\ d.estado = X.estado /\ d.cierre = Nadie /\ d.cierre_seq = X.cierre_seq + 1
    BY <1>1 DEF AceptarCierre, RechazarCierre, TipoObra
  <2>2. X.cierre_seq >= 1
    BY <1>3 DEF PuedeResponderCierre, Propuesto
  <2> HIDE DEF c, d
  <2>3. SigueCorte(X, c) /\ SigueCorte(X, d)
    BY <1>1, <2>1, <2>2, Rangos DEF SigueCorte, Propuesto, Sola
  <2> QED
    BY <2>3 DEF c, d
<1> QED
  BY <1>2, <1>3

(* A deal that shows no lock and did not end.                              *)
LEMMA SinRiesgoNoMuestra ==
  ASSUME NEW X, Formada(X), ConTrabas(X), ~HayRiesgo(X) \/ (Buena(X) /\ X.estado = Contra), Abierta(X),
         NEW i \in Nat
  PROVE  TrabaDe(X, i) = SinTraba /\ ~Falta(X, i)
<1>1. X.estado \in 0 .. 6
  BY Rangos DEF Formada, TipoObra
<1>2. ~Cortada(X)
  BY DEF Cortada, Abierta, Terminales
<1>3. CASE i \in Indices(X)
  <2>1. X.partidas[i].estado \in 0 .. 4
    BY <1>3, Rangos, FormadaIndices DEF TipoPartida
  <2>2. X.partidas[i].estado = Pendiente
    BY <1>3, <2>1, Rangos DEF HayRiesgo, Buena
  <2> QED
    BY <1>2, <1>3, <2>2, PendienteTraba DEF Falta
<1>4. CASE i \notin Indices(X)
  BY <1>2, <1>4 DEF TrabaDe, Falta
<1> QED
  BY <1>3, <1>4

(* Who cuts alone knows that nothing was funded and proposed no lock; from *)
(* then on nothing can be funded (abandonar).                              *)
LEMMA SinFondos ==
  ASSUME TypeOK, HiloInv, EncierreInv, CorteInv, NEW n \in Partes, Abierta(vista[n]), ~HayRiesgo(vista[n])
  PROVE  EnFondeo = {} /\ \A i \in Nat : ~Propone(anunciadas, n, i)
<1>1. /\ Formada(vista[n]) /\ ConTrabas(vista[n])
      /\ Conoce(n, vista[n], anunciadas, EnFondeo)
  BY CopiasTrabas
<1>2. \A i \in Nat : TrabaDe(vista[n], i) = SinTraba /\ ~Falta(vista[n], i)
  BY <1>1, SinRiesgoNoMuestra
<1>3. SinTraba.fase = 0
  BY DEF SinTraba
<1>4. EnFondeo \subseteq Nat
  BY PartidasFondeo
<1>5. EnFondeo = {}
  BY <1>2, <1>3, <1>4 DEF CorteInv, Muestra
<1> QED
  BY <1>1, <1>2, <1>3, <1>5 DEF Conoce

LEMMA CorteSolo ==
  ASSUME Escritorio = {}, Inv, HiloInv, EncierreInv, CorteInv, NEW n \in Partes,
         AccionAbandonar(n), ~HayRiesgo(vista[n])
  PROVE  CorteInv'
<1> DEFINE X == vista[n]
           c == Abandonar(X, n)
<1>1. /\ TypeOK /\ Abierta(X) /\ Publica(n, c)
  BY BotonPublica DEF AccionAbandonar, PuedeAbandonar, Abierta, Inv
<1>2. Formada(X) /\ ConTrabas(X) /\ X \in anunciadas
  BY CopiasTrabas
<1>3. c.estado = Abandonada /\ c.cierre = Nadie
  BY <1>2 DEF Abandonar, Formada, TipoObra
<1>4. ConTrabas(c) /\ MismasTrabas(X, c)
  BY <1>2, TrabaDeTrato
<1> HIDE DEF c
<1>5. EnFondeo = {} /\ \A i \in Nat : ~Propone(anunciadas, n, i)
  BY <1>1, SinFondos
<1>6. NadaNuevo(anunciadas, c)
  BY <1>2, <1>4 DEF NadaNuevo, MismasTrabas
<1>7. anunciadas' = anunciadas \cup {c} /\ UNCHANGED <<fondeos, encierres>>
  BY <1>1 DEF Publica
<1>8. \A i \in Nat : ~Propone(anunciadas', n, i)
  BY <1>4, <1>5, <1>6, <1>7, Viejas DEF EncierreInv
<1>9. /\ copia'[n] = c /\ vista'[n] = c
      /\ \A m \in Partes : m # n => copia'[m] = copia[m] /\ vista'[m] = vista[m]
  BY <1>1, PublicaCopias
<1>10. \A m \in Partes : NoSuelta(vista'[m], copia'[m])
  BY <1>9, NoSueltaEsa DEF CorteInv
<1>11. EnFondeo' = {}
  BY <1>5, <1>7 DEF EnFondeo
<1>12. \A o \in anunciadas' : Propuesto(o)
  BY <1>3, <1>7 DEF CorteInv, Propuesto
<1>13. vista'[n].estado >= Abandonada /\ copia'[n].estado >= Abandonada
  BY <1>3, <1>9, Rangos
<1> QED
  BY <1>8, <1>10, <1>11, <1>12, <1>13 DEF CorteInv, Corto

LEMMA CorteRespuesta ==
  ASSUME Escritorio = {}, Inv, HiloInv, EncierreInv, CorteInv, NEW n \in Partes,
         AccionConfirmarContra(n) \/ AccionRechazarContra(n)
  PROVE  CorteInv'
<1> DEFINE X == vista[n]
<1>1. n = Mandante /\ X.estado = Contra /\ PuedeConfirmarContra(X, Mandante)
  BY DEF AccionConfirmarContra, AccionRechazarContra, PuedeConfirmarContra, PuedeRechazarContra
<1>2. Formada(X) /\ Buena(X) /\ ConTrabas(X) /\ X \in anunciadas
  BY CopiasTrabas
<1>3. PICK c \in {ConfirmarContra(X, Mandante), RechazarContra(X, Mandante)} : Publicar(n, c)
  BY <1>1 DEF AccionConfirmarContra, AccionRechazarContra
<1>4. ConTrabas(c) /\ \A i \in Indices(c) : c.partidas[i].estado = Pendiente
  BY <1>1, <1>2, <1>3, RespuestaBien, RespuestaTrabas
<1>5. /\ c.estado \in {Acordada, Rechazada}
      /\ c.cierre = X.cierre /\ c.cierre_seq = X.cierre_seq
  BY <1>2, <1>3 DEF ConfirmarContra, RechazarContra, Formada, TipoObra
<1>6. TypeOK /\ Publica(n, c) /\ Abierta(X)
  BY <1>1, <1>3, BotonPublica, Rangos DEF Inv, Abierta, Terminales
<1>7. NoSueltaNada(X, c)
  <2>1. SinTraba.fase = 0
    BY DEF SinTraba
  <2> QED
    BY <1>1, <1>2, <1>6, <2>1, SinRiesgoNoMuestra DEF NoSueltaNada, Muestra
<1>8. SigueCorte(X, c)
  BY <1>1, <1>2, <1>5, Rangos DEF SigueCorte, Sola, Propuesto, CorteInv
<1>9. \A i \in Nat : TrabaDe(c, i) = SinTraba
  BY <1>4, PendienteTraba DEF TrabaDe
<1>10. NadaNuevo(anunciadas, c)
  BY <1>9 DEF NadaNuevo
<1>11. \A m \in Partes, i \in Nat : Propone(anunciadas \cup {c}, m, i) <=> Propone(anunciadas, m, i)
  BY <1>4, <1>10, Viejas DEF EncierreInv
<1> HIDE DEF X
<1> QED
  BY <1>2, <1>6, <1>7, <1>8, <1>11, CortePublica DEF X

(* A lock is proposed, by a person whose deal goes on.                     *)
LEMMA CortePropuesta ==
  ASSUME TypeOK, HiloInv, EncierreInv, CorteInv, NEW n \in Partes, NEW i \in Indices(vista[n]),
         NEW pr \in Nat, PuedeProponer(vista[n], i, n, pr), Abierta(vista[n]),
         Publica(n, Proponer(vista[n], i, n, pr))
  PROVE  CorteInv'
<1> DEFINE X == vista[n]
           c == Proponer(X, i, n, pr)
<1>1. X \in anunciadas /\ Formada(X) /\ Buena(X) /\ ConTrabas(X)
  BY CopiasTrabas
<1>2. /\ ConTrabas(c) /\ OtraTraba(X, c, i)
      /\ TrabaDe(X, i).fase = 0
      /\ TrabaDe(c, i) = [fase |-> 1, por |-> n, precio |-> pr]
  BY <1>1, TrabaProponer
<1>3. c.estado = EnMarcha /\ c.cierre = X.cierre /\ c.cierre_seq = X.cierre_seq
  BY <1>1 DEF Proponer, Formada, TipoObra
<1>4. Publica(n, c)
  OBVIOUS
<1> HIDE DEF c
<1>5. X.estado \in 0 .. 6 /\ ~(X.estado >= Abandonada) /\ ~Cortada(X)
  BY <1>1, Rangos DEF Formada, TipoObra, Abierta, Terminales, Cortada
<1>6. SigueCorte(X, c)
  BY <1>1, <1>3, <1>5, Rangos DEF SigueCorte, Sola, Propuesto, CorteInv
<1>7. NoSueltaNada(X, c)
  BY <1>2, <1>5 DEF NoSueltaNada, Muestra, Falta, OtraTraba
<1>8. TrabaDe(c, i).por = n
  BY <1>2
<1>9. ASSUME NEW m \in Partes, NEW j \in Nat, Propone(anunciadas \cup {c}, m, j)
      PROVE  Propone(anunciadas, m, j) \/ m = n
  <2>1. TrabaDe(c, j).por = m => m = n \/ TrabaDe(X, j).por = m
    BY <1>2, <1>8 DEF OtraTraba
  <2> QED
    BY <1>1, <1>9, <2>1 DEF Propone
<1> HIDE DEF X
<1> QED
  BY <1>1, <1>4, <1>5, <1>6, <1>7, <1>9, CortePublica DEF X

(* A lock is confirmed: it was proposed already.                           *)
LEMMA CorteConfirma ==
  ASSUME TypeOK, HiloInv, EncierreInv, CorteInv, NEW n \in Partes, NEW i,
         PuedeConfirmar(copia[n], i, n), Publica(n, ConFondeo(Confirmar(copia[n], i, n), i))
  PROVE  CorteInv'
<1> DEFINE X == copia[n]
           c == ConFondeo(Confirmar(X, i, n), i)
<1>1. X \in anunciadas /\ Formada(X) /\ Buena(X) /\ ConTrabas(X)
  BY CopiasTrabas
<1>2. /\ i \in Indices(X) /\ ConTrabas(c) /\ OtraTraba(X, c, i)
      /\ TrabaDe(X, i).fase = 1
      /\ TrabaDe(c, i) = [TrabaDe(X, i) EXCEPT !.fase = 2]
  BY <1>1, TrabaConfirmar
<1>3. Deriva(n, X, c)
  BY <1>1, <1>2, DerivaConfirmar
<1>4. SigueCorte(X, c)
  BY <1>1, CorteDeOtras DEF CorteInv
<1>5. Publica(n, c)
  OBVIOUS
<1> HIDE DEF c
<1>6. TrabaDe(X, i) = Traba(X.partidas[i])
  BY <1>2 DEF TrabaDe
<1>7. TrabaDe(c, i).fase = 2 /\ TrabaDe(c, i).por = TrabaDe(X, i).por
  BY <1>2, <1>6 DEF Traba
<1>8. NoSueltaNada(X, c)
  <2>1. \A j \in Nat : TrabaDe(X, j).fase # 0 => TrabaDe(c, j).fase # 0
    <3> SUFFICES ASSUME NEW j \in Nat, TrabaDe(X, j).fase # 0
                 PROVE  TrabaDe(c, j).fase # 0
      OBVIOUS
    <3>1. CASE j = i
      BY <1>7, <3>1
    <3>2. CASE j # i
      BY <1>2, <3>2, Zenon DEF OtraTraba
    <3> QED
      BY <3>1, <3>2
  <2>2. \A j \in Nat : Falta(X, j) => Falta(c, j)
    BY <1>3 DEF Falta, Deriva
  <2> QED
    BY <2>1, <2>2 DEF NoSueltaNada, Muestra
<1>9. ASSUME NEW m \in Partes, NEW j \in Nat, Propone(anunciadas \cup {c}, m, j)
      PROVE  Propone(anunciadas, m, j)
  <2>1. TrabaDe(c, j).por = TrabaDe(X, j).por
    BY <1>2, <1>7 DEF OtraTraba
  <2> QED
    BY <1>1, <1>9, <2>1 DEF Propone
<1> HIDE DEF X
<1> QED
  BY <1>1, <1>4, <1>5, <1>8, <1>9, CortePublica DEF X

(* The merge: the end and the number of the closure come together          *)
(* (Obra::fusionar).                                                       *)
LEMMA CierreDeFusion ==
  ASSUME NEW a, Formada(a), Propuesto(a), NEW b, Formada(b), Propuesto(b)
  PROVE  LET c == FusionarObra(a, b) IN
         /\ Propuesto(c)
         /\ Sola(c) => Sola(a) \/ Sola(b)
         /\ a.estado >= Abandonada => c.estado >= Abandonada
<1> DEFINE e == FusionEstado(a, b)
           x == FusionExtra(e, b)
           k == FusionCierre(x, b)
           f == FusionFin(k)
<1>1. /\ a.cierre_seq \in Nat /\ b.cierre_seq \in Nat
      /\ a.estado \in 0 .. 6 /\ b.estado \in 0 .. 6
  BY Rangos DEF Formada, TipoObra
<1>2. /\ Formada(e) /\ e.estado \in {a.estado, b.estado}
      /\ e.cierre = a.cierre /\ e.cierre_seq = a.cierre_seq
  <2>1. Formada(e) /\ e.estado \in {a.estado, b.estado}
    BY FusionEstadoForma, FusionEstadoEstado
  <2>2. e.cierre = a.cierre /\ e.cierre_seq = a.cierre_seq
    BY DEF FusionEstado, Formada, TipoObra
  <2> QED
    BY <2>1, <2>2
<1> HIDE DEF e
<1>3. /\ Formada(x) /\ x.estado = e.estado
      /\ x.cierre \in {a.cierre, Nadie} /\ x.cierre_seq = a.cierre_seq
  <2>1. Formada(x) /\ x.estado = e.estado
    BY <1>2, FusionExtraForma, FusionExtraEstado
  <2>2. x.cierre \in {e.cierre, Nadie} /\ x.cierre_seq = e.cierre_seq
    BY <1>2 DEF FusionExtra, Formada, TipoObra
  <2> QED
    BY <1>2, <2>1, <2>2
<1> HIDE DEF x
<1>4. /\ Formada(k) /\ k.estado = e.estado
      /\ \/ k.cierre = Nadie /\ k.cierre_seq = Mayor(x.cierre_seq, b.cierre_seq)
         \/ /\ x.estado # Abandonada
            /\ \/ k.cierre = b.cierre /\ k.cierre_seq = b.cierre_seq
               \/ k.cierre = x.cierre /\ k.cierre_seq = x.cierre_seq
  <2>1. Formada(k) /\ k.estado = e.estado
    BY <1>3, FusionCierreForma, FusionCierreEstado
  <2>2. x \in TipoObra
    BY <1>3 DEF Formada
  <2> QED
    BY <2>1, <2>2 DEF FusionCierre, TipoObra
<1> HIDE DEF k
<1>5. /\ f.cierre = k.cierre /\ f.cierre_seq = k.cierre_seq
      /\ f.estado \in {k.estado, EnMarcha, Cerrada}
  BY <1>4 DEF FusionFin, Formada, TipoObra
<1> HIDE DEF f
<1>6. f = FusionarObra(a, b)
  BY DEF FusionarObra, f, k, x, e
<1>7. f.estado \in Nat /\ f.estado >= a.estado
  BY <1>6, FusionarObraEstado
<1>8. Propuesto(f)
  BY <1>1, <1>3, <1>4, <1>5 DEF Propuesto
<1>9. Sola(f) => Sola(a) \/ Sola(b)
  <2> SUFFICES ASSUME Sola(f)
               PROVE  Sola(a) \/ Sola(b)
    OBVIOUS
  <2>1. k.estado = Abandonada /\ x.estado = Abandonada
    BY <1>3, <1>4, <1>5, Rangos DEF Sola
  <2>2. Mayor(a.cierre_seq, b.cierre_seq) < 2
    BY <1>3, <1>4, <1>5, <2>1 DEF Sola
  <2> QED
    BY <1>1, <1>2, <1>3, <2>1, <2>2 DEF Sola, Mayor
<1>10. a.estado >= Abandonada => f.estado >= Abandonada
  BY <1>1, <1>7, Rangos
<1> QED
  BY <1>6, <1>8, <1>9, <1>10

LEMMA CorteFusion ==
  ASSUME TypeOK, HiloInv, EncierreInv, CorteInv, NEW n \in Nodos, NEW b \in anunciadas, NEW c,
         c = FusionarObra(copia[n], b),
         copia' = [copia EXCEPT ![n] = c], vista' = vista, anunciadas' = anunciadas \cup {c},
         UNCHANGED <<fondeos, encierres>>
  PROVE  CorteInv'
<1> DEFINE a == copia[n]
<1>1. /\ a \in anunciadas /\ Formada(a) /\ Buena(a) /\ Formada(b) /\ Buena(b) /\ Encajan(a, b)
      /\ ConTrabas(a) /\ ConTrabas(b) /\ Acordes({a, b}) /\ Propuesto(a) /\ Propuesto(b)
  BY DEF HiloInv, Buenas, Encajadas, EncierreInv, Acordes, CorteInv
<1>2. c = FusionarObra(a, b)
  OBVIOUS
<1> HIDE DEF a
<1>3. /\ ConTrabas(c)
      /\ \A i \in Nat : TrabaDe(c, i) \in {TrabaDe(a, i), TrabaDe(b, i), SinTraba}
      /\ \A i \in Indices(c) : TrabaDe(a, i).fase # 0 => TrabaDe(c, i).fase # 0
      /\ \A i \in Indices(a) \ Indices(c) : Cortada(c) \/ TrabaDe(a, i) = SinTraba
      /\ Cortada(a) =>
           /\ Cortada(c)
           /\ \A i \in Indices(c) \ Indices(a) : TrabaDe(c, i).fase = 2
  BY <1>1, <1>2, FusionTraba
<1>4. /\ Propuesto(c)
      /\ Sola(c) => Sola(a) \/ Sola(b)
      /\ a.estado >= Abandonada => c.estado >= Abandonada
  BY <1>1, <1>2, CierreDeFusion
<1>5. NadaNuevo(anunciadas, c)
  BY <1>1, <1>3 DEF NadaNuevo
<1>6. \A m \in Partes, i \in Nat : Propone(anunciadas', m, i) <=> Propone(anunciadas, m, i)
  BY <1>3, <1>5, Viejas DEF EncierreInv
<1>7. NoSueltaNada(a, c)
  <2> SUFFICES ASSUME NEW i \in Nat, Muestra(a, i), ~Falta(c, i)
               PROVE  TrabaDe(c, i).fase # 0
    BY DEF NoSueltaNada, Muestra
  <2>1. SinTraba.fase = 0
    BY DEF SinTraba
  <2>2. CASE TrabaDe(a, i).fase # 0
    <3>1. i \in Indices(a)
      BY <2>1, <2>2 DEF TrabaDe
    <3>2. i \in Indices(c)
      BY <1>3, <2>1, <2>2, <3>1 DEF Falta
    <3> QED
      BY <1>3, <2>2, <3>2
  <2>3. CASE Falta(a, i)
    BY <1>3, <2>3 DEF Falta
  <2> QED
    BY <2>2, <2>3 DEF Muestra
<1>8. copia'[n] = c /\ \A m \in Nodos : m # n => copia'[m] = copia[m]
  BY DEF TypeOK
<1>9. \A m \in Partes : copia'[m] = copia[m] \/ (copia'[m] = c /\ copia[m] = a)
  BY <1>8, TratoAssumption DEF a
<1>10. EnFondeo' = EnFondeo /\ EnFondeo \subseteq Nat
  BY PartidasFondeo DEF EnFondeo
<1>11. \A m \in Partes : NoSuelta(vista'[m], copia'[m])
  BY <1>7, <1>9 DEF CorteInv, NoSuelta, NoSueltaNada, Muestra
<1>12. \A m \in Partes : \A i \in EnFondeo : Muestra(copia'[m], i) /\ Muestra(vista'[m], i)
  BY <1>7, <1>9, <1>10 DEF CorteInv, NoSueltaNada
<1>13. \A o \in anunciadas' : Propuesto(o)
  BY <1>4 DEF CorteInv
<1>14. ASSUME NEW o \in anunciadas', Sola(o)
       PROVE  EnFondeo = {} /\ \E m \in Partes :
                /\ vista'[m].estado >= Abandonada /\ copia'[m].estado >= Abandonada
                /\ \A i \in Nat : ~Propone(anunciadas', m, i)
  <2>1. \E u \in anunciadas : Sola(u)
    BY <1>1, <1>4, <1>14
  <2>2. PICK m \in Partes : Corto(m)
    BY <2>1 DEF CorteInv
  <2>3. EnFondeo = {}
    BY <2>1 DEF CorteInv
  <2>4. vista'[m].estado >= Abandonada /\ copia'[m].estado >= Abandonada
    BY <1>4, <1>9, <2>2 DEF Corto
  <2>5. \A i \in Nat : ~Propone(anunciadas', m, i)
    BY <1>6, <2>2 DEF Corto
  <2> QED
    BY <2>3, <2>4, <2>5
<1> QED
  BY <1>10, <1>11, <1>12, <1>13, <1>14 DEF CorteInv, Corto

LEMMA CorteRecibir ==
  ASSUME Inv, HiloInv, EncierreInv, CorteInv, NEW n \in Nodos, Recibir(n)
  PROVE  CorteInv'
<1> DEFINE c(o) == FusionarObra(copia[n], o)
<1>1. PICK o \in anunciadas : Fusion(n, o)
  BY DEF Recibir
<1>2. copia' = [copia EXCEPT ![n] = c(o)]
  BY <1>1 DEF Fusion
<1>3. copia'[n] = c(o)
  BY <1>2 DEF Inv, TypeOK
<1>4. anunciadas' = anunciadas \cup {c(o)} /\ vista' = vista /\ UNCHANGED <<fondeos, encierres>>
  BY <1>1, <1>3 DEF Fusion, cadena, cajas, historia
<1>5. TypeOK
  BY DEF Inv
<1> QED
  BY <1>2, <1>4, <1>5, CorteFusion

LEMMA CorteLeer ==
  ASSUME TypeOK, CorteInv, NEW n \in Partes, Leer(n)
  PROVE  CorteInv'
<1>1. /\ vista'[n] = copia[n]
      /\ \A m \in Partes : m # n => vista'[m] = vista[m]
      /\ UNCHANGED <<copia, anunciadas, fondeos, encierres>>
  BY DEF TypeOK, Leer, cadena, cajas, historia
<1>2. EnFondeo' = EnFondeo
  BY <1>1 DEF EnFondeo
<1>3. \A m \in Partes : NoSuelta(vista'[m], copia'[m])
  BY <1>1, NoSueltaEsa DEF CorteInv
<1>4. \A m \in Partes : \A i \in EnFondeo : Muestra(copia'[m], i) /\ Muestra(vista'[m], i)
  BY <1>1 DEF CorteInv
<1>5. \A m \in Partes : Corto(m) => /\ vista'[m].estado >= Abandonada /\ copia'[m].estado >= Abandonada
                                    /\ \A i \in Nat : ~Propone(anunciadas', m, i)
  BY <1>1 DEF Corto
<1> QED
  BY <1>1, <1>2, <1>3, <1>4, <1>5 DEF CorteInv, Corto

(* The boxes: a funding begins for a lock that both show.                  *)
LEMMA CorteCajas ==
  ASSUME CorteInv, UNCHANGED <<copia, vista, anunciadas>>,
         \A i \in EnFondeo' :
           \/ i \in EnFondeo
           \/ /\ \A n \in Partes : Muestra(copia[n], i) /\ Muestra(vista[n], i)
              /\ ~\E n \in Partes : Corto(n)
  PROVE  CorteInv'
<1>1. \A n \in Partes : \A i \in EnFondeo' : Muestra(copia[n], i) /\ Muestra(vista[n], i)
  BY DEF CorteInv
<1>2. (\E o \in anunciadas : Sola(o)) => EnFondeo' = {}
  BY DEF CorteInv
<1> QED
  BY <1>1, <1>2 DEF CorteInv, Corto

LEMMA CorteMenos ==
  ASSUME TypeOK, CorteInv, UNCHANGED <<copia, vista, anunciadas>>,
         \A n \in Partes : \A f \in encierres'[n] : \E g \in encierres[n] : f.partida = g.partida,
         \A f \in fondeos' : \E g \in fondeos \cup encierres[Mandante] : f.partida = g.partida
  PROVE  CorteInv'
<1>1. Mandante \in Partes /\ Contratista \in Partes
  BY DEF Partes
<1>2. EnFondeo' \subseteq EnFondeo
  <2> SUFFICES ASSUME NEW f \in fondeos' \cup encierres'[Mandante] \cup encierres'[Contratista]
               PROVE  f.partida \in EnFondeo
    BY DEF EnFondeo
  <2>1. \E g \in fondeos \cup encierres[Mandante] \cup encierres[Contratista] : f.partida = g.partida
    BY <1>1
  <2> QED
    BY <2>1 DEF EnFondeo
<1> QED
  BY <1>2, CorteCajas

LEMMA CorteDeCadena ==
  ASSUME TypeOK, CorteInv, NEW i, PasoDeCadena(i)
  PROVE  CorteInv'
<1>1. Mandante \in Partes /\ Contratista \in Partes
  BY DEF Partes
<1>2. CASE Fondear(i)
  <2>1. /\ encierres' = [encierres EXCEPT ![Mandante] = ConTx(encierres[Mandante], i)]
        /\ UNCHANGED <<copia, vista, anunciadas>>
        /\ \E f \in encierres[Mandante] :
             f.partida = i /\ fondeos' = fondeos \cup {[partida |-> i, precio |-> f.precio]}
    BY <1>2 DEF Fondear
  <2>2. \A m \in Partes : \A f \in encierres'[m] : \E g \in encierres[m] : f.partida = g.partida
    BY <1>1, <2>1, EncierreTx
  <2>3. \A f \in fondeos' : \E g \in fondeos \cup encierres[Mandante] : f.partida = g.partida
    BY <2>1
  <2> QED
    BY <2>1, <2>2, <2>3, CorteMenos
<1>3. CASE \E j \in Indices(copia[Contratista]) : Enterarse(i, j)
  <2>1. PICK j \in Indices(copia[Contratista]) : Enterarse(i, j)
    BY <1>3
  <2>2. /\ encierres' = [encierres EXCEPT ![Contratista] = ConTx(encierres[Contratista], j)]
        /\ UNCHANGED <<copia, vista, anunciadas, fondeos>>
    BY <2>1 DEF Enterarse, cadena, historia
  <2> QED
    BY <1>1, <2>2, EncierreTx, CorteMenos
<1>4. CASE Gastar(i) \/ \E j \in Indices(copia[Contratista]) : TomarTxid(i, j)
  <2>1. UNCHANGED <<copia, vista, anunciadas, fondeos, encierres>>
    BY <1>4 DEF Gastar, TomarTxid, cadena, historia
  <2> QED
    BY <2>1, CorteMenos
<1> QED
  BY <1>2, <1>3, <1>4 DEF PasoDeCadena

LEMMA CorteLimpiar ==
  ASSUME TypeOK, CorteInv, NEW n \in Partes, Limpiar(n)
  PROVE  CorteInv'
<1>1. \A m \in Partes : encierres'[m] \subseteq encierres[m]
  BY DEF Limpiar, TypeOK
<1>2. UNCHANGED <<copia, vista, anunciadas, fondeos>>
  BY DEF Limpiar, cadena, historia
<1> QED
  BY <1>1, <1>2, CorteMenos

LEMMA CortePedir ==
  ASSUME TypeOK, HiloInv, EncierreInv, CorteInv, NEW n \in Partes, NEW i, PedirFondeo(n, i)
  PROVE  CorteInv'
<1> DEFINE X == vista[n]
           m == Otro(n)
<1>1. /\ Abierta(X) /\ i \in Indices(X) /\ X.partidas[i].estado = Encerrando
      /\ X.partidas[i].encerrado_por # n
      /\ encierres' = [encierres EXCEPT ![n] = encierres[n] \cup {NuevoEncierre(X, i)}]
      /\ UNCHANGED <<copia, vista, anunciadas, fondeos>>
  BY DEF PedirFondeo, PuedeConfirmar, cadena, historia
<1>2. X \in anunciadas /\ Formada(X) /\ ConTrabas(X)
  BY CopiasTrabas
<1>3. i \in Nat /\ ~Falta(X, i)
  BY <1>1, <1>2, FormadaIndices DEF Falta
<1>4. TrabaDe(X, i).fase = 1 /\ TrabaDe(X, i).por = X.partidas[i].encerrado_por
  BY <1>1, Rangos DEF TrabaDe, Traba, Fase
<1>5. m \in Partes /\ m # n /\ (\A k \in Partes : k = n \/ k = m)
  BY PartesAssumption DEF Otro, Partes
<1>6. TrabaDe(X, i).por = m
  BY <1>1, <1>2, <1>3, <1>4, <1>5, TrabasBien DEF TrabaBien
<1>7. Propone(anunciadas, m, i)
  BY <1>2, <1>6 DEF Propone
<1>8. Muestra(vista[n], i) /\ Muestra(copia[n], i)
  BY <1>3, <1>4 DEF CorteInv, NoSuelta, Muestra
<1>9. Muestra(vista[m], i) /\ Muestra(copia[m], i)
  BY <1>3, <1>5, <1>7, CopiasTrabas DEF Conoce, Muestra
<1>10. ~Corto(n) /\ ~Corto(m)
  <2>1. ~Corto(m)
    BY <1>3, <1>7 DEF Corto
  <2>2. X.estado \in 0 .. 6
    BY <1>2, Rangos DEF Formada, TipoObra
  <2>3. ~(X.estado >= Abandonada)
    BY <1>1, <2>2, Rangos DEF Abierta, Terminales
  <2> QED
    BY <2>1, <2>3 DEF Corto
<1>11. EnFondeo' \subseteq EnFondeo \cup {i}
  <2> SUFFICES ASSUME NEW f \in fondeos' \cup encierres'[Mandante] \cup encierres'[Contratista]
               PROVE  f.partida \in EnFondeo \cup {i}
    BY DEF EnFondeo
  <2>1. NuevoEncierre(X, i).partida = i
    BY DEF NuevoEncierre
  <2>2. f \in fondeos \cup encierres[Mandante] \cup encierres[Contratista] \/ f = NuevoEncierre(X, i)
    BY <1>1 DEF TypeOK, Partes
  <2> QED
    BY <2>1, <2>2 DEF EnFondeo
<1> HIDE DEF X, m
<1> QED
  BY <1>1, <1>5, <1>8, <1>9, <1>10, <1>11, CorteCajas

LEMMA CorteAbrir ==
  ASSUME TypeOK, CorteInv, NEW n \in Partes, NEW i, AbrirFondeo(n, i)
  PROVE  CorteInv'
<1>1. /\ encierres' = [encierres EXCEPT ![n] = encierres[n] \cup {NuevoEncierre(copia[n], i)}]
      /\ UNCHANGED <<copia, vista, anunciadas, fondeos>>
  BY DEF AbrirFondeo, cadena, historia
<1>2. i \in EnFondeo
  <2>1. Otro(n) \in {Mandante, Contratista}
    BY DEF Otro
  <2> QED
    BY <2>1 DEF AbrirFondeo, Fondeando, EnFondeo
<1>3. EnFondeo' \subseteq EnFondeo
  <2> SUFFICES ASSUME NEW f \in fondeos' \cup encierres'[Mandante] \cup encierres'[Contratista]
               PROVE  f.partida \in EnFondeo
    BY DEF EnFondeo
  <2>1. NuevoEncierre(copia[n], i).partida = i
    BY DEF NuevoEncierre
  <2>2. f \in fondeos \cup encierres[Mandante] \cup encierres[Contratista] \/ f = NuevoEncierre(copia[n], i)
    BY <1>1 DEF TypeOK, Partes
  <2> QED
    BY <1>2, <2>1, <2>2 DEF EnFondeo
<1> QED
  BY <1>1, <1>3, CorteCajas

LEMMA CorteDeTrato ==
  ASSUME Escritorio = {}, Inv, HiloInv, EncierreInv, CorteInv, NEW n \in Partes, AccionDeTrato(n)
  PROVE  CorteInv'
<1> DEFINE X == vista[n]
<1>1. Formada(X) /\ Buena(X) /\ ConTrabas(X) /\ X \in anunciadas
  BY CopiasTrabas
<1>2. Propuesto(X)
  BY <1>1 DEF CorteInv
<1>3. CASE AccionConfirmarContra(n) \/ AccionRechazarContra(n)
  BY <1>3, CorteRespuesta
<1>4. CASE \E monto \in MontosExtra : AccionProponerExtra(n, monto)
  <2>1. PICK monto \in MontosExtra : AccionProponerExtra(n, monto)
    BY <1>4
  <2> DEFINE c == ProponerExtra(X, n, DetalleOferta, monto)
  <2>2. Deriva(n, X, c) /\ ConTrabas(c) /\ MismasTrabas(X, c)
    BY <1>1, DerivaDeTrato, TrabaDeTrato, ObraAssumption
  <2>3. Publicar(n, c) /\ SigueCorte(X, c)
    BY <1>1, <1>2, <2>1, CorteDeOtras DEF AccionProponerExtra
  <2> HIDE DEF c
  <2> QED
    BY <2>2, <2>3, CorteBoton
<1>5. CASE AccionAceptarExtra(n)
  <2> DEFINE c == AceptarExtra(X, n)
  <2>1. Deriva(n, X, c) /\ ConTrabas(c) /\ MismasTrabas(X, c)
    BY <1>1, <1>5, DerivaExtra, TrabaExtra DEF AccionAceptarExtra
  <2>2. Publicar(n, c) /\ SigueCorte(X, c)
    BY <1>1, <1>2, <1>5, CorteDeOtras DEF AccionAceptarExtra
  <2> HIDE DEF c
  <2> QED
    BY <2>1, <2>2, CorteBoton
<1>6. CASE AccionAbandonar(n) /\ ~HayRiesgo(X)
  BY <1>6, CorteSolo
<1>7. CASE \/ AccionRechazarExtra(n) \/ (AccionAbandonar(n) /\ HayRiesgo(X))
           \/ AccionAceptarCierre(n) \/ AccionRechazarCierre(n)
  <2>1. PICK c \in {RechazarExtra(X, n), Abandonar(X, n), AceptarCierre(X, n), RechazarCierre(X, n)} :
          Publicar(n, c) /\ SigueCorte(X, c)
    <3>1. CASE AccionRechazarExtra(n)
      BY <1>1, <1>2, <3>1, CorteDeOtras DEF AccionRechazarExtra
    <3>2. CASE AccionAbandonar(n) /\ HayRiesgo(X)
      BY <1>1, <1>2, <3>2, CorteDeCierre DEF AccionAbandonar
    <3>3. CASE AccionAceptarCierre(n)
      BY <1>1, <1>2, <3>3, CorteDeCierre DEF AccionAceptarCierre
    <3>4. CASE AccionRechazarCierre(n)
      BY <1>1, <1>2, <3>4, CorteDeCierre DEF AccionRechazarCierre
    <3> QED
      BY <1>7, <3>1, <3>2, <3>3, <3>4
  <2>2. Deriva(n, X, c) /\ ConTrabas(c) /\ MismasTrabas(X, c)
    BY <1>1, DerivaDeTrato, TrabaDeTrato
  <2> QED
    BY <2>1, <2>2, CorteBoton
<1> HIDE DEF X
<1> QED
  BY <1>3, <1>4, <1>5, <1>6, <1>7 DEF AccionDeTrato

LEMMA CorteIgual ==
  ASSUME CorteInv, UNCHANGED <<copia, vista, anunciadas, fondeos, encierres>>
  PROVE  CorteInv'
BY DEF CorteInv, Corto, EnFondeo

LEMMA CorteDePartida ==
  ASSUME Escritorio = {}, NadieCancelo',
         Inv, HiloInv, EncierreInv, CorteInv, NEW n \in Partes, NEW i, AccionDePartida(n, i)
  PROVE  CorteInv'
<1> DEFINE X == vista[n]
<1>1. Formada(X) /\ Buena(X) /\ ConTrabas(X) /\ X \in anunciadas /\ TypeOK
  BY CopiasTrabas DEF Inv
<1>2. Propuesto(X)
  BY <1>1 DEF CorteInv
<1>3. CASE \E precio \in Precios \cup {0} : AccionProponer(n, i, precio)
  <2>1. PICK precio \in Precios \cup {0} : AccionProponer(n, i, precio)
    BY <1>3
  <2>2. precio \in Nat
    BY PreciosAssumption
  <2>3. /\ Abierta(X) /\ PuedeProponer(X, i, n, precio)
        /\ Publicar(n, Proponer(X, i, n, precio))
    BY <2>1, Zenon DEF AccionProponer
  <2>4. i \in Indices(X)
    BY <2>3, Zenon DEF PuedeProponer
  <2>5. Publica(n, Proponer(X, i, n, precio))
    BY <2>3, BotonPublica
  <2> QED
    BY <1>1, <2>2, <2>3, <2>4, <2>5, CortePropuesta
<1>4. ~AccionCancelar(n, i)
  BY <1>1, NoCancela
<1>5. CASE \E pct \in Pcts : AccionAvisar(n, i, pct)
  <2>1. PICK pct \in Pcts : AccionAvisar(n, i, pct)
    BY <1>5
  <2> DEFINE c == AvisarTermino(X, i, n, pct)
  <2>2. Deriva(n, X, c) /\ ConTrabas(c) /\ MismasTrabas(X, c) /\ Publicar(n, c)
    BY <1>1, <2>1, DerivaAvisar, TrabaNota DEF AccionAvisar
  <2>3. SigueCorte(X, c)
    BY <1>1, <1>2, CorteDeOtras
  <2> HIDE DEF c
  <2> QED
    BY <2>2, <2>3, CorteBoton
<1>6. CASE \E pct \in Pcts : AccionContraPago(n, i, pct)
  <2>1. PICK pct \in Pcts : AccionContraPago(n, i, pct)
    BY <1>6
  <2> DEFINE c == ContraPago(X, i, n, pct)
  <2>2. Deriva(n, X, c) /\ ConTrabas(c) /\ MismasTrabas(X, c) /\ Publicar(n, c)
    BY <1>1, <2>1, DerivaContraPago, TrabaNota DEF AccionContraPago
  <2>3. SigueCorte(X, c)
    BY <1>1, <1>2, CorteDeOtras
  <2> HIDE DEF c
  <2> QED
    BY <2>2, <2>3, CorteBoton
<1>7. CASE \E texto \in Textos : AccionEditar(n, i, texto)
  <2>1. PICK texto \in Textos : AccionEditar(n, i, texto)
    BY <1>7
  <2> DEFINE c == EditarDetalle(X, i, n, texto)
  <2>2. Deriva(n, X, c) /\ ConTrabas(c) /\ MismasTrabas(X, c) /\ Publicar(n, c)
    BY <1>1, <2>1, DerivaEditar, TrabaEditar DEF AccionEditar
  <2>3. SigueCorte(X, c)
    BY <1>1, <1>2, CorteDeOtras
  <2> HIDE DEF c
  <2> QED
    BY <2>2, <2>3, CorteBoton
<1>8. CASE PedirFondeo(n, i)
  BY <1>1, <1>8, CortePedir
<1>9. CASE PedirGasto(n, i)
  BY <1>9, CorteIgual DEF PedirGasto, cadena, historia
<1> HIDE DEF X
<1> QED
  BY <1>3, <1>4, <1>5, <1>6, <1>7, <1>8, <1>9 DEF AccionDePartida

LEMMA CorteDeCaja ==
  ASSUME Inv, HiloInv, EncierreInv, CorteInv, NEW n \in Partes, NEW i, PasoDeCaja(n, i)
  PROVE  CorteInv'
<1>1. Formada(copia[n]) /\ Buena(copia[n]) /\ ConTrabas(copia[n]) /\ Propuesto(copia[n]) /\ TypeOK
  BY CopiasTrabas DEF Inv, CorteInv
<1>2. CASE AbrirFondeo(n, i)
  BY <1>1, <1>2, CorteAbrir
<1>3. CASE VerFondeo(n, i)
  <2>1. PuedeConfirmar(copia[n], i, n) /\ PublicarHecho(n, ConFondeo(Confirmar(copia[n], i, n), i))
    BY <1>3 DEF VerFondeo
  <2>2. Publica(n, ConFondeo(Confirmar(copia[n], i, n), i))
    BY <2>1, BotonPublica
  <2> QED
    BY <1>1, <2>1, <2>2, CorteConfirma
<1>4. CASE VerPago(n, i)
  <2> DEFINE c == ConPago(AceptarPago(copia[n], i, n), i)
  <2>1. PuedeAceptarPago(copia[n], i, n) /\ PublicarHecho(n, c)
    BY <1>4 DEF VerPago
  <2>2. Deriva(n, copia[n], c) /\ ConTrabas(c) /\ MismasTrabas(copia[n], c)
    BY <1>1, <2>1, DerivaAceptar, TrabaAceptar
  <2>3. Publica(n, c) /\ SigueCorte(copia[n], c)
    BY <1>1, <2>1, BotonPublica, CorteDeOtras
  <2> HIDE DEF c
  <2> QED
    BY <1>1, <2>2, <2>3, CorteMismas
<1>5. CASE AbrirGasto(n, i) \/ FallarGasto(n, i)
  BY <1>5, CorteIgual DEF AbrirGasto, FallarGasto, cadena, historia
<1> QED
  BY <1>2, <1>3, <1>4, <1>5 DEF PasoDeCaja

LEMMA CorteInicio ==
  Init => CorteInv
<1> SUFFICES ASSUME NEW g \in Garantias,
                    copia = [n \in Nodos |-> DesdeOferta(g)],
                    vista = [n \in Partes |-> DesdeOferta(g)],
                    anunciadas = {DesdeOferta(g)}, fondeos = {},
                    encierres = [n \in Partes |-> {}]
             PROVE  CorteInv
  BY DEF Init
<1> DEFINE o == DesdeOferta(g)
<1>1. o.cierre = Nadie /\ o.estado # Abandonada
  BY Rangos DEF DesdeOferta
<1>2. anunciadas = {o} /\ (\A n \in Nodos : copia[n] = o) /\ (\A n \in Partes : vista[n] = o)
  OBVIOUS
<1> HIDE DEF o
<1>3. Mandante \in Partes /\ Contratista \in Partes /\ Partes \subseteq Nodos
  BY TratoAssumption DEF Partes
<1>4. EnFondeo = {}
  BY <1>3 DEF EnFondeo
<1>5. \A n \in Partes : copia[n] = o /\ vista[n] = o
  BY <1>2, <1>3
<1> QED
  BY <1>1, <1>2, <1>4, <1>5, NoSueltaEsa DEF CorteInv, Propuesto, Sola

LEMMA CortePaso ==
  ASSUME Escritorio = {}, NadieCancelo', Inv, HiloInv, EncierreInv, CorteInv, [Next]_vars
  PROVE  CorteInv'
<1>0. TypeOK
  BY DEF Inv
<1>1. CASE \E n \in Partes : AccionDeTrato(n)
  BY <1>1, CorteDeTrato
<1>2. CASE \E n \in Partes : \E i \in Indices(vista[n]) : AccionDePartida(n, i)
  BY <1>2, CorteDePartida
<1>3. CASE \E n \in Partes : \E i \in Indices(copia[n]) : PasoDeCaja(n, i)
  BY <1>3, CorteDeCaja
<1>4. CASE \E i \in Indices(copia[Mandante]) : PasoDeCadena(i)
  BY <1>0, <1>4, CorteDeCadena
<1>5. CASE \E n \in Partes : Limpiar(n) \/ Leer(n)
  BY <1>0, <1>5, CorteLimpiar, CorteLeer
<1>6. CASE \E n \in Nodos : Recibir(n)
  BY <1>6, CorteRecibir
<1>7. CASE UNCHANGED vars
  BY <1>7, CorteIgual DEF vars, cadena, cajas, historia
<1> QED
  BY <1>1, <1>2, <1>3, <1>4, <1>5, <1>6, <1>7 DEF Next

(* However many closures were proposed and refused: who cuts the deal alone *)
(* does it before any stage was funded, while no box works on a funding     *)
(* (abandonar without hay_riesgo on the copy that was read), on the phone,  *)
(* until a proposal is cancelled or a box is given the transaction of       *)
(* another stage.                                                           *)
THEOREM NadieCortaConFondos ==
  ASSUME Escritorio = {}
  PROVE  Spec => CorteConsentido
<1> DEFINE J == NadieCancelo /\ ajenos = {} => EncierreInv /\ CorteInv
<1>1. Init => J
  BY EncierreInicio, CorteInicio
<1>2. Inv /\ HiloInv /\ J /\ [Next]_vars => J'
  BY NadaSeBorra, EncierrePaso, CortePaso
<1>3. ASSUME Inv, HiloInv, J, NEW n \in Partes, CortaSolo(n)
      PROVE  EnFondeo = {} \/ ~NadieCancelo \/ ajenos # {}
  <2>1. TypeOK /\ Abierta(vista[n]) /\ AccionAbandonar(n) /\ ~HayRiesgo(vista[n])
    BY <1>3 DEF Inv, CortaSolo, AccionAbandonar, PuedeAbandonar, Abierta
  <2> QED
    BY <1>3, <2>1, SinFondos
<1>4. Inv /\ HiloInv /\ J /\ [Next]_vars =>
        [\A n \in Partes : CortaSolo(n) => EnFondeo = {} \/ ~NadieCancelo \/ ajenos # {}]_vars
  BY <1>3
<1> QED
  BY <1>1, <1>2, <1>4, Invariante, UnSoloHilo, PTL DEF Spec, CorteConsentido

=============================================================================
