-------------------------------- MODULE Trato --------------------------------
(***************************************************************************)
(* A deal between the two people, replicated by gossip.  Every node keeps  *)
(* a copy; the two people operate on theirs; whole copies travel and are   *)
(* merged.  Sources: crates/konstruado-core/src/acuerdo.rs (operations and *)
(* merge), crates/konstruado-net/src/dht.rs (publicar_obra, gossip,        *)
(* merge_store), crates/konstruado-motor/src/caja.rs (which buttons are    *)
(* offered, what a transaction seen on the chain does to the deal),        *)
(* crates/konstruado/src/main.rs and crates/konstruado-ffi/src/lib.rs (on  *)
(* which copy a button acts).                                              *)
(*                                                                         *)
(* An operation starts from vista[n], the copy its program read, and       *)
(* replaces copia[n] by the result: a merge that arrived in between is     *)
(* overwritten.  On the phone the copy is read as the operation starts; on *)
(* the desktop (Escritorio) it is the one painted on the screen, which a   *)
(* loop refreshes once a second and an operation does not.  The same loop  *)
(* applies what was seen on the chain and refreshes the screen at once.    *)
(*                                                                         *)
(* anunciadas holds every copy any node ever had: each of them may be in   *)
(* flight, late, duplicated, or in the mailbox of a relay.                 *)
(*                                                                         *)
(* The chain is the set of funding and the set of payment transactions;    *)
(* each stage is spent once at most.  The box (motor) of each person keeps *)
(* the fundings and the payments it is working on.  The messages that      *)
(* build and sign a transaction are left out: the principal, who signs     *)
(* last, broadcasts when both boxes are at it.  A session for a payment    *)
(* may fail at any moment, before the broadcast or after it.               *)
(*                                                                         *)
(* Two variables keep a history that no action reads: the stages a box     *)
(* gave the transaction of another stage to, and those whose payment       *)
(* failed.  The properties that such a mishap breaks hold until it.        *)
(***************************************************************************)
EXTENDS Obra

CONSTANTS
  Nodos,       \* every node that stores the deal: the two people and relays
  Escritorio,  \* the people who use the desktop program
  Fallan,      \* the people whose box may fail in the middle of a payment
  MaxSeq,      \* bound: a lock is proposed below this sequence number
  MaxNotas,    \* bound: length of the thread of a stage
  MaxExtra,    \* bound: an extra is proposed below this sequence number
  MaxCierre    \* bound: the deal is cut below this sequence number

ASSUME TratoAssumption ==
  /\ Partes \subseteq Nodos
  /\ Escritorio \subseteq Partes /\ Fallan \subseteq Partes
  /\ MaxSeq \in Nat /\ MaxNotas \in Nat /\ MaxExtra \in Nat /\ MaxCierre \in Nat

VARIABLES
  copia,      \* the copy each node stores
  vista,      \* the copy each person's program read last
  anunciadas, \* the copies that were ever announced
  fondeos,    \* the funding transactions on the chain
  pagos,      \* the payment transactions on the chain
  encierres,  \* the fundings each person's box works on
  gastos,     \* the payments each person's box works on
  ajenos,     \* history: the stages given the transaction of another one
  fallidas    \* history: the stages whose payment failed some time

cadena == <<fondeos, pagos>>
cajas == <<encierres, gastos>>
historia == <<ajenos, fallidas>>
vars == <<copia, vista, anunciadas, cadena, cajas, historia>>

Fondeo   == [partida : Nat \ {0}, precio : Nat]
Pago     == [partida : Nat \ {0}, porcentaje : 0 .. 100]
Encierre == [partida : Nat \ {0}, precio : Nat, txid : BOOLEAN]
Gasto    == [partida : Nat \ {0}, porcentaje : 0 .. 100, error : BOOLEAN, txid : BOOLEAN]

TypeOK ==
  /\ copia \in [Nodos -> TipoObra]
  /\ vista \in [Partes -> TipoObra]
  /\ anunciadas \subseteq TipoObra
  /\ \A o \in anunciadas : Len(o.partidas) = o.n_partidas
  /\ fondeos \subseteq Fondeo
  /\ pagos \subseteq Pago
  /\ encierres \in [Partes -> SUBSET Encierre]
  /\ gastos \in [Partes -> SUBSET Gasto]
  /\ ajenos \subseteq Nat \ {0}
  /\ fallidas \subseteq Nat \ {0}

-----------------------------------------------------------------------------
(* The contractor accepts the offer and the first copy reaches everyone.   *)
Init ==
  \E g \in Garantias :
    /\ copia = [n \in Nodos |-> DesdeOferta(g)]
    /\ vista = [n \in Partes |-> DesdeOferta(g)]
    /\ anunciadas = {DesdeOferta(g)}
    /\ fondeos = {}
    /\ pagos = {}
    /\ encierres = [n \in Partes |-> {}]
    /\ gastos = [n \in Partes |-> {}]
    /\ ajenos = {}
    /\ fallidas = {}

(* publicar_obra: the copy replaces the stored one, and is announced.      *)
Guardar(n, o) ==
  /\ copia' = [copia EXCEPT ![n] = o]
  /\ anunciadas' = anunciadas \cup {o}
  /\ UNCHANGED <<cadena, cajas, historia>>

(* publicar_trato, by a button: the screen of the desktop does not change. *)
Publicar(n, o) ==
  /\ Guardar(n, o)
  /\ vista' = IF n \in Escritorio THEN vista ELSE [vista EXCEPT ![n] = o]

(* aplicar_hechos_monero, by the loop.                                     *)
PublicarHecho(n, o) ==
  /\ Guardar(n, o)
  /\ vista' = [vista EXCEPT ![n] = o]

Abierta(o) == o.estado \notin Terminales

(* The box of n works on the funding; it knows its transaction.            *)
Fondeando(n, i) == \E f \in encierres[n] : f.partida = i
FondeoEnRed(n, i) == \E f \in encierres[n] : f.partida = i /\ f.txid

(* The box of n is signing a payment or waits for its block (texto_gasto). *)
Pagando(n, i) == \E g \in gastos[n] : g.partida = i /\ ~g.error

-----------------------------------------------------------------------------
AccionConfirmarContra(n) ==
  /\ vista[n].estado = Contra
  /\ PuedeConfirmarContra(vista[n], n)
  /\ Publicar(n, ConfirmarContra(vista[n], n))

AccionRechazarContra(n) ==
  /\ vista[n].estado = Contra
  /\ PuedeRechazarContra(vista[n], n)
  /\ Publicar(n, RechazarContra(vista[n], n))

AccionProponer(n, i, precio) ==
  /\ Abierta(vista[n]) /\ vista[n].estado # Contra
  /\ EsActiva(vista[n], i)
  /\ PuedeProponer(vista[n], i, n, precio)
  /\ vista[n].partidas[i].encerrar_seq < MaxSeq
  /\ Publicar(n, Proponer(vista[n], i, n, precio))

(* "Cancel" for the one who proposed, "do not lock" for the other; neither *)
(* is offered once the box of n knows of a transaction.                    *)
AccionCancelar(n, i) ==
  /\ Abierta(vista[n])
  /\ ~FondeoEnRed(n, i)
  /\ PuedeCancelar(vista[n], i, n)
  /\ vista[n].partidas[i].encerrar_seq < MaxSeq
  /\ Publicar(n, Cancelar(vista[n], i, n))

AccionAvisar(n, i, pct) ==
  /\ Abierta(vista[n])
  /\ PuedeAvisar(vista[n], i, n, pct)
  /\ Publicar(n, AvisarTermino(vista[n], i, n, pct))

(* Mutant: the counter-offer stays on offer while the payment is signed.   *)
AccionContraPagoSiempre(n, i, pct) ==
  /\ Abierta(vista[n])
  /\ PuedeContraPago(vista[n], i, n, pct)
  /\ Len(vista[n].partidas[i].notas) < MaxNotas
  /\ Publicar(n, ContraPago(vista[n], i, n, pct))

AccionContraPago(n, i, pct) ==
  /\ Abierta(vista[n])
  /\ PuedeContraPago(vista[n], i, n, pct)
  /\ ~Pagando(n, i)
  /\ Len(vista[n].partidas[i].notas) < MaxNotas
  /\ Publicar(n, ContraPago(vista[n], i, n, pct))

AccionEditar(n, i, texto) ==
  /\ PuedeEditar(vista[n], i, n)
  /\ Publicar(n, EditarDetalle(vista[n], i, n, texto))

AccionProponerExtra(n, monto) ==
  /\ PuedeProponerExtra(vista[n], n)
  /\ vista[n].extra_seq < MaxExtra
  /\ Publicar(n, ProponerExtra(vista[n], n, DetalleOferta, monto))

AccionAceptarExtra(n) ==
  /\ PuedeResponderExtra(vista[n], n)
  /\ Publicar(n, AceptarExtra(vista[n], n))

AccionRechazarExtra(n) ==
  /\ PuedeResponderExtra(vista[n], n)
  /\ Publicar(n, RechazarExtra(vista[n], n))

AccionAbandonar(n) ==
  /\ PuedeAbandonar(vista[n], n)
  /\ vista[n].cierre = Nadie
  /\ vista[n].cierre_seq < MaxCierre
  /\ Publicar(n, Abandonar(vista[n], n))

AccionAceptarCierre(n) ==
  /\ PuedeResponderCierre(vista[n], n)
  /\ Publicar(n, AceptarCierre(vista[n], n))

AccionRechazarCierre(n) ==
  /\ PuedeResponderCierre(vista[n], n)
  /\ Publicar(n, RechazarCierre(vista[n], n))

-----------------------------------------------------------------------------
(* The funding of a stage.                                                 *)

Encerrandose(o, i) == i \in Indices(o) /\ o.partidas[i].estado = Encerrando

NuevoEncierre(o, i) ==
  [partida |-> i, precio |-> o.partidas[i].precio, txid |-> FALSE]

(* "Confirm and fund", offered to the one who did not propose: the amount  *)
(* is the one on the screen.                                               *)
PedirFondeo(n, i) ==
  /\ Abierta(vista[n])
  /\ PuedeConfirmar(vista[n], i, n)
  /\ ~Fondeando(n, i)
  /\ encierres' = [encierres EXCEPT ![n] = @ \cup {NuevoEncierre(vista[n], i)}]
  /\ UNCHANGED <<copia, vista, anunciadas, cadena, gastos, historia>>

(* abrir_fondeo_red: fund-pedir reaches the other, whose box takes the     *)
(* amount of its own copy and asks nobody.                                 *)
AbrirFondeo(n, i) ==
  /\ Fondeando(Otro(n), i)
  /\ ~Fondeando(n, i)
  /\ Encerrandose(copia[n], i)
  /\ encierres' = [encierres EXCEPT ![n] = @ \cup {NuevoEncierre(copia[n], i)}]
  /\ UNCHANGED <<copia, vista, anunciadas, cadena, gastos, historia>>

ConTx(fs, i) == {[f EXCEPT !.txid = @ \/ f.partida = i] : f \in fs}

(* The principal signs last and broadcasts; a different amount is rejected *)
(* by the check of the destination.  Each tick first drops what moved on.  *)
Fondear(i) ==
  /\ \A n \in Partes : Encerrandose(copia[n], i)
  /\ ~FondeoEnRed(Mandante, i)
  /\ \E f \in encierres[Mandante], g \in encierres[Contratista] :
       /\ f.partida = i /\ g.partida = i /\ f.precio = g.precio
       /\ fondeos' = fondeos \cup {[partida |-> i, precio |-> f.precio]}
  /\ encierres' = [encierres EXCEPT ![Mandante] = ConTx(@, i)]
  /\ UNCHANGED <<copia, vista, anunciadas, pagos, gastos, historia>>

(* fund-tx reaches the contractor, if it ever does.  It names the deal and *)
(* not the stage: the box gives the transaction of stage i to the funding  *)
(* j it finds, which is that of i unless the message is late.              *)
Enterarse(i, j) ==
  /\ \E f \in fondeos : f.partida = i
  /\ Fondeando(Contratista, j)
  /\ encierres' = [encierres EXCEPT ![Contratista] = ConTx(@, j)]
  /\ ajenos' = ajenos \cup ({j} \ {i})
  /\ UNCHANGED <<copia, vista, anunciadas, cadena, gastos, fallidas>>

(* aplicar_hechos_monero: the box saw the transaction in a block.  The     *)
(* copy is read again for it.  The one who did not propose confirms.       *)
VerFondeo(n, i) ==
  /\ FondeoEnRed(n, i)
  /\ PuedeConfirmar(copia[n], i, n)
  /\ PublicarHecho(n, ConFondeo(Confirmar(copia[n], i, n), i))

-----------------------------------------------------------------------------
(* The payment of a stage.  A box keeps one entry for each stage.          *)

Poner(gs, g) == {h \in gs : h.partida # g.partida} \cup {g}

NuevoGasto(o, i) ==
  [partida |-> i, porcentaje |-> o.partidas[i].propuesto, error |-> FALSE, txid |-> FALSE]

(* "Accept and pay": the percentage is the one on the screen.  An entry    *)
(* that failed is replaced, with the transaction it may have known.        *)
PedirGasto(n, i) ==
  /\ Abierta(vista[n])
  /\ PuedeAceptarPago(vista[n], i, n)
  /\ ~Pagando(n, i)
  /\ gastos' = [gastos EXCEPT ![n] = Poner(@, NuevoGasto(vista[n], i))]
  /\ UNCHANGED <<copia, vista, anunciadas, cadena, encierres, historia>>

(* abrir_gasto_red: spend-pedir reaches the other, who takes the           *)
(* percentage of its own copy.                                             *)
AbrirGasto(n, i) ==
  /\ Pagando(Otro(n), i)
  /\ \A g \in gastos[n] : g.partida # i
  /\ i \in Indices(copia[n])
  /\ copia[n].partidas[i].estado = EnTrato
  /\ copia[n].partidas[i].propuesto # 0
  /\ gastos' = [gastos EXCEPT ![n] = @ \cup {NuevoGasto(copia[n], i)}]
  /\ UNCHANGED <<copia, vista, anunciadas, cadena, encierres, historia>>

ConTxid(gs, i) ==
  {IF g.partida = i THEN [g EXCEPT !.txid = TRUE, !.error = FALSE] ELSE g : g \in gs}

(* The box of the principal proposes the split and broadcasts it; that of  *)
(* the contractor signs what it is given.  The outputs are spent once.     *)
Gastar(i) ==
  /\ i \in Indices(copia[Mandante]) /\ copia[Mandante].partidas[i].estado = EnTrato
  /\ \A n \in Partes : Pagando(n, i)
  /\ \A t \in pagos : t.partida # i
  /\ \E g \in gastos[Mandante] :
       /\ g.partida = i
       /\ pagos' = pagos \cup {[partida |-> i, porcentaje |-> g.porcentaje]}
  /\ gastos' = [gastos EXCEPT ![Mandante] = ConTxid(@, i)]
  /\ UNCHANGED <<copia, vista, anunciadas, fondeos, encierres, historia>>

(* spend-tx reaches the contractor, if it ever does, like fund-tx.         *)
TomarTxid(i, j) ==
  /\ \E t \in pagos : t.partida = i
  /\ \E g \in gastos[Contratista] : g.partida = j
  /\ gastos' = [gastos EXCEPT ![Contratista] = ConTxid(@, j)]
  /\ ajenos' = ajenos \cup ({j} \ {i})
  /\ UNCHANGED <<copia, vista, anunciadas, cadena, encierres, fallidas>>

ConError(gs, i) ==
  IF \E g \in gs : g.partida = i
  THEN {[g EXCEPT !.error = @ \/ g.partida = i] : g \in gs}
  ELSE gs \cup {[partida |-> i, porcentaje |-> 0, error |-> TRUE, txid |-> FALSE]}

(* fallar, fallo_par: a step of the payment fails, looking for the         *)
(* transaction included; spend-error may reach the other box.              *)
FallarGasto(n, i) ==
  /\ n \in Fallan
  /\ Pagando(n, i)
  /\ \E avisados \in {{n}, Partes} :
       gastos' = [m \in Partes |->
                    IF m \in avisados THEN ConError(gastos[m], i) ELSE gastos[m]]
  /\ fallidas' = fallidas \cup {i}
  /\ UNCHANGED <<copia, vista, anunciadas, cadena, encierres, ajenos>>

(* Mutant: the payment is accepted as soon as it is asked for.             *)
VerPagoPedido(n, i) ==
  /\ \E g \in gastos[n] : g.partida = i
  /\ PuedeAceptarPago(copia[n], i, n)
  /\ PublicarHecho(n, ConPago(AceptarPago(copia[n], i, n), i))

(* aplicar_hechos_monero: the one whose turn it is accepts the percentage  *)
(* of the copy once its box saw the transaction.                           *)
VerPago(n, i) ==
  /\ \E g \in gastos[n] : g.partida = i /\ g.txid
  /\ PuedeAceptarPago(copia[n], i, n)
  /\ PublicarHecho(n, ConPago(AceptarPago(copia[n], i, n), i))

(* Mutant: the box forgets its work one state too early.                   *)
LimpiarAntes(n) ==
  /\ encierres' = [encierres EXCEPT ![n] =
       {f \in @ : f.partida \in Indices(copia[n])
                    => copia[n].partidas[f.partida].estado = Encerrada}]
  /\ gastos' = [gastos EXCEPT ![n] =
       {g \in @ : g.partida \in Indices(copia[n])
                    => copia[n].partidas[g.partida].estado = Pagada}]
  /\ UNCHANGED <<copia, vista, anunciadas, cadena, historia>>

(* limpiar_resueltos: the box forgets the work whose stage moved on.       *)
Limpiar(n) ==
  /\ encierres' = [encierres EXCEPT ![n] =
       {f \in @ : f.partida \in Indices(copia[n])
                    => copia[n].partidas[f.partida].estado = Encerrando}]
  /\ gastos' = [gastos EXCEPT ![n] =
       {g \in @ : g.partida \in Indices(copia[n])
                    => copia[n].partidas[g.partida].estado = EnTrato}]
  /\ UNCHANGED <<copia, vista, anunciadas, cadena, historia>>

-----------------------------------------------------------------------------
(* The program of n reads its copy: the loop of the desktop, or the start  *)
(* of an operation.                                                        *)
Leer(n) ==
  /\ vista' = [vista EXCEPT ![n] = copia[n]]
  /\ UNCHANGED <<copia, anunciadas, cadena, cajas, historia>>

(* A copy arrives and is merged; the result is what n announces from now.  *)
Fusion(n, o) ==
  /\ copia' = [copia EXCEPT ![n] = FusionarObra(@, o)]
  /\ anunciadas' = anunciadas \cup {copia'[n]}
  /\ UNCHANGED <<vista, cadena, cajas, historia>>

Recibir(n) == \E o \in anunciadas : Fusion(n, o)

AccionDeTrato(n) ==
  \/ AccionConfirmarContra(n)
  \/ AccionRechazarContra(n)
  \/ \E monto \in MontosExtra : AccionProponerExtra(n, monto)
  \/ AccionAceptarExtra(n)
  \/ AccionRechazarExtra(n)
  \/ AccionAbandonar(n)
  \/ AccionAceptarCierre(n)
  \/ AccionRechazarCierre(n)

AccionDePartida(n, i) ==
  \/ \E precio \in Precios \cup {0} : AccionProponer(n, i, precio)
  \/ AccionCancelar(n, i)
  \/ \E pct \in Pcts : AccionAvisar(n, i, pct)
  \/ \E pct \in Pcts : AccionContraPago(n, i, pct)
  \/ \E texto \in Textos : AccionEditar(n, i, texto)
  \/ PedirFondeo(n, i)
  \/ PedirGasto(n, i)

PasoDeCaja(n, i) ==
  \/ AbrirFondeo(n, i)
  \/ VerFondeo(n, i)
  \/ AbrirGasto(n, i)
  \/ FallarGasto(n, i)
  \/ VerPago(n, i)

PasoDeCadena(i) ==
  \/ Fondear(i)
  \/ Gastar(i)
  \/ \E j \in Indices(copia[Contratista]) : Enterarse(i, j) \/ TomarTxid(i, j)

Next ==
  \/ \E n \in Partes : AccionDeTrato(n)
  \/ \E n \in Partes : \E i \in Indices(vista[n]) : AccionDePartida(n, i)
  \/ \E n \in Partes : \E i \in Indices(copia[n]) : PasoDeCaja(n, i)
  \/ \E i \in Indices(copia[Mandante]) : PasoDeCadena(i)
  \/ \E n \in Partes : Limpiar(n) \/ Leer(n)
  \/ \E n \in Nodos : Recibir(n)

Spec == Init /\ [][Next]_vars

-----------------------------------------------------------------------------
(* Fairness.  Each node announces its copy every few seconds and every     *)
(* copy that arrives is merged (gossip, merge_store); the loop of each     *)
(* program keeps looking for the transactions its box knows (tick).  What  *)
(* the people do is never fair, and neither is a message of the box.       *)
Etapas == 1 .. TrabajoOferta + MaxExtra

Gossip == \A n \in Partes :
            \/ []<>(FusionarObra(copia[n], copia[Otro(n)]) = copia[n])
            \/ []<><<Fusion(n, copia[Otro(n)])>>_vars

Bucle == \A n \in Partes :
           WF_vars(\E i \in Indices(copia[n]) : VerFondeo(n, i) \/ VerPago(n, i))

SpecViva == Spec /\ Gossip /\ Bucle

-----------------------------------------------------------------------------
(* The stages two copies have in common.                                   *)
Comunes(a, b) == Indices(a) \cap Indices(b)

(* Nobody cancelled a proposed lock: a cancelled stage is pending and its  *)
(* number says that it was proposed.                                       *)
NadieCancelo ==
  \A o \in anunciadas : \A i \in Indices(o) :
    o.partidas[i].estado = Pendiente => o.partidas[i].encerrar_seq = 0

(* The stages that a box is funding, or that have been funded.             *)
EnFondeo == {f.partida : f \in fondeos \cup encierres[Mandante] \cup encierres[Contratista]}

(* n cuts the deal alone.                                                  *)
CortaSolo(n) == AccionAbandonar(n) /\ ~HayRiesgo(vista[n])

(* A copy that shows a stage as locked was preceded by a funding           *)
(* transaction of that stage, whatever was cancelled, proposed again,      *)
(* delayed or overwritten, unless its box was given the transaction of     *)
(* another stage, which fund-tx does not tell apart (caja.rs hechos,       *)
(* tomar_txid, aplicar_hechos_monero).                                     *)
EncerradaConFondeo ==
  \A o \in anunciadas : \A i \in Indices(o) :
    o.partidas[i].estado >= Encerrada => (\E f \in fondeos : f.partida = i) \/ i \in ajenos

(* A copy that shows a stage as paid was preceded by a payment of that     *)
(* stage, with the same exception (hechos, tomar_txid, aceptar_pago).      *)
PagadaConGasto ==
  \A o \in anunciadas : \A i \in Indices(o) :
    o.partidas[i].estado = Pagada => (\E t \in pagos : t.partida = i) \/ i \in ajenos

(* The two people never hold receipts for different percentages of a       *)
(* stage: counter-offers, acceptances and merges may cross in any order    *)
(* (contra_pago, aceptar_pago, Partida::fusionar).                         *)
PagoAcordado ==
  \A a, b \in anunciadas : \A i \in Comunes(a, b) :
    LET p == a.partidas[i]
        q == b.partidas[i]
    IN (p.estado = Pagada /\ q.estado = Pagada) => (p.pago = q.pago /\ p.recibo = q.recibo)

(* The percentage of a paid stage is the one its transaction split, the    *)
(* one the box of the principal took when it began to sign (armar_gasto),  *)
(* as long as no attempt to pay it failed and its box was not given the    *)
(* transaction of another stage: after a failure the counter-offer is      *)
(* offered again (texto_gasto), and the payment may be out.                *)
GastoCuadra ==
  \A o \in anunciadas : \A i \in Indices(o) :
    o.partidas[i].estado = Pagada /\ i \notin ajenos \cup fallidas
      => [partida |-> i, porcentaje |-> o.partidas[i].pago] \in pagos

(* The receipt of a paid stage belongs to its last note: same percentage,  *)
(* its amount of the stage's capital, signed by the one who did not write  *)
(* the note; merging never mixes the receipt of one copy with the thread   *)
(* of another (PasoAvance and PasoIgual copy them field by field).         *)
ReciboCoherente ==
  \A o \in anunciadas : \A i \in Indices(o) :
    LET p == o.partidas[i]
        ultima == p.notas[Len(p.notas)]
    IN p.estado = Pagada =>
         /\ p.turno = Nadie
         /\ p.notas # << >>
         /\ p.pago = ultima.porcentaje
         /\ p.recibo = [porcentaje |-> p.pago,
                        monto       |-> MontoPct(Capital(p, o.garantia), p.pago),
                        acepto      |-> Otro(ultima.autor)]

(* The price of a locked stage is the price its transaction paid, also     *)
(* when both proposed a price at the same time (piconero_partida, the      *)
(* tie-break of Partida::fusionar), until a proposal is cancelled: one     *)
(* more at another price may then lock what was funded at the first; and   *)
(* until a box is given the transaction of another stage.                  *)
FondeoCuadra ==
  NadieCancelo /\ ajenos = {} =>
  \A o \in anunciadas : \A i \in Indices(o) :
    o.partidas[i].estado >= Encerrada
      => [partida |-> i, precio |-> o.partidas[i].precio] \in fondeos

(* Whatever copy arrives next, a stage being agreed on stays at least      *)
(* there, and what was paid for it does not change (Partida::fusionar).    *)
NoVuelveDelTrato ==
  \A n \in Nodos : \A o \in anunciadas :
    LET c == FusionarObra(copia[n], o) IN
    \A i \in Comunes(copia[n], c) :
      LET p == copia[n].partidas[i]
          q == c.partidas[i]
      IN p.estado >= EnTrato => /\ q.estado >= p.estado
                               /\ (p.estado = Pagada => q.pago = p.pago)

(* Merging two copies gives both nodes the same deal, whoever merges       *)
(* whose: what the two converge to does not depend on the order in which   *)
(* the announcements arrive (Obra::fusionar, the tie-break of a crossed    *)
(* proposal, the thread of notes), until a proposal is cancelled.          *)
Conmuta ==
  NadieCancelo =>
  \A a, b \in anunciadas :
    LET x == FusionarObra(a, b)
        y == FusionarObra(b, a)
    IN /\ x.estado = y.estado
       /\ x.n_partidas = y.n_partidas
       /\ x.partidas = y.partidas

(* Who cuts the deal alone does it before any stage was funded, and while  *)
(* no box works on a funding, however many closures were proposed and      *)
(* refused (abandonar without hay_riesgo on the copy that was read), until *)
(* a proposal is cancelled or a box is given the transaction of another    *)
(* stage.                                                                  *)
CorteConsentido ==
  [][\A n \in Partes : CortaSolo(n) => EnFondeo = {} \/ ~NadieCancelo \/ ajenos # {}]_vars

(* "If nothing is locked, abandon is one-sided.  If funds are at risk,     *)
(* closing needs both" (HELP.md): while the funds of a stage are in the    *)
(* box and not paid, the deal is cut by both: one proposes the closure     *)
(* (cierre_seq 1), the other accepts it (2).                               *)
FondosConsentidos ==
  \A n \in Partes :
    (/\ copia[n].estado = Abandonada
     /\ \E f \in fondeos : \A t \in pagos : t.partida # f.partida)
    => copia[n].cierre_seq >= 2

-----------------------------------------------------------------------------
(* A funding that the box of who must confirm knows, fund-tx included,     *)
(* ends with the stage locked in the copies of both (aplicar_hechos_monero *)
(* by the loop, then the gossip), unless a proposal is cancelled.          *)
EncierreTermina ==
  \A n \in Partes, i \in Etapas :
    (FondeoEnRed(n, i) /\ PuedeConfirmar(copia[n], i, n))
      ~> \/ \A m \in Partes : i \in Indices(copia[m]) /\ copia[m].partidas[i].estado >= Encerrada
         \/ ~NadieCancelo

(* When the people stop, both end with the same state and the same stages, *)
(* unless a proposal is cancelled: one that was cancelled and one that was *)
(* confirmed may have the same number, and neither then takes the other.   *)
Convergen ==
  \/ <>[](/\ copia[Mandante].estado = copia[Contratista].estado
          /\ copia[Mandante].partidas = copia[Contratista].partidas)
  \/ <>~NadieCancelo

=============================================================================
