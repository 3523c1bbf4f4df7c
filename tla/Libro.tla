------------------------------- MODULE Libro -------------------------------
(***************************************************************************)
(* The ledgers of one program: the outputs of the personal wallet (Libro)  *)
(* and of one joint box (LibroCaja), filled by scanning the chain a few    *)
(* blocks at a time, forwards from the newest block and backwards on       *)
(* demand (crates/konstruado-motor/src/caja.rs).                           *)
(*                                                                         *)
(* One background job runs at a time (`ocupado`); its result waits in      *)
(* `celda` until the next tick takes it.  Meanwhile the chain grows, the   *)
(* same seed spends elsewhere, and the program may be killed.  An output   *)
(* is a model value with its height; amounts, addresses and fees are left  *)
(* out.  Timers (pauses, 20 s, 60 s) are nondeterminism and fairness.      *)
(***************************************************************************)
EXTENDS Integers, FiniteSets

CONSTANTS
  MisSalidas,     \* outputs of the personal wallet, on the chain sooner or later
  SalidasCaja,    \* outputs of the box
  Altura,         \* the block of every output
  MinTip, MaxTip, \* the newest block at the start and at the end: a bound
  AlturasSemilla, \* the heights a seed file may carry
  LOOKBACK, PASO_SCAN, PASO_ATRAS, MAX_HISTORIA, DESBLOQUEO,
  MaxPedidos,     \* bound on requests of the user (refresh, older blocks, sends)
  MaxGastos,      \* bound on outputs spent from outside
  MaxMalas,       \* bound on failed jobs, lost answers and kills of the program
  Nada            \* "no job", "no result", "no known tip"

Salidas == MisSalidas \cup SalidasCaja

ASSUME LibroAssumption ==
  /\ Altura \in [Salidas -> 1..MaxTip] /\ MisSalidas \cap SalidasCaja = {}
  /\ AlturasSemilla \subseteq Nat /\ IsFiniteSet(SalidasCaja)
  /\ {MinTip, MaxTip, LOOKBACK, PASO_ATRAS, MAX_HISTORIA, DESBLOQUEO} \subseteq Nat
  /\ PASO_SCAN \in Nat \ {0} /\ MinTip <= MaxTip /\ Nada \notin Nat

VARIABLES
  punta, cadena,            \* the chain: its newest block, the spent outputs
  semilla, libro, caja,     \* memory: is there a wallet, both ledgers
  tip, forzar, pedido,      \* the last tip heard of, refresh asked, send asked
  ocupado, celda,           \* the job that runs, its result
  disco,                    \* what libro.json and the box's file hold
  usos,                     \* what was used of each bound
  oido                      \* history: the newest block heard of since the start

chain == <<punta, cadena>>
sabido == <<tip, oido>>
vars == <<punta, cadena, semilla, libro, caja, sabido, forzar, pedido, ocupado, celda, disco, usos>>

Menos(a, b) == IF a > b THEN a - b ELSE 0          \* saturating_sub
Menor(a, b) == IF a < b THEN a ELSE b
Mayor(a, b) == IF a > b THEN a ELSE b

Usa(que, max) == usos[que] < max /\ usos' = [usos EXCEPT ![que] = @ + 1]

----------------------------------------------------------------------------
(* Ledgers.  `retro` is what is still to be looked at below `desde`.       *)

Nuevo == [desde |-> 0, hasta |-> 0, listo |-> FALSE, retro |-> 0,
          entradas |-> {}, gastadas |-> {}]

DesdeAltura(h) == [Nuevo EXCEPT !.desde = h, !.hasta = Menos(h, 1), !.listo = TRUE]

\* Mutant: the spent outputs are not left out.
FundirTodas(l, nuevas) == [l EXCEPT !.entradas = @ \cup nuevas]

Fundir(l, nuevas) == [l EXCEPT !.entradas = @ \cup (nuevas \ l.gastadas)]

\* fundir_caja: a box has no list of spent outputs.
FundirCaja(l, nuevas) == [l EXCEPT !.entradas = @ \cup nuevas]

\* Mutant: an output found spent stays listed until the next start.
MarcarSinQuitar(l, usadas) == [l EXCEPT !.gastadas = @ \cup usadas]

MarcarGastadas(l, usadas) == [l EXCEPT !.entradas = @ \ usadas, !.gastadas = @ \cup usadas]

\* The next chunk of blocks of a ledger that has looked at something.
Adelante(l) == [desde |-> l.hasta + 1, hasta |-> Menor(l.hasta + PASO_SCAN, tip), retro |-> FALSE]
Atras(l) == LET n == Menor(Menor(l.retro, PASO_SCAN), l.desde)
            IN  [desde |-> l.desde - n, hasta |-> l.desde - 1, retro |-> TRUE]

Avanzo(l, r) == IF r.retro
                THEN [l EXCEPT !.desde = r.desde, !.retro = Menos(@, r.hasta - r.desde + 1)]
                ELSE [l EXCEPT !.hasta = r.hasta]

\* Chunks of the box: the first look takes the whole lookback at once.
SiguienteTrozo(l) ==
  IF ~l.listo THEN {[desde |-> Menos(tip, LOOKBACK), hasta |-> tip, retro |-> FALSE]}
  ELSE IF l.hasta < tip THEN {Adelante(l)}
  ELSE IF l.retro > 0 /\ l.desde > 0 THEN {Atras(l)} ELSE {}

SumarAtras(l) ==
  LET hondo == IF l.listo THEN Menos(IF tip = Nada THEN 0 ELSE tip, l.desde) + l.retro
                          ELSE LOOKBACK + l.retro
  IN  IF l.listo /\ l.desde = 0 THEN 0 ELSE Menor(Menos(MAX_HISTORIA, hondo), PASO_ATRAS)

\* What a payment that needs two outputs of the box is told.
Libre(s) == tip >= Altura[s] + DESBLOQUEO
UltimasDos(l) == {s \in l.entradas : Cardinality({x \in l.entradas : Altura[x] > Altura[s]}) < 2}
\* Mutant: the older blocks asked for are not waited for.
CobCubiertaSinRetro(l) == l.listo /\ l.hasta >= tip

CobCubierta(l) == l.listo /\ l.hasta >= tip /\ l.retro = 0
Cobertura(l) ==
  IF tip = Nada THEN "buscando"
  ELSE IF Cardinality(l.entradas) >= 2
       THEN IF \A s \in UltimasDos(l) : Libre(s) THEN "libre" ELSE "trabadas"
  ELSE IF CobCubierta(l) THEN "sin_saldo" ELSE "buscando"

----------------------------------------------------------------------------
Init ==
  /\ punta = MinTip /\ cadena = {}
  /\ semilla = FALSE /\ libro = Nuevo /\ caja = Nuevo
  /\ tip = Nada /\ oido = 0 /\ forzar = FALSE /\ pedido = FALSE
  /\ ocupado = Nada /\ celda = Nada
  /\ disco = [semilla |-> FALSE, libro |-> Nuevo, caja |-> Nuevo]
  /\ usos = [pedidos |-> 0, gastos |-> 0, malas |-> 0]

(* The chain, and whoever else holds the seed.                             *)

Bloque == /\ punta < MaxTip /\ punta' = punta + 1
          /\ UNCHANGED <<cadena, semilla, libro, caja, sabido, forzar, pedido, ocupado, celda, disco, usos>>

GastaOtro(s) == /\ Altura[s] <= punta /\ s \notin cadena /\ Usa("gastos", MaxGastos)
                /\ cadena' = cadena \cup {s}
                /\ UNCHANGED <<punta, semilla, libro, caja, sabido, forzar, pedido, ocupado, celda, disco>>

----------------------------------------------------------------------------
(* The user.                                                               *)

\* guardar_libro writes the whole ledger after every change but the refresh.
Guarda(l) == libro' = l /\ disco' = [disco EXCEPT !.libro = l]
GuardaCaja(l) == caja' = l /\ disco' = [disco EXCEPT !.caja = l]

CrearSemilla ==
  /\ ~semilla /\ semilla' = TRUE
  /\ libro' = Nuevo /\ disco' = [disco EXCEPT !.semilla = TRUE, !.libro = Nuevo]
  /\ UNCHANGED <<chain, caja, sabido, forzar, pedido, ocupado, celda, usos>>

\* A seed file may carry the height it was made at, or none.
RestaurarSemilla(l) ==
  /\ ~semilla /\ semilla' = TRUE
  /\ libro' = l /\ disco' = [disco EXCEPT !.semilla = TRUE, !.libro = l]
  /\ forzar' = TRUE
  /\ UNCHANGED <<chain, caja, sabido, pedido, ocupado, celda, usos>>

PedirActualizacion ==
  /\ ~forzar /\ forzar' = TRUE /\ Usa("pedidos", MaxPedidos)
  /\ UNCHANGED <<chain, semilla, libro, caja, sabido, pedido, ocupado, celda, disco>>

PedirAtras ==
  /\ semilla /\ Usa("pedidos", MaxPedidos)
  /\ Guarda([libro EXCEPT !.retro = @ + PASO_ATRAS])
  /\ UNCHANGED <<chain, semilla, caja, sabido, forzar, pedido, ocupado, celda>>

PedirAtrasCaja ==
  /\ SumarAtras(caja) > 0 /\ Usa("pedidos", MaxPedidos)
  /\ GuardaCaja([caja EXCEPT !.retro = @ + SumarAtras(caja)])
  /\ UNCHANGED <<chain, semilla, libro, sabido, forzar, pedido, ocupado, celda>>

PedirEnvio ==
  /\ semilla /\ ~pedido /\ Usa("pedidos", MaxPedidos)
  /\ ocupado # Nada => ocupado.tipo # "envio"
  /\ pedido' = TRUE
  /\ UNCHANGED <<chain, semilla, libro, caja, sabido, forzar, ocupado, celda, disco>>

----------------------------------------------------------------------------
(* A tick with no job running starts one: lanzar_si_toca.                  *)

Ocupar(tipo, r, salidas) ==
  /\ ocupado' = [tipo |-> tipo, desde |-> r.desde, hasta |-> r.hasta, retro |-> r.retro, salidas |-> salidas]
  /\ UNCHANGED <<chain, semilla, caja, sabido, celda, usos>>

EnPunta(p) == [desde |-> p, hasta |-> p, retro |-> FALSE]

LanzaTip ==
  /\ ocupado = Nada
  /\ Ocupar("tip", EnPunta(0), {}) /\ UNCHANGED <<libro, forzar, pedido, disco>>

LanzaEnvio ==
  /\ ocupado = Nada /\ tip # Nada /\ pedido /\ pedido' = FALSE
  /\ LET libres == {s \in libro.entradas : Libre(s)}
     IN  \/ \E usadas \in SUBSET libres \ {{}} : Ocupar("envio", EnPunta(0), usadas)
         \/ UNCHANGED <<chain, semilla, caja, sabido, ocupado, celda, usos>>   \* not enough, or locked
  /\ UNCHANGED <<libro, forzar, disco>>

\* The ledger as lanzar_saldo leaves it before it looks for work.
Preparado ==
  LET conTip == IF libro.listo
                THEN IF libro.desde > tip THEN [libro EXCEPT !.desde = tip, !.hasta = Menos(tip, 1)] ELSE libro
                ELSE [libro EXCEPT !.desde = Menos(tip, LOOKBACK), !.listo = TRUE,
                                   !.hasta = Menos(Menos(tip, LOOKBACK), 1)]
  IN  [guardado |-> conTip,
       enMemoria |-> IF forzar
                     THEN [conTip EXCEPT !.hasta = Mayor(Menos(@, PASO_SCAN), Menos(conTip.desde, 1))]
                     ELSE conTip]

Trozo(l) == IF l.hasta < tip THEN {Adelante(l)}
            ELSE IF l.retro > 0 /\ l.desde > 0 THEN {Atras(l)} ELSE {}

MiraSaldo == semilla /\ tip # Nada /\ ocupado = Nada /\ ~pedido

LanzaSaldo ==
  /\ MiraSaldo
  /\ libro' = Preparado.enMemoria /\ forzar' = FALSE
  /\ disco' = [disco EXCEPT !.libro = IF Preparado.guardado # libro THEN Preparado.guardado ELSE @]
  /\ \E r \in Trozo(libro') : Ocupar("saldo", r, libro'.entradas)
  /\ UNCHANGED pedido

\* Up to date: ask the node which of the known outputs are spent.
LanzaPodar ==
  /\ MiraSaldo /\ ~forzar /\ Preparado.guardado = libro /\ Trozo(libro) = {}
  /\ libro.entradas # {}
  /\ Ocupar("podar", EnPunta(0), libro.entradas)
  /\ UNCHANGED <<libro, forzar, pedido, disco>>

\* The box is looked at when the wallet has nothing to do or pauses after an
\* error, or, urgently, when a funding or a payment waits for what it holds.
LanzaCaja(urge) ==
  /\ ocupado = Nada /\ tip # Nada /\ ~pedido
  /\ \/ ~semilla \/ urge
     \/ ~forzar /\ Preparado.guardado = libro /\ Trozo(libro) = {}
  /\ \E r \in SiguienteTrozo(caja) : Ocupar("caja", r, {})
  /\ UNCHANGED <<libro, forzar, pedido, disco>>

----------------------------------------------------------------------------
(* The job, outside the lock.                                              *)

Vistas(mias) == {s \in mias : Altura[s] \in ocupado.desde..ocupado.hasta /\ Altura[s] <= punta}
Tramo(t) == IF ocupado.tipo = "podar" THEN EnPunta(t)
            ELSE [desde |-> ocupado.desde, hasta |-> ocupado.hasta, retro |-> ocupado.retro]
Resulta(ok, entradas, podar, t) ==
  celda' = [ok |-> ok, tramo |-> Tramo(t), entradas |-> entradas, podar |-> podar, tip |-> t]

\* What the scan of the job looks for; a pruning scans nothing.
Buscadas == CASE ocupado.tipo = "saldo" -> MisSalidas
              [] ocupado.tipo = "caja"  -> SalidasCaja
              [] OTHER                  -> {}
EsMirada == ocupado.tipo \in {"saldo", "podar", "caja"}

Corre ==
  /\ ocupado # Nada /\ celda = Nada
  /\ \/ ocupado.tipo = "tip" /\ Resulta(TRUE, {}, {}, punta) /\ UNCHANGED cadena
     \/ /\ EsMirada
        /\ Resulta(TRUE, Vistas(Buscadas), ocupado.salidas \cap cadena, punta) /\ UNCHANGED cadena
     \/ /\ ocupado.tipo = "envio" /\ ocupado.salidas \cap cadena = {}
        /\ cadena' = cadena \cup ocupado.salidas /\ Resulta(TRUE, {}, {}, punta)
     \/ /\ ocupado.tipo = "envio" /\ ocupado.salidas \cap cadena # {}    \* a double spend is refused
        /\ Resulta(FALSE, {}, {}, punta) /\ UNCHANGED cadena
  /\ UNCHANGED <<punta, semilla, libro, caja, sabido, forzar, pedido, ocupado, disco, usos>>

\* What stands in for the newest block when only that query fails: the end of
\* the chunk, or what a pruning knew when it began (chain::tip ... unwrap_or).
TipSupuesto == IF ocupado.tipo = "podar" THEN tip ELSE ocupado.hasta

\* The node does not answer; a send may have reached it all the same; the scan
\* went well, and the newest block or the spent outputs could not be asked for.
CorreMal ==
  /\ ocupado # Nada /\ celda = Nada /\ Usa("malas", MaxMalas)
  /\ \/ Resulta(FALSE, {}, {}, punta) /\ UNCHANGED cadena
     \/ /\ ocupado.tipo = "envio" /\ ocupado.salidas \cap cadena = {}
        /\ cadena' = cadena \cup ocupado.salidas /\ Resulta(FALSE, {}, {}, punta)
     \/ /\ EsMirada
        /\ \E t \in {punta, TipSupuesto}, podar \in {{}, ocupado.salidas \cap cadena} :
             Resulta(TRUE, Vistas(Buscadas), podar, t)
        /\ UNCHANGED cadena
  /\ UNCHANGED <<punta, semilla, libro, caja, sabido, forzar, pedido, ocupado, disco>>

----------------------------------------------------------------------------
(* The tick takes the result: tomar_listo.                                 *)

Toma(tipos) == ocupado # Nada /\ celda # Nada /\ ocupado.tipo \in tipos
               /\ ocupado' = Nada /\ celda' = Nada
               /\ UNCHANGED <<chain, semilla, forzar, pedido, usos>>

\* The tip of a result replaces the known one, also by an older block.
Oye(t) == tip' = t /\ oido' = Mayor(oido, t)

TomaTip == /\ Toma({"tip"}) /\ IF celda.ok THEN Oye(celda.tip) ELSE UNCHANGED sabido
           /\ UNCHANGED <<libro, caja, disco>>

\* Mutant: every result moves the upper end, a pruning's too.
HuboScanSiempre == TRUE

\* An empty look at one block is taken for a mere pruning: hasta stays.
HuboScan == celda.entradas # {} \/ celda.tramo.desde # celda.tramo.hasta \/ celda.tramo.retro

TomaSaldo ==
  /\ Toma({"saldo", "podar"}) /\ celda.ok /\ Oye(celda.tip)
  /\ LET sumado == MarcarGastadas(Fundir(libro, celda.entradas), celda.podar)
     IN  Guarda(IF HuboScan THEN Avanzo(sumado, celda.tramo) ELSE sumado)
  /\ UNCHANGED caja

\* The first look sets both ends; a later one never lowers the upper end.
TomaCaja ==
  /\ Toma({"caja"}) /\ celda.ok /\ Oye(celda.tip)
  /\ LET sumado == FundirCaja(caja, celda.entradas)
     IN  GuardaCaja(
           IF ~ocupado.retro /\ ~caja.listo
           THEN [sumado EXCEPT !.desde = celda.tramo.desde, !.hasta = celda.tramo.hasta, !.listo = TRUE]
           ELSE Avanzo(sumado, celda.tramo))
  /\ UNCHANGED libro

TomaEnvio ==
  /\ Toma({"envio"}) /\ UNCHANGED <<caja, sabido>>
  /\ IF celda.ok THEN Guarda(MarcarGastadas(libro, ocupado.salidas)) ELSE UNCHANGED <<libro, disco>>

TomaAviso ==
  /\ Toma({"saldo", "podar", "caja"}) /\ ~celda.ok
  /\ UNCHANGED <<libro, caja, sabido, disco>>

\* The output a published funding used is marked: consumir_fondeo_personal.
ConsumirFondeo(s) ==
  /\ s \in cadena \cap libro.entradas
  /\ Guarda(MarcarGastadas(libro, {s}))
  /\ UNCHANGED <<chain, semilla, caja, sabido, forzar, pedido, ocupado, celda, usos>>

Caida ==
  /\ Usa("malas", MaxMalas)
  /\ semilla' = disco.semilla /\ caja' = disco.caja
  /\ libro' = [disco.libro EXCEPT !.entradas = @ \ disco.libro.gastadas]
  /\ tip' = Nada /\ oido' = 0 /\ forzar' = FALSE /\ pedido' = FALSE /\ ocupado' = Nada /\ celda' = Nada
  /\ UNCHANGED <<chain, disco>>

----------------------------------------------------------------------------
Usuario == \/ CrearSemilla
           \/ \E l \in {Nuevo} \cup {DesdeAltura(h) : h \in AlturasSemilla} : RestaurarSemilla(l)
           \/ PedirActualizacion \/ PedirAtras \/ PedirAtrasCaja \/ PedirEnvio

Tomar == TomaTip \/ TomaSaldo \/ TomaCaja \/ TomaEnvio \/ TomaAviso

Next == \/ Bloque \/ \E s \in MisSalidas : GastaOtro(s) \/ ConsumirFondeo(s)
        \/ Usuario
        \/ LanzaTip \/ LanzaEnvio \/ LanzaSaldo \/ LanzaPodar \/ LanzaCaja(TRUE) \/ LanzaCaja(FALSE)
        \/ Corre \/ CorreMal \/ Tomar
        \/ Caida

Spec == Init /\ [][Next]_vars

\* A tick comes every second; the timers (60 s for the tip, 20 s for the
\* pruning) leave room in between for the others.  The node answers unless it fails.
SpecJusta == /\ Spec
             /\ WF_vars(Corre) /\ WF_vars(Tomar)
             /\ SF_vars(LanzaTip) /\ SF_vars(LanzaEnvio)
             /\ SF_vars(LanzaSaldo) /\ SF_vars(LanzaPodar) /\ SF_vars(LanzaCaja(FALSE))

----------------------------------------------------------------------------
(* Properties.                                                             *)

Mirado(l, mias) ==
  l.listo => \A s \in mias : Altura[s] \in l.desde..l.hasta => s \in l.entradas \cup l.gastadas

\* No hole in what was looked at: every output in a block between `desde` and
\* `hasta` is listed or known to be spent, in memory and on the disk a restart
\* reads, across refreshes, older blocks, errors and a tip that moved meanwhile.
SinHuecos == /\ Mirado(libro, MisSalidas) /\ Mirado(disco.libro, MisSalidas)
             /\ Mirado(caja, SalidasCaja) /\ Mirado(disco.caja, SalidasCaja)

\* An output known to be spent is never offered again: not by a second look at
\* its block, not by a scan that began before it was spent, not after a restart.
NoRevive == [][\A s \in MisSalidas : s \in libro.gastadas =>
                  s \notin libro'.entradas /\ s \in libro'.gastadas]_vars

\* A payment is told there is no money in the box only when every block that
\* was asked for, older ones included, up to the known tip, has been looked at
\* and holds fewer than two outputs.  That tip is the newest block heard of
\* until a query fails or the program is killed: after a scan whose query for
\* the tip failed it may be an older one (cobertura_caja, unwrap_or).
TipCreido == IF usos.malas = 0 THEN oido ELSE tip
FaltaDeVerdad ==
  Cobertura(caja) = "sin_saldo" =>
    Cardinality({s \in SalidasCaja : Altura[s] \in Menos(caja.desde, caja.retro)..TipCreido}) < 2

CajaAlDia == caja.listo /\ caja.hasta >= punta /\ (caja.retro = 0 \/ caja.desde = 0)

TodoCierto ==
  semilla => /\ libro.listo
             /\ libro.entradas = {s \in MisSalidas \ cadena : Altura[s] \in libro.desde..punta}
             /\ libro.hasta >= punta => CajaAlDia

\* Once nothing moves any more the balance is right: the outputs listed are the
\* unspent ones from `desde` up, even if a send was published and its answer
\* lost; and the box is complete too, unless the wallet is one empty block
\* behind and keeps looking at it (see README).
SaldoCierto == <>[]TodoCierto
=============================================================================
