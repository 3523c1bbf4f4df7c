---------------------------- MODULE LibroProofs ----------------------------
(***************************************************************************)
(* What the runs of Libro check on a few outputs and blocks, proved for    *)
(* any number of them: no hole in what was scanned, no spent output listed *)
(* again, and no payment told that the box is empty when, up to the tip    *)
(* it knows, it is not.                                                    *)
(*                                                                         *)
(* SinHuecos is not inductive: that a result extends what was looked at    *)
(* without a gap depends on where the running job began (Trabajo), on what *)
(* its result holds (Resultado), and on the wallet not being replaced      *)
(* while it ran (Semillas).  What the known tip is worth (Oidas) is a      *)
(* second invariant, kept on top of the first.                             *)
(***************************************************************************)
EXTENDS Libro, FiniteSetTheorems, TLAPS

Ledger(mias) == [desde : Nat, hasta : Nat, listo : BOOLEAN, retro : Nat,
                 entradas : SUBSET mias, gastadas : SUBSET MisSalidas]

Trabajos == [tipo : {"tip", "saldo", "podar", "caja", "envio"}, desde : Nat, hasta : Nat,
             retro : BOOLEAN, salidas : SUBSET MisSalidas]

Tipos ==
  /\ punta \in Nat /\ tip \in Nat \cup {Nada}
  /\ semilla \in BOOLEAN /\ forzar \in BOOLEAN /\ pedido \in BOOLEAN
  /\ libro \in Ledger(MisSalidas) /\ caja \in Ledger(SalidasCaja)
  /\ disco \in [semilla : BOOLEAN, libro : Ledger(MisSalidas), caja : Ledger(SalidasCaja)]
  /\ ocupado \in {Nada} \cup Trabajos

\* The chain is at least as long as anything heard of it, or kept from it.
Alcance ==
  /\ tip # Nada => tip <= punta
  /\ caja.desde <= punta /\ disco.caja.desde <= punta

\* A wallet that does not exist has looked at nothing, nor has its file.
Semillas ==
  /\ disco.semilla = semilla /\ (pedido => semilla)
  /\ ~semilla => libro = Nuevo /\ disco.libro = Nuevo

\* The spent outputs of memory are those of the disk, and are not listed.
Gastadas ==
  /\ disco.libro.gastadas = libro.gastadas
  /\ libro.entradas \cap libro.gastadas = {}
  /\ caja.gastadas = {} /\ disco.caja.gastadas = {}

\* The blocks of the running job begin, or end, where a ledger stops.
Pegado(l) ==
  /\ ocupado.desde <= ocupado.hasta /\ ocupado.hasta <= punta
  /\ l.listo /\ ocupado.retro => ocupado.hasta = l.desde - 1
  /\ l.listo /\ ~ocupado.retro => ocupado.desde = l.hasta + 1
  /\ ~l.listo => ~ocupado.retro

Trabajo ==
  ocupado # Nada =>
    /\ ocupado.tipo \in {"saldo", "podar", "envio"} => semilla
    /\ ocupado.tipo = "saldo" => libro.listo /\ Pegado(libro)
    /\ ocupado.tipo = "caja" => Pegado(caja)
    /\ ocupado.tipo = "podar" => tip # Nada

\* What a result holds of the blocks its job was given.
EnTramo(mias) == {s \in mias : Altura[s] \in ocupado.desde..ocupado.hasta}

Resultado ==
  celda # Nada =>
    /\ ocupado # Nada
    /\ celda.tip \in Nat /\ celda.tip <= punta
    /\ celda.podar \subseteq MisSalidas
    /\ ocupado.tipo \in {"saldo", "caja"} =>
         celda.tramo = [desde |-> ocupado.desde, hasta |-> ocupado.hasta, retro |-> ocupado.retro]
    /\ ocupado.tipo = "saldo" /\ celda.ok => celda.entradas = EnTramo(MisSalidas)
    /\ ocupado.tipo = "caja" /\ celda.ok => celda.entradas = EnTramo(SalidasCaja)
    /\ ocupado.tipo = "podar" /\ celda.ok =>
         celda.entradas = {} /\ celda.tramo = EnPunta(celda.tip)

IInv == Tipos /\ Alcance /\ Semillas /\ Gastadas /\ Trabajo /\ Resultado /\ SinHuecos

USE DEF Ledger, Trabajos, sabido

-----------------------------------------------------------------------------
(* Ledgers: what each operation keeps of its type, and of what was seen.   *)

LEMMA NuevoEsLedger == \A m : Nuevo \in Ledger(m)
  BY DEF Nuevo

LEMMA AlturaNat == \A s \in Salidas : Altura[s] \in Nat /\ Altura[s] >= 1
  BY LibroAssumption

LEMMA FundirTipo ==
  ASSUME NEW l \in Ledger(MisSalidas), NEW n \in SUBSET MisSalidas
  PROVE  Fundir(l, n) \in Ledger(MisSalidas)
  BY DEF Fundir

LEMMA FundirCajaTipo ==
  ASSUME NEW l \in Ledger(SalidasCaja), NEW n \in SUBSET SalidasCaja
  PROVE  FundirCaja(l, n) \in Ledger(SalidasCaja)
  BY DEF FundirCaja

LEMMA MarcarTipo ==
  ASSUME NEW l \in Ledger(MisSalidas), NEW u \in SUBSET MisSalidas
  PROVE  MarcarGastadas(l, u) \in Ledger(MisSalidas)
  BY DEF MarcarGastadas

Tramos == {r \in [desde : Nat, hasta : Nat, retro : BOOLEAN] : r.desde <= r.hasta}

LEMMA AvanzoTipo ==
  ASSUME NEW m, NEW l \in Ledger(m), NEW r \in Tramos
  PROVE  Avanzo(l, r) \in Ledger(m)
<1>1. r.hasta - r.desde + 1 \in Nat
  BY DEF Tramos
<1>2. Menos(l.retro, r.hasta - r.desde + 1) \in Nat
  BY <1>1 DEF Menos
<1>. QED  BY <1>2 DEF Avanzo, Tramos

\* The blocks a result stands next to.
LEMMA AvanzoMira ==
  ASSUME NEW m \in SUBSET Salidas, NEW l \in Ledger(m), NEW r \in Tramos,
         l.listo, Mirado(l, m),
         IF r.retro THEN r.hasta = l.desde - 1 ELSE r.desde = l.hasta + 1,
         {s \in m : Altura[s] \in r.desde..r.hasta} \subseteq l.entradas \cup l.gastadas
  PROVE  Mirado(Avanzo(l, r), m)
<1>. DEFINE k == Avanzo(l, r)
<1>1. k.listo /\ k.entradas = l.entradas /\ k.gastadas = l.gastadas
  BY DEF Avanzo
<1>2. IF r.retro THEN k.desde = r.desde /\ k.hasta = l.hasta
                 ELSE k.desde = l.desde /\ k.hasta = r.hasta
  BY DEF Avanzo, Tramos
<1>3. ASSUME NEW s \in m, Altura[s] \in k.desde..k.hasta
      PROVE  Altura[s] \in l.desde..l.hasta \/ Altura[s] \in r.desde..r.hasta
  BY <1>2, <1>3, AlturaNat DEF Tramos
<1>. QED  BY <1>1, <1>3 DEF Mirado

LEMMA MarcarMira ==
  ASSUME NEW l \in Ledger(MisSalidas), NEW u \in SUBSET MisSalidas, Mirado(l, MisSalidas)
  PROVE  Mirado(MarcarGastadas(l, u), MisSalidas)
  BY DEF MarcarGastadas, Mirado

LEMMA FundirMira ==
  ASSUME NEW l \in Ledger(MisSalidas), NEW n \in SUBSET MisSalidas, Mirado(l, MisSalidas)
  PROVE  Mirado(Fundir(l, n), MisSalidas)
  BY DEF Fundir, Mirado

LEMMA MismosBloques ==
  ASSUME NEW m \in SUBSET Salidas, NEW l \in Ledger(m), NEW k \in Ledger(m), Mirado(l, m),
         k.listo => l.listo, k.desde >= l.desde, k.hasta <= l.hasta,
         k.entradas = l.entradas, k.gastadas = l.gastadas
  PROVE  Mirado(k, m)
  BY AlturaNat DEF Mirado

-----------------------------------------------------------------------------
(* The inductive invariant, action by action.                              *)

LEMMA Empieza == Init => IInv
<1>. SUFFICES ASSUME Init PROVE IInv
  OBVIOUS
<1>1. Tipos
  BY LibroAssumption, NuevoEsLedger DEF Init, Tipos
<1>2. Alcance
  <2>1. MinTip \in Nat
    BY LibroAssumption
  <2>. QED  BY <2>1 DEF Init, Alcance, Nuevo
<1>5. Semillas
  BY DEF Init, Semillas
<1>6. Gastadas
  BY DEF Init, Gastadas, Nuevo
<1>3. Trabajo /\ Resultado
  BY DEF Init, Trabajo, Resultado
<1>4. SinHuecos
  BY DEF Init, SinHuecos, Mirado, Nuevo
<1>. QED  BY <1>1, <1>2, <1>3, <1>4, <1>5, <1>6 DEF IInv

LEMMA PasoBloque == IInv /\ Bloque => IInv'
<1>. SUFFICES ASSUME IInv, Bloque PROVE IInv'
  OBVIOUS
<1>. USE DEF IInv, Bloque
<1>1. Tipos' /\ Semillas' /\ Gastadas' /\ SinHuecos'
  BY DEF Tipos, Semillas, Gastadas, SinHuecos, Mirado
<1>2. Alcance'
  BY LibroAssumption DEF Tipos, Alcance
<1>3. Trabajo'
  BY LibroAssumption DEF Tipos, Trabajo, Pegado
<1>4. Resultado'
  BY LibroAssumption DEF Tipos, Resultado, EnTramo, EnPunta
<1>. QED  BY <1>1, <1>2, <1>3, <1>4

\* Steps that leave the ledgers, the job and its result alone.
LEMMA PasoQuieto ==
  ASSUME IInv, UNCHANGED <<punta, semilla, libro, caja, tip, ocupado, celda, disco>>,
         forzar' \in BOOLEAN, pedido' \in BOOLEAN, pedido' => semilla
  PROVE  IInv'
  BY DEF IInv, Tipos, Alcance, Semillas, Gastadas, Trabajo, Pegado, Resultado, EnTramo,
         EnPunta, SinHuecos, Mirado

LEMMA PasoUsuarioQuieto ==
  IInv /\ ((\E s \in MisSalidas : GastaOtro(s)) \/ PedirActualizacion \/ PedirEnvio) => IInv'
<1>. SUFFICES ASSUME IInv, (\E s \in MisSalidas : GastaOtro(s)) \/ PedirActualizacion \/ PedirEnvio
             PROVE  IInv'
  OBVIOUS
<1>0. forzar \in BOOLEAN /\ pedido \in BOOLEAN /\ (pedido => semilla)
  BY DEF IInv, Tipos, Semillas
<1>1. ASSUME NEW s \in MisSalidas, GastaOtro(s) PROVE IInv'
  <2>1. UNCHANGED <<punta, semilla, libro, caja, tip, ocupado, celda, disco>> /\ UNCHANGED <<forzar, pedido>>
    BY <1>1 DEF GastaOtro
  <2>. QED  BY <1>0, <2>1, PasoQuieto
<1>2. CASE PedirActualizacion
  <2>1. UNCHANGED <<punta, semilla, libro, caja, tip, ocupado, celda, disco>> /\ forzar' = TRUE /\ pedido' = pedido
    BY <1>2 DEF PedirActualizacion, chain
  <2>. QED  BY <1>0, <2>1, PasoQuieto
<1>3. CASE PedirEnvio
  <2>1. UNCHANGED <<punta, semilla, libro, caja, tip, ocupado, celda, disco>> /\ forzar' = forzar /\ pedido' = TRUE /\ semilla
    BY <1>3 DEF PedirEnvio, chain
  <2>. QED  BY <1>0, <2>1, PasoQuieto
<1>. QED  BY <1>1, <1>2, <1>3

\* A wallet comes: nothing was running for one, nothing was spent.
LEMMA PasoSemilla ==
  ASSUME IInv, ~semilla, semilla' = TRUE, NEW l \in {Nuevo} \cup {DesdeAltura(h) : h \in AlturasSemilla},
         libro' = l, disco' = [disco EXCEPT !.semilla = TRUE, !.libro = l], forzar' \in BOOLEAN,
         UNCHANGED <<chain, caja, tip, pedido, ocupado, celda>>
  PROVE  IInv'
<1>. USE DEF IInv, chain
<1>1. l \in Ledger(MisSalidas) /\ Mirado(l, MisSalidas) /\ l.entradas = {} /\ l.gastadas = {}
  <2>1. CASE l = Nuevo
    BY <2>1 DEF Nuevo, Mirado
  <2>2. ASSUME NEW h \in Nat, l = DesdeAltura(h) PROVE l \in Ledger(MisSalidas) /\ Mirado(l, MisSalidas) /\ l.entradas = {} /\ l.gastadas = {}
    <3>1. l = [desde |-> h, hasta |-> Menos(h, 1), listo |-> TRUE, retro |-> 0,
               entradas |-> {}, gastadas |-> {}]
      BY <2>2 DEF DesdeAltura, Nuevo
    <3>2. \A s \in MisSalidas : Altura[s] \notin l.desde..l.hasta
      BY <3>1, AlturaNat DEF Menos, Salidas
    <3>3. Menos(h, 1) \in Nat
      BY DEF Menos
    <3>. QED  BY <3>1, <3>2, <3>3 DEF Mirado
  <2>. QED  BY <2>1, <2>2, LibroAssumption
<1>2. disco'.libro = l /\ disco'.caja = disco.caja /\ disco'.semilla = TRUE
  BY DEF Tipos
<1>3. Tipos' /\ Alcance' /\ Semillas'
  BY <1>1, <1>2 DEF Tipos, Alcance, Semillas
<1>4. Gastadas' /\ SinHuecos'
  BY <1>1, <1>2 DEF Gastadas, SinHuecos, Mirado
<1>5. Trabajo' /\ Resultado'
  BY DEF Trabajo, Pegado, Resultado, EnTramo, EnPunta
<1>. QED  BY <1>3, <1>4, <1>5

LEMMA PasoUsuarioSemilla ==
  ASSUME IInv, CrearSemilla \/ \E l \in {Nuevo} \cup {DesdeAltura(h) : h \in AlturasSemilla} : RestaurarSemilla(l)
  PROVE  IInv'
<1>1. CASE CrearSemilla
  BY <1>1, PasoSemilla DEF CrearSemilla, IInv, Tipos
<1>2. CASE \E l \in {Nuevo} \cup {DesdeAltura(h) : h \in AlturasSemilla} : RestaurarSemilla(l)
  BY <1>2, PasoSemilla DEF RestaurarSemilla
<1>. QED  BY <1>1, <1>2

\* Older blocks asked for, an output spent: the blocks looked at do not move.
LEMMA PasoLibro ==
  ASSUME IInv, semilla, NEW l \in Ledger(MisSalidas), Guarda(l),
         l.desde = libro.desde, l.hasta = libro.hasta, l.listo = libro.listo, Mirado(l, MisSalidas),
         l.entradas \cap l.gastadas = {},
         UNCHANGED <<chain, semilla, caja, tip, forzar, pedido, ocupado, celda>>
  PROVE  IInv'
<1>. USE DEF IInv, chain
<1>1. libro' = l /\ disco'.libro = l /\ disco'.caja = disco.caja /\ disco'.semilla = disco.semilla
  BY DEF Guarda, Tipos
<1>2. Tipos' /\ Alcance' /\ Semillas'
  BY <1>1 DEF Tipos, Alcance, Semillas, Guarda
<1>3. Gastadas' /\ SinHuecos'
  BY <1>1 DEF Gastadas, SinHuecos, Mirado
<1>4. Trabajo' /\ Resultado'
  BY <1>1 DEF Trabajo, Pegado, Resultado, EnTramo, EnPunta
<1>. QED  BY <1>2, <1>3, <1>4

LEMMA PasoPedirAtras == IInv /\ PedirAtras => IInv'
<1>. SUFFICES ASSUME IInv, PedirAtras PROVE IInv'
  OBVIOUS
<1>. DEFINE l == [libro EXCEPT !.retro = @ + PASO_ATRAS]
<1>1. l \in Ledger(MisSalidas)
  BY LibroAssumption DEF IInv, Tipos
<1>2. /\ l.desde = libro.desde /\ l.hasta = libro.hasta /\ l.listo = libro.listo
      /\ l.entradas = libro.entradas /\ l.gastadas = libro.gastadas
  BY DEF IInv, Tipos
<1>3. Mirado(l, MisSalidas) /\ l.entradas \cap l.gastadas = {}
  BY <1>2 DEF IInv, SinHuecos, Mirado, Gastadas
<1>4. Guarda(l) /\ semilla /\ UNCHANGED <<chain, semilla, caja, tip, forzar, pedido, ocupado, celda>>
  BY DEF PedirAtras
<1>. HIDE DEF l
<1>. QED  BY <1>1, <1>2, <1>3, <1>4, PasoLibro

LEMMA MarcarCampos ==
  ASSUME NEW l \in Ledger(MisSalidas), NEW u \in SUBSET MisSalidas
  PROVE  LET k == MarcarGastadas(l, u)
         IN  /\ k.desde = l.desde /\ k.hasta = l.hasta /\ k.listo = l.listo /\ k.retro = l.retro
             /\ k.entradas = l.entradas \ u /\ k.gastadas = l.gastadas \cup u
  BY DEF MarcarGastadas

LEMMA PasoConsumir == ASSUME NEW s \in MisSalidas, IInv, ConsumirFondeo(s) PROVE IInv'
<1>. DEFINE l == MarcarGastadas(libro, {s})
<1>0. libro \in Ledger(MisSalidas) /\ {s} \in SUBSET MisSalidas
  BY DEF IInv, Tipos
<1>1. l \in Ledger(MisSalidas) /\ Mirado(l, MisSalidas)
  BY <1>0, MarcarTipo, MarcarMira DEF IInv, SinHuecos
<1>2. /\ l.desde = libro.desde /\ l.hasta = libro.hasta /\ l.listo = libro.listo
      /\ l.entradas \cap l.gastadas = {}
  BY <1>0, MarcarCampos DEF IInv, Gastadas
<1>3. semilla
  BY DEF ConsumirFondeo, IInv, Semillas, Nuevo
<1>4. Guarda(l) /\ UNCHANGED <<chain, semilla, caja, tip, forzar, pedido, ocupado, celda>>
  BY DEF ConsumirFondeo
<1>. HIDE DEF l
<1>. QED  BY <1>1, <1>2, <1>3, <1>4, PasoLibro

\* A box asked for older blocks, or with a result taken.
LEMMA PasoCaja ==
  ASSUME IInv, NEW l \in Ledger(SalidasCaja), GuardaCaja(l), l.desde <= punta, l.gastadas = {},
         Mirado(l, SalidasCaja),
         UNCHANGED <<chain, semilla, libro, pedido>>, forzar' \in BOOLEAN, tip' \in Nat \cup {Nada},
         tip' # Nada => tip' <= punta, Trabajo', Resultado', ocupado' \in {Nada} \cup Trabajos
  PROVE  IInv'
<1>. USE DEF IInv, chain
<1>1. caja' = l /\ disco'.caja = l /\ disco'.libro = disco.libro /\ disco'.semilla = disco.semilla
  BY DEF GuardaCaja, Tipos
<1>2. Tipos'
  BY <1>1 DEF Tipos, GuardaCaja
<1>3. Alcance' /\ Semillas'
  BY <1>1 DEF Tipos, Alcance, Semillas, GuardaCaja
<1>4. Gastadas' /\ SinHuecos'
  BY <1>1 DEF Gastadas, SinHuecos, Mirado
<1>. QED  BY <1>2, <1>3, <1>4

LEMMA SumarEsNatural ==
  ASSUME NEW l \in Ledger(SalidasCaja), tip \in Nat \cup {Nada}
  PROVE  SumarAtras(l) \in Nat
<1>1. LOOKBACK \in Nat /\ MAX_HISTORIA \in Nat /\ PASO_ATRAS \in Nat
  BY LibroAssumption
<1>2. (IF tip = Nada THEN 0 ELSE tip) \in Nat
  OBVIOUS
<1>3. \A a, b \in Nat : Menos(a, b) \in Nat /\ Menor(a, b) \in Nat
  BY DEF Menos, Menor
<1>. DEFINE p == IF tip = Nada THEN 0 ELSE tip
            hondo == IF l.listo THEN Menos(p, l.desde) + l.retro ELSE LOOKBACK + l.retro
            cuanto == Menor(Menos(MAX_HISTORIA, hondo), PASO_ATRAS)
<1>4. l.desde \in Nat /\ l.retro \in Nat /\ Menos(p, l.desde) \in Nat
  BY <1>2, <1>3
<1>5. hondo \in Nat
  BY <1>1, <1>4
<1>6. cuanto \in Nat
  <2>. HIDE DEF hondo
  <2>1. Menos(MAX_HISTORIA, hondo) \in Nat
    BY <1>1, <1>3, <1>5
  <2>. QED  BY <1>1, <1>3, <2>1
<1>7. SumarAtras(l) = IF l.listo /\ l.desde = 0 THEN 0 ELSE cuanto
  BY DEF SumarAtras
<1>. HIDE DEF cuanto
<1>. QED  BY <1>6, <1>7

LEMMA PasoPedirAtrasCaja == IInv /\ PedirAtrasCaja => IInv'
<1>. SUFFICES ASSUME IInv, PedirAtrasCaja PROVE IInv'
  OBVIOUS
<1>. USE DEF IInv, chain
<1>. DEFINE l == [caja EXCEPT !.retro = @ + SumarAtras(caja)]
<1>0. caja \in Ledger(SalidasCaja) /\ SumarAtras(caja) \in Nat
  BY SumarEsNatural DEF Tipos
<1>1. l \in Ledger(SalidasCaja)
  BY <1>0
<1>2. /\ l.desde = caja.desde /\ l.hasta = caja.hasta /\ l.listo = caja.listo
      /\ l.entradas = caja.entradas /\ l.gastadas = caja.gastadas
  BY <1>0
<1>3. GuardaCaja(l) /\ UNCHANGED <<chain, semilla, libro, tip, forzar, pedido, ocupado, celda>>
  BY DEF PedirAtrasCaja
<1>. HIDE DEF l
<1>4. l.desde <= punta /\ l.gastadas = {} /\ Mirado(l, SalidasCaja)
  BY <1>2 DEF Alcance, Gastadas, SinHuecos, Mirado
<1>5. Trabajo'
  BY <1>2, <1>3 DEF Trabajo, Pegado, GuardaCaja
<1>6. Resultado'
  BY <1>3 DEF Resultado, EnTramo, EnPunta
<1>7. tip' \in Nat \cup {Nada} /\ (tip' # Nada => tip' <= punta) /\ forzar' \in BOOLEAN
      /\ ocupado' \in {Nada} \cup Trabajos
  BY <1>3 DEF Tipos, Alcance
<1>. QED  BY <1>1, <1>3, <1>4, <1>5, <1>6, <1>7, PasoCaja

-----------------------------------------------------------------------------
(* Jobs that begin.                                                        *)

\* A job that begins leaves the box, and finds no result waiting.
LEMMA PasoLanza ==
  ASSUME IInv, ocupado = Nada, NEW r \in Tramos, NEW u \in SUBSET MisSalidas,
         NEW t \in {"tip", "saldo", "podar", "caja", "envio"}, Ocupar(t, r, u),
         UNCHANGED libro, UNCHANGED disco, forzar' \in BOOLEAN, pedido' \in BOOLEAN, pedido' => semilla,
         Trabajo'
  PROVE  IInv'
<1>. USE DEF IInv, chain
<1>1. UNCHANGED <<punta, semilla, libro, caja, tip, celda, disco>> /\ ocupado' \in Trabajos
  BY DEF Ocupar, Tramos
<1>2. celda' = Nada
  BY <1>1 DEF Resultado
<1>3. Tipos' /\ Alcance' /\ Semillas' /\ Gastadas' /\ SinHuecos'
  BY <1>1 DEF Tipos, Alcance, Semillas, Gastadas, SinHuecos, Mirado
<1>4. Resultado'
  BY <1>2 DEF Resultado
<1>. QED  BY <1>3, <1>4

LEMMA PuntaEsTramo == \A p \in Nat : EnPunta(p) \in Tramos
  BY DEF EnPunta, Tramos

LEMMA PasoLanzaSinBloques ==
  IInv /\ (LanzaTip \/ LanzaEnvio \/ LanzaPodar) => IInv'
<1>. SUFFICES ASSUME IInv, LanzaTip \/ LanzaEnvio \/ LanzaPodar PROVE IInv'
  OBVIOUS
<1>0. /\ forzar \in BOOLEAN /\ pedido \in BOOLEAN /\ (pedido => semilla) /\ punta \in Nat
      /\ EnPunta(0) \in Tramos /\ libro.entradas \in SUBSET MisSalidas
  BY PuntaEsTramo DEF IInv, Tipos, Semillas
<1>1. CASE LanzaTip
  <2>1. /\ ocupado = Nada /\ Ocupar("tip", EnPunta(0), {}) /\ UNCHANGED libro /\ UNCHANGED disco
        /\ forzar' = forzar /\ pedido' = pedido /\ UNCHANGED semilla
    BY <1>1 DEF LanzaTip, Ocupar
  <2>2. Trabajo'
    BY <2>1 DEF Trabajo, Ocupar
  <2>. QED  BY <1>0, <2>1, <2>2, PasoLanza
<1>2. CASE LanzaEnvio
  <2>1. /\ ocupado = Nada /\ pedido /\ UNCHANGED libro /\ UNCHANGED disco
        /\ forzar' = forzar /\ pedido' = FALSE /\ UNCHANGED semilla
    BY <1>2 DEF LanzaEnvio, Ocupar
  <2>2. ASSUME NEW u \in SUBSET libro.entradas, Ocupar("envio", EnPunta(0), u) PROVE IInv'
    <3>1. Trabajo'
      BY <1>0, <2>1, <2>2 DEF Trabajo, Ocupar
    <3>. QED  BY <1>0, <2>1, <2>2, <3>1, PasoLanza
  <2>3. CASE UNCHANGED <<chain, semilla, caja, sabido, ocupado, celda, usos>>
    <3>1. UNCHANGED <<punta, semilla, libro, caja, tip, ocupado, celda, disco>>
      BY <2>1, <2>3 DEF chain
    <3>. QED  BY <1>0, <2>1, <3>1, PasoQuieto
  <2>. QED  BY <1>2, <2>2, <2>3 DEF LanzaEnvio
<1>3. CASE LanzaPodar
  <2>1. /\ ocupado = Nada /\ semilla /\ tip # Nada /\ UNCHANGED tip /\ UNCHANGED libro /\ UNCHANGED disco
        /\ forzar' = forzar /\ pedido' = pedido /\ UNCHANGED semilla
        /\ Ocupar("podar", EnPunta(0), libro.entradas)
    BY <1>3 DEF LanzaPodar, MiraSaldo, Ocupar
  <2>2. Trabajo'
    BY <2>1 DEF Trabajo, Ocupar
  <2>. QED  BY <1>0, <2>1, <2>2, PasoLanza
<1>. QED  BY <1>1, <1>2, <1>3

\* A chunk of blocks that is still to be looked at lies within the chain and
\* next to what was.
LEMMA TrozoPegado ==
  ASSUME NEW m, NEW l \in Ledger(m), tip \in Nat, tip <= punta, punta \in Nat, l.desde <= punta,
         NEW r \in Trozo(l)
  PROVE  /\ r \in Tramos /\ r.hasta <= punta
         /\ IF r.retro THEN r.hasta = l.desde - 1 ELSE r.desde = l.hasta + 1
<1>0. PASO_SCAN \in Nat /\ PASO_SCAN >= 1
  BY LibroAssumption
<1>1. CASE l.hasta < tip /\ r = Adelante(l)
  BY <1>0, <1>1 DEF Adelante, Menor, Tramos
<1>2. CASE l.retro > 0 /\ l.desde > 0 /\ r = Atras(l)
  <2>. DEFINE n == Menor(Menor(l.retro, PASO_SCAN), l.desde)
  <2>1. n \in 1..l.desde
    BY <1>0, <1>2 DEF Menor
  <2>2. r = [desde |-> l.desde - n, hasta |-> l.desde - 1, retro |-> TRUE]
    BY <1>2 DEF Atras
  <2>. HIDE DEF n
  <2>. QED  BY <1>2, <2>1, <2>2 DEF Tramos
<1>. QED  BY <1>1, <1>2 DEF Trozo

LEMMA MenosNat == \A a, b \in Nat : Menos(a, b) \in Nat /\ Menos(a, b) <= a
  BY DEF Menos

\* The ledger of lanzar_saldo: what it looked at, or less, or nothing yet.
LEMMA PreparadoMira ==
  ASSUME IInv, tip \in Nat, NEW k \in {Preparado.guardado, Preparado.enMemoria}
  PROVE  /\ k \in Ledger(MisSalidas) /\ k.listo /\ Mirado(k, MisSalidas) /\ k.desde <= tip
         /\ k.entradas = libro.entradas /\ k.gastadas = libro.gastadas
<1>. DEFINE l == Preparado.guardado
<1>0. libro \in Ledger(MisSalidas) /\ Mirado(libro, MisSalidas) /\ LOOKBACK \in Nat /\ PASO_SCAN \in Nat
      /\ MisSalidas \in SUBSET Salidas
  BY LibroAssumption DEF IInv, Tipos, SinHuecos, Salidas
<1>1. /\ l \in Ledger(MisSalidas) /\ l.listo /\ Mirado(l, MisSalidas) /\ l.desde <= tip
      /\ l.entradas = libro.entradas /\ l.gastadas = libro.gastadas
  <2>1. CASE libro.listo /\ libro.desde <= tip
    <3>1. l = libro
      BY <1>0, <2>1 DEF Preparado
    <3>. QED  BY <1>0, <2>1, <3>1
  <2>2. ASSUME NEW d \in Nat, d <= tip,
               l = [libro EXCEPT !.desde = d, !.hasta = Menos(d, 1), !.listo = TRUE]
        PROVE  /\ l \in Ledger(MisSalidas) /\ l.listo /\ Mirado(l, MisSalidas) /\ l.desde <= tip
               /\ l.entradas = libro.entradas /\ l.gastadas = libro.gastadas
    <3>1. \A s \in MisSalidas : Altura[s] \notin d..Menos(d, 1)
      BY <1>0, <2>2, AlturaNat DEF Menos
    <3>2. Menos(d, 1) \in Nat
      BY <2>2, MenosNat
    <3>3. /\ l \in Ledger(MisSalidas) /\ l.listo /\ l.desde = d /\ l.hasta = Menos(d, 1)
          /\ l.entradas = libro.entradas /\ l.gastadas = libro.gastadas
      BY <1>0, <2>2, <3>2
    <3>. QED  BY <2>2, <3>1, <3>3 DEF Mirado
  <2>3. CASE libro.listo /\ libro.desde > tip
    <3>1. l = [libro EXCEPT !.desde = tip, !.hasta = Menos(tip, 1)]
      BY <1>0, <2>3 DEF Preparado
    <3>2. l = [libro EXCEPT !.desde = tip, !.hasta = Menos(tip, 1), !.listo = TRUE]
      BY <1>0, <2>3, <3>1
    <3>3. tip \in Nat /\ tip <= tip
      OBVIOUS
    <3>. HIDE DEF l
    <3>. QED  BY <2>2, <3>2, <3>3
  <2>4. CASE ~libro.listo
    <3>1. l = [libro EXCEPT !.desde = Menos(tip, LOOKBACK), !.listo = TRUE,
                            !.hasta = Menos(Menos(tip, LOOKBACK), 1)]
      BY <2>4 DEF Preparado
    <3>2. Menos(tip, LOOKBACK) \in Nat /\ Menos(tip, LOOKBACK) <= tip
      BY <1>0, MenosNat
    <3>. QED  BY <1>0, <2>2, <3>1, <3>2
  <2>5. libro.listo \in BOOLEAN /\ libro.desde \in Nat
    BY <1>0
  <2>. QED  BY <2>1, <2>3, <2>4, <2>5
<1>. HIDE DEF l
<1>2. CASE k = [l EXCEPT !.hasta = Mayor(Menos(@, PASO_SCAN), Menos(l.desde, 1))]
  <2>1. Menos(l.hasta, PASO_SCAN) \in Nat /\ Menos(l.hasta, PASO_SCAN) <= l.hasta
        /\ Menos(l.desde, 1) \in Nat
    BY <1>0, <1>1, MenosNat
  <2>2. /\ k \in Ledger(MisSalidas) /\ k.listo /\ k.desde = l.desde
        /\ k.hasta = Mayor(Menos(l.hasta, PASO_SCAN), Menos(l.desde, 1))
        /\ k.entradas = l.entradas /\ k.gastadas = l.gastadas
    BY <1>1, <1>2, <2>1 DEF Mayor
  <2>3. k.hasta <= l.hasta \/ k.hasta = Menos(l.desde, 1)
    BY <1>1, <2>1, <2>2 DEF Mayor
  <2>4. ASSUME NEW s \in MisSalidas, Altura[s] \in k.desde..k.hasta
        PROVE  Altura[s] \in l.desde..l.hasta
    <3>1. Altura[s] \in Nat /\ Altura[s] >= 1
      BY <1>0, AlturaNat
    <3>. QED  BY <1>1, <2>2, <2>3, <2>4, <3>1 DEF Menos
  <2>. QED  BY <1>1, <2>2, <2>4 DEF Mirado
<1>3. k = l \/ k = [l EXCEPT !.hasta = Mayor(Menos(@, PASO_SCAN), Menos(l.desde, 1))]
  BY DEF l, Preparado
<1>. QED  BY <1>1, <1>2, <1>3

LEMMA PasoLanzaSaldo == IInv /\ LanzaSaldo => IInv'
<1>. SUFFICES ASSUME IInv, LanzaSaldo PROVE IInv'
  OBVIOUS
<1>. USE DEF IInv, chain
<1>. DEFINE g == Preparado.guardado
            k == Preparado.enMemoria
<1>0. ocupado = Nada /\ semilla /\ tip \in Nat /\ tip <= punta /\ punta \in Nat
  BY DEF LanzaSaldo, MiraSaldo, Tipos, Alcance
<1>1. PICK r \in Trozo(k) : Ocupar("saldo", r, k.entradas)
  BY DEF LanzaSaldo
<1>2. /\ libro' = k /\ forzar' = FALSE /\ pedido' = pedido
      /\ disco' = [disco EXCEPT !.libro = IF g # libro THEN g ELSE @]
  BY DEF LanzaSaldo
<1>3. /\ g \in Ledger(MisSalidas) /\ Mirado(g, MisSalidas) /\ g.gastadas = libro.gastadas
      /\ k \in Ledger(MisSalidas) /\ Mirado(k, MisSalidas) /\ k.listo /\ k.desde <= tip
      /\ k.entradas = libro.entradas /\ k.gastadas = libro.gastadas
  BY <1>0, PreparadoMira
<1>. HIDE DEF g, k
<1>4. /\ disco'.libro \in {g, disco.libro} /\ disco'.caja = disco.caja /\ disco'.semilla = disco.semilla
      /\ disco' \in [semilla : BOOLEAN, libro : Ledger(MisSalidas), caja : Ledger(SalidasCaja)]
  BY <1>2, <1>3 DEF Tipos
<1>5. /\ r \in Tramos /\ r.hasta <= punta
      /\ IF r.retro THEN r.hasta = k.desde - 1 ELSE r.desde = k.hasta + 1
  <2>1. k \in Ledger(MisSalidas) /\ k.desde <= punta /\ r \in Trozo(k)
    BY <1>0, <1>1, <1>3
  <2>. HIDE DEF IInv, Ledger
  <2>. QED  BY <1>0, <2>1, TrozoPegado
<1>6. /\ UNCHANGED <<punta, cadena, semilla, caja, tip, celda>>
      /\ ocupado' = [tipo |-> "saldo", desde |-> r.desde, hasta |-> r.hasta, retro |-> r.retro,
                     salidas |-> k.entradas]
  BY <1>1 DEF Ocupar
<1>7. Tipos' /\ Alcance' /\ Semillas'
  <2>1. ocupado' \in Trabajos
    BY <1>3, <1>5, <1>6 DEF Tramos
  <2>. QED  BY <1>0, <1>2, <1>3, <1>4, <1>6, <2>1 DEF Tipos, Alcance, Semillas
<1>8. Gastadas' /\ SinHuecos'
  BY <1>2, <1>3, <1>4, <1>6 DEF Gastadas, SinHuecos, Mirado
<1>9. Trabajo'
  BY <1>0, <1>2, <1>3, <1>5, <1>6 DEF Trabajo, Pegado, Tramos
<1>10. Resultado'
  BY <1>0, <1>6 DEF Resultado
<1>. QED  BY <1>7, <1>8, <1>9, <1>10

LEMMA PasoLanzaCaja == ASSUME NEW urge \in BOOLEAN, IInv, LanzaCaja(urge) PROVE IInv'
<1>0. ocupado = Nada /\ tip \in Nat /\ tip <= punta /\ punta \in Nat /\ LOOKBACK \in Nat
      /\ caja \in Ledger(SalidasCaja) /\ caja.desde <= punta
      /\ UNCHANGED libro /\ UNCHANGED disco /\ forzar' = forzar /\ pedido' = pedido
      /\ forzar \in BOOLEAN /\ pedido \in BOOLEAN /\ (pedido => semilla)
  BY LibroAssumption DEF LanzaCaja, IInv, Tipos, Alcance, Semillas
<1>1. PICK r \in SiguienteTrozo(caja) : Ocupar("caja", r, {})
  BY DEF LanzaCaja
<1>2. /\ r \in Tramos /\ r.hasta <= punta
      /\ caja.listo => IF r.retro THEN r.hasta = caja.desde - 1 ELSE r.desde = caja.hasta + 1
      /\ ~caja.listo => ~r.retro
  <2>1. CASE caja.listo
    <3>1. r \in Trozo(caja)
      BY <2>1 DEF SiguienteTrozo, Trozo
    <3>. QED  BY <1>0, <2>1, <3>1, TrozoPegado
  <2>2. CASE ~caja.listo
    <3>1. r = [desde |-> Menos(tip, LOOKBACK), hasta |-> tip, retro |-> FALSE]
      BY <2>2 DEF SiguienteTrozo
    <3>. QED  BY <1>0, <2>2, <3>1, MenosNat DEF Tramos
  <2>. QED  BY <2>1, <2>2
<1>3. Trabajo'
  <2>1. ocupado' = [tipo |-> "caja", desde |-> r.desde, hasta |-> r.hasta, retro |-> r.retro, salidas |-> {}]
        /\ UNCHANGED <<punta, caja>>
    BY <1>1 DEF Ocupar, chain
  <2>. QED  BY <1>0, <1>2, <2>1 DEF Trabajo, Pegado, Tramos
<1>. QED  BY <1>0, <1>1, <1>2, <1>3, PasoLanza

-----------------------------------------------------------------------------
(* The job runs.                                                           *)

\* A result changes nothing until it is taken.
LEMMA PasoResulta ==
  ASSUME IInv, UNCHANGED <<punta, semilla, libro, caja, tip, forzar, pedido, ocupado, disco>>, Resultado'
  PROVE  IInv'
  BY DEF IInv, Tipos, Alcance, Semillas, Gastadas, Trabajo, Pegado, SinHuecos, Mirado

\* Every block of the job is on the chain by now, so all its outputs are seen.
LEMMA VeTodo ==
  ASSUME IInv, ocupado # Nada
  PROVE  /\ ocupado.tipo = "saldo" => Vistas(MisSalidas) = EnTramo(MisSalidas)
         /\ ocupado.tipo = "caja" => Vistas(SalidasCaja) = EnTramo(SalidasCaja)
<1>1. ocupado.tipo \in {"saldo", "caja"} => ocupado.hasta <= punta
  BY DEF IInv, Trabajo, Pegado
<1>2. ocupado.desde \in Nat /\ ocupado.hasta \in Nat /\ punta \in Nat
  BY DEF IInv, Tipos
<1>3. \A s \in MisSalidas \cup SalidasCaja : Altura[s] \in Nat
  BY AlturaNat DEF Salidas
<1>. QED  BY <1>1, <1>2, <1>3 DEF Vistas, EnTramo

\* A result carries the newest block, or what stands in for it: never a block
\* that the chain does not have.
LEMMA TipDeResultado ==
  ASSUME IInv, ocupado # Nada, EsMirada, NEW t \in {punta, TipSupuesto}
  PROVE  t \in Nat /\ t <= punta
<1>1. punta \in Nat /\ (ocupado.tipo \in {"saldo", "caja"} => ocupado.hasta \in Nat /\ ocupado.hasta <= punta)
  BY DEF IInv, Tipos, Trabajo, Pegado
<1>2. ocupado.tipo = "podar" => tip \in Nat /\ tip <= punta
  BY DEF IInv, Tipos, Alcance, Trabajo
<1>. QED  BY <1>1, <1>2 DEF EsMirada, TipSupuesto

LEMMA PasoResultado ==
  ASSUME IInv, ocupado # Nada, UNCHANGED <<punta, ocupado>>, NEW t \in Nat, t <= punta,
         NEW ok \in BOOLEAN, NEW e, NEW p \in SUBSET MisSalidas, Resulta(ok, e, p, t),
         ok /\ EsMirada => e = Vistas(Buscadas)
  PROVE  Resultado'
<1>1. celda' = [ok |-> ok, tramo |-> Tramo(t), entradas |-> e, podar |-> p, tip |-> t]
  BY DEF Resulta
<1>2. ok => /\ ocupado.tipo = "saldo" => e = Vistas(MisSalidas)
            /\ ocupado.tipo = "caja" => e = Vistas(SalidasCaja)
            /\ ocupado.tipo = "podar" => e = {}
  BY DEF EsMirada, Buscadas, Vistas
<1>. QED  BY <1>1, <1>2, VeTodo DEF Resultado, Tramo, EnPunta, EnTramo

LEMMA PasoCorre == IInv /\ (Corre \/ CorreMal) => IInv'
<1>. SUFFICES ASSUME IInv, Corre \/ CorreMal PROVE IInv'
  OBVIOUS
<1>0. /\ ocupado # Nada /\ UNCHANGED <<punta, semilla, libro, caja, tip, forzar, pedido, ocupado, disco>>
  BY DEF Corre, CorreMal
<1>1. /\ {} \in SUBSET MisSalidas /\ ocupado.salidas \cap cadena \in SUBSET MisSalidas
      /\ punta \in Nat /\ punta <= punta
  BY <1>0 DEF IInv, Tipos
<1>2. Resultado'
  <2>1. ASSUME NEW ok \in BOOLEAN, Resulta(ok, {}, {}, punta), ok => ~EsMirada PROVE Resultado'
    BY <1>0, <1>1, <2>1, PasoResultado
  <2>2. ASSUME NEW t \in {punta, TipSupuesto}, NEW p \in {{}, ocupado.salidas \cap cadena}, EsMirada,
               Resulta(TRUE, Vistas(Buscadas), p, t)
        PROVE  Resultado'
    <3>1. t \in Nat /\ t <= punta
      BY <1>0, <2>2, TipDeResultado
    <3>. QED  BY <1>0, <1>1, <2>2, <3>1, PasoResultado
  <2>3. CASE Corre
    <3>1. \/ ocupado.tipo \in {"tip", "envio"} /\ \E ok \in BOOLEAN : Resulta(ok, {}, {}, punta)
          \/ EsMirada /\ Resulta(TRUE, Vistas(Buscadas), ocupado.salidas \cap cadena, punta)
      BY <2>3 DEF Corre
    <3>2. ocupado.tipo \in {"tip", "envio"} => ~EsMirada
      BY DEF EsMirada
    <3>. QED  BY <2>1, <2>2, <3>1, <3>2
  <2>4. CASE CorreMal
    <3>1. \/ Resulta(FALSE, {}, {}, punta)
          \/ EsMirada /\ \E t \in {punta, TipSupuesto}, p \in {{}, ocupado.salidas \cap cadena} :
                           Resulta(TRUE, Vistas(Buscadas), p, t)
      BY <2>4 DEF CorreMal
    <3>. QED  BY <2>1, <2>2, <3>1
  <2>. QED  BY <2>3, <2>4
<1>. QED  BY <1>0, <1>2, PasoResulta

-----------------------------------------------------------------------------
(* The tick takes the result.                                              *)

LEMMA PasoTomaAviso == IInv /\ TomaAviso => IInv'
<1>. SUFFICES ASSUME IInv, TomaAviso PROVE IInv'
  OBVIOUS
<1>1. /\ UNCHANGED <<punta, semilla, libro, caja, tip, forzar, pedido, disco>>
      /\ ocupado' = Nada /\ celda' = Nada
  BY DEF TomaAviso, Toma, chain
<1>. QED  BY <1>1 DEF IInv, Tipos, Alcance, Semillas, Gastadas, Trabajo, Resultado, SinHuecos, Mirado

LEMMA PasoTomaTip == IInv /\ TomaTip => IInv'
<1>. SUFFICES ASSUME IInv, TomaTip PROVE IInv'
  OBVIOUS
<1>1. /\ UNCHANGED <<punta, semilla, libro, caja, forzar, pedido, disco>>
      /\ ocupado' = Nada /\ celda' = Nada /\ tip' \in {tip, celda.tip}
  BY DEF TomaTip, Toma, Oye, chain
<1>2. celda.tip \in Nat /\ celda.tip <= punta
  BY DEF TomaTip, Toma, IInv, Resultado
<1>. QED  BY <1>1, <1>2 DEF IInv, Tipos, Alcance, Semillas, Gastadas, Trabajo, Resultado, SinHuecos, Mirado

\* The wallet's ledger with a result: written to the disk with it.
LEMMA PasoTomaLibro ==
  ASSUME IInv, semilla, NEW l \in Ledger(MisSalidas), Guarda(l), Mirado(l, MisSalidas),
         l.entradas \cap l.gastadas = {},
         UNCHANGED <<chain, semilla, caja, forzar, pedido>>, ocupado' = Nada, celda' = Nada,
         tip' \in Nat \cup {Nada}, tip' # Nada => tip' <= punta
  PROVE  IInv'
<1>. USE DEF IInv, chain
<1>1. /\ libro' = l /\ disco'.libro = l /\ disco'.caja = disco.caja /\ disco'.semilla = disco.semilla
      /\ disco' \in [semilla : BOOLEAN, libro : Ledger(MisSalidas), caja : Ledger(SalidasCaja)]
  BY DEF Guarda, Tipos
<1>2. Tipos' /\ Alcance' /\ Semillas'
  BY <1>1 DEF Tipos, Alcance, Semillas
<1>3. Gastadas' /\ SinHuecos'
  BY <1>1 DEF Gastadas, SinHuecos, Mirado
<1>4. Trabajo' /\ Resultado'
  BY DEF Trabajo, Resultado
<1>. QED  BY <1>2, <1>3, <1>4

LEMMA PasoTomaEnvio == IInv /\ TomaEnvio => IInv'
<1>. SUFFICES ASSUME IInv, TomaEnvio PROVE IInv'
  OBVIOUS
<1>0. /\ UNCHANGED <<chain, semilla, caja, tip, forzar, pedido>> /\ ocupado # Nada
      /\ ocupado.tipo = "envio" /\ ocupado' = Nada /\ celda' = Nada
  BY DEF TomaEnvio, Toma
<1>1. /\ semilla /\ ocupado.salidas \in SUBSET MisSalidas /\ libro \in Ledger(MisSalidas)
      /\ tip' \in Nat \cup {Nada} /\ (tip' # Nada => tip' <= punta) /\ Mirado(libro, MisSalidas)
      /\ libro.entradas \cap libro.gastadas = {}
  BY <1>0 DEF IInv, Tipos, Alcance, Trabajo, SinHuecos, Gastadas
<1>2. CASE celda.ok
  <2>. DEFINE l == MarcarGastadas(libro, ocupado.salidas)
  <2>1. Guarda(l)
    BY <1>2 DEF TomaEnvio
  <2>2. l \in Ledger(MisSalidas) /\ Mirado(l, MisSalidas) /\ l.entradas \cap l.gastadas = {}
    BY <1>1, MarcarTipo, MarcarMira, MarcarCampos
  <2>. HIDE DEF l
  <2>. QED  BY <1>0, <1>1, <2>1, <2>2, PasoTomaLibro
<1>3. CASE ~celda.ok
  <2>1. UNCHANGED <<libro, disco>>
    BY <1>3 DEF TomaEnvio
  <2>. QED  BY <1>0, <2>1 DEF IInv, chain, Tipos, Alcance, Semillas, Gastadas, Trabajo, Resultado,
                               SinHuecos, Mirado
<1>. QED  BY <1>2, <1>3

LEMMA PasoTomaSaldo == IInv /\ TomaSaldo => IInv'
<1>. SUFFICES ASSUME IInv, TomaSaldo PROVE IInv'
  OBVIOUS
<1>. DEFINE fundido == Fundir(libro, celda.entradas)
            sumado == MarcarGastadas(fundido, celda.podar)
            l == IF HuboScan THEN Avanzo(sumado, celda.tramo) ELSE sumado
<1>0. /\ UNCHANGED <<chain, semilla, caja, forzar, pedido>> /\ ocupado # Nada /\ celda # Nada
      /\ ocupado.tipo \in {"saldo", "podar"} /\ ocupado' = Nada /\ celda' = Nada
      /\ tip' = celda.tip /\ celda.ok /\ Guarda(l)
  BY DEF TomaSaldo, Toma, Oye
<1>1. /\ semilla /\ celda.podar \in SUBSET MisSalidas /\ libro \in Ledger(MisSalidas)
      /\ tip' \in Nat /\ tip' <= punta /\ Mirado(libro, MisSalidas) /\ MisSalidas \in SUBSET Salidas
      /\ libro.entradas \cap libro.gastadas = {} /\ ocupado \in Trabajos /\ punta \in Nat
  BY <1>0 DEF IInv, Tipos, Alcance, Trabajo, Resultado, SinHuecos, Gastadas, Salidas
<1>2. celda.entradas \in SUBSET MisSalidas
  BY <1>0 DEF IInv, Resultado, EnTramo
<1>3. /\ fundido \in Ledger(MisSalidas) /\ Mirado(fundido, MisSalidas)
      /\ fundido.desde = libro.desde /\ fundido.hasta = libro.hasta /\ fundido.listo = libro.listo
      /\ fundido.gastadas = libro.gastadas
      /\ fundido.entradas = libro.entradas \cup (celda.entradas \ libro.gastadas)
  BY <1>1, <1>2, FundirTipo, FundirMira DEF Fundir
<1>. HIDE DEF fundido
<1>4. /\ sumado \in Ledger(MisSalidas) /\ Mirado(sumado, MisSalidas)
      /\ sumado.desde = libro.desde /\ sumado.hasta = libro.hasta /\ sumado.listo = libro.listo
      /\ sumado.entradas \cap sumado.gastadas = {}
      /\ celda.entradas \subseteq sumado.entradas \cup sumado.gastadas
  BY <1>1, <1>3, MarcarTipo, MarcarMira, MarcarCampos
<1>. HIDE DEF sumado
<1>5. l \in Ledger(MisSalidas) /\ Mirado(l, MisSalidas) /\ l.entradas \cap l.gastadas = {}
  <2>1. CASE ~HuboScan
    BY <1>4, <2>1
  <2>2. CASE HuboScan
    <3>1. ocupado.tipo = "saldo"
      BY <1>0, <2>2 DEF HuboScan, IInv, Resultado, EnPunta
    <3>2. /\ celda.tramo = [desde |-> ocupado.desde, hasta |-> ocupado.hasta, retro |-> ocupado.retro]
          /\ celda.entradas = EnTramo(MisSalidas) /\ libro.listo /\ Pegado(libro)
      BY <1>0, <3>1 DEF IInv, Resultado, Trabajo
    <3>3. /\ celda.tramo \in Tramos
          /\ IF celda.tramo.retro THEN celda.tramo.hasta = sumado.desde - 1
                                  ELSE celda.tramo.desde = sumado.hasta + 1
          /\ {s \in MisSalidas : Altura[s] \in celda.tramo.desde..celda.tramo.hasta}
               \subseteq sumado.entradas \cup sumado.gastadas
      BY <1>1, <1>4, <3>2 DEF Tramos, Pegado, EnTramo
    <3>4. Avanzo(sumado, celda.tramo) \in Ledger(MisSalidas)
      BY <1>4, <3>3, AvanzoTipo
    <3>5. Mirado(Avanzo(sumado, celda.tramo), MisSalidas)
      BY <1>1, <1>4, <3>2, <3>3, AvanzoMira
    <3>6. /\ Avanzo(sumado, celda.tramo).entradas = sumado.entradas
          /\ Avanzo(sumado, celda.tramo).gastadas = sumado.gastadas
      BY <1>4 DEF Avanzo
    <3>. QED  BY <1>4, <2>2, <3>4, <3>5, <3>6
  <2>. QED  BY <2>1, <2>2
<1>. HIDE DEF l
<1>. QED  BY <1>0, <1>1, <1>5, PasoTomaLibro

LEMMA PasoTomaCaja == IInv /\ TomaCaja => IInv'
<1>. SUFFICES ASSUME IInv, TomaCaja PROVE IInv'
  OBVIOUS
<1>. DEFINE sumado == FundirCaja(caja, celda.entradas)
            l == IF ~ocupado.retro /\ ~caja.listo
                 THEN [sumado EXCEPT !.desde = celda.tramo.desde, !.hasta = celda.tramo.hasta, !.listo = TRUE]
                 ELSE Avanzo(sumado, celda.tramo)
<1>0. /\ UNCHANGED <<chain, semilla, libro, forzar, pedido>> /\ ocupado # Nada /\ celda # Nada
      /\ ocupado.tipo = "caja" /\ ocupado' = Nada /\ celda' = Nada
      /\ tip' = celda.tip /\ celda.ok /\ GuardaCaja(l)
  BY DEF TomaCaja, Toma, Oye
<1>1. /\ caja \in Ledger(SalidasCaja) /\ caja.desde <= punta /\ caja.gastadas = {}
      /\ tip' \in Nat /\ tip' <= punta /\ Mirado(caja, SalidasCaja) /\ SalidasCaja \in SUBSET Salidas
      /\ ocupado \in Trabajos /\ punta \in Nat /\ forzar' \in BOOLEAN /\ Pegado(caja)
  BY <1>0 DEF IInv, Tipos, Alcance, Trabajo, Resultado, SinHuecos, Gastadas, Salidas
<1>2. /\ celda.tramo = [desde |-> ocupado.desde, hasta |-> ocupado.hasta, retro |-> ocupado.retro]
      /\ celda.entradas = EnTramo(SalidasCaja)
  BY <1>0 DEF IInv, Resultado
<1>3. /\ sumado \in Ledger(SalidasCaja) /\ Mirado(sumado, SalidasCaja)
      /\ sumado.desde = caja.desde /\ sumado.hasta = caja.hasta /\ sumado.listo = caja.listo
      /\ sumado.entradas = caja.entradas \cup celda.entradas /\ sumado.gastadas = {}
  BY <1>1, <1>2 DEF FundirCaja, Mirado, EnTramo
<1>. HIDE DEF sumado
<1>4. celda.tramo \in Tramos /\ celda.tramo.hasta <= punta
  BY <1>1, <1>2 DEF Tramos, Pegado
<1>5. l \in Ledger(SalidasCaja) /\ Mirado(l, SalidasCaja) /\ l.desde <= punta /\ l.gastadas = {}
  <2>1. CASE ~ocupado.retro /\ ~caja.listo
    <3>1. /\ l \in Ledger(SalidasCaja) /\ l.listo /\ l.desde = celda.tramo.desde
          /\ l.hasta = celda.tramo.hasta /\ l.entradas = sumado.entradas /\ l.gastadas = {}
      BY <1>3, <1>4, <2>1 DEF Tramos
    <3>2. Mirado(l, SalidasCaja)
      BY <1>2, <1>3, <3>1 DEF Mirado, EnTramo
    <3>. QED  BY <1>1, <1>4, <3>1, <3>2 DEF Tramos
  <2>2. CASE ~(~ocupado.retro /\ ~caja.listo)
    <3>1. l = Avanzo(sumado, celda.tramo)
      BY <2>2
    <3>2. /\ sumado.listo
          /\ IF celda.tramo.retro THEN celda.tramo.hasta = sumado.desde - 1
                                  ELSE celda.tramo.desde = sumado.hasta + 1
      BY <1>1, <1>2, <1>3, <2>2 DEF Pegado
    <3>3. {s \in SalidasCaja : Altura[s] \in celda.tramo.desde..celda.tramo.hasta}
            \subseteq sumado.entradas \cup sumado.gastadas
      BY <1>2, <1>3 DEF EnTramo
    <3>4. l \in Ledger(SalidasCaja)
      BY <1>3, <1>4, <3>1, AvanzoTipo
    <3>5. Mirado(l, SalidasCaja)
      BY <1>1, <1>3, <1>4, <3>1, <3>2, <3>3, AvanzoMira
    <3>6. l.gastadas = {} /\ l.desde <= punta
      BY <1>1, <1>3, <1>4, <3>1, <3>2 DEF Avanzo, Tramos
    <3>. QED  BY <3>4, <3>5, <3>6
  <2>. QED  BY <2>1, <2>2
<1>. HIDE DEF l
<1>6. Trabajo' /\ Resultado'
  BY <1>0 DEF Trabajo, Resultado
<1>. QED  BY <1>0, <1>1, <1>5, <1>6, PasoCaja

LEMMA PasoCaida == IInv /\ Caida => IInv'
<1>. SUFFICES ASSUME IInv, Caida PROVE IInv'
  OBVIOUS
<1>. USE DEF IInv, chain
<1>. DEFINE l == [disco.libro EXCEPT !.entradas = @ \ disco.libro.gastadas]
<1>1. /\ l \in Ledger(MisSalidas) /\ l.desde = disco.libro.desde /\ l.hasta = disco.libro.hasta
      /\ l.listo = disco.libro.listo /\ l.gastadas = disco.libro.gastadas
      /\ l.entradas = disco.libro.entradas \ disco.libro.gastadas
      /\ (disco.libro = Nuevo => l = Nuevo)
  <2>1. disco.libro \in Ledger(MisSalidas)
    BY DEF Tipos
  <2>2. disco.libro = Nuevo => l = Nuevo
    <3>1. SUFFICES ASSUME disco.libro = Nuevo PROVE l = Nuevo
      OBVIOUS
    <3>2. l = [Nuevo EXCEPT !.entradas = @ \ Nuevo.gastadas]
      BY <3>1
    <3>. HIDE DEF l
    <3>3. Nuevo.entradas \ Nuevo.gastadas = Nuevo.entradas
      BY DEF Nuevo
    <3>. QED  BY <3>2, <3>3 DEF Nuevo
  <2>. QED  BY <2>1, <2>2
<1>2. /\ libro' = l /\ caja' = disco.caja /\ semilla' = disco.semilla /\ tip' = Nada
      /\ forzar' = FALSE /\ pedido' = FALSE /\ ocupado' = Nada /\ celda' = Nada
      /\ UNCHANGED <<punta, disco>>
  BY DEF Caida
<1>. HIDE DEF l
<1>3. Tipos' /\ Alcance' /\ Semillas'
  BY <1>1, <1>2 DEF Tipos, Alcance, Semillas
<1>4. Gastadas' /\ SinHuecos'
  BY <1>1, <1>2 DEF Gastadas, SinHuecos, Mirado
<1>5. Trabajo' /\ Resultado'
  BY <1>2 DEF Trabajo, Resultado
<1>. QED  BY <1>3, <1>4, <1>5

-----------------------------------------------------------------------------
LEMMA Sigue == IInv /\ [Next]_vars => IInv'
<1>. SUFFICES ASSUME IInv, [Next]_vars PROVE IInv'
  OBVIOUS
<1>1. CASE Bloque \/ (\E s \in MisSalidas : GastaOtro(s) \/ ConsumirFondeo(s))
  BY <1>1, PasoBloque, PasoUsuarioQuieto, PasoConsumir
<1>2. CASE Usuario
  BY <1>2, PasoUsuarioQuieto, PasoUsuarioSemilla, PasoPedirAtras, PasoPedirAtrasCaja DEF Usuario
<1>3. CASE LanzaTip \/ LanzaEnvio \/ LanzaSaldo \/ LanzaPodar \/ LanzaCaja(TRUE) \/ LanzaCaja(FALSE)
  BY <1>3, PasoLanzaSinBloques, PasoLanzaSaldo, PasoLanzaCaja
<1>4. CASE Corre \/ CorreMal \/ Tomar
  BY <1>4, PasoCorre, PasoTomaTip, PasoTomaSaldo, PasoTomaCaja, PasoTomaEnvio, PasoTomaAviso DEF Tomar
<1>5. CASE Caida
  BY <1>5, PasoCaida
<1>6. CASE UNCHANGED vars
  BY <1>6, PasoQuieto DEF vars, IInv, Tipos, Semillas
<1>. QED  BY <1>1, <1>2, <1>3, <1>4, <1>5, <1>6 DEF Next

\* What a step may do to the outputs known to be spent.
LEMMA PasoNoRevive ==
  ASSUME IInv, [Next]_vars, NEW s \in libro.gastadas
  PROVE  s \notin libro'.entradas /\ s \in libro'.gastadas
<1>. USE DEF IInv
<1>0. IInv' /\ libro \in Ledger(MisSalidas)
  BY Sigue DEF Tipos
<1>1. s \in libro'.gastadas
  <2>2. ASSUME NEW u \in SUBSET MisSalidas, libro' = MarcarGastadas(libro, u) PROVE s \in libro'.gastadas
    BY <1>0, <2>2, MarcarCampos
  <2>3. CASE UNCHANGED libro
    BY <2>3
  <2>4. CASE Usuario
    <3>1. CASE semilla
      <4>1. libro' = libro \/ libro' = [libro EXCEPT !.retro = @ + PASO_ATRAS]
        BY <2>4, <3>1 DEF Usuario, CrearSemilla, RestaurarSemilla, PedirActualizacion, PedirAtras,
                          PedirAtrasCaja, PedirEnvio, Guarda
      <4>. QED  BY <1>0, <4>1
    <3>2. CASE ~semilla
      BY <3>2 DEF Semillas, Nuevo
    <3>. QED  BY <3>1, <3>2
  <2>5. CASE LanzaSaldo
    BY <1>0, <2>5, PreparadoMira DEF LanzaSaldo, MiraSaldo, Tipos
  <2>6. CASE TomaSaldo
    <3>. DEFINE fundido == Fundir(libro, celda.entradas)
                sumado == MarcarGastadas(fundido, celda.podar)
    <3>1. libro' \in {sumado, Avanzo(sumado, celda.tramo)}
      BY <2>6 DEF TomaSaldo, Guarda
    <3>2. celda.podar \in SUBSET MisSalidas /\ celda.entradas \in SUBSET MisSalidas
      BY <2>6 DEF TomaSaldo, Toma, Resultado, EnTramo
    <3>3. fundido \in Ledger(MisSalidas) /\ fundido.gastadas = libro.gastadas
      BY <1>0, <3>2, FundirTipo DEF Fundir
    <3>. HIDE DEF fundido
    <3>4. sumado \in Ledger(MisSalidas) /\ s \in sumado.gastadas
      BY <3>2, <3>3, MarcarTipo, MarcarCampos
    <3>. HIDE DEF sumado
    <3>5. Avanzo(sumado, celda.tramo).gastadas = sumado.gastadas
      BY <3>4 DEF Avanzo
    <3>. QED  BY <3>1, <3>4, <3>5
  <2>7. CASE TomaEnvio
    <3>1. libro' = libro \/ libro' = MarcarGastadas(libro, ocupado.salidas)
      BY <2>7 DEF TomaEnvio, Guarda
    <3>2. ocupado.salidas \in SUBSET MisSalidas
      BY <2>7 DEF TomaEnvio, Toma, Tipos
    <3>. QED  BY <2>2, <2>3, <3>1, <3>2
  <2>8. ASSUME NEW x \in MisSalidas, ConsumirFondeo(x) PROVE s \in libro'.gastadas
    <3>1. libro' = MarcarGastadas(libro, {x})
      BY <2>8 DEF ConsumirFondeo, Guarda
    <3>. QED  BY <2>2, <3>1
  <2>9. CASE Caida
    <3>1. libro' = [disco.libro EXCEPT !.entradas = @ \ disco.libro.gastadas]
      BY <2>9 DEF Caida
    <3>. QED  BY <3>1 DEF Tipos, Gastadas
  <2>10. CASE \/ Bloque \/ (\E x \in MisSalidas : GastaOtro(x)) \/ LanzaTip \/ LanzaEnvio \/ LanzaPodar
              \/ LanzaCaja(TRUE) \/ LanzaCaja(FALSE) \/ Corre \/ CorreMal \/ TomaTip \/ TomaCaja
              \/ TomaAviso \/ UNCHANGED vars
    <3>1. UNCHANGED libro
      BY <2>10 DEF Bloque, GastaOtro, LanzaTip, LanzaEnvio, LanzaPodar, LanzaCaja, Corre, CorreMal,
                   TomaTip, TomaCaja, TomaAviso, vars
    <3>. QED  BY <2>3, <3>1
  <2>. QED  BY <2>4, <2>5, <2>6, <2>7, <2>8, <2>9, <2>10 DEF Next, Tomar
<1>2. libro'.entradas \cap libro'.gastadas = {}
  BY <1>0 DEF Gastadas
<1>. QED  BY <1>1, <1>2

\* The inductive invariant holds of every behaviour of the ledgers.
THEOREM Invariante == Spec => []IInv
<1>. QED  BY Empieza, Sigue, PTL DEF Spec

-----------------------------------------------------------------------------
(* What the known tip is worth.                                            *)

\* Until a query fails the known tip is the newest block heard of, and a result
\* that waits was asked for later than any block was heard of.
Oidas ==
  /\ oido \in Nat /\ oido <= punta /\ usos \in [{"pedidos", "gastos", "malas"} -> Nat]
  /\ usos.malas = 0 => /\ tip # Nada => tip = oido
                       /\ celda # Nada => celda.tip >= oido

LEMMA EmpiezaOidas == Init => Oidas
  BY LibroAssumption DEF Init, Oidas

LEMMA MayorNat == \A a, b \in Nat : /\ Mayor(a, b) \in Nat /\ Mayor(a, b) >= a /\ Mayor(a, b) >= b
                                    /\ (a <= b => Mayor(a, b) = b)
                                    /\ \A c \in Nat : a <= c /\ b <= c => Mayor(a, b) <= c
  BY DEF Mayor

\* A step that hears nothing: the counts of the bounds only grow.
LEMMA NadaOido ==
  ASSUME IInv, Oidas, UNCHANGED <<punta, sabido>>, celda' \in {celda, Nada},
         usos' = usos \/ \E q \in {"pedidos", "gastos"} : usos' = [usos EXCEPT ![q] = @ + 1]
  PROVE  Oidas'
<1>1. usos' \in [{"pedidos", "gastos", "malas"} -> Nat] /\ usos'.malas = usos.malas
  BY DEF Oidas
<1>. QED  BY <1>1 DEF Oidas

LEMMA PasoOye ==
  ASSUME IInv, Oidas, celda # Nada, Oye(celda.tip), celda' = Nada, UNCHANGED <<punta, usos>>
  PROVE  Oidas'
<1>1. celda.tip \in Nat /\ celda.tip <= punta /\ punta \in Nat /\ oido \in Nat /\ oido <= punta
  BY DEF IInv, Tipos, Resultado, Oidas
<1>2. oido' \in Nat /\ oido' <= punta
  BY <1>1, MayorNat DEF Oye
<1>3. usos.malas = 0 => oido' = tip'
  BY <1>1, MayorNat DEF Oye, Oidas
<1>. QED  BY <1>2, <1>3 DEF Oidas

LEMMA SigueOidas == IInv /\ Oidas /\ [Next]_vars => Oidas'
<1>. SUFFICES ASSUME IInv, Oidas, [Next]_vars PROVE Oidas'
  OBVIOUS
<1>1. CASE Bloque
  BY <1>1 DEF Bloque, Oidas, IInv, Tipos
<1>2. CASE Usuario \/ (\E s \in MisSalidas : GastaOtro(s) \/ ConsumirFondeo(s))
  <2>1. /\ UNCHANGED <<punta, sabido>> /\ celda' \in {celda, Nada}
        /\ usos' = usos \/ \E q \in {"pedidos", "gastos"} : usos' = [usos EXCEPT ![q] = @ + 1]
    BY <1>2 DEF Usuario, CrearSemilla, RestaurarSemilla, PedirActualizacion, PedirAtras,
                PedirAtrasCaja, PedirEnvio, GastaOtro, ConsumirFondeo, Usa, chain
  <2>. QED  BY <2>1, NadaOido
<1>3. CASE LanzaTip \/ LanzaEnvio \/ LanzaSaldo \/ LanzaPodar \/ LanzaCaja(TRUE) \/ LanzaCaja(FALSE)
  <2>1. UNCHANGED <<punta, sabido, celda, usos>>
    BY <1>3 DEF LanzaTip, LanzaEnvio, LanzaSaldo, LanzaPodar, LanzaCaja, Ocupar, chain
  <2>. QED  BY <2>1, NadaOido
<1>4. CASE Corre
  <2>1. celda'.tip = punta /\ UNCHANGED <<punta, sabido, usos>>
    BY <1>4 DEF Corre, Resulta
  <2>2. oido <= punta /\ punta \in Nat
    BY DEF Oidas, IInv, Tipos
  <2>. QED  BY <2>1, <2>2 DEF Oidas
<1>5. CASE CorreMal \/ Caida
  <2>1. /\ usos' = [usos EXCEPT !["malas"] = @ + 1] /\ UNCHANGED punta
        /\ oido' \in {oido, 0}
    BY <1>5 DEF CorreMal, Caida, Usa, chain
  <2>2. usos' \in [{"pedidos", "gastos", "malas"} -> Nat] /\ usos'.malas # 0
    BY <2>1 DEF Oidas
  <2>. QED  BY <2>1, <2>2 DEF Oidas, IInv, Tipos
<1>6. CASE TomaTip /\ celda.ok
  BY <1>6, PasoOye DEF TomaTip, Toma, chain
<1>7. CASE TomaSaldo
  BY <1>7, PasoOye DEF TomaSaldo, Toma, chain
<1>8. CASE TomaCaja
  BY <1>8, PasoOye DEF TomaCaja, Toma, chain
<1>9. CASE (TomaTip /\ ~celda.ok) \/ TomaEnvio \/ TomaAviso \/ UNCHANGED vars
  <2>1. UNCHANGED <<punta, sabido, usos>> /\ celda' \in {celda, Nada}
    BY <1>9 DEF TomaTip, TomaEnvio, TomaAviso, Toma, chain, vars
  <2>. QED  BY <2>1, NadaOido
<1>. QED  BY <1>1, <1>2, <1>3, <1>4, <1>5, <1>6, <1>7, <1>8, <1>9 DEF Next, Tomar

LEMMA InvarianteOidas == Spec => []Oidas
<1>. QED  BY EmpiezaOidas, SigueOidas, Invariante, PTL DEF Spec

\* Every output in a block between the two ends of a ledger is listed or known
\* to be spent, in memory and on the disk (lanzar_saldo, tomar_listo).
THEOREM NoHayHuecos == Spec => []SinHuecos
<1>1. IInv => SinHuecos
  BY DEF IInv
<1>. QED  BY <1>1, Invariante, PTL

\* A payment is told there is no money in the box only if fewer than two
\* outputs lie in the blocks asked for, up to the known tip; and up to the newest
\* block heard of, while no query has failed (cobertura_caja, tip().unwrap_or).
THEOREM FaltaSoloSiFalta == Spec => []FaltaDeVerdad
<1>1. IInv /\ Oidas => FaltaDeVerdad
  <2>. SUFFICES ASSUME IInv, Oidas, Cobertura(caja) = "sin_saldo"
                PROVE  Cardinality({s \in SalidasCaja :
                                      Altura[s] \in Menos(caja.desde, caja.retro)..TipCreido}) < 2
    BY DEF FaltaDeVerdad
  <2>. DEFINE pedidas == {s \in SalidasCaja : Altura[s] \in Menos(caja.desde, caja.retro)..TipCreido}
  <2>1. /\ caja.listo /\ caja.hasta >= tip /\ caja.retro = 0 /\ tip # Nada
        /\ ~(Cardinality(caja.entradas) >= 2)
    BY DEF Cobertura, CobCubierta
  <2>2. caja \in Ledger(SalidasCaja) /\ caja.gastadas = {} /\ tip \in Nat /\ Mirado(caja, SalidasCaja)
    BY <2>1 DEF IInv, Tipos, Gastadas, SinHuecos
  <2>3. Menos(caja.desde, caja.retro) = caja.desde
    BY <2>1, <2>2 DEF Menos
  <2>4. \A s \in SalidasCaja : Altura[s] \in Nat
    BY AlturaNat DEF Salidas
  <2>9. TipCreido = tip
    BY <2>1 DEF TipCreido, Oidas
  <2>5. pedidas \subseteq caja.entradas
    BY <2>1, <2>2, <2>3, <2>4, <2>9 DEF Mirado
  <2>. HIDE DEF pedidas
  <2>6. IsFiniteSet(caja.entradas)
    BY <2>2, LibroAssumption, FS_Subset
  <2>7. Cardinality(caja.entradas) \in Nat /\ Cardinality(pedidas) \in Nat
        /\ Cardinality(pedidas) <= Cardinality(caja.entradas)
    BY <2>5, <2>6, FS_Subset, FS_CardinalityType
  <2>8. Cardinality(pedidas) < 2
    BY <2>1, <2>7
  <2>. QED  BY <2>8 DEF pedidas
<1>. QED  BY <1>1, Invariante, InvarianteOidas, PTL

\* An output known to be spent is never listed again, whatever is scanned,
\* sent, answered late or restarted (fundir_entradas, gastadas).
THEOREM LoGastadoNoVuelve == Spec => NoRevive
<1>1. IInv /\ [Next]_vars => [\A s \in MisSalidas : s \in libro.gastadas =>
                                s \notin libro'.entradas /\ s \in libro'.gastadas]_vars
  BY PasoNoRevive
<1>. QED  BY <1>1, Invariante, PTL DEF Spec, NoRevive

=============================================================================
