--------------------------------- MODULE Gasto ---------------------------------
(***************************************************************************)
(* The payment of a stage both people are settling: the session between    *)
(* their two boxes (crates/konstruado-motor/src/caja.rs) that ends in one  *)
(* transaction of the box signed by both (crates/xmr-joint/src/spend.rs).  *)
(* Trato has this session as one step; here it is taken apart.             *)
(*                                                                         *)
(* The principal proposes a transaction; each side opens a signing session *)
(* for it and sends its half of the nonces (spend-open, spend-pre), signs  *)
(* with the other's half and sends a share, and completes with the other's *)
(* share.  Both complete; the principal publishes.  A session is named by  *)
(* its number and used once.                                               *)
(*                                                                         *)
(* Loops, messages and jobs are as in Fondeo.  fallas, caidas and vueltas  *)
(* count what goes wrong, the restarts, and the times a person goes back   *)
(* on a payment that stopped; together they stop at MaxTropiezos.  Both    *)
(* have wallet, box and the address of the other.                          *)
(***************************************************************************)
EXTENDS Naturals, FiniteSets, Sequences, SequencesExt

CONSTANTS
  Mandante, Contratista, Nada,
  Pcts,         \* the percentages people ask for
  MaxNotas,     \* bound: counter-offers
  MaxTropiezos, \* bound: times something goes wrong or a person goes back
  MaxIntentos,  \* bound: transactions proposed
  MaxSesiones   \* bound: sessions a box opens

Partes == {Mandante, Contratista}

ASSUME GastoAssumption ==
  /\ Mandante # Contratista
  /\ Pcts # {} /\ Pcts \subseteq 0 .. 100
  /\ MaxNotas \in Nat /\ MaxTropiezos \in Nat /\ MaxIntentos \in Nat /\ MaxSesiones \in Nat

VARIABLES
  copia,    \* each person's copy of the stage: thread, percentage, turn, state
  gasto,    \* the entry of each box, or Nada
  red,      \* the messages on their way to each box
  ocupado,  \* the background job of the principal's box, or Nada
  espera,   \* the file with the transaction the principal waits for, or Nada
  tarde,    \* those who look after the transaction left the blocks looked at
  cadena,   \* the transactions the network accepted
  acordado, \* history: the percentages each person asked for or accepted
  firmadas, \* history: the transactions each person signed
  sesiones, \* the sessions each box opened
  intentos, fallas, caidas, vueltas \* counters of the bounds

historia == <<acordado, firmadas>>
cuentas == <<sesiones, intentos>>
tropiezos == <<fallas, caidas, vueltas>>
vars == <<copia, gasto, red, ocupado, espera, tarde, cadena, historia, cuentas, tropiezos>>

Otro(n) == IF n = Mandante THEN Contratista ELSE Mandante

EnTrato == 3
Pagada == 4

(* The flags of an entry (struct Gasto): a peer to write to, soy_mandante, *)
(* avisar, blob, visto.                                                    *)
Marcas == {"peer", "mandante", "avisar", "blob", "visto"}

Propuesta == [pct : Pcts, num : 1 .. MaxIntentos]
Tx == [etapa : {1}, monto : Pcts, entradas : {{"caja"}}, num : 1 .. MaxIntentos]
Ids == 1 .. MaxSesiones
Sesion == [prop : Propuesta, mia : Ids]
Firmada == [prop : Propuesta, mia : Ids, suya : Ids]
Parte == [prop : Propuesta, de : Ids, con : Ids]

(* error is "caja" when the box had no outputs to spend (sin-saldo-caja).  *)
Entrada == [marcas : SUBSET Marcas, pct : Pcts \cup {0},
            propuesta : Propuesta \cup {Nada}, sesion : Sesion \cup {Nada},
            firmada : Firmada \cup {Nada}, pre : Ids \cup {Nada}, share : Parte \cup {Nada},
            tx : Tx \cup {Nada}, error : {Nada, "caja", "otro"}]

(* Nada stands for None.                                                   *)
ASSUME NadaAssumption ==
  /\ Nada \notin Entrada /\ Nada \notin Propuesta /\ Nada \notin Sesion
  /\ Nada \notin Firmada /\ Nada \notin Parte /\ Nada \notin Tx /\ Nada \notin {"caja", "otro"}

Pasos == {"spend-pedir", "spend-open", "spend-pre", "spend-share", "spend-tx", "spend-error"}

TypeOK ==
  /\ copia \in [Partes -> [notas : 0 .. MaxNotas, pct : Pcts, turno : Partes,
                           estado : {EnTrato, Pagada}]]
  /\ \A n \in Partes : gasto[n] # Nada => gasto[n] \in Entrada
  /\ \A n \in Partes : \A k \in DOMAIN red[n] : red[n][k].paso \in Pasos
  /\ espera = Nada \/ espera \in Tx
  /\ tarde \subseteq Partes /\ cadena \subseteq Tx
  /\ sesiones \in [Partes -> 0 .. MaxSesiones]

-----------------------------------------------------------------------------
(* The contractor has reported the stage finished and asked for pct.       *)
Init ==
  /\ \E pct \in Pcts :
       /\ copia = [n \in Partes |->
                    [notas |-> 0, pct |-> pct, turno |-> Mandante, estado |-> EnTrato]]
       /\ acordado = [n \in Partes |->
                       IF n = Contratista THEN {[etapa |-> 1, monto |-> pct]} ELSE {}]
  /\ gasto = [n \in Partes |-> Nada]
  /\ red = [n \in Partes |-> << >>]
  /\ ocupado = Nada /\ espera = Nada
  /\ tarde = {} /\ cadena = {}
  /\ firmadas = [n \in Partes |-> {}]
  /\ sesiones = [n \in Partes |-> 0]
  /\ intentos = 0 /\ fallas = 0 /\ caidas = 0 /\ vueltas = 0

Mensaje(paso, c) == [paso |-> paso, cuerpo |-> c]
Envia(n, m) == red' = [red EXCEPT ![Otro(n)] = Append(@, m)]

Tiene(g, marca) == g # Nada /\ marca \in g.marcas
Con(g, marca) == [g EXCEPT !.marcas = @ \cup {marca}]
Sin(g, marca) == [g EXCEPT !.marcas = @ \ {marca}]
Pon(n, g) == gasto' = [gasto EXCEPT ![n] = g]

QuedanTropiezos == fallas + caidas + vueltas < MaxTropiezos

EnPago(n) == copia[n].estado = EnTrato

(* limpiar_resueltos runs before the other steps of a tick.                *)
Viva(n) == gasto[n] # Nada /\ EnPago(n)

(* What the steps of a tick ask for: an entry that has not stopped, and    *)
(* whose request left (avisar_pedidos comes first in a tick).              *)
Anda(n) == Viva(n) /\ gasto[n].error = Nada /\ ~Tiene(gasto[n], "avisar")

-----------------------------------------------------------------------------
SinNada == [marcas |-> {}, pct |-> 0, propuesta |-> Nada, sesion |-> Nada, firmada |-> Nada,
            pre |-> Nada, share |-> Nada, tx |-> Nada, error |-> Nada]

(* pedir_gasto: a new entry for the percentage of this copy.  What the     *)
(* entry it replaces knew, a transaction included, is forgotten.           *)
Nueva(n) ==
  [SinNada EXCEPT !.marcas = {"peer", "avisar"} \cup (IF n = Mandante THEN {"mandante"} ELSE {}),
                  !.pct = copia[n].pct]

(* fallar: the entry stops and the other box is told.                      *)
Falla(n, causa) ==
  LET g == gasto[n] IN
  /\ IF g = Nada THEN UNCHANGED gasto ELSE Pon(n, Sin([g EXCEPT !.error = causa], "avisar"))
  /\ IF Tiene(g, "peer") THEN Envia(n, Mensaje("spend-error", Nada)) ELSE UNCHANGED red

(* texto_gasto and en_curso: what hides the buttons.                       *)
Pagando(n) ==
  LET g == gasto[n] IN
  g # Nada /\ (g.error = Nada \/ (Tiene(g, "visto") /\ g.tx # Nada))

Toca(n) == EnPago(n) /\ copia[n].turno = n /\ ~Pagando(n)

Acuerda(n, pct) == acordado' = [acordado EXCEPT ![n] = @ \cup {[etapa |-> 1, monto |-> pct]}]

(* A person moves while an entry is stopped: it counts as going back.      *)
Vuelve(n) ==
  /\ gasto[n] # Nada => QuedanTropiezos
  /\ vueltas' = IF gasto[n] = Nada THEN vueltas ELSE vueltas + 1

(* "Accept and pay" (pedir_gasto).                                         *)
Aceptar(n) ==
  /\ Toca(n)
  /\ Pon(n, Nueva(n))
  /\ Acuerda(n, copia[n].pct)
  /\ Vuelve(n)
  /\ UNCHANGED <<copia, red, ocupado, espera, tarde, cadena, firmadas, cuentas, fallas, caidas>>

(* "Other percent" (contra_pago).                                          *)
Contraofertar(n, pct) ==
  /\ Toca(n) /\ pct # copia[n].pct /\ copia[n].notas < MaxNotas
  /\ copia' = [copia EXCEPT ![n] = [notas |-> copia[n].notas + 1, pct |-> pct,
                                    turno |-> Otro(n), estado |-> EnTrato]]
  /\ Acuerda(n, pct)
  /\ Vuelve(n)
  /\ UNCHANGED <<gasto, red, ocupado, espera, tarde, cadena, firmadas, cuentas, fallas, caidas>>

(* "Scan further back" (pedir_atras_caja) starts a stopped payment again.  *)
PedirAtras(n) ==
  /\ gasto[n] # Nada /\ gasto[n].error = "caja"
  /\ Pon(n, [gasto[n] EXCEPT !.error = Nada])
  /\ UNCHANGED <<copia, red, ocupado, espera, tarde, cadena, historia, cuentas, tropiezos>>

(* The copies are merged (Partida::fusionar): a paid stage wins, then the  *)
(* longer thread.                                                          *)
Fusionar(n) ==
  LET o == copia[Otro(n)]
      p == copia[n]
  IN /\ p.estado < o.estado \/ (p.estado = o.estado /\ p.estado = EnTrato /\ p.notas < o.notas)
     /\ copia' = [copia EXCEPT ![n] = o]
     /\ UNCHANGED <<gasto, red, ocupado, espera, tarde, cadena, historia, cuentas, tropiezos>>

-----------------------------------------------------------------------------
(* The steps of a tick.                                                    *)

Limpiar(n) ==
  /\ gasto[n] # Nada /\ ~EnPago(n)
  /\ Pon(n, Nada)
  /\ espera' = IF n = Mandante THEN Nada ELSE espera
  /\ UNCHANGED <<copia, red, ocupado, tarde, cadena, historia, cuentas, tropiezos>>

(* avisar_pedidos: ask the other box to open its entry.  The message does  *)
(* not say the percentage.                                                 *)
Avisar(n) ==
  /\ Viva(n) /\ Tiene(gasto[n], "avisar") /\ gasto[n].error = Nada
  /\ Envia(n, Mensaje("spend-pedir", Nada))
  /\ Pon(n, Sin(gasto[n], "avisar"))
  /\ UNCHANGED <<copia, ocupado, espera, tarde, cadena, historia, cuentas, tropiezos>>

(* busca_entradas: the principal has no transaction to propose yet.        *)
FaltaPropuesta(n) ==
  /\ Anda(n) /\ ocupado = Nada
  /\ Tiene(gasto[n], "mandante") /\ gasto[n].propuesta = Nada /\ gasto[n].tx = Nada

(* The scan shows the outputs of the box: their rings are fetched.         *)
Anillar(n) ==
  /\ FaltaPropuesta(n) /\ intentos < MaxIntentos
  /\ ocupado' = [trabajo |-> "anillar", tx |-> Nada]
  /\ UNCHANGED <<copia, gasto, red, espera, tarde, cadena, historia, cuentas, tropiezos>>

(* The scan does not show them, or they are locked.                        *)
SinCaja(n, causa) ==
  /\ FaltaPropuesta(n) /\ QuedanTropiezos
  /\ Falla(n, causa)
  /\ fallas' = fallas + 1
  /\ UNCHANGED <<copia, ocupado, espera, tarde, cadena, historia, cuentas, caidas, vueltas>>

Anillando == ocupado # Nada /\ ocupado.trabajo = "anillar"

(* tomar_listo: the node of the chain did not answer.                      *)
NoAnillo ==
  /\ Anillando /\ QuedanTropiezos
  /\ Falla(Mandante, "otro")
  /\ ocupado' = Nada
  /\ fallas' = fallas + 1
  /\ UNCHANGED <<copia, espera, tarde, cadena, historia, cuentas, caidas, vueltas>>

(* armar_gasto (spend::propose): the transaction pays the percentage of    *)
(* the entry.                                                              *)
Armar ==
  LET g == gasto[Mandante] IN
  /\ Anillando
  /\ IF Tiene(g, "mandante")
       THEN /\ Pon(Mandante, [g EXCEPT !.propuesta = [pct |-> g.pct, num |-> intentos + 1],
                                       !.error = Nada])
            /\ intentos' = intentos + 1
       ELSE UNCHANGED <<gasto, intentos>>
  /\ ocupado' = Nada
  /\ UNCHANGED <<copia, red, espera, tarde, cadena, historia, sesiones, tropiezos>>

(* firmar_si_puede, SpendSession::open: a session with fresh nonces; the   *)
(* contractor does not compare the percentage with its own.                *)
Abrir(n) ==
  LET g == gasto[n]
      id == sesiones[n] + 1
  IN /\ Anda(n) /\ g.propuesta # Nada /\ g.sesion = Nada /\ g.firmada = Nada
     /\ sesiones[n] < MaxSesiones
     /\ Pon(n, [g EXCEPT !.sesion = [prop |-> g.propuesta, mia |-> id]])
     /\ Envia(n, IF Tiene(g, "mandante")
                   THEN Mensaje("spend-open", [prop |-> g.propuesta, pre |-> id])
                   ELSE Mensaje("spend-pre", id))
     /\ sesiones' = [sesiones EXCEPT ![n] = id]
     /\ UNCHANGED <<copia, ocupado, espera, tarde, cadena, historia, intentos, tropiezos>>

TxDe(p) == [etapa |-> 1, monto |-> p.pct, entradas |-> {"caja"}, num |-> p.num]

(* Mutant: the share is not sent.                                          *)
FirmarCallado(n) ==
  LET g == gasto[n] IN
  /\ Anda(n) /\ g.sesion # Nada /\ g.pre # Nada /\ g.firmada = Nada
  /\ Pon(n, [g EXCEPT !.sesion = Nada,
                      !.firmada = [prop |-> g.sesion.prop, mia |-> g.sesion.mia, suya |-> g.pre]])
  /\ firmadas' = [firmadas EXCEPT ![n] = @ \cup {TxDe(g.sesion.prop)}]
  /\ UNCHANGED <<copia, red, ocupado, espera, tarde, cadena, acordado, cuentas, tropiezos>>

(* SpendSession::sign uses the session up; the share is sent once.         *)
Firmar(n) ==
  LET g == gasto[n]
      s == g.sesion
  IN /\ Anda(n) /\ s # Nada /\ g.pre # Nada /\ g.firmada = Nada
     /\ Pon(n, [g EXCEPT !.sesion = Nada,
                         !.firmada = [prop |-> s.prop, mia |-> s.mia, suya |-> g.pre]])
     /\ Envia(n, Mensaje("spend-share", [prop |-> s.prop, de |-> s.mia, con |-> g.pre]))
     /\ firmadas' = [firmadas EXCEPT ![n] = @ \cup {TxDe(s.prop)}]
     /\ UNCHANGED <<copia, ocupado, espera, tarde, cadena, acordado, cuentas, tropiezos>>

(* Mutant: a share is taken without checking it.                           *)
CuadraSiempre(f, s) == TRUE

(* SpendSigned::complete: the share was made with these very sessions.     *)
Cuadra(f, s) == s = [prop |-> f.prop, de |-> f.suya, con |-> f.mia]

ListaParaCompletar(n) ==
  LET g == gasto[n] IN
  /\ Anda(n) /\ g.firmada # Nada /\ g.share # Nada /\ ~Tiene(g, "blob")
  /\ Tiene(g, "mandante") => ocupado = Nada

(* What may come of a broadcast: accepted; refused, always when the        *)
(* outputs are spent; the node was not reached; accepted but the answer    *)
(* was lost.                                                               *)
Difusiones ==
  IF cadena # {} THEN {"rechazo"}
  ELSE IF QuedanTropiezos THEN {"ok", "rechazo", "sin-respuesta"} ELSE {"ok"}

(* The contractor completes: it knows the transaction.                     *)
Completar ==
  LET g == gasto[Contratista] IN
  /\ ListaParaCompletar(Contratista) /\ Cuadra(g.firmada, g.share)
  /\ Pon(Contratista, Con([g EXCEPT !.firmada = Nada, !.tx = TxDe(g.firmada.prop)], "blob"))
  /\ UNCHANGED <<copia, red, ocupado, espera, tarde, cadena, historia, cuentas, tropiezos>>

(* The principal completes: the file is written and the broadcast starts.  *)
Publicar ==
  LET g == gasto[Mandante]
      t == TxDe(g.firmada.prop)
  IN /\ ListaParaCompletar(Mandante) /\ Cuadra(g.firmada, g.share)
     /\ Pon(Mandante, Con([g EXCEPT !.firmada = Nada, !.tx = t], "blob"))
     /\ espera' = t
     /\ \E r \in Difusiones :
          /\ ocupado' = [trabajo |-> r, tx |-> t]
          /\ cadena' = IF r = "rechazo" THEN cadena ELSE cadena \cup {t}
          /\ fallas' = IF r = "ok" \/ cadena # {} THEN fallas ELSE fallas + 1
     /\ UNCHANGED <<copia, red, tarde, historia, cuentas, caidas, vueltas>>

(* The share of another session: the entry stops, without its signature.   *)
NoCuadra(n) ==
  LET g == gasto[n] IN
  /\ ListaParaCompletar(n) /\ ~Cuadra(g.firmada, g.share)
  /\ Pon(n, Sin([g EXCEPT !.firmada = Nada, !.error = "otro"], "avisar"))
  /\ Envia(n, Mensaje("spend-error", Nada))
  /\ UNCHANGED <<copia, ocupado, espera, tarde, cadena, historia, cuentas, tropiezos>>

Publicando(r) == ocupado # Nada /\ ocupado.trabajo = r

(* tomar_listo, Publicado: the contractor is told, once.                   *)
Publicado ==
  /\ Publicando("ok")
  /\ IF Tiene(gasto[Mandante], "peer") THEN Envia(Mandante, Mensaje("spend-tx", ocupado.tx))
                                       ELSE UNCHANGED red
  /\ ocupado' = Nada
  /\ UNCHANGED <<copia, gasto, espera, tarde, cadena, historia, cuentas, tropiezos>>

NoPublicado ==
  /\ Publicando("rechazo") \/ Publicando("sin-respuesta")
  /\ Falla(Mandante, "otro")
  /\ ocupado' = Nada
  /\ UNCHANGED <<copia, espera, tarde, cadena, historia, cuentas, tropiezos>>

(* Mutant: knowing the transaction is taken for seeing it.                 *)
VerSinCadena(n) ==
  /\ Viva(n) /\ gasto[n].tx # Nada /\ ~Tiene(gasto[n], "visto")
  /\ Pon(n, Con([gasto[n] EXCEPT !.error = Nada], "visto"))
  /\ UNCHANGED <<copia, red, ocupado, espera, tarde, cadena, historia, cuentas, tropiezos>>

(* busca_ver and ver_txid: only the last blocks are looked at.             *)
Ver(n) ==
  LET g == gasto[n] IN
  /\ Viva(n) /\ g.tx \in cadena /\ ~Tiene(g, "visto") /\ n \notin tarde
  /\ Pon(n, Con([g EXCEPT !.error = Nada], "visto"))
  /\ UNCHANGED <<copia, red, ocupado, espera, tarde, cadena, historia, cuentas, tropiezos>>

(* hechos and aplicar_hechos_monero (aceptar_pago): the one whose turn it  *)
(* is marks the stage paid, with the percentage of the copy.               *)
Hecho(n) ==
  /\ Viva(n) /\ Tiene(gasto[n], "visto") /\ gasto[n].tx # Nada
  /\ copia[n].turno = n
  /\ copia' = [copia EXCEPT ![n].estado = Pagada]
  /\ UNCHANGED <<gasto, red, ocupado, espera, tarde, cadena, historia, cuentas, tropiezos>>

-----------------------------------------------------------------------------
(* ingerir: the messages, in order or not.                                 *)

Llega(n, k, paso) ==
  /\ k \in DOMAIN red[n] /\ red[n][k].paso = paso
  /\ k = 1 \/ QuedanTropiezos
  /\ red' = [red EXCEPT ![n] = RemoveAt(@, k)]
  /\ fallas' = IF k = 1 THEN fallas ELSE fallas + 1
  /\ UNCHANGED <<copia, ocupado, espera, tarde, cadena, historia, cuentas, caidas, vueltas>>

(* What the entry takes of a message, if there is one and it has a peer.   *)
Toma(n, k, paso, g) ==
  /\ Llega(n, k, paso)
  /\ IF Tiene(gasto[n], "peer") THEN Pon(n, g) ELSE UNCHANGED gasto

(* abrir_gasto_red: an entry for the percentage this copy shows.           *)
TomarPedido(n, k) ==
  /\ Llega(n, k, "spend-pedir")
  /\ IF gasto[n] = Nada /\ EnPago(n) THEN Pon(n, Nueva(n)) ELSE UNCHANGED gasto

(* tomar_apertura: whatever stopped the entry is forgotten.                *)
TomarApertura(n, k) ==
  LET g == gasto[n]
      c == red[n][k].cuerpo
  IN Toma(n, k, "spend-open",
          IF Tiene(g, "mandante") THEN g
          ELSE [g EXCEPT !.propuesta = c.prop, !.pre = c.pre, !.error = Nada])

TomarPre(n, k) == Toma(n, k, "spend-pre", [gasto[n] EXCEPT !.pre = red[n][k].cuerpo])

TomarParte(n, k) == Toma(n, k, "spend-share", [gasto[n] EXCEPT !.share = red[n][k].cuerpo])

TomarTx(n, k) ==
  Toma(n, k, "spend-tx", [gasto[n] EXCEPT !.tx = red[n][k].cuerpo, !.error = Nada])

(* fallo_par: without an entry, one that only shows the error.             *)
TomarError(n, k) ==
  /\ Llega(n, k, "spend-error")
  /\ Pon(n, IF gasto[n] = Nada THEN [SinNada EXCEPT !.marcas = {"peer"}, !.error = "otro"]
            ELSE [gasto[n] EXCEPT !.error = "otro"])

-----------------------------------------------------------------------------
Perder(n) ==
  /\ red[n] # << >> /\ QuedanTropiezos
  /\ red' = [red EXCEPT ![n] = Tail(@)]
  /\ fallas' = fallas + 1
  /\ UNCHANGED <<copia, gasto, ocupado, espera, tarde, cadena, historia, cuentas, caidas, vueltas>>

(* A box was away while the chain grew by more blocks than ver_txid looks  *)
(* back (LOOKBACK).                                                        *)
Tardar(n) ==
  /\ cadena # {} /\ n \notin tarde /\ QuedanTropiezos
  /\ tarde' = tarde \cup {n}
  /\ fallas' = fallas + 1
  /\ UNCHANGED <<copia, gasto, red, ocupado, espera, cadena, historia, cuentas, caidas, vueltas>>

(* Mutant: the file is not loaded.                                         *)
RecargadaVacia(t) == SinNada

Recargada(t) == [SinNada EXCEPT !.tx = t]

(* The program stops and starts again: cargar_esperas builds the entry     *)
(* from the file, without a peer; everything else of the box is lost.      *)
Caer(n) ==
  /\ QuedanTropiezos
  /\ Pon(n, IF n = Mandante /\ espera # Nada THEN Recargada(espera) ELSE Nada)
  /\ ocupado' = IF n = Mandante THEN Nada ELSE ocupado
  /\ caidas' = caidas + 1
  /\ UNCHANGED <<copia, red, espera, tarde, cadena, historia, cuentas, fallas, vueltas>>

-----------------------------------------------------------------------------
DePersona(n) == Aceptar(n) \/ PedirAtras(n) \/ \E pct \in Pcts : Contraofertar(n, pct)

DeTick(n) ==
  \/ Limpiar(n)
  \/ Avisar(n)
  \/ Anillar(n)
  \/ Abrir(n)
  \/ Firmar(n)
  \/ NoCuadra(n)
  \/ Ver(n)
  \/ Hecho(n)
  \/ Fusionar(n)

DeUno == Armar \/ Completar \/ Publicar \/ Publicado \/ NoPublicado

DeMensaje(n, k) ==
  \/ TomarPedido(n, k)
  \/ TomarApertura(n, k)
  \/ TomarPre(n, k)
  \/ TomarParte(n, k)
  \/ TomarTx(n, k)
  \/ TomarError(n, k)

Tropezar(n) ==
  \/ Perder(n)
  \/ Tardar(n)
  \/ Caer(n)
  \/ \E causa \in {"caja", "otro"} : SinCaja(n, causa)

Next ==
  \/ \E n \in Partes : DePersona(n) \/ DeTick(n) \/ Tropezar(n)
  \/ DeUno \/ NoAnillo
  \/ \E n \in Partes : \E k \in DOMAIN red[n] : DeMensaje(n, k)

Spec == Init /\ [][Next]_vars

-----------------------------------------------------------------------------
(* Fairness: the loops run, messages at the head arrive, jobs end and      *)
(* copies are merged.  Nothing a person does and nothing that goes wrong   *)
(* is fair.                                                                *)
SpecJusta ==
  /\ Spec
  /\ \A n \in Partes : WF_vars(DeTick(n))
  /\ WF_vars(Armar \/ Publicado \/ NoPublicado) /\ WF_vars(Completar) /\ WF_vars(Publicar)
  /\ \A n \in Partes : WF_vars(red[n] # << >> /\ DeMensaje(n, 1))

-----------------------------------------------------------------------------
(* Until a program restarts, the percentages people agreed to; after that, *)
(* any: spend-pedir does not say the percentage.                           *)
Consentido ==
  [n \in Partes |-> IF caidas = 0 THEN acordado[n] ELSE [etapa : {1}, monto : Pcts]]

Ambos == INSTANCE FirmaDeAmbos WITH Firmantes <- Partes, acordado <- Consentido

(* The session implements the abstract transaction: whatever is lost,      *)
(* overtaken or stopped, a payment the network accepts was signed by both, *)
(* spends the box once and, while no program restarts, pays a percentage   *)
(* that each asked for or accepted (SpendSigned::complete).                *)
FirmanAmbos == Ambos!Spec

(* Unless a person went back on it, the box of the principal knows the     *)
(* payment it broadcast until the stage is paid, also after a crash        *)
(* between the broadcast and its answer (guardar_espera, cargar_esperas).  *)
PagoNoSeOlvida ==
  vueltas = 0 => \A t \in cadena : EnPago(Mandante) => gasto[Mandante] # Nada /\ gasto[Mandante].tx = t

(* A stage shown as paid was paid, and the percentage of the receipt is    *)
(* the one the transaction split, unless a program restarted or a person   *)
(* went back on a payment that stopped (aceptar_pago from hechos).         *)
ReciboCuadra ==
  caidas = 0 /\ vueltas = 0 =>
    \A n \in Partes : copia[n].estado = Pagada => \E t \in cadena : t.monto = copia[n].pct

SinTropiezos == [](fallas = 0 /\ caidas = 0 /\ vueltas = 0)

PagadaEnAmbas == \A n \in Partes : copia[n].estado = Pagada

(* When nothing goes wrong and nobody goes back, a percentage that was     *)
(* accepted ends paid in both copies or a box shows that it stopped: the   *)
(* session never waits in silence (firmar_si_puede, fallar).               *)
PagoNoSeCuelga ==
  SinTropiezos =>
    \A n \in Partes :
      (gasto[n] # Nada)
        ~> (PagadaEnAmbas \/ \E m \in Partes : gasto[m] # Nada /\ gasto[m].error # Nada)

=============================================================================
