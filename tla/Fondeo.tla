-------------------------------- MODULE Fondeo --------------------------------
(***************************************************************************)
(* The funding of the stages two people are locking: the session between   *)
(* their two boxes (crates/konstruado-motor/src/caja.rs) that ends in one  *)
(* transaction signed by both (crates/xmr-joint/src/fund.rs).  Trato has   *)
(* this session as one step; here it is taken apart.                       *)
(*                                                                         *)
(* A box keeps one entry for each stage.  Its loop (tick, once a second)   *)
(* takes the messages that arrived and gives every entry the steps it may  *)
(* take; one step at a time is an action here.  One background job runs at *)
(* a time (ocupado): fetching the rings of an output, or the broadcast.    *)
(*                                                                         *)
(* red[n] holds the messages on their way to n.  They arrive in order      *)
(* unless something goes wrong: a message is lost or overtakes another, a  *)
(* program stops and starts again, the node of the chain does not answer   *)
(* or refuses: fallas counts these, and vueltas the times a person started *)
(* again or went back on a proposal.  Both together stop at MaxTropiezos.  *)
(*                                                                         *)
(* The stages are of different deals (a deal locks one at a time): they    *)
(* share the wallets and the job, not the messages.  An amount is named by *)
(* the number of the proposal it comes from (encerrar_seq).                *)
(***************************************************************************)
EXTENDS Naturals, FiniteSets, Sequences, SequencesExt

CONSTANTS
  Mandante, Contratista, Nada,
  Etapas,       \* the stages being locked
  Salidas,      \* Salidas[n]: the outputs of the wallet of n, found or not yet
  Halladas,     \* the outputs a wallet has found at the start
  Propone,      \* who proposed to lock the stages
  MaxTropiezos, \* bound: times something goes wrong or a person goes back
  MaxIntentos   \* bound: proposals a box makes

Partes == {Mandante, Contratista}

ASSUME FondeoAssumption ==
  /\ Mandante # Contratista /\ Propone \in Partes
  /\ Salidas[Mandante] \cap Salidas[Contratista] = {}
  /\ MaxTropiezos \in Nat /\ MaxIntentos \in Nat

VARIABLES
  copia,    \* each person's copy of the stage: state, number and proposer
  fondeo,   \* the entry of each box for each stage, or Nada
  red,      \* the messages on their way to each box
  ocupado,  \* the background job of each box, or Nada
  libro,    \* the free outputs each box has in its ledger
  ocultas,  \* the outputs the scan has not found yet
  mirado,   \* the scan went as far back as it will
  espera,   \* the file with the transaction the principal waits for, or Nada
  cadena,   \* the funding transactions the network accepted
  acordado, \* history: the amounts each person opened an entry for
  firmadas, \* history: the transactions each person signed
  fallas, vueltas, intentos \* counters of the bounds

billeteras == <<libro, ocultas, mirado>>
historia == <<acordado, firmadas>>
contadores == <<fallas, vueltas, intentos>>
vars == <<copia, fondeo, red, ocupado, billeteras, espera, cadena, historia, contadores>>

Otro(n) == IF n = Mandante THEN Contratista ELSE Mandante

Pendiente == 0
Encerrando == 1
Encerrada == 2

(* The flags of an entry (struct Fondeo), by the name of its field:        *)
(* soy_mandante, a peer to write to, avisar, viene_del_par, solo_aviso,    *)
(* espera_moneda, dije_busqueda, par_buscando, aviso_enviado, error, visto *)
Marcas == {"mandante", "peer", "avisar", "viene", "solo", "espera", "dije",
           "par", "enviado", "error", "visto"}

TodasLasSalidas == Salidas[Mandante] \cup Salidas[Contratista]
Montos == Nat \ {0}
Propuesta == [etapa : Etapas, monto : Montos, salida : TodasLasSalidas, num : Nat \ {0}]
Esqueleto == [propuesta : Propuesta, salida : TodasLasSalidas]
Tx == [etapa : Etapas, monto : Montos, entradas : SUBSET TodasLasSalidas]

(* aviso is a notice about one's own wallet or about the other's.          *)
Entrada == [marcas : SUBSET Marcas, monto : Montos \cup {0},
            aviso : {Nada, "propio", "otro"},
            propuesta : Propuesta \cup {Nada}, sobre : Propuesta \cup {Nada},
            esqueleto : Esqueleto \cup {Nada}, tx : Tx \cup {Nada},
            gastada : TodasLasSalidas \cup {Nada}]

(* Nada stands for None.                                                   *)
ASSUME NadaAssumption ==
  /\ Nada \notin Entrada /\ Nada \notin Propuesta /\ Nada \notin Esqueleto /\ Nada \notin Tx
  /\ Nada \notin TodasLasSalidas

Pasos == {"fund-pedir", "fund-proposal", "fund-skeleton", "fund-tx", "fund-abort",
          "sin-saldo", "buscando", "falla"}

TypeOK ==
  /\ copia \in [Partes -> [Etapas -> [seq : Montos, estado : 0 .. 2, por : Partes]]]
  /\ \A n \in Partes, e \in Etapas : fondeo[n][e] # Nada => fondeo[n][e] \in Entrada
  /\ \A n \in Partes : \A k \in DOMAIN red[n] :
       red[n][k].paso \in Pasos /\ red[n][k].etapa \in Etapas
  /\ \A n \in Partes : libro[n] \cup ocultas[n] \subseteq Salidas[n]
  /\ \A e \in Etapas : espera[e] = Nada \/ espera[e] \in Tx
  /\ cadena \subseteq Tx

-----------------------------------------------------------------------------
Init ==
  /\ copia = [n \in Partes |->
               [e \in Etapas |-> [seq |-> 1, estado |-> Encerrando, por |-> Propone]]]
  /\ fondeo = [n \in Partes |-> [e \in Etapas |-> Nada]]
  /\ red = [n \in Partes |-> << >>]
  /\ ocupado = [n \in Partes |-> Nada]
  /\ libro = [n \in Partes |-> Salidas[n] \cap Halladas]
  /\ ocultas = [n \in Partes |-> Salidas[n] \ Halladas]
  /\ mirado = [n \in Partes |-> FALSE]
  /\ espera = [e \in Etapas |-> Nada]
  /\ cadena = {}
  /\ acordado = [n \in Partes |-> {}]
  /\ firmadas = [n \in Partes |-> {}]
  /\ fallas = 0 /\ vueltas = 0 /\ intentos = 0

Mensaje(paso, e, c) == [paso |-> paso, etapa |-> e, cuerpo |-> c]

(* enviar_caja: the message leaves for the other box.                      *)
Envia(n, m) == red' = [red EXCEPT ![Otro(n)] = Append(@, m)]

Tiene(f, marca) == f # Nada /\ marca \in f.marcas

Con(f, marcas) == [f EXCEPT !.marcas = @ \cup marcas]
Sin(f, marcas) == [f EXCEPT !.marcas = @ \ marcas]
Poner(f, marca, si) == IF si THEN Con(f, {marca}) ELSE Sin(f, {marca})

Pon(n, e, f) == fondeo' = [fondeo EXCEPT ![n][e] = f]

EnEncierre(n, e) == copia[n][e].estado = Encerrando

(* limpiar_resueltos runs before the other steps of a tick: they only see  *)
(* entries whose stage is being locked.                                    *)
Viva(n, e) == fondeo[n][e] # Nada /\ EnEncierre(n, e)

-----------------------------------------------------------------------------
(* estado_de: what the ledger says of the money a funding needs.           *)
Monedas(n) ==
  IF libro[n] # {} THEN "libre" ELSE IF mirado[n] THEN "sin-saldo" ELSE "buscando"

(* insertar_fondeo: a new entry, opened here or by the other (viene).      *)
Nueva(n, e, viene) ==
  LET m == Monedas(n) IN
  [marcas |-> {"peer"}
     \cup (IF n = Mandante THEN {"mandante"} ELSE {})
     \cup (IF viene THEN {"viene"} ELSE {})
     \cup (IF m = "libre" /\ ~viene THEN {"avisar"} ELSE {})
     \cup (IF m = "buscando" THEN {"espera"} ELSE {"dije"})
     \cup (IF m = "sin-saldo" THEN {} ELSE {"enviado"}),
   monto |-> copia[n][e].seq,
   aviso |-> IF m = "sin-saldo" THEN "propio" ELSE Nada,
   propuesta |-> Nada, sobre |-> Nada, esqueleto |-> Nada, tx |-> Nada, gastada |-> Nada]

Acuerda(n, e) ==
  acordado' = [acordado EXCEPT ![n] = @ \cup {[etapa |-> e, monto |-> copia[n][e].seq]}]

(* fondeo_vacio: an entry that only shows what the other said.             *)
Vacia(marcas, aviso) ==
  [marcas |-> {"peer", "viene", "solo", "dije", "enviado"} \cup marcas, monto |-> 0,
   aviso |-> aviso,
   propuesta |-> Nada, sobre |-> Nada, esqueleto |-> Nada, tx |-> Nada, gastada |-> Nada]

(* limpiar_sesion_fondeo: forget the entry and its file unless the         *)
(* transaction was seen.                                                   *)
Limpia(f) == IF Tiene(f, "visto") THEN f ELSE Nada

BorraEspera(n, e, f) ==
  espera' = IF n = Mandante /\ ~Tiene(f, "visto") THEN [espera EXCEPT ![e] = Nada] ELSE espera

(* fallar: the entry stops and the other box is told.                      *)
Parada(f) == Sin(Con(f, {"error"}), {"espera"})

Falla(n, e, f) ==
  /\ Pon(n, e, Parada(f))
  /\ IF Tiene(f, "peer") THEN Envia(n, Mensaje("falla", e, Nada)) ELSE UNCHANGED red

(* texto_fondeo, en_curso and es_freno: what the screen makes of an entry. *)
EnRed(f) ==
  f # Nada /\ f.tx # Nada
    /\ ("visto" \in f.marcas \/ ("error" \notin f.marcas /\ f.aviso = Nada))

Frenado(f) ==
  f # Nada /\ ~("visto" \in f.marcas /\ f.tx # Nada)
    /\ ("error" \in f.marcas \/ f.aviso # Nada)

-----------------------------------------------------------------------------
(* What a person does.                                                     *)

(* "Confirm and fund" (pedir_fondeo), for the one who did not propose when *)
(* the box shows nothing about the stage.                                  *)
Confirmar(n, e) ==
  /\ EnEncierre(n, e) /\ copia[n][e].por # n
  /\ fondeo[n][e] = Nada
  /\ Pon(n, e, Nueva(n, e, FALSE))
  /\ Acuerda(n, e)
  /\ UNCHANGED <<copia, red, ocupado, billeteras, espera, cadena, firmadas, contadores>>

(* "Start funding again" (empezar_fondeo_de_nuevo): the other is told to   *)
(* drop the session and a fresh entry is opened.                           *)
Reempezar(n, e) ==
  /\ Viva(n, e) /\ Frenado(fondeo[n][e])
  /\ fallas + vueltas < MaxTropiezos
  /\ Envia(n, Mensaje("fund-abort", e, Nada))
  /\ BorraEspera(n, e, fondeo[n][e])
  /\ Pon(n, e, Nueva(n, e, FALSE))
  /\ Acuerda(n, e)
  /\ vueltas' = vueltas + 1
  /\ UNCHANGED <<copia, ocupado, billeteras, cadena, firmadas, fallas, intentos>>

(* "Do not lock" and "cancel"; or "leave stage (this device only)", which  *)
(* forgets the entry at once and tells the other box.                      *)
Cancelar(n, e) ==
  /\ EnEncierre(n, e) /\ ~EnRed(fondeo[n][e])
  /\ fallas + vueltas < MaxTropiezos
  /\ copia' = [copia EXCEPT ![n][e] = [seq |-> @.seq + 1, estado |-> Pendiente, por |-> @.por]]
  /\ \/ UNCHANGED <<fondeo, red, espera>>
     \/ /\ Pon(n, e, Limpia(fondeo[n][e]))
        /\ BorraEspera(n, e, fondeo[n][e])
        /\ Envia(n, Mensaje("fund-abort", e, Nada))
  /\ vueltas' = vueltas + 1
  /\ UNCHANGED <<ocupado, billeteras, cadena, historia, fallas, intentos>>

(* The lock is proposed again, at its own price.                           *)
Reproponer(n, e) ==
  /\ copia[n][e].estado = Pendiente
  /\ copia' = [copia EXCEPT ![n][e] = [seq |-> @.seq + 1, estado |-> Encerrando, por |-> n]]
  /\ UNCHANGED <<fondeo, red, ocupado, billeteras, espera, cadena, historia, contadores>>

(* The copies of the deal are merged (Partida::fusionar): the greater      *)
(* number wins, then the greater state.                                    *)
Fusionar(n, e) ==
  LET o == copia[Otro(n)][e]
      p == copia[n][e]
  IN /\ p.seq < o.seq \/ (p.seq = o.seq /\ p.estado < o.estado)
     /\ copia' = [copia EXCEPT ![n][e] = o]
     /\ UNCHANGED <<fondeo, red, ocupado, billeteras, espera, cadena, historia, contadores>>

-----------------------------------------------------------------------------
(* The steps of a tick.                                                    *)

(* limpiar_resueltos: forget the entries whose stage moved on.             *)
Limpiar(n, e) ==
  /\ fondeo[n][e] # Nada /\ ~EnEncierre(n, e)
  /\ Pon(n, e, Nada)
  /\ espera' = IF n = Mandante THEN [espera EXCEPT ![e] = Nada] ELSE espera
  /\ UNCHANGED <<copia, red, ocupado, billeteras, cadena, historia, contadores>>

(* soltar_avisos_con_moneda: the wallet can pay now.                       *)
SoltarAviso(n, e) ==
  LET f == fondeo[n][e] IN
  /\ Viva(n, e) /\ ~Tiene(f, "solo")
  /\ f.tx = Nada /\ f.aviso = "propio" /\ libro[n] # {}
  /\ LET g == Sin(Con([f EXCEPT !.aviso = Nada], {"enviado"}), {"espera"}) IN
       Pon(n, e, IF f.propuesta = Nada /\ f.sobre = Nada
                   THEN Poner(g, "avisar", ~Tiene(f, "viene")) ELSE g)
  /\ UNCHANGED <<copia, red, ocupado, billeteras, espera, cadena, historia, contadores>>

(* habilitar_pedidos: the output that was being looked for was found.      *)
Habilitar(n, e) ==
  LET f == fondeo[n][e] IN
  /\ Viva(n, e) /\ Tiene(f, "espera") /\ ~Tiene(f, "solo")
  /\ f.tx = Nada /\ f.aviso = Nada /\ libro[n] # {}
  /\ Pon(n, e, Poner(Sin(f, {"espera"}), "avisar", ~Tiene(f, "viene")))
  /\ UNCHANGED <<copia, red, ocupado, billeteras, espera, cadena, historia, contadores>>

(* avisar_pedidos: ask the other box to open its entry.                    *)
Avisar(n, e) ==
  /\ Viva(n, e) /\ Tiene(fondeo[n][e], "avisar")
  /\ Envia(n, Mensaje("fund-pedir", e, Nada))
  /\ Pon(n, e, Sin(fondeo[n][e], {"avisar", "espera"}))
  /\ UNCHANGED <<copia, ocupado, billeteras, espera, cadena, historia, contadores>>

(* emitir_bloqueos: tell the other that this wallet cannot pay, or is      *)
(* still looking.                                                          *)
EmitirAviso(n, e) ==
  LET f == fondeo[n][e] IN
  /\ Viva(n, e) /\ ocupado[n] = Nada
  /\ f.aviso = "propio" /\ ~Tiene(f, "enviado")
  /\ Envia(n, Mensaje("sin-saldo", e, Nada))
  /\ Pon(n, e, Con(f, {"enviado"}))
  /\ UNCHANGED <<copia, ocupado, billeteras, espera, cadena, historia, contadores>>

EmitirBusqueda(n, e) ==
  LET f == fondeo[n][e] IN
  /\ Viva(n, e) /\ ocupado[n] = Nada
  /\ Tiene(f, "espera") /\ ~Tiene(f, "dije") /\ ~Tiene(f, "solo")
  /\ Envia(n, Mensaje("buscando", e, Nada))
  /\ Pon(n, e, Con(f, {"dije"}))
  /\ UNCHANGED <<copia, ocupado, billeteras, espera, cadena, historia, contadores>>

(* The step that needs an output of the wallet (busca_entradas); in a tick *)
(* it comes after the request left (avisar_pedidos).                       *)
FaltaEntrada(n, e) ==
  LET f == fondeo[n][e] IN
  /\ Viva(n, e) /\ f.marcas \cap {"solo", "error", "avisar"} = {}
  /\ f.tx = Nada /\ f.aviso = Nada
  /\ IF Tiene(f, "mandante") THEN f.propuesta = Nada
                             ELSE f.sobre # Nada /\ f.esqueleto = Nada

(* cerrar_busqueda_vacia: the scan is over and no output was found.        *)
CerrarBusqueda(n, e) ==
  LET f == fondeo[n][e] IN
  /\ ocupado[n] = Nada /\ Monedas(n) = "sin-saldo"
  /\ FaltaEntrada(n, e) \/ (Viva(n, e) /\ Tiene(f, "espera") /\ ~Tiene(f, "solo")
                               /\ ~Tiene(f, "error") /\ f.tx = Nada /\ f.aviso = Nada)
  /\ Pon(n, e, Sin([f EXCEPT !.aviso = "propio"], {"enviado", "espera"}))
  /\ UNCHANGED <<copia, red, ocupado, billeteras, espera, cadena, historia, contadores>>

(* spawn_entradas: the rings of one output are fetched.  Nothing reserves  *)
(* the output.                                                             *)
Anillar(n, e, s) ==
  /\ ocupado[n] = Nada
  /\ FaltaEntrada(n, e) /\ ~Tiene(fondeo[n][e], "espera")
  /\ n = Mandante => intentos < MaxIntentos
  /\ Pon(n, e, [fondeo[n][e] EXCEPT !.gastada = s])
  /\ ocupado' = [ocupado EXCEPT ![n] = [trabajo |-> "anillar", etapa |-> e, de |-> s]]
  /\ UNCHANGED <<copia, red, billeteras, espera, cadena, historia, contadores>>

Anillando(n, e) == ocupado[n] # Nada /\ ocupado[n].trabajo = "anillar" /\ ocupado[n].etapa = e

Desocupa(n) == ocupado' = [ocupado EXCEPT ![n] = Nada]

(* tomar_listo: the node of the chain did not answer.                      *)
NoAnillo(n, e) ==
  /\ Anillando(n, e) /\ fallas + vueltas < MaxTropiezos
  /\ IF fondeo[n][e] = Nada THEN UNCHANGED <<fondeo, red>> ELSE Falla(n, e, fondeo[n][e])
  /\ Desocupa(n)
  /\ fallas' = fallas + 1
  /\ UNCHANGED <<copia, billeteras, espera, cadena, historia, vueltas, intentos>>

(* armar_fondeo for the principal: the proposal leaves, delivered or not.  *)
ArmarPropuesta(e) ==
  LET n == Mandante
      f == fondeo[n][e]
      p == [etapa |-> e, monto |-> f.monto, salida |-> ocupado[n].de, num |-> intentos + 1]
  IN /\ Anillando(n, e) /\ Tiene(f, "mandante")
     /\ Pon(n, e, Sin([f EXCEPT !.propuesta = p], {"error"}))
     /\ Envia(n, Mensaje("fund-proposal", e, p))
     /\ Desocupa(n)
     /\ intentos' = intentos + 1
     /\ UNCHANGED <<copia, billeteras, espera, cadena, historia, fallas, vueltas>>

TxDe(k) == [etapa |-> k.propuesta.etapa, monto |-> k.propuesta.monto,
            entradas |-> {k.propuesta.salida, k.salida}]

Firma(n, t) == firmadas' = [firmadas EXCEPT ![n] = @ \cup {t}]

(* armar_fondeo for the contractor (contratista_responde): the proposal    *)
(* must pay the capital of the stage; the inputs of this side are signed.  *)
ArmarEsqueleto(n, e) ==
  LET f == fondeo[n][e]
      k == [propuesta |-> f.sobre, salida |-> ocupado[n].de]
  IN /\ Anillando(n, e) /\ ~Tiene(f, "mandante")
     /\ f # Nada /\ f.sobre # Nada /\ f.sobre.monto = f.monto
     /\ Pon(n, e, Sin([f EXCEPT !.esqueleto = k], {"error"}))
     /\ Envia(n, Mensaje("fund-skeleton", e, k))
     /\ Firma(n, TxDe(k))
     /\ Desocupa(n)
     /\ UNCHANGED <<copia, billeteras, espera, cadena, acordado, contadores>>

(* The session is not there any more, or asks for another amount.          *)
ArmarNada(n, e) ==
  LET f == fondeo[n][e] IN
  /\ Anillando(n, e) /\ ~Tiene(f, "mandante")
  /\ IF f # Nada /\ f.sobre # Nada
       THEN f.sobre.monto # f.monto /\ Falla(n, e, f) ELSE UNCHANGED <<fondeo, red>>
  /\ Desocupa(n)
  /\ UNCHANGED <<copia, billeteras, espera, cadena, historia, contadores>>

(* Mutant: only the amount of the answer is compared.                      *)
RespondeMonto(k, p) == k.propuesta.monto = p.monto

(* mandante_cierra: the skeleton was made for this very proposal           *)
(* (verify_partial_signatures, alice_pre_sign_checks).                     *)
Responde(k, p) == k.propuesta = p

ListaParaCerrar(e) ==
  LET f == fondeo[Mandante][e] IN
  /\ Viva(Mandante, e) /\ Tiene(f, "mandante") /\ ocupado[Mandante] = Nada
  /\ f.propuesta # Nada /\ f.esqueleto # Nada /\ f.tx = Nada
  /\ ~Tiene(f, "error") /\ f.aviso = Nada

Conflicto(t) == \E u \in cadena : u.entradas \cap t.entradas # {}

(* What may come of a broadcast: accepted; refused, always when an output  *)
(* is spent; the node was not reached; accepted but the answer was lost.   *)
Difusiones(t) ==
  IF Conflicto(t) THEN {"rechazo"}
  ELSE IF fallas + vueltas < MaxTropiezos THEN {"ok", "rechazo", "sin-red", "sin-respuesta"} ELSE {"ok"}

(* cerrar_si_puede, mandante_cierra, publicar: the skeleton must answer    *)
(* this proposal; the file is written before the broadcast starts.         *)
Cerrar(e) ==
  LET f == fondeo[Mandante][e]
      t == TxDe([propuesta |-> f.propuesta, salida |-> f.esqueleto.salida])
  IN /\ ListaParaCerrar(e) /\ Responde(f.esqueleto, f.propuesta)
     /\ Pon(Mandante, e, [f EXCEPT !.tx = t])
     /\ espera' = [espera EXCEPT ![e] = t]
     /\ Firma(Mandante, t)
     /\ \E r \in Difusiones(t) :
          /\ ocupado' = [ocupado EXCEPT ![Mandante] = [trabajo |-> r, etapa |-> e, de |-> t]]
          /\ cadena' = IF r \in {"ok", "sin-respuesta"} THEN cadena \cup {t} ELSE cadena
          /\ fallas' = IF r = "ok" \/ Conflicto(t) THEN fallas ELSE fallas + 1
     /\ UNCHANGED <<copia, red, billeteras, acordado, vueltas, intentos>>

(* The skeleton answers another proposal: its check fails.                 *)
CerrarNo(e) ==
  LET f == fondeo[Mandante][e] IN
  /\ ListaParaCerrar(e) /\ ~Responde(f.esqueleto, f.propuesta)
  /\ Falla(Mandante, e, f)
  /\ UNCHANGED <<copia, ocupado, billeteras, espera, cadena, historia, contadores>>

Publicando(e, r) == /\ ocupado[Mandante] # Nada
                    /\ ocupado[Mandante].trabajo = r /\ ocupado[Mandante].etapa = e

(* consumir_fondeo_personal: the output leaves the ledger.                 *)
Consume(n, f) == libro' = [libro EXCEPT ![n] = @ \ {f.gastada}]

(* Mutant: the contractor is not told.                                     *)
PublicadoSinAviso(e) ==
  /\ Publicando(e, "ok")
  /\ IF fondeo[Mandante][e] = Nada THEN UNCHANGED libro ELSE Consume(Mandante, fondeo[Mandante][e])
  /\ Desocupa(Mandante)
  /\ UNCHANGED <<copia, fondeo, red, ocultas, mirado, espera, cadena, historia, contadores>>

(* tomar_listo, Publicado: the contractor is told, once.                   *)
Publicado(e) ==
  LET f == fondeo[Mandante][e] IN
  /\ Publicando(e, "ok")
  /\ IF f = Nada THEN UNCHANGED <<libro, red>>
       ELSE /\ Consume(Mandante, f)
            /\ IF Tiene(f, "peer") THEN Envia(Mandante, Mensaje("fund-tx", e, ocupado[Mandante].de))
                                   ELSE UNCHANGED red
  /\ Desocupa(Mandante)
  /\ UNCHANGED <<copia, fondeo, ocultas, mirado, espera, cadena, historia, contadores>>

(* Mutant: the output is taken for spent although the broadcast failed.    *)
NoPublicadoGastando(e) ==
  /\ Publicando(e, "sin-red") \/ Publicando(e, "sin-respuesta")
  /\ fondeo[Mandante][e] # Nada
  /\ Falla(Mandante, e, fondeo[Mandante][e])
  /\ Consume(Mandante, fondeo[Mandante][e])
  /\ Desocupa(Mandante)
  /\ UNCHANGED <<copia, ocultas, mirado, espera, cadena, historia, contadores>>

(* Mutant: any failure is taken for a refusal.                             *)
NoPublicadoReinicia(e) ==
  LET f == fondeo[Mandante][e] IN
  /\ Publicando(e, "sin-red") \/ Publicando(e, "sin-respuesta")
  /\ Envia(Mandante, Mensaje("fund-abort", e, Nada))
  /\ Pon(Mandante, e, Limpia(f))
  /\ BorraEspera(Mandante, e, f)
  /\ Desocupa(Mandante)
  /\ UNCHANGED <<copia, billeteras, cadena, historia, contadores>>

(* The broadcast failed: the entry stops but keeps its transaction.        *)
NoPublicado(e) ==
  /\ Publicando(e, "sin-red") \/ Publicando(e, "sin-respuesta")
  /\ IF fondeo[Mandante][e] = Nada THEN UNCHANGED <<fondeo, red>>
                                  ELSE Falla(Mandante, e, fondeo[Mandante][e])
  /\ Desocupa(Mandante)
  /\ UNCHANGED <<copia, billeteras, espera, cadena, historia, contadores>>

(* The node refused it (es_rechazo_fondeo): both sides drop the session    *)
(* (reiniciar_fondeo_tras_rechazo).                                        *)
Rechazado(e) ==
  LET f == fondeo[Mandante][e] IN
  /\ Publicando(e, "rechazo")
  /\ red' = IF Tiene(f, "peer")
              THEN [red EXCEPT ![Contratista] = @ \o <<Mensaje("falla", e, Nada),
                                                       Mensaje("fund-abort", e, Nada)>>]
              ELSE red
  /\ Pon(Mandante, e, Limpia(f))
  /\ BorraEspera(Mandante, e, f)
  /\ Desocupa(Mandante)
  /\ UNCHANGED <<copia, billeteras, cadena, historia, contadores>>

(* busca_ver and the scan of the box: the transaction is in a block.       *)
Ver(n, e) ==
  LET f == fondeo[n][e] IN
  /\ Viva(n, e) /\ f.tx \in cadena /\ ~Tiene(f, "visto")
  /\ Pon(n, e, Sin(Con(f, {"visto"}), {"error"}))
  /\ UNCHANGED <<copia, red, ocupado, billeteras, espera, cadena, historia, contadores>>

(* hechos and aplicar_hechos_monero: the one who did not propose confirms. *)
Hecho(n, e) ==
  /\ Viva(n, e) /\ Tiene(fondeo[n][e], "visto") /\ fondeo[n][e].tx # Nada
  /\ copia[n][e].por # n
  /\ copia' = [copia EXCEPT ![n][e].estado = Encerrada]
  /\ UNCHANGED <<fondeo, red, ocupado, billeteras, espera, cadena, historia, contadores>>

-----------------------------------------------------------------------------
(* ingerir: the messages, in order or not.                                 *)

Llega(n, k, paso) ==
  /\ k \in DOMAIN red[n] /\ red[n][k].paso = paso
  /\ k = 1 \/ fallas + vueltas < MaxTropiezos
  /\ red' = [red EXCEPT ![n] = RemoveAt(@, k)]
  /\ fallas' = IF k = 1 THEN fallas ELSE fallas + 1

(* soltar_aviso_ajeno: the other is at it again.                           *)
SoltarAjeno(f) ==
  Sin(IF f.aviso = "otro" THEN [f EXCEPT !.aviso = Nada] ELSE f, {"par"})

(* abrir_fondeo_red: opens an entry, in the place of one that only shows a *)
(* notice; one in progress stays as it is.                                 *)
TomarPedido(n, k) ==
  LET e == red[n][k].etapa
      f == fondeo[n][e]
      vacio == f = Nada \/ (Tiene(f, "solo") /\ f.tx = Nada)
  IN /\ Llega(n, k, "fund-pedir")
     /\ IF vacio /\ EnEncierre(n, e)
          THEN Pon(n, e, Nueva(n, e, TRUE)) /\ Acuerda(n, e)
          ELSE Pon(n, e, IF vacio THEN Nada ELSE SoltarAjeno(f)) /\ UNCHANGED acordado
     /\ UNCHANGED <<copia, ocupado, billeteras, espera, cadena, firmadas, vueltas, intentos>>

(* tomar_propuesta: kept by the contractor if there is an entry.           *)
TomarPropuesta(n, k) ==
  LET e == red[n][k].etapa
      f == fondeo[n][e]
  IN /\ Llega(n, k, "fund-proposal")
     /\ IF f = Nada \/ Tiene(f, "mandante") THEN UNCHANGED fondeo
          ELSE Pon(n, e, Sin(SoltarAjeno([f EXCEPT !.sobre = red[n][k].cuerpo]), {"error"}))
     /\ UNCHANGED <<copia, ocupado, billeteras, espera, cadena, historia, vueltas, intentos>>

TomarEsqueleto(n, k) ==
  LET e == red[n][k].etapa
      f == fondeo[n][e]
  IN /\ Llega(n, k, "fund-skeleton")
     /\ IF Tiene(f, "mandante")
          THEN Pon(n, e, Sin(SoltarAjeno([f EXCEPT !.esqueleto = red[n][k].cuerpo]), {"error"}))
          ELSE UNCHANGED fondeo
     /\ UNCHANGED <<copia, ocupado, billeteras, espera, cadena, historia, vueltas, intentos>>

(* tomar_txid: the output the entry took last leaves the ledger.           *)
TomarTx(n, k) ==
  LET e == red[n][k].etapa
      f == fondeo[n][e]
  IN /\ Llega(n, k, "fund-tx")
     /\ IF Tiene(f, "peer")
          THEN Pon(n, e, Sin([f EXCEPT !.tx = red[n][k].cuerpo], {"error"})) /\ Consume(n, f)
          ELSE UNCHANGED <<fondeo, libro>>
     /\ UNCHANGED <<copia, ocupado, ocultas, mirado, espera, cadena, historia, vueltas, intentos>>

(* fund-abort and partida-salida.                                          *)
TomarAborto(n, k) ==
  LET e == red[n][k].etapa IN
  /\ Llega(n, k, "fund-abort")
  /\ BorraEspera(n, e, fondeo[n][e])
  /\ Pon(n, e, Limpia(fondeo[n][e]))
  /\ UNCHANGED <<copia, ocupado, billeteras, cadena, historia, vueltas, intentos>>

(* fallo_par: a notice (poner_aviso_par), a search (marcar_busqueda_par)   *)
(* or an error of the other.                                               *)
ConAviso(f) ==
  IF f = Nada THEN Vacia({}, "otro")
  ELSE Sin(Con([f EXCEPT !.aviso = "otro"], {"enviado"}), {"espera", "par", "error"})

ConBusqueda(f) ==
  IF f = Nada THEN Vacia({"par"}, Nada)
  ELSE IF f.propuesta = Nada /\ f.sobre = Nada /\ f.tx = Nada THEN Con(f, {"par"}) ELSE f

ConError(f) == IF f = Nada THEN Vacia({"error"}, Nada) ELSE Con(f, {"error", "enviado"})

TomarFallo(n, k, paso, f) ==
  /\ Llega(n, k, paso)
  /\ Pon(n, red[n][k].etapa, f)
  /\ UNCHANGED <<copia, ocupado, billeteras, espera, cadena, historia, vueltas, intentos>>

TomarFallos(n, k) ==
  LET f == fondeo[n][red[n][k].etapa] IN
  \/ TomarFallo(n, k, "sin-saldo", ConAviso(f))
  \/ TomarFallo(n, k, "buscando", ConBusqueda(f))
  \/ TomarFallo(n, k, "falla", ConError(f))

-----------------------------------------------------------------------------
(* The wallet, the network and the program.                                *)

(* The scan finds what it had not found yet.                               *)
Hallar(n) ==
  /\ ocultas[n] # {}
  /\ libro' = [libro EXCEPT ![n] = @ \cup ocultas[n]]
  /\ ocultas' = [ocultas EXCEPT ![n] = {}]
  /\ UNCHANGED <<copia, fondeo, red, ocupado, mirado, espera, cadena, historia, contadores>>

(* empujar_historia stops at the oldest block it may look at.              *)
TerminarScan(n) ==
  /\ ~mirado[n]
  /\ mirado' = [mirado EXCEPT ![n] = TRUE]
  /\ UNCHANGED <<copia, fondeo, red, ocupado, libro, ocultas, espera, cadena, historia, contadores>>

(* spawn_podar: the outputs the chain shows as spent leave the ledger.     *)
Podar(n) ==
  /\ ocupado[n] = Nada
  /\ \E t \in cadena : t.entradas \cap libro[n] # {}
  /\ libro' = [libro EXCEPT ![n] = @ \ UNION {t.entradas : t \in cadena}]
  /\ UNCHANGED <<copia, fondeo, red, ocupado, ocultas, mirado, espera, cadena, historia, contadores>>

Perder(n) ==
  /\ red[n] # << >> /\ fallas + vueltas < MaxTropiezos
  /\ red' = [red EXCEPT ![n] = Tail(@)]
  /\ fallas' = fallas + 1
  /\ UNCHANGED <<copia, fondeo, ocupado, billeteras, espera, cadena, historia, vueltas, intentos>>

(* Mutant: what the files say is not loaded.                               *)
RecargadaVacia(t) ==
  [marcas |-> {"dije", "enviado"}, monto |-> 0, aviso |-> Nada,
   propuesta |-> Nada, sobre |-> Nada, esqueleto |-> Nada, tx |-> Nada, gastada |-> Nada]

(* The program stops and starts again: cargar_esperas builds the entries   *)
(* from the files, without a peer; everything else of the boxes is lost.   *)
Recargada(t) ==
  [marcas |-> {"dije", "enviado"}, monto |-> 0, aviso |-> Nada,
   propuesta |-> Nada, sobre |-> Nada, esqueleto |-> Nada, tx |-> t, gastada |-> Nada]

Caer(n) ==
  /\ fallas + vueltas < MaxTropiezos
  /\ fondeo' = [fondeo EXCEPT ![n] =
       [e \in Etapas |-> IF n = Mandante /\ espera[e] # Nada THEN Recargada(espera[e]) ELSE Nada]]
  /\ Desocupa(n)
  /\ fallas' = fallas + 1
  /\ UNCHANGED <<copia, red, billeteras, espera, cadena, historia, vueltas, intentos>>

-----------------------------------------------------------------------------
DePersona(n, e) == Confirmar(n, e) \/ Reempezar(n, e) \/ Cancelar(n, e) \/ Reproponer(n, e)

DeTick(n, e) ==
  \/ Limpiar(n, e)
  \/ SoltarAviso(n, e)
  \/ Habilitar(n, e)
  \/ Avisar(n, e)
  \/ EmitirAviso(n, e)
  \/ EmitirBusqueda(n, e)
  \/ CerrarBusqueda(n, e)
  \/ \E s \in libro[n] : Anillar(n, e, s)
  \/ ArmarEsqueleto(n, e)
  \/ ArmarNada(n, e)
  \/ Ver(n, e)
  \/ Hecho(n, e)

DelMandante(e) ==
  \/ ArmarPropuesta(e)
  \/ Cerrar(e)
  \/ CerrarNo(e)
  \/ Publicado(e)
  \/ NoPublicado(e)
  \/ Rechazado(e)

DeMensaje(n, k) ==
  \/ TomarPedido(n, k)
  \/ TomarPropuesta(n, k)
  \/ TomarEsqueleto(n, k)
  \/ TomarTx(n, k)
  \/ TomarAborto(n, k)
  \/ TomarFallos(n, k)

DeBilletera(n) == Podar(n) \/ TerminarScan(n) \/ Hallar(n)

Next ==
  \/ \E n \in Partes, e \in Etapas :
       DePersona(n, e) \/ DeTick(n, e) \/ NoAnillo(n, e) \/ Fusionar(n, e)
  \/ \E e \in Etapas : DelMandante(e)
  \/ \E n \in Partes : \E k \in DOMAIN red[n] : DeMensaje(n, k)
  \/ \E n \in Partes : DeBilletera(n) \/ Perder(n) \/ Caer(n)

Spec == Init /\ [][Next]_vars

-----------------------------------------------------------------------------
(* Fairness: the loops run, messages at the head arrive, jobs end, copies  *)
(* are merged and the scan finds what there is.  Nothing a person does, no *)
(* overtaking, loss or restart is fair.                                    *)
Normal(n, e) ==
  \/ DeTick(n, e) \/ Fusionar(n, e) \/ (n = Mandante /\ DelMandante(e))

Justicia ==
  /\ \A n \in Partes, e \in Etapas : WF_vars(Normal(n, e))
  /\ \A n \in Partes : WF_vars(red[n] # << >> /\ DeMensaje(n, 1))
  /\ \A n \in Partes : WF_vars(Hallar(n))
  /\ \A n \in Partes : WF_vars(Podar(n))

SpecJusta == Spec /\ Justicia

-----------------------------------------------------------------------------
Ambos == INSTANCE FirmaDeAmbos WITH Firmantes <- Partes

(* The session implements the abstract transaction: whatever is lost,      *)
(* overtaken, restarted or proposed again, a funding the network accepts   *)
(* was signed by both, each for an amount that person opened an entry for, *)
(* and spends nothing twice (contratista_responde, mandante_cierra).       *)
FirmanAmbos == Ambos!Spec

(* Until a person starts again or goes back, a stage is funded once:       *)
(* crashes, losses, refusals and lost answers never fund it twice          *)
(* (busca_entradas, guardar_espera, cargar_esperas).                       *)
FondeoUnico ==
  vueltas = 0 => \A t, u \in cadena : t.etapa = u.etapa => t = u

(* Until the stage moves on, the box of the principal knows the funding it *)
(* broadcast, also after a crash between the broadcast and its answer      *)
(* (guardar_espera before publicar).                                       *)
FondeoNoSeOlvida ==
  vueltas = 0 =>
    \A t \in cadena : EnEncierre(Mandante, t.etapa)
      => fondeo[Mandante][t.etapa] # Nada /\ fondeo[Mandante][t.etapa].tx = t

(* An output that left the ledger of a person is spent on the chain: a     *)
(* failed broadcast or a late notice does not hide money                   *)
(* (consumir_fondeo_personal).  The principal takes out what its own job   *)
(* published; the contractor what its entry took last (tomar_txid), which  *)
(* a restart and messages out of order may have changed meanwhile.         *)
LibroDe(n) ==
  \A s \in Salidas[n] \ (libro[n] \cup ocultas[n]) : \E t \in cadena : s \in t.entradas

LibroHonesto == LibroDe(Mandante) /\ (vueltas = 0 /\ fallas <= 1 => LibroDe(Contratista))

(* When nothing goes wrong and nobody goes back, a funding that was asked  *)
(* for ends with the stage locked in both copies.                          *)
FondeoTermina ==
  [](fallas = 0 /\ vueltas = 0)
    => \A e \in Etapas :
         (\E n \in Partes : fondeo[n][e] # Nada)
           ~> (\A n \in Partes : copia[n][e].estado = Encerrada)

=============================================================================
