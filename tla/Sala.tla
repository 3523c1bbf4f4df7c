-------------------------------- MODULE Sala --------------------------------
(***************************************************************************)
(* How one node reaches the others over Tor (konstruado-net, tor.rs and    *)
(* the parts of dht.rs that drive it).  A desktop launches its own tor and *)
(* one task of it opens the room (the principal) or dials it (the          *)
(* contractor); the person may change role meanwhile.  A phone does not    *)
(* launch tor: it dials the room through Orbot, and what it tells the      *)
(* person about Orbot is what its last attempts found.                     *)
(***************************************************************************)
EXTENDS Naturals, FiniteSets

CONSTANTS
  Ninguno,      \* no role chosen
  Llamadas,     \* the tasks a phone may have dialing the room at once
  MaxMalas      \* how many commands the tor control port answers badly

ASSUME SalaAssumption ==
  /\ IsFiniteSet(Llamadas) /\ Llamadas # {}
  /\ MaxMalas \in Nat

Roles == {"Mandante", "Contratista"}

VARIABLES
  movil,      \* a phone, or a desktop
  rol,        \* rol_sala
  snap,       \* the Snap of tor.rs: EstadoTor, SOCKS, own onion, hosting, DiagSocks
  tarea,      \* where unirse_tor waits; "no": it was not started; "fin": it returned
  publicada,  \* the tor process serves the onion of the room for us
  tardia,     \* an answer the control port sent after its command timed out
  destino,    \* the room is among the destinations of a phone
  llamadas,   \* where each call of mantener waits; "no": it was not started
  orbot,      \* Orbot answers on its port
  malas

salaVars == << movil, rol, snap, tarea, publicada, tardia, destino, llamadas, orbot, malas >>
celularVars == << destino, llamadas, orbot >>

(* What tor.rs knows before anything ran (Tor::ausente).                   *)
Ausente == [estado |-> "Ausente", socks |-> FALSE, onion |-> FALSE, hospeda |-> FALSE,
            diag |-> "SinSocks"]

Calladas == [k \in Llamadas |-> "no"]

(* The SOCKS of Orbot is set: known, not tried yet (configurar_socks).     *)
(* The state of a phone is not kept: with a SOCKS it shows the diagnosis.  *)
Configurada(s) == [s EXCEPT !.socks = TRUE, !.onion = TRUE, !.hospeda = FALSE, !.diag = "SinProbar"]

(* A desktop: lanzar_tor starts its task if it finds a tor program.        *)
EscritorioNuevo(hayTor) ==
  /\ movil = FALSE /\ destino = FALSE /\ llamadas = Calladas
  /\ tarea = IF hayTor THEN "sube" ELSE "no"
  /\ snap = [Ausente EXCEPT !.estado = IF hayTor THEN "Arrancando" ELSE @]

(* A phone, with Orbot off in the app, or on: it dials the room at once.   *)
CelularNuevo(conOrbot) ==
  /\ movil = TRUE /\ tarea = "no" /\ destino = conOrbot
  /\ snap = IF conOrbot THEN Configurada(Ausente) ELSE Ausente
  /\ IF conOrbot THEN \E k \in Llamadas : llamadas = [Calladas EXCEPT ![k] = "vuelta"]
                 ELSE llamadas = Calladas

SalaInit ==
  /\ rol = Ninguno /\ publicada = FALSE /\ tardia = FALSE /\ orbot = FALSE /\ malas = 0
  /\ \E hay \in BOOLEAN : EscritorioNuevo(hay) \/ CelularNuevo(hay)

-----------------------------------------------------------------------------
(* The small steps of tor.rs.                                              *)

Marcar(estado) == snap' = [snap EXCEPT !.estado = estado]

(* marcar_listo does nothing before the node has an onion.                 *)
TrasListo(s) == IF s.onion THEN [s EXCEPT !.estado = "Listo"] ELSE s

(* A loop that says "ready" while it knows somebody and "starting" else.   *)
SegunPares(pares) == snap' = IF pares THEN TrasListo(snap) ELSE [snap EXCEPT !.estado = "Arrancando"]

(* Mutant: an attempt that finds Orbot does not clear an earlier blame.    *)
SocksAceptaSinLimpiar(s) == IF s.diag = "SinProbar" THEN [s EXCEPT !.diag = "SocksOk"] ELSE s

(* conectar: the SOCKS took the connection.  The diagnosis only leaves the *)
(* two that say nothing, or blame Orbot.                                   *)
SocksAcepta(s) ==
  IF s.diag \in {"SinProbar", "SocksCaido"} THEN [s EXCEPT !.diag = "SocksOk"] ELSE s

Diagnostica(d) == snap' = [snap EXCEPT !.diag = d]

-----------------------------------------------------------------------------
(* The desktop's tor task (unirse_tor, marcar_sala).                       *)

(* entrar_en_sala: the loop repeats it every second; the person changes it *)
(* in the account's screen.                                                *)
EntrarEnSala(r) ==
  /\ ~movil /\ rol # r
  /\ rol' = r
  /\ UNCHANGED << movil, snap, tarea, publicada, tardia, malas, celularVars >>

Pasa(t) == tarea' = t /\ UNCHANGED << movil, rol, celularVars >>

(* A command to the control port goes wrong: an error, or fifteen seconds  *)
(* without an answer, that may come later and be read by the next command. *)
Mala == malas < MaxMalas /\ malas' = malas + 1

(* subir: a tor process, its control port, its bootstrap and an onion of   *)
(* the node's own; the SOCKS is set at the end, all at once.               *)
Subir ==
  /\ tarea = "sube"
  /\ snap' = [snap EXCEPT !.socks = TRUE, !.onion = TRUE, !.estado = "Listo"]
  /\ Pasa("elige") /\ UNCHANGED << publicada, tardia, malas >>

(* tor exits, writes no cookie, or its bootstrap stops or takes too long:  *)
(* the task ends.                                                          *)
NoSube ==
  /\ tarea = "sube" /\ Mala
  /\ Marcar("Fallo") /\ Pasa("fin") /\ UNCHANGED << publicada, tardia >>

(* unirse_tor waits for a role, then opens the room or dials it.           *)
Elegir ==
  /\ tarea = "elige"
  /\ snap' = IF rol = "Contratista" THEN snap ELSE [snap EXCEPT !.estado = "Arrancando"]
  /\ Pasa(CASE rol = Ninguno -> "elige"
            [] rol = "Mandante" -> IF snap.hospeda THEN "atiende" ELSE "abre"
            [] OTHER -> "busca")
  /\ UNCHANGED << publicada, tardia, malas >>

(* The control port executed ADD_ONION and said so.  An answer that came   *)
(* late is read instead of this command's own, and an onion already        *)
(* served is refused.                                                      *)
AddBien == ~publicada /\ ~tardia

(* hospedar_sala: with an error the task ends, for good.                   *)
AbrirSala ==
  /\ tarea = "abre"
  /\ \/ /\ AddBien
        /\ publicada' = TRUE
        /\ snap' = [snap EXCEPT !.hospeda = TRUE]
        /\ Pasa("publica") /\ UNCHANGED << tardia, malas >>
     \/ /\ ~AddBien
        /\ publicada' \in {publicada, TRUE}
        /\ Marcar("Fallo") /\ Pasa("fin") /\ UNCHANGED << tardia, malas >>
     \/ /\ Mala
        /\ publicada' \in {publicada, TRUE} /\ tardia' \in {tardia, TRUE}
        /\ Marcar("Fallo") /\ Pasa("fin")

(* Thirty seconds for the descriptor to spread, less if the role changes.  *)
Publicar ==
  /\ tarea = "publica"
  /\ Marcar("Arrancando") /\ Pasa("atiende")
  /\ UNCHANGED << publicada, tardia, malas >>

(* Every two seconds: somebody is here, nobody is, or the role changed.    *)
(* dejar_sala says the room is not hosted before asking tor to drop it.    *)
Atender ==
  /\ tarea = "atiende"
  /\ \/ /\ rol = "Mandante" /\ \E pares \in BOOLEAN : SegunPares(pares)
        /\ Pasa("atiende")
     \/ /\ rol # "Mandante" /\ snap' = [snap EXCEPT !.hospeda = FALSE]
        /\ Pasa("deja")
  /\ UNCHANGED << publicada, tardia, malas >>

(* DEL_ONION done, or not: an error, or an answer that comes too late.     *)
Del ==
  \/ publicada' = FALSE /\ UNCHANGED << tardia, malas >>
  \/ Mala /\ publicada' \in BOOLEAN /\ tardia' \in BOOLEAN

(* The task does not look at the answer, and goes on.                      *)
Dejar == tarea = "deja" /\ Pasa("elige") /\ Del /\ UNCHANGED snap

(* Mutant: the role is looked at only before dialing for the first time.   *)
NuncaDejaDeBuscar == FALSE

(* marcar_sala looks at the role once per round.                           *)
DejaDeBuscar == rol = "Mandante"

Buscar ==
  /\ tarea = "busca"
  /\ \/ DejaDeBuscar /\ Pasa("elige") /\ UNCHANGED snap
     \/ ~DejaDeBuscar /\ (\E pares \in BOOLEAN : SegunPares(pares)) /\ Pasa("llama")
  /\ UNCHANGED << publicada, tardia, malas >>

(* dial_rendezvous: 45 s at most; a session of a dozen seconds if the room *)
(* answers.  The diagnosis of a desktop is not shown to anybody.           *)
Llamar ==
  /\ tarea = "llama"
  /\ \/ snap' = TrasListo(snap) /\ Pasa("habla")
     \/ /\ \E pares \in BOOLEAN :
             snap' = IF pares THEN snap ELSE [snap EXCEPT !.estado = "Arrancando"]
        /\ Pasa("busca")
  /\ UNCHANGED << publicada, tardia, malas >>

Hablar ==
  /\ tarea = "habla" /\ Pasa("busca")
  /\ UNCHANGED << snap, publicada, tardia, malas >>

Escritorio ==
  Subir \/ NoSube \/ Elegir \/ AbrirSala \/ Publicar \/ Atender \/ Dejar \/ Buscar \/ Llamar \/ Hablar

-----------------------------------------------------------------------------
(* The phone (mantener, and the settings of Orbot).                        *)

SinEscritorio == UNCHANGED << movil, rol, tarea, publicada, tardia, malas >>

(* agregar_destino starts a task only for a destination it did not have.   *)
(* A task of before that has not yet looked goes on with the new one.      *)
UsarOrbot ==
  /\ movil
  /\ snap' = Configurada(snap)
  /\ destino' = TRUE
  /\ \/ destino /\ UNCHANGED llamadas
     \/ /\ ~destino
        /\ \E k \in Llamadas : llamadas[k] = "no" /\ llamadas' = [llamadas EXCEPT ![k] = "vuelta"]
  /\ UNCHANGED orbot /\ SinEscritorio

(* quitar_destino("sala"): the destination, then the SOCKS.                *)
QuitarOrbot ==
  /\ movil /\ destino
  /\ destino' = FALSE
  /\ snap' = [snap EXCEPT !.socks = FALSE, !.diag = "SinSocks"]
  /\ UNCHANGED << llamadas, orbot >> /\ SinEscritorio

(* Orbot starts or stops, outside the app.                                 *)
OrbotCambia ==
  /\ movil
  /\ orbot' = ~orbot
  /\ UNCHANGED << snap, destino, llamadas >> /\ SinEscritorio

Sigue(k, m) ==
  /\ llamadas' = [llamadas EXCEPT ![k] = m]
  /\ UNCHANGED << destino, orbot >> /\ SinEscritorio

(* The top of mantener: the destination may be gone, the SOCKS too.        *)
Vuelta(k) ==
  /\ llamadas[k] = "vuelta"
  /\ \/ ~destino /\ Sigue(k, "no") /\ UNCHANGED snap
     \/ destino /\ snap.socks /\ Sigue(k, "marca") /\ UNCHANGED snap

(* conectar reads the SOCKS again: without one the name of the room does   *)
(* not resolve; with one, Orbot takes the connection or nobody listens.    *)
Marca(k) ==
  /\ llamadas[k] = "marca"
  /\ \/ ~snap.socks /\ Sigue(k, "vuelta") /\ UNCHANGED snap
     \/ snap.socks /\ ~orbot /\ Diagnostica("SocksCaido") /\ Sigue(k, "vuelta")
     \/ snap.socks /\ orbot /\ snap' = SocksAcepta(snap) /\ Sigue(k, "onion")

(* The room answers; or it does not; or nothing in 60 s, and then only a   *)
(* diagnosis that still said "Orbot answers" becomes the room's fault; or  *)
(* Orbot stops in the middle.                                              *)
Onion(k) ==
  /\ llamadas[k] = "onion"
  /\ \/ Diagnostica("Conectado") /\ Sigue(k, "habla")
     \/ Diagnostica("DestinoNoResponde") /\ Sigue(k, "vuelta")
     \/ /\ Diagnostica(IF snap.diag = "SocksOk" THEN "DestinoNoResponde" ELSE snap.diag)
        /\ Sigue(k, "vuelta")
     \/ ~orbot /\ Diagnostica("SocksCaido") /\ Sigue(k, "vuelta")

(* A session lasts as long as it lasts.                                    *)
Corta(k) == llamadas[k] = "habla" /\ Sigue(k, "vuelta") /\ UNCHANGED snap

(* probar_orbot greets the SOCKS, and writes what it found over what the   *)
(* diagnosis is by then.                                                   *)
Probar ==
  /\ movil /\ snap.socks
  /\ snap' = IF orbot THEN SocksAcepta(snap) ELSE [snap EXCEPT !.diag = "SocksCaido"]
  /\ UNCHANGED celularVars /\ SinEscritorio

Vivos == \E k \in Llamadas : llamadas[k] = "habla"

(* What the phone shows of the room (sala_de): the kind of message.        *)
SalaDe(vivos, hayTcp, instalado) ==
  CASE vivos -> "conectado"
    [] ~vivos /\ snap.diag = "SinSocks" -> IF hayTcp THEN "tcp" ELSE "orbot_apagado_en_app"
    [] ~vivos /\ snap.diag = "SinProbar" -> "probando"
    [] ~vivos /\ snap.diag = "SocksCaido" -> IF instalado THEN "socks_caido" ELSE "sin_orbot"
    [] ~vivos /\ snap.diag = "DestinoNoResponde" -> "sala_no_responde"
    [] OTHER -> "socks_ok"

Celular ==
  \/ UsarOrbot \/ QuitarOrbot \/ OrbotCambia \/ Probar
  \/ \E k \in Llamadas : Vuelta(k) \/ Marca(k) \/ Onion(k) \/ Corta(k)

SalaNext == Escritorio \/ (\E r \in Roles : EntrarEnSala(r)) \/ Celular

(* Every await of these tasks has a timeout, except a session.             *)
SalaJusta ==
  /\ WF_salaVars(Escritorio)
  /\ \A k \in Llamadas : WF_salaVars(Vuelta(k)) /\ WF_salaVars(Marca(k)) /\ WF_salaVars(Onion(k))

-----------------------------------------------------------------------------
(* Who stays a principal ends up hosting the room, unless a command to tor *)
(* failed: also when the role changes while the room is being opened,      *)
(* dropped or dialed (unirse_tor, marcar_sala).                            *)
SalaAbre ==
  <>[](rol = "Mandante") => <>[](snap.hospeda \/ malas > 0 \/ tarea = "no")

(* The phone does not go on asking to turn Orbot on when Orbot answers,    *)
(* whatever attempt of before ended late (sala_de: "only asks to turn      *)
(* Orbot on when its SOCKS really does not answer").                       *)
OrbotSinCulpa ==
  <>[](orbot /\ destino)
    => <>[](\A i \in BOOLEAN : SalaDe(Vivos, FALSE, i) \notin {"sin_orbot", "socks_caido"})

=============================================================================
