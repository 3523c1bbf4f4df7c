---------------------------------- MODULE Red ----------------------------------
(***************************************************************************)
(* How a message of the box gets from one program to the other: sessions,  *)
(* the room, mailboxes and direct dials (crates/konstruado-net/src/dht.rs).*)
(*                                                                         *)
(* Both programs open sessions with the room, which relays.  A session is  *)
(* registered as live where it arrives when the first greeting is read,    *)
(* and what was waiting for that node is written to it.  A broken session  *)
(* is noticed by each end at its own time; what is written meanwhile is    *)
(* lost.  A program that starts again is another node.                     *)
(*                                                                         *)
(* Box messages go here from Emisor to Receptor; the other direction is    *)
(* the same code.  A node whose person was announced is in the list of     *)
(* peers, which is sent along, so that whoever can be dialled is dialled   *)
(* by the sender: the dial of a relay and the limit of three hops need a   *)
(* second relay.                                                           *)
(***************************************************************************)
EXTENDS Naturals, FiniteSets, Sequences, SequencesExt, Functions

CONSTANTS
  Emisor, Receptor, Nada,
  Buscan,      \* those who look for offers while they have a session (buscar)
  MaxMensajes, \* bound: box messages sent
  MaxSesiones, \* bound: sessions opened
  MaxFallas,   \* bound: broken sessions, failed dials and restarts
  MaxBuzon,    \* messages kept for a node (64 in the code)
  MaxCaja      \* messages kept in the tray of the box (32 in the code)

Personas == {Emisor, Receptor}

ASSUME RedAssumption ==
  /\ Buscan \subseteq Personas
  /\ Nada \notin Nat
  /\ MaxMensajes \in Nat /\ MaxSesiones \in Nat /\ MaxFallas \in Nat
  /\ MaxBuzon \in Nat \ {0} /\ MaxCaja \in Nat \ {0}

VARIABLES
  marcable, \* whether the node of Receptor has an address that can be dialled
  vez,      \* how many times each program started: its node is <<person, times>>
  sesiones, \* the sessions, by number: who opened it, whether it is sound,
            \* and what is on its way up to the room and down from it
  saliendo, \* what the room took out to write first on a session
  vivos,    \* at the room: the live session of each node, or Nada
  vivo,     \* at each program: its live session with the room, or Nada
  sabe,     \* at the room: the node each person announced, or Nada
  conoce,   \* at each program: the node of each person it heard of, or Nada
  buzon,    \* at the room: what waits for each node
  marcando, \* the messages Emisor is dialling for
  guardado, \* at Emisor: what waits for a session with Receptor
  bandeja,  \* at Receptor: the tray of the box
  tomadas,  \* at Receptor: the messages its box took
  perdidas, \* history: the messages lost, each for a cause of its own
  enviadas, fallas \* counters of the bounds

estado == <<vivos, vivo, sabe, conoce>>
vars == <<marcable, vez, sesiones, saliendo, estado, buzon, marcando, guardado, bandeja, tomadas, perdidas,
          enviadas, fallas>>

Nodos == Personas \X (1 .. MaxFallas + 1)
Nodo(p) == <<p, vez[p]>>
Ids == DOMAIN sesiones

Hola == [tipo |-> "hola"]
Soy(x) == [tipo |-> "soy", nodo |-> x]
Caja(k) == [tipo |-> "caja", num |-> k]
Mensajes == {Hola} \cup {Soy(x) : x \in Nodos} \cup {Caja(k) : k \in 1 .. MaxMensajes}
Sesion == [de : Nodos, sana : BOOLEAN, sube : Seq(Mensajes), baja : Seq(Mensajes)]

TypeOK ==
  /\ marcable \in BOOLEAN /\ marcando \subseteq 1 .. enviadas
  /\ vez \in [Personas -> 1 .. MaxFallas + 1]
  /\ sesiones \in Seq(Sesion) /\ Len(sesiones) <= MaxSesiones
  /\ DOMAIN saliendo = Ids /\ \A s \in Ids : saliendo[s] \in Seq(Mensajes)
  /\ vivos \in [Nodos -> Ids \cup {Nada}] /\ vivo \in [Personas -> Ids \cup {Nada}]
  /\ sabe \in [Personas -> Nodos \cup {Nada}] /\ conoce \in [Personas -> [Personas -> Nodos \cup {Nada}]]
  /\ \A x \in Nodos : Len(buzon[x]) <= MaxBuzon
  /\ Len(bandeja) <= MaxCaja
  /\ perdidas \subseteq 1 .. enviadas

Init ==
  /\ marcable \in BOOLEAN
  /\ vez = [p \in Personas |-> 1]
  /\ sesiones = << >> /\ saliendo = << >>
  /\ vivos = [x \in Nodos |-> Nada] /\ vivo = [p \in Personas |-> Nada]
  /\ sabe = [p \in Personas |-> Nada] /\ conoce = [p \in Personas |-> [q \in Personas |-> Nada]]
  /\ buzon = [x \in Nodos |-> << >>] /\ guardado = << >>
  /\ marcando = {} /\ bandeja = << >> /\ tomadas = << >> /\ perdidas = {}
  /\ enviadas = 0 /\ fallas = 0

Cajas(q) == {m.num : m \in {q[k] : k \in {i \in DOMAIN q : q[i].tipo = "caja"}}}

(* What is written on a broken session is lost.                            *)
Baja(ss, s, q) == IF ss[s].sana THEN [ss EXCEPT ![s].baja = @ \o q] ELSE ss
Sube(ss, s, q) == IF ss[s].sana THEN [ss EXCEPT ![s].sube = @ \o q] ELSE ss
CaeEn(s, q) == IF sesiones[s].sana THEN {} ELSE Cajas(q)

(* A queue with a limit drops its oldest message (encolar_en, handle_de).  *)
Encola(q, m, tope) == Append(IF Len(q) >= tope THEN Tail(q) ELSE q, m)
Desborda(q, tope) == IF Len(q) >= tope THEN Cajas(<<Head(q)>>) ELSE {}

Falla == fallas < MaxFallas /\ fallas' = fallas + 1

-----------------------------------------------------------------------------
(* mantener, marcar_sala, buscar: a program opens a session with the room. *)
(* Only buscar opens one while another is up.                              *)
Abrir(p) ==
  /\ p \in Buscan \/ \A s \in Ids : sesiones[s].de = Nodo(p) => ~sesiones[s].sana /\ vivo[p] # s
  /\ Len(sesiones) < MaxSesiones
  /\ sesiones' = Append(sesiones, [de |-> Nodo(p), sana |-> TRUE, sube |-> <<Hola>>, baja |-> << >>])
  /\ saliendo' = Append(saliendo, << >>)
  /\ UNCHANGED <<marcable, vez, estado, buzon, marcando, guardado, bandeja, tomadas, perdidas, enviadas, fallas>>

Leido(s) == [sesiones EXCEPT ![s].sube = Tail(@)]
Escuchado(s) == [sesiones EXCEPT ![s].baja = Tail(@)]

Presentes(x) == {Soy(sabe[p]) : p \in {q \in Personas : sabe[q] \notin {Nada, x}}}

(* Mutants: what waited is copied; only the greeting is written.           *)
RegistrarCopia(s, x) ==
  /\ vivos' = [vivos EXCEPT ![x] = s]
  /\ saliendo' = [saliendo EXCEPT ![s] = <<Hola>> \o SetToSeq(Presentes(x)) \o buzon[x]]
  /\ UNCHANGED buzon
RegistrarSolo(s, x) ==
  /\ vivos' = [vivos EXCEPT ![x] = s]
  /\ saliendo' = [saliendo EXCEPT ![s] = <<Hola>>]
  /\ UNCHANGED buzon

(* registrar_vivo, with the lock: the session is live, and what waited is  *)
(* taken out.                                                              *)
Registrar(s, x) ==
  /\ vivos' = [vivos EXCEPT ![x] = s]
  /\ saliendo' = [saliendo EXCEPT ![s] = <<Hola>> \o SetToSeq(Presentes(x)) \o buzon[x]]
  /\ buzon' = [buzon EXCEPT ![x] = << >>]

LeeHola(s) ==
  /\ sesiones[s].sube # << >> /\ Head(sesiones[s].sube) = Hola /\ saliendo[s] = << >>
  /\ Registrar(s, sesiones[s].de)
  /\ sesiones' = Leido(s)
  /\ UNCHANGED <<marcable, vez, vivo, sabe, conoce, marcando, guardado, bandeja, tomadas, perdidas, enviadas, fallas>>

(* registrar_vivo, without the lock: it is written.                        *)
Saludar(s) ==
  /\ saliendo[s] # << >>
  /\ sesiones' = Baja(sesiones, s, saliendo[s])
  /\ perdidas' = perdidas \cup CaeEn(s, saliendo[s])
  /\ saliendo' = [saliendo EXCEPT ![s] = << >>]
  /\ UNCHANGED <<marcable, vez, estado, buzon, marcando, guardado, bandeja, tomadas, enviadas, fallas>>

(* handle_de, Soy: who is where, told to the other live sessions.          *)
LeeSoy(s) ==
  /\ sesiones[s].sube # << >> /\ Head(sesiones[s].sube).tipo = "soy" /\ saliendo[s] = << >>
  /\ LET x == Head(sesiones[s].sube).nodo
         otros == {vivos[y] : y \in Nodos \ {x, sesiones[s].de}} \ {Nada} IN
       IF sabe[x[1]] = x THEN sesiones' = Leido(s) /\ UNCHANGED sabe
       ELSE /\ sabe' = [sabe EXCEPT ![x[1]] = x]
            /\ sesiones' = [k \in Ids |-> IF k \in otros THEN Baja(Leido(s), k, <<Soy(x)>>)[k]
                                                         ELSE Leido(s)[k]]
  /\ UNCHANGED <<marcable, vez, saliendo, vivos, vivo, conoce, buzon, marcando, guardado, bandeja, tomadas,
                 perdidas, enviadas, fallas>>

(* handle_de, Caja: it goes on by the live session, or waits.              *)
LeeCaja(s) ==
  /\ sesiones[s].sube # << >> /\ Head(sesiones[s].sube).tipo = "caja" /\ saliendo[s] = << >>
  /\ LET m == Head(sesiones[s].sube)
         x == sabe[Receptor]
         v == vivos[x] IN
     \/ /\ x = Nada
        /\ sesiones' = Leido(s) /\ perdidas' = perdidas \cup {m.num}
        /\ UNCHANGED buzon
     \/ /\ x # Nada /\ v # Nada
        /\ sesiones' = Baja(Leido(s), v, <<m>>) /\ perdidas' = perdidas \cup CaeEn(v, <<m>>)
        /\ UNCHANGED buzon
     \/ /\ x # Nada /\ v = Nada
        /\ sesiones' = Leido(s) /\ buzon' = [buzon EXCEPT ![x] = Encola(@, m, MaxBuzon)]
        /\ perdidas' = perdidas \cup Desborda(buzon[x], MaxBuzon)
  /\ UNCHANGED <<marcable, vez, saliendo, estado, marcando, guardado, bandeja, tomadas, enviadas, fallas>>

-----------------------------------------------------------------------------
(* registrar_vivo at a program that reads the greeting of the room: it     *)
(* says whose node it is, and then what it knows of everyone, which may be *)
(* out of date, and be about itself before it started again.               *)
Conocidos(p) == {Soy(conoce[p][q]) : q \in {r \in Personas : conoce[p][r] # Nada}}
OyeHola(s) ==
  LET p == sesiones[s].de[1] IN
  /\ sesiones[s].baja # << >> /\ Head(sesiones[s].baja) = Hola
  /\ vivo' = [vivo EXCEPT ![p] = s]
  /\ sesiones' = Sube(Escuchado(s), s, <<Soy(Nodo(p))>> \o SetToSeq(Conocidos(p)))
  /\ UNCHANGED <<marcable, vez, saliendo, vivos, sabe, conoce, buzon, marcando, guardado, bandeja, tomadas,
                 perdidas, enviadas, fallas>>

OyeSoy(s) ==
  /\ sesiones[s].baja # << >> /\ Head(sesiones[s].baja).tipo = "soy"
  /\ LET x == Head(sesiones[s].baja).nodo
         p == sesiones[s].de[1]
     IN  conoce' = IF x = Nodo(p) THEN conoce ELSE [conoce EXCEPT ![p][x[1]] = x]
  /\ sesiones' = Escuchado(s)
  /\ UNCHANGED <<marcable, vez, saliendo, vivos, vivo, sabe, buzon, marcando, guardado, bandeja, tomadas,
                 perdidas, enviadas, fallas>>

EnBandeja(m) ==
  /\ bandeja' = Encola(bandeja, m, MaxCaja)
  /\ perdidas' = perdidas \cup Desborda(bandeja, MaxCaja)

OyeCaja(s) ==
  /\ sesiones[s].baja # << >> /\ Head(sesiones[s].baja).tipo = "caja"
  /\ EnBandeja(Head(sesiones[s].baja))
  /\ sesiones' = Escuchado(s)
  /\ UNCHANGED <<marcable, vez, saliendo, estado, buzon, marcando, guardado, tomadas, enviadas, fallas>>

(* tomar_caja: the tick of the box takes all there is.                     *)
Tomar ==
  /\ bandeja # << >>
  /\ tomadas' = tomadas \o bandeja /\ bandeja' = << >>
  /\ UNCHANGED <<marcable, vez, sesiones, saliendo, estado, buzon, marcando, guardado, perdidas, enviadas, fallas>>

(* enviar_caja that returns true: by a dial, or by the room.               *)
Enviar ==
  /\ enviadas < MaxMensajes /\ conoce[Emisor][Receptor] # Nada
  /\ enviadas' = enviadas + 1
  /\ \/ /\ marcable
        /\ marcando' = marcando \cup {enviadas + 1}
        /\ UNCHANGED <<sesiones, perdidas>>
     \/ /\ ~marcable /\ vivo[Emisor] # Nada
        /\ sesiones' = Sube(sesiones, vivo[Emisor], <<Caja(enviadas + 1)>>)
        /\ perdidas' = perdidas \cup CaeEn(vivo[Emisor], <<Caja(enviadas + 1)>>)
        /\ UNCHANGED marcando
  /\ UNCHANGED <<marcable, vez, saliendo, estado, buzon, guardado, bandeja, tomadas, fallas>>

(* Dials run by themselves: two of them end in any order.                  *)
Marcado(k) ==
  /\ marcando' = marcando \ {k}
  /\ EnBandeja(Caja(k))
  /\ UNCHANGED <<marcable, vez, sesiones, saliendo, estado, buzon, guardado, tomadas, enviadas, fallas>>

(* A dial that fails leaves the message in the sender's mailbox for that   *)
(* node, which only a session between the two would empty.                 *)
NoMarcado(k) ==
  /\ Falla
  /\ marcando' = marcando \ {k}
  /\ guardado' = Encola(guardado, Caja(k), MaxBuzon)
  /\ perdidas' = perdidas \cup Desborda(guardado, MaxBuzon)
  /\ UNCHANGED <<marcable, vez, sesiones, saliendo, estado, buzon, bandeja, tomadas, enviadas>>

-----------------------------------------------------------------------------
Cortada(s) == [sesiones[s] EXCEPT !.sana = FALSE, !.sube = << >>, !.baja = << >>]
Dentro(s) == Cajas(sesiones[s].sube) \cup Cajas(sesiones[s].baja)

(* The connection breaks, or its opener closes it: what is on it is lost.  *)
Romper(s) ==
  /\ Falla
  /\ sesiones[s].sana
  /\ sesiones' = [sesiones EXCEPT ![s] = Cortada(s)]
  /\ perdidas' = perdidas \cup Dentro(s)
  /\ UNCHANGED <<marcable, vez, saliendo, estado, buzon, marcando, guardado, bandeja, tomadas, enviadas>>

(* Mutant: whatever the session it writes to.                              *)
SueltaSiempre(actual, s) == Nada

(* Guard::drop: who notices forgets the session, if it is still the one it *)
(* writes to.                                                              *)
Suelta(actual, s) == IF actual = s THEN Nada ELSE actual

NotaSala(s) ==
  LET x == sesiones[s].de IN
  /\ ~sesiones[s].sana /\ saliendo[s] = << >>
  /\ vivos' = [vivos EXCEPT ![x] = Suelta(@, s)]
  /\ UNCHANGED <<marcable, vez, sesiones, saliendo, vivo, sabe, conoce, buzon, marcando, guardado, bandeja,
                 tomadas, perdidas, enviadas, fallas>>

NotaPrograma(s) ==
  LET p == sesiones[s].de[1] IN
  /\ ~sesiones[s].sana
  /\ vivo' = [vivo EXCEPT ![p] = Suelta(@, s)]
  /\ UNCHANGED <<marcable, vez, sesiones, saliendo, vivos, sabe, conoce, buzon, marcando, guardado, bandeja,
                 tomadas, perdidas, enviadas, fallas>>

(* A program starts again: another node, with nothing of what it had, and  *)
(* what waits for the old one waits for good.                              *)
Renacer(p) ==
  /\ Falla
  /\ vez' = [vez EXCEPT ![p] = @ + 1]
  /\ sesiones' = [s \in Ids |-> IF sesiones[s].de = Nodo(p) THEN Cortada(s) ELSE sesiones[s]]
  /\ vivo' = [vivo EXCEPT ![p] = Nada]
  /\ perdidas' = perdidas \cup (UNION {Dentro(s) : s \in {k \in Ids : sesiones[k].de = Nodo(p)}})
                          \cup (IF p = Receptor THEN Cajas(bandeja) ELSE Cajas(guardado) \cup marcando)
  /\ conoce' = [conoce EXCEPT ![p] = [q \in Personas |-> Nada]]
  /\ IF p = Receptor
     THEN bandeja' = << >> /\ UNCHANGED <<guardado, marcando>>
     ELSE /\ guardado' = << >> /\ marcando' = {}
          /\ UNCHANGED bandeja
  /\ UNCHANGED <<marcable, saliendo, vivos, sabe, buzon, tomadas, enviadas>>

Paso(s) ==
  \/ LeeHola(s) \/ Saludar(s) \/ LeeSoy(s) \/ LeeCaja(s)
  \/ OyeHola(s) \/ OyeSoy(s) \/ OyeCaja(s)
  \/ NotaSala(s) \/ NotaPrograma(s)

Next ==
  \/ \E s \in Ids : Paso(s) \/ Romper(s)
  \/ \E k \in marcando : Marcado(k) \/ NoMarcado(k)
  \/ \E p \in Personas : Abrir(p) \/ Renacer(p)
  \/ Enviar \/ Tomar

Spec == Init /\ [][Next]_vars

(* The tasks of the nodes run, a dial ends, and the box ticks.             *)
SpecJusta ==
  /\ Spec
  /\ WF_vars(Tomar)
  /\ WF_vars(\E k \in marcando : Marcado(k))
  /\ \A s \in 1 .. MaxSesiones : WF_vars(s \in Ids /\ Paso(s))

-----------------------------------------------------------------------------
Tomado == {tomadas[k].num : k \in DOMAIN tomadas}

(* Every queue a message may be in, by a key; a dial is a queue of one.    *)
Colas == ({"tomadas", "bandeja", "guardado"} \X {0}) \cup ({"dial"} \X marcando)
         \cup ({"buzon"} \X Nodos) \cup ({"sube", "baja", "saliendo"} \X Ids)
Cola(c) ==
  CASE c[1] = "tomadas"  -> tomadas
    [] c[1] = "bandeja"  -> bandeja
    [] c[1] = "guardado" -> guardado
    [] c[1] = "dial"     -> <<Caja(c[2])>>
    [] c[1] = "buzon"    -> buzon[c[2]]
    [] c[1] = "sube"     -> sesiones[c[2]].sube
    [] c[1] = "baja"     -> sesiones[c[2]].baja
    [] c[1] = "saliendo" -> saliendo[c[2]]

Lugares(k) == UNION {{c} \X {i \in DOMAIN Cola(c) : Cola(c)[i] = Caja(k)} : c \in Colas}

(* A message is in one place until it is lost: whatever breaks, starts     *)
(* again or is noticed late, it is neither dropped without a cause nor     *)
(* copied, so the box takes it once, and the sessions of signing and of    *)
(* key generation are not made to read the same step twice.                *)
UnaVez == \A k \in 1 .. enviadas : Cardinality(Lugares(k)) = IF k \in perdidas THEN 0 ELSE 1

(* The end of an older session never takes the newer one with it: the room *)
(* forgets how to reach a node only when the session it wrote to broke.    *)
NoSueltaLaNueva ==
  [][\A x \in Nodos : vivos[x] # Nada /\ vivos'[x] = Nada => ~sesiones[vivos[x]].sana]_vars

(* While the room has a sound session of the current node of Receptor as   *)
(* its live one, whatever was sent is taken, unless it was lost with a     *)
(* session or a restart or pushed out of a full queue, or waits for a node *)
(* that is no more or in the mailbox of a sender whose dial failed.        *)
Alcanzable ==
  /\ sabe[Receptor] = Nodo(Receptor)
  /\ vivos[Nodo(Receptor)] # Nada /\ sesiones[vivos[Nodo(Receptor)]].sana

Varadas == Cajas(guardado) \cup UNION {Cajas(buzon[x]) : x \in Nodos \ {Nodo(Receptor)}}

Entrega ==
  <>[]Alcanzable =>
    \A k \in 1 .. MaxMensajes : (k <= enviadas) ~> (k \in Tomado \cup perdidas \cup Varadas)

=============================================================================
