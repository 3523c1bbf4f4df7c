----------------------------- MODULE Cotizacion -----------------------------
(***************************************************************************)
(* The reference price of one XMR in dollars (konstruado-motor,            *)
(* cotizacion.rs): kept in memory and in precio.json, asked for in the     *)
(* background and by two buttons, over Tor when the node of Sala has a     *)
(* SOCKS, without Tor when it has none or the person allowed it.           *)
(***************************************************************************)
EXTENDS Sala

VARIABLES
  ultima,     \* CACHE and precio.json: the age of the last price, or Ninguno
  falla,      \* ULTIMA_FALLA: the last request failed over Tor only, or without it
  ajuste,     \* precio-ajustes.json: directo_siempre
  enCurso,    \* EN_CURSO
  pedidos     \* the request each caller waits for, or Ninguno: the way it is trying,
              \* and whether it may go on without Tor

precioVars == << ultima, falla, ajuste, enCurso, pedidos >>
nodoVars == << salaVars, precioVars >>

(* The loop, and the panel of the price: its two buttons, "update price"   *)
(* and "try without Tor this time", wait for each other (pidiendo).        *)
Origenes == {"fondo", "panel"}

(* The ages that matter: 0, younger than REFRESCO_SEG; 1, up to            *)
(* MAX_EDAD_FIJAR_SEG; 2, older.                                           *)
Edades == {0, 1, 2}

(* The program starts with the price and the setting it wrote.             *)
PrecioInit ==
  /\ SalaInit
  /\ ultima \in {Ninguno} \cup Edades /\ falla = Ninguno /\ ajuste \in BOOLEAN
  /\ enCurso = FALSE
  /\ pedidos = [o \in Origenes |-> Ninguno]

HaceFalta == ultima # 0

(* What precio_para_encerrar takes, and without which it is "sin-precio".  *)
ParaFijar == ultima \in {0, 1}

(* Over Tor no source answered, and nobody tried or allowed without it.    *)
OfrecerDirecto == falla = "soloTor" /\ ~ajuste

-----------------------------------------------------------------------------
(* registrar, of a price: memory, the file, and the last failure is        *)
(* forgotten.                                                              *)
RegistrarPrecio == ultima' = 0 /\ falla' = Ninguno

(* registrar, of a failure: the last price stays.                          *)
RegistrarFalla(paso) ==
  /\ falla' = IF paso = "tor" THEN "soloTor" ELSE "sinTor"
  /\ UNCHANGED ultima

(* The way a request takes with what the node says of Tor (resolver), and  *)
(* what directo_siempre said when it began.                                *)
SinTor == [paso |-> "directo", permiso |-> FALSE]
Nuevo ==
  IF snap.socks THEN [paso |-> "tor", permiso |-> ajuste] ELSE SinTor

(* https_get: over Tor the proxy connects, and resolves the name too.      *)
VeLaDireccion(p) == p # Ninguno /\ p.paso = "directo"

(* Mutant: the desktop asks also while its tor starts.                     *)
SocksPrecioSinEsperar == TRUE

(* The desktop waits while its tor starts; the phone has no such step.     *)
SocksPrecio == movil \/ snap.socks \/ snap.estado \in {"Ausente", "Fallo"}

(* refrescar_en_fondo, from the loop or from the phone's estado_precio:    *)
(* thirty seconds after the last try, some time.                           *)
Refrescar ==
  /\ SocksPrecio
  /\ HaceFalta /\ ~enCurso
  /\ enCurso' = TRUE
  /\ pedidos' = [pedidos EXCEPT !["fondo"] = Nuevo]
  /\ UNCHANGED << ultima, falla, ajuste, salaVars >>

(* The button "update price".  It does not look at EN_CURSO.               *)
Actualizar ==
  /\ SocksPrecio /\ pedidos["panel"] = Ninguno
  /\ pedidos' = [pedidos EXCEPT !["panel"] = Nuevo]
  /\ UNCHANGED << ultima, falla, ajuste, enCurso, salaVars >>

(* actualizar_directo: the person asked for this one.                      *)
ActualizarDirecto ==
  /\ OfrecerDirecto /\ pedidos["panel"] = Ninguno
  /\ pedidos' = [pedidos EXCEPT !["panel"] = SinTor]
  /\ UNCHANGED << ultima, falla, ajuste, enCurso, salaVars >>

(* Mutant: only a price lets the loop ask again.                           *)
TerminaSiHayPrecio(o) ==
  /\ pedidos' = [pedidos EXCEPT ![o] = Ninguno]
  /\ enCurso' = IF o = "fondo" /\ falla' = Ninguno THEN FALSE ELSE enCurso

(* The request of o ends: the loop's lets the loop ask again.              *)
Termina(o) ==
  /\ pedidos' = [pedidos EXCEPT ![o] = Ninguno]
  /\ enCurso' = IF o = "fondo" THEN FALSE ELSE enCurso

(* obtener_con: the first source with a price wins.                        *)
HayPrecio(o) ==
  /\ pedidos[o] # Ninguno
  /\ RegistrarPrecio /\ Termina(o)
  /\ UNCHANGED << ajuste, salaVars >>

(* Whether a request that failed over Tor goes on without it.              *)
SigueSinTor(p) == p.paso = "tor" /\ p.permiso

(* No source answered in its 8 seconds.                                    *)
NoHayPrecio(o) ==
  /\ pedidos[o] # Ninguno
  /\ LET p == pedidos[o] IN
       \/ /\ SigueSinTor(p)
          /\ pedidos' = [pedidos EXCEPT ![o] = SinTor]
          /\ UNCHANGED << ultima, falla, enCurso >>
       \/ /\ ~SigueSinTor(p)
          /\ RegistrarFalla(p.paso) /\ Termina(o)
  /\ UNCHANGED << ajuste, salaVars >>

(* A price typed by hand replaces any other.                               *)
FijarManual ==
  /\ ~ParaFijar \/ falla # Ninguno
  /\ RegistrarPrecio
  /\ UNCHANGED << ajuste, enCurso, pedidos, salaVars >>

FijarSiempre ==
  /\ ajuste' = ~ajuste
  /\ UNCHANGED << ultima, falla, enCurso, pedidos, salaVars >>

(* The prices grow old.                                                    *)
Envejece ==
  /\ ultima \in {0, 1} /\ ultima' = ultima + 1
  /\ UNCHANGED << falla, ajuste, enCurso, pedidos, salaVars >>

Precio ==
  \/ Refrescar \/ Actualizar \/ ActualizarDirecto \/ FijarManual \/ FijarSiempre
  \/ Envejece
  \/ \E o \in Origenes : HayPrecio(o) \/ NoHayPrecio(o)

PrecioNext == (SalaNext /\ UNCHANGED precioVars) \/ Precio

(* The loop turns every second, and waits thirty seconds after a try; a    *)
(* request ends within its timeouts.                                       *)
PrecioJusto ==
  /\ WF_nodoVars(Refrescar)
  /\ \A o \in Origenes : WF_nodoVars(HayPrecio(o) \/ NoHayPrecio(o))

PrecioSpec == PrecioInit /\ [][PrecioNext]_nodoVars /\ SalaJusta /\ PrecioJusto

-----------------------------------------------------------------------------
(* The service of the price sees the person's address only if Tor is off,  *)
(* absent or broken when it is asked, if the setting allowed it then, or   *)
(* if the person asked for this very request (the header of cotizacion.rs, *)
(* resolver, socks_precio): never because tor is still starting.           *)
DirectoConsentido ==
  [][\A o \in Origenes :
       (VeLaDireccion(pedidos'[o]) /\ pedidos'[o] # pedidos[o])
         => \/ pedidos[o] = Ninguno /\ OfrecerDirecto
            \/ pedidos[o] # Ninguno /\ pedidos[o].permiso
            \/ pedidos[o] = Ninguno /\ ~snap.socks /\ (movil \/ tarea \in {"no", "fin"})]_nodoVars

(* "It retries on its own": whenever the price is missing or old, a price  *)
(* comes or the loop asks again, whatever requests ended before, with or   *)
(* without a price, and whatever the person asked meanwhile                *)
(* (refrescar_en_fondo, EN_CURSO, ULTIMO_INTENTO).                         *)
Insiste == HaceFalta ~> (pedidos["fondo"] # Ninguno \/ ~HaceFalta)

=============================================================================
