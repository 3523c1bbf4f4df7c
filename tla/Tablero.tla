--------------------------------- MODULE Tablero --------------------------------
(***************************************************************************)
(* The notice board: offers, withdrawals and the deals made from offers,   *)
(* kept by every node and spread by gossip (crates/konstruado-net/src/     *)
(* dht.rs, crates/konstruado-core/src/retiro.rs and acuerdo.rs, the loops  *)
(* of crates/konstruado and konstruado-ffi).                               *)
(*                                                                         *)
(* Each node has a store with a list of offers, a list of withdrawals and  *)
(* a list of deals.  A list is sent whole and merged where it arrives;     *)
(* each second the store is saved, and a node that dies comes back with    *)
(* what it saved.  The offers are of one client.  Of a deal there is its   *)
(* state, its contractor, its guarantee and whether a counter is open.     *)
(* Withdrawals are honest, so the seal of an offer makes no difference.    *)
(***************************************************************************)
EXTENDS Naturals, FiniteSets, Sequences, Functions

CONSTANTS
  Mandante, Contratistas,
  Ofertas,
  Responden,    \* bound: the contractors who answer offers
  Tratables,    \* bound: the offers they answer
  Caen,         \* bound: the nodes that die; what the others save is not seen
  Nada,
  MaxRetiradas, \* withdrawals kept (512 in the code)
  MaxCaidas,    \* bound: nodes that die
  MaxRetiros,   \* bound: withdrawals made
  MaxRespuestas \* bound: answers to an offer

Nodos == {Mandante} \cup Contratistas

ASSUME TableroAssumption ==
  /\ Mandante \notin Contratistas /\ Responden \subseteq Contratistas /\ Tratables \subseteq Ofertas /\ Caen \subseteq Nodos
  /\ MaxRetiradas \in Nat \ {0} /\ MaxCaidas \in Nat /\ MaxRetiros \in Nat
  /\ MaxRespuestas \in Nat

VARIABLES
  store,      \* what each node has in memory
  disco,      \* what each node has saved
  publicadas, \* the offers published so far
  fecha,      \* the withdrawals made: the date of the last one
  firmes,     \* history: the withdrawals that were made and saved
  sueltos,    \* history: the ones made since the last saving
  respuestas, \* history: who answered each offer and with what guarantee
  caidas      \* counter of a bound

historia == <<fecha, firmes, sueltos>>
vars == <<store, disco, publicadas, historia, respuestas, caidas>>

Contra == 1
Rechazada == 2
Acordada == 3
Obra == [estado : Contra .. Acordada, contratista : Contratistas, garantia : {"publicada", "propuesta"},
         contra : BOOLEAN]
Retiro == [oferta : Ofertas, cuando : 1 .. MaxRetiros]
Store == [ofertas : SUBSET Ofertas, retiradas : SUBSET Retiro, obras : [Ofertas -> Obra \cup {Nada}]]
Vacio == [ofertas |-> {}, retiradas |-> {}, obras |-> [o \in Ofertas |-> Nada]]

Retiradas(rs) == {r.oferta : r \in rs}
sin_retiradas(os, rs) == os \ Retiradas(rs)

tablero(s) == sin_retiradas(s.ofertas, s.retiradas)
oferta_en_tablero(o, s) == ~(s.obras[o] # Nada /\ s.obras[o].estado # Rechazada)

TypeOK ==
  /\ store \in [Nodos -> Store] /\ disco \in [Nodos -> Store]
  /\ \A n \in Nodos : Cardinality(store[n].retiradas) <= MaxRetiradas
  /\ publicadas \subseteq Ofertas

Init ==
  /\ store = [n \in Nodos |-> Vacio] /\ disco = [n \in Nodos |-> Vacio]
  /\ publicadas = {} /\ fecha = 0 /\ firmes = {} /\ sueltos = {} /\ caidas = 0
  /\ respuestas = [o \in Ofertas |-> << >>]

-----------------------------------------------------------------------------
(* merge_store.                                                            *)

(* Mutant: the oldest withdrawals are kept.                                *)
UltimasAlReves(rs) == {r \in rs : Cardinality({x \in rs : x.cuando < r.cuando}) < MaxRetiradas}

(* The latest ones, and of two for the same offer the one that was there.  *)
Ultimas(rs) == {r \in rs : Cardinality({x \in rs : x.cuando > r.cuando}) < MaxRetiradas}

FusionarRetiradas(s, rs) ==
  LET nuevas == {r \in rs : r.oferta \notin Retiradas(s.retiradas)}
      todas == Ultimas(s.retiradas \cup nuevas)
  IN [s EXCEPT !.retiradas = todas, !.ofertas = sin_retiradas(@, todas)]

FusionarOfertas(s, os) == [s EXCEPT !.ofertas = sin_retiradas(@ \cup os, s.retiradas)]

(* Mutant: a rejection does not win over an open counter.                  *)
FusionarSinRechazo(a, b) ==
  IF a = Nada \/ b = Nada THEN IF a = Nada THEN b ELSE a
  ELSE IF b.estado = Acordada /\ a.estado # Acordada THEN [b EXCEPT !.contratista = a.contratista]
  ELSE a

(* Obra::fusionar: the higher state wins; the contractor is never merged.  *)
Fusionar(a, b) ==
  IF a = Nada \/ b = Nada THEN IF a = Nada THEN b ELSE a
  ELSE IF b.estado > a.estado THEN [b EXCEPT !.contratista = a.contratista]
  ELSE [a EXCEPT !.contra = @ \/ (a.estado = b.estado /\ b.contra)]

FusionarObras(s, os) == [s EXCEPT !.obras = [o \in Ofertas |-> Fusionar(@[o], os[o])]]

-----------------------------------------------------------------------------
Cambia(n, s) == store' = [store EXCEPT ![n] = s]

(* publicar_oferta: the form of the client; publicar.                      *)
Publicar(o) ==
  /\ o \notin publicadas
  /\ publicadas' = publicadas \cup {o}
  /\ Cambia(Mandante, [store[Mandante] EXCEPT !.ofertas = @ \cup {o}])
  /\ UNCHANGED <<disco, historia, respuestas, caidas>>

(* quitar_mi_oferta: retirar_oferta and retirar.                           *)
Retirar(o) ==
  LET s == store[Mandante]
      r == [oferta |-> o, cuando |-> fecha + 1]
  IN /\ fecha < MaxRetiros
     /\ o \in tablero(s) /\ oferta_en_tablero(o, s)
     /\ fecha' = fecha + 1 /\ sueltos' = sueltos \cup {r} /\ UNCHANGED firmes
     /\ Cambia(Mandante, FusionarRetiradas(s, {r}))
     /\ UNCHANGED <<disco, publicadas, respuestas, caidas>>

(* aceptar_oferta: the list shows what oferta_en_tablero leaves.  The deal *)
(* replaces the copy there was (publicar_obra, quitar).                    *)
Aceptar(n, o, contra) ==
  LET s == store[n]
      g == IF contra THEN "propuesta" ELSE "publicada"
      obra == [estado |-> IF contra THEN Contra ELSE Acordada, contratista |-> n, garantia |-> g, contra |-> contra]
  IN /\ o \in tablero(s) /\ oferta_en_tablero(o, s) /\ Len(respuestas[o]) < MaxRespuestas
     /\ Cambia(n, [s EXCEPT !.obras[o] = obra, !.ofertas = @ \ {o}])
     /\ respuestas' = [respuestas EXCEPT ![o] = Append(@, <<n, g>>)]
     /\ UNCHANGED <<disco, publicadas, historia, caidas>>

ContraAbierta(o) ==
  /\ store[Mandante].obras[o] # Nada
  /\ store[Mandante].obras[o].estado = Contra /\ store[Mandante].obras[o].contra

Confirma(o, g) ==
  /\ ContraAbierta(o)
  /\ Cambia(Mandante, [store[Mandante] EXCEPT !.obras[o] =
                         [@ EXCEPT !.estado = Acordada, !.contra = FALSE, !.garantia = g]])
  /\ UNCHANGED <<disco, publicadas, historia, respuestas, caidas>>

(* Mutant: the guarantee of the offer stays.                               *)
ConfirmarPublicada(o) == Confirma(o, "publicada")

(* confirmar_contra: the guarantee is the one of the counter.              *)
ConfirmarContra(o) == Confirma(o, "propuesta")

(* rechazar_contra: the guarantee is the published one again, and the      *)
(* offer is published again.                                               *)
RechazarContra(o) ==
  /\ ContraAbierta(o)
  /\ Cambia(Mandante,
       [store[Mandante] EXCEPT !.obras[o] = [@ EXCEPT !.estado = Rechazada, !.contra = FALSE, !.garantia = "publicada"],
                               !.ofertas = @ \cup {o}])
  /\ UNCHANGED <<disco, publicadas, historia, respuestas, caidas>>

(* gossip, handle: a list of m is merged by n.                             *)
Oye(n, s) == Cambia(n, s) /\ UNCHANGED <<disco, publicadas, historia, respuestas, caidas>>

OyeOfertas(n, m) == Oye(n, FusionarOfertas(store[n], store[m].ofertas))
OyeRetiradas(n, m) == Oye(n, FusionarRetiradas(store[n], store[m].retiradas))
OyeObras(n, m) == Oye(n, FusionarObras(store[n], store[m].obras))

(* persistir: what the list shows is what is saved.                        *)
Guardado(s) == [s EXCEPT !.ofertas = tablero(s)]

Guarda(n) ==
  /\ disco' = [disco EXCEPT ![n] = Guardado(store[n])]
  /\ firmes' = firmes \cup {r \in sueltos : n = Mandante}
  /\ sueltos' = {r \in sueltos : n # Mandante}
  /\ UNCHANGED <<store, publicadas, fecha, respuestas, caidas>>

(* A node dies and starts: fijar_retiradas, hidratar.                      *)
Caida(n) ==
  /\ caidas < MaxCaidas /\ caidas' = caidas + 1
  /\ Cambia(n, [FusionarRetiradas(Vacio, disco[n].retiradas) EXCEPT
                 !.ofertas = sin_retiradas(disco[n].ofertas, disco[n].retiradas), !.obras = disco[n].obras])
  /\ sueltos' = {r \in sueltos : n # Mandante}
  /\ UNCHANGED <<disco, publicadas, fecha, firmes, respuestas>>

Next ==
  \/ \E o \in Ofertas : Publicar(o) \/ Retirar(o) \/ ConfirmarContra(o) \/ RechazarContra(o)
  \/ \E o \in Tratables, n \in Responden, c \in BOOLEAN : Aceptar(n, o, c)
  \/ \E n \in Caen : Guarda(n) \/ Caida(n)
  \/ \E n \in Nodos : \E m \in Nodos \ {n} : OyeOfertas(n, m) \/ OyeRetiradas(n, m) \/ OyeObras(n, m)

Spec == Init /\ [][Next]_vars

(* The stores are sent whole every few seconds and saved every second.     *)
SpecJusta ==
  /\ Spec
  /\ \A n \in Caen : WF_vars(Guarda(n))
  /\ \A n \in Nodos : \A m \in Nodos \ {n} :
       WF_vars(OyeOfertas(n, m)) /\ WF_vars(OyeRetiradas(n, m)) /\ WF_vars(OyeObras(n, m))

-----------------------------------------------------------------------------
(* An offer whose withdrawal was saved leaves every board for good, though *)
(* others go on announcing it and nodes die, as long as the list of        *)
(* withdrawals has room for it (retirar, merge_store; PROTOCOL.md,         *)
(* Withdrawing an offer).                                                  *)
Firme(o) == \E r \in firmes : r.oferta = o /\ r.cuando + MaxRetiradas > MaxRetiros
RetiroQueda ==
  \A o \in Ofertas : Firme(o) ~> [](\A n \in Nodos : o \notin tablero(store[n]))

(* With one contractor for an offer, every node ends with the same deal,   *)
(* whatever was countered, rejected, confirmed and withdrawn meanwhile     *)
(* (fusionar), unless a node died and forgot its answer.                   *)
Quienes(o) == {x[1] : x \in Range(respuestas[o])}
MismoTrato ==
  \A o \in Ofertas :
    <>[](\/ caidas > 0 \/ Cardinality(Quienes(o)) > 1
         \/ \A n, m \in Nodos : store[n].obras[o] = store[m].obras[o])

(* A deal agreed on says of its contractor what that contractor agreed to: *)
(* the guarantee is one that he answered with, while only one contractor   *)
(* answered the offer (aceptar_oferta, confirmar_contra, fusionar).        *)
Consintio(s, o) ==
  s.obras[o] # Nada /\ s.obras[o].estado = Acordada =>
    <<s.obras[o].contratista, s.obras[o].garantia>> \in Range(respuestas[o])
UnoConsintio == \A n \in Nodos, o \in Ofertas : Cardinality(Quienes(o)) <= 1 => Consintio(store[n], o)

=============================================================================
