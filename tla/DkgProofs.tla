-------------------------------- MODULE DkgProofs --------------------------------
(***************************************************************************)
(* The two people of Dkg never hold different boxes, whatever is lost,     *)
(* overtaken, restarted or restored, and for any number of mishaps.        *)
(*                                                                         *)
(* A run of the contractor answers one commitment: of what it sent the     *)
(* principal and of the accounts there are, each pair of runs is fixed by  *)
(* the run of the contractor (DeUnaVez).  An account of a later run of the *)
(* principal is of a later run of the contractor too (EnOrden).  So who    *)
(* takes an announced account, with the run of it still going on, takes    *)
(* the last one there is.                                                  *)
(***************************************************************************)
EXTENDS Dkg, SequenceTheorems, TLAPS

Claves == [m : Nat, c : Nat]
UnCommit == [paso : {"commit"}, de : Nat]
UnShare == [paso : {"share"}, de : Nat, con : Nat]
UnView == [paso : {"view"}, cuenta : Claves]
Mensajes == UnCommit \cup UnShare \cup UnView \cup {Pedir}
UnaCorrida == [mia : Nat, suya : Nat \cup {Nada}, fase : Fase, envie : BOOLEAN]
UnBuzon == [commit : UnCommit \cup {Nada}, share : UnShare \cup {Nada}, view : UnView \cup {Nada}]

Tipos ==
  /\ corrida \in [Partes -> UnaCorrida \cup {Nada}]
  /\ buzon \in [Partes -> UnBuzon]
  /\ cuenta \in [Partes -> Claves \cup {Nada}]
  /\ disco \in [Partes -> Claves \cup {Nada}]
  /\ respaldos \in [Partes -> SUBSET Claves]
  /\ red \in [Partes -> Seq(Mensajes)]
  /\ nacidas \in [Partes -> Nat]
  /\ perdidas \in Nat

(* What reached n or is on its way.                                        *)
EnBuzon(b) == {b.commit, b.share, b.view} \ {Nada}
Por(n) == ToSet(red[n]) \cup EnBuzon(buzon[n])

(* The accounts there are, and the pairs of runs of what the contractor    *)
(* sent.                                                                   *)
Hechas ==
  (({cuenta[Mandante], cuenta[Contratista]} \ {Nada}) \cup respaldos[Mandante] \cup respaldos[Contratista])
    \cup {v.cuenta : v \in {x \in Por(Contratista) : x.paso = "view"}}
Enviadas == {[m |-> s.con, c |-> s.de] : s \in {x \in Por(Mandante) : x.paso = "share"}}
Pares == Hechas \cup Enviadas

(* Runs have the number of the last one that was started.                  *)
Numeradas ==
  /\ \A n \in Partes : corrida[n] # Nada => corrida[n].mia = nacidas[n]
  /\ \A p \in Pares : p.m <= nacidas[Mandante] /\ p.c <= nacidas[Contratista]
  /\ \A x \in Por(Contratista) : x.paso = "commit" => x.de <= nacidas[Mandante]
  /\ corrida[Contratista] # Nada /\ corrida[Contratista].suya # Nada
       => corrida[Contratista].suya <= nacidas[Mandante]

(* A run of the contractor answers one commitment.                         *)
DeUnaVez ==
  /\ \A p, q \in Pares : p.c = q.c => p.m = q.m
  /\ corrida[Contratista] # Nada /\ corrida[Contratista].fase = "commit"
       => \A p \in Pares : p.c # corrida[Contratista].mia

EnOrden ==
  /\ \A p \in Pares, a \in Hechas : p.m > a.m => p.c > a.c
  /\ corrida[Mandante] # Nada => \A a \in Hechas : a.m < corrida[Mandante].mia

(* Until two accounts are lost: who lost one, and what the principal has   *)
(* of all there are.                                                       *)
Guardadas ==
  /\ perdidas = 0 => respaldos[Mandante] = {} /\ respaldos[Contratista] = {}
  /\ respaldos[Mandante] = {} \/ respaldos[Contratista] = {}
  /\ \A a, b \in respaldos[Mandante] : a = b
  /\ \A a \in Hechas : a \in respaldos[Mandante] \/ a = cuenta[Mandante]
  /\ \A a \in respaldos[Mandante] : cuenta[Mandante] \in {Nada, a} \/ cuenta[Mandante].m > a.m

(* What the contractor holds is the last account, and until it loses one   *)
(* no later one can be made.                                               *)
LaUltima ==
  cuenta[Contratista] # Nada =>
    /\ cuenta[Mandante] \in {Nada, cuenta[Contratista]}
    /\ respaldos[Contratista] = {} => \A s \in Enviadas : s.m <= cuenta[Contratista].m

IInv ==
  /\ Tipos
  /\ \A n \in Partes : disco[n] \in {Nada, cuenta[n]}
  /\ Numeradas
  /\ DeUnaVez
  /\ EnOrden
  /\ perdidas < 2 => Guardadas /\ LaUltima

-----------------------------------------------------------------------------
(* The two people, and what None is not.                                   *)

LEMMA Dos ==
  /\ Mandante \in Partes /\ Contratista \in Partes
  /\ Otro(Mandante) = Contratista /\ Otro(Contratista) = Mandante
  /\ Mandante # Contratista
  /\ \A n \in Partes : n = Mandante \/ n = Contratista
BY DkgAssumption DEF Partes, Otro

LEMMA NoEsNada ==
  /\ Nada \notin Nat /\ Nada \notin Claves /\ Nada \notin UnaCorrida
  /\ Nada \notin UnCommit /\ Nada \notin UnShare /\ Nada \notin UnView
BY NadaAssumption DEF Claves, UnCommit, UnShare, UnView, UnaCorrida, Fase

-----------------------------------------------------------------------------
(* The messages of a queue, as a set.                                      *)

LEMMA ColaDe ==
  ASSUME NEW T, NEW s \in Seq(T)
  PROVE  /\ ToSet(s) \subseteq T
         /\ s # << >> => /\ Head(s) \in ToSet(s)
                         /\ Tail(s) \in Seq(T)
                         /\ ToSet(Tail(s)) \subseteq ToSet(s)
BY DEF ToSet

LEMMA ColaMas ==
  ASSUME NEW T, NEW s \in Seq(T), NEW t \in Seq(T)
  PROVE  s \o t \in Seq(T) /\ ToSet(s \o t) \subseteq ToSet(s) \cup ToSet(t)
BY DEF ToSet

LEMMA ColaDeUno ==
  ASSUME NEW T, NEW m \in T
  PROVE  /\ <<m>> \in Seq(T) /\ ToSet(<<m>>) = {m}
         /\ << >> \in Seq(T) /\ ToSet(<< >>) = {}
BY DEF ToSet

LEMMA ColaAppend ==
  ASSUME NEW T, NEW s \in Seq(T), NEW m \in T
  PROVE  Append(s, m) \in Seq(T) /\ ToSet(Append(s, m)) \subseteq ToSet(s) \cup {m}
BY DEF ToSet

LEMMA ColaCambiada ==
  ASSUME NEW T, NEW s \in Seq(T), Len(s) >= 2
  PROVE  LET u == <<s[2], s[1]>> \o SubSeq(s, 3, Len(s)) IN
         u \in Seq(T) /\ ToSet(u) \subseteq ToSet(s)
<1>1. Len(s) \in Nat /\ DOMAIN s = 1 .. Len(s) /\ s[1] \in T /\ s[2] \in T
  BY LenProperties, ElementOfSeq
<1>2. \A i \in 3 .. Len(s) : s[i] \in T
  BY <1>1, ElementOfSeq
<1> DEFINE v == SubSeq(s, 3, Len(s))
<1>3. /\ v \in Seq(T) /\ Len(v) = Len(s) - 2
      /\ \A j \in 1 .. Len(s) - 2 : v[j] = s[j + 2]
  BY <1>1, <1>2, SubSeqProperties
<1>4. v \in Seq(T) /\ ToSet(v) \subseteq ToSet(s)
  BY <1>1, <1>3, LenProperties DEF ToSet
<1> HIDE DEF v
<1> DEFINE w == <<s[2], s[1]>>
<1>5. w \in Seq(T) /\ ToSet(w) \subseteq ToSet(s)
  BY <1>1 DEF ToSet
<1> HIDE DEF w
<1>6. w \o v \in Seq(T) /\ ToSet(w \o v) \subseteq ToSet(s)
  BY <1>4, <1>5, ColaMas
<1> QED
  BY <1>6 DEF v, w

-----------------------------------------------------------------------------
(* Facts about what reached a person or is on its way.                     *)

LEMMA DePor ==
  ASSUME Tipos
  PROVE  /\ \A n \in Partes : Por(n) \subseteq Mensajes
         /\ Hechas \subseteq Claves /\ Enviadas \subseteq Claves
         /\ Nada \notin Hechas /\ Nada \notin Pares
<1>1. ASSUME NEW n \in Partes PROVE Por(n) \subseteq Mensajes
  <2>1. red[n] \in Seq(Mensajes) /\ buzon[n] \in UnBuzon
    BY DEF Tipos
  <2>2. ToSet(red[n]) \subseteq Mensajes
    BY <2>1, ColaDe
  <2>3. EnBuzon(buzon[n]) \subseteq Mensajes
    BY <2>1 DEF EnBuzon, UnBuzon, Mensajes
  <2> QED  BY <2>2, <2>3 DEF Por
<1>4. \A v \in Mensajes : v.paso = "view" => v.cuenta \in Claves
  BY DEF Mensajes, UnCommit, UnShare, UnView, Pedir
<1>5. \A x \in Mensajes : x.paso = "share" => x.con \in Nat /\ x.de \in Nat
  BY DEF Mensajes, UnCommit, UnShare, UnView, Pedir
<1>6. Hechas \subseteq Claves
  <2>1. cuenta[Mandante] \in Claves \cup {Nada} /\ cuenta[Contratista] \in Claves \cup {Nada}
    BY Dos DEF Tipos
  <2>2. respaldos[Mandante] \subseteq Claves /\ respaldos[Contratista] \subseteq Claves
    BY Dos DEF Tipos
  <2> QED  BY <2>1, <2>2, <1>1, <1>4, Dos DEF Hechas
<1>7. Enviadas \subseteq Claves
  BY <1>1, <1>5, Dos DEF Enviadas, Claves
<1>8. Nada \notin Hechas /\ Nada \notin Pares
  BY <1>6, <1>7, NoEsNada DEF Pares
<1> QED
  BY <1>1, <1>6, <1>7, <1>8

(* A step after which there are no other messages and accounts than before *)
(* (a view of an account there is may be sent again), and no run but those *)
(* that were going on.                                                     *)
Mengua ==
  /\ nacidas' = nacidas
  /\ \A n \in Partes : corrida[n]' \in {corrida[n], Nada}
  /\ Por(Mandante)' \subseteq Por(Mandante)
  /\ \A x \in Por(Contratista)' : x \in Por(Contratista) \/ (x.paso = "view" /\ x.cuenta \in Hechas)
  /\ \A n \in Partes : cuenta[n]' \in Hechas \cup {Nada} /\ respaldos[n]' \subseteq Hechas

LEMMA Menos ==
  ASSUME Mengua
  PROVE  Hechas' \subseteq Hechas /\ Enviadas' \subseteq Enviadas /\ Pares' \subseteq Pares
<1>1. Hechas' \subseteq Hechas
  <2>1. /\ cuenta[Mandante]' \in Hechas \cup {Nada} /\ cuenta[Contratista]' \in Hechas \cup {Nada}
        /\ respaldos[Mandante]' \subseteq Hechas /\ respaldos[Contratista]' \subseteq Hechas
    BY Dos DEF Mengua
  <2>2. ASSUME NEW x \in Por(Contratista)', x.paso = "view" PROVE x.cuenta \in Hechas
    <3>1. x \in Por(Contratista) \/ (x.paso = "view" /\ x.cuenta \in Hechas)
      BY DEF Mengua
    <3>2. CASE x \in Por(Contratista)
      BY <2>2, <3>2 DEF Hechas
    <3> QED  BY <3>1, <3>2
  <2>3. Hechas' = (({cuenta[Mandante]', cuenta[Contratista]'} \ {Nada}) \cup respaldos[Mandante]' \cup respaldos[Contratista]')
                    \cup {v.cuenta : v \in {x \in Por(Contratista)' : x.paso = "view"}}
    BY DEF Hechas
  <2> QED  BY <2>1, <2>2, <2>3
<1>2. Enviadas' \subseteq Enviadas
  BY DEF Mengua, Enviadas
<1> QED
  BY <1>1, <1>2 DEF Pares

LEMMA MenosNumeros ==
  ASSUME Tipos, Tipos', Numeradas, DeUnaVez, EnOrden, Mengua
  PROVE  Numeradas' /\ DeUnaVez' /\ EnOrden'
<1>1. Hechas' \subseteq Hechas /\ Pares' \subseteq Pares
  BY Menos
<1>2. nacidas' = nacidas /\ \A n \in Partes : corrida'[n] \in {corrida[n], Nada}
  BY DEF Mengua
<1>3. corrida'[Mandante] \in {corrida[Mandante], Nada} /\ corrida'[Contratista] \in {corrida[Contratista], Nada}
  BY <1>2, Dos
<1>4. Numeradas'
  <2>1. \A n \in Partes : corrida'[n] # Nada => corrida'[n].mia = nacidas'[n]
    BY <1>2 DEF Numeradas
  <2>2. \A q \in Pares' : q.m <= nacidas'[Mandante] /\ q.c <= nacidas'[Contratista]
    BY <1>1, <1>2 DEF Numeradas
  <2>3. \A x \in Por(Contratista)' : x.paso = "commit" => x.de <= nacidas'[Mandante]
    BY <1>2 DEF Numeradas, Mengua
  <2>4. corrida'[Contratista] # Nada /\ corrida'[Contratista].suya # Nada
          => corrida'[Contratista].suya <= nacidas'[Mandante]
    BY <1>2, <1>3 DEF Numeradas
  <2> QED  BY <2>1, <2>2, <2>3, <2>4 DEF Numeradas
<1>5. DeUnaVez'
  BY <1>1, <1>3 DEF DeUnaVez
<1>6. EnOrden'
  BY <1>1, <1>3 DEF EnOrden
<1> QED
  BY <1>4, <1>5, <1>6

(* Such a step that leaves the accounts alone keeps the invariant.         *)
LEMMA MismasCuentas ==
  ASSUME IInv, Tipos', Mengua, cuenta' = cuenta, disco' = disco,
         respaldos' = respaldos, perdidas' = perdidas
  PROVE  IInv'
<1>1. Hechas' \subseteq Hechas /\ Enviadas' \subseteq Enviadas
  BY Menos
<1>2. Numeradas' /\ DeUnaVez' /\ EnOrden'
  BY MenosNumeros DEF IInv
<1>3. \A n \in Partes : disco'[n] \in {Nada, cuenta'[n]}
  BY DEF IInv
<1>4. perdidas' < 2 => Guardadas' /\ LaUltima'
  <2>1. SUFFICES ASSUME perdidas < 2 PROVE Guardadas' /\ LaUltima'
    OBVIOUS
  <2>2. Guardadas'
    BY <1>1, <2>1 DEF IInv, Guardadas
  <2>3. LaUltima'
    BY <1>1, <2>1 DEF IInv, LaUltima
  <2> QED  BY <2>2, <2>3
<1> QED
  BY <1>2, <1>3, <1>4 DEF IInv

(* The accounts that are there before the step.                            *)
LEMMA HechasDe ==
  /\ \A n \in Partes : cuenta[n] \in Hechas \cup {Nada} /\ respaldos[n] \subseteq Hechas
  /\ \A x \in Por(Contratista) : x.paso = "view" => x.cuenta \in Hechas
BY Dos DEF Hechas

-----------------------------------------------------------------------------
(* What the network does.                                                  *)

(* Less on the way, the rest as it was.                                    *)
LEMMA RedMenos ==
  ASSUME IInv, UNCHANGED <<corrida, buzon, cuenta, disco, respaldos, nacidas, perdidas>>,
         red' \in [Partes -> Seq(Mensajes)],
         \A n \in Partes : ToSet(red'[n]) \subseteq ToSet(red[n])
  PROVE  IInv'
<1>1. Tipos'
  BY DEF IInv, Tipos
<1>2. \A n \in Partes : Por(n)' \subseteq Por(n)
  BY DEF Por, EnBuzon
<1>3. Mengua
  BY <1>2, HechasDe, Dos DEF Mengua
<1> QED
  BY <1>1, <1>3, MismasCuentas

LEMMA FirmePaso ==
  ASSUME IInv, NEW n \in Partes, Firme(n)
  PROVE  IInv'
<1>1. red' \in [Partes -> Seq(Mensajes)] /\ \A k \in Partes : ToSet(red'[k]) \subseteq ToSet(red[k])
  BY DEF Firme, IInv, Tipos
<1> QED
  BY <1>1, RedMenos DEF Firme

LEMMA PerderPaso ==
  ASSUME IInv, NEW n \in Partes, Perder(n)
  PROVE  IInv'
<1>1. red \in [Partes -> Seq(Mensajes)] /\ red[n] \in Seq(Mensajes)
  BY DEF IInv, Tipos
<1>2. Tail(red[n]) \in Seq(Mensajes) /\ ToSet(Tail(red[n])) \subseteq ToSet(red[n])
  BY <1>1, ColaDe DEF Perder
<1>3. red' \in [Partes -> Seq(Mensajes)] /\ \A k \in Partes : ToSet(red'[k]) \subseteq ToSet(red[k])
  BY <1>1, <1>2 DEF Perder
<1> QED
  BY <1>3, RedMenos DEF Perder

LEMMA AdelantarPaso ==
  ASSUME IInv, NEW n \in Partes, Adelantar(n)
  PROVE  IInv'
<1> DEFINE u == <<red[n][2], red[n][1]>> \o SubSeq(red[n], 3, Len(red[n]))
<1>1. red \in [Partes -> Seq(Mensajes)] /\ red[n] \in Seq(Mensajes)
  BY DEF IInv, Tipos
<1>2. u \in Seq(Mensajes) /\ ToSet(u) \subseteq ToSet(red[n])
  BY <1>1, ColaCambiada DEF Adelantar
<1>3. red' = [red EXCEPT ![n] = u]
  BY DEF Adelantar
<1> HIDE DEF u
<1>4. red' \in [Partes -> Seq(Mensajes)] /\ \A k \in Partes : ToSet(red'[k]) \subseteq ToSet(red[k])
  BY <1>1, <1>2, <1>3
<1> QED
  BY <1>4, RedMenos DEF Adelantar

(* A mailbox with one message more.                                        *)
LEMMA BuzonMas ==
  ASSUME Tipos, NEW n \in Partes, NEW m \in Mensajes, m # Pedir, m.paso # "pedir"
  PROVE  /\ Guardado(n, m) \in [Partes -> UnBuzon]
         /\ \A k \in Partes : k # n => Guardado(n, m)[k] = buzon[k]
         /\ EnBuzon(Guardado(n, m)[n]) \subseteq EnBuzon(buzon[n]) \cup {m}
<1>1. buzon \in [Partes -> UnBuzon] /\ buzon[n] \in UnBuzon
  BY DEF Tipos
<1>2. \/ m \in UnCommit /\ m.paso = "commit"
      \/ m \in UnShare /\ m.paso = "share"
      \/ m \in UnView /\ m.paso = "view"
  BY DEF Mensajes, Pedir, UnCommit, UnShare, UnView
<1> DEFINE b == [buzon[n] EXCEPT ![m.paso] = m]
<1>3. b \in UnBuzon /\ EnBuzon(b) \subseteq EnBuzon(buzon[n]) \cup {m}
  BY <1>1, <1>2 DEF UnBuzon, EnBuzon
<1>4. Guardado(n, m) = [buzon EXCEPT ![n] = b] \/ Guardado(n, m) = buzon
  BY <1>1 DEF Guardado
<1> HIDE DEF b
<1> QED
  BY <1>1, <1>3, <1>4

LEMMA LlegaPaso ==
  ASSUME IInv, NEW n \in Partes, Llega(n)
  PROVE  IInv'
<1> DEFINE m == Head(red[n])
<1>1. Tipos /\ red \in [Partes -> Seq(Mensajes)] /\ red[n] \in Seq(Mensajes) /\ red[n] # << >>
  BY DEF IInv, Tipos, Llega
<1>2. /\ m \in ToSet(red[n]) /\ m \in Mensajes
      /\ Tail(red[n]) \in Seq(Mensajes) /\ ToSet(Tail(red[n])) \subseteq ToSet(red[n])
  <2>1. /\ ToSet(red[n]) \subseteq Mensajes
        /\ Head(red[n]) \in ToSet(red[n])
        /\ Tail(red[n]) \in Seq(Mensajes) /\ ToSet(Tail(red[n])) \subseteq ToSet(red[n])
    BY <1>1, ColaDe
  <2> QED  BY <2>1
<1>3. red' = [red EXCEPT ![n] = Tail(@)] /\ UNCHANGED <<corrida, cuenta, disco, respaldos, nacidas, perdidas>>
  BY DEF Llega
<1>4. red' \in [Partes -> Seq(Mensajes)] /\ \A k \in Partes : ToSet(red'[k]) \subseteq ToSet(red[k])
  BY <1>1, <1>2, <1>3
<1>5. CASE m.paso = "pedir"
  <2>1. buzon' = buzon
    BY <1>5 DEF Llega
  <2> QED  BY <2>1, <1>3, <1>4, RedMenos
<1>6. CASE m.paso # "pedir"
  <2>1. buzon' = Guardado(n, m)
    BY <1>6 DEF Llega
  <2>2. m # Pedir
    BY <1>6 DEF Pedir
  <2>3. /\ buzon' \in [Partes -> UnBuzon]
        /\ \A k \in Partes : k # n => buzon'[k] = buzon[k]
        /\ EnBuzon(buzon'[n]) \subseteq EnBuzon(buzon[n]) \cup {m}
    <3> HIDE DEF m
    <3> QED  BY <2>1, <2>2, <1>1, <1>2, <1>6, BuzonMas
  <2>4. \A k \in Partes : Por(k)' \subseteq Por(k)
    <3> HIDE DEF m
    <3>1. ASSUME NEW k \in Partes PROVE ToSet(red'[k]) \cup EnBuzon(buzon'[k]) \subseteq Por(k)
      BY <2>3, <1>2, <1>4 DEF Por
    <3> QED  BY <3>1 DEF Por
  <2>5. Tipos'
    BY <1>1, <1>3, <1>4, <2>3 DEF Tipos
  <2>6. Mengua
    BY <2>4, <1>3, HechasDe, Dos DEF Mengua
  <2> QED  BY <2>5, <2>6, <1>3, MismasCuentas
<1> QED
  BY <1>5, <1>6

LEMMA RepitePaso ==
  ASSUME IInv, Repite
  PROVE  IInv'
<1> DEFINE v == [paso |-> "view", cuenta |-> cuenta[Mandante]]
<1>1. Tipos /\ red \in [Partes -> Seq(Mensajes)] /\ red[Contratista] \in Seq(Mensajes)
  BY Dos DEF IInv, Tipos
<1>2. cuenta[Mandante] \in Hechas /\ cuenta[Mandante] \in Claves
  BY <1>1, HechasDe, Dos DEF Repite, Tipos
<1>3. v \in Mensajes /\ v.paso = "view" /\ v.cuenta \in Hechas
  BY <1>2 DEF Mensajes, UnView
<1>4. red' = [red EXCEPT ![Contratista] = IF v \in ToSet(@) THEN @ ELSE Append(@, v)]
  BY DEF Repite
<1>5. /\ Append(red[Contratista], v) \in Seq(Mensajes)
      /\ ToSet(Append(red[Contratista], v)) \subseteq ToSet(red[Contratista]) \cup {v}
  <2> HIDE DEF v
  <2> QED  BY <1>1, <1>3, ColaAppend
<1>6. UNCHANGED <<corrida, buzon, cuenta, disco, respaldos, nacidas, perdidas>>
  BY DEF Repite
<1> HIDE DEF v
<1>7. /\ red' \in [Partes -> Seq(Mensajes)]
      /\ ToSet(red'[Mandante]) \subseteq ToSet(red[Mandante])
      /\ ToSet(red'[Contratista]) \subseteq ToSet(red[Contratista]) \cup {v}
  BY <1>1, <1>4, <1>5, Dos
<1>8. Tipos'
  BY <1>1, <1>6, <1>7 DEF Tipos
<1>9. Por(Mandante)' \subseteq Por(Mandante) /\ Por(Contratista)' \subseteq Por(Contratista) \cup {v}
  BY <1>6, <1>7 DEF Por, EnBuzon
<1>10. Mengua
  BY <1>3, <1>6, <1>9, HechasDe DEF Mengua
<1> QED
  BY <1>6, <1>8, <1>10, MismasCuentas

-----------------------------------------------------------------------------
(* A person who starts again, and one who restores an account.             *)

(* Who loses the run and the mailbox, and has an account that there was.   *)
LEMMA Vuelve ==
  ASSUME IInv, NEW n \in Partes, NEW a \in Hechas \cup {Nada},
         cuenta' = [cuenta EXCEPT ![n] = a], disco' = [disco EXCEPT ![n] = a],
         corrida' \in {corrida, [corrida EXCEPT ![n] = Nada]},
         buzon' \in {buzon, [buzon EXCEPT ![n] = BuzonVacio]},
         respaldos' \in [Partes -> SUBSET Hechas],
         perdidas' \in Nat, red' = red, nacidas' = nacidas
  PROVE  /\ Tipos' /\ Numeradas' /\ DeUnaVez' /\ EnOrden'
         /\ \A k \in Partes : disco'[k] \in {Nada, cuenta'[k]}
         /\ Hechas' \subseteq Hechas /\ Enviadas' \subseteq Enviadas
<1>1. Tipos /\ Hechas \subseteq Claves
  BY DePor DEF IInv
<1>2. Tipos'
  <2>1. BuzonVacio \in UnBuzon
    BY DEF BuzonVacio, UnBuzon
  <2>2. buzon' \in [Partes -> UnBuzon] /\ corrida' \in [Partes -> UnaCorrida \cup {Nada}]
    BY <1>1, <2>1 DEF Tipos
  <2>3. cuenta' \in [Partes -> Claves \cup {Nada}] /\ disco' \in [Partes -> Claves \cup {Nada}]
    BY <1>1 DEF Tipos
  <2>4. respaldos' \in [Partes -> SUBSET Claves]
    BY <1>1
  <2> QED  BY <2>2, <2>3, <2>4, <1>1 DEF Tipos
<1>3. \A k \in Partes : disco'[k] \in {Nada, cuenta'[k]}
  BY <1>1 DEF IInv, Tipos
<1>4. \A k \in Partes : Por(k)' \subseteq Por(k)
  <2>1. ASSUME NEW k \in Partes PROVE EnBuzon(buzon'[k]) \subseteq EnBuzon(buzon[k])
    <3>1. buzon'[k] = buzon[k] \/ buzon'[k] = BuzonVacio
      BY <1>1 DEF Tipos
    <3>2. EnBuzon(BuzonVacio) = {}
      BY DEF EnBuzon, BuzonVacio
    <3> QED  BY <3>1, <3>2
  <2> QED  BY <2>1 DEF Por
<1>5. \A k \in Partes : cuenta[k]' \in Hechas \cup {Nada} /\ respaldos[k]' \subseteq Hechas
  BY <1>1, HechasDe DEF Tipos
<1>6. \A k \in Partes : corrida[k]' \in {corrida[k], Nada}
  BY <1>1 DEF Tipos
<1>7. Mengua
  BY <1>4, <1>5, <1>6, Dos DEF Mengua
<1> QED
  BY <1>1, <1>2, <1>3, <1>7, Menos, MenosNumeros DEF IInv

LEMMA ReiniciarPaso ==
  ASSUME IInv, NEW n \in Partes, NEW queda \in BOOLEAN, Reiniciar(n, queda)
  PROVE  IInv'
<1> DEFINE a == IF queda THEN disco[n] ELSE Nada
<1>1. Tipos /\ a \in {Nada, cuenta[n]} /\ cuenta[n] \in Hechas \cup {Nada}
  BY HechasDe DEF IInv
<1>2. /\ disco' = [disco EXCEPT ![n] = a] /\ disco'[n] = a
      /\ cuenta' = [cuenta EXCEPT ![n] = a] /\ cuenta'[n] = a
      /\ corrida' = [corrida EXCEPT ![n] = Nada]
      /\ buzon' = [buzon EXCEPT ![n] = BuzonVacio]
      /\ red' = red /\ nacidas' = nacidas
  BY <1>1 DEF Reiniciar, Tipos
<1>3. \/ a = cuenta[n] /\ respaldos' = respaldos /\ perdidas' = perdidas
      \/ /\ a # cuenta[n] /\ respaldos' = [respaldos EXCEPT ![n] = @ \cup {cuenta[n]}]
         /\ perdidas' = perdidas + 1
  BY <1>1, <1>2 DEF Reiniciar, Tipos
<1> HIDE DEF a
<1>4. perdidas \in Nat /\ perdidas' \in Nat /\ (a # cuenta[n] => a = Nada /\ cuenta[n] \in Hechas)
  BY <1>1, <1>3 DEF Tipos
<1>5. respaldos' \in [Partes -> SUBSET Hechas]
  <2>1. respaldos \in [Partes -> SUBSET Hechas]
    <3>1. respaldos = [k \in Partes |-> respaldos[k]]
      BY <1>1 DEF Tipos
    <3>2. \A k \in Partes : respaldos[k] \in SUBSET Hechas
      BY HechasDe
    <3> QED  BY <3>1, <3>2
  <2> QED  BY <2>1, <1>3, <1>4
<1>6. /\ Tipos' /\ Numeradas' /\ DeUnaVez' /\ EnOrden'
      /\ \A k \in Partes : disco'[k] \in {Nada, cuenta'[k]}
      /\ Hechas' \subseteq Hechas /\ Enviadas' \subseteq Enviadas
  <2>1. a \in Hechas \cup {Nada}
    BY <1>1
  <2> QED  BY <2>1, <1>2, <1>4, <1>5, Vuelve
<1>7. perdidas' < 2 => Guardadas' /\ LaUltima'
  <2>1. SUFFICES ASSUME perdidas' < 2 PROVE Guardadas' /\ LaUltima'
    OBVIOUS
  <2>2. Guardadas /\ LaUltima
    BY <2>1, <1>3, <1>4 DEF IInv
  <2>3. CASE a = cuenta[n]
    <3>1. cuenta' = cuenta /\ respaldos' = respaldos /\ perdidas' = perdidas
      BY <2>3, <1>1, <1>2, <1>3 DEF Tipos
    <3> QED  BY <3>1, <1>6, <2>2 DEF Guardadas, LaUltima
  <2>4. CASE a # cuenta[n]
    <3>1. perdidas = 0 /\ perdidas' = 1 /\ a = Nada
      BY <2>1, <2>4, <1>3, <1>4
    <3>2. respaldos[Mandante] = {} /\ respaldos[Contratista] = {}
      BY <2>2, <3>1 DEF Guardadas
    <3>3. cuenta'[n] = Nada /\ \A k \in Partes : k # n => cuenta'[k] = cuenta[k] /\ respaldos'[k] = {}
      BY <1>1, <1>2, <1>3, <2>4, <3>1, <3>2, Dos DEF Tipos
    <3>4. respaldos'[n] = {cuenta[n]}
      <4>1. respaldos' = [respaldos EXCEPT ![n] = @ \cup {cuenta[n]}] /\ n \in DOMAIN respaldos
        BY <1>1, <1>3, <2>4 DEF Tipos
      <4>2. respaldos[n] = {}
        BY <3>2, Dos
      <4> QED  BY <4>1, <4>2
    <3>5. \A x \in Hechas' : x = cuenta[Mandante]
      BY <2>2, <3>2, <1>6 DEF Guardadas
    <3>6. CASE n = Mandante
      <4>1. cuenta'[Mandante] = Nada /\ respaldos'[Contratista] = {} /\ cuenta'[Contratista] = cuenta[Contratista]
        BY <3>3, <3>6, Dos
      <4>2. Guardadas'
        BY <4>1, <3>1, <3>4, <3>5, <3>6 DEF Guardadas
      <4>3. LaUltima'
        BY <4>1, <2>2, <3>2, <1>6 DEF LaUltima
      <4> QED  BY <4>2, <4>3
    <3>7. CASE n = Contratista
      <4>1. cuenta'[Contratista] = Nada /\ respaldos'[Mandante] = {} /\ cuenta'[Mandante] = cuenta[Mandante]
        BY <3>3, <3>7, Dos
      <4> QED  BY <4>1, <3>1, <3>5 DEF Guardadas, LaUltima
    <3> QED  BY <3>6, <3>7, Dos
  <2> QED  BY <2>3, <2>4
<1> QED
  BY <1>6, <1>7 DEF IInv

LEMMA RestaurarPaso ==
  ASSUME IInv, NEW n \in Partes, NEW a, Restaurar(n, a)
  PROVE  IInv'
<1>1. Tipos /\ a \in Hechas /\ a # Nada
  BY HechasDe DEF IInv, Restaurar
<1>2. /\ cuenta' = [cuenta EXCEPT ![n] = a] /\ disco' = [disco EXCEPT ![n] = a]
      /\ corrida' \in {corrida, [corrida EXCEPT ![n] = Nada]}
      /\ buzon' \in {buzon, [buzon EXCEPT ![n] = BuzonVacio]}
      /\ UNCHANGED <<respaldos, red, nacidas, perdidas>>
  BY DEF Restaurar
<1>3. respaldos' \in [Partes -> SUBSET Hechas] /\ perdidas' \in Nat
  BY <1>1, <1>2, HechasDe DEF Tipos
<1>4. /\ Tipos' /\ Numeradas' /\ DeUnaVez' /\ EnOrden'
      /\ \A k \in Partes : disco'[k] \in {Nada, cuenta'[k]}
      /\ Hechas' \subseteq Hechas /\ Enviadas' \subseteq Enviadas
  BY <1>1, <1>2, <1>3, Vuelve
<1>5. perdidas' < 2 => Guardadas' /\ LaUltima'
  <2>1. SUFFICES ASSUME perdidas < 2 PROVE Guardadas' /\ LaUltima'
    BY <1>2
  <2>2. Guardadas /\ LaUltima
    BY <2>1 DEF IInv
  <2>3. CASE cuenta[n] = a
    <3>1. cuenta' = cuenta
      BY <2>3, <1>1, <1>2 DEF Tipos
    <3> QED  BY <3>1, <1>2, <1>4, <2>2 DEF Guardadas, LaUltima
  <2>4. CASE cuenta[n] # a
    <3>1. cuenta[n] = Nada /\ a \in respaldos[n]
      BY <2>4, <1>1 DEF Restaurar
    <3>2. CASE n = Mandante
      <4>1. cuenta'[Mandante] = a /\ cuenta'[Contratista] = cuenta[Contratista]
        BY <3>2, <1>1, <1>2, Dos DEF Tipos
      <4>2. \A x \in Hechas : x \in respaldos[Mandante]
        BY <2>2, <3>1, <3>2, DePor, <1>1 DEF Guardadas
      <4>3. \A x \in Hechas : x = a
        BY <4>2, <3>1, <3>2, <2>2 DEF Guardadas
      <4>4. cuenta[Contratista] \in {Nada, a}
        BY <4>3, HechasDe, Dos
      <4>5. Guardadas'
        BY <4>1, <4>2, <4>3, <2>2, <1>2, <1>4, HechasDe, Dos DEF Guardadas
      <4>6. LaUltima'
        BY <4>1, <4>4, <2>2, <1>2, <1>4 DEF LaUltima
      <4> QED  BY <4>5, <4>6
    <3>3. CASE n = Contratista
      <4>1. cuenta'[Contratista] = a /\ cuenta'[Mandante] = cuenta[Mandante]
        BY <3>3, <1>1, <1>2, Dos DEF Tipos
      <4>2. respaldos[Mandante] = {} /\ respaldos[Contratista] # {}
        BY <3>1, <3>3, <2>2 DEF Guardadas
      <4>3. a = cuenta[Mandante]
        BY <4>2, <1>1, <2>2 DEF Guardadas
      <4>4. Guardadas'
        BY <4>1, <2>2, <1>2, <1>4 DEF Guardadas
      <4>5. LaUltima'
        BY <4>1, <4>2, <4>3, <1>2 DEF LaUltima
      <4> QED  BY <4>4, <4>5
    <3> QED  BY <3>2, <3>3, Dos
  <2> QED  BY <2>3, <2>4
<1> QED
  BY <1>4, <1>5 DEF IInv

-----------------------------------------------------------------------------
(* The tick of a person: the run before it (R0), after the commitment of   *)
(* the other (R1) and after the whole mailbox (R3), and the account that   *)
(* it may end with.                                                        *)
R0(n) == IF corrida[n] = Nada THEN Empieza(n) ELSE corrida[n]
R1(n) == IngestCommit(R0(n), buzon[n].commit)
R2(n) == IngestShare(n, R1(n), buzon[n].share)
R3(n) == IF n = Contratista THEN IngestView(R2(n), buzon[n].view) ELSE R2(n)
Hecha(n) ==
  IF n = Mandante THEN [m |-> R1(n).mia, c |-> R1(n).suya]
                  ELSE [m |-> R1(n).suya, c |-> R1(n).mia]
Termina(n) ==
  IF n = Mandante THEN buzon[n].share # Nada /\ Encaja(R1(n), buzon[n].share)
  ELSE buzon[n].view # Nada /\ R2(n).fase = "view" /\ MismaDireccion(R2(n), buzon[n].view)
Comparte(n) == R0(n).fase = "commit" /\ R1(n).fase = "share"
ElCommit(n) == [paso |-> "commit", de |-> R0(n).mia]
ElShare(n) == [paso |-> "share", de |-> R1(n).mia, con |-> R1(n).suya]
LaView(n) == [paso |-> "view", cuenta |-> Hecha(n)]
Dice(n) ==
  (IF R0(n).envie THEN << >> ELSE <<ElCommit(n)>>)
    \o (IF Comparte(n) THEN <<ElShare(n)>> ELSE << >>)
    \o (IF n = Mandante /\ Termina(n) THEN <<LaView(n)>> ELSE << >>)
    \o Pide(n, Termina(n))

LEMMA AvanzaEs ==
  ASSUME NEW n \in Partes, NEW sale \in BOOLEAN, NEW guarda \in BOOLEAN, Avanza(n, sale, guarda)
  PROVE  /\ cuenta[n] = Nada
         /\ nacidas' = [nacidas EXCEPT ![n] = R0(n).mia]
         /\ red' = [red EXCEPT ![Otro(n)] = IF sale THEN @ \o Dice(n) ELSE @]
         /\ buzon' = [buzon EXCEPT ![n] = BuzonVacio]
         /\ Termina(n) =>
              /\ cuenta' = [cuenta EXCEPT ![n] = Hecha(n)]
              /\ corrida' = [corrida EXCEPT ![n] = Nada]
              /\ disco' \in {disco, [disco EXCEPT ![n] = Hecha(n)]}
         /\ ~Termina(n) =>
              /\ corrida' = [corrida EXCEPT ![n] = [R3(n) EXCEPT !.envie = R0(n).envie \/ sale]]
              /\ cuenta' = cuenta /\ disco' = disco
         /\ respaldos' = respaldos /\ perdidas' = perdidas
BY DEF Avanza, R0, R1, R2, R3, Hecha, Termina, Comparte, ElCommit, ElShare, LaView, Dice

(* The runs of a tick have one number, the one of the last run started.    *)
LEMMA Corridas ==
  ASSUME IInv, NEW n \in Partes
  PROVE  /\ {R0(n), R1(n), R2(n), R3(n)} \subseteq UnaCorrida
         /\ R1(n).mia = R0(n).mia /\ R3(n).mia = R0(n).mia /\ R2(n).mia = R0(n).mia
         /\ R3(n).suya = R1(n).suya /\ R2(n).suya = R1(n).suya
         /\ R0(n).mia >= nacidas[n]
         /\ \/ corrida[n] = Nada /\ R0(n).mia > nacidas[n] /\ R0(n).suya = Nada
            \/ corrida[n] # Nada /\ R0(n) = corrida[n] /\ R0(n).mia = nacidas[n]
         /\ R3(n).fase = "commit" => R0(n).fase = "commit" /\ R1(n).fase = "commit"
         /\ \/ R1(n).suya = R0(n).suya /\ ~Comparte(n)
            \/ buzon[n].commit # Nada /\ R1(n).suya = buzon[n].commit.de
<1>1. /\ corrida[n] \in UnaCorrida \cup {Nada} /\ buzon[n] \in UnBuzon /\ nacidas[n] \in Nat
      /\ corrida[n] # Nada => corrida[n].mia = nacidas[n]
  BY DEF IInv, Tipos, Numeradas
<1>2. /\ R0(n) \in UnaCorrida
      /\ \/ corrida[n] = Nada /\ R0(n).mia = nacidas[n] + 1 /\ R0(n).suya = Nada
         \/ corrida[n] # Nada /\ R0(n) = corrida[n] /\ R0(n).mia = nacidas[n]
  BY <1>1 DEF R0, Empieza, UnaCorrida, Fase
<1> HIDE DEF R0
<1>3. /\ R1(n) \in UnaCorrida /\ R1(n).mia = R0(n).mia
      /\ R1(n).fase = "commit" => R0(n).fase = "commit"
      /\ \/ R1(n).suya = R0(n).suya /\ ~Comparte(n)
         \/ buzon[n].commit # Nada /\ R1(n).suya = buzon[n].commit.de
  <2>1. buzon[n].commit \in UnCommit \cup {Nada}
    BY <1>1 DEF UnBuzon
  <2>2. CASE buzon[n].commit = Nada
    <3>1. R1(n) = R0(n)
      BY <2>2 DEF R1, IngestCommit
    <3> QED  BY <3>1, <1>2 DEF Comparte
  <2>3. CASE buzon[n].commit # Nada /\ R0(n).fase = "commit"
    <3>1. R1(n) = [R0(n) EXCEPT !.fase = "share", !.suya = buzon[n].commit.de]
      BY <2>3 DEF R1, IngestCommit
    <3>2. buzon[n].commit.de \in Nat
      BY <2>1, <2>3 DEF UnCommit
    <3> QED  BY <3>1, <3>2, <2>3, <1>2 DEF UnaCorrida, Fase
  <2>4. CASE buzon[n].commit # Nada /\ R0(n).fase # "commit"
    <3>1. R1(n) = [R0(n) EXCEPT !.fase = "fin"]
      BY <2>4 DEF R1, IngestCommit
    <3> QED  BY <3>1, <2>4, <1>2 DEF UnaCorrida, Fase, Comparte
  <2> QED  BY <2>2, <2>3, <2>4
<1> HIDE DEF R1
<1>4. /\ R2(n) \in UnaCorrida /\ R2(n).mia = R1(n).mia /\ R2(n).suya = R1(n).suya
      /\ R2(n).fase = "commit" => R1(n).fase = "commit"
  <2>1. R2(n) \in {R1(n), [R1(n) EXCEPT !.fase = "view"], [R1(n) EXCEPT !.fase = "fin"]}
    BY DEF R2, IngestShare
  <2> QED  BY <2>1, <1>3 DEF UnaCorrida, Fase
<1> HIDE DEF R2
<1>5. /\ R3(n) \in UnaCorrida /\ R3(n).mia = R2(n).mia /\ R3(n).suya = R2(n).suya
      /\ R3(n).fase = "commit" => R2(n).fase = "commit"
  <2>1. R3(n) \in {R2(n), [R2(n) EXCEPT !.fase = "fin"]}
    BY DEF R3, IngestView
  <2> QED  BY <2>1, <1>4 DEF UnaCorrida, Fase
<1> QED
  BY <1>1, <1>2, <1>3, <1>4, <1>5

(* The account a tick ends with was in the mailbox: as the share that fits *)
(* the run of the principal, or as the announced account.                  *)
LEMMA DelBuzon ==
  ASSUME IInv, NEW n \in Partes, Termina(n)
  PROVE  /\ Hecha(n) \in Claves
         /\ n = Mandante => Hecha(n) \in Enviadas /\ Hecha(n).m = R0(n).mia
         /\ n = Contratista => Hecha(n) \in Hechas /\ Hecha(n).c = R0(n).mia
<1>1. /\ Tipos /\ buzon[n] \in UnBuzon
      /\ R1(n).mia = R0(n).mia /\ R2(n).mia = R0(n).mia /\ R2(n).suya = R1(n).suya
  BY Corridas DEF IInv, Tipos
<1>2. CASE n = Mandante
  <2> DEFINE s == buzon[n].share
  <2>1. s # Nada /\ s \in UnShare /\ Encaja(R1(n), s)
    BY <1>1, <1>2 DEF Termina, UnBuzon
  <2>2. s.con = R1(n).mia /\ s.de = R1(n).suya /\ s.paso = "share"
    BY <2>1 DEF Encaja, UnShare
  <2>3. s \in Por(Mandante)
    BY <2>1, <1>2 DEF Por, EnBuzon
  <2>4. Hecha(n) = [m |-> s.con, c |-> s.de]
    BY <2>2, <1>2 DEF Hecha
  <2>5. Hecha(n) \in Enviadas
    BY <2>2, <2>3, <2>4 DEF Enviadas
  <2>6. Hecha(n).m = R0(n).mia
    BY <2>2, <2>4, <1>1
  <2> QED  BY <2>5, <2>6, <1>1, <1>2, DePor, Dos
<1>3. CASE n = Contratista
  <2> DEFINE v == buzon[n].view
  <2>1. v # Nada /\ v \in UnView /\ MismaDireccion(R2(n), v)
    BY <1>1, <1>3, Dos DEF Termina, UnBuzon
  <2>2. v \in Por(Contratista) /\ v.paso = "view"
    BY <2>1, <1>3 DEF Por, EnBuzon, UnView
  <2>3. v.cuenta = Hecha(n)
    BY <2>1, <1>1, <1>3, Dos DEF MismaDireccion, Hecha
  <2>4. Hecha(n) \in Hechas
    BY <2>2, <2>3, HechasDe
  <2>5. Hecha(n).c = R0(n).mia
    BY <1>1, <1>3, Dos DEF Hecha
  <2> QED  BY <2>4, <2>5, <1>1, <1>3, DePor, Dos
<1> QED
  BY <1>2, <1>3, Dos

(* What a tick sends.                                                      *)
LEMMA Dichos ==
  ASSUME IInv, NEW n \in Partes
  PROVE  /\ Dice(n) \in Seq(Mensajes)
         /\ ToSet(Dice(n)) \subseteq {ElCommit(n), Pedir}
              \cup {x \in {ElShare(n)} : Comparte(n)}
              \cup {x \in {LaView(n)} : n = Mandante /\ Termina(n)}
<1>1. R0(n) \in UnaCorrida /\ R1(n) \in UnaCorrida /\ buzon[n] \in UnBuzon
  BY Corridas DEF IInv, Tipos
<1>2. ElCommit(n) \in Mensajes /\ Pedir \in Mensajes
  BY <1>1 DEF ElCommit, Mensajes, UnCommit, UnaCorrida
<1>3. Comparte(n) => ElShare(n) \in Mensajes
  <2>1. SUFFICES ASSUME Comparte(n) PROVE ElShare(n) \in Mensajes
    OBVIOUS
  <2>2. buzon[n].commit # Nada /\ R1(n).suya = buzon[n].commit.de
    BY <2>1, Corridas
  <2>3. R1(n).suya \in Nat /\ R1(n).mia \in Nat
    BY <2>2, <1>1 DEF UnBuzon, UnCommit, UnaCorrida
  <2> QED  BY <2>3 DEF ElShare, Mensajes, UnShare
<1>4. n = Mandante /\ Termina(n) => LaView(n) \in Mensajes
  BY DelBuzon DEF LaView, Mensajes, UnView
<1> DEFINE a == IF R0(n).envie THEN << >> ELSE <<ElCommit(n)>>
           b == IF Comparte(n) THEN <<ElShare(n)>> ELSE << >>
           c == IF n = Mandante /\ Termina(n) THEN <<LaView(n)>> ELSE << >>
           d == Pide(n, Termina(n))
           ab == a \o b
           abc == ab \o c
<1>5. a \in Seq(Mensajes) /\ ToSet(a) \subseteq {ElCommit(n)}
  BY <1>2, ColaDeUno
<1>6. b \in Seq(Mensajes) /\ ToSet(b) \subseteq {x \in {ElShare(n)} : Comparte(n)}
  BY <1>2, <1>3, ColaDeUno
<1>7. c \in Seq(Mensajes) /\ ToSet(c) \subseteq {x \in {LaView(n)} : n = Mandante /\ Termina(n)}
  BY <1>2, <1>4, ColaDeUno
<1>8. d \in Seq(Mensajes) /\ ToSet(d) \subseteq {Pedir}
  <2>1. d = << >> \/ d = <<Pedir>>
    BY DEF Pide
  <2> HIDE DEF d
  <2> QED  BY <2>1, <1>2, ColaDeUno
<1>9. Dice(n) = abc \o d
  BY DEF Dice
<1> HIDE DEF a, b, c, d
<1>10. ab \in Seq(Mensajes) /\ ToSet(ab) \subseteq ToSet(a) \cup ToSet(b)
  BY <1>5, <1>6, ColaMas
<1> HIDE DEF ab
<1>11. abc \in Seq(Mensajes) /\ ToSet(abc) \subseteq ToSet(ab) \cup ToSet(c)
  BY <1>10, <1>7, ColaMas
<1> HIDE DEF abc
<1>12. Dice(n) \in Seq(Mensajes) /\ ToSet(Dice(n)) \subseteq ToSet(abc) \cup ToSet(d)
  BY <1>9, <1>11, <1>8, ColaMas
<1> QED
  BY <1>5, <1>6, <1>7, <1>8, <1>10, <1>11, <1>12

(* What a tick leaves on its way and in the mailboxes.                     *)
LEMMA AvanzaPor ==
  ASSUME IInv, NEW n \in Partes, NEW sale \in BOOLEAN, NEW guarda \in BOOLEAN, Avanza(n, sale, guarda)
  PROVE  /\ Tipos'
         /\ Por(n)' \subseteq Por(n)
         /\ Por(Otro(n))' \subseteq Por(Otro(n)) \cup {ElCommit(n), Pedir}
              \cup {x \in {ElShare(n)} : Comparte(n)}
              \cup {x \in {LaView(n)} : n = Mandante /\ Termina(n)}
         /\ \A k \in Partes : disco'[k] \in {Nada, cuenta'[k]}
<1>1. /\ cuenta[n] = Nada
      /\ nacidas' = [nacidas EXCEPT ![n] = R0(n).mia]
      /\ red' = [red EXCEPT ![Otro(n)] = IF sale THEN @ \o Dice(n) ELSE @]
      /\ buzon' = [buzon EXCEPT ![n] = BuzonVacio]
      /\ Termina(n) =>
           /\ cuenta' = [cuenta EXCEPT ![n] = Hecha(n)]
           /\ corrida' = [corrida EXCEPT ![n] = Nada]
           /\ disco' \in {disco, [disco EXCEPT ![n] = Hecha(n)]}
      /\ ~Termina(n) =>
           /\ corrida' = [corrida EXCEPT ![n] = [R3(n) EXCEPT !.envie = R0(n).envie \/ sale]]
           /\ cuenta' = cuenta /\ disco' = disco
      /\ respaldos' = respaldos /\ perdidas' = perdidas
  BY AvanzaEs
<1>2. Tipos /\ R0(n) \in UnaCorrida /\ R3(n) \in UnaCorrida /\ Otro(n) \in Partes /\ Otro(n) # n
  BY Corridas, Dos DEF IInv
<1>3. Termina(n) => Hecha(n) \in Claves
  BY DelBuzon
<1> DEFINE nueva == [R3(n) EXCEPT !.envie = R0(n).envie \/ sale]
           q == red[Otro(n)] \o Dice(n)
<1>4. nueva \in UnaCorrida
  BY <1>2 DEF UnaCorrida
<1>5. q \in Seq(Mensajes) /\ ToSet(q) \subseteq ToSet(red[Otro(n)]) \cup ToSet(Dice(n))
  BY <1>2, Dichos, ColaMas DEF Tipos
<1> HIDE DEF nueva, q
<1>6. red' = [red EXCEPT ![Otro(n)] = IF sale THEN q ELSE @]
  BY <1>1 DEF q
<1>7. /\ red' \in [Partes -> Seq(Mensajes)] /\ red'[n] = red[n]
      /\ ToSet(red'[Otro(n)]) \subseteq ToSet(red[Otro(n)]) \cup ToSet(Dice(n))
  BY <1>2, <1>5, <1>6 DEF Tipos
<1>8. corrida' \in [Partes -> UnaCorrida \cup {Nada}]
  <2>1. corrida' \in {[corrida EXCEPT ![n] = Nada], [corrida EXCEPT ![n] = nueva]}
    BY <1>1 DEF nueva
  <2> QED  BY <2>1, <1>2, <1>4 DEF Tipos
<1>9. /\ buzon' \in [Partes -> UnBuzon] /\ EnBuzon(buzon'[n]) = {} /\ buzon'[Otro(n)] = buzon[Otro(n)]
      /\ nacidas' \in [Partes -> Nat]
  <2>1. BuzonVacio \in UnBuzon /\ EnBuzon(BuzonVacio) = {}
    BY DEF BuzonVacio, UnBuzon, EnBuzon
  <2>2. R0(n).mia \in Nat
    BY <1>2 DEF UnaCorrida
  <2> QED  BY <2>1, <2>2, <1>1, <1>2 DEF Tipos
<1>10. /\ cuenta' \in [Partes -> Claves \cup {Nada}] /\ disco' \in [Partes -> Claves \cup {Nada}]
       /\ \A k \in Partes : disco'[k] \in {Nada, cuenta'[k]}
  <2>1. /\ cuenta \in [Partes -> Claves \cup {Nada}] /\ disco \in [Partes -> Claves \cup {Nada}]
        /\ \A k \in Partes : disco[k] \in {Nada, cuenta[k]}
    BY DEF IInv, Tipos
  <2>2. CASE Termina(n)
    <3>1. Hecha(n) \in Claves
      BY <2>2, <1>3
    <3>2. /\ cuenta' = [cuenta EXCEPT ![n] = Hecha(n)]
          /\ disco' \in {disco, [disco EXCEPT ![n] = Hecha(n)]}
      BY <2>2, <1>1
    <3>3. cuenta' \in [Partes -> Claves \cup {Nada}] /\ disco' \in [Partes -> Claves \cup {Nada}]
      BY <2>1, <3>1, <3>2
    <3>4. disco'[n] \in {Nada, cuenta'[n]}
      BY <2>1, <3>2, <1>1
    <3>5. \A k \in Partes : k # n => disco'[k] = disco[k] /\ cuenta'[k] = cuenta[k]
      BY <2>1, <3>2
    <3> QED  BY <2>1, <3>3, <3>4, <3>5
  <2>3. CASE ~Termina(n)
    BY <2>1, <2>3, <1>1
  <2> QED  BY <2>2, <2>3
<1>11. Tipos'
  BY <1>1, <1>2, <1>7, <1>8, <1>9, <1>10 DEF Tipos
<1>12. Por(n)' \subseteq Por(n)
  BY <1>7, <1>9 DEF Por
<1>13. Por(Otro(n))' \subseteq Por(Otro(n)) \cup ToSet(Dice(n))
  BY <1>7, <1>9 DEF Por
<1> QED
  BY <1>10, <1>11, <1>12, <1>13, Dichos

-----------------------------------------------------------------------------
(* The tick of the principal.  An account it ends with is of its last run, *)
(* later than all there are.                                               *)
LEMMA AvanzaMandante ==
  ASSUME IInv, NEW sale \in BOOLEAN, NEW guarda \in BOOLEAN, Avanza(Mandante, sale, guarda)
  PROVE  IInv'
<1> DEFINE r == R0(Mandante).mia
           h == Hecha(Mandante)
           t == Termina(Mandante)
<1>1. /\ cuenta[Mandante] = Nada
      /\ nacidas' = [nacidas EXCEPT ![Mandante] = r]
      /\ t => cuenta' = [cuenta EXCEPT ![Mandante] = h] /\ corrida' = [corrida EXCEPT ![Mandante] = Nada]
      /\ ~t => /\ corrida' = [corrida EXCEPT ![Mandante] = [R3(Mandante) EXCEPT !.envie = R0(Mandante).envie \/ sale]]
               /\ cuenta' = cuenta
      /\ respaldos' = respaldos /\ perdidas' = perdidas
  BY AvanzaEs, Dos
<1>2. /\ Tipos' /\ Por(Mandante)' \subseteq Por(Mandante)
      /\ Por(Contratista)' \subseteq Por(Contratista) \cup {ElCommit(Mandante), Pedir}
              \cup {x \in {ElShare(Mandante)} : Comparte(Mandante)}
              \cup {x \in {LaView(Mandante)} : t}
      /\ \A k \in Partes : disco'[k] \in {Nada, cuenta'[k]}
  BY AvanzaPor, Dos
<1>3. Tipos /\ Numeradas /\ DeUnaVez /\ EnOrden
  BY DEF IInv
<1>4. /\ r \in Nat /\ R3(Mandante).mia = r /\ R3(Mandante) \in UnaCorrida
      /\ nacidas[Mandante] \in Nat /\ r >= nacidas[Mandante]
      /\ \/ corrida[Mandante] = Nada /\ r > nacidas[Mandante]
         \/ corrida[Mandante] # Nada /\ corrida[Mandante].mia = r
  BY Corridas, Dos, <1>3 DEF UnaCorrida, Tipos
<1>5. t => h \in Claves /\ h \in Enviadas /\ h.m = r
  BY DelBuzon, Dos
<1>6. /\ ElCommit(Mandante).paso = "commit" /\ ElCommit(Mandante).de = r
      /\ ElShare(Mandante).paso = "share" /\ Pedir.paso = "pedir"
      /\ LaView(Mandante).paso = "view" /\ LaView(Mandante).cuenta = h
  BY DEF ElCommit, ElShare, LaView, Pedir
<1>7. /\ nacidas'[Mandante] = r /\ nacidas'[Contratista] = nacidas[Contratista]
      /\ cuenta'[Mandante] = (IF t THEN h ELSE Nada) /\ cuenta'[Contratista] = cuenta[Contratista]
      /\ corrida'[Contratista] = corrida[Contratista]
      /\ corrida'[Mandante] # Nada => ~t /\ corrida'[Mandante].mia = r
  BY <1>1, <1>3, <1>4, Dos DEF Tipos, UnaCorrida
<1> HIDE DEF r, h, t
<1>8. Hechas' \subseteq Hechas \cup {x \in {h} : t} /\ Enviadas' \subseteq Enviadas
  <2>1. ASSUME NEW x \in Por(Contratista)', x.paso = "view" PROVE x.cuenta \in Hechas \cup {y \in {h} : t}
    <3>1. x \in Por(Contratista) \/ (t /\ x = LaView(Mandante))
      BY <2>1, <1>2, <1>6
    <3> QED  BY <2>1, <3>1, <1>6, HechasDe
  <2>2. /\ ({cuenta'[Mandante], cuenta'[Contratista]} \ {Nada}) \cup respaldos'[Mandante] \cup respaldos'[Contratista]
             \subseteq Hechas \cup {y \in {h} : t}
    BY <1>1, <1>7, HechasDe, Dos
  <2>3. Hechas' \subseteq Hechas \cup {y \in {h} : t}
    BY <2>1, <2>2 DEF Hechas
  <2> QED  BY <2>3, <1>2 DEF Enviadas
<1>9. Pares' \subseteq Pares
  BY <1>5, <1>8 DEF Pares
<1>10. Hechas \subseteq Claves /\ Pares \subseteq Claves /\ Nada \notin Hechas
  BY <1>3, DePor DEF Pares
<1>11. \A a \in Hechas : a.m < r
  <2>1. SUFFICES ASSUME NEW a \in Hechas PROVE a.m < r
    OBVIOUS
  <2>2. a.m \in Nat /\ a.m <= nacidas[Mandante]
    BY <1>3, <1>10 DEF Numeradas, Pares, Claves
  <2>3. corrida[Mandante] # Nada => a.m < corrida[Mandante].mia
    BY <1>3 DEF EnOrden
  <2> QED  BY <2>2, <2>3, <1>4
<1>12. \A p \in Pares : p.m \in Nat /\ p.c \in Nat /\ p.m <= nacidas[Mandante] /\ p.c <= nacidas[Contratista]
  BY <1>3, <1>10 DEF Numeradas, Claves
<1>13. Numeradas'
  <2>1. \A n \in Partes : corrida'[n] # Nada => corrida'[n].mia = nacidas'[n]
    BY <1>3, <1>7, Dos DEF Numeradas
  <2>2. \A p \in Pares' : p.m <= nacidas'[Mandante] /\ p.c <= nacidas'[Contratista]
    <3>1. SUFFICES ASSUME NEW p \in Pares' PROVE p.m <= r /\ p.c <= nacidas[Contratista]
      BY <1>7
    <3> QED  BY <1>4, <1>9, <1>12
  <2>3. \A x \in Por(Contratista)' : x.paso = "commit" => x.de <= nacidas'[Mandante]
    <3>1. SUFFICES ASSUME NEW x \in Por(Contratista)', x.paso = "commit" PROVE x.de <= r
      BY <1>7
    <3>2. x \in Por(Contratista) \/ x = ElCommit(Mandante)
      BY <3>1, <1>2, <1>6
    <3>3. CASE x \in Por(Contratista)
      <4>1. x \in Mensajes /\ x.de <= nacidas[Mandante]
        BY <3>1, <3>3, <1>3, DePor, Dos DEF Numeradas
      <4>2. x.de \in Nat
        BY <4>1, <3>1 DEF Mensajes, UnCommit, UnShare, UnView, Pedir
      <4> QED  BY <4>1, <4>2, <1>4
    <3> QED  BY <3>2, <3>3, <1>4, <1>6
  <2>4. corrida'[Contratista] # Nada /\ corrida'[Contratista].suya # Nada
          => corrida'[Contratista].suya <= nacidas'[Mandante]
    <3>1. SUFFICES ASSUME corrida[Contratista] # Nada, corrida[Contratista].suya # Nada
                   PROVE  corrida[Contratista].suya <= r
      BY <1>7
    <3>2. corrida[Contratista].suya \in Nat
      BY <3>1, <1>3, Dos DEF Tipos, UnaCorrida
    <3> QED  BY <3>1, <3>2, <1>3, <1>4 DEF Numeradas
  <2> QED  BY <2>1, <2>2, <2>3, <2>4 DEF Numeradas
<1>14. DeUnaVez'
  BY <1>3, <1>7, <1>9 DEF DeUnaVez
<1>15. EnOrden'
  <2>1. ASSUME NEW p \in Pares', NEW a \in Hechas', p.m > a.m PROVE p.c > a.c
    <3>1. p \in Pares /\ (a \in Hechas \/ (t /\ a = h))
      BY <1>8, <1>9
    <3>2. ~ (t /\ a = h)
      BY <2>1, <3>1, <1>4, <1>5, <1>12
    <3> QED  BY <2>1, <3>1, <3>2, <1>3 DEF EnOrden
  <2>2. corrida'[Mandante] # Nada => \A a \in Hechas' : a.m < corrida'[Mandante].mia
    BY <1>7, <1>8, <1>11
  <2> QED  BY <2>1, <2>2 DEF EnOrden
<1>16. perdidas' < 2 => Guardadas' /\ LaUltima'
  <2>1. SUFFICES ASSUME perdidas < 2 PROVE Guardadas' /\ LaUltima'
    BY <1>1
  <2>2. Guardadas /\ LaUltima
    BY <2>1 DEF IInv
  <2>3. \A a \in Hechas : a \in respaldos[Mandante]
    BY <2>2, <1>1, <1>10 DEF Guardadas
  <2>4. \A a \in Hechas' : a \in respaldos'[Mandante] \/ a = cuenta'[Mandante]
    BY <2>3, <1>1, <1>7, <1>8
  <2>5. \A a \in respaldos'[Mandante] : cuenta'[Mandante] \in {Nada, a} \/ cuenta'[Mandante].m > a.m
    <3>1. SUFFICES ASSUME NEW a \in respaldos[Mandante], t PROVE h.m > a.m
      BY <1>1, <1>7
    <3>2. a \in Hechas /\ a.m < r /\ a.m \in Nat
      BY <1>10, <1>11, HechasDe, Dos DEF Claves
    <3> QED  BY <3>1, <3>2, <1>4, <1>5
  <2>6. Guardadas'
    BY <2>2, <2>4, <2>5, <1>1 DEF Guardadas
  <2>7. LaUltima'
    <3>1. SUFFICES ASSUME cuenta[Contratista] # Nada
                   PROVE  /\ cuenta'[Mandante] \in {Nada, cuenta[Contratista]}
                          /\ respaldos[Contratista] = {} =>
                               \A s \in Enviadas : s.m <= cuenta[Contratista].m
      BY <1>1, <1>7, <1>8 DEF LaUltima
    <3>2. cuenta[Contratista] \in Hechas /\ cuenta[Contratista].m \in Nat
      BY <3>1, <1>10, HechasDe, Dos DEF Claves
    <3>3. respaldos[Mandante] # {} /\ respaldos[Contratista] = {}
      BY <2>2, <2>3, <3>2 DEF Guardadas
    <3>4. \A s \in Enviadas : s.m <= cuenta[Contratista].m
      BY <2>2, <3>1, <3>3 DEF LaUltima
    <3>5. ~t
      BY <3>2, <3>4, <1>4, <1>5, <1>11
    <3> QED  BY <3>4, <3>5, <1>7
  <2> QED  BY <2>6, <2>7
<1> QED
  BY <1>2, <1>13, <1>14, <1>15, <1>16 DEF IInv

(* The tick of the contractor.  A share it makes is of its last run, later *)
(* than all it sent; an account it takes is of that run too.               *)
LEMMA AvanzaContratista ==
  ASSUME IInv, NEW sale \in BOOLEAN, NEW guarda \in BOOLEAN, Avanza(Contratista, sale, guarda)
  PROVE  IInv'
<1> DEFINE r == R0(Contratista).mia
           h == Hecha(Contratista)
           t == Termina(Contratista)
           d == Comparte(Contratista)
           q == [m |-> R1(Contratista).suya, c |-> r]
<1>1. /\ cuenta[Contratista] = Nada
      /\ nacidas' = [nacidas EXCEPT ![Contratista] = r]
      /\ t => cuenta' = [cuenta EXCEPT ![Contratista] = h] /\ corrida' = [corrida EXCEPT ![Contratista] = Nada]
      /\ ~t => /\ corrida' = [corrida EXCEPT ![Contratista] = [R3(Contratista) EXCEPT !.envie = R0(Contratista).envie \/ sale]]
               /\ cuenta' = cuenta
      /\ respaldos' = respaldos /\ perdidas' = perdidas
  BY AvanzaEs, Dos
<1>2. /\ Tipos' /\ Por(Contratista)' \subseteq Por(Contratista)
      /\ Por(Mandante)' \subseteq Por(Mandante) \cup {ElCommit(Contratista), Pedir}
              \cup {x \in {ElShare(Contratista)} : d}
      /\ \A k \in Partes : disco'[k] \in {Nada, cuenta'[k]}
  BY AvanzaPor, Dos
<1>3. Tipos /\ Numeradas /\ DeUnaVez /\ EnOrden
  BY DEF IInv
<1>4. /\ r \in Nat /\ R3(Contratista).mia = r /\ R3(Contratista) \in UnaCorrida
      /\ R1(Contratista).mia = r /\ R1(Contratista) \in UnaCorrida
      /\ R3(Contratista).suya = R1(Contratista).suya
      /\ nacidas[Contratista] \in Nat /\ r >= nacidas[Contratista] /\ nacidas[Mandante] \in Nat
      /\ \/ corrida[Contratista] = Nada /\ r > nacidas[Contratista] /\ R0(Contratista).suya = Nada
         \/ corrida[Contratista] # Nada /\ R0(Contratista) = corrida[Contratista]
      /\ R3(Contratista).fase = "commit" => R0(Contratista).fase = "commit" /\ R1(Contratista).fase = "commit"
      /\ \/ R1(Contratista).suya = R0(Contratista).suya /\ ~d
         \/ buzon[Contratista].commit # Nada /\ R1(Contratista).suya = buzon[Contratista].commit.de
  BY Corridas, Dos, <1>3 DEF UnaCorrida, Tipos
<1>5. t => h \in Claves /\ h \in Hechas /\ h.c = r
  BY DelBuzon, Dos
<1>6. /\ ElCommit(Contratista).paso = "commit" /\ Pedir.paso = "pedir"
      /\ ElShare(Contratista).con = R1(Contratista).suya /\ ElShare(Contratista).de = r
  BY <1>4 DEF ElCommit, ElShare, Pedir
<1>7. /\ nacidas'[Contratista] = r /\ nacidas'[Mandante] = nacidas[Mandante]
      /\ cuenta'[Contratista] = (IF t THEN h ELSE Nada) /\ cuenta'[Mandante] = cuenta[Mandante]
      /\ corrida'[Mandante] = corrida[Mandante]
      /\ corrida'[Contratista] # Nada =>
           /\ ~t /\ corrida'[Contratista].mia = r
           /\ corrida'[Contratista].suya = R1(Contratista).suya
           /\ corrida'[Contratista].fase = "commit" => R0(Contratista).fase = "commit" /\ ~d
  BY <1>1, <1>3, <1>4, Dos DEF Tipos, UnaCorrida, Comparte
<1>8. R1(Contratista).suya # Nada => R1(Contratista).suya \in Nat /\ R1(Contratista).suya <= nacidas[Mandante]
  <2>1. SUFFICES ASSUME R1(Contratista).suya # Nada PROVE R1(Contratista).suya <= nacidas[Mandante]
    BY <1>4 DEF UnaCorrida
  <2>2. CASE R1(Contratista).suya = R0(Contratista).suya
    BY <2>1, <2>2, <1>3, <1>4 DEF Numeradas
  <2>3. CASE buzon[Contratista].commit # Nada /\ R1(Contratista).suya = buzon[Contratista].commit.de
    <3>1. buzon[Contratista].commit \in UnCommit
      BY <2>3, <1>3, Dos DEF Tipos, UnBuzon
    <3>2. buzon[Contratista].commit \in Por(Contratista) /\ buzon[Contratista].commit.paso = "commit"
      BY <2>3, <3>1 DEF Por, EnBuzon, UnCommit
    <3> QED  BY <2>3, <3>2, <1>3 DEF Numeradas
  <2> QED  BY <2>2, <2>3, <1>4
<1>9. d => R1(Contratista).suya # Nada /\ R0(Contratista).fase = "commit"
  <2>1. SUFFICES ASSUME d PROVE R1(Contratista).suya # Nada
    BY DEF Comparte
  <2>2. buzon[Contratista].commit \in UnCommit /\ R1(Contratista).suya = buzon[Contratista].commit.de
    BY <2>1, <1>3, <1>4, Dos DEF Tipos, UnBuzon
  <2> QED  BY <2>2, NoEsNada DEF UnCommit
<1> HIDE DEF h, t, d, r
<1>10. Hechas' \subseteq Hechas
  <2>1. ASSUME NEW x \in Por(Contratista)', x.paso = "view" PROVE x.cuenta \in Hechas
    BY <2>1, <1>2, HechasDe
  <2>2. ({cuenta'[Mandante], cuenta'[Contratista]} \ {Nada}) \cup respaldos'[Mandante] \cup respaldos'[Contratista]
          \subseteq Hechas
    BY <1>1, <1>5, <1>7, HechasDe, Dos
  <2> QED  BY <2>1, <2>2 DEF Hechas
<1>11. Enviadas' \subseteq Enviadas \cup {x \in {q} : d}
  <2>1. ASSUME NEW x \in Por(Mandante)', x.paso = "share"
        PROVE  [m |-> x.con, c |-> x.de] \in Enviadas \cup {y \in {q} : d}
    <3>1. x \in Por(Mandante) \/ (d /\ x = ElShare(Contratista))
      BY <2>1, <1>2, <1>6
    <3>2. CASE x \in Por(Mandante)
      BY <2>1, <3>2 DEF Enviadas
    <3> QED  BY <3>1, <3>2, <1>6
  <2> HIDE DEF q
  <2> QED  BY <2>1 DEF Enviadas
<1>12. q.m = R1(Contratista).suya /\ q.c = r
  OBVIOUS
<1> HIDE DEF q
<1>13. Pares' \subseteq Pares \cup {x \in {q} : d}
  BY <1>10, <1>11 DEF Pares
<1>14. \A p \in Pares : p.m \in Nat /\ p.c \in Nat /\ p.m <= nacidas[Mandante] /\ p.c <= nacidas[Contratista]
  BY <1>3, DePor DEF Numeradas, Pares, Claves
<1>15. R0(Contratista).fase = "commit" => \A p \in Pares : p.c # r
  <2>1. SUFFICES ASSUME R0(Contratista).fase = "commit", NEW p \in Pares PROVE p.c # r
    OBVIOUS
  <2>2. CASE corrida[Contratista] = Nada
    BY <2>2, <1>4, <1>14
  <2>3. CASE corrida[Contratista] # Nada
    BY <2>1, <2>3, <1>3, <1>4 DEF DeUnaVez, r
  <2> QED  BY <2>2, <2>3
<1>16. d => \A p \in Pares : p.c < q.c
  BY <1>4, <1>9, <1>12, <1>14, <1>15
<1>17. Numeradas'
  <2>1. \A n \in Partes : corrida'[n] # Nada => corrida'[n].mia = nacidas'[n]
    BY <1>3, <1>7, Dos DEF Numeradas
  <2>2. \A p \in Pares' : p.m <= nacidas'[Mandante] /\ p.c <= nacidas'[Contratista]
    <3>1. SUFFICES ASSUME NEW p \in Pares' PROVE p.m <= nacidas[Mandante] /\ p.c <= r
      BY <1>7
    <3>2. CASE p \in Pares
      BY <3>2, <1>4, <1>14
    <3>3. CASE d /\ p = q
      BY <3>3, <1>4, <1>8, <1>9, <1>12
    <3> QED  BY <3>2, <3>3, <1>13
  <2>3. \A x \in Por(Contratista)' : x.paso = "commit" => x.de <= nacidas'[Mandante]
    BY <1>2, <1>3, <1>7 DEF Numeradas
  <2>4. corrida'[Contratista] # Nada /\ corrida'[Contratista].suya # Nada
          => corrida'[Contratista].suya <= nacidas'[Mandante]
    BY <1>7, <1>8
  <2> QED  BY <2>1, <2>2, <2>3, <2>4 DEF Numeradas
<1>18. DeUnaVez'
  <2>1. ASSUME NEW p \in Pares', NEW x \in Pares', p.c = x.c PROVE p.m = x.m
    <3>1. CASE p \in Pares /\ x \in Pares
      BY <2>1, <3>1, <1>3 DEF DeUnaVez
    <3>2. CASE d /\ p = q /\ x \in Pares
      BY <2>1, <3>2, <1>4, <1>12, <1>14, <1>16
    <3>3. CASE d /\ x = q /\ p \in Pares
      BY <2>1, <3>3, <1>4, <1>12, <1>14, <1>16
    <3> QED  BY <3>1, <3>2, <3>3, <1>13
  <2>2. corrida'[Contratista] # Nada /\ corrida'[Contratista].fase = "commit"
          => \A p \in Pares' : p.c # corrida'[Contratista].mia
    BY <1>7, <1>13, <1>15
  <2> QED  BY <2>1, <2>2 DEF DeUnaVez
<1>19. EnOrden'
  <2>1. ASSUME NEW p \in Pares', NEW a \in Hechas', p.m > a.m PROVE p.c > a.c
    <3>1. a \in Hechas /\ a \in Pares
      BY <1>10 DEF Pares
    <3>2. CASE p \in Pares
      BY <2>1, <3>1, <3>2, <1>3 DEF EnOrden
    <3>3. CASE d /\ p = q
      BY <3>1, <3>3, <1>4, <1>12, <1>14, <1>16
    <3> QED  BY <3>2, <3>3, <1>13
  <2>2. corrida'[Mandante] # Nada => \A a \in Hechas' : a.m < corrida'[Mandante].mia
    BY <1>3, <1>7, <1>10 DEF EnOrden
  <2> QED  BY <2>1, <2>2 DEF EnOrden
<1>20. perdidas' < 2 => Guardadas' /\ LaUltima'
  <2>1. SUFFICES ASSUME perdidas < 2 PROVE Guardadas' /\ LaUltima'
    BY <1>1
  <2>2. Guardadas
    BY <2>1 DEF IInv
  <2>3. Guardadas'
    BY <2>2, <1>1, <1>7, <1>10 DEF Guardadas
  <2>4. LaUltima'
    <3>1. SUFFICES ASSUME t
                   PROVE  cuenta[Mandante] \in {Nada, h} /\ \A s \in Enviadas' : s.m <= h.m
      BY <1>7 DEF LaUltima
    <3>2. h \in Hechas /\ h \in Pares /\ h.c = r /\ h.m \in Nat
      BY <3>1, <1>5 DEF Pares, Claves
    <3>3. \A p \in Pares : p.m <= h.m
      <4>1. SUFFICES ASSUME NEW p \in Pares, p.m > h.m PROVE FALSE
        BY <3>2, <1>14
      <4>2. p.c > h.c
        BY <3>2, <4>1, <1>3 DEF EnOrden
      <4> QED  BY <3>2, <4>2, <1>4, <1>14
    <3>4. ~d
      BY <3>2, <1>4, <1>12, <1>14, <1>16
    <3>5. \A s \in Enviadas' : s.m <= h.m
      BY <3>3, <3>4, <1>11 DEF Pares
    <3>6. cuenta[Mandante] \in {Nada, h}
      <4>1. SUFFICES ASSUME cuenta[Mandante] # Nada PROVE cuenta[Mandante] = h
        OBVIOUS
      <4>2. cuenta[Mandante] \in Hechas /\ cuenta[Mandante] \in Pares
        BY <4>1, HechasDe, Dos DEF Pares
      <4>3. ~ (cuenta[Mandante].m > h.m)
        BY <3>2, <3>3, <4>2, <1>14
      <4> QED  BY <4>1, <4>3, <3>2, <2>2 DEF Guardadas
    <3> QED  BY <3>5, <3>6
  <2> QED  BY <2>3, <2>4
<1> QED
  BY <1>2, <1>17, <1>18, <1>19, <1>20 DEF IInv

-----------------------------------------------------------------------------
LEMMA Empieza0 ==
  ASSUME Init
  PROVE  IInv
<1>1. \A n \in Partes : /\ corrida[n] = Nada /\ buzon[n] = BuzonVacio /\ cuenta[n] = Nada
                        /\ disco[n] = Nada /\ respaldos[n] = {} /\ red[n] = << >> /\ nacidas[n] = 0
  BY DEF Init
<1>2. Tipos
  <2>1. BuzonVacio \in UnBuzon
    BY DEF BuzonVacio, UnBuzon
  <2>2. << >> \in Seq(Mensajes)
    OBVIOUS
  <2>3. buzon \in [Partes -> UnBuzon]
    BY <2>1 DEF Init
  <2>4. red \in [Partes -> Seq(Mensajes)]
    BY <2>2 DEF Init
  <2>5. /\ corrida \in [Partes -> UnaCorrida \cup {Nada}]
        /\ cuenta \in [Partes -> Claves \cup {Nada}] /\ disco \in [Partes -> Claves \cup {Nada}]
        /\ respaldos \in [Partes -> SUBSET Claves]
        /\ nacidas \in [Partes -> Nat] /\ perdidas \in Nat
    BY DEF Init
  <2> QED  BY <2>3, <2>4, <2>5 DEF Tipos
<1>3. \A n \in Partes : Por(n) = {}
  BY <1>1 DEF Por, ToSet, EnBuzon, BuzonVacio
<1>4. Hechas = {} /\ Enviadas = {} /\ Pares = {}
  BY <1>1, <1>3, Dos DEF Hechas, Enviadas, Pares
<1>5. Numeradas /\ DeUnaVez /\ EnOrden /\ Guardadas /\ LaUltima
  BY <1>1, <1>3, <1>4, Dos DEF Numeradas, DeUnaVez, EnOrden, Guardadas, LaUltima
<1> QED
  BY <1>1, <1>2, <1>5 DEF IInv

LEMMA Sigue ==
  ASSUME IInv, [Next]_vars
  PROVE  IInv'
<1>1. CASE UNCHANGED vars
  <2>1. red' \in [Partes -> Seq(Mensajes)] /\ \A k \in Partes : ToSet(red'[k]) \subseteq ToSet(red[k])
    BY <1>1 DEF vars, IInv, Tipos
  <2> QED  BY <1>1, <2>1, RedMenos DEF vars
<1>2. CASE Repite
  BY <1>2, RepitePaso
<1>3. ASSUME NEW n \in Partes, NEW sale \in BOOLEAN, NEW guarda \in BOOLEAN, Avanza(n, sale, guarda)
      PROVE  IInv'
  BY <1>3, Dos, AvanzaMandante, AvanzaContratista
<1>4. ASSUME NEW n \in Partes, Firme(n) \/ Llega(n) \/ Avanza(n, TRUE, TRUE) PROVE IInv'
  BY <1>3, <1>4, FirmePaso, LlegaPaso
<1>5. ASSUME NEW n \in Partes, Perder(n) \/ Adelantar(n) PROVE IInv'
  BY <1>5, PerderPaso, AdelantarPaso
<1>6. ASSUME NEW n \in Partes, NEW queda \in BOOLEAN, Reiniciar(n, queda) PROVE IInv'
  BY <1>6, ReiniciarPaso
<1>7. ASSUME NEW n \in Partes, NEW a, Restaurar(n, a) PROVE IInv'
  BY <1>7, RestaurarPaso
<1>8. CASE Normal
  BY <1>8, <1>2, <1>4 DEF Normal
<1>9. CASE Malo
  BY <1>9, <1>3, <1>5, <1>6, <1>7 DEF Malo
<1> QED
  BY <1>1, <1>8, <1>9 DEF Next

(* The invariant of the generation of the keys: runs are numbered, a run   *)
(* of the contractor answers one commitment, later accounts are of later   *)
(* runs of both, and what each holds or can restore is as Guardadas and    *)
(* LaUltima say.                                                           *)
THEOREM Invariante == Spec => []IInv
<1>1. Init => IInv
  BY Empieza0
<1>2. IInv /\ [Next]_vars => IInv'
  BY Sigue
<1> QED
  BY <1>1, <1>2, PTL DEF Spec

(* Until accounts were lost twice, the two never hold different boxes.     *)
THEOREM UnaSolaCaja == Spec => []MismaCaja
<1>1. ASSUME IInv PROVE MismaCaja
  <2>1. SUFFICES ASSUME perdidas < 2, NEW n \in Partes, NEW q \in Partes,
                        Nada \notin {cuenta[n], cuenta[q]}
                 PROVE  cuenta[n] = cuenta[q]
    BY DEF MismaCaja
  <2>2. LaUltima
    BY <1>1, <2>1 DEF IInv
  <2> QED  BY <2>1, <2>2, Dos DEF LaUltima
<1>2. IInv => MismaCaja
  BY <1>1
<1> QED
  BY <1>2, Invariante, PTL

=============================================================================
