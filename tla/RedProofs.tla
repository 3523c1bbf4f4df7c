------------------------------- MODULE RedProofs -------------------------------
(***************************************************************************)
(* The roads between the two programs.  First the room (Red): a message is *)
(* in one queue until it is lost, for any number of sessions, messages and *)
(* breaks, and queues of any size.                                         *)
(*                                                                         *)
(* UnaVez counts places, and no step preserves a count by itself: that a   *)
(* copy is not made needs the message to be nowhere else before.  The      *)
(* inductive invariant says it queue by queue: no queue has a message      *)
(* twice (Sencillas), each message is in the queue of one key, and what is *)
(* in none was lost (Cuenta).  Every step is then a move out of some       *)
(* queues into one (Traslado), a loss (SePierden) or a sending (Nace).     *)
(*                                                                         *)
(* The last part is the way to the price over Tor (Cotizacion), of         *)
(* DirectoConsentido for any number of dialing tasks and badly answered    *)
(* commands.  It is a property of steps, and needs to know that a desktop  *)
(* whose tor says it failed, or is absent, has no task of tor left that    *)
(* could still bring one up (SinTorNoHayTarea), and that a price is being  *)
(* asked for in the background only under EN_CURSO (UnoPorVez).            *)
(***************************************************************************)
EXTENDS Red, Cotizacion, SequenceTheorems, FiniteSetTheorems, TLAPS

(* No box message is twice in the queue.                                   *)
Sencilla(q) == \A i, j \in DOMAIN q : q[i].tipo = "caja" /\ q[i] = q[j] => i = j

-----------------------------------------------------------------------------
LEMMA Formas ==
  ASSUME NEW m \in Mensajes
  PROVE  /\ m.tipo \in {"hola", "soy", "caja"}
         /\ m.tipo = "hola" => m = Hola
         /\ m.tipo = "soy" => m.nodo \in Nodos /\ m = Soy(m.nodo)
         /\ m.tipo = "caja" => m.num \in 1 .. MaxMensajes /\ m = Caja(m.num)
<1>1. CASE m = Hola
  BY <1>1 DEF Hola
<1>2. ASSUME NEW x \in Nodos, m = Soy(x) PROVE m.tipo = "soy" /\ m.nodo \in Nodos /\ m = Soy(m.nodo)
  BY <1>2 DEF Soy
<1>3. ASSUME NEW k \in 1 .. MaxMensajes, m = Caja(k)
      PROVE m.tipo = "caja" /\ m.num \in 1 .. MaxMensajes /\ m = Caja(m.num)
  BY <1>3 DEF Caja
<1>4. m = Hola \/ (\E x \in Nodos : m = Soy(x)) \/ (\E k \in 1 .. MaxMensajes : m = Caja(k))
  BY DEF Mensajes
<1>5. m = Hola => m.tipo = "hola"
  BY DEF Hola
<1>. QED  BY <1>2, <1>3, <1>4, <1>5

LEMMA CajasEs ==
  ASSUME NEW q \in Seq(Mensajes)
  PROVE  /\ Cajas(q) \subseteq 1 .. MaxMensajes
         /\ \A k : k \in Cajas(q) <=> \E i \in 1 .. Len(q) : q[i] = Caja(k)
<1>1. \A i \in 1 .. Len(q) : q[i] \in Mensajes
  BY ElementOfSeq
<1>2. DOMAIN q = 1 .. Len(q)
  BY LenProperties
<1>3. \A i \in 1 .. Len(q) : q[i].tipo = "caja" => q[i].num \in 1 .. MaxMensajes /\ q[i] = Caja(q[i].num)
  BY <1>1, Formas
<1>4. \A k : Caja(k).tipo = "caja" /\ Caja(k).num = k
  BY DEF Caja
<1>5. \A k : k \in Cajas(q) <=> \E i \in 1 .. Len(q) : q[i].tipo = "caja" /\ q[i].num = k
  BY <1>2 DEF Cajas
<1>. QED  BY <1>3, <1>4, <1>5

LEMMA CajasVacia == Cajas(<< >>) = {} /\ Sencilla(<< >>)
<1>1. DOMAIN << >> = {}
  OBVIOUS
<1>. QED  BY <1>1 DEF Cajas, Sencilla

LEMMA CajasUna ==
  ASSUME NEW m \in Mensajes
  PROVE  /\ <<m>> \in Seq(Mensajes) /\ Sencilla(<<m>>)
         /\ m.tipo = "caja" => Cajas(<<m>>) = {m.num}
         /\ m.tipo # "caja" => Cajas(<<m>>) = {}
<1>1. <<m>> \in Seq(Mensajes) /\ DOMAIN <<m>> = {1} /\ <<m>>[1] = m
  OBVIOUS
<1>. QED  BY <1>1 DEF Cajas, Sencilla

LEMMA CajasJuntas ==
  ASSUME NEW q \in Seq(Mensajes), NEW r \in Seq(Mensajes)
  PROVE  /\ q \o r \in Seq(Mensajes)
         /\ Cajas(q \o r) = Cajas(q) \cup Cajas(r)
         /\ Sencilla(q) /\ Sencilla(r) /\ Cajas(q) \cap Cajas(r) = {} => Sencilla(q \o r)
<1> DEFINE t == q \o r
<1>1. /\ t \in Seq(Mensajes) /\ Len(t) = Len(q) + Len(r) /\ Len(q) \in Nat /\ Len(r) \in Nat
      /\ \A i \in 1 .. Len(q) + Len(r) : t[i] = IF i <= Len(q) THEN q[i] ELSE r[i - Len(q)]
  BY ConcatProperties, LenProperties
<1> HIDE DEF t
<1>2. \A i \in 1 .. Len(q) : i \in 1 .. Len(t) /\ t[i] = q[i]
  BY <1>1
<1>3. ASSUME NEW i \in 1 .. Len(r) PROVE i + Len(q) \in 1 .. Len(t) /\ t[i + Len(q)] = r[i]
  <2>1. /\ i + Len(q) \in 1 .. Len(t) /\ i + Len(q) \in 1 .. Len(q) + Len(r)
        /\ ~(i + Len(q) <= Len(q)) /\ i + Len(q) - Len(q) = i
    BY <1>1
  <2>. QED  BY <1>1, <2>1
<1>4. \A i \in 1 .. Len(t) : \/ (i \in 1 .. Len(q) /\ t[i] = q[i])
                            \/ (i - Len(q) \in 1 .. Len(r) /\ t[i] = r[i - Len(q)])
  <2>. SUFFICES ASSUME NEW i \in 1 .. Len(t)
                PROVE  \/ (i \in 1 .. Len(q) /\ t[i] = q[i])
                       \/ (i - Len(q) \in 1 .. Len(r) /\ t[i] = r[i - Len(q)])
    OBVIOUS
  <2>1. CASE i <= Len(q)
    BY <1>1, <2>1
  <2>2. CASE ~(i <= Len(q))
    BY <1>1, <2>2
  <2>. QED  BY <2>1, <2>2
<1>5. Cajas(t) = Cajas(q) \cup Cajas(r)
  <2>1. \A k : k \in Cajas(t) => k \in Cajas(q) \/ k \in Cajas(r)
    <3>1. ASSUME NEW k, k \in Cajas(t) PROVE k \in Cajas(q) \/ k \in Cajas(r)
      <4>1. PICK i \in 1 .. Len(t) : t[i] = Caja(k)
        BY <1>1, <3>1, CajasEs
      <4>2. CASE i \in 1 .. Len(q) /\ t[i] = q[i]
        BY <4>1, <4>2, CajasEs
      <4>3. CASE i - Len(q) \in 1 .. Len(r) /\ t[i] = r[i - Len(q)]
        <5>1. r[i - Len(q)] = Caja(k)
          BY <4>1, <4>3
        <5>. QED  BY <4>3, <5>1, CajasEs
      <4>. QED  BY <1>4, <4>2, <4>3
    <3>. QED  BY <3>1
  <2>2. \A k : k \in Cajas(q) \/ k \in Cajas(r) => k \in Cajas(t)
    <3>1. ASSUME NEW k, k \in Cajas(q) PROVE k \in Cajas(t)
      <4>1. PICK i \in 1 .. Len(q) : q[i] = Caja(k)
        BY <3>1, CajasEs
      <4>2. i \in 1 .. Len(t) /\ t[i] = Caja(k)
        BY <1>2, <4>1
      <4>. QED  BY <1>1, <4>2, CajasEs
    <3>2. ASSUME NEW k, k \in Cajas(r) PROVE k \in Cajas(t)
      <4>1. PICK i \in 1 .. Len(r) : r[i] = Caja(k)
        BY <3>2, CajasEs
      <4>2. i + Len(q) \in 1 .. Len(t) /\ t[i + Len(q)] = Caja(k)
        BY <1>3, <4>1
      <4>. QED  BY <1>1, <4>2, CajasEs
    <3>. QED  BY <3>1, <3>2
  <2>. QED  BY <2>1, <2>2
<1>6. ASSUME Sencilla(q), Sencilla(r), Cajas(q) \cap Cajas(r) = {} PROVE Sencilla(t)
  <2>. SUFFICES ASSUME NEW i \in 1 .. Len(t), NEW j \in 1 .. Len(t), t[i].tipo = "caja", t[i] = t[j]
                PROVE  i = j
    BY <1>1, LenProperties DEF Sencilla
  <2>1. DOMAIN q = 1 .. Len(q) /\ DOMAIN r = 1 .. Len(r)
    BY LenProperties
  <2>2. t[i] = Caja(t[i].num)
    BY <1>1, ElementOfSeq, Formas
  <2>3. CASE i \in 1 .. Len(q) /\ j \in 1 .. Len(q) /\ t[i] = q[i] /\ t[j] = q[j]
    BY <1>6, <2>1, <2>3 DEF Sencilla
  <2>4. CASE /\ i - Len(q) \in 1 .. Len(r) /\ t[i] = r[i - Len(q)]
             /\ j - Len(q) \in 1 .. Len(r) /\ t[j] = r[j - Len(q)]
    <3>1. i - Len(q) = j - Len(q)
      BY <1>6, <2>1, <2>4 DEF Sencilla
    <3>. QED  BY <1>1, <3>1
  <2>5. CASE i \in 1 .. Len(q) /\ t[i] = q[i] /\ j - Len(q) \in 1 .. Len(r) /\ t[j] = r[j - Len(q)]
    <3>1. t[i].num \in Cajas(q)
      BY <2>2, <2>5, CajasEs
    <3>2. r[j - Len(q)] = Caja(t[i].num)
      BY <2>2, <2>5
    <3>3. t[i].num \in Cajas(r)
      BY <2>5, <3>2, CajasEs
    <3>. QED  BY <1>6, <3>1, <3>3
  <2>6. CASE j \in 1 .. Len(q) /\ t[j] = q[j] /\ i - Len(q) \in 1 .. Len(r) /\ t[i] = r[i - Len(q)]
    <3>1. t[i].num \in Cajas(q) /\ t[i].num \in Cajas(r)
      BY <2>2, <2>6, CajasEs, SMTT(30)
    <3>. QED  BY <1>6, <3>1
  <2>. QED  BY <1>4, <2>3, <2>4, <2>5, <2>6
<1>. QED  BY <1>1, <1>5, <1>6 DEF t

LEMMA CajasQueda ==
  ASSUME NEW q \in Seq(Mensajes), q # << >>
  PROVE  /\ Head(q) \in Mensajes /\ Tail(q) \in Seq(Mensajes) /\ Len(Tail(q)) = Len(q) - 1
         /\ Len(q) \in Nat \ {0}
         /\ Cajas(q) = Cajas(<<Head(q)>>) \cup Cajas(Tail(q))
         /\ Sencilla(q) => Sencilla(Tail(q)) /\ Cajas(<<Head(q)>>) \cap Cajas(Tail(q)) = {}
<1> DEFINE t == Tail(q)
<1> DEFINE m == Head(q)
<1>1. /\ m \in Mensajes /\ t \in Seq(Mensajes) /\ Len(t) = Len(q) - 1 /\ Len(q) \in Nat \ {0}
      /\ \A i \in 1 .. Len(t) : t[i] = q[i + 1]
  BY HeadTailProperties, EmptySeq
<1>2. m = q[1]
  BY <1>1, LenProperties
<1> HIDE DEF t, m
<1>3. <<m>> \in Seq(Mensajes) /\ Len(<<m>>) = 1 /\ <<m>>[1] = m
  BY <1>1
<1>4. \A i \in 1 .. Len(t) : i + 1 \in 1 .. Len(q) /\ i + 1 # 1
  BY <1>1
<1>5. \A i \in 1 .. Len(q) : i = 1 \/ (i - 1 \in 1 .. Len(t) /\ q[i] = t[i - 1])
  BY <1>1
<1>6. Cajas(q) = Cajas(<<m>>) \cup Cajas(t)
  <2>1. \A k : k \in Cajas(<<m>>) <=> m = Caja(k)
    BY <1>1, CajasUna, Formas DEF Caja
  <2>2. \A k : k \in Cajas(q) => m = Caja(k) \/ k \in Cajas(t)
    BY <1>1, <1>2, <1>5, CajasEs
  <2>3. \A k : k \in Cajas(t) => k \in Cajas(q)
    BY <1>1, <1>4, CajasEs
  <2>4. \A k : m = Caja(k) => k \in Cajas(q)
    <3>1. 1 \in 1 .. Len(q)
      BY <1>1
    <3>. QED  BY <1>2, <3>1, CajasEs
  <2>. QED  BY <2>1, <2>2, <2>3, <2>4
<1>7. ASSUME Sencilla(q) PROVE Sencilla(t) /\ Cajas(<<m>>) \cap Cajas(t) = {}
  <2>1. DOMAIN q = 1 .. Len(q) /\ DOMAIN t = 1 .. Len(t)
    BY <1>1, LenProperties
  <2>2. Sencilla(t)
    <3>. SUFFICES ASSUME NEW i \in 1 .. Len(t), NEW j \in 1 .. Len(t), t[i].tipo = "caja", t[i] = t[j]
                  PROVE  i = j
      BY <2>1 DEF Sencilla
    <3>1. q[i + 1].tipo = "caja" /\ q[i + 1] = q[j + 1]
      BY <1>1
    <3>2. i + 1 \in DOMAIN q /\ j + 1 \in DOMAIN q
      BY <1>4, <2>1
    <3>3. i + 1 = j + 1
      BY <1>7, <3>1, <3>2 DEF Sencilla
    <3>. QED  BY <3>3
  <2>3. ASSUME NEW k, k \in Cajas(<<m>>), k \in Cajas(t) PROVE FALSE
    <3>1. m = Caja(k)
      BY <1>1, <2>3, CajasUna, Formas
    <3>2. PICK i \in 1 .. Len(t) : t[i] = Caja(k)
      BY <1>1, <2>3, CajasEs
    <3>3. 1 \in 1 .. Len(q) /\ q[1] = Caja(k) /\ q[i + 1] = Caja(k) /\ Caja(k).tipo = "caja"
      BY <1>1, <1>2, <3>1, <3>2 DEF Caja
    <3>. QED  BY <1>4, <1>7, <2>1, <3>3 DEF Sencilla
  <2>. QED  BY <2>2, <2>3
<1>. QED  BY <1>1, <1>6, <1>7 DEF t, m

LEMMA Encolada ==
  ASSUME NEW q \in Seq(Mensajes), NEW m \in Mensajes, NEW tope \in Nat \ {0},
         Sencilla(q), Len(q) <= tope, Cajas(<<m>>) \cap Cajas(q) = {}
  PROVE  /\ Encola(q, m, tope) \in Seq(Mensajes) /\ Len(Encola(q, m, tope)) <= tope
         /\ Sencilla(Encola(q, m, tope))
         /\ Desborda(q, tope) \subseteq Cajas(q)
         /\ Cajas(Encola(q, m, tope)) = (Cajas(q) \ Desborda(q, tope)) \cup Cajas(<<m>>)
<1> DEFINE r == IF Len(q) >= tope THEN Tail(q) ELSE q
<1>0. Len(q) \in Nat
  BY LenProperties
<1>1. /\ r \in Seq(Mensajes) /\ Len(r) < tope /\ Len(r) \in Nat /\ Sencilla(r)
      /\ Desborda(q, tope) \subseteq Cajas(q)
      /\ Cajas(r) = Cajas(q) \ Desborda(q, tope)
  <2>1. CASE Len(q) >= tope
    <3>1. q # << >>
      BY <1>0, <2>1
    <3>2. r = Tail(q) /\ Desborda(q, tope) = Cajas(<<Head(q)>>)
      BY <2>1 DEF Desborda
    <3>. QED  BY <1>0, <2>1, <3>1, <3>2, CajasQueda
  <2>2. CASE ~(Len(q) >= tope)
    <3>1. r = q /\ Desborda(q, tope) = {}
      BY <2>2 DEF Desborda
    <3>. QED  BY <1>0, <2>2, <3>1
  <2>. QED  BY <2>1, <2>2
<1>2. Encola(q, m, tope) = Append(r, m)
  BY DEF Encola
<1> HIDE DEF r
<1>3. Append(r, m) = r \o <<m>>
  BY <1>1, AppendIsConcat
<1>4. Len(Append(r, m)) = Len(r) + 1
  BY <1>1, AppendProperties
<1>5. <<m>> \in Seq(Mensajes) /\ Sencilla(<<m>>)
  BY CajasUna
<1>6. Cajas(r) \cap Cajas(<<m>>) = {}
  BY <1>1
<1>7. /\ r \o <<m>> \in Seq(Mensajes) /\ Sencilla(r \o <<m>>)
      /\ Cajas(r \o <<m>>) = Cajas(r) \cup Cajas(<<m>>)
  <2>1. r \in Seq(Mensajes) /\ Sencilla(r)
    BY <1>1
  <2>. QED  BY <2>1, <1>5, <1>6, CajasJuntas
<1>. QED  BY <1>0, <1>1, <1>2, <1>3, <1>4, <1>7

-----------------------------------------------------------------------------
(* The invariant, and the three ways a step keeps the count.               *)
Tipos ==
  /\ TypeOK
  /\ enviadas \in 0 .. MaxMensajes /\ fallas \in 0 .. MaxFallas
  /\ \A p \in Personas : vez[p] <= fallas + 1
  /\ saliendo \in Seq(Seq(Mensajes)) /\ Len(saliendo) = Len(sesiones)
  /\ buzon \in [Nodos -> Seq(Mensajes)]
  /\ tomadas \in Seq(Mensajes) /\ bandeja \in Seq(Mensajes) /\ guardado \in Seq(Mensajes)
  /\ Len(guardado) <= MaxBuzon

Sencillas ==
  /\ Sencilla(tomadas) /\ Sencilla(bandeja) /\ Sencilla(guardado)
  /\ \A x \in Nodos : Sencilla(buzon[x])
  /\ \A s \in Ids : Sencilla(sesiones[s].sube) /\ Sencilla(sesiones[s].baja) /\ Sencilla(saliendo[s])

(* Message k is in the queue with the key c.                               *)
EnSesion(c, k, s) ==
  \/ c = <<"sube", s>> /\ k \in Cajas(sesiones[s].sube)
  \/ c = <<"baja", s>> /\ k \in Cajas(sesiones[s].baja)
  \/ c = <<"saliendo", s>> /\ k \in Cajas(saliendo[s])

Esta(c, k) ==
  \/ c = <<"tomadas", 0>> /\ k \in Cajas(tomadas)
  \/ c = <<"bandeja", 0>> /\ k \in Cajas(bandeja)
  \/ c = <<"guardado", 0>> /\ k \in Cajas(guardado)
  \/ c = <<"dial", k>> /\ k \in marcando
  \/ \E x \in Nodos : c = <<"buzon", x>> /\ k \in Cajas(buzon[x])
  \/ \E s \in Ids : EnSesion(c, k, s)

(* What was sent is in one queue, or was lost.                             *)
Cuenta ==
  /\ \A c, k : Esta(c, k) => k \in (1 .. enviadas) \ perdidas
  /\ \A c, d, k : Esta(c, k) /\ Esta(d, k) => c = d
  /\ \A k \in (1 .. enviadas) \ perdidas : \E c : Esta(c, k)

IInv == Tipos /\ Sencillas /\ Cuenta

-----------------------------------------------------------------------------
(* Messages M go to the queue D and messages L are lost, out of the queues *)
(* F; the rest stay where they are.                                        *)
Traslado(M, L, D, F) ==
  /\ M \cap L = {} /\ perdidas' = perdidas \cup L /\ enviadas' = enviadas
  /\ \A k \in M \cup L : \E f \in F : Esta(f, k)
  /\ \A c, k : k \notin M \cup L => (Esta(c, k)' <=> Esta(c, k))
  /\ \A k \in M : Esta(D, k)'
  /\ \A c, k : k \in M \cup L /\ Esta(c, k)' => (k \in M /\ c = D) \/ (c \notin F /\ Esta(c, k))

LEMMA Mueve == ASSUME Cuenta, NEW M, NEW L, NEW D, NEW F, Traslado(M, L, D, F) PROVE Cuenta'
<1>. USE DEF Traslado
<1>1. \A c, k : k \in M \cup L /\ Esta(c, k)' => k \in M /\ c = D
  BY DEF Cuenta
<1>2. M \cup L \subseteq (1 .. enviadas) \ perdidas
  BY DEF Cuenta
<1>3. \A c, k : Esta(c, k)' => k \in (1 .. enviadas') \ perdidas'
  BY <1>1, <1>2 DEF Cuenta
<1>4. \A c, d, k : Esta(c, k)' /\ Esta(d, k)' => c = d
  BY <1>1 DEF Cuenta
<1>5. \A k \in (1 .. enviadas') \ perdidas' : \E c : Esta(c, k)'
  BY <1>2 DEF Cuenta
<1>. QED  BY <1>3, <1>4, <1>5 DEF Cuenta

LEMMA NadaSeMueve ==
  ASSUME Cuenta, perdidas' = perdidas, enviadas' = enviadas, \A c, k : Esta(c, k)' <=> Esta(c, k)
  PROVE  Cuenta'
<1>1. /\ \A c, k : Esta(c, k) => k \in (1 .. enviadas) \ perdidas
      /\ \A c, d, k : Esta(c, k) /\ Esta(d, k) => c = d
      /\ \A k \in (1 .. enviadas) \ perdidas : \E c : Esta(c, k)
  BY DEF Cuenta
<1>. QED  BY <1>1 DEF Cuenta

(* With one queue they leave, and none lost.                               *)
LEMMA MuevenTodos ==
  ASSUME Cuenta, NEW M, NEW S, NEW D, perdidas' = perdidas, enviadas' = enviadas,
         \A k \in M : Esta(S, k),
         \A c, k : k \notin M => (Esta(c, k)' <=> Esta(c, k)),
         \A k \in M : Esta(D, k)',
         \A c, k : k \in M /\ Esta(c, k)' => c = D \/ (c # S /\ Esta(c, k))
  PROVE  Cuenta'
<1>1. PICK L, F : L = {} /\ F = {S}
  OBVIOUS
<1>2. Traslado(M, L, D, F)
  BY <1>1 DEF Traslado
<1>. QED  BY <1>2, Mueve

LEMMA SinCajas == ASSUME NEW q \in Seq(Mensajes), Cajas(q) = {} PROVE Sencilla(q)
  BY CajasEs, Formas, ElementOfSeq, LenProperties DEF Sencilla

-----------------------------------------------------------------------------
(* Writing on a session, reading from it and cutting it.                   *)
LEMMA IdsSon == Tipos => Ids = 1 .. Len(sesiones) /\ Len(sesiones) \in Nat /\ Ids = 1 .. Len(saliendo)
  BY LenProperties DEF Tipos, TypeOK, Ids

LEMMA IdsQuedan ==
  ASSUME Tipos, sesiones' \in Seq(Sesion), Len(sesiones') = Len(sesiones)
  PROVE  Ids' = Ids
  BY IdsSon, LenProperties DEF Ids

LEMMA BajaEs ==
  ASSUME NEW ss \in Seq(Sesion), NEW s \in 1 .. Len(ss), NEW q \in Seq(Mensajes)
  PROVE  /\ Baja(ss, s, q) \in Seq(Sesion) /\ Len(Baja(ss, s, q)) = Len(ss)
         /\ \A t \in 1 .. Len(ss) :
              /\ Baja(ss, s, q)[t].de = ss[t].de /\ Baja(ss, s, q)[t].sana = ss[t].sana
              /\ Baja(ss, s, q)[t].sube = ss[t].sube
              /\ Baja(ss, s, q)[t].baja = IF t = s /\ ss[s].sana THEN ss[s].baja \o q ELSE ss[t].baja
<1>1. ss[s] \in Sesion /\ \A t \in 1 .. Len(ss) : ss[t] \in Sesion
  BY ElementOfSeq
<1> DEFINE e == [ss[s] EXCEPT !.baja = @ \o q]
<1>2. /\ e \in Sesion /\ e.de = ss[s].de /\ e.sana = ss[s].sana /\ e.sube = ss[s].sube
      /\ e.baja = ss[s].baja \o q
  <2>1. ss[s].baja \o q \in Seq(Mensajes)
    BY <1>1, ConcatProperties DEF Sesion
  <2>. QED  BY <1>1, <2>1 DEF Sesion
<1>3. [ss EXCEPT ![s].baja = @ \o q] = [ss EXCEPT ![s] = e]
  OBVIOUS
<1> HIDE DEF e
<1>4. /\ [ss EXCEPT ![s] = e] \in Seq(Sesion) /\ Len([ss EXCEPT ![s] = e]) = Len(ss)
      /\ \A t \in 1 .. Len(ss) : [ss EXCEPT ![s] = e][t] = IF t = s THEN e ELSE ss[t]
  BY <1>2, ExceptSeq
<1>5. CASE ss[s].sana
  <2>1. Baja(ss, s, q) = [ss EXCEPT ![s] = e]
    BY <1>3, <1>5 DEF Baja
  <2>. QED  BY <1>2, <1>4, <1>5, <2>1
<1>6. CASE ~ss[s].sana
  <2>1. Baja(ss, s, q) = ss
    BY <1>6 DEF Baja
  <2>. QED  BY <1>6, <2>1
<1>. QED  BY <1>5, <1>6

LEMMA SubeEs ==
  ASSUME NEW ss \in Seq(Sesion), NEW s \in 1 .. Len(ss), NEW q \in Seq(Mensajes)
  PROVE  /\ Sube(ss, s, q) \in Seq(Sesion) /\ Len(Sube(ss, s, q)) = Len(ss)
         /\ \A t \in 1 .. Len(ss) :
              /\ Sube(ss, s, q)[t].de = ss[t].de /\ Sube(ss, s, q)[t].sana = ss[t].sana
              /\ Sube(ss, s, q)[t].baja = ss[t].baja
              /\ Sube(ss, s, q)[t].sube = IF t = s /\ ss[s].sana THEN ss[s].sube \o q ELSE ss[t].sube
<1>1. ss[s] \in Sesion /\ \A t \in 1 .. Len(ss) : ss[t] \in Sesion
  BY ElementOfSeq
<1> DEFINE e == [ss[s] EXCEPT !.sube = @ \o q]
<1>2. /\ e \in Sesion /\ e.de = ss[s].de /\ e.sana = ss[s].sana /\ e.baja = ss[s].baja
      /\ e.sube = ss[s].sube \o q
  <2>1. ss[s].sube \o q \in Seq(Mensajes)
    BY <1>1, ConcatProperties DEF Sesion
  <2>. QED  BY <1>1, <2>1 DEF Sesion
<1>3. [ss EXCEPT ![s].sube = @ \o q] = [ss EXCEPT ![s] = e]
  OBVIOUS
<1> HIDE DEF e
<1>4. /\ [ss EXCEPT ![s] = e] \in Seq(Sesion) /\ Len([ss EXCEPT ![s] = e]) = Len(ss)
      /\ \A t \in 1 .. Len(ss) : [ss EXCEPT ![s] = e][t] = IF t = s THEN e ELSE ss[t]
  BY <1>2, ExceptSeq
<1>5. CASE ss[s].sana
  <2>1. Sube(ss, s, q) = [ss EXCEPT ![s] = e]
    BY <1>3, <1>5 DEF Sube
  <2>. QED  BY <1>2, <1>4, <1>5, <2>1
<1>6. CASE ~ss[s].sana
  <2>1. Sube(ss, s, q) = ss
    BY <1>6 DEF Sube
  <2>. QED  BY <1>6, <2>1
<1>. QED  BY <1>5, <1>6

LEMMA LeidoEs ==
  ASSUME sesiones \in Seq(Sesion), NEW s \in 1 .. Len(sesiones), sesiones[s].sube # << >>
  PROVE  /\ Leido(s) \in Seq(Sesion) /\ Len(Leido(s)) = Len(sesiones)
         /\ \A t \in 1 .. Len(sesiones) :
              /\ Leido(s)[t].de = sesiones[t].de /\ Leido(s)[t].sana = sesiones[t].sana
              /\ Leido(s)[t].baja = sesiones[t].baja
              /\ Leido(s)[t].sube = IF t = s THEN Tail(sesiones[s].sube) ELSE sesiones[t].sube
<1>1. sesiones[s] \in Sesion /\ \A t \in 1 .. Len(sesiones) : sesiones[t] \in Sesion
  BY ElementOfSeq
<1> DEFINE e == [sesiones[s] EXCEPT !.sube = Tail(@)]
<1>2. /\ e \in Sesion /\ e.de = sesiones[s].de /\ e.sana = sesiones[s].sana /\ e.baja = sesiones[s].baja
      /\ e.sube = Tail(sesiones[s].sube)
  <2>1. Tail(sesiones[s].sube) \in Seq(Mensajes)
    BY <1>1, HeadTailProperties DEF Sesion
  <2>. QED  BY <1>1, <2>1 DEF Sesion
<1>3. [sesiones EXCEPT ![s].sube = Tail(@)] = [sesiones EXCEPT ![s] = e]
  OBVIOUS
<1> HIDE DEF e
<1>4. /\ [sesiones EXCEPT ![s] = e] \in Seq(Sesion) /\ Len([sesiones EXCEPT ![s] = e]) = Len(sesiones)
      /\ \A t \in 1 .. Len(sesiones) : [sesiones EXCEPT ![s] = e][t] = IF t = s THEN e ELSE sesiones[t]
  BY <1>2, ExceptSeq
<1>5. Leido(s) = [sesiones EXCEPT ![s] = e]
  BY <1>3 DEF Leido
<1>. QED  BY <1>2, <1>4, <1>5

LEMMA EscuchadoEs ==
  ASSUME sesiones \in Seq(Sesion), NEW s \in 1 .. Len(sesiones), sesiones[s].baja # << >>
  PROVE  /\ Escuchado(s) \in Seq(Sesion) /\ Len(Escuchado(s)) = Len(sesiones)
         /\ \A t \in 1 .. Len(sesiones) :
              /\ Escuchado(s)[t].de = sesiones[t].de /\ Escuchado(s)[t].sana = sesiones[t].sana
              /\ Escuchado(s)[t].sube = sesiones[t].sube
              /\ Escuchado(s)[t].baja = IF t = s THEN Tail(sesiones[s].baja) ELSE sesiones[t].baja
<1>1. sesiones[s] \in Sesion /\ \A t \in 1 .. Len(sesiones) : sesiones[t] \in Sesion
  BY ElementOfSeq
<1> DEFINE e == [sesiones[s] EXCEPT !.baja = Tail(@)]
<1>2. /\ e \in Sesion /\ e.de = sesiones[s].de /\ e.sana = sesiones[s].sana /\ e.sube = sesiones[s].sube
      /\ e.baja = Tail(sesiones[s].baja)
  <2>1. Tail(sesiones[s].baja) \in Seq(Mensajes)
    BY <1>1, HeadTailProperties DEF Sesion
  <2>. QED  BY <1>1, <2>1 DEF Sesion
<1>3. [sesiones EXCEPT ![s].baja = Tail(@)] = [sesiones EXCEPT ![s] = e]
  OBVIOUS
<1> HIDE DEF e
<1>4. /\ [sesiones EXCEPT ![s] = e] \in Seq(Sesion) /\ Len([sesiones EXCEPT ![s] = e]) = Len(sesiones)
      /\ \A t \in 1 .. Len(sesiones) : [sesiones EXCEPT ![s] = e][t] = IF t = s THEN e ELSE sesiones[t]
  BY <1>2, ExceptSeq
<1>5. Escuchado(s) = [sesiones EXCEPT ![s] = e]
  BY <1>3 DEF Escuchado
<1>. QED  BY <1>2, <1>4, <1>5

LEMMA CortadaEs ==
  ASSUME sesiones \in Seq(Sesion), NEW s \in 1 .. Len(sesiones)
  PROVE  /\ Cortada(s) \in Sesion /\ Cortada(s).de = sesiones[s].de /\ Cortada(s).sana = FALSE
         /\ Cortada(s).sube = << >> /\ Cortada(s).baja = << >>
<1>1. sesiones[s] \in Sesion
  BY ElementOfSeq
<1>2. << >> \in Seq(Mensajes)
  BY EmptySeq
<1>. QED  BY <1>1, <1>2 DEF Sesion, Cortada

(* Announcements, in some order, carry no box message.                     *)
LEMMA SoyesEnFila ==
  ASSUME NEW P, IsFiniteSet(P), \A m \in P : m \in Mensajes /\ m.tipo = "soy"
  PROVE  SetToSeq(P) \in Seq(Mensajes) /\ Cajas(SetToSeq(P)) = {} /\ Sencilla(SetToSeq(P))
<1> DEFINE r == SetToSeq(P)
<1>5. Cardinality(P) \in Nat /\ ExistsBijection(1 .. Cardinality(P), P)
  BY FS_CardinalityType
<1>6. \E f \in [1 .. Cardinality(P) -> P] : IsInjective(f)
  BY <1>5 DEF ExistsBijection, Bijection, Injection, IsInjective
<1>7. r \in [1 .. Cardinality(P) -> P]
  BY <1>6 DEF SetToSeq
<1>8. r \in Seq(Mensajes) /\ Len(r) = Cardinality(P)
  <2>1. r \in Seq(P)
    BY <1>5, <1>7
  <2>2. P \subseteq Mensajes
    OBVIOUS
  <2>. QED  BY <1>5, <1>7, <2>1, <2>2, SeqMonotonic
<1> HIDE DEF r
<1>9. Cajas(r) = {}
  BY <1>5, <1>7, <1>8 DEF Cajas
<1>10. Sencilla(r)
  BY <1>5, <1>7, <1>8 DEF Sencilla
<1>. QED  BY <1>8, <1>9, <1>10 DEF r

(* Two announcements at most are a finite set of them.                     *)
LEMMA DosSoyes ==
  ASSUME NEW a, NEW b, NEW P \in SUBSET {a, b} PROVE IsFiniteSet(P)
<1>1. IsFiniteSet({a})
  BY FS_Singleton
<1>2. IsFiniteSet({a} \cup {b})
  BY <1>1, FS_AddElement
<1>3. {a, b} = {a} \cup {b}
  OBVIOUS
<1>. QED  BY <1>2, <1>3, FS_Subset

LEMMA SoloSoyes ==
  ASSUME Tipos, NEW x \in Nodos
  PROVE  /\ <<Hola>> \o SetToSeq(Presentes(x)) \in Seq(Mensajes)
         /\ Cajas(<<Hola>> \o SetToSeq(Presentes(x))) = {}
         /\ <<Hola>> \o SetToSeq(Presentes(x)) # << >>
<1> DEFINE P == Presentes(x)
<1> DEFINE r == SetToSeq(P)
<1>1. P \subseteq {Soy(sabe[Emisor]), Soy(sabe[Receptor])}
  BY DEF Presentes, Personas
<1>4. \A m \in P : m \in Mensajes /\ m.tipo = "soy"
  BY DEF Presentes, Mensajes, Soy, Tipos, TypeOK
<1> HIDE DEF P
<1>8. r \in Seq(Mensajes) /\ Cajas(r) = {} /\ Len(r) \in Nat
  BY <1>1, <1>4, DosSoyes, SoyesEnFila, LenProperties
<1> HIDE DEF r
<1>10. Hola \in Mensajes /\ Hola.tipo # "caja"
  BY DEF Hola, Mensajes
<1>11. <<Hola>> \in Seq(Mensajes) /\ Cajas(<<Hola>>) = {} /\ Len(<<Hola>>) = 1
  BY <1>10, CajasUna
<1>12. <<Hola>> \o r \in Seq(Mensajes) /\ Len(<<Hola>> \o r) = 1 + Len(r)
  BY <1>8, <1>11, ConcatProperties
<1>13. <<Hola>> \o r # << >>
  BY <1>8, <1>12
<1>. QED  BY <1>8, <1>11, <1>12, <1>13, CajasJuntas DEF r, P

(* Reading at either end of a session takes out one message.               *)
LEMMA LeeEs ==
  ASSUME Tipos, Sencillas, NEW s \in Ids, sesiones[s].sube # << >>
  PROVE  LET m == Head(sesiones[s].sube) IN
         /\ m \in Mensajes /\ Cajas(<<m>>) \subseteq Cajas(sesiones[s].sube)
         /\ Leido(s) \in Seq(Sesion) /\ Len(Leido(s)) = Len(sesiones)
         /\ \A t \in Ids :
              /\ Leido(s)[t].de = sesiones[t].de /\ Leido(s)[t].sana = sesiones[t].sana
              /\ Leido(s)[t].baja = sesiones[t].baja
              /\ t # s => Leido(s)[t].sube = sesiones[t].sube
              /\ Sencilla(Leido(s)[t].baja) /\ Sencilla(Leido(s)[t].sube)
         /\ Cajas(Leido(s)[s].sube) = Cajas(sesiones[s].sube) \ Cajas(<<m>>)
<1> DEFINE q == sesiones[s].sube
<1> DEFINE tt == Leido(s)
<1>0. Ids = 1 .. Len(sesiones) /\ sesiones \in Seq(Sesion)
  BY IdsSon DEF Tipos, TypeOK
<1>1. sesiones[s] \in Sesion
  BY <1>0, ElementOfSeq
<1>2. q \in Seq(Mensajes) /\ q # << >> /\ Sencilla(q)
  BY <1>1 DEF Sesion, Sencillas
<1>3. /\ tt \in Seq(Sesion) /\ Len(tt) = Len(sesiones)
      /\ \A t \in 1 .. Len(sesiones) :
           /\ tt[t].de = sesiones[t].de /\ tt[t].sana = sesiones[t].sana
           /\ tt[t].baja = sesiones[t].baja
           /\ tt[t].sube = IF t = s THEN Tail(q) ELSE sesiones[t].sube
  BY <1>0, LeidoEs
<1> HIDE DEF q, tt
<1>5. /\ Head(q) \in Mensajes /\ Cajas(q) = Cajas(<<Head(q)>>) \cup Cajas(Tail(q))
      /\ Sencilla(Tail(q)) /\ Cajas(<<Head(q)>>) \cap Cajas(Tail(q)) = {}
  BY <1>2, CajasQueda
<1>6. Cajas(Tail(q)) = Cajas(q) \ Cajas(<<Head(q)>>) /\ Cajas(<<Head(q)>>) \subseteq Cajas(q)
  BY <1>5
<1>7. \A t \in Ids : Sencilla(tt[t].baja) /\ Sencilla(tt[t].sube)
  BY <1>0, <1>3, <1>5 DEF Sencillas
<1>. QED  BY <1>0, <1>3, <1>5, <1>6, <1>7 DEF q, tt

LEMMA OyeEs ==
  ASSUME Tipos, Sencillas, NEW s \in Ids, sesiones[s].baja # << >>
  PROVE  LET m == Head(sesiones[s].baja) IN
         /\ m \in Mensajes /\ Cajas(<<m>>) \subseteq Cajas(sesiones[s].baja)
         /\ Escuchado(s) \in Seq(Sesion) /\ Len(Escuchado(s)) = Len(sesiones)
         /\ \A t \in Ids :
              /\ Escuchado(s)[t].de = sesiones[t].de /\ Escuchado(s)[t].sana = sesiones[t].sana
              /\ Escuchado(s)[t].sube = sesiones[t].sube
              /\ t # s => Escuchado(s)[t].baja = sesiones[t].baja
              /\ Sencilla(Escuchado(s)[t].sube) /\ Sencilla(Escuchado(s)[t].baja)
         /\ Cajas(Escuchado(s)[s].baja) = Cajas(sesiones[s].baja) \ Cajas(<<m>>)
<1> DEFINE q == sesiones[s].baja
<1> DEFINE tt == Escuchado(s)
<1>0. Ids = 1 .. Len(sesiones) /\ sesiones \in Seq(Sesion)
  BY IdsSon DEF Tipos, TypeOK
<1>1. sesiones[s] \in Sesion
  BY <1>0, ElementOfSeq
<1>2. q \in Seq(Mensajes) /\ q # << >> /\ Sencilla(q)
  BY <1>1 DEF Sesion, Sencillas
<1>3. /\ tt \in Seq(Sesion) /\ Len(tt) = Len(sesiones)
      /\ \A t \in 1 .. Len(sesiones) :
           /\ tt[t].de = sesiones[t].de /\ tt[t].sana = sesiones[t].sana
           /\ tt[t].sube = sesiones[t].sube
           /\ tt[t].baja = IF t = s THEN Tail(q) ELSE sesiones[t].baja
  BY <1>0, EscuchadoEs
<1> HIDE DEF q, tt
<1>5. /\ Head(q) \in Mensajes /\ Cajas(q) = Cajas(<<Head(q)>>) \cup Cajas(Tail(q))
      /\ Sencilla(Tail(q)) /\ Cajas(<<Head(q)>>) \cap Cajas(Tail(q)) = {}
  BY <1>2, CajasQueda
<1>6. Cajas(Tail(q)) = Cajas(q) \ Cajas(<<Head(q)>>) /\ Cajas(<<Head(q)>>) \subseteq Cajas(q)
  BY <1>5
<1>7. \A t \in Ids : Sencilla(tt[t].sube) /\ Sencilla(tt[t].baja)
  BY <1>0, <1>3, <1>5 DEF Sencillas
<1>. QED  BY <1>0, <1>3, <1>5, <1>6, <1>7 DEF q, tt

-----------------------------------------------------------------------------
(* The beginning, and the steps that open a session and register it.       *)
LEMMA HolaEs == Hola \in Mensajes /\ Hola.tipo = "hola" /\ <<Hola>> \in Seq(Mensajes)
                /\ Cajas(<<Hola>>) = {} /\ Sencilla(<<Hola>>)
<1>1. Hola \in Mensajes /\ Hola.tipo = "hola"
  BY DEF Hola, Mensajes
<1>. QED  BY <1>1, CajasUna

LEMMA Empieza == Init => IInv
<1>. SUFFICES ASSUME Init PROVE IInv
  OBVIOUS
<1>1. \A S : << >> \in Seq(S) /\ Len(<< >>) = 0 /\ DOMAIN << >> = {}
  BY EmptySeq
<1>2. Tipos
  <2>1. /\ marcable \in BOOLEAN /\ marcando = {} /\ enviadas = 0 /\ fallas = 0 /\ perdidas = {}
        /\ sesiones = << >> /\ saliendo = << >> /\ guardado = << >> /\ bandeja = << >> /\ tomadas = << >>
        /\ \A x \in Nodos : buzon[x] = << >>
    BY DEF Init
  <2>2. /\ vez \in [Personas -> 1 .. MaxFallas + 1] /\ \A p \in Personas : vez[p] = 1
        /\ buzon \in [Nodos -> Seq(Mensajes)]
        /\ vivos \in [Nodos -> Ids \cup {Nada}] /\ vivo \in [Personas -> Ids \cup {Nada}]
        /\ sabe \in [Personas -> Nodos \cup {Nada}] /\ conoce \in [Personas -> [Personas -> Nodos \cup {Nada}]]
    BY <1>1, RedAssumption DEF Init
  <2>. QED  BY <1>1, <2>1, <2>2, RedAssumption DEF Tipos, TypeOK, Ids
<1>3. Sencillas
  BY <1>1, CajasVacia DEF Init, Sencillas, Ids
<1>4. \A c, k : ~Esta(c, k)
  BY <1>1, CajasVacia DEF Init, Esta, Ids
<1>5. (1 .. enviadas) \ perdidas = {}
  BY DEF Init
<1>. QED  BY <1>2, <1>3, <1>4, <1>5 DEF IInv, Cuenta

LEMMA NodoEs == ASSUME Tipos, NEW p \in Personas PROVE Nodo(p) \in Nodos
  BY DEF Tipos, TypeOK, Nodo, Nodos

LEMMA PasoAbrir == ASSUME IInv, NEW p \in Personas, Abrir(p) PROVE IInv'
<1>. USE DEF IInv
<1> DEFINE e == [de |-> Nodo(p), sana |-> TRUE, sube |-> <<Hola>>, baja |-> << >>]
<1> DEFINE n == Len(sesiones)
<1>0. /\ sesiones' = Append(sesiones, e) /\ saliendo' = Append(saliendo, << >>) /\ n < MaxSesiones
      /\ UNCHANGED <<marcable, vez, vivos, vivo, sabe, conoce, buzon, marcando, guardado, bandeja, tomadas,
                     perdidas, enviadas, fallas>>
  BY DEF Abrir, estado
<1>1. e \in Sesion /\ e.sube = <<Hola>> /\ e.baja = << >>
  BY NodoEs, HolaEs, EmptySeq DEF Sesion
<1> HIDE DEF e
<1>2. Ids = 1 .. n /\ n \in Nat /\ Len(saliendo) = n /\ sesiones \in Seq(Sesion) /\ saliendo \in Seq(Seq(Mensajes))
  BY IdsSon DEF Tipos, TypeOK
<1> HIDE DEF n
<1>3. /\ sesiones' \in Seq(Sesion) /\ Len(sesiones') = n + 1 /\ sesiones'[n + 1] = e
      /\ \A s \in 1 .. n : sesiones'[s] = sesiones[s]
  BY <1>0, <1>1, <1>2, AppendProperties DEF n
<1>4. /\ saliendo' \in Seq(Seq(Mensajes)) /\ Len(saliendo') = n + 1 /\ saliendo'[n + 1] = << >>
      /\ \A s \in 1 .. n : saliendo'[s] = saliendo[s]
  <2>1. << >> \in Seq(Mensajes)
    BY EmptySeq
  <2>. QED  BY <1>0, <1>2, <2>1, AppendProperties
<1>5. Ids' = 1 .. n + 1 /\ DOMAIN saliendo' = 1 .. n + 1
  BY <1>3, <1>4, LenProperties DEF Ids
<1>6. \A s \in Ids' : s \in Ids \/ s = n + 1
  BY <1>2, <1>5
<1>7. Ids \subseteq Ids' /\ n + 1 \in Ids'
  BY <1>2, <1>5
<1>8. Tipos'
  <2>1. \A s \in Ids' : saliendo'[s] \in Seq(Mensajes)
    BY <1>4, <1>5, ElementOfSeq
  <2>2. vivos' \in [Nodos -> Ids' \cup {Nada}] /\ vivo' \in [Personas -> Ids' \cup {Nada}]
    BY <1>0, <1>7 DEF Tipos, TypeOK
  <2>3. n + 1 <= MaxSesiones
    BY <1>0, <1>2, RedAssumption
  <2>. QED  BY <1>0, <1>3, <1>4, <1>5, <2>1, <2>2, <2>3 DEF Tipos, TypeOK, n
<1>9. Sencillas'
  <2>1. \A s \in Ids' : Sencilla(sesiones'[s].sube) /\ Sencilla(sesiones'[s].baja) /\ Sencilla(saliendo'[s])
    BY <1>1, <1>2, <1>3, <1>4, <1>6, CajasVacia, HolaEs DEF Sencillas
  <2>. QED  BY <1>0, <2>1 DEF Sencillas
<1>10. \A c, k : Esta(c, k)' <=> Esta(c, k)
  <2>1. Cajas(sesiones'[n + 1].sube) = {} /\ Cajas(sesiones'[n + 1].baja) = {} /\ Cajas(saliendo'[n + 1]) = {}
    BY <1>1, <1>3, <1>4, CajasVacia, HolaEs
  <2>2. \A s \in Ids : sesiones'[s] = sesiones[s] /\ saliendo'[s] = saliendo[s]
    BY <1>2, <1>3, <1>4
  <2>. SUFFICES ASSUME NEW c, NEW k PROVE Esta(c, k)' <=> Esta(c, k)
    OBVIOUS
  <2>3. \A t : t = n + 1 => ~EnSesion(c, k, t)'
    BY <2>1 DEF EnSesion
  <2>4. \A t \in Ids : EnSesion(c, k, t)' <=> EnSesion(c, k, t)
    BY <2>2 DEF EnSesion
  <2>5. (\E t \in Ids : EnSesion(c, k, t))' <=> (\E t \in Ids : EnSesion(c, k, t))
    BY <1>6, <1>7, <2>3, <2>4
  <2>. QED  BY <1>0, <2>5 DEF Esta
<1>11. Cuenta'
  BY <1>0, <1>10, NadaSeMueve
<1>. QED  BY <1>8, <1>9, <1>11

LEMMA PasoLeeHola == ASSUME IInv, NEW s \in Ids, LeeHola(s) PROVE IInv'
<1>. USE DEF IInv
<1> DEFINE x == sesiones[s].de
<1> DEFINE ante == <<Hola>> \o SetToSeq(Presentes(x))
<1>0. /\ sesiones[s].sube # << >> /\ Head(sesiones[s].sube) = Hola /\ saliendo[s] = << >>
      /\ sesiones' = Leido(s) /\ vivos' = [vivos EXCEPT ![x] = s]
      /\ saliendo' = [saliendo EXCEPT ![s] = ante \o buzon[x]]
      /\ buzon' = [buzon EXCEPT ![x] = << >>]
      /\ UNCHANGED <<marcable, vez, vivo, sabe, conoce, marcando, guardado, bandeja, tomadas, perdidas,
                     enviadas, fallas>>
  BY DEF LeeHola, Registrar
<1>1. /\ Ids = 1 .. Len(sesiones) /\ sesiones \in Seq(Sesion) /\ Ids = 1 .. Len(saliendo)
      /\ saliendo \in Seq(Seq(Mensajes)) /\ Len(saliendo) = Len(sesiones)
      /\ buzon \in [Nodos -> Seq(Mensajes)]
  BY IdsSon DEF Tipos, TypeOK
<1>2. x \in Nodos /\ buzon[x] \in Seq(Mensajes)
  <2>1. sesiones[s] \in Sesion
    BY <1>1, ElementOfSeq
  <2>. QED  BY <1>1, <2>1 DEF Sesion
<1>3. ante \in Seq(Mensajes) /\ Cajas(ante) = {}
  BY <1>2, SoloSoyes
<1> HIDE DEF ante, x
<1>4. /\ sesiones' \in Seq(Sesion) /\ Len(sesiones') = Len(sesiones) /\ Ids' = Ids
      /\ \A t \in Ids : /\ Cajas(sesiones'[t].sube) = Cajas(sesiones[t].sube)
                        /\ sesiones'[t].baja = sesiones[t].baja
                        /\ Sencilla(sesiones'[t].sube) /\ Sencilla(sesiones'[t].baja)
  BY <1>0, LeeEs, HolaEs, IdsQuedan
<1>6. /\ ante \o buzon[x] \in Seq(Mensajes) /\ Cajas(ante \o buzon[x]) = Cajas(buzon[x])
      /\ Sencilla(ante \o buzon[x])
  <2>1. Sencilla(ante) /\ Sencilla(buzon[x])
    BY <1>2, <1>3, SinCajas DEF Sencillas
  <2>2. Cajas(ante) \cap Cajas(buzon[x]) = {} /\ Cajas(ante) \cup Cajas(buzon[x]) = Cajas(buzon[x])
    BY <1>3
  <2>3. ante \in Seq(Mensajes) /\ buzon[x] \in Seq(Mensajes)
    BY <1>2, <1>3
  <2>. QED  BY <2>1, <2>2, <2>3, CajasJuntas
<1>7. /\ saliendo' \in Seq(Seq(Mensajes)) /\ Len(saliendo') = Len(saliendo) /\ DOMAIN saliendo' = Ids
      /\ \A t \in Ids : saliendo'[t] = IF t = s THEN ante \o buzon[x] ELSE saliendo[t]
  <2> DEFINE e == ante \o buzon[x]
  <2>1. e \in Seq(Mensajes) /\ s \in 1 .. Len(saliendo) /\ saliendo' = [saliendo EXCEPT ![s] = e]
    BY <1>0, <1>1, <1>6
  <2> HIDE DEF e
  <2>2. /\ saliendo' \in Seq(Seq(Mensajes)) /\ Len(saliendo') = Len(saliendo)
        /\ \A t \in 1 .. Len(saliendo) : saliendo'[t] = IF t = s THEN e ELSE saliendo[t]
    BY <1>1, <2>1, ExceptSeq
  <2>3. DOMAIN saliendo' = 1 .. Len(saliendo')
    BY <2>2, LenProperties
  <2>. QED  BY <1>1, <2>2, <2>3 DEF e
<1>8. /\ buzon' \in [Nodos -> Seq(Mensajes)] /\ buzon'[x] = << >>
      /\ \A y \in Nodos : y # x => buzon'[y] = buzon[y]
  BY <1>0, <1>1, <1>2, EmptySeq
<1>9. Tipos'
  <2>1. \A t \in Ids' : saliendo'[t] \in Seq(Mensajes)
    BY <1>1, <1>4, <1>7, ElementOfSeq
  <2>2. vivos' \in [Nodos -> Ids' \cup {Nada}] /\ vivo' \in [Personas -> Ids' \cup {Nada}]
    BY <1>0, <1>4 DEF Tipos, TypeOK
  <2>3. \A y \in Nodos : Len(buzon'[y]) <= MaxBuzon
    <3>1. \A y \in Nodos : Len(buzon[y]) <= MaxBuzon
      BY DEF Tipos, TypeOK
    <3>2. Len(buzon'[x]) = 0 /\ 0 <= MaxBuzon
      BY <1>8, EmptySeq, RedAssumption
    <3>. QED  BY <1>8, <3>1, <3>2
  <2>. QED  BY <1>0, <1>1, <1>4, <1>7, <1>8, <2>1, <2>2, <2>3 DEF Tipos, TypeOK
<1>10. Sencillas'
  <2>1. \A y \in Nodos : Sencilla(buzon'[y])
    BY <1>8, CajasVacia DEF Sencillas
  <2>2. \A t \in Ids : Sencilla(saliendo'[t])
    BY <1>6, <1>7 DEF Sencillas
  <2>. QED  BY <1>0, <1>4, <2>1, <2>2 DEF Sencillas
<1>11. Cuenta'
  <2> DEFINE M == Cajas(buzon[x])
  <2>1. \A k \in M : Esta(<<"buzon", x>>, k)
    BY <1>2 DEF Esta
  <2>2. \A c, k : k \notin M => (Esta(c, k)' <=> Esta(c, k))
    <3>. SUFFICES ASSUME NEW c, NEW k, k \notin M PROVE Esta(c, k)' <=> Esta(c, k)
      OBVIOUS
    <3>1. \A y \in Nodos : k \in Cajas(buzon'[y]) <=> k \in Cajas(buzon[y])
      BY <1>8, CajasVacia
    <3>2. \A t \in Ids : /\ k \in Cajas(sesiones'[t].sube) <=> k \in Cajas(sesiones[t].sube)
                         /\ k \in Cajas(sesiones'[t].baja) <=> k \in Cajas(sesiones[t].baja)
                         /\ k \in Cajas(saliendo'[t]) <=> k \in Cajas(saliendo[t])
      BY <1>0, <1>4, <1>6, <1>7, CajasVacia
    <3>. QED  BY <1>0, <1>4, <3>1, <3>2 DEF Esta, EnSesion
  <2>3. \A k \in M : Esta(<<"saliendo", s>>, k)'
    BY <1>4, <1>6, <1>7 DEF Esta, EnSesion
  <2>4. \A c, k : k \in M /\ Esta(c, k)' => c = <<"saliendo", s>> \/ (c # <<"buzon", x>> /\ Esta(c, k))
    <3>. SUFFICES ASSUME NEW c, NEW k, k \in M, Esta(c, k)', c # <<"saliendo", s>>
                  PROVE  c # <<"buzon", x>> /\ Esta(c, k)
      OBVIOUS
    <3>1. \A y \in Nodos : k \in Cajas(buzon'[y]) => y # x /\ k \in Cajas(buzon[y])
      BY <1>8, CajasVacia
    <3>2. \A t \in Ids : /\ k \in Cajas(sesiones'[t].sube) => k \in Cajas(sesiones[t].sube)
                         /\ k \in Cajas(sesiones'[t].baja) => k \in Cajas(sesiones[t].baja)
                         /\ k \in Cajas(saliendo'[t]) => t = s \/ k \in Cajas(saliendo[t])
      BY <1>0, <1>4, <1>6, <1>7, CajasVacia
    <3>. QED  BY <1>0, <1>4, <3>1, <3>2 DEF Esta, EnSesion
  <2> HIDE DEF M
  <2>. QED  BY <1>0, <2>1, <2>2, <2>3, <2>4, MuevenTodos
<1>. QED  BY <1>9, <1>10, <1>11

-----------------------------------------------------------------------------
(* What is written goes after what was on its way.                         *)
LEMMA BajaCon ==
  ASSUME NEW ss \in Seq(Sesion), NEW s \in 1 .. Len(ss), NEW q \in Seq(Mensajes),
         Sencilla(ss[s].baja), Sencilla(q), Cajas(ss[s].baja) \cap Cajas(q) = {}
  PROVE  /\ Baja(ss, s, q) \in Seq(Sesion) /\ Len(Baja(ss, s, q)) = Len(ss)
         /\ \A t \in 1 .. Len(ss) :
              /\ Baja(ss, s, q)[t].de = ss[t].de /\ Baja(ss, s, q)[t].sana = ss[t].sana
              /\ Baja(ss, s, q)[t].sube = ss[t].sube
              /\ t # s => Baja(ss, s, q)[t].baja = ss[t].baja
         /\ Sencilla(Baja(ss, s, q)[s].baja)
         /\ Cajas(Baja(ss, s, q)[s].baja) = Cajas(ss[s].baja) \cup (IF ss[s].sana THEN Cajas(q) ELSE {})
<1> DEFINE tt == Baja(ss, s, q)
<1> DEFINE b == ss[s].baja
<1>1. /\ tt \in Seq(Sesion) /\ Len(tt) = Len(ss)
      /\ \A t \in 1 .. Len(ss) :
           /\ tt[t].de = ss[t].de /\ tt[t].sana = ss[t].sana /\ tt[t].sube = ss[t].sube
           /\ tt[t].baja = IF t = s /\ ss[s].sana THEN b \o q ELSE ss[t].baja
  BY BajaEs
<1>2. ss[s] \in Sesion
  BY ElementOfSeq
<1>3. b \in Seq(Mensajes)
  BY <1>2 DEF Sesion
<1> HIDE DEF tt, b
<1>4. Cajas(b \o q) = Cajas(b) \cup Cajas(q) /\ Sencilla(b \o q)
  BY <1>3, CajasJuntas DEF b
<1>5. Sencilla(tt[s].baja) /\ Cajas(tt[s].baja) = Cajas(b) \cup (IF ss[s].sana THEN Cajas(q) ELSE {})
  BY <1>1, <1>4 DEF b
<1>. QED  BY <1>1, <1>5 DEF tt, b

LEMMA SubeCon ==
  ASSUME NEW ss \in Seq(Sesion), NEW s \in 1 .. Len(ss), NEW q \in Seq(Mensajes),
         Sencilla(ss[s].sube), Sencilla(q), Cajas(ss[s].sube) \cap Cajas(q) = {}
  PROVE  /\ Sube(ss, s, q) \in Seq(Sesion) /\ Len(Sube(ss, s, q)) = Len(ss)
         /\ \A t \in 1 .. Len(ss) :
              /\ Sube(ss, s, q)[t].de = ss[t].de /\ Sube(ss, s, q)[t].sana = ss[t].sana
              /\ Sube(ss, s, q)[t].baja = ss[t].baja
              /\ t # s => Sube(ss, s, q)[t].sube = ss[t].sube
         /\ Sencilla(Sube(ss, s, q)[s].sube)
         /\ Cajas(Sube(ss, s, q)[s].sube) = Cajas(ss[s].sube) \cup (IF ss[s].sana THEN Cajas(q) ELSE {})
<1> DEFINE tt == Sube(ss, s, q)
<1> DEFINE b == ss[s].sube
<1>1. /\ tt \in Seq(Sesion) /\ Len(tt) = Len(ss)
      /\ \A t \in 1 .. Len(ss) :
           /\ tt[t].de = ss[t].de /\ tt[t].sana = ss[t].sana /\ tt[t].baja = ss[t].baja
           /\ tt[t].sube = IF t = s /\ ss[s].sana THEN b \o q ELSE ss[t].sube
  BY SubeEs
<1>2. ss[s] \in Sesion
  BY ElementOfSeq
<1>3. b \in Seq(Mensajes)
  BY <1>2 DEF Sesion
<1> HIDE DEF tt, b
<1>4. Cajas(b \o q) = Cajas(b) \cup Cajas(q) /\ Sencilla(b \o q)
  BY <1>3, CajasJuntas DEF b
<1>5. Sencilla(tt[s].sube) /\ Cajas(tt[s].sube) = Cajas(b) \cup (IF ss[s].sana THEN Cajas(q) ELSE {})
  BY <1>1, <1>4 DEF b
<1>. QED  BY <1>1, <1>5 DEF tt, b

(* Where a message is, by the kind of queue.                               *)
LEMMA EstaEn ==
  ASSUME NEW k
  PROVE  /\ Esta(<<"tomadas", 0>>, k) <=> k \in Cajas(tomadas)
         /\ Esta(<<"bandeja", 0>>, k) <=> k \in Cajas(bandeja)
         /\ Esta(<<"guardado", 0>>, k) <=> k \in Cajas(guardado)
         /\ Esta(<<"dial", k>>, k) <=> k \in marcando
         /\ \A x \in Nodos : Esta(<<"buzon", x>>, k) <=> k \in Cajas(buzon[x])
         /\ \A s \in Ids : /\ Esta(<<"sube", s>>, k) <=> k \in Cajas(sesiones[s].sube)
                           /\ Esta(<<"baja", s>>, k) <=> k \in Cajas(sesiones[s].baja)
                           /\ Esta(<<"saliendo", s>>, k) <=> k \in Cajas(saliendo[s])
<1>1. \A c : Esta(c, k) <=>
        \/ c = <<"tomadas", 0>> /\ k \in Cajas(tomadas)
        \/ c = <<"bandeja", 0>> /\ k \in Cajas(bandeja)
        \/ c = <<"guardado", 0>> /\ k \in Cajas(guardado)
        \/ c = <<"dial", k>> /\ k \in marcando
        \/ \E x \in Nodos : c = <<"buzon", x>> /\ k \in Cajas(buzon[x])
        \/ \E s \in Ids : \/ c = <<"sube", s>> /\ k \in Cajas(sesiones[s].sube)
                          \/ c = <<"baja", s>> /\ k \in Cajas(sesiones[s].baja)
                          \/ c = <<"saliendo", s>> /\ k \in Cajas(saliendo[s])
  BY DEF Esta, EnSesion
<1>. QED  BY <1>1

(* Two queues have no message in common.                                   *)
LEMMA Aparte ==
  ASSUME Cuenta
  PROVE  /\ Cajas(bandeja) \cap Cajas(tomadas) = {}
         /\ marcando \cap Cajas(bandeja) = {} /\ marcando \cap Cajas(guardado) = {}
         /\ \A s \in Ids : /\ Cajas(sesiones[s].baja) \cap Cajas(saliendo[s]) = {}
                           /\ Cajas(sesiones[s].baja) \cap Cajas(bandeja) = {}
                           /\ \A t \in Ids : Cajas(sesiones[s].sube) \cap Cajas(sesiones[t].baja) = {}
                           /\ \A x \in Nodos : Cajas(sesiones[s].sube) \cap Cajas(buzon[x]) = {}
<1>1. \A c, d, k : Esta(c, k) /\ Esta(d, k) => c = d
  BY DEF Cuenta
<1>2. \A k : ~(k \in Cajas(bandeja) /\ k \in Cajas(tomadas))
  <2>1. <<"bandeja", 0>> # <<"tomadas", 0>>
    OBVIOUS
  <2>. QED  BY <1>1, <2>1, EstaEn
<1>3. \A k : /\ ~(k \in marcando /\ k \in Cajas(bandeja))
             /\ ~(k \in marcando /\ k \in Cajas(guardado))
  <2>1. \A k : <<"dial", k>> # <<"bandeja", 0>> /\ <<"dial", k>> # <<"guardado", 0>>
    OBVIOUS
  <2>. QED  BY <1>1, <2>1, EstaEn
<1>4. ASSUME NEW k, NEW s \in Ids
      PROVE  /\ ~(k \in Cajas(sesiones[s].baja) /\ k \in Cajas(saliendo[s]))
             /\ ~(k \in Cajas(sesiones[s].baja) /\ k \in Cajas(bandeja))
  <2>1. <<"baja", s>> # <<"saliendo", s>> /\ <<"baja", s>> # <<"bandeja", 0>>
    OBVIOUS
  <2>2. /\ Esta(<<"baja", s>>, k) <=> k \in Cajas(sesiones[s].baja)
        /\ Esta(<<"saliendo", s>>, k) <=> k \in Cajas(saliendo[s])
        /\ Esta(<<"bandeja", 0>>, k) <=> k \in Cajas(bandeja)
    BY EstaEn
  <2>. QED  BY <1>1, <2>1, <2>2
<1>5. ASSUME NEW k, NEW s \in Ids, NEW t \in Ids
      PROVE  ~(k \in Cajas(sesiones[s].sube) /\ k \in Cajas(sesiones[t].baja))
  <2>1. <<"sube", s>> # <<"baja", t>>
    OBVIOUS
  <2>2. /\ Esta(<<"sube", s>>, k) <=> k \in Cajas(sesiones[s].sube)
        /\ Esta(<<"baja", t>>, k) <=> k \in Cajas(sesiones[t].baja)
    BY EstaEn
  <2>. QED  BY <1>1, <2>1, <2>2
<1>6. ASSUME NEW k, NEW s \in Ids, NEW x \in Nodos
      PROVE  ~(k \in Cajas(sesiones[s].sube) /\ k \in Cajas(buzon[x]))
  <2>1. <<"sube", s>> # <<"buzon", x>>
    OBVIOUS
  <2>2. /\ Esta(<<"sube", s>>, k) <=> k \in Cajas(sesiones[s].sube)
        /\ Esta(<<"buzon", x>>, k) <=> k \in Cajas(buzon[x])
    BY EstaEn
  <2>. QED  BY <1>1, <2>1, <2>2
<1>. QED  BY <1>2, <1>3, <1>4, <1>5, <1>6

LEMMA PasoSaludar == ASSUME IInv, NEW s \in Ids, Saludar(s) PROVE IInv'
<1>. USE DEF IInv
<1> DEFINE q == saliendo[s]
<1>0. /\ sesiones' = Baja(sesiones, s, q) /\ perdidas' = perdidas \cup CaeEn(s, q)
      /\ saliendo' = [saliendo EXCEPT ![s] = << >>]
      /\ UNCHANGED <<marcable, vez, vivos, vivo, sabe, conoce, buzon, marcando, guardado, bandeja, tomadas,
                     enviadas, fallas>>
  BY DEF Saludar, estado
<1>1. /\ Ids = 1 .. Len(sesiones) /\ sesiones \in Seq(Sesion) /\ Ids = 1 .. Len(saliendo)
      /\ saliendo \in Seq(Seq(Mensajes)) /\ Len(saliendo) = Len(sesiones)
  BY IdsSon DEF Tipos, TypeOK
<1>2. q \in Seq(Mensajes) /\ Sencilla(q) /\ Sencilla(sesiones[s].baja)
  BY <1>1, ElementOfSeq DEF Sencillas
<1>3. /\ \A k \in Cajas(q) : Esta(<<"saliendo", s>>, k)
      /\ \A k \in Cajas(sesiones[s].baja) : Esta(<<"baja", s>>, k)
  BY EstaEn
<1>4. Cajas(sesiones[s].baja) \cap Cajas(q) = {}
  BY Aparte
<1>5. Cajas(q) \subseteq 1 .. enviadas
  BY <1>3 DEF Cuenta
<1> HIDE DEF q
<1>6. /\ sesiones' \in Seq(Sesion) /\ Len(sesiones') = Len(sesiones)
      /\ \A t \in Ids : /\ sesiones'[t].sube = sesiones[t].sube
                        /\ t # s => sesiones'[t].baja = sesiones[t].baja
      /\ Sencilla(sesiones'[s].baja)
      /\ Cajas(sesiones'[s].baja) = Cajas(sesiones[s].baja) \cup (IF sesiones[s].sana THEN Cajas(q) ELSE {})
  <2>1. s \in 1 .. Len(sesiones) /\ sesiones \in Seq(Sesion)
    BY <1>1
  <2>2. Sencilla(sesiones[s].baja) /\ Sencilla(q) /\ q \in Seq(Mensajes)
    BY <1>2
  <2>3. Cajas(sesiones[s].baja) \cap Cajas(q) = {}
    BY <1>4
  <2>4. /\ Baja(sesiones, s, q) \in Seq(Sesion) /\ Len(Baja(sesiones, s, q)) = Len(sesiones)
        /\ \A t \in 1 .. Len(sesiones) :
             /\ Baja(sesiones, s, q)[t].sube = sesiones[t].sube
             /\ t # s => Baja(sesiones, s, q)[t].baja = sesiones[t].baja
        /\ Sencilla(Baja(sesiones, s, q)[s].baja)
        /\ Cajas(Baja(sesiones, s, q)[s].baja)
             = Cajas(sesiones[s].baja) \cup (IF sesiones[s].sana THEN Cajas(q) ELSE {})
    BY <2>1, <2>2, <2>3, BajaCon
  <2>. QED  BY <1>0, <1>1, <2>4
<1>7. Ids' = Ids
  BY <1>6, IdsQuedan
<1>8. /\ saliendo' \in Seq(Seq(Mensajes)) /\ Len(saliendo') = Len(saliendo) /\ DOMAIN saliendo' = Ids
      /\ \A t \in Ids : saliendo'[t] = IF t = s THEN << >> ELSE saliendo[t]
  <2>1. << >> \in Seq(Mensajes) /\ s \in 1 .. Len(saliendo)
    BY <1>1, EmptySeq
  <2>2. /\ saliendo' \in Seq(Seq(Mensajes)) /\ Len(saliendo') = Len(saliendo)
        /\ \A t \in 1 .. Len(saliendo) : saliendo'[t] = IF t = s THEN << >> ELSE saliendo[t]
    BY <1>0, <1>1, <2>1, ExceptSeq
  <2>. QED  BY <1>1, <2>2, LenProperties
<1>9. Tipos'
  <2>1. \A t \in Ids' : saliendo'[t] \in Seq(Mensajes)
    BY <1>1, <1>7, <1>8, ElementOfSeq
  <2>2. perdidas' \subseteq 1 .. enviadas
    BY <1>0, <1>5 DEF CaeEn, Tipos, TypeOK
  <2>. QED  BY <1>0, <1>1, <1>6, <1>7, <1>8, <2>1, <2>2 DEF Tipos, TypeOK
<1>10. Sencillas'
  BY <1>0, <1>6, <1>7, <1>8, CajasVacia DEF Sencillas
<1>11. Cuenta'
  <2> DEFINE M == IF sesiones[s].sana THEN Cajas(q) ELSE {}
  <2> DEFINE L == IF sesiones[s].sana THEN {} ELSE Cajas(q)
  <2>1. M \cup L = Cajas(q) /\ M \cap L = {} /\ perdidas' = perdidas \cup L
    BY <1>0 DEF CaeEn
  <2>2. Cajas(sesiones'[s].baja) = Cajas(sesiones[s].baja) \cup M
    BY <1>6
  <2> HIDE DEF M, L
  <2>3. \A k \in M \cup L : \E f \in {<<"saliendo", s>>} : Esta(f, k)
    BY <1>3, <2>1
  <2>4. \A c, k : k \notin M \cup L => (Esta(c, k)' <=> Esta(c, k))
    <3>. SUFFICES ASSUME NEW c, NEW k, k \notin M \cup L PROVE Esta(c, k)' <=> Esta(c, k)
      OBVIOUS
    <3>1. \A t \in Ids : /\ k \in Cajas(sesiones'[t].sube) <=> k \in Cajas(sesiones[t].sube)
                         /\ k \in Cajas(sesiones'[t].baja) <=> k \in Cajas(sesiones[t].baja)
                         /\ k \in Cajas(saliendo'[t]) <=> k \in Cajas(saliendo[t])
      BY <1>6, <1>8, <2>1, <2>2, CajasVacia DEF q
    <3>. QED  BY <1>0, <1>7, <3>1 DEF Esta, EnSesion
  <2>5. \A k \in M : Esta(<<"baja", s>>, k)'
    BY <1>7, <2>2 DEF Esta, EnSesion
  <2>6. \A c, k : k \in M \cup L /\ Esta(c, k)' =>
                 (k \in M /\ c = <<"baja", s>>) \/ (c \notin {<<"saliendo", s>>} /\ Esta(c, k))
    <3>. SUFFICES ASSUME NEW c, NEW k, k \in M \cup L, Esta(c, k)', ~(k \in M /\ c = <<"baja", s>>)
                  PROVE  c # <<"saliendo", s>> /\ Esta(c, k)
      OBVIOUS
    <3>1. \A t \in Ids : /\ k \in Cajas(sesiones'[t].sube) => k \in Cajas(sesiones[t].sube)
                         /\ k \in Cajas(sesiones'[t].baja) => (t = s /\ k \in M) \/ k \in Cajas(sesiones[t].baja)
                         /\ k \in Cajas(saliendo'[t]) => t # s /\ k \in Cajas(saliendo[t])
      BY <1>6, <1>8, <2>1, <2>2, CajasVacia DEF q
    <3>. QED  BY <1>0, <1>7, <3>1 DEF Esta, EnSesion
  <2>7. enviadas' = enviadas /\ M \cap L = {} /\ perdidas' = perdidas \cup L
    BY <1>0, <2>1
  <2>8. PICK D, F : D = <<"baja", s>> /\ F = {<<"saliendo", s>>}
    OBVIOUS
  <2>9. \A k \in M \cup L : \E f \in F : Esta(f, k)
    BY <2>3, <2>8
  <2>10. \A k \in M : Esta(D, k)'
    BY <2>5, <2>8
  <2>11. \A c, k : k \in M \cup L /\ Esta(c, k)' => (k \in M /\ c = D) \/ (c \notin F /\ Esta(c, k))
    BY <2>6, <2>8
  <2>12. M \cap L = {} /\ perdidas' = perdidas \cup L /\ enviadas' = enviadas
    BY <2>7
  <2>13. Traslado(M, L, D, F)
    BY <2>4, <2>9, <2>10, <2>11, <2>12 DEF Traslado
  <2>. QED  BY <2>13, Mueve
<1>. QED  BY <1>9, <1>10, <1>11

-----------------------------------------------------------------------------
(* Steps that move no message of the box.                                  *)
LEMMA SoyEs ==
  ASSUME NEW x \in Nodos
  PROVE  Soy(x) \in Mensajes /\ <<Soy(x)>> \in Seq(Mensajes) /\ Cajas(<<Soy(x)>>) = {} /\ Sencilla(<<Soy(x)>>)
<1>1. Soy(x) \in Mensajes /\ Soy(x).tipo = "soy"
  BY DEF Soy, Mensajes
<1>. QED  BY <1>1, CajasUna

(* Only the sessions change, and no box message of theirs moves.           *)
LEMMA Quietas ==
  ASSUME IInv, sesiones' \in Seq(Sesion), Len(sesiones') = Len(sesiones),
         \A t \in Ids : /\ Cajas(sesiones'[t].sube) = Cajas(sesiones[t].sube)
                        /\ Cajas(sesiones'[t].baja) = Cajas(sesiones[t].baja)
                        /\ Sencilla(sesiones'[t].sube) /\ Sencilla(sesiones'[t].baja),
         vivos' = vivos, vivo' \in [Personas -> Ids \cup {Nada}],
         sabe' \in [Personas -> Nodos \cup {Nada}], conoce' \in [Personas -> [Personas -> Nodos \cup {Nada}]],
         UNCHANGED <<marcable, vez, saliendo, buzon, marcando, guardado, bandeja, tomadas, perdidas,
                     enviadas, fallas>>
  PROVE  IInv'
<1>. USE DEF IInv
<1>1. Ids' = Ids
  BY IdsQuedan
<1>2. Tipos'
  BY <1>1 DEF Tipos, TypeOK
<1>3. Sencillas'
  BY <1>1 DEF Sencillas
<1>4. Cuenta'
  <2>1. \A c, k : Esta(c, k)' <=> Esta(c, k)
    BY <1>1 DEF Esta, EnSesion
  <2>. QED  BY <2>1, NadaSeMueve
<1>. QED  BY <1>2, <1>3, <1>4

LEMMA PasoOyeSoy == ASSUME IInv, NEW s \in Ids, OyeSoy(s) PROVE IInv'
<1>. USE DEF IInv
<1> DEFINE m == Head(sesiones[s].baja)
<1>0. /\ sesiones[s].baja # << >> /\ m.tipo = "soy" /\ sesiones' = Escuchado(s)
      /\ conoce' = conoce \/ conoce' = [conoce EXCEPT ![sesiones[s].de[1]][m.nodo[1]] = m.nodo]
      /\ UNCHANGED <<marcable, vez, saliendo, vivos, vivo, sabe, buzon, marcando, guardado, bandeja, tomadas,
                     perdidas, enviadas, fallas>>
  BY DEF OyeSoy
<1>1. /\ m \in Mensajes
      /\ sesiones' \in Seq(Sesion) /\ Len(sesiones') = Len(sesiones)
      /\ \A t \in Ids : /\ sesiones'[t].sube = sesiones[t].sube
                        /\ t # s => sesiones'[t].baja = sesiones[t].baja
                        /\ Sencilla(sesiones'[t].sube) /\ Sencilla(sesiones'[t].baja)
      /\ Cajas(sesiones'[s].baja) = Cajas(sesiones[s].baja) \ Cajas(<<m>>)
  BY <1>0, OyeEs
<1> HIDE DEF m
<1>2. Cajas(<<m>>) = {} /\ m.nodo \in Nodos
  BY <1>0, <1>1, Formas, CajasUna
<1>3. \A t \in Ids : /\ Cajas(sesiones'[t].sube) = Cajas(sesiones[t].sube)
                     /\ Cajas(sesiones'[t].baja) = Cajas(sesiones[t].baja)
  BY <1>1, <1>2
<1>4. /\ vivo' \in [Personas -> Ids \cup {Nada}] /\ sabe' \in [Personas -> Nodos \cup {Nada}]
      /\ conoce' \in [Personas -> [Personas -> Nodos \cup {Nada}]]
  <2>1. sesiones[s].de[1] \in Personas /\ m.nodo[1] \in Personas
    <3>1. sesiones[s] \in Sesion
      BY IdsSon, ElementOfSeq DEF Tipos, TypeOK
    <3>. QED  BY <1>2, <3>1 DEF Sesion, Nodos
  <2>2. ASSUME NEW p \in Personas, NEW q \in Personas, conoce' = [conoce EXCEPT ![p][q] = m.nodo]
        PROVE  conoce' \in [Personas -> [Personas -> Nodos \cup {Nada}]]
    <3>1. [conoce[p] EXCEPT ![q] = m.nodo] \in [Personas -> Nodos \cup {Nada}]
      BY <1>2 DEF Tipos, TypeOK
    <3>2. conoce' = [conoce EXCEPT ![p] = [conoce[p] EXCEPT ![q] = m.nodo]]
      BY <2>2
    <3>. QED  BY <3>1, <3>2 DEF Tipos, TypeOK
  <2>3. conoce' \in [Personas -> [Personas -> Nodos \cup {Nada}]]
    BY <1>0, <2>1, <2>2 DEF Tipos, TypeOK
  <2>. QED  BY <1>0, <2>3 DEF Tipos, TypeOK
<1>. QED  BY <1>0, <1>1, <1>3, <1>4, Quietas

(* What a program announces: its own node, and whoever it heard of.        *)
LEMMA Anuncios ==
  ASSUME Tipos, NEW p \in Personas
  PROVE  LET r == <<Soy(Nodo(p))>> \o SetToSeq(Conocidos(p))
         IN  r \in Seq(Mensajes) /\ Cajas(r) = {} /\ Sencilla(r)
<1> DEFINE P == Conocidos(p)
<1>1. P \subseteq {Soy(conoce[p][Emisor]), Soy(conoce[p][Receptor])}
  BY DEF Conocidos, Personas
<1>2. \A m \in P : m \in Mensajes /\ m.tipo = "soy"
  <2>1. \A q \in Personas : conoce[p][q] \in Nodos \cup {Nada}
    BY DEF Tipos, TypeOK
  <2>. QED  BY <2>1 DEF Conocidos, Mensajes, Soy
<1> HIDE DEF P
<1>3. SetToSeq(P) \in Seq(Mensajes) /\ Cajas(SetToSeq(P)) = {} /\ Sencilla(SetToSeq(P))
  BY <1>1, <1>2, DosSoyes, SoyesEnFila
<1>4. <<Soy(Nodo(p))>> \in Seq(Mensajes) /\ Cajas(<<Soy(Nodo(p))>>) = {} /\ Sencilla(<<Soy(Nodo(p))>>)
  BY NodoEs, SoyEs
<1>. QED  BY <1>3, <1>4, CajasJuntas DEF P

LEMMA PasoOyeHola == ASSUME IInv, NEW s \in Ids, OyeHola(s) PROVE IInv'
<1>. USE DEF IInv
<1> DEFINE m == Head(sesiones[s].baja)
<1> DEFINE p == sesiones[s].de[1]
<1> DEFINE e == Escuchado(s)
<1> DEFINE r == <<Soy(Nodo(p))>> \o SetToSeq(Conocidos(p))
<1>0. /\ sesiones[s].baja # << >> /\ m = Hola /\ sesiones' = Sube(e, s, r) /\ vivo' = [vivo EXCEPT ![p] = s]
      /\ UNCHANGED <<marcable, vez, saliendo, vivos, sabe, conoce, buzon, marcando, guardado, bandeja, tomadas,
                     perdidas, enviadas, fallas>>
  BY DEF OyeHola
<1>1. /\ e \in Seq(Sesion) /\ Len(e) = Len(sesiones)
      /\ \A t \in Ids : /\ e[t].sube = sesiones[t].sube
                        /\ t # s => e[t].baja = sesiones[t].baja
                        /\ Sencilla(e[t].sube) /\ Sencilla(e[t].baja)
      /\ Cajas(e[s].baja) = Cajas(sesiones[s].baja) \ Cajas(<<m>>)
  BY <1>0, OyeEs
<1>2. Ids = 1 .. Len(sesiones) /\ sesiones \in Seq(Sesion)
  BY IdsSon DEF Tipos, TypeOK
<1>3. p \in Personas
  <2>1. sesiones[s] \in Sesion
    BY <1>2, ElementOfSeq
  <2>. QED  BY <2>1 DEF Sesion, Nodos
<1>4. r \in Seq(Mensajes) /\ Cajas(r) = {} /\ Sencilla(r)
  BY <1>3, Anuncios
<1>5. Cajas(<<m>>) = {}
  BY <1>0, HolaEs
<1> HIDE DEF m, p, e, r
<1>6. /\ Sube(e, s, r) \in Seq(Sesion) /\ Len(Sube(e, s, r)) = Len(e)
      /\ \A t \in 1 .. Len(e) : /\ Sube(e, s, r)[t].baja = e[t].baja
                                /\ t # s => Sube(e, s, r)[t].sube = e[t].sube
      /\ Sencilla(Sube(e, s, r)[s].sube)
      /\ Cajas(Sube(e, s, r)[s].sube) = Cajas(e[s].sube) \cup (IF e[s].sana THEN Cajas(r) ELSE {})
  <2>1. s \in 1 .. Len(e) /\ e \in Seq(Sesion)
    BY <1>1, <1>2
  <2>2. Sencilla(e[s].sube) /\ Sencilla(r) /\ r \in Seq(Mensajes)
    BY <1>1, <1>4
  <2>3. Cajas(e[s].sube) \cap Cajas(r) = {}
    BY <1>4
  <2>. QED  BY <2>1, <2>2, <2>3, SubeCon
<1>7. /\ sesiones' \in Seq(Sesion) /\ Len(sesiones') = Len(sesiones)
      /\ \A t \in Ids : /\ Cajas(sesiones'[t].sube) = Cajas(sesiones[t].sube)
                        /\ Cajas(sesiones'[t].baja) = Cajas(sesiones[t].baja)
                        /\ Sencilla(sesiones'[t].sube) /\ Sencilla(sesiones'[t].baja)
  <2>1. Cajas(Sube(e, s, r)[s].sube) = Cajas(sesiones[s].sube)
    BY <1>1, <1>4, <1>6
  <2>. QED  BY <1>0, <1>1, <1>2, <1>5, <1>6, <2>1
<1>8. /\ vivo' \in [Personas -> Ids \cup {Nada}] /\ sabe' \in [Personas -> Nodos \cup {Nada}]
      /\ conoce' \in [Personas -> [Personas -> Nodos \cup {Nada}]]
  BY <1>0, <1>3 DEF Tipos, TypeOK
<1>. QED  BY <1>0, <1>7, <1>8, Quietas

LEMMA PasoLeeSoy == ASSUME IInv, NEW s \in Ids, LeeSoy(s) PROVE IInv'
<1>. USE DEF IInv
<1> DEFINE m == Head(sesiones[s].sube)
<1> DEFINE x == m.nodo
<1> DEFINE e == Leido(s)
<1> DEFINE r == <<Soy(x)>>
<1>0. /\ sesiones[s].sube # << >> /\ m.tipo = "soy"
      /\ \/ sesiones' = e /\ sabe' = sabe
         \/ /\ sabe' = [sabe EXCEPT ![x[1]] = x]
            /\ \E otros : sesiones' = [k \in Ids |-> IF k \in otros THEN Baja(e, k, r)[k] ELSE e[k]]
      /\ UNCHANGED <<marcable, vez, saliendo, vivos, vivo, conoce, buzon, marcando, guardado, bandeja, tomadas,
                     perdidas, enviadas, fallas>>
  BY DEF LeeSoy
<1>1. /\ m \in Mensajes
      /\ e \in Seq(Sesion) /\ Len(e) = Len(sesiones)
      /\ \A t \in Ids : /\ e[t].baja = sesiones[t].baja
                        /\ t # s => e[t].sube = sesiones[t].sube
                        /\ Sencilla(e[t].sube) /\ Sencilla(e[t].baja)
      /\ Cajas(e[s].sube) = Cajas(sesiones[s].sube) \ Cajas(<<m>>)
  BY <1>0, LeeEs
<1>2. Cajas(<<m>>) = {} /\ x \in Nodos
  <2>1. x \in Nodos
    BY <1>0, <1>1, Formas
  <2>. QED  BY <1>0, <1>1, <2>1, CajasUna
<1>3. Ids = 1 .. Len(sesiones) /\ sesiones \in Seq(Sesion) /\ Len(sesiones) \in Nat
  BY IdsSon DEF Tipos, TypeOK
<1>4. r \in Seq(Mensajes) /\ Cajas(r) = {} /\ Sencilla(r)
  BY <1>2, SoyEs
<1> HIDE DEF m, x, e, r
<1>5. \A t \in Ids : Cajas(e[t].sube) = Cajas(sesiones[t].sube)
  BY <1>1, <1>2
<1>6. ASSUME NEW k \in Ids
      PROVE  /\ Baja(e, k, r)[k] \in Sesion
             /\ Baja(e, k, r)[k].sube = e[k].sube
             /\ Cajas(Baja(e, k, r)[k].baja) = Cajas(e[k].baja)
             /\ Sencilla(Baja(e, k, r)[k].baja)
  <2>1. k \in 1 .. Len(e) /\ e \in Seq(Sesion) /\ r \in Seq(Mensajes)
    BY <1>1, <1>3, <1>4
  <2>2. Sencilla(e[k].baja) /\ Sencilla(r)
    BY <1>1, <1>4
  <2>3. Cajas(e[k].baja) \cap Cajas(r) = {}
    BY <1>4
  <2>4. /\ Baja(e, k, r) \in Seq(Sesion) /\ Len(Baja(e, k, r)) = Len(e)
        /\ \A t \in 1 .. Len(e) :
             /\ Baja(e, k, r)[t].sube = e[t].sube
             /\ t # k => Baja(e, k, r)[t].baja = e[t].baja
        /\ Sencilla(Baja(e, k, r)[k].baja)
        /\ Cajas(Baja(e, k, r)[k].baja) = Cajas(e[k].baja) \cup (IF e[k].sana THEN Cajas(r) ELSE {})
    BY <2>1, <2>2, <2>3, BajaCon, SMTT(30)
  <2>5. Baja(e, k, r)[k] \in Sesion
    BY <2>1, <2>4, ElementOfSeq
  <2>. QED  BY <1>4, <2>1, <2>4, <2>5
<1>7. /\ sesiones' \in Seq(Sesion) /\ Len(sesiones') = Len(sesiones)
      /\ \A t \in Ids : /\ Cajas(sesiones'[t].sube) = Cajas(sesiones[t].sube)
                        /\ Cajas(sesiones'[t].baja) = Cajas(sesiones[t].baja)
                        /\ Sencilla(sesiones'[t].sube) /\ Sencilla(sesiones'[t].baja)
  <2>1. CASE sesiones' = e
    BY <1>1, <1>5, <2>1
  <2>2. ASSUME NEW otros, sesiones' = [k \in Ids |-> IF k \in otros THEN Baja(e, k, r)[k] ELSE e[k]]
        PROVE  /\ sesiones' \in Seq(Sesion) /\ Len(sesiones') = Len(sesiones)
               /\ \A t \in Ids : /\ Cajas(sesiones'[t].sube) = Cajas(sesiones[t].sube)
                                 /\ Cajas(sesiones'[t].baja) = Cajas(sesiones[t].baja)
                                 /\ Sencilla(sesiones'[t].sube) /\ Sencilla(sesiones'[t].baja)
    <3>1. \A k \in Ids : sesiones'[k] = IF k \in otros THEN Baja(e, k, r)[k] ELSE e[k]
      BY <2>2
    <3>2. \A k \in Ids : e[k] \in Sesion
      BY <1>1, <1>3, ElementOfSeq
    <3>3. \A k \in Ids : sesiones'[k] \in Sesion
      BY <1>6, <3>1, <3>2
    <3>4. sesiones' \in [1 .. Len(sesiones) -> Sesion]
      BY <1>3, <2>2, <3>3
    <3>5. sesiones' \in Seq(Sesion) /\ Len(sesiones') = Len(sesiones)
      BY <1>3, <3>4
    <3>. QED  BY <1>1, <1>5, <1>6, <3>1, <3>5
  <2>. QED  BY <1>0, <2>1, <2>2
<1>8. /\ vivo' \in [Personas -> Ids \cup {Nada}] /\ sabe' \in [Personas -> Nodos \cup {Nada}]
      /\ conoce' \in [Personas -> [Personas -> Nodos \cup {Nada}]]
  <2>1. sabe' = sabe \/ sabe' = [sabe EXCEPT ![x[1]] = x]
    BY <1>0
  <2>2. sabe' \in [Personas -> Nodos \cup {Nada}]
    BY <1>2, <2>1 DEF Tipos, TypeOK
  <2>. QED  BY <1>0, <2>2 DEF Tipos, TypeOK
<1>. QED  BY <1>0, <1>7, <1>8, Quietas

LEMMA PasoNotaSala == ASSUME IInv, NEW s \in Ids, NotaSala(s) PROVE IInv'
<1>. USE DEF IInv
<1>1. /\ vivos' = [vivos EXCEPT ![sesiones[s].de] = Suelta(@, s)]
      /\ UNCHANGED <<marcable, vez, sesiones, saliendo, vivo, sabe, conoce, buzon, marcando, guardado, bandeja,
                     tomadas, perdidas, enviadas, fallas>>
  BY DEF NotaSala
<1>2. Ids' = Ids /\ vivos' \in [Nodos -> Ids \cup {Nada}]
  BY <1>1 DEF Tipos, TypeOK, Suelta, Ids
<1>3. Tipos'
  BY <1>1, <1>2 DEF Tipos, TypeOK
<1>4. Sencillas'
  BY <1>1, <1>2 DEF Sencillas
<1>5. \A c, k : Esta(c, k)' <=> Esta(c, k)
  BY <1>1, <1>2 DEF Esta, EnSesion
<1>. QED  BY <1>1, <1>3, <1>4, <1>5, NadaSeMueve

LEMMA PasoNotaPrograma == ASSUME IInv, NEW s \in Ids, NotaPrograma(s) PROVE IInv'
<1>. USE DEF IInv
<1>1. /\ vivo' = [vivo EXCEPT ![sesiones[s].de[1]] = Suelta(@, s)]
      /\ UNCHANGED <<marcable, vez, sesiones, saliendo, vivos, sabe, conoce, buzon, marcando, guardado, bandeja,
                     tomadas, perdidas, enviadas, fallas>>
  BY DEF NotaPrograma
<1>2. Ids' = Ids /\ vivo' \in [Personas -> Ids \cup {Nada}]
  BY <1>1 DEF Tipos, TypeOK, Suelta, Ids
<1>3. Tipos'
  BY <1>1, <1>2 DEF Tipos, TypeOK
<1>4. Sencillas'
  BY <1>1, <1>2 DEF Sencillas
<1>5. \A c, k : Esta(c, k)' <=> Esta(c, k)
  BY <1>1, <1>2 DEF Esta, EnSesion
<1>. QED  BY <1>1, <1>3, <1>4, <1>5, NadaSeMueve

-----------------------------------------------------------------------------
(* The tray of the box.                                                    *)
LEMMA UnaCaja ==
  ASSUME NEW m \in Mensajes, m.tipo = "caja"
  PROVE  /\ Cajas(<<m>>) = {m.num} /\ m.num \in 1 .. MaxMensajes
         /\ <<m>> \in Seq(Mensajes) /\ Sencilla(<<m>>)
  BY Formas, CajasUna

(* A message that enters the tray of the box.                              *)
LEMMA EnBandejaEs ==
  ASSUME Tipos, Sencillas, NEW m \in Mensajes, m.tipo = "caja", m.num \notin Cajas(bandeja), EnBandeja(m)
  PROVE  /\ bandeja' \in Seq(Mensajes) /\ Len(bandeja') <= MaxCaja /\ Sencilla(bandeja')
         /\ perdidas' = perdidas \cup Desborda(bandeja, MaxCaja)
         /\ Desborda(bandeja, MaxCaja) \subseteq Cajas(bandeja)
         /\ Cajas(bandeja') = (Cajas(bandeja) \ Desborda(bandeja, MaxCaja)) \cup {m.num}
<1>1. bandeja \in Seq(Mensajes) /\ Len(bandeja) <= MaxCaja /\ Sencilla(bandeja) /\ MaxCaja \in Nat \ {0}
  BY RedAssumption DEF Tipos, TypeOK, Sencillas
<1>2. bandeja' = Encola(bandeja, m, MaxCaja) /\ perdidas' = perdidas \cup Desborda(bandeja, MaxCaja)
  BY DEF EnBandeja
<1>3. Cajas(<<m>>) = {m.num}
  BY UnaCaja
<1>4. Cajas(<<m>>) \cap Cajas(bandeja) = {}
  BY <1>3
<1>5. /\ Encola(bandeja, m, MaxCaja) \in Seq(Mensajes) /\ Len(Encola(bandeja, m, MaxCaja)) <= MaxCaja
      /\ Sencilla(Encola(bandeja, m, MaxCaja))
      /\ Desborda(bandeja, MaxCaja) \subseteq Cajas(bandeja)
      /\ Cajas(Encola(bandeja, m, MaxCaja)) = (Cajas(bandeja) \ Desborda(bandeja, MaxCaja)) \cup Cajas(<<m>>)
  BY <1>1, <1>4, Encolada
<1>. QED  BY <1>2, <1>3, <1>5

LEMMA PasoOyeCaja == ASSUME IInv, NEW s \in Ids, OyeCaja(s) PROVE IInv'
<1>. USE DEF IInv
<1> DEFINE m == Head(sesiones[s].baja)
<1> DEFINE L == Desborda(bandeja, MaxCaja)
<1>0. /\ sesiones[s].baja # << >> /\ m.tipo = "caja" /\ EnBandeja(m) /\ sesiones' = Escuchado(s)
      /\ UNCHANGED <<marcable, vez, saliendo, vivos, vivo, sabe, conoce, buzon, marcando, guardado, tomadas,
                     enviadas, fallas>>
  BY DEF OyeCaja, estado
<1>1. /\ m \in Mensajes /\ Cajas(<<m>>) \subseteq Cajas(sesiones[s].baja)
      /\ sesiones' \in Seq(Sesion) /\ Len(sesiones') = Len(sesiones)
      /\ \A t \in Ids : /\ sesiones'[t].sube = sesiones[t].sube
                        /\ t # s => sesiones'[t].baja = sesiones[t].baja
                        /\ Sencilla(sesiones'[t].sube) /\ Sencilla(sesiones'[t].baja)
      /\ Cajas(sesiones'[s].baja) = Cajas(sesiones[s].baja) \ Cajas(<<m>>)
  BY <1>0, OyeEs
<1> HIDE DEF m
<1>2. Cajas(<<m>>) = {m.num} /\ m.num \in Cajas(sesiones[s].baja) /\ m.num \notin Cajas(bandeja)
  <2>1. Cajas(<<m>>) = {m.num} /\ m.num \in Cajas(sesiones[s].baja)
    BY <1>0, <1>1, UnaCaja
  <2>2. Cajas(sesiones[s].baja) \cap Cajas(bandeja) = {}
    BY Aparte
  <2>. QED  BY <2>1, <2>2
<1>3. /\ bandeja' \in Seq(Mensajes) /\ Len(bandeja') <= MaxCaja /\ Sencilla(bandeja')
      /\ perdidas' = perdidas \cup L /\ L \subseteq Cajas(bandeja)
      /\ Cajas(bandeja') = (Cajas(bandeja) \ L) \cup {m.num}
  BY <1>0, <1>1, <1>2, EnBandejaEs
<1> HIDE DEF L
<1>4. Ids' = Ids
  BY <1>1, IdsQuedan
<1>5. /\ \A k \in L : Esta(<<"bandeja", 0>>, k)
      /\ Esta(<<"baja", s>>, m.num)
  BY <1>2, <1>3, EstaEn
<1>6. Tipos'
  <2>1. L \subseteq 1 .. enviadas
    BY <1>5 DEF Cuenta
  <2>. QED  BY <1>0, <1>1, <1>3, <1>4, <2>1 DEF Tipos, TypeOK
<1>7. Sencillas'
  BY <1>0, <1>1, <1>3, <1>4 DEF Sencillas
<1>8. Cuenta'
  <2>1. PICK D, F, M, N : /\ D = <<"bandeja", 0>> /\ F = {<<"baja", s>>, <<"bandeja", 0>>}
                          /\ M = {m.num} /\ N = L
    OBVIOUS
  <2>2. \A k \in M \cup N : \E f \in F : Esta(f, k)
    BY <1>5, <2>1
  <2>3. \A c, k : k \notin M \cup N => (Esta(c, k)' <=> Esta(c, k))
    <3>. SUFFICES ASSUME NEW c, NEW k, k \notin M \cup N PROVE Esta(c, k)' <=> Esta(c, k)
      OBVIOUS
    <3>1. \A t \in Ids : /\ k \in Cajas(sesiones'[t].sube) <=> k \in Cajas(sesiones[t].sube)
                         /\ k \in Cajas(sesiones'[t].baja) <=> k \in Cajas(sesiones[t].baja)
      BY <1>1, <1>2, <2>1
    <3>2. k \in Cajas(bandeja') <=> k \in Cajas(bandeja)
      BY <1>3, <2>1
    <3>. QED  BY <1>0, <1>4, <3>1, <3>2 DEF Esta, EnSesion
  <2>4. \A k \in M : Esta(D, k)'
    BY <1>3, <2>1 DEF Esta
  <2>5. \A c, k : k \in M \cup N /\ Esta(c, k)' => (k \in M /\ c = D) \/ (c \notin F /\ Esta(c, k))
    <3>. SUFFICES ASSUME NEW c, NEW k, k \in M \cup N, Esta(c, k)', ~(k \in M /\ c = D)
                  PROVE  c # <<"baja", s>> /\ c # <<"bandeja", 0>> /\ Esta(c, k)
      BY <2>1
    <3>1. k = m.num \/ (k \in L /\ k # m.num)
      BY <2>1
    <3>2. CASE k = m.num
      <4>1. \A t \in Ids : /\ k \in Cajas(sesiones'[t].sube) => k \in Cajas(sesiones[t].sube)
                           /\ k \in Cajas(sesiones'[t].baja) => t # s /\ k \in Cajas(sesiones[t].baja)
        BY <1>1, <1>2, <3>2
      <4>2. c # <<"bandeja", 0>>
        BY <2>1, <3>2
      <4>. QED  BY <1>0, <1>4, <4>1, <4>2 DEF Esta, EnSesion
    <3>3. CASE k \in L /\ k # m.num
      <4>1. \A t \in Ids : /\ k \in Cajas(sesiones'[t].sube) => k \in Cajas(sesiones[t].sube)
                           /\ k \in Cajas(sesiones'[t].baja) => k \in Cajas(sesiones[t].baja)
        BY <1>1, <1>2
      <4>2. k \notin Cajas(bandeja')
        BY <1>3, <3>3
      <4>3. ~Esta(<<"baja", s>>, k)
        <5>1. <<"baja", s>> # <<"bandeja", 0>>
          OBVIOUS
        <5>. QED  BY <1>5, <3>3, <5>1 DEF Cuenta
      <4>4. Esta(c, k) /\ c # <<"bandeja", 0>>
        BY <1>0, <1>4, <4>1, <4>2 DEF Esta, EnSesion
      <4>. QED  BY <4>3, <4>4
    <3>. QED  BY <3>1, <3>2, <3>3
  <2>6. M \cap N = {} /\ perdidas' = perdidas \cup N /\ enviadas' = enviadas
    <3>1. m.num \notin L
      BY <1>2, <1>3
    <3>. QED  BY <1>0, <1>3, <2>1, <3>1
  <2>7. Traslado(M, N, D, F)
    BY <2>2, <2>3, <2>4, <2>5, <2>6 DEF Traslado
  <2>. QED  BY <2>7, Mueve
<1>. QED  BY <1>6, <1>7, <1>8

LEMMA PasoTomar == ASSUME IInv, Tomar PROVE IInv'
<1>. USE DEF IInv
<1>0. /\ tomadas' = tomadas \o bandeja /\ bandeja' = << >>
      /\ UNCHANGED <<marcable, vez, sesiones, saliendo, vivos, vivo, sabe, conoce, buzon, marcando, guardado,
                     perdidas, enviadas, fallas>>
  BY DEF Tomar, estado
<1>1. /\ tomadas \in Seq(Mensajes) /\ bandeja \in Seq(Mensajes) /\ Sencilla(tomadas) /\ Sencilla(bandeja)
  BY DEF Tipos, Sencillas
<1>2. Cajas(tomadas) \cap Cajas(bandeja) = {}
  <2>1. Cajas(bandeja) \cap Cajas(tomadas) = {}
    BY Aparte
  <2>. QED  BY <2>1
<1>3. /\ tomadas \o bandeja \in Seq(Mensajes) /\ Sencilla(tomadas \o bandeja)
      /\ Cajas(tomadas \o bandeja) = Cajas(tomadas) \cup Cajas(bandeja)
  BY <1>1, <1>2, CajasJuntas
<1>4. /\ tomadas' \in Seq(Mensajes) /\ Sencilla(tomadas') /\ Cajas(tomadas') = Cajas(tomadas) \cup Cajas(bandeja)
      /\ bandeja' \in Seq(Mensajes) /\ Sencilla(bandeja') /\ Cajas(bandeja') = {} /\ Len(bandeja') = 0
  BY <1>0, <1>3, CajasVacia, EmptySeq
<1>5. Ids' = Ids
  BY <1>0 DEF Ids
<1>6. Tipos'
  BY <1>0, <1>4, <1>5, RedAssumption DEF Tipos, TypeOK
<1>7. Sencillas'
  BY <1>0, <1>4, <1>5 DEF Sencillas
<1>8. Cuenta'
  <2>1. PICK S, D, M : S = <<"bandeja", 0>> /\ D = <<"tomadas", 0>> /\ M = Cajas(bandeja)
    OBVIOUS
  <2>2. \A k \in M : Esta(S, k)
    BY <2>1, EstaEn
  <2>3. \A c, k : k \notin M => (Esta(c, k)' <=> Esta(c, k))
    <3>. SUFFICES ASSUME NEW c, NEW k, k \notin M PROVE Esta(c, k)' <=> Esta(c, k)
      OBVIOUS
    <3>1. /\ k \in Cajas(tomadas') <=> k \in Cajas(tomadas)
          /\ k \in Cajas(bandeja') <=> k \in Cajas(bandeja)
      BY <1>4, <2>1
    <3>. QED  BY <1>0, <1>5, <3>1 DEF Esta, EnSesion
  <2>4. \A k \in M : Esta(D, k)'
    BY <1>4, <2>1 DEF Esta
  <2>5. \A c, k : k \in M /\ Esta(c, k)' => c = D \/ (c # S /\ Esta(c, k))
    BY <1>0, <1>4, <1>5, <2>1 DEF Esta, EnSesion
  <2>. QED  BY <1>0, <2>2, <2>3, <2>4, <2>5, MuevenTodos
<1>. QED  BY <1>6, <1>7, <1>8

-----------------------------------------------------------------------------
(* Dials, and a message that is sent.                                      *)
LEMMA CajaEs ==
  ASSUME NEW k \in 1 .. MaxMensajes
  PROVE  /\ Caja(k) \in Mensajes /\ Caja(k).tipo = "caja" /\ Caja(k).num = k
         /\ Cajas(<<Caja(k)>>) = {k} /\ <<Caja(k)>> \in Seq(Mensajes) /\ Sencilla(<<Caja(k)>>)
<1>1. Caja(k) \in Mensajes /\ Caja(k).tipo = "caja" /\ Caja(k).num = k
  BY DEF Caja, Mensajes
<1>. QED  BY <1>1, UnaCaja

LEMMA PasoMarcado == ASSUME IInv, NEW n \in marcando, Marcado(n) PROVE IInv'
<1>. USE DEF IInv
<1> DEFINE L == Desborda(bandeja, MaxCaja)
<1>0. /\ marcando' = marcando \ {n} /\ EnBandeja(Caja(n))
      /\ UNCHANGED <<marcable, vez, sesiones, saliendo, vivos, vivo, sabe, conoce, buzon, guardado, tomadas,
                     enviadas, fallas>>
  BY DEF Marcado, estado
<1>1. n \in 1 .. MaxMensajes
  <2>1. marcando \subseteq 1 .. enviadas /\ enviadas \in 0 .. MaxMensajes /\ MaxMensajes \in Nat
    BY RedAssumption DEF Tipos, TypeOK
  <2>. QED  BY <2>1
<1>2. n \notin Cajas(bandeja)
  <2>1. marcando \cap Cajas(bandeja) = {}
    BY Aparte
  <2>. QED  BY <2>1
<1>3. /\ bandeja' \in Seq(Mensajes) /\ Len(bandeja') <= MaxCaja /\ Sencilla(bandeja')
      /\ perdidas' = perdidas \cup L /\ L \subseteq Cajas(bandeja)
      /\ Cajas(bandeja') = (Cajas(bandeja) \ L) \cup {n}
  <2>1. Caja(n) \in Mensajes /\ Caja(n).tipo = "caja" /\ Caja(n).num = n
    BY <1>1, CajaEs
  <2>. QED  BY <1>0, <1>2, <2>1, EnBandejaEs
<1> HIDE DEF L
<1>4. Ids' = Ids
  BY <1>0 DEF Ids
<1>5. (\A k \in L : Esta(<<"bandeja", 0>>, k)) /\ Esta(<<"dial", n>>, n)
  BY <1>3, EstaEn
<1>6. Tipos'
  <2>1. L \subseteq 1 .. enviadas
    BY <1>5 DEF Cuenta
  <2>. QED  BY <1>0, <1>3, <1>4, <2>1 DEF Tipos, TypeOK
<1>7. Sencillas'
  BY <1>0, <1>3, <1>4 DEF Sencillas
<1>8. Cuenta'
  <2>1. PICK D, F, M, N : /\ D = <<"bandeja", 0>> /\ F = {<<"dial", n>>, <<"bandeja", 0>>}
                          /\ M = {n} /\ N = L
    OBVIOUS
  <2>2. \A k \in M \cup N : \E f \in F : Esta(f, k)
    BY <1>5, <2>1
  <2>3. \A c, k : k \notin M \cup N => (Esta(c, k)' <=> Esta(c, k))
    <3>. SUFFICES ASSUME NEW c, NEW k, k \notin M \cup N PROVE Esta(c, k)' <=> Esta(c, k)
      OBVIOUS
    <3>1. /\ k \in Cajas(bandeja') <=> k \in Cajas(bandeja)
          /\ k \in marcando' <=> k \in marcando
      BY <1>0, <1>3, <2>1
    <3>. QED  BY <1>0, <1>4, <3>1 DEF Esta, EnSesion
  <2>4. \A k \in M : Esta(D, k)'
    BY <1>3, <2>1 DEF Esta
  <2>5. \A c, k : k \in M \cup N /\ Esta(c, k)' => (k \in M /\ c = D) \/ (c \notin F /\ Esta(c, k))
    <3>. SUFFICES ASSUME NEW c, NEW k, k \in M \cup N, Esta(c, k)', ~(k \in M /\ c = D)
                  PROVE  c # <<"dial", n>> /\ c # <<"bandeja", 0>> /\ Esta(c, k)
      BY <2>1
    <3>1. k = n \/ (k \in L /\ k # n)
      BY <2>1
    <3>2. CASE k = n
      <4>1. c # <<"bandeja", 0>> /\ k \notin marcando'
        BY <1>0, <2>1, <3>2
      <4>. QED  BY <1>0, <1>4, <3>2, <4>1 DEF Esta, EnSesion
    <3>3. CASE k \in L /\ k # n
      <4>1. k \notin Cajas(bandeja') /\ (k \in marcando' => k \in marcando)
        BY <1>0, <1>3, <3>3
      <4>2. ~Esta(<<"dial", n>>, k)
        <5>1. <<"dial", n>> # <<"bandeja", 0>>
          OBVIOUS
        <5>. QED  BY <1>5, <3>3, <5>1 DEF Cuenta
      <4>3. Esta(c, k) /\ c # <<"bandeja", 0>>
        BY <1>0, <1>4, <4>1 DEF Esta, EnSesion
      <4>. QED  BY <4>2, <4>3
    <3>. QED  BY <3>1, <3>2, <3>3
  <2>6. M \cap N = {} /\ perdidas' = perdidas \cup N /\ enviadas' = enviadas
    <3>1. n \notin L
      BY <1>2, <1>3
    <3>. QED  BY <1>0, <1>3, <2>1, <3>1
  <2>7. Traslado(M, N, D, F)
    BY <2>2, <2>3, <2>4, <2>5, <2>6 DEF Traslado
  <2>. QED  BY <2>7, Mueve
<1>. QED  BY <1>6, <1>7, <1>8

LEMMA PasoNoMarcado == ASSUME IInv, NEW n \in marcando, NoMarcado(n) PROVE IInv'
<1>. USE DEF IInv
<1> DEFINE L == Desborda(guardado, MaxBuzon)
<1>0. /\ fallas < MaxFallas /\ fallas' = fallas + 1
      /\ marcando' = marcando \ {n} /\ guardado' = Encola(guardado, Caja(n), MaxBuzon)
      /\ perdidas' = perdidas \cup L
      /\ UNCHANGED <<marcable, vez, sesiones, saliendo, vivos, vivo, sabe, conoce, buzon, bandeja, tomadas,
                     enviadas>>
  BY DEF NoMarcado, estado, Falla
<1>1. n \in 1 .. MaxMensajes
  <2>1. marcando \subseteq 1 .. enviadas /\ enviadas \in 0 .. MaxMensajes /\ MaxMensajes \in Nat
    BY RedAssumption DEF Tipos, TypeOK
  <2>. QED  BY <2>1
<1>2. n \notin Cajas(guardado)
  <2>1. marcando \cap Cajas(guardado) = {}
    BY Aparte
  <2>. QED  BY <2>1
<1>3. /\ guardado' \in Seq(Mensajes) /\ Len(guardado') <= MaxBuzon /\ Sencilla(guardado')
      /\ L \subseteq Cajas(guardado)
      /\ Cajas(guardado') = (Cajas(guardado) \ L) \cup {n}
  <2>1. Caja(n) \in Mensajes /\ Cajas(<<Caja(n)>>) = {n}
    BY <1>1, CajaEs
  <2>2. Cajas(<<Caja(n)>>) \cap Cajas(guardado) = {}
    BY <1>2, <2>1
  <2>3. guardado \in Seq(Mensajes) /\ Len(guardado) <= MaxBuzon /\ Sencilla(guardado) /\ MaxBuzon \in Nat \ {0}
    BY RedAssumption DEF Tipos, Sencillas
  <2>4. /\ Encola(guardado, Caja(n), MaxBuzon) \in Seq(Mensajes)
        /\ Len(Encola(guardado, Caja(n), MaxBuzon)) <= MaxBuzon
        /\ Sencilla(Encola(guardado, Caja(n), MaxBuzon))
        /\ Desborda(guardado, MaxBuzon) \subseteq Cajas(guardado)
        /\ Cajas(Encola(guardado, Caja(n), MaxBuzon))
             = (Cajas(guardado) \ Desborda(guardado, MaxBuzon)) \cup Cajas(<<Caja(n)>>)
    BY <2>1, <2>2, <2>3, Encolada
  <2>. QED  BY <1>0, <2>1, <2>4
<1> HIDE DEF L
<1>4. Ids' = Ids
  BY <1>0 DEF Ids
<1>5. (\A k \in L : Esta(<<"guardado", 0>>, k)) /\ Esta(<<"dial", n>>, n)
  BY <1>3, EstaEn
<1>6. Tipos'
  <2>1. L \subseteq 1 .. enviadas
    BY <1>5 DEF Cuenta
  <2>2. fallas' \in 0 .. MaxFallas /\ \A p \in Personas : vez[p] <= fallas' + 1
    BY <1>0, RedAssumption DEF Tipos, TypeOK
  <2>. QED  BY <1>0, <1>3, <1>4, <2>1, <2>2 DEF Tipos, TypeOK
<1>7. Sencillas'
  BY <1>0, <1>3, <1>4 DEF Sencillas
<1>8. Cuenta'
  <2>1. PICK D, F, M, N : /\ D = <<"guardado", 0>> /\ F = {<<"dial", n>>, <<"guardado", 0>>}
                          /\ M = {n} /\ N = L
    OBVIOUS
  <2>2. \A k \in M \cup N : \E f \in F : Esta(f, k)
    BY <1>5, <2>1
  <2>3. \A c, k : k \notin M \cup N => (Esta(c, k)' <=> Esta(c, k))
    <3>. SUFFICES ASSUME NEW c, NEW k, k \notin M \cup N PROVE Esta(c, k)' <=> Esta(c, k)
      OBVIOUS
    <3>1. /\ k \in Cajas(guardado') <=> k \in Cajas(guardado)
          /\ k \in marcando' <=> k \in marcando
      BY <1>0, <1>3, <2>1
    <3>. QED  BY <1>0, <1>4, <3>1 DEF Esta, EnSesion
  <2>4. \A k \in M : Esta(D, k)'
    BY <1>3, <2>1 DEF Esta
  <2>5. \A c, k : k \in M \cup N /\ Esta(c, k)' => (k \in M /\ c = D) \/ (c \notin F /\ Esta(c, k))
    <3>. SUFFICES ASSUME NEW c, NEW k, k \in M \cup N, Esta(c, k)', ~(k \in M /\ c = D)
                  PROVE  c # <<"dial", n>> /\ c # <<"guardado", 0>> /\ Esta(c, k)
      BY <2>1
    <3>1. k = n \/ (k \in L /\ k # n)
      BY <2>1
    <3>2. CASE k = n
      <4>1. c # <<"guardado", 0>> /\ k \notin marcando'
        BY <1>0, <2>1, <3>2
      <4>. QED  BY <1>0, <1>4, <3>2, <4>1 DEF Esta, EnSesion
    <3>3. CASE k \in L /\ k # n
      <4>1. k \notin Cajas(guardado') /\ (k \in marcando' => k \in marcando)
        BY <1>0, <1>3, <3>3
      <4>2. ~Esta(<<"dial", n>>, k)
        <5>1. <<"dial", n>> # <<"guardado", 0>>
          OBVIOUS
        <5>. QED  BY <1>5, <3>3, <5>1 DEF Cuenta
      <4>3. Esta(c, k) /\ c # <<"guardado", 0>>
        BY <1>0, <1>4, <4>1 DEF Esta, EnSesion
      <4>. QED  BY <4>2, <4>3
    <3>. QED  BY <3>1, <3>2, <3>3
  <2>6. M \cap N = {} /\ perdidas' = perdidas \cup N /\ enviadas' = enviadas
    <3>1. n \notin L
      BY <1>2, <1>3
    <3>. QED  BY <1>0, <1>3, <2>1, <3>1
  <2>7. Traslado(M, N, D, F)
    BY <2>2, <2>3, <2>4, <2>5, <2>6 DEF Traslado
  <2>. QED  BY <2>7, Mueve
<1>. QED  BY <1>6, <1>7, <1>8

(* A message is sent: it is in one queue, or it was lost at once.          *)
Nace(n) ==
  /\ enviadas' = n
  /\ \A c, k : k # n => (Esta(c, k)' <=> Esta(c, k))
  /\ \/ perdidas' = perdidas /\ \E D : Esta(D, n)' /\ \A c : Esta(c, n)' => c = D
     \/ perdidas' = perdidas \cup {n} /\ \A c : ~Esta(c, n)'

LEMMA Nacer == ASSUME Tipos, Cuenta, NEW n, n = enviadas + 1, Nace(n) PROVE Cuenta'
<1>1. enviadas \in Nat /\ perdidas \subseteq 1 .. enviadas /\ enviadas' = n
  BY RedAssumption DEF Tipos, TypeOK, Nace
<1>2. (1 .. n) = (1 .. enviadas) \cup {n} /\ n \notin 1 .. enviadas
  BY <1>1
<1>3. \A c, k : k # n => (Esta(c, k)' <=> Esta(c, k))
  BY DEF Nace
<1>4. \/ perdidas' = perdidas /\ \E D : Esta(D, n)' /\ \A c : Esta(c, n)' => c = D
      \/ perdidas' = perdidas \cup {n} /\ \A c : ~Esta(c, n)'
  BY DEF Nace
<1>5. /\ \A c, k : Esta(c, k) => k \in (1 .. enviadas) \ perdidas
      /\ \A c, d, k : Esta(c, k) /\ Esta(d, k) => c = d
      /\ \A k \in (1 .. enviadas) \ perdidas : \E c : Esta(c, k)
  BY DEF Cuenta
<1>6. ASSUME NEW c, NEW k, Esta(c, k)' PROVE k \in (1 .. enviadas') \ perdidas'
  <2>1. CASE k = n
    <3>1. perdidas' = perdidas
      BY <1>4, <1>6, <2>1
    <3>. QED  BY <1>1, <1>2, <2>1, <3>1
  <2>2. CASE k # n
    <3>1. k \in (1 .. enviadas) \ perdidas
      BY <1>3, <1>5, <1>6, <2>2
    <3>. QED  BY <1>1, <1>2, <1>4, <2>2, <3>1
  <2>. QED  BY <2>1, <2>2
<1>7. ASSUME NEW c, NEW d, NEW k, Esta(c, k)', Esta(d, k)' PROVE c = d
  <2>1. CASE k = n
    BY <1>4, <1>7, <2>1
  <2>2. CASE k # n
    BY <1>3, <1>5, <1>7, <2>2
  <2>. QED  BY <2>1, <2>2
<1>8. ASSUME NEW k \in (1 .. enviadas') \ perdidas' PROVE \E c : Esta(c, k)'
  <2>1. CASE k = n
    BY <1>4, <2>1
  <2>2. CASE k # n
    <3>1. k \in (1 .. enviadas) \ perdidas
      BY <1>1, <1>2, <1>4, <2>2
    <3>. QED  BY <1>3, <1>5, <2>2, <3>1
  <2>. QED  BY <2>1, <2>2
<1>. QED  BY <1>6, <1>7, <1>8 DEF Cuenta

-----------------------------------------------------------------------------
(* enviar_caja.                                                            *)
LEMMA EnviarMarca ==
  ASSUME IInv, NEW n, n = enviadas + 1, enviadas < MaxMensajes,
         enviadas' = n, marcando' = marcando \cup {n},
         UNCHANGED <<marcable, vez, sesiones, saliendo, vivos, vivo, sabe, conoce, buzon, guardado, bandeja,
                     tomadas, perdidas, fallas>>
  PROVE  IInv'
<1>. USE DEF IInv
<1>1. Ids' = Ids
  BY DEF Ids
<1>2. enviadas \in Nat /\ MaxMensajes \in Nat /\ enviadas' \in 0 .. MaxMensajes
      /\ 1 .. enviadas \subseteq 1 .. enviadas' /\ n \in 1 .. enviadas' /\ n \notin 1 .. enviadas
  BY RedAssumption DEF Tipos
<1>3. Tipos'
  <2>1. marcando' \subseteq 1 .. enviadas' /\ perdidas' \subseteq 1 .. enviadas'
    BY <1>2 DEF Tipos, TypeOK
  <2>. QED  BY <1>1, <1>2, <2>1 DEF Tipos, TypeOK
<1>4. Sencillas'
  BY <1>1 DEF Sencillas
<1>5. \A c : ~Esta(c, n)
  BY <1>2 DEF Cuenta
<1>6. \A c, k : k # n => (Esta(c, k)' <=> Esta(c, k))
  BY <1>1 DEF Esta, EnSesion
<1>7. \A c : Esta(c, n)' => c = <<"dial", n>>
  <2>1. \A c : Esta(c, n)' => c = <<"dial", n>> \/ Esta(c, n)
    BY <1>1 DEF Esta, EnSesion
  <2>. QED  BY <1>5, <2>1
<1>8. Esta(<<"dial", n>>, n)'
  BY DEF Esta
<1>9. Nace(n)
  <2>1. \E D : Esta(D, n)' /\ \A c : Esta(c, n)' => c = D
    BY <1>7, <1>8
  <2>. QED  BY <1>6, <2>1 DEF Nace
<1>. QED  BY <1>3, <1>4, <1>9, Nacer

LEMMA EnviarPorSala ==
  ASSUME IInv, NEW n, n = enviadas + 1, enviadas < MaxMensajes, vivo[Emisor] # Nada,
         enviadas' = n, sesiones' = Sube(sesiones, vivo[Emisor], <<Caja(n)>>),
         perdidas' = perdidas \cup CaeEn(vivo[Emisor], <<Caja(n)>>),
         UNCHANGED <<marcable, vez, saliendo, vivos, vivo, sabe, conoce, buzon, marcando, guardado, bandeja,
                     tomadas, fallas>>
  PROVE  IInv'
<1>. USE DEF IInv
<1>1. PICK v \in Ids : v = vivo[Emisor]
  <2>1. vivo[Emisor] \in Ids \cup {Nada}
    BY DEF Tipos, TypeOK, Personas
  <2>. QED  BY <2>1
<1>2. /\ enviadas \in Nat /\ MaxMensajes \in Nat /\ enviadas' \in 0 .. MaxMensajes
      /\ 1 .. enviadas \subseteq 1 .. enviadas' /\ n \in 1 .. enviadas' /\ n \notin 1 .. enviadas
      /\ n \in 1 .. MaxMensajes
  BY RedAssumption DEF Tipos
<1>3. \A c : ~Esta(c, n)
  BY <1>2 DEF Cuenta
<1> DEFINE r == <<Caja(n)>>
<1>4. r \in Seq(Mensajes) /\ Sencilla(r) /\ Cajas(r) = {n}
  BY <1>2, CajaEs
<1>5. Ids = 1 .. Len(sesiones) /\ sesiones \in Seq(Sesion)
  BY IdsSon DEF Tipos, TypeOK
<1> HIDE DEF r
<1>6. sesiones' = Sube(sesiones, v, r) /\ perdidas' = perdidas \cup (IF sesiones[v].sana THEN {} ELSE {n})
  BY <1>1, <1>4 DEF CaeEn, r
<1>7. /\ sesiones' \in Seq(Sesion) /\ Len(sesiones') = Len(sesiones)
      /\ \A t \in Ids : /\ sesiones'[t].baja = sesiones[t].baja
                        /\ t # v => sesiones'[t].sube = sesiones[t].sube
      /\ Sencilla(sesiones'[v].sube)
      /\ Cajas(sesiones'[v].sube) = Cajas(sesiones[v].sube) \cup (IF sesiones[v].sana THEN {n} ELSE {})
  <2>1. v \in 1 .. Len(sesiones) /\ sesiones \in Seq(Sesion)
    BY <1>5
  <2>2. Sencilla(sesiones[v].sube) /\ Sencilla(r) /\ r \in Seq(Mensajes)
    BY <1>4 DEF Sencillas
  <2>3. Cajas(sesiones[v].sube) \cap Cajas(r) = {}
    <3>1. ~Esta(<<"sube", v>>, n)
      BY <1>3
    <3>2. n \notin Cajas(sesiones[v].sube)
      BY <3>1, EstaEn
    <3>. QED  BY <1>4, <3>2
  <2>4. /\ Sube(sesiones, v, r) \in Seq(Sesion) /\ Len(Sube(sesiones, v, r)) = Len(sesiones)
        /\ \A t \in 1 .. Len(sesiones) :
             /\ Sube(sesiones, v, r)[t].baja = sesiones[t].baja
             /\ t # v => Sube(sesiones, v, r)[t].sube = sesiones[t].sube
        /\ Sencilla(Sube(sesiones, v, r)[v].sube)
        /\ Cajas(Sube(sesiones, v, r)[v].sube)
             = Cajas(sesiones[v].sube) \cup (IF sesiones[v].sana THEN Cajas(r) ELSE {})
    BY <2>1, <2>2, <2>3, SubeCon
  <2>. QED  BY <1>4, <1>5, <1>6, <2>4
<1>8. Ids' = Ids
  BY <1>7, IdsQuedan
<1>9. Tipos'
  <2>1. marcando' \subseteq 1 .. enviadas' /\ perdidas' \subseteq 1 .. enviadas'
    BY <1>2, <1>6 DEF Tipos, TypeOK
  <2>. QED  BY <1>2, <1>7, <1>8, <2>1 DEF Tipos, TypeOK
<1>10. Sencillas'
  BY <1>7, <1>8 DEF Sencillas
<1>11. \A c, k : k # n => (Esta(c, k)' <=> Esta(c, k))
  <2>. SUFFICES ASSUME NEW c, NEW k, k # n PROVE Esta(c, k)' <=> Esta(c, k)
    OBVIOUS
  <2>1. \A t \in Ids : /\ k \in Cajas(sesiones'[t].sube) <=> k \in Cajas(sesiones[t].sube)
                       /\ k \in Cajas(sesiones'[t].baja) <=> k \in Cajas(sesiones[t].baja)
    BY <1>7
  <2>. QED  BY <1>8, <2>1 DEF Esta, EnSesion
<1>12. ASSUME NEW c, Esta(c, n)' PROVE sesiones[v].sana /\ c = <<"sube", v>>
  <2>1. \A t \in Ids : /\ n \in Cajas(sesiones'[t].sube) =>
                            (t = v /\ sesiones[v].sana) \/ n \in Cajas(sesiones[t].sube)
                       /\ n \in Cajas(sesiones'[t].baja) => n \in Cajas(sesiones[t].baja)
    BY <1>7
  <2>2. (sesiones[v].sana /\ c = <<"sube", v>>) \/ Esta(c, n)
    BY <1>8, <1>12, <2>1 DEF Esta, EnSesion
  <2>. QED  BY <1>3, <2>2
<1>13. Nace(n)
  <2>1. CASE sesiones[v].sana
    <3>1. n \in Cajas(sesiones'[v].sube)
      BY <1>7, <2>1
    <3>2. Esta(<<"sube", v>>, n)'
      BY <1>8, <3>1 DEF Esta, EnSesion
    <3>3. \E D : Esta(D, n)' /\ \A c : Esta(c, n)' => c = D
      BY <1>12, <3>2
    <3>4. perdidas' = perdidas
      BY <1>6, <2>1
    <3>. QED  BY <1>11, <3>3, <3>4 DEF Nace
  <2>2. CASE ~sesiones[v].sana
    <3>1. \A c : ~Esta(c, n)'
      BY <1>12, <2>2
    <3>2. perdidas' = perdidas \cup {n}
      BY <1>6, <2>2
    <3>. QED  BY <1>11, <3>1, <3>2 DEF Nace
  <2>. QED  BY <2>1, <2>2
<1>. QED  BY <1>9, <1>10, <1>13, Nacer

LEMMA PasoEnviar == ASSUME IInv, Enviar PROVE IInv'
<1>1. PICK n : n = enviadas + 1
  OBVIOUS
<1>2. /\ enviadas < MaxMensajes /\ enviadas' = n
      /\ UNCHANGED <<marcable, vez, saliendo, vivos, vivo, sabe, conoce, buzon, guardado, bandeja, tomadas, fallas>>
  BY <1>1 DEF Enviar, estado
<1>3. \/ marcando' = marcando \cup {n} /\ UNCHANGED <<sesiones, perdidas>>
      \/ /\ vivo[Emisor] # Nada /\ sesiones' = Sube(sesiones, vivo[Emisor], <<Caja(n)>>)
         /\ perdidas' = perdidas \cup CaeEn(vivo[Emisor], <<Caja(n)>>) /\ UNCHANGED marcando
  BY <1>1 DEF Enviar
<1>4. CASE marcando' = marcando \cup {n} /\ UNCHANGED <<sesiones, perdidas>>
  BY <1>1, <1>2, <1>4, EnviarMarca
<1>5. CASE /\ vivo[Emisor] # Nada /\ sesiones' = Sube(sesiones, vivo[Emisor], <<Caja(n)>>)
           /\ perdidas' = perdidas \cup CaeEn(vivo[Emisor], <<Caja(n)>>) /\ UNCHANGED marcando
  BY <1>1, <1>2, <1>5, EnviarPorSala
<1>. QED  BY <1>3, <1>4, <1>5

-----------------------------------------------------------------------------
(* What breaks or starts again loses what it had.                          *)
(* Messages L are lost, and no queue gets any.                             *)
SePierden(L) ==
  /\ perdidas' = perdidas \cup L /\ enviadas' = enviadas
  /\ \A k \in L : \E c : Esta(c, k) /\ ~Esta(c, k)'
  /\ \A c, k : Esta(c, k)' => Esta(c, k)
  /\ \A c, k : k \notin L => (Esta(c, k)' <=> Esta(c, k))

LEMMA Perder == ASSUME Cuenta, NEW L, SePierden(L) PROVE Cuenta'
<1>. USE DEF SePierden
<1>1. /\ \A c, k : Esta(c, k) => k \in (1 .. enviadas) \ perdidas
      /\ \A c, d, k : Esta(c, k) /\ Esta(d, k) => c = d
      /\ \A k \in (1 .. enviadas) \ perdidas : \E c : Esta(c, k)
  BY DEF Cuenta
<1>2. \A c, k : Esta(c, k)' => k \notin L
  BY <1>1
<1>3. \A c, k : Esta(c, k)' => k \in (1 .. enviadas') \ perdidas'
  BY <1>1, <1>2
<1>4. \A c, d, k : Esta(c, k)' /\ Esta(d, k)' => c = d
  BY <1>1
<1>5. \A k \in (1 .. enviadas') \ perdidas' : \E c : Esta(c, k)'
  BY <1>1
<1>. QED  BY <1>3, <1>4, <1>5 DEF Cuenta

LEMMA PasoRomper == ASSUME IInv, NEW s \in Ids, Romper(s) PROVE IInv'
<1>. USE DEF IInv
<1> DEFINE L == Dentro(s)
<1>0. /\ fallas < MaxFallas /\ fallas' = fallas + 1
      /\ sesiones' = [sesiones EXCEPT ![s] = Cortada(s)] /\ perdidas' = perdidas \cup L
      /\ UNCHANGED <<marcable, vez, saliendo, vivos, vivo, sabe, conoce, buzon, marcando, guardado, bandeja,
                     tomadas, enviadas>>
  BY DEF Romper, estado, Falla
<1>1. Ids = 1 .. Len(sesiones) /\ sesiones \in Seq(Sesion)
  BY IdsSon DEF Tipos, TypeOK
<1>2. /\ sesiones' \in Seq(Sesion) /\ Len(sesiones') = Len(sesiones)
      /\ \A t \in Ids : t # s => sesiones'[t] = sesiones[t]
      /\ sesiones'[s].sube = << >> /\ sesiones'[s].baja = << >>
  <2> DEFINE e == Cortada(s)
  <2>1. e \in Sesion /\ e.sube = << >> /\ e.baja = << >>
    BY <1>1, CortadaEs
  <2> HIDE DEF e
  <2>2. /\ sesiones' \in Seq(Sesion) /\ Len(sesiones') = Len(sesiones)
        /\ \A t \in 1 .. Len(sesiones) : sesiones'[t] = IF t = s THEN e ELSE sesiones[t]
    <3>1. sesiones' = [sesiones EXCEPT ![s] = e]
      BY <1>0 DEF e
    <3>. QED  BY <1>1, <2>1, <3>1, ExceptSeq
  <2>. QED  BY <1>1, <2>1, <2>2
<1>3. Ids' = Ids
  BY <1>2, IdsQuedan
<1>4. \A k : k \in L <=> k \in Cajas(sesiones[s].sube) \/ k \in Cajas(sesiones[s].baja)
  BY DEF Dentro
<1> HIDE DEF L
<1>5. /\ Cajas(sesiones'[s].sube) = {} /\ Cajas(sesiones'[s].baja) = {}
      /\ Sencilla(sesiones'[s].sube) /\ Sencilla(sesiones'[s].baja)
  BY <1>2, CajasVacia
<1>6. \A k \in L : Esta(<<"sube", s>>, k) \/ Esta(<<"baja", s>>, k)
  BY <1>4, EstaEn
<1>7. Tipos'
  <2>1. L \subseteq 1 .. enviadas
    BY <1>6 DEF Cuenta
  <2>2. fallas' \in 0 .. MaxFallas /\ \A p \in Personas : vez[p] <= fallas' + 1
    BY <1>0, RedAssumption DEF Tipos, TypeOK
  <2>. QED  BY <1>0, <1>2, <1>3, <2>1, <2>2 DEF Tipos, TypeOK
<1>8. Sencillas'
  BY <1>0, <1>2, <1>3, <1>5 DEF Sencillas
<1>9. \A t \in Ids : \A k :
                        /\ k \in Cajas(sesiones'[t].sube) <=> t # s /\ k \in Cajas(sesiones[t].sube)
                        /\ k \in Cajas(sesiones'[t].baja) <=> t # s /\ k \in Cajas(sesiones[t].baja)
  BY <1>2, <1>5
<1>10. \A k : ~Esta(<<"sube", s>>, k)' /\ ~Esta(<<"baja", s>>, k)'
  BY <1>3, <1>5 DEF Esta, EnSesion
<1>11. \A c, k : Esta(c, k)' => Esta(c, k)
  <2>. SUFFICES ASSUME NEW c, NEW k, Esta(c, k)' PROVE Esta(c, k)
    OBVIOUS
  <2>1. \A t \in Ids : /\ k \in Cajas(sesiones'[t].sube) => k \in Cajas(sesiones[t].sube)
                       /\ k \in Cajas(sesiones'[t].baja) => k \in Cajas(sesiones[t].baja)
    BY <1>9
  <2>. QED  BY <1>0, <1>3, <2>1 DEF Esta, EnSesion
<1>12. \A c, k : k \notin L => (Esta(c, k)' <=> Esta(c, k))
  <2>. SUFFICES ASSUME NEW c, NEW k, k \notin L PROVE Esta(c, k)' <=> Esta(c, k)
    OBVIOUS
  <2>1. \A t \in Ids : /\ k \in Cajas(sesiones'[t].sube) <=> k \in Cajas(sesiones[t].sube)
                       /\ k \in Cajas(sesiones'[t].baja) <=> k \in Cajas(sesiones[t].baja)
    BY <1>4, <1>9
  <2>. QED  BY <1>0, <1>3, <2>1 DEF Esta, EnSesion
<1>13. \A k \in L : \E c : Esta(c, k) /\ ~Esta(c, k)'
  BY <1>6, <1>10
<1>14. SePierden(L)
  BY <1>0, <1>11, <1>12, <1>13 DEF SePierden
<1>. QED  BY <1>7, <1>8, <1>14, Perder

LEMMA PasoRenacer == ASSUME IInv, NEW p \in Personas, Renacer(p) PROVE IInv'
<1>. USE DEF IInv
<1> DEFINE suyas == {k \in Ids : sesiones[k].de = Nodo(p)}
<1> DEFINE suyo == IF p = Receptor THEN Cajas(bandeja) ELSE Cajas(guardado) \cup marcando
<1> DEFINE L == (UNION {Dentro(s) : s \in suyas}) \cup suyo
<1>0. /\ fallas < MaxFallas /\ fallas' = fallas + 1 /\ vez' = [vez EXCEPT ![p] = @ + 1]
      /\ sesiones' = [s \in Ids |-> IF s \in suyas THEN Cortada(s) ELSE sesiones[s]]
      /\ vivo' = [vivo EXCEPT ![p] = Nada]
      /\ perdidas' = perdidas \cup L
      /\ UNCHANGED <<marcable, saliendo, vivos, sabe, buzon, tomadas, enviadas>>
  <2>1. sesiones' = [s \in Ids |-> IF sesiones[s].de = Nodo(p) THEN Cortada(s) ELSE sesiones[s]]
    BY DEF Renacer
  <2>2. perdidas' = perdidas \cup L
    BY DEF Renacer
  <2>. QED  BY <2>1, <2>2 DEF Renacer, Falla
<1>1. /\ conoce' = [conoce EXCEPT ![p] = [q \in Personas |-> Nada]]
      /\ p = Receptor => bandeja' = << >> /\ UNCHANGED <<guardado, marcando>>
      /\ p # Receptor => guardado' = << >> /\ marcando' = {} /\ bandeja' = bandeja
  BY DEF Renacer
<1>2. Ids = 1 .. Len(sesiones) /\ sesiones \in Seq(Sesion) /\ Len(sesiones) \in Nat
  BY IdsSon DEF Tipos, TypeOK
<1>3. \A k : k \in L <=> \/ \E s \in suyas : k \in Cajas(sesiones[s].sube) \/ k \in Cajas(sesiones[s].baja)
                         \/ k \in suyo
  <2>. HIDE DEF suyas, suyo
  <2>1. \A k : k \in L <=> (\E s \in suyas : k \in Dentro(s)) \/ k \in suyo
    <3> DEFINE U == UNION {Dentro(s) : s \in suyas}
    <3>1. \A k : k \in U => \E s \in suyas : k \in Dentro(s)
      OBVIOUS
    <3>2. \A s \in suyas : Dentro(s) \subseteq U
      OBVIOUS
    <3>3. L = U \cup suyo
      OBVIOUS
    <3> HIDE DEF U, L
    <3>. QED  BY <3>1, <3>2, <3>3
  <2>2. \A k, s : k \in Dentro(s) <=> k \in Cajas(sesiones[s].sube) \/ k \in Cajas(sesiones[s].baja)
    BY DEF Dentro
  <2>. QED  BY <2>1, <2>2
<1>4. \A k : k \in suyo <=> (p = Receptor /\ k \in Cajas(bandeja))
                            \/ (p # Receptor /\ (k \in Cajas(guardado) \/ k \in marcando))
  OBVIOUS
<1>5. suyas \subseteq Ids
  OBVIOUS
<1> HIDE DEF suyas, suyo, L
<1>6. /\ \A t \in Ids : t \notin suyas => sesiones'[t] = sesiones[t]
      /\ \A t \in suyas : sesiones'[t].sube = << >> /\ sesiones'[t].baja = << >>
      /\ sesiones' \in Seq(Sesion) /\ Len(sesiones') = Len(sesiones)
  <2>1. \A t \in Ids : sesiones'[t] = IF t \in suyas THEN Cortada(t) ELSE sesiones[t]
    BY <1>0
  <2>2. \A t \in Ids : sesiones[t] \in Sesion
    BY <1>2, ElementOfSeq
  <2>3. \A t \in Ids : Cortada(t) \in Sesion /\ Cortada(t).sube = << >> /\ Cortada(t).baja = << >>
    BY <1>2, CortadaEs
  <2>4. sesiones' \in [1 .. Len(sesiones) -> Sesion]
    BY <1>0, <1>2, <2>1, <2>2, <2>3
  <2>5. sesiones' \in Seq(Sesion) /\ Len(sesiones') = Len(sesiones)
    BY <1>2, <2>4
  <2>. QED  BY <1>5, <2>1, <2>3, <2>5
<1>7. Ids' = Ids
  BY <1>6, IdsQuedan
<1>8. \A t \in suyas : /\ Cajas(sesiones'[t].sube) = {} /\ Cajas(sesiones'[t].baja) = {}
                       /\ Sencilla(sesiones'[t].sube) /\ Sencilla(sesiones'[t].baja)
  BY <1>6, CajasVacia
<1>9. \A t \in Ids : \A k :
                        /\ k \in Cajas(sesiones'[t].sube) <=> t \notin suyas /\ k \in Cajas(sesiones[t].sube)
                        /\ k \in Cajas(sesiones'[t].baja) <=> t \notin suyas /\ k \in Cajas(sesiones[t].baja)
  BY <1>6, <1>8
<1>10. /\ bandeja' \in Seq(Mensajes) /\ guardado' \in Seq(Mensajes)
       /\ Len(bandeja') <= MaxCaja /\ Len(guardado') <= MaxBuzon
       /\ Sencilla(bandeja') /\ Sencilla(guardado')
  <2>1. /\ bandeja \in Seq(Mensajes) /\ guardado \in Seq(Mensajes)
        /\ Len(bandeja) <= MaxCaja /\ Len(guardado) <= MaxBuzon
        /\ Sencilla(bandeja) /\ Sencilla(guardado)
    BY DEF Tipos, TypeOK, Sencillas
  <2>2. /\ << >> \in Seq(Mensajes) /\ Len(<< >>) <= MaxCaja /\ Len(<< >>) <= MaxBuzon
        /\ Sencilla(<< >>)
    BY CajasVacia, EmptySeq, RedAssumption
  <2>3. (bandeja' = bandeja \/ bandeja' = << >>) /\ (guardado' = guardado \/ guardado' = << >>)
    BY <1>1
  <2>. QED  BY <2>1, <2>2, <2>3
<1>11. \A k : /\ k \in Cajas(bandeja') <=> p # Receptor /\ k \in Cajas(bandeja)
              /\ k \in Cajas(guardado') <=> p = Receptor /\ k \in Cajas(guardado)
              /\ k \in marcando' <=> p = Receptor /\ k \in marcando
  BY <1>1, CajasVacia
<1>12. \A c, k : Esta(c, k)' => Esta(c, k)
  <2>. SUFFICES ASSUME NEW c, NEW k, Esta(c, k)' PROVE Esta(c, k)
    OBVIOUS
  <2>1. \A t \in Ids : /\ k \in Cajas(sesiones'[t].sube) => k \in Cajas(sesiones[t].sube)
                       /\ k \in Cajas(sesiones'[t].baja) => k \in Cajas(sesiones[t].baja)
    BY <1>9
  <2>2. /\ k \in Cajas(bandeja') => k \in Cajas(bandeja)
        /\ k \in Cajas(guardado') => k \in Cajas(guardado)
        /\ k \in marcando' => k \in marcando
    BY <1>11
  <2>. QED  BY <1>0, <1>7, <2>1, <2>2 DEF Esta, EnSesion
<1>13. \A c, k : k \notin L => (Esta(c, k)' <=> Esta(c, k))
  <2>. SUFFICES ASSUME NEW c, NEW k, k \notin L PROVE Esta(c, k)' <=> Esta(c, k)
    OBVIOUS
  <2>1. \A t \in Ids : /\ k \in Cajas(sesiones'[t].sube) <=> k \in Cajas(sesiones[t].sube)
                       /\ k \in Cajas(sesiones'[t].baja) <=> k \in Cajas(sesiones[t].baja)
    BY <1>3, <1>9
  <2>2. /\ k \in Cajas(bandeja') <=> k \in Cajas(bandeja)
        /\ k \in Cajas(guardado') <=> k \in Cajas(guardado)
        /\ k \in marcando' <=> k \in marcando
    BY <1>3, <1>4, <1>11
  <2>. QED  BY <1>0, <1>7, <2>1, <2>2 DEF Esta, EnSesion
<1>14. ASSUME NEW k \in L PROVE \E c : Esta(c, k) /\ ~Esta(c, k)'
  <2>1. ASSUME NEW s \in suyas, k \in Cajas(sesiones[s].sube) PROVE \E c : Esta(c, k) /\ ~Esta(c, k)'
    <3>1. Esta(<<"sube", s>>, k)
      BY <1>5, <2>1, EstaEn
    <3>2. ~Esta(<<"sube", s>>, k)'
      BY <1>7, <1>8 DEF Esta, EnSesion
    <3>. QED  BY <3>1, <3>2
  <2>2. ASSUME NEW s \in suyas, k \in Cajas(sesiones[s].baja) PROVE \E c : Esta(c, k) /\ ~Esta(c, k)'
    <3>1. Esta(<<"baja", s>>, k)
      BY <1>5, <2>2, EstaEn
    <3>2. ~Esta(<<"baja", s>>, k)'
      BY <1>7, <1>8 DEF Esta, EnSesion
    <3>. QED  BY <3>1, <3>2
  <2>3. CASE p = Receptor /\ k \in Cajas(bandeja)
    <3>1. Esta(<<"bandeja", 0>>, k)
      BY <2>3, EstaEn
    <3>2. ~Esta(<<"bandeja", 0>>, k)'
      BY <1>11, <2>3 DEF Esta, EnSesion
    <3>. QED  BY <3>1, <3>2
  <2>4. CASE p # Receptor /\ k \in Cajas(guardado)
    <3>1. Esta(<<"guardado", 0>>, k)
      BY <2>4, EstaEn
    <3>2. ~Esta(<<"guardado", 0>>, k)'
      BY <1>11, <2>4 DEF Esta, EnSesion
    <3>. QED  BY <3>1, <3>2
  <2>5. CASE p # Receptor /\ k \in marcando
    <3>1. Esta(<<"dial", k>>, k)
      BY <2>5, EstaEn
    <3>2. ~Esta(<<"dial", k>>, k)'
      BY <1>11, <2>5 DEF Esta, EnSesion
    <3>. QED  BY <3>1, <3>2
  <2>. QED  BY <1>3, <1>4, <2>1, <2>2, <2>3, <2>4, <2>5
<1>15. L \subseteq 1 .. enviadas
  BY <1>14 DEF Cuenta
<1>16. Tipos'
  <2>1. /\ fallas' \in 0 .. MaxFallas /\ vez' \in [Personas -> 1 .. MaxFallas + 1]
        /\ \A q \in Personas : vez'[q] <= fallas' + 1
    <3>1. /\ fallas \in 0 .. MaxFallas /\ MaxFallas \in Nat
          /\ vez \in [Personas -> 1 .. MaxFallas + 1] /\ \A q \in Personas : vez[q] <= fallas + 1
      BY RedAssumption DEF Tipos, TypeOK
    <3>2. \A q \in Personas : vez'[q] = IF q = p THEN vez[q] + 1 ELSE vez[q]
      BY <1>0, <3>1
    <3>3. fallas' \in 0 .. MaxFallas /\ fallas' = fallas + 1 /\ fallas + 1 <= MaxFallas
      BY <1>0, <3>1
    <3>4. \A q \in Personas : vez[q] \in 1 .. MaxFallas + 1 /\ vez[q] + 1 <= fallas + 2
      BY <3>1
    <3>5. \A q \in Personas : vez'[q] \in 1 .. MaxFallas + 1 /\ vez'[q] <= fallas' + 1
      BY <3>1, <3>2, <3>3, <3>4
    <3>6. vez' \in [Personas -> 1 .. MaxFallas + 1]
      BY <1>0, <3>1, <3>5
    <3>. QED  BY <3>3, <3>5, <3>6
  <2>2. marcando' \subseteq 1 .. enviadas' /\ perdidas' \subseteq 1 .. enviadas'
    BY <1>0, <1>11, <1>15 DEF Tipos, TypeOK
  <2>3. conoce' \in [Personas -> [Personas -> Nodos \cup {Nada}]] /\ vivo' \in [Personas -> Ids \cup {Nada}]
    BY <1>0, <1>1 DEF Tipos, TypeOK
  <2>. QED  BY <1>0, <1>6, <1>7, <1>10, <2>1, <2>2, <2>3 DEF Tipos, TypeOK
<1>17. Sencillas'
  <2>1. \A t \in Ids : Sencilla(sesiones'[t].sube) /\ Sencilla(sesiones'[t].baja)
    BY <1>6, <1>8 DEF Sencillas
  <2>. QED  BY <1>0, <1>7, <1>10, <2>1 DEF Sencillas
<1>18. SePierden(L)
  BY <1>0, <1>12, <1>13, <1>14 DEF SePierden
<1>. QED  BY <1>16, <1>17, <1>18, Perder

-----------------------------------------------------------------------------
(* The room passes a message on, keeps it or loses it.                     *)
(* What the room reads of a box message, whatever it does with it.         *)
LEMMA LeeCajaEs ==
  ASSUME IInv, NEW s \in Ids, sesiones[s].sube # << >>, Head(sesiones[s].sube).tipo = "caja"
  PROVE  LET m == Head(sesiones[s].sube) IN
         /\ m \in Mensajes /\ Cajas(<<m>>) = {m.num} /\ m.num \in Cajas(sesiones[s].sube)
         /\ Esta(<<"sube", s>>, m.num)
         /\ Leido(s) \in Seq(Sesion) /\ Len(Leido(s)) = Len(sesiones)
         /\ \A t \in Ids :
              /\ Leido(s)[t].sana = sesiones[t].sana /\ Leido(s)[t].baja = sesiones[t].baja
              /\ Sencilla(Leido(s)[t].sube) /\ Sencilla(Leido(s)[t].baja)
              /\ \A k : k \in Cajas(Leido(s)[t].sube) <=>
                          k \in Cajas(sesiones[t].sube) /\ ~(t = s /\ k = m.num)
<1>. USE DEF IInv
<1> DEFINE m == Head(sesiones[s].sube)
<1> DEFINE e == Leido(s)
<1>1. /\ m \in Mensajes /\ Cajas(<<m>>) \subseteq Cajas(sesiones[s].sube)
      /\ e \in Seq(Sesion) /\ Len(e) = Len(sesiones)
      /\ \A t \in Ids : /\ e[t].sana = sesiones[t].sana /\ e[t].baja = sesiones[t].baja
                        /\ t # s => e[t].sube = sesiones[t].sube
                        /\ Sencilla(e[t].sube) /\ Sencilla(e[t].baja)
      /\ Cajas(e[s].sube) = Cajas(sesiones[s].sube) \ Cajas(<<m>>)
  BY LeeEs
<1>2. m.tipo = "caja"
  OBVIOUS
<1> HIDE DEF m, e
<1>3. Cajas(<<m>>) = {m.num} /\ m.num \in Cajas(sesiones[s].sube)
  BY <1>1, <1>2, UnaCaja
<1>4. Esta(<<"sube", s>>, m.num)
  BY <1>3, EstaEn
<1>5. \A t \in Ids : \A k : k \in Cajas(e[t].sube) <=> k \in Cajas(sesiones[t].sube) /\ ~(t = s /\ k = m.num)
  BY <1>1, <1>3
<1>. QED  BY <1>1, <1>3, <1>4, <1>5 DEF m, e

LEMMA LeeCajaSinNadie ==
  ASSUME IInv, NEW s \in Ids, sesiones[s].sube # << >>, Head(sesiones[s].sube).tipo = "caja",
         sesiones' = Leido(s), perdidas' = perdidas \cup {Head(sesiones[s].sube).num},
         UNCHANGED <<marcable, vez, saliendo, vivos, vivo, sabe, conoce, buzon, marcando, guardado, bandeja,
                     tomadas, enviadas, fallas>>
  PROVE  IInv'
<1>. USE DEF IInv
<1>1. PICK n : n = Head(sesiones[s].sube).num
  OBVIOUS
<1>2. /\ n \in Cajas(sesiones[s].sube) /\ Esta(<<"sube", s>>, n)
      /\ sesiones' \in Seq(Sesion) /\ Len(sesiones') = Len(sesiones)
      /\ \A t \in Ids :
           /\ sesiones'[t].baja = sesiones[t].baja
           /\ Sencilla(sesiones'[t].sube) /\ Sencilla(sesiones'[t].baja)
           /\ \A k : k \in Cajas(sesiones'[t].sube) <=> k \in Cajas(sesiones[t].sube) /\ ~(t = s /\ k = n)
  BY <1>1, LeeCajaEs
<1>3. Ids' = Ids
  BY <1>2, IdsQuedan
<1>4. Tipos'
  <2>1. n \in 1 .. enviadas
    BY <1>2 DEF Cuenta
  <2>. QED  BY <1>1, <1>2, <1>3, <2>1 DEF Tipos, TypeOK
<1>5. Sencillas'
  BY <1>2, <1>3 DEF Sencillas
<1>6. PICK L : L = {n}
  OBVIOUS
<1>7. \A c, k : Esta(c, k)' => Esta(c, k)
  <2>. SUFFICES ASSUME NEW c, NEW k, Esta(c, k)' PROVE Esta(c, k)
    OBVIOUS
  <2>1. \A t \in Ids : /\ k \in Cajas(sesiones'[t].sube) => k \in Cajas(sesiones[t].sube)
                       /\ k \in Cajas(sesiones'[t].baja) => k \in Cajas(sesiones[t].baja)
    BY <1>2
  <2>. QED  BY <1>3, <2>1 DEF Esta, EnSesion
<1>8. \A c, k : k \notin L => (Esta(c, k)' <=> Esta(c, k))
  <2>. SUFFICES ASSUME NEW c, NEW k, k \notin L PROVE Esta(c, k)' <=> Esta(c, k)
    OBVIOUS
  <2>1. \A t \in Ids : /\ k \in Cajas(sesiones'[t].sube) <=> k \in Cajas(sesiones[t].sube)
                       /\ k \in Cajas(sesiones'[t].baja) <=> k \in Cajas(sesiones[t].baja)
    BY <1>2, <1>6
  <2>. QED  BY <1>3, <2>1 DEF Esta, EnSesion
<1>9. \A k \in L : \E c : Esta(c, k) /\ ~Esta(c, k)'
  <2>1. ~Esta(<<"sube", s>>, n)'
    BY <1>2, <1>3 DEF Esta, EnSesion
  <2>. QED  BY <1>2, <1>6, <2>1
<1>10. SePierden(L)
  BY <1>1, <1>6, <1>7, <1>8, <1>9 DEF SePierden
<1>. QED  BY <1>4, <1>5, <1>10, Perder

LEMMA LeeCajaSigue ==
  ASSUME IInv, NEW s \in Ids, NEW v \in Ids,
         sesiones[s].sube # << >>, Head(sesiones[s].sube).tipo = "caja",
         sesiones' = Baja(Leido(s), v, <<Head(sesiones[s].sube)>>),
         perdidas' = perdidas \cup CaeEn(v, <<Head(sesiones[s].sube)>>),
         UNCHANGED <<marcable, vez, saliendo, vivos, vivo, sabe, conoce, buzon, marcando, guardado, bandeja,
                     tomadas, enviadas, fallas>>
  PROVE  IInv'
<1>. USE DEF IInv
<1> DEFINE m == Head(sesiones[s].sube)
<1> DEFINE e == Leido(s)
<1> DEFINE r == <<m>>
<1>1. PICK n : n = m.num
  OBVIOUS
<1>2. /\ m \in Mensajes /\ Cajas(r) = {n} /\ n \in Cajas(sesiones[s].sube) /\ Esta(<<"sube", s>>, n)
      /\ e \in Seq(Sesion) /\ Len(e) = Len(sesiones)
      /\ \A t \in Ids :
           /\ e[t].sana = sesiones[t].sana /\ e[t].baja = sesiones[t].baja
           /\ Sencilla(e[t].sube) /\ Sencilla(e[t].baja)
           /\ \A k : k \in Cajas(e[t].sube) <=> k \in Cajas(sesiones[t].sube) /\ ~(t = s /\ k = n)
  BY <1>1, LeeCajaEs
<1>3. sesiones' = Baja(e, v, r) /\ perdidas' = perdidas \cup CaeEn(v, r)
  OBVIOUS
<1>4. r \in Seq(Mensajes) /\ Sencilla(r)
  BY <1>2, CajasUna
<1>5. Ids = 1 .. Len(sesiones) /\ sesiones \in Seq(Sesion)
  BY IdsSon DEF Tipos, TypeOK
<1> HIDE DEF m, e, r
<1>6. /\ sesiones' \in Seq(Sesion) /\ Len(sesiones') = Len(sesiones)
      /\ \A t \in Ids : /\ sesiones'[t].sube = e[t].sube
                        /\ t # v => sesiones'[t].baja = sesiones[t].baja
      /\ Sencilla(sesiones'[v].baja)
      /\ Cajas(sesiones'[v].baja) = Cajas(sesiones[v].baja) \cup (IF sesiones[v].sana THEN {n} ELSE {})
  <2>1. v \in 1 .. Len(e) /\ e \in Seq(Sesion)
    BY <1>2, <1>5
  <2>2. Sencilla(e[v].baja) /\ Sencilla(r) /\ r \in Seq(Mensajes)
    BY <1>2, <1>4
  <2>3. Cajas(e[v].baja) \cap Cajas(r) = {}
    <3>1. Cajas(sesiones[s].sube) \cap Cajas(sesiones[v].baja) = {}
      BY Aparte
    <3>. QED  BY <1>2, <3>1
  <2>4. /\ Baja(e, v, r) \in Seq(Sesion) /\ Len(Baja(e, v, r)) = Len(e)
        /\ \A t \in 1 .. Len(e) : /\ Baja(e, v, r)[t].sube = e[t].sube
                                  /\ t # v => Baja(e, v, r)[t].baja = e[t].baja
        /\ Sencilla(Baja(e, v, r)[v].baja)
        /\ Cajas(Baja(e, v, r)[v].baja) = Cajas(e[v].baja) \cup (IF e[v].sana THEN Cajas(r) ELSE {})
    BY <2>1, <2>2, <2>3, BajaCon
  <2>. QED  BY <1>2, <1>3, <1>5, <2>4
<1>7. Ids' = Ids
  BY <1>6, IdsQuedan
<1>8. \A t \in Ids : Sencilla(sesiones'[t].sube) /\ Sencilla(sesiones'[t].baja)
  BY <1>2, <1>6 DEF Sencillas
<1>9. \A t \in Ids : \A k : /\ k \in Cajas(sesiones'[t].sube) <=> k \in Cajas(sesiones[t].sube) /\ ~(t = s /\ k = n)
                            /\ k \in Cajas(sesiones'[t].baja) <=>
                                 k \in Cajas(sesiones[t].baja) \/ (t = v /\ k = n /\ sesiones[v].sana)
  <2>1. \A t \in Ids : \A k : k \in Cajas(sesiones'[t].sube) <=> k \in Cajas(sesiones[t].sube) /\ ~(t = s /\ k = n)
    BY <1>2, <1>6
  <2>2. \A k : k \in Cajas(sesiones'[v].baja) <=> k \in Cajas(sesiones[v].baja) \/ (k = n /\ sesiones[v].sana)
    BY <1>6
  <2>3. \A t \in Ids : t # v => Cajas(sesiones'[t].baja) = Cajas(sesiones[t].baja)
    BY <1>6
  <2>. QED  BY <2>1, <2>2, <2>3
<1>10. perdidas' = perdidas \cup (IF sesiones[v].sana THEN {} ELSE {n})
  BY <1>2, <1>3 DEF CaeEn
<1>11. Tipos'
  <2>1. n \in 1 .. enviadas
    BY <1>2 DEF Cuenta
  <2>. QED  BY <1>6, <1>7, <1>10, <2>1 DEF Tipos, TypeOK
<1>12. Sencillas'
  BY <1>7, <1>8 DEF Sencillas
<1>13. \A c, k : k # n => (Esta(c, k)' <=> Esta(c, k))
  <2>. SUFFICES ASSUME NEW c, NEW k, k # n PROVE Esta(c, k)' <=> Esta(c, k)
    OBVIOUS
  <2>1. \A t \in Ids : /\ k \in Cajas(sesiones'[t].sube) <=> k \in Cajas(sesiones[t].sube)
                       /\ k \in Cajas(sesiones'[t].baja) <=> k \in Cajas(sesiones[t].baja)
    BY <1>9
  <2>. QED  BY <1>7, <2>1 DEF Esta, EnSesion
<1>14. ~Esta(<<"sube", s>>, n)'
  BY <1>7, <1>9 DEF Esta, EnSesion
<1>15. \A c : Esta(c, n)' => Esta(c, n) \/ (c = <<"baja", v>> /\ sesiones[v].sana)
  <2>. SUFFICES ASSUME NEW c, Esta(c, n)' PROVE Esta(c, n) \/ (c = <<"baja", v>> /\ sesiones[v].sana)
    OBVIOUS
  <2>1. \A t \in Ids : /\ n \in Cajas(sesiones'[t].sube) => n \in Cajas(sesiones[t].sube)
                       /\ n \in Cajas(sesiones'[t].baja) =>
                            n \in Cajas(sesiones[t].baja) \/ (t = v /\ sesiones[v].sana)
    BY <1>9
  <2>. QED  BY <1>7, <2>1 DEF Esta, EnSesion
<1>16. CASE sesiones[v].sana
  <2>1. PICK S, D, M : S = <<"sube", s>> /\ D = <<"baja", v>> /\ M = {n}
    OBVIOUS
  <2>2. \A k \in M : Esta(S, k)
    BY <1>2, <2>1
  <2>3. \A c, k : k \notin M => (Esta(c, k)' <=> Esta(c, k))
    BY <1>13, <2>1
  <2>4. \A k \in M : Esta(D, k)'
    <3>1. Esta(<<"baja", v>>, n)'
      BY <1>7, <1>9, <1>16 DEF Esta, EnSesion
    <3>. QED  BY <2>1, <3>1
  <2>5. \A c, k : k \in M /\ Esta(c, k)' => c = D \/ (c # S /\ Esta(c, k))
    BY <1>14, <1>15, <2>1
  <2>6. perdidas' = perdidas
    BY <1>10, <1>16
  <2>7. Cuenta'
    BY <2>2, <2>3, <2>4, <2>5, <2>6, MuevenTodos
  <2>. QED  BY <1>11, <1>12, <2>7
<1>17. CASE ~sesiones[v].sana
  <2>1. PICK L : L = {n}
    OBVIOUS
  <2>2. \A c, k : Esta(c, k)' => Esta(c, k)
    BY <1>13, <1>15, <1>17
  <2>3. \A k \in L : \E c : Esta(c, k) /\ ~Esta(c, k)'
    BY <1>2, <1>14, <2>1
  <2>4. perdidas' = perdidas \cup L
    BY <1>10, <1>17, <2>1
  <2>5. SePierden(L)
    BY <1>13, <2>1, <2>2, <2>3, <2>4 DEF SePierden
  <2>6. Cuenta'
    BY <2>5, Perder
  <2>. QED  BY <1>11, <1>12, <2>6
<1>. QED  BY <1>16, <1>17

LEMMA LeeCajaEspera ==
  ASSUME IInv, NEW s \in Ids, NEW x \in Nodos,
         sesiones[s].sube # << >>, Head(sesiones[s].sube).tipo = "caja", sesiones' = Leido(s),
         buzon' = [buzon EXCEPT ![x] = Encola(@, Head(sesiones[s].sube), MaxBuzon)],
         perdidas' = perdidas \cup Desborda(buzon[x], MaxBuzon),
         UNCHANGED <<marcable, vez, saliendo, vivos, vivo, sabe, conoce, marcando, guardado, bandeja,
                     tomadas, enviadas, fallas>>
  PROVE  IInv'
<1>. USE DEF IInv
<1> DEFINE m == Head(sesiones[s].sube)
<1> DEFINE L == Desborda(buzon[x], MaxBuzon)
<1> DEFINE b == Encola(buzon[x], m, MaxBuzon)
<1>1. PICK n : n = m.num
  OBVIOUS
<1>2. /\ m \in Mensajes /\ Cajas(<<m>>) = {n} /\ n \in Cajas(sesiones[s].sube) /\ Esta(<<"sube", s>>, n)
      /\ sesiones' \in Seq(Sesion) /\ Len(sesiones') = Len(sesiones)
      /\ \A t \in Ids :
           /\ sesiones'[t].baja = sesiones[t].baja
           /\ Sencilla(sesiones'[t].sube) /\ Sencilla(sesiones'[t].baja)
           /\ \A k : k \in Cajas(sesiones'[t].sube) <=> k \in Cajas(sesiones[t].sube) /\ ~(t = s /\ k = n)
  BY <1>1, LeeCajaEs
<1>3. Ids' = Ids
  BY <1>2, IdsQuedan
<1>4. buzon' = [buzon EXCEPT ![x] = b] /\ perdidas' = perdidas \cup L
  OBVIOUS
<1> HIDE DEF m
<1>5. buzon \in [Nodos -> Seq(Mensajes)] /\ \A y \in Nodos : Len(buzon[y]) <= MaxBuzon /\ Sencilla(buzon[y])
  BY DEF Tipos, TypeOK, Sencillas
<1>6. n \notin Cajas(buzon[x])
  <2>1. Cajas(sesiones[s].sube) \cap Cajas(buzon[x]) = {}
    BY Aparte
  <2>. QED  BY <1>2, <2>1
<1>7. b \in Seq(Mensajes) /\ Len(b) <= MaxBuzon /\ Sencilla(b) /\ L \subseteq Cajas(buzon[x])
      /\ Cajas(b) = (Cajas(buzon[x]) \ L) \cup {n}
  <2>1. buzon[x] \in Seq(Mensajes) /\ Sencilla(buzon[x]) /\ Len(buzon[x]) <= MaxBuzon /\ MaxBuzon \in Nat \ {0}
    BY <1>5, RedAssumption
  <2>2. Cajas(<<m>>) \cap Cajas(buzon[x]) = {} /\ m \in Mensajes
    BY <1>2, <1>6
  <2>3. /\ b \in Seq(Mensajes) /\ Len(b) <= MaxBuzon /\ Sencilla(b) /\ L \subseteq Cajas(buzon[x])
        /\ Cajas(b) = (Cajas(buzon[x]) \ L) \cup Cajas(<<m>>)
    BY <2>1, <2>2, Encolada
  <2>. QED  BY <1>2, <2>3
<1> HIDE DEF L, b
<1>8. /\ buzon' \in [Nodos -> Seq(Mensajes)] /\ buzon'[x] = b
      /\ \A y \in Nodos : y # x => buzon'[y] = buzon[y]
  BY <1>4, <1>5, <1>7
<1>9. \A y \in Nodos : \A k : k \in Cajas(buzon'[y]) <=>
        (k \in Cajas(buzon[y]) /\ ~(y = x /\ k \in L)) \/ (y = x /\ k = n)
  BY <1>7, <1>8
<1>10. (\A k \in L : Esta(<<"buzon", x>>, k)) /\ n \notin L
  BY <1>6, <1>7, EstaEn
<1>11. Tipos'
  <2>1. L \subseteq 1 .. enviadas
    BY <1>10 DEF Cuenta
  <2>2. \A y \in Nodos : Len(buzon'[y]) <= MaxBuzon
    BY <1>5, <1>7, <1>8
  <2>. QED  BY <1>2, <1>3, <1>4, <1>8, <2>1, <2>2 DEF Tipos, TypeOK
<1>12. Sencillas'
  <2>1. \A y \in Nodos : Sencilla(buzon'[y])
    BY <1>5, <1>7, <1>8
  <2>. QED  BY <1>2, <1>3, <2>1 DEF Sencillas
<1>13. \A t \in Ids : \A k : /\ k \in Cajas(sesiones'[t].sube) <=> k \in Cajas(sesiones[t].sube) /\ ~(t = s /\ k = n)
                             /\ k \in Cajas(sesiones'[t].baja) <=> k \in Cajas(sesiones[t].baja)
  BY <1>2
<1>14. \A c, k : k # n /\ k \notin L => (Esta(c, k)' <=> Esta(c, k))
  <2>. SUFFICES ASSUME NEW c, NEW k, k # n, k \notin L PROVE Esta(c, k)' <=> Esta(c, k)
    OBVIOUS
  <2>1. \A t \in Ids : /\ k \in Cajas(sesiones'[t].sube) <=> k \in Cajas(sesiones[t].sube)
                       /\ k \in Cajas(sesiones'[t].baja) <=> k \in Cajas(sesiones[t].baja)
    BY <1>13
  <2>2. \A y \in Nodos : k \in Cajas(buzon'[y]) <=> k \in Cajas(buzon[y])
    BY <1>9
  <2>. QED  BY <1>3, <2>1, <2>2 DEF Esta, EnSesion
<1>15. \A c : Esta(c, n)' => c = <<"buzon", x>> \/ Esta(c, n)
  <2>. SUFFICES ASSUME NEW c, Esta(c, n)' PROVE c = <<"buzon", x>> \/ Esta(c, n)
    OBVIOUS
  <2>1. \A t \in Ids : /\ n \in Cajas(sesiones'[t].sube) => n \in Cajas(sesiones[t].sube)
                       /\ n \in Cajas(sesiones'[t].baja) => n \in Cajas(sesiones[t].baja)
    BY <1>13
  <2>2. \A y \in Nodos : n \in Cajas(buzon'[y]) => y = x \/ n \in Cajas(buzon[y])
    BY <1>9
  <2>. QED  BY <1>3, <2>1, <2>2 DEF Esta, EnSesion
<1>16. ~Esta(<<"sube", s>>, n)'
  BY <1>3, <1>13 DEF Esta, EnSesion
<1>17. Esta(<<"buzon", x>>, n)'
  BY <1>9 DEF Esta
<1>18. ASSUME NEW k \in L
       PROVE  /\ ~Esta(<<"buzon", x>>, k)' /\ ~Esta(<<"sube", s>>, k)
              /\ \A c : Esta(c, k)' => Esta(c, k)
  <2>1. \A t \in Ids : /\ k \in Cajas(sesiones'[t].sube) => k \in Cajas(sesiones[t].sube)
                       /\ k \in Cajas(sesiones'[t].baja) => k \in Cajas(sesiones[t].baja)
    BY <1>13
  <2>2. \A y \in Nodos : k \in Cajas(buzon'[y]) => y # x /\ k \in Cajas(buzon[y])
    BY <1>9, <1>10
  <2>3. ~Esta(<<"buzon", x>>, k)'
    BY <2>2 DEF Esta, EnSesion
  <2>4. \A c : Esta(c, k)' => Esta(c, k)
    BY <1>3, <2>1, <2>2 DEF Esta, EnSesion
  <2>5. ~Esta(<<"sube", s>>, k)
    <3>1. <<"sube", s>> # <<"buzon", x>>
      OBVIOUS
    <3>. QED  BY <1>10, <3>1 DEF Cuenta
  <2>. QED  BY <2>3, <2>4, <2>5
<1>19. PICK D, F, M, N : /\ D = <<"buzon", x>> /\ F = {<<"sube", s>>, <<"buzon", x>>}
                         /\ M = {n} /\ N = L
  OBVIOUS
<1>20. Traslado(M, N, D, F)
  <2>1. \A k \in M \cup N : \E f \in F : Esta(f, k)
    BY <1>2, <1>10, <1>19
  <2>2. \A c, k : k \notin M \cup N => (Esta(c, k)' <=> Esta(c, k))
    BY <1>14, <1>19
  <2>3. \A k \in M : Esta(D, k)'
    BY <1>17, <1>19
  <2>4. \A c, k : k \in M \cup N /\ Esta(c, k)' => (k \in M /\ c = D) \/ (c \notin F /\ Esta(c, k))
    <3>1. ASSUME NEW c, Esta(c, n)' PROVE c = D \/ (c \notin F /\ Esta(c, n))
      BY <1>15, <1>16, <1>19, <3>1
    <3>2. ASSUME NEW c, NEW k \in N, Esta(c, k)' PROVE c \notin F /\ Esta(c, k)
      BY <1>18, <1>19, <3>2
    <3>. QED  BY <1>19, <3>1, <3>2
  <2>5. M \cap N = {} /\ perdidas' = perdidas \cup N /\ enviadas' = enviadas
    BY <1>4, <1>10, <1>19
  <2>. QED  BY <2>1, <2>2, <2>3, <2>4, <2>5 DEF Traslado
<1>21. Cuenta'
  BY <1>20, Mueve
<1>. QED  BY <1>11, <1>12, <1>21

LEMMA PasoLeeCaja == ASSUME IInv, NEW s \in Ids, LeeCaja(s) PROVE IInv'
<1> DEFINE m == Head(sesiones[s].sube)
<1> DEFINE x == sabe[Receptor]
<1> DEFINE v == vivos[x]
<1>1. /\ sesiones[s].sube # << >> /\ m.tipo = "caja"
      /\ UNCHANGED <<marcable, vez, saliendo, vivos, vivo, sabe, conoce, marcando, guardado, bandeja, tomadas,
                     enviadas, fallas>>
  BY DEF LeeCaja, estado
<1>2. \/ sesiones' = Leido(s) /\ perdidas' = perdidas \cup {m.num} /\ UNCHANGED buzon
      \/ /\ x # Nada /\ v # Nada /\ sesiones' = Baja(Leido(s), v, <<m>>)
         /\ perdidas' = perdidas \cup CaeEn(v, <<m>>) /\ UNCHANGED buzon
      \/ /\ x # Nada /\ sesiones' = Leido(s) /\ buzon' = [buzon EXCEPT ![x] = Encola(@, m, MaxBuzon)]
         /\ perdidas' = perdidas \cup Desborda(buzon[x], MaxBuzon)
  BY DEF LeeCaja
<1>3. x \in Nodos \cup {Nada} /\ (x # Nada => v \in Ids \cup {Nada})
  BY DEF IInv, Tipos, TypeOK, Personas
<1>4. CASE sesiones' = Leido(s) /\ perdidas' = perdidas \cup {m.num} /\ UNCHANGED buzon
  BY <1>1, <1>4, LeeCajaSinNadie
<1>5. CASE /\ x # Nada /\ v # Nada /\ sesiones' = Baja(Leido(s), v, <<m>>)
           /\ perdidas' = perdidas \cup CaeEn(v, <<m>>) /\ UNCHANGED buzon
  <2>1. v \in Ids
    BY <1>3, <1>5
  <2> HIDE DEF v
  <2>. QED  BY <1>1, <1>5, <2>1, LeeCajaSigue
<1>6. CASE /\ x # Nada /\ sesiones' = Leido(s) /\ buzon' = [buzon EXCEPT ![x] = Encola(@, m, MaxBuzon)]
           /\ perdidas' = perdidas \cup Desborda(buzon[x], MaxBuzon)
  <2>1. x \in Nodos
    BY <1>3, <1>6
  <2> HIDE DEF x
  <2>. QED  BY <1>1, <1>6, <2>1, LeeCajaEspera
<1>. QED  BY <1>2, <1>4, <1>5, <1>6

-----------------------------------------------------------------------------
(* The theorems.                                                           *)
LEMMA Continua == ASSUME IInv, [Next]_vars PROVE IInv'
<1>1. CASE UNCHANGED vars
  <2>0. UNCHANGED <<marcable, vez, sesiones, saliendo, vivos, vivo, sabe, conoce, buzon, marcando, guardado,
                    bandeja, tomadas, perdidas, enviadas, fallas>>
    BY <1>1 DEF vars, estado
  <2>1. Ids' = Ids
    BY <2>0 DEF Ids
  <2>2. Tipos'
    BY <2>0, <2>1 DEF IInv, Tipos, TypeOK
  <2>3. Sencillas'
    BY <2>0, <2>1 DEF IInv, Sencillas
  <2>4. \A c, k : Esta(c, k)' <=> Esta(c, k)
    BY <2>0, <2>1 DEF Esta, EnSesion
  <2>5. Cuenta'
    BY <2>0, <2>4, NadaSeMueve DEF IInv
  <2>. QED  BY <2>2, <2>3, <2>5 DEF IInv
<1>2. ASSUME NEW s \in Ids, Paso(s) PROVE IInv'
  BY <1>2, PasoLeeHola, PasoSaludar, PasoLeeSoy, PasoLeeCaja, PasoOyeHola, PasoOyeSoy, PasoOyeCaja,
     PasoNotaSala, PasoNotaPrograma DEF Paso
<1>3. ASSUME NEW s \in Ids, Romper(s) PROVE IInv'
  BY <1>3, PasoRomper
<1>4. ASSUME NEW n \in marcando, Marcado(n) \/ NoMarcado(n) PROVE IInv'
  BY <1>4, PasoMarcado, PasoNoMarcado
<1>5. ASSUME NEW p \in Personas, Abrir(p) \/ Renacer(p) PROVE IInv'
  BY <1>5, PasoAbrir, PasoRenacer
<1>6. ASSUME Enviar \/ Tomar PROVE IInv'
  BY <1>6, PasoEnviar, PasoTomar
<1>7. Next \/ UNCHANGED vars
  OBVIOUS
<1>. QED  BY <1>1, <1>2, <1>3, <1>4, <1>5, <1>6, <1>7 DEF Next

(* Every reachable state satisfies the inductive invariant.                *)
THEOREM Invariante == Spec => []IInv
<1>1. IInv /\ [Next]_vars => IInv'
  BY Continua
<1>. QED  BY <1>1, Empieza, PTL DEF Spec

(* The keys of the queues, and the queue of each.                          *)
LEMMA Claves ==
  ASSUME NEW c
  PROVE  c \in Colas <=>
           \/ c = <<"tomadas", 0>> \/ c = <<"bandeja", 0>> \/ c = <<"guardado", 0>>
           \/ \E j \in marcando : c = <<"dial", j>>
           \/ \E x \in Nodos : c = <<"buzon", x>>
           \/ \E s \in Ids : c = <<"sube", s>> \/ c = <<"baja", s>> \/ c = <<"saliendo", s>>
  BY DEF Colas

LEMMA ColaEs ==
  /\ Cola(<<"tomadas", 0>>) = tomadas /\ Cola(<<"bandeja", 0>>) = bandeja /\ Cola(<<"guardado", 0>>) = guardado
  /\ \A j : Cola(<<"dial", j>>) = <<Caja(j)>>
  /\ \A x : Cola(<<"buzon", x>>) = buzon[x]
  /\ \A s : /\ Cola(<<"sube", s>>) = sesiones[s].sube /\ Cola(<<"baja", s>>) = sesiones[s].baja
            /\ Cola(<<"saliendo", s>>) = saliendo[s]
  BY DEF Cola

LEMMA PuestoDe ==
  ASSUME IInv, NEW k, NEW c \in Colas
  PROVE  Cola(c) \in Seq(Mensajes) /\ Sencilla(Cola(c)) /\ (k \in Cajas(Cola(c)) <=> Esta(c, k))
<1>. USE DEF IInv
<1>1. /\ tomadas \in Seq(Mensajes) /\ Sencilla(tomadas) /\ bandeja \in Seq(Mensajes) /\ Sencilla(bandeja)
      /\ guardado \in Seq(Mensajes) /\ Sencilla(guardado)
      /\ \A x \in Nodos : buzon[x] \in Seq(Mensajes) /\ Sencilla(buzon[x])
      /\ \A s \in Ids : saliendo[s] \in Seq(Mensajes) /\ Sencilla(saliendo[s])
      /\ marcando \subseteq 1 .. MaxMensajes
  <2>1. marcando \subseteq 1 .. enviadas /\ enviadas \in 0 .. MaxMensajes /\ MaxMensajes \in Nat
    BY RedAssumption DEF Tipos, TypeOK
  <2>2. marcando \subseteq 1 .. MaxMensajes
    BY <2>1
  <2>. QED  BY <2>2 DEF Tipos, TypeOK, Sencillas
<1>2. CASE c = <<"tomadas", 0>>
  BY <1>1, <1>2, ColaEs, EstaEn
<1>3. CASE c = <<"bandeja", 0>>
  BY <1>1, <1>3, ColaEs, EstaEn
<1>4. CASE c = <<"guardado", 0>>
  BY <1>1, <1>4, ColaEs, EstaEn
<1>5. ASSUME NEW j \in marcando, c = <<"dial", j>>
      PROVE  Cola(c) \in Seq(Mensajes) /\ Sencilla(Cola(c)) /\ (k \in Cajas(Cola(c)) <=> Esta(c, k))
  <2>1. <<Caja(j)>> \in Seq(Mensajes) /\ Sencilla(<<Caja(j)>>) /\ Cajas(<<Caja(j)>>) = {j}
    BY <1>1, CajaEs
  <2>2. Cola(c) = <<Caja(j)>>
    BY <1>5, ColaEs
  <2>3. Esta(c, k) <=> k = j
    BY <1>5 DEF Esta, EnSesion
  <2>. QED  BY <2>1, <2>2, <2>3
<1>6. ASSUME NEW x \in Nodos, c = <<"buzon", x>>
      PROVE  Cola(c) \in Seq(Mensajes) /\ Sencilla(Cola(c)) /\ (k \in Cajas(Cola(c)) <=> Esta(c, k))
  BY <1>1, <1>6, ColaEs, EstaEn
<1>7. ASSUME NEW s \in Ids, c = <<"sube", s>> \/ c = <<"baja", s>> \/ c = <<"saliendo", s>>
      PROVE  Cola(c) \in Seq(Mensajes) /\ Sencilla(Cola(c)) /\ (k \in Cajas(Cola(c)) <=> Esta(c, k))
  <2>1. sesiones[s] \in Sesion
    BY IdsSon, ElementOfSeq DEF Tipos, TypeOK
  <2>2. /\ sesiones[s].sube \in Seq(Mensajes) /\ Sencilla(sesiones[s].sube)
        /\ sesiones[s].baja \in Seq(Mensajes) /\ Sencilla(sesiones[s].baja)
    BY <2>1 DEF Sesion, Sencillas
  <2>3. /\ Esta(<<"sube", s>>, k) <=> k \in Cajas(sesiones[s].sube)
        /\ Esta(<<"baja", s>>, k) <=> k \in Cajas(sesiones[s].baja)
        /\ Esta(<<"saliendo", s>>, k) <=> k \in Cajas(saliendo[s])
    BY EstaEn
  <2>. QED  BY <1>1, <1>7, <2>2, <2>3, ColaEs
<1>. QED  BY <1>2, <1>3, <1>4, <1>5, <1>6, <1>7, Claves

LEMMA EstaEnColas == ASSUME NEW c, NEW k, Esta(c, k) PROVE c \in Colas
  BY Claves DEF Esta, EnSesion

(* The places of a message, one by one.                                    *)
LEMMA LugarEs ==
  ASSUME NEW k, NEW l
  PROVE  l \in Lugares(k) <=>
           \E c \in Colas : \E i \in DOMAIN Cola(c) : l = <<c, i>> /\ Cola(c)[i] = Caja(k)
  BY DEF Lugares

LEMMA EnUnLugar == IInv => UnaVez
<1>. SUFFICES ASSUME IInv, NEW k \in 1 .. enviadas
              PROVE  Cardinality(Lugares(k)) = IF k \in perdidas THEN 0 ELSE 1
  BY DEF UnaVez
<1>1. \A c \in Colas : /\ Cola(c) \in Seq(Mensajes) /\ Sencilla(Cola(c))
                       /\ k \in Cajas(Cola(c)) <=> Esta(c, k)
  BY PuestoDe
<1>2. \A c \in Colas : Esta(c, k) <=> \E i \in DOMAIN Cola(c) : Cola(c)[i] = Caja(k)
  BY <1>1, CajasEs, LenProperties
<1>3. CASE k \in perdidas
  <2>1. \A c : ~Esta(c, k)
    BY <1>3 DEF IInv, Cuenta
  <2>2. Lugares(k) = {}
    BY <1>2, <2>1, LugarEs
  <2>. QED  BY <1>3, <2>2, FS_EmptySet
<1>4. CASE k \notin perdidas
  <2>1. PICK c : Esta(c, k)
    BY <1>4 DEF IInv, Cuenta
  <2>2. c \in Colas
    BY <2>1, EstaEnColas
  <2>3. PICK i \in DOMAIN Cola(c) : Cola(c)[i] = Caja(k)
    BY <1>2, <2>1, <2>2
  <2>4. \A d \in Colas : \A j \in DOMAIN Cola(d) : Cola(d)[j] = Caja(k) => d = c /\ j = i
    <3>. SUFFICES ASSUME NEW d \in Colas, NEW j \in DOMAIN Cola(d), Cola(d)[j] = Caja(k)
                  PROVE  d = c /\ j = i
      OBVIOUS
    <3>1. Esta(d, k)
      BY <1>2
    <3>2. d = c
      BY <2>1, <3>1 DEF IInv, Cuenta
    <3>3. Caja(k).tipo = "caja"
      BY DEF Caja
    <3>. QED  BY <1>1, <2>3, <3>2, <3>3 DEF Sencilla
  <2>5. Lugares(k) = {<<c, i>>}
    BY <2>2, <2>3, <2>4, LugarEs
  <2>. QED  BY <1>4, <2>5, FS_Singleton
<1>. QED  BY <1>3, <1>4

(* For any number of sessions, messages, breaks and restarts, and queues   *)
(* of any size, a message is in one place until it is lost: it is neither  *)
(* dropped without a cause nor written twice (dht.rs).                     *)
THEOREM EnUnSoloLugar == Spec => []UnaVez
  BY Invariante, EnUnLugar, PTL

(* Every queue keeps its messages and its limit, every live session is     *)
(* one that was opened, and what was lost was sent.                        *)
THEOREM TiposDeLaRed == Spec => []TypeOK
<1>1. IInv => TypeOK
  BY DEF IInv, Tipos
<1>. QED  BY <1>1, Invariante, PTL

(* The room forgets a session only when its own broke.                     *)
LEMMA NoSuelta ==
  ASSUME IInv, [Next]_vars, NEW x \in Nodos, vivos[x] # Nada, vivos'[x] = Nada
  PROVE  ~sesiones[vivos[x]].sana
<1>. USE DEF IInv
<1>1. vivos' # vivos
  OBVIOUS
<1>2. Nada \notin Ids
  BY IdsSon, RedAssumption
<1>3. ASSUME NEW s \in Ids, LeeHola(s) PROVE FALSE
  <2>1. vivos' = [vivos EXCEPT ![sesiones[s].de] = s]
    BY <1>3 DEF LeeHola, Registrar
  <2>2. vivos'[x] = s \/ vivos'[x] = vivos[x]
    BY <2>1 DEF Tipos, TypeOK
  <2>. QED  BY <1>2, <2>2
<1>4. ASSUME NEW s \in Ids, NotaSala(s) PROVE ~sesiones[vivos[x]].sana
  <2>1. ~sesiones[s].sana /\ vivos' = [vivos EXCEPT ![sesiones[s].de] = IF @ = s THEN Nada ELSE @]
    BY <1>4 DEF NotaSala, Suelta
  <2>2. vivos[x] = s
    BY <2>1 DEF Tipos, TypeOK
  <2>. QED  BY <2>1, <2>2
<1>5. ASSUME NEW s \in Ids, Paso(s) PROVE LeeHola(s) \/ NotaSala(s)
  BY <1>1, <1>5 DEF Paso, Saludar, LeeSoy, LeeCaja, OyeHola, OyeSoy, OyeCaja, NotaPrograma, estado
<1>6. ASSUME NEW s \in Ids, Romper(s) PROVE FALSE
  BY <1>1, <1>6 DEF Romper, estado
<1>7. ASSUME NEW n \in marcando, Marcado(n) \/ NoMarcado(n) PROVE FALSE
  BY <1>1, <1>7 DEF Marcado, NoMarcado, estado
<1>8. ASSUME NEW p \in Personas, Abrir(p) \/ Renacer(p) PROVE FALSE
  BY <1>1, <1>8 DEF Abrir, Renacer, estado
<1>9. ~Enviar /\ ~Tomar /\ ~UNCHANGED vars
  BY <1>1 DEF Enviar, Tomar, estado, vars
<1>. QED  BY <1>3, <1>4, <1>5, <1>6, <1>7, <1>8, <1>9 DEF Next

(* The end of an older session never takes the newer one with it           *)
(* (Guard::drop in dht.rs), however late each end notices.                 *)
THEOREM LaNuevaQueda == Spec => NoSueltaLaNueva
<1>1. IInv /\ [Next]_vars =>
        [\A x \in Nodos : vivos[x] # Nada /\ vivos'[x] = Nada => ~sesiones[vivos[x]].sana]_vars
  BY NoSuelta
<1>. QED  BY <1>1, Invariante, PTL DEF Spec, NoSueltaLaNueva

-----------------------------------------------------------------------------
Estados == {"Ausente", "Arrancando", "Listo", "Fallo"}
Diagnosticos == {"SinSocks", "SinProbar", "SocksCaido", "SocksOk", "DestinoNoResponde", "Conectado"}
Snap == [estado : Estados, socks : BOOLEAN, onion : BOOLEAN, hospeda : BOOLEAN, diag : Diagnosticos]
Pedidos == [paso : {"tor", "directo"}, permiso : BOOLEAN]

TorTipos ==
  /\ movil \in BOOLEAN /\ snap \in Snap
  /\ ajuste \in BOOLEAN /\ enCurso \in BOOLEAN
  /\ pedidos \in [Origenes -> Pedidos \cup {Ninguno}]

\* Without a SOCKS a desktop's tor is still coming up, or will not come.
SinTorNoHayTarea ==
  ~movil /\ ~snap.socks =>
    \/ tarea = "sube" /\ snap.estado = "Arrancando"
    \/ tarea \in {"no", "fin"}

\* The phone's tasks run on phones only.
Escritorios == ~movil => ~destino /\ llamadas = Calladas
Celulares == movil => tarea = "no"

UnoPorVez == ~enCurso => pedidos["fondo"] = Ninguno

TorInv == TorTipos /\ SinTorNoHayTarea /\ Escritorios /\ Celulares /\ UnoPorVez

USE DEF Snap, Estados, Diagnosticos

-----------------------------------------------------------------------------
LEMMA TorEmpieza == PrecioInit => TorInv
<1>. SUFFICES ASSUME PrecioInit PROVE TorInv
  OBVIOUS
<1>1. Ausente \in Snap /\ Configurada(Ausente) \in Snap /\ ~Ausente.socks /\ Ausente.estado = "Ausente"
  BY DEF Ausente, Configurada
<1>2. pedidos \in [Origenes -> Pedidos \cup {Ninguno}] /\ pedidos["fondo"] = Ninguno /\ enCurso = FALSE
      /\ ajuste \in BOOLEAN
  BY DEF PrecioInit, Origenes
<1>3. ASSUME NEW hay \in BOOLEAN, EscritorioNuevo(hay) PROVE TorInv
  <2>1. snap \in Snap /\ ((tarea = "sube" /\ snap.estado = "Arrancando") \/ tarea = "no")
    BY <1>1, <1>3 DEF EscritorioNuevo
  <2>. QED  BY <1>2, <1>3, <2>1 DEF EscritorioNuevo, TorInv, TorTipos, SinTorNoHayTarea, Escritorios,
       Celulares, UnoPorVez
<1>4. ASSUME NEW hay \in BOOLEAN, CelularNuevo(hay) PROVE TorInv
  BY <1>1, <1>2, <1>4 DEF CelularNuevo, TorInv, TorTipos, SinTorNoHayTarea, Escritorios, Celulares,
       UnoPorVez
<1>. QED  BY <1>3, <1>4 DEF PrecioInit, SalaInit

\* The desktop's task of tor: past "sube" it has a SOCKS until it ends.
LEMMA PasoEscritorio == TorInv /\ Escritorio /\ UNCHANGED precioVars => TorInv'
<1>. SUFFICES ASSUME TorInv, Escritorio, UNCHANGED precioVars PROVE TorInv'
  OBVIOUS
<1>. USE DEF TorInv
<1>0. UNCHANGED <<movil, rol, destino, llamadas, orbot>> /\ tarea \notin {"no", "fin"} /\ ~movil
      /\ UNCHANGED <<ajuste, enCurso, pedidos>>
  BY DEF Escritorio, Subir, NoSube, Elegir, AbrirSala, Publicar, Atender,
       Dejar, Buscar, Llamar, Hablar, Pasa,
         celularVars, precioVars, Celulares
<1>1. CASE Subir
  <2>1. snap' \in Snap /\ snap'.socks
    BY <1>1 DEF Subir, TorTipos
  <2>. QED  BY <1>0, <2>1 DEF TorTipos, SinTorNoHayTarea, Escritorios, Celulares, UnoPorVez
<1>2. CASE NoSube
  <2>1. snap' \in Snap /\ tarea' = "fin"
    BY <1>2 DEF NoSube, Marcar, Pasa, TorTipos
  <2>. QED  BY <1>0, <2>1 DEF TorTipos, SinTorNoHayTarea, Escritorios, Celulares, UnoPorVez
<1>3. CASE Elegir \/ AbrirSala \/ Publicar \/ Atender \/ Dejar \/ Buscar \/ Llamar \/ Hablar
  <2>1. tarea # "sube"
    BY <1>3 DEF Elegir, AbrirSala, Publicar, Atender, Dejar, Buscar, Llamar,
         Hablar
  <2>2. snap.socks
    BY <1>0, <2>1 DEF SinTorNoHayTarea, TorTipos
  <2>3. snap' \in Snap /\ snap'.socks = snap.socks
    BY <1>3 DEF Elegir, AbrirSala, Publicar, Atender, Dejar, Buscar, Llamar,
         Hablar, Marcar, SegunPares,
                TrasListo, TorTipos
  <2>. QED  BY <1>0, <2>2, <2>3 DEF TorTipos, SinTorNoHayTarea, Escritorios, Celulares, UnoPorVez
<1>. QED  BY <1>1, <1>2, <1>3 DEF Escritorio

LEMMA PasoRol == ASSUME NEW r \in Roles, TorInv, EntrarEnSala(r), UNCHANGED precioVars PROVE TorInv'
  BY DEF EntrarEnSala, celularVars, precioVars, TorInv, TorTipos, SinTorNoHayTarea,
       Escritorios, Celulares, UnoPorVez

LEMMA PasoCelular == TorInv /\ Celular /\ UNCHANGED precioVars => TorInv'
<1>. SUFFICES ASSUME TorInv, Celular, UNCHANGED precioVars PROVE TorInv'
  OBVIOUS
<1>. USE DEF TorInv
<1>1. movil
  BY DEF Celular, UsarOrbot, QuitarOrbot, OrbotCambia, Probar, Vuelta, Marca,
       Onion, Corta, Escritorios,
         Calladas, TorTipos
<1>2. UNCHANGED <<movil, rol, tarea>> /\ UNCHANGED <<ajuste, enCurso, pedidos>>
  BY DEF Celular, UsarOrbot, QuitarOrbot, OrbotCambia, Probar, Vuelta, Marca,
       Onion, Corta, Sigue,
         SinEscritorio, precioVars
<1>3. snap' \in Snap
  <2>0. snap \in Snap
    BY DEF TorTipos
  <2>1. CASE UsarOrbot \/ QuitarOrbot \/ OrbotCambia \/ Probar
    BY <2>0, <2>1 DEF UsarOrbot, QuitarOrbot, OrbotCambia, Probar, Configurada,
         SocksAcepta
  <2>2. ASSUME NEW k \in Llamadas, Vuelta(k) \/ Marca(k) \/ Onion(k) \/ Corta(k) PROVE snap' \in Snap
    BY <2>0, <2>2 DEF Vuelta, Marca, Onion, Corta, Diagnostica, SocksAcepta
  <2>. QED  BY <2>1, <2>2 DEF Celular
<1>. QED  BY <1>1, <1>2, <1>3 DEF TorTipos, SinTorNoHayTarea, Escritorios, Celulares, UnoPorVez

LEMMA NuevoEsPedido == TorInv => Nuevo \in Pedidos /\ SinTor \in Pedidos
  BY DEF TorInv, TorTipos, Nuevo, SinTor, Pedidos

LEMMA PasoPrecio == TorInv /\ Precio => TorInv'
<1>. SUFFICES ASSUME TorInv, Precio PROVE TorInv'
  OBVIOUS
<1>0. UNCHANGED <<movil, snap, tarea, destino, llamadas>>
  BY DEF Precio, Refrescar, Actualizar, ActualizarDirecto, FijarManual,
       FijarSiempre, Envejece, HayPrecio,
         NoHayPrecio, salaVars
<1>1. SinTorNoHayTarea' /\ Escritorios' /\ Celulares' /\ movil' \in BOOLEAN /\ snap' \in Snap
  BY <1>0 DEF TorInv, TorTipos, SinTorNoHayTarea, Escritorios, Celulares
<1>2. /\ ajuste' \in BOOLEAN /\ enCurso' \in BOOLEAN /\ UnoPorVez'
      /\ pedidos' \in [Origenes -> Pedidos \cup {Ninguno}]
  <2>0. /\ pedidos \in [Origenes -> Pedidos \cup {Ninguno}] /\ ajuste \in BOOLEAN /\ enCurso \in BOOLEAN
        /\ UnoPorVez /\ Nuevo \in Pedidos /\ SinTor \in Pedidos /\ Origenes = {"fondo", "panel"}
    BY NuevoEsPedido DEF TorInv, TorTipos, Origenes
  <2>1. CASE Refrescar
    BY <2>0, <2>1 DEF Refrescar, UnoPorVez
  <2>2. CASE Actualizar \/ ActualizarDirecto
    BY <2>0, <2>2 DEF Actualizar, ActualizarDirecto, UnoPorVez
  <2>3. CASE FijarManual \/ FijarSiempre \/ Envejece
    BY <2>0, <2>3 DEF FijarManual, FijarSiempre, Envejece, UnoPorVez
  <2>4. ASSUME NEW o \in Origenes, Termina(o), ajuste' = ajuste
        PROVE  /\ ajuste' \in BOOLEAN /\ enCurso' \in BOOLEAN /\ UnoPorVez'
               /\ pedidos' \in [Origenes -> Pedidos \cup {Ninguno}]
    BY <2>0, <2>4 DEF Termina, UnoPorVez
  <2>5. ASSUME NEW o \in Origenes, HayPrecio(o) \/ NoHayPrecio(o)
        PROVE  /\ ajuste' \in BOOLEAN /\ enCurso' \in BOOLEAN /\ UnoPorVez'
               /\ pedidos' \in [Origenes -> Pedidos \cup {Ninguno}]
    BY <2>0, <2>4, <2>5 DEF HayPrecio, NoHayPrecio, UnoPorVez
  <2>. QED  BY <2>1, <2>2, <2>3, <2>5 DEF Precio
<1>. QED  BY <1>1, <1>2 DEF TorInv, TorTipos

LEMMA TorContinua == TorInv /\ [PrecioNext]_nodoVars => TorInv'
<1>. SUFFICES ASSUME TorInv, [PrecioNext]_nodoVars PROVE TorInv'
  OBVIOUS
<1>1. CASE SalaNext /\ UNCHANGED precioVars
  BY <1>1, PasoEscritorio, PasoRol, PasoCelular DEF SalaNext
<1>2. CASE Precio
  BY <1>2, PasoPrecio
<1>3. CASE UNCHANGED nodoVars
  BY <1>3 DEF nodoVars, salaVars, precioVars, celularVars, TorInv, TorTipos,
       SinTorNoHayTarea, Escritorios, Celulares, UnoPorVez
<1>. QED  BY <1>1, <1>2, <1>3 DEF PrecioNext

\* The inductive invariant holds of every behaviour.
THEOREM TorInvariante == PrecioSpec => []TorInv
<1>. QED  BY TorEmpieza, TorContinua, PTL DEF PrecioSpec

-----------------------------------------------------------------------------
\* What lets a request begin without Tor, or leave it.
Consentido(o) ==
  \/ pedidos[o] = Ninguno /\ OfrecerDirecto
  \/ pedidos[o] # Ninguno /\ pedidos[o].permiso
  \/ pedidos[o] = Ninguno /\ ~snap.socks /\ (movil \/ tarea \in {"no", "fin"})

\* A request made while SocksPrecio holds goes over Tor, or Tor is not coming.
LEMMA NuevoConsentido ==
  ASSUME TorInv, SocksPrecio, NEW o \in Origenes, pedidos[o] = Ninguno, VeLaDireccion(Nuevo)
  PROVE  Consentido(o)
<1>1. ~snap.socks
  BY DEF VeLaDireccion, Nuevo
<1>2. movil \/ tarea \in {"no", "fin"}
  BY <1>1 DEF SocksPrecio, TorInv, SinTorNoHayTarea
<1>. QED  BY <1>1, <1>2 DEF Consentido

LEMMA PasoConsentido ==
  ASSUME TorInv, [PrecioNext]_nodoVars, NEW o \in Origenes, VeLaDireccion(pedidos'[o]), pedidos'[o] # pedidos[o]
  PROVE  Consentido(o)
<1>0. pedidos \in [Origenes -> Pedidos \cup {Ninguno}] /\ Origenes = {"fondo", "panel"}
      /\ (~enCurso => pedidos["fondo"] = Ninguno)
  BY DEF TorInv, TorTipos, Origenes, UnoPorVez
<1>1. CASE Refrescar
  <2>1. SocksPrecio /\ o = "fondo" /\ pedidos[o] = Ninguno /\ pedidos'[o] = Nuevo
    BY <1>0, <1>1 DEF Refrescar
  <2>. QED  BY <2>1, NuevoConsentido
<1>2. CASE Actualizar
  <2>1. SocksPrecio /\ o = "panel" /\ pedidos[o] = Ninguno /\ pedidos'[o] = Nuevo
    BY <1>0, <1>2 DEF Actualizar
  <2>. QED  BY <2>1, NuevoConsentido
<1>3. CASE ActualizarDirecto
  BY <1>0, <1>3 DEF ActualizarDirecto, Consentido
<1>4. ASSUME NEW p \in Origenes, HayPrecio(p) \/ NoHayPrecio(p) PROVE Consentido(o)
  <2>1. CASE Termina(p)
    BY <1>0, <2>1 DEF Termina, VeLaDireccion
  <2>2. CASE pedidos[p] # Ninguno /\ SigueSinTor(pedidos[p]) /\ pedidos' = [pedidos EXCEPT ![p] = SinTor]
    BY <1>0, <2>2 DEF SigueSinTor, Consentido
  <2>. QED  BY <1>4, <2>1, <2>2 DEF HayPrecio, NoHayPrecio
<1>5. CASE UNCHANGED pedidos
  BY <1>5
<1>. QED  BY <1>1, <1>2, <1>3, <1>4, <1>5
          DEF PrecioNext, Precio, FijarManual, FijarSiempre, Envejece, precioVars,
               nodoVars

\* The service of the price sees the person's address only if Tor is off,
\* absent or broken, or if the person allowed it (resolver, socks_precio).
THEOREM SoloConPermiso == PrecioSpec => DirectoConsentido
<1>1. TorInv /\ [PrecioNext]_nodoVars =>
        [\A o \in Origenes :
           (VeLaDireccion(pedidos'[o]) /\ pedidos'[o] # pedidos[o])
             => \/ pedidos[o] = Ninguno /\ OfrecerDirecto
                \/ pedidos[o] # Ninguno /\ pedidos[o].permiso
                \/ pedidos[o] = Ninguno /\ ~snap.socks /\ (movil \/ tarea \in {"no", "fin"})]_nodoVars
  BY PasoConsentido DEF Consentido
<1>. QED  BY <1>1, TorInvariante, PTL DEF PrecioSpec, DirectoConsentido
=============================================================================
