------------------------------ MODULE GastoProofs ------------------------------
(***************************************************************************)
(* The session of Gasto implements FirmaDeAmbos, whatever is lost, comes   *)
(* out of order, stops or is tried again, for any percentages and bounds.  *)
(*                                                                         *)
(* What each box signs is not compared with what its person agreed to.     *)
(* That both agreed comes from the turns: a copy shows the percentage of   *)
(* the one whose turn it is not (Ofrecido), the copies differ by one note  *)
(* at most (Parejas), and an entry that the principal's box opens because  *)
(* the other asked for it finds the percentage the other accepted, as      *)
(* nothing else can have happened before (SinEmpezar).                     *)
(*                                                                         *)
(* The second half shows that until a person goes back no broadcast        *)
(* payment is forgotten: entry and file of the principal have it (JInv).   *)
(*                                                                         *)
(* The last part is the arithmetic of the money (Reparto): what it         *)
(* computes for every amount, percentage and fee, and every width of the   *)
(* integers.                                                               *)
(***************************************************************************)
EXTENDS Gasto, Reparto, SequenceTheorems, TLAPS

Copias == [notas : Nat, pct : Pcts, turno : Partes, estado : {EnTrato, Pagada}]

Mensajes ==
  [paso : {"spend-pedir", "spend-error"}, cuerpo : {Nada}]
    \cup [paso : {"spend-open"}, cuerpo : [prop : Propuesta, pre : Ids]]
    \cup [paso : {"spend-pre"}, cuerpo : Ids]
    \cup [paso : {"spend-share"}, cuerpo : Parte]
    \cup [paso : {"spend-tx"}, cuerpo : Tx]

Trabajos ==
  [trabajo : {"anillar"}, tx : {Nada}]
    \cup [trabajo : {"ok", "rechazo", "sin-respuesta"}, tx : Tx]

Tipos ==
  /\ copia \in [Partes -> Copias]
  /\ gasto \in [Partes -> Entrada \cup {Nada}]
  /\ red \in [Partes -> Seq(Mensajes)]
  /\ ocupado \in Trabajos \cup {Nada}
  /\ cadena \subseteq Tx /\ espera \in Tx \cup {Nada}
  /\ acordado \in [Partes -> SUBSET [etapa : {1}, monto : Pcts]]
  /\ firmadas \in [Partes -> SUBSET Tx]
  /\ sesiones \in [Partes -> 0 .. MaxSesiones]
  /\ intentos \in 0 .. MaxIntentos /\ caidas \in Nat
  /\ Anillando => intentos < MaxIntentos

Monto(pct) == [etapa |-> 1, monto |-> pct]

(* Both agreed to this percentage, or a program restarted.                 *)
Acordaron(pct, ac, ca) == ca > 0 \/ \A n \in Partes : Monto(pct) \in ac[n]

(* A copy shows what the one whose turn it is not asked for.               *)
Ofrecido == \A n \in Partes : Monto(copia[n].pct) \in acordado[Otro(copia[n].turno)]

(* The copies agree, or one has a note the other waits for.                *)
Iguales == /\ copia[Mandante].notas = copia[Contratista].notas
           /\ copia[Mandante].pct = copia[Contratista].pct
           /\ copia[Mandante].turno = copia[Contratista].turno
Adelantada(n) == /\ copia[n].notas > copia[Otro(n)].notas
                 /\ copia[n].turno = Otro(n) /\ copia[Otro(n)].turno = n
Parejas == Iguales \/ \E n \in Partes : Adelantada(n)

(* What an entry and a message say was agreed to, or signed.               *)
Buena(n, g, ac, fi, ca) ==
  /\ g.propuesta # Nada => Acordaron(g.propuesta.pct, ac, ca)
  /\ g.sesion # Nada => Acordaron(g.sesion.prop.pct, ac, ca)
  /\ g.firmada # Nada => TxDe(g.firmada.prop) \in fi[n]
  /\ g.share # Nada => TxDe(g.share.prop) \in fi[Otro(n)]
  /\ "mandante" \in g.marcas => n = Mandante /\ g.pct \in Pcts /\ Acordaron(g.pct, ac, ca)
Entradas == \A n \in Partes : gasto[n] # Nada => Buena(n, gasto[n], acordado, firmadas, caidas)

Bueno(n, m, ac, fi, ca) ==
  /\ m.paso = "spend-open" => Acordaron(m.cuerpo.prop.pct, ac, ca)
  /\ m.paso = "spend-share" => TxDe(m.cuerpo.prop) \in fi[Otro(n)]
EnCamino ==
  \A n \in Partes : \A k \in DOMAIN red[n] : Bueno(n, red[n][k], acordado, firmadas, caidas)

(* The box of the principal has had no entry: all there may be is the      *)
(* request of the other, for the percentage both copies show.              *)
SinEntrada == gasto[Mandante] = Nada /\ EnPago(Mandante) /\ caidas = 0
SoloPidio ==
  LET g == gasto[Contratista] IN
  /\ copia[Contratista].turno = Contratista /\ EnPago(Contratista)
  /\ Monto(copia[Contratista].pct) \in acordado[Contratista]
  /\ g.propuesta = Nada /\ g.sesion = Nada /\ g.firmada = Nada
  /\ g.error = Nada /\ g.tx = Nada
SinEmpezar ==
  SinEntrada =>
    /\ red[Contratista] = << >>
    /\ gasto[Contratista] = Nada => red[Mandante] = << >>
    /\ gasto[Contratista] # Nada => SoloPidio
    /\ \A k \in DOMAIN red[Mandante] : red[Mandante][k].paso = "spend-pedir"

IInv ==
  /\ Tipos
  /\ Ofrecido
  /\ Parejas
  /\ Entradas
  /\ EnCamino
  /\ SinEmpezar

-----------------------------------------------------------------------------
(* Facts about the two people and about sequences.                         *)

LEMMA Dos ==
  /\ Mandante \in Partes /\ Contratista \in Partes
  /\ Otro(Mandante) = Contratista /\ Otro(Contratista) = Mandante
  /\ Mandante # Contratista
  /\ \A n \in Partes : Otro(n) \in Partes /\ Otro(n) # n /\ Otro(Otro(n)) = n
  /\ \A n \in Partes : n = Mandante \/ n = Contratista
BY GastoAssumption DEF Partes, Otro

(* A message at the end of a queue.                                        *)
LEMMA AlFinal ==
  ASSUME NEW T, NEW s \in Seq(T), NEW m \in T
  PROVE  /\ Append(s, m) \in Seq(T)
         /\ \A k \in DOMAIN Append(s, m) :
              Append(s, m)[k] = m \/ \E i \in DOMAIN s : Append(s, m)[k] = s[i]
OBVIOUS

(* A queue without one of its messages.                                    *)
LEMMA Quitado ==
  ASSUME NEW T, NEW s \in Seq(T), NEW k \in DOMAIN s
  PROVE  /\ RemoveAt(s, k) \in Seq(T)
         /\ \A j \in DOMAIN RemoveAt(s, k) : \E i \in DOMAIN s : RemoveAt(s, k)[j] = s[i]
<1>1. k \in 1 .. Len(s) /\ Len(s) \in Nat /\ DOMAIN s = 1 .. Len(s)
  BY LenProperties
<1>2. \A i \in 1 .. Len(s) : s[i] \in T
  BY ElementOfSeq
<1>. DEFINE u == SubSeq(s, 1, k - 1)
            v == SubSeq(s, k + 1, Len(s))
<1>3. u \in Seq(T) /\ Len(u) = k - 1 /\ \A j \in 1 .. k - 1 : u[j] = s[j]
  BY <1>1, <1>2, SubSeqProperties
<1>4. v \in Seq(T) /\ Len(v) = Len(s) - k /\ \A j \in 1 .. Len(s) - k : v[j] = s[k + j]
  <2>1. \A i \in k + 1 .. Len(s) : s[i] \in T
    BY <1>1, <1>2
  <2>2. /\ v \in Seq(T) /\ Len(v) = IF k + 1 <= Len(s) THEN Len(s) - (k + 1) + 1 ELSE 0
        /\ \A i \in 1 .. Len(s) - (k + 1) + 1 : v[i] = s[(k + 1) + i - 1]
    BY <2>1, <1>1, SubSeqProperties
  <2>3. Len(s) - (k + 1) + 1 = Len(s) - k /\ Len(v) = Len(s) - k
    BY <2>2, <1>1
  <2>4. ASSUME NEW j \in 1 .. Len(s) - k PROVE v[j] = s[k + j]
    <3>1. (k + 1) + j - 1 = k + j
      BY <1>1
    <3>. QED  BY <3>1, <2>2, <2>3
  <2>. QED  BY <2>2, <2>3, <2>4
<1>. HIDE DEF u, v
<1>5. /\ u \o v \in Seq(T) /\ Len(u \o v) = Len(s) - 1
      /\ \A j \in 1 .. Len(s) - 1 : (u \o v)[j] = IF j <= k - 1 THEN u[j] ELSE v[j - (k - 1)]
  <2>1. /\ u \o v \in Seq(T) /\ Len(u \o v) = Len(u) + Len(v)
        /\ \A j \in 1 .. Len(u) + Len(v) : (u \o v)[j] = IF j <= Len(u) THEN u[j] ELSE v[j - Len(u)]
    BY <1>3, <1>4, ConcatProperties
  <2>2. Len(u) + Len(v) = Len(s) - 1 /\ Len(u) = k - 1
    BY <1>1, <1>3, <1>4
  <2>. QED  BY <2>1, <2>2
<1>6. \A j \in 1 .. Len(s) - 1 : \E i \in 1 .. Len(s) : (u \o v)[j] = s[i]
  <2>. TAKE j \in 1 .. Len(s) - 1
  <2>1. CASE j <= k - 1
    <3>1. (u \o v)[j] = u[j] /\ j \in 1 .. k - 1 /\ j \in 1 .. Len(s)
      BY <2>1, <1>1, <1>5
    <3>. QED  BY <3>1, <1>3
  <2>2. CASE ~(j <= k - 1)
    <3>1. j - (k - 1) \in 1 .. Len(s) - k /\ k + (j - (k - 1)) = j + 1 /\ j + 1 \in 1 .. Len(s)
      BY <2>2, <1>1
    <3>2. (u \o v)[j] = s[j + 1]
      BY <3>1, <2>2, <1>4, <1>5
    <3>. QED  BY <3>1, <3>2
  <2>. QED  BY <2>1, <2>2
<1>7. DOMAIN (u \o v) = 1 .. Len(s) - 1
  BY <1>5, LenProperties
<1>8. RemoveAt(s, k) = u \o v
  BY DEF RemoveAt, u, v
<1>. QED  BY <1>1, <1>5, <1>6, <1>7, <1>8

LEMMA SinPrimero ==
  ASSUME NEW T, NEW s \in Seq(T), s # << >>
  PROVE  /\ Tail(s) \in Seq(T)
         /\ \A j \in DOMAIN Tail(s) : \E i \in DOMAIN s : Tail(s)[j] = s[i]
<1>1. /\ Tail(s) \in Seq(T) /\ Len(Tail(s)) = Len(s) - 1 /\ Len(s) \in Nat \ {0}
      /\ \A j \in 1 .. Len(s) - 1 : Tail(s)[j] = s[j + 1]
  OBVIOUS
<1>. QED  BY <1>1

-----------------------------------------------------------------------------
(* What every step has to show.                                            *)

(* Nothing that was agreed to or signed is forgotten.                      *)
Crece ==
  /\ \A n \in Partes : acordado[n] \subseteq acordado'[n] /\ firmadas[n] \subseteq firmadas'[n]
  /\ caidas' \in Nat /\ caidas <= caidas'

GastoBien ==
  /\ gasto' \in [Partes -> Entrada \cup {Nada}]
  /\ \A n \in Partes : gasto'[n] \in {gasto[n], Nada}
                         \/ Buena(n, gasto'[n], acordado', firmadas', caidas')

RedBien ==
  /\ red' \in [Partes -> Seq(Mensajes)]
  /\ \A n \in Partes : \A k \in DOMAIN red'[n] :
       Bueno(n, red'[n][k], acordado', firmadas', caidas') \/ \E i \in DOMAIN red[n] : red'[n][k] = red[n][i]

(* What was good of an entry or a message stays good.                      *)
LEMMA SigueBien ==
  ASSUME Tipos, Crece, NEW n \in Partes, NEW x
  PROVE  /\ Buena(n, x, acordado, firmadas, caidas) => Buena(n, x, acordado', firmadas', caidas')
         /\ Bueno(n, x, acordado, firmadas, caidas) => Bueno(n, x, acordado', firmadas', caidas')
<1>1. \A pct : Acordaron(pct, acordado, caidas) => Acordaron(pct, acordado', caidas')
  BY DEF Tipos, Crece, Acordaron
<1>. QED  BY <1>1, Dos DEF Crece, Buena, Bueno

LEMMA Junta ==
  ASSUME IInv, Crece, GastoBien, RedBien
  PROVE  Entradas' /\ EnCamino'
<1>1. ASSUME NEW n \in Partes, gasto'[n] # Nada
      PROVE  Buena(n, gasto'[n], acordado', firmadas', caidas')
  BY <1>1, SigueBien DEF IInv, GastoBien, Entradas
<1>2. ASSUME NEW n \in Partes, NEW k \in DOMAIN red'[n]
      PROVE  Bueno(n, red'[n][k], acordado', firmadas', caidas')
  BY <1>2, SigueBien DEF IInv, RedBien, EnCamino
<1>. QED  BY <1>1, <1>2 DEF Entradas, EnCamino

LEMMA MismaCopia ==
  ASSUME IInv, Crece, copia' = copia
  PROVE  Ofrecido' /\ Parejas'
<1>1. \A n \in Partes : Otro(copia[n].turno) \in Partes
  BY Dos DEF IInv, Tipos, Copias
<1>. QED  BY <1>1 DEF IInv, Crece, Ofrecido, Parejas, Iguales, Adelantada

LEMMA MismoGasto == ASSUME Tipos, gasto' = gasto PROVE GastoBien
BY DEF Tipos, GastoBien

LEMMA MismaRed == ASSUME Tipos, red' = red PROVE RedBien
BY DEF Tipos, RedBien

LEMMA PonBien ==
  ASSUME Tipos, NEW n \in Partes, NEW g \in Entrada \cup {Nada}, Pon(n, g),
         g \in {gasto[n], Nada} \/ Buena(n, g, acordado', firmadas', caidas')
  PROVE  GastoBien /\ gasto'[n] = g /\ \A m \in Partes : m # n => gasto'[m] = gasto[m]
BY DEF Tipos, Pon, GastoBien

LEMMA EnviaBien ==
  ASSUME Tipos, NEW n \in Partes, NEW m \in Mensajes, Envia(n, m),
         Bueno(Otro(n), m, acordado', firmadas', caidas')
  PROVE  /\ RedBien /\ red'[n] = red[n]
         /\ \A k \in DOMAIN red'[Otro(n)] :
              red'[Otro(n)][k] = m \/ \E i \in DOMAIN red[Otro(n)] : red'[Otro(n)][k] = red[Otro(n)][i]
<1>1. red[Otro(n)] \in Seq(Mensajes) /\ Otro(n) \in Partes /\ Otro(n) # n
  BY Dos DEF Tipos
<1>2. red'[Otro(n)] = Append(red[Otro(n)], m) /\ \A q \in Partes : q # Otro(n) => red'[q] = red[q]
  BY <1>1 DEF Tipos, Envia
<1>3. /\ red'[Otro(n)] \in Seq(Mensajes)
      /\ \A k \in DOMAIN red'[Otro(n)] :
           red'[Otro(n)][k] = m \/ \E i \in DOMAIN red[Otro(n)] : red'[Otro(n)][k] = red[Otro(n)][i]
  BY <1>1, <1>2, AlFinal
<1>4. red' \in [Partes -> Seq(Mensajes)]
  BY <1>1, <1>2, <1>3 DEF Tipos, Envia
<1>. QED  BY <1>1, <1>2, <1>3, <1>4 DEF RedBien

(* A queue that loses a message, or several, keeps the others.             *)
LEMMA MenosBien ==
  ASSUME Tipos, NEW n \in Partes, NEW q \in Seq(Mensajes), red' = [red EXCEPT ![n] = q],
         \A k \in DOMAIN q : \E i \in DOMAIN red[n] : q[k] = red[n][i]
  PROVE  RedBien /\ red'[n] = q /\ \A m \in Partes : m # n => red'[m] = red[m]
BY DEF Tipos, RedBien

LEMMA LlegaBien ==
  ASSUME Tipos, NEW n \in Partes, NEW k, NEW paso, Llega(n, k, paso)
  PROVE  /\ RedBien /\ Crece
         /\ k \in DOMAIN red[n] /\ red[n][k] \in Mensajes /\ red[n][k].paso = paso
         /\ \A j \in DOMAIN red'[n] : \E i \in DOMAIN red[n] : red'[n][j] = red[n][i]
         /\ \A m \in Partes : m # n => red'[m] = red[m]
<1>1. red[n] \in Seq(Mensajes) /\ k \in DOMAIN red[n]
  BY DEF Tipos, Llega
<1>2. /\ RemoveAt(red[n], k) \in Seq(Mensajes)
      /\ \A j \in DOMAIN RemoveAt(red[n], k) : \E i \in DOMAIN red[n] : RemoveAt(red[n], k)[j] = red[n][i]
  BY <1>1, Quitado
<1>3. red' = [red EXCEPT ![n] = RemoveAt(red[n], k)]
  BY DEF Llega
<1>4. red[n][k] \in Mensajes
  BY <1>1, ElementOfSeq, LenProperties
<1>5. Crece
  BY DEF Tipos, Llega, Crece, historia
<1>6. /\ RedBien /\ red'[n] = RemoveAt(red[n], k)
      /\ \A m \in Partes : m # n => red'[m] = red[m]
  BY <1>2, <1>3, MenosBien
<1>. QED  BY <1>1, <1>2, <1>4, <1>5, <1>6 DEF Llega

(* Once the principal has an entry, or a program restarted, SinEmpezar     *)
(* says nothing.                                                           *)
LEMMA YaEmpezo ==
  ASSUME gasto'[Mandante] # Nada \/ ~EnPago(Mandante)' \/ caidas' # 0
  PROVE  SinEmpezar'
BY DEF SinEmpezar, SinEntrada

(* A step of the principal's box that finds an entry and leaves one, or    *)
(* of the contractor's that leaves everything it speaks of.                *)
LEMMA SigueSinEmpezar ==
  ASSUME IInv, Crece, copia' = copia, caidas' = caidas, red' = red,
         gasto'[Mandante] = gasto[Mandante], gasto'[Contratista] = gasto[Contratista]
  PROVE  SinEmpezar'
BY Dos DEF IInv, Crece, SinEmpezar, SinEntrada, SoloPidio, EnPago

(* Nobody but the principal has an entry of the principal.                 *)
LEMMA DelMandante ==
  ASSUME IInv, NEW n \in Partes, gasto[n] # Nada
  PROVE  /\ gasto[n] \in Entrada /\ Buena(n, gasto[n], acordado, firmadas, caidas)
         /\ Tiene(gasto[n], "mandante") => n = Mandante
BY DEF IInv, Tipos, Entradas, Buena, Tiene

-----------------------------------------------------------------------------
(* What a person does.                                                     *)

LEMMA EsNueva ==
  ASSUME Tipos, NEW n \in Partes
  PROVE  /\ Nueva(n) \in Entrada /\ Nueva(n).pct = copia[n].pct /\ Nueva(n).pct \in Pcts
         /\ Nueva(n).propuesta = Nada /\ Nueva(n).sesion = Nada /\ Nueva(n).firmada = Nada
         /\ Nueva(n).share = Nada /\ Nueva(n).error = Nada /\ Nueva(n).tx = Nada
         /\ "mandante" \in Nueva(n).marcas => n = Mandante
BY DEF Tipos, Copias, Nueva, SinNada, Entrada, Marcas

(* The entry is for a percentage both agreed to when the turn is ours.     *)
LEMMA PasoAceptar ==
  ASSUME IInv, NEW n \in Partes, Aceptar(n)
  PROVE  IInv'
<1>1. Crece
  BY DEF IInv, Tipos, Crece, Aceptar, Acuerda
<1>2. Acordaron(copia[n].pct, acordado', caidas')
  <2>1. Monto(copia[n].pct) \in acordado[Otro(n)]
    BY Dos DEF IInv, Ofrecido, Aceptar, Toca
  <2>2. Monto(copia[n].pct) \in acordado'[n]
    BY DEF IInv, Tipos, Aceptar, Acuerda, Monto
  <2>. QED  BY <2>1, <2>2, <1>1, Dos DEF Acordaron, Crece
<1>3. /\ GastoBien /\ gasto'[n] = Nueva(n)
      /\ \A m \in Partes : m # n => gasto'[m] = gasto[m]
  <2>1. Buena(n, Nueva(n), acordado', firmadas', caidas')
    BY <1>2, EsNueva DEF IInv, Buena
  <2>. QED  BY <2>1, EsNueva, PonBien DEF IInv, Aceptar
<1>4. RedBien
  BY MismaRed DEF IInv, Aceptar
<1>5. Tipos'
  <2>1. acordado' \in [Partes -> SUBSET [etapa : {1}, monto : Pcts]]
    BY DEF IInv, Tipos, Copias, Aceptar, Acuerda
  <2>. QED  BY <1>3, <1>4, <2>1 DEF IInv, Tipos, GastoBien, RedBien, Aceptar, cuentas, Anillando
<1>6. SinEmpezar'
  <2>1. CASE n = Mandante
    BY <2>1, <1>3, EsNueva, YaEmpezo, NadaAssumption DEF IInv
  <2>2. CASE n = Contratista
    <3>1. gasto'[Contratista] # Nada
      BY <2>2, <1>3, EsNueva, NadaAssumption DEF IInv
    <3>2. /\ copia[Contratista].turno = Contratista /\ EnPago(Contratista)
          /\ Monto(copia[Contratista].pct) \in acordado'[Contratista]
      BY <2>2 DEF IInv, Tipos, Aceptar, Toca, Acuerda, Monto
    <3>3. SoloPidio'
      BY <3>2, <2>2, <1>3, EsNueva DEF IInv, SoloPidio, Aceptar, EnPago
    <3>. QED  BY <3>1, <3>3, <2>2, <1>3, Dos DEF IInv, SinEmpezar, SinEntrada, Aceptar, EnPago
  <2>. QED  BY <2>1, <2>2, Dos
<1>. QED  BY <1>1, <1>3, <1>4, <1>5, <1>6, Junta, MismaCopia DEF IInv, Aceptar

LEMMA PasoPedirAtras ==
  ASSUME IInv, NEW n \in Partes, PedirAtras(n)
  PROVE  IInv'
<1>1. Crece
  BY DEF IInv, Tipos, Crece, PedirAtras, historia, tropiezos
<1>. DEFINE g == [gasto[n] EXCEPT !.error = Nada]
<1>2. g \in Entrada /\ Buena(n, g, acordado', firmadas', caidas')
  <2>1. g \in Entrada /\ Buena(n, g, acordado, firmadas, caidas)
    BY DelMandante DEF PedirAtras, Entrada, Buena
  <2>. QED  BY <2>1, <1>1, SigueBien DEF IInv
<1>3. /\ GastoBien /\ gasto'[n] = g
      /\ \A m \in Partes : m # n => gasto'[m] = gasto[m]
  BY <1>2, PonBien DEF IInv, PedirAtras
<1>4. RedBien
  BY MismaRed DEF IInv, PedirAtras
<1>5. Tipos'
  BY <1>3, <1>4 DEF IInv, Tipos, GastoBien, RedBien, PedirAtras, historia, cuentas, tropiezos, Anillando
<1>6. SinEmpezar'
  <2>1. CASE n = Mandante
    BY <2>1, <1>2, <1>3, YaEmpezo, NadaAssumption
  <2>2. CASE n = Contratista
    <3>1. gasto[n].error # Nada /\ gasto[n] # Nada
      BY NadaAssumption DEF PedirAtras
    <3>. QED  BY <3>1, <2>2, <1>3, Dos DEF IInv, SinEmpezar, SinEntrada, SoloPidio, PedirAtras, EnPago, tropiezos
  <2>. QED  BY <2>1, <2>2, Dos
<1>. QED  BY <1>1, <1>3, <1>4, <1>5, <1>6, Junta, MismaCopia DEF IInv, PedirAtras

(* Who has the turn sees what the other sees.                              *)
LEMMA ConTurno ==
  ASSUME IInv, NEW n \in Partes, copia[n].turno = n
  PROVE  Iguales /\ copia[Otro(n)].turno = n
<1>1. \A m \in Partes : ~Adelantada(m)
  <2>. TAKE m \in Partes
  <2>1. CASE m = n
    BY <2>1, Dos DEF Adelantada
  <2>2. CASE m = Otro(n)
    BY <2>2, Dos DEF Adelantada
  <2>. QED  BY <2>1, <2>2, Dos
<1>. QED  BY <1>1, Dos DEF IInv, Parejas, Iguales

LEMMA PasoContraofertar ==
  ASSUME IInv, NEW n \in Partes, NEW pct \in Pcts, Contraofertar(n, pct)
  PROVE  IInv'
<1>1. Crece
  BY DEF IInv, Tipos, Crece, Contraofertar, Acuerda
<1>2. copia[n].turno = n /\ Iguales /\ EnPago(n) /\ ~Pagando(n)
  BY ConTurno DEF Contraofertar, Toca
<1>3. /\ copia' \in [Partes -> Copias]
      /\ copia'[n].notas = copia[n].notas + 1 /\ copia'[n].pct = pct
      /\ copia'[n].turno = Otro(n) /\ copia'[n].estado = copia[n].estado
      /\ copia'[Otro(n)] = copia[Otro(n)]
  <2>. DEFINE c == [notas |-> copia[n].notas + 1, pct |-> pct, turno |-> Otro(n), estado |-> EnTrato]
  <2>1. copia[n].notas + 1 \in Nat /\ copia[n].estado = EnTrato
    BY <1>2 DEF IInv, Tipos, Copias, EnPago
  <2>2. /\ c \in Copias /\ c.notas = copia[n].notas + 1 /\ c.pct = pct
        /\ c.turno = Otro(n) /\ c.estado = copia[n].estado
    BY <2>1, Dos DEF Copias
  <2>3. copia' = [copia EXCEPT ![n] = c]
    BY DEF Contraofertar
  <2>. HIDE DEF c
  <2>. QED  BY <2>2, <2>3, Dos DEF IInv, Tipos
<1>4. GastoBien /\ RedBien
  BY MismoGasto, MismaRed DEF IInv, Contraofertar
<1>5. Tipos'
  <2>1. acordado' \in [Partes -> SUBSET [etapa : {1}, monto : Pcts]]
    BY DEF IInv, Tipos, Contraofertar, Acuerda
  <2>. QED  BY <1>3, <1>4, <2>1 DEF IInv, Tipos, GastoBien, RedBien, Contraofertar, cuentas, Anillando
<1>6. Ofrecido'
  <2>1. Monto(pct) \in acordado'[n] /\ Otro(copia'[n].turno) = n
    BY <1>3, Dos DEF IInv, Tipos, Contraofertar, Acuerda, Monto
  <2>2. copia[Otro(n)].turno \in Partes
    BY Dos DEF IInv, Tipos, Copias
  <2>3. Monto(copia'[Otro(n)].pct) \in acordado'[Otro(copia'[Otro(n)].turno)]
    BY <2>2, <1>1, <1>3, Dos DEF IInv, Ofrecido, Crece
  <2>. QED  BY <2>1, <2>3, <1>3, Dos DEF Ofrecido
<1>7. Parejas'
  <2>1. /\ copia'[n].notas > copia'[Otro(n)].notas
        /\ copia'[n].turno = Otro(n) /\ copia'[Otro(n)].turno = n
    <3>1. copia[n].notas = copia[Otro(n)].notas /\ copia[n].notas \in Nat /\ copia[Otro(n)].turno = n
      BY <1>2, ConTurno, Dos DEF IInv, Tipos, Copias, Iguales
    <3>. QED  BY <3>1, <1>3
  <2>. QED  BY <2>1 DEF Parejas, Adelantada
<1>8. SinEmpezar'
  <2>1. ASSUME SinEntrada' PROVE SinEntrada
    BY <2>1, <1>2, <1>3, Dos DEF SinEntrada, EnPago, Contraofertar
  <2>2. ASSUME SinEntrada, gasto[Contratista] # Nada PROVE FALSE
    <3>1. SoloPidio /\ copia[Contratista].turno = Contratista
      BY <2>2 DEF IInv, SinEmpezar, SoloPidio
    <3>2. copia[Mandante].turno = Contratista
      BY <3>1, ConTurno, Dos
    <3>3. Pagando(Contratista)
      BY <2>2, <3>1 DEF Pagando, SoloPidio
    <3>. QED  BY <3>2, <3>3, <1>2, Dos
  <2>. QED  BY <2>1, <2>2 DEF IInv, SinEmpezar, Contraofertar
<1>. QED  BY <1>1, <1>4, <1>5, <1>6, <1>7, <1>8, Junta DEF IInv

(* The other copy wins only when it says more.                             *)
LEMMA PasoFusionar ==
  ASSUME IInv, NEW n \in Partes, Fusionar(n)
  PROVE  IInv'
<1>1. Crece
  BY DEF IInv, Tipos, Crece, Fusionar, historia, tropiezos
<1>2. /\ copia' \in [Partes -> Copias]
      /\ copia'[n] = copia[Otro(n)] /\ copia'[Otro(n)] = copia[Otro(n)]
  BY Dos DEF IInv, Tipos, Fusionar
<1>3. GastoBien /\ RedBien
  BY MismoGasto, MismaRed DEF IInv, Fusionar
<1>4. Tipos'
  BY <1>2, <1>3 DEF IInv, Tipos, GastoBien, RedBien, Fusionar, historia, cuentas, tropiezos, Anillando
<1>5. Ofrecido'
  <2>1. Monto(copia[Otro(n)].pct) \in acordado[Otro(copia[Otro(n)].turno)]
    BY Dos DEF IInv, Ofrecido
  <2>. QED  BY <2>1, <1>2, Dos DEF Ofrecido, Fusionar, historia
<1>6. Parejas'
  BY <1>2, Dos DEF Parejas, Iguales
<1>7. SinEmpezar'
  <2>1. \A m \in Partes : copia[m].notas \in Nat /\ copia[m].estado \in {EnTrato, Pagada}
    BY DEF IInv, Tipos, Copias
  <2>2. ASSUME SinEntrada' PROVE SinEntrada
    BY <2>1, <2>2, <1>2, Dos DEF SinEntrada, EnPago, Fusionar, tropiezos, EnTrato, Pagada
  <2>3. ASSUME SinEntrada, gasto[Contratista] # Nada PROVE FALSE
    <3>1. /\ EnPago(Contratista) /\ EnPago(Mandante) /\ copia[Contratista].turno = Contratista
      BY <2>3 DEF IInv, SinEmpezar, SoloPidio, SinEntrada
    <3>2. Iguales
      BY <3>1, ConTurno, Dos
    <3>3. copia[n].estado = EnTrato /\ copia[Otro(n)].estado = EnTrato
      BY <3>1, Dos DEF EnPago
    <3>4. copia[n].notas = copia[Otro(n)].notas
      BY <3>2, Dos DEF Iguales
    <3>5. copia[n].estado < copia[Otro(n)].estado \/ copia[n].notas < copia[Otro(n)].notas
      BY DEF Fusionar
    <3>. QED  BY <3>3, <3>4, <3>5, <2>1, Dos DEF EnTrato
  <2>. QED  BY <2>2, <2>3 DEF IInv, SinEmpezar, Fusionar
<1>. QED  BY <1>1, <1>3, <1>4, <1>5, <1>6, <1>7, Junta DEF IInv

-----------------------------------------------------------------------------
(* The steps of a tick.                                                    *)

(* While the principal's box has no entry, the other has a bare one.       *)
LEMMA ConAlgo ==
  ASSUME IInv, NEW n \in Partes, gasto[n] # Nada, gasto'[n] # Nada,
         \A m \in Partes : m # n => gasto'[m] = gasto[m],
         copia' = copia, caidas' = caidas,
         \/ gasto[n].propuesta # Nada \/ gasto[n].sesion # Nada \/ gasto[n].firmada # Nada
         \/ gasto[n].error # Nada \/ gasto[n].tx # Nada
  PROVE  SinEmpezar'
<1>1. CASE n = Mandante
  BY <1>1, YaEmpezo
<1>2. CASE n = Contratista
  BY <1>2, Dos DEF IInv, SinEmpezar, SinEntrada, SoloPidio, EnPago
<1>. QED  BY <1>1, <1>2, Dos

LEMMA PasoLimpiar ==
  ASSUME IInv, NEW n \in Partes, Limpiar(n)
  PROVE  IInv'
<1>1. Crece
  BY DEF IInv, Tipos, Crece, Limpiar, historia, tropiezos
<1>2. /\ GastoBien /\ gasto'[n] = Nada
      /\ \A m \in Partes : m # n => gasto'[m] = gasto[m]
  BY PonBien DEF IInv, Limpiar
<1>3. RedBien
  BY MismaRed DEF IInv, Limpiar
<1>4. Tipos'
  BY <1>2, <1>3 DEF IInv, Tipos, GastoBien, RedBien, Limpiar, historia, cuentas, tropiezos, Anillando
<1>5. SinEmpezar'
  <2>1. CASE n = Mandante
    BY <2>1, YaEmpezo DEF Limpiar, EnPago
  <2>2. CASE n = Contratista
    BY <2>2, <1>2, Dos DEF IInv, SinEmpezar, SinEntrada, SoloPidio, EnPago, Limpiar, tropiezos
  <2>. QED  BY <2>1, <2>2, Dos
<1>. QED  BY <1>1, <1>2, <1>3, <1>4, <1>5, Junta, MismaCopia DEF IInv, Limpiar

(* A request says no amount.                                               *)
LEMMA PasoAvisar ==
  ASSUME IInv, NEW n \in Partes, Avisar(n)
  PROVE  IInv'
<1>1. Crece
  BY DEF IInv, Tipos, Crece, Avisar, historia, tropiezos
<1>. DEFINE g == Sin(gasto[n], "avisar")
            m == Mensaje("spend-pedir", Nada)
<1>2. /\ g \in Entrada /\ Buena(n, g, acordado', firmadas', caidas')
      /\ \A x \in {"propuesta", "sesion", "firmada", "error", "tx"} : g[x] = gasto[n][x]
  <2>1. gasto[n] \in Entrada /\ Buena(n, gasto[n], acordado, firmadas, caidas)
    BY DelMandante DEF Avisar, Viva
  <2>2. /\ g \in Entrada /\ Buena(n, g, acordado, firmadas, caidas)
        /\ \A x \in {"propuesta", "sesion", "firmada", "error", "tx"} : g[x] = gasto[n][x]
    BY <2>1 DEF Sin, Entrada, Buena
  <2>. QED  BY <2>2, <1>1, SigueBien DEF IInv
<1>3. /\ GastoBien /\ gasto'[n] = g
      /\ \A q \in Partes : q # n => gasto'[q] = gasto[q]
  BY <1>2, PonBien DEF IInv, Avisar
<1>4. m \in Mensajes /\ m.paso = "spend-pedir" /\ Bueno(Otro(n), m, acordado', firmadas', caidas')
  BY DEF Mensaje, Mensajes, Bueno
<1>. HIDE DEF g, m
<1>5. /\ RedBien /\ red'[n] = red[n]
      /\ \A k \in DOMAIN red'[Otro(n)] :
           red'[Otro(n)][k] = m \/ \E i \in DOMAIN red[Otro(n)] : red'[Otro(n)][k] = red[Otro(n)][i]
  BY <1>4, EnviaBien DEF IInv, Avisar, m
<1>6. Tipos'
  BY <1>3, <1>5 DEF IInv, Tipos, GastoBien, RedBien, Avisar, historia, cuentas, tropiezos, Anillando
<1>7. SinEmpezar'
  <2>1. gasto'[n] # Nada /\ gasto[n] # Nada
    BY <1>2, <1>3, NadaAssumption DEF Avisar, Viva
  <2>2. CASE n = Mandante
    BY <2>1, <2>2, YaEmpezo
  <2>3. CASE n = Contratista
    <3>1. ASSUME SinEntrada' PROVE SinEntrada
      BY <3>1, <2>3, <1>3, Dos DEF SinEntrada, EnPago, Avisar, tropiezos
    <3>2. ASSUME SinEntrada PROVE SoloPidio'
      BY <3>2, <2>1, <2>3, <1>2, <1>3 DEF IInv, SinEmpezar, SoloPidio, Avisar, EnPago, historia
    <3>3. ASSUME SinEntrada PROVE \A k \in DOMAIN red'[Mandante] : red'[Mandante][k].paso = "spend-pedir"
      BY <3>3, <2>3, <1>4, <1>5, Dos DEF IInv, SinEmpezar
    <3>4. ASSUME SinEntrada PROVE red'[Contratista] = << >>
      BY <3>4, <2>3, <1>5 DEF IInv, SinEmpezar
    <3>. QED  BY <3>1, <3>2, <3>3, <3>4, <2>1, <2>3 DEF SinEmpezar
  <2>. QED  BY <2>2, <2>3, Dos
<1>. QED  BY <1>1, <1>3, <1>5, <1>6, <1>7, Junta, MismaCopia DEF IInv, Avisar

LEMMA PasoAnillar ==
  ASSUME IInv, NEW n \in Partes, Anillar(n)
  PROVE  IInv'
<1>1. Crece
  BY DEF IInv, Tipos, Crece, Anillar, historia, tropiezos
<1>2. GastoBien /\ RedBien
  BY MismoGasto, MismaRed DEF IInv, Anillar
<1>3. Tipos'
  <2>1. ocupado' \in Trabajos
    BY DEF Anillar, Trabajos
  <2>. QED  BY <1>2, <2>1 DEF IInv, Tipos, GastoBien, RedBien, Anillar, historia, cuentas, tropiezos
<1>4. SinEmpezar'
  BY <1>1, SigueSinEmpezar DEF Anillar, tropiezos
<1>. QED  BY <1>1, <1>2, <1>3, <1>4, Junta, MismaCopia DEF IInv, Anillar

(* An entry that stops keeps what was signed; the other is told.           *)
LEMMA FallaBien ==
  ASSUME IInv, Crece, NEW n \in Partes, NEW causa \in {"caja", "otro"}, Falla(n, causa)
  PROVE  /\ GastoBien /\ RedBien
         /\ gasto'[n] = Nada => gasto[n] = Nada
         /\ gasto[n] = Nada => gasto' = gasto /\ red' = red
         /\ \A m \in Partes : m # n => gasto'[m] = gasto[m]
<1>1. CASE gasto[n] = Nada
  BY <1>1, MismoGasto, MismaRed DEF IInv, Falla, Tiene
<1>2. CASE gasto[n] # Nada
  <2>. DEFINE g == Sin([gasto[n] EXCEPT !.error = causa], "avisar")
              m == Mensaje("spend-error", Nada)
  <2>1. g \in Entrada /\ Buena(n, g, acordado', firmadas', caidas')
    <3>1. gasto[n] \in Entrada /\ Buena(n, gasto[n], acordado, firmadas, caidas)
      BY <1>2, DelMandante
    <3>2. g \in Entrada
      BY <3>1 DEF Sin, Entrada
    <3>3. Buena(n, g, acordado, firmadas, caidas)
      BY <3>1 DEF Sin, Entrada, Buena
    <3>. QED  BY <3>2, <3>3, SigueBien DEF IInv
  <2>2. m \in Mensajes /\ Bueno(Otro(n), m, acordado', firmadas', caidas')
    BY DEF Mensaje, Mensajes, Bueno
  <2>3. Pon(n, g) /\ (Envia(n, m) \/ red' = red)
    BY <1>2 DEF Falla
  <2>. HIDE DEF g, m
  <2>4. /\ GastoBien /\ gasto'[n] = g
        /\ \A q \in Partes : q # n => gasto'[q] = gasto[q]
    BY <2>1, <2>3, PonBien DEF IInv
  <2>5. RedBien
    BY <2>2, <2>3, EnviaBien, MismaRed DEF IInv
  <2>. QED  BY <1>2, <2>1, <2>4, <2>5, NadaAssumption
<1>. QED  BY <1>1, <1>2

(* Only the principal's box looks for the outputs of the box.              *)
LEMMA PasoSinCaja ==
  ASSUME IInv, NEW n \in Partes, NEW causa \in {"caja", "otro"}, SinCaja(n, causa)
  PROVE  IInv'
<1>1. Crece
  BY DEF IInv, Tipos, Crece, SinCaja, historia
<1>2. n = Mandante /\ gasto[n] # Nada
  BY DelMandante DEF SinCaja, FaltaPropuesta, Anda, Viva
<1>3. GastoBien /\ RedBien /\ gasto'[Mandante] # Nada
  BY <1>1, <1>2, FallaBien DEF SinCaja
<1>4. Tipos'
  BY <1>3 DEF IInv, Tipos, GastoBien, RedBien, SinCaja, historia, cuentas, Anillando
<1>. QED  BY <1>1, <1>3, <1>4, Junta, MismaCopia, YaEmpezo DEF IInv, SinCaja

LEMMA PasoNoAnillo ==
  ASSUME IInv, NoAnillo
  PROVE  IInv'
<1>1. Crece
  BY DEF IInv, Tipos, Crece, NoAnillo, historia
<1>2. /\ GastoBien /\ RedBien
      /\ gasto'[Mandante] = Nada => gasto' = gasto /\ red' = red
  BY <1>1, FallaBien, Dos DEF NoAnillo
<1>3. Tipos'
  BY <1>2 DEF IInv, Tipos, GastoBien, RedBien, NoAnillo, historia, cuentas, Anillando
<1>4. SinEmpezar'
  BY <1>1, <1>2, SigueSinEmpezar, YaEmpezo DEF NoAnillo
<1>. QED  BY <1>1, <1>2, <1>3, <1>4, Junta, MismaCopia DEF IInv, NoAnillo

(* The transaction pays the percentage of the entry.                       *)
LEMMA PasoArmar ==
  ASSUME IInv, Armar
  PROVE  IInv'
<1>1. Crece
  BY DEF IInv, Tipos, Crece, Armar, historia, tropiezos
<1>2. RedBien /\ ocupado' = Nada
  BY MismaRed DEF IInv, Armar
<1>3. CASE Tiene(gasto[Mandante], "mandante")
  <2>. DEFINE p == [pct |-> gasto[Mandante].pct, num |-> intentos + 1]
              g == [gasto[Mandante] EXCEPT !.propuesta = p, !.error = Nada]
  <2>1. /\ gasto[Mandante] \in Entrada /\ gasto[Mandante].pct \in Pcts
        /\ Acordaron(gasto[Mandante].pct, acordado, caidas)
        /\ Buena(Mandante, gasto[Mandante], acordado, firmadas, caidas)
    BY <1>3, DelMandante, Dos DEF Tiene, Buena
  <2>2. intentos' = intentos + 1 /\ intentos' \in 0 .. MaxIntentos /\ intentos' \in 1 .. MaxIntentos
    BY <1>3, GastoAssumption DEF IInv, Tipos, Armar
  <2>3. p \in Propuesta
    BY <2>1, <2>2 DEF Propuesta
  <2>4. p.pct = gasto[Mandante].pct
    OBVIOUS
  <2>5. Pon(Mandante, g)
    BY <1>3 DEF Armar
  <2>. HIDE DEF p
  <2>6. g \in Entrada /\ Buena(Mandante, g, acordado, firmadas, caidas)
    BY <2>1, <2>3, <2>4 DEF Entrada, Buena
  <2>. HIDE DEF g
  <2>7. /\ GastoBien /\ gasto'[Mandante] = g
    BY <2>5, <2>6, <1>1, SigueBien, PonBien, Dos DEF IInv
  <2>8. Tipos'
    BY <1>2, <2>2, <2>7, NadaAssumption DEF IInv, Tipos, GastoBien, RedBien, Armar, historia, tropiezos, Anillando
  <2>9. SinEmpezar'
    BY <2>6, <2>7, NadaAssumption, YaEmpezo
  <2>. QED  BY <1>1, <1>2, <2>7, <2>8, <2>9, Junta, MismaCopia DEF IInv, Armar
<1>4. CASE ~Tiene(gasto[Mandante], "mandante")
  <2>1. GastoBien /\ gasto' = gasto /\ intentos' = intentos
    BY <1>4, MismoGasto DEF IInv, Armar
  <2>2. Tipos'
    BY <1>2, <2>1, NadaAssumption DEF IInv, Tipos, GastoBien, RedBien, Armar, historia, tropiezos, Anillando
  <2>3. SinEmpezar'
    BY <1>1, <2>1, SigueSinEmpezar DEF Armar, tropiezos
  <2>. QED  BY <1>1, <1>2, <2>1, <2>2, <2>3, Junta, MismaCopia DEF IInv, Armar
<1>. QED  BY <1>3, <1>4

(* A session is for the transaction proposed to the box.                   *)
LEMMA PasoAbrir ==
  ASSUME IInv, NEW n \in Partes, Abrir(n)
  PROVE  IInv'
<1>1. Crece
  BY DEF IInv, Tipos, Crece, Abrir, historia, tropiezos
<1>. DEFINE id == sesiones[n] + 1
            p == gasto[n].propuesta
            s == [prop |-> p, mia |-> id]
            g == [gasto[n] EXCEPT !.sesion = s]
            m == IF Tiene(gasto[n], "mandante") THEN Mensaje("spend-open", [prop |-> p, pre |-> id])
                                                ELSE Mensaje("spend-pre", id)
<1>2. /\ gasto[n] \in Entrada /\ Buena(n, gasto[n], acordado, firmadas, caidas)
      /\ p \in Propuesta /\ p # Nada /\ gasto[n] # Nada
  BY DelMandante DEF Abrir, Anda, Viva, Entrada
<1>3. id \in Ids /\ sesiones' \in [Partes -> 0 .. MaxSesiones]
  BY GastoAssumption DEF IInv, Tipos, Abrir, Ids
<1>4. Acordaron(p.pct, acordado, caidas)
  BY <1>2 DEF Buena
<1>5. Pon(n, g) /\ Envia(n, m)
  BY DEF Abrir
<1>. HIDE DEF id, p
<1>6. s \in Sesion /\ s.prop = p
  BY <1>2, <1>3 DEF Sesion
<1>7. m \in Mensajes /\ Bueno(Otro(n), m, acordado, firmadas, caidas)
  BY <1>2, <1>3, <1>4 DEF Mensaje, Mensajes, Bueno
<1>. HIDE DEF s, m
<1>8. g \in Entrada /\ Buena(n, g, acordado, firmadas, caidas)
  BY <1>2, <1>4, <1>6 DEF Entrada, Buena
<1>. HIDE DEF g
<1>9. /\ GastoBien /\ gasto'[n] = g
      /\ \A q \in Partes : q # n => gasto'[q] = gasto[q]
  BY <1>1, <1>5, <1>8, SigueBien, PonBien DEF IInv
<1>10. RedBien
  BY <1>1, <1>5, <1>7, SigueBien, EnviaBien, Dos DEF IInv
<1>11. Tipos'
  BY <1>3, <1>9, <1>10 DEF IInv, Tipos, GastoBien, RedBien, Abrir, historia, tropiezos, Anillando
<1>12. SinEmpezar'
  <2>1. gasto'[n] # Nada
    BY <1>8, <1>9, NadaAssumption
  <2>. QED  BY <2>1, <1>2, <1>9, ConAlgo DEF Abrir, tropiezos, p
<1>. QED  BY <1>1, <1>9, <1>10, <1>11, <1>12, Junta, MismaCopia DEF IInv, Abrir

(* What is sent is signed: the share and the entry follow the signature.   *)
LEMMA PasoFirmar ==
  ASSUME IInv, NEW n \in Partes, Firmar(n)
  PROVE  IInv'
<1>. DEFINE s == gasto[n].sesion
            t == TxDe(s.prop)
            f == [prop |-> s.prop, mia |-> s.mia, suya |-> gasto[n].pre]
            e == [prop |-> s.prop, de |-> s.mia, con |-> gasto[n].pre]
            g == [gasto[n] EXCEPT !.sesion = Nada, !.firmada = f]
            m == Mensaje("spend-share", e)
<1>1. /\ gasto[n] \in Entrada /\ Buena(n, gasto[n], acordado, firmadas, caidas)
      /\ s \in Sesion /\ s # Nada /\ gasto[n] # Nada /\ gasto[n].pre \in Ids
  BY DelMandante DEF Firmar, Anda, Viva, Entrada
<1>2. Pon(n, g) /\ Envia(n, m) /\ firmadas' = [firmadas EXCEPT ![n] = @ \cup {t}]
  BY DEF Firmar
<1>3. /\ f \in Firmada /\ f.prop = s.prop /\ e \in Parte /\ e.prop = s.prop /\ t \in Tx
  BY <1>1 DEF Sesion, Propuesta, Firmada, Parte, TxDe, Tx
<1>. HIDE DEF f, e
<1>4. m \in Mensajes /\ m.paso = "spend-share" /\ m.cuerpo = e
  BY <1>3 DEF Mensaje, Mensajes
<1>. HIDE DEF s, m
<1>5. firmadas' \in [Partes -> SUBSET Tx] /\ t \in firmadas'[n]
  BY <1>2, <1>3 DEF IInv, Tipos
<1>. HIDE DEF t
<1>6. Crece
  BY <1>2 DEF IInv, Tipos, Crece, Firmar, tropiezos
<1>7. g \in Entrada /\ Buena(n, g, acordado', firmadas', caidas')
  <2>1. Buena(n, gasto[n], acordado', firmadas', caidas')
    BY <1>1, <1>6, SigueBien DEF IInv
  <2>2. g \in Entrada
    BY <1>1, <1>3 DEF Entrada
  <2>3. TxDe(f.prop) \in firmadas'[n]
    BY <1>3, <1>5 DEF t
  <2>. QED  BY <1>1, <2>1, <2>2, <2>3 DEF Entrada, Buena
<1>. HIDE DEF g
<1>8. Bueno(Otro(n), m, acordado', firmadas', caidas')
  BY <1>3, <1>4, <1>5, Dos DEF Bueno, t
<1>9. /\ GastoBien /\ gasto'[n] = g
      /\ \A q \in Partes : q # n => gasto'[q] = gasto[q]
  BY <1>2, <1>7, PonBien DEF IInv
<1>10. RedBien
  BY <1>2, <1>4, <1>8, EnviaBien DEF IInv
<1>11. Tipos'
  BY <1>5, <1>9, <1>10 DEF IInv, Tipos, GastoBien, RedBien, Firmar, cuentas, tropiezos, Anillando
<1>12. SinEmpezar'
  <2>1. gasto'[n] # Nada
    BY <1>7, <1>9, NadaAssumption
  <2>. QED  BY <2>1, <1>1, <1>9, ConAlgo DEF Firmar, tropiezos, s
<1>. QED  BY <1>6, <1>9, <1>10, <1>11, <1>12, Junta, MismaCopia DEF IInv, Firmar

(* A box that completes knows the transaction both signed.                 *)
LEMMA Completada ==
  ASSUME IInv, Crece, NEW n \in Partes, ListaParaCompletar(n),
         Pon(n, Con([gasto[n] EXCEPT !.firmada = Nada, !.tx = TxDe(gasto[n].firmada.prop)], "blob"))
  PROVE  /\ GastoBien /\ gasto'[n] # Nada /\ TxDe(gasto[n].firmada.prop) \in Tx
         /\ \A m \in Partes : m # n => gasto'[m] = gasto[m]
<1>. DEFINE t == TxDe(gasto[n].firmada.prop)
            g == Con([gasto[n] EXCEPT !.firmada = Nada, !.tx = t], "blob")
<1>1. /\ gasto[n] \in Entrada /\ Buena(n, gasto[n], acordado, firmadas, caidas)
      /\ gasto[n].firmada \in Firmada
  BY DelMandante DEF ListaParaCompletar, Anda, Viva, Entrada
<1>2. t \in Tx
  BY <1>1 DEF Firmada, Propuesta, TxDe, Tx
<1>. HIDE DEF t
<1>3. g \in Entrada /\ Buena(n, g, acordado, firmadas, caidas)
  BY <1>1, <1>2 DEF Entrada, Marcas, Con, Buena
<1>4. Pon(n, g)
  BY DEF t
<1>. HIDE DEF g
<1>5. /\ GastoBien /\ gasto'[n] = g
      /\ \A q \in Partes : q # n => gasto'[q] = gasto[q]
  BY <1>3, <1>4, SigueBien, PonBien DEF IInv
<1>. QED  BY <1>2, <1>3, <1>5, NadaAssumption DEF t

LEMMA PasoCompletar ==
  ASSUME IInv, Completar
  PROVE  IInv'
<1>1. Crece
  BY DEF IInv, Tipos, Crece, Completar, historia, tropiezos
<1>2. /\ GastoBien /\ gasto'[Contratista] # Nada
      /\ \A m \in Partes : m # Contratista => gasto'[m] = gasto[m]
  BY <1>1, Completada, Dos DEF Completar
<1>3. RedBien
  BY MismaRed DEF IInv, Completar
<1>4. Tipos'
  BY <1>2, <1>3 DEF IInv, Tipos, GastoBien, RedBien, Completar, historia, cuentas, tropiezos, Anillando
<1>5. SinEmpezar'
  BY <1>2, ConAlgo, Dos DEF Completar, ListaParaCompletar, Anda, Viva, tropiezos
<1>. QED  BY <1>1, <1>2, <1>3, <1>4, <1>5, Junta, MismaCopia DEF IInv, Completar

LEMMA PasoPublicar ==
  ASSUME IInv, Publicar
  PROVE  IInv'
<1>1. Crece
  BY DEF IInv, Tipos, Crece, Publicar, historia
<1>2. GastoBien /\ gasto'[Mandante] # Nada /\ TxDe(gasto[Mandante].firmada.prop) \in Tx
  BY <1>1, Completada, Dos DEF Publicar
<1>3. RedBien
  BY MismaRed DEF IInv, Publicar
<1>4. /\ ocupado' \in Trabajos /\ ocupado'.trabajo # "anillar"
      /\ cadena' \subseteq Tx /\ espera' \in Tx
  <2>1. \A r \in Difusiones : r \in {"ok", "rechazo", "sin-respuesta"}
    BY DEF Difusiones
  <2>. DEFINE t == TxDe(gasto[Mandante].firmada.prop)
  <2>2. espera' = t
    BY DEF Publicar
  <2>3. \E r \in Difusiones : ocupado' = [trabajo |-> r, tx |-> t] /\ cadena' \in {cadena, cadena \cup {t}}
    BY DEF Publicar
  <2>. HIDE DEF t
  <2>4. t \in Tx
    BY <1>2 DEF t
  <2>. QED  BY <2>1, <2>2, <2>3, <2>4 DEF IInv, Tipos, Trabajos
<1>5. Tipos'
  BY <1>2, <1>3, <1>4 DEF IInv, Tipos, GastoBien, RedBien, Publicar, historia, cuentas, Anillando
<1>. QED  BY <1>1, <1>2, <1>3, <1>5, Junta, MismaCopia, YaEmpezo DEF IInv, Publicar

LEMMA PasoNoCuadra ==
  ASSUME IInv, NEW n \in Partes, NoCuadra(n)
  PROVE  IInv'
<1>1. Crece
  BY DEF IInv, Tipos, Crece, NoCuadra, historia, tropiezos
<1>. DEFINE g == Sin([gasto[n] EXCEPT !.firmada = Nada, !.error = "otro"], "avisar")
            m == Mensaje("spend-error", Nada)
<1>2. /\ gasto[n] \in Entrada /\ Buena(n, gasto[n], acordado, firmadas, caidas)
      /\ gasto[n] # Nada /\ gasto[n].firmada # Nada
  BY DelMandante DEF NoCuadra, ListaParaCompletar, Anda, Viva
<1>3. g \in Entrada /\ Buena(n, g, acordado, firmadas, caidas)
  BY <1>2 DEF Entrada, Sin, Buena
<1>4. m \in Mensajes /\ Bueno(Otro(n), m, acordado', firmadas', caidas')
  BY DEF Mensaje, Mensajes, Bueno
<1>5. Pon(n, g) /\ Envia(n, m)
  BY DEF NoCuadra
<1>. HIDE DEF g, m
<1>6. /\ GastoBien /\ gasto'[n] = g
      /\ \A q \in Partes : q # n => gasto'[q] = gasto[q]
  BY <1>1, <1>3, <1>5, SigueBien, PonBien DEF IInv
<1>7. RedBien
  BY <1>4, <1>5, EnviaBien DEF IInv
<1>8. Tipos'
  BY <1>6, <1>7 DEF IInv, Tipos, GastoBien, RedBien, NoCuadra, historia, cuentas, tropiezos, Anillando
<1>9. SinEmpezar'
  <2>1. gasto'[n] # Nada
    BY <1>3, <1>6, NadaAssumption
  <2>. QED  BY <2>1, <1>2, <1>6, ConAlgo DEF NoCuadra, tropiezos
<1>. QED  BY <1>1, <1>6, <1>7, <1>8, <1>9, Junta, MismaCopia DEF IInv, NoCuadra

LEMMA PasoPublicado ==
  ASSUME IInv, Publicado
  PROVE  IInv'
<1>1. Crece
  BY DEF IInv, Tipos, Crece, Publicado, historia, tropiezos
<1>2. GastoBien /\ gasto' = gasto /\ ocupado' = Nada
  BY MismoGasto DEF IInv, Publicado
<1>3. RedBien /\ (red' = red \/ gasto[Mandante] # Nada)
  <2>. DEFINE m == Mensaje("spend-tx", ocupado.tx)
  <2>1. m \in Mensajes /\ Bueno(Contratista, m, acordado', firmadas', caidas')
    <3>1. ocupado.tx \in Tx
      BY DEF IInv, Tipos, Trabajos, Publicado, Publicando
    <3>. QED  BY <3>1 DEF Mensaje, Mensajes, Bueno
  <2>2. red' = red \/ (Envia(Mandante, m) /\ gasto[Mandante] # Nada)
    BY DEF Publicado, Tiene
  <2>. HIDE DEF m
  <2>. QED  BY <2>1, <2>2, EnviaBien, MismaRed, Dos DEF IInv
<1>4. Tipos'
  BY <1>2, <1>3 DEF IInv, Tipos, RedBien, Publicado, historia, cuentas, tropiezos, Anillando
<1>5. SinEmpezar'
  BY <1>1, <1>2, <1>3, SigueSinEmpezar, YaEmpezo DEF Publicado, tropiezos
<1>. QED  BY <1>1, <1>2, <1>3, <1>4, <1>5, Junta, MismaCopia DEF IInv, Publicado

LEMMA PasoNoPublicado ==
  ASSUME IInv, NoPublicado
  PROVE  IInv'
<1>1. Crece
  BY DEF IInv, Tipos, Crece, NoPublicado, historia, tropiezos
<1>2. /\ GastoBien /\ RedBien
      /\ gasto'[Mandante] = Nada => gasto' = gasto /\ red' = red
  BY <1>1, FallaBien, Dos DEF NoPublicado
<1>3. Tipos'
  BY <1>2 DEF IInv, Tipos, GastoBien, RedBien, NoPublicado, historia, cuentas, tropiezos, Anillando
<1>4. SinEmpezar'
  BY <1>1, <1>2, SigueSinEmpezar, YaEmpezo DEF NoPublicado, tropiezos
<1>. QED  BY <1>1, <1>2, <1>3, <1>4, Junta, MismaCopia DEF IInv, NoPublicado

LEMMA PasoVer ==
  ASSUME IInv, NEW n \in Partes, Ver(n)
  PROVE  IInv'
<1>1. Crece
  BY DEF IInv, Tipos, Crece, Ver, historia, tropiezos
<1>. DEFINE g == Con([gasto[n] EXCEPT !.error = Nada], "visto")
<1>2. /\ gasto[n] \in Entrada /\ Buena(n, gasto[n], acordado, firmadas, caidas)
      /\ gasto[n] # Nada /\ gasto[n].tx # Nada
  BY DelMandante, NadaAssumption DEF IInv, Tipos, Ver, Viva
<1>3. g \in Entrada /\ Buena(n, g, acordado, firmadas, caidas)
  BY <1>2 DEF Entrada, Marcas, Con, Buena
<1>4. Pon(n, g)
  BY DEF Ver
<1>. HIDE DEF g
<1>5. /\ GastoBien /\ gasto'[n] = g
      /\ \A q \in Partes : q # n => gasto'[q] = gasto[q]
  BY <1>1, <1>3, <1>4, SigueBien, PonBien DEF IInv
<1>6. RedBien
  BY MismaRed DEF IInv, Ver
<1>7. Tipos'
  BY <1>5, <1>6 DEF IInv, Tipos, GastoBien, RedBien, Ver, historia, cuentas, tropiezos, Anillando
<1>8. SinEmpezar'
  <2>1. gasto'[n] # Nada
    BY <1>3, <1>5, NadaAssumption
  <2>. QED  BY <2>1, <1>2, <1>5, ConAlgo DEF Ver, tropiezos
<1>. QED  BY <1>1, <1>5, <1>6, <1>7, <1>8, Junta, MismaCopia DEF IInv, Ver

(* The receipt changes neither the thread nor the percentage.              *)
LEMMA PasoHecho ==
  ASSUME IInv, NEW n \in Partes, Hecho(n)
  PROVE  IInv'
<1>1. Crece
  BY DEF IInv, Tipos, Crece, Hecho, historia, tropiezos
<1>2. /\ copia' \in [Partes -> Copias] /\ copia'[n].estado = Pagada
      /\ \A m \in Partes : /\ copia'[m].notas = copia[m].notas /\ copia'[m].pct = copia[m].pct
                           /\ copia'[m].turno = copia[m].turno
                           /\ m # n => copia'[m] = copia[m]
  <2>. DEFINE c == [copia[n] EXCEPT !.estado = Pagada]
  <2>1. copia' = [copia EXCEPT ![n] = c]
    BY DEF Hecho
  <2>2. /\ c \in Copias /\ c.estado = Pagada /\ c.notas = copia[n].notas
        /\ c.pct = copia[n].pct /\ c.turno = copia[n].turno
    <3>. DEFINE o == copia[n]
    <3>1. o \in Copias
      BY DEF IInv, Tipos
    <3>. HIDE DEF o
    <3>2. LET d == [o EXCEPT !.estado = Pagada] IN
            /\ d \in Copias /\ d.estado = Pagada /\ d.notas = o.notas /\ d.pct = o.pct /\ d.turno = o.turno
      BY <3>1 DEF Copias
    <3>. QED  BY <3>2 DEF o
  <2>. HIDE DEF c
  <2>. QED  BY <2>1, <2>2 DEF IInv, Tipos
<1>3. GastoBien /\ RedBien
  BY MismoGasto, MismaRed DEF IInv, Hecho
<1>4. Tipos'
  BY <1>2, <1>3 DEF IInv, Tipos, GastoBien, RedBien, Hecho, historia, cuentas, tropiezos, Anillando
<1>5. Ofrecido'
  BY <1>2 DEF IInv, Ofrecido, Hecho, historia
<1>6. Parejas'
  BY <1>2, Dos DEF IInv, Parejas, Iguales, Adelantada
<1>7. SinEmpezar'
  <2>1. CASE n = Mandante
    BY <2>1, <1>2, YaEmpezo DEF EnPago, EnTrato, Pagada
  <2>2. CASE n = Contratista
    <3>1. ~SinEntrada
      BY <2>2 DEF IInv, SinEmpezar, SoloPidio, Hecho, Viva
    <3>. QED  BY <3>1, <2>2, <1>2, Dos DEF SinEmpezar, SinEntrada, Hecho, EnPago, tropiezos
  <2>. QED  BY <2>1, <2>2, Dos
<1>. QED  BY <1>1, <1>3, <1>4, <1>5, <1>6, <1>7, Junta DEF IInv

-----------------------------------------------------------------------------
(* The messages.                                                           *)

(* Before the principal's box has an entry, nothing but the request comes. *)
LEMMA LlegaTarde ==
  ASSUME IInv, NEW n \in Partes, NEW k, NEW paso, Llega(n, k, paso),
         paso # "spend-pedir" \/ n = Contratista,
         \A m \in Partes : m # n => gasto'[m] = gasto[m],
         gasto'[n] # Nada \/ gasto'[n] = gasto[n]
  PROVE  SinEmpezar'
<1>1. k \in DOMAIN red[n] /\ red[n][k].paso = paso
  BY LlegaBien DEF IInv
<1>2. red[n] # << >>
  BY <1>1
<1>3. ASSUME SinEntrada' PROVE SinEntrada
  BY <1>3, Dos DEF SinEntrada, EnPago, Llega
<1>4. ~SinEntrada
  <2>1. CASE n = Mandante
    BY <2>1, <1>1, Dos DEF IInv, SinEmpezar
  <2>2. CASE n = Contratista
    BY <2>2, <1>2 DEF IInv, SinEmpezar
  <2>. QED  BY <2>1, <2>2, Dos
<1>. QED  BY <1>3, <1>4 DEF SinEmpezar

(* Once the message is taken, what is left is that the entry is good.      *)
LEMMA LlegaPaso ==
  ASSUME IInv, NEW n \in Partes, NEW k, NEW paso, Llega(n, k, paso), GastoBien, SinEmpezar'
  PROVE  IInv'
<1>1. RedBien /\ Crece
  BY LlegaBien DEF IInv
<1>2. Tipos'
  BY <1>1 DEF IInv, Tipos, GastoBien, RedBien, Llega, historia, cuentas, Anillando
<1>. QED  BY <1>1, <1>2, Junta, MismaCopia DEF IInv, Llega

LEMMA TomaBien ==
  ASSUME IInv, NEW n \in Partes, NEW k, NEW paso, NEW g, Toma(n, k, paso, g), paso # "spend-pedir",
         Tiene(gasto[n], "peer") => g \in Entrada /\ Buena(n, g, acordado, firmadas, caidas)
  PROVE  IInv'
<1>1. Llega(n, k, paso) /\ Crece
  BY LlegaBien DEF IInv, Toma
<1>2. CASE Tiene(gasto[n], "peer")
  <2>1. /\ GastoBien /\ gasto'[n] = g
        /\ \A q \in Partes : q # n => gasto'[q] = gasto[q]
    BY <1>1, <1>2, SigueBien, PonBien DEF IInv, Toma
  <2>2. g # Nada
    BY <1>2, NadaAssumption
  <2>. QED  BY <1>1, <2>1, <2>2, LlegaTarde, LlegaPaso
<1>3. CASE ~Tiene(gasto[n], "peer")
  <2>1. GastoBien /\ gasto' = gasto
    BY <1>3, MismoGasto DEF IInv, Toma
  <2>. QED  BY <1>1, <2>1, LlegaTarde, LlegaPaso
<1>. QED  BY <1>2, <1>3

(* What a message that arrives carries.                                    *)
LEMMA Carga ==
  ASSUME IInv, NEW n \in Partes, NEW k, NEW paso, Llega(n, k, paso)
  PROVE  /\ paso = "spend-open" =>
              /\ red[n][k].cuerpo.prop \in Propuesta /\ red[n][k].cuerpo.pre \in Ids
              /\ Acordaron(red[n][k].cuerpo.prop.pct, acordado, caidas)
         /\ paso = "spend-pre" => red[n][k].cuerpo \in Ids
         /\ paso = "spend-share" =>
              /\ red[n][k].cuerpo \in Parte
              /\ TxDe(red[n][k].cuerpo.prop) \in firmadas[Otro(n)]
         /\ paso = "spend-tx" => red[n][k].cuerpo \in Tx
<1>1. /\ k \in DOMAIN red[n] /\ red[n][k] \in Mensajes /\ red[n][k].paso = paso
  BY LlegaBien DEF IInv
<1>2. Bueno(n, red[n][k], acordado, firmadas, caidas)
  BY <1>1 DEF IInv, EnCamino
<1>. QED  BY <1>1, <1>2 DEF Mensajes, Bueno

LEMMA PasoTomarApertura ==
  ASSUME IInv, NEW n \in Partes, NEW k, TomarApertura(n, k)
  PROVE  IInv'
<1>. DEFINE c == red[n][k].cuerpo
            h == [gasto[n] EXCEPT !.propuesta = c.prop, !.pre = c.pre, !.error = Nada]
            g == IF Tiene(gasto[n], "mandante") THEN gasto[n] ELSE h
<1>1. Toma(n, k, "spend-open", g)
  BY DEF TomarApertura
<1>2. c.prop \in Propuesta /\ c.pre \in Ids /\ Acordaron(c.prop.pct, acordado, caidas)
  BY <1>1, Carga DEF Toma
<1>. HIDE DEF c
<1>3. ASSUME Tiene(gasto[n], "peer")
      PROVE  g \in Entrada /\ Buena(n, g, acordado, firmadas, caidas)
  <2>1. gasto[n] \in Entrada /\ Buena(n, gasto[n], acordado, firmadas, caidas)
    BY <1>3, DelMandante DEF Tiene
  <2>2. h \in Entrada /\ Buena(n, h, acordado, firmadas, caidas)
    BY <2>1, <1>2 DEF Entrada, Buena
  <2>. QED  BY <2>1, <2>2
<1>. QED  BY <1>1, <1>3, TomaBien

LEMMA PasoTomarPre ==
  ASSUME IInv, NEW n \in Partes, NEW k, TomarPre(n, k)
  PROVE  IInv'
<1>. DEFINE c == red[n][k].cuerpo
            g == [gasto[n] EXCEPT !.pre = c]
<1>1. Toma(n, k, "spend-pre", g)
  BY DEF TomarPre
<1>2. c \in Ids
  BY <1>1, Carga DEF Toma
<1>. HIDE DEF c
<1>3. ASSUME Tiene(gasto[n], "peer")
      PROVE  g \in Entrada /\ Buena(n, g, acordado, firmadas, caidas)
  <2>1. gasto[n] \in Entrada /\ Buena(n, gasto[n], acordado, firmadas, caidas)
    BY <1>3, DelMandante DEF Tiene
  <2>2. g \in Entrada
    BY <2>1, <1>2 DEF Entrada
  <2>3. Buena(n, g, acordado, firmadas, caidas)
    BY <2>1, <1>2 DEF Entrada, Buena
  <2>. QED  BY <2>2, <2>3
<1>. QED  BY <1>1, <1>3, TomaBien

LEMMA PasoTomarParte ==
  ASSUME IInv, NEW n \in Partes, NEW k, TomarParte(n, k)
  PROVE  IInv'
<1>. DEFINE c == red[n][k].cuerpo
            g == [gasto[n] EXCEPT !.share = c]
<1>1. Toma(n, k, "spend-share", g)
  BY DEF TomarParte
<1>2. c \in Parte /\ TxDe(c.prop) \in firmadas[Otro(n)]
  BY <1>1, Carga DEF Toma
<1>. HIDE DEF c
<1>3. ASSUME Tiene(gasto[n], "peer")
      PROVE  g \in Entrada /\ Buena(n, g, acordado, firmadas, caidas)
  <2>1. gasto[n] \in Entrada /\ Buena(n, gasto[n], acordado, firmadas, caidas)
    BY <1>3, DelMandante DEF Tiene
  <2>2. g \in Entrada
    BY <2>1, <1>2 DEF Entrada
  <2>3. Buena(n, g, acordado, firmadas, caidas)
    BY <2>1, <1>2 DEF Entrada, Buena
  <2>. QED  BY <2>2, <2>3
<1>. QED  BY <1>1, <1>3, TomaBien

LEMMA PasoTomarTx ==
  ASSUME IInv, NEW n \in Partes, NEW k, TomarTx(n, k)
  PROVE  IInv'
<1>. DEFINE c == red[n][k].cuerpo
            g == [gasto[n] EXCEPT !.tx = c, !.error = Nada]
<1>1. Toma(n, k, "spend-tx", g)
  BY DEF TomarTx
<1>2. c \in Tx
  BY <1>1, Carga DEF Toma
<1>. HIDE DEF c
<1>3. ASSUME Tiene(gasto[n], "peer")
      PROVE  g \in Entrada /\ Buena(n, g, acordado, firmadas, caidas)
  <2>1. gasto[n] \in Entrada /\ Buena(n, gasto[n], acordado, firmadas, caidas)
    BY <1>3, DelMandante DEF Tiene
  <2>2. g \in Entrada
    BY <2>1, <1>2 DEF Entrada
  <2>3. Buena(n, g, acordado, firmadas, caidas)
    BY <2>1, <1>2 DEF Entrada, Buena
  <2>. QED  BY <2>2, <2>3
<1>. QED  BY <1>1, <1>3, TomaBien

(* The request says no percentage, and the entry opened for it asks for    *)
(* the one in the copy of this box: the other accepted that one.           *)
LEMMA PasoTomarPedido ==
  ASSUME IInv, NEW n \in Partes, NEW k, TomarPedido(n, k)
  PROVE  IInv'
<1>1. Llega(n, k, "spend-pedir") /\ Crece
  BY LlegaBien DEF IInv, TomarPedido
<1>2. k \in DOMAIN red[n] /\ red[n] # << >>
  BY <1>1, LlegaBien DEF IInv
<1>3. ASSUME gasto[n] = Nada, EnPago(n), n = Mandante, caidas = 0
      PROVE  \A m \in Partes : Monto(copia[n].pct) \in acordado[m]
  <2>1. SinEntrada /\ red[Mandante] # << >>
    BY <1>2, <1>3 DEF SinEntrada
  <2>2. SoloPidio
    BY <2>1 DEF IInv, SinEmpezar
  <2>3. copia[Contratista].turno = Contratista /\ Monto(copia[Contratista].pct) \in acordado[Contratista]
    BY <2>2 DEF SoloPidio
  <2>4. copia[Mandante].pct = copia[Contratista].pct
    BY <2>3, ConTurno, Dos DEF Iguales
  <2>5. Monto(copia[Contratista].pct) \in acordado[Mandante]
    BY <2>3, Dos DEF IInv, Ofrecido
  <2>. QED  BY <1>3, <2>3, <2>4, <2>5, Dos
<1>4. CASE gasto[n] = Nada /\ EnPago(n)
  <2>1. Buena(n, Nueva(n), acordado, firmadas, caidas)
    <3>1. n = Mandante => Acordaron(copia[n].pct, acordado, caidas)
      BY <1>3, <1>4 DEF IInv, Tipos, Acordaron
    <3>. QED  BY <3>1, EsNueva DEF IInv, Buena
  <2>2. /\ GastoBien /\ gasto'[n] = Nueva(n) /\ Nueva(n) # Nada
        /\ \A q \in Partes : q # n => gasto'[q] = gasto[q]
    BY <1>1, <1>4, <2>1, EsNueva, SigueBien, PonBien, NadaAssumption DEF IInv, TomarPedido
  <2>3. SinEmpezar'
    BY <1>1, <2>2, LlegaTarde, YaEmpezo, Dos
  <2>. QED  BY <1>1, <2>2, <2>3, LlegaPaso
<1>5. CASE ~(gasto[n] = Nada /\ EnPago(n))
  <2>1. GastoBien /\ gasto' = gasto
    BY <1>5, MismoGasto DEF IInv, TomarPedido
  <2>2. SinEmpezar'
    <3>1. CASE n = Mandante
      BY <1>1, <1>5, <2>1, <3>1, YaEmpezo DEF Llega, EnPago
    <3>2. CASE n = Contratista
      BY <1>1, <2>1, <3>2, LlegaTarde
    <3>. QED  BY <3>1, <3>2, Dos
  <2>. QED  BY <1>1, <2>1, <2>2, LlegaPaso
<1>. QED  BY <1>4, <1>5

LEMMA PasoTomarError ==
  ASSUME IInv, NEW n \in Partes, NEW k, TomarError(n, k)
  PROVE  IInv'
<1>. DEFINE e == [SinNada EXCEPT !.marcas = {"peer"}, !.error = "otro"]
            h == [gasto[n] EXCEPT !.error = "otro"]
            g == IF gasto[n] = Nada THEN e ELSE h
<1>1. Llega(n, k, "spend-error") /\ Crece
  BY LlegaBien DEF IInv, TomarError
<1>2. e \in Entrada /\ Buena(n, e, acordado, firmadas, caidas)
  BY DEF SinNada, Entrada, Marcas, Buena
<1>3. ASSUME gasto[n] # Nada PROVE h \in Entrada /\ Buena(n, h, acordado, firmadas, caidas)
  <2>1. gasto[n] \in Entrada /\ Buena(n, gasto[n], acordado, firmadas, caidas)
    BY <1>3, DelMandante
  <2>. QED  BY <2>1 DEF Entrada, Buena
<1>4. Pon(n, g)
  BY DEF TomarError
<1>. HIDE DEF e, h
<1>5. g \in Entrada /\ Buena(n, g, acordado, firmadas, caidas)
  BY <1>2, <1>3
<1>. HIDE DEF g
<1>6. /\ GastoBien /\ gasto'[n] = g
      /\ \A q \in Partes : q # n => gasto'[q] = gasto[q]
  BY <1>1, <1>4, <1>5, SigueBien, PonBien DEF IInv
<1>7. SinEmpezar'
  BY <1>1, <1>5, <1>6, LlegaTarde, NadaAssumption
<1>. QED  BY <1>1, <1>6, <1>7, LlegaPaso

-----------------------------------------------------------------------------
(* What goes wrong.                                                        *)

LEMMA PasoPerder ==
  ASSUME IInv, NEW n \in Partes, Perder(n)
  PROVE  IInv'
<1>1. Crece
  BY DEF IInv, Tipos, Crece, Perder, historia
<1>2. GastoBien
  BY MismoGasto DEF IInv, Perder
<1>3. red[n] \in Seq(Mensajes) /\ red[n] # << >>
  BY DEF IInv, Tipos, Perder
<1>4. /\ Tail(red[n]) \in Seq(Mensajes)
      /\ \A k \in DOMAIN Tail(red[n]) : \E i \in DOMAIN red[n] : Tail(red[n])[k] = red[n][i]
  BY <1>3, SinPrimero
<1>5. /\ RedBien /\ red'[n] = Tail(red[n]) /\ \A m \in Partes : m # n => red'[m] = red[m]
  <2>. DEFINE q == Tail(red[n])
  <2>1. red' = [red EXCEPT ![n] = q]
    BY DEF Perder
  <2>2. q \in Seq(Mensajes) /\ \A k \in DOMAIN q : \E i \in DOMAIN red[n] : q[k] = red[n][i]
    BY <1>4
  <2>. HIDE DEF q
  <2>3. /\ RedBien /\ red'[n] = q /\ \A m \in Partes : m # n => red'[m] = red[m]
    BY <2>1, <2>2, MenosBien DEF IInv
  <2>. QED  BY <2>3 DEF q
<1>6. Tipos'
  BY <1>2, <1>5 DEF IInv, Tipos, GastoBien, RedBien, Perder, historia, cuentas, Anillando
<1>7. SinEmpezar'
  <2>1. ASSUME SinEntrada' PROVE SinEntrada
    BY <2>1 DEF SinEntrada, EnPago, Perder
  <2>2. ASSUME SinEntrada PROVE n = Mandante /\ gasto[Contratista] # Nada /\ SoloPidio
    BY <2>2, <1>3, Dos DEF IInv, SinEmpezar
  <2>3. ASSUME SinEntrada PROVE SoloPidio'
    BY <2>2, <2>3 DEF SoloPidio, Perder, EnPago, historia
  <2>4. ASSUME SinEntrada PROVE \A k \in DOMAIN red'[Mandante] : red'[Mandante][k].paso = "spend-pedir"
    <3>1. \A i \in DOMAIN red[n] : red[n][i].paso = "spend-pedir"
      BY <2>2, <2>4 DEF IInv, SinEmpezar
    <3>2. \A k \in DOMAIN red'[n] : \E i \in DOMAIN red[n] : red'[n][k] = red[n][i]
      BY <1>4, <1>5
    <3>. QED  BY <3>1, <3>2, <2>2, <2>4
  <2>5. ASSUME SinEntrada PROVE red'[Contratista] = << >>
    BY <2>2, <2>5, <1>5, Dos DEF IInv, SinEmpezar
  <2>. QED  BY <2>1, <2>2, <2>3, <2>4, <2>5 DEF SinEmpezar, Perder
<1>. QED  BY <1>1, <1>2, <1>5, <1>6, <1>7, Junta, MismaCopia DEF IInv, Perder

LEMMA PasoTardar ==
  ASSUME IInv, NEW n \in Partes, Tardar(n)
  PROVE  IInv'
<1>1. Crece
  BY DEF IInv, Tipos, Crece, Tardar, historia
<1>2. GastoBien /\ RedBien
  BY MismoGasto, MismaRed DEF IInv, Tardar
<1>3. Tipos'
  BY <1>2 DEF IInv, Tipos, GastoBien, RedBien, Tardar, historia, cuentas, Anillando
<1>4. SinEmpezar'
  BY <1>1, SigueSinEmpezar DEF Tardar
<1>. QED  BY <1>1, <1>2, <1>3, <1>4, Junta, MismaCopia DEF IInv, Tardar

(* A box that starts again has the transaction it waits for and no more.   *)
LEMMA PasoCaer ==
  ASSUME IInv, NEW n \in Partes, Caer(n)
  PROVE  IInv'
<1>1. Crece /\ caidas' # 0
  BY DEF IInv, Tipos, Crece, Caer, historia
<1>. DEFINE g == IF n = Mandante /\ espera # Nada THEN Recargada(espera) ELSE Nada
<1>2. ASSUME espera # Nada
      PROVE  Recargada(espera) \in Entrada /\ Buena(n, Recargada(espera), acordado', firmadas', caidas')
  BY <1>2 DEF IInv, Tipos, Recargada, SinNada, Entrada, Marcas, Buena
<1>3. Pon(n, g)
  BY DEF Caer
<1>4. g = Nada \/ (g \in Entrada /\ Buena(n, g, acordado', firmadas', caidas'))
  BY <1>2
<1>. HIDE DEF g
<1>5. GastoBien
  BY <1>3, <1>4, PonBien DEF IInv
<1>6. RedBien
  BY MismaRed DEF IInv, Caer
<1>7. Tipos'
  BY <1>1, <1>5, <1>6, NadaAssumption DEF IInv, Tipos, Crece, GastoBien, RedBien, Caer, historia, cuentas, Anillando
<1>. QED  BY <1>1, <1>5, <1>6, <1>7, Junta, MismaCopia, YaEmpezo DEF IInv, Caer

LEMMA Inicio ==
  ASSUME Init
  PROVE  IInv
<1>1. PICK pct \in Pcts :
        /\ copia = [n \in Partes |->
                     [notas |-> 0, pct |-> pct, turno |-> Mandante, estado |-> EnTrato]]
        /\ acordado = [n \in Partes |->
                        IF n = Contratista THEN {[etapa |-> 1, monto |-> pct]} ELSE {}]
  BY DEF Init
<1>2. Tipos
  <2>1. copia \in [Partes -> Copias]
    BY <1>1, Dos DEF Copias
  <2>2. acordado \in [Partes -> SUBSET [etapa : {1}, monto : Pcts]]
    BY <1>1
  <2>3. red \in [Partes -> Seq(Mensajes)] /\ sesiones \in [Partes -> 0 .. MaxSesiones]
    BY GastoAssumption DEF Init
  <2>. QED  BY <2>1, <2>2, <2>3, GastoAssumption DEF Tipos, Init, Anillando
<1>3. Ofrecido /\ Parejas
  BY <1>1, Dos DEF Ofrecido, Parejas, Iguales, Monto
<1>4. Entradas /\ EnCamino /\ SinEmpezar
  BY Dos DEF Init, Entradas, EnCamino, SinEmpezar
<1>. QED  BY <1>2, <1>3, <1>4 DEF IInv

-----------------------------------------------------------------------------
(* The invariant: IInv holds at the start and every step keeps it.         *)

LEMMA PasoQuieto ==
  ASSUME IInv, UNCHANGED vars
  PROVE  IInv'
<1>1. Crece
  BY DEF IInv, Tipos, Crece, vars, historia, tropiezos
<1>2. GastoBien /\ RedBien
  BY MismoGasto, MismaRed DEF IInv, vars
<1>3. Tipos'
  BY <1>2 DEF IInv, Tipos, GastoBien, RedBien, vars, historia, cuentas, tropiezos, Anillando
<1>4. SinEmpezar'
  BY <1>1, SigueSinEmpezar DEF vars, tropiezos
<1>. QED  BY <1>1, <1>2, <1>3, <1>4, Junta, MismaCopia DEF IInv, vars

LEMMA Paso ==
  ASSUME IInv, [Next]_vars
  PROVE  IInv'
<1>1. ASSUME NEW n \in Partes, DePersona(n) PROVE IInv'
  BY <1>1, PasoAceptar, PasoPedirAtras, PasoContraofertar DEF DePersona
<1>2. ASSUME NEW n \in Partes, DeTick(n) PROVE IInv'
  BY <1>2, PasoLimpiar, PasoAvisar, PasoAnillar, PasoAbrir, PasoFirmar, PasoNoCuadra,
     PasoVer, PasoHecho, PasoFusionar DEF DeTick
<1>3. ASSUME DeUno PROVE IInv'
  BY <1>3, PasoArmar, PasoCompletar, PasoPublicar, PasoPublicado, PasoNoPublicado DEF DeUno
<1>4. ASSUME NEW n \in Partes, Tropezar(n) PROVE IInv'
  BY <1>4, PasoPerder, PasoTardar, PasoCaer, PasoSinCaja DEF Tropezar
<1>5. ASSUME NEW n \in Partes, NEW k \in DOMAIN red[n], DeMensaje(n, k) PROVE IInv'
  BY <1>5, PasoTomarPedido, PasoTomarApertura, PasoTomarPre, PasoTomarParte, PasoTomarTx,
     PasoTomarError DEF DeMensaje
<1>. QED  BY <1>1, <1>2, <1>3, <1>4, <1>5, PasoNoAnillo, PasoQuieto DEF Next

(* Whatever is lost, overtaken, stopped or started again, an entry, a      *)
(* session and a message of the payment speak of a percentage both people  *)
(* agreed to, until a program restarts (abrir_gasto_red, tomar_apertura).  *)
THEOREM Invariante == Spec => []IInv
BY Inicio, Paso, PTL DEF Spec

-----------------------------------------------------------------------------
(* The refinement: Firmar signs, Publicar publishes what both signed, and  *)
(* in every other step people agree to something or nothing happens.       *)

LEMMA Consienten ==
  ASSUME IInv, Crece, IInv'
  PROVE  \A n \in Partes : Consentido[n] \subseteq Consentido'[n]
BY DEF IInv, Tipos, Crece, Consentido

LEMMA Acuerdan ==
  ASSUME IInv, Crece, IInv', firmadas' = firmadas, cadena' = cadena
  PROVE  Ambos!Next
BY Consienten DEF Ambos!Next, Ambos!Acordar

LEMMA Firma ==
  ASSUME IInv, NEW n \in Partes, Firmar(n)
  PROVE  Ambos!Next
<1>. DEFINE p == gasto[n].sesion.prop
            t == TxDe(p)
<1>1. Acordaron(p.pct, acordado, caidas) /\ gasto[n].sesion \in Sesion
  BY DelMandante DEF Firmar, Anda, Viva, Buena, Entrada
<1>2. p \in Propuesta /\ p.pct \in Pcts
  BY <1>1 DEF Sesion, Propuesta
<1>3. t.etapa = 1 /\ t.monto = p.pct
  BY DEF TxDe
<1>4. [etapa |-> t.etapa, monto |-> t.monto] \in Consentido[n]
  <2>1. [etapa |-> t.etapa, monto |-> t.monto] = Monto(p.pct)
    BY <1>3 DEF Monto
  <2>2. Monto(p.pct) \in [etapa : {1}, monto : Pcts]
    BY <1>2 DEF Monto
  <2>. HIDE DEF t, p
  <2>3. Consentido[n] = IF caidas = 0 THEN acordado[n] ELSE [etapa : {1}, monto : Pcts]
    BY DEF Consentido
  <2>4. caidas = 0 => Monto(p.pct) \in acordado[n]
    BY <1>1 DEF Acordaron
  <2>. QED  BY <2>1, <2>2, <2>3, <2>4
<1>5. firmadas' = [firmadas EXCEPT ![n] = @ \cup {t}] /\ cadena' = cadena
  BY DEF Firmar
<1>6. Consentido' = Consentido
  BY DEF Firmar, Consentido, tropiezos
<1>. HIDE DEF t, p
<1>7. /\ \A m \in Partes : firmadas[m] \subseteq firmadas'[m]
      /\ \A m \in Partes : \A u \in firmadas'[m] \ firmadas[m] : m = n /\ u = t
  BY <1>5 DEF IInv, Tipos
<1>8. Ambos!Firmar
  BY <1>4, <1>5, <1>6, <1>7 DEF Ambos!Firmar
<1>. QED  BY <1>8 DEF Ambos!Next

LEMMA Publica ==
  ASSUME IInv, IInv', Publicar
  PROVE  Ambos!Next
<1>. DEFINE g == gasto[Mandante]
            t == TxDe(g.firmada.prop)
<1>1. \/ cadena' = cadena
      \/ cadena = {} /\ cadena' = {t}
  BY DEF Publicar, Difusiones
<1>2. Crece /\ firmadas' = firmadas
  BY DEF IInv, Tipos, Crece, Publicar, historia
<1>3. CASE cadena' = cadena
  BY <1>2, <1>3, Acuerdan
<1>4. CASE cadena = {} /\ cadena' = {t}
  <2>1. g # Nada /\ g.firmada # Nada /\ g.share # Nada /\ g.share.prop = g.firmada.prop
    BY DEF Publicar, ListaParaCompletar, Anda, Viva, Cuadra
  <2>2. Buena(Mandante, g, acordado, firmadas, caidas)
    BY <2>1, DelMandante, Dos
  <2>3. t \in firmadas[Mandante] /\ t \in firmadas[Contratista]
    BY <2>1, <2>2, Dos DEF Buena
  <2>4. Consentido' = Consentido
    BY DEF Publicar, Consentido, historia
  <2>. HIDE DEF t, g
  <2>5. Ambos!Firmar
    BY <1>2, <1>4, <2>3, <2>4, Dos DEF Ambos!Firmar
  <2>. QED  BY <2>5 DEF Ambos!Next
<1>. QED  BY <1>1, <1>3, <1>4

LEMMA Lleva ==
  ASSUME NEW n, NEW k, NEW paso, Llega(n, k, paso)
  PROVE  UNCHANGED <<acordado, firmadas, cadena, caidas>>
BY DEF Llega, historia

(* No other step signs or publishes.                                       *)
LEMMA LosDemas ==
  ASSUME IInv, [Next]_vars, ~Publicar, \A n \in Partes : ~Firmar(n)
  PROVE  Crece /\ firmadas' = firmadas /\ cadena' = cadena
<1>. DEFINE Igual == Crece /\ firmadas' = firmadas /\ cadena' = cadena
<1>1. ASSUME UNCHANGED <<acordado, firmadas, cadena, caidas>> PROVE Igual
  BY <1>1 DEF IInv, Tipos, Crece
<1>2. ASSUME NEW n \in Partes, DePersona(n) PROVE Igual
  <2>1. ASSUME NEW pct, Acuerda(n, pct), UNCHANGED <<firmadas, cadena, caidas>> PROVE Igual
    BY <2>1 DEF IInv, Tipos, Crece, Acuerda
  <2>2. CASE Aceptar(n)
    BY <2>1, <2>2 DEF Aceptar
  <2>3. CASE PedirAtras(n)
    BY <1>1, <2>3 DEF PedirAtras, historia, tropiezos
  <2>4. ASSUME NEW pct \in Pcts, Contraofertar(n, pct) PROVE Igual
    BY <2>1, <2>4 DEF Contraofertar
  <2>. QED  BY <1>2, <2>2, <2>3, <2>4 DEF DePersona
<1>3. ASSUME NEW n \in Partes, DeTick(n) PROVE Igual
  <2>1. CASE Limpiar(n)   BY <1>1, <2>1 DEF Limpiar, historia, tropiezos
  <2>2. CASE Avisar(n)    BY <1>1, <2>2 DEF Avisar, historia, tropiezos
  <2>3. CASE Anillar(n)   BY <1>1, <2>3 DEF Anillar, historia, tropiezos
  <2>4. CASE Abrir(n)     BY <1>1, <2>4 DEF Abrir, historia, tropiezos
  <2>5. CASE NoCuadra(n)  BY <1>1, <2>5 DEF NoCuadra, historia, tropiezos
  <2>6. CASE Ver(n)       BY <1>1, <2>6 DEF Ver, historia, tropiezos
  <2>7. CASE Hecho(n)     BY <1>1, <2>7 DEF Hecho, historia, tropiezos
  <2>8. CASE Fusionar(n)  BY <1>1, <2>8 DEF Fusionar, historia, tropiezos
  <2>. QED  BY <1>3, <2>1, <2>2, <2>3, <2>4, <2>5, <2>6, <2>7, <2>8 DEF DeTick
<1>4. ASSUME DeUno PROVE Igual
  <2>1. CASE Armar        BY <1>1, <2>1 DEF Armar, historia, tropiezos
  <2>2. CASE Completar    BY <1>1, <2>2 DEF Completar, historia, tropiezos
  <2>3. CASE Publicado    BY <1>1, <2>3 DEF Publicado, historia, tropiezos
  <2>4. CASE NoPublicado  BY <1>1, <2>4 DEF NoPublicado, historia, tropiezos
  <2>. QED  BY <1>4, <2>1, <2>2, <2>3, <2>4 DEF DeUno
<1>5. ASSUME NoAnillo PROVE Igual
  BY <1>1, <1>5 DEF NoAnillo, historia
<1>6. ASSUME NEW n \in Partes, Tropezar(n) PROVE Igual
  <2>1. CASE Perder(n)    BY <1>1, <2>1 DEF Perder, historia
  <2>2. CASE Tardar(n)    BY <1>1, <2>2 DEF Tardar, historia
  <2>3. CASE Caer(n)      BY <2>3 DEF IInv, Tipos, Crece, Caer, historia
  <2>4. ASSUME NEW causa, SinCaja(n, causa) PROVE Igual
    BY <1>1, <2>4 DEF SinCaja, historia
  <2>. QED  BY <1>6, <2>1, <2>2, <2>3, <2>4 DEF Tropezar
<1>7. ASSUME NEW n \in Partes, NEW k \in DOMAIN red[n], DeMensaje(n, k) PROVE Igual
  <2>1. \E paso : Llega(n, k, paso)
    BY <1>7 DEF DeMensaje, TomarPedido, TomarApertura, TomarPre, TomarParte, TomarTx, TomarError, Toma
  <2>. QED  BY <1>1, <2>1, Lleva
<1>8. ASSUME UNCHANGED vars PROVE Igual
  BY <1>1, <1>8 DEF vars, historia, tropiezos
<1>. QED  BY <1>2, <1>3, <1>4, <1>5, <1>6, <1>7, <1>8 DEF Next

LEMMA InicioAmbos ==
  ASSUME Init
  PROVE  Ambos!Init
BY DEF Init, Ambos!Init, Consentido

LEMMA PasoAmbos ==
  ASSUME IInv, IInv', [Next]_vars
  PROVE  [Ambos!Next]_(Ambos!vars)
<1>1. CASE Publicar
  BY <1>1, Publica
<1>2. CASE \E n \in Partes : Firmar(n)
  BY <1>2, Firma
<1>3. CASE ~Publicar /\ \A n \in Partes : ~Firmar(n)
  BY <1>3, LosDemas, Acuerdan
<1>. QED  BY <1>1, <1>2, <1>3

(* The payment session implements the transaction of two: a payment the    *)
(* network accepts was signed by both boxes, spends the box once and,      *)
(* until a program restarts, pays a percentage both people agreed to       *)
(* (SpendSigned::complete), with any bounds and any number of mishaps.     *)
THEOREM FirmanLosDos == Spec => FirmanAmbos
<1>1. Init => Ambos!Init
  BY InicioAmbos
<1>2. IInv /\ IInv' /\ [Next]_vars => [Ambos!Next]_(Ambos!vars)
  BY PasoAmbos
<1>. QED  BY <1>1, <1>2, Invariante, PTL DEF Spec, FirmanAmbos, Ambos!Spec

-----------------------------------------------------------------------------
(* The payment is not forgotten.                                           *)

(* An entry that knows a transaction completed it, or comes from the file  *)
(* and takes part in nothing.                                              *)
Fiel(g) ==
  g.tx # Nada =>
    \/ "blob" \in g.marcas
    \/ /\ g.marcas \cap {"peer", "mandante"} = {}
       /\ g.propuesta = Nada /\ g.sesion = Nada /\ g.firmada = Nada

(* Nobody tells the principal of a payment.                                *)
SinTx == \A k \in DOMAIN red[Mandante] : red[Mandante][k].paso # "spend-tx"

(* The box and the file of the principal know what is on the chain.        *)
Recuerda ==
  \A t \in cadena : EnPago(Mandante)
    => gasto[Mandante] # Nada /\ gasto[Mandante].tx = t /\ espera = t

JInv ==
  /\ vueltas \in Nat
  /\ SinTx
  /\ gasto[Mandante] # Nada => Fiel(gasto[Mandante])
  /\ vueltas = 0 => Recuerda

LEMMA MasTx ==
  ASSUME SinTx,
         \A k \in DOMAIN red'[Mandante] :
           red'[Mandante][k].paso # "spend-tx" \/ \E i \in DOMAIN red[Mandante] : red'[Mandante][k] = red[Mandante][i]
  PROVE  SinTx'
BY DEF SinTx

LEMMA SinTxEnvia ==
  ASSUME Tipos, SinTx, NEW n \in Partes, NEW m \in Mensajes, Envia(n, m),
         n = Contratista => m.paso # "spend-tx"
  PROVE  SinTx'
<1>1. red[Otro(n)] \in Seq(Mensajes) /\ Otro(n) \in Partes
  BY Dos DEF Tipos
<1>2. red'[Otro(n)] = Append(red[Otro(n)], m) /\ \A q \in Partes : q # Otro(n) => red'[q] = red[q]
  BY <1>1 DEF Tipos, Envia
<1>3. \A k \in DOMAIN red'[Otro(n)] :
        red'[Otro(n)][k] = m \/ \E i \in DOMAIN red[Otro(n)] : red'[Otro(n)][k] = red[Otro(n)][i]
  BY <1>1, <1>2, AlFinal
<1>4. CASE n = Contratista
  BY <1>4, <1>3, Dos, MasTx
<1>5. CASE n = Mandante
  BY <1>5, <1>2, Dos DEF SinTx
<1>. QED  BY <1>4, <1>5, Dos

(* The entry of the principal is left alone, or changes without losing     *)
(* the transaction it knows.                                               *)
Respeta ==
  \/ gasto'[Mandante] = gasto[Mandante]
  \/ /\ gasto[Mandante] # Nada /\ gasto'[Mandante] # Nada
     /\ gasto'[Mandante].tx = gasto[Mandante].tx /\ Fiel(gasto'[Mandante])

(* A step that leaves the chain and the file alone.                        *)
LEMMA Conserva ==
  ASSUME JInv, SinTx', Respeta, cadena' = cadena, espera' = espera,
         vueltas' \in {vueltas, vueltas + 1}, EnPago(Mandante)' => EnPago(Mandante)
  PROVE  JInv'
<1>1. vueltas' \in Nat /\ (vueltas' = 0 => vueltas = 0)
  BY DEF JInv
<1>2. gasto'[Mandante] # Nada => Fiel(gasto'[Mandante])
  BY DEF JInv, Respeta
<1>3. ASSUME vueltas' = 0 PROVE Recuerda'
  BY <1>1, <1>3 DEF JInv, Recuerda, Respeta
<1>. QED  BY <1>1, <1>2, <1>3 DEF JInv, Fiel

LEMMA Escribe ==
  ASSUME Tipos, JInv, NEW n \in Partes, NEW h \in Entrada, Pon(n, h), gasto[n] # Nada,
         h.tx = gasto[n].tx,
         n = Mandante /\ Fiel(gasto[n]) => Fiel(h)
  PROVE  Respeta
<1>1. CASE n = Mandante
  BY <1>1, NadaAssumption DEF Tipos, JInv, Pon, Respeta
<1>2. CASE n = Contratista
  BY <1>2, Dos DEF Tipos, Pon, Respeta
<1>. QED  BY <1>1, <1>2, Dos

LEMMA NoEscribe ==
  ASSUME Tipos, gasto' = gasto \/ \E h : Pon(Contratista, h)
  PROVE  Respeta
BY Dos DEF Tipos, Pon, Respeta

LEMMA SinTxIgual == ASSUME SinTx, red' = red PROVE SinTx'
BY DEF SinTx

LEMMA SinTxLlega ==
  ASSUME Tipos, SinTx, NEW n \in Partes, NEW k, NEW paso, Llega(n, k, paso)
  PROVE  SinTx' /\ (n = Mandante => paso # "spend-tx")
<1>1. /\ k \in DOMAIN red[n] /\ red[n][k].paso = paso
      /\ \A j \in DOMAIN red'[n] : \E i \in DOMAIN red[n] : red'[n][j] = red[n][i]
      /\ \A m \in Partes : m # n => red'[m] = red[m]
  BY LlegaBien
<1>2. SinTx'
  BY <1>1, MasTx, Dos
<1>. QED  BY <1>1, <1>2 DEF SinTx

(* Going back on a payment that stopped is the only way to forget it.      *)
LEMMA RecAceptar ==
  ASSUME IInv, JInv, NEW n \in Partes, Aceptar(n)
  PROVE  JInv'
<1>1. SinTx' /\ vueltas' \in {vueltas, vueltas + 1} /\ EnPago(Mandante)' = EnPago(Mandante)
  BY SinTxIgual DEF JInv, Aceptar, Vuelve, EnPago
<1>2. CASE n = Contratista
  <2>1. Respeta
    BY <1>2, NoEscribe DEF IInv, Aceptar
  <2>. QED  BY <1>1, <2>1, Conserva DEF Aceptar
<1>3. CASE n = Mandante
  <2>1. gasto'[n] = Nueva(n) /\ Nueva(n).tx = Nada
    BY EsNueva DEF IInv, Tipos, Aceptar, Pon
  <2>2. vueltas' \in Nat
    BY <1>1 DEF JInv
  <2>3. ASSUME vueltas' = 0 PROVE cadena = {}
    <3>1. vueltas = 0 /\ gasto[n] = Nada
      BY <2>3 DEF JInv, Aceptar, Vuelve
    <3>. QED  BY <1>3, <3>1 DEF JInv, Recuerda, Aceptar, Toca
  <2>4. vueltas' = 0 => Recuerda'
    BY <2>3 DEF Recuerda, Aceptar
  <2>. QED  BY <1>1, <1>3, <2>1, <2>2, <2>4 DEF JInv, Fiel
<1>. QED  BY <1>2, <1>3, Dos

LEMMA RecContraofertar ==
  ASSUME IInv, JInv, NEW n \in Partes, NEW pct \in Pcts, Contraofertar(n, pct)
  PROVE  JInv'
<1>1. SinTx' /\ vueltas' \in {vueltas, vueltas + 1} /\ Respeta
  BY SinTxIgual, NoEscribe DEF IInv, JInv, Contraofertar, Vuelve
<1>2. EnPago(Mandante)' => EnPago(Mandante)
  BY Dos DEF IInv, Tipos, Contraofertar, Toca, EnPago
<1>. QED  BY <1>1, <1>2, Conserva DEF Contraofertar

LEMMA RecPedirAtras ==
  ASSUME IInv, JInv, NEW n \in Partes, PedirAtras(n)
  PROVE  JInv'
<1>. DEFINE h == [gasto[n] EXCEPT !.error = Nada]
<1>1. gasto[n] \in Entrada /\ gasto[n] # Nada /\ Pon(n, h)
  BY DEF IInv, Tipos, PedirAtras
<1>2. h \in Entrada /\ h.tx = gasto[n].tx /\ (Fiel(gasto[n]) => Fiel(h))
  BY <1>1 DEF Entrada, Fiel
<1>. HIDE DEF h
<1>3. Respeta
  BY <1>1, <1>2, Escribe DEF IInv
<1>4. SinTx' /\ EnPago(Mandante)' = EnPago(Mandante) /\ vueltas' = vueltas
  BY SinTxIgual DEF JInv, PedirAtras, EnPago, tropiezos
<1>. QED  BY <1>3, <1>4, Conserva DEF PedirAtras

(* A copy that was paid stays paid.                                        *)
LEMMA RecFusionar ==
  ASSUME IInv, JInv, NEW n \in Partes, Fusionar(n)
  PROVE  JInv'
<1>1. SinTx' /\ vueltas' = vueltas /\ Respeta
  BY SinTxIgual, NoEscribe DEF IInv, JInv, Fusionar, tropiezos
<1>2. EnPago(Mandante)' => EnPago(Mandante)
  <2>1. copia[n].estado \in {EnTrato, Pagada} /\ copia[Otro(n)].estado \in {EnTrato, Pagada}
    BY Dos DEF IInv, Tipos, Copias
  <2>2. copia' = [copia EXCEPT ![n] = copia[Otro(n)]]
    BY DEF Fusionar
  <2>3. n = Mandante /\ copia[Otro(n)].estado = EnTrato => copia[n].estado = EnTrato
    BY <2>1 DEF Fusionar, EnTrato, Pagada
  <2>4. copia'[Mandante] = IF n = Mandante THEN copia[Otro(n)] ELSE copia[Mandante]
    BY <2>2, Dos DEF IInv, Tipos
  <2>. QED  BY <2>3, <2>4 DEF EnPago
<1>. QED  BY <1>1, <1>2, Conserva DEF Fusionar

(* The file goes with the entry, once the stage is paid.                   *)
LEMMA RecLimpiar ==
  ASSUME IInv, JInv, NEW n \in Partes, Limpiar(n)
  PROVE  JInv'
<1>1. SinTx' /\ vueltas' = vueltas /\ EnPago(Mandante)' = EnPago(Mandante)
  BY SinTxIgual DEF JInv, Limpiar, EnPago, tropiezos
<1>2. CASE n = Mandante
  BY <1>1, <1>2 DEF IInv, Tipos, JInv, Recuerda, Limpiar, Pon, EnPago
<1>3. CASE n = Contratista
  <2>1. Respeta /\ espera' = espera
    BY <1>3, NoEscribe, Dos DEF IInv, Limpiar
  <2>. QED  BY <1>1, <2>1, Conserva DEF Limpiar
<1>. QED  BY <1>2, <1>3, Dos

LEMMA RecAvisar ==
  ASSUME IInv, JInv, NEW n \in Partes, Avisar(n)
  PROVE  JInv'
<1>. DEFINE h == Sin(gasto[n], "avisar")
            m == Mensaje("spend-pedir", Nada)
<1>1. gasto[n] \in Entrada /\ gasto[n] # Nada /\ Pon(n, h) /\ Envia(n, m)
  BY DEF IInv, Tipos, Avisar, Viva
<1>2. h \in Entrada /\ h.tx = gasto[n].tx /\ (Fiel(gasto[n]) => Fiel(h))
  BY <1>1 DEF Entrada, Fiel, Sin
<1>3. m \in Mensajes /\ m.paso # "spend-tx"
  BY DEF Mensaje, Mensajes
<1>. HIDE DEF h, m
<1>4. Respeta /\ SinTx'
  BY <1>1, <1>2, <1>3, Escribe, SinTxEnvia DEF IInv, JInv
<1>5. EnPago(Mandante)' = EnPago(Mandante) /\ vueltas' = vueltas
  BY DEF Avisar, EnPago, tropiezos
<1>. QED  BY <1>4, <1>5, Conserva DEF Avisar

LEMMA RecFalla ==
  ASSUME IInv, JInv, NEW n \in Partes, NEW causa \in {"caja", "otro"}, Falla(n, causa)
  PROVE  Respeta /\ SinTx'
<1>1. CASE gasto[n] = Nada
  BY <1>1, NoEscribe, SinTxIgual DEF IInv, JInv, Falla, Tiene
<1>2. CASE gasto[n] # Nada
  <2>. DEFINE h == Sin([gasto[n] EXCEPT !.error = causa], "avisar")
              m == Mensaje("spend-error", Nada)
  <2>1. gasto[n] \in Entrada /\ Pon(n, h) /\ (Envia(n, m) \/ red' = red)
    BY <1>2 DEF IInv, Tipos, Falla
  <2>2. h \in Entrada /\ h.tx = gasto[n].tx /\ (Fiel(gasto[n]) => Fiel(h))
    BY <2>1 DEF Entrada, Fiel, Sin
  <2>3. m \in Mensajes /\ m.paso # "spend-tx"
    BY DEF Mensaje, Mensajes
  <2>. HIDE DEF h, m
  <2>. QED  BY <1>2, <2>1, <2>2, <2>3, Escribe, SinTxEnvia, SinTxIgual DEF IInv, JInv
<1>. QED  BY <1>1, <1>2

LEMMA RecSinCaja ==
  ASSUME IInv, JInv, NEW n \in Partes, NEW causa \in {"caja", "otro"}, SinCaja(n, causa)
  PROVE  JInv'
<1>1. Respeta /\ SinTx'
  BY RecFalla DEF SinCaja
<1>2. EnPago(Mandante)' = EnPago(Mandante)
  BY DEF SinCaja, EnPago
<1>. QED  BY <1>1, <1>2, Conserva DEF SinCaja

LEMMA RecNoAnillo ==
  ASSUME IInv, JInv, NoAnillo
  PROVE  JInv'
<1>1. Respeta /\ SinTx'
  BY RecFalla, Dos DEF NoAnillo
<1>2. EnPago(Mandante)' = EnPago(Mandante)
  BY DEF NoAnillo, EnPago
<1>. QED  BY <1>1, <1>2, Conserva DEF NoAnillo

LEMMA RecNoPublicado ==
  ASSUME IInv, JInv, NoPublicado
  PROVE  JInv'
<1>1. Respeta /\ SinTx'
  BY RecFalla, Dos DEF NoPublicado
<1>2. EnPago(Mandante)' = EnPago(Mandante) /\ vueltas' = vueltas
  BY DEF NoPublicado, EnPago, tropiezos
<1>. QED  BY <1>1, <1>2, Conserva DEF NoPublicado

(* The message goes to the contractor.                                     *)
LEMMA RecPublicado ==
  ASSUME IInv, JInv, Publicado
  PROVE  JInv'
<1>1. Respeta /\ EnPago(Mandante)' = EnPago(Mandante) /\ vueltas' = vueltas
  BY NoEscribe DEF IInv, Publicado, EnPago, tropiezos
<1>2. SinTx'
  <2>1. red'[Mandante] = red[Mandante]
    BY Dos DEF IInv, Tipos, Publicado, Envia
  <2>. QED  BY <2>1 DEF JInv, SinTx
<1>. QED  BY <1>1, <1>2, Conserva DEF Publicado

LEMMA RecAbrir ==
  ASSUME IInv, JInv, NEW n \in Partes, Abrir(n)
  PROVE  JInv'
<1>. DEFINE id == sesiones[n] + 1
            p == gasto[n].propuesta
            x == [prop |-> p, mia |-> id]
            h == [gasto[n] EXCEPT !.sesion = x]
            m == IF Tiene(gasto[n], "mandante") THEN Mensaje("spend-open", [prop |-> p, pre |-> id])
                                                ELSE Mensaje("spend-pre", id)
<1>1. /\ gasto[n] \in Entrada /\ gasto[n] # Nada /\ p \in Propuesta /\ p # Nada
      /\ Pon(n, h) /\ Envia(n, m)
  BY DEF IInv, Tipos, Abrir, Anda, Viva, Entrada
<1>2. id \in Ids
  BY GastoAssumption DEF IInv, Tipos, Abrir, Ids
<1>. HIDE DEF id
<1>3. x \in Sesion
  BY <1>1, <1>2 DEF Sesion
<1>. HIDE DEF x
<1>4. h \in Entrada /\ h.tx = gasto[n].tx /\ (Fiel(gasto[n]) => Fiel(h))
  BY <1>1, <1>3 DEF Entrada, Fiel
<1>. HIDE DEF p
<1>5. m \in Mensajes /\ m.paso # "spend-tx"
  BY <1>1, <1>2 DEF Mensaje, Mensajes
<1>. HIDE DEF h, m
<1>6. Respeta /\ SinTx'
  BY <1>1, <1>4, <1>5, Escribe, SinTxEnvia DEF IInv, JInv
<1>7. EnPago(Mandante)' = EnPago(Mandante) /\ vueltas' = vueltas
  BY DEF Abrir, EnPago, tropiezos
<1>. QED  BY <1>6, <1>7, Conserva DEF Abrir

LEMMA RecFirmar ==
  ASSUME IInv, JInv, NEW n \in Partes, Firmar(n)
  PROVE  JInv'
<1>. DEFINE x == gasto[n].sesion
            f == [prop |-> x.prop, mia |-> x.mia, suya |-> gasto[n].pre]
            e == [prop |-> x.prop, de |-> x.mia, con |-> gasto[n].pre]
            h == [gasto[n] EXCEPT !.sesion = Nada, !.firmada = f]
            m == Mensaje("spend-share", e)
<1>1. /\ gasto[n] \in Entrada /\ gasto[n] # Nada /\ x \in Sesion /\ x # Nada
      /\ gasto[n].pre \in Ids /\ Pon(n, h) /\ Envia(n, m)
  BY DEF IInv, Tipos, Firmar, Anda, Viva, Entrada
<1>2. f \in Firmada /\ e \in Parte
  BY <1>1 DEF Sesion, Firmada, Parte
<1>. HIDE DEF f, e
<1>3. h \in Entrada /\ h.tx = gasto[n].tx /\ (Fiel(gasto[n]) => Fiel(h))
  BY <1>1, <1>2 DEF Entrada, Fiel
<1>4. m \in Mensajes /\ m.paso # "spend-tx"
  BY <1>2 DEF Mensaje, Mensajes
<1>. HIDE DEF h, m
<1>5. Respeta /\ SinTx'
  BY <1>1, <1>3, <1>4, Escribe, SinTxEnvia DEF IInv, JInv
<1>6. EnPago(Mandante)' = EnPago(Mandante) /\ vueltas' = vueltas
  BY DEF Firmar, EnPago, tropiezos
<1>. QED  BY <1>5, <1>6, Conserva DEF Firmar

LEMMA RecArmar ==
  ASSUME IInv, JInv, Armar
  PROVE  JInv'
<1>1. Respeta
  <2>1. CASE Tiene(gasto[Mandante], "mandante")
    <3>. DEFINE p == [pct |-> gasto[Mandante].pct, num |-> intentos + 1]
                h == [gasto[Mandante] EXCEPT !.propuesta = p, !.error = Nada]
    <3>1. /\ gasto[Mandante] \in Entrada /\ gasto[Mandante] # Nada /\ Pon(Mandante, h)
          /\ "mandante" \in gasto[Mandante].marcas /\ gasto[Mandante].pct \in Pcts
      BY <2>1, DelMandante, Dos DEF Armar, Tiene, Buena
    <3>2. intentos + 1 \in 1 .. MaxIntentos
      BY GastoAssumption DEF IInv, Tipos, Armar
    <3>3. p \in Propuesta
      BY <3>1, <3>2 DEF Propuesta
    <3>. HIDE DEF p
    <3>4. h \in Entrada /\ h.tx = gasto[Mandante].tx /\ (Fiel(gasto[Mandante]) => Fiel(h))
      BY <3>1, <3>3 DEF Entrada, Fiel
    <3>. HIDE DEF h
    <3>. QED  BY <3>1, <3>4, Escribe, Dos DEF IInv
  <2>2. CASE ~Tiene(gasto[Mandante], "mandante")
    BY <2>2, NoEscribe DEF IInv, Armar
  <2>. QED  BY <2>1, <2>2
<1>2. SinTx' /\ EnPago(Mandante)' = EnPago(Mandante) /\ vueltas' = vueltas
  BY SinTxIgual DEF JInv, Armar, EnPago, tropiezos
<1>. QED  BY <1>1, <1>2, Conserva DEF Armar

LEMMA RecCompletar ==
  ASSUME IInv, JInv, Completar
  PROVE  JInv'
<1>1. Respeta
  BY NoEscribe DEF IInv, Completar
<1>2. SinTx' /\ EnPago(Mandante)' = EnPago(Mandante) /\ vueltas' = vueltas
  BY SinTxIgual DEF JInv, Completar, EnPago, tropiezos
<1>. QED  BY <1>1, <1>2, Conserva DEF Completar

(* An entry that is about to publish never knew a transaction: nothing     *)
(* was published before.                                                   *)
LEMMA RecPublicar ==
  ASSUME IInv, JInv, Publicar
  PROVE  JInv'
<1>. DEFINE g == gasto[Mandante]
            t == TxDe(g.firmada.prop)
            h == Con([g EXCEPT !.firmada = Nada, !.tx = t], "blob")
<1>1. /\ g \in Entrada /\ g # Nada /\ g.firmada # Nada /\ "blob" \notin g.marcas
      /\ EnPago(Mandante) /\ Fiel(g)
  BY Dos DEF IInv, Tipos, JInv, Publicar, ListaParaCompletar, Anda, Viva, Tiene
<1>2. g.tx = Nada
  BY <1>1 DEF Fiel
<1>3. ASSUME vueltas = 0 PROVE cadena = {}
  BY <1>1, <1>2, <1>3, NadaAssumption DEF IInv, Tipos, JInv, Recuerda
<1>4. gasto'[Mandante] = h /\ espera' = t /\ cadena' \subseteq cadena \cup {t} /\ vueltas' = vueltas
  BY Dos DEF IInv, Tipos, Publicar, Pon
<1>5. t \in Tx
  BY <1>1 DEF Entrada, Firmada, Propuesta, TxDe, Tx
<1>. HIDE DEF t
<1>6. h.tx = t /\ "blob" \in h.marcas /\ h \in Entrada
  BY <1>1, <1>5 DEF Con, Entrada, Marcas
<1>. HIDE DEF h
<1>7. Fiel(gasto'[Mandante]) /\ gasto'[Mandante] # Nada
  BY <1>4, <1>6, NadaAssumption DEF Fiel
<1>8. vueltas' = 0 => Recuerda'
  BY <1>3, <1>4, <1>6, <1>7 DEF Recuerda
<1>9. SinTx' /\ vueltas' \in Nat
  BY <1>4, SinTxIgual DEF JInv, Publicar
<1>. QED  BY <1>7, <1>8, <1>9 DEF JInv, Fiel

LEMMA RecNoCuadra ==
  ASSUME IInv, JInv, NEW n \in Partes, NoCuadra(n)
  PROVE  JInv'
<1>. DEFINE h == Sin([gasto[n] EXCEPT !.firmada = Nada, !.error = "otro"], "avisar")
            m == Mensaje("spend-error", Nada)
<1>1. gasto[n] \in Entrada /\ gasto[n] # Nada /\ Pon(n, h) /\ Envia(n, m)
  BY DEF IInv, Tipos, NoCuadra, ListaParaCompletar, Anda, Viva
<1>2. h \in Entrada /\ h.tx = gasto[n].tx /\ (Fiel(gasto[n]) => Fiel(h))
  BY <1>1 DEF Entrada, Fiel, Sin
<1>3. m \in Mensajes /\ m.paso # "spend-tx"
  BY DEF Mensaje, Mensajes
<1>. HIDE DEF h, m
<1>4. Respeta /\ SinTx'
  BY <1>1, <1>2, <1>3, Escribe, SinTxEnvia DEF IInv, JInv
<1>5. EnPago(Mandante)' = EnPago(Mandante) /\ vueltas' = vueltas
  BY DEF NoCuadra, EnPago, tropiezos
<1>. QED  BY <1>4, <1>5, Conserva DEF NoCuadra

LEMMA RecVer ==
  ASSUME IInv, JInv, NEW n \in Partes, Ver(n)
  PROVE  JInv'
<1>. DEFINE h == Con([gasto[n] EXCEPT !.error = Nada], "visto")
<1>1. gasto[n] \in Entrada /\ gasto[n] # Nada /\ Pon(n, h)
  BY DEF IInv, Tipos, Ver, Viva
<1>2. h \in Entrada /\ h.tx = gasto[n].tx /\ (Fiel(gasto[n]) => Fiel(h))
  BY <1>1 DEF Entrada, Fiel, Con, Marcas
<1>. HIDE DEF h
<1>3. Respeta
  BY <1>1, <1>2, Escribe DEF IInv
<1>4. SinTx' /\ EnPago(Mandante)' = EnPago(Mandante) /\ vueltas' = vueltas
  BY SinTxIgual DEF JInv, Ver, EnPago, tropiezos
<1>. QED  BY <1>3, <1>4, Conserva DEF Ver

LEMMA RecHecho ==
  ASSUME IInv, JInv, NEW n \in Partes, Hecho(n)
  PROVE  JInv'
<1>1. SinTx' /\ vueltas' = vueltas /\ Respeta
  BY SinTxIgual, NoEscribe DEF IInv, JInv, Hecho, tropiezos
<1>2. EnPago(Mandante)' => EnPago(Mandante)
  BY Dos DEF IInv, Tipos, Hecho, EnPago, EnTrato, Pagada
<1>. QED  BY <1>1, <1>2, Conserva DEF Hecho

(* What an entry takes of a message keeps the transaction it knows.        *)
LEMMA RecToma ==
  ASSUME IInv, JInv, NEW n \in Partes, NEW k, NEW paso, NEW g, Toma(n, k, paso, g),
         Tiene(gasto[n], "peer") =>
           g \in Entrada /\ (n = Mandante => g.tx = gasto[n].tx /\ (Fiel(gasto[n]) => Fiel(g)))
  PROVE  JInv'
<1>1. Llega(n, k, paso)
  BY DEF Toma
<1>2. SinTx'
  BY <1>1, SinTxLlega DEF IInv, JInv
<1>3. Respeta
  <2>1. CASE n = Contratista
    BY <2>1, NoEscribe DEF IInv, Toma
  <2>2. CASE n = Mandante
    BY <2>2, Escribe, NoEscribe DEF IInv, Toma, Tiene
  <2>. QED  BY <2>1, <2>2, Dos
<1>4. EnPago(Mandante)' = EnPago(Mandante)
  BY <1>1 DEF Llega, EnPago
<1>. QED  BY <1>1, <1>2, <1>3, <1>4, Conserva DEF Llega

LEMMA RecTomarApertura ==
  ASSUME IInv, JInv, NEW n \in Partes, NEW k, TomarApertura(n, k)
  PROVE  JInv'
<1>. DEFINE c == red[n][k].cuerpo
            h == [gasto[n] EXCEPT !.propuesta = c.prop, !.pre = c.pre, !.error = Nada]
            g == IF Tiene(gasto[n], "mandante") THEN gasto[n] ELSE h
<1>1. Toma(n, k, "spend-open", g)
  BY DEF TomarApertura
<1>2. c.prop \in Propuesta /\ c.pre \in Ids
  BY <1>1, Carga DEF Toma
<1>. HIDE DEF c
<1>3. ASSUME Tiene(gasto[n], "peer")
      PROVE  g \in Entrada /\ g.tx = gasto[n].tx /\ (Fiel(gasto[n]) => Fiel(g))
  <2>1. gasto[n] \in Entrada /\ "peer" \in gasto[n].marcas
    BY <1>3 DEF IInv, Tipos, Tiene
  <2>2. h \in Entrada /\ h.tx = gasto[n].tx /\ (Fiel(gasto[n]) => Fiel(h))
    BY <2>1, <1>2 DEF Entrada, Fiel
  <2>. QED  BY <2>1, <2>2
<1>. QED  BY <1>1, <1>3, RecToma

LEMMA RecTomarPre ==
  ASSUME IInv, JInv, NEW n \in Partes, NEW k, TomarPre(n, k)
  PROVE  JInv'
<1>. DEFINE c == red[n][k].cuerpo
            g == [gasto[n] EXCEPT !.pre = c]
<1>1. Toma(n, k, "spend-pre", g)
  BY DEF TomarPre
<1>2. c \in Ids
  BY <1>1, Carga DEF Toma
<1>. HIDE DEF c
<1>3. ASSUME Tiene(gasto[n], "peer")
      PROVE  g \in Entrada /\ g.tx = gasto[n].tx /\ (Fiel(gasto[n]) => Fiel(g))
  BY <1>2, <1>3 DEF IInv, Tipos, Tiene, Entrada, Fiel
<1>. QED  BY <1>1, <1>3, RecToma

LEMMA RecTomarParte ==
  ASSUME IInv, JInv, NEW n \in Partes, NEW k, TomarParte(n, k)
  PROVE  JInv'
<1>. DEFINE c == red[n][k].cuerpo
            g == [gasto[n] EXCEPT !.share = c]
<1>1. Toma(n, k, "spend-share", g)
  BY DEF TomarParte
<1>2. c \in Parte
  BY <1>1, Carga DEF Toma
<1>. HIDE DEF c
<1>3. ASSUME Tiene(gasto[n], "peer")
      PROVE  g \in Entrada /\ g.tx = gasto[n].tx /\ (Fiel(gasto[n]) => Fiel(g))
  BY <1>2, <1>3 DEF IInv, Tipos, Tiene, Entrada, Fiel
<1>. QED  BY <1>1, <1>3, RecToma

(* Only the contractor is told of the payment.                             *)
LEMMA RecTomarTx ==
  ASSUME IInv, JInv, NEW n \in Partes, NEW k, TomarTx(n, k)
  PROVE  JInv'
<1>. DEFINE c == red[n][k].cuerpo
            g == [gasto[n] EXCEPT !.tx = c, !.error = Nada]
<1>1. Toma(n, k, "spend-tx", g)
  BY DEF TomarTx
<1>2. c \in Tx /\ n # Mandante
  BY <1>1, Carga, SinTxLlega DEF IInv, JInv, Toma
<1>. HIDE DEF c
<1>3. ASSUME Tiene(gasto[n], "peer") PROVE g \in Entrada
  BY <1>2, <1>3 DEF IInv, Tipos, Tiene, Entrada
<1>. QED  BY <1>1, <1>2, <1>3, RecToma

(* An entry where there was none: nothing is published yet.                *)
LEMMA RecNuevo ==
  ASSUME IInv, JInv, NEW g, gasto[Mandante] = Nada, gasto'[Mandante] = g, g.tx = Nada,
         SinTx', cadena' = cadena, vueltas' = vueltas, EnPago(Mandante)' = EnPago(Mandante)
  PROVE  JInv'
BY DEF JInv, Recuerda, Fiel

LEMMA RecTomarPedido ==
  ASSUME IInv, JInv, NEW n \in Partes, NEW k, TomarPedido(n, k)
  PROVE  JInv'
<1>1. Llega(n, k, "spend-pedir")
  BY DEF TomarPedido
<1>2. SinTx' /\ EnPago(Mandante)' = EnPago(Mandante)
  BY <1>1, SinTxLlega DEF IInv, JInv, Llega, EnPago
<1>3. CASE n = Mandante /\ gasto[n] = Nada /\ EnPago(n)
  <2>1. gasto'[Mandante] = Nueva(n) /\ Nueva(n).tx = Nada
    BY <1>3, EsNueva DEF IInv, Tipos, TomarPedido, Pon
  <2>. QED  BY <1>1, <1>2, <1>3, <2>1, RecNuevo DEF Llega
<1>4. CASE ~(n = Mandante /\ gasto[n] = Nada /\ EnPago(n))
  <2>1. Respeta
    BY <1>4, NoEscribe, Dos DEF IInv, TomarPedido
  <2>. QED  BY <1>1, <1>2, <2>1, Conserva DEF Llega
<1>. QED  BY <1>3, <1>4

LEMMA RecTomarError ==
  ASSUME IInv, JInv, NEW n \in Partes, NEW k, TomarError(n, k)
  PROVE  JInv'
<1>1. Llega(n, k, "spend-error")
  BY DEF TomarError
<1>2. SinTx' /\ EnPago(Mandante)' = EnPago(Mandante)
  BY <1>1, SinTxLlega DEF IInv, JInv, Llega, EnPago
<1>3. CASE gasto[n] # Nada
  <2>. DEFINE h == [gasto[n] EXCEPT !.error = "otro"]
  <2>1. gasto[n] \in Entrada /\ Pon(n, h)
    BY <1>3 DEF IInv, Tipos, TomarError
  <2>2. h \in Entrada /\ h.tx = gasto[n].tx /\ (Fiel(gasto[n]) => Fiel(h))
    BY <2>1 DEF Entrada, Fiel
  <2>. HIDE DEF h
  <2>3. Respeta
    BY <1>3, <2>1, <2>2, Escribe DEF IInv
  <2>. QED  BY <1>1, <1>2, <2>3, Conserva DEF Llega
<1>4. CASE gasto[n] = Nada /\ n = Mandante
  <2>. DEFINE h == [SinNada EXCEPT !.marcas = {"peer"}, !.error = "otro"]
  <2>1. gasto'[Mandante] = h /\ h.tx = Nada
    BY <1>4 DEF IInv, Tipos, TomarError, Pon, SinNada
  <2>. QED  BY <1>1, <1>2, <1>4, <2>1, RecNuevo DEF Llega
<1>5. CASE gasto[n] = Nada /\ n = Contratista
  <2>1. Respeta
    BY <1>5, NoEscribe DEF IInv, TomarError
  <2>. QED  BY <1>1, <1>2, <2>1, Conserva DEF Llega
<1>. QED  BY <1>3, <1>4, <1>5, Dos

LEMMA RecPerder ==
  ASSUME IInv, JInv, NEW n \in Partes, Perder(n)
  PROVE  JInv'
<1>1. Respeta /\ EnPago(Mandante)' = EnPago(Mandante)
  BY NoEscribe DEF IInv, Perder, EnPago
<1>2. SinTx'
  <2>1. red[n] \in Seq(Mensajes) /\ red[n] # << >> /\ red' = [red EXCEPT ![n] = Tail(red[n])]
    BY DEF IInv, Tipos, Perder
  <2>2. \A k \in DOMAIN Tail(red[n]) : \E i \in DOMAIN red[n] : Tail(red[n])[k] = red[n][i]
    BY <2>1, SinPrimero
  <2>3. red'[Mandante] = IF n = Mandante THEN Tail(red[n]) ELSE red[Mandante]
    BY <2>1, Dos DEF IInv, Tipos
  <2>. QED  BY <2>2, <2>3, MasTx DEF JInv
<1>. QED  BY <1>1, <1>2, Conserva DEF Perder

(* The file has the transaction a crash would forget.                      *)
LEMMA RecCaer ==
  ASSUME IInv, JInv, NEW n \in Partes, Caer(n)
  PROVE  JInv'
<1>1. SinTx' /\ EnPago(Mandante)' = EnPago(Mandante) /\ vueltas' = vueltas /\ espera' = espera
  BY SinTxIgual DEF JInv, Caer, EnPago
<1>2. CASE n = Contratista
  <2>1. Respeta
    BY <1>2, NoEscribe DEF IInv, Caer
  <2>. QED  BY <1>1, <2>1, Conserva DEF Caer
<1>3. CASE n = Mandante
  <2>. DEFINE h == Recargada(espera)
  <2>1. gasto'[Mandante] = IF espera # Nada THEN h ELSE Nada
    BY <1>3 DEF IInv, Tipos, Caer, Pon
  <2>2. h.tx = espera /\ Fiel(h) /\ (espera # Nada => h \in Entrada)
    BY DEF IInv, Tipos, Recargada, SinNada, Fiel, Entrada, Marcas
  <2>. HIDE DEF h
  <2>3. gasto'[Mandante] # Nada => Fiel(gasto'[Mandante])
    BY <2>1, <2>2
  <2>4. ASSUME vueltas' = 0 PROVE Recuerda'
    <3>. SUFFICES ASSUME NEW t \in cadena, EnPago(Mandante)
                  PROVE  gasto'[Mandante] # Nada /\ gasto'[Mandante].tx = t /\ espera = t
      BY <1>1 DEF Recuerda, Caer
    <3>1. espera = t /\ t # Nada
      BY <1>1, <2>4, NadaAssumption DEF IInv, Tipos, JInv, Recuerda
    <3>. QED  BY <2>1, <2>2, <3>1, NadaAssumption
  <2>. QED  BY <1>1, <2>3, <2>4 DEF JInv, Fiel
<1>. QED  BY <1>2, <1>3, Dos

(* The other steps leave entries, chain and file alone.                    *)
LEMMA RecQuieto ==
  ASSUME IInv, JInv, UNCHANGED vars \/ \E n \in Partes : Anillar(n) \/ Tardar(n)
  PROVE  JInv'
<1>1. /\ gasto' = gasto /\ red' = red /\ cadena' = cadena /\ espera' = espera
      /\ vueltas' = vueltas /\ copia' = copia
  BY DEF vars, Anillar, Tardar, tropiezos
<1>2. Respeta /\ SinTx' /\ EnPago(Mandante)' = EnPago(Mandante)
  BY <1>1, NoEscribe, SinTxIgual DEF IInv, JInv, EnPago
<1>. QED  BY <1>1, <1>2, Conserva

LEMMA RecPaso ==
  ASSUME IInv, JInv, [Next]_vars
  PROVE  JInv'
<1>1. ASSUME NEW n \in Partes, DePersona(n) PROVE JInv'
  BY <1>1, RecAceptar, RecPedirAtras, RecContraofertar DEF DePersona
<1>2. ASSUME NEW n \in Partes, DeTick(n) PROVE JInv'
  BY <1>2, RecLimpiar, RecAvisar, RecQuieto, RecAbrir, RecFirmar, RecNoCuadra,
     RecVer, RecHecho, RecFusionar DEF DeTick
<1>3. ASSUME DeUno PROVE JInv'
  BY <1>3, RecArmar, RecCompletar, RecPublicar, RecPublicado, RecNoPublicado DEF DeUno
<1>4. ASSUME NEW n \in Partes, Tropezar(n) PROVE JInv'
  BY <1>4, RecPerder, RecQuieto, RecCaer, RecSinCaja DEF Tropezar
<1>5. ASSUME NEW n \in Partes, NEW k \in DOMAIN red[n], DeMensaje(n, k) PROVE JInv'
  BY <1>5, RecTomarPedido, RecTomarApertura, RecTomarPre, RecTomarParte, RecTomarTx,
     RecTomarError DEF DeMensaje
<1>. QED  BY <1>1, <1>2, <1>3, <1>4, <1>5, RecNoAnillo, RecQuieto DEF Next

LEMMA RecInicio ==
  ASSUME Init
  PROVE  JInv
BY Dos DEF Init, JInv, SinTx, Recuerda

(* Unless a person goes back on a payment that stopped, the box of the     *)
(* principal knows the payment it broadcast until the stage is paid: its   *)
(* entry by the step that broadcasts it, and after any crash by the file   *)
(* (guardar_espera, cargar_esperas), however often it crashes.             *)
THEOREM PagoRecordado == Spec => []PagoNoSeOlvida
<1>1. Init => JInv
  BY RecInicio
<1>2. IInv /\ JInv /\ [Next]_vars => JInv'
  BY RecPaso
<1>3. JInv => PagoNoSeOlvida
  BY DEF JInv, Recuerda, PagoNoSeOlvida
<1>. QED  BY <1>1, <1>2, <1>3, Invariante, PTL DEF Spec

-----------------------------------------------------------------------------
(* The receipt.  While no program restarts and nobody goes back, all that  *)
(* is under way is for one percentage, the one both copies show: after the *)
(* first entry nobody has the turn and no entry (Ocupada), and so nobody   *)
(* can ask for another one.                                                *)

DelPct(g, p) ==
  /\ "mandante" \in g.marcas => g.pct = p
  /\ g.propuesta # Nada => g.propuesta.pct = p
  /\ g.sesion # Nada => g.sesion.prop.pct = p
  /\ g.firmada # Nada => g.firmada.prop.pct = p
DiceDe(m, p) == m.paso = "spend-open" => m.cuerpo.prop.pct = p

Empezada ==
  \/ cadena # {}
  \/ \E n \in Partes : gasto[n] # Nada \/ ~EnPago(n) \/ red[n] # << >>
Ocupada == \A n \in Partes : copia[n].turno = n => gasto[n] # Nada \/ ~EnPago(n)

Firme ==
  /\ Empezada => Iguales /\ Ocupada
  /\ \A n \in Partes : gasto[n] # Nada => DelPct(gasto[n], copia[n].pct)
  /\ \A n \in Partes : \A k \in DOMAIN red[n] : DiceDe(red[n][k], copia[n].pct)
  /\ \A n \in Partes : \A t \in cadena : t.monto = copia[n].pct
  /\ \A n \in Partes : ~EnPago(n) \/ Tiene(gasto[n], "visto") => cadena # {}

KInv == vueltas \in Nat /\ (caidas = 0 /\ vueltas = 0 => Firme)

(* What a step that leaves copies and chain alone has to show.             *)
GastoFirme ==
  \A n \in Partes :
    \/ gasto'[n] = gasto[n]
    \/ gasto'[n] = Nada /\ ~EnPago(n)
    \/ /\ gasto'[n] # Nada /\ Empezada /\ DelPct(gasto'[n], copia[n].pct)
       /\ Tiene(gasto'[n], "visto") => cadena # {}

RedFirme ==
  \A n \in Partes : \A k \in DOMAIN red'[n] :
    \/ \E i \in DOMAIN red[n] : red'[n][k] = red[n][i]
    \/ Empezada /\ DiceDe(red'[n][k], copia[n].pct)

(* A message or an entry that came of nothing is why it was begun before.  *)
LEMMA YaEmpezada ==
  ASSUME IInv, IInv', copia' = copia, cadena' = cadena, GastoFirme, RedFirme, Empezada'
  PROVE  Empezada
<1>1. ASSUME NEW n \in Partes, gasto'[n] # Nada PROVE Empezada
  BY <1>1 DEF GastoFirme, Empezada
<1>2. ASSUME NEW n \in Partes, red'[n] # << >> PROVE Empezada
  <2>1. red'[n] \in Seq(Mensajes) /\ red[n] \in Seq(Mensajes)
    BY DEF IInv, Tipos
  <2>2. 1 \in DOMAIN red'[n]
    BY <1>2, <2>1
  <2>3. CASE Empezada
    BY <2>3
  <2>4. CASE ~Empezada
    <3>1. PICK i \in DOMAIN red[n] : red'[n][1] = red[n][i]
      BY <2>2, <2>4 DEF RedFirme
    <3>2. red[n] # << >>
      BY <3>1
    <3>. QED  BY <3>2 DEF Empezada
  <2>. QED  BY <2>3, <2>4
<1>3. ASSUME NEW n \in Partes, ~EnPago(n)' PROVE Empezada
  BY <1>3 DEF Empezada, EnPago
<1>. QED  BY <1>1, <1>2, <1>3 DEF Empezada

LEMMA SigueFirme ==
  ASSUME IInv, IInv', Firme, copia' = copia, cadena' = cadena, GastoFirme, RedFirme
  PROVE  Firme'
<1>1. Empezada' => Empezada
  BY YaEmpezada
<1>2. Empezada' => Iguales' /\ Ocupada'
  <2>1. Empezada => Iguales /\ Ocupada
    BY DEF Firme
  <2>2. Iguales => Iguales'
    BY DEF Iguales
  <2>3. Ocupada => Ocupada'
    BY DEF Ocupada, GastoFirme, EnPago
  <2>. QED  BY <1>1, <2>1, <2>2, <2>3
<1>3. ASSUME NEW n \in Partes, gasto'[n] # Nada PROVE DelPct(gasto'[n], copia'[n].pct)
  BY <1>3 DEF GastoFirme, Firme
<1>4. ASSUME NEW n \in Partes, NEW k \in DOMAIN red'[n] PROVE DiceDe(red'[n][k], copia'[n].pct)
  BY <1>4 DEF RedFirme, Firme
<1>5. ASSUME NEW n \in Partes, ~EnPago(n)' \/ Tiene(gasto'[n], "visto") PROVE cadena' # {}
  BY <1>5 DEF GastoFirme, Firme, EnPago, Tiene
<1>. QED  BY <1>2, <1>3, <1>4, <1>5 DEF Firme, Tiene

LEMMA GastoIgual == ASSUME gasto' = gasto PROVE GastoFirme
BY DEF GastoFirme

LEMMA RedIgual == ASSUME red' = red PROVE RedFirme
BY DEF RedFirme

LEMMA GastoEscrito ==
  ASSUME Tipos, Firme, NEW n \in Partes, NEW h \in Entrada, Pon(n, h), Empezada,
         DelPct(h, copia[n].pct), Tiene(h, "visto") => Tiene(gasto[n], "visto") \/ cadena # {}
  PROVE  GastoFirme
<1>1. gasto'[n] = h /\ \A m \in Partes : m # n => gasto'[m] = gasto[m]
  BY DEF Tipos, Pon
<1>2. h # Nada /\ (Tiene(h, "visto") => cadena # {})
  BY NadaAssumption DEF Firme
<1>. QED  BY <1>1, <1>2 DEF GastoFirme, Tiene

LEMMA RedEnviada ==
  ASSUME Tipos, Empezada, NEW n \in Partes, NEW m \in Mensajes, Envia(n, m),
         DiceDe(m, copia[Otro(n)].pct)
  PROVE  RedFirme
<1>1. red[Otro(n)] \in Seq(Mensajes) /\ Otro(n) \in Partes
  BY Dos DEF Tipos
<1>2. red'[Otro(n)] = Append(red[Otro(n)], m) /\ \A q \in Partes : q # Otro(n) => red'[q] = red[q]
  BY <1>1 DEF Tipos, Envia
<1>3. \A k \in DOMAIN red'[Otro(n)] :
        red'[Otro(n)][k] = m \/ \E i \in DOMAIN red[Otro(n)] : red'[Otro(n)][k] = red[Otro(n)][i]
  BY <1>1, <1>2, AlFinal
<1>. QED  BY <1>2, <1>3 DEF RedFirme

LEMMA RedLlega ==
  ASSUME Tipos, NEW n \in Partes, NEW k, NEW paso, Llega(n, k, paso)
  PROVE  /\ RedFirme /\ Empezada /\ copia' = copia /\ cadena' = cadena
         /\ k \in DOMAIN red[n] /\ red[n][k].paso = paso
<1>1. /\ k \in DOMAIN red[n] /\ red[n][k].paso = paso
      /\ \A j \in DOMAIN red'[n] : \E i \in DOMAIN red[n] : red'[n][j] = red[n][i]
      /\ \A m \in Partes : m # n => red'[m] = red[m]
  BY LlegaBien
<1>2. RedFirme
  BY <1>1 DEF RedFirme
<1>3. Empezada
  BY <1>1 DEF Empezada
<1>. QED  BY <1>1, <1>2, <1>3 DEF Llega

(* Whoever has the turn accepts the percentage both copies show, and       *)
(* nothing was begun before.                                               *)
LEMMA ReciboAceptar ==
  ASSUME IInv, Firme, NEW n \in Partes, Aceptar(n), gasto[n] = Nada
  PROVE  Firme'
<1>1. Iguales /\ copia[n].turno = n /\ copia[Otro(n)].turno = n /\ EnPago(n)
  BY ConTurno DEF Aceptar, Toca
<1>2. ~Empezada
  BY <1>1 DEF Firme, Ocupada
<1>3. /\ gasto'[n] = Nueva(n) /\ \A m \in Partes : m # n => gasto'[m] = gasto[m]
      /\ copia' = copia /\ red' = red /\ cadena' = cadena
  BY DEF IInv, Tipos, Aceptar, Pon
<1>4. /\ cadena = {} /\ \A m \in Partes : gasto[m] = Nada /\ EnPago(m) /\ red[m] = << >>
  BY <1>2 DEF Empezada
<1>5. DelPct(Nueva(n), copia[n].pct) /\ ~Tiene(Nueva(n), "visto") /\ Nueva(n) # Nada
  <2>1. /\ Nueva(n) \in Entrada /\ DelPct(Nueva(n), copia[n].pct)
    BY EsNueva DEF IInv, DelPct
  <2>2. "visto" \notin Nueva(n).marcas
    BY DEF Nueva, SinNada
  <2>. QED  BY <2>1, <2>2, NadaAssumption DEF Tiene
<1>6. Ocupada'
  <2>. SUFFICES ASSUME NEW m \in Partes, copia[m].turno = m PROVE gasto'[m] # Nada
    BY <1>3 DEF Ocupada
  <2>1. m = n
    BY <1>1, Dos
  <2>. QED  BY <2>1, <1>3, <1>5
<1>7. Iguales'
  BY <1>1, <1>3 DEF Iguales
<1>8. \A m \in Partes : gasto'[m] # Nada => DelPct(gasto'[m], copia'[m].pct)
  BY <1>3, <1>4, <1>5
<1>9. \A m \in Partes : ~(~EnPago(m)' \/ Tiene(gasto'[m], "visto"))
  BY <1>3, <1>4, <1>5 DEF EnPago, Tiene
<1>. QED  BY <1>3, <1>4, <1>6, <1>7, <1>8, <1>9 DEF Firme, Tiene

(* Asking for another percentage begins nothing.                           *)
LEMMA ReciboContraofertar ==
  ASSUME IInv, Firme, NEW n \in Partes, NEW pct \in Pcts, Contraofertar(n, pct), gasto[n] = Nada
  PROVE  Firme'
<1>1. copia[n].turno = n /\ EnPago(n)
  BY DEF Contraofertar, Toca
<1>2. ~Empezada
  BY <1>1 DEF Firme, Ocupada
<1>3. /\ cadena = {} /\ \A m \in Partes : gasto[m] = Nada /\ EnPago(m) /\ red[m] = << >>
  BY <1>2 DEF Empezada
<1>4. gasto' = gasto /\ red' = red /\ cadena' = cadena /\ \A m \in Partes : EnPago(m)'
  BY <1>3 DEF IInv, Tipos, Contraofertar, EnPago
<1>5. ~Empezada'
  BY <1>3, <1>4 DEF Empezada
<1>. QED  BY <1>3, <1>4, <1>5 DEF Firme, Tiene

LEMMA ReciboPedirAtras ==
  ASSUME IInv, IInv', Firme, NEW n \in Partes, PedirAtras(n)
  PROVE  Firme'
<1>. DEFINE h == [gasto[n] EXCEPT !.error = Nada]
<1>1. gasto[n] \in Entrada /\ gasto[n] # Nada /\ Pon(n, h)
  BY DEF IInv, Tipos, PedirAtras
<1>2. h \in Entrada /\ DelPct(h, copia[n].pct) /\ (Tiene(h, "visto") => Tiene(gasto[n], "visto"))
  BY <1>1 DEF Entrada, Firme, DelPct, Tiene
<1>. HIDE DEF h
<1>3. GastoFirme /\ RedFirme
  BY <1>1, <1>2, GastoEscrito, RedIgual DEF IInv, PedirAtras, Empezada
<1>. QED  BY <1>3, SigueFirme DEF PedirAtras

(* The copies already agree; a paid one makes the other paid.              *)
LEMMA ReciboFusionar ==
  ASSUME IInv, IInv', Firme, NEW n \in Partes, Fusionar(n)
  PROVE  Firme'
<1>1. /\ gasto' = gasto /\ red' = red /\ cadena' = cadena
      /\ copia'[n] = copia[Otro(n)] /\ copia'[Otro(n)] = copia[Otro(n)]
  BY Dos DEF IInv, Tipos, Fusionar
<1>2. Iguales'
  BY <1>1, Dos DEF Iguales
<1>3. CASE ~Empezada
  <2>1. /\ cadena = {} /\ \A m \in Partes : gasto[m] = Nada /\ EnPago(m) /\ red[m] = << >>
    BY <1>3 DEF Empezada
  <2>2. \A m \in Partes : EnPago(m)'
    BY <1>1, <2>1, Dos DEF EnPago
  <2>3. ~Empezada'
    BY <1>1, <2>1, <2>2 DEF Empezada
  <2>. QED  BY <1>1, <2>1, <2>2, <2>3 DEF Firme, Tiene
<1>4. CASE Empezada
  <2>1. Iguales /\ Ocupada
    BY <1>4 DEF Firme
  <2>2. \A m \in Partes : copia'[m].pct = copia[m].pct /\ copia'[m].turno = copia[m].turno
    BY <1>1, <2>1, Dos DEF Iguales
  <2>3. copia[n].estado \in {EnTrato, Pagada} /\ copia[Otro(n)].estado \in {EnTrato, Pagada}
    BY Dos DEF IInv, Tipos, Copias
  <2>4. EnPago(n) /\ copia[Otro(n)].estado = Pagada
    <3>1. copia[n].notas = copia[Otro(n)].notas /\ copia[n].notas \in Nat
      BY <2>1, Dos DEF Iguales, IInv, Tipos, Copias
    <3>2. copia[n].estado < copia[Otro(n)].estado
      BY <3>1 DEF Fusionar
    <3>. QED  BY <2>3, <3>2 DEF EnPago, EnTrato, Pagada
  <2>5. ~EnPago(Otro(n)) /\ \A m \in Partes : ~EnPago(m)'
    BY <1>1, <2>4, Dos DEF EnPago, EnTrato, Pagada
  <2>6. cadena # {}
    BY <2>5, Dos DEF Firme
  <2>7. Ocupada'
    BY <2>5 DEF Ocupada
  <2>. QED  BY <1>1, <1>2, <2>2, <2>6, <2>7 DEF Firme
<1>. QED  BY <1>3, <1>4

LEMMA ReciboLimpiar ==
  ASSUME IInv, IInv', Firme, NEW n \in Partes, Limpiar(n)
  PROVE  Firme'
<1>1. GastoFirme /\ RedFirme
  BY RedIgual DEF IInv, Tipos, Limpiar, Pon, GastoFirme
<1>. QED  BY <1>1, SigueFirme DEF Limpiar

LEMMA ReciboAvisar ==
  ASSUME IInv, IInv', Firme, NEW n \in Partes, Avisar(n)
  PROVE  Firme'
<1>. DEFINE h == Sin(gasto[n], "avisar")
            m == Mensaje("spend-pedir", Nada)
<1>1. /\ gasto[n] \in Entrada /\ gasto[n] # Nada /\ Pon(n, h) /\ Envia(n, m)
      /\ copia' = copia /\ cadena' = cadena /\ Empezada
  BY DEF IInv, Tipos, Avisar, Viva, Empezada
<1>2. h \in Entrada /\ DelPct(h, copia[n].pct) /\ (Tiene(h, "visto") => Tiene(gasto[n], "visto"))
  BY <1>1 DEF Entrada, Firme, DelPct, Tiene, Sin
<1>3. m \in Mensajes /\ DiceDe(m, copia[Otro(n)].pct)
  BY DEF Mensaje, Mensajes, DiceDe
<1>. HIDE DEF h, m
<1>. QED  BY <1>1, <1>2, <1>3, GastoEscrito, RedEnviada, SigueFirme DEF IInv

LEMMA ReciboFalla ==
  ASSUME IInv, IInv', Firme, NEW n \in Partes, NEW causa \in {"caja", "otro"}, Falla(n, causa),
         copia' = copia, cadena' = cadena
  PROVE  Firme'
<1>1. CASE gasto[n] = Nada
  BY <1>1, GastoIgual, RedIgual, SigueFirme DEF Falla, Tiene
<1>2. CASE gasto[n] # Nada
  <2>. DEFINE h == Sin([gasto[n] EXCEPT !.error = causa], "avisar")
              m == Mensaje("spend-error", Nada)
  <2>1. gasto[n] \in Entrada /\ Pon(n, h) /\ (Envia(n, m) \/ red' = red) /\ Empezada
    BY <1>2 DEF IInv, Tipos, Falla, Empezada
  <2>2. h \in Entrada /\ DelPct(h, copia[n].pct) /\ (Tiene(h, "visto") => Tiene(gasto[n], "visto"))
    BY <1>2, <2>1 DEF Entrada, Firme, DelPct, Tiene, Sin
  <2>3. m \in Mensajes /\ DiceDe(m, copia[Otro(n)].pct)
    BY DEF Mensaje, Mensajes, DiceDe
  <2>. HIDE DEF h, m
  <2>. QED  BY <2>1, <2>2, <2>3, GastoEscrito, RedEnviada, RedIgual, SigueFirme DEF IInv
<1>. QED  BY <1>1, <1>2

(* The proposal is for the percentage of the entry.                        *)
LEMMA ReciboArmar ==
  ASSUME IInv, IInv', Firme, Armar
  PROVE  Firme'
<1>1. CASE Tiene(gasto[Mandante], "mandante")
  <2>. DEFINE p == [pct |-> gasto[Mandante].pct, num |-> intentos + 1]
              h == [gasto[Mandante] EXCEPT !.propuesta = p, !.error = Nada]
  <2>1. /\ gasto[Mandante] \in Entrada /\ gasto[Mandante] # Nada /\ Pon(Mandante, h)
        /\ "mandante" \in gasto[Mandante].marcas /\ gasto[Mandante].pct \in Pcts
    BY <1>1, DelMandante, Dos DEF Armar, Tiene, Buena
  <2>2. intentos + 1 \in 1 .. MaxIntentos
    BY GastoAssumption DEF IInv, Tipos, Armar
  <2>3. p \in Propuesta /\ p.pct = copia[Mandante].pct
    BY <2>1, <2>2, Dos DEF Propuesta, Firme, DelPct
  <2>. HIDE DEF p
  <2>4. /\ h \in Entrada /\ DelPct(h, copia[Mandante].pct)
        /\ Tiene(h, "visto") => Tiene(gasto[Mandante], "visto")
    BY <2>1, <2>3, Dos DEF Entrada, Firme, DelPct, Tiene
  <2>. HIDE DEF h
  <2>5. GastoFirme /\ RedFirme
    BY <2>1, <2>4, GastoEscrito, RedIgual, Dos DEF IInv, Armar, Empezada
  <2>. QED  BY <2>5, SigueFirme DEF Armar
<1>2. CASE ~Tiene(gasto[Mandante], "mandante")
  BY <1>2, GastoIgual, RedIgual, SigueFirme DEF Armar
<1>. QED  BY <1>1, <1>2

LEMMA ReciboAbrir ==
  ASSUME IInv, IInv', Firme, NEW n \in Partes, Abrir(n)
  PROVE  Firme'
<1>. DEFINE id == sesiones[n] + 1
            p == gasto[n].propuesta
            x == [prop |-> p, mia |-> id]
            h == [gasto[n] EXCEPT !.sesion = x]
            m == IF Tiene(gasto[n], "mandante") THEN Mensaje("spend-open", [prop |-> p, pre |-> id])
                                                ELSE Mensaje("spend-pre", id)
<1>1. /\ gasto[n] \in Entrada /\ gasto[n] # Nada /\ p \in Propuesta /\ p # Nada
      /\ Pon(n, h) /\ Envia(n, m) /\ copia' = copia /\ cadena' = cadena /\ Empezada
  BY DEF IInv, Tipos, Abrir, Anda, Viva, Entrada, Empezada
<1>2. id \in Ids
  BY GastoAssumption DEF IInv, Tipos, Abrir, Ids
<1>3. p.pct = copia[n].pct /\ copia[n].pct = copia[Otro(n)].pct
  BY <1>1, Dos DEF Firme, DelPct, Iguales
<1>. HIDE DEF id
<1>4. x \in Sesion /\ x.prop.pct = copia[n].pct
  BY <1>1, <1>2, <1>3 DEF Sesion
<1>. HIDE DEF x
<1>5. h \in Entrada /\ DelPct(h, copia[n].pct) /\ (Tiene(h, "visto") => Tiene(gasto[n], "visto"))
  BY <1>1, <1>4 DEF Entrada, Firme, DelPct, Tiene
<1>. HIDE DEF p
<1>6. m \in Mensajes /\ DiceDe(m, copia[Otro(n)].pct)
  BY <1>1, <1>2, <1>3 DEF Mensaje, Mensajes, DiceDe
<1>. HIDE DEF h, m
<1>. QED  BY <1>1, <1>5, <1>6, GastoEscrito, RedEnviada, SigueFirme DEF IInv

LEMMA ReciboFirmar ==
  ASSUME IInv, IInv', Firme, NEW n \in Partes, Firmar(n)
  PROVE  Firme'
<1>. DEFINE x == gasto[n].sesion
            f == [prop |-> x.prop, mia |-> x.mia, suya |-> gasto[n].pre]
            e == [prop |-> x.prop, de |-> x.mia, con |-> gasto[n].pre]
            h == [gasto[n] EXCEPT !.sesion = Nada, !.firmada = f]
            m == Mensaje("spend-share", e)
<1>1. /\ gasto[n] \in Entrada /\ gasto[n] # Nada /\ x \in Sesion /\ x # Nada
      /\ gasto[n].pre \in Ids /\ Pon(n, h) /\ Envia(n, m)
      /\ copia' = copia /\ cadena' = cadena /\ Empezada
  BY DEF IInv, Tipos, Firmar, Anda, Viva, Entrada, Empezada
<1>2. f \in Firmada /\ e \in Parte /\ f.prop.pct = copia[n].pct
  BY <1>1 DEF Sesion, Firmada, Parte, Firme, DelPct
<1>. HIDE DEF f, e
<1>3. h \in Entrada /\ DelPct(h, copia[n].pct) /\ (Tiene(h, "visto") => Tiene(gasto[n], "visto"))
  BY <1>1, <1>2 DEF Entrada, Firme, DelPct, Tiene
<1>4. m \in Mensajes /\ DiceDe(m, copia[Otro(n)].pct)
  BY <1>2 DEF Mensaje, Mensajes, DiceDe
<1>. HIDE DEF h, m
<1>. QED  BY <1>1, <1>3, <1>4, GastoEscrito, RedEnviada, SigueFirme DEF IInv

(* The entry after its signature was completed.                            *)
LEMMA CompletadaFirme ==
  ASSUME IInv, Firme, NEW n \in Partes, ListaParaCompletar(n), NEW t \in Tx,
         Pon(n, Con([gasto[n] EXCEPT !.firmada = Nada, !.tx = t], "blob"))
  PROVE  GastoFirme
<1>. DEFINE h == Con([gasto[n] EXCEPT !.firmada = Nada, !.tx = t], "blob")
<1>1. gasto[n] \in Entrada /\ gasto[n] # Nada /\ Empezada
  BY DEF IInv, Tipos, ListaParaCompletar, Anda, Viva, Empezada
<1>2. h \in Entrada /\ DelPct(h, copia[n].pct) /\ (Tiene(h, "visto") => Tiene(gasto[n], "visto"))
  BY <1>1 DEF Entrada, Firme, DelPct, Tiene, Con, Marcas
<1>3. Pon(n, h)
  OBVIOUS
<1>. HIDE DEF h
<1>. QED  BY <1>1, <1>2, <1>3, GastoEscrito DEF IInv

LEMMA LaFirmada ==
  ASSUME IInv, Firme, NEW n \in Partes, ListaParaCompletar(n)
  PROVE  /\ TxDe(gasto[n].firmada.prop) \in Tx
         /\ TxDe(gasto[n].firmada.prop).monto = copia[n].pct
<1>1. gasto[n] \in Entrada /\ gasto[n].firmada \in Firmada /\ gasto[n].firmada # Nada /\ gasto[n] # Nada
  BY DEF IInv, Tipos, ListaParaCompletar, Anda, Viva, Entrada
<1>2. gasto[n].firmada.prop.pct = copia[n].pct
  BY <1>1 DEF Firme, DelPct
<1>. QED  BY <1>1, <1>2 DEF Firmada, Propuesta, TxDe, Tx

LEMMA ReciboCompletar ==
  ASSUME IInv, IInv', Firme, Completar
  PROVE  Firme'
<1>1. GastoFirme
  BY LaFirmada, CompletadaFirme, Dos DEF Completar
<1>. QED  BY <1>1, RedIgual, SigueFirme DEF Completar

(* What is published was signed for the percentage both copies show.       *)
LEMMA ReciboPublicar ==
  ASSUME IInv, IInv', Firme, Publicar
  PROVE  Firme'
<1>. DEFINE t == TxDe(gasto[Mandante].firmada.prop)
<1>1. t \in Tx /\ t.monto = copia[Mandante].pct
  BY LaFirmada, Dos DEF Publicar
<1>2. GastoFirme
  BY <1>1, CompletadaFirme, Dos DEF Publicar
<1>3. copia' = copia /\ red' = red /\ cadena' \in {cadena, cadena \cup {t}}
  BY DEF Publicar
<1>. HIDE DEF t
<1>4. Empezada /\ Iguales /\ Ocupada
  BY Dos DEF Publicar, ListaParaCompletar, Anda, Viva, Empezada, Firme
<1>5. Iguales' /\ Ocupada'
  BY <1>2, <1>3, <1>4 DEF Iguales, Ocupada, GastoFirme, EnPago
<1>6. \A n \in Partes : gasto'[n] # Nada => DelPct(gasto'[n], copia'[n].pct)
  BY <1>2, <1>3 DEF GastoFirme, Firme
<1>7. \A n \in Partes : copia[n].pct = copia[Mandante].pct
  BY <1>4, Dos DEF Iguales
<1>8. \A n \in Partes : \A u \in cadena' : u.monto = copia'[n].pct
  BY <1>1, <1>3, <1>7 DEF Firme
<1>9. \A n \in Partes : ~EnPago(n)' \/ Tiene(gasto'[n], "visto") => cadena' # {}
  BY <1>2, <1>3 DEF GastoFirme, Firme, EnPago, Tiene
<1>. QED  BY <1>3, <1>5, <1>6, <1>8, <1>9 DEF Firme, Tiene

LEMMA ReciboNoCuadra ==
  ASSUME IInv, IInv', Firme, NEW n \in Partes, NoCuadra(n)
  PROVE  Firme'
<1>. DEFINE h == Sin([gasto[n] EXCEPT !.firmada = Nada, !.error = "otro"], "avisar")
            m == Mensaje("spend-error", Nada)
<1>1. /\ gasto[n] \in Entrada /\ gasto[n] # Nada /\ Pon(n, h) /\ Envia(n, m)
      /\ copia' = copia /\ cadena' = cadena /\ Empezada
  BY DEF IInv, Tipos, NoCuadra, ListaParaCompletar, Anda, Viva, Empezada
<1>2. h \in Entrada /\ DelPct(h, copia[n].pct) /\ (Tiene(h, "visto") => Tiene(gasto[n], "visto"))
  BY <1>1 DEF Entrada, Firme, DelPct, Tiene, Sin
<1>3. m \in Mensajes /\ DiceDe(m, copia[Otro(n)].pct)
  BY DEF Mensaje, Mensajes, DiceDe
<1>. HIDE DEF h, m
<1>. QED  BY <1>1, <1>2, <1>3, GastoEscrito, RedEnviada, SigueFirme DEF IInv

LEMMA ReciboPublicado ==
  ASSUME IInv, IInv', Firme, Publicado
  PROVE  Firme'
<1>. DEFINE m == Mensaje("spend-tx", ocupado.tx)
<1>1. RedFirme
  <2>1. CASE Tiene(gasto[Mandante], "peer")
    <3>1. ocupado.tx \in Tx /\ Empezada /\ Envia(Mandante, m)
      BY <2>1, Dos DEF IInv, Tipos, Trabajos, Publicado, Publicando, Tiene, Empezada
    <3>2. m \in Mensajes /\ DiceDe(m, copia[Otro(Mandante)].pct)
      BY <3>1 DEF Mensaje, Mensajes, DiceDe
    <3>. HIDE DEF m
    <3>. QED  BY <3>1, <3>2, RedEnviada, Dos DEF IInv
  <2>2. CASE ~Tiene(gasto[Mandante], "peer")
    BY <2>2, RedIgual DEF Publicado
  <2>. QED  BY <2>1, <2>2
<1>. QED  BY <1>1, GastoIgual, SigueFirme DEF Publicado

(* Only what is on the chain is seen.                                      *)
LEMMA ReciboVer ==
  ASSUME IInv, IInv', Firme, NEW n \in Partes, Ver(n)
  PROVE  Firme'
<1>. DEFINE h == Con([gasto[n] EXCEPT !.error = Nada], "visto")
<1>1. gasto[n] \in Entrada /\ gasto[n] # Nada /\ Pon(n, h) /\ cadena # {} /\ Empezada
  BY DEF IInv, Tipos, Ver, Viva, Empezada
<1>2. h \in Entrada /\ DelPct(h, copia[n].pct)
  BY <1>1 DEF Entrada, Firme, DelPct, Con, Marcas
<1>. HIDE DEF h
<1>3. GastoFirme
  BY <1>1, <1>2, GastoEscrito DEF IInv
<1>. QED  BY <1>3, RedIgual, SigueFirme DEF Ver

LEMMA ReciboHecho ==
  ASSUME IInv, IInv', Firme, NEW n \in Partes, Hecho(n)
  PROVE  Firme'
<1>1. /\ gasto' = gasto /\ red' = red /\ cadena' = cadena /\ cadena # {}
      /\ \A m \in Partes : copia'[m].pct = copia[m].pct /\ copia'[m].turno = copia[m].turno
                           /\ copia'[m].notas = copia[m].notas /\ (EnPago(m)' => EnPago(m))
  <2>1. gasto' = gasto /\ red' = red /\ cadena' = cadena /\ cadena # {}
    BY DEF Hecho, Firme
  <2>2. copia' = [copia EXCEPT ![n].estado = Pagada]
    BY DEF Hecho
  <2>3. ASSUME NEW m \in Partes
        PROVE  /\ copia'[m].pct = copia[m].pct /\ copia'[m].turno = copia[m].turno
               /\ copia'[m].notas = copia[m].notas /\ copia'[m].estado \in {copia[m].estado, Pagada}
    <3>1. copia \in [Partes -> Copias] /\ copia[m] \in Copias
      BY DEF IInv, Tipos
    <3>2. CASE m = n
      <4>1. copia'[n] = [copia[n] EXCEPT !.estado = Pagada]
        BY <2>2, <3>1
      <4>. QED  BY <3>1, <3>2, <4>1 DEF Copias
    <3>3. CASE m # n
      BY <2>2, <3>1, <3>3
    <3>. QED  BY <3>2, <3>3
  <2>. QED  BY <2>1, <2>3 DEF EnPago, EnTrato, Pagada
<1>2. Empezada /\ Iguales /\ Ocupada
  BY <1>1 DEF Empezada, Firme
<1>3. Iguales' /\ Ocupada'
  BY <1>1, <1>2, Dos DEF Iguales, Ocupada
<1>. QED  BY <1>1, <1>3 DEF Firme

(* What an entry takes of a message.                                       *)
LEMMA ReciboToma ==
  ASSUME IInv, IInv', Firme, NEW n \in Partes, NEW k, NEW paso, NEW g, Toma(n, k, paso, g),
         Tiene(gasto[n], "peer") =>
           g \in Entrada /\ DelPct(g, copia[n].pct) /\ (Tiene(g, "visto") => Tiene(gasto[n], "visto"))
  PROVE  Firme'
<1>1. Llega(n, k, paso)
  BY DEF Toma
<1>2. RedFirme /\ Empezada /\ copia' = copia /\ cadena' = cadena
  BY <1>1, RedLlega DEF IInv
<1>3. GastoFirme
  <2>1. CASE Tiene(gasto[n], "peer")
    BY <1>2, <2>1, GastoEscrito DEF IInv, Toma
  <2>2. CASE ~Tiene(gasto[n], "peer")
    BY <2>2, GastoIgual DEF Toma
  <2>. QED  BY <2>1, <2>2
<1>. QED  BY <1>2, <1>3, SigueFirme

LEMMA ReciboTomarApertura ==
  ASSUME IInv, IInv', Firme, NEW n \in Partes, NEW k, TomarApertura(n, k)
  PROVE  Firme'
<1>. DEFINE c == red[n][k].cuerpo
            h == [gasto[n] EXCEPT !.propuesta = c.prop, !.pre = c.pre, !.error = Nada]
            g == IF Tiene(gasto[n], "mandante") THEN gasto[n] ELSE h
<1>1. Toma(n, k, "spend-open", g)
  BY DEF TomarApertura
<1>2. c.prop \in Propuesta /\ c.pre \in Ids
  BY <1>1, Carga DEF Toma
<1>3. c.prop.pct = copia[n].pct
  BY <1>1, RedLlega DEF IInv, Firme, DiceDe, Toma
<1>. HIDE DEF c
<1>4. ASSUME Tiene(gasto[n], "peer")
      PROVE  g \in Entrada /\ DelPct(g, copia[n].pct) /\ (Tiene(g, "visto") => Tiene(gasto[n], "visto"))
  <2>1. gasto[n] \in Entrada /\ gasto[n] # Nada /\ DelPct(gasto[n], copia[n].pct)
    BY <1>4 DEF IInv, Tipos, Tiene, Firme
  <2>2. h \in Entrada /\ DelPct(h, copia[n].pct) /\ (Tiene(h, "visto") => Tiene(gasto[n], "visto"))
    BY <2>1, <1>2, <1>3 DEF Entrada, DelPct, Tiene
  <2>. QED  BY <2>1, <2>2
<1>. QED  BY <1>1, <1>4, ReciboToma

LEMMA ReciboTomarPre ==
  ASSUME IInv, IInv', Firme, NEW n \in Partes, NEW k, TomarPre(n, k)
  PROVE  Firme'
<1>. DEFINE c == red[n][k].cuerpo
            g == [gasto[n] EXCEPT !.pre = c]
<1>1. Toma(n, k, "spend-pre", g)
  BY DEF TomarPre
<1>2. c \in Ids
  BY <1>1, Carga DEF Toma
<1>. HIDE DEF c
<1>3. ASSUME Tiene(gasto[n], "peer")
      PROVE  g \in Entrada /\ DelPct(g, copia[n].pct) /\ (Tiene(g, "visto") => Tiene(gasto[n], "visto"))
  <2>1. gasto[n] \in Entrada /\ gasto[n] # Nada /\ DelPct(gasto[n], copia[n].pct)
    BY <1>3 DEF IInv, Tipos, Tiene, Firme
  <2>. QED  BY <2>1, <1>2 DEF Entrada, DelPct, Tiene
<1>. QED  BY <1>1, <1>3, ReciboToma

LEMMA ReciboTomarParte ==
  ASSUME IInv, IInv', Firme, NEW n \in Partes, NEW k, TomarParte(n, k)
  PROVE  Firme'
<1>. DEFINE c == red[n][k].cuerpo
            g == [gasto[n] EXCEPT !.share = c]
<1>1. Toma(n, k, "spend-share", g)
  BY DEF TomarParte
<1>2. c \in Parte
  BY <1>1, Carga DEF Toma
<1>. HIDE DEF c
<1>3. ASSUME Tiene(gasto[n], "peer")
      PROVE  g \in Entrada /\ DelPct(g, copia[n].pct) /\ (Tiene(g, "visto") => Tiene(gasto[n], "visto"))
  <2>1. gasto[n] \in Entrada /\ gasto[n] # Nada /\ DelPct(gasto[n], copia[n].pct)
    BY <1>3 DEF IInv, Tipos, Tiene, Firme
  <2>. QED  BY <2>1, <1>2 DEF Entrada, DelPct, Tiene
<1>. QED  BY <1>1, <1>3, ReciboToma

LEMMA ReciboTomarTx ==
  ASSUME IInv, IInv', Firme, NEW n \in Partes, NEW k, TomarTx(n, k)
  PROVE  Firme'
<1>. DEFINE c == red[n][k].cuerpo
            g == [gasto[n] EXCEPT !.tx = c, !.error = Nada]
<1>1. Toma(n, k, "spend-tx", g)
  BY DEF TomarTx
<1>2. c \in Tx
  BY <1>1, Carga DEF Toma
<1>. HIDE DEF c
<1>3. ASSUME Tiene(gasto[n], "peer")
      PROVE  g \in Entrada /\ DelPct(g, copia[n].pct) /\ (Tiene(g, "visto") => Tiene(gasto[n], "visto"))
  <2>1. gasto[n] \in Entrada /\ DelPct(gasto[n], copia[n].pct)
    BY <1>3 DEF IInv, Tipos, Tiene, Firme
  <2>2. g \in Entrada /\ g.marcas = gasto[n].marcas
    BY <2>1, <1>2 DEF Entrada
  <2>3. DelPct(g, copia[n].pct)
    BY <2>1 DEF Entrada, DelPct
  <2>. QED  BY <1>3, <2>2, <2>3 DEF Tiene
<1>. QED  BY <1>1, <1>3, ReciboToma

(* The entry opened for a request is for the percentage of this copy.      *)
LEMMA ReciboTomarPedido ==
  ASSUME IInv, IInv', Firme, NEW n \in Partes, NEW k, TomarPedido(n, k)
  PROVE  Firme'
<1>1. RedFirme /\ Empezada /\ copia' = copia /\ cadena' = cadena
  BY RedLlega DEF IInv, TomarPedido
<1>2. /\ Nueva(n) \in Entrada /\ DelPct(Nueva(n), copia[n].pct) /\ ~Tiene(Nueva(n), "visto")
  BY EsNueva DEF IInv, DelPct, Nueva, SinNada, Tiene
<1>3. GastoFirme
  BY <1>1, <1>2, GastoEscrito, GastoIgual DEF IInv, TomarPedido
<1>. QED  BY <1>1, <1>3, SigueFirme

LEMMA ReciboTomarError ==
  ASSUME IInv, IInv', Firme, NEW n \in Partes, NEW k, TomarError(n, k)
  PROVE  Firme'
<1>. DEFINE e == [SinNada EXCEPT !.marcas = {"peer"}, !.error = "otro"]
            h == [gasto[n] EXCEPT !.error = "otro"]
            g == IF gasto[n] = Nada THEN e ELSE h
<1>1. RedFirme /\ Empezada /\ copia' = copia /\ cadena' = cadena
  BY RedLlega DEF IInv, TomarError
<1>2. e \in Entrada /\ DelPct(e, copia[n].pct) /\ ~Tiene(e, "visto")
  BY DEF SinNada, Entrada, Marcas, DelPct, Tiene
<1>3. ASSUME gasto[n] # Nada
      PROVE  h \in Entrada /\ DelPct(h, copia[n].pct) /\ (Tiene(h, "visto") => Tiene(gasto[n], "visto"))
  <2>1. gasto[n] \in Entrada /\ DelPct(gasto[n], copia[n].pct)
    BY <1>3 DEF IInv, Tipos, Firme
  <2>. QED  BY <1>3, <2>1 DEF Entrada, DelPct, Tiene
<1>4. Pon(n, g)
  BY DEF TomarError
<1>. HIDE DEF e, h
<1>5. g \in Entrada /\ DelPct(g, copia[n].pct) /\ (Tiene(g, "visto") => Tiene(gasto[n], "visto"))
  BY <1>2, <1>3
<1>. HIDE DEF g
<1>. QED  BY <1>1, <1>4, <1>5, GastoEscrito, SigueFirme DEF IInv

LEMMA ReciboPerder ==
  ASSUME IInv, IInv', Firme, NEW n \in Partes, Perder(n)
  PROVE  Firme'
<1>1. red[n] \in Seq(Mensajes) /\ red[n] # << >> /\ red' = [red EXCEPT ![n] = Tail(red[n])]
  BY DEF IInv, Tipos, Perder
<1>2. \A k \in DOMAIN Tail(red[n]) : \E i \in DOMAIN red[n] : Tail(red[n])[k] = red[n][i]
  BY <1>1, SinPrimero
<1>3. \A m \in Partes : red'[m] = IF m = n THEN Tail(red[n]) ELSE red[m]
  BY <1>1 DEF IInv, Tipos
<1>4. RedFirme
  BY <1>2, <1>3 DEF RedFirme
<1>. QED  BY <1>4, GastoIgual, SigueFirme DEF Perder

(* The other steps leave entries, messages, copies and chain alone.        *)
LEMMA ReciboQuieto ==
  ASSUME IInv, IInv', Firme, UNCHANGED vars \/ \E n \in Partes : Anillar(n) \/ Tardar(n)
  PROVE  Firme'
<1>1. gasto' = gasto /\ red' = red /\ cadena' = cadena /\ copia' = copia
  BY DEF vars, Anillar, Tardar
<1>. QED  BY <1>1, GastoIgual, RedIgual, SigueFirme

(* Restarts and changes of mind are counted, and only they.                *)
LEMMA Cuentan ==
  ASSUME IInv, vueltas \in Nat, [Next]_vars
  PROVE  /\ vueltas' \in Nat
         /\ caidas' = 0 /\ vueltas' = 0 =>
              /\ caidas = 0 /\ vueltas = 0
              /\ \A n \in Partes : ~Caer(n)
              /\ \A n \in Partes : Aceptar(n) => gasto[n] = Nada
              /\ \A n \in Partes : \A pct \in Pcts : Contraofertar(n, pct) => gasto[n] = Nada
<1>1. caidas \in Nat /\ caidas' \in Nat
  <2>1. IInv'
    BY Paso
  <2>. QED  BY <2>1 DEF IInv, Tipos
<1>2. \A n \in Partes : Caer(n) => caidas' = caidas + 1
  BY DEF Caer
<1>3. /\ vueltas' \in {vueltas, vueltas + 1} /\ caidas' \in {caidas, caidas + 1}
  <2>. DEFINE Bien == vueltas' \in {vueltas, vueltas + 1} /\ caidas' \in {caidas, caidas + 1}
  <2>1. ASSUME NEW n \in Partes, DePersona(n) PROVE Bien
    BY <2>1 DEF DePersona, Aceptar, PedirAtras, Contraofertar, Vuelve, tropiezos
  <2>2. ASSUME NEW n \in Partes, DeTick(n) PROVE Bien
    BY <2>2 DEF DeTick, Limpiar, Avisar, Anillar, Abrir, Firmar, NoCuadra, Ver, Hecho, Fusionar, tropiezos
  <2>3. ASSUME DeUno \/ NoAnillo PROVE Bien
    BY <2>3 DEF DeUno, NoAnillo, Armar, Completar, Publicar, Publicado, NoPublicado, tropiezos
  <2>4. ASSUME NEW n \in Partes, Tropezar(n) PROVE Bien
    BY <2>4 DEF Tropezar, Perder, Tardar, Caer, SinCaja
  <2>5. ASSUME NEW n \in Partes, NEW k \in DOMAIN red[n], DeMensaje(n, k) PROVE Bien
    BY <2>5 DEF DeMensaje, TomarPedido, TomarApertura, TomarPre, TomarParte, TomarTx, TomarError, Toma, Llega
  <2>6. ASSUME UNCHANGED vars PROVE Bien
    BY <2>6 DEF vars, tropiezos
  <2>. QED  BY <2>1, <2>2, <2>3, <2>4, <2>5, <2>6 DEF Next
<1>4. /\ \A n \in Partes : Aceptar(n) => gasto[n] = Nada \/ vueltas' = vueltas + 1
      /\ \A n \in Partes : \A pct \in Pcts : Contraofertar(n, pct) => gasto[n] = Nada \/ vueltas' = vueltas + 1
  BY DEF Aceptar, Contraofertar, Vuelve
<1>. QED  BY <1>1, <1>2, <1>3, <1>4

LEMMA ReciboPaso ==
  ASSUME IInv, IInv', KInv, [Next]_vars
  PROVE  KInv'
<1>. SUFFICES ASSUME caidas' = 0, vueltas' = 0 PROVE Firme'
  BY Cuentan DEF KInv
<1>1. /\ Firme /\ \A n \in Partes : ~Caer(n)
      /\ \A n \in Partes : Aceptar(n) => gasto[n] = Nada
      /\ \A n \in Partes : \A pct \in Pcts : Contraofertar(n, pct) => gasto[n] = Nada
  BY Cuentan DEF KInv
<1>2. ASSUME NEW n \in Partes, DePersona(n) PROVE Firme'
  BY <1>1, <1>2, ReciboAceptar, ReciboPedirAtras, ReciboContraofertar DEF DePersona
<1>3. ASSUME NEW n \in Partes, DeTick(n) PROVE Firme'
  BY <1>1, <1>3, ReciboLimpiar, ReciboAvisar, ReciboQuieto, ReciboAbrir, ReciboFirmar,
     ReciboNoCuadra, ReciboVer, ReciboHecho, ReciboFusionar DEF DeTick
<1>4. ASSUME DeUno PROVE Firme'
  <2>1. NoPublicado => Firme'
    BY <1>1, ReciboFalla, Dos DEF NoPublicado
  <2>. QED  BY <1>1, <1>4, <2>1, ReciboArmar, ReciboCompletar, ReciboPublicar, ReciboPublicado DEF DeUno
<1>5. ASSUME NoAnillo PROVE Firme'
  BY <1>1, <1>5, ReciboFalla, Dos DEF NoAnillo
<1>6. ASSUME NEW n \in Partes, Tropezar(n) PROVE Firme'
  <2>1. ASSUME NEW causa \in {"caja", "otro"}, SinCaja(n, causa) PROVE Firme'
    BY <1>1, <2>1, ReciboFalla DEF SinCaja
  <2>. QED  BY <1>1, <1>6, <2>1, ReciboPerder, ReciboQuieto DEF Tropezar
<1>7. ASSUME NEW n \in Partes, NEW k \in DOMAIN red[n], DeMensaje(n, k) PROVE Firme'
  BY <1>1, <1>7, ReciboTomarPedido, ReciboTomarApertura, ReciboTomarPre, ReciboTomarParte,
     ReciboTomarTx, ReciboTomarError DEF DeMensaje
<1>. QED  BY <1>1, <1>2, <1>3, <1>4, <1>5, <1>6, <1>7, ReciboQuieto DEF Next

LEMMA ReciboInicio ==
  ASSUME Init
  PROVE  KInv
<1>1. /\ gasto = [n \in Partes |-> Nada] /\ red = [n \in Partes |-> << >>] /\ cadena = {} /\ vueltas = 0
      /\ \A n \in Partes : EnPago(n)
  BY DEF Init, EnPago
<1>2. ~Empezada
  BY <1>1 DEF Empezada
<1>. QED  BY <1>1, <1>2 DEF KInv, Firme, Tiene

(* The percentage of the receipt is the one that was paid, unless a        *)
(* program restarted or a person went back on a payment that stopped,      *)
(* whatever is lost, refused or out of order (abrir_gasto_red,             *)
(* aplicar_hechos_monero).                                                 *)
THEOREM ReciboDelPago == Spec => []ReciboCuadra
<1>1. Init => KInv
  BY ReciboInicio
<1>2. IInv /\ IInv' /\ KInv /\ [Next]_vars => KInv'
  BY ReciboPaso
<1>3. ASSUME KInv PROVE ReciboCuadra
  <2>. SUFFICES ASSUME caidas = 0, vueltas = 0, NEW n \in Partes, copia[n].estado = Pagada
                PROVE  \E t \in cadena : t.monto = copia[n].pct
    BY DEF ReciboCuadra
  <2>1. Firme /\ ~EnPago(n)
    BY <1>3 DEF KInv, EnPago, EnTrato, Pagada
  <2>. QED  BY <2>1 DEF Firme
<1>. QED  BY <1>1, <1>2, <1>3, Invariante, PTL DEF Spec

-----------------------------------------------------------------------------
(* The remainder of what fits is itself.                                   *)
LEMMA RestoDeLoQueCabe ==
  ASSUME NEW m \in Nat \ {0}, NEW x \in Nat, x < m
  PROVE  x % m = x
BY SMT

(* A quotient of a bounded number is bounded.                              *)
LEMMA CocienteAcotado ==
  ASSUME NEW x \in Nat, NEW c \in Nat, x <= 100 * c
  PROVE  x \div 100 \in Nat /\ x \div 100 <= c
BY SMT

(* A percentage of an amount is part of it.                                *)
LEMMA ProductoAcotado ==
  ASSUME NEW c \in Nat, NEW p \in Nat, p <= 100
  PROVE  c * p \in Nat /\ c * p <= 100 * c
<1>1. c * p \in Nat /\ c * (100 - p) \in Nat
  BY SMT
<1>2. c * p + c * (100 - p) = 100 * c
  BY SMT
<1> QED
  BY <1>1, <1>2, SMT

(* While a hundred times the amount fits in u64, a percentage of it is     *)
(* exact up to the cents dropped, and never more than it (monto_pct).      *)
LEMMA MontoPctAcotado ==
  ASSUME NEW total \in Nat, NEW pct \in Nat, pct <= 100, 100 * total < U64
  PROVE  /\ monto_pct(total, pct) \in Nat
         /\ monto_pct(total, pct) <= total
         /\ pct = 100 => monto_pct(total, pct) = total
<1>1. total * pct \in Nat /\ total * pct <= 100 * total
  BY ProductoAcotado
<1>2. total * pct < U64 /\ U64 \in Nat \ {0}
  BY <1>1, RepartoAssumption, SMT
<1>3. (total * pct) % U64 = total * pct
  BY <1>1, <1>2, RestoDeLoQueCabe
<1>4. monto_pct(total, pct) = (total * pct) \div 100
  BY <1>3 DEF monto_pct
<1>5. (total * pct) \div 100 \in Nat /\ (total * pct) \div 100 <= total
  BY <1>1, CocienteAcotado
<1>6. ASSUME pct = 100 PROVE (total * pct) \div 100 = total
  BY <1>6, SMT
<1> QED
  BY <1>4, <1>5, <1>6

(* What split_base is asked for in a payment: the pot of the box and a fee *)
(* that the guards accept.                                                 *)
LEMMA Pote ==
  ASSUME NEW pot \in Nat, NEW capital \in Nat, NEW pct \in Nat, NEW fee \in Nat,
         100 * capital < U64, ~PideMal(pot, capital, pct, fee)
  PROVE  pot = 2 * capital /\ pct <= 100 /\ fee < pot /\ capital > 0
BY RepartoAssumption, SMT DEF PideMal, saturating_mul

(* The split closes: once the guards accept the request, the two errors    *)
(* after them ("no alcanza para el fee", "el reparto no cierra") cannot    *)
(* happen, both parts are amounts, and with the fee they are the pot       *)
(* (split_base, and the comment of Split).                                 *)
THEOREM ElRepartoCierra ==
  ASSUME NEW pot \in Nat, NEW capital \in Nat, NEW pct \in Nat, NEW fee \in Nat,
         100 * capital < U64, ~PideMal(pot, capital, pct, fee)
  PROVE  /\ Reparte(pot, capital, pct, fee)
         /\ Cobros(capital, pct, fee)[1] \in Nat
         /\ Cobros(capital, pct, fee)[2] \in Nat
         /\ Cobros(capital, pct, fee)[1] + Cobros(capital, pct, fee)[2] + fee = pot
<1>1. pot = 2 * capital /\ pct <= 100 /\ fee < pot
  BY Pote
<1> DEFINE p == monto_pct(capital, pct)
<1>2. p \in Nat /\ p <= capital
  BY <1>1, MontoPctAcotado
<1> HIDE DEF p
<1>3. CobraContratista(capital, pct) = capital + p /\ CobraMandante(capital, pct) = capital - p
  BY DEF CobraContratista, CobraMandante, p
<1>4. ~NoAlcanza(capital, pct, fee)
  BY <1>1, <1>2, <1>3, SMT DEF NoAlcanza
<1>5. CASE capital - p >= fee
  <2>1. Cobros(capital, pct, fee) = << capital + p, capital - p - fee >>
    BY <1>3, <1>5 DEF Cobros
  <2> QED
    BY <2>1, <1>1, <1>2, <1>4, <1>5, SMT DEF Reparte, NoCierra
<1>6. CASE ~(capital - p >= fee)
  <2>1. Cobros(capital, pct, fee) = << capital + p - (fee - (capital - p)), 0 >>
    BY <1>1, <1>2, <1>3, <1>6, SMT DEF Cobros
  <2> QED
    BY <2>1, <1>1, <1>2, <1>4, <1>6, SMT DEF Reparte, NoCierra
<1> QED
  BY <1>5, <1>6

(* The contractor gets the whole bond and the agreed part of the stage     *)
(* while the principal's rest can pay the fee; beyond that the principal   *)
(* gets nothing back, and the contractor loses no more than the fee (the   *)
(* header of spend.rs: "the fee comes out of that rest first").            *)
THEOREM ElFeeSaleDelResto ==
  ASSUME NEW pot \in Nat, NEW capital \in Nat, NEW pct \in Nat, NEW fee \in Nat,
         100 * capital < U64, ~PideMal(pot, capital, pct, fee)
  PROVE  LET s == Cobros(capital, pct, fee) IN
         /\ s[1] <= capital + monto_pct(capital, pct)
         /\ s[1] >= capital + monto_pct(capital, pct) - fee
         /\ s[2] # 0 => s[1] = capital + monto_pct(capital, pct)
         /\ (pct = 100 /\ fee > 0) => (s[2] = 0 /\ s[1] = 2 * capital - fee)
<1>1. pot = 2 * capital /\ pct <= 100 /\ fee < pot
  BY Pote
<1> DEFINE p == monto_pct(capital, pct)
<1>2. p \in Nat /\ p <= capital /\ (pct = 100 => p = capital)
  BY <1>1, MontoPctAcotado
<1> HIDE DEF p
<1>3. CobraContratista(capital, pct) = capital + p /\ CobraMandante(capital, pct) = capital - p
  BY DEF CobraContratista, CobraMandante, p
<1>4. SUFFICES /\ Cobros(capital, pct, fee)[1] <= capital + p
               /\ Cobros(capital, pct, fee)[1] >= capital + p - fee
               /\ Cobros(capital, pct, fee)[2] # 0 => Cobros(capital, pct, fee)[1] = capital + p
               /\ (pct = 100 /\ fee > 0) => (/\ Cobros(capital, pct, fee)[2] = 0
                                            /\ Cobros(capital, pct, fee)[1] = 2 * capital - fee)
  BY Zenon DEF p
<1>5. CASE capital - p >= fee
  <2>1. Cobros(capital, pct, fee) = << capital + p, capital - p - fee >>
    BY <1>3, <1>5 DEF Cobros
  <2> QED
    BY <2>1, <1>1, <1>2, <1>5, SMT
<1>6. CASE ~(capital - p >= fee)
  <2>1. Cobros(capital, pct, fee) = << capital + p - (fee - (capital - p)), 0 >>
    BY <1>1, <1>2, <1>3, <1>6, SMT DEF Cobros
  <2> QED
    BY <2>1, <1>1, <1>2, <1>6, SMT
<1> QED
  BY <1>5, <1>6

(* Two versions of the program sign the same payment: what an older one    *)
(* proposes has the same total and differs by one piconero at most, and it *)
(* gives something to both (split_pot_legacy, SpendSession::open).         *)
THEOREM ElViejoEsElMismoPago ==
  ASSUME NEW pot \in Nat, NEW capital \in Nat, NEW pct \in Nat, NEW fee \in Nat,
         100 * capital < U64, ReparteLegacy(pot, capital, pct, fee)
  PROVE  LET s == Cobros(capital, pct, fee)
             v == ConPiconero(s) IN
         /\ v[1] \in Nat \ {0} /\ v[2] \in Nat \ {0}
         /\ v[1] + v[2] + fee = pot
         /\ v[1] - s[1] \in -1 .. 1
<1> DEFINE s == Cobros(capital, pct, fee)
<1>1. ~PideMal(pot, capital, pct, fee) /\ (s[2] = 0 => s[1] >= 2) /\ (s[1] = 0 => s[2] >= 2)
  BY DEF ReparteLegacy, Reparte
<1>2. s[1] \in Nat /\ s[2] \in Nat /\ s[1] + s[2] + fee = pot
  BY <1>1, ElRepartoCierra
<1> HIDE DEF s
<1>3. SUFFICES /\ ConPiconero(s)[1] \in Nat \ {0} /\ ConPiconero(s)[2] \in Nat \ {0}
               /\ ConPiconero(s)[1] + ConPiconero(s)[2] + fee = pot
               /\ ConPiconero(s)[1] - s[1] \in -1 .. 1
  BY DEF s
<1>4. CASE s[2] = 0
  <2>1. ConPiconero(s) = << s[1] - 1, 1 >>
    BY <1>4 DEF ConPiconero
  <2> QED
    BY <2>1, <1>1, <1>2, <1>4, SMT
<1>5. CASE s[2] # 0 /\ s[1] = 0
  <2>1. ConPiconero(s) = << 1, s[2] - 1 >>
    BY <1>5 DEF ConPiconero
  <2> QED
    BY <2>1, <1>1, <1>2, <1>5, SMT
<1>6. CASE s[2] # 0 /\ s[1] # 0
  <2>1. ConPiconero(s) = s
    BY <1>6 DEF ConPiconero
  <2> QED
    BY <2>1, <1>2, <1>6, SMT
<1> QED
  BY <1>4, <1>5, <1>6

(* The piconero of an amount in dollars are the nearest to its price: off  *)
(* by half of one at most (usd_a_piconero).                                *)
THEOREM AlPiconeroMasCercano ==
  ASSUME NEW usd \in Nat, NEW precio \in Nat \ {0}
  PROVE  LET q == usd_a_piconero(usd, precio)
             dif == q * precio - usd * PICONERO IN
         q \in Nat /\ 2 * dif <= precio /\ 2 * dif >= -precio
<1> DEFINE n == usd * PICONERO
<1> DEFINE h == precio \div 2
<1> DEFINE q == (n + h) \div precio
<1>1. n \in Nat
  BY RepartoAssumption, SMT
<1>2. h \in Nat /\ 2 * h <= precio /\ precio <= 2 * h + 1
  BY SMT
<1> HIDE DEF n, h
<1>3. q \in Nat /\ q * precio <= n + h /\ n + h < q * precio + precio
  BY <1>1, <1>2, SMT
<1> HIDE DEF q
<1>4. q * precio \in Nat
  BY <1>3, SMT
<1>5. 2 * (q * precio - n) <= precio /\ 2 * (q * precio - n) >= -precio
  BY <1>1, <1>2, <1>3, <1>4, SMT
<1> QED
  BY <1>3, <1>5 DEF usd_a_piconero, q, h, n

(* The stages of a job add up to it, while they fit in u32; a job that is  *)
(* accepted has one at least (n_partidas).                                 *)
THEOREM LasPartidasSonElTrabajo ==
  ASSUME NEW trabajo \in Nat, NEW garantia \in Nat, Divide(trabajo, garantia),
         trabajo \div garantia < U32
  PROVE  n_partidas(trabajo, garantia) > 0 /\ n_partidas(trabajo, garantia) * garantia = trabajo
<1> DEFINE n == trabajo \div garantia
<1>1. garantia > 0 /\ trabajo > 0 /\ trabajo % garantia = 0
  BY SMT DEF Divide
<1>2. n \in Nat /\ n * garantia = trabajo
  BY <1>1, SMT
<1>3. n > 0
  BY <1>1, <1>2, SMT
<1> HIDE DEF n
<1>4. n % U32 = n
  BY <1>2, RestoDeLoQueCabe, RepartoAssumption DEF n
<1> QED
  BY <1>2, <1>3, <1>4 DEF n_partidas, n

=============================================================================
