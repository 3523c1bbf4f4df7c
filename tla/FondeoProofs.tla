------------------------------ MODULE FondeoProofs -----------------------------
(***************************************************************************)
(* The session of Fondeo implements FirmaDeAmbos, whatever is lost, comes  *)
(* out of order, stops or is proposed again, for any stages, outputs and   *)
(* bounds.                                                                 *)
(*                                                                         *)
(* An amount is agreed to by opening an entry for it.  The contractor      *)
(* compares the amount proposed with the one of its own entry; the         *)
(* principal closes with the skeleton that answers its own proposal.  So   *)
(* what has to be known is where proposals and skeletons come from         *)
(* (Entradas, EnCamino).                                                   *)
(*                                                                         *)
(* The second part shows that until a person goes back no broadcast        *)
(* funding is forgotten, so no stage is funded twice: entry and file of    *)
(* the principal have it (JInv).  The third follows the output an entry of *)
(* the principal took, up to the ledger it leaves (KInv).                  *)
(***************************************************************************)
EXTENDS Fondeo, SequenceTheorems, TLAPS

Mensajes ==
  [paso : {"fund-pedir", "fund-abort", "sin-saldo", "buscando", "falla"},
   etapa : Etapas, cuerpo : {Nada}]
    \cup [paso : {"fund-proposal"}, etapa : Etapas, cuerpo : Propuesta]
    \cup [paso : {"fund-skeleton"}, etapa : Etapas, cuerpo : Esqueleto]
    \cup [paso : {"fund-tx"}, etapa : Etapas, cuerpo : Tx]

Trabajos ==
  [trabajo : {"anillar"}, etapa : Etapas, de : TodasLasSalidas]
    \cup [trabajo : {"ok", "rechazo", "sin-red", "sin-respuesta"}, etapa : Etapas, de : Tx]

Copias == [seq : Montos, estado : 0 .. 2, por : Partes]
Acuerdos == [etapa : Etapas, monto : Montos]

(* The types of what is neither an entry nor a message.                    *)
Resto ==
  /\ copia \in [Partes -> [Etapas -> Copias]]
  /\ ocupado \in [Partes -> Trabajos \cup {Nada}]
  /\ libro \in [Partes -> SUBSET TodasLasSalidas]
  /\ ocultas \in [Partes -> SUBSET TodasLasSalidas]
  /\ espera \in [Etapas -> Tx \cup {Nada}]
  /\ cadena \subseteq Tx
  /\ acordado \in [Partes -> SUBSET Acuerdos]
  /\ firmadas \in [Partes -> SUBSET Tx]
  /\ intentos \in Nat

Monto(e, m) == [etapa |-> e, monto |-> m]

(* An entry is for an amount its person agreed to; a proposal is for one   *)
(* the principal agreed to; a skeleton carries the contractor's signature. *)
Buena(n, e, f, ac, fi) ==
  /\ f.monto # 0 => Monto(e, f.monto) \in ac[n]
  /\ "mandante" \in f.marcas => n = Mandante /\ f.monto # 0
  /\ f.propuesta # Nada => f.propuesta.etapa = e /\ Monto(e, f.propuesta.monto) \in ac[Mandante]
  /\ f.sobre # Nada => n = Contratista /\ f.sobre.etapa = e
  /\ f.esqueleto # Nada => TxDe(f.esqueleto) \in fi[Contratista]
Entradas ==
  /\ fondeo \in [Partes -> [Etapas -> Entrada \cup {Nada}]]
  /\ \A n \in Partes, e \in Etapas :
       fondeo[n][e] # Nada => Buena(n, e, fondeo[n][e], acordado, firmadas)

Bueno(n, m, fi) ==
  /\ m.paso = "fund-proposal" => n = Contratista /\ m.cuerpo.etapa = m.etapa
  /\ m.paso = "fund-skeleton" => TxDe(m.cuerpo) \in fi[Contratista]
EnCamino ==
  /\ red \in [Partes -> Seq(Mensajes)]
  /\ \A n \in Partes : \A k \in DOMAIN red[n] : Bueno(n, red[n][k], firmadas)

IInv == Resto /\ Entradas /\ EnCamino

-----------------------------------------------------------------------------
(* Facts about the two people and about queues, as in GastoProofs.         *)

LEMMA Dos ==
  /\ Mandante \in Partes /\ Contratista \in Partes
  /\ Otro(Mandante) = Contratista /\ Otro(Contratista) = Mandante
  /\ Mandante # Contratista
  /\ \A n \in Partes : Otro(n) \in Partes /\ Otro(n) # n
  /\ \A n \in Partes : n = Mandante \/ n = Contratista
BY FondeoAssumption DEF Partes, Otro

(* A message at the end of a queue.                                        *)
LEMMA AlFinal ==
  ASSUME NEW T, NEW s \in Seq(T), NEW m \in T
  PROVE  /\ Append(s, m) \in Seq(T)
         /\ \A k \in DOMAIN Append(s, m) :
              Append(s, m)[k] = m \/ \E i \in DOMAIN s : Append(s, m)[k] = s[i]
OBVIOUS

(* A queue without one of its messages.                                    *)
LEMMA Quitado ==
  ASSUME NEW T, NEW s \in Seq(T), NEW k \in DOMAIN s
  PROVE  /\ RemoveAt(s, k) \in Seq(T)
         /\ \A j \in DOMAIN RemoveAt(s, k) : \E i \in DOMAIN s : RemoveAt(s, k)[j] = s[i]
<1>1. k \in 1 .. Len(s) /\ Len(s) \in Nat /\ DOMAIN s = 1 .. Len(s)
  BY LenProperties
<1>2. \A i \in 1 .. Len(s) : s[i] \in T
  BY ElementOfSeq
<1>. DEFINE u == SubSeq(s, 1, k - 1)
            v == SubSeq(s, k + 1, Len(s))
<1>3. u \in Seq(T) /\ Len(u) = k - 1 /\ \A j \in 1 .. k - 1 : u[j] = s[j]
  BY <1>1, <1>2, SubSeqProperties
<1>4. v \in Seq(T) /\ Len(v) = Len(s) - k /\ \A j \in 1 .. Len(s) - k : v[j] = s[k + j]
  <2>1. \A i \in k + 1 .. Len(s) : s[i] \in T
    BY <1>1, <1>2
  <2>2. /\ v \in Seq(T) /\ Len(v) = IF k + 1 <= Len(s) THEN Len(s) - (k + 1) + 1 ELSE 0
        /\ \A i \in 1 .. Len(s) - (k + 1) + 1 : v[i] = s[(k + 1) + i - 1]
    BY <2>1, <1>1, SubSeqProperties
  <2>3. Len(s) - (k + 1) + 1 = Len(s) - k /\ Len(v) = Len(s) - k
    BY <2>2, <1>1
  <2>4. ASSUME NEW j \in 1 .. Len(s) - k PROVE v[j] = s[k + j]
    <3>1. (k + 1) + j - 1 = k + j
      BY <1>1
    <3>. QED  BY <3>1, <2>2, <2>3
  <2>. QED  BY <2>2, <2>3, <2>4
<1>. HIDE DEF u, v
<1>5. /\ u \o v \in Seq(T) /\ Len(u \o v) = Len(s) - 1
      /\ \A j \in 1 .. Len(s) - 1 : (u \o v)[j] = IF j <= k - 1 THEN u[j] ELSE v[j - (k - 1)]
  <2>1. /\ u \o v \in Seq(T) /\ Len(u \o v) = Len(u) + Len(v)
        /\ \A j \in 1 .. Len(u) + Len(v) : (u \o v)[j] = IF j <= Len(u) THEN u[j] ELSE v[j - Len(u)]
    BY <1>3, <1>4, ConcatProperties
  <2>2. Len(u) + Len(v) = Len(s) - 1 /\ Len(u) = k - 1
    BY <1>1, <1>3, <1>4
  <2>. QED  BY <2>1, <2>2
<1>6. \A j \in 1 .. Len(s) - 1 : \E i \in 1 .. Len(s) : (u \o v)[j] = s[i]
  <2>. TAKE j \in 1 .. Len(s) - 1
  <2>1. CASE j <= k - 1
    <3>1. (u \o v)[j] = u[j] /\ j \in 1 .. k - 1 /\ j \in 1 .. Len(s)
      BY <2>1, <1>1, <1>5
    <3>. QED  BY <3>1, <1>3
  <2>2. CASE ~(j <= k - 1)
    <3>1. j - (k - 1) \in 1 .. Len(s) - k /\ k + (j - (k - 1)) = j + 1 /\ j + 1 \in 1 .. Len(s)
      BY <2>2, <1>1
    <3>2. (u \o v)[j] = s[j + 1]
      BY <3>1, <2>2, <1>4, <1>5
    <3>. QED  BY <3>1, <3>2
  <2>. QED  BY <2>1, <2>2
<1>7. DOMAIN (u \o v) = 1 .. Len(s) - 1
  BY <1>5, LenProperties
<1>8. RemoveAt(s, k) = u \o v
  BY DEF RemoveAt, u, v
<1>. QED  BY <1>1, <1>5, <1>6, <1>7, <1>8

LEMMA SinPrimero ==
  ASSUME NEW T, NEW s \in Seq(T), s # << >>
  PROVE  /\ Tail(s) \in Seq(T)
         /\ \A j \in DOMAIN Tail(s) : \E i \in DOMAIN s : Tail(s)[j] = s[i]
<1>1. /\ Tail(s) \in Seq(T) /\ Len(Tail(s)) = Len(s) - 1 /\ Len(s) \in Nat \ {0}
      /\ \A j \in 1 .. Len(s) - 1 : Tail(s)[j] = s[j + 1]
  OBVIOUS
<1>. QED  BY <1>1

-----------------------------------------------------------------------------
(* What every step has to show.                                            *)

(* Nothing that was agreed to or signed is forgotten.                      *)
Crece == \A n \in Partes : acordado[n] \subseteq acordado'[n] /\ firmadas[n] \subseteq firmadas'[n]

(* What every step but two does to what both signed and published.         *)
Quieto ==
  /\ \A n \in Partes : acordado[n] \subseteq acordado'[n]
  /\ firmadas' = firmadas /\ cadena' = cadena

FondeoBien ==
  /\ fondeo' \in [Partes -> [Etapas -> Entrada \cup {Nada}]]
  /\ \A n \in Partes, e \in Etapas :
       fondeo'[n][e] \in {fondeo[n][e], Nada} \/ Buena(n, e, fondeo'[n][e], acordado', firmadas')

RedBien ==
  /\ red' \in [Partes -> Seq(Mensajes)]
  /\ \A n \in Partes : \A k \in DOMAIN red'[n] :
       Bueno(n, red'[n][k], firmadas') \/ \E i \in DOMAIN red[n] : red'[n][k] = red[n][i]

LEMMA SigueBien ==
  ASSUME Crece, NEW n \in Partes, NEW e, NEW x
  PROVE  /\ Buena(n, e, x, acordado, firmadas) => Buena(n, e, x, acordado', firmadas')
         /\ Bueno(n, x, firmadas) => Bueno(n, x, firmadas')
BY Dos DEF Crece, Buena, Bueno

LEMMA Junta ==
  ASSUME IInv, Crece, FondeoBien, RedBien, Resto'
  PROVE  IInv'
<1>1. ASSUME NEW n \in Partes, NEW e \in Etapas, fondeo'[n][e] # Nada
      PROVE  Buena(n, e, fondeo'[n][e], acordado', firmadas')
  BY <1>1, SigueBien DEF IInv, FondeoBien, Entradas
<1>2. ASSUME NEW n \in Partes, NEW k \in DOMAIN red'[n]
      PROVE  Bueno(n, red'[n][k], firmadas')
  BY <1>2, SigueBien DEF IInv, RedBien, EnCamino
<1>. QED  BY <1>1, <1>2 DEF IInv, FondeoBien, RedBien, Entradas, EnCamino

LEMMA Crecen == ASSUME Quieto PROVE Crece
BY DEF Quieto, Crece

LEMMA MismoFondeo == ASSUME IInv, fondeo' = fondeo PROVE FondeoBien
BY DEF IInv, Entradas, FondeoBien

LEMMA MismaRed == ASSUME IInv, red' = red PROVE RedBien
BY DEF IInv, EnCamino, RedBien

(* What the steps that neither sign nor touch the chain leave alone.       *)
LEMMA MismoResto ==
  ASSUME IInv, UNCHANGED <<copia, ocupado, billeteras, espera, cadena, historia, intentos>>
  PROVE  Resto' /\ Quieto
BY DEF IInv, Resto, Quieto, billeteras, historia

LEMMA PonBien ==
  ASSUME IInv, NEW n \in Partes, NEW e \in Etapas, NEW f \in Entrada \cup {Nada}, Pon(n, e, f),
         f \in {fondeo[n][e], Nada} \/ Buena(n, e, f, acordado', firmadas')
  PROVE  FondeoBien
BY DEF IInv, Entradas, Pon, FondeoBien

LEMMA EnviaBien ==
  ASSUME IInv, NEW n \in Partes, NEW m \in Mensajes, Envia(n, m), Bueno(Otro(n), m, firmadas')
  PROVE  RedBien
<1>1. red[Otro(n)] \in Seq(Mensajes) /\ Otro(n) \in Partes
  BY Dos DEF IInv, EnCamino
<1>2. red'[Otro(n)] = Append(red[Otro(n)], m) /\ \A q \in Partes : q # Otro(n) => red'[q] = red[q]
  BY <1>1 DEF IInv, EnCamino, Envia
<1>3. /\ red'[Otro(n)] \in Seq(Mensajes)
      /\ \A k \in DOMAIN red'[Otro(n)] :
           red'[Otro(n)][k] = m \/ \E i \in DOMAIN red[Otro(n)] : red'[Otro(n)][k] = red[Otro(n)][i]
  BY <1>1, <1>2, AlFinal
<1>4. red' \in [Partes -> Seq(Mensajes)]
  BY <1>1, <1>2, <1>3 DEF IInv, EnCamino, Envia
<1>. QED  BY <1>1, <1>2, <1>3, <1>4 DEF RedBien

(* A queue that loses a message keeps the others.                          *)
LEMMA MenosBien ==
  ASSUME IInv, NEW n \in Partes, NEW q \in Seq(Mensajes), red' = [red EXCEPT ![n] = q],
         \A k \in DOMAIN q : \E i \in DOMAIN red[n] : q[k] = red[n][i]
  PROVE  RedBien
BY DEF IInv, EnCamino, RedBien

LEMMA LlegaBien ==
  ASSUME IInv, NEW n \in Partes, NEW k, NEW paso, Llega(n, k, paso)
  PROVE  /\ RedBien
         /\ k \in DOMAIN red[n] /\ red[n][k] \in Mensajes /\ red[n][k].paso = paso
         /\ red[n][k].etapa \in Etapas /\ Bueno(n, red[n][k], firmadas)
<1>1. red[n] \in Seq(Mensajes) /\ k \in DOMAIN red[n]
  BY DEF IInv, EnCamino, Llega
<1>2. /\ RemoveAt(red[n], k) \in Seq(Mensajes)
      /\ \A j \in DOMAIN RemoveAt(red[n], k) : \E i \in DOMAIN red[n] : RemoveAt(red[n], k)[j] = red[n][i]
  BY <1>1, Quitado
<1>3. red' = [red EXCEPT ![n] = RemoveAt(red[n], k)]
  BY DEF Llega
<1>4. red[n][k] \in Mensajes
  BY <1>1, ElementOfSeq, LenProperties
<1>5. red[n][k].etapa \in Etapas
  BY <1>4 DEF Mensajes
<1>6. RedBien
  BY <1>2, <1>3, MenosBien
<1>. QED  BY <1>1, <1>4, <1>5, <1>6 DEF Llega, IInv, EnCamino

LEMMA DeEntrada ==
  ASSUME IInv, NEW n \in Partes, NEW e \in Etapas, fondeo[n][e] # Nada
  PROVE  fondeo[n][e] \in Entrada /\ Buena(n, e, fondeo[n][e], acordado, firmadas)
BY DEF IInv, Entradas

-----------------------------------------------------------------------------
(* What becomes of an entry.                                               *)

(* The same entry but for its flags, its notice, its transaction and the   *)
(* output it took.                                                         *)
Variante(g, f) ==
  /\ g \in Entrada
  /\ g.monto = f.monto /\ g.propuesta = f.propuesta /\ g.sobre = f.sobre /\ g.esqueleto = f.esqueleto
  /\ "mandante" \in g.marcas => "mandante" \in f.marcas

LEMMA Variantes ==
  ASSUME NEW f \in Entrada
  PROVE  /\ \A S \in SUBSET (Marcas \ {"mandante"}) : Variante(Con(f, S), f)
         /\ \A S : Variante(Sin(f, S), f)
         /\ \A a \in {Nada, "propio", "otro"} : Variante([f EXCEPT !.aviso = a], f)
         /\ \A t \in Tx : Variante([f EXCEPT !.tx = t], f)
         /\ \A o \in TodasLasSalidas : Variante([f EXCEPT !.gastada = o], f)
<1>1. ASSUME NEW S \in SUBSET (Marcas \ {"mandante"}) PROVE Variante(Con(f, S), f)
  BY <1>1 DEF Variante, Con, Entrada
<1>2. ASSUME NEW S PROVE Variante(Sin(f, S), f)
  BY DEF Variante, Sin, Entrada
<1>3. ASSUME NEW a \in {Nada, "propio", "otro"} PROVE Variante([f EXCEPT !.aviso = a], f)
  BY DEF Variante, Entrada
<1>4. ASSUME NEW t \in Tx PROVE Variante([f EXCEPT !.tx = t], f)
  BY DEF Variante, Entrada
<1>5. ASSUME NEW o \in TodasLasSalidas PROVE Variante([f EXCEPT !.gastada = o], f)
  BY DEF Variante, Entrada
<1>. QED  BY <1>1, <1>2, <1>3, <1>4, <1>5

LEMMA VarianteDeVariante ==
  ASSUME NEW f, NEW g, NEW h, Variante(h, g), Variante(g, f)
  PROVE  Variante(h, f)
BY DEF Variante

LEMMA VarianteBuena ==
  ASSUME NEW n, NEW e, NEW f, NEW g, NEW ac, NEW fi, Variante(g, f), Buena(n, e, f, ac, fi)
  PROVE  Buena(n, e, g, ac, fi)
BY DEF Variante, Buena

LEMMA PonVariante ==
  ASSUME IInv, Crece, NEW n \in Partes, NEW e \in Etapas, fondeo[n][e] # Nada,
         NEW g, Variante(g, fondeo[n][e]), Pon(n, e, g)
  PROVE  FondeoBien
<1>1. g \in Entrada
  BY DEF Variante
<1>2. Buena(n, e, g, acordado', firmadas')
  BY DeEntrada, VarianteBuena, SigueBien
<1>. QED  BY <1>1, <1>2, PonBien

(* The flags of a variant that the steps use most.                         *)
LEMMA VarianteSinMarcas ==
  ASSUME NEW f \in Entrada, NEW g, Variante(g, f), NEW S
  PROVE  Variante(Sin(g, S), f)
<1>1. g \in Entrada
  BY DEF Variante
<1>2. Variante(Sin(g, S), g)
  BY <1>1, Variantes
<1>. QED  BY <1>2, VarianteDeVariante

LEMMA VarianteConMarcas ==
  ASSUME NEW f \in Entrada, NEW g, Variante(g, f), NEW S \in SUBSET (Marcas \ {"mandante"})
  PROVE  Variante(Con(g, S), f)
<1>1. g \in Entrada
  BY DEF Variante
<1>2. Variante(Con(g, S), g)
  BY <1>1, Variantes
<1>. QED  BY <1>2, VarianteDeVariante

LEMMA VarianteIgual == ASSUME NEW f \in Entrada PROVE Variante(f, f)
BY DEF Variante

LEMMA VarianteParada == ASSUME NEW f \in Entrada PROVE Variante(Parada(f), f)
<1>1. Variante(Con(f, {"error"}), f)
  BY VarianteIgual, VarianteConMarcas DEF Marcas
<1>. QED  BY <1>1, VarianteSinMarcas DEF Parada

LEMMA VarianteSoltada == ASSUME NEW f \in Entrada PROVE Variante(SoltarAjeno(f), f)
<1>1. Variante([f EXCEPT !.aviso = Nada], f) /\ Variante(f, f)
  BY Variantes, VarianteIgual
<1>2. Variante(IF f.aviso = "otro" THEN [f EXCEPT !.aviso = Nada] ELSE f, f)
  BY <1>1
<1>. QED  BY <1>2, VarianteSinMarcas DEF SoltarAjeno

(* A message without a body.                                               *)
LEMMA Vacios ==
  ASSUME NEW e \in Etapas, NEW n, NEW fi,
         NEW paso \in {"fund-pedir", "fund-abort", "sin-saldo", "buscando", "falla"}
  PROVE  Mensaje(paso, e, Nada) \in Mensajes /\ Bueno(n, Mensaje(paso, e, Nada), fi)
BY DEF Mensaje, Mensajes, Bueno

LEMMA FallaBien ==
  ASSUME IInv, Crece, NEW n \in Partes, NEW e \in Etapas, fondeo[n][e] # Nada,
         Falla(n, e, fondeo[n][e])
  PROVE  FondeoBien /\ RedBien
<1>1. FondeoBien
  BY DeEntrada, VarianteParada, PonVariante DEF Falla
<1>. DEFINE m == Mensaje("falla", e, Nada)
<1>2. m \in Mensajes /\ Bueno(Otro(n), m, firmadas')
  BY Vacios
<1>3. Envia(n, m) \/ red' = red
  BY DEF Falla
<1>. HIDE DEF m
<1>. QED  BY <1>1, <1>2, <1>3, EnviaBien, MismaRed

(* A new entry is for the amount its opening agrees to.                    *)
LEMMA AcuerdaBien ==
  ASSUME IInv, NEW n \in Partes, NEW e \in Etapas, Acuerda(n, e)
  PROVE  /\ acordado' \in [Partes -> SUBSET Acuerdos]
         /\ \A m \in Partes : acordado[m] \subseteq acordado'[m]
         /\ Monto(e, copia[n][e].seq) \in acordado'[n]
<1>1. copia[n][e].seq \in Montos
  BY DEF IInv, Resto, Copias
<1>. DEFINE a == [etapa |-> e, monto |-> copia[n][e].seq]
<1>2. a \in Acuerdos /\ a = Monto(e, copia[n][e].seq)
  BY <1>1 DEF Acuerdos, Monto
<1>3. acordado' = [acordado EXCEPT ![n] = @ \cup {a}]
  BY DEF Acuerda
<1>. HIDE DEF a
<1>. QED  BY <1>2, <1>3 DEF IInv, Resto

LEMMA NuevaBien ==
  ASSUME IInv, NEW n \in Partes, NEW e \in Etapas, NEW viene \in BOOLEAN,
         Monto(e, copia[n][e].seq) \in acordado'[n]
  PROVE  Nueva(n, e, viene) \in Entrada /\ Buena(n, e, Nueva(n, e, viene), acordado', firmadas')
<1>1. copia[n][e].seq \in Montos
  BY DEF IInv, Resto, Copias
<1>. DEFINE g == Nueva(n, e, viene)
<1>2. /\ g \in Entrada /\ g.monto = copia[n][e].seq
      /\ g.propuesta = Nada /\ g.sobre = Nada /\ g.esqueleto = Nada
      /\ "mandante" \in g.marcas => n = Mandante
  BY <1>1 DEF Nueva, Entrada, Marcas
<1>. HIDE DEF g
<1>3. Buena(n, e, g, acordado', firmadas')
  BY <1>1, <1>2 DEF Buena, Montos
<1>. QED  BY <1>2, <1>3 DEF g

(* An entry that only shows what the other said is for nothing.            *)
LEMMA VaciaBien ==
  ASSUME NEW S \in SUBSET {"par", "error"}, NEW a \in {Nada, "otro"}, NEW n, NEW e, NEW ac, NEW fi
  PROVE  Vacia(S, a) \in Entrada /\ Buena(n, e, Vacia(S, a), ac, fi)
BY DEF Vacia, Entrada, Marcas, Buena

LEMMA BorraBien ==
  ASSUME IInv, NEW n, NEW e \in Etapas, NEW f, BorraEspera(n, e, f)
  PROVE  espera' \in [Etapas -> Tx \cup {Nada}]
BY DEF IInv, Resto, BorraEspera

LEMMA LimpiaBien ==
  ASSUME IInv, NEW n \in Partes, NEW e \in Etapas, Pon(n, e, Limpia(fondeo[n][e]))
  PROVE  FondeoBien
<1>1. Limpia(fondeo[n][e]) \in {fondeo[n][e], Nada}
  BY DEF Limpia
<1>2. fondeo[n][e] \in Entrada \cup {Nada}
  BY DEF IInv, Entradas
<1>. QED  BY <1>1, <1>2, PonBien

-----------------------------------------------------------------------------
(* What a person does.                                                     *)

LEMMA PasoConfirmar ==
  ASSUME IInv, NEW n \in Partes, NEW e \in Etapas, Confirmar(n, e)
  PROVE  IInv' /\ Quieto
<1>1. /\ acordado' \in [Partes -> SUBSET Acuerdos] /\ Quieto
      /\ Monto(e, copia[n][e].seq) \in acordado'[n]
  BY AcuerdaBien DEF Confirmar, Quieto
<1>2. FondeoBien
  BY <1>1, NuevaBien, PonBien DEF Confirmar
<1>3. RedBien
  BY MismaRed DEF Confirmar
<1>4. Resto'
  BY <1>1 DEF IInv, Resto, Confirmar, billeteras, contadores
<1>. QED  BY <1>1, <1>2, <1>3, <1>4, Junta, Crecen

LEMMA PasoReempezar ==
  ASSUME IInv, NEW n \in Partes, NEW e \in Etapas, Reempezar(n, e)
  PROVE  IInv' /\ Quieto
<1>1. /\ acordado' \in [Partes -> SUBSET Acuerdos] /\ Quieto
      /\ Monto(e, copia[n][e].seq) \in acordado'[n]
  BY AcuerdaBien DEF Reempezar, Quieto
<1>2. FondeoBien
  BY <1>1, NuevaBien, PonBien DEF Reempezar
<1>3. RedBien
  BY Vacios, EnviaBien DEF Reempezar
<1>4. espera' \in [Etapas -> Tx \cup {Nada}]
  BY BorraBien DEF Reempezar
<1>5. Resto'
  BY <1>1, <1>4 DEF IInv, Resto, Reempezar, billeteras
<1>. QED  BY <1>1, <1>2, <1>3, <1>5, Junta, Crecen

LEMMA PasoCancelar ==
  ASSUME IInv, NEW n \in Partes, NEW e \in Etapas, Cancelar(n, e)
  PROVE  IInv' /\ Quieto
<1>1. Quieto
  BY DEF Cancelar, Quieto, historia
<1>2. copia' \in [Partes -> [Etapas -> Copias]]
  <2>. DEFINE d == [seq |-> copia[n][e].seq + 1, estado |-> Pendiente, por |-> copia[n][e].por]
  <2>1. copia[n][e].seq \in Nat /\ copia[n][e].por \in Partes
    BY DEF IInv, Resto, Copias, Montos
  <2>2. d \in Copias
    BY <2>1 DEF Copias, Montos, Pendiente
  <2>3. copia' = [copia EXCEPT ![n] = [copia[n] EXCEPT ![e] = d]]
    BY DEF IInv, Resto, Cancelar
  <2>. HIDE DEF d
  <2>. QED  BY <2>2, <2>3 DEF IInv, Resto
<1>3. FondeoBien /\ RedBien /\ espera' \in [Etapas -> Tx \cup {Nada}]
  <2>1. CASE UNCHANGED <<fondeo, red, espera>>
    BY <2>1, MismoFondeo, MismaRed DEF IInv, Resto
  <2>2. CASE /\ Pon(n, e, Limpia(fondeo[n][e])) /\ BorraEspera(n, e, fondeo[n][e])
             /\ Envia(n, Mensaje("fund-abort", e, Nada))
    BY <2>2, LimpiaBien, BorraBien, Vacios, EnviaBien
  <2>. QED  BY <2>1, <2>2 DEF Cancelar
<1>4. Resto'
  BY <1>2, <1>3 DEF IInv, Resto, Cancelar, billeteras, historia
<1>. QED  BY <1>1, <1>3, <1>4, Junta, Crecen

LEMMA PasoReproponer ==
  ASSUME IInv, NEW n \in Partes, NEW e \in Etapas, Reproponer(n, e)
  PROVE  IInv' /\ Quieto
<1>1. Quieto /\ FondeoBien /\ RedBien
  BY MismoFondeo, MismaRed DEF Reproponer, Quieto, historia
<1>2. copia' \in [Partes -> [Etapas -> Copias]]
  <2>. DEFINE d == [seq |-> copia[n][e].seq + 1, estado |-> Encerrando, por |-> n]
  <2>1. copia[n][e].seq \in Nat
    BY DEF IInv, Resto, Copias, Montos
  <2>2. d \in Copias
    BY <2>1 DEF Copias, Montos, Encerrando
  <2>3. copia' = [copia EXCEPT ![n] = [copia[n] EXCEPT ![e] = d]]
    BY DEF IInv, Resto, Reproponer
  <2>. HIDE DEF d
  <2>. QED  BY <2>2, <2>3 DEF IInv, Resto
<1>3. Resto'
  BY <1>2 DEF IInv, Resto, Reproponer, billeteras, historia, contadores
<1>. QED  BY <1>1, <1>3, Junta, Crecen

LEMMA PasoFusionar ==
  ASSUME IInv, NEW n \in Partes, NEW e \in Etapas, Fusionar(n, e)
  PROVE  IInv' /\ Quieto
<1>1. Quieto /\ FondeoBien /\ RedBien
  BY MismoFondeo, MismaRed DEF Fusionar, Quieto, historia
<1>2. copia' \in [Partes -> [Etapas -> Copias]]
  BY Dos DEF IInv, Resto, Fusionar
<1>3. Resto'
  BY <1>2 DEF IInv, Resto, Fusionar, billeteras, historia, contadores
<1>. QED  BY <1>1, <1>3, Junta, Crecen

-----------------------------------------------------------------------------
(* The steps of a tick.                                                    *)

LEMMA PasoLimpiar ==
  ASSUME IInv, NEW n \in Partes, NEW e \in Etapas, Limpiar(n, e)
  PROVE  IInv' /\ Quieto
<1>1. Quieto /\ FondeoBien /\ RedBien
  BY PonBien, MismaRed DEF Limpiar, Quieto, historia
<1>2. Resto'
  BY DEF IInv, Resto, Limpiar, billeteras, historia, contadores
<1>. QED  BY <1>1, <1>2, Junta, Crecen

(* A step that changes flags and notices, and may say so to the other.     *)
LEMMA PasoDeMarcas ==
  ASSUME IInv, NEW n \in Partes, NEW e \in Etapas, fondeo[n][e] # Nada,
         NEW g, Variante(g, fondeo[n][e]), Pon(n, e, g), RedBien,
         UNCHANGED <<copia, ocupado, billeteras, espera, cadena, historia, contadores>>
  PROVE  IInv' /\ Quieto
<1>1. Resto' /\ Quieto
  BY MismoResto DEF contadores
<1>. QED  BY <1>1, PonVariante, Junta, Crecen

LEMMA PasoSoltarAviso ==
  ASSUME IInv, NEW n \in Partes, NEW e \in Etapas, SoltarAviso(n, e)
  PROVE  IInv' /\ Quieto
<1>. DEFINE f == fondeo[n][e]
            g == Sin(Con([f EXCEPT !.aviso = Nada], {"enviado"}), {"espera"})
            h == IF f.propuesta = Nada /\ f.sobre = Nada
                   THEN Poner(g, "avisar", ~Tiene(f, "viene")) ELSE g
<1>1. f # Nada /\ f \in Entrada
  BY DeEntrada DEF SoltarAviso, Viva
<1>. HIDE DEF f
<1>2. Variante([f EXCEPT !.aviso = Nada], f)
  BY <1>1, Variantes
<1>3. Variante(g, f)
  BY <1>1, <1>2, VarianteConMarcas, VarianteSinMarcas DEF Marcas
<1>. HIDE DEF g
<1>4. Variante(h, f)
  BY <1>1, <1>3, VarianteConMarcas, VarianteSinMarcas DEF Marcas, Poner
<1>5. Pon(n, e, h)
  BY DEF SoltarAviso, f, g
<1>. HIDE DEF h
<1>. QED  BY <1>1, <1>4, <1>5, MismaRed, PasoDeMarcas DEF SoltarAviso, f

LEMMA PasoHabilitar ==
  ASSUME IInv, NEW n \in Partes, NEW e \in Etapas, Habilitar(n, e)
  PROVE  IInv' /\ Quieto
<1>. DEFINE f == fondeo[n][e]
            h == Poner(Sin(f, {"espera"}), "avisar", ~Tiene(f, "viene"))
<1>1. f # Nada /\ f \in Entrada
  BY DeEntrada DEF Habilitar, Viva
<1>. HIDE DEF f
<1>2. Variante(Sin(f, {"espera"}), f)
  BY <1>1, Variantes
<1>3. Variante(h, f)
  BY <1>1, <1>2, VarianteConMarcas, VarianteSinMarcas DEF Marcas, Poner
<1>4. Pon(n, e, h)
  BY DEF Habilitar, f
<1>. HIDE DEF h
<1>. QED  BY <1>1, <1>3, <1>4, MismaRed, PasoDeMarcas DEF Habilitar, f

LEMMA PasoAvisar ==
  ASSUME IInv, NEW n \in Partes, NEW e \in Etapas, Avisar(n, e)
  PROVE  IInv' /\ Quieto
<1>1. fondeo[n][e] # Nada /\ Variante(Sin(fondeo[n][e], {"avisar", "espera"}), fondeo[n][e])
  BY DeEntrada, Variantes DEF Avisar, Viva
<1>2. RedBien
  BY Vacios, EnviaBien DEF Avisar
<1>. QED  BY <1>1, <1>2, PasoDeMarcas DEF Avisar

LEMMA PasoEmitirAviso ==
  ASSUME IInv, NEW n \in Partes, NEW e \in Etapas, EmitirAviso(n, e)
  PROVE  IInv' /\ Quieto
<1>1. fondeo[n][e] # Nada /\ Variante(Con(fondeo[n][e], {"enviado"}), fondeo[n][e])
  BY DeEntrada, Variantes DEF EmitirAviso, Viva, Marcas
<1>2. RedBien
  BY Vacios, EnviaBien DEF EmitirAviso
<1>. QED  BY <1>1, <1>2, PasoDeMarcas DEF EmitirAviso

LEMMA PasoEmitirBusqueda ==
  ASSUME IInv, NEW n \in Partes, NEW e \in Etapas, EmitirBusqueda(n, e)
  PROVE  IInv' /\ Quieto
<1>1. fondeo[n][e] # Nada /\ Variante(Con(fondeo[n][e], {"dije"}), fondeo[n][e])
  BY DeEntrada, Variantes DEF EmitirBusqueda, Viva, Marcas
<1>2. RedBien
  BY Vacios, EnviaBien DEF EmitirBusqueda
<1>. QED  BY <1>1, <1>2, PasoDeMarcas DEF EmitirBusqueda

LEMMA PasoCerrarBusqueda ==
  ASSUME IInv, NEW n \in Partes, NEW e \in Etapas, CerrarBusqueda(n, e)
  PROVE  IInv' /\ Quieto
<1>. DEFINE f == fondeo[n][e]
            h == Sin([f EXCEPT !.aviso = "propio"], {"enviado", "espera"})
<1>1. f # Nada /\ f \in Entrada
  BY DeEntrada DEF CerrarBusqueda, FaltaEntrada, Viva
<1>. HIDE DEF f
<1>2. Variante([f EXCEPT !.aviso = "propio"], f)
  BY <1>1, Variantes
<1>3. Variante(h, f)
  BY <1>1, <1>2, VarianteSinMarcas
<1>4. Pon(n, e, h)
  BY DEF CerrarBusqueda, f
<1>. HIDE DEF h
<1>. QED  BY <1>1, <1>3, <1>4, MismaRed, PasoDeMarcas DEF CerrarBusqueda, f

LEMMA PasoVer ==
  ASSUME IInv, NEW n \in Partes, NEW e \in Etapas, Ver(n, e)
  PROVE  IInv' /\ Quieto
<1>. DEFINE f == fondeo[n][e]
<1>1. f # Nada /\ f \in Entrada
  BY DeEntrada DEF Ver, Viva
<1>2. Variante(Con(f, {"visto"}), f)
  BY <1>1, Variantes DEF Marcas
<1>3. Variante(Sin(Con(f, {"visto"}), {"error"}), f)
  BY <1>1, <1>2, VarianteSinMarcas
<1>. QED  BY <1>1, <1>3, MismaRed, PasoDeMarcas DEF Ver

LEMMA PasoHecho ==
  ASSUME IInv, NEW n \in Partes, NEW e \in Etapas, Hecho(n, e)
  PROVE  IInv' /\ Quieto
<1>1. Quieto /\ FondeoBien /\ RedBien
  BY MismoFondeo, MismaRed DEF Hecho, Quieto, historia
<1>2. copia' \in [Partes -> [Etapas -> Copias]]
  <2>. DEFINE c == copia[n][e]
              d == [c EXCEPT !.estado = Encerrada]
  <2>1. c \in Copias
    BY DEF IInv, Resto
  <2>. HIDE DEF c
  <2>2. d \in Copias
    BY <2>1 DEF Copias, Encerrada
  <2>3. copia' = [copia EXCEPT ![n] = [copia[n] EXCEPT ![e] = d]]
    BY DEF IInv, Resto, Hecho, c
  <2>. HIDE DEF d
  <2>. QED  BY <2>2, <2>3 DEF IInv, Resto
<1>3. Resto'
  BY <1>2 DEF IInv, Resto, Hecho, billeteras, historia, contadores
<1>. QED  BY <1>1, <1>3, Junta, Crecen

-----------------------------------------------------------------------------
(* The steps that take an output, propose and answer.                      *)

LEMMA DesocupaBien ==
  ASSUME IInv, NEW n \in Partes, Desocupa(n)
  PROVE  ocupado' \in [Partes -> Trabajos \cup {Nada}]
BY DEF IInv, Resto, Desocupa

LEMMA PasoAnillar ==
  ASSUME IInv, NEW n \in Partes, NEW e \in Etapas, NEW s \in libro[n], Anillar(n, e, s)
  PROVE  IInv' /\ Quieto
<1>1. Quieto /\ RedBien
  BY MismaRed DEF Anillar, Quieto, historia
<1>2. s \in TodasLasSalidas
  BY DEF IInv, Resto
<1>3. fondeo[n][e] # Nada /\ Variante([fondeo[n][e] EXCEPT !.gastada = s], fondeo[n][e])
  BY <1>2, DeEntrada, Variantes DEF Anillar, FaltaEntrada, Viva
<1>4. FondeoBien
  BY <1>1, <1>3, PonVariante, Crecen DEF Anillar
<1>5. ocupado' \in [Partes -> Trabajos \cup {Nada}]
  <2>. DEFINE t == [trabajo |-> "anillar", etapa |-> e, de |-> s]
  <2>1. t \in Trabajos
    BY <1>2 DEF Trabajos
  <2>2. ocupado' = [ocupado EXCEPT ![n] = t]
    BY DEF Anillar
  <2>. HIDE DEF t
  <2>. QED  BY <2>1, <2>2 DEF IInv, Resto
<1>6. Resto'
  BY <1>5 DEF IInv, Resto, Anillar, billeteras, historia, contadores
<1>. QED  BY <1>1, <1>4, <1>6, Junta, Crecen

LEMMA PasoNoAnillo ==
  ASSUME IInv, NEW n \in Partes, NEW e \in Etapas, NoAnillo(n, e)
  PROVE  IInv' /\ Quieto
<1>1. Quieto
  BY DEF NoAnillo, Quieto, historia
<1>2. FondeoBien /\ RedBien
  BY <1>1, Crecen, FallaBien, MismoFondeo, MismaRed DEF NoAnillo
<1>3. Resto'
  BY DesocupaBien DEF IInv, Resto, NoAnillo, billeteras, historia
<1>. QED  BY <1>1, <1>2, <1>3, Junta, Crecen

LEMMA PasoArmarNada ==
  ASSUME IInv, NEW n \in Partes, NEW e \in Etapas, ArmarNada(n, e)
  PROVE  IInv' /\ Quieto
<1>1. Quieto
  BY DEF ArmarNada, Quieto, historia
<1>2. FondeoBien /\ RedBien
  BY <1>1, Crecen, FallaBien, MismoFondeo, MismaRed DEF ArmarNada
<1>3. Resto'
  BY DesocupaBien DEF IInv, Resto, ArmarNada, billeteras, historia, contadores
<1>. QED  BY <1>1, <1>2, <1>3, Junta, Crecen

(* What a job that fetches rings is about.                                 *)
LEMMA DeAnillo ==
  ASSUME IInv, NEW n \in Partes, NEW e, Anillando(n, e)
  PROVE  ocupado[n].de \in TodasLasSalidas
BY DEF IInv, Resto, Anillando, Trabajos

(* The proposal is for the amount of the principal's entry.                *)
LEMMA PasoArmarPropuesta ==
  ASSUME IInv, NEW e \in Etapas, ArmarPropuesta(e)
  PROVE  IInv' /\ Quieto
<1>. DEFINE f == fondeo[Mandante][e]
            o == ocupado[Mandante].de
            p == [etapa |-> e, monto |-> f.monto, salida |-> o, num |-> intentos + 1]
            h == [f EXCEPT !.propuesta = p]
            g == Sin(h, {"error"})
            m == Mensaje("fund-proposal", e, p)
<1>1. Quieto
  BY DEF ArmarPropuesta, Quieto, historia
<1>2. /\ f \in Entrada /\ Buena(Mandante, e, f, acordado, firmadas)
      /\ f.monto \in Montos /\ Monto(e, f.monto) \in acordado[Mandante]
  <2>1. f # Nada /\ "mandante" \in f.marcas
    BY DEF ArmarPropuesta, Tiene
  <2>2. f \in Entrada /\ Buena(Mandante, e, f, acordado, firmadas)
    BY <2>1, DeEntrada, Dos
  <2>. QED  BY <2>1, <2>2 DEF Entrada, Buena
<1>3. o \in TodasLasSalidas /\ intentos \in Nat
  BY DeAnillo, Dos DEF ArmarPropuesta, IInv, Resto
<1>4. Pon(Mandante, e, g) /\ Envia(Mandante, m)
  BY DEF ArmarPropuesta
<1>. HIDE DEF o, f
<1>5. p \in Propuesta /\ p.etapa = e /\ p.monto = f.monto
  BY <1>2, <1>3 DEF Propuesta
<1>. HIDE DEF p
<1>6. h \in Entrada /\ Buena(Mandante, e, h, acordado, firmadas)
  BY <1>2, <1>5 DEF Entrada, Buena
<1>. HIDE DEF h
<1>7. g \in Entrada /\ Buena(Mandante, e, g, acordado, firmadas)
  BY <1>6, Variantes, VarianteBuena DEF Variante
<1>. HIDE DEF g
<1>8. FondeoBien
  BY <1>1, <1>4, <1>7, SigueBien, Crecen, PonBien, Dos
<1>9. m \in Mensajes /\ Bueno(Contratista, m, firmadas')
  BY <1>5 DEF Mensaje, Mensajes, Bueno
<1>. HIDE DEF m
<1>10. RedBien
  BY <1>4, <1>9, EnviaBien, Dos
<1>11. Resto'
  BY DesocupaBien, Dos DEF IInv, Resto, ArmarPropuesta, billeteras, historia
<1>. QED  BY <1>1, <1>8, <1>10, <1>11, Junta, Crecen

(* Only the contractor's box holds a proposal of the other.                *)
LEMMA QuienArma ==
  ASSUME IInv, NEW n \in Partes, NEW e \in Etapas, ArmarEsqueleto(n, e)
  PROVE  LET f == fondeo[n][e]
             k == [propuesta |-> f.sobre, salida |-> ocupado[n].de]
         IN /\ n = Contratista /\ f \in Entrada /\ Buena(n, e, f, acordado, firmadas)
            /\ f.sobre \in Propuesta /\ f.sobre.etapa = e /\ f.sobre.monto = f.monto
            /\ Monto(e, f.monto) \in acordado[n]
            /\ k \in Esqueleto /\ TxDe(k) \in Tx
<1>. DEFINE f == fondeo[n][e]
            o == ocupado[n].de
            k == [propuesta |-> f.sobre, salida |-> o]
<1>1. /\ f \in Entrada /\ Buena(n, e, f, acordado, firmadas)
      /\ f.sobre # Nada /\ f.sobre.monto = f.monto
  BY DeEntrada DEF ArmarEsqueleto
<1>2. o \in TodasLasSalidas
  BY DeAnillo DEF ArmarEsqueleto
<1>. HIDE DEF f, o
<1>3. f.sobre \in Propuesta /\ n = Contratista /\ f.sobre.etapa = e
  BY <1>1 DEF Entrada, Buena
<1>4. f.monto # 0
  BY <1>1, <1>3 DEF Propuesta, Montos
<1>5. Monto(e, f.monto) \in acordado[n]
  BY <1>1, <1>4 DEF Buena
<1>6. k \in Esqueleto /\ TxDe(k) \in Tx
  BY <1>2, <1>3 DEF Esqueleto, Propuesta, TxDe, Tx
<1>. QED  BY <1>1, <1>3, <1>5, <1>6 DEF f, o

LEMMA FirmaBien ==
  ASSUME IInv, NEW n \in Partes, NEW t \in Tx, Firma(n, t)
  PROVE  /\ firmadas' \in [Partes -> SUBSET Tx] /\ t \in firmadas'[n]
         /\ \A m \in Partes : firmadas[m] \subseteq firmadas'[m]
         /\ \A m \in Partes : \A u \in firmadas'[m] \ firmadas[m] : m = n /\ u = t
BY DEF IInv, Resto, Firma

LEMMA PasoArmarEsqueleto ==
  ASSUME IInv, NEW n \in Partes, NEW e \in Etapas, ArmarEsqueleto(n, e)
  PROVE  IInv'
<1>. DEFINE f == fondeo[n][e]
            k == [propuesta |-> f.sobre, salida |-> ocupado[n].de]
            h == [f EXCEPT !.esqueleto = k]
            g == Sin(h, {"error"})
            m == Mensaje("fund-skeleton", e, k)
<1>1. /\ n = Contratista /\ f \in Entrada /\ Buena(n, e, f, acordado, firmadas)
      /\ k \in Esqueleto /\ TxDe(k) \in Tx
  BY QuienArma
<1>2. Pon(n, e, g) /\ Envia(n, m) /\ Firma(n, TxDe(k))
  BY DEF ArmarEsqueleto
<1>. HIDE DEF k, f
<1>3. /\ firmadas' \in [Partes -> SUBSET Tx] /\ TxDe(k) \in firmadas'[Contratista]
      /\ \A q \in Partes : firmadas[q] \subseteq firmadas'[q]
  BY <1>1, <1>2, FirmaBien
<1>4. Crece
  BY <1>3 DEF ArmarEsqueleto, Crece
<1>5. h \in Entrada /\ Buena(n, e, h, acordado', firmadas')
  <2>1. Buena(n, e, f, acordado', firmadas')
    BY <1>1, <1>4, SigueBien
  <2>. QED  BY <1>1, <1>3, <2>1 DEF Entrada, Buena
<1>. HIDE DEF h
<1>6. g \in Entrada /\ Buena(n, e, g, acordado', firmadas')
  BY <1>5, Variantes, VarianteBuena DEF Variante
<1>. HIDE DEF g
<1>7. FondeoBien
  BY <1>2, <1>6, PonBien
<1>8. m \in Mensajes /\ Bueno(Otro(n), m, firmadas')
  BY <1>1, <1>3 DEF Mensaje, Mensajes, Bueno
<1>. HIDE DEF m
<1>9. RedBien
  BY <1>2, <1>8, EnviaBien
<1>10. Resto'
  BY <1>3, DesocupaBien DEF IInv, Resto, ArmarEsqueleto, billeteras, contadores
<1>. QED  BY <1>4, <1>7, <1>9, <1>10, Junta

(* What the principal closes answers its own proposal: the contractor      *)
(* signed that very transaction, for an amount the principal agreed to.    *)
LEMMA QueCierra ==
  ASSUME IInv, NEW e \in Etapas, Cerrar(e)
  PROVE  LET f == fondeo[Mandante][e]
             t == TxDe([propuesta |-> f.propuesta, salida |-> f.esqueleto.salida])
         IN /\ f # Nada /\ f \in Entrada /\ t \in Tx
            /\ t \in firmadas[Contratista]
            /\ Monto(t.etapa, t.monto) \in acordado[Mandante]
<1>. DEFINE f == fondeo[Mandante][e]
            t == TxDe([propuesta |-> f.propuesta, salida |-> f.esqueleto.salida])
<1>1. /\ f # Nada /\ f \in Entrada /\ Buena(Mandante, e, f, acordado, firmadas)
      /\ f.propuesta # Nada /\ f.esqueleto # Nada /\ f.esqueleto.propuesta = f.propuesta
  BY DeEntrada, Dos DEF Cerrar, ListaParaCerrar, Viva, Responde
<1>. HIDE DEF f
<1>2. f.propuesta \in Propuesta /\ f.esqueleto \in Esqueleto
  BY <1>1 DEF Entrada
<1>3. t \in Tx
  BY <1>2 DEF Esqueleto, Propuesta, TxDe, Tx
<1>4. t = TxDe(f.esqueleto)
  BY <1>1 DEF TxDe
<1>5. t.etapa = f.propuesta.etapa /\ t.monto = f.propuesta.monto
  BY DEF TxDe
<1>. HIDE DEF t
<1>6. t \in firmadas[Contratista] /\ Monto(t.etapa, t.monto) \in acordado[Mandante]
  BY <1>1, <1>4, <1>5 DEF Buena
<1>. QED  BY <1>1, <1>3, <1>6 DEF t, f

LEMMA PasoCerrar ==
  ASSUME IInv, NEW e \in Etapas, Cerrar(e)
  PROVE  IInv'
<1>. DEFINE f == fondeo[Mandante][e]
            t == TxDe([propuesta |-> f.propuesta, salida |-> f.esqueleto.salida])
            g == [f EXCEPT !.tx = t]
<1>1. f # Nada /\ f \in Entrada /\ t \in Tx
  BY QueCierra
<1>2. /\ Pon(Mandante, e, g) /\ Firma(Mandante, t) /\ espera' = [espera EXCEPT ![e] = t]
      /\ \E r \in Difusiones(t) :
           /\ ocupado' = [ocupado EXCEPT ![Mandante] = [trabajo |-> r, etapa |-> e, de |-> t]]
           /\ cadena' \in {cadena, cadena \cup {t}}
  BY DEF Cerrar
<1>. HIDE DEF t
<1>3. /\ firmadas' \in [Partes -> SUBSET Tx]
      /\ \A q \in Partes : firmadas[q] \subseteq firmadas'[q]
  BY <1>1, <1>2, FirmaBien, Dos
<1>4. Crece
  BY <1>3 DEF Cerrar, Crece
<1>5. FondeoBien
  <2>1. Variante(g, f)
    BY <1>1, Variantes
  <2>. HIDE DEF g
  <2>. QED  BY <1>1, <1>2, <1>4, <2>1, PonVariante, Dos
<1>6. RedBien
  BY MismaRed DEF Cerrar
<1>7. /\ ocupado' \in [Partes -> Trabajos \cup {Nada}]
      /\ cadena' \subseteq Tx /\ espera' \in [Etapas -> Tx \cup {Nada}]
  <2>1. PICK r \in Difusiones(t) :
          /\ ocupado' = [ocupado EXCEPT ![Mandante] = [trabajo |-> r, etapa |-> e, de |-> t]]
          /\ cadena' \in {cadena, cadena \cup {t}}
    BY <1>2
  <2>. DEFINE j == [trabajo |-> r, etapa |-> e, de |-> t]
  <2>2. r \in {"ok", "rechazo", "sin-red", "sin-respuesta"}
    BY DEF Difusiones
  <2>3. j \in Trabajos
    BY <1>1, <2>2 DEF Trabajos
  <2>. HIDE DEF j
  <2>4. ocupado' = [ocupado EXCEPT ![Mandante] = j]
    BY <2>1 DEF j
  <2>. QED  BY <1>1, <1>2, <2>1, <2>3, <2>4 DEF IInv, Resto
<1>8. Resto'
  BY <1>3, <1>7 DEF IInv, Resto, Cerrar, billeteras
<1>. QED  BY <1>4, <1>5, <1>6, <1>8, Junta

LEMMA PasoCerrarNo ==
  ASSUME IInv, NEW e \in Etapas, CerrarNo(e)
  PROVE  IInv' /\ Quieto
<1>1. Resto' /\ Quieto
  BY MismoResto DEF CerrarNo, contadores
<1>2. FondeoBien /\ RedBien
  BY <1>1, Crecen, FallaBien, Dos DEF CerrarNo, ListaParaCerrar, Viva
<1>. QED  BY <1>1, <1>2, Junta, Crecen

LEMMA ConsumeBien ==
  ASSUME IInv, NEW n, NEW f, Consume(n, f)
  PROVE  libro' \in [Partes -> SUBSET TodasLasSalidas]
BY DEF IInv, Resto, Consume

LEMMA PasoPublicado ==
  ASSUME IInv, NEW e \in Etapas, Publicado(e)
  PROVE  IInv' /\ Quieto
<1>1. Quieto /\ FondeoBien
  BY MismoFondeo DEF Publicado, Quieto, historia
<1>2. libro' \in [Partes -> SUBSET TodasLasSalidas]
  BY ConsumeBien DEF IInv, Resto, Publicado
<1>3. RedBien
  <2>. DEFINE m == Mensaje("fund-tx", e, ocupado[Mandante].de)
  <2>1. ocupado[Mandante].de \in Tx
    BY Dos DEF IInv, Resto, Trabajos, Publicado, Publicando
  <2>2. m \in Mensajes /\ Bueno(Contratista, m, firmadas')
    BY <2>1 DEF Mensaje, Mensajes, Bueno
  <2>3. red' = red \/ Envia(Mandante, m)
    BY DEF Publicado
  <2>. HIDE DEF m
  <2>. QED  BY <2>2, <2>3, EnviaBien, MismaRed, Dos
<1>4. Resto'
  BY <1>2, DesocupaBien, Dos DEF IInv, Resto, Publicado, historia, contadores
<1>. QED  BY <1>1, <1>3, <1>4, Junta, Crecen

LEMMA PasoNoPublicado ==
  ASSUME IInv, NEW e \in Etapas, NoPublicado(e)
  PROVE  IInv' /\ Quieto
<1>1. Quieto
  BY DEF NoPublicado, Quieto, historia
<1>2. FondeoBien /\ RedBien
  BY <1>1, Crecen, FallaBien, MismoFondeo, MismaRed, Dos DEF NoPublicado
<1>3. Resto'
  BY DesocupaBien, Dos DEF IInv, Resto, NoPublicado, billeteras, historia, contadores
<1>. QED  BY <1>1, <1>2, <1>3, Junta, Crecen

LEMMA PasoRechazado ==
  ASSUME IInv, NEW e \in Etapas, Rechazado(e)
  PROVE  IInv' /\ Quieto
<1>1. Quieto
  BY DEF Rechazado, Quieto, historia
<1>2. FondeoBien /\ espera' \in [Etapas -> Tx \cup {Nada}]
  BY LimpiaBien, BorraBien, Dos DEF Rechazado
<1>3. RedBien
  <2>. DEFINE a == Mensaje("falla", e, Nada)
              b == Mensaje("fund-abort", e, Nada)
              q == red[Contratista] \o <<a, b>>
  <2>1. /\ a \in Mensajes /\ Bueno(Contratista, a, firmadas')
        /\ b \in Mensajes /\ Bueno(Contratista, b, firmadas')
    BY Vacios
  <2>2. red' = red \/ red' = [red EXCEPT ![Contratista] = q]
    BY DEF Rechazado
  <2>. HIDE DEF a, b
  <2>3. red[Contratista] \in Seq(Mensajes)
    BY Dos DEF IInv, EnCamino
  <2>4. /\ q \in Seq(Mensajes)
        /\ \A k \in DOMAIN q : q[k] \in {a, b} \/ \E i \in DOMAIN red[Contratista] : q[k] = red[Contratista][i]
    BY <2>1, <2>3
  <2>. HIDE DEF q
  <2>5. CASE red' = [red EXCEPT ![Contratista] = q]
    <3>1. red' \in [Partes -> Seq(Mensajes)]
      BY <2>4, <2>5 DEF IInv, EnCamino
    <3>2. red'[Contratista] = q /\ \A n \in Partes : n # Contratista => red'[n] = red[n]
      BY <2>5, Dos DEF IInv, EnCamino
    <3>. QED  BY <2>1, <2>4, <3>1, <3>2 DEF RedBien
  <2>. QED  BY <2>2, <2>5, MismaRed
<1>4. Resto'
  BY <1>2, DesocupaBien, Dos DEF IInv, Resto, Rechazado, billeteras, historia, contadores
<1>. QED  BY <1>1, <1>2, <1>3, <1>4, Junta, Crecen

-----------------------------------------------------------------------------
(* The messages.                                                           *)

(* What is left to show of a message that changes nothing but an entry.    *)
LEMMA LlegaPaso ==
  ASSUME IInv, NEW n \in Partes, NEW k, NEW paso, Llega(n, k, paso), FondeoBien,
         UNCHANGED <<copia, ocupado, billeteras, espera, cadena, historia, vueltas, intentos>>
  PROVE  IInv' /\ Quieto
<1>1. Resto' /\ Quieto
  BY MismoResto
<1>. QED  BY <1>1, LlegaBien, Junta, Crecen

LEMMA PasoTomarPedido ==
  ASSUME IInv, NEW n \in Partes, NEW k, TomarPedido(n, k)
  PROVE  IInv' /\ Quieto
<1>. DEFINE e == red[n][k].etapa
            f == fondeo[n][e]
            vacio == f = Nada \/ (Tiene(f, "solo") /\ f.tx = Nada)
<1>1. RedBien /\ e \in Etapas
  BY LlegaBien DEF TomarPedido
<1>2. CASE vacio /\ EnEncierre(n, e)
  <2>1. Pon(n, e, Nueva(n, e, TRUE)) /\ Acuerda(n, e)
    BY <1>2 DEF TomarPedido
  <2>. HIDE DEF e
  <2>2. /\ acordado' \in [Partes -> SUBSET Acuerdos] /\ Quieto
        /\ Monto(e, copia[n][e].seq) \in acordado'[n]
    BY <1>1, <2>1, AcuerdaBien DEF TomarPedido, Quieto
  <2>3. FondeoBien
    BY <1>1, <2>1, <2>2, NuevaBien, PonBien
  <2>4. Resto'
    BY <2>2 DEF IInv, Resto, TomarPedido, billeteras
  <2>. QED  BY <1>1, <2>2, <2>3, <2>4, Junta, Crecen
<1>3. CASE ~(vacio /\ EnEncierre(n, e))
  <2>1. Pon(n, e, IF vacio THEN Nada ELSE SoltarAjeno(f)) /\ acordado' = acordado
    BY <1>3 DEF TomarPedido
  <2>2. Resto' /\ Quieto
    BY <2>1, MismoResto DEF TomarPedido, historia
  <2>. HIDE DEF e
  <2>3. FondeoBien
    <3>1. CASE vacio
      BY <1>1, <2>1, <3>1, PonBien
    <3>2. CASE ~vacio
      <4>1. f # Nada
        BY <3>2
      <4>2. Variante(SoltarAjeno(f), f)
        BY <1>1, <4>1, DeEntrada, VarianteSoltada
      <4>. QED  BY <1>1, <2>1, <2>2, <3>2, <4>1, <4>2, PonVariante, Crecen
    <3>. QED  BY <3>1, <3>2
  <2>. QED  BY <1>1, <2>2, <2>3, Junta, Crecen
<1>. QED  BY <1>2, <1>3

LEMMA PasoTomarPropuesta ==
  ASSUME IInv, NEW n \in Partes, NEW k, TomarPropuesta(n, k)
  PROVE  IInv' /\ Quieto
<1>. DEFINE e == red[n][k].etapa
            f == fondeo[n][e]
            p == red[n][k].cuerpo
            h == [f EXCEPT !.sobre = p]
            g == Sin(SoltarAjeno(h), {"error"})
<1>1. Llega(n, k, "fund-proposal") /\ (fondeo' = fondeo \/ (f # Nada /\ Pon(n, e, g)))
  BY DEF TomarPropuesta
<1>2. p \in Propuesta /\ p.etapa = e /\ n = Contratista /\ e \in Etapas
  BY <1>1, LlegaBien DEF Mensajes, Bueno
<1>3. UNCHANGED <<copia, ocupado, billeteras, espera, cadena, historia, vueltas, intentos>>
  BY DEF TomarPropuesta
<1>. HIDE DEF e, p
<1>4. ASSUME f # Nada, Pon(n, e, g) PROVE FondeoBien
  <2>1. f \in Entrada /\ Buena(n, e, f, acordado, firmadas)
    BY <1>2, <1>4, DeEntrada
  <2>2. h \in Entrada /\ Buena(n, e, h, acordado, firmadas)
    <3>. HIDE DEF f
    <3>. QED  BY <2>1, <1>2 DEF Entrada, Buena
  <2>. HIDE DEF h
  <2>3. Variante(g, h)
    BY <2>2, VarianteSoltada, VarianteSinMarcas
  <2>4. g \in Entrada /\ Buena(n, e, g, acordado', firmadas')
    BY <1>3, <2>2, <2>3, VarianteBuena DEF Variante, historia
  <2>. HIDE DEF g
  <2>. QED  BY <1>2, <1>4, <2>4, PonBien
<1>. QED  BY <1>1, <1>3, <1>4, MismoFondeo, LlegaPaso

LEMMA PasoTomarEsqueleto ==
  ASSUME IInv, NEW n \in Partes, NEW k, TomarEsqueleto(n, k)
  PROVE  IInv' /\ Quieto
<1>. DEFINE e == red[n][k].etapa
            f == fondeo[n][e]
            p == red[n][k].cuerpo
            h == [f EXCEPT !.esqueleto = p]
            g == Sin(SoltarAjeno(h), {"error"})
<1>1. Llega(n, k, "fund-skeleton") /\ (fondeo' = fondeo \/ (f # Nada /\ Pon(n, e, g)))
  BY DEF TomarEsqueleto, Tiene
<1>2. p \in Esqueleto /\ TxDe(p) \in firmadas[Contratista] /\ e \in Etapas
  BY <1>1, LlegaBien DEF Mensajes, Bueno
<1>3. UNCHANGED <<copia, ocupado, billeteras, espera, cadena, historia, vueltas, intentos>>
  BY DEF TomarEsqueleto
<1>. HIDE DEF e, p
<1>4. ASSUME f # Nada, Pon(n, e, g) PROVE FondeoBien
  <2>1. f \in Entrada /\ Buena(n, e, f, acordado, firmadas)
    BY <1>2, <1>4, DeEntrada
  <2>2. h \in Entrada /\ Buena(n, e, h, acordado, firmadas)
    <3>. HIDE DEF f
    <3>. QED  BY <2>1, <1>2 DEF Entrada, Buena
  <2>. HIDE DEF h
  <2>3. Variante(g, h)
    BY <2>2, VarianteSoltada, VarianteSinMarcas
  <2>4. g \in Entrada /\ Buena(n, e, g, acordado', firmadas')
    BY <1>3, <2>2, <2>3, VarianteBuena DEF Variante, historia
  <2>. HIDE DEF g
  <2>. QED  BY <1>2, <1>4, <2>4, PonBien
<1>. QED  BY <1>1, <1>3, <1>4, MismoFondeo, LlegaPaso

LEMMA PasoTomarTx ==
  ASSUME IInv, NEW n \in Partes, NEW k, TomarTx(n, k)
  PROVE  IInv' /\ Quieto
<1>. DEFINE e == red[n][k].etapa
            f == fondeo[n][e]
            t == red[n][k].cuerpo
            h == [f EXCEPT !.tx = t]
            g == Sin(h, {"error"})
<1>1. /\ Llega(n, k, "fund-tx")
      /\ \/ fondeo' = fondeo /\ libro' = libro
         \/ f # Nada /\ Pon(n, e, g) /\ Consume(n, f)
  BY DEF TomarTx, Tiene
<1>2. t \in Tx /\ e \in Etapas
  BY <1>1, LlegaBien DEF Mensajes, Bueno
<1>3. Quieto /\ RedBien /\ libro' \in [Partes -> SUBSET TodasLasSalidas]
  BY <1>1, LlegaBien, ConsumeBien DEF TomarTx, Quieto, historia, IInv, Resto
<1>. HIDE DEF e, t
<1>4. ASSUME f # Nada, Pon(n, e, g) PROVE FondeoBien
  <2>1. f \in Entrada
    BY <1>2, <1>4, DeEntrada
  <2>2. Variante(h, f)
    BY <1>2, <2>1, Variantes
  <2>3. Variante(g, f)
    BY <2>1, <2>2, VarianteSinMarcas
  <2>. HIDE DEF g
  <2>. QED  BY <1>2, <1>3, <1>4, <2>3, PonVariante, Crecen
<1>5. Resto'
  BY <1>3 DEF IInv, Resto, TomarTx, historia
<1>. QED  BY <1>1, <1>3, <1>4, <1>5, MismoFondeo, Junta, Crecen

LEMMA PasoTomarAborto ==
  ASSUME IInv, NEW n \in Partes, NEW k, TomarAborto(n, k)
  PROVE  IInv' /\ Quieto
<1>. DEFINE e == red[n][k].etapa
<1>1. RedBien /\ e \in Etapas
  BY LlegaBien DEF TomarAborto
<1>2. Pon(n, e, Limpia(fondeo[n][e])) /\ BorraEspera(n, e, fondeo[n][e])
  BY DEF TomarAborto
<1>. HIDE DEF e
<1>3. FondeoBien /\ espera' \in [Etapas -> Tx \cup {Nada}]
  BY <1>1, <1>2, LimpiaBien, BorraBien
<1>4. Resto' /\ Quieto
  BY <1>3 DEF IInv, Resto, Quieto, TomarAborto, billeteras, historia
<1>. QED  BY <1>1, <1>3, <1>4, Junta, Crecen

(* A notice, a search or an error of the other: flags of the entry, or an  *)
(* entry that only shows it.                                               *)
LEMMA FalloBien ==
  ASSUME IInv, NEW n \in Partes, NEW e \in Etapas,
         NEW g \in {ConAviso(fondeo[n][e]), ConBusqueda(fondeo[n][e]), ConError(fondeo[n][e])}
  PROVE  g \in Entrada /\ Buena(n, e, g, acordado, firmadas)
<1>. DEFINE f == fondeo[n][e]
<1>1. CASE f = Nada
  <2>1. /\ Vacia({}, "otro") \in Entrada /\ Buena(n, e, Vacia({}, "otro"), acordado, firmadas)
        /\ Vacia({"par"}, Nada) \in Entrada /\ Buena(n, e, Vacia({"par"}, Nada), acordado, firmadas)
        /\ Vacia({"error"}, Nada) \in Entrada /\ Buena(n, e, Vacia({"error"}, Nada), acordado, firmadas)
    BY VaciaBien
  <2>. QED  BY <1>1, <2>1 DEF ConAviso, ConBusqueda, ConError
<1>2. CASE f # Nada
  <2>1. f \in Entrada /\ Buena(n, e, f, acordado, firmadas)
    BY <1>2, DeEntrada
  <2>. HIDE DEF f
  <2>2. /\ Variante([f EXCEPT !.aviso = "otro"], f)
        /\ Variante(Con(f, {"par"}), f) /\ Variante(Con(f, {"error", "enviado"}), f) /\ Variante(f, f)
    BY <2>1, Variantes, VarianteIgual DEF Marcas
  <2>3. Variante(Con([f EXCEPT !.aviso = "otro"], {"enviado"}), f)
    BY <2>1, <2>2, VarianteConMarcas DEF Marcas
  <2>4. Variante(Sin(Con([f EXCEPT !.aviso = "otro"], {"enviado"}), {"espera", "par", "error"}), f)
    BY <2>1, <2>3, VarianteSinMarcas
  <2>5. Variante(ConAviso(f), f) /\ Variante(ConBusqueda(f), f) /\ Variante(ConError(f), f)
    BY <1>2, <2>2, <2>4 DEF ConAviso, ConBusqueda, ConError
  <2>6. Variante(g, f)
    BY <2>5 DEF f
  <2>. QED  BY <2>1, <2>6, VarianteBuena DEF Variante
<1>. QED  BY <1>1, <1>2

LEMMA PasoTomarFallos ==
  ASSUME IInv, NEW n \in Partes, NEW k, TomarFallos(n, k)
  PROVE  IInv' /\ Quieto
<1>. DEFINE e == red[n][k].etapa
<1>1. PICK paso \in {"sin-saldo", "buscando", "falla"},
           g \in {ConAviso(fondeo[n][e]), ConBusqueda(fondeo[n][e]), ConError(fondeo[n][e])} :
        TomarFallo(n, k, paso, g)
  BY DEF TomarFallos
<1>2. Llega(n, k, paso) /\ Pon(n, e, g) /\ e \in Etapas
  BY <1>1, LlegaBien DEF TomarFallo
<1>. HIDE DEF e
<1>3. g \in Entrada /\ Buena(n, e, g, acordado, firmadas)
  BY <1>2, FalloBien
<1>4. UNCHANGED <<copia, ocupado, billeteras, espera, cadena, historia, vueltas, intentos>>
  BY <1>1 DEF TomarFallo
<1>5. FondeoBien
  BY <1>2, <1>3, <1>4, PonBien DEF historia
<1>. QED  BY <1>2, <1>4, <1>5, LlegaPaso

-----------------------------------------------------------------------------
(* The wallet, the network and the program.                                *)

LEMMA PasoDeBilletera ==
  ASSUME IInv, NEW n \in Partes, DeBilletera(n)
  PROVE  IInv' /\ Quieto
<1>1. /\ fondeo' = fondeo /\ red' = red
      /\ UNCHANGED <<copia, ocupado, espera, cadena, historia, contadores>>
  BY DEF DeBilletera, Podar, TerminarScan, Hallar
<1>2. Quieto /\ FondeoBien /\ RedBien
  BY <1>1, MismoFondeo, MismaRed DEF Quieto, historia
<1>3. libro' \in [Partes -> SUBSET TodasLasSalidas] /\ ocultas' \in [Partes -> SUBSET TodasLasSalidas]
  BY DEF IInv, Resto, DeBilletera, Podar, TerminarScan, Hallar
<1>4. Resto'
  BY <1>1, <1>3 DEF IInv, Resto, historia, contadores
<1>. QED  BY <1>2, <1>4, Junta, Crecen

LEMMA PasoPerder ==
  ASSUME IInv, NEW n \in Partes, Perder(n)
  PROVE  IInv' /\ Quieto
<1>. DEFINE q == Tail(red[n])
<1>1. Resto' /\ Quieto /\ FondeoBien
  BY MismoResto, MismoFondeo DEF Perder
<1>2. red' = [red EXCEPT ![n] = q]
  BY DEF Perder
<1>3. q \in Seq(Mensajes) /\ \A k \in DOMAIN q : \E i \in DOMAIN red[n] : q[k] = red[n][i]
  BY SinPrimero DEF IInv, EnCamino, Perder
<1>. HIDE DEF q
<1>. QED  BY <1>1, <1>2, <1>3, MenosBien, Junta, Crecen

(* A program that starts again has entries without an amount, a proposal   *)
(* or a skeleton.                                                          *)
LEMMA PasoCaer ==
  ASSUME IInv, NEW n \in Partes, Caer(n)
  PROVE  IInv' /\ Quieto
<1>. DEFINE F == [e \in Etapas |-> IF n = Mandante /\ espera[e] # Nada THEN Recargada(espera[e]) ELSE Nada]
<1>1. Quieto /\ RedBien
  BY MismaRed DEF Caer, Quieto, historia
<1>2. \A e \in Etapas : espera[e] # Nada =>
        Recargada(espera[e]) \in Entrada /\ Buena(n, e, Recargada(espera[e]), acordado', firmadas')
  BY DEF IInv, Resto, Recargada, Entrada, Marcas, Buena
<1>3. /\ F \in [Etapas -> Entrada \cup {Nada}]
      /\ \A e \in Etapas : F[e] = Nada \/ Buena(n, e, F[e], acordado', firmadas')
  BY <1>2
<1>4. fondeo' = [fondeo EXCEPT ![n] = F]
  BY DEF Caer
<1>. HIDE DEF F
<1>5. FondeoBien
  BY <1>3, <1>4 DEF IInv, Entradas, FondeoBien
<1>6. Resto'
  BY DesocupaBien DEF IInv, Resto, Caer, billeteras, historia
<1>. QED  BY <1>1, <1>5, <1>6, Junta, Crecen

-----------------------------------------------------------------------------
(* The invariant and the refinement.                                       *)

LEMMA Inicio ==
  ASSUME Init
  PROVE  IInv
<1>1. copia \in [Partes -> [Etapas -> Copias]]
  BY FondeoAssumption DEF Init, Copias, Montos, Encerrando
<1>2. /\ libro \in [Partes -> SUBSET TodasLasSalidas]
      /\ ocultas \in [Partes -> SUBSET TodasLasSalidas]
  BY DEF Init, TodasLasSalidas, Partes
<1>3. Resto
  BY <1>1, <1>2 DEF Init, Resto
<1>4. Entradas /\ EnCamino
  BY DEF Init, Entradas, EnCamino
<1>. QED  BY <1>3, <1>4 DEF IInv

LEMMA PasoQuieto ==
  ASSUME IInv, UNCHANGED vars
  PROVE  IInv' /\ Quieto
<1>1. Resto' /\ Quieto /\ FondeoBien /\ RedBien
  BY MismoResto, MismoFondeo, MismaRed DEF vars, contadores
<1>. QED  BY <1>1, Junta, Crecen

(* Every step but two neither signs nor publishes.                         *)
LEMMA PasoDeLosDemas ==
  ASSUME IInv, [Next]_vars, \A n \in Partes, e \in Etapas : ~ArmarEsqueleto(n, e),
         \A e \in Etapas : ~Cerrar(e)
  PROVE  IInv' /\ Quieto
<1>1. ASSUME NEW n \in Partes, NEW e \in Etapas, DePersona(n, e) PROVE IInv' /\ Quieto
  BY <1>1, PasoConfirmar, PasoReempezar, PasoCancelar, PasoReproponer DEF DePersona
<1>2. ASSUME NEW n \in Partes, NEW e \in Etapas, DeTick(n, e) PROVE IInv' /\ Quieto
  BY <1>2, PasoLimpiar, PasoSoltarAviso, PasoHabilitar, PasoAvisar, PasoEmitirAviso,
     PasoEmitirBusqueda, PasoCerrarBusqueda, PasoAnillar, PasoArmarNada, PasoVer, PasoHecho DEF DeTick
<1>3. ASSUME NEW e \in Etapas, DelMandante(e) PROVE IInv' /\ Quieto
  BY <1>3, PasoArmarPropuesta, PasoCerrarNo, PasoPublicado, PasoNoPublicado, PasoRechazado DEF DelMandante
<1>4. ASSUME NEW n \in Partes, NEW k \in DOMAIN red[n], DeMensaje(n, k) PROVE IInv' /\ Quieto
  BY <1>4, PasoTomarPedido, PasoTomarPropuesta, PasoTomarEsqueleto, PasoTomarTx, PasoTomarAborto,
     PasoTomarFallos DEF DeMensaje
<1>. QED  BY <1>1, <1>2, <1>3, <1>4, PasoNoAnillo, PasoFusionar, PasoDeBilletera, PasoPerder,
             PasoCaer, PasoQuieto DEF Next

LEMMA Paso ==
  ASSUME IInv, [Next]_vars
  PROVE  IInv'
BY PasoDeLosDemas, PasoArmarEsqueleto, PasoCerrar

(* Whatever is lost, overtaken, stopped or started again, a skeleton       *)
(* carries the signature of the contractor and a proposal an amount the    *)
(* principal agreed to (contratista_responde, mandante_cierra).            *)
THEOREM Invariante == Spec => []IInv
BY Inicio, Paso, PTL DEF Spec

LEMMA FirmaContratista ==
  ASSUME IInv, NEW n \in Partes, NEW e \in Etapas, ArmarEsqueleto(n, e)
  PROVE  Ambos!Next
<1>. DEFINE f == fondeo[n][e]
            k == [propuesta |-> f.sobre, salida |-> ocupado[n].de]
            t == TxDe(k)
<1>1. /\ t \in Tx /\ Monto(e, f.monto) \in acordado[n]
      /\ f.sobre.etapa = e /\ f.sobre.monto = f.monto
  BY QuienArma
<1>2. Firma(n, t) /\ acordado' = acordado /\ cadena' = cadena
  BY DEF ArmarEsqueleto
<1>3. t.etapa = f.sobre.etapa /\ t.monto = f.sobre.monto
  BY DEF TxDe
<1>. HIDE DEF t, f
<1>4. [etapa |-> t.etapa, monto |-> t.monto] \in acordado[n]
  BY <1>1, <1>3 DEF Monto
<1>5. /\ \A m \in Partes : firmadas[m] \subseteq firmadas'[m]
      /\ \A m \in Partes : \A u \in firmadas'[m] \ firmadas[m] : m = n /\ u = t
  BY <1>1, <1>2, FirmaBien
<1>6. Ambos!Firmar
  BY <1>2, <1>4, <1>5 DEF Ambos!Firmar
<1>. QED  BY <1>6 DEF Ambos!Next

LEMMA FirmaMandante ==
  ASSUME IInv, NEW e \in Etapas, Cerrar(e)
  PROVE  Ambos!Next
<1>. DEFINE f == fondeo[Mandante][e]
            t == TxDe([propuesta |-> f.propuesta, salida |-> f.esqueleto.salida])
<1>1. t \in Tx /\ t \in firmadas[Contratista] /\ Monto(t.etapa, t.monto) \in acordado[Mandante]
  BY QueCierra
<1>2. /\ Firma(Mandante, t) /\ acordado' = acordado
      /\ cadena' = cadena \/ (cadena' = cadena \cup {t} /\ ~Conflicto(t))
  BY DEF Cerrar, Difusiones
<1>. HIDE DEF t
<1>3. /\ t \in firmadas'[Mandante] /\ \A m \in Partes : firmadas[m] \subseteq firmadas'[m]
      /\ \A m \in Partes : \A u \in firmadas'[m] \ firmadas[m] : m = Mandante /\ u = t
  BY <1>1, <1>2, FirmaBien, Dos
<1>4. \A m \in Partes : t \in firmadas'[m]
  BY <1>1, <1>3, Dos
<1>5. \A u \in cadena' \ cadena : u = t /\ \A w \in cadena' \ {u} : u.entradas \cap w.entradas = {}
  BY <1>2 DEF Conflicto
<1>6. [etapa |-> t.etapa, monto |-> t.monto] \in acordado[Mandante] /\ cadena \subseteq cadena'
  BY <1>1, <1>2 DEF Monto
<1>7. Ambos!Firmar
  BY <1>2, <1>3, <1>4, <1>5, <1>6 DEF Ambos!Firmar
<1>. QED  BY <1>7 DEF Ambos!Next

LEMMA PasoAmbos ==
  ASSUME IInv, [Next]_vars
  PROVE  [Ambos!Next]_(Ambos!vars)
<1>1. ASSUME Quieto PROVE Ambos!Next
  BY <1>1 DEF Quieto, Ambos!Next, Ambos!Acordar
<1>. QED  BY <1>1, PasoDeLosDemas, FirmaContratista, FirmaMandante

LEMMA InicioAmbos ==
  ASSUME Init
  PROVE  Ambos!Init
BY DEF Init, Ambos!Init

(* The funding session implements the transaction of two: a funding the    *)
(* network accepts was signed by both, each for an amount that person      *)
(* opened an entry for, and spends nothing twice (contratista_responde,    *)
(* mandante_cierra), with any stages, outputs and number of mishaps.       *)
THEOREM FirmanLosDos == Spec => FirmanAmbos
<1>1. Init => Ambos!Init
  BY InicioAmbos
<1>2. IInv /\ [Next]_vars => [Ambos!Next]_(Ambos!vars)
  BY PasoAmbos
<1>. QED  BY <1>1, <1>2, Invariante, PTL DEF Spec, FirmanAmbos, Ambos!Spec

-----------------------------------------------------------------------------
(* The funding is not forgotten.                                           *)

(* Nobody tells the principal of a funding, nor to drop one unless a       *)
(* person went back.                                                       *)
Callan ==
  \A k \in DOMAIN red[Mandante] :
    red[Mandante][k].paso # "fund-tx" /\ (vueltas = 0 => red[Mandante][k].paso # "fund-abort")

(* Until a person goes back, each stage was proposed once.                 *)
SinVolver ==
  \A n \in Partes, e \in Etapas : copia[n][e].seq = 1 /\ copia[n][e].estado # Pendiente

(* The funding that the node refuses is the only one of its stage.         *)
RechazoLimpio ==
  \A e \in Etapas : Publicando(e, "rechazo") => \A t \in cadena : t.etapa # e

(* The box and the file of the principal know what is on the chain.        *)
Recuerda ==
  \A t \in cadena : EnEncierre(Mandante, t.etapa)
    => /\ fondeo[Mandante][t.etapa] # Nada /\ fondeo[Mandante][t.etapa].tx = t
       /\ espera[t.etapa] = t

JInv ==
  /\ vueltas \in Nat
  /\ Callan
  /\ vueltas = 0 => SinVolver /\ RechazoLimpio /\ Recuerda
  /\ FondeoUnico

(* What the principal's box knows of a stage being locked is not lost.     *)
Guarda ==
  \A e \in Etapas :
    \/ ~EnEncierre(Mandante, e) \/ \A t \in cadena : t.etapa # e
    \/ fondeo[Mandante][e] = Nada \/ fondeo[Mandante][e].tx = Nada \/ espera[e] = Nada
    \/ /\ fondeo'[Mandante][e] # Nada
       /\ fondeo'[Mandante][e].tx \in {fondeo[Mandante][e].tx, espera[e]}
       /\ espera'[e] = espera[e]

(* What the copies show moves on, and no further than it was proposed.     *)
Avanza == copia' = copia \/ (SinVolver => SinVolver' /\ \A e \in Etapas :
                                EnEncierre(Mandante, e)' => EnEncierre(Mandante, e))

(* No job starts to show that the node refused.                            *)
NoRechaza == \A e \in Etapas : Publicando(e, "rechazo")' => Publicando(e, "rechazo")

LEMMA Conserva ==
  ASSUME IInv, JInv, Callan', vueltas' = vueltas, cadena' = cadena, vueltas = 0 => Guarda,
         Avanza, NoRechaza
  PROVE  JInv'
<1>. SUFFICES ASSUME vueltas = 0 PROVE SinVolver' /\ RechazoLimpio' /\ Recuerda'
  BY DEF JInv, FondeoUnico
<1>1. SinVolver /\ RechazoLimpio /\ Recuerda
  BY DEF JInv
<1>2. SinVolver' /\ \A e \in Etapas : EnEncierre(Mandante, e)' => EnEncierre(Mandante, e)
  BY <1>1 DEF Avanza, SinVolver, EnEncierre
<1>3. RechazoLimpio'
  BY <1>1 DEF RechazoLimpio, NoRechaza
<1>4. Recuerda'
  <2>1. \A t \in cadena : t \in Tx /\ t.etapa \in Etapas /\ t # Nada
    BY NadaAssumption DEF IInv, Resto, Tx
  <2>. QED  BY <1>1, <1>2, <2>1 DEF Recuerda, Guarda
<1>. QED  BY <1>2, <1>3, <1>4

(* A person goes back: only the messages are left to look at.              *)
LEMMA Retrocede ==
  ASSUME JInv, vueltas' = vueltas + 1, Callan'
  PROVE  JInv'
BY DEF JInv, FondeoUnico

LEMMA CallanMas ==
  ASSUME Callan, vueltas \in Nat, vueltas' \in {vueltas, vueltas + 1},
         \A k \in DOMAIN red'[Mandante] :
           \/ /\ red'[Mandante][k].paso # "fund-tx"
              /\ vueltas' = 0 => red'[Mandante][k].paso # "fund-abort"
           \/ \E i \in DOMAIN red[Mandante] : red'[Mandante][k] = red[Mandante][i]
  PROVE  Callan'
<1>1. vueltas' = 0 => vueltas = 0
  OBVIOUS
<1>. QED  BY <1>1 DEF Callan

LEMMA CallanIgual ==
  ASSUME JInv, red' = red, vueltas' \in {vueltas, vueltas + 1}
  PROVE  Callan'
BY CallanMas DEF JInv

LEMMA CallanEnvia ==
  ASSUME IInv, JInv, NEW n \in Partes, NEW m \in Mensajes, Envia(n, m),
         vueltas' \in {vueltas, vueltas + 1},
         n = Contratista => m.paso # "fund-tx" /\ (vueltas' = 0 => m.paso # "fund-abort")
  PROVE  Callan'
<1>1. red[Otro(n)] \in Seq(Mensajes) /\ Otro(n) \in Partes
  BY Dos DEF IInv, EnCamino
<1>2. red'[Otro(n)] = Append(red[Otro(n)], m) /\ \A q \in Partes : q # Otro(n) => red'[q] = red[q]
  BY <1>1 DEF IInv, EnCamino, Envia
<1>3. \A k \in DOMAIN red'[Otro(n)] :
        red'[Otro(n)][k] = m \/ \E i \in DOMAIN red[Otro(n)] : red'[Otro(n)][k] = red[Otro(n)][i]
  BY <1>1, <1>2, AlFinal
<1>4. CASE n = Contratista
  BY <1>4, <1>3, Dos, CallanMas DEF JInv
<1>5. CASE n = Mandante
  BY <1>5, <1>2, Dos, CallanMas DEF JInv
<1>. QED  BY <1>4, <1>5, Dos

LEMMA CallanLlega ==
  ASSUME IInv, JInv, NEW n \in Partes, NEW k, NEW paso, Llega(n, k, paso), vueltas' = vueltas
  PROVE  /\ Callan'
         /\ n = Mandante => paso # "fund-tx" /\ (vueltas = 0 => paso # "fund-abort")
<1>1. red[n] \in Seq(Mensajes) /\ k \in DOMAIN red[n] /\ red[n][k].paso = paso
  BY DEF IInv, EnCamino, Llega
<1>2. \A j \in DOMAIN RemoveAt(red[n], k) : \E i \in DOMAIN red[n] : RemoveAt(red[n], k)[j] = red[n][i]
  BY <1>1, Quitado
<1>3. red'[Mandante] = IF n = Mandante THEN RemoveAt(red[n], k) ELSE red[Mandante]
  BY Dos DEF IInv, EnCamino, Llega
<1>4. Callan'
  BY <1>2, <1>3, CallanMas DEF JInv
<1>. QED  BY <1>1, <1>4 DEF JInv, Callan

LEMMA GuardaIgual ==
  ASSUME IInv, fondeo' = fondeo, espera' = espera
  PROVE  Guarda
BY DEF Guarda

LEMMA GuardaPon ==
  ASSUME IInv, NEW n \in Partes, NEW e \in Etapas, NEW g, Pon(n, e, g), espera' = espera,
         n = Mandante /\ fondeo[n][e] # Nada /\ fondeo[n][e].tx # Nada
           => g \in Entrada /\ g.tx = fondeo[n][e].tx
  PROVE  Guarda
<1>1. /\ fondeo'[n][e] = g
      /\ \A m \in Partes, d \in Etapas : m # n \/ d # e => fondeo'[m][d] = fondeo[m][d]
  BY DEF IInv, Entradas, Pon
<1>. QED  BY <1>1, Dos, NadaAssumption DEF Guarda

LEMMA NoRechazaIgual ==
  ASSUME IInv, ocupado' = ocupado \/ \E n \in Partes : Desocupa(n)
  PROVE  NoRechaza
BY Dos DEF IInv, Resto, Desocupa, NoRechaza, Publicando

(* The flags of an entry and what it holds of the other's answers.         *)
LEMMA MismaTx ==
  ASSUME NEW f \in Entrada
  PROVE  /\ \A S \in SUBSET Marcas : Con(f, S) \in Entrada /\ Con(f, S).tx = f.tx
         /\ \A S : Sin(f, S) \in Entrada /\ Sin(f, S).tx = f.tx
         /\ \A a \in {Nada, "propio", "otro"} :
              [f EXCEPT !.aviso = a] \in Entrada /\ [f EXCEPT !.aviso = a].tx = f.tx
         /\ \A p \in Propuesta :
              [f EXCEPT !.propuesta = p] \in Entrada /\ [f EXCEPT !.propuesta = p].tx = f.tx
         /\ \A k \in Esqueleto :
              [f EXCEPT !.esqueleto = k] \in Entrada /\ [f EXCEPT !.esqueleto = k].tx = f.tx
<1>1. ASSUME NEW S \in SUBSET Marcas PROVE Con(f, S) \in Entrada /\ Con(f, S).tx = f.tx
  BY <1>1 DEF Con, Entrada
<1>2. ASSUME NEW S PROVE Sin(f, S) \in Entrada /\ Sin(f, S).tx = f.tx
  BY DEF Sin, Entrada
<1>3. ASSUME NEW a \in {Nada, "propio", "otro"}
      PROVE  [f EXCEPT !.aviso = a] \in Entrada /\ [f EXCEPT !.aviso = a].tx = f.tx
  BY DEF Entrada
<1>4. ASSUME NEW p \in Propuesta
      PROVE  [f EXCEPT !.propuesta = p] \in Entrada /\ [f EXCEPT !.propuesta = p].tx = f.tx
  BY DEF Entrada
<1>5. ASSUME NEW k \in Esqueleto
      PROVE  [f EXCEPT !.esqueleto = k] \in Entrada /\ [f EXCEPT !.esqueleto = k].tx = f.tx
  BY DEF Entrada
<1>. QED  BY <1>1, <1>2, <1>3, <1>4, <1>5

LEMMA ParadaTx ==
  ASSUME NEW f \in Entrada
  PROVE  Parada(f) \in Entrada /\ Parada(f).tx = f.tx
<1>1. Con(f, {"error"}) \in Entrada /\ Con(f, {"error"}).tx = f.tx
  BY MismaTx DEF Marcas
<1>. QED  BY <1>1, MismaTx DEF Parada

LEMMA SoltarTx ==
  ASSUME NEW f \in Entrada
  PROVE  SoltarAjeno(f) \in Entrada /\ SoltarAjeno(f).tx = f.tx
<1>. DEFINE g == IF f.aviso = "otro" THEN [f EXCEPT !.aviso = Nada] ELSE f
<1>1. g \in Entrada /\ g.tx = f.tx
  BY MismaTx
<1>. HIDE DEF g
<1>. QED  BY <1>1, MismaTx DEF SoltarAjeno, g

LEMMA RecFalla ==
  ASSUME IInv, JInv, NEW n \in Partes, NEW e \in Etapas, fondeo[n][e] # Nada,
         Falla(n, e, fondeo[n][e]), vueltas' = vueltas, espera' = espera
  PROVE  Callan' /\ Guarda
<1>1. Guarda
  BY DeEntrada, ParadaTx, GuardaPon DEF Falla
<1>. DEFINE m == Mensaje("falla", e, Nada)
<1>2. m \in Mensajes /\ m.paso = "falla"
  BY DEF Mensaje, Mensajes
<1>3. Envia(n, m) \/ red' = red
  BY DEF Falla
<1>. HIDE DEF m
<1>. QED  BY <1>1, <1>2, <1>3, CallanEnvia, CallanIgual

(* What a person does.                                                     *)
LEMMA RecConfirmar ==
  ASSUME IInv, JInv, NEW n \in Partes, NEW e \in Etapas, Confirmar(n, e)
  PROVE  JInv'
<1>1. Guarda
  BY GuardaPon DEF Confirmar
<1>2. Callan' /\ NoRechaza
  BY CallanIgual, NoRechazaIgual DEF Confirmar, contadores
<1>. QED  BY <1>1, <1>2, Conserva DEF Confirmar, contadores, Avanza

LEMMA RecReempezar ==
  ASSUME IInv, JInv, NEW n \in Partes, NEW e \in Etapas, Reempezar(n, e)
  PROVE  JInv'
<1>. DEFINE m == Mensaje("fund-abort", e, Nada)
<1>1. m \in Mensajes /\ m.paso = "fund-abort"
  BY DEF Mensaje, Mensajes
<1>2. Envia(n, m) /\ vueltas' = vueltas + 1 /\ vueltas' # 0
  BY DEF Reempezar, JInv
<1>. HIDE DEF m
<1>. QED  BY <1>1, <1>2, CallanEnvia, Retrocede

LEMMA RecCancelar ==
  ASSUME IInv, JInv, NEW n \in Partes, NEW e \in Etapas, Cancelar(n, e)
  PROVE  JInv'
<1>. DEFINE m == Mensaje("fund-abort", e, Nada)
<1>1. m \in Mensajes /\ m.paso = "fund-abort"
  BY DEF Mensaje, Mensajes
<1>2. (Envia(n, m) \/ red' = red) /\ vueltas' = vueltas + 1 /\ vueltas' # 0
  BY DEF Cancelar, JInv
<1>. HIDE DEF m
<1>. QED  BY <1>1, <1>2, CallanEnvia, CallanIgual, Retrocede

LEMMA RecReproponer ==
  ASSUME IInv, JInv, NEW n \in Partes, NEW e \in Etapas, Reproponer(n, e)
  PROVE  JInv'
<1>1. Avanza
  BY DEF Reproponer, Avanza, SinVolver
<1>2. Guarda /\ Callan' /\ NoRechaza
  BY GuardaIgual, CallanIgual, NoRechazaIgual DEF Reproponer, contadores
<1>. QED  BY <1>1, <1>2, Conserva DEF Reproponer, contadores

(* With one proposal of each stage, a merge only moves it on.              *)
LEMMA RecFusionar ==
  ASSUME IInv, JInv, NEW n \in Partes, NEW e \in Etapas, Fusionar(n, e)
  PROVE  JInv'
<1>1. Avanza
  <2>. SUFFICES ASSUME SinVolver
                PROVE  SinVolver' /\ \A d \in Etapas : EnEncierre(Mandante, d)' => EnEncierre(Mandante, d)
    BY DEF Avanza
  <2>. DEFINE o == copia[Otro(n)][e]
              p == copia[n][e]
  <2>1. /\ p.seq = 1 /\ o.seq = 1 /\ p.estado \in 1 .. 2 /\ o.estado \in 1 .. 2
        /\ copia' = [copia EXCEPT ![n][e] = o]
    BY Dos DEF IInv, Resto, Copias, SinVolver, Fusionar, Pendiente
  <2>2. p.estado = Encerrando
    BY <2>1 DEF Fusionar, Encerrando
  <2>3. \A m \in Partes, d \in Etapas :
          copia'[m][d] = IF m = n /\ d = e THEN o ELSE copia[m][d]
    BY <2>1 DEF IInv, Resto
  <2>. QED  BY <2>1, <2>2, <2>3, Dos DEF SinVolver, EnEncierre, Pendiente
<1>2. Guarda /\ Callan' /\ NoRechaza
  BY GuardaIgual, CallanIgual, NoRechazaIgual DEF Fusionar, contadores
<1>. QED  BY <1>1, <1>2, Conserva DEF Fusionar, contadores

LEMMA RecHecho ==
  ASSUME IInv, JInv, NEW n \in Partes, NEW e \in Etapas, Hecho(n, e)
  PROVE  JInv'
<1>1. Avanza
  <2>1. copia' = [copia EXCEPT ![n][e].estado = Encerrada]
    BY DEF Hecho
  <2>. DEFINE c == [copia[n][e] EXCEPT !.estado = Encerrada]
  <2>2. \A m \in Partes, d \in Etapas :
          copia'[m][d] = IF m = n /\ d = e THEN c ELSE copia[m][d]
    BY <2>1 DEF IInv, Resto
  <2>3. c.seq = copia[n][e].seq /\ c.estado = Encerrada
    BY DEF IInv, Resto, Copias
  <2>. HIDE DEF c
  <2>. QED  BY <2>2, <2>3, Dos DEF Avanza, SinVolver, EnEncierre, Encerrada, Encerrando, Pendiente
<1>2. Guarda /\ Callan' /\ NoRechaza
  BY GuardaIgual, CallanIgual, NoRechazaIgual DEF Hecho, contadores
<1>. QED  BY <1>1, <1>2, Conserva DEF Hecho, contadores

(* The file goes with the entry, once the stage moved on.                  *)
LEMMA RecLimpiar ==
  ASSUME IInv, JInv, NEW n \in Partes, NEW e \in Etapas, Limpiar(n, e)
  PROVE  JInv'
<1>1. Guarda
  <2>1. CASE n = Contratista
    BY <2>1, GuardaPon, Dos DEF Limpiar
  <2>2. CASE n = Mandante
    <3>1. /\ \A d \in Etapas : d # e => fondeo'[n][d] = fondeo[n][d] /\ espera'[d] = espera[d]
          /\ ~EnEncierre(n, e)
      BY <2>2 DEF IInv, Entradas, Resto, Limpiar, Pon
    <3>. QED  BY <2>2, <3>1 DEF Guarda
  <2>. QED  BY <2>1, <2>2, Dos
<1>2. Callan' /\ NoRechaza
  BY CallanIgual, NoRechazaIgual DEF Limpiar, contadores
<1>. QED  BY <1>1, <1>2, Conserva DEF Limpiar, contadores, Avanza

-----------------------------------------------------------------------------
(* A step that changes an entry, and may say so to the other.              *)
LEMMA RecMarcas ==
  ASSUME IInv, JInv, NEW n \in Partes, NEW e \in Etapas, NEW g, Pon(n, e, g),
         n = Mandante /\ fondeo[n][e] # Nada /\ fondeo[n][e].tx # Nada
           => g \in Entrada /\ g.tx = fondeo[n][e].tx,
         \/ red' = red
         \/ \E paso \in {"fund-pedir", "sin-saldo", "buscando"} : Envia(n, Mensaje(paso, e, Nada)),
         ocupado' = ocupado, UNCHANGED <<copia, espera, cadena, vueltas>>
  PROVE  JInv'
<1>1. Callan'
  <2>1. ASSUME NEW paso \in {"fund-pedir", "sin-saldo", "buscando"}, Envia(n, Mensaje(paso, e, Nada))
        PROVE  Callan'
    <3>1. Mensaje(paso, e, Nada) \in Mensajes /\ Mensaje(paso, e, Nada).paso = paso
      BY DEF Mensaje, Mensajes
    <3>. QED  BY <2>1, <3>1, CallanEnvia
  <2>. QED  BY <2>1, CallanIgual
<1>2. Guarda /\ NoRechaza
  BY GuardaPon, NoRechazaIgual
<1>. QED  BY <1>1, <1>2, Conserva DEF Avanza

LEMMA RecDeMarcas ==
  ASSUME IInv, JInv, NEW n \in Partes, NEW e \in Etapas,
         \/ SoltarAviso(n, e) \/ Habilitar(n, e) \/ CerrarBusqueda(n, e)
         \/ Avisar(n, e) \/ EmitirAviso(n, e) \/ EmitirBusqueda(n, e) \/ Ver(n, e)
  PROVE  JInv'
<1>1. CASE SoltarAviso(n, e)
  <2>1. fondeo[n][e].tx = Nada /\ \E g : Pon(n, e, g)
    BY <1>1 DEF SoltarAviso
  <2>. QED  BY <1>1, <2>1, RecMarcas DEF SoltarAviso, contadores
<1>2. CASE Habilitar(n, e)
  <2>1. fondeo[n][e].tx = Nada /\ \E g : Pon(n, e, g)
    BY <1>2 DEF Habilitar
  <2>. QED  BY <1>2, <2>1, RecMarcas DEF Habilitar, contadores
<1>3. CASE CerrarBusqueda(n, e)
  <2>1. fondeo[n][e].tx = Nada /\ \E g : Pon(n, e, g)
    BY <1>3 DEF CerrarBusqueda, FaltaEntrada
  <2>. QED  BY <1>3, <2>1, RecMarcas DEF CerrarBusqueda, contadores
<1>4. CASE Avisar(n, e)
  <2>1. fondeo[n][e] \in Entrada
    BY <1>4, DeEntrada DEF Avisar, Viva
  <2>. QED  BY <1>4, <2>1, MismaTx, RecMarcas DEF Avisar, contadores
<1>5. CASE EmitirAviso(n, e)
  <2>1. fondeo[n][e] \in Entrada /\ {"enviado"} \in SUBSET Marcas
    BY <1>5, DeEntrada DEF EmitirAviso, Viva, Marcas
  <2>. QED  BY <1>5, <2>1, MismaTx, RecMarcas DEF EmitirAviso, contadores
<1>6. CASE EmitirBusqueda(n, e)
  <2>1. fondeo[n][e] \in Entrada /\ {"dije"} \in SUBSET Marcas
    BY <1>6, DeEntrada DEF EmitirBusqueda, Viva, Marcas
  <2>. QED  BY <1>6, <2>1, MismaTx, RecMarcas DEF EmitirBusqueda, contadores
<1>7. CASE Ver(n, e)
  <2>. DEFINE g == Con(fondeo[n][e], {"visto"})
  <2>1. fondeo[n][e] \in Entrada /\ {"visto"} \in SUBSET Marcas
    BY <1>7, DeEntrada DEF Ver, Viva, Marcas
  <2>2. g \in Entrada /\ g.tx = fondeo[n][e].tx
    BY <2>1, MismaTx
  <2>3. Pon(n, e, Sin(g, {"error"}))
    BY <1>7 DEF Ver
  <2>. HIDE DEF g
  <2>4. Sin(g, {"error"}) \in Entrada /\ Sin(g, {"error"}).tx = fondeo[n][e].tx
    BY <2>2, MismaTx
  <2>. QED  BY <1>7, <2>3, <2>4, RecMarcas DEF Ver, contadores
<1>. QED  BY <1>1, <1>2, <1>3, <1>4, <1>5, <1>6, <1>7

-----------------------------------------------------------------------------
(* The jobs.                                                               *)

LEMMA RecAnillar ==
  ASSUME IInv, JInv, NEW n \in Partes, NEW e \in Etapas, NEW s, Anillar(n, e, s)
  PROVE  JInv'
<1>1. Guarda
  BY GuardaPon DEF Anillar, FaltaEntrada
<1>2. NoRechaza
  BY Dos DEF IInv, Resto, Anillar, NoRechaza, Publicando
<1>3. Callan'
  BY CallanIgual DEF Anillar, contadores
<1>. QED  BY <1>1, <1>2, <1>3, Conserva DEF Anillar, contadores, Avanza

(* A job that fails stops the entry, if there still is one.                *)
LEMMA RecFallado ==
  ASSUME IInv, JInv, NEW n \in Partes, NEW e \in Etapas,
         \/ fondeo' = fondeo /\ red' = red
         \/ fondeo[n][e] # Nada /\ Falla(n, e, fondeo[n][e]),
         ocupado' = ocupado \/ Desocupa(n), UNCHANGED <<copia, espera, cadena, vueltas>>
  PROVE  JInv'
<1>1. Callan' /\ Guarda
  BY GuardaIgual, CallanIgual, RecFalla
<1>2. NoRechaza
  BY NoRechazaIgual
<1>. QED  BY <1>1, <1>2, Conserva DEF Avanza

LEMMA RecNoAnillo ==
  ASSUME IInv, JInv, NEW n \in Partes, NEW e \in Etapas, NoAnillo(n, e)
  PROVE  JInv'
BY RecFallado DEF NoAnillo

LEMMA RecArmarNada ==
  ASSUME IInv, JInv, NEW n \in Partes, NEW e \in Etapas, ArmarNada(n, e)
  PROVE  JInv'
BY RecFallado DEF ArmarNada, contadores

LEMMA RecCerrarNo ==
  ASSUME IInv, JInv, NEW e \in Etapas, CerrarNo(e)
  PROVE  JInv'
BY RecFallado, Dos DEF CerrarNo, ListaParaCerrar, Viva, contadores

LEMMA RecNoPublicado ==
  ASSUME IInv, JInv, NEW e \in Etapas, NoPublicado(e)
  PROVE  JInv'
BY RecFallado, Dos DEF NoPublicado, contadores

LEMMA RecArmarPropuesta ==
  ASSUME IInv, JInv, NEW e \in Etapas, ArmarPropuesta(e)
  PROVE  JInv'
<1>. DEFINE f == fondeo[Mandante][e]
            p == [etapa |-> e, monto |-> f.monto, salida |-> ocupado[Mandante].de, num |-> intentos + 1]
            h == [f EXCEPT !.propuesta = p]
            g == Sin(h, {"error"})
            m == Mensaje("fund-proposal", e, p)
<1>1. /\ f \in Entrada /\ f.monto \in Montos
      /\ Pon(Mandante, e, g) /\ Envia(Mandante, m) /\ Desocupa(Mandante)
  <2>1. f # Nada /\ "mandante" \in f.marcas
    BY DEF ArmarPropuesta, Tiene
  <2>2. f \in Entrada /\ Buena(Mandante, e, f, acordado, firmadas)
    BY <2>1, DeEntrada, Dos
  <2>. QED  BY <2>1, <2>2 DEF ArmarPropuesta, Entrada, Buena
<1>2. p \in Propuesta
  BY <1>1, DeAnillo, Dos DEF IInv, Resto, ArmarPropuesta, Propuesta
<1>. HIDE DEF p
<1>3. m \in Mensajes
  BY <1>2 DEF Mensaje, Mensajes
<1>4. h \in Entrada /\ h.tx = f.tx
  BY <1>1, <1>2, MismaTx
<1>. HIDE DEF h
<1>5. g \in Entrada /\ g.tx = f.tx
  BY <1>4, MismaTx
<1>. HIDE DEF g, m
<1>6. Guarda
  BY <1>1, <1>5, GuardaPon, Dos DEF ArmarPropuesta
<1>7. Callan' /\ NoRechaza
  BY <1>1, <1>3, CallanEnvia, NoRechazaIgual, Dos DEF ArmarPropuesta
<1>. QED  BY <1>6, <1>7, Conserva DEF ArmarPropuesta, Avanza

LEMMA RecArmarEsqueleto ==
  ASSUME IInv, JInv, NEW n \in Partes, NEW e \in Etapas, ArmarEsqueleto(n, e)
  PROVE  JInv'
<1>. DEFINE k == [propuesta |-> fondeo[n][e].sobre, salida |-> ocupado[n].de]
            m == Mensaje("fund-skeleton", e, k)
<1>1. n = Contratista /\ k \in Esqueleto
  BY QuienArma
<1>2. Envia(n, m) /\ \E g : Pon(n, e, g)
  BY DEF ArmarEsqueleto
<1>. HIDE DEF k
<1>3. m \in Mensajes /\ m.paso = "fund-skeleton"
  BY <1>1 DEF Mensaje, Mensajes
<1>. HIDE DEF m
<1>4. Guarda
  BY <1>1, <1>2, GuardaPon, Dos DEF ArmarEsqueleto
<1>5. Callan' /\ NoRechaza
  BY <1>2, <1>3, CallanEnvia, NoRechazaIgual DEF ArmarEsqueleto, contadores
<1>. QED  BY <1>4, <1>5, Conserva DEF ArmarEsqueleto, contadores, Avanza

(* An entry that closes knows no transaction: nothing of its stage was     *)
(* published.                                                              *)
LEMMA RecCerrar ==
  ASSUME IInv, JInv, NEW e \in Etapas, Cerrar(e)
  PROVE  JInv'
<1>. DEFINE f == fondeo[Mandante][e]
            t == TxDe([propuesta |-> f.propuesta, salida |-> f.esqueleto.salida])
            g == [f EXCEPT !.tx = t]
<1>1. /\ f # Nada /\ f \in Entrada /\ t \in Tx /\ f.tx = Nada
      /\ EnEncierre(Mandante, e) /\ Buena(Mandante, e, f, acordado, firmadas) /\ f.propuesta # Nada
  BY QueCierra, DeEntrada, Dos DEF Cerrar, ListaParaCerrar, Viva
<1>2. PICK r \in Difusiones(t) :
        /\ ocupado' = [ocupado EXCEPT ![Mandante] = [trabajo |-> r, etapa |-> e, de |-> t]]
        /\ cadena' = IF r \in {"ok", "sin-respuesta"} THEN cadena \cup {t} ELSE cadena
  BY DEF Cerrar
<1>3. /\ Pon(Mandante, e, g) /\ espera' = [espera EXCEPT ![e] = t]
      /\ copia' = copia /\ red' = red /\ vueltas' = vueltas
  BY DEF Cerrar
<1>4. t.etapa = e
  BY <1>1 DEF TxDe, Buena
<1>. HIDE DEF t
<1>5. g \in Entrada /\ g.tx = t /\ g # Nada
  BY <1>1, NadaAssumption DEF Entrada
<1>. HIDE DEF g
<1>6. /\ fondeo'[Mandante][e] = g /\ espera'[e] = t
      /\ \A d \in Etapas : d # e => fondeo'[Mandante][d] = fondeo[Mandante][d] /\ espera'[d] = espera[d]
  BY <1>3, Dos DEF IInv, Entradas, Resto, Pon
<1>7. ASSUME vueltas = 0 PROVE \A u \in cadena : u.etapa # e
  BY <1>1, <1>7, NadaAssumption DEF IInv, Resto, JInv, Recuerda
<1>8. ASSUME vueltas = 0 PROVE Recuerda'
  <2>1. \A u \in cadena : u.etapa \in Etapas
    BY DEF IInv, Resto, Tx
  <2>2. ASSUME NEW u \in cadena' PROVE u \in cadena \/ u = t
    BY <1>2
  <2>. QED  BY <1>3, <1>4, <1>5, <1>6, <1>7, <1>8, <2>1, <2>2 DEF JInv, Recuerda, EnEncierre
<1>9. ASSUME vueltas = 0 PROVE RechazoLimpio'
  <2>1. ocupado'[Mandante].trabajo = r /\ ocupado'[Mandante].etapa = e
    BY <1>2, Dos DEF IInv, Resto
  <2>. QED  BY <1>2, <1>7, <1>9, <2>1 DEF RechazoLimpio, Publicando
<1>10. Callan'
  BY <1>3, CallanIgual
<1>11. FondeoUnico'
  BY <1>2, <1>3, <1>4, <1>7 DEF JInv, FondeoUnico
<1>. QED  BY <1>3, <1>8, <1>9, <1>10, <1>11 DEF JInv, SinVolver

LEMMA RecPublicado ==
  ASSUME IInv, JInv, NEW e \in Etapas, Publicado(e)
  PROVE  JInv'
<1>. DEFINE m == Mensaje("fund-tx", e, ocupado[Mandante].de)
<1>1. ocupado[Mandante].de \in Tx
  BY Dos DEF IInv, Resto, Trabajos, Publicado, Publicando
<1>2. m \in Mensajes /\ (red' = red \/ Envia(Mandante, m))
  BY <1>1 DEF Mensaje, Mensajes, Publicado
<1>. HIDE DEF m
<1>3. Callan' /\ Guarda /\ NoRechaza
  BY <1>2, CallanIgual, CallanEnvia, GuardaIgual, NoRechazaIgual, Dos DEF Publicado, contadores
<1>. QED  BY <1>3, Conserva DEF Publicado, contadores, Avanza

(* What the node refused was not published, nor anything before it.        *)
LEMMA RecRechazado ==
  ASSUME IInv, JInv, NEW e \in Etapas, Rechazado(e)
  PROVE  JInv'
<1>1. ASSUME vueltas = 0 PROVE \A t \in cadena : t.etapa # e
  BY <1>1 DEF JInv, RechazoLimpio, Rechazado
<1>2. \A d \in Etapas : d # e => fondeo'[Mandante][d] = fondeo[Mandante][d] /\ espera'[d] = espera[d]
  BY Dos DEF IInv, Entradas, Resto, Rechazado, Pon, BorraEspera
<1>3. vueltas = 0 => Guarda
  BY <1>1, <1>2 DEF Guarda
<1>4. red'[Mandante] = red[Mandante]
  BY Dos DEF IInv, EnCamino, Rechazado
<1>5. Callan' /\ NoRechaza
  BY <1>4, CallanMas, NoRechazaIgual, Dos DEF JInv, Rechazado, contadores
<1>. QED  BY <1>3, <1>5, Conserva DEF Rechazado, contadores, Avanza

-----------------------------------------------------------------------------
(* The messages.                                                           *)

LEMMA RecLlega ==
  ASSUME IInv, JInv, NEW n \in Partes, NEW k, NEW paso, Llega(n, k, paso), vueltas = 0 => Guarda,
         UNCHANGED <<copia, ocupado, cadena, vueltas>>
  PROVE  JInv'
BY CallanLlega, NoRechazaIgual, Conserva DEF Avanza

LEMMA RecTomarPedido ==
  ASSUME IInv, JInv, NEW n \in Partes, NEW k, TomarPedido(n, k)
  PROVE  JInv'
<1>. DEFINE e == red[n][k].etapa
            f == fondeo[n][e]
            vacio == f = Nada \/ (Tiene(f, "solo") /\ f.tx = Nada)
<1>1. Llega(n, k, "fund-pedir") /\ e \in Etapas
  BY LlegaBien DEF TomarPedido
<1>2. PICK g : Pon(n, e, g) /\ (~vacio => g = SoltarAjeno(f))
  BY DEF TomarPedido
<1>3. espera' = espera /\ UNCHANGED <<copia, ocupado, cadena, vueltas>>
  BY DEF TomarPedido
<1>. HIDE DEF e
<1>4. ~vacio => g \in Entrada /\ g.tx = f.tx
  BY <1>1, <1>2, DeEntrada, SoltarTx
<1>5. Guarda
  BY <1>1, <1>2, <1>3, <1>4, GuardaPon
<1>. QED  BY <1>1, <1>3, <1>5, RecLlega

LEMMA RecTomarPropuesta ==
  ASSUME IInv, JInv, NEW n \in Partes, NEW k, TomarPropuesta(n, k)
  PROVE  JInv'
<1>. DEFINE e == red[n][k].etapa
<1>1. Llega(n, k, "fund-proposal") /\ e \in Etapas /\ n = Contratista
  BY LlegaBien DEF TomarPropuesta, Bueno
<1>2. fondeo' = fondeo \/ \E g : Pon(n, e, g)
  BY DEF TomarPropuesta
<1>3. espera' = espera /\ UNCHANGED <<copia, ocupado, cadena, vueltas>>
  BY DEF TomarPropuesta
<1>. HIDE DEF e
<1>4. Guarda
  BY <1>1, <1>2, <1>3, GuardaIgual, GuardaPon, Dos
<1>. QED  BY <1>1, <1>3, <1>4, RecLlega

LEMMA RecTomarEsqueleto ==
  ASSUME IInv, JInv, NEW n \in Partes, NEW k, TomarEsqueleto(n, k)
  PROVE  JInv'
<1>. DEFINE e == red[n][k].etapa
            f == fondeo[n][e]
            p == red[n][k].cuerpo
            h == [f EXCEPT !.esqueleto = p]
            g == Sin(SoltarAjeno(h), {"error"})
<1>1. Llega(n, k, "fund-skeleton") /\ (fondeo' = fondeo \/ (f # Nada /\ Pon(n, e, g)))
  BY DEF TomarEsqueleto, Tiene
<1>2. p \in Esqueleto /\ e \in Etapas
  BY <1>1, LlegaBien DEF Mensajes, Bueno
<1>3. espera' = espera /\ UNCHANGED <<copia, ocupado, cadena, vueltas>>
  BY DEF TomarEsqueleto
<1>. HIDE DEF e, p
<1>4. ASSUME f # Nada PROVE g \in Entrada /\ g.tx = f.tx
  <2>1. f \in Entrada
    BY <1>2, <1>4, DeEntrada
  <2>2. h \in Entrada /\ h.tx = f.tx
    BY <1>2, <2>1, MismaTx
  <2>. HIDE DEF h
  <2>3. SoltarAjeno(h) \in Entrada /\ SoltarAjeno(h).tx = f.tx
    BY <2>2, SoltarTx
  <2>. QED  BY <2>3, MismaTx
<1>. HIDE DEF g
<1>5. Guarda
  BY <1>1, <1>2, <1>3, <1>4, GuardaIgual, GuardaPon
<1>. QED  BY <1>1, <1>3, <1>5, RecLlega

(* Only the contractor is told of a funding.                               *)
LEMMA RecTomarTx ==
  ASSUME IInv, JInv, NEW n \in Partes, NEW k, TomarTx(n, k)
  PROVE  JInv'
<1>. DEFINE e == red[n][k].etapa
<1>1. Llega(n, k, "fund-tx") /\ e \in Etapas /\ vueltas' = vueltas
  BY LlegaBien DEF TomarTx
<1>2. n = Contratista
  BY <1>1, CallanLlega, Dos
<1>3. fondeo' = fondeo \/ \E g : Pon(n, e, g)
  BY DEF TomarTx
<1>4. espera' = espera /\ UNCHANGED <<copia, ocupado, cadena, vueltas>>
  BY DEF TomarTx
<1>. HIDE DEF e
<1>5. Guarda
  BY <1>1, <1>2, <1>3, <1>4, GuardaIgual, GuardaPon, Dos
<1>. QED  BY <1>1, <1>4, <1>5, RecLlega

(* Until a person goes back, only the principal's box says to drop one.    *)
LEMMA RecTomarAborto ==
  ASSUME IInv, JInv, NEW n \in Partes, NEW k, TomarAborto(n, k)
  PROVE  JInv'
<1>. DEFINE e == red[n][k].etapa
<1>1. Llega(n, k, "fund-abort") /\ e \in Etapas /\ UNCHANGED <<copia, ocupado, cadena, vueltas>>
  BY LlegaBien DEF TomarAborto
<1>2. BorraEspera(n, e, fondeo[n][e]) /\ Pon(n, e, Limpia(fondeo[n][e]))
  BY DEF TomarAborto
<1>. HIDE DEF e
<1>3. ASSUME vueltas = 0 PROVE Guarda
  <2>1. n = Contratista
    BY <1>1, <1>3, CallanLlega, Dos
  <2>2. espera' = espera
    BY <1>2, <2>1, Dos DEF BorraEspera
  <2>. QED  BY <1>1, <1>2, <2>1, <2>2, GuardaPon, Dos
<1>. QED  BY <1>1, <1>3, RecLlega

LEMMA RecTomarFallos ==
  ASSUME IInv, JInv, NEW n \in Partes, NEW k, TomarFallos(n, k)
  PROVE  JInv'
<1>. DEFINE e == red[n][k].etapa
            f == fondeo[n][e]
<1>1. PICK paso \in {"sin-saldo", "buscando", "falla"}, g \in {ConAviso(f), ConBusqueda(f), ConError(f)} :
        TomarFallo(n, k, paso, g)
  BY DEF TomarFallos
<1>2. /\ Llega(n, k, paso) /\ Pon(n, e, g) /\ e \in Etapas
      /\ espera' = espera /\ UNCHANGED <<copia, ocupado, cadena, vueltas>>
  BY <1>1, LlegaBien DEF TomarFallo
<1>3. ASSUME f # Nada PROVE g \in Entrada /\ g.tx = f.tx
  <2>1. f \in Entrada
    BY <1>2, <1>3, DeEntrada
  <2>. DEFINE h == [f EXCEPT !.aviso = "otro"]
  <2>2. h \in Entrada /\ h.tx = f.tx
    BY <2>1, MismaTx
  <2>. HIDE DEF f, h
  <2>3. Con(h, {"enviado"}) \in Entrada /\ Con(h, {"enviado"}).tx = f.tx
    BY <2>2, MismaTx DEF Marcas
  <2>4. /\ Sin(Con(h, {"enviado"}), {"espera", "par", "error"}) \in Entrada
        /\ Sin(Con(h, {"enviado"}), {"espera", "par", "error"}).tx = f.tx
    BY <2>3, MismaTx
  <2>5. /\ Con(f, {"par"}) \in Entrada /\ Con(f, {"par"}).tx = f.tx
        /\ Con(f, {"error", "enviado"}) \in Entrada /\ Con(f, {"error", "enviado"}).tx = f.tx
    BY <2>1, MismaTx DEF Marcas
  <2>6. g \in {Sin(Con(h, {"enviado"}), {"espera", "par", "error"}), Con(f, {"par"}), f,
               Con(f, {"error", "enviado"})}
    BY <1>3 DEF ConAviso, ConBusqueda, ConError, h
  <2>. QED  BY <2>1, <2>4, <2>5, <2>6
<1>. HIDE DEF e
<1>4. Guarda
  BY <1>2, <1>3, GuardaPon
<1>. QED  BY <1>2, <1>4, RecLlega

-----------------------------------------------------------------------------
(* The wallet, the network and the program.                                *)

LEMMA RecDeBilletera ==
  ASSUME IInv, JInv, NEW n \in Partes, DeBilletera(n)
  PROVE  JInv'
<1>1. /\ UNCHANGED <<fondeo, red, copia, ocupado, espera, cadena>> /\ vueltas' = vueltas
  BY DEF DeBilletera, Podar, TerminarScan, Hallar, contadores
<1>. QED  BY <1>1, GuardaIgual, CallanIgual, NoRechazaIgual, Conserva DEF Avanza

LEMMA RecPerder ==
  ASSUME IInv, JInv, NEW n \in Partes, Perder(n)
  PROVE  JInv'
<1>1. red[n] \in Seq(Mensajes) /\ red[n] # << >> /\ red' = [red EXCEPT ![n] = Tail(red[n])]
  BY DEF IInv, EnCamino, Perder
<1>2. \A k \in DOMAIN Tail(red[n]) : \E i \in DOMAIN red[n] : Tail(red[n])[k] = red[n][i]
  BY <1>1, SinPrimero
<1>3. red'[Mandante] = IF n = Mandante THEN Tail(red[n]) ELSE red[Mandante]
  BY <1>1, Dos DEF IInv, EnCamino
<1>4. Callan'
  BY <1>2, <1>3, CallanMas DEF JInv, Perder
<1>. QED  BY <1>4, GuardaIgual, NoRechazaIgual, Conserva DEF Perder, Avanza

(* The file has the transaction a crash would forget.                      *)
LEMMA RecCaer ==
  ASSUME IInv, JInv, NEW n \in Partes, Caer(n)
  PROVE  JInv'
<1>. DEFINE F == [e \in Etapas |-> IF n = Mandante /\ espera[e] # Nada THEN Recargada(espera[e]) ELSE Nada]
<1>1. fondeo' = [fondeo EXCEPT ![n] = F] /\ espera' = espera
  BY DEF Caer
<1>2. \A e \in Etapas : n = Mandante /\ espera[e] # Nada =>
        F[e] \in Entrada /\ F[e].tx = espera[e]
  BY DEF IInv, Resto, Recargada, Entrada, Marcas
<1>. HIDE DEF F
<1>3. Guarda
  <2>1. CASE n = Contratista
    <3>1. fondeo'[Mandante] = fondeo[Mandante]
      BY <1>1, <2>1, Dos DEF IInv, Entradas
    <3>. QED  BY <1>1, <3>1 DEF Guarda
  <2>2. CASE n = Mandante
    <3>1. fondeo'[Mandante] = F
      BY <1>1, <2>2, Dos DEF IInv, Entradas
    <3>. QED  BY <1>1, <1>2, <2>2, <3>1, NadaAssumption DEF Guarda
  <2>. QED  BY <2>1, <2>2, Dos
<1>4. Callan' /\ NoRechaza
  BY CallanIgual, NoRechazaIgual DEF Caer
<1>. QED  BY <1>3, <1>4, Conserva DEF Caer, Avanza

LEMMA RecQuieto ==
  ASSUME IInv, JInv, UNCHANGED vars
  PROVE  JInv'
<1>1. UNCHANGED <<fondeo, red, copia, ocupado, espera, cadena>> /\ vueltas' = vueltas
  BY DEF vars, contadores
<1>. QED  BY <1>1, GuardaIgual, CallanIgual, NoRechazaIgual, Conserva DEF Avanza

LEMMA RecPaso ==
  ASSUME IInv, JInv, [Next]_vars
  PROVE  JInv'
<1>1. ASSUME NEW n \in Partes, NEW e \in Etapas, DePersona(n, e) PROVE JInv'
  BY <1>1, RecConfirmar, RecReempezar, RecCancelar, RecReproponer DEF DePersona
<1>2. ASSUME NEW n \in Partes, NEW e \in Etapas, DeTick(n, e) PROVE JInv'
  BY <1>2, RecLimpiar, RecDeMarcas, RecAnillar, RecArmarEsqueleto, RecArmarNada, RecHecho DEF DeTick
<1>3. ASSUME NEW e \in Etapas, DelMandante(e) PROVE JInv'
  BY <1>3, RecArmarPropuesta, RecCerrar, RecCerrarNo, RecPublicado, RecNoPublicado, RecRechazado
  DEF DelMandante
<1>4. ASSUME NEW n \in Partes, NEW k \in DOMAIN red[n], DeMensaje(n, k) PROVE JInv'
  BY <1>4, RecTomarPedido, RecTomarPropuesta, RecTomarEsqueleto, RecTomarTx, RecTomarAborto,
     RecTomarFallos DEF DeMensaje
<1>. QED  BY <1>1, <1>2, <1>3, <1>4, RecNoAnillo, RecFusionar, RecDeBilletera, RecPerder,
             RecCaer, RecQuieto DEF Next

LEMMA RecInicio ==
  ASSUME Init
  PROVE  JInv
BY Dos DEF Init, JInv, Callan, SinVolver, RechazoLimpio, Recuerda, FondeoUnico, Publicando, Encerrando,
   Pendiente

LEMMA Recuerdo == Spec => []JInv
<1>1. Init => JInv
  BY RecInicio
<1>2. IInv /\ JInv /\ [Next]_vars => JInv'
  BY RecPaso
<1>. QED  BY <1>1, <1>2, Invariante, PTL DEF Spec

(* Unless a person goes back on a funding, the box of the principal knows  *)
(* the one it broadcast until the stage moves on: its entry by the step    *)
(* that broadcasts it, and after any crash by the file (guardar_espera     *)
(* before publicar, cargar_esperas), with any stages and outputs.          *)
THEOREM FondeoRecordado == Spec => []FondeoNoSeOlvida
<1>1. JInv => FondeoNoSeOlvida
  BY DEF JInv, Recuerda, FondeoNoSeOlvida
<1>. QED  BY <1>1, Recuerdo, PTL

(* Nor is any stage funded twice: to broadcast a funding its entry must    *)
(* know none (busca_entradas, mandante_cierra).                            *)
THEOREM UnSoloFondeo == Spec => []FondeoUnico
<1>1. JInv => FondeoUnico
  BY DEF JInv
<1>. QED  BY <1>1, Recuerdo, PTL

-----------------------------------------------------------------------------
(* The ledger of the principal.                                            *)

(* The output of an entry is the one its job or its proposal took, and the *)
(* one that the transaction being broadcast spends.                        *)
SalidaPropia(e, f) ==
  f # Nada =>
    /\ f.propuesta # Nada => f.gastada \in {Nada, f.propuesta.salida}
    /\ Anillando(Mandante, e) => f.gastada \in {Nada, ocupado[Mandante].de}
    /\ Publicando(e, "ok") => f.gastada \in {Nada} \cup ocupado[Mandante].de.entradas

KInv ==
  /\ \A e \in Etapas : SalidaPropia(e, fondeo[Mandante][e])
  /\ \A e \in Etapas : Publicando(e, "ok") => ocupado[Mandante].de \in cadena
  /\ LibroDe(Mandante)

(* An entry that has the output and the proposal of the one before it, or  *)
(* no output at all.                                                       *)
Hereda(g, f) ==
  g = Nada \/ g.gastada = Nada \/ (f # Nada /\ g.gastada = f.gastada /\ g.propuesta = f.propuesta)

Heredan == \A e \in Etapas : Hereda(fondeo'[Mandante][e], fondeo[Mandante][e])

LibroIgual == libro'[Mandante] \cup ocultas'[Mandante] = libro[Mandante] \cup ocultas[Mandante]

LEMMA LibroSigue ==
  ASSUME KInv, Heredan, LibroIgual, cadena \subseteq cadena', ocupado'[Mandante] \in {ocupado[Mandante], Nada}
  PROVE  KInv'
<1>1. LibroDe(Mandante)'
  BY DEF KInv, LibroDe, LibroIgual
<1>2. \A e : /\ Publicando(e, "ok")' => Publicando(e, "ok") /\ ocupado'[Mandante] = ocupado[Mandante]
             /\ Anillando(Mandante, e)' => Anillando(Mandante, e) /\ ocupado'[Mandante] = ocupado[Mandante]
  BY DEF Publicando, Anillando
<1>3. \A e \in Etapas : (Publicando(e, "ok") => ocupado[Mandante].de \in cadena)'
  BY <1>2 DEF KInv
<1>4. ASSUME NEW e \in Etapas PROVE SalidaPropia(e, fondeo[Mandante][e])'
  BY <1>2 DEF KInv, SalidaPropia, Heredan, Hereda
<1>. QED  BY <1>1, <1>3, <1>4 DEF KInv

(* The entry of one stage changes; the entries of the contractor are not   *)
(* looked at.                                                              *)
LEMMA HeredaPon ==
  ASSUME IInv, NEW n \in Partes, NEW e \in Etapas, NEW g, Pon(n, e, g),
         n = Mandante => Hereda(g, fondeo[n][e])
  PROVE  Heredan
<1>1. /\ fondeo'[n][e] = g
      /\ \A m \in Partes, d \in Etapas : m # n \/ d # e => fondeo'[m][d] = fondeo[m][d]
  BY DEF IInv, Entradas, Pon
<1>. QED  BY <1>1, Dos DEF Heredan, Hereda

LEMMA HeredaIgual == ASSUME fondeo' = fondeo PROVE Heredan
BY DEF Heredan, Hereda

(* The same output and the same proposal.                                  *)
Misma(g, f) == g \in Entrada /\ g.gastada = f.gastada /\ g.propuesta = f.propuesta

LEMMA Mismas ==
  ASSUME NEW f \in Entrada
  PROVE  /\ Misma(f, f)
         /\ \A S \in SUBSET Marcas : Misma(Con(f, S), f)
         /\ \A S : Misma(Sin(f, S), f)
         /\ \A a \in {Nada, "propio", "otro"} : Misma([f EXCEPT !.aviso = a], f)
         /\ \A k \in Esqueleto : Misma([f EXCEPT !.esqueleto = k], f)
         /\ \A p \in Propuesta : Misma([f EXCEPT !.sobre = p], f)
<1>1. ASSUME NEW S \in SUBSET Marcas PROVE Misma(Con(f, S), f)
  BY <1>1 DEF Misma, Con, Entrada
<1>2. ASSUME NEW S PROVE Misma(Sin(f, S), f)
  BY DEF Misma, Sin, Entrada
<1>3. ASSUME NEW a \in {Nada, "propio", "otro"} PROVE Misma([f EXCEPT !.aviso = a], f)
  BY DEF Misma, Entrada
<1>4. ASSUME NEW k \in Esqueleto PROVE Misma([f EXCEPT !.esqueleto = k], f)
  BY DEF Misma, Entrada
<1>5. ASSUME NEW p \in Propuesta PROVE Misma([f EXCEPT !.sobre = p], f)
  BY DEF Misma, Entrada
<1>. QED  BY <1>1, <1>2, <1>3, <1>4, <1>5 DEF Misma

LEMMA MismaDeMisma == ASSUME NEW f, NEW g, NEW h, Misma(h, g), Misma(g, f) PROVE Misma(h, f)
BY DEF Misma

LEMMA MismaMarcas ==
  ASSUME NEW f \in Entrada, NEW g, Misma(g, f)
  PROVE  /\ \A S \in SUBSET Marcas : Misma(Con(g, S), f)
         /\ \A S : Misma(Sin(g, S), f)
<1>1. g \in Entrada
  BY DEF Misma
<1>2. /\ \A S \in SUBSET Marcas : Misma(Con(g, S), g)
      /\ \A S : Misma(Sin(g, S), g)
  BY <1>1, Mismas
<1>. QED  BY <1>2, MismaDeMisma

LEMMA MismaPoner ==
  ASSUME NEW f \in Entrada, NEW g, Misma(g, f), NEW marca \in Marcas, NEW si
  PROVE  Misma(Poner(g, marca, si), f)
BY MismaMarcas DEF Poner

LEMMA MismaParada == ASSUME NEW f \in Entrada PROVE Misma(Parada(f), f)
<1>1. Misma(Con(f, {"error"}), f)
  BY Mismas DEF Marcas
<1>. QED  BY <1>1, MismaMarcas DEF Parada

LEMMA MismaSoltada == ASSUME NEW f \in Entrada, NEW h, Misma(h, f) PROVE Misma(SoltarAjeno(h), f)
<1>. DEFINE g == IF h.aviso = "otro" THEN [h EXCEPT !.aviso = Nada] ELSE h
<1>1. h \in Entrada
  BY DEF Misma
<1>2. Misma(g, h)
  BY <1>1, Mismas
<1>3. Misma(g, f)
  BY <1>2, MismaDeMisma
<1>. HIDE DEF g
<1>. QED  BY <1>3, MismaMarcas DEF SoltarAjeno, g

LEMMA MismaHereda == ASSUME NEW f, f # Nada, NEW g, Misma(g, f) PROVE Hereda(g, f)
BY DEF Misma, Hereda

LEMMA HeredaMisma ==
  ASSUME IInv, NEW n \in Partes, NEW e \in Etapas, fondeo[n][e] # Nada, NEW g, Pon(n, e, g), Misma(g, fondeo[n][e])
  PROVE  Heredan
BY MismaHereda, HeredaPon

LEMMA HeredaFalla ==
  ASSUME IInv, NEW n \in Partes, NEW e \in Etapas, fondeo[n][e] # Nada, Falla(n, e, fondeo[n][e])
  PROVE  Heredan
BY DeEntrada, MismaParada, HeredaMisma DEF Falla

LEMMA SinSalida ==
  /\ \A n, e, viene : Nueva(n, e, viene).gastada = Nada
  /\ \A m, a : Vacia(m, a).gastada = Nada
  /\ \A t : Recargada(t).gastada = Nada
  /\ \A f : Limpia(f) \in {f, Nada}
BY DEF Nueva, Vacia, Recargada, Limpia

LEMMA HeredaSinSalida ==
  ASSUME IInv, NEW n \in Partes, NEW e \in Etapas, NEW g, Pon(n, e, g), g = Nada \/ g.gastada = Nada \/ g = fondeo[n][e]
  PROVE  Heredan
<1>1. Hereda(g, fondeo[n][e])
  BY DEF Hereda
<1>. QED  BY <1>1, HeredaPon

LEMMA LibroIgualIgual ==
  ASSUME UNCHANGED <<libro, ocultas>>
  PROVE  LibroIgual
BY DEF LibroIgual

-----------------------------------------------------------------------------
(* The steps.                                                              *)

LEMMA LibroDePersona ==
  ASSUME IInv, KInv, NEW n \in Partes, NEW e \in Etapas, DePersona(n, e)
  PROVE  KInv'
<1>1. LibroIgual /\ cadena' = cadena /\ ocupado' = ocupado
  BY DEF DePersona, Confirmar, Reempezar, Cancelar, Reproponer, LibroIgual, billeteras
<1>2. Heredan
  BY HeredaIgual, HeredaSinSalida, SinSalida DEF DePersona, Confirmar, Reempezar, Cancelar, Reproponer
<1>. QED  BY <1>1, <1>2, LibroSigue

LEMMA LibroDeMarcas ==
  ASSUME IInv, KInv, NEW n \in Partes, NEW e \in Etapas,
         \/ Limpiar(n, e) \/ SoltarAviso(n, e) \/ Habilitar(n, e) \/ CerrarBusqueda(n, e)
         \/ Avisar(n, e) \/ EmitirAviso(n, e) \/ EmitirBusqueda(n, e) \/ Ver(n, e) \/ Hecho(n, e)
  PROVE  KInv'
<1>. DEFINE f == fondeo[n][e]
<1>1. LibroIgual /\ cadena' = cadena /\ ocupado' = ocupado
  BY DEF Limpiar, SoltarAviso, Habilitar, CerrarBusqueda, Avisar, EmitirAviso, EmitirBusqueda, Ver, Hecho,
     LibroIgual, billeteras
<1>2. Heredan
  <2>1. CASE Limpiar(n, e)
    BY <2>1, HeredaSinSalida DEF Limpiar
  <2>2. CASE Hecho(n, e)
    BY <2>2, HeredaIgual DEF Hecho
  <2>3. CASE SoltarAviso(n, e)
    <3>1. f # Nada /\ f \in Entrada
      BY <2>3, DeEntrada DEF SoltarAviso, Viva
    <3>. DEFINE h == [f EXCEPT !.aviso = Nada]
                g == Sin(Con(h, {"enviado"}), {"espera"})
    <3>2. Misma(h, f)
      BY <3>1, Mismas
    <3>. HIDE DEF h
    <3>3. Misma(Con(h, {"enviado"}), f)
      BY <3>1, <3>2, MismaMarcas DEF Marcas
    <3>4. Misma(g, f)
      BY <3>1, <3>3, MismaMarcas
    <3>. HIDE DEF g
    <3>5. \A si : Misma(Poner(g, "avisar", si), f)
      BY <3>1, <3>4, MismaPoner DEF Marcas
    <3>6. PICK k : Pon(n, e, k) /\ (k = g \/ \E si : k = Poner(g, "avisar", si))
      BY <2>3 DEF SoltarAviso, g, h
    <3>. QED  BY <3>1, <3>4, <3>5, <3>6, HeredaMisma
  <2>4. CASE Habilitar(n, e)
    <3>1. f # Nada /\ f \in Entrada
      BY <2>4, DeEntrada DEF Habilitar, Viva
    <3>2. Misma(Sin(f, {"espera"}), f)
      BY <3>1, Mismas
    <3>3. \A si : Misma(Poner(Sin(f, {"espera"}), "avisar", si), f)
      BY <3>1, <3>2, MismaPoner DEF Marcas
    <3>. QED  BY <2>4, <3>1, <3>3, HeredaMisma DEF Habilitar
  <2>5. CASE CerrarBusqueda(n, e)
    <3>1. f # Nada /\ f \in Entrada
      BY <2>5, DeEntrada DEF CerrarBusqueda, Viva, FaltaEntrada
    <3>2. Misma([f EXCEPT !.aviso = "propio"], f)
      BY <3>1, Mismas
    <3>3. Misma(Sin([f EXCEPT !.aviso = "propio"], {"enviado", "espera"}), f)
      BY <3>1, <3>2, MismaMarcas
    <3>. QED  BY <2>5, <3>1, <3>3, HeredaMisma DEF CerrarBusqueda
  <2>6. CASE Avisar(n, e)
    <3>1. f # Nada /\ f \in Entrada
      BY <2>6, DeEntrada DEF Avisar, Viva
    <3>. QED  BY <2>6, <3>1, Mismas, HeredaMisma DEF Avisar
  <2>7. CASE EmitirAviso(n, e)
    <3>1. f # Nada /\ f \in Entrada /\ {"enviado"} \in SUBSET Marcas
      BY <2>7, DeEntrada DEF EmitirAviso, Viva, Marcas
    <3>. QED  BY <2>7, <3>1, Mismas, HeredaMisma DEF EmitirAviso
  <2>8. CASE EmitirBusqueda(n, e)
    <3>1. f # Nada /\ f \in Entrada /\ {"dije"} \in SUBSET Marcas
      BY <2>8, DeEntrada DEF EmitirBusqueda, Viva, Marcas
    <3>. QED  BY <2>8, <3>1, Mismas, HeredaMisma DEF EmitirBusqueda
  <2>9. CASE Ver(n, e)
    <3>1. f # Nada /\ f \in Entrada /\ {"visto"} \in SUBSET Marcas
      BY <2>9, DeEntrada DEF Ver, Viva, Marcas
    <3>2. Misma(Con(f, {"visto"}), f)
      BY <3>1, Mismas
    <3>3. Misma(Sin(Con(f, {"visto"}), {"error"}), f)
      BY <3>1, <3>2, MismaMarcas
    <3>. QED  BY <2>9, <3>1, <3>3, HeredaMisma DEF Ver
  <2>. QED  BY <2>1, <2>2, <2>3, <2>4, <2>5, <2>6, <2>7, <2>8, <2>9
<1>. QED  BY <1>1, <1>2, LibroSigue

LEMMA LibroAnillar ==
  ASSUME IInv, KInv, NEW n \in Partes, NEW e \in Etapas, NEW s, Anillar(n, e, s)
  PROVE  KInv'
<1>. DEFINE f == fondeo[n][e]
            g == [f EXCEPT !.gastada = s]
            j == [trabajo |-> "anillar", etapa |-> e, de |-> s]
<1>1. /\ LibroIgual /\ cadena' = cadena
      /\ Pon(n, e, g) /\ ocupado' = [ocupado EXCEPT ![n] = j] /\ f # Nada
  BY DEF Anillar, LibroIgual, billeteras, FaltaEntrada, Viva
<1>2. f \in Entrada /\ g.gastada = s /\ g.propuesta = f.propuesta
  BY <1>1, DeEntrada DEF Entrada
<1>. HIDE DEF g
<1>3. CASE n = Contratista
  <2>1. Heredan
    BY <1>1, <1>3, HeredaPon, Dos
  <2>2. ocupado'[Mandante] = ocupado[Mandante]
    BY <1>1, <1>3, Dos DEF IInv, Resto
  <2>. QED  BY <1>1, <2>1, <2>2, LibroSigue
<1>4. CASE n = Mandante
  <2>1. f.propuesta = Nada
    <3>1. "mandante" \in f.marcas \/ (f.sobre # Nada /\ "mandante" \notin f.marcas)
      BY <1>1 DEF Anillar, FaltaEntrada, Tiene
    <3>2. f.sobre = Nada
      BY <1>1, <1>4, DeEntrada, Dos DEF Buena
    <3>. QED  BY <1>1, <3>1, <3>2 DEF Anillar, FaltaEntrada, Tiene
  <2>2. ocupado'[Mandante] = j
    BY <1>1, <1>4 DEF IInv, Resto
  <2>3. \A d : ~Publicando(d, "ok")' /\ (Anillando(Mandante, d)' => d = e)
    BY <2>2 DEF Publicando, Anillando
  <2>4. /\ fondeo'[Mandante][e] = g
        /\ \A d \in Etapas : d # e => fondeo'[Mandante][d] = fondeo[Mandante][d]
    BY <1>1, <1>4, Dos DEF IInv, Entradas, Pon
  <2>5. ASSUME NEW d \in Etapas PROVE SalidaPropia(d, fondeo[Mandante][d])'
    <3>1. CASE d = e
      <4>1. fondeo'[Mandante][d].gastada = s /\ fondeo'[Mandante][d].propuesta = Nada /\ ocupado'[Mandante].de = s
        BY <1>2, <1>4, <2>1, <2>2, <2>4, <3>1
      <4>. QED  BY <2>3, <4>1 DEF SalidaPropia
    <3>2. CASE d # e
      BY <2>3, <2>4, <3>2 DEF SalidaPropia, KInv
    <3>. QED  BY <3>1, <3>2
  <2>6. LibroDe(Mandante)'
    BY <1>1 DEF KInv, LibroDe, LibroIgual
  <2>. QED  BY <2>3, <2>5, <2>6 DEF KInv
<1>. QED  BY <1>3, <1>4, Dos

LEMMA LibroDesocupa ==
  ASSUME IInv, KInv, NEW n \in Partes, Desocupa(n) \/ ocupado' = ocupado, UNCHANGED <<libro, ocultas>>,
         cadena' = cadena, Heredan
  PROVE  KInv'
<1>1. ocupado'[Mandante] \in {ocupado[Mandante], Nada}
  BY Dos DEF IInv, Resto, Desocupa
<1>. QED  BY <1>1, LibroSigue, LibroIgualIgual

LEMMA LibroFallas ==
  ASSUME IInv, KInv, NEW n \in Partes, NEW e \in Etapas,
         NoAnillo(n, e) \/ ArmarNada(n, e) \/ CerrarNo(e) \/ NoPublicado(e)
  PROVE  KInv'
<1>1. CASE NoAnillo(n, e)
  BY <1>1, HeredaFalla, HeredaIgual, LibroDesocupa DEF NoAnillo, billeteras
<1>2. CASE ArmarNada(n, e)
  BY <1>2, HeredaFalla, HeredaIgual, LibroDesocupa DEF ArmarNada, billeteras
<1>3. CASE CerrarNo(e)
  BY <1>3, HeredaFalla, LibroDesocupa, Dos DEF CerrarNo, billeteras, ListaParaCerrar, Viva
<1>4. CASE NoPublicado(e)
  BY <1>4, HeredaFalla, HeredaIgual, LibroDesocupa, Dos DEF NoPublicado, billeteras
<1>. QED  BY <1>1, <1>2, <1>3, <1>4

LEMMA LibroRechazado ==
  ASSUME IInv, KInv, NEW e \in Etapas, Rechazado(e)
  PROVE  KInv'
<1>1. Heredan
  BY HeredaSinSalida, SinSalida, Dos DEF Rechazado
<1>. QED  BY <1>1, LibroDesocupa, Dos DEF Rechazado, billeteras

LEMMA LibroArmarPropuesta ==
  ASSUME IInv, KInv, NEW e \in Etapas, ArmarPropuesta(e)
  PROVE  KInv'
<1>. DEFINE f == fondeo[Mandante][e]
            p == [etapa |-> e, monto |-> f.monto, salida |-> ocupado[Mandante].de, num |-> intentos + 1]
            h == [f EXCEPT !.propuesta = p]
            g == Sin(h, {"error"})
<1>1. f # Nada /\ f \in Entrada /\ Anillando(Mandante, e)
  BY DeEntrada, Dos DEF ArmarPropuesta, Tiene
<1>2. h.gastada = f.gastada /\ h.propuesta = p
  BY <1>1 DEF Entrada
<1>3. g.gastada = f.gastada /\ g.propuesta = p
  <2>. HIDE DEF p
  <2>1. h = [f EXCEPT !.propuesta = p] /\ "marcas" \in DOMAIN h /\ "gastada" \in DOMAIN h /\ "propuesta" \in DOMAIN h
    BY <1>1 DEF Entrada
  <2>. HIDE DEF h
  <2>. QED  BY <1>2, <2>1 DEF Sin
<1>4. p.salida = ocupado[Mandante].de
  OBVIOUS
<1>5. f.gastada \in {Nada, p.salida}
  BY <1>1, <1>4 DEF KInv, SalidaPropia
<1>6. Pon(Mandante, e, g) /\ Desocupa(Mandante) /\ UNCHANGED <<libro, ocultas, cadena>>
  BY DEF ArmarPropuesta, billeteras
<1>. HIDE DEF g, p
<1>7. ocupado'[Mandante] = Nada
  BY <1>6, Dos DEF IInv, Resto, Desocupa
<1>8. /\ fondeo'[Mandante][e] = g
      /\ \A d \in Etapas : d # e => fondeo'[Mandante][d] = fondeo[Mandante][d]
  BY <1>6, Dos DEF IInv, Entradas, Pon
<1>9. ASSUME NEW d \in Etapas PROVE SalidaPropia(d, fondeo[Mandante][d])'
  BY <1>3, <1>5, <1>7, <1>8 DEF SalidaPropia, KInv, Anillando, Publicando
<1>10. LibroDe(Mandante)'
  BY <1>6 DEF KInv, LibroDe
<1>. QED  BY <1>7, <1>9, <1>10 DEF KInv, Publicando

LEMMA LibroArmarEsqueleto ==
  ASSUME IInv, KInv, NEW n \in Partes, NEW e \in Etapas, ArmarEsqueleto(n, e)
  PROVE  KInv'
<1>. DEFINE f == fondeo[n][e]
            k == [propuesta |-> f.sobre, salida |-> ocupado[n].de]
            h == [f EXCEPT !.esqueleto = k]
            g == Sin(h, {"error"})
<1>1. f # Nada /\ f \in Entrada
  BY DeEntrada DEF ArmarEsqueleto
<1>2. h.gastada = f.gastada /\ h.propuesta = f.propuesta
  BY <1>1 DEF Entrada
<1>3. g.gastada = f.gastada /\ g.propuesta = f.propuesta
  <2>. HIDE DEF k
  <2>1. "marcas" \in DOMAIN h /\ "gastada" \in DOMAIN h /\ "propuesta" \in DOMAIN h
    BY <1>1 DEF Entrada
  <2>. HIDE DEF h
  <2>. QED  BY <1>2, <2>1 DEF Sin
<1>4. Pon(n, e, g) /\ Desocupa(n) /\ UNCHANGED <<libro, ocultas, cadena>>
  BY DEF ArmarEsqueleto, billeteras
<1>. HIDE DEF g
<1>5. Hereda(g, f)
  BY <1>1, <1>3 DEF Hereda
<1>6. Heredan
  BY <1>4, <1>5, HeredaPon
<1>. QED  BY <1>4, <1>6, LibroDesocupa

LEMMA LibroCerrar ==
  ASSUME IInv, KInv, NEW e \in Etapas, Cerrar(e)
  PROVE  KInv'
<1>. DEFINE f == fondeo[Mandante][e]
            t == TxDe([propuesta |-> f.propuesta, salida |-> f.esqueleto.salida])
            g == [f EXCEPT !.tx = t]
<1>1. /\ f # Nada /\ f \in Entrada /\ f.propuesta # Nada /\ f.propuesta.salida \in t.entradas
  BY QueCierra, DeEntrada, Dos DEF Cerrar, ListaParaCerrar, Viva, TxDe
<1>2. PICK r \in Difusiones(t) :
        /\ ocupado' = [ocupado EXCEPT ![Mandante] = [trabajo |-> r, etapa |-> e, de |-> t]]
        /\ cadena' = IF r \in {"ok", "sin-respuesta"} THEN cadena \cup {t} ELSE cadena
  BY DEF Cerrar
<1>3. Pon(Mandante, e, g) /\ UNCHANGED <<libro, ocultas>>
  BY DEF Cerrar, billeteras
<1>4. r \in {"ok", "rechazo", "sin-red", "sin-respuesta"}
  BY <1>2 DEF Difusiones
<1>. HIDE DEF t
<1>5. g.gastada = f.gastada /\ g.propuesta = f.propuesta
  BY <1>1 DEF Entrada
<1>. HIDE DEF g
<1>6. /\ fondeo'[Mandante][e] = g
      /\ \A d \in Etapas : d # e => fondeo'[Mandante][d] = fondeo[Mandante][d]
  BY <1>3, Dos DEF IInv, Entradas, Pon
<1>7. ocupado'[Mandante] = [trabajo |-> r, etapa |-> e, de |-> t]
  BY <1>2, Dos DEF IInv, Resto
<1>8. \A d : /\ ~Anillando(Mandante, d)'
             /\ Publicando(d, "ok")' => d = e /\ r = "ok"
  BY <1>4, <1>7 DEF Anillando, Publicando
<1>9. f.gastada \in {Nada} \cup t.entradas
  BY <1>1 DEF KInv, SalidaPropia
<1>10. ASSUME NEW d \in Etapas PROVE SalidaPropia(d, fondeo[Mandante][d])'
  BY <1>1, <1>5, <1>6, <1>7, <1>8, <1>9 DEF SalidaPropia, KInv
<1>11. \A d \in Etapas : (Publicando(d, "ok") => ocupado[Mandante].de \in cadena)'
  BY <1>2, <1>7, <1>8
<1>12. LibroDe(Mandante)'
  BY <1>2, <1>3 DEF KInv, LibroDe
<1>. QED  BY <1>10, <1>11, <1>12 DEF KInv

(* The output that leaves the ledger is one the network just accepted.     *)
LEMMA LibroPublicado ==
  ASSUME IInv, KInv, NEW e \in Etapas, Publicado(e)
  PROVE  KInv'
<1>. DEFINE f == fondeo[Mandante][e]
            t == ocupado[Mandante].de
<1>1. /\ Publicando(e, "ok") /\ t \in cadena
      /\ f # Nada => f.gastada \in {Nada} \cup t.entradas
  BY DEF Publicado, KInv, SalidaPropia
<1>2. /\ Desocupa(Mandante) /\ fondeo' = fondeo /\ ocultas' = ocultas /\ cadena' = cadena
      /\ libro'[Mandante] = libro[Mandante] \/ (f # Nada /\ libro'[Mandante] = libro[Mandante] \ {f.gastada})
  BY Dos DEF IInv, Resto, Publicado, Consume
<1>3. LibroDe(Mandante)'
  <2>. SUFFICES ASSUME NEW s \in Salidas[Mandante], s \notin libro'[Mandante], s \notin ocultas[Mandante]
                PROVE  \E u \in cadena : s \in u.entradas
    BY <1>2 DEF LibroDe
  <2>1. CASE s \notin libro[Mandante]
    BY <2>1 DEF KInv, LibroDe
  <2>2. CASE s \in libro[Mandante]
    <3>1. f # Nada /\ s = f.gastada
      BY <1>2, <2>2
    <3>2. s # Nada
      BY NadaAssumption DEF TodasLasSalidas
    <3>. QED  BY <1>1, <3>1, <3>2
  <2>. QED  BY <2>1, <2>2
<1>4. ocupado'[Mandante] = Nada
  BY <1>2, Dos DEF IInv, Resto, Desocupa
<1>5. ASSUME NEW d \in Etapas PROVE SalidaPropia(d, fondeo[Mandante][d])'
  BY <1>2, <1>4 DEF SalidaPropia, KInv, Anillando, Publicando
<1>. QED  BY <1>3, <1>4, <1>5 DEF KInv, Publicando

LEMMA LibroMensaje ==
  ASSUME IInv, JInv, KInv, NEW n \in Partes, NEW k \in DOMAIN red[n], DeMensaje(n, k)
  PROVE  KInv'
<1>. DEFINE e == red[n][k].etapa
            f == fondeo[n][e]
            c == red[n][k].cuerpo
<1>0. f # Nada /\ e \in Etapas => f \in Entrada
  BY DeEntrada
<1>1. CASE TomarPedido(n, k)
  <2>1. Llega(n, k, "fund-pedir") /\ e \in Etapas
    BY <1>1, LlegaBien DEF TomarPedido
  <2>2. PICK g : Pon(n, e, g) /\ (g = Nueva(n, e, TRUE) \/ g = Nada \/ (f # Nada /\ g = SoltarAjeno(f)))
    BY <1>1 DEF TomarPedido
  <2>. HIDE DEF e
  <2>3. f # Nada => Misma(SoltarAjeno(f), f)
    BY <1>0, <2>1, Mismas, MismaSoltada
  <2>4. Heredan
    BY <2>1, <2>2, <2>3, HeredaSinSalida, SinSalida, HeredaMisma
  <2>. QED  BY <1>1, <2>4, LibroDesocupa DEF TomarPedido, billeteras
<1>2. CASE TomarPropuesta(n, k)
  <2>1. Llega(n, k, "fund-proposal") /\ e \in Etapas /\ n = Contratista
    BY <1>2, LlegaBien DEF TomarPropuesta, Bueno
  <2>2. fondeo' = fondeo \/ \E g : Pon(n, e, g)
    BY <1>2 DEF TomarPropuesta
  <2>. HIDE DEF e
  <2>3. Heredan
    BY <2>1, <2>2, HeredaIgual, HeredaPon, Dos
  <2>. QED  BY <1>2, <2>3, LibroDesocupa DEF TomarPropuesta, billeteras
<1>3. CASE TomarEsqueleto(n, k)
  <2>. DEFINE h == [f EXCEPT !.esqueleto = c]
  <2>1. Llega(n, k, "fund-skeleton") /\ e \in Etapas /\ c \in Esqueleto
    BY <1>3, LlegaBien DEF TomarEsqueleto, Mensajes
  <2>2. fondeo' = fondeo \/ (f # Nada /\ Pon(n, e, Sin(SoltarAjeno(h), {"error"})))
    BY <1>3 DEF TomarEsqueleto, Tiene
  <2>. HIDE DEF e, c
  <2>3. ASSUME f # Nada PROVE Misma(Sin(SoltarAjeno(h), {"error"}), f)
    <3>1. f \in Entrada /\ Misma(h, f)
      BY <1>0, <2>1, <2>3, Mismas
    <3>. HIDE DEF h
    <3>2. Misma(SoltarAjeno(h), f)
      BY <3>1, MismaSoltada
    <3>. QED  BY <3>1, <3>2, MismaMarcas
  <2>4. Heredan
    BY <2>1, <2>2, <2>3, HeredaIgual, HeredaMisma
  <2>. QED  BY <1>3, <2>4, LibroDesocupa DEF TomarEsqueleto, billeteras
<1>4. CASE TomarTx(n, k)
  <2>1. Llega(n, k, "fund-tx") /\ e \in Etapas /\ vueltas' = vueltas
    BY <1>4, LlegaBien DEF TomarTx
  <2>2. n = Contratista
    BY <2>1, CallanLlega, Dos
  <2>3. fondeo' = fondeo \/ \E g : Pon(n, e, g)
    BY <1>4 DEF TomarTx
  <2>4. libro'[Mandante] = libro[Mandante] /\ ocultas' = ocultas /\ cadena' = cadena /\ ocupado' = ocupado
    BY <1>4, <2>2, Dos DEF IInv, Resto, TomarTx, Consume
  <2>. HIDE DEF e
  <2>5. Heredan
    BY <2>1, <2>2, <2>3, HeredaIgual, HeredaPon, Dos
  <2>. QED  BY <2>4, <2>5, LibroSigue DEF LibroIgual
<1>5. CASE TomarAborto(n, k)
  <2>1. Llega(n, k, "fund-abort") /\ e \in Etapas /\ Pon(n, e, Limpia(f))
    BY <1>5, LlegaBien DEF TomarAborto
  <2>. HIDE DEF e
  <2>2. Heredan
    BY <2>1, SinSalida, HeredaSinSalida
  <2>. QED  BY <1>5, <2>2, LibroDesocupa DEF TomarAborto, billeteras
<1>6. CASE TomarFallos(n, k)
  <2>1. PICK paso \in {"sin-saldo", "buscando", "falla"}, g \in {ConAviso(f), ConBusqueda(f), ConError(f)} :
          TomarFallo(n, k, paso, g)
    BY <1>6 DEF TomarFallos
  <2>2. Llega(n, k, paso) /\ e \in Etapas /\ Pon(n, e, g)
    BY <2>1, LlegaBien DEF TomarFallo
  <2>. HIDE DEF e
  <2>3. ASSUME f = Nada PROVE Heredan
    <3>1. g.gastada = Nada
      BY <2>1, <2>3 DEF ConAviso, ConBusqueda, ConError, Vacia
    <3>. QED  BY <2>2, <3>1, HeredaSinSalida
  <2>4. ASSUME f # Nada PROVE Heredan
    <3>1. f \in Entrada
      BY <1>0, <2>2, <2>4
    <3>2. Misma(ConAviso(f), f)
      <4>. DEFINE h == [f EXCEPT !.aviso = "otro"]
      <4>1. Misma(h, f)
        BY <3>1, Mismas
      <4>. HIDE DEF h
      <4>2. Misma(Con(h, {"enviado"}), f)
        BY <3>1, <4>1, MismaMarcas DEF Marcas
      <4>3. Misma(Sin(Con(h, {"enviado"}), {"espera", "par", "error"}), f)
        BY <3>1, <4>2, MismaMarcas
      <4>. QED  BY <2>4, <4>3 DEF ConAviso, h
    <3>3. Misma(ConBusqueda(f), f)
      BY <2>4, <3>1, Mismas DEF ConBusqueda, Marcas
    <3>4. Misma(ConError(f), f)
      BY <2>4, <3>1, Mismas DEF ConError, Marcas
    <3>. QED  BY <2>1, <2>2, <2>4, <3>2, <3>3, <3>4, HeredaMisma
  <2>5. Heredan
    BY <2>3, <2>4
  <2>. QED  BY <2>1, <2>5, LibroDesocupa DEF TomarFallo, billeteras
<1>. QED  BY <1>1, <1>2, <1>3, <1>4, <1>5, <1>6 DEF DeMensaje

LEMMA LibroDeBilletera ==
  ASSUME IInv, KInv, NEW n \in Partes, DeBilletera(n)
  PROVE  KInv'
<1>1. Heredan
  BY HeredaIgual DEF DeBilletera, Podar, TerminarScan, Hallar
<1>2. CASE Podar(n)
  <2>1. /\ ocupado' = ocupado /\ fondeo' = fondeo /\ cadena' = cadena /\ ocultas' = ocultas
        /\ \A s \in libro[Mandante] \ libro'[Mandante] : \E t \in cadena : s \in t.entradas
    BY <1>2, Dos DEF Podar, IInv, Resto
  <2>2. LibroDe(Mandante)'
    BY <2>1 DEF KInv, LibroDe
  <2>. QED  BY <2>1, <2>2 DEF KInv, SalidaPropia, Anillando, Publicando
<1>3. CASE TerminarScan(n)
  BY <1>1, <1>3, LibroDesocupa DEF TerminarScan
<1>4. CASE Hallar(n)
  <2>1. LibroIgual /\ cadena' = cadena /\ ocupado' = ocupado
    BY <1>4, Dos DEF Hallar, LibroIgual, IInv, Resto
  <2>. QED  BY <1>1, <2>1, LibroSigue
<1>. QED  BY <1>2, <1>3, <1>4 DEF DeBilletera

LEMMA LibroCaer ==
  ASSUME IInv, KInv, NEW n \in Partes, Caer(n)
  PROVE  KInv'
<1>1. ASSUME NEW e \in Etapas PROVE Hereda(fondeo'[Mandante][e], fondeo[Mandante][e])
  BY SinSalida, Dos DEF Caer, IInv, Entradas, Hereda
<1>. QED  BY <1>1, LibroDesocupa DEF Caer, billeteras, Heredan

LEMMA LibroPaso ==
  ASSUME IInv, JInv, KInv, [Next]_vars
  PROVE  KInv'
<1>1. ASSUME NEW n \in Partes, NEW e \in Etapas, DeTick(n, e) PROVE KInv'
  BY <1>1, LibroDeMarcas, LibroAnillar, LibroArmarEsqueleto, LibroFallas DEF DeTick
<1>2. ASSUME NEW e \in Etapas, DelMandante(e) PROVE KInv'
  BY <1>2, LibroArmarPropuesta, LibroCerrar, LibroFallas, LibroPublicado, LibroRechazado, Dos DEF DelMandante
<1>3. ASSUME NEW n \in Partes, NEW e \in Etapas, Fusionar(n, e) PROVE KInv'
  BY <1>3, HeredaIgual, LibroDesocupa DEF Fusionar, billeteras
<1>4. ASSUME NEW n \in Partes, Perder(n) PROVE KInv'
  BY <1>4, HeredaIgual, LibroDesocupa DEF Perder, billeteras
<1>5. CASE UNCHANGED vars
  BY <1>5, HeredaIgual, LibroDesocupa, Dos DEF vars, billeteras
<1>. QED  BY <1>1, <1>2, <1>3, <1>4, <1>5, LibroDePersona, LibroFallas, LibroMensaje, LibroDeBilletera, LibroCaer
          DEF Next

LEMMA LibroInicio == Init => KInv
BY Dos DEF Init, KInv, SalidaPropia, Publicando, LibroDe

(* An output that left the ledger of the principal is spent on the chain,  *)
(* whatever is lost, restarted, started again or gone back on: what the    *)
(* entry took is what the transaction just accepted spends                 *)
(* (consumir_fondeo_personal).                                             *)
THEOREM LibroDelMandante == Spec => []LibroDe(Mandante)
<1>1. IInv /\ JInv /\ KInv /\ [Next]_vars => KInv'
  BY LibroPaso
<1>2. KInv => LibroDe(Mandante)
  BY DEF KInv
<1>. QED  BY <1>1, <1>2, LibroInicio, Invariante, Recuerdo, PTL DEF Spec

=============================================================================
