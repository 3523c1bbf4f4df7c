--------------------------- MODULE TableroProofs ---------------------------
(***************************************************************************)
(* What holds of the notice board for any people, offers and bounds: the   *)
(* types, with the list of withdrawals never longer than it may be, and    *)
(* that a deal agreed on says of its contractor what he answered.  The     *)
(* invariant is of every copy of a deal, in memory and saved: a copy holds *)
(* only what somebody answered (Respondida), and the merge of two such     *)
(* copies is another.  Of withdrawals it says that they have different     *)
(* dates (Fechas), which is what makes the latest ones few.                *)
(***************************************************************************)
EXTENDS Tablero, FiniteSetTheorems, WellFoundedInduction, TLAPS

Garantias == {"publicada", "propuesta"}
Con(rs, g) == \E r \in Range(rs) : r[2] = g

(* A copy of a deal holds only what is among the answers rs to its offer.  *)
Respondida(x, rs) ==
  x # Nada =>
    /\ x \in Obra /\ \E r \in Range(rs) : r[1] = x.contratista
    /\ x.estado = Acordada => Con(rs, x.garantia)
    /\ x.estado = Contra => Con(rs, "propuesta")

Respondidas ==
  \A n \in Nodos, o \in Ofertas :
    Respondida(store[n].obras[o], respuestas[o]) /\ Respondida(disco[n].obras[o], respuestas[o])

(* The withdrawals that some node has, in memory or saved.                 *)
Vistas == UNION {store[n].retiradas \cup disco[n].retiradas : n \in Nodos}
Distintas(rs) == \A r, x \in rs : r.cuando = x.cuando => r = x
Fechas == Distintas(Vistas) /\ \A r \in Vistas : r.cuando <= fecha

Tipos ==
  /\ store \in [Nodos -> Store] /\ disco \in [Nodos -> Store]
  /\ publicadas \subseteq Ofertas /\ fecha \in 0 .. MaxRetiros
  /\ respuestas \in [Ofertas -> Seq(Contratistas \X Garantias)]

Cabidas == \A n \in Nodos : Cardinality(store[n].retiradas) <= MaxRetiradas

IInv == Tipos /\ Fechas /\ Respondidas /\ Cabidas

-----------------------------------------------------------------------------
(* Withdrawals with different dates are finitely many.                     *)
LEMMA DistintasFinitas ==
  ASSUME NEW rs \in SUBSET Retiro, Distintas(rs)
  PROVE  IsFiniteSet(rs)
<1> DEFINE f == [r \in rs |-> r.cuando]
<1>1. f \in [rs -> 1 .. MaxRetiros]
  BY DEF Retiro
<1>2. f \in Injection(rs, 1 .. MaxRetiros)
  BY <1>1 DEF Injection, IsInjective, Distintas
<1>3. IsFiniteSet(1 .. MaxRetiros)
  BY FS_Interval, TableroAssumption
<1> HIDE DEF f
<1> QED
  BY <1>2, <1>3, FS_Injection

(* Some withdrawal is the earliest of a list that is not empty.            *)
LEMMA LaPrimera ==
  ASSUME NEW rs \in SUBSET Retiro, rs # {}
  PROVE  \E r \in rs : \A x \in rs : r.cuando <= x.cuando
<1> DEFINE T == {r.cuando : r \in rs}
<1>1. T \subseteq Nat /\ T # {}
  BY DEF Retiro
<1>2. PICK t \in T : \A y \in T : ~(<<y, t>> \in OpToRel(<, Nat))
  <2> HIDE DEF T
  <2> QED
    BY <1>1, WFMin, NatLessThanWellFounded
<1>3. \A y \in T : t <= y
  <2> SUFFICES ASSUME NEW y \in T PROVE t <= y
    OBVIOUS
  <2>0. y \in Nat /\ t \in Nat
    BY <1>1
  <2>1. CASE y < t
    <3>1. <<y, t>> \in Nat \X Nat /\ <<y, t>>[1] < <<y, t>>[2]
      BY <2>0, <2>1
    <3>2. <<y, t>> \in OpToRel(<, Nat)
      BY <3>1 DEF OpToRel
    <3> QED
      BY <1>2, <3>2
  <2> QED
    BY <2>0, <2>1
<1> QED
  BY <1>3

(* The latest ones are no more than there is room for.                     *)
LEMMA UltimasCaben ==
  ASSUME NEW rs \in SUBSET Retiro, Distintas(rs)
  PROVE  Cardinality(Ultimas(rs)) <= MaxRetiradas
<1> DEFINE U == Ultimas(rs)
<1>0. IsFiniteSet(rs) /\ U \subseteq rs /\ MaxRetiradas \in Nat \ {0}
  BY DistintasFinitas, TableroAssumption DEF Ultimas
<1>1. CASE U = {}
  BY <1>0, <1>1, FS_EmptySet
<1>2. CASE U # {}
  <2>1. PICK r \in U : \A x \in U : r.cuando <= x.cuando
    BY <1>0, <1>2, LaPrimera
  <2> DEFINE P == {x \in rs : x.cuando > r.cuando}
  <2>2. \A x \in U \ {r} : x.cuando > r.cuando
    <3> SUFFICES ASSUME NEW x \in U \ {r} PROVE x.cuando > r.cuando
      OBVIOUS
    <3>1. x.cuando # r.cuando /\ r.cuando <= x.cuando
      BY <1>0, <2>1 DEF Distintas
    <3>2. x.cuando \in Nat /\ r.cuando \in Nat
      BY <1>0, <2>1 DEF Retiro
    <3> QED
      BY <3>1, <3>2
  <2>3. U \ {r} \subseteq P /\ P \subseteq rs
    BY <1>0, <2>2
  <2>4. Cardinality(P) < MaxRetiradas
    BY <2>1 DEF Ultimas
  <2>5. IsFiniteSet(P) /\ IsFiniteSet(U)
    BY <1>0, <2>3, FS_Subset
  <2>6. Cardinality(U \ {r}) <= Cardinality(P)
    BY <2>3, <2>5, FS_Subset
  <2>7. Cardinality(U \ {r}) = Cardinality(U) - 1
    BY <2>1, <2>5, FS_RemoveElement
  <2>8. Cardinality(U) \in Nat /\ Cardinality(P) \in Nat
    BY <2>5, FS_CardinalityType
  <2> QED
    BY <1>0, <2>4, <2>6, <2>7, <2>8
<1> QED
  BY <1>1, <1>2

(* merge_store of withdrawals: the deals stay, and the list is made of     *)
(* what both had.                                                          *)
LEMMA FusionarRetiradasBien ==
  ASSUME NEW s \in Store, NEW rs \in SUBSET Retiro, Distintas(s.retiradas \cup rs)
  PROVE  /\ FusionarRetiradas(s, rs) \in Store
         /\ FusionarRetiradas(s, rs).obras = s.obras
         /\ FusionarRetiradas(s, rs).retiradas \subseteq s.retiradas \cup rs
         /\ Cardinality(FusionarRetiradas(s, rs).retiradas) <= MaxRetiradas
<1> DEFINE nuevas == {r \in rs : r.oferta \notin Retiradas(s.retiradas)}
           todas == Ultimas(s.retiradas \cup nuevas)
<1>0. s.retiradas \in SUBSET Retiro /\ s.ofertas \in SUBSET Ofertas /\ s.obras \in [Ofertas -> Obra \cup {Nada}]
  BY DEF Store
<1>1. s.retiradas \cup nuevas \in SUBSET Retiro
  BY <1>0
<1>2. Distintas(s.retiradas \cup nuevas)
  BY DEF Distintas
<1>3. Cardinality(todas) <= MaxRetiradas
  BY <1>1, <1>2, UltimasCaben
<1>4. todas \subseteq s.retiradas \cup nuevas
  BY DEF Ultimas
<1>5. FusionarRetiradas(s, rs) = [s EXCEPT !.retiradas = todas, !.ofertas = sin_retiradas(@, todas)]
  BY DEF FusionarRetiradas
<1> HIDE DEF nuevas, todas
<1>6. nuevas \subseteq rs
  BY DEF nuevas
<1> QED
  BY <1>0, <1>1, <1>3, <1>4, <1>5, <1>6 DEF Store, sin_retiradas

LEMMA VacioStore == Vacio \in Store
  BY DEF Vacio, Store

-----------------------------------------------------------------------------
(* What a copy says was answered stays answered.                           *)
LEMMA RespondidaQueda ==
  ASSUME NEW x, NEW rs, NEW qs, Respondida(x, rs), Range(rs) \subseteq Range(qs)
  PROVE  Respondida(x, qs)
BY DEF Respondida, Con

(* The merge of two copies that say what was answered is another.          *)
LEMMA FusionarRespondida ==
  ASSUME NEW rs, NEW a, NEW b, Respondida(a, rs), Respondida(b, rs)
  PROVE  Respondida(Fusionar(a, b), rs)
<1>1. CASE a = Nada
  <2>1. Fusionar(a, b) = b
    BY <1>1 DEF Fusionar
  <2> QED
    BY <2>1
<1>2. CASE a # Nada /\ b = Nada
  <2>1. Fusionar(a, b) = a
    BY <1>2 DEF Fusionar
  <2> QED
    BY <2>1
<1>3. CASE a # Nada /\ b # Nada
  <2>0. a \in Obra /\ b \in Obra
    BY <1>3 DEF Respondida
  <2>1. CASE b.estado > a.estado
    <3>1. Fusionar(a, b) = [b EXCEPT !.contratista = a.contratista]
      BY <1>3, <2>1 DEF Fusionar
    <3>2. /\ [b EXCEPT !.contratista = a.contratista] \in Obra
          /\ [b EXCEPT !.contratista = a.contratista].contratista = a.contratista
          /\ [b EXCEPT !.contratista = a.contratista].estado = b.estado
          /\ [b EXCEPT !.contratista = a.contratista].garantia = b.garantia
      BY <2>0 DEF Obra
    <3> QED
      BY <1>3, <3>1, <3>2 DEF Respondida
  <2>2. CASE ~(b.estado > a.estado)
    <3> DEFINE k == a.contra \/ (a.estado = b.estado /\ b.contra)
    <3>1. Fusionar(a, b) = [a EXCEPT !.contra = k]
      BY <1>3, <2>2 DEF Fusionar
    <3>0. k \in BOOLEAN
      OBVIOUS
    <3> HIDE DEF k
    <3>2. /\ [a EXCEPT !.contra = k] \in Obra
          /\ [a EXCEPT !.contra = k].contratista = a.contratista
          /\ [a EXCEPT !.contra = k].estado = a.estado
          /\ [a EXCEPT !.contra = k].garantia = a.garantia
      BY <2>0, <3>0 DEF Obra
    <3> QED
      BY <1>3, <3>1, <3>2 DEF Respondida
  <2> QED
    BY <2>1, <2>2
<1> QED
  BY <1>1, <1>2, <1>3

-----------------------------------------------------------------------------
LEMMA EmpiezaBien == Init => IInv
<1> SUFFICES ASSUME Init PROVE IInv
  OBVIOUS
<1>0. \A n \in Nodos : store[n] = Vacio /\ disco[n] = Vacio
  BY DEF Init
<1>1. Tipos
  <2>1. [n \in Nodos |-> Vacio] \in [Nodos -> Store]
    BY VacioStore
  <2>2. respuestas \in [Ofertas -> Seq(Contratistas \X Garantias)]
    <3>1. << >> \in Seq(Contratistas \X Garantias)
      OBVIOUS
    <3> QED
      BY <3>1 DEF Init
  <2>3. fecha \in 0 .. MaxRetiros
    BY TableroAssumption DEF Init
  <2> QED
    BY <2>1, <2>2, <2>3 DEF Init, Tipos
<1>2. Vistas = {}
  BY <1>0 DEF Vistas, Vacio
<1>3. Fechas
  BY <1>2 DEF Fechas, Distintas
<1>4. Respondidas
  BY <1>0 DEF Respondidas, Respondida, Vacio
<1>5. Cabidas
  <2>1. Cardinality({}) <= MaxRetiradas
    BY FS_EmptySet, TableroAssumption
  <2> QED
    BY <1>0, <2>1 DEF Cabidas, Vacio
<1> QED
  BY <1>1, <1>3, <1>4, <1>5 DEF IInv

(* One store changes, in memory: what has to be shown of the new one.      *)
LEMMA CambiaBien ==
  ASSUME IInv, NEW n \in Nodos, NEW s \in Store, s.retiradas \subseteq Vistas,
         Cardinality(s.retiradas) <= MaxRetiradas,
         \A o \in Ofertas : Respondida(s.obras[o], respuestas'[o]),
         Cambia(n, s), disco' = disco, fecha' = fecha, publicadas' \subseteq Ofertas,
         respuestas' \in [Ofertas -> Seq(Contratistas \X Garantias)],
         \A o \in Ofertas : Range(respuestas[o]) \subseteq Range(respuestas'[o])
  PROVE  IInv'
<1>0. \A m \in Nodos : store'[m] = IF m = n THEN s ELSE store[m]
  BY DEF Cambia, IInv, Tipos
<1>1. Tipos'
  BY DEF Tipos, IInv, Cambia
<1>2. Vistas' \subseteq Vistas
  BY <1>0 DEF Vistas
<1>3. Fechas'
  BY <1>2 DEF IInv, Fechas, Distintas
<1>4. Respondidas'
  <2> SUFFICES ASSUME NEW m \in Nodos, NEW o \in Ofertas
               PROVE  /\ Respondida(store'[m].obras[o], respuestas'[o])
                      /\ Respondida(disco'[m].obras[o], respuestas'[o])
    BY DEF Respondidas
  <2>1. Respondida(store[m].obras[o], respuestas[o]) /\ Respondida(disco[m].obras[o], respuestas[o])
    BY DEF IInv, Respondidas
  <2>2. /\ Respondida(store[m].obras[o], respuestas'[o])
        /\ Respondida(disco[m].obras[o], respuestas'[o])
    BY <2>1, RespondidaQueda
  <2> QED
    BY <1>0, <2>2
<1>5. Cabidas'
  BY <1>0 DEF IInv, Cabidas
<1> QED
  BY <1>1, <1>3, <1>4, <1>5 DEF IInv

(* Pieces of a store that change alone.                                    *)
LEMMA OtrasOfertas ==
  ASSUME NEW s \in Store, NEW os \in SUBSET Ofertas
  PROVE  /\ [s EXCEPT !.ofertas = os] \in Store
         /\ [s EXCEPT !.ofertas = os].retiradas = s.retiradas
         /\ [s EXCEPT !.ofertas = os].obras = s.obras
BY DEF Store

LEMMA OtrasObras ==
  ASSUME NEW s \in Store, NEW os \in [Ofertas -> Obra \cup {Nada}]
  PROVE  /\ [s EXCEPT !.obras = os] \in Store
         /\ [s EXCEPT !.obras = os].retiradas = s.retiradas
         /\ [s EXCEPT !.obras = os].obras = os
BY DEF Store

(* What the invariant says of the store of a node.                         *)
LEMMA DeUnNodo ==
  ASSUME IInv, NEW n \in Nodos
  PROVE  /\ store[n] \in Store /\ disco[n] \in Store
         /\ store[n].retiradas \subseteq Vistas /\ disco[n].retiradas \subseteq Vistas
         /\ Vistas \subseteq Retiro
         /\ Cardinality(store[n].retiradas) <= MaxRetiradas
         /\ \A o \in Ofertas : /\ Respondida(store[n].obras[o], respuestas[o])
                              /\ Respondida(disco[n].obras[o], respuestas[o])
<1>1. \A m \in Nodos : store[m] \in Store /\ disco[m] \in Store
  BY DEF IInv, Tipos
<1>2. Vistas \subseteq Retiro
  BY <1>1 DEF Vistas, Store
<1>3. store[n].retiradas \subseteq Vistas /\ disco[n].retiradas \subseteq Vistas
  BY DEF Vistas
<1> QED
  BY <1>1, <1>2, <1>3 DEF IInv, Cabidas, Respondidas

(* The offers of a store change; the answers do not.                       *)
LEMMA SoloOfertas ==
  ASSUME IInv, NEW n \in Nodos, NEW os \in SUBSET Ofertas,
         Cambia(n, [store[n] EXCEPT !.ofertas = os]), disco' = disco, fecha' = fecha,
         publicadas' \subseteq Ofertas, respuestas' = respuestas
  PROVE  IInv'
<1> DEFINE s == [store[n] EXCEPT !.ofertas = os]
<1>1. s \in Store /\ s.retiradas = store[n].retiradas /\ s.obras = store[n].obras
  BY OtrasOfertas, DeUnNodo
<1>2. respuestas \in [Ofertas -> Seq(Contratistas \X Garantias)]
  BY DEF IInv, Tipos
<1>3. /\ s.retiradas \subseteq Vistas /\ Cardinality(s.retiradas) <= MaxRetiradas
      /\ \A o \in Ofertas : Respondida(s.obras[o], respuestas'[o])
  BY <1>1, DeUnNodo
<1> HIDE DEF s
<1>4. Cambia(n, s)
  BY DEF s
<1> QED
  BY <1>1, <1>2, <1>3, <1>4, CambiaBien

LEMMA PublicarBien ==
  ASSUME IInv, NEW o \in Ofertas, Publicar(o)
  PROVE  IInv'
<1> DEFINE os == store[Mandante].ofertas \cup {o}
<1>1. Mandante \in Nodos
  BY DEF Nodos
<1>2. store[Mandante] \in Store
  BY <1>1, DeUnNodo
<1>3. os \in SUBSET Ofertas
  BY <1>2 DEF Store
<1>4. Cambia(Mandante, [store[Mandante] EXCEPT !.ofertas = os])
  BY DEF Publicar
<1>5. publicadas' \subseteq Ofertas /\ disco' = disco /\ fecha' = fecha /\ respuestas' = respuestas
  BY DEF Publicar, historia, IInv, Tipos
<1> HIDE DEF os
<1> QED
  BY <1>1, <1>3, <1>4, <1>5, SoloOfertas

LEMMA OyeOfertasBien ==
  ASSUME IInv, NEW n \in Nodos, NEW m \in Nodos, OyeOfertas(n, m)
  PROVE  IInv'
<1> DEFINE os == sin_retiradas(store[n].ofertas \cup store[m].ofertas, store[n].retiradas)
<1>1. os \in SUBSET Ofertas
  BY DeUnNodo DEF Store, sin_retiradas
<1>2. Cambia(n, [store[n] EXCEPT !.ofertas = os])
  BY DEF OyeOfertas, Oye, FusionarOfertas
<1>3. publicadas' \subseteq Ofertas /\ disco' = disco /\ fecha' = fecha /\ respuestas' = respuestas
  BY DEF OyeOfertas, Oye, historia, IInv, Tipos
<1> HIDE DEF os
<1> QED
  BY <1>1, <1>2, <1>3, SoloOfertas

(* The list of withdrawals of another arrives.                             *)
LEMMA OyeRetiradasBien ==
  ASSUME IInv, NEW n \in Nodos, NEW m \in Nodos, OyeRetiradas(n, m)
  PROVE  IInv'
<1> DEFINE rs == store[m].retiradas
           s == FusionarRetiradas(store[n], rs)
<1>1. /\ store[n] \in Store /\ rs \subseteq Vistas /\ rs \in SUBSET Retiro
      /\ store[n].retiradas \subseteq Vistas
  BY DeUnNodo
<1>2. Distintas(store[n].retiradas \cup rs)
  BY <1>1 DEF IInv, Fechas, Distintas
<1> HIDE DEF rs
<1>3. /\ s \in Store /\ s.obras = store[n].obras
      /\ s.retiradas \subseteq store[n].retiradas \cup rs
      /\ Cardinality(s.retiradas) <= MaxRetiradas
  BY <1>1, <1>2, FusionarRetiradasBien
<1>4. s.retiradas \subseteq Vistas
  BY <1>1, <1>3
<1>5. Cambia(n, s) /\ disco' = disco /\ fecha' = fecha /\ publicadas' = publicadas /\ respuestas' = respuestas
  BY DEF OyeRetiradas, Oye, historia, rs
<1>6. /\ publicadas \subseteq Ofertas
      /\ respuestas \in [Ofertas -> Seq(Contratistas \X Garantias)]
  BY DEF IInv, Tipos
<1>7. \A o \in Ofertas : Respondida(s.obras[o], respuestas'[o])
  BY <1>3, <1>5, DeUnNodo
<1> HIDE DEF s
<1> QED
  BY <1>3, <1>4, <1>5, <1>6, <1>7, CambiaBien

(* The deals of a store change.                                            *)
LEMMA SoloObras ==
  ASSUME IInv, NEW n \in Nodos, NEW os,
         \A o \in Ofertas : Respondida(os[o], respuestas[o]), os \in [Ofertas -> Obra \cup {Nada}],
         NEW bs \in SUBSET Ofertas,
         Cambia(n, [store[n] EXCEPT !.obras = os, !.ofertas = bs]),
         disco' = disco, fecha' = fecha, publicadas' = publicadas, respuestas' = respuestas
  PROVE  IInv'
<1> DEFINE s == [store[n] EXCEPT !.obras = os, !.ofertas = bs]
<1>1. s \in Store /\ s.retiradas = store[n].retiradas /\ s.obras = os
  BY DeUnNodo DEF Store
<1>2. publicadas \subseteq Ofertas /\ respuestas \in [Ofertas -> Seq(Contratistas \X Garantias)]
  BY DEF IInv, Tipos
<1>3. /\ s.retiradas \subseteq Vistas /\ Cardinality(s.retiradas) <= MaxRetiradas
      /\ \A o \in Ofertas : Respondida(s.obras[o], respuestas'[o])
  BY <1>1, DeUnNodo
<1> HIDE DEF s
<1>4. Cambia(n, s)
  BY DEF s
<1> QED
  BY <1>1, <1>2, <1>3, <1>4, CambiaBien

LEMMA OyeObrasBien ==
  ASSUME IInv, NEW n \in Nodos, NEW m \in Nodos, OyeObras(n, m)
  PROVE  IInv'
<1> DEFINE os == [o \in Ofertas |-> Fusionar(store[n].obras[o], store[m].obras[o])]
<1>0. store[n] \in Store /\ store[m] \in Store
  BY DeUnNodo
<1>1. \A o \in Ofertas : Respondida(os[o], respuestas[o])
  BY DeUnNodo, FusionarRespondida
<1>2. os \in [Ofertas -> Obra \cup {Nada}]
  BY <1>1 DEF Respondida
<1>3. Cambia(n, [store[n] EXCEPT !.obras = os])
  BY DEF OyeObras, Oye, FusionarObras
<1>4. /\ store[n].ofertas \in SUBSET Ofertas
      /\ [store[n] EXCEPT !.obras = os] = [store[n] EXCEPT !.obras = os, !.ofertas = store[n].ofertas]
  BY <1>0 DEF Store
<1>5. publicadas' = publicadas /\ disco' = disco /\ fecha' = fecha /\ respuestas' = respuestas
  BY DEF OyeObras, Oye, historia
<1> HIDE DEF os
<1> QED
  BY <1>1, <1>2, <1>3, <1>4, <1>5, SoloObras

(* What an open counter of the client says was answered.                   *)
LEMMA LaContra ==
  ASSUME IInv, NEW o \in Ofertas, ContraAbierta(o)
  PROVE  LET x == store[Mandante].obras[o]
         IN  /\ x \in Obra /\ x # Nada
             /\ \E r \in Range(respuestas[o]) : r[1] = x.contratista
             /\ Con(respuestas[o], "propuesta")
<1>1. Mandante \in Nodos
  BY DEF Nodos
<1>2. Respondida(store[Mandante].obras[o], respuestas[o])
  BY <1>1, DeUnNodo
<1> QED
  BY <1>2 DEF Respondida, ContraAbierta

(* A copy with its state, its counter and its guarantee changed.           *)
LEMMA OtraCopia ==
  ASSUME NEW x \in Obra, NEW e \in Contra .. Acordada, NEW k \in BOOLEAN, NEW g \in Garantias
  PROVE  [x EXCEPT !.estado = e, !.contra = k, !.garantia = g] \in Obra
BY DEF Obra, Garantias

LEMMA ConfirmarContraBien ==
  ASSUME IInv, NEW o \in Ofertas, ConfirmarContra(o)
  PROVE  IInv'
<1> DEFINE s == store[Mandante]
           x == s.obras[o]
           no == FALSE
           y == [x EXCEPT !.estado = Acordada, !.contra = no, !.garantia = "propuesta"]
           os == [s.obras EXCEPT ![o] = y]
<1>0. Mandante \in Nodos
  BY DEF Nodos
<1>1. s \in Store
  BY <1>0, DeUnNodo
<1>2. ContraAbierta(o)
  BY DEF ConfirmarContra, Confirma
<1>3. /\ y \in Obra /\ y.contratista = x.contratista
      /\ y.estado = Acordada /\ y.garantia = "propuesta"
  <2>1. x \in Obra
    BY <1>2, LaContra
  <2>2. Acordada \in Contra .. Acordada /\ Rechazada \in Contra .. Acordada /\ no \in BOOLEAN
    BY DEF Contra, Acordada, Rechazada
  <2>3. "propuesta" \in Garantias /\ "publicada" \in Garantias
    BY DEF Garantias
  <2> HIDE DEF x, no
  <2>4. y \in Obra
    BY <2>1, <2>2, <2>3, OtraCopia
  <2> QED
    BY <2>1, <2>4 DEF Obra
<1> HIDE DEF y
<1>4. Respondida(y, respuestas[o])
  BY <1>2, <1>3, LaContra DEF Respondida, Contra, Acordada
<1>5. s.obras \in [Ofertas -> Obra \cup {Nada}] /\ s.ofertas \in SUBSET Ofertas
  BY <1>1 DEF Store
<1>6. os \in [Ofertas -> Obra \cup {Nada}] /\ \A p \in Ofertas : os[p] = IF p = o THEN y ELSE s.obras[p]
  BY <1>3, <1>5
<1>7. \A p \in Ofertas : Respondida(os[p], respuestas[p])
  BY <1>0, <1>4, <1>6, DeUnNodo
<1>8. Cambia(Mandante, [s EXCEPT !.obras = os])
  BY DEF ConfirmarContra, Confirma, y
<1> HIDE DEF os
<1>9. [s EXCEPT !.obras = os] = [s EXCEPT !.obras = os, !.ofertas = s.ofertas]
  BY <1>1 DEF Store
<1>10. disco' = disco /\ fecha' = fecha /\ publicadas' = publicadas /\ respuestas' = respuestas
  BY DEF ConfirmarContra, Confirma, historia
<1> QED
  BY <1>0, <1>5, <1>6, <1>7, <1>8, <1>9, <1>10, SoloObras

LEMMA RechazarContraBien ==
  ASSUME IInv, NEW o \in Ofertas, RechazarContra(o)
  PROVE  IInv'
<1> DEFINE s == store[Mandante]
           x == s.obras[o]
           no == FALSE
           y == [x EXCEPT !.estado = Rechazada, !.contra = no, !.garantia = "publicada"]
           os == [s.obras EXCEPT ![o] = y]
           bs == s.ofertas \cup {o}
<1>0. Mandante \in Nodos
  BY DEF Nodos
<1>1. s \in Store
  BY <1>0, DeUnNodo
<1>2. ContraAbierta(o)
  BY DEF RechazarContra
<1>3. /\ y \in Obra /\ y.contratista = x.contratista /\ y.estado = Rechazada
  <2>1. x \in Obra
    BY <1>2, LaContra
  <2>2. Acordada \in Contra .. Acordada /\ Rechazada \in Contra .. Acordada /\ no \in BOOLEAN
    BY DEF Contra, Acordada, Rechazada
  <2>3. "propuesta" \in Garantias /\ "publicada" \in Garantias
    BY DEF Garantias
  <2> HIDE DEF x, no
  <2>4. y \in Obra
    BY <2>1, <2>2, <2>3, OtraCopia
  <2> QED
    BY <2>1, <2>4 DEF Obra
<1> HIDE DEF y
<1>4. Respondida(y, respuestas[o])
  BY <1>2, <1>3, LaContra DEF Respondida, Contra, Acordada, Rechazada
<1>5. s.obras \in [Ofertas -> Obra \cup {Nada}] /\ bs \in SUBSET Ofertas
  BY <1>1 DEF Store
<1>6. os \in [Ofertas -> Obra \cup {Nada}] /\ \A p \in Ofertas : os[p] = IF p = o THEN y ELSE s.obras[p]
  BY <1>3, <1>5
<1>7. \A p \in Ofertas : Respondida(os[p], respuestas[p])
  BY <1>0, <1>4, <1>6, DeUnNodo
<1>8. Cambia(Mandante, [s EXCEPT !.obras = os, !.ofertas = bs])
  BY <1>1 DEF RechazarContra, y, Store
<1>9. disco' = disco /\ fecha' = fecha /\ publicadas' = publicadas /\ respuestas' = respuestas
  BY DEF RechazarContra, historia
<1> HIDE DEF os, bs
<1> QED
  BY <1>0, <1>5, <1>6, <1>7, <1>8, <1>9, SoloObras

(* The answer is remembered with the copy that says it.                    *)
LEMMA AceptarBien ==
  ASSUME IInv, NEW o \in Tratables, NEW n \in Responden, NEW c \in BOOLEAN, Aceptar(n, o, c)
  PROVE  IInv'
<1> DEFINE s == store[n]
           g == IF c THEN "propuesta" ELSE "publicada"
           x == [estado |-> IF c THEN Contra ELSE Acordada, contratista |-> n, garantia |-> g, contra |-> c]
           os == [s.obras EXCEPT ![o] = x]
           t == [s EXCEPT !.obras = os, !.ofertas = s.ofertas \ {o}]
           r == <<n, g>>
<1>0. o \in Ofertas /\ n \in Nodos /\ n \in Contratistas
  BY TableroAssumption DEF Nodos
<1>1. s \in Store
  BY <1>0, DeUnNodo
<1>2. x \in Obra
  BY <1>0 DEF Obra, Contra, Acordada
<1>3. respuestas \in [Ofertas -> Seq(Contratistas \X Garantias)] /\ publicadas \subseteq Ofertas
  BY DEF IInv, Tipos
<1>4. r \in Contratistas \X Garantias
  BY <1>0 DEF Garantias
<1>5. respuestas' = [respuestas EXCEPT ![o] = Append(@, r)]
  BY DEF Aceptar
<1>6. /\ x.contratista = r[1] /\ (x.estado = Acordada => x.garantia = r[2])
      /\ (x.estado = Contra => r[2] = "propuesta")
  BY DEF Contra, Acordada
<1> HIDE DEF r, x
<1>7. respuestas' \in [Ofertas -> Seq(Contratistas \X Garantias)]
  BY <1>0, <1>3, <1>4, <1>5
<1>8. \A p \in Ofertas : Range(respuestas[p]) \subseteq Range(respuestas'[p])
  <2> SUFFICES ASSUME NEW p \in Ofertas, NEW i \in DOMAIN respuestas[p]
               PROVE  i \in DOMAIN respuestas'[p] /\ respuestas'[p][i] = respuestas[p][i]
    BY DEF Range
  <2> DEFINE q == respuestas[p]
  <2>1. q \in Seq(Contratistas \X Garantias) /\ (respuestas'[p] = q \/ respuestas'[p] = Append(q, r))
    BY <1>3, <1>5
  <2> HIDE DEF q
  <2>2. i \in DOMAIN q
    BY DEF q
  <2>3. i \in DOMAIN Append(q, r) /\ Append(q, r)[i] = q[i]
    BY <1>4, <2>1, <2>2
  <2> QED
    BY <2>1, <2>2, <2>3 DEF q
<1>9. r \in Range(respuestas'[o])
  <2> DEFINE q == respuestas[o]
  <2>1. q \in Seq(Contratistas \X Garantias) /\ respuestas'[o] = Append(q, r)
    BY <1>0, <1>3, <1>5
  <2> HIDE DEF q
  <2>2. Len(q) + 1 \in DOMAIN Append(q, r) /\ Append(q, r)[Len(q) + 1] = r
    BY <1>4, <2>1
  <2> QED
    BY <2>1, <2>2 DEF Range
<1>10. Respondida(x, respuestas'[o])
  BY <1>2, <1>6, <1>9 DEF Respondida, Con
<1>11. s.obras \in [Ofertas -> Obra \cup {Nada}]
  BY <1>1 DEF Store
<1>12. os \in [Ofertas -> Obra \cup {Nada}] /\ \A p \in Ofertas : os[p] = IF p = o THEN x ELSE s.obras[p]
  BY <1>2, <1>11
<1>13. \A p \in Ofertas : Respondida(s.obras[p], respuestas'[p])
  BY <1>0, <1>8, DeUnNodo, RespondidaQueda
<1>14. \A p \in Ofertas : Respondida(os[p], respuestas'[p])
  BY <1>10, <1>12, <1>13
<1>15. Cambia(n, t)
  BY <1>1 DEF Aceptar, x, Store
<1> HIDE DEF os
<1>16. t \in Store /\ t.retiradas = s.retiradas /\ t.obras = os
  BY <1>1, <1>12 DEF Store
<1>17. t.retiradas \subseteq Vistas /\ Cardinality(t.retiradas) <= MaxRetiradas
  BY <1>0, <1>16, DeUnNodo
<1>18. disco' = disco /\ fecha' = fecha /\ publicadas' = publicadas
  BY DEF Aceptar, historia
<1>19. \A p \in Ofertas : Respondida(t.obras[p], respuestas'[p])
  BY <1>14, <1>16
<1> HIDE DEF t
<1> QED
  BY <1>0, <1>3, <1>7, <1>8, <1>15, <1>16, <1>17, <1>18, <1>19, CambiaBien

(* A withdrawal has a date of its own.                                     *)
LEMMA RetirarBien ==
  ASSUME IInv, NEW o \in Ofertas, Retirar(o)
  PROVE  IInv'
<1> DEFINE r == [oferta |-> o, cuando |-> fecha + 1]
           s == FusionarRetiradas(store[Mandante], {r})
<1>0. Mandante \in Nodos /\ fecha \in 0 .. MaxRetiros /\ fecha < MaxRetiros /\ MaxRetiros \in Nat
  BY TableroAssumption DEF Nodos, IInv, Tipos, Retirar
<1>1. r \in Retiro /\ r.cuando = fecha + 1
  BY <1>0 DEF Retiro
<1>2. store[Mandante] \in Store /\ Vistas \subseteq Retiro /\ store[Mandante].retiradas \subseteq Vistas
  BY <1>0, DeUnNodo
<1>3. Distintas(Vistas) /\ \A x \in Vistas : x.cuando <= fecha /\ x.cuando \in Nat
  BY <1>2 DEF IInv, Fechas, Retiro
<1> HIDE DEF r
<1>4. Distintas(Vistas \cup {r})
  <2> SUFFICES ASSUME NEW x \in Vistas \cup {r}, NEW y \in Vistas \cup {r}, x.cuando = y.cuando
               PROVE  x = y
    BY DEF Distintas
  <2>1. CASE x \in Vistas /\ y \in Vistas
    BY <1>3, <2>1 DEF Distintas
  <2>2. CASE x = r /\ y = r
    BY <2>2
  <2>3. CASE x = r /\ y \in Vistas
    BY <1>0, <1>1, <1>3, <2>3
  <2>4. CASE y = r /\ x \in Vistas
    BY <1>0, <1>1, <1>3, <2>4
  <2> QED
    BY <2>1, <2>2, <2>3, <2>4
<1>5. Distintas(store[Mandante].retiradas \cup {r})
  BY <1>2, <1>4 DEF Distintas
<1>6. /\ s \in Store /\ s.obras = store[Mandante].obras
      /\ s.retiradas \subseteq store[Mandante].retiradas \cup {r}
      /\ Cardinality(s.retiradas) <= MaxRetiradas
  BY <1>1, <1>2, <1>5, FusionarRetiradasBien
<1>7. Cambia(Mandante, s) /\ disco' = disco /\ fecha' = fecha + 1 /\ publicadas' = publicadas /\ respuestas' = respuestas
  BY DEF Retirar, r
<1> HIDE DEF s
<1>8. \A m \in Nodos : store'[m] = IF m = Mandante THEN s ELSE store[m]
  BY <1>7 DEF Cambia, IInv, Tipos
<1>9. Tipos'
  BY <1>0, <1>6, <1>7 DEF Tipos, IInv, Cambia
<1>10. Vistas' \subseteq Vistas \cup {r}
  <2> SUFFICES ASSUME NEW m \in Nodos
               PROVE  store'[m].retiradas \cup disco'[m].retiradas \subseteq Vistas \cup {r}
    BY DEF Vistas
  <2>1. store[m].retiradas \cup disco[m].retiradas \subseteq Vistas
    BY DEF Vistas
  <2> QED
    BY <1>2, <1>6, <1>7, <1>8, <2>1
<1>11. Fechas'
  <2>1. Distintas(Vistas)'
    BY <1>4, <1>10 DEF Distintas
  <2>2. \A x \in Vistas' : x.cuando <= fecha'
    BY <1>0, <1>1, <1>3, <1>7, <1>10
  <2> QED
    BY <2>1, <2>2 DEF Fechas
<1>12. Respondidas'
  BY <1>0, <1>6, <1>7, <1>8 DEF IInv, Respondidas
<1>13. Cabidas'
  BY <1>6, <1>8 DEF IInv, Cabidas
<1> QED
  BY <1>9, <1>11, <1>12, <1>13 DEF IInv

(* What is saved is what the list shows.                                   *)
LEMMA GuardaBien ==
  ASSUME IInv, NEW n \in Nodos, Guarda(n)
  PROVE  IInv'
<1> DEFINE g == Guardado(store[n])
<1>1. g \in Store /\ g.retiradas = store[n].retiradas /\ g.obras = store[n].obras
  <2>1. tablero(store[n]) \in SUBSET Ofertas
    BY DeUnNodo DEF tablero, sin_retiradas, Store
  <2> QED
    BY <2>1, OtrasOfertas, DeUnNodo DEF Guardado
<1>2. /\ store' = store /\ disco' = [disco EXCEPT ![n] = g] /\ fecha' = fecha
      /\ publicadas' = publicadas /\ respuestas' = respuestas
  BY DEF Guarda
<1> HIDE DEF g
<1>3. \A m \in Nodos : disco'[m] = IF m = n THEN g ELSE disco[m]
  BY <1>2 DEF IInv, Tipos
<1>4. Tipos'
  BY <1>1, <1>2 DEF IInv, Tipos
<1>5. Vistas' \subseteq Vistas
  BY <1>1, <1>2, <1>3 DEF Vistas
<1>6. Fechas'
  BY <1>2, <1>5 DEF IInv, Fechas, Distintas
<1>7. Respondidas'
  BY <1>1, <1>2, <1>3 DEF IInv, Respondidas
<1>8. Cabidas'
  BY <1>2 DEF IInv, Cabidas
<1> QED
  BY <1>4, <1>6, <1>7, <1>8 DEF IInv

(* A node that starts again has what it had saved.                         *)
LEMMA CaidaBien ==
  ASSUME IInv, NEW n \in Nodos, Caida(n)
  PROVE  IInv'
<1> DEFINE d == disco[n]
           v == FusionarRetiradas(Vacio, d.retiradas)
           bs == sin_retiradas(d.ofertas, d.retiradas)
           s == [v EXCEPT !.ofertas = bs, !.obras = d.obras]
<1>1. d \in Store /\ d.retiradas \subseteq Vistas /\ d.retiradas \in SUBSET Retiro
  BY DeUnNodo
<1>2. Vacio \in Store /\ Vacio.retiradas = {}
  BY VacioStore DEF Vacio
<1>3. Distintas(Vacio.retiradas \cup d.retiradas)
  BY <1>1, <1>2 DEF IInv, Fechas, Distintas
<1>4. v \in Store /\ v.retiradas \subseteq d.retiradas /\ Cardinality(v.retiradas) <= MaxRetiradas
  BY <1>1, <1>2, <1>3, FusionarRetiradasBien
<1>5. bs \in SUBSET Ofertas /\ d.obras \in [Ofertas -> Obra \cup {Nada}]
  BY <1>1 DEF Store, sin_retiradas
<1>6. Cambia(n, s)
  BY DEF Caida
<1> HIDE DEF v, bs
<1>7. s \in Store /\ s.retiradas = v.retiradas /\ s.obras = d.obras
  BY <1>4, <1>5 DEF Store
<1>8. disco' = disco /\ fecha' = fecha /\ publicadas' = publicadas /\ respuestas' = respuestas
  BY DEF Caida
<1>9. publicadas \subseteq Ofertas /\ respuestas \in [Ofertas -> Seq(Contratistas \X Garantias)]
  BY DEF IInv, Tipos
<1>10. \A o \in Ofertas : Respondida(s.obras[o], respuestas'[o])
  BY <1>7, <1>8, DeUnNodo
<1>11. s.retiradas \subseteq Vistas /\ Cardinality(s.retiradas) <= MaxRetiradas
  BY <1>1, <1>4, <1>7
<1> HIDE DEF s, d
<1> QED
  BY <1>6, <1>7, <1>8, <1>9, <1>10, <1>11, CambiaBien

-----------------------------------------------------------------------------
(* The inductive invariant of the board.                                   *)
THEOREM Invariante == Spec => []IInv
<1>1. Init => IInv
  BY EmpiezaBien
<1>2. IInv /\ [Next]_vars => IInv'
  <2> SUFFICES ASSUME IInv, [Next]_vars
               PROVE  IInv'
    OBVIOUS
  <2>1. CASE UNCHANGED vars
    <3>1. /\ store' = store /\ disco' = disco /\ fecha' = fecha /\ publicadas' = publicadas
          /\ respuestas' = respuestas
      BY <2>1 DEF vars, historia
    <3> QED
      BY <3>1 DEF IInv, Tipos, Fechas, Vistas, Distintas, Respondidas, Cabidas
  <2>2. CASE \E o \in Ofertas : Publicar(o) \/ Retirar(o) \/ ConfirmarContra(o) \/ RechazarContra(o)
    BY <2>2, PublicarBien, RetirarBien, ConfirmarContraBien, RechazarContraBien
  <2>3. CASE \E o \in Tratables, n \in Responden, c \in BOOLEAN : Aceptar(n, o, c)
    BY <2>3, AceptarBien
  <2>4. CASE \E n \in Caen : Guarda(n) \/ Caida(n)
    BY <2>4, GuardaBien, CaidaBien, TableroAssumption
  <2>5. CASE \E n \in Nodos : \E m \in Nodos \ {n} : OyeOfertas(n, m) \/ OyeRetiradas(n, m) \/ OyeObras(n, m)
    BY <2>5, OyeOfertasBien, OyeRetiradasBien, OyeObrasBien
  <2> QED
    BY <2>1, <2>2, <2>3, <2>4, <2>5 DEF Next
<1> QED
  BY <1>1, <1>2, PTL DEF Spec

(* The types of the stores, in memory and saved, and the limit of the list *)
(* of withdrawals, which no merge nor restart exceeds (merge_store,        *)
(* fijar_retiradas).                                                       *)
THEOREM TiposCorrectos == Spec => []TypeOK
<1>1. IInv => TypeOK
  BY DEF IInv, Tipos, Cabidas, TypeOK
<1> QED
  BY <1>1, Invariante, PTL

(* Those who answered an offer are finitely many.                          *)
LEMMA QuienesFinito ==
  ASSUME NEW o \in Ofertas, respuestas[o] \in Seq(Contratistas \X Garantias)
  PROVE  IsFiniteSet(Quienes(o))
<1> DEFINE q == respuestas[o]
           f == [i \in 1 .. Len(q) |-> q[i][1]]
<1>1. DOMAIN q = 1 .. Len(q) /\ Len(q) \in Nat
  OBVIOUS
<1>2. f \in Surjection(1 .. Len(q), Quienes(o))
  BY <1>1 DEF Surjection, Quienes, Range
<1>3. IsFiniteSet(1 .. Len(q))
  BY <1>1, FS_Interval
<1> HIDE DEF f, q
<1> QED
  BY <1>2, <1>3, FS_Surjection

(* While one contractor answered an offer, a deal agreed on says of him a  *)
(* guarantee that he answered with, at every node and after any messages,  *)
(* rejections, withdrawals and restarts (aceptar_oferta, confirmar_contra, *)
(* Obra::fusionar).                                                        *)
THEOREM ConsintioElUnico == Spec => []UnoConsintio
<1>1. IInv => UnoConsintio
  <2> SUFFICES ASSUME IInv, NEW n \in Nodos, NEW o \in Ofertas, Cardinality(Quienes(o)) <= 1,
                      store[n].obras[o] # Nada, store[n].obras[o].estado = Acordada
               PROVE  <<store[n].obras[o].contratista, store[n].obras[o].garantia>> \in Range(respuestas[o])
    BY DEF UnoConsintio, Consintio
  <2> DEFINE x == store[n].obras[o]
  <2>1. Respondida(x, respuestas[o])
    BY DeUnNodo
  <2>2. PICK r \in Range(respuestas[o]) : r[2] = x.garantia
    BY <2>1 DEF Respondida, Con
  <2>3. PICK q \in Range(respuestas[o]) : q[1] = x.contratista
    BY <2>1 DEF Respondida
  <2>4. respuestas[o] \in Seq(Contratistas \X Garantias)
    BY DEF IInv, Tipos
  <2>5. r \in Contratistas \X Garantias
    BY <2>4 DEF Range
  <2>6. r[1] \in Quienes(o) /\ q[1] \in Quienes(o)
    BY DEF Quienes
  <2>7. r[1] = q[1]
    <3> SUFFICES ASSUME r[1] # q[1] PROVE FALSE
      OBVIOUS
    <3>1. IsFiniteSet(Quienes(o))
      BY <2>4, QuienesFinito
    <3> DEFINE Q == Quienes(o)
    <3> HIDE DEF Q
    <3>2. IsFiniteSet(Q) /\ r[1] \in Q /\ q[1] \in Q \ {r[1]}
      BY <2>6, <3>1 DEF Q
    <3>3. IsFiniteSet(Q \ {r[1]}) /\ Cardinality(Q \ {r[1]}) = Cardinality(Q) - 1
      BY <3>2, FS_RemoveElement
    <3>4. Cardinality(Q \ {r[1]}) # 0
      BY <3>2, <3>3, FS_EmptySet
    <3>5. Cardinality(Q) \in Nat /\ Cardinality(Q \ {r[1]}) \in Nat /\ Cardinality(Q) <= 1
      BY <3>2, <3>3, FS_CardinalityType DEF Q
    <3> QED
      BY <3>3, <3>4, <3>5
  <2> QED
    BY <2>2, <2>3, <2>5, <2>7
<1> QED
  BY <1>1, Invariante, PTL


-----------------------------------------------------------------------------
(* A withdrawal that was saved.                                            *)
(*                                                                         *)
(* For which the list has room until no more are made, as in Firme.        *)
Reciente(r) == r.cuando + MaxRetiradas > MaxRetiros

RInv ==
  /\ \A r \in firmes : Reciente(r) => r \in store[Mandante].retiradas /\ r \in disco[Mandante].retiradas
  /\ \A r \in sueltos : Reciente(r) => r \in store[Mandante].retiradas

(* The latest ones have it: there are fewer later dates than room.         *)
LEMMA UltimasGuardan ==
  ASSUME NEW rs \in SUBSET Retiro, Distintas(rs), NEW r \in rs, Reciente(r)
  PROVE  r \in Ultimas(rs)
<1> DEFINE P == {x \in rs : x.cuando > r.cuando}
           T == r.cuando + 1 .. MaxRetiros
           f == [x \in P |-> x.cuando]
<1>0. /\ r.cuando \in 1 .. MaxRetiros /\ MaxRetiros \in Nat /\ MaxRetiradas \in Nat \ {0}
      /\ \A x \in rs : x.cuando \in 1 .. MaxRetiros
  BY TableroAssumption DEF Retiro
<1>1. f \in [P -> T]
  BY <1>0
<1>2. f \in Injection(P, T)
  BY <1>1 DEF Injection, IsInjective, Distintas
<1> HIDE DEF f, P
<1>3. IsFiniteSet(T) /\ Cardinality(T) <= MaxRetiros - r.cuando
  <2> DEFINE d == r.cuando + 1
  <2>1. d \in Int /\ MaxRetiros \in Int
    BY <1>0
  <2> HIDE DEF d
  <2>2. /\ IsFiniteSet(d .. MaxRetiros)
        /\ Cardinality(d .. MaxRetiros) = IF d > MaxRetiros THEN 0 ELSE MaxRetiros - d + 1
    BY <2>1, FS_Interval
  <2>3. T = d .. MaxRetiros
    BY DEF d
  <2>4. (IF d > MaxRetiros THEN 0 ELSE MaxRetiros - d + 1) <= MaxRetiros - r.cuando
    BY <1>0 DEF d
  <2> QED
    BY <2>2, <2>3, <2>4
<1> HIDE DEF T
<1>4. IsFiniteSet(P) /\ Cardinality(P) <= Cardinality(T)
  BY <1>2, <1>3, FS_Injection
<1>5. Cardinality(P) \in Nat /\ Cardinality(T) \in Nat
  BY <1>3, <1>4, FS_CardinalityType
<1>6. Cardinality(P) < MaxRetiradas
  BY <1>0, <1>3, <1>4, <1>5 DEF Reciente
<1> QED
  BY <1>6 DEF Ultimas, P

(* And so has a list merged with another, of what it had and of offers it  *)
(* had no withdrawal of.                                                   *)
LEMMA FusionGuarda ==
  ASSUME NEW s \in Store, NEW rs \in SUBSET Retiro, Distintas(s.retiradas \cup rs), NEW r, Reciente(r),
         r \in s.retiradas \/ (r \in rs /\ r.oferta \notin Retiradas(s.retiradas))
  PROVE  r \in FusionarRetiradas(s, rs).retiradas
<1> DEFINE nuevas == {x \in rs : x.oferta \notin Retiradas(s.retiradas)}
           todas == Ultimas(s.retiradas \cup nuevas)
<1>1. s.retiradas \in SUBSET Retiro
  BY DEF Store
<1>2. s.retiradas \cup nuevas \in SUBSET Retiro /\ r \in s.retiradas \cup nuevas
  BY <1>1
<1>3. Distintas(s.retiradas \cup nuevas)
  BY DEF Distintas
<1>4. r \in todas
  BY <1>2, <1>3, UltimasGuardan
<1>5. FusionarRetiradas(s, rs) = [s EXCEPT !.retiradas = todas, !.ofertas = sin_retiradas(@, todas)]
  BY DEF FusionarRetiradas
<1> HIDE DEF nuevas, todas
<1>6. FusionarRetiradas(s, rs).retiradas = todas
  BY <1>5 DEF Store
<1> QED
  BY <1>4, <1>6

(* Steps that add no withdrawal, and leave those of the principal.         *)
RetirosIguales ==
  /\ UNCHANGED <<firmes, sueltos>> /\ disco'[Mandante].retiradas = disco[Mandante].retiradas
  /\ store'[Mandante].retiradas = store[Mandante].retiradas

LEMMA RetirosQuedan == RInv /\ RetirosIguales => RInv'
  BY DEF RInv, RetirosIguales, Reciente

(* The store of a node changes, with the withdrawals it had.               *)
LEMMA CambiaSinRetiros ==
  ASSUME IInv, RInv, NEW n \in Nodos, NEW s, s.retiradas = store[n].retiradas,
         Cambia(n, s), UNCHANGED <<disco, firmes, sueltos>>
  PROVE  RInv'
<1>1. store'[Mandante].retiradas = store[Mandante].retiradas
  BY DEF Cambia, IInv, Tipos, Nodos
<1> QED
  BY <1>1, RetirosQuedan DEF RetirosIguales

LEMMA SaleDeTablero ==
  ASSUME IInv, RInv, NEW o \in Ofertas,
         Publicar(o) \/ ConfirmarContra(o) \/ RechazarContra(o)
  PROVE  RInv'
<1>0. Mandante \in Nodos /\ store[Mandante] \in Store
  BY DeUnNodo DEF Nodos
<1>1. ASSUME NEW os, NEW bs
      PROVE  /\ [store[Mandante] EXCEPT !.ofertas = os].retiradas = store[Mandante].retiradas
             /\ [store[Mandante] EXCEPT !.obras = bs].retiradas = store[Mandante].retiradas
             /\ [store[Mandante] EXCEPT !.obras = bs, !.ofertas = os].retiradas = store[Mandante].retiradas
             /\ [store[Mandante] EXCEPT !.obras[o] = bs].retiradas = store[Mandante].retiradas
             /\ [store[Mandante] EXCEPT !.obras[o] = bs, !.ofertas = os].retiradas = store[Mandante].retiradas
  BY <1>0 DEF Store
<1>2. CASE Publicar(o)
  <2>1. Cambia(Mandante, [store[Mandante] EXCEPT !.ofertas = @ \cup {o}]) /\ UNCHANGED <<disco, firmes, sueltos>>
    BY <1>2 DEF Publicar, historia
  <2> QED
    BY <1>0, <1>1, <2>1, CambiaSinRetiros
<1>3. CASE ConfirmarContra(o)
  <2> DEFINE x == [store[Mandante].obras[o] EXCEPT !.estado = Acordada, !.contra = FALSE, !.garantia = "propuesta"]
  <2>1. Cambia(Mandante, [store[Mandante] EXCEPT !.obras[o] = x]) /\ UNCHANGED <<disco, firmes, sueltos>>
    BY <1>3 DEF ConfirmarContra, Confirma, historia
  <2> HIDE DEF x
  <2> QED
    BY <1>0, <1>1, <2>1, CambiaSinRetiros
<1>4. CASE RechazarContra(o)
  <2> DEFINE x == [store[Mandante].obras[o] EXCEPT !.estado = Rechazada, !.contra = FALSE, !.garantia = "publicada"]
  <2>1. /\ Cambia(Mandante, [store[Mandante] EXCEPT !.obras[o] = x, !.ofertas = @ \cup {o}])
        /\ UNCHANGED <<disco, firmes, sueltos>>
    BY <1>4 DEF RechazarContra, historia
  <2> HIDE DEF x
  <2> QED
    BY <1>0, <1>1, <2>1, CambiaSinRetiros
<1> QED
  BY <1>2, <1>3, <1>4

LEMMA AceptarGuarda ==
  ASSUME IInv, RInv, NEW n \in Nodos, NEW o \in Ofertas, NEW c \in BOOLEAN, Aceptar(n, o, c)
  PROVE  RInv'
<1>0. store[n] \in Store
  BY DeUnNodo
<1>1. PICK x : Cambia(n, [store[n] EXCEPT !.obras[o] = x, !.ofertas = @ \ {o}])
  BY DEF Aceptar
<1>2. [store[n] EXCEPT !.obras[o] = x, !.ofertas = @ \ {o}].retiradas = store[n].retiradas
  BY <1>0 DEF Store
<1>3. UNCHANGED <<disco, firmes, sueltos>>
  BY DEF Aceptar, historia
<1> QED
  BY <1>1, <1>2, <1>3, CambiaSinRetiros

(* A withdrawal: the principal's list had none of that offer.              *)
LEMMA RetirarGuarda ==
  ASSUME IInv, RInv, NEW o \in Ofertas, Retirar(o)
  PROVE  RInv'
<1> DEFINE s == store[Mandante]
           r == [oferta |-> o, cuando |-> fecha + 1]
<1>0. Mandante \in Nodos /\ s \in Store /\ s.retiradas \subseteq Vistas
  BY DeUnNodo DEF Nodos
<1>1. r \in Retiro /\ o \notin Retiradas(s.retiradas)
  <2>1. fecha + 1 \in 1 .. MaxRetiros
    BY TableroAssumption DEF Retirar, IInv, Tipos
  <2>2. o \notin Retiradas(s.retiradas)
    BY DEF Retirar, tablero, sin_retiradas
  <2> QED
    BY <2>1, <2>2 DEF Retiro
<1>2. Distintas(s.retiradas \cup {r})
  <2>1. \A x \in s.retiradas : x.cuando # r.cuando
    <3> SUFFICES ASSUME NEW x \in s.retiradas PROVE x.cuando # r.cuando
      OBVIOUS
    <3>1. x.cuando <= fecha /\ fecha \in Nat
      BY <1>0 DEF IInv, Fechas, Tipos
    <3>2. x.cuando \in Nat
      BY <1>0 DEF Store, Retiro
    <3> QED
      BY <3>1, <3>2
  <2>2. \A x, y \in s.retiradas : y.cuando = x.cuando => x = y
    BY <1>0 DEF IInv, Fechas, Distintas
  <2> HIDE DEF r
  <2> QED
    BY <2>1, <2>2 DEF Distintas
<1>3. /\ store'[Mandante] = FusionarRetiradas(s, {r}) /\ disco' = disco
      /\ firmes' = firmes /\ sueltos' = sueltos \cup {r}
  BY <1>0 DEF Retirar, Cambia, IInv, Tipos
<1>4. r.oferta = o
  OBVIOUS
<1> HIDE DEF r, s
<1>5. \A x : Reciente(x) /\ (x \in s.retiradas \/ x = r) => x \in FusionarRetiradas(s, {r}).retiradas
  BY <1>0, <1>1, <1>2, <1>4, FusionGuarda
<1>6. \A x \in firmes \cup sueltos : Reciente(x) => x \in s.retiradas
  BY DEF RInv, s
<1>7. \A x \in firmes : Reciente(x) => x \in disco[Mandante].retiradas
  BY DEF RInv
<1> QED
  BY <1>3, <1>5, <1>6, <1>7 DEF RInv, Reciente

LEMMA OyeRetiradasGuarda ==
  ASSUME IInv, RInv, NEW n \in Nodos, NEW m \in Nodos, OyeRetiradas(n, m)
  PROVE  RInv'
<1>1. /\ store[n] \in Store /\ store[m].retiradas \in SUBSET Retiro
      /\ store[n].retiradas \subseteq Vistas /\ store[m].retiradas \subseteq Vistas
  BY DeUnNodo
<1>2. Distintas(store[n].retiradas \cup store[m].retiradas)
  BY <1>1 DEF IInv, Fechas, Distintas
<1>3. /\ store' = [store EXCEPT ![n] = FusionarRetiradas(store[n], store[m].retiradas)]
      /\ UNCHANGED <<disco, firmes, sueltos>>
  BY DEF OyeRetiradas, Oye, Cambia, historia
<1>4. Mandante \in Nodos /\ store \in [Nodos -> Store]
  BY DEF Nodos, IInv, Tipos
<1>5. \A r \in store[Mandante].retiradas : Reciente(r) => r \in store'[Mandante].retiradas
  <2>1. CASE n = Mandante
    BY <1>1, <1>2, <1>3, <1>4, <2>1, FusionGuarda
  <2>2. CASE n # Mandante
    BY <1>3, <1>4, <2>2
  <2> QED
    BY <2>1, <2>2
<1> QED
  BY <1>3, <1>5 DEF RInv, Reciente

LEMMA OyeLoDemas ==
  ASSUME IInv, RInv, NEW n \in Nodos, NEW m \in Nodos, OyeOfertas(n, m) \/ OyeObras(n, m)
  PROVE  RInv'
<1>0. store[n] \in Store
  BY DeUnNodo
<1>1. PICK os, bs : \/ Cambia(n, [store[n] EXCEPT !.ofertas = os])
                    \/ Cambia(n, [store[n] EXCEPT !.obras = bs])
  BY DEF OyeOfertas, OyeObras, Oye, FusionarOfertas, FusionarObras
<1>2. /\ [store[n] EXCEPT !.ofertas = os].retiradas = store[n].retiradas
      /\ [store[n] EXCEPT !.obras = bs].retiradas = store[n].retiradas
  BY <1>0 DEF Store
<1>3. UNCHANGED <<disco, firmes, sueltos>>
  BY DEF OyeOfertas, OyeObras, Oye, historia
<1> QED
  BY <1>1, <1>2, <1>3, CambiaSinRetiros

(* What is saved has the list of memory.                                   *)
LEMMA GuardaGuarda ==
  ASSUME IInv, RInv, NEW n \in Nodos, Guarda(n)
  PROVE  RInv'
<1>0. Mandante \in Nodos /\ disco \in [Nodos -> Store] /\ store[n] \in Store
  BY DeUnNodo DEF Nodos, IInv, Tipos
<1>1. /\ disco' = [disco EXCEPT ![n] = Guardado(store[n])] /\ store' = store
      /\ firmes' = firmes \cup {r \in sueltos : n = Mandante}
      /\ sueltos' = {r \in sueltos : n # Mandante}
  BY DEF Guarda
<1>2. Guardado(store[n]).retiradas = store[n].retiradas
  BY <1>0 DEF Guardado, Store
<1>3. CASE n = Mandante
  <2>1. disco'[Mandante].retiradas = store[Mandante].retiradas
    BY <1>0, <1>1, <1>2, <1>3
  <2> QED
    BY <1>1, <1>3, <2>1 DEF RInv, Reciente
<1>4. CASE n # Mandante
  <2>1. disco'[Mandante] = disco[Mandante]
    BY <1>0, <1>1, <1>4
  <2> QED
    BY <1>1, <1>4, <2>1 DEF RInv, Reciente
<1> QED
  BY <1>3, <1>4

(* A node starts with the list that it saved.                              *)
LEMMA CaidaGuarda ==
  ASSUME IInv, RInv, NEW n \in Nodos, Caida(n)
  PROVE  RInv'
<1> DEFINE rs == disco[n].retiradas
           v == FusionarRetiradas(Vacio, rs)
<1>0. /\ Mandante \in Nodos /\ store \in [Nodos -> Store] /\ disco[n] \in Store
      /\ rs \in SUBSET Retiro /\ rs \subseteq Vistas
  BY DeUnNodo DEF Nodos, IInv, Tipos, Store
<1>1. Vacio \in Store /\ Vacio.retiradas = {} /\ Retiradas(Vacio.retiradas) = {}
  BY VacioStore DEF Vacio, Retiradas
<1>2. Distintas(Vacio.retiradas \cup rs)
  BY <1>0, <1>1 DEF IInv, Fechas, Distintas
<1>3. v \in Store
  BY <1>0, <1>1, <1>2, FusionarRetiradasBien
<1>4. \A r \in rs : Reciente(r) => r \in v.retiradas
  BY <1>0, <1>1, <1>2, FusionGuarda
<1>5. PICK os, bs : store' = [store EXCEPT ![n] = [v EXCEPT !.ofertas = os, !.obras = bs]]
  BY DEF Caida, Cambia
<1>6. /\ UNCHANGED <<disco, firmes>> /\ sueltos' = {r \in sueltos : n # Mandante}
  BY DEF Caida
<1> HIDE DEF v
<1>7. [v EXCEPT !.ofertas = os, !.obras = bs].retiradas = v.retiradas
  BY <1>3 DEF Store
<1>8. CASE n = Mandante
  <2>1. store'[Mandante].retiradas = v.retiradas
    BY <1>0, <1>5, <1>7, <1>8
  <2> QED
    BY <1>4, <1>6, <1>8, <2>1 DEF RInv, Reciente
<1>9. CASE n # Mandante
  <2>1. store'[Mandante] = store[Mandante]
    BY <1>0, <1>5, <1>9
  <2> QED
    BY <1>6, <1>9, <2>1 DEF RInv, Reciente
<1> QED
  BY <1>8, <1>9

(* A withdrawal that the principal saved is never off that person's list,  *)
(* nor the offer on that board, whatever others announce and however often *)
(* nodes die, as long as the list has room for it (retirar, merge_store,   *)
(* persistir, hidratar).                                                   *)
THEOREM RetiroDelMandante ==
  Spec => [](\A o \in Ofertas : Firme(o) => o \notin tablero(store[Mandante]))
<1>1. Init => RInv
  BY DEF Init, RInv
<1>2. IInv /\ RInv /\ [Next]_vars => RInv'
  <2> SUFFICES ASSUME IInv, RInv, [Next]_vars
               PROVE  RInv'
    OBVIOUS
  <2>1. CASE UNCHANGED vars
    BY <2>1, RetirosQuedan DEF vars, historia, RetirosIguales
  <2>2. CASE \E o \in Ofertas : Publicar(o) \/ Retirar(o) \/ ConfirmarContra(o) \/ RechazarContra(o)
    BY <2>2, SaleDeTablero, RetirarGuarda
  <2>3. CASE \E o \in Tratables, n \in Responden, c \in BOOLEAN : Aceptar(n, o, c)
    BY <2>3, AceptarGuarda, TableroAssumption DEF Nodos
  <2>4. CASE \E n \in Caen : Guarda(n) \/ Caida(n)
    BY <2>4, GuardaGuarda, CaidaGuarda, TableroAssumption
  <2>5. CASE \E n \in Nodos : \E m \in Nodos \ {n} : OyeOfertas(n, m) \/ OyeRetiradas(n, m) \/ OyeObras(n, m)
    BY <2>5, OyeLoDemas, OyeRetiradasGuarda
  <2> QED
    BY <2>1, <2>2, <2>3, <2>4, <2>5 DEF Next
<1>3. RInv => \A o \in Ofertas : Firme(o) => o \notin tablero(store[Mandante])
  BY DEF RInv, Firme, Reciente, tablero, sin_retiradas, Retiradas
<1> QED
  BY <1>1, <1>2, <1>3, Invariante, PTL DEF Spec

=============================================================================
