---------------------------- MODULE RespaldoProofs ----------------------------
(***************************************************************************)
(* Proofs about the backup and its restoration: whatever is killed, fails  *)
(* or is asked for again, no share is lost; and unless a removal was cut   *)
(* or a failed start ignored (roto), what the program runs with is of one  *)
(* restoration and its reminder is honest.                                 *)
(*                                                                         *)
(* IInv says where a restoration is.  Before the first move the pending    *)
(* directory is whole (Entero); between two moves of phase B each entry is *)
(* in the pending directory or in the data, never in both (EnDos); with    *)
(* nothing pending the data are fit to start from (Sano).  Movidas says    *)
(* why the rename onto a previo of this start never overwrites a share:    *)
(* after xmr/ went there once, no other xmr/ is moved.                     *)
(***************************************************************************)
EXTENDS Respaldo, FiniteSetTheorems, SequenceTheorems, TLAPS

-----------------------------------------------------------------------------
(* The types.  f has some of the entries of a data directory.              *)
Valor(n) == IF n = "estado" THEN Perfil ELSE IF n = "xmr" THEN Material ELSE Huella

EntradasDe(f) ==
  /\ f = [x \in DOMAIN f |-> f[x]]
  /\ \A n \in DOMAIN f : n \in Entradas => f[n] \in Valor(n)

Preparacion == [paso : {"arma", "borra"}, copia : Copia]

TiposDir ==
  /\ DOMAIN dir = Entradas /\ dir = [x \in Entradas |-> dir[x]]
  /\ \A n \in Entradas : dir[n] \in Valor(n) \cup {Nada}

EsNuevo(f) ==
  f # Nada => /\ DOMAIN f \subseteq Entradas \cup {FaseA} /\ EntradasDe(f)
              /\ FaseA \in DOMAIN f => f[FaseA] = Nada

TiposCurso ==
  /\ copias \subseteq Copia
  /\ fase \in {"parado", "aplica", "lee", "corre"} /\ mem \in Perfil \cup {Nada}
  /\ prep \in Preparacion \cup {Nada}
  /\ expo # Nada => /\ expo.copia \in Copia /\ expo.huella \in Huella
                    /\ expo = [copia |-> expo.copia, huella |-> expo.huella, escrita |-> expo.escrita]
  /\ hechas \in 0 .. MaxCajas /\ gen \in 0 .. MaxGen /\ completa.gen \in 0 .. gen

Tipos == TiposDir /\ EsNuevo(tmp) /\ EsNuevo(listo) /\ TiposCurso

(* The directories with what was moved away; one of them may be of this    *)
(* start, and what it got of the boxes is not moved there twice.           *)
Movidas ==
  /\ previos = [i \in 1 .. Len(previos) |-> previos[i]] /\ Len(previos) \in Nat
  /\ \A i \in DOMAIN previos : previos[i] = [x \in DOMAIN previos[i] |-> previos[i][x]]
  /\ destino \in 0 .. Len(previos)
  /\ destino # 0 => fase \in {"aplica", "lee"}
  /\ fase = "aplica" /\ destino # 0 /\ "xmr" \in DOMAIN previos[destino]
       => dir["xmr"] = Nada \/ DOMAIN listo \cap {"xmr", FaseA} = {}

(* What a preparation and an export under way go by.                       *)
EnCurso ==
  /\ prep # Nada => Corre /\ prep.copia \in copias /\ validar(prep.copia)
  /\ Borra => tmp = Nueva(prep.copia, gen)
  /\ expo # Nada => /\ Corre
                    /\ expo.huella = huella(expo.copia)
                    /\ expo.escrita => expo.copia \in copias
  /\ fase = "aplica" => listo # Nada

(* One share for each job.                                                 *)
Unicas(cajas) == \A a, b \in cajas : a.obra = b.obra => a = b

(* A data directory to start from: of one restoration, and every share is  *)
(* of a job; the mark of the last backup is of one that exists, and no     *)
(* share it had went away since.                                           *)
Sano ==
  /\ dir["xmr"] # Nada =>
       /\ dir["estado"] # Nada /\ dir["xmr"].gen = dir["estado"].gen
       /\ Unicas(MisCajas) /\ ObrasDe(MisCajas) \subseteq dir["estado"].obras
  /\ dir["ultimo"] # Nada =>
       \E c \in copias : validar(c) /\ dir["ultimo"] = huella(c) /\ c.cajas \subseteq MisCajas

(* Before the first move, and between two of the moves that put it in its  *)
(* place: each entry of the restoration is in one of the two directories.  *)
Entero == \E c \in copias, g \in 0 .. MaxGen : validar(c) /\ listo = Nueva(c, g)

EnDos(c, g) ==
  \A n \in Entradas :
    IF n \in DOMAIN listo
    THEN dir[n] = Nada /\ n \in DOMAIN Nueva(c, g) /\ listo[n] = Nueva(c, g)[n]
    ELSE IF n \in DOMAIN Nueva(c, g) THEN dir[n] = Nueva(c, g)[n] ELSE dir[n] = Nada

Honesto ==
  /\ fase \in {"lee", "corre"} \/ listo = Nada => Sano
  /\ fase = "lee" => listo = Nada
  /\ listo # Nada /\ ~Borra =>
       \/ FaseA \in DOMAIN listo /\ Entero
       \/ /\ FaseA \notin DOMAIN listo /\ fase \in {"parado", "aplica"}
          /\ \E c \in copias, g \in 0 .. MaxGen : validar(c) /\ EnDos(c, g)
  /\ Corre => /\ (mem = Nada) = (dir["estado"] = Nada)
              /\ mem # Nada => mem.gen = dir["estado"].gen /\ dir["estado"].obras \subseteq mem.obras
  /\ expo # Nada => validar(expo.copia) /\ expo.copia.cajas \subseteq MisCajas

IInv ==
  /\ Tipos
  /\ Movidas
  /\ EnCurso
  /\ NadaSePierde
  /\ ~roto => Honesto

-----------------------------------------------------------------------------
(* Facts about directories.                                                *)

LEMMA Nadas ==
  /\ \A n : Nada \notin Valor(n)
  /\ Nada \notin Preparacion
BY NadaAssumption DEF Valor, Preparacion

LEMMA NoEsDirectorio ==
  ASSUME NEW f, f = [x \in DOMAIN f |-> f[x]], DOMAIN f \subseteq Entradas \cup {FaseA}, EntradasDe(f),
         FaseA \in DOMAIN f => f[FaseA] = Nada
  PROVE  f # Nada
<1>1. \A x \in DOMAIN f : f[x] \in Perfil \cup Material \cup Huella \cup {Nada}
  BY DEF EntradasDe, Valor
<1>2. f \in [DOMAIN f -> Perfil \cup Material \cup Huella \cup {Nada}]
  BY <1>1
<1> QED
  BY <1>2, NadaAssumption

(* A restoration, whole.                                                   *)
LEMMA DeNueva ==
  ASSUME NEW c \in Copia, NEW g \in 0 .. MaxGen
  PROVE  /\ DOMAIN Nueva(c, g) = {"estado", "ultimo", FaseA} \cup {n \in {"xmr"} : c.cajas # {}}
         /\ Nueva(c, g) = [x \in DOMAIN Nueva(c, g) |-> Nueva(c, g)[x]]
         /\ Nueva(c, g)["estado"] = [gen |-> g, obras |-> c.obras]
         /\ Nueva(c, g)["ultimo"] = huella(c)
         /\ c.cajas # {} => Nueva(c, g)["xmr"] = [gen |-> g, cajas |-> c.cajas]
         /\ Nueva(c, g)[FaseA] = Nada
         /\ EntradasDe(Nueva(c, g))
         /\ Nueva(c, g) # Nada
<1> DEFINE N == Nueva(c, g)
<1>1. /\ DOMAIN N = {"estado", "ultimo", FaseA} \cup {n \in {"xmr"} : c.cajas # {}}
      /\ N = [x \in DOMAIN N |-> N[x]]
      /\ N["estado"] = [gen |-> g, obras |-> c.obras]
      /\ N["ultimo"] = huella(c)
      /\ c.cajas # {} => N["xmr"] = [gen |-> g, cajas |-> c.cajas]
      /\ N[FaseA] = Nada
  BY DEF Nueva, archivos_restauracion, FaseA
<1> HIDE DEF N
<1>2. /\ c.obras \in SUBSET Obras /\ c.cajas \in SUBSET Cajas
      /\ ObrasDe(c.cajas) \in SUBSET Obras
  BY DEF Copia, ObrasDe, Cajas
<1>3. EntradasDe(N)
  <2>1. N["estado"] \in Perfil
    BY <1>1, <1>2 DEF Perfil
  <2>2. N["ultimo"] \in Huella
    BY <1>1, <1>2 DEF Huella, huella
  <2>3. c.cajas # {} => N["xmr"] \in Material
    BY <1>1, <1>2 DEF Material
  <2> QED  BY <1>1, <2>1, <2>2, <2>3 DEF EntradasDe, Entradas, Valor, FaseA
<1>4. DOMAIN N \subseteq Entradas \cup {FaseA}
  BY <1>1 DEF Entradas
<1>5. N # Nada
  BY <1>1, <1>3, <1>4, NoEsDirectorio
<1> QED
  BY <1>1, <1>3, <1>5 DEF N

(* A directory without one of its entries.                                 *)
LEMMA Menos ==
  ASSUME NEW f, NEW n, EntradasDe(f), DOMAIN f \subseteq Entradas \cup {FaseA},
         FaseA \in DOMAIN f => f[FaseA] = Nada
  PROVE  LET h == Restrict(f, DOMAIN f \ {n}) IN
         /\ DOMAIN h = DOMAIN f \ {n} /\ EntradasDe(h)
         /\ \A x \in DOMAIN h : h[x] = f[x]
         /\ h # Nada
<1> DEFINE h == Restrict(f, DOMAIN f \ {n})
<1>1. DOMAIN h = DOMAIN f \ {n} /\ h = [x \in DOMAIN h |-> h[x]] /\ \A x \in DOMAIN h : h[x] = f[x]
  BY DEF Restrict
<1> HIDE DEF h
<1>2. EntradasDe(h)
  BY <1>1 DEF EntradasDe
<1>3. h # Nada
  BY <1>1, <1>2, NoEsDirectorio
<1> QED
  BY <1>1, <1>2, <1>3 DEF h

(* What is in the data directory.                                          *)
LEMMA Datos ==
  ASSUME Tipos
  PROVE  /\ dir["estado"] \in Perfil \cup {Nada} /\ dir["xmr"] \in Material \cup {Nada}
         /\ dir["ultimo"] \in Huella \cup {Nada}
         /\ MisCajas \in SUBSET Cajas /\ ObrasDe(MisCajas) \in SUBSET Obras
<1>1. /\ dir["estado"] \in Perfil \cup {Nada} /\ dir["xmr"] \in Material \cup {Nada}
      /\ dir["ultimo"] \in Huella \cup {Nada}
  BY DEF Tipos, TiposDir, Entradas, Valor
<1>2. MisCajas \in SUBSET Cajas
  BY <1>1 DEF MisCajas, Material
<1> QED
  BY <1>1, <1>2 DEF ObrasDe, Cajas

(* One entry changes.                                                      *)
LEMMA Pone ==
  ASSUME TiposDir, NEW n \in Entradas, NEW v \in Valor(n) \cup {Nada}, dir' = [dir EXCEPT ![n] = v]
  PROVE  TiposDir' /\ dir'[n] = v /\ \A m \in Entradas \ {n} : dir'[m] = dir[m]
BY DEF TiposDir

-----------------------------------------------------------------------------
(* Shares: a finite number, and no job has two.                            *)

LEMMA CajasFinitas ==
  /\ IsFiniteSet(Cajas)
  /\ \A s \in SUBSET Cajas : IsFiniteSet(s)
<1> DEFINE P == Obras \X (1 .. MaxCajas)
           f == [x \in P |-> [obra |-> x[1], num |-> x[2]]]
<1>1. IsFiniteSet(1 .. MaxCajas)
  BY FS_Interval, RespaldoAssumption
<1>2. IsFiniteSet(P)
  BY <1>1, FS_Product, RespaldoAssumption
<1>3. f \in Surjection(P, Cajas)
  <2>1. f \in [P -> Cajas]
    BY DEF Cajas
  <2>2. \A t \in Cajas : \E x \in P : f[x] = t
    <3>1. SUFFICES ASSUME NEW t \in Cajas PROVE \E x \in P : f[x] = t
      OBVIOUS
    <3>2. <<t.obra, t.num>> \in P /\ f[<<t.obra, t.num>>] = t
      BY DEF Cajas
    <3> QED  BY <3>2
  <2> HIDE DEF P, f
  <2> QED  BY <2>1, <2>2 DEF Surjection
<1> HIDE DEF P, f
<1>4. IsFiniteSet(Cajas)
  BY <1>2, <1>3, FS_Surjection
<1> QED
  BY <1>4, FS_Subset

(* As many jobs as shares.                                                 *)
LEMMA CuentaObras ==
  ASSUME NEW s \in SUBSET Cajas
  PROVE  Cardinality(ObrasDe(s)) = Cardinality(s) <=> Unicas(s)
<1> DEFINE f == [c \in s |-> c.obra]
<1>1. f \in [s -> ObrasDe(s)] /\ \A t \in ObrasDe(s) : \E c \in s : f[c] = t
  BY DEF ObrasDe
<1>2. \A c \in s : f[c] = c.obra
  OBVIOUS
<1> HIDE DEF f
<1>3. f \in Surjection(s, ObrasDe(s)) /\ IsFiniteSet(s)
  BY <1>1, CajasFinitas DEF Surjection
<1>4. Cardinality(ObrasDe(s)) = Cardinality(s) <=> f \in Injection(s, ObrasDe(s))
  BY <1>3, FS_Surjection
<1>5. f \in Injection(s, ObrasDe(s)) <=> Unicas(s)
  BY <1>1, <1>2 DEF Injection, IsInjective, Unicas
<1> QED
  BY <1>4, <1>5

LEMMA Validas ==
  ASSUME NEW c \in Copia
  PROVE  validar(c) <=> ObrasDe(c.cajas) \subseteq c.obras /\ Unicas(c.cajas)
<1>1. c.cajas \in SUBSET Cajas
  BY DEF Copia
<1> QED
  BY <1>1, CuentaObras DEF validar, validar_material

-----------------------------------------------------------------------------
(* The start.                                                             *)

LEMMA SinPendientePaso ==
  ASSUME IInv, SinPendiente
  PROVE  IInv'
<1>1. Tipos'
  BY DEF IInv, Tipos, TiposDir, EsNuevo, TiposCurso, SinPendiente, disco
<1>2. Movidas'
  BY DEF IInv, Movidas, Corre, SinPendiente, disco
<1>3. EnCurso'
  BY DEF IInv, EnCurso, Corre, Borra, SinPendiente, disco
<1>4. NadaSePierde'
  BY DEF IInv, NadaSePierde, MisCajas, SinPendiente, disco
<1>5. ~roto' => Honesto'
  BY DEF IInv, Honesto, Sano, Corre, Borra, Entero, EnDos, MisCajas, EnCurso, SinPendiente, disco
<1> QED
  BY <1>1, <1>2, <1>3, <1>4, <1>5 DEF IInv

LEMMA PendientePaso ==
  ASSUME IInv, Pendiente
  PROVE  IInv'
<1>1. Tipos'
  BY DEF IInv, Tipos, TiposDir, EsNuevo, TiposCurso, Pendiente, disco
<1>2. Movidas'
  BY DEF IInv, Movidas, Corre, Pendiente, disco
<1>3. EnCurso'
  BY DEF IInv, EnCurso, Corre, Borra, Pendiente, disco
<1>4. NadaSePierde'
  BY DEF IInv, NadaSePierde, MisCajas, Pendiente, disco
<1>5. ~roto' => Honesto'
  BY DEF IInv, Honesto, Sano, Corre, Borra, Entero, EnDos, MisCajas, EnCurso, Pendiente, disco
<1> QED
  BY <1>1, <1>2, <1>3, <1>4, <1>5 DEF IInv

(* What moving an entry away does to the directories it is moved to.       *)
LEMMA MoverAPrevio ==
  ASSUME IInv, NEW n \in Entradas, MueveAPrevio(n), dir[n] # Nada, fase = "aplica", hechas' = hechas,
         destino # 0 /\ "xmr" \in DOMAIN previos[destino] => n # "xmr"
  PROVE  /\ TiposDir' /\ dir'[n] = Nada /\ \A m \in Entradas \ {n} : dir'[m] = dir[m]
         /\ previos' = [i \in 1 .. Len(previos') |-> previos'[i]] /\ Len(previos') \in Nat
         /\ \A i \in DOMAIN previos' : previos'[i] = [x \in DOMAIN previos'[i] |-> previos'[i][x]]
         /\ destino' \in 1 .. Len(previos')
         /\ "xmr" \in DOMAIN previos'[destino'] => n = "xmr" \/ (destino # 0 /\ "xmr" \in DOMAIN previos[destino])
         /\ NadaSePierde'
<1>1. TiposDir' /\ dir'[n] = Nada /\ \A m \in Entradas \ {n} : dir'[m] = dir[m]
  BY Pone DEF IInv, Tipos, MueveAPrevio
<1>2. /\ previos = [i \in 1 .. Len(previos) |-> previos[i]] /\ Len(previos) \in Nat
      /\ \A i \in DOMAIN previos : previos[i] = [x \in DOMAIN previos[i] |-> previos[i][x]]
      /\ destino \in 0 .. Len(previos) /\ DOMAIN previos = 1 .. Len(previos)
  BY DEF IInv, Movidas
<1>4. /\ previos' = [i \in 1 .. Len(previos') |-> previos'[i]] /\ Len(previos') \in Nat
      /\ DOMAIN previos' = DOMAIN previos \cup {destino'} /\ destino' \in 1 .. Len(previos')
      /\ \A i \in DOMAIN previos \ {destino'} : previos'[i] = previos[i]
      /\ previos'[destino'] = IF destino = 0 THEN Con(Vacio, n, dir[n]) ELSE Con(previos[destino], n, dir[n])
      /\ destino # 0 => destino' = destino
      /\ destino = 0 => destino' \notin DOMAIN previos
  <2>1. CASE destino = 0
    <3>1. destino' = Len(previos) + 1 /\ previos' = Append(previos, Con(Vacio, n, dir[n]))
      BY <2>1 DEF MueveAPrevio
    <3>2. previos' = [i \in 1 .. Len(previos) + 1 |-> IF i = Len(previos) + 1 THEN Con(Vacio, n, dir[n]) ELSE previos[i]]
      BY <1>2, <3>1
    <3> QED  BY <1>2, <2>1, <3>1, <3>2
  <2>2. CASE destino # 0
    <3> DEFINE w == Con(previos[destino], n, dir[n])
    <3>1. destino' = destino /\ previos' = [previos EXCEPT ![destino] = w]
      BY <2>2, <1>2 DEF MueveAPrevio
    <3> HIDE DEF w
    <3>a. destino \in 1 .. Len(previos)
      BY <1>2, <2>2
    <3>b. DOMAIN previos' = 1 .. Len(previos)
      BY <1>2, <3>1
    <3>c. previos'[destino] = w /\ \A i \in DOMAIN previos \ {destino} : previos'[i] = previos[i]
      BY <1>2, <3>1, <3>a
    <3>d. previos' = [i \in 1 .. Len(previos) |-> previos'[i]]
      BY <3>1, <3>b
    <3>2. /\ DOMAIN previos' = 1 .. Len(previos) /\ previos' = [i \in 1 .. Len(previos) |-> previos'[i]]
          /\ destino \in 1 .. Len(previos) /\ previos'[destino] = w
          /\ \A i \in DOMAIN previos \ {destino} : previos'[i] = previos[i]
      BY <3>a, <3>b, <3>c, <3>d
    <3>3. Len(previos') = Len(previos)
      BY <1>2, <3>2
    <3> QED  BY <1>2, <2>2, <3>1, <3>2, <3>3 DEF w
  <2> QED  BY <2>1, <2>2
<1>5. /\ n \in DOMAIN previos'[destino'] /\ previos'[destino'][n] = dir[n]
      /\ previos'[destino'] = [x \in DOMAIN previos'[destino'] |-> previos'[destino'][x]]
      /\ "xmr" \in DOMAIN previos'[destino'] /\ n # "xmr" => destino # 0 /\ "xmr" \in DOMAIN previos[destino]
      /\ \A x \in DOMAIN previos[destino] \ {n} :
           destino # 0 => x \in DOMAIN previos'[destino'] /\ previos'[destino'][x] = previos[destino][x]
  <2>2. DOMAIN Vacio = {}
    BY DEF Vacio
  <2>3. CASE destino = 0
    <3> DEFINE w == Con(Vacio, n, dir[n])
    <3>1. previos'[destino'] = w
      BY <1>4, <2>3
    <3>2. DOMAIN w = {n} /\ w[n] = dir[n] /\ w = [x \in DOMAIN w |-> w[x]]
      BY <2>2 DEF Con
    <3> HIDE DEF w
    <3> QED  BY <2>3, <3>1, <3>2
  <2>4. CASE destino # 0
    <3> DEFINE w == Con(previos[destino], n, dir[n])
    <3>1. previos'[destino'] = w
      BY <1>4, <2>4
    <3>2. /\ DOMAIN w = DOMAIN previos[destino] \cup {n} /\ w[n] = dir[n] /\ w = [x \in DOMAIN w |-> w[x]]
          /\ \A x \in DOMAIN previos[destino] \ {n} : w[x] = previos[destino][x]
      BY DEF Con
    <3> HIDE DEF w
    <3> QED  BY <2>4, <3>1, <3>2
  <2> QED  BY <2>3, <2>4
<1>6. NadaSePierde'
  <2> SUFFICES ASSUME NEW k \in 1 .. hechas'
               PROVE \/ \E c \in MisCajas' : c.num = k
                     \/ \E i \in DOMAIN previos' :
                          "xmr" \in DOMAIN previos'[i] /\ \E c \in previos'[i]["xmr"].cajas : c.num = k
    BY DEF NadaSePierde
  <2>1. CASE \E c \in MisCajas : c.num = k
    <3>1. CASE n = "xmr"
      BY <1>4, <1>5, <2>1, <3>1 DEF MisCajas
    <3>2. CASE n # "xmr"
      BY <1>1, <2>1, <3>2 DEF MisCajas, Entradas
    <3> QED  BY <3>1, <3>2
  <2>2. CASE \E i \in DOMAIN previos :
               "xmr" \in DOMAIN previos[i] /\ \E c \in previos[i]["xmr"].cajas : c.num = k
    <3>1. PICK i \in DOMAIN previos : "xmr" \in DOMAIN previos[i] /\ \E c \in previos[i]["xmr"].cajas : c.num = k
      BY <2>2
    <3>2. CASE i = destino'
      BY <1>4, <1>5, <3>1, <3>2
    <3>3. CASE i # destino'
      BY <1>4, <3>1, <3>3
    <3> QED  BY <3>2, <3>3
  <2> QED  BY <2>1, <2>2 DEF IInv, NadaSePierde
<1>7. \A i \in DOMAIN previos' : previos'[i] = [x \in DOMAIN previos'[i] |-> previos'[i][x]]
  BY <1>2, <1>4, <1>5
<1> QED
  BY <1>1, <1>4, <1>5, <1>6, <1>7

LEMMA MueveViejoPaso ==
  ASSUME IInv, MueveViejo
  PROVE  IInv'
<1>a. PICK i \in DOMAIN VIVOS : dir[VIVOS[i]] # Nada /\ MueveAPrevio(VIVOS[i])
  BY DEF MueveViejo
<1> DEFINE n == VIVOS[i]
<1>b. n \in Entradas /\ dir[n] # Nada /\ MueveAPrevio(n)
  BY <1>a DEF VIVOS, Entradas
<1> HIDE DEF n
<1>c. /\ fase = "aplica" /\ FaseA \in DOMAIN listo
      /\ destino # 0 /\ "xmr" \in DOMAIN previos[destino] => dir["xmr"] = Nada
  BY DEF MueveViejo, Aplica, IInv, Movidas
<1>d. /\ TiposDir' /\ dir'[n] = Nada /\ \A m \in Entradas \ {n} : dir'[m] = dir[m]
      /\ previos' = [j \in 1 .. Len(previos') |-> previos'[j]] /\ Len(previos') \in Nat
      /\ \A j \in DOMAIN previos' : previos'[j] = [x \in DOMAIN previos'[j] |-> previos'[j][x]]
      /\ destino' \in 1 .. Len(previos')
      /\ "xmr" \in DOMAIN previos'[destino'] => n = "xmr" \/ (destino # 0 /\ "xmr" \in DOMAIN previos[destino])
      /\ NadaSePierde'
  <2>1. hechas' = hechas
    BY DEF MueveViejo, Aplica
  <2>2. destino # 0 /\ "xmr" \in DOMAIN previos[destino] => n # "xmr"
    BY <1>b, <1>c
  <2> QED  BY <1>b, <1>c, <2>1, <2>2, MoverAPrevio
<1>1. Tipos'
  BY <1>d DEF IInv, Tipos, EsNuevo, TiposCurso, MueveViejo, Aplica
<1>2. Movidas'
  <2>1. "xmr" \in DOMAIN previos'[destino'] => dir'["xmr"] = Nada
    BY <1>c, <1>d DEF Entradas
  <2> QED  BY <1>c, <1>d, <2>1 DEF Movidas, MueveViejo
<1>3. EnCurso'
  BY DEF IInv, EnCurso, Corre, Borra, MueveViejo, Aplica, disco
<1>4. NadaSePierde'
  BY <1>d
<1>5. ~roto' => Honesto'
  BY DEF IInv, Honesto, Sano, Corre, Borra, Entero, EnDos, MisCajas, EnCurso, MueveViejo, Aplica, disco
<1> QED
  BY <1>1, <1>2, <1>3, <1>4, <1>5 DEF IInv

LEMMA QuitaFaseAPaso ==
  ASSUME IInv, QuitaFaseA
  PROVE  IInv'
<1> DEFINE h == Restrict(listo, DOMAIN listo \ {FaseA})
<1>a. listo' = h /\ listo # Nada
  BY DEF QuitaFaseA, Aplica, IInv, EnCurso
<1>b. DOMAIN h = DOMAIN listo \ {FaseA} /\ EntradasDe(h) /\ (\A x \in DOMAIN h : h[x] = listo[x]) /\ h # Nada
  BY <1>a, Menos DEF IInv, Tipos, EsNuevo
<1> HIDE DEF h
<1>1. Tipos'
  <2>1. EsNuevo(listo')
    BY <1>a, <1>b DEF IInv, Tipos, EsNuevo
  <2> QED  BY <2>1 DEF IInv, Tipos, TiposDir, EsNuevo, TiposCurso, QuitaFaseA, Aplica
<1>2. Movidas'
  <2>1. DOMAIN listo' \subseteq DOMAIN listo
    BY <1>a, <1>b
  <2> QED  BY <2>1 DEF IInv, Movidas, QuitaFaseA, Aplica
<1>3. EnCurso'
  BY <1>a, <1>b DEF IInv, EnCurso, Corre, Borra, QuitaFaseA, Aplica
<1>4. NadaSePierde'
  BY DEF IInv, NadaSePierde, MisCajas, QuitaFaseA, Aplica, disco
<1>5. ~roto' => Honesto'
  <2> SUFFICES ASSUME ~roto PROVE Honesto'
    BY DEF QuitaFaseA, Aplica
  <2>1. /\ fase = "aplica" /\ fase' = "aplica" /\ FaseA \in DOMAIN listo /\ ~Borra /\ dir' = dir /\ prep' = prep /\ expo' = expo
        /\ copias' = copias
        /\ listo # Nada
    BY <1>a DEF QuitaFaseA, Aplica, IInv, EnCurso, Corre, Borra
  <2>2. PICK c \in copias, g \in 0 .. MaxGen : validar(c) /\ listo = Nueva(c, g)
    BY <2>1 DEF IInv, Honesto, Entero
  <2>3. \A n \in Entradas : dir[n] = Nada
    <3>1. dir[VIVOS[1]] = Nada /\ dir[VIVOS[2]] = Nada /\ dir[VIVOS[3]] = Nada
      BY DEF QuitaFaseA, VIVOS
    <3> QED  BY <3>1 DEF VIVOS, Entradas
  <2>4. \A n \in Entradas : n # FaseA
    BY DEF Entradas, FaseA
  <2>5. EnDos(c, g)'
    BY <1>a, <1>b, <2>1, <2>2, <2>3, <2>4 DEF EnDos
  <2>6. FaseA \notin DOMAIN listo' /\ listo' # Nada
    BY <1>a, <1>b
  <2> QED  BY <2>1, <2>2, <2>5, <2>6 DEF Honesto, Corre, Borra, IInv, EnCurso
<1> QED
  BY <1>1, <1>2, <1>3, <1>4, <1>5 DEF IInv

LEMMA MueveEscritoPaso ==
  ASSUME IInv, NEW n \in Entradas, MueveEscrito(n)
  PROVE  IInv'
<1>c. /\ fase = "aplica" /\ FaseA \notin DOMAIN listo /\ n \in DOMAIN listo /\ dir[n] # Nada /\ MueveAPrevio(n)
      /\ destino # 0 /\ "xmr" \in DOMAIN previos[destino] => dir["xmr"] = Nada \/ DOMAIN listo \cap {"xmr", FaseA} = {}
  BY DEF MueveEscrito, Aplica, IInv, Movidas
<1>d. /\ TiposDir' /\ dir'[n] = Nada /\ \A m \in Entradas \ {n} : dir'[m] = dir[m]
      /\ previos' = [i \in 1 .. Len(previos') |-> previos'[i]] /\ Len(previos') \in Nat
      /\ \A i \in DOMAIN previos' : previos'[i] = [x \in DOMAIN previos'[i] |-> previos'[i][x]]
      /\ destino' \in 1 .. Len(previos')
      /\ "xmr" \in DOMAIN previos'[destino'] => n = "xmr" \/ (destino # 0 /\ "xmr" \in DOMAIN previos[destino])
      /\ NadaSePierde'
  <2>1. hechas' = hechas
    BY DEF MueveEscrito, Aplica
  <2>2. destino # 0 /\ "xmr" \in DOMAIN previos[destino] => n # "xmr"
    BY <1>c
  <2> QED  BY <1>c, <2>1, <2>2, MoverAPrevio
<1>1. Tipos'
  BY <1>d DEF IInv, Tipos, EsNuevo, TiposCurso, MueveEscrito, Aplica
<1>2. Movidas'
  <2>1. "xmr" \in DOMAIN previos'[destino'] => dir'["xmr"] = Nada \/ DOMAIN listo \cap {"xmr", FaseA} = {}
    BY <1>c, <1>d DEF Entradas
  <2> QED  BY <1>c, <1>d, <2>1 DEF Movidas, MueveEscrito
<1>3. EnCurso'
  BY DEF IInv, EnCurso, Corre, Borra, MueveEscrito, Aplica, disco
<1>4. NadaSePierde'
  BY <1>d
<1>5. ~roto' => Honesto'
  BY DEF IInv, Honesto, Sano, Corre, Borra, Entero, EnDos, MisCajas, EnCurso, MueveEscrito, Aplica, disco
<1> QED
  BY <1>1, <1>2, <1>3, <1>4, <1>5 DEF IInv

LEMMA InstalaPaso ==
  ASSUME IInv, NEW n \in Entradas, Instala(n)
  PROVE  IInv'
<1> DEFINE h == Restrict(listo, DOMAIN listo \ {n})
<1>a. listo' = h /\ listo # Nada
  BY DEF Instala, Aplica, IInv, EnCurso
<1>b. DOMAIN h = DOMAIN listo \ {n} /\ EntradasDe(h) /\ (\A x \in DOMAIN h : h[x] = listo[x]) /\ h # Nada
  BY <1>a, Menos DEF IInv, Tipos, EsNuevo
<1> HIDE DEF h

<1>c. n \in DOMAIN listo /\ FaseA \notin DOMAIN listo /\ dir[n] = Nada /\ listo[n] \in Valor(n)
  BY <1>a DEF Instala, IInv, Tipos, EsNuevo, EntradasDe
<1>d. TiposDir' /\ dir'[n] = listo[n] /\ \A m \in Entradas \ {n} : dir'[m] = dir[m]
  BY <1>c, Pone DEF Instala, IInv, Tipos
<1>1. Tipos'
  <2>1. EsNuevo(listo')
    BY <1>a, <1>b DEF IInv, Tipos, EsNuevo
  <2> QED  BY <1>d, <2>1 DEF IInv, Tipos, EsNuevo, TiposCurso, Instala, Aplica
<1>2. Movidas'
  <2>1. DOMAIN listo' = DOMAIN listo \ {n}
    BY <1>a, <1>b
  <2>2. n # "xmr" => dir'["xmr"] = dir["xmr"]
    BY <1>d DEF Entradas
  <2> QED  BY <1>c, <2>1, <2>2 DEF IInv, Movidas, Instala, Aplica
<1>3. EnCurso'
  BY <1>a, <1>b DEF IInv, EnCurso, Corre, Borra, Instala, Aplica
<1>4. NadaSePierde'
  <2>1. MisCajas \subseteq MisCajas'
    <3>1. CASE n = "xmr"
      BY <3>1, <1>c DEF MisCajas
    <3>2. CASE n # "xmr"
      BY <3>2, <1>d DEF MisCajas, Entradas
    <3> QED  BY <3>1, <3>2
  <2> QED  BY <2>1 DEF IInv, NadaSePierde, Instala, Aplica
<1>5. ~roto' => Honesto'
  <2> SUFFICES ASSUME ~roto PROVE Honesto'
    BY DEF Instala, Aplica
  <2>1. /\ fase = "aplica" /\ fase' = "aplica" /\ ~Borra /\ prep' = prep /\ expo' = expo /\ copias' = copias
    BY DEF Instala, Aplica, IInv, EnCurso, Corre, Borra
  <2>2. PICK c \in copias, g \in 0 .. MaxGen : validar(c) /\ EnDos(c, g)
    BY <1>a, <1>c, <2>1 DEF IInv, Honesto
  <2>5. EnDos(c, g)'
    BY <1>a, <1>b, <1>c, <1>d, <2>1, <2>2 DEF EnDos
  <2>6. FaseA \notin DOMAIN listo' /\ listo' # Nada
    BY <1>a, <1>b, <1>c
  <2> QED  BY <2>1, <2>2, <2>5, <2>6 DEF Honesto, Corre, Borra, IInv, EnCurso
<1> QED
  BY <1>1, <1>2, <1>3, <1>4, <1>5 DEF IInv

LEMMA QuitaListoPaso ==
  ASSUME IInv, QuitaListo
  PROVE  IInv'
<1>1. Tipos'
  BY DEF IInv, Tipos, TiposDir, EsNuevo, TiposCurso, QuitaListo, Aplica, disco
<1>2. Movidas'
  BY DEF IInv, Movidas, Corre, QuitaListo, Aplica, disco
<1>3. EnCurso'
  BY DEF IInv, EnCurso, Corre, Borra, QuitaListo, Aplica, disco
<1>4. NadaSePierde'
  BY DEF IInv, NadaSePierde, MisCajas, QuitaListo, Aplica, disco
<1>5. ~roto' => Honesto'
  <2> SUFFICES ASSUME ~roto PROVE Honesto'
    BY DEF QuitaListo, Aplica
  <2>1. /\ fase = "aplica" /\ fase' = "lee" /\ ~Borra /\ prep' = prep /\ expo' = expo /\ copias' = copias /\ dir' = dir
        /\ listo' = Nada /\ listo # Nada /\ DOMAIN listo = {} /\ expo = Nada
    BY DEF QuitaListo, Aplica, IInv, EnCurso, Corre, Borra
  <2>2. PICK c \in copias, g \in 0 .. MaxGen : validar(c) /\ EnDos(c, g)
    BY <2>1 DEF IInv, Honesto
  <2> DEFINE N == Nueva(c, g)
  <2>3. /\ c \in Copia
        /\ DOMAIN N = {"estado", "ultimo", FaseA} \cup {n \in {"xmr"} : c.cajas # {}}
        /\ N["estado"] = [gen |-> g, obras |-> c.obras] /\ N["ultimo"] = huella(c)
        /\ c.cajas # {} => N["xmr"] = [gen |-> g, cajas |-> c.cajas]
        /\ EntradasDe(N)
    BY DeNueva DEF IInv, Tipos, TiposCurso
  <2>4. \A n \in Entradas : dir[n] = IF n \in DOMAIN N THEN N[n] ELSE Nada
    BY <2>1, <2>2 DEF EnDos
  <2> HIDE DEF N
  <2>5. /\ dir["estado"] = [gen |-> g, obras |-> c.obras] /\ dir["ultimo"] = huella(c)
        /\ dir["estado"] # Nada
    BY <2>3, <2>4, Nadas DEF Entradas, EntradasDe
  <2>6. CASE c.cajas = {}
    <3>1. dir["xmr"] = Nada
      BY <2>3, <2>4, <2>6 DEF Entradas, FaseA
    <3>2. Sano'
      BY <2>1, <2>2, <2>5, <2>6, <3>1 DEF Sano, MisCajas
    <3> QED  BY <2>1, <3>2 DEF Honesto, Corre
  <2>7. CASE c.cajas # {}
    <3>1. dir["xmr"] = [gen |-> g, cajas |-> c.cajas] /\ dir["xmr"] # Nada
      BY <2>3, <2>4, <2>7, Nadas DEF Entradas, EntradasDe
    <3>2. MisCajas = c.cajas /\ dir["xmr"].gen = dir["estado"].gen /\ dir["estado"].obras = c.obras
      BY <2>5, <3>1 DEF MisCajas
    <3>3. Unicas(c.cajas) /\ ObrasDe(c.cajas) \subseteq c.obras
      BY <2>2, <2>3, Validas
    <3>4. MisCajas' = MisCajas
      BY <2>1 DEF MisCajas
    <3>5. Sano'
      BY <2>1, <2>2, <2>5, <3>1, <3>2, <3>3, <3>4 DEF Sano
    <3> QED  BY <2>1, <3>5 DEF Honesto, Corre
  <2> QED  BY <2>6, <2>7
<1> QED
  BY <1>1, <1>2, <1>3, <1>4, <1>5 DEF IInv

LEMMA LeePaso ==
  ASSUME IInv, Lee
  PROVE  IInv'
<1>1. Tipos'
  BY Datos DEF IInv, Tipos, TiposDir, EsNuevo, TiposCurso, Lee, disco
<1>2. Movidas'
  BY DEF IInv, Movidas, Corre, Lee, disco
<1>3. EnCurso'
  BY DEF IInv, EnCurso, Corre, Borra, Lee, disco
<1>4. NadaSePierde'
  BY DEF IInv, NadaSePierde, MisCajas, Lee, disco
<1>5. ~roto' => Honesto'
  BY DEF IInv, Honesto, Sano, Corre, Borra, Entero, EnDos, MisCajas, EnCurso, Lee, disco
<1> QED
  BY <1>1, <1>2, <1>3, <1>4, <1>5 DEF IInv

LEMMA SigueIgualPaso ==
  ASSUME IInv, SigueIgual
  PROVE  IInv'
<1>1. Tipos'
  BY DEF IInv, Tipos, TiposDir, EsNuevo, TiposCurso, SigueIgual, Falla, disco
<1>2. Movidas'
  BY DEF IInv, Movidas, Corre, SigueIgual, Falla, disco
<1>3. EnCurso'
  BY DEF IInv, EnCurso, Corre, Borra, SigueIgual, Falla, disco
<1>4. NadaSePierde'
  BY DEF IInv, NadaSePierde, MisCajas, SigueIgual, Falla, disco
<1>5. ~roto' => Honesto'
  BY DEF IInv, Honesto, Sano, Corre, Borra, Entero, EnDos, MisCajas, EnCurso, SigueIgual, Falla, disco
<1> QED
  BY <1>1, <1>2, <1>3, <1>4, <1>5 DEF IInv

LEMMA CortaPaso ==
  ASSUME IInv, Corta
  PROVE  IInv'
<1>1. Tipos'
  BY DEF IInv, Tipos, TiposDir, EsNuevo, TiposCurso, Corta, Falla, disco
<1>2. Movidas'
  BY DEF IInv, Movidas, Corre, Corta, Falla, disco
<1>3. EnCurso'
  BY DEF IInv, EnCurso, Corre, Borra, Corta, Falla, disco
<1>4. NadaSePierde'
  BY DEF IInv, NadaSePierde, MisCajas, Corta, Falla, disco
<1>5. ~roto' => Honesto'
  BY DEF IInv, Honesto, Sano, Corre, Borra, Entero, EnDos, MisCajas, EnCurso, Corta, Falla, disco
<1> QED
  BY <1>1, <1>2, <1>3, <1>4, <1>5 DEF IInv

LEMMA ReiniciaPaso ==
  ASSUME IInv, Reinicia
  PROVE  IInv'
<1>1. Tipos'
  BY DEF IInv, Tipos, TiposDir, EsNuevo, TiposCurso, Reinicia, disco
<1>2. Movidas'
  BY DEF IInv, Movidas, Corre, Reinicia, disco
<1>3. EnCurso'
  BY DEF IInv, EnCurso, Corre, Borra, Reinicia, disco
<1>4. NadaSePierde'
  BY DEF IInv, NadaSePierde, MisCajas, Reinicia, disco
<1>5. ~roto' => Honesto'
  BY DEF IInv, Honesto, Sano, Corre, Borra, Entero, EnDos, MisCajas, EnCurso, Reinicia, disco
<1> QED
  BY <1>1, <1>2, <1>3, <1>4, <1>5 DEF IInv

-----------------------------------------------------------------------------
(* The program at work.                                                    *)

LEMMA NuevaObraPaso ==
  ASSUME IInv, NEW o \in Obras, NuevaObra(o)
  PROVE  IInv'
<1>a. mem' = [gen |-> mem.gen, obras |-> mem.obras \cup {o}] /\ mem \in Perfil
  BY DEF IInv, Tipos, TiposCurso, Perfil, NuevaObra
<1>b. mem' \in Perfil /\ mem' # Nada /\ mem'.gen = mem.gen /\ mem'.obras = mem.obras \cup {o}
  <2>1. mem' \in Perfil
    BY <1>a DEF Perfil
  <2> QED  BY <1>a, <2>1, NadaAssumption
<1>1. Tipos'
  BY <1>b DEF IInv, Tipos, TiposDir, EsNuevo, TiposCurso, NuevaObra, Trabaja, disco
<1>2. Movidas'
  BY DEF IInv, Movidas, Corre, NuevaObra, Trabaja, disco
<1>3. EnCurso'
  BY DEF IInv, EnCurso, Corre, Borra, NuevaObra, Trabaja, disco
<1>4. NadaSePierde'
  BY DEF IInv, NadaSePierde, MisCajas, NuevaObra, Trabaja, disco
<1>5. ~roto' => Honesto'
  BY <1>b DEF IInv, Honesto, Sano, Corre, Borra, Entero, MisCajas, NuevaObra, Trabaja, disco
<1> QED
  BY <1>1, <1>2, <1>3, <1>4, <1>5 DEF IInv

LEMMA GuardaPaso ==
  ASSUME IInv, Guarda
  PROVE  IInv'
<1>1. Tipos'
  <2>1. mem \in Valor("estado") \cup {Nada} /\ "estado" \in Entradas
    BY DEF IInv, Tipos, TiposCurso, Valor, Entradas
  <2>2. TiposDir'
    BY <2>1, Pone DEF IInv, Tipos, Guarda
  <2> QED  BY <2>2 DEF IInv, Tipos, EsNuevo, TiposCurso, Guarda, Trabaja
<1>2. Movidas'
  BY DEF IInv, Movidas, Corre, Guarda, Trabaja, disco
<1>3. EnCurso'
  BY DEF IInv, EnCurso, Corre, Borra, Guarda, Trabaja, disco
<1>4. NadaSePierde'
  BY DEF IInv, NadaSePierde, MisCajas, Guarda, Trabaja, disco
<1>5. ~roto' => Honesto'
  BY DEF IInv, Honesto, Sano, Corre, Borra, Entero, EnDos, MisCajas, EnCurso, Guarda, Trabaja, disco
<1> QED
  BY <1>1, <1>2, <1>3, <1>4, <1>5 DEF IInv

LEMMA NuevaCajaPaso ==
  ASSUME IInv, NEW o \in Obras, NuevaCaja(o)
  PROVE  IInv'
<1> DEFINE v == [gen |-> IF dir["xmr"] = Nada THEN mem.gen ELSE dir["xmr"].gen,
                 cajas |-> MisCajas \cup {[obra |-> o, num |-> hechas']}]
<1>a. dir' = [dir EXCEPT !["xmr"] = v] /\ hechas' = hechas + 1 /\ hechas' \in 1 .. MaxCajas
  BY RespaldoAssumption DEF NuevaCaja, IInv, Tipos, TiposDir, TiposCurso, Entradas
<1>b. v \in Material /\ "xmr" \in Entradas
  <2>1. v.cajas \in SUBSET Cajas
    BY <1>a, Datos DEF IInv, Cajas
  <2>2. v.gen \in 0 .. MaxGen
    BY Datos DEF IInv, Material, Perfil, Tipos, TiposCurso, NuevaCaja
  <2> HIDE DEF v
  <2>3. v = [gen |-> v.gen, cajas |-> v.cajas]
    BY DEF v
  <2> QED  BY <2>1, <2>2, <2>3 DEF Material, Entradas
<1>c. v.gen = (IF dir["xmr"] = Nada THEN mem.gen ELSE dir["xmr"].gen) /\ v.cajas = MisCajas \cup {[obra |-> o, num |-> hechas']}
  OBVIOUS
<1> HIDE DEF v
<1>d. TiposDir' /\ dir'["xmr"] = v /\ \A m \in Entradas \ {"xmr"} : dir'[m] = dir[m]
  <2>1. v \in Valor("xmr") \cup {Nada}
    BY <1>b DEF Valor
  <2> QED  BY <1>a, <1>b, <2>1, Pone DEF IInv, Tipos
<1>e. MisCajas' = MisCajas \cup {[obra |-> o, num |-> hechas']}
  BY <1>b, <1>c, <1>d, Nadas DEF MisCajas, Material, Valor
<1>1. Tipos'
  BY <1>a, <1>d DEF IInv, Tipos, EsNuevo, TiposCurso, NuevaCaja, Trabaja
<1>2. Movidas'
  BY DEF IInv, Movidas, Corre, NuevaCaja, Trabaja, disco
<1>3. EnCurso'
  BY DEF IInv, EnCurso, Corre, Borra, NuevaCaja, Trabaja, disco
<1>4. NadaSePierde'
  <2> SUFFICES ASSUME NEW k \in 1 .. hechas'
               PROVE \/ \E c \in MisCajas' : c.num = k
                     \/ \E i \in DOMAIN previos' :
                          "xmr" \in DOMAIN previos'[i] /\ \E c \in previos'[i]["xmr"].cajas : c.num = k
    BY DEF NadaSePierde
  <2>1. CASE k = hechas'
    <3>1. [obra |-> o, num |-> hechas'] \in MisCajas'
      BY <1>e
    <3> QED  BY <2>1, <3>1
  <2>2. CASE k # hechas'
    <3>1. k \in 1 .. hechas /\ previos' = previos
      BY <1>a, <2>2 DEF IInv, Tipos, TiposCurso, NuevaCaja
    <3> QED  BY <1>e, <3>1 DEF IInv, NadaSePierde
  <2> QED  BY <2>1, <2>2
<1>5. ~roto' => Honesto'
  <2> SUFFICES ASSUME ~roto PROVE Honesto'
    BY DEF NuevaCaja, Trabaja
  <2>1. /\ Corre /\ fase' = fase /\ mem' = mem /\ listo' = listo /\ copias' = copias /\ prep' = prep /\ expo' = expo
        /\ mem # Nada /\ dir["estado"] # Nada /\ dir'["estado"] = dir["estado"] /\ dir'["ultimo"] = dir["ultimo"]
        /\ o \in dir["estado"].obras \ ObrasDe(MisCajas)
    BY <1>d DEF NuevaCaja, Trabaja, Entradas
  <2>2. Honesto /\ Sano
    BY <2>1 DEF IInv, Honesto, Corre
  <2>3. dir'["xmr"].gen = dir'["estado"].gen
    BY <1>c, <1>d, <2>1, <2>2 DEF Honesto, Sano
  <2>4. Unicas(MisCajas) /\ ObrasDe(MisCajas) \subseteq dir["estado"].obras
    BY <2>2 DEF Sano, MisCajas, Unicas, ObrasDe
  <2>5. Unicas(MisCajas')
    BY <1>e, <2>1, <2>4 DEF Unicas, ObrasDe
  <2>6. ObrasDe(MisCajas') \subseteq dir'["estado"].obras
    BY <1>e, <2>1, <2>4 DEF ObrasDe
  <2>7. MisCajas \subseteq MisCajas'
    BY <1>e
  <2>8. Sano'
    BY <2>1, <2>2, <2>3, <2>5, <2>6, <2>7 DEF Sano
  <2> QED  BY <2>1, <2>2, <2>7, <2>8 DEF Honesto, Corre, Borra, Entero
<1> QED
  BY <1>1, <1>2, <1>3, <1>4, <1>5 DEF IInv

LEMMA ExportarPaso ==
  ASSUME IInv, Exportar
  PROVE  IInv'
<1> DEFINE c == [obras |-> dir["estado"].obras, cajas |-> MisCajas]
           e == [copia |-> c, huella |-> huella(c), escrita |-> FALSE]
<1>a. expo' = e /\ e.copia = c /\ e.huella = huella(c) /\ e.escrita = FALSE
      /\ c.obras = dir["estado"].obras /\ c.cajas = MisCajas
      /\ e = [copia |-> e.copia, huella |-> e.huella, escrita |-> e.escrita]
  BY DEF Exportar
<1>b. c \in Copia
  BY Datos DEF IInv, Copia, Perfil, Exportar
<1>c. huella(c) \in Huella
  BY <1>b DEF Huella, huella, Copia, ObrasDe, Cajas
<1> HIDE DEF c, e
<1>1. Tipos'
  BY <1>a, <1>b, <1>c DEF IInv, Tipos, TiposDir, EsNuevo, TiposCurso, Exportar, Trabaja, disco
<1>2. Movidas'
  BY DEF IInv, Movidas, Corre, Exportar, Trabaja, disco
<1>3. EnCurso'
  BY <1>a DEF IInv, EnCurso, Corre, Borra, Exportar, Trabaja, disco
<1>4. NadaSePierde'
  BY DEF IInv, NadaSePierde, MisCajas, Exportar, Trabaja, disco
<1>5. ~roto' => Honesto'
  <2> SUFFICES ASSUME ~roto PROVE Honesto'
    BY DEF Exportar, Trabaja
  <2>1. Honesto /\ Sano
    BY DEF IInv, Honesto, Corre, Exportar, Trabaja
  <2>2. Unicas(MisCajas) /\ ObrasDe(MisCajas) \subseteq dir["estado"].obras
    BY <2>1 DEF Sano, MisCajas, Unicas, ObrasDe
  <2>3. validar(c)
    BY <1>a, <1>b, <2>2, Validas
  <2> QED  BY <1>a, <2>1, <2>3 DEF Honesto, Sano, Corre, Borra, Entero, MisCajas, Exportar, Trabaja, disco
<1> QED
  BY <1>1, <1>2, <1>3, <1>4, <1>5 DEF IInv

LEMMA GuardarArchivoPaso ==
  ASSUME IInv, GuardarArchivo
  PROVE  IInv'
<1>a. expo' # Nada => expo' = [copia |-> expo.copia, huella |-> expo.huella, escrita |-> TRUE]
  BY DEF IInv, Tipos, TiposCurso, GuardarArchivo
<1>b. expo # Nada
  BY DEF GuardarArchivo
<1>1. Tipos'
  BY <1>a, <1>b DEF IInv, Tipos, TiposDir, EsNuevo, TiposCurso, GuardarArchivo, Trabaja, disco
<1>2. Movidas'
  BY DEF IInv, Movidas, Corre, GuardarArchivo, Trabaja, disco
<1>3. EnCurso'
  BY <1>a, <1>b DEF IInv, EnCurso, Corre, Borra, GuardarArchivo, Trabaja, disco
<1>4. NadaSePierde'
  BY DEF IInv, NadaSePierde, MisCajas, GuardarArchivo, Trabaja, disco
<1>5. ~roto' => Honesto'
  <2>1. copias \subseteq copias'
    BY DEF GuardarArchivo
  <2> QED  BY <1>a, <1>b, <2>1 DEF IInv, Honesto, Sano, Corre, Borra, Entero, MisCajas, GuardarArchivo, Trabaja, disco
<1> QED
  BY <1>1, <1>2, <1>3, <1>4, <1>5 DEF IInv

LEMMA MarcarHechoPaso ==
  ASSUME IInv, MarcarHecho
  PROVE  IInv'
<1>1. Tipos'
  <2>1. expo.huella \in Valor("ultimo") \cup {Nada} /\ "ultimo" \in Entradas
    BY DEF IInv, Tipos, TiposCurso, MarcarHecho, Valor, Entradas
  <2>2. TiposDir'
    BY <2>1, Pone DEF IInv, Tipos, MarcarHecho
  <2> QED  BY <2>2 DEF IInv, Tipos, EsNuevo, TiposCurso, MarcarHecho, Trabaja
<1>2. Movidas'
  BY DEF IInv, Movidas, Corre, MarcarHecho, Trabaja, disco
<1>3. EnCurso'
  BY DEF IInv, EnCurso, Corre, Borra, MarcarHecho, Trabaja, disco
<1>4. NadaSePierde'
  BY DEF IInv, NadaSePierde, MisCajas, MarcarHecho, Trabaja, disco
<1>5. ~roto' => Honesto'
  BY DEF IInv, Honesto, Sano, Corre, Borra, Entero, EnDos, MisCajas, EnCurso, MarcarHecho, Trabaja, disco
<1> QED
  BY <1>1, <1>2, <1>3, <1>4, <1>5 DEF IInv

-----------------------------------------------------------------------------
(* A preparation.                                                          *)

LEMMA PrepararPaso ==
  ASSUME IInv, NEW c \in copias, NEW r \in BOOLEAN, Preparar(c, r)
  PROVE  IInv'
<1>1. Tipos'
  <2>1. EsNuevo(Vacio)
    BY DEF EsNuevo, Vacio, EntradasDe
  <2>2. c \in Copia /\ prep' \in Preparacion
    BY DEF IInv, Tipos, TiposCurso, Preparar, Preparacion
  <2>3. gen' \in 0 .. MaxGen
    BY RespaldoAssumption DEF IInv, Tipos, TiposCurso, Preparar
  <2> QED  BY <2>1, <2>2, <2>3 DEF IInv, Tipos, TiposDir, EsNuevo, TiposCurso, Preparar, Prepara
<1>2. Movidas'
  BY DEF IInv, Movidas, Corre, Preparar, Prepara, disco
<1>3. EnCurso'
  BY DEF IInv, EnCurso, Corre, Borra, Preparar, Prepara, disco
<1>4. NadaSePierde'
  BY DEF IInv, NadaSePierde, MisCajas, Preparar, Prepara, disco
<1>5. ~roto' => Honesto'
  BY DEF IInv, Honesto, Sano, Corre, Borra, Entero, EnDos, MisCajas, EnCurso, Preparar, Prepara, disco
<1> QED
  BY <1>1, <1>2, <1>3, <1>4, <1>5 DEF IInv

LEMMA ArmaPaso ==
  ASSUME IInv, Arma
  PROVE  IInv'
<1>a. prep.copia \in Copia /\ gen \in 0 .. MaxGen
  BY DEF IInv, Tipos, TiposCurso, Arma, Preparacion
<1>b. prep' = [paso |-> "borra", copia |-> prep.copia]
  BY DEF IInv, Tipos, TiposCurso, Arma, Preparacion
<1>1. Tipos'
  <2>1. EsNuevo(tmp')
    <3> DEFINE N == Nueva(prep.copia, gen)
    <3>1. DOMAIN N = {"estado", "ultimo", FaseA} \cup {n \in {"xmr"} : prep.copia.cajas # {}}
          /\ EntradasDe(N) /\ N[FaseA] = Nada
      BY <1>a, DeNueva
    <3>2. tmp' = N
      BY DEF Arma
    <3> HIDE DEF N
    <3> QED  BY <3>1, <3>2 DEF EsNuevo, Entradas
  <2>2. prep' \in Preparacion
    BY <1>a, <1>b DEF Preparacion
  <2> QED  BY <2>1, <2>2 DEF IInv, Tipos, TiposDir, EsNuevo, TiposCurso, Arma, Prepara
<1>2. Movidas'
  BY DEF IInv, Movidas, Corre, Arma, Prepara, disco
<1>3. EnCurso'
  BY <1>b DEF IInv, EnCurso, Corre, Borra, Arma, Prepara
<1>4. NadaSePierde'
  BY DEF IInv, NadaSePierde, MisCajas, Arma, Prepara, disco
<1>5. ~roto' => Honesto'
  BY DEF IInv, Honesto, Sano, Corre, Borra, Entero, EnDos, MisCajas, EnCurso, Arma, Prepara, disco
<1> QED
  BY <1>1, <1>2, <1>3, <1>4, <1>5 DEF IInv

LEMMA BorraListoPaso ==
  ASSUME IInv, BorraListo
  PROVE  IInv'
<1>1. Tipos'
  <2>1. EsNuevo(listo')
    <3>1. CASE listo' = Nada
      BY <3>1 DEF EsNuevo
    <3>2. ASSUME NEW n \in DOMAIN listo, listo' = Restrict(listo, DOMAIN listo \ {n})
          PROVE  EsNuevo(listo')
      <4>1. listo # Nada /\ EsNuevo(listo)
        BY DEF IInv, Tipos, BorraListo
      <4> DEFINE h == Restrict(listo, DOMAIN listo \ {n})
      <4>2. DOMAIN h = DOMAIN listo \ {n} /\ EntradasDe(h) /\ (\A x \in DOMAIN h : h[x] = listo[x]) /\ h # Nada
        BY <4>1, Menos DEF EsNuevo
      <4>3. listo' = h
        BY <3>2
      <4> HIDE DEF h
      <4> QED  BY <4>1, <4>2, <4>3 DEF EsNuevo
    <3> QED  BY <3>1, <3>2 DEF BorraListo
  <2> QED  BY <2>1 DEF IInv, Tipos, TiposDir, EsNuevo, TiposCurso, BorraListo, Prepara
<1>2. Movidas'
  BY DEF IInv, Movidas, Corre, BorraListo, Prepara, disco
<1>3. EnCurso'
  BY DEF IInv, EnCurso, Corre, Borra, BorraListo, Prepara, disco
<1>4. NadaSePierde'
  BY DEF IInv, NadaSePierde, MisCajas, BorraListo, Prepara, disco
<1>5. ~roto' => Honesto'
  BY DEF IInv, Honesto, Sano, Corre, Borra, Entero, EnDos, MisCajas, EnCurso, BorraListo, Prepara, disco
<1> QED
  BY <1>1, <1>2, <1>3, <1>4, <1>5 DEF IInv

LEMMA RenombraPaso ==
  ASSUME IInv, Renombra
  PROVE  IInv'
<1>1. Tipos'
  BY DEF IInv, Tipos, TiposDir, EsNuevo, TiposCurso, Renombra, Prepara, disco
<1>2. Movidas'
  BY DEF IInv, Movidas, Corre, Renombra, Prepara, disco
<1>3. EnCurso'
  BY DEF IInv, EnCurso, Corre, Borra, Renombra, Prepara, disco
<1>4. NadaSePierde'
  BY DEF IInv, NadaSePierde, MisCajas, Renombra, Prepara, disco
<1>5. ~roto' => Honesto'
  <2> SUFFICES ASSUME ~roto PROVE Honesto'
    BY DEF Renombra, Prepara
  <2>1. /\ Corre /\ Borra /\ listo = Nada /\ listo' = Nueva(prep.copia, gen) /\ prep.copia \in copias /\ validar(prep.copia)
        /\ fase' = fase /\ dir' = dir /\ copias' = copias /\ mem' = mem /\ expo' = expo /\ prep' = Nada
    BY DEF Renombra, Prepara, IInv, EnCurso, Borra
  <2>2. Honesto /\ Sano
    BY <2>1 DEF IInv, Honesto
  <2>3. gen \in 0 .. MaxGen /\ prep.copia \in Copia
    BY <2>1 DEF IInv, Tipos, TiposCurso
  <2>4. FaseA \in DOMAIN listo' /\ Entero'
    <3>1. FaseA \in DOMAIN Nueva(prep.copia, gen)
      <4> DEFINE N == Nueva(prep.copia, gen)
      <4>1. DOMAIN N = {"estado", "ultimo", FaseA} \cup {n \in {"xmr"} : prep.copia.cajas # {}}
        BY <2>3, DeNueva
      <4> HIDE DEF N
      <4>2. FaseA \in DOMAIN N
        BY <4>1
      <4> QED  BY <4>2 DEF N
    <3> QED  BY <2>1, <2>3, <3>1 DEF Entero
  <2>5. Sano'
    BY <2>1, <2>2 DEF Sano, MisCajas
  <2> QED  BY <2>1, <2>2, <2>4, <2>5 DEF Honesto, Corre, MisCajas
<1> QED
  BY <1>1, <1>2, <1>3, <1>4, <1>5 DEF IInv

LEMMA PrepararFallaPaso ==
  ASSUME IInv, PrepararFalla
  PROVE  IInv'
<1>1. Tipos'
  BY DEF IInv, Tipos, TiposDir, EsNuevo, TiposCurso, PrepararFalla, Prepara, Falla, disco
<1>2. Movidas'
  BY DEF IInv, Movidas, Corre, PrepararFalla, Prepara, Falla, disco
<1>3. EnCurso'
  BY DEF IInv, EnCurso, Corre, Borra, PrepararFalla, Prepara, Falla, disco
<1>4. NadaSePierde'
  BY DEF IInv, NadaSePierde, MisCajas, PrepararFalla, Prepara, Falla, disco
<1>5. ~roto' => Honesto'
  BY DEF IInv, Honesto, Sano, Corre, Borra, Entero, EnDos, MisCajas, EnCurso, PrepararFalla, Prepara, Falla, disco
<1> QED
  BY <1>1, <1>2, <1>3, <1>4, <1>5 DEF IInv

-----------------------------------------------------------------------------
(* Every step.                                                             *)

LEMMA InitIInv == Init => IInv
<1> SUFFICES ASSUME Init PROVE IInv
  OBVIOUS
<1>1. Tipos
  <2>1. [gen |-> 0, obras |-> {}] \in Perfil
    BY RespaldoAssumption DEF Perfil
  <2>2. TiposDir
    BY <2>1 DEF Init, TiposDir, Entradas, Valor
  <2>3. copias \subseteq Copia
    BY DEF Init, Copia
  <2> QED  BY <2>2, <2>3, RespaldoAssumption DEF Init, Tipos, EsNuevo, TiposCurso
<1>2. Movidas
  BY DEF Init, Movidas
<1>3. EnCurso
  BY DEF Init, EnCurso, Borra
<1>4. NadaSePierde
  BY DEF Init, NadaSePierde
<1>5. Honesto
  BY DEF Init, Honesto, Sano, Corre, Entradas
<1> QED
  BY <1>1, <1>2, <1>3, <1>4, <1>5 DEF IInv

LEMMA NextIInv == IInv /\ [Next]_vars => IInv'
<1> SUFFICES ASSUME IInv, [Next]_vars PROVE IInv'
  OBVIOUS
<1>1. CASE Arranque
  BY <1>1, SinPendientePaso, PendientePaso, MueveViejoPaso, QuitaFaseAPaso, MueveEscritoPaso, InstalaPaso,
     QuitaListoPaso, LeePaso DEF Arranque
<1>2. CASE SigueIgual \/ Corta \/ Reinicia
  BY <1>2, SigueIgualPaso, CortaPaso, ReiniciaPaso
<1>3. CASE \E o \in Obras : NuevaObra(o) \/ NuevaCaja(o)
  BY <1>3, NuevaObraPaso, NuevaCajaPaso
<1>4. CASE Guarda \/ Exportar \/ GuardarArchivo \/ MarcarHecho
  BY <1>4, GuardaPaso, ExportarPaso, GuardarArchivoPaso, MarcarHechoPaso
<1>5. CASE \E c \in copias, r \in BOOLEAN : Preparar(c, r)
  BY <1>5, PrepararPaso
<1>6. CASE Arma \/ BorraListo \/ Renombra \/ PrepararFalla
  BY <1>6, ArmaPaso, BorraListoPaso, RenombraPaso, PrepararFallaPaso
<1>7. CASE UNCHANGED vars
  <2>1. Tipos'
    BY <1>7 DEF vars, disco, curso, IInv, Tipos, TiposDir, EsNuevo, TiposCurso
  <2>2. Movidas' /\ NadaSePierde'
    BY <1>7 DEF vars, disco, curso, IInv, Movidas, NadaSePierde, MisCajas
  <2>3. EnCurso'
    BY <1>7 DEF vars, disco, curso, IInv, EnCurso, Corre, Borra
  <2>4. ~roto' => Honesto'
    BY <1>7 DEF vars, disco, curso, IInv, Honesto, Sano, Entero, EnDos, MisCajas, Corre, Borra
  <2> QED  BY <2>1, <2>2, <2>3, <2>4 DEF IInv
<1> QED
  BY <1>1, <1>2, <1>3, <1>4, <1>5, <1>6, <1>7 DEF Next

-----------------------------------------------------------------------------
(* What follows.                                                           *)

(* The invariant of the directories, in every state (respaldo.rs).         *)
THEOREM Invariante == Spec => []IInv
<1> QED
  BY InitIInv, NextIInv, PTL DEF Spec

(* The types of the variables.                                             *)
LEMMA DeTipos == IInv => TypeOK
<1> SUFFICES ASSUME IInv PROVE TypeOK
  OBVIOUS
<1>1. /\ dir["estado"] \in Perfil \cup {Nada} /\ dir["xmr"] \in Material \cup {Nada}
      /\ dir["ultimo"] \in Huella \cup {Nada}
  BY Datos DEF IInv
<1> QED
  BY <1>1 DEF TypeOK, IInv, Tipos, TiposDir, TiposCurso, Movidas, Preparacion

THEOREM TiposCorrectos == Spec => []TypeOK
<1> QED
  BY DeTipos, Invariante, PTL

(* No share ever written is lost, however the restoration is cut           *)
(* (aplicar_pendiente, mover_a_previo).                                    *)
THEOREM NadaSePierdeNunca == Spec => []NadaSePierde
<1>1. IInv => NadaSePierde
  BY DEF IInv
<1> QED
  BY <1>1, Invariante, PTL

(* What the program runs with comes of one restoration (cargar).           *)
LEMMA DeUna == IInv => SinMezcla
<1> SUFFICES ASSUME IInv, Corre, ~roto, dir["xmr"] # Nada
             PROVE  mem # Nada /\ mem.gen = dir["xmr"].gen
  BY DEF SinMezcla
<1>1. Honesto /\ Sano
  BY DEF IInv, Honesto, Corre
<1> QED
  BY <1>1 DEF Honesto, Sano

THEOREM NuncaMezcla == Spec => []SinMezcla
<1> QED
  BY DeUna, Invariante, PTL

(* Without a reminder there is a backup with everything (estado).          *)
LEMMA SinRecordatorio == IInv => FaltaHonesta
<1> SUFFICES ASSUME IInv, Corre, ~roto, mem # Nada, ~falta, mem.obras # {} \/ MisCajas # {}
             PROVE  \E c \in copias : validar(c) /\ mem.obras \subseteq c.obras /\ MisCajas \subseteq c.cajas
  BY DEF FaltaHonesta
<1>1. Honesto /\ Sano
  BY DEF IInv, Honesto, Corre
<1>2. /\ dir["ultimo"] # Nada
      /\ mem.obras \subseteq dir["ultimo"].obras /\ ObrasDe(MisCajas) \subseteq dir["ultimo"].cajas
  BY DEF falta, FaltaDe
<1>3. PICK c \in copias : validar(c) /\ dir["ultimo"] = huella(c) /\ c.cajas \subseteq MisCajas
  BY <1>1, <1>2 DEF Sano
<1>4. dir["ultimo"].obras = c.obras /\ dir["ultimo"].cajas = ObrasDe(c.cajas)
  BY <1>3 DEF huella
<1>5. Unicas(MisCajas)
  BY <1>1 DEF Sano, MisCajas, Unicas
<1>6. MisCajas \subseteq c.cajas
  <2> SUFFICES ASSUME NEW x \in MisCajas PROVE x \in c.cajas
    OBVIOUS
  <2>1. PICK y \in c.cajas : y.obra = x.obra
    BY <1>2, <1>4 DEF ObrasDe
  <2> QED  BY <1>3, <1>5, <2>1 DEF Unicas
<1> QED
  BY <1>2, <1>3, <1>4, <1>6

THEOREM RecordatorioHonesto == Spec => []FaltaHonesta
<1> QED
  BY SinRecordatorio, Invariante, PTL

=============================================================================
