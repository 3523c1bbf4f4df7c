-------------------------------- MODULE Respaldo --------------------------------
(***************************************************************************)
(* The full backup and its restoration, at the level of the files of the   *)
(* data directory (crates/konstruado-motor/src/respaldo.rs, persist.rs).   *)
(*                                                                         *)
(* Restoring prepares a directory beside the data while the program goes   *)
(* on saving, and the next start moves the old entries away and the new    *)
(* ones in, one rename at a time.  The program may be killed between any   *)
(* two of them.                                                            *)
(*                                                                         *)
(* An entry of the data directory is one value: estado.json (the jobs of   *)
(* the profile), xmr/ (the shares of the boxes; the seed would be one      *)
(* more) and ultimo-respaldo.json (what the last backup held).  daemon.url *)
(* moves like xmr/, which a backup may lack too.  Each value knows which   *)
(* restoration it came with.                                               *)
(***************************************************************************)
EXTENDS Naturals, FiniteSets, Sequences, SequencesExt, Functions

CONSTANTS
  Obras,     \* the jobs
  Nada,
  MaxCajas,  \* bound: boxes made on this machine
  MaxCopias, \* bound: backups exported
  MaxGen,    \* bound: restorations prepared
  MaxFallas  \* bound: kills, errors ignored and preparations given up

ASSUME RespaldoAssumption ==
  /\ MaxCajas \in Nat /\ MaxCopias \in Nat /\ MaxGen \in Nat /\ MaxFallas \in Nat
  /\ IsFiniteSet(Obras)

VARIABLES
  dir,     \* the data directory: the value of each entry, or Nada
  previos, \* the directories previo-<date>
  tmp,     \* restaurar.tmp: the entries it has, or Nada
  listo,   \* restaurar.listo: the same
  copias,  \* the backup files that exist
  fase,    \* what the program does: "parado", "aplica", "lee", "corre"
  mem,     \* the profile in memory, or Nada: no account
  destino, \* the previo of this start, or 0
  prep,    \* the preparation under way: its step and its backup, or Nada
  expo,    \* the export under way, or Nada
  hechas,  \* boxes made so far
  gen,     \* restorations prepared so far
  completa, \* history: the last restoration put in place, and its boxes
  roto,    \* history: a kill while restaurar.listo was being removed, or a
           \* program that went on after its restoration failed
  fallas

disco == <<dir, previos, tmp, listo>>
curso == <<fase, mem, destino, prep, expo>>
vars == <<disco, copias, curso, hechas, gen, completa, roto, fallas>>

Entradas == {"estado", "xmr", "ultimo"}

(* Mutant: an entry that a backup may lack is forgotten.                   *)
VivosSinXmr == <<"estado", "ultimo">>

VIVOS == <<"estado", "xmr", "ultimo">>
FaseA == ".fase-a"
Vacio == [x \in {} |-> Nada]

Cajas == [obra : Obras, num : 1 .. MaxCajas]
Perfil == [gen : 0 .. MaxGen, obras : SUBSET Obras]
Material == [gen : 0 .. MaxGen, cajas : SUBSET Cajas]
Huella == [obras : SUBSET Obras, cajas : SUBSET Obras]
Copia == [obras : SUBSET Obras, cajas : SUBSET Cajas]

(* Nada stands for None, and for what is not there.                        *)
ASSUME NadaAssumption ==
  /\ Nada \notin Perfil /\ Nada \notin Material /\ Nada \notin Huella
  /\ Nada \notin [paso : {"arma", "borra"}, copia : Copia]
  /\ \A D \in SUBSET (Entradas \cup {FaseA}) :
       Nada \notin [D -> Perfil \cup Material \cup Huella \cup {Nada}]

ObrasDe(cajas) == {c.obra : c \in cajas}
huella(c) == [obras |-> c.obras, cajas |-> ObrasDe(c.cajas)]

(* validar_material: every share is of a job of the profile, and no job    *)
(* has two.                                                                *)
validar_material(c) ==
  /\ ObrasDe(c.cajas) \subseteq c.obras
  /\ Cardinality(ObrasDe(c.cajas)) = Cardinality(c.cajas)

(* validar: a backup has an account, which armar demanded.                 *)
validar(c) == validar_material(c)

hay_datos == dir["estado"] # Nada \/ (dir["xmr"] # Nada /\ dir["xmr"].cajas # {})

(* estado: what is missing from the last backup.                           *)
FaltaDe(ult, obras, cajas) ==
  IF ult = Nada THEN obras # {} \/ cajas # {}
  ELSE ~(obras \subseteq ult.obras /\ ObrasDe(cajas) \subseteq ult.cajas)

MisCajas == IF dir["xmr"] = Nada THEN {} ELSE dir["xmr"].cajas
falta == FaltaDe(dir["ultimo"], mem.obras, MisCajas)

Init ==
  /\ \E vacia \in BOOLEAN :
       /\ dir = [n \in Entradas |-> IF n = "estado" /\ ~vacia THEN [gen |-> 0, obras |-> {}] ELSE Nada]
       /\ copias = IF vacia THEN {[obras |-> Obras, cajas |-> {}]} ELSE {}
  /\ previos = << >> /\ tmp = Nada /\ listo = Nada
  /\ fase = "parado" /\ mem = Nada /\ destino = 0 /\ prep = Nada /\ expo = Nada
  /\ hechas = 0 /\ gen = 0 /\ completa = [gen |-> 0, cajas |-> {}] /\ roto = FALSE /\ fallas = 0

Corre == fase = "corre"
Borra == prep # Nada /\ prep.paso = "borra"
Falla == fallas < MaxFallas /\ fallas' = fallas + 1

-----------------------------------------------------------------------------
(* The start: aplicar_pendiente, before anything is read.                  *)

(* Nothing is pending: what a cut preparation left is removed.             *)
SinPendiente ==
  /\ fase = "parado" /\ listo = Nada
  /\ fase' = "lee" /\ tmp' = Nada
  /\ UNCHANGED <<dir, previos, listo, copias, mem, destino, prep, expo, hechas, gen, completa, roto, fallas>>

Pendiente ==
  /\ fase = "parado" /\ listo # Nada
  /\ fase' = "aplica"
  /\ UNCHANGED <<disco, copias, mem, destino, prep, expo, hechas, gen, completa, roto, fallas>>

(* A directory with an entry moved into it, over the one it had.           *)
Con(f, n, v) == [x \in DOMAIN f \cup {n} |-> IF x = n THEN v ELSE f[x]]

(* Mutant: the first previo is used again.                                 *)
MueveAlPrimero(n) ==
  /\ destino' = 1
  /\ previos' = IF previos = << >> THEN <<Con(Vacio, n, dir[n])>> ELSE [previos EXCEPT ![1] = Con(@, n, dir[n])]
  /\ dir' = [dir EXCEPT ![n] = Nada]

(* mover_a_previo: one directory for each start, with a name of its own.   *)
MueveAPrevio(n) ==
  /\ destino' = IF destino = 0 THEN Len(previos) + 1 ELSE destino
  /\ previos' = IF destino = 0 THEN Append(previos, Con(Vacio, n, dir[n]))
                ELSE [previos EXCEPT ![destino] = Con(@, n, dir[n])]
  /\ dir' = [dir EXCEPT ![n] = Nada]

Aplica == fase = "aplica" /\ UNCHANGED <<tmp, copias, mem, prep, expo, hechas, gen, completa, roto, fallas>>

(* Phase A: every live entry, in order, goes away, and then the mark.      *)
MueveViejo ==
  /\ Aplica /\ FaseA \in DOMAIN listo
  /\ \E i \in DOMAIN VIVOS :
       /\ dir[VIVOS[i]] # Nada /\ \A j \in 1 .. i - 1 : dir[VIVOS[j]] = Nada
       /\ MueveAPrevio(VIVOS[i])
  /\ UNCHANGED <<listo, fase>>

QuitaFaseA ==
  /\ Aplica /\ FaseA \in DOMAIN listo /\ \A i \in DOMAIN VIVOS : dir[VIVOS[i]] = Nada
  /\ listo' = Restrict(listo, DOMAIN listo \ {FaseA})
  /\ UNCHANGED <<dir, previos, destino, fase>>

(* Phase B: each prepared entry, after whatever was written meanwhile.     *)
MueveEscrito(n) ==
  /\ Aplica /\ FaseA \notin DOMAIN listo /\ n \in DOMAIN listo /\ dir[n] # Nada
  /\ MueveAPrevio(n)
  /\ UNCHANGED <<listo, fase>>

(* Mutant: a copy instead of a rename.                                     *)
InstalaCopia(n) ==
  /\ Aplica /\ FaseA \notin DOMAIN listo /\ n \in DOMAIN listo /\ dir[n] = Nada
  /\ dir' = [dir EXCEPT ![n] = listo[n]]
  /\ UNCHANGED <<listo, previos, destino, fase>>

Instala(n) ==
  /\ Aplica /\ FaseA \notin DOMAIN listo /\ n \in DOMAIN listo /\ dir[n] = Nada
  /\ dir' = [dir EXCEPT ![n] = listo[n]]
  /\ listo' = Restrict(listo, DOMAIN listo \ {n})
  /\ UNCHANGED <<previos, destino, fase>>

QuitaListo ==
  /\ Aplica /\ DOMAIN listo = {}
  /\ listo' = Nada /\ fase' = "lee"
  /\ UNCHANGED <<dir, previos, destino>>

(* A step of the restoration fails: the desktop prints it and goes on.     *)
SigueIgual ==
  /\ fase = "aplica" /\ Falla
  /\ fase' = "lee" /\ roto' = TRUE
  /\ UNCHANGED <<disco, copias, mem, destino, prep, expo, hechas, gen, completa>>

(* persist::cargar, cargar_shares.                                         *)
Lee ==
  /\ fase = "lee"
  /\ fase' = "corre" /\ mem' = dir["estado"] /\ destino' = 0
  /\ UNCHANGED <<disco, copias, prep, expo, hechas, gen, completa, roto, fallas>>

(* The process is killed, restarted by the program, or its start fails.    *)
Corta ==
  /\ fase # "parado" /\ Falla
  /\ fase' = "parado" /\ mem' = Nada /\ destino' = 0 /\ prep' = Nada /\ expo' = Nada
  /\ roto' = (roto \/ (Borra /\ listo # Nada))
  /\ UNCHANGED <<disco, copias, hechas, gen, completa>>

(* reiniciar_app, a second and a half after a preparation.                 *)
Reinicia ==
  /\ Corre /\ listo # Nada /\ prep = Nada
  /\ fase' = "parado" /\ mem' = Nada /\ expo' = Nada
  /\ UNCHANGED <<disco, copias, destino, prep, hechas, gen, completa, roto, fallas>>

-----------------------------------------------------------------------------
(* The program at work.                                                    *)
Trabaja == Corre /\ UNCHANGED <<fase, destino, prep, gen, completa, roto, fallas>>

NuevaObra(o) ==
  /\ Trabaja /\ mem # Nada /\ o \notin mem.obras
  /\ mem' = [mem EXCEPT !.obras = @ \cup {o}]
  /\ UNCHANGED <<disco, copias, expo, hechas>>

(* persist::guardar, each second: a profile without an account is not.     *)
Guarda ==
  /\ Trabaja /\ mem # Nada /\ dir["estado"] # mem
  /\ dir' = [dir EXCEPT !["estado"] = mem]
  /\ UNCHANGED <<previos, tmp, listo, copias, mem, expo, hechas>>

(* guardar_cuenta: a box is ready and its share is written.  Its rounds    *)
(* take longer than the loop takes to save the job.                        *)
NuevaCaja(o) ==
  /\ Trabaja /\ hechas < MaxCajas
  /\ mem # Nada /\ dir["estado"] # Nada /\ o \in dir["estado"].obras \ ObrasDe(MisCajas)
  /\ hechas' = hechas + 1
  /\ dir' = [dir EXCEPT !["xmr"] =
       [gen |-> IF @ = Nada THEN mem.gen ELSE @.gen, cajas |-> MisCajas \cup {[obra |-> o, num |-> hechas']}]]
  /\ UNCHANGED <<previos, tmp, listo, copias, mem, expo>>

(* Mutant: the print is taken of the profile in memory.                    *)
ExportarMemoria ==
  /\ Trabaja /\ mem # Nada /\ dir["estado"] # Nada /\ Cardinality(copias) < MaxCopias /\ expo = Nada
  /\ expo' = [copia |-> [obras |-> dir["estado"].obras, cajas |-> MisCajas],
              huella |-> [obras |-> mem.obras, cajas |-> ObrasDe(MisCajas)], escrita |-> FALSE]
  /\ UNCHANGED <<disco, copias, mem, hechas>>

(* exportar: the profile of the disk, as old as its last saving, and the   *)
(* shares; its print is of the same.                                       *)
Exportar ==
  /\ Trabaja /\ dir["estado"] # Nada /\ Cardinality(copias) < MaxCopias /\ expo = Nada
  /\ LET c == [obras |-> dir["estado"].obras, cajas |-> MisCajas]
     IN expo' = [copia |-> c, huella |-> huella(c), escrita |-> FALSE]
  /\ UNCHANGED <<disco, copias, mem, hechas>>

(* guardar_archivo: whole or nothing.                                      *)
GuardarArchivo ==
  /\ Trabaja /\ expo # Nada /\ ~expo.escrita
  /\ \/ copias' = copias \cup {expo.copia} /\ expo' = [expo EXCEPT !.escrita = TRUE]
     \/ expo' = Nada /\ UNCHANGED copias
  /\ UNCHANGED <<disco, mem, hechas>>

(* marcar_hecho, respaldo_guardado.                                        *)
MarcarHecho ==
  /\ Trabaja /\ expo # Nada /\ expo.escrita
  /\ dir' = [dir EXCEPT !["ultimo"] = expo.huella] /\ expo' = Nada
  /\ UNCHANGED <<previos, tmp, listo, copias, mem, hechas>>

-----------------------------------------------------------------------------
(* preparar: the new directory is written beside, and one rename makes it  *)
(* the pending one.                                                        *)

(* archivos_restauracion: nothing of xmr/ without a seed and without boxes;*)
(* the ledgers start empty.                                                *)
archivos_restauracion(c) == IF c.cajas = {} THEN {} ELSE {"xmr"}

Nueva(c, g) ==
  [n \in archivos_restauracion(c) \cup {"estado", "ultimo", FaseA} |->
     CASE n = "estado" -> [gen |-> g, obras |-> c.obras]
       [] n = "xmr" -> [gen |-> g, cajas |-> c.cajas]
       [] n = "ultimo" -> huella(c)
       [] OTHER -> Nada]

Prepara == Corre /\ UNCHANGED <<fase, dir, previos, copias, mem, destino, expo, hechas>>

(* Whoever asks with data in place has confirmed (hay_datos, reemplazar).  *)
Preparar(c, reemplazar) ==
  /\ Prepara /\ prep = Nada /\ gen < MaxGen
  /\ validar(c) /\ (hay_datos => reemplazar)
  /\ prep' = [paso |-> "arma", copia |-> c] /\ gen' = gen + 1 /\ tmp' = Vacio
  /\ UNCHANGED <<listo, completa, roto, fallas>>

Arma ==
  /\ Prepara /\ prep # Nada /\ prep.paso = "arma"
  /\ tmp' = Nueva(prep.copia, gen)
  /\ prep' = [prep EXCEPT !.paso = "borra"]
  /\ UNCHANGED <<listo, gen, completa, roto, fallas>>

(* remove_dir_all(listo), entry by entry, in any order.                    *)
BorraListo ==
  /\ Prepara /\ Borra /\ listo # Nada
  /\ \/ \E n \in DOMAIN listo : listo' = Restrict(listo, DOMAIN listo \ {n})
     \/ DOMAIN listo = {} /\ listo' = Nada
  /\ UNCHANGED <<prep, tmp, gen, completa, roto, fallas>>

Renombra ==
  /\ Prepara /\ Borra /\ listo = Nada
  /\ listo' = tmp /\ tmp' = Nada /\ prep' = Nada /\ completa' = [gen |-> gen, cajas |-> prep.copia.cajas]
  /\ UNCHANGED <<gen, roto, fallas>>

(* A file cannot be written, or the rename finds what could not be removed.*)
PrepararFalla ==
  /\ Prepara /\ prep # Nada /\ Falla
  /\ prep' = Nada /\ tmp' = Nada
  /\ roto' = (roto \/ (Borra /\ listo # Nada))
  /\ UNCHANGED <<listo, gen, completa>>

Arranque == SinPendiente \/ Pendiente \/ MueveViejo \/ QuitaFaseA
            \/ (\E n \in Entradas : MueveEscrito(n) \/ Instala(n)) \/ QuitaListo \/ Lee

Next ==
  \/ Arranque \/ SigueIgual \/ Corta \/ Reinicia
  \/ \E o \in Obras : NuevaObra(o) \/ NuevaCaja(o)
  \/ Guarda \/ Exportar \/ GuardarArchivo \/ MarcarHecho
  \/ \E c \in copias, r \in BOOLEAN : Preparar(c, r)
  \/ Arma \/ BorraListo \/ Renombra \/ PrepararFalla

Spec == Init /\ [][Next]_vars

(* Whoever starts the program lets it start; a preparation ends, and the   *)
(* program restarts itself after it.                                       *)
SpecJusta == Spec /\ WF_vars(Arranque) /\ WF_vars(Reinicia) /\ WF_vars(Arma \/ BorraListo \/ Renombra)

-----------------------------------------------------------------------------
TypeOK ==
  /\ dir["estado"] \in Perfil \cup {Nada} /\ dir["xmr"] \in Material \cup {Nada} /\ dir["ultimo"] \in Huella \cup {Nada}
  /\ DOMAIN dir = Entradas
  /\ copias \subseteq Copia
  /\ fase \in {"parado", "aplica", "lee", "corre"} /\ mem \in Perfil \cup {Nada}
  /\ destino \in 0 .. Len(previos) /\ prep \in [paso : {"arma", "borra"}, copia : Copia] \cup {Nada}
  /\ hechas \in 0 .. MaxCajas /\ completa.gen \in 0 .. gen /\ gen \in 0 .. MaxGen

(* No share that was ever written is lost by a restoration, however it is  *)
(* cut, retried or left half done: it is in use or in some previo          *)
(* (aplicar_pendiente, mover_a_previo).                                    *)
NadaSePierde ==
  \A k \in 1 .. hechas :
    \/ \E c \in MisCajas : c.num = k
    \/ \E i \in DOMAIN previos :
         "xmr" \in DOMAIN previos[i] /\ \E c \in previos[i]["xmr"].cajas : c.num = k

(* What the program runs with is never a mix of what was there and what    *)
(* was restored (the promise of respaldo.rs), unless the restoration was   *)
(* cut while an earlier one was being removed or its failure was ignored.  *)
SinMezcla ==
  Corre /\ ~roto =>
    dir["xmr"] = Nada \/ (mem # Nada /\ mem.gen = dir["xmr"].gen)

(* When the reminder of the backup is off, one backup file that can be     *)
(* restored has every job and every box there is (estado, marcar_hecho).   *)
FaltaHonesta ==
  Corre /\ ~roto /\ mem # Nada /\ ~falta /\ (mem.obras # {} \/ MisCajas # {}) =>
    \E c \in copias : validar(c) /\ mem.obras \subseteq c.obras /\ MisCajas \subseteq c.cajas

(* A restoration that was prepared is in use in the end, whole, unless     *)
(* another one is asked for.                                               *)
RestauraTermina ==
  \A g \in 1 .. MaxGen :
    completa.gen = g ~>
      roto \/ gen > g \/ (Corre /\ mem # Nada /\ mem.gen = g /\ completa.cajas \subseteq MisCajas)

=============================================================================
