---------------------------------- MODULE Dkg ----------------------------------
(***************************************************************************)
(* The generation of the keys of a box (crates/xmr-joint/src/dkg.rs, led   *)
(* by the ticks of the two boxes, crates/konstruado-motor/src/caja.rs).    *)
(*                                                                         *)
(* Each side makes a commitment and sends it; with the other's commitment  *)
(* it makes a share only the other can use; with the other's share it has  *)
(* its half of the keys.  The principal then draws the view key, which     *)
(* completes the account, and announces it.  A run lives in memory; the    *)
(* finished account is a file.  A run of a person is named by its number,  *)
(* and an account by the two runs that made it: they fix its keys, and the *)
(* principal's run draws one view.                                         *)
(*                                                                         *)
(* Messages arrive in the order they were sent unless one is lost or       *)
(* overtakes another.  Both have a wallet once they are listo.             *)
(***************************************************************************)
EXTENDS Naturals, FiniteSets, Sequences, SequencesExt

CONSTANTS
  Mandante, Contratista, Nada,
  MaxTropiezos \* bound: times something goes wrong

Partes == {Mandante, Contratista}

ASSUME DkgAssumption == MaxTropiezos \in Nat /\ Mandante # Contratista

(* Nada stands for None.                                                   *)
ASSUME NadaAssumption ==
  /\ Nada \notin Nat /\ Nada \notin [m : Nat, c : Nat]
  /\ Nada \notin [mia : Nat, suya : Nat \cup {Nada}, fase : {"commit", "share", "view", "fin"}, envie : BOOLEAN]
  /\ Nada \notin [paso : {"commit"}, de : Nat] \cup [paso : {"share"}, de : Nat, con : Nat]
  /\ Nada \notin [paso : {"view"}, cuenta : [m : Nat, c : Nat]]

VARIABLES
  listo,     \* those whose copy of the deal is firm
  corrida,   \* the run of each, or Nada
  buzon,     \* the first message of each kind a person has not used yet
  cuenta,    \* the account of the box each holds, or Nada
  disco,     \* the account in each one's share file, or Nada
  respaldos, \* the accounts each one lost the files of, and has a backup of
  pedir,     \* whether the contractor asked for the view again
  red,       \* the messages on their way to each
  nacidas,   \* the runs each started
  tropiezos, \* counter of the bound
  perdidas,  \* history: the accounts lost with the files that held them
  dano       \* history: what a run needs was lost, or came in another order

vars == <<listo, corrida, buzon, cuenta, disco, respaldos, pedir, red, nacidas, tropiezos, perdidas, dano>>

Otro(n) == IF n = Mandante THEN Contratista ELSE Mandante

Num == 1 .. MaxTropiezos + 1
Cuenta == [m : Num, c : Num]
Fase == {"commit", "share", "view", "fin"}
Corrida == [mia : Num, suya : Num \cup {Nada}, fase : Fase, envie : BOOLEAN]
Commit == [paso : {"commit"}, de : Num]
Share == [paso : {"share"}, de : Num, con : Num]
View == [paso : {"view"}, cuenta : Cuenta]
Pedir == [paso |-> "pedir"]
Buzon == [commit : Commit \cup {Nada}, share : Share \cup {Nada}, view : View \cup {Nada}]

TypeOK ==
  /\ listo \subseteq Partes
  /\ corrida \in [Partes -> Corrida \cup {Nada}]
  /\ buzon \in [Partes -> Buzon]
  /\ cuenta \in [Partes -> Cuenta \cup {Nada}]
  /\ disco \in [Partes -> Cuenta \cup {Nada}]
  /\ respaldos \in [Partes -> SUBSET Cuenta]
  /\ red \in [Partes -> Seq(Commit \cup Share \cup View \cup {Pedir})]
  /\ nacidas \in [Partes -> 0 .. MaxTropiezos + 1]
  /\ pedir \in BOOLEAN /\ dano \in BOOLEAN /\ tropiezos \in 0 .. MaxTropiezos /\ perdidas \in 0 .. tropiezos

BuzonVacio == [commit |-> Nada, share |-> Nada, view |-> Nada]

Init ==
  /\ listo = {}
  /\ corrida = [n \in Partes |-> Nada]
  /\ buzon = [n \in Partes |-> BuzonVacio]
  /\ cuenta = [n \in Partes |-> Nada]
  /\ disco = [n \in Partes |-> Nada]
  /\ respaldos = [n \in Partes |-> {}]
  /\ pedir = FALSE /\ dano = FALSE /\ tropiezos = 0 /\ perdidas = 0
  /\ red = [n \in Partes |-> << >>]
  /\ nacidas = [n \in Partes |-> 0]

Tropieza == tropiezos < MaxTropiezos /\ tropiezos' = tropiezos + 1

-----------------------------------------------------------------------------
(* DkgParty: a run r and what it does with a message.  A message that      *)
(* comes out of turn, or does not fit, leaves the run finished with        *)
(* nothing (mem::replace by Done), and no later message changes that.      *)

Empieza(n) == [mia |-> nacidas[n] + 1, suya |-> Nada, fase |-> "commit", envie |-> FALSE]

IngestCommit(r, m) ==
  CASE m = Nada -> r
    [] m # Nada /\ r.fase = "commit" -> [r EXCEPT !.fase = "share", !.suya = m.de]
    [] OTHER -> [r EXCEPT !.fase = "fin"]

(* The share has to be the one the run of that commitment made for this    *)
(* one.  The principal is done with it.                                    *)
Encaja(r, m) == r.fase = "share" /\ m.de = r.suya /\ m.con = r.mia

IngestShare(n, r, m) ==
  CASE m = Nada -> r
    [] m # Nada /\ n = Contratista /\ Encaja(r, m) -> [r EXCEPT !.fase = "view"]
    [] OTHER -> [r EXCEPT !.fase = "fin"]

(* Mutant: the announced address is not compared.                          *)
SinComparar(r, m) == TRUE

(* The announced address has to be the one of these keys with that view.   *)
MismaDireccion(r, m) == m.cuenta = [m |-> r.suya, c |-> r.mia]

IngestView(r, m) == IF m = Nada THEN r ELSE [r EXCEPT !.fase = "fin"]

-----------------------------------------------------------------------------
(* The copy of the deal of n becomes firm.                                 *)
Firme(n) ==
  /\ n \notin listo
  /\ listo' = listo \cup {n}
  /\ UNCHANGED <<corrida, buzon, cuenta, disco, respaldos, pedir, red, nacidas, tropiezos, perdidas, dano>>

(* ingerir and buffer_dkg: a message is kept if none of its kind is there; *)
(* who has an account answers nothing but a request for the view.          *)
Guardado(n, m) ==
  IF cuenta[n] = Nada /\ buzon[n][m.paso] = Nada
  THEN [buzon EXCEPT ![n][m.paso] = m] ELSE buzon

Llega(n) ==
  /\ red[n] # << >>
  /\ LET m == Head(red[n]) IN
       IF m.paso = "pedir"
       THEN pedir' = TRUE /\ UNCHANGED buzon
       ELSE buzon' = Guardado(n, m) /\ UNCHANGED pedir
  /\ red' = [red EXCEPT ![n] = Tail(@)]
  /\ UNCHANGED <<listo, corrida, cuenta, disco, respaldos, nacidas, tropiezos, perdidas, dano>>

(* Mutant: the contractor only waits.                                      *)
NoPide(n, termina) == << >>

(* The contractor asks for the view on every tick: one request on the way  *)
(* stands for them.                                                        *)
Pide(n, termina) ==
  IF n = Contratista /\ ~termina /\ Pedir \notin ToSet(red[Mandante]) THEN <<Pedir>> ELSE << >>

(* avanzar_dkg: the step of a tick of n, who has no account.  sale tells   *)
(* whether what it sends finds a way out: a commitment that does not is    *)
(* tried again, a share never is.  guarda tells whether the file of a      *)
(* finished account could be written.                                      *)
Avanza(n, sale, guarda) ==
  LET b == buzon[n]
      r0 == IF corrida[n] = Nada THEN Empieza(n) ELSE corrida[n]
      r1 == IngestCommit(r0, b.commit)
      r2 == IngestShare(n, r1, b.share)
      r3 == IF n = Contratista THEN IngestView(r2, b.view) ELSE r2
      share == [paso |-> "share", de |-> r1.mia, con |-> r1.suya]
      hecha == IF n = Mandante THEN [m |-> r1.mia, c |-> r1.suya]
                               ELSE [m |-> r1.suya, c |-> r1.mia]
      termina == IF n = Mandante THEN b.share # Nada /\ Encaja(r1, b.share)
                 ELSE b.view # Nada /\ r2.fase = "view" /\ MismaDireccion(r2, b.view)
      comparte == r0.fase = "commit" /\ r1.fase = "share"
      dice == (IF r0.envie THEN << >> ELSE <<[paso |-> "commit", de |-> r0.mia]>>)
              \o (IF comparte THEN <<share>> ELSE << >>)
              \o (IF n = Mandante /\ termina THEN <<[paso |-> "view", cuenta |-> hecha]>> ELSE << >>)
              \o Pide(n, termina)
  IN
  /\ n \in listo /\ cuenta[n] = Nada
  /\ nacidas' = [nacidas EXCEPT ![n] = r0.mia]
  /\ red' = [red EXCEPT ![Otro(n)] = IF sale THEN @ \o dice ELSE @]
  /\ dano' = (dano \/ (comparte /\ ~sale))
  /\ buzon' = [buzon EXCEPT ![n] = BuzonVacio]
  /\ IF termina
     THEN /\ cuenta' = [cuenta EXCEPT ![n] = hecha]
          /\ corrida' = [corrida EXCEPT ![n] = Nada]
          /\ IF guarda THEN disco' = [disco EXCEPT ![n] = hecha] /\ UNCHANGED tropiezos
                       ELSE Tropieza /\ UNCHANGED disco
     ELSE /\ corrida' = [corrida EXCEPT ![n] = [r3 EXCEPT !.envie = r0.envie \/ sale]]
          /\ UNCHANGED <<cuenta, disco, tropiezos>>
  /\ UNCHANGED <<listo, respaldos, pedir, perdidas>>

(* The principal, who has the account, announces it again.  One view on    *)
(* the way stands for its repetitions.                                     *)
Repite ==
  /\ pedir /\ cuenta[Mandante] # Nada
  /\ pedir' = FALSE
  /\ LET v == [paso |-> "view", cuenta |-> cuenta[Mandante]] IN
       red' = [red EXCEPT ![Contratista] = IF v \in ToSet(@) THEN @ ELSE Append(@, v)]
  /\ UNCHANGED <<listo, corrida, buzon, cuenta, disco, respaldos, nacidas, tropiezos, perdidas, dano>>

-----------------------------------------------------------------------------
Forman == {"commit", "share"}

(* A message is lost.  Only the requests and the views are sent again.     *)
Perder(n) ==
  /\ Tropieza
  /\ red[n] # << >>
  /\ dano' = (dano \/ Head(red[n]).paso \in Forman)
  /\ red' = [red EXCEPT ![n] = Tail(@)]
  /\ UNCHANGED <<listo, corrida, buzon, cuenta, disco, respaldos, pedir, nacidas, perdidas>>

(* A message overtakes the one before it.                                  *)
Adelantar(n) ==
  /\ Tropieza
  /\ Len(red[n]) >= 2
  /\ LET q == red[n] IN
       /\ dano' = (dano \/ q[1].paso \in Forman)
       /\ red' = [red EXCEPT ![n] = <<q[2], q[1]>> \o SubSeq(q, 3, Len(q))]
  /\ UNCHANGED <<listo, corrida, buzon, cuenta, disco, respaldos, pedir, nacidas, perdidas>>

(* n starts again, on the same machine or, without its files, on another.  *)
Reiniciar(n, queda) ==
  /\ Tropieza
  /\ disco' = [disco EXCEPT ![n] = IF queda THEN @ ELSE Nada]
  /\ cuenta' = [cuenta EXCEPT ![n] = disco'[n]]
  /\ corrida' = [corrida EXCEPT ![n] = Nada]
  /\ buzon' = [buzon EXCEPT ![n] = BuzonVacio]
  /\ pedir' = (pedir /\ n # Mandante)
  /\ perdidas' = IF cuenta'[n] = cuenta[n] THEN perdidas ELSE perdidas + 1
  /\ dano' = (dano \/ (/\ disco'[n] = Nada
                       /\ corrida[n] # Nada \/ cuenta[n] # Nada \/ buzon[n] # BuzonVacio))
  /\ respaldos' = [respaldos EXCEPT ![n] =
                     IF cuenta'[n] = cuenta[n] THEN @ ELSE @ \cup {cuenta[n]}]
  /\ UNCHANGED <<listo, red, nacidas>>

(* restaurar_share and meter_cuenta: an account of the same role takes the *)
(* place of a run, never of another account.  The backup holds what was in *)
(* memory (material_respaldo).                                             *)
Restaurar(n, a) ==
  /\ n \in listo
  /\ a \in respaldos[n] \cup {cuenta[n]} /\ a # Nada
  /\ cuenta[n] \in {Nada, a} /\ disco[n] \in {Nada, a}
  /\ cuenta' = [cuenta EXCEPT ![n] = a]
  /\ disco' = [disco EXCEPT ![n] = a]
  /\ IF cuenta[n] = Nada
     THEN /\ corrida' = [corrida EXCEPT ![n] = Nada]
          /\ buzon' = [buzon EXCEPT ![n] = BuzonVacio]
     ELSE UNCHANGED <<corrida, buzon>>
  /\ UNCHANGED <<listo, respaldos, pedir, red, nacidas, tropiezos, perdidas, dano>>

Normal == Repite \/ \E n \in Partes : Firme(n) \/ Llega(n) \/ Avanza(n, TRUE, TRUE)

Malo ==
  \E n \in Partes :
    \/ Perder(n) \/ Adelantar(n)
    \/ \E sale, guarda \in BOOLEAN : Avanza(n, sale, guarda)
    \/ \E queda \in BOOLEAN : Reiniciar(n, queda)
    \/ \E a \in respaldos[n] \cup {cuenta[n]} : Restaurar(n, a)

Next == Normal \/ Malo

Spec == Init /\ [][Next]_vars

(* The loop of each program ticks for as long as it runs, and what is      *)
(* sent and not lost arrives.                                              *)
SpecJusta ==
  /\ Spec
  /\ WF_vars(Repite)
  /\ \A n \in Partes : WF_vars(Llega(n)) /\ WF_vars(Avanza(n, TRUE, TRUE))

-----------------------------------------------------------------------------
(* The two never hold different boxes: money one of them sends to the      *)
(* address it has is always money both can sign for.  Whatever is lost,    *)
(* reordered, restarted or restored, and however many runs each started,   *)
(* unless accounts were lost twice: then a new box may have been made, and *)
(* a restored file of the old one is taken beside it.                      *)
MismaCaja ==
  perdidas < 2 => \A n, q \in Partes : Nada \in {cuenta[n], cuenta[q]} \/ cuenta[n] = cuenta[q]

(* If no commitment or share is lost, overtaken or left unsent, and nobody *)
(* loses a run or an account, both end with the account: a lost view is    *)
(* asked for until it arrives, also after a restart of the principal.      *)
CajaTermina ==
  (listo = Partes) ~> (dano \/ \A n \in Partes : cuenta[n] # Nada)

=============================================================================
