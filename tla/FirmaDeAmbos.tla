----------------------------- MODULE FirmaDeAmbos -----------------------------
(***************************************************************************)
(* What a transaction made by the two boxes promises, whatever the         *)
(* messages that build it do: it is published only when both people signed *)
(* it, each of them signed an amount that person had agreed to for that    *)
(* stage, and no output is spent twice.  The funding of a stage (Fondeo)   *)
(* and the payment of a stage (Gasto) implement it.                        *)
(***************************************************************************)
EXTENDS Naturals

CONSTANT Firmantes \* the people who sign

VARIABLES
  acordado, \* the amounts each person ever agreed to, as [etapa, monto]
  firmadas, \* the transactions each person signed
  cadena    \* the transactions the network accepted

vars == <<acordado, firmadas, cadena>>

Init ==
  /\ DOMAIN acordado = Firmantes
  /\ firmadas = [n \in Firmantes |-> {}]
  /\ cadena = {}

Acordar ==
  /\ \A n \in Firmantes : acordado[n] \subseteq acordado'[n]
  /\ UNCHANGED <<firmadas, cadena>>

(* Some people sign, and what all of them signed may be published.         *)
Firmar ==
  /\ \A n \in Firmantes :
       /\ firmadas[n] \subseteq firmadas'[n]
       /\ \A t \in firmadas'[n] \ firmadas[n] :
            [etapa |-> t.etapa, monto |-> t.monto] \in acordado[n]
  /\ cadena \subseteq cadena'
  /\ \A t \in cadena' \ cadena :
       /\ \A n \in Firmantes : t \in firmadas'[n]
       /\ \A u \in cadena' \ {t} : t.entradas \cap u.entradas = {}
  /\ UNCHANGED acordado

Next == Acordar \/ Firmar

Spec == Init /\ [][Next]_vars

=============================================================================
