------------------------------- MODULE Reparto -------------------------------
(***************************************************************************)
(* The arithmetic of the money: the stages of a job, the dollars of a      *)
(* stage in piconero, and how a payment splits the pot of the box          *)
(* (konstruado-core partida.rs and precio.rs, xmr-joint spend.rs).         *)
(*                                                                         *)
(* The code computes in u64, in u128 where a product needs it, and casts   *)
(* the number of stages to u32: here those widths are U64 and U32, and a   *)
(* product in u64 is taken modulo U64, as a release build does.            *)
(***************************************************************************)
EXTENDS Integers

CONSTANTS
  U32, U64,   \* 2^32 and 2^64; smaller for TLC
  PICONERO    \* piconero in one XMR: 10^12

ASSUME RepartoAssumption == U32 \in Nat \ {0} /\ U64 \in Nat \ {0} /\ PICONERO \in Nat \ {0}

Cabe64 == 0 .. U64 - 1

(* n_partidas, for a work and a bond that it accepts.                      *)
Divide(trabajo, garantia) == trabajo # 0 /\ garantia # 0 /\ trabajo % garantia = 0
n_partidas(trabajo, garantia) == (trabajo \div garantia) % U32

(* monto_pct: cents are dropped.                                           *)
monto_pct(total, pct) == ((total * pct) % U64) \div 100

(* usd_a_piconero: to the nearest, half up; "none" when it is 0 or does    *)
(* not fit.                                                                *)
usd_a_piconero(usd, precio) == (usd * PICONERO + precio \div 2) \div precio
HayPiconero(usd, precio) ==
  precio # 0 /\ usd # 0 /\ usd_a_piconero(usd, precio) \in Cabe64 \ {0}

-----------------------------------------------------------------------------
(* The split: a pair <<what the contractor gets, what the principal gets>>. *)

saturating_mul(x, y) == IF x * y < U64 THEN x * y ELSE U64 - 1

(* What split_base refuses before it computes anything.                    *)
PideMal(pot, capital, pct, fee) ==
  pct > 100 \/ capital = 0 \/ pot # saturating_mul(capital, 2) \/ fee >= pot

CobraContratista(capital, pct) == capital + monto_pct(capital, pct)
CobraMandante(capital, pct) == capital - monto_pct(capital, pct)

(* The fee comes out of the principal's part first.                        *)
NoAlcanza(capital, pct, fee) ==
  /\ CobraMandante(capital, pct) < fee
  /\ CobraContratista(capital, pct) < fee - CobraMandante(capital, pct)

Cobros(capital, pct, fee) ==
  IF CobraMandante(capital, pct) >= fee
  THEN << CobraContratista(capital, pct), CobraMandante(capital, pct) - fee >>
  ELSE << CobraContratista(capital, pct) - (fee - CobraMandante(capital, pct)), 0 >>

NoCierra(pot, s, fee) == s[1] + s[2] + fee # pot

(* split_pot succeeds; its split is Cobros.                                *)
Reparte(pot, capital, pct, fee) ==
  /\ ~PideMal(pot, capital, pct, fee)
  /\ ~NoAlcanza(capital, pct, fee)
  /\ ~NoCierra(pot, Cobros(capital, pct, fee), fee)

(* split_pot_legacy: a side with nothing gets one piconero of the other's, *)
(* which must have two.                                                    *)
ReparteLegacy(pot, capital, pct, fee) ==
  LET s == Cobros(capital, pct, fee) IN
  /\ Reparte(pot, capital, pct, fee)
  /\ s[2] = 0 => s[1] >= 2
  /\ s[1] = 0 => s[2] >= 2

ConPiconero(s) ==
  IF s[2] = 0 THEN << s[1] - 1, 1 >> ELSE IF s[1] = 0 THEN << 1, s[2] - 1 >> ELSE s

(* SpendSession::open: a proposal whose outputs are the split, or the      *)
(* split of an older version.                                              *)
Aceptable(pot, capital, pct, fee, salidas) ==
  \/ Reparte(pot, capital, pct, fee) /\ salidas = Cobros(capital, pct, fee)
  \/ ReparteLegacy(pot, capital, pct, fee) /\ salidas = ConPiconero(Cobros(capital, pct, fee))

=============================================================================
