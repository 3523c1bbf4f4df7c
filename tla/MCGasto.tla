-------------------------------- MODULE MCGasto --------------------------------
(* Gasto for TLC: the constants are in the cfg.  The arithmetic of the     *)
(* split is evaluated on every small amount, with an 11-bit u64.           *)
EXTENDS Gasto, Reparto

ASSUME RepartoChico ==
  \A capital \in 1 .. 20, pct \in {0, 1, 33, 50, 99, 100}, fee \in 0 .. 45 :
    LET pot == 2 * capital
        s == Cobros(capital, pct, fee) IN
    /\ Reparte(pot, capital, pct, fee) <=> fee < pot
    /\ fee < pot => s[1] + s[2] + fee = pot /\ Aceptable(pot, capital, pct, fee, s)
    /\ fee < pot - 2 /\ s[2] = 0 => Aceptable(pot, capital, pct, fee, << s[1] - 1, 1 >>)
    /\ ~Aceptable(pot + 1, capital, pct, fee, s)

ASSUME DolaresChicos ==
  \A usd \in 1 .. 12, precio \in 1 .. 12 :
    LET q == usd_a_piconero(usd, precio) IN
    /\ HayPiconero(usd, precio) <=> q > 0
    /\ \A r \in 0 .. 100 : LET lejos(x) == IF x * precio > usd * PICONERO THEN x * precio - usd * PICONERO
                                           ELSE usd * PICONERO - x * precio
                           IN lejos(q) <= lejos(r)

=============================================================================
