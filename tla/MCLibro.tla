------------------------------ MODULE MCLibro ------------------------------
\* The ledgers for TLC: two outputs of the wallet and two of the box, one of
\* each older than the first look and one in a block still to come.
EXTENDS Libro, TLC
CONSTANTS a, b, c, d
AlturaMC == a :> 1 @@ b :> 4 @@ c :> 1 @@ d :> 3
=============================================================================
