------------------------------- MODULE MCCards --------------------------------
(* Two keys, one of them that of two inputs with different daily limits, a   *)
(* ceiling of one open card, two requests at a time.                         *)
EXTENDS Cards
CONSTANTS k1, k2, c1, c2
MCKeyLimits == (k1 :> {1, 2}) @@ (k2 :> {0})
Slots == Permutations({c1, c2})
=============================================================================
