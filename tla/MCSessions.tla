----------------------------- MODULE MCSessions -----------------------------
(* Two browsers of one account, two requests at once, three tokens. *)
EXTENDS Sessions, TLC
CONSTANTS phone, laptop, t1, t2, t3, c1, c2
Symmetry == Permutations({phone, laptop}) \cup Permutations({c1, c2}) \cup Permutations({t1, t2, t3})
=============================================================================
