-------------------------------- MODULE MCFeed --------------------------------
(* Four rows in two tables, pages of one row, which fetch two rows per table. *)
EXTENDS Feed, TLC
CONSTANTS r1, r2, r3, r4, cards, deposits
MCTableOf == (r1 :> cards) @@ (r2 :> cards) @@ (r3 :> cards) @@ (r4 :> deposits)
MCSymmetry == Permutations({r1, r2, r3})
=============================================================================
