------------------------------ MODULE MCBilling -------------------------------
(* One user over two months of four days, with two days of grace. *)
EXTENDS Billing, TLC
MCPrice == ("STARTER" :> 0) @@ ("TEAM" :> 1) @@ ("BUSINESS" :> 0)
=============================================================================
