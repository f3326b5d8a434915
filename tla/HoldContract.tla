---------------------------- MODULE HoldContract ----------------------------
(* What an authorization hold promises: it is placed at most once, and then *)
(* captured by a settlement or returned to the cardholder, once.  Where the *)
(* sweep takes a transaction for one the provider does not know, since it   *)
(* could not be asked, the hold is disputed and nothing more is promised.   *)
CONSTANT Auths

VARIABLE hold     \* hold[a]: where the hold of authorization a is

Init == hold = [a \in Auths |-> "none"]

Move(a, from, to) == hold[a] = from /\ hold' = [hold EXCEPT ![a] = to]

Place(a) == Move(a, "none", "placed")

Capture(a) == Move(a, "placed", "captured")

Return(a) == Move(a, "placed", "returned")

Dispute(a) ==
  /\ hold[a] \in {"placed", "captured", "returned"}
  /\ hold' = [hold EXCEPT ![a] = "disputed"]

Next == \E a \in Auths : Place(a) \/ Capture(a) \/ Return(a) \/ Dispute(a)

Spec == Init /\ [][Next]_hold
=============================================================================
