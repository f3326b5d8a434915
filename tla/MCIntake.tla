------------------------------ MODULE MCIntake -------------------------------
(* One transaction with three transfers: the first is too small, the third has a  *)
(* number the sweep cannot read and is beyond what the inbox stores if all three  *)
(* are reported.  Two customers who ask for their address at the same time.       *)
EXTENDS Intake
CONSTANTS tx
MCTransfers == [tx : {tx}, log : 1..3]
MCSmall == {[tx |-> tx, log |-> 1]}
MCUnnumbered == {[tx |-> tx, log |-> 3]}
=============================================================================
