------------------------------ MODULE MCDeposits ------------------------------
(* Instances of module Deposits for TLC.                                   *)
EXTENDS Deposits

CONSTANT t1

ThreeEach == [t \in Transfers |-> 3]

\* The default, which asks for nothing; one that takes half, truncated; and one that
\* hits its maximum: 0, 1 and 2 of 3.
ThreeRates == {[bps |-> 0, flat |-> 0, min |-> 0, max |-> 0],
               [bps |-> 5000, flat |-> 0, min |-> 0, max |-> 0],
               [bps |-> 0, flat |-> 5, min |-> 1, max |-> 2]}
=============================================================================
