--------------------------- MODULE DepositContract ---------------------------
(* What the deposit pipeline promises: a transfer is credited at most once,  *)
(* only after the chain confirmed it deeply enough, and a credit is taken    *)
(* back at most once, only after the transfer left the chain.                *)
CONSTANT Transfers

VARIABLES deep,      \* the transfers that ever had enough confirmations
          dropped,   \* the transfers that ever left the chain
          money      \* money[t]: what the ledger did about transfer t

Init ==
  /\ deep = {}
  /\ dropped = {}
  /\ money = [t \in Transfers |-> "none"]

Deepen(t) == deep' = deep \cup {t} /\ UNCHANGED <<dropped, money>>

Drop(t) == dropped' = dropped \cup {t} /\ UNCHANGED <<deep, money>>

Credit(t) ==
  /\ t \in deep
  /\ money[t] = "none"
  /\ money' = [money EXCEPT ![t] = "credited"]
  /\ UNCHANGED <<deep, dropped>>

Reverse(t) ==
  /\ t \in dropped
  /\ money[t] = "credited"
  /\ money' = [money EXCEPT ![t] = "reversed"]
  /\ UNCHANGED <<deep, dropped>>

Next == \E t \in Transfers : Deepen(t) \/ Drop(t) \/ Credit(t) \/ Reverse(t)

Spec == Init /\ [][Next]_<<deep, dropped, money>>
=============================================================================
