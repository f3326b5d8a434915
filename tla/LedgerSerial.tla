---------------------------- MODULE LedgerSerial ----------------------------
(***************************************************************************)
(* What the ledger promises: every operation happens at one instant, at    *)
(* most once per idempotency key, and one that checks the balance checks   *)
(* the balance it spends.  Module Ledger is the code's concurrent          *)
(* implementation of it.                                                   *)
(***************************************************************************)
EXTENDS LedgerPostings

CONSTANTS Users,      \* the users with accounts
          Requests    \* the ledger operations callers may ask for

VARIABLES bal,        \* bal[u][a]: what u's transactions added to account a
          posted      \* the idempotency keys of the transactions that exist

Init ==
  /\ bal = [u \in Users |-> NoBalance]
  /\ posted = {}

Transfer(r) ==
  /\ r.key \notin posted
  /\ Acceptable(r)
  /\ Guarded(r) => bal[r.user]["available"] >= Debit(r)
  /\ bal' = [bal EXCEPT ![r.user] = Apply(@, EntriesOf(r))]
  /\ posted' = posted \cup {r.key}

Next == \E r \in Requests : Transfer(r)

Spec == Init /\ [][Next]_<<bal, posted>>
=============================================================================
