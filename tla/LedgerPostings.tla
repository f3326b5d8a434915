--------------------------- MODULE LedgerPostings ---------------------------
(***************************************************************************)
(* The double-entry arithmetic of LedgerService                            *)
(* (apps/api/src/ledger/ledger.service.ts), without any state.             *)
(*                                                                         *)
(* A ledger transaction is a set of entries.  It is represented here by a  *)
(* record whose fields are the accounts it touches and whose values are    *)
(* the signed amounts: a CREDIT is positive and a DEBIT negative.  The     *)
(* user accounts are "available" and "held"; the others are the SYSTEM_*   *)
(* accounts.                                                               *)
(***************************************************************************)
EXTENDS Integers

Accounts ==
  {"available", "held", "clearing", "settlement", "revenue", "adjustment"}

NoBalance == [a \in Accounts |-> 0]

At(entries, a) == IF a \in DOMAIN entries THEN entries[a] ELSE 0

Net(entries) ==
    At(entries, "available") + At(entries, "held") + At(entries, "clearing")
  + At(entries, "settlement") + At(entries, "revenue")
  + At(entries, "adjustment")

(***************************************************************************)
(* assertBalanced: at least two entries, no entry of amount zero, and a    *)
(* net of zero.  Anything else throws before a row is written.             *)
(***************************************************************************)
Balanced(entries) ==
  /\ \E a, b \in DOMAIN entries : a # b
  /\ \A a \in DOMAIN entries : entries[a] # 0
  /\ Net(entries) = 0

CreditsOnly(balances, entries) ==                               \* mutant
  [a \in Accounts |-> balances[a] + (IF At(entries, a) > 0
                                     THEN At(entries, a) ELSE 0)]

\* The balances after a posting: each is the sum of its entries.
Apply(balances, entries) == [a \in Accounts |-> balances[a] + At(entries, a)]

-----------------------------------------------------------------------------
(* The entries each operation posts.                                       *)

\* Entry lines the code pushes only when their amount is positive.
WithoutZero(entries, optional) ==
  [a \in {x \in DOMAIN entries : x \notin optional \/ entries[x] # 0}
     |-> entries[a]]

DepositEntries(amount, fee) ==
  WithoutZero([clearing |-> -amount, available |-> amount - fee,
               revenue |-> fee], {"revenue"})

ReversalEntries(amount, fee) ==
  WithoutZero([available |-> fee - amount, clearing |-> amount,
               revenue |-> -fee], {"revenue"})

FeeEntries(amount) == [available |-> -amount, revenue |-> amount]

HoldEntries(amount) == [available |-> -amount, held |-> amount]

ReleaseEntries(amount) == [held |-> -amount, available |-> amount]

\* The remainder of the hold goes back to available when it over-covers the
\* settlement and its fee, and comes out of available when it does not.
SettlementEntries(amount, settled, fee) ==
  WithoutZero([held |-> -amount, settlement |-> settled, revenue |-> fee,
               available |-> amount - settled - fee],
              {"settlement", "revenue", "available"})

RefundEntries(amount) == [settlement |-> -amount, available |-> amount]

\* The amount of an adjustment is signed.
AdjustmentEntries(amount) == [adjustment |-> -amount, available |-> amount]

-----------------------------------------------------------------------------
(***************************************************************************)
(* A request is one call of a ledger operation: the operation, the user,   *)
(* the idempotency key and the amounts its caller passes.                  *)
(***************************************************************************)
Operations == {"deposit", "reversal", "fee", "hold", "release",
               "settlement", "refund", "adjustment"}

EntriesOf(r) ==
  CASE r.op = "deposit"    -> DepositEntries(r.amount, r.fee)
    [] r.op = "reversal"   -> ReversalEntries(r.amount, r.fee)
    [] r.op = "fee"        -> FeeEntries(r.amount)
    [] r.op = "hold"       -> HoldEntries(r.amount)
    [] r.op = "release"    -> ReleaseEntries(r.amount)
    [] r.op = "settlement" -> SettlementEntries(r.amount, r.settled, r.fee)
    [] r.op = "refund"     -> RefundEntries(r.amount)
    [] r.op = "adjustment" -> AdjustmentEntries(r.amount)

\* The argument checks an operation makes before it posts, assertBalanced
\* among them: the amount of an entry, before its sign, is positive.
Acceptable(r) ==
  /\ r.op # "adjustment" => r.amount > 0
  /\ r.op \in {"deposit", "reversal"} => r.fee <= r.amount
  /\ Balanced(EntriesOf(r))

\* The operations that look for the key before they build their entries; the
\* others leave it to post(), which checks the entries first.
LooksFirst(r) == r.op = "hold" \/ (r.op = "fee" /\ r.amount > 0)

FxFeeForgotten(r) ==                                            \* mutant
  CASE r.op = "deposit" -> r.fee
    [] r.op = "fee"     -> r.amount
    [] OTHER            -> 0

\* The amount of the row in the fees table that goes with a posting, 0 for none.
FeeOf(r) ==
  CASE r.op \in {"deposit", "settlement"} -> r.fee
    [] r.op = "fee"                       -> r.amount
    [] OTHER                              -> 0

\* What an operation takes out of the available balance.
Debit(r) == -At(EntriesOf(r), "available")

\* The operations that compare the available balance with what they take, and
\* throw InsufficientBalanceError when it does not cover it.
Guarded(r) ==
  \/ r.op \in {"hold", "fee"}
  \/ r.op = "adjustment" /\ r.amount < 0

\* What the other operations take out of it without looking.
UnguardedDebit(r) == IF ~Guarded(r) /\ Debit(r) > 0 THEN Debit(r) ELSE 0

\* The operations that run at SERIALIZABLE, inside withSerializableRetry.
Serializable(r) == r.op \in {"hold", "fee", "adjustment"}
=============================================================================
