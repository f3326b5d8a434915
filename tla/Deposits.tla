------------------------------- MODULE Deposits -------------------------------
(***************************************************************************)
(* The deposit pipeline: DepositsService with the jobs, webhooks and       *)
(* operators that call it.  A transfer is observed, its confirmations are  *)
(* counted, it is credited, and a credited transfer is watched for a       *)
(* reorganisation of the chain.                                            *)
(*                                                                         *)
(* advanceConfirmations is called by the confirmation job, by every        *)
(* observation of the transfer and by operators, so several run at once;   *)
(* the reorg watch is one job.  Handlers yield at every await.  Transfers  *)
(* are those to a known address, of the right token and above the minimum. *)
(***************************************************************************)
EXTENDS LedgerPostings, Fees, FiniteSets

CONSTANTS
  Transfers,    \* the transfers on the chain, by hash and log index
  Workers,      \* the calls of advanceConfirmations that may run at once
  Amount,       \* Amount[t]
  Rates,        \* the rates of the deposit fee that the settings may hold
  Required,     \* requiredConfirmations
  MaxReorgs,    \* how often a transfer leaves the chain (bound)
  MaxCrashes    \* how often a call fails or the process restarts (bound)

ASSUME DepositsAssumption ==
  /\ Transfers # {}
  /\ Amount \in [Transfers -> Nat \ {0}]
  /\ Rates \subseteq DepositRates
  /\ Required \in Nat \ {0}
  /\ MaxReorgs \in Nat
  /\ MaxCrashes \in Nat

VARIABLES
  depth,      \* depth[t]: the confirmations of t, 0 if it is not on the chain
  deep,       \* history: the transfers that ever had enough confirmations
  reorgs,     \* reorgs[t]: how often t left the chain
  row,        \* row[t]: status of the deposit and whether it has a
              \*   ledgerTransactionId
  posted,     \* idempotency keys in the ledger
  bal,        \* bal[t]: what the postings for t added to each account
  feeRow,     \* feeRow[t]: the amount in the fees table for the posting of t,
              \*   0 if there is no row
  late,       \* history: the transfers whose fee row came after their posting
  rate,       \* the rates of the deposit fee in the settings
  worker,     \* worker[w]: a call of advanceConfirmations
  watch,      \* the reorg watch
  crashes     \* how often a call failed or the process restarted

chain == <<depth, deep, reorgs>>
money == <<posted, bal, feeRow, late>>
vars == <<chain, row, money, rate, worker, watch, crashes>>

CreditKey(t) == <<"confirm", t>>
ReverseKey(t) == <<"reverse", t>>

NoDeposit == [status |-> "NONE", ledgerTx |-> FALSE]

ConfirmingToo == {"CONFIRMING", "CONFIRMED", "FAILED", "ORPHANED"}  \* mutant

\* The statuses advanceConfirmations leaves alone.
Terminal == {"CONFIRMED", "FAILED", "ORPHANED"}

Post(t, key, entries) ==
  IF key \in posted
  THEN UNCHANGED <<posted, bal>>
  ELSE /\ posted' = posted \cup {key}
       /\ bal' = [bal EXCEPT ![t] = Apply(@, entries)]

-----------------------------------------------------------------------------
(* The chain (external).                                                   *)

Mine(t) ==
  /\ depth[t] < Required
  /\ depth' = [depth EXCEPT ![t] = @ + 1]
  /\ deep' = IF depth[t] + 1 = Required THEN deep \cup {t} ELSE deep
  /\ UNCHANGED <<reorgs, row, money, rate, worker, watch, crashes>>

Reorg(t) ==
  /\ depth[t] > 0
  /\ reorgs[t] < MaxReorgs
  /\ depth' = [depth EXCEPT ![t] = 0]
  /\ reorgs' = [reorgs EXCEPT ![t] = @ + 1]
  /\ UNCHANGED <<deep, row, money, rate, worker, watch, crashes>>

-----------------------------------------------------------------------------
(* Calls of advanceConfirmations.                                          *)

NoCall == [pc |-> "idle", dep |-> CHOOSE t \in Transfers : TRUE, fee |-> 0]

Go(w, from, to) ==
  /\ worker[w].pc = from
  /\ worker' = [worker EXCEPT ![w].pc = to]

Return(w, from) ==
  /\ worker[w].pc = from
  /\ worker' = [worker EXCEPT ![w] = NoCall]

Call(w, t) ==
  /\ worker[w].pc = "idle"
  /\ worker' = [worker EXCEPT ![w] = [NoCall EXCEPT !.pc = "read", !.dep = t]]

\* recordTransfer: a webhook, the reconciliation sweep or an operator has seen
\* the transfer.  The first observation creates the deposit (the unique index
\* refuses the others), and every one goes on to advance it.
Observe(w, t) ==
  /\ depth[t] > 0 \/ reorgs[t] > 0
  /\ Call(w, t)
  /\ row' = IF row[t] = NoDeposit
            THEN [row EXCEPT ![t].status = "DETECTED"] ELSE row
  /\ UNCHANGED <<chain, money, rate, watch, crashes>>

\* advanceAllPending comes to the deposit.
Walk(w, t) ==
  /\ row[t].status \in {"DETECTED", "CONFIRMING"}
  /\ Call(w, t)
  /\ UNCHANGED <<chain, row, money, rate, watch, crashes>>

\* The deposit is read; one that is over is left alone.
ReadDeposit(w) ==
  /\ IF row[worker[w].dep].status \in Terminal
     THEN Return(w, "read") ELSE Go(w, "read", "ask")
  /\ UNCHANGED <<chain, row, money, rate, watch, crashes>>

OneTooFew(n) == n >= Required - 1                               \* mutant

Enough(n) == n >= Required

\* The chain is asked.  A transfer it does not know is orphaned, unless the
\* deposit is younger than ten minutes.
AskChain(w) ==
  LET n == depth[worker[w].dep] IN
  /\ \/ n = 0 /\ (Go(w, "ask", "orphan") \/ Return(w, "ask"))
     \/ n > 0 /\ ~Enough(n) /\ Go(w, "ask", "count")
     \/ n > 0 /\ Enough(n) /\ Go(w, "ask", "credit")
  /\ UNCHANGED <<chain, row, money, rate, watch, crashes>>

\* The status is written whatever it has become since it was read.
WriteStatus(w) ==
  LET t == worker[w].dep IN
  /\ \/ Return(w, "orphan") /\ row' = [row EXCEPT ![t].status = "ORPHANED"]
     \/ Return(w, "count") /\ row' = [row EXCEPT ![t].status = "CONFIRMING"]
  /\ UNCHANGED <<chain, money, rate, watch, crashes>>

AlreadyCredited(t) == row[t].status = "CONFIRMED" \/ row[t].ledgerTx

\* depositFee: what the settings ask for now.
FeeAsked(t) == DepositFee(Amount[t], rate)

\* credit: the deposit is read again, and the fee is worked out.
ReadForCredit(w) ==
  LET t == worker[w].dep IN
  /\ \/ AlreadyCredited(t) /\ Return(w, "credit")
     \/ /\ ~AlreadyCredited(t)
        /\ worker[w].pc = "credit"
        /\ worker' = [worker EXCEPT ![w] =
                        [@ EXCEPT !.pc = "post", !.fee = FeeAsked(t)]]
  /\ UNCHANGED <<chain, row, money, rate, watch, crashes>>

FeeReadTwice(w) == FeeAsked(worker[w].dep)                      \* mutant
\* The fee that goes on record with the posting.
FeeCharged(w) == worker[w].fee

\* The fee row of a posting.  A posting that exists is returned by post() and
\* its fee row inserted all the same: one that is there already violates the
\* unique index and resolveDuplicate returns the posting, a missing one is
\* written now.
RecordFee(w, t) ==
  IF worker[w].fee > 0 /\ feeRow[t] = 0
  THEN /\ feeRow' = [feeRow EXCEPT ![t] = FeeCharged(w)]
       /\ late' = IF CreditKey(t) \in posted THEN late \cup {t} ELSE late
  ELSE UNCHANGED <<feeRow, late>>

\* creditDeposit: the posting and its fee row are one transaction.  One that looked
\* before the other call's posting committed fails on the unique key and writes
\* nothing; resolveDuplicate returns the posting.  Entries that do not balance throw.
PostCredit(w) ==
  LET t == worker[w].dep
      entries == DepositEntries(Amount[t], worker[w].fee) IN
  /\ \/ /\ Balanced(entries)
        /\ Go(w, "post", "confirm")
        /\ Post(t, CreditKey(t), entries)
        /\ RecordFee(w, t)
     \/ /\ CreditKey(t) \in posted
        /\ Go(w, "post", "confirm")
        /\ UNCHANGED money
     \/ /\ ~Balanced(entries)
        /\ Return(w, "post")
        /\ UNCHANGED money
  /\ UNCHANGED <<chain, row, rate, watch, crashes>>

LinkForgotten == [status |-> "CONFIRMED", ledgerTx |-> FALSE]   \* mutant

Confirmed == [status |-> "CONFIRMED", ledgerTx |-> TRUE]

WriteConfirmed(w) ==
  /\ Return(w, "confirm")
  /\ row' = [row EXCEPT ![worker[w].dep] = Confirmed]
  /\ UNCHANGED <<chain, money, rate, watch, crashes>>

-----------------------------------------------------------------------------
(* watchCreditedForReorg: deposits confirmed within the last day.          *)

NotWatching == [pc |-> "idle", dep |-> CHOOSE t \in Transfers : TRUE,
                ledgerTx |-> FALSE, fee |-> 0]

WatchCredited(t) ==
  /\ watch.pc = "idle"
  /\ row[t].status = "CONFIRMED"
  /\ watch' = [NotWatching EXCEPT !.pc = "ask", !.dep = t, !.ledgerTx = row[t].ledgerTx]
  /\ UNCHANGED <<chain, row, money, rate, worker, crashes>>

WatchAsks ==
  /\ watch.pc = "ask"
  /\ watch' = IF depth[watch.dep] = 0 THEN [watch EXCEPT !.pc = "fee"]
              ELSE NotWatching
  /\ UNCHANGED <<chain, row, money, rate, worker, crashes>>

FeeFromSettings(t) == FeeAsked(t)                               \* mutant

\* The fee that came out of the deposit: the row recorded with its posting.
FeeTaken(t) == IF watch.ledgerTx THEN feeRow[t] ELSE 0

WatchReadsFee ==
  /\ watch.pc = "fee"
  /\ watch' = [watch EXCEPT !.pc = "reverse", !.fee = FeeTaken(watch.dep)]
  /\ UNCHANGED <<chain, row, money, rate, worker, crashes>>

WatchReverses ==
  LET t == watch.dep IN
  /\ watch.pc = "reverse"
  /\ Post(t, ReverseKey(t), ReversalEntries(Amount[t], watch.fee))
  /\ watch' = [watch EXCEPT !.pc = "orphan"]
  /\ UNCHANGED <<chain, row, feeRow, late, rate, worker, crashes>>

WatchOrphans ==
  /\ watch.pc = "orphan"
  /\ row' = [row EXCEPT ![watch.dep].status = "ORPHANED"]
  /\ watch' = NotWatching
  /\ UNCHANGED <<chain, money, rate, worker, crashes>>

-----------------------------------------------------------------------------
\* Staff change the rates of the deposit fee.
SetRate(r) ==
  /\ r # rate
  /\ rate' = r
  /\ UNCHANGED <<chain, row, money, worker, watch, crashes>>

\* A call cannot reach the database or the node, and ends where it is.
CallFails(w) ==
  /\ crashes < MaxCrashes
  /\ crashes' = crashes + 1
  /\ worker[w].pc # "idle"
  /\ worker' = [worker EXCEPT ![w] = NoCall]
  /\ UNCHANGED <<chain, row, money, rate, watch>>

WatchFails ==
  /\ crashes < MaxCrashes
  /\ crashes' = crashes + 1
  /\ watch.pc # "idle"
  /\ watch' = NotWatching
  /\ UNCHANGED <<chain, row, money, rate, worker>>

\* The process restarts, and every call ends.
Restart ==
  /\ crashes < MaxCrashes
  /\ crashes' = crashes + 1
  /\ worker' = [w \in Workers |-> NoCall]
  /\ watch' = NotWatching
  /\ UNCHANGED <<chain, row, money, rate>>

Init ==
  /\ depth = [t \in Transfers |-> 0]
  /\ deep = {}
  /\ reorgs = [t \in Transfers |-> 0]
  /\ row = [t \in Transfers |-> NoDeposit]
  /\ posted = {}
  /\ bal = [t \in Transfers |-> NoBalance]
  /\ feeRow = [t \in Transfers |-> 0]
  /\ late = {}
  /\ rate \in Rates
  /\ worker = [w \in Workers |-> NoCall]
  /\ watch = NotWatching
  /\ crashes = 0

WorkerStep(w) ==
  \/ ReadDeposit(w)
  \/ AskChain(w)
  \/ WriteStatus(w)
  \/ ReadForCredit(w)
  \/ PostCredit(w)
  \/ WriteConfirmed(w)

WatchStep ==
  \/ \E t \in Transfers : WatchCredited(t)
  \/ WatchAsks
  \/ WatchReadsFee
  \/ WatchReverses
  \/ WatchOrphans

Next ==
  \/ \E t \in Transfers : Mine(t) \/ Reorg(t)
  \/ \E w \in Workers, t \in Transfers : Observe(w, t) \/ Walk(w, t)
  \/ \E w \in Workers : WorkerStep(w) \/ CallFails(w)
  \/ WatchStep
  \/ WatchFails
  \/ \E r \in Rates : SetRate(r)
  \/ Restart

Spec == Init /\ [][Next]_vars

\* Calls run on, blocks are mined, the sweep re-reads the chain every five
\* minutes and the confirmation job every open deposit every thirty seconds.
\* The jobs come to a transfer again and again, hence strong fairness: between
\* two visits another call may be at work.
Fairness ==
  /\ \A t \in Transfers :
       /\ WF_vars(Mine(t))
       /\ SF_vars(depth[t] > 0 /\ \E w \in Workers : Observe(w, t))
       /\ SF_vars(\E w \in Workers : Walk(w, t))
  /\ \A w \in Workers : WF_vars(WorkerStep(w))
  /\ WF_vars(WatchStep)

FairSpec == Spec /\ Fairness

-----------------------------------------------------------------------------
(* Properties.                                                             *)

Statuses == {"NONE", "DETECTED", "CONFIRMING"} \cup Terminal

CallType ==
  [pc : {"idle", "read", "ask", "orphan", "count", "credit", "post", "confirm"},
   dep : Transfers, fee : Nat]

TypeOK ==
  /\ depth \in [Transfers -> 0..Required]
  /\ deep \subseteq Transfers
  /\ reorgs \in [Transfers -> 0..MaxReorgs]
  /\ row \in [Transfers -> [status : Statuses, ledgerTx : BOOLEAN]]
  /\ posted \subseteq {"confirm", "reverse"} \X Transfers
  /\ bal \in [Transfers -> [Accounts -> Int]]
  /\ feeRow \in [Transfers -> Nat]
  /\ late \subseteq Transfers
  /\ rate \in Rates
  /\ worker \in [Workers -> CallType]
  /\ watch \in [pc : {"idle", "ask", "fee", "reverse", "orphan"}, dep : Transfers,
                ledgerTx : BOOLEAN, fee : Nat]
  /\ crashes \in 0..MaxCrashes

Credited(t) == CreditKey(t) \in posted
Reversed(t) == ReverseKey(t) \in posted

\* A deposit that says CONFIRMED is in the ledger and knows its posting,
\* whatever calls overtook each other or died before writing it.
ConfirmedIsCredited ==
  \A t \in Transfers :
    row[t].status = "CONFIRMED" => Credited(t) /\ row[t].ledgerTx

\* What the posting moved to revenue: the fee on record, unless the settings asked for
\* nothing then and a repeat of the call, at a later rate, put its fee on record.
FeeMoved(t) == IF t \in late THEN 0 ELSE feeRow[t]

\* A reversal undoes its credit to the unit on every account, the fee included,
\* whatever the settings have become in between.  Only where the fee row came after
\* its posting may it leave the user that fee and revenue short of it.
ReversalExact ==
  \A t \in Transfers : Credited(t) /\ Reversed(t) =>
    \E gift \in {0, feeRow[t] - FeeMoved(t)} :
      bal[t] = [NoBalance EXCEPT !["available"] = gift, !["revenue"] = -gift]

\* The user is credited what was sent less what went to revenue, which is the fee on
\* record (or nothing, where the row came after its posting) and never exceeds the
\* deposit, however many calls worked the fee out at different rates.
CreditExact ==
  \A t \in Transfers : Credited(t) /\ ~Reversed(t) =>
    /\ bal[t]["available"] = Amount[t] - FeeMoved(t)
    /\ bal[t]["revenue"] = FeeMoved(t)
    /\ feeRow[t] \in 0..Amount[t]

\* The pipeline implements its contract: one credit, once the chain confirmed
\* it, and one reversal, once the transfer was gone.
Contract == INSTANCE DepositContract WITH
  dropped <- {t \in Transfers : reorgs[t] > 0},
  money <- [t \in Transfers |-> IF Reversed(t) THEN "reversed"
                                ELSE IF Credited(t) THEN "credited" ELSE "none"]
DepositContractSpec == Contract!Spec

\* A transfer that stays on the chain is credited, although every webhook
\* about it may be lost and the process may restart.
MinedIsCredited ==
  \A t \in Transfers : depth[t] > 0 ~> Credited(t) \/ reorgs[t] > 0
=============================================================================
