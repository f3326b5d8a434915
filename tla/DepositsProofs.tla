---------------------------- MODULE DepositsProofs ----------------------------
(***************************************************************************)
(* Theorems about modules Deposits and Fees, for any transfers, workers,   *)
(* amounts, rates the settings accept and bounds.                          *)
(***************************************************************************)
EXTENDS Deposits, TLAPS

-----------------------------------------------------------------------------
(* Fees.                                                                   *)

LEMMA Products ==
  ASSUME NEW a \in Nat, NEW b \in Nat
  PROVE  a * b \in Nat /\ ((a = 0 \/ b = 0) => a * b = 0)
OBVIOUS

LEMMA Quotient ==
  ASSUME NEW n \in Nat
  PROVE  /\ n \div 10000 \in Nat
         /\ 10000 * (n \div 10000) <= n
         /\ n < 10000 * (n \div 10000) + 10000
OBVIOUS

\* Truncation favours the customer, by less than one unit: what is charged is
\* the largest amount that does not exceed the rate.
THEOREM RoundsDown ==
  ASSUME NEW a \in Nat, NEW b \in BasisPoints
  PROVE  /\ ApplyBps(a, b) \in Nat
         /\ 10000 * ApplyBps(a, b) <= a * b
         /\ a * b < 10000 * ApplyBps(a, b) + 10000
<1>1. a \in Nat /\ b \in Nat /\ a * b \in Nat /\ ((a = 0 \/ b = 0) => a * b = 0)
  BY Products DEF BasisPoints
<1>2. CASE a = 0 \/ b = 0
  BY <1>1, <1>2 DEF ApplyBps
<1>3. CASE a # 0 /\ b # 0
  <2>1. ApplyBps(a, b) = (a * b) \div 10000
    BY <1>1, <1>3 DEF ApplyBps
  <2> QED
    BY <1>1, <2>1, Quotient
<1> QED
  BY <1>2, <1>3

\* A rate of at most 100% takes at most the amount.
LEMMA AtMostAll ==
  ASSUME NEW a \in Nat, NEW b \in BasisPoints
  PROVE  ApplyBps(a, b) <= a
<1>1. a * b <= a * 10000
  <2>1. a \in Nat /\ b \in Nat /\ b <= 10000
    BY DEF BasisPoints
  <2>2. a * (10000 - b) \in Nat
    BY <2>1, Products
  <2>3. a * (10000 - b) = a * 10000 - a * b
    BY <2>1
  <2> QED
    BY <2>1, <2>2, <2>3
<1>2. a * b \in Int
  BY DEF BasisPoints
<1> QED
  BY <1>1, <1>2, RoundsDown

LEMMA NotAll ==
  ASSUME NEW a \in Nat \ {0}, NEW b \in BasisPoints, b # 10000
  PROVE  ApplyBps(a, b) < a
<1>0. b \in Nat /\ b <= 9999
  BY DEF BasisPoints
<1>1. PICK rest \in Nat : rest = 9999 - b
  BY <1>0
<1>2. a * b \in Nat /\ a * rest \in Nat
  BY <1>0, Products
<1>3. a * rest = a * 9999 - a * b
  BY <1>0, <1>1
<1>4. 10000 * ApplyBps(a, b) <= a * b /\ ApplyBps(a, b) \in Nat
  BY RoundsDown
<1> QED
  BY <1>2, <1>3, <1>4

\* An amount charged in two parts is never charged more: truncation leaves
\* nothing to gain for us in splitting it.
THEOREM SplittingIsCheaper ==
  ASSUME NEW a \in Nat, NEW c \in Nat, NEW b \in BasisPoints
  PROVE  ApplyBps(a, b) + ApplyBps(c, b) <= ApplyBps(a + c, b)
<1>1. b \in Nat /\ (a + c) * b = a * b + c * b /\ a * b \in Nat /\ c * b \in Nat
  BY DEF BasisPoints
<1>2. /\ ApplyBps(a, b) \in Nat /\ ApplyBps(c, b) \in Nat /\ ApplyBps(a + c, b) \in Nat
      /\ 10000 * ApplyBps(a, b) <= a * b /\ 10000 * ApplyBps(c, b) <= c * b
      /\ (a + c) * b < 10000 * ApplyBps(a + c, b) + 10000
  BY RoundsDown
<1> QED
  BY <1>1, <1>2

\* The fee of a deposit, before the cap at the deposit itself.
LEMMA Clamped ==
  ASSUME NEW fee \in Nat, NEW min \in Nat, NEW max \in Nat
  PROVE  /\ Clamp(fee, min, max) \in Nat
         /\ max > 0 => Clamp(fee, min, max) <= max
         /\ min > 0 /\ (max = 0 \/ min <= max) => Clamp(fee, min, max) >= min
         /\ min = 0 => Clamp(fee, min, max) <= fee
BY DEF Clamp

\* The fee never exceeds the deposit it comes out of, nor the maximum in the
\* settings, and a credit is never negative.
THEOREM DepositFeeBounded ==
  ASSUME NEW a \in Nat, NEW r \in DepositRates
  PROVE  /\ DepositFee(a, r) \in 0..a
         /\ r.max > 0 => DepositFee(a, r) <= r.max
<1>1. r.bps \in BasisPoints /\ r.flat \in Nat /\ r.min \in Nat /\ r.max \in Nat
  BY DEF DepositRates
<1>2. ApplyBps(a, r.bps) + r.flat \in Nat
  BY <1>1, RoundsDown
<1> DEFINE fee == Clamp(ApplyBps(a, r.bps) + r.flat, r.min, r.max)
<1>3. fee \in Nat /\ (r.max > 0 => fee <= r.max)
  BY <1>1, <1>2, Clamped
<1>4. DepositFee(a, r) = IF fee > a THEN a ELSE fee
  BY DEF DepositFee
<1> HIDE DEF fee
<1> QED
  BY <1>1, <1>3, <1>4

\* A deposit that a minimum does not reach keeps something to credit, unless
\* the rates take all of it: a flat part, a minimum of at least the deposit or
\* the full 100%.
THEOREM SomethingIsLeft ==
  ASSUME NEW a \in Nat \ {0}, NEW r \in DepositRates, r.flat = 0, r.min < a, r.bps # 10000
  PROVE  DepositFee(a, r) < a
<1>1. r.bps \in BasisPoints /\ r.flat \in Nat /\ r.min \in Nat /\ r.max \in Nat
  BY DEF DepositRates
<1>2. ApplyBps(a, r.bps) \in Nat /\ 10000 * ApplyBps(a, r.bps) <= a * r.bps
  BY <1>1, RoundsDown
<1>3. ApplyBps(a, r.bps) < a
  BY <1>1, NotAll
<1>4. PICK f \in Nat : f = ApplyBps(a, r.bps) + r.flat /\ f < a
  BY <1>1, <1>2, <1>3
<1>5. Clamp(f, r.min, r.max) \in Nat /\ Clamp(f, r.min, r.max) < a
  BY <1>1, <1>4 DEF Clamp
<1> QED
  BY <1>4, <1>5 DEF DepositFee

\* A fee of a card payment is never negative, and a payment abroad is never
\* cheaper than one at home.
THEOREM TransactionFeeNatural ==
  ASSUME NEW a \in Nat, NEW r \in TransactionRates
  PROVE  /\ \A foreign \in BOOLEAN : TransactionFee(a, foreign, r) \in Nat
         /\ TransactionFee(a, FALSE, r) <= TransactionFee(a, TRUE, r)
<1>1. r.bps \in BasisPoints /\ r.flat \in Nat /\ r.fx \in BasisPoints
  BY DEF TransactionRates
<1>2. ApplyBps(a, r.bps) \in Nat /\ ApplyBps(a, r.fx) \in Nat
  BY <1>1, RoundsDown
<1> QED
  BY <1>1, <1>2 DEF TransactionFee

-----------------------------------------------------------------------------
(* Entries.                                                                *)

\* The entries of a credit and of its reversal, account by account.
LEMMA EntriesByAccount ==
  ASSUME NEW a \in Int, NEW f \in Int, NEW x \in Accounts
  PROVE  /\ At(DepositEntries(a, f), x) =
              CASE x = "clearing"  -> -a
                [] x = "available" -> a - f
                [] x = "revenue"   -> f
                [] OTHER           -> 0
         /\ At(ReversalEntries(a, f), x) = -At(DepositEntries(a, f), x)
BY DEF At, DepositEntries, ReversalEntries, WithoutZero, Accounts

\* They are integers.
LEMMA EntriesAreIntegers ==
  ASSUME NEW a \in Int, NEW f \in Int, NEW x \in Accounts
  PROVE  /\ At(DepositEntries(a, f), x) \in Int
         /\ At(ReversalEntries(a, f), x) \in Int
BY EntriesByAccount DEF Accounts

\* A credit that balances leaves the user something.
LEMMA CreditLeavesSomething ==
  ASSUME NEW a \in Int, NEW f \in Int, Balanced(DepositEntries(a, f))
  PROVE  a # f
<1>1. /\ "available" \in DOMAIN DepositEntries(a, f)
      /\ DepositEntries(a, f)["available"] = a - f
  BY DEF DepositEntries, WithoutZero
<1> QED
  BY <1>1 DEF Balanced

\* What a credit does to the accounts its properties speak of.
LEMMA CreditByAccount ==
  ASSUME NEW a \in Int, NEW f \in Int
  PROVE  /\ Apply(NoBalance, DepositEntries(a, f))["available"] = a - f
         /\ Apply(NoBalance, DepositEntries(a, f))["revenue"] = f
BY EntriesByAccount DEF Apply, NoBalance, Accounts

-----------------------------------------------------------------------------
(* Type correctness.                                                       *)

\* Where a call of advanceConfirmations may be.
Steps == {"idle", "read", "ask", "orphan", "count", "credit", "post", "confirm"}

\* The values a call and the watch have when there is none.
LEMMA CallsIdle ==
  /\ NoCall \in CallType
  /\ NotWatching \in [pc : {"idle", "ask", "fee", "reverse", "orphan"},
                      dep : Transfers, ledgerTx : BOOLEAN, fee : Nat]
<1>1. (CHOOSE t \in Transfers : TRUE) \in Transfers
  BY DepositsAssumption
<1> QED
  BY <1>1 DEF NoCall, NotWatching, CallType

\* A call is a record: replacing a field gives a call again.
LEMMA CallFields ==
  ASSUME NEW x \in CallType
  PROVE  /\ \A p \in Steps : [x EXCEPT !.pc = p] \in CallType
         /\ \A p \in Steps, f \in Nat :
              [x EXCEPT !.pc = p, !.fee = f] \in CallType
         /\ \A p \in Steps, t \in Transfers :
              [x EXCEPT !.pc = p, !.dep = t] \in CallType
BY DEF CallType, Steps

\* The moves of a call from one step to the next.
LEMMA WorkerMoves ==
  ASSUME TypeOK, NEW w \in Workers
  PROVE  /\ \A p \in Steps, from \in Steps :
              Go(w, from, p) => worker' \in [Workers -> CallType]
         /\ \A from \in Steps :
              Return(w, from) => worker' \in [Workers -> CallType]
         /\ \A t \in Transfers : Call(w, t) => worker' \in [Workers -> CallType]
<1>1. worker \in [Workers -> CallType]
  BY DEF TypeOK
<1>2. ASSUME NEW p \in Steps, NEW from \in Steps, Go(w, from, p)
      PROVE  worker' \in [Workers -> CallType]
  <2>1. [worker[w] EXCEPT !.pc = p] \in CallType
    BY <1>1, CallFields
  <2>2. worker' = [worker EXCEPT ![w] = [worker[w] EXCEPT !.pc = p]]
    BY <1>2, Zenon DEF Go
  <2> QED
    BY <1>1, <2>1, <2>2
<1>3. ASSUME NEW from \in Steps, Return(w, from)
      PROVE  worker' \in [Workers -> CallType]
  BY <1>1, <1>3, CallsIdle DEF Return
<1>4. ASSUME NEW t \in Transfers, Call(w, t)
      PROVE  worker' \in [Workers -> CallType]
  <2>1. [NoCall EXCEPT !.pc = "read", !.dep = t] \in CallType
    BY CallsIdle, CallFields DEF Steps
  <2> QED
    BY <1>1, <1>4, <2>1 DEF Call
<1> QED
  BY <1>2, <1>3, <1>4

\* Writing a status keeps the rows typed.
LEMMA StatusType ==
  ASSUME TypeOK, NEW t \in Transfers, NEW s \in Statuses,
         row' = [row EXCEPT ![t].status = s]
  PROVE  row' \in [Transfers -> [status : Statuses, ledgerTx : BOOLEAN]]
<1>1. row[t] \in [status : Statuses, ledgerTx : BOOLEAN]
  BY DEF TypeOK
<1>2. [row[t] EXCEPT !.status = s] \in [status : Statuses, ledgerTx : BOOLEAN]
  BY <1>1
<1>3. row' = [row EXCEPT ![t] = [row[t] EXCEPT !.status = s]]
  BY Zenon
<1> QED
  BY <1>2, <1>3 DEF TypeOK

\* A posting keeps the ledger typed.
LEMMA PostType ==
  ASSUME TypeOK, NEW t \in Transfers,
         NEW key \in {"confirm", "reverse"} \X Transfers,
         NEW e, \A x \in Accounts : At(e, x) \in Int, Post(t, key, e)
  PROVE  /\ posted' \subseteq {"confirm", "reverse"} \X Transfers
         /\ bal' \in [Transfers -> [Accounts -> Int]]
<1>1. Apply(bal[t], e) \in [Accounts -> Int]
  BY DEF TypeOK, Apply
<1> QED
  BY <1>1, SMTT(30) DEF TypeOK, Post

\* The initial state is typed.
LEMMA TypeInit == Init => TypeOK
BY CallsIdle, DepositsAssumption
DEF Init, TypeOK, NoBalance, NoDeposit, Statuses

\* A call's fee is a number no larger than the deposit.
LEMMA FeeType ==
  ASSUME TypeOK, NEW t \in Transfers
  PROVE  FeeAsked(t) \in 0..Amount[t]
BY DepositFeeBounded, DepositsAssumption DEF TypeOK, FeeAsked

\* Every action keeps the types.
LEMMA TypeStep == TypeOK /\ [Next]_vars => TypeOK'
<1> SUFFICES ASSUME TypeOK, [Next]_vars PROVE TypeOK'
  OBVIOUS
<1> USE DEF chain, money, Steps
<1>1. ASSUME NEW t \in Transfers, Mine(t) PROVE TypeOK'
  BY <1>1, DepositsAssumption DEF TypeOK, Mine
<1>2. ASSUME NEW t \in Transfers, Reorg(t) PROVE TypeOK'
  BY <1>2, DepositsAssumption DEF TypeOK, Reorg
<1>3. ASSUME NEW w \in Workers, NEW t \in Transfers, Observe(w, t)
      PROVE  TypeOK'
  <2>1. row' \in [Transfers -> [status : Statuses, ledgerTx : BOOLEAN]]
    <3>1. CASE row[t] = NoDeposit
      BY <1>3, <3>1, StatusType DEF Observe, Statuses
    <3>2. CASE row[t] # NoDeposit
      BY <1>3, <3>2 DEF Observe, TypeOK
    <3> QED
      BY <3>1, <3>2
  <2>2. worker' \in [Workers -> CallType]
    BY <1>3, WorkerMoves DEF Observe
  <2> QED
    BY <1>3, <2>1, <2>2 DEF TypeOK, Observe
<1>4. ASSUME NEW w \in Workers, NEW t \in Transfers, Walk(w, t)
      PROVE  TypeOK'
  BY <1>4, WorkerMoves DEF TypeOK, Walk
<1>5. ASSUME NEW w \in Workers, ReadDeposit(w) PROVE TypeOK'
  BY <1>5, WorkerMoves DEF TypeOK, ReadDeposit
<1>6. ASSUME NEW w \in Workers, AskChain(w) PROVE TypeOK'
  BY <1>6, WorkerMoves DEF TypeOK, AskChain
<1>7. ASSUME NEW w \in Workers, WriteStatus(w) PROVE TypeOK'
  <2>1. worker[w].dep \in Transfers
    BY DEF TypeOK, CallType
  <2>2. \E s \in Statuses :
          row' = [row EXCEPT ![worker[w].dep].status = s]
    BY <1>7 DEF WriteStatus, Statuses, Terminal
  <2>3. row' \in [Transfers -> [status : Statuses, ledgerTx : BOOLEAN]]
    BY <2>1, <2>2, StatusType
  <2>4. worker' \in [Workers -> CallType]
    BY <1>7, WorkerMoves DEF WriteStatus
  <2> QED
    BY <1>7, <2>3, <2>4 DEF TypeOK, WriteStatus
<1>8. ASSUME NEW w \in Workers, ReadForCredit(w) PROVE TypeOK'
  <2>1. worker[w].dep \in Transfers
    BY DEF TypeOK, CallType
  <2>2. FeeAsked(worker[w].dep) \in Nat
    BY <2>1, FeeType, DepositsAssumption
  <2> DEFINE x == [worker[w] EXCEPT !.pc = "post",
                                    !.fee = FeeAsked(worker[w].dep)]
  <2>3. x \in CallType
    BY <2>2, CallFields DEF TypeOK
  <2>4. CASE worker' = [worker EXCEPT ![w] = x]
    <3> HIDE DEF x
    <3>1. worker' \in [Workers -> CallType]
      BY <2>3, <2>4 DEF TypeOK
    <3> QED
      BY <1>8, <3>1 DEF TypeOK, ReadForCredit
  <2>5. CASE Return(w, "credit")
    BY <1>8, <2>5, WorkerMoves DEF TypeOK, ReadForCredit
  <2> QED
    BY <1>8, <2>4, <2>5, Zenon DEF ReadForCredit
<1>9. ASSUME NEW w \in Workers, PostCredit(w) PROVE TypeOK'
  <2> DEFINE t == worker[w].dep
             e == DepositEntries(Amount[t], worker[w].fee)
  <2>1. t \in Transfers /\ worker[w].fee \in Nat /\ Amount[t] \in Int
    BY DepositsAssumption DEF TypeOK, CallType
  <2>2. \A x \in Accounts : At(e, x) \in Int
    BY <2>1, EntriesAreIntegers
  <2>3. worker' \in [Workers -> CallType]
    BY <1>9, WorkerMoves DEF PostCredit
  <2>4. CreditKey(t) \in {"confirm", "reverse"} \X Transfers
    BY <2>1 DEF CreditKey
  <2>5. CASE Post(t, CreditKey(t), e) /\ RecordFee(w, t)
    <3>1. feeRow' \in [Transfers -> Nat] /\ late' \subseteq Transfers
      BY <2>1, <2>5 DEF TypeOK, RecordFee, FeeCharged
    <3> HIDE DEF t, e
    <3>2. /\ posted' \subseteq {"confirm", "reverse"} \X Transfers
          /\ bal' \in [Transfers -> [Accounts -> Int]]
      BY <2>1, <2>2, <2>4, <2>5, PostType
    <3> QED
      BY <1>9, <2>3, <3>1, <3>2 DEF TypeOK, PostCredit
  <2>6. CASE UNCHANGED <<posted, bal, feeRow, late>>
    BY <1>9, <2>3, <2>6 DEF TypeOK, PostCredit
  <2> QED
    BY <1>9, <2>5, <2>6 DEF PostCredit
<1>10. ASSUME NEW w \in Workers, WriteConfirmed(w) PROVE TypeOK'
  BY <1>10, WorkerMoves
  DEF TypeOK, WriteConfirmed, Confirmed, Statuses, Terminal
<1>11. ASSUME NEW w \in Workers, CallFails(w) PROVE TypeOK'
  BY <1>11, CallsIdle, DepositsAssumption DEF TypeOK, CallFails
<1>12. ASSUME NEW t \in Transfers, WatchCredited(t) PROVE TypeOK'
  BY <1>12, CallsIdle DEF TypeOK, WatchCredited
<1>13. ASSUME WatchAsks PROVE TypeOK'
  BY <1>13, CallsIdle DEF TypeOK, WatchAsks
<1>20. ASSUME WatchReadsFee PROVE TypeOK'
  <2>1. FeeTaken(watch.dep) \in Nat
    BY DEF TypeOK, FeeTaken
  <2> QED
    BY <1>20, <2>1 DEF TypeOK, WatchReadsFee
<1>14. ASSUME WatchReverses PROVE TypeOK'
  <2> DEFINE t == watch.dep
             e == ReversalEntries(Amount[t], watch.fee)
  <2>1. t \in Transfers /\ watch.fee \in Int /\ Amount[t] \in Int
    BY DepositsAssumption DEF TypeOK
  <2>2. \A x \in Accounts : At(e, x) \in Int
    BY <2>1, EntriesAreIntegers
  <2>3. ReverseKey(t) \in {"confirm", "reverse"} \X Transfers
    BY <2>1 DEF ReverseKey
  <2>4. Post(t, ReverseKey(t), e)
    BY <1>14 DEF WatchReverses
  <2>5. /\ posted' \subseteq {"confirm", "reverse"} \X Transfers
        /\ bal' \in [Transfers -> [Accounts -> Int]]
    <3> HIDE DEF t, e
    <3> QED
      BY <2>1, <2>2, <2>3, <2>4, PostType
  <2> QED
    BY <1>14, <2>5 DEF TypeOK, WatchReverses
<1>15. ASSUME WatchOrphans PROVE TypeOK'
  BY <1>15, CallsIdle DEF TypeOK, WatchOrphans, Statuses, Terminal
<1>16. ASSUME WatchFails PROVE TypeOK'
  BY <1>16, CallsIdle, DepositsAssumption DEF TypeOK, WatchFails
<1>17. ASSUME NEW r \in Rates, SetRate(r) PROVE TypeOK'
  BY <1>17 DEF TypeOK, SetRate
<1>18. ASSUME Restart PROVE TypeOK'
  BY <1>18, CallsIdle, DepositsAssumption DEF TypeOK, Restart
<1>19. CASE UNCHANGED vars
  BY <1>19 DEF TypeOK, vars
<1> QED
  BY <1>1, <1>2, <1>3, <1>4, <1>5, <1>6, <1>7, <1>8, <1>9, <1>10, <1>11,
     <1>12, <1>13, <1>14, <1>15, <1>16, <1>17, <1>18, <1>19, <1>20
  DEF Next, WorkerStep, WatchStep

\* Every variable keeps its type: TypeOK of the runs, for every instance.
THEOREM TypeCorrect == Spec => []TypeOK
BY TypeInit, TypeStep, PTL DEF Spec

\* Two keys are one only if they are of one kind and for one transfer.
LEMMA KeysDiffer ==
  \A t, u :
    /\ CreditKey(t) # ReverseKey(u)
    /\ CreditKey(t) = CreditKey(u) => t = u
    /\ ReverseKey(t) = ReverseKey(u) => t = u
BY DEF CreditKey, ReverseKey

-----------------------------------------------------------------------------
(* Which actions change what.                                              *)

\* Only blocks and reorganisations change the chain.
LEMMA ChainSteps ==
  ASSUME [Next]_vars
  PROVE  (\E t \in Transfers : Mine(t) \/ Reorg(t)) \/ UNCHANGED chain
BY DEF Next, vars, chain, money, Observe, Walk, WorkerStep, ReadDeposit,
       AskChain, WriteStatus, ReadForCredit, PostCredit, WriteConfirmed,
       CallFails, WatchStep, WatchCredited, WatchAsks, WatchReadsFee, WatchReverses,
       WatchOrphans, WatchFails, SetRate, Restart

\* Only a credit and a reversal write to the ledger.
LEMMA MoneySteps ==
  ASSUME [Next]_vars
  PROVE  (\E w \in Workers : PostCredit(w)) \/ WatchReverses \/ UNCHANGED money
BY DEF Next, vars, chain, money, Observe, Walk, WorkerStep, ReadDeposit,
       AskChain, WriteStatus, ReadForCredit, WriteConfirmed, Mine, Reorg,
       CallFails, WatchStep, WatchCredited, WatchAsks, WatchReadsFee,
       WatchOrphans, WatchFails, SetRate, Restart

\* The actions that write a deposit row.
LEMMA RowSteps ==
  ASSUME [Next]_vars
  PROVE  \/ \E w \in Workers, t \in Transfers : Observe(w, t)
         \/ \E w \in Workers : WriteStatus(w) \/ WriteConfirmed(w)
         \/ WatchOrphans
         \/ UNCHANGED row
BY DEF Next, vars, chain, money, Walk, WorkerStep, ReadDeposit,
       AskChain, ReadForCredit, PostCredit, Mine, Reorg,
       CallFails, WatchStep, WatchCredited, WatchAsks, WatchReadsFee, WatchReverses,
       WatchFails, SetRate, Restart

\* A call starts, makes a step, or ends.
LEMMA WorkerSteps ==
  ASSUME [Next]_vars
  PROVE  \/ \E w \in Workers, t \in Transfers : Call(w, t)
         \/ \E w \in Workers : WorkerStep(w)
         \/ \E w \in Workers : worker' = [worker EXCEPT ![w] = NoCall]
         \/ worker' = [w \in Workers |-> NoCall]
         \/ UNCHANGED worker
BY DEF Next, vars, chain, money, Observe, Walk, Mine, Reorg, CallFails,
       WatchStep, WatchCredited, WatchAsks, WatchReadsFee, WatchReverses, WatchOrphans,
       WatchFails, SetRate, Restart

\* The watch makes a step or is cut off.
LEMMA WatchSteps ==
  ASSUME [Next]_vars
  PROVE  WatchStep \/ watch' = NotWatching \/ UNCHANGED watch
BY DEF Next, vars, chain, money, Observe, Walk, Mine, Reorg, CallFails,
       WorkerStep, ReadDeposit, AskChain, WriteStatus, ReadForCredit,
       PostCredit, WriteConfirmed, WatchFails, SetRate, Restart

\* A posting is never undone, and history only grows.
LEMMA HistoryGrows ==
  ASSUME TypeOK, [Next]_vars
  PROVE  /\ posted \subseteq posted'
         /\ deep \subseteq deep'
         /\ \A t \in Transfers : reorgs[t] > 0 => reorgs'[t] > 0
<1>1. posted \subseteq posted'
  BY MoneySteps DEF PostCredit, WatchReverses, Post, money
<1>2. deep \subseteq deep'
  BY ChainSteps DEF Mine, Reorg, chain
<1>3. \A t \in Transfers : reorgs[t] > 0 => reorgs'[t] > 0
  <2>1. ASSUME NEW t \in Transfers, Reorg(t)
        PROVE  \A u \in Transfers : reorgs[u] > 0 => reorgs'[u] > 0
    BY <2>1, DepositsAssumption DEF Reorg, TypeOK
  <2>2. (\E t \in Transfers : Mine(t)) \/ UNCHANGED chain
          => UNCHANGED reorgs
    BY DEF Mine, chain
  <2> QED
    BY <2>1, <2>2, ChainSteps
<1> QED
  BY <1>1, <1>2, <1>3

\* What a call looks like after each of its moves.
LEMMA MoveEffects ==
  ASSUME TypeOK, NEW w \in Workers
  PROVE  /\ \A from \in Steps, to \in Steps : Go(w, from, to) =>
              \A v \in Workers :
                /\ worker'[v].pc = IF v = w THEN to ELSE worker[v].pc
                /\ worker'[v].dep = worker[v].dep
                /\ worker'[v].fee = worker[v].fee
         /\ (\E t : Call(w, t)) \/ worker' = [worker EXCEPT ![w] = NoCall] =>
              \A v \in Workers :
                IF v = w THEN worker'[v].pc \in {"read", "idle"}
                ELSE worker'[v] = worker[v]
<1>1. worker \in [Workers -> CallType]
  BY DEF TypeOK
<1>2. NoCall.pc = "idle"
  BY DEF NoCall
<1>3. ASSUME NEW from \in Steps, NEW to \in Steps, Go(w, from, to)
      PROVE  \A v \in Workers :
               /\ worker'[v].pc = IF v = w THEN to ELSE worker[v].pc
               /\ worker'[v].dep = worker[v].dep
               /\ worker'[v].fee = worker[v].fee
  <2>1. worker' = [worker EXCEPT ![w] = [worker[w] EXCEPT !.pc = to]]
    BY <1>3, Zenon DEF Go
  <2>2. worker[w] \in CallType
    BY <1>1
  <2>3. LET x == [worker[w] EXCEPT !.pc = to] IN
          x.pc = to /\ x.dep = worker[w].dep /\ x.fee = worker[w].fee
    BY <2>2 DEF CallType
  <2> QED
    BY <1>1, <2>1, <2>3
<1>4. ASSUME NEW t, Call(w, t)
      PROVE  \A v \in Workers : IF v = w THEN worker'[v].pc = "read"
                                ELSE worker'[v] = worker[v]
  <2>1. worker' = [worker EXCEPT ![w] =
                     [NoCall EXCEPT !.pc = "read", !.dep = t]]
    BY <1>4, Zenon DEF Call
  <2>2. [NoCall EXCEPT !.pc = "read", !.dep = t].pc = "read"
    BY DEF NoCall
  <2> QED
    BY <1>1, <2>1, <2>2
<1>5. ASSUME worker' = [worker EXCEPT ![w] = NoCall]
      PROVE  \A v \in Workers : IF v = w THEN worker'[v].pc = "idle"
                                ELSE worker'[v] = worker[v]
  BY <1>1, <1>2, <1>5
<1> QED
  BY <1>3, <1>4, <1>5

-----------------------------------------------------------------------------
(* The inductive invariant: what each step of a call knows.                *)

\* The history of the chain.
ChainInv ==
  \A t \in Transfers :
    /\ depth[t] = Required => t \in deep
    /\ t \in deep /\ depth[t] = 0 => reorgs[t] > 0

\* A credit needs a deep transfer, a reversal a credit and a reorganisation.
LedgerInv ==
  \A t \in Transfers :
    /\ Credited(t) => t \in deep
    /\ Reversed(t) => Credited(t) /\ reorgs[t] > 0

\* A call that is about to credit has seen enough confirmations, and one that
\* is about to confirm has posted.
CallInv ==
  \A w \in Workers :
    /\ worker[w].pc \in {"credit", "post"} => worker[w].dep \in deep
    /\ worker[w].pc = "confirm" => Credited(worker[w].dep)

\* The watch looks at credited deposits whose posting it knows, and reverses
\* one only if its transfer left the chain.
WatchInv ==
  /\ watch.pc # "idle" => Credited(watch.dep) /\ watch.ledgerTx
  /\ watch.pc \in {"fee", "reverse", "orphan"} => reorgs[watch.dep] > 0

IInv ==
  TypeOK /\ ChainInv /\ LedgerInv /\ CallInv /\ WatchInv /\ ConfirmedIsCredited

\* Every action keeps the history of the chain.
LEMMA ChainStep == IInv /\ [Next]_vars => ChainInv'
<1> SUFFICES ASSUME TypeOK, ChainInv, [Next]_vars PROVE ChainInv'
  BY DEF IInv
<1>1. ASSUME NEW t \in Transfers, Mine(t) PROVE ChainInv'
  BY <1>1, DepositsAssumption DEF ChainInv, Mine, TypeOK
<1>2. ASSUME NEW t \in Transfers, Reorg(t) PROVE ChainInv'
  BY <1>2, DepositsAssumption DEF ChainInv, Reorg, TypeOK
<1>3. CASE UNCHANGED chain
  BY <1>3 DEF ChainInv, chain
<1> QED
  BY <1>1, <1>2, <1>3, ChainSteps

\* Every action keeps credits and reversals in order.
LEMMA LedgerStep == IInv /\ [Next]_vars => LedgerInv'
<1> SUFFICES ASSUME IInv, [Next]_vars PROVE LedgerInv'
  OBVIOUS
<1>h. /\ TypeOK /\ LedgerInv /\ CallInv /\ WatchInv
      /\ deep \subseteq deep'
      /\ \A t \in Transfers : reorgs[t] > 0 => reorgs'[t] > 0
  BY HistoryGrows DEF IInv
<1>1. ASSUME NEW w \in Workers, PostCredit(w) PROVE LedgerInv'
  <2>1. worker[w].dep \in deep
    BY <1>1, <1>h DEF CallInv, PostCredit, Go, Return
  <2>2. posted' = posted \/ posted' = posted \cup {CreditKey(worker[w].dep)}
    BY <1>1 DEF PostCredit, Post, money
  <2> QED
    BY <1>h, <2>1, <2>2, KeysDiffer DEF LedgerInv, Credited, Reversed
<1>2. ASSUME WatchReverses PROVE LedgerInv'
  <2>1. Credited(watch.dep) /\ reorgs[watch.dep] > 0
    BY <1>2, <1>h DEF WatchInv, WatchReverses
  <2>2. posted' = posted \/ posted' = posted \cup {ReverseKey(watch.dep)}
    BY <1>2 DEF WatchReverses, Post
  <2> QED
    BY <1>h, <2>1, <2>2, KeysDiffer DEF LedgerInv, Credited, Reversed
<1>3. CASE UNCHANGED money
  BY <1>3, <1>h DEF LedgerInv, Credited, Reversed, money
<1> QED
  BY <1>1, <1>2, <1>3, MoneySteps

\* Every action keeps what the calls know.
LEMMA CallStep == IInv /\ [Next]_vars => CallInv'
<1> SUFFICES ASSUME IInv, [Next]_vars PROVE CallInv'
  OBVIOUS
<1>h. /\ TypeOK /\ ChainInv /\ CallInv
      /\ deep \subseteq deep'
      /\ \A t : Credited(t) => Credited(t)'
  BY HistoryGrows DEF IInv, Credited
<1>s. {"idle", "read", "ask", "orphan", "count", "credit", "post",
       "confirm"} = Steps
  BY DEF Steps
<1>r. ASSUME NEW w \in Workers, worker' = [worker EXCEPT ![w] = NoCall]
      PROVE  CallInv'
  BY <1>r, <1>h, MoveEffects, ZenonT(30) DEF CallInv
<1>g. ASSUME NEW w \in Workers, NEW from \in Steps, NEW to \in Steps,
             Go(w, from, to),
             to \in {"credit", "post"} => worker[w].dep \in deep,
             to = "confirm" => Credited(worker[w].dep)'
      PROVE  CallInv'
  <2>1. \A v \in Workers :
          /\ worker'[v].pc = IF v = w THEN to ELSE worker[v].pc
          /\ worker'[v].dep = worker[v].dep
    BY <1>h, <1>g, MoveEffects
  <2> QED
    BY <1>g, <1>h, <2>1 DEF CallInv, Credited
<1>1. ASSUME NEW w \in Workers, NEW t \in Transfers, Call(w, t)
      PROVE  CallInv'
  BY <1>1, <1>h, MoveEffects DEF CallInv
<1>2. ASSUME NEW w \in Workers, ReadDeposit(w) PROVE CallInv'
  BY <1>2, <1>g, <1>r, <1>s DEF ReadDeposit, Return
<1>3. ASSUME NEW w \in Workers, AskChain(w) PROVE CallInv'
  <2>1. worker[w].dep \in Transfers
    BY <1>h DEF TypeOK, CallType
  <2>2. Enough(depth[worker[w].dep]) => worker[w].dep \in deep
    <3>1. depth[worker[w].dep] \in 0..Required
      BY <1>h, <2>1 DEF TypeOK
    <3>2. Enough(depth[worker[w].dep]) => depth[worker[w].dep] = Required
      BY <3>1, DepositsAssumption DEF Enough
    <3> QED
      BY <1>h, <2>1, <3>2 DEF ChainInv
  <2>3. CASE Go(w, "ask", "orphan") \/ Go(w, "ask", "count")
    BY <1>g, <1>s, <2>3
  <2>4. CASE Go(w, "ask", "credit") /\ Enough(depth[worker[w].dep])
    BY <1>g, <1>s, <2>2, <2>4
  <2>5. CASE Return(w, "ask")
    BY <1>r, <2>5 DEF Return
  <2> QED
    BY <1>3, <2>3, <2>4, <2>5 DEF AskChain
<1>4. ASSUME NEW w \in Workers, WriteStatus(w) PROVE CallInv'
  BY <1>4, <1>r DEF WriteStatus, Return
<1>5. ASSUME NEW w \in Workers, ReadForCredit(w) PROVE CallInv'
  <2> DEFINE x == [worker[w] EXCEPT !.pc = "post",
                                    !.fee = FeeAsked(worker[w].dep)]
  <2>1. CASE worker[w].pc = "credit" /\ worker' = [worker EXCEPT ![w] = x]
    <3>1. worker[w] \in CallType
      BY <1>h DEF TypeOK
    <3>2. x.pc = "post" /\ x.dep = worker[w].dep
      BY <3>1 DEF CallType
    <3>3. worker[w].dep \in deep
      BY <1>h, <2>1 DEF CallInv
    <3>4. worker \in [Workers -> CallType]
      BY <1>h DEF TypeOK
    <3> HIDE DEF x
    <3> QED
      BY <1>h, <2>1, <3>2, <3>3, <3>4 DEF CallInv
  <2>2. CASE Return(w, "credit")
    BY <1>r, <2>2 DEF Return
  <2> QED
    BY <1>5, <2>1, <2>2, Zenon DEF ReadForCredit
<1>6. ASSUME NEW w \in Workers, PostCredit(w) PROVE CallInv'
  <2>1. CASE /\ Go(w, "post", "confirm")
             /\ \/ Post(worker[w].dep, CreditKey(worker[w].dep),
                        DepositEntries(Amount[worker[w].dep], worker[w].fee))
                \/ CreditKey(worker[w].dep) \in posted /\ UNCHANGED posted
    <3>1. Credited(worker[w].dep)'
      <4>1. CreditKey(worker[w].dep) \in posted'
        BY <2>1 DEF Post
      <4>2. worker'[w].dep = worker[w].dep
        BY <1>h, <1>s, <2>1, MoveEffects
      <4> QED
        BY <4>1, <4>2 DEF Credited, CreditKey
    <3> QED
      BY <1>g, <1>s, <2>1, <3>1
  <2>2. CASE Return(w, "post")
    BY <1>r, <2>2 DEF Return
  <2> QED
    BY <1>6, <2>1, <2>2 DEF PostCredit, money
<1>7. ASSUME NEW w \in Workers, WriteConfirmed(w) PROVE CallInv'
  BY <1>7, <1>r DEF WriteConfirmed, Return
<1>8. CASE worker' = [w \in Workers |-> NoCall]
  BY <1>8 DEF CallInv, NoCall
<1>9. CASE UNCHANGED worker
  BY <1>9, <1>h DEF CallInv, Credited
<1> QED
  BY <1>1, <1>2, <1>3, <1>4, <1>5, <1>6, <1>7, <1>8, <1>9, <1>r, WorkerSteps
  DEF WorkerStep

\* Every action keeps what the watch knows.
LEMMA WatchInvStep == IInv /\ [Next]_vars => WatchInv'
<1> SUFFICES ASSUME IInv, [Next]_vars PROVE WatchInv'
  OBVIOUS
<1>h. /\ TypeOK /\ ChainInv /\ LedgerInv /\ WatchInv /\ ConfirmedIsCredited
      /\ posted \subseteq posted'
      /\ \A t \in Transfers : reorgs[t] > 0 => reorgs'[t] > 0
  BY HistoryGrows DEF IInv
<1>d. watch.dep \in Transfers
  BY <1>h DEF TypeOK
<1>n. CASE watch' = NotWatching
  BY <1>n DEF WatchInv, NotWatching
<1>1. ASSUME NEW t \in Transfers, WatchCredited(t) PROVE WatchInv'
  BY <1>1, <1>h, CallsIdle DEF WatchInv, WatchCredited, ConfirmedIsCredited, Credited
<1>2. CASE WatchAsks
  <2>1. CASE depth[watch.dep] = 0
    <3>1. reorgs[watch.dep] > 0
      BY <1>2, <1>d, <1>h, <2>1 DEF WatchAsks, WatchInv, LedgerInv, ChainInv
    <3>2. /\ watch'.pc = "fee"
          /\ watch'.dep = watch.dep
          /\ watch'.ledgerTx = watch.ledgerTx
      BY <1>2, <1>h, <2>1 DEF WatchAsks, TypeOK
    <3> QED
      BY <1>2, <1>d, <1>h, <3>1, <3>2 DEF WatchAsks, WatchInv, Credited
  <2>2. CASE depth[watch.dep] # 0
    BY <1>2, <1>n, <2>2 DEF WatchAsks
  <2> QED
    BY <2>1, <2>2
<1>6. CASE WatchReadsFee
  <2>1. /\ watch'.pc = "reverse"
        /\ watch'.dep = watch.dep
        /\ watch'.ledgerTx = watch.ledgerTx
    BY <1>6, <1>h DEF WatchReadsFee, TypeOK
  <2> QED
    BY <1>6, <1>d, <1>h, <2>1 DEF WatchReadsFee, WatchInv, Credited
<1>3. CASE WatchReverses
  <2>1. /\ watch'.pc = "orphan"
        /\ watch'.dep = watch.dep
        /\ watch'.ledgerTx = watch.ledgerTx
    BY <1>3, <1>h DEF WatchReverses, TypeOK
  <2> QED
    BY <1>3, <1>d, <1>h, <2>1 DEF WatchReverses, WatchInv, Credited
<1>4. CASE WatchOrphans
  BY <1>4, <1>n DEF WatchOrphans
<1>5. CASE UNCHANGED watch
  BY <1>5, <1>d, <1>h DEF WatchInv, Credited
<1> QED
  BY <1>1, <1>2, <1>3, <1>4, <1>5, <1>6, <1>n, WatchSteps DEF WatchStep

\* Every action keeps CONFIRMED true, a stale status write included.
LEMMA ConfirmedStep == IInv /\ [Next]_vars => ConfirmedIsCredited'
<1> SUFFICES ASSUME IInv, [Next]_vars PROVE ConfirmedIsCredited'
  OBVIOUS
<1>h. /\ TypeOK /\ CallInv /\ ConfirmedIsCredited
      /\ \A t : CreditKey(t) \in posted => CreditKey(t) \in posted'
  BY HistoryGrows DEF IInv
<1>w. ASSUME NEW t \in Transfers, NEW s, s # "CONFIRMED",
             row' = [row EXCEPT ![t] = [row[t] EXCEPT !.status = s]]
      PROVE  ConfirmedIsCredited'
  <2>1. [row[t] EXCEPT !.status = s].status = s
    BY <1>h DEF TypeOK
  <2>2. row \in [Transfers -> [status : Statuses, ledgerTx : BOOLEAN]]
    BY <1>h DEF TypeOK
  <2> QED
    BY <1>h, <1>w, <2>1, <2>2 DEF ConfirmedIsCredited, Credited
<1>u. CASE UNCHANGED row
  BY <1>h, <1>u DEF ConfirmedIsCredited, Credited
<1>1. ASSUME NEW w \in Workers, NEW t \in Transfers, Observe(w, t)
      PROVE  ConfirmedIsCredited'
  <2>1. CASE row' = [row EXCEPT ![t].status = "DETECTED"]
    BY <1>w, <2>1, Zenon
  <2> QED
    BY <1>1, <1>u, <2>1 DEF Observe
<1>2. ASSUME NEW w \in Workers, WriteStatus(w) PROVE ConfirmedIsCredited'
  <2>1. worker[w].dep \in Transfers
    BY <1>h DEF TypeOK, CallType
  <2>2. \/ row' = [row EXCEPT ![worker[w].dep].status = "ORPHANED"]
        \/ row' = [row EXCEPT ![worker[w].dep].status = "CONFIRMING"]
    BY <1>2 DEF WriteStatus
  <2>3. "ORPHANED" # "CONFIRMED" /\ "CONFIRMING" # "CONFIRMED"
    OBVIOUS
  <2> QED
    BY <1>w, <2>1, <2>2, <2>3, Zenon
<1>3. ASSUME NEW w \in Workers, WriteConfirmed(w) PROVE ConfirmedIsCredited'
  <2>1. /\ worker[w].pc = "confirm"
        /\ row' = [row EXCEPT ![worker[w].dep] = Confirmed]
    BY <1>3 DEF WriteConfirmed, Return
  <2>2. Credited(worker[w].dep)
    BY <1>h, <2>1 DEF CallInv
  <2> QED
    BY <1>h, <2>1, <2>2 DEF TypeOK, ConfirmedIsCredited, Confirmed, Credited
<1>4. CASE WatchOrphans
  <2>1. watch.dep \in Transfers
    BY <1>h DEF TypeOK
  <2>2. row' = [row EXCEPT ![watch.dep].status = "ORPHANED"]
    BY <1>4 DEF WatchOrphans
  <2>3. "ORPHANED" # "CONFIRMED"
    OBVIOUS
  <2> QED
    BY <1>w, <2>1, <2>2, <2>3, Zenon
<1> QED
  BY <1>1, <1>2, <1>3, <1>4, <1>u, RowSteps

\* The inductive invariant holds in every reachable state.
THEOREM InvariantCorrect == Spec => []IInv
<1>1. Init => IInv
  <2> SUFFICES ASSUME Init PROVE IInv
    OBVIOUS
  <2>1. NoCall.pc = "idle" /\ NotWatching.pc = "idle"
    BY DEF NoCall, NotWatching
  <2>2. NoDeposit.status # "CONFIRMED"
    BY DEF NoDeposit
  <2> QED
    BY <2>1, <2>2, TypeInit, DepositsAssumption
    DEF Init, IInv, ChainInv, LedgerInv, CallInv, WatchInv,
        ConfirmedIsCredited, Credited, Reversed
<1>2. IInv /\ [Next]_vars => IInv'
  BY TypeStep, ChainStep, LedgerStep, CallStep, WatchInvStep, ConfirmedStep
  DEF IInv
<1> QED
  BY <1>1, <1>2, PTL DEF Spec

\* ConfirmedIsCredited of the runs: however calls overtake each other or die,
\* a deposit that says CONFIRMED is in the ledger and knows its posting.
THEOREM ConfirmedIsCreditedCorrect == Spec => []ConfirmedIsCredited
BY InvariantCorrect, PTL DEF IInv

-----------------------------------------------------------------------------
(* The pipeline implements its contract.                                   *)

\* The abstract state: the transfers that left the chain, and what the ledger
\* did about each transfer.
Dropped == {t \in Transfers : reorgs[t] > 0}

Money == [t \in Transfers |-> IF Reversed(t) THEN "reversed"
                              ELSE IF Credited(t) THEN "credited" ELSE "none"]

\* A posting for one transfer leaves what the ledger did about the others.
LEMMA MoneyAfterPosting ==
  ASSUME NEW t \in Transfers, NEW key \in {CreditKey(t), ReverseKey(t)},
         posted' = posted \cup {key},
         key = CreditKey(t) => ~Reversed(t)
  PROVE  Money' = [Money EXCEPT ![t] = IF key = CreditKey(t) THEN "credited"
                                       ELSE "reversed"]
<1>1. \A u \in Transfers :
        /\ Credited(u)' <=> Credited(u) \/ (u = t /\ key = CreditKey(t))
        /\ Reversed(u)' <=> Reversed(u) \/ (u = t /\ key = ReverseKey(t))
  BY KeysDiffer DEF Credited, Reversed
<1>2. CreditKey(t) # ReverseKey(t)
  BY KeysDiffer
<1> QED
  BY <1>1, <1>2 DEF Money

\* Every step of the pipeline is a step of the contract, or none.
LEMMA ContractStep ==
  IInv /\ [Next]_vars => [Contract!Next]_<<deep, Dropped, Money>>
<1> SUFFICES ASSUME IInv, [Next]_vars
             PROVE  Contract!Next \/ UNCHANGED <<deep, Dropped, Money>>
  OBVIOUS
<1>h. TypeOK /\ ChainInv /\ LedgerInv /\ CallInv /\ WatchInv
  BY DEF IInv
<1> USE DEF Dropped, Money
<1>c. UNCHANGED chain => UNCHANGED <<deep, Dropped>>
  BY DEF chain
<1>m. UNCHANGED posted => UNCHANGED Money
  BY DEF Credited, Reversed
<1>1. ASSUME NEW t \in Transfers, Mine(t)
      PROVE  Contract!Next \/ UNCHANGED <<deep, Dropped, Money>>
  <2>1. UNCHANGED <<Dropped, Money>>
    BY <1>1, <1>m DEF Mine, money
  <2>2. deep' = deep \/ deep' = deep \cup {t}
    BY <1>1 DEF Mine
  <2> QED
    BY <2>1, <2>2 DEF Contract!Next, Contract!Deepen
<1>2. ASSUME NEW t \in Transfers, Reorg(t) PROVE Contract!Next
  <2>1. UNCHANGED <<deep, Money>>
    BY <1>2, <1>m DEF Reorg, money
  <2>2. Dropped' = Dropped \cup {t}
    BY <1>2, <1>h, DepositsAssumption DEF Reorg, TypeOK
  <2> QED
    BY <2>1, <2>2 DEF Contract!Next, Contract!Drop
<1>3. ASSUME NEW w \in Workers, PostCredit(w)
      PROVE  Contract!Next \/ UNCHANGED <<deep, Dropped, Money>>
  <2> DEFINE t == worker[w].dep
  <2>1. t \in Transfers /\ t \in deep
    BY <1>3, <1>h DEF TypeOK, CallType, CallInv, PostCredit, Go, Return
  <2>2. UNCHANGED <<deep, Dropped>>
    BY <1>3, <1>c DEF PostCredit
  <2>3. CASE UNCHANGED posted
    BY <1>m, <2>2, <2>3
  <2>4. CASE CreditKey(t) \notin posted /\ posted' = posted \cup {CreditKey(t)}
    <3>1. ~Credited(t) /\ ~Reversed(t)
      BY <1>h, <2>1, <2>4 DEF LedgerInv, Credited
    <3>2. Money' = [Money EXCEPT ![t] = "credited"]
      BY <2>1, <2>4, <3>1, MoneyAfterPosting
    <3>3. Money[t] = "none"
      BY <2>1, <3>1
    <3> QED
      BY <2>1, <2>2, <3>2, <3>3 DEF Contract!Next, Contract!Credit
  <2> QED
    BY <1>3, <2>3, <2>4 DEF PostCredit, Post, money
<1>4. ASSUME WatchReverses
      PROVE  Contract!Next \/ UNCHANGED <<deep, Dropped, Money>>
  <2> DEFINE t == watch.dep
  <2>1. t \in Transfers /\ Credited(t) /\ t \in Dropped
    BY <1>4, <1>h DEF TypeOK, WatchInv, WatchReverses
  <2>2. UNCHANGED <<deep, Dropped>>
    BY <1>4, <1>c DEF WatchReverses
  <2>3. CASE UNCHANGED posted
    BY <1>m, <2>2, <2>3
  <2>4. CASE /\ ReverseKey(t) \notin posted
             /\ posted' = posted \cup {ReverseKey(t)}
    <3>1. Money' = [Money EXCEPT ![t] = "reversed"]
      BY <2>1, <2>4, MoneyAfterPosting, KeysDiffer
    <3>2. Money[t] = "credited"
      BY <2>1, <2>4 DEF Reversed
    <3> QED
      BY <2>1, <2>2, <3>1, <3>2 DEF Contract!Next, Contract!Reverse
  <2> QED
    BY <1>4, <2>3, <2>4 DEF WatchReverses, Post
<1>5. CASE UNCHANGED money /\ UNCHANGED chain
  BY <1>5, <1>c, <1>m DEF money
<1>6. (\E w \in Workers : PostCredit(w)) \/ WatchReverses => UNCHANGED chain
  BY DEF PostCredit, WatchReverses
<1>7. (\E t \in Transfers : Mine(t) \/ Reorg(t)) => UNCHANGED money
  BY DEF Mine, Reorg
<1> QED
  BY <1>1, <1>2, <1>3, <1>4, <1>5, <1>6, <1>7, ChainSteps, MoneySteps

\* DepositContractSpec of the runs: whatever overtakes whatever, a transfer is
\* credited once, after enough confirmations, and reversed once, after its
\* credit and after it left the chain.
THEOREM ImplementsContract == Spec => DepositContractSpec
<1>1. Init => Contract!Init
  BY DEF Init, Contract!Init, Credited, Reversed
<1>2. IInv /\ [Next]_vars => [Contract!Next]_<<deep, Dropped, Money>>
  BY ContractStep
<1> QED
  BY <1>1, <1>2, InvariantCorrect, PTL
  DEF Spec, DepositContractSpec, Contract!Spec, Dropped, Money

-----------------------------------------------------------------------------
(* Fees.                                                                   *)

\* A call about to post has worked out a fee of at most the deposit.
CallFeeInv ==
  \A w \in Workers :
    worker[w].pc = "post" => worker[w].fee \in 0..Amount[worker[w].dep]

\* What a reversal that took the fee f out of revenue leaves of a credit.
Left(t, f) == [NoBalance EXCEPT !["available"] = f - FeeMoved(t),
                                !["revenue"] = FeeMoved(t) - f]

\* A credited transfer has its fee on record, below the deposit; the accounts show
\* the entries of the fee that was moved, until the reversal undoes them with the
\* fee it read.  A row that came late stays.
FeeInv ==
  \A t \in Transfers :
    IF Credited(t)
    THEN /\ feeRow[t] \in 0..(Amount[t] - 1)
         /\ IF Reversed(t)
            THEN \E f \in {FeeMoved(t), feeRow[t]} : bal[t] = Left(t, f)
            ELSE bal[t] = Apply(NoBalance, DepositEntries(Amount[t], FeeMoved(t)))
         /\ t \in late => feeRow[t] > 0
    ELSE feeRow[t] = 0 /\ bal[t] = NoBalance /\ t \notin late

\* The watch reverses with a fee that is, or at least was, the one on record.
WatchFeeInv ==
  watch.pc = "reverse" => watch.fee \in {FeeMoved(watch.dep), feeRow[watch.dep]}

\* A reversal leaves the difference of its fee and the fee of the credit.
LEMMA ReversalLeaves ==
  ASSUME NEW a \in Int, NEW f \in Int, NEW g \in Int
  PROVE  Apply(Apply(NoBalance, DepositEntries(a, f)), ReversalEntries(a, g))
           = [NoBalance EXCEPT !["available"] = g - f, !["revenue"] = f - g]
<1>1. \A x \in Accounts :
        /\ At(DepositEntries(a, f), x) =
              CASE x = "clearing"  -> -a
                [] x = "available" -> a - f
                [] x = "revenue"   -> f
                [] OTHER           -> 0
        /\ At(ReversalEntries(a, g), x) =
              -CASE x = "clearing"  -> -a
                 [] x = "available" -> a - g
                 [] x = "revenue"   -> g
                 [] OTHER           -> 0
  BY EntriesByAccount
<1> QED
  BY <1>1 DEF Apply, NoBalance, Accounts

\* Every action keeps the fees of the calls that are about to post.
LEMMA CallFeeStep ==
  TypeOK /\ CallFeeInv /\ [Next]_vars => CallFeeInv'
<1> SUFFICES ASSUME TypeOK, CallFeeInv, [Next]_vars PROVE CallFeeInv'
  OBVIOUS
<1>s. {"idle", "read", "ask", "orphan", "count", "credit", "post",
       "confirm"} = Steps
  BY DEF Steps
<1>r. ASSUME NEW w \in Workers, worker' = [worker EXCEPT ![w] = NoCall]
      PROVE  CallFeeInv'
  BY <1>r, MoveEffects, ZenonT(30) DEF CallFeeInv
<1>g. ASSUME NEW w \in Workers, NEW from \in Steps, NEW to \in Steps,
             Go(w, from, to), to # "post"
      PROVE  CallFeeInv'
  BY <1>g, MoveEffects DEF CallFeeInv
<1>1. ASSUME NEW w \in Workers, NEW t \in Transfers, Call(w, t)
      PROVE  CallFeeInv'
  BY <1>1, MoveEffects DEF CallFeeInv
<1>2. ASSUME NEW w \in Workers, ReadDeposit(w) PROVE CallFeeInv'
  BY <1>2, <1>g, <1>r, <1>s DEF ReadDeposit, Return
<1>3. ASSUME NEW w \in Workers, AskChain(w) PROVE CallFeeInv'
  BY <1>3, <1>g, <1>r, <1>s DEF AskChain, Return
<1>4. ASSUME NEW w \in Workers, WriteStatus(w) PROVE CallFeeInv'
  BY <1>4, <1>r DEF WriteStatus, Return
<1>5. ASSUME NEW w \in Workers, ReadForCredit(w) PROVE CallFeeInv'
  <2> DEFINE t == worker[w].dep
             x == [worker[w] EXCEPT !.pc = "post", !.fee = FeeAsked(t)]
  <2>1. CASE worker' = [worker EXCEPT ![w] = x]
    <3>1. worker[w] \in CallType
      BY DEF TypeOK
    <3>2. x.dep = t /\ x.fee = FeeAsked(t)
      BY <3>1 DEF CallType
    <3>3. t \in Transfers /\ rate \in Rates /\ Amount[t] \in Nat
      BY <3>1, DepositsAssumption DEF CallType, TypeOK
    <3>4. FeeAsked(t) \in 0..Amount[t]
      BY <3>3, FeeType
    <3>5. worker \in [Workers -> CallType]
      BY DEF TypeOK
    <3> HIDE DEF x, t
    <3>6. \A v \in Workers : worker'[v] = IF v = w THEN x ELSE worker[v]
      BY <2>1, <3>5
    <3> QED
      BY <3>2, <3>4, <3>6 DEF CallFeeInv
  <2>2. CASE Return(w, "credit")
    BY <1>r, <2>2 DEF Return
  <2> QED
    BY <1>5, <2>1, <2>2, Zenon DEF ReadForCredit
<1>6. ASSUME NEW w \in Workers, PostCredit(w) PROVE CallFeeInv'
  BY <1>6, <1>g, <1>r, <1>s DEF PostCredit, Return
<1>7. ASSUME NEW w \in Workers, WriteConfirmed(w) PROVE CallFeeInv'
  BY <1>7, <1>r DEF WriteConfirmed, Return
<1>8. CASE worker' = [w \in Workers |-> NoCall]
  BY <1>8 DEF CallFeeInv, NoCall
<1>9. CASE UNCHANGED worker
  BY <1>9 DEF CallFeeInv
<1> QED
  BY <1>1, <1>2, <1>3, <1>4, <1>5, <1>6, <1>7, <1>8, <1>9, <1>r, WorkerSteps
  DEF WorkerStep

\* Every action keeps the accounts in step with the fee rows.
LEMMA FeeStep ==
  IInv /\ CallFeeInv /\ FeeInv /\ WatchFeeInv /\ [Next]_vars => FeeInv' /\ WatchFeeInv'
<1> SUFFICES ASSUME IInv, CallFeeInv, FeeInv, WatchFeeInv, [Next]_vars
             PROVE  FeeInv' /\ WatchFeeInv'
  OBVIOUS
<1>h. TypeOK /\ LedgerInv /\ WatchInv
  BY DEF IInv
<1>w. CASE UNCHANGED money
  <2>1. FeeInv'
    BY <1>w DEF FeeInv, FeeMoved, Left, Credited, Reversed, money
  <2>2. CASE WatchReadsFee
    <3>1. /\ watch'.dep = watch.dep /\ watch'.fee = FeeTaken(watch.dep)
          /\ watch.ledgerTx
      BY <1>h, <2>2 DEF WatchReadsFee, TypeOK, WatchInv
    <3> QED
      BY <1>w, <2>1, <3>1 DEF WatchFeeInv, FeeTaken, FeeMoved, money
  <2>3. CASE UNCHANGED watch
    BY <1>w, <2>1, <2>3 DEF WatchFeeInv, FeeMoved, money
  <2>4. CASE watch'.pc # "reverse"
    BY <2>1, <2>4 DEF WatchFeeInv
  <2>5. WatchReadsFee \/ UNCHANGED watch \/ watch'.pc # "reverse"
    <3>1. NotWatching.pc = "idle"
      BY DEF NotWatching
    <3>2. ASSUME NEW t \in Transfers, WatchCredited(t)
          PROVE  watch'.pc # "reverse"
      BY <3>2 DEF WatchCredited, NotWatching
    <3>3. WatchAsks \/ WatchReverses \/ WatchOrphans => watch'.pc # "reverse"
      BY <1>h, <3>1 DEF WatchAsks, WatchReverses, WatchOrphans, TypeOK
    <3> QED
      BY <3>1, <3>2, <3>3, WatchSteps DEF WatchStep
  <2> QED
    BY <2>1, <2>2, <2>3, <2>4, <2>5
<1>1. ASSUME NEW w \in Workers, PostCredit(w) PROVE FeeInv' /\ WatchFeeInv'
  <2> PICK t \in Transfers, f \in Nat : t = worker[w].dep /\ f = worker[w].fee
    BY <1>h DEF TypeOK, CallType
  <2> DEFINE e == DepositEntries(Amount[t], f)
  <2>w. UNCHANGED watch
    BY <1>1 DEF PostCredit
  <2>1. CASE /\ Balanced(e)
             /\ worker[w].pc = "post"
             /\ Post(t, CreditKey(t), e)
             /\ RecordFee(w, t)
    <3>1. t \in Transfers /\ Amount[t] \in Nat \ {0} /\ f \in 0..Amount[t]
      BY <1>h, <2>1, DepositsAssumption DEF TypeOK, CallType, CallFeeInv
    <3>2. f \in 0..(Amount[t] - 1)
      BY <2>1, <3>1, CreditLeavesSomething
    <3>3. CASE Credited(t)
      <4>1. UNCHANGED <<posted, bal>>
        BY <2>1, <3>3 DEF Post, Credited
      <4>2. CASE f > 0 /\ feeRow[t] = 0
        <5>1. feeRow' = [feeRow EXCEPT ![t] = f] /\ late' = late \cup {t}
          BY <2>1, <3>3, <4>2 DEF RecordFee, FeeCharged, Credited
        <5>2. \A u \in Transfers : feeRow'[u] = IF u = t THEN f ELSE feeRow[u]
          BY <1>h, <5>1 DEF TypeOK
        <5>3. t \notin late
          BY <3>3, <4>2 DEF FeeInv
        <5>4. \A u \in Transfers : FeeMoved(u)' = FeeMoved(u)
          BY <4>2, <5>1, <5>2, <5>3 DEF FeeMoved
        <5>5. FeeMoved(t) = 0
          BY <4>2, <5>3 DEF FeeMoved
        <5>6. \A u \in Transfers :
                /\ Credited(u)' <=> Credited(u)
                /\ Reversed(u)' <=> Reversed(u)
                /\ u # t => (u \in late' <=> u \in late)
          BY <4>1, <5>1 DEF Credited, Reversed
        <5>7. \A u \in Transfers :
                (\E x \in {FeeMoved(u), feeRow[u]} : bal[u] = Left(u, x))
                  => \E x \in {FeeMoved(u)', feeRow'[u]} : bal'[u] = Left(u, x)'
          BY <4>1, <4>2, <5>2, <5>4, <5>5 DEF Left
        <5>8. FeeInv'
          BY <3>2, <3>3, <4>1, <4>2, <5>2, <5>4, <5>6, <5>7 DEF FeeInv
        <5>9. WatchFeeInv'
          BY <1>h, <2>w, <4>2, <5>2, <5>4, <5>5 DEF WatchFeeInv, TypeOK
        <5> QED
          BY <5>8, <5>9
      <4>3. CASE ~(f > 0 /\ feeRow[t] = 0)
        BY <1>w, <2>1, <4>1, <4>3 DEF money, RecordFee
      <4> QED
        BY <4>2, <4>3
    <3>4. CASE ~Credited(t)
      <4>1. /\ feeRow' = [feeRow EXCEPT ![t] = f] /\ UNCHANGED late
            /\ t \notin late
        <5>1. feeRow[t] = 0 /\ t \notin late /\ CreditKey(t) \notin posted
          BY <3>1, <3>4 DEF FeeInv, Credited
        <5>2. CASE f > 0
          BY <2>1, <5>1, <5>2 DEF RecordFee, FeeCharged
        <5>3. CASE f = 0
          BY <1>h, <2>1, <5>1, <5>3 DEF RecordFee, TypeOK
        <5> QED
          BY <3>1, <5>2, <5>3
      <4>2. /\ posted' = posted \cup {CreditKey(t)}
            /\ bal' = [bal EXCEPT ![t] = Apply(bal[t], e)]
            /\ bal[t] = NoBalance
            /\ ~Reversed(t)
        BY <1>h, <2>1, <3>1, <3>4 DEF Post, Credited, FeeInv, LedgerInv
      <4>3. \A u \in Transfers :
              /\ Credited(u)' <=> Credited(u) \/ u = t
              /\ Reversed(u)' <=> Reversed(u)
        BY <4>2, KeysDiffer DEF Credited, Reversed
      <4>4. \A u \in Transfers \ {t} :
              feeRow'[u] = feeRow[u] /\ bal'[u] = bal[u]
        BY <1>h, <4>1, <4>2 DEF TypeOK
      <4>5. feeRow'[t] = f /\ bal'[t] = Apply(NoBalance, e)
        BY <1>h, <3>1, <4>1, <4>2 DEF TypeOK
      <4>6. \A u \in Transfers \ {t} : FeeMoved(u)' = FeeMoved(u)
        BY <4>1, <4>4 DEF FeeMoved
      <4>7. FeeMoved(t)' = f
        BY <4>1, <4>5 DEF FeeMoved
      <4>8. ASSUME NEW u \in Transfers, u # t
            PROVE  IF Credited(u)'
                   THEN /\ feeRow'[u] \in 0..(Amount[u] - 1)
                        /\ IF Reversed(u)'
                           THEN \E x \in {FeeMoved(u)', feeRow'[u]} :
                                  bal'[u] = Left(u, x)'
                           ELSE bal'[u] = Apply(NoBalance,
                                            DepositEntries(Amount[u], FeeMoved(u)'))
                        /\ u \in late' => feeRow'[u] > 0
                   ELSE feeRow'[u] = 0 /\ bal'[u] = NoBalance /\ u \notin late'
        <5>1. /\ Credited(u)' <=> Credited(u)
              /\ Reversed(u)' <=> Reversed(u)
              /\ feeRow'[u] = feeRow[u] /\ bal'[u] = bal[u] /\ FeeMoved(u)' = FeeMoved(u)
          BY <4>3, <4>4, <4>6, <4>8
        <5>2. \A x : Left(u, x)' = Left(u, x)
          BY <5>1 DEF Left
        <5> QED
          BY <4>1, <5>1, <5>2 DEF FeeInv
      <4>9. /\ Credited(t)'
            /\ ~Reversed(t)'
            /\ feeRow'[t] \in 0..(Amount[t] - 1)
            /\ bal'[t] = Apply(NoBalance, DepositEntries(Amount[t], FeeMoved(t)'))
            /\ t \notin late'
        BY <3>1, <3>2, <4>1, <4>2, <4>3, <4>5, <4>7
      <4> HIDE DEF e
      <4>10. FeeInv'
        BY <4>8, <4>9 DEF FeeInv
      <4>11. watch.pc = "reverse" => watch.dep # t /\ watch.dep \in Transfers
        BY <1>h, <3>4 DEF WatchInv, TypeOK
      <4>12. WatchFeeInv'
        BY <2>w, <4>4, <4>6, <4>11 DEF WatchFeeInv
      <4> QED
        BY <4>10, <4>12
    <3> QED
      BY <3>3, <3>4
  <2>2. CASE UNCHANGED money
    BY <1>w, <2>2
  <2> QED
    BY <1>1, <2>1, <2>2 DEF PostCredit, Go
<1>2. CASE WatchReverses
  <2> DEFINE t == watch.dep
             g == watch.fee
             f == FeeMoved(t)
             e == ReversalEntries(Amount[t], g)
  <2>1. t \in Transfers /\ Credited(t) /\ g \in {f, feeRow[t]}
    BY <1>2, <1>h DEF TypeOK, WatchInv, WatchReverses, WatchFeeInv
  <2>2. Post(t, ReverseKey(t), e) /\ UNCHANGED <<feeRow, late>>
    BY <1>2 DEF WatchReverses
  <2>3. CASE UNCHANGED <<posted, bal>>
    BY <1>w, <2>2, <2>3 DEF money
  <2>4. CASE /\ ReverseKey(t) \notin posted
             /\ posted' = posted \cup {ReverseKey(t)}
             /\ bal' = [bal EXCEPT ![t] = Apply(bal[t], e)]
    <3>1. bal[t] = Apply(NoBalance, DepositEntries(Amount[t], f))
      BY <2>1, <2>4 DEF FeeInv, Reversed
    <3>2. Amount[t] \in Int /\ f \in Int /\ g \in Int
      BY <1>h, <2>1, DepositsAssumption DEF TypeOK, FeeMoved
    <3>3. Apply(bal[t], e) = Left(t, g)
      <4> HIDE DEF f, g
      <4>1. Apply(bal[t], e) = [NoBalance EXCEPT !["available"] = g - f,
                                                 !["revenue"] = f - g]
        BY <3>1, <3>2, ReversalLeaves
      <4> QED
        BY <4>1 DEF Left, f
    <3>4. \A u \in Transfers :
            /\ Credited(u)' <=> Credited(u)
            /\ Reversed(u)' <=> Reversed(u) \/ u = t
      BY <2>4, KeysDiffer DEF Credited, Reversed
    <3>5. \A u \in Transfers :
            bal'[u] = IF u = t THEN Left(t, g) ELSE bal[u]
      BY <1>h, <2>4, <3>3 DEF TypeOK
    <3>6. \A u \in Transfers : FeeMoved(u)' = FeeMoved(u)
      BY <2>2 DEF FeeMoved
    <3>7. watch'.pc # "reverse"
      BY <1>2, <1>h DEF WatchReverses, TypeOK
    <3>8. WatchFeeInv'
      BY <3>7 DEF WatchFeeInv
    <3>9. ASSUME NEW u \in Transfers
          PROVE  IF Credited(u)'
                 THEN /\ feeRow'[u] \in 0..(Amount[u] - 1)
                      /\ IF Reversed(u)'
                         THEN \E x \in {FeeMoved(u)', feeRow'[u]} :
                                bal'[u] = Left(u, x)'
                         ELSE bal'[u] = Apply(NoBalance,
                                          DepositEntries(Amount[u], FeeMoved(u)'))
                      /\ u \in late' => feeRow'[u] > 0
                 ELSE feeRow'[u] = 0 /\ bal'[u] = NoBalance /\ u \notin late'
      <4>1. CASE u = t
        <5>1. /\ Credited(u)' /\ Reversed(u)' /\ FeeMoved(u)' = FeeMoved(u)
              /\ bal'[u] = Left(u, g) /\ g \in {FeeMoved(u), feeRow[u]}
          BY <2>1, <3>4, <3>5, <3>6, <4>1
        <5>2. \A x : Left(u, x)' = Left(u, x)
          BY <5>1 DEF Left
        <5> QED
          BY <2>1, <2>2, <4>1, <5>1, <5>2 DEF FeeInv
      <4>2. CASE u # t
        <5>1. /\ Credited(u)' <=> Credited(u)
              /\ Reversed(u)' <=> Reversed(u)
              /\ FeeMoved(u)' = FeeMoved(u) /\ bal'[u] = bal[u]
          BY <3>4, <3>5, <3>6, <4>2
        <5>2. \A x : Left(u, x)' = Left(u, x)
          BY <5>1 DEF Left
        <5> QED
          BY <2>2, <5>1, <5>2 DEF FeeInv
      <4> QED
        BY <4>1, <4>2
    <3> QED
      BY <3>8, <3>9 DEF FeeInv
  <2> QED
    BY <2>2, <2>3, <2>4 DEF Post
<1> QED
  BY <1>1, <1>2, <1>w, MoneySteps

\* The accounts of every transfer are those of the fee that was moved.
LEMMA FeesCorrect == Spec => [](TypeOK /\ FeeInv)
<1>1. Init => CallFeeInv /\ FeeInv /\ WatchFeeInv
  BY DEF Init, CallFeeInv, FeeInv, WatchFeeInv, NoCall, NotWatching, Credited, Reversed
<1>2. IInv /\ CallFeeInv /\ FeeInv /\ WatchFeeInv /\ [Next]_vars
        => CallFeeInv' /\ FeeInv' /\ WatchFeeInv'
  BY CallFeeStep, FeeStep DEF IInv
<1>3. IInv => TypeOK
  BY DEF IInv
<1> QED
  BY <1>1, <1>2, <1>3, InvariantCorrect, PTL DEF Spec

\* CreditExact of the runs: the user has the deposit less what went to revenue, the
\* fee on record or nothing, for any rates that settings accept, zero among them.
THEOREM CreditExactCorrect == Spec => []CreditExact
<1>1. TypeOK /\ FeeInv => CreditExact
  <2> SUFFICES ASSUME TypeOK, FeeInv, NEW t \in Transfers,
                      Credited(t), ~Reversed(t)
               PROVE  /\ bal[t]["available"] = Amount[t] - FeeMoved(t)
                      /\ bal[t]["revenue"] = FeeMoved(t)
                      /\ feeRow[t] \in 0..Amount[t]
    BY DEF CreditExact
  <2>1. Amount[t] \in Int /\ FeeMoved(t) \in Int
    BY DepositsAssumption DEF TypeOK, FeeMoved
  <2>2. /\ feeRow[t] \in 0..(Amount[t] - 1)
        /\ bal[t] = Apply(NoBalance, DepositEntries(Amount[t], FeeMoved(t)))
    BY DEF FeeInv
  <2>3. /\ bal[t]["available"] = Amount[t] - FeeMoved(t)
        /\ bal[t]["revenue"] = FeeMoved(t)
    BY <2>1, <2>2, CreditByAccount, ZenonT(30)
  <2> QED
    BY <2>1, <2>2, <2>3
<1> QED
  BY <1>1, FeesCorrect, PTL

\* ReversalExact of the runs: a reversal undoes its credit on every account, up to
\* a fee whose row came after the posting, whatever the settings were at any moment.
THEOREM ReversalExactCorrect == Spec => []ReversalExact
<1>1. TypeOK /\ FeeInv => ReversalExact
  <2> SUFFICES ASSUME TypeOK, FeeInv, NEW t \in Transfers, Credited(t), Reversed(t)
               PROVE  \E gift \in {0, feeRow[t] - FeeMoved(t)} :
                        bal[t] = [NoBalance EXCEPT !["available"] = gift,
                                                   !["revenue"] = -gift]
    BY DEF ReversalExact
  <2>1. FeeMoved(t) \in Int /\ feeRow[t] \in Int
    BY DEF TypeOK, FeeMoved
  <2>2. PICK f \in {FeeMoved(t), feeRow[t]} : bal[t] = Left(t, f)
    BY DEF FeeInv
  <2>3. /\ f - FeeMoved(t) \in {0, feeRow[t] - FeeMoved(t)}
        /\ FeeMoved(t) - f = -(f - FeeMoved(t))
    BY <2>1
  <2> QED
    BY <2>2, <2>3 DEF Left
<1> QED
  BY <1>1, FeesCorrect, PTL
=============================================================================
