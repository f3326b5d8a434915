----------------------------- MODULE LedgerProofs ---------------------------
(***************************************************************************)
(* Theorems about module Ledger, for any users, requests, callers and      *)
(* retry bound.                                                            *)
(***************************************************************************)
EXTENDS Ledger, TLAPS

\* Whatever an operation posts, each entry is an integer.
LEMMA EntriesAreIntegers ==
  ASSUME NEW r \in Requests, NEW a \in Accounts
  PROVE  At(EntriesOf(r), a) \in Int
<1> /\ r.op \in Operations /\ r.amount \in Int /\ r.fee \in Int
    /\ r.settled \in Int
  BY RequestsAssumption
<1>1. CASE r.op = "deposit"
  BY <1>1 DEF EntriesOf, At, DepositEntries, WithoutZero, Accounts
<1>2. CASE r.op = "reversal"
  BY <1>2 DEF EntriesOf, At, ReversalEntries, WithoutZero, Accounts
<1>3. CASE r.op = "fee"
  BY <1>3 DEF EntriesOf, At, FeeEntries, Accounts
<1>4. CASE r.op = "hold"
  BY <1>4 DEF EntriesOf, At, HoldEntries, Accounts
<1>5. CASE r.op = "release"
  BY <1>5 DEF EntriesOf, At, ReleaseEntries, Accounts
<1>6. CASE r.op = "settlement"
  BY <1>6 DEF EntriesOf, At, SettlementEntries, WithoutZero, Accounts
<1>7. CASE r.op = "refund"
  BY <1>7 DEF EntriesOf, At, RefundEntries, Accounts
<1>8. CASE r.op = "adjustment"
  BY <1>8 DEF EntriesOf, At, AdjustmentEntries, Accounts
<1> QED
  BY <1>1, <1>2, <1>3, <1>4, <1>5, <1>6, <1>7, <1>8 DEF Operations

\* Posting adds the net of the entries to the net of the balances.
LEMMA NetOfApply ==
  ASSUME NEW b \in [Accounts -> Int], NEW e,
         \A a \in Accounts : At(e, a) \in Int
  PROVE  /\ Apply(b, e) \in [Accounts -> Int]
         /\ \A a \in Accounts : Apply(b, e)[a] = b[a] + At(e, a)
         /\ Net(Apply(b, e)) = Net(b) + Net(e)
<1>1. /\ Apply(b, e) \in [Accounts -> Int]
      /\ \A a \in Accounts : Apply(b, e)[a] = b[a] + At(e, a)
  BY DEF Apply
<1>2. \A a \in Accounts : At(Apply(b, e), a) = At(b, a) + At(e, a)
  BY <1>1 DEF At
<1>3. \A a \in Accounts : At(b, a) \in Int
  BY DEF At
<1> QED
  BY <1>1, <1>2, <1>3 DEF Net, Accounts

-----------------------------------------------------------------------------
(* Type correctness.                                                       *)

\* The parts of a step that end a call and leave the ledger alone.
LEMMA AnswerType ==
  ASSUME TypeOK, NEW c \in Calls, NEW a \in Finished, Answer(c, a),
         UNCHANGED ledger, feeRow' \in [Keys -> Nat]
  PROVE  TypeOK'
BY AttemptsAssumption DEF TypeOK, Answer, ledger, Finished

\* Recording a fee keeps the type of the fee rows.
LEMMA RecordFeeType ==
  ASSUME TypeOK, NEW r \in Requests, RecordFee(r)
  PROVE  feeRow' \in [Keys -> Nat]
<1>1. FeeOf(r) \in Int /\ r.key \in Keys
  BY RequestsAssumption DEF FeeOf, Keys
<1> QED
  BY <1>1 DEF TypeOK, RecordFee

\* A commit keeps the types.
LEMMA CommitType ==
  ASSUME TypeOK, NEW c \in Calls, Commit(c)
  PROVE  TypeOK'
<1> DEFINE r == req[c]
<1>1. /\ r \in Requests /\ r.user \in Users
      /\ \A a \in Accounts : At(EntriesOf(r), a) \in Int
  BY RequestsAssumption, EntriesAreIntegers DEF TypeOK
<1>2. bal[r.user] \in [Accounts -> Int]
  BY <1>1 DEF TypeOK
<1>3. Apply(bal[r.user], EntriesOf(r)) \in [Accounts -> Int]
  BY <1>1, <1>2, NetOfApply
<1>4. bal' \in [Users -> [Accounts -> Int]]
  BY <1>3 DEF Commit, TypeOK
<1>5. UnguardedDebit(r) \in Nat
  <2>1. At(EntriesOf(r), "available") \in Int
    BY <1>1 DEF Accounts
  <2> QED
    BY <2>1 DEF UnguardedDebit, Debit
<1>6. unguarded' \in [Users -> Nat]
  BY <1>1, <1>5 DEF Commit, TypeOK
<1>7. stale' \in [Calls -> BOOLEAN]
  BY DEF Commit, TypeOK, Conflicting
<1>8. posted' \subseteq Keys
  BY <1>1 DEF Commit, TypeOK, Keys
<1>9. feeRow' \in [Keys -> Nat]
  BY <1>1, RecordFeeType DEF Commit
<1> QED
  BY <1>4, <1>6, <1>7, <1>8, <1>9, AttemptsAssumption DEF Commit, TypeOK, Finished

\* The initial state is typed.
LEMMA TypeInit == Init => TypeOK
BY AttemptsAssumption DEF Init, TypeOK, NoBalance, Finished

\* Every action keeps the types.
LEMMA TypeStep == TypeOK /\ [Next]_vars => TypeOK'
<1> SUFFICES ASSUME TypeOK, [Next]_vars PROVE TypeOK'
  OBVIOUS
<1>1. ASSUME NEW c \in Calls, NEW r \in Requests, Submit(c, r)
      PROVE  TypeOK'
  BY <1>1 DEF TypeOK, Submit, Finished, ledger
<1>0. UNCHANGED feeRow => feeRow' \in [Keys -> Nat]
  BY DEF TypeOK
<1>2. ASSUME NEW c \in Calls, FoundExisting(c) PROVE TypeOK'
  <2>1. CASE req[c].op \in {"deposit", "settlement"}
    <3>1. RecordFee(req[c]) /\ req[c] \in Requests
      BY <1>2, <2>1 DEF FoundExisting, TypeOK
    <3> QED
      BY <1>2, <3>1, RecordFeeType, AnswerType DEF FoundExisting, Finished
  <2>2. CASE req[c].op \notin {"deposit", "settlement"}
    BY <1>2, <2>2, <1>0, AnswerType DEF FoundExisting, Finished
  <2> QED
    BY <2>1, <2>2
<1>3. ASSUME NEW c \in Calls, Refuse(c) PROVE TypeOK'
  BY <1>3, <1>0, AnswerType DEF Refuse, Finished
<1>4. ASSUME NEW c \in Calls, Reject(c) PROVE TypeOK'
  BY <1>4, <1>0, AnswerType DEF Reject, Finished
<1>5. ASSUME NEW c \in Calls, Open(c) PROVE TypeOK'
  <2>1. Available(req[c].user) \in Int
    BY RequestsAssumption DEF TypeOK, Available, Accounts
  <2> QED
    BY <1>5, <2>1 DEF TypeOK, Open, Finished, ledger
<1>6. ASSUME NEW c \in Calls, Commit(c) PROVE TypeOK'
  BY <1>6, CommitType
<1>7. ASSUME NEW c \in Calls, LoseRace(c) PROVE TypeOK'
  BY <1>7, <1>0, AnswerType DEF LoseRace, Finished
<1>8. ASSUME NEW c \in Calls, SerializationFailure(c) PROVE TypeOK'
  <2>1. CASE AttemptLeft(c)
    <3>1. /\ pc' = [pc EXCEPT ![c] = "retry"]
          /\ attempt' = [attempt EXCEPT ![c] = NextAttempt(c)]
          /\ stale' = [stale EXCEPT ![c] = FALSE]
          /\ seen' = [seen EXCEPT ![c] = 0]
          /\ UNCHANGED <<req, feeRow, bal, posted, unguarded>>
      BY <1>8, <2>1 DEF SerializationFailure, ledger
    <3>2. attempt[c] \in 0..MaxAttempts
      BY DEF TypeOK
    <3>3. NextAttempt(c) \in 0..MaxAttempts
      BY <2>1, <3>2, AttemptsAssumption DEF AttemptLeft, NextAttempt
    <3> QED
      BY <3>1, <3>3 DEF TypeOK, Finished
  <2>2. CASE ~AttemptLeft(c)
    BY <1>8, <2>2, <1>0, AnswerType DEF SerializationFailure, GiveUp, Finished
  <2> QED
    BY <2>1, <2>2
<1>9. ASSUME NEW c \in Calls, Abandon(c) PROVE TypeOK'
  BY <1>9, <1>0, AnswerType DEF Abandon, Finished
<1>10. CASE UNCHANGED vars
  BY <1>10 DEF TypeOK, vars, Finished
<1> QED
  BY <1>1, <1>2, <1>3, <1>4, <1>5, <1>6, <1>7, <1>8, <1>9, <1>10 DEF Next

\* Every variable keeps its type: TypeOK of the runs, for every instance.
THEOREM TypeCorrect == Spec => []TypeOK
BY TypeInit, TypeStep, PTL DEF Spec

-----------------------------------------------------------------------------
(* Only a commit moves money.                                              *)

\* Every step of the ledger is a commit or leaves the ledger alone.
LEMMA LedgerSteps ==
  ASSUME [Next]_vars
  PROVE  (\E c \in Calls : Commit(c)) \/ UNCHANGED ledger
BY DEF Next, vars, ledger, Submit, FoundExisting, Refuse, Reject, Open,
       LoseRace, SerializationFailure, Abandon

\* A commit posts a new key and applies the entries of its request.
LEMMA CommitEffect ==
  ASSUME TypeOK, NEW c \in Calls, Commit(c)
  PROVE  /\ req[c] \in Requests
         /\ req[c].user \in Users
         /\ req[c].key \notin posted
         /\ posted' = posted \cup {req[c].key}
         /\ bal' = [bal EXCEPT ![req[c].user] = Apply(@, EntriesOf(req[c]))]
         /\ bal[req[c].user] \in [Accounts -> Int]
         /\ \A a \in Accounts : At(EntriesOf(req[c]), a) \in Int
BY RequestsAssumption, EntriesAreIntegers
DEF TypeOK, Commit, UniqueIndex, KeyAbsent

\* AppliedOnce of the runs: a balance moves only with a new key, by exactly
\* the entries of that key's request, and no transaction is ever undone.
THEOREM AppliedOnceCorrect == Spec => AppliedOnce
<1> DEFINE Once ==
      /\ posted \subseteq posted'
      /\ bal' # bal =>
           \E r \in Requests :
             /\ r.key \notin posted
             /\ posted' = posted \cup {r.key}
             /\ bal' = [bal EXCEPT ![r.user] = Apply(@, EntriesOf(r))]
<1>1. TypeOK /\ [Next]_vars => [Once]_<<bal, posted>>
  <2> SUFFICES ASSUME TypeOK, [Next]_vars PROVE Once
    OBVIOUS
  <2>1. CASE UNCHANGED ledger
    BY <2>1 DEF ledger
  <2>2. ASSUME NEW c \in Calls, Commit(c) PROVE Once
    BY <2>2, CommitEffect
  <2> QED
    BY <2>1, <2>2, LedgerSteps
<1> QED
  BY <1>1, TypeCorrect, PTL DEF Spec, AppliedOnce

-----------------------------------------------------------------------------
(* Fee rows.                                                               *)

\* A transaction that is not in the ledger has no fee row.
FeeRowInv == \A k \in Keys : feeRow[k] # 0 => k \in posted

\* What a posting moves to revenue is its fee, or gives the fee back.
LEMMA RevenueOfEntries ==
  ASSUME NEW r \in Requests
  PROVE  /\ FeeOf(r) \in Int
         /\ At(EntriesOf(r), "revenue") =
              IF r.op = "reversal" THEN -r.fee ELSE FeeOf(r)
<1> /\ r.op \in Operations /\ r.amount \in Int /\ r.fee \in Nat
    /\ r.settled \in Nat
  BY RequestsAssumption
<1>1. CASE r.op = "deposit"
  BY <1>1 DEF EntriesOf, FeeOf, At, DepositEntries, WithoutZero
<1>2. CASE r.op = "reversal"
  BY <1>2 DEF EntriesOf, FeeOf, At, ReversalEntries, WithoutZero
<1>3. CASE r.op = "fee"
  BY <1>3 DEF EntriesOf, FeeOf, At, FeeEntries
<1>4. CASE r.op = "hold"
  BY <1>4 DEF EntriesOf, FeeOf, At, HoldEntries
<1>5. CASE r.op = "release"
  BY <1>5 DEF EntriesOf, FeeOf, At, ReleaseEntries
<1>6. CASE r.op = "settlement"
  BY <1>6 DEF EntriesOf, FeeOf, At, SettlementEntries, WithoutZero
<1>7. CASE r.op = "refund"
  BY <1>7 DEF EntriesOf, FeeOf, At, RefundEntries
<1>8. CASE r.op = "adjustment"
  BY <1>8 DEF EntriesOf, FeeOf, At, AdjustmentEntries
<1> QED
  BY <1>1, <1>2, <1>3, <1>4, <1>5, <1>6, <1>7, <1>8 DEF Operations

\* The fee row a step writes is a first row, that of its own request.
LEMMA RecordFeeEffect ==
  ASSUME TypeOK, NEW r \in Requests, RecordFee(r)
  PROVE  /\ r.key \in Keys
         /\ FeeOf(r) \in Int
         /\ \A k \in Keys : feeRow'[k] =
              IF k = r.key /\ FeeOf(r) > 0 /\ feeRow[k] = 0 THEN FeeOf(r)
              ELSE feeRow[k]
<1>1. r.key \in Keys /\ FeeOf(r) \in Int
  BY RevenueOfEntries DEF Keys
<1> QED
  BY <1>1 DEF RecordFee, TypeOK

\* A repeated call writes at most the row its posting is still without, and
\* every other step that is not a commit leaves the rows alone.
LEMMA FeeRowSteps ==
  ASSUME TypeOK, [Next]_vars
  PROVE  \/ \E c \in Calls : Commit(c)
         \/ /\ UNCHANGED ledger
            /\ \A k \in Keys : feeRow'[k] # feeRow[k] =>
                 feeRow[k] = 0 /\ k \in posted
<1>1. ASSUME NEW c \in Calls, FoundExisting(c)
      PROVE  /\ UNCHANGED ledger
             /\ \A k \in Keys : feeRow'[k] # feeRow[k] =>
                  feeRow[k] = 0 /\ k \in posted
  <2>1. req[c] \in Requests /\ req[c].key \in posted /\ UNCHANGED ledger
    BY <1>1 DEF FoundExisting, TypeOK
  <2>2. CASE req[c].op \in {"deposit", "settlement"}
    <3>1. RecordFee(req[c])
      BY <1>1, <2>2 DEF FoundExisting
    <3> QED
      BY <2>1, <3>1, RecordFeeEffect
  <2>3. CASE req[c].op \notin {"deposit", "settlement"}
    BY <1>1, <2>1, <2>3 DEF FoundExisting
  <2> QED
    BY <2>2, <2>3
<1> QED
  BY <1>1 DEF Next, vars, ledger, Submit, Refuse, Reject, Open,
              LoseRace, SerializationFailure, Abandon

\* A commit writes the row of the transaction it posts and no other.
LEMMA CommitFeeRow ==
  ASSUME TypeOK, FeeRowInv, NEW c \in Calls, Commit(c)
  PROVE  /\ FeeRowInv'
         /\ \A k \in Keys : feeRow'[k] =
              IF k = req[c].key /\ FeeOf(req[c]) > 0 THEN FeeOf(req[c])
              ELSE feeRow[k]
         /\ feeRow[req[c].key] = 0
<1> DEFINE r == req[c]
<1>1. /\ r \in Requests /\ r.key \in Keys /\ r.key \notin posted
      /\ posted' = posted \cup {r.key}
  BY CommitEffect DEF Keys
<1>2. feeRow[r.key] = 0
  BY <1>1 DEF FeeRowInv
<1>3. RecordFee(r)
  BY DEF Commit
<1>4. \A k \in Keys : feeRow'[k] =
        IF k = r.key /\ FeeOf(r) > 0 THEN FeeOf(r) ELSE feeRow[k]
  BY <1>1, <1>2, <1>3, RecordFeeEffect
<1> QED
  BY <1>1, <1>2, <1>4 DEF FeeRowInv

\* FeeWithPosting of the runs, whatever fees the calls with one key ask for:
\* revenue and its row come in one step with one amount, a row once there stays
\* as it is, and a row that comes later belongs to a posting without one.
THEOREM FeeWithPostingCorrect == Spec => FeeWithPosting
<1> DEFINE Matching ==
      /\ \A k \in Keys : feeRow'[k] # feeRow[k] =>
           /\ feeRow[k] = 0
           /\ k \in posted'
      /\ \A k \in posted' \ posted : feeRow'[k] > 0 =>
           \E u \in Users :
             bal'[u]["revenue"] = bal[u]["revenue"] + feeRow'[k]
      /\ \A u \in Users : bal'[u]["revenue"] > bal[u]["revenue"] =>
           \E k \in posted' \ posted :
             /\ feeRow[k] = 0
             /\ feeRow'[k] = bal'[u]["revenue"] - bal[u]["revenue"]
<1>1. Init => FeeRowInv
  BY DEF Init, FeeRowInv, Keys
<1>2. TypeOK /\ FeeRowInv /\ [Next]_vars => FeeRowInv'
  <2> SUFFICES ASSUME TypeOK, FeeRowInv, [Next]_vars PROVE FeeRowInv'
    OBVIOUS
  <2>1. CASE /\ UNCHANGED ledger
             /\ \A k \in Keys : feeRow'[k] # feeRow[k] =>
                  feeRow[k] = 0 /\ k \in posted
    BY <2>1 DEF FeeRowInv, ledger
  <2> QED
    BY <2>1, FeeRowSteps, CommitFeeRow
<1>3. TypeOK /\ FeeRowInv /\ [Next]_vars
        => [Matching]_<<bal, posted, feeRow>>
  <2> SUFFICES ASSUME TypeOK, FeeRowInv, [Next]_vars PROVE Matching
    OBVIOUS
  <2>0. \A u \in Users : bal[u]["revenue"] \in Int
    BY DEF TypeOK, Accounts
  <2>1. CASE /\ UNCHANGED ledger
             /\ \A k \in Keys : feeRow'[k] # feeRow[k] =>
                  feeRow[k] = 0 /\ k \in posted
    BY <2>0, <2>1 DEF ledger
  <2>2. ASSUME NEW c \in Calls, Commit(c) PROVE Matching
    <3> DEFINE r == req[c]
    <3>1. /\ r \in Requests /\ r.user \in Users /\ r.key \in Keys
          /\ posted' \ posted = {r.key}
      BY <2>2, CommitEffect DEF Keys
    <3>2. /\ feeRow[r.key] = 0
          /\ \A k \in Keys : feeRow'[k] =
               IF k = r.key /\ FeeOf(r) > 0 THEN FeeOf(r) ELSE feeRow[k]
      BY <2>2, CommitFeeRow
    <3>3. /\ FeeOf(r) \in Int
          /\ At(EntriesOf(r), "revenue") =
               IF r.op = "reversal" THEN -r.fee ELSE FeeOf(r)
      BY <3>1, RevenueOfEntries
    <3>4. /\ bal' = [bal EXCEPT ![r.user] = Apply(@, EntriesOf(r))]
          /\ bal[r.user] \in [Accounts -> Int]
          /\ \A a \in Accounts : At(EntriesOf(r), a) \in Int
      BY <2>2, CommitEffect
    <3>5. /\ bal[r.user]["revenue"] \in Int
          /\ Apply(bal[r.user], EntriesOf(r))["revenue"] =
               bal[r.user]["revenue"] + At(EntriesOf(r), "revenue")
      BY <3>4, NetOfApply DEF Accounts
    <3>6. \A u \in Users : bal'[u]["revenue"] =
            IF u = r.user THEN bal[u]["revenue"] + At(EntriesOf(r), "revenue")
            ELSE bal[u]["revenue"]
      BY <3>1, <3>4, <3>5 DEF TypeOK
    <3>7. r.op = "reversal" => FeeOf(r) = 0 /\ r.fee \in Nat
      BY <3>1, RequestsAssumption DEF FeeOf
    <3>8. ASSUME NEW k \in Keys, feeRow'[k] # feeRow[k]
          PROVE  feeRow[k] = 0 /\ k \in posted'
      BY <3>1, <3>2, <3>8
    <3>9. ASSUME NEW k \in posted' \ posted, feeRow'[k] > 0
          PROVE  bal'[r.user]["revenue"] = bal[r.user]["revenue"] + feeRow'[k]
      BY <2>0, <3>1, <3>2, <3>3, <3>6, <3>7, <3>9
    <3>10. ASSUME NEW u \in Users, bal'[u]["revenue"] > bal[u]["revenue"]
           PROVE  feeRow'[r.key] = bal'[u]["revenue"] - bal[u]["revenue"]
      BY <2>0, <3>1, <3>2, <3>3, <3>6, <3>7, <3>10
    <3> QED
      BY <3>1, <3>2, <3>8, <3>9, <3>10
  <2> QED
    BY <2>1, <2>2, FeeRowSteps
<1> QED
  BY <1>1, <1>2, <1>3, TypeCorrect, PTL DEF Spec, FeeWithPosting

-----------------------------------------------------------------------------
(* Conservation.                                                           *)

\* A step keeps the sum of every user's postings at zero: a commit adds
\* balanced entries, and nothing else touches a balance.
LEMMA ZeroSumStep ==
  ASSUME TypeOK, ZeroSum, NEW c \in Calls, Commit(c), Acceptable(req[c])
  PROVE  ZeroSum'
<1> DEFINE r == req[c]
<1>1. Net(EntriesOf(r)) = 0
  BY DEF Acceptable, Balanced
<1>2. Net(Apply(bal[r.user], EntriesOf(r))) = Net(bal[r.user]) + 0
  BY <1>1, CommitEffect, NetOfApply
<1>3. Net(bal[r.user]) = 0
  BY CommitEffect DEF ZeroSum
<1>4. \A u \in Users : bal'[u] = IF u = r.user
                                 THEN Apply(bal[r.user], EntriesOf(r))
                                 ELSE bal[u]
  BY CommitEffect DEF TypeOK
<1> QED
  BY <1>2, <1>3, <1>4 DEF ZeroSum

\* What the transactions in progress have established: their arguments make a
\* balanced transaction, and the snapshot of a checked one covered its debit.
\* Until a conflicting transaction commits, the balance, with what unchecked
\* operations took from it, is at least what the snapshot showed.
OpenInv ==
  \A c \in Calls : pc[c] = "open" =>
    /\ Acceptable(req[c])
    /\ Guarded(req[c]) =>
         /\ seen[c] >= Debit(req[c])
         /\ ~stale[c] =>
              Available(req[c].user) + unguarded[req[c].user] >= seen[c]

IInv == TypeOK /\ ZeroSum /\ OverdraftBounded /\ OpenInv

\* What a commit does to one user's available balance and to the history of
\* unchecked debits.
LEMMA CommitAvailable ==
  ASSUME TypeOK, NEW c \in Calls, Commit(c), NEW u \in Users
  PROVE  /\ Debit(req[c]) \in Int
         /\ Available(u) \in Int
         /\ unguarded[u] \in Nat
         /\ u # req[c].user => /\ Available(u)' = Available(u)
                               /\ unguarded'[u] = unguarded[u]
         /\ u = req[c].user =>
              /\ Available(u)' = Available(u) - Debit(req[c])
              /\ unguarded'[u] = unguarded[u] + UnguardedDebit(req[c])
<1> DEFINE r == req[c]
<1>1. /\ Debit(r) \in Int
      /\ At(EntriesOf(r), "available") = -Debit(r)
  BY CommitEffect DEF Debit, Accounts
<1>2. /\ Available(u) \in Int
      /\ unguarded[u] \in Nat
  BY DEF TypeOK, Available, Accounts
<1>3. u # r.user => /\ Available(u)' = Available(u)
                    /\ unguarded'[u] = unguarded[u]
  BY CommitEffect DEF Commit, TypeOK, Available
<1>4. u = r.user => /\ Available(u)' = Available(u) - Debit(r)
                    /\ unguarded'[u] = unguarded[u] + UnguardedDebit(r)
  <2> HAVE u = r.user
  <2>1. bal'[u] = Apply(bal[u], EntriesOf(r))
    BY CommitEffect DEF TypeOK
  <2>2. Apply(bal[u], EntriesOf(r))["available"]
          = bal[u]["available"] + At(EntriesOf(r), "available")
    BY CommitEffect, NetOfApply DEF Accounts
  <2>3. unguarded'[u] = unguarded[u] + UnguardedDebit(r)
    BY DEF Commit, TypeOK
  <2> QED
    BY <1>1, <1>2, <2>1, <2>2, <2>3 DEF Available
<1> QED
  BY <1>1, <1>2, <1>3, <1>4

\* A step keeps the available balance within what unchecked operations took:
\* a checked commit spends a balance its snapshot still shows.
LEMMA OverdraftStep ==
  ASSUME TypeOK, OverdraftBounded, OpenInv, NEW c \in Calls, Commit(c)
  PROVE  OverdraftBounded'
<1> SUFFICES ASSUME NEW u \in Users
             PROVE  Available(u)' + unguarded'[u] >= 0
  BY DEF OverdraftBounded
<1>1. Available(u) + unguarded[u] >= 0
  BY DEF OverdraftBounded
<1>2. CASE u # req[c].user
  BY <1>1, <1>2, CommitAvailable
<1>3. CASE u = req[c].user /\ Guarded(req[c])
  <2>1. pc[c] = "open" /\ ~stale[c]
    BY DEF Commit
  <2>2. /\ seen[c] >= Debit(req[c])
        /\ Available(u) + unguarded[u] >= seen[c]
    BY <1>3, <2>1 DEF OpenInv
  <2>3. UnguardedDebit(req[c]) = 0
    BY <1>3 DEF UnguardedDebit
  <2>4. seen[c] \in Int
    BY DEF TypeOK
  <2> QED
    BY <1>3, <2>2, <2>3, <2>4, CommitAvailable
<1>4. CASE u = req[c].user /\ ~Guarded(req[c])
  <2>1. UnguardedDebit(req[c]) >= Debit(req[c]) /\ UnguardedDebit(req[c]) \in Int
    BY <1>4, CommitAvailable DEF UnguardedDebit
  <2> QED
    BY <1>1, <1>4, <2>1, CommitAvailable
<1> QED
  BY <1>2, <1>3, <1>4

\* A commit disturbs another checked transaction only by making it stale.
LEMMA OpenStep ==
  ASSUME TypeOK, OpenInv, NEW c \in Calls, Commit(c)
  PROVE  OpenInv'
<1> SUFFICES ASSUME NEW d \in Calls, pc'[d] = "open"
             PROVE  /\ Acceptable(req[d])
                    /\ Guarded(req[d]) =>
                         /\ seen'[d] >= Debit(req[d])
                         /\ ~stale'[d] =>
                              bal'[req[d].user]["available"]
                                + unguarded'[req[d].user] >= seen'[d]
  BY DEF OpenInv, Commit, Available
<1>1. /\ d # c /\ pc[d] = "open" /\ seen'[d] = seen[d] /\ seen[d] \in Int
      /\ stale'[d] = (stale[d] \/ Conflicting(c, d))
  BY DEF Commit, TypeOK
<1>2. Acceptable(req[d])
  BY <1>1 DEF OpenInv
<1>3. ASSUME Guarded(req[d])
      PROVE  /\ seen[d] >= Debit(req[d])
             /\ ~stale[d] =>
                  Available(req[d].user) + unguarded[req[d].user] >= seen[d]
  BY <1>1, <1>3 DEF OpenInv
<1>4. ASSUME Guarded(req[d]), ~stale'[d]
      PROVE  bal'[req[d].user]["available"] + unguarded'[req[d].user] >= seen[d]
  <2>1. PICK u \in Users : u = req[d].user
    BY RequestsAssumption DEF TypeOK
  <2> SUFFICES Available(u)' + unguarded'[u] >= seen[d]
    BY <2>1 DEF Available
  <2>2. Available(u) + unguarded[u] >= seen[d]
    BY <1>1, <1>3, <1>4, <2>1
  <2>3. CASE u # req[c].user
    BY <1>1, <2>1, <2>2, <2>3, CommitAvailable
  <2>4. CASE u = req[c].user
    <3>1. ~Guarded(req[c])
      BY <1>1, <1>4, <2>1, <2>4 DEF Conflicting
    <3>2. UnguardedDebit(req[c]) >= Debit(req[c])
            /\ UnguardedDebit(req[c]) \in Int
      BY <2>1, <3>1, CommitAvailable DEF UnguardedDebit
    <3> QED
      BY <1>1, <2>1, <2>2, <2>4, <3>2, CommitAvailable
  <2> QED
    BY <2>3, <2>4
<1> QED
  BY <1>1, <1>2, <1>3, <1>4

\* The invariant is inductive.  A step other than Open and Commit opens no
\* transaction and moves no money.
LEMMA Inductive == IInv /\ [Next]_vars => IInv'
<1> SUFFICES ASSUME IInv, [Next]_vars PROVE IInv'
  OBVIOUS
<1>t. TypeOK /\ TypeOK'
  BY TypeStep DEF IInv
<1>1. ASSUME NEW c \in Calls, Commit(c) PROVE IInv'
  <2>1. Acceptable(req[c])
    BY <1>1 DEF IInv, OpenInv, Commit
  <2> QED
    BY <1>1, <1>t, <2>1, ZeroSumStep, OverdraftStep, OpenStep DEF IInv
<1>2. ASSUME UNCHANGED ledger
      PROVE  ZeroSum' /\ OverdraftBounded'
  BY <1>2 DEF IInv, ZeroSum, OverdraftBounded, Available, ledger
<1>3. ASSUME NEW c \in Calls, Open(c) PROVE OpenInv'
  <2>1. \A d \in Calls \ {c} :
          /\ pc'[d] = pc[d] /\ seen'[d] = seen[d]
          /\ req'[d] = req[d] /\ stale'[d] = stale[d]
    BY <1>3, <1>t DEF Open, TypeOK
  <2>2. UNCHANGED <<bal, unguarded, req>>
    BY <1>3 DEF Open, ledger
  <2>3. Acceptable(req[c])
    BY <1>3 DEF Open
  <2>4. ASSUME Guarded(req[c])
        PROVE  /\ seen'[c] = Available(req[c].user)
               /\ seen'[c] >= Debit(req[c])
               /\ Available(req[c].user) + unguarded[req[c].user] >= seen'[c]
    <3>1. /\ seen'[c] = Available(req[c].user)
          /\ Available(req[c].user) >= Debit(req[c])
      BY <1>3, <1>t, <2>4 DEF Open, TypeOK
    <3>2. /\ Available(req[c].user) \in Int
          /\ unguarded[req[c].user] \in Nat
      BY <1>t, RequestsAssumption DEF TypeOK, Available, Accounts
    <3> QED
      BY <3>1, <3>2
  <2> SUFFICES ASSUME NEW d \in Calls, pc'[d] = "open"
               PROVE  /\ Acceptable(req[d])
                      /\ Guarded(req[d]) =>
                           /\ seen'[d] >= Debit(req[d])
                           /\ ~stale'[d] =>
                                Available(req[d].user)
                                  + unguarded[req[d].user] >= seen'[d]
    BY <2>2 DEF OpenInv, Available
  <2>5. CASE d = c
    BY <2>3, <2>4, <2>5
  <2>6. CASE d # c
    BY <2>1, <2>6 DEF IInv, OpenInv
  <2> QED
    BY <2>5, <2>6
<1>4. ASSUME UNCHANGED ledger,
             \A d \in Calls : pc'[d] = "open" =>
               /\ pc[d] = "open" /\ req'[d] = req[d]
               /\ seen'[d] = seen[d] /\ stale'[d] = stale[d]
      PROVE  OpenInv'
  BY <1>4 DEF IInv, OpenInv, Available, ledger
<1>5. ASSUME NEW c \in Calls, NEW a \in Finished, Answer(c, a),
             UNCHANGED ledger
      PROVE  OpenInv'
  <2>1. \A d \in Calls : pc'[d] = "open" =>
          /\ pc[d] = "open" /\ req'[d] = req[d]
          /\ seen'[d] = seen[d] /\ stale'[d] = stale[d]
    BY <1>5, <1>t DEF Answer, TypeOK, Finished
  <2> QED
    BY <1>4, <1>5, <2>1
<1>6. ASSUME NEW c \in Calls, NEW r \in Requests, Submit(c, r)
      PROVE  OpenInv' /\ UNCHANGED ledger
  <2>1. \A d \in Calls : pc'[d] = "open" =>
          /\ pc[d] = "open" /\ req'[d] = req[d]
          /\ seen'[d] = seen[d] /\ stale'[d] = stale[d]
    BY <1>6, <1>t DEF Submit, TypeOK, Finished
  <2>2. UNCHANGED ledger
    BY <1>6 DEF Submit, ledger
  <2> QED
    BY <1>4, <2>1, <2>2
<1>7. ASSUME NEW c \in Calls, SerializationFailure(c)
      PROVE  OpenInv' /\ UNCHANGED ledger
  <2>1. CASE AttemptLeft(c)
    <3>1. /\ pc' = [pc EXCEPT ![c] = "retry"]
          /\ stale' = [stale EXCEPT ![c] = FALSE]
          /\ seen' = [seen EXCEPT ![c] = 0]
          /\ req' = req
          /\ UNCHANGED ledger
      BY <1>7, <2>1 DEF SerializationFailure
    <3>2. \A d \in Calls : pc'[d] = "open" =>
            /\ pc[d] = "open" /\ req'[d] = req[d]
            /\ seen'[d] = seen[d] /\ stale'[d] = stale[d]
      BY <3>1, <1>t DEF TypeOK, Finished
    <3> QED
      BY <1>4, <3>1, <3>2
  <2>2. CASE ~AttemptLeft(c)
    BY <1>5, <1>7, <2>2 DEF SerializationFailure, GiveUp, Finished
  <2> QED
    BY <2>1, <2>2
<1>8. CASE \E c \in Calls : FoundExisting(c) \/ Refuse(c) \/ Reject(c)
                              \/ LoseRace(c) \/ Abandon(c)
  <2>1. PICK c \in Calls : FoundExisting(c) \/ Refuse(c) \/ Reject(c)
                             \/ LoseRace(c) \/ Abandon(c)
    BY <1>8
  <2>2. UNCHANGED ledger /\ \E a \in Finished : Answer(c, a)
    BY <2>1 DEF FoundExisting, Refuse, Reject, LoseRace, Abandon, Finished
  <2> QED
    BY <1>2, <1>5, <1>t, <2>2 DEF IInv
<1>9. CASE \E c \in Calls : Open(c)
  <2>1. PICK c \in Calls : Open(c)
    BY <1>9
  <2>2. UNCHANGED ledger
    BY <2>1 DEF Open, ledger
  <2> QED
    BY <1>2, <1>3, <1>t, <2>1, <2>2 DEF IInv
<1>10. CASE UNCHANGED vars
  <2>1. UNCHANGED ledger /\ UNCHANGED <<pc, req, seen, stale>>
    BY <1>10 DEF vars, ledger
  <2> QED
    BY <1>2, <1>4, <1>t, <2>1 DEF IInv
<1> QED
  BY <1>1, <1>2, <1>6, <1>7, <1>8, <1>9, <1>10, <1>t DEF Next, IInv

\* The inductive invariant holds in every reachable state.
THEOREM InvariantCorrect == Spec => []IInv
<1>1. Init => IInv
  <2> SUFFICES ASSUME Init PROVE IInv
    OBVIOUS
  <2>1. TypeOK
    BY TypeInit
  <2>2. Net(NoBalance) = 0
    BY DEF Net, At, NoBalance, Accounts
  <2>3. \A u \in Users : bal[u] = NoBalance /\ unguarded[u] = 0
    BY DEF Init
  <2>4. ZeroSum /\ OverdraftBounded
    BY <2>2, <2>3 DEF ZeroSum, OverdraftBounded, Available, NoBalance, Accounts
  <2>5. OpenInv
    BY DEF Init, OpenInv
  <2> QED
    BY <2>1, <2>4, <2>5 DEF IInv
<1> QED
  BY <1>1, Inductive, PTL DEF Spec

\* ZeroSum of the runs: no sequence of operations makes or loses money.
THEOREM ZeroSumCorrect == Spec => []ZeroSum
BY InvariantCorrect, PTL DEF IInv

\* OverdraftBounded of the runs: however checked and unchecked operations
\* interleave, the available balance is short of zero by no more than the
\* unchecked operations took.
THEOREM OverdraftBoundedCorrect == Spec => []OverdraftBounded
BY InvariantCorrect, PTL DEF IInv

-----------------------------------------------------------------------------
(* Answers.                                                                *)

TruthfulInv == TypeOK /\ AnswerTruthful

\* AnswerTruthful of the runs: a call that is told "done" has its key in the
\* ledger, however many races and retries lie between.
THEOREM AnswerTruthfulCorrect == Spec => []AnswerTruthful
<1>1. Init => TruthfulInv
  BY TypeInit DEF Init, TruthfulInv, AnswerTruthful
<1>2. TruthfulInv /\ [Next]_vars => TruthfulInv'
  <2> SUFFICES ASSUME TypeOK, AnswerTruthful, [Next]_vars
               PROVE  AnswerTruthful'
    BY TypeStep DEF TruthfulInv
  <2>1. ASSUME NEW c \in Calls, NEW a \in Finished, Answer(c, a),
               UNCHANGED ledger, a = "done" => req[c].key \in posted
        PROVE  AnswerTruthful'
    BY <2>1 DEF TypeOK, AnswerTruthful, Answer, ledger
  <2>2. ASSUME NEW c \in Calls, NEW r \in Requests, Submit(c, r)
        PROVE  AnswerTruthful'
    BY <2>2 DEF TypeOK, AnswerTruthful, Submit, ledger
  <2>3. ASSUME NEW c \in Calls, FoundExisting(c) PROVE AnswerTruthful'
    BY <2>1, <2>3 DEF FoundExisting, Finished
  <2>4. ASSUME NEW c \in Calls, Refuse(c) PROVE AnswerTruthful'
    BY <2>1, <2>4 DEF Refuse, Finished
  <2>5. ASSUME NEW c \in Calls, Reject(c) PROVE AnswerTruthful'
    BY <2>1, <2>5 DEF Reject, Finished
  <2>6. ASSUME NEW c \in Calls, Open(c) PROVE AnswerTruthful'
    BY <2>6 DEF TypeOK, AnswerTruthful, Open, ledger
  <2>7. ASSUME NEW c \in Calls, Commit(c) PROVE AnswerTruthful'
    BY <2>7 DEF TypeOK, AnswerTruthful, Commit
  <2>8. ASSUME NEW c \in Calls, LoseRace(c) PROVE AnswerTruthful'
    BY <2>1, <2>8 DEF LoseRace, Finished
  <2>9. ASSUME NEW c \in Calls, SerializationFailure(c)
        PROVE  AnswerTruthful'
    <3>1. CASE AttemptLeft(c)
      <4>1. /\ pc' = [pc EXCEPT ![c] = "retry"]
            /\ UNCHANGED <<req, posted>>
        BY <2>9, <3>1 DEF SerializationFailure, ledger
      <4> QED
        BY <4>1 DEF TypeOK, AnswerTruthful
    <3>2. CASE ~AttemptLeft(c)
      BY <2>1, <2>9, <3>2 DEF SerializationFailure, GiveUp, Finished
    <3> QED
      BY <3>1, <3>2
  <2>10. ASSUME NEW c \in Calls, Abandon(c) PROVE AnswerTruthful'
    BY <2>1, <2>10 DEF Abandon, Finished
  <2>11. CASE UNCHANGED vars
    BY <2>11 DEF AnswerTruthful, vars
  <2> QED
    BY <2>2, <2>3, <2>4, <2>5, <2>6, <2>7, <2>8, <2>9, <2>10, <2>11 DEF Next
<1> QED
  BY <1>1, <1>2, PTL DEF Spec, TruthfulInv

-----------------------------------------------------------------------------
(* The concurrent ledger implements the serial one, when every operation   *)
(* that takes money from an available balance checks it.                   *)

\* No unchecked operation has taken anything.
NothingUnguarded == \A u \in Users : unguarded[u] = 0

\* If no request debits unchecked, the history of unchecked debits stays zero.
LEMMA NothingUnguardedStep ==
  ASSUME \A r \in Requests : UnguardedDebit(r) = 0,
         IInv, NothingUnguarded, [Next]_vars
  PROVE  NothingUnguarded'
<1>1. CASE UNCHANGED ledger
  BY <1>1 DEF NothingUnguarded, ledger
<1>2. ASSUME NEW c \in Calls, Commit(c) PROVE NothingUnguarded'
  <2>1. TypeOK
    BY DEF IInv
  <2>2. UnguardedDebit(req[c]) = 0
    BY <1>2, <2>1, CommitEffect
  <2> QED
    BY <1>2, <2>1, <2>2 DEF NothingUnguarded, Commit, TypeOK
<1> QED
  BY <1>1, <1>2, LedgerSteps

\* AvailableNonNegative of the runs: with checked debits only, no interleaving of snapshots,
\* conflicts and retries takes an available balance below zero (I5 of the docs).
THEOREM AvailableNonNegativeCorrect ==
  ASSUME \A r \in Requests : UnguardedDebit(r) = 0
  PROVE  Spec => []AvailableNonNegative
<1>1. Init => NothingUnguarded
  BY DEF Init, NothingUnguarded
<1>2. IInv /\ NothingUnguarded /\ [Next]_vars => NothingUnguarded'
  BY NothingUnguardedStep
<1>3. IInv /\ NothingUnguarded => AvailableNonNegative
  <2> SUFFICES ASSUME IInv, NothingUnguarded, NEW u \in Users PROVE Available(u) >= 0
    BY DEF AvailableNonNegative
  <2>1. Available(u) + unguarded[u] >= 0 /\ unguarded[u] = 0
    BY DEF IInv, OverdraftBounded, NothingUnguarded
  <2>2. Available(u) \in Int
    BY DEF IInv, TypeOK, Available, Accounts
  <2> QED
    BY <2>1, <2>2
<1> QED
  BY <1>1, <1>2, <1>3, InvariantCorrect, PTL DEF Spec

\* The instance's copies of the posting operators are the module's own.
LEMMA SerialOperators ==
  ASSUME NEW r
  PROVE  /\ Serial!EntriesOf(r) = EntriesOf(r)
         /\ Serial!Acceptable(r) = Acceptable(r)
         /\ Serial!Guarded(r) = Guarded(r)
         /\ Serial!Debit(r) = Debit(r)
         /\ \A b : Serial!Apply(b, EntriesOf(r)) = Apply(b, EntriesOf(r))
         /\ Serial!NoBalance = NoBalance
<1>1. Serial!EntriesOf(r) = EntriesOf(r)
  BY DEF Serial!EntriesOf, EntriesOf, Serial!DepositEntries, DepositEntries,
         Serial!ReversalEntries, ReversalEntries, Serial!FeeEntries,
         FeeEntries, Serial!HoldEntries, HoldEntries, Serial!ReleaseEntries,
         ReleaseEntries, Serial!SettlementEntries, SettlementEntries,
         Serial!RefundEntries, RefundEntries, Serial!AdjustmentEntries,
         AdjustmentEntries, Serial!WithoutZero, WithoutZero
<1>2. \A e, a : Serial!At(e, a) = At(e, a)
  BY DEF Serial!At, At
<1>3. \A e : Serial!Net(e) = Net(e)
  BY <1>2 DEF Serial!Net, Net
<1>4. \A e : Serial!Balanced(e) <=> Balanced(e)
  BY <1>3 DEF Serial!Balanced, Balanced
<1>5. Serial!Accounts = Accounts
  BY DEF Serial!Accounts, Accounts
<1>6. \A b : Serial!Apply(b, EntriesOf(r)) = Apply(b, EntriesOf(r))
  BY <1>2, <1>5 DEF Serial!Apply, Apply
<1>7. Serial!Acceptable(r) = Acceptable(r)
  BY <1>1, <1>4 DEF Serial!Acceptable, Acceptable
<1>8. Serial!Guarded(r) = Guarded(r)
  BY DEF Serial!Guarded, Guarded
<1>9. Serial!Debit(r) = Debit(r)
  BY <1>1, <1>2 DEF Serial!Debit, Debit
<1>10. Serial!NoBalance = NoBalance
  BY <1>5 DEF Serial!NoBalance, NoBalance
<1> QED
  BY <1>1, <1>6, <1>7, <1>8, <1>9, <1>10

\* A commit is a transfer of the serial ledger: the balance it spends is
\* still there.
LEMMA CommitImplementsTransfer ==
  ASSUME IInv, NothingUnguarded, NEW c \in Calls, Commit(c)
  PROVE  Serial!Transfer(req[c])
<1> DEFINE r == req[c]
<1>1. TypeOK /\ pc[c] = "open" /\ ~stale[c]
  BY DEF IInv, Commit
<1>2. Acceptable(r)
  BY <1>1 DEF IInv, OpenInv
<1>3. ASSUME Guarded(r) PROVE bal[r.user]["available"] >= Debit(r)
  <2>1. r.user \in Users
    BY <1>1, CommitEffect
  <2>2. /\ seen[c] >= Debit(r)
        /\ Available(r.user) + unguarded[r.user] >= seen[c]
    BY <1>1, <1>3 DEF IInv, OpenInv
  <2>3. unguarded[r.user] = 0
    BY <2>1 DEF NothingUnguarded
  <2>4. /\ Available(r.user) \in Int
        /\ Debit(r) \in Int
        /\ seen[c] \in Int
    BY <1>1, <2>1, CommitAvailable DEF TypeOK
  <2> QED
    BY <2>2, <2>3, <2>4 DEF Available
<1> QED
  BY <1>1, <1>2, <1>3, CommitEffect, SerialOperators DEF Serial!Transfer

\* SerialSpec of the runs: with checked debits only, no interleaving of
\* snapshots, conflicts and retries can be told from operations that happen
\* one at a time, each against the balance it spends.
THEOREM ImplementsSerial ==
  ASSUME \A r \in Requests : UnguardedDebit(r) = 0
  PROVE  Spec => SerialSpec
<1>1. Init => Serial!Init /\ NothingUnguarded
  BY SerialOperators DEF Init, Serial!Init, NothingUnguarded
<1>2. IInv /\ NothingUnguarded /\ [Next]_vars => NothingUnguarded'
  BY NothingUnguardedStep
<1>3. IInv /\ NothingUnguarded /\ [Next]_vars
        => [Serial!Next]_<<bal, posted>>
  <2> SUFFICES ASSUME IInv, NothingUnguarded, [Next]_vars
               PROVE  [Serial!Next]_<<bal, posted>>
    OBVIOUS
  <2>1. CASE UNCHANGED ledger
    BY <2>1 DEF ledger
  <2>2. ASSUME NEW c \in Calls, Commit(c) PROVE Serial!Next
    <3>1. req[c] \in Requests
      BY <2>2, CommitEffect DEF IInv
    <3>2. Serial!Transfer(req[c])
      BY <2>2, CommitImplementsTransfer
    <3> QED
      BY <3>1, <3>2 DEF Serial!Next
  <2> QED
    BY <2>1, <2>2, LedgerSteps
<1> QED
  BY <1>1, <1>2, <1>3, InvariantCorrect, PTL DEF Spec, SerialSpec, Serial!Spec
=============================================================================
