------------------------------- MODULE Ledger -------------------------------
(***************************************************************************)
(* LedgerService under concurrency: each call of an operation is a         *)
(* database transaction that reads a snapshot, decides, and commits.       *)
(*                                                                         *)
(* placeHold, chargeFee and postAdjustment run at SERIALIZABLE inside      *)
(* withSerializableRetry; the other operations run at the default          *)
(* isolation, which Postgres's conflict detection does not see.  A unique  *)
(* index on the idempotency key decides a race on one key, and the loser   *)
(* is resolved to the winner's transaction (resolveDuplicate).             *)
(***************************************************************************)
EXTENDS LedgerPostings

CONSTANTS Users,        \* the users with accounts
          Requests,     \* the ledger operations callers may ask for
          Calls,        \* the callers that may be inside the ledger at once
          MaxAttempts   \* the attempts of withSerializableRetry

ASSUME RequestsAssumption ==
  \A r \in Requests :
    /\ r.user \in Users
    /\ r.op \in Operations
    /\ r.amount \in Int
    /\ r.fee \in Nat
    /\ r.settled \in Nat

ASSUME AttemptsAssumption == MaxAttempts \in Nat \ {0}

VARIABLES bal,        \* bal[u][a]: the sum of the entries u's transactions
                      \*   made in account a
          posted,     \* the idempotency keys in the ledger_transactions table
          feeRow,     \* feeRow[k]: the amount in the fees table for the
                      \*   transaction with key k, 0 if there is no row
          pc,         \* where each call is
          req,        \* the request of each call
          seen,       \* the available balance a call's snapshot showed
          stale,      \* has a conflicting transaction committed since then?
          attempt,    \* how many attempts the call has used up
          unguarded   \* history: what unchecked operations took from each user

ledger == <<bal, posted, unguarded>>
vars == <<bal, posted, feeRow, pc, req, seen, stale, attempt, unguarded>>

Keys == {r.key : r \in Requests}

Finished == {"idle", "done", "refused", "failed"}

TypeOK ==
  /\ bal \in [Users -> [Accounts -> Int]]
  /\ posted \subseteq Keys
  /\ feeRow \in [Keys -> Nat]
  /\ pc \in [Calls -> Finished \cup {"open", "retry"}]
  /\ req \in [Calls -> Requests]
  /\ seen \in [Calls -> Int]
  /\ stale \in [Calls -> BOOLEAN]
  /\ attempt \in [Calls -> 0..MaxAttempts]
  /\ unguarded \in [Users -> Nat]

Init ==
  /\ bal = [u \in Users |-> NoBalance]
  /\ posted = {}
  /\ feeRow = [k \in Keys |-> 0]
  /\ pc = [c \in Calls |-> "idle"]
  /\ \E r \in Requests : req = [c \in Calls |-> r]
  /\ seen = [c \in Calls |-> 0]
  /\ stale = [c \in Calls |-> FALSE]
  /\ attempt = [c \in Calls |-> 0]
  /\ unguarded = [u \in Users |-> 0]

Answer(c, a) ==
  /\ pc' = [pc EXCEPT ![c] = a]
  /\ stale' = [stale EXCEPT ![c] = FALSE]
  /\ seen' = [seen EXCEPT ![c] = 0]
  /\ attempt' = [attempt EXCEPT ![c] = 0]
  /\ UNCHANGED req

-----------------------------------------------------------------------------
(* A call arrives, and its transaction reads.                              *)

Available(u) == bal[u]["available"]

\* The table has no row with the key of call c.
KeyAbsent(c) == req[c].key \notin posted

\* A caller asks for an operation, for the first time or once more.  Callers
\* reverse a deposit, or release or settle a hold, that they know was posted.
Submit(c, r) ==
  /\ pc[c] \in Finished
  /\ r.after \subseteq posted
  /\ req' = [req EXCEPT ![c] = r]
  /\ pc' = [pc EXCEPT ![c] = "retry"]
  /\ UNCHANGED <<ledger, feeRow, seen, stale, attempt>>

\* The fee row of a posting.  A second row for one transaction violates the
\* unique index of the table, which undoes the statement and its transaction.
RecordFee(r) ==
  feeRow' = IF FeeOf(r) > 0 /\ feeRow[r.key] = 0
            THEN [feeRow EXCEPT ![r.key] = FeeOf(r)] ELSE feeRow

\* The lookup of the key: the transaction exists and is returned unchanged.
\* postAdjustment alone checks the balance before it looks.  creditDeposit and
\* settleAuthorization go on to insert the fee row all the same: a row that is
\* there already ends in resolveDuplicate, one that is not is written now.
FoundExisting(c) ==
  LET r == req[c] IN
  /\ pc[c] = "retry"
  /\ r.key \in posted
  /\ LooksFirst(r) \/ Acceptable(r)
  /\ r.op = "adjustment" /\ Guarded(r) => Available(r.user) >= Debit(r)
  /\ IF r.op \in {"deposit", "settlement"} THEN RecordFee(r)
     ELSE UNCHANGED feeRow
  /\ Answer(c, "done")
  /\ UNCHANGED ledger

\* InsufficientBalanceError.
Refuse(c) ==
  LET r == req[c] IN
  /\ pc[c] = "retry"
  /\ KeyAbsent(c) \/ r.op = "adjustment"
  /\ Guarded(r)
  /\ Available(r.user) < Debit(r)
  /\ Answer(c, "refused")
  /\ UNCHANGED <<ledger, feeRow>>

\* The arguments do not make a balanced transaction: an exception.
Reject(c) ==
  /\ pc[c] = "retry"
  /\ KeyAbsent(c) \/ ~LooksFirst(req[c])
  /\ ~Acceptable(req[c])
  /\ Answer(c, "failed")
  /\ UNCHANGED <<ledger, feeRow>>

\* The reads succeed: the key is absent and the snapshot covers the debit.
Open(c) ==
  LET r == req[c] IN
  /\ pc[c] = "retry"
  /\ KeyAbsent(c)
  /\ Acceptable(r)
  /\ Guarded(r) => Available(r.user) >= Debit(r)
  /\ pc' = [pc EXCEPT ![c] = "open"]
  /\ seen' = [seen EXCEPT ![c] = IF Guarded(r) THEN Available(r.user) ELSE 0]
  /\ UNCHANGED <<ledger, feeRow, req, stale, attempt>>

-----------------------------------------------------------------------------
(* The transaction ends.                                                   *)

NoConflictDetection(c, d) == FALSE                              \* mutant

\* Two transactions that both read and both spent one available balance
\* cannot be serialized: Postgres lets the first commit and aborts the other.
Conflicting(c, d) ==
  /\ c # d
  /\ pc[d] = "open"
  /\ Guarded(req[c])
  /\ Guarded(req[d])
  /\ req[c].user = req[d].user

NoUniqueIndex(c) == TRUE                                        \* mutant

\* The unique index on the key lets the insert through.
UniqueIndex(c) == KeyAbsent(c)

Commit(c) ==
  LET r == req[c] IN
  /\ pc[c] = "open"
  /\ ~stale[c]
  /\ UniqueIndex(c)
  /\ bal' = [bal EXCEPT ![r.user] = Apply(@, EntriesOf(r))]
  /\ posted' = posted \cup {r.key}
  /\ RecordFee(r)
  /\ unguarded' = [unguarded EXCEPT ![r.user] = @ + UnguardedDebit(r)]
  /\ pc' = [pc EXCEPT ![c] = "done"]
  /\ stale' = [d \in Calls |-> stale[d] \/ Conflicting(c, d)]
  /\ seen' = [seen EXCEPT ![c] = 0]
  /\ attempt' = [attempt EXCEPT ![c] = 0]
  /\ UNCHANGED req

\* The unique index refuses a key that was inserted meanwhile (P2002), and
\* resolveDuplicate returns the transaction that won.
LoseRace(c) ==
  /\ pc[c] = "open"
  /\ req[c].key \in posted
  /\ Answer(c, "done")
  /\ UNCHANGED <<ledger, feeRow>>

RetryOnceTooOften(c) == attempt[c] + 1 <= MaxAttempts + 1         \* mutant

\* The loop of withSerializableRetry has an attempt left.
AttemptLeft(c) == attempt[c] + 1 < MaxAttempts

CounterResets(c) == attempt[c]                                  \* mutant

NextAttempt(c) == attempt[c] + 1

SwallowFailure(c) == Answer(c, "done")                          \* mutant

\* The attempts are used up: the last error is thrown.
GiveUp(c) == Answer(c, "failed")

\* A serialization failure: the transaction is rolled back and tried again,
\* until its attempts are used up.  Besides a real conflict, Postgres may
\* abort one of several open transactions for a deadlock or a false positive.
SerializationFailure(c) ==
  /\ pc[c] = "open"
  /\ Serializable(req[c])
  /\ stale[c] \/ \E d \in Calls \ {c} : pc[d] = "open"
  /\ IF AttemptLeft(c)
     THEN /\ pc' = [pc EXCEPT ![c] = "retry"]
          /\ attempt' = [attempt EXCEPT ![c] = NextAttempt(c)]
          /\ stale' = [stale EXCEPT ![c] = FALSE]
          /\ seen' = [seen EXCEPT ![c] = 0]
          /\ UNCHANGED req
     ELSE GiveUp(c)
  /\ UNCHANGED <<ledger, feeRow>>

\* The connection drops, the transaction times out or the process restarts.
Abandon(c) ==
  /\ pc[c] \in {"open", "retry"}
  /\ Answer(c, "failed")
  /\ UNCHANGED <<ledger, feeRow>>

Next ==
  \E c \in Calls :
    \/ \E r \in Requests : Submit(c, r)
    \/ FoundExisting(c)
    \/ Refuse(c)
    \/ Reject(c)
    \/ Open(c)
    \/ Commit(c)
    \/ LoseRace(c)
    \/ SerializationFailure(c)
    \/ Abandon(c)

Spec == Init /\ [][Next]_vars

\* A call that is inside the ledger keeps running; nobody has to call.
Fairness ==
  \A c \in Calls :
    WF_vars(FoundExisting(c) \/ Refuse(c) \/ Reject(c) \/ Open(c)
              \/ Commit(c) \/ LoseRace(c) \/ SerializationFailure(c))

FairSpec == Spec /\ Fairness

-----------------------------------------------------------------------------
(* Properties.                                                             *)

\* I1 summed over the postings: what a user's transactions put into all the
\* accounts, the system's included, nets to zero.  No operation makes money.
ZeroSum == \A u \in Users : Net(bal[u]) = 0

\* I5 as far as the code goes: the available balance is never further below
\* zero than what the operations that do not look at it have taken, however
\* the checked operations interleave.
OverdraftBounded == \A u \in Users : Available(u) + unguarded[u] >= 0

\* I5 as it is written: "available balance may never go negative".
AvailableNonNegative == \A u \in Users : Available(u) >= 0

\* A balance moves only when a new key is posted, by exactly the entries of
\* that key's request, and a posted transaction is never undone.
AppliedOnce ==
  [][ /\ posted \subseteq posted'
      /\ bal' # bal =>
           \E r \in Requests :
             /\ r.key \notin posted
             /\ posted' = posted \cup {r.key}
             /\ bal' = [bal EXCEPT ![r.user] = Apply(@, EntriesOf(r))]
    ]_<<bal, posted>>

\* "A fee must not be able to exist without its posting, nor a posting without
\* its fee record": revenue grows only in a step that posts a transaction and
\* writes a row of just that amount, and such a row is never changed.  A call
\* that finds its posting may ask for another fee, and writes its row all the
\* same: that happens only to a posting that has no row, one that took no fee.
FeeWithPosting ==
  [][ /\ \A k \in Keys : feeRow'[k] # feeRow[k] =>
           /\ feeRow[k] = 0
           /\ k \in posted'
      /\ \A k \in posted' \ posted : feeRow'[k] > 0 =>
           \E u \in Users :
             bal'[u]["revenue"] = bal[u]["revenue"] + feeRow'[k]
      /\ \A u \in Users : bal'[u]["revenue"] > bal[u]["revenue"] =>
           \E k \in posted' \ posted :
             /\ feeRow[k] = 0
             /\ feeRow'[k] = bal'[u]["revenue"] - bal[u]["revenue"]
    ]_<<bal, posted, feeRow>>

\* A caller that is told its operation succeeded finds it in the ledger, also
\* when its transaction lost a race or was retried.
AnswerTruthful == \A c \in Calls : pc[c] = "done" =>
                    req[c].key \in posted

\* A call that reached the database is answered: conflicts and deadlocks are
\* retried a bounded number of times, never for ever.
CallsReturn ==
  \A c \in Calls : pc[c] \in {"open", "retry"} ~> pc[c] \in Finished

\* The concurrent ledger implements the serial one.
Serial == INSTANCE LedgerSerial
SerialSpec == Serial!Spec
=============================================================================
