------------------------------ MODULE CardHolds ------------------------------
(***************************************************************************)
(* The life of a card authorization: AsaService answers the network's      *)
(* request and places a hold, WebhooksService settles or releases it when  *)
(* the provider reports the outcome, and the stale-authorization sweep is  *)
(* behind both.  One cardholder, one card, one process of the API.         *)
(*                                                                         *)
(* Handlers run concurrently and yield at every await; the process may     *)
(* restart, which ends all of them.  A ledger operation is one step here:  *)
(* module Ledger is about its inside.  Amounts are in one unit (the code   *)
(* multiplies USD cents by 10_000 to get USDT units).                      *)
(***************************************************************************)
EXTENDS LedgerPostings, Fees, FiniteSetsExt

CONSTANTS
  Auths,         \* the authorizations; also the provider's transaction tokens
  Deliveries,    \* the requests for a decision that may be open at once
  Amount,        \* Amount[a]: what the merchant asks for
  Abroad,        \* the authorizations in another currency than the card's
  Rates,         \* the rates of the transaction fee that the settings may hold
  Cleared,       \* Cleared[a]: what the merchant settles
  Openings,      \* the available balances to start from
  PerTxLimit,    \* the card's per-transaction limit, 0 if it has none
  DailyLimit,    \* the card's daily limit, 0 if it has none
  CardChanges,   \* the changes <<from, to>> of the card's status
  StoredToken,   \* StoredToken[a]: the token a handler finds in the stored
                 \*   payload of a webhook about a: its own, or what redact()
                 \*   leaves, which is no authorization's
  FaultKinds,    \* the things that may go wrong
  MaxFaults      \* how often (bound)

Tokens == Auths \cup {StoredToken[a] : a \in Auths}

Faults == {"read", "hold", "row", "record", "handler", "timeout", "forgotten", "lost",
           "outage", "crash", "replay", "malformed"}

CardStatuses == {"UNKNOWN", "ACTIVE", "FROZEN", "CLOSED"}

ASSUME CardAssumption ==
  /\ Auths # {} /\ IsFiniteSet(Auths)
  /\ Amount \in [Auths -> Nat \ {0}]
  /\ Rates \subseteq TransactionRates
  /\ Cleared \in [Auths -> Nat \ {0}]
  /\ Openings \subseteq Nat
  /\ PerTxLimit \in Nat
  /\ DailyLimit \in Nat
  /\ CardChanges \subseteq CardStatuses \X CardStatuses
  /\ \A a \in Auths : StoredToken[a] \in Auths => StoredToken[a] = a
  /\ FaultKinds \subseteq Faults
  /\ MaxFaults \in Nat

VARIABLES
  bal,        \* the cardholder's accounts, and what went to the system's
  posted,     \* idempotency keys in the ledger
  taken,      \* taken[a]: the amount of the hold of a in the ledger, or 0
  row,        \* row[t]: the card_transactions row of token t
  event,      \* event[a]: the decision in authorization_events
  card,       \* the card's status in our database
  asa,        \* asa[d]: a request for a decision and where its handler is
  provider,   \* provider[a]: the state of the transaction at the provider
  answers,    \* history: the results the network was given for each auth
  hook,       \* hook[e]: where the webhook of event e is, and the row its
              \*   handler found
  sweep,      \* where the stale-authorization sweep is
  resolved,   \* history: the tokens the sweep counted as resolved
  misjudged,  \* history: the tokens it took for unknown to the provider in an
              \*   outage, and that the provider knows
  drawn,      \* history: what was taken out of the held balance with no open
              \*   hold behind it, for misjudged tokens and for those that
              \*   redact() left
  faults      \* how many faults there have been

money == <<bal, posted, taken>>
network == <<provider, answers>>
sweeper == <<sweep, resolved>>
strays == <<misjudged, drawn>>
vars == <<money, row, event, card, asa, network, hook, sweeper, strays, faults>>

-----------------------------------------------------------------------------
(* Data.                                                                   *)

Decisions == {"APPROVED", "INSUFFICIENT_FUNDS", "VELOCITY_EXCEEDED",
              "CARD_PAUSED", "CARD_CLOSED", "ERROR"}

Results == (Decisions \ {"ERROR"}) \cup {"SUSPECTED_FRAUD"}

\* toResponseResult: an ERROR on record is answered as a plain decline.
ToResult(decision) ==
  IF decision = "ERROR" THEN "INSUFFICIENT_FUNDS" ELSE decision

FailOpen == "APPROVED"                                          \* mutant

\* "Fail closed": what is answered when something broke.
FailureResult == "INSUFFICIENT_FUNDS"

RowStatuses == {"PENDING", "SETTLED", "REVERSED", "EXPIRED", "DECLINED"}

NoRow == [status |-> "NONE", amount |-> 0, fee |-> 0, settled |-> 0]

PendingRow(a, fee) ==
  [status |-> "PENDING", amount |-> Amount[a], fee |-> fee, settled |-> 0]

\* What the provider reports of a transaction it has decided.
Reports == {"PENDING", "SETTLED", "VOIDED", "EXPIRED", "DECLINED"}

ProviderWords(s) == s                                           \* mutant

ExpiredForgotten(s) ==                                          \* mutant
  CASE s = "VOIDED" -> "REVERSED"
    [] s = "EXPIRED" -> "PENDING"
    [] OTHER -> s

\* mapTransactionStatus: the provider's words are the code's, but for one.
MapStatus(s) == IF s = "VOIDED" THEN "REVERSED" ELSE s

\* A webhook event: the provider reports that auth a reached state s.
Events == Auths \X Reports

HoldKey(t) == <<"auth", t>>
SettleKey(t) == <<"settle", t>>
ReleaseKey(t) == <<"release", t>>
StaleKey(t) == <<"release:stale", t>>

\* post(): an existing key changes nothing.
Post(key, entries) ==
  IF key \in posted
  THEN UNCHANGED <<bal, posted>>
  ELSE /\ bal' = Apply(bal, entries)
       /\ posted' = posted \cup {key}

Captured(a) == SettleKey(a) \in posted

Returned(a) == ReleaseKey(a) \in posted \/ StaleKey(a) \in posted

Outstanding(a) == HoldKey(a) \in posted /\ ~Captured(a) /\ ~Returned(a)

\* What takes money out of the held balance on account of token t has no open
\* hold behind it, and could not know better.
Stray(t) == (t \notin Auths \/ t \in misjudged) /\ ~Outstanding(t)

\* A settlement or a release: entries that take the held amount back.
TakeOut(t, key, entries) ==
  /\ Post(key, entries)
  /\ drawn' = IF Stray(t) THEN drawn + (bal["held"] - bal'["held"]) ELSE drawn
  /\ UNCHANGED <<taken, misjudged>>

Fault(kind) ==
  /\ kind \in FaultKinds
  /\ faults < MaxFaults
  /\ faults' = faults + 1

-----------------------------------------------------------------------------
(* AsaService.decide: one request for a decision, step by step.            *)

Idle == [pc |-> "idle", auth |-> CHOOSE a \in Auths : TRUE,
         fee |-> 0, decision |-> "ERROR", result |-> "SUSPECTED_FRAUD"]

Step(d, from, to) ==
  /\ asa[d].pc = from
  /\ asa' = [asa EXCEPT ![d].pc = to]

\* The handler has its decision, and goes on to step `to`.
Decide(d, from, to, decision, result) ==
  /\ asa[d].pc = from
  /\ asa' = [asa EXCEPT ![d].pc = to, ![d].decision = decision,
                        ![d].result = result]

\* The request is delivered; the network repeats it until it has an answer.
\* One that is malformed is declined and leaves nothing on record.
Deliver(d, a) ==
  /\ asa[d].pc = "idle"
  /\ provider[a] = "asked"
  /\ \E pc \in {"lookup", "reply"} :
       /\ asa' = [asa EXCEPT ![d] = [Idle EXCEPT !.pc = pc, !.auth = a]]
       /\ IF pc = "lookup" THEN UNCHANGED faults ELSE Fault("malformed")
  /\ UNCHANGED <<money, row, event, card, network, hook, sweeper, strays>>

\* A decision on record is replayed.
Replay(d) ==
  LET decision == event[asa[d].auth] IN
  /\ decision # "NONE"
  /\ Decide(d, "lookup", "reply", decision, ToResult(decision))
  /\ UNCHANGED <<money, row, event, card, network, hook, sweeper, strays, faults>>

NotOnRecord(d) ==
  /\ event[asa[d].auth] = "NONE"
  /\ Step(d, "lookup", "check")
  /\ UNCHANGED <<money, row, event, card, network, hook, sweeper, strays, faults>>

\* spentToday: what the card's open and settled rows add up to.
SpentToday ==
  MapThenSumSet(LAMBDA t : IF row[t].status = "SETTLED" /\ row[t].settled # 0
                           THEN row[t].settled ELSE row[t].amount,
                {t \in Tokens : row[t].status \in {"PENDING", "SETTLED"}})

OverLimit(a) ==
  \/ PerTxLimit # 0 /\ Amount[a] > PerTxLimit
  \/ DailyLimit # 0 /\ SpentToday + Amount[a] > DailyLimit

\* The checks of the card.  FROZEN stands for a frozen card and for an owner
\* who is not ACTIVE: both are answered CARD_PAUSED.
Check(d) ==
  /\ \/ card = "UNKNOWN" /\ Decide(d, "check", "record", "ERROR", "SUSPECTED_FRAUD")
     \/ card = "CLOSED" /\ Decide(d, "check", "record", "CARD_CLOSED", "CARD_CLOSED")
     \/ card = "FROZEN" /\ Decide(d, "check", "record", "CARD_PAUSED", "CARD_PAUSED")
     \/ /\ card = "ACTIVE"
        /\ OverLimit(asa[d].auth)
        /\ Decide(d, "check", "record", "VELOCITY_EXCEEDED", "VELOCITY_EXCEEDED")
     \/ /\ card = "ACTIVE"
        /\ ~OverLimit(asa[d].auth)
        /\ Step(d, "check", "hold")
  /\ UNCHANGED <<money, row, event, card, network, hook, sweeper, strays, faults>>

\* transactionFee, at the rates that are in force when a handler asks: staff
\* may change them at any moment.
FeesAsked(a) == {TransactionFee(Amount[a], a \in Abroad, rates) : rates \in Rates}

\* placeHold: an existing hold is returned, a new one needs the balance.
CanHold(a, amount) == HoldKey(a) \in posted \/ bal["available"] >= amount

PlaceHold(a, amount) ==
  /\ CanHold(a, amount)
  /\ Post(HoldKey(a), HoldEntries(amount))
  /\ taken' = IF HoldKey(a) \in posted THEN taken ELSE [taken EXCEPT ![a] = amount]

Hold(d) ==
  LET a == asa[d].auth IN
  /\ \E fee \in FeesAsked(a) :
       \/ /\ PlaceHold(a, Amount[a] + fee)
          /\ asa[d].pc = "hold"
          /\ asa' = [asa EXCEPT ![d].pc = "row", ![d].fee = fee]
       \/ /\ ~CanHold(a, Amount[a] + fee)
          /\ Decide(d, "hold", "record", "INSUFFICIENT_FUNDS", "INSUFFICIENT_FUNDS")
          /\ UNCHANGED money
  /\ UNCHANGED <<row, event, card, network, hook, sweeper, strays, faults>>

\* The database fails a read, and the answer is a decline.
ReadFails(d) ==
  /\ Fault("read")
  /\ asa[d].pc \in {"lookup", "check"}
  /\ Decide(d, asa[d].pc, "record", "ERROR", FailureResult)
  /\ UNCHANGED <<money, row, event, card, network, hook, sweeper, strays>>

\* The database fails the hold, whether or not the transaction committed.
HoldFails(d) ==
  LET a == asa[d].auth IN
  /\ Fault("hold")
  /\ \/ UNCHANGED money
     \/ \E fee \in FeesAsked(a) : PlaceHold(a, Amount[a] + fee)
  /\ Decide(d, "hold", "record", "ERROR", FailureResult)
  /\ UNCHANGED <<row, event, card, network, hook, sweeper, strays>>

\* upsertPendingTransaction: creates the row, or leaves one that exists alone.
SaveRow(d) ==
  LET a == asa[d].auth IN
  /\ Decide(d, "row", "record", "APPROVED", "APPROVED")
  /\ row' = IF row[a] = NoRow
            THEN [row EXCEPT ![a] = PendingRow(a, asa[d].fee)] ELSE row
  /\ UNCHANGED <<money, event, card, network, hook, sweeper, strays, faults>>

\* A failure to write the row is swallowed.
SaveRowFails(d) ==
  /\ Fault("row")
  /\ Decide(d, "row", "record", "APPROVED", "APPROVED")
  /\ UNCHANGED <<money, row, event, card, network, hook, sweeper, strays>>

\* record: the first decision stays (P2002 is swallowed).
Record(d) ==
  LET a == asa[d].auth IN
  /\ Step(d, "record", "reply")
  /\ event' = IF event[a] = "NONE"
              THEN [event EXCEPT ![a] = asa[d].decision] ELSE event
  /\ UNCHANGED <<money, row, card, network, hook, sweeper, strays, faults>>

\* A failure to record is swallowed as well.
RecordFails(d) ==
  /\ Fault("record")
  /\ Step(d, "record", "reply")
  /\ UNCHANGED <<money, row, event, card, network, hook, sweeper, strays>>

-----------------------------------------------------------------------------
(* The provider and the network (external), and the card's status.         *)

Sent == [at |-> "sent", found |-> NoRow]

\* Auth a reaches state s at the provider, which sends a webhook about it.
Reach(a, s) ==
  /\ provider' = [provider EXCEPT ![a] = s]
  /\ hook' = [hook EXCEPT ![<<a, s>>] = IF @.at = "none" THEN Sent ELSE @]

\* The network hears an answer; the first one decides.
Reply(d) ==
  LET a == asa[d].auth IN
  /\ asa[d].pc = "reply"
  /\ asa' = [asa EXCEPT ![d] = Idle]
  /\ answers' = [answers EXCEPT ![a] = @ \cup {asa[d].result}]
  /\ IF provider[a] = "asked"
     THEN Reach(a, IF asa[d].result = "APPROVED" THEN "PENDING" ELSE "DECLINED")
     ELSE UNCHANGED <<provider, hook>>
  /\ UNCHANGED <<money, row, event, card, sweeper, strays, faults>>

Swipe(a) ==
  /\ provider[a] = "none"
  /\ provider' = [provider EXCEPT ![a] = "asked"]
  /\ UNCHANGED <<money, row, event, card, asa, answers, hook, sweeper, strays, faults>>

\* No answer within the network's three seconds: a decline.
TimeOut(a) ==
  /\ Fault("timeout")
  /\ provider[a] = "asked"
  /\ Reach(a, "DECLINED")
  /\ UNCHANGED <<money, row, event, card, asa, answers, sweeper, strays>>

\* An approved transaction clears, is voided or expires.
Outcome(a, s) ==
  /\ provider[a] = "PENDING"
  /\ s \in {"SETTLED", "VOIDED", "EXPIRED"}
  /\ Reach(a, s)
  /\ UNCHANGED <<money, row, event, card, asa, answers, sweeper, strays, faults>>

\* The provider drops a request it has no answer to, and says nothing.
Forget(a) ==
  /\ Fault("forgotten")
  /\ provider[a] = "asked"
  /\ provider' = [provider EXCEPT ![a] = "forgotten"]
  /\ UNCHANGED <<money, row, event, card, asa, answers, hook, sweeper, strays>>

\* The row of a new card is saved; a card is frozen, unfrozen or closed.
ChangeCard(s) ==
  /\ <<card, s>> \in CardChanges
  /\ card' = s
  /\ UNCHANGED <<money, row, event, asa, network, hook, sweeper, strays, faults>>

-----------------------------------------------------------------------------
(* WebhooksService: process and syncCardTransaction for one stored event.  *)

Busy == {"read", "ledger"}

Lose(e) ==
  /\ Fault("lost")
  /\ hook[e].at = "sent"
  /\ hook' = [hook EXCEPT ![e].at = "lost"]
  /\ UNCHANGED <<money, row, event, card, asa, network, sweeper, strays>>

\* The event is stored and processed at once, or by retryFailed after a
\* failure: the handler finds the card and reads the transaction's row.
ReadRow(e) ==
  /\ card # "UNKNOWN"
  /\ hook[e].at \in {"sent", "failed"}
  /\ hook' = [hook EXCEPT ![e] = [at |-> "read",
                                  found |-> row[StoredToken[e[1]]]]]
  /\ UNCHANGED <<money, row, event, card, asa, network, sweeper, strays, faults>>

\* A webhook about a card that is not in our database counts as processed.
SkipUnknownCard(e) ==
  /\ card = "UNKNOWN"
  /\ hook[e].at \in {"sent", "failed"}
  /\ hook' = [hook EXCEPT ![e].at = "processed"]
  /\ UNCHANGED <<money, row, event, card, asa, network, sweeper, strays, faults>>

\* The upsert: a new row carries no fee, an old one keeps its amount and fee.
Synced(r, e) ==
  LET known == IF r = NoRow THEN PendingRow(e[1], 0) ELSE r IN
  [known EXCEPT !.status = MapStatus(e[2]),
                !.settled = IF e[2] = "SETTLED" THEN Cleared[e[1]] ELSE @]

\* The row is written first; the ledger is touched only if the status differs
\* from the one that was read.
UpsertRow(e) ==
  /\ hook[e].at = "read"
  /\ row' = [row EXCEPT ![StoredToken[e[1]]] = Synced(@, e)]
  /\ hook' = [hook EXCEPT ![e].at = IF hook[e].found.status = MapStatus(e[2])
                                    THEN "processed" ELSE "ledger"]
  /\ UNCHANGED <<money, event, card, asa, network, sweeper, strays, faults>>

FeeForgotten(e) ==                                              \* mutant
  IF hook[e].found = NoRow THEN Amount[e[1]] ELSE hook[e].found.amount

\* What the handler takes the hold to be: the row it read, fee included, or
\* the amount in the webhook.
HeldRead(e) ==
  IF hook[e].found = NoRow THEN Amount[e[1]]
  ELSE hook[e].found.amount + hook[e].found.fee

AnyRelease(t) == TRUE                                           \* mutant

\* Only a hold that ASA placed is released.
HadHold(t) == HoldKey(t) \in posted

\* The ledger step, by the new status; then the event is PROCESSED.
MoveMoney(e) ==
  LET s == MapStatus(e[2])
      t == StoredToken[e[1]] IN
  /\ hook[e].at = "ledger"
  /\ \/ /\ s = "SETTLED"
        /\ TakeOut(t, SettleKey(t), SettlementEntries(HeldRead(e), Cleared[e[1]],
                                                      hook[e].found.fee))
     \/ /\ s \in {"REVERSED", "EXPIRED", "DECLINED"}
        /\ HadHold(t)
        /\ TakeOut(t, ReleaseKey(t), ReleaseEntries(HeldRead(e)))
     \/ /\ s \in {"REVERSED", "EXPIRED", "DECLINED"}
        /\ ~HadHold(t)
        /\ UNCHANGED <<money, strays>>
     \/ s = "PENDING" /\ UNCHANGED <<money, strays>>
  /\ hook' = [hook EXCEPT ![e] = [at |-> "processed", found |-> NoRow]]
  /\ UNCHANGED <<row, event, card, asa, network, sweeper, faults>>

\* An exception in the handler: FAILED, to be processed again.
HookFails(e) ==
  /\ Fault("handler")
  /\ hook[e].at \in Busy
  /\ hook' = [hook EXCEPT ![e] = [at |-> "failed", found |-> NoRow]]
  /\ UNCHANGED <<money, row, event, card, asa, network, sweeper, strays>>

\* An operator replays an event that was processed or got stuck, any number
\* of times.
AdminReplay(e) ==
  /\ "replay" \in FaultKinds
  /\ hook[e].at \in {"processed", "stuck"}
  /\ hook' = [hook EXCEPT ![e] = Sent]
  /\ UNCHANGED <<money, row, event, card, asa, network, sweeper, strays, faults>>

-----------------------------------------------------------------------------
(* sweepStaleAuthorizations: rows that are PENDING after eight days.       *)

NotSweeping == [at |-> "idle", token |-> CHOOSE t \in Tokens : TRUE,
                found |-> NoRow]

\* A row eight days old: its handlers, which run for seconds, have ended.
Stale(t) ==
  /\ sweep.at = "idle"
  /\ row[t].status = "PENDING"
  /\ \A d \in Deliveries : asa[d].pc = "idle" \/ asa[d].auth # t
  /\ \A e \in Events : StoredToken[e[1]] = t => hook[e].at \notin Busy
  /\ t \in Auths => provider[t] # "asked"

\* The provider has never heard of the token.
Unknown(t) == t \notin Auths \/ provider[t] = "forgotten"

\* The provider's answer goes to syncCardTransaction, which looks for `token`
\* and `card_token`, finds neither (the answer's fields are called
\* transactionToken and cardToken) and returns.  The row counts as resolved.
SweepKnown(t) ==
  /\ Stale(t)
  /\ ~Unknown(t)
  /\ resolved' = resolved \cup {t}
  /\ UNCHANGED <<money, row, event, card, asa, network, hook, sweep, strays, faults>>

\* The provider does not know the token, or the lookup failed: getTransaction
\* catches every error and answers null.
SweepUnknown(t) ==
  /\ Stale(t)
  /\ IF Unknown(t) THEN UNCHANGED <<misjudged, faults>>
     ELSE Fault("outage") /\ misjudged' = misjudged \cup {t}
  /\ sweep' = [at |-> "release", token |-> t, found |-> row[t]]
  /\ UNCHANGED <<money, row, event, card, asa, network, hook, resolved, drawn>>

SweepRelease ==
  /\ sweep.at = "release"
  /\ TakeOut(sweep.token, StaleKey(sweep.token),
             ReleaseEntries(sweep.found.amount + sweep.found.fee))
  /\ sweep' = [sweep EXCEPT !.at = "expire"]
  /\ UNCHANGED <<row, event, card, asa, network, hook, resolved, faults>>

SweepExpire ==
  /\ sweep.at = "expire"
  /\ row' = [row EXCEPT ![sweep.token].status = "EXPIRED"]
  /\ sweep' = NotSweeping
  /\ UNCHANGED <<money, event, card, asa, network, hook, resolved, strays, faults>>

-----------------------------------------------------------------------------
(* The process restarts: every handler ends where it is.  A webhook whose  *)
(* handler died stays PROCESSING, and nothing but an operator picks it up. *)
Restart ==
  /\ Fault("crash")
  /\ asa' = [d \in Deliveries |-> Idle]
  /\ hook' = [e \in Events |-> IF hook[e].at \in Busy
                               THEN [at |-> "stuck", found |-> NoRow]
                               ELSE hook[e]]
  /\ sweep' = NotSweeping
  /\ UNCHANGED <<money, row, event, card, network, resolved, strays>>

-----------------------------------------------------------------------------
Init ==
  /\ \E opening \in Openings :
       bal = [NoBalance EXCEPT !["available"] = opening,
                               !["clearing"] = -opening]
  /\ posted = {}
  /\ taken = [a \in Auths |-> 0]
  /\ row = [t \in Tokens |-> NoRow]
  /\ event = [a \in Auths |-> "NONE"]
  /\ card \in {"ACTIVE"} \cup {c[1] : c \in CardChanges}
  /\ asa = [d \in Deliveries |-> Idle]
  /\ provider = [a \in Auths |-> "none"]
  /\ answers = [a \in Auths |-> {}]
  /\ hook = [e \in Events |-> [at |-> "none", found |-> NoRow]]
  /\ sweep = NotSweeping
  /\ resolved = {}
  /\ misjudged = {}
  /\ drawn = 0
  /\ faults = 0

AsaStep(d) ==
  \/ Replay(d)
  \/ NotOnRecord(d)
  \/ Check(d)
  \/ Hold(d)
  \/ SaveRow(d)
  \/ Record(d)
  \/ Reply(d)

HookStep(e) == SkipUnknownCard(e) \/ ReadRow(e) \/ UpsertRow(e) \/ MoveMoney(e)

SweepStep ==
  \/ \E t \in Tokens : SweepKnown(t) \/ SweepUnknown(t)
  \/ SweepRelease
  \/ SweepExpire

Environment ==
  \/ \E a \in Auths : Swipe(a) \/ TimeOut(a) \/ Forget(a)
  \/ \E a \in Auths, s \in Reports : Outcome(a, s)
  \/ \E s \in {"ACTIVE", "FROZEN", "CLOSED"} : ChangeCard(s)
  \/ \E d \in Deliveries, a \in Auths : Deliver(d, a)

Next ==
  \/ \E d \in Deliveries :
       \/ AsaStep(d)
       \/ ReadFails(d)
       \/ HoldFails(d)
       \/ SaveRowFails(d)
       \/ RecordFails(d)
  \/ \E e \in Events : HookStep(e) \/ HookFails(e) \/ Lose(e) \/ AdminReplay(e)
  \/ SweepStep
  \/ Environment
  \/ Restart

Spec == Init /\ [][Next]_vars

\* Handlers run on, the provider resolves and reports what it approved and
\* repeats an unanswered request, and the sweep comes round every hour.
\* Nobody has to swipe, freeze a card or replay an event; faults need not
\* happen.
Fairness ==
  /\ \A d \in Deliveries : WF_vars(AsaStep(d))
  /\ \A e \in Events : WF_vars(HookStep(e))
  /\ \A a \in Auths :
       /\ WF_vars(\E s \in Reports : Outcome(a, s))
       /\ WF_vars(\E d \in Deliveries : Deliver(d, a))
  /\ WF_vars(SweepStep)
  /\ WF_vars(card = "UNKNOWN" /\ ChangeCard("ACTIVE"))

FairSpec == Spec /\ Fairness

-----------------------------------------------------------------------------
(* Properties.                                                             *)

RowType == [status : RowStatuses \cup {"NONE"}, amount : Nat, fee : Nat,
            settled : Nat]

TypeOK ==
  /\ bal \in [Accounts -> Int]
  /\ posted \subseteq {"auth", "settle", "release", "release:stale"} \X Tokens
  /\ taken \in [Auths -> Nat]
  /\ row \in [Tokens -> RowType]
  /\ event \in [Auths -> Decisions \cup {"NONE"}]
  /\ card \in CardStatuses
  /\ asa \in [Deliveries ->
                [pc : {"idle", "lookup", "check", "hold", "row", "record", "reply"},
                 auth : Auths, fee : Nat, decision : Decisions, result : Results]]
  /\ provider \in [Auths -> {"none", "asked", "forgotten"} \cup Reports]
  /\ answers \in [Auths -> SUBSET Results]
  /\ hook \in [Events -> [at : {"none", "sent", "lost", "read", "ledger", "failed",
                                "stuck", "processed"},
                          found : RowType]]
  /\ sweep \in [at : {"idle", "release", "expire"}, token : Tokens, found : RowType]
  /\ resolved \subseteq Tokens
  /\ misjudged \subseteq Auths
  /\ drawn \in Int
  /\ faults \in 0..MaxFaults

OutstandingHolds ==
  MapThenSumSet(LAMBDA a : taken[a], {a \in Auths : Outstanding(a)})

\* By how much the rows say more than the holds behind them: a handler that
\* finds the hold of an earlier one, taken at another rate, saves its own fee.
Excess(a) ==
  IF HoldKey(a) \in posted /\ row[a].amount + row[a].fee > taken[a]
  THEN row[a].amount + row[a].fee - taken[a] ELSE 0

Overstated == MapThenSumSet(Excess, Auths)

\* An APPROVED answer has the cardholder's money behind it: the hold is in the
\* ledger, whatever duplicates, replays and failures came before the answer.
ApprovedHasHold ==
  \A a \in Auths : "APPROVED" \in answers[a] => HoldKey(a) \in posted

\* The held balance covers every hold that is still open: no webhook, replay,
\* retry or sweep takes the money of another authorization out of it, but for
\* what a row says its hold took and the hold did not, and for what was drawn
\* under the token that redact() leaves or about a transaction the sweep
\* returned in an outage of the provider.
HeldCovers == bal["held"] + Overstated + drawn >= OutstandingHolds

\* It is exactly the open holds: what is consumed of a hold is all of it, the
\* reserved fee included, so nothing stays behind in the held account.
HeldIsOutstanding == bal["held"] = OutstandingHolds

HoldOf ==
  [a \in Auths |->
    IF a \in misjudged THEN "disputed"
    ELSE CASE Captured(a) /\ Returned(a) -> "both"
           [] Captured(a) /\ ~Returned(a) -> "captured"
           [] ~Captured(a) /\ Returned(a) -> "returned"
           [] OTHER -> IF HoldKey(a) \in posted THEN "placed" ELSE "none"]

Contract == INSTANCE HoldContract WITH hold <- HoldOf

\* The bookkeeping of the keys follows the contract of a hold: placed once,
\* then captured or returned, and only one of them, unless the sweep took the
\* transaction for an unknown one in an outage of the provider.
HoldContractSpec == Contract!Spec

\* A hold is not left behind once its transaction is over at the provider, or
\* the provider has forgotten it.
Over(a) == provider[a] \in {"forgotten"} \cup (Reports \ {"PENDING"})

HoldsResolved == \A a \in Auths : Outstanding(a) /\ Over(a) ~> ~Outstanding(a)
=============================================================================
