--------------------------- MODULE CardHoldsProofs ---------------------------
(***************************************************************************)
(* Theorems about CardHolds, for any authorizations, amounts, limits,      *)
(* handlers and faults.                                                    *)
(***************************************************************************)
EXTENDS CardHolds, FiniteSetTheorems, WellFoundedInduction, TLAPS

AsaType == [pc : {"idle", "lookup", "check", "hold", "row", "record", "reply"},
            auth : Auths, fee : Nat, decision : Decisions, result : Results]

HookType == [at : {"none", "sent", "lost", "read", "ledger", "failed", "stuck", "processed"},
             found : RowType]

-----------------------------------------------------------------------------
(* Money: the accounts stay integers, and keys are only ever added.        *)

LEMMA EntriesAreIntegers ==
  ASSUME NEW x \in Accounts
  PROVE  /\ \A n \in Int : At(HoldEntries(n), x) \in Int /\ At(ReleaseEntries(n), x) \in Int
         /\ \A n, m, f \in Int : At(SettlementEntries(n, m, f), x) \in Int
<1>1. \A n \in Int : At(HoldEntries(n), x) \in Int /\ At(ReleaseEntries(n), x) \in Int
  BY DEF At, HoldEntries, ReleaseEntries
<1>2. \A n, m, f \in Int : At(SettlementEntries(n, m, f), x) \in Int
  BY DEF At, SettlementEntries, WithoutZero, Accounts
<1> QED
  BY <1>1, <1>2

\* What the steps post: nothing, or one key with its entries.
Posts(kind, a) ==
  /\ <<kind, a>> \notin posted => posted' = posted \cup {<<kind, a>>}
  /\ <<kind, a>> \in posted => posted' = posted

LEMMA PostEffect ==
  ASSUME NEW kind, NEW t, NEW entries, bal \in [Accounts -> Int],
         \A x \in Accounts : At(entries, x) \in Int,
         Post(<<kind, t>>, entries)
  PROVE  bal' \in [Accounts -> Int] /\ Posts(kind, t)
<1>1. CASE <<kind, t>> \in posted
  BY <1>1 DEF Post, Posts
<1>2. CASE <<kind, t>> \notin posted
  BY <1>2 DEF Post, Apply, Posts
<1> QED
  BY <1>1, <1>2

LEMMA PercentageIsNatural ==
  ASSUME NEW a \in Nat, NEW b \in BasisPoints
  PROVE  ApplyBps(a, b) \in Nat
<1>1. b \in Nat /\ a * b \in Nat
  BY DEF BasisPoints
<1>2. \A n \in Nat : n \div 10000 \in Nat
  OBVIOUS
<1> QED
  BY <1>1, <1>2 DEF ApplyBps

LEMMA Amounts ==
  /\ \A a \in Auths : Amount[a] \in Nat \ {0} /\ Cleared[a] \in Nat \ {0}
  /\ \A a \in Auths : StoredToken[a] \in Tokens /\ a \in Tokens
  /\ \A a \in Auths : \A fee \in FeesAsked(a) : fee \in Nat /\ Amount[a] + fee \in Nat
<1>1. \A a \in Auths : Amount[a] \in Nat \ {0} /\ Cleared[a] \in Nat \ {0}
  BY CardAssumption
<1>2. ASSUME NEW a \in Auths, NEW fee \in FeesAsked(a) PROVE fee \in Nat
  <2>1. PICK rates \in TransactionRates : fee = TransactionFee(Amount[a], a \in Abroad, rates)
    BY CardAssumption DEF FeesAsked
  <2>2. rates.bps \in BasisPoints /\ rates.flat \in Nat /\ rates.fx \in BasisPoints
    BY DEF TransactionRates
  <2>3. ApplyBps(Amount[a], rates.bps) \in Nat /\ ApplyBps(Amount[a], rates.fx) \in Nat
    BY <1>1, <2>2, PercentageIsNatural
  <2> QED
    BY <2>1, <2>2, <2>3 DEF TransactionFee
<1> QED
  BY <1>1, <1>2 DEF Tokens

LEMMA PlaceHoldEffect ==
  ASSUME TypeOK, NEW a \in Auths, NEW fee \in FeesAsked(a), PlaceHold(a, Amount[a] + fee)
  PROVE  bal' \in [Accounts -> Int] /\ Posts("auth", a) /\ taken' \in [Auths -> Nat]
<1>1. PICK n \in Nat : n = Amount[a] + fee
  BY Amounts
<1>2. Post(HoldKey(a), HoldEntries(n)) /\ (taken' = taken \/ taken' = [taken EXCEPT ![a] = n])
  BY <1>1 DEF PlaceHold
<1>3. taken' \in [Auths -> Nat]
  BY <1>2 DEF TypeOK
<1>4. bal \in [Accounts -> Int] /\ \A x \in Accounts : At(HoldEntries(n), x) \in Int
  <2>1. n \in Int /\ bal \in [Accounts -> Int]
    BY DEF TypeOK
  <2> QED
    BY <2>1, EntriesAreIntegers
<1>5. Post(<<"auth", a>>, HoldEntries(n))
  BY <1>2 DEF HoldKey
<1> QED
  BY <1>3, <1>4, <1>5, PostEffect

LEMMA HoldEffect ==
  ASSUME TypeOK, NEW d \in Deliveries, Hold(d) \/ HoldFails(d)
  PROVE  /\ asa[d].auth \in Auths /\ bal' \in [Accounts -> Int] /\ taken' \in [Auths -> Nat]
         /\ UNCHANGED posted \/ Posts("auth", asa[d].auth)
<1> DEFINE a == asa[d].auth
<1>1. a \in Auths
  BY DEF TypeOK
<1>2. ASSUME NEW fee \in FeesAsked(a), PlaceHold(a, Amount[a] + fee)
      PROVE  bal' \in [Accounts -> Int] /\ taken' \in [Auths -> Nat] /\ Posts("auth", a)
  BY <1>1, <1>2, PlaceHoldEffect
<1>3. CASE UNCHANGED money
  BY <1>1, <1>3 DEF TypeOK, money
<1> QED
  BY <1>1, <1>2, <1>3 DEF Hold, HoldFails

LEMMA MoveMoneyEffect ==
  ASSUME TypeOK, NEW e \in Events, MoveMoney(e)
  PROVE  /\ bal' \in [Accounts -> Int] /\ UNCHANGED taken /\ StoredToken[e[1]] \in Tokens
         /\ \/ UNCHANGED posted
            \/ e[2] = "SETTLED" /\ Posts("settle", StoredToken[e[1]])
            \/ /\ e[2] \in {"VOIDED", "EXPIRED", "DECLINED"}
               /\ HoldKey(StoredToken[e[1]]) \in posted
               /\ Posts("release", StoredToken[e[1]])
<1> DEFINE t == StoredToken[e[1]]
<1>1. e[1] \in Auths /\ e[2] \in Reports /\ t \in Tokens
  BY Amounts DEF Events
<1>2. hook[e].found \in RowType /\ bal \in [Accounts -> Int]
  BY DEF TypeOK
<1>3. HeldRead(e) \in Int /\ hook[e].found.fee \in Int /\ Cleared[e[1]] \in Int
  BY <1>1, <1>2, Amounts DEF HeldRead, RowType
<1>4. CASE MapStatus(e[2]) = "SETTLED" /\ Post(SettleKey(t), SettlementEntries(HeldRead(e), Cleared[e[1]],
                                                                             hook[e].found.fee))
           /\ UNCHANGED taken
  <2>1. e[2] = "SETTLED"
    BY <1>4 DEF MapStatus
  <2> QED
    <3> DEFINE entries == SettlementEntries(HeldRead(e), Cleared[e[1]], hook[e].found.fee)
    <3>1. \A x \in Accounts : At(entries, x) \in Int
      BY <1>3, EntriesAreIntegers
    <3>2. Post(<<"settle", t>>, entries)
      BY <1>4 DEF SettleKey
    <3> HIDE DEF entries
    <3>3. bal' \in [Accounts -> Int] /\ Posts("settle", t)
      BY <1>2, <3>1, <3>2, PostEffect
    <3> QED
      BY <1>1, <1>4, <2>1, <3>3
<1>5. CASE MapStatus(e[2]) \in {"REVERSED", "EXPIRED", "DECLINED"} /\ HadHold(t)
           /\ Post(ReleaseKey(t), ReleaseEntries(HeldRead(e))) /\ UNCHANGED taken
  <2>1. e[2] \in {"VOIDED", "EXPIRED", "DECLINED"}
    BY <1>1, <1>5 DEF MapStatus, Reports
  <2> QED
    BY <1>1, <1>2, <1>3, <1>5, <2>1, PostEffect, EntriesAreIntegers DEF ReleaseKey, HadHold
<1>6. CASE UNCHANGED money
  BY <1>1, <1>2, <1>6 DEF money
<1> QED
  BY <1>4, <1>5, <1>6, Zenon DEF MoveMoney, TakeOut

LEMMA SweepReleaseEffect ==
  ASSUME TypeOK, SweepRelease
  PROVE  bal' \in [Accounts -> Int] /\ UNCHANGED taken /\ Posts("release:stale", sweep.token)
<1>1. sweep.found.amount + sweep.found.fee \in Int /\ bal \in [Accounts -> Int]
  BY DEF TypeOK, RowType
<1> QED
  BY <1>1, PostEffect, EntriesAreIntegers DEF SweepRelease, TakeOut, StaleKey

\* Every other step leaves the money alone.
LEMMA MoneySteps ==
  ASSUME [Next]_vars
  PROVE  \/ UNCHANGED <<bal, posted, taken>>
         \/ \E d \in Deliveries : Hold(d) \/ HoldFails(d)
         \/ \E e \in Events : MoveMoney(e)
         \/ SweepRelease
<1>1. CASE UNCHANGED vars
  BY <1>1 DEF vars, money
<1>2. ASSUME NEW d \in Deliveries, AsaStep(d) \/ ReadFails(d) \/ SaveRowFails(d) \/ RecordFails(d)
      PROVE  UNCHANGED <<bal, posted, taken>> \/ Hold(d)
  BY <1>2 DEF AsaStep, Replay, NotOnRecord, Check, SaveRow, Record, Reply, ReadFails, SaveRowFails,
              RecordFails, money
<1>3. ASSUME NEW e \in Events, HookStep(e) \/ HookFails(e) \/ Lose(e) \/ AdminReplay(e)
      PROVE  UNCHANGED <<bal, posted, taken>> \/ MoveMoney(e)
  BY <1>3 DEF HookStep, SkipUnknownCard, ReadRow, UpsertRow, HookFails, Lose, AdminReplay, money
<1>4. CASE SweepStep
  BY <1>4 DEF SweepStep, SweepKnown, SweepUnknown, SweepExpire, money
<1>5. CASE Environment \/ Restart
  BY <1>5 DEF Environment, Swipe, TimeOut, Forget, Outcome, ChangeCard, Deliver, Restart, money
<1> QED
  BY <1>1, <1>2, <1>3, <1>4, <1>5 DEF Next

LEMMA MoneyStep ==
  ASSUME TypeOK, [Next]_vars
  PROVE  /\ bal' \in [Accounts -> Int] /\ taken' \in [Auths -> Nat] /\ posted \subseteq posted'
         /\ posted' \subseteq {"auth", "settle", "release", "release:stale"} \X Tokens
<1>1. bal \in [Accounts -> Int] /\ posted \subseteq {"auth", "settle", "release", "release:stale"} \X Tokens
      /\ sweep.token \in Tokens /\ taken \in [Auths -> Nat]
  BY DEF TypeOK
<1>2. \A kind \in {"auth", "settle", "release", "release:stale"}, t \in Tokens :
        Posts(kind, t) => /\ posted \subseteq posted'
                          /\ posted' \subseteq {"auth", "settle", "release", "release:stale"} \X Tokens
  BY <1>1 DEF Posts
<1>3. ASSUME NEW d \in Deliveries, Hold(d) \/ HoldFails(d)
      PROVE  bal' \in [Accounts -> Int] /\ taken' \in [Auths -> Nat]
             /\ (UNCHANGED posted \/ \E t \in Tokens : Posts("auth", t))
  BY <1>3, HoldEffect, Amounts
<1>4. ASSUME NEW e \in Events, MoveMoney(e)
      PROVE  bal' \in [Accounts -> Int] /\ UNCHANGED taken
             /\ (UNCHANGED posted \/ \E t \in Tokens : Posts("settle", t) \/ Posts("release", t))
  BY <1>4, MoveMoneyEffect
<1>5. SweepRelease => bal' \in [Accounts -> Int] /\ UNCHANGED taken /\ \E t \in Tokens : Posts("release:stale", t)
  BY <1>1, SweepReleaseEffect
<1> QED
  BY <1>1, <1>2, <1>3, <1>4, <1>5, MoneySteps

-----------------------------------------------------------------------------
(* An approval has the hold behind it.                                     *)

\* A handler that has approved, or is about to.
Approves(r) == r.decision = "APPROVED" \/ r.result = "APPROVED" \/ r.pc = "row"

HoldInv ==
  /\ asa \in [Deliveries -> AsaType]
  /\ \A d \in Deliveries : Approves(asa[d]) => HoldKey(asa[d].auth) \in posted
  /\ event \in [Auths -> Decisions \cup {"NONE"}]
  /\ answers \in [Auths -> SUBSET Results]
  /\ \A a \in Auths : (event[a] = "APPROVED" \/ "APPROVED" \in answers[a]) => HoldKey(a) \in posted

\* What a step does to one handler.
Moved(d, r) == r \in AsaType /\ asa' = [asa EXCEPT ![d] = r]

LEMMA IdleType == Idle \in AsaType /\ ~Approves(Idle) /\ Idle.pc = "idle"
<1>1. (CHOOSE a \in Auths : TRUE) \in Auths
  BY CardAssumption
<1> QED
  BY <1>1 DEF Idle, AsaType, Approves, Decisions, Results

LEMMA StepMoves ==
  ASSUME HoldInv, NEW d \in Deliveries, NEW from,
         NEW to \in {"lookup", "check", "hold", "row", "record", "reply"}, Step(d, from, to)
  PROVE  \E r \in AsaType : /\ Moved(d, r) /\ r.pc = to /\ r.auth = asa[d].auth
                            /\ r.decision = asa[d].decision /\ r.result = asa[d].result
<1> DEFINE r == [asa[d] EXCEPT !.pc = to]
<1>1. asa[d] \in AsaType
  BY DEF HoldInv
<1>2. r \in AsaType /\ r.pc = to /\ r.auth = asa[d].auth /\ r.decision = asa[d].decision /\ r.result = asa[d].result
  BY <1>1 DEF AsaType
<1>3. asa' = [asa EXCEPT ![d] = r]
  BY DEF Step
<1> HIDE DEF r
<1> QED
  BY <1>2, <1>3 DEF Moved

LEMMA DecideMoves ==
  ASSUME HoldInv, NEW d \in Deliveries, NEW from, NEW to \in {"record", "reply"},
         NEW decision \in Decisions, NEW result \in Results, Decide(d, from, to, decision, result)
  PROVE  \E r \in AsaType : /\ Moved(d, r) /\ r.pc = to /\ r.auth = asa[d].auth
                            /\ r.decision = decision /\ r.result = result
<1> DEFINE r == [asa[d] EXCEPT !.pc = to, !.decision = decision, !.result = result]
<1>1. asa[d] \in AsaType
  BY DEF HoldInv
<1>2. r \in AsaType /\ r.pc = to /\ r.auth = asa[d].auth /\ r.decision = decision /\ r.result = result
  BY <1>1 DEF AsaType
<1>3. asa' = [asa EXCEPT ![d] = r]
  BY <1>1 DEF Decide, AsaType
<1> HIDE DEF r
<1> QED
  BY <1>2, <1>3 DEF Moved

\* Every step leaves the handlers alone, ends them all, or moves one of them on; where that one
\* approves, it has the hold.
LEMMA HandlerMoves ==
  ASSUME TypeOK, HoldInv, NEW d \in Deliveries,
         AsaStep(d) \/ ReadFails(d) \/ HoldFails(d) \/ SaveRowFails(d) \/ RecordFails(d)
  PROVE  \E r \in AsaType : Moved(d, r) /\ (Approves(r) => HoldKey(r.auth) \in posted')
<1>0. posted \subseteq posted'
  BY MoneyStep DEF Next
<1>1. /\ asa[d] \in AsaType /\ asa[d].auth \in Auths
      /\ Approves(asa[d]) => HoldKey(asa[d].auth) \in posted
      /\ event[asa[d].auth] \in Decisions \cup {"NONE"}
      /\ event[asa[d].auth] = "APPROVED" => HoldKey(asa[d].auth) \in posted
  BY DEF HoldInv, AsaType
<1>2. CASE Replay(d)
  <2>1. event[asa[d].auth] \in Decisions /\ ToResult(event[asa[d].auth]) \in Results
        /\ (ToResult(event[asa[d].auth]) = "APPROVED" => event[asa[d].auth] = "APPROVED")
    BY <1>1, <1>2 DEF Replay, ToResult, Decisions, Results
  <2>2. PICK r \in AsaType : /\ Moved(d, r) /\ r.pc = "reply" /\ r.auth = asa[d].auth
                             /\ r.decision = event[asa[d].auth] /\ r.result = ToResult(event[asa[d].auth])
    BY <1>2, <2>1, DecideMoves DEF Replay
  <2> QED
    BY <1>0, <1>1, <2>1, <2>2 DEF Approves
<1>3. CASE \E to \in {"check", "hold"} : \E from : Step(d, from, to)
  <2>1. PICK r \in AsaType : /\ Moved(d, r) /\ r.pc # "row" /\ r.auth = asa[d].auth
                             /\ r.decision = asa[d].decision /\ r.result = asa[d].result
    BY <1>3, StepMoves
  <2> QED
    BY <1>0, <1>1, <2>1 DEF Approves
<1>4. CASE \E from : \E dec \in Decisions \ {"APPROVED"}, res \in Results \ {"APPROVED"} :
             Decide(d, from, "record", dec, res)
  <2>1. PICK r \in AsaType : Moved(d, r) /\ ~Approves(r)
    BY <1>4, DecideMoves DEF Approves
  <2> QED
    BY <2>1
<1>5. ASSUME NEW fee \in FeesAsked(asa[d].auth), PlaceHold(asa[d].auth, Amount[asa[d].auth] + fee),
             asa' = [asa EXCEPT ![d].pc = "row", ![d].fee = fee]
      PROVE  \E r \in AsaType : Moved(d, r) /\ (Approves(r) => HoldKey(r.auth) \in posted')
  <2>1. HoldKey(asa[d].auth) \in posted'
    BY <1>5 DEF PlaceHold, Post
  <2> DEFINE r == [asa[d] EXCEPT !.pc = "row", !.fee = fee]
  <2>2. fee \in Nat
    BY <1>1, Amounts
  <2>3. r \in AsaType /\ r.auth = asa[d].auth
    BY <1>1, <2>2 DEF AsaType
  <2>4. asa' = [asa EXCEPT ![d] = r]
    BY <1>1, <1>5 DEF AsaType
  <2> HIDE DEF r
  <2> QED
    BY <2>1, <2>3, <2>4 DEF Moved
<1>6. CASE Decide(d, "row", "record", "APPROVED", "APPROVED")
  <2>1. HoldKey(asa[d].auth) \in posted
    BY <1>1, <1>6 DEF Decide, Approves
  <2> QED
    BY <1>0, <1>6, <2>1, DecideMoves DEF Decisions, Results
<1>7. CASE Step(d, "record", "reply")
  <2>1. PICK r \in AsaType : /\ Moved(d, r) /\ r.pc # "row" /\ r.auth = asa[d].auth
                             /\ r.decision = asa[d].decision /\ r.result = asa[d].result
    BY <1>7, StepMoves
  <2> QED
    BY <1>0, <1>1, <2>1 DEF Approves
<1>8. CASE Reply(d)
  BY <1>8, IdleType DEF Reply, Moved
<1> HIDE DEF Approves
<1>9. FailureResult \in Results \ {"APPROVED"}
  BY DEF FailureResult, Results, Decisions
<1>10. Check(d) => \/ \E to \in {"check", "hold"} : \E from : Step(d, from, to)
                   \/ \E from : \E dec \in Decisions \ {"APPROVED"}, res \in Results \ {"APPROVED"} :
                        Decide(d, from, "record", dec, res)
  BY DEF Check, Decisions, Results
<1>11. NotOnRecord(d) => \E to \in {"check", "hold"} : \E from : Step(d, from, to)
  BY DEF NotOnRecord
<1>12. ReadFails(d) \/ HoldFails(d) =>
         \E from : \E dec \in Decisions \ {"APPROVED"}, res \in Results \ {"APPROVED"} :
           Decide(d, from, "record", dec, res)
  BY <1>9 DEF ReadFails, HoldFails, Decisions
<1>13. Hold(d) => \/ \E fee \in FeesAsked(asa[d].auth) :
                       /\ PlaceHold(asa[d].auth, Amount[asa[d].auth] + fee)
                       /\ asa' = [asa EXCEPT ![d].pc = "row", ![d].fee = fee]
                  \/ \E from : \E dec \in Decisions \ {"APPROVED"}, res \in Results \ {"APPROVED"} :
                       Decide(d, from, "record", dec, res)
  BY DEF Hold, Decisions, Results
<1>14. SaveRow(d) \/ SaveRowFails(d) => Decide(d, "row", "record", "APPROVED", "APPROVED")
  BY DEF SaveRow, SaveRowFails
<1>15. Record(d) \/ RecordFails(d) => Step(d, "record", "reply")
  BY DEF Record, RecordFails
<1> QED
  BY <1>2, <1>3, <1>4, <1>5, <1>6, <1>7, <1>8, <1>10, <1>11, <1>12, <1>13, <1>14, <1>15 DEF AsaStep

LEMMA HandlerSteps ==
  ASSUME [Next]_vars
  PROVE  \/ UNCHANGED <<asa, event, answers>>
         \/ \E d \in Deliveries : AsaStep(d) \/ ReadFails(d) \/ HoldFails(d) \/ SaveRowFails(d) \/ RecordFails(d)
         \/ \E d \in Deliveries, a \in Auths : Deliver(d, a)
         \/ Restart
<1>1. CASE UNCHANGED vars
  BY <1>1 DEF vars, network
<1>2. ASSUME NEW e \in Events, HookStep(e) \/ HookFails(e) \/ Lose(e) \/ AdminReplay(e)
      PROVE  UNCHANGED <<asa, event, answers>>
  BY <1>2 DEF HookStep, SkipUnknownCard, ReadRow, UpsertRow, MoveMoney, HookFails, Lose, AdminReplay, network
<1>3. CASE SweepStep
  BY <1>3 DEF SweepStep, SweepKnown, SweepUnknown, SweepRelease, SweepExpire, network
<1>4. CASE Environment
  BY <1>4 DEF Environment, Swipe, TimeOut, Forget, Outcome, ChangeCard, network
<1> QED
  BY <1>1, <1>2, <1>3, <1>4 DEF Next

\* A decision on record is one that a handler made.
LEMMA EventStep ==
  ASSUME HoldInv, NEW d \in Deliveries,
         AsaStep(d) \/ ReadFails(d) \/ HoldFails(d) \/ SaveRowFails(d) \/ RecordFails(d)
  PROVE  /\ event' \in [Auths -> Decisions \cup {"NONE"}] /\ answers' \in [Auths -> SUBSET Results]
         /\ \A a \in Auths : (event'[a] = "APPROVED" \/ "APPROVED" \in answers'[a]) => HoldKey(a) \in posted
<1>0. /\ event \in [Auths -> Decisions \cup {"NONE"}] /\ answers \in [Auths -> SUBSET Results]
      /\ \A a \in Auths : (event[a] = "APPROVED" \/ "APPROVED" \in answers[a]) => HoldKey(a) \in posted
      /\ asa[d].auth \in Auths /\ asa[d].decision \in Decisions /\ asa[d].result \in Results
      /\ Approves(asa[d]) => HoldKey(asa[d].auth) \in posted
  BY DEF HoldInv, AsaType
<1>1. CASE Record(d)
  <2>1. answers' = answers /\ event' \in {event, [event EXCEPT ![asa[d].auth] = asa[d].decision]}
    BY <1>1 DEF Record, network
  <2> QED
    BY <1>0, <2>1 DEF Approves
<1>2. CASE Reply(d)
  <2>1. event' = event /\ answers' = [answers EXCEPT ![asa[d].auth] = @ \cup {asa[d].result}]
    BY <1>2 DEF Reply
  <2> QED
    BY <1>0, <2>1 DEF Approves
<1>3. CASE UNCHANGED <<event, answers>>
  BY <1>0, <1>3
<1> QED
  BY <1>1, <1>2, <1>3 DEF AsaStep, Replay, NotOnRecord, Check, Hold, SaveRow, ReadFails, HoldFails, SaveRowFails,
                          RecordFails, network

LEMMA HoldStep ==
  ASSUME TypeOK, HoldInv, [Next]_vars
  PROVE  HoldInv'
<1>0. posted \subseteq posted'
  BY MoneyStep
<1>1. CASE UNCHANGED <<asa, event, answers>>
  BY <1>0, <1>1 DEF HoldInv
<1>2. ASSUME NEW d \in Deliveries,
             AsaStep(d) \/ ReadFails(d) \/ HoldFails(d) \/ SaveRowFails(d) \/ RecordFails(d)
      PROVE  HoldInv'
  <2>1. PICK r \in AsaType : Moved(d, r) /\ (Approves(r) => HoldKey(r.auth) \in posted')
    BY <1>2, HandlerMoves
  <2>2. \A c \in Deliveries : asa'[c] = IF c = d THEN r ELSE asa[c]
    BY <2>1 DEF HoldInv, Moved
  <2>3. asa' \in [Deliveries -> AsaType] /\ \A c \in Deliveries : Approves(asa'[c]) => HoldKey(asa'[c].auth) \in posted'
    BY <1>0, <2>1, <2>2 DEF HoldInv, Moved
  <2>4. /\ event' \in [Auths -> Decisions \cup {"NONE"}] /\ answers' \in [Auths -> SUBSET Results]
        /\ \A a \in Auths : (event'[a] = "APPROVED" \/ "APPROVED" \in answers'[a]) => HoldKey(a) \in posted'
    BY <1>0, <1>2, EventStep
  <2> QED
    BY <2>3, <2>4 DEF HoldInv
<1>3. ASSUME NEW d \in Deliveries, NEW b \in Auths, Deliver(d, b) PROVE HoldInv'
  <2>0. PICK pc \in {"lookup", "reply"} : asa' = [asa EXCEPT ![d] = [Idle EXCEPT !.pc = pc, !.auth = b]]
    BY <1>3 DEF Deliver
  <2> DEFINE r == [Idle EXCEPT !.pc = pc, !.auth = b]
  <2>1. r \in AsaType /\ ~Approves(r)
    BY IdleType DEF AsaType, Approves
  <2>2. asa' = [asa EXCEPT ![d] = r] /\ UNCHANGED <<event, answers>>
    BY <1>3, <2>0 DEF Deliver, network
  <2> HIDE DEF r
  <2>3. \A c \in Deliveries : asa'[c] = IF c = d THEN r ELSE asa[c]
    BY <2>2 DEF HoldInv
  <2> QED
    BY <1>0, <2>1, <2>2, <2>3 DEF HoldInv
<1>4. CASE Restart
  <2>1. asa' = [d \in Deliveries |-> Idle] /\ UNCHANGED <<event, answers>>
    BY <1>4 DEF Restart, network
  <2> HIDE DEF Idle, Approves
  <2> QED
    BY <1>0, <2>1, IdleType DEF HoldInv
<1> QED
  BY <1>1, <1>2, <1>3, <1>4, HandlerSteps

-----------------------------------------------------------------------------
(* Types of the rest.                                                      *)

LEMMA RowTypes ==
  /\ NoRow \in RowType
  /\ \A a \in Auths : \A fee \in Nat : PendingRow(a, fee) \in RowType
  /\ \A r \in RowType, e \in Events : Synced(r, e) \in RowType /\ Synced(r, e).status # "NONE"
<1>1. NoRow \in RowType
  BY DEF NoRow, RowType
<1>2. \A a \in Auths : \A fee \in Nat : PendingRow(a, fee) \in RowType
  BY Amounts DEF PendingRow, RowType, RowStatuses
<1>3. ASSUME NEW r \in RowType, NEW e \in Events PROVE Synced(r, e) \in RowType /\ Synced(r, e).status # "NONE"
  <2>1. e[1] \in Auths /\ e[2] \in Reports /\ Cleared[e[1]] \in Nat
    BY Amounts DEF Events
  <2>2. PICK known \in RowType : Synced(r, e) = [known EXCEPT !.status = MapStatus(e[2]),
                                                    !.settled = IF e[2] = "SETTLED" THEN Cleared[e[1]] ELSE @]
    BY <1>2, <2>1 DEF Synced
  <2>3. MapStatus(e[2]) \in RowStatuses
    BY <2>1 DEF MapStatus, Reports, RowStatuses
  <2>4. MapStatus(e[2]) # "NONE"
    BY <2>1 DEF MapStatus, Reports
  <2> QED
    BY <2>1, <2>2, <2>3, <2>4 DEF RowType
<1> QED
  BY <1>1, <1>2, <1>3

\* Every step leaves the rows alone or writes one.
LEMMA RowSteps ==
  ASSUME TypeOK, [Next]_vars
  PROVE  \/ UNCHANGED row
         \/ \E d \in Deliveries : /\ SaveRow(d)
                                  /\ row' = [row EXCEPT ![asa[d].auth] = PendingRow(asa[d].auth, asa[d].fee)]
         \/ \E e \in Events : UpsertRow(e) /\ row' = [row EXCEPT ![StoredToken[e[1]]] = Synced(@, e)]
         \/ SweepExpire /\ row' = [row EXCEPT ![sweep.token].status = "EXPIRED"]
<1>1. CASE UNCHANGED vars
  BY <1>1 DEF vars
<1>2. ASSUME NEW d \in Deliveries, AsaStep(d) \/ ReadFails(d) \/ HoldFails(d) \/ SaveRowFails(d) \/ RecordFails(d)
      PROVE  UNCHANGED row \/ /\ SaveRow(d)
                              /\ row' = [row EXCEPT ![asa[d].auth] = PendingRow(asa[d].auth, asa[d].fee)]
  BY <1>2 DEF AsaStep, Replay, NotOnRecord, Check, Hold, HoldFails, SaveRow, Record, Reply, ReadFails, SaveRowFails,
              RecordFails
<1>3. ASSUME NEW e \in Events, HookStep(e) \/ HookFails(e) \/ Lose(e) \/ AdminReplay(e)
      PROVE  UNCHANGED row \/ (UpsertRow(e) /\ row' = [row EXCEPT ![StoredToken[e[1]]] = Synced(@, e)])
  BY <1>3 DEF HookStep, SkipUnknownCard, ReadRow, UpsertRow, MoveMoney, HookFails, Lose, AdminReplay
<1>4. CASE SweepStep
  BY <1>4 DEF SweepStep, SweepKnown, SweepUnknown, SweepRelease, SweepExpire
<1>5. CASE Environment \/ Restart
  BY <1>5 DEF Environment, Swipe, TimeOut, Forget, Outcome, ChangeCard, Deliver, Restart
<1> QED
  BY <1>1, <1>2, <1>3, <1>4, <1>5 DEF Next

LEMMA RowStep ==
  ASSUME TypeOK, [Next]_vars
  PROVE  row' \in [Tokens -> RowType]
<1>0. row \in [Tokens -> RowType] /\ sweep.token \in Tokens
      /\ (\A d \in Deliveries : asa[d].auth \in Auths /\ asa[d].fee \in Nat) /\ \A e \in Events : e[1] \in Auths
  BY DEF TypeOK, Events
<1>1. ASSUME NEW r \in RowType PROVE [r EXCEPT !.status = "EXPIRED"] \in RowType
  BY DEF RowType, RowStatuses
<1>2. CASE SweepExpire /\ row' = [row EXCEPT ![sweep.token].status = "EXPIRED"]
  <2>1. row' = [row EXCEPT ![sweep.token] = [row[sweep.token] EXCEPT !.status = "EXPIRED"]]
    BY <1>2
  <2> QED
    BY <1>0, <1>1, <2>1
<1> HIDE DEF RowType, Synced, PendingRow
<1>3. ASSUME NEW e \in Events, row' = [row EXCEPT ![StoredToken[e[1]]] = Synced(@, e)]
      PROVE  row' \in [Tokens -> RowType]
  BY <1>0, <1>3, RowTypes, Amounts
<1>4. ASSUME NEW a \in Auths, NEW fee \in Nat, row' = [row EXCEPT ![a] = PendingRow(a, fee)] PROVE row' \in [Tokens -> RowType]
  BY <1>0, <1>4, RowTypes, Amounts
<1> QED
  BY <1>0, <1>2, <1>3, <1>4, RowSteps

-----------------------------------------------------------------------------
(* The provider and its webhooks.                                          *)

\* How a transaction goes on at the provider; it is only approved with a hold.
Goes(a) ==
  \/ provider'[a] = provider[a]
  \/ provider[a] = "none" /\ provider'[a] = "asked"
  \/ provider[a] = "asked" /\ provider'[a] \in {"DECLINED", "forgotten"}
  \/ provider[a] = "asked" /\ provider'[a] = "PENDING" /\ HoldKey(a) \in posted
  \/ provider[a] = "PENDING" /\ provider'[a] \in {"SETTLED", "VOIDED", "EXPIRED"}

\* A webhook is only about what the provider reached.
Webhooks ==
  /\ hook' \in [Events -> HookType]
  /\ \A e \in Events : hook'[e].at # "none" => hook[e].at # "none" \/ provider'[e[1]] = e[2]

ProviderType == {"none", "asked", "forgotten"} \cup Reports

LEMMA HookTypes == TypeOK => hook \in [Events -> HookType] /\ provider \in [Auths -> ProviderType]
  BY DEF TypeOK, HookType, ProviderType

LEMMA ReachEffect ==
  ASSUME TypeOK, NEW a \in Auths, NEW s \in Reports, Reach(a, s)
  PROVE  /\ provider' = [provider EXCEPT ![a] = s] /\ provider' \in [Auths -> ProviderType]
         /\ provider'[a] = s /\ \A b \in Auths \ {a} : provider'[b] = provider[b]
         /\ Webhooks
<1>1. provider' = [provider EXCEPT ![a] = s] /\ provider' \in [Auths -> ProviderType] /\ provider'[a] = s
      /\ \A b \in Auths \ {a} : provider'[b] = provider[b]
  BY HookTypes DEF Reach, ProviderType
<1>2. <<a, s>> \in Events /\ Sent \in HookType
  BY RowTypes DEF Events, Sent, HookType
<1>3. PICK h \in HookType : hook' = [hook EXCEPT ![<<a, s>>] = h]
  BY <1>2, HookTypes DEF Reach
<1>4. \A e \in Events : e # <<a, s>> => hook'[e] = hook[e]
  BY <1>3, HookTypes
<1>5. hook' \in [Events -> HookType]
  BY <1>2, <1>3, HookTypes
<1>6. <<a, s>>[1] = a /\ <<a, s>>[2] = s
  OBVIOUS
<1> QED
  BY <1>1, <1>4, <1>5, <1>6 DEF Webhooks

LEMMA ProviderStep ==
  ASSUME TypeOK, HoldInv, [Next]_vars
  PROVE  provider' \in [Auths -> ProviderType] /\ \A a \in Auths : Goes(a)
<1>0. provider \in [Auths -> ProviderType] /\ \A d \in Deliveries : asa[d].auth \in Auths
  BY HookTypes DEF HoldInv, AsaType
<1>1. ASSUME NEW a \in Auths, NEW s \in ProviderType, provider' = [provider EXCEPT ![a] = s]
      PROVE  provider' \in [Auths -> ProviderType] /\ provider'[a] = s
             /\ \A b \in Auths \ {a} : Goes(b)
  BY <1>0, <1>1 DEF Goes
<1>2. CASE UNCHANGED provider
  BY <1>0, <1>2 DEF Goes
<1>3. ASSUME NEW d \in Deliveries, Reply(d), provider' # provider
      PROVE  provider' \in [Auths -> ProviderType] /\ \A a \in Auths : Goes(a)
  <2>1. PICK a \in Auths : a = asa[d].auth
    BY <1>0
  <2>2. provider[a] = "asked" /\ Reach(a, IF asa[d].result = "APPROVED" THEN "PENDING" ELSE "DECLINED")
    BY <1>3, <2>1 DEF Reply
  <2>3. asa[d].result = "APPROVED" => HoldKey(a) \in posted
    BY <2>1 DEF HoldInv, Approves
  <2>4. PICK s \in {"PENDING", "DECLINED"} : Reach(a, s) /\ (s = "PENDING" => HoldKey(a) \in posted)
    BY <2>2, <2>3
  <2>5. provider' = [provider EXCEPT ![a] = s] /\ s \in ProviderType
    BY <2>4 DEF Reach, ProviderType, Reports
  <2> QED
    BY <1>1, <2>2, <2>4, <2>5 DEF Goes
<1>4. ASSUME NEW a \in Auths, Swipe(a) \/ TimeOut(a) \/ Forget(a)
      PROVE  provider' \in [Auths -> ProviderType] /\ \A b \in Auths : Goes(b)
  <2>1. PICK s \in {"asked", "DECLINED", "forgotten"} :
          /\ provider' = [provider EXCEPT ![a] = s]
          /\ \/ provider[a] = "none" /\ s = "asked"
             \/ provider[a] = "asked" /\ s \in {"DECLINED", "forgotten"}
    BY <1>4 DEF Swipe, TimeOut, Forget, Reach
  <2> QED
    BY <1>1, <2>1 DEF ProviderType, Reports, Goes
<1>5. ASSUME NEW a \in Auths, NEW s \in Reports, Outcome(a, s)
      PROVE  provider' \in [Auths -> ProviderType] /\ \A b \in Auths : Goes(b)
  BY <1>1, <1>5 DEF Outcome, Reach, ProviderType, Goes
<1>6. \/ UNCHANGED provider \/ \E d \in Deliveries : Reply(d)
      \/ \E a \in Auths : Swipe(a) \/ TimeOut(a) \/ Forget(a)
      \/ \E a \in Auths, s \in Reports : Outcome(a, s)
  <2>1. CASE UNCHANGED vars
    BY <2>1 DEF vars, network
  <2>2. ASSUME NEW d \in Deliveries, AsaStep(d) \/ ReadFails(d) \/ HoldFails(d) \/ SaveRowFails(d) \/ RecordFails(d)
        PROVE  UNCHANGED provider \/ Reply(d)
    BY <2>2 DEF AsaStep, Replay, NotOnRecord, Check, Hold, SaveRow, Record, ReadFails, HoldFails, SaveRowFails,
                RecordFails, network
  <2>3. ASSUME NEW e \in Events, HookStep(e) \/ HookFails(e) \/ Lose(e) \/ AdminReplay(e)
        PROVE  UNCHANGED provider
    BY <2>3 DEF HookStep, SkipUnknownCard, ReadRow, UpsertRow, MoveMoney, HookFails, Lose, AdminReplay, network
  <2>4. CASE SweepStep
    BY <2>4 DEF SweepStep, SweepKnown, SweepUnknown, SweepRelease, SweepExpire, network
  <2>5. CASE Environment \/ Restart
    BY <2>5 DEF Environment, ChangeCard, Deliver, Restart, network
  <2> QED
    BY <2>1, <2>2, <2>3, <2>4, <2>5 DEF Next
<1> HIDE DEF Goes
<1> QED
  BY <1>2, <1>3, <1>4, <1>5, <1>6

\* What a handler of webhooks does to its own.
Handles(e) == \E h \in HookType : hook' = [hook EXCEPT ![e] = h] /\ hook[e].at # "none"

LEMMA HookMoves ==
  ASSUME TypeOK, NEW e \in Events, HookStep(e) \/ HookFails(e) \/ Lose(e) \/ AdminReplay(e)
  PROVE  Handles(e)
<1>0. hook[e] \in HookType /\ row[StoredToken[e[1]]] \in RowType
  BY HookTypes, Amounts DEF TypeOK, Events
<1>1. ASSUME NEW at \in {"lost", "processed", "ledger"}, hook' = [hook EXCEPT ![e].at = at]
      PROVE  \E h \in HookType : hook' = [hook EXCEPT ![e] = h]
  <2> DEFINE h == [hook[e] EXCEPT !.at = at]
  <2>1. h \in HookType /\ hook' = [hook EXCEPT ![e] = h]
    BY <1>0, <1>1 DEF HookType
  <2> QED
    BY <2>1
<1>2. \A at \in {"sent", "processed", "failed"} : [at |-> at, found |-> NoRow] \in HookType
  BY RowTypes DEF HookType
<1>3. [at |-> "read", found |-> row[StoredToken[e[1]]]] \in HookType
  BY <1>0 DEF HookType
<1>4. CASE Lose(e) \/ SkipUnknownCard(e) \/ UpsertRow(e)
  <2>1. PICK at \in {"lost", "processed", "ledger"} : hook' = [hook EXCEPT ![e].at = at]
    BY <1>4 DEF Lose, SkipUnknownCard, UpsertRow
  <2> QED
    BY <1>1, <1>4, <2>1 DEF Lose, SkipUnknownCard, UpsertRow, Handles
<1>5. CASE MoveMoney(e) \/ HookFails(e) \/ AdminReplay(e)
  BY <1>2, <1>5 DEF MoveMoney, HookFails, AdminReplay, Handles, Busy, Sent
<1>6. CASE ReadRow(e)
  BY <1>3, <1>6 DEF ReadRow, Handles
<1> QED
  BY <1>4, <1>5, <1>6 DEF HookStep

LEMMA HookSources ==
  ASSUME HoldInv, [Next]_vars
  PROVE  \/ UNCHANGED hook \/ Restart \/ (\E a \in Auths, s \in Reports : Reach(a, s))
         \/ \E e \in Events : HookStep(e) \/ HookFails(e) \/ Lose(e) \/ AdminReplay(e)
<1>1. CASE UNCHANGED vars
  BY <1>1 DEF vars
<1>2. ASSUME NEW d \in Deliveries, AsaStep(d) \/ ReadFails(d) \/ HoldFails(d) \/ SaveRowFails(d) \/ RecordFails(d)
      PROVE  UNCHANGED hook \/ Reply(d)
  BY <1>2 DEF AsaStep, Replay, NotOnRecord, Check, Hold, SaveRow, Record, ReadFails, HoldFails, SaveRowFails,
              RecordFails
<1>3. ASSUME NEW d \in Deliveries, Reply(d) PROVE UNCHANGED hook \/ \E a \in Auths, s \in Reports : Reach(a, s)
  BY <1>3 DEF Reply, HoldInv, AsaType, Reports
<1>4. CASE SweepStep
  BY <1>4 DEF SweepStep, SweepKnown, SweepUnknown, SweepRelease, SweepExpire
<1>5. CASE Environment
  BY <1>5 DEF Environment, Swipe, TimeOut, Forget, Outcome, ChangeCard, Deliver, Reports
<1> QED
  BY <1>1, <1>2, <1>3, <1>4, <1>5 DEF Next

LEMMA WebhookStep ==
  ASSUME TypeOK, HoldInv, [Next]_vars
  PROVE  Webhooks
<1>0. hook \in [Events -> HookType]
  BY HookTypes
<1>1. CASE UNCHANGED hook
  BY <1>0, <1>1 DEF Webhooks
<1>2. ASSUME NEW e \in Events, HookStep(e) \/ HookFails(e) \/ Lose(e) \/ AdminReplay(e) PROVE Webhooks
  BY <1>0, <1>2, HookMoves DEF Handles, Webhooks
<1>3. ASSUME NEW a \in Auths, NEW s \in Reports, Reach(a, s) PROVE Webhooks
  BY <1>3, ReachEffect
<1>4. CASE Restart
  <2>1. hook' = [e \in Events |-> IF hook[e].at \in Busy THEN [at |-> "stuck", found |-> NoRow] ELSE hook[e]]
    BY <1>4 DEF Restart
  <2>2. [at |-> "stuck", found |-> NoRow] \in HookType
    BY RowTypes DEF HookType
  <2>3. \A e \in Events : hook'[e] \in HookType
    BY <1>0, <2>1, <2>2
  <2>4. \A e \in Events : hook'[e].at # "none" => hook[e].at # "none"
    BY <2>1 DEF Busy
  <2> QED
    BY <2>1, <2>3, <2>4 DEF Webhooks
<1> QED
  BY <1>1, <1>2, <1>3, <1>4, HookSources

\* The card, the sweep and the counters.
LEMMA RestStep ==
  ASSUME TypeOK, [Next]_vars
  PROVE  /\ card' \in CardStatuses /\ resolved' \subseteq Tokens /\ faults' \in 0..MaxFaults
         /\ sweep' \in [at : {"idle", "release", "expire"}, token : Tokens, found : RowType]
<1> DEFINE SweepType == [at : {"idle", "release", "expire"}, token : Tokens, found : RowType]
<1>0. /\ card \in CardStatuses /\ resolved \subseteq Tokens /\ faults \in 0..MaxFaults /\ MaxFaults \in Nat
      /\ sweep \in SweepType /\ row \in [Tokens -> RowType]
  BY CardAssumption DEF TypeOK
<1>1. NotSweeping \in SweepType
  <2>1. (CHOOSE t \in Tokens : TRUE) \in Tokens
    BY CardAssumption DEF Tokens
  <2> QED
    BY <2>1, RowTypes DEF NotSweeping
<1>2. \A kind : Fault(kind) => faults' \in 0..MaxFaults
  BY <1>0 DEF Fault
<1> DEFINE Rest == card' \in CardStatuses /\ resolved' \subseteq Tokens /\ faults' \in 0..MaxFaults /\ sweep' \in SweepType
<1>3. CASE UNCHANGED vars
  BY <1>0, <1>3 DEF vars, sweeper
<1>4. ASSUME NEW d \in Deliveries, AsaStep(d) \/ ReadFails(d) \/ HoldFails(d) \/ SaveRowFails(d) \/ RecordFails(d)
      PROVE  Rest
  <2>1. UNCHANGED <<card, sweep, resolved>> /\ (UNCHANGED faults \/ \E kind : Fault(kind))
    BY <1>4 DEF AsaStep, Replay, NotOnRecord, Check, Hold, SaveRow, Record, Reply, ReadFails, HoldFails, SaveRowFails,
                RecordFails, sweeper
  <2> QED
    BY <1>0, <1>2, <2>1
<1>5. ASSUME NEW e \in Events, HookStep(e) \/ HookFails(e) \/ Lose(e) \/ AdminReplay(e)
      PROVE  Rest
  <2>1. UNCHANGED <<card, sweep, resolved>> /\ (UNCHANGED faults \/ \E kind : Fault(kind))
    BY <1>5 DEF HookStep, SkipUnknownCard, ReadRow, UpsertRow, MoveMoney, HookFails, Lose, AdminReplay, sweeper
  <2> QED
    BY <1>0, <1>2, <2>1
<1>6. CASE SweepStep
  <2>1. ASSUME NEW t \in Tokens, SweepKnown(t) PROVE Rest
    BY <1>0, <2>1 DEF SweepKnown
  <2>2. ASSUME NEW t \in Tokens, SweepUnknown(t) PROVE Rest
    <3>1. UNCHANGED <<card, resolved>> /\ (UNCHANGED faults \/ Fault("outage"))
          /\ sweep' = [at |-> "release", token |-> t, found |-> row[t]]
      BY <2>2, Zenon DEF SweepUnknown
    <3> QED
      BY <1>0, <1>2, <3>1
  <2>3. CASE SweepRelease
    <3>1. UNCHANGED <<card, resolved, faults>> /\ sweep' = [sweep EXCEPT !.at = "expire"]
      BY <2>3 DEF SweepRelease
    <3> QED
      BY <1>0, <3>1
  <2>4. ASSUME SweepExpire PROVE Rest
    <3>1. UNCHANGED <<card, resolved, faults>> /\ sweep' = NotSweeping
      BY <2>4 DEF SweepExpire
    <3> HIDE DEF SweepType
    <3> QED
      BY <1>0, <1>1, <3>1
  <2> QED
    BY <1>6, <2>1, <2>2, <2>3, <2>4 DEF SweepStep
<1>7. CASE Environment
  <2>1. UNCHANGED <<sweep, resolved>> /\ (UNCHANGED faults \/ \E kind : Fault(kind))
        /\ (UNCHANGED card \/ \E s \in {"ACTIVE", "FROZEN", "CLOSED"} : card' = s)
    BY <1>7 DEF Environment, Swipe, TimeOut, Forget, Outcome, ChangeCard, Deliver, sweeper
  <2> QED
    BY <1>0, <1>2, <2>1 DEF CardStatuses
<1>8. ASSUME Restart PROVE Rest
  <2>1. UNCHANGED <<card, resolved>> /\ Fault("crash") /\ sweep' = NotSweeping
    BY <1>8 DEF Restart
  <2> HIDE DEF SweepType
  <2> QED
    BY <1>0, <1>1, <1>2, <2>1
<1> QED
  BY <1>3, <1>4, <1>5, <1>6, <1>7, <1>8 DEF Next

\* What becomes of the tokens the sweep misjudges, and of what is drawn.
LEMMA StraySteps ==
  ASSUME [Next]_vars
  PROVE  \/ UNCHANGED <<misjudged, drawn>>
         \/ \E t \in Tokens : /\ SweepUnknown(t) /\ ~Unknown(t) /\ UNCHANGED <<posted, drawn>>
                              /\ misjudged' = misjudged \cup {t}
         \/ UNCHANGED misjudged /\ \E e \in Events : MoveMoney(e)
         \/ UNCHANGED misjudged /\ SweepRelease
<1>1. CASE UNCHANGED vars
  BY <1>1 DEF vars, strays
<1>2. ASSUME NEW d \in Deliveries, AsaStep(d) \/ ReadFails(d) \/ HoldFails(d) \/ SaveRowFails(d) \/ RecordFails(d)
      PROVE  UNCHANGED <<misjudged, drawn>>
  BY <1>2 DEF AsaStep, Replay, NotOnRecord, Check, Hold, SaveRow, Record, Reply, ReadFails, HoldFails, SaveRowFails,
              RecordFails, strays
<1>3. ASSUME NEW e \in Events, HookStep(e) \/ HookFails(e) \/ Lose(e) \/ AdminReplay(e)
      PROVE  UNCHANGED <<misjudged, drawn>> \/ (UNCHANGED misjudged /\ MoveMoney(e))
  BY <1>3 DEF HookStep, SkipUnknownCard, ReadRow, UpsertRow, MoveMoney, TakeOut, HookFails, Lose, AdminReplay, strays
<1>4. ASSUME NEW t \in Tokens, SweepKnown(t) \/ SweepUnknown(t)
      PROVE  \/ UNCHANGED <<misjudged, drawn>>
             \/ /\ SweepUnknown(t) /\ ~Unknown(t) /\ UNCHANGED <<posted, drawn>>
                /\ misjudged' = misjudged \cup {t}
  BY <1>4 DEF SweepKnown, SweepUnknown, strays, money
<1>5. CASE SweepExpire
  BY <1>5 DEF SweepExpire, strays
<1>6. SweepRelease => UNCHANGED misjudged
  BY DEF SweepRelease, TakeOut
<1>7. CASE Environment \/ Restart
  BY <1>7 DEF Environment, Swipe, TimeOut, Forget, Outcome, ChangeCard, Deliver, Restart, strays
<1> QED
  BY <1>1, <1>2, <1>3, <1>4, <1>5, <1>6, <1>7 DEF Next, SweepStep

LEMMA StrayStep ==
  ASSUME TypeOK, [Next]_vars
  PROVE  misjudged' \subseteq Auths /\ misjudged \subseteq misjudged' /\ drawn' \in Int
<1>1. misjudged \subseteq Auths /\ drawn \in Int /\ bal["held"] \in Int
  BY DEF TypeOK, Accounts
<1>2. bal'["held"] \in Int
  BY MoneyStep DEF Accounts
<1>3. ASSUME NEW e \in Events, MoveMoney(e) PROVE drawn' \in {drawn, drawn + (bal["held"] - bal'["held"])}
  BY <1>3 DEF MoveMoney, TakeOut, strays
<1>4. SweepRelease => drawn' \in {drawn, drawn + (bal["held"] - bal'["held"])}
  BY DEF SweepRelease, TakeOut
<1>5. drawn' \in Int
  BY <1>1, <1>2, <1>3, <1>4, StraySteps
<1>6. \A t : ~Unknown(t) => t \in Auths
  BY DEF Unknown
<1> QED
  BY <1>1, <1>5, <1>6, StraySteps

-----------------------------------------------------------------------------
(* Type correctness, and the money behind an approval.                     *)

LEMMA TypeStep ==
  ASSUME TypeOK, HoldInv, [Next]_vars
  PROVE  TypeOK'
<1>1. /\ bal' \in [Accounts -> Int] /\ taken' \in [Auths -> Nat]
      /\ posted' \subseteq {"auth", "settle", "release", "release:stale"} \X Tokens
  BY MoneyStep
<1>2. HoldInv'
  BY HoldStep
<1>3. /\ event' \in [Auths -> Decisions \cup {"NONE"}] /\ answers' \in [Auths -> SUBSET Results]
      /\ asa' \in [Deliveries -> AsaType]
  BY <1>2 DEF HoldInv
<1>4. row' \in [Tokens -> RowType]
  BY RowStep
<1>5. provider' \in [Auths -> ProviderType]
  BY ProviderStep
<1>6. hook' \in [Events -> HookType]
  BY WebhookStep DEF Webhooks
<1>7. /\ card' \in CardStatuses /\ resolved' \subseteq Tokens /\ faults' \in 0..MaxFaults
      /\ sweep' \in [at : {"idle", "release", "expire"}, token : Tokens, found : RowType]
  BY RestStep
<1>8. misjudged' \subseteq Auths /\ drawn' \in Int
  BY StrayStep
<1> QED
  BY <1>1, <1>3, <1>4, <1>5, <1>6, <1>7, <1>8 DEF TypeOK, AsaType, ProviderType, HookType

LEMMA InitHolds == Init => TypeOK /\ HoldInv
<1> SUFFICES ASSUME Init PROVE TypeOK /\ HoldInv
  OBVIOUS
<1>1. bal \in [Accounts -> Int]
  BY CardAssumption DEF Init, NoBalance, Accounts
<1>2. card \in CardStatuses
  BY CardAssumption DEF Init, CardStatuses
<1>3. asa \in [Deliveries -> AsaType] /\ \A d \in Deliveries : ~Approves(asa[d])
  <2> HIDE DEF Idle, Approves
  <2> QED
    BY IdleType DEF Init
<1>4. sweep \in [at : {"idle", "release", "expire"}, token : Tokens, found : RowType]
  <2>1. (CHOOSE t \in Tokens : TRUE) \in Tokens
    BY CardAssumption DEF Tokens
  <2> QED
    BY <2>1, RowTypes DEF Init, NotSweeping
<1>5. row \in [Tokens -> RowType] /\ hook \in [Events -> HookType]
  BY RowTypes DEF Init, HookType
<1>6. /\ posted = {} /\ taken \in [Auths -> Nat] /\ event \in [Auths -> Decisions \cup {"NONE"}] /\ provider \in [Auths -> ProviderType]
      /\ answers \in [Auths -> SUBSET Results] /\ resolved \subseteq Tokens /\ faults \in 0..MaxFaults
      /\ misjudged = {} /\ drawn = 0
      /\ \A a \in Auths : event[a] = "NONE" /\ answers[a] = {}
  BY CardAssumption DEF Init, ProviderType
<1> QED
  BY <1>1, <1>2, <1>3, <1>4, <1>5, <1>6 DEF TypeOK, HoldInv, AsaType, ProviderType, HookType

\* Every variable keeps its type, whatever the handlers of the decisions, the
\* webhooks and the sweep do to each other.
THEOREM TypeCorrect == Spec => []TypeOK
<1>1. Init => TypeOK /\ HoldInv
  BY InitHolds
<1>2. (TypeOK /\ HoldInv) /\ [Next]_vars => (TypeOK /\ HoldInv)'
  BY TypeStep, HoldStep
<1> QED
  BY <1>1, <1>2, PTL DEF Spec

\* An APPROVED answer has the hold in the ledger behind it, for any number of
\* requests, failures and replays.
THEOREM ApprovedHasHoldCorrect == Spec => []ApprovedHasHold
<1>1. Init => TypeOK /\ HoldInv
  BY InitHolds
<1>2. (TypeOK /\ HoldInv) /\ [Next]_vars => (TypeOK /\ HoldInv)'
  BY TypeStep, HoldStep
<1>3. HoldInv => ApprovedHasHold
  BY DEF HoldInv, ApprovedHasHold
<1> QED
  BY <1>1, <1>2, <1>3, PTL DEF Spec

-----------------------------------------------------------------------------
(* The contract of a hold.  A settlement, a release and the sweep follow   *)
(* the provider, which ends a transaction once, or the sweep misjudges it. *)

Approved(a) == provider[a] \in {"PENDING", "SETTLED", "VOIDED", "EXPIRED"}

\* The sweep gives a up: the provider has forgotten it, or could not be asked.
Given(a) == provider[a] = "forgotten" \/ a \in misjudged

KeysInv ==
  \A a \in Auths :
    /\ Approved(a) => HoldKey(a) \in posted
    /\ SettleKey(a) \in posted => provider[a] = "SETTLED"
    /\ ReleaseKey(a) \in posted =>
         provider[a] \in {"VOIDED", "EXPIRED", "DECLINED"} /\ HoldKey(a) \in posted
    /\ StaleKey(a) \in posted => Given(a) /\ HoldKey(a) \in posted

\* A webhook is about a state the provider reached and, but for PENDING, is in.
HooksInv ==
  \A e \in Events : hook[e].at # "none" =>
    /\ e[2] = "PENDING" => Approved(e[1])
    /\ e[2] # "PENDING" => provider[e[1]] = e[2]

\* A pending row has a hold behind it, and so has what is misjudged.
RowsInv == \A a \in Auths : (row[a].status = "PENDING" \/ a \in misjudged) => HoldKey(a) \in posted

SweepInv == sweep.at # "idle" /\ sweep.token \in Auths =>
  Given(sweep.token) /\ HoldKey(sweep.token) \in posted

ContractInv == KeysInv /\ HooksInv /\ RowsInv /\ SweepInv

LEMMA StoredTokens ==
  \A e \in Events : /\ e[1] \in Auths /\ e[2] \in Reports /\ StoredToken[e[1]] \in Tokens
                    /\ StoredToken[e[1]] \in Auths => StoredToken[e[1]] = e[1]
  BY CardAssumption, Amounts DEF Events

LEMMA KeySteps ==
  ASSUME TypeOK, HoldInv, ContractInv, [Next]_vars
  PROVE  \/ UNCHANGED posted
         \/ \E a \in Auths : Posts("auth", a)
         \/ \E t \in Tokens : Posts("settle", t) /\ (t \in Auths => provider[t] = "SETTLED")
         \/ \E t \in Tokens : /\ Posts("release", t)
                              /\ t \in Auths => /\ HoldKey(t) \in posted
                                                /\ provider[t] \in {"VOIDED", "EXPIRED", "DECLINED"}
         \/ \E t \in Tokens : /\ Posts("release:stale", t)
                              /\ t \in Auths => HoldKey(t) \in posted /\ Given(t)
<1>1. ASSUME NEW d \in Deliveries, Hold(d) \/ HoldFails(d)
      PROVE  UNCHANGED posted \/ \E a \in Auths : Posts("auth", a)
  BY <1>1, HoldEffect
<1>2. ASSUME NEW e \in Events, MoveMoney(e)
      PROVE  \/ UNCHANGED posted
             \/ \E t \in Tokens : Posts("settle", t) /\ (t \in Auths => provider[t] = "SETTLED")
             \/ \E t \in Tokens : /\ Posts("release", t)
                                  /\ t \in Auths => /\ HoldKey(t) \in posted
                                                    /\ provider[t] \in {"VOIDED", "EXPIRED", "DECLINED"}
  <2>1. /\ StoredToken[e[1]] \in Tokens
        /\ StoredToken[e[1]] \in Auths => StoredToken[e[1]] = e[1]
    BY StoredTokens
  <2>2. hook[e].at # "none"
    BY <1>2 DEF MoveMoney
  <2>3. e[2] # "PENDING" => provider[e[1]] = e[2]
    BY <2>2 DEF ContractInv, HooksInv
  <2> QED
    BY <1>2, <2>1, <2>3, MoveMoneyEffect
<1>3. SweepRelease => \E t \in Tokens : /\ Posts("release:stale", t)
                                        /\ t \in Auths => HoldKey(t) \in posted /\ Given(t)
  <2>1. sweep.token \in Tokens
    BY DEF TypeOK
  <2>2. SweepRelease => sweep.at # "idle"
    BY DEF SweepRelease
  <2> QED
    BY <2>1, <2>2, SweepReleaseEffect DEF ContractInv, SweepInv
<1> QED
  BY <1>1, <1>2, <1>3, MoneySteps

LEMMA NewKey ==
  ASSUME NEW kind, NEW a, Posts(kind, a)
  PROVE  \A k : k \in posted' => k \in posted \/ k = <<kind, a>>
  BY DEF Posts

LEMMA KeysDiffer ==
  \A a, b : /\ HoldKey(a) # SettleKey(b) /\ HoldKey(a) # ReleaseKey(b) /\ HoldKey(a) # StaleKey(b)
            /\ SettleKey(a) # ReleaseKey(b) /\ SettleKey(a) # StaleKey(b) /\ ReleaseKey(a) # StaleKey(b)
            /\ HoldKey(a) = HoldKey(b) => a = b
            /\ SettleKey(a) = SettleKey(b) => a = b
            /\ ReleaseKey(a) = ReleaseKey(b) => a = b
            /\ StaleKey(a) = StaleKey(b) => a = b
  BY DEF HoldKey, SettleKey, ReleaseKey, StaleKey

LEMMA GivenStays ==
  ASSUME TypeOK, HoldInv, [Next]_vars, NEW a \in Auths, Given(a)
  PROVE  Given(a)'
BY ProviderStep, StrayStep DEF Given, Goes

LEMMA KeysStep ==
  ASSUME TypeOK, HoldInv, ContractInv, [Next]_vars
  PROVE  KeysInv' /\ HooksInv'
<1>1. posted \subseteq posted' /\ \A a \in Auths : Goes(a)
  BY MoneyStep, ProviderStep
<1>2. \A a \in Auths : Approved(a)' => HoldKey(a) \in posted'
  BY <1>1 DEF ContractInv, KeysInv, Approved, Goes, HoldKey
<1> DEFINE Follows(a) ==
      /\ SettleKey(a) \in posted' => provider[a] = "SETTLED"
      /\ ReleaseKey(a) \in posted' => provider[a] \in {"VOIDED", "EXPIRED", "DECLINED"} /\ HoldKey(a) \in posted
      /\ StaleKey(a) \in posted' => Given(a) /\ HoldKey(a) \in posted
<1>3. \A a \in Auths : Follows(a)
  <2>1. \A a \in Auths :
          /\ SettleKey(a) \in posted => provider[a] = "SETTLED"
          /\ ReleaseKey(a) \in posted => provider[a] \in {"VOIDED", "EXPIRED", "DECLINED"} /\ HoldKey(a) \in posted
          /\ StaleKey(a) \in posted => Given(a) /\ HoldKey(a) \in posted
    BY DEF ContractInv, KeysInv
  <2>2. CASE UNCHANGED posted
    BY <2>1, <2>2
  <2>6. ASSUME NEW b \in Auths, Posts("auth", b) PROVE \A a \in Auths : Follows(a)
    <3>1. \A k : k \in posted' => k \in posted \/ k = HoldKey(b)
      BY <2>6, NewKey DEF HoldKey
    <3> QED
      BY <2>1, <3>1, KeysDiffer
  <2>3. ASSUME NEW t \in Tokens, Posts("settle", t), t \in Auths => provider[t] = "SETTLED"
        PROVE  \A a \in Auths : Follows(a)
    <3>1. \A k : k \in posted' => k \in posted \/ k = SettleKey(t)
      BY <2>3, NewKey DEF SettleKey
    <3> QED
      BY <2>1, <2>3, <3>1, KeysDiffer
  <2>4. ASSUME NEW t \in Tokens, Posts("release", t),
               t \in Auths => HoldKey(t) \in posted /\ provider[t] \in {"VOIDED", "EXPIRED", "DECLINED"}
        PROVE  \A a \in Auths : Follows(a)
    <3>1. \A k : k \in posted' => k \in posted \/ k = ReleaseKey(t)
      BY <2>4, NewKey DEF ReleaseKey
    <3> QED
      BY <2>1, <2>4, <3>1, KeysDiffer
  <2>5. ASSUME NEW t \in Tokens, Posts("release:stale", t), t \in Auths => HoldKey(t) \in posted /\ Given(t)
        PROVE  \A a \in Auths : Follows(a)
    <3>1. \A k : k \in posted' => k \in posted \/ k = StaleKey(t)
      BY <2>5, NewKey DEF StaleKey
    <3> QED
      BY <2>1, <2>5, <3>1, KeysDiffer
  <2> HIDE DEF Follows
  <2> QED
    BY <2>2, <2>3, <2>4, <2>5, <2>6, KeySteps
<1>4. KeysInv'
  <2>1. ASSUME NEW a \in Auths
        PROVE  /\ provider[a] \in {"SETTLED", "VOIDED", "EXPIRED", "DECLINED", "forgotten"} => provider'[a] = provider[a]
               /\ HoldKey(a) \in posted => HoldKey(a) \in posted'
               /\ Given(a) => Given(a)'
    BY <1>1, GivenStays DEF Goes
  <2>2. \A a \in Auths :
          /\ SettleKey(a) \in posted' => provider'[a] = "SETTLED"
          /\ ReleaseKey(a) \in posted' =>
               provider'[a] \in {"VOIDED", "EXPIRED", "DECLINED"} /\ HoldKey(a) \in posted'
          /\ StaleKey(a) \in posted' => Given(a)' /\ HoldKey(a) \in posted'
    BY <1>3, <2>1
  <2> HIDE DEF Follows
  <2> QED
    BY <1>2, <2>2 DEF KeysInv, Approved, HoldKey, SettleKey, ReleaseKey, StaleKey
<1>5. ASSUME NEW e \in Events, hook'[e].at # "none"
      PROVE  /\ e[2] = "PENDING" => Approved(e[1])'
             /\ e[2] # "PENDING" => provider'[e[1]] = e[2]
  <2>1. e[1] \in Auths /\ e[2] \in Reports
    BY DEF Events
  <2>2. CASE hook[e].at # "none"
    BY <1>1, <2>1, <2>2 DEF ContractInv, HooksInv, Approved, Goes, Reports
  <2>3. CASE provider'[e[1]] = e[2]
    BY <2>3 DEF Approved
  <2> QED
    BY <1>5, <2>2, <2>3, WebhookStep DEF Webhooks
<1> QED
  BY <1>4, <1>5 DEF HooksInv

LEMMA RowsStep ==
  ASSUME TypeOK, HoldInv, ContractInv, [Next]_vars
  PROVE  RowsInv'
<1>0. row \in [Tokens -> RowType] /\ sweep.token \in Tokens /\ Auths \subseteq Tokens
  BY Amounts DEF TypeOK
<1>1. posted \subseteq posted'
  BY MoneyStep
\* What is misjudged now had a pending row.
<1>2. \A a \in misjudged' \cap Auths : HoldKey(a) \in posted'
  <2>1. \A a \in misjudged \cap Auths : HoldKey(a) \in posted
    BY DEF ContractInv, RowsInv
  <2>2. ASSUME NEW t \in Tokens, SweepUnknown(t), ~Unknown(t) PROVE HoldKey(t) \in posted
    BY <2>2 DEF SweepUnknown, Stale, Unknown, ContractInv, RowsInv
  <2> QED
    BY <1>1, <2>1, <2>2, StraySteps
<1>3. ASSUME NEW a \in Auths, row'[a].status = "PENDING" PROVE HoldKey(a) \in posted'
  <2>1. row[a].status = "PENDING" => HoldKey(a) \in posted
    BY DEF ContractInv, RowsInv
  <2>2. CASE UNCHANGED row
    BY <1>1, <1>3, <2>1, <2>2
  <2>3. ASSUME NEW d \in Deliveries, SaveRow(d),
               row' = [row EXCEPT ![asa[d].auth] = PendingRow(asa[d].auth, asa[d].fee)]
        PROVE  HoldKey(a) \in posted'
    <3>1. HoldKey(asa[d].auth) \in posted
      BY <2>3 DEF SaveRow, Decide, HoldInv, AsaType, Approves
    <3>2. a = asa[d].auth \/ row'[a] = row[a]
      BY <1>0, <2>3
    <3> QED
      BY <1>1, <1>3, <2>1, <3>1, <3>2
  <2>4. ASSUME NEW e \in Events, UpsertRow(e), row' = [row EXCEPT ![StoredToken[e[1]]] = Synced(@, e)]
        PROVE  HoldKey(a) \in posted'
    <3>1. hook[e].at # "none"
      BY <2>4 DEF UpsertRow
    <3>2. CASE a = StoredToken[e[1]]
      <4>1. a = e[1] /\ e[2] \in Reports
        BY <3>2, StoredTokens
      <4>2. row'[a] = Synced(row[a], e) /\ row[a] \in RowType
        BY <1>0, <2>4, <3>2
      <4>3. Synced(row[a], e).status = MapStatus(e[2])
        <5>1. PICK known \in RowType : Synced(row[a], e) = [known EXCEPT !.status = MapStatus(e[2]),
                                                          !.settled = IF e[2] = "SETTLED" THEN Cleared[e[1]] ELSE @]
          BY <4>1, <4>2, RowTypes DEF Synced
        <5> QED
          BY <5>1 DEF RowType
      <4>4. e[2] = "PENDING"
        BY <1>3, <4>1, <4>2, <4>3 DEF MapStatus, Reports
      <4> QED
        BY <1>1, <3>1, <4>1, <4>4 DEF ContractInv, HooksInv, KeysInv
    <3>3. CASE a # StoredToken[e[1]]
      <4>1. row'[a] = row[a]
        BY <1>0, <2>4, <3>3
      <4> QED
        BY <1>1, <1>3, <2>1, <4>1
    <3> QED
      BY <3>2, <3>3
  <2>5. ASSUME row' = [row EXCEPT ![sweep.token].status = "EXPIRED"] PROVE HoldKey(a) \in posted'
    <3>1. row'[a] = row[a] \/ row'[a] = [row[a] EXCEPT !.status = "EXPIRED"]
      BY <1>0, <2>5
    <3>2. row[a] \in RowType
      BY <1>0
    <3>3. [row[a] EXCEPT !.status = "EXPIRED"].status = "EXPIRED"
      BY <3>2 DEF RowType
    <3> QED
      BY <1>1, <1>3, <2>1, <3>1, <3>3
  <2> QED
    BY <2>2, <2>3, <2>4, <2>5, RowSteps
<1> QED
  BY <1>2, <1>3 DEF RowsInv, HoldKey

LEMMA SweepSources ==
  ASSUME [Next]_vars
  PROVE  \/ UNCHANGED sweep \/ SweepRelease \/ sweep' = NotSweeping
         \/ \E t \in Tokens : SweepUnknown(t)
<1>1. CASE UNCHANGED vars
  BY <1>1 DEF vars, sweeper
<1>2. ASSUME NEW d \in Deliveries, AsaStep(d) \/ ReadFails(d) \/ HoldFails(d) \/ SaveRowFails(d) \/ RecordFails(d)
      PROVE  UNCHANGED sweep
  BY <1>2 DEF AsaStep, Replay, NotOnRecord, Check, Hold, SaveRow, Record, Reply, ReadFails, HoldFails, SaveRowFails,
              RecordFails, sweeper
<1>3. ASSUME NEW e \in Events, HookStep(e) \/ HookFails(e) \/ Lose(e) \/ AdminReplay(e)
      PROVE  UNCHANGED sweep
  BY <1>3 DEF HookStep, SkipUnknownCard, ReadRow, UpsertRow, MoveMoney, HookFails, Lose, AdminReplay, sweeper
<1>4. CASE SweepStep
  BY <1>4, Zenon DEF SweepStep, SweepKnown, SweepExpire
<1>5. CASE Environment
  BY <1>5 DEF Environment, Swipe, TimeOut, Forget, Outcome, ChangeCard, Deliver, sweeper
<1>6. CASE Restart
  BY <1>6 DEF Restart
<1> QED
  BY <1>1, <1>2, <1>3, <1>4, <1>5, <1>6 DEF Next

LEMMA SweepingStep ==
  ASSUME TypeOK, HoldInv, ContractInv, [Next]_vars
  PROVE  SweepInv'
<1>1. posted \subseteq posted'
  BY MoneyStep
<1>2. ASSUME sweep.at # "idle", sweep'.token = sweep.token PROVE SweepInv'
  <2> SUFFICES ASSUME sweep.token \in Auths
               PROVE  Given(sweep.token)' /\ HoldKey(sweep.token) \in posted'
    BY <1>2 DEF SweepInv, Given, HoldKey
  <2>1. Given(sweep.token) /\ HoldKey(sweep.token) \in posted
    BY <1>2 DEF ContractInv, SweepInv
  <2>2. \A a \in Auths : Given(a) => provider'[a] = "forgotten" \/ a \in misjudged'
    BY GivenStays DEF Given
  <2> QED
    BY <1>1, <1>2, <2>1, <2>2 DEF Given
<1>3. CASE UNCHANGED sweep
  BY <1>2, <1>3 DEF SweepInv, Given
<1>4. ASSUME NEW t \in Tokens, SweepUnknown(t) PROVE SweepInv'
  <2>1. sweep' = [at |-> "release", token |-> t, found |-> row[t]] /\ row[t].status = "PENDING"
        /\ (Unknown(t) \/ misjudged' = misjudged \cup {t})
    BY <1>4 DEF SweepUnknown, Stale
  <2> SUFFICES ASSUME t \in Auths PROVE Given(t)' /\ HoldKey(t) \in posted'
    BY <2>1 DEF SweepInv, Given, HoldKey
  <2>2. HoldKey(t) \in posted
    BY <2>1 DEF ContractInv, RowsInv
  <2>3. provider' = provider
    BY <1>4 DEF SweepUnknown, network
  <2> QED
    BY <1>1, <2>1, <2>2, <2>3 DEF Given, Unknown
<1>5. CASE SweepRelease
  <2>1. sweep.at # "idle" /\ sweep' = [sweep EXCEPT !.at = "expire"]
    BY <1>5 DEF SweepRelease
  <2>2. sweep'.token = sweep.token
    BY <2>1 DEF TypeOK
  <2> QED
    BY <1>2, <2>1, <2>2
<1>6. CASE sweep' = NotSweeping
  BY <1>6 DEF SweepInv, NotSweeping
<1> QED
  BY <1>3, <1>4, <1>5, <1>6, SweepSources

\* Where a hold is, from the keys about it.
LEMMA HoldStates ==
  ASSUME ContractInv, NEW a \in Auths
  PROVE  /\ HoldKey(a) \notin posted => HoldOf[a] = "none"
         /\ a \notin misjudged /\ Outstanding(a) => HoldOf[a] = "placed"
         /\ a \notin misjudged /\ SettleKey(a) \in posted => HoldOf[a] = "captured" /\ HoldKey(a) \in posted
         /\ a \notin misjudged /\ (ReleaseKey(a) \in posted \/ StaleKey(a) \in posted)
              => HoldOf[a] = "returned" /\ HoldKey(a) \in posted
         /\ a \in misjudged => HoldOf[a] = "disputed" /\ HoldKey(a) \in posted
  BY DEF ContractInv, KeysInv, RowsInv, HoldOf, Captured, Returned, Outstanding, Approved, Given

LEMMA ContractStep ==
  ASSUME TypeOK, HoldInv, ContractInv, [Next]_vars
  PROVE  [Contract!Next]_HoldOf
<1>0. KeysInv /\ KeysInv' /\ posted \subseteq posted'
  BY KeysStep, MoneyStep DEF ContractInv
<1>1. HoldOf = [a \in Auths |-> HoldOf[a]] /\ HoldOf' = [a \in Auths |-> HoldOf'[a]]
  BY DEF HoldOf
<1>2. ASSUME NEW a \in Auths, NEW to, HoldOf'[a] = to, \A b \in Auths \ {a} : HoldOf'[b] = HoldOf[b]
      PROVE  HoldOf' = [HoldOf EXCEPT ![a] = to]
  <2> DEFINE new == HoldOf'  old == HoldOf
  <2>1. new = [b \in Auths |-> new[b]] /\ old = [b \in Auths |-> old[b]] /\ new[a] = to
        /\ \A b \in Auths \ {a} : new[b] = old[b]
    BY <1>1, <1>2
  <2> HIDE DEF new, old
  <2>2. new = [old EXCEPT ![a] = to]
    BY <2>1
  <2> QED
    BY <2>2 DEF new, old
<1>3. ASSUME NEW a \in Tokens, NEW kind \in {"auth", "settle", "release", "release:stale"}, Posts(kind, a), UNCHANGED misjudged
      PROVE  \A b \in Auths \ {a} : HoldOf'[b] = HoldOf[b]
  <2>1. \A k : k # <<kind, a>> => (k \in posted' <=> k \in posted)
    BY <1>3 DEF Posts
  <2>2. \A b \in Auths \ {a} : /\ HoldKey(b) \in posted' <=> HoldKey(b) \in posted
                               /\ SettleKey(b) \in posted' <=> SettleKey(b) \in posted
                               /\ ReleaseKey(b) \in posted' <=> ReleaseKey(b) \in posted
                               /\ StaleKey(b) \in posted' <=> StaleKey(b) \in posted
    BY <2>1 DEF HoldKey, SettleKey, ReleaseKey, StaleKey
  <2> QED
    BY <1>3, <2>2 DEF HoldOf, Captured, Returned
<1>4. CASE UNCHANGED <<posted, misjudged>>
  BY <1>4 DEF HoldOf, Captured, Returned, SettleKey, ReleaseKey, StaleKey, HoldKey
<1>5. \A a \in Auths : \A from, to : HoldOf[a] = from /\ HoldOf' = [HoldOf EXCEPT ![a] = to] =>
        /\ from = "none" /\ to = "placed" => Contract!Place(a)
        /\ from = "placed" /\ to = "captured" => Contract!Capture(a)
        /\ from = "placed" /\ to = "returned" => Contract!Return(a)
        /\ from \in {"placed", "captured", "returned"} /\ to = "disputed" => Contract!Dispute(a)
  BY DEF Contract!Place, Contract!Capture, Contract!Return, Contract!Dispute, Contract!Move
\* A key that was there already changes nothing.
<1>6. \A kind : \A a \in Auths :
       Posts(kind, a) => \/ UNCHANGED posted
                         \/ <<kind, a>> \notin posted /\ <<kind, a>> \in posted'
  BY DEF Posts
\* A key about what is misjudged, or about what is no authorization, changes nothing either.
<1>14. ASSUME NEW t \in Tokens, NEW kind \in {"auth", "settle", "release", "release:stale"}, Posts(kind, t),
              UNCHANGED misjudged, t \notin Auths \/ t \in misjudged
       PROVE  UNCHANGED HoldOf
  <2>1. \A b \in Auths \ {t} : HoldOf'[b] = HoldOf[b]
    BY <1>3, <1>14
  <2>2. t \in Auths => HoldOf'[t] = HoldOf[t]
    BY <1>14 DEF HoldOf
  <2>3. \A b \in Auths : HoldOf'[b] = HoldOf[b]
    BY <2>1, <2>2
  <2> QED
    BY <1>1, <2>3, Zenon
<1>7. ASSUME NEW a \in Auths \ misjudged, UNCHANGED misjudged, Posts("auth", a), HoldKey(a) \notin posted,
             HoldKey(a) \in posted'
      PROVE  Contract!Next
  <2>1. SettleKey(a) \notin posted /\ ReleaseKey(a) \notin posted /\ StaleKey(a) \notin posted
    BY <1>7, HoldStates
  <2>2. \A k : k \in posted' => k \in posted \/ k = HoldKey(a)
    BY <1>7, NewKey DEF HoldKey
  <2>3. SettleKey(a) \notin posted' /\ ReleaseKey(a) \notin posted' /\ StaleKey(a) \notin posted'
    BY <2>1, <2>2, KeysDiffer
  <2>4. HoldOf[a] = "none"
    BY <1>7, HoldStates
  <2>5. HoldOf'[a] = "placed"
    BY <1>7, <2>3 DEF HoldOf, Captured, Returned, HoldKey, SettleKey, ReleaseKey, StaleKey
  <2>6. HoldOf' = [HoldOf EXCEPT ![a] = "placed"]
    BY <1>2, <1>3, <1>7, <2>5, Amounts
  <2> QED
    BY <1>5, <2>4, <2>6 DEF Contract!Next
<1>8. ASSUME NEW a \in Auths \ misjudged, UNCHANGED misjudged, Posts("settle", a), SettleKey(a) \notin posted,
             SettleKey(a) \in posted', provider[a] = "SETTLED"
      PROVE  Contract!Next
  <2>1. Outstanding(a)
    BY <1>0, <1>8 DEF KeysInv, Outstanding, Captured, Returned, Approved, Given
  <2>2. ReleaseKey(a) \notin posted' /\ StaleKey(a) \notin posted'
    <3>1. \A k : k \in posted' => k \in posted \/ k = SettleKey(a)
      BY <1>8, NewKey DEF SettleKey
    <3> QED
      BY <2>1, <3>1, KeysDiffer DEF Outstanding, Returned
  <2>3. HoldOf[a] = "placed"
    BY <1>8, <2>1, HoldStates
  <2>4. HoldOf'[a] = "captured"
    BY <1>8, <2>2 DEF HoldOf, Captured, Returned, SettleKey, ReleaseKey, StaleKey
  <2>5. HoldOf' = [HoldOf EXCEPT ![a] = "captured"]
    BY <1>2, <1>3, <1>8, <2>4, Amounts
  <2> QED
    BY <1>5, <2>3, <2>5 DEF Contract!Next
<1>9. ASSUME NEW a \in Auths \ misjudged, UNCHANGED misjudged, NEW kind \in {"release", "release:stale"},
             Posts(kind, a), <<kind, a>> \notin posted, <<kind, a>> \in posted', HoldKey(a) \in posted,
             \/ kind = "release" /\ provider[a] \in {"VOIDED", "EXPIRED", "DECLINED"}
             \/ kind = "release:stale" /\ provider[a] = "forgotten"
      PROVE  Contract!Next
  <2>1. Outstanding(a)
    BY <1>0, <1>9 DEF KeysInv, Outstanding, Captured, Returned, ReleaseKey, StaleKey, Given
  <2>2. SettleKey(a) \notin posted'
    <3>1. \A k : k \in posted' => k \in posted \/ k = <<kind, a>>
      BY <1>9, NewKey
    <3>2. SettleKey(a) # <<kind, a>>
      BY DEF SettleKey
    <3> QED
      BY <2>1, <3>1, <3>2 DEF Outstanding, Captured
  <2>3. HoldOf[a] = "placed"
    BY <1>9, <2>1, HoldStates
  <2>4. HoldOf'[a] = "returned"
    BY <1>9, <2>2 DEF HoldOf, Captured, Returned, SettleKey, ReleaseKey, StaleKey
  <2>5. HoldOf' = [HoldOf EXCEPT ![a] = "returned"]
    BY <1>2, <1>3, <1>9, <2>4, Amounts
  <2> QED
    BY <1>5, <2>3, <2>5 DEF Contract!Next
\* Any posting is one of these, or changes nothing.
<1>10. ASSUME UNCHANGED misjudged, NEW a \in Auths, Posts("auth", a) PROVE Contract!Next \/ UNCHANGED HoldOf
  BY <1>4, <1>6, <1>7, <1>10, <1>14, Amounts DEF HoldKey
<1>11. ASSUME UNCHANGED misjudged, NEW t \in Tokens, Posts("settle", t), t \in Auths => provider[t] = "SETTLED"
       PROVE  Contract!Next \/ UNCHANGED HoldOf
  BY <1>4, <1>6, <1>8, <1>11, <1>14 DEF SettleKey
<1>12. ASSUME UNCHANGED misjudged, NEW t \in Tokens, Posts("release", t),
              t \in Auths => HoldKey(t) \in posted /\ provider[t] \in {"VOIDED", "EXPIRED", "DECLINED"}
       PROVE  Contract!Next \/ UNCHANGED HoldOf
  BY <1>4, <1>6, <1>9, <1>12, <1>14
<1>13. ASSUME UNCHANGED misjudged, NEW t \in Tokens, Posts("release:stale", t),
              t \in Auths => HoldKey(t) \in posted /\ Given(t)
       PROVE  Contract!Next \/ UNCHANGED HoldOf
  BY <1>4, <1>6, <1>9, <1>13, <1>14 DEF Given
<1>15. ASSUME NEW t \in Tokens, SweepUnknown(t), ~Unknown(t), UNCHANGED posted, misjudged' = misjudged \cup {t}
       PROVE  Contract!Next \/ UNCHANGED HoldOf
  <2>1. t \in Auths /\ row[t].status = "PENDING"
    BY <1>15 DEF SweepUnknown, Stale, Unknown
  <2>2. HoldKey(t) \in posted
    BY <2>1 DEF ContractInv, RowsInv
  <2>3. HoldOf'[t] = "disputed" /\ \A b \in Auths \ {t} : HoldOf'[b] = HoldOf[b]
    BY <1>15, <2>1 DEF HoldOf, Captured, Returned, HoldKey, SettleKey, ReleaseKey, StaleKey
  <2>4. HoldOf' = [HoldOf EXCEPT ![t] = "disputed"]
    BY <1>2, <2>1, <2>3
  <2>5. CASE t \in misjudged
    <3>1. misjudged' = misjudged
      BY <1>15, <2>5
    <3> QED
      BY <1>4, <1>15, <3>1
  <2>6. CASE t \notin misjudged
    <3>1. HoldOf[t] \in {"placed", "captured", "returned"}
      BY <2>1, <2>2, <2>6, HoldStates DEF Outstanding, Captured, Returned
    <3> QED
      BY <1>5, <2>1, <2>4, <3>1 DEF Contract!Next
  <2> QED
    BY <2>5, <2>6
<1>16. CASE UNCHANGED misjudged
  BY <1>4, <1>10, <1>11, <1>12, <1>13, <1>16, KeySteps
<1> QED
  BY <1>15, <1>16, StraySteps

LEMMA ContractInit == Init => ContractInv
<1> SUFFICES ASSUME Init PROVE ContractInv
  OBVIOUS
<1>1. posted = {} /\ sweep.at = "idle" /\ (\A a \in Auths : provider[a] = "none" /\ row[a] = NoRow)
      /\ misjudged = {} /\ \A e \in Events : hook[e].at = "none"
  BY Amounts DEF Init, NotSweeping
<1>2. NoRow.status # "PENDING"
  BY DEF NoRow
<1> QED
  BY <1>1, <1>2 DEF ContractInv, KeysInv, HooksInv, RowsInv, SweepInv, Approved

\* Whatever redact() leaves of the tokens and whatever goes wrong, the ledger's keys follow the
\* contract of a hold: placed once, then captured or returned, unless the sweep takes the
\* transaction for unknown in an outage.
THEOREM HoldContractCorrect == Spec => HoldContractSpec
<1>1. Init => (TypeOK /\ HoldInv) /\ ContractInv /\ Contract!Init
  <2>1. Init => posted = {} /\ misjudged = {}
    BY DEF Init
  <2> QED
    BY <2>1, InitHolds, ContractInit DEF HoldOf, Captured, Returned, Contract!Init
<1>2. (TypeOK /\ HoldInv) /\ ContractInv /\ [Next]_vars =>
        (TypeOK /\ HoldInv)' /\ ContractInv' /\ [Contract!Next]_HoldOf
  BY TypeStep, HoldStep, KeysStep, RowsStep, SweepingStep, ContractStep DEF ContractInv
<1> QED
  BY <1>1, <1>2, PTL DEF Spec, HoldContractSpec, Contract!Spec

-----------------------------------------------------------------------------
(* Sums over finite sets.  MapThenSumSet folds with a recursive function:  *)
(* it is shown to have a solution and only one, and then what a proof      *)
(* needs of a sum.  Each lemma looks at a least counterexample, of the     *)
(* natural numbers or of the subsets of a finite set.                      *)

LEMMA NatOrder ==
  \E R : IsWellFoundedOn(R, Nat) /\ \A m, n \in Nat : n < m => <<n, m>> \in R
<1>1. \A m, n \in Nat : n < m => <<n, m>> \in {ss \in Nat \X Nat : ss[1] < ss[2]}
  OBVIOUS
<1>2. IsWellFoundedOn({ss \in Nat \X Nat : ss[1] < ss[2]}, Nat)
  BY NatLessThanWellFounded DEF OpToRel
<1> QED
  BY <1>1, <1>2, Zenon

LEMMA LeastElement ==
  ASSUME NEW T \in SUBSET Nat, T # {}
  PROVE  \E m \in T : \A n \in T : m <= n
<1>1. PICK R : IsWellFoundedOn(R, Nat) /\ \A m, n \in Nat : n < m => <<n, m>> \in R
  BY NatOrder
<1>2. \E m \in T : \A n \in T : ~(<<n, m>> \in R)
  BY <1>1, WFMin, Zenon
<1>3. PICK m \in T : \A n \in T : ~(<<n, m>> \in R)
  BY <1>2
<1>4. \A n \in T : ~(n < m)
  <2> TAKE n \in T
  <2>1. n \in Nat /\ m \in Nat
    OBVIOUS
  <2>2. ~(<<n, m>> \in R)
    BY <1>3
  <2>3. n < m => <<n, m>> \in R
    BY <1>1, <2>1, Zenon
  <2> QED
    BY <2>2, <2>3, Zenon
<1>5. \A n \in T : m <= n
  BY <1>4
<1> QED
  BY <1>5

LEMMA SmallestSet ==
  ASSUME NEW S, IsFiniteSet(S), NEW T \in SUBSET SUBSET S, T # {}
  PROVE  \E s \in T : \A t \in T : ~(t \subseteq s /\ t # s)
<1>1. T \subseteq FiniteSubsetsOf(S)
  BY FS_Subset DEF FiniteSubsetsOf
<1>2. \E s \in T : \A t \in T : ~(<<t, s>> \in StrictSubsetOrdering(S))
  BY <1>1, FS_StrictSubsetOrderingWellFounded, WFMin, Zenon
<1> QED
  BY <1>2 DEF StrictSubsetOrdering

Choice(s) == CHOOSE x \in s : TRUE

SumOver(f, S) == MapThenSumSet(LAMBDA x : f[x], S)

\* What the recursive function inside MapThenSumSet is a solution of.
Iter(f, S, iter) ==
  iter = [s \in SUBSET S |-> IF s = {} THEN 0 ELSE f[Choice(s)] + iter[s \ {Choice(s)}]]

UpTo(S, n) == {s \in SUBSET S : Cardinality(s) <= n}

Partial(f, S, n, iter) ==
  iter = [s \in UpTo(S, n) |-> IF s = {} THEN 0 ELSE f[Choice(s)] + iter[s \ {Choice(s)}]]

LEMMA ChoiceIn == \A s : s # {} => Choice(s) \in s
  BY DEF Choice

LEMMA PartialStep ==
  ASSUME NEW S, IsFiniteSet(S), NEW f, NEW n \in Nat, NEW h, Partial(f, S, n, h)
  PROVE  \E k : Partial(f, S, n+1, k)
<1> DEFINE k == [s \in UpTo(S, n+1) |-> IF s = {} THEN 0 ELSE f[Choice(s)] + h[s \ {Choice(s)}]]
<1>1. \A s \in UpTo(S, n+1) : s # {} => s \ {Choice(s)} \in UpTo(S, n)
  <2> SUFFICES ASSUME NEW s \in UpTo(S, n+1), s # {} PROVE s \ {Choice(s)} \in UpTo(S, n)
    OBVIOUS
  <2>1. IsFiniteSet(s) /\ s \subseteq S /\ Cardinality(s) <= n + 1
    BY FS_Subset DEF UpTo
  <2>2. Choice(s) \in s
    BY ChoiceIn
  <2>3. Cardinality(s) \in Nat /\ Cardinality(s \ {Choice(s)}) = Cardinality(s) - 1
    BY <2>1, <2>2, FS_RemoveElement, FS_CardinalityType
  <2> QED
    BY <2>1, <2>3 DEF UpTo
<1>2. UpTo(S, n) \subseteq UpTo(S, n+1)
  <2>1. \A s \in SUBSET S : Cardinality(s) \in Nat
    BY FS_Subset, FS_CardinalityType
  <2> QED
    BY <2>1 DEF UpTo
<1>3. \A s \in UpTo(S, n) : h[s] = k[s]
  BY <1>2 DEF Partial
<1>4. k = [s \in UpTo(S, n+1) |-> IF s = {} THEN 0 ELSE f[Choice(s)] + k[s \ {Choice(s)}]]
  <2>1. \A s \in UpTo(S, n+1) : s # {} => k[s \ {Choice(s)}] = h[s \ {Choice(s)}]
    BY <1>1, <1>3
  <2> QED
    BY <2>1
<1> HIDE DEF k
<1> QED
  BY <1>4 DEF Partial

LEMMA Solvable ==
  ASSUME NEW S, IsFiniteSet(S), NEW f
  PROVE  \E iter : Iter(f, S, iter)
<1> DEFINE T == {n \in Nat : ~\E h : Partial(f, S, n, h)}
<1>1. T = {}
  <2> SUFFICES ASSUME T # {} PROVE FALSE
    OBVIOUS
  <2>1. PICK m \in T : \A n \in T : m <= n
    BY LeastElement
  <2>2. m # 0
    <3> DEFINE z == [s \in UpTo(S, 0) |-> 0]
    <3>1. \A s \in UpTo(S, 0) : s = {}
      BY FS_Subset, FS_CardinalityType, FS_EmptySet DEF UpTo
    <3>2. z = [s \in UpTo(S, 0) |-> IF s = {} THEN 0 ELSE f[Choice(s)] + z[s \ {Choice(s)}]]
      BY <3>1
    <3> HIDE DEF z
    <3>3. Partial(f, S, 0, z)
      BY <3>2 DEF Partial
    <3> QED
      BY <3>3
  <2>3. m - 1 \in Nat /\ m - 1 \notin T /\ (m - 1) + 1 = m
    BY <2>1, <2>2
  <2>4. PICK h : Partial(f, S, m - 1, h)
    BY <2>3
  <2>5. \E k : Partial(f, S, (m-1)+1, k)
    BY <2>3, <2>4, PartialStep
  <2> QED
    BY <2>1, <2>3, <2>5
<1>2. Cardinality(S) \in Nat
  BY FS_CardinalityType
<1>3. UpTo(S, Cardinality(S)) = SUBSET S
  BY FS_Subset, FS_CardinalityType DEF UpTo
<1>4. PICK h : Partial(f, S, Cardinality(S), h)
  BY <1>1, <1>2
<1> QED
  BY <1>3, <1>4 DEF Partial, Iter

LEMMA Unique ==
  ASSUME NEW S, IsFiniteSet(S), NEW f, NEW i, Iter(f, S, i), NEW R, NEW j, Iter(f, R, j),
         NEW s \in SUBSET S, s \subseteq R
  PROVE  i[s] = j[s]
<1> DEFINE T == {t \in SUBSET s : i[t] # j[t]}
<1>1. T = {}
  <2> SUFFICES ASSUME T # {} PROVE FALSE
    OBVIOUS
  <2>0. IsFiniteSet(s)
    BY FS_Subset
  <2>1. PICK t \in T : \A r \in T : ~(r \subseteq t /\ r # t)
    <3>1. T \in SUBSET SUBSET s
      OBVIOUS
    <3> HIDE DEF T
    <3> QED
      BY <2>0, <3>1, SmallestSet
  <2>2. CASE t = {}
    BY <2>2 DEF Iter
  <2>3. CASE t # {}
    <3>1. Choice(t) \in t
      BY <2>3, ChoiceIn
    <3>2. t \ {Choice(t)} \in SUBSET s /\ t \ {Choice(t)} \notin T
      BY <2>1, <3>1
    <3>3. i[t \ {Choice(t)}] = j[t \ {Choice(t)}]
      BY <3>2
    <3>4. i[t] = f[Choice(t)] + i[t \ {Choice(t)}] /\ j[t] = f[Choice(t)] + j[t \ {Choice(t)}]
      BY <2>3 DEF Iter
    <3> QED
      BY <3>3, <3>4
  <2> QED
    BY <2>2, <2>3
<1> QED
  BY <1>1

LEMMA Solution ==
  ASSUME NEW S, IsFiniteSet(S), NEW f
  PROVE  \E iter : Iter(f, S, iter) /\ \A s \in SUBSET S : SumOver(f, s) = iter[s]
<1>1. \A s \in SUBSET S : \E iter : Iter(f, s, iter)
  BY Solvable, FS_Subset
<1>2. ASSUME NEW s \in SUBSET S PROVE \E iter : Iter(f, s, iter) /\ SumOver(f, s) = iter[s]
  BY <1>1 DEF SumOver, MapThenSumSet, MapThenFoldSet, Iter, Choice
<1>3. PICK iter : Iter(f, S, iter)
  BY <1>1
<1>4. ASSUME NEW s \in SUBSET S PROVE SumOver(f, s) = iter[s]
  <2>1. PICK j : Iter(f, s, j) /\ SumOver(f, s) = j[s]
    BY <1>2
  <2>2. iter[s] = j[s]
    BY <1>3, <2>1, Unique
  <2> QED
    BY <2>1, <2>2
<1> QED
  BY <1>3, <1>4

\* The first element the sum takes, and the rest.
LEMMA SumUnfolds ==
  ASSUME NEW S, IsFiniteSet(S), NEW f
  PROVE  SumOver(f, S) = IF S = {} THEN 0 ELSE f[Choice(S)] + SumOver(f, S \ {Choice(S)})
<1>1. PICK iter : Iter(f, S, iter) /\ \A s \in SUBSET S : SumOver(f, s) = iter[s]
  BY Solution
<1> QED
  BY <1>1 DEF Iter

\* A sum depends on the terms over the set alone, and is an integer.
LEMMA SumOfSame ==
  ASSUME NEW S, IsFiniteSet(S), NEW f, NEW g, \A x \in S : f[x] = g[x] /\ f[x] \in Int
  PROVE  SumOver(f, S) = SumOver(g, S) /\ SumOver(f, S) \in Int
<1> DEFINE T == {t \in SUBSET S : ~(SumOver(f, t) = SumOver(g, t) /\ SumOver(f, t) \in Int)}
<1>1. T = {}
  <2> SUFFICES ASSUME T # {} PROVE FALSE
    OBVIOUS
  <2>1. PICK t \in T : \A r \in T : ~(r \subseteq t /\ r # t)
    <3>1. T \in SUBSET SUBSET S
      OBVIOUS
    <3> HIDE DEF T
    <3> QED
      BY <3>1, SmallestSet
  <2>2. /\ SumOver(f, t) = IF t = {} THEN 0 ELSE f[Choice(t)] + SumOver(f, t \ {Choice(t)})
        /\ SumOver(g, t) = IF t = {} THEN 0 ELSE g[Choice(t)] + SumOver(g, t \ {Choice(t)})
    BY FS_Subset, SumUnfolds
  <2>3. t # {} /\ Choice(t) \in t
    BY <2>2, ChoiceIn
  <2>4. t \ {Choice(t)} \in SUBSET S /\ t \ {Choice(t)} \notin T
    BY <2>1, <2>3
  <2> QED
    BY <2>2, <2>3, <2>4
<1> QED
  BY <1>1

\* Any element can be taken out of a sum.
LEMMA SumTakes ==
  ASSUME NEW S, IsFiniteSet(S), NEW f, \A x \in S : f[x] \in Int, NEW a \in S
  PROVE  SumOver(f, S) = f[a] + SumOver(f, S \ {a})
<1> DEFINE T == {t \in SUBSET S : \E b \in t : SumOver(f, t) # f[b] + SumOver(f, t \ {b})}
<1>1. T = {}
  <2> SUFFICES ASSUME T # {} PROVE FALSE
    OBVIOUS
  <2>1. PICK t \in T : \A r \in T : ~(r \subseteq t /\ r # t)
    <3>1. T \in SUBSET SUBSET S
      OBVIOUS
    <3> HIDE DEF T
    <3> QED
      BY <3>1, SmallestSet
  <2>2. PICK b \in t : SumOver(f, t) # f[b] + SumOver(f, t \ {b})
    OBVIOUS
  <2>3. PICK c \in t : SumOver(f, t) = f[c] + SumOver(f, t \ {c})
    BY FS_Subset, ChoiceIn, SumUnfolds
  <2>4. \A x \in t, y \in t : x # y => SumOver(f, t \ {x}) = f[y] + SumOver(f, (t \ {x}) \ {y})
    <3> SUFFICES ASSUME NEW x \in t, NEW y \in t, x # y
                 PROVE  SumOver(f, t \ {x}) = f[y] + SumOver(f, (t \ {x}) \ {y})
      OBVIOUS
    <3>1. t \ {x} \in SUBSET S /\ t \ {x} \notin T /\ y \in t \ {x}
      BY <2>1
    <3> QED
      BY <3>1
  <2>5. (t \ {b}) \ {c} = (t \ {c}) \ {b}
    OBVIOUS
  <2>6. SumOver(f, (t \ {c}) \ {b}) \in Int /\ f[b] \in Int /\ f[c] \in Int
    <3>1. IsFiniteSet((t \ {c}) \ {b}) /\ (t \ {c}) \ {b} \subseteq S
      BY FS_Subset
    <3> QED
      BY <3>1, SumOfSame
  <2>7. b # c
    BY <2>2, <2>3
  <2> QED
    BY <2>2, <2>3, <2>4, <2>5, <2>6, <2>7, SMTT(30)
<1> QED
  BY <1>1

\* Smaller terms, smaller sum.
LEMMA SumOfSmaller ==
  ASSUME NEW S, IsFiniteSet(S), NEW f, NEW g,
         \A x \in S : f[x] \in Int /\ g[x] \in Int /\ f[x] <= g[x]
  PROVE  SumOver(f, S) <= SumOver(g, S)
<1> DEFINE T == {t \in SUBSET S : ~(SumOver(f, t) <= SumOver(g, t))}
<1>1. T = {}
  <2> SUFFICES ASSUME T # {} PROVE FALSE
    OBVIOUS
  <2>1. PICK t \in T : \A r \in T : ~(r \subseteq t /\ r # t)
    <3>1. T \in SUBSET SUBSET S
      OBVIOUS
    <3> HIDE DEF T
    <3> QED
      BY <3>1, SmallestSet
  <2>0. /\ SumOver(f, t) = IF t = {} THEN 0 ELSE f[Choice(t)] + SumOver(f, t \ {Choice(t)})
        /\ SumOver(g, t) = IF t = {} THEN 0 ELSE g[Choice(t)] + SumOver(g, t \ {Choice(t)})
    BY FS_Subset, SumUnfolds
  <2>2. t # {} /\ Choice(t) \in t
    BY <2>0, ChoiceIn
  <2>3. t \ {Choice(t)} \in SUBSET S /\ t \ {Choice(t)} \notin T /\ IsFiniteSet(t \ {Choice(t)})
    BY <2>1, <2>2, FS_Subset
  <2>4. SumOver(f, t \ {Choice(t)}) <= SumOver(g, t \ {Choice(t)})
        /\ SumOver(f, t \ {Choice(t)}) \in Int /\ SumOver(g, t \ {Choice(t)}) \in Int
    BY <2>3, SumOfSame
  <2> QED
    BY <2>0, <2>2, <2>4
<1> QED
  BY <1>1

\* Term by term.
LEMMA SumOfSums ==
  ASSUME NEW S, IsFiniteSet(S), NEW f, NEW g, NEW h,
         \A x \in S : f[x] \in Int /\ g[x] \in Int /\ h[x] = f[x] + g[x]
  PROVE  SumOver(h, S) = SumOver(f, S) + SumOver(g, S)
<1> DEFINE T == {t \in SUBSET S : SumOver(h, t) # SumOver(f, t) + SumOver(g, t)}
<1>1. T = {}
  <2> SUFFICES ASSUME T # {} PROVE FALSE
    OBVIOUS
  <2>1. PICK t \in T : \A r \in T : ~(r \subseteq t /\ r # t)
    <3>1. T \in SUBSET SUBSET S
      OBVIOUS
    <3> HIDE DEF T
    <3> QED
      BY <3>1, SmallestSet
  <2>0. /\ SumOver(h, t) = IF t = {} THEN 0 ELSE h[Choice(t)] + SumOver(h, t \ {Choice(t)})
        /\ SumOver(f, t) = IF t = {} THEN 0 ELSE f[Choice(t)] + SumOver(f, t \ {Choice(t)})
        /\ SumOver(g, t) = IF t = {} THEN 0 ELSE g[Choice(t)] + SumOver(g, t \ {Choice(t)})
    BY FS_Subset, SumUnfolds
  <2>2. t # {} /\ Choice(t) \in t
    BY <2>0, ChoiceIn
  <2>3. t \ {Choice(t)} \in SUBSET S /\ t \ {Choice(t)} \notin T /\ IsFiniteSet(t \ {Choice(t)})
    BY <2>1, <2>2, FS_Subset
  <2>4. SumOver(h, t \ {Choice(t)}) = SumOver(f, t \ {Choice(t)}) + SumOver(g, t \ {Choice(t)})
        /\ SumOver(f, t \ {Choice(t)}) \in Int /\ SumOver(g, t \ {Choice(t)}) \in Int
    BY <2>3, SumOfSame
  <2> QED
    BY <2>0, <2>2, <2>4
<1> QED
  BY <1>1

\* Terms that are zero can be left out.
LEMMA SumWithoutZeros ==
  ASSUME NEW S, IsFiniteSet(S), NEW f, NEW R \in SUBSET S, \A x \in S : f[x] \in Int,
         \A x \in S \ R : f[x] = 0
  PROVE  SumOver(f, S) = SumOver(f, R)
<1> DEFINE T == {t \in SUBSET S : SumOver(f, t) # SumOver(f, t \cap R)}
<1>1. T = {}
  <2> SUFFICES ASSUME T # {} PROVE FALSE
    OBVIOUS
  <2>1. PICK t \in T : \A r \in T : ~(r \subseteq t /\ r # t)
    <3>1. T \in SUBSET SUBSET S
      OBVIOUS
    <3> HIDE DEF T
    <3> QED
      BY <3>1, SmallestSet
  <2>2. PICK c \in t : c \notin R
    OBVIOUS
  <2>3. t \ {c} \in SUBSET S /\ t \ {c} \notin T /\ (t \ {c}) \cap R = t \cap R
    BY <2>1, <2>2
  <2>4. SumOver(f, t \ {c}) = SumOver(f, t \cap R)
    BY <2>3
  <2>5. SumOver(f, t) = f[c] + SumOver(f, t \ {c}) /\ SumOver(f, t \ {c}) \in Int
    <3>1. IsFiniteSet(t) /\ IsFiniteSet(t \ {c})
      BY FS_Subset
    <3> QED
      BY <3>1, SumTakes, SumOfSame
  <2> QED
    BY <2>2, <2>4, <2>5
<1>2. S \cap R = R
  OBVIOUS
<1> QED
  BY <1>1, <1>2

\* One term changes by d, the others do not grow.
LEMMA SumChanges ==
  ASSUME NEW S, IsFiniteSet(S), NEW f, NEW g, NEW a \in S, NEW d \in Int,
         \A x \in S : f[x] \in Int /\ g[x] \in Int,
         \A x \in S \ {a} : g[x] <= f[x], g[a] <= f[a] + d
  PROVE  SumOver(g, S) <= SumOver(f, S) + d
<1>1. SumOver(f, S) = f[a] + SumOver(f, S \ {a}) /\ SumOver(g, S) = g[a] + SumOver(g, S \ {a})
  BY SumTakes
<1>2. IsFiniteSet(S \ {a})
  BY FS_Subset
<1>3. SumOver(g, S \ {a}) <= SumOver(f, S \ {a})
  BY <1>2, SumOfSmaller
<1>4. SumOver(g, S \ {a}) \in Int /\ SumOver(f, S \ {a}) \in Int
  BY <1>2, SumOfSame
<1> QED
  BY <1>1, <1>3, <1>4

\* One term changes by d, and the others do not.
LEMMA SumChangesOne ==
  ASSUME NEW S, IsFiniteSet(S), NEW f, NEW g, NEW a \in S, NEW d \in Int,
         \A x \in S : f[x] \in Int /\ g[x] \in Int,
         \A x \in S \ {a} : g[x] = f[x], g[a] = f[a] + d
  PROVE  SumOver(g, S) = SumOver(f, S) + d
<1>1. SumOver(f, S) = f[a] + SumOver(f, S \ {a}) /\ SumOver(g, S) = g[a] + SumOver(g, S \ {a})
  BY SumTakes
<1>2. IsFiniteSet(S \ {a})
  BY FS_Subset
<1>3. SumOver(g, S \ {a}) = SumOver(f, S \ {a}) /\ SumOver(g, S \ {a}) \in Int
  BY <1>2, SumOfSame
<1> QED
  BY <1>1, <1>3

-----------------------------------------------------------------------------
(* The held balance against the holds.                                     *)

Total(r) == r.amount + r.fee

\* The three things that happen to the held balance: a hold is placed in it, the hold of an
\* authorization ends and n is taken out, or n is drawn with no open hold behind it.
Places(a, n) ==
  /\ HoldKey(a) \notin posted /\ posted' = posted \cup {HoldKey(a)}
  /\ taken' = [taken EXCEPT ![a] = n] /\ UNCHANGED drawn
  /\ bal'["held"] = bal["held"] + n

Ends(a, n) ==
  /\ Outstanding(a) /\ UNCHANGED <<taken, drawn>>
  /\ \E key \in {SettleKey(a), ReleaseKey(a), StaleKey(a)} : posted' = posted \cup {key}
  /\ bal'["held"] = bal["held"] - n

Draws(x, n) ==
  /\ x \in Auths => ~Outstanding(x)
  /\ \E key \in {SettleKey(x), ReleaseKey(x), StaleKey(x)} : posted' = posted \cup {key}
  /\ UNCHANGED taken
  /\ bal'["held"] = bal["held"] - n /\ drawn' = drawn + n

LEMMA Postings ==
  ASSUME NEW key, NEW entries, bal \in [Accounts -> Int], Post(key, entries)
  PROVE  \/ key \in posted /\ UNCHANGED <<bal, posted>>
         \/ /\ key \notin posted /\ posted' = posted \cup {key}
            /\ bal'["held"] = bal["held"] + At(entries, "held")
BY DEF Post, Apply, Accounts

LEMMA HeldEntries ==
  /\ \A n \in Int : At(HoldEntries(n), "held") = n /\ At(ReleaseEntries(n), "held") = -n
  /\ \A n, m, f \in Int : At(SettlementEntries(n, m, f), "held") = -n
BY DEF At, HoldEntries, ReleaseEntries, SettlementEntries, WithoutZero

LEMMA HoldsAreNew ==
  ASSUME TypeOK, NEW a \in Auths, NEW fee \in FeesAsked(a), PlaceHold(a, Amount[a] + fee), UNCHANGED drawn
  PROVE  UNCHANGED <<bal, posted, taken>> \/ Places(a, Amount[a] + fee)
<1>1. PICK n \in Nat : n = Amount[a] + fee
  BY Amounts
<1>2. Post(HoldKey(a), HoldEntries(n)) /\ bal \in [Accounts -> Int] /\ At(HoldEntries(n), "held") = n
  BY <1>1, HeldEntries DEF PlaceHold, TypeOK
<1>3. taken' = IF HoldKey(a) \in posted THEN taken ELSE [taken EXCEPT ![a] = n]
  BY <1>1 DEF PlaceHold
<1> QED
  BY <1>1, <1>2, <1>3, Postings DEF Places

\* A key about the end of a hold is only posted while the hold is open, or where the sweep misjudged it.
LEMMA EndsOpenHold ==
  ASSUME TypeOK, ContractInv, NEW a \in Auths, NEW key, key \notin posted,
         \/ key = SettleKey(a) /\ provider[a] = "SETTLED"
         \/ key = ReleaseKey(a) /\ provider[a] \in {"VOIDED", "EXPIRED", "DECLINED"} /\ HoldKey(a) \in posted
         \/ key = StaleKey(a) /\ Given(a) /\ HoldKey(a) \in posted
  PROVE  Outstanding(a) \/ Stray(a)
BY DEF ContractInv, KeysInv, Approved, Outstanding, Captured, Returned, Stray, Given

LEMMA TakingOut ==
  ASSUME TypeOK, NEW x \in Tokens, NEW key \in {SettleKey(x), ReleaseKey(x), StaleKey(x)}, NEW n \in Int,
         NEW entries, At(entries, "held") = -n, TakeOut(x, key, entries),
         key \notin posted => Outstanding(x) \/ Stray(x), Outstanding(x) => x \in Auths
  PROVE  UNCHANGED <<bal, posted, taken, drawn>> \/ Draws(x, n) \/ (x \in Auths /\ Ends(x, n))
<1>1. bal \in [Accounts -> Int] /\ drawn \in Int /\ bal["held"] \in Int
  BY DEF TypeOK, Accounts
<1>2. UNCHANGED taken /\ drawn' = IF Stray(x) THEN drawn + (bal["held"] - bal'["held"]) ELSE drawn
  BY DEF TakeOut
<1>3. \/ key \in posted /\ UNCHANGED <<bal, posted>>
      \/ /\ key \notin posted /\ posted' = posted \cup {key}
         /\ bal'["held"] = bal["held"] + At(entries, "held")
  BY <1>1, Postings DEF TakeOut
<1>4. CASE key \in posted /\ UNCHANGED <<bal, posted>>
  BY <1>1, <1>2, <1>4
<1>5. ASSUME key \notin posted, posted' = posted \cup {key}, bal'["held"] = bal["held"] - n
      PROVE  Draws(x, n) \/ (x \in Auths /\ Ends(x, n))
  <2>1. Stray(x) => ~Outstanding(x)
    BY DEF Stray
  <2>2. CASE Stray(x)
    BY <1>1, <1>2, <1>5, <2>1, <2>2 DEF Draws
  <2>3. CASE ~Stray(x)
    BY <1>2, <1>5, <2>3 DEF Ends
  <2> QED
    BY <2>2, <2>3
<1> QED
  BY <1>1, <1>3, <1>4, <1>5

\* No hold is ever placed under what is no authorization.
HoldsAreOurs == \A x \in Tokens : HoldKey(x) \in posted => x \in Auths

LEMMA HoldsStayOurs ==
  ASSUME TypeOK, HoldInv, ContractInv, HoldsAreOurs, [Next]_vars
  PROVE  HoldsAreOurs'
<1>1. \A x \in Tokens : HoldKey(x) \in posted => x \in Auths
  BY DEF HoldsAreOurs
<1>2. ASSUME NEW a \in Auths, Posts("auth", a) PROVE \A x \in Tokens : HoldKey(x) \in posted' => x \in Auths
  <2>1. \A k : k \in posted' => k \in posted \/ k = HoldKey(a)
    BY <1>2, NewKey DEF HoldKey
  <2> QED
    BY <1>1, <2>1, KeysDiffer
<1>3. ASSUME NEW t \in Tokens, Posts("settle", t) \/ Posts("release", t) \/ Posts("release:stale", t)
      PROVE  \A x \in Tokens : HoldKey(x) \in posted' => x \in Auths
  <2>1. \A k : k \in posted' => k \in posted \/ k \in {SettleKey(t), ReleaseKey(t), StaleKey(t)}
    BY <1>3, NewKey DEF SettleKey, ReleaseKey, StaleKey
  <2> QED
    BY <1>1, <2>1, KeysDiffer
<1>4. \A x \in Tokens : HoldKey(x) \in posted' => x \in Auths
  BY <1>1, <1>2, <1>3, KeySteps
<1> QED
  BY <1>4 DEF HoldsAreOurs, HoldKey

LEMMA WebhookEnds ==
  ASSUME TypeOK, ContractInv, HoldsAreOurs, NEW e \in Events, MoveMoney(e)
  PROVE  \/ UNCHANGED <<bal, posted, taken, drawn>>
         \/ Draws(StoredToken[e[1]], HeldRead(e))
         \/ hook[e].at = "ledger" /\ StoredToken[e[1]] = e[1] /\ Ends(e[1], HeldRead(e))
<1> DEFINE x == StoredToken[e[1]]
<1>1. /\ x \in Tokens /\ (x \in Auths => x = e[1])
      /\ hook[e].at = "ledger" /\ e[1] \in Auths /\ e[2] \in Reports
  BY StoredTokens DEF MoveMoney
<1>2. hook[e].found \in RowType
  BY DEF TypeOK
<1>3. HeldRead(e) \in Int /\ hook[e].found.fee \in Int /\ Cleared[e[1]] \in Int
  BY <1>1, <1>2, Amounts DEF HeldRead, RowType
<1>4. e[2] # "PENDING" => provider[e[1]] = e[2]
  BY <1>1 DEF ContractInv, HooksInv
<1>5. Outstanding(x) => x \in Auths
  BY <1>1 DEF Outstanding, HoldsAreOurs
<1>6. x \notin Auths => Outstanding(x) \/ Stray(x)
  BY DEF Stray
<1>7. CASE MapStatus(e[2]) = "SETTLED"
  <2>1. e[2] = "SETTLED"
    BY <1>7 DEF MapStatus
  <2>2. TakeOut(x, SettleKey(x), SettlementEntries(HeldRead(e), Cleared[e[1]], hook[e].found.fee))
    BY <1>7 DEF MoveMoney
  <2>3. PICK entries : TakeOut(x, SettleKey(x), entries) /\ At(entries, "held") = -HeldRead(e)
    BY <1>3, <2>2, HeldEntries
  <2>4. SettleKey(x) \notin posted => Outstanding(x) \/ Stray(x)
    BY <1>1, <1>4, <1>6, <2>1, EndsOpenHold
  <2> HIDE DEF x
  <2>5. UNCHANGED <<bal, posted, taken, drawn>> \/ Draws(x, HeldRead(e)) \/ (x \in Auths /\ Ends(x, HeldRead(e)))
    BY <1>1, <1>3, <1>5, <2>3, <2>4, TakingOut
  <2> QED
    BY <1>1, <2>5 DEF x
<1>8. CASE MapStatus(e[2]) \in {"REVERSED", "EXPIRED", "DECLINED"} /\ HadHold(x)
           /\ TakeOut(x, ReleaseKey(x), ReleaseEntries(HeldRead(e)))
  <2>1. e[2] \in {"VOIDED", "EXPIRED", "DECLINED"}
    BY <1>1, <1>8 DEF MapStatus, Reports
  <2>2. PICK entries : TakeOut(x, ReleaseKey(x), entries) /\ At(entries, "held") = -HeldRead(e)
    BY <1>3, <1>8, HeldEntries
  <2>3. ReleaseKey(x) \notin posted => Outstanding(x) \/ Stray(x)
    BY <1>1, <1>4, <1>6, <1>8, <2>1, EndsOpenHold DEF HadHold
  <2> HIDE DEF x
  <2>4. UNCHANGED <<bal, posted, taken, drawn>> \/ Draws(x, HeldRead(e)) \/ (x \in Auths /\ Ends(x, HeldRead(e)))
    BY <1>1, <1>3, <1>5, <2>2, <2>3, TakingOut
  <2> QED
    BY <1>1, <2>4 DEF x
<1>9. CASE UNCHANGED <<money, strays>>
  BY <1>9 DEF money, strays
<1> QED
  BY <1>1, <1>7, <1>8, <1>9 DEF MoveMoney

LEMMA SweepEnds ==
  ASSUME TypeOK, ContractInv, HoldsAreOurs, SweepRelease
  PROVE  \/ UNCHANGED <<bal, posted, taken, drawn>>
         \/ Draws(sweep.token, Total(sweep.found))
         \/ sweep.token \in Auths /\ Ends(sweep.token, Total(sweep.found))
<1>1. sweep.token \in Tokens /\ sweep.at # "idle" /\ sweep.found \in RowType
  BY DEF TypeOK, SweepRelease
<1>2. Total(sweep.found) \in Int
  BY <1>1 DEF RowType, Total
<1>3. TakeOut(sweep.token, StaleKey(sweep.token), ReleaseEntries(Total(sweep.found)))
  BY DEF SweepRelease, Total
<1>4. PICK entries : TakeOut(sweep.token, StaleKey(sweep.token), entries) /\ At(entries, "held") = -Total(sweep.found)
  BY <1>2, <1>3, HeldEntries
<1>5. CASE sweep.token \in Auths
  <2>1. StaleKey(sweep.token) \notin posted => Outstanding(sweep.token) \/ Stray(sweep.token)
    BY <1>1, <1>5, EndsOpenHold DEF ContractInv, SweepInv
  <2> QED
    BY <1>1, <1>2, <1>4, <1>5, <2>1, TakingOut
<1>6. CASE sweep.token \notin Auths
  <2>1. ~Outstanding(sweep.token) /\ Stray(sweep.token)
    BY <1>1, <1>6 DEF Outstanding, HoldsAreOurs, Stray
  <2> QED
    BY <1>1, <1>2, <1>4, <2>1, TakingOut
<1> QED
  BY <1>5, <1>6

LEMMA HeldMoves ==
  ASSUME TypeOK, ContractInv, HoldsAreOurs, [Next]_vars
  PROVE  \/ UNCHANGED <<bal, posted, taken, drawn>>
         \/ \E d \in Deliveries : /\ Hold(d) \/ HoldFails(d)
                                  /\ \E fee \in FeesAsked(asa[d].auth) : Places(asa[d].auth, Amount[asa[d].auth] + fee)
         \/ \E e \in Events : /\ MoveMoney(e) /\ hook[e].at = "ledger"
                              /\ StoredToken[e[1]] = e[1] /\ Ends(e[1], HeldRead(e))
         \/ SweepRelease /\ sweep.token \in Auths /\ Ends(sweep.token, Total(sweep.found))
         \/ \E x \in Tokens : \E n \in Int : Draws(x, n)
<1>1. ASSUME NEW d \in Deliveries, Hold(d) \/ HoldFails(d)
      PROVE  \/ UNCHANGED <<bal, posted, taken, drawn>>
             \/ \E fee \in FeesAsked(asa[d].auth) : Places(asa[d].auth, Amount[asa[d].auth] + fee)
  <2>1. asa[d].auth \in Auths
    BY DEF TypeOK
  <2>2. UNCHANGED money \/ \E fee \in FeesAsked(asa[d].auth) : PlaceHold(asa[d].auth, Amount[asa[d].auth] + fee)
    BY <1>1 DEF Hold, HoldFails
  <2>3. UNCHANGED drawn
    BY <1>1 DEF Hold, HoldFails, strays
  <2> QED
    BY <2>1, <2>2, <2>3, HoldsAreNew DEF money
<1>2. ASSUME NEW e \in Events, MoveMoney(e)
      PROVE  \/ UNCHANGED <<bal, posted, taken, drawn>>
             \/ hook[e].at = "ledger" /\ StoredToken[e[1]] = e[1] /\ Ends(e[1], HeldRead(e))
             \/ \E x \in Tokens : \E n \in Int : Draws(x, n)
  <2>1. StoredToken[e[1]] \in Tokens /\ HeldRead(e) \in Int
    <3>1. hook[e].found \in RowType /\ e[1] \in Auths
      BY DEF TypeOK, Events
    <3> QED
      BY <3>1, Amounts DEF HeldRead, RowType
  <2> QED
    BY <1>2, <2>1, WebhookEnds
<1>3. ASSUME SweepRelease
      PROVE  \/ UNCHANGED <<bal, posted, taken, drawn>>
             \/ sweep.token \in Auths /\ Ends(sweep.token, Total(sweep.found))
             \/ \E x \in Tokens : \E n \in Int : Draws(x, n)
  <2>1. sweep.token \in Tokens /\ Total(sweep.found) \in Int
    BY DEF TypeOK, RowType, Total
  <2> QED
    BY <1>3, <2>1, SweepEnds
<1>4. CASE UNCHANGED <<bal, posted, taken, drawn>>
  BY <1>4
\* Whatever leaves the money alone leaves what was drawn alone.
<1>5. UNCHANGED drawn \/ (\E e \in Events : MoveMoney(e)) \/ SweepRelease
  BY StraySteps
<1> QED
  BY <1>1, <1>2, <1>3, <1>5, MoneySteps

\* A row is never taken away, and what it says the hold took stays.
LEMMA RowsKeep ==
  ASSUME TypeOK, [Next]_vars, NEW a \in Tokens, row[a] # NoRow
  PROVE  row'[a] # NoRow /\ Total(row'[a]) = Total(row[a])
<1>0. row \in [Tokens -> RowType] /\ a \in Tokens /\ row[a] \in RowType
  BY Amounts DEF TypeOK
<1> DEFINE Kept(r) == r # NoRow /\ Total(r) = Total(row[a])
<1>1. CASE UNCHANGED row
  BY <1>1
<1>2. ASSUME NEW d \in Deliveries, SaveRow(d) PROVE Kept(row'[a])
  BY <1>0, <1>2 DEF SaveRow
<1>3. ASSUME NEW e \in Events, row' = [row EXCEPT ![StoredToken[e[1]]] = Synced(@, e)] PROVE Kept(row'[a])
  <2>1. CASE StoredToken[e[1]] = a
    <3>1. row'[a] = Synced(row[a], e)
      BY <1>0, <1>3, <2>1
    <3>2. Synced(row[a], e).amount = row[a].amount /\ Synced(row[a], e).fee = row[a].fee
      BY <1>0 DEF Synced, RowType
    <3>3. Synced(row[a], e) # NoRow
      BY <1>0, RowTypes DEF NoRow
    <3> QED
      BY <3>1, <3>2, <3>3 DEF Total
  <2>2. CASE StoredToken[e[1]] # a
    BY <1>0, <1>3, <2>2
  <2> QED
    BY <2>1, <2>2
<1>4. ASSUME row' = [row EXCEPT ![sweep.token].status = "EXPIRED"] PROVE Kept(row'[a])
  <2>1. row'[a] = row[a] \/ row'[a] = [row[a] EXCEPT !.status = "EXPIRED"]
    BY <1>0, <1>4
  <2>2. [row[a] EXCEPT !.status = "EXPIRED"].status = "EXPIRED" /\ NoRow.status = "NONE"
        /\ Total([row[a] EXCEPT !.status = "EXPIRED"]) = Total(row[a])
    BY <1>0 DEF RowType, NoRow, Total
  <2> QED
    BY <2>1, <2>2
<1> QED
  BY <1>1, <1>2, <1>3, <1>4, RowSteps

\* What a handler or the sweep read of a's row: nothing, or what it still says.
Agrees(r, a) == r = NoRow \/ (row[a] # NoRow /\ Total(r) = Total(row[a]))

ReadInv ==
  /\ \A e \in Events : hook[e].at \in Busy => Agrees(hook[e].found, StoredToken[e[1]])
  /\ sweep.at # "idle" => Agrees(sweep.found, sweep.token)

\* How a handler comes to have read a row.
LEMMA HookReads ==
  ASSUME TypeOK, HoldInv, [Next]_vars, NEW e \in Events, hook'[e].at \in Busy
  PROVE  \/ hook[e].at \in Busy /\ hook'[e].found = hook[e].found
         \/ ReadRow(e) /\ hook'[e].found = row[StoredToken[e[1]]]
<1>0. hook \in [Events -> HookType] /\ HookType = [at : {"none", "sent", "lost", "read", "ledger", "failed", "stuck", "processed"}, found : RowType]
  BY HookTypes DEF HookType
<1>1. CASE UNCHANGED hook
  BY <1>1
<1>2. ASSUME NEW d \in Events, HookStep(d) \/ HookFails(d) \/ Lose(d) \/ AdminReplay(d), d # e PROVE hook'[e] = hook[e]
  BY <1>0, <1>2, HookMoves DEF Handles
<1>3. CASE SkipUnknownCard(e) \/ MoveMoney(e) \/ HookFails(e) \/ Lose(e) \/ AdminReplay(e)
  BY <1>0, <1>3 DEF SkipUnknownCard, MoveMoney, HookFails, Lose, AdminReplay, Busy, Sent
<1>4. CASE UpsertRow(e)
  <2>1. hook'[e].found = hook[e].found
    BY <1>0, <1>4 DEF UpsertRow
  <2> QED
    BY <1>4, <2>1 DEF UpsertRow, Busy
<1>5. CASE ReadRow(e)
  <2>1. hook'[e].found = row[StoredToken[e[1]]]
    BY <1>0, <1>5 DEF ReadRow, Events
  <2> QED
    BY <1>5, <2>1
<1>6. ASSUME NEW a \in Auths, NEW s \in Reports, Reach(a, s) PROVE hook'[e] = hook[e] \/ hook'[e] = Sent
  BY <1>0, <1>6 DEF Reach, Events
<1>7. CASE Restart
  <2>1. hook'[e] = IF hook[e].at \in Busy THEN [at |-> "stuck", found |-> NoRow] ELSE hook[e]
    BY <1>7 DEF Restart
  <2> QED
    BY <2>1 DEF Busy
<1>8. Sent.at \notin Busy
  BY DEF Sent, Busy
<1> QED
  BY <1>1, <1>2, <1>3, <1>4, <1>5, <1>6, <1>7, <1>8, HookSources DEF HookStep

\* How the sweep comes to have read one.
LEMMA SweepReads ==
  ASSUME TypeOK, [Next]_vars, sweep'.at # "idle"
  PROVE  \/ sweep.at # "idle" /\ sweep'.token = sweep.token /\ sweep'.found = sweep.found
         \/ \E t \in Tokens : SweepUnknown(t) /\ sweep'.token = t /\ sweep'.found = row[t]
<1>1. CASE SweepRelease
  <2>1. sweep.at # "idle" /\ sweep' = [sweep EXCEPT !.at = "expire"]
    BY <1>1 DEF SweepRelease
  <2> QED
    BY <2>1 DEF TypeOK
<1>2. ASSUME NEW t \in Tokens, SweepUnknown(t) PROVE sweep'.token = t /\ sweep'.found = row[t]
  BY <1>2 DEF SweepUnknown
<1>3. sweep' # NotSweeping
  BY DEF NotSweeping
<1> QED
  BY <1>1, <1>2, <1>3, SweepSources

LEMMA ReadStep ==
  ASSUME TypeOK, HoldInv, ReadInv, [Next]_vars
  PROVE  ReadInv'
<1> DEFINE Later(r, a) == r = NoRow \/ (row'[a] # NoRow /\ Total(r) = Total(row'[a]))
<1>1. \A a \in Tokens : \A r : Agrees(r, a) => Later(r, a)
  BY RowsKeep DEF Agrees
<1>2. ASSUME NEW e \in Events, hook'[e].at \in Busy PROVE Later(hook'[e].found, StoredToken[e[1]])
  <2>1. StoredToken[e[1]] \in Tokens
    BY StoredTokens
  <2>2. CASE hook[e].at \in Busy /\ hook'[e].found = hook[e].found
    <3>1. Agrees(hook[e].found, StoredToken[e[1]])
      BY <2>2 DEF ReadInv
    <3> QED
      BY <1>1, <2>1, <2>2, <3>1
  <2>3. CASE ReadRow(e) /\ hook'[e].found = row[StoredToken[e[1]]]
    <3>1. UNCHANGED row
      BY <2>3 DEF ReadRow
    <3> QED
      BY <2>3, <3>1
  <2> QED
    BY <1>2, <2>2, <2>3, HookReads
<1>3. ASSUME sweep'.at # "idle" PROVE Later(sweep'.found, sweep'.token)
  <2>1. CASE sweep.at # "idle" /\ sweep'.token = sweep.token /\ sweep'.found = sweep.found
    <3>1. Agrees(sweep.found, sweep.token) /\ sweep.token \in Tokens
      BY <2>1 DEF ReadInv, TypeOK
    <3> QED
      BY <1>1, <2>1, <3>1
  <2>2. ASSUME NEW t \in Tokens, SweepUnknown(t), sweep'.token = t, sweep'.found = row[t]
        PROVE  Later(sweep'.found, sweep'.token)
    <3>1. UNCHANGED row
      BY <2>2 DEF SweepUnknown
    <3> QED
      BY <2>2, <3>1
  <2> QED
    BY <1>3, <2>1, <2>2, SweepReads
<1> QED
  BY <1>2, <1>3 DEF ReadInv, Agrees, Busy

-----------------------------------------------------------------------------
(* The held balance covers the open holds.                                 *)

\* What the held balance owes to a: the open hold, and nothing, or what an
\* overstated row may have taken too much, once it is over.
Due == [a \in Auths |-> IF Outstanding(a) THEN taken[a]
                        ELSE IF HoldKey(a) \in posted THEN -Excess(a) ELSE 0]

\* A hold takes at least what the merchant asked for.
TakenInv == \A a \in Auths : HoldKey(a) \in posted => taken[a] >= Amount[a]

CoverInv == TakenInv /\ ReadInv /\ HoldsAreOurs /\ bal["held"] + drawn >= SumOver(Due, Auths)

LEMMA DueTypes ==
  ASSUME TypeOK, NEW a \in Auths
  PROVE  Due[a] \in Int /\ Excess(a) \in Nat /\ taken[a] \in Nat /\ row[a].amount \in Nat /\ row[a].fee \in Nat
<1>1. taken[a] \in Nat /\ row[a] \in RowType
  BY Amounts DEF TypeOK
<1>2. row[a].amount \in Nat /\ row[a].fee \in Nat
  BY <1>1 DEF RowType
<1>3. Excess(a) \in Nat
  BY <1>1, <1>2 DEF Excess
<1> QED
  BY <1>1, <1>2, <1>3 DEF Due

\* A hold that is taken is not changed, and its row only grows into saying more.
LEMMA ExcessGrows ==
  ASSUME TypeOK, TypeOK', [Next]_vars, NEW a \in Auths, HoldKey(a) \in posted' <=> HoldKey(a) \in posted,
         taken'[a] = taken[a]
  PROVE  Excess(a)' \in Nat /\ Excess(a) <= Excess(a)'
<1>1. Excess(a) \in Nat /\ taken[a] \in Nat /\ row[a].amount \in Nat /\ row[a].fee \in Nat
      /\ row'[a].amount \in Nat /\ row'[a].fee \in Nat
  <2>1. row'[a] \in RowType
    BY Amounts DEF TypeOK
  <2> QED
    BY <2>1, DueTypes DEF RowType
<1>2. Excess(a)' = IF HoldKey(a) \in posted /\ row'[a].amount + row'[a].fee > taken[a]
                   THEN row'[a].amount + row'[a].fee - taken[a] ELSE 0
  BY DEF Excess, HoldKey
<1>3. Excess(a)' \in Nat
  BY <1>1, <1>2
<1>4. CASE row[a] = NoRow
  BY <1>1, <1>3, <1>4 DEF Excess, NoRow
<1>5. CASE row[a] # NoRow
  <2>1. row'[a].amount + row'[a].fee = row[a].amount + row[a].fee
    BY <1>5, RowsKeep, Amounts DEF Total
  <2> QED
    BY <1>1, <1>2, <2>1 DEF Excess
<1> QED
  BY <1>3, <1>4, <1>5

LEMMA DueCases ==
  /\ \A a \in Auths : Due[a] = IF Outstanding(a) THEN taken[a] ELSE IF HoldKey(a) \in posted THEN -Excess(a) ELSE 0
  /\ \A a \in Auths : Due'[a] = IF Outstanding(a)' THEN taken'[a] ELSE IF HoldKey(a) \in posted' THEN -(Excess(a)') ELSE 0
BY DEF Due, HoldKey

\* Where neither the keys about a nor its hold change, nothing more is due.
LEMMA DueStays ==
  ASSUME TypeOK, TypeOK', [Next]_vars, NEW a \in Auths,
         taken'[a] = taken[a],
         \A key \in {HoldKey(a), SettleKey(a), ReleaseKey(a), StaleKey(a)} : key \in posted' <=> key \in posted
  PROVE  Due'[a] <= Due[a]
<1>1. Outstanding(a)' <=> Outstanding(a)
  BY DEF Outstanding, Captured, Returned, HoldKey, SettleKey, ReleaseKey, StaleKey
<1>2. Excess(a) \in Nat /\ taken[a] \in Nat /\ Excess(a)' \in Nat /\ Excess(a) <= Excess(a)'
  BY DueTypes, ExcessGrows
<1> QED
  BY <1>1, <1>2, DueCases

\* Where no hold comes to be or ends, either.
LEMMA DueStaysWithHolds ==
  ASSUME TypeOK, TypeOK', [Next]_vars, NEW a \in Auths, taken'[a] = taken[a],
         HoldKey(a) \in posted' <=> HoldKey(a) \in posted,
         ~Outstanding(a), ~(Outstanding(a)')
  PROVE  Due'[a] <= Due[a]
<1>1. Excess(a) \in Nat /\ Excess(a)' \in Nat /\ Excess(a) <= Excess(a)'
  BY DueTypes, ExcessGrows
<1> QED
  BY <1>1, DueCases

\* A hold takes nothing from what is due to the others.
LEMMA DueToOthers ==
  ASSUME TypeOK, TypeOK', [Next]_vars, NEW a \in Auths,
         \/ \E n : Places(a, n)
         \/ \E n : Ends(a, n)
  PROVE  \A b \in Auths \ {a} : Due'[b] <= Due[b]
<1> SUFFICES ASSUME NEW b \in Auths \ {a} PROVE Due'[b] <= Due[b]
  OBVIOUS
<1>1. taken'[b] = taken[b]
  BY DEF Places, Ends, TypeOK
<1>2. PICK key \in {HoldKey(a), SettleKey(a), ReleaseKey(a), StaleKey(a)} : posted' = posted \cup {key}
  BY DEF Places, Ends
<1>3. key \notin {HoldKey(b), SettleKey(b), ReleaseKey(b), StaleKey(b)}
  BY <1>2, KeysDiffer
<1> QED
  BY <1>1, <1>2, <1>3, DueStays

LEMMA DueOnPlacing ==
  ASSUME TypeOK, TypeOK', [Next]_vars, NEW a \in Auths, NEW n \in Nat, Places(a, n)
  PROVE  Due'[a] <= Due[a] + n
<1>1. taken'[a] = n /\ HoldKey(a) \notin posted
  BY DEF Places, TypeOK
<1>2. Due[a] = 0
  BY <1>1, DueCases DEF Outstanding
<1>3. Excess(a)' \in Nat
  <2>1. row'[a] \in RowType /\ taken'[a] \in Nat
    BY Amounts DEF TypeOK
  <2> QED
    BY <2>1 DEF RowType, Excess
<1> QED
  BY <1>1, <1>2, <1>3, DueCases

LEMMA DueOnEnding ==
  ASSUME TypeOK, TypeOK', [Next]_vars, NEW a \in Auths, NEW n \in Int, Ends(a, n),
         n <= taken[a] + Excess(a)
  PROVE  Due'[a] <= Due[a] - n
<1>1. Outstanding(a) /\ taken'[a] = taken[a] /\ HoldKey(a) \in posted
  BY DEF Ends, Outstanding
<1>2. ~Outstanding(a)' /\ HoldKey(a) \in posted'
  BY <1>1 DEF Ends, Outstanding, Captured, Returned, SettleKey, ReleaseKey, StaleKey
<1>3. Excess(a) \in Nat /\ taken[a] \in Nat /\ Excess(a)' \in Nat /\ Excess(a) <= Excess(a)'
  BY <1>1, <1>2, DueTypes, ExcessGrows
<1> QED
  BY <1>1, <1>2, <1>3, DueCases

\* What a handler or the sweep takes out is covered.
LEMMA ReadIsCovered ==
  ASSUME TypeOK, NEW a \in Auths, HoldKey(a) \in posted, NEW r, Agrees(r, a)
  PROVE  Total(r) <= taken[a] + Excess(a)
<1>1. Excess(a) \in Nat /\ taken[a] \in Nat /\ row[a].amount \in Nat /\ row[a].fee \in Nat
  BY DueTypes
<1>2. CASE r = NoRow
  BY <1>1, <1>2 DEF Total, NoRow
<1>3. CASE Total(r) = Total(row[a])
  BY <1>1, <1>3 DEF Total, Excess
<1> QED
  BY <1>2, <1>3 DEF Agrees

LEMMA CoverStep ==
  ASSUME TypeOK, TypeOK', HoldInv, ContractInv, CoverInv, [Next]_vars
  PROVE  CoverInv'
<1>0. /\ \A a \in Auths : Due[a] \in Int /\ Due'[a] \in Int
      /\ bal["held"] \in Int /\ bal'["held"] \in Int
      /\ IsFiniteSet(Auths)
  <2>1. \A a \in Auths : row'[a] \in RowType /\ taken'[a] \in Nat
    BY Amounts DEF TypeOK
  <2>2. \A a \in Auths : Excess(a)' \in Nat
    BY <2>1 DEF RowType, Excess
  <2>3. \A a \in Auths : Due'[a] \in Int
    BY <2>1, <2>2, DueCases
  <2> QED
    BY <2>3, DueTypes, CardAssumption DEF TypeOK, Accounts
<1>1. ReadInv' /\ HoldsAreOurs' /\ drawn \in Int /\ drawn' \in Int
  BY ReadStep, HoldsStayOurs DEF CoverInv, TypeOK
<1>2. CASE UNCHANGED <<bal, posted, taken, drawn>>
  <2>1. \A a \in Auths : Due'[a] <= Due[a]
    BY <1>2, DueStays
  <2>2. SumOver(Due', Auths) <= SumOver(Due, Auths)
    BY <1>0, <2>1, SumOfSmaller
  <2>3. SumOver(Due', Auths) \in Int /\ SumOver(Due, Auths) \in Int
    BY <1>0, SumOfSame
  <2>4. TakenInv'
    BY <1>2 DEF CoverInv, TakenInv, HoldKey
  <2> QED
    BY <1>0, <1>1, <1>2, <2>2, <2>3, <2>4 DEF CoverInv
<1>3. ASSUME NEW a \in Auths, NEW n \in Nat, n >= Amount[a], Places(a, n) PROVE CoverInv'
  <2>1. \A b \in Auths \ {a} : Due'[b] <= Due[b]
    BY <1>3, DueToOthers
  <2>2. Due'[a] <= Due[a] + n
    BY <1>3, DueOnPlacing
  <2>3. SumOver(Due', Auths) <= SumOver(Due, Auths) + n
    BY <1>0, <2>1, <2>2, SumChanges
  <2>4. SumOver(Due', Auths) \in Int /\ SumOver(Due, Auths) \in Int
    BY <1>0, SumOfSame
  <2>5. TakenInv'
    BY <1>3, Amounts DEF CoverInv, TakenInv, Places, TypeOK, HoldKey
  <2> QED
    BY <1>0, <1>1, <1>3, <2>3, <2>4, <2>5 DEF CoverInv, Places
<1>4. ASSUME NEW a \in Auths, NEW n \in Int, Ends(a, n), n <= taken[a] + Excess(a) PROVE CoverInv'
  <2>1. \A b \in Auths \ {a} : Due'[b] <= Due[b]
    BY <1>4, DueToOthers
  <2>2. Due'[a] <= Due[a] + (-n)
    BY <1>0, <1>4, DueOnEnding
  <2>3. SumOver(Due', Auths) <= SumOver(Due, Auths) + (-n)
    BY <1>0, <2>1, <2>2, SumChanges
  <2>4. SumOver(Due', Auths) \in Int /\ SumOver(Due, Auths) \in Int
    BY <1>0, SumOfSame
  <2>5. TakenInv'
    <3>1. \A b \in Auths : HoldKey(b) \in posted' => HoldKey(b) \in posted
      BY <1>4, KeysDiffer DEF Ends
    <3>2. taken' = taken
      BY <1>4 DEF Ends
    <3> QED
      BY <3>1, <3>2 DEF CoverInv, TakenInv, HoldKey
  <2> QED
    BY <1>0, <1>1, <1>4, <2>3, <2>4, <2>5 DEF CoverInv, Ends
<1>5. ASSUME NEW e \in Events, hook[e].at = "ledger", StoredToken[e[1]] = e[1], Ends(e[1], HeldRead(e))
      PROVE  CoverInv'
  <2>1. e[1] \in Auths /\ hook[e].found \in RowType
    BY DEF Events, TypeOK
  <2>2. Agrees(hook[e].found, e[1])
    BY <1>5 DEF CoverInv, ReadInv, Busy
  <2>3. HoldKey(e[1]) \in posted
    BY <1>5 DEF Ends, Outstanding
  <2>4. HeldRead(e) \in Int
    BY <2>1, Amounts DEF HeldRead, RowType
  <2>5. HeldRead(e) <= taken[e[1]] + Excess(e[1])
    <3>1. CASE hook[e].found = NoRow
      BY <2>1, <2>3, <3>1, Amounts, DueTypes DEF HeldRead, CoverInv, TakenInv
    <3>2. CASE hook[e].found # NoRow
      BY <2>1, <2>2, <2>3, <3>2, ReadIsCovered DEF HeldRead, Total
    <3> QED
      BY <3>1, <3>2
  <2> QED
    BY <1>4, <1>5, <2>1, <2>4, <2>5
<1>6. ASSUME SweepRelease, sweep.token \in Auths, Ends(sweep.token, Total(sweep.found)) PROVE CoverInv'
  <2>1. sweep.found \in RowType /\ Agrees(sweep.found, sweep.token)
    BY <1>6 DEF TypeOK, SweepRelease, CoverInv, ReadInv
  <2>2. Total(sweep.found) \in Int
    BY <2>1 DEF RowType, Total
  <2>3. HoldKey(sweep.token) \in posted
    BY <1>6 DEF Ends, Outstanding
  <2> QED
    BY <1>4, <1>6, <2>1, <2>2, <2>3, ReadIsCovered
<1>7. ASSUME NEW d \in Deliveries, NEW fee \in FeesAsked(asa[d].auth), Places(asa[d].auth, Amount[asa[d].auth] + fee)
      PROVE  CoverInv'
  <2>1. asa[d].auth \in Auths
    BY DEF TypeOK
  <2>2. fee \in Nat /\ Amount[asa[d].auth] \in Nat
    BY <2>1, Amounts
  <2>3. Amount[asa[d].auth] + fee \in Nat /\ Amount[asa[d].auth] + fee >= Amount[asa[d].auth]
    BY <2>2
  <2> QED
    BY <1>3, <1>7, <2>1, <2>3
<1>8. ASSUME NEW x \in Tokens, NEW n \in Int, Draws(x, n) PROVE CoverInv'
  <2>1. PICK key \in {SettleKey(x), ReleaseKey(x), StaleKey(x)} : posted' = posted \cup {key}
    BY <1>8 DEF Draws
  <2>2. taken' = taken /\ \A a \in Auths : HoldKey(a) \in posted' <=> HoldKey(a) \in posted
    BY <1>8, <2>1, KeysDiffer DEF Draws
  <2>3. \A a \in Auths : Due'[a] <= Due[a]
    <3>1. ASSUME NEW a \in Auths, a # x PROVE Due'[a] <= Due[a]
      <4>1. key \notin {HoldKey(a), SettleKey(a), ReleaseKey(a), StaleKey(a)}
        BY <2>1, <3>1, KeysDiffer
      <4> QED
        BY <2>1, <2>2, <4>1, DueStays
    <3>2. ASSUME x \in Auths PROVE Due'[x] <= Due[x]
      <4>1. ~Outstanding(x)
        BY <1>8, <3>2 DEF Draws
      <4>2. ~(Outstanding(x)')
        BY <2>1, <2>2, <3>2, <4>1 DEF Outstanding, Captured, Returned, HoldKey, SettleKey, ReleaseKey, StaleKey
      <4> QED
        BY <2>2, <3>2, <4>1, <4>2, DueStaysWithHolds
    <3> QED
      BY <3>1, <3>2
  <2>4. SumOver(Due', Auths) <= SumOver(Due, Auths)
    BY <1>0, <2>3, SumOfSmaller
  <2>5. SumOver(Due', Auths) \in Int /\ SumOver(Due, Auths) \in Int
    BY <1>0, SumOfSame
  <2>6. TakenInv'
    BY <2>2 DEF CoverInv, TakenInv, HoldKey
  <2> QED
    BY <1>0, <1>1, <1>8, <2>4, <2>5, <2>6 DEF CoverInv, Draws
<1> QED
  BY <1>2, <1>5, <1>6, <1>7, <1>8, HeldMoves DEF CoverInv

\* The two sums of the property, as sums over functions.
OpenHolds == [a \in Auths |-> IF Outstanding(a) THEN taken[a] ELSE 0]

Excesses == [a \in Auths |-> Excess(a)]

LEMMA OutstandingIsSum ==
  ASSUME TypeOK
  PROVE  OutstandingHolds = SumOver(OpenHolds, Auths) /\ OutstandingHolds \in Int
<1> DEFINE R == {a \in Auths : Outstanding(a)}
<1>1. OutstandingHolds = SumOver(taken, R)
  BY DEF OutstandingHolds, SumOver
<1>2. \A a \in Auths : taken[a] \in Int /\ OpenHolds[a] = IF Outstanding(a) THEN taken[a] ELSE 0
  BY DEF TypeOK, OpenHolds
<1>3. IsFiniteSet(Auths) /\ IsFiniteSet(R)
  BY CardAssumption, FS_Subset
<1>4. SumOver(taken, R) = SumOver(OpenHolds, R) /\ SumOver(taken, R) \in Int
  BY <1>2, <1>3, SumOfSame
<1>5. SumOver(OpenHolds, Auths) = SumOver(OpenHolds, R)
  BY <1>2, <1>3, SumWithoutZeros
<1> QED
  BY <1>1, <1>4, <1>5

LEMMA OverstatedIsSum == Overstated = SumOver(Excesses, Auths)
<1> DEFINE Eq(iter) == iter = [s \in SUBSET Auths |-> IF s = {} THEN 0
                                 ELSE Excess(CHOOSE x \in s : TRUE) + iter[s \ {CHOOSE x \in s : TRUE}]]
<1>0. IsFiniteSet(Auths)
  BY CardAssumption
<1>1. \A s \in SUBSET Auths : s # {} => Excesses[Choice(s)] = Excess(CHOOSE x \in s : TRUE)
  <2> SUFFICES ASSUME NEW s \in SUBSET Auths, s # {} PROVE Excesses[Choice(s)] = Excess(CHOOSE x \in s : TRUE)
    OBVIOUS
  <2>1. Choice(s) \in Auths
    BY ChoiceIn
  <2>2. Excesses[Choice(s)] = Excess(Choice(s))
    BY <2>1 DEF Excesses
  <2> QED
    BY <2>2 DEF Choice
<1>2. \A iter : Iter(Excesses, Auths, iter) <=> Eq(iter)
  BY <1>1 DEF Iter, Choice
<1>3. PICK iter : Iter(Excesses, Auths, iter) /\ \A s \in SUBSET Auths : SumOver(Excesses, s) = iter[s]
  BY <1>0, Solution
<1>4. PICK solution : solution = CHOOSE i : Eq(i)
  OBVIOUS
<1>5. Overstated = solution[Auths]
  BY <1>4 DEF Overstated, MapThenSumSet, MapThenFoldSet
<1>6. Eq(solution)
  <2> HIDE DEF Eq
  <2>1. \E i : Eq(i)
    BY <1>2, <1>3
  <2>2. Eq(CHOOSE i : Eq(i))
    BY <2>1, Zenon
  <2> QED
    BY <1>4, <2>2
<1>7. Iter(Excesses, Auths, solution)
  BY <1>2, <1>6
<1> HIDE DEF Eq
<1>8. solution[Auths] = iter[Auths]
  BY <1>0, <1>3, <1>7, Unique
<1> QED
  BY <1>3, <1>5, <1>8

LEMMA CoverIsEnough ==
  ASSUME TypeOK, CoverInv
  PROVE  HeldCovers
<1> DEFINE both == [a \in Auths |-> Due[a] + Excess(a)]
<1>0. IsFiniteSet(Auths) /\ bal["held"] \in Int /\ drawn \in Int
  BY CardAssumption DEF TypeOK, Accounts
<1>1. \A a \in Auths : /\ Due[a] \in Int /\ Excesses[a] = Excess(a) /\ Excesses[a] \in Int
                       /\ both[a] \in Int /\ both[a] = Due[a] + Excesses[a] /\ OpenHolds[a] \in Int
                       /\ OpenHolds[a] <= both[a]
  <2> SUFFICES ASSUME NEW a \in Auths
               PROVE  /\ Due[a] \in Int /\ Excesses[a] = Excess(a) /\ Excesses[a] \in Int
                      /\ both[a] \in Int /\ both[a] = Due[a] + Excesses[a] /\ OpenHolds[a] \in Int
                      /\ OpenHolds[a] <= both[a]
    OBVIOUS
  <2>1. Due[a] \in Int /\ Excess(a) \in Nat /\ taken[a] \in Nat
    BY DueTypes
  <2>2. Due[a] = IF Outstanding(a) THEN taken[a] ELSE IF HoldKey(a) \in posted THEN -Excess(a) ELSE 0
    BY DueCases
  <2>3. OpenHolds[a] = (IF Outstanding(a) THEN taken[a] ELSE 0) /\ Excesses[a] = Excess(a)
    BY DEF OpenHolds, Excesses
  <2>4. both[a] = Due[a] + Excess(a)
    OBVIOUS
  <2> HIDE DEF both
  <2> QED
    BY <2>1, <2>2, <2>3, <2>4
<1> HIDE DEF both
<1>2. SumOver(both, Auths) = SumOver(Due, Auths) + SumOver(Excesses, Auths)
  BY <1>0, <1>1, SumOfSums
<1>3. SumOver(OpenHolds, Auths) <= SumOver(both, Auths)
  BY <1>0, <1>1, SumOfSmaller
<1>4. SumOver(Due, Auths) \in Int /\ SumOver(Excesses, Auths) \in Int
  BY <1>0, <1>1, SumOfSame
<1> QED
  BY <1>0, <1>2, <1>3, <1>4, OutstandingIsSum, OverstatedIsSum DEF CoverInv, HeldCovers

LEMMA CoverInit == Init => CoverInv
<1> SUFFICES ASSUME Init PROVE CoverInv
  OBVIOUS
<1>1. posted = {} /\ sweep.at = "idle" /\ (\A e \in Events : hook[e].at \notin Busy) /\ bal["held"] = 0 /\ drawn = 0
  BY DEF Init, NotSweeping, Busy, NoBalance, Accounts
<1>2. \A a \in Auths : Due[a] = 0
  BY <1>1, DueCases DEF Outstanding
<1>3. SumOver(Due, {}) = 0
  BY SumUnfolds, FS_EmptySet
<1>4. SumOver(Due, Auths) = SumOver(Due, {})
  BY <1>2, CardAssumption, SumWithoutZeros
<1> QED
  BY <1>1, <1>3, <1>4 DEF CoverInv, TakenInv, ReadInv, HoldsAreOurs

\* The held balance covers every open hold, for any authorizations, duplicates, failures, restarts,
\* replays and outages and whatever redact() leaves of the tokens: no webhook or sweep takes out of
\* it what belongs to another hold, but for what a row says its hold took and it did not, and for
\* what is drawn under a token redact() left or about a transaction the sweep misjudged.
THEOREM HeldCoversCorrect == Spec => []HeldCovers
<1>1. Init => (TypeOK /\ HoldInv) /\ ContractInv /\ CoverInv
  BY InitHolds, ContractInit, CoverInit
<1>2. (TypeOK /\ HoldInv) /\ ContractInv /\ CoverInv /\ [Next]_vars
        => (TypeOK /\ HoldInv)' /\ ContractInv' /\ CoverInv'
  BY TypeStep, HoldStep, KeysStep, RowsStep, SweepingStep, CoverStep DEF ContractInv
<1>3. TypeOK /\ CoverInv => HeldCovers
  BY CoverIsEnough
<1> QED
  BY <1>1, <1>2, <1>3, PTL DEF Spec
=============================================================================
