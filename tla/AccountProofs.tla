---------------------------- MODULE AccountProofs -----------------------------
(***************************************************************************)
(* Theorems about two models that stand on their own: Billing, for any     *)
(* accounts, prices, days of grace, length of a month and bounds, and      *)
(* Feed, for any rows, tables, page sizes and bounds.  They have no        *)
(* variable in common, and each theorem is about one of them.              *)
(***************************************************************************)
EXTENDS Billing, Feed, FiniteSetTheorems, WellFoundedInduction, TLAPS

-----------------------------------------------------------------------------
(* Billing.                                                                *)

\* The pass has still to deal with u.
InPlay(u) == u \in pass.todo \/ u = pass.user

\* u has paid and its clock is about to be stopped.
Charged(u) == pass.pc = "charged" /\ u = pass.user

\* What a pass knows of the accounts it has still to deal with is out of date only where staff
\* changed the plan, which stops the clock.
PassInv ==
  /\ pass.pc = "idle" <=> pass = Resting
  /\ pass.user \notin pass.todo
  /\ pass.today <= day
  /\ pass.pc # "idle" => pass.today \in 1..LastDay
  /\ \A u \in Users :
       InPlay(u) => since[u] = pass.since[u] \/ (u \in touched /\ since[u] = 0)

\* A clock that is not misdated was started no earlier than the first failure.
ClockInv ==
  \A u \in Users :
    /\ failing[u] <= day /\ since[u] <= day
    /\ pass.pc # "idle" => failing[u] <= pass.today /\ since[u] <= pass.today
    /\ (pass.pc = "unpaid" /\ u = pass.user) => (failing[u] # 0 \/ u \in touched)
    /\ (since[u] # 0 /\ u \notin misdated /\ ~Charged(u)) =>
          failing[u] # 0 /\ failing[u] <= since[u]

\* No month is paid ahead, and while such a clock runs its month is not paid.
PaidInv ==
  \A u \in Users :
    /\ \A m \in paid[u] : m <= Month(day) /\ (pass.pc # "idle" => m <= Month(pass.today))
    /\ (pass.pc \in {"charge", "unpaid"} /\ u = pass.user) => Month(pass.today) \notin paid[u]
    /\ Charged(u) => Month(pass.today) \in paid[u]
    /\ (since[u] # 0 /\ u \notin misdated /\ ~Charged(u)) => \A m \in paid[u] : m < Month(since[u])

Settled(u) ==
  \/ Month(pass.today) \in paid[u] /\ since[u] = 0
  \/ plan[u] = "STARTER"
  \/ since[u] # 0 /\ pass.today - since[u] < DunningDays

\* The accounts the pass has dealt with are settled.
SettledInv ==
  pass.pc # "idle" =>
    \A u \in Users \ (touched \cup misdated) : (Fee(u) > 0 /\ ~InPlay(u)) => Settled(u)

-----------------------------------------------------------------------------
LEMMA MonthMonotone ==
  ASSUME NEW a \in 1..LastDay, NEW b \in 1..LastDay, a <= b
  PROVE  Month(a) <= Month(b)
  BY BillingAssumption DEF Month

LEMMA MonthType ==
  ASSUME NEW d \in 1..LastDay
  PROVE  Month(d) \in Months /\ Month(d) \in Nat
  BY BillingAssumption DEF Month, Months

LEMMA BillingInit == Init => TypeOK /\ PassInv /\ ClockInv /\ PaidInv /\ SettledInv
<1> SUFFICES ASSUME Init PROVE TypeOK /\ PassInv /\ ClockInv /\ PaidInv /\ SettledInv
  OBVIOUS
<1> USE BillingAssumption DEF Init, Resting, InPlay, Charged
<1>1. TypeOK
  BY DEF TypeOK, Plans
<1>2. PassInv
  BY DEF PassInv
<1>3. ClockInv
  <2> SUFFICES ASSUME NEW u \in Users PROVE ClockInv!(u)
    BY DEF ClockInv
  <2>1. pass.pc = "idle" /\ day = 1 /\ failing[u] = 0 /\ since[u] = 0
    OBVIOUS
  <2> QED
    BY <2>1
<1>4. PaidInv
  BY DEF PaidInv
<1>5. SettledInv
  BY DEF SettledInv
<1> QED
  BY <1>1, <1>2, <1>3, <1>4, <1>5

LEMMA BillingTypeStep == TypeOK /\ PassInv /\ [Next]_vars => TypeOK'
<1> SUFFICES ASSUME TypeOK, PassInv, [Next]_vars PROVE TypeOK'
  OBVIOUS
<1> USE BillingAssumption DEF TypeOK, account, history
<1>1. CASE Tick
  BY <1>1 DEF Tick
<1>2. ASSUME NEW u \in Users, Deposit(u) PROVE TypeOK'
  BY <1>2 DEF Deposit
<1>3. ASSUME NEW u \in Users, Spend(u) PROVE TypeOK'
  BY <1>3 DEF Spend
<1>4. ASSUME NEW u \in Users, NEW p \in Plans, SetPlan(u, p) PROVE TypeOK'
  BY <1>4 DEF SetPlan
<1>5. ASSUME NEW u \in Users, Consider(u) PROVE TypeOK'
  BY <1>5 DEF Consider
<1>6. CASE StartPass
  BY <1>6 DEF StartPass
<1>7. CASE Collect
  <2>1. Month(pass.today) \in Months
    BY <1>7, MonthType DEF Collect, PassInv
  <2>2. Fee(pass.user) \in Nat
    BY <1>7 DEF Collect, Fee
  <2> QED
    BY <1>7, <2>1, <2>2 DEF Collect, Go
<1>8. CASE StopClock
  <2>1. since' \in [Users -> 0..LastDay] /\ misdated' \subseteq Users
    BY <1>8 DEF StopClock
  <2> QED
    BY <1>8, <2>1 DEF StopClock, NextUser
<1>9. CASE Insufficient
  BY <1>9 DEF Insufficient, Go
<1>10. CASE Downgrade
  <2>1. plan' \in [Users -> Plans] /\ since' \in [Users -> 0..LastDay] /\ misdated' \subseteq Users
    BY <1>10 DEF Downgrade, Plans
  <2> QED
    BY <1>10, <2>1 DEF Downgrade, NextUser
<1>11. CASE StartClock
  BY <1>11 DEF StartClock, NextUser
<1>12. CASE FinishPass
  BY <1>12 DEF FinishPass, Resting, Plans
<1>13. CASE PassDies
  BY <1>13 DEF PassDies, Resting, Plans, PassInv
<1>14. CASE UNCHANGED vars
  BY <1>14 DEF vars
<1> QED
  BY <1>1, <1>2, <1>3, <1>4, <1>5, <1>6, <1>7, <1>8, <1>9, <1>10, <1>11, <1>12, <1>13, <1>14
  DEF Next

LEMMA PassStep == TypeOK /\ PassInv /\ [Next]_vars => PassInv'
<1> SUFFICES ASSUME TypeOK, PassInv, [Next]_vars PROVE PassInv'
  OBVIOUS
<1> USE BillingAssumption DEF TypeOK, PassInv, InPlay, account, history
<1>1. CASE Tick
  BY <1>1 DEF Tick, Resting
<1>2. ASSUME NEW u \in Users, Deposit(u) \/ Spend(u) PROVE PassInv'
  BY <1>2 DEF Deposit, Spend, Resting
<1>4. ASSUME NEW u \in Users, NEW p \in Plans, SetPlan(u, p) PROVE PassInv'
  BY <1>4 DEF SetPlan, Resting
<1>5. ASSUME NEW u \in Users, Consider(u) PROVE PassInv'
  BY <1>5 DEF Consider, Resting
<1>6. CASE StartPass
  BY <1>6 DEF StartPass, Resting
<1>7. CASE Collect \/ Insufficient
  BY <1>7 DEF Collect, Insufficient, Go, Resting
<1>8. CASE StopClock
  BY <1>8 DEF StopClock, NextUser, Resting
<1>10. CASE Downgrade
  BY <1>10 DEF Downgrade, NextUser, Resting
<1>11. CASE StartClock
  BY <1>11 DEF StartClock, NextUser, Resting
<1>12. CASE FinishPass \/ PassDies
  BY <1>12 DEF FinishPass, PassDies, Resting
<1>14. CASE UNCHANGED vars
  BY <1>14 DEF vars, Resting
<1> QED
  BY <1>1, <1>2, <1>4, <1>5, <1>6, <1>7, <1>8, <1>10, <1>11, <1>12, <1>14 DEF Next

LEMMA ClockStep == TypeOK /\ PassInv /\ ClockInv /\ [Next]_vars => ClockInv'
<1> SUFFICES ASSUME TypeOK, PassInv, ClockInv, [Next]_vars, NEW v \in Users
             PROVE  ClockInv!(v)'
  BY DEF ClockInv
<1> USE BillingAssumption DEF TypeOK, PassInv, ClockInv, InPlay, Charged, account, history
<1>1. CASE Tick
  BY <1>1 DEF Tick
<1>2. ASSUME NEW u \in Users, Deposit(u) \/ Spend(u) PROVE ClockInv!(v)'
  BY <1>2 DEF Deposit, Spend
<1>4. ASSUME NEW u \in Users, NEW p \in Plans, SetPlan(u, p) PROVE ClockInv!(v)'
  BY <1>4 DEF SetPlan, Resting
<1>5. ASSUME NEW u \in Users, Consider(u) PROVE ClockInv!(v)'
  BY <1>5 DEF Consider
<1>6. CASE StartPass
  BY <1>6 DEF StartPass, Resting
<1>7. CASE Collect
  BY <1>7 DEF Collect, Go
<1>8. CASE StopClock
  BY <1>8 DEF StopClock, NextUser, ClockRunning
<1>9. CASE Insufficient
  BY <1>9 DEF Insufficient, Go
<1>10. CASE Downgrade
  BY <1>10 DEF Downgrade, NextUser
<1>11. CASE StartClock
  BY <1>11 DEF StartClock, NextUser, ClockRunning
<1>12. CASE FinishPass
  BY <1>12 DEF FinishPass, Resting
<1>13. CASE PassDies
  BY <1>13 DEF PassDies, Resting, ClockRunning
<1>14. CASE UNCHANGED vars
  BY <1>14 DEF vars
<1> QED
  BY <1>1, <1>2, <1>4, <1>5, <1>6, <1>7, <1>8, <1>9, <1>10, <1>11, <1>12, <1>13, <1>14 DEF Next

LEMMA PaidStep == TypeOK /\ PassInv /\ ClockInv /\ PaidInv /\ [Next]_vars => PaidInv'
<1> SUFFICES ASSUME TypeOK, PassInv, ClockInv, PaidInv, [Next]_vars, NEW v \in Users
             PROVE  PaidInv!(v)'
  BY DEF PaidInv
<1>0. /\ \A d \in 1..LastDay : Month(d) \in Nat
      /\ \A a, b \in 1..LastDay : a <= b => Month(a) <= Month(b)
      /\ \A m \in paid[v] : m \in Nat
  BY MonthType, MonthMonotone DEF TypeOK, Months
<1> USE BillingAssumption, <1>0 DEF TypeOK, PassInv, ClockInv, PaidInv, InPlay, Charged, account, history
<1>1. CASE Tick
  <2>1. day' \in 1..LastDay /\ Month(day) <= Month(day')
    BY <1>1 DEF Tick
  <2> QED
    BY <1>1, <2>1 DEF Tick
<1>2. ASSUME NEW u \in Users, Deposit(u) \/ Spend(u) PROVE PaidInv!(v)'
  BY <1>2 DEF Deposit, Spend
<1>4. ASSUME NEW u \in Users, NEW p \in Plans, SetPlan(u, p) PROVE PaidInv!(v)'
  BY <1>4 DEF SetPlan, Resting
<1>5. ASSUME NEW u \in Users, Consider(u) PROVE PaidInv!(v)'
  BY <1>5 DEF Consider
<1>6. CASE StartPass
  BY <1>6 DEF StartPass, Resting
<1>7. CASE Collect
  <2>1. paid' = [paid EXCEPT ![pass.user] = @ \cup {Month(pass.today)}]
        /\ pass'.pc = "charged" /\ pass'.user = pass.user /\ pass'.today = pass.today
        /\ UNCHANGED <<day, since, misdated>> /\ pass.pc = "charge"
    BY <1>7 DEF Collect, Go
  <2>2. Month(pass.today) <= Month(day)
    BY <2>1
  <2>3. CASE v = pass.user
    BY <2>1, <2>2, <2>3
  <2>4. CASE v # pass.user
    BY <2>1, <2>4
  <2> QED
    BY <2>3, <2>4
<1>8. CASE StopClock
  BY <1>8 DEF StopClock, NextUser, ClockRunning
<1>9. CASE Insufficient
  BY <1>9 DEF Insufficient, Go
<1>10. CASE Downgrade
  BY <1>10 DEF Downgrade, NextUser
<1>11. CASE StartClock
  <2>1. pass.pc = "unpaid" /\ pass'.pc = "next" /\ pass'.user = NoUser /\ pass'.today = pass.today
        /\ UNCHANGED <<day, paid>> /\ misdated \subseteq misdated'
        /\ since' = IF ClockRunning(pass.user) THEN since ELSE [since EXCEPT ![pass.user] = pass.today]
    BY <1>11 DEF StartClock, NextUser
  <2>2. CASE v = pass.user /\ ~ClockRunning(v)
    <3>1. \A m \in paid[v] : m <= Month(pass.today) /\ m # Month(pass.today)
      BY <2>1, <2>2
    <3>2. since'[v] = pass.today
      BY <2>1, <2>2
    <3>3. \A m \in paid'[v] : m < Month(since'[v])
      <4> SUFFICES ASSUME NEW m \in paid[v] PROVE m < Month(pass.today)
        BY <2>1, <3>2
      <4>1. m \in Nat /\ Month(pass.today) \in Nat /\ m <= Month(pass.today) /\ m # Month(pass.today)
        BY <1>0, <2>1, <3>1
      <4> QED
        BY ONLY <4>1
    <3>4. Month(day') = Month(day) /\ Month(pass'.today) = Month(pass.today)
      BY <2>1
    <3> QED
      BY <2>1, <3>3, <3>4
  <2>3. CASE v # pass.user \/ ClockRunning(v)
    <3>1. since'[v] = since[v]
      BY <2>1, <2>3
    <3> QED
      BY <2>1, <3>1
  <2> QED
    BY <2>2, <2>3
<1>12. CASE FinishPass
  BY <1>12 DEF FinishPass, Resting
<1>13. CASE PassDies
  BY <1>13 DEF PassDies, Resting, ClockRunning
<1>14. CASE UNCHANGED vars
  BY <1>14 DEF vars
<1> QED
  BY <1>1, <1>2, <1>4, <1>5, <1>6, <1>7, <1>8, <1>9, <1>10, <1>11, <1>12, <1>13, <1>14 DEF Next

LEMMA SettledStep ==
  TypeOK /\ PassInv /\ ClockInv /\ PaidInv /\ SettledInv /\ [Next]_vars => SettledInv'
<1> SUFFICES ASSUME TypeOK, PassInv, ClockInv, PaidInv, SettledInv, [Next]_vars,
                    pass'.pc # "idle", NEW v \in Users, v \notin touched' \cup misdated',
                    (Fee(v) > 0)', ~InPlay(v)'
             PROVE  Settled(v)'
  BY DEF SettledInv
<1>0. /\ \A d \in 1..LastDay : Month(d) \in Nat
      /\ \A a, b \in 1..LastDay : a <= b => Month(a) <= Month(b)
  BY MonthType, MonthMonotone DEF Months
<1> USE BillingAssumption, <1>0
    DEF TypeOK, PassInv, ClockInv, PaidInv, SettledInv, InPlay, Charged, Settled, Fee, account, history
<1>1. CASE Tick
  BY <1>1 DEF Tick
<1>2. ASSUME NEW u \in Users, Deposit(u) \/ Spend(u) PROVE Settled(v)'
  BY <1>2 DEF Deposit, Spend
<1>4. ASSUME NEW u \in Users, NEW p \in Plans, SetPlan(u, p) PROVE Settled(v)'
  BY <1>4 DEF SetPlan, Resting
<1>5. ASSUME NEW u \in Users, Consider(u) PROVE Settled(v)'
  BY <1>5 DEF Consider
<1>6. CASE StartPass
  BY <1>6 DEF StartPass, Resting
<1>7. CASE Collect
  BY <1>7 DEF Collect, Go
<1>8. CASE StopClock
  BY <1>8 DEF StopClock, NextUser, ClockRunning
<1>9. CASE Insufficient
  BY <1>9 DEF Insufficient, Go
<1>10. CASE Downgrade
  BY <1>10 DEF Downgrade, NextUser
<1>11. CASE StartClock
  BY <1>11 DEF StartClock, NextUser, ClockRunning, OutOfRoad
<1>12. CASE FinishPass
  BY <1>12 DEF FinishPass, Resting
<1>13. CASE PassDies
  BY <1>13 DEF PassDies, Resting
<1>14. CASE UNCHANGED vars
  BY <1>14 DEF vars
<1> QED
  BY <1>1, <1>2, <1>4, <1>5, <1>6, <1>7, <1>8, <1>9, <1>10, <1>11, <1>12, <1>13, <1>14 DEF Next

-----------------------------------------------------------------------------
BillingInv == TypeOK /\ PassInv /\ ClockInv /\ PaidInv /\ SettledInv

LEMMA BillingInvariant == Spec => []BillingInv
<1>1. Init => BillingInv
  BY BillingInit DEF BillingInv
<1>2. BillingInv /\ [Next]_vars => BillingInv'
  BY BillingTypeStep, PassStep, ClockStep, PaidStep, SettledStep DEF BillingInv
<1> QED
  BY <1>1, <1>2, PTL DEF Spec

\* Every variable of the billing pass keeps its type (chargeDuePlans, setPlan).
THEOREM BillingTypeCorrect == Spec => []TypeOK
<1>1. BillingInv => TypeOK
  BY DEF BillingInv
<1> QED
  BY <1>1, BillingInvariant, PTL

\* For any accounts, prices and lengths of the grace, the job takes a plan away only when the fee
\* has been due for that long (the downgrade in chargeDuePlans).
THEOREM GraceRespectedCorrect == Spec => GraceRespected
<1>1. BillingInv /\ [Next]_vars =>
        [ \A u \in Users : (Downgrade /\ u = pass.user /\ u \notin touched \cup misdated) =>
            /\ failing[u] # 0
            /\ pass.today - failing[u] >= DunningDays ]_vars
  <2> SUFFICES ASSUME BillingInv, NEW u \in Users, Downgrade, u = pass.user, u \notin touched \cup misdated
               PROVE  failing[u] # 0 /\ pass.today - failing[u] >= DunningDays
    OBVIOUS
  <2>1. since[u] = pass.since[u] /\ failing[u] # 0 /\ pass.pc = "unpaid"
    BY DEF BillingInv, PassInv, ClockInv, InPlay, Downgrade
  <2>2. failing[u] \in Nat /\ since[u] \in Nat /\ pass.today \in Nat /\ DunningDays \in Nat
    BY BillingAssumption DEF BillingInv, TypeOK
  <2>3. CASE ClockRunning(u)
    <3>1. failing[u] <= since[u]
      BY <2>1, <2>3 DEF BillingInv, ClockInv, ClockRunning, Charged
    <3>2. pass.today - since[u] >= DunningDays
      BY <2>1, <2>3 DEF Downgrade, OutOfRoad
    <3> QED
      BY <2>1, <2>2, <3>1, <3>2
  <2>4. CASE ~ClockRunning(u)
    <3>1. failing[u] <= pass.today
      BY <2>1 DEF BillingInv, ClockInv
    <3>2. pass.today - pass.today >= DunningDays
      BY <2>4 DEF Downgrade, OutOfRoad
    <3> QED
      BY <2>1, <2>2, <3>1, <3>2
  <2> QED
    BY <2>3, <2>4
<1> QED
  BY <1>1, BillingInvariant, PTL DEF Spec, GraceRespected

\* For any of them, a pass that comes to its end leaves every account it found on a plan with a fee
\* paid, on Starter or with a clock that has not run out (chargeDuePlans).
THEOREM PassSettlesCorrect == Spec => PassSettles
<1>1. BillingInv /\ [Next]_vars =>
        [ FinishPass => \A u \in Users \ (touched \cup misdated) :
            Fee(u) > 0 =>
              \/ Month(pass.today) \in paid[u] /\ since[u] = 0
              \/ plan[u] = "STARTER"
              \/ since[u] # 0 /\ pass.today - since[u] < DunningDays ]_vars
  <2> SUFFICES ASSUME BillingInv, FinishPass, NEW u \in Users \ (touched \cup misdated), Fee(u) > 0
               PROVE  Settled(u)
    BY DEF Settled
  <2>1. ~InPlay(u) /\ pass.pc = "next"
    BY BillingAssumption DEF FinishPass, InPlay, BillingInv, TypeOK
  <2> QED
    BY <2>1 DEF BillingInv, SettledInv
<1> QED
  BY <1>1, BillingInvariant, PTL DEF Spec, PassSettles

-----------------------------------------------------------------------------
(* The transaction feed.                                                   *)

\* Rows have the times they were written at, and what was visible once is visible or has left.
RowsInv ==
  /\ now > 0
  /\ visible \cap left = {}
  /\ \A r \in visible \cup left : createdAt[r] # 0
  /\ known \subseteq visible \cup left
  /\ fetched \subseteq visible \cup left
  /\ \A i \in DOMAIN pages : pages[i] \subseteq visible \cup left

\* A row the feed owes its reader.
Covered(r) == r \in known \cap visible /\ ~Tied(r)

\* The page P reaches as far back as r.
Behind(P, r) == \E p \in P : createdAt[p] <= createdAt[r]

\* A cursor lies at the end of the pages there are, and a page that announces another has rows.
PageInv ==
  /\ asking => (cursor = 0 <=> pages = <<>>)
  /\ cursor # 0 =>
       /\ asking
       /\ \A i \in DOMAIN pages : \A p \in pages[i] : createdAt[p] >= cursor
  /\ \A r \in fetched : Before(r)
  /\ hasMore => pages # <<>> /\ pages[Len(pages)] # {}
  /\ ~asking => unread = {} /\ fetched = {}

\* The rows that a request has read and that come before r.
Newer(r) == {q \in fetched : createdAt[q] > createdAt[r]}

\* How far r has come: it is on a page, or behind the last one, or the request that would find it
\* has not read its table, or has read it, or has read more rows before r than a page holds.
ShownOf(r) ==
  /\ ~asking /\ pages # <<>> => r \in Shown \/ (hasMore /\ ~Behind(pages[Len(pages)], r))
  /\ asking /\ ~Before(r) => r \in Shown
  /\ asking /\ Before(r) /\ TableOf[r] \notin unread =>
       r \in fetched \/ Cardinality(Newer(r)) >= FetchSize

ShownInv == \A r \in Rows : Covered(r) => ShownOf(r)

\* No row has left the filter, and none is tied.
Clean == left = {} /\ ~\E r \in Rows : createdAt[r] # 0 /\ Tied(r)

\* There is a row for the page that was announced, visible to the request that asks for it.
More ==
  /\ ~asking /\ hasMore => \E r \in visible : ~Behind(pages[Len(pages)], r)
  /\ cursor # 0 => \E r \in visible : Before(r) /\ (TableOf[r] \in unread \/ fetched # {})

MoreInv == Clean => More

NoneEmpty == \A i \in DOMAIN pages : i > 1 => pages[i] # {}

FeedInv ==
  /\ FeedTypeOK /\ RowsInv /\ PageInv /\ PagesInOrder
  /\ ShownInv /\ MoreInv /\ NoEmptyPage

-----------------------------------------------------------------------------
LEMMA NatOrder ==
  \E R : IsWellFoundedOn(R, Nat) /\ \A m, n \in Nat : n < m => <<n, m>> \in R
<1>1. \A m, n \in Nat : n < m => <<n, m>> \in {ss \in Nat \X Nat : ss[1] < ss[2]}
  OBVIOUS
<1>2. IsWellFoundedOn({ss \in Nat \X Nat : ss[1] < ss[2]}, Nat)
  BY NatLessThanWellFounded DEF OpToRel
<1> QED
  BY <1>1, <1>2, Zenon

LEMMA MinIsLeast ==
  ASSUME NEW T \in SUBSET Nat, T # {}
  PROVE  Min(T) \in T /\ \A n \in T : Min(T) <= n
<1>1. PICK R : IsWellFoundedOn(R, Nat) /\ \A m, n \in Nat : n < m => <<n, m>> \in R
  BY NatOrder
<1>2. \E m \in T : \A n \in T : ~(<<n, m>> \in R)
  BY <1>1, WFMin, Zenon
<1>3. PICK m \in T : \A n \in T : ~(<<n, m>> \in R)
  BY <1>2
<1>4. ASSUME NEW n \in T PROVE m <= n
  <2>1. n < m => <<n, m>> \in R
    BY <1>1
  <2>2. ~(n < m)
    BY <1>3, <2>1, Zenon
  <2> QED
    BY <2>2
<1>5. \E x \in T : \A y \in T : x =< y
  BY <1>4
<1> QED
  BY <1>5, Zenon DEF Min

LEMMA FetchIsTwoPages == FetchSize \in Nat /\ FetchSize > PageSize
  BY FeedAssumption DEF FetchSize

LEMMA FiniteRows ==
  ASSUME NEW R \in SUBSET Rows
  PROVE  IsFiniteSet(R) /\ Cardinality(R) \in Nat
  BY FeedAssumption, FS_Subset, FS_CardinalityType, Zenon

\* What ORDER BY with LIMIT takes.
LEMMA NewestTakes ==
  ASSUME NEW n \in Nat, NEW R \in SUBSET Rows, NEW P \in Newest(n, R)
  PROVE  /\ P \in SUBSET R
         /\ Cardinality(P) <= n
         /\ Cardinality(R) <= n => P = R
         /\ Cardinality(R) > n => Cardinality(P) = n
         /\ \A p \in P, q \in R \ P : createdAt[p] >= createdAt[q]
<1>1. P \in SUBSET R /\ IsFiniteSet(R) /\ Cardinality(R) \in Nat
  BY FiniteRows DEF Newest
<1>2. Cardinality(P) = IF Cardinality(R) < n THEN Cardinality(R) ELSE n
  BY DEF Newest
<1>3. Cardinality(R) = Cardinality(P) => R = P
  BY <1>1, FS_Subset, Zenon
<1>4. \A p \in P, q \in R \ P : createdAt[p] >= createdAt[q]
  BY DEF Newest
<1> QED
  BY <1>1, <1>2, <1>3, <1>4

LEMMA NewestIsNotEmpty ==
  ASSUME NEW n \in Nat, n > 0, NEW R \in SUBSET Rows, R # {}, NEW P \in Newest(n, R)
  PROVE  P # {}
<1>1. Cardinality(R) <= n => P # {}
  BY NewestTakes
<1>2. Cardinality(R) > n => Cardinality(P) # 0
  BY NewestTakes
<1>3. P = {} => Cardinality(P) = 0
  BY FS_EmptySet, Zenon
<1> QED
  BY <1>1, <1>2, <1>3, FiniteRows

-----------------------------------------------------------------------------
LEMMA FeedTypeStep == FeedTypeOK /\ PageInv /\ [FeedNext]_feedVars => FeedTypeOK'
<1> SUFFICES ASSUME FeedTypeOK, PageInv, [FeedNext]_feedVars PROVE FeedTypeOK'
  OBVIOUS
<1> USE FeedAssumption DEF FeedTypeOK, rows, request, feed
<1>1. CASE Clock
  BY <1>1 DEF Clock
<1>2. ASSUME NEW r \in Rows, Write(r) \/ Commit(r) \/ Leaves(r) PROVE FeedTypeOK'
  BY <1>2 DEF Write, Commit, Leaves
<1>3. CASE Open
  <2>1. pages' \in Seq(SUBSET Rows)
    BY <1>3 DEF Open
  <2>2. asking' \in BOOLEAN /\ hasMore' \in BOOLEAN
    BY <1>3 DEF Open, Ask
  <2>3. cursor' \in 0..LastTime /\ unread' \subseteq Tables /\ fetched' \subseteq Rows
    BY <1>3 DEF Open, Ask
  <2>4. known' \subseteq Rows
    BY <1>3 DEF Open
  <2>5. UNCHANGED <<rows, failures>>
    BY <1>3 DEF Open
  <2> QED
    BY <2>1, <2>2, <2>3, <2>4, <2>5
<1>4. CASE LoadMore
  <2> DEFINE T == {createdAt[r] : r \in pages[Len(pages)]}
  <2>1. pages # <<>> /\ pages[Len(pages)] # {}
    BY <1>4 DEF LoadMore, PageInv
  <2>2. Len(pages) \in DOMAIN pages /\ pages[Len(pages)] \in SUBSET Rows
    BY <2>1
  <2>3. T \in SUBSET (0..LastTime) /\ T # {}
    BY <2>1, <2>2
  <2>4. T \in SUBSET Nat
    BY <2>3
  <2>5. Min(T) \in T
    BY <2>3, <2>4, MinIsLeast
  <2>6. cursor' \in 0..LastTime
    BY <1>4, <2>3, <2>5 DEF LoadMore, Ask
  <2> QED
    BY <1>4, <2>6 DEF LoadMore, Ask
<1>5. CASE RequestFails
  BY <1>5 DEF RequestFails, Ask
<1>6. ASSUME NEW t \in Tables, ReadTable(t) PROVE FeedTypeOK'
  BY <1>6 DEF ReadTable, Newest
<1>7. CASE Answer
  <2>1. PICK P \in Newest(PageSize, fetched) : pages' = Append(pages, P)
    BY <1>7 DEF Answer
  <2>2. P \in SUBSET Rows
    BY DEF Newest
  <2>3. pages' \in Seq(SUBSET Rows)
    BY <2>1, <2>2
  <2>4. asking' \in BOOLEAN /\ hasMore' \in BOOLEAN
    <3>1. HasMore \in BOOLEAN
      BY DEF HasMore
    <3> QED
      BY <1>7, <3>1, Zenon DEF Answer
  <2>5. cursor' \in 0..LastTime /\ fetched' \subseteq Rows
    BY <1>7 DEF Answer
  <2>6. UNCHANGED <<rows, unread, known, failures>>
    BY <1>7 DEF Answer
  <2> QED
    BY <2>3, <2>4, <2>5, <2>6
<1>8. CASE UNCHANGED feedVars
  BY <1>8 DEF feedVars
<1> QED
  BY <1>1, <1>2, <1>3, <1>4, <1>5, <1>6, <1>7, <1>8 DEF FeedNext

\* A row that was written keeps its time, and one that is not visible any more does not come back.
Persistent ==
  /\ \A r \in Rows : createdAt[r] # 0 => createdAt'[r] = createdAt[r]
  /\ visible \cup left \subseteq visible' \cup left'
  /\ left \subseteq left'
  /\ \A r \in Rows : r \in (visible \cup left) \cap visible' => r \in visible
  /\ \A r \in Rows : createdAt[r] # 0 /\ Tied(r) => Tied(r)'

LEMMA RowsPersist ==
  ASSUME FeedTypeOK, RowsInv, [FeedNext]_feedVars
  PROVE  Persistent
<1> USE DEF FeedTypeOK, RowsInv, rows, request, feed, Tied, Persistent
<1>1. CASE Clock
  BY <1>1 DEF Clock
<1>2. ASSUME NEW r \in Rows, Write(r) PROVE Persistent
  BY <1>2 DEF Write
<1>3. ASSUME NEW r \in Rows, Commit(r) \/ Leaves(r) PROVE Persistent
  BY <1>3 DEF Commit, Leaves
<1>4. CASE UNCHANGED rows
  BY <1>4
<1> QED
  BY <1>1, <1>2, <1>3, <1>4 DEF FeedNext, feedVars, Open, LoadMore, RequestFails, ReadTable, Answer

-----------------------------------------------------------------------------
LEMMA RowsStep == FeedTypeOK /\ RowsInv /\ [FeedNext]_feedVars => RowsInv'
<1> SUFFICES ASSUME FeedTypeOK, RowsInv, [FeedNext]_feedVars PROVE RowsInv'
  OBVIOUS
<1> USE DEF FeedTypeOK, RowsInv, rows, request, feed
<1>1. CASE Clock
  BY <1>1 DEF Clock
<1>2. ASSUME NEW r \in Rows, Write(r) PROVE RowsInv'
  BY <1>2 DEF Write
<1>3. ASSUME NEW r \in Rows, Commit(r) PROVE RowsInv'
  BY <1>3 DEF Commit
<1>4. ASSUME NEW r \in Rows, Leaves(r) PROVE RowsInv'
  BY <1>4 DEF Leaves
<1>5. CASE Open
  BY <1>5 DEF Open, Ask
<1>6. CASE LoadMore
  BY <1>6 DEF LoadMore, Ask
<1>7. CASE RequestFails
  BY <1>7 DEF RequestFails, Ask
<1>8. ASSUME NEW t \in Tables, ReadTable(t) PROVE RowsInv'
  BY <1>8 DEF ReadTable, Newest
<1>9. CASE Answer
  <2>1. PICK P \in Newest(PageSize, fetched) : pages' = Append(pages, P)
    BY <1>9 DEF Answer
  <2>2. P \in SUBSET fetched
    BY DEF Newest
  <2>3. \A i \in DOMAIN pages' : pages'[i] \in {pages[j] : j \in DOMAIN pages} \cup {P}
    BY <2>1, <2>2
  <2>4. \A i \in DOMAIN pages' : pages'[i] \subseteq visible \cup left
    BY <2>2, <2>3
  <2> QED
    BY <1>9, <2>4 DEF Answer
<1>10. CASE UNCHANGED feedVars
  BY <1>10 DEF feedVars
<1> QED
  BY <1>1, <1>2, <1>3, <1>4, <1>5, <1>6, <1>7, <1>8, <1>9, <1>10 DEF FeedNext

\* What the browser and its request have is not touched when rows are written.
LEMMA RowsAlone ==
  ASSUME [FeedNext]_feedVars,
         ~Open, ~LoadMore, ~RequestFails, ~Answer, ~\E t \in Tables : ReadTable(t)
  PROVE  UNCHANGED <<request, feed>>
  BY DEF FeedNext, feedVars, Clock, Write, Commit, Leaves

\* The cursor of the next request is the time of the oldest row of the last page.
LEMMA CursorIsOldest ==
  ASSUME FeedTypeOK, RowsInv, PageInv, LoadMore
  PROVE  /\ pages # <<>> /\ pages[Len(pages)] \in SUBSET Rows
         /\ cursor' # 0
         /\ \E p \in pages[Len(pages)] : cursor' = createdAt[p]
         /\ \A p \in pages[Len(pages)] : cursor' <= createdAt[p]
<1> DEFINE T == {createdAt[r] : r \in pages[Len(pages)]}
<1>1. pages # <<>> /\ pages[Len(pages)] # {}
  BY DEF LoadMore, PageInv
<1>2. Len(pages) \in DOMAIN pages /\ pages[Len(pages)] \in SUBSET Rows
  BY <1>1 DEF FeedTypeOK
<1>3. \A p \in pages[Len(pages)] : createdAt[p] \in Nat /\ createdAt[p] # 0
  BY <1>2 DEF RowsInv, FeedTypeOK
<1>4. T \in SUBSET Nat /\ T # {} /\ 0 \notin T
  BY <1>1, <1>3
<1>5. Min(T) \in T /\ \A n \in T : Min(T) <= n
  BY <1>4, MinIsLeast
<1>6. cursor' = Min(T)
  BY DEF LoadMore, Ask
<1> QED
  BY <1>1, <1>2, <1>4, <1>5, <1>6

LEMMA OrderStep ==
  FeedTypeOK /\ RowsInv /\ PageInv /\ PagesInOrder /\ [FeedNext]_feedVars => PageInv' /\ PagesInOrder'
<1> SUFFICES ASSUME FeedTypeOK, RowsInv, PageInv, PagesInOrder, [FeedNext]_feedVars
             PROVE  PageInv' /\ PagesInOrder'
  OBVIOUS
<1> Persistent
  BY RowsPersist
<1>1. CASE UNCHANGED <<request, feed>>
  <2>1. \A i \in DOMAIN pages : \A p \in pages[i] : p \in Rows /\ createdAt'[p] = createdAt[p]
    BY DEF RowsInv, FeedTypeOK, Persistent
  <2>2. \A r \in fetched : r \in Rows /\ createdAt'[r] = createdAt[r]
    BY DEF RowsInv, FeedTypeOK, Persistent
  <2>3. PagesInOrder'
    BY <1>1, <2>1 DEF PagesInOrder, feed
  <2> QED
    BY <1>1, <2>1, <2>2, <2>3 DEF PageInv, request, feed, Before
<1>2. CASE Open
  <2>1. PageInv'
    BY <1>2 DEF Open, Ask, PageInv
  <2> QED
    BY <1>2, <2>1 DEF Open, PagesInOrder
<1>3. CASE LoadMore
  <2>1. UNCHANGED <<rows, feed>> /\ asking' = TRUE /\ fetched' = {}
    BY <1>3 DEF LoadMore, Ask
  <2>2. pages # <<>> /\ cursor' # 0 /\ cursor' \in Nat
    BY <1>3, CursorIsOldest, FeedTypeStep DEF FeedTypeOK
  <2>3. ASSUME NEW i \in DOMAIN pages, NEW p \in pages[i] PROVE createdAt[p] >= cursor'
    <3>1. PICK q \in pages[Len(pages)] : cursor' = createdAt[q]
      BY <1>3, CursorIsOldest
    <3>2. i \in Nat /\ Len(pages) \in DOMAIN pages /\ i <= Len(pages) /\ p \in Rows /\ q \in Rows
      BY <2>2, <3>1 DEF FeedTypeOK
    <3>3. CASE i = Len(pages)
      BY <1>3, <2>2, <3>2, <3>3, CursorIsOldest DEF FeedTypeOK
    <3>4. CASE i # Len(pages)
      <4>1. i < Len(pages)
        BY <3>2, <3>4
      <4>2. createdAt[p] > createdAt[q]
        BY <3>1, <3>2, <4>1 DEF PagesInOrder
      <4> QED
        BY <3>1, <3>2, <4>2 DEF FeedTypeOK
    <3> QED
      BY <3>3, <3>4
  <2>4. PagesInOrder'
    BY <2>1 DEF PagesInOrder, rows, feed
  <2> QED
    BY <2>1, <2>2, <2>3, <2>4 DEF PageInv, rows, feed
<1>4. CASE RequestFails
  <2>1. UNCHANGED <<rows, feed, cursor>> /\ asking /\ asking' /\ fetched' = {}
    BY <1>4 DEF RequestFails, Ask
  <2>2. PagesInOrder'
    BY <2>1 DEF PagesInOrder, rows, feed
  <2> QED
    BY <2>1, <2>2 DEF PageInv, rows, feed
<1>5. ASSUME NEW t \in Tables, ReadTable(t) PROVE PageInv' /\ PagesInOrder'
  <2>1. UNCHANGED <<rows, feed, asking, cursor>> /\ asking
    BY <1>5 DEF ReadTable, PageInv, FeedTypeOK
  <2>2. \A r \in fetched' : Before(r)
    BY <1>5 DEF ReadTable, Newest, PageInv
  <2>3. PagesInOrder'
    BY <2>1 DEF PagesInOrder, rows, feed
  <2> QED
    BY <2>1, <2>2, <2>3 DEF PageInv, Before, rows, feed
<1>6. CASE Answer
  <2>1. PICK P \in Newest(PageSize, fetched) : pages' = Append(pages, P)
    BY <1>6 DEF Answer
  <2>2. /\ UNCHANGED <<rows, unread>> /\ asking /\ ~asking' /\ unread = {}
        /\ fetched' = {} /\ cursor' = 0 /\ hasMore' = HasMore
    BY <1>6 DEF Answer
  <2>3. P \in SUBSET fetched /\ P \in SUBSET Rows /\ fetched \in SUBSET Rows
    BY DEF Newest, FeedTypeOK
  <2>4. /\ Len(pages) \in Nat /\ DOMAIN pages = 1..Len(pages)
        /\ DOMAIN pages' = 1..(Len(pages) + 1) /\ pages' # <<>> /\ Len(pages') = Len(pages) + 1
        /\ pages'[Len(pages) + 1] = P
        /\ \A i \in DOMAIN pages : pages'[i] = pages[i]
    BY <2>1, <2>3 DEF FeedTypeOK
  <2>5. HasMore => P # {}
    <3> SUFFICES ASSUME HasMore PROVE P # {}
      OBVIOUS
    <3>1. fetched # {}
      BY FeedAssumption, FS_EmptySet DEF HasMore
    <3> QED
      BY <2>3, <3>1, NewestIsNotEmpty, FeedAssumption
  <2>6. PageInv'
    BY <2>2, <2>4, <2>5 DEF PageInv
  <2>7. ASSUME NEW i \in DOMAIN pages', NEW j \in DOMAIN pages', i < j,
               NEW p \in pages'[i], NEW q \in pages'[j]
        PROVE  createdAt[p] > createdAt[q]
    <3>1. i \in DOMAIN pages /\ pages'[i] = pages[i] /\ pages # <<>>
      BY <2>4, <2>7
    <3>2. CASE j \in DOMAIN pages
      BY <2>4, <2>7, <3>1, <3>2 DEF PagesInOrder
    <3>3. CASE j \notin DOMAIN pages
      <4>1. q \in fetched /\ Before(q)
        BY <2>3, <2>4, <2>7, <3>3 DEF PageInv
      <4>2. cursor # 0 /\ createdAt[p] >= cursor
        BY <2>2, <2>7, <3>1 DEF PageInv
      <4>3. p \in Rows /\ q \in Rows
        BY <2>3, <2>7, <3>1, <4>1 DEF FeedTypeOK
      <4>4. createdAt[q] < cursor
        BY <4>1, <4>2 DEF Before
      <4> QED
        BY <4>2, <4>3, <4>4 DEF FeedTypeOK
    <3> QED
      BY <3>2, <3>3
  <2>8. PagesInOrder'
    BY <2>2, <2>7 DEF PagesInOrder, rows
  <2> QED
    BY <2>6, <2>8
<1> QED
  BY <1>1, <1>2, <1>3, <1>4, <1>5, <1>6, RowsAlone DEF feedVars

-----------------------------------------------------------------------------
LEMMA CoveredBefore ==
  ASSUME FeedTypeOK, RowsInv, [FeedNext]_feedVars, known' = known, NEW r \in Rows, Covered(r)'
  PROVE  Covered(r) /\ createdAt[r] # 0 /\ createdAt'[r] = createdAt[r]
<1>1. r \in known /\ r \in visible' /\ ~Tied(r)'
  BY DEF Covered
<1>2. r \in visible /\ createdAt[r] # 0
  BY <1>1, RowsPersist DEF RowsInv, Persistent
<1> QED
  BY <1>1, <1>2, RowsPersist DEF Covered, Persistent

LEMMA NewerIsFinite ==
  ASSUME FeedTypeOK, NEW r \in Rows
  PROVE  /\ Newer(r) \in SUBSET Rows /\ Newer(r) \subseteq fetched
         /\ Cardinality(Newer(r)) \in Nat /\ Cardinality(Newer(r)) <= Cardinality(fetched)
<1>1. Newer(r) \in SUBSET fetched /\ fetched \in SUBSET Rows
  BY DEF Newer, FeedTypeOK
<1> QED
  BY <1>1, FiniteRows, FS_Subset

LEMMA ShownStep ==
  FeedTypeOK /\ RowsInv /\ PageInv /\ ShownInv /\ [FeedNext]_feedVars => ShownInv'
<1> SUFFICES ASSUME FeedTypeOK, RowsInv, PageInv, ShownInv, [FeedNext]_feedVars,
                    NEW r \in Rows, Covered(r)'
             PROVE  ShownOf(r)'
  BY DEF ShownInv
<1> Persistent
  BY RowsPersist
<1>1. CASE UNCHANGED <<request, feed>>
  <2>1. Covered(r) /\ createdAt'[r] = createdAt[r] /\ ShownOf(r)
    BY <1>1, CoveredBefore DEF ShownInv, feed
  <2>2. \A i \in DOMAIN pages : \A p \in pages[i] : p \in Rows /\ createdAt'[p] = createdAt[p]
    BY DEF RowsInv, FeedTypeOK, Persistent
  <2>3. \A q \in fetched : q \in Rows /\ createdAt'[q] = createdAt[q]
    BY DEF RowsInv, FeedTypeOK, Persistent
  <2>4. Newer(r)' = Newer(r)
    BY <1>1, <2>1, <2>3 DEF Newer, request
  <2>5. pages # <<>> => (Behind(pages[Len(pages)], r)' <=> Behind(pages[Len(pages)], r))
    <3> SUFFICES ASSUME pages # <<>>
                 PROVE  Behind(pages[Len(pages)], r)' <=> Behind(pages[Len(pages)], r)
      OBVIOUS
    <3>1. Len(pages) \in DOMAIN pages
      BY DEF FeedTypeOK
    <3> QED
      BY <1>1, <2>1, <2>2, <3>1 DEF Behind, feed
  <2>6. Shown' = Shown
    BY <1>1 DEF Shown, feed
  <2>7. Before(r)' <=> Before(r)
    BY <1>1, <2>1 DEF Before, request
  <2> QED
    BY <1>1, <2>1, <2>4, <2>5, <2>6, <2>7 DEF ShownOf, request, feed
<1>2. CASE Open
  BY <1>2, FeedAssumption DEF Open, Ask, ShownOf, Before
<1>3. CASE LoadMore
  <2>1. /\ UNCHANGED <<rows, feed>> /\ ~asking /\ hasMore /\ asking' = TRUE
        /\ unread' = Tables /\ TableOf[r] \in Tables
    BY <1>3, FeedAssumption DEF LoadMore, Ask
  <2>2. Covered(r) /\ ShownOf(r) /\ pages # <<>>
    BY <1>3, <2>1, CoveredBefore, CursorIsOldest DEF ShownInv, feed
  <2>3. ~Before(r)' => Behind(pages[Len(pages)], r)
    <3>1. PICK p \in pages[Len(pages)] : cursor' = createdAt[p]
      BY <1>3, CursorIsOldest
    <3>2. p \in Rows
      BY <1>3, <3>1, CursorIsOldest
    <3> QED
      BY <2>1, <3>1, <3>2 DEF Behind, Before, rows, FeedTypeOK
  <2>4. ~Before(r)' => r \in Shown'
    BY <2>1, <2>2, <2>3 DEF ShownOf, Shown, feed
  <2> QED
    BY <2>1, <2>4 DEF ShownOf
<1>4. CASE RequestFails
  <2>1. /\ UNCHANGED <<rows, feed, cursor>> /\ asking /\ asking' = TRUE
        /\ unread' = Tables /\ TableOf[r] \in Tables
    BY <1>4, FeedAssumption DEF RequestFails, Ask
  <2>2. ShownOf(r)
    BY <2>1, CoveredBefore DEF ShownInv, feed
  <2> QED
    BY <2>1, <2>2 DEF ShownOf, Shown, Before, rows, feed
<1>5. ASSUME NEW t \in Tables, ReadTable(t) PROVE ShownOf(r)'
  <2>1. UNCHANGED <<rows, feed, asking, cursor>> /\ t \in unread /\ unread' = unread \ {t} /\ asking
    BY <1>5 DEF ReadTable, PageInv, FeedTypeOK
  <2>2. Covered(r) /\ ShownOf(r) /\ createdAt'[r] = createdAt[r]
    BY <2>1, CoveredBefore DEF ShownInv, feed
  <2> DEFINE R == {q \in visible : TableOf[q] = t /\ Before(q)}
  <2>3. PICK P \in Newest(FetchSize, R) : fetched' = fetched \cup P
    BY <1>5 DEF ReadTable
  <2>4. R \in SUBSET Rows /\ P \in SUBSET R
    BY DEF Newest, FeedTypeOK
  <2>5. Newer(r) \subseteq Newer(r)' /\ Newer(r)' \in SUBSET Rows
    BY <2>1, <2>3, <2>4 DEF Newer, rows, FeedTypeOK
  <2>6. /\ Cardinality(Newer(r)) \in Nat /\ Cardinality(Newer(r)') \in Nat
        /\ Cardinality(Newer(r)) <= Cardinality(Newer(r)')
    BY <2>5, FiniteRows, FS_Subset, NewerIsFinite
  <2>7. ASSUME Before(r), TableOf[r] = t, r \notin P
        PROVE  Cardinality(Newer(r)') >= FetchSize
    <3>1. r \in R
      BY <2>2, <2>7 DEF Covered
    <3>2. Cardinality(P) = FetchSize
      BY <2>4, <2>7, <3>1, NewestTakes, FetchIsTwoPages, FiniteRows
    <3>3. ASSUME NEW p \in P PROVE createdAt[p] > createdAt[r]
      <4>1. createdAt[p] >= createdAt[r] /\ p # r /\ p \in Rows
        BY <2>4, <2>7, <3>1, NewestTakes, FetchIsTwoPages
      <4>2. createdAt[p] # createdAt[r]
        BY <2>2, <4>1 DEF Covered, Tied
      <4> QED
        BY <4>1, <4>2 DEF FeedTypeOK
    <3>4. P \in SUBSET Newer(r)'
      BY <2>1, <2>3, <3>3 DEF Newer, rows
    <3>5. Cardinality(P) <= Cardinality(Newer(r)')
      BY <2>5, <3>4, FiniteRows, FS_Subset
    <3> QED
      BY <3>2, <3>5
  <2>8. Before(r)' <=> Before(r)
    BY <2>1, <2>2 DEF Before
  <2>9. ASSUME Before(r), TableOf[r] \notin unread'
        PROVE  r \in fetched' \/ Cardinality(Newer(r)') >= FetchSize
    <3>1. CASE TableOf[r] = t
      BY <2>3, <2>7, <2>9, <3>1
    <3>2. CASE TableOf[r] # t
      <4>1. r \in fetched \/ Cardinality(Newer(r)) >= FetchSize
        BY <2>1, <2>2, <2>9, <3>2 DEF ShownOf
      <4> QED
        BY <2>3, <2>6, <4>1, FetchIsTwoPages
    <3> QED
      BY <3>1, <3>2
  <2> QED
    BY <2>1, <2>2, <2>8, <2>9 DEF ShownOf, Shown, feed
<1>6. CASE Answer
  <2>1. PICK P \in Newest(PageSize, fetched) : pages' = Append(pages, P)
    BY <1>6 DEF Answer
  <2>2. /\ UNCHANGED <<rows, unread, known>> /\ asking /\ ~asking' /\ unread = {}
        /\ hasMore' = HasMore
    BY <1>6 DEF Answer
  <2>3. Covered(r) /\ ShownOf(r)
    BY <2>2, CoveredBefore DEF ShownInv
  <2>4. P \in SUBSET fetched /\ P \in SUBSET Rows /\ fetched \in SUBSET Rows
    BY DEF Newest, FeedTypeOK
  <2>5. /\ Len(pages) \in Nat /\ DOMAIN pages = 1..Len(pages)
        /\ DOMAIN pages' = 1..(Len(pages) + 1) /\ Len(pages') = Len(pages) + 1
        /\ pages'[Len(pages) + 1] = P
        /\ \A i \in DOMAIN pages : pages'[i] = pages[i]
    BY <2>1, <2>4 DEF FeedTypeOK
  <2>6. Shown \cup P \subseteq Shown'
    BY <2>5 DEF Shown
  <2>7. PageSize \in Nat /\ Cardinality(fetched) \in Nat /\ Cardinality(P) \in Nat
    BY <2>4, FiniteRows, FeedAssumption
  <2>8. CASE ~Before(r)
    BY <2>2, <2>3, <2>6, <2>8 DEF ShownOf
  <2>9. CASE Before(r) /\ r \in fetched
    <3>1. ASSUME r \notin P, NEW p \in P PROVE createdAt[p] > createdAt[r]
      <4>1. createdAt[p] >= createdAt[r] /\ p # r /\ p \in Rows
        BY <2>4, <2>7, <2>9, <3>1, NewestTakes
      <4>2. createdAt[p] # createdAt[r]
        BY <2>3, <4>1 DEF Covered, Tied
      <4> QED
        BY <4>1, <4>2 DEF FeedTypeOK
    <3>2. r \notin P => HasMore
      BY <2>4, <2>7, <2>9, NewestTakes DEF HasMore
    <3>3. r \notin P => ~Behind(P, r)'
      BY <2>2, <2>4, <3>1 DEF Behind, rows, FeedTypeOK
    <3> QED
      BY <2>2, <2>5, <2>6, <3>2, <3>3 DEF ShownOf, Behind
  <2>10. CASE Before(r) /\ r \notin fetched
    <3>1. Cardinality(Newer(r)) >= FetchSize
      BY <2>2, <2>3, <2>10 DEF ShownOf
    <3>2. Cardinality(Newer(r)) > PageSize /\ Cardinality(fetched) > PageSize
      BY <2>7, <3>1, NewerIsFinite, FetchIsTwoPages
    <3>3. HasMore /\ Cardinality(P) = PageSize
      BY <2>4, <2>7, <3>2, NewestTakes DEF HasMore
    <3>4. PICK q \in Newer(r) : q \notin P
      <4>1. Newer(r) \subseteq P => Cardinality(Newer(r)) <= Cardinality(P)
        BY <2>4, FiniteRows, FS_Subset
      <4> QED
        BY <2>7, <3>2, <3>3, <4>1, NewerIsFinite
    <3>5. ASSUME NEW p \in P PROVE createdAt[p] > createdAt[r]
      <4>1. q \in fetched \ P /\ createdAt[q] > createdAt[r] /\ p \in Rows /\ q \in Rows
        BY <2>4, <3>4 DEF Newer
      <4>2. createdAt[p] >= createdAt[q]
        BY <2>4, <2>7, <4>1, NewestTakes
      <4> QED
        BY <4>1, <4>2 DEF FeedTypeOK
    <3>6. ~Behind(P, r)'
      BY <2>2, <2>4, <3>5 DEF Behind, rows, FeedTypeOK
    <3> QED
      BY <2>2, <2>5, <3>3, <3>6 DEF ShownOf, Behind
  <2> QED
    BY <2>8, <2>9, <2>10
<1> QED
  BY <1>1, <1>2, <1>3, <1>4, <1>5, <1>6, RowsAlone DEF feedVars

LEMMA MoreStep ==
  FeedTypeOK /\ RowsInv /\ PageInv /\ MoreInv /\ NoEmptyPage /\ [FeedNext]_feedVars
    => MoreInv' /\ NoEmptyPage'
<1> SUFFICES ASSUME FeedTypeOK, RowsInv, PageInv, MoreInv, NoEmptyPage, [FeedNext]_feedVars, Clean'
             PROVE  More' /\ NoneEmpty'
  BY DEF MoreInv, NoEmptyPage, Clean, NoneEmpty
<1> Persistent
  BY RowsPersist
<1>0. Clean /\ left' = {} /\ visible \subseteq visible' /\ More /\ NoneEmpty
  <2>1. left' = {} /\ left = {} /\ visible \subseteq visible'
    BY DEF Clean, Persistent
  <2>2. Clean
    <3> SUFFICES ASSUME NEW r \in Rows, createdAt[r] # 0, Tied(r) PROVE FALSE
      BY <2>1 DEF Clean
    <3>1. createdAt'[r] # 0 /\ Tied(r)'
      BY DEF Persistent
    <3> QED
      BY <3>1 DEF Clean
  <2> QED
    BY <2>1, <2>2 DEF MoreInv, NoEmptyPage, Clean, NoneEmpty
<1>1. CASE UNCHANGED <<request, feed>>
  <2>1. \A i \in DOMAIN pages : \A p \in pages[i] : p \in Rows /\ createdAt'[p] = createdAt[p]
    BY DEF RowsInv, FeedTypeOK, Persistent
  <2>2. ASSUME NEW r \in visible
        PROVE  r \in visible' /\ createdAt'[r] = createdAt[r]
    BY <1>0 DEF RowsInv, FeedTypeOK, Persistent
  <2>3. ASSUME ~asking, hasMore
        PROVE  \E r \in visible' : ~Behind(pages[Len(pages)], r)'
    <3>1. PICK r \in visible : ~Behind(pages[Len(pages)], r)
      BY <1>0, <2>3 DEF More
    <3>2. Len(pages) \in DOMAIN pages
      BY <2>3 DEF FeedTypeOK, PageInv
    <3>3. ~Behind(pages[Len(pages)], r)'
      BY <1>1, <2>1, <2>2, <3>1, <3>2 DEF Behind, feed
    <3> QED
      BY <2>2, <3>3
  <2>4. ASSUME cursor # 0
        PROVE  \E r \in visible' : Before(r)' /\ (TableOf[r] \in unread \/ fetched # {})
    <3>1. PICK r \in visible : Before(r) /\ (TableOf[r] \in unread \/ fetched # {})
      BY <1>0, <2>4 DEF More
    <3>2. Before(r)'
      BY <1>1, <2>2, <3>1 DEF Before, request
    <3> QED
      BY <2>2, <3>1, <3>2
  <2>5. NoneEmpty'
    BY <1>0, <1>1 DEF NoneEmpty, feed
  <2> QED
    BY <1>1, <2>3, <2>4, <2>5 DEF More, request, feed
<1>2. CASE Open
  BY <1>2 DEF Open, Ask, More, NoneEmpty
<1>3. CASE LoadMore
  <2>1. /\ UNCHANGED <<rows, feed>> /\ ~asking /\ hasMore /\ asking' = TRUE
        /\ unread' = Tables
    BY <1>3 DEF LoadMore, Ask
  <2>2. PICK r \in visible : ~Behind(pages[Len(pages)], r)
    BY <1>0, <2>1 DEF More
  <2>3. PICK p \in pages[Len(pages)] : cursor' = createdAt[p]
    BY <1>3, CursorIsOldest
  <2>4. p \in Rows /\ r \in Rows /\ TableOf[r] \in Tables
    BY <1>3, <2>3, CursorIsOldest, FeedAssumption DEF FeedTypeOK
  <2>5. Before(r)'
    BY <2>1, <2>2, <2>3, <2>4 DEF Before, Behind, rows, FeedTypeOK
  <2>6. r \in visible'
    BY <2>1 DEF rows
  <2> QED
    BY <1>0, <2>1, <2>4, <2>5, <2>6 DEF More, NoneEmpty, feed
<1>4. CASE RequestFails
  <2>1. UNCHANGED <<rows, feed, cursor>> /\ asking' = TRUE /\ unread' = Tables
    BY <1>4 DEF RequestFails, Ask
  <2>2. ASSUME cursor' # 0
        PROVE  \E r \in visible' : Before(r)' /\ (TableOf[r] \in unread' \/ fetched' # {})
    <3>1. PICK r \in visible : Before(r)
      BY <1>0, <2>1, <2>2 DEF More
    <3>2. r \in visible' /\ Before(r)' /\ TableOf[r] \in Tables
      BY <2>1, <3>1, FeedAssumption DEF Before, rows, FeedTypeOK
    <3> QED
      BY <2>1, <3>2
  <2>3. NoneEmpty'
    BY <1>0, <2>1 DEF NoneEmpty, feed
  <2> QED
    BY <2>1, <2>2, <2>3 DEF More
<1>5. ASSUME NEW t \in Tables, ReadTable(t) PROVE More' /\ NoneEmpty'
  <2>1. /\ UNCHANGED <<rows, feed, asking, cursor>> /\ asking /\ asking'
        /\ unread' = unread \ {t}
    BY <1>5 DEF ReadTable, PageInv, FeedTypeOK
  <2> DEFINE R == {q \in visible : TableOf[q] = t /\ Before(q)}
  <2>2. PICK P \in Newest(FetchSize, R) : fetched' = fetched \cup P
    BY <1>5 DEF ReadTable
  <2>3. R \in SUBSET Rows
    BY DEF FeedTypeOK
  <2>4. ASSUME cursor # 0
        PROVE  \E r \in visible' : Before(r)' /\ (TableOf[r] \in unread' \/ fetched' # {})
    <3>1. PICK r \in visible : Before(r) /\ (TableOf[r] \in unread \/ fetched # {})
      BY <1>0, <2>4 DEF More
    <3>2. r \in visible' /\ Before(r)'
      BY <2>1, <3>1 DEF Before, rows
    <3>3. TableOf[r] = t => fetched' # {}
      <4> SUFFICES ASSUME TableOf[r] = t PROVE fetched' # {}
        OBVIOUS
      <4>1. R # {}
        BY <3>1
      <4>2. P # {}
        BY <2>3, <4>1, NewestIsNotEmpty, FetchIsTwoPages, FeedAssumption
      <4> QED
        BY <2>2, <4>2
    <3> QED
      BY <2>1, <2>2, <3>1, <3>2, <3>3
  <2>5. NoneEmpty'
    BY <1>0, <2>1 DEF NoneEmpty, feed
  <2> QED
    BY <2>1, <2>4, <2>5 DEF More
<1>6. CASE Answer
  <2>1. PICK P \in Newest(PageSize, fetched) : pages' = Append(pages, P)
    BY <1>6 DEF Answer
  <2>2. /\ UNCHANGED rows /\ asking /\ ~asking' /\ unread = {}
        /\ hasMore' = HasMore /\ cursor' = 0
    BY <1>6 DEF Answer
  <2>3. P \in SUBSET fetched /\ P \in SUBSET Rows /\ fetched \in SUBSET Rows
    BY DEF Newest, FeedTypeOK
  <2>4. /\ Len(pages) \in Nat /\ DOMAIN pages = 1..Len(pages)
        /\ DOMAIN pages' = 1..(Len(pages) + 1) /\ Len(pages') = Len(pages) + 1
        /\ pages'[Len(pages) + 1] = P
        /\ \A i \in DOMAIN pages : pages'[i] = pages[i]
    BY <2>1, <2>3 DEF FeedTypeOK
  <2>5. ASSUME HasMore PROVE \E q \in visible' : ~Behind(P, q)'
    <3>1. /\ PageSize \in Nat /\ Cardinality(fetched) \in Nat
          /\ Cardinality(fetched) > PageSize /\ Cardinality(P) = PageSize
      BY <2>3, <2>5, NewestTakes, FiniteRows, FeedAssumption DEF HasMore
    <3>2. PICK q \in fetched : q \notin P
      BY <2>3, <3>1
    <3>3. q \in visible /\ q \in Rows /\ createdAt[q] # 0
      BY <1>0, <2>3, <3>2 DEF RowsInv, Clean
    <3>4. ASSUME NEW p \in P PROVE createdAt[p] > createdAt[q]
      <4>1. createdAt[p] >= createdAt[q] /\ p # q /\ p \in Rows
        BY <2>3, <3>1, <3>2, NewestTakes
      <4>2. createdAt[p] # createdAt[q]
        BY <1>0, <3>3, <4>1 DEF Clean, Tied
      <4> QED
        BY <3>3, <4>1, <4>2 DEF FeedTypeOK
    <3>5. ~Behind(P, q)'
      BY <2>2, <2>3, <3>3, <3>4 DEF Behind, rows, FeedTypeOK
    <3> QED
      BY <1>0, <3>3, <3>5
  <2>6. ASSUME pages # <<>> PROVE P # {}
    <3>1. cursor # 0
      BY <2>2, <2>6 DEF PageInv
    <3>2. fetched # {}
      BY <1>0, <2>2, <3>1 DEF More
    <3> QED
      BY <2>3, <3>2, NewestIsNotEmpty, FeedAssumption
  <2>7. NoneEmpty'
    BY <1>0, <2>4, <2>6 DEF NoneEmpty
  <2> QED
    BY <2>2, <2>4, <2>5, <2>7 DEF More, Behind
<1> QED
  BY <1>1, <1>2, <1>3, <1>4, <1>5, <1>6, RowsAlone DEF feedVars

-----------------------------------------------------------------------------
LEMMA FeedInvariant == FeedSpec => []FeedInv
<1>1. FeedInit => FeedInv
  <2> SUFFICES ASSUME FeedInit PROVE FeedInv
    OBVIOUS
  <2> USE FeedAssumption DEF FeedInit
  <2>1. FeedTypeOK
    <3>1. pages \in Seq(SUBSET Rows)
      <4>1. <<>> \in Seq(SUBSET Rows)
        OBVIOUS
      <4> QED
        BY <4>1, Zenon
    <3>2. createdAt \in [Rows -> 0..LastTime] /\ now \in 1..LastTime
      OBVIOUS
    <3>3. asking \in BOOLEAN /\ hasMore \in BOOLEAN
      OBVIOUS
    <3> QED
      BY <3>1, <3>2, <3>3 DEF FeedTypeOK
  <2>2. RowsInv /\ PageInv /\ PagesInOrder
    BY DEF RowsInv, PageInv, PagesInOrder
  <2>3. ShownInv
    BY DEF ShownInv, ShownOf
  <2>4. MoreInv /\ NoEmptyPage
    BY DEF MoreInv, More, NoEmptyPage
  <2> QED
    BY <2>1, <2>2, <2>3, <2>4 DEF FeedInv
<1>2. FeedInv /\ [FeedNext]_feedVars => FeedInv'
  BY FeedTypeStep, RowsStep, OrderStep, ShownStep, MoreStep DEF FeedInv
<1> QED
  BY <1>1, <1>2, PTL DEF FeedSpec

\* Every variable of the feed and its requests keeps its type (TransactionsService.list).
THEOREM FeedTypeCorrect == FeedSpec => []FeedTypeOK
<1>1. FeedInv => FeedTypeOK
  BY DEF FeedInv
<1> QED
  BY <1>1, FeedInvariant, PTL

\* For any rows, tables and page sizes, no row is on two pages and the pages run from the newest
\* rows to the oldest, whatever is written in between (the cursor of TransactionsService.list).
THEOREM PagesInOrderCorrect == FeedSpec => []PagesInOrder
<1>1. FeedInv => PagesInOrder
  BY DEF FeedInv
<1> QED
  BY <1>1, FeedInvariant, PTL

\* For any of them, the end of the feed is announced only when every row that was there at first is
\* shown, except tied rows and those that left the filter (TransactionsService.list).
THEOREM EverythingShownCorrect == FeedSpec => []EverythingShown
<1>1. FeedInv => EverythingShown
  <2> SUFFICES ASSUME FeedInv, ~asking, pages # <<>>, ~hasMore, NEW r \in known \cap visible, ~Tied(r)
               PROVE  r \in Shown
    BY DEF EverythingShown
  <2>1. r \in Rows /\ Covered(r)
    BY DEF FeedInv, FeedTypeOK, Covered
  <2> QED
    BY <2>1 DEF FeedInv, ShownInv, ShownOf
<1> QED
  BY <1>1, FeedInvariant, PTL

\* For any of them, a page that was announced is not empty (nextCursor of TransactionsService.list).
THEOREM NoEmptyPageCorrect == FeedSpec => []NoEmptyPage
<1>1. FeedInv => NoEmptyPage
  BY DEF FeedInv
<1> QED
  BY <1>1, FeedInvariant, PTL
=============================================================================
