------------------------------- MODULE Billing --------------------------------
(***************************************************************************)
(* Monthly plan fees: BillingService.chargeDuePlans, which a daily job     *)
(* runs and which does not overlap itself, and setPlan, with which staff   *)
(* change a plan at any time.  A pass reads all accounts at its start and  *)
(* then charges them one after the other.                                  *)
(***************************************************************************)
EXTENDS Naturals

CONSTANTS Users, NoUser,
          Price,        \* Price[p]: the monthly fee of a plan
          DunningDays,  \* billing.dunning_days
          MonthLength,  \* days of a month (bound)
          LastDay,      \* (bound)
          MaxBalance,   \* (bound)
          MaxFaults     \* passes that die (bound)

Plans == {"STARTER", "TEAM", "BUSINESS"}

ASSUME BillingAssumption ==
  /\ NoUser \notin Users
  /\ Price \in [Plans -> Nat] /\ Price["STARTER"] = 0
  /\ DunningDays \in Nat /\ MonthLength \in Nat \ {0}
  /\ LastDay \in Nat \ {0} /\ MaxBalance \in Nat /\ MaxFaults \in Nat

VARIABLES
  day,
  plan,     \* plan[u]
  since,    \* since[u]: planDunningSince, 0 if the fee is not overdue
  balance,  \* balance[u]: what chargeFee may take
  paid,     \* paid[u]: the months with a posting under the key of the fee
  pass,     \* the run of chargeDuePlans
  faults,
  \* History:
  failing,  \* failing[u]: the first day a charge failed since the last payment or change of plan
  touched,  \* users whose plan staff changed during the pass
  misdated  \* users whose clock runs although they paid, the pass having died in between,
            \*   or was started over a change of plan

account == <<plan, since>>
history == <<failing, touched, misdated>>
vars == <<day, account, balance, paid, pass, faults, history>>

Months == 1..LastDay
Month(d) == 1 + ((d - 1) \div MonthLength)
Resting == [pc |-> "idle", today |-> 0, todo |-> {}, user |-> NoUser,
            plan |-> [u \in Users |-> "STARTER"], since |-> [u \in Users |-> 0]]

-----------------------------------------------------------------------------
Tick ==
  /\ day < LastDay
  /\ day' = day + 1
  /\ UNCHANGED <<account, balance, paid, pass, faults, history>>

Deposit(u) ==
  /\ balance[u] < MaxBalance
  /\ balance' = [balance EXCEPT ![u] = @ + 1]
  /\ UNCHANGED <<day, account, paid, pass, faults, history>>

Spend(u) ==
  /\ balance[u] > 0
  /\ balance' = [balance EXCEPT ![u] = @ - 1]
  /\ UNCHANGED <<day, account, paid, pass, faults, history>>

\* The new plan is not charged for on the spot.
SetPlan(u, p) ==
  /\ plan' = [plan EXCEPT ![u] = p]
  /\ since' = [since EXCEPT ![u] = 0]
  /\ failing' = [failing EXCEPT ![u] = 0]
  /\ touched' = IF pass = Resting THEN touched ELSE touched \cup {u}
  /\ misdated' = misdated \ {u}
  /\ UNCHANGED <<day, balance, paid, pass, faults>>

-----------------------------------------------------------------------------
(* chargeDuePlans.  Plan and clock are those of the pass's start.          *)

StartPass ==
  /\ pass = Resting
  /\ pass' = [pc |-> "next", today |-> day, todo |-> {u \in Users : plan[u] # "STARTER"},
              user |-> NoUser, plan |-> plan, since |-> since]
  /\ touched' = {}
  /\ UNCHANGED <<day, account, balance, paid, faults, failing, misdated>>

Go(pc) == pass' = [pass EXCEPT !.pc = pc]
NextUser == pass' = [pass EXCEPT !.pc = "next", !.user = NoUser]
Fee(u) == Price[pass.plan[u]]

\* A plan without a price and a month that is paid are passed over.
Consider(u) ==
  /\ pass.pc = "next" /\ u \in pass.todo
  /\ pass' = IF Fee(u) = 0 \/ Month(pass.today) \in paid[u]
             THEN [pass EXCEPT !.todo = @ \ {u}]
             ELSE [pass EXCEPT !.todo = @ \ {u}, !.user = u, !.pc = "charge"]
  /\ UNCHANGED <<day, account, balance, paid, faults, history>>

Collect ==
  LET u == pass.user IN
  /\ pass.pc = "charge"
  /\ balance[u] >= Fee(u)
  /\ balance' = [balance EXCEPT ![u] = @ - Fee(u)]
  /\ paid' = [paid EXCEPT ![u] = @ \cup {Month(pass.today)}]
  /\ failing' = [failing EXCEPT ![u] = 0]
  /\ Go("charged")
  /\ UNCHANGED <<day, account, faults, touched, misdated>>

Insufficient ==
  LET u == pass.user IN
  /\ pass.pc = "charge"
  /\ balance[u] < Fee(u)
  /\ failing' = [failing EXCEPT ![u] = IF @ = 0 THEN pass.today ELSE @]
  /\ Go("unpaid")
  /\ UNCHANGED <<day, account, balance, paid, faults, touched, misdated>>

KeepClock(u) == FALSE                                           \* mutant

ClockRunning(u) == pass.since[u] # 0

StopClock ==
  LET u == pass.user IN
  /\ pass.pc = "charged"
  /\ since' = IF ClockRunning(u) THEN [since EXCEPT ![u] = 0] ELSE since
  /\ misdated' = IF ClockRunning(u) THEN misdated \ {u} ELSE misdated
  /\ NextUser
  /\ UNCHANGED <<day, plan, balance, paid, faults, failing, touched>>

DayEarly(d) == pass.today + 1 - d >= DunningDays                \* mutant

OutOfRoad(d) == pass.today - d >= DunningDays

\* The plan is dropped after DunningDays days, whatever it has become since it was read.
Downgrade ==
  LET u == pass.user IN
  /\ pass.pc = "unpaid"
  /\ OutOfRoad(IF ClockRunning(u) THEN pass.since[u] ELSE pass.today)
  /\ plan' = [plan EXCEPT ![u] = "STARTER"]
  /\ since' = [since EXCEPT ![u] = 0]
  /\ misdated' = misdated \ {u}
  /\ NextUser
  /\ UNCHANGED <<day, balance, paid, faults, failing, touched>>

StartClock ==
  LET u == pass.user IN
  /\ pass.pc = "unpaid"
  /\ ~OutOfRoad(IF ClockRunning(u) THEN pass.since[u] ELSE pass.today)
  /\ since' = IF ClockRunning(u) THEN since ELSE [since EXCEPT ![u] = pass.today]
  /\ misdated' = IF ~ClockRunning(u) /\ u \in touched THEN misdated \cup {u} ELSE misdated
  /\ NextUser
  /\ UNCHANGED <<day, plan, balance, paid, faults, failing, touched>>

FinishPass ==
  /\ pass.pc = "next" /\ pass.todo = {}
  /\ pass' = Resting
  /\ UNCHANGED <<day, account, balance, paid, faults, history>>

\* Any other failure ends the pass, as does the process.
PassDies ==
  /\ pass # Resting
  /\ faults < MaxFaults /\ faults' = faults + 1
  /\ pass' = Resting
  /\ misdated' = IF pass.pc = "charged" /\ ClockRunning(pass.user)
                 THEN misdated \cup {pass.user} ELSE misdated
  /\ UNCHANGED <<day, account, balance, paid, failing, touched>>

-----------------------------------------------------------------------------
Init ==
  /\ day = 1
  /\ plan \in [Users -> Plans] /\ since = [u \in Users |-> 0]
  /\ balance = [u \in Users |-> 0] /\ paid = [u \in Users |-> {}]
  /\ pass = Resting /\ faults = 0
  /\ failing = [u \in Users |-> 0] /\ touched = {} /\ misdated = {}

Next ==
  \/ Tick
  \/ \E u \in Users :
       \/ Deposit(u) \/ Spend(u) \/ Consider(u)
       \/ \E p \in Plans : SetPlan(u, p)
  \/ StartPass \/ Collect \/ StopClock \/ Insufficient \/ Downgrade \/ StartClock
  \/ FinishPass \/ PassDies

Spec == Init /\ [][Next]_vars

-----------------------------------------------------------------------------
TypeOK ==
  /\ day \in 1..LastDay
  /\ plan \in [Users -> Plans]
  /\ since \in [Users -> 0..LastDay] /\ failing \in [Users -> 0..LastDay]
  /\ balance \in [Users -> Nat]
  /\ paid \in [Users -> SUBSET Months]
  /\ pass \in [pc : {"idle", "next", "charge", "charged", "unpaid"}, today : 0..LastDay,
               todo : SUBSET Users, user : Users \cup {NoUser},
               plan : [Users -> Plans], since : [Users -> 0..LastDay]]
  /\ pass.user = NoUser <=> pass.pc \in {"idle", "next"}
  /\ faults \in 0..MaxFaults /\ touched \subseteq Users /\ misdated \subseteq Users

\* The job takes a plan away only after DunningDays days on which no fee could be collected,
\* counted from the first failure since the last payment or change of plan; unless staff changed
\* the plan after the pass had read it, or the clock was left running by a pass that died or
\* started over a change of plan.
GraceRespected ==
  [][ \A u \in Users : (Downgrade /\ u = pass.user /\ u \notin touched \cup misdated) =>
        /\ failing[u] # 0
        /\ pass.today - failing[u] >= DunningDays ]_vars

\* When a pass has come to its end, every account it found on a plan with a fee has paid the month
\* and has no clock running, is on Starter, or has a clock that has not run out (same exceptions).
PassSettles ==
  [][ FinishPass => \A u \in Users \ (touched \cup misdated) :
        Fee(u) > 0 =>
          \/ Month(pass.today) \in paid[u] /\ since[u] = 0
          \/ plan[u] = "STARTER"
          \/ since[u] # 0 /\ pass.today - since[u] < DunningDays ]_vars
=============================================================================
