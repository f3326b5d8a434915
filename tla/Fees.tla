--------------------------------- MODULE Fees ---------------------------------
(***************************************************************************)
(* The arithmetic of FeesService: what the rates in the settings make of   *)
(* an amount.  Amounts are integers in the smallest unit of the token, and *)
(* the division of the code truncates, as \div does for what is positive.  *)
(***************************************************************************)
EXTENDS Integers

BasisPoints == 0..10000

\* The values SettingsService.parse lets staff set.
DepositRates == [bps : BasisPoints, flat : Nat, min : Nat, max : Nat]

TransactionRates == [bps : BasisPoints, flat : Nat, fx : BasisPoints]

ApplyBps(amount, bps) ==
  IF bps <= 0 \/ amount <= 0 THEN 0 ELSE (amount * bps) \div 10000

\* A bound of zero is no bound; the maximum prevails over the minimum.
Clamp(fee, min, max) ==
  LET floored == IF min > 0 /\ fee < min THEN min ELSE fee
      capped == IF max > 0 /\ floored > max THEN max ELSE floored
  IN IF capped < 0 THEN 0 ELSE capped

\* Out of a deposit, and never more than the deposit.
DepositFee(amount, rates) ==
  LET fee == Clamp(ApplyBps(amount, rates.bps) + rates.flat, rates.min, rates.max)
  IN IF fee > amount THEN amount ELSE fee

\* On top of a card payment, reserved with it.
TransactionFee(amount, foreign, rates) ==
  ApplyBps(amount, rates.bps) + rates.flat
    + (IF foreign THEN ApplyBps(amount, rates.fx) ELSE 0)
=============================================================================
