------------------------------ MODULE LateFee ------------------------------
(***************************************************************************)
(* LateFeeService::calculate: no fee while an invoice is within the grace  *)
(* period, then DailyRateBps basis points of its amount for every further  *)
(* day, cut down to whole cents, and never more than CapCents.  The shipped *)
(* values are 5 days, 5 basis points a day and 25000 cents.                *)
(***************************************************************************)
EXTENDS Integers

CONSTANTS GraceDays, DailyRateBps, CapCents

ASSUME FeeAssumption ==
  GraceDays \in Nat /\ DailyRateBps \in Nat /\ CapCents \in Nat

Least(a, b) == IF a <= b THEN a ELSE b

\* Variant: without the early return inside the grace period.
ChargeableDaysUnguarded(daysOverdue) == daysOverdue - GraceDays

ChargeableDays(daysOverdue) ==
  IF daysOverdue <= GraceDays THEN 0 ELSE daysOverdue - GraceDays

LateFee(amount, daysOverdue) ==
  Least((amount * DailyRateBps * ChargeableDays(daysOverdue)) \div 10000, CapCents)
=============================================================================
