---------------------------- MODULE AccrualRules ----------------------------
(***************************************************************************)
(* What a floating leg is to accrue, said of days and fixings: no position *)
(* in the list of fixings, no window and no search.  Pricing has the       *)
(* engine's way to it.                                                     *)
(***************************************************************************)
EXTENDS Pricing

\* Coupon periods as the engine gets them: none is empty, none starts before those
\* before it have ended.
InOrder(periods) ==
  /\ \A k \in DOMAIN periods : periods[k].from < periods[k].to
  /\ \A k \in DOMAIN periods : \A j \in 1..(k - 1) : periods[j].to <= periods[k].from

\* The days on which a fixing was published that enters a coupon.
FixedOn(parts) == {p.from : p \in {q \in parts : q.of = "fixing"}}

\* The fixings a lookback leads back over from a day.
LookedBack(fixings, lookback, d) ==
  {f \in DOMAIN fixings :
     f < d /\ Cardinality({g \in DOMAIN fixings : f <= g /\ g < d}) <= lookback}

\* What one coupon accrues: of which fixings, with the curve or without, and how
\* often each of its days.
CouponAccrues(coupon, parts, fixings, lookback) ==
  LET fixed == FixedOn(parts)
      again == LookedBack(fixings, lookback, coupon.to)
      before == LookedBack(fixings, lookback, coupon.from)
      times(d) == Cardinality({p \in parts : p.from <= d /\ d < p.to})
  IN /\ (\E p \in parts : p.of = "curve") <=> (fixed = {} \/ lookback > 0)
     /\ \A f \in fixed : f >= coupon.from \/ f \in before
     /\ \A d \in coupon.from..(coupon.to - 1) :
          times(d) = IF fixed = {} THEN 1
                     ELSE IF d < Min(fixed) THEN 0
                     ELSE IF \E f \in again : f <= d THEN 2 ELSE 1

\* The coupons of one floating leg over its periods, each a set of accruals.
AccruedOnce(periods, parts, fixings, lookback) ==
  \A k \in DOMAIN periods :
    /\ \A j \in 1..(k - 1) : FixedOn(parts[j]) \cap FixedOn(parts[k]) = {}
    /\ CouponAccrues(periods[k], parts[k], fixings, lookback)

=============================================================================
