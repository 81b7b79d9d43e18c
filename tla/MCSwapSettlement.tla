-------------------------- MODULE MCSwapSettlement --------------------------
(***************************************************************************)
(* Two swaps of opposite orientation whose coupons fall on one day and net *)
(* to zero when settled together, one of them FpML, so that the scheduler  *)
(* never retires it; and a third that pays the next day.                   *)
(***************************************************************************)
EXTENDS SwapSettlement

MCSwaps == {"s", "r", "f"}
MCReversed == {"f"}
MCFpml == {"f"}
MCCoupon == [s \in Swaps |-> 2]
MCPayDays == [s \in Swaps |-> IF s = "r" THEN {2} ELSE {1}]
MCMaturity == [s \in Swaps |-> IF s = "s" THEN 1 ELSE 2]

=============================================================================
