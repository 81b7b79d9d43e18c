------------------------------ MODULE CsaMath ------------------------------
(***************************************************************************)
(* The margin arithmetic of a Credit Support Annex: the required pledge,   *)
(* the signed target balance and the gated call, as the ledger computes    *)
(* them (contracts/src/Csa/Math.daml) and as the off-ledger mark publisher *)
(* mirrors them (oracle/src/services/mark-publisher/formula.ts).           *)
(*                                                                         *)
(* Amounts are integers, a multiple of some smallest unit: Decimal's ten   *)
(* fractional digits and JavaScript's binary floats are both abstracted,   *)
(* what stays is the rounding rule each of them applies to a quotient.     *)
(***************************************************************************)
EXTENDS Integers

CONSTANTS PartyA, PartyB      \* the two sides of the agreement

ASSUME PartiesDiffer == PartyA # PartyB

Parties == {PartyA, PartyB}

Other(p) == IF p = PartyA THEN PartyB ELSE PartyA

Abs(x) == IF x < 0 THEN -x ELSE x

AtLeastZero(x) == IF x < 0 THEN 0 ELSE x

(***************************************************************************)
(* Mutants, each a plausible slip in the definition it is named after.     *)
(***************************************************************************)
RequiredWithOwnThreshold(exposure, thr) ==
  [fromA |-> AtLeastZero(exposure - thr[PartyA]),
   fromB |-> AtLeastZero(-exposure - thr[PartyB])]

GateRoundingUp(raw, mta, rounding) ==
  IF Abs(raw) < mta THEN 0
  ELSE IF rounding = 0 THEN raw
  ELSE IF raw < 0 THEN -((-raw + rounding - 1) \div rounding) * rounding
  ELSE ((raw + rounding - 1) \div rounding) * rounding

TsGateInclusive(raw, mta, rounding) ==
  IF Abs(raw) <= mta THEN 0
  ELSE IF rounding = 0 THEN raw
  ELSE ((2 * raw + rounding) \div (2 * rounding)) * rounding

(***************************************************************************)
(* Required pledge, exposure > 0 meaning that A owes B.  Each side is      *)
(* tolerated up to the other side's threshold.                             *)
(***************************************************************************)
ComputeRequired(exposure, thr) ==
  [fromA |-> AtLeastZero(exposure - thr[PartyB]),
   fromB |-> AtLeastZero(-exposure - thr[PartyA])]

TargetCsb(exposure, thr) ==
  LET r == ComputeRequired(exposure, thr) IN r.fromA - r.fromB

\* JavaScript's Math.round(num / den): a tie goes towards plus infinity.
MathRound(num, den) == (2 * num + den) \div (2 * den)

(***************************************************************************)
(* roundCommercial 0: nearest integer to num / den, a tie going away from  *)
(* zero.                                                                   *)
(***************************************************************************)
RoundCommercial(num, den) ==
  IF num < 0
  THEN -((2 * (-num) + den) \div (2 * den))
  ELSE (2 * num + den) \div (2 * den)

(***************************************************************************)
(* The call: nothing below the minimum transfer amount, else the gap       *)
(* snapped to the nearest multiple of the rounding increment.              *)
(***************************************************************************)
GateCall(raw, mta, rounding) ==
  IF Abs(raw) < mta THEN 0
  ELSE IF rounding = 0 THEN raw
  ELSE RoundCommercial(raw, rounding) * rounding

\* formula.ts's gateCall, the publisher's own copy of the rule above.
TsGateCall(raw, mta, rounding) ==
  IF Abs(raw) < mta THEN 0
  ELSE IF rounding = 0 THEN raw
  ELSE MathRound(raw, rounding) * rounding

=============================================================================
