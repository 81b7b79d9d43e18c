----------------------------- MODULE MarginCalls -----------------------------
(***************************************************************************)
(* What a call is, said without a quotient: of whatever marks an agreement *)
(* gets, whatever it agreed on and whatever was posted.  CsaMath has the   *)
(* formulas.                                                               *)
(***************************************************************************)
EXTENDS CsaMath

CONSTANTS Marked, Agreed      \* exposures; terms of agreements with a balance

ASSUME MarginInputs ==
  /\ Marked \subseteq Int
  /\ Agreed \subseteq [balance : Int, thr : [Parties -> Nat], mta : Nat, rounding : Nat]

VARIABLES exposure, agreed

marginVars == <<exposure, agreed>>

\* Nothing is owed before the first mark.
MarginInit == exposure = 0 /\ agreed \in Agreed

Marks == exposure' \in Marked /\ UNCHANGED agreed

MarginSpec == MarginInit /\ [][Marks]_marginVars

Raw == TargetCsb(exposure, agreed.thr) - agreed.balance

Gated == GateCall(Raw, agreed.mta, agreed.rounding)

-----------------------------------------------------------------------------
(* Properties.                                                             *)

MarginTypeOK == exposure \in Marked \cup {0} /\ agreed \in Agreed

IsMultiple(n, d) == \E k \in (-Abs(n))..Abs(n) : n = k * d

\* Zero below the minimum transfer amount, otherwise a multiple of the rounding
\* increment with none nearer to the gap; of two equally near the larger call.
NearestMultiple ==
  LET far == Abs(Gated - Raw) IN
  IF Abs(Raw) < agreed.mta THEN Gated = 0
  ELSE IF agreed.rounding = 0 THEN Gated = Raw
  ELSE /\ IsMultiple(Gated, agreed.rounding)
       /\ \A n \in (Raw - far)..(Raw + far) :
            IsMultiple(n, agreed.rounding) => Abs(n - Raw) = far /\ Abs(n) <= Abs(Gated)

\* A pledge that leaves no more than the agreed threshold of the exposure
\* uncovered on the side it falls on.
Tolerated(pledge) ==
  exposure - pledge \in (-agreed.thr[PartyA])..agreed.thr[PartyB]

\* The target is the least pledge of either side that is tolerated, and the call
\* is the multiple nearest to what is missing from it (Csa.Math.computeRequired,
\* targetCsb, gateCall).
CallIsExact ==
  LET target == TargetCsb(exposure, agreed.thr) IN
  /\ Tolerated(target)
  /\ \A pledge \in (1 - Abs(target))..(Abs(target) - 1) : ~Tolerated(pledge)
  /\ NearestMultiple

\* formula.ts, of itself: "bit-for-bit equivalence between these and the
\* on-chain gateCall/computeRequired".
TsMirrorsDaml == TsGateCall(Raw, agreed.mta, agreed.rounding) = Gated

\* What is true of it: the copies part only on a gap halfway between two
\* multiples that B owes, where the publisher's is one increment lower.
HalfwayOwedByB ==
  /\ agreed.rounding # 0 /\ Raw < 0 /\ Abs(Raw) >= agreed.mta
  /\ \E n \in (Raw - agreed.rounding)..Raw :
       2 * (Raw - n) = agreed.rounding /\ IsMultiple(n, agreed.rounding)

TsMirrorsDamlOffTies ==
  IF HalfwayOwedByB
  THEN TsGateCall(Raw, agreed.mta, agreed.rounding) = Gated + agreed.rounding
  ELSE TsMirrorsDaml

=============================================================================
