------------------------------- MODULE MCCsa -------------------------------
(* A small agreement: one unit of threshold for A, calls from two units up, *)
(* in multiples of three, so that a gap may be gated, rounded or exact.     *)
EXTENDS Csa

MCThreshold == [p \in Parties |-> IF p = PartyA THEN 1 ELSE 0]
MCExposures == {-4, 4}
MCAmounts == {1, 3}

=============================================================================
