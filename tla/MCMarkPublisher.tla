-------------------------- MODULE MCMarkPublisher --------------------------
(* Two overlapping publishers, and enough moves for a dispute or a post to  *)
(* fall between any two requests of a tick and be undone again.             *)
EXTENDS MarkPublisher

MCThreshold == [p \in Parties |-> IF p = PartyA THEN 1 ELSE 0]
MCExposures == {-4, 0, 4}
MCAmounts == {3}

=============================================================================
