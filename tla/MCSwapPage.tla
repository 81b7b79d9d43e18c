----------------------------- MODULE MCSwapPage -----------------------------
(* Two swaps, one of which has the notional a page begins with.  An edit    *)
(* or a flip and somebody else's step, or flips with What-If on and off.   *)
EXTENDS SwapPage, TLC

CONSTANTS s1, s2

MCNotional == s1 :> 1 @@ s2 :> 2
MCTogether == {{"edit", "other"}, {"flip", "other"}, {"flip", "scenario"}, {"failure"}}

=============================================================================
