---------------------------- MODULE MCOracleFeed ----------------------------
(***************************************************************************)
(* Two stubbed curves, one of SOFR's own as in the demo configuration,     *)
(* where a requested publication meets the ticker, and one whose provider  *)
(* is missing; and two indices, one of them without a provider.            *)
(***************************************************************************)
EXTENDS OracleFeed

CONSTANTS i1, i2

MCIndices == {i1, i2}
MCStubbed == {Discount, "EUR discount"}
MCProvided == {i1, Discount}

=============================================================================
