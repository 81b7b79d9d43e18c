--------------------------- MODULE MCMarkTrigger ----------------------------
(***************************************************************************)
(* Values of MarkTrigger's constants: a debounce shorter than the cron's   *)
(* period and the first reconnection delay, as 250 ms is, and room for a   *)
(* second chain of connections should one appear.                          *)
(***************************************************************************)
EXTENDS MarkTrigger

=============================================================================
