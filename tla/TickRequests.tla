---------------------------- MODULE TickRequests ----------------------------
(***************************************************************************)
(* What whoever asks for a tick is promised: ticks do not overlap, none    *)
(* starts unasked or after the service is closed, and a request is served  *)
(* by a tick that starts after it, however many requests that one serves.  *)
(***************************************************************************)

VARIABLES
  owed,      \* somebody asked since the last tick started
  busy,      \* a tick is running
  closed

vars == <<owed, busy, closed>>

Init == owed = FALSE /\ busy = FALSE /\ closed = FALSE

Request == ~closed /\ owed' = TRUE /\ UNCHANGED <<busy, closed>>

Start == owed /\ ~busy /\ ~closed /\ owed' = FALSE /\ busy' = TRUE /\ UNCHANGED closed

Finish == busy /\ busy' = FALSE /\ UNCHANGED <<owed, closed>>

Close == closed' = TRUE /\ owed' = FALSE /\ UNCHANGED busy

Next == Request \/ Start \/ Finish \/ Close

Safety == Init /\ [][Next]_vars

Spec == Safety /\ WF_vars(Start) /\ WF_vars(Finish)

=============================================================================
