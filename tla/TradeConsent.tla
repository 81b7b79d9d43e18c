---------------------------- MODULE TradeConsent ----------------------------
(***************************************************************************)
(* What proposing a trade promises: a proposal is decided once, by the     *)
(* party whose right the decision is, and the operator can only confirm    *)
(* what the counterparty agreed to and has not retracted.                  *)
(***************************************************************************)

CONSTANTS Proposed, Consents     \* proposals and expressions of consent

VARIABLES
  decision,      \* of each proposal
  standing       \* the expressions of consent that wait for the operator

vars == <<decision, standing>>

Init ==
  /\ decision = [p \in Proposed |-> "none"]
  /\ standing = [p \in Proposed |-> {}]

Decide(p, outcome) == decision' = [decision EXCEPT ![p] = outcome]

Offer(p) == decision[p] = "none" /\ Decide(p, "open") /\ UNCHANGED standing

\* The counterparty agrees, rejects, or the proposer withdraws.
Close(p) ==
  /\ decision[p] = "open"
  /\ \E outcome \in {"accepted", "rejected", "withdrawn"} : Decide(p, outcome)
  /\ UNCHANGED standing

Consent(p, c) ==
  /\ decision[p] = "open"
  /\ \A q \in Proposed : c \notin standing[q]
  /\ standing' = [standing EXCEPT ![p] = @ \union {c}]
  /\ UNCHANGED decision

Retract(p, c) ==
  /\ c \in standing[p]
  /\ standing' = [standing EXCEPT ![p] = @ \ {c}]
  /\ UNCHANGED decision

Confirm(p, c) ==
  /\ decision[p] = "open"
  /\ c \in standing[p]
  /\ Decide(p, "confirmed")
  /\ standing' = [standing EXCEPT ![p] = @ \ {c}]

Next ==
  \E p \in Proposed :
    \/ Offer(p)
    \/ Close(p)
    \/ \E c \in Consents : Consent(p, c) \/ Retract(p, c) \/ Confirm(p, c)

Spec == Init /\ [][Next]_vars

=============================================================================
