-------------------------- MODULE MarginAgreement --------------------------
(***************************************************************************)
(* What a Credit Support Annex promises its two parties, with the          *)
(* arithmetic of marks and calls left out: collateral goes in at any time  *)
(* and comes out only from the net pledgor's surplus over the other side,  *)
(* never while the agreement is frozen; either party may freeze it, and a  *)
(* freeze is lifted by somebody other than the party that imposed it.      *)
(***************************************************************************)
EXTENDS Integers

CONSTANTS Parties, Nobody

VARIABLES
  stake,      \* what each party has put in and not taken out
  phase,      \* "open", "called" or "frozen"
  opener,     \* the party that froze the agreement, or Nobody
  actor       \* who took the last step

Init ==
  /\ stake = [p \in Parties |-> 0]
  /\ phase = "open"
  /\ opener = Nobody
  /\ actor \notin Parties

\* The step changes p's stake and nobody else's.
Moves(p) == stake' = [stake EXCEPT ![p] = stake'[p]]

\* Collateral put in may answer an outstanding call.
PutIn(p) ==
  /\ Moves(p)
  /\ stake'[p] > stake[p]
  /\ \/ phase' = phase
     \/ phase = "called" /\ phase' = "open"
  /\ actor' = p
  /\ UNCHANGED opener

\* What comes out is at most the surplus: p stays above every other stake.
TakeOut(p) ==
  /\ phase # "frozen"
  /\ Moves(p)
  /\ stake'[p] < stake[p]
  /\ \A q \in Parties \ {p} : stake'[p] >= stake[q]
  /\ actor' = p
  /\ UNCHANGED <<phase, opener>>

\* Only the service raises calls, and never on a frozen agreement.
Assess ==
  /\ phase # "frozen"
  /\ phase' \in {"open", "called"}
  /\ actor' \notin Parties
  /\ UNCHANGED <<stake, opener>>

Freeze(p) ==
  /\ phase # "frozen"
  /\ phase' = "frozen"
  /\ opener' = p
  /\ actor' = p
  /\ UNCHANGED stake

Thaw ==
  /\ phase = "frozen"
  /\ phase' = "open"
  /\ opener' = Nobody
  /\ actor' # opener
  /\ UNCHANGED stake

\* A step that leaves the agreement as it is: a mark, an escalation.
Note == UNCHANGED <<stake, phase, opener>>

Next ==
  \/ \E p \in Parties : PutIn(p) \/ TakeOut(p) \/ Freeze(p)
  \/ Assess
  \/ Thaw
  \/ Note

Spec == Init /\ [][Next]_<<stake, phase, opener, actor>>

=============================================================================
