--------------------------- MODULE OperatorQueue ----------------------------
(***************************************************************************)
(* The operator's queue in a tab: a subscription to the contracts that     *)
(* await him, over one WebSocket after another, and the records kept of    *)
(* its events (app/src/shared/hooks/use-streamed-events.ts,                *)
(* app/src/features/operator/hooks/use-operator-queue-stream.ts), beside   *)
(* the tab's SandboxRotation, whose tokens the sockets are opened with.    *)
(***************************************************************************)
EXTENDS SandboxRotation, SequencesExt

CONSTANTS
  Items,         \* bound: contracts that ever await the operator
  MaxRenewals    \* bound: tokens renewed by their timer

ASSUME QueueAssumption ==
  /\ IsFiniteSet(Items)
  /\ MaxRenewals \in Nat

VARIABLES
  item,          \* of each contract: new, live or gone
  conn,          \* connecting, open, severed from the ledger, waiting, closed, fallback
  budget,        \* of retries: untouched, running since the first failure, spent
  wire,          \* events of the socket not delivered yet
  records,       \* the cids of the records
  missed,        \* history: contracts that ended without the socket's knowledge
  renewals       \* how often the token was renewed

socketVars == <<conn, budget, wire>>
queueVars == <<item, socketVars, records, missed, renewals>>
vars == <<rotationVars, queueVars>>

Live == {i \in Items : item[i] = "live"}

Created(i) == <<"created", i>>
Archived(i) == <<"archived", i>>

\* The contracts whose end was on the wire.
EndsOnWire == {i \in Items : Contains(wire, Archived(i))}

\* A contract is seen with a token of its boot.
Watched == conn = "open" /\ token = boot

Init ==
  /\ RotationInit
  /\ item = [i \in Items |-> "new"]
  /\ conn = "connecting"
  /\ budget = "untouched"
  /\ wire = <<>>
  /\ records = {}
  /\ missed = {}
  /\ renewals = 0

-----------------------------------------------------------------------------
(* The contracts.                                                          *)

\* <Family>ProposeAccept or Dispute.
Arises(i) ==
  /\ ledger = "up"
  /\ item[i] = "new"
  /\ item' = [item EXCEPT ![i] = "live"]
  /\ wire' = IF Watched THEN Append(wire, Created(i)) ELSE wire
  /\ UNCHANGED <<rotationVars, conn, budget, records, missed, renewals>>

\* It is confirmed, cancelled, resolved, by the operator or another.
Ends(i) ==
  /\ ledger = "up"
  /\ item[i] = "live"
  /\ item' = [item EXCEPT ![i] = "gone"]
  /\ wire' = IF Watched THEN Append(wire, Archived(i)) ELSE wire
  /\ missed' = IF Watched THEN missed ELSE missed \union {i}
  /\ UNCHANGED <<rotationVars, conn, budget, records, renewals>>

-----------------------------------------------------------------------------
(* The socket.                                                             *)

Lose ==
  /\ wire' = <<>>
  /\ missed' = missed \union EndsOnWire

\* onclose of a socket that was not closed cleanly.
Retry ==
  /\ conn' = IF budget = "spent" THEN "fallback" ELSE "waiting"
  /\ budget' = IF budget = "untouched" THEN "running" ELSE budget
  /\ Lose

\* onopen; the ledger answers the query with the contracts there are.
SocketOpens ==
  /\ conn = "connecting"
  /\ Answering
  /\ conn' = "open"
  /\ budget' = "untouched"
  /\ wire' = IF token = boot THEN [k \in DOMAIN SetToSeq(Live) |-> Created(SetToSeq(Live)[k])]
             ELSE <<>>
  /\ UNCHANGED <<rotationVars, item, records, missed, renewals>>

\* onerror and onclose of a socket that never opened.
SocketFails ==
  /\ conn = "connecting"
  /\ ~Answering
  /\ Retry
  /\ UNCHANGED <<rotationVars, item, records, renewals>>

\* onclose of one that was open, with onerror before it or without.
SocketDrops ==
  /\ conn = "severed"
  /\ Retry
  /\ UNCHANGED <<rotationVars, item, records, renewals>>

\* onclose with wasClean.
SocketCloses ==
  /\ conn = "severed"
  /\ conn' = "closed"
  /\ Lose
  /\ UNCHANGED <<rotationVars, item, budget, records, renewals>>

\* Mutant of RetryFires: the timer gives up silently once the budget is spent.
RetryFiresInBudget ==
  /\ conn = "waiting"
  /\ budget = "running"
  /\ conn' = "connecting"
  /\ UNCHANGED <<rotationVars, item, budget, wire, records, missed, renewals>>

\* The retry timer of open().
RetryFires ==
  /\ conn = "waiting"
  /\ conn' = "connecting"
  /\ UNCHANGED <<rotationVars, item, budget, wire, records, missed, renewals>>

\* RETRY_BUDGET_MS after retryStartedAt.
BudgetEnds ==
  /\ budget = "running"
  /\ budget' = "spent"
  /\ UNCHANGED <<rotationVars, item, conn, wire, records, missed, renewals>>

\* Mutant of Apply: the queue takes no notice of archives.
ApplyCreated(event) ==
  IF event[1] = "created" THEN records \union {event[2]} ELSE records

\* onCreated and onArchived of useOperatorQueueStream.
Apply(event) ==
  IF event[1] = "created" THEN records \union {event[2]} ELSE records \ {event[2]}

\* onmessage.
Deliver ==
  /\ conn \in {"open", "severed"}
  /\ wire # <<>>
  /\ records' = Apply(Head(wire))
  /\ wire' = Tail(wire)
  /\ UNCHANGED <<rotationVars, item, conn, budget, missed, renewals>>

-----------------------------------------------------------------------------
(* The socket and the rest of the tab.                                     *)

\* The effect of useStreamedEvents is torn down and run again for another
\* token; the retry counters and the records are kept.
Reopen ==
  /\ conn' = "connecting"
  /\ Lose
  /\ UNCHANGED <<item, budget, records>>

\* scheduleRefresh renews the token of an OIDC session, for the same parties.
Renew ==
  /\ renewals < MaxRenewals
  /\ renewals' = renewals + 1
  /\ Reopen
  /\ UNCHANGED rotationVars

\* What a step of the tab does to the socket.
Rotation(step) ==
  /\ step
  /\ IF token' # token THEN Reopen ELSE UNCHANGED <<item, socketVars, records, missed>>
  /\ UNCHANGED renewals

\* What a step of the ledger does: a restart ends every contract, and with it
\* or an outage sockets lose their other end.
Environment(step) ==
  /\ step
  /\ conn' = IF conn = "open" /\ ledger' \in {"down", "cut"} THEN "severed" ELSE conn
  /\ item' = IF boot' = boot THEN item
             ELSE [i \in Items |-> IF item[i] = "live" THEN "gone" ELSE item[i]]
  /\ missed' = IF boot' = boot THEN missed ELSE missed \union Live
  /\ UNCHANGED <<budget, wire, records, renewals>>

Next ==
  \/ Environment(Environs)
  \/ Rotation(Rotates)
  \/ Renew
  \/ \E i \in Items : Arises(i) \/ Ends(i)
  \/ SocketOpens
  \/ SocketFails
  \/ SocketDrops
  \/ SocketCloses
  \/ RetryFires
  \/ BudgetEnds
  \/ Deliver

\* The ledger comes back, queries and reminting return, timers fire, a socket
\* is answered or noticed to be dead; nobody owes a reset, a renewal or a click.
Fairness ==
  /\ WF_vars(Environment(Starts \/ Allocates \/ Seeds \/ Mend))
  /\ WF_vars(Rotation(CanaryTick))
  /\ \A t \in Tokens :
       WF_vars(Rotation(CanaryServed(t) \/ CanaryAnswered(t) \/ CanaryLost(t)))
  /\ WF_vars(Rotation(CooldownEnds))
  /\ WF_vars(Rotation(MintAnswers \/ MintApplied))
  /\ WF_vars(SocketOpens \/ SocketFails)
  /\ WF_vars(SocketDrops)
  /\ WF_vars(RetryFires)
  /\ WF_vars(Deliver)

Spec == Init /\ [][Next]_vars /\ Fairness

-----------------------------------------------------------------------------
(* Properties.                                                             *)

\* Every variable stays within its type.
TypeOK ==
  /\ RotationTypeOK
  /\ item \in [Items -> {"new", "live", "gone"}]
  /\ conn \in {"connecting", "open", "severed", "waiting", "closed", "fallback"}
  /\ budget \in {"untouched", "running", "spent"}
  /\ wire \in Seq({"created", "archived"} \X Items)
  /\ records \subseteq Items
  /\ missed \subseteq Items
  /\ renewals \in 0..MaxRenewals

\* Once an open socket has delivered what it had, the queue lists every
\* contract that awaits the operator; and what it lists beyond them are those
\* that ended behind the back of its sockets, which it keeps for good.
QueueIsCurrent ==
  Watched /\ wire = <<>> =>
    /\ Live \subseteq records
    /\ records \ Live \subseteq missed

\* A contract that awaits the operator is listed in the end, unless the socket
\* was closed cleanly or the retries ran out, after which nothing opens another
\* but a new token, or the tab's token is no longer the ledger's.
ListedInTheEnd ==
  \A i \in Items :
    item[i] = "live" ~> (item[i] # "live" \/ i \in records
                         \/ conn \in {"closed", "fallback"} \/ token # boot)

=============================================================================
