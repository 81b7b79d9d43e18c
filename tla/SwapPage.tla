------------------------------ MODULE SwapPage ------------------------------
(***************************************************************************)
(* The workspace's page of one swap, as a trader sees it (app/src/         *)
(* features/workspace): opened by the contract id of a proposal or of a    *)
(* workflow, it finds out by queries what that is, loads the terms, and    *)
(* offers what may be done: accept, reject or withdraw a proposal, propose *)
(* to end the swap, answer such a proposal.  Each run of its effect asks   *)
(* two queries that are answered in any order, also after those of a later *)
(* run; meanwhile other users act, and the trader plays What-If.           *)
(***************************************************************************)
EXTENDS Integers, FiniteSets, Bags, BagsExt

CONSTANTS
  Swaps,         \* the trader's swaps, proposed and live
  Notional,      \* the notional of each
  ByMe,          \* those the trader proposed; the others are proposed to him
  Xccy,          \* the cross-currency ones
  DefaultNotional,  \* of the legs a page begins with
  None,          \* no swap, no contract, no role
  MaxAsked,      \* bound: queries under way
  MaxUnwinds,    \* bound: TerminateProposals at a time
  Together       \* bound: which kinds of event come together in one behaviour

ASSUME PageAssumption ==
  /\ None \notin Swaps \union [swap : Swaps, by : {"me", "them"}]
  /\ None \notin {"proposer", "counterparty"}
  /\ Notional \in [Swaps -> Nat \ {0}]
  /\ ByMe \subseteq Swaps
  /\ Xccy \subseteq Swaps
  /\ DefaultNotional \in Nat
  /\ {MaxAsked, MaxUnwinds} \subseteq Nat

VARIABLES
  life,          \* the ledger: each swap a proposal ("open"), its workflow ("live") or "over"
  unwinds,       \* the ledger: the TerminateProposals of the trader and to him
  opened, byProposal,      \* contractId: whose, and of its proposal or its workflow
  swapStatus, proposalRole, mode, workflowContractId, pendingUnwind,
  legs, whatIfOriginal,    \* whose legs the page shows, with which notional and direction
  resolvedWorkflow, lastHydratedKey,
  roleQuery,     \* useProposalRole: its queries
  asked,         \* useActiveContracts: its queries under way
  call,          \* the command under way
  missed,        \* history: the last terms that came were not shown
  reviewed,      \* history: the trader's acceptance went to the operator's review
  events         \* history: notionals entered, legs flipped with What-If on and off,
                 \* choices of others, queries that failed

ledger == <<life, unwinds>>
view == <<swapStatus, proposalRole, mode, workflowContractId, pendingUnwind, legs,
          whatIfOriginal, resolvedWorkflow, lastHydratedKey, missed>>
address == <<opened, byProposal>>
vars == <<ledger, view, address, roleQuery, asked, call, reviewed, events>>

Unwinds == [swap : Swaps, by : {"me", "them"}]

Live == {s \in Swaps : life[s] = "live"}

LegsOf(s) == [of |-> s, notional |-> Notional[s], flipped |-> FALSE]

\* hydrateCcy reads the proposal of an XCCY swap too: the fields it looks for
\* are not there, and the legs it makes are of no swap.
ProposalLegs(s) ==
  IF s \in Xccy THEN [of |-> None, notional |-> 0, flipped |-> FALSE] ELSE LegsOf(s)

Notionals == {Notional[s] : s \in Swaps} \union {DefaultNotional}

NoCall == [choice |-> "none", on |-> None, answer |-> "none"]

Query(kind, match) == [kind |-> kind, match |-> match, answered |-> FALSE, answer |-> None]

Answered(q, a) == [Query(q.kind, None) EXCEPT !.answered = TRUE, !.answer = a]

\* The two queries of an effect run; that for workflows keeps the notional it
\* ran with, if the page was Active then.
Ask(q, status, notional) ==
  LET match == IF status = "Active" THEN notional ELSE None
  IN BagAdd(BagAdd(q, Query("workflow", match)), Query("unwind", None))

Happens(event) ==
  /\ event \notin events
  /\ \E kinds \in Together : events \union {event} \subseteq kinds
  /\ events' = events \union {event}

\* The page HYDRATE_FROM_SWAP leaves, on a ledger of proposals and workflows;
\* useProposalRole finds nothing for the contract id of a workflow.
Init ==
  /\ life \in [Swaps -> {"open", "live"}]
  /\ unwinds = {}
  /\ opened \in Swaps
  /\ byProposal = (life[opened] # "live")
  /\ swapStatus = "Proposed"
  /\ proposalRole = None
  /\ mode = "active"
  /\ workflowContractId = None
  /\ pendingUnwind = None
  /\ legs = [of |-> None, notional |-> DefaultNotional, flipped |-> FALSE]
  /\ whatIfOriginal = None
  /\ resolvedWorkflow = None
  /\ lastHydratedKey = None
  /\ roleQuery = IF byProposal THEN "sent" ELSE "over"
  /\ asked = Ask(EmptyBag, "Proposed", DefaultNotional)
  /\ call = NoCall
  /\ missed = FALSE
  /\ reviewed = FALSE
  /\ events = {}

-----------------------------------------------------------------------------
(* The effect of useActiveContracts.                                       *)

\* It runs again when the status, the notional shown or the nonce changes, on
\* top of the queries q that are under way.
Reruns(q, refetch) ==
  LET again == refetch \/ swapStatus' # swapStatus \/ legs'.notional # legs.notional
  IN /\ asked' = IF again THEN Ask(q, swapStatus', legs'.notional) ELSE q
     /\ BagCardinality(asked') =< MaxAsked

Alike(notional) ==
  LET alike == {s \in Live : Notional[s] = notional}
  IN IF alike = {} /\ \E s \in Live : Live = {s} THEN Live ELSE alike

\* Mutant of Match: the notional is looked at whatever the status.
MatchInAnyPhase(notional) ==
  LET exact == {s \in Live : s = opened /\ ~byProposal}
  IN IF exact # {} THEN exact ELSE Alike(legs.notional)

\* Mutant of Match: the notional comes before the contract id.
MatchByNotional(notional) == IF notional = None THEN {} ELSE Alike(notional)

\* The workflow of the contract id; once Active, failing that one of the same
\* notional, failing that the only one there is.
Match(notional) ==
  LET exact == {s \in Live : s = opened /\ ~byProposal}
  IN IF notional = None \/ exact # {} THEN exact ELSE Alike(notional)

\* The first proposal the trader is a party of, whichever swap it would end.
Found(q) ==
  IF q.kind = "workflow" THEN Match(q.match) ELSE unwinds

Answers(q) == IF Found(q) = {} THEN {None} ELSE Found(q)

QueryAnswered(q) ==
  /\ ~q.answered
  /\ \E a \in Answers(q) :
       asked' = BagAdd(BagRemove(asked, q), Answered(q, a))
  /\ UNCHANGED <<ledger, view, address, roleQuery, call, reviewed, events>>

\* SET_WORKFLOW_CONTRACT, and resolvedWorkflow.
Resolve(s) ==
  /\ workflowContractId' = s
  /\ swapStatus' = "Active"
  /\ proposalRole' = None
  /\ resolvedWorkflow' = s
  /\ UNCHANGED <<mode, pendingUnwind, legs, whatIfOriginal, lastHydratedKey, missed>>

ShowWorkflow(q) ==
  /\ q.answered /\ q.kind = "workflow"
  /\ IF q.answer = None THEN UNCHANGED view ELSE Resolve(q.answer)
  /\ Reruns(BagRemove(asked, q), FALSE)
  /\ UNCHANGED <<ledger, address, roleQuery, call, reviewed, events>>

\* SET_PENDING_UNWIND.
ShowUnwind(q) ==
  /\ q.answered /\ q.kind = "unwind"
  /\ pendingUnwind' = q.answer
  /\ asked' = BagRemove(asked, q)
  /\ UNCHANGED <<swapStatus, proposalRole, mode, workflowContractId, legs, whatIfOriginal,
                 resolvedWorkflow, lastHydratedKey, missed>>
  /\ UNCHANGED <<ledger, address, roleQuery, call, reviewed, events>>

\* A failed query for workflows is ignored, one for unwinds finds none.
QueryFails(q) ==
  /\ ~q.answered
  /\ Happens("failure")
  /\ pendingUnwind' = IF q.kind = "unwind" THEN None ELSE pendingUnwind
  /\ asked' = BagRemove(asked, q)
  /\ UNCHANGED <<swapStatus, proposalRole, mode, workflowContractId, legs, whatIfOriginal,
                 resolvedWorkflow, lastHydratedKey, missed>>
  /\ UNCHANGED <<ledger, address, roleQuery, call, reviewed>>

\* HYDRATE_PROPOSAL_PAYLOAD: What-If keeps its scenario.
Hydrated(terms) == IF mode = "whatif" THEN legs ELSE terms

\* The instrument has come, and the page takes the terms of a workflow it has
\* not taken yet.
HydrateWorkflow ==
  /\ resolvedWorkflow # None
  /\ lastHydratedKey # resolvedWorkflow
  /\ lastHydratedKey' = resolvedWorkflow
  /\ legs' = Hydrated(LegsOf(resolvedWorkflow))
  /\ missed' = (mode = "whatif")
  /\ UNCHANGED <<swapStatus, proposalRole, mode, workflowContractId, pendingUnwind,
                 whatIfOriginal, resolvedWorkflow>>
  /\ Reruns(asked, FALSE)
  /\ UNCHANGED <<ledger, address, roleQuery, call, reviewed, events>>

-----------------------------------------------------------------------------
(* The effect of useProposalRole.                                          *)

RoleAnswered ==
  /\ roleQuery = "sent"
  /\ roleQuery' = IF life[opened] = "open" THEN "found" ELSE "over"
  /\ UNCHANGED <<ledger, view, address, asked, call, reviewed, events>>

\* RESOLVE_PROPOSAL and HYDRATE_PROPOSAL_PAYLOAD.
ShowProposal ==
  /\ roleQuery = "found"
  /\ roleQuery' = "over"
  /\ proposalRole' = IF opened \in ByMe THEN "proposer" ELSE "counterparty"
  /\ legs' = Hydrated(ProposalLegs(opened))
  /\ missed' = (mode = "whatif")
  /\ UNCHANGED <<swapStatus, mode, workflowContractId, pendingUnwind, whatIfOriginal,
                 resolvedWorkflow, lastHydratedKey>>
  /\ Reruns(asked, FALSE)
  /\ UNCHANGED <<ledger, address, call, reviewed, events>>

-----------------------------------------------------------------------------
(* The trader.                                                             *)

EnterWhatIf ==
  /\ mode = "active"
  /\ mode' = "whatif"
  /\ whatIfOriginal' = legs
  /\ UNCHANGED <<swapStatus, proposalRole, workflowContractId, pendingUnwind, legs,
                 resolvedWorkflow, lastHydratedKey, missed>>
  /\ UNCHANGED <<ledger, address, roleQuery, asked, call, reviewed, events>>

\* UPDATE_LEG, SET_LEG_NOTIONAL; the other fields of a leg decide nothing.
EditNotional(n) ==
  /\ mode = "whatif"
  /\ n # legs.notional
  /\ Happens("edit")
  /\ legs' = [legs EXCEPT !.notional = n]
  /\ UNCHANGED <<swapStatus, proposalRole, mode, workflowContractId, pendingUnwind,
                 whatIfOriginal, resolvedWorkflow, lastHydratedKey, missed>>
  /\ Reruns(asked, FALSE)
  /\ UNCHANGED <<ledger, address, roleQuery, call, reviewed>>

\* TOGGLE_DIRECTION, of all legs and in every mode: the button is not one of the
\* fields that What-If locks.  The notional stays, so no query is asked again.
ToggleDirection ==
  /\ Happens(IF mode = "whatif" THEN "scenario" ELSE "flip")
  /\ legs' = [legs EXCEPT !.flipped = ~legs.flipped]
  /\ UNCHANGED <<swapStatus, proposalRole, mode, workflowContractId, pendingUnwind,
                 whatIfOriginal, resolvedWorkflow, lastHydratedKey, missed>>
  /\ UNCHANGED <<ledger, address, roleQuery, asked, call, reviewed>>

\* Mutant of ExitWhatIf: the scenario stays.
ExitWhatIfKeeping ==
  /\ mode = "whatif"
  /\ mode' = "active"
  /\ whatIfOriginal' = None
  /\ UNCHANGED <<swapStatus, proposalRole, workflowContractId, pendingUnwind, legs,
                 resolvedWorkflow, lastHydratedKey, missed>>
  /\ Reruns(asked, FALSE)
  /\ UNCHANGED <<ledger, address, roleQuery, call, reviewed, events>>

ExitWhatIf ==
  /\ mode = "whatif"
  /\ mode' = "active"
  /\ legs' = whatIfOriginal
  /\ whatIfOriginal' = None
  /\ UNCHANGED <<swapStatus, proposalRole, workflowContractId, pendingUnwind,
                 resolvedWorkflow, lastHydratedKey, missed>>
  /\ Reruns(asked, FALSE)
  /\ UNCHANGED <<ledger, address, roleQuery, call, reviewed, events>>

\* STATUS_ACTIONS of the panel: a pending unwind comes before the status.
Offered ==
  IF pendingUnwind # None
  THEN IF pendingUnwind.by = "them" THEN {"TpAccept", "TpReject"} ELSE {"TpWithdraw"}
  ELSE CASE swapStatus = "Proposed" /\ proposalRole = "counterparty" -> {"accept", "reject"}
         [] swapStatus = "Proposed" /\ proposalRole = "proposer" -> {"withdraw"}
         [] swapStatus = "Active" /\ resolvedWorkflow # None -> {"propose"}
         [] OTHER -> {}

Unwinding == {"TpAccept", "TpReject", "TpWithdraw"}

\* What each is exercised on, or for "propose" names.
Target(choice) ==
  CASE choice \in {"accept", "reject", "withdraw"} -> opened
    [] choice = "propose" -> workflowContractId
    [] OTHER -> pendingUnwind

\* exerciseAction, proposeTerminate, up to their first await.
Click(choice) ==
  /\ call = NoCall
  /\ choice \in Offered
  /\ call' = [choice |-> choice, on |-> Target(choice), answer |-> "none"]
  /\ UNCHANGED <<ledger, view, address, roleQuery, asked, reviewed, events>>

Becomes(s, l) == life' = [life EXCEPT ![s] = l] /\ UNCHANGED unwinds

\* swapType, and so the template a choice on the proposal is exercised by: the
\* hydration that reads an XCCY proposal as one of a CCY swap sets it, What-If
\* keeps the right one with the legs.
TakenForCcy == opened \in Xccy /\ ~missed

\* Whether the ledger takes the choice, and what it does.
Possible ==
  CASE call.choice \in {"accept", "reject", "withdraw"} ->
           life[call.on] = "open" /\ ~TakenForCcy
    [] call.choice = "propose" -> TRUE
    [] call.choice = "TpAccept" -> call.on \in unwinds /\ call.on.swap \in Live
    [] OTHER -> call.on \in unwinds

Exercised ==
  \/ call.choice = "accept" /\ Becomes(call.on, "live") /\ UNCHANGED reviewed
  \* <Family>ProposeAccept, where the OperatorPolicy is Manual at the time:
  \* the proposal stays until the operator confirms.
  \/ call.choice = "accept" /\ reviewed' = TRUE /\ UNCHANGED ledger
  \/ call.choice \in {"reject", "withdraw"} /\ Becomes(call.on, "over") /\ UNCHANGED reviewed
  \/ /\ call.choice = "propose"
     /\ unwinds' = unwinds \union {[swap |-> call.on, by |-> "me"]}
     /\ Cardinality(unwinds') =< MaxUnwinds
     /\ UNCHANGED <<life, reviewed>>
  \/ /\ call.choice = "TpAccept"
     /\ unwinds' = unwinds \ {call.on}
     /\ life' = [life EXCEPT ![call.on.swap] = "over"]
     /\ UNCHANGED reviewed
  \/ /\ call.choice \in {"TpReject", "TpWithdraw"}
     /\ unwinds' = unwinds \ {call.on}
     /\ UNCHANGED <<life, reviewed>>

Lands ==
  /\ call # NoCall /\ call.answer = "none"
  /\ Possible
  /\ Exercised
  /\ call' = [call EXCEPT !.answer = "ok"]
  /\ UNCHANGED <<view, address, roleQuery, asked, events>>

\* The alert of the panel or of the modal, and nothing else.
Refused ==
  /\ call # NoCall /\ call.answer = "none"
  /\ ~Possible
  /\ call' = NoCall
  /\ UNCHANGED <<ledger, view, address, roleQuery, asked, reviewed, events>>

\* EXERCISE_SUCCESS; under review there is no workflow to show yet.
Accepted ==
  /\ call.choice = "accept"
  /\ swapStatus' = "Active"
  /\ workflowContractId' = IF reviewed THEN workflowContractId ELSE call.on
  /\ Reruns(asked, FALSE)

Declined ==
  /\ call.choice \in {"reject", "withdraw"}
  /\ swapStatus' = "Terminated"
  /\ UNCHANGED workflowContractId
  /\ Reruns(asked, FALSE)

\* REFETCH_ACTIVE_CONTRACTS.
Refetches ==
  /\ call.choice \in {"propose", "TpAccept", "TpReject", "TpWithdraw"}
  /\ UNCHANGED <<swapStatus, workflowContractId>>
  /\ Reruns(asked, TRUE)

Returns ==
  /\ call.answer = "ok"
  /\ call' = NoCall
  /\ proposalRole' = IF call.choice \in {"accept", "reject", "withdraw"}
                     THEN None ELSE proposalRole
  /\ UNCHANGED <<mode, pendingUnwind, legs, whatIfOriginal, resolvedWorkflow,
                 lastHydratedKey, missed>>
  /\ Accepted \/ Declined \/ Refetches
  /\ UNCHANGED <<ledger, address, roleQuery, reviewed, events>>

-----------------------------------------------------------------------------
(* Everybody else: counterparties, the operator, the scheduler, and the    *)
(* trader himself on another page.                                         *)

Elsewhere ==
  /\ Happens("other")
  /\ \/ \E s \in Swaps :
          \/ life[s] = "open" /\ \E l \in {"live", "over"} : Becomes(s, l)
          \/ life[s] = "live" /\ Becomes(s, "over")
     \/ \E u \in Unwinds \ unwinds :
          /\ u.by = "them" /\ life[u.swap] \in {"live", "over"}
          /\ unwinds' = unwinds \union {u}
          /\ Cardinality(unwinds') =< MaxUnwinds
          /\ UNCHANGED life
     \/ \E u \in unwinds :
          /\ unwinds' = unwinds \ {u}
          /\ \/ UNCHANGED life
             \/ u.swap \in Live /\ life' = [life EXCEPT ![u.swap] = "over"]
  /\ UNCHANGED <<view, address, roleQuery, asked, call, reviewed>>

Next ==
  \/ \E q \in BagToSet(asked) :
       QueryAnswered(q) \/ ShowWorkflow(q) \/ ShowUnwind(q) \/ QueryFails(q)
  \/ HydrateWorkflow
  \/ RoleAnswered
  \/ ShowProposal
  \/ EnterWhatIf
  \/ \E n \in Notionals : EditNotional(n)
  \/ ToggleDirection
  \/ ExitWhatIf
  \/ \E choice \in {"accept", "reject", "withdraw", "propose", "TpAccept", "TpReject",
                     "TpWithdraw"} : Click(choice)
  \/ Lands
  \/ Refused
  \/ Returns
  \/ Elsewhere

Spec == Init /\ [][Next]_vars

-----------------------------------------------------------------------------
(* Properties.                                                             *)

Legs == [of : Swaps \union {None}, notional : Notionals \union {0}, flipped : BOOLEAN]

Queries ==
  [kind : {"workflow", "unwind"}, match : Notionals \union {0, None}, answered : BOOLEAN,
   answer : Swaps \union Unwinds \union {None}]

\* A query for workflows is answered with a swap, one for unwinds with an unwind.
AskedTyped ==
  /\ BagToSet(asked) \subseteq Queries
  /\ \A q \in BagToSet(asked) :
       q.answer \in (IF q.kind = "workflow" THEN Swaps ELSE Unwinds) \union {None}

\* A choice under way is exercised on what it is a choice of.
CallTyped ==
  /\ call.choice \in {"none", "accept", "reject", "withdraw", "propose"} \union Unwinding
  /\ call.choice \in {"accept", "reject", "withdraw", "propose"} => call.on \in Swaps
  /\ call.choice \in Unwinding => call.on \in Unwinds
  /\ call.answer \in {"none", "ok"}

ViewTyped ==
  /\ swapStatus \in {"Proposed", "Active", "Terminated"}
  /\ proposalRole \in {None, "proposer", "counterparty"}
  /\ mode \in {"active", "whatif"}
  /\ workflowContractId \in Swaps \union {None}
  /\ resolvedWorkflow \in Swaps \union {None}
  /\ lastHydratedKey \in Swaps \union {None}
  /\ resolvedWorkflow # None => workflowContractId # None
  /\ pendingUnwind \in Unwinds \union {None}
  /\ legs \in Legs
  /\ whatIfOriginal \in Legs \union {None}
  /\ mode = "whatif" => whatIfOriginal \in Legs
  /\ missed \in BOOLEAN

\* Every variable stays within its type.
TypeOK ==
  /\ life \in [Swaps -> {"open", "live", "over"}]
  /\ unwinds \subseteq Unwinds
  /\ opened \in Swaps
  /\ byProposal \in BOOLEAN
  /\ ViewTyped
  /\ AskedTyped
  /\ CallTyped
  /\ roleQuery \in {"sent", "found", "over"}
  /\ reviewed \in BOOLEAN
  /\ events \subseteq {"failure", "edit", "flip", "scenario", "other"}

\* The legs of a swap, their direction too if the trader flipped it himself with
\* What-If off.
Faces(s) ==
  {LegsOf(s)} \union
    (IF "flip" \in events THEN {[LegsOf(s) EXCEPT !.flipped = TRUE]} ELSE {})

\* With What-If off, the page shows the terms of what its buttons would accept,
\* decline or propose to end, once the instrument of a workflow is there:
\* whatever the order in which answers came and however often it changed its
\* mind.  Not so for their direction once the trader flipped it with What-If
\* off, for the proposal of an XCCY swap, which is read as one of a CCY swap, for
\* terms that came during What-If, which are never asked for again, nor for the
\* unwinds of others.
ShowsWhatItActsOn ==
  \A choice \in Offered \ Unwinding :
    /\ mode = "active"
    /\ choice = "propose" => lastHydratedKey = resolvedWorkflow
    /\ choice # "propose" => opened \notin Xccy
    /\ ~missed
    => legs \in Faces(Target(choice))

\* While the swap a page was opened for is there, its buttons act on no other.
\* A page opened for a proposal finds the workflow by the notional it shows: not
\* so when another swap has it too, a scenario changed it, or the page looked
\* while the acceptance was under review.  Nor for an unwind it offers to answer,
\* which is the first there is, whatever swap it would end.
StaysWithItsSwap ==
  life[opened] # "over" =>
    \A choice \in Offered \ Unwinding :
      \/ Target(choice) = opened
      \/ /\ byProposal
         /\ \/ \E s \in Swaps \ {opened} : Notional[s] \in {Notional[opened], DefaultNotional}
            \/ "edit" \in events
            \/ reviewed

\* With no query under way, a page that was opened for a live swap acts on it
\* and has shown it or awaits its instrument, unless a query failed: none is
\* repeated.
RestsOnItsSwap ==
  /\ asked = EmptyBag
  /\ ~byProposal
  /\ life[opened] = "live"
  /\ "failure" \notin events
  => /\ swapStatus = "Active"
     /\ {workflowContractId, resolvedWorkflow} = {opened}
     /\ lastHydratedKey = opened => legs.of = opened \/ missed

=============================================================================
