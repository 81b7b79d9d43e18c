----------------------------- MODULE Proposals ------------------------------
(***************************************************************************)
(* How a swap comes about: a trader proposes through the operator's        *)
(* ProposalDelegation, the counterparty's browser looks up the family's    *)
(* OperatorPolicy and accepts or asks the operator to, the operator        *)
(* confirms, and each of them may decline meanwhile (contracts/src/Swap/   *)
(* *Proposal.daml, ProposalDelegation.daml, contracts/src/Operator/        *)
(* Policy.daml, app/src/features/workspace/ledger/swap-actions.ts).        *)
(*                                                                         *)
(* The nine families have one protocol, which the actions are; where they  *)
(* differ is SwapTerms.  A ledger transaction is one step.                 *)
(***************************************************************************)
EXTENDS SwapTerms

CONSTANTS
  Slots,         \* bound: proposals ever made
  Acks,          \* bound: AcceptAck contracts at a time
  Drafts,        \* what a trader may have entered
  Traders,       \* the delegation's whitelist
  Policied,      \* the families with an OperatorPolicy
  MaxFlips,      \* bound: changes of policy
  Nobody         \* no value of the above

ASSUME ProposalsAssumption ==
  /\ Nobody \notin Slots
  /\ Nobody \notin Drafts
  /\ Policied \subseteq SwapFamilies
  /\ MaxFlips \in Nat
  /\ \A d \in Drafts : d.family \in SwapFamilies \union {"CSA"} /\ Enterable(d)

VARIABLES
  status,        \* of each proposal
  draft,         \* what was entered for it
  swapIndex,     \* the indices of the swap it became
  ackOf,         \* the proposal an AcceptAck is about
  ackIndex,      \* the indices the AcceptAck names
  manual,        \* the families whose policy stands at Manual
  flips,         \* how often a policy changed
  route,         \* the choice the counterparty's browser is about to exercise
  held           \* and the indices it resolved

proposalVars == <<status, draft, swapIndex>>
ackVars == <<ackOf, ackIndex>>
policyVars == <<manual, flips>>
clientVars == <<route, held>>
vars == <<proposalVars, ackVars, policyVars, clientVars>>

Swap == {"accepted", "confirmed"}

\* BasisAccept and XccyAccept compare the indices with the proposal.
SelfChecking == {"BASIS", "XCCY"}

IndexTuples == {<<>>} \union {<<i>> : i \in Indices} \union (Indices \X Indices)

Terms(p) == Payload(draft[p])

Init ==
  /\ status = [p \in Slots |-> "none"]
  /\ draft = [p \in Slots |-> Nobody]
  /\ swapIndex = [p \in Slots |-> <<>>]
  /\ ackOf = [a \in Acks |-> Nobody]
  /\ ackIndex = [a \in Acks |-> <<>>]
  /\ manual = {}
  /\ flips = 0
  /\ route = [p \in Slots |-> "idle"]
  /\ held = [p \in Slots |-> <<>>]

-----------------------------------------------------------------------------
(* Proposing.                                                              *)

\* proposeSwap, whose last request exercises Create<Family>Proposal; proposeCsa
\* creates its contract with the operator's rights and without the whitelist.
Propose(p, d) ==
  /\ status[p] = "none"
  /\ d.family \in SwapFamilies => d.by \in Traders
  /\ ~Refused(Payload(d))
  /\ Ensures(Payload(d))
  /\ status' = [status EXCEPT ![p] = "open"]
  /\ draft' = [draft EXCEPT ![p] = d]
  /\ UNCHANGED <<swapIndex, ackVars, policyVars, clientVars>>

-----------------------------------------------------------------------------
(* Accepting.                                                              *)

\* readOperatorPolicy: a family without a policy counts as auto.
RouteOf(family) == IF family \in manual THEN "review" ELSE "direct"

\* The first requests of exerciseProposalChoice resolve the indices and the
\* last of them reads the policy, for the family the page shows.
PrepareAccept(p, args) ==
  /\ status[p] = "open"
  /\ route[p] = "idle"
  /\ args \in IndexArguments(ShownFamily(Terms(p)))
  /\ Range(args) \subseteq Indices
  /\ route' = [route EXCEPT ![p] = RouteOf(ShownFamily(Terms(p)))]
  /\ held' = [held EXCEPT ![p] = args]
  /\ UNCHANGED <<proposalVars, ackVars, policyVars>>

\* Mutant of Registered: the id is made from the proposal's own contract id.
RegisteredBySlot(p) == status[p] \in Swap

\* The factory has an instrument of that id; a CSA is no instrument.
Registered(p) ==
  /\ Terms(p).family \in SwapFamilies
  /\ \E q \in Slots :
       status[q] \in Swap /\ draft[q] # Nobody /\ InstrumentId(Terms(q)) = InstrumentId(Terms(p))

CanAccept(p, args) ==
  status[p] = "open" /\ Acceptable(Terms(p), args) /\ ~Registered(p)

\* What <Family>Accept does: the proposal is consumed, the instrument made and
\* the SwapWorkflow created; CsaProposalAccept creates the Csa.
Become(p, args, how) ==
  /\ status' = [status EXCEPT ![p] = how]
  /\ swapIndex' = [swapIndex EXCEPT ![p] = args]

\* The choice exercised is the shown family's, on the proposal's contract id.
RightTemplate(p) == ShownFamily(Terms(p)) = Terms(p).family

Accept(p) ==
  /\ route[p] = "direct"
  /\ RightTemplate(p)
  /\ CanAccept(p, held[p])
  /\ Become(p, held[p], "accepted")
  /\ route' = [route EXCEPT ![p] = "idle"]
  /\ UNCHANGED <<draft, ackVars, policyVars, held>>

\* The choice through another client of the ledger, with whatever indices; for
\* the families whose choice looks at them.
AcceptElsewhere(p, args) ==
  /\ status[p] = "open"
  /\ Terms(p).family \in SelfChecking
  /\ Len(args) = Len(FloatingCurrencies(Terms(p)))
  /\ CanAccept(p, args)
  /\ Become(p, args, "accepted")
  /\ UNCHANGED <<draft, ackVars, policyVars, clientVars>>

\* The exercise is refused: alert() and the page stays.
AcceptFails(p) ==
  /\ \/ route[p] = "direct" /\ ~(RightTemplate(p) /\ CanAccept(p, held[p]))
     \/ route[p] = "review" /\ ~(RightTemplate(p) /\ status[p] = "open")
  /\ route' = [route EXCEPT ![p] = "idle"]
  /\ UNCHANGED <<proposalVars, ackVars, policyVars, held>>

\* <Family>ProposeAccept, which leaves the proposal where it is.
ProposeAccept(p, a) ==
  /\ route[p] = "review"
  /\ RightTemplate(p)
  /\ status[p] = "open"
  /\ ackOf[a] = Nobody
  /\ ackOf' = [ackOf EXCEPT ![a] = p]
  /\ ackIndex' = [ackIndex EXCEPT ![a] = held[p]]
  /\ route' = [route EXCEPT ![p] = "idle"]
  /\ UNCHANGED <<proposalVars, policyVars, held>>

-----------------------------------------------------------------------------
(* Deciding otherwise.                                                     *)

\* <Family>Reject by the counterparty.
Reject(p) ==
  /\ status[p] = "open"
  /\ status' = [status EXCEPT ![p] = "rejected"]
  /\ UNCHANGED <<draft, swapIndex, ackVars, policyVars, clientVars>>

\* <Family>Withdraw by the proposer.
Withdraw(p) ==
  /\ status[p] = "open"
  /\ status' = [status EXCEPT ![p] = "withdrawn"]
  /\ UNCHANGED <<draft, swapIndex, ackVars, policyVars, clientVars>>

\* Mutant of Archive: ConfirmAccept does not consume the AcceptAck.
ArchiveNothing(a) == UNCHANGED ackVars

Archive(a) ==
  /\ ackOf' = [ackOf EXCEPT ![a] = Nobody]
  /\ ackIndex' = [ackIndex EXCEPT ![a] = <<>>]

\* <Family>ConfirmAccept; it aborts, and changes nothing, when the proposal
\* is gone or cannot be accepted.
ConfirmAccept(a) ==
  /\ ackOf[a] # Nobody
  /\ CanAccept(ackOf[a], ackIndex[a])
  /\ Become(ackOf[a], ackIndex[a], "confirmed")
  /\ Archive(a)
  /\ UNCHANGED <<draft, policyVars, clientVars>>

\* AcceptAckCancelByCounterparty and AcceptAckCancelByOperator.
CancelAck(a) ==
  /\ ackOf[a] # Nobody
  /\ Archive(a)
  /\ UNCHANGED <<proposalVars, policyVars, clientVars>>

\* OperatorPolicy's SetMode, to the other mode.
SetMode(f) ==
  /\ f \in Policied
  /\ flips < MaxFlips
  /\ manual' = IF f \in manual THEN manual \ {f} ELSE manual \union {f}
  /\ flips' = flips + 1
  /\ UNCHANGED <<proposalVars, ackVars, clientVars>>

Next ==
  \/ \E p \in Slots :
       \/ \E d \in Drafts : Propose(p, d)
       \/ \E args \in IndexTuples : PrepareAccept(p, args) \/ AcceptElsewhere(p, args)
       \/ Accept(p)
       \/ AcceptFails(p)
       \/ \E a \in Acks : ProposeAccept(p, a)
       \/ Reject(p)
       \/ Withdraw(p)
  \/ \E a \in Acks : ConfirmAccept(a) \/ CancelAck(a)
  \/ \E f \in Policied : SetMode(f)

Spec == Init /\ [][Next]_vars

-----------------------------------------------------------------------------
(* Properties.                                                             *)

\* Every variable stays within its type.
TypeOK ==
  /\ status \in [Slots -> {"none", "open", "accepted", "confirmed", "rejected", "withdrawn"}]
  /\ draft \in [Slots -> Drafts \union {Nobody}]
  /\ \A p \in Slots : status[p] # "none" => draft[p] # Nobody
  /\ swapIndex \in [Slots -> IndexTuples]
  /\ ackOf \in [Acks -> Slots \union {Nobody}]
  /\ ackIndex \in [Acks -> IndexTuples]
  /\ manual \subseteq Policied
  /\ flips \in 0..MaxFlips
  /\ route \in [Slots -> {"idle", "direct", "review"}]
  /\ held \in [Slots -> IndexTuples]

Promise == INSTANCE TradeConsent WITH
  Proposed <- Slots,
  Consents <- Acks,
  decision <- status,
  standing <- [p \in Slots |-> {a \in Acks : ackOf[a] = p}]

\* However acceptances, retractions, withdrawals and confirmations interleave,
\* a proposal is decided once and confirmed only on a standing consent.
KeepsPromise == Promise!Spec

\* A trade proposed twice, as a trader does whose first proposal seemed lost,
\* becomes at most one swap although each proposal can be accepted.
SameTradeOnce ==
  \A p, q \in Slots :
    /\ p # q
    /\ status[p] \in Swap
    /\ status[q] \in Swap
    /\ Terms(p).family \in SwapFamilies
    => Terms(p) # Terms(q)

\* The indices a swap was accepted with, directly or by way of the operator,
\* are of the currencies of the legs they stand under; the IRS, OIS and asset
\* choices do not check it, the browser's choice of a USD index has to fit.
IndexFits ==
  \A p \in Slots :
    status[p] \in Swap =>
      /\ Len(swapIndex[p]) = Len(FloatingCurrencies(Terms(p)))
      /\ \A i \in DOMAIN swapIndex[p] :
           IndexCurrency[swapIndex[p][i]] = FloatingCurrencies(Terms(p))[i]

\* What the workspace lets through, its counterparty can accept there, unless
\* it is a second trade of the same id; not so for a term shorter than the
\* first period, for the families whose currencies the workspace does not
\* compare with the indices it will send, and for XCCY, which it shows as CCY.
ProposedIsAcceptable ==
  \A p \in Slots :
    /\ status[p] = "open"
    /\ Terms(p).family \notin {"BASIS", "XCCY", "FpML"}
    /\ Fits(Terms(p))
    => /\ RightTemplate(p)
       /\ \E args \in IndexArguments(Terms(p).family) : CanAccept(p, args) \/ Registered(p)

\* The legs shown to whoever opens a proposal are those it was made of, as far
\* as the proposal knows them: to propose them again is to propose the same.
\* XCCY is shown as another trade.
PreviewRebuilds ==
  \A p \in Slots :
    status[p] = "open" /\ Terms(p).family \in SwapFamilies \ {"XCCY"} =>
      Payload(Preview(Terms(p))) = Terms(p)

\* The leg whose notional is that of a proposal that has only one.
NotionalLeg(family) == IF family = "CDS" THEN 2 ELSE 1

\* What the page of a swap shows, of the draft it was made of: see AsEntered.
LiveAsEntered(d) ==
  LET live == Live(Payload(d))
  IN /\ d.family = "IRS" \/ live.days = d.days
     /\ DOMAIN live.legs = DOMAIN d.legs
     /\ \A i \in DOMAIN d.legs, field \in {"type", "currencies", "notional", "rate"} :
          \/ live.legs[i][field] = d.legs[i][field]
          \/ field = "currencies" /\ d.family \in {"IRS", "OIS", "CDS", "ASSET"}
          \/ field = "currencies" /\ d.family \in {"BASIS", "FX"} /\ i = 2
          \/ /\ field = "rate"
             /\ d.legs[i].type = "float"
             /\ d.family \in {"IRS", "OIS", "XCCY", "ASSET"}
          \/ /\ field = "notional"
             /\ d.family \notin {"XCCY", "FpML"}
             /\ i # NotionalLeg(d.family)
             /\ \/ live.legs[i].notional = d.legs[NotionalLeg(d.family)].notional
                \/ d.family = "CCY"

\* A swap, as its page shows it, has the legs and the term that were entered for
\* it: except that an IRS proposal has one of four tenors, those of four
\* families have no currency, two have only the first leg's, and four no spread;
\* and that all but two have one notional, which the other leg is shown with, or
\* in a CCY proposal with the product of it and a constant rate.
AsEntered ==
  \A p \in Slots :
    status[p] \in Swap /\ draft[p].family \in SwapFamilies => LiveAsEntered(draft[p])

=============================================================================
