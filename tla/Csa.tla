-------------------------------- MODULE Csa --------------------------------
(***************************************************************************)
(* One Credit Support Annex between two parties, as the Daml template      *)
(* Csa.Csa keeps it: a signed collateral balance, a margin-call state, the *)
(* last mark and the dispute in progress.                                  *)
(*                                                                         *)
(* Every choice archives the contract and creates the next version in one  *)
(* ledger transaction, so a choice is one atomic action here; which        *)
(* version a client holds matters to the clients only and is added by      *)
(* MarkPublisher.  A choice whose assertMsg, abort or fetch fails changes  *)
(* nothing: those conditions are the guards.                               *)
(*                                                                         *)
(* Contracts that the choices create are kept in creation order: a         *)
(* position in `marks' or `disputes' stands for the ContractId.            *)
(***************************************************************************)
EXTENDS CsaMath, Sequences, FiniteSets

CONSTANTS Operator,           \* the operator party, a signatory of every Csa
          Scheduler,          \* the automation party of the ...ByScheduler choices
          Threshold, Mta, Rounding,
          Exposures,          \* what a mark or a counter-mark may say
          Amounts,            \* what a party may post or withdraw at once
          KeepMarks,          \* FALSE: remember the newest MarkToMarket only
          MaxMarks,           \* bound: MarkToMarket contracts remembered
          MaxDisputes,        \* bound: DisputeRecord contracts ever created
          MaxPledge           \* bound: collateral a party has in at most

ASSUME ActorsDiffer ==
  /\ Operator \notin Parties
  /\ Scheduler \notin Parties

\* The template's ensure clause, and assertMsg "amount must be positive".
ASSUME CsaParameters ==
  /\ Threshold \in [Parties -> Nat]
  /\ Mta \in Nat
  /\ Rounding \in Nat
  /\ Exposures \subseteq Int
  /\ Amounts \subseteq Nat \ {0}

ASSUME Bounds ==
  KeepMarks \in BOOLEAN /\ MaxMarks \in Nat /\ MaxDisputes \in Nat /\ MaxPledge \in Nat

VARIABLES
  csb,             \* signed balance: > 0 A is pledgor, < 0 B is
  state,           \* CsaState
  lastMarkCid,     \* 0 for None, else a position in marks
  activeDispute,   \* 0 for None, else a position in disputes
  marks,           \* MarkToMarket contracts, none is ever archived
  disputes,        \* DisputeRecord contracts with whether they are live
  shortfall,       \* the newest MarginShortfall, NoShortfall before the first
  pledged,         \* history: what each party put in minus what it took out
  actor            \* history: the controller of the last choice

contract == <<csb, state, lastMarkCid, activeDispute>>
records == <<marks, disputes, shortfall>>
vars == <<csb, state, lastMarkCid, activeDispute, marks, disputes, shortfall,
          pledged, actor>>

CsaState == {"Active", "MarkDisputed", "MarginCallOutstanding", "Escalated"}

Frozen == state \in {"MarkDisputed", "Escalated"}

\* A mark remembers, beside its exposure, how it came about: published by a
\* tick, published on a frozen agreement, or set by the end of a dispute.
Origins == {"tick", "frozen", "resolution"}
Mark == [exposure : Exposures, origin : Origins]
DisputeRecord == [disputer : Parties, counterMark : Exposures, live : BOOLEAN]
MarginShortfall == [debtor : Parties, deficit : Nat \ {0}, relatedMark : Nat \ {0}]
NoShortfall == [debtor |-> PartyA, deficit |-> 0, relatedMark |-> 0]

\* Posts by A raise the balance, posts by B lower it.
Signed(p, amount) == IF p = PartyA THEN amount ELSE -amount

\* The party's own pledge, as a non-negative number.
Pledge(p, balance) == AtLeastZero(Signed(p, balance))

\* The gated call on a balance under a mark.
CallUnder(exposure, balance) ==
  GateCall(TargetCsb(exposure, Threshold) - balance, Mta, Rounding)

LastCall(balance) == CallUnder(marks[lastMarkCid].exposure, balance)

Init ==
  /\ csb = 0
  /\ state = "Active"
  /\ lastMarkCid = 0
  /\ activeDispute = 0
  /\ marks = <<>>
  /\ disputes = <<>>
  /\ shortfall = NoShortfall
  /\ pledged = [p \in Parties |-> 0]
  /\ actor = Operator

-----------------------------------------------------------------------------
(* Collateral.                                                             *)

\* Mutant of SelfSettled: any state is cleared.
SelfSettledAnyState(balance) ==
  IF lastMarkCid # 0 /\ LastCall(balance) = 0 THEN "Active" ELSE state

\* The state after a post: a post that closes the gap clears the call.
SelfSettled(balance) ==
  IF state = "MarginCallOutstanding" /\ lastMarkCid # 0 /\ LastCall(balance) = 0
  THEN "Active"
  ELSE state

PostCollateral(p, amount) ==
  /\ pledged[p] + amount <= MaxPledge
  /\ csb' = csb + Signed(p, amount)
  /\ state' = SelfSettled(csb')
  /\ pledged' = [pledged EXCEPT ![p] = @ + amount]
  /\ actor' = p
  /\ UNCHANGED <<lastMarkCid, activeDispute, marks, disputes, shortfall>>

\* Mutant of MayWithdraw: the pledge unchecked.
MayOverdraw(p, amount) ==
  /\ ~Frozen
  /\ lastMarkCid # 0 =>
       Abs(LastCall(csb - Signed(p, amount))) <= Abs(LastCall(csb))

\* WithdrawOps: own pledge only, never while frozen, never enlarging the call.
MayWithdraw(p, amount) ==
  /\ ~Frozen
  /\ amount <= Pledge(p, csb)
  /\ lastMarkCid # 0 =>
       Abs(LastCall(csb - Signed(p, amount))) <= Abs(LastCall(csb))

WithdrawExcess(p, amount) ==
  /\ MayWithdraw(p, amount)
  /\ csb' = csb - Signed(p, amount)
  /\ pledged' = [pledged EXCEPT ![p] = @ - amount]
  /\ actor' = p
  /\ UNCHANGED <<state, lastMarkCid, activeDispute, marks, disputes, shortfall>>

-----------------------------------------------------------------------------
(* Marks and their assessment.                                             *)

\* No choice reads a mark older than the last one, so a model of endless
\* ticks may forget them.
Remembered == IF KeepMarks THEN marks ELSE <<>>

CreateMark(exposure, origin) ==
  /\ Len(Remembered) < MaxMarks
  /\ marks' = Append(Remembered, [exposure |-> exposure, origin |-> origin])
  /\ lastMarkCid' = Len(marks')

\* publishMarkImpl: a pure mark write, whatever the state.
PublishMarkImpl(exposure) ==
  /\ CreateMark(exposure, IF Frozen THEN "frozen" ELSE "tick")
  /\ UNCHANGED <<csb, state, activeDispute, disputes, shortfall, pledged>>

PublishMark(exposure) == PublishMarkImpl(exposure) /\ actor' = Operator

PublishMarkByScheduler(exposure) ==
  PublishMarkImpl(exposure) /\ actor' = Scheduler

\* Mutant of SettleVmImpl: disputed marks are assessed too.
SettleVmWhileFrozen ==
  /\ lastMarkCid # 0
  /\ LastCall(csb) # 0
  /\ state' = "MarginCallOutstanding"
  /\ shortfall' = [debtor |-> IF LastCall(csb) > 0 THEN PartyA ELSE PartyB,
                   deficit |-> Abs(LastCall(csb)),
                   relatedMark |-> lastMarkCid]
  /\ UNCHANGED <<csb, lastMarkCid, activeDispute, marks, disputes, pledged>>

\* settleVmImpl: assess the balance against the last mark, move nothing.
SettleVmImpl ==
  /\ ~Frozen
  /\ lastMarkCid # 0
  /\ LET gated == LastCall(csb) IN
       \/ /\ gated = 0
          /\ state' = "Active"
          /\ UNCHANGED shortfall
       \/ /\ gated # 0
          /\ state' = "MarginCallOutstanding"
          /\ shortfall' = [debtor |-> IF gated > 0 THEN PartyA ELSE PartyB,
                            deficit |-> Abs(gated),
                            relatedMark |-> lastMarkCid]
  /\ UNCHANGED <<csb, lastMarkCid, activeDispute, marks, disputes, pledged>>

SettleVm == SettleVmImpl /\ actor' = Operator

SettleVmByScheduler == SettleVmImpl /\ actor' = Scheduler

-----------------------------------------------------------------------------
(* Disputes.                                                               *)

\* disputeImpl: there is a mark to dispute and no dispute yet.
MayDispute ==
  /\ lastMarkCid # 0
  /\ activeDispute = 0
  /\ state \in {"Active", "MarginCallOutstanding"}

Dispute(p, counterMark) ==
  /\ MayDispute
  /\ Len(disputes) < MaxDisputes
  /\ disputes' = Append(disputes, [disputer |-> p, counterMark |-> counterMark,
                                   live |-> TRUE])
  /\ activeDispute' = Len(disputes) + 1
  /\ state' = "MarkDisputed"
  /\ actor' = p
  /\ UNCHANGED <<csb, lastMarkCid, marks, shortfall, pledged>>

\* fetch: the record must be there and unarchived.
Fetchable(d) == d \in DOMAIN disputes /\ disputes[d].live

\* Mutant of IsCounterparty: either side may answer a dispute.
IsEitherParty(p) == p \in Parties

IsCounterparty(p) == p # disputes[activeDispute].disputer

EscalateDispute(p) ==
  /\ state = "MarkDisputed"
  /\ Fetchable(activeDispute)
  /\ IsCounterparty(p)
  /\ state' = "Escalated"
  /\ actor' = p
  /\ UNCHANGED <<csb, lastMarkCid, activeDispute, marks, disputes, shortfall,
                 pledged>>

\* Mutant of Archived: the record stays live.
NotArchived(d) == disputes

Archived(d) ==
  [disputes EXCEPT ![d] = [disputer |-> @.disputer, counterMark |-> @.counterMark,
                           live |-> FALSE]]

AgreeToCounterMark(p) ==
  /\ state = "MarkDisputed"
  /\ Fetchable(activeDispute)
  /\ IsCounterparty(p)
  /\ CreateMark(disputes[activeDispute].counterMark, "resolution")
  /\ disputes' = Archived(activeDispute)
  /\ state' = "Active"
  /\ activeDispute' = 0
  /\ actor' = p
  /\ UNCHANGED <<csb, shortfall, pledged>>

AcknowledgeDispute(exposure) ==
  /\ Frozen
  /\ CreateMark(exposure, "resolution")
  /\ activeDispute # 0 => Fetchable(activeDispute)
  /\ disputes' = IF activeDispute = 0 THEN disputes ELSE Archived(activeDispute)
  /\ state' = "Active"
  /\ activeDispute' = 0
  /\ actor' = Operator
  /\ UNCHANGED <<csb, shortfall, pledged>>

-----------------------------------------------------------------------------
PartyNext(p) ==
  \/ \E amount \in Amounts : PostCollateral(p, amount) \/ WithdrawExcess(p, amount)
  \/ \E e \in Exposures : Dispute(p, e)
  \/ EscalateDispute(p)
  \/ AgreeToCounterMark(p)

OperatorNext ==
  \/ \E e \in Exposures : PublishMark(e) \/ AcknowledgeDispute(e)
  \/ SettleVm

SchedulerNext ==
  \/ \E e \in Exposures : PublishMarkByScheduler(e)
  \/ SettleVmByScheduler

Next == (\E p \in Parties : PartyNext(p)) \/ OperatorNext \/ SchedulerNext

Spec == Init /\ [][Next]_vars

-----------------------------------------------------------------------------
(* Correctness.                                                            *)

TypeOK ==
  /\ csb \in Int
  /\ state \in CsaState
  /\ lastMarkCid \in 0..Len(marks)
  /\ activeDispute \in 0..Len(disputes)
  /\ marks \in Seq(Mark)
  /\ disputes \in Seq(DisputeRecord)
  /\ shortfall \in MarginShortfall \cup {NoShortfall}
  /\ pledged \in [Parties -> Int]
  /\ actor \in Parties \cup {Operator, Scheduler}

\* The agreement is frozen exactly while it points at a dispute, that record
\* is the one live DisputeRecord, and so the aborts "MarkDisputed without an
\* active dispute record" and a dangling fetch cannot happen
\* (DisputeOps.escalateDisputeImpl, agreeToCounterMarkImpl).
DisputeConsistency ==
  /\ Frozen <=> activeDispute # 0
  /\ {d \in DOMAIN disputes : disputes[d].live} = {activeDispute} \ {0}

\* The signed balance is exactly the difference of what the two sides have in,
\* and however posts and withdrawals of both sides interleave neither side
\* ever takes out more than it put in (PostCollateral, WithdrawOps).
NoOverdraw ==
  /\ csb = pledged[PartyA] - pledged[PartyB]
  /\ \A p \in Parties : pledged[p] >= 0

\* A mark published while the agreement is frozen never becomes the ground of
\* a margin call, and a call does not outlive a dispute: an outstanding one
\* was raised on a mark younger than every dispute's resolution (PublishMark
\* writes marks in every state; only the resolutions replace them).
CallsAreUndisputed ==
  /\ shortfall # NoShortfall => marks[shortfall.relatedMark].origin # "frozen"
  /\ state = "MarginCallOutstanding" =>
       /\ shortfall # NoShortfall
       /\ \A m \in (shortfall.relatedMark + 1)..Len(marks) : marks[m].origin = "tick"

\* Whoever pays an outstanding call in full, at the mark it is assessed on,
\* leaves no further call, on either side: the rounding of the call never
\* overshoots into a call the other way (gateCall, PostCollateral).
CallIsCurable ==
  state = "MarginCallOutstanding" => LastCall(csb + LastCall(csb)) = 0

\* Freezing protects the collateral: while frozen nothing comes out, no
\* shortfall is emitted, and the record of the dispute does not change hands.
FreezeHolds ==
  [][Frozen =>
       /\ \A p \in Parties : pledged'[p] >= pledged[p]
       /\ shortfall' = shortfall
       /\ Frozen' => activeDispute' = activeDispute]_vars

\* A dispute is lifted by the operator, or before escalation by the party
\* that did not open it, and then at the disputer's own counter-mark.
ResolvedByRight ==
  [][Frozen /\ ~Frozen' =>
       \/ actor' = Operator
       \/ /\ state = "MarkDisputed"
          /\ actor' \in Parties \ {disputes[activeDispute].disputer}
          /\ marks'[lastMarkCid'].exposure = disputes[activeDispute].counterMark]_vars

\* The agreement seen without its arithmetic.
Phase ==
  IF Frozen THEN "frozen" ELSE IF state = "Active" THEN "open" ELSE "called"

Nobody == "nobody"

Opener == IF activeDispute = 0 THEN Nobody ELSE disputes[activeDispute].disputer

Promise == INSTANCE MarginAgreement WITH
  Parties <- Parties, Nobody <- Nobody,
  stake <- pledged, phase <- Phase, opener <- Opener, actor <- actor

\* The contract keeps the promise of the abstract agreement.
KeepsPromise == Promise!Spec

=============================================================================
