--------------------------- MODULE SwapSettlement ---------------------------
(***************************************************************************)
(* The life of the swaps of one netting set: coupons become effects,       *)
(* effects are settled in cash, swaps mature or are terminated.  The       *)
(* ledger's choices (contracts/src/Swap, Csa/Netting.daml, Audit) are      *)
(* exercised by three scheduler ticks that run on crons of their own       *)
(* (oracle/src/services/scheduler) and, by hand, by the operator and the   *)
(* parties.                                                                *)
(*                                                                         *)
(* A tick queries the ledger and exercises choices on what it read, one    *)
(* request at a time.  Queries whose results cannot be told apart from a   *)
(* single query at the moment of the last one are one step: a workflow     *)
(* retired, an effect created or a batch recorded between two of them      *)
(* commutes to before or after both.  The query for holdings does not      *)
(* commute with a settlement and is a step of its own.                     *)
(*                                                                         *)
(* One currency, and holdings large enough for any payment.                *)
(***************************************************************************)
EXTENDS Integers, Sequences, FiniteSetsExt

CONSTANTS
  PartyA, PartyB,     \* the pair, in the order of their Csa
  Swaps,
  Reversed,           \* the swaps whose own partyA is the Csa's partyB
  Coupon,             \* what a swap's own partyA receives on a payment day
  PayDays, Maturity,  \* of each swap's instrument
  Fpml,               \* the swaps of FpML instruments: BASIS, XCCY, FpML
  Buyout,             \* what the proposer of a termination pays, or gets if < 0
  ShowsIds,           \* whether show of a ContractId names it (see Consumed)
  LastDay,            \* bound: days the model covers
  Service, Stray,     \* a tick's regular run, and one that overlaps it
  MaxDisturbances     \* bound: kinds of disturbance in one behaviour

ASSUME SettlementParameters ==
  /\ PartyA # PartyB /\ Service # Stray
  /\ Reversed \subseteq Swaps /\ Fpml \subseteq Swaps
  /\ Coupon \in [Swaps -> Int \ {0}]
  /\ PayDays \in [Swaps -> SUBSET (1..LastDay)]
  /\ Maturity \in [Swaps -> 1..LastDay]
  /\ Buyout \in Int /\ LastDay \in Nat \ {0} /\ MaxDisturbances \in Nat
  /\ ShowsIds \in BOOLEAN

Parties == {PartyA, PartyB}
Runs == {Service, Stray}

VARIABLES
  day,
  status,        \* of each swap: SwapWorkflow, MaturedSwap or TerminatedSwap
  effects,       \* Effect contracts, never archived
  batches,       \* NettedBatch contracts: their settledEffects
  payments,      \* settled Batch contracts: cash that moved
  audits,        \* SettlementAudit contracts
  proposals,     \* live TerminateProposal contracts
  trigger, settle, mature,   \* the ticks under way
  disturbed      \* history: the kinds of disturbance so far

ledger == <<status, effects, batches, payments, audits, proposals>>
ticks == <<trigger, settle, mature>>
vars == <<day, ledger, ticks, disturbed>>

Statuses == {"workflow", "matured", "terminated"}

\* Contracts with equal payloads are told apart by their copy number.
Effects == [swap : Swaps, day : 1..LastDay, copy : Nat \ {0}]

Sources == {"swap-settle", "swap-mature", "swap-terminate", "csa-net"}

Live(s) == status[s] = "workflow"

EffectsOf(s) == {e \in effects : e.swap = s}

\* Amounts are signed: positive for cash that the Csa's partyA receives.
\* netAcrossSwaps: each coupon turned into the Csa's frame.
Contribution(e) == IF e.swap \in Reversed THEN -Coupon[e.swap] ELSE Coupon[e.swap]

Net(es) == MapThenSumSet(Contribution, es)

\* Nothing is paid or audited but the net of some effects, or a buyout.
Nets == {Net(es) : es \in SUBSET effects}
Payment == [source : Sources, effects : SUBSET effects,
            net : (Nets \union {Buyout, -Buyout}) \ {0}]
SettlementAudit == [source : Sources, net : Nets \ {0}]

Payer(net) == IF net > 0 THEN PartyB ELSE PartyA

\* The ids a tick finds among the settledEffects.  settleNetImpl writes them as
\* `show' of a ContractId, which is the Daml library's: it names the contract,
\* as the ticks' comparison with Effect ids expects, or is one text for all.
Consumed == IF ShowsIds THEN UNION Range(batches) ELSE {}

IdleSettle == [todo |-> {}, csaFresh |-> FALSE, holdings |-> "unread", fresh |-> {}]

Disturbances == {"overlap", "trigger", "settle", "mature", "net", "proposal",
                 "rotation", "restart", "error"}

Init ==
  /\ day = 1
  /\ status = [s \in Swaps |-> "workflow"]
  /\ effects = {}
  /\ batches = <<>>
  /\ payments = <<>>
  /\ audits = <<>>
  /\ proposals = {}
  /\ trigger = [r \in Runs |-> {}]
  /\ settle = [r \in Runs |-> IdleSettle]
  /\ mature = {}
  /\ disturbed = {}

Disturb(kind) ==
  /\ kind \notin disturbed
  /\ Cardinality(disturbed) < MaxDisturbances
  /\ disturbed' = disturbed \cup {kind}

\* A stray run counts as a disturbance when it starts.
CountOverlap(r) == IF r = Stray THEN Disturb("overlap") ELSE UNCHANGED disturbed

-----------------------------------------------------------------------------
(* What the choices do to the ledger.                                      *)

\* Lifecycle.Evolve on the payment dates of the instrument, nothing else.
Evolve(s, date) ==
  effects' = IF date \in PayDays[s]
             THEN effects \cup {[swap |-> s, day |-> date, copy |->
                    1 + Cardinality({e \in effects : e.swap = s /\ e.day = date})]}
             ELSE effects

\* Splitting the payer's holding archives it: whoever read it holds it stale.
Spent(net) ==
  [r \in Runs |-> [settle[r] EXCEPT !.fresh = IF net = 0 THEN @ ELSE @ \ {Payer(net)}]]

\* Mutant of PayAndAudit: payments without an audit row.
PaySilently(source, es) ==
  IF Net(es) = 0 THEN UNCHANGED <<payments, audits>>
  ELSE /\ payments' = Append(payments, [source |-> source, effects |-> es, net |-> Net(es)])
       /\ UNCHANGED audits

\* Cash moves and is audited, unless the net is zero.
PayAndAudit(source, es) ==
  IF Net(es) = 0 THEN UNCHANGED <<payments, audits>>
  ELSE /\ payments' = Append(payments, [source |-> source, effects |-> es, net |-> Net(es)])
       /\ audits' = Append(audits, [source |-> source, net |-> Net(es)])

-----------------------------------------------------------------------------
(* triggerLifecycleTick.                                                   *)

\* Mutant of Untriggered: the effects of the day are not looked at.
EveryLiveSwap(date) ==
  {[swap |-> s, date |-> date] : s \in {t \in Swaps : Live(t)}}

\* One entry per swap still to be triggered, with the date the run began on.
Untriggered(date) ==
  {[swap |-> s, date |-> date] :
     s \in {t \in Swaps : Live(t) /\ ~\E e \in EffectsOf(t) : e.day = date}}

StartTrigger(r) ==
  /\ trigger[r] = {}
  /\ Untriggered(day) # {}
  /\ trigger' = [trigger EXCEPT ![r] = Untriggered(day)]
  /\ CountOverlap(r)
  /\ UNCHANGED <<day, ledger, settle, mature>>

\* TriggerLifecycleByScheduler; on a workflow retired meanwhile it fails.
ExerciseTrigger(r, todo) ==
  /\ todo \in trigger[r]
  /\ trigger' = [trigger EXCEPT ![r] = @ \ {todo}]
  /\ IF Live(todo.swap) THEN Evolve(todo.swap, todo.date) ELSE UNCHANGED effects
  /\ UNCHANGED <<day, status, batches, payments, audits, proposals, settle, mature,
                 disturbed>>

-----------------------------------------------------------------------------
(* settleNetTick.                                                          *)

\* Mutant of Unsettled: what batches have consumed is not left out.
AllLiveEffects == {e \in effects : Live(e.swap)}

Unsettled == {e \in effects : Live(e.swap) /\ e \notin Consumed}

StartSettle(r) ==
  /\ settle[r] = IdleSettle
  /\ Unsettled # {}
  /\ settle' = [settle EXCEPT ![r] = [IdleSettle EXCEPT !.todo = Unsettled,
                                                        !.csaFresh = TRUE]]
  /\ CountOverlap(r)
  /\ UNCHANGED <<day, ledger, trigger, mature>>

\* resolveAllCurrencyHoldings, once for the whole agreement.
ReadHoldings(r) ==
  /\ settle[r].todo # {}
  /\ settle[r].holdings = "unread"
  /\ settle' = [settle EXCEPT ![r].holdings = "read", ![r].fresh = Parties]
  /\ UNCHANGED <<day, ledger, trigger, mature, disturbed>>

Bin(r, date) == {e \in settle[r].todo : e.day = date}

\* Mutant of AfterBin: a finished run is never reset.
AfterBinNoReset(run, bin) == [run EXCEPT !.todo = @ \ bin]

AfterBin(run, bin) ==
  IF run.todo = bin THEN IdleSettle ELSE [run EXCEPT !.todo = @ \ bin]

\* Mutant of SettleNetImpl: the workflows are not fetched.
SettleNetUnfetched(es) ==
  /\ PayAndAudit("csa-net", es)
  /\ batches' = Append(batches, es)

\* settleNetImpl: fetches every entry's workflow, pays the net, records both.
SettleNetImpl(es) ==
  /\ \A e \in es : Live(e.swap)
  /\ PayAndAudit("csa-net", es)
  /\ batches' = Append(batches, es)

\* SettleNetByScheduler on the Csa and the holdings this run has read.
ExerciseSettleNet(r, bin) ==
  /\ settle[r].csaFresh
  /\ Net(bin) # 0 => Payer(Net(bin)) \in settle[r].fresh
  /\ SettleNetImpl(bin)
  /\ settle' = [Spent(Net(bin)) EXCEPT ![r] = AfterBin(@, bin)]
  /\ UNCHANGED <<day, status, effects, proposals, trigger, mature, disturbed>>

\* The catch of the bin: the run goes on with the next one.
BinFails(r, bin) ==
  /\ \/ ~settle[r].csaFresh
     \/ \E e \in bin : ~Live(e.swap)
     \/ Net(bin) # 0 /\ Payer(Net(bin)) \notin settle[r].fresh
  /\ settle' = [settle EXCEPT ![r] = AfterBin(@, bin)]
  /\ UNCHANGED <<day, ledger, trigger, mature, disturbed>>

SettleBin(r, date) ==
  LET bin == Bin(r, date) IN
  /\ settle[r].holdings = "read"
  /\ bin # {}
  /\ ExerciseSettleNet(r, bin) \/ BinFails(r, bin)

-----------------------------------------------------------------------------
(* matureTick.                                                             *)

\* fetchAllMaturityDates: an FpML instrument has its dates in its streams, which
\* are not read, and a swap without a date is skipped.
MaturityFound(s) == s \notin Fpml

Retirable ==
  {s \in Swaps : Live(s) /\ MaturityFound(s) /\ Maturity[s] <= day
                  /\ EffectsOf(s) \subseteq Consumed}

StartMature ==
  /\ mature = {}
  /\ Retirable # {}
  /\ mature' = Retirable
  /\ UNCHANGED <<day, ledger, trigger, settle, disturbed>>

\* Mutant of ExerciseMature: the choice does not consume the workflow.
MatureAnyway(s) ==
  /\ s \in mature
  /\ mature' = mature \ {s}
  /\ status' = [status EXCEPT ![s] = "matured"]
  /\ UNCHANGED <<day, effects, batches, payments, audits, proposals, trigger, settle,
                 disturbed>>

\* MatureByScheduler with no effects: only the archival.  The choice is
\* consuming, on a workflow retired meanwhile it fails.
ExerciseMature(s) ==
  /\ s \in mature
  /\ mature' = mature \ {s}
  /\ status' = IF Live(s) THEN [status EXCEPT ![s] = "matured"] ELSE status
  /\ UNCHANGED <<day, effects, batches, payments, audits, proposals, trigger, settle,
                 disturbed>>

-----------------------------------------------------------------------------
(* Choices exercised by hand.                                              *)

\* TriggerLifecycle.
OperatorTriggers(s) ==
  /\ Live(s)
  /\ Disturb("trigger")
  /\ Evolve(s, day)
  /\ UNCHANGED <<day, status, batches, payments, audits, proposals, ticks>>

\* Settle; executeSettlement refuses an empty list and a net of zero.
OperatorSettles(s) ==
  /\ Live(s)
  /\ Net(EffectsOf(s)) # 0
  /\ Disturb("settle")
  /\ PayAndAudit("swap-settle", EffectsOf(s))
  /\ settle' = Spent(Net(EffectsOf(s)))
  /\ UNCHANGED <<day, status, effects, batches, proposals, trigger, mature>>

\* Mature, which settles the effects it is given first.
OperatorMatures(s) ==
  /\ Live(s)
  /\ Maturity[s] <= day
  /\ EffectsOf(s) # {} => Net(EffectsOf(s)) # 0
  /\ Disturb("mature")
  /\ PayAndAudit("swap-mature", EffectsOf(s))
  /\ settle' = Spent(Net(EffectsOf(s)))
  /\ status' = [status EXCEPT ![s] = "matured"]
  /\ UNCHANGED <<day, effects, batches, proposals, trigger, mature>>

\* Csa.SettleNet on a list of the operator's own making.
OperatorNets(es) ==
  /\ Disturb("net")
  /\ SettleNetImpl(es)
  /\ settle' = Spent(Net(es))
  /\ UNCHANGED <<day, status, effects, proposals, trigger, mature>>

\* A proposal outlives its workflow; accepting it then fails on the fetch.
Propose(s, p) ==
  /\ Disturb("proposal")
  /\ proposals' = proposals \cup {[swap |-> s, proposer |-> p]}
  /\ UNCHANGED <<day, status, effects, batches, payments, audits, ticks>>

\* TpReject and TpWithdraw.
DropProposal(tp) ==
  /\ proposals' = proposals \ {tp}
  /\ UNCHANGED <<day, status, effects, batches, payments, audits, ticks, disturbed>>

\* What the Csa's partyA receives when tp's proposer pays the buyout.
BuyoutNet(tp) == IF tp.proposer = PartyA THEN -Buyout ELSE Buyout

TpAccept(tp) ==
  /\ Live(tp.swap)
  /\ proposals' = proposals \ {tp}
  /\ status' = [status EXCEPT ![tp.swap] = "terminated"]
  /\ payments' = IF Buyout = 0 THEN payments
                 ELSE Append(payments, [source |-> "swap-terminate", effects |-> {},
                                        net |-> BuyoutNet(tp)])
  /\ settle' = Spent(BuyoutNet(tp))
  /\ UNCHANGED <<day, effects, batches, audits, trigger, mature, disturbed>>

-----------------------------------------------------------------------------
(* The rest of the world.                                                  *)

\* A mark, a post or a dispute leaves every held version of the Csa stale.
CsaRotates ==
  /\ Disturb("rotation")
  /\ settle' = [r \in Runs |-> [settle[r] EXCEPT !.csaFresh = FALSE]]
  /\ UNCHANGED <<day, ledger, trigger, mature>>

\* A request refused for any other reason, or not answered: the loop logs it and
\* goes on with the next, what it was about is left to a later run.
RequestFails ==
  /\ Disturb("error")
  /\ \/ \E r \in Runs : \E todo \in trigger[r] :
          /\ trigger' = [trigger EXCEPT ![r] = @ \ {todo}]
          /\ UNCHANGED <<settle, mature>>
     \/ \E r \in Runs, date \in 1..LastDay :
          /\ settle[r].holdings = "read" /\ Bin(r, date) # {}
          /\ settle' = [settle EXCEPT ![r] = AfterBin(@, Bin(r, date))]
          /\ UNCHANGED <<trigger, mature>>
     \/ \E s \in mature :
          /\ mature' = mature \ {s}
          /\ UNCHANGED <<trigger, settle>>
  /\ UNCHANGED <<day, ledger>>

\* A restart, or a query that fails: the runs end where they are.
Restart ==
  /\ ticks # <<[r \in Runs |-> {}], [r \in Runs |-> IdleSettle], {}>>
  /\ Disturb("restart")
  /\ trigger' = [r \in Runs |-> {}]
  /\ settle' = [r \in Runs |-> IdleSettle]
  /\ mature' = {}
  /\ UNCHANGED <<day, ledger>>

Midnight ==
  /\ day < LastDay
  /\ day' = day + 1
  /\ UNCHANGED <<ledger, ticks, disturbed>>

TriggerTick(r) ==
  \/ StartTrigger(r)
  \/ \E todo \in trigger[r] : ExerciseTrigger(r, todo)

SettleTick(r) ==
  \/ StartSettle(r)
  \/ ReadHoldings(r)
  \/ \E date \in 1..LastDay : SettleBin(r, date)

MatureTick == StartMature \/ \E s \in Swaps : ExerciseMature(s)

ByHand ==
  \/ \E s \in Swaps : OperatorTriggers(s) \/ OperatorSettles(s) \/ OperatorMatures(s)
  \/ \E es \in SUBSET effects : OperatorNets(es)
  \/ \E s \in Swaps, p \in Parties : Propose(s, p)
  \/ \E tp \in proposals : DropProposal(tp) \/ TpAccept(tp)

Next ==
  \/ \E r \in Runs : TriggerTick(r) \/ SettleTick(r)
  \/ MatureTick
  \/ ByHand
  \/ CsaRotates
  \/ RequestFails
  \/ Restart
  \/ Midnight

\* The crons fire for ever and every request returns, and days pass.  Nothing
\* is asked of stray runs, of people, or of the trigger's punctuality.
Fairness == WF_vars(SettleTick(Service)) /\ WF_vars(MatureTick) /\ WF_vars(Midnight)

Spec == Init /\ [][Next]_vars /\ Fairness

-----------------------------------------------------------------------------
(* Correctness.                                                            *)

TypeOK ==
  /\ day \in 1..LastDay
  /\ status \in [Swaps -> Statuses]
  /\ effects \subseteq Effects
  /\ batches \in Seq(SUBSET effects)
  /\ payments \in Seq(Payment)
  /\ audits \in Seq(SettlementAudit)
  /\ proposals \subseteq [swap : Swaps, proposer : Parties]
  /\ trigger \in [Runs -> SUBSET [swap : Swaps, date : 1..LastDay]]
  /\ settle \in [Runs -> [todo : SUBSET effects, csaFresh : BOOLEAN,
                           holdings : {"unread", "read"}, fresh : SUBSET Parties]]
  /\ mature \subseteq Swaps
  /\ disturbed \subseteq Disturbances

\* How often cash was computed from an effect.
TimesPaid(e) == Cardinality({i \in DOMAIN payments : e \in payments[i].effects})

\* The scheduler pays an effect once, whatever is lost, stale or cut off, as
\* settle-net.ts has it ("Idempotency is purely on-chain").  A settlement by
\* hand leaves no NettedBatch, or heeds none, and is not its doing.
SchedulerIsIdempotent ==
  \/ disturbed \cap {"settle", "mature", "net"} # {}
  \/ \A e \in effects : TimesPaid(e) <= 1

\* The part of it that holds: it takes two overlapping runs to pay an effect
\* twice, since a run reads the batches before the holdings it pays from
\* (settleNetTick's filter on NettedBatch.settledEffects).
PaidOnce == "overlap" \in disturbed \/ SchedulerIsIdempotent

\* A coupon has one effect unless two triggers of one day overlap
\* (triggerLifecycleTick's filter on the effects of the day).
OneEffectPerCoupon ==
  disturbed \cap {"overlap", "trigger"} # {} \/ \A e \in effects : e.copy = 1

\* Maturity, by the scheduler or by hand, and an accepted termination race for
\* the one workflow; whichever comes first is final and the loser has no effect.
\* Nor is anything paid for a swap that has ended, though a settlement under way
\* read its workflow before it was retired (settleNetImpl's fetch).
EndIsFinal ==
  [][/\ \A s \in Swaps : ~Live(s) => status'[s] = status[s]
     /\ payments' # payments =>
          \A e \in payments'[Len(payments')].effects : Live(e.swap)]_vars

\* The place of i among the members of S.
Rank(S, i) == Cardinality({k \in S : k <= i})

PaymentsOf(sources) == {i \in DOMAIN payments : payments[i].source \in sources}

Audited == PaymentsOf(Sources \ {"swap-terminate"})

RowsMatchCash ==
  /\ Len(audits) = Cardinality(Audited)
  /\ \A i \in Audited : audits[Rank(Audited, i)] =
                          [source |-> payments[i].source, net |-> payments[i].net]

Netted == PaymentsOf({"csa-net"})

Moving == {j \in DOMAIN batches : Net(batches[j]) # 0}

BatchesMatchCash ==
  /\ Cardinality(Netted) = Cardinality(Moving)
  /\ \A i \in Netted, j \in Moving : Rank(Netted, i) = Rank(Moving, j) =>
       payments[i].effects = batches[j] /\ payments[i].net = Net(batches[j])

\* Every movement of cash but a buyout has its audit row, with its source and
\* amount and in its order, and there are no others; and the csa-net payments
\* are, in order, the netted batches that came to anything, each for the
\* effects the batch records and at their net in the frame of the Csa.  So the
\* sums of the one are the sums of the other (auditCsaNet, auditSwapSettlement,
\* netAcrossSwaps).
AuditTrail == RowsMatchCash /\ BatchesMatchCash

\* Every swap whose maturity the scheduler finds comes to an end, which by
\* maturity it does only when each of its effects is settled; one of an FpML
\* instrument ends or is left with nothing unsettled.  A tick that fails half-way,
\* meets a stale Csa or a spent holding, or is cut off by a restart is made good
\* by a later one (settle-net.ts: "partial failures self-heal").
EventuallyEnds ==
  <>[](\A s \in Swaps : Live(s) => s \in Fpml /\ EffectsOf(s) \subseteq Consumed)

\* A swap the scheduler or the operator retires has had every coupon due up
\* to its maturity paid (mature.ts: "the final coupon (if any) was already
\* settled by the settle-net tick").
MaturedPaidInFull ==
  \A s \in Swaps : status[s] = "matured" =>
    \A date \in PayDays[s] :
      date <= Maturity[s] => \E e \in EffectsOf(s) : e.day = date /\ TimesPaid(e) > 0

=============================================================================
