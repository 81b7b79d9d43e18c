------------------------ MODULE SwapSettlementProofs -------------------------
(***************************************************************************)
(* What SwapSettlement keeps for every netting set, every calendar of      *)
(* payment days and any number of disturbances.  Sums are left out: what a *)
(* fold computes is beyond the provers, so amounts stay as Net names them. *)
(***************************************************************************)
EXTENDS SwapSettlement, FiniteSetTheorems, TLAPS

-----------------------------------------------------------------------------
(* Type correctness.                                                       *)

\* Copies are counted among finitely many effects.
Typed == TypeOK /\ IsFiniteSet(effects)

\* The runs of the settle-net tick, as TypeOK has them.
SettleRun == [todo : SUBSET effects, csaFresh : BOOLEAN,
              holdings : {"unread", "read"}, fresh : SUBSET Parties]

LEMMA InitTyped == Init => Typed
<1> SUFFICES ASSUME Init PROVE Typed
  OBVIOUS
<1>1. 1 \in 1..LastDay
  BY SettlementParameters
<1>2. IdleSettle \in SettleRun
  BY DEF IdleSettle, SettleRun
<1>3. settle \in [Runs -> SettleRun]
  BY <1>2 DEF Init
<1>4. payments = <<>> /\ audits = <<>> /\ batches = <<>>
  BY DEF Init
<1>5. payments \in Seq(Payment) /\ audits \in Seq(SettlementAudit) /\ batches \in Seq(SUBSET effects)
  BY <1>4
<1> QED
  BY <1>1, <1>3, <1>5, FS_EmptySet DEF Init, Typed, TypeOK, SettleRun, Statuses

\* An amount is still some effects' net when there are more effects.
LEMMA WiderEffects ==
  ASSUME TypeOK, effects \subseteq effects'
  PROVE  /\ Payment \subseteq Payment'
         /\ SettlementAudit \subseteq SettlementAudit'
         /\ SUBSET effects \subseteq SUBSET effects'
<1>1. Nets \subseteq Nets'
  BY DEF Nets
<1> QED
  BY <1>1 DEF Payment, SettlementAudit

LEMMA PayTyped ==
  ASSUME Typed, UNCHANGED effects,
         NEW source \in Sources, NEW es \in SUBSET effects, PayAndAudit(source, es)
  PROVE  /\ payments' \in Seq(Payment)'
         /\ audits' \in Seq(SettlementAudit)'
<1>1. Payment' = Payment /\ SettlementAudit' = SettlementAudit
  BY DEF Payment, SettlementAudit, Nets
<1>2. CASE Net(es) = 0
  BY <1>1, <1>2 DEF PayAndAudit, Typed, TypeOK
<1>3. CASE Net(es) # 0
  <2>1. Net(es) \in Nets \ {0}
    BY <1>3 DEF Nets
  <2>2. [source |-> source, effects |-> es, net |-> Net(es)] \in Payment
    BY <2>1 DEF Payment
  <2>3. [source |-> source, net |-> Net(es)] \in SettlementAudit
    BY <2>1 DEF SettlementAudit
  <2>4. payments \in Seq(Payment) /\ audits \in Seq(SettlementAudit)
    BY DEF Typed, TypeOK
  <2>5. payments' = Append(payments, [source |-> source, effects |-> es, net |-> Net(es)])
        /\ audits' = Append(audits, [source |-> source, net |-> Net(es)])
    BY <1>3 DEF PayAndAudit
  <2>6. payments' \in Seq(Payment) /\ audits' \in Seq(SettlementAudit)
    BY <2>2, <2>3, <2>4, <2>5
  <2> QED
    BY <1>1, <2>6
<1> QED
  BY <1>2, <1>3

LEMMA SpentTyped ==
  ASSUME settle \in [Runs -> SettleRun], NEW net
  PROVE  Spent(net) \in [Runs -> SettleRun]
BY DEF Spent, SettleRun

LEMMA AfterBinTyped ==
  ASSUME NEW run \in SettleRun, NEW bin
  PROVE  AfterBin(run, bin) \in SettleRun
BY DEF AfterBin, IdleSettle, SettleRun

\* A step that leaves effects, payments and audits alone keeps their types.
LEMMA SameCashTyped ==
  ASSUME Typed, UNCHANGED <<effects, payments, audits>>
  PROVE  /\ effects' \subseteq Effects
         /\ payments' \in Seq(Payment)'
         /\ audits' \in Seq(SettlementAudit)'
         /\ IsFiniteSet(effects)'
<1>1. Payment' = Payment /\ SettlementAudit' = SettlementAudit
  BY DEF Payment, SettlementAudit, Nets
<1> QED
  BY <1>1 DEF Typed, TypeOK

\* What TypeOK says of everything but payments and audits.
RestTyped ==
  /\ day \in 1..LastDay
  /\ status \in [Swaps -> Statuses]
  /\ effects \subseteq Effects
  /\ IsFiniteSet(effects)
  /\ batches \in Seq(SUBSET effects)
  /\ proposals \subseteq [swap : Swaps, proposer : Parties]
  /\ trigger \in [Runs -> SUBSET [swap : Swaps, date : 1..LastDay]]
  /\ settle \in [Runs -> SettleRun]
  /\ mature \subseteq Swaps
  /\ disturbed \subseteq Disturbances

LEMMA TypedParts == Typed <=> /\ RestTyped
                              /\ payments \in Seq(Payment)
                              /\ audits \in Seq(SettlementAudit)
BY DEF Typed, TypeOK, RestTyped, SettleRun

\* Triggering a swap again makes an effect of its own.
LEMMA EvolveTyped ==
  ASSUME RestTyped, NEW s \in Swaps, NEW date \in 1..LastDay, Evolve(s, date)
  PROVE  /\ effects \subseteq effects'
         /\ effects' \subseteq Effects
         /\ IsFiniteSet(effects')
<1> DEFINE same == {e \in effects : e.swap = s /\ e.day = date}
           new == [swap |-> s, day |-> date, copy |-> 1 + Cardinality(same)]
<1>1. Cardinality(same) \in Nat
  <2>1. same \in SUBSET effects
    OBVIOUS
  <2>2. IsFiniteSet(effects)
    BY DEF RestTyped
  <2>3. IsFiniteSet(same)
    BY <2>1, <2>2, FS_Subset
  <2> QED
    BY <2>3, FS_CardinalityType
<1>2. new \in Effects
  BY <1>1 DEF Effects
<1>3. CASE effects' = effects \cup {new}
  BY <1>2, <1>3, FS_AddElement DEF RestTyped
<1>4. CASE effects' = effects
  BY <1>4 DEF RestTyped
<1> QED
  BY <1>3, <1>4 DEF Evolve

\* What was a batch or a run stays one when there are more effects.
LEMMA WiderRest ==
  ASSUME RestTyped, effects \subseteq effects', UNCHANGED <<batches, settle>>
  PROVE  /\ batches' \in Seq(SUBSET effects)'
         /\ settle' \in [Runs -> SettleRun]'
<1>1. SUBSET effects \subseteq SUBSET effects'
  OBVIOUS
<1>2. batches \in Seq(SUBSET effects')
  BY <1>1 DEF RestTyped
<1>3. SettleRun \subseteq SettleRun'
  BY <1>1 DEF SettleRun
<1> QED
  BY <1>2, <1>3 DEF RestTyped

LEMMA DisturbTyped ==
  ASSUME RestTyped, NEW kind \in Disturbances, Disturb(kind)
  PROVE  disturbed' \subseteq Disturbances
BY DEF Disturb, RestTyped

LEMMA OverlapTyped ==
  ASSUME RestTyped, NEW r, CountOverlap(r)
  PROVE  disturbed' \subseteq Disturbances
<1>1. "overlap" \in Disturbances
  BY DEF Disturbances
<1> QED
  BY <1>1, DisturbTyped DEF CountOverlap, RestTyped

LEMMA PartsTypedAgain ==
  ASSUME RestTyped', payments' \in Seq(Payment'), audits' \in Seq(SettlementAudit')
  PROVE  Typed'
BY DEF Typed, TypeOK, RestTyped, SettleRun

LEMMA TriggerTyped ==
  ASSUME RestTyped, NEW r \in Runs, TriggerTick(r)
  PROVE  RestTyped' /\ effects \subseteq effects'
<1>1. CASE StartTrigger(r)
  <2>1. Untriggered(day) \in SUBSET [swap : Swaps, date : 1..LastDay]
    BY DEF Untriggered, RestTyped
  <2>2. trigger' \in [Runs -> SUBSET [swap : Swaps, date : 1..LastDay]]
    BY <1>1, <2>1 DEF StartTrigger, RestTyped
  <2>3. disturbed' \subseteq Disturbances
    BY <1>1, OverlapTyped DEF StartTrigger
  <2> QED
    BY <1>1, <2>2, <2>3 DEF StartTrigger, RestTyped, SettleRun, ledger
<1>2. ASSUME NEW todo \in trigger[r], ExerciseTrigger(r, todo)
      PROVE  RestTyped' /\ effects \subseteq effects'
  <2>1. todo \in [swap : Swaps, date : 1..LastDay]
    BY DEF RestTyped
  <2>2. trigger' \in [Runs -> SUBSET [swap : Swaps, date : 1..LastDay]]
    BY <1>2 DEF ExerciseTrigger, RestTyped
  <2>3. /\ effects \subseteq effects'
        /\ effects' \subseteq Effects
        /\ IsFiniteSet(effects')
    BY <1>2, <2>1, EvolveTyped DEF ExerciseTrigger, RestTyped
  <2>4. batches' \in Seq(SUBSET effects)' /\ settle' \in [Runs -> SettleRun]'
    BY <1>2, <2>3, WiderRest DEF ExerciseTrigger
  <2> QED
    BY <1>2, <2>2, <2>3, <2>4 DEF ExerciseTrigger, RestTyped
<1> QED
  BY <1>1, <1>2 DEF TriggerTick

LEMMA SettleTyped ==
  ASSUME RestTyped, NEW r \in Runs, SettleTick(r)
  PROVE  RestTyped' /\ UNCHANGED effects
<1>1. CASE StartSettle(r)
  <2>1. [IdleSettle EXCEPT !.todo = Unsettled, !.csaFresh = TRUE] \in SettleRun
    BY DEF IdleSettle, SettleRun, Unsettled
  <2>2. settle' \in [Runs -> SettleRun]
    <3> DEFINE run == [IdleSettle EXCEPT !.todo = Unsettled, !.csaFresh = TRUE]
    <3>1. run \in SettleRun /\ settle' = [settle EXCEPT ![r] = run]
      BY <1>1, <2>1 DEF StartSettle
    <3>2. settle \in [Runs -> SettleRun]
      BY DEF RestTyped
    <3> HIDE DEF run
    <3> QED
      BY <3>1, <3>2
  <2>3. disturbed' \subseteq Disturbances
    BY <1>1, OverlapTyped DEF StartSettle
  <2> QED
    BY <1>1, <2>2, <2>3 DEF StartSettle, RestTyped, SettleRun, ledger
<1>2. CASE ReadHoldings(r)
  <2>1. settle' \in [Runs -> SettleRun]
    <3> DEFINE run == [settle[r] EXCEPT !.holdings = "read", !.fresh = Parties]
    <3>1. settle \in [Runs -> SettleRun] /\ settle' = [settle EXCEPT ![r] = run]
      BY <1>2 DEF ReadHoldings, RestTyped
    <3>2. settle[r] \in SettleRun
      BY <3>1
    <3>3. run \in SettleRun
      BY <3>2 DEF SettleRun
    <3> HIDE DEF run
    <3> QED
      BY <3>1, <3>3
  <2> QED
    BY <1>2, <2>1 DEF ReadHoldings, RestTyped, SettleRun, ledger
<1>3. ASSUME NEW date \in 1..LastDay, ExerciseSettleNet(r, Bin(r, date))
      PROVE  RestTyped' /\ UNCHANGED effects
  <2>1. Bin(r, date) \in SUBSET effects
    BY DEF Bin, RestTyped, SettleRun
  <2>2. Spent(Net(Bin(r, date))) \in [Runs -> SettleRun]
    BY SpentTyped DEF RestTyped
  <2>3. settle' \in [Runs -> SettleRun]
    BY <1>3, <2>2, AfterBinTyped DEF ExerciseSettleNet
  <2>4. batches' \in Seq(SUBSET effects)
    BY <1>3, <2>1 DEF ExerciseSettleNet, SettleNetImpl, RestTyped
  <2> QED
    BY <1>3, <2>3, <2>4 DEF ExerciseSettleNet, RestTyped, SettleRun
<1>4. ASSUME NEW date \in 1..LastDay, BinFails(r, Bin(r, date))
      PROVE  RestTyped' /\ UNCHANGED effects
  <2>1. settle' \in [Runs -> SettleRun]
    BY <1>4, AfterBinTyped DEF BinFails, RestTyped
  <2> QED
    BY <1>4, <2>1 DEF BinFails, RestTyped, SettleRun, ledger
<1> QED
  BY <1>1, <1>2, <1>3, <1>4 DEF SettleTick, SettleBin

LEMMA MatureTyped ==
  ASSUME RestTyped, MatureTick
  PROVE  RestTyped' /\ UNCHANGED effects
<1>1. CASE StartMature
  BY <1>1 DEF StartMature, Retirable, RestTyped, SettleRun, ledger
<1>2. ASSUME NEW s \in Swaps, ExerciseMature(s) PROVE RestTyped' /\ UNCHANGED effects
  <2>1. status' \in [Swaps -> Statuses]
    BY <1>2 DEF ExerciseMature, RestTyped, Statuses
  <2> QED
    BY <1>2, <2>1 DEF ExerciseMature, RestTyped, SettleRun
<1> QED
  BY <1>1, <1>2 DEF MatureTick

LEMMA OperatorTyped ==
  ASSUME RestTyped, NEW s \in Swaps,
         OperatorTriggers(s) \/ OperatorSettles(s) \/ OperatorMatures(s)
  PROVE  RestTyped' /\ effects \subseteq effects'
<1>0. {"trigger", "settle", "mature"} \subseteq Disturbances
  BY DEF Disturbances
<1>1. disturbed' \subseteq Disturbances
  BY <1>0, DisturbTyped DEF OperatorTriggers, OperatorSettles, OperatorMatures
<1>2. CASE OperatorTriggers(s)
  <2>1. /\ effects \subseteq effects'
        /\ effects' \subseteq Effects
        /\ IsFiniteSet(effects')
    BY <1>2, EvolveTyped DEF OperatorTriggers, RestTyped
  <2>2. batches' \in Seq(SUBSET effects)' /\ settle' \in [Runs -> SettleRun]'
    BY <1>2, <2>1, WiderRest DEF OperatorTriggers, ticks
  <2> QED
    BY <1>1, <1>2, <2>1, <2>2 DEF OperatorTriggers, RestTyped, ticks
<1>3. CASE OperatorSettles(s)
  <2>1. settle' \in [Runs -> SettleRun]
    BY <1>3, SpentTyped DEF OperatorSettles, RestTyped
  <2> QED
    BY <1>1, <1>3, <2>1 DEF OperatorSettles, RestTyped, SettleRun
<1>4. CASE OperatorMatures(s)
  <2>1. settle' \in [Runs -> SettleRun]
    BY <1>4, SpentTyped DEF OperatorMatures, RestTyped
  <2>2. status' \in [Swaps -> Statuses]
    BY <1>4 DEF OperatorMatures, RestTyped, Statuses
  <2> QED
    BY <1>1, <1>4, <2>1, <2>2 DEF OperatorMatures, RestTyped, SettleRun
<1> QED
  BY <1>2, <1>3, <1>4

LEMMA ByHandTyped ==
  ASSUME RestTyped, ByHand
  PROVE  RestTyped' /\ effects \subseteq effects'
<1>0. {"net", "proposal"} \subseteq Disturbances
  BY DEF Disturbances
<1>1. ASSUME NEW es \in SUBSET effects, OperatorNets(es)
      PROVE  RestTyped' /\ effects \subseteq effects'
  <2>1. disturbed' \subseteq Disturbances
    BY <1>0, <1>1, DisturbTyped DEF OperatorNets
  <2>2. settle' \in [Runs -> SettleRun]
    BY <1>1, SpentTyped DEF OperatorNets, RestTyped
  <2>3. batches' \in Seq(SUBSET effects)
    BY <1>1 DEF OperatorNets, SettleNetImpl, RestTyped
  <2> QED
    BY <1>1, <2>1, <2>2, <2>3 DEF OperatorNets, RestTyped, SettleRun
<1>2. ASSUME NEW s \in Swaps, NEW p \in Parties, Propose(s, p)
      PROVE  RestTyped' /\ effects \subseteq effects'
  <2>1. disturbed' \subseteq Disturbances
    BY <1>0, <1>2, DisturbTyped DEF Propose
  <2> QED
    BY <1>2, <2>1 DEF Propose, RestTyped, SettleRun, ticks
<1>3. ASSUME NEW tp \in proposals, DropProposal(tp)
      PROVE  RestTyped' /\ effects \subseteq effects'
  BY <1>3 DEF DropProposal, RestTyped, SettleRun, ticks
<1>4. ASSUME NEW tp \in proposals, TpAccept(tp)
      PROVE  RestTyped' /\ effects \subseteq effects'
  <2>1. settle' \in [Runs -> SettleRun]
    BY <1>4, SpentTyped DEF TpAccept, RestTyped
  <2>2. status' \in [Swaps -> Statuses]
    BY <1>4 DEF TpAccept, RestTyped, Statuses
  <2> QED
    BY <1>4, <2>1, <2>2 DEF TpAccept, RestTyped, SettleRun
<1> QED
  BY <1>1, <1>2, <1>3, <1>4, OperatorTyped DEF ByHand

\* A request that fails takes something off one run's list.
LEMMA FailureTyped ==
  ASSUME RestTyped, RequestFails
  PROVE  RestTyped' /\ UNCHANGED <<effects, batches, payments, audits, status>>
<1>0. {"error"} \subseteq Disturbances
  BY DEF Disturbances
<1>1. disturbed' \subseteq Disturbances
  BY <1>0, DisturbTyped DEF RequestFails
<1>2. UNCHANGED <<effects, batches, payments, audits, status, day, proposals>>
  BY DEF RequestFails, ledger
<1>3. settle' \in [Runs -> SettleRun]
  <2>1. CASE UNCHANGED settle
    BY <2>1 DEF RestTyped
  <2>2. ASSUME NEW r \in Runs, NEW date \in 1..LastDay,
               settle' = [settle EXCEPT ![r] = AfterBin(@, Bin(r, date))]
        PROVE  settle' \in [Runs -> SettleRun]
    BY <2>2, AfterBinTyped DEF RestTyped
  <2> QED
    BY <2>1, <2>2 DEF RequestFails
<1>4. trigger' \in [Runs -> SUBSET [swap : Swaps, date : 1..LastDay]]
  BY DEF RequestFails, RestTyped
<1>5. mature' \subseteq Swaps
  BY DEF RequestFails, RestTyped
<1> QED
  BY <1>1, <1>2, <1>3, <1>4, <1>5 DEF RestTyped, SettleRun

LEMMA NextRestTyped ==
  ASSUME RestTyped, [Next]_vars
  PROVE  RestTyped' /\ effects \subseteq effects'
<1>0. {"rotation", "restart"} \subseteq Disturbances
  BY DEF Disturbances
<1>1. CASE CsaRotates
  <2>1. settle' \in [Runs -> SettleRun]
    BY <1>1 DEF CsaRotates, RestTyped, SettleRun
  <2>2. disturbed' \subseteq Disturbances
    BY <1>0, <1>1, DisturbTyped DEF CsaRotates
  <2> QED
    BY <1>1, <2>1, <2>2 DEF CsaRotates, RestTyped, SettleRun, ledger
<1>2. CASE Restart
  <2>1. settle' \in [Runs -> SettleRun]
    BY <1>2 DEF Restart, IdleSettle, SettleRun
  <2>2. disturbed' \subseteq Disturbances
    BY <1>0, <1>2, DisturbTyped DEF Restart
  <2> QED
    BY <1>2, <2>1, <2>2 DEF Restart, RestTyped, SettleRun, ledger
<1>3. CASE Midnight
  BY <1>3, SettlementParameters DEF Midnight, RestTyped, SettleRun, ledger, ticks
<1>4. CASE UNCHANGED vars
  BY <1>4 DEF vars, ledger, ticks, RestTyped, SettleRun
<1> QED
  BY <1>1, <1>2, <1>3, <1>4, TriggerTyped, SettleTyped, MatureTyped, ByHandTyped, FailureTyped
  DEF Next

\* How the books move: not at all, by PayAndAudit for swaps not ended, with a
\* batch if it nets, or by a buyout.
CashStep ==
  \/ UNCHANGED <<payments, audits, batches>>
  \/ /\ UNCHANGED effects
     /\ \E source \in Sources \ {"swap-terminate"}, es \in SUBSET effects :
          /\ \A e \in es : Live(e.swap)
          /\ PayAndAudit(source, es)
          /\ batches' = IF source = "csa-net" THEN Append(batches, es) ELSE batches
  \/ /\ Buyout # 0
     /\ \E net \in {Buyout, -Buyout} :
          payments' = Append(payments, [source |-> "swap-terminate", effects |-> {}, net |-> net])
     /\ UNCHANGED <<effects, audits, batches>>

LEMMA NextCashStep ==
  ASSUME RestTyped, [Next]_vars
  PROVE  CashStep
<1>0. {"swap-settle", "swap-mature", "csa-net"} \subseteq Sources \ {"swap-terminate"}
  BY DEF Sources
<1>1. ASSUME NEW r \in Runs, TriggerTick(r) PROVE CashStep
  BY <1>1 DEF TriggerTick, StartTrigger, ExerciseTrigger, CashStep, ledger
<1>2. ASSUME NEW r \in Runs, SettleTick(r) PROVE CashStep
  <2>1. ASSUME NEW date \in 1..LastDay, ExerciseSettleNet(r, Bin(r, date)) PROVE CashStep
    <3>1. Bin(r, date) \in SUBSET effects
      BY DEF Bin, RestTyped, SettleRun
    <3> QED
      BY <1>0, <2>1, <3>1 DEF ExerciseSettleNet, SettleNetImpl, CashStep
  <2> QED
    BY <1>2, <2>1 DEF SettleTick, StartSettle, ReadHoldings, SettleBin, BinFails, CashStep, ledger
<1>3. CASE MatureTick
  BY <1>3 DEF MatureTick, StartMature, ExerciseMature, CashStep, ledger
<1>4. ASSUME NEW s \in Swaps, OperatorTriggers(s) PROVE CashStep
  BY <1>4 DEF OperatorTriggers, CashStep
<1>5. ASSUME NEW s \in Swaps, OperatorSettles(s) \/ OperatorMatures(s) PROVE CashStep
  <2>1. EffectsOf(s) \in SUBSET effects /\ \A e \in EffectsOf(s) : Live(e.swap)
    BY <1>5 DEF EffectsOf, OperatorSettles, OperatorMatures
  <2> QED
    BY <1>0, <1>5, <2>1 DEF OperatorSettles, OperatorMatures, CashStep
<1>6. ASSUME NEW es \in SUBSET effects, OperatorNets(es) PROVE CashStep
  BY <1>0, <1>6 DEF OperatorNets, SettleNetImpl, CashStep
<1>7. ASSUME NEW tp \in proposals, DropProposal(tp) \/ TpAccept(tp) PROVE CashStep
  BY <1>7 DEF DropProposal, TpAccept, BuyoutNet, CashStep
<1>8. ASSUME NEW s \in Swaps, NEW p \in Parties, Propose(s, p) PROVE CashStep
  BY <1>8 DEF Propose, CashStep
<1>9. CASE CsaRotates \/ RequestFails \/ Restart \/ Midnight \/ UNCHANGED vars
  BY <1>9 DEF CsaRotates, RequestFails, Restart, Midnight, vars, ledger, CashStep
<1> QED
  BY <1>1, <1>2, <1>3, <1>4, <1>5, <1>6, <1>7, <1>8, <1>9 DEF Next, ByHand

LEMMA NextTyped == Typed /\ [Next]_vars => Typed'
<1> SUFFICES ASSUME Typed, [Next]_vars PROVE Typed'
  OBVIOUS
<1>1. RestTyped /\ payments \in Seq(Payment) /\ audits \in Seq(SettlementAudit)
  BY TypedParts
<1>2. RestTyped' /\ effects \subseteq effects'
  BY <1>1, NextRestTyped
<1>3. Payment \subseteq Payment' /\ SettlementAudit \subseteq SettlementAudit'
  BY <1>2, WiderEffects DEF Typed
<1>4. CASE UNCHANGED <<payments, audits>>
  <2>1. payments' \in Seq(Payment') /\ audits' \in Seq(SettlementAudit')
    BY <1>1, <1>3, <1>4
  <2> QED
    BY <1>2, <2>1, PartsTypedAgain
<1>5. ASSUME NEW source \in Sources, NEW es \in SUBSET effects, PayAndAudit(source, es),
             UNCHANGED effects
      PROVE  Typed'
  <2>1. payments' \in Seq(Payment') /\ audits' \in Seq(SettlementAudit')
    BY <1>5, PayTyped
  <2> QED
    BY <1>2, <2>1, PartsTypedAgain
<1>6. ASSUME NEW net \in {Buyout, -Buyout}, Buyout # 0, UNCHANGED audits,
             payments' = Append(payments, [source |-> "swap-terminate", effects |-> {}, net |-> net])
      PROVE  Typed'
  <2>1. net # 0
    BY <1>6, SettlementParameters
  <2>2. [source |-> "swap-terminate", effects |-> {}, net |-> net] \in Payment
    BY <2>1 DEF Payment, Sources
  <2>3. payments' \in Seq(Payment')
    BY <1>1, <1>3, <1>6, <2>2
  <2>4. audits' \in Seq(SettlementAudit')
    BY <1>1, <1>3, <1>6
  <2> QED
    BY <1>2, <2>3, <2>4, PartsTypedAgain
<1> QED
  BY <1>1, <1>4, <1>5, <1>6, NextCashStep DEF CashStep

\* Every reachable state is well typed: in particular no payment and no audit
\* row is of zero, and each is the net of effects there are or a buyout.
THEOREM TypeCorrect == Spec => []TypeOK
<1>1. Spec => []Typed
  BY InitTyped, NextTyped, PTL DEF Spec
<1> QED
  BY <1>1, PTL DEF Typed

-----------------------------------------------------------------------------
(* The end of a swap.                                                      *)

\* However maturity and termination race, what a swap has become it stays.
LEMMA NextEndStays ==
  ASSUME Typed, [Next]_vars
  PROVE  \A s \in Swaps : ~Live(s) => status'[s] = status[s]
<1>0. status \in [Swaps -> Statuses]
  BY DEF Typed, TypeOK
<1>1. ASSUME NEW r \in Runs, TriggerTick(r) \/ SettleTick(r) PROVE UNCHANGED status
  BY <1>1 DEF TriggerTick, StartTrigger, ExerciseTrigger, SettleTick, StartSettle, ReadHoldings,
              SettleBin, ExerciseSettleNet, BinFails, ledger
<1>2. CASE MatureTick
  <2>1. CASE StartMature
    BY <2>1 DEF StartMature, ledger
  <2>2. ASSUME NEW t \in Swaps, ExerciseMature(t)
        PROVE \A s \in Swaps : ~Live(s) => status'[s] = status[s]
    BY <1>0, <2>2 DEF ExerciseMature, Live
  <2> QED
    BY <1>2, <2>1, <2>2 DEF MatureTick
<1>3. ASSUME NEW t \in Swaps, OperatorTriggers(t) \/ OperatorSettles(t)
      PROVE  UNCHANGED status
  BY <1>3 DEF OperatorTriggers, OperatorSettles
<1>4. ASSUME NEW t \in Swaps, OperatorMatures(t)
      PROVE  \A s \in Swaps : ~Live(s) => status'[s] = status[s]
  BY <1>0, <1>4 DEF OperatorMatures, Live
<1>5. ASSUME NEW tp \in proposals, TpAccept(tp)
      PROVE  \A s \in Swaps : ~Live(s) => status'[s] = status[s]
  BY <1>0, <1>5 DEF TpAccept, Live
<1>6. ASSUME NEW es \in SUBSET effects, OperatorNets(es) PROVE UNCHANGED status
  BY <1>6 DEF OperatorNets
<1>7. ASSUME NEW tp \in proposals, DropProposal(tp) PROVE UNCHANGED status
  BY <1>7 DEF DropProposal
<1>8. ASSUME NEW t \in Swaps, NEW p \in Parties, Propose(t, p) PROVE UNCHANGED status
  BY <1>8 DEF Propose
<1>9. CASE CsaRotates \/ RequestFails \/ Restart \/ Midnight \/ UNCHANGED vars
  BY <1>9 DEF CsaRotates, RequestFails, Restart, Midnight, vars, ledger
<1> QED
  BY <1>1, <1>2, <1>3, <1>4, <1>5, <1>6, <1>7, <1>8, <1>9 DEF Next, ByHand

\* Cash leaves only for swaps that have not ended.
LEMMA NextPaysLive ==
  ASSUME Typed, [Next]_vars, payments' # payments
  PROVE  \A e \in payments'[Len(payments')].effects : Live(e.swap)
<1>1. payments \in Seq(Payment)
  BY DEF Typed, TypeOK
<1>2. ASSUME NEW x, payments' = Append(payments, x) PROVE payments'[Len(payments')] = x
  BY <1>1, <1>2
<1>3. CashStep
  BY TypedParts, NextCashStep
<1>4. ASSUME NEW source \in Sources, NEW es \in SUBSET effects,
             \A e \in es : Live(e.swap), PayAndAudit(source, es)
      PROVE  \A e \in payments'[Len(payments')].effects : Live(e.swap)
  <2>1. payments' = Append(payments, [source |-> source, effects |-> es, net |-> Net(es)])
    BY <1>4 DEF PayAndAudit
  <2>2. payments'[Len(payments')].effects = es
    BY <1>2, <2>1
  <2> QED
    BY <1>4, <2>2
<1>5. ASSUME NEW net,
             payments' = Append(payments, [source |-> "swap-terminate", effects |-> {}, net |-> net])
      PROVE  \A e \in payments'[Len(payments')].effects : Live(e.swap)
  <2>1. payments'[Len(payments')].effects = {}
    BY <1>2, <1>5
  <2> QED
    BY <2>1
<1> QED
  BY <1>3, <1>4, <1>5 DEF CashStep

\* Maturity and termination race for the one workflow and the first is final;
\* nothing is paid for it afterwards, whatever a tick had read.
THEOREM EndsAreFinal == Spec => EndIsFinal
<1>1. Typed /\ [Next]_vars =>
        [/\ \A s \in Swaps : ~Live(s) => status'[s] = status[s]
         /\ payments' # payments =>
              \A e \in payments'[Len(payments')].effects : Live(e.swap)]_vars
  BY NextEndStays, NextPaysLive
<1> QED
  BY <1>1, InitTyped, NextTyped, PTL DEF Spec, EndIsFinal

-----------------------------------------------------------------------------
(* A coupon becomes one effect.                                            *)

\* With no second trigger of a day the regular run is the only one, its list
\* names a swap once, and nothing on it has an effect yet.
Coupons ==
  disturbed \cap {"overlap", "trigger"} = {} =>
    /\ trigger[Stray] = {}
    /\ \A e \in effects : e.copy = 1
    /\ \A t \in trigger[Service] : \A e \in effects : e.swap = t.swap => e.day # t.date
    /\ \A t, u \in trigger[Service] : t.swap = u.swap => t = u

LEMMA InitCoupons == Init => Coupons
BY SettlementParameters DEF Init, Coupons, Runs

LEMMA NextCoupons ==
  ASSUME Typed, Coupons, [Next]_vars
  PROVE  Coupons'
<1> SUFFICES ASSUME disturbed' \cap {"overlap", "trigger"} = {}
             PROVE  /\ trigger'[Stray] = {}
                    /\ \A e \in effects' : e.copy = 1
                    /\ \A t \in trigger'[Service] : \A e \in effects' : e.swap = t.swap => e.day # t.date
                    /\ \A t, u \in trigger'[Service] : t.swap = u.swap => t = u
  BY DEF Coupons
<1> DEFINE Goal == /\ trigger'[Stray] = {}
                   /\ \A e \in effects' : e.copy = 1
                   /\ \A t \in trigger'[Service] : \A e \in effects' : e.swap = t.swap => e.day # t.date
                   /\ \A t, u \in trigger'[Service] : t.swap = u.swap => t = u
<1>0. Service \in Runs /\ Stray \in Runs /\ Service # Stray /\ Runs = {Service, Stray}
  BY SettlementParameters DEF Runs
<1>1. ASSUME disturbed \subseteq disturbed', UNCHANGED <<effects, trigger>> PROVE Goal
  BY <1>1 DEF Coupons
<1>2. ASSUME NEW r \in Runs, StartTrigger(r) PROVE Goal
  <2>1. r = Service /\ UNCHANGED disturbed
    BY <1>0, <1>2 DEF StartTrigger, CountOverlap, Disturb
  <2>2. trigger'[Stray] = {}
    BY <1>0, <1>2, <2>1 DEF StartTrigger, Coupons, Typed, TypeOK
  <2>3. trigger'[Service] = Untriggered(day) /\ UNCHANGED effects
    BY <1>0, <1>2, <2>1 DEF StartTrigger, Typed, TypeOK, ledger
  <2> QED
    BY <2>1, <2>2, <2>3 DEF Untriggered, EffectsOf, Coupons
<1>3. ASSUME NEW r \in Runs, NEW todo \in trigger[r], ExerciseTrigger(r, todo) PROVE Goal
  <2>1. r = Service /\ UNCHANGED disturbed
    BY <1>0, <1>3 DEF ExerciseTrigger, Coupons
  <2>2. trigger'[Stray] = {} /\ trigger'[Service] = trigger[Service] \ {todo}
    BY <1>0, <1>3, <2>1 DEF ExerciseTrigger, Coupons, Typed, TypeOK
  <2>3. CASE UNCHANGED effects
    BY <1>3, <2>1, <2>2, <2>3 DEF Coupons
  <2>4. CASE ~UNCHANGED effects
    <3> DEFINE same == {e \in effects : e.swap = todo.swap /\ e.day = todo.date}
               new == [swap |-> todo.swap, day |-> todo.date, copy |-> 1 + Cardinality(same)]
    <3>1. effects' = effects \cup {new}
      BY <1>3, <2>4 DEF ExerciseTrigger, Evolve
    <3>2. same = {}
      BY <1>3, <2>1 DEF Coupons
    <3>3. Cardinality(same) = 0
      BY <3>2, FS_EmptySet
    <3>4. new.copy = 1 /\ new.swap = todo.swap /\ new.day = todo.date
      BY <3>3
    <3> HIDE DEF new
    <3> QED
      BY <2>1, <2>2, <3>1, <3>4, <1>3 DEF Coupons
  <2> QED
    BY <2>3, <2>4
<1>4. ASSUME NEW s \in Swaps, OperatorTriggers(s) PROVE Goal
  BY <1>4 DEF OperatorTriggers, Disturb
<1>5. CASE Restart
  <2>1. disturbed \subseteq disturbed' /\ UNCHANGED effects /\ trigger' = [r \in Runs |-> {}]
    BY <1>5 DEF Restart, Disturb, ledger
  <2>2. trigger'[Stray] = {} /\ trigger'[Service] = {}
    BY <1>0, <2>1
  <2> QED
    BY <2>1, <2>2 DEF Coupons
<1>6. ASSUME NEW r \in Runs, SettleTick(r)
      PROVE disturbed \subseteq disturbed' /\ UNCHANGED <<effects, trigger>>
  BY <1>6 DEF SettleTick, StartSettle, ReadHoldings, SettleBin, ExerciseSettleNet, BinFails,
              CountOverlap, Disturb, ledger
<1>7. CASE MatureTick
  BY <1>1, <1>7 DEF MatureTick, StartMature, ExerciseMature, ledger
<1>8. ASSUME NEW s \in Swaps, OperatorSettles(s) \/ OperatorMatures(s) PROVE Goal
  BY <1>1, <1>8 DEF OperatorSettles, OperatorMatures, Disturb
<1>9. ASSUME NEW es \in SUBSET effects, OperatorNets(es) PROVE Goal
  BY <1>1, <1>9 DEF OperatorNets, Disturb
<1>10. ASSUME NEW tp \in proposals, DropProposal(tp) \/ TpAccept(tp) PROVE Goal
  BY <1>1, <1>10 DEF DropProposal, TpAccept, ticks
<1>11. ASSUME NEW s \in Swaps, NEW p \in Parties, Propose(s, p) PROVE Goal
  BY <1>1, <1>11 DEF Propose, Disturb, ticks
<1>12. CASE CsaRotates \/ Midnight \/ UNCHANGED vars
  BY <1>1, <1>12 DEF CsaRotates, Midnight, vars, ledger, ticks, Disturb
<1>13. CASE RequestFails
  <2>1. disturbed \subseteq disturbed' /\ UNCHANGED effects
    BY <1>13 DEF RequestFails, Disturb, ledger
  <2>2. \A r \in Runs : trigger'[r] \subseteq trigger[r]
    BY <1>13 DEF RequestFails, Typed, TypeOK
  <2> QED
    BY <1>0, <2>1, <2>2 DEF Coupons
<1> QED
  BY <1>1, <1>2, <1>3, <1>4, <1>5, <1>6, <1>7, <1>8, <1>9, <1>10, <1>11, <1>12, <1>13
  DEF Next, TriggerTick, ByHand

\* A coupon has one effect however often its tick is cut off and run again.
THEOREM CouponsEvolveOnce == Spec => []OneEffectPerCoupon
<1>1. Coupons => OneEffectPerCoupon
  BY DEF Coupons, OneEffectPerCoupon
<1>2. Typed /\ Coupons /\ [Next]_vars => Coupons'
  BY NextCoupons
<1> QED
  BY <1>1, <1>2, InitTyped, NextTyped, InitCoupons, PTL DEF Spec

-----------------------------------------------------------------------------
(* The scheduler pays an effect once.                                      *)

Batched == UNION Range(batches)

\* Nobody but the one regular run settles coupons.
Undisturbed == disturbed \cap {"overlap", "settle", "mature", "net"} = {}

\* What the run has still to settle is in no batch, what was paid is in one,
\* and no two payments share an effect.
Once ==
  /\ settle[Stray] = IdleSettle
  /\ settle[Service].todo \cap Batched = {}
  /\ \A i \in DOMAIN payments : payments[i].effects \subseteq Batched
  /\ \A i, j \in DOMAIN payments : i # j => payments[i].effects \cap payments[j].effects = {}

Paying == Undisturbed => Once

LEMMA InitPaying == Init => Paying
BY SettlementParameters DEF Init, Paying, Once, Batched, Range, Runs, IdleSettle

\* Where neither batches nor payments move, the run's list may only shrink.
LEMMA OnceKept ==
  ASSUME Once, UNCHANGED <<batches, payments>>, settle'[Stray] = IdleSettle,
         settle'[Service].todo \subseteq settle[Service].todo
  PROVE  Once'
BY DEF Once, Batched

\* A bin enters the batches, and its effects are in no other.
LEMMA BatchAppended ==
  ASSUME NEW S, batches \in Seq(S), NEW es \in S, batches' = Append(batches, es)
  PROVE  Batched' = Batched \cup es
<1>1. DOMAIN batches' = 1..(Len(batches) + 1) /\ DOMAIN batches = 1..Len(batches)
  OBVIOUS
<1>2. batches'[Len(batches) + 1] = es /\ \A i \in DOMAIN batches : batches'[i] = batches[i]
  OBVIOUS
<1>3. Len(batches) \in Nat
  OBVIOUS
<1>4. \A i \in DOMAIN batches' : i \in DOMAIN batches \/ i = Len(batches) + 1
  BY <1>1, <1>3
<1>5. DOMAIN batches \subseteq DOMAIN batches' /\ Len(batches) + 1 \in DOMAIN batches'
  BY <1>1, <1>3
<1>6. ASSUME NEW x \in Batched' PROVE x \in Batched \cup es
  BY <1>2, <1>4, <1>6 DEF Batched, Range
<1>7. ASSUME NEW x \in Batched \cup es PROVE x \in Batched'
  BY <1>2, <1>5, <1>7 DEF Batched, Range
<1> QED
  BY <1>6, <1>7

LEMMA BinSettled ==
  ASSUME Typed, Once, NEW date \in 1..LastDay, ExerciseSettleNet(Service, Bin(Service, date))
  PROVE  Once'
<1> DEFINE bin == Bin(Service, date)
<1>0. Service \in Runs /\ Stray \in Runs /\ Service # Stray
  BY SettlementParameters DEF Runs
<1>1. settle \in [Runs -> SettleRun] /\ batches \in Seq(SUBSET effects) /\ payments \in Seq(Payment)
  BY DEF Typed, TypeOK, SettleRun
<1>2. bin \in SUBSET effects /\ bin \subseteq settle[Service].todo /\ bin \cap Batched = {}
  BY <1>0, <1>1 DEF Bin, SettleRun, Once
<1>3. Batched' = Batched \cup bin
  BY <1>1, <1>2, BatchAppended DEF ExerciseSettleNet, SettleNetImpl
<1>4. /\ \A i \in DOMAIN payments' : payments'[i].effects \subseteq Batched'
      /\ \A i, j \in DOMAIN payments' :
           i # j => payments'[i].effects \cap payments'[j].effects = {}
  <2>1. CASE UNCHANGED payments
    BY <1>3, <2>1 DEF Once
  <2>2. CASE payments' = Append(payments, [source |-> "csa-net", effects |-> bin, net |-> Net(bin)])
    <3> DEFINE n == Len(payments) + 1
    <3>1. /\ \A i \in DOMAIN payments' : i \in DOMAIN payments \/ i = n
          /\ \A i \in DOMAIN payments : payments'[i] = payments[i]
      BY <1>1, <2>2
    <3>2. payments'[n].effects = bin
      BY <1>1, <2>2
    <3>3. \A i \in DOMAIN payments : payments[i].effects \cap bin = {}
      BY <1>2 DEF Once
    <3> HIDE DEF n, bin
    <3> QED
      BY <1>3, <3>1, <3>2, <3>3 DEF Once
  <2> QED
    BY <2>1, <2>2 DEF ExerciseSettleNet, SettleNetImpl, PayAndAudit
<1>5. settle'[Stray] = IdleSettle
  <2>1. settle'[Stray] = Spent(Net(bin))[Stray]
    BY <1>0 DEF ExerciseSettleNet, Spent
  <2>2. settle[Stray] = IdleSettle
    BY DEF Once
  <2> QED
    BY <1>0, <2>1, <2>2 DEF Spent, IdleSettle
<1>6. settle'[Service].todo \subseteq settle[Service].todo \ bin
  <2>1. Spent(Net(bin))[Service].todo = settle[Service].todo
    BY <1>0, <1>1 DEF Spent, SettleRun
  <2>2. Spent(Net(bin)) \in [Runs -> SettleRun]
    BY <1>1, SpentTyped
  <2>3. settle'[Service] = AfterBin(Spent(Net(bin))[Service], bin)
    BY <1>0, <2>2 DEF ExerciseSettleNet
  <2> QED
    BY <1>0, <2>1, <2>2, <2>3 DEF AfterBin, IdleSettle, SettleRun
<1> QED
  BY <1>2, <1>3, <1>4, <1>5, <1>6 DEF Once

\* Cash from elsewhere is a buyout, for no effect.
LEMMA BuyoutKeepsOnce ==
  ASSUME Typed, Once, NEW tp \in proposals, TpAccept(tp)
  PROVE  Once'
<1>0. Service \in Runs /\ Stray \in Runs
  BY DEF Runs
<1>1. payments \in Seq(Payment)
  BY DEF Typed, TypeOK
<1>2. settle'[Stray] = IdleSettle /\ settle'[Service].todo = settle[Service].todo
  <2>1. settle \in [Runs -> SettleRun]
    BY DEF Typed, TypeOK, SettleRun
  <2>2. settle' = Spent(BuyoutNet(tp)) /\ settle[Stray] = IdleSettle
    BY DEF TpAccept, Once
  <2>3. Spent(BuyoutNet(tp))[Stray] = IdleSettle
    <3>1. \A fresh : fresh = {} => [IdleSettle EXCEPT !.fresh = fresh] = IdleSettle
      BY DEF IdleSettle
    <3>2. IdleSettle.fresh = {} /\ IdleSettle.fresh \ {Payer(BuyoutNet(tp))} = {}
      BY DEF IdleSettle
    <3> QED
      BY <1>0, <2>2, <3>1, <3>2 DEF Spent
  <2>4. Spent(BuyoutNet(tp))[Service].todo = settle[Service].todo
    BY <1>0, <2>1 DEF Spent, SettleRun
  <2> QED
    BY <2>2, <2>3, <2>4
<1>3. CASE UNCHANGED payments
  BY <1>2, <1>3, OnceKept DEF TpAccept
<1>4. ASSUME NEW net,
             payments' = Append(payments, [source |-> "swap-terminate", effects |-> {}, net |-> net])
      PROVE  Once'
  <2> DEFINE n == Len(payments) + 1
  <2>1. /\ \A i \in DOMAIN payments' : i \in DOMAIN payments \/ i = n
        /\ \A i \in DOMAIN payments : payments'[i] = payments[i]
    BY <1>1, <1>4
  <2>2. payments'[n].effects = {}
    BY <1>1, <1>4
  <2> HIDE DEF n
  <2> QED
    BY <1>2, <2>1, <2>2 DEF Once, TpAccept, Batched
<1> QED
  BY <1>3, <1>4 DEF TpAccept

\* A run's own steps.
LEMMA RunKeepsOnce ==
  ASSUME Typed, Once, ShowsIds, NEW r \in Runs, SettleTick(r), Undisturbed'
  PROVE  Once'
<1>0. Service \in Runs /\ Stray \in Runs /\ Service # Stray /\ Runs = {Service, Stray}
  BY SettlementParameters DEF Runs
<1>1. settle \in [Runs -> SettleRun]
  BY DEF Typed, TypeOK, SettleRun
<1>2. settle[Stray].todo = {} /\ settle[Stray].holdings = "unread"
  BY DEF Once, IdleSettle
<1>3. CASE StartSettle(r)
  <2>1. r = Service
    BY <1>0, <1>3 DEF StartSettle, CountOverlap, Disturb, Undisturbed
  <2>2. settle'[Service].todo = Unsettled /\ settle'[Stray] = settle[Stray]
    BY <1>0, <1>1, <1>3, <2>1 DEF StartSettle, IdleSettle
  <2>3. Unsettled \cap Batched = {}
    BY DEF Unsettled, Consumed, Batched
  <2>4. UNCHANGED <<batches, payments>>
    BY <1>3 DEF StartSettle, ledger
  <2> QED
    BY <2>2, <2>3, <2>4 DEF Once, Batched
<1>4. CASE ReadHoldings(r)
  <2>1. r = Service
    BY <1>0, <1>2, <1>4 DEF ReadHoldings
  <2>2. settle'[Service].todo = settle[Service].todo /\ settle'[Stray] = settle[Stray]
    BY <1>0, <1>1, <1>4, <2>1 DEF ReadHoldings, SettleRun
  <2> QED
    BY <1>4, <2>2, OnceKept DEF ReadHoldings, ledger, Once
<1>5. ASSUME NEW date \in 1..LastDay, SettleBin(r, date) PROVE Once'
  <2>1. r = Service
    BY <1>0, <1>2, <1>5 DEF SettleBin
  <2>2. CASE ExerciseSettleNet(r, Bin(r, date))
    BY <2>1, <2>2, BinSettled
  <2>3. CASE BinFails(r, Bin(r, date))
    <3>1. settle'[Service] = AfterBin(settle[Service], Bin(r, date)) /\ settle'[Stray] = settle[Stray]
      BY <1>0, <1>1, <2>1, <2>3 DEF BinFails
    <3>2. settle'[Service].todo \subseteq settle[Service].todo
      BY <1>0, <1>1, <3>1 DEF AfterBin, IdleSettle, SettleRun
    <3> QED
      BY <2>3, <3>1, <3>2, OnceKept DEF BinFails, ledger, Once
  <2> QED
    BY <1>5, <2>2, <2>3 DEF SettleBin
<1> QED
  BY <1>3, <1>4, <1>5 DEF SettleTick

LEMMA NextPaying ==
  ASSUME Typed, Paying, ShowsIds, [Next]_vars
  PROVE  Paying'
<1> SUFFICES ASSUME Undisturbed' PROVE Once'
  BY DEF Paying
<1>0. Service \in Runs /\ Stray \in Runs
  BY DEF Runs
<1>1. ASSUME disturbed \subseteq disturbed' PROVE Once
  BY <1>1 DEF Paying, Undisturbed
<1>2. ASSUME disturbed \subseteq disturbed', UNCHANGED <<batches, payments, settle>> PROVE Once'
  BY <1>1, <1>2, OnceKept DEF Once
<1>3. ASSUME NEW r \in Runs, SettleTick(r) PROVE Once'
  <2>1. disturbed \subseteq disturbed'
    BY <1>3 DEF SettleTick, StartSettle, ReadHoldings, SettleBin, ExerciseSettleNet, BinFails,
                CountOverlap, Disturb
  <2> QED
    BY <1>1, <1>3, <2>1, RunKeepsOnce
<1>4. ASSUME NEW tp \in proposals, TpAccept(tp) PROVE Once'
  BY <1>1, <1>4, BuyoutKeepsOnce DEF TpAccept
<1>5. CASE CsaRotates
  <2>1. disturbed \subseteq disturbed' /\ UNCHANGED <<batches, payments>>
    BY <1>5 DEF CsaRotates, Disturb, ledger
  <2>2. settle \in [Runs -> SettleRun]
    BY DEF Typed, TypeOK, SettleRun
  <2>3. settle'[Stray] = IdleSettle /\ settle'[Service].todo = settle[Service].todo
    <3>1. settle[Stray] = IdleSettle
      BY <1>1, <2>1 DEF Once
    <3>2. settle' = [r \in Runs |-> [settle[r] EXCEPT !.csaFresh = FALSE]]
      BY <1>5 DEF CsaRotates
    <3>3. settle'[Stray] = IdleSettle
      <4>1. \A flag : flag = IdleSettle.csaFresh => [IdleSettle EXCEPT !.csaFresh = flag] = IdleSettle
        BY DEF IdleSettle
      <4>2. IdleSettle.csaFresh = FALSE
        BY DEF IdleSettle
      <4> QED
        BY <1>0, <3>1, <3>2, <4>1, <4>2
    <3>4. settle'[Service].todo = settle[Service].todo
      BY <1>0, <2>2, <3>2 DEF SettleRun
    <3> QED
      BY <3>3, <3>4
  <2> QED
    BY <1>1, <2>1, <2>3, OnceKept
<1>6. CASE Restart
  <2>1. disturbed \subseteq disturbed' /\ UNCHANGED <<batches, payments>>
    BY <1>6 DEF Restart, Disturb, ledger
  <2>2. settle'[Stray] = IdleSettle /\ settle'[Service].todo = {}
    BY <1>0, <1>6 DEF Restart, IdleSettle
  <2> QED
    BY <1>1, <2>1, <2>2, OnceKept
<1>7. ASSUME NEW r \in Runs, TriggerTick(r) PROVE Once'
  BY <1>2, <1>7 DEF TriggerTick, StartTrigger, ExerciseTrigger, CountOverlap, Disturb, ledger
<1>8. CASE MatureTick
  BY <1>2, <1>8 DEF MatureTick, StartMature, ExerciseMature, ledger
<1>9. ASSUME NEW s \in Swaps, OperatorTriggers(s) PROVE Once'
  BY <1>2, <1>9 DEF OperatorTriggers, Disturb, ticks
<1>10. ASSUME NEW s \in Swaps, OperatorSettles(s) \/ OperatorMatures(s) PROVE FALSE
  BY <1>10 DEF OperatorSettles, OperatorMatures, Disturb, Undisturbed
<1>11. ASSUME NEW es \in SUBSET effects, OperatorNets(es) PROVE FALSE
  BY <1>11 DEF OperatorNets, Disturb, Undisturbed
<1>12. ASSUME NEW tp \in proposals, DropProposal(tp) PROVE Once'
  BY <1>2, <1>12 DEF DropProposal, ticks
<1>13. ASSUME NEW s \in Swaps, NEW p \in Parties, Propose(s, p) PROVE Once'
  BY <1>2, <1>13 DEF Propose, Disturb, ticks
<1>14. CASE Midnight \/ UNCHANGED vars
  BY <1>2, <1>14 DEF Midnight, vars, ledger, ticks
<1>15. CASE RequestFails
  <2>1. disturbed \subseteq disturbed' /\ UNCHANGED <<batches, payments>>
    BY <1>15 DEF RequestFails, Disturb, ledger
  <2>2. Once
    BY <1>1, <2>1
  <2>3. settle \in [Runs -> SettleRun]
    BY DEF Typed, TypeOK, SettleRun
  <2>4. CASE UNCHANGED settle
    BY <1>2, <2>1, <2>4
  <2>5. ASSUME NEW r \in Runs, NEW date \in 1..LastDay, settle[r].holdings = "read",
               settle' = [settle EXCEPT ![r] = AfterBin(@, Bin(r, date))]
        PROVE  Once'
    <3>1. r # Stray /\ r = Service
      BY <2>2, <2>5 DEF Once, IdleSettle, Runs
    <3>2. settle'[Stray] = settle[Stray]
      BY <1>0, <2>3, <2>5, <3>1
    <3>3. settle'[Service] = AfterBin(settle[Service], Bin(Service, date))
      BY <1>0, <2>3, <2>5, <3>1
    <3>4. settle'[Service].todo \subseteq settle[Service].todo
      BY <1>0, <2>3, <3>3 DEF AfterBin, IdleSettle, SettleRun
    <3> QED
      BY <2>1, <2>2, <3>2, <3>4, OnceKept DEF Once
  <2> QED
    BY <1>15, <2>4, <2>5 DEF RequestFails
<1> QED
  BY <1>3, <1>4, <1>5, <1>6, <1>7, <1>8, <1>9, <1>10, <1>11, <1>12, <1>13, <1>14, <1>15
  DEF Next, ByHand

\* A payment that shares no effect with another is an effect's only one.
LEMMA PaidAtMostOnce ==
  ASSUME Typed, Once, NEW e
  PROVE  TimesPaid(e) <= 1
<1> DEFINE times == {i \in DOMAIN payments : e \in payments[i].effects}
<1>1. CASE times = {}
  BY <1>1, FS_EmptySet DEF TimesPaid
<1>2. ASSUME NEW i \in times PROVE TimesPaid(e) <= 1
  <2>1. times = {i}
    BY <1>2 DEF Once
  <2>2. Cardinality(times) = 1
    BY <2>1, FS_Singleton
  <2> QED
    BY <2>2 DEF TimesPaid
<1> QED
  BY <1>1, <1>2

\* Where batches name what they settled, it takes two overlapping runs, or a
\* settlement by hand, to pay an effect twice: no staleness, lost tick or
\* restart does.
THEOREM EffectsArePaidOnce == ASSUME ShowsIds PROVE Spec => []PaidOnce
<1>1. Typed /\ Paying => PaidOnce
  BY PaidAtMostOnce DEF Paying, Undisturbed, PaidOnce, SchedulerIsIdempotent
<1>2. Typed /\ Paying /\ [Next]_vars => Paying'
  BY NextPaying
<1> QED
  BY <1>1, <1>2, InitTyped, NextTyped, InitPaying, PTL DEF Spec

-----------------------------------------------------------------------------
(* The audit trail.                                                        *)

\* A new last element comes after the others and moves none of them.
LEMMA RankAppended ==
  ASSUME NEW n \in Nat, NEW S \in SUBSET (1..n)
  PROVE  LET T == S \cup {n + 1} IN
         /\ \A i \in S : Rank(S, i) \in 1..Cardinality(S) /\ Rank(T, i) = Rank(S, i)
         /\ Cardinality(S) \in Nat
         /\ Cardinality(T) = Cardinality(S) + 1
         /\ Rank(T, n + 1) = Cardinality(S) + 1
<1> DEFINE T == S \cup {n + 1}
           Up(R, i) == {k \in R : k <= i}
<1>1. IsFiniteSet(S) /\ Cardinality(S) \in Nat
  <2>1. IsFiniteSet(1..n)
    BY FS_Interval
  <2> QED
    BY <2>1, FS_Subset, FS_CardinalityType
<1>2. n + 1 \notin S
  OBVIOUS
<1>3. Cardinality(T) = Cardinality(S) + 1
  BY <1>1, <1>2, FS_AddElement
<1>4. Rank(T, n + 1) = Cardinality(T)
  <2>1. \A k \in T : k <= n + 1
    OBVIOUS
  <2>2. Up(T, n + 1) = T
    BY <2>1
  <2> QED
    BY <2>2 DEF Rank
<1>5. ASSUME NEW i \in S
      PROVE  Rank(S, i) \in 1..Cardinality(S) /\ Rank(T, i) = Rank(S, i)
  <2>1. Up(T, i) = Up(S, i)
    OBVIOUS
  <2>2. Rank(T, i) = Rank(S, i)
    BY <2>1 DEF Rank
  <2>3. /\ IsFiniteSet(Up(S, i))
        /\ Cardinality(Up(S, i)) \in Nat
        /\ Cardinality(Up(S, i)) <= Cardinality(S)
    BY <1>1, FS_Subset, FS_CardinalityType
  <2>4. Cardinality(Up(S, i)) # 0
    <3>1. i \in Up(S, i)
      OBVIOUS
    <3> QED
      BY <2>3, <3>1, FS_EmptySet
  <2>5. Rank(S, i) = Cardinality(Up(S, i))
    BY DEF Rank
  <2> QED
    BY <1>1, <2>2, <2>3, <2>4, <2>5
<1> QED
  BY <1>1, <1>3, <1>4, <1>5

\* One more payment is one more of those of its source.
LEMMA PaymentAppended ==
  ASSUME payments \in Seq(Payment), NEW p, payments' = Append(payments, p), NEW sources
  PROVE  LET n == Len(payments) IN
         /\ n \in Nat
         /\ PaymentsOf(sources) \in SUBSET (1..n)
         /\ p.source \in sources => PaymentsOf(sources)' = PaymentsOf(sources) \cup {n + 1}
         /\ p.source \notin sources => PaymentsOf(sources)' = PaymentsOf(sources)
         /\ payments'[n + 1] = p
         /\ \A i \in PaymentsOf(sources) : payments'[i] = payments[i]
<1> DEFINE n == Len(payments)
<1>1. n \in Nat /\ DOMAIN payments = 1..n /\ DOMAIN payments' = 1..(n + 1)
  OBVIOUS
<1>2. payments'[n + 1] = p /\ \A i \in 1..n : payments'[i] = payments[i]
  OBVIOUS
<1>3. PaymentsOf(sources) = {i \in 1..n : payments[i].source \in sources}
  BY <1>1 DEF PaymentsOf
<1>4. PaymentsOf(sources)' = {i \in 1..(n + 1) : payments'[i].source \in sources}
  BY <1>1 DEF PaymentsOf
<1> HIDE DEF n
<1>5. 1..(n + 1) = 1..n \cup {n + 1}
  BY <1>1
<1> QED
  BY <1>1, <1>2, <1>3, <1>4, <1>5

\* One more batch is one more that moves cash, unless its net is zero.
LEMMA BatchMoves ==
  ASSUME NEW S, batches \in Seq(S), NEW es \in S, batches' = Append(batches, es)
  PROVE  LET n == Len(batches) IN
         /\ n \in Nat
         /\ Moving \in SUBSET (1..n)
         /\ Moving' = IF Net(es) = 0 THEN Moving ELSE Moving \cup {n + 1}
         /\ batches'[n + 1] = es
         /\ \A j \in Moving : batches'[j] = batches[j]
<1> DEFINE n == Len(batches)
<1>1. n \in Nat /\ DOMAIN batches = 1..n /\ DOMAIN batches' = 1..(n + 1)
  OBVIOUS
<1>2. batches'[n + 1] = es /\ \A j \in 1..n : batches'[j] = batches[j]
  OBVIOUS
<1>3. Moving = {j \in 1..n : Net(batches[j]) # 0}
  BY <1>1 DEF Moving
<1>4. Moving' = {j \in 1..(n + 1) : Net(batches'[j]) # 0}
  BY <1>1 DEF Moving
<1> HIDE DEF n
<1>5. 1..(n + 1) = 1..n \cup {n + 1}
  BY <1>1
<1> QED
  BY <1>1, <1>2, <1>3, <1>4, <1>5

LEMMA InitAuditTrail == Init => AuditTrail
<1> SUFFICES ASSUME Init PROVE AuditTrail
  OBVIOUS
<1>1. Audited = {} /\ Netted = {} /\ Moving = {} /\ Len(audits) = 0
  BY DEF Init, Audited, Netted, PaymentsOf, Moving
<1> QED
  BY <1>1, FS_EmptySet DEF AuditTrail, RowsMatchCash, BatchesMatchCash

\* A payment with its audit row.
LEMMA RowAppended ==
  ASSUME payments \in Seq(Payment), audits \in Seq(SettlementAudit), RowsMatchCash,
         NEW source \in Sources \ {"swap-terminate"}, NEW es, NEW net,
         payments' = Append(payments, [source |-> source, effects |-> es, net |-> net]),
         audits' = Append(audits, [source |-> source, net |-> net])
  PROVE  RowsMatchCash'
<1> DEFINE n == Len(payments)
           p == [source |-> source, effects |-> es, net |-> net]
           row == [source |-> source, net |-> net]
<1>1. /\ n \in Nat /\ Audited \in SUBSET (1..n)
      /\ Audited' = Audited \cup {n + 1}
      /\ payments'[n + 1] = p
      /\ \A i \in Audited : payments'[i] = payments[i]
  <2>1. p.source \in Sources \ {"swap-terminate"} /\ payments' = Append(payments, p)
    OBVIOUS
  <2> HIDE DEF p
  <2> QED
    BY <2>1, PaymentAppended DEF Audited
<1>2. Len(audits) = Cardinality(Audited)
  BY DEF RowsMatchCash
<1>3. /\ Len(audits') = Len(audits) + 1
      /\ audits'[Len(audits) + 1] = row
      /\ \A k \in 1..Len(audits) : audits'[k] = audits[k]
  OBVIOUS
<1>4. /\ \A i \in Audited : Rank(Audited, i) \in 1..Cardinality(Audited)
                            /\ Rank(Audited', i) = Rank(Audited, i)
      /\ Cardinality(Audited') = Cardinality(Audited) + 1
      /\ Rank(Audited', n + 1) = Cardinality(Audited) + 1
  BY <1>1, RankAppended
<1>5. p.source = source /\ p.net = net
  OBVIOUS
<1>6. ASSUME NEW i \in Audited'
      PROVE  audits'[Rank(Audited', i)] = [source |-> payments'[i].source, net |-> payments'[i].net]
  <2>1. CASE i = n + 1
    BY <1>1, <1>2, <1>3, <1>4, <1>5, <2>1
  <2>2. CASE i \in Audited
    <3>1. Rank(Audited', i) = Rank(Audited, i) /\ Rank(Audited, i) \in 1..Len(audits)
      BY <1>2, <1>4, <2>2
    <3>2. audits[Rank(Audited, i)] = [source |-> payments[i].source, net |-> payments[i].net]
      BY <2>2 DEF RowsMatchCash
    <3>3. audits'[Rank(Audited, i)] = audits[Rank(Audited, i)] /\ payments'[i] = payments[i]
      BY <1>1, <1>3, <2>2, <3>1
    <3> QED
      BY <3>1, <3>2, <3>3
  <2> QED
    BY <1>1, <2>1, <2>2
<1> QED
  BY <1>2, <1>3, <1>4, <1>6 DEF RowsMatchCash

\* A netting: a batch, and its payment unless the net is zero.
LEMMA NettingBooked ==
  ASSUME payments \in Seq(Payment), NEW S, batches \in Seq(S), NEW es \in S,
         BatchesMatchCash, PayAndAudit("csa-net", es), batches' = Append(batches, es)
  PROVE  BatchesMatchCash'
<1> DEFINE n == Len(payments)
           m == Len(batches)
<1>1. /\ m \in Nat /\ Moving \in SUBSET (1..m)
      /\ Moving' = IF Net(es) = 0 THEN Moving ELSE Moving \cup {m + 1}
      /\ batches'[m + 1] = es
      /\ \A j \in Moving : batches'[j] = batches[j]
  BY BatchMoves
<1>2. CASE Net(es) = 0
  <2>1. UNCHANGED payments /\ Moving' = Moving
    BY <1>1, <1>2 DEF PayAndAudit
  <2>2. Netted' = Netted
    BY <2>1 DEF Netted, PaymentsOf
  <2> QED
    BY <1>1, <2>1, <2>2 DEF BatchesMatchCash
<1>3. CASE Net(es) # 0
  <2> DEFINE p == [source |-> "csa-net", effects |-> es, net |-> Net(es)]
  <2>1. payments' = Append(payments, p)
    BY <1>3 DEF PayAndAudit
  <2>2. /\ n \in Nat /\ Netted \in SUBSET (1..n)
        /\ Netted' = Netted \cup {n + 1}
        /\ payments'[n + 1] = p
        /\ \A i \in Netted : payments'[i] = payments[i]
    <3>1. p.source \in {"csa-net"}
      OBVIOUS
    <3> HIDE DEF p
    <3> QED
      BY <2>1, <3>1, PaymentAppended DEF Netted
  <2>3. /\ \A i \in Netted : Rank(Netted, i) \in 1..Cardinality(Netted)
                             /\ Rank(Netted', i) = Rank(Netted, i)
        /\ Cardinality(Netted) \in Nat
        /\ Cardinality(Netted') = Cardinality(Netted) + 1
        /\ Rank(Netted', n + 1) = Cardinality(Netted) + 1
    BY <2>2, RankAppended
  <2>4. Moving' = Moving \cup {m + 1}
    BY <1>1, <1>3
  <2>5. /\ \A j \in Moving : Rank(Moving, j) \in 1..Cardinality(Moving)
                             /\ Rank(Moving', j) = Rank(Moving, j)
        /\ Cardinality(Moving') = Cardinality(Moving) + 1
        /\ Rank(Moving', m + 1) = Cardinality(Moving) + 1
    <3>1. m \in Nat /\ Moving \in SUBSET (1..m)
      BY <1>1
    <3> HIDE DEF m
    <3> QED
      BY <2>4, <3>1, RankAppended
  <2>6. Cardinality(Netted) = Cardinality(Moving)
    BY DEF BatchesMatchCash
  <2>7. ASSUME NEW i \in Netted', NEW j \in Moving', Rank(Netted', i) = Rank(Moving', j)
        PROVE  payments'[i].effects = batches'[j] /\ payments'[i].net = Net(batches'[j])
    <3>1. CASE i = n + 1 /\ j = m + 1
      BY <1>1, <2>2, <3>1
    <3>2. CASE i \in Netted /\ j \in Moving
      BY <1>1, <2>2, <2>3, <2>5, <2>7, <3>2 DEF BatchesMatchCash
    <3>3. CASE i = n + 1 /\ j \in Moving
      BY <2>3, <2>5, <2>6, <2>7, <3>3
    <3>4. CASE i \in Netted /\ j = m + 1
      BY <2>3, <2>5, <2>6, <2>7, <3>4
    <3> QED
      BY <2>2, <2>4, <3>1, <3>2, <3>3, <3>4
  <2> QED
    BY <2>3, <2>5, <2>6, <2>7 DEF BatchesMatchCash
<1> QED
  BY <1>2, <1>3

\* Cash of another source leaves the netted batches as they were.
LEMMA OtherCashBooked ==
  ASSUME payments \in Seq(Payment), BatchesMatchCash, UNCHANGED batches,
         NEW p, p.source # "csa-net", payments' = Append(payments, p)
  PROVE  BatchesMatchCash'
<1>1. Netted' = Netted /\ \A i \in Netted : payments'[i] = payments[i]
  <2>1. p.source \notin {"csa-net"}
    OBVIOUS
  <2> QED
    BY <2>1, PaymentAppended DEF Netted
<1>2. Moving' = Moving
  BY DEF Moving
<1>3. ASSUME NEW i \in Netted', NEW j \in Moving', Rank(Netted', i) = Rank(Moving', j)
      PROVE  payments'[i].effects = batches'[j] /\ payments'[i].net = Net(batches'[j])
  BY <1>1, <1>2, <1>3 DEF BatchesMatchCash
<1> QED
  BY <1>1, <1>2, <1>3 DEF BatchesMatchCash

LEMMA NextAuditTrail ==
  ASSUME Typed, AuditTrail, [Next]_vars
  PROVE  AuditTrail'
<1>0. /\ payments \in Seq(Payment) /\ audits \in Seq(SettlementAudit)
      /\ batches \in Seq(SUBSET effects)
  BY DEF Typed, TypeOK
<1>1. CashStep
  BY TypedParts, NextCashStep
<1>2. CASE UNCHANGED <<payments, audits, batches>>
  BY <1>2 DEF AuditTrail, RowsMatchCash, BatchesMatchCash, Audited, Netted, PaymentsOf, Moving
<1>3. ASSUME NEW source \in Sources \ {"swap-terminate"}, NEW es \in SUBSET effects,
             PayAndAudit(source, es),
             batches' = IF source = "csa-net" THEN Append(batches, es) ELSE batches
      PROVE  AuditTrail'
  <2>1. RowsMatchCash'
    <3>1. CASE Net(es) = 0
      BY <1>3, <3>1 DEF PayAndAudit, AuditTrail, RowsMatchCash, Audited, PaymentsOf
    <3>2. CASE Net(es) # 0
      BY <1>0, <1>3, <3>2, RowAppended DEF PayAndAudit, AuditTrail
    <3> QED
      BY <3>1, <3>2
  <2>2. BatchesMatchCash'
    <3>1. CASE source = "csa-net"
      BY <1>0, <1>3, <3>1, NettingBooked DEF AuditTrail
    <3>2. CASE source # "csa-net" /\ Net(es) = 0
      BY <1>3, <3>2 DEF PayAndAudit, AuditTrail, BatchesMatchCash, Netted, PaymentsOf, Moving
    <3>3. CASE source # "csa-net" /\ Net(es) # 0
      BY <1>0, <1>3, <3>3, OtherCashBooked DEF PayAndAudit, AuditTrail
    <3> QED
      BY <3>1, <3>2, <3>3
  <2> QED
    BY <2>1, <2>2 DEF AuditTrail
<1>4. ASSUME NEW net, UNCHANGED <<audits, batches>>,
             payments' = Append(payments, [source |-> "swap-terminate", effects |-> {}, net |-> net])
      PROVE  AuditTrail'
  <2>1. BatchesMatchCash'
    BY <1>0, <1>4, OtherCashBooked DEF AuditTrail
  <2>2. Audited' = Audited /\ \A i \in Audited : payments'[i] = payments[i]
    BY <1>0, <1>4, PaymentAppended DEF Audited
  <2>3. RowsMatchCash'
    BY <1>4, <2>2 DEF AuditTrail, RowsMatchCash
  <2> QED
    BY <2>1, <2>3 DEF AuditTrail
<1> QED
  BY <1>1, <1>2, <1>3, <1>4 DEF CashStep

\* However settlements, maturities and terminations race, the audit rows are the
\* cash movements but buyouts, in their order, and the csa-net payments are the
\* batches that moved cash.  The statement is its own inductive invariant.
THEOREM BooksAgree == Spec => []AuditTrail
<1>1. Typed /\ AuditTrail /\ [Next]_vars => AuditTrail'
  BY NextAuditTrail
<1> QED
  BY <1>1, InitTyped, NextTyped, InitAuditTrail, PTL DEF Spec

============================================================================
