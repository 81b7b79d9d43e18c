----------------------------- MODULE Valuation -----------------------------
(***************************************************************************)
(* The three readers of a live swap and the value each of them gives it:   *)
(* the workspace page, the blotter and the mark publisher.  Each decodes   *)
(* the ledger's instrument into its own pricing configuration and takes    *)
(* its own context from the market data, then asks the shared engine       *)
(* (Pricing).  Last, the netted exposure the publisher marks a CSA with.   *)
(*                                                                         *)
(* A swap is the workflow and its instrument: its type, its parties, its   *)
(* dates and its streams, of which an InterestRate, currency, FX or asset  *)
(* instrument has its two sides and an FpML instrument its swapStreams.    *)
(* CDS is left out, as its formulas are of other data.                     *)
(***************************************************************************)
EXTENDS CsaMath, Pricing

\* The types an FpML instrument backs, and those whose CSA needs FX spots.
StreamTypes == {"BASIS", "XCCY", "FpML"}

NoConfig == [type |-> "none"]

ScheduleOf(swap, frequency) ==
  [start |-> swap.start, end |-> swap.end, frequency |-> frequency]

\* A leg has what its stream has, but for what is the reader's own.
Side(stream, direction, dayCount, schedule) ==
  LET own == [direction |-> direction, dayCount |-> dayCount, schedule |-> schedule] IN
  [x \in DOMAIN own \cup DOMAIN stream |-> IF x \in DOMAIN own THEN own[x] ELSE stream[x]]

-----------------------------------------------------------------------------
\* hydrateWorkflowPayload: the page pays the floating or rate side, of every
\* other swap the first stream.
PageDayCount ==
  [Act360 |-> "ACT_360", Act365Fixed |-> "ACT_365", ActActISDA |-> "ACT_360",
   Basis30360 |-> "THIRTY_360", Basis30E360 |-> "THIRTY_E_360"]

PageConfigOf(swap, paid, frequency) ==
  LET schedule == ScheduleOf(swap, frequency) IN
  [type |-> swap.swapType,
   legs |-> [i \in DOMAIN swap.streams |->
               Side(swap.streams[i], IF i = paid THEN "pay" ELSE "receive",
                    PageDayCount[swap.streams[i].dayCount], schedule)]]

HydrateInterestRate(swap) ==
  PageConfigOf(swap, 2, IF swap.swapType = "OIS" THEN "Annual" ELSE "Quarterly")

HydrateCcy(swap) == PageConfigOf(swap, 1, "Quarterly")

HydrateFx(swap) == PageConfigOf(swap, 1, "Quarterly")

HydrateAsset(swap) == PageConfigOf(swap, 2, "Quarterly")

HydrateFpml(swap) == PageConfigOf(swap, 1, "Quarterly")

PageConfig(swap) ==
  CASE swap.swapType \in {"IRS", "OIS"} -> HydrateInterestRate(swap)
    [] swap.swapType = "CCY" -> HydrateCcy(swap)
    [] swap.swapType = "FX" -> HydrateFx(swap)
    [] swap.swapType = "ASSET" -> HydrateAsset(swap)
    [] swap.swapType \in StreamTypes -> HydrateFpml(swap)

\* mapDayCount, which throws on any other.
FpmlDayCount ==
  [Act360 |-> "ACT_360", ActActISDA |-> "ACT_365",
   Basis30360 |-> "THIRTY_360", Basis30E360 |-> "THIRTY_E_360"]

Readable(swap) ==
  \A i \in DOMAIN swap.streams : swap.streams[i].dayCount \in DOMAIN FpmlDayCount

\* classify.
ProductType(swap) ==
  LET streams == swap.streams
      floats == Cardinality({i \in DOMAIN streams : streams[i].legType = "float"})
      sameCurrency == \A i, j \in DOMAIN streams : streams[i].currency = streams[j].currency
  IN CASE Len(streams) = 2 /\ sameCurrency /\ floats = 1 -> "IRS"
       [] Len(streams) = 2 /\ sameCurrency /\ floats = 2 -> "BASIS"
       [] Len(streams) = 2 /\ ~sameCurrency /\ floats = 1 -> "XCCY"
       [] OTHER -> "unsupported"

Negated(stream) == [stream EXCEPT !.notional = -@]

Built(swap, stream, direction) ==
  Side(stream, direction, FpmlDayCount[stream.dayCount], ScheduleOf(swap, "Quarterly"))

FloatStream(swap) == CHOOSE i \in 1..2 : swap.streams[i].legType = "float"

\* The builders: each has a paid leg, and its second leg a negative notional.
BuildIrsLike(swap) ==
  LET float == FloatStream(swap) IN
  [type |-> "IRS",
   legs |-> <<Built(swap, swap.streams[3 - float], "receive"),
              Built(swap, Negated(swap.streams[float]), "pay")>>]

BuildBasis(swap) ==
  [type |-> "BASIS",
   legs |-> <<Built(swap, swap.streams[1], "pay"),
              Built(swap, Negated(swap.streams[2]), "receive")>>]

BuildXccy(swap) ==
  LET float == FloatStream(swap) IN
  [type |-> "XCCY",
   legs |-> <<Built(swap, swap.streams[3 - float], "receive"),
              Built(swap, Negated(swap.streams[float]), "pay")>>]

\* parsedFpmlToSwapConfig.
FpmlConfig(swap) ==
  IF ~Readable(swap) THEN NoConfig
  ELSE CASE ProductType(swap) = "IRS" -> BuildIrsLike(swap)
         [] ProductType(swap) = "BASIS" -> BuildBasis(swap)
         [] ProductType(swap) = "XCCY" -> BuildXccy(swap)
         [] OTHER -> NoConfig

\* instrumentToSwapConfig: quarterly throughout, one day count out of two, and
\* an asset swap's rate side fixed.
BlotterDayCount(dayCount) == IF dayCount = "Act365Fixed" THEN "ACT_365" ELSE "ACT_360"

BlotterConfig(swap) ==
  LET paid == IF swap.swapType \in {"IRS", "OIS", "ASSET"} THEN 2 ELSE 1
      stream(i) == IF swap.swapType = "ASSET" /\ i = 2
                   THEN [swap.streams[2] EXCEPT !.legType = "fixed"] ELSE swap.streams[i]
  IN IF swap.swapType \in StreamTypes THEN FpmlConfig(swap)
     ELSE [type |-> swap.swapType,
           legs |-> [i \in 1..2 |->
                       Side(stream(i), IF i = paid THEN "pay" ELSE "receive",
                            BlotterDayCount(swap.streams[i].dayCount),
                            ScheduleOf(swap, "Quarterly"))]]

\* mapIrsToSwapConfig: both legs received, the sign in the notional, the
\* currency USD.
IrsMarkConfig(swap) ==
  LET signed(stream, positive) ==
        Side([(IF positive THEN stream ELSE Negated(stream)) EXCEPT !.currency = "USD"],
             "receive", FpmlDayCount[stream.dayCount], ScheduleOf(swap, "Quarterly"))
  IN [type |-> "IRS",
      legs |-> <<signed(swap.streams[1], swap.ownerReceives),
                 signed(swap.streams[2], ~swap.ownerReceives)>>]

\* resolveSwapConfig: CCY, FX and ASSET throw.
MarkConfig(swap) ==
  IF swap.swapType \in StreamTypes THEN FpmlConfig(swap)
  ELSE IF swap.swapType \in {"IRS", "OIS"} /\ Readable(swap) THEN IrsMarkConfig(swap)
  ELSE NoConfig

-----------------------------------------------------------------------------
(***************************************************************************)
(* Contexts.  The market is what is on the ledger: the USD discount curve  *)
(* and its date, the curves by currency and index, the spots, the indices  *)
(* (one of which the ledger lists first) and their published fixings.      *)
(***************************************************************************)
IndexOf(market, id) == IF id \in DOMAIN market.indices THEN market.indices[id] ELSE NoIndex

FixingsOf(market, id) == IF id \in DOMAIN market.fixings THEN market.fixings[id] ELSE <<>>

\* usePricingInputs: the fixings are those of the first floating leg, and so is
\* the index of every other but the second.
PageContext(config, market) ==
  LET floats == {i \in DOMAIN config.legs : config.legs[i].legType = "float"}
      idOf(i) == config.legs[i].indexId
      first == IF floats = {} THEN "none" ELSE idOf(Min(floats))
      primary == IndexOf(market, first)
      rest == floats \ {Min(floats)}
      second(i) == IF IndexOf(market, idOf(i)) = NoIndex THEN primary
                   ELSE IndexOf(market, idOf(i))
  IN [asOf |-> market.asOf, rate |-> market.rate, lastPillar |-> market.lastPillar,
      index |-> primary, observations |-> FixingsOf(market, first),
      indicesByLeg |-> [i \in DOMAIN config.legs |->
                          IF i \notin floats THEN NoIndex
                          ELSE IF i \in rest /\ i = Min(rest) THEN second(i) ELSE primary],
      book |-> market.book, fxSpots |-> market.fxSpots]

\* useBlotterValuation: never an index, never a fixing.
BlotterContext(market) ==
  [asOf |-> market.asOf, rate |-> market.rate, lastPillar |-> market.lastPillar,
   index |-> NoIndex, observations |-> <<>>, indicesByLeg |-> <<>>,
   book |-> market.book, fxSpots |-> market.fxSpots]

\* flattenObservations: what was fixed by the snapshot's cutoff.
UpTo(fixings, cutoff) == [d \in {d \in DOMAIN fixings : d <= cutoff} |-> fixings[d]]

\* buildContextFromSnapshot: the first index on the ledger for every leg, the
\* curve book and the spots only where a swap of the set needs them.
MarkContext(market, needsFx) ==
  [asOf |-> market.asOf, rate |-> market.rate, lastPillar |-> market.lastPillar,
   index |-> IndexOf(market, market.firstIndex),
   observations |-> UpTo(FixingsOf(market, market.firstIndex), market.asOf),
   indicesByLeg |-> <<>>,
   book |-> IF needsFx THEN market.book ELSE <<>>,
   fxSpots |-> IF needsFx THEN market.fxSpots ELSE <<>>]

-----------------------------------------------------------------------------
\* getInstrumentDirection, and workflowToRow's sign for the viewer.
RowDirection(swap, isPartyA) ==
  IF swap.swapType \in {"CCY", "ASSET"}
  THEN IF swap.ownerReceives = isPartyA THEN "receive" ELSE "pay"
  ELSE IF isPartyA THEN "pay" ELSE "receive"

RowValue(swap, viewer, market) ==
  (IF RowDirection(swap, viewer = swap.partyA) = "pay" THEN -1 ELSE 1)
  * Price(BlotterConfig(swap), BlotterContext(market))

NeverReversed(swap) == FALSE

\* groupByNettingSet: a swap its counterparty proposed is in the other frame.
Reversed(swap) == swap.partyA # PartyA

NeedsFx(swaps) == \E i \in DOMAIN swaps : swaps[i].swapType \in StreamTypes

\* One swap that has no configuration fails the CSA's mark.
Markable(swaps) == \A i \in DOMAIN swaps : MarkConfig(swaps[i]) # NoConfig

MarkValue(swap, ctx) == Price(MarkConfig(swap), ctx)

\* computeMark: positive when A owes B.
Exposure(swaps, market) ==
  LET ctx == MarkContext(market, NeedsFx(swaps))
      signed(i) == IF Reversed(swaps[i]) THEN -MarkValue(swaps[i], ctx)
                   ELSE MarkValue(swaps[i], ctx)
  IN -SumFunction([i \in DOMAIN swaps |-> signed(i)])

=============================================================================
