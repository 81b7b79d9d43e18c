----------------------------- MODULE SwapValues -----------------------------
(***************************************************************************)
(* What a swap is shown to be worth as days pass: what its coupons accrue, *)
(* how its value moves from day to day and whether its three readers agree *)
(* on it, said of days, payments and signs, of whatever swaps there are in *)
(* whatever market.  Pricing and Valuation have the engine's way to it.    *)
(***************************************************************************)
EXTENDS Valuation, AccrualRules

CONSTANTS
  Trades,             \* swaps, each with its market's conventions and the days it is looked at
  MarketOn(_, _)      \* the market of some conventions on a day

FixedSides == [legType : {"fixed"}, currency : STRING, notional : Int, rate : Int,
               dayCount : DOMAIN PageDayCount]

FloatSides == [legType : {"float"}, currency : STRING, notional : Int, rate : Int,
               dayCount : DOMAIN PageDayCount, indexId : STRING, spread : Int]

FxSides == [legType : {"fx"}, currency : STRING, notional : Int, rate : Int,
            dayCount : DOMAIN PageDayCount, paymentDate : Nat]

AssetSides == [legType : {"asset"}, notional : Int, return : Int, dayCount : DOMAIN PageDayCount]

\* The two sides an instrument has, those of a rate swap in USD and of one day count.
HasSidesOf(streams, type) ==
  CASE type \in {"IRS", "OIS"} ->
         /\ Len(streams) = 2 /\ streams[1] \in FixedSides /\ streams[2] \in FloatSides
         /\ streams[1].currency = "USD" /\ streams[2].currency = "USD"
         /\ streams[1].dayCount = streams[2].dayCount
    [] type = "CCY" -> Len(streams) = 2 /\ \A i \in 1..2 : streams[i] \in FixedSides
    [] type = "FX" -> Len(streams) = 2 /\ \A i \in 1..2 : streams[i] \in FxSides
    [] type = "ASSET" ->
         /\ Len(streams) = 2
         /\ streams[1] \in AssetSides /\ streams[2] \in FixedSides \cup FloatSides
    [] OTHER ->
         Len(streams) > 0 /\ \A i \in DOMAIN streams : streams[i] \in FixedSides \cup FloatSides

\* bound: the calendar of Pricing
Calendar == 1..1095

IsSwap(swap) ==
  /\ swap \in [start : Calendar, end : Calendar, partyA : Parties, ownerReceives : BOOLEAN,
               swapType : {"IRS", "OIS", "CCY", "FX", "ASSET"} \cup StreamTypes,
               streams : Seq(FixedSides \cup FloatSides \cup FxSides \cup AssetSides)]
  /\ swap.start < swap.end
  /\ HasSidesOf(swap.streams, swap.swapType)

\* An amount is divided by no other spot than 1 and 2: there is no rounding of a
\* half, as amounts are even.
CanConvert(from, to, fxSpots) ==
  \/ from = to
  \/ <<from, to>> \in DOMAIN fxSpots
  \/ <<to, from>> \in DOMAIN fxSpots /\ fxSpots[<<to, from>>] \in {1, 2}

IsMarket(market) ==
  /\ market.asOf \in Nat /\ market.rate \in Int /\ market.lastPillar \in Nat
  /\ \A id \in DOMAIN market.indices :
       market.indices[id] \in [indexId : STRING, family : STRING, lookback : Nat, floor : Int]
  /\ \A id \in DOMAIN market.fixings :
       LET fixings == market.fixings[id] IN
       /\ DOMAIN fixings \subseteq Int /\ IsFiniteSet(DOMAIN fixings)
       /\ \A d \in DOMAIN fixings : fixings[d] \in Int
  /\ \A c \in DOMAIN market.book :
       \A id \in DOMAIN market.book[c] : market.book[c][id] \in Int
  /\ \A pair \in DOMAIN market.fxSpots : market.fxSpots[pair] \in Int

\* The spots between the currencies of a swap are there.
HasSpots(market, swap) ==
  \A i, j \in DOMAIN swap.streams :
    CanConvert(LegCurrency(swap.streams[i], "USD"), LegCurrency(swap.streams[j], "USD"),
               market.fxSpots)

\* Nothing values an XCCY swap without curves of both its currencies: its pricing
\* strategy throws.
HasCurves(market, swap) ==
  swap.swapType = "XCCY" =>
    \A i \in DOMAIN swap.streams : LegCurrency(swap.streams[i], "USD") \in DOMAIN market.book

ASSUME ValuationInputs ==
  \A t \in Trades :
    /\ IsSwap(t.swap)
    /\ t.days \subseteq Nat
    /\ \A d \in t.days \cup {t.swap.start - 1} :
         LET market == MarketOn(t.conventions, d) IN
         /\ market.asOf = d /\ IsMarket(market)
         /\ HasSpots(market, t.swap) /\ HasCurves(market, t.swap)

VARIABLES trade, now

valuesVars == <<trade, now>>

\* A reader who has no swap before him.
NoTrade == [swap |-> "none"]

ValuesInit ==
  \/ trade = NoTrade /\ now = 0
  \/ trade \in Trades /\ now = trade.swap.start - 1

DaysPass ==
  /\ trade # NoTrade
  /\ \E d \in trade.days : d > now /\ now' = d
  /\ UNCHANGED trade

ValuesSpec == ValuesInit /\ [][DaysPass]_valuesVars

Market == MarketOn(trade.conventions, now)

ValuesTypeOK ==
  \/ trade = NoTrade /\ now = 0
  \/ trade \in Trades /\ now \in trade.days \cup {trade.swap.start - 1}

-----------------------------------------------------------------------------
\* A regular date falls on a day its month does not have.
CutShort(schedule) ==
  \E e \in RegularEnds(schedule) : DayIn(e) < DayIn(schedule.start)

\* A coupon accrues every day of its period once, a fixing enters one coupon of a
\* leg and the curve only a coupon without one (calcCompoundedCashflow), over the
\* periods the ledger settles (generateScheduleDates, lastRegularEndFor).  Four
\* exceptions: no day before the first fixing of the period accrues when there is
\* one; with a lookback the days since the fixing it leads back to are accrued a
\* second time, by the curve, and again by the coupon that follows; a month too
\* short for the day moves every later period; and a stub at the end is no coupon.
EachDayAccruesOnce ==
  trade # NoTrade =>
    LET page == PageConfig(trade.swap)
        ctx == PageContext(page, Market)
        schedule == page.legs[1].schedule
        periods == CouponPeriods(schedule)
        parts(i) == [k \in DOMAIN periods |->
                       Accruals(ProjectedRate(page.legs[i], ctx), LegIndex(ctx, i),
                                ctx.observations, periods[k])]
    IN /\ {periods[k].to : k \in DOMAIN periods} = LedgerEnds(schedule)
            <=> schedule.end \in RegularEnds(schedule) /\ ~CutShort(schedule)
       /\ InOrder(periods)
       /\ \A i \in DOMAIN page.legs :
            page.legs[i].legType = "float" /\ LegIndex(ctx, i) # NoIndex =>
              AccruedOnce(periods, parts(i), ctx.observations, LegIndex(ctx, i).lookback)

-----------------------------------------------------------------------------
\* What a leg pays on some days, in its own currency.
PaidOn(flows, days) ==
  SumFunction([k \in DOMAIN flows |-> IF flows[k].date \in days THEN flows[k].amount ELSE 0])

\* The first two flows of a leg of a currency swap with principal, and an asset's
\* return.
IsPrincipal(config, i, k) ==
  config.legs[i].legType = "asset" \/ (config.type = "XCCY" /\ k <= 2)

\* To a horizon the value falls by what is paid until then, in the leg's
\* direction, and value, theta and roll add up to the forward value (theta,
\* roll, forwardNpv).  Carry adds up the same payments whatever their direction,
\* and converts them for a currency swap too, whose value does not.
FallsByPayments(config, ctx, flows, to) ==
  LET paid == [i \in DOMAIN config.legs |-> PaidOn(flows[i], (ctx.asOf + 1)..to)]
  IN /\ Theta(config, ctx, to)
          = -SumFunction([i \in DOMAIN paid |->
                            Sign(config.legs[i]) * InValue(config, i, ctx, paid[i])])
     /\ Price(config, ctx) + Theta(config, ctx, to) + Roll(config, ctx, to)
          = ForwardNpv(config, ctx, to)
     /\ Carry(config, ctx, to)
          = SumFunction([i \in DOMAIN paid |-> InReportingCurrency(config, i, ctx, paid[i])])

\* Nothing is paid before the next payment but principal, of which the next
\* event knows nothing (nextEvent).
NothingSooner(config, ctx, flows) ==
  LET next == NextEvent(config, ctx.asOf, "payment") IN
  \A i \in DOMAIN config.legs : \A k \in DOMAIN flows[i] :
    LET f == flows[i][k] IN
    f.date > ctx.asOf /\ (next = 0 \/ f.date < next) => IsPrincipal(config, i, k)

\* A coupon of the size of the principal is taken for it.
CouponsStandOut(config, flows) ==
  \A i \in DOMAIN config.legs : \A k \in DOMAIN flows[i] :
    ~IsPrincipal(config, i, k) =>
      flows[i][k].amount \notin {config.legs[i].notional * Whole, -config.legs[i].notional * Whole}

\* The flows of leg i that are principal, or those that are not, the others left empty.
Only(config, i, flows, principal) ==
  [k \in DOMAIN flows[i] |->
     IF IsPrincipal(config, i, k) = principal THEN flows[i][k]
     ELSE [flows[i][k] EXCEPT !.amount = 0]]

\* From one day to the next the clean price moves by that day's own interest
\* alone, over a coupon date as on any other day, once the interest of a paid
\* leg, which accrued counts as received, is counted twice back (accrued, clean).
CleanMovesByTheDay(config, ctx, flows) ==
  LET tomorrow == ctx.asOf + 1
      paidLegs == {i \in DOMAIN config.legs : Sign(config.legs[i]) = -1}
      fair(c) == Clean(config, c) + 2 * SumFunction([i \in paidLegs |-> LegAccrued(config, c, i)])
      periods == CouponPeriods(config.legs[1].schedule)
      running == {k \in DOMAIN periods : periods[k].from < tomorrow /\ tomorrow <= periods[k].to}
      principal(i) == PaidOn(Only(config, i, flows, TRUE), {tomorrow})
      coupon(i, k) == PaidOn(Only(config, i, flows, FALSE), {periods[k].to})
      days(i, k, d) == DayCountDays(periods[k].from, d, config.legs[i].dayCount)
      interest(i, k) ==
        (InValue(config, i, ctx, coupon(i, k)) * (days(i, k, tomorrow) - days(i, k, ctx.asOf)))
          \div days(i, k, periods[k].to)
      moves(i) ==
        Sign(config.legs[i])
        * (InValue(config, i, ctx, principal(i)) + SumFunction([k \in running |-> interest(i, k)]))
      expected == -SumFunction([i \in DOMAIN config.legs |-> moves(i)])
      moved == fair([ctx EXCEPT !.asOf = tomorrow]) - fair(ctx)
  IN Abs(moved - expected) <= Len(config.legs)

\* What the page shows over time is what the swap pays: theta, carry, the next
\* event and the clean price, with the exceptions each of them is stated with; past
\* the curve's last pillar an asset's return moves on with the horizon.
ValuesFollowPayments ==
  trade # NoTrade =>
    LET config == PageConfig(trade.swap)
        ctx == PageContext(config, Market)
        flows == [i \in DOMAIN config.legs |-> LegFlows(config.type, config.legs[i], ctx, i)]
    IN /\ \A to \in {now + 1, now + 40, trade.swap.end} \ (0..now) :
            (config.type = "ASSET" => to < now + ctx.lastPillar)
            => FallsByPayments(config, ctx, flows, to)
       /\ NothingSooner(config, ctx, flows)
       /\ config.type \in AccrualFamilies /\ CouponsStandOut(config, flows) =>
            CleanMovesByTheDay(config, ctx, flows)

-----------------------------------------------------------------------------
\* The value of leg i to one who receives it, in the reporting currency.
Received(config, i, ctx) == Sign(config.legs[i]) * LegValue(config, ctx, i, ctx.asOf)

\* The blotter and the mark publisher read the page's swap off the same ledger:
\* an interest rate swap in every context alike, when its day count is one all
\* three decode alike.  Two exceptions of sign: of a party A that pays the fixed
\* side the mark knows and the page does not; and the row shown to a party A, whom
\* the page has receive it, carries the other party's sign.
SameRateSwap(swap, ctx) ==
  LET page == Price(PageConfig(swap), ctx) IN
  /\ Readable(swap) /\ swap.streams[1].dayCount # "ActActISDA" =>
       MarkValue(swap, ctx) = IF swap.ownerReceives THEN page ELSE -page
  /\ swap.streams[1].dayCount \in {"Act360", "Act365Fixed"} =>
       /\ Price(BlotterConfig(swap), ctx) = page
       /\ \A viewer \in Parties :
            RowValue(swap, viewer, Market)
              = (IF viewer = swap.partyA THEN -1 ELSE 1)
                * Price(PageConfig(swap), BlotterContext(Market))

\* A swap of streams is marked and listed with the sum of its two legs, both
\* received or, of two floating ones, both paid, where the page pays the first
\* and receives the second: the builders sign the paid leg twice
\* (buildIrsLikeSwapConfig, buildBasisSwapConfig, buildXccySwapConfig).  Actual
\* days over actual are 360 to the page and 365 to the builders.
SummedStreams(swap, ctx) ==
  LET page == PageConfig(swap)
      config == FpmlConfig(swap)
      sum == Received(page, 1, ctx) + Received(page, 2, ctx)
  IN /\ config # NoConfig
     /\ config.type = IF page.type = "FpML" THEN "IRS" ELSE page.type
     /\ \A i \in DOMAIN swap.streams : swap.streams[i].dayCount # "ActActISDA"
     /\ config.legs[1].currency = page.legs[1].currency
     =>
       /\ Price(config, ctx) = IF config.type = "BASIS" THEN -sum ELSE sum
       /\ Price(page, ctx) = Received(page, 2, ctx) - Received(page, 1, ctx)

\* The curve book projects a swap's floating legs as the discount curve does.
BookAgrees(swap) ==
  LET config == MarkConfig(swap) IN
  \A i \in DOMAIN config.legs :
    config.legs[i].legType = "float" =>
      ProjectedRate(config.legs[i], MarkContext(Market, TRUE)) = Market.rate

\* In a netting set the same swap proposed by either side cancels, and exposures
\* add up over its swaps, unless one that needs spots brings a book with another
\* projection than the discount curve (groupByNettingSet, computeMark, tick).
Nets(swap) ==
  LET mirrored == [swap EXCEPT !.partyA = Other(@)] IN
  /\ Exposure(<<swap, mirrored>>, Market) = 0
  /\ \A other \in {t.swap : t \in {u \in Trades : u.conventions = trade.conventions}} :
       /\ Markable(<<other>>)
       /\ HasSpots(Market, other)
       /\ \/ NeedsFx(<<swap>>) = NeedsFx(<<other>>)
          \/ \A s \in {swap, other} : NeedsFx(<<s>>) \/ BookAgrees(s)
       => Exposure(<<swap, other>>, Market)
            = Exposure(<<swap>>, Market) + Exposure(<<other>>, Market)

\* The three readers of a swap agree on it, with the exceptions the parts state;
\* the publisher can read all but three families, one day count and the streams it
\* has no builder for, of which a single swap leaves its agreement without a mark
\* (resolveSwapConfig).
MarkedAsShown ==
  trade # NoTrade =>
    LET swap == trade.swap
        ctx == PageContext(PageConfig(swap), Market)
    IN /\ swap.swapType = "IRS" => SameRateSwap(swap, ctx)
       /\ swap.swapType \in StreamTypes => SummedStreams(swap, ctx)
       /\ Markable(<<swap>>) => Nets(swap)
       /\ Markable(<<swap>>)
            <=> /\ swap.swapType \notin {"CCY", "FX", "ASSET"}
                /\ \A i \in DOMAIN swap.streams : swap.streams[i].dayCount # "Act365Fixed"
                /\ swap.swapType \in StreamTypes => ProductType(swap) # "unsupported"

=============================================================================
