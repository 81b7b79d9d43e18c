------------------------------ MODULE Pricing ------------------------------
(***************************************************************************)
(* The pricing engine every reader of a swap shares (shared-pricing/src):  *)
(* the coupon schedule of a leg, what a coupon accrues, the value of a     *)
(* swap in a context and the numbers derived from it (theta, carry, roll,  *)
(* accrued interest, clean price).                                         *)
(*                                                                         *)
(* Time is a day number in a calendar of three common years.  Rates are    *)
(* whole percents and a year is Unit parts, so that every year fraction    *)
(* and every amount is an integer, and an even one.  Curves are flat, the  *)
(* discount factor is 1 and interest on interest is left out: which days   *)
(* accrue at which rate, which flows count, in which currency and with     *)
(* which sign is all kept.  The curves of a context are of one date.       *)
(***************************************************************************)
EXTENDS Integers, Sequences, FiniteSets, FiniteSetsExt, Functions

\* A year in the parts both 1/360 and 1/365 are whole numbers of.
Unit == 52560

\* One unit of a notional, in the parts an amount is counted in.
Whole == 100 * Unit

-----------------------------------------------------------------------------
\* The calendar: months and days are numbered from the first of January on.
DaysBefore == <<0, 31, 59, 90, 120, 151, 181, 212, 243, 273, 304, 334>>

FirstOf(m) == 365 * ((m - 1) \div 12) + DaysBefore[((m - 1) % 12) + 1] + 1

MonthLength(m) == FirstOf(m + 1) - FirstOf(m)

\* A month has less than 32 days, so the first guess is at most one too low.
MonthOf(d) ==
  LET day == (d - 1) % 365
      guess == day \div 32 + 1
  IN 12 * ((d - 1) \div 365)
     + (IF guess < 12 /\ DaysBefore[guess + 1] <= day THEN guess + 1 ELSE guess)

DayIn(d) == d - FirstOf(MonthOf(d)) + 1

\* addMonths: JavaScript's setMonth lets a day the month lacks run over into
\* the next one.
AddMonths(d, n) == FirstOf(MonthOf(d) + n) + DayIn(d) - 1

\* The ledger's addPeriod keeps it in the month.
AddPeriod(d, n) ==
  LET month == MonthOf(d) + n IN
  FirstOf(month) + Min({DayIn(d), MonthLength(month)}) - 1

FrequencyMonths == [Monthly |-> 1, Quarterly |-> 3, SemiAnnual |-> 6, Annual |-> 12]

\* generateScheduleDates, until a date is past the end.
ScheduleDates(schedule) ==
  LET step == FrequencyMonths[schedule.frequency]
      date[k \in 0..12] ==
        IF k = 0 THEN schedule.start
        ELSE LET previous == date[k - 1] IN
             IF previous > schedule.end THEN previous ELSE AddMonths(previous, step)
  IN date

\* Each date together with the one before it: a leg's coupon periods.  What is left
\* after the last of them is no period.
CouponPeriods(schedule) ==
  LET date == ScheduleDates(schedule)
      count == Cardinality({k \in 1..12 : date[k] <= schedule.end})
  IN [k \in 1..count |-> [from |-> date[k - 1], to |-> date[k]]]

\* The dates lastRegularEndFor walks: whole periods from the start, none past the
\* maturity.
RegularEnds(schedule) ==
  LET step == FrequencyMonths[schedule.frequency] IN
  {AddPeriod(schedule.start, k * step) :
     k \in {n \in 1..((36 - MonthOf(schedule.start)) \div step) :
             AddPeriod(schedule.start, n * step) <= schedule.end}}

\* The ends of the periods the ledger settles: what is left is a short stub.
LedgerEnds(schedule) == RegularEnds(schedule) \cup {schedule.end}

DayCountDays(from, to, dayCount) ==
  IF dayCount \in {"ACT_360", "ACT_365"} THEN to - from
  ELSE 30 * (MonthOf(to) - MonthOf(from)) + Min({DayIn(to), 30}) - Min({DayIn(from), 30})

YearFraction(from, to, dayCount) ==
  (IF dayCount = "ACT_365" THEN 144 ELSE 146) * DayCountDays(from, to, dayCount)

-----------------------------------------------------------------------------
\* No index loaded.
NoIndex == [indexId |-> "none"]

DayParts(index) == IF index.family \in {"SONIA", "TONA"} THEN 144 ELSE 146

\* Fixings are a function from the days they were published on to their rates.
Before(fixings, d) == Cardinality({f \in DOMAIN fixings : f < d})

WindowUnshiftedEnd(index, fixings, coupon) ==
  LET first == Max({0, Before(fixings, coupon.from) - index.lookback})
  IN [first |-> first, last |-> Max({first, Before(fixings, coupon.to)})]

\* Positions among the fixings, both ends shifted back by the lookback.
Window(index, fixings, coupon) ==
  LET first == Max({0, Before(fixings, coupon.from) - index.lookback})
  IN [first |-> first, last |-> Max({first, Before(fixings, coupon.to) - index.lookback})]

\* The fixings at the positions of a window.
UsedIn(window, fixings) ==
  {f \in DOMAIN fixings : Before(fixings, f) \in window.first..(window.last - 1)}

\* Each of them runs to the next of them, the last one to the end of the coupon.
ByFixings(used, index, fixings, coupon) ==
  {[from |-> f, to |-> Min({g \in used : g > f} \cup {coupon.to}),
    rate |-> Max({fixings[f], index.floor}), of |-> "fixing"] : f \in used}

\* The curve takes over from the fixing after the window or, with no fixing in it,
\* from the start of the coupon.
TailFrom(window, used, fixings, coupon) ==
  IF used = {} THEN coupon.from
  ELSE Min({f \in DOMAIN fixings : Before(fixings, f) = window.last} \cup {coupon.to})

ByCurve(from, curveRate, coupon) ==
  IF from >= coupon.to THEN {}
  ELSE {[from |-> from, to |-> coupon.to, rate |-> curveRate, of |-> "curve"]}

AccrualsIn(window, used, curveRate, index, fixings, coupon) ==
  ByFixings(used, index, fixings, coupon)
  \cup ByCurve(TailFrom(window, used, fixings, coupon), curveRate, coupon)

\* The pieces calcCompoundedCashflow compounds.
Accruals(curveRate, index, fixings, coupon) ==
  LET window == Window(index, fixings, coupon) IN
  AccrualsIn(window, UsedIn(window, fixings), curveRate, index, fixings, coupon)

\* The three coupons.  Only the projected one knows a spread.
FixedCoupon(leg, coupon) ==
  leg.notional * leg.rate * YearFraction(coupon.from, coupon.to, leg.dayCount)

ProjectedCoupon(curveRate, leg, coupon) ==
  leg.notional * (curveRate + leg.spread) * YearFraction(coupon.from, coupon.to, leg.dayCount)

CompoundedCoupon(curveRate, index, fixings, leg, coupon) ==
  leg.notional * DayParts(index)
  * SumFunction([a \in Accruals(curveRate, index, fixings, coupon) |-> a.rate * (a.to - a.from)])

FloatCoupon(curveRate, index, fixings, leg, coupon) ==
  IF index = NoIndex THEN ProjectedCoupon(curveRate, leg, coupon)
  ELSE CompoundedCoupon(curveRate, index, fixings, leg, coupon)

\* What a compounded coupon lacks.
SpreadOnTop(index, leg, coupon) ==
  IF index = NoIndex THEN 0
  ELSE leg.spread * leg.notional * YearFraction(coupon.from, coupon.to, leg.dayCount)

\* A leg's periods as flows of these amounts, each on the last day of its period.
Coupons(periods, amounts) ==
  [k \in DOMAIN periods |-> [date |-> periods[k].to, amount |-> amounts[k]]]

-----------------------------------------------------------------------------
\* fxFactor, applied: the direct pair or the inverse of the other one.
Converted(amount, from, to, fxSpots) ==
  IF from = to THEN amount
  ELSE IF <<from, to>> \in DOMAIN fxSpots THEN amount * fxSpots[<<from, to>>]
  ELSE amount \div fxSpots[<<to, from>>]

\* resolveProjection.
ProjectedRate(leg, ctx) ==
  IF leg.currency \notin DOMAIN ctx.book \/ DOMAIN ctx.book[leg.currency] = {} THEN ctx.rate
  ELSE LET projections == ctx.book[leg.currency] IN
       projections[IF leg.indexId \in DOMAIN projections THEN leg.indexId
                   ELSE CHOOSE id \in DOMAIN projections : TRUE]

\* ctx.indicesByLeg?.[legIndex] ?? ctx.index.
LegIndex(ctx, i) ==
  IF i \in DOMAIN ctx.indicesByLeg /\ ctx.indicesByLeg[i] # NoIndex
  THEN ctx.indicesByLeg[i] ELSE ctx.index

FixedFlows(leg) ==
  LET periods == CouponPeriods(leg.schedule) IN
  Coupons(periods, [k \in DOMAIN periods |-> FixedCoupon(leg, periods[k])])

\* Of one index for the swap, and no spread once it is loaded.
FloatFlows(leg, ctx, curveRate) ==
  LET periods == CouponPeriods(leg.schedule) IN
  Coupons(periods, [k \in DOMAIN periods |->
    FloatCoupon(curveRate, ctx.index, ctx.observations, leg, periods[k])])

\* Of an index per leg, and the spread on top.
SpreadFlows(leg, ctx, i) ==
  LET index == LegIndex(ctx, i)
      periods == CouponPeriods(leg.schedule)
  IN Coupons(periods, [k \in DOMAIN periods |->
       FloatCoupon(ProjectedRate(leg, ctx), index, ctx.observations, leg, periods[k])
       + SpreadOnTop(index, leg, periods[k])])

-----------------------------------------------------------------------------
\* calcLegCashflows of each strategy, given the leg's coupons as a fixed leg
\* and as a floating one; a leg of another type has no flow.
IrsFlows(leg, fixed, float) ==
  CASE leg.legType = "fixed" -> fixed
    [] leg.legType = "float" -> float
    [] OTHER -> <<>>

BasisFlows(leg, spread) == IF leg.legType = "float" THEN spread ELSE <<>>

\* Principal before the coupons, as the stable sort leaves them within a day.
XccyFlows(leg, fixed, spread) ==
  IF leg.legType \notin {"fixed", "float"} THEN <<>>
  ELSE <<[date |-> leg.schedule.start, amount |-> -leg.notional * Whole],
         [date |-> leg.schedule.end, amount |-> leg.notional * Whole]>>
       \o (IF leg.legType = "fixed" THEN fixed ELSE spread)

CcyFlows(leg, fixed) == IF leg.legType = "fixed" THEN fixed ELSE <<>>

FxFlows(leg) ==
  IF leg.legType # "fx" THEN <<>>
  ELSE <<[date |-> leg.paymentDate, amount |-> leg.notional * leg.rate * Whole]>>

\* The return falls due at the curve's last pillar.
AssetFlows(leg, ctx, fixed, float) ==
  IF leg.legType # "asset" THEN IrsFlows(leg, fixed, float)
  ELSE <<[date |-> ctx.asOf + ctx.lastPillar, amount |-> leg.notional * leg.return * Whole]>>

\* delegateStrategies.
FpmlFlows(leg, ctx, fixed, float) ==
  CASE leg.legType = "fx" -> FxFlows(leg)
    [] leg.legType = "asset" -> AssetFlows(leg, ctx, fixed, float)
    [] OTHER -> IrsFlows(leg, fixed, float)

\* getStrategy.
StrategyFlows(type, leg, ctx, fixed, float, spread) ==
  CASE type \in {"IRS", "OIS"} -> IrsFlows(leg, fixed, float)
    [] type = "BASIS" -> BasisFlows(leg, spread)
    [] type = "XCCY" -> XccyFlows(leg, fixed, spread)
    [] type = "CCY" -> CcyFlows(leg, fixed)
    [] type = "FX" -> FxFlows(leg)
    [] type = "ASSET" -> AssetFlows(leg, ctx, fixed, float)
    [] type = "FpML" -> FpmlFlows(leg, ctx, fixed, float)

\* An asset swap projects on the discount curve.
LegFlows(type, leg, ctx, i) ==
  StrategyFlows(type, leg, ctx, FixedFlows(leg),
    FloatFlows(leg, ctx, IF type = "ASSET" THEN ctx.rate ELSE ProjectedRate(leg, ctx)),
    SpreadFlows(leg, ctx, i))

-----------------------------------------------------------------------------
Sign(leg) == IF leg.direction = "pay" THEN -1 ELSE 1

LegCurrency(leg, otherwise) == IF "currency" \in DOMAIN leg THEN leg.currency ELSE otherwise

ReportingCurrency(config) == LegCurrency(config.legs[1], "USD")

InReportingCurrency(config, i, ctx, amount) ==
  LET reporting == ReportingCurrency(config) IN
  Converted(amount, LegCurrency(config.legs[i], reporting), reporting, ctx.fxSpots)

SumOver(flows, counted) == SumFunction([k \in counted |-> flows[k].amount])

NotYetPast(date, cutoff) == date >= cutoff

\* A flow on the cutoff's own day has settled.
Unsettled(date, cutoff) == date > cutoff

\* An amount of leg i as it enters the value: only XCCY converts.
InValue(config, i, ctx, amount) ==
  IF config.type = "XCCY" THEN InReportingCurrency(config, i, ctx, amount) ELSE amount

\* calcLegPV.
LegPv(flows, cutoff) ==
  SumOver(flows, {k \in DOMAIN flows : Unsettled(flows[k].date, cutoff)})

LegValue(config, ctx, i, cutoff) ==
  LET leg == config.legs[i] IN
  InValue(config, i, ctx, Sign(leg) * LegPv(LegFlows(config.type, leg, ctx, i), cutoff))

Npv(config, ctx, cutoff) ==
  SumFunction([i \in DOMAIN config.legs |-> LegValue(config, ctx, i, cutoff)])

\* pricingEngine.price and dirty.
Price(config, ctx) == Npv(config, ctx, ctx.asOf)

\* advanceAsOf: frozen pillars come nearer as the curve's date moves on.
AdvanceAsOf(ctx, to, mode) ==
  [ctx EXCEPT !.asOf = to,
              !.lastPillar = IF mode = "freeze" THEN Max({1, @ - (to - ctx.asOf)}) ELSE @]

Theta(config, ctx, to) ==
  Npv(config, AdvanceAsOf(ctx, to, "freeze"), to) - Npv(config, ctx, ctx.asOf)

Roll(config, ctx, to) ==
  Npv(config, AdvanceAsOf(ctx, to, "slide"), to) - Npv(config, AdvanceAsOf(ctx, to, "freeze"), to)

ForwardNpv(config, ctx, to) == Npv(config, AdvanceAsOf(ctx, to, "slide"), to)

\* The flows up to the horizon, whichever way they go.
PaidBetween(flows, from, to) ==
  SumOver(flows, {k \in DOMAIN flows : flows[k].date \in (from + 1)..to})

CashflowsBetween(config, ctx, from, to) ==
  SumFunction([i \in DOMAIN config.legs |->
    InReportingCurrency(config, i, ctx,
      PaidBetween(LegFlows(config.type, config.legs[i], ctx, i), from, to))])

Carry(config, ctx, to) == CashflowsBetween(config, ctx, ctx.asOf, to)

\* nextEvent: 0 when there is none; with no fixing to come, the next payment.
NextEvent(config, asOf, event) ==
  LET dates(leg, e) ==
        IF leg.legType = "float" \/ (leg.legType = "fixed" /\ e = "payment")
        THEN {CouponPeriods(leg.schedule)[k].to : k \in DOMAIN CouponPeriods(leg.schedule)}
        ELSE IF leg.legType = "fx" /\ e = "payment" THEN {leg.paymentDate} ELSE {}
      ahead(e) == {d \in UNION {dates(config.legs[i], e) : i \in DOMAIN config.legs} : d > asOf}
      next(e) == IF ahead(e) = {} THEN 0 ELSE Min(ahead(e))
  IN IF ahead(event) = {} THEN next("payment") ELSE next(event)

-----------------------------------------------------------------------------
AccrualFamilies == {"IRS", "OIS", "BASIS", "XCCY"}

RunningPeriods(schedule, asOf) ==
  LET periods == CouponPeriods(schedule) IN
  {periods[k] : k \in {n \in DOMAIN periods :
                        periods[n].from <= asOf /\ asOf < periods[n].to /\ asOf < schedule.end}}

\* The coupon due at the end of a period; the principal is told by its amount.
CouponDue(leg, flows, period) ==
  LET principal(f) == /\ f.date \in {leg.schedule.start, leg.schedule.end}
                      /\ f.amount \in {leg.notional * Whole, -leg.notional * Whole}
      due == {k \in DOMAIN flows : flows[k].date = period.to /\ ~principal(flows[k])}
  IN IF due = {} THEN 0 ELSE flows[Min(due)].amount

Elapsed(amount, leg, period, asOf) ==
  LET days(d) == DayCountDays(period.from, d, leg.dayCount) IN
  IF days(period.to) <= 0 THEN 0
  ELSE (amount * Max({0, Min({days(period.to), days(asOf)})})) \div days(period.to)

\* accrued, one leg: the part that has elapsed of the coupon running, whatever
\* the leg's direction.
LegAccrued(config, ctx, i) ==
  LET leg == config.legs[i]
      due(p) == CouponDue(leg, LegFlows(config.type, leg, ctx, i), p)
  IN SumFunction([p \in RunningPeriods(leg.schedule, ctx.asOf) |->
                    Elapsed(InValue(config, i, ctx, due(p)), leg, p, ctx.asOf)])

Accrued(config, ctx) ==
  IF config.type \notin AccrualFamilies THEN 0
  ELSE SumFunction([i \in DOMAIN config.legs |-> LegAccrued(config, ctx, i)])

Clean(config, ctx) == Price(config, ctx) - Accrued(config, ctx)

=============================================================================
