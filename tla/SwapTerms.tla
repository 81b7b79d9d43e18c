----------------------------- MODULE SwapTerms ------------------------------
(***************************************************************************)
(* What becomes of the legs a trader enters: the payload the workspace     *)
(* makes of them (build-proposal-payload.ts), the legs it shows whoever    *)
(* opens the proposal (hydrate-proposal-legs.ts), what the template of the *)
(* proposal ensures, and the instrument its acceptance asks the factory    *)
(* for, in each of the nine swap families (contracts/src/Swap/             *)
(* *Proposal.daml); and the proposal of a CSA (contracts/src/Csa/          *)
(* Proposal.daml).                                                         *)
(*                                                                         *)
(* A draft has a family, the trader who enters it, a sequence of legs, a   *)
(* start date and a term in days.  A leg has a type, its currency (an FX   *)
(* leg two, some none), a notional and a rate in basis points, which is    *)
(* the spread of a floating leg.  Indices, directions, day counts and      *)
(* weights are left out: no condition below looks at them, but for an FpML *)
(* stream that has none, see Enterable.                                    *)
(***************************************************************************)
EXTENDS Integers, Sequences, Functions

CONSTANTS
  Currencies,        \* configured, and so seeded in CashSetupRecord.currencies
  DefaultCurrency,   \* CashSetupRecord.defaultCurrencyCode
  Scheduled,         \* the families in CashSetupRecord.scheduleDefaults
  FirstPeriod,       \* days of a family's first coupon period, by its frequency
  IndexCurrency      \* the FloatingRateIndex contracts and their currencies

ASSUME SetupAssumption == DefaultCurrency \in Currencies

SwapFamilies == {"IRS", "OIS", "BASIS", "XCCY", "CDS", "CCY", "FX", "ASSET", "FpML"}

\* Rates are in basis points, notionals in millions.
Whole == 10000

Indices == DOMAIN IndexCurrency

-----------------------------------------------------------------------------
(* The workspace: the legs a draft begins with.                            *)

PlainLeg(type, currency, notional, rate) ==
  [type |-> type, currencies |-> <<currency>>, notional |-> notional, rate |-> rate]

BareLeg(type, notional) ==
  [type |-> type, currencies |-> <<>>, notional |-> notional, rate |-> 0]

FxLegs(currencies, notional, near, far) ==
  LET leg(rate) == [type |-> "fx", currencies |-> currencies,
                    notional |-> notional, rate |-> rate]
  IN <<leg(near), leg(far)>>

\* SWAP_TYPE_CONFIGS
DefaultLegs(family) ==
  CASE family = "IRS" -> <<PlainLeg("fixed", "USD", 50, 425), PlainLeg("float", "USD", 50, 25)>>
    [] family = "OIS" -> <<PlainLeg("fixed", "USD", 50, 400), PlainLeg("float", "USD", 50, 0)>>
    [] family = "BASIS" -> <<PlainLeg("float", "USD", 50, 0), PlainLeg("float", "USD", 50, 25)>>
    [] family = "XCCY" -> <<PlainLeg("fixed", "USD", 50, 400), PlainLeg("float", "EUR", 45, 0)>>
    [] family = "CDS" -> <<PlainLeg("fixed", "USD", 10, 100), BareLeg("protection", 10)>>
    [] family = "CCY" -> <<PlainLeg("fixed", "USD", 50, 400), PlainLeg("fixed", "EUR", 45, 350)>>
    [] family = "FX" -> FxLegs(<<"USD", "EUR">>, 10, 10800, 10850)
    [] family = "ASSET" -> <<BareLeg("asset", 10), PlainLeg("float", "USD", 10, 50)>>
    [] family = "FpML" -> <<>>

\* The indices of the default legs of the two families that name theirs.
DefaultIndices(family) ==
  CASE family = "BASIS" -> <<"USD-SOFR", "USD-EFFR">>
    [] family = "XCCY" -> <<"EUR-ESTR">>

-----------------------------------------------------------------------------
(* The workspace: from a draft to the payload of a proposal.               *)

\* What the screens let a trader make of the legs a family begins with: every
\* field can be edited, each leg for itself, but neither the number nor the
\* types of the legs.  FpML streams are added, removed and switched at will; one
\* that lacks the rate or the index of its type is not modelled.
Enterable(d) ==
  LET default == DefaultLegs(d.family) IN
  CASE d.family = "CSA" -> TRUE
    [] d.family = "FpML" ->
         \A i \in DOMAIN d.legs : /\ d.legs[i].type \in {"fixed", "float"}
                                  /\ d.legs[i].currencies \in [1..1 -> STRING]
    [] OTHER ->
         /\ DOMAIN d.legs = DOMAIN default
         /\ \A i \in DOMAIN default :
              /\ d.legs[i].type = default[i].type
              /\ d.legs[i].currencies \in [DOMAIN default[i].currencies -> STRING]
              /\ d.legs[i].type \in {"asset", "protection"} => d.legs[i].rate = 0

NoLeg == [type |-> "none", currencies |-> <<DefaultCurrency>>, notional |-> 0, rate |-> 0]

\* legs.find: the first leg of one of these types.
Find(d, types) ==
  LET found == {i \in DOMAIN d.legs : d.legs[i].type \in types}
  IN IF found = {} THEN NoLeg ELSE d.legs[CHOOSE i \in found : \A j \in found : i <= j]

Offer(d, days, notionals, rates, currencies) ==
  [family |-> d.family, by |-> d.by, start |-> d.start, days |-> days, types |-> <<>>,
   notionals |-> notionals, rates |-> rates, currencies |-> currencies]

\* The IRS proposal has a tenor in place of a maturity, D30, D90, D180 or Y1,
\* which tenorToDays makes days of again.
Tenor(days) ==
  IF days =< 45 THEN 30
  ELSE IF days =< 135 THEN 91
  ELSE IF days =< 270 THEN 182
  ELSE 365

IrsPayload(d) ==
  LET fixed == Find(d, {"fixed"})
  IN Offer(d, Tenor(d.days), <<fixed.notional>>, <<fixed.rate>>, <<>>)

\* Mutant of OisPayload: the term of an OIS becomes a tenor as that of an IRS.
OisByTenor(d) ==
  LET fixed == Find(d, {"fixed"})
  IN Offer(d, Tenor(d.days), <<fixed.notional>>, <<fixed.rate>>, <<>>)

OisPayload(d) ==
  LET fixed == Find(d, {"fixed"})
  IN Offer(d, d.days, <<fixed.notional>>, <<fixed.rate>>, <<>>)

BasisPayload(d) ==
  Offer(d, d.days, <<d.legs[1].notional>>, <<d.legs[1].rate, d.legs[2].rate>>,
        d.legs[1].currencies)

XccyPayload(d) ==
  LET fixed == Find(d, {"fixed"})
      float == Find(d, {"float"})
  IN Offer(d, d.days, <<fixed.notional, float.notional>>, <<fixed.rate>>,
           fixed.currencies \o float.currencies)

CdsPayload(d) ==
  Offer(d, d.days, <<Find(d, {"protection"}).notional>>, <<Find(d, {"fixed"}).rate>>, <<>>)

\* The rates' third is the constant fxRate of the payload.
CcyPayload(d) ==
  Offer(d, d.days, <<d.legs[1].notional>>, <<d.legs[1].rate, d.legs[2].rate, 10800>>,
        d.legs[1].currencies \o d.legs[2].currencies)

FxPayload(d) ==
  Offer(d, d.days, <<d.legs[1].notional>>, <<d.legs[1].rate, d.legs[2].rate>>,
        d.legs[1].currencies)

\* A floating leg has a spread and no rate.
AssetPayload(d) ==
  LET rateLeg == Find(d, {"fixed", "float"})
      rate == IF rateLeg.type = "fixed" THEN rateLeg.rate ELSE 0
  IN Offer(d, d.days, <<Find(d, {"asset"}).notional>>, <<rate>>, <<>>)

\* An FpML proposal keeps its streams, with a rate or a spread each.
FpmlPayload(d) ==
  [Offer(d, d.days, [i \in DOMAIN d.legs |-> d.legs[i].notional],
         [i \in DOMAIN d.legs |-> d.legs[i].rate],
         [i \in DOMAIN d.legs |-> d.legs[i].currencies[1]])
     EXCEPT !.types = [i \in DOMAIN d.legs |-> d.legs[i].type]]

\* proposeCsa; a leg stands for each of its five amounts.
CsaPayload(d) == Offer(d, d.days, [i \in DOMAIN d.legs |-> d.legs[i].notional], <<>>, <<>>)

\* buildProposalPayload
Payload(d) ==
  CASE d.family = "IRS" -> IrsPayload(d)
    [] d.family = "OIS" -> OisPayload(d)
    [] d.family = "BASIS" -> BasisPayload(d)
    [] d.family = "XCCY" -> XccyPayload(d)
    [] d.family = "CDS" -> CdsPayload(d)
    [] d.family = "CCY" -> CcyPayload(d)
    [] d.family = "FX" -> FxPayload(d)
    [] d.family = "ASSET" -> AssetPayload(d)
    [] d.family = "FpML" -> FpmlPayload(d)
    [] d.family = "CSA" -> CsaPayload(d)

\* Mutant of Refused: the FX family is not compared with the configuration.
RefusedFewer(q) ==
  \/ q.family \in {"XCCY", "CCY"} /\ ~(Range(q.currencies) \subseteq Currencies)
  \/ q.family = "XCCY" /\ q.currencies[1] = q.currencies[2]

\* What the workspace refuses to send: the three families that check the
\* configured currencies, and two equal currencies.
Refused(q) ==
  \/ q.family \in {"XCCY", "CCY", "FX"} /\ ~(Range(q.currencies) \subseteq Currencies)
  \/ q.family = "XCCY" /\ q.currencies[1] = q.currencies[2]

-----------------------------------------------------------------------------
(* The workspace: from a proposal's payload to the legs it shows.          *)

Shows(q, family, days, legs) ==
  [family |-> family, by |-> q.by, start |-> q.start, days |-> days, legs |-> legs]

\* hydrateIrs and hydrateOis; the days of an IRS are those of its tenor.
FixedFloatPreview(q) ==
  Shows(q, q.family, q.days,
        <<PlainLeg("fixed", "USD", q.notionals[1], q.rates[1]),
          PlainLeg("float", "USD", q.notionals[1], 0)>>)

BasisLegs(q) ==
  LET leg(spread) == PlainLeg("float", q.currencies[1], q.notionals[1], spread)
  IN <<leg(q.rates[1]), leg(q.rates[2])>>

BasisPreview(q) == Shows(q, "BASIS", q.days, BasisLegs(q))

CdsPreview(q) ==
  Shows(q, "CDS", q.days,
        <<PlainLeg("fixed", "USD", q.notionals[1], q.rates[1]),
          BareLeg("protection", q.notionals[1])>>)

CcyPreview(q) ==
  Shows(q, "CCY", q.days,
        <<PlainLeg("fixed", q.currencies[1], q.notionals[1], q.rates[1]),
          PlainLeg("fixed", q.currencies[2], (q.notionals[1] * q.rates[3]) \div Whole,
                   q.rates[2])>>)

\* HYDRATORS gives an XCCY proposal to hydrateCcy, which finds none of the
\* fields it looks for and takes its defaults.
XccyPreview(q) ==
  CcyPreview([q EXCEPT !.notionals = <<0>>, !.rates = <<400, 350, Whole>>,
                       !.currencies = <<"USD", "EUR">>])

\* Mutant of FxPreview: the far leg shows the near leg's rate.
FxPreviewNear(q) ==
  Shows(q, "FX", q.days, FxLegs(q.currencies, q.notionals[1], q.rates[1], q.rates[1]))

FxPreview(q) ==
  Shows(q, "FX", q.days, FxLegs(q.currencies, q.notionals[1], q.rates[1], q.rates[2]))

AssetPreview(q) ==
  Shows(q, "ASSET", q.days,
        <<BareLeg("asset", q.notionals[1]),
          PlainLeg("fixed", "USD", q.notionals[1], q.rates[1])>>)

FpmlLegs(q) ==
  [i \in DOMAIN q.notionals |->
     PlainLeg(q.types[i], q.currencies[i], q.notionals[i], q.rates[i])]

FpmlPreview(q) == Shows(q, "FpML", q.days, FpmlLegs(q))

\* hydrateProposalPayload
Preview(q) ==
  CASE q.family \in {"IRS", "OIS"} -> FixedFloatPreview(q)
    [] q.family = "BASIS" -> BasisPreview(q)
    [] q.family = "XCCY" -> XccyPreview(q)
    [] q.family = "CDS" -> CdsPreview(q)
    [] q.family = "CCY" -> CcyPreview(q)
    [] q.family = "FX" -> FxPreview(q)
    [] q.family = "ASSET" -> AssetPreview(q)
    [] q.family = "FpML" -> FpmlPreview(q)

\* The swapType of the page that shows a proposal; that of a CSA has its own.
ShownFamily(q) == IF q.family = "CSA" THEN "CSA" ELSE Preview(q).family

-----------------------------------------------------------------------------
(* The ensure clauses.                                                     *)

Fraction(rate) == 0 < rate /\ rate < Whole

IrsEnsure(q) == q.notionals[1] > 0 /\ Fraction(q.rates[1])

OisEnsure(q) == q.notionals[1] > 0 /\ Fraction(q.rates[1]) /\ q.days > 0

BasisEnsure(q) == q.notionals[1] > 0 /\ q.days > 0

XccyEnsure(q) ==
  /\ q.notionals[1] > 0
  /\ q.notionals[2] > 0
  /\ q.days > 0
  /\ q.currencies[1] # q.currencies[2]

CdsEnsure(q) == q.notionals[1] > 0 /\ Fraction(q.rates[1])

CcyEnsure(q) == q.notionals[1] > 0 /\ q.rates[3] > 0 /\ q.currencies[1] # q.currencies[2]

FxEnsure(q) ==
  /\ q.notionals[1] > 0
  /\ q.rates[1] > 0
  /\ q.rates[2] > 0
  /\ q.currencies[1] # q.currencies[2]

AssetEnsure(q) == q.notionals[1] > 0

FpmlEnsure(q) == Len(q.notionals) > 0

CsaEnsure(q) == \A i \in DOMAIN q.notionals : q.notionals[i] >= 0

Ensures(q) ==
  CASE q.family = "IRS" -> IrsEnsure(q)
    [] q.family = "OIS" -> OisEnsure(q)
    [] q.family = "BASIS" -> BasisEnsure(q)
    [] q.family = "XCCY" -> XccyEnsure(q)
    [] q.family = "CDS" -> CdsEnsure(q)
    [] q.family = "CCY" -> CcyEnsure(q)
    [] q.family = "FX" -> FxEnsure(q)
    [] q.family = "ASSET" -> AssetEnsure(q)
    [] q.family = "FpML" -> FpmlEnsure(q)
    [] q.family = "CSA" -> CsaEnsure(q)

-----------------------------------------------------------------------------
(* Acceptance: the indices the workspace sends along, and what the choice  *)
(* and the factory need.                                                   *)

IndicesOf(currency) == {i \in Indices : IndexCurrency[i] = currency}

\* exerciseProposalChoice: any index of USD for three families, whichever the
\* query returns first, and those of the default legs for two, whatever the
\* proposal at hand says.
IndexArguments(family) ==
  CASE family \in {"IRS", "OIS", "ASSET"} -> {<<i>> : i \in IndicesOf("USD")}
    [] family \in {"BASIS", "XCCY"} -> {DefaultIndices(family)}
    [] OTHER -> {<<>>}

\* lastRegularEndFor finds the last whole period within the term; when there
\* is none, Daml Finance rejects the schedule.
Fits(q) == q.family \in DOMAIN FirstPeriod => q.days >= FirstPeriod[q.family]

IrsAcceptable(q, args) == Range(args) \subseteq Indices /\ "IRS" \in Scheduled /\ Fits(q)

OisAcceptable(q, args) == Range(args) \subseteq Indices /\ "OIS" \in Scheduled /\ Fits(q)

AssetAcceptable(q, args) == Range(args) \subseteq Indices /\ "ASSET" \in Scheduled /\ Fits(q)

BasisAcceptable(q, args) ==
  /\ Range(args) \subseteq Indices
  /\ IndexCurrency[args[1]] = q.currencies[1]
  /\ IndexCurrency[args[2]] = q.currencies[1]
  /\ q.currencies[1] \in Currencies
  /\ "BASIS" \in Scheduled

\* Mutant of XccyAcceptable: the assertion on the index's currency is missing.
XccyUnchecked(q, args) ==
  /\ Range(args) \subseteq Indices
  /\ Range(q.currencies) \subseteq Currencies
  /\ "XCCY" \in Scheduled

XccyAcceptable(q, args) ==
  /\ Range(args) \subseteq Indices
  /\ IndexCurrency[args[1]] = q.currencies[2]
  /\ Range(q.currencies) \subseteq Currencies
  /\ "XCCY" \in Scheduled

CdsAcceptable(q) == "CDS" \in Scheduled /\ Fits(q)

CcyAcceptable(q) ==
  Range(q.currencies) \subseteq Currencies /\ "CCY" \in Scheduled /\ Fits(q)

FxAcceptable(q) == Range(q.currencies) \subseteq Currencies

FpmlAcceptable(q) == Range(q.currencies) \subseteq Currencies /\ "FPML" \in Scheduled

Acceptable(q, args) ==
  CASE q.family = "IRS" -> IrsAcceptable(q, args)
    [] q.family = "OIS" -> OisAcceptable(q, args)
    [] q.family = "BASIS" -> BasisAcceptable(q, args)
    [] q.family = "XCCY" -> XccyAcceptable(q, args)
    [] q.family = "CDS" -> CdsAcceptable(q)
    [] q.family = "CCY" -> CcyAcceptable(q)
    [] q.family = "FX" -> FxAcceptable(q)
    [] q.family = "ASSET" -> AssetAcceptable(q, args)
    [] q.family = "FpML" -> FpmlAcceptable(q)
    [] q.family = "CSA" -> TRUE

\* The notional in the instrument's id, and the workflow's.
Notional(q) == IF q.family = "FpML" THEN SumFunction(q.notionals) ELSE q.notionals[1]

\* The id under which the factory registers the instrument.
InstrumentId(q) == <<q.family, q.by, q.start, Notional(q)>>

\* The currency of each of its floating legs that have an index of their own.
FloatingCurrencies(q) ==
  CASE q.family \in {"IRS", "OIS", "ASSET"} -> <<DefaultCurrency>>
    [] q.family = "BASIS" -> <<q.currencies[1], q.currencies[1]>>
    [] q.family = "XCCY" -> <<q.currencies[2]>>
    [] OTHER -> <<>>

-----------------------------------------------------------------------------
(* The workspace: from a swap's instrument and workflow to the legs its    *)
(* page shows (hydrate-workflow-legs.ts).  An instrument has the terms of  *)
(* its proposal, and the default currency where that has none.             *)

FixedFloatLive(q) ==
  Shows(q, q.family, q.days,
        <<PlainLeg("fixed", DefaultCurrency, q.notionals[1], q.rates[1]),
          PlainLeg("float", DefaultCurrency, q.notionals[1], 0)>>)

CdsLive(q) ==
  Shows(q, "CDS", q.days,
        <<PlainLeg("fixed", DefaultCurrency, q.notionals[1], q.rates[1]),
          BareLeg("protection", q.notionals[1])>>)

\* As the page of a proposal makes its foreign notional, and as that of an FX
\* proposal shows its two rates.
CcyLive(q) == CcyPreview(q)

FxLive(q) == FxPreview(q)

\* The instrument of an acceptance always has a floating rate.
AssetLive(q) ==
  Shows(q, "ASSET", q.days,
        <<BareLeg("asset", q.notionals[1]), PlainLeg("float", DefaultCurrency, q.notionals[1], 0)>>)

\* legToSwapStream, of the legs BasisAccept, XccyAccept and FpmlAccept make.
Streams(q) ==
  CASE q.family = "BASIS" -> BasisLegs(q)
    [] q.family = "XCCY" -> <<PlainLeg("fixed", q.currencies[1], q.notionals[1], q.rates[1]),
                              PlainLeg("float", q.currencies[2], q.notionals[2], 0)>>
    [] q.family = "FpML" -> FpmlLegs(q)

FpmlLive(q) == Shows(q, q.family, q.days, Streams(q))

\* hydrateWorkflowPayload
Live(q) ==
  CASE q.family \in {"IRS", "OIS"} -> FixedFloatLive(q)
    [] q.family = "CDS" -> CdsLive(q)
    [] q.family = "CCY" -> CcyLive(q)
    [] q.family = "FX" -> FxLive(q)
    [] q.family = "ASSET" -> AssetLive(q)
    [] q.family \in {"BASIS", "XCCY", "FpML"} -> FpmlLive(q)

=============================================================================
