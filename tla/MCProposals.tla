---------------------------- MODULE MCProposals -----------------------------
(***************************************************************************)
(* The default legs of each family and, beside them, what the conditions   *)
(* of SwapTerms tell apart: unconfigured currencies, equal ones, legs of   *)
(* different currencies or notionals, a rate of zero, a negative amount, a *)
(* short and a long IRS, the same trade at another rate and term.          *)
(***************************************************************************)
EXTENDS Proposals

MCIndexCurrency == [i \in {"USD-SOFR", "USD-EFFR", "EUR-ESTR"} |->
                      IF i = "EUR-ESTR" THEN "EUR" ELSE "USD"]

Entered(family, days, legs) ==
  [family |-> family, by |-> "A", start |-> 0, days |-> days, legs |-> legs]

Default(family) == Entered(family, 365, DefaultLegs(family))

FixedFloat(family, currency, days, rate) ==
  Entered(family, days, <<PlainLeg("fixed", currency, 50, rate), PlainLeg("float", currency, 50, 0)>>)

Regular ==
  {Default(f) : f \in SwapFamilies \ {"FpML", "OIS", "FX"}} \union
  {FixedFloat("IRS", "USD", 3650, 300), FixedFloat("OIS", "USD", 730, 400),
   Entered("FpML", 365, <<PlainLeg("fixed", "USD", 50, 0), PlainLeg("float", "EUR", 45, 25)>>),
   Entered("CSA", 0, <<PlainLeg("mta", "USD", 1, 0)>>)}

Irregular ==
  {FixedFloat("IRS", "USD", 365, 0),
   Entered("IRS", 30, <<PlainLeg("fixed", "USD", 50, 400), PlainLeg("float", "USD", 60, 0)>>),
   Entered("CDS", 365, <<PlainLeg("fixed", "EUR", 50, 100), BareLeg("protection", 10)>>),
   [Default("OIS") EXCEPT !.by = "C"],
   Entered("BASIS", 365, <<PlainLeg("float", "EUR", 50, 0), PlainLeg("float", "USD", 45, 5)>>),
   Entered("XCCY", 365, <<PlainLeg("fixed", "EUR", 50, 400), PlainLeg("float", "USD", 45, 0)>>),
   Entered("XCCY", 365, <<PlainLeg("fixed", "USD", 50, 400), PlainLeg("float", "GBP", 45, 0)>>),
   Entered("CCY", 365, <<PlainLeg("fixed", "USD", 50, 400), PlainLeg("fixed", "USD", 45, 350)>>),
   Entered("FX", 365, FxLegs(<<"USD", "GBP">>, 10, 10800, 10850)),
   Entered("FX", 365, <<FxLegs(<<"USD", "EUR">>, 10, 10800, 10850)[1],
                        FxLegs(<<"EUR", "USD">>, 20, 10800, 10850)[2]>>),
   Entered("FX", 365, FxLegs(<<"USD", "USD">>, 10, 10800, 10850)),
   Entered("FpML", 365, <<PlainLeg("fixed", "GBP", 10, 400)>>), Default("FpML"),
   Entered("CSA", 0, <<PlainLeg("mta", "USD", -1, 0)>>)}

MCDrafts == Regular \union Irregular

MCScheduled == {"IRS", "OIS", "BASIS", "XCCY", "CDS", "CCY", "ASSET", "FPML"}

MCFirstPeriod == [f \in {"IRS", "OIS", "CDS", "CCY", "ASSET"} |-> IF f = "OIS" THEN 365 ELSE 91]

=============================================================================
