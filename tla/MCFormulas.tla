---------------------------- MODULE MCFormulas -----------------------------
(***************************************************************************)
(* The formulas of the system over small inputs: the margin arithmetic,    *)
(* each state one set of arguments, and the valuation of the swaps of a    *)
(* netting set as days pass and fixings are published.                     *)
(***************************************************************************)
EXTENDS MarginCalls, SwapValues, TLC

vars == <<marginVars, valuesVars>>

MCMarked == -8..8

MCAgreed == [balance : {-3, 0, 2}, thr : [Parties -> 0..2], mta : {0, 1, 3}, rounding : {0, 2, 3, 4}]

-----------------------------------------------------------------------------
Day(m, d) == FirstOf(m) + d - 1

\* Terms that end on a regular date, in a stub, and that a short month cuts.
Terms == {[start |-> Day(1, 15), end |-> Day(7, 15)],
          [start |-> Day(2, 10), end |-> Day(14, 20)],
          [start |-> Day(11, 30), end |-> Day(17, 30)]}

Fixed(currency, notional, rate, dayCount) ==
  [legType |-> "fixed", currency |-> currency, notional |-> notional, rate |-> rate,
   dayCount |-> dayCount]

Float(indexId, notional, spread, dayCount) ==
  [legType |-> "float", currency |-> IF indexId = "ESTR" THEN "EUR" ELSE "USD",
   notional |-> notional, indexId |-> indexId, spread |-> spread,
   dayCount |-> dayCount, rate |-> 0]

FxSide(notional, rate, date) ==
  [legType |-> "fx", currency |-> "EUR", notional |-> notional, rate |-> rate,
   paymentDate |-> date, dayCount |-> "Act360"]

AssetSide == [legType |-> "asset", notional |-> 2, return |-> 0, dayCount |-> "Act360"]

\* Two sides for each type, those of one InterestRate instrument of one day count.
Sides(term) ==
  {[swapType |-> "IRS", streams |-> <<Fixed("USD", 2, 4, dc), Float("SOFR", 2, 0, dc)>>] :
     dc \in {"Act360", "Act365Fixed", "Basis30360"}}
  \cup {[swapType |-> "OIS",
         streams |-> <<Fixed("USD", 2, 4, "Act360"), Float("SOFR", 2, 0, "Act360")>>],
        [swapType |-> "BASIS",
         streams |-> <<Float("SOFR", 2, 0, "Act360"), Float("EFFR", 2, 1, "Act360")>>]}
  \cup {[swapType |-> "XCCY", streams |-> s] :
         s \in {<<Fixed("USD", 4, 4, "Basis30360"), Float("ESTR", 2, 1, "Act360")>>,
                <<Float("ESTR", 2, 0, "Act360"), Fixed("USD", 4, 3, "Act365Fixed")>>}}
  \cup {[swapType |-> "FpML", streams |-> s] :
         s \in {<<Float("SOFR", 3, 1, "Act360"), Fixed("USD", 3, 5, "Act360")>>,
                <<Fixed("USD", 3, 5, "ActActISDA"), Float("SOFR", 3, 1, "Act360")>>,
                <<Float("SOFR", 3, 0, "Act360"), Float("EFFR", 3, 1, "Act360")>>}}
  \cup {[swapType |-> "CCY",
         streams |-> <<Fixed("EUR", 1, 3, "Act360"), Fixed("USD", 2, 4, "Act360")>>],
        [swapType |-> "FX",
         streams |-> <<FxSide(2, 2, term.start), FxSide(2, 3, term.end)>>]}
  \cup {[swapType |-> "ASSET", streams |-> <<AssetSide, rateSide>>] :
         rateSide \in {Fixed("USD", 2, 4, "Act360"), Float("SOFR", 2, 0, "Act360")}}

Swap(term, sides) ==
  [start |-> term.start, end |-> term.end, partyA |-> PartyA, ownerReceives |-> sides.streams[1].dayCount # "Basis30360",
   swapType |-> sides.swapType, streams |-> sides.streams]

Swaps == UNION {{Swap(t, s) : s \in Sides(t)} : t \in Terms}

\* bound: two markets, one with a lookback and a projection off the discount curve
Conventions == {[lookback |-> 0, projected |-> 3], [lookback |-> 2, projected |-> 2]}

\* bound: the days on which something is due, the eve of each and one in between
DaysOf(swap) ==
  UNION {{due - 1, due, due + 40} :
           due \in LedgerEnds(ScheduleOf(swap, "Quarterly")) \cup {swap.start}}

MCTrades ==
  {[swap |-> s, conventions |-> c, days |-> DaysOf(s)] : s \in Swaps, c \in Conventions}

\* Fixings come out every other week, all on the days one of the terms starts by.
Published == {d \in 1..Day(19, 1) : d % 14 = 1}

MCMarketOn(conventions, day) ==
  LET fixings == [d \in {p \in Published : p <= day} |-> d % 4]
      index(id) == [indexId |-> id, family |-> IF id = "ESTR" THEN "ESTR" ELSE "SOFR",
                    lookback |-> conventions.lookback, floor |-> 1]
      ids == {"SOFR", "EFFR", "ESTR"}
  IN [asOf |-> day, rate |-> 3, lastPillar |-> 500, firstIndex |-> "SOFR",
      indices |-> [id \in ids |-> index(id)],
      fixings |-> [id \in ids |-> IF id = "EFFR" THEN [d \in DOMAIN fixings |-> 2] ELSE fixings],
      book |-> [USD |-> [SOFR |-> conventions.projected, EFFR |-> 2], EUR |-> [ESTR |-> 2]],
      fxSpots |-> <<"EUR", "USD">> :> 2]

-----------------------------------------------------------------------------
Init ==
  \/ MarginInit /\ trade = NoTrade /\ now = 0
  \/ exposure = 0 /\ agreed = (CHOOSE a \in Agreed : TRUE) /\ ValuesInit

ExposureMoves == trade = NoTrade /\ Marks /\ UNCHANGED valuesVars

TimeMoves == DaysPass /\ UNCHANGED marginVars

Next == ExposureMoves \/ TimeMoves

Spec == Init /\ [][Next]_vars

=============================================================================
