---------------------------- MODULE OracleProofs ----------------------------
(***************************************************************************)
(* Proofs about the oracle service: what it puts on the ledger, of any     *)
(* number of indices, curves, runs and requests at a time, attempts and    *)
(* days (OracleFeed), and what starts its publisher's ticks, for every     *)
(* debounce, period, backoff, number of swaps and set of connection chains *)
(* (MarkTrigger).                                                          *)
(*                                                                         *)
(* The ledger only grows (LedgerGrows), so a fact about it that a step of  *)
(* main() or of a publication established still holds at its next step:    *)
(* Seeding, Published and Windowed say which fact that is at each step.    *)
(* The properties of the trigger rest on each other: what the coalescer    *)
(* promises needs its mutex (Mutex) and that the stops hold (StopTakes);   *)
(* that pushed swaps reach a tick needs that one chain carries them        *)
(* (OneChain).                                                             *)
(***************************************************************************)
EXTENDS OracleFeed, MarkTrigger, TLAPS

Stages == {"down", "indices", "curves", "spot", "window", "serving"}
Steps == {"idle", "fetch", "fixings", "discount", "projection"}

\* Every variable stays within its type.
TypeOK ==
  /\ today \in 1..MaxDay
  /\ indices \subseteq Indices
  /\ spot \in Rates \union {"none"}
  /\ curve \in [Curves -> Days \union {Never}]
  /\ snapshots \subseteq Curves \X Days
  /\ fixings \subseteq Days
  /\ posted \subseteq Indices \X Days
  /\ filled \in [Indices \X Days -> 0..2]
  /\ stage \in Stages
  /\ todo \subseteq Indices \union Stubbed
  /\ wanted \in Rates \union {"none"}
  /\ windowDay \in 1..MaxDay
  /\ index \in Indices \union {Nobody}
  /\ missing \subseteq Days
  /\ complete \in BOOLEAN
  /\ at \in [Publishers -> Steps]
  /\ date \in [Publishers -> Days]
  /\ tries \in [Publishers -> 0..Attempts - 1]
  /\ lastSuccess \in Days \union {Never}
  /\ failing \in BOOLEAN

LedgerTypeOK ==
  /\ indices \subseteq Indices
  /\ spot \in Rates \union {"none"}
  /\ curve \in [Curves -> Days \union {Never}]
  /\ snapshots \subseteq Curves \X Days
  /\ fixings \subseteq Days
  /\ posted \subseteq Indices \X Days
  /\ filled \in [Indices \X Days -> 0..2]

BootTypeOK ==
  /\ stage \in Stages
  /\ todo \subseteq Indices \union Stubbed
  /\ wanted \in Rates \union {"none"}
  /\ windowDay \in 1..MaxDay
  /\ index \in Indices \union {Nobody}
  /\ missing \subseteq Days
  /\ complete \in BOOLEAN

PublicationTypeOK ==
  /\ at \in [Publishers -> Steps]
  /\ date \in [Publishers -> Days]
  /\ tries \in [Publishers -> 0..Attempts - 1]
  /\ lastSuccess \in Days \union {Never}
  /\ failing \in BOOLEAN

-----------------------------------------------------------------------------
(* The type invariant.                                                     *)

LEMMA DaysOfTheModel ==
  /\ 1 \in Days /\ 1..MaxDay \subseteq Days /\ Never \notin Days
  /\ \A asOf \in 1..MaxDay : WindowOf(asOf) \subseteq Days
BY FeedAssumption DEF Days, Never, WindowOf

LEMMA DieTypeOK ==
  ASSUME TypeOK, Die
  PROVE  BootTypeOK' /\ PublicationTypeOK'
<1>1. at' \in [Publishers -> Steps] /\ date' \in [Publishers -> Days]
  BY DaysOfTheModel DEF Die, Steps
<1>2. 0 \in 0..Attempts - 1 /\ 1 \in 1..MaxDay
  BY FeedAssumption
<1>3. tries' \in [Publishers -> 0..Attempts - 1]
  BY <1>2 DEF Die
<1>4. PublicationTypeOK'
  BY <1>1, <1>3 DEF Die, PublicationTypeOK
<1>5. BootTypeOK'
  BY <1>2 DEF Die, BootTypeOK, Stages, TypeOK
<1> QED
  BY <1>4, <1>5

LEMMA NextLedgerTypeOK ==
  ASSUME TypeOK, [Next]_vars
  PROVE  LedgerTypeOK'
<1> USE DEF TypeOK, LedgerTypeOK
<1>1. ASSUME NEW took, NEW c \in Curves, NEW d \in Days, PublishIf(took, c, d),
             UNCHANGED <<indices, spot, posted, filled>>, fixings' = fixings
      PROVE  LedgerTypeOK'
  BY <1>1 DEF PublishIf, PublishOnLedger
<1>2. Stubbed \subseteq Curves /\ Discount \in Curves /\ Projection \in Curves /\ today \in Days
  BY DaysOfTheModel DEF Curves
<1>3. ASSUME NEW c \in Stubbed, NEW answer \in Answers, SeedCurve(c, answer)
      PROVE  LedgerTypeOK'
  BY <1>1, <1>2, <1>3 DEF SeedCurve
<1>11. ASSUME NEW c \in Stubbed, TickCurve(c) PROVE LedgerTypeOK'
  BY <1>2, <1>11 DEF TickCurve, PublishOnLedger
<1>4. ASSUME NEW p \in Publishers, NEW answer \in Answers,
             PublishDiscount(p, answer) \/ PublishProjection(p, answer)
      PROVE  LedgerTypeOK'
  BY <1>1, <1>2, <1>4 DEF PublishDiscount, PublishProjection
<1>5. ASSUME NEW p \in Publishers, NEW answer \in Answers, PublishFixings(p, answer)
      PROVE  LedgerTypeOK'
  BY <1>5 DEF PublishFixings
<1>6. ASSUME NEW i \in Indices, NEW answer \in Answers, SeedIndex(i, answer)
      PROVE  LedgerTypeOK'
  BY <1>6 DEF SeedIndex
<1>7. ASSUME NEW answer \in Answers, SeedSpot(answer) PROVE LedgerTypeOK'
  BY <1>7 DEF SeedSpot
<1>8. ASSUME NEW d \in missing, NEW answer \in Answers, Observe(d, answer)
      PROVE  LedgerTypeOK'
  <2> DEFINE k == <<index, d>>
  <2>1. \/ filled' = filled
        \/ filled[k] < 2 /\ filled' = [filled EXCEPT ![k] = filled[k] + 1]
    BY <1>8 DEF Observe
  <2> HIDE DEF k
  <2>2. filled' \in [Indices \X Days -> 0..2]
    BY <2>1
  <2> QED
    BY <1>8, <2>2 DEF Observe
<1>9. ASSUME NEW i \in Indices, NEW d \in Days, PostRate(i, d) PROVE LedgerTypeOK'
  BY <1>9 DEF PostRate
<1>10. ASSUME UNCHANGED ledgerVars PROVE LedgerTypeOK'
  BY <1>10 DEF ledgerVars
<1> HIDE DEF LedgerTypeOK
<1> QED
  BY <1>3, <1>4, <1>5, <1>6, <1>7, <1>8, <1>9, <1>10, <1>11
  DEF Next, Boot, SkipSpot, WindowFails, Crash, Midnight, ListIndex, Begin, Step, Fetch, vars

LEMMA NextBootTypeOK ==
  ASSUME TypeOK, [Next]_vars
  PROVE  BootTypeOK'
<1> USE DEF TypeOK, BootTypeOK
<1>1. ASSUME NEW left \in SUBSET todo, NEW next \in Stages,
             NEW items \in SUBSET (Indices \union Stubbed),
             Proceed(left, next, items), UNCHANGED <<wanted, windowDay, index, missing, complete>>
      PROVE  BootTypeOK'
  BY <1>1 DEF Proceed
<1>2. ASSUME NEW i \in Indices, NEW answer \in Answers, SeedIndex(i, answer)
      PROVE  BootTypeOK'
  BY <1>1, <1>2 DEF SeedIndex, Stages
<1>3. ASSUME NEW c \in Stubbed, NEW answer \in Answers, SeedCurve(c, answer)
      PROVE  BootTypeOK'
  <2>1. CASE answer = "ok"
    <3>1. /\ Proceed(todo \ {c}, "spot", {})
          /\ UNCHANGED <<wanted, windowDay, index, missing, complete>>
      BY <1>3, <2>1 DEF SeedCurve
    <3>2. /\ todo \ {c} \in SUBSET todo /\ "spot" \in Stages
          /\ {} \in SUBSET (Indices \union Stubbed)
      BY DEF Stages
    <3> QED
      BY <1>1, <3>1, <3>2
  <2>2. CASE answer # "ok"
    BY <1>3, <2>2, DieTypeOK DEF SeedCurve
  <2> QED
    BY <2>1, <2>2
<1>4. ASSUME ToWindow, UNCHANGED <<wanted, index, missing, complete>> PROVE BootTypeOK'
  BY <1>4 DEF ToWindow, Stages
<1>5. ASSUME NEW answer \in Answers, SeedSpot(answer) PROVE BootTypeOK'
  BY <1>4, <1>5, DieTypeOK DEF SeedSpot
<1>6. ASSUME NEW b \in BOOLEAN, ToServing(b), UNCHANGED <<wanted, windowDay>> PROVE BootTypeOK'
  BY <1>6 DEF ToServing, Stages
<1>7. ASSUME NEW i, IndexDone(i), UNCHANGED <<wanted, windowDay>> PROVE BootTypeOK'
  <2>1. CASE todo = {i}
    BY <1>6, <1>7, <2>1 DEF IndexDone
  <2>2. CASE todo # {i}
    BY <1>7, <2>2 DEF IndexDone
  <2> QED
    BY <2>1, <2>2
<1>8. ASSUME NEW i \in Indices, ListIndex(i) PROVE BootTypeOK'
  <2>1. MissingDays(i) \subseteq Days
    BY DaysOfTheModel DEF MissingDays
  <2>2. CASE i \notin Provided \/ MissingDays(i) = {}
    BY <1>7, <1>8, <2>2 DEF ListIndex
  <2>3. CASE i \in Provided /\ MissingDays(i) # {}
    BY <1>8, <2>1, <2>3 DEF ListIndex
  <2> QED
    BY <2>2, <2>3
<1>9. ASSUME NEW d \in missing, NEW answer \in Answers, Observe(d, answer)
      PROVE  BootTypeOK'
  <2>1. UNCHANGED <<wanted, windowDay>>
    BY <1>9 DEF Observe
  <2>2. CASE answer # "ok"
    BY <1>6, <1>9, <2>1, <2>2 DEF Observe
  <2>3. CASE answer = "ok" /\ missing = {d}
    BY <1>7, <1>9, <2>1, <2>3 DEF Observe
  <2>4. CASE answer = "ok" /\ missing # {d}
    <3>1. missing' = missing \ {d} /\ UNCHANGED <<stage, todo, index, complete>>
      BY <1>9, <2>4 DEF Observe
    <3> QED
      BY <2>1, <3>1
  <2> QED
    BY <2>2, <2>3, <2>4
<1>10. ASSUME Boot PROVE BootTypeOK'
  BY <1>10 DEF Boot, Stages
<1>11. ASSUME SkipSpot PROVE BootTypeOK'
  BY <1>4, <1>11 DEF SkipSpot
<1>12. ASSUME WindowFails PROVE BootTypeOK'
  BY <1>6, <1>12 DEF WindowFails
<1>13. ASSUME Crash PROVE BootTypeOK'
  BY <1>13, DieTypeOK DEF Crash
<1>14. ASSUME UNCHANGED bootVars PROVE BootTypeOK'
  BY <1>14 DEF bootVars
<1> HIDE DEF BootTypeOK
<1> QED
  BY <1>2, <1>3, <1>5, <1>8, <1>9, <1>10, <1>11, <1>12, <1>13, <1>14
  DEF Next, Midnight, TickCurve, PostRate, Begin, Step, Fetch, PublishFixings,
      PublishDiscount, PublishProjection, vars

LEMMA NextPublicationTypeOK ==
  ASSUME TypeOK, [Next]_vars
  PROVE  PublicationTypeOK'
<1> USE DEF TypeOK, PublicationTypeOK
<1>1. ASSUME NEW p \in Publishers, End(p), lastSuccess' \in {lastSuccess, date[p]},
             failing' \in BOOLEAN
      PROVE  PublicationTypeOK'
  <2>1. 0 \in 0..Attempts - 1
    BY FeedAssumption
  <2>2. at' \in [Publishers -> Steps] /\ date' \in [Publishers -> Days]
    BY <1>1, DaysOfTheModel DEF End, Steps
  <2>3. tries' \in [Publishers -> 0..Attempts - 1]
    BY <1>1, <2>1 DEF End
  <2>4. lastSuccess' \in Days \union {Never}
    BY <1>1
  <2> QED
    BY <1>1, <2>2, <2>3, <2>4
<1>2. ASSUME NEW p \in Publishers, Fails(p) PROVE PublicationTypeOK'
  <2>1. CASE tries[p] + 1 < Attempts /\ StartsAfresh(p) /\ tries' = [tries EXCEPT ![p] = @ + 1]
    <3>1. tries[p] + 1 \in 0..Attempts - 1
      BY <2>1, FeedAssumption
    <3>2. tries' \in [Publishers -> 0..Attempts - 1]
      BY <2>1, <3>1
    <3>3. at' \in [Publishers -> Steps]
      BY <2>1 DEF StartsAfresh, Steps
    <3> QED
      BY <2>1, <3>2, <3>3 DEF StartsAfresh
  <2>2. CASE End(p) /\ failing' = TRUE /\ UNCHANGED lastSuccess
    BY <1>1, <2>2
  <2>3. CASE End(p) /\ UNCHANGED <<lastSuccess, failing>>
    BY <1>1, <2>3
  <2> QED
    BY <1>2, <2>1, <2>2, <2>3 DEF Fails
<1>3. ASSUME NEW p \in Publishers, Succeeds(p) PROVE PublicationTypeOK'
  <2>1. failing' \in BOOLEAN
    BY <1>3 DEF Succeeds
  <2>2. lastSuccess' \in {lastSuccess, date[p]} /\ End(p)
    BY <1>3 DEF Succeeds
  <2> QED
    BY <1>1, <2>1, <2>2
<1>4. ASSUME NEW p \in Publishers, NEW next \in Steps, GoTo(p, next) PROVE PublicationTypeOK'
  BY <1>4 DEF GoTo
<1>5. /\ "fixings" \in Steps /\ "discount" \in Steps /\ "projection" \in Steps
  BY DEF Steps
<1>6. ASSUME NEW p \in Publishers, Step(p) PROVE PublicationTypeOK'
  BY <1>2, <1>3, <1>4, <1>5, <1>6
  DEF Step, Fetch, PublishFixings, PublishDiscount, PublishProjection
<1>7. ASSUME NEW p \in Publishers, NEW d \in Days, Begin(p, d) PROVE PublicationTypeOK'
  BY <1>7 DEF Begin, Steps
<1>8. ASSUME Die PROVE PublicationTypeOK'
  BY <1>8, DieTypeOK
<1>9. ASSUME UNCHANGED publicationVars PROVE PublicationTypeOK'
  BY <1>9 DEF publicationVars
<1> HIDE DEF PublicationTypeOK
<1> QED
  BY <1>6, <1>7, <1>8, <1>9
  DEF Next, Boot, SkipSpot, WindowFails, Crash, Midnight, SeedIndex, SeedCurve, SeedSpot,
      Observe, ListIndex, PostRate, TickCurve, vars

\* Every variable of the feed keeps its type.
THEOREM TypeCorrect == Spec => []TypeOK
<1>1. Init => TypeOK
  <2> SUFFICES ASSUME Init PROVE TypeOK
    OBVIOUS
  <2>1. 1 \in 1..MaxDay /\ 0 \in 0..Attempts - 1 /\ 0 \in 0..2
    BY FeedAssumption
  <2>2. LedgerTypeOK
    BY <2>1 DEF Init, LedgerTypeOK
  <2>3. BootTypeOK
    BY <2>1 DEF Init, BootTypeOK, Stages
  <2>4. at \in [Publishers -> Steps] /\ date \in [Publishers -> Days]
    BY DaysOfTheModel DEF Init, Steps
  <2>5. PublicationTypeOK
    BY <2>1, <2>4 DEF Init, PublicationTypeOK
  <2> QED
    BY <2>1, <2>2, <2>3, <2>5
    DEF Init, TypeOK, LedgerTypeOK, BootTypeOK, PublicationTypeOK
<1>2. TypeOK /\ [Next]_vars => TypeOK'
  <2> SUFFICES ASSUME TypeOK, [Next]_vars PROVE TypeOK'
    OBVIOUS
  <2>1. (today' = today \/ (today < MaxDay /\ today' = today + 1)) => today' \in 1..MaxDay
    BY FeedAssumption DEF TypeOK
  <2>2. today' = today \/ (today < MaxDay /\ today' = today + 1)
    BY DEF Next, Boot, SkipSpot, WindowFails, Crash, Midnight, SeedIndex, SeedCurve, SeedSpot,
           Die, Observe, ListIndex, PostRate, TickCurve, Begin, Step, Fetch, PublishFixings,
           PublishDiscount, PublishProjection, vars
  <2> QED
    BY <2>1, <2>2, NextLedgerTypeOK, NextBootTypeOK, NextPublicationTypeOK
    DEF TypeOK, LedgerTypeOK, BootTypeOK, PublicationTypeOK
<1> QED
  BY <1>1, <1>2, PTL DEF Spec

-----------------------------------------------------------------------------
(* The ledger grows.                                                       *)

Grows ==
  /\ fixings \subseteq fixings'
  /\ snapshots \subseteq snapshots'
  /\ \A c \in Curves : curve[c] # Never => curve'[c] # Never
  /\ \A i \in Indices, d \in Days : Observed(i, d) => Observed(i, d)'

LEMMA LedgerGrows ==
  ASSUME TypeOK, [Next]_vars
  PROVE  Grows
<1> USE DEF TypeOK
<1>1. ASSUME NEW took, NEW c \in Curves, NEW d \in Days, PublishIf(took, c, d),
             UNCHANGED <<fixings, posted, filled>>
      PROVE  Grows
  <2>1. d # Never
    BY DaysOfTheModel
  <2> QED
    BY <1>1, <2>1 DEF PublishIf, PublishOnLedger, Grows, Observed
<1>2. Stubbed \subseteq Curves /\ Discount \in Curves /\ Projection \in Curves /\ today \in Days
  BY DaysOfTheModel DEF Curves
<1>3. ASSUME NEW c \in Stubbed, NEW answer \in Answers, SeedCurve(c, answer) PROVE Grows
  BY <1>1, <1>2, <1>3 DEF SeedCurve
<1>4. ASSUME NEW c \in Stubbed, TickCurve(c) PROVE Grows
  <2>1. PublishIf(TRUE, c, today)
    BY <1>4 DEF TickCurve, PublishIf
  <2> QED
    BY <1>1, <1>2, <1>4, <2>1 DEF TickCurve
<1>5. ASSUME NEW p \in Publishers, NEW answer \in Answers,
             PublishDiscount(p, answer) \/ PublishProjection(p, answer)
      PROVE  Grows
  BY <1>1, <1>2, <1>5 DEF PublishDiscount, PublishProjection
<1>6. ASSUME NEW p \in Publishers, NEW answer \in Answers, PublishFixings(p, answer)
      PROVE  Grows
  BY <1>6 DEF PublishFixings, Grows, Observed
<1>7. ASSUME NEW d \in missing, NEW answer \in Answers, Observe(d, answer) PROVE Grows
  <2> DEFINE k == <<index, d>>
  <2>1. \/ filled' = filled
        \/ filled[k] < 2 /\ filled' = [filled EXCEPT ![k] = filled[k] + 1]
    BY <1>7 DEF Observe
  <2> HIDE DEF k
  <2>2. \A l \in Indices \X Days : filled[l] > 0 => filled'[l] > 0
    BY <2>1
  <2> QED
    BY <1>7, <2>2 DEF Observe, Grows, Observed
<1>8. ASSUME NEW i \in Indices, NEW d \in Days, PostRate(i, d) PROVE Grows
  BY <1>8 DEF PostRate, Grows, Observed
<1>9. ASSUME UNCHANGED <<curve, snapshots, fixings, posted, filled>> PROVE Grows
  BY <1>9 DEF Grows, Observed
<1> HIDE DEF TypeOK
<1> QED
  BY <1>3, <1>4, <1>5, <1>6, <1>7, <1>8, <1>9
  DEF Next, Boot, SkipSpot, WindowFails, Crash, Midnight, SeedIndex, SeedSpot, ListIndex,
      Begin, Step, Fetch, vars, ledgerVars

-----------------------------------------------------------------------------
(* What /api/health says.                                                  *)

\* What a publication has put on the ledger when it gets to a step.
PublishedBefore(p) ==
  /\ at[p] \in {"discount", "projection"} => date[p] \in fixings
  /\ at[p] = "projection" => <<Discount, date[p]>> \in snapshots

Published == (\A p \in Publishers : PublishedBefore(p)) /\ HealthIsTruthful

\* A publication that a step leaves, ends or starts afresh.
LEMMA PublishedStays ==
  ASSUME Grows, NEW p \in Publishers, PublishedBefore(p),
         at'[p] \in {"idle", "fetch", "fixings"} \/ (at'[p] = at[p] /\ date'[p] = date[p])
  PROVE  PublishedBefore(p)'
BY DEF Grows, PublishedBefore

LEMMA HealthStays ==
  ASSUME Grows, HealthIsTruthful, lastSuccess' \in {lastSuccess, Never}
  PROVE  HealthIsTruthful'
BY DEF Grows, HealthIsTruthful

LEMMA NextPublished ==
  ASSUME TypeOK, Published, [Next]_vars
  PROVE  Published'
<1> USE LedgerGrows
<1>1. ASSUME NEW p \in Publishers, PublishedBefore(p)',
             \A q \in Publishers : q # p => at'[q] = at[q] /\ date'[q] = date[q]
      PROVE  \A q \in Publishers : PublishedBefore(q)'
  BY <1>1, PublishedStays DEF Published
<1>2. ASSUME NEW p \in Publishers, End(p) \/ StartsAfresh(p)
      PROVE  \A q \in Publishers : PublishedBefore(q)'
  <2>1. /\ at'[p] \in {"idle", "fetch"}
        /\ \A q \in Publishers : q # p => at'[q] = at[q] /\ date'[q] = date[q]
    BY <1>2 DEF End, StartsAfresh, TypeOK
  <2>2. PublishedBefore(p)'
    BY <2>1, PublishedStays DEF Published
  <2> QED
    BY <1>1, <2>1, <2>2
<1>3. ASSUME NEW p \in Publishers, Fails(p) PROVE Published'
  <2>1. lastSuccess' = lastSuccess /\ (End(p) \/ StartsAfresh(p))
    BY <1>3 DEF Fails, StartsAfresh
  <2> QED
    BY <1>2, <2>1, HealthStays DEF Published
<1>4. ASSUME NEW p \in Publishers, NEW next \in {"fixings", "discount", "projection"},
             GoTo(p, next), PublishedBefore(p)'
      PROVE  Published'
  <2>1. \A q \in Publishers : q # p => at'[q] = at[q] /\ date'[q] = date[q]
    BY <1>4 DEF GoTo, TypeOK
  <2>2. lastSuccess' = lastSuccess
    BY <1>4 DEF GoTo
  <2> QED
    BY <1>1, <1>4, <2>1, <2>2, HealthStays DEF Published
<1>5. ASSUME NEW p \in Publishers, NEW answer \in Answers, Fetch(p, answer) PROVE Published'
  <2>1. CASE GoTo(p, "fixings")
    <3>1. at'[p] = "fixings"
      BY <2>1 DEF GoTo, TypeOK
    <3> QED
      BY <1>4, <2>1, <3>1, PublishedStays DEF Published
  <2> QED
    BY <1>3, <1>5, <2>1 DEF Fetch
<1>6. ASSUME NEW p \in Publishers, NEW answer \in Answers, PublishFixings(p, answer)
      PROVE  Published'
  <2>1. CASE answer = "ok"
    <3>1. GoTo(p, "discount") /\ date[p] \in fixings'
      BY <1>6, <2>1 DEF PublishFixings, TookEffect
    <3>2. at'[p] = "discount" /\ date'[p] = date[p]
      BY <3>1 DEF GoTo, TypeOK
    <3>3. PublishedBefore(p)'
      BY <3>1, <3>2 DEF PublishedBefore
    <3> QED
      BY <1>4, <3>1, <3>3
  <2> QED
    BY <1>3, <1>6, <2>1 DEF PublishFixings
<1>7. ASSUME NEW p \in Publishers, NEW answer \in Answers, PublishDiscount(p, answer)
      PROVE  Published'
  <2>1. CASE answer = "ok"
    <3>1. /\ GoTo(p, "projection") /\ <<Discount, date[p]>> \in snapshots'
          /\ at[p] = "discount" /\ fixings' = fixings
      BY <1>7, <2>1 DEF PublishDiscount, TookEffect, PublishIf, PublishOnLedger
    <3>2. at'[p] = "projection" /\ date'[p] = date[p]
      BY <3>1 DEF GoTo, TypeOK
    <3>3. PublishedBefore(p)'
      BY <3>1, <3>2 DEF PublishedBefore, Published
    <3> QED
      BY <1>4, <3>1, <3>3
  <2> QED
    BY <1>3, <1>7, <2>1 DEF PublishDiscount
<1>8. ASSUME NEW p \in Publishers, NEW answer \in Answers, PublishProjection(p, answer)
      PROVE  Published'
  <2>1. CASE answer = "ok"
    <3>1. /\ Succeeds(p) /\ <<Projection, date[p]>> \in snapshots'
          /\ at[p] = "projection"
      BY <1>8, <2>1 DEF PublishProjection, TookEffect, PublishIf, PublishOnLedger
    <3>2. date[p] \in fixings' /\ <<Discount, date[p]>> \in snapshots'
      BY <3>1 DEF Published, PublishedBefore, Grows
    <3>3. lastSuccess' \in {lastSuccess, date[p]}
      BY <3>1 DEF Succeeds
    <3>4. HealthIsTruthful'
      BY <3>1, <3>2, <3>3 DEF Published, HealthIsTruthful, Grows
    <3> QED
      BY <1>2, <3>1, <3>4 DEF Published, Succeeds
  <2> QED
    BY <1>3, <1>8, <2>1 DEF PublishProjection
<1>9. ASSUME NEW p \in Publishers, NEW d \in Days, Begin(p, d) PROVE Published'
  <2>1. /\ at'[p] = "fetch" /\ lastSuccess' = lastSuccess
        /\ \A q \in Publishers : q # p => at'[q] = at[q] /\ date'[q] = date[q]
    BY <1>9 DEF Begin, TypeOK
  <2> QED
    BY <1>1, <2>1, PublishedStays, HealthStays DEF Published
<1>10. ASSUME Die PROVE Published'
  <2>1. lastSuccess' = Never /\ \A p \in Publishers : at'[p] = "idle"
    BY <1>10 DEF Die
  <2> QED
    BY <2>1, PublishedStays, HealthStays DEF Published
<1>11. ASSUME UNCHANGED publicationVars PROVE Published'
  BY <1>11, PublishedStays, HealthStays DEF publicationVars, Published
<1> QED
  BY <1>5, <1>6, <1>7, <1>8, <1>9, <1>10, <1>11
  DEF Next, Boot, SkipSpot, WindowFails, Crash, Midnight, SeedIndex, SeedCurve, SeedSpot,
      Observe, ListIndex, PostRate, TickCurve, Step, vars

\* The day of the last success has its fixings and both of its curves.
THEOREM HealthTellsTheTruth == Spec => []HealthIsTruthful
<1>1. Init => Published
  BY DEF Init, Published, PublishedBefore, HealthIsTruthful
<1>2. TypeOK /\ Published /\ [Next]_vars => Published'
  BY NextPublished
<1>3. Published => HealthIsTruthful
  BY DEF Published
<1> QED
  BY <1>1, <1>2, <1>3, TypeCorrect, PTL DEF Spec

-----------------------------------------------------------------------------
(* What boot seeds.                                                        *)

HasCurve(c) == curve[c] # Never

\* The curves that a boot has published when it gets to a stage.
Seeding ==
  /\ stage = "curves" => \A c \in (Stubbed \intersect Provided) \ todo : HasCurve(c)
  /\ stage \in {"spot", "window", "serving"} => \A c \in Stubbed \intersect Provided : HasCurve(c)

LEMMA NextSeeding ==
  ASSUME TypeOK, Seeding, [Next]_vars
  PROVE  Seeding'
<1>1. ASSUME NEW c \in Stubbed, HasCurve(c) PROVE HasCurve(c)'
  BY <1>1, LedgerGrows DEF Grows, HasCurve, Curves
<1>2. ASSUME stage' = stage, stage = "curves" => todo \subseteq todo' PROVE Seeding'
  BY <1>1, <1>2 DEF Seeding
<1>3. ASSUME stage' = "down" PROVE Seeding'
  BY <1>3 DEF Seeding
<1>4. ASSUME NEW i \in Indices, NEW answer \in Answers, SeedIndex(i, answer) PROVE Seeding'
  BY <1>4 DEF SeedIndex, Proceed, Seeding
<1>5. ASSUME NEW c \in Stubbed, NEW answer \in Answers, SeedCurve(c, answer) PROVE Seeding'
  <2>1. CASE answer = "ok"
    <3>1. /\ stage = "curves" /\ Proceed(todo \ {c}, "spot", {})
          /\ c \in Provided => PublishOnLedger(c, today)
      BY <1>5, <2>1 DEF SeedCurve, PublishIf, TookEffect
    <3>2. today # Never /\ c \in Curves
      BY DaysOfTheModel DEF TypeOK, Curves
    <3>3. c \in Provided => HasCurve(c)'
      BY <3>1, <3>2 DEF PublishOnLedger, HasCurve, TypeOK
    <3>4. \A e \in Stubbed \intersect Provided : e \notin todo \ {c} => HasCurve(e)'
      BY <1>1, <3>1, <3>3 DEF Seeding
    <3> QED
      BY <3>1, <3>4 DEF Proceed, Seeding
  <2>2. CASE answer # "ok"
    BY <1>3, <1>5, <2>2 DEF SeedCurve, Die
  <2> QED
    BY <2>1, <2>2
<1>6. ASSUME stage \in {"spot", "window", "serving"}, stage' # "curves" PROVE Seeding'
  BY <1>1, <1>6 DEF Seeding
<1>7. ASSUME NEW answer \in Answers, SeedSpot(answer) PROVE Seeding'
  BY <1>3, <1>6, <1>7 DEF SeedSpot, ToWindow, Die
<1>8. ASSUME SkipSpot PROVE Seeding'
  BY <1>6, <1>8 DEF SkipSpot, ToWindow
<1>9. ASSUME WindowFails PROVE Seeding'
  BY <1>6, <1>9 DEF WindowFails, ToServing
<1>10. ASSUME NEW i \in Indices, ListIndex(i) PROVE Seeding'
  BY <1>6, <1>10 DEF ListIndex, IndexDone, ToServing
<1>11. ASSUME NEW d \in missing, NEW answer \in Answers, Observe(d, answer) PROVE Seeding'
  <2>1. stage = "window" /\ stage' \in {"window", "serving"}
    <3>1. CASE answer # "ok"
      BY <1>11, <3>1 DEF Observe, ToServing
    <3>2. CASE answer = "ok" /\ missing = {d}
      BY <1>11, <3>2 DEF Observe, IndexDone, ToServing
    <3>3. CASE answer = "ok" /\ missing # {d}
      BY <1>11, <3>3 DEF Observe
    <3> QED
      BY <3>1, <3>2, <3>3
  <2> QED
    BY <1>6, <2>1
<1>12. ASSUME Boot PROVE Seeding'
  BY <1>12 DEF Boot, Seeding
<1>13. ASSUME Crash PROVE Seeding'
  BY <1>3, <1>13 DEF Crash, Die
<1>14. ASSUME UNCHANGED bootVars PROVE Seeding'
  BY <1>2, <1>14 DEF bootVars
<1> QED
  BY <1>4, <1>5, <1>7, <1>8, <1>9, <1>10, <1>11, <1>12, <1>13, <1>14
  DEF Next, Midnight, TickCurve, PostRate, Begin, Step, Fetch, PublishFixings,
      PublishDiscount, PublishProjection, vars

\* Once the ticker and HTTP are up, each stubbed curve whose provider there is
\* is on the ledger, however many boots died among their seeds.
THEOREM ServesWhatItSeeded == Spec => []ServesSeeded
<1>1. Init => Seeding
  BY DEF Init, Seeding
<1>2. TypeOK /\ Seeding /\ [Next]_vars => Seeding'
  BY NextSeeding
<1>3. Seeding => ServesSeeded
  BY DEF Seeding, ServesSeeded, HasCurve
<1> QED
  BY <1>1, <1>2, <1>3, TypeCorrect, PTL DEF Spec

-----------------------------------------------------------------------------
(* The window.                                                             *)

AllObserved(i) == i \in Provided => \A d \in WindowOf(windowDay) : Observed(i, d)

\* The days that are left are of the index in work, and nobody has observed
\* them; the indices that are not left have all their days.
Windowed ==
  /\ stage # "window" => missing = {} /\ index = Nobody
  /\ index # Nobody => index \in todo
  /\ missing # {} => index # Nobody
  /\ complete => stage = "serving" /\ \A i \in Indices : AllObserved(i)
  /\ stage = "window" =>
       /\ \A i \in Indices \ todo : AllObserved(i)
       /\ index # Nobody => \A d \in WindowOf(windowDay) : d \in missing \/ Observed(index, d)
  /\ \A d \in missing : ~Observed(index, d)

\* No day was observed twice.
Once == \A k \in Indices \X Days : filled[k] =< 1

LEMMA WindowOnceFollows ==
  ASSUME Windowed, Once
  PROVE  WindowOnce
BY DEF Windowed, Once, WindowOnce, AllObserved

LEMMA WindowIsOfDays ==
  ASSUME TypeOK
  PROVE  WindowOf(windowDay) \subseteq Days
BY DaysOfTheModel DEF TypeOK

LEMMA AllObservedStays ==
  ASSUME TypeOK, [Next]_vars, NEW i \in Indices, AllObserved(i), windowDay' = windowDay
  PROVE  AllObserved(i)'
BY LedgerGrows, WindowIsOfDays DEF Grows, AllObserved, WindowOf

LEMMA NextOnce ==
  ASSUME TypeOK, Windowed, Once, [Next]_vars
  PROVE  Once'
<1>1. ASSUME NEW d \in missing, NEW answer \in Answers, Observe(d, answer) PROVE Once'
  <2> DEFINE k == <<index, d>>
  <2>1. filled' = filled \/ filled' = [filled EXCEPT ![k] = filled[k] + 1]
    BY <1>1 DEF Observe
  <2>2. index \in Indices /\ d \in Days /\ ~Observed(index, d)
    BY DEF Windowed, TypeOK
  <2>3. k \in Indices \X Days /\ filled[k] = 0
    BY <2>2 DEF Observed, TypeOK
  <2> HIDE DEF k
  <2> QED
    BY <2>1, <2>3 DEF Once, TypeOK
<1>2. ASSUME filled' = filled PROVE Once'
  BY <1>2 DEF Once
<1> QED
  BY <1>1, <1>2
  DEF Next, Boot, SkipSpot, WindowFails, Crash, Midnight, SeedIndex, SeedCurve, SeedSpot,
      ListIndex, PostRate, TickCurve, Begin, Step, Fetch, PublishFixings, PublishDiscount,
      PublishProjection, vars, ledgerVars

LEMMA NextWindowed ==
  ASSUME TypeOK, Windowed, [Next]_vars
  PROVE  Windowed'
<1>1. ASSUME stage' # "window", missing' = {}, index' = Nobody, complete' = FALSE
      PROVE  Windowed'
  BY <1>1 DEF Windowed
<1>2. ASSUME UNCHANGED bootVars,
             \A d \in missing : Observed(index, d)' => Observed(index, d)
      PROVE  Windowed'
  <2>1. index # Nobody => index \in Indices
    BY DEF TypeOK
  <2>2. \A d \in WindowOf(windowDay) : index # Nobody /\ Observed(index, d) => Observed(index, d)'
    <3>1. index' = index
      BY <1>2 DEF bootVars
    <3>2. \A i \in Indices, d \in WindowOf(windowDay) : Observed(i, d) => Observed(i, d)'
      BY LedgerGrows, WindowIsOfDays DEF Grows
    <3> QED
      BY <2>1, <3>1, <3>2 DEF Observed
  <2>3. \A i \in Indices : AllObserved(i) => AllObserved(i)'
    BY <1>2, AllObservedStays DEF bootVars
  <2>4. WindowOf(windowDay)' = WindowOf(windowDay)
    BY <1>2 DEF bootVars, WindowOf
  <2> QED
    BY <1>2, <2>2, <2>3, <2>4 DEF Windowed, bootVars
<1>3. ASSUME stage \in {"down", "indices", "curves", "spot"}
      PROVE  missing = {} /\ index = Nobody /\ complete = FALSE
  BY <1>3 DEF Windowed, TypeOK
<1>4. ASSUME Die PROVE Windowed'
  BY <1>1, <1>4 DEF Die
<1>5. ASSUME stage \in {"down", "indices", "curves", "spot"}, ToWindow,
             UNCHANGED <<missing, complete, index>>
      PROVE  Windowed'
  BY <1>3, <1>5 DEF ToWindow, Windowed
<1>6. ASSUME ToServing(FALSE) PROVE Windowed'
  BY <1>1, <1>6 DEF ToServing
<1>7. ASSUME stage = "window", NEW i \in Indices, i \in todo, AllObserved(i)', IndexDone(i),
             windowDay' = windowDay
      PROVE  Windowed'
  <2>1. \A j \in Indices \ todo : AllObserved(j)'
    BY <1>7, AllObservedStays DEF Windowed
  <2>2. CASE todo = {i}
    <3>1. ToServing(TRUE) /\ \A j \in Indices : AllObserved(j)'
      BY <1>7, <2>1, <2>2 DEF IndexDone
    <3> QED
      BY <3>1 DEF ToServing, Windowed
  <2>3. CASE todo # {i}
    <3>1. /\ todo' = todo \ {i} /\ index' = Nobody /\ missing' = {}
          /\ stage' = stage /\ complete' = complete
      BY <1>7, <2>3 DEF IndexDone
    <3>2. complete = FALSE
      BY <1>7 DEF Windowed, TypeOK
    <3> QED
      BY <1>7, <2>1, <3>1, <3>2 DEF Windowed
  <2> QED
    BY <2>2, <2>3
<1>8. ASSUME NEW i \in Indices, ListIndex(i) PROVE Windowed'
  <2>1. /\ stage = "window" /\ i \in todo /\ windowDay' = windowDay
        /\ UNCHANGED <<posted, filled>>
    BY <1>8 DEF ListIndex, ledgerVars
  <2>2. CASE i \notin Provided \/ MissingDays(i) = {}
    <3>1. AllObserved(i)
      BY <2>2 DEF MissingDays, AllObserved
    <3> QED
      BY <1>7, <1>8, <2>1, <2>2, <3>1, AllObservedStays DEF ListIndex
  <2>3. CASE i \in Provided /\ MissingDays(i) # {}
    <3>1. /\ index' = i /\ missing' = MissingDays(i)
          /\ UNCHANGED <<stage, todo, complete>>
      BY <1>8, <2>3 DEF ListIndex
    <3>2. \A d \in MissingDays(i) : ~Observed(i, d)'
      BY <2>1 DEF MissingDays, Observed
    <3>3. \A d \in WindowOf(windowDay) : d \in MissingDays(i) \/ Observed(i, d)'
      BY <2>1 DEF MissingDays, Observed
    <3>4. \A j \in Indices \ todo : AllObserved(j)'
      BY <2>1, AllObservedStays DEF Windowed
    <3>5. complete = FALSE /\ i # Nobody
      BY <2>1, FeedAssumption DEF Windowed, TypeOK
    <3>6. WindowOf(windowDay)' = WindowOf(windowDay)
      BY <2>1 DEF WindowOf
    <3> QED
      BY <2>1, <3>1, <3>2, <3>3, <3>4, <3>5, <3>6 DEF Windowed
  <2> QED
    BY <2>2, <2>3
<1>9. ASSUME NEW d \in missing, NEW answer \in Answers, Observe(d, answer),
             NEW i \in Indices, i = index
      PROVE  Windowed'
  <2>1. /\ stage = "window" /\ windowDay' = windowDay /\ posted' = posted
        /\ i # Nobody /\ i \in todo /\ d \in Days
    BY <1>9, FeedAssumption DEF Observe, Windowed, TypeOK
  <2> DEFINE k == <<i, d>>
  <2>2. k \in Indices \X Days /\ filled[k] = 0
    BY <1>9, <2>1 DEF Windowed, Observed, TypeOK
  <2>3. filled' = filled \/ filled' = [filled EXCEPT ![k] = filled[k] + 1]
    BY <1>9 DEF Observe
  <2>4. \A e \in Days : e # d => filled'[<<i, e>>] = filled[<<i, e>>]
    <3>1. \A e \in Days : e # d => <<i, e>> # k /\ <<i, e>> \in Indices \X Days
      OBVIOUS
    <3> HIDE DEF k
    <3> QED
      BY <2>3, <3>1 DEF TypeOK
  <2>5. \A j \in Indices, e \in WindowOf(windowDay) : Observed(j, e) => Observed(j, e)'
    BY LedgerGrows, WindowIsOfDays DEF Grows
  <2>6. \A j \in Indices \ todo : AllObserved(j)'
    BY <2>1, AllObservedStays DEF Windowed
  <2>7. \A e \in WindowOf(windowDay) : e \in missing \/ Observed(i, e)'
    BY <1>9, <2>1, <2>5 DEF Windowed
  <2>8. ASSUME answer = "ok" PROVE Observed(i, d)'
    <3>1. filled' = [filled EXCEPT ![k] = filled[k] + 1]
      BY <1>9, <2>2, <2>8 DEF Observe, TookEffect
    <3> HIDE DEF k
    <3>2. filled'[k] = 1
      BY <2>2, <3>1 DEF TypeOK
    <3> QED
      BY <3>2 DEF Observed, k
  <2>9. WindowOf(windowDay)' = WindowOf(windowDay)
    BY <2>1 DEF WindowOf
  <2>10. CASE answer # "ok"
    BY <1>6, <1>9, <2>10 DEF Observe
  <2>11. CASE answer = "ok" /\ missing = {d}
    <3>1. IndexDone(i)
      BY <1>9, <2>11 DEF Observe
    <3>2. AllObserved(i)'
      BY <2>7, <2>8, <2>9, <2>11 DEF AllObserved
    <3> QED
      BY <1>7, <2>1, <3>1, <3>2
  <2>12. CASE answer = "ok" /\ missing # {d}
    <3>1. missing' = missing \ {d} /\ UNCHANGED <<stage, todo, index, complete>>
      BY <1>9, <2>12 DEF Observe
    <3>2. \A e \in missing \ {d} : ~Observed(i, e)'
      BY <1>9, <2>1, <2>4 DEF Windowed, Observed, TypeOK
    <3>3. complete = FALSE
      BY <2>1 DEF Windowed, TypeOK
    <3>4. \A e \in WindowOf(windowDay) : e \in missing \ {d} \/ Observed(i, e)'
      BY <2>7, <2>8, <2>12
    <3>5. \A e \in Days : Observed(i, e)' <=> Observed(index, e)'
      BY <1>9, <3>1 DEF Observed
    <3>6. WindowOf(windowDay) \subseteq Days /\ missing \subseteq Days
      BY WindowIsOfDays DEF TypeOK
    <3> QED
      BY <1>9, <2>1, <2>6, <2>9, <3>1, <3>2, <3>3, <3>4, <3>5, <3>6 DEF Windowed
  <2> QED
    BY <2>10, <2>11, <2>12
<1>10. ASSUME NEW i \in Indices, NEW d \in Days, PostRate(i, d) PROVE Windowed'
  <2>1. stage = "serving" /\ UNCHANGED bootVars
    BY <1>10 DEF PostRate
  <2> QED
    BY <1>2, <2>1 DEF Windowed
<1>11. ASSUME UNCHANGED <<bootVars, posted, filled>> PROVE Windowed'
  <2>1. UNCHANGED bootVars /\ \A d \in missing : Observed(index, d)' => Observed(index, d)
    BY <1>11 DEF Observed, bootVars
  <2> QED
    BY <1>2, <2>1
<1>12. ASSUME NEW i \in Indices, NEW answer \in Answers, SeedIndex(i, answer) PROVE Windowed'
  <2>1. stage' # "window" /\ missing' = {} /\ index' = Nobody /\ complete' = FALSE
    BY <1>3, <1>12 DEF SeedIndex, Proceed
  <2> QED
    BY <1>1, <2>1
<1>13. ASSUME NEW c \in Stubbed, NEW answer \in Answers, SeedCurve(c, answer) PROVE Windowed'
  <2>1. CASE answer = "ok"
    <3>1. stage' # "window" /\ missing' = {} /\ index' = Nobody /\ complete' = FALSE
      BY <1>3, <1>13, <2>1 DEF SeedCurve, Proceed
    <3> QED
      BY <1>1, <3>1
  <2> QED
    BY <1>4, <1>13, <2>1 DEF SeedCurve
<1>14. ASSUME Boot PROVE Windowed'
  <2>1. stage' # "window" /\ missing' = {} /\ index' = Nobody /\ complete' = FALSE
    BY <1>3, <1>14 DEF Boot
  <2> QED
    BY <1>1, <2>1
<1>15. ASSUME NEW answer \in Answers, SeedSpot(answer) PROVE Windowed'
  <2>1. CASE answer = "ok"
    BY <1>5, <1>15, <2>1 DEF SeedSpot
  <2> QED
    BY <1>4, <1>15, <2>1 DEF SeedSpot
<1>16. ASSUME SkipSpot PROVE Windowed'
  BY <1>5, <1>16 DEF SkipSpot
<1>17. ASSUME NEW d \in missing, NEW answer \in Answers, Observe(d, answer) PROVE Windowed'
  <2>1. index \in Indices
    BY <1>17, FeedAssumption DEF Windowed, TypeOK, Observe
  <2> QED
    BY <1>9, <1>17, <2>1
<1> QED
  BY <1>4, <1>6, <1>8, <1>10, <1>11, <1>12, <1>13, <1>14, <1>15, <1>16, <1>17
  DEF Next, WindowFails, Crash, Midnight, TickCurve, Begin, Step, Fetch, PublishFixings,
      PublishDiscount, PublishProjection, vars, ledgerVars

\* No day is observed twice, and a window that got to its end has them all.
THEOREM WindowsAreFilledOnce == Spec => []WindowOnce
<1>1. Init => Windowed /\ Once
  BY DEF Init, Windowed, Once
<1>2. TypeOK /\ Windowed /\ Once /\ [Next]_vars => Windowed' /\ Once'
  BY NextWindowed, NextOnce
<1>3. Windowed /\ Once => WindowOnce
  BY WindowOnceFollows
<1> QED
  BY <1>1, <1>2, <1>3, TypeCorrect, PTL DEF Spec

-----------------------------------------------------------------------------
(* What starts the ticks.                                                  *)

\* The timer is off while a tick runs, and the queue is for a running tick.
Mutex ==
  /\ running => pendingTimer = Off
  /\ queued => running \/ stopped

\* Events wait at open sockets, and only a waiting chain has a timer.
Shape ==
  /\ inbox \subseteq Opened
  /\ \A l \in Loops : reconnectTimer[l] # Off => conn[l] = "waiting"

SeenCreated == unseen => creates > 0

TriggerInv ==
  /\ TriggerTypeOK
  /\ Mutex
  /\ StopTakes
  /\ Shape
  /\ SeenCreated
  /\ OneChain
  /\ PushReachesTick

\* The moves of a chain that leave the coalescer and the timers' owner alone.
Advance(l) == Connect(l) \/ GetToken(l) \/ SocketError(l)
Reschedule(l) == FailToken(l) \/ SocketClose(l)

\* The disjuncts of a step, so that the proofs below split alike.
LEMMA TriggerCases ==
  ASSUME [TriggerNext]_triggerVars
  PROVE  \/ Fire \/ FinishTick \/ CronFires
         \/ \E l \in Loops : Advance(l) \/ Reschedule(l) \/ Open(l) \/ Message(l)
         \/ CreateSwap \/ Elapse \/ Shutdown \/ UNCHANGED triggerVars
BY DEF TriggerNext, Coalescer, Watcher, Environment, Advance, Reschedule

\* What a request does, whoever makes it.
LEMMA TriggerFacts ==
  ASSUME TriggerTypeOK, Trigger
  PROVE  /\ stopped' = stopped /\ running' = running
         /\ queued' \in BOOLEAN /\ pendingTimer' \in Timer(Debounce)
         /\ stopped => pendingTimer' = pendingTimer /\ queued' = queued
         /\ ~stopped => \/ running /\ queued' /\ pendingTimer' = pendingTimer
                        \/ ~running /\ pendingTimer' # Off /\ queued' = queued
<1>1. stopped \in BOOLEAN /\ running \in BOOLEAN /\ queued \in BOOLEAN
  BY DEF TriggerTypeOK
<1>2. pendingTimer \in Timer(Debounce) /\ Debounce \in Timer(Debounce) /\ Debounce # Off
  BY TimingAssumption DEF TriggerTypeOK, Timer, Off
<1>3. CASE stopped BY <1>1, <1>2, <1>3 DEF Trigger, tickVars
<1>4. CASE ~stopped /\ running BY <1>1, <1>2, <1>4 DEF Trigger
<1>5. CASE ~stopped /\ ~running BY <1>1, <1>2, <1>5 DEF Trigger
<1> QED BY <1>1, <1>3, <1>4, <1>5

-----------------------------------------------------------------------------
(* The initial state.                                                      *)

LEMMA InitTriggers == TriggerInit => TriggerInv
<1> SUFFICES ASSUME TriggerInit PROVE TriggerInv OBVIOUS
<1> USE TimingAssumption, LoopAssumption DEF TriggerInit, Off, Timer
<1>1. TriggerTypeOK
  <2>1. conn \in [Loops -> {"none", "waiting", "token", "connecting", "open", "failed", "closing"}]
    OBVIOUS
  <2>2. reconnectTimer \in [Loops -> Timer(Cap)] OBVIOUS
  <2>3. pendingTimer \in Timer(Debounce) /\ cron \in Timer(Period) /\ backoff \in Base..Cap
    OBVIOUS
  <2>4. inbox \subseteq Loops /\ creates \in 0..MaxCreates OBVIOUS
  <2>5. unseen \in BOOLEAN /\ running \in BOOLEAN /\ queued \in BOOLEAN /\ stopped \in BOOLEAN OBVIOUS
  <2> QED BY <2>1, <2>2, <2>3, <2>4, <2>5 DEF TriggerTypeOK
<1>2. Mutex /\ StopTakes /\ Shape /\ SeenCreated
  BY DEF Mutex, StopTakes, Shape, SeenCreated, Opened
<1>3. OneChain BY DEF OneChain
<1>4. PushReachesTick BY DEF PushReachesTick
<1> QED BY <1>1, <1>2, <1>3, <1>4 DEF TriggerInv

-----------------------------------------------------------------------------
(* Steps.                                                                  *)

LEMMA NextTriggerTypeOK ==
  ASSUME TriggerInv, [TriggerNext]_triggerVars
  PROVE  TriggerTypeOK'
<1> USE TimingAssumption, LoopAssumption DEF Off, Timer, TriggerTypeOK
<1>0. TriggerTypeOK BY DEF TriggerInv
<1>1. CASE Fire BY <1>0, <1>1 DEF Fire, watcherVars
<1>2. CASE FinishTick
  <2>1. running' \in BOOLEAN /\ queued' \in BOOLEAN
    BY <1>0, <1>2 DEF FinishTick, FollowUp
  <2>2. pendingTimer' \in Timer(Debounce) BY <1>0, <1>2 DEF FinishTick, FollowUp
  <2>3. UNCHANGED <<stopped, cron, watcherVars, createdVars>> BY <1>2 DEF FinishTick
  <2> QED BY <1>0, <2>1, <2>2, <2>3 DEF watcherVars, createdVars
<1>3. CASE CronFires
  <2>1. Trigger /\ cron' = Period /\ UNCHANGED <<watcherVars, createdVars>>
    BY <1>3 DEF CronFires
  <2>2. stopped' = stopped /\ running' = running /\ queued' \in BOOLEAN
        /\ pendingTimer' \in Timer(Debounce)
    BY <1>0, <2>1, TriggerFacts
  <2> QED BY <1>0, <2>1, <2>2 DEF watcherVars, createdVars
<1>4. ASSUME NEW l \in Loops, Advance(l) PROVE TriggerTypeOK'
  BY <1>0, <1>4 DEF Advance, Connect, GetToken, SocketError, MoveTo, tickVars, createdVars
<1>5. ASSUME NEW l \in Loops, Reschedule(l) PROVE TriggerTypeOK'
  BY <1>0, <1>5 DEF Reschedule, FailToken, SocketClose, ScheduleReconnect, Schedule, MoveTo,
                    Lesser, tickVars, createdVars
<1>6. ASSUME NEW l \in Loops, Open(l) PROVE TriggerTypeOK'
  BY <1>0, <1>6 DEF Open, MoveTo, tickVars, createdVars
<1>7. ASSUME NEW l \in Loops, Message(l) PROVE TriggerTypeOK'
  <2>1. Trigger /\ inbox' = inbox \ {l}
        /\ UNCHANGED <<cron, conn, reconnectTimer, backoff, createdVars>>
    BY <1>7 DEF Message
  <2>2. stopped' = stopped /\ running' = running /\ queued' \in BOOLEAN
        /\ pendingTimer' \in Timer(Debounce)
    BY <1>0, <2>1, TriggerFacts
  <2> QED BY <1>0, <2>1, <2>2 DEF createdVars
<1>8. CASE CreateSwap BY <1>0, <1>8 DEF CreateSwap, Opened, tickVars
<1>9. CASE Elapse BY <1>0, <1>9 DEF Elapse, Counted, createdVars
<1>10. CASE Shutdown BY <1>0, <1>10 DEF Shutdown, AfterStop, createdVars
<1>11. CASE UNCHANGED triggerVars BY <1>0, <1>11 DEF triggerVars, tickVars, watcherVars, createdVars
<1> QED
  BY <1>1, <1>2, <1>3, <1>4, <1>5, <1>6, <1>7, <1>8, <1>9, <1>10, <1>11, TriggerCases

LEMMA NextMutex ==
  ASSUME TriggerInv, [TriggerNext]_triggerVars
  PROVE  Mutex' /\ SeenCreated'
<1> USE DEF Off, Mutex, SeenCreated
<1>0. TriggerTypeOK /\ Mutex /\ StopTakes /\ SeenCreated BY DEF TriggerInv
<1>1. CASE Fire BY <1>0, <1>1 DEF StopTakes, Fire
<1>2. CASE FinishTick BY <1>0, <1>2 DEF FinishTick, FollowUp, createdVars
<1>3. CASE CronFires BY <1>0, <1>3 DEF CronFires, Trigger, tickVars, createdVars
<1>4. ASSUME NEW l \in Loops, Advance(l) \/ Reschedule(l) PROVE (Mutex /\ SeenCreated)'
  BY <1>0, <1>4 DEF Advance, Connect, GetToken, SocketError, Reschedule, FailToken, SocketClose,
                    tickVars, createdVars
<1>5. ASSUME NEW l \in Loops, Open(l) \/ Message(l) PROVE (Mutex /\ SeenCreated)'
  BY <1>0, <1>5 DEF Open, Message, Trigger, tickVars, createdVars
<1>6. CASE CreateSwap BY <1>0, <1>6 DEF TriggerTypeOK, CreateSwap, tickVars
<1>7. CASE Elapse BY <1>0, <1>7 DEF Elapse, Counted, createdVars
<1>8. CASE Shutdown BY <1>0, <1>8 DEF Shutdown, createdVars
<1>9. CASE UNCHANGED triggerVars BY <1>0, <1>9 DEF triggerVars, tickVars, createdVars
<1> QED
  BY <1>1, <1>2, <1>3, <1>4, <1>5, <1>6, <1>7, <1>8, <1>9, TriggerCases

\* Once stopped, no step arms a timer: a request is dropped, a close or a
\* failed token ends its chain.
LEMMA NextStopTakes ==
  ASSUME TriggerInv, [TriggerNext]_triggerVars
  PROVE  StopTakes'
<1> USE DEF Off, StopTakes
<1>0. TriggerTypeOK /\ StopTakes BY DEF TriggerInv
<1>1. CASE Fire BY <1>0, <1>1 DEF Fire, watcherVars
<1>2. CASE FinishTick BY <1>0, <1>2 DEF FinishTick, FollowUp, watcherVars
<1>3. CASE CronFires
  <2>1. ~stopped BY <1>0, <1>3 DEF CronFires
  <2> QED BY <1>0, <1>3, <2>1, TriggerFacts DEF CronFires
<1>4. ASSUME NEW l \in Loops, Advance(l) PROVE StopTakes'
  BY <1>0, <1>4 DEF TriggerTypeOK, Advance, Connect, GetToken, SocketError, MoveTo, tickVars
<1>5. ASSUME NEW l \in Loops, Reschedule(l) PROVE StopTakes'
  BY <1>0, <1>5 DEF TriggerTypeOK, Reschedule, FailToken, SocketClose, ScheduleReconnect, MoveTo, tickVars
<1>6. ASSUME NEW l \in Loops, Open(l) PROVE StopTakes'
  BY <1>0, <1>6 DEF TriggerTypeOK, Open, MoveTo, tickVars
<1>7. ASSUME NEW l \in Loops, Message(l) PROVE StopTakes'
  BY <1>0, <1>7 DEF Message, Trigger, tickVars
<1>8. CASE CreateSwap BY <1>0, <1>8 DEF CreateSwap, tickVars
<1>9. CASE Elapse BY <1>0, <1>9 DEF Elapse, Counted
<1>10. CASE Shutdown BY <1>0, <1>10 DEF Shutdown, AfterStop
<1>11. CASE UNCHANGED triggerVars BY <1>0, <1>11 DEF triggerVars, tickVars, watcherVars
<1> QED
  BY <1>1, <1>2, <1>3, <1>4, <1>5, <1>6, <1>7, <1>8, <1>9, <1>10, <1>11, TriggerCases

LEMMA NextShape ==
  ASSUME TriggerInv, [TriggerNext]_triggerVars
  PROVE  Shape'
<1> USE TimingAssumption DEF Off, Timer, Shape, Opened
<1>0. TriggerTypeOK /\ Shape BY DEF TriggerInv
<1>1. CASE Fire \/ FinishTick \/ CronFires BY <1>0, <1>1 DEF Fire, FinishTick, CronFires, watcherVars
<1>2. ASSUME NEW l \in Loops, Advance(l) PROVE Shape'
  BY <1>0, <1>2 DEF TriggerTypeOK, Advance, Connect, GetToken, SocketError, MoveTo
<1>3. ASSUME NEW l \in Loops, Reschedule(l) PROVE Shape'
  BY <1>0, <1>3 DEF TriggerTypeOK, Reschedule, FailToken, SocketClose, ScheduleReconnect, Schedule, MoveTo
<1>4. ASSUME NEW l \in Loops, Open(l) PROVE Shape'
  BY <1>0, <1>4 DEF TriggerTypeOK, Open, MoveTo
<1>5. ASSUME NEW l \in Loops, Message(l) PROVE Shape'
  BY <1>0, <1>5 DEF Message
<1>6. CASE CreateSwap BY <1>0, <1>6 DEF CreateSwap
<1>7. CASE Elapse BY <1>0, <1>7 DEF TriggerTypeOK, Elapse, Counted
<1>8. CASE Shutdown BY <1>0, <1>8 DEF Shutdown
<1>9. CASE UNCHANGED triggerVars BY <1>0, <1>9 DEF triggerVars, watcherVars
<1> QED BY <1>1, <1>2, <1>3, <1>4, <1>5, <1>6, <1>7, <1>8, <1>9, TriggerCases

\* No step of a chain makes another appear, and before the stops none ends.
LEMMA NextOneChain ==
  ASSUME TriggerInv, [TriggerNext]_triggerVars
  PROVE  OneChain'
<1> USE DEF OneChain
<1>0. TriggerTypeOK /\ Shape /\ OneChain BY DEF TriggerInv
<1>1. CASE Fire \/ FinishTick \/ CronFires
  BY <1>0, <1>1 DEF Fire, FinishTick, CronFires, Trigger, tickVars, watcherVars
<1>2. ASSUME NEW l \in Loops, Advance(l) PROVE OneChain'
  <2>1. conn[l] # "none"
    BY <1>0, <1>2 DEF Shape, Advance, Connect, GetToken, SocketError, Off
  <2>2. \E place : place # "none" /\ conn' = [conn EXCEPT ![l] = place]
    BY <1>2 DEF Advance, Connect, GetToken, SocketError, MoveTo
  <2>3. stopped' = stopped
    BY <1>2 DEF Advance, Connect, GetToken, SocketError, tickVars
  <2> QED BY <1>0, <2>1, <2>2, <2>3 DEF TriggerTypeOK
<1>3. ASSUME NEW l \in Loops, Reschedule(l) PROVE OneChain'
  BY <1>0, <1>3 DEF TriggerTypeOK, Reschedule, FailToken, SocketClose, ScheduleReconnect, Schedule, tickVars
<1>4. ASSUME NEW l \in Loops, Open(l) PROVE OneChain'
  BY <1>0, <1>4 DEF TriggerTypeOK, Open, MoveTo, tickVars
<1>5. ASSUME NEW l \in Loops, Message(l) PROVE OneChain'
  BY <1>0, <1>5 DEF Message, Trigger, tickVars
<1>6. CASE CreateSwap \/ Elapse BY <1>0, <1>6 DEF CreateSwap, Elapse, tickVars
<1>7. CASE Shutdown BY <1>7 DEF Shutdown
<1>8. CASE UNCHANGED triggerVars BY <1>0, <1>8 DEF triggerVars, tickVars, watcherVars
<1> QED BY <1>1, <1>2, <1>3, <1>4, <1>5, <1>6, <1>7, <1>8, TriggerCases

\* The single chain carries every event: if its socket goes, none is open; if
\* it opens, the stream repeats what there is.
LEMMA NextPushReachesTick ==
  ASSUME TriggerInv, [TriggerNext]_triggerVars
  PROVE  PushReachesTick'
<1> USE TimingAssumption DEF Off, PushReachesTick
<1>0. TriggerTypeOK /\ Mutex /\ Shape /\ SeenCreated /\ OneChain /\ PushReachesTick BY DEF TriggerInv
<1>1. CASE Fire BY <1>1 DEF Fire
<1>2. CASE FinishTick
  BY <1>0, <1>2 DEF FinishTick, FollowUp, watcherVars, createdVars, Opened
<1>3. CASE CronFires
  BY <1>0, <1>3 DEF CronFires, Trigger, tickVars, watcherVars, createdVars, Opened
<1>4. ASSUME NEW l \in Loops, Connect(l) \/ GetToken(l) \/ FailToken(l) PROVE PushReachesTick'
  <2>1. conn[l] # "open" BY <1>0, <1>4 DEF Shape, Connect, GetToken, FailToken, Off
  <2>2. \E place : place # "open" /\ conn' = [conn EXCEPT ![l] = place]
    BY <1>4 DEF Connect, GetToken, FailToken, ScheduleReconnect, Schedule, MoveTo
  <2>3. Opened' = Opened BY <1>0, <2>1, <2>2 DEF TriggerTypeOK, Opened
  <2> QED BY <1>0, <1>4, <2>3 DEF Connect, GetToken, FailToken, tickVars, createdVars
<1>5. ASSUME NEW l \in Loops, SocketError(l) \/ SocketClose(l) PROVE PushReachesTick'
  <2>1. CASE stopped
    BY <1>5, <2>1 DEF SocketError, SocketClose, tickVars
  <2>2. CASE ~stopped
    <3>1. \A k \in Loops \ {l} : conn[k] = "none"
      BY <1>0, <1>5, <2>2 DEF OneChain, SocketError, SocketClose
    <3>2. \E place : place # "open" /\ conn' = [conn EXCEPT ![l] = place]
      BY <1>5 DEF SocketError, SocketClose, ScheduleReconnect, Schedule, MoveTo
    <3> QED BY <1>0, <3>1, <3>2 DEF TriggerTypeOK, Opened
  <2> QED BY <2>1, <2>2
<1>6. ASSUME NEW l \in Loops, Open(l) PROVE PushReachesTick'
  BY <1>0, <1>6 DEF Open, SeenCreated, createdVars
<1>7. ASSUME NEW l \in Loops, Message(l) PROVE PushReachesTick'
  BY <1>0, <1>7 DEF Message, Trigger, tickVars
<1>8. CASE CreateSwap BY <1>8 DEF CreateSwap, Opened
<1>9. CASE Elapse
  BY <1>0, <1>9 DEF TriggerTypeOK, Timer, Elapse, Counted, Opened, createdVars
<1>10. CASE Shutdown BY <1>10 DEF Shutdown
<1>11. CASE UNCHANGED triggerVars
  BY <1>0, <1>11 DEF triggerVars, tickVars, watcherVars, createdVars, Opened
<1> QED
  BY <1>1, <1>2, <1>3, <1>4, <1>5, <1>6, <1>7, <1>8, <1>9, <1>10, <1>11, TriggerCases
     DEF Advance, Reschedule

-----------------------------------------------------------------------------
(* The theorems.                                                           *)

\* The inductive invariant holds in every reachable state.
THEOREM TriggerInvariance == TriggerSpec => []TriggerInv
<1>1. TriggerInv /\ [TriggerNext]_triggerVars => TriggerInv'
  BY NextTriggerTypeOK, NextMutex, NextStopTakes, NextShape, NextOneChain, NextPushReachesTick DEF TriggerInv
<1> QED BY InitTriggers, <1>1, PTL DEF TriggerSpec

\* The timers, flags and chains are well typed (coalesced-tick.ts,
\* swap-stream-watcher.ts).
THEOREM TriggerTypeCorrect == TriggerSpec => []TriggerTypeOK
<1>1. TriggerInv => TriggerTypeOK BY DEF TriggerInv
<1> QED BY <1>1, TriggerInvariance, PTL

\* The watcher has exactly one connection or reconnection until shutdown;
\* stop() leaves no timer and no later step sets one.
THEOREM WatcherIsOneChain == TriggerSpec => []OneChainUntilStop
<1>1. TriggerInv => OneChainUntilStop BY DEF TriggerInv, OneChainUntilStop
<1> QED BY <1>1, TriggerInvariance, PTL

\* A swap created while the stream is up always has a tick coming.
THEOREM PushesReachTicks == TriggerSpec => []PushReachesTick
<1>1. TriggerInv => PushReachesTick BY DEF TriggerInv
<1> QED BY <1>1, TriggerInvariance, PTL

\* The coalescer implements the safety of TickRequests: ticks do not overlap
\* and none starts unasked or after stop().
THEOREM TicksDoNotOverlap == TriggerSpec => NoOverlap
<1> USE DEF Off
<1>1. TriggerInit => Promise!Init BY DEF TriggerInit, Promise!Init
<1>2. TriggerInv /\ [TriggerNext]_triggerVars => [Promise!Next]_(Promise!vars)
  <2> SUFFICES ASSUME TriggerInv, [TriggerNext]_triggerVars PROVE [Promise!Next]_(Promise!vars) OBVIOUS
  <2> USE DEF Promise!vars
  <2>0. TriggerTypeOK /\ Mutex /\ StopTakes BY DEF TriggerInv
  <2>1. CASE Fire
    <3>1. ~stopped /\ running = FALSE /\ queued = FALSE
      BY <2>0, <2>1 DEF Fire, TriggerTypeOK, Mutex, StopTakes
    <3>2. pendingTimer # Off /\ pendingTimer' = Off /\ running' = TRUE /\ queued' = queued
          /\ stopped' = stopped
      BY <2>1 DEF Fire
    <3> QED BY <3>1, <3>2 DEF Promise!Next, Promise!Start
  <2>2. CASE FinishTick
    <3>1. running = TRUE /\ running' = FALSE /\ stopped' = stopped /\ pendingTimer = Off
      BY <2>0, <2>2 DEF FinishTick, FollowUp, TriggerTypeOK, Mutex
    <3>2. CASE stopped BY <3>1, <3>2 DEF Promise!Next, Promise!Finish
    <3>3. CASE ~stopped /\ queued
      <4>1. queued' = FALSE /\ pendingTimer' # Off
        BY <2>2, <3>3, TimingAssumption DEF FinishTick, FollowUp
      <4> QED BY <3>1, <3>3, <4>1 DEF Promise!Next, Promise!Finish
    <3>4. CASE ~stopped /\ ~queued
      <4>1. queued' = queued /\ pendingTimer' = pendingTimer
        BY <2>2, <3>4 DEF FinishTick, FollowUp
      <4> QED BY <3>1, <3>4, <4>1 DEF Promise!Next, Promise!Finish
    <3> QED BY <3>2, <3>3, <3>4
  <2>3. ASSUME Trigger PROVE [Promise!Next]_(Promise!vars)
    BY <2>0, <2>3, TriggerFacts DEF Promise!Next, Promise!Request
  <2>4. ASSUME NEW l \in Loops, Advance(l) \/ Reschedule(l) \/ Open(l)
        PROVE  [Promise!Next]_(Promise!vars)
    BY <2>4 DEF Advance, Connect, GetToken, SocketError, Reschedule, FailToken, SocketClose,
                Open, tickVars
  <2>5. CASE CreateSwap BY <2>5 DEF CreateSwap, tickVars
  <2>6. CASE Elapse BY <2>0, <2>6 DEF Elapse, Counted, TriggerTypeOK, Timer
  <2>7. CASE Shutdown BY <2>0, <2>7 DEF Shutdown, TriggerTypeOK, Promise!Next, Promise!Close
  <2>8. CASE UNCHANGED triggerVars BY <2>8 DEF triggerVars, tickVars
  <2> QED
    BY <2>1, <2>2, <2>3, <2>4, <2>5, <2>6, <2>7, <2>8, TriggerCases DEF CronFires, Message
<1> QED BY <1>1, <1>2, TriggerInvariance, PTL DEF TriggerSpec, NoOverlap, Promise!Safety

=============================================================================
