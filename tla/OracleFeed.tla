----------------------------- MODULE OracleFeed -----------------------------
(***************************************************************************)
(* What the oracle puts on the ledger besides marks: what it seeds and     *)
(* back-fills at boot (oracle/src/index.ts, seed/index.ts, providers/      *)
(* daily-publisher.ts), the curves its ticker refreshes, and the daily and *)
(* the requested publications of the SOFR fixing (scheduler/scheduler.ts,  *)
(* api/handlers/admin.ts, services/ledger-publisher.ts).                   *)
(*                                                                         *)
(* A step is one request.  Each may fail, and may time out after it took   *)
(* effect (shared/ledger-client.ts); the process may die between any two.  *)
(* Values of rates are left out, but for the one FX spot, which is updated *)
(* when the configuration changed between two boots.                       *)
(***************************************************************************)
EXTENDS Integers, FiniteSets

CONSTANTS
  Indices,       \* floatingRateIndices of the configuration
  Stubbed,       \* the curves with pillars in demo.stubCurves
  Provided,      \* of these the ones whose provider has its contract: the
                 \* ledger's set-up creates it and nobody archives it
  Rates,         \* what demo.fxSpots may say of the pair
  Runs,          \* bound: runs of the daily job at a time
  Requests,      \* bound: publications requested over HTTP at a time
  Attempts,      \* DEFAULT_RETRY.attempts
  WindowDays,    \* DEFAULT_WINDOW_DAYS
  MaxDay,        \* bound: the last day
  MaxPosted,     \* bound: dates and indices observed by request
  Nobody         \* no index

ASSUME FeedAssumption ==
  /\ Indices # {}
  /\ Stubbed # {}
  /\ Provided \subseteq Indices \union Stubbed
  /\ Nobody \notin Indices
  /\ Attempts \in Nat \ {0}
  /\ WindowDays \in Nat \ {0}
  /\ MaxDay \in Nat \ {0}
  /\ MaxPosted \in Nat

Publishers == Runs \union Requests

\* The two curves of a publication of SOFR.
Discount == "USD discount"
Projection == "USD projection"
Curves == Stubbed \union {Discount, Projection}

Days == (1 - WindowDays)..MaxDay
Never == -WindowDays

VARIABLES
  today,
  indices, spot,             \* FloatingRateIndex and FxSpot contracts
  curve,                     \* asOf of the Curve of each key
  snapshots,                 \* the CurveSnapshots, by key and asOf
  fixings,                   \* the dates PublishCurve was exercised for
  posted,                    \* the (index, date) a request observed
  filled,                    \* how often the window observed an (index, date)
  stage,                     \* how far main() got
  todo,                      \* what is left of its present loop
  wanted,                    \* the FX spot of the configuration it loaded
  windowDay,                 \* asOf of the window
  index, missing,            \* the index in work, and its days yet to observe
  complete,                  \* the window was published to its end
  at, date, tries,           \* of each publication
  lastSuccess, failing       \* in the State that /api/health shows

ledgerVars == <<indices, spot, curve, snapshots, fixings, posted, filled>>
bootVars == <<stage, todo, wanted, windowDay, index, missing, complete>>
publicationVars == <<at, date, tries, lastSuccess, failing>>
vars == <<today, ledgerVars, bootVars, publicationVars>>

Init ==
  /\ today = 1
  /\ indices = {}
  /\ spot = "none"
  /\ curve = [c \in Curves |-> Never]
  /\ snapshots = {}
  /\ fixings = {}
  /\ posted = {}
  /\ filled = [k \in Indices \X Days |-> 0]
  /\ stage = "down"
  /\ todo = {}
  /\ wanted = "none"
  /\ windowDay = 1
  /\ index = Nobody
  /\ missing = {}
  /\ complete = FALSE
  /\ at = [p \in Publishers |-> "idle"]
  /\ date = [p \in Publishers |-> 1]
  /\ tries = [p \in Publishers |-> 0]
  /\ lastSuccess = Never
  /\ failing = FALSE

\* What comes of a request: it is answered, it fails, or it takes effect and
\* the answer is lost.
Answers == {"ok", "failed", "lost"}
TookEffect(answer) == answer # "failed"

-----------------------------------------------------------------------------
(* The ledger.                                                             *)

\* publishCurve of Interface.daml: the Curve of the key is replaced and its
\* snapshot created, in one transaction.
PublishOnLedger(c, asOf) ==
  /\ curve' = [curve EXCEPT ![c] = asOf]
  /\ snapshots' = snapshots \union {<<c, asOf>>}

PublishIf(took, c, asOf) ==
  IF took THEN PublishOnLedger(c, asOf) ELSE UNCHANGED <<curve, snapshots>>

-----------------------------------------------------------------------------
(* main()                                                                  *)

Boot ==
  /\ stage = "down"
  /\ stage' = "indices"
  /\ todo' = Indices
  /\ wanted' \in Rates
  /\ UNCHANGED <<today, ledgerVars, windowDay, index, missing, complete, publicationVars>>

\* The loop goes on with what is left, or main() with its next stage.
Proceed(left, next, items) ==
  /\ todo' = IF left = {} THEN items ELSE left
  /\ stage' = IF left = {} THEN next ELSE stage

\* main() throws: process.exit(1), and a supervisor starts it again.
Die ==
  /\ stage' = "down"
  /\ todo' = {}
  /\ index' = Nobody
  /\ missing' = {}
  /\ complete' = FALSE
  /\ windowDay' = 1
  /\ at' = [p \in Publishers |-> "idle"]
  /\ date' = [p \in Publishers |-> 1]
  /\ tries' = [p \in Publishers |-> 0]
  /\ lastSuccess' = Never
  /\ failing' = FALSE
  /\ UNCHANGED <<today, wanted>>

\* seedIndices: an index that cannot be looked up or created is logged and
\* left out.
SeedIndex(i, answer) ==
  /\ stage = "indices"
  /\ i \in todo
  /\ indices' = IF TookEffect(answer) THEN indices \union {i} ELSE indices
  /\ Proceed(todo \ {i}, "curves", Stubbed)
  /\ UNCHANGED <<today, spot, curve, snapshots, fixings, posted, filled, wanted, windowDay,
                 index, missing, complete, publicationVars>>

\* seedCurves, which publishes at every boot and lets a failure end it; publishCurveViaProvider
\* passes over, with a warning, a curve whose provider it does not find.
SeedCurve(c, answer) ==
  /\ stage = "curves"
  /\ c \in todo
  /\ PublishIf(TookEffect(answer) /\ c \in Provided, c, today)
  /\ IF answer = "ok"
     THEN /\ Proceed(todo \ {c}, "spot", {})
          /\ UNCHANGED <<today, wanted, windowDay, index, missing, complete, publicationVars>>
     ELSE Die
  /\ UNCHANGED <<indices, spot, fixings, posted, filled>>

\* The ticker has been started, and the window takes its asOf.
ToWindow ==
  /\ stage' = "window"
  /\ todo' = Indices
  /\ windowDay' = today

\* seedFxSpots creates the pair's contract or updates its rate.
SeedSpot(answer) ==
  /\ stage = "spot"
  /\ spot' = IF TookEffect(answer) THEN wanted ELSE spot
  /\ IF answer = "ok"
     THEN /\ ToWindow
          /\ UNCHANGED <<today, wanted, index, missing, complete, publicationVars>>
     ELSE Die
  /\ UNCHANGED <<indices, curve, snapshots, fixings, posted, filled>>

\* resolveQualifiedParties found no party and answered null.
SkipSpot ==
  /\ stage = "spot"
  /\ ToWindow
  /\ UNCHANGED <<today, ledgerVars, wanted, index, missing, complete, publicationVars>>

Observed(i, d) == <<i, d>> \in posted \/ filled[<<i, d>>] > 0

\* The N calendar days strictly before asOf.
WindowOf(asOf) == (asOf - WindowDays)..(asOf - 1)

\* Mutant of MissingDays: nothing on the ledger is heeded.
MissingAll(i) == WindowOf(windowDay)

\* listObservations, and the days of the window it does not have.
MissingDays(i) == {d \in WindowOf(windowDay) : ~Observed(i, d)}

ToServing(published) ==
  /\ stage' = "serving"
  /\ todo' = {}
  /\ index' = Nobody
  /\ missing' = {}
  /\ complete' = published

\* An index has no day left to observe, or is passed over.
IndexDone(i) ==
  IF todo = {i} THEN ToServing(TRUE)
  ELSE /\ todo' = todo \ {i}
       /\ index' = Nobody
       /\ missing' = {}
       /\ UNCHANGED <<stage, complete>>

\* One whose provider is not configured or not found is passed over.
ListIndex(i) ==
  /\ stage = "window"
  /\ index = Nobody
  /\ i \in todo
  /\ IF i \notin Provided \/ MissingDays(i) = {} THEN IndexDone(i)
     ELSE /\ index' = i
          /\ missing' = MissingDays(i)
          /\ UNCHANGED <<stage, todo, complete>>
  /\ UNCHANGED <<today, ledgerVars, wanted, windowDay, publicationVars>>

\* One day, the oldest first; an error ends the whole window but not main().
Observe(d, answer) ==
  /\ stage = "window"
  /\ d \in missing
  /\ \A e \in missing : d <= e
  /\ filled' = IF TookEffect(answer) /\ filled[<<index, d>>] < 2
               THEN [filled EXCEPT ![<<index, d>>] = @ + 1] ELSE filled
  /\ CASE answer # "ok" -> ToServing(FALSE)
       [] answer = "ok" /\ missing = {d} -> IndexDone(index)
       [] OTHER -> /\ missing' = missing \ {d}
                   /\ UNCHANGED <<stage, todo, index, complete>>
  /\ UNCHANGED <<today, indices, spot, curve, snapshots, fixings, posted, wanted, windowDay,
                 publicationVars>>

\* A query, or bootstrapNyFedRateLookup, fails.
WindowFails ==
  /\ stage = "window"
  /\ index = Nobody
  /\ ToServing(FALSE)
  /\ UNCHANGED <<today, ledgerVars, wanted, windowDay, publicationVars>>

Crash ==
  /\ stage # "down"
  /\ Die
  /\ UNCHANGED ledgerVars

-----------------------------------------------------------------------------
(* The ticker.                                                             *)

\* One curve's part of a tick, which wants its provider too; one that fails is
\* logged and waits for the next.
TickCurve(c) ==
  /\ stage \in {"window", "serving"}
  /\ c \in Stubbed \intersect Provided
  /\ PublishOnLedger(c, today)
  /\ UNCHANGED <<today, indices, spot, fixings, posted, filled, bootVars, publicationVars>>

-----------------------------------------------------------------------------
(* Publications.                                                           *)

\* handlePublishRate, for a day since the first boot.
PostRate(i, d) ==
  /\ stage = "serving"
  /\ d \in 1..today
  /\ Cardinality(posted) < MaxPosted
  /\ posted' = posted \union {<<i, d>>}
  /\ UNCHANGED <<today, indices, spot, curve, snapshots, fixings, filled, bootVars,
                 publicationVars>>

\* The daily job starts for today, a request for the day its body names, here
\* also one since the first boot.
Begin(p, d) ==
  /\ stage = "serving"
  /\ at[p] = "idle"
  /\ IF p \in Runs THEN d = today ELSE d \in 1..today
  /\ at' = [at EXCEPT ![p] = "fetch"]
  /\ date' = [date EXCEPT ![p] = d]
  /\ UNCHANGED <<today, ledgerVars, bootVars, tries, lastSuccess, failing>>

GoTo(p, next) ==
  /\ at' = [at EXCEPT ![p] = next]
  /\ UNCHANGED <<date, tries, lastSuccess, failing>>

\* The run or the request is over.
End(p) ==
  /\ at' = [at EXCEPT ![p] = "idle"]
  /\ date' = [date EXCEPT ![p] = 1]
  /\ tries' = [tries EXCEPT ![p] = 0]

StartsAfresh(p) ==
  /\ at' = [at EXCEPT ![p] = "fetch"]
  /\ UNCHANGED <<date, lastSuccess, failing>>

\* withRetry starts the run afresh until its attempts are used up; a request
\* is answered, with 500 or, when the curves failed, with 200.
Fails(p) ==
  \/ /\ p \in Runs
     /\ tries[p] + 1 < Attempts
     /\ StartsAfresh(p)
     /\ tries' = [tries EXCEPT ![p] = @ + 1]
  \/ /\ p \in Runs
     /\ tries[p] + 1 >= Attempts
     /\ End(p)
     /\ failing' = TRUE
     /\ UNCHANGED lastSuccess
  \/ /\ p \in Requests
     /\ End(p)
     /\ UNCHANGED <<lastSuccess, failing>>

Succeeds(p) ==
  /\ End(p)
  /\ lastSuccess' = IF p \in Runs THEN date[p] ELSE lastSuccess
  /\ failing' = IF p \in Runs THEN FALSE ELSE failing

\* fetchAndBuildCurve
Fetch(p, answer) ==
  /\ at[p] = "fetch"
  /\ IF answer = "ok" THEN GoTo(p, "fixings") ELSE Fails(p)
  /\ UNCHANGED <<today, ledgerVars, bootVars>>

\* LedgerPublisher.publishCurve.  Its query for the observations of the date
\* names a template of which there are no contracts, so it never skips.
PublishFixings(p, answer) ==
  /\ at[p] = "fixings"
  /\ fixings' = IF TookEffect(answer) THEN fixings \union {date[p]} ELSE fixings
  /\ IF answer = "ok" THEN GoTo(p, "discount") ELSE Fails(p)
  /\ UNCHANGED <<today, indices, spot, curve, snapshots, posted, filled, bootVars>>

\* Mutant of PublishDiscount: success is recorded before the second curve.
DiscountIsEnough(p, answer) ==
  /\ at[p] = "discount"
  /\ PublishIf(TookEffect(answer), Discount, date[p])
  /\ IF answer = "ok" THEN Succeeds(p) ELSE Fails(p)
  /\ UNCHANGED <<today, indices, spot, fixings, posted, filled, bootVars>>

PublishDiscount(p, answer) ==
  /\ at[p] = "discount"
  /\ PublishIf(TookEffect(answer), Discount, date[p])
  /\ IF answer = "ok" THEN GoTo(p, "projection") ELSE Fails(p)
  /\ UNCHANGED <<today, indices, spot, fixings, posted, filled, bootVars>>

PublishProjection(p, answer) ==
  /\ at[p] = "projection"
  /\ PublishIf(TookEffect(answer), Projection, date[p])
  /\ IF answer = "ok" THEN Succeeds(p) ELSE Fails(p)
  /\ UNCHANGED <<today, indices, spot, fixings, posted, filled, bootVars>>

Step(p) ==
  \E answer \in Answers :
    \/ Fetch(p, answer)
    \/ PublishFixings(p, answer)
    \/ PublishDiscount(p, answer)
    \/ PublishProjection(p, answer)

Midnight ==
  /\ today < MaxDay
  /\ today' = today + 1
  /\ UNCHANGED <<ledgerVars, bootVars, publicationVars>>

Next ==
  \/ Boot \/ SkipSpot \/ WindowFails \/ Crash \/ Midnight
  \/ \E answer \in Answers :
       \/ \E i \in Indices : SeedIndex(i, answer)
       \/ \E c \in Stubbed : SeedCurve(c, answer)
       \/ SeedSpot(answer)
       \/ \E d \in missing : Observe(d, answer)
  \/ \E i \in Indices : ListIndex(i) \/ \E d \in Days : PostRate(i, d)
  \/ \E c \in Stubbed : TickCurve(c)
  \/ \E p \in Publishers : Step(p) \/ \E d \in Days : Begin(p, d)

Spec == Init /\ [][Next]_vars

-----------------------------------------------------------------------------
(* Properties.                                                             *)

\* The day /api/health calls published is: its fixings and both of its curves
\* were put on the ledger, whatever failed, was retried or interfered.
HealthIsTruthful ==
  lastSuccess # Never =>
    /\ lastSuccess \in fixings
    /\ <<Discount, lastSuccess>> \in snapshots
    /\ <<Projection, lastSuccess>> \in snapshots

\* Whatever boots died on the way and whatever answers were lost, the window
\* observes no day twice and leaves, when it gets to its end, no day unobserved
\* of an index whose provider there is.
WindowOnce ==
  /\ \A k \in Indices \X Days : filled[k] =< 1
  /\ complete => \A i \in Indices \intersect Provided, d \in WindowOf(windowDay) :
                   Observed(i, d)

\* From the ticker's start on, and so whenever HTTP is open, there is a curve
\* for each that has stub pillars and a provider, although a boot may have died
\* among them.  A stubbed curve without a provider does not keep HTTP closed.
ServesSeeded ==
  stage \in {"window", "serving"} => \A c \in Stubbed \intersect Provided : curve[c] # Never

=============================================================================
