# IRSForge in TLA+

A verification project for IRSForge: interest rate swaps and their collateral
agreements as Daml contracts (`contracts/`), the off-ledger services that
automate them (`oracle/`), and the clients (`app/`, `auth/`). The modules model
the program's control, TLC checks them on small instances, and TLAPS proves the
safety of all components for every instance. Paths below are relative to the
repository's root.

## 1. Inventory

| Component | State it keeps | Operations | What is hard |
|---|---|---|---|
| Csa contract (`contracts/src/Csa`) | signed balance `csb`, margin-call `state`, `lastMarkCid`, `activeDispute`; marks, dispute records, shortfalls | post, withdraw, publish mark, settle VM, dispute, escalate, agree, acknowledge | four actors interleave; a choice is refused or taken by state; freezing and unfreezing |
| Margin arithmetic (`Csa/Math.daml`, `mark-publisher/formula.ts`) | none | required pledge, target, gated call | two copies in two languages; rounding, ties, signs |
| Mark publisher (`oracle/src/services/mark-publisher`) | none between ticks | read, price, publish, maybe settle | every exercise archives the version others hold; decisions on data read earlier; lost ticks |
| Coalesced tick, swap stream watcher | mutex, debounce timer, queued flag; stream and reconnection timer | request, fire, stop | timers against running ticks and shutdown |
| Lifecycle scheduler (`oracle/src/services/scheduler`) | none: everything is read from the ledger | trigger, settle-net and mature ticks on crons of their own | uncoordinated crons, no overrun protection, idempotency by query |
| Swap workflow, netted settlement, audit (`contracts/src/Swap`, `Csa/Netting.daml`, `Audit`) | workflow, effects, netted batches, audit rows | trigger, settle, net, mature | stale holdings, workflows retired under way |
| Termination (`Swap/Terminate.daml`) | proposals naming a workflow | propose, accept with buyout, reject, withdraw | races maturity and other proposals |
| CSA clients (`app/src/features/csa`) | the version each page shows, the click under way | six operations, with retry on contention; polling | retries with the old arguments, lost and late answers |
| Proposals and operator policy (`Swap/*Proposal*.daml`, `Operator/Policy.daml`, `app/src/features/workspace`) | proposals, acknowledgements, policies; drafts and previews | propose, accept, acknowledge, confirm, cancel, reject, withdraw, set the mode, in nine families and for the CSA | acknowledgement against cancellation and policy changes; conversions between legs, payload and instrument |
| Oracle publication (`oracle/src/index.ts`, `scheduler`, `seed`, `providers`, `services/ledger-publisher.ts`) | stage of the boot, cached rates, health | seeds, back-fill window, daily job with retries, two HTTP endpoints, curve ticker | query-then-publish, partial success then retry, deaths between requests |
| Authentication service (`auth/src`) | refresh tokens, login states, handoff codes, keys | login, refresh with rotation, logout | two tabs with one cookie, lost answers |
| Browser sessions (`app/src/shared/contexts`) | session, timer and calls of each tab; the cookie and the identity they share | restore, silent refresh, re-mint, login, logout | answers that arrive after something else happened |
| Browser's live ledger views (`app/src/shared/hooks`, `ledger`, `layout`, `features/operator/hooks`) | health, canary baseline, cooldown; a socket, its retry budget, records | notice a replaced ledger, mint a token for it; subscribe, retry, fall back | answers of any age, events lost with their socket |
| Workspace page of a swap (`app/src/features/workspace/hooks`, `components`) | status, role, legs, What-If, workflow and unwind found | open by contract id, find by queries, hydrate, What-If, accept, reject, withdraw, propose and answer an unwind | queries of several effect runs answered in any order; which workflow is the page's |
| Service tokens (`oracle/src/authz`) | one token and its timer | renew | see 7 |
| Valuation (`shared-pricing/src`, `app/src/features/blotter`, `oracle/src/services/mark-publisher`) | none; the market it reads changes | schedule, coupons, value, theta, carry, roll, accrued interest; three decoders of an instrument, three contexts; netted exposure | one number computed in three places; windows, cutoffs, signs and calendars at their boundaries |
| Web screens, set-up, configuration | | | not concurrent, or presentation: see 7 |

Interaction: the services and the browsers talk to the ledger only. A client
queries contracts, then exercises a choice on a contract id; a consuming choice
archives that contract and creates its successor under a new id, and an
exercise on an archived id fails. One choice, with all it calls, is one ledger
transaction. So the unit of atomicity in every module is a choice, and
concurrency is what happens between one request of a client and its next.

What makes each part correct: the agreement's collateral is accounted for and
frozen during disputes, disputes are resolved by the right side, a call rests
on an undisputed mark and can be cured; the publisher leaves every agreement
assessed; a click takes effect once and is reported truly; a coupon is paid
once, audited, before its swap ends, and every swap ends whose maturity the scheduler
finds; a proposal is decided
once, by right, and becomes the trade that was entered; what the oracle reports
as published is on the ledger; a login has one live token and a tab neither
keeps a dead session nor loses a live one; a tab whose ledger was replaced gets
a token for the new one, and the operator's queue misses nothing; a page acts on
the swap it was opened for and on what it shows. PROJECT.json lists, under
`hazards`, where each of these could go wrong.

## 2. Modules

| Module | Models | Extends |
|---|---|---|
| `CsaMath` | both copies of the margin formulas | |
| `MarginCalls` | agreements that get marked, and what a call is, said without a quotient | `CsaMath` |
| `Pricing` | the engine: coupon periods, accruals, a swap's flows by type, its value and what is derived from it | |
| `AccrualRules` | what a floating leg is to accrue, said of days and fixings | `Pricing` |
| `Valuation` | the three readers of a swap (page, blotter, publisher), their configurations and contexts, the exposure of a netting set | `CsaMath`, `Pricing` |
| `SwapValues` | what a swap is shown to be worth as days pass, said of days, payments and signs | `Valuation`, `AccrualRules` |
| `MCFormulas` | the margin formulas and the valuation over small inputs | `MarginCalls`, `SwapValues` |
| `Csa` | one agreement; one action per choice | `CsaMath` |
| `MarginAgreement` | what an agreement promises: stakes, phases, who unfreezes | |
| `MarkPublisher` | ticks of the publisher beside the agreement | `Csa` |
| `MarkTrigger` | coalescer, stream watcher, cron, shutdown | |
| `TickRequests` | what whoever asks for a tick is promised | |
| `SwapSettlement` | scheduler ticks, swap choices, netting, audit, termination | |
| `CsaClients` | the pages that show an agreement, their clicks and retries | `Csa` |
| `SwapTerms` | per family: legs to payload and back, what templates ensure, the instrument, the swap on display | |
| `Proposals` | how a swap comes about: delegation, policy, browsers, acknowledgement | `SwapTerms` |
| `TradeConsent` | what proposing promises: decided once, by right, on a standing consent | |
| `OracleFeed` | the oracle's boot, its seeds and window, daily and requested publications | |
| `Sessions` | refresh tokens, their handlers, and the tabs of one browser | |
| `SandboxRotation` | a tab that notices that its ledger was replaced | |
| `OperatorQueue` | the operator's queue over that tab's sockets | `SandboxRotation` |
| `SwapPage` | a trader's page of one swap: queries, hydration, What-If, buttons | |
| `CsaProofs`, `OracleProofs`, `SwapSettlementProofs`, `ProposalsProofs`, `SessionsProofs`, `OperatorQueueProofs`, `SwapPageProofs`, `ValuationProofs` | the theorems | the module named, `CsaProofs` the clients, the publisher and `MarginCalls` too, `OracleProofs` `MarkTrigger` and `OracleFeed`, `ValuationProofs` `SwapValues` |
| `MCCsa`, `MCCsaClients`, `MCMarkPublisher`, `MCMarkTrigger`, `MCSwapSettlement`, `MCProposals`, `MCOracleFeed`, `MCOperatorQueue`, `MCSwapPage` | values of the constants for TLC (`Sessions` needs none) | |

`MarkPublisher` and `CsaClients` each compose the agreement with those who
exercise on it, `OperatorQueue` the queue with the tab it lives in.
`MarginAgreement`, `TickRequests` and `TradeConsent` are abstract specifications
that `Csa`, `MarkTrigger` and `Proposals` are shown to implement.

**Csa.** `csb`, `state`, `lastMarkCid`, `activeDispute` are the template's
fields; `marks`, `disputes`, `shortfall` the contracts it creates, a position
standing for a contract id; 0 is `None`. `pledged` and `actor` are history: what
each party put in and took out, and who controlled the last choice. An
`assertMsg`, an `abort` or a failing fetch is a guard. Only `valuationCcy` is
accepted as collateral, so the balance is one number. Amounts are integers of
some smallest unit; the rounding of a quotient is modelled as each language
does it. A mark also remembers its origin (a tick, a tick during a dispute, a
resolution), which the properties need and no action reads. `relatedMark`
of a shortfall is the mark it was assessed on; the contract keeps it as text.

**Pricing, Valuation.** Pure functions of a swap, a market and a day. `CouponPeriods`
is `generateScheduleDates` with its `setMonth`, `LedgerEnds` the periods Daml
Finance settles; months have their lengths, years no 29th of February.
`Accruals` is the loop of `calcCompoundedCashflow`: which days accrue at which
fixing, which on the curve. The `...Flows` are the strategies' cashflows, one
operator per strategy, `LegPv` what counts of them, `InValue` the conversion.
Rates are whole percents and a year has `Unit` parts, so all amounts are
integers; curves are flat, the discount factor is 1, and interest on interest is
left out: the properties are about days, signs, currencies and which flows
count, none of which these change. A curve's last pillar stays, because an asset
leg pays at it. `PageConfig`, `BlotterConfig` and `MarkConfig` are the three
decoders of an instrument, `PageContext`, `BlotterContext` and `MarkContext` what
each takes of the market; `NoConfig` is a decoder that throws, or a type it has
no configuration for. A swap is read with the streams the ledger holds;
`ownerReceives` is that the owner, partyA, receives the fixed side. `SwapValues` has
one variable besides the day, the swap a reader looks at: of which swaps, in which
market and on which days are its constants, of which `ValuationInputs` assumes the
sides an instrument of the type has, dates in the calendar and the spots between the
swap's currencies.

**MarkPublisher.** `pub[p]` is a tick of publisher `p`: where it stands, the
state and balance it read, the exposure it priced, and `fresh`, whether the
version it holds is live. Every consuming choice of anybody makes every other
holder stale (`Rotated`). The service's coalesced tick is a mutex, so there is
one regular tick; `Stray` is one outside it, of an overlapping process or with
a timed-out request that still lands. `LoseTick` is an error, a timeout or a
restart at any point. The queries for workflows, curves and spots and the
pricing are one step that reads `market`.

**MarkTrigger.** `running`, `queued`, `pendingTimer`, `stopped` are the
coalescer's variables, `conn[l]` is where a chain of `connect()`, socket and
reconnection timer stands; there is one chain unless the watcher starts a
second, which the model leaves room for. `backoff` is the delay that the next
`scheduleReconnect` takes. Timers count down in `Elapse`, which waits for those
that are due. `unseen` is history: a swap was created since a tick last
started. The stream is external: a subscription begins with the contracts there
are, events are lost with their socket. The stops of `shutdown` are one step, as
nothing is awaited between them.

**SwapSettlement.** One netting set. `trigger`, `settle` and `mature` are the
ticks under way with what they have read; the sets are consumed in any order,
as query results come in none. Queries that cannot be told apart from one query
at the moment of the last are merged: between them nothing can happen that a
tick would notice in one order and not in the other. The query for holdings is
a step of its own, because a settlement between it and the query for batches is
what a double payment needs. `csaFresh` and `fresh` say whether the Csa and
each party's holding are still as read. Choices by hand, overlapping runs, a
rotated Csa, a request that fails for another reason (`RequestFails`: the loop logs
it and goes on) and a restart are disturbances, counted by kind. `Fpml` are the swaps
of FpML instruments, BASIS and XCCY among them, whose maturity `instrument-maturity.ts`
does not look up (`MaturityFound`): the mature tick passes them over, and only the
operator or a termination ends them.

External, modelled from its use: `Evolve` of Daml Finance yields one effect on a
payment day of an instrument and none on others, and never archives an earlier
one; `Calculate` gives the coupon relative to the swap's own partyA; `Split`
archives the holding; the settlement chain moves the net or aborts. Holdings are
ample, so settlement fails for staleness only. `ShowsIds` is what `show` of a
ContractId gives inside a choice, which decides whether `settledEffects` names
effects at all: the scheduler is written for TRUE, and everything the
`settlement` run shows is under that assumption; see 5 for FALSE.

**CsaClients.** `page[u]` is the version a user's page shows, `click[u]` the last
thing he confirmed: the choice with its argument, the version it names
(`fresh`: still the live one), the attempt, and how far it is. `Confirm` is a
handler of one of the dialogs up to its first await, `Offers` what the dialogs
let through. `NotFound`, `Retries` and `ResolveFails` are the loop of
`exerciseCsaWithRetry`; `NoAnswer` is the client's timeout, after which the
request lands or vanishes before the user's next click. `Lands` is the choice of
`Csa` itself, `OthersExercise` any choice of anybody by another client. A page
is polled in one step. `effects` is history.

**SwapTerms, Proposals.** A draft is what a trader entered: a family, legs, a
start and a term; the rate of a floating leg is its spread. `Payload` is
`buildProposalPayload`, `Refused` what it refuses to send, `Preview` the
`hydrate...` functions of a proposal's page, `Ensures` the templates' ensure
clauses, `Fits` what Daml Finance needs to make a schedule, `InstrumentId` the id
the acceptance registers the instrument under, and `Live` what the swap's page
makes of that instrument, through the streams of `legToSwapStream` where it has
them. `AsEntered` follows the legs all the way from the draft to the last of these.
Nine families are one protocol with these
parameters; the CSA's proposal is a tenth without indices, policy or instrument.
`status` is that of each proposal contract, `ackOf` the proposal an `AcceptAck`
is about, `manual` the families whose `OperatorPolicy` stands at Manual. The
counterparty's browser reads the policy and resolves an index (`route`, `held`)
before it exercises; everything else may happen in between. A trade is
registered under an instrument id, so a second acceptance of it fails.

**OracleFeed.** `stage` is how far `main()` got, `todo` what is left of its
present loop, `at[p]` where a run of the daily job or a request is. Each step is
one request whose answer is ok, refused, or lost after it took effect; `Crash`
ends the process at any point. `filled` counts observations of the window per
index and day; `lastSuccess` is what the health endpoint shows. `Provided` are the
curves and indices whose provider is configured and on the ledger: the boot passes
over the others with a warning and serves all the same, so what it promises is about
these. Whatever error ends the window ends it as a whole, and the boot goes on.

**Sessions.** A token is its login and generation. A call is sent with the cookie
of that moment, handled, and its answer is received or lost at any later time;
`call[t][k]` is how far. A refresh token expires and a timer fires whenever it is
looked at. `restore`, `silent` and `remint` go through `handleRefresh`, and differ
in what the tab does with the answer. `faults` counts lost answers, expiries and
restarts of the service, which keeps its tokens in memory.

**SandboxRotation, OperatorQueue.** `boot` numbers the incarnations of the
sandbox, `token` is the boot whose parties the tab's token names, or `Bare` if it
was minted when there were none; a query with the token of another boot succeeds
and is empty. `baseline`, `cooling` and `fails` are the two buses' variables,
`asks` the canary query under way with each token, `mint` a re-mint of the demo's
login (the OIDC one, which keeps the parties of its first token, is left out). A restart
takes longer than the timeouts of client and proxy, so answers of the boot
before have come by then. `conn`, `budget` and `wire` are one subscription:
where its socket is, its retries, and the events not delivered yet; `records` is
what the hook keeps of them. `missed` is history.

**SwapPage.** The page's variables are those of the reducer and of
`useActiveContracts`; a swap's name stands for the contract ids of its proposal
and its workflow, of which no choice changes the latter. `asked` are the queries
under way: each is answered by the ledger at one moment (`QueryAnswered`) and its
`then` runs at a later one (`ShowWorkflow`, `ShowUnwind`), after those of a later
effect run perhaps. `Reruns` is React's list of dependencies. Of the legs the
notional is kept, whether the trader turned their directions (`ToggleDirection`, the
one edit that What-If does not lock), and whose they are, which is history.
`ProposalLegs` are those of a proposal, which of an XCCY swap are `hydrateCcy`'s and of no
swap; `TakenForCcy` is that its choices then name the wrong template. `call` is a command
between its click and its dispatch, one at a time, although the panel does not disable
its buttons meanwhile; `Lands` is its request, `Elsewhere` whatever
anybody else does to the swaps and their unwinds. The page is a trader's: the
operator's buttons for trigger, settle and mature are not offered to him.

## 3. Runs

| Run | States | Shows |
|---|---|---|
| `formulas` | 6,516 | the margin formulas are what nearest multiples and least pledges define, and their copies agree but on one kind of tie; coupons accrue each day once, values move by what is paid, page, blotter and mark agree, exposures net: each with the exceptions it states |
| `csa` | 370,000 | safety of the agreement, and that it implements `MarginAgreement` |
| `csa_clients` | 1,313,000 | a click takes effect at most once, is reported truly, and unless retried acts on what the page showed |
| `mark_publisher` | 638,000 | no stale assessment, sound skipping, eventual assessment |
| `mark_trigger` | 24,000 | no overlapping ticks, no lost push, one chain of connections, clean stop, every swap seen; implements `TickRequests` |
| `settlement` | 441,000 | paid once, one effect per coupon, audit, ends that are final and nothing paid after them, an eventual end of all whose maturity is found |
| `proposals` | 814,000 | a trade made once, nothing offered that cannot be accepted, a faithful preview and swap; implements `TradeConsent` |
| `oracle_feed` | 2,888,000 | health tells the truth, the window observes each day once |
| `sessions` | 127,000 | no dead cookie without a fault, dead sessions end |
| `operator_queue` | 270,510 | the queue is current, the canary right, the tab recovers, every contract is listed in the end |
| `swap_page` | 3,697,000 | the page acts on what it shows, stays with its swap, and comes to rest on it |
| `stranded_coupon` | | a violation, see 5 |

Bounds. `formulas`: all exposures and balances of a small range; for the valuation a
swap of every type, by each day count its readers treat differently, of three
terms: one that ends on a regular date, one in a stub, and one over a February
that lacks its day. It is looked at on every date something is due, on the eve of
it and forty days on, with fixings every other week, so that a coupon has
several and some begin between two; a lookback of none and of two with a
projection that is the discount curve's or is not. The calendar ends after the
term, hence its CHECK_DEADLOCK FALSE. `csa`: exposures -4 and 4 and amounts 1 and 3 around a threshold of 1, a minimum
transfer of 2 and a rounding of 3 make calls on both sides, calls under the
minimum, and calls rounded up and down; three marks and two disputes are enough
for a mark before, during and after a dispute and a second dispute of the other
side. `mark_publisher`: no choice reads a mark before the last, so old ones are
forgotten (`KeepMarks`), which lets ticks go on for ever; three moves by others
suffice to disturb a tick between its requests and undo it again, one fault to
lose or stray a tick. `settlement`: two swaps of opposite orientation whose
coupons net to zero, one of them FpML, and a third that pays the next day; one kind of
disturbance per behaviour. Sequences of two kinds of disturbance are too many
states for a run; the double payment, which is the one property that would
need them, is exempted by `overlap` and by settlement by hand.
`csa_clients`: one party's page and the operator's, one click each, and three
choices by others, who are the other party, the publisher and these two users by
other means. That is a mark, a dispute, the operator's resolution by a click of
his own and a second dispute, all between a click on "Agree" and its retry, and
enough rotations to use up the four attempts. One exposure suffices: disputes
are told apart by their records.
`proposals`: two proposals, so that one trade is made twice or two
trades race, two acknowledgements, two changes of policy. The drafts are the
workspace's default legs of each family and one for each condition that
`SwapTerms` tells apart (an unconfigured currency, equal currencies, a zero rate or
notional, a negative minimum, a short and a long term, an outsider).
`oracle_feed`: two stubbed curves and two indices, one of each without a provider, two
days, a window of two, two attempts, one run of the job beside one request, deaths and lost answers without bound, since they leave no trace
but in the state. `sessions`: two tabs, two logins of which each token rotates
once and the last one counts as expired, one fault, one call at a time beyond
those of timers and page loads. `operator_queue`: one restart of the sandbox, one
outage, one renewal of the token and one contract; with two contracts the
records would be two independent copies.
`swap_page`: two swaps, live or proposed, one of them with the notional a page
begins with and one cross-currency; three queries under way, so that those of two
effect runs overlap; one unwind at a time; of five kinds of event (a notional
entered in What-If, legs turned with What-If on, or off, a step by somebody else, a
failed query) each once, and those pairs that may excuse or undo each other
(`MCTogether`). Clicks, What-If and
late answers have no bound, nor do the trader's own unwinds.

`mark_trigger`: the first
reconnection delay is four times the debounce, as in the code, the cron's period
shorter than it and the cap reached at the second failure; three swaps are
enough for one before, during and after a tick.

Fairness. `MarkPublisher`: the cron fires for ever, and a request returns or
times out after five seconds, so the service starts ticks and goes on with
them; parties, market, strays and faults owe nothing and are finitely many, so
the liveness property speaks of a market that has come to rest. `MarkTrigger`: timers
fire and a tick returns, since its requests time out; tokens, sockets and
swaps owe nothing. The swaps are finitely many: every request re-arms the
debounce timer, so swaps that arrive closer together than 250 ms without end
would put the tick off for ever. `SwapSettlement`:
weak fairness of the regular settle-net and mature ticks and of midnight. The
trigger tick needs none, since a swap with no effect also ends (that is the
`stranded_coupon` finding), and what an FpML swap is asked is to have no effect left
unsettled. `Sessions`: a timer fires and its silent refresh is
handled and answered, since the page's fetch returns or throws; nobody owes a
click or a reload. `OperatorQueue`: the sandbox comes back, allocates and seeds,
an outage ends, timers fire, queries and re-mints return, a socket is answered
or noticed to be dead; nobody owes a reset, a renewal of the token or a click.
`Csa`, `CsaClients`, `Proposals`, `OracleFeed` and `SwapPage` state no fairness:
they have no liveness property, as each waits for people, or for a market's day,
who owe nothing.

Every property of a passing run has a mutant of the modelled code, defined
beside what it mutates, that violates it.

## 4. Proofs

`CsaProofs` proves, for all parties, thresholds, minimum, rounding, exposures,
amounts and bounds that satisfy the ASSUMEs: `TypeCorrect`, `DisputesConsistent`,
`NobodyOverdraws`, `CallsAreCurable`, `CallsUndisputed`, `FreezeProtects`,
`DisputesResolvedByRight`, and `Implements`: `Spec` implements `MarginAgreement`.
The ASSUMEs are the template's `ensure` clause, the positivity asserted by the
choices, and that operator and scheduler are not parties of the agreement.

The argument. `DisputeConsistency` is not preserved without types, and the
ground of a call not without knowing which mark it rests on. `IInv` conjoins
`TypeOK`, `MarksInOrder` (a shortfall relates to a mark that was there when it
was raised), `DisputeConsistency`, `NoOverdraw`; `CallGround`, preserved on top
of it, says what an outstanding call rests on. Each has one lemma `Next...`
with a step per action. `FreezeHolds` and `ResolvedByRight` follow from `IInv`
action by action; the refinement from how `Phase` and `Opener` change
(`NextPhaseFacts`). `CallsAreCurable` rests on `PaidCallLeavesNone` of
the same module: the gate leaves less than half an increment, which is below
the minimum transfer if 2 * Mta > Rounding. Without that hypothesis the
statement is false (section 5). `CallsUndisputed` assumes `KeepMarks`, as
forgotten marks renumber the others. `FreezeHolds` and `ResolvedByRight` are only
proved: no run checks them.

It proves of `CsaClients`, for any users and numbers of clicks and moves:
`ClientsTypeCorrect`, `ClientsImplementCsa` (every step under the browsers is a
choice of the agreement or a stutter, so all theorems of the agreement hold there
too), `ClicksAreReportedTruly` and `FirstAttemptsActOnThePage`. The invariant
`User` says, of each user, that a click's effects are those of its stage
(`Reported`), and that a page or a first attempt whose version is still the live
one shows the agreement as it is (`Current`).

Of `MarkPublisher` it proves, for any parameters of the agreement and any number of
moves and faults: `ServiceImplementsCsa` (every step of the service beside the
agreement is a choice of it or a stutter, so all theorems of the agreement hold
there too), `NothingStaleIsAssessed`, and, if 2 * Mta > Rounding,
`SkippingIsSound`. The invariant `Held` says that a tick whose version is still
the live one holds the state, balance and mark that are there.

Of `MarginCalls` it proves, for all integers as marks, balances, thresholds, minimum
transfers and increments: `CallsAreExact` and `CopiesAgreeOffTies`, that is, where
exactly the publisher's copy of a call is not the ledger's. What both rest on is
`HalfUpNearest`, which bounds the rounded quotient from either side, and
`MultiplesApart`: two multiples are one, or an increment apart.

`OracleProofs` proves of `MarkTrigger`, for all timings, any number of swaps and any set
of chains: `TriggerTypeCorrect`, `WatcherIsOneChain`, `PushesReachTicks`, and
`TicksDoNotOverlap`, the safety of `TickRequests`. Its `IInv` adds to the checked
invariants the mutex (`Mutex`: no timer while a tick runs, nothing queued while
none does) and the shape of a chain (`Shape`). `PushReachesTick` is inductive
only with `OneChain`: an event lost with one socket is harmless because no other
is open and the next subscription repeats it.

`SwapSettlementProofs` proves, for every netting set, calendar and number of
disturbances: `TypeCorrect`, `EndsAreFinal`,
`CouponsEvolveOnce`, `BooksAgree`, and, if ids are shown as themselves,
`EffectsArePaidOnce`. The
invariant for the first payment, `Once`, ties what a settle run still has to do
to what was paid and batched: unless runs overlapped or somebody settled by
hand, an effect in a run's list is paid only if the run's holding has gone
stale. `BooksAgree` states `AuditTrail` without sums: row `k` of the audit is the `k`-th movement but
buyouts (`Rank` counts), and the `k`-th csa-net payment the `k`-th batch that came to
something. In that form it is its own inductive invariant: one lemma for each way a
step books cash (`CashStep`), the settlement and the netting ones with
`PaymentAppended`, which says how the ranks of a longer ledger extend those of the
shorter.

`ProposalsProofs` proves, for any slots, traders, drafts and policies:
`TypeCorrect`, `TradesAreMadeOnce` (an instrument id determines the terms that
share it, and one is registered once), `KeepsItsPromise` (implements
`TradeConsent`), and, with the dollar as default currency, `IndicesFit`, whose
invariant `HeldForFamily` is that the indices a browser or an acknowledgement
holds were chosen for its proposal's family. What is entered is arbitrary but for
`Enterable`, which says what the screens let a trader make of the legs: each leg's
amounts and currencies, but neither number nor types of the legs. For all of it,
`ShownAsProposed` (payload and preview are inverse, one lemma `...Rebuilds` per
family) and `SwapsAsEntered` (one lemma `...AsEntered` per family) follow from
`TypeOK` alone: their content is in the conversions, not in the protocol. No bound
on the drafts that TLC enumerates limits them any more. `WhatIsSentCanBeAccepted`
has the invariant `NoneRefused` (no proposal exists that the workspace refuses to
send) and two hypotheses on the set-up: the five families whose choices read a
schedule have one, which the configuration schema's defaults see to, and there is
an index of USD, without which no IRS is accepted at all.

It proves of `OracleFeed`, for any indices, curves, providers, runs, requests, attempts
and days: `TypeCorrect`, `HealthTellsTheTruth`, `ServesWhatItSeeded` (every stubbed
curve whose provider was found; only proved, no run checks it), `WindowsAreFilledOnce`. The ledger only grows (`LedgerGrows`), so each invariant
says which fact the step before has established.

`ValuationProofs` proves, for any swaps, in any market and on any days that satisfy
`ValuationInputs`: `AccruesOnce`, `ReadersAgree`, `ValuesFollow`, the whole of the three
properties of a valuation. Their inductive invariant is the types' alone
(`ValuesTypeCorrect`); the content is in pure functions, a lemma for each.

* Sums. The engine's totals are folds with a chosen order. `SumExists` and `SumRule`
  give their recursion, by taking a least set without a sum instead of the library's
  induction, which the provers cannot use; from it that a sum is linear (`SumLinear`),
  does not see zeros (`SumOfPart`), is split by parts (`SumOverParts`) and is bounded
  (`SumBounded`).
* Accruals (`EveryDayAccrues`). The engine works with positions among the fixings;
  what carries its windows over to days is that positions count the fixings between
  two days (`PositionsApart`), order them (`PositionsOrdered`) and are all filled
  (`PositionsFilled`). From that follow where the curve takes over
  (`CurveTakesOver`), that from the first fixing on each day is of one
  (`OneFixingADay`), and how often in all a day accrues (`TimesADay`).
* Dates. `ScheduleDates` is a recursion; `DatesDefined` shows that it has a solution,
  from the least place at which it would have none. `PeriodAdded` says when the step
  of the pricing and that of the ledger are one, and `EndsAgree` that the two walks
  come to the same dates just when the last of them is the end and no month is too
  short.
* Readers. A spot divides without remainder only because all amounts are even
  (`ConversionLinear`, with `LegFlowsTyped`). A reader's leg mirrors the page's with
  one sign for its amounts (`Mirrors`), which its flows keep (`LegFlowsMirrored`) and
  its value too (`LegValueMirrored`): with the decoders' directions that is the sign
  each family is marked, listed and netted with (`RateSwapSame`, `StreamsSummed`,
  `SwapNets`).
* Payments. A later date only takes flows away (`LegFalls`), all but principal
  falls due on a date `nextEvent` knows (`PaidByDates`). The clean price over a day is
  the hardest: 30/360 days are in the order of days (`DaysInOrder`), a day is in one
  coupon (`OneRuns`), which `accrued` finds among the principal (`CouponIsDue`), and the
  interest of the day and what had accrued before it make what has accrued after it
  up to one, since each is rounded on its own (`InterestSplits`); so each leg is at
  most one off (`LegApart`), and `CleanFollows` adds the legs up.

`SessionsProofs` proves, for any tabs, logins, rotations and faults: `TypeCorrect`,
`OneLiveToken`, `CookiesStayAlive`, from `Descent` (the live token of a login is
the newest of its tokens seen anywhere), `Unspent` and `Alive`.

`SwapPageProofs` proves, for any swaps, notionals, numbers of queries, unwinds and
events, if the null value is none of the swaps: `TypeCorrect`, `ActsOnWhatItShows`,
`StaysByItsSwap`, `ComesToRestOnItsSwap`. None of the three properties is inductive,
for each speaks of what the page shows now and its queries of what it showed when
they were asked. Four invariants bridge that. `Phases` orders what a page goes
through: a role is found and a decision sent only before the status changes, and a
proposal's page looks for no workflow until it is Active. `Shown` says whose the
legs underneath a scenario are, turned or not (`FacesStay`, `FacesTurn`). `Kept` says, of every query under way, answered or
not, that it looks for a notional or an id that only the page's own swap has, and
survives whoever ends that swap. `Pursued` says that a page of a live swap has
its answer, or a query that will bring it, or had one fail. `StepsExplained` is the
lemma they share: a query of the next state was there, is asked by this step, or is
one of these answered.

`OperatorQueueProofs` proves, for any finite set of contracts and any number of
restarts, outages and renewals: `TypeCorrect`, `CanaryNeverErrs` and
`QueueShowsTheLedger`. That an empty answer means a restart holds only if the tab
never expects a canary of a boot it has not seen one in. The invariant `Canary`
says so (`ExpectsWhatItSaw`) and what it takes: nothing is held of a boot before it
has parties (`Unborn`), an answer that saw the canary is over by the next boot
(`SeenWhereItIs`, which needs that a restart outlasts the timeouts), and outside the
cooldown no query with an earlier token is under way (`OneTokenAsks`, which needs the
cooldown to outlast a query). `Queue` is the inductive form of `QueueIsCurrent`,
of what is listed or still on the wire instead of what is listed once the wire is
empty; it needs `InOrder`, without which an archive could be overtaken by the
creation of its contract, and `TokensKnown`, without which a restart could make a
watched socket of an unwatched one.

Every safety property of a passing run has a theorem. Only model-checked is liveness,
which needs ENABLED and fairness, out of this prover's reach: `EventuallyAssessed`,
`EventuallyEnds`, `EventuallySeen`, `DeadSessionsEnd`, `Recovers`, `ListedInTheEnd` and
what `ServesRequests` says beyond safety.

## 5. Findings

Each is listed in PROJECT.json with the lines that disagree. A property that
excepts what the code does otherwise says so in its comment; without the
exception its run is violated.

* `stranded_coupon`: the mature tick can retire a swap on its maturity date
  before the last coupon's effect exists.
* `settlement`, `PaidOnce`: overlapping settle-net runs pay an effect twice. The
  ledger does not check that an effect is unsettled, only the tick does.
* `settlement`, `PaidOnce` with `ShowsIds = FALSE`: `settledEffects` are written
  with `show` of a ContractId. In ledger code Daml gives one placeholder for all
  of them; then no tick ever recognises a settled effect. The library is
  outside the repository.
* `settlement`, `EventuallyEnds`: BASIS and XCCY swaps, whose instruments are FpML, are
  never retired by the scheduler, for it does not look up their maturity.
* `csa_clients`, `ActsOnWhatItShowed`: a retried agreement accepts whatever
  dispute stands by then, a retried post lands in a dispute.
* `formulas`, `TsMirrorsDamlOffTies`: `Math.round` and `roundCommercial` differ on
  negative ties.
* `formulas`, `EachDayAccruesOnce`: with a lookback the days since the last fixing
  of a coupon's window count twice; without one the curve never completes a
  coupon that has a fixing, and days before its first fixing accrue nothing; a
  stub is no coupon, and a short month moves all later dates.
* `formulas`, `ValuesFollowPayments`: carry and accrued interest add up both legs
  whatever their direction, so carry is what both sides together pay.
* `formulas`, `MarkedAsShown`: BASIS, XCCY and FpML swaps are marked and listed at
  the sum of their legs instead of the difference; a row's sign is the other
  party's; an IRS is projected on another curve once a BASIS, XCCY or FpML swap
  is in its netting set; a day count the workspace offers leaves an agreement
  without a mark, two others are read differently by the three readers.
* `csa`, `CallIsCurable`: with a rounding of at least twice the minimum transfer,
  paying a rounded-up call raises one on the other side. The defaults are safe.
* `proposals`, `AsEntered`: an IRS of any term above nine months becomes a swap of
  one year, four families lose their currency and four their floating spread, BASIS
  and FX the currency of their second leg, and all but XCCY and FpML the notional of
  one leg where the two differ: the 45 million euros a CCY begins with become 54.
* `proposals`, `ProposedIsAcceptable`: XCCY and BASIS in other currencies than the
  default legs', and terms shorter than a period, can be proposed and never
  accepted.
* `proposals`, `PreviewRebuilds`: an XCCY proposal is shown, and answered, as CCY.
* `oracle_feed`, `HealthIsTruthful`: the skip for fixings already published queries
  a template that does not exist, so they are published again.
* `oracle_feed`, `WindowOnce`: the rolling window is filled once per boot.
* `operator_queue`, `QueueIsCurrent`: what ended while no socket was open stays in
  the queue until the page is loaded again.
* `operator_queue`, `ListedInTheEnd`: a socket closed cleanly is never opened again,
  and the fallback queries once.
* `operator_queue`, `Recovers`: a re-mint before the new sandbox has parties yields
  a token that sees nothing and counts as a success. This needs the application
  to run on while the sandbox restarts; `scripts/demo.sh restart` stops both.

* `swap_page`, `StaysWithItsSwap`: the page shows and answers the first unwind
  there is, whichever swap it would end; its workflow is found by the notional it
  shows, which another swap may have, a scenario may have changed, or which may
  come before the workflow, under review.
* `swap_page`, `ShowsWhatItActsOn`: terms that arrive during What-If are dropped and
  counted as taken, so that the page shows other terms for good; the button that turns
  the legs works with What-If off; an XCCY proposal is shown with made-up legs beside
  an Accept that fails.

Smaller disagreements, noted and not made findings: the docs call the operator's
policy a gate that inserts a human review, but only the accepting browser looks
at it, before it exercises, so a switch to Manual in between is not heeded; the
page's status never reflects a workflow that was terminated, though a comment of
its commands says so; its hooks' comment says choices rotate the workflow's id,
which none does; What-If "ON" promises no on-chain writes and leaves the buttons
there; an answer that comes late shows an unwind that was withdrawn again; the
text typed into the unwind dialog is reset whenever the NPV moves; the
workspace's manual Mature lacks the dates the choice takes; the audit's header says
every non-zero cash movement is recorded, the buyout of a termination is not
(the `AuditTrail` property excepts it); a settlement by hand leaves no
NettedBatch, so the scheduler will settle its effects again (excepted in the
properties); the watcher's header speaks of linear backoff,
the delay doubles; `stop()` during the await of `getToken` leaves a socket that
is made afterwards and that nobody closes (its events are ignored, and the
process exits); `coalesced-tick.ts` says the tick in flight still completes after
`stop()`, but `shutdown` exits the process without waiting for it; the docs call
a tick on a frozen agreement a no-op, but it publishes its mark in every state,
and speak of a retry on contention that `publisher.ts` lacks; two tabs that
refresh at once log the later one out; a login in one tab changes the user of
another at its next refresh; `CurveSnapshot` has no key although its comment
speaks of one; `index.ts:84-86` says that downstream pages never see a partially seeded ledger, but
`seedIndices` swallows its errors and a curve without a provider is passed over;
`service-token.ts` calls a renewal its last attempt and schedules another; the
proposals' payloads drop the legs' directions and send 30E/360 as 30/360; an FpML stream whose type is
switched without its rate or index being entered can be proposed, is shown at zero
or on USD-SOFR, and its acceptance fails in the adapter (not modelled); an
instrument id omits rate and maturity, so that two different trades of one
proposer, day and notional collide; with a default currency other than USD
`IndicesFit` fails; the rotation handler says it re-mints exactly once per
rotation, a cooldown decides.

## 6. Plan

Done: the agreement and its clients with proofs, the publisher and its trigger with
proofs, settlement with proofs, proposals, oracle feed and sessions with proofs,
the live views and the page of a swap with proofs, pricing and the three readers of a
value with proofs.
Left, in order:

1. The streams of marks and curves over the same sockets, as instances of
   `OperatorQueue` without an end of their items.
2. `runFullTick` and the factory discovery of the scheduler.
3. Login states and handoff codes, taken out of their stores as they are read;
   the keys' rotation.

## 7. Not modelled

Most of the application's lines are presentation (screens, forms, tables, formats,
decoders) or numerics, and hold no state that another part depends on: they
have nothing a model checker could reach that a unit test does not, and the
mapped share of the implementation is limited by that. In particular:

* Of the valuation: CDS, which has formulas of its own; interpolation and
  discounting, which are real-valued; that an XCCY swap without curves of its
  currencies is priced by an exception (`HasCurves` assumes them); bumps and DV01, the solver, the attribution
  of a value's change, the sparkline, and the replay of a mark on the ledger. In
  the modules with interleavings a value is a free choice (`market`, `Coupon`).
* The replay harness, set-up scripts, configuration and generators run once and
  alone; their result is the Init of the models.
* Service tokens: one timer that renews one token, beside which nothing
  interleaves but requests that read it.
* The streams of marks and curves and the activity feed use the retry policy of
  `OperatorQueue`; the curve ticker's random walk is numerics.
* Several currencies and insufficient holdings are left out of
  `SwapSettlement`, directions, day counts and weights of `SwapTerms`.
* The workspace's drafts, solver and import, and the operator's buttons on it.
* The authentication service's OIDC callback, login states and handoff codes.

PROJECT.json states the reason for each component.
