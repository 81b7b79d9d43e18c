-------------------------- MODULE SandboxRotation ---------------------------
(***************************************************************************)
(* A browser tab whose ledger is replaced under it: every restart of the   *)
(* sandbox allocates its parties anew, and a token of the boot before is   *)
(* accepted and sees nothing.  The tab notices by a canary, contracts that *)
(* every boot has, and by the ledger's health, and mints itself a token    *)
(* (app/src/shared/ledger/health-bus.ts, sandbox-rotation-bus.ts,          *)
(* client.ts, parties.ts, app/src/shared/layout/                           *)
(* sandbox-rotation-handler.tsx).                                          *)
(***************************************************************************)
EXTENDS Integers, Sequences

CONSTANTS
  MaxResets,     \* bound: restarts of the sandbox
  MaxCuts,       \* bound: outages that replace nothing
  Bare           \* the token of party hints without a participant's fingerprint

ASSUME RotationAssumption ==
  /\ MaxResets \in Nat
  /\ MaxCuts \in Nat
  /\ Bare \notin Nat

Boots == 0..MaxResets
Tokens == Boots \union {Bare}    \* by the boot whose parties they name

DownThreshold == 3

VARIABLES
  ledger,        \* "up", "starting" without parties, "seeding" without canary, "down", "cut" off
  boot,          \* which incarnation of the sandbox
  cuts,          \* how many outages there were
  token,         \* the tab's token
  fails,         \* consecutiveFailures, as far as DownThreshold
  baseline,      \* whether canaryBaseline has an entry
  cooling,       \* before cooldownUntil
  asks,          \* the canary query under way with each token
  mint           \* remintForRotation: none, asked, minted its token, or failed

environment == <<ledger, boot, cuts>>
bus == <<baseline, cooling, mint>>
rotationVars == <<environment, token, fails, bus, asks>>

\* The page loaded under the first boot.
RotationInit ==
  /\ ledger = "up"
  /\ boot = 0
  /\ cuts = 0
  /\ token = 0
  /\ fails = 0
  /\ baseline = FALSE
  /\ cooling = FALSE
  /\ asks = [t \in Tokens |-> "idle"]
  /\ mint = <<"none">>

-----------------------------------------------------------------------------
(* The ledger: scripts/demo.sh restart, outages, and what it answers.      *)

Answering == ledger \in {"up", "seeding", "starting"}

Populated(t) == ledger = "up" /\ t = boot

Moves(from, to) ==
  /\ ledger \in from
  /\ ledger' = to
  /\ UNCHANGED <<token, fails, bus, asks>>

Reset ==
  /\ boot < MaxResets
  /\ boot' = boot + 1
  /\ Moves({"up", "cut"}, "down")
  /\ UNCHANGED cuts

\* It takes longer than the timeouts of client and proxy: what the boot before
\* answered has come, and what was asked in vain is over.
Starts ==
  /\ \A t \in Tokens : asks[t] \in {"idle", "sent"}
  /\ mint # <<"asked">>
  /\ Moves({"down"}, "starting")
  /\ UNCHANGED <<boot, cuts>>

Allocates == Moves({"starting"}, "seeding") /\ UNCHANGED <<boot, cuts>>

Seeds == Moves({"seeding"}, "up") /\ UNCHANGED <<boot, cuts>>

Cut ==
  /\ cuts < MaxCuts
  /\ cuts' = cuts + 1
  /\ Moves({"up"}, "cut")
  /\ UNCHANGED boot

Mend == Moves({"cut"}, "up") /\ UNCHANGED <<boot, cuts>>

-----------------------------------------------------------------------------
(* The two signals and the remint they ask for.                            *)

WasDown == fails = DownThreshold

RecordFailure == fails' = IF WasDown THEN fails ELSE fails + 1

\* Mutant of Signals: the baseline is cleared before the cooldown is looked at.
SignalsForget(fires, populated) ==
  /\ baseline' = (populated \/ (baseline /\ ~fires))
  /\ cooling' = (cooling \/ fires)
  /\ mint' = IF fires /\ ~cooling THEN <<"asked">> ELSE mint

\* fire() if fires holds, and then recordCanaryCount of a count above zero if
\* populated does; within the cooldown a signal is dropped.
Signals(fires, populated) ==
  LET fired == fires /\ ~cooling
  IN  /\ baseline' = (populated \/ (baseline /\ ~fired))
      /\ cooling' = (cooling \/ fired)
      /\ mint' = IF fired THEN <<"asked">> ELSE mint

\* Any other request of the page.
Fails ==
  /\ ~Answering
  /\ ~WasDown
  /\ RecordFailure
  /\ UNCHANGED <<environment, token, bus, asks>>

\* The first success after three failures is the down to live edge.
Succeeds ==
  /\ Answering
  /\ fails > 0
  /\ fails' = 0
  /\ Signals(WasDown, FALSE)
  /\ UNCHANGED <<environment, token, asks>>

\* pingCanary, every thirty seconds and when the client is made.
CanaryTick ==
  /\ asks[token] = "idle"
  /\ asks' = [asks EXCEPT ![token] = "sent"]
  /\ UNCHANGED <<environment, token, fails, bus>>

CanaryServed(t) ==
  /\ asks[t] = "sent"
  /\ Answering
  /\ asks' = [asks EXCEPT ![t] = IF Populated(t) THEN "some" ELSE "none"]
  /\ UNCHANGED <<environment, token, fails, bus>>

\* recordSuccess, whose edge React hands on before query() goes on, and
\* recordCanaryCount.
CanaryAnswered(t) ==
  /\ asks[t] \in {"some", "none"}
  /\ asks' = [asks EXCEPT ![t] = "idle"]
  /\ fails' = 0
  /\ Signals(WasDown \/ (asks[t] = "none" /\ baseline), asks[t] = "some")
  /\ UNCHANGED <<environment, token>>

CanaryLost(t) ==
  /\ asks[t] = "sent"
  /\ ~Answering
  /\ asks' = [asks EXCEPT ![t] = "idle"]
  /\ RecordFailure
  /\ UNCHANGED <<environment, token, bus>>

\* Mutant of CooldownEnds: a cooldown no longer than a query may take.
CooldownEndsAtOnce ==
  /\ cooling
  /\ Head(mint) \in {"none", "failed"}
  /\ cooling' = FALSE
  /\ UNCHANGED <<environment, token, fails, baseline, mint, asks>>

\* COOLDOWN_MS is thirty seconds, CLIENT_TIMEOUT_MS twenty: what was asked with
\* the token before is over, if the remint took no more than the difference.
CooldownEnds ==
  /\ cooling
  /\ Head(mint) \in {"none", "failed"}
  /\ \A t \in Tokens \ {token} : asks[t] = "idle"
  /\ cooling' = FALSE
  /\ UNCHANGED <<environment, token, fails, baseline, mint, asks>>

\* resolvePartyIds: without the participant's parties the hints stand as they are.
MintAnswers ==
  /\ mint = <<"asked">>
  /\ mint' = <<"minted", IF ledger \in {"seeding", "up"} THEN boot ELSE Bare>>
  /\ UNCHANGED <<environment, token, fails, baseline, cooling, asks>>

\* performRemintForRotation throws: the refresh of an OIDC session is refused.
MintThrows ==
  /\ mint = <<"asked">>
  /\ mint' = <<"failed">>
  /\ UNCHANGED <<environment, token, fails, baseline, cooling, asks>>

\* setState(outcome.state), and a LedgerClient with the token.
MintApplied ==
  /\ Head(mint) = "minted"
  /\ token' = mint[2]
  /\ mint' = <<"none">>
  /\ UNCHANGED <<environment, fails, baseline, cooling, asks>>

Environs == Reset \/ Starts \/ Allocates \/ Seeds \/ Cut \/ Mend

Rotates ==
  \/ Fails
  \/ Succeeds
  \/ CanaryTick
  \/ \E t \in Tokens : CanaryServed(t) \/ CanaryAnswered(t) \/ CanaryLost(t)
  \/ CooldownEnds
  \/ MintAnswers
  \/ MintThrows
  \/ MintApplied

-----------------------------------------------------------------------------
(* Properties.                                                             *)

\* Every variable stays within its type.
RotationTypeOK ==
  /\ ledger \in {"up", "seeding", "starting", "down", "cut"}
  /\ boot \in Boots
  /\ cuts \in 0..MaxCuts
  /\ token \in Tokens
  /\ fails \in 0..DownThreshold
  /\ {baseline, cooling} \subseteq BOOLEAN
  /\ asks \in [Tokens -> {"idle", "sent", "some", "none"}]
  /\ mint \in {<<"none">>, <<"asked">>, <<"failed">>} \union {<<"minted", t>> : t \in Tokens}

\* The canary asks for no new token while the tab's is the ledger's own: an
\* empty answer to the token before, come late, is not taken for a restart.
CanaryIsRight ==
  [][cooling' /\ ~cooling /\ ~WasDown => token # boot]_rotationVars

\* A tab that has seen the canary and whose ledger was replaced gets a token of
\* the new boot or says that it could not, unless it minted while the sandbox
\* had no parties: that token is taken for good and no signal follows.
Recovers ==
  (token \in Boots /\ token # boot /\ baseline)
    ~> (token = boot \/ token = Bare \/ mint = <<"failed">>)

=============================================================================
