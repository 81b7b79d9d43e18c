--------------------------- MODULE MarkPublisher ---------------------------
(***************************************************************************)
(* The mark publisher beside the agreement it marks: a tick reads the Csa, *)
(* prices its netting set from later queries, exercises PublishMark on the *)
(* version it read and SettleVm on the version that exercise returned      *)
(* (oracle/src/services/mark-publisher/{index,publisher}.ts).              *)
(*                                                                         *)
(* Between any two of its requests the parties, the operator's own console *)
(* and another publisher may exercise choices; each of those archives the  *)
(* version a publisher holds, and its next exercise fails.  The service    *)
(* runs one tick at a time; Stray is a tick outside that mutex: of a       *)
(* process that a restart overlaps, or whose timed-out request is still on *)
(* its way to the ledger.                                                  *)
(***************************************************************************)
EXTENDS Csa

CONSTANTS Service, Stray,
          MaxMoves,      \* bound: choices by others and moves of the market
          MaxFaults      \* bound: ticks lost, or strayed, by an error, a timeout or a restart

ASSUME PublisherBounds ==
  Service # Stray /\ MaxMoves \in Nat /\ MaxFaults \in Nat

Publishers == {Service, Stray}

VARIABLES
  market,      \* the exposure the netting set prices to right now
  pub,         \* each publisher's tick: where it is and what it has read
  moves, faults

serviceVars == <<market, pub, moves, faults>>
fullVars == <<vars, serviceVars>>

Idle == [pc |-> "idle", fresh |-> FALSE, state |-> "Active", csb |-> 0, exposure |-> 0]

\* What the tick read, and whether the version it holds is still live.
Tick == [pc : {"idle", "read", "priced", "published"}, fresh : BOOLEAN,
         state : CsaState, csb : Int, exposure : Int]

ServiceInit ==
  /\ Init
  /\ market \in Exposures
  /\ pub = [p \in Publishers |-> Idle]
  /\ moves = 0
  /\ faults = 0

\* Mutant of Rotated: exercising does not invalidate what others hold.
NotRotated == pub

\* A consuming choice leaves every version held by anyone stale.
Rotated == [p \in Publishers |-> [pub[p] EXCEPT !.fresh = FALSE]]

GiveUp(p) == pub' = [pub EXCEPT ![p] = Idle]

-----------------------------------------------------------------------------
(* One tick for one agreement.                                             *)

\* client.query(CSA_TEMPLATE_ID), decodeCsa.
ReadCsa(p) ==
  /\ pub[p].pc = "idle"
  /\ pub' = [pub EXCEPT ![p] = [pc |-> "read", fresh |-> TRUE, state |-> state,
                                csb |-> csb, exposure |-> 0]]
  /\ UNCHANGED <<vars, market, moves>>

\* The later queries for swaps and curves, and computeMark on their results.
ComputeMark(p) ==
  /\ pub[p].pc = "read"
  /\ pub' = [pub EXCEPT ![p].pc = "priced", ![p].exposure = market]
  /\ UNCHANGED <<vars, market, moves, faults>>

\* publishAndMaybeSettle, its first exercise.
ExercisePublishMark(p) ==
  /\ pub[p].pc = "priced"
  /\ pub[p].fresh
  /\ PublishMark(pub[p].exposure)
  /\ pub' = [Rotated EXCEPT ![p].pc = "published", ![p].fresh = TRUE]
  /\ UNCHANGED <<market, moves, faults>>

\* Mutant of PublisherGate: collateral already posted is not counted.
GateUnposted(t) == TsGateCall(TargetCsb(t.exposure, Threshold), Mta, Rounding)

\* The publisher's own assessment, on what it read before the publication.
PublisherGate(t) ==
  TsGateCall(TargetCsb(t.exposure, Threshold) - t.csb, Mta, Rounding)

\* Mutant of SkipsSettle: a flat book is never assessed.
SkipsFlat(t) ==
  \/ t.state \in {"MarkDisputed", "Escalated"}
  \/ PublisherGate(t) = 0

SkipsSettle(t) ==
  \/ t.state \in {"MarkDisputed", "Escalated"}
  \/ PublisherGate(t) = 0 /\ t.state = "Active"

SkipSettle(p) ==
  /\ pub[p].pc = "published"
  /\ SkipsSettle(pub[p])
  /\ GiveUp(p)
  /\ UNCHANGED <<vars, market, moves, faults>>

ExerciseSettleVm(p) ==
  /\ pub[p].pc = "published"
  /\ ~SkipsSettle(pub[p])
  /\ pub[p].fresh
  /\ SettleVm
  /\ pub' = [Rotated EXCEPT ![p] = Idle]
  /\ UNCHANGED <<market, moves, faults>>

\* CONTRACT_NOT_FOUND: the tick's catch counts an error, the tick moves on.
ExerciseFails(p) ==
  /\ \/ pub[p].pc = "priced"
     \/ pub[p].pc = "published" /\ ~SkipsSettle(pub[p])
  /\ ~pub[p].fresh
  /\ GiveUp(p)
  /\ UNCHANGED <<vars, market, moves, faults>>

StartTick == ReadCsa(Service) /\ UNCHANGED faults

GoOn(p) ==
  \/ ComputeMark(p)
  \/ ExercisePublishMark(p)
  \/ SkipSettle(p)
  \/ ExerciseSettleVm(p)
  \/ ExerciseFails(p)

-----------------------------------------------------------------------------
(* Everybody else.                                                         *)

\* A pricing error, a request that times out, a restart: the tick is lost
\* wherever it stands, what it has committed stays.
LoseTick(p) ==
  /\ pub[p].pc # "idle"
  /\ faults < MaxFaults
  /\ faults' = faults + 1
  /\ GiveUp(p)
  /\ UNCHANGED <<vars, market, moves>>

StrayTick ==
  /\ faults < MaxFaults
  /\ faults' = faults + 1
  /\ ReadCsa(Stray)

Budget == moves < MaxMoves /\ moves' = moves + 1 /\ UNCHANGED faults

MarketMoves ==
  /\ Budget
  /\ market' \in Exposures \ {market}
  /\ UNCHANGED <<vars, pub>>

\* A choice exercised by a party or from the operator's console.
OtherExercises ==
  /\ Budget
  /\ \/ \E p \in Parties : PartyNext(p)
     \/ \E e \in Exposures : AcknowledgeDispute(e)
  /\ pub' = Rotated
  /\ UNCHANGED market

ServiceNext ==
  \/ StartTick
  \/ StrayTick
  \/ \E p \in Publishers : GoOn(p) \/ LoseTick(p)
  \/ MarketMoves
  \/ OtherExercises

\* The cron fires for ever and every request returns or times out, so the
\* service always starts a tick and goes on with it; nobody else has to act.
ServiceFairness == WF_fullVars(StartTick) /\ WF_fullVars(GoOn(Service))

ServiceSpec == ServiceInit /\ [][ServiceNext]_fullVars /\ ServiceFairness

-----------------------------------------------------------------------------
(* Correctness.                                                            *)

\* The contract id works as a version number: whenever a publisher's next
\* exercise would succeed, the state and balance its tick read are still the
\* contract's, and before SettleVm the last mark is the one it published.
NoStaleAssessment ==
  \A p \in Publishers : pub[p].fresh =>
    /\ pub[p].state = state
    /\ pub[p].csb = csb
    /\ pub[p].pc = "published" => marks[lastMarkCid].exposure = pub[p].exposure

\* The publisher leaves out SettleVm only where the contract would have found
\* nothing to call and nothing to clear (publishAndMaybeSettle's two early
\* returns, formula.ts against Csa.Math).
SkipIsSound ==
  \A p \in Publishers :
    pub[p].pc = "published" /\ pub[p].fresh /\ SkipsSettle(pub[p]) =>
      Frozen \/ (state = "Active" /\ LastCall(csb) = 0)

\* Once market and parties are quiet the agreement's state comes to agree with
\* its balance under the current valuation, and stays so, however many ticks
\* were lost to races and faults: the badge of an open call is never pinned
\* and never missing.  Disputes wait for people.
Assessed ==
  /\ lastMarkCid # 0
  /\ marks[lastMarkCid].exposure = market
  /\ (state = "MarginCallOutstanding") <=> (LastCall(csb) # 0)

EventuallyAssessed == <>[](Frozen \/ Assessed)

=============================================================================
