------------------------- MODULE OperatorQueueProofs ------------------------
(***************************************************************************)
(* What a tab keeps over any number of restarts of its sandbox, outages    *)
(* and renewals of its token: its canary is right, and the operator's      *)
(* queue has what the ledger has.                                          *)
(***************************************************************************)
EXTENDS OperatorQueue, FiniteSetTheorems, SequenceTheorems, TLAPS

-----------------------------------------------------------------------------
(* The tab without its queue.                                              *)

RotationStep == Environs \/ Rotates \/ UNCHANGED rotationVars

\* The queue does nothing to the rest of the tab.
LEMMA QueueOnlyWatches == [Next]_vars => RotationStep
<1> SUFFICES ASSUME [Next]_vars PROVE RotationStep
  OBVIOUS
<1>1. CASE Environment(Environs)
  BY <1>1 DEF Environment, RotationStep
<1>2. CASE Rotation(Rotates)
  BY <1>2 DEF Rotation, RotationStep
<1>3. CASE Renew
  BY <1>3 DEF Renew, RotationStep
<1>4. ASSUME NEW i \in Items, Arises(i) \/ Ends(i) PROVE RotationStep
  BY <1>4 DEF Arises, Ends, RotationStep
<1>5. CASE SocketOpens \/ SocketFails \/ SocketDrops \/ SocketCloses \/ RetryFires \/ BudgetEnds \/ Deliver
  BY <1>5 DEF SocketOpens, SocketFails, SocketDrops, SocketCloses, RetryFires, BudgetEnds, Deliver,
              RotationStep
<1>6. CASE UNCHANGED vars
  BY <1>6 DEF vars, RotationStep
<1> QED
  BY <1>1, <1>2, <1>3, <1>4, <1>5, <1>6 DEF Next

LEMMA InitRotationTypeOK == RotationInit => RotationTypeOK
<1> SUFFICES ASSUME RotationInit PROVE RotationTypeOK
  OBVIOUS
<1>1. 0 \in Tokens /\ asks \in [Tokens -> {"idle", "sent", "some", "none"}]
  BY RotationAssumption DEF RotationInit, Tokens, Boots
<1>2. {baseline, cooling} \subseteq BOOLEAN
  BY DEF RotationInit
<1> QED
  BY <1>1, <1>2, RotationAssumption DEF RotationInit, RotationTypeOK, Boots, DownThreshold

LEMMA NextRotationTypeOK == RotationTypeOK /\ RotationStep => RotationTypeOK'
<1> SUFFICES ASSUME RotationTypeOK, RotationStep PROVE RotationTypeOK'
  OBVIOUS
<1> USE RotationAssumption DEF RotationTypeOK, DownThreshold
<1>1. CASE Environs
  BY <1>1 DEF Environs, Reset, Starts, Allocates, Seeds, Cut, Mend, Moves, bus, Tokens, Boots
<1>2. CASE Fails
  BY <1>2 DEF Fails, RecordFailure, WasDown, environment, bus
<1>3. CASE Succeeds
  BY <1>3 DEF Succeeds, Signals, WasDown, environment
<1>4. CASE CanaryTick
  BY <1>4 DEF CanaryTick, environment, bus
<1>5. ASSUME NEW t \in Tokens, CanaryServed(t) PROVE RotationTypeOK'
  BY <1>5 DEF CanaryServed, environment, bus
<1>6. ASSUME NEW t \in Tokens, CanaryAnswered(t) PROVE RotationTypeOK'
  BY <1>6 DEF CanaryAnswered, Signals, WasDown, environment
<1>7. ASSUME NEW t \in Tokens, CanaryLost(t) PROVE RotationTypeOK'
  BY <1>7 DEF CanaryLost, RecordFailure, WasDown, environment, bus
<1>8. CASE CooldownEnds
  BY <1>8 DEF CooldownEnds, environment
<1>9. CASE MintAnswers
  BY <1>9 DEF MintAnswers, environment, Tokens
<1>10. CASE MintThrows
  BY <1>10 DEF MintThrows, environment
<1>11. CASE MintApplied
  BY <1>11 DEF MintApplied, environment
<1>12. CASE UNCHANGED rotationVars
  BY <1>12 DEF rotationVars, environment, bus
<1> QED
  BY <1>1, <1>2, <1>3, <1>4, <1>5, <1>6, <1>7, <1>8, <1>9, <1>10, <1>11, <1>12
  DEF RotationStep, Rotates

-----------------------------------------------------------------------------
(* The canary.                                                             *)

\* The tokens there can be: none of a boot that has no parties yet.
Known == {Bare} \union (IF ledger \in {"down", "starting"} THEN 0..(boot - 1) ELSE 0..boot)

\* Of a boot nothing is held before it has parties.
Unborn == \A t \in Tokens \ Known : asks[t] = "idle" /\ mint # <<"minted", t>>

\* Outside the cooldown the tab asks with no token but its own.
OneTokenAsks ==
  /\ mint[1] \in {"asked", "minted"} => cooling
  /\ ~cooling => \A t \in Tokens \ {token} : asks[t] = "idle"

\* The canary is seen in a boot that has it, or its answer is over by the next.
SeenWhereItIs ==
  \A t \in Tokens :
    asks[t] = "some" => ledger = "down" \/ (ledger \in {"up", "cut"} /\ t = boot)

\* What is expected of a boot was seen in it: a token of a boot that has no
\* canary yet is held only without a baseline.
ExpectsWhatItSaw ==
  baseline =>
    /\ asks[boot] # "none"
    /\ ledger \in {"starting", "seeding"} => mint # <<"asked">>
    /\ ledger = "seeding" => token # boot /\ mint # <<"minted", boot>> /\ asks[boot] = "idle"

Canary == token \in Known /\ Unborn /\ OneTokenAsks /\ SeenWhereItIs /\ ExpectsWhatItSaw

LEMMA InitCanary == RotationInit => Canary
BY RotationAssumption
DEF RotationInit, Canary, Known, Unborn, OneTokenAsks, SeenWhereItIs, ExpectsWhatItSaw, Tokens, Boots

LEMMA NextCanary == RotationTypeOK /\ Canary /\ RotationStep => Canary'
<1> SUFFICES ASSUME RotationTypeOK, Canary, RotationStep PROVE Canary'
  OBVIOUS
<1> USE RotationAssumption
    DEF RotationTypeOK, Canary, Known, Unborn, OneTokenAsks, SeenWhereItIs, ExpectsWhatItSaw, Tokens, Boots
<1>1. CASE Reset
  BY <1>1 DEF Reset, Moves, bus
<1>2. CASE Starts
  BY <1>2 DEF Starts, Moves, bus
<1>3. CASE Allocates
  BY <1>3 DEF Allocates, Moves, bus
<1>4. CASE Seeds \/ Cut \/ Mend
  BY <1>4 DEF Seeds, Cut, Mend, Moves, bus
<1>5. CASE Fails
  BY <1>5 DEF Fails, environment, bus
<1>6. CASE Succeeds
  BY <1>6 DEF Succeeds, Signals, environment
<1>7. CASE CanaryTick
  BY <1>7 DEF CanaryTick, environment, bus
<1>8. ASSUME NEW t \in Tokens, CanaryServed(t) PROVE Canary'
  BY <1>8 DEF CanaryServed, Answering, Populated, environment, bus
<1>9. ASSUME NEW t \in Tokens, CanaryAnswered(t) PROVE Canary'
  <2>1. /\ UNCHANGED <<ledger, boot, token>>
        /\ asks' = [asks EXCEPT ![t] = "idle"]
        /\ mint' \in {mint, <<"asked">>}
        /\ cooling => cooling' /\ mint' = mint
        /\ mint' # mint => cooling'
    BY <1>9 DEF CanaryAnswered, Signals, environment
  <2>2. Unborn' /\ OneTokenAsks' /\ SeenWhereItIs'
    BY <2>1
  <2>3. baseline' => asks[t] = "some" \/ (baseline /\ mint' = mint)
    BY <1>9 DEF CanaryAnswered, Signals
  <2>4. ExpectsWhatItSaw'
    BY <2>1, <2>3
  <2> QED
    BY <2>1, <2>2, <2>4
<1>10. ASSUME NEW t \in Tokens, CanaryLost(t) PROVE Canary'
  BY <1>10 DEF CanaryLost, environment, bus
<1>11. CASE CooldownEnds
  BY <1>11 DEF CooldownEnds, environment
<1>12. CASE MintAnswers
  BY <1>12 DEF MintAnswers, environment
<1>13. CASE MintThrows
  BY <1>13 DEF MintThrows, environment
<1>14. CASE MintApplied
  BY <1>14 DEF MintApplied, environment
<1>15. CASE UNCHANGED rotationVars
  BY <1>15 DEF rotationVars, environment, bus
<1> QED
  BY <1>1, <1>2, <1>3, <1>4, <1>5, <1>6, <1>7, <1>8, <1>9, <1>10, <1>11, <1>12, <1>13, <1>14, <1>15
  DEF RotationStep, Environs, Rotates

LEMMA NextCanaryIsRight ==
  ASSUME RotationTypeOK, Canary, RotationStep, cooling', ~cooling, ~WasDown
  PROVE  token # boot
<1>1. PICK t \in Tokens : CanaryAnswered(t) /\ asks[t] = "none" /\ baseline
  BY DEF RotationStep, Environs, Reset, Starts, Allocates, Seeds, Cut, Mend, Moves, bus, Rotates, Fails,
         Succeeds, CanaryTick, CanaryServed, CanaryAnswered, CanaryLost, CooldownEnds, MintAnswers,
         MintThrows, MintApplied, Signals, rotationVars, RotationTypeOK
<1>2. t = token
  BY <1>1 DEF Canary, OneTokenAsks
<1> QED
  BY <1>1, <1>2 DEF Canary, ExpectsWhatItSaw

\* The canary asks for no new token while the tab's is the ledger's own.
THEOREM CanaryNeverErrs == Spec => CanaryIsRight
<1>1. Init => RotationTypeOK /\ Canary
  BY InitRotationTypeOK, InitCanary DEF Init
<1>2. RotationTypeOK /\ Canary /\ [Next]_vars => RotationTypeOK' /\ Canary'
  BY QueueOnlyWatches, NextRotationTypeOK, NextCanary
<1>3. RotationTypeOK /\ Canary /\ [Next]_vars =>
        [cooling' /\ ~cooling /\ ~WasDown => token # boot]_rotationVars
  BY QueueOnlyWatches, NextCanaryIsRight
<1> QED
  BY <1>1, <1>2, <1>3, PTL DEF Spec, CanaryIsRight

-----------------------------------------------------------------------------
(* Types of the queue.                                                     *)

Events == {"created", "archived"} \X Items

\* SetToSeq lists what is in a finite set.
LEMMA ListsAll ==
  ASSUME NEW S, IsFiniteSet(S)
  PROVE  /\ SetToSeq(S) \in Seq(S)
         /\ \A x \in S : Contains(SetToSeq(S), x)
<1> DEFINE n == Cardinality(S)
<1>1. n \in Nat /\ ExistsBijection(1..n, S)
  BY FS_CardinalityType
<1>2. \E f \in [1..n -> S] : IsInjective(f)
  BY <1>1 DEF ExistsBijection, Bijection, Injection
<1>3. SetToSeq(S) \in Injection(1..n, S)
  BY <1>2 DEF SetToSeq, Injection
<1>4. Cardinality(1..n) = n
  BY <1>1, FS_Interval
<1>5. SetToSeq(S) \in Surjection(1..n, S)
  BY <1>3, <1>4, FS_Injection
<1>6. Len(SetToSeq(S)) = n /\ SetToSeq(S) \in Seq(S)
  BY <1>1, <1>3 DEF Injection
<1> QED
  BY <1>5, <1>6 DEF Surjection, Contains

\* What a socket that opens with a token of the ledger's boot brings.
Snapshot == [k \in DOMAIN SetToSeq(Live) |-> Created(SetToSeq(Live)[k])]

LEMMA SnapshotIsLive ==
  /\ Snapshot \in Seq(Events)
  /\ \A i \in Live : Contains(Snapshot, Created(i))
  /\ \A k \in 1..Len(Snapshot) : \E i \in Live : Snapshot[k] = Created(i)
<1> DEFINE s == SetToSeq(Live)
<1>1. Live \subseteq Items /\ IsFiniteSet(Live)
  BY QueueAssumption, FS_Subset DEF Live
<1>2. s \in Seq(Live) /\ \A i \in Live : Contains(s, i)
  BY <1>1, ListsAll
<1>3. Len(s) \in Nat /\ DOMAIN s = 1..Len(s) /\ \A k \in 1..Len(s) : s[k] \in Live
  BY <1>2
<1>4. Snapshot = [k \in 1..Len(s) |-> Created(s[k])]
  BY <1>3 DEF Snapshot
<1>5. Snapshot \in Seq(Events) /\ Len(Snapshot) = Len(s)
  BY <1>1, <1>3, <1>4 DEF Created, Events
<1> QED
  BY <1>2, <1>3, <1>4, <1>5 DEF Contains

LEMMA InitTypeOK == Init => TypeOK
BY QueueAssumption, InitRotationTypeOK DEF Init, TypeOK, Events

LEMMA LoseTyped ==
  ASSUME TypeOK, Lose
  PROVE  wire' \in Seq({"created", "archived"} \X Items) /\ missed' \subseteq Items
BY DEF TypeOK, Lose, EndsOnWire

LEMMA NextTypeOK == TypeOK /\ [Next]_vars => TypeOK'
<1> SUFFICES ASSUME TypeOK, [Next]_vars PROVE TypeOK'
  OBVIOUS
<1>1. RotationTypeOK'
  BY QueueOnlyWatches, NextRotationTypeOK DEF TypeOK
<1> USE <1>1 DEF TypeOK
<1>2. CASE Environment(Environs)
  BY <1>2 DEF Environment, Live
<1>3. CASE Rotation(Rotates)
  <2>1. CASE token' # token
    BY <1>3, <2>1, LoseTyped DEF Rotation, Reopen
  <2>2. CASE token' = token
    BY <1>3, <2>2 DEF Rotation, socketVars
  <2> QED
    BY <2>1, <2>2
<1>4. CASE Renew
  BY <1>4, QueueAssumption, LoseTyped DEF Renew, Reopen
<1>5. ASSUME NEW i \in Items, Arises(i) PROVE TypeOK'
  BY <1>5 DEF Arises, Created
<1>6. ASSUME NEW i \in Items, Ends(i) PROVE TypeOK'
  BY <1>6 DEF Ends, Archived
<1>7. CASE SocketOpens
  <2>1. wire' \in Seq(Events)
    BY <1>7, SnapshotIsLive DEF SocketOpens, Snapshot
  <2> QED
    BY <1>7, <2>1 DEF SocketOpens, Events
<1>8. CASE SocketFails \/ SocketDrops
  <2>1. Retry /\ UNCHANGED <<item, records, renewals>>
    BY <1>8 DEF SocketFails, SocketDrops
  <2>2. /\ conn' \in {"fallback", "waiting"}
        /\ budget' \in {"untouched", "running", "spent"}
    BY <2>1 DEF Retry
  <2> QED
    BY <2>1, <2>2, LoseTyped DEF Retry
<1>9. CASE SocketCloses
  BY <1>9, LoseTyped DEF SocketCloses
<1>10. CASE RetryFires \/ BudgetEnds
  BY <1>10 DEF RetryFires, BudgetEnds
<1>11. CASE Deliver
  <2>1. Head(wire) \in Events /\ wire' \in Seq(Events)
    BY <1>11, HeadTailProperties DEF Deliver, Events
  <2> QED
    BY <1>11, <2>1 DEF Deliver, Apply, Events
<1>12. CASE UNCHANGED vars
  BY <1>12 DEF vars, queueVars, socketVars
<1> QED
  BY <1>2, <1>3, <1>4, <1>5, <1>6, <1>7, <1>8, <1>9, <1>10, <1>11, <1>12 DEF Next

\* Every variable of the tab and its queue stays within its type.
THEOREM TypeCorrect == Spec => []TypeOK
BY InitTypeOK, NextTypeOK, PTL DEF Spec

-----------------------------------------------------------------------------
(* The queue.                                                              *)

\* Only what ended is archived, and a contract is created before that.
InOrder ==
  /\ \A i \in Items : Contains(wire, Archived(i)) => item[i] = "gone"
  /\ \A i \in Items : \A j, k \in 1..Len(wire) :
       wire[j] = Created(i) /\ wire[k] = Archived(i) => j < k

\* What the tab is to list it lists or is told of; what it lists, or is told
\* of, and is over, it is told is over or missed.
ListedOrTold(i) == i \in records \/ Contains(wire, Created(i))

Current == Watched => \A i \in Live : ListedOrTold(i)

Accounted ==
  \A i \in Items \ Live : ListedOrTold(i) => i \in missed \/ Contains(wire, Archived(i))

\* A socket that is not there has nothing to say.
Silent == conn \notin {"open", "severed"} => wire = <<>>

Queue == InOrder /\ Current /\ Accounted /\ Silent

LEMMA InitQueue == Init => Queue
BY DEF Init, Queue, InOrder, Current, Accounted, Silent, ListedOrTold, Watched, Contains

\* No token is of a boot to come.
LEMMA TokensKnown == RotationTypeOK /\ Canary => token # boot + 1
BY RotationAssumption DEF RotationTypeOK, Canary, Known, Tokens, Boots

\* A socket that is lost takes what it had to say with it.
LEMMA LostSocket ==
  ASSUME Queue, Lose, conn' # "open", UNCHANGED <<item, records>>
  PROVE  Queue'
<1>1. \A e : ~Contains(wire', e)
  BY DEF Lose, Contains
<1>2. Len(wire') = 0
  BY DEF Lose
<1>3. InOrder' /\ Current' /\ Silent'
  BY <1>1, <1>2 DEF InOrder, Current, Watched, Silent, Lose
<1>4. Accounted'
  BY <1>1 DEF Queue, Accounted, ListedOrTold, Live, Lose, EndsOnWire
<1> QED
  BY <1>3, <1>4 DEF Queue

\* An event that is put on the wire is there after the others.
LEMMA Sent ==
  ASSUME TypeOK, NEW e \in Events, wire' = Append(wire, e)
  PROVE  /\ \A x : Contains(wire', x) <=> Contains(wire, x) \/ x = e
         /\ Len(wire) \in Nat /\ Len(wire') = Len(wire) + 1 /\ wire'[Len(wire')] = e
         /\ \A k \in 1..Len(wire) : wire'[k] = wire[k]
<1>1. wire \in Seq(Events)
  BY DEF TypeOK, Events
<1>2. /\ Len(wire) \in Nat
      /\ Len(wire') = Len(wire) + 1 /\ wire'[Len(wire')] = e
      /\ \A k \in 1..Len(wire) : wire'[k] = wire[k]
  BY <1>1
<1> QED
  BY <1>2 DEF Contains

LEMMA NextQueue == TypeOK /\ Canary /\ Queue /\ [Next]_vars => Queue'
<1> SUFFICES ASSUME TypeOK, Canary, Queue, [Next]_vars PROVE Queue'
  OBVIOUS
<1> USE DEF TypeOK
<1>1. CASE Environment(Environs)
  <2>1. UNCHANGED <<wire, records, token>>
    BY <1>1 DEF Environment, Environs, Reset, Starts, Allocates, Seeds, Cut, Mend, Moves
  <2>2. CASE boot' = boot
    BY <1>1, <2>1, <2>2
    DEF Environment, Queue, InOrder, Current, Accounted, Silent, ListedOrTold, Watched, Live
  <2>3. CASE boot' # boot
    <3>1. boot' = boot + 1
      BY <1>1, <2>3 DEF Environment, Environs, Reset, Starts, Allocates, Seeds, Cut, Mend, Moves
    <3>2. ~Watched'
      BY <1>1, <2>1, <3>1, <2>3, TokensKnown DEF Watched, Environment
    <3>3. Live' = {} /\ missed' = missed \union Live /\ \A i \in Items : item[i] = "gone" => item'[i] = "gone"
      BY <1>1, <2>3 DEF Environment, Live
    <3>4. InOrder'
      BY <2>1, <3>3 DEF Queue, InOrder
    <3>5. Accounted'
      BY <2>1, <3>3 DEF Queue, Accounted, ListedOrTold
    <3>6. Silent'
      BY <1>1, <2>1 DEF Queue, Silent, Environment
    <3> QED
      BY <3>2, <3>4, <3>5, <3>6 DEF Queue, Current
  <2> QED
    BY <2>2, <2>3
<1>2. CASE Rotation(Rotates)
  <2>1. CASE token' # token
    BY <1>2, <2>1, LostSocket DEF Rotation, Reopen
  <2>2. CASE token' = token
    <3>1. UNCHANGED <<item, socketVars, records, missed, boot>>
      BY <1>2, <2>2 DEF Rotation, Rotates, Fails, Succeeds, CanaryTick, CanaryServed, CanaryAnswered,
                        CanaryLost, CooldownEnds, MintAnswers, MintThrows, MintApplied, environment
    <3> QED
      BY <2>2, <3>1
      DEF socketVars, Queue, InOrder, Current, Accounted, Silent, ListedOrTold, Watched, Live
  <2> QED
    BY <2>1, <2>2
<1>3. CASE Renew
  BY <1>3, LostSocket DEF Renew, Reopen
<1>4. ASSUME NEW i \in Items, Arises(i) PROVE Queue'
  <2>1. /\ item' = [item EXCEPT ![i] = "live"] /\ item[i] = "new"
        /\ UNCHANGED <<conn, token, boot, records, missed>>
    BY <1>4 DEF Arises, rotationVars, environment
  <2>2. CASE Watched
    <3>1. wire' = Append(wire, Created(i)) /\ Created(i) \in Events
      BY <1>4, <2>2 DEF Arises, Created, Events
    <3>2. \A x : Contains(wire', x) <=> Contains(wire, x) \/ x = Created(i)
      BY <3>1, Sent
    <3>3. \A j \in Items : Archived(j) # Created(i) /\ (Created(j) = Created(i) => j = i)
      BY DEF Archived, Created
    <3>4. ~Contains(wire, Archived(i))
      BY <2>1 DEF Queue, InOrder
    <3>5. InOrder'
      <4>1. \A j \in Items : Contains(wire', Archived(j)) => item'[j] = "gone"
        BY <2>1, <3>2, <3>3 DEF Queue, InOrder
      <4>2. ASSUME NEW j \in Items, NEW k \in 1..Len(wire'), NEW l \in 1..Len(wire'),
                   wire'[k] = Created(j), wire'[l] = Archived(j)
            PROVE  k < l
        <5>1. Len(wire) \in Nat /\ Len(wire') = Len(wire) + 1 /\ wire'[Len(wire')] = Created(i)
              /\ \A m \in 1..Len(wire) : wire'[m] = wire[m]
          BY <3>1, Sent
        <5>2. l \in 1..Len(wire) /\ wire[l] = Archived(j)
          BY <3>3, <4>2, <5>1
        <5>3. j # i
          BY <3>4, <5>2 DEF Contains
        <5>4. k \in 1..Len(wire) /\ wire[k] = Created(j)
          BY <3>3, <4>2, <5>1, <5>3
        <5> QED
          BY <5>2, <5>4 DEF Queue, InOrder
      <4> QED
        BY <4>1, <4>2 DEF InOrder
    <3> QED
      BY <2>1, <3>2, <3>3, <3>5, <2>2 DEF Queue, Current, Accounted, Silent, ListedOrTold, Watched, Live
  <2>3. CASE ~Watched
    BY <1>4, <2>1, <2>3
    DEF Arises, Queue, InOrder, Current, Accounted, Silent, ListedOrTold, Watched, Live
  <2> QED
    BY <2>2, <2>3
<1>5. ASSUME NEW i \in Items, Ends(i) PROVE Queue'
  <2>1. /\ item' = [item EXCEPT ![i] = "gone"] /\ item[i] = "live"
        /\ UNCHANGED <<conn, token, boot, records>>
    BY <1>5 DEF Ends, rotationVars, environment
  <2>2. CASE Watched
    <3>1. wire' = Append(wire, Archived(i)) /\ Archived(i) \in Events /\ missed' = missed
      BY <1>5, <2>2 DEF Ends, Archived, Events
    <3>2. \A x : Contains(wire', x) <=> Contains(wire, x) \/ x = Archived(i)
      BY <3>1, Sent
    <3>3. \A j \in Items : Archived(i) # Created(j) /\ (Archived(j) = Archived(i) => j = i)
      BY DEF Archived, Created
    <3>4. InOrder'
      BY <2>1, <3>1, <3>2, <3>3, Sent DEF Queue, InOrder
    <3> QED
      BY <2>1, <3>1, <3>2, <3>3, <3>4, <2>2 DEF Queue, Current, Accounted, Silent, ListedOrTold, Watched, Live
  <2>3. CASE ~Watched
    BY <1>5, <2>1, <2>3
    DEF Ends, Queue, InOrder, Current, Accounted, Silent, ListedOrTold, Watched, Live
  <2> QED
    BY <2>2, <2>3
<1>6. CASE SocketOpens
  <2>1. UNCHANGED <<item, records, missed, token, boot>> /\ conn = "connecting"
    BY <1>6 DEF SocketOpens, rotationVars, environment
  <2>4. \A i \in Items \ Live : i \in records => i \in missed
    BY <2>1 DEF Queue, Accounted, Silent, ListedOrTold, Contains
  <2>2. CASE token = boot
    <3>1. wire' = Snapshot
      BY <1>6, <2>2 DEF SocketOpens, Snapshot
    <3>2. \A i \in Live : Contains(wire', Created(i))
      BY <3>1, SnapshotIsLive
    <3>3. \A i \in Items : ~Contains(wire', Archived(i)) /\ (Contains(wire', Created(i)) => i \in Live)
      BY <3>1, SnapshotIsLive DEF Contains, Archived, Created
    <3>4. InOrder'
      BY <3>3 DEF InOrder, Contains
    <3>5. Current'
      BY <2>1, <3>2 DEF Current, ListedOrTold, Live
    <3> QED
      BY <1>6, <2>1, <2>4, <3>3, <3>4, <3>5
      DEF SocketOpens, Queue, Accounted, Silent, ListedOrTold, Live
  <2>3. CASE token # boot
    <3>1. wire' = <<>> /\ ~Watched'
      BY <1>6, <2>1, <2>3 DEF SocketOpens, Watched
    <3> QED
      BY <2>1, <2>4, <3>1 DEF Queue, InOrder, Current, Accounted, Silent, ListedOrTold, Live, Contains
  <2> QED
    BY <2>2, <2>3
<1>7. CASE SocketFails \/ SocketDrops
  BY <1>7, LostSocket DEF SocketFails, SocketDrops, Retry
<1>8. CASE SocketCloses
  BY <1>8, LostSocket DEF SocketCloses
<1>9. CASE RetryFires
  BY <1>9 DEF RetryFires, Queue, InOrder, Current, Accounted, Silent, ListedOrTold, Watched, Live
<1>10. CASE BudgetEnds
  BY <1>10 DEF BudgetEnds, rotationVars, environment, Queue, InOrder, Current, Accounted, Silent, ListedOrTold, Watched, Live
<1>11. CASE Deliver
  <2>1. /\ conn \in {"open", "severed"} /\ wire # <<>> /\ wire' = Tail(wire)
        /\ records' = Apply(Head(wire))
        /\ UNCHANGED <<item, conn, missed, token, boot>>
    BY <1>11 DEF Deliver, rotationVars, environment
  <2>2. /\ Head(wire) \in Events /\ Head(wire) = wire[1]
        /\ Len(wire) \in Nat \ {0} /\ Len(wire') = Len(wire) - 1
        /\ \A k \in 1..Len(wire') : wire'[k] = wire[k + 1]
    BY <2>1, HeadTailProperties, EmptySeq DEF Events
  <2>3. \A x : Contains(wire, x) <=> Contains(wire', x) \/ x = Head(wire)
    <3>1. ASSUME NEW k \in 1..Len(wire) PROVE k = 1 \/ (k - 1 \in 1..Len(wire') /\ wire[k] = wire'[k - 1])
      BY <2>2
    <3>2. ASSUME NEW k \in 1..Len(wire') PROVE k + 1 \in 1..Len(wire) /\ wire'[k] = wire[k + 1]
      BY <2>2
    <3>3. 1 \in 1..Len(wire)
      BY <2>2
    <3> QED
      BY <2>2, <3>1, <3>2, <3>3 DEF Contains
  <2>4. InOrder'
    <3>1. \A i \in Items : Contains(wire', Archived(i)) => item'[i] = "gone"
      BY <2>1, <2>3 DEF Queue, InOrder
    <3>2. ASSUME NEW i \in Items, NEW j \in 1..Len(wire'), NEW k \in 1..Len(wire'),
                 wire'[j] = Created(i), wire'[k] = Archived(i)
          PROVE  j < k
      <4>1. /\ j + 1 \in 1..Len(wire) /\ k + 1 \in 1..Len(wire)
            /\ wire[j + 1] = Created(i) /\ wire[k + 1] = Archived(i)
        BY <2>2, <3>2
      <4>2. j + 1 < k + 1
        BY <4>1 DEF Queue, InOrder
      <4> QED
        BY <4>2
    <3> QED
      BY <3>1, <3>2 DEF InOrder
  <2>5. PICK i \in Items : Head(wire) \in {Created(i), Archived(i)}
    BY <2>2 DEF Events, Created, Archived
  <2>6. \A j \in Items : /\ Created(i) # Archived(j) /\ Archived(i) # Created(j)
                         /\ Created(i) = Created(j) => i = j
                         /\ Archived(i) = Archived(j) => i = j
    BY DEF Created, Archived
  <2>7. CASE Head(wire) = Created(i)
    <3>1. records' = records \union {i}
      BY <2>1, <2>7 DEF Apply, Created
    <3> QED
      BY <2>1, <2>3, <2>4, <2>6, <2>7, <3>1
      DEF Queue, Current, Accounted, Silent, ListedOrTold, Watched, Live
  <2>8. CASE Head(wire) = Archived(i)
    <3>1. records' = records \ {i}
      BY <2>1, <2>8 DEF Apply, Archived
    <3>2. item[i] = "gone"
      BY <2>3, <2>8 DEF Queue, InOrder
    <3>3. ~Contains(wire', Created(i))
      <4>1. ASSUME NEW k \in 1..Len(wire'), wire'[k] = Created(i) PROVE FALSE
        <5>1. k + 1 \in 1..Len(wire) /\ 1 \in 1..Len(wire) /\ wire[k + 1] = Created(i) /\ wire[1] = Archived(i)
          BY <2>2, <2>8, <4>1
        <5>2. k + 1 < 1
          BY <5>1 DEF Queue, InOrder
        <5> QED
          BY <5>2
      <4> QED
        BY <4>1 DEF Contains
    <3> QED
      BY <2>1, <2>3, <2>4, <2>6, <2>8, <3>1, <3>2, <3>3
      DEF Queue, Current, Accounted, Silent, ListedOrTold, Watched, Live
  <2> QED
    BY <2>5, <2>7, <2>8
<1>12. CASE UNCHANGED vars
  <2>1. UNCHANGED <<wire, item, records, missed, conn, token, boot>>
    BY <1>12 DEF vars, rotationVars, environment, queueVars, socketVars
  <2> QED
    BY <2>1 DEF Queue, InOrder, Current, Accounted, Silent, ListedOrTold, Watched, Live
<1> QED
  BY <1>1, <1>2, <1>3, <1>4, <1>5, <1>6, <1>7, <1>8, <1>9, <1>10, <1>11, <1>12 DEF Next

\* An open socket that has delivered what it had leaves the queue with every
\* contract that awaits the operator, and beyond them with those alone that
\* ended behind the back of the tab's sockets.
THEOREM QueueShowsTheLedger == Spec => []QueueIsCurrent
<1>1. Init => TypeOK /\ Canary /\ Queue
  BY InitTypeOK, InitCanary, InitQueue DEF Init
<1>2. TypeOK /\ Canary /\ Queue /\ [Next]_vars => TypeOK' /\ Canary' /\ Queue'
  BY QueueOnlyWatches, NextTypeOK, NextCanary, NextQueue DEF TypeOK
<1>3. TypeOK /\ Queue => QueueIsCurrent
  BY DEF TypeOK, Queue, Current, Accounted, ListedOrTold, QueueIsCurrent, Contains
<1> QED
  BY <1>1, <1>2, <1>3, PTL DEF Spec

=============================================================================
