--------------------------- MODULE ProposalsProofs ---------------------------
(***************************************************************************)
(* What Proposals keeps for every number of proposals and acknowledgements,*)
(* whatever is entered and whichever families have a policy.               *)
(***************************************************************************)
EXTENDS Proposals, SequenceTheorems, TLAPS

-----------------------------------------------------------------------------
(* Type correctness.                                                       *)

LEMMA InitTypeOK == Init => TypeOK
<1>1. <<>> \in IndexTuples
  BY DEF IndexTuples
<1> QED
  BY <1>1, ProposalsAssumption DEF Init, TypeOK

\* No step leaves the types.
LEMMA NextTypeOK == TypeOK /\ [Next]_vars => TypeOK'
<1> SUFFICES ASSUME TypeOK, [Next]_vars PROVE TypeOK'
  OBVIOUS
<1> USE DEF TypeOK
<1>0. <<>> \in IndexTuples
  BY DEF IndexTuples
<1>1. ASSUME NEW p \in Slots, NEW d \in Drafts, Propose(p, d) PROVE TypeOK'
  BY <1>1, ProposalsAssumption DEF Propose, ackVars, policyVars, clientVars
<1>2. ASSUME NEW p \in Slots, NEW args \in IndexTuples, PrepareAccept(p, args) PROVE TypeOK'
  BY <1>2 DEF PrepareAccept, RouteOf, proposalVars, ackVars, policyVars
<1>3. ASSUME NEW p \in Slots, NEW args \in IndexTuples, AcceptElsewhere(p, args) PROVE TypeOK'
  BY <1>3 DEF AcceptElsewhere, Become, ackVars, policyVars, clientVars
<1>4. ASSUME NEW p \in Slots, Accept(p) PROVE TypeOK'
  BY <1>4 DEF Accept, Become, CanAccept, ackVars, policyVars
<1>5. ASSUME NEW p \in Slots, AcceptFails(p) PROVE TypeOK'
  BY <1>5 DEF AcceptFails, proposalVars, ackVars, policyVars
<1>6. ASSUME NEW p \in Slots, NEW a \in Acks, ProposeAccept(p, a) PROVE TypeOK'
  BY <1>6 DEF ProposeAccept, proposalVars, policyVars
<1>7. ASSUME NEW p \in Slots, Reject(p) \/ Withdraw(p) PROVE TypeOK'
  BY <1>7 DEF Reject, Withdraw, ackVars, policyVars, clientVars
<1>8. ASSUME NEW a \in Acks, ConfirmAccept(a) PROVE TypeOK'
  BY <1>0, <1>8 DEF ConfirmAccept, Become, CanAccept, Archive, policyVars, clientVars
<1>9. ASSUME NEW a \in Acks, CancelAck(a) PROVE TypeOK'
  BY <1>0, <1>9 DEF CancelAck, Archive, proposalVars, policyVars, clientVars
<1>10. ASSUME NEW f \in Policied, SetMode(f) PROVE TypeOK'
  BY <1>10, ProposalsAssumption DEF SetMode, proposalVars, ackVars, clientVars
<1>11. CASE UNCHANGED vars
  BY <1>11 DEF vars, proposalVars, ackVars, policyVars, clientVars
<1> QED
  BY <1>1, <1>2, <1>3, <1>4, <1>5, <1>6, <1>7, <1>8, <1>9, <1>10, <1>11 DEF Next

\* Every reachable state is well typed.
THEOREM TypeCorrect == Spec => []TypeOK
<1> QED
  BY InitTypeOK, NextTypeOK, PTL DEF Spec

-----------------------------------------------------------------------------
(* No trade twice.                                                         *)

\* Of any two swaps, one of them an instrument's, the ids differ.
DistinctIds ==
  \A p, q \in Slots :
    /\ p # q
    /\ status[p] \in Swap
    /\ status[q] \in Swap
    /\ Terms(p).family \in SwapFamilies
    => InstrumentId(Terms(p)) # InstrumentId(Terms(q))

\* An instrument's id says its family.
LEMMA SameIdSameFamily ==
  ASSUME NEW x, NEW y, InstrumentId(x) = InstrumentId(y)
  PROVE  x.family = y.family
BY DEF InstrumentId

\* A step makes at most one swap, of an open proposal that can be accepted,
\* and leaves the drafts of all proposals that were made.
OneSwapMade ==
  \/ \A q \in Slots : status'[q] \in Swap => status[q] \in Swap /\ Terms(q)' = Terms(q)
  \/ \E p \in Slots :
       /\ ~Registered(p)
       /\ status[p] \notin Swap
       /\ \A q \in Slots : Terms(q)' = Terms(q)
       /\ \A q \in Slots \ {p} : status'[q] \in Swap => status[q] \in Swap

LEMMA StepOneSwapMade ==
  ASSUME TypeOK, [Next]_vars
  PROVE  OneSwapMade
<1> USE DEF Terms, TypeOK
<1>1. ASSUME NEW p \in Slots, NEW args, NEW how, CanAccept(p, args), Become(p, args, how),
             UNCHANGED draft
      PROVE  OneSwapMade
  BY <1>1 DEF OneSwapMade, CanAccept, Become, Swap
<1>2. ASSUME NEW p \in Slots, NEW d \in Drafts, Propose(p, d) PROVE OneSwapMade
  BY <1>2 DEF Propose, OneSwapMade, Swap
<1>3. ASSUME NEW p \in Slots, NEW args \in IndexTuples, AcceptElsewhere(p, args)
      PROVE OneSwapMade
  BY <1>1, <1>3 DEF AcceptElsewhere
<1>4. ASSUME NEW p \in Slots, Accept(p) PROVE OneSwapMade
  BY <1>1, <1>4 DEF Accept
<1>5. ASSUME NEW p \in Slots, Reject(p) \/ Withdraw(p) PROVE OneSwapMade
  BY <1>5 DEF Reject, Withdraw, OneSwapMade, Swap
<1>6. ASSUME NEW a \in Acks, ConfirmAccept(a) PROVE OneSwapMade
  <2>1. ackOf[a] \in Slots
    BY <1>6 DEF ConfirmAccept
  <2> QED
    BY <1>1, <1>6, <2>1 DEF ConfirmAccept
<1>7. ASSUME UNCHANGED proposalVars PROVE OneSwapMade
  BY <1>7 DEF proposalVars, OneSwapMade
<1> QED
  BY <1>2, <1>3, <1>4, <1>5, <1>6, <1>7
  DEF Next, PrepareAccept, AcceptFails, ProposeAccept, CancelAck, SetMode, vars

\* Swaps of one family keep distinct ids.
LEMMA NextDistinctIds ==
  ASSUME TypeOK, DistinctIds, [Next]_vars
  PROVE  DistinctIds'
<1>1. CASE \A q \in Slots : status'[q] \in Swap => status[q] \in Swap /\ Terms(q)' = Terms(q)
  BY <1>1 DEF DistinctIds
<1>2. ASSUME NEW p \in Slots, ~Registered(p), status[p] \notin Swap,
             \A q \in Slots : Terms(q)' = Terms(q),
             \A q \in Slots \ {p} : status'[q] \in Swap => status[q] \in Swap
      PROVE  DistinctIds'
  <2>1. SUFFICES ASSUME NEW q \in Slots, NEW r \in Slots, q # r,
                        status'[q] \in Swap, status'[r] \in Swap,
                        Terms(q).family \in SwapFamilies,
                        InstrumentId(Terms(q)) = InstrumentId(Terms(r))
                 PROVE  FALSE
    BY <1>2 DEF DistinctIds
  <2>2. Terms(r).family \in SwapFamilies
    BY <2>1, SameIdSameFamily
  <2>3. CASE q # p /\ r # p
    BY <1>2, <2>1, <2>3 DEF DistinctIds
  <2>4. ASSUME NEW x \in Slots, status[x] \in Swap PROVE draft[x] # Nobody
    BY <2>4 DEF TypeOK, Swap
  <2>5. CASE q = p
    BY <1>2, <2>1, <2>4, <2>5 DEF Registered
  <2>6. CASE r = p
    BY <1>2, <2>1, <2>2, <2>4, <2>6 DEF Registered
  <2> QED
    BY <2>3, <2>5, <2>6
<1> QED
  BY <1>1, <1>2, StepOneSwapMade DEF OneSwapMade

\* However often a trade is proposed, it becomes one swap.
THEOREM TradesAreMadeOnce == Spec => []SameTradeOnce
<1>1. Init => DistinctIds
  BY DEF Init, DistinctIds, Swap
<1>2. DistinctIds => SameTradeOnce
  BY DEF DistinctIds, SameTradeOnce
<1> QED
  BY <1>1, <1>2, NextDistinctIds, TypeCorrect, PTL DEF Spec

-----------------------------------------------------------------------------
(* The promise.                                                            *)

\* A step that leaves both of Promise's variables.
LEMMA Stutters ==
  ASSUME UNCHANGED <<status, ackOf>>
  PROVE  UNCHANGED Promise!vars
BY DEF Promise!vars

\* A decision that involves no acknowledgement.
LEMMA Closes ==
  ASSUME TypeOK, NEW p \in Slots, NEW outcome \in {"accepted", "rejected", "withdrawn"},
         status[p] = "open", status' = [status EXCEPT ![p] = outcome], UNCHANGED ackOf
  PROVE  Promise!Close(p)
BY DEF Promise!Close, Promise!Decide

\* Archiving an acknowledgement takes it out of its proposal's, and no other's.
LEMMA ArchiveTakes ==
  ASSUME TypeOK, NEW a \in Acks, ackOf[a] # Nobody, Archive(a)
  PROVE  [p \in Slots |-> {b \in Acks : ackOf'[b] = p}] =
         [[p \in Slots |-> {b \in Acks : ackOf[b] = p}]
            EXCEPT ![ackOf[a]] = @ \ {a}]
<1>1. ackOf \in [Acks -> Slots \union {Nobody}] /\ ackOf[a] \in Slots
  BY DEF TypeOK
<1>2. ackOf' = [ackOf EXCEPT ![a] = Nobody]
  BY DEF Archive
<1>3. ASSUME NEW p \in Slots, p # ackOf[a]
      PROVE  {b \in Acks : ackOf'[b] = p} = {b \in Acks : ackOf[b] = p}
  BY <1>1, <1>2, <1>3, ProposalsAssumption
<1>4. {b \in Acks : ackOf'[b] = ackOf[a]} = {b \in Acks : ackOf[b] = ackOf[a]} \ {a}
  BY <1>1, <1>2, ProposalsAssumption
<1> QED
  BY <1>1, <1>3, <1>4

\* ProposeAccept adds to its proposal's, and to no other's.
LEMMA ProposeAcceptAdds ==
  ASSUME TypeOK, NEW p \in Slots, NEW a \in Acks, ProposeAccept(p, a)
  PROVE  [q \in Slots |-> {b \in Acks : ackOf'[b] = q}] =
         [[q \in Slots |-> {b \in Acks : ackOf[b] = q}] EXCEPT ![p] = @ \union {a}]
<1>1. ackOf \in [Acks -> Slots \union {Nobody}]
  BY DEF TypeOK
<1>2. ackOf' = [ackOf EXCEPT ![a] = p] /\ ackOf[a] = Nobody
  BY DEF ProposeAccept
<1>3. ASSUME NEW q \in Slots, q # p
      PROVE  {b \in Acks : ackOf'[b] = q} = {b \in Acks : ackOf[b] = q}
  BY <1>1, <1>2, <1>3, ProposalsAssumption
<1>4. {b \in Acks : ackOf'[b] = p} = {b \in Acks : ackOf[b] = p} \union {a}
  BY <1>1, <1>2
<1> QED
  BY <1>3, <1>4

\* Every step is one of the promise, or leaves it.
LEMMA NextKeepsPromise ==
  ASSUME TypeOK, [Next]_vars
  PROVE  [Promise!Next]_(Promise!vars)
<1> USE DEF Promise!Next
<1>1. ASSUME NEW p \in Slots, NEW d \in Drafts, Propose(p, d) PROVE Promise!Offer(p)
  BY <1>1 DEF Propose, ackVars, Promise!Offer, Promise!Decide
<1>2. ASSUME NEW p \in Slots, NEW args \in IndexTuples, AcceptElsewhere(p, args)
      PROVE  Promise!Close(p)
  BY <1>2, Closes DEF AcceptElsewhere, Become, ackVars
<1>3. ASSUME NEW p \in Slots, Accept(p) PROVE Promise!Close(p)
  BY <1>3, Closes DEF Accept, CanAccept, Become, ackVars
<1>4. ASSUME NEW p \in Slots, Reject(p) \/ Withdraw(p) PROVE Promise!Close(p)
  BY <1>4, Closes DEF Reject, Withdraw, ackVars
<1>5. ASSUME NEW p \in Slots, NEW a \in Acks, ProposeAccept(p, a) PROVE Promise!Consent(p, a)
  <2>1. status[p] = "open" /\ ackOf[a] = Nobody /\ UNCHANGED status
    BY <1>5 DEF ProposeAccept, proposalVars
  <2>2. \A q \in Slots : a \notin {b \in Acks : ackOf[b] = q}
    BY <2>1, ProposalsAssumption
  <2> QED
    BY <1>5, <2>1, <2>2, ProposeAcceptAdds DEF Promise!Consent
<1>6. ASSUME NEW a \in Acks, CancelAck(a) PROVE \E p \in Slots : Promise!Retract(p, a)
  <2>1. ackOf[a] \in Slots /\ ackOf[a] # Nobody /\ Archive(a) /\ UNCHANGED status
    BY <1>6 DEF CancelAck, proposalVars, TypeOK
  <2> QED
    BY <2>1, ArchiveTakes DEF Promise!Retract
<1>7. ASSUME NEW a \in Acks, ConfirmAccept(a) PROVE \E p \in Slots : Promise!Confirm(p, a)
  <2>1. ackOf[a] \in Slots /\ ackOf[a] # Nobody /\ Archive(a)
    BY <1>7 DEF ConfirmAccept, TypeOK
  <2>2. status[ackOf[a]] = "open" /\ status' = [status EXCEPT ![ackOf[a]] = "confirmed"]
    BY <1>7 DEF ConfirmAccept, CanAccept, Become
  <2> QED
    BY <2>1, <2>2, ArchiveTakes DEF Promise!Confirm, Promise!Decide
<1>8. ASSUME UNCHANGED <<status, ackOf>> PROVE UNCHANGED Promise!vars
  BY <1>8, Stutters
<1> QED
  BY <1>1, <1>2, <1>3, <1>4, <1>5, <1>6, <1>7, <1>8
  DEF Next, PrepareAccept, AcceptFails, SetMode, vars, proposalVars, ackVars

\* A proposal is decided once, and confirmed on a standing consent only.
THEOREM KeepsItsPromise == Spec => KeepsPromise
<1>1. Init => Promise!Init
  BY ProposalsAssumption DEF Init, Promise!Init
<1> QED
  BY <1>1, TypeCorrect, NextKeepsPromise, PTL DEF Spec, KeepsPromise, Promise!Spec

-----------------------------------------------------------------------------
(* Indices.                                                                *)

\* Indices with which the workspace accepts a proposal that it shows as its
\* own family's.
Sent(p, args) == RightTemplate(p) => args \in IndexArguments(Terms(p).family)

\* What a browser holds was sent for its proposal.
RouteHeld(p) == route[p] # "idle" => status[p] # "none" /\ Sent(p, held[p])

\* So was what an acknowledgement names.
AckHeld(a) ==
  ackOf[a] # Nobody =>
    /\ status[ackOf[a]] # "none"
    /\ ackIndex[a] \in IndexArguments(Terms(ackOf[a]).family)

HeldForFamily ==
  /\ \A p \in Slots : RouteHeld(p)
  /\ \A a \in Acks : AckHeld(a)

\* The proposals that were made keep their terms.
LEMMA DraftStays ==
  ASSUME TypeOK, [Next]_vars, NEW p \in Slots, status[p] # "none"
  PROVE  status'[p] # "none" /\ draft'[p] = draft[p]
<1> USE DEF TypeOK
<1>1. ASSUME NEW q \in Slots, NEW args, NEW how \in Swap, Become(q, args, how), UNCHANGED draft
      PROVE  status'[p] # "none" /\ draft'[p] = draft[p]
  BY <1>1 DEF Become, Swap
<1>2. ASSUME NEW q \in Slots, NEW d \in Drafts, Propose(q, d)
      PROVE  status'[p] # "none" /\ draft'[p] = draft[p]
  BY <1>2 DEF Propose
<1>3. ASSUME NEW q \in Slots, Reject(q) \/ Withdraw(q)
      PROVE  status'[p] # "none" /\ draft'[p] = draft[p]
  BY <1>3 DEF Reject, Withdraw
<1>4. ASSUME NEW a \in Acks, ConfirmAccept(a)
      PROVE  status'[p] # "none" /\ draft'[p] = draft[p]
  <2>1. ackOf[a] \in Slots
    BY <1>4 DEF ConfirmAccept
  <2> QED
    BY <1>1, <1>4, <2>1 DEF ConfirmAccept, Swap
<1>5. ASSUME UNCHANGED proposalVars
      PROVE  status'[p] # "none" /\ draft'[p] = draft[p]
  BY <1>5 DEF proposalVars
<1> QED
  BY <1>1, <1>2, <1>3, <1>4, <1>5
  DEF Next, AcceptElsewhere, Accept, PrepareAccept, AcceptFails, ProposeAccept, CancelAck,
      SetMode, vars, Swap

\* A route that a step leaves, or ends, keeps what it had.
LEMMA RouteStays ==
  ASSUME TypeOK, [Next]_vars, NEW p \in Slots, RouteHeld(p),
         route'[p] # "idle" => route[p] # "idle" /\ held'[p] = held[p]
  PROVE  RouteHeld(p)'
<1> SUFFICES ASSUME route'[p] # "idle" PROVE status'[p] # "none" /\ Sent(p, held[p])'
  BY DEF RouteHeld
<1>1. status[p] # "none" /\ Sent(p, held[p]) /\ held'[p] = held[p]
  BY DEF RouteHeld
<1>2. status'[p] # "none" /\ draft'[p] = draft[p]
  BY <1>1, DraftStays
<1> QED
  BY <1>1, <1>2 DEF Sent, RightTemplate, Terms

\* An acknowledgement that a step leaves, or archives, keeps what it had.
LEMMA AckStays ==
  ASSUME TypeOK, [Next]_vars, NEW a \in Acks, AckHeld(a),
         ackOf'[a] # Nobody => ackOf'[a] = ackOf[a] /\ ackIndex'[a] = ackIndex[a]
  PROVE  AckHeld(a)'
<1> SUFFICES ASSUME ackOf'[a] # Nobody PROVE AckHeld(a)'
  BY DEF AckHeld
<1>1. ackOf'[a] = ackOf[a] /\ ackIndex'[a] = ackIndex[a] /\ ackOf[a] \in Slots
  BY DEF TypeOK
<1>2. status[ackOf[a]] # "none" /\ ackIndex[a] \in IndexArguments(Terms(ackOf[a]).family)
  BY <1>1, ProposalsAssumption DEF AckHeld
<1>3. status'[ackOf[a]] # "none" /\ draft'[ackOf[a]] = draft[ackOf[a]]
  BY <1>1, <1>2, DraftStays
<1> QED
  BY <1>1, <1>2, <1>3 DEF AckHeld, Terms

LEMMA NextHeldForFamily ==
  ASSUME TypeOK, HeldForFamily, [Next]_vars
  PROVE  HeldForFamily'
<1>1. ASSUME NEW p \in Slots,
             route'[p] # "idle" => route[p] # "idle" /\ held'[p] = held[p]
      PROVE  RouteHeld(p)'
  BY <1>1, RouteStays DEF HeldForFamily
<1>2. ASSUME NEW a \in Acks,
             ackOf'[a] # Nobody => ackOf'[a] = ackOf[a] /\ ackIndex'[a] = ackIndex[a]
      PROVE  AckHeld(a)'
  BY <1>2, AckStays DEF HeldForFamily
<1>3. CASE UNCHANGED <<ackVars, clientVars>>
  BY <1>1, <1>2, <1>3 DEF HeldForFamily, ackVars, clientVars
<1>4. ASSUME NEW p \in Slots, NEW args \in IndexTuples, PrepareAccept(p, args)
      PROVE  HeldForFamily'
  <2>1. ASSUME NEW q \in Slots, q # p PROVE RouteHeld(q)'
    BY <1>1, <1>4, <2>1 DEF PrepareAccept, TypeOK
  <2>2. status'[p] # "none" /\ held'[p] = args /\ draft'[p] = draft[p]
    BY <1>4 DEF PrepareAccept, proposalVars, TypeOK
  <2>3. args \in IndexArguments(ShownFamily(Terms(p)))
    BY <1>4 DEF PrepareAccept
  <2>4. RouteHeld(p)'
    BY <2>2, <2>3 DEF RouteHeld, Sent, RightTemplate, Terms
  <2> QED
    BY <1>2, <1>4, <2>1, <2>4 DEF PrepareAccept, ackVars, HeldForFamily
<1>5. ASSUME NEW p \in Slots, Accept(p) \/ AcceptFails(p) PROVE HeldForFamily'
  <2>1. route' = [route EXCEPT ![p] = "idle"] /\ UNCHANGED <<held, ackVars>>
    BY <1>5 DEF Accept, AcceptFails
  <2>2. ASSUME NEW q \in Slots PROVE RouteHeld(q)'
    BY <1>1, <2>1 DEF TypeOK
  <2> QED
    BY <1>2, <2>1, <2>2 DEF ackVars, HeldForFamily
<1>6. ASSUME NEW p \in Slots, NEW a \in Acks, ProposeAccept(p, a) PROVE HeldForFamily'
  <2>1. /\ route' = [route EXCEPT ![p] = "idle"]
        /\ ackOf' = [ackOf EXCEPT ![a] = p]
        /\ ackIndex' = [ackIndex EXCEPT ![a] = held[p]]
        /\ UNCHANGED <<held, status, draft>>
        /\ route[p] # "idle" /\ RightTemplate(p)
    BY <1>6 DEF ProposeAccept, proposalVars
  <2>2. ASSUME NEW q \in Slots PROVE RouteHeld(q)'
    BY <1>1, <2>1 DEF TypeOK
  <2>3. ASSUME NEW b \in Acks, b # a PROVE AckHeld(b)'
    BY <1>2, <2>1, <2>3 DEF TypeOK
  <2>4. status[p] # "none" /\ held[p] \in IndexArguments(Terms(p).family)
    BY <2>1 DEF HeldForFamily, RouteHeld, Sent
  <2>5. ackOf'[a] = p /\ ackIndex'[a] = held[p]
    BY <2>1 DEF TypeOK
  <2>6. AckHeld(a)'
    BY <2>1, <2>4, <2>5 DEF AckHeld, Terms
  <2> QED
    BY <2>2, <2>3, <2>6 DEF HeldForFamily
<1>7. ASSUME NEW a \in Acks, Archive(a), UNCHANGED clientVars PROVE HeldForFamily'
  <2>1. ASSUME NEW b \in Acks PROVE AckHeld(b)'
    BY <1>2, <1>7 DEF Archive, TypeOK
  <2> QED
    BY <1>1, <1>7, <2>1 DEF clientVars, HeldForFamily
<1> QED
  BY <1>3, <1>4, <1>5, <1>6, <1>7
  DEF Next, Propose, AcceptElsewhere, Reject, Withdraw, ConfirmAccept, CancelAck, SetMode,
      vars

\* Indices that fit the floating legs of a proposal.
Fitting(q, args) ==
  /\ Len(args) = Len(FloatingCurrencies(q))
  /\ \A i \in DOMAIN args : IndexCurrency[args[i]] = FloatingCurrencies(q)[i]

\* The workspace's arguments fit once they are accepted, in dollars.
LEMMA SentArgumentsFit ==
  ASSUME DefaultCurrency = "USD", NEW q, NEW args \in IndexArguments(q.family),
         Acceptable(q, args)
  PROVE  Fitting(q, args)
<1>1. CASE q.family \in {"IRS", "OIS", "ASSET"}
  <2>1. PICK i \in IndicesOf("USD") : args = <<i>>
    BY <1>1 DEF IndexArguments
  <2>2. FloatingCurrencies(q) = <<"USD">>
    BY <1>1 DEF FloatingCurrencies
  <2> QED
    BY <2>1, <2>2 DEF Fitting, IndicesOf
<1>2. CASE q.family = "BASIS"
  <2>1. args = <<"USD-SOFR", "USD-EFFR">>
    BY <1>2 DEF IndexArguments, DefaultIndices
  <2>2. FloatingCurrencies(q) = <<q.currencies[1], q.currencies[1]>>
    BY <1>2 DEF FloatingCurrencies
  <2>3. BasisAcceptable(q, args)
    BY <1>2 DEF Acceptable
  <2> QED
    BY <2>1, <2>2, <2>3 DEF Fitting, BasisAcceptable
<1>3. CASE q.family = "XCCY"
  <2>1. args = <<"EUR-ESTR">>
    BY <1>3 DEF IndexArguments, DefaultIndices
  <2>2. FloatingCurrencies(q) = <<q.currencies[2]>>
    BY <1>3 DEF FloatingCurrencies
  <2>3. XccyAcceptable(q, args)
    BY <1>3 DEF Acceptable
  <2> QED
    BY <2>1, <2>2, <2>3 DEF Fitting, XccyAcceptable
<1>4. CASE q.family \notin {"IRS", "OIS", "ASSET", "BASIS", "XCCY"}
  BY <1>4 DEF IndexArguments, FloatingCurrencies, Fitting
<1> QED
  BY <1>1, <1>2, <1>3, <1>4

\* So do any that BASIS and XCCY accept.
LEMMA CheckedArgumentsFit ==
  ASSUME NEW q, q.family \in SelfChecking, NEW args \in IndexTuples,
         Len(args) = Len(FloatingCurrencies(q)), Acceptable(q, args)
  PROVE  Fitting(q, args)
<1>1. CASE q.family = "BASIS"
  <2>1. FloatingCurrencies(q) = <<q.currencies[1], q.currencies[1]>>
    BY <1>1 DEF FloatingCurrencies
  <2>2. BasisAcceptable(q, args)
    BY <1>1 DEF Acceptable
  <2>3. Len(args) = 2
    BY <2>1
  <2>4. PICK i \in Indices, j \in Indices : args = <<i, j>>
    BY <2>3 DEF IndexTuples
  <2> QED
    BY <2>1, <2>2, <2>4 DEF Fitting, BasisAcceptable
<1>2. CASE q.family = "XCCY"
  <2>1. FloatingCurrencies(q) = <<q.currencies[2]>>
    BY <1>2 DEF FloatingCurrencies
  <2>2. XccyAcceptable(q, args)
    BY <1>2 DEF Acceptable
  <2>3. Len(args) = 1
    BY <2>1
  <2>4. PICK i \in Indices : args = <<i>>
    BY <2>3 DEF IndexTuples
  <2> QED
    BY <2>1, <2>2, <2>4 DEF Fitting, XccyAcceptable
<1> QED
  BY <1>1, <1>2 DEF SelfChecking

\* A new swap's indices fit; the others' are left.
LEMMA NextIndexFits ==
  ASSUME DefaultCurrency = "USD", TypeOK, HeldForFamily, IndexFits, [Next]_vars
  PROVE  IndexFits'
<1> DEFINE Fitted(p) == status'[p] \in Swap => Fitting(Terms(p), swapIndex'[p])
<1>1. ASSUME NEW p \in Slots, status'[p] \in Swap => status[p] \in Swap,
             swapIndex'[p] = swapIndex[p]
      PROVE  Fitted(p)
  BY <1>1 DEF IndexFits, Fitting
<1>2. ASSUME NEW p \in Slots, NEW args, NEW how, Become(p, args, how), Fitting(Terms(p), args)
      PROVE  \A q \in Slots : Fitted(q)
  <2>1. Fitted(p)
    BY <1>2 DEF Become, TypeOK
  <2>2. ASSUME NEW q \in Slots, q # p PROVE Fitted(q)
    BY <1>1, <1>2, <2>2 DEF Become, TypeOK
  <2> QED
    BY <2>1, <2>2
<1>3. ASSUME NEW p \in Slots, NEW args \in IndexTuples, AcceptElsewhere(p, args)
      PROVE  \A q \in Slots : Fitted(q)
  BY <1>2, <1>3, CheckedArgumentsFit DEF AcceptElsewhere, CanAccept
<1>4. ASSUME NEW p \in Slots, Accept(p) PROVE \A q \in Slots : Fitted(q)
  <2>1. held[p] \in IndexArguments(Terms(p).family)
    BY <1>4 DEF Accept, HeldForFamily, RouteHeld, Sent
  <2> QED
    BY <1>2, <1>4, <2>1, SentArgumentsFit DEF Accept, CanAccept
<1>5. ASSUME NEW a \in Acks, ConfirmAccept(a) PROVE \A q \in Slots : Fitted(q)
  <2>1. ackOf[a] \in Slots /\ ackIndex[a] \in IndexArguments(Terms(ackOf[a]).family)
    BY <1>5 DEF ConfirmAccept, HeldForFamily, AckHeld, TypeOK
  <2> QED
    BY <1>2, <1>5, <2>1, SentArgumentsFit DEF ConfirmAccept, CanAccept
<1>6. ASSUME NEW p \in Slots, NEW d \in Drafts, Propose(p, d) PROVE \A q \in Slots : Fitted(q)
  BY <1>1, <1>6 DEF Propose, Swap, TypeOK
<1>7. ASSUME NEW p \in Slots, Reject(p) \/ Withdraw(p) PROVE \A q \in Slots : Fitted(q)
  BY <1>1, <1>7 DEF Reject, Withdraw, Swap, TypeOK
<1>8. ASSUME UNCHANGED proposalVars PROVE \A q \in Slots : Fitted(q)
  BY <1>1, <1>8 DEF proposalVars
<1>9. \A q \in Slots : Fitted(q)
  BY <1>3, <1>4, <1>5, <1>6, <1>7, <1>8
  DEF Next, PrepareAccept, AcceptFails, ProposeAccept, CancelAck, SetMode, vars
<1>10. ASSUME NEW q \in Slots, status'[q] \in Swap PROVE Terms(q)' = Terms(q)
  <2>1. CASE status[q] # "none"
    BY <2>1, DraftStays DEF Terms
  <2>2. CASE status[q] = "none"
    BY <1>10, <2>2, StepOneSwapMade DEF OneSwapMade, Swap
  <2> QED
    BY <2>1, <2>2
<1> QED
  BY <1>9, <1>10 DEF IndexFits, Fitting

\* If the default currency is the dollar, a swap's indices are of its legs'
\* currencies, though three families do not compare them.
THEOREM IndicesFit ==
  ASSUME DefaultCurrency = "USD"
  PROVE  Spec => []IndexFits
<1>1. Init => HeldForFamily /\ IndexFits
  BY DEF Init, HeldForFamily, RouteHeld, AckHeld, IndexFits, Swap
<1>2. TypeOK /\ HeldForFamily /\ IndexFits /\ [Next]_vars => HeldForFamily' /\ IndexFits'
  BY NextHeldForFamily, NextIndexFits
<1> QED
  BY <1>1, <1>2, TypeCorrect, PTL DEF Spec

-----------------------------------------------------------------------------
(* What a proposal says of what was entered.                               *)

\* Which of two legs find finds.
LEMMA FindFirst ==
  ASSUME NEW d, DOMAIN d.legs = 1..2, NEW types, d.legs[1].type \in types
  PROVE  Find(d, types) = d.legs[1]
<1> DEFINE found == {i \in DOMAIN d.legs : d.legs[i].type \in types}
<1>1. 1 \in found /\ found \subseteq 1..2
  OBVIOUS
<1>2. (CHOOSE i \in found : \A j \in found : i <= j) = 1
  BY <1>1
<1> QED
  BY <1>1, <1>2 DEF Find

LEMMA FindSecond ==
  ASSUME NEW d, DOMAIN d.legs = 1..2, NEW types,
         d.legs[1].type \notin types, d.legs[2].type \in types
  PROVE  Find(d, types) = d.legs[2]
<1> DEFINE found == {i \in DOMAIN d.legs : d.legs[i].type \in types}
<1>1. found = {2}
  OBVIOUS
<1>2. (CHOOSE i \in found : \A j \in found : i <= j) = 2
  BY <1>1
<1> QED
  BY <1>1, <1>2 DEF Find

\* A payload has the family of what it was made of.
LEMMA PayloadFamily ==
  ASSUME NEW d, d.family \in SwapFamilies \union {"CSA"}
  PROVE  Payload(d).family = d.family
<1>1. \A days, notionals, rates, currencies :
        Offer(d, days, notionals, rates, currencies).family = d.family
  BY DEF Offer
<1>2. FpmlPayload(d).family = d.family
  BY DEF FpmlPayload, Offer
<1> QED
  BY <1>1, <1>2
  DEF Payload, SwapFamilies, IrsPayload, OisPayload, BasisPayload, XccyPayload, CdsPayload, CcyPayload,
      FxPayload, AssetPayload, CsaPayload

\* A page shows a proposal as its family's, but XCCY.
LEMMA PreviewFamily ==
  ASSUME NEW q, q.family \in SwapFamilies \ {"XCCY"}
  PROVE  Preview(q).family = q.family
BY DEF Preview, SwapFamilies, FixedFloatPreview, BasisPreview, CdsPreview, CcyPreview, FxPreview,
       AssetPreview, FpmlPreview, Shows

\* A tenor's days have that tenor.
LEMMA TenorStays == ASSUME NEW days PROVE Tenor(Tenor(days)) = Tenor(days)
<1>1. Tenor(days) \in {30, 91, 182, 365}
  BY DEF Tenor
<1> QED
  BY <1>1 DEF Tenor

\* What a payload takes from a draft besides its legs.
LEMMA SameOffer ==
  ASSUME NEW d, NEW e, d.family = e.family, d.by = e.by, d.start = e.start,
         NEW days, NEW notionals, NEW rates, NEW currencies
  PROVE  Offer(d, days, notionals, rates, currencies) = Offer(e, days, notionals, rates, currencies)
BY DEF Offer

\* What a page takes from an offer besides its legs.
LEMMA ShowsOffer ==
  ASSUME NEW d, NEW days, NEW notionals, NEW rates, NEW currencies, NEW legs
  PROVE  LET q == Offer(d, days, notionals, rates, currencies)
             view == Shows(q, d.family, days, legs)
         IN /\ q.family = d.family /\ q.days = days
            /\ q.notionals = notionals /\ q.rates = rates /\ q.currencies = currencies
            /\ view.family = d.family /\ view.by = d.by /\ view.start = d.start
            /\ view.days = days /\ view.legs = legs
BY DEF Offer, Shows

LEMMA FixedFloatRebuilds ==
  ASSUME NEW d, d.family \in {"IRS", "OIS"}
  PROVE  Payload(Preview(Payload(d))) = Payload(d)
<1> DEFINE n == Find(d, {"fixed"}).notional
           r == Find(d, {"fixed"}).rate
           t == IF d.family = "IRS" THEN Tenor(d.days) ELSE d.days
           q == Offer(d, t, <<n>>, <<r>>, <<>>)
           legs == <<PlainLeg("fixed", "USD", n, r), PlainLeg("float", "USD", n, 0)>>
           view == Shows(q, d.family, t, legs)
<1>1. Payload(d) = q
  BY DEF Payload, IrsPayload, OisPayload
<1>2. Preview(q) = view
  <2>1. q.family = d.family /\ q.days = t /\ q.notionals = <<n>> /\ q.rates = <<r>>
    BY ShowsOffer
  <2>2. Preview(q) = FixedFloatPreview(q)
    BY <2>1 DEF Preview
  <2> HIDE DEF q
  <2> QED
    BY <2>1, <2>2 DEF FixedFloatPreview
<1>3. /\ view.family = d.family /\ view.by = d.by /\ view.start = d.start
      /\ view.days = t /\ view.legs = legs
  <2> HIDE DEF t, legs
  <2> QED
    BY ShowsOffer
<1>4. Find(view, {"fixed"}).notional = n /\ Find(view, {"fixed"}).rate = r
  <2>1. DOMAIN legs = 1..2 /\ legs[1].type = "fixed" /\ legs[1].notional = n /\ legs[1].rate = r
    BY DEF PlainLeg
  <2> HIDE DEF view, legs
  <2> QED
    BY <1>3, <2>1, FindFirst
<1>5. Payload(view) = Offer(view, t, <<n>>, <<r>>, <<>>)
  <2> HIDE DEF view, n, r
  <2> QED
    BY <1>3, <1>4, TenorStays DEF Payload, IrsPayload, OisPayload
<1>6. Payload(view) = q
  <2> HIDE DEF view, n, r, t
  <2> QED
    BY <1>3, <1>5, SameOffer
<1> QED
  BY <1>1, <1>2, <1>6

\* A sequence of one currency, and two of them.
LEMMA OneCode ==
  ASSUME NEW c \in [1..1 -> STRING]
  PROVE  c = <<c[1]>>
OBVIOUS

LEMMA TwoCodes ==
  ASSUME NEW c \in [1..1 -> STRING], NEW d \in [1..1 -> STRING]
  PROVE  c \o d = <<c[1], d[1]>>
<1>1. c \in Seq(STRING) /\ d \in Seq(STRING) /\ Len(c) = 1 /\ Len(d) = 1
  <2>1. \A S : \A x \in S : <<x>> \in Seq(S) /\ Len(<<x>>) = 1
    OBVIOUS
  <2>2. c[1] \in STRING /\ d[1] \in STRING
    OBVIOUS
  <2>3. c = <<c[1]>> /\ d = <<d[1]>>
    BY OneCode
  <2> QED
    BY <2>1, <2>2, <2>3, Zenon
<1>2. /\ c \o d \in Seq(STRING)
      /\ Len(c \o d) = 2
      /\ \A i \in 1..2 : (c \o d)[i] = IF i <= 1 THEN c[i] ELSE d[i - 1]
  <2>1. /\ c \o d \in Seq(STRING)
        /\ Len(c \o d) = Len(c) + Len(d)
        /\ \A i \in 1..Len(c) + Len(d) : (c \o d)[i] = IF i <= Len(c) THEN c[i] ELSE d[i - Len(c)]
    BY <1>1, ConcatProperties, Zenon
  <2> QED
    BY <1>1, <2>1
<1>3. <<c[1], d[1]>> \in Seq(STRING) /\ Len(<<c[1], d[1]>>) = 2
  OBVIOUS
<1> DEFINE pair == <<c[1], d[1]>>
<1>4. pair[1] = c[1] /\ pair[2] = d[1]
  OBVIOUS
<1>5. \A i \in 1..2 : (c \o d)[i] = pair[i]
  BY <1>2, <1>4
<1> QED
  BY <1>2, <1>3, <1>5, SeqEqual

LEMMA BasisRebuilds ==
  ASSUME NEW d, d.family = "BASIS", d.legs[1].currencies \in [1..1 -> STRING]
  PROVE  Payload(Preview(Payload(d))) = Payload(d)
<1> DEFINE n == d.legs[1].notional
           r == d.legs[1].rate
           u == d.legs[2].rate
           c == d.legs[1].currencies[1]
           q == Offer(d, d.days, <<n>>, <<r, u>>, <<c>>)
           legs == <<PlainLeg("float", c, n, r), PlainLeg("float", c, n, u)>>
           view == Shows(q, d.family, d.days, legs)
<1>1. Payload(d) = q
  BY OneCode DEF Payload, BasisPayload
<1>2. Preview(q) = view
  <2>1. q.family = d.family /\ q.days = d.days /\ q.notionals = <<n>> /\ q.rates = <<r, u>>
        /\ q.currencies = <<c>>
    BY ShowsOffer
  <2>2. Preview(q) = BasisPreview(q)
    BY <2>1 DEF Preview
  <2> HIDE DEF q
  <2> QED
    BY <2>1, <2>2 DEF BasisPreview, BasisLegs
<1>3. /\ view.family = d.family /\ view.by = d.by /\ view.start = d.start
      /\ view.days = d.days /\ view.legs = legs
  BY ShowsOffer
<1>4. /\ legs[1].notional = n /\ legs[1].rate = r /\ legs[1].currencies = <<c>>
      /\ legs[2].rate = u
  BY DEF PlainLeg
<1>5. Payload(view) = Offer(view, d.days, <<n>>, <<r, u>>, <<c>>)
  <2> HIDE DEF view, n, r, u, c, legs
  <2> QED
    BY <1>3, <1>4 DEF Payload, BasisPayload
<1>6. Payload(view) = q
  <2> HIDE DEF view, n, r, u, c
  <2> QED
    BY <1>3, <1>5, SameOffer
<1> QED
  BY <1>1, <1>2, <1>6

LEMMA CdsRebuilds ==
  ASSUME NEW d, d.family = "CDS"
  PROVE  Payload(Preview(Payload(d))) = Payload(d)
<1> DEFINE n == Find(d, {"protection"}).notional
           r == Find(d, {"fixed"}).rate
           q == Offer(d, d.days, <<n>>, <<r>>, <<>>)
           legs == <<PlainLeg("fixed", "USD", n, r), BareLeg("protection", n)>>
           view == Shows(q, d.family, d.days, legs)
<1>1. Payload(d) = q
  BY DEF Payload, CdsPayload
<1>2. Preview(q) = view
  <2>1. q.family = d.family /\ q.days = d.days /\ q.notionals = <<n>> /\ q.rates = <<r>>
    BY ShowsOffer
  <2>2. Preview(q) = CdsPreview(q)
    BY <2>1 DEF Preview
  <2> HIDE DEF q
  <2> QED
    BY <2>1, <2>2 DEF CdsPreview
<1>3. /\ view.family = d.family /\ view.by = d.by /\ view.start = d.start
      /\ view.days = d.days /\ view.legs = legs
  BY ShowsOffer
<1>4. Find(view, {"fixed"}).rate = r /\ Find(view, {"protection"}).notional = n
  <2>1. /\ DOMAIN legs = 1..2
        /\ legs[1].type = "fixed" /\ legs[1].rate = r
        /\ legs[2].type = "protection" /\ legs[2].notional = n
    BY DEF PlainLeg, BareLeg
  <2> HIDE DEF view, legs
  <2> QED
    BY <1>3, <2>1, FindFirst, FindSecond
<1>5. Payload(view) = Offer(view, d.days, <<n>>, <<r>>, <<>>)
  <2> HIDE DEF view, n, r
  <2> QED
    BY <1>3, <1>4 DEF Payload, CdsPayload
<1>6. Payload(view) = q
  <2> HIDE DEF view, n, r
  <2> QED
    BY <1>3, <1>5, SameOffer
<1> QED
  BY <1>1, <1>2, <1>6

LEMMA CcyRebuilds ==
  ASSUME NEW d, d.family = "CCY",
         d.legs[1].currencies \in [1..1 -> STRING], d.legs[2].currencies \in [1..1 -> STRING]
  PROVE  Payload(Preview(Payload(d))) = Payload(d)
<1> DEFINE n == d.legs[1].notional
           r == d.legs[1].rate
           u == d.legs[2].rate
           b == d.legs[1].currencies[1]
           c == d.legs[2].currencies[1]
           q == Offer(d, d.days, <<n>>, <<r, u, 10800>>, <<b, c>>)
           m == (n * 10800) \div Whole
           legs == <<PlainLeg("fixed", b, n, r), PlainLeg("fixed", c, m, u)>>
           view == Shows(q, d.family, d.days, legs)
<1>1. Payload(d) = q
  <2>1. d.legs[1].currencies \o d.legs[2].currencies = <<b, c>>
    BY TwoCodes
  <2>2. Payload(d) = CcyPayload(d)
    BY DEF Payload
  <2> HIDE DEF m, legs, view, n, r, u, b, c
  <2>3. CcyPayload(d) = Offer(d, d.days, <<n>>, <<r, u, 10800>>, <<b, c>>)
    BY <2>1 DEF CcyPayload, n, r, u
  <2> QED
    BY <2>2, <2>3
<1>2. Preview(q) = view
  <2>1. q.family = d.family /\ q.days = d.days /\ q.notionals = <<n>> /\ q.rates = <<r, u, 10800>>
        /\ q.currencies = <<b, c>>
    BY ShowsOffer
  <2> HIDE DEF m, legs, view, q
  <2>2. Preview(q) = CcyPreview(q)
    BY <2>1 DEF Preview
  <2>3. CcyPreview(q) = view
    BY <2>1 DEF CcyPreview, view, legs, m
  <2> QED
    BY <2>2, <2>3
<1>3. /\ view.family = d.family /\ view.by = d.by /\ view.start = d.start
      /\ view.days = d.days /\ view.legs = legs
  <2> HIDE DEF legs
  <2> QED
    BY ShowsOffer
<1>4. /\ legs[1].notional = n /\ legs[1].rate = r /\ legs[1].currencies = <<b>>
      /\ legs[2].rate = u /\ legs[2].currencies = <<c>>
  <2> HIDE DEF m
  <2> QED
    BY DEF PlainLeg
<1>5. Payload(view) = Offer(view, d.days, <<n>>, <<r, u, 10800>>, <<b, c>>)
  <2>1. <<b>> \o <<c>> = <<b, c>>
    <3>1. <<b>> \in [1..1 -> STRING] /\ <<c>> \in [1..1 -> STRING]
      OBVIOUS
    <3> HIDE DEF b, c
    <3> QED
      BY <3>1, TwoCodes
  <2> HIDE DEF view, n, r, u, b, c, legs, q, m
  <2>2. Payload(view) = CcyPayload(view)
    BY <1>3 DEF Payload
  <2>3. view.legs[1].currencies \o view.legs[2].currencies = <<b, c>>
    BY <1>3, <1>4, <2>1
  <2>4. /\ view.days = d.days /\ view.legs[1].notional = n
        /\ view.legs[1].rate = r /\ view.legs[2].rate = u
    BY <1>3, <1>4
  <2>5. CcyPayload(view) =
          Offer(view, view.days, <<view.legs[1].notional>>,
                <<view.legs[1].rate, view.legs[2].rate, 10800>>,
                view.legs[1].currencies \o view.legs[2].currencies)
    BY DEF CcyPayload
  <2> QED
    BY <2>2, <2>3, <2>4, <2>5
<1>6. Payload(view) = q
  <2> HIDE DEF view, n, r, u, b, c
  <2> QED
    BY <1>3, <1>5, SameOffer
<1> QED
  BY <1>1, <1>2, <1>6

LEMMA FxRebuilds ==
  ASSUME NEW d, d.family = "FX"
  PROVE  Payload(Preview(Payload(d))) = Payload(d)
<1> DEFINE n == d.legs[1].notional
           r == d.legs[1].rate
           u == d.legs[2].rate
           pair == d.legs[1].currencies
           q == Offer(d, d.days, <<n>>, <<r, u>>, pair)
           legs == FxLegs(pair, n, r, u)
           view == Shows(q, d.family, d.days, legs)
<1>1. Payload(d) = q
  BY DEF Payload, FxPayload
<1>2. Preview(q) = view
  <2>1. q.family = d.family /\ q.days = d.days /\ q.notionals = <<n>> /\ q.rates = <<r, u>>
        /\ q.currencies = pair
    BY ShowsOffer
  <2>2. Preview(q) = FxPreview(q)
    BY <2>1 DEF Preview
  <2> HIDE DEF q
  <2> QED
    BY <2>1, <2>2 DEF FxPreview
<1>3. /\ view.family = d.family /\ view.by = d.by /\ view.start = d.start
      /\ view.days = d.days /\ view.legs = legs
  <2> HIDE DEF legs
  <2> QED
    BY ShowsOffer
<1>4. /\ legs[1].notional = n /\ legs[1].rate = r /\ legs[1].currencies = pair
      /\ legs[2].rate = u
  BY DEF FxLegs
<1>5. Payload(view) = Offer(view, d.days, <<n>>, <<r, u>>, pair)
  <2> HIDE DEF view, n, r, u, pair, legs
  <2> QED
    BY <1>3, <1>4 DEF Payload, FxPayload
<1>6. Payload(view) = q
  <2> HIDE DEF view, n, r, u, pair
  <2> QED
    BY <1>3, <1>5, SameOffer
<1> QED
  BY <1>1, <1>2, <1>6

LEMMA AssetRebuilds ==
  ASSUME NEW d, d.family = "ASSET"
  PROVE  Payload(Preview(Payload(d))) = Payload(d)
<1> DEFINE n == Find(d, {"asset"}).notional
           rateLeg == Find(d, {"fixed", "float"})
           r == IF rateLeg.type = "fixed" THEN rateLeg.rate ELSE 0
           q == Offer(d, d.days, <<n>>, <<r>>, <<>>)
           legs == <<BareLeg("asset", n), PlainLeg("fixed", "USD", n, r)>>
           view == Shows(q, d.family, d.days, legs)
<1>1. Payload(d) = q
  BY DEF Payload, AssetPayload
<1>2. Preview(q) = view
  <2>1. q.family = d.family /\ q.days = d.days /\ q.notionals = <<n>> /\ q.rates = <<r>>
    <3> HIDE DEF r
    <3> QED
      BY ShowsOffer
  <2>2. Preview(q) = AssetPreview(q)
    BY <2>1 DEF Preview
  <2> HIDE DEF q, r
  <2> QED
    BY <2>1, <2>2 DEF AssetPreview
<1>3. /\ view.family = d.family /\ view.by = d.by /\ view.start = d.start
      /\ view.days = d.days /\ view.legs = legs
  <2> HIDE DEF legs, r
  <2> QED
    BY ShowsOffer
<1>4. /\ Find(view, {"asset"}).notional = n
      /\ Find(view, {"fixed", "float"}).type = "fixed"
      /\ Find(view, {"fixed", "float"}).rate = r
  <2> HIDE DEF r
  <2>1. /\ DOMAIN legs = 1..2
        /\ legs[1].type = "asset" /\ legs[1].notional = n
        /\ legs[2].type = "fixed" /\ legs[2].rate = r
    BY DEF PlainLeg, BareLeg
  <2> HIDE DEF view, legs
  <2> QED
    BY <1>3, <2>1, FindFirst, FindSecond
<1>5. Payload(view) = Offer(view, d.days, <<n>>, <<r>>, <<>>)
  <2> HIDE DEF view, n, r
  <2> QED
    BY <1>3, <1>4 DEF Payload, AssetPayload
<1>6. Payload(view) = q
  <2> HIDE DEF view, n, r
  <2> QED
    BY <1>3, <1>5, SameOffer
<1> QED
  BY <1>1, <1>2, <1>6

LEMMA FpmlRebuilds ==
  ASSUME NEW d, d.family = "FpML"
  PROVE  Payload(Preview(Payload(d))) = Payload(d)
<1> DEFINE S == DOMAIN d.legs
           types == [i \in S |-> d.legs[i].type]
           n == [i \in S |-> d.legs[i].notional]
           r == [i \in S |-> d.legs[i].rate]
           c == [i \in S |-> d.legs[i].currencies[1]]
           q == FpmlPayload(d)
           legs == [i \in S |-> PlainLeg(types[i], c[i], n[i], r[i])]
           view == Shows(q, d.family, d.days, legs)
<1>1. Payload(d) = q
  BY DEF Payload
<1>2. /\ q.family = d.family /\ q.by = d.by /\ q.start = d.start /\ q.days = d.days
      /\ q.types = types /\ q.notionals = n /\ q.rates = r /\ q.currencies = c
  BY DEF FpmlPayload, Offer
<1>3. Preview(q) = view
  <2>1. Preview(q) = FpmlPreview(q)
    BY <1>2 DEF Preview
  <2>2. FpmlLegs(q) = legs
    <3> HIDE DEF q
    <3> QED
      BY <1>2 DEF FpmlLegs
  <2> HIDE DEF q, legs
  <2> QED
    BY <1>2, <2>1, <2>2 DEF FpmlPreview
<1>4. /\ view.family = d.family /\ view.by = d.by /\ view.start = d.start
      /\ view.days = d.days /\ view.legs = legs
  <2> HIDE DEF legs, q
  <2> QED
    BY <1>2 DEF Shows
<1>5. /\ [i \in DOMAIN legs |-> legs[i].type] = types
      /\ [i \in DOMAIN legs |-> legs[i].notional] = n
      /\ [i \in DOMAIN legs |-> legs[i].rate] = r
      /\ [i \in DOMAIN legs |-> legs[i].currencies[1]] = c
  BY DEF PlainLeg
<1>6. FpmlPayload(view) = [Offer(view, d.days, n, r, c) EXCEPT !.types = types]
  <2> HIDE DEF view, legs, types, n, r, c
  <2> QED
    BY <1>4, <1>5 DEF FpmlPayload
<1>7. FpmlPayload(view) = q
  <2>1. Offer(view, d.days, n, r, c) = Offer(d, d.days, n, r, c)
    <3> HIDE DEF view, n, r, c
    <3> QED
      BY <1>4, SameOffer
  <2> HIDE DEF view
  <2> QED
    BY <1>6, <2>1 DEF FpmlPayload
<1>8. Payload(view) = FpmlPayload(view)
  BY <1>4 DEF Payload
<1> QED
  BY <1>1, <1>3, <1>7, <1>8

\* What stands behind a proposal that was made.
LEMMA MadeOfDraft ==
  ASSUME TypeOK, NEW p \in Slots, status[p] # "none"
  PROVE  /\ draft[p] \in Drafts
         /\ Enterable(draft[p])
         /\ draft[p].family \in SwapFamilies \union {"CSA"}
         /\ Terms(p).family = draft[p].family
<1>1. draft[p] \in Drafts
  BY DEF TypeOK
<1>2. Enterable(draft[p]) /\ draft[p].family \in SwapFamilies \union {"CSA"}
  BY <1>1, ProposalsAssumption
<1> QED
  BY <1>1, <1>2, PayloadFamily DEF Terms

\* The currencies of the legs a trader may enter.
LEMMA EnterableCurrencies ==
  ASSUME NEW d, Enterable(d), d.family \in {"BASIS", "XCCY", "CCY"}
  PROVE  /\ d.legs[1].currencies \in [1..1 -> STRING]
         /\ d.legs[2].currencies \in [1..1 -> STRING]
<1> DEFINE default == DefaultLegs(d.family)
<1>1. /\ DOMAIN default = 1..2
      /\ DOMAIN default[1].currencies = 1..1
      /\ DOMAIN default[2].currencies = 1..1
  BY DEF DefaultLegs, PlainLeg
<1>2. \A i \in DOMAIN default : d.legs[i].currencies \in [DOMAIN default[i].currencies -> STRING]
  BY DEF Enterable
<1>3. 1 \in DOMAIN default /\ 2 \in DOMAIN default
  BY <1>1
<1> HIDE DEF default
<1>4. /\ d.legs[1].currencies \in [DOMAIN default[1].currencies -> STRING]
      /\ d.legs[2].currencies \in [DOMAIN default[2].currencies -> STRING]
  BY <1>2, <1>3
<1> QED
  BY <1>1, <1>4

\* To propose again what the page of a proposal shows is to propose the same, for
\* whatever legs the screens let a trader enter.
THEOREM ShownAsProposed == Spec => []PreviewRebuilds
<1>1. TypeOK => PreviewRebuilds
  <2> SUFFICES ASSUME TypeOK, NEW p \in Slots, status[p] = "open",
                      Terms(p).family \in SwapFamilies \ {"XCCY"}
               PROVE  Payload(Preview(Payload(draft[p]))) = Payload(draft[p])
    BY DEF PreviewRebuilds, Terms
  <2> DEFINE d == draft[p]
  <2>1. Enterable(d) /\ d.family \in SwapFamilies \ {"XCCY"}
    BY MadeOfDraft
  <2> HIDE DEF d
  <2>2. CASE d.family \in {"IRS", "OIS"}
    BY <2>2, FixedFloatRebuilds DEF d
  <2>3. CASE d.family = "BASIS"
    BY <2>1, <2>3, EnterableCurrencies, BasisRebuilds DEF d
  <2>4. CASE d.family = "CDS"
    BY <2>4, CdsRebuilds DEF d
  <2>5. CASE d.family = "CCY"
    BY <2>1, <2>5, EnterableCurrencies, CcyRebuilds DEF d
  <2>6. CASE d.family = "FX"
    BY <2>6, FxRebuilds DEF d
  <2>7. CASE d.family = "ASSET"
    BY <2>7, AssetRebuilds DEF d
  <2>8. CASE d.family = "FpML"
    BY <2>8, FpmlRebuilds DEF d
  <2> QED
    BY <2>1, <2>2, <2>3, <2>4, <2>5, <2>6, <2>7, <2>8 DEF SwapFamilies
<1> QED
  BY <1>1, TypeCorrect, PTL

\* The types of the legs a trader may enter.
LEMMA EnterableTypes ==
  ASSUME NEW d, d.family \in SwapFamilies \ {"FpML"}, Enterable(d)
  PROVE  /\ DOMAIN d.legs = 1..2
         /\ d.family \in {"IRS", "OIS", "XCCY"} => d.legs[1].type = "fixed" /\ d.legs[2].type = "float"
         /\ d.family = "BASIS" => d.legs[1].type = "float" /\ d.legs[2].type = "float"
         /\ d.family = "CDS" => /\ d.legs[1].type = "fixed"
                                /\ d.legs[2].type = "protection"
                                /\ d.legs[2].rate = 0
         /\ d.family = "CCY" => d.legs[1].type = "fixed" /\ d.legs[2].type = "fixed"
         /\ d.family = "FX" => d.legs[1].type = "fx" /\ d.legs[2].type = "fx"
         /\ d.family = "ASSET" => /\ d.legs[1].type = "asset"
                                  /\ d.legs[1].rate = 0
                                  /\ d.legs[2].type = "float"
<1> DEFINE default == DefaultLegs(d.family)
<1>1. DOMAIN default = 1..2
  BY DEF DefaultLegs, SwapFamilies, FxLegs
<1>2. /\ DOMAIN d.legs = DOMAIN default
      /\ \A i \in DOMAIN default :
           /\ d.legs[i].type = default[i].type
           /\ d.legs[i].type \in {"asset", "protection"} => d.legs[i].rate = 0
  BY DEF Enterable, SwapFamilies
<1>3. CASE d.family \in {"IRS", "OIS", "XCCY"}
  <2>1. default[1].type = "fixed" /\ default[2].type = "float"
    <3>1. CASE d.family = "IRS"
      BY <3>1 DEF DefaultLegs, PlainLeg
    <3>2. CASE d.family = "OIS"
      BY <3>2 DEF DefaultLegs, PlainLeg
    <3>3. CASE d.family = "XCCY"
      BY <3>3 DEF DefaultLegs, PlainLeg
    <3> QED
      BY <1>3, <3>1, <3>2, <3>3
  <2> HIDE DEF default
  <2> QED
    BY <1>1, <1>2, <1>3, <2>1
<1>4. CASE d.family = "BASIS"
  <2>1. default[1].type = "float" /\ default[2].type = "float"
    BY <1>4 DEF DefaultLegs, PlainLeg
  <2> HIDE DEF default
  <2> QED
    BY <1>1, <1>2, <1>4, <2>1
<1>5. CASE d.family = "CDS"
  <2>1. default[1].type = "fixed" /\ default[2].type = "protection"
    BY <1>5 DEF DefaultLegs, PlainLeg, BareLeg
  <2> HIDE DEF default
  <2> QED
    BY <1>1, <1>2, <1>5, <2>1
<1>6. CASE d.family = "CCY"
  <2>1. default[1].type = "fixed" /\ default[2].type = "fixed"
    BY <1>6 DEF DefaultLegs, PlainLeg
  <2> HIDE DEF default
  <2> QED
    BY <1>1, <1>2, <1>6, <2>1
<1>7. CASE d.family = "FX"
  <2>1. default[1].type = "fx" /\ default[2].type = "fx"
    BY <1>7 DEF DefaultLegs, FxLegs
  <2> HIDE DEF default
  <2> QED
    BY <1>1, <1>2, <1>7, <2>1
<1>8. CASE d.family = "ASSET"
  <2>1. default[1].type = "asset" /\ default[2].type = "float"
    BY <1>8 DEF DefaultLegs, PlainLeg, BareLeg
  <2> HIDE DEF default
  <2> QED
    BY <1>1, <1>2, <1>8, <2>1
<1> QED
  BY <1>3, <1>4, <1>5, <1>6, <1>7, <1>8 DEF SwapFamilies

\* What a swap's page takes from an offer, and what it shows besides the legs.
LEMMA LiveOffer ==
  ASSUME NEW d, NEW days, NEW notionals, NEW rates, NEW currencies, NEW legs
  PROVE  LET q == Offer(d, days, notionals, rates, currencies)
             view == Shows(q, q.family, q.days, legs)
         IN view.days = days /\ view.legs = legs
BY DEF Offer, Shows

LEMMA FixedFloatAsEntered ==
  ASSUME NEW d, d.family \in {"IRS", "OIS"}, Enterable(d)
  PROVE  LiveAsEntered(d)
<1> DEFINE n == d.legs[1].notional
           r == d.legs[1].rate
           t == IF d.family = "IRS" THEN Tenor(d.days) ELSE d.days
           q == Offer(d, t, <<n>>, <<r>>, <<>>)
           legs == <<PlainLeg("fixed", DefaultCurrency, n, r),
                     PlainLeg("float", DefaultCurrency, n, 0)>>
           live == Shows(q, q.family, q.days, legs)
<1>1. DOMAIN d.legs = 1..2 /\ d.legs[1].type = "fixed" /\ d.legs[2].type = "float"
  BY EnterableTypes DEF SwapFamilies
<1>2. Find(d, {"fixed"}) = d.legs[1]
  BY <1>1, FindFirst
<1>3. Payload(d) = q
  BY <1>2 DEF Payload, IrsPayload, OisPayload
<1>4. q.family = d.family /\ q.notionals = <<n>> /\ q.rates = <<r>>
  <2> HIDE DEF t, n, r, legs, live
  <2> QED
    BY DEF Offer
<1>5. Live(q) = live
  <2>1. Live(q) = FixedFloatLive(q)
    BY <1>4 DEF Live
  <2> HIDE DEF q
  <2> QED
    BY <1>4, <2>1 DEF FixedFloatLive
<1>6. live.days = t /\ live.legs = legs
  <2> HIDE DEF t, legs
  <2> QED
    BY LiveOffer
<1>7. /\ DOMAIN legs = 1..2
      /\ legs[1].type = "fixed" /\ legs[1].notional = n /\ legs[1].rate = r
      /\ legs[2].type = "float" /\ legs[2].notional = n
  BY DEF PlainLeg
<1>8. Live(Payload(d)) = live
  BY <1>3, <1>5
<1>9. d.family = "IRS" \/ live.days = d.days
  BY <1>6
<1> HIDE DEF legs, live, t, q
<1> QED
  BY <1>1, <1>6, <1>7, <1>8, <1>9 DEF LiveAsEntered, NotionalLeg

LEMMA CdsAsEntered ==
  ASSUME NEW d, d.family = "CDS", Enterable(d)
  PROVE  LiveAsEntered(d)
<1> DEFINE n == d.legs[2].notional
           r == d.legs[1].rate
           q == Offer(d, d.days, <<n>>, <<r>>, <<>>)
           legs == <<PlainLeg("fixed", DefaultCurrency, n, r), BareLeg("protection", n)>>
           live == Shows(q, q.family, q.days, legs)
<1>1. /\ DOMAIN d.legs = 1..2
      /\ d.legs[1].type = "fixed" /\ d.legs[2].type = "protection" /\ d.legs[2].rate = 0
  BY EnterableTypes DEF SwapFamilies
<1>2. Find(d, {"fixed"}) = d.legs[1] /\ Find(d, {"protection"}) = d.legs[2]
  BY <1>1, FindFirst, FindSecond
<1>3. Payload(d) = q
  BY <1>2 DEF Payload, CdsPayload
<1>4. q.family = d.family /\ q.notionals = <<n>> /\ q.rates = <<r>>
  BY ShowsOffer
<1>5. Live(q) = live
  <2>1. Live(q) = CdsLive(q)
    BY <1>4 DEF Live
  <2> HIDE DEF q
  <2> QED
    BY <1>4, <2>1 DEF CdsLive
<1>6. live.days = d.days /\ live.legs = legs
  <2> HIDE DEF legs
  <2> QED
    BY LiveOffer
<1>7. /\ DOMAIN legs = 1..2
      /\ legs[1].type = "fixed" /\ legs[1].notional = n /\ legs[1].rate = r
      /\ legs[2].type = "protection" /\ legs[2].notional = n /\ legs[2].rate = 0
  BY DEF PlainLeg, BareLeg
<1>8. Live(Payload(d)) = live
  BY <1>3, <1>5
<1> HIDE DEF legs, live, q
<1> QED
  BY <1>1, <1>6, <1>7, <1>8 DEF LiveAsEntered, NotionalLeg

LEMMA AssetAsEntered ==
  ASSUME NEW d, d.family = "ASSET", Enterable(d)
  PROVE  LiveAsEntered(d)
<1> DEFINE n == d.legs[1].notional
           q == Offer(d, d.days, <<n>>, <<0>>, <<>>)
           legs == <<BareLeg("asset", n), PlainLeg("float", DefaultCurrency, n, 0)>>
           live == Shows(q, q.family, q.days, legs)
<1>1. /\ DOMAIN d.legs = 1..2
      /\ d.legs[1].type = "asset" /\ d.legs[1].rate = 0 /\ d.legs[2].type = "float"
  BY EnterableTypes DEF SwapFamilies
<1>2. Find(d, {"asset"}) = d.legs[1] /\ Find(d, {"fixed", "float"}) = d.legs[2]
  BY <1>1, FindFirst, FindSecond
<1>3. Payload(d) = q
  BY <1>1, <1>2 DEF Payload, AssetPayload
<1>4. q.family = d.family /\ q.notionals = <<n>>
  BY ShowsOffer
<1>5. Live(q) = live
  <2>1. Live(q) = AssetLive(q)
    BY <1>4 DEF Live
  <2> HIDE DEF q
  <2> QED
    BY <1>4, <2>1 DEF AssetLive
<1>6. live.days = d.days /\ live.legs = legs
  <2> HIDE DEF legs
  <2> QED
    BY LiveOffer
<1>7. /\ DOMAIN legs = 1..2
      /\ legs[1].type = "asset" /\ legs[1].notional = n /\ legs[1].rate = 0
      /\ legs[2].type = "float" /\ legs[2].notional = n
  BY DEF PlainLeg, BareLeg
<1>8. Live(Payload(d)) = live
  BY <1>3, <1>5
<1> HIDE DEF legs, live, q
<1> QED
  BY <1>1, <1>6, <1>7, <1>8 DEF LiveAsEntered, NotionalLeg

LEMMA BasisAsEntered ==
  ASSUME NEW d, d.family = "BASIS", Enterable(d)
  PROVE  LiveAsEntered(d)
<1> DEFINE n == d.legs[1].notional
           r == d.legs[1].rate
           u == d.legs[2].rate
           c == d.legs[1].currencies[1]
           q == Offer(d, d.days, <<n>>, <<r, u>>, <<c>>)
           legs == <<PlainLeg("float", c, n, r), PlainLeg("float", c, n, u)>>
           live == Shows(q, q.family, q.days, legs)
<1>1. DOMAIN d.legs = 1..2 /\ d.legs[1].type = "float" /\ d.legs[2].type = "float"
  BY EnterableTypes DEF SwapFamilies
<1>2. d.legs[1].currencies = <<c>>
  BY EnterableCurrencies, OneCode
<1>3. Payload(d) = q
  BY <1>2 DEF Payload, BasisPayload
<1>4. /\ q.family = d.family /\ q.notionals = <<n>> /\ q.rates = <<r, u>>
      /\ q.currencies = <<c>>
  BY ShowsOffer
<1>5. Live(q) = live
  <2>1. Live(q) = FpmlLive(q) /\ Streams(q) = BasisLegs(q)
    BY <1>4 DEF Live, Streams
  <2> HIDE DEF q
  <2> QED
    BY <1>4, <2>1 DEF FpmlLive, BasisLegs
<1>6. live.days = d.days /\ live.legs = legs
  <2> HIDE DEF legs
  <2> QED
    BY LiveOffer
<1>7. /\ DOMAIN legs = 1..2
      /\ legs[1].type = "float" /\ legs[1].currencies = <<c>>
      /\ legs[1].notional = n /\ legs[1].rate = r
      /\ legs[2].type = "float" /\ legs[2].notional = n /\ legs[2].rate = u
  BY DEF PlainLeg
<1>8. Live(Payload(d)) = live
  BY <1>3, <1>5
<1> HIDE DEF legs, live, q
<1> QED
  BY <1>1, <1>2, <1>6, <1>7, <1>8 DEF LiveAsEntered, NotionalLeg

LEMMA FxAsEntered ==
  ASSUME NEW d, d.family = "FX", Enterable(d)
  PROVE  LiveAsEntered(d)
<1> DEFINE n == d.legs[1].notional
           r == d.legs[1].rate
           u == d.legs[2].rate
           pair == d.legs[1].currencies
           q == Offer(d, d.days, <<n>>, <<r, u>>, pair)
           legs == FxLegs(pair, n, r, u)
           live == Shows(q, q.family, q.days, legs)
<1>1. DOMAIN d.legs = 1..2 /\ d.legs[1].type = "fx" /\ d.legs[2].type = "fx"
  BY EnterableTypes DEF SwapFamilies
<1>2. Payload(d) = q
  BY DEF Payload, FxPayload
<1>3. /\ q.family = d.family /\ q.notionals = <<n>> /\ q.rates = <<r, u>>
      /\ q.currencies = pair
  BY ShowsOffer
<1>4. Live(q) = live
  <2>1. Live(q) = FxPreview(q)
    BY <1>3 DEF Live, FxLive
  <2> HIDE DEF q
  <2> QED
    BY <1>3, <2>1 DEF FxPreview
<1>5. live.days = d.days /\ live.legs = legs
  <2> HIDE DEF legs
  <2> QED
    BY LiveOffer
<1>6. /\ DOMAIN legs = 1..2
      /\ legs[1].type = "fx" /\ legs[1].currencies = pair
      /\ legs[1].notional = n /\ legs[1].rate = r
      /\ legs[2].type = "fx" /\ legs[2].notional = n /\ legs[2].rate = u
  BY DEF FxLegs
<1>7. Live(Payload(d)) = live
  BY <1>2, <1>4
<1> HIDE DEF legs, live, q
<1> QED
  BY <1>1, <1>5, <1>6, <1>7 DEF LiveAsEntered, NotionalLeg

LEMMA CcyAsEntered ==
  ASSUME NEW d, d.family = "CCY", Enterable(d)
  PROVE  LiveAsEntered(d)
<1> DEFINE n == d.legs[1].notional
           r == d.legs[1].rate
           u == d.legs[2].rate
           b == d.legs[1].currencies[1]
           c == d.legs[2].currencies[1]
           q == Offer(d, d.days, <<n>>, <<r, u, 10800>>, <<b, c>>)
           m == (n * 10800) \div Whole
           legs == <<PlainLeg("fixed", b, n, r), PlainLeg("fixed", c, m, u)>>
           live == Shows(q, "CCY", q.days, legs)
<1>1. DOMAIN d.legs = 1..2 /\ d.legs[1].type = "fixed" /\ d.legs[2].type = "fixed"
  BY EnterableTypes DEF SwapFamilies
<1>2. /\ d.legs[1].currencies \in [1..1 -> STRING] /\ d.legs[2].currencies \in [1..1 -> STRING]
      /\ d.legs[1].currencies = <<b>> /\ d.legs[2].currencies = <<c>>
  BY EnterableCurrencies, OneCode
<1>3. Payload(d) = q
  <2>1. d.legs[1].currencies \o d.legs[2].currencies = <<b, c>>
    BY <1>2, TwoCodes
  <2>2. Payload(d) = CcyPayload(d)
    BY DEF Payload
  <2> HIDE DEF m, legs, live, n, r, u, b, c
  <2>3. CcyPayload(d) = Offer(d, d.days, <<n>>, <<r, u, 10800>>, <<b, c>>)
    BY <2>1 DEF CcyPayload, n, r, u
  <2> QED
    BY <2>2, <2>3
<1>4. /\ q.family = d.family /\ q.days = d.days
      /\ q.notionals = <<n>> /\ q.rates = <<r, u, 10800>> /\ q.currencies = <<b, c>>
  <2> HIDE DEF legs, live, m
  <2> QED
    BY ShowsOffer
<1>5. Live(q) = live
  <2> HIDE DEF legs, live, m, q
  <2>1. Live(q) = CcyPreview(q)
    BY <1>4 DEF Live, CcyLive
  <2> QED
    BY <1>4, <2>1 DEF CcyPreview, live, legs, m
<1>6. live.days = d.days /\ live.legs = legs
  <2> HIDE DEF legs, q
  <2> QED
    BY <1>4 DEF Shows
<1>7. /\ DOMAIN legs = 1..2
      /\ legs[1].type = "fixed" /\ legs[1].currencies = <<b>>
      /\ legs[1].notional = n /\ legs[1].rate = r
      /\ legs[2].type = "fixed" /\ legs[2].currencies = <<c>> /\ legs[2].rate = u
  <2> HIDE DEF m
  <2> QED
    BY DEF PlainLeg
<1>8. Live(Payload(d)) = live
  BY <1>3, <1>5
<1> HIDE DEF legs, live, q, m
<1> QED
  BY <1>1, <1>2, <1>6, <1>7, <1>8 DEF LiveAsEntered, NotionalLeg

LEMMA XccyAsEntered ==
  ASSUME NEW d, d.family = "XCCY", Enterable(d)
  PROVE  LiveAsEntered(d)
<1> DEFINE n == d.legs[1].notional
           m == d.legs[2].notional
           r == d.legs[1].rate
           b == d.legs[1].currencies[1]
           c == d.legs[2].currencies[1]
           q == Offer(d, d.days, <<n, m>>, <<r>>, <<b, c>>)
           legs == <<PlainLeg("fixed", b, n, r), PlainLeg("float", c, m, 0)>>
           live == Shows(q, q.family, q.days, legs)
<1>1. DOMAIN d.legs = 1..2 /\ d.legs[1].type = "fixed" /\ d.legs[2].type = "float"
  BY EnterableTypes DEF SwapFamilies
<1>2. /\ d.legs[1].currencies \in [1..1 -> STRING] /\ d.legs[2].currencies \in [1..1 -> STRING]
      /\ d.legs[1].currencies = <<b>> /\ d.legs[2].currencies = <<c>>
  BY EnterableCurrencies, OneCode
<1>3. Find(d, {"fixed"}) = d.legs[1] /\ Find(d, {"float"}) = d.legs[2]
  BY <1>1, FindFirst, FindSecond
<1>4. Payload(d) = q
  <2>1. d.legs[1].currencies \o d.legs[2].currencies = <<b, c>>
    BY <1>2, TwoCodes
  <2>2. Payload(d) = XccyPayload(d)
    BY DEF Payload
  <2> HIDE DEF legs, live, n, m, r, b, c
  <2>3. XccyPayload(d) = Offer(d, d.days, <<n, m>>, <<r>>, <<b, c>>)
    BY <1>3, <2>1 DEF XccyPayload, n, m, r
  <2> QED
    BY <2>2, <2>3
<1>5. /\ q.family = d.family
      /\ q.notionals = <<n, m>> /\ q.rates = <<r>> /\ q.currencies = <<b, c>>
  <2> HIDE DEF legs, live, n, m, r, b, c
  <2> QED
    BY ShowsOffer
<1>6. Live(q) = live
  <2>1. Live(q) = FpmlLive(q) /\ q.family = "XCCY"
    BY <1>5 DEF Live
  <2> HIDE DEF q
  <2>2. Streams(q) = legs
    BY <1>5, <2>1 DEF Streams
  <2> QED
    BY <2>1, <2>2 DEF FpmlLive
<1>7. live.days = d.days /\ live.legs = legs
  <2> HIDE DEF legs
  <2> QED
    BY LiveOffer
<1>8. /\ DOMAIN legs = 1..2
      /\ legs[1].type = "fixed" /\ legs[1].currencies = <<b>>
      /\ legs[1].notional = n /\ legs[1].rate = r
      /\ legs[2].type = "float" /\ legs[2].currencies = <<c>> /\ legs[2].notional = m
  BY DEF PlainLeg
<1>9. Live(Payload(d)) = live
  BY <1>4, <1>6
<1> HIDE DEF legs, live, q
<1> QED
  BY <1>1, <1>2, <1>7, <1>8, <1>9 DEF LiveAsEntered, NotionalLeg

LEMMA FpmlAsEntered ==
  ASSUME NEW d, d.family = "FpML", Enterable(d)
  PROVE  LiveAsEntered(d)
<1> DEFINE S == DOMAIN d.legs
           types == [i \in S |-> d.legs[i].type]
           n == [i \in S |-> d.legs[i].notional]
           r == [i \in S |-> d.legs[i].rate]
           c == [i \in S |-> d.legs[i].currencies[1]]
           q == FpmlPayload(d)
           legs == [i \in S |-> PlainLeg(types[i], c[i], n[i], r[i])]
<1>1. \A i \in S : d.legs[i].currencies = <<c[i]>>
  BY OneCode DEF Enterable
<1>2. Payload(d) = q
  BY DEF Payload
<1>3. /\ q.family = d.family /\ q.days = d.days
      /\ q.types = types /\ q.notionals = n /\ q.rates = r /\ q.currencies = c
  BY DEF FpmlPayload, Offer
<1>4. Live(q).days = d.days /\ Live(q).legs = legs
  <2>1. Live(q) = FpmlLive(q) /\ Streams(q) = FpmlLegs(q)
    BY <1>3 DEF Live, Streams
  <2> HIDE DEF q
  <2>2. FpmlLegs(q) = legs
    BY <1>3 DEF FpmlLegs
  <2> HIDE DEF legs
  <2> QED
    BY <1>3, <2>1, <2>2 DEF FpmlLive, Shows
<1>5. /\ DOMAIN legs = S
      /\ \A i \in S : /\ legs[i].type = d.legs[i].type
                      /\ legs[i].currencies = d.legs[i].currencies
                      /\ legs[i].notional = d.legs[i].notional
                      /\ legs[i].rate = d.legs[i].rate
  BY <1>1 DEF PlainLeg
<1> HIDE DEF legs, q
<1> QED
  BY <1>2, <1>4, <1>5 DEF LiveAsEntered

\* A swap's page has the legs and the term that were entered, up to the losses
\* the property names, for whatever legs the screens let a trader enter.
THEOREM SwapsAsEntered == Spec => []AsEntered
<1>1. TypeOK => AsEntered
  <2> SUFFICES ASSUME TypeOK, NEW p \in Slots, status[p] \in Swap, draft[p].family \in SwapFamilies
               PROVE  LiveAsEntered(draft[p])
    BY DEF AsEntered
  <2> DEFINE d == draft[p]
  <2>1. Enterable(d) /\ d.family \in SwapFamilies
    BY MadeOfDraft DEF Swap
  <2> HIDE DEF d
  <2>2. LiveAsEntered(d)
    BY <2>1, FixedFloatAsEntered, BasisAsEntered, XccyAsEntered, CdsAsEntered, CcyAsEntered,
       FxAsEntered, AssetAsEntered, FpmlAsEntered DEF SwapFamilies
  <2> QED
    BY <2>2 DEF d
<1> QED
  BY <1>1, TypeCorrect, PTL

-----------------------------------------------------------------------------
(* What was let through can be accepted.                                   *)

\* What the workspace refuses to send is no proposal.
NoneRefused == \A p \in Slots : status[p] # "none" => ~Refused(Terms(p))

LEMMA NextNoneRefused ==
  ASSUME TypeOK, NoneRefused, [Next]_vars
  PROVE  NoneRefused'
<1> SUFFICES ASSUME NEW p \in Slots, status'[p] # "none"
             PROVE  ~Refused(Payload(draft'[p]))
  BY DEF NoneRefused, Terms
<1>1. CASE status[p] # "none"
  BY <1>1, DraftStays DEF NoneRefused, Terms
<1>2. CASE status[p] = "none"
  <2>1. PICK d \in Drafts : Propose(p, d)
    BY <1>2 DEF Next, vars, proposalVars, ackVars, policyVars, clientVars, Propose, PrepareAccept,
                AcceptElsewhere, Accept, AcceptFails, ProposeAccept, Reject, Withdraw, ConfirmAccept,
                CancelAck, SetMode, CanAccept, Become, TypeOK
  <2> QED
    BY <2>1 DEF Propose, TypeOK
<1> QED
  BY <1>1, <1>2

\* The indices the workspace sends suit the families whose choices take them as
\* they are, and the families they leave alone have what the factory needs.
LEMMA SomeArgumentsSuit ==
  ASSUME {"IRS", "OIS", "CDS", "CCY", "ASSET"} \subseteq Scheduled,
         IndicesOf("USD") # {},
         NEW q, q.family \in (SwapFamilies \union {"CSA"}) \ {"BASIS", "XCCY", "FpML"},
         ~Refused(q), Fits(q)
  PROVE  \E args \in IndexArguments(q.family) : Acceptable(q, args)
<1>1. CASE q.family \in {"IRS", "OIS", "ASSET"}
  <2>1. PICK i \in Indices : i \in IndicesOf("USD")
    BY DEF IndicesOf
  <2>2. <<i>> \in IndexArguments(q.family) /\ Range(<<i>>) \subseteq Indices
    BY <1>1, <2>1 DEF IndexArguments, Range
  <2> QED
    BY <1>1, <2>2 DEF Acceptable, IrsAcceptable, OisAcceptable, AssetAcceptable
<1>2. CASE q.family \in {"CDS", "CCY", "FX", "CSA"}
  <2>1. <<>> \in IndexArguments(q.family)
    BY <1>2 DEF IndexArguments
  <2>2. Acceptable(q, <<>>)
    BY <1>2 DEF Acceptable, CdsAcceptable, CcyAcceptable, FxAcceptable, Refused
  <2> QED
    BY <2>1, <2>2
<1> QED
  BY <1>1, <1>2 DEF SwapFamilies

\* With a schedule for each family that needs one, as the configuration's defaults
\* have it, and an index of USD, what the workspace lets through its counterparty
\* can accept there.
THEOREM WhatIsSentCanBeAccepted ==
  ASSUME {"IRS", "OIS", "CDS", "CCY", "ASSET"} \subseteq Scheduled,
         IndicesOf("USD") # {}
  PROVE  Spec => []ProposedIsAcceptable
<1>1. Init => NoneRefused
  BY DEF Init, NoneRefused
<1>2. TypeOK /\ NoneRefused /\ [Next]_vars => NoneRefused'
  BY NextNoneRefused
<1>3. TypeOK /\ NoneRefused => ProposedIsAcceptable
  <2> SUFFICES ASSUME TypeOK, NoneRefused, NEW p \in Slots, status[p] = "open",
                      Terms(p).family \notin {"BASIS", "XCCY", "FpML"}, Fits(Terms(p))
               PROVE  /\ RightTemplate(p)
                      /\ \E args \in IndexArguments(Terms(p).family) :
                           CanAccept(p, args) \/ Registered(p)
    BY DEF ProposedIsAcceptable
  <2>1. Terms(p).family \in (SwapFamilies \union {"CSA"}) \ {"BASIS", "XCCY", "FpML"}
    BY MadeOfDraft
  <2>2. ~Refused(Terms(p))
    BY DEF NoneRefused
  <2>3. RightTemplate(p)
    BY <2>1, PreviewFamily DEF RightTemplate, ShownFamily
  <2>4. PICK args \in IndexArguments(Terms(p).family) : Acceptable(Terms(p), args)
    BY <2>1, <2>2, SomeArgumentsSuit
  <2>5. CanAccept(p, args) \/ Registered(p)
    BY <2>4 DEF CanAccept
  <2> QED
    BY <2>3, <2>5
<1> QED
  BY <1>1, <1>2, <1>3, TypeCorrect, PTL DEF Spec

=============================================================================
