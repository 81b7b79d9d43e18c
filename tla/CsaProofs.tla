----------------------------- MODULE CsaProofs -----------------------------
(***************************************************************************)
(* What the Csa contract guarantees for every threshold, minimum transfer  *)
(* amount, rounding increment, set of exposures and length of history; and *)
(* what holds between it and those who use it: of the browsers what their  *)
(* clicks keep, for any users, attempts, clicks and choices of others, of  *)
(* the mark publishers, for all marks, parties' moves and faults, that a   *)
(* tick's picture of the agreement is right whenever its next exercise can *)
(* succeed.                                                                *)
(***************************************************************************)
EXTENDS CsaClients, MarkPublisher, MarginCalls, TLAPS

-----------------------------------------------------------------------------
(* The margin arithmetic.                                                  *)

\* Rounding half up: twice the distance to the multiple it picks is at most
\* the increment, and the quotient of a natural number is one.
LEMMA HalfUpNearest ==
  ASSUME NEW n \in Int, NEW d \in Nat \ {0}
  PROVE  LET q == (2 * n + d) \div (2 * d) IN
         /\ q \in Int
         /\ q * d \in Int
         /\ 2 * (q * d) <= 2 * n + d
         /\ 2 * n < 2 * (q * d) + d
         /\ n >= 0 => q \in Nat
<1> DEFINE q == (2 * n + d) \div (2 * d)
<1>1. /\ 2 * n + d \in Int
      /\ 2 * d \in Nat \ {0}
  OBVIOUS
<1>2. \A m \in Int, k \in Nat \ {0} :
        m \div k \in Int /\ k * (m \div k) <= m /\ m < k * (m \div k) + k
  BY Z3
<1>3. q \in Int /\ (2 * d) * q <= 2 * n + d /\ 2 * n + d < (2 * d) * q + 2 * d
  BY <1>1, <1>2
<1>4. (2 * d) * q = 2 * (q * d)
  BY <1>3, Z3
<1>5. q * d \in Int
  BY <1>3, Z3
<1>6. n >= 0 => q \in Nat
  BY <1>3, <1>4, <1>5, Z3
<1> QED
  BY <1>3, <1>4, <1>5, <1>6

\* roundCommercial rounds to the nearest, keeps the sign, and treats the two
\* signs alike.
LEMMA RoundCommercialNearest ==
  ASSUME NEW n \in Int, NEW d \in Nat \ {0}
  PROVE  /\ RoundCommercial(n, d) \in Int
         /\ RoundCommercial(n, d) * d \in Int
         /\ 2 * (RoundCommercial(n, d) * d - n) \in -d..d
         /\ n >= 0 => RoundCommercial(n, d) * d >= 0
         /\ n <= 0 => RoundCommercial(n, d) * d <= 0
<1>1. CASE n >= 0
  <2>1. n \in Nat /\ RoundCommercial(n, d) = (2 * n + d) \div (2 * d)
    BY <1>1 DEF RoundCommercial
  <2>2. /\ RoundCommercial(n, d) \in Nat
        /\ 2 * (RoundCommercial(n, d) * d) <= 2 * n + d
        /\ 2 * n < 2 * (RoundCommercial(n, d) * d) + d
    BY <2>1, HalfUpNearest
  <2>3. RoundCommercial(n, d) * d \in Nat
    BY <2>2, Z3
  <2>4. n = 0 => RoundCommercial(n, d) * d = 0
    <3> SUFFICES ASSUME n = 0 PROVE RoundCommercial(n, d) * d = 0
      OBVIOUS
    <3>1. 2 * (RoundCommercial(n, d) * d) <= d
      BY <2>2
    <3>2. RoundCommercial(n, d) = 0 \/ RoundCommercial(n, d) * d >= d
      BY <2>2, Z3
    <3> QED
      BY <2>2, <2>3, <3>1, <3>2, Z3
  <2> QED
    BY <1>1, <2>2, <2>3, <2>4
<1>2. CASE n < 0
  <2> DEFINE q == (2 * (-n) + d) \div (2 * d)
  <2>1. -n \in Int /\ -n >= 0 /\ RoundCommercial(n, d) = -q
    BY <1>2 DEF RoundCommercial
  <2>2. q \in Nat /\ 2 * (q * d) <= 2 * (-n) + d /\ 2 * (-n) < 2 * (q * d) + d
    BY <2>1, HalfUpNearest
  <2>3. q * d \in Nat /\ (-q) * d = -(q * d)
    BY <2>2, Z3
  <2> QED
    BY <1>2, <2>1, <2>2, <2>3
<1> QED
  BY <1>1, <1>2

\* A call is zero or closes the gap but for half an increment, and it never
\* asks the side that has posted too much.
LEMMA GateCallResidual ==
  ASSUME NEW raw \in Int, NEW mta \in Nat, NEW rounding \in Nat
  PROVE  LET g == GateCall(raw, mta, rounding) IN
         /\ g \in Int
         /\ g # 0 => 2 * (raw - g) \in -rounding..rounding
         /\ raw >= 0 => g >= 0
         /\ raw <= 0 => g <= 0
<1> DEFINE g == GateCall(raw, mta, rounding)
<1>1. CASE Abs(raw) < mta
  BY <1>1 DEF GateCall
<1>2. CASE ~(Abs(raw) < mta) /\ rounding = 0
  <2>1. g = raw
    BY <1>2 DEF GateCall
  <2> QED
    BY <1>2, <2>1
<1>3. CASE ~(Abs(raw) < mta) /\ rounding # 0
  <2>1. g = RoundCommercial(raw, rounding) * rounding
    BY <1>3 DEF GateCall
  <2>2. rounding \in Nat \ {0}
    BY <1>3
  <2>3. /\ g \in Int
        /\ 2 * (g - raw) \in -rounding..rounding
        /\ raw >= 0 => g >= 0
        /\ raw <= 0 => g <= 0
    BY <2>1, <2>2, RoundCommercialNearest
  <2> QED
    BY <2>3
<1> QED
  BY <1>1, <1>2, <1>3

\* Paying a call in full leaves no call, if half an increment is less than the
\* minimum transfer amount.
THEOREM PaidCallLeavesNone ==
  ASSUME NEW raw \in Int, NEW mta \in Nat, NEW rounding \in Nat,
         2 * mta > rounding
  PROVE  LET g == GateCall(raw, mta, rounding) IN
         g # 0 => GateCall(raw - g, mta, rounding) = 0
<1> DEFINE g == GateCall(raw, mta, rounding)
<1>1. CASE g # 0
  <2>1. g \in Int /\ 2 * (raw - g) \in -rounding..rounding
    BY <1>1, GateCallResidual
  <2>2. Abs(raw - g) < mta
    BY <2>1 DEF Abs
  <2> QED
    BY <2>1, <2>2 DEF GateCall
<1> QED
  BY <1>1

LEMMA TargetCsbType ==
  ASSUME NEW e \in Int, NEW thr \in [Parties -> Nat]
  PROVE  TargetCsb(e, thr) \in Int
  BY DEF TargetCsb, ComputeRequired, AtLeastZero, Parties

\* Two multiples are one, or an increment apart.
LEMMA MultiplesApart ==
  ASSUME NEW k \in Int, NEW l \in Int, NEW d \in Nat \ {0}
  PROVE  /\ k * d \in Int /\ l * d \in Int
         /\ k * d = l * d \/ k * d >= l * d + d \/ l * d >= k * d + d
<1>1. k * d \in Int /\ l * d \in Int
  BY Z3
<1>2. k = l \/ k >= l + 1 \/ l >= k + 1
  OBVIOUS
<1>3. k >= l + 1 => k * d >= l * d + d
  BY Z3
<1>4. l >= k + 1 => l * d >= k * d + d
  BY Z3
<1> QED
  BY <1>1, <1>2, <1>3, <1>4

\* A multiple has a factor no larger than itself.
LEMMA FactorBounded ==
  ASSUME NEW k \in Int, NEW d \in Nat \ {0}
  PROVE  IsMultiple(k * d, d)
<1>1. k * d \in Int
  BY Z3
<1>2. k >= 0 => k * d >= k
  BY Z3
<1>3. k <= 0 => k * d <= k
  BY Z3
<1>4. k \in (-Abs(k * d))..Abs(k * d)
  BY <1>1, <1>2, <1>3 DEF Abs
<1> QED
  BY <1>4 DEF IsMultiple

LEMMA MultipleHasFactor ==
  ASSUME NEW n \in Int, NEW d \in Nat \ {0}, IsMultiple(n, d)
  PROVE  \E k \in Int : n = k * d
BY DEF IsMultiple, Abs

\* The two ways to round a gap, and where a tie goes.
LEMMA RoundedEitherWay ==
  ASSUME NEW raw \in Int, NEW d \in Nat \ {0}
  PROVE  LET g == RoundCommercial(raw, d) * d
             t == MathRound(raw, d) * d
         IN /\ RoundCommercial(raw, d) \in Int /\ MathRound(raw, d) \in Int
            /\ g \in Int /\ t \in Int
            /\ 2 * (t - raw) <= d /\ -d < 2 * (t - raw)
            /\ raw >= 0 => g = t
            /\ raw < 0 => 2 * (g - raw) < d /\ -d <= 2 * (g - raw)
<1> DEFINE t == MathRound(raw, d) * d
           g == RoundCommercial(raw, d) * d
           q == (2 * (-raw) + d) \div (2 * d)
<1>1. MathRound(raw, d) \in Int /\ t \in Int /\ 2 * (t - raw) <= d /\ -d < 2 * (t - raw)
  BY HalfUpNearest DEF MathRound
<1>2. CASE raw >= 0
  <2>1. RoundCommercial(raw, d) = MathRound(raw, d)
    BY <1>2 DEF RoundCommercial, MathRound
  <2> QED
    BY <1>1, <1>2, <2>1
<1>3. CASE raw < 0
  <2>1. RoundCommercial(raw, d) = -q
    BY <1>3 DEF RoundCommercial
  <2>2. -raw \in Int
    OBVIOUS
  <2>3. q \in Int /\ q * d \in Int /\ 2 * (q * d) <= 2 * (-raw) + d /\ 2 * (-raw) < 2 * (q * d) + d
    BY <2>2, HalfUpNearest
  <2>4. (-q) * d = -(q * d)
    BY <2>3, Z3
  <2>5. g = -(q * d)
    BY <2>1, <2>4
  <2>6. RoundCommercial(raw, d) \in Int /\ g \in Int
    BY <2>1, <2>3, <2>5
  <2>7. 2 * (g - raw) < d /\ -d <= 2 * (g - raw)
    BY <2>3, <2>5
  <2> QED
    BY <1>1, <1>3, <2>6, <2>7
<1> QED
  BY <1>2, <1>3

-----------------------------------------------------------------------------
(* What a call is.                                                         *)

LEMMA InputsTyped ==
  ASSUME MarginTypeOK
  PROVE  /\ exposure \in Int
         /\ agreed.balance \in Int
         /\ agreed.thr \in [Parties -> Nat]
         /\ agreed.mta \in Nat
         /\ agreed.rounding \in Nat
BY MarginInputs DEF MarginTypeOK

LEMMA TargetLeastTolerated ==
  ASSUME MarginTypeOK
  PROVE  LET target == TargetCsb(exposure, agreed.thr) IN
         /\ target \in Int
         /\ Tolerated(target)
         /\ \A pledge \in (1 - Abs(target))..(Abs(target) - 1) : ~Tolerated(pledge)
<1> DEFINE a == agreed.thr[PartyA]
           b == agreed.thr[PartyB]
           target == TargetCsb(exposure, agreed.thr)
<1>1. a \in Nat /\ b \in Nat /\ exposure \in Int
  BY InputsTyped DEF Parties
<1>2. target = (IF exposure - b < 0 THEN 0 ELSE exposure - b)
               - (IF -exposure - a < 0 THEN 0 ELSE -exposure - a)
  BY DEF TargetCsb, ComputeRequired, AtLeastZero
<1>3. CASE exposure > b
  BY <1>1, <1>2, <1>3 DEF Tolerated, Abs
<1>4. CASE exposure < -a
  BY <1>1, <1>2, <1>4 DEF Tolerated, Abs
<1>5. CASE exposure \in -a..b
  BY <1>1, <1>2, <1>5 DEF Tolerated, Abs
<1> QED
  BY <1>1, <1>3, <1>4, <1>5

LEMMA RawTyped == MarginTypeOK => Raw \in Int
BY InputsTyped, TargetLeastTolerated DEF Raw

LEMMA CallNearest == MarginTypeOK => NearestMultiple
<1> SUFFICES ASSUME MarginTypeOK PROVE NearestMultiple
  OBVIOUS
<1> DEFINE d == agreed.rounding
<1>1. Raw \in Int /\ agreed.mta \in Nat /\ d \in Nat
  BY RawTyped, InputsTyped
<1>2. CASE Abs(Raw) < agreed.mta \/ d = 0
  BY <1>2 DEF NearestMultiple, Gated, GateCall
<1>3. CASE ~(Abs(Raw) < agreed.mta) /\ d # 0
  <2> DEFINE q == RoundCommercial(Raw, d)
  <2>1. Gated = q * d
    BY <1>3 DEF Gated, GateCall
  <2>2. d \in Nat \ {0}
    BY <1>1, <1>3
  <2>3. /\ q \in Int /\ Gated \in Int
        /\ Raw >= 0 => 2 * (Gated - Raw) <= d /\ -d < 2 * (Gated - Raw)
        /\ Raw < 0 => 2 * (Gated - Raw) < d /\ -d <= 2 * (Gated - Raw)
    BY <1>1, <2>1, <2>2, RoundedEitherWay
  <2>4. IsMultiple(Gated, d)
    BY <2>1, <2>2, <2>3, FactorBounded
  <2>5. ASSUME NEW n \in (Raw - Abs(Gated - Raw))..(Raw + Abs(Gated - Raw)), IsMultiple(n, d)
        PROVE  Abs(n - Raw) = Abs(Gated - Raw) /\ Abs(n) <= Abs(Gated)
    <3>1. Abs(Gated - Raw) \in Int /\ n \in Int
      BY <1>1, <2>3 DEF Abs
    <3>2. PICK k \in Int : n = k * d
      BY <2>2, <2>5, <3>1, MultipleHasFactor
    <3>3. n = Gated \/ n >= Gated + d \/ Gated >= n + d
      BY <2>1, <2>2, <2>3, <3>2, MultiplesApart
    <3> QED
      BY <1>1, <2>2, <2>3, <2>5, <3>1, <3>3 DEF Abs
  <2> QED
    BY <1>3, <2>4, <2>5 DEF NearestMultiple
<1> QED
  BY <1>2, <1>3

LEMMA CopiesPartOnTies == MarginTypeOK => TsMirrorsDamlOffTies
<1> SUFFICES ASSUME MarginTypeOK PROVE TsMirrorsDamlOffTies
  OBVIOUS
<1> DEFINE d == agreed.rounding
           ts == TsGateCall(Raw, agreed.mta, d)
<1>1. Raw \in Int /\ agreed.mta \in Nat /\ d \in Nat
  BY RawTyped, InputsTyped
<1>2. CASE Abs(Raw) < agreed.mta \/ d = 0
  <2>1. ~HalfwayOwedByB
    BY <1>1, <1>2 DEF HalfwayOwedByB, Abs
  <2> QED
    BY <1>2, <2>1 DEF TsMirrorsDamlOffTies, TsMirrorsDaml, Gated, GateCall, TsGateCall
<1>3. CASE ~(Abs(Raw) < agreed.mta) /\ d # 0
  <2>1. Gated = RoundCommercial(Raw, d) * d /\ ts = MathRound(Raw, d) * d
    BY <1>3 DEF Gated, GateCall, TsGateCall
  <2>2. d \in Nat \ {0}
    BY <1>1, <1>3
  <2>3. /\ RoundCommercial(Raw, d) \in Int /\ MathRound(Raw, d) \in Int
        /\ Gated \in Int /\ ts \in Int
        /\ 2 * (ts - Raw) <= d /\ -d < 2 * (ts - Raw)
        /\ Raw >= 0 => Gated = ts
        /\ Raw < 0 => 2 * (Gated - Raw) < d /\ -d <= 2 * (Gated - Raw)
    BY <1>1, <2>1, <2>2, RoundedEitherWay
  <2>4. ts = Gated \/ ts >= Gated + d \/ Gated >= ts + d
    BY <2>1, <2>2, <2>3, MultiplesApart
  <2>5. CASE HalfwayOwedByB
    <3>1. PICK n \in (Raw - d)..Raw : 2 * (Raw - n) = d /\ IsMultiple(n, d)
      BY <2>5 DEF HalfwayOwedByB
    <3>2. n \in Int
      BY <1>1, <3>1
    <3>3. PICK k \in Int : n = k * d
      BY <2>2, <3>1, <3>2, MultipleHasFactor
    <3>4. n = Gated \/ n >= Gated + d \/ Gated >= n + d
      BY <2>1, <2>2, <2>3, <3>3, MultiplesApart
    <3>5. n = ts \/ n >= ts + d \/ ts >= n + d
      BY <2>1, <2>2, <2>3, <3>3, MultiplesApart
    <3>6. Raw < 0
      BY <2>5 DEF HalfwayOwedByB
    <3>7. ts = Gated + d
      BY <1>1, <2>2, <2>3, <2>4, <3>1, <3>2, <3>4, <3>5, <3>6
    <3> QED
      BY <2>5, <3>7 DEF TsMirrorsDamlOffTies
  <2>6. CASE ~HalfwayOwedByB
    <3>1. ASSUME ts # Gated PROVE FALSE
      <4>1. Raw < 0 /\ 2 * (Raw - Gated) = d
        BY <1>1, <2>2, <2>3, <2>4, <3>1
      <4>2. Gated \in (Raw - d)..Raw
        BY <1>1, <2>2, <2>3, <4>1
      <4>3. IsMultiple(Gated, d)
        BY <2>1, <2>2, <2>3, FactorBounded
      <4>4. Abs(Raw) >= agreed.mta
        BY <1>1, <1>3 DEF Abs
      <4> QED
        BY <1>3, <2>6, <4>1, <4>2, <4>3, <4>4 DEF HalfwayOwedByB
    <3> QED
      BY <2>6, <3>1 DEF TsMirrorsDamlOffTies, TsMirrorsDaml
  <2> QED
    BY <2>5, <2>6
<1> QED
  BY <1>2, <1>3

LEMMA MarginTypes == MarginSpec => []MarginTypeOK
<1>1. MarginInit => MarginTypeOK
  BY DEF MarginInit, MarginTypeOK
<1>2. MarginTypeOK /\ [Marks]_marginVars => MarginTypeOK'
  BY DEF MarginTypeOK, Marks, marginVars
<1> QED
  BY <1>1, <1>2, PTL DEF MarginSpec

\* The call is the multiple nearest to what is missing from the least pledge that
\* is tolerated, for whatever marks, terms and balances.
THEOREM CallsAreExact == MarginSpec => []CallIsExact
<1>1. MarginTypeOK => CallIsExact
  BY TargetLeastTolerated, CallNearest DEF CallIsExact
<1> QED
  BY <1>1, MarginTypes, PTL

\* The publisher's copy of the call is the ledger's but on a gap halfway between two
\* multiples that B owes.
THEOREM CopiesAgreeOffTies == MarginSpec => []TsMirrorsDamlOffTies
BY CopiesPartOnTies, MarginTypes, PTL

-----------------------------------------------------------------------------
(* The inductive invariant.                                                *)

\* The last mark is the newest, and there is one as soon as anything has been
\* called or disputed.
MarksInOrder ==
  /\ lastMarkCid = Len(marks)
  /\ state # "Active" => lastMarkCid # 0

\* The inductive invariant: the pledges explain the balance (NoOverdraw needs
\* both of its halves to show that a withdrawal is covered), the dispute
\* pointer and the records agree, and marks come in order.
IInv == TypeOK /\ MarksInOrder /\ DisputeConsistency /\ NoOverdraw

LEMMA PartiesDistinct ==
  /\ PartyA \in Parties /\ PartyB \in Parties
  /\ \A p \in Parties : p = PartyA \/ p = PartyB
  BY DEF Parties

LEMMA LastCallType ==
  ASSUME TypeOK, lastMarkCid # 0, NEW b \in Int
  PROVE  /\ marks[lastMarkCid] \in Mark
         /\ TargetCsb(marks[lastMarkCid].exposure, Threshold) \in Int
         /\ LastCall(b) \in Int
<1>1. lastMarkCid \in 1..Len(marks) /\ marks \in Seq(Mark)
  BY DEF TypeOK
<1>2. marks[lastMarkCid] \in Mark
  BY <1>1
<1>3. marks[lastMarkCid].exposure \in Int
  BY <1>2, CsaParameters DEF Mark
<1>4. TargetCsb(marks[lastMarkCid].exposure, Threshold) \in Int
  BY <1>3, CsaParameters, TargetCsbType
<1> QED
  BY <1>2, <1>4, CsaParameters, GateCallResidual DEF LastCall, CallUnder

LEMMA InitIInv == Init => IInv
<1> SUFFICES ASSUME Init PROVE IInv
  OBVIOUS
<1>1. TypeOK
  BY ActorsDiffer, PartiesDistinct DEF Init, TypeOK, CsaState, Mark, DisputeRecord
<1>2. MarksInOrder
  BY DEF Init, MarksInOrder
<1>3. DisputeConsistency
  BY DEF Init, DisputeConsistency, Frozen
<1>4. NoOverdraw
  BY PartiesDistinct DEF Init, NoOverdraw
<1> QED
  BY <1>1, <1>2, <1>3, <1>4 DEF IInv

\* What recording a mark does.
LEMMA CreateMarkFacts ==
  ASSUME TypeOK, NEW e \in Exposures, NEW o \in Origins, CreateMark(e, o)
  PROVE  /\ marks' \in Seq(Mark)
         /\ lastMarkCid' = Len(marks')
         /\ lastMarkCid' \in Nat \ {0}
         /\ marks'[lastMarkCid'] = [exposure |-> e, origin |-> o]
         /\ KeepMarks => marks' = Append(marks, [exposure |-> e, origin |-> o])
<1> DEFINE m == [exposure |-> e, origin |-> o]
<1>1. m \in Mark
  BY DEF Mark
<1>2. Remembered \in Seq(Mark) /\ (KeepMarks => Remembered = marks)
  BY DEF Remembered, TypeOK
<1>3. marks' = Append(Remembered, m) /\ lastMarkCid' = Len(marks')
  BY DEF CreateMark
<1> QED
  BY <1>1, <1>2, <1>3

LEMMA DisputeElements ==
  ASSUME TypeOK, NEW d \in DOMAIN disputes
  PROVE  disputes[d] \in DisputeRecord
  BY DEF TypeOK

\* What archiving a dispute record does.
LEMMA ArchivedFacts ==
  ASSUME TypeOK, NEW d \in DOMAIN disputes
  PROVE  /\ Archived(d) \in Seq(DisputeRecord)
         /\ DOMAIN Archived(d) = DOMAIN disputes
         /\ Len(Archived(d)) = Len(disputes)
         /\ \A i \in DOMAIN disputes :
              Archived(d)[i].live = IF i = d THEN FALSE ELSE disputes[i].live
<1> DEFINE r == [disputer |-> disputes[d].disputer,
                 counterMark |-> disputes[d].counterMark, live |-> FALSE]
<1>1. r \in DisputeRecord
  BY DisputeElements DEF DisputeRecord
<1>2. Archived(d) = [disputes EXCEPT ![d] = r]
  BY DEF Archived
<1>3. disputes \in Seq(DisputeRecord)
  BY DEF TypeOK
<1> HIDE DEF r
<1>4. [disputes EXCEPT ![d] = r] \in Seq(DisputeRecord)
  BY <1>1, <1>3
<1>5. DOMAIN [disputes EXCEPT ![d] = r] = DOMAIN disputes
  BY <1>3
<1>6. Len([disputes EXCEPT ![d] = r]) = Len(disputes)
  BY <1>3, <1>4, <1>5
<1>7. r.live = FALSE
  BY DEF r
<1>8. \A i \in DOMAIN disputes : [disputes EXCEPT ![d] = r][i] = IF i = d THEN r ELSE disputes[i]
  BY <1>3
<1> QED
  BY <1>2, <1>4, <1>5, <1>6, <1>7, <1>8

-----------------------------------------------------------------------------
(* Each choice preserves the type invariant.                               *)

LEMMA NextTypeOK ==
  ASSUME TypeOK, [Next]_vars
  PROVE  TypeOK'
<1> USE ActorsDiffer, PartiesDistinct
<1>1. ASSUME NEW p \in Parties, NEW a \in Amounts, PostCollateral(p, a)
      PROVE  TypeOK'
  <2>1. a \in Int /\ Signed(p, a) \in Int
    BY CsaParameters DEF Signed
  <2>2. csb' \in Int /\ pledged' \in [Parties -> Int]
    BY <1>1, <2>1 DEF PostCollateral, TypeOK
  <2>3. state' \in CsaState
    BY <1>1 DEF PostCollateral, SelfSettled, TypeOK, CsaState
  <2> QED
    BY <1>1, <2>2, <2>3 DEF PostCollateral, TypeOK
<1>2. ASSUME NEW p \in Parties, NEW a \in Amounts, WithdrawExcess(p, a)
      PROVE  TypeOK'
  <2>1. a \in Int /\ Signed(p, a) \in Int
    BY CsaParameters DEF Signed
  <2>2. csb' \in Int /\ pledged' \in [Parties -> Int]
    BY <1>2, <2>1 DEF WithdrawExcess, TypeOK
  <2> QED
    BY <1>2, <2>2 DEF WithdrawExcess, TypeOK
<1>3. ASSUME NEW e \in Exposures, PublishMarkImpl(e), actor' \in {Operator, Scheduler}
      PROVE  TypeOK'
  <2>1. (IF Frozen THEN "frozen" ELSE "tick") \in Origins
    BY DEF Origins
  <2>2. marks' \in Seq(Mark) /\ lastMarkCid' = Len(marks')
    BY <1>3, <2>1, CreateMarkFacts DEF PublishMarkImpl
  <2> QED
    BY <1>3, <2>2 DEF PublishMarkImpl, TypeOK
<1>4. ASSUME SettleVmImpl, actor' \in {Operator, Scheduler}
      PROVE  TypeOK'
  <2>1. LastCall(csb) \in Int
    BY <1>4, LastCallType DEF SettleVmImpl, TypeOK
  <2>2. LastCall(csb) # 0 => Abs(LastCall(csb)) \in Nat \ {0}
    BY <2>1 DEF Abs
  <2>3. lastMarkCid \in Nat \ {0}
    BY <1>4 DEF SettleVmImpl, TypeOK
  <2>4. state' \in CsaState
    BY <1>4 DEF SettleVmImpl, CsaState
  <2>5. shortfall' \in MarginShortfall \cup {NoShortfall}
    BY <1>4, <2>2, <2>3 DEF SettleVmImpl, MarginShortfall, TypeOK
  <2> QED
    BY <1>4, <2>4, <2>5 DEF SettleVmImpl, TypeOK
<1>5. ASSUME NEW p \in Parties, NEW e \in Exposures, Dispute(p, e)
      PROVE  TypeOK'
  <2>1. [disputer |-> p, counterMark |-> e, live |-> TRUE] \in DisputeRecord
    BY DEF DisputeRecord
  <2>2. disputes' \in Seq(DisputeRecord) /\ Len(disputes') = Len(disputes) + 1
    BY <1>5, <2>1 DEF Dispute, MayDispute, TypeOK
  <2> QED
    BY <1>5, <2>2 DEF Dispute, MayDispute, TypeOK, CsaState
<1>6. ASSUME NEW p \in Parties, EscalateDispute(p)
      PROVE  TypeOK'
  BY <1>6 DEF EscalateDispute, TypeOK, CsaState
<1>7. \A d \in DOMAIN disputes : Archived(d) \in Seq(DisputeRecord)
  BY ArchivedFacts
<1>8. ASSUME NEW p \in Parties, AgreeToCounterMark(p)
      PROVE  TypeOK'
  <2>1. activeDispute \in DOMAIN disputes
    BY <1>8 DEF AgreeToCounterMark, Fetchable
  <2>2. disputes[activeDispute].counterMark \in Exposures
    BY <2>1, DisputeElements DEF DisputeRecord
  <2>3. marks' \in Seq(Mark) /\ lastMarkCid' = Len(marks')
    BY <1>8, <2>2, CreateMarkFacts DEF AgreeToCounterMark, Origins
  <2>4. disputes' \in Seq(DisputeRecord)
    BY <1>7, <1>8, <2>1 DEF AgreeToCounterMark
  <2> QED
    BY <1>8, <2>3, <2>4 DEF AgreeToCounterMark, TypeOK, CsaState
<1>9. ASSUME NEW e \in Exposures, AcknowledgeDispute(e)
      PROVE  TypeOK'
  <2>1. marks' \in Seq(Mark) /\ lastMarkCid' = Len(marks')
    BY <1>9, CreateMarkFacts DEF AcknowledgeDispute, Origins
  <2>2. disputes' \in Seq(DisputeRecord)
    BY <1>7, <1>9 DEF AcknowledgeDispute, Fetchable, TypeOK
  <2> QED
    BY <1>9, <2>1, <2>2 DEF AcknowledgeDispute, TypeOK, CsaState
<1>10. CASE UNCHANGED vars
  BY <1>10 DEF vars, TypeOK
<1> QED
  BY <1>1, <1>2, <1>3, <1>4, <1>5, <1>6, <1>8, <1>9, <1>10
  DEF Next, PartyNext, OperatorNext, SchedulerNext, PublishMark, PublishMarkByScheduler,
      SettleVm, SettleVmByScheduler

\* TypeOK in every reachable state, whatever the constants.
THEOREM TypeCorrect == Spec => []TypeOK
<1>1. Init => TypeOK
  BY InitIInv DEF IInv
<1>2. TypeOK /\ [Next]_vars => TypeOK'
  BY NextTypeOK
<1> QED
  BY <1>1, <1>2, PTL DEF Spec

-----------------------------------------------------------------------------
(* The rest of the inductive invariant.                                    *)

LEMMA NextMarksInOrder ==
  ASSUME TypeOK, MarksInOrder, [Next]_vars
  PROVE  MarksInOrder'
<1>1. ASSUME NEW p \in Parties, NEW a \in Amounts, PostCollateral(p, a)
      PROVE  MarksInOrder'
  BY <1>1 DEF PostCollateral, SelfSettled, MarksInOrder
<1>2. ASSUME NEW p \in Parties, NEW a \in Amounts, WithdrawExcess(p, a)
      PROVE  MarksInOrder'
  BY <1>2 DEF WithdrawExcess, MarksInOrder
<1>3. ASSUME NEW e \in Exposures, PublishMarkImpl(e)
      PROVE  MarksInOrder'
  <2>1. (IF Frozen THEN "frozen" ELSE "tick") \in Origins
    BY DEF Origins
  <2> QED
    BY <1>3, <2>1, CreateMarkFacts DEF PublishMarkImpl, MarksInOrder
<1>4. ASSUME SettleVmImpl
      PROVE  MarksInOrder'
  BY <1>4 DEF SettleVmImpl, MarksInOrder
<1>5. ASSUME NEW p \in Parties, NEW e \in Exposures, Dispute(p, e)
      PROVE  MarksInOrder'
  BY <1>5 DEF Dispute, MayDispute, MarksInOrder
<1>6. ASSUME NEW p \in Parties, EscalateDispute(p)
      PROVE  MarksInOrder'
  BY <1>6 DEF EscalateDispute, MarksInOrder
<1>7. ASSUME NEW p \in Parties, AgreeToCounterMark(p)
      PROVE  MarksInOrder'
  <2>1. disputes[activeDispute].counterMark \in Exposures
    BY <1>7, DisputeElements DEF AgreeToCounterMark, Fetchable, DisputeRecord
  <2> QED
    BY <1>7, <2>1, CreateMarkFacts DEF AgreeToCounterMark, MarksInOrder, Origins
<1>8. ASSUME NEW e \in Exposures, AcknowledgeDispute(e)
      PROVE  MarksInOrder'
  BY <1>8, CreateMarkFacts DEF AcknowledgeDispute, MarksInOrder, Origins
<1>9. CASE UNCHANGED vars
  BY <1>9 DEF vars, MarksInOrder
<1> QED
  BY <1>1, <1>2, <1>3, <1>4, <1>5, <1>6, <1>7, <1>8, <1>9
  DEF Next, PartyNext, OperatorNext, SchedulerNext, PublishMark, PublishMarkByScheduler,
      SettleVm, SettleVmByScheduler

\* Only a dispute and its end touch the records and the pointer; a post may
\* clear a call but never a freeze, and no assessment happens while frozen.
LEMMA NextDisputeConsistency ==
  ASSUME TypeOK, DisputeConsistency, [Next]_vars
  PROVE  DisputeConsistency'
<1>1. ASSUME UNCHANGED <<activeDispute, disputes>>, Frozen' <=> Frozen
      PROVE  DisputeConsistency'
  BY <1>1 DEF DisputeConsistency
<1>2. ASSUME NEW p \in Parties, NEW a \in Amounts, PostCollateral(p, a)
      PROVE  DisputeConsistency'
  BY <1>1, <1>2 DEF PostCollateral, SelfSettled, Frozen
<1>3. ASSUME NEW p \in Parties, NEW a \in Amounts, WithdrawExcess(p, a)
      PROVE  DisputeConsistency'
  BY <1>1, <1>3 DEF WithdrawExcess, Frozen
<1>4. ASSUME NEW e \in Exposures, PublishMarkImpl(e)
      PROVE  DisputeConsistency'
  BY <1>1, <1>4 DEF PublishMarkImpl, Frozen
<1>5. ASSUME SettleVmImpl
      PROVE  DisputeConsistency'
  BY <1>1, <1>5 DEF SettleVmImpl, Frozen
<1>6. ASSUME NEW p \in Parties, NEW e \in Exposures, Dispute(p, e)
      PROVE  DisputeConsistency'
  <2> DEFINE r == [disputer |-> p, counterMark |-> e, live |-> TRUE]
  <2>1. disputes \in Seq(DisputeRecord) /\ disputes' = Append(disputes, r)
    BY <1>6 DEF Dispute, MayDispute, TypeOK
  <2>2. r \in DisputeRecord
    BY DEF DisputeRecord
  <2>3. {d \in DOMAIN disputes : disputes[d].live} = {}
    BY <1>6 DEF Dispute, MayDispute, DisputeConsistency
  <2>4. DOMAIN disputes' = 1..(Len(disputes) + 1) /\ DOMAIN disputes = 1..Len(disputes)
        /\ Len(disputes) \in Nat
    BY <2>1, <2>2
  <2>5. disputes'[Len(disputes) + 1].live
        /\ \A d \in DOMAIN disputes : disputes'[d] = disputes[d]
    BY <2>1, <2>2
  <2>6. {d \in DOMAIN disputes' : disputes'[d].live} = {Len(disputes) + 1}
    BY <2>3, <2>4, <2>5
  <2> QED
    BY <1>6, <2>4, <2>6 DEF Dispute, MayDispute, DisputeConsistency, Frozen
<1>7. ASSUME NEW p \in Parties, EscalateDispute(p)
      PROVE  DisputeConsistency'
  BY <1>1, <1>7 DEF EscalateDispute, Frozen
<1>8. ASSUME activeDispute \in DOMAIN disputes,
             disputes' = Archived(activeDispute), activeDispute' = 0, state' = "Active"
      PROVE  DisputeConsistency'
  <2>1. \A d \in DOMAIN disputes' : ~disputes'[d].live
    <3>1. DOMAIN disputes' = DOMAIN disputes
      BY <1>8, ArchivedFacts
    <3>2. \A d \in DOMAIN disputes :
            disputes'[d].live = IF d = activeDispute THEN FALSE ELSE disputes[d].live
      BY <1>8, ArchivedFacts
    <3>3. \A d \in DOMAIN disputes : d # activeDispute => ~disputes[d].live
      BY DEF DisputeConsistency
    <3> QED
      BY <3>1, <3>2, <3>3
  <2> QED
    BY <1>8, <2>1 DEF DisputeConsistency, Frozen
<1>9. ASSUME NEW p \in Parties, AgreeToCounterMark(p)
      PROVE  DisputeConsistency'
  BY <1>8, <1>9 DEF AgreeToCounterMark, Fetchable
<1>10. ASSUME NEW e \in Exposures, AcknowledgeDispute(e)
      PROVE  DisputeConsistency'
  BY <1>8, <1>10 DEF AcknowledgeDispute, Fetchable, DisputeConsistency
<1>11. CASE UNCHANGED vars
  BY <1>1, <1>11 DEF vars, Frozen
<1> QED
  BY <1>2, <1>3, <1>4, <1>5, <1>6, <1>7, <1>9, <1>10, <1>11
  DEF Next, PartyNext, OperatorNext, SchedulerNext, PublishMark, PublishMarkByScheduler,
      SettleVm, SettleVmByScheduler

\* A withdrawal is at most the balance in its owner's favour, and that is at
\* most what the owner has put in because the other side's share is not
\* negative: the two halves of NoOverdraw need each other.
LEMMA NextNoOverdraw ==
  ASSUME TypeOK, NoOverdraw, [Next]_vars
  PROVE  NoOverdraw'
<1> USE PartiesDiffer, PartiesDistinct
<1>1. ASSUME UNCHANGED <<csb, pledged>>
      PROVE  NoOverdraw'
  BY <1>1 DEF NoOverdraw
<1>2. ASSUME NEW p \in Parties, NEW a \in Amounts, PostCollateral(p, a)
      PROVE  NoOverdraw'
  <2>1. a \in Nat
    BY CsaParameters
  <2> QED
    BY <1>2, <2>1 DEF PostCollateral, Signed, NoOverdraw, TypeOK
<1>3. ASSUME NEW p \in Parties, NEW a \in Amounts, WithdrawExcess(p, a)
      PROVE  NoOverdraw'
  <2>1. a \in Nat
    BY CsaParameters
  <2>2. a <= AtLeastZero(Signed(p, csb))
    BY <1>3 DEF WithdrawExcess, MayWithdraw, Pledge
  <2>a. csb' = csb - Signed(p, a) /\ pledged' = [pledged EXCEPT ![p] = @ - a]
    BY <1>3 DEF WithdrawExcess
  <2>b. /\ csb \in Int /\ pledged[PartyA] \in Int /\ pledged[PartyB] \in Int
        /\ DOMAIN pledged = Parties /\ Parties = {PartyA, PartyB} /\ PartyA # PartyB
    BY DEF TypeOK, Parties
  <2>c. csb = pledged[PartyA] - pledged[PartyB] /\ pledged[PartyA] >= 0 /\ pledged[PartyB] >= 0
    BY <2>b DEF NoOverdraw
  <2>3. CASE p = PartyA
    <3>1. csb' = csb - a /\ a <= AtLeastZero(csb)
      BY <2>2, <2>3, <2>a DEF Signed
    <3>2. pledged'[PartyA] = pledged[PartyA] - a /\ pledged'[PartyB] = pledged[PartyB]
      BY <2>3, <2>a, <2>b
    <3>3. csb' = pledged'[PartyA] - pledged'[PartyB] /\ pledged'[PartyA] >= 0 /\ pledged'[PartyB] >= 0
      BY <2>1, <2>b, <2>c, <3>1, <3>2 DEF AtLeastZero
    <3> QED
      BY <2>b, <3>3 DEF NoOverdraw
  <2>4. CASE p = PartyB
    <3>1. csb' = csb - (-a) /\ a <= AtLeastZero(-csb)
      BY <2>2, <2>4, <2>a, <2>b DEF Signed
    <3>2. pledged'[PartyA] = pledged[PartyA] /\ pledged'[PartyB] = pledged[PartyB] - a
      BY <2>4, <2>a, <2>b
    <3>3. csb' = pledged'[PartyA] - pledged'[PartyB] /\ pledged'[PartyA] >= 0 /\ pledged'[PartyB] >= 0
      BY <2>1, <2>b, <2>c, <3>1, <3>2 DEF AtLeastZero
    <3> QED
      BY <2>b, <3>3 DEF NoOverdraw
  <2> QED
    BY <2>3, <2>4
<1>4. CASE UNCHANGED vars
  BY <1>1, <1>4 DEF vars
<1> QED
  BY <1>1, <1>2, <1>3, <1>4
  DEF Next, PartyNext, OperatorNext, SchedulerNext, PublishMark, PublishMarkByScheduler,
      PublishMarkImpl, SettleVm, SettleVmByScheduler, SettleVmImpl, Dispute, MayDispute,
      EscalateDispute, AgreeToCounterMark, AcknowledgeDispute

\* The inductive invariant holds throughout.
THEOREM Invariance == Spec => []IInv
<1>1. Init => IInv
  BY InitIInv
<1>2. IInv /\ [Next]_vars => IInv'
  BY NextTypeOK, NextMarksInOrder, NextDisputeConsistency, NextNoOverdraw DEF IInv
<1> QED
  BY <1>1, <1>2, PTL DEF Spec

\* The agreement is frozen exactly while it points at the one live dispute
\* record, however disputes, escalations and resolutions interleave.
THEOREM DisputesConsistent == Spec => []DisputeConsistency
  BY Invariance, PTL DEF IInv

\* Neither party ever takes out more than it has put in.
THEOREM NobodyOverdraws == Spec => []NoOverdraw
  BY Invariance, PTL DEF IInv

-----------------------------------------------------------------------------
(* Calls.                                                                  *)

\* Where half a rounding increment is less than the minimum transfer amount,
\* paying an outstanding call in full leaves no call on either side.
THEOREM CallsAreCurable ==
  ASSUME 2 * Mta > Rounding
  PROVE  Spec => []CallIsCurable
<1>1. IInv => CallIsCurable
  <2> SUFFICES ASSUME IInv, state = "MarginCallOutstanding"
               PROVE  LastCall(csb + LastCall(csb)) = 0
    BY DEF CallIsCurable
  <2> DEFINE target == TargetCsb(marks[lastMarkCid].exposure, Threshold)
             call == LastCall(csb)
  <2>1. lastMarkCid # 0 /\ csb \in Int
    BY DEF IInv, MarksInOrder, TypeOK
  <2>2. target \in Int /\ call \in Int
    BY <2>1, LastCallType DEF IInv
  <2>3. call = GateCall(target - csb, Mta, Rounding)
        /\ LastCall(csb + call) = GateCall(target - (csb + call), Mta, Rounding)
    BY DEF LastCall, CallUnder
  <2> HIDE DEF target, call
  <2>4. target - csb \in Int /\ target - (csb + call) = (target - csb) - call
    BY <2>1, <2>2
  <2>5. call # 0 => GateCall((target - csb) - call, Mta, Rounding) = 0
    BY <2>3, <2>4, PaidCallLeavesNone, CsaParameters
  <2>6. call = 0 => csb + call = csb
    BY <2>1
  <2>7. LastCall(csb + call) = 0
    BY <2>3, <2>4, <2>5, <2>6
  <2> QED
    BY <2>7 DEF call
<1> QED
  BY <1>1, Invariance, PTL

\* Strengthening of CallsAreUndisputed: the ground of a call is never a mark
\* from a freeze, because outside a freeze the last mark is not one either.
CallGround ==
  /\ ~Frozen /\ lastMarkCid # 0 => marks[lastMarkCid].origin # "frozen"
  /\ shortfall # NoShortfall => shortfall.relatedMark \in DOMAIN marks
  /\ CallsAreUndisputed

LEMMA NextCallGround ==
  ASSUME KeepMarks, IInv, CallGround, [Next]_vars
  PROVE  CallGround'
<1>0. /\ TypeOK /\ marks \in Seq(Mark)
      /\ lastMarkCid = Len(marks) /\ lastMarkCid \in Nat
      /\ state = "MarginCallOutstanding" => ~Frozen
  BY DEF IInv, TypeOK, MarksInOrder, Frozen
<1>1. ASSUME UNCHANGED <<marks, lastMarkCid, shortfall>>,
             state' = "MarginCallOutstanding" => state = "MarginCallOutstanding",
             ~Frozen' => ~Frozen
      PROVE  CallGround'
  BY <1>1 DEF CallGround, CallsAreUndisputed
<1>2. ASSUME NEW e \in Exposures, NEW o \in Origins, CreateMark(e, o),
             shortfall' = shortfall,
             o = "frozen" => Frozen',
             state' = "MarginCallOutstanding" =>
               state = "MarginCallOutstanding" /\ o = "tick"
      PROVE  CallGround'
  <2> DEFINE m == [exposure |-> e, origin |-> o]
  <2>1. /\ marks' = Append(marks, m)
        /\ lastMarkCid' = Len(marks')
        /\ marks'[lastMarkCid'] = m
    BY <1>0, <1>2, CreateMarkFacts
  <2>2. m \in Mark
    BY DEF Mark
  <2>3. /\ Len(marks) \in Nat /\ Len(marks') = Len(marks) + 1
        /\ DOMAIN marks = 1..Len(marks) /\ DOMAIN marks' = 1..Len(marks')
        /\ \A k \in DOMAIN marks : marks'[k] = marks[k]
        /\ marks'[Len(marks')] = m
    BY <1>0, <2>1, <2>2
  <2>4. ~Frozen' => marks'[lastMarkCid'].origin # "frozen"
    BY <1>2, <2>1
  <2>5. shortfall # NoShortfall => shortfall.relatedMark \in DOMAIN marks
    BY DEF CallGround
  <2>6. shortfall' # NoShortfall => /\ shortfall'.relatedMark \in DOMAIN marks'
                                   /\ marks'[shortfall'.relatedMark].origin # "frozen"
    BY <1>2, <2>3, <2>5 DEF CallGround, CallsAreUndisputed
  <2>7. ASSUME state' = "MarginCallOutstanding"
        PROVE  /\ shortfall' # NoShortfall
               /\ \A k \in (shortfall'.relatedMark + 1)..Len(marks') :
                     marks'[k].origin = "tick"
    <3>1. state = "MarginCallOutstanding" /\ o = "tick"
      BY <1>2, <2>7
    <3>2. /\ shortfall # NoShortfall
          /\ \A k \in (shortfall.relatedMark + 1)..Len(marks) : marks[k].origin = "tick"
      BY <3>1 DEF CallGround, CallsAreUndisputed
    <3>3. shortfall.relatedMark \in 1..Len(marks)
      BY <3>2, <2>3, <2>5
    <3>4. ASSUME NEW k \in (shortfall'.relatedMark + 1)..Len(marks')
          PROVE  marks'[k].origin = "tick"
      <4>1. CASE k = Len(marks')
        BY <4>1, <2>3, <3>1
      <4>2. CASE k # Len(marks')
        <5>1. k \in (shortfall.relatedMark + 1)..Len(marks) /\ k \in DOMAIN marks
          BY <1>2, <2>3, <3>3, <3>4, <4>2
        <5> QED
          BY <5>1, <2>3, <3>2
      <4> QED
        BY <4>1, <4>2
    <3> QED
      BY <1>2, <3>2, <3>4
  <2> QED
    BY <2>4, <2>6, <2>7 DEF CallGround, CallsAreUndisputed
<1>3. ASSUME NEW p \in Parties, NEW a \in Amounts, PostCollateral(p, a)
      PROVE  CallGround'
  BY <1>1, <1>3 DEF PostCollateral, SelfSettled, Frozen
<1>4. ASSUME NEW p \in Parties, NEW a \in Amounts, WithdrawExcess(p, a)
      PROVE  CallGround'
  BY <1>1, <1>4 DEF WithdrawExcess, Frozen
<1>5. ASSUME NEW e \in Exposures, PublishMarkImpl(e)
      PROVE  CallGround'
  <2>1. CASE Frozen
    BY <1>0, <1>2, <1>5, <2>1 DEF PublishMarkImpl, Frozen, Origins
  <2>2. CASE ~Frozen
    BY <1>2, <1>5, <2>2 DEF PublishMarkImpl, Origins
  <2> QED
    BY <2>1, <2>2
<1>6. ASSUME SettleVmImpl
      PROVE  CallGround'
  <2>1. /\ ~Frozen /\ lastMarkCid # 0 /\ UNCHANGED <<marks, lastMarkCid>>
        /\ marks[lastMarkCid].origin # "frozen"
    BY <1>6 DEF SettleVmImpl, CallGround
  <2>2. CASE state' = "Active" /\ UNCHANGED shortfall
    BY <1>1, <2>1, <2>2
  <2>3. CASE shortfall'.relatedMark = lastMarkCid /\ shortfall' # NoShortfall
    <3>1. lastMarkCid \in DOMAIN marks
      BY <1>0, <2>1
    <3>2. (lastMarkCid + 1)..Len(marks) = {}
      BY <1>0
    <3> QED
      BY <2>1, <2>3, <3>1, <3>2 DEF CallGround, CallsAreUndisputed
  <2>4. shortfall' = [debtor |-> IF LastCall(csb) > 0 THEN PartyA ELSE PartyB,
                      deficit |-> Abs(LastCall(csb)), relatedMark |-> lastMarkCid]
        => shortfall'.relatedMark = lastMarkCid /\ shortfall' # NoShortfall
    BY <2>1 DEF NoShortfall
  <2> QED
    BY <1>6, <2>2, <2>3, <2>4 DEF SettleVmImpl
<1>7. ASSUME NEW p \in Parties, NEW e \in Exposures, Dispute(p, e)
      PROVE  CallGround'
  BY <1>1, <1>7 DEF Dispute, MayDispute, Frozen
<1>8. ASSUME NEW p \in Parties, EscalateDispute(p)
      PROVE  CallGround'
  BY <1>1, <1>8 DEF EscalateDispute, Frozen
<1>9. ASSUME NEW p \in Parties, AgreeToCounterMark(p)
      PROVE  CallGround'
  <2>1. disputes[activeDispute].counterMark \in Exposures
    BY <1>0, <1>9, DisputeElements DEF AgreeToCounterMark, Fetchable, DisputeRecord
  <2> QED
    BY <1>2, <1>9, <2>1 DEF AgreeToCounterMark, Origins
<1>10. ASSUME NEW e \in Exposures, AcknowledgeDispute(e)
      PROVE  CallGround'
  BY <1>2, <1>10 DEF AcknowledgeDispute, Origins
<1>11. CASE UNCHANGED vars
  BY <1>1, <1>11 DEF vars, Frozen
<1> QED
  BY <1>3, <1>4, <1>5, <1>6, <1>7, <1>8, <1>9, <1>10, <1>11
  DEF Next, PartyNext, OperatorNext, SchedulerNext, PublishMark, PublishMarkByScheduler,
      SettleVm, SettleVmByScheduler

\* No margin call rests on a mark published while the agreement was frozen, or
\* survives the resolution of a dispute.
THEOREM CallsUndisputed ==
  ASSUME KeepMarks
  PROVE  Spec => []CallsAreUndisputed
<1>1. Init => CallGround
  BY DEF Init, CallGround, CallsAreUndisputed
<1>2. IInv /\ CallGround /\ [Next]_vars => CallGround'
  BY NextCallGround
<1>3. CallGround => CallsAreUndisputed
  BY DEF CallGround
<1> QED
  BY <1>1, <1>2, <1>3, Invariance, PTL DEF Spec

-----------------------------------------------------------------------------
(* Disputes.                                                               *)

LEMMA FrozenStep ==
  ASSUME IInv, [Next]_vars, Frozen
  PROVE  /\ \A p \in Parties : pledged'[p] >= pledged[p]
         /\ shortfall' = shortfall
         /\ Frozen' => activeDispute' = activeDispute
<1> DEFINE Protected == /\ \A p \in Parties : pledged'[p] >= pledged[p]
                        /\ shortfall' = shortfall
                        /\ Frozen' => activeDispute' = activeDispute
<1>1. pledged \in [Parties -> Int]
  BY DEF IInv, TypeOK
<1>2. ASSUME NEW p \in Parties, NEW a \in Amounts, PostCollateral(p, a)
      PROVE  Protected
  <2>1. a \in Nat
    BY CsaParameters
  <2>2. pledged' = [pledged EXCEPT ![p] = @ + a] /\ UNCHANGED <<shortfall, activeDispute>>
    BY <1>2 DEF PostCollateral
  <2> QED
    BY <1>1, <2>1, <2>2
<1>3. ASSUME UNCHANGED <<pledged, shortfall>>, Frozen' => activeDispute' = activeDispute
      PROVE  Protected
  BY <1>1, <1>3
<1>4. ASSUME NEW p \in Parties, NEW a \in Amounts, WithdrawExcess(p, a)
      PROVE  FALSE
  BY <1>4 DEF WithdrawExcess, MayWithdraw
<1>5. ASSUME NEW e \in Exposures, PublishMarkImpl(e)
      PROVE  Protected
  BY <1>3, <1>5 DEF PublishMarkImpl
<1>6. ~SettleVmImpl
  BY DEF SettleVmImpl
<1>7. ASSUME NEW p \in Parties, NEW e \in Exposures, Dispute(p, e)
      PROVE  FALSE
  BY <1>7 DEF Dispute, MayDispute, Frozen
<1>8. ASSUME NEW p \in Parties, EscalateDispute(p)
      PROVE  Protected
  BY <1>3, <1>8 DEF EscalateDispute
<1>9. ASSUME NEW p \in Parties, AgreeToCounterMark(p)
      PROVE  Protected
  BY <1>3, <1>9 DEF AgreeToCounterMark, Frozen
<1>10. ASSUME NEW e \in Exposures, AcknowledgeDispute(e)
      PROVE  Protected
  BY <1>3, <1>10 DEF AcknowledgeDispute, Frozen
<1>11. CASE UNCHANGED vars
  BY <1>3, <1>11 DEF vars
<1> QED
  BY <1>2, <1>4, <1>5, <1>6, <1>7, <1>8, <1>9, <1>10, <1>11
  DEF Next, PartyNext, OperatorNext, SchedulerNext, PublishMark, PublishMarkByScheduler,
      SettleVm, SettleVmByScheduler

\* While frozen no collateral leaves, nothing is called, and the dispute stays
\* the same one until it is resolved.
THEOREM FreezeProtects == Spec => FreezeHolds
<1>1. IInv /\ [Next]_vars =>
        [Frozen => /\ \A p \in Parties : pledged'[p] >= pledged[p]
                   /\ shortfall' = shortfall
                   /\ Frozen' => activeDispute' = activeDispute]_vars
  BY FrozenStep
<1> QED
  BY <1>1, Invariance, PTL DEF Spec, FreezeHolds

\* How a freeze may end.
LEMMA ThawStep ==
  ASSUME IInv, [Next]_vars, Frozen, ~Frozen'
  PROVE  \/ /\ actor' = Operator
            /\ \E e \in Exposures : AcknowledgeDispute(e)
         \/ /\ state = "MarkDisputed"
            /\ activeDispute \in DOMAIN disputes
            /\ actor' \in Parties \ {disputes[activeDispute].disputer}
            /\ AgreeToCounterMark(actor')
            /\ marks'[lastMarkCid'].exposure = disputes[activeDispute].counterMark
<1>1. ASSUME NEW p \in Parties, AgreeToCounterMark(p)
      PROVE  /\ state = "MarkDisputed"
             /\ activeDispute \in DOMAIN disputes
             /\ actor' \in Parties \ {disputes[activeDispute].disputer}
             /\ AgreeToCounterMark(actor')
             /\ marks'[lastMarkCid'].exposure = disputes[activeDispute].counterMark
  <2>1. activeDispute \in DOMAIN disputes /\ actor' = p /\ IsCounterparty(p)
    BY <1>1 DEF AgreeToCounterMark, Fetchable
  <2>2. disputes[activeDispute].counterMark \in Exposures
    BY <2>1, DisputeElements DEF IInv, DisputeRecord
  <2>3. CreateMark(disputes[activeDispute].counterMark, "resolution") /\ TypeOK
    BY <1>1 DEF AgreeToCounterMark, IInv
  <2>4. marks'[lastMarkCid'] = [exposure |-> disputes[activeDispute].counterMark,
                                origin |-> "resolution"]
    BY <2>2, <2>3, CreateMarkFacts DEF Origins
  <2> QED
    BY <1>1, <2>1, <2>4 DEF AgreeToCounterMark, IsCounterparty
<1>2. ASSUME NEW e \in Exposures, AcknowledgeDispute(e)
      PROVE  actor' = Operator
  BY <1>2 DEF AcknowledgeDispute
<1>3. ASSUME state' = state
      PROVE  FALSE
  BY <1>3 DEF Frozen
<1>4. ASSUME NEW p \in Parties, NEW a \in Amounts, PostCollateral(p, a)
      PROVE  FALSE
  BY <1>3, <1>4 DEF PostCollateral, SelfSettled, Frozen
<1>5. ASSUME NEW p \in Parties, NEW e \in Exposures, Dispute(p, e)
      PROVE  FALSE
  BY <1>5 DEF Dispute, MayDispute, Frozen
<1>6. ASSUME NEW p \in Parties, EscalateDispute(p)
      PROVE  FALSE
  BY <1>6 DEF EscalateDispute, Frozen
<1>7. ~SettleVmImpl
  BY DEF SettleVmImpl
<1>8. ASSUME NEW p \in Parties, NEW a \in Amounts, WithdrawExcess(p, a)
      PROVE  FALSE
  BY <1>8 DEF WithdrawExcess, MayWithdraw
<1>9. ASSUME NEW e \in Exposures, PublishMarkImpl(e)
      PROVE  FALSE
  BY <1>3, <1>9 DEF PublishMarkImpl
<1>10. ~UNCHANGED vars
  BY <1>3 DEF vars
<1> QED
  BY <1>1, <1>2, <1>4, <1>5, <1>6, <1>7, <1>8, <1>9, <1>10
  DEF Next, PartyNext, OperatorNext, SchedulerNext, PublishMark, PublishMarkByScheduler,
      SettleVm, SettleVmByScheduler

\* Nobody lifts the freeze it imposed: it takes the operator or, before
\* escalation, the other party's consent to the disputer's own counter-mark.
THEOREM DisputesResolvedByRight == Spec => ResolvedByRight
<1>1. IInv /\ [Next]_vars =>
        [Frozen /\ ~Frozen' =>
           \/ actor' = Operator
           \/ /\ state = "MarkDisputed"
              /\ actor' \in Parties \ {disputes[activeDispute].disputer}
              /\ marks'[lastMarkCid'].exposure = disputes[activeDispute].counterMark]_vars
  BY ThawStep
<1> QED
  BY <1>1, Invariance, PTL DEF Spec, ResolvedByRight

-----------------------------------------------------------------------------
(* The contract implements the abstract agreement.                         *)

LEMMA PhaseFacts ==
  ASSUME TypeOK
  PROVE  /\ Phase = "open" <=> state = "Active"
         /\ Phase = "called" <=> state = "MarginCallOutstanding"
         /\ Phase = "frozen" <=> Frozen
         /\ Phase \in {"open", "called", "frozen"}
  BY DEF TypeOK, CsaState, Phase, Frozen

LEMMA NextPhaseFacts ==
  ASSUME TypeOK'
  PROVE  /\ Phase' = "open" <=> state' = "Active"
         /\ Phase' = "called" <=> state' = "MarginCallOutstanding"
         /\ Phase' = "frozen" <=> Frozen'
         /\ Phase' \in {"open", "called", "frozen"}
  BY DEF TypeOK, CsaState, Phase, Frozen

LEMMA SamePhase ==
  ASSUME UNCHANGED state
  PROVE  Phase' = Phase
  BY DEF Phase, Frozen

LEMMA SameOpener ==
  ASSUME UNCHANGED <<activeDispute, disputes>>
  PROVE  Opener' = Opener
  BY DEF Opener

\* Each choice is a step of the abstract agreement: a post is PutIn, a
\* withdrawal TakeOut, an assessment Assess, a dispute Freeze, its resolution
\* Thaw; marks and escalations are not seen.
LEMMA NextImplements ==
  ASSUME IInv, IInv', [Next]_vars
  PROVE  [Promise!Next]_<<pledged, Phase, Opener, actor>>
<1> USE PartiesDistinct
<1>0. /\ TypeOK /\ TypeOK' /\ pledged \in [Parties -> Int]
      /\ DisputeConsistency /\ DisputeConsistency'
  BY DEF IInv, TypeOK
<1>1. ASSUME NEW p \in Parties, NEW a \in Amounts, PostCollateral(p, a)
      PROVE  Promise!PutIn(p)
  <2>1. a \in Nat \ {0} /\ actor' = p /\ pledged' = [pledged EXCEPT ![p] = @ + a]
    BY <1>1, CsaParameters DEF PostCollateral
  <2>2. Promise!Moves(p) /\ pledged'[p] > pledged[p]
    BY <1>0, <2>1 DEF Promise!Moves
  <2>3. Opener' = Opener
    BY <1>1, SameOpener DEF PostCollateral
  <2>4. state' = state \/ (state = "MarginCallOutstanding" /\ state' = "Active")
    BY <1>1 DEF PostCollateral, SelfSettled
  <2>5. Phase' = Phase \/ (Phase = "called" /\ Phase' = "open")
    BY <1>0, <2>4, SamePhase, PhaseFacts, NextPhaseFacts
  <2> QED
    BY <2>1, <2>2, <2>3, <2>5 DEF Promise!PutIn
<1>2. ASSUME NEW p \in Parties, NEW a \in Amounts, WithdrawExcess(p, a)
      PROVE  Promise!TakeOut(p)
  <2>1. /\ a \in Nat \ {0} /\ actor' = p /\ pledged' = [pledged EXCEPT ![p] = @ - a]
        /\ ~Frozen /\ a <= AtLeastZero(Signed(p, csb))
    BY <1>2, CsaParameters DEF WithdrawExcess, MayWithdraw, Pledge
  <2>2. Promise!Moves(p) /\ pledged'[p] < pledged[p]
    BY <1>0, <2>1 DEF Promise!Moves
  <2>3. /\ csb = pledged[PartyA] - pledged[PartyB]
        /\ pledged[PartyA] \in Int /\ pledged[PartyB] \in Int
    BY <1>0 DEF IInv, NoOverdraw
  <2>4. \A q \in Parties \ {p} : a <= pledged[p] - pledged[q]
    BY <2>1, <2>3, PartiesDiffer DEF AtLeastZero, Signed
  <2>5. \A q \in Parties \ {p} : pledged'[p] >= pledged[q]
    BY <1>0, <2>1, <2>4
  <2>6. Opener' = Opener /\ Phase' = Phase
    BY <1>2, SameOpener, SamePhase DEF WithdrawExcess
  <2>7. Phase # "frozen"
    BY <1>0, <2>1, PhaseFacts
  <2> QED
    BY <2>1, <2>2, <2>5, <2>6, <2>7 DEF Promise!TakeOut
<1>3. ASSUME UNCHANGED <<pledged, state, activeDispute, disputes>>
      PROVE  Promise!Note
  BY <1>3, SameOpener, SamePhase DEF Promise!Note
<1>4. ASSUME NEW e \in Exposures, PublishMarkImpl(e)
      PROVE  Promise!Note
  BY <1>3, <1>4 DEF PublishMarkImpl
<1>5. ASSUME SettleVmImpl, actor' \in {Operator, Scheduler}
      PROVE  Promise!Assess
  <2>1. ~Frozen /\ state' \in {"Active", "MarginCallOutstanding"}
    BY <1>5 DEF SettleVmImpl
  <2>2. Phase # "frozen" /\ Phase' \in {"open", "called"}
    BY <1>0, <2>1, PhaseFacts, NextPhaseFacts
  <2>3. Opener' = Opener /\ pledged' = pledged
    BY <1>5, SameOpener DEF SettleVmImpl
  <2> QED
    BY <1>5, <2>2, <2>3, ActorsDiffer DEF Promise!Assess
<1>6. ASSUME NEW p \in Parties, NEW e \in Exposures, Dispute(p, e)
      PROVE  Promise!Freeze(p)
  <2> DEFINE r == [disputer |-> p, counterMark |-> e, live |-> TRUE]
  <2>1. /\ disputes \in Seq(DisputeRecord) /\ disputes' = Append(disputes, r)
        /\ activeDispute' = Len(disputes) + 1
    BY <1>0, <1>6 DEF Dispute, MayDispute, TypeOK
  <2>2. r \in DisputeRecord
    BY DEF DisputeRecord
  <2>3. activeDispute' # 0 /\ disputes'[activeDispute'] = r
    BY <2>1, <2>2
  <2>4. Opener' = p
    BY <2>3 DEF Opener
  <2>5. ~Frozen /\ Frozen'
    BY <1>6 DEF Dispute, MayDispute, Frozen
  <2>6. Phase # "frozen" /\ Phase' = "frozen"
    BY <1>0, <2>5, PhaseFacts, NextPhaseFacts
  <2> QED
    BY <1>6, <2>4, <2>6 DEF Dispute, MayDispute, Promise!Freeze
<1>7. ASSUME NEW p \in Parties, EscalateDispute(p)
      PROVE  Promise!Note
  <2>1. Frozen /\ Frozen'
    BY <1>7 DEF EscalateDispute, Frozen
  <2>2. Phase' = Phase
    BY <1>0, <2>1, PhaseFacts, NextPhaseFacts
  <2>3. Opener' = Opener /\ pledged' = pledged
    BY <1>7, SameOpener DEF EscalateDispute
  <2> QED
    BY <2>2, <2>3 DEF Promise!Note
<1>8. ASSUME Frozen, ~Frozen'
      PROVE  Promise!Thaw
  <2>1. activeDispute # 0 /\ activeDispute' = 0
    BY <1>0, <1>8 DEF DisputeConsistency
  <2>2. Opener = disputes[activeDispute].disputer /\ Opener' = Nobody
    BY <2>1 DEF Opener
  <2>3. activeDispute \in DOMAIN disputes
    BY <1>0, <2>1 DEF TypeOK
  <2>4. Opener \in Parties
    BY <1>0, <2>2, <2>3, DisputeElements DEF DisputeRecord
  <2>5. \/ actor' = Operator /\ \E e \in Exposures : AcknowledgeDispute(e)
        \/ actor' \in Parties \ {Opener} /\ AgreeToCounterMark(actor')
    BY <1>8, <2>2, ThawStep
  <2>6. actor' # Opener /\ state' = "Active" /\ pledged' = pledged
    BY <2>4, <2>5, ActorsDiffer DEF AcknowledgeDispute, AgreeToCounterMark
  <2>7. Phase = "frozen" /\ Phase' = "open"
    BY <1>0, <1>8, <2>6, PhaseFacts, NextPhaseFacts
  <2> QED
    BY <2>2, <2>6, <2>7 DEF Promise!Thaw
<1>9. ASSUME NEW p \in Parties, AgreeToCounterMark(p)
      PROVE  Promise!Thaw
  BY <1>8, <1>9 DEF AgreeToCounterMark, Frozen
<1>10. ASSUME NEW e \in Exposures, AcknowledgeDispute(e)
      PROVE  Promise!Thaw
  BY <1>8, <1>10 DEF AcknowledgeDispute, Frozen
<1>11. CASE UNCHANGED vars
  BY <1>3, <1>11 DEF vars, Promise!Next
<1>12. CASE Next
  BY <1>12, <1>1, <1>2, <1>4, <1>5, <1>6, <1>7, <1>9, <1>10
  DEF Next, PartyNext, OperatorNext, SchedulerNext, PublishMark, PublishMarkByScheduler,
      SettleVm, SettleVmByScheduler, Promise!Next
<1> QED
  BY <1>11, <1>12

\* The contract, arithmetic and records included, does nothing that the
\* abstract margin agreement does not allow.
THEOREM Implements == Spec => KeepsPromise
<1>1. Init => Promise!Init
  BY ActorsDiffer DEF Init, Promise!Init, Phase, Frozen, Opener
<1>2. IInv /\ IInv' /\ [Next]_vars => [Promise!Next]_<<pledged, Phase, Opener, actor>>
  BY NextImplements
<1> QED
  BY <1>1, <1>2, Invariance, PTL DEF Spec, KeepsPromise, Promise!Spec

-----------------------------------------------------------------------------
(* The browsers' invariant, user by user.                                  *)

UserTyped(u) ==
  /\ page[u] \in Csas
  /\ click[u] \in Clicks(u)
  /\ effects[u] \in {0, 1}
  /\ clicks[u] \in 0..MaxClicks

\* What is under way or reported as failed has had no effect, what landed has.
Reported(u) ==
  /\ click[u].stage \in {"sent", "retrying", "adrift", "failed"} => effects[u] = 0
  /\ click[u].stage \in {"landed", "done"} => effects[u] = 1

Tried(u) ==
  /\ click[u].stage # "unused" => click[u].attempt >= 1 /\ click[u].choice \in Choices(u)
  /\ click[u].stage = "retrying" => click[u].attempt < Attempts

\* A page with the live version shows the agreement as it is, and so did the
\* page of a first attempt that names the live version.
Agrees(p) == p.state = state /\ p.csb = csb /\ p.dispute = activeDispute

Current(u) ==
  /\ page[u].fresh => Agrees(page[u])
  /\ /\ click[u].stage \in {"sent", "adrift"}
     /\ click[u].fresh
     /\ click[u].attempt = 1
     => Agrees(click[u].on)

User(u) == UserTyped(u) /\ Reported(u) /\ Tried(u) /\ Current(u)

ByUser ==
  /\ page = [u \in Users |-> page[u]]
  /\ click = [u \in Users |-> click[u]]
  /\ effects = [u \in Users |-> effects[u]]
  /\ clicks = [u \in Users |-> clicks[u]]

ClientsInv == IInv /\ ByUser /\ others \in 0..MaxOthers /\ \A u \in Users : User(u)

LEMMA ShownTyped == TypeOK => Shown \in Csas
  BY DEF TypeOK, Shown, Csas

LEMMA ClientsInitInv == ClientsInit => ClientsInv
<1> SUFFICES ASSUME ClientsInit PROVE ClientsInv
  OBVIOUS
<1>1. IInv /\ TypeOK
  BY InitIInv DEF ClientsInit, IInv
<1>2. ASSUME NEW u \in Users PROVE User(u)
  <2>1. /\ page[u] = Shown
        /\ click[u] = [choice |-> NoChoice, fresh |-> FALSE, attempt |-> 0,
                       on |-> Shown, stage |-> "unused"]
        /\ effects[u] = 0 /\ clicks[u] = 0
    BY DEF ClientsInit
  <2>2. UserTyped(u)
    BY <1>1, <2>1, ShownTyped, ClientsAssumption DEF UserTyped, Clicks, Over
  <2> QED
    BY <2>1, <2>2 DEF User, Reported, Tried, Current, Agrees, Shown
<1> QED
  BY <1>1, <1>2, ClientsAssumption DEF ClientsInv, ByUser, ClientsInit

-----------------------------------------------------------------------------
(* The steps.                                                              *)

\* Another user's step that exercises nothing.
LEMMA OthersUser ==
  ASSUME NEW u \in Users, User(u), UNCHANGED vars, page'[u] = page[u],
         click'[u] = click[u], effects'[u] = effects[u], clicks'[u] = clicks[u]
  PROVE  User(u)'
  BY DEF User, UserTyped, Reported, Tried, Current, Agrees, vars

\* Another's exercise.
LEMMA StaleUser ==
  ASSUME NEW u \in Users, User(u), page'[u] = [page[u] EXCEPT !.fresh = FALSE],
         click'[u] = [click[u] EXCEPT !.fresh = FALSE],
         effects'[u] = effects[u], clicks'[u] = clicks[u]
  PROVE  User(u)'
<1>1. UserTyped(u)'
  BY DEF User, UserTyped, Csas, Clicks
<1>2. page'[u].fresh = FALSE /\ click'[u].fresh = FALSE
  BY DEF User, UserTyped, Csas, Clicks
<1>3. /\ click'[u].stage = click[u].stage
      /\ click'[u].attempt = click[u].attempt
      /\ click'[u].choice = click[u].choice
  BY DEF User, UserTyped, Clicks
<1> QED
  BY <1>1, <1>2, <1>3 DEF User, Reported, Tried, Current

\* The user's own step.
LEMMA PollUser ==
  ASSUME NEW u \in Users, TypeOK, ByUser, User(u), Poll(u) PROVE User(u)'
<1>1. page'[u] = Shown
  BY DEF Poll, ByUser
<1>2. UserTyped(u)'
  BY <1>1, ShownTyped DEF Poll, User, UserTyped
<1> QED
  BY <1>1, <1>2 DEF Poll, User, Reported, Tried, Current, Agrees, Shown, vars

LEMMA ConfirmUser ==
  ASSUME NEW u \in Users, ByUser, User(u), NEW choice \in Choices(u), Confirm(u, choice)
  PROVE  User(u)'
<1>1. /\ click'[u] = [choice |-> choice, fresh |-> FirstCid(u), attempt |-> 1,
                      on |-> page[u], stage |-> "sent"]
      /\ effects'[u] = 0 /\ clicks'[u] = clicks[u] + 1 /\ clicks[u] < MaxClicks
      /\ page' = page /\ UNCHANGED vars
  BY DEF Confirm, ByUser
<1>2. click'[u] \in Clicks(u)
  BY <1>1, ClientsAssumption DEF User, UserTyped, Clicks, FirstCid, Csas
<1>3. UserTyped(u)'
  BY <1>1, <1>2, ClientsAssumption DEF User, UserTyped
<1> QED
  BY <1>1, <1>3 DEF User, Reported, Tried, Current, Agrees, FirstCid, vars

LEMMA GoesUser ==
  ASSUME NEW u \in Users, ByUser, User(u), NEW from, NEW to, Goes(u, from, to),
         <<from, to>> \in {<<"landed", "done">>, <<"sent", "failed">>, <<"sent", "retrying">>,
                           <<"retrying", "failed">>, <<"sent", "adrift">>,
                           <<"landed", "timed out">>, <<"adrift", "timed out">>},
         to = "retrying" => click[u].attempt < Attempts
  PROVE  User(u)'
<1>1. click'[u] = [click[u] EXCEPT !.stage = to] /\ click[u].stage = from
  BY DEF Goes, ByUser
<1>2. /\ click'[u].stage = to /\ click'[u].fresh = click[u].fresh
      /\ click'[u].attempt = click[u].attempt /\ click'[u].choice = click[u].choice
      /\ click'[u].on = click[u].on
  BY <1>1 DEF User, UserTyped, Clicks
<1>3. click'[u] \in Clicks(u)
  BY <1>1 DEF User, UserTyped, Clicks, Over
<1>4. UserTyped(u)'
  BY <1>3 DEF Goes, User, UserTyped
<1> QED
  BY <1>1, <1>2, <1>4 DEF Goes, User, Reported, Tried, Current, Agrees, vars

LEMMA RetriesUser ==
  ASSUME NEW u \in Users, ByUser, User(u), Retries(u) PROVE User(u)'
<1>1. click'[u] = [click[u] EXCEPT !.stage = "sent", !.fresh = TRUE, !.attempt = @ + 1]
  BY DEF Retries, ByUser
<1>2. click[u].stage = "retrying" /\ click[u].attempt \in 1..(Attempts - 1)
  BY ClientsAssumption DEF Retries, User, UserTyped, Clicks, Tried
<1>3. /\ click'[u].stage = "sent" /\ click'[u].attempt = click[u].attempt + 1
      /\ click'[u].choice = click[u].choice
  BY <1>1 DEF User, UserTyped, Clicks
<1>4. click'[u] \in Clicks(u)
  <2>1. click[u].attempt + 1 \in 0..Attempts
    BY <1>2, ClientsAssumption
  <2>2. click[u] \in Clicks(u) /\ click'[u] = [click[u] EXCEPT !.stage = "sent", !.fresh = TRUE,
                                                              !.attempt = click[u].attempt + 1]
    BY <1>1 DEF User, UserTyped
  <2> QED
    BY <2>1, <2>2 DEF Clicks
<1>5. UserTyped(u)'
  BY <1>4 DEF Retries, User, UserTyped
<1> QED
  BY <1>2, <1>3, <1>5 DEF Retries, User, Reported, Tried, Current, Agrees, vars

LEMMA LandsUser ==
  ASSUME NEW u \in Users, ByUser, User(u), Lands(u) PROVE User(u)'
<1> DEFINE after == IF click[u].stage = "sent" THEN "landed" ELSE "timed out"
<1>1. /\ click'[u] = [click[u] EXCEPT !.fresh = FALSE, !.stage = after]
      /\ page'[u] = [page[u] EXCEPT !.fresh = FALSE]
      /\ effects'[u] = effects[u] + 1
  BY DEF Lands, Stale, ByUser, User, UserTyped, Clicks
<1>2. /\ click'[u].stage = after /\ click'[u].attempt = click[u].attempt
      /\ click'[u].choice = click[u].choice /\ page'[u].fresh = FALSE
  BY <1>1 DEF User, UserTyped, Clicks, Csas
<1>3. effects'[u] = 1 /\ after \in {"landed", "timed out"}
  <2>1. click[u].stage \in {"sent", "adrift"}
    BY DEF Lands
  <2>2. effects[u] = 0
    BY <2>1 DEF User, Reported
  <2> QED
    BY <1>1, <2>2
<1>4. click'[u] \in Clicks(u) /\ page'[u] \in Csas
  BY <1>1 DEF User, UserTyped, Clicks, Csas, Over
<1>5. UserTyped(u)'
  BY <1>3, <1>4 DEF Lands, User, UserTyped
<1> QED
  BY <1>2, <1>3, <1>5 DEF Lands, User, Reported, Tried, Current

-----------------------------------------------------------------------------
(* Whoever exercises, the agreement takes one of its own steps.            *)

LEMMA ExerciseIsChoice ==
  ASSUME NEW u \in Users, NEW choice \in Choices(u), Exercise(u, choice)
  PROVE  Next
<1>1. CASE u = Operator
  <2>1. choice[1] = "acknowledge" /\ choice[2] \in Exposures
    BY <1>1 DEF Choices
  <2>2. AcknowledgeDispute(choice[2])
    BY <2>1 DEF Exercise
  <2> QED
    BY <2>1, <2>2 DEF Next, OperatorNext
<1>2. CASE u # Operator
  <2>1. u \in Parties
    BY <1>2, ClientsAssumption
  <2>2. /\ choice[1] \in {"post", "withdraw", "dispute", "escalate", "agree"}
        /\ choice[1] \in {"post", "withdraw"} => choice[2] \in Amounts
        /\ choice[1] = "dispute" => choice[2] \in Exposures
    BY <1>2 DEF Choices
  <2>3. PartyNext(u)
    BY <2>2 DEF Exercise, PartyNext
  <2> QED
    BY <2>1, <2>3 DEF Next
<1> QED
  BY <1>1, <1>2

LEMMA ClientsStepsAreChoices ==
  ASSUME ClientsInv, [ClientsNext]_allVars
  PROVE  [Next]_vars
<1>1. ASSUME NEW u \in Users, Lands(u) PROVE Next
  <2>1. click[u].choice \in Choices(u) /\ Exercise(u, click[u].choice)
    BY <1>1 DEF ClientsInv, User, Tried, Lands
  <2> QED
    BY <2>1, ExerciseIsChoice
<1>2. ASSUME NEW u \in Users, Poll(u) \/ Retries(u) \/ \E choice \in Choices(u) : Confirm(u, choice)
      PROVE  UNCHANGED vars
  BY <1>2 DEF Poll, Retries, Confirm
<1>3. ASSUME NEW u \in Users, Answered(u) \/ Refused(u) \/ NotFound(u) \/ ResolveFails(u)
                              \/ NoAnswer(u) \/ Vanishes(u)
      PROVE  UNCHANGED vars
  BY <1>3 DEF Answered, Refused, NotFound, ResolveFails, NoAnswer, Vanishes, Goes
<1>4. ASSUME OthersExercise PROVE Next
  BY <1>4 DEF OthersExercise
<1>5. ASSUME UNCHANGED allVars PROVE UNCHANGED vars
  BY <1>5 DEF allVars
<1> QED
  BY <1>1, <1>2, <1>3, <1>4, <1>5 DEF ClientsNext

\* A step of one user leaves the others' as they were, or stale.
LEMMA OneUserSteps ==
  ASSUME ClientsInv, NEW u \in Users, User(u)',
         \/ /\ UNCHANGED <<vars, others>>
            /\ \E p : page' = [page EXCEPT ![u] = p]
            /\ \E c : click' = [click EXCEPT ![u] = c]
            /\ \E n : effects' = [effects EXCEPT ![u] = n]
            /\ \E n : clicks' = [clicks EXCEPT ![u] = n]
         \/ /\ UNCHANGED <<others, clicks>>
            /\ page' = Stale(page)
            /\ \E c : click' = [Stale(click) EXCEPT ![u] = c]
            /\ \E n : effects' = [effects EXCEPT ![u] = n]
  PROVE  ByUser' /\ others' \in 0..MaxOthers /\ \A v \in Users : User(v)'
<1>1. ByUser' /\ others' \in 0..MaxOthers
  BY DEF ClientsInv, ByUser, Stale
<1>2. ASSUME NEW v \in Users, v # u PROVE User(v)'
  <2>1. User(v) /\ ByUser
    BY DEF ClientsInv
  <2>2. effects'[v] = effects[v] /\ clicks'[v] = clicks[v]
    BY <1>2, <2>1 DEF ByUser
  <2>3. CASE UNCHANGED vars /\ page'[v] = page[v] /\ click'[v] = click[v]
    BY <2>1, <2>2, <2>3, OthersUser
  <2>4. CASE /\ page'[v] = [page[v] EXCEPT !.fresh = FALSE]
             /\ click'[v] = [click[v] EXCEPT !.fresh = FALSE]
    BY <2>1, <2>2, <2>4, StaleUser
  <2> QED
    BY <1>2, <2>1, <2>3, <2>4 DEF ByUser, Stale
<1> QED
  BY <1>1, <1>2

LEMMA ClientsNextInv ==
  ASSUME ClientsInv, [ClientsNext]_allVars
  PROVE  ClientsInv'
<1> USE DEF ClientsInv
<1>1. IInv' /\ TypeOK
  BY ClientsStepsAreChoices, NextTypeOK, NextMarksInOrder, NextDisputeConsistency, NextNoOverdraw
  DEF IInv
<1> DEFINE Rest == ByUser' /\ others' \in 0..MaxOthers /\ \A v \in Users : User(v)'
<1>2. ASSUME NEW u \in Users, Poll(u) PROVE Rest
  <2>1. /\ UNCHANGED <<vars, others>> /\ page' = [page EXCEPT ![u] = Shown]
        /\ click' = [click EXCEPT ![u] = click[u]]
        /\ effects' = [effects EXCEPT ![u] = effects[u]]
        /\ clicks' = [clicks EXCEPT ![u] = clicks[u]]
    BY <1>2 DEF Poll, ByUser
  <2> QED
    BY <1>1, <1>2, <2>1, PollUser, OneUserSteps
<1>3. ASSUME NEW u \in Users, NEW choice \in Choices(u), Confirm(u, choice) PROVE Rest
  <2>1. /\ UNCHANGED <<vars, others>> /\ page' = [page EXCEPT ![u] = page[u]]
        /\ click' = [click EXCEPT ![u] = [choice |-> choice, fresh |-> FirstCid(u), attempt |-> 1,
                                          on |-> page[u], stage |-> "sent"]]
        /\ effects' = [effects EXCEPT ![u] = 0]
        /\ clicks' = [clicks EXCEPT ![u] = clicks[u] + 1]
    BY <1>3 DEF Confirm, ByUser
  <2> QED
    BY <1>3, <2>1, ConfirmUser, OneUserSteps
<1>4. ASSUME NEW u \in Users, NEW from, NEW to, Goes(u, from, to), User(u)' PROVE Rest
  <2>1. /\ UNCHANGED <<vars, others>> /\ page' = [page EXCEPT ![u] = page[u]]
        /\ click' = [click EXCEPT ![u] = [click[u] EXCEPT !.stage = to]]
        /\ effects' = [effects EXCEPT ![u] = effects[u]]
        /\ clicks' = [clicks EXCEPT ![u] = clicks[u]]
    BY <1>4 DEF Goes, ByUser
  <2> QED
    BY <1>4, <2>1, OneUserSteps
<1>5. ASSUME NEW u \in Users, Retries(u) PROVE Rest
  <2>1. /\ UNCHANGED <<vars, others>> /\ page' = [page EXCEPT ![u] = page[u]]
        /\ \E c : click' = [click EXCEPT ![u] = c]
        /\ effects' = [effects EXCEPT ![u] = effects[u]]
        /\ clicks' = [clicks EXCEPT ![u] = clicks[u]]
    BY <1>5 DEF Retries, ByUser
  <2> QED
    BY <1>5, <2>1, RetriesUser, OneUserSteps
<1>6. ASSUME NEW u \in Users, Lands(u) PROVE Rest
  <2>1. /\ UNCHANGED <<others, clicks>> /\ page' = Stale(page)
        /\ \E c : click' = [Stale(click) EXCEPT ![u] = c]
        /\ effects' = [effects EXCEPT ![u] = effects[u] + 1]
    BY <1>6 DEF Lands
  <2> QED
    BY <1>6, <2>1, LandsUser, OneUserSteps
<1>7. ASSUME NEW u \in Users, Answered(u) \/ ResolveFails(u) \/ Vanishes(u) \/ NoAnswer(u)
      PROVE  Rest
  <2>1. PICK from, to : /\ Goes(u, from, to)
                        /\ <<from, to>> \in {<<"landed", "done">>, <<"retrying", "failed">>,
                                             <<"adrift", "timed out">>, <<"sent", "adrift">>,
                                             <<"landed", "timed out">>}
    BY <1>7 DEF Answered, ResolveFails, Vanishes, NoAnswer
  <2> QED
    BY <1>4, <2>1, GoesUser
<1>8. ASSUME NEW u \in Users, Refused(u) PROVE Rest
  BY <1>4, <1>8, GoesUser DEF Refused
<1>9. ASSUME NEW u \in Users, NotFound(u) PROVE Rest
  <2>1. CASE click[u].attempt < Attempts
    BY <1>4, <1>9, <2>1, GoesUser DEF NotFound
  <2>2. CASE ~(click[u].attempt < Attempts)
    BY <1>4, <1>9, <2>2, GoesUser DEF NotFound
  <2> QED
    BY <2>1, <2>2
<1>10. ASSUME OthersExercise PROVE Rest
  <2>1. ASSUME NEW v \in Users PROVE User(v)'
    BY <1>10, StaleUser DEF OthersExercise, Stale
  <2>2. ByUser' /\ others' \in 0..MaxOthers
    BY <1>10, ClientsAssumption DEF OthersExercise, Stale, ByUser
  <2> QED
    BY <2>1, <2>2
<1>11. ASSUME UNCHANGED allVars PROVE Rest
  BY <1>11, OthersUser DEF allVars, clientVars, ByUser
<1> QED
  BY <1>1, <1>2, <1>3, <1>5, <1>6, <1>7, <1>8, <1>9, <1>10, <1>11 DEF ClientsNext

-----------------------------------------------------------------------------
(* The browsers' theorems.                                                 *)

LEMMA ClientsInvariance == ClientsSpec => []ClientsInv
<1> QED
  BY ClientsInitInv, ClientsNextInv, PTL DEF ClientsSpec

\* Pages, clicks and their histories keep their types.
THEOREM ClientsTypeCorrect == ClientsSpec => []ClientsTypeOK
<1>1. ClientsInv => ClientsTypeOK
  BY DEF ClientsInv, ByUser, User, UserTyped, ClientsTypeOK, IInv
<1> QED
  BY <1>1, ClientsInvariance, PTL

\* Under its browsers the agreement is the agreement of Csa: all that is proved
\* of it holds.
THEOREM ClientsImplementCsa == ClientsSpec => Spec
<1>1. ClientsInv /\ [ClientsNext]_allVars => [Next]_vars
  BY ClientsStepsAreChoices
<1>2. ClientsInit => Init
  BY DEF ClientsInit
<1> QED
  BY <1>1, <1>2, ClientsInvariance, PTL DEF ClientsSpec, Spec

\* A click takes effect at most once, however often it is repeated, and is not
\* reported to have done what it did not or to have failed at what it did.
THEOREM ClicksAreReportedTruly == ClientsSpec => []ReportsAreTrue
<1>1. ClientsInv => ReportsAreTrue
  BY DEF ClientsInv, User, UserTyped, Reported, ReportsAreTrue
<1> QED
  BY <1>1, ClientsInvariance, PTL

\* Without a retry a click acts on the agreement its page showed.
THEOREM FirstAttemptsActOnThePage == ClientsSpec => ActsOnWhatItShowed
<1>1. ASSUME ClientsInv, [ClientsNext]_allVars, NEW u \in Users,
             effects'[u] > effects[u], click[u].attempt = 1
      PROVE  Agrees(click[u].on)
  <2>1. ByUser /\ User(u) /\ effects[u] \in {0, 1}
    BY <1>1 DEF ClientsInv, User, UserTyped
  <2>2. PICK v \in Users : Lands(v) \/ \E choice \in Choices(v) : Confirm(v, choice)
    <3>1. effects' # effects
      BY <1>1, <2>1
    <3>2. \A v \in Users : ~(Poll(v) \/ Retries(v) \/ Answered(v) \/ Refused(v) \/ NotFound(v)
                              \/ ResolveFails(v) \/ NoAnswer(v) \/ Vanishes(v))
      BY <3>1 DEF Poll, Retries, Answered, Refused, NotFound, ResolveFails, NoAnswer, Vanishes, Goes
    <3>3. ~OthersExercise /\ ~UNCHANGED allVars
      BY <3>1 DEF OthersExercise, allVars, clientVars
    <3> QED
      BY <1>1, <3>2, <3>3 DEF ClientsNext
  <2>3. v = u
    <3>1. PICK n : effects' = [effects EXCEPT ![v] = n]
      BY <2>2 DEF Lands, Confirm
    <3>2. v # u => effects'[u] = effects[u]
      BY <2>1, <3>1 DEF ByUser
    <3> QED
      BY <1>1, <2>1, <3>2
  <2>4. ASSUME NEW choice \in Choices(u), Confirm(u, choice) PROVE FALSE
    BY <1>1, <2>1, <2>4 DEF Confirm, ByUser
  <2> QED
    BY <1>1, <2>1, <2>2, <2>3, <2>4 DEF Lands, User, Current
<1>2. ClientsInv /\ [ClientsNext]_allVars =>
        [\A u \in Users :
           effects'[u] > effects[u] /\ click[u].attempt = 1 =>
             /\ state = click[u].on.state
             /\ csb = click[u].on.csb
             /\ activeDispute = click[u].on.dispute]_allVars
  BY <1>1 DEF Agrees
<1> QED
  BY <1>2, ClientsInvariance, PTL DEF ClientsSpec, ActsOnWhatItShowed

-----------------------------------------------------------------------------
(* The publishers: ticks hold what they may hold.                          *)

PubTyped ==
  /\ market \in Exposures
  /\ pub \in [Publishers -> Tick]
  /\ \A p \in Publishers : pub[p].pc \in {"priced", "published"} => pub[p].exposure \in Exposures

\* NoStaleAssessment, with what it takes for granted: there is a mark.
Held ==
  \A p \in Publishers : pub[p].fresh =>
    /\ pub[p].state = state
    /\ pub[p].csb = csb
    /\ pub[p].pc = "published" =>
         lastMarkCid # 0 /\ marks[lastMarkCid].exposure = pub[p].exposure

\* Between idle ticks and stale ones nothing is held.
LEMMA IdleTick == Idle \in Tick /\ Idle.fresh = FALSE /\ Idle.pc = "idle"
BY DEF Idle, Tick, CsaState

LEMMA ServiceInitHeld == ServiceInit => IInv /\ PubTyped /\ Held
<1> SUFFICES ASSUME ServiceInit PROVE IInv /\ PubTyped /\ Held
  OBVIOUS
<1>1. IInv
  BY InitIInv DEF ServiceInit
<1>2. \A p \in Publishers : pub[p] = Idle
  BY DEF ServiceInit
<1> QED
  BY <1>1, <1>2, IdleTick DEF ServiceInit, PubTyped, Held

\* Giving a tick up leaves the others as they are.
LEMMA GivenUp ==
  ASSUME PubTyped, NEW p \in Publishers, GiveUp(p), UNCHANGED market
  PROVE  /\ PubTyped'
         /\ \A q \in Publishers : pub'[q].fresh => pub'[q] = pub[q]
<1>1. \A q \in Publishers : pub'[q] = pub[q] \/ pub'[q] = Idle
  BY DEF GiveUp, PubTyped
<1> QED
  BY <1>1, IdleTick DEF GiveUp, PubTyped

\* A choice leaves nobody with a fresh version.
LEMMA RotatedTyped ==
  ASSUME PubTyped
  PROVE  /\ Rotated \in [Publishers -> Tick]
         /\ \A p \in Publishers : /\ Rotated[p].fresh = FALSE
                                  /\ Rotated[p].pc = pub[p].pc
                                  /\ Rotated[p].state = pub[p].state
                                  /\ Rotated[p].csb = pub[p].csb
                                  /\ Rotated[p].exposure = pub[p].exposure
<1>1. ASSUME NEW t \in Tick
      PROVE  LET u == [t EXCEPT !.fresh = FALSE] IN
             /\ u \in Tick
             /\ u.fresh = FALSE
             /\ u.pc = t.pc /\ u.state = t.state /\ u.csb = t.csb /\ u.exposure = t.exposure
  BY DEF Tick
<1> QED
  BY <1>1 DEF Rotated, PubTyped

-----------------------------------------------------------------------------
(* One step per action of the service.                                     *)

LEMMA ReadHeld ==
  ASSUME IInv, PubTyped, Held, NEW p \in Publishers, ReadCsa(p)
  PROVE  PubTyped' /\ Held'
<1> DEFINE t == [pc |-> "read", fresh |-> TRUE, state |-> state, csb |-> csb, exposure |-> 0]
<1>1. t \in Tick
  BY DEF Tick, IInv, TypeOK
<1>2. \A q \in Publishers : pub'[q] = IF q = p THEN t ELSE pub[q]
  BY DEF ReadCsa, PubTyped
<1>3. t.pc = "read" /\ t.state = state /\ t.csb = csb
  OBVIOUS
<1>4. pub' \in [Publishers -> Tick]
  BY <1>1 DEF ReadCsa, PubTyped
<1> HIDE DEF t
<1>5. PubTyped'
  BY <1>2, <1>3, <1>4 DEF ReadCsa, PubTyped
<1>6. Held'
  BY <1>2, <1>3 DEF ReadCsa, Held, vars
<1> QED
  BY <1>5, <1>6

LEMMA PriceHeld ==
  ASSUME PubTyped, Held, NEW p \in Publishers, ComputeMark(p)
  PROVE  PubTyped' /\ Held'
<1>1. market \in Int
  BY CsaParameters DEF PubTyped
<1>2. ASSUME NEW t \in Tick
      PROVE  LET u == [t EXCEPT !.pc = "priced", !.exposure = market] IN
             /\ u \in Tick
             /\ u.pc = "priced" /\ u.exposure = market
             /\ u.fresh = t.fresh /\ u.state = t.state /\ u.csb = t.csb
  BY <1>1 DEF Tick
<1> DEFINE t == [pub[p] EXCEPT !.pc = "priced", !.exposure = market]
<1>3. pub' = [pub EXCEPT ![p] = t]
  BY DEF ComputeMark
<1>4. pub[p] \in Tick
  BY DEF PubTyped
<1>5. /\ t \in Tick
      /\ t.pc = "priced" /\ t.exposure = market
      /\ t.fresh = pub[p].fresh /\ t.state = pub[p].state /\ t.csb = pub[p].csb
  BY <1>2, <1>4
<1> HIDE DEF t
<1>6. \A q \in Publishers : pub'[q] = IF q = p THEN t ELSE pub[q]
  BY <1>3 DEF PubTyped
<1>7. pub' \in [Publishers -> Tick]
  BY <1>3, <1>5 DEF PubTyped
<1>8. PubTyped'
  BY <1>5, <1>6, <1>7 DEF ComputeMark, PubTyped
<1>9. Held'
  <2> SUFFICES ASSUME NEW q \in Publishers, pub'[q].fresh
               PROVE  /\ pub'[q].state = state /\ pub'[q].csb = csb
                      /\ pub'[q].pc = "published" =>
                           lastMarkCid # 0 /\ marks[lastMarkCid].exposure = pub'[q].exposure
    BY DEF ComputeMark, Held, vars
  <2>1. CASE q = p
    <3>1. pub[p].fresh
      BY <1>5, <1>6, <2>1
    <3> QED
      BY <1>5, <1>6, <2>1, <3>1 DEF Held
  <2>2. CASE q # p
    BY <1>6, <2>2 DEF Held
  <2> QED
    BY <2>1, <2>2
<1> QED
  BY <1>8, <1>9

LEMMA PublishHeld ==
  ASSUME IInv, PubTyped, Held, NEW p \in Publishers, ExercisePublishMark(p)
  PROVE  PubTyped' /\ Held'
<1>1. pub[p].exposure \in Exposures /\ pub[p].fresh
  BY DEF ExercisePublishMark, PubTyped
<1>2. CreateMark(pub[p].exposure, IF Frozen THEN "frozen" ELSE "tick") /\ UNCHANGED <<state, csb>>
  BY DEF ExercisePublishMark, PublishMark, PublishMarkImpl
<1>3. lastMarkCid' # 0 /\ marks'[lastMarkCid'].exposure = pub[p].exposure
  <2>1. (IF Frozen THEN "frozen" ELSE "tick") \in Origins
    BY DEF Origins
  <2> DEFINE o == IF Frozen THEN "frozen" ELSE "tick"
  <2> HIDE DEF o
  <2>2. CreateMark(pub[p].exposure, o) /\ o \in Origins
    BY <1>2, <2>1 DEF o
  <2>3. TypeOK
    BY DEF IInv
  <2>4. /\ lastMarkCid' \in Nat \ {0}
        /\ marks'[lastMarkCid'] = [exposure |-> pub[p].exposure, origin |-> o]
    BY <1>1, <2>2, <2>3, CreateMarkFacts
  <2> QED
    BY <2>4
<1> DEFINE t == [Rotated[p] EXCEPT !.pc = "published", !.fresh = TRUE]
<1>4. pub' = [Rotated EXCEPT ![p] = t]
  BY DEF ExercisePublishMark
<1>5. Rotated[p] \in Tick
  BY RotatedTyped
<1>6. /\ t \in Tick
      /\ t.pc = "published" /\ t.exposure = Rotated[p].exposure
      /\ t.state = Rotated[p].state /\ t.csb = Rotated[p].csb
  BY <1>5 DEF Tick
<1> HIDE DEF t
<1>7. \A q \in Publishers : pub'[q] = IF q = p THEN t ELSE Rotated[q]
  BY <1>4, RotatedTyped
<1>8. pub' \in [Publishers -> Tick]
  BY <1>4, <1>6, RotatedTyped
<1>9. PubTyped'
  BY <1>1, <1>6, <1>7, <1>8, RotatedTyped DEF ExercisePublishMark, PubTyped
<1>10. Held'
  <2>1. state' = state /\ csb' = csb
    BY <1>2
  <2>2. \A q \in Publishers : q # p => pub'[q].fresh = FALSE
    BY <1>7, RotatedTyped
  <2>3. /\ pub[p].state = state /\ pub[p].csb = csb
    BY <1>1 DEF Held
  <2>4. /\ pub'[p] = t /\ t.state = state /\ t.csb = csb
        /\ t.exposure = pub[p].exposure
    BY <1>6, <1>7, <2>3, RotatedTyped
  <2>5. /\ pub'[p].state = state' /\ pub'[p].csb = csb'
        /\ lastMarkCid' # 0 /\ marks'[lastMarkCid'].exposure = pub'[p].exposure
    BY <1>3, <2>1, <2>4
  <2> QED
    BY <2>2, <2>5 DEF Held
<1> QED
  BY <1>9, <1>10

\* The tick gives up and the agreement does not move.
LEMMA GiveUpHeld ==
  ASSUME PubTyped, Held, NEW p \in Publishers, GiveUp(p), UNCHANGED <<vars, market>>
  PROVE  PubTyped' /\ Held'
<1>1. PubTyped' /\ \A q \in Publishers : pub'[q].fresh => pub'[q] = pub[q]
  BY GivenUp
<1> QED
  BY <1>1 DEF Held, vars

\* Somebody exercises a choice, and nobody is left with a fresh version.
LEMMA NoneFreshHeld ==
  ASSUME PubTyped', \A q \in Publishers : pub'[q].fresh = FALSE
  PROVE  Held'
BY DEF Held

LEMMA SettleHeld ==
  ASSUME PubTyped, NEW p \in Publishers, ExerciseSettleVm(p)
  PROVE  PubTyped' /\ Held'
<1>1. pub' = [Rotated EXCEPT ![p] = Idle] /\ UNCHANGED market
  BY DEF ExerciseSettleVm
<1>2. \A q \in Publishers : pub'[q] = IF q = p THEN Idle ELSE Rotated[q]
  BY <1>1, RotatedTyped
<1>3. pub' \in [Publishers -> Tick]
  BY <1>1, IdleTick, RotatedTyped
<1>4. PubTyped'
  BY <1>1, <1>2, <1>3, IdleTick, RotatedTyped DEF PubTyped
<1> QED
  BY <1>2, <1>4, IdleTick, RotatedTyped, NoneFreshHeld

LEMMA OthersHeld ==
  ASSUME PubTyped, OtherExercises
  PROVE  PubTyped' /\ Held'
<1>1. pub' = Rotated /\ UNCHANGED market
  BY DEF OtherExercises
<1>2. PubTyped'
  BY <1>1, RotatedTyped DEF PubTyped
<1> QED
  BY <1>1, <1>2, RotatedTyped, NoneFreshHeld

\* Whatever the service does, the agreement takes one of its own steps.
LEMMA ServiceStepsAreChoices ==
  ASSUME PubTyped, [ServiceNext]_fullVars
  PROVE  [Next]_vars
<1>1. ASSUME NEW p \in Publishers, ExercisePublishMark(p) PROVE Next
  <2>1. pub[p].exposure \in Exposures
    BY <1>1 DEF ExercisePublishMark, PubTyped
  <2> QED
    BY <1>1, <2>1 DEF ExercisePublishMark, Next, OperatorNext
<1>2. ASSUME NEW p \in Publishers, ExerciseSettleVm(p) PROVE Next
  BY <1>2 DEF ExerciseSettleVm, Next, OperatorNext
<1>3. ASSUME OtherExercises PROVE Next
  BY <1>3 DEF OtherExercises, Next, OperatorNext
<1>4. ASSUME NEW p \in Publishers,
             ReadCsa(p) \/ ComputeMark(p) \/ SkipSettle(p) \/ ExerciseFails(p) \/ LoseTick(p)
      PROVE  UNCHANGED vars
  BY <1>4 DEF ReadCsa, ComputeMark, SkipSettle, ExerciseFails, LoseTick
<1>5. ASSUME MarketMoves \/ UNCHANGED fullVars PROVE UNCHANGED vars
  BY <1>5 DEF MarketMoves, fullVars
<1>6. Service \in Publishers /\ Stray \in Publishers
  BY DEF Publishers
<1> QED
  BY <1>1, <1>2, <1>3, <1>4, <1>5, <1>6 DEF ServiceNext, StartTick, StrayTick, GoOn

LEMMA ServiceNextHeld ==
  ASSUME IInv, PubTyped, Held, [ServiceNext]_fullVars
  PROVE  IInv' /\ PubTyped' /\ Held'
<1>1. IInv'
  BY ServiceStepsAreChoices, NextTypeOK, NextMarksInOrder, NextDisputeConsistency, NextNoOverdraw
  DEF IInv
<1>2. Service \in Publishers /\ Stray \in Publishers
  BY DEF Publishers
<1>3. ASSUME StartTick \/ StrayTick PROVE PubTyped' /\ Held'
  BY <1>2, <1>3, ReadHeld DEF StartTick, StrayTick
<1>4. ASSUME NEW p \in Publishers, GoOn(p) PROVE PubTyped' /\ Held'
  <2>1. CASE SkipSettle(p) \/ ExerciseFails(p)
    BY <2>1, GiveUpHeld DEF SkipSettle, ExerciseFails
  <2> QED
    BY <1>4, <2>1, PriceHeld, PublishHeld, SettleHeld DEF GoOn
<1>5. ASSUME NEW p \in Publishers, LoseTick(p) PROVE PubTyped' /\ Held'
  BY <1>5, GiveUpHeld DEF LoseTick
<1>6. ASSUME MarketMoves PROVE PubTyped' /\ Held'
  BY <1>6 DEF MarketMoves, PubTyped, Held, vars
<1>7. ASSUME UNCHANGED fullVars PROVE PubTyped' /\ Held'
  BY <1>7 DEF fullVars, serviceVars, vars, PubTyped, Held
<1> QED
  BY <1>1, <1>3, <1>4, <1>5, <1>6, <1>7, OthersHeld DEF ServiceNext

-----------------------------------------------------------------------------
(* The publishers' theorems.                                               *)

LEMMA ServiceInvariance == ServiceSpec => [](IInv /\ PubTyped /\ Held)
<1>1. IInv /\ PubTyped /\ Held /\ [ServiceNext]_fullVars => (IInv /\ PubTyped /\ Held)'
  BY ServiceNextHeld
<1> QED
  BY <1>1, ServiceInitHeld, PTL DEF ServiceSpec

\* Beside its publishers, and whatever they and the faults do to each other,
\* the agreement is the agreement of Csa: all that is proved of it holds.
THEOREM ServiceImplementsCsa == ServiceSpec => Spec
<1>1. PubTyped /\ [ServiceNext]_fullVars => [Next]_vars
  BY ServiceStepsAreChoices
<1>2. ServiceInit => Init
  BY DEF ServiceInit
<1> QED
  BY <1>1, <1>2, ServiceInvariance, PTL DEF ServiceSpec, Spec

\* A tick whose next exercise can succeed knows the agreement as it is.
THEOREM NothingStaleIsAssessed == ServiceSpec => []NoStaleAssessment
<1>1. Held => NoStaleAssessment
  BY DEF Held, NoStaleAssessment
<1> QED
  BY <1>1, ServiceInvariance, PTL

\* The publisher's rounding finds no call only where the ledger's finds none,
\* if half an increment is less than the minimum transfer amount.
LEMMA NoCallByEither ==
  ASSUME NEW raw \in Int, NEW mta \in Nat, NEW rounding \in Nat, 2 * mta > rounding,
         TsGateCall(raw, mta, rounding) = 0
  PROVE  GateCall(raw, mta, rounding) = 0
<1>1. CASE Abs(raw) < mta
  BY <1>1 DEF GateCall
<1>2. CASE ~(Abs(raw) < mta) /\ rounding = 0
  BY <1>2 DEF GateCall, TsGateCall
<1>3. CASE ~(Abs(raw) < mta) /\ rounding # 0
  <2> DEFINE q == MathRound(raw, rounding)
  <2>1. \A m \in Int, k \in Nat \ {0} :
          m \div k \in Int /\ k * (m \div k) <= m /\ m < k * (m \div k) + k
    BY Z3
  <2>2. 2 * raw + rounding \in Int /\ 2 * rounding \in Nat \ {0}
    BY <1>3
  <2>3. q = (2 * raw + rounding) \div (2 * rounding)
    BY DEF MathRound
  <2>4. q \in Int /\ (2 * rounding) * q <= 2 * raw + rounding
        /\ 2 * raw + rounding < (2 * rounding) * q + 2 * rounding
    BY <2>1, <2>2, <2>3
  <2>5. q * rounding = 0
    BY <1>3 DEF TsGateCall
  <2> HIDE DEF q
  <2>6. q = 0
    BY <1>3, <2>4, <2>5, Z3
  <2>7. 0 <= 2 * raw + rounding /\ 2 * raw + rounding < 2 * rounding
    BY <2>4, <2>6
  <2>8. Abs(raw) < mta
    BY <2>7 DEF Abs
  <2> QED
    BY <1>3, <2>8
<1> QED
  BY <1>1, <1>2, <1>3

\* Where the publisher leaves SettleVm out, the contract would have found
\* nothing to call and nothing to clear, whenever a call is at least half an
\* increment; with a larger increment the two roundings part on a tie.
THEOREM SkippingIsSound ==
  ASSUME 2 * Mta > Rounding
  PROVE  ServiceSpec => []SkipIsSound
<1>1. IInv /\ PubTyped /\ Held => SkipIsSound
  <2> SUFFICES ASSUME IInv, PubTyped, Held, NEW p \in Publishers,
                      pub[p].pc = "published", pub[p].fresh, SkipsSettle(pub[p]), ~Frozen
               PROVE  state = "Active" /\ LastCall(csb) = 0
    BY DEF SkipIsSound
  <2>1. pub[p].state = state /\ pub[p].csb = csb /\ lastMarkCid # 0
        /\ marks[lastMarkCid].exposure = pub[p].exposure
    BY DEF Held
  <2>2. PublisherGate(pub[p]) = 0 /\ state = "Active"
    BY <2>1 DEF SkipsSettle, Frozen
  <2> DEFINE raw == TargetCsb(marks[lastMarkCid].exposure, Threshold) - csb
  <2>3. raw \in Int
    BY <2>1, LastCallType DEF IInv, TypeOK
  <2>4. TsGateCall(raw, Mta, Rounding) = 0
    BY <2>1, <2>2 DEF PublisherGate
  <2>5. GateCall(raw, Mta, Rounding) = 0
    BY <2>3, <2>4, NoCallByEither, CsaParameters
  <2> QED
    BY <2>2, <2>5 DEF LastCall, CallUnder
<1> QED
  BY <1>1, ServiceInvariance, PTL

=============================================================================
