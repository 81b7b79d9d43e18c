-------------------------- MODULE ValuationProofs ---------------------------
(***************************************************************************)
(* Proofs about what a swap is shown to be worth, of any swaps in any      *)
(* market: what its coupons accrue, that its values follow its payments    *)
(* and that its readers agree on it.                                       *)
(*                                                                         *)
(* Everything is a sum, so the facts about sums come first; then what a    *)
(* leg accrues and pays, how its readers see it, the calendar and, last,   *)
(* what a day adds.                                                        *)
(***************************************************************************)
EXTENDS SwapValues, FiniteSetTheorems, WellFoundedInduction, TLAPS

-----------------------------------------------------------------------------
(* Induction and sums.                                                     *)

\* Any set of naturals has a least.
LEMMA LeastNat ==
  ASSUME NEW S \in SUBSET Nat, S # {}
  PROVE  \E n \in S : \A m \in S : n <= m
<1>1. PICK n \in S : \A m \in S : ~(<<m, n>> \in OpToRel(<, Nat))
  BY NatLessThanWellFounded, WFMin
<1>2. \A m \in S : ~(m < n)
  BY <1>1 DEF OpToRel
<1> QED
  BY <1>2

\* What holds at 0 and passes from each number to the next holds of all.
LEMMA AllReached ==
  ASSUME NEW S, NEW n \in Nat, 0 \in S, \A k \in 1..n : k - 1 \in S => k \in S
  PROVE  0..n \subseteq S
<1> DEFINE Missed == {k \in 0..n : k \notin S}
<1> SUFFICES ASSUME Missed # {} PROVE FALSE
  OBVIOUS
<1>1. Missed \in SUBSET Nat
  OBVIOUS
<1>2. PICK k \in Missed : \A m \in Missed : k <= m
  <2> HIDE DEF Missed
  <2> QED
    BY <1>1, LeastNat
<1>3. k # 0 /\ k \in 1..n
  BY <1>2
<1>4. k - 1 \in 0..n /\ ~(k <= k - 1)
  BY <1>3
<1>5. k - 1 \in S
  BY <1>2, <1>4
<1> QED
  BY <1>2, <1>3, <1>5

\* What a finite set has whenever it is had by every set that lacks one of its elements.
LEMMA AllSubsets ==
  ASSUME NEW S, IsFiniteSet(S), NEW F,
         \A T \in SUBSET S : (\A x \in T : T \ {x} \in F) => T \in F
  PROVE  SUBSET S \subseteq F
<1> DEFINE Missed == {T \in SUBSET S : T \notin F}
           Sizes == {Cardinality(T) : T \in Missed}
<1> SUFFICES ASSUME Missed # {} PROVE FALSE
  OBVIOUS
<1>1. \A T \in SUBSET S : IsFiniteSet(T) /\ Cardinality(T) \in Nat
  BY FS_Subset, FS_CardinalityType
<1>2. Sizes \in SUBSET Nat /\ Sizes # {}
  BY <1>1
<1>3. PICK n \in Sizes : \A m \in Sizes : n <= m
  BY <1>2, LeastNat
<1>4. PICK T \in Missed : n = Cardinality(T)
  BY <1>3
<1>5. \A x \in T : T \ {x} \in F
  <2> SUFFICES ASSUME NEW x \in T, T \ {x} \in Missed PROVE FALSE
    OBVIOUS
  <2>1. Cardinality(T \ {x}) = Cardinality(T) - 1
    BY <1>1, FS_RemoveElement
  <2>2. n <= Cardinality(T \ {x})
    BY <1>3
  <2> QED
    BY <1>1, <1>4, <2>1, <2>2
<1> QED
  BY <1>4, <1>5

\* g is the sum over each subset of S that adds f up in the order CHOOSE has it.
Chosen(T) == CHOOSE x \in T : TRUE

Adds(g, f, S) ==
  g = [T \in SUBSET S |-> IF T = {} THEN 0 ELSE f[Chosen(T)] + g[T \ {Chosen(T)}]]

LEMMA ChosenIn ==
  ASSUME NEW T, T # {} PROVE Chosen(T) \in T
BY DEF Chosen

LEMMA SumOfFold ==
  ASSUME NEW f, NEW S
  PROVE  SumFunctionOnSet(f, S) = (CHOOSE g : Adds(g, f, S))[S]
BY DEF SumFunctionOnSet, FoldFunctionOnSet, MapThenFoldSet, Adds, Chosen

LEMMA OneSum ==
  ASSUME NEW f, NEW S, NEW R, NEW g, NEW h, Adds(g, f, S), Adds(h, f, R), IsFiniteSet(S), S \subseteq R
  PROVE  g[S] = h[S]
<1> DEFINE F == {T \in SUBSET S : g[T] = h[T]}
<1>1. ASSUME NEW T \in SUBSET S, \A x \in T : T \ {x} \in F PROVE T \in F
  <2>1. CASE T = {}
    BY <2>1 DEF Adds
  <2>2. CASE T # {}
    <3>1. Chosen(T) \in T
      BY <2>2, ChosenIn
    <3>2. g[T \ {Chosen(T)}] = h[T \ {Chosen(T)}]
      BY <1>1, <3>1
    <3>3. g[T] = f[Chosen(T)] + g[T \ {Chosen(T)}]
      BY <2>2 DEF Adds
    <3>4. h[T] = f[Chosen(T)] + h[T \ {Chosen(T)}]
      BY <2>2 DEF Adds
    <3> QED
      BY <3>2, <3>3, <3>4
  <2> QED
    BY <2>1, <2>2
<1>2. SUBSET S \subseteq F
  <2> HIDE DEF F
  <2> QED
    BY <1>1, AllSubsets
<1> QED
  BY <1>2

LEMMA SumExists ==
  ASSUME NEW f, NEW S, IsFiniteSet(S)
  PROVE  \E g : Adds(g, f, S)
<1> DEFINE Small(n) == {T \in SUBSET S : Cardinality(T) <= n}
           Rule(g, n) == g = [T \in Small(n) |-> IF T = {} THEN 0
                                ELSE f[Chosen(T)] + g[T \ {Chosen(T)}]]
           Good == {n \in Nat : \E g : Rule(g, n)}
<1>1. \A T \in SUBSET S : IsFiniteSet(T) /\ Cardinality(T) \in Nat /\ Cardinality(T) <= Cardinality(S)
  BY FS_Subset, FS_CardinalityType
<1>2. 0 \in Good
  <2>1. \A T \in Small(0) : T = {}
    BY <1>1, FS_EmptySet
  <2> DEFINE g == [T \in Small(0) |-> 0]
  <2>2. Rule(g, 0)
    BY <2>1
  <2> QED
    BY <2>2
<1>3. ASSUME NEW n \in 1..Cardinality(S), n - 1 \in Good PROVE n \in Good
  <2>1. PICK g : Rule(g, n - 1)
    BY <1>3
  <2> DEFINE h == [T \in Small(n) |-> IF T = {} THEN 0 ELSE f[Chosen(T)] + g[T \ {Chosen(T)}]]
  <2>2. ASSUME NEW T \in Small(n), T # {} PROVE g[T \ {Chosen(T)}] = h[T \ {Chosen(T)}]
    <3>1. Chosen(T) \in T
      BY <2>2, ChosenIn
    <3> DEFINE U == T \ {Chosen(T)}
    <3>2. Cardinality(U) = Cardinality(T) - 1
      BY <1>1, <3>1, FS_RemoveElement
    <3>3. U \in Small(n - 1) /\ U \in Small(n)
      BY <1>1, <3>2
    <3>4. g[U] = IF U = {} THEN 0 ELSE f[Chosen(U)] + g[U \ {Chosen(U)}]
      <4> HIDE DEF U
      <4> QED
        BY <2>1, <3>3
    <3>5. h[U] = IF U = {} THEN 0 ELSE f[Chosen(U)] + g[U \ {Chosen(U)}]
      <4> HIDE DEF U
      <4> QED
        BY <3>3
    <3> QED
      BY <3>4, <3>5
  <2>3. Rule(h, n)
    <3> SUFFICES ASSUME NEW T \in Small(n), T # {}
                 PROVE  g[T \ {Chosen(T)}] = h[T \ {Chosen(T)}]
      OBVIOUS
    <3> QED
      BY <2>2
  <2> HIDE DEF Rule, h
  <2>4. \E e : Rule(e, n)
    BY <2>3
  <2> QED
    BY <2>4
<1>4. Cardinality(S) \in Nat
  BY FS_CardinalityType
<1>5. Cardinality(S) \in Good
  <2> HIDE DEF Good
  <2>1. 0..Cardinality(S) \subseteq Good
    BY <1>2, <1>3, <1>4, AllReached
  <2> QED
    BY <1>4, <2>1
<1>6. Small(Cardinality(S)) = SUBSET S
  BY <1>1
<1> QED
  BY <1>5, <1>6 DEF Adds

LEMMA SumRule ==
  ASSUME NEW f, NEW S, IsFiniteSet(S)
  PROVE  \A T \in SUBSET S :
           SumFunctionOnSet(f, T) =
             IF T = {} THEN 0 ELSE f[Chosen(T)] + SumFunctionOnSet(f, T \ {Chosen(T)})
<1>1. PICK g : Adds(g, f, S)
  BY SumExists
<1>2. ASSUME NEW T \in SUBSET S PROVE SumFunctionOnSet(f, T) = g[T]
  <2>1. IsFiniteSet(T)
    BY FS_Subset
  <2>2. Adds(CHOOSE h : Adds(h, f, T), f, T)
    BY <2>1, SumExists
  <2> QED
    BY <1>1, <2>1, <2>2, SumOfFold, OneSum
<1> QED
  BY <1>1, <1>2 DEF Adds

\* The sum over nothing is 0.
LEMMA SumOfNone ==
  ASSUME NEW f
  PROVE  SumFunctionOnSet(f, {}) = 0
BY SumRule, FS_EmptySet

\* The sum is an integer, and any element may be taken out of it.
LEMMA SumTyped ==
  ASSUME NEW f, NEW S, IsFiniteSet(S), \A x \in S : f[x] \in Int
  PROVE  \A T \in SUBSET S : SumFunctionOnSet(f, T) \in Int
<1> DEFINE F == {T \in SUBSET S : SumFunctionOnSet(f, T) \in Int}
<1>1. ASSUME NEW T \in SUBSET S, \A x \in T : T \ {x} \in F PROVE T \in F
  <2>1. CASE T = {}
    BY <2>1, SumOfNone
  <2>2. CASE T # {}
    <3>1. Chosen(T) \in T
      BY <2>2, ChosenIn
    <3>2. SumFunctionOnSet(f, T) = f[Chosen(T)] + SumFunctionOnSet(f, T \ {Chosen(T)})
      BY <2>2, SumRule
    <3>3. SumFunctionOnSet(f, T \ {Chosen(T)}) \in Int
      BY <1>1, <3>1
    <3> QED
      BY <3>1, <3>2, <3>3
  <2> QED
    BY <2>1, <2>2
<1>2. SUBSET S \subseteq F
  <2> HIDE DEF F
  <2> QED
    BY <1>1, AllSubsets
<1> QED
  BY <1>2

LEMMA SumWithout ==
  ASSUME NEW f, NEW S, IsFiniteSet(S), \A x \in S : f[x] \in Int, NEW x \in S
  PROVE  SumFunctionOnSet(f, S) = f[x] + SumFunctionOnSet(f, S \ {x})
<1> DEFINE sum(T) == SumFunctionOnSet(f, T)
           F == {T \in SUBSET S : \A y \in T : sum(T) = f[y] + sum(T \ {y})}
<1>0. /\ \A T \in SUBSET S : sum(T) \in Int
      /\ \A T \in SUBSET S : T # {} => sum(T) = f[Chosen(T)] + sum(T \ {Chosen(T)})
  BY SumTyped, SumRule
<1> HIDE DEF sum
<1>1. ASSUME NEW T \in SUBSET S, \A y \in T : T \ {y} \in F PROVE T \in F
  <2> SUFFICES ASSUME NEW y \in T PROVE sum(T) = f[y] + sum(T \ {y})
    OBVIOUS
  <2> DEFINE c == Chosen(T)
  <2>1. c \in T
    BY ChosenIn
  <2>2. sum(T) = f[c] + sum(T \ {c})
    BY <1>0
  <2>3. CASE y = c
    BY <2>2, <2>3
  <2>4. CASE y # c
    <3>1. sum(T \ {c}) = f[y] + sum((T \ {c}) \ {y})
      BY <1>1, <2>1, <2>4
    <3>2. sum(T \ {y}) = f[c] + sum((T \ {y}) \ {c})
      BY <1>1, <2>1, <2>4
    <3>3. (T \ {c}) \ {y} = (T \ {y}) \ {c} /\ (T \ {c}) \ {y} \in SUBSET S
      OBVIOUS
    <3>4. f[c] \in Int /\ f[y] \in Int /\ sum((T \ {c}) \ {y}) \in Int
      BY <1>0, <2>1, <3>3
    <3> DEFINE rest == sum((T \ {c}) \ {y})
    <3>5. /\ sum(T) = f[c] + (f[y] + rest)
          /\ sum(T \ {y}) = f[c] + rest
          /\ f[c] \in Int /\ f[y] \in Int /\ rest \in Int
      BY <2>2, <3>1, <3>2, <3>3, <3>4
    <3> HIDE DEF rest
    <3> QED
      BY <3>5
  <2> QED
    BY <2>3, <2>4
<1>2. SUBSET S \subseteq F
  <2> HIDE DEF F
  <2> QED
    BY <1>1, AllSubsets
<1>3. S \in F
  BY <1>2
<1> QED
  BY <1>3 DEF sum

\* The sum over all of a function's arguments.
LEMMA SumOfFunction ==
  ASSUME NEW f
  PROVE  SumFunction(f) = SumFunctionOnSet(f, DOMAIN f)
BY DEF SumFunction

\* What is summed are values, not functions.
LEMMA SumSame ==
  ASSUME NEW f, NEW g, NEW S, IsFiniteSet(S), \A x \in S : f[x] = g[x]
  PROVE  SumFunctionOnSet(f, S) = SumFunctionOnSet(g, S)
<1> DEFINE F == {T \in SUBSET S : SumFunctionOnSet(f, T) = SumFunctionOnSet(g, T)}
<1>1. ASSUME NEW T \in SUBSET S, \A x \in T : T \ {x} \in F PROVE T \in F
  <2>1. CASE T = {}
    BY <2>1, SumOfNone
  <2>2. CASE T # {}
    <3>1. Chosen(T) \in T
      BY <2>2, ChosenIn
    <3>2. /\ SumFunctionOnSet(f, T) = f[Chosen(T)] + SumFunctionOnSet(f, T \ {Chosen(T)})
          /\ SumFunctionOnSet(g, T) = g[Chosen(T)] + SumFunctionOnSet(g, T \ {Chosen(T)})
      BY <2>2, SumRule
    <3> QED
      BY <1>1, <3>1, <3>2
  <2> QED
    BY <2>1, <2>2
<1>2. SUBSET S \subseteq F
  <2> HIDE DEF F
  <2> QED
    BY <1>1, AllSubsets
<1> QED
  BY <1>2

\* A sum of multiples and sums is the multiple or the sum of sums.
LEMMA SumLinear ==
  ASSUME NEW f, NEW g, NEW h, NEW S, IsFiniteSet(S), NEW c \in Int,
         \A x \in S : f[x] \in Int /\ g[x] \in Int /\ h[x] = c * f[x] + g[x]
  PROVE  SumFunctionOnSet(h, S) = c * SumFunctionOnSet(f, S) + SumFunctionOnSet(g, S)
<1> DEFINE sf(T) == SumFunctionOnSet(f, T)
           sg(T) == SumFunctionOnSet(g, T)
           sh(T) == SumFunctionOnSet(h, T)
           F == {T \in SUBSET S : sh(T) = c * sf(T) + sg(T)}
<1>0. \A T \in SUBSET S : sf(T) \in Int /\ sg(T) \in Int
  BY SumTyped
<1>1. ASSUME NEW T \in SUBSET S, \A x \in T : T \ {x} \in F PROVE T \in F
  <2>1. CASE T = {}
    <3>1. sf({}) = 0 /\ sg({}) = 0 /\ sh({}) = 0
      BY SumOfNone
    <3> QED
      BY <2>1, <3>1
  <2>2. CASE T # {}
    <3> DEFINE x == Chosen(T)
               R == T \ {x}
    <3>1. x \in T /\ x \in S /\ R \in SUBSET S
      BY <2>2, ChosenIn
    <3>2. sf(T) = f[x] + sf(R) /\ sg(T) = g[x] + sg(R) /\ sh(T) = h[x] + sh(R)
      BY <2>2, SumRule
    <3>3. sh(R) = c * sf(R) + sg(R)
      BY <1>1, <3>1
    <3>4. f[x] \in Int /\ g[x] \in Int /\ h[x] = c * f[x] + g[x] /\ sf(R) \in Int /\ sg(R) \in Int
      BY <1>0, <3>1
    <3> HIDE DEF x, R, sf, sg, sh
    <3>5. sh(T) = c * sf(T) + sg(T)
      BY <3>2, <3>3, <3>4
    <3> QED
      BY <3>5 DEF F
  <2> QED
    BY <2>1, <2>2
<1>2. SUBSET S \subseteq F
  <2> HIDE DEF F
  <2> QED
    BY <1>1, AllSubsets
<1> QED
  BY <1>2

\* The sum of zeros is 0.
LEMMA SumOfZeros ==
  ASSUME NEW f, NEW S, IsFiniteSet(S), \A x \in S : f[x] = 0
  PROVE  SumFunctionOnSet(f, S) = 0
<1>1. SumFunctionOnSet(f, S) \in Int
  BY SumTyped
<1>2. \A x \in S : f[x] \in Int /\ f[x] = 1 * f[x] + f[x]
  OBVIOUS
<1>3. SumFunctionOnSet(f, S) = 1 * SumFunctionOnSet(f, S) + SumFunctionOnSet(f, S)
  BY <1>2, SumLinear
<1>4. \A t \in Int : t = 1 * t + t => t = 0
  OBVIOUS
<1> QED
  BY <1>1, <1>3, <1>4

\* The negative of each makes the negative of the sum.
LEMMA SumNegated ==
  ASSUME NEW f, NEW h, NEW S, IsFiniteSet(S), \A x \in S : f[x] \in Int /\ h[x] = -f[x]
  PROVE  SumFunctionOnSet(h, S) = -SumFunctionOnSet(f, S)
<1> DEFINE g == [x \in S |-> 0]
<1>1. SumFunctionOnSet(g, S) = 0
  BY SumOfZeros
<1>2. \A x \in S : f[x] \in Int /\ g[x] \in Int /\ h[x] = (-1) * f[x] + g[x]
  OBVIOUS
<1> HIDE DEF g
<1>3. SumFunctionOnSet(h, S) = (-1) * SumFunctionOnSet(f, S) + SumFunctionOnSet(g, S)
  <2>1. -1 \in Int
    OBVIOUS
  <2> QED
    BY <1>2, <2>1, SumLinear
<1>4. SumFunctionOnSet(f, S) \in Int
  BY SumTyped
<1> QED
  BY <1>1, <1>3, <1>4

\* The sum of sums.
LEMMA SumAdded ==
  ASSUME NEW f, NEW g, NEW h, NEW S, IsFiniteSet(S),
         \A x \in S : f[x] \in Int /\ g[x] \in Int /\ h[x] = f[x] + g[x]
  PROVE  SumFunctionOnSet(h, S) = SumFunctionOnSet(f, S) + SumFunctionOnSet(g, S)
<1>1. \A x \in S : f[x] \in Int /\ g[x] \in Int /\ h[x] = 1 * f[x] + g[x]
  OBVIOUS
<1>2. SumFunctionOnSet(h, S) = 1 * SumFunctionOnSet(f, S) + SumFunctionOnSet(g, S)
  BY <1>1, SumLinear
<1>3. SumFunctionOnSet(f, S) \in Int
  BY SumTyped
<1> QED
  BY <1>2, <1>3

\* A sum of even numbers is even: twice that of their halves.
Even(x) == \E n \in Int : x = 2 * n

LEMMA SumEven ==
  ASSUME NEW f, NEW S, IsFiniteSet(S), \A x \in S : Even(f[x])
  PROVE  Even(SumFunctionOnSet(f, S))
<1> DEFINE g == [x \in S |-> CHOOSE n \in Int : f[x] = 2 * n]
           z == [x \in S |-> 0]
<1>1. \A x \in S : g[x] \in Int /\ f[x] = 2 * g[x]
  BY DEF Even
<1>2. \A x \in S : g[x] \in Int /\ z[x] \in Int /\ f[x] = 2 * g[x] + z[x]
  BY <1>1
<1>3. SumFunctionOnSet(z, S) = 0
  BY SumOfZeros
<1> HIDE DEF g, z
<1>4. SumFunctionOnSet(f, S) = 2 * SumFunctionOnSet(g, S) + SumFunctionOnSet(z, S)
  BY <1>2, SumLinear
<1>5. SumFunctionOnSet(g, S) \in Int
  BY <1>2, SumTyped
<1> QED
  BY <1>3, <1>4, <1>5 DEF Even

\* The elements left out of a sum may as well count nothing.
LEMMA SumOfPart ==
  ASSUME NEW f, NEW S, IsFiniteSet(S), NEW P \in SUBSET S, \A x \in P : f[x] \in Int
  PROVE  SumFunctionOnSet([x \in S |-> IF x \in P THEN f[x] ELSE 0], S) = SumFunctionOnSet(f, P)
<1> DEFINE h == [x \in S |-> IF x \in P THEN f[x] ELSE 0]
           F == {T \in SUBSET S : SumFunctionOnSet(h, T) = SumFunctionOnSet(f, T \cap P)}
<1>0. \A x \in S : h[x] \in Int
  OBVIOUS
<1>1. ASSUME NEW T \in SUBSET S, \A x \in T : T \ {x} \in F PROVE T \in F
  <2>1. CASE T = {}
    <3>1. T \cap P = {}
      BY <2>1
    <3> HIDE DEF h
    <3>2. SumFunctionOnSet(h, {}) = 0 /\ SumFunctionOnSet(f, {}) = 0
      BY SumOfNone
    <3>3. SumFunctionOnSet(h, T) = SumFunctionOnSet(f, T \cap P)
      BY <2>1, <3>1, <3>2
    <3> QED
      BY <3>3
  <2>2. CASE T # {}
    <3>1. PICK x \in T : TRUE
      BY <2>2
    <3> DEFINE R == T \ {x}
    <3>2. x \in S /\ R \in SUBSET S /\ R \cap P = (T \cap P) \ {x} /\ IsFiniteSet(T) /\ IsFiniteSet(T \cap P)
      BY <3>1, FS_Subset
    <3>3. SumFunctionOnSet(h, R) = SumFunctionOnSet(f, R \cap P)
      BY <1>1, <3>1
    <3>4. SumFunctionOnSet(h, T) = h[x] + SumFunctionOnSet(h, R)
      <4> HIDE DEF h
      <4> QED
        BY <1>0, <3>2, SumWithout
    <3>5. SumFunctionOnSet(f, R \cap P) \in Int
      <4>1. IsFiniteSet(P) /\ R \cap P \in SUBSET P
        BY FS_Subset
      <4> HIDE DEF R
      <4> QED
        BY <4>1, SumTyped
    <3>6. SumFunctionOnSet(f, T \cap P) = h[x] + SumFunctionOnSet(f, R \cap P)
      <4>1. CASE x \in P
        <5>1. SumFunctionOnSet(f, T \cap P) = f[x] + SumFunctionOnSet(f, (T \cap P) \ {x})
          BY <3>2, <4>1, SumWithout
        <5>2. h[x] = f[x]
          BY <3>2, <4>1
        <5> HIDE DEF h, R
        <5> QED
          BY <3>2, <5>1, <5>2
      <4>2. CASE x \notin P
        <5>1. h[x] = 0 /\ T \cap P = R \cap P
          BY <3>2, <4>2
        <5>2. \A t \in Int : t = 0 + t
          OBVIOUS
        <5> HIDE DEF h, R
        <5> QED
          BY <3>5, <5>1, <5>2
      <4> QED
        BY <4>1, <4>2
    <3> HIDE DEF h, R
    <3> QED
      BY <3>3, <3>4, <3>6
  <2> QED
    BY <2>1, <2>2
<1>2. SUBSET S \subseteq F
  <2> HIDE DEF F
  <2> QED
    BY <1>1, AllSubsets
<1>3. S \cap P = P
  OBVIOUS
<1> HIDE DEF h
<1>4. SumFunctionOnSet(h, S) = SumFunctionOnSet(f, S \cap P)
  BY <1>2
<1> QED
  BY <1>3, <1>4 DEF h

\* One and two terms.
LEMMA SumOfOne ==
  ASSUME NEW f, NEW x, f[x] \in Int
  PROVE  SumFunctionOnSet(f, {x}) = f[x]
<1>1. SumFunctionOnSet(f, {x}) = f[x] + SumFunctionOnSet(f, {x} \ {x})
  <2> DEFINE S == {x}
  <2>1. IsFiniteSet(S)
    BY FS_Singleton
  <2>2. x \in S /\ \A y \in S : f[y] \in Int
    OBVIOUS
  <2> HIDE DEF S
  <2>3. SumFunctionOnSet(f, S) = f[x] + SumFunctionOnSet(f, S \ {x})
    BY <2>1, <2>2, SumWithout
  <2> QED
    BY <2>3 DEF S
<1>2. {x} \ {x} = {}
  OBVIOUS
<1> QED
  BY <1>1, <1>2, SumOfNone

LEMMA SumOfTwo ==
  ASSUME NEW f, f[1] \in Int, f[2] \in Int
  PROVE  SumFunctionOnSet(f, 1..2) = f[1] + f[2]
<1>1. IsFiniteSet({1, 2})
  <2>1. IsFiniteSet({1}) /\ IsFiniteSet({1} \cup {2})
    BY FS_Singleton, FS_AddElement
  <2>2. {1} \cup {2} = {1, 2}
    OBVIOUS
  <2> QED
    BY <2>1, <2>2
<1>2. SumFunctionOnSet(f, {1, 2}) = f[1] + SumFunctionOnSet(f, {1, 2} \ {1})
  BY <1>1, SumWithout
<1>3. {1, 2} \ {1} = {2} /\ 1..2 = {1, 2}
  OBVIOUS
<1>4. SumFunctionOnSet(f, {2}) = f[2]
  BY SumOfOne
<1> QED
  BY <1>2, <1>3, <1>4

-----------------------------------------------------------------------------
\* A finite set of days has a last and a first.
LEMMA LastDay ==
  ASSUME NEW S \in SUBSET Int, IsFiniteSet(S), S # {}
  PROVE  \E x \in S : \A y \in S : y <= x
<1> DEFINE After(x) == {y \in S : x < y}
           Counts == {Cardinality(After(x)) : x \in S}
<1>1. \A x \in S : IsFiniteSet(After(x)) /\ Cardinality(After(x)) \in Nat
  BY FS_Subset, FS_CardinalityType
<1>2. Counts \in SUBSET Nat /\ Counts # {}
  BY <1>1
<1>3. PICK n \in Counts : \A m \in Counts : n <= m
  BY <1>2, LeastNat
<1>4. PICK x \in S : n = Cardinality(After(x))
  BY <1>3
<1>5. ASSUME NEW y \in S, ~(y <= x) PROVE FALSE
  <2>1. x \in Int /\ y \in Int /\ x < y
    BY <1>5
  <2>2. After(y) \in SUBSET After(x) /\ y \in After(x) /\ y \notin After(y)
    <3> HIDE DEF Counts
    <3>1. \A z \in After(y) : z \in After(x)
      BY <2>1
    <3>2. y \in After(x)
      BY <2>1
    <3>3. y \notin After(y)
      BY <2>1
    <3> QED
      BY <3>1, <3>2, <3>3, Zenon
  <2>3. n <= Cardinality(After(y))
    BY <1>3
  <2> HIDE DEF After
  <2>4. IsFiniteSet(After(x)) /\ Cardinality(After(x)) \in Nat /\ Cardinality(After(y)) \in Nat
    BY <1>1
  <2>5. Cardinality(After(y)) <= Cardinality(After(x)) /\ Cardinality(After(x)) # Cardinality(After(y))
    BY <2>2, <2>4, FS_Subset
  <2> QED
    BY <1>4, <2>3, <2>4, <2>5
<1> QED
  BY <1>5

LEMMA FirstDay ==
  ASSUME NEW S \in SUBSET Int, IsFiniteSet(S), S # {}
  PROVE  \E x \in S : \A y \in S : x <= y
<1> DEFINE Earlier(x) == {y \in S : y < x}
           Counts == {Cardinality(Earlier(x)) : x \in S}
<1>1. \A x \in S : IsFiniteSet(Earlier(x)) /\ Cardinality(Earlier(x)) \in Nat
  BY FS_Subset, FS_CardinalityType
<1>2. Counts \in SUBSET Nat /\ Counts # {}
  BY <1>1
<1>3. PICK n \in Counts : \A m \in Counts : n <= m
  BY <1>2, LeastNat
<1>4. PICK x \in S : n = Cardinality(Earlier(x))
  BY <1>3
<1>5. ASSUME NEW y \in S, ~(x <= y) PROVE FALSE
  <2>1. x \in Int /\ y \in Int /\ y < x
    BY <1>5
  <2>2. Earlier(y) \in SUBSET Earlier(x) /\ y \in Earlier(x) /\ y \notin Earlier(y)
    <3> HIDE DEF Counts
    <3>1. \A z \in Earlier(y) : z \in Earlier(x)
      BY <2>1
    <3>2. y \in Earlier(x)
      BY <2>1
    <3>3. y \notin Earlier(y)
      BY <2>1
    <3> QED
      BY <3>1, <3>2, <3>3, Zenon
  <2>3. n <= Cardinality(Earlier(y))
    BY <1>3
  <2> HIDE DEF Earlier
  <2>4. IsFiniteSet(Earlier(x)) /\ Cardinality(Earlier(x)) \in Nat /\ Cardinality(Earlier(y)) \in Nat
    BY <1>1
  <2>5. Cardinality(Earlier(y)) <= Cardinality(Earlier(x)) /\ Cardinality(Earlier(x)) # Cardinality(Earlier(y))
    BY <2>2, <2>4, FS_Subset
  <2> QED
    BY <1>4, <2>3, <2>4, <2>5
<1> QED
  BY <1>5

\* Min is what it is called where there is one.
LEMMA MinOfDays ==
  ASSUME NEW S \in SUBSET Int, IsFiniteSet(S), S # {}
  PROVE  Min(S) \in S /\ \A y \in S : Min(S) <= y
<1>1. \E x \in S : \A y \in S : x <= y
  BY FirstDay
<1> QED
  BY <1>1 DEF Min

\* Max of a pair, which is how windows are cut off at their ends.
LEMMA MaxOfTwo ==
  ASSUME NEW a \in Int, NEW b \in Int
  PROVE  Max({a, b}) = IF a >= b THEN a ELSE b
<1>1. \E x \in {a, b} : \A y \in {a, b} : x >= y
  OBVIOUS
<1> QED
  BY <1>1 DEF Max

-----------------------------------------------------------------------------
(* What a floating leg accrues.  Positions in the list of fixings are counts *)
(* of the fixings before a day (Before).                                     *)

\* A position is a natural number.
LEMMA BeforeTyped ==
  ASSUME NEW fx, IsFiniteSet(DOMAIN fx), NEW d
  PROVE  /\ IsFiniteSet({f \in DOMAIN fx : f < d})
         /\ Before(fx, d) \in Nat
<1>1. {f \in DOMAIN fx : f < d} \in SUBSET DOMAIN fx
  OBVIOUS
<1> QED
  BY <1>1, FS_Subset, FS_CardinalityType DEF Before

\* Between two days as many fixings as their positions are apart.
LEMMA PositionsApart ==
  ASSUME NEW fx, DOMAIN fx \in SUBSET Int, IsFiniteSet(DOMAIN fx),
         NEW a \in Int, NEW b \in Int, a <= b
  PROVE  LET S == {g \in DOMAIN fx : a <= g /\ g < b} IN
         /\ IsFiniteSet(S) /\ Cardinality(S) \in Nat
         /\ Before(fx, b) = Before(fx, a) + Cardinality(S)
<1> DEFINE S == {g \in DOMAIN fx : a <= g /\ g < b}
           A == {f \in DOMAIN fx : f < a}
           B == {f \in DOMAIN fx : f < b}
<1>1. B = A \cup S /\ A \cap S = {}
  OBVIOUS
<1>2. IsFiniteSet(A) /\ IsFiniteSet(S)
  BY FS_Subset
<1>3. Cardinality(B) = Cardinality(A) + Cardinality(S) - Cardinality(A \cap S)
  BY <1>1, <1>2, FS_Union
<1>4. Cardinality(A \cap S) = 0 /\ Cardinality(A) \in Nat /\ Cardinality(S) \in Nat
  BY <1>1, <1>2, FS_EmptySet, FS_CardinalityType
<1> HIDE DEF S, A, B
<1>5. Cardinality(B) = Cardinality(A) + Cardinality(S)
  BY <1>3, <1>4
<1> QED
  BY <1>2, <1>4, <1>5 DEF Before, S, A, B

\* A fixing comes before a day if its position is lower, and only then.
LEMMA PositionsOrdered ==
  ASSUME NEW fx, DOMAIN fx \in SUBSET Int, IsFiniteSet(DOMAIN fx),
         NEW f \in DOMAIN fx, NEW d \in Int
  PROVE  f < d <=> Before(fx, f) < Before(fx, d)
<1>1. Before(fx, f) \in Nat /\ Before(fx, d) \in Nat /\ f \in Int
  BY BeforeTyped
<1>2. CASE f < d
  <2> DEFINE S == {g \in DOMAIN fx : f <= g /\ g < d}
  <2>1. IsFiniteSet(S) /\ Before(fx, d) = Before(fx, f) + Cardinality(S)
    BY <1>1, <1>2, PositionsApart
  <2>2. f \in S
    BY <1>1, <1>2
  <2>3. Cardinality(S) # 0 /\ Cardinality(S) \in Nat
    BY <2>1, <2>2, FS_EmptySet, FS_CardinalityType
  <2> QED
    BY <1>1, <1>2, <2>1, <2>3
<1>3. CASE ~(f < d)
  <2>1. Before(fx, f) >= Before(fx, d)
    <3>1. d <= f /\ f \in Int
      BY <1>1, <1>3
    <3> DEFINE S == {g \in DOMAIN fx : d <= g /\ g < f}
    <3>2. Cardinality(S) \in Nat /\ Before(fx, f) = Before(fx, d) + Cardinality(S)
      BY <3>1, PositionsApart
    <3> QED
      BY <1>1, <3>2
  <2> QED
    BY <1>1, <1>3, <2>1
<1> QED
  BY <1>2, <1>3

\* The fixing just before a day.
LEMMA FixingBefore ==
  ASSUME NEW fx, DOMAIN fx \in SUBSET Int, IsFiniteSet(DOMAIN fx),
         NEW d \in Int, Before(fx, d) > 0
  PROVE  \E f \in DOMAIN fx : f < d /\ Before(fx, d) = Before(fx, f) + 1
<1> DEFINE B == {f \in DOMAIN fx : f < d}
<1>1. IsFiniteSet(B) /\ B \in SUBSET Int
  BY BeforeTyped
<1>2. B # {}
  BY FS_EmptySet DEF Before
<1>3. PICK f \in B : \A g \in B : g <= f
  BY <1>1, <1>2, LastDay
<1>4. {g \in DOMAIN fx : f <= g /\ g < d} = {f}
  BY <1>3
<1>5. Before(fx, d) = Before(fx, f) + Cardinality({f})
  BY <1>4, PositionsApart
<1> QED
  BY <1>5, FS_Singleton

\* Every position below that of a day is a fixing's.
LEMMA PositionsFilled ==
  ASSUME NEW fx, DOMAIN fx \in SUBSET Int, IsFiniteSet(DOMAIN fx),
         NEW d \in Int, NEW n \in Nat, n < Before(fx, d)
  PROVE  \E f \in DOMAIN fx : f < d /\ Before(fx, f) = n
<1> DEFINE S == {f \in DOMAIN fx : f < d /\ n <= Before(fx, f)}
<1>1. \A x : Before(fx, x) \in Nat
  BY BeforeTyped
<1>2. PICK p \in DOMAIN fx : p < d /\ Before(fx, d) = Before(fx, p) + 1
  BY <1>1, FixingBefore
<1>3. p \in S
  BY <1>1, <1>2
<1>4. IsFiniteSet(S) /\ S \in SUBSET Int
  BY FS_Subset
<1>5. PICK f \in S : \A g \in S : f <= g
  BY <1>3, <1>4, FirstDay
<1>6. ASSUME Before(fx, f) # n PROVE FALSE
  <2>1. Before(fx, f) > n /\ f \in Int
    BY <1>1, <1>6
  <2>2. PICK g \in DOMAIN fx : g < f /\ Before(fx, f) = Before(fx, g) + 1
    BY <1>1, <2>1, FixingBefore
  <2>3. g \in S
    BY <1>1, <2>1, <2>2
  <2> QED
    BY <1>5, <2>1, <2>2, <2>3
<1> QED
  BY <1>6

-----------------------------------------------------------------------------
\* What a coupon can be computed from: finitely many fixings and a period of days.
Accruable(idx, fx, coupon) ==
  /\ idx.lookback \in Nat
  /\ DOMAIN fx \in SUBSET Int /\ IsFiniteSet(DOMAIN fx)
  /\ coupon.from \in Int /\ coupon.to \in Int /\ coupon.from < coupon.to

\* The fixings that enter a coupon.
Used(idx, fx, coupon) == UsedIn(Window(idx, fx, coupon), fx)

\* The end of a window is its position, never before its start.
LEMMA WindowEnds ==
  ASSUME NEW idx, NEW fx, NEW coupon, Accruable(idx, fx, coupon)
  PROVE  LET first == Before(fx, coupon.from) - idx.lookback
             last == Before(fx, coupon.to) - idx.lookback
             window == Window(idx, fx, coupon)
         IN /\ first \in Int /\ last \in Int /\ first <= last
            /\ window.first = (IF first < 0 THEN 0 ELSE first)
            /\ window.last = (IF last < 0 THEN 0 ELSE last)
<1> DEFINE first == Before(fx, coupon.from) - idx.lookback
           last == Before(fx, coupon.to) - idx.lookback
           start == Max({0, first})
           S == {g \in DOMAIN fx : coupon.from <= g /\ g < coupon.to}
<1>1. Before(fx, coupon.from) \in Nat /\ Before(fx, coupon.to) \in Nat /\ idx.lookback \in Nat
  BY BeforeTyped DEF Accruable
<1>2. Cardinality(S) \in Nat /\ Before(fx, coupon.to) = Before(fx, coupon.from) + Cardinality(S)
  <2>1. /\ DOMAIN fx \in SUBSET Int /\ IsFiniteSet(DOMAIN fx)
        /\ coupon.from \in Int /\ coupon.to \in Int /\ coupon.from <= coupon.to
    BY DEF Accruable
  <2> QED
    BY <2>1, PositionsApart
<1>3. first \in Int /\ last \in Int /\ first <= last
  BY <1>1, <1>2
<1>4. Window(idx, fx, coupon).first = start /\ Window(idx, fx, coupon).last = Max({start, last})
  BY DEF Window
<1> HIDE DEF first, last
<1>5. start = IF first < 0 THEN 0 ELSE first
  BY <1>3, MaxOfTwo
<1>6. start \in Int
  BY <1>3, <1>5
<1> HIDE DEF start
<1>7. Max({start, last}) = IF start >= last THEN start ELSE last
  BY <1>3, <1>6, MaxOfTwo
<1>8. Max({start, last}) = IF last < 0 THEN 0 ELSE last
  BY <1>3, <1>5, <1>7
<1> QED
  BY <1>3, <1>4, <1>5, <1>8 DEF first, last

\* A coupon takes the fixings of its period, both ends moved back by the lookback.
LEMMA UsedFixings ==
  ASSUME NEW idx, NEW fx, NEW coupon, Accruable(idx, fx, coupon)
  PROVE  LET used == Used(idx, fx, coupon) IN
         /\ used = {f \in DOMAIN fx :
                      /\ Before(fx, coupon.from) - idx.lookback <= Before(fx, f)
                      /\ Before(fx, f) < Before(fx, coupon.to) - idx.lookback}
         /\ used \in SUBSET Int /\ IsFiniteSet(used)
         /\ \A f \in used : f < coupon.to
<1> DEFINE first == Before(fx, coupon.from) - idx.lookback
           last == Before(fx, coupon.to) - idx.lookback
           used == Used(idx, fx, coupon)
<1>1. \A d : Before(fx, d) \in Nat
  BY BeforeTyped DEF Accruable
<1>2. /\ first \in Int /\ last \in Int
      /\ Window(idx, fx, coupon).first = (IF first < 0 THEN 0 ELSE first)
      /\ Window(idx, fx, coupon).last = (IF last < 0 THEN 0 ELSE last)
  BY WindowEnds
<1>3. used = {f \in DOMAIN fx : Before(fx, f) \in
                 (IF first < 0 THEN 0 ELSE first)..((IF last < 0 THEN 0 ELSE last) - 1)}
  BY <1>2 DEF Used, UsedIn
<1>4. \A f \in DOMAIN fx :
        Before(fx, f) \in (IF first < 0 THEN 0 ELSE first)..((IF last < 0 THEN 0 ELSE last) - 1)
          <=> first <= Before(fx, f) /\ Before(fx, f) < last
  BY <1>1, <1>2
<1>5. used = {f \in DOMAIN fx : first <= Before(fx, f) /\ Before(fx, f) < last}
  BY <1>3, <1>4
<1>6. used \in SUBSET DOMAIN fx
  BY <1>5
<1>7. used \in SUBSET Int /\ IsFiniteSet(used)
  BY <1>6, FS_Subset DEF Accruable
<1>8. \A f \in used : f < coupon.to
  <2> TAKE f \in used
  <2>1. Before(fx, f) < Before(fx, coupon.to)
    BY <1>1, <1>5 DEF Accruable
  <2> QED
    BY <1>6, <2>1, PositionsOrdered DEF Accruable
<1> QED
  BY <1>5, <1>7, <1>8

\* The fixings a lookback leads back over are the last ones before the day.
LEMMA LookedBackByPosition ==
  ASSUME NEW idx, NEW fx, NEW coupon, Accruable(idx, fx, coupon), NEW d \in Int
  PROVE  LookedBack(fx, idx.lookback, d)
           = {f \in DOMAIN fx : f < d /\ Before(fx, d) - idx.lookback <= Before(fx, f)}
<1>1. ASSUME NEW f \in DOMAIN fx, f < d
      PROVE  Cardinality({g \in DOMAIN fx : f <= g /\ g < d}) <= idx.lookback
               <=> Before(fx, d) - idx.lookback <= Before(fx, f)
  <2> DEFINE S == {g \in DOMAIN fx : f <= g /\ g < d}
  <2>1. f \in Int /\ f <= d /\ DOMAIN fx \in SUBSET Int /\ IsFiniteSet(DOMAIN fx)
    BY <1>1 DEF Accruable
  <2>2. Cardinality(S) \in Nat /\ Before(fx, d) = Before(fx, f) + Cardinality(S)
    BY <2>1, PositionsApart
  <2>3. Before(fx, d) \in Nat /\ Before(fx, f) \in Nat /\ idx.lookback \in Nat
    BY BeforeTyped DEF Accruable
  <2> QED
    BY <2>2, <2>3
<1> QED
  BY <1>1 DEF LookedBack

\* Where the curve takes over from the fixings: at the end of the coupon or, with a
\* lookback, at the first of the fixings it leads back over.
LEMMA CurveTakesOver ==
  ASSUME NEW idx, NEW fx, NEW coupon, Accruable(idx, fx, coupon), Used(idx, fx, coupon) # {}
  PROVE  LET used == Used(idx, fx, coupon)
             tail == TailFrom(Window(idx, fx, coupon), used, fx, coupon)
             again == LookedBack(fx, idx.lookback, coupon.to)
         IN /\ tail \in Int
            /\ idx.lookback = 0 => tail = coupon.to /\ again = {}
            /\ idx.lookback > 0 => tail < coupon.to /\ tail \in again
            /\ \A f \in again : tail <= f
            /\ \A f \in used : f < tail
<1> DEFINE used == Used(idx, fx, coupon)
           last == Before(fx, coupon.to) - idx.lookback
           S == {f \in DOMAIN fx : Before(fx, f) = last} \cup {coupon.to}
           again == LookedBack(fx, idx.lookback, coupon.to)
           tail == TailFrom(Window(idx, fx, coupon), used, fx, coupon)
<1>1. /\ \A d : Before(fx, d) \in Nat
      /\ idx.lookback \in Nat /\ coupon.to \in Int /\ DOMAIN fx \in SUBSET Int
      /\ IsFiniteSet(DOMAIN fx)
  BY BeforeTyped DEF Accruable
<1>2. PICK u \in used : TRUE
  OBVIOUS
<1>3. \A f \in used : f \in DOMAIN fx /\ Before(fx, f) < last
  BY UsedFixings
<1>4. last \in Nat /\ last > 0
  BY <1>1, <1>2, <1>3
<1>5. Window(idx, fx, coupon).last = last
  BY <1>4, WindowEnds
<1>6. tail = Min(S)
  BY <1>5 DEF TailFrom
<1>7. S \in SUBSET Int /\ IsFiniteSet(S) /\ S # {}
  <2>1. IsFiniteSet({f \in DOMAIN fx : Before(fx, f) = last})
    BY <1>1, FS_Subset
  <2>2. IsFiniteSet(S)
    BY <2>1, FS_AddElement
  <2> QED
    BY <1>1, <2>2
<1>8. tail \in S /\ \A f \in S : tail <= f
  BY <1>6, <1>7, MinOfDays
<1>9. again = {f \in DOMAIN fx : f < coupon.to /\ last <= Before(fx, f)}
  <2> SUFFICES LookedBack(fx, idx.lookback, coupon.to)
                 = {f \in DOMAIN fx : f < coupon.to /\ Before(fx, coupon.to) - idx.lookback <= Before(fx, f)}
    OBVIOUS
  <2> HIDE DEF tail, used, S
  <2> QED
    BY <1>1, LookedBackByPosition
<1> HIDE DEF tail, again, used
<1>10. \A f \in DOMAIN fx : f < coupon.to <=> Before(fx, f) < Before(fx, coupon.to)
  BY <1>1, PositionsOrdered
<1>11. CASE idx.lookback = 0
  <2>1. again = {}
    BY <1>1, <1>9, <1>10, <1>11
  <2>2. \A f \in S : coupon.to <= f
    BY <1>1, <1>10, <1>11
  <2>3. tail = coupon.to
    BY <1>1, <1>7, <1>8, <2>2
  <2>4. \A f \in used : f < tail
    BY <2>3, UsedFixings DEF used
  <2> QED
    BY <1>1, <1>11, <2>1, <2>3, <2>4 DEF tail, again, used
<1>12. CASE idx.lookback > 0
  <2>1. PICK t \in DOMAIN fx : t < coupon.to /\ Before(fx, t) = last
    BY <1>1, <1>4, <1>12, PositionsFilled
  <2>2. tail <= t /\ tail < coupon.to
    BY <1>1, <1>7, <1>8, <2>1
  <2>3. tail \in DOMAIN fx /\ Before(fx, tail) = last
    BY <1>1, <1>8, <2>2
  <2>4. tail \in again
    BY <1>1, <1>9, <2>2, <2>3
  <2>5. \A f \in used : f < tail
    BY <1>1, <1>3, <2>3, PositionsOrdered
  <2>6. \A f \in again : tail <= f
    <3> TAKE f \in again
    <3>1. f \in DOMAIN fx /\ ~(Before(fx, f) < Before(fx, tail))
      BY <1>1, <1>9, <2>3
    <3>2. ~(f < tail)
      BY <1>1, <2>3, <3>1, PositionsOrdered
    <3> QED
      BY <1>1, <2>3, <3>1, <3>2
  <2> QED
    BY <1>1, <1>12, <2>2, <2>3, <2>4, <2>5, <2>6 DEF tail, again, used
<1> QED
  BY <1>1, <1>11, <1>12

-----------------------------------------------------------------------------
\* Where the curve starts in a coupon.
CurveFrom(idx, fx, coupon) ==
  TailFrom(Window(idx, fx, coupon), Used(idx, fx, coupon), fx, coupon)

\* Where the piece of a fixing ends.
RunsTo(used, coupon, f) == Min({g \in used : g > f} \cup {coupon.to})

Piece(idx, fx, coupon, f) ==
  [from |-> f, to |-> RunsTo(Used(idx, fx, coupon), coupon, f),
   rate |-> Max({fx[f], idx.floor}), of |-> "fixing"]

CurvePiece(curveRate, idx, fx, coupon) ==
  [from |-> CurveFrom(idx, fx, coupon), to |-> coupon.to, rate |-> curveRate, of |-> "curve"]

\* A coupon is a piece for each fixing it takes and, before its end, the curve's.
LEMMA PiecesOf ==
  ASSUME NEW curveRate, NEW idx, NEW fx, NEW coupon
  PROVE  Accruals(curveRate, idx, fx, coupon)
           = {Piece(idx, fx, coupon, f) : f \in Used(idx, fx, coupon)}
             \cup (IF CurveFrom(idx, fx, coupon) >= coupon.to THEN {}
                   ELSE {CurvePiece(curveRate, idx, fx, coupon)})
BY Zenon DEF Accruals, AccrualsIn, ByFixings, ByCurve, Piece, CurvePiece, CurveFrom, Used, RunsTo

\* The curve has a piece of a coupon that takes no fixing and, with a lookback, of any.
LEMMA CurveFromInCoupon ==
  ASSUME NEW idx, NEW fx, NEW coupon, Accruable(idx, fx, coupon)
  PROVE  /\ CurveFrom(idx, fx, coupon) \in Int
         /\ CurveFrom(idx, fx, coupon) < coupon.to
              <=> Used(idx, fx, coupon) = {} \/ idx.lookback > 0
<1>1. CASE Used(idx, fx, coupon) = {}
  <2>1. CurveFrom(idx, fx, coupon) = coupon.from
    BY <1>1 DEF CurveFrom, TailFrom
  <2> QED
    BY <1>1, <2>1 DEF Accruable
<1>2. CASE Used(idx, fx, coupon) # {}
  <2>1. /\ CurveFrom(idx, fx, coupon) \in Int
        /\ idx.lookback = 0 => CurveFrom(idx, fx, coupon) = coupon.to
        /\ idx.lookback > 0 => CurveFrom(idx, fx, coupon) < coupon.to
    BY <1>2, CurveTakesOver DEF CurveFrom
  <2>2. idx.lookback \in Nat /\ coupon.to \in Int
    BY DEF Accruable
  <2> QED
    BY <1>2, <2>1, <2>2
<1> QED
  BY <1>1, <1>2

\* Read off its pieces: which fixings a coupon takes, and whether the curve enters.
LEMMA FixedOnUsed ==
  ASSUME NEW curveRate, NEW idx, NEW fx, NEW coupon, Accruable(idx, fx, coupon)
  PROVE  LET parts == Accruals(curveRate, idx, fx, coupon) IN
         /\ FixedOn(parts) = Used(idx, fx, coupon)
         /\ (\E p \in parts : p.of = "curve") <=> Used(idx, fx, coupon) = {} \/ idx.lookback > 0
<1> DEFINE parts == Accruals(curveRate, idx, fx, coupon)
           used == Used(idx, fx, coupon)
           tail == CurveFrom(idx, fx, coupon)
<1>1. parts = {Piece(idx, fx, coupon, f) : f \in used}
              \cup (IF tail >= coupon.to THEN {} ELSE {CurvePiece(curveRate, idx, fx, coupon)})
  BY PiecesOf
<1>2. \A f : Piece(idx, fx, coupon, f).of = "fixing" /\ Piece(idx, fx, coupon, f).from = f
  BY DEF Piece
<1>3. CurvePiece(curveRate, idx, fx, coupon).of = "curve"
  BY DEF CurvePiece
<1> HIDE DEF parts, used
<1>4. {q \in parts : q.of = "fixing"} = {Piece(idx, fx, coupon, f) : f \in used}
  BY <1>1, <1>2, <1>3
<1>5. FixedOn(parts) = used
  BY <1>2, <1>4 DEF FixedOn
<1>6. (\E p \in parts : p.of = "curve") <=> ~(tail >= coupon.to)
  BY <1>1, <1>2, <1>3
<1>7. tail \in Int /\ coupon.to \in Int
  BY CurveFromInCoupon DEF Accruable
<1>8. ~(tail >= coupon.to) <=> tail < coupon.to
  BY <1>7
<1> QED
  BY <1>5, <1>6, <1>8, CurveFromInCoupon DEF parts, used

\* A fixing runs on to the next one the coupon takes.
LEMMA RunsOn ==
  ASSUME NEW used \in SUBSET Int, IsFiniteSet(used), NEW coupon, coupon.to \in Int,
         NEW f \in used, f < coupon.to
  PROVE  /\ RunsTo(used, coupon, f) \in Int
         /\ f < RunsTo(used, coupon, f) /\ RunsTo(used, coupon, f) <= coupon.to
         /\ \A g \in used : g > f => RunsTo(used, coupon, f) <= g
         /\ RunsTo(used, coupon, f) \in used \cup {coupon.to}
<1> DEFINE S == {g \in used : g > f} \cup {coupon.to}
<1>1. S \in SUBSET Int /\ S # {}
  OBVIOUS
<1>2. IsFiniteSet(S)
  <2>1. IsFiniteSet({g \in used : g > f})
    BY FS_Subset
  <2> QED
    BY <2>1, FS_AddElement
<1>3. Min(S) \in S /\ \A y \in S : Min(S) <= y
  BY <1>1, <1>2, MinOfDays
<1>4. RunsTo(used, coupon, f) = Min(S)
  BY DEF RunsTo
<1> HIDE DEF RunsTo
<1> QED
  BY <1>3, <1>4

\* From the first fixing on every day is of one fixing, before it of none.
LEMMA OneFixingADay ==
  ASSUME NEW idx, NEW fx, NEW coupon, Accruable(idx, fx, coupon),
         Used(idx, fx, coupon) # {}, NEW d \in Int, d < coupon.to
  PROVE  LET used == Used(idx, fx, coupon)
             pieces == {p \in {Piece(idx, fx, coupon, f) : f \in used} : p.from <= d /\ d < p.to}
         IN IF d < Min(used) THEN pieces = {}
            ELSE \E f \in used : f <= d /\ pieces = {Piece(idx, fx, coupon, f)}
<1> DEFINE used == Used(idx, fx, coupon)
           pieces == {p \in {Piece(idx, fx, coupon, f) : f \in used} : p.from <= d /\ d < p.to}
<1>1. /\ used \in SUBSET Int /\ IsFiniteSet(used) /\ coupon.to \in Int
      /\ \A f \in used : f < coupon.to
  BY UsedFixings DEF Accruable
<1>2. Min(used) \in used /\ Min(used) \in Int /\ \A f \in used : Min(used) <= f
  BY <1>1, MinOfDays
<1>3. \A f : Piece(idx, fx, coupon, f).from = f /\ Piece(idx, fx, coupon, f).to = RunsTo(used, coupon, f)
  BY DEF Piece
<1> HIDE DEF used
<1>4. CASE d < Min(used)
  <2>1. \A f \in used : ~(f <= d)
    <3> TAKE f \in used
    <3>1. f \in Int /\ Min(used) <= f
      BY <1>1, <1>2
    <3> QED
      BY <1>2, <1>4, <3>1
  <2>2. pieces = {}
    BY <1>3, <2>1
  <2> QED
    BY <1>4, <2>2 DEF used
<1>5. CASE ~(d < Min(used))
  <2> DEFINE S == {g \in used : g <= d}
  <2>1. S \in SUBSET Int /\ IsFiniteSet(S) /\ S # {}
    <3>1. Min(used) <= d
      BY <1>2, <1>5
    <3>2. S \in SUBSET used /\ Min(used) \in S
      BY <1>2, <3>1
    <3> QED
      BY <1>1, <3>2, FS_Subset
  <2>2. PICK f \in S : \A g \in S : g <= f
    BY <2>1, LastDay
  <2>3. f \in used /\ f <= d /\ f \in Int
    BY <1>1, <2>2
  <2>4. \A g \in used : g > f => d < g
    BY <1>1, <2>2, <2>3
  <2>5. d < RunsTo(used, coupon, f)
    BY <1>1, <2>3, <2>4, RunsOn
  <2>6. ASSUME NEW g \in used, g <= d, d < RunsTo(used, coupon, g) PROVE g = f
    <3>1. g <= f /\ g \in Int
      BY <1>1, <2>2, <2>6
    <3>2. ~(g < f)
      BY <1>1, <2>3, <2>6, <3>1, RunsOn
    <3> QED
      BY <2>3, <3>1, <3>2
  <2>7. pieces = {Piece(idx, fx, coupon, f)}
    BY <1>3, <2>3, <2>5, <2>6
  <2> QED
    BY <1>5, <2>3, <2>7 DEF used
<1> QED
  BY <1>4, <1>5

-----------------------------------------------------------------------------
\* How often a coupon accrues a day.
LEMMA TimesADay ==
  ASSUME NEW curveRate, NEW idx, NEW fx, NEW coupon, Accruable(idx, fx, coupon),
         NEW d \in coupon.from..(coupon.to - 1)
  PROVE  LET parts == Accruals(curveRate, idx, fx, coupon)
             used == Used(idx, fx, coupon)
         IN Cardinality({p \in parts : p.from <= d /\ d < p.to})
              = IF used = {} THEN 1
                ELSE IF d < Min(used) THEN 0
                ELSE IF \E f \in LookedBack(fx, idx.lookback, coupon.to) : f <= d THEN 2 ELSE 1
<1> DEFINE parts == Accruals(curveRate, idx, fx, coupon)
           used == Used(idx, fx, coupon)
           tail == CurveFrom(idx, fx, coupon)
           rest == CurvePiece(curveRate, idx, fx, coupon)
           again == LookedBack(fx, idx.lookback, coupon.to)
           pieces == {p \in {Piece(idx, fx, coupon, f) : f \in used} : p.from <= d /\ d < p.to}
           covering == {p \in parts : p.from <= d /\ d < p.to}
<1>1. /\ coupon.from \in Int /\ coupon.to \in Int /\ idx.lookback \in Nat
      /\ d \in Int /\ coupon.from <= d /\ d < coupon.to
  BY DEF Accruable
<1>2. /\ used \in SUBSET Int /\ IsFiniteSet(used)
  BY UsedFixings
<1>3. tail \in Int
  BY CurveFromInCoupon
<1>4. rest.from = tail /\ rest.to = coupon.to /\ rest.of = "curve"
  BY DEF CurvePiece
<1>5. \A f : Piece(idx, fx, coupon, f).of = "fixing"
  BY DEF Piece
<1>6. parts = {Piece(idx, fx, coupon, f) : f \in used} \cup (IF tail >= coupon.to THEN {} ELSE {rest})
  BY PiecesOf
<1>7. again \in SUBSET Int
  BY DEF LookedBack, Accruable
<1> HIDE DEF parts, used, tail, rest, again
\* The curve's piece covers the days it has not left to the pieces.
<1>8. covering = pieces \cup (IF tail <= d THEN {rest} ELSE {})
  BY <1>1, <1>3, <1>4, <1>6
<1> HIDE DEF covering, pieces
<1>9. CASE used = {}
  <2>1. pieces = {}
    BY <1>9 DEF pieces
  <2>2. tail = coupon.from
    BY <1>9 DEF tail, used, CurveFrom, TailFrom
  <2>3. covering = {rest}
    BY <1>1, <1>8, <2>1, <2>2
  <2>4. Cardinality(covering) = 1
    BY <2>3, FS_Singleton
  <2> QED
    BY <1>9, <2>4 DEF covering, parts, used
<1>10. CASE used # {} /\ d < Min(used)
  <2>1. pieces = {}
    BY <1>1, <1>10, OneFixingADay DEF pieces, used
  <2>2. Min(used) \in used /\ Min(used) \in Int
    BY <1>2, <1>10, MinOfDays
  <2>3. Min(used) < tail
    BY <1>10, <2>2, CurveTakesOver DEF used, tail, CurveFrom
  <2>4. ~(tail <= d)
    BY <1>1, <1>3, <1>10, <2>2, <2>3
  <2>5. Cardinality(covering) = 0
    BY <1>8, <2>1, <2>4, FS_EmptySet
  <2> QED
    BY <1>10, <2>5 DEF covering, parts, used
<1>11. CASE used # {} /\ ~(d < Min(used))
  <2>1. PICK f \in used : pieces = {Piece(idx, fx, coupon, f)}
    BY <1>1, <1>11, OneFixingADay DEF pieces, used
  <2>2. /\ idx.lookback = 0 => tail = coupon.to /\ again = {}
        /\ idx.lookback > 0 => tail \in again
        /\ \A g \in again : tail <= g
    BY <1>11, CurveTakesOver DEF used, tail, again, CurveFrom
  <2>3. tail <= d <=> \E g \in again : g <= d
    BY <1>1, <1>3, <1>7, <2>2
  <2>4. Piece(idx, fx, coupon, f) # rest
    BY <1>4, <1>5
  <2>5. Cardinality(pieces) = 1 /\ IsFiniteSet(pieces) /\ rest \notin pieces
    BY <2>1, <2>4, FS_Singleton
  <2>6. Cardinality(covering) = IF tail <= d THEN 2 ELSE 1
    <3>1. CASE tail <= d
      <4>1. Cardinality(covering) = Cardinality(pieces) + 1
        BY <1>8, <2>5, <3>1, FS_AddElement
      <4> QED
        BY <2>5, <3>1, <4>1
    <3>2. CASE ~(tail <= d)
      BY <1>8, <2>5, <3>2
    <3> QED
      BY <3>1, <3>2
  <2> QED
    BY <1>11, <2>3, <2>6 DEF covering, parts, used, again
<1> QED
  BY <1>9, <1>10, <1>11

\* One coupon accrues as the rules have it.
LEMMA CouponAccruesRight ==
  ASSUME NEW curveRate, NEW idx, NEW fx, NEW coupon, Accruable(idx, fx, coupon)
  PROVE  CouponAccrues(coupon, Accruals(curveRate, idx, fx, coupon), fx, idx.lookback)
<1> DEFINE parts == Accruals(curveRate, idx, fx, coupon)
           used == Used(idx, fx, coupon)
           before == LookedBack(fx, idx.lookback, coupon.from)
<1>1. FixedOn(parts) = used
      /\ ((\E p \in parts : p.of = "curve") <=> used = {} \/ idx.lookback > 0)
  BY FixedOnUsed
<1>2. coupon.from \in Int /\ DOMAIN fx \in SUBSET Int
  BY DEF Accruable
<1>3. before = {f \in DOMAIN fx :
                  f < coupon.from /\ Before(fx, coupon.from) - idx.lookback <= Before(fx, f)}
  <2> SUFFICES LookedBack(fx, idx.lookback, coupon.from)
                 = {f \in DOMAIN fx :
                      f < coupon.from /\ Before(fx, coupon.from) - idx.lookback <= Before(fx, f)}
    OBVIOUS
  <2>1. \A d \in Int : LookedBack(fx, idx.lookback, d)
          = {f \in DOMAIN fx : f < d /\ Before(fx, d) - idx.lookback <= Before(fx, f)}
    BY LookedBackByPosition
  <2> QED
    BY <1>2, <2>1
<1>4. \A f \in used : f \in DOMAIN fx /\ Before(fx, coupon.from) - idx.lookback <= Before(fx, f)
  BY UsedFixings
<1>5. \A f \in used : f >= coupon.from \/ f \in before
  <2> HIDE DEF used, before
  <2> TAKE f \in used
  <2>1. f \in Int /\ f \in DOMAIN fx
    BY <1>2, <1>4
  <2>2. f >= coupon.from \/ f < coupon.from
    BY <1>2, <2>1
  <2> QED
    BY <1>3, <1>4, <2>1, <2>2
<1>6. \A d \in coupon.from..(coupon.to - 1) :
        Cardinality({p \in parts : p.from <= d /\ d < p.to})
          = IF used = {} THEN 1
            ELSE IF d < Min(used) THEN 0
            ELSE IF \E f \in LookedBack(fx, idx.lookback, coupon.to) : f <= d THEN 2 ELSE 1
  BY TimesADay
<1> HIDE DEF parts, used, before
<1> QED
  BY <1>1, <1>5, <1>6, Zenon DEF CouponAccrues, parts, before

\* A fixing enters one coupon of a leg.
LEMMA OneCouponAFixing ==
  ASSUME NEW idx, NEW fx, NEW c, NEW e, Accruable(idx, fx, c), Accruable(idx, fx, e), c.to <= e.from
  PROVE  Used(idx, fx, c) \cap Used(idx, fx, e) = {}
<1>1. c.to \in Int /\ e.from \in Int /\ DOMAIN fx \in SUBSET Int /\ IsFiniteSet(DOMAIN fx)
      /\ idx.lookback \in Nat
  BY DEF Accruable
<1>2. \A d : Before(fx, d) \in Nat
  BY <1>1, BeforeTyped
<1>3. Before(fx, c.to) <= Before(fx, e.from)
  <2> DEFINE S == {g \in DOMAIN fx : c.to <= g /\ g < e.from}
  <2>1. Cardinality(S) \in Nat /\ Before(fx, e.from) = Before(fx, c.to) + Cardinality(S)
    BY <1>1, PositionsApart
  <2> QED
    BY <1>2, <2>1
<1>4. \A f \in Used(idx, fx, c) : Before(fx, f) < Before(fx, c.to) - idx.lookback
  BY UsedFixings
<1>5. \A f \in Used(idx, fx, e) : Before(fx, e.from) - idx.lookback <= Before(fx, f)
  BY UsedFixings
<1> QED
  BY <1>1, <1>2, <1>3, <1>4, <1>5

\* The coupons of a leg whose periods are in order.
LEMMA LegAccrues ==
  ASSUME NEW curveRate, NEW idx, idx.lookback \in Nat,
         NEW fx, DOMAIN fx \in SUBSET Int, IsFiniteSet(DOMAIN fx),
         NEW periods \in Seq([from : Int, to : Int]), InOrder(periods)
  PROVE  AccruedOnce(periods,
                     [k \in DOMAIN periods |-> Accruals(curveRate, idx, fx, periods[k])],
                     fx, idx.lookback)
<1> DEFINE parts == [k \in DOMAIN periods |-> Accruals(curveRate, idx, fx, periods[k])]
<1>1. \A k \in DOMAIN periods : Accruable(idx, fx, periods[k])
  <2>1. \A k \in DOMAIN periods : periods[k].from \in Int /\ periods[k].to \in Int
    <3> TAKE k \in DOMAIN periods
    <3> DEFINE Periods == [from : Int, to : Int]
    <3>1. periods \in Seq(Periods)
      OBVIOUS
    <3>2. periods[k] \in Periods
      <4> HIDE DEF Periods, parts
      <4> QED
        BY <3>1
    <3> QED
      BY <3>2
  <2>2. \A k \in DOMAIN periods : periods[k].from < periods[k].to
    BY DEF InOrder
  <2> QED
    BY <2>1, <2>2 DEF Accruable
<1>2. ASSUME NEW k \in DOMAIN periods
      PROVE  CouponAccrues(periods[k], parts[k], fx, idx.lookback)
  BY <1>1, <1>2, CouponAccruesRight
<1>3. ASSUME NEW k \in DOMAIN periods, NEW j \in 1..(k - 1)
      PROVE  FixedOn(parts[j]) \cap FixedOn(parts[k]) = {}
  <2>1. j \in DOMAIN periods /\ periods[j].to <= periods[k].from
    <3> HIDE DEF parts
    <3>1. DOMAIN periods = 1..Len(periods) /\ Len(periods) \in Nat
      OBVIOUS
    <3>2. j \in DOMAIN periods
      BY <3>1
    <3>3. periods[j].to <= periods[k].from
      BY Zenon DEF InOrder
    <3> QED
      BY <3>2, <3>3
  <2>2. Used(idx, fx, periods[j]) \cap Used(idx, fx, periods[k]) = {}
    BY <1>1, <2>1, OneCouponAFixing
  <2>3. FixedOn(parts[j]) = Used(idx, fx, periods[j]) /\ FixedOn(parts[k]) = Used(idx, fx, periods[k])
    BY <1>1, <2>1, FixedOnUsed
  <2> QED
    BY <2>2, <2>3
<1> HIDE DEF parts
<1>4. AccruedOnce(periods, parts, fx, idx.lookback)
  BY <1>2, <1>3 DEF AccruedOnce
<1> QED
  BY <1>4 DEF parts

-----------------------------------------------------------------------------
(* A leg's periods.                                                          *)

\* DaysBefore numbers the days of a year.
LEMMA MonthsStart ==
  /\ \A i \in 1..12 : DaysBefore[i] \in 0..334
  /\ \A i, j \in 1..12 : i < j => DaysBefore[i] < DaysBefore[j]
<1>1. /\ DaysBefore[1] = 0 /\ DaysBefore[2] = 31 /\ DaysBefore[3] = 59 /\ DaysBefore[4] = 90
      /\ DaysBefore[5] = 120 /\ DaysBefore[6] = 151 /\ DaysBefore[7] = 181 /\ DaysBefore[8] = 212
      /\ DaysBefore[9] = 243 /\ DaysBefore[10] = 273 /\ DaysBefore[11] = 304 /\ DaysBefore[12] = 334
  BY DEF DaysBefore
<1>2. \A i \in 1..12 : i \in {1, 2, 3, 4, 5, 6, 7, 8, 9, 10, 11, 12}
  OBVIOUS
<1> QED
  BY <1>1, <1>2

\* Later months start later.
LEMMA LaterMonths ==
  ASSUME NEW a \in Int, NEW b \in Int, a < b
  PROVE  FirstOf(a) \in Int /\ FirstOf(b) \in Int /\ FirstOf(a) < FirstOf(b)
<1> DEFINE y(m) == (m - 1) \div 12
           i(m) == ((m - 1) % 12) + 1
<1>1. \A m \in Int : y(m) \in Int /\ i(m) \in 1..12 /\ m = 12 * y(m) + i(m)
  BY Z3
<1>2. /\ DaysBefore[i(a)] \in 0..334 /\ DaysBefore[i(b)] \in 0..334
      /\ i(a) < i(b) => DaysBefore[i(a)] < DaysBefore[i(b)]
  BY <1>1, MonthsStart
<1>3. /\ FirstOf(a) = 365 * y(a) + DaysBefore[i(a)] + 1
      /\ FirstOf(b) = 365 * y(b) + DaysBefore[i(b)] + 1
  BY DEF FirstOf
<1>4. y(a) < y(b) \/ (y(a) = y(b) /\ i(a) < i(b))
  BY <1>1
<1>5. y(a) \in Int /\ y(b) \in Int
  BY <1>1
<1> HIDE DEF y, i
<1>6. y(a) < y(b) => y(a) + 1 <= y(b)
  BY <1>5
<1>7. DaysBefore[i(a)] \in Int /\ DaysBefore[i(b)] \in Int
      /\ 0 <= DaysBefore[i(b)] /\ DaysBefore[i(a)] <= 334
  BY <1>2
<1> QED
  BY <1>2, <1>3, <1>4, <1>5, <1>6, <1>7

LEMMA MonthTyped ==
  ASSUME NEW d \in Int
  PROVE  MonthOf(d) \in Int
<1> DEFINE day == (d - 1) % 365
           guess == day \div 32 + 1
           y == (d - 1) \div 365
<1>1. y \in Int /\ guess \in Int
  BY Z3
<1>2. MonthOf(d) = 12 * y + (IF guess < 12 /\ DaysBefore[guess + 1] <= day THEN guess + 1 ELSE guess)
  BY DEF MonthOf
<1> HIDE DEF y, guess, day
<1> QED
  BY <1>1, <1>2

\* Adding months moves a date on.
LEMMA MonthsAdded ==
  ASSUME NEW d \in Int, NEW n \in Nat \ {0}
  PROVE  AddMonths(d, n) \in Int /\ d < AddMonths(d, n)
<1>1. MonthOf(d) \in Int /\ MonthOf(d) + n \in Int /\ MonthOf(d) < MonthOf(d) + n
  BY MonthTyped
<1>2. /\ FirstOf(MonthOf(d)) \in Int /\ FirstOf(MonthOf(d) + n) \in Int
      /\ FirstOf(MonthOf(d)) < FirstOf(MonthOf(d) + n)
  BY <1>1, LaterMonths
<1> QED
  BY <1>2 DEF AddMonths, DayIn

\* A schedule's frequency is one of the four (FREQUENCY_MONTHS), its dates are days.
IsSchedule(schedule) ==
  /\ schedule.start \in Int /\ schedule.end \in Int
  /\ schedule.frequency \in {"Monthly", "Quarterly", "SemiAnnual", "Annual"}

LEMMA StepTyped ==
  ASSUME NEW schedule, IsSchedule(schedule)
  PROVE  FrequencyMonths[schedule.frequency] \in Nat \ {0}
BY DEF IsSchedule, FrequencyMonths

\* The recursion has a solution: up to every date.
LEMMA DatesDefined ==
  ASSUME NEW schedule
  PROVE  LET dates == ScheduleDates(schedule)
             step == FrequencyMonths[schedule.frequency]
         IN /\ dates[0] = schedule.start
            /\ \A k \in 1..12 : dates[k] = IF dates[k - 1] > schedule.end THEN dates[k - 1]
                                          ELSE AddMonths(dates[k - 1], step)
<1> DEFINE step == FrequencyMonths[schedule.frequency]
           After(d) == IF d > schedule.end THEN d ELSE AddMonths(d, step)
           Upto(g, n) == g = [k \in 0..n |-> IF k = 0 THEN schedule.start ELSE After(g[k - 1])]
           Solved == {n \in 0..12 : \E g : Upto(g, n)}
<1> HIDE DEF After
<1>1. \E g : Upto(g, 12)
  <2>1. 0 \in Solved
    <3>1. Upto([k \in 0..0 |-> schedule.start], 0)
      OBVIOUS
    <3> HIDE DEF Upto
    <3>2. 0 \in 0..12 /\ \E g : Upto(g, 0)
      BY <3>1
    <3> QED
      BY <3>2
  <2>2. ASSUME NEW n \in 1..12, n - 1 \in Solved PROVE n \in Solved
    <3>1. PICK g : Upto(g, n - 1)
      BY <2>2
    <3> DEFINE h == [k \in 0..n |-> IF k = 0 THEN schedule.start ELSE After(g[k - 1])]
    <3>2. \A k \in 0..(n - 1) : g[k] = IF k = 0 THEN schedule.start ELSE After(g[k - 1])
      BY <3>1
    <3>3. \A k \in 0..n : h[k] = IF k = 0 THEN schedule.start ELSE After(g[k - 1])
      OBVIOUS
    <3> HIDE DEF Solved, Upto
    <3>4. /\ \A k \in 0..(n - 1) : k \in 0..n
          /\ \A k \in 0..n : k # 0 => k - 1 \in 0..(n - 1)
      OBVIOUS
    <3>5. \A k \in 0..(n - 1) : g[k] = h[k]
      BY <3>2, <3>3, <3>4
    <3> HIDE DEF h
    <3>6. \A k \in 0..n : k # 0 => h[k - 1] = g[k - 1]
      BY <3>4, <3>5
    <3>7. h = [k \in 0..n |-> IF k = 0 THEN schedule.start ELSE After(h[k - 1])]
      BY <3>6 DEF h
    <3>8. Upto(h, n)
      BY <3>7 DEF Upto
    <3> QED
      BY <3>8 DEF Solved
  <2>3. 0..12 \subseteq Solved
    <3> HIDE DEF Solved
    <3> QED
      BY <2>1, <2>2, AllReached
  <2> QED
    BY <2>3
<1>2. ScheduleDates(schedule) = CHOOSE g : Upto(g, 12)
  BY DEF ScheduleDates, After
<1>3. Upto(ScheduleDates(schedule), 12)
  BY <1>1, <1>2
<1>4. /\ ScheduleDates(schedule)[0] = schedule.start
      /\ \A k \in 1..12 : ScheduleDates(schedule)[k] = After(ScheduleDates(schedule)[k - 1])
  BY <1>3
<1> QED
  BY <1>4 DEF After

\* Dates never come earlier than those before them.
LEMMA DatesAscend ==
  ASSUME NEW schedule, IsSchedule(schedule)
  PROVE  LET dates == ScheduleDates(schedule) IN
         /\ \A k \in 0..12 : dates[k] \in Int
         /\ \A k \in 1..12 : dates[k - 1] <= schedule.end => dates[k - 1] < dates[k]
         /\ \A k \in 0..12 : \A j \in 0..k : dates[j] <= dates[k]
<1> DEFINE dates == ScheduleDates(schedule)
           step == FrequencyMonths[schedule.frequency]
           Dated == {k \in 0..12 : dates[k] \in Int}
           Ascending == {k \in 0..12 : \A j \in 0..k : dates[j] <= dates[k]}
<1>1. step \in Nat \ {0} /\ schedule.start \in Int /\ schedule.end \in Int
  BY StepTyped DEF IsSchedule
<1>2. /\ dates[0] = schedule.start
      /\ \A k \in 1..12 : dates[k] = IF dates[k - 1] > schedule.end THEN dates[k - 1]
                                    ELSE AddMonths(dates[k - 1], step)
  BY DatesDefined
<1> HIDE DEF dates, step
<1>3. ASSUME NEW k \in 1..12, dates[k - 1] \in Int
      PROVE  /\ dates[k] \in Int /\ dates[k - 1] <= dates[k]
             /\ dates[k - 1] <= schedule.end => dates[k - 1] < dates[k]
  <2>1. AddMonths(dates[k - 1], step) \in Int /\ dates[k - 1] < AddMonths(dates[k - 1], step)
    BY <1>1, <1>3, MonthsAdded
  <2> QED
    BY <1>1, <1>2, <1>3, <2>1
<1>4. 0..12 \subseteq Dated
  <2>1. 0 \in Dated
    BY <1>1, <1>2
  <2>2. \A k \in 1..12 : k - 1 \in Dated => k \in Dated
    BY <1>3
  <2> HIDE DEF Dated
  <2> QED
    BY <2>1, <2>2, AllReached
<1>5. \A k \in 1..12 : k - 1 \in 0..12 /\ k \in 0..12
  OBVIOUS
<1>6. 0..12 \subseteq Ascending
  <2>1. 0 \in Ascending
    BY <1>4
  <2>2. ASSUME NEW k \in 1..12, k - 1 \in Ascending PROVE k \in Ascending
    <3>1. /\ dates[k - 1] \in Int /\ dates[k] \in Int /\ dates[k - 1] <= dates[k]
          /\ \A j \in 0..(k - 1) : dates[j] \in Int /\ dates[j] <= dates[k - 1]
      BY <1>3, <1>4, <1>5, <2>2
    <3>2. \A j \in 0..k : j = k \/ j \in 0..(k - 1)
      OBVIOUS
    <3>3. \A j \in 0..k : dates[j] <= dates[k]
      BY <3>1, <3>2
    <3> QED
      BY <3>3
  <2> HIDE DEF Ascending
  <2> QED
    BY <2>1, <2>2, AllReached
<1> QED
  BY <1>3, <1>4, <1>5, <1>6 DEF dates

\* The dates up to the end come first, so there is one at each place up to their count.
LEMMA DatesCounted ==
  ASSUME NEW schedule, IsSchedule(schedule)
  PROVE  LET upToEnd == {k \in 1..12 : ScheduleDates(schedule)[k] <= schedule.end} IN
         /\ Cardinality(upToEnd) \in Nat /\ Cardinality(upToEnd) <= 12
         /\ upToEnd = 1..Cardinality(upToEnd)
<1> DEFINE dates == ScheduleDates(schedule)
           K == {k \in 1..12 : dates[k] <= schedule.end}
           count == Cardinality(K)
<1>1. /\ \A k \in 0..12 : dates[k] \in Int
      /\ \A k \in 0..12 : \A j \in 0..k : dates[j] <= dates[k]
      /\ schedule.end \in Int
  BY DatesAscend DEF IsSchedule
<1> HIDE DEF dates
<1>2. \A n \in Int : n >= 0 => IsFiniteSet(1..n) /\ Cardinality(1..n) = n
  BY FS_Interval
<1>3. K \in SUBSET (1..12)
  OBVIOUS
<1>4. count \in Nat /\ count <= 12 /\ IsFiniteSet(K)
  <2> HIDE DEF K
  <2> QED
    <3>1. IsFiniteSet(1..12) /\ Cardinality(1..12) = 12
      <4>1. 12 \in Int /\ 12 >= 0
        OBVIOUS
      <4> QED
        BY <1>2, <4>1, Zenon
    <3> QED
      BY <1>3, <3>1, FS_Subset, FS_CardinalityType
<1>5. ASSUME NEW k \in 1..count PROVE dates[k] <= schedule.end
  <2> SUFFICES ASSUME ~(dates[k] <= schedule.end) PROVE FALSE
    OBVIOUS
  <2>1. k \in 1..12 /\ k \in 0..12
    BY <1>4
  <2>2. \A j \in K : j < k
    <3> SUFFICES ASSUME NEW j \in K, ~(j < k) PROVE FALSE
      OBVIOUS
    <3>1. j \in 0..12 /\ k \in 0..j
      BY <2>1
    <3>2. dates[k] <= dates[j] /\ dates[j] <= schedule.end
      BY <1>1, <3>1
    <3> QED
      BY <1>1, <2>1, <3>1, <3>2
  <2>3. K \in SUBSET (1..(k - 1))
    BY <2>1, <2>2
  <2>4. IsFiniteSet(1..(k - 1)) /\ Cardinality(1..(k - 1)) = k - 1
    BY <1>2, <2>1
  <2>5. count <= k - 1
    <3> HIDE DEF K
    <3>1. Cardinality(K) <= Cardinality(1..(k - 1))
      BY <2>3, <2>4, FS_Subset
    <3> QED
      BY <2>4, <3>1
  <2> QED
    BY <1>4, <2>1, <2>5
<1>6. 1..count \in SUBSET K
  <2>1. \A k \in 1..count : k \in 1..12
    BY <1>4
  <2> HIDE DEF count
  <2> QED
    BY <1>5, <2>1
<1>7. 1..count = K
  <2> HIDE DEF K
  <2>1. Cardinality(1..count) = count
    BY <1>2, <1>4
  <2> QED
    BY <1>4, <1>6, <2>1, FS_Subset
<1> QED
  BY <1>4, <1>7 DEF dates

\* The last days of a schedule's periods.
LEMMA PeriodEnds ==
  ASSUME NEW schedule, IsSchedule(schedule)
  PROVE  LET dates == ScheduleDates(schedule)
             periods == CouponPeriods(schedule)
         IN {periods[k].to : k \in DOMAIN periods}
              = {dates[k] : k \in {n \in 1..12 : dates[n] <= schedule.end}}
<1> DEFINE dates == ScheduleDates(schedule)
           K == {k \in 1..12 : dates[k] <= schedule.end}
           periods == [k \in 1..Cardinality(K) |-> [from |-> dates[k - 1], to |-> dates[k]]]
<1>1. CouponPeriods(schedule) = periods
  BY DEF CouponPeriods
<1>2. K = 1..Cardinality(K)
  BY DatesCounted
<1> HIDE DEF dates, K
<1>3. {periods[k].to : k \in DOMAIN periods} = {dates[k] : k \in K}
  <2>1. DOMAIN periods = K
    BY <1>2
  <2>2. \A k \in K : periods[k].to = dates[k]
    BY <1>2
  <2> HIDE DEF periods
  <2> QED
    BY <2>1, <2>2
<1> HIDE DEF periods
<1>4. {CouponPeriods(schedule)[k].to : k \in DOMAIN CouponPeriods(schedule)} = {dates[k] : k \in K}
  BY <1>1, <1>3
<1> QED
  BY <1>4 DEF dates, K

\* A schedule's periods are in order.
LEMMA PeriodsInOrder ==
  ASSUME NEW schedule, IsSchedule(schedule)
  PROVE  LET periods == CouponPeriods(schedule) IN
         /\ periods \in Seq([from : Int, to : Int])
         /\ InOrder(periods)
<1> DEFINE dates == ScheduleDates(schedule)
           count == Cardinality({k \in 1..12 : dates[k] <= schedule.end})
           periods == [k \in 1..count |-> [from |-> dates[k - 1], to |-> dates[k]]]
<1>1. /\ \A k \in 0..12 : dates[k] \in Int
      /\ \A k \in 1..12 : dates[k - 1] <= schedule.end => dates[k - 1] < dates[k]
      /\ \A k \in 0..12 : \A j \in 0..k : dates[j] <= dates[k]
      /\ schedule.end \in Int
  BY DatesAscend DEF IsSchedule
<1>2. CouponPeriods(schedule) = periods
  BY DEF CouponPeriods
<1>3. count \in Nat /\ count <= 12 /\ {k \in 1..12 : dates[k] <= schedule.end} = 1..count
  BY DatesCounted
<1> HIDE DEF dates, count
<1>4. ASSUME NEW k \in 1..count
      PROVE  /\ dates[k - 1] \in Int /\ dates[k] \in Int /\ dates[k - 1] < dates[k]
             /\ \A j \in 1..(k - 1) : dates[j] <= dates[k - 1]
  <2>1. k \in 1..12 /\ k \in 0..12 /\ k - 1 \in 0..12 /\ k - 1 \in 0..k
    BY <1>3
  <2>2. dates[k] <= schedule.end /\ dates[k - 1] <= dates[k]
    BY <1>1, <1>3, <2>1
  <2>3. dates[k - 1] <= schedule.end
    BY <1>1, <2>1, <2>2
  <2>4. \A j \in 1..(k - 1) : j \in 0..(k - 1)
    OBVIOUS
  <2> QED
    BY <1>1, <2>1, <2>3, <2>4
<1>5. \A k \in DOMAIN periods :
        /\ k \in 1..count /\ periods[k].from = dates[k - 1] /\ periods[k].to = dates[k]
        /\ periods[k] \in [from : Int, to : Int]
  BY <1>4
<1>6. periods \in Seq([from : Int, to : Int])
  <2> DEFINE Period == [from : Int, to : Int]
  <2>1. periods \in [1..count -> Period]
    BY <1>5
  <2> HIDE DEF periods, Period
  <2>2. periods \in Seq(Period)
    BY <1>3, <2>1
  <2> QED
    BY <2>2 DEF Period
<1>7. \A k \in DOMAIN periods : \A j \in 1..(k - 1) : j \in DOMAIN periods
  BY <1>3
<1>8. InOrder(periods)
  <2> HIDE DEF periods
  <2>1. \A k \in DOMAIN periods : periods[k].from < periods[k].to
    BY <1>4, <1>5
  <2>2. \A k \in DOMAIN periods : \A j \in 1..(k - 1) : periods[j].to <= periods[k].from
    BY <1>4, <1>5, <1>7
  <2> QED
    BY <2>1, <2>2 DEF InOrder
<1> QED
  BY <1>2, <1>6, <1>8

\* Of whatever fixings have come out, whatever the lookback and the schedule, a fixing
\* enters one coupon of a leg, and every coupon accrues each day of its period as it
\* should: once, but for the days before its first fixing and, with a lookback, those
\* since the fixing it leads back to (calcCompoundedCashflow).
THEOREM EveryDayAccrues ==
  ASSUME NEW curveRate, NEW idx, idx.lookback \in Nat,
         NEW fx, DOMAIN fx \in SUBSET Int, IsFiniteSet(DOMAIN fx),
         NEW schedule, IsSchedule(schedule)
  PROVE  LET periods == CouponPeriods(schedule) IN
         /\ InOrder(periods)
         /\ AccruedOnce(periods,
                        [k \in DOMAIN periods |-> Accruals(curveRate, idx, fx, periods[k])],
                        fx, idx.lookback)
BY PeriodsInOrder, LegAccrues

-----------------------------------------------------------------------------
(* A leg's payments.  Every amount is even, which is what makes conversion add up. *)

Evens == {n \in Int : Even(n)}

Payments == [date : Int, amount : Evens]

LEMMA EvenTimes ==
  ASSUME NEW a \in Int, NEW b \in Evens
  PROVE  a * b \in Evens /\ b * a \in Evens
<1>1. PICK n \in Int : b = 2 * n
  BY DEF Evens, Even
<1>2. a * n \in Int /\ a * b = 2 * (a * n) /\ b * a = 2 * (a * n) /\ a * b \in Int
  BY <1>1
<1> QED
  BY <1>2 DEF Evens, Even

LEMMA EvenAdded ==
  ASSUME NEW a \in Evens, NEW b \in Evens
  PROVE  a + b \in Evens /\ a - b \in Evens /\ -a \in Evens
<1>1. PICK n \in Int : a = 2 * n
  BY DEF Evens, Even
<1>2. PICK m \in Int : b = 2 * m
  BY DEF Evens, Even
<1>3. a + b = 2 * (n + m) /\ a - b = 2 * (n - m) /\ -a = 2 * (-n)
  BY <1>1, <1>2
<1>4. /\ n + m \in Int /\ n - m \in Int /\ -n \in Int
      /\ a + b \in Int /\ a - b \in Int /\ -a \in Int
  BY <1>1, <1>2
<1>5. Even(a + b) /\ Even(a - b) /\ Even(-a)
  BY <1>3, <1>4, Zenon DEF Even
<1> QED
  BY <1>4, <1>5 DEF Evens

LEMMA EvenConstants ==
  0 \in Evens /\ 144 \in Evens /\ 146 \in Evens /\ Whole \in Evens
<1>1. 0 = 2 * 0 /\ 144 = 2 * 72 /\ 146 = 2 * 73 /\ Whole = 2 * 2628000
  BY DEF Whole, Unit
<1> QED
  BY <1>1 DEF Evens, Even

LEMMA EvensAreInt == Evens \subseteq Int
BY DEF Evens

\* An index as the ledger has it, or none.
IsIndex(index) ==
  \/ index = NoIndex
  \/ index \in [indexId : STRING, family : STRING, lookback : Nat, floor : Int]

\* Fixings as they come out.
AreFixings(fixes) ==
  /\ DOMAIN fixes \in SUBSET Int /\ IsFiniteSet(DOMAIN fixes)
  /\ \A d \in DOMAIN fixes : fixes[d] \in Int

IsContext(ctx) ==
  /\ ctx.asOf \in Nat /\ ctx.rate \in Int /\ ctx.lastPillar \in Nat
  /\ IsIndex(ctx.index)
  /\ \A i \in DOMAIN ctx.indicesByLeg : IsIndex(ctx.indicesByLeg[i])
  /\ AreFixings(ctx.observations)
  /\ \A c \in DOMAIN ctx.book :
       \A id \in DOMAIN ctx.book[c] : ctx.book[c][id] \in Int
  /\ \A pair \in DOMAIN ctx.fxSpots : ctx.fxSpots[pair] \in Int

\* A leg with what its type of flows is made of.
IsLeg(leg) ==
  /\ leg.legType \in {"fixed", "float", "fx", "asset"}
  /\ leg.notional \in Int
  /\ IsSchedule(leg.schedule)
  /\ leg.legType \in {"fixed", "fx"} => leg.rate \in Int
  /\ leg.legType = "float" => leg.spread \in Int
  /\ leg.legType = "fx" => leg.paymentDate \in Int
  /\ leg.legType = "asset" => leg.return \in Int

LEMMA DaysTyped ==
  ASSUME NEW from \in Int, NEW to \in Int, NEW dayCount
  PROVE  DayCountDays(from, to, dayCount) \in Int /\ YearFraction(from, to, dayCount) \in Evens
<1>1. \A d \in Int : MonthOf(d) \in Int /\ DayIn(d) \in Int
  <2> TAKE d \in Int
  <2>1. MonthOf(d) \in Int /\ MonthOf(d) + 1 \in Int /\ MonthOf(d) < MonthOf(d) + 1
    BY MonthTyped
  <2>2. FirstOf(MonthOf(d)) \in Int
    BY <2>1, LaterMonths
  <2> QED
    BY <2>1, <2>2 DEF DayIn
<1>2. \A n \in Int : Min({n, 30}) \in Int
  <2> TAKE n \in Int
  <2>1. IsFiniteSet({n, 30})
    <3>1. {n, 30} = {n} \cup {30}
      OBVIOUS
    <3>2. IsFiniteSet({n})
      BY FS_Singleton
    <3>3. IsFiniteSet({n} \cup {30})
      BY <3>2, FS_AddElement
    <3> QED
      BY <3>1, <3>3, Zenon
  <2> QED
    BY <2>1, MinOfDays
<1>3. DayCountDays(from, to, dayCount) \in Int
  BY <1>1, <1>2 DEF DayCountDays
<1> QED
  BY <1>3, EvenTimes, EvenConstants DEF YearFraction

\* The three coupons.
LEMMA FixedTyped ==
  ASSUME NEW leg, leg.notional \in Int, leg.rate \in Int, NEW coupon,
         coupon.from \in Int, coupon.to \in Int
  PROVE  FixedCoupon(leg, coupon) \in Evens
<1>1. leg.notional * leg.rate \in Int
  OBVIOUS
<1> QED
  BY <1>1, DaysTyped, EvenTimes DEF FixedCoupon

LEMMA ProjectedTyped ==
  ASSUME NEW leg, leg.notional \in Int, leg.spread \in Int, NEW curveRate \in Int, NEW coupon,
         coupon.from \in Int, coupon.to \in Int
  PROVE  ProjectedCoupon(curveRate, leg, coupon) \in Evens
<1>1. leg.notional * (curveRate + leg.spread) \in Int
  OBVIOUS
<1> QED
  BY <1>1, DaysTyped, EvenTimes DEF ProjectedCoupon

LEMMA AccrualsTyped ==
  ASSUME NEW curveRate \in Int, NEW idx, idx.lookback \in Nat, idx.floor \in Int,
         NEW fx, AreFixings(fx), NEW coupon, coupon.from \in Int, coupon.to \in Int,
         coupon.from < coupon.to
  PROVE  LET pieces == Accruals(curveRate, idx, fx, coupon) IN
         /\ IsFiniteSet(pieces)
         /\ \A a \in pieces : a.rate * (a.to - a.from) \in Int
<1> DEFINE pieces == Accruals(curveRate, idx, fx, coupon)
           used == Used(idx, fx, coupon)
           fixed == {Piece(idx, fx, coupon, f) : f \in used}
           curve == IF CurveFrom(idx, fx, coupon) >= coupon.to THEN {}
                    ELSE {CurvePiece(curveRate, idx, fx, coupon)}
<1>0. Accruable(idx, fx, coupon)
  BY DEF Accruable, AreFixings
<1>1. used \in SUBSET Int /\ IsFiniteSet(used) /\ used \subseteq DOMAIN fx
      /\ \A f \in used : f < coupon.to
  <2>1. used \subseteq DOMAIN fx
    BY DEF Used, UsedIn
  <2>2. used \in SUBSET Int /\ IsFiniteSet(used) /\ \A f \in used : f < coupon.to
    BY <1>0, UsedFixings
  <2> QED
    BY <2>1, <2>2
<1>2. pieces = fixed \cup curve
  BY PiecesOf, Zenon
<1>3. IsFiniteSet(fixed)
  <2> DEFINE g == [f \in used |-> Piece(idx, fx, coupon, f)]
  <2>1. g \in Surjection(used, fixed)
    BY DEF Surjection
  <2> HIDE DEF used, fixed, g
  <2> QED
    BY <1>1, <2>1, FS_Surjection
<1>4. IsFiniteSet(curve)
  BY FS_EmptySet, FS_Singleton
<1>5. \A a \in fixed : a.rate * (a.to - a.from) \in Int
  <2> SUFFICES ASSUME NEW f \in used
               PROVE  LET a == Piece(idx, fx, coupon, f) IN a.rate * (a.to - a.from) \in Int
    OBVIOUS
  <2>1. RunsTo(used, coupon, f) \in Int
    <3> HIDE DEF used
    <3> QED
      BY <1>1, RunsOn
  <2>2. f \in Int /\ fx[f] \in Int
    BY <1>1 DEF AreFixings
  <2>3. Max({fx[f], idx.floor}) \in Int
    BY <2>2, MaxOfTwo
  <2> DEFINE a == Piece(idx, fx, coupon, f)
  <2>4. a.rate \in Int /\ a.to \in Int /\ a.from \in Int
    BY <2>1, <2>2, <2>3 DEF Piece
  <2> HIDE DEF a
  <2> QED
    BY <2>4 DEF a
<1>6. \A a \in curve : a.rate * (a.to - a.from) \in Int
  <2>1. CurveFrom(idx, fx, coupon) \in Int
    BY <1>0, CurveFromInCoupon
  <2> QED
    BY <2>1 DEF CurvePiece
<1>7. IsFiniteSet(fixed \cup curve)
  <2> HIDE DEF fixed, curve
  <2> QED
    BY <1>3, <1>4, FS_Union
<1>8. \A a \in fixed \cup curve : a.rate * (a.to - a.from) \in Int
  <2> HIDE DEF fixed, curve
  <2> QED
    BY <1>5, <1>6
<1> HIDE DEF pieces, fixed, curve
<1>9. IsFiniteSet(pieces) /\ \A a \in pieces : a.rate * (a.to - a.from) \in Int
  BY <1>2, <1>7, <1>8
<1> QED
  BY <1>9 DEF pieces

LEMMA CompoundedTyped ==
  ASSUME NEW curveRate \in Int, NEW idx, IsIndex(idx), idx # NoIndex,
         NEW fx, AreFixings(fx), NEW leg, leg.notional \in Int,
         NEW coupon, coupon.from \in Int, coupon.to \in Int, coupon.from < coupon.to
  PROVE  CompoundedCoupon(curveRate, idx, fx, leg, coupon) \in Evens
<1> DEFINE pieces == Accruals(curveRate, idx, fx, coupon)
           amounts == [a \in pieces |-> a.rate * (a.to - a.from)]
           sum == SumFunction(amounts)
<1>1. idx.lookback \in Nat /\ idx.floor \in Int
  BY DEF IsIndex
<1>2. IsFiniteSet(pieces) /\ \A a \in pieces : amounts[a] \in Int
  BY <1>1, AccrualsTyped
<1>3. sum \in Int
  <2>1. DOMAIN amounts = pieces
    OBVIOUS
  <2>2. SumFunctionOnSet(amounts, pieces) \in Int
    <3> HIDE DEF pieces, amounts
    <3> QED
      BY <1>2, SumTyped
  <2> HIDE DEF amounts
  <2> QED
    BY <2>1, <2>2, SumOfFunction
<1>4. DayParts(idx) \in Evens
  BY EvenConstants DEF DayParts
<1>5. leg.notional * DayParts(idx) \in Evens
  BY <1>4, EvenTimes
<1>6. CompoundedCoupon(curveRate, idx, fx, leg, coupon) = leg.notional * DayParts(idx) * sum
  BY DEF CompoundedCoupon
<1> HIDE DEF sum
<1> QED
  BY <1>3, <1>5, <1>6, EvenTimes

LEMMA FloatTyped ==
  ASSUME NEW curveRate \in Int, NEW idx, IsIndex(idx), NEW fx, AreFixings(fx),
         NEW leg, leg.notional \in Int, leg.spread \in Int,
         NEW coupon, coupon.from \in Int, coupon.to \in Int, coupon.from < coupon.to
  PROVE  /\ FloatCoupon(curveRate, idx, fx, leg, coupon) \in Evens
         /\ SpreadOnTop(idx, leg, coupon) \in Evens
<1>1. FloatCoupon(curveRate, idx, fx, leg, coupon) \in Evens
  BY ProjectedTyped, CompoundedTyped DEF FloatCoupon
<1>2. SpreadOnTop(idx, leg, coupon) \in Evens
  <2>1. leg.spread * leg.notional \in Int
    OBVIOUS
  <2> QED
    BY <2>1, DaysTyped, EvenTimes, EvenConstants DEF SpreadOnTop
<1> QED
  BY <1>1, <1>2

LEMMA ProjectionTyped ==
  ASSUME NEW ctx, IsContext(ctx), NEW leg
  PROVE  ProjectedRate(leg, ctx) \in Int
BY DEF IsContext, ProjectedRate

LEMMA LegIndexTyped ==
  ASSUME NEW ctx, IsContext(ctx), NEW i
  PROVE  IsIndex(LegIndex(ctx, i))
BY DEF IsContext, LegIndex

Families == {"IRS", "OIS", "BASIS", "XCCY", "CCY", "FX", "ASSET", "FpML"}

\* The period of a coupon.
LEMMA PeriodsTyped ==
  ASSUME NEW schedule, IsSchedule(schedule)
  PROVE  LET periods == CouponPeriods(schedule) IN
         /\ DOMAIN periods = 1..Len(periods) /\ Len(periods) \in Nat
         /\ IsFiniteSet(DOMAIN periods)
         /\ \A k \in DOMAIN periods : /\ periods[k].from \in Int /\ periods[k].to \in Int
                                      /\ periods[k].from < periods[k].to
<1> DEFINE periods == CouponPeriods(schedule)
           Period == [from : Int, to : Int]
<1>1. periods \in Seq(Period) /\ InOrder(periods)
  BY PeriodsInOrder
<1> HIDE DEF periods, Period
<1>2. DOMAIN periods = 1..Len(periods) /\ Len(periods) \in Nat /\ \A k \in DOMAIN periods : periods[k] \in Period
  BY <1>1
<1>3. IsFiniteSet(DOMAIN periods)
  BY <1>2, FS_Interval
<1>4. \A k \in DOMAIN periods : periods[k].from < periods[k].to
  BY <1>1 DEF InOrder
<1> QED
  BY <1>2, <1>3, <1>4 DEF periods, Period

LEMMA CouponsTyped ==
  ASSUME NEW schedule, IsSchedule(schedule), NEW amounts,
         \A k \in DOMAIN CouponPeriods(schedule) : amounts[k] \in Evens
  PROVE  Coupons(CouponPeriods(schedule), amounts) \in Seq(Payments)
<1> DEFINE periods == CouponPeriods(schedule)
           flows == Coupons(periods, amounts)
           n == Len(periods)
<1>1. DOMAIN periods = 1..n /\ n \in Nat /\ \A k \in DOMAIN periods : periods[k].to \in Int
  BY PeriodsTyped
<1> HIDE DEF periods, n
<1>2. flows = [k \in 1..n |-> [date |-> periods[k].to, amount |-> amounts[k]]]
  BY <1>1 DEF Coupons
<1>3. \A k \in 1..n : [date |-> periods[k].to, amount |-> amounts[k]] \in Payments
  BY <1>1 DEF periods, Payments
<1>4. flows \in [1..n -> Payments]
  BY <1>2, <1>3
<1> HIDE DEF flows
<1>5. flows \in Seq(Payments)
  BY <1>1, <1>4
<1> QED
  BY <1>5 DEF flows, periods

\* The coupons of a fixed leg and, either way, of a floating one.
LEMMA CouponFlowsTyped ==
  ASSUME NEW ctx, IsContext(ctx), NEW leg, IsLeg(leg), NEW i, NEW curveRate \in Int
  PROVE  /\ leg.legType = "fixed" => FixedFlows(leg) \in Seq(Payments)
         /\ leg.legType = "float" => FloatFlows(leg, ctx, curveRate) \in Seq(Payments)
         /\ leg.legType = "float" => SpreadFlows(leg, ctx, i) \in Seq(Payments)
<1> DEFINE periods == CouponPeriods(leg.schedule)
<1>0. leg.notional \in Int /\ IsSchedule(leg.schedule)
  BY DEF IsLeg
<1>1. \A k \in DOMAIN periods : /\ periods[k].from \in Int /\ periods[k].to \in Int
                                /\ periods[k].from < periods[k].to
  BY <1>0, PeriodsTyped
<1>2. ASSUME leg.legType = "fixed" PROVE FixedFlows(leg) \in Seq(Payments)
  <2> DEFINE amounts == [k \in DOMAIN periods |-> FixedCoupon(leg, periods[k])]
  <2>1. leg.rate \in Int
    BY <1>2 DEF IsLeg
  <2>2. \A k \in DOMAIN periods : amounts[k] \in Evens
    BY <1>0, <1>1, <2>1, FixedTyped
  <2>3. Coupons(periods, amounts) \in Seq(Payments)
    <3> HIDE DEF amounts
    <3> QED
      BY <1>0, <2>2, CouponsTyped
  <2> QED
    BY <2>3 DEF FixedFlows
<1>3. ASSUME leg.legType = "float" PROVE FloatFlows(leg, ctx, curveRate) \in Seq(Payments)
  <2> DEFINE amounts == [k \in DOMAIN periods |->
                           FloatCoupon(curveRate, ctx.index, ctx.observations, leg, periods[k])]
  <2>1. leg.spread \in Int /\ IsIndex(ctx.index) /\ AreFixings(ctx.observations)
    BY <1>3 DEF IsLeg, IsContext
  <2>2. \A k \in DOMAIN periods : amounts[k] \in Evens
    BY <1>0, <1>1, <2>1, FloatTyped
  <2>3. Coupons(periods, amounts) \in Seq(Payments)
    <3> HIDE DEF amounts
    <3> QED
      BY <1>0, <2>2, CouponsTyped
  <2> QED
    BY <2>3 DEF FloatFlows
<1>4. ASSUME leg.legType = "float" PROVE SpreadFlows(leg, ctx, i) \in Seq(Payments)
  <2> DEFINE rate == ProjectedRate(leg, ctx)
             index == LegIndex(ctx, i)
             amounts == [k \in DOMAIN periods |->
                           FloatCoupon(rate, index, ctx.observations, leg, periods[k])
                           + SpreadOnTop(index, leg, periods[k])]
  <2>1. leg.spread \in Int /\ IsIndex(index) /\ AreFixings(ctx.observations) /\ rate \in Int
    BY <1>4, LegIndexTyped, ProjectionTyped DEF IsLeg, IsContext
  <2> HIDE DEF index, rate
  <2>2. \A k \in DOMAIN periods : amounts[k] \in Evens
    <3> TAKE k \in DOMAIN periods
    <3>1. /\ FloatCoupon(rate, index, ctx.observations, leg, periods[k]) \in Evens
          /\ SpreadOnTop(index, leg, periods[k]) \in Evens
      BY <1>0, <1>1, <2>1, FloatTyped
    <3> QED
      BY <3>1, EvenAdded
  <2>3. Coupons(periods, amounts) \in Seq(Payments)
    <3> HIDE DEF amounts
    <3> QED
      BY <1>0, <2>2, CouponsTyped
  <2> QED
    BY <2>3 DEF SpreadFlows, rate, index
<1> QED
  BY <1>2, <1>3, <1>4

\* Principal and the payments of FX and asset legs.
LEMMA PrincipalTyped ==
  ASSUME NEW leg, IsLeg(leg)
  PROVE  <<[date |-> leg.schedule.start, amount |-> -leg.notional * Whole],
           [date |-> leg.schedule.end, amount |-> leg.notional * Whole]>> \in Seq(Payments)
<1>1. leg.notional \in Int /\ -leg.notional \in Int /\ leg.schedule.start \in Int /\ leg.schedule.end \in Int
  BY DEF IsLeg, IsSchedule
<1>2. -leg.notional * Whole \in Evens /\ leg.notional * Whole \in Evens
  <2>1. leg.notional * Whole \in Evens
    BY <1>1, EvenTimes, EvenConstants
  <2>2. -(leg.notional * Whole) \in Evens
    BY <2>1, EvenAdded
  <2> QED
    BY <2>1, <2>2
<1> QED
  BY <1>1, <1>2 DEF Payments

LEMMA OnePaymentTyped ==
  ASSUME NEW date \in Int, NEW a \in Int, NEW b \in Int
  PROVE  <<[date |-> date, amount |-> a * b * Whole]>> \in Seq(Payments)
<1>1. a * b \in Int
  OBVIOUS
<1>2. a * b * Whole \in Evens
  BY <1>1, EvenTimes, EvenConstants
<1> QED
  BY <1>2 DEF Payments

LEMMA LegFlowsTyped ==
  ASSUME NEW type \in Families, NEW ctx, IsContext(ctx), NEW leg, IsLeg(leg), NEW i
  PROVE  LegFlows(type, leg, ctx, i) \in Seq(Payments)
<1> DEFINE fixed == FixedFlows(leg)
           rate == IF type = "ASSET" THEN ctx.rate ELSE ProjectedRate(leg, ctx)
           float == FloatFlows(leg, ctx, rate)
           spread == SpreadFlows(leg, ctx, i)
<1>0. rate \in Int
  BY ProjectionTyped DEF IsContext
<1> HIDE DEF rate
<1>1. /\ leg.legType = "fixed" => fixed \in Seq(Payments)
      /\ leg.legType = "float" => float \in Seq(Payments)
      /\ leg.legType = "float" => spread \in Seq(Payments)
  BY <1>0, CouponFlowsTyped
<1> HIDE DEF fixed, float, spread
<1>2. <<>> \in Seq(Payments)
  OBVIOUS
<1>3. IrsFlows(leg, fixed, float) \in Seq(Payments)
  BY <1>1, <1>2 DEF IrsFlows
<1>4. BasisFlows(leg, spread) \in Seq(Payments)
  BY <1>1, <1>2 DEF BasisFlows
<1>5. XccyFlows(leg, fixed, spread) \in Seq(Payments)
  <2>1. CASE leg.legType \notin {"fixed", "float"}
    BY <1>2, <2>1 DEF XccyFlows
  <2>2. CASE leg.legType \in {"fixed", "float"}
    <3> DEFINE principal == <<[date |-> leg.schedule.start, amount |-> -leg.notional * Whole],
                              [date |-> leg.schedule.end, amount |-> leg.notional * Whole]>>
               coupons == IF leg.legType = "fixed" THEN fixed ELSE spread
    <3>1. principal \in Seq(Payments) /\ coupons \in Seq(Payments)
      BY <1>1, <2>2, PrincipalTyped
    <3>2. XccyFlows(leg, fixed, spread) = principal \o coupons
      BY <2>2 DEF XccyFlows
    <3> HIDE DEF principal, coupons
    <3> QED
      BY <3>1, <3>2
  <2> QED
    BY <2>1, <2>2
<1>6. CcyFlows(leg, fixed) \in Seq(Payments)
  BY <1>1, <1>2 DEF CcyFlows
<1>7. FxFlows(leg) \in Seq(Payments)
  <2>1. CASE leg.legType = "fx"
    <3>1. leg.paymentDate \in Int /\ leg.notional \in Int /\ leg.rate \in Int
      BY <2>1 DEF IsLeg
    <3> QED
      BY <2>1, <3>1, OnePaymentTyped DEF FxFlows
  <2>2. CASE leg.legType # "fx"
    BY <1>2, <2>2 DEF FxFlows
  <2> QED
    BY <2>1, <2>2
<1>8. AssetFlows(leg, ctx, fixed, float) \in Seq(Payments)
  <2>1. CASE leg.legType = "asset"
    <3>1. ctx.asOf + ctx.lastPillar \in Int /\ leg.notional \in Int /\ leg.return \in Int
      BY <2>1 DEF IsLeg, IsContext
    <3> QED
      BY <2>1, <3>1, OnePaymentTyped DEF AssetFlows
  <2>2. CASE leg.legType # "asset"
    BY <1>3, <2>2 DEF AssetFlows
  <2> QED
    BY <2>1, <2>2
<1>9. FpmlFlows(leg, ctx, fixed, float) \in Seq(Payments)
  BY <1>3, <1>7, <1>8 DEF FpmlFlows
<1>10. StrategyFlows(type, leg, ctx, fixed, float, spread) \in Seq(Payments)
  BY <1>3, <1>4, <1>5, <1>6, <1>7, <1>8, <1>9 DEF StrategyFlows, Families
<1> QED
  BY <1>10 DEF LegFlows, fixed, float, spread, rate

\* What is summed of a leg's payments is even.
LEMMA SumOverTyped ==
  ASSUME NEW flows \in Seq(Payments), NEW counted \in SUBSET DOMAIN flows
  PROVE  SumOver(flows, counted) \in Evens
<1> DEFINE f == [k \in counted |-> flows[k].amount]
<1>1. IsFiniteSet(counted)
  <2>1. DOMAIN flows = 1..Len(flows) /\ Len(flows) \in Nat
    OBVIOUS
  <2>2. IsFiniteSet(DOMAIN flows)
    BY <2>1, FS_Interval
  <2> QED
    BY <2>2, FS_Subset
<1>2. \A k \in counted : f[k] \in Evens
  <2>1. \A k \in DOMAIN flows : flows[k] \in Payments
    OBVIOUS
  <2> QED
    BY <2>1 DEF Payments
<1>3. DOMAIN f = counted
  OBVIOUS
<1> HIDE DEF f
<1>4. /\ SumFunctionOnSet(f, counted) \in Int
      /\ Even(SumFunctionOnSet(f, counted))
  BY <1>1, <1>2, SumTyped, SumEven DEF Evens
<1>5. SumFunction(f) \in Evens
  BY <1>3, <1>4, SumOfFunction DEF Evens
<1> QED
  BY <1>5 DEF SumOver, f

LEMMA LegPvTyped ==
  ASSUME NEW flows \in Seq(Payments), NEW cutoff
  PROVE  LegPv(flows, cutoff) \in Evens
<1>1. {k \in DOMAIN flows : Unsettled(flows[k].date, cutoff)} \in SUBSET DOMAIN flows
  OBVIOUS
<1> QED
  BY <1>1, SumOverTyped DEF LegPv

-----------------------------------------------------------------------------
(* Conversion, and the value of a leg.                                     *)

LEMMA HalfOfEven ==
  ASSUME NEW a \in Evens
  PROVE  /\ a \div 1 = a
         /\ a \div 2 \in Int /\ a = 2 * (a \div 2)
<1>1. PICK n \in Int : a = 2 * n
  BY DEF Evens, Even
<1>2. (2 * n) \div 2 = n /\ (2 * n) \div 1 = 2 * n
  BY Z3
<1> QED
  BY <1>1, <1>2

\* Conversion adds up and keeps the sign.
LEMMA ConversionLinear ==
  ASSUME NEW fxSpots, \A pair \in DOMAIN fxSpots : fxSpots[pair] \in Int,
         NEW from, NEW to, CanConvert(from, to, fxSpots), NEW a \in Evens, NEW b \in Evens
  PROVE  LET in(x) == Converted(x, from, to, fxSpots) IN
         /\ in(a) \in Int /\ in(b) \in Int
         /\ in(a + b) = in(a) + in(b) /\ in(a - b) = in(a) - in(b) /\ in(-a) = -in(a)
<1>0. /\ a \in Int /\ b \in Int
      /\ a + b \in Evens /\ a - b \in Evens /\ -a \in Evens
  BY EvenAdded, EvensAreInt
<1>1. CASE from = to
  BY <1>0, <1>1 DEF Converted
<1>2. CASE from # to /\ <<from, to>> \in DOMAIN fxSpots
  <2> DEFINE spot == fxSpots[<<from, to>>]
  <2>1. spot \in Int
    BY <1>2
  <2>2. \A x : Converted(x, from, to, fxSpots) = x * spot
    BY <1>2 DEF Converted
  <2> HIDE DEF spot
  <2>3. /\ a * spot \in Int /\ b * spot \in Int
        /\ (a + b) * spot = a * spot + b * spot
        /\ (a - b) * spot = a * spot - b * spot
        /\ (-a) * spot = -(a * spot)
    BY <1>0, <2>1
  <2> QED
    BY <2>2, <2>3
<1>3. CASE from # to /\ <<from, to>> \notin DOMAIN fxSpots
  <2> DEFINE spot == fxSpots[<<to, from>>]
  <2>1. spot \in {1, 2}
    BY <1>3 DEF CanConvert
  <2>2. \A x : Converted(x, from, to, fxSpots) = x \div spot
    BY <1>3 DEF Converted
  <2> HIDE DEF spot
  <2>3. \A x \in Evens : x \div 1 = x /\ x \div 2 \in Int /\ x = 2 * (x \div 2)
    BY HalfOfEven
  <2>4. CASE spot = 1
    BY <1>0, <2>2, <2>3, <2>4
  <2>5. CASE spot = 2
    <3>1. /\ a \div 2 \in Int /\ b \div 2 \in Int /\ a = 2 * (a \div 2) /\ b = 2 * (b \div 2)
          /\ (a + b) \div 2 \in Int /\ a + b = 2 * ((a + b) \div 2)
          /\ (a - b) \div 2 \in Int /\ a - b = 2 * ((a - b) \div 2)
          /\ (-a) \div 2 \in Int /\ -a = 2 * ((-a) \div 2)
      BY <1>0, <2>3
    <3>2. /\ (a + b) \div 2 = a \div 2 + b \div 2
          /\ (a - b) \div 2 = a \div 2 - b \div 2
          /\ (-a) \div 2 = -(a \div 2)
      <4> DEFINE x == a \div 2
                 y == b \div 2
                 p == (a + b) \div 2
                 q == (a - b) \div 2
                 r == (-a) \div 2
      <4>1. /\ x \in Int /\ y \in Int /\ p \in Int /\ q \in Int /\ r \in Int
            /\ a = 2 * x /\ b = 2 * y /\ a + b = 2 * p /\ a - b = 2 * q /\ -a = 2 * r
        BY <3>1
      <4> HIDE DEF x, y, p, q, r
      <4>2. p = x + y /\ q = x - y /\ r = -x
        BY <4>1
      <4> QED
        BY <4>2 DEF x, y, p, q, r
    <3> QED
      BY <2>2, <2>5, <3>1, <3>2
  <2> QED
    BY <2>1, <2>4, <2>5
<1> QED
  BY <1>1, <1>2, <1>3

\* A swap as the engine gets it, in a context that has its spots.
IsConfig(config) ==
  /\ config.type \in Families
  /\ \E n \in Nat \ {0} : DOMAIN config.legs = 1..n
  /\ \A i \in DOMAIN config.legs : IsLeg(config.legs[i])

Convertible(config, ctx) ==
  LET reporting == ReportingCurrency(config) IN
  \A i \in DOMAIN config.legs :
    CanConvert(LegCurrency(config.legs[i], reporting), reporting, ctx.fxSpots)

LEMMA InReportingLinear ==
  ASSUME NEW config, NEW ctx, IsContext(ctx), Convertible(config, ctx),
         NEW i \in DOMAIN config.legs, NEW a \in Evens, NEW b \in Evens
  PROVE  LET in(x) == InReportingCurrency(config, i, ctx, x) IN
         /\ in(a) \in Int /\ in(b) \in Int
         /\ in(a + b) = in(a) + in(b) /\ in(a - b) = in(a) - in(b) /\ in(-a) = -in(a)
<1> DEFINE reporting == ReportingCurrency(config)
           from == LegCurrency(config.legs[i], reporting)
           spots == ctx.fxSpots
<1>1. CanConvert(from, reporting, spots)
  BY DEF Convertible
<1>2. \A pair \in DOMAIN spots : spots[pair] \in Int
  BY DEF IsContext
<1>3. \A x : InReportingCurrency(config, i, ctx, x) = Converted(x, from, reporting, spots)
  BY DEF InReportingCurrency
<1> HIDE DEF reporting, from, spots
<1>4. LET in(x) == Converted(x, from, reporting, spots) IN
      /\ in(a) \in Int /\ in(b) \in Int
      /\ in(a + b) = in(a) + in(b) /\ in(a - b) = in(a) - in(b) /\ in(-a) = -in(a)
  BY <1>1, <1>2, ConversionLinear
<1> QED
  BY <1>3, <1>4

\* Only a currency swap with principal converts into its value.
InValueConvertible(config, ctx) == config.type = "XCCY" => Convertible(config, ctx)

LEMMA InValueLinear ==
  ASSUME NEW config, NEW ctx, IsContext(ctx), InValueConvertible(config, ctx),
         NEW i \in DOMAIN config.legs, NEW a \in Evens, NEW b \in Evens
  PROVE  LET in(x) == InValue(config, i, ctx, x) IN
         /\ in(a) \in Int /\ in(b) \in Int
         /\ in(a + b) = in(a) + in(b) /\ in(a - b) = in(a) - in(b) /\ in(-a) = -in(a)
<1>0. a \in Int /\ b \in Int
  BY EvensAreInt
<1>1. CASE config.type = "XCCY"
  <2>1. Convertible(config, ctx)
    BY <1>1 DEF InValueConvertible
  <2>2. \A x : InValue(config, i, ctx, x) = InReportingCurrency(config, i, ctx, x)
    BY <1>1 DEF InValue
  <2>3. LET in(x) == InReportingCurrency(config, i, ctx, x) IN
        /\ in(a) \in Int /\ in(b) \in Int
        /\ in(a + b) = in(a) + in(b) /\ in(a - b) = in(a) - in(b) /\ in(-a) = -in(a)
    BY <2>1, InReportingLinear
  <2> QED
    BY <2>2, <2>3
<1>2. CASE config.type # "XCCY"
  BY <1>0, <1>2 DEF InValue
<1> QED
  BY <1>1, <1>2

\* The leg's direction comes out of its value.
LEMMA LegValueSigned ==
  ASSUME NEW config, IsConfig(config), NEW ctx, IsContext(ctx), InValueConvertible(config, ctx),
         NEW i \in DOMAIN config.legs, NEW cutoff
  PROVE  LET leg == config.legs[i]
             pv == LegPv(LegFlows(config.type, leg, ctx, i), cutoff)
         IN /\ pv \in Evens /\ InValue(config, i, ctx, pv) \in Int
            /\ LegValue(config, ctx, i, cutoff) = Sign(leg) * InValue(config, i, ctx, pv)
            /\ LegValue(config, ctx, i, cutoff) \in Int
<1> DEFINE leg == config.legs[i]
           flows == LegFlows(config.type, leg, ctx, i)
           pv == LegPv(flows, cutoff)
<1>1. IsLeg(leg) /\ config.type \in Families
  BY DEF IsConfig
<1>2. flows \in Seq(Payments)
  BY <1>1, LegFlowsTyped
<1>3. pv \in Evens
  <2> HIDE DEF flows
  <2> QED
    BY <1>2, LegPvTyped
<1>4. LegValue(config, ctx, i, cutoff) = InValue(config, i, ctx, Sign(leg) * pv)
  BY DEF LegValue
<1> HIDE DEF pv
<1>5. InValue(config, i, ctx, pv) \in Int /\ InValue(config, i, ctx, -pv) = -InValue(config, i, ctx, pv)
  BY <1>3, InValueLinear
<1>6. pv \in Int
  BY <1>3, EvensAreInt
<1>7. CASE Sign(leg) = 1
  <2>1. 1 * pv = pv
    BY <1>6
  <2> QED
    BY <1>3, <1>4, <1>5, <1>7, <2>1 DEF pv
<1>8. CASE Sign(leg) = -1
  <2>1. (-1) * pv = -pv
    BY <1>6
  <2>2. (-1) * InValue(config, i, ctx, pv) = -InValue(config, i, ctx, pv)
    BY <1>5
  <2> QED
    BY <1>3, <1>4, <1>5, <1>8, <2>1, <2>2 DEF pv
<1> QED
  BY <1>7, <1>8 DEF Sign

LEMMA NpvTyped ==
  ASSUME NEW config, IsConfig(config), NEW ctx, IsContext(ctx), InValueConvertible(config, ctx),
         NEW cutoff
  PROVE  Npv(config, ctx, cutoff) \in Int
<1> DEFINE f == [i \in DOMAIN config.legs |-> LegValue(config, ctx, i, cutoff)]
<1>1. IsFiniteSet(DOMAIN config.legs)
  BY FS_Interval DEF IsConfig
<1>2. \A i \in DOMAIN config.legs : f[i] \in Int
  BY LegValueSigned
<1>3. DOMAIN f = DOMAIN config.legs
  OBVIOUS
<1> HIDE DEF f
<1>4. SumFunctionOnSet(f, DOMAIN config.legs) \in Int
  BY <1>1, <1>2, SumTyped
<1>5. SumFunction(f) \in Int
  BY <1>3, <1>4, SumOfFunction
<1> QED
  BY <1>5 DEF Npv, f

\* The price of two legs is the sum of their values.
LEMMA PriceOfTwo ==
  ASSUME NEW config, IsConfig(config), DOMAIN config.legs = 1..2,
         NEW ctx, IsContext(ctx), InValueConvertible(config, ctx)
  PROVE  /\ Price(config, ctx)
              = LegValue(config, ctx, 1, ctx.asOf) + LegValue(config, ctx, 2, ctx.asOf)
         /\ LegValue(config, ctx, 1, ctx.asOf) \in Int /\ LegValue(config, ctx, 2, ctx.asOf) \in Int
<1> DEFINE f == [i \in DOMAIN config.legs |-> LegValue(config, ctx, i, ctx.asOf)]
<1>1. 1 \in DOMAIN config.legs /\ 2 \in DOMAIN config.legs
  OBVIOUS
<1>2. f[1] \in Int /\ f[2] \in Int /\ f[1] = LegValue(config, ctx, 1, ctx.asOf)
      /\ f[2] = LegValue(config, ctx, 2, ctx.asOf)
  BY <1>1, LegValueSigned
<1>3. DOMAIN f = 1..2
  OBVIOUS
<1>4. Price(config, ctx) = SumFunction(f)
  BY DEF Price, Npv
<1> HIDE DEF f
<1>5. SumFunctionOnSet(f, 1..2) = f[1] + f[2]
  BY <1>2, SumOfTwo
<1> QED
  BY <1>2, <1>3, <1>4, <1>5, SumOfFunction

-----------------------------------------------------------------------------
(* Readers of a swap: its sides and the legs made of them.                 *)

\* A stream's side: the direction, day count and schedule are the reader's own, the
\* rest the stream's.
LEMMA SideOwn ==
  ASSUME NEW stream, NEW direction, NEW dayCount, NEW schedule
  PROVE  /\ Side(stream, direction, dayCount, schedule).direction = direction
         /\ Side(stream, direction, dayCount, schedule).dayCount = dayCount
         /\ Side(stream, direction, dayCount, schedule).schedule = schedule
BY DEF Side

LEMMA SideDomain ==
  ASSUME NEW stream, NEW direction, NEW dayCount, NEW schedule
  PROVE  DOMAIN Side(stream, direction, dayCount, schedule)
           = DOMAIN stream \cup {"direction", "dayCount", "schedule"}
BY DEF Side

LEMMA SideField ==
  ASSUME NEW stream, NEW direction, NEW dayCount, NEW schedule,
         NEW x \in DOMAIN stream \ {"direction", "dayCount", "schedule"}
  PROVE  Side(stream, direction, dayCount, schedule)[x] = stream[x]
BY DEF Side

StreamSides == FixedSides \cup FloatSides

LEMMA SideKeys ==
  ASSUME NEW stream \in StreamSides
  PROVE  /\ {"legType", "currency", "notional", "rate", "dayCount"} \subseteq DOMAIN stream
         /\ stream.legType \in {"fixed", "float"} /\ stream.notional \in Int /\ stream.rate \in Int
         /\ stream.dayCount \in DOMAIN PageDayCount
         /\ stream.legType = "float" =>
              {"indexId", "spread"} \subseteq DOMAIN stream /\ stream.spread \in Int
  BY DEF StreamSides, FixedSides, FloatSides

\* A leg of a stream or of its mirror image: the notional has the sign.
Mirrors(b, a, s) ==
  /\ a.legType \in {"fixed", "float"} /\ b.legType = a.legType
  /\ b.notional = s * a.notional /\ b.schedule = a.schedule /\ b.dayCount = a.dayCount
  /\ a.legType = "fixed" => b.rate = a.rate
  /\ a.legType = "float" => b.spread = a.spread /\ b.currency = a.currency /\ b.indexId = a.indexId

\* Flows on the same days, of the other sign.
MirrorFlows(g, f, s) ==
  /\ DOMAIN g = DOMAIN f
  /\ \A k \in DOMAIN f : g[k].date = f[k].date /\ g[k].amount = s * f[k].amount

LEMMA CouponsMirrored ==
  ASSUME NEW schedule, NEW a, NEW b, NEW s,
         \A k \in DOMAIN CouponPeriods(schedule) : b[k] = s * a[k]
  PROVE  MirrorFlows(Coupons(CouponPeriods(schedule), b), Coupons(CouponPeriods(schedule), a), s)
<1> DEFINE periods == CouponPeriods(schedule)
<1> HIDE DEF periods
<1>1. MirrorFlows(Coupons(periods, b), Coupons(periods, a), s)
  BY DEF Coupons, MirrorFlows, periods
<1> QED
  BY <1>1 DEF periods

LEMMA CouponMirrored ==
  ASSUME NEW a, NEW b, NEW s \in {1, -1}, IsLeg(a), Mirrors(b, a, s),
         NEW coupon, coupon.from \in Int, coupon.to \in Int, coupon.from < coupon.to
  PROVE  /\ a.legType = "fixed" => FixedCoupon(b, coupon) = s * FixedCoupon(a, coupon)
         /\ \A curveRate \in Int : \A idx, fx :
              a.legType = "float" /\ IsIndex(idx) /\ AreFixings(fx) =>
                /\ FloatCoupon(curveRate, idx, fx, b, coupon) = s * FloatCoupon(curveRate, idx, fx, a, coupon)
                /\ SpreadOnTop(idx, b, coupon) = s * SpreadOnTop(idx, a, coupon)
<1> DEFINE years == YearFraction(coupon.from, coupon.to, a.dayCount)
<1>1. years \in Int /\ a.notional \in Int /\ b.notional = s * a.notional
  BY DaysTyped, EvensAreInt DEF IsLeg, Mirrors
<1>2. YearFraction(coupon.from, coupon.to, b.dayCount) = years
  BY DEF Mirrors
<1> HIDE DEF years
<1>3. ASSUME a.legType = "fixed" PROVE FixedCoupon(b, coupon) = s * FixedCoupon(a, coupon)
  <2>1. a.rate \in Int /\ b.rate = a.rate
    BY <1>3 DEF IsLeg, Mirrors
  <2>2. (s * a.notional) * a.rate * years = s * (a.notional * a.rate * years)
    BY <1>1, <2>1
  <2> QED
    BY <1>1, <1>2, <2>1, <2>2 DEF FixedCoupon, years
<1>4. ASSUME NEW curveRate \in Int, NEW idx, NEW fx, a.legType = "float", IsIndex(idx), AreFixings(fx)
      PROVE  /\ FloatCoupon(curveRate, idx, fx, b, coupon) = s * FloatCoupon(curveRate, idx, fx, a, coupon)
             /\ SpreadOnTop(idx, b, coupon) = s * SpreadOnTop(idx, a, coupon)
  <2>1. a.spread \in Int /\ b.spread = a.spread
    BY <1>4 DEF IsLeg, Mirrors
  <2>2. (s * a.notional) * (curveRate + a.spread) * years = s * (a.notional * (curveRate + a.spread) * years)
    <3> DEFINE r == curveRate + a.spread
    <3>1. r \in Int
      BY <2>1
    <3> HIDE DEF r
    <3>2. (s * a.notional) * r * years = s * (a.notional * r * years)
      BY <1>1, <3>1
    <3> QED
      BY <3>2 DEF r
  <2>3. ProjectedCoupon(curveRate, b, coupon) = s * ProjectedCoupon(curveRate, a, coupon)
    BY <1>1, <1>2, <2>1, <2>2 DEF ProjectedCoupon, years
  <2>4. CASE idx = NoIndex
    <3>1. s * 0 = 0
      OBVIOUS
    <3> QED
      BY <2>3, <2>4, <3>1 DEF FloatCoupon, SpreadOnTop
  <2>5. CASE idx # NoIndex
    <3> DEFINE f == [p \in Accruals(curveRate, idx, fx, coupon) |-> p.rate * (p.to - p.from)]
               total == SumFunction(f)
    <3>1. idx.lookback \in Nat /\ idx.floor \in Int
      BY <1>4, <2>5 DEF IsIndex
    <3>2. /\ IsFiniteSet(Accruals(curveRate, idx, fx, coupon))
          /\ \A p \in Accruals(curveRate, idx, fx, coupon) : p.rate * (p.to - p.from) \in Int
      BY <1>4, <3>1, AccrualsTyped
    <3>3. DOMAIN f = Accruals(curveRate, idx, fx, coupon) /\ \A p \in DOMAIN f : f[p] \in Int
      BY <3>2
    <3>4. total \in Int
      <4> HIDE DEF f
      <4>1. SumFunctionOnSet(f, DOMAIN f) \in Int
        BY <3>2, <3>3, SumTyped
      <4> QED
        BY <4>1, SumOfFunction
    <3>5. DayParts(idx) \in Int
      BY DEF DayParts
    <3>6. /\ FloatCoupon(curveRate, idx, fx, b, coupon) = b.notional * DayParts(idx) * total
          /\ FloatCoupon(curveRate, idx, fx, a, coupon) = a.notional * DayParts(idx) * total
      BY <2>5 DEF FloatCoupon, CompoundedCoupon
    <3> HIDE DEF total
    <3>7. (s * a.notional) * DayParts(idx) * total = s * (a.notional * DayParts(idx) * total)
      BY <1>1, <3>4, <3>5
    <3>8. a.spread * (s * a.notional) * years = s * (a.spread * a.notional * years)
      BY <1>1, <2>1
    <3>9. SpreadOnTop(idx, b, coupon) = s * SpreadOnTop(idx, a, coupon)
      BY <1>1, <1>2, <2>1, <2>5, <3>8 DEF SpreadOnTop, years
    <3> QED
      BY <1>1, <3>6, <3>7, <3>9
  <2> QED
    BY <2>4, <2>5
<1> QED
  BY <1>3, <1>4

LEMMA CouponFlowsMirrored ==
  ASSUME NEW ctx, IsContext(ctx), NEW a, NEW b, NEW s \in {1, -1}, IsLeg(a), Mirrors(b, a, s), NEW i
  PROVE  /\ a.legType = "fixed" => MirrorFlows(FixedFlows(b), FixedFlows(a), s)
         /\ a.legType = "float" =>
              /\ \A rate \in Int : MirrorFlows(FloatFlows(b, ctx, rate), FloatFlows(a, ctx, rate), s)
              /\ ProjectedRate(b, ctx) = ProjectedRate(a, ctx)
              /\ MirrorFlows(SpreadFlows(b, ctx, i), SpreadFlows(a, ctx, i), s)
<1> DEFINE periods == CouponPeriods(a.schedule)
<1>1. b.schedule = a.schedule /\ IsSchedule(a.schedule)
  BY DEF Mirrors, IsLeg
<1>2. \A k \in DOMAIN periods : /\ periods[k].from \in Int /\ periods[k].to \in Int
                                /\ periods[k].from < periods[k].to
  BY <1>1, PeriodsTyped
<1>3. ASSUME a.legType = "fixed" PROVE MirrorFlows(FixedFlows(b), FixedFlows(a), s)
  <2> DEFINE x == [k \in DOMAIN periods |-> FixedCoupon(a, periods[k])]
             y == [k \in DOMAIN periods |-> FixedCoupon(b, periods[k])]
  <2>1. \A k \in DOMAIN periods : FixedCoupon(b, periods[k]) = s * FixedCoupon(a, periods[k])
    BY <1>2, <1>3, CouponMirrored
  <2>2. \A k \in DOMAIN periods : y[k] = s * x[k]
    BY <2>1
  <2>3. FixedFlows(a) = Coupons(periods, x) /\ FixedFlows(b) = Coupons(periods, y)
    BY <1>1 DEF FixedFlows
  <2> HIDE DEF x, y
  <2> QED
    BY <2>2, <2>3, CouponsMirrored
<1>4. ASSUME a.legType = "float", NEW rate \in Int
      PROVE  MirrorFlows(FloatFlows(b, ctx, rate), FloatFlows(a, ctx, rate), s)
  <2> DEFINE x == [k \in DOMAIN periods |-> FloatCoupon(rate, ctx.index, ctx.observations, a, periods[k])]
             y == [k \in DOMAIN periods |-> FloatCoupon(rate, ctx.index, ctx.observations, b, periods[k])]
  <2>0. IsIndex(ctx.index) /\ AreFixings(ctx.observations)
    BY DEF IsContext
  <2>1. \A k \in DOMAIN periods : FloatCoupon(rate, ctx.index, ctx.observations, b, periods[k])
                                    = s * FloatCoupon(rate, ctx.index, ctx.observations, a, periods[k])
    BY <1>2, <1>4, <2>0, CouponMirrored
  <2>2. \A k \in DOMAIN periods : y[k] = s * x[k]
    BY <2>1
  <2>3. FloatFlows(a, ctx, rate) = Coupons(periods, x) /\ FloatFlows(b, ctx, rate) = Coupons(periods, y)
    BY <1>1 DEF FloatFlows
  <2> HIDE DEF x, y
  <2> QED
    BY <2>2, <2>3, CouponsMirrored
<1>5. ASSUME a.legType = "float"
      PROVE  /\ ProjectedRate(b, ctx) = ProjectedRate(a, ctx)
             /\ MirrorFlows(SpreadFlows(b, ctx, i), SpreadFlows(a, ctx, i), s)
  <2> DEFINE rate == ProjectedRate(a, ctx)
             index == LegIndex(ctx, i)
             amount(leg, k) == FloatCoupon(rate, index, ctx.observations, leg, periods[k])
                               + SpreadOnTop(index, leg, periods[k])
             x == [k \in DOMAIN periods |-> amount(a, k)]
             y == [k \in DOMAIN periods |-> amount(b, k)]
  <2>0. ProjectedRate(b, ctx) = rate
    <3> DEFINE projected(currency, id) ==
                 IF currency \notin DOMAIN ctx.book \/ DOMAIN ctx.book[currency] = {} THEN ctx.rate
                 ELSE LET projections == ctx.book[currency] IN
                      projections[IF id \in DOMAIN projections THEN id
                                  ELSE CHOOSE any \in DOMAIN projections : TRUE]
    <3>1. /\ ProjectedRate(a, ctx) = projected(a.currency, a.indexId)
          /\ ProjectedRate(b, ctx) = projected(b.currency, b.indexId)
      BY DEF ProjectedRate
    <3>2. b.currency = a.currency /\ b.indexId = a.indexId
      BY <1>5 DEF Mirrors
    <3> HIDE DEF projected
    <3> QED
      BY <3>1, <3>2
  <2>1. IsIndex(index) /\ AreFixings(ctx.observations) /\ rate \in Int
    BY LegIndexTyped, ProjectionTyped DEF IsContext
  <2>2. SpreadFlows(a, ctx, i) = Coupons(periods, x) /\ SpreadFlows(b, ctx, i) = Coupons(periods, y)
    BY <1>1, <2>0 DEF SpreadFlows
  <2>3. a.spread \in Int /\ a.notional \in Int
    BY <1>5 DEF IsLeg
  <2> HIDE DEF rate, index
  <2>4. \A k \in DOMAIN periods : amount(b, k) = s * amount(a, k)
    <3> TAKE k \in DOMAIN periods
    <3> DEFINE f == FloatCoupon(rate, index, ctx.observations, a, periods[k])
               t == SpreadOnTop(index, a, periods[k])
    <3>0. periods[k].from \in Int /\ periods[k].to \in Int /\ periods[k].from < periods[k].to
      BY <1>2
    <3>1. /\ FloatCoupon(rate, index, ctx.observations, b, periods[k]) = s * f
          /\ SpreadOnTop(index, b, periods[k]) = s * t
      <4> HIDE DEF periods
      <4>1. \A curveRate \in Int : \A idx, fx :
              a.legType = "float" /\ IsIndex(idx) /\ AreFixings(fx) =>
                /\ FloatCoupon(curveRate, idx, fx, b, periods[k])
                     = s * FloatCoupon(curveRate, idx, fx, a, periods[k])
                /\ SpreadOnTop(idx, b, periods[k]) = s * SpreadOnTop(idx, a, periods[k])
        BY <3>0, CouponMirrored
      <4> QED
        BY <1>5, <2>1, <4>1
    <3>2. f \in Int /\ t \in Int
      BY <1>2, <2>1, <2>3, FloatTyped, EvensAreInt
    <3> HIDE DEF f, t
    <3>3. s * (f + t) = s * f + s * t
      BY <3>2
    <3> QED
      BY <3>1, <3>3 DEF f, t
  <2>5. \A k \in DOMAIN periods : y[k] = s * x[k]
    BY <2>4
  <2> HIDE DEF x, y
  <2> QED
    BY <2>0, <2>2, <2>5, CouponsMirrored DEF rate
<1> QED
  BY <1>3, <1>4, <1>5

LEMMA MirrorIsLeg ==
  ASSUME NEW a, NEW b, NEW s \in {1, -1}, IsLeg(a), Mirrors(b, a, s)
  PROVE  IsLeg(b)
BY DEF IsLeg, Mirrors

LEMMA BothMirrored ==
  ASSUME NEW f \in Seq(Payments), NEW g \in Seq(Payments), NEW x \in Seq(Payments),
         NEW y \in Seq(Payments), NEW s \in {1, -1}, MirrorFlows(g, f, s), MirrorFlows(y, x, s)
  PROVE  MirrorFlows(g \o y, f \o x, s)
<1>1. Len(g) = Len(f) /\ Len(y) = Len(x) /\ Len(f) \in Nat /\ Len(x) \in Nat
  BY DEF MirrorFlows
<1>2. DOMAIN (g \o y) = DOMAIN (f \o x) /\ DOMAIN (f \o x) = 1..(Len(f) + Len(x))
  BY <1>1
<1>3. ASSUME NEW k \in 1..(Len(f) + Len(x))
      PROVE  (g \o y)[k].date = (f \o x)[k].date /\ (g \o y)[k].amount = s * (f \o x)[k].amount
  <2>1. CASE k <= Len(f)
    <3>1. (f \o x)[k] = f[k] /\ (g \o y)[k] = g[k] /\ k \in DOMAIN f
      BY <1>1, <2>1
    <3> QED
      BY <3>1 DEF MirrorFlows
  <2>2. CASE k > Len(f)
    <3>1. (f \o x)[k] = x[k - Len(f)] /\ (g \o y)[k] = y[k - Len(f)] /\ k - Len(f) \in DOMAIN x
      BY <1>1, <2>2
    <3> QED
      BY <3>1 DEF MirrorFlows
  <2> QED
    BY <1>1, <2>1, <2>2
<1> QED
  BY <1>2, <1>3 DEF MirrorFlows

LEMMA LegFlowsMirrored ==
  ASSUME NEW type \in Families, NEW ctx, IsContext(ctx), NEW a, NEW b, NEW s \in {1, -1},
         IsLeg(a), Mirrors(b, a, s), NEW i
  PROVE  MirrorFlows(LegFlows(type, b, ctx, i), LegFlows(type, a, ctx, i), s)
<1> DEFINE rate(leg) == IF type = "ASSET" THEN ctx.rate ELSE ProjectedRate(leg, ctx)
           fixed(leg) == FixedFlows(leg)
           float(leg) == FloatFlows(leg, ctx, rate(leg))
           spread(leg) == SpreadFlows(leg, ctx, i)
           flows(leg) == StrategyFlows(type, leg, ctx, fixed(leg), float(leg), spread(leg))
<1>1. /\ a.legType \in {"fixed", "float"} /\ b.legType = a.legType
      /\ a.notional \in Int /\ b.notional = s * a.notional /\ b.schedule = a.schedule
  BY DEF Mirrors, IsLeg
<1>2. a.legType = "fixed" => MirrorFlows(fixed(b), fixed(a), s)
  BY CouponFlowsMirrored
<1>3. a.legType = "float" => MirrorFlows(float(b), float(a), s) /\ MirrorFlows(spread(b), spread(a), s)
  <2>1. rate(a) \in Int
    BY ProjectionTyped DEF IsContext
  <2>2. a.legType = "float" => rate(b) = rate(a)
    BY CouponFlowsMirrored
  <2> QED
    BY <2>1, <2>2, CouponFlowsMirrored
<1>4. a.legType = "fixed" => fixed(a) \in Seq(Payments)
  BY CouponFlowsTyped, ProjectionTyped
<1>5. a.legType = "float" => spread(a) \in Seq(Payments)
  BY CouponFlowsTyped, ProjectionTyped
<1>6. LegFlows(type, a, ctx, i) = flows(a) /\ LegFlows(type, b, ctx, i) = flows(b)
  BY DEF LegFlows
<1> HIDE DEF rate, fixed, float, spread
<1>7. MirrorFlows(<<>>, <<>>, s)
  BY DEF MirrorFlows
<1>8. MirrorFlows(XccyFlows(b, fixed(b), spread(b)), XccyFlows(a, fixed(a), spread(a)), s)
  <2> DEFINE principal(leg) == <<[date |-> leg.schedule.start, amount |-> -leg.notional * Whole],
                                 [date |-> leg.schedule.end, amount |-> leg.notional * Whole]>>
             coupons(leg) == IF leg.legType = "fixed" THEN fixed(leg) ELSE spread(leg)
  <2>1. XccyFlows(a, fixed(a), spread(a)) = principal(a) \o coupons(a)
    BY <1>1 DEF XccyFlows
  <2>2. XccyFlows(b, fixed(b), spread(b)) = principal(b) \o coupons(b)
    BY <1>1 DEF XccyFlows
  <2>3. MirrorFlows(principal(b), principal(a), s)
    <3>1. DOMAIN principal(a) = {1, 2} /\ DOMAIN principal(b) = {1, 2}
      OBVIOUS
    <3>2. /\ principal(b)[1].date = principal(a)[1].date /\ principal(b)[2].date = principal(a)[2].date
      BY <1>1
    <3>3. Whole \in Int
      BY EvenConstants, EvensAreInt
    <3>4. -(s * a.notional) * Whole = s * (-a.notional * Whole)
          /\ (s * a.notional) * Whole = s * (a.notional * Whole)
      BY <1>1, <3>3
    <3>5. /\ principal(b)[1].amount = s * principal(a)[1].amount
          /\ principal(b)[2].amount = s * principal(a)[2].amount
      BY <1>1, <3>4
    <3> QED
      BY <3>1, <3>2, <3>5 DEF MirrorFlows
  <2>4. MirrorFlows(coupons(b), coupons(a), s)
    BY <1>1, <1>2, <1>3
  <2>5. principal(a) \in Seq(Payments) /\ coupons(a) \in Seq(Payments)
    BY <1>1, <1>4, <1>5, PrincipalTyped
  <2>6. principal(b) \in Seq(Payments) /\ coupons(b) \in Seq(Payments)
    <3>1. IsLeg(b)
      BY MirrorIsLeg
    <3>2. b.legType = "fixed" => fixed(b) \in Seq(Payments)
      BY <3>1, CouponFlowsTyped, ProjectionTyped DEF fixed
    <3>3. b.legType = "float" => spread(b) \in Seq(Payments)
      BY <3>1, CouponFlowsTyped, ProjectionTyped DEF spread
    <3> QED
      BY <1>1, <3>1, <3>2, <3>3, PrincipalTyped
  <2> HIDE DEF principal, coupons
  <2>7. MirrorFlows(principal(b) \o coupons(b), principal(a) \o coupons(a), s)
    BY <2>3, <2>4, <2>5, <2>6, BothMirrored
  <2> QED
    BY <2>1, <2>2, <2>7
<1>9. MirrorFlows(IrsFlows(b, fixed(b), float(b)), IrsFlows(a, fixed(a), float(a)), s)
  BY <1>1, <1>2, <1>3 DEF IrsFlows
<1>10. MirrorFlows(BasisFlows(b, spread(b)), BasisFlows(a, spread(a)), s)
  BY <1>1, <1>3, <1>7 DEF BasisFlows
<1>11. MirrorFlows(CcyFlows(b, fixed(b)), CcyFlows(a, fixed(a)), s)
  BY <1>1, <1>2, <1>7 DEF CcyFlows
<1>12. MirrorFlows(FxFlows(b), FxFlows(a), s)
  BY <1>1, <1>7 DEF FxFlows
<1>13. MirrorFlows(AssetFlows(b, ctx, fixed(b), float(b)), AssetFlows(a, ctx, fixed(a), float(a)), s)
  BY <1>1, <1>9 DEF AssetFlows
<1>14. MirrorFlows(FpmlFlows(b, ctx, fixed(b), float(b)), FpmlFlows(a, ctx, fixed(a), float(a)), s)
  BY <1>1, <1>9 DEF FpmlFlows
<1>15. MirrorFlows(flows(b), flows(a), s)
  BY <1>8, <1>9, <1>10, <1>11, <1>12, <1>13, <1>14 DEF StrategyFlows, Families
<1> QED
  BY <1>6, <1>15

LEMMA PvMirrored ==
  ASSUME NEW f \in Seq(Payments), NEW g, NEW s \in {1, -1}, MirrorFlows(g, f, s), NEW cutoff
  PROVE  LegPv(g, cutoff) = s * LegPv(f, cutoff)
<1> DEFINE S == {k \in DOMAIN f : Unsettled(f[k].date, cutoff)}
           x == [k \in S |-> f[k].amount]
           y == [k \in S |-> g[k].amount]
<1>1. {k \in DOMAIN g : Unsettled(g[k].date, cutoff)} = S
  BY DEF MirrorFlows
<1>2. IsFiniteSet(S)
  <2>1. IsFiniteSet(DOMAIN f)
    BY FS_Interval
  <2> QED
    BY <2>1, FS_Subset
<1>3. \A k \in S : x[k] \in Int /\ y[k] = s * x[k] + 0
  <2>1. \A k \in DOMAIN f : f[k] \in Payments
    OBVIOUS
  <2>2. \A k \in DOMAIN f : f[k].amount \in Int
    BY <2>1, EvensAreInt DEF Payments
  <2>3. \A k \in S : f[k].amount \in Int /\ g[k].amount = s * f[k].amount
    BY <2>2 DEF MirrorFlows
  <2> QED
    BY <2>3
<1>4. LegPv(f, cutoff) = SumFunction(x) /\ LegPv(g, cutoff) = SumFunction(y)
  BY <1>1 DEF LegPv, SumOver
<1>5. DOMAIN x = S /\ DOMAIN y = S
  OBVIOUS
<1>6. SumFunctionOnSet(y, S) = s * SumFunctionOnSet(x, S)
  <2> HIDE DEF S, x, y
  <2>1. SumFunctionOnSet(x, S) \in Int
    BY <1>2, <1>3, SumTyped
  <2>2. CASE s = 1
    <3>1. \A k \in S : y[k] = x[k]
      BY <1>3, <2>2
    <3>2. SumFunctionOnSet(y, S) = SumFunctionOnSet(x, S)
      BY <1>2, <3>1, SumSame
    <3> QED
      BY <2>1, <2>2, <3>2
  <2>3. CASE s = -1
    <3>1. \A k \in S : x[k] \in Int /\ y[k] = -x[k]
      BY <1>3, <2>3
    <3>2. SumFunctionOnSet(y, S) = -SumFunctionOnSet(x, S)
      BY <1>2, <3>1, SumNegated
    <3> QED
      BY <2>1, <2>3, <3>2
  <2> QED
    BY <2>2, <2>3
<1> HIDE DEF S, x, y
<1> QED
  BY <1>4, <1>5, <1>6, SumOfFunction

\* An interest rate swap's flows do not depend on the leg's position, nor do those
\* of a stream's leg on whether the engine takes it for one.
RateFamilies == {"IRS", "OIS", "FpML"}

LEMMA RateFlows ==
  ASSUME NEW type \in RateFamilies, NEW ctx, NEW leg, leg.legType \in {"fixed", "float"}, NEW i
  PROVE  LegFlows(type, leg, ctx, i)
           = IF leg.legType = "fixed" THEN FixedFlows(leg) ELSE FloatFlows(leg, ctx, ProjectedRate(leg, ctx))
<1> DEFINE fixed == FixedFlows(leg)
           float == FloatFlows(leg, ctx, ProjectedRate(leg, ctx))
           spread == SpreadFlows(leg, ctx, i)
<1>1. LegFlows(type, leg, ctx, i) = StrategyFlows(type, leg, ctx, fixed, float, spread)
  BY DEF LegFlows, RateFamilies
<1> HIDE DEF fixed, float, spread
<1>2. IrsFlows(leg, fixed, float) = IF leg.legType = "fixed" THEN fixed ELSE float
  BY DEF IrsFlows
<1>3. FpmlFlows(leg, ctx, fixed, float) = IrsFlows(leg, fixed, float)
  BY DEF FpmlFlows
<1>4. StrategyFlows(type, leg, ctx, fixed, float, spread) = IrsFlows(leg, fixed, float)
  BY <1>3 DEF StrategyFlows, RateFamilies
<1> QED
  BY <1>1, <1>2, <1>4 DEF fixed, float

\* A leg's value to one who receives it, from the leg another configuration makes
\* of the same stream or of its mirror image.
LEMMA LegValueMirrored ==
  ASSUME NEW config, IsConfig(config), NEW other, IsConfig(other), NEW ctx, IsContext(ctx),
         InValueConvertible(config, ctx), InValueConvertible(other, ctx),
         NEW i \in DOMAIN config.legs, NEW j \in DOMAIN other.legs, NEW s \in {1, -1},
         Mirrors(other.legs[j], config.legs[i], s),
         \/ config.type = other.type /\ i = j
         \/ config.type \in RateFamilies /\ other.type \in RateFamilies,
         \A x : InValue(other, j, ctx, x) = InValue(config, i, ctx, x)
  PROVE  /\ Received(config, i, ctx) \in Int
         /\ LegValue(config, ctx, i, ctx.asOf) = Sign(config.legs[i]) * Received(config, i, ctx)
         /\ LegValue(other, ctx, j, ctx.asOf) = Sign(other.legs[j]) * (s * Received(config, i, ctx))
<1> DEFINE a == config.legs[i]
           b == other.legs[j]
           f == LegFlows(config.type, a, ctx, i)
           g == LegFlows(other.type, b, ctx, j)
           pv == LegPv(f, ctx.asOf)
<1>1. IsLeg(a) /\ IsLeg(b) /\ config.type \in Families /\ other.type \in Families
  BY DEF IsConfig
<1>2. a.legType \in {"fixed", "float"} /\ b.legType = a.legType
  BY DEF Mirrors
<1>3. g = LegFlows(config.type, b, ctx, i)
  <2>1. CASE config.type = other.type /\ i = j
    BY <2>1
  <2>2. CASE config.type \in RateFamilies /\ other.type \in RateFamilies
    <3> HIDE DEF b
    <3> DEFINE flows == IF b.legType = "fixed" THEN FixedFlows(b)
                        ELSE FloatFlows(b, ctx, ProjectedRate(b, ctx))
    <3>0. b.legType \in {"fixed", "float"}
      BY <1>2
    <3>1. LegFlows(other.type, b, ctx, j) = flows
      BY <3>0, <2>2, RateFlows
    <3>2. LegFlows(config.type, b, ctx, i) = flows
      BY <3>0, <2>2, RateFlows
    <3> QED
      BY <3>1, <3>2
  <2> QED
    BY <2>1, <2>2
<1>4. MirrorFlows(LegFlows(config.type, b, ctx, i), f, s)
  BY <1>1, LegFlowsMirrored
<1>5. f \in Seq(Payments)
  BY <1>1, LegFlowsTyped
<1>6. LegPv(g, ctx.asOf) = s * pv
  <2> HIDE DEF f, g
  <2> QED
    BY <1>3, <1>4, <1>5, PvMirrored DEF g, f
<1>7. /\ pv \in Evens /\ InValue(config, i, ctx, pv) \in Int
      /\ LegValue(config, ctx, i, ctx.asOf) = Sign(a) * InValue(config, i, ctx, pv)
  BY LegValueSigned
<1>8. LegValue(other, ctx, j, ctx.asOf) = Sign(b) * InValue(other, j, ctx, LegPv(g, ctx.asOf))
  BY LegValueSigned
<1> HIDE DEF pv, g
<1>9. InValue(config, i, ctx, -pv) = -InValue(config, i, ctx, pv)
  BY <1>7, InValueLinear
<1>10. pv \in Int
  BY <1>7, EvensAreInt
<1> DEFINE v == InValue(config, i, ctx, pv)
<1>11. InValue(other, j, ctx, LegPv(g, ctx.asOf)) = s * v
  <2>1. CASE s = 1
    <3>1. 1 * pv = pv
      BY <1>10
    <3> QED
      BY <1>6, <1>7, <2>1, <3>1
  <2>2. CASE s = -1
    <3>1. (-1) * pv = -pv /\ (-1) * v = -v
      BY <1>7, <1>10
    <3> QED
      BY <1>6, <1>9, <2>2, <3>1
  <2> QED
    BY <2>1, <2>2
<1> HIDE DEF v
<1>12. Received(config, i, ctx) = v
  <2>1. Sign(a) \in {1, -1} /\ Sign(a) * (Sign(a) * v) = v
    BY <1>7 DEF Sign, v
  <2> QED
    BY <1>7, <2>1 DEF Received, v
<1> QED
  BY <1>7, <1>8, <1>11, <1>12 DEF v

-----------------------------------------------------------------------------
(* The page's configuration and the contexts.                              *)

AnySides == FixedSides \cup FloatSides \cup FxSides \cup AssetSides

LEMMA SideIsLeg ==
  ASSUME NEW stream \in AnySides, NEW direction, NEW dayCount, NEW schedule, IsSchedule(schedule)
  PROVE  LET leg == Side(stream, direction, dayCount, schedule) IN
         /\ IsLeg(leg)
         /\ leg.legType = stream.legType /\ leg.notional = stream.notional
         /\ LegCurrency(leg, "USD") = LegCurrency(stream, "USD")
         /\ "currency" \in DOMAIN leg <=> "currency" \in DOMAIN stream
<1> DEFINE leg == Side(stream, direction, dayCount, schedule)
<1>1. /\ DOMAIN leg = DOMAIN stream \cup {"direction", "dayCount", "schedule"}
      /\ leg.schedule = schedule
      /\ \A x \in DOMAIN stream \ {"direction", "dayCount", "schedule"} : leg[x] = stream[x]
  <2>1. DOMAIN leg = DOMAIN stream \cup {"direction", "dayCount", "schedule"}
    BY SideDomain
  <2>2. leg.schedule = schedule
    BY SideOwn
  <2>3. \A x \in DOMAIN stream \ {"direction", "dayCount", "schedule"} : leg[x] = stream[x]
    BY SideField
  <2> HIDE DEF leg
  <2> QED
    BY <2>1, <2>2, <2>3
<1> HIDE DEF leg
<1>2. "legType" \in DOMAIN stream /\ "notional" \in DOMAIN stream /\ stream.notional \in Int
      /\ stream.legType \in {"fixed", "float", "fx", "asset"}
  BY DEF AnySides, FixedSides, FloatSides, FxSides, AssetSides
<1>3. /\ stream.legType \in {"fixed", "fx"} => "rate" \in DOMAIN stream /\ stream.rate \in Int
      /\ stream.legType = "float" => "spread" \in DOMAIN stream /\ stream.spread \in Int
      /\ stream.legType = "fx" => "paymentDate" \in DOMAIN stream /\ stream.paymentDate \in Int
      /\ stream.legType = "asset" => "return" \in DOMAIN stream /\ stream.return \in Int
  BY DEF AnySides, FixedSides, FloatSides, FxSides, AssetSides
<1>4. leg.legType = stream.legType /\ leg.notional = stream.notional
  BY <1>1, <1>2
<1>5. /\ "rate" \in DOMAIN stream => leg.rate = stream.rate
      /\ "spread" \in DOMAIN stream => leg.spread = stream.spread
      /\ "paymentDate" \in DOMAIN stream => leg.paymentDate = stream.paymentDate
      /\ "return" \in DOMAIN stream => leg.return = stream.return
  BY <1>1
<1>6. IsLeg(leg)
  BY <1>1, <1>2, <1>3, <1>4, <1>5 DEF IsLeg
<1>7. "currency" \in DOMAIN leg <=> "currency" \in DOMAIN stream
  BY <1>1
<1>8. LegCurrency(leg, "USD") = LegCurrency(stream, "USD")
  BY <1>1, <1>7 DEF LegCurrency
<1> QED
  BY <1>4, <1>6, <1>7, <1>8 DEF leg

\* The first leg the page pays.
PagePaid(swap) == IF swap.swapType \in {"IRS", "OIS", "ASSET"} THEN 2 ELSE 1

PageFrequency(swap) == IF swap.swapType = "OIS" THEN "Annual" ELSE "Quarterly"

SwapTypes == {"IRS", "OIS", "CCY", "FX", "ASSET"} \cup StreamTypes

LEMMA PageForm ==
  ASSUME NEW swap, swap.swapType \in SwapTypes
  PROVE  LET page == PageConfig(swap)
             schedule == ScheduleOf(swap, PageFrequency(swap))
         IN /\ page = PageConfigOf(swap, PagePaid(swap), PageFrequency(swap))
            /\ page.type = swap.swapType /\ DOMAIN page.legs = DOMAIN swap.streams
            /\ \A i \in DOMAIN swap.streams :
                 page.legs[i] = Side(swap.streams[i], IF i = PagePaid(swap) THEN "pay" ELSE "receive",
                                     PageDayCount[swap.streams[i].dayCount], schedule)
<1>1. PageConfig(swap) = PageConfigOf(swap, PagePaid(swap), PageFrequency(swap))
  BY DEF PageConfig, PagePaid, PageFrequency, SwapTypes, StreamTypes, HydrateInterestRate, HydrateCcy,
         HydrateFx, HydrateAsset, HydrateFpml
<1> QED
  BY <1>1 DEF PageConfigOf

LEMMA SwapStreams ==
  ASSUME NEW swap, IsSwap(swap)
  PROVE  /\ swap.swapType \in SwapTypes
         /\ Len(swap.streams) \in Nat \ {0} /\ DOMAIN swap.streams = 1..Len(swap.streams)
         /\ \A i \in DOMAIN swap.streams : swap.streams[i] \in AnySides
         /\ swap.swapType \notin StreamTypes => Len(swap.streams) = 2
         /\ swap.swapType \in {"IRS", "OIS"} \cup StreamTypes =>
              \A i \in DOMAIN swap.streams : swap.streams[i] \in StreamSides
         /\ \A frequency \in {"Annual", "Quarterly"} : IsSchedule(ScheduleOf(swap, frequency))
<1>1. /\ swap.swapType \in SwapTypes /\ swap.streams \in Seq(AnySides)
      /\ swap.start \in Calendar /\ swap.end \in Calendar /\ HasSidesOf(swap.streams, swap.swapType)
  BY DEF IsSwap, SwapTypes, AnySides
<1>2. \A frequency \in {"Annual", "Quarterly"} : IsSchedule(ScheduleOf(swap, frequency))
  <2>1. Calendar \subseteq Int
    BY DEF Calendar
  <2>2. swap.start \in Int /\ swap.end \in Int
    BY <1>1, <2>1
  <2> QED
    BY <2>2 DEF IsSchedule, ScheduleOf
<1>3. /\ Len(swap.streams) \in Nat /\ DOMAIN swap.streams = 1..Len(swap.streams)
      /\ \A i \in DOMAIN swap.streams : swap.streams[i] \in AnySides
  BY <1>1
<1>4. /\ Len(swap.streams) > 0 /\ (swap.swapType \notin StreamTypes => Len(swap.streams) = 2)
      /\ swap.swapType \in {"IRS", "OIS"} => swap.streams[1] \in StreamSides /\ swap.streams[2] \in StreamSides
      /\ swap.swapType \in StreamTypes => \A i \in DOMAIN swap.streams : swap.streams[i] \in StreamSides
  BY <1>1, <1>3 DEF HasSidesOf, SwapTypes, StreamTypes, StreamSides
<1>5. swap.swapType \in {"IRS", "OIS"} => \A i \in DOMAIN swap.streams : swap.streams[i] \in StreamSides
  BY <1>3, <1>4 DEF StreamTypes
<1> QED
  BY <1>1, <1>2, <1>3, <1>4, <1>5

LEMMA PageIsConfig ==
  ASSUME NEW swap, IsSwap(swap)
  PROVE  IsConfig(PageConfig(swap))
<1> DEFINE page == PageConfig(swap)
<1>1. /\ swap.swapType \in SwapTypes /\ PageFrequency(swap) \in {"Annual", "Quarterly"}
      /\ Len(swap.streams) \in Nat \ {0} /\ DOMAIN swap.streams = 1..Len(swap.streams)
      /\ \A i \in DOMAIN swap.streams : swap.streams[i] \in AnySides
      /\ IsSchedule(ScheduleOf(swap, PageFrequency(swap)))
  BY SwapStreams DEF PageFrequency
<1>2. page.type \in Families
  BY <1>1, PageForm DEF Families, SwapTypes, StreamTypes
<1>3. DOMAIN page.legs = 1..Len(swap.streams)
  BY <1>1, PageForm
<1>4. \A i \in DOMAIN swap.streams : IsLeg(page.legs[i])
  <2> TAKE i \in DOMAIN swap.streams
  <2>1. page.legs[i] = Side(swap.streams[i], IF i = PagePaid(swap) THEN "pay" ELSE "receive",
                            PageDayCount[swap.streams[i].dayCount], ScheduleOf(swap, PageFrequency(swap)))
    BY <1>1, PageForm
  <2> QED
    BY <1>1, <2>1, SideIsLeg
<1> HIDE DEF page
<1> QED
  BY <1>1, <1>2, <1>3, <1>4 DEF IsConfig, page

LEMMA MarketTyped ==
  ASSUME NEW market, IsMarket(market), NEW id
  PROVE  /\ IsIndex(IndexOf(market, id))
         /\ AreFixings(FixingsOf(market, id))
         /\ \A cutoff : AreFixings(UpTo(FixingsOf(market, id), cutoff))
<1>1. IsIndex(IndexOf(market, id))
  BY DEF IsMarket, IsIndex, IndexOf
<1>2. AreFixings(FixingsOf(market, id))
  <2>1. CASE id \in DOMAIN market.fixings
    BY <2>1 DEF IsMarket, AreFixings, FixingsOf
  <2>2. CASE id \notin DOMAIN market.fixings
    <3>1. FixingsOf(market, id) = <<>> /\ DOMAIN <<>> = {}
      BY <2>2 DEF FixingsOf
    <3> QED
      BY <3>1, FS_EmptySet DEF AreFixings
  <2> QED
    BY <2>1, <2>2
<1>3. ASSUME NEW cutoff PROVE AreFixings(UpTo(FixingsOf(market, id), cutoff))
  <2> DEFINE all == FixingsOf(market, id)
             some == {d \in DOMAIN all : d <= cutoff}
  <2>1. DOMAIN all \in SUBSET Int /\ IsFiniteSet(DOMAIN all) /\ \A d \in DOMAIN all : all[d] \in Int
    BY <1>2 DEF AreFixings
  <2>2. UpTo(all, cutoff) = [d \in some |-> all[d]]
    BY DEF UpTo
  <2> HIDE DEF all
  <2>3. IsFiniteSet(some)
    BY <2>1, FS_Subset
  <2>4. AreFixings(UpTo(all, cutoff))
    BY <2>1, <2>2, <2>3 DEF AreFixings
  <2> QED
    BY <2>4 DEF all
<1> QED
  BY <1>1, <1>2, <1>3

LEMMA ContextsTyped ==
  ASSUME NEW market, IsMarket(market)
  PROVE  /\ \A config : IsContext(PageContext(config, market))
         /\ IsContext(BlotterContext(market))
         /\ \A needsFx : IsContext(MarkContext(market, needsFx))
<1>1. /\ market.asOf \in Nat /\ market.rate \in Int /\ market.lastPillar \in Nat
      /\ \A c \in DOMAIN market.book :
           \A id \in DOMAIN market.book[c] : market.book[c][id] \in Int
      /\ \A pair \in DOMAIN market.fxSpots : market.fxSpots[pair] \in Int
  BY DEF IsMarket
<1>2. AreFixings(<<>>) /\ IsIndex(NoIndex) /\ DOMAIN <<>> = {}
  <2>1. DOMAIN <<>> = {}
    OBVIOUS
  <2> QED
    BY <2>1, FS_EmptySet DEF AreFixings, IsIndex
<1>3. ASSUME NEW config PROVE IsContext(PageContext(config, market))
  <2> DEFINE ctx == PageContext(config, market)
             floats == {i \in DOMAIN config.legs : config.legs[i].legType = "float"}
             idOf(i) == config.legs[i].indexId
             first == IF floats = {} THEN "none" ELSE idOf(Min(floats))
             primary == IndexOf(market, first)
             rest == floats \ {Min(floats)}
             second(i) == IF IndexOf(market, idOf(i)) = NoIndex THEN primary
                          ELSE IndexOf(market, idOf(i))
             byLeg == [i \in DOMAIN config.legs |->
                         IF i \notin floats THEN NoIndex
                         ELSE IF i \in rest /\ i = Min(rest) THEN second(i) ELSE primary]
  <2>1. ctx = [asOf |-> market.asOf, rate |-> market.rate, lastPillar |-> market.lastPillar,
               index |-> primary, observations |-> FixingsOf(market, first),
               indicesByLeg |-> byLeg, book |-> market.book, fxSpots |-> market.fxSpots]
    BY DEF PageContext
  <2>2. IsIndex(primary) /\ AreFixings(FixingsOf(market, first)) /\ \A i : IsIndex(IndexOf(market, idOf(i)))
    BY MarketTyped
  <2>3. \A i \in DOMAIN byLeg : IsIndex(byLeg[i])
    <3> HIDE DEF floats, idOf, primary, rest
    <3> QED
      BY <1>2, <2>2
  <2> HIDE DEF byLeg, primary, first
  <2> QED
    BY <1>1, <2>1, <2>2, <2>3 DEF IsContext
<1>4. IsContext(BlotterContext(market))
  BY <1>1, <1>2 DEF BlotterContext, IsContext
<1>5. ASSUME NEW needsFx PROVE IsContext(MarkContext(market, needsFx))
  <2> DEFINE index == IndexOf(market, market.firstIndex)
             fixings == UpTo(FixingsOf(market, market.firstIndex), market.asOf)
  <2>1. IsIndex(index) /\ AreFixings(fixings)
    BY MarketTyped
  <2>2. MarkContext(market, needsFx)
          = [asOf |-> market.asOf, rate |-> market.rate, lastPillar |-> market.lastPillar,
             index |-> index, observations |-> fixings, indicesByLeg |-> <<>>,
             book |-> IF needsFx THEN market.book ELSE <<>>,
             fxSpots |-> IF needsFx THEN market.fxSpots ELSE <<>>]
    BY DEF MarkContext
  <2> HIDE DEF index, fixings
  <2> QED
    BY <1>1, <1>2, <2>1, <2>2 DEF IsContext
<1> QED
  BY <1>3, <1>4, <1>5

\* The spots of a swap's market convert whatever legs are made of its streams.
LEMMA SpotsConvert ==
  ASSUME NEW swap, NEW market, HasSpots(market, swap), NEW config, 1 \in DOMAIN config.legs,
         \A j \in DOMAIN config.legs : \E i \in DOMAIN swap.streams :
           LegCurrency(config.legs[j], "USD") = LegCurrency(swap.streams[i], "USD"),
         NEW ctx, ctx.fxSpots = market.fxSpots
  PROVE  Convertible(config, ctx)
<1> DEFINE reporting == ReportingCurrency(config)
<1>1. ASSUME NEW j \in DOMAIN config.legs
      PROVE  CanConvert(LegCurrency(config.legs[j], reporting), reporting, ctx.fxSpots)
  <2>1. CASE "currency" \in DOMAIN config.legs[j]
    <3>1. LegCurrency(config.legs[j], reporting) = LegCurrency(config.legs[j], "USD")
      BY <2>1 DEF LegCurrency
    <3>2. PICK i \in DOMAIN swap.streams :
            LegCurrency(config.legs[j], "USD") = LegCurrency(swap.streams[i], "USD")
      OBVIOUS
    <3>3. PICK k \in DOMAIN swap.streams : reporting = LegCurrency(swap.streams[k], "USD")
      BY DEF ReportingCurrency
    <3>4. CanConvert(LegCurrency(swap.streams[i], "USD"), LegCurrency(swap.streams[k], "USD"), market.fxSpots)
      BY DEF HasSpots
    <3> HIDE DEF reporting
    <3> QED
      BY <3>1, <3>2, <3>3, <3>4
  <2>2. CASE "currency" \notin DOMAIN config.legs[j]
    BY <2>2 DEF LegCurrency, CanConvert
  <2> QED
    BY <2>1, <2>2
<1> QED
  BY <1>1 DEF Convertible

LEMMA PageConvertible ==
  ASSUME NEW swap, IsSwap(swap), NEW market, HasSpots(market, swap), NEW ctx,
         ctx.fxSpots = market.fxSpots
  PROVE  Convertible(PageConfig(swap), ctx)
<1> DEFINE page == PageConfig(swap)
<1>1. /\ swap.swapType \in SwapTypes /\ Len(swap.streams) \in Nat \ {0}
      /\ DOMAIN swap.streams = 1..Len(swap.streams)
      /\ \A i \in DOMAIN swap.streams : swap.streams[i] \in AnySides
      /\ IsSchedule(ScheduleOf(swap, PageFrequency(swap)))
  BY SwapStreams DEF PageFrequency
<1>2. /\ DOMAIN page.legs = DOMAIN swap.streams
      /\ \A i \in DOMAIN swap.streams :
           page.legs[i] = Side(swap.streams[i], IF i = PagePaid(swap) THEN "pay" ELSE "receive",
                               PageDayCount[swap.streams[i].dayCount],
                               ScheduleOf(swap, PageFrequency(swap)))
  BY <1>1, PageForm
<1>3. \A i \in DOMAIN page.legs : LegCurrency(page.legs[i], "USD") = LegCurrency(swap.streams[i], "USD")
  <2> HIDE DEF page
  <2> QED
    BY <1>1, <1>2, SideIsLeg
<1>4. 1 \in DOMAIN page.legs
  BY <1>1, <1>2
<1> HIDE DEF page
<1>5. Convertible(page, ctx)
  BY <1>2, <1>3, <1>4, SpotsConvert
<1> QED
  BY <1>5 DEF page

\* What a reader makes of a stream that leaves it as it is but for its notional's
\* sign.
SameStream(x, stream, s) ==
  /\ x \in StreamSides /\ DOMAIN x = DOMAIN stream
  /\ x.notional = s * stream.notional
  /\ \A field \in DOMAIN stream \ {"notional"} : x[field] = stream[field]

LEMMA NegatedStream ==
  ASSUME NEW stream \in StreamSides
  PROVE  SameStream(stream, stream, 1) /\ SameStream(Negated(stream), stream, -1)
<1>1. stream.notional \in Int /\ "notional" \in DOMAIN stream
  BY SideKeys
<1>2. 1 * stream.notional = stream.notional /\ (-1) * stream.notional = -stream.notional
  BY <1>1
<1>3. Negated(stream) \in StreamSides
  BY <1>1 DEF Negated, StreamSides, FixedSides, FloatSides
<1>4. /\ DOMAIN Negated(stream) = DOMAIN stream
      /\ Negated(stream).notional = -stream.notional
      /\ \A field \in DOMAIN stream \ {"notional"} : Negated(stream)[field] = stream[field]
  BY <1>1 DEF Negated
<1> QED
  BY <1>2, <1>3, <1>4 DEF SameStream

LEMMA StreamMirrored ==
  ASSUME NEW stream \in StreamSides, NEW x, NEW s \in {1, -1}, SameStream(x, stream, s),
         NEW d, NEW e, NEW dayCount, NEW schedule
  PROVE  Mirrors(Side(x, d, dayCount, schedule), Side(stream, e, dayCount, schedule), s)
<1> DEFINE a == Side(stream, e, dayCount, schedule)
           b == Side(x, d, dayCount, schedule)
<1>1. /\ DOMAIN a = DOMAIN stream \cup {"direction", "dayCount", "schedule"}
      /\ a.schedule = schedule /\ a.dayCount = dayCount
      /\ \A field \in DOMAIN stream \ {"direction", "dayCount", "schedule"} : a[field] = stream[field]
  <2>1. \A field \in DOMAIN stream \ {"direction", "dayCount", "schedule"} : a[field] = stream[field]
    BY SideField
  <2>2. a.schedule = schedule /\ a.dayCount = dayCount
    BY SideOwn
  <2>3. DOMAIN a = DOMAIN stream \cup {"direction", "dayCount", "schedule"}
    BY SideDomain
  <2> QED
    BY <2>1, <2>2, <2>3
<1>2. /\ b.schedule = schedule /\ b.dayCount = dayCount
      /\ \A field \in DOMAIN stream \ {"direction", "dayCount", "schedule"} : b[field] = x[field]
  BY SideOwn, SideDomain, SideField DEF SameStream
<1> HIDE DEF a, b
<1>3. /\ {"legType", "currency", "notional", "rate", "dayCount"} \subseteq DOMAIN stream
      /\ stream.legType \in {"fixed", "float"}
      /\ stream.legType = "float" => {"indexId", "spread"} \subseteq DOMAIN stream
  BY SideKeys
<1>4. \A field \in DOMAIN stream \ {"notional", "direction", "dayCount", "schedule"} : b[field] = a[field]
  BY <1>1, <1>2 DEF SameStream
<1>5. b["legType"] = a["legType"] /\ b["rate"] = a["rate"] /\ b["currency"] = a["currency"]
      /\ a["legType"] = stream["legType"]
  BY <1>1, <1>3, <1>4
<1>6. stream.legType = "float" => b["indexId"] = a["indexId"] /\ b["spread"] = a["spread"]
  BY <1>3, <1>4
<1>7. b["notional"] = s * a["notional"]
  BY <1>1, <1>2, <1>3 DEF SameStream
<1>8. Mirrors(b, a, s)
  BY <1>1, <1>2, <1>3, <1>5, <1>6, <1>7 DEF Mirrors
<1> QED
  BY <1>8 DEF a, b

\* Where the readers decode a day count alike.
LEMMA SameDayCounts ==
  ASSUME NEW dayCount \in DOMAIN PageDayCount
  PROVE  /\ dayCount \in DOMAIN FpmlDayCount <=> dayCount # "Act365Fixed"
         /\ dayCount \in DOMAIN FpmlDayCount /\ dayCount # "ActActISDA" =>
              FpmlDayCount[dayCount] = PageDayCount[dayCount]
         /\ dayCount \in {"Act360", "Act365Fixed"} => BlotterDayCount(dayCount) = PageDayCount[dayCount]
  BY DEF PageDayCount, FpmlDayCount, BlotterDayCount

-----------------------------------------------------------------------------
(* An interest rate swap.                                                  *)

LEMMA RateSwapStreams ==
  ASSUME NEW swap, IsSwap(swap), swap.swapType \in {"IRS", "OIS"}
  PROVE  /\ DOMAIN swap.streams = 1..2
         /\ \A i \in 1..2 : swap.streams[i] \in StreamSides /\ swap.streams[i].currency = "USD"
         /\ swap.streams[1].dayCount = swap.streams[2].dayCount
         /\ swap.ownerReceives \in BOOLEAN
<1>1. /\ HasSidesOf(swap.streams, swap.swapType) /\ swap.streams \in Seq(AnySides)
      /\ swap.ownerReceives \in BOOLEAN
  BY DEF IsSwap, AnySides
<1>2. /\ Len(swap.streams) = 2 /\ swap.streams[1] \in FixedSides /\ swap.streams[2] \in FloatSides
      /\ swap.streams[1].currency = "USD" /\ swap.streams[2].currency = "USD"
      /\ swap.streams[1].dayCount = swap.streams[2].dayCount
  BY <1>1 DEF HasSidesOf
<1>3. DOMAIN swap.streams = 1..2
  BY <1>1, <1>2
<1>4. \A i \in 1..2 : i = 1 \/ i = 2
  OBVIOUS
<1> QED
  BY <1>1, <1>2, <1>3, <1>4 DEF StreamSides

\* The sign the mark puts in the notional of side i.
OwnerSign(swap, i) == IF (i = 1) = swap.ownerReceives THEN 1 ELSE -1

LEMMA RateMark ==
  ASSUME NEW swap, IsSwap(swap), swap.swapType \in {"IRS", "OIS"}, Readable(swap)
  PROVE  LET mark == MarkConfig(swap) IN
         /\ mark = IrsMarkConfig(swap)
         /\ IsConfig(mark) /\ mark.type = "IRS" /\ DOMAIN mark.legs = 1..2
         /\ \A i \in 1..2 :
              /\ Sign(mark.legs[i]) = 1
              /\ \A direction :
                   Mirrors(mark.legs[i],
                           Side(swap.streams[i], direction, FpmlDayCount[swap.streams[i].dayCount],
                                ScheduleOf(swap, "Quarterly")),
                           OwnerSign(swap, i))
<1> DEFINE mark == IrsMarkConfig(swap)
           schedule == ScheduleOf(swap, "Quarterly")
           x(i) == [(IF OwnerSign(swap, i) = 1 THEN swap.streams[i] ELSE Negated(swap.streams[i]))
                      EXCEPT !.currency = "USD"]
           leg(i) == Side(x(i), "receive", FpmlDayCount[swap.streams[i].dayCount], schedule)
<1>1. MarkConfig(swap) = mark
  BY DEF MarkConfig, StreamTypes
<1>2. /\ DOMAIN swap.streams = 1..2
      /\ \A i \in 1..2 : swap.streams[i] \in StreamSides /\ swap.streams[i].currency = "USD"
      /\ swap.ownerReceives \in BOOLEAN
  BY RateSwapStreams
<1>3. mark.type = "IRS" /\ DOMAIN mark.legs = 1..2 /\ mark.legs[1] = leg(1) /\ mark.legs[2] = leg(2)
  BY <1>2 DEF IrsMarkConfig, OwnerSign
<1>4. ASSUME NEW i \in 1..2 PROVE SameStream(x(i), swap.streams[i], OwnerSign(swap, i))
  <2> DEFINE stream == swap.streams[i]
             base == IF OwnerSign(swap, i) = 1 THEN stream ELSE Negated(stream)
  <2>1. stream \in StreamSides /\ stream.currency = "USD" /\ "currency" \in DOMAIN stream
    BY <1>2, SideKeys
  <2>2. SameStream(base, stream, OwnerSign(swap, i))
    BY <2>1, NegatedStream DEF OwnerSign
  <2>3. base.currency = "USD" /\ "currency" \in DOMAIN base
    BY <2>1, <2>2 DEF SameStream
  <2> HIDE DEF base, stream
  <2>4. [base EXCEPT !.currency = "USD"] = base
    BY <2>2, <2>3 DEF SameStream, StreamSides, FixedSides, FloatSides
  <2> QED
    BY <2>2, <2>4 DEF base, stream
<1> HIDE DEF x
<1>5. IsSchedule(schedule)
  BY SwapStreams
<1>6. ASSUME NEW i \in 1..2
      PROVE  /\ IsLeg(leg(i)) /\ Sign(leg(i)) = 1
             /\ \A direction :
                  Mirrors(leg(i), Side(swap.streams[i], direction, FpmlDayCount[swap.streams[i].dayCount],
                                       schedule), OwnerSign(swap, i))
  <2>1. x(i) \in AnySides
    BY <1>4 DEF SameStream, StreamSides, AnySides
  <2>2. leg(i).direction = "receive"
    BY SideOwn
  <2>3. OwnerSign(swap, i) \in {1, -1} /\ swap.streams[i] \in StreamSides
    BY <1>2 DEF OwnerSign
  <2> QED
    BY <1>4, <1>5, <2>1, <2>2, <2>3, SideIsLeg, StreamMirrored DEF Sign
<1> HIDE DEF leg, mark
<1>7. \A i \in 1..2 : mark.legs[i] = leg(i)
  BY <1>3
<1>8. IsConfig(mark)
  <2>1. "IRS" \in Families /\ 2 \in Nat \ {0}
    BY DEF Families
  <2> QED
    BY <1>3, <1>6, <1>7, <2>1 DEF IsConfig
<1> QED
  BY <1>1, <1>3, <1>6, <1>7, <1>8 DEF mark

\* What it is marked with is what its page makes of it, and minus that where its
\* party A pays the fixed side.
LEMMA RateMarkValue ==
  ASSUME NEW swap, IsSwap(swap), swap.swapType = "IRS", NEW ctx, IsContext(ctx),
         Readable(swap), swap.streams[1].dayCount # "ActActISDA"
  PROVE  MarkValue(swap, ctx) = IF swap.ownerReceives THEN Price(PageConfig(swap), ctx)
                                ELSE -Price(PageConfig(swap), ctx)
<1> DEFINE page == PageConfig(swap)
           mark == MarkConfig(swap)
           schedule == ScheduleOf(swap, "Quarterly")
           r(i) == Received(page, i, ctx)
<1>1. /\ DOMAIN swap.streams = 1..2
      /\ \A i \in 1..2 : swap.streams[i] \in StreamSides
      /\ swap.streams[1].dayCount = swap.streams[2].dayCount
      /\ swap.ownerReceives \in BOOLEAN
  BY RateSwapStreams
<1>2. /\ page.type = "IRS" /\ DOMAIN page.legs = 1..2
      /\ \A i \in 1..2 :
           page.legs[i] = Side(swap.streams[i], IF i = 2 THEN "pay" ELSE "receive",
                               PageDayCount[swap.streams[i].dayCount], schedule)
  <2>1. PagePaid(swap) = 2 /\ PageFrequency(swap) = "Quarterly" /\ swap.swapType \in SwapTypes
    BY DEF PagePaid, PageFrequency, SwapTypes
  <2> QED
    BY <1>1, <2>1, PageForm
<1>3. /\ IsConfig(mark) /\ mark.type = "IRS" /\ DOMAIN mark.legs = 1..2
      /\ \A i \in 1..2 :
           /\ Sign(mark.legs[i]) = 1
           /\ \A direction :
                Mirrors(mark.legs[i],
                        Side(swap.streams[i], direction, FpmlDayCount[swap.streams[i].dayCount], schedule),
                        OwnerSign(swap, i))
  BY RateMark
<1>4. IsConfig(page)
  BY PageIsConfig
<1>5. \A i \in 1..2 : PageDayCount[swap.streams[i].dayCount] = FpmlDayCount[swap.streams[i].dayCount]
  <2> TAKE i \in 1..2
  <2>1. swap.streams[i].dayCount \in DOMAIN PageDayCount
    BY <1>1, SideKeys
  <2>2. swap.streams[i].dayCount \in DOMAIN FpmlDayCount
    BY <1>1 DEF Readable
  <2>3. swap.streams[i].dayCount # "ActActISDA"
    BY <1>1
  <2> QED
    BY <2>1, <2>2, <2>3, SameDayCounts
<1> HIDE DEF page, mark
<1>6. InValueConvertible(page, ctx) /\ InValueConvertible(mark, ctx)
      /\ \A i, x : InValue(mark, i, ctx, x) = InValue(page, i, ctx, x)
  BY <1>2, <1>3 DEF InValueConvertible, InValue
<1>7. ASSUME NEW i \in 1..2
      PROVE  /\ r(i) \in Int
             /\ LegValue(page, ctx, i, ctx.asOf) = Sign(page.legs[i]) * r(i)
             /\ LegValue(mark, ctx, i, ctx.asOf) = OwnerSign(swap, i) * r(i)
  <2>1. Mirrors(mark.legs[i], page.legs[i], OwnerSign(swap, i))
    BY <1>2, <1>3, <1>5
  <2>2. OwnerSign(swap, i) \in {1, -1}
    BY DEF OwnerSign
  <2>3. /\ r(i) \in Int
        /\ LegValue(page, ctx, i, ctx.asOf) = Sign(page.legs[i]) * r(i)
        /\ LegValue(mark, ctx, i, ctx.asOf) = Sign(mark.legs[i]) * (OwnerSign(swap, i) * r(i))
    BY <1>2, <1>3, <1>4, <1>6, <2>1, <2>2, LegValueMirrored
  <2> HIDE DEF r
  <2>4. 1 * (OwnerSign(swap, i) * r(i)) = OwnerSign(swap, i) * r(i)
    BY <2>2, <2>3
  <2> QED
    BY <1>3, <2>3, <2>4
<1>8. Sign(page.legs[1]) = 1 /\ Sign(page.legs[2]) = -1
  BY <1>2, SideOwn DEF Sign
<1>9. /\ Price(page, ctx) = LegValue(page, ctx, 1, ctx.asOf) + LegValue(page, ctx, 2, ctx.asOf)
      /\ Price(mark, ctx) = LegValue(mark, ctx, 1, ctx.asOf) + LegValue(mark, ctx, 2, ctx.asOf)
  BY <1>2, <1>3, <1>4, <1>6, PriceOfTwo
<1>10. /\ OwnerSign(swap, 1) = IF swap.ownerReceives THEN 1 ELSE -1
       /\ OwnerSign(swap, 2) = IF swap.ownerReceives THEN -1 ELSE 1
  BY <1>1 DEF OwnerSign
<1> HIDE DEF r
<1>11. Price(page, ctx) = r(1) - r(2)
  BY <1>7, <1>8, <1>9
<1>12. Price(mark, ctx) = IF swap.ownerReceives THEN r(1) - r(2) ELSE -(r(1) - r(2))
  BY <1>7, <1>9, <1>10
<1> QED
  BY <1>11, <1>12 DEF MarkValue, page, mark

\* The row lists the page's configuration.
LEMMA RateRow ==
  ASSUME NEW swap, IsSwap(swap), swap.swapType = "IRS",
         swap.streams[1].dayCount \in {"Act360", "Act365Fixed"}
  PROVE  BlotterConfig(swap) = PageConfig(swap)
<1> DEFINE schedule == ScheduleOf(swap, "Quarterly")
           pageLeg(i) == Side(swap.streams[i], IF i = 2 THEN "pay" ELSE "receive",
                              PageDayCount[swap.streams[i].dayCount], schedule)
           rowLeg(i) == Side(swap.streams[i], IF i = 2 THEN "pay" ELSE "receive",
                             BlotterDayCount(swap.streams[i].dayCount), schedule)
<1>1. /\ DOMAIN swap.streams = 1..2
      /\ \A i \in 1..2 : swap.streams[i] \in StreamSides
      /\ swap.streams[1].dayCount = swap.streams[2].dayCount
  BY RateSwapStreams
<1>2. \A i \in 1..2 : PageDayCount[swap.streams[i].dayCount] = BlotterDayCount(swap.streams[i].dayCount)
  <2> TAKE i \in 1..2
  <2>1. swap.streams[i].dayCount \in DOMAIN PageDayCount
    BY <1>1, SideKeys
  <2>2. swap.streams[i].dayCount \in {"Act360", "Act365Fixed"}
    BY <1>1
  <2> QED
    BY <2>1, <2>2, SameDayCounts
<1>3. \A i \in 1..2 : rowLeg(i) = pageLeg(i)
  BY <1>2
<1>4. PageConfig(swap) = [type |-> "IRS", legs |-> [i \in 1..2 |-> pageLeg(i)]]
  <2>1. PagePaid(swap) = 2 /\ PageFrequency(swap) = "Quarterly" /\ swap.swapType \in SwapTypes
    BY DEF PagePaid, PageFrequency, SwapTypes
  <2>2. PageConfig(swap) = PageConfigOf(swap, 2, "Quarterly")
    BY <2>1, PageForm
  <2> QED
    BY <1>1, <2>2 DEF PageConfigOf
<1>5. BlotterConfig(swap) = [type |-> "IRS", legs |-> [i \in 1..2 |-> rowLeg(i)]]
  BY DEF BlotterConfig, StreamTypes
<1> HIDE DEF pageLeg, rowLeg
<1> QED
  BY <1>3, <1>4, <1>5

LEMMA RateSwapSame ==
  ASSUME NEW swap, IsSwap(swap), swap.swapType = "IRS", NEW ctx, IsContext(ctx)
  PROVE  SameRateSwap(swap, ctx)
<1>1. ASSUME swap.streams[1].dayCount \in {"Act360", "Act365Fixed"}, NEW viewer \in Parties
      PROVE  RowValue(swap, viewer, Market)
               = (IF viewer = swap.partyA THEN -1 ELSE 1)
                 * Price(PageConfig(swap), BlotterContext(Market))
  <2>1. BlotterConfig(swap) = PageConfig(swap)
    BY <1>1, RateRow
  <2>2. RowDirection(swap, viewer = swap.partyA) = IF viewer = swap.partyA THEN "pay" ELSE "receive"
    BY DEF RowDirection
  <2> QED
    BY <2>1, <2>2 DEF RowValue
<1> QED
  BY <1>1, RateRow, RateMarkValue DEF SameRateSwap

-----------------------------------------------------------------------------
(* A swap of streams.                                                      *)

\* The stream a builder makes its leg i of.
BuiltFrom(swap, i) ==
  IF ProductType(swap) = "BASIS" THEN i ELSE IF i = 1 THEN 3 - FloatStream(swap) ELSE FloatStream(swap)

BuiltSign(i) == IF i = 1 THEN 1 ELSE -1

Products == {"IRS", "BASIS", "XCCY"}

LEMMA ProductStreams ==
  ASSUME NEW swap, swap.streams \in Seq(AnySides), ProductType(swap) \in Products
  PROVE  /\ DOMAIN swap.streams = 1..2
         /\ {BuiltFrom(swap, 1), BuiltFrom(swap, 2)} = 1..2
         /\ ProductType(swap) = "XCCY" => swap.streams[1].currency # swap.streams[2].currency
<1> DEFINE streams == swap.streams
           floating == {i \in DOMAIN streams : streams[i].legType = "float"}
           floats == Cardinality(floating)
           sameCurrency == \A i, j \in DOMAIN streams : streams[i].currency = streams[j].currency
<1>1. /\ Len(streams) = 2
      /\ ProductType(swap) # "BASIS" => floats = 1
      /\ ProductType(swap) = "XCCY" => ~sameCurrency
  <2>1. ProductType(swap) = CASE Len(streams) = 2 /\ sameCurrency /\ floats = 1 -> "IRS"
                              [] Len(streams) = 2 /\ sameCurrency /\ floats = 2 -> "BASIS"
                              [] Len(streams) = 2 /\ ~sameCurrency /\ floats = 1 -> "XCCY"
                              [] OTHER -> "unsupported"
    BY DEF ProductType
  <2> HIDE DEF floats, sameCurrency
  <2> QED
    BY <2>1 DEF Products
<1>2. DOMAIN streams = 1..2
  BY <1>1
<1>3. ASSUME ProductType(swap) # "BASIS" PROVE FloatStream(swap) \in 1..2
  <2>1. floating # {}
    <3>1. floats = 1
      BY <1>1, <1>3
    <3> HIDE DEF floating
    <3>2. ASSUME floating = {} PROVE floats = 0
      BY <3>2, FS_EmptySet
    <3> QED
      BY <3>1, <3>2
  <2>2. \E i \in 1..2 : streams[i].legType = "float"
    BY <1>2, <2>1
  <2> QED
    BY <2>2 DEF FloatStream
<1>4. {BuiltFrom(swap, 1), BuiltFrom(swap, 2)} = 1..2
  <2>1. CASE ProductType(swap) = "BASIS"
    BY <2>1 DEF BuiltFrom
  <2>2. CASE ProductType(swap) # "BASIS"
    <3>1. BuiltFrom(swap, 1) = 3 - FloatStream(swap) /\ BuiltFrom(swap, 2) = FloatStream(swap)
      BY <2>2 DEF BuiltFrom
    <3> QED
      BY <1>3, <2>2, <3>1
  <2> QED
    BY <2>1, <2>2
<1>5. ASSUME ProductType(swap) = "XCCY" PROVE streams[1].currency # streams[2].currency
  <2>1. PICK i \in 1..2, j \in 1..2 : streams[i].currency # streams[j].currency
    BY <1>1, <1>2, <1>5
  <2> QED
    BY <2>1
<1> QED
  BY <1>2, <1>4, <1>5

LEMMA StreamConfig ==
  ASSUME NEW swap, IsSwap(swap), swap.swapType \in StreamTypes
  PROVE  LET config == FpmlConfig(swap)
             leg(i) == Side(IF i = 1 THEN swap.streams[BuiltFrom(swap, 1)]
                            ELSE Negated(swap.streams[BuiltFrom(swap, 2)]),
                            IF (i = 1) = (ProductType(swap) = "BASIS") THEN "pay" ELSE "receive",
                            FpmlDayCount[swap.streams[BuiltFrom(swap, i)].dayCount],
                            ScheduleOf(swap, "Quarterly"))
         IN /\ config # NoConfig <=> Readable(swap) /\ ProductType(swap) # "unsupported"
            /\ config # NoConfig =>
                 /\ ProductType(swap) \in Products /\ config.type = ProductType(swap)
                 /\ DOMAIN config.legs = 1..2
                 /\ config.legs[1] = leg(1) /\ config.legs[2] = leg(2)
<1> DEFINE config == FpmlConfig(swap)
           product == ProductType(swap)
           float == FloatStream(swap)
           leg(i) == Side(IF i = 1 THEN swap.streams[BuiltFrom(swap, 1)]
                          ELSE Negated(swap.streams[BuiltFrom(swap, 2)]),
                          IF (i = 1) = (product = "BASIS") THEN "pay" ELSE "receive",
                          FpmlDayCount[swap.streams[BuiltFrom(swap, i)].dayCount],
                          ScheduleOf(swap, "Quarterly"))
<1>1. product \in Products \cup {"unsupported"}
  BY DEF ProductType, Products
<1>2. config = IF ~Readable(swap) THEN NoConfig
               ELSE CASE product = "IRS" -> BuildIrsLike(swap)
                      [] product = "BASIS" -> BuildBasis(swap)
                      [] product = "XCCY" -> BuildXccy(swap)
                      [] OTHER -> NoConfig
  BY DEF FpmlConfig
<1> DEFINE built == [type |-> product, legs |-> <<leg(1), leg(2)>>]
<1>3. ASSUME Readable(swap), product \in Products PROVE config = built
  <2>1. Negated(swap.streams[BuiltFrom(swap, 2)]).dayCount = swap.streams[BuiltFrom(swap, 2)].dayCount
    <3>1. DOMAIN swap.streams = 1..2 /\ {BuiltFrom(swap, 1), BuiltFrom(swap, 2)} = 1..2
      BY <1>3, ProductStreams DEF IsSwap, AnySides
    <3>2. swap.streams[BuiltFrom(swap, 2)] \in StreamSides
      BY <3>1, SwapStreams
    <3> DEFINE stream == swap.streams[BuiltFrom(swap, 2)]
    <3> HIDE DEF stream
    <3>3. stream \in StreamSides
      BY <3>2 DEF stream
    <3>4. SameStream(Negated(stream), stream, -1) /\ "dayCount" \in DOMAIN stream
      BY <3>3, NegatedStream, SideKeys
    <3>5. Negated(stream)["dayCount"] = stream["dayCount"]
      BY <3>4 DEF SameStream
    <3> QED
      BY <3>5 DEF stream
  <2>2. CASE product = "BASIS"
    <3>1. BuiltFrom(swap, 1) = 1 /\ BuiltFrom(swap, 2) = 2
      BY <2>2 DEF BuiltFrom
    <3>2. config = BuildBasis(swap)
      BY <1>2, <1>3, <2>2
    <3> QED
      BY <2>1, <2>2, <3>1, <3>2 DEF BuildBasis, Built
  <2>3. CASE product # "BASIS"
    <3>1. BuiltFrom(swap, 1) = 3 - float /\ BuiltFrom(swap, 2) = float
      BY <2>3 DEF BuiltFrom
    <3> HIDE DEF float
    <3>2. config = [type |-> product,
                    legs |-> <<Built(swap, swap.streams[3 - float], "receive"),
                               Built(swap, Negated(swap.streams[float]), "pay")>>]
      BY <1>2, <1>3, <2>3 DEF Products, BuildIrsLike, BuildXccy, float
    <3> QED
      BY <2>1, <2>3, <3>1, <3>2 DEF Built
  <2> QED
    BY <2>2, <2>3
<1>4. ASSUME ~Readable(swap) \/ product \notin Products PROVE config = NoConfig
  BY <1>2, <1>4 DEF Products
<1>5. built # NoConfig
  <2>1. DOMAIN built = {"type", "legs"} /\ DOMAIN NoConfig = {"type"}
    BY DEF NoConfig
  <2> HIDE DEF built
  <2> QED
    BY <2>1
<1>6. /\ built.type = product /\ DOMAIN built.legs = 1..2
      /\ built.legs[1] = leg(1) /\ built.legs[2] = leg(2)
  <2> HIDE DEF leg
  <2> QED
    OBVIOUS
<1> HIDE DEF built, product, leg, config
<1>7. config # NoConfig <=> Readable(swap) /\ product # "unsupported"
  <2>1. "unsupported" \notin Products
    BY DEF Products
  <2> QED
    BY <1>1, <1>3, <1>4, <1>5, <2>1
<1>8. config # NoConfig =>
        /\ product \in Products /\ config.type = product
        /\ DOMAIN config.legs = 1..2 /\ config.legs[1] = leg(1) /\ config.legs[2] = leg(2)
  BY <1>3, <1>4, <1>6
<1> QED
  BY <1>7, <1>8 DEF product, leg, config

LEMMA StreamConfigTyped ==
  ASSUME NEW swap, IsSwap(swap), swap.swapType \in StreamTypes, FpmlConfig(swap) # NoConfig
  PROVE  LET config == FpmlConfig(swap) IN
         /\ IsConfig(config)
         /\ \A j \in 1..2 :
              /\ BuiltFrom(swap, j) \in 1..2 /\ swap.streams[BuiltFrom(swap, j)] \in StreamSides
              /\ Sign(config.legs[j]) = IF (j = 1) = (ProductType(swap) = "BASIS") THEN -1 ELSE 1
              /\ "currency" \in DOMAIN config.legs[j]
              /\ config.legs[j].currency = swap.streams[BuiltFrom(swap, j)].currency
              /\ \A direction :
                   Mirrors(config.legs[j],
                           Side(swap.streams[BuiltFrom(swap, j)], direction,
                                FpmlDayCount[swap.streams[BuiltFrom(swap, j)].dayCount],
                                ScheduleOf(swap, "Quarterly")),
                           BuiltSign(j))
<1> DEFINE config == FpmlConfig(swap)
           schedule == ScheduleOf(swap, "Quarterly")
           x(j) == IF j = 1 THEN swap.streams[BuiltFrom(swap, 1)]
                   ELSE Negated(swap.streams[BuiltFrom(swap, 2)])
           leg(j) == Side(x(j), IF (j = 1) = (ProductType(swap) = "BASIS") THEN "pay" ELSE "receive",
                          FpmlDayCount[swap.streams[BuiltFrom(swap, j)].dayCount], schedule)
<1>1. /\ ProductType(swap) \in Products /\ config.type = ProductType(swap)
      /\ DOMAIN config.legs = 1..2 /\ config.legs[1] = leg(1) /\ config.legs[2] = leg(2)
  BY StreamConfig
<1>2. DOMAIN swap.streams = 1..2 /\ {BuiltFrom(swap, 1), BuiltFrom(swap, 2)} = 1..2
  BY <1>1, ProductStreams DEF IsSwap, AnySides
<1>3. \A i \in 1..2 : swap.streams[i] \in StreamSides
  BY <1>2, SwapStreams
<1>4. IsSchedule(schedule)
  BY SwapStreams
<1> HIDE DEF config
<1>5. ASSUME NEW j \in 1..2
      PROVE  /\ BuiltFrom(swap, j) \in 1..2 /\ swap.streams[BuiltFrom(swap, j)] \in StreamSides
             /\ config.legs[j] = leg(j)
             /\ SameStream(x(j), swap.streams[BuiltFrom(swap, j)], BuiltSign(j))
  <2>1. j = 1 \/ j = 2
    OBVIOUS
  <2>2. BuiltFrom(swap, j) \in 1..2
    BY <1>2, <2>1
  <2>3. swap.streams[BuiltFrom(swap, j)] \in StreamSides
    BY <1>3, <2>2
  <2>4. config.legs[j] = leg(j)
    <3> HIDE DEF leg
    <3> QED
      BY <1>1, <2>1
  <2>5. SameStream(x(j), swap.streams[BuiltFrom(swap, j)], BuiltSign(j))
    BY <2>1, <2>3, NegatedStream DEF BuiltSign
  <2> QED
    BY <2>2, <2>3, <2>4, <2>5
<1> HIDE DEF x
<1>6. ASSUME NEW j \in 1..2
      PROVE  /\ IsLeg(leg(j))
             /\ "currency" \in DOMAIN leg(j) /\ leg(j).currency = swap.streams[BuiltFrom(swap, j)].currency
             /\ Sign(leg(j)) = IF (j = 1) = (ProductType(swap) = "BASIS") THEN -1 ELSE 1
             /\ \A direction :
                  Mirrors(leg(j), Side(swap.streams[BuiltFrom(swap, j)], direction,
                                       FpmlDayCount[swap.streams[BuiltFrom(swap, j)].dayCount], schedule),
                          BuiltSign(j))
  <2> DEFINE stream == swap.streams[BuiltFrom(swap, j)]
  <2>1. x(j) \in AnySides /\ DOMAIN x(j) = DOMAIN stream /\ stream \in StreamSides
        /\ x(j) \in StreamSides /\ BuiltSign(j) \in {1, -1} /\ SameStream(x(j), stream, BuiltSign(j))
    BY <1>5 DEF SameStream, StreamSides, AnySides, BuiltSign
  <2>2. leg(j).direction = IF (j = 1) = (ProductType(swap) = "BASIS") THEN "pay" ELSE "receive"
    BY SideOwn
  <2>3. Sign(leg(j)) = IF (j = 1) = (ProductType(swap) = "BASIS") THEN -1 ELSE 1
    <3> HIDE DEF leg
    <3> QED
      BY <2>2 DEF Sign
  <2>4. IsLeg(leg(j)) /\ ("currency" \in DOMAIN leg(j) <=> "currency" \in DOMAIN x(j))
    BY <1>4, <2>1, SideIsLeg
  <2>5. "currency" \in DOMAIN leg(j) /\ leg(j).currency = stream.currency
    <3>1. "currency" \in DOMAIN stream /\ "currency" \in DOMAIN x(j)
      BY <2>1, SideKeys
    <3>2. leg(j).currency = x(j).currency
      BY <3>1, SideField
    <3>3. "currency" \in DOMAIN leg(j)
      BY <2>4, <3>1
    <3>4. x(j).currency = stream.currency
      <4> HIDE DEF stream
      <4> QED
        BY <2>1, <3>1 DEF SameStream
    <3> QED
      BY <3>2, <3>3, <3>4
  <2>6. \A direction :
          Mirrors(leg(j), Side(stream, direction, FpmlDayCount[stream.dayCount], schedule), BuiltSign(j))
    BY <2>1, StreamMirrored
  <2> QED
    BY <2>3, <2>4, <2>5, <2>6
<1> HIDE DEF leg
<1>7. IsConfig(config)
  <2>1. \A j \in DOMAIN config.legs : IsLeg(config.legs[j])
    BY <1>1, <1>5, <1>6
  <2>2. config.type \in Families /\ 2 \in Nat \ {0}
    BY <1>1 DEF Products, Families
  <2> QED
    BY <1>1, <2>1, <2>2 DEF IsConfig
<1> QED
  BY <1>5, <1>6, <1>7 DEF config

LEMMA StreamConvertible ==
  ASSUME NEW swap, IsSwap(swap), swap.swapType \in StreamTypes, FpmlConfig(swap) # NoConfig,
         NEW market, HasSpots(market, swap), NEW ctx, ctx.fxSpots = market.fxSpots
  PROVE  Convertible(FpmlConfig(swap), ctx)
<1> DEFINE config == FpmlConfig(swap)
<1>1. DOMAIN config.legs = 1..2 /\ ProductType(swap) \in Products
  BY StreamConfig
<1>2. DOMAIN swap.streams = 1..2
  BY <1>1, ProductStreams DEF IsSwap, AnySides
<1>3. \A j \in 1..2 : /\ BuiltFrom(swap, j) \in 1..2
                      /\ LegCurrency(config.legs[j], "USD")
                           = LegCurrency(swap.streams[BuiltFrom(swap, j)], "USD")
  <2> TAKE j \in 1..2
  <2>1. /\ BuiltFrom(swap, j) \in 1..2 /\ swap.streams[BuiltFrom(swap, j)] \in StreamSides
        /\ "currency" \in DOMAIN config.legs[j]
        /\ config.legs[j].currency = swap.streams[BuiltFrom(swap, j)].currency
    BY StreamConfigTyped
  <2>2. "currency" \in DOMAIN swap.streams[BuiltFrom(swap, j)]
    BY <2>1, SideKeys
  <2> HIDE DEF config
  <2> QED
    BY <2>1, <2>2 DEF LegCurrency
<1> HIDE DEF config
<1>4. 1 \in DOMAIN config.legs
  BY <1>1
<1>5. \A j \in DOMAIN config.legs : \E i \in DOMAIN swap.streams :
        LegCurrency(config.legs[j], "USD") = LegCurrency(swap.streams[i], "USD")
  BY <1>1, <1>2, <1>3
<1>6. Convertible(config, ctx)
  BY <1>4, <1>5, SpotsConvert
<1> QED
  BY <1>6 DEF config

LEMMA StreamsSummed ==
  ASSUME NEW swap, IsSwap(swap), swap.swapType \in StreamTypes,
         NEW market, HasSpots(market, swap), NEW ctx, IsContext(ctx), ctx.fxSpots = market.fxSpots
  PROVE  SummedStreams(swap, ctx)
<1> DEFINE page == PageConfig(swap)
           config == FpmlConfig(swap)
           schedule == ScheduleOf(swap, "Quarterly")
           from(j) == BuiltFrom(swap, j)
           r(i) == Received(page, i, ctx)
<1> SUFFICES ASSUME config # NoConfig,
                    config.type = (IF page.type = "FpML" THEN "IRS" ELSE page.type),
                    \A i \in DOMAIN swap.streams : swap.streams[i].dayCount # "ActActISDA",
                    config.legs[1].currency = page.legs[1].currency
             PROVE  /\ Price(config, ctx) = IF config.type = "BASIS" THEN -(r(1) + r(2)) ELSE r(1) + r(2)
                    /\ Price(page, ctx) = r(2) - r(1)
  BY DEF SummedStreams
<1>1. /\ ProductType(swap) \in Products /\ config.type = ProductType(swap) /\ DOMAIN config.legs = 1..2
      /\ Readable(swap)
  BY StreamConfig
<1>2. /\ DOMAIN swap.streams = 1..2 /\ {from(1), from(2)} = 1..2
      /\ ProductType(swap) = "XCCY" => swap.streams[1].currency # swap.streams[2].currency
  BY <1>1, ProductStreams DEF IsSwap, AnySides
<1>3. /\ page.type = swap.swapType /\ DOMAIN page.legs = 1..2
      /\ \A i \in 1..2 :
           page.legs[i] = Side(swap.streams[i], IF i = 1 THEN "pay" ELSE "receive",
                               PageDayCount[swap.streams[i].dayCount], schedule)
  <2>1. PagePaid(swap) = 1 /\ PageFrequency(swap) = "Quarterly" /\ swap.swapType \in SwapTypes
    BY DEF PagePaid, PageFrequency, SwapTypes, StreamTypes
  <2> QED
    BY <1>2, <2>1, PageForm
<1>4. /\ IsConfig(config)
      /\ \A j \in 1..2 :
           /\ from(j) \in 1..2 /\ swap.streams[from(j)] \in StreamSides
           /\ Sign(config.legs[j]) = IF (j = 1) = (ProductType(swap) = "BASIS") THEN -1 ELSE 1
           /\ "currency" \in DOMAIN config.legs[j]
           /\ config.legs[j].currency = swap.streams[from(j)].currency
           /\ \A direction :
                Mirrors(config.legs[j], Side(swap.streams[from(j)], direction,
                                             FpmlDayCount[swap.streams[from(j)].dayCount], schedule),
                        BuiltSign(j))
  BY StreamConfigTyped
<1>5. IsConfig(page) /\ Convertible(page, ctx) /\ Convertible(config, ctx)
  BY PageIsConfig, PageConvertible, StreamConvertible
<1>6. \A i \in 1..2 : /\ swap.streams[i] \in StreamSides
                      /\ PageDayCount[swap.streams[i].dayCount] = FpmlDayCount[swap.streams[i].dayCount]
  <2> TAKE i \in 1..2
  <2>0. swap.streams[i] \in StreamSides
    BY <1>2, SwapStreams
  <2>1. swap.streams[i].dayCount \in DOMAIN PageDayCount
    BY <2>0, SideKeys
  <2>2. swap.streams[i].dayCount \in DOMAIN FpmlDayCount
    BY <1>1, <1>2 DEF Readable
  <2>3. swap.streams[i].dayCount # "ActActISDA"
    BY <1>2
  <2> QED
    BY <2>0, <2>1, <2>2, <2>3, SameDayCounts
<1>7. \A i \in 1..2 : /\ "currency" \in DOMAIN swap.streams[i] /\ "currency" \in DOMAIN page.legs[i]
                      /\ page.legs[i].currency = swap.streams[i].currency
  <2> TAKE i \in 1..2
  <2> DEFINE stream == swap.streams[i]
             direction == IF i = 1 THEN "pay" ELSE "receive"
             dayCount == PageDayCount[swap.streams[i].dayCount]
  <2>1. "currency" \in DOMAIN stream
    BY <1>6, SideKeys
  <2>2. page.legs[i] = Side(stream, direction, dayCount, schedule)
    BY <1>3
  <2> HIDE DEF stream, direction, dayCount, page, schedule
  <2>3. Side(stream, direction, dayCount, schedule).currency = stream.currency
    BY <2>1, SideField
  <2>4. "currency" \in DOMAIN Side(stream, direction, dayCount, schedule)
    BY <2>1, SideDomain
  <2> QED
    BY <2>1, <2>2, <2>3, <2>4 DEF stream
<1>8. ASSUME ProductType(swap) = "XCCY" PROVE \A j \in 1..2 : from(j) = j
  <2>1. /\ config.legs[1].currency = swap.streams[from(1)].currency /\ from(1) \in 1..2 /\ from(2) \in 1..2
        /\ page.legs[1].currency = swap.streams[1].currency
    BY <1>4, <1>7
  <2>2. swap.streams[1].currency # swap.streams[2].currency
    BY <1>2, <1>8
  <2> HIDE DEF from, page, config
  <2>3. from(1) = 1
    <3>1. ASSUME from(1) = 2 PROVE FALSE
      <4>1. config.legs[1].currency = swap.streams[2].currency
        BY <2>1, <3>1
      <4>2. config.legs[1].currency = swap.streams[1].currency
        BY <2>1
      <4> QED
        BY <2>2, <4>1, <4>2
    <3> QED
      BY <2>1, <3>1
  <2>4. from(2) = 2
    BY <1>2, <2>1, <2>3
  <2> QED
    BY <2>3, <2>4
<1> HIDE DEF page, config, from
<1>9. InValueConvertible(page, ctx) /\ InValueConvertible(config, ctx)
  BY <1>5 DEF InValueConvertible
<1>10. ASSUME NEW j \in 1..2
       PROVE  \A x : InValue(config, j, ctx, x) = InValue(page, from(j), ctx, x)
  <2>1. CASE config.type = "XCCY"
    <3>1. page.type = "XCCY" /\ from(j) = j
      BY <1>1, <1>8, <2>1
    <3>2. ReportingCurrency(config) = ReportingCurrency(page)
      BY <1>4, <1>7 DEF ReportingCurrency, LegCurrency
    <3>3. \A c : LegCurrency(config.legs[j], c) = LegCurrency(page.legs[j], c)
      BY <1>4, <1>7, <3>1 DEF LegCurrency
    <3>4. \A x : InReportingCurrency(config, j, ctx, x) = InReportingCurrency(page, j, ctx, x)
      BY <3>2, <3>3 DEF InReportingCurrency
    <3> QED
      BY <2>1, <3>1, <3>4 DEF InValue
  <2>2. CASE config.type # "XCCY"
    <3>1. page.type # "XCCY"
      BY <2>2
    <3> QED
      BY <2>2, <3>1 DEF InValue
  <2> QED
    BY <2>1, <2>2
<1>11. ASSUME NEW j \in 1..2
       PROVE  /\ r(from(j)) \in Int
              /\ LegValue(page, ctx, from(j), ctx.asOf) = Sign(page.legs[from(j)]) * r(from(j))
              /\ LegValue(config, ctx, j, ctx.asOf) = Sign(config.legs[j]) * (BuiltSign(j) * r(from(j)))
  <2>1. from(j) \in 1..2
    BY <1>4
  <2>2. Mirrors(config.legs[j], page.legs[from(j)], BuiltSign(j))
    BY <1>3, <1>4, <1>6, <2>1
  <2>3. BuiltSign(j) \in {1, -1}
    BY DEF BuiltSign
  <2>4. \/ page.type = config.type /\ from(j) = j
        \/ page.type \in RateFamilies /\ config.type \in RateFamilies
    <3>1. CASE page.type = "FpML"
      BY <3>1 DEF RateFamilies
    <3>2. CASE page.type # "FpML"
      <4>1. page.type = config.type /\ config.type # "IRS"
        BY <1>3, <3>2 DEF StreamTypes
      <4>2. CASE config.type = "BASIS"
        BY <1>1, <4>1, <4>2 DEF from, BuiltFrom
      <4>3. CASE config.type = "XCCY"
        BY <1>1, <1>8, <4>1, <4>3
      <4> QED
        BY <1>1, <4>1, <4>2, <4>3 DEF Products
    <3> QED
      BY <3>1, <3>2
  <2>5. from(j) \in DOMAIN page.legs /\ j \in DOMAIN config.legs
    BY <1>1, <1>3, <2>1
  <2> QED
    BY <1>4, <1>5, <1>9, <1>10, <2>2, <2>3, <2>4, <2>5, LegValueMirrored
<1>12. /\ Sign(page.legs[1]) = -1 /\ Sign(page.legs[2]) = 1
  BY <1>3, SideOwn DEF Sign
<1>13. /\ Price(page, ctx) = LegValue(page, ctx, 1, ctx.asOf) + LegValue(page, ctx, 2, ctx.asOf)
       /\ Price(config, ctx) = LegValue(config, ctx, 1, ctx.asOf) + LegValue(config, ctx, 2, ctx.asOf)
  BY <1>1, <1>3, <1>4, <1>5, <1>9, PriceOfTwo
<1> HIDE DEF r
<1>14. \/ from(1) = 1 /\ from(2) = 2
       \/ from(1) = 2 /\ from(2) = 1
  BY <1>2, <1>4
<1>15. \A i \in 1..2 : r(i) \in Int /\ LegValue(page, ctx, i, ctx.asOf) = Sign(page.legs[i]) * r(i)
  BY <1>11, <1>14
<1>16. Price(page, ctx) = r(2) - r(1)
  BY <1>12, <1>13, <1>15
<1>17. /\ LegValue(config, ctx, 1, ctx.asOf) = Sign(config.legs[1]) * r(from(1))
       /\ LegValue(config, ctx, 2, ctx.asOf) = -(Sign(config.legs[2]) * r(from(2)))
  <2>1. BuiltSign(1) = 1 /\ BuiltSign(2) = -1
    BY DEF BuiltSign
  <2>2. /\ LegValue(config, ctx, 1, ctx.asOf) = Sign(config.legs[1]) * (1 * r(from(1)))
        /\ LegValue(config, ctx, 2, ctx.asOf) = Sign(config.legs[2]) * ((-1) * r(from(2)))
        /\ r(from(1)) \in Int /\ r(from(2)) \in Int
    BY <1>11, <2>1
  <2>3. \A sign \in {1, -1}, v \in Int : sign * (1 * v) = sign * v /\ sign * ((-1) * v) = -(sign * v)
    OBVIOUS
  <2>4. Sign(config.legs[1]) \in {1, -1} /\ Sign(config.legs[2]) \in {1, -1}
    BY DEF Sign
  <2> QED
    BY <2>2, <2>3, <2>4
<1>18. Price(config, ctx) = IF config.type = "BASIS" THEN -(r(1) + r(2)) ELSE r(1) + r(2)
  <2>1. /\ Sign(config.legs[1]) = IF config.type = "BASIS" THEN -1 ELSE 1
        /\ Sign(config.legs[2]) = IF config.type = "BASIS" THEN 1 ELSE -1
    BY <1>1, <1>4
  <2>2. r(from(1)) + r(from(2)) = r(1) + r(2) /\ r(from(1)) \in Int /\ r(from(2)) \in Int
        /\ r(1) \in Int /\ r(2) \in Int
    BY <1>14, <1>15
  <2>3. CASE config.type = "BASIS"
    <3>1. Price(config, ctx) = -r(from(1)) - r(from(2))
      BY <1>13, <1>17, <2>1, <2>2, <2>3
    <3> QED
      BY <2>2, <2>3, <3>1
  <2>4. CASE config.type # "BASIS"
    <3>1. Price(config, ctx) = r(from(1)) + r(from(2))
      BY <1>13, <1>17, <2>1, <2>2, <2>4
    <3> QED
      BY <2>2, <2>4, <3>1
  <2> QED
    BY <2>3, <2>4
<1> QED
  BY <1>16, <1>18

-----------------------------------------------------------------------------
(* What is marked, and a netting set.                                      *)

\* Which swaps have a configuration to be marked by.
LEMMA MarkReads ==
  ASSUME NEW swap, IsSwap(swap)
  PROVE  Markable(<<swap>>)
           <=> /\ swap.swapType \notin {"CCY", "FX", "ASSET"}
               /\ \A i \in DOMAIN swap.streams : swap.streams[i].dayCount # "Act365Fixed"
               /\ swap.swapType \in StreamTypes => ProductType(swap) # "unsupported"
<1>1. Markable(<<swap>>) <=> MarkConfig(swap) # NoConfig
  BY DEF Markable
<1>2. /\ swap.swapType \in SwapTypes
      /\ swap.swapType \in {"IRS", "OIS"} \cup StreamTypes =>
           \A i \in DOMAIN swap.streams : swap.streams[i] \in StreamSides
  BY SwapStreams
<1>3. CASE swap.swapType \in {"CCY", "FX", "ASSET"}
  BY <1>1, <1>3 DEF MarkConfig, StreamTypes
<1>4. CASE swap.swapType \in {"IRS", "OIS"} \cup StreamTypes
  <2>1. Readable(swap) <=> \A i \in DOMAIN swap.streams : swap.streams[i].dayCount # "Act365Fixed"
    <3>1. \A i \in DOMAIN swap.streams :
            swap.streams[i].dayCount \in DOMAIN FpmlDayCount <=> swap.streams[i].dayCount # "Act365Fixed"
      <4> TAKE i \in DOMAIN swap.streams
      <4>1. swap.streams[i].dayCount \in DOMAIN PageDayCount
        BY <1>2, <1>4, SideKeys
      <4> QED
        BY <4>1, SameDayCounts
    <3> QED
      BY <3>1 DEF Readable
  <2>2. CASE swap.swapType \in StreamTypes
    <3>1. MarkConfig(swap) = FpmlConfig(swap)
      BY <2>2 DEF MarkConfig
    <3>2. FpmlConfig(swap) # NoConfig <=> Readable(swap) /\ ProductType(swap) # "unsupported"
      BY <2>2, StreamConfig
    <3>3. swap.swapType \notin {"CCY", "FX", "ASSET"}
      BY <2>2 DEF StreamTypes
    <3> QED
      BY <1>1, <2>1, <2>2, <3>1, <3>2, <3>3
  <2>3. CASE swap.swapType \in {"IRS", "OIS"}
    <3>1. swap.swapType \notin StreamTypes /\ swap.swapType \notin {"CCY", "FX", "ASSET"}
      BY <2>3 DEF StreamTypes
    <3>2. MarkConfig(swap) = IF Readable(swap) THEN IrsMarkConfig(swap) ELSE NoConfig
      BY <2>3, <3>1 DEF MarkConfig
    <3>3. IrsMarkConfig(swap) # NoConfig
      <4>1. IrsMarkConfig(swap).type = "IRS" /\ NoConfig.type = "none"
        BY DEF IrsMarkConfig, NoConfig
      <4> QED
        BY <4>1
    <3> QED
      BY <1>1, <2>1, <3>1, <3>2, <3>3
  <2> QED
    BY <1>4, <2>2, <2>3
<1> QED
  BY <1>2, <1>3, <1>4 DEF SwapTypes

LEMMA MarkForm ==
  ASSUME NEW swap, IsSwap(swap), MarkConfig(swap) # NoConfig
  PROVE  /\ IsConfig(MarkConfig(swap))
         /\ \/ swap.swapType \in {"IRS", "OIS"} /\ MarkConfig(swap).type = "IRS"
            \/ swap.swapType \in StreamTypes /\ MarkConfig(swap) = FpmlConfig(swap)
<1>1. CASE swap.swapType \in StreamTypes
  <2>1. MarkConfig(swap) = FpmlConfig(swap)
    BY <1>1 DEF MarkConfig
  <2> QED
    BY <1>1, <2>1, StreamConfigTyped
<1>2. CASE swap.swapType \notin StreamTypes
  <2>1. swap.swapType \in {"IRS", "OIS"} /\ Readable(swap)
    BY <1>2 DEF MarkConfig
  <2> QED
    BY <2>1, RateMark
<1> QED
  BY <1>1, <1>2

\* A mark is a number, in a context with the spots where they are needed.
LEMMA MarkTyped ==
  ASSUME NEW swap, IsSwap(swap), MarkConfig(swap) # NoConfig, NEW market, IsMarket(market),
         HasSpots(market, swap), NEW needsFx, swap.swapType \in StreamTypes => needsFx = TRUE
  PROVE  MarkValue(swap, MarkContext(market, needsFx)) \in Int
<1> DEFINE ctx == MarkContext(market, needsFx)
           config == MarkConfig(swap)
<1>1. IsContext(ctx)
  BY ContextsTyped
<1>2. IsConfig(config)
  BY MarkForm
<1>3. InValueConvertible(config, ctx)
  <2>1. CASE swap.swapType \in StreamTypes
    <3>1. ctx.fxSpots = market.fxSpots
      BY <2>1 DEF MarkContext
    <3>2. config = FpmlConfig(swap)
      BY <2>1 DEF MarkConfig
    <3> HIDE DEF ctx
    <3>3. Convertible(FpmlConfig(swap), ctx)
      BY <2>1, <3>1, <3>2, StreamConvertible
    <3> QED
      BY <3>2, <3>3 DEF InValueConvertible
  <2>2. CASE swap.swapType \notin StreamTypes
    <3>1. config.type = "IRS"
      BY <2>2, MarkForm
    <3> HIDE DEF config
    <3> QED
      BY <3>1 DEF InValueConvertible
  <2> QED
    BY <2>1, <2>2
<1> HIDE DEF ctx, config
<1>4. Npv(config, ctx, ctx.asOf) \in Int
  BY <1>1, <1>2, <1>3, NpvTyped
<1> QED
  BY <1>4 DEF MarkValue, Price, config, ctx

\* A rate swap's mark is the same with the curve book as without, where the book
\* projects it as the discount curve does.
LEMMA MarkWithBook ==
  ASSUME NEW swap, IsSwap(swap), MarkConfig(swap) # NoConfig, swap.swapType \notin StreamTypes,
         NEW market,
         \A i \in DOMAIN MarkConfig(swap).legs :
           MarkConfig(swap).legs[i].legType = "float" =>
             ProjectedRate(MarkConfig(swap).legs[i], MarkContext(market, TRUE)) = market.rate
  PROVE  MarkValue(swap, MarkContext(market, TRUE)) = MarkValue(swap, MarkContext(market, FALSE))
<1> DEFINE config == MarkConfig(swap)
           with == MarkContext(market, TRUE)
           without == MarkContext(market, FALSE)
<1>1. IsConfig(config) /\ config.type = "IRS"
  BY MarkForm
<1>2. swap.swapType \in {"IRS", "OIS"} /\ Readable(swap)
  BY DEF MarkConfig
<1>3. /\ with.asOf = without.asOf /\ with.index = without.index
      /\ with.observations = without.observations
      /\ without.rate = market.rate /\ DOMAIN without.book = {}
  BY DEF MarkContext
<1>4. ASSUME NEW i \in DOMAIN config.legs PROVE config.legs[i].legType \in {"fixed", "float"}
  <2>1. DOMAIN config.legs = 1..2
    BY <1>2, RateMark
  <2>2. Mirrors(config.legs[i],
                Side(swap.streams[i], "pay", FpmlDayCount[swap.streams[i].dayCount],
                     ScheduleOf(swap, "Quarterly")), OwnerSign(swap, i))
    BY <1>2, <2>1, RateMark
  <2> HIDE DEF config
  <2> QED
    BY <2>2 DEF Mirrors
<1>5. ASSUME NEW i \in DOMAIN config.legs
      PROVE  LegFlows(config.type, config.legs[i], with, i) = LegFlows(config.type, config.legs[i], without, i)
  <2> DEFINE leg == config.legs[i]
             flows(ctx) == IF leg.legType = "fixed" THEN FixedFlows(leg)
                           ELSE FloatFlows(leg, ctx, ProjectedRate(leg, ctx))
  <2>1. config.type \in RateFamilies /\ leg.legType \in {"fixed", "float"}
    BY <1>1, <1>4 DEF RateFamilies
  <2>2. leg.legType = "float" => ProjectedRate(leg, with) = market.rate
    OBVIOUS
  <2>3. ProjectedRate(leg, without) = market.rate
    BY <1>3 DEF ProjectedRate
  <2> HIDE DEF config, with, without
  <2>4. \A rate : FloatFlows(leg, with, rate) = FloatFlows(leg, without, rate)
    BY <1>3 DEF FloatFlows
  <2>5. flows(with) = flows(without)
    <3>1. CASE leg.legType = "fixed"
      BY <3>1
    <3>2. CASE leg.legType = "float"
      BY <2>2, <2>3, <2>4, <3>2
    <3> QED
      BY <2>1, <3>1, <3>2
  <2>6. LegFlows(config.type, leg, with, i) = flows(with)
    BY <2>1, RateFlows
  <2>7. LegFlows(config.type, leg, without, i) = flows(without)
    BY <2>1, RateFlows
  <2> HIDE DEF flows, leg
  <2> QED
    BY <2>5, <2>6, <2>7 DEF leg
<1> HIDE DEF config, with, without
<1>6. \A i \in DOMAIN config.legs :
        LegValue(config, with, i, with.asOf) = LegValue(config, without, i, without.asOf)
  BY <1>1, <1>3, <1>5 DEF LegValue, InValue
<1>7. Price(config, with) = Price(config, without)
  <2> DEFINE f == [i \in DOMAIN config.legs |-> LegValue(config, with, i, with.asOf)]
             g == [i \in DOMAIN config.legs |-> LegValue(config, without, i, without.asOf)]
  <2>1. f = g
    BY <1>6
  <2>2. Price(config, with) = SumFunction(f) /\ Price(config, without) = SumFunction(g)
    BY DEF Price, Npv
  <2> HIDE DEF f, g
  <2> QED
    BY <2>1, <2>2
<1> QED
  BY <1>7 DEF MarkValue, config, with, without

\* Whoever proposed it, a swap is marked by the same configuration.
LEMMA MarkOfMirror ==
  ASSUME NEW swap, IsSwap(swap)
  PROVE  LET mirrored == [swap EXCEPT !.partyA = Other(@)] IN
         /\ MarkConfig(mirrored) = MarkConfig(swap)
         /\ mirrored.swapType = swap.swapType
         /\ Reversed(mirrored) <=> ~Reversed(swap)
<1> DEFINE mirrored == [swap EXCEPT !.partyA = Other(@)]
<1>1. /\ DOMAIN swap = {"start", "end", "partyA", "ownerReceives", "swapType", "streams"}
      /\ swap.partyA \in Parties
  BY DEF IsSwap
<1>2. /\ mirrored.start = swap.start /\ mirrored.end = swap.end /\ mirrored.streams = swap.streams
      /\ mirrored.ownerReceives = swap.ownerReceives /\ mirrored.swapType = swap.swapType
      /\ mirrored.partyA = Other(swap.partyA)
  BY <1>1
<1> HIDE DEF mirrored
<1>3. Readable(mirrored) = Readable(swap) /\ ProductType(mirrored) = ProductType(swap)
      /\ FloatStream(mirrored) = FloatStream(swap)
  BY <1>2 DEF Readable, ProductType, FloatStream
<1>4. ScheduleOf(mirrored, "Quarterly") = ScheduleOf(swap, "Quarterly")
  BY <1>2 DEF ScheduleOf
<1>5. \A stream, direction : Built(mirrored, stream, direction) = Built(swap, stream, direction)
  BY <1>4 DEF Built
<1>6. /\ BuildIrsLike(mirrored) = BuildIrsLike(swap) /\ BuildBasis(mirrored) = BuildBasis(swap)
      /\ BuildXccy(mirrored) = BuildXccy(swap)
  BY <1>2, <1>3, <1>5 DEF BuildIrsLike, BuildBasis, BuildXccy
<1>7. FpmlConfig(mirrored) = FpmlConfig(swap)
  BY <1>3, <1>6 DEF FpmlConfig
<1>8. IrsMarkConfig(mirrored) = IrsMarkConfig(swap)
  BY <1>2, <1>4 DEF IrsMarkConfig
<1>9. MarkConfig(mirrored) = MarkConfig(swap)
  BY <1>2, <1>3, <1>7, <1>8 DEF MarkConfig
<1>10. Reversed(mirrored) <=> ~Reversed(swap)
  BY <1>1, <1>2, PartiesDiffer DEF Reversed, Other, Parties
<1> QED
  BY <1>2, <1>9, <1>10 DEF mirrored

\* A swap's mark in its agreement's frame.
Signed(swap, ctx) == IF Reversed(swap) THEN -MarkValue(swap, ctx) ELSE MarkValue(swap, ctx)

LEMMA ExposureOfOne ==
  ASSUME NEW swap, NEW market,
         MarkValue(swap, MarkContext(market, NeedsFx(<<swap>>))) \in Int
  PROVE  Exposure(<<swap>>, market) = -Signed(swap, MarkContext(market, NeedsFx(<<swap>>)))
<1> DEFINE ctx == MarkContext(market, NeedsFx(<<swap>>))
           f == [i \in DOMAIN <<swap>> |-> Signed(<<swap>>[i], ctx)]
<1>1. Exposure(<<swap>>, market) = -SumFunction(f)
  BY DEF Exposure, Signed
<1> HIDE DEF ctx
<1>2. DOMAIN f = {1} /\ f[1] = Signed(swap, ctx)
  OBVIOUS
<1>3. f[1] \in Int
  BY <1>2 DEF Signed, ctx
<1> HIDE DEF f
<1>4. SumFunctionOnSet(f, {1}) = f[1]
  BY <1>3, SumOfOne
<1> QED
  BY <1>1, <1>2, <1>4, SumOfFunction DEF ctx

LEMMA ExposureOfTwo ==
  ASSUME NEW a, NEW b, NEW market,
         MarkValue(a, MarkContext(market, NeedsFx(<<a, b>>))) \in Int,
         MarkValue(b, MarkContext(market, NeedsFx(<<a, b>>))) \in Int
  PROVE  Exposure(<<a, b>>, market)
           = -(Signed(a, MarkContext(market, NeedsFx(<<a, b>>)))
               + Signed(b, MarkContext(market, NeedsFx(<<a, b>>))))
<1> DEFINE ctx == MarkContext(market, NeedsFx(<<a, b>>))
           f == [i \in DOMAIN <<a, b>> |-> Signed(<<a, b>>[i], ctx)]
<1>1. Exposure(<<a, b>>, market) = -SumFunction(f)
  BY DEF Exposure, Signed
<1> HIDE DEF ctx
<1>2. DOMAIN f = 1..2 /\ f[1] = Signed(a, ctx) /\ f[2] = Signed(b, ctx)
  OBVIOUS
<1>3. f[1] \in Int /\ f[2] \in Int
  BY <1>2 DEF Signed, ctx
<1> HIDE DEF f
<1>4. SumFunctionOnSet(f, 1..2) = f[1] + f[2]
  BY <1>3, SumOfTwo
<1> QED
  BY <1>1, <1>2, <1>4, SumOfFunction DEF ctx

LEMMA NeedsFxOf ==
  ASSUME NEW a, NEW b
  PROVE  /\ NeedsFx(<<a>>) <=> a.swapType \in StreamTypes
         /\ NeedsFx(<<a, b>>) <=> NeedsFx(<<a>>) \/ NeedsFx(<<b>>)
         /\ NeedsFx(<<a>>) \in BOOLEAN /\ NeedsFx(<<a, b>>) \in BOOLEAN
<1>1. NeedsFx(<<a>>) <=> a.swapType \in StreamTypes
  BY DEF NeedsFx
<1>2. NeedsFx(<<b>>) <=> b.swapType \in StreamTypes
  BY DEF NeedsFx
<1>3. NeedsFx(<<a, b>>) <=> a.swapType \in StreamTypes \/ b.swapType \in StreamTypes
  <2>1. DOMAIN <<a, b>> = {1, 2} /\ <<a, b>>[1] = a /\ <<a, b>>[2] = b
    OBVIOUS
  <2>2. NeedsFx(<<a, b>>) <=> \E i \in {1, 2} : <<a, b>>[i].swapType \in StreamTypes
    BY DEF NeedsFx
  <2> QED
    BY <2>1, <2>2
<1>4. NeedsFx(<<a>>) \in BOOLEAN /\ NeedsFx(<<a, b>>) \in BOOLEAN
  BY DEF NeedsFx
<1> QED
  BY <1>1, <1>2, <1>3, <1>4

\* Alone or in a set with another, a swap's mark is the same.
LEMMA MarkInASet ==
  ASSUME NEW swap, IsSwap(swap), MarkConfig(swap) # NoConfig, NEW needsFx \in BOOLEAN,
         needsFx # NeedsFx(<<swap>>) => ~NeedsFx(<<swap>>) /\ BookAgrees(swap)
  PROVE  MarkValue(swap, MarkContext(Market, needsFx))
           = MarkValue(swap, MarkContext(Market, NeedsFx(<<swap>>)))
<1>1. CASE needsFx = NeedsFx(<<swap>>)
  BY <1>1
<1>2. CASE needsFx # NeedsFx(<<swap>>)
  <2>1. ~NeedsFx(<<swap>>) /\ BookAgrees(swap)
    BY <1>2
  <2>2. needsFx = TRUE /\ NeedsFx(<<swap>>) = FALSE
    BY <1>2, <2>1, NeedsFxOf
  <2>3. swap.swapType \notin StreamTypes
    BY <2>1, NeedsFxOf
  <2>4. \A i \in DOMAIN MarkConfig(swap).legs :
          MarkConfig(swap).legs[i].legType = "float" =>
            ProjectedRate(MarkConfig(swap).legs[i], MarkContext(Market, TRUE)) = Market.rate
    BY <2>1 DEF BookAgrees
  <2> DEFINE market == Market
  <2> HIDE DEF market
  <2>5. MarkValue(swap, MarkContext(market, TRUE)) = MarkValue(swap, MarkContext(market, FALSE))
    BY <2>3, <2>4, MarkWithBook DEF market
  <2> QED
    BY <2>2, <2>5 DEF market
<1> QED
  BY <1>1, <1>2

LEMMA SwapNets ==
  ASSUME NEW swap, IsSwap(swap), MarkConfig(swap) # NoConfig, IsMarket(Market), HasSpots(Market, swap)
  PROVE  Nets(swap)
<1> DEFINE mirrored == [swap EXCEPT !.partyA = Other(@)]
           market == Market
<1>0. /\ MarkConfig(mirrored) = MarkConfig(swap) /\ mirrored.swapType = swap.swapType
      /\ Reversed(mirrored) <=> ~Reversed(swap)
  BY MarkOfMirror
<1> HIDE DEF mirrored, market
<1>1. Exposure(<<swap, mirrored>>, market) = 0
  <2> DEFINE ctx == MarkContext(market, NeedsFx(<<swap, mirrored>>))
  <2>1. swap.swapType \in StreamTypes => NeedsFx(<<swap, mirrored>>) = TRUE
    BY NeedsFxOf
  <2>2. MarkValue(swap, ctx) \in Int
    BY <2>1, MarkTyped DEF market
  <2>3. MarkValue(mirrored, ctx) = MarkValue(swap, ctx)
    BY <1>0 DEF MarkValue
  <2>4. Exposure(<<swap, mirrored>>, market) = -(Signed(swap, ctx) + Signed(mirrored, ctx))
    BY <2>2, <2>3, ExposureOfTwo
  <2> HIDE DEF ctx
  <2> QED
    BY <1>0, <2>2, <2>3, <2>4 DEF Signed
<1>2. ASSUME NEW u \in Trades, Markable(<<u.swap>>), HasSpots(market, u.swap),
             \/ NeedsFx(<<swap>>) = NeedsFx(<<u.swap>>)
             \/ \A s \in {swap, u.swap} : NeedsFx(<<s>>) \/ BookAgrees(s)
      PROVE  Exposure(<<swap, u.swap>>, market) = Exposure(<<swap>>, market) + Exposure(<<u.swap>>, market)
  <2> DEFINE other == u.swap
             needsFx == NeedsFx(<<swap, other>>)
             ctx == MarkContext(market, needsFx)
             alone(s) == MarkContext(market, NeedsFx(<<s>>))
  <2>1. IsSwap(other) /\ MarkConfig(other) # NoConfig
    BY <1>2, ValuationInputs DEF Markable
  <2> HIDE DEF other
  <2>2. /\ needsFx \in BOOLEAN /\ needsFx = (NeedsFx(<<swap>>) \/ NeedsFx(<<other>>))
        /\ NeedsFx(<<swap>>) \in BOOLEAN /\ NeedsFx(<<other>>) \in BOOLEAN
        /\ swap.swapType \in StreamTypes => NeedsFx(<<swap>>) = TRUE
        /\ other.swapType \in StreamTypes => NeedsFx(<<other>>) = TRUE
    BY NeedsFxOf
  <2>3. MarkValue(swap, alone(swap)) \in Int
    BY <2>2, MarkTyped DEF market
  <2>4. MarkValue(other, alone(other)) \in Int
    BY <1>2, <2>1, <2>2, MarkTyped DEF market, other
  <2>5. \A s \in {swap, other} : needsFx # NeedsFx(<<s>>) => ~NeedsFx(<<s>>) /\ BookAgrees(s)
    BY <1>2, <2>2 DEF other
  <2>6. MarkValue(swap, ctx) = MarkValue(swap, alone(swap))
    <3> HIDE DEF needsFx
    <3> QED
      BY <2>2, <2>5, MarkInASet DEF market
  <2>7. MarkValue(other, ctx) = MarkValue(other, alone(other))
    <3> HIDE DEF needsFx
    <3> QED
      BY <2>1, <2>2, <2>5, MarkInASet DEF market
  <2>8. /\ Exposure(<<swap>>, market) = -Signed(swap, alone(swap))
        /\ Exposure(<<other>>, market) = -Signed(other, alone(other))
    BY <2>3, <2>4, ExposureOfOne
  <2>9. Exposure(<<swap, other>>, market) = -(Signed(swap, ctx) + Signed(other, ctx))
    BY <2>3, <2>4, <2>6, <2>7, ExposureOfTwo
  <2> HIDE DEF ctx, alone
  <2>10. Signed(swap, ctx) = Signed(swap, alone(swap)) /\ Signed(other, ctx) = Signed(other, alone(other))
         /\ Signed(swap, ctx) \in Int /\ Signed(other, ctx) \in Int
    BY <2>3, <2>4, <2>6, <2>7 DEF Signed
  <2> QED
    BY <2>8, <2>9, <2>10 DEF other
<1> QED
  BY <1>1, <1>2 DEF Nets, mirrored, market

-----------------------------------------------------------------------------
(* The states of a reader.                                                 *)

\* A reader looks at a trade, on one of the days it is looked at.
THEOREM ValuesTypeCorrect == ValuesSpec => []ValuesTypeOK
<1>1. ValuesInit => ValuesTypeOK
  BY DEF ValuesInit, ValuesTypeOK
<1>2. ValuesTypeOK /\ [DaysPass]_valuesVars => ValuesTypeOK'
  BY DEF ValuesTypeOK, DaysPass, valuesVars
<1> QED
  BY <1>1, <1>2, PTL DEF ValuesSpec

\* What is known of the trade before a reader and of its market that day.
LEMMA Seen ==
  ASSUME ValuesTypeOK, trade # NoTrade
  PROVE  /\ IsSwap(trade.swap) /\ IsMarket(Market) /\ HasSpots(Market, trade.swap)
         /\ Market.asOf = now /\ now \in Nat
<1>1. trade \in Trades /\ now \in trade.days \cup {trade.swap.start - 1}
  BY DEF ValuesTypeOK
<1>2. Market.asOf = now /\ IsMarket(Market) /\ HasSpots(Market, trade.swap) /\ IsSwap(trade.swap)
  BY <1>1, ValuationInputs DEF Market
<1>3. now \in Nat
  BY <1>2 DEF IsMarket
<1> QED
  BY <1>2, <1>3

\* What MarkedAsShown says of a state holds in every state of the type.
LEMMA AgreesInState ==
  ASSUME ValuesTypeOK PROVE MarkedAsShown
<1> SUFFICES ASSUME trade # NoTrade
             PROVE  LET swap == trade.swap
                        ctx == PageContext(PageConfig(swap), Market)
                    IN /\ swap.swapType = "IRS" => SameRateSwap(swap, ctx)
                       /\ swap.swapType \in StreamTypes => SummedStreams(swap, ctx)
                       /\ Markable(<<swap>>) => Nets(swap)
                       /\ Markable(<<swap>>)
                            <=> /\ swap.swapType \notin {"CCY", "FX", "ASSET"}
                                /\ \A i \in DOMAIN swap.streams :
                                     swap.streams[i].dayCount # "Act365Fixed"
                                /\ swap.swapType \in StreamTypes => ProductType(swap) # "unsupported"
  BY DEF MarkedAsShown
<1> DEFINE swap == trade.swap
           market == Market
           ctx == PageContext(PageConfig(swap), market)
<1>1. IsSwap(swap) /\ IsMarket(market) /\ HasSpots(market, swap)
  BY Seen
<1>2. IsContext(ctx)
  BY <1>1, ContextsTyped
<1>3. ctx.fxSpots = market.fxSpots
  BY DEF PageContext
<1>4. Markable(<<swap>>) => Nets(swap)
  <2>1. Markable(<<swap>>) => MarkConfig(swap) # NoConfig
    BY DEF Markable
  <2> QED
    BY <1>1, <2>1, SwapNets
<1> HIDE DEF swap, market, ctx
<1>5. swap.swapType = "IRS" => SameRateSwap(swap, ctx)
  BY <1>1, <1>2, RateSwapSame
<1>6. swap.swapType \in StreamTypes => SummedStreams(swap, ctx)
  BY <1>1, <1>2, <1>3, StreamsSummed
<1>7. Markable(<<swap>>)
        <=> /\ swap.swapType \notin {"CCY", "FX", "ASSET"}
            /\ \A i \in DOMAIN swap.streams : swap.streams[i].dayCount # "Act365Fixed"
            /\ swap.swapType \in StreamTypes => ProductType(swap) # "unsupported"
  BY <1>1, MarkReads
<1> QED
  BY <1>4, <1>5, <1>6, <1>7 DEF swap, market, ctx

\* The page, the blotter and the mark publisher make the same of a swap, whatever
\* it is and in whatever market, with the exceptions MarkedAsShown states; marks
\* of a netting set add up and cancel.
THEOREM ReadersAgree == ValuesSpec => []MarkedAsShown
<1>1. ValuesTypeOK => MarkedAsShown
  BY AgreesInState
<1> QED
  BY <1>1, ValuesTypeCorrect, PTL

-----------------------------------------------------------------------------
(* The calendar, and the dates the ledger settles on.                      *)

\* Month i of a year and the day after its last, of the days 0 to 364.
YearEnd(i) == IF i = 12 THEN 365 ELSE DaysBefore[i + 1]

LEMMA YearTable ==
  /\ DaysBefore[1] = 0 /\ DaysBefore[2] = 31 /\ DaysBefore[3] = 59 /\ DaysBefore[4] = 90
  /\ DaysBefore[5] = 120 /\ DaysBefore[6] = 151 /\ DaysBefore[7] = 181 /\ DaysBefore[8] = 212
  /\ DaysBefore[9] = 243 /\ DaysBefore[10] = 273 /\ DaysBefore[11] = 304 /\ DaysBefore[12] = 334
  BY DEF DaysBefore

LEMMA MonthInYear ==
  ASSUME NEW i \in 1..12, NEW day \in Int, DaysBefore[i] <= day, day < YearEnd(i)
  PROVE  LET guess == day \div 32 + 1 IN
         (IF guess < 12 /\ DaysBefore[guess + 1] <= day THEN guess + 1 ELSE guess) = i
<1> DEFINE q == day \div 32
<1>1. q \in Int /\ 32 * q <= day /\ day < 32 * q + 32
  BY Z3
<1> HIDE DEF q
<1>2. i \in {1, 2, 3, 4, 5, 6, 7, 8, 9, 10, 11, 12}
  OBVIOUS
<1>3. \/ q = i - 1 /\ i = 12
      \/ q = i - 1 /\ i < 12 /\ day < DaysBefore[i + 1]
      \/ q = i - 2 /\ i > 1 /\ DaysBefore[i] <= day
  BY <1>1, <1>2, YearTable DEF YearEnd
<1>4. CASE q = i - 1 /\ i = 12
  BY <1>4 DEF q
<1>5. CASE q = i - 1 /\ i < 12 /\ day < DaysBefore[i + 1]
  <2>1. DaysBefore[i + 1] \in Int
    BY <1>2, <1>5, YearTable
  <2>2. q + 1 = i
    BY <1>5
  <2>3. ~(DaysBefore[i + 1] <= day)
    BY <1>5, <2>1
  <2> QED
    BY <2>2, <2>3 DEF q
<1>6. CASE q = i - 2 /\ i > 1 /\ DaysBefore[i] <= day
  <2>1. q + 1 = i - 1 /\ q + 1 < 12 /\ (i - 1) + 1 = i
    BY <1>6
  <2> QED
    BY <1>6, <2>1 DEF q
<1> QED
  BY <1>3, <1>4, <1>5, <1>6

LEMMA MonthSplit ==
  ASSUME NEW y \in Int, NEW i \in 1..12
  PROVE  /\ FirstOf(12 * y + i) = 365 * y + DaysBefore[i] + 1
         /\ MonthLength(12 * y + i) = YearEnd(i) - DaysBefore[i]
         /\ DaysBefore[i] \in 0..334 /\ YearEnd(i) - DaysBefore[i] \in 28..31
         /\ YearEnd(i) <= 365
<1>1. i \in {1, 2, 3, 4, 5, 6, 7, 8, 9, 10, 11, 12}
  OBVIOUS
<1>2. DaysBefore[i] \in 0..334 /\ YearEnd(i) - DaysBefore[i] \in 28..31 /\ YearEnd(i) <= 365
  BY <1>1, YearTable DEF YearEnd
<1>3. \A z \in Int, j \in 1..12 : FirstOf(12 * z + j) = 365 * z + DaysBefore[j] + 1
  <2> TAKE z \in Int, j \in 1..12
  <2>1. (12 * z + j - 1) \div 12 = z /\ (12 * z + j - 1) % 12 = j - 1
    BY Z3
  <2>2. (j - 1) + 1 = j
    OBVIOUS
  <2> QED
    BY <2>1, <2>2 DEF FirstOf
<1>4. CASE i < 12
  <2>1. i + 1 \in 1..12 /\ 12 * y + i + 1 = 12 * y + (i + 1)
    BY <1>4
  <2>2. FirstOf(12 * y + (i + 1)) = 365 * y + DaysBefore[i + 1] + 1
    BY <1>3, <2>1
  <2>3. FirstOf(12 * y + i) = 365 * y + DaysBefore[i] + 1
    BY <1>3
  <2>4. DaysBefore[i + 1] \in Int /\ DaysBefore[i] \in Int
    BY <1>1, <1>4, YearTable
  <2>5. MonthLength(12 * y + i) = FirstOf(12 * y + (i + 1)) - FirstOf(12 * y + i)
    BY <2>1 DEF MonthLength
  <2>6. MonthLength(12 * y + i) = DaysBefore[i + 1] - DaysBefore[i]
    BY <2>2, <2>3, <2>4, <2>5
  <2> QED
    BY <1>2, <1>4, <2>3, <2>6 DEF YearEnd
<1>5. CASE i = 12
  <2>1. y + 1 \in Int /\ 1 \in 1..12 /\ 12 * y + i + 1 = 12 * (y + 1) + 1
    BY <1>5
  <2>2. FirstOf(12 * (y + 1) + 1) = 365 * (y + 1) + DaysBefore[1] + 1
    <3> DEFINE z == y + 1
    <3>1. z \in Int /\ 1 \in 1..12
      BY <2>1
    <3> HIDE DEF z
    <3>2. FirstOf(12 * z + 1) = 365 * z + DaysBefore[1] + 1
      BY <1>3, <3>1
    <3> QED
      BY <3>2 DEF z
  <2>3. FirstOf(12 * y + i) = 365 * y + DaysBefore[i] + 1
    BY <1>3
  <2>4. MonthLength(12 * y + i) = FirstOf(12 * (y + 1) + 1) - FirstOf(12 * y + i)
    BY <2>1 DEF MonthLength
  <2>5. MonthLength(12 * y + i) = 365 - DaysBefore[i]
    BY <1>2, <2>2, <2>3, <2>4, YearTable
  <2> QED
    BY <1>2, <1>5, <2>3, <2>5 DEF YearEnd
<1> QED
  BY <1>4, <1>5

LEMMA MonthForm ==
  ASSUME NEW m \in Int
  PROVE  \E y \in Int, i \in 1..12 : m = 12 * y + i
<1>1. (m - 1) \div 12 \in Int /\ ((m - 1) % 12) + 1 \in 1..12
      /\ m = 12 * ((m - 1) \div 12) + (((m - 1) % 12) + 1)
  BY Z3
<1> QED
  BY <1>1

LEMMA MonthLengths ==
  ASSUME NEW m \in Int
  PROVE  MonthLength(m) \in 28..31 /\ FirstOf(m) \in Int
<1>1. PICK y \in Int, i \in 1..12 : m = 12 * y + i
  BY MonthForm
<1>2. /\ FirstOf(12 * y + i) = 365 * y + DaysBefore[i] + 1
      /\ MonthLength(12 * y + i) = YearEnd(i) - DaysBefore[i]
      /\ DaysBefore[i] \in 0..334 /\ YearEnd(i) - DaysBefore[i] \in 28..31
  <2>1. FirstOf(12 * y + i) = 365 * y + DaysBefore[i] + 1
    BY MonthSplit
  <2>2. MonthLength(12 * y + i) = YearEnd(i) - DaysBefore[i]
    BY MonthSplit
  <2>3. DaysBefore[i] \in 0..334 /\ YearEnd(i) - DaysBefore[i] \in 28..31
    BY MonthSplit
  <2> QED
    BY <2>1, <2>2, <2>3
<1>3. 365 * y + DaysBefore[i] + 1 \in Int
  BY <1>2
<1> QED
  BY <1>1, <1>2, <1>3

\* The days of a month are of it, numbered from one.
LEMMA DaysOfMonth ==
  ASSUME NEW m \in Int, NEW j \in 1..MonthLength(m)
  PROVE  MonthOf(FirstOf(m) + j - 1) = m /\ DayIn(FirstOf(m) + j - 1) = j
<1>1. PICK y \in Int, i \in 1..12 : m = 12 * y + i
  BY MonthForm
<1>2. /\ FirstOf(m) = 365 * y + DaysBefore[i] + 1 /\ MonthLength(m) = YearEnd(i) - DaysBefore[i]
      /\ DaysBefore[i] \in 0..334 /\ YearEnd(i) - DaysBefore[i] \in 28..31 /\ YearEnd(i) <= 365
  BY <1>1, MonthSplit
<1> DEFINE d == FirstOf(m) + j - 1
           day == DaysBefore[i] + j - 1
           guess == day \div 32 + 1
<1> HIDE DEF guess
<1>3. day \in 0..364 /\ d = 365 * y + day + 1 /\ DaysBefore[i] <= day /\ day < YearEnd(i)
  <2>1. YearEnd(i) \in Int
    <3>1. i \in {1, 2, 3, 4, 5, 6, 7, 8, 9, 10, 11, 12}
      OBVIOUS
    <3> QED
      BY <3>1, YearTable DEF YearEnd
  <2>2. j \in Int /\ 1 <= j /\ j <= YearEnd(i) - DaysBefore[i]
    BY <1>2
  <2> DEFINE b == DaysBefore[i]
             e == YearEnd(i)
             f == FirstOf(m)
  <2>3. b \in Int /\ e \in Int /\ 0 <= b /\ e <= 365 /\ j <= e - b /\ f = 365 * y + b + 1
    BY <1>2, <2>1, <2>2
  <2> HIDE DEF b, e, f
  <2>4. b + j - 1 \in 0..364 /\ f + j - 1 = 365 * y + (b + j - 1) + 1 /\ b <= b + j - 1 /\ b + j - 1 < e
    BY <2>2, <2>3
  <2> QED
    BY <2>4 DEF b, e, f
<1>4. (IF guess < 12 /\ DaysBefore[guess + 1] <= day THEN guess + 1 ELSE guess) = i
  <2>1. day \in Int
    BY <1>3
  <2> QED
    BY <1>3, <2>1, MonthInYear DEF guess
<1> HIDE DEF d, day
<1>5. (d - 1) \div 365 = y /\ (d - 1) % 365 = day
  BY <1>3, Z3
<1>6. MonthOf(d) = 12 * y + i
  BY <1>4, <1>5 DEF MonthOf, guess
<1>7. DayIn(d) = j
  <2>1. DayIn(d) = d - FirstOf(m) + 1
    BY <1>1, <1>6 DEF DayIn
  <2>2. FirstOf(m) \in Int
    BY MonthLengths
  <2> QED
    BY <2>1, <2>2 DEF d
<1> QED
  BY <1>1, <1>6, <1>7 DEF d

LEMMA DayHasMonth ==
  ASSUME NEW d \in Int
  PROVE  /\ MonthOf(d) \in Int /\ DayIn(d) \in 1..MonthLength(MonthOf(d))
         /\ d = FirstOf(MonthOf(d)) + DayIn(d) - 1
<1> DEFINE y == (d - 1) \div 365
           day == (d - 1) % 365
<1>1. y \in Int /\ day \in 0..364 /\ d = 365 * y + day + 1
  BY Z3
<1> HIDE DEF y, day
<1>2. \E i \in 1..12 : DaysBefore[i] <= day /\ day < YearEnd(i)
  <2>1. YearEnd(1) = 31 /\ YearEnd(2) = 59 /\ YearEnd(3) = 90 /\ YearEnd(4) = 120 /\ YearEnd(5) = 151
        /\ YearEnd(6) = 181 /\ YearEnd(7) = 212 /\ YearEnd(8) = 243 /\ YearEnd(9) = 273
        /\ YearEnd(10) = 304 /\ YearEnd(11) = 334 /\ YearEnd(12) = 365
    BY YearTable DEF YearEnd
  <2>2. \E i \in {1, 2, 3, 4, 5, 6, 7, 8, 9, 10, 11, 12} : DaysBefore[i] <= day /\ day < YearEnd(i)
    BY <1>1, <2>1, YearTable
  <2> QED
    BY <2>2
<1>3. PICK i \in 1..12 : DaysBefore[i] <= day /\ day < YearEnd(i)
  BY <1>2
<1>10. y \in Int
  BY <1>1
<1>11. PICK z \in Int : z = y
  BY <1>10
<1>4. /\ FirstOf(12 * z + i) = 365 * z + DaysBefore[i] + 1
      /\ MonthLength(12 * z + i) = YearEnd(i) - DaysBefore[i]
      /\ DaysBefore[i] \in 0..334
  <2>1. FirstOf(12 * z + i) = 365 * z + DaysBefore[i] + 1
    BY MonthSplit
  <2>2. MonthLength(12 * z + i) = YearEnd(i) - DaysBefore[i]
    BY MonthSplit
  <2>3. DaysBefore[i] \in 0..334
    BY MonthSplit
  <2> QED
    BY <2>1, <2>2, <2>3
<1> DEFINE m == 12 * z + i
           j == day - DaysBefore[i] + 1
<1>5. YearEnd(i) \in Int
  <2>1. i \in {1, 2, 3, 4, 5, 6, 7, 8, 9, 10, 11, 12}
    OBVIOUS
  <2> QED
    BY <2>1, YearTable DEF YearEnd
<1>6. m \in Int /\ j \in 1..MonthLength(m) /\ d = FirstOf(m) + j - 1
  <2> DEFINE b == DaysBefore[i]
             e == YearEnd(i)
             f == FirstOf(m)
  <2>1. /\ day \in Int /\ b \in Int /\ e \in Int /\ b <= day /\ day < e
        /\ d = 365 * z + day + 1 /\ f = 365 * z + b + 1 /\ MonthLength(m) = e - b
    <3>1. b \in Int /\ f = 365 * z + b + 1 /\ MonthLength(m) = e - b
      BY <1>4
    <3> QED
      BY <1>1, <1>3, <1>5, <1>11, <3>1
  <2> HIDE DEF b, e, f
  <2>2. m \in Int /\ j \in 1..MonthLength(m) /\ d = f + j - 1
    <3>1. day - b + 1 \in 1..(e - b) /\ d = f + (day - b + 1) - 1
      BY <2>1
    <3>2. j = day - b + 1
      BY DEF b
    <3> QED
      BY <2>1, <3>1, <3>2
  <2> QED
    BY <2>2 DEF f
<1> HIDE DEF m, j
<1>7. MonthOf(d) = m /\ DayIn(d) = j
  BY <1>6, DaysOfMonth
<1> QED
  BY <1>6, <1>7

\* Min of a pair.
LEMMA MinOfTwo ==
  ASSUME NEW a \in Int, NEW b \in Int
  PROVE  Min({a, b}) = IF a <= b THEN a ELSE b
<1>1. \E x \in {a, b} : \A y \in {a, b} : x <= y
  OBVIOUS
<1> QED
  BY <1>1 DEF Min

\* A day some months on that its month has is in that month.
LEMMA DayMoved ==
  ASSUME NEW m \in Int, NEW d \in 1..MonthLength(m), NEW n \in Int
  PROVE  AddMonths(FirstOf(m) + d - 1, n) = FirstOf(m + n) + d - 1
<1>1. MonthOf(FirstOf(m) + d - 1) = m /\ DayIn(FirstOf(m) + d - 1) = d
  BY DaysOfMonth
<1> QED
  BY <1>1 DEF AddMonths

\* addPeriod keeps a date in the month it leads to, on the same day if there is one.
LEMMA PeriodAdded ==
  ASSUME NEW s \in Int, NEW n \in Int
  PROVE  LET m == MonthOf(s) + n
             d == DayIn(s)
             p == AddPeriod(s, n)
         IN /\ m \in Int /\ d \in Nat \ {0} /\ p \in Int
            /\ FirstOf(m) \in Int /\ FirstOf(m) <= p /\ p < FirstOf(m + 1) /\ FirstOf(m + 1) \in Int
            /\ d <= MonthLength(m) => p = FirstOf(m) + d - 1 /\ DayIn(p) = d
            /\ ~(d <= MonthLength(m)) => p < FirstOf(m) + d - 1 /\ DayIn(p) < d
<1> DEFINE m == MonthOf(s) + n
           d == DayIn(s)
           p == AddPeriod(s, n)
           len == MonthLength(m)
           f == FirstOf(m)
<1>1. MonthOf(s) \in Int /\ d \in 1..MonthLength(MonthOf(s)) /\ m \in Int
  BY DayHasMonth
<1>2. d \in Nat \ {0}
  <2>1. MonthLength(MonthOf(s)) \in Int
    BY <1>1, MonthLengths
  <2> HIDE DEF d
  <2> QED
    BY <1>1, <2>1
<1> HIDE DEF m
<1>3. len \in 28..31 /\ f \in Int
  BY <1>1, MonthLengths
<1>4. FirstOf(m + 1) = f + len
  <2>1. FirstOf(m + 1) \in Int
    <3>1. m + 1 \in Int
      BY <1>1
    <3> QED
      BY <3>1, MonthLengths
  <2> QED
    BY <1>3, <2>1 DEF MonthLength
<1>5. p = f + Min({d, len}) - 1
  BY DEF AddPeriod, m
<1>6. Min({d, len}) = IF d <= len THEN d ELSE len
  BY <1>2, <1>3, MinOfTwo
<1>7. DayIn(f + Min({d, len}) - 1) = Min({d, len})
  <2> DEFINE j == Min({d, len})
  <2>1. j \in 1..MonthLength(m)
    BY <1>2, <1>3, <1>6
  <2> HIDE DEF j
  <2>2. DayIn(FirstOf(m) + j - 1) = j
    BY <1>1, <2>1, DaysOfMonth
  <2> QED
    BY <2>2 DEF j
<1> HIDE DEF f, len, d, p
<1>8. /\ p \in Int /\ f <= p /\ p < FirstOf(m + 1) /\ FirstOf(m + 1) \in Int
      /\ d <= len => p = f + d - 1 /\ DayIn(p) = d
      /\ ~(d <= len) => p < f + d - 1 /\ DayIn(p) < d
  BY <1>2, <1>3, <1>4, <1>5, <1>6, <1>7
<1> QED
  BY <1>1, <1>2, <1>3, <1>8 DEF f, len, d, p, m

\* A schedule a page has: in the calendar, of periods of three months or more.
OnPage(schedule) ==
  /\ schedule.start \in Calendar /\ schedule.end \in Calendar /\ schedule.start < schedule.end
  /\ schedule.frequency \in {"Quarterly", "SemiAnnual", "Annual"}

\* The k-th date the ledger walks, the engine's while no month is too short, and
\* whether the k-th month has the day.
Walked(schedule, k) ==
  AddPeriod(schedule.start, k * FrequencyMonths[schedule.frequency])

Straight(schedule, k) ==
  FirstOf(MonthOf(schedule.start) + k * FrequencyMonths[schedule.frequency]) + DayIn(schedule.start) - 1

HasDay(schedule, k) ==
  DayIn(schedule.start)
    <= MonthLength(MonthOf(schedule.start) + k * FrequencyMonths[schedule.frequency])

\* The calendar's first month and the one after its last.
LEMMA CalendarEnds == FirstOf(1) = 1 /\ FirstOf(37) = 1096
<1>1. (1 - 1) \div 12 = 0 /\ (1 - 1) % 12 = 0 /\ (37 - 1) \div 12 = 3 /\ (37 - 1) % 12 = 0
  OBVIOUS
<1> QED
  BY <1>1, YearTable DEF FirstOf

LEMMA CalendarDays == \A d \in Calendar : d \in 1..1095 /\ d \in Int /\ 1 <= d /\ d <= 1095
  BY DEF Calendar

LEMMA Steps ==
  ASSUME NEW schedule, OnPage(schedule)
  PROVE  /\ IsSchedule(schedule) /\ schedule.start \in 1..1095 /\ schedule.end \in 1..1095
         /\ FrequencyMonths[schedule.frequency] \in {3, 6, 12}
         /\ MonthOf(schedule.start) \in Nat \ {0} /\ MonthOf(schedule.start) <= 36
<1> DEFINE s == schedule.start
           m == MonthOf(s)
<1>11. s \in Calendar /\ schedule.end \in Calendar
  BY Zenon DEF OnPage
<1>2. s \in Int /\ 1 <= s /\ s <= 1095
  BY <1>11, CalendarDays
<1>1. s \in 1..1095 /\ schedule.end \in 1..1095 /\ schedule.end \in Int
  <2> DEFINE e == schedule.end
  <2>1. s \in Calendar /\ e \in Calendar
    BY <1>11
  <2> HIDE DEF e, s
  <2>2. s \in 1..1095 /\ e \in 1..1095 /\ e \in Int
    BY <2>1, CalendarDays
  <2> QED
    BY <2>2 DEF e
<1>9. FrequencyMonths[schedule.frequency] \in {3, 6, 12}
  BY DEF OnPage, FrequencyMonths
<1>10. IsSchedule(schedule)
  BY <1>1, <1>2 DEF OnPage, IsSchedule
<1>3. m \in Int /\ DayIn(s) \in 1..MonthLength(m) /\ s = FirstOf(m) + DayIn(s) - 1
  BY <1>2, DayHasMonth
<1> HIDE DEF s, m
<1>4. MonthLength(m) \in Int /\ FirstOf(m) \in Int /\ FirstOf(m + 1) \in Int
      /\ FirstOf(m + 1) = FirstOf(m) + MonthLength(m)
  <2>1. MonthLength(m) \in 28..31 /\ FirstOf(m) \in Int
    BY <1>3, MonthLengths
  <2>2. m + 1 \in Int
    BY <1>3
  <2>3. FirstOf(m + 1) \in Int
    BY <2>2, MonthLengths
  <2> QED
    BY <2>1, <2>3 DEF MonthLength
<1>5. FirstOf(m) <= s /\ s < FirstOf(m + 1)
  <2> DEFINE f == FirstOf(m)
             l == MonthLength(m)
             d == DayIn(s)
             g == FirstOf(m + 1)
  <2>1. f \in Int /\ l \in Int /\ d \in 1..l /\ s = f + d - 1 /\ g = f + l
    BY <1>3, <1>4
  <2> HIDE DEF f, l, d, g
  <2>2. f <= s /\ s < g
    BY <2>1
  <2> QED
    BY <2>2 DEF f, g
<1>6. FirstOf(1) = 1 /\ FirstOf(37) = 1096
  BY CalendarEnds
<1>7. m >= 1
  <2> SUFFICES ASSUME ~(m >= 1) PROVE FALSE
    OBVIOUS
  <2>1. m + 1 \in Int /\ 1 \in Int /\ (m + 1 = 1 \/ m + 1 < 1)
    BY <1>3
  <2>2. FirstOf(m + 1) <= FirstOf(1)
    <3>1. m + 1 < 1 => FirstOf(m + 1) < FirstOf(1)
      BY <2>1, LaterMonths
    <3> QED
      BY <1>4, <1>6, <2>1, <3>1
  <2> QED
    BY <1>2, <1>4, <1>5, <1>6, <2>2
<1>8. m <= 36
  <2> SUFFICES ASSUME ~(m <= 36) PROVE FALSE
    OBVIOUS
  <2>1. 37 \in Int /\ (m = 37 \/ 37 < m)
    BY <1>3
  <2>2. FirstOf(37) <= FirstOf(m)
    <3>1. 37 < m => FirstOf(37) < FirstOf(m)
      BY <1>3, <2>1, LaterMonths
    <3> QED
      BY <1>4, <1>6, <2>1, <3>1
  <2> QED
    BY <1>2, <1>4, <1>5, <1>6, <2>2
<1> QED
  BY <1>1, <1>3, <1>7, <1>8, <1>9, <1>10 DEF s, m

\* The dates the ledger walks: in order, where the engine's are or before them, and
\* none in the calendar after the 36th month.
LEMMA LedgerWalk ==
  ASSUME NEW schedule, OnPage(schedule)
  PROVE  /\ \A k \in 0..12 : Walked(schedule, k) \in Int /\ Straight(schedule, k) \in Int
         /\ Walked(schedule, 0) = schedule.start /\ HasDay(schedule, 0)
         /\ \A k \in 0..12 : HasDay(schedule, k) => Walked(schedule, k) = Straight(schedule, k)
         /\ \A k \in 0..12 : ~HasDay(schedule, k) => Walked(schedule, k) < Straight(schedule, k)
         /\ \A k \in 0..12 :
              DayIn(Walked(schedule, k)) < DayIn(schedule.start) <=> ~HasDay(schedule, k)
         /\ \A k \in 0..12 : \A j \in 0..12 : j < k => Walked(schedule, j) < Walked(schedule, k)
         /\ \A k \in 0..12 :
              Walked(schedule, k) <= schedule.end =>
                MonthOf(schedule.start) + k * FrequencyMonths[schedule.frequency] <= 36
<1> DEFINE s == schedule.start
           m == MonthOf(s)
           step == FrequencyMonths[schedule.frequency]
           d == DayIn(s)
           month(k) == m + k * step
           p(k) == AddPeriod(s, k * step)
           q(k) == FirstOf(month(k)) + d - 1
<1>1. /\ s \in 1..1095 /\ schedule.end \in 1..1095 /\ step \in {3, 6, 12} /\ m \in Nat \ {0}
  BY Steps
<1>16. s \in Calendar /\ schedule.end \in Calendar
  BY Zenon DEF OnPage
<1>2. s \in Int /\ schedule.end \in Int /\ schedule.end <= 1095
  BY <1>16, CalendarDays
<1>3. d \in 1..MonthLength(m) /\ s = FirstOf(m) + d - 1 /\ MonthLength(m) \in 28..31 /\ d \in Int
  <2>1. d \in 1..MonthLength(m) /\ s = FirstOf(m) + d - 1 /\ m \in Int
    BY <1>2, DayHasMonth
  <2>2. MonthLength(m) \in 28..31
    BY <2>1, MonthLengths
  <2> HIDE DEF d, m, s
  <2> QED
    BY <2>1, <2>2
<1>4. ASSUME NEW k \in Int
      PROVE  /\ k * step \in Int /\ month(k) \in Int /\ p(k) \in Int /\ FirstOf(month(k)) \in Int
             /\ FirstOf(month(k)) <= p(k) /\ p(k) < FirstOf(month(k) + 1)
             /\ d <= MonthLength(month(k)) => p(k) = q(k) /\ DayIn(p(k)) = d
             /\ ~(d <= MonthLength(month(k))) => p(k) < q(k) /\ DayIn(p(k)) < d
  <2>1. k * step \in Int
    BY <1>1
  <2> DEFINE n == k * step
  <2> HIDE DEF n
  <2>2. /\ m + n \in Int /\ AddPeriod(s, n) \in Int /\ FirstOf(m + n) \in Int
        /\ FirstOf(m + n) <= AddPeriod(s, n) /\ AddPeriod(s, n) < FirstOf(m + n + 1)
        /\ d <= MonthLength(m + n) =>
             AddPeriod(s, n) = FirstOf(m + n) + d - 1 /\ DayIn(AddPeriod(s, n)) = d
        /\ ~(d <= MonthLength(m + n)) =>
             AddPeriod(s, n) < FirstOf(m + n) + d - 1 /\ DayIn(AddPeriod(s, n)) < d
    <3>1. n \in Int
      BY <2>1 DEF n
    <3> HIDE DEF s
    <3> QED
      BY <1>2, <3>1, PeriodAdded
  <2> QED
    BY <2>1, <2>2 DEF n
<1>5. month(0) = m
  BY <1>1
<1>6. p(0) = s /\ d <= MonthLength(month(0))
  <2>1. d <= MonthLength(month(0))
    <3> HIDE DEF d, m
    <3>1. d <= MonthLength(m)
      BY <1>3
    <3> QED
      BY <1>5, <3>1 DEF m
  <2>2. p(0) = q(0) /\ 0 \in Int
    BY <1>4, <2>1
  <2>3. q(0) = s
    BY <1>3, <1>5
  <2> QED
    BY <2>1, <2>2, <2>3
<1>7. ASSUME NEW j \in 0..12, NEW k \in 0..12, j < k PROVE p(j) < p(k)
  <2>1. j \in Int /\ k \in Int /\ month(j) + 1 <= month(k)
    BY <1>1, <1>7
  <2>2. /\ p(j) \in Int /\ p(k) \in Int /\ p(j) < FirstOf(month(j) + 1) /\ FirstOf(month(k)) <= p(k)
        /\ month(j) \in Int /\ month(k) \in Int
    BY <1>4, <2>1
  <2> HIDE DEF month, p
  <2>3. FirstOf(month(j) + 1) \in Int /\ FirstOf(month(k)) \in Int
        /\ FirstOf(month(j) + 1) <= FirstOf(month(k))
    <3> DEFINE a == month(j) + 1
               b == month(k)
    <3>1. a \in Int /\ b \in Int /\ (a = b \/ a < b)
      BY <2>1, <2>2
    <3> HIDE DEF a, b
    <3>2. FirstOf(a) \in Int /\ FirstOf(b) \in Int
      BY <3>1, MonthLengths
    <3>3. a < b => FirstOf(a) < FirstOf(b)
      BY <3>1, LaterMonths
    <3>4. FirstOf(a) <= FirstOf(b)
      BY <3>1, <3>2, <3>3
    <3> QED
      BY <3>2, <3>4 DEF a, b
  <2> QED
    BY <2>2, <2>3
<1>8. ASSUME NEW k \in 0..12, p(k) <= schedule.end PROVE month(k) <= 36
  <2> SUFFICES ASSUME ~(month(k) <= 36) PROVE FALSE
    OBVIOUS
  <2>1. k \in Int
    OBVIOUS
  <2>2. month(k) \in Int /\ FirstOf(month(k)) \in Int /\ FirstOf(month(k)) <= p(k) /\ p(k) \in Int
    BY <1>4, <2>1
  <2> HIDE DEF month, p
  <2>3. FirstOf(37) = 1096
    BY CalendarEnds
  <2>4. 37 = month(k) \/ 37 < month(k)
    BY <2>2
  <2>5. 37 < month(k) => FirstOf(37) < FirstOf(month(k))
    <3>1. 37 \in Int
      OBVIOUS
    <3> QED
      BY <2>2, <3>1, LaterMonths
  <2>6. 1096 <= FirstOf(month(k))
    BY <2>2, <2>3, <2>4, <2>5
  <2> QED
    BY <1>2, <1>8, <2>2, <2>6
<1>9. \A k \in 0..12 : k \in Int
  OBVIOUS
<1>10. \A k \in 0..12 : q(k) \in Int
  BY <1>3, <1>4, <1>9
<1>11. \A k \in 0..12 : DayIn(p(k)) < d <=> ~(d <= MonthLength(month(k)))
  <2> HIDE DEF d, p, month
  <2> QED
    BY <1>3, <1>4, <1>9
<1>12. \A k \in 0..12 : /\ Walked(schedule, k) = p(k) /\ Straight(schedule, k) = q(k)
                        /\ HasDay(schedule, k) <=> d <= MonthLength(month(k))
  BY DEF Walked, Straight, HasDay
<1>13. /\ \A k \in 0..12 : p(k) \in Int
       /\ \A k \in 0..12 : d <= MonthLength(month(k)) => p(k) = q(k)
       /\ \A k \in 0..12 : ~(d <= MonthLength(month(k))) => p(k) < q(k)
  BY <1>4, <1>9
<1>14. 0 \in 0..12
  OBVIOUS
<1>15. \A k \in 0..12 : p(k) <= schedule.end => m + k * step <= 36
  BY <1>8
<1> HIDE DEF p, q, d, month
<1> QED
  BY <1>6, <1>7, <1>10, <1>11, <1>12, <1>13, <1>14, <1>15 DEF d

\* The engine's dates keep to the day as long as no month is too short for it.
LEMMA DatesStraight ==
  ASSUME NEW schedule, OnPage(schedule), NEW k \in 0..12,
         \A i \in 0..12 :
           i < k => HasDay(schedule, i) /\ Straight(schedule, i) <= schedule.end
  PROVE  ScheduleDates(schedule)[k] = Straight(schedule, k)
<1> DEFINE dates == ScheduleDates(schedule)
           step == FrequencyMonths[schedule.frequency]
           s == schedule.start
           m == MonthOf(s)
           d == DayIn(s)
           Kept == {n \in 0..12 : n <= k => dates[n] = Straight(schedule, n)}
<1>1. /\ dates[0] = s
      /\ \A n \in 1..12 : dates[n] = IF dates[n - 1] > schedule.end THEN dates[n - 1]
                                    ELSE AddMonths(dates[n - 1], step)
  BY DatesDefined
<1>2. /\ step \in Nat /\ m \in Int /\ schedule.end \in Int
      /\ \A n \in 0..12 : Straight(schedule, n) \in Int
      /\ Straight(schedule, 0) = s
  <2>1. step \in {3, 6, 12} /\ m \in Nat \ {0} /\ schedule.end \in 1..1095
    BY Steps
  <2>2. Walked(schedule, 0) = s /\ HasDay(schedule, 0) /\ \A n \in 0..12 : Straight(schedule, n) \in Int
    BY LedgerWalk
  <2>a. \A n \in 0..12 : HasDay(schedule, n) => Walked(schedule, n) = Straight(schedule, n)
    BY LedgerWalk
  <2>3. Straight(schedule, 0) = s
    <3>1. 0 \in 0..12
      OBVIOUS
    <3> HIDE DEF s
    <3> QED
      BY <2>2, <2>a, <3>1
  <2> HIDE DEF step, m, s, d, dates, Kept
  <2>4. schedule.end \in Int
    BY <2>1
  <2>5. step \in Nat /\ m \in Int
    BY <2>1
  <2> QED
    BY <2>2, <2>3, <2>4, <2>5
<1>3. d \in Nat \ {0}
  <2>1. s \in Int /\ 0 \in Int
    <3>1. s \in Calendar
      BY Zenon DEF OnPage
    <3> HIDE DEF s
    <3> QED
      BY <3>1, CalendarDays
  <2> HIDE DEF s
  <2>2. DayIn(s) \in Nat \ {0}
    BY <2>1, PeriodAdded
  <2> QED
    BY <2>2
<1>4. \A n \in 0..12 : /\ Straight(schedule, n) = FirstOf(m + n * step) + d - 1
                       /\ HasDay(schedule, n) => d <= MonthLength(m + n * step)
  BY DEF Straight, HasDay
<1> HIDE DEF dates, step, m, d, s
<1>5. ASSUME NEW n \in 1..12, n - 1 \in Kept, n <= k PROVE dates[n] = Straight(schedule, n)
  <2>1. n - 1 \in 0..12 /\ n - 1 < k /\ n \in 0..12 /\ n - 1 <= k
    BY <1>5
  <2>2. dates[n - 1] = Straight(schedule, n - 1)
    BY <1>5, <2>1
  <2>3. HasDay(schedule, n - 1) /\ Straight(schedule, n - 1) <= schedule.end
    BY <2>1
  <2>4. dates[n] = AddMonths(Straight(schedule, n - 1), step)
    <3>1. ~(dates[n - 1] > schedule.end)
      BY <1>2, <2>1, <2>2, <2>3
    <3> QED
      BY <1>1, <2>2, <3>1
  <2> DEFINE month == m + (n - 1) * step
  <2>5. month \in Int /\ month + step = m + n * step
    BY <1>2
  <2>6. d \in 1..MonthLength(month)
    <3>1. MonthLength(month) \in 28..31
      BY <2>5, MonthLengths
    <3>2. d <= MonthLength(month)
      BY <1>4, <2>1, <2>3
    <3> HIDE DEF month
    <3> QED
      BY <1>3, <3>1, <3>2
  <2>7. AddMonths(FirstOf(month) + d - 1, step) = FirstOf(month + step) + d - 1
    <3>1. step \in Int
      BY <1>2
    <3> HIDE DEF month
    <3> QED
      BY <2>5, <2>6, <3>1, DayMoved
  <2>8. Straight(schedule, n - 1) = FirstOf(month) + d - 1
    BY <1>4, <2>1
  <2>9. Straight(schedule, n) = FirstOf(month + step) + d - 1
    BY <1>4, <2>1, <2>5
  <2> QED
    BY <2>4, <2>7, <2>8, <2>9
<1>6. 0..12 \subseteq Kept
  <2>1. 0 \in Kept
    BY <1>1, <1>2
  <2>2. \A n \in 1..12 : n - 1 \in Kept => n \in Kept
    BY <1>5
  <2> HIDE DEF Kept
  <2> QED
    BY <2>1, <2>2, AllReached
<1>7. k <= k
  OBVIOUS
<1> QED
  BY <1>6, <1>7 DEF dates

\* The ends the ledger walks, counted as the engine counts its dates.
LEMMA EndsWalked ==
  ASSUME NEW schedule, OnPage(schedule)
  PROVE  RegularEnds(schedule)
           = {Walked(schedule, k) : k \in {n \in 1..12 : Walked(schedule, n) <= schedule.end}}
<1> DEFINE step == FrequencyMonths[schedule.frequency]
           m == MonthOf(schedule.start)
           last == (36 - m) \div step
           Ends == {n \in 1..12 : Walked(schedule, n) <= schedule.end}
           Regular == {n \in 1..last : Walked(schedule, n) <= schedule.end}
<1>1. step \in {3, 6, 12} /\ m \in Nat \ {0} /\ m <= 36
  BY Steps
<1>2. \A n \in 1..12 : n \in Ends => m + n * step <= 36
  <2>1. \A n \in 1..12 : n \in 0..12
    OBVIOUS
  <2> QED
    BY <2>1, LedgerWalk
<1>3. RegularEnds(schedule) = {Walked(schedule, k) : k \in Regular}
  BY DEF RegularEnds, Walked
<1> HIDE DEF step, m
<1>4. last \in Int /\ last <= 12
  <2>1. CASE step = 3
    BY <1>1, <2>1, Z3
  <2>2. CASE step = 6
    BY <1>1, <2>2, Z3
  <2>3. CASE step = 12
    BY <1>1, <2>3, Z3
  <2> QED
    BY <1>1, <2>1, <2>2, <2>3
<1>5. \A n \in Nat : m + n * step <= 36 => n <= last
  <2> TAKE n \in Nat
  <2>1. CASE step = 3
    BY <1>1, <2>1, Z3
  <2>2. CASE step = 6
    BY <1>1, <2>2, Z3
  <2>3. CASE step = 12
    BY <1>1, <2>3, Z3
  <2> QED
    BY <1>1, <2>1, <2>2, <2>3
<1>6. Ends = Regular
  <2> HIDE DEF last
  <2>1. ASSUME NEW n \in Ends PROVE n \in Regular
    <3>1. n \in 1..12 /\ m + n * step <= 36 /\ n \in Nat
      BY <1>2
    <3>2. n <= last
      BY <1>5, <3>1
    <3>3. n \in 1..last
      BY <1>4, <3>1, <3>2
    <3> QED
      BY <3>3
  <2>2. ASSUME NEW n \in Regular PROVE n \in Ends
    <3>1. n \in 1..12
      BY <1>4
    <3> QED
      BY <3>1
  <2> QED
    BY <2>1, <2>2
<1> QED
  BY <1>3, <1>6

\* The engine's periods end where the ledger's do just when the last is no stub and
\* no month on the way is too short for the day.
LEMMA EndsAgree ==
  ASSUME NEW schedule, OnPage(schedule)
  PROVE  LET periods == CouponPeriods(schedule) IN
         {periods[k].to : k \in DOMAIN periods} = LedgerEnds(schedule)
           <=> schedule.end \in RegularEnds(schedule) /\ ~CutShort(schedule)
<1> DEFINE dates(k) == ScheduleDates(schedule)[k]
           p(k) == Walked(schedule, k)
           q(k) == Straight(schedule, k)
           fits(k) == HasDay(schedule, k)
           e == schedule.end
           Ends == {p(k) : k \in {n \in 1..12 : p(n) <= e}}
           Tos == {dates(k) : k \in {n \in 1..12 : dates(n) <= e}}
<1>1. /\ e \in Int /\ p(0) <= e
      /\ \A k \in 0..12 : p(k) \in Int /\ q(k) \in Int /\ dates(k) \in Int
      /\ \A k \in 0..12 : fits(k) => p(k) = q(k)
      /\ \A k \in 0..12 : ~fits(k) => p(k) < q(k)
      /\ fits(0)
  <2>1. IsSchedule(schedule) /\ e \in 1..1095 /\ schedule.start < e /\ schedule.start \in 1..1095
    BY Steps DEF OnPage
  <2>2. \A k \in 0..12 : dates(k) \in Int
    BY <2>1, DatesAscend
  <2>3. p(0) = schedule.start
    BY LedgerWalk
  <2>4. p(0) <= e /\ e \in Int
    <3>1. e \in Calendar /\ p(0) < e /\ p(0) \in Calendar
      BY <2>3 DEF OnPage
    <3> HIDE DEF p, e
    <3> QED
      BY <3>1, CalendarDays
  <2> QED
    BY <2>2, <2>4, LedgerWalk
<1>2. \A k \in 0..12 : \A j \in 0..12 : j < k => p(j) < p(k)
  BY LedgerWalk
<1>3. \A k \in 0..12 : \A j \in 0..k : dates(j) <= dates(k)
  <2>1. IsSchedule(schedule)
    BY Steps
  <2> QED
    BY <2>1, DatesAscend
<1>4. \A k \in 0..12 :
        (\A i \in 0..12 : i < k => fits(i) /\ q(i) <= e) => dates(k) = q(k)
  BY DatesStraight
<1>5. RegularEnds(schedule) = Ends
  BY EndsWalked
<1>6. CutShort(schedule) <=> \E k \in 1..12 : p(k) <= e /\ ~fits(k)
  <2>1. \A k \in 1..12 : DayIn(p(k)) < DayIn(schedule.start) <=> ~fits(k)
    <3>1. \A k \in 1..12 : k \in 0..12
      OBVIOUS
    <3> QED
      BY <3>1, LedgerWalk
  <2> HIDE DEF p, fits, e
  <2>2. CutShort(schedule) <=> \E x \in Ends : DayIn(x) < DayIn(schedule.start)
    BY <1>5 DEF CutShort
  <2> QED
    BY <2>1, <2>2
<1>7. {CouponPeriods(schedule)[k].to : k \in DOMAIN CouponPeriods(schedule)} = Tos
  <2>1. IsSchedule(schedule)
    BY Steps
  <2> QED
    BY <2>1, PeriodEnds
<1>8. LedgerEnds(schedule) = Ends \cup {e}
  BY <1>5 DEF LedgerEnds
<1> HIDE DEF dates, p, q, fits, e
<1>9. ASSUME NEW k \in 0..12, p(k) <= e, \A i \in 0..12 : i < k => fits(i)
      PROVE  dates(k) = q(k)
  <2>1. \A i \in 0..12 : i < k => p(i) < p(k) /\ p(i) = q(i) /\ p(i) \in Int /\ p(k) \in Int
    BY <1>1, <1>2, <1>9
  <2>2. \A i \in 0..12 : i < k => q(i) <= e
    BY <1>1, <1>9, <2>1
  <2> QED
    BY <1>4, <1>9, <2>2
<1>10. ASSUME \A k \in 1..12 : p(k) <= e => fits(k) PROVE Tos = Ends
  <2>1. \A k \in 0..12 : p(k) <= e => fits(k)
    <3>1. \A k \in 0..12 : k = 0 \/ k \in 1..12
      OBVIOUS
    <3> QED
      BY <1>1, <1>10, <3>1
  <2>2. ASSUME NEW k \in 0..12, p(k) <= e PROVE dates(k) = p(k)
    <3>1. \A i \in 0..12 : i < k => p(i) <= e
      BY <1>1, <1>2, <2>2
    <3>2. dates(k) = q(k)
      BY <1>9, <2>1, <2>2, <3>1
    <3> QED
      BY <1>1, <2>1, <2>2, <3>2
  <2>3. ASSUME NEW k \in 1..12, dates(k) <= e PROVE p(k) <= e
    <3> SUFFICES ASSUME ~(p(k) <= e) PROVE FALSE
      OBVIOUS
    <3> DEFINE Past == {n \in 0..12 : ~(p(n) <= e)}
    <3>1. Past \in SUBSET Nat /\ k \in Past
      OBVIOUS
    <3>2. PICK j \in Past : \A n \in Past : j <= n
      <4> HIDE DEF Past
      <4> QED
        BY <3>1, LeastNat
    <3>3. j \in 0..12 /\ ~(p(j) <= e) /\ j <= k /\ k \in 0..12 /\ j \in 0..k
      BY <3>1, <3>2
    <3>4. \A i \in 0..12 : i < j => p(i) <= e
      <4> TAKE i \in 0..12
      <4>1. i < j => ~(j <= i)
        BY <3>3
      <4> QED
        BY <3>2, <4>1
    <3>5. \A i \in 0..12 : i < j => fits(i) /\ q(i) <= e
      BY <1>1, <2>1, <3>4
    <3>6. dates(j) = q(j)
      BY <1>4, <3>3, <3>5
    <3>7. p(j) <= q(j)
      BY <1>1, <3>3
    <3>8. dates(j) <= dates(k)
      BY <1>3, <3>3
    <3> QED
      BY <1>1, <2>3, <3>3, <3>6, <3>7, <3>8
  <2>4. \A k \in 1..12 : k \in 0..12
    OBVIOUS
  <2>5. {n \in 1..12 : dates(n) <= e} = {n \in 1..12 : p(n) <= e}
    BY <2>2, <2>3, <2>4
  <2>6. \A k \in {n \in 1..12 : p(n) <= e} : dates(k) = p(k)
    BY <2>2, <2>4
  <2> QED
    BY <2>5, <2>6
<1>11. ASSUME NEW c \in 1..12, p(c) <= e, ~fits(c) PROVE ~(Ends \subseteq Tos)
  <2> DEFINE Cut == {n \in 1..12 : p(n) <= e /\ ~fits(n)}
  <2>1. Cut \in SUBSET Nat /\ c \in Cut
    BY <1>11
  <2>2. PICK j \in Cut : \A n \in Cut : j <= n
    <3> HIDE DEF Cut
    <3> QED
      BY <2>1, LeastNat
  <2>3. j \in 1..12 /\ j \in 0..12 /\ p(j) <= e /\ ~fits(j) /\ j - 1 \in 0..12 /\ j - 1 < j
    BY <2>2
  <2>4. \A i \in 0..12 : i < j => fits(i)
    <3> TAKE i \in 0..12
    <3> SUFFICES ASSUME i < j, ~fits(i) PROVE FALSE
      OBVIOUS
    <3>1. i # 0
      BY <1>1
    <3>2. i \in 1..12 /\ p(i) < p(j) /\ p(i) \in Int /\ p(j) \in Int
      BY <1>1, <1>2, <2>3, <3>1
    <3>3. p(i) <= e
      BY <1>1, <2>3, <3>2
    <3>4. j <= i
      BY <2>2, <3>2, <3>3
    <3> QED
      BY <2>3, <3>4
  <2>5. dates(j) = q(j) /\ p(j) < q(j)
    BY <1>1, <1>9, <2>3, <2>4
  <2>6. dates(j - 1) = p(j - 1) /\ p(j - 1) < p(j)
    <3>1. p(j - 1) < p(j) /\ p(j - 1) \in Int /\ p(j) \in Int
      BY <1>1, <1>2, <2>3
    <3>2. p(j - 1) <= e
      BY <1>1, <2>3, <3>1
    <3>3. \A i \in 0..12 : i < j - 1 => fits(i)
      BY <2>3, <2>4
    <3>4. dates(j - 1) = q(j - 1)
      BY <1>9, <2>3, <3>2, <3>3
    <3> QED
      BY <1>1, <2>3, <2>4, <3>1, <3>4
  <2>7. ASSUME NEW k \in 1..12 PROVE dates(k) # p(j)
    <3>1. k \in 0..12
      OBVIOUS
    <3>2. CASE k <= j - 1
      <4>1. k \in 0..(j - 1)
        BY <2>3, <3>2
      <4>2. dates(k) <= dates(j - 1)
        BY <1>3, <2>3, <4>1
      <4> QED
        BY <1>1, <2>3, <2>6, <3>1, <4>2
    <3>3. CASE j <= k
      <4>1. j \in 0..k
        BY <2>3, <3>3
      <4>2. dates(j) <= dates(k)
        BY <1>3, <3>1, <4>1
      <4> QED
        BY <1>1, <2>3, <2>5, <3>1, <4>2
    <3> QED
      BY <2>3, <3>2, <3>3
  <2>8. p(j) \in Ends /\ p(j) \notin Tos
    BY <2>3, <2>7
  <2> QED
    BY <2>8
<1>12. CutShort(schedule) => ~(Ends \subseteq Tos)
  BY <1>6, <1>11
<1>13. ~CutShort(schedule) => Tos = Ends
  BY <1>6, <1>10
<1>14. Tos = Ends \cup {e} <=> e \in Ends /\ ~CutShort(schedule)
  <2> HIDE DEF Tos, Ends
  <2> QED
    BY <1>12, <1>13
<1> QED
  BY <1>5, <1>7, <1>8, <1>14 DEF e

-----------------------------------------------------------------------------
\* What EachDayAccruesOnce says of a swap holds of any swap in any market.
LEMMA SwapAccrues ==
  ASSUME NEW swap, IsSwap(swap), NEW market, IsMarket(market)
  PROVE  LET page == PageConfig(swap)
             ctx == PageContext(page, market)
             schedule == page.legs[1].schedule
             periods == CouponPeriods(schedule)
             parts(i) == [k \in DOMAIN periods |->
                            Accruals(ProjectedRate(page.legs[i], ctx), LegIndex(ctx, i),
                                     ctx.observations, periods[k])]
         IN /\ {periods[k].to : k \in DOMAIN periods} = LedgerEnds(schedule)
                 <=> schedule.end \in RegularEnds(schedule) /\ ~CutShort(schedule)
            /\ InOrder(periods)
            /\ \A i \in DOMAIN page.legs :
                 page.legs[i].legType = "float" /\ LegIndex(ctx, i) # NoIndex =>
                   AccruedOnce(periods, parts(i), ctx.observations, LegIndex(ctx, i).lookback)
<1> DEFINE page == PageConfig(swap)
           ctx == PageContext(page, market)
           schedule == page.legs[1].schedule
           periods == CouponPeriods(schedule)
           parts(i) == [k \in DOMAIN periods |->
                          Accruals(ProjectedRate(page.legs[i], ctx), LegIndex(ctx, i),
                                   ctx.observations, periods[k])]
<1>1. IsContext(ctx)
  BY ContextsTyped
<1>2. schedule = ScheduleOf(swap, PageFrequency(swap))
  <2>1. swap.swapType \in SwapTypes /\ 1 \in DOMAIN swap.streams
    BY SwapStreams
  <2>2. page.legs[1] = Side(swap.streams[1], IF 1 = PagePaid(swap) THEN "pay" ELSE "receive",
                            PageDayCount[swap.streams[1].dayCount], ScheduleOf(swap, PageFrequency(swap)))
    BY <2>1, PageForm
  <2> HIDE DEF page
  <2> QED
    BY <2>2, SideOwn
<1>3. OnPage(schedule)
  <2>1. swap.start \in Calendar /\ swap.end \in Calendar /\ swap.start < swap.end
    BY DEF IsSwap
  <2>2. PageFrequency(swap) \in {"Annual", "Quarterly"}
    BY DEF PageFrequency
  <2> DEFINE frequency == PageFrequency(swap)
  <2> HIDE DEF schedule, frequency
  <2>3. /\ schedule.start = swap.start /\ schedule.end = swap.end /\ schedule.frequency = frequency
    BY <1>2 DEF ScheduleOf, frequency
  <2>4. schedule.frequency \in {"Quarterly", "SemiAnnual", "Annual"}
    BY <2>2, <2>3 DEF frequency
  <2> QED
    BY <2>1, <2>3, <2>4, Zenon DEF OnPage
<1>4. IsSchedule(schedule)
  BY <1>3, Steps
<1> HIDE DEF page, ctx, schedule
<1>5. {periods[k].to : k \in DOMAIN periods} = LedgerEnds(schedule)
        <=> schedule.end \in RegularEnds(schedule) /\ ~CutShort(schedule)
  BY <1>3, EndsAgree
<1>6. InOrder(periods)
  BY <1>4, PeriodsInOrder
<1>7. ASSUME NEW i \in DOMAIN page.legs, LegIndex(ctx, i) # NoIndex
      PROVE  AccruedOnce(periods, parts(i), ctx.observations, LegIndex(ctx, i).lookback)
  <2> DEFINE idx == LegIndex(ctx, i)
             fx == ctx.observations
             rate == ProjectedRate(page.legs[i], ctx)
  <2>1. IsIndex(idx)
    BY <1>1, LegIndexTyped
  <2>2. idx.lookback \in Nat
    BY <1>7, <2>1 DEF IsIndex
  <2>3. DOMAIN fx \in SUBSET Int /\ IsFiniteSet(DOMAIN fx)
    BY <1>1 DEF IsContext, AreFixings
  <2> HIDE DEF idx, fx, rate
  <2>4. AccruedOnce(periods, [k \in DOMAIN periods |-> Accruals(rate, idx, fx, periods[k])], fx, idx.lookback)
    BY <1>4, <2>2, <2>3, EveryDayAccrues
  <2> QED
    BY <2>4 DEF idx, fx, rate
<1> QED
  BY <1>5, <1>6, <1>7 DEF page, ctx, schedule

LEMMA AccruesInState ==
  ASSUME ValuesTypeOK PROVE EachDayAccruesOnce
<1> DEFINE swap == trade.swap
           market == Market
<1>1. CASE trade = NoTrade
  BY <1>1 DEF EachDayAccruesOnce
<1>2. CASE trade # NoTrade
  <2>1. IsSwap(swap) /\ IsMarket(market)
    BY <1>2, Seen
  <2> HIDE DEF swap, market
  <2>2. LET page == PageConfig(swap)
            ctx == PageContext(page, market)
            schedule == page.legs[1].schedule
            periods == CouponPeriods(schedule)
            parts(i) == [k \in DOMAIN periods |->
                           Accruals(ProjectedRate(page.legs[i], ctx), LegIndex(ctx, i),
                                    ctx.observations, periods[k])]
        IN /\ {periods[k].to : k \in DOMAIN periods} = LedgerEnds(schedule)
                <=> schedule.end \in RegularEnds(schedule) /\ ~CutShort(schedule)
           /\ InOrder(periods)
           /\ \A i \in DOMAIN page.legs :
                page.legs[i].legType = "float" /\ LegIndex(ctx, i) # NoIndex =>
                  AccruedOnce(periods, parts(i), ctx.observations, LegIndex(ctx, i).lookback)
    BY <2>1, SwapAccrues
  <2> QED
    BY <2>2 DEF EachDayAccruesOnce, swap, market
<1> QED
  BY <1>1, <1>2

\* A page's coupons accrue each day of their periods once, with the exceptions
\* EachDayAccruesOnce states, over periods that are the ledger's just when no month
\* is too short for the day and the last of them is no stub.
THEOREM AccruesOnce == ValuesSpec => []EachDayAccruesOnce
<1>1. ValuesTypeOK => EachDayAccruesOnce
  BY AccruesInState
<1> QED
  BY <1>1, ValuesTypeCorrect, PTL

-----------------------------------------------------------------------------
(* What a value moves by as days pass.                                     *)

\* The sum of the payments with some property, and of two parts of them.
LEMMA SumOverAsCounted ==
  ASSUME NEW flows \in Seq(Payments), NEW counted \in SUBSET DOMAIN flows
  PROVE  SumOver(flows, counted)
           = SumFunctionOnSet([k \in DOMAIN flows |-> IF k \in counted THEN flows[k].amount ELSE 0],
                              DOMAIN flows)
<1> DEFINE D == DOMAIN flows
           f == [k \in D |-> flows[k].amount]
           g == [k \in counted |-> flows[k].amount]
<1>1. IsFiniteSet(D)
  <2>1. DOMAIN flows = 1..Len(flows) /\ Len(flows) \in Nat
    OBVIOUS
  <2> QED
    BY <2>1, FS_Interval
<1>2. IsFiniteSet(counted)
  BY <1>1, FS_Subset
<1>3. \A k \in D : f[k] \in Int
  <2>1. \A k \in DOMAIN flows : flows[k] \in Payments
    OBVIOUS
  <2> QED
    BY <2>1 DEF Payments, Evens
<1>4. SumOver(flows, counted) = SumFunctionOnSet(g, counted)
  <2>1. DOMAIN g = counted
    OBVIOUS
  <2>2. SumOver(flows, counted) = SumFunction(g)
    BY DEF SumOver
  <2> HIDE DEF g
  <2> QED
    BY <2>1, <2>2, SumOfFunction
<1>5. \A k \in counted : g[k] = f[k] /\ f[k] \in Int
  BY <1>3
<1>6. [k \in D |-> IF k \in counted THEN flows[k].amount ELSE 0]
        = [k \in D |-> IF k \in counted THEN f[k] ELSE 0]
  OBVIOUS
<1> HIDE DEF f, g, D
<1>7. SumFunctionOnSet(g, counted) = SumFunctionOnSet(f, counted)
  BY <1>2, <1>5, SumSame
<1>8. counted \in SUBSET D
  BY DEF D
<1>9. SumFunctionOnSet([k \in D |-> IF k \in counted THEN f[k] ELSE 0], D) = SumFunctionOnSet(f, counted)
  BY <1>1, <1>5, <1>8, SumOfPart
<1> QED
  BY <1>4, <1>6, <1>7, <1>9 DEF D

LEMMA PaidOnCounted ==
  ASSUME NEW flows \in Seq(Payments), NEW days
  PROVE  PaidOn(flows, days) = SumOver(flows, {k \in DOMAIN flows : flows[k].date \in days})
<1> DEFINE counted == {k \in DOMAIN flows : flows[k].date \in days}
           f == [k \in DOMAIN flows |-> IF flows[k].date \in days THEN flows[k].amount ELSE 0]
           g == [k \in DOMAIN flows |-> IF k \in counted THEN flows[k].amount ELSE 0]
<1>1. f = g
  OBVIOUS
<1>2. SumOver(flows, counted) = SumFunctionOnSet(g, DOMAIN flows)
  <2>1. counted \in SUBSET DOMAIN flows
    OBVIOUS
  <2> HIDE DEF counted
  <2> QED
    BY <2>1, SumOverAsCounted
<1>3. PaidOn(flows, days) = SumFunction(f)
  BY DEF PaidOn
<1>4. DOMAIN f = DOMAIN flows
  OBVIOUS
<1> HIDE DEF f, g
<1>5. SumFunction(f) = SumFunctionOnSet(f, DOMAIN flows)
  BY <1>4, SumOfFunction
<1> QED
  BY <1>1, <1>2, <1>3, <1>5

LEMMA SumOverParts ==
  ASSUME NEW flows \in Seq(Payments), NEW A \in SUBSET DOMAIN flows, NEW B \in SUBSET DOMAIN flows,
         A \cap B = {}
  PROVE  SumOver(flows, A \cup B) = SumOver(flows, A) + SumOver(flows, B)
<1> DEFINE D == DOMAIN flows
           in(S) == [k \in D |-> IF k \in S THEN flows[k].amount ELSE 0]
           C == A \cup B
<1>1. IsFiniteSet(D)
  <2>1. DOMAIN flows = 1..Len(flows) /\ Len(flows) \in Nat
    OBVIOUS
  <2> QED
    BY <2>1, FS_Interval
<1>2. \A k \in D : flows[k].amount \in Int
  <2>1. \A k \in DOMAIN flows : flows[k] \in Payments
    OBVIOUS
  <2> QED
    BY <2>1 DEF Payments, Evens
<1>3. \A k \in D : in(A)[k] \in Int /\ in(B)[k] \in Int /\ in(C)[k] = in(A)[k] + in(B)[k]
  BY <1>2
<1>4. C \in SUBSET DOMAIN flows
  OBVIOUS
<1>5. /\ SumOver(flows, A) = SumFunctionOnSet(in(A), D)
      /\ SumOver(flows, B) = SumFunctionOnSet(in(B), D)
      /\ SumOver(flows, C) = SumFunctionOnSet(in(C), D)
  <2> HIDE DEF C
  <2> QED
    BY <1>4, SumOverAsCounted
<1>6. SumFunctionOnSet(in(C), D) = SumFunctionOnSet(in(A), D) + SumFunctionOnSet(in(B), D)
  <2> DEFINE f == in(A)
             g == in(B)
             h == in(C)
  <2>1. \A k \in D : f[k] \in Int /\ g[k] \in Int /\ h[k] = f[k] + g[k]
    BY <1>3
  <2> HIDE DEF f, g, h, D
  <2>2. SumFunctionOnSet(h, D) = SumFunctionOnSet(f, D) + SumFunctionOnSet(g, D)
    BY <1>1, <2>1, SumAdded
  <2> QED
    BY <2>2 DEF f, g, h
<1> HIDE DEF in, D
<1> QED
  BY <1>5, <1>6

\* What is worth something today is paid up to a horizon or after it.
LEMMA PvFalls ==
  ASSUME NEW flows \in Seq(Payments), NEW from \in Int, NEW to \in Int, from <= to
  PROVE  /\ LegPv(flows, from) = LegPv(flows, to) + PaidOn(flows, (from + 1)..to)
         /\ LegPv(flows, from) \in Evens /\ LegPv(flows, to) \in Evens
         /\ PaidOn(flows, (from + 1)..to) \in Evens
<1> DEFINE D == DOMAIN flows
           A == {k \in D : Unsettled(flows[k].date, to)}
           B == {k \in D : flows[k].date \in (from + 1)..to}
           C == {k \in D : Unsettled(flows[k].date, from)}
<1>1. \A k \in D : flows[k].date \in Int
  <2>1. \A k \in DOMAIN flows : flows[k] \in Payments
    OBVIOUS
  <2> QED
    BY <2>1 DEF Payments
<1>2. C = A \cup B /\ A \cap B = {}
  BY <1>1 DEF Unsettled
<1>3. A \in SUBSET D /\ B \in SUBSET D
  OBVIOUS
<1>4. PaidOn(flows, (from + 1)..to) = SumOver(flows, B)
  BY PaidOnCounted
<1>5. LegPv(flows, from) = SumOver(flows, C) /\ LegPv(flows, to) = SumOver(flows, A)
  BY DEF LegPv
<1> HIDE DEF A, B, C
<1>6. SumOver(flows, A \cup B) = SumOver(flows, A) + SumOver(flows, B)
  BY <1>2, <1>3, SumOverParts
<1>7. SumOver(flows, B) \in Evens
  BY <1>3, SumOverTyped
<1>8. LegPv(flows, from) \in Evens /\ LegPv(flows, to) \in Evens
  BY LegPvTyped
<1> QED
  BY <1>2, <1>4, <1>5, <1>6, <1>7, <1>8

\* The same market at another date.
SameMarket(c, ctx) ==
  /\ c.rate = ctx.rate /\ c.index = ctx.index /\ c.observations = ctx.observations
  /\ c.indicesByLeg = ctx.indicesByLeg /\ c.book = ctx.book /\ c.fxSpots = ctx.fxSpots

\* All but the return of an asset is paid when it was.
LEMMA FlowsStay ==
  ASSUME NEW c, NEW ctx, SameMarket(c, ctx), NEW type \in Families, NEW leg, NEW i,
         leg.legType = "asset" => c.asOf + c.lastPillar = ctx.asOf + ctx.lastPillar
  PROVE  LegFlows(type, leg, c, i) = LegFlows(type, leg, ctx, i)
<1> DEFINE fixed == FixedFlows(leg)
           rate == IF type = "ASSET" THEN ctx.rate ELSE ProjectedRate(leg, ctx)
           float == FloatFlows(leg, ctx, rate)
           spread == SpreadFlows(leg, ctx, i)
<1>1. ProjectedRate(leg, c) = ProjectedRate(leg, ctx)
  <2> DEFINE projected(book, flat) ==
               IF leg.currency \notin DOMAIN book \/ DOMAIN book[leg.currency] = {} THEN flat
               ELSE LET projections == book[leg.currency] IN
                    projections[IF leg.indexId \in DOMAIN projections THEN leg.indexId
                                ELSE CHOOSE id \in DOMAIN projections : TRUE]
  <2>1. /\ ProjectedRate(leg, c) = projected(c.book, c.rate)
        /\ ProjectedRate(leg, ctx) = projected(ctx.book, ctx.rate)
    BY DEF ProjectedRate
  <2>2. c.book = ctx.book /\ c.rate = ctx.rate
    BY DEF SameMarket
  <2> HIDE DEF projected
  <2> QED
    BY <2>1, <2>2
<1>2. LegIndex(c, i) = LegIndex(ctx, i)
  BY DEF LegIndex, SameMarket
<1>3. c.index = ctx.index /\ c.observations = ctx.observations /\ c.rate = ctx.rate
  BY DEF SameMarket
<1>4. \A r : FloatFlows(leg, c, r) = FloatFlows(leg, ctx, r)
  BY <1>3 DEF FloatFlows
<1>5. SpreadFlows(leg, c, i) = SpreadFlows(leg, ctx, i)
  <2> DEFINE flows(r, idx, fx) ==
               LET periods == CouponPeriods(leg.schedule)
               IN Coupons(periods, [k \in DOMAIN periods |->
                    FloatCoupon(r, idx, fx, leg, periods[k]) + SpreadOnTop(idx, leg, periods[k])])
  <2>1. /\ SpreadFlows(leg, c, i) = flows(ProjectedRate(leg, c), LegIndex(c, i), c.observations)
        /\ SpreadFlows(leg, ctx, i) = flows(ProjectedRate(leg, ctx), LegIndex(ctx, i), ctx.observations)
    BY DEF SpreadFlows
  <2> HIDE DEF flows
  <2> QED
    BY <1>1, <1>2, <1>3, <2>1
<1>6. /\ LegFlows(type, leg, c, i) = StrategyFlows(type, leg, c, fixed, float, spread)
      /\ LegFlows(type, leg, ctx, i) = StrategyFlows(type, leg, ctx, fixed, float, spread)
  <2>1. (IF type = "ASSET" THEN c.rate ELSE ProjectedRate(leg, c)) = rate
    BY <1>1, <1>3
  <2>2. FloatFlows(leg, c, rate) = float
    BY <1>4
  <2> HIDE DEF rate, float
  <2>3. LegFlows(type, leg, c, i) = StrategyFlows(type, leg, c, fixed, float, spread)
    BY <1>5, <2>1, <2>2 DEF LegFlows
  <2>4. LegFlows(type, leg, ctx, i) = StrategyFlows(type, leg, ctx, fixed, float, spread)
    BY DEF LegFlows, float, rate
  <2> QED
    BY <2>3, <2>4
<1> HIDE DEF fixed, float, spread
<1>7. AssetFlows(leg, c, fixed, float) = AssetFlows(leg, ctx, fixed, float)
  BY DEF AssetFlows
<1>8. FpmlFlows(leg, c, fixed, float) = FpmlFlows(leg, ctx, fixed, float)
  BY <1>7 DEF FpmlFlows
<1>9. StrategyFlows(type, leg, c, fixed, float, spread) = StrategyFlows(type, leg, ctx, fixed, float, spread)
  BY <1>7, <1>8 DEF StrategyFlows
<1> QED
  BY <1>6, <1>9

ContextFields == {"asOf", "rate", "lastPillar", "index", "observations", "indicesByLeg", "book", "fxSpots"}

\* The context of a later date, and what its curve's frozen pillars come to.
LEMMA Advanced ==
  ASSUME NEW ctx, IsContext(ctx), DOMAIN ctx = ContextFields, NEW to \in Nat, ctx.asOf <= to,
         NEW mode \in {"freeze", "slide"}
  PROVE  LET c == AdvanceAsOf(ctx, to, mode) IN
         /\ SameMarket(c, ctx) /\ IsContext(c) /\ c.asOf = to
         /\ mode = "freeze" /\ to < ctx.asOf + ctx.lastPillar =>
              c.asOf + c.lastPillar = ctx.asOf + ctx.lastPillar
<1> DEFINE c == AdvanceAsOf(ctx, to, mode)
           pillar == IF mode = "freeze" THEN Max({1, ctx.lastPillar - (to - ctx.asOf)}) ELSE ctx.lastPillar
<1>1. /\ c.asOf = to /\ c.lastPillar = pillar
      /\ \A x \in ContextFields \ {"asOf", "lastPillar"} : c[x] = ctx[x]
  BY DEF AdvanceAsOf, ContextFields
<1>2. SameMarket(c, ctx)
  <2> HIDE DEF c
  <2> QED
    BY <1>1 DEF ContextFields, SameMarket
<1>3. ctx.asOf \in Nat /\ ctx.lastPillar \in Nat
  BY DEF IsContext
<1>4. pillar = IF mode = "freeze" /\ to < ctx.asOf + ctx.lastPillar THEN ctx.lastPillar - (to - ctx.asOf)
               ELSE IF mode = "freeze" THEN 1 ELSE ctx.lastPillar
  <2> DEFINE n == ctx.lastPillar - (to - ctx.asOf)
  <2>1. n \in Int /\ (n >= 1 <=> to < ctx.asOf + ctx.lastPillar)
    BY <1>3
  <2> HIDE DEF n
  <2>2. Max({1, n}) = IF 1 >= n THEN 1 ELSE n
    BY <2>1, MaxOfTwo
  <2> QED
    BY <1>3, <2>1, <2>2 DEF n
<1> HIDE DEF c, pillar
<1>5. pillar \in Nat
  BY <1>3, <1>4
<1>6. mode = "freeze" /\ to < ctx.asOf + ctx.lastPillar => to + pillar = ctx.asOf + ctx.lastPillar
  BY <1>3, <1>4
<1>7. IsContext(c)
  BY <1>1, <1>2, <1>5 DEF SameMarket, IsContext
<1> QED
  BY <1>1, <1>2, <1>6, <1>7 DEF c

\* The legs of a swap none of whose payments a later date puts off.
NothingPutOff(config, c, ctx) ==
  \A i \in DOMAIN config.legs :
    config.legs[i].legType = "asset" => c.asOf + c.lastPillar = ctx.asOf + ctx.lastPillar

\* A leg at a later date lacks what is paid until then.
LEMMA LegFalls ==
  ASSUME NEW config, IsConfig(config), NEW ctx, IsContext(ctx), NEW c, IsContext(c),
         SameMarket(c, ctx), InValueConvertible(config, ctx), NothingPutOff(config, c, ctx),
         ctx.asOf <= c.asOf, NEW i \in DOMAIN config.legs
  PROVE  LET leg == config.legs[i]
             paid == PaidOn(LegFlows(config.type, leg, ctx, i), (ctx.asOf + 1)..c.asOf)
         IN /\ LegValue(config, ctx, i, ctx.asOf)
                 = LegValue(config, c, i, c.asOf) + Sign(leg) * InValue(config, i, ctx, paid)
            /\ LegValue(config, ctx, i, ctx.asOf) \in Int /\ LegValue(config, c, i, c.asOf) \in Int
            /\ paid \in Evens /\ Sign(leg) * InValue(config, i, ctx, paid) \in Int
<1> DEFINE leg == config.legs[i]
           flows == LegFlows(config.type, leg, ctx, i)
           paid == PaidOn(flows, (ctx.asOf + 1)..c.asOf)
           before == LegPv(flows, ctx.asOf)
           after == LegPv(flows, c.asOf)
           in(x) == InValue(config, i, ctx, x)
<1>1. IsLeg(leg) /\ config.type \in Families /\ ctx.asOf \in Int /\ c.asOf \in Int
  BY DEF IsConfig, IsContext
<1>2. flows \in Seq(Payments)
  BY <1>1, LegFlowsTyped
<1>3. LegFlows(config.type, leg, c, i) = flows
  BY <1>1, FlowsStay DEF NothingPutOff
<1>4. \A x : InValue(config, i, c, x) = in(x)
  BY DEF InValue, InReportingCurrency, SameMarket
<1>5. InValueConvertible(config, c)
  BY DEF InValueConvertible, Convertible, SameMarket
<1>6. /\ LegValue(config, ctx, i, ctx.asOf) = Sign(leg) * in(before)
      /\ LegValue(config, ctx, i, ctx.asOf) \in Int
  BY LegValueSigned
<1>7. /\ LegValue(config, c, i, c.asOf) = Sign(leg) * in(after)
      /\ LegValue(config, c, i, c.asOf) \in Int
  <2>1. LET pv == LegPv(LegFlows(config.type, leg, c, i), c.asOf) IN
        /\ LegValue(config, c, i, c.asOf) = Sign(leg) * InValue(config, i, c, pv)
        /\ LegValue(config, c, i, c.asOf) \in Int
    BY <1>5, LegValueSigned
  <2> HIDE DEF flows, in
  <2> QED
    BY <1>3, <1>4, <2>1
<1>8. before = after + paid /\ before \in Evens /\ after \in Evens /\ paid \in Evens
  <2> HIDE DEF flows
  <2> QED
    BY <1>1, <1>2, PvFalls
<1> HIDE DEF before, after, paid
<1>9. in(after + paid) = in(after) + in(paid) /\ in(after) \in Int /\ in(paid) \in Int
  BY <1>8, InValueLinear
<1>10. Sign(leg) \in {1, -1}
  BY DEF Sign
<1> HIDE DEF in, leg, flows
<1>11. Sign(leg) * (in(after) + in(paid)) = Sign(leg) * in(after) + Sign(leg) * in(paid)
       /\ Sign(leg) * in(paid) \in Int
  BY <1>9, <1>10
<1> QED
  BY <1>6, <1>7, <1>8, <1>9, <1>11 DEF in, leg, flows, paid

\* So does the whole swap.
LEMMA ValueFalls ==
  ASSUME NEW config, IsConfig(config), NEW ctx, IsContext(ctx), NEW c, IsContext(c),
         SameMarket(c, ctx), InValueConvertible(config, ctx), NothingPutOff(config, c, ctx),
         ctx.asOf <= c.asOf
  PROVE  LET paid(i) == PaidOn(LegFlows(config.type, config.legs[i], ctx, i), (ctx.asOf + 1)..c.asOf)
             f == [i \in DOMAIN config.legs |-> Sign(config.legs[i]) * InValue(config, i, ctx, paid(i))]
         IN /\ Npv(config, ctx, ctx.asOf) = Npv(config, c, c.asOf) + SumFunction(f)
            /\ Npv(config, ctx, ctx.asOf) \in Int /\ Npv(config, c, c.asOf) \in Int
            /\ SumFunction(f) \in Int
<1> DEFINE D == DOMAIN config.legs
           paid(i) == PaidOn(LegFlows(config.type, config.legs[i], ctx, i), (ctx.asOf + 1)..c.asOf)
           f == [i \in DOMAIN config.legs |-> Sign(config.legs[i]) * InValue(config, i, ctx, paid(i))]
           before == [i \in DOMAIN config.legs |-> LegValue(config, ctx, i, ctx.asOf)]
           after == [i \in DOMAIN config.legs |-> LegValue(config, c, i, c.asOf)]
<1>1. IsFiniteSet(D)
  BY FS_Interval DEF IsConfig
<1>2. \A i \in D : after[i] \in Int /\ f[i] \in Int /\ before[i] = after[i] + f[i] /\ before[i] \in Int
  BY LegFalls
<1>3. DOMAIN f = D /\ DOMAIN before = D /\ DOMAIN after = D
  OBVIOUS
<1>4. Npv(config, ctx, ctx.asOf) = SumFunction(before) /\ Npv(config, c, c.asOf) = SumFunction(after)
  BY DEF Npv
<1> HIDE DEF D, f, before, after
<1>5. SumFunctionOnSet(before, D) = SumFunctionOnSet(after, D) + SumFunctionOnSet(f, D)
  BY <1>1, <1>2, SumAdded
<1>6. /\ SumFunctionOnSet(before, D) \in Int /\ SumFunctionOnSet(after, D) \in Int
      /\ SumFunctionOnSet(f, D) \in Int
  BY <1>1, <1>2, SumTyped
<1> QED
  BY <1>3, <1>4, <1>5, <1>6, SumOfFunction DEF f

\* What each leg of a swap pays.
AllFlows(config, ctx) ==
  [i \in DOMAIN config.legs |-> LegFlows(config.type, config.legs[i], ctx, i)]

\* What a value falls by to a horizon is what is paid until then.
LEMMA FallsToHorizon ==
  ASSUME NEW config, IsConfig(config), NEW ctx, IsContext(ctx), DOMAIN ctx = ContextFields,
         InValueConvertible(config, ctx), NEW to \in Nat, ctx.asOf < to,
         \A i \in DOMAIN config.legs :
           config.legs[i].legType = "asset" => to < ctx.asOf + ctx.lastPillar
  PROVE  FallsByPayments(config, ctx, AllFlows(config, ctx), to)
<1> DEFINE flows == AllFlows(config, ctx)
           frozen == AdvanceAsOf(ctx, to, "freeze")
           slid == AdvanceAsOf(ctx, to, "slide")
           paid == [i \in DOMAIN config.legs |-> PaidOn(flows[i], (ctx.asOf + 1)..to)]
           part(i) == PaidOn(LegFlows(config.type, config.legs[i], ctx, i), (ctx.asOf + 1)..to)
           f == [i \in DOMAIN config.legs |-> Sign(config.legs[i]) * InValue(config, i, ctx, part(i))]
<1>1. ctx.asOf \in Nat /\ ctx.asOf <= to
  BY DEF IsContext
<1>2. /\ SameMarket(frozen, ctx) /\ IsContext(frozen) /\ frozen.asOf = to
      /\ to < ctx.asOf + ctx.lastPillar =>
           frozen.asOf + frozen.lastPillar = ctx.asOf + ctx.lastPillar
      /\ SameMarket(slid, ctx) /\ IsContext(slid)
  <2>1. LET c == AdvanceAsOf(ctx, to, "freeze") IN
        /\ SameMarket(c, ctx) /\ IsContext(c) /\ c.asOf = to
        /\ to < ctx.asOf + ctx.lastPillar => c.asOf + c.lastPillar = ctx.asOf + ctx.lastPillar
    BY <1>1, Advanced
  <2>2. SameMarket(slid, ctx) /\ IsContext(slid)
    BY <1>1, Advanced
  <2> HIDE DEF frozen, slid
  <2> QED
    BY <2>1, <2>2 DEF frozen
<1> HIDE DEF frozen, slid
<1>3. NothingPutOff(config, frozen, ctx) /\ ctx.asOf <= frozen.asOf
  BY <1>1, <1>2 DEF NothingPutOff
<1>4. /\ Npv(config, ctx, ctx.asOf) = Npv(config, frozen, to) + SumFunction(f)
      /\ Npv(config, ctx, ctx.asOf) \in Int /\ Npv(config, frozen, to) \in Int
      /\ SumFunction(f) \in Int
  <2>1. LET p(i) == PaidOn(LegFlows(config.type, config.legs[i], ctx, i), (ctx.asOf + 1)..frozen.asOf)
            g == [i \in DOMAIN config.legs |-> Sign(config.legs[i]) * InValue(config, i, ctx, p(i))]
        IN /\ Npv(config, ctx, ctx.asOf) = Npv(config, frozen, frozen.asOf) + SumFunction(g)
           /\ Npv(config, ctx, ctx.asOf) \in Int /\ Npv(config, frozen, frozen.asOf) \in Int
           /\ SumFunction(g) \in Int
    BY <1>2, <1>3, ValueFalls
  <2>2. frozen.asOf = to
    BY <1>2
  <2> QED
    BY <2>1, <2>2
<1>5. Npv(config, slid, to) \in Int
  <2>1. InValueConvertible(config, slid)
    BY <1>2 DEF InValueConvertible, Convertible, SameMarket
  <2> QED
    BY <1>2, <2>1, NpvTyped
<1>6. /\ Theta(config, ctx, to) = Npv(config, frozen, to) - Npv(config, ctx, ctx.asOf)
      /\ Roll(config, ctx, to) = Npv(config, slid, to) - Npv(config, frozen, to)
      /\ ForwardNpv(config, ctx, to) = Npv(config, slid, to)
      /\ Price(config, ctx) = Npv(config, ctx, ctx.asOf)
  BY DEF Theta, Roll, ForwardNpv, Price, frozen, slid
<1>7. [i \in DOMAIN paid |-> Sign(config.legs[i]) * InValue(config, i, ctx, paid[i])] = f
  BY DEF AllFlows
<1>8. Carry(config, ctx, to)
        = SumFunction([i \in DOMAIN paid |-> InReportingCurrency(config, i, ctx, paid[i])])
  <2> DEFINE between(i) == PaidBetween(LegFlows(config.type, config.legs[i], ctx, i), ctx.asOf, to)
  <2>1. ASSUME NEW i \in DOMAIN config.legs PROVE between(i) = paid[i]
    <3> DEFINE leg == LegFlows(config.type, config.legs[i], ctx, i)
    <3>1. IsLeg(config.legs[i]) /\ config.type \in Families
      BY DEF IsConfig
    <3>2. leg \in Seq(Payments)
      BY <3>1, LegFlowsTyped
    <3>3. paid[i] = PaidOn(leg, (ctx.asOf + 1)..to)
      BY DEF AllFlows
    <3> HIDE DEF leg
    <3>4. PaidOn(leg, (ctx.asOf + 1)..to)
            = SumOver(leg, {k \in DOMAIN leg : leg[k].date \in (ctx.asOf + 1)..to})
      BY <3>2, PaidOnCounted
    <3>5. PaidBetween(leg, ctx.asOf, to)
            = SumOver(leg, {k \in DOMAIN leg : leg[k].date \in (ctx.asOf + 1)..to})
      BY DEF PaidBetween
    <3> QED
      BY <3>3, <3>4, <3>5 DEF leg
  <2>2. Carry(config, ctx, to)
          = SumFunction([i \in DOMAIN config.legs |-> InReportingCurrency(config, i, ctx, between(i))])
    BY DEF Carry, CashflowsBetween
  <2>3. DOMAIN paid = DOMAIN config.legs
    OBVIOUS
  <2> HIDE DEF paid, between
  <2>4. [i \in DOMAIN config.legs |-> InReportingCurrency(config, i, ctx, between(i))]
          = [i \in DOMAIN paid |-> InReportingCurrency(config, i, ctx, paid[i])]
    BY <2>1, <2>3
  <2> QED
    BY <2>2, <2>4
<1> HIDE DEF f
<1>9. Theta(config, ctx, to) = -SumFunction(f)
      /\ Price(config, ctx) + Theta(config, ctx, to) + Roll(config, ctx, to) = ForwardNpv(config, ctx, to)
  BY <1>4, <1>5, <1>6
<1> QED
  BY <1>7, <1>8, <1>9 DEF FallsByPayments

-----------------------------------------------------------------------------
(* What is paid when.                                                      *)

\* The days a leg is shown to pay on.
PayDates(leg) ==
  IF leg.legType \in {"fixed", "float"}
  THEN {CouponPeriods(leg.schedule)[k].to : k \in DOMAIN CouponPeriods(leg.schedule)}
  ELSE IF leg.legType = "fx" THEN {leg.paymentDate} ELSE {}

LEMMA CouponDates ==
  ASSUME NEW schedule, NEW amounts, NEW k \in DOMAIN Coupons(CouponPeriods(schedule), amounts)
  PROVE  /\ Coupons(CouponPeriods(schedule), amounts)[k].date = CouponPeriods(schedule)[k].to
         /\ Coupons(CouponPeriods(schedule), amounts)[k].amount = amounts[k]
         /\ k \in DOMAIN CouponPeriods(schedule)
<1> DEFINE periods == CouponPeriods(schedule)
<1> HIDE DEF periods
<1>1. k \in DOMAIN Coupons(periods, amounts)
  BY DEF periods
<1>2. k \in DOMAIN periods /\ Coupons(periods, amounts)[k].date = periods[k].to
      /\ Coupons(periods, amounts)[k].amount = amounts[k]
  BY <1>1 DEF Coupons
<1> QED
  BY <1>2 DEF periods

\* Flows are of a schedule: one for each period, on its last day.
OfSchedule(flows, schedule) ==
  /\ DOMAIN flows = DOMAIN CouponPeriods(schedule)
  /\ \A k \in DOMAIN flows : flows[k].date = CouponPeriods(schedule)[k].to

LEMMA FlowsOfSchedule ==
  ASSUME NEW leg, NEW ctx, NEW i, NEW rate
  PROVE  /\ OfSchedule(FixedFlows(leg), leg.schedule)
         /\ OfSchedule(FloatFlows(leg, ctx, rate), leg.schedule)
         /\ OfSchedule(SpreadFlows(leg, ctx, i), leg.schedule)
<1> DEFINE periods == CouponPeriods(leg.schedule)
<1>1. \A amounts : OfSchedule(Coupons(periods, amounts), leg.schedule)
  <2> TAKE amounts
  <2> DEFINE flows == Coupons(periods, amounts)
  <2>1. DOMAIN flows = DOMAIN periods
    BY DEF Coupons
  <2>2. \A k \in DOMAIN flows : flows[k].date = periods[k].to
    BY CouponDates
  <2> HIDE DEF flows
  <2> QED
    BY <2>1, <2>2 DEF OfSchedule, flows
<1> QED
  BY <1>1 DEF FixedFlows, FloatFlows, SpreadFlows

LEMMA Joined ==
  ASSUME NEW S, NEW a \in Seq(S), NEW b \in Seq(S)
  PROVE  /\ Len(a) \in Nat /\ Len(b) \in Nat /\ DOMAIN b = 1..Len(b)
         /\ DOMAIN (a \o b) = 1..(Len(a) + Len(b))
         /\ \A k \in 1..Len(a) : (a \o b)[k] = a[k]
         /\ \A k \in 1..Len(b) : (a \o b)[Len(a) + k] = b[k]
<1>1. a \o b \in Seq(S) /\ Len(a \o b) = Len(a) + Len(b) /\ Len(a) \in Nat /\ Len(b) \in Nat
  OBVIOUS
<1>2. DOMAIN (a \o b) = 1..Len(a \o b) /\ DOMAIN b = 1..Len(b)
  BY <1>1
<1>3. \A k \in 1..(Len(a) + Len(b)) : (a \o b)[k] = IF k <= Len(a) THEN a[k] ELSE b[k - Len(a)]
  OBVIOUS
<1>4. \A k \in 1..Len(a) : (a \o b)[k] = a[k]
  BY <1>1, <1>3
<1>5. ASSUME NEW k \in 1..Len(b) PROVE (a \o b)[Len(a) + k] = b[k]
  <2>1. Len(a) + k \in 1..(Len(a) + Len(b)) /\ ~(Len(a) + k <= Len(a)) /\ (Len(a) + k) - Len(a) = k
    BY <1>1
  <2> QED
    BY <1>3, <2>1
<1> QED
  BY <1>1, <1>2, <1>4, <1>5

\* The flows of a leg: its coupons, after the two of principal where there are any.
LEMMA PaidByDates ==
  ASSUME NEW config, IsConfig(config), NEW ctx, IsContext(ctx), NEW i \in DOMAIN config.legs,
         NEW k \in DOMAIN AllFlows(config, ctx)[i], ~IsPrincipal(config, i, k)
  PROVE  AllFlows(config, ctx)[i][k].date \in PayDates(config.legs[i])
<1> DEFINE leg == config.legs[i]
           type == config.type
           fixed == FixedFlows(leg)
           rate == IF type = "ASSET" THEN ctx.rate ELSE ProjectedRate(leg, ctx)
           float == FloatFlows(leg, ctx, rate)
           spread == SpreadFlows(leg, ctx, i)
           flows == StrategyFlows(type, leg, ctx, fixed, float, spread)
<1>1. AllFlows(config, ctx)[i] = flows
  BY DEF AllFlows, LegFlows
<1>2. IsLeg(leg) /\ type \in Families
  BY DEF IsConfig
<1>3. /\ \A n \in DOMAIN fixed : leg.legType = "fixed" => fixed[n].date \in PayDates(leg)
      /\ \A n \in DOMAIN float : leg.legType = "float" => float[n].date \in PayDates(leg)
      /\ \A n \in DOMAIN spread : leg.legType = "float" => spread[n].date \in PayDates(leg)
  <2>1. OfSchedule(fixed, leg.schedule) /\ OfSchedule(float, leg.schedule) /\ OfSchedule(spread, leg.schedule)
    BY FlowsOfSchedule
  <2> HIDE DEF fixed, float, spread
  <2> QED
    BY <2>1 DEF OfSchedule, PayDates
<1>4. /\ leg.legType = "fixed" => fixed \in Seq(Payments)
      /\ leg.legType = "float" => spread \in Seq(Payments)
  <2>1. rate \in Int
    BY ProjectionTyped DEF IsContext
  <2> QED
    BY <1>2, <2>1, CouponFlowsTyped
<1>5. k \in DOMAIN flows
  BY <1>1
<1> HIDE DEF fixed, float, spread
<1>6. leg.legType # "asset" /\ (type = "XCCY" => ~(k <= 2))
  BY DEF IsPrincipal
<1>7. \A n \in DOMAIN IrsFlows(leg, fixed, float) : IrsFlows(leg, fixed, float)[n].date \in PayDates(leg)
  BY <1>3 DEF IrsFlows
<1>8. \A n \in DOMAIN FxFlows(leg) : FxFlows(leg)[n].date \in PayDates(leg)
  BY DEF FxFlows, PayDates
<1>9. CASE type \in {"IRS", "OIS"}
  <2>1. flows = IrsFlows(leg, fixed, float)
    BY <1>9 DEF StrategyFlows
  <2> HIDE DEF flows
  <2> QED
    BY <1>1, <1>5, <1>7, <2>1
<1>10. CASE type = "BASIS"
  <2>1. flows = BasisFlows(leg, spread)
    BY <1>10 DEF StrategyFlows
  <2> HIDE DEF flows
  <2> QED
    BY <1>1, <1>3, <1>5, <2>1 DEF BasisFlows
<1>11. CASE type = "XCCY"
  <2>1. flows = XccyFlows(leg, fixed, spread)
    BY <1>11 DEF StrategyFlows
  <2> HIDE DEF flows
  <2>2. leg.legType \in {"fixed", "float"}
    BY <1>5, <2>1 DEF XccyFlows
  <2> DEFINE principal == <<[date |-> leg.schedule.start, amount |-> -leg.notional * Whole],
                            [date |-> leg.schedule.end, amount |-> leg.notional * Whole]>>
             coupons == IF leg.legType = "fixed" THEN fixed ELSE spread
  <2>3. flows = principal \o coupons
    BY <2>1, <2>2 DEF XccyFlows
  <2>4. Len(principal) = 2 /\ principal \in Seq(Payments)
    BY <1>2, PrincipalTyped
  <2>5. coupons \in Seq(Payments)
    BY <1>4, <2>2
  <2>6. \A n \in DOMAIN coupons : coupons[n].date \in PayDates(leg)
    BY <1>3, <2>2
  <2> HIDE DEF principal, coupons
  <2>7. /\ Len(coupons) \in Nat /\ DOMAIN coupons = 1..Len(coupons)
        /\ DOMAIN (principal \o coupons) = 1..(2 + Len(coupons))
        /\ \A n \in 1..Len(coupons) : (principal \o coupons)[2 + n] = coupons[n]
    <3>1. /\ Len(coupons) \in Nat /\ DOMAIN coupons = 1..Len(coupons)
          /\ DOMAIN (principal \o coupons) = 1..(Len(principal) + Len(coupons))
          /\ \A n \in 1..Len(coupons) : (principal \o coupons)[Len(principal) + n] = coupons[n]
      <4>1. principal \in Seq(Payments)
        BY <2>4
      <4> QED
        BY <2>5, <4>1, Joined
    <3> QED
      BY <2>4, <3>1
  <2>8. k - 2 \in 1..Len(coupons) /\ 2 + (k - 2) = k
    <3>1. k \in 1..(2 + Len(coupons)) /\ ~(k <= 2)
      BY <1>5, <1>6, <1>11, <2>3, <2>7
    <3> QED
      BY <2>7, <3>1
  <2>9. flows[k] = coupons[k - 2]
    BY <2>3, <2>7, <2>8
  <2> QED
    BY <1>1, <2>6, <2>7, <2>8, <2>9
<1>12. CASE type = "CCY"
  <2>1. flows = CcyFlows(leg, fixed)
    BY <1>12 DEF StrategyFlows
  <2> HIDE DEF flows
  <2> QED
    BY <1>1, <1>3, <1>5, <2>1 DEF CcyFlows
<1>13. CASE type = "FX"
  <2>1. flows = FxFlows(leg)
    BY <1>13 DEF StrategyFlows
  <2> HIDE DEF flows
  <2> QED
    BY <1>1, <1>5, <1>8, <2>1
<1>14. CASE type = "ASSET"
  <2>1. flows = IrsFlows(leg, fixed, float)
    BY <1>6, <1>14 DEF StrategyFlows, AssetFlows
  <2> HIDE DEF flows
  <2> QED
    BY <1>1, <1>5, <1>7, <2>1
<1>15. CASE type = "FpML"
  <2>1. flows = IrsFlows(leg, fixed, float) \/ flows = FxFlows(leg)
    BY <1>6, <1>15 DEF StrategyFlows, FpmlFlows
  <2> HIDE DEF flows
  <2> QED
    BY <1>1, <1>5, <1>7, <1>8, <2>1
<1> QED
  BY <1>2, <1>9, <1>10, <1>11, <1>12, <1>13, <1>14, <1>15 DEF Families

\* What is not principal is not paid before the next payment.
LEMMA NextComesFirst ==
  ASSUME NEW config, IsConfig(config), NEW ctx, IsContext(ctx)
  PROVE  NothingSooner(config, ctx, AllFlows(config, ctx))
<1> DEFINE D == DOMAIN config.legs
           dates(leg, e) ==
             IF leg.legType = "float" \/ (leg.legType = "fixed" /\ e = "payment")
             THEN {CouponPeriods(leg.schedule)[k].to : k \in DOMAIN CouponPeriods(leg.schedule)}
             ELSE IF leg.legType = "fx" /\ e = "payment" THEN {leg.paymentDate} ELSE {}
           ahead(e) == {d \in UNION {dates(config.legs[i], e) : i \in D} : d > ctx.asOf}
           Ahead == {d \in UNION {PayDates(config.legs[i]) : i \in D} : d > ctx.asOf}
           next == NextEvent(config, ctx.asOf, "payment")
<1>1. \A leg : dates(leg, "payment") = PayDates(leg)
  BY DEF PayDates
<1>2. next = IF ahead("payment") = {} THEN 0 ELSE Min(ahead("payment"))
  BY DEF NextEvent
<1>3. ahead("payment") = Ahead
  <2> HIDE DEF dates
  <2> QED
    BY <1>1
<1> HIDE DEF ahead
<1>4. next = IF Ahead = {} THEN 0 ELSE Min(Ahead)
  BY <1>2, <1>3
<1>5. \A i \in D : \A d \in PayDates(config.legs[i]) : d \in Int
  <2> TAKE i \in D
  <2>1. IsLeg(config.legs[i])
    BY DEF IsConfig
  <2> DEFINE leg == config.legs[i]
  <2>2. IsLeg(leg)
    BY <2>1
  <2> HIDE DEF leg
  <2>3. IsSchedule(leg.schedule) /\ (leg.legType = "fx" => leg.paymentDate \in Int)
    BY <2>2 DEF IsLeg
  <2>4. \A k \in DOMAIN CouponPeriods(leg.schedule) : CouponPeriods(leg.schedule)[k].to \in Int
    BY <2>3, PeriodsTyped
  <2>5. \A d \in PayDates(leg) : d \in Int
    BY <2>3, <2>4 DEF PayDates
  <2> QED
    BY <2>5 DEF leg
<1>6. ctx.asOf \in Nat
  BY DEF IsContext
<1>7. Ahead \in SUBSET Nat /\ \A d \in Ahead : d > ctx.asOf
  BY <1>5, <1>6
<1>8. ASSUME NEW i \in D, NEW d \in PayDates(config.legs[i]), d > ctx.asOf
      PROVE  next # 0 /\ ~(d < next)
  <2>1. d \in Ahead
    BY <1>8
  <2> HIDE DEF Ahead, next
  <2>2. \E x \in Ahead : \A y \in Ahead : x <= y
    BY <1>7, <2>1, LeastNat
  <2>3. Min(Ahead) \in Ahead /\ \A y \in Ahead : Min(Ahead) <= y
    BY <2>2 DEF Min
  <2>4. next = Min(Ahead)
    BY <1>4, <2>1
  <2>5. Min(Ahead) \in Nat /\ Min(Ahead) > ctx.asOf /\ Min(Ahead) <= d /\ d \in Nat
    BY <1>7, <2>1, <2>3
  <2> QED
    BY <1>6, <2>4, <2>5
<1> HIDE DEF next, Ahead
<1>9. ASSUME NEW i \in D, NEW k \in DOMAIN AllFlows(config, ctx)[i],
             AllFlows(config, ctx)[i][k].date > ctx.asOf,
             next = 0 \/ AllFlows(config, ctx)[i][k].date < next
      PROVE  IsPrincipal(config, i, k)
  <2> SUFFICES ASSUME ~IsPrincipal(config, i, k) PROVE FALSE
    OBVIOUS
  <2>1. AllFlows(config, ctx)[i][k].date \in PayDates(config.legs[i])
    BY PaidByDates
  <2> QED
    BY <1>8, <1>9, <2>1
<1> QED
  BY <1>9 DEF NothingSooner, next

-----------------------------------------------------------------------------
(* Day counts, and the part of a coupon that has elapsed.                  *)

\* A day is within its month.
LEMMA DayForm ==
  ASSUME NEW d \in Int
  PROVE  /\ MonthOf(d) \in Int /\ DayIn(d) \in Int /\ 1 <= DayIn(d) /\ DayIn(d) <= 31
         /\ d = FirstOf(MonthOf(d)) + DayIn(d) - 1 /\ FirstOf(MonthOf(d)) \in Int
         /\ d < FirstOf(MonthOf(d) + 1) /\ FirstOf(MonthOf(d) + 1) \in Int
<1> DEFINE m == MonthOf(d)
           j == DayIn(d)
           f == FirstOf(m)
           g == FirstOf(m + 1)
           len == MonthLength(m)
<1>1. m \in Int /\ j \in 1..len /\ d = f + j - 1
  BY DayHasMonth
<1>2. len \in 28..31 /\ f \in Int /\ g \in Int
  <2>1. m \in Int /\ m + 1 \in Int
    BY <1>1
  <2> HIDE DEF m
  <2> QED
    BY <2>1, MonthLengths
<1>3. len = g - f
  BY DEF MonthLength
<1> HIDE DEF m, j, f, g, len
<1>4. j \in Int /\ 1 <= j /\ j <= 31 /\ d < g
  BY <1>1, <1>2, <1>3
<1> QED
  BY <1>1, <1>2, <1>4 DEF m, j, f, g

\* A later day is in a later month or later in the same one.
LEMMA MonthsInOrder ==
  ASSUME NEW a \in Int, NEW b \in Int, a <= b
  PROVE  MonthOf(a) <= MonthOf(b) /\ (MonthOf(a) = MonthOf(b) => DayIn(a) <= DayIn(b))
<1> DEFINE m == MonthOf(a)
           n == MonthOf(b)
           fm == FirstOf(m)
           fn == FirstOf(n)
           g == FirstOf(n + 1)
           i == DayIn(a)
           j == DayIn(b)
<1>1. /\ m \in Int /\ i \in Int /\ 1 <= i /\ a = fm + i - 1 /\ fm \in Int
      /\ n \in Int /\ j \in Int /\ b = fn + j - 1 /\ fn \in Int /\ b < g /\ g \in Int
  <2>1. m \in Int /\ i \in Int /\ 1 <= i /\ a = fm + i - 1 /\ fm \in Int
    BY DayForm
  <2>2. n \in Int /\ j \in Int /\ b = fn + j - 1 /\ fn \in Int /\ b < g /\ g \in Int
    BY DayForm
  <2> HIDE DEF m, n, i, j, fm, fn, g
  <2> QED
    BY <2>1, <2>2
<1>2. m = n => fm = fn
  OBVIOUS
<1>3. ~(n + 1 <= m)
  <2> SUFFICES ASSUME n + 1 <= m PROVE FALSE
    OBVIOUS
  <2>1. n + 1 \in Int /\ (n + 1 = m \/ n + 1 < m)
    <3> HIDE DEF n, m
    <3> QED
      BY <1>1
  <2>2. n + 1 < m => g < fm
    <3> HIDE DEF m, n
    <3> QED
      BY <1>1, <2>1, LaterMonths
  <2>3. n + 1 = m => g = fm
    OBVIOUS
  <2> HIDE DEF m, n, fm, fn, g, i, j
  <2> QED
    BY <1>1, <2>1, <2>2, <2>3
<1> HIDE DEF m, n, fm, fn, g, i, j
<1>4. m <= n /\ (m = n => i <= j)
  BY <1>1, <1>2, <1>3
<1> QED
  BY <1>4 DEF m, n, i, j

\* Days of 30-day months.
Capped(d) == IF DayIn(d) <= 30 THEN DayIn(d) ELSE 30

Counted(d) == 30 * MonthOf(d) + Capped(d)

LEMMA CountedTyped ==
  ASSUME NEW d \in Int
  PROVE  /\ MonthOf(d) \in Int /\ Capped(d) \in Int /\ 1 <= Capped(d) /\ Capped(d) <= 30
         /\ Counted(d) \in Int /\ Min({DayIn(d), 30}) = Capped(d)
<1> DEFINE j == DayIn(d)
           m == MonthOf(d)
<1>1. m \in Int /\ j \in Int /\ 1 <= j
  BY DayForm
<1> HIDE DEF j, m
<1>2. Min({j, 30}) = IF j <= 30 THEN j ELSE 30
  BY <1>1, MinOfTwo
<1>3. Capped(d) = IF j <= 30 THEN j ELSE 30
  BY DEF Capped, j
<1>4. Counted(d) = 30 * m + Capped(d)
  BY DEF Counted, m
<1>5. Capped(d) \in Int /\ 1 <= Capped(d) /\ Capped(d) <= 30 /\ Counted(d) \in Int
  BY <1>1, <1>3, <1>4
<1> QED
  BY <1>1, <1>2, <1>3, <1>5 DEF j, m

LEMMA CountedInOrder ==
  ASSUME NEW a \in Int, NEW b \in Int, a <= b
  PROVE  Counted(a) <= Counted(b) /\ (MonthOf(a) < MonthOf(b) => Counted(a) < Counted(b))
<1> DEFINE m == MonthOf(a)
           n == MonthOf(b)
           x == Capped(a)
           y == Capped(b)
<1>1. /\ m \in Int /\ x \in Int /\ 1 <= x /\ x <= 30
      /\ n \in Int /\ y \in Int /\ 1 <= y /\ y <= 30
  BY CountedTyped
<1>2. m <= n
  BY MonthsInOrder
<1>3. m = n => x <= y
  <2> DEFINE i == DayIn(a)
             j == DayIn(b)
  <2>1. i \in Int /\ j \in Int
    BY DayForm
  <2>2. m = n => i <= j
    BY MonthsInOrder
  <2>3. x = (IF i <= 30 THEN i ELSE 30) /\ y = (IF j <= 30 THEN j ELSE 30)
    BY DEF Capped
  <2> HIDE DEF i, j, m, n, x, y
  <2> QED
    BY <2>1, <2>2, <2>3
<1>4. Counted(a) = 30 * m + x /\ Counted(b) = 30 * n + y
  BY DEF Counted
<1> HIDE DEF m, n, x, y
<1>5. Counted(a) <= Counted(b) /\ (m < n => Counted(a) < Counted(b))
  BY <1>1, <1>2, <1>3, <1>4
<1> QED
  BY <1>5 DEF m, n

\* Every day count counts days in order, and some from one month to a later one.
LEMMA DaysInOrder ==
  ASSUME NEW from \in Int, NEW a \in Int, NEW b \in Int, a <= b, NEW dayCount
  PROVE  /\ DayCountDays(from, from, dayCount) = 0
         /\ DayCountDays(from, a, dayCount) \in Int /\ DayCountDays(from, b, dayCount) \in Int
         /\ DayCountDays(from, a, dayCount) <= DayCountDays(from, b, dayCount)
         /\ MonthOf(a) < MonthOf(b) => DayCountDays(a, b, dayCount) > 0
<1>1. \A c, d \in Int :
        DayCountDays(c, d, dayCount) = IF dayCount \in {"ACT_360", "ACT_365"} THEN d - c
                                       ELSE Counted(d) - Counted(c)
  <2> TAKE c \in Int, d \in Int
  <2> DEFINE m == MonthOf(c)
             n == MonthOf(d)
             x == Capped(c)
             y == Capped(d)
  <2>1. m \in Int /\ n \in Int /\ x \in Int /\ y \in Int
    BY CountedTyped
  <2>2. Counted(c) = 30 * m + x /\ Counted(d) = 30 * n + y
    BY DEF Counted
  <2>3. DayCountDays(c, d, dayCount) = IF dayCount \in {"ACT_360", "ACT_365"} THEN d - c
                                       ELSE 30 * (n - m) + y - x
    BY CountedTyped DEF DayCountDays
  <2> HIDE DEF m, n, x, y
  <2>4. 30 * (n - m) + y - x = Counted(d) - Counted(c)
    BY <2>1, <2>2
  <2> QED
    BY <2>3, <2>4
<1>2. /\ Counted(from) \in Int /\ Counted(a) \in Int /\ Counted(b) \in Int /\ Counted(a) <= Counted(b)
      /\ MonthOf(a) < MonthOf(b) => Counted(a) < Counted(b)
  BY CountedTyped, CountedInOrder
<1>3. MonthOf(a) < MonthOf(b) => a < b
  <2> SUFFICES ASSUME MonthOf(a) < MonthOf(b), ~(a < b) PROVE FALSE
    OBVIOUS
  <2>1. a = b /\ MonthOf(a) \in Int
    BY DayForm
  <2> QED
    BY <2>1
<1>4. /\ DayCountDays(from, from, dayCount) = 0
      /\ DayCountDays(from, a, dayCount) \in Int /\ DayCountDays(from, b, dayCount) \in Int
      /\ DayCountDays(from, a, dayCount) <= DayCountDays(from, b, dayCount)
  <2> DEFINE x == DayCountDays(from, from, dayCount)
             y == DayCountDays(from, a, dayCount)
             z == DayCountDays(from, b, dayCount)
             f == Counted(from)
             g == Counted(a)
             h == Counted(b)
             actual == dayCount \in {"ACT_360", "ACT_365"}
  <2>1. x = IF actual THEN from - from ELSE f - f
    BY <1>1
  <2>2. y = IF actual THEN a - from ELSE g - f
    BY <1>1
  <2>3. z = IF actual THEN b - from ELSE h - f
    BY <1>1
  <2>4. f \in Int /\ g \in Int /\ h \in Int /\ g <= h
    BY <1>2
  <2> HIDE DEF x, y, z, f, g, h, actual
  <2>5. x = 0 /\ y \in Int /\ z \in Int /\ y <= z
    BY <2>1, <2>2, <2>3, <2>4
  <2> QED
    BY <2>5 DEF x, y, z
<1>5. MonthOf(a) < MonthOf(b) => DayCountDays(a, b, dayCount) > 0
  BY <1>1, <1>2, <1>3
<1> QED
  BY <1>4, <1>5

-----------------------------------------------------------------------------
(* Coupons running, and the interest of a day.                             *)

\* A sum one element of which counts.
LEMMA SumAtOne ==
  ASSUME NEW f, NEW S, IsFiniteSet(S), NEW x \in S, f[x] \in Int, \A y \in S \ {x} : f[y] = 0
  PROVE  SumFunctionOnSet(f, S) = f[x]
<1>1. \A y \in S : f[y] \in Int
  OBVIOUS
<1>2. SumFunctionOnSet(f, S) = f[x] + SumFunctionOnSet(f, S \ {x})
  BY <1>1, SumWithout
<1>3. IsFiniteSet(S \ {x})
  BY FS_Subset
<1>4. SumFunctionOnSet(f, S \ {x}) = 0
  BY <1>3, SumOfZeros
<1> QED
  BY <1>2, <1>4

\* A sum of numbers none of which is beyond one is not beyond their count.
LEMMA SumBounded ==
  ASSUME NEW f, NEW S, IsFiniteSet(S), \A x \in S : f[x] \in -1..1
  PROVE  /\ SumFunctionOnSet(f, S) \in Int /\ Cardinality(S) \in Nat
         /\ -Cardinality(S) <= SumFunctionOnSet(f, S) /\ SumFunctionOnSet(f, S) <= Cardinality(S)
<1> DEFINE F == {T \in SUBSET S : /\ -Cardinality(T) <= SumFunctionOnSet(f, T)
                                  /\ SumFunctionOnSet(f, T) <= Cardinality(T)}
<1>1. \A x \in S : f[x] \in Int
  OBVIOUS
<1>2. \A T \in SUBSET S : IsFiniteSet(T) /\ Cardinality(T) \in Nat
  BY FS_Subset, FS_CardinalityType
<1>3. \A T \in SUBSET S : SumFunctionOnSet(f, T) \in Int
  BY <1>1, SumTyped
<1>4. ASSUME NEW T \in SUBSET S, \A x \in T : T \ {x} \in F PROVE T \in F
  <2>1. CASE T = {}
    <3>1. Cardinality(T) = 0 /\ SumFunctionOnSet(f, T) = 0
      BY <2>1, FS_EmptySet, SumOfNone
    <3> QED
      BY <3>1
  <2>2. CASE T # {}
    <3>1. PICK x \in T : TRUE
      BY <2>2
    <3>2. Cardinality(T \ {x}) = Cardinality(T) - 1
      BY <1>2, FS_RemoveElement
    <3>3. SumFunctionOnSet(f, T) = f[x] + SumFunctionOnSet(f, T \ {x})
      <4>1. IsFiniteSet(T) /\ \A y \in T : f[y] \in Int
        BY <1>1, <1>2
      <4> QED
        BY <4>1, SumWithout
    <3>4. /\ -Cardinality(T \ {x}) <= SumFunctionOnSet(f, T \ {x})
          /\ SumFunctionOnSet(f, T \ {x}) <= Cardinality(T \ {x})
      BY <1>4
    <3>5. f[x] \in -1..1 /\ SumFunctionOnSet(f, T \ {x}) \in Int /\ Cardinality(T) \in Nat
      BY <1>2, <1>3
    <3> DEFINE a == SumFunctionOnSet(f, T \ {x})
               b == SumFunctionOnSet(f, T)
               m == Cardinality(T)
               n == Cardinality(T \ {x})
               e == f[x]
    <3>6. n = m - 1 /\ b = e + a /\ -n <= a /\ a <= n /\ e \in -1..1 /\ a \in Int /\ m \in Nat
      BY <3>2, <3>3, <3>4, <3>5
    <3> HIDE DEF a, b, m, n, e
    <3>7. -m <= b /\ b <= m
      BY <3>6
    <3> QED
      BY <3>7 DEF b, m
  <2> QED
    BY <2>1, <2>2
<1>5. SUBSET S \subseteq F
  <2> HIDE DEF F
  <2> QED
    BY <1>4, AllSubsets
<1>6. S \in F
  BY <1>5
<1> QED
  BY <1>2, <1>3, <1>6

\* Division rounds down.
LEMMA RoundsDown ==
  ASSUME NEW a \in Int, NEW n \in Int, n > 0
  PROVE  a \div n \in Int /\ n * (a \div n) <= a /\ a < n * (a \div n) + n
<1>1. a \div n \in Int /\ a % n \in 0..(n - 1)
  BY Z3
<1>2. a = n * (a \div n) + (a % n)
  BY Z3
<1> DEFINE q == a \div n
           r == a % n
           w == n * q
<1>3. q \in Int /\ r \in 0..(n - 1) /\ a = w + r
  BY <1>1, <1>2
<1>4. w \in Int
  BY <1>3
<1> HIDE DEF q, r, w
<1>5. w <= a /\ a < w + n
  BY <1>3, <1>4
<1> QED
  BY <1>3, <1>5 DEF q, w

\* The interest of some days and of the days that follow them fall short of that of all
\* of them by less than two.
LEMMA InterestSplits ==
  ASSUME NEW n \in Int, n > 0, NEW v \in Int, NEW x \in Int, NEW y \in Int
  PROVE  /\ (v * y) \div n \in Int /\ (v * x) \div n \in Int /\ (v * (y - x)) \div n \in Int
         /\ (v * y) \div n - (v * x) \div n - (v * (y - x)) \div n \in 0..1
<1> DEFINE a == v * y
           b == v * x
           c == v * (y - x)
           p == a \div n
           q == b \div n
           r == c \div n
<1>1. a \in Int /\ b \in Int /\ c \in Int /\ a = b + c
  BY Z3
<1>2. p \in Int /\ n * p <= a /\ a < n * p + n
  <2> HIDE DEF a
  <2> QED
    BY <1>1, RoundsDown
<1>3. q \in Int /\ n * q <= b /\ b < n * q + n
  <2> HIDE DEF b
  <2> QED
    BY <1>1, RoundsDown
<1>4. r \in Int /\ n * r <= c /\ c < n * r + n
  <2> HIDE DEF c
  <2> QED
    BY <1>1, RoundsDown
<1> HIDE DEF a, b, c, p, q, r
<1>5. q + r < p + 1
  <2> SUFFICES ASSUME p + 1 <= q + r PROVE FALSE
    BY <1>2, <1>3, <1>4
  <2>1. n * (p + 1) <= n * (q + r)
    BY <1>2, <1>3, <1>4, Z3
  <2>2. n * (p + 1) = n * p + n /\ n * (q + r) = n * q + n * r
    BY <1>2, <1>3, <1>4, Z3
  <2>3. n * p \in Int /\ n * q \in Int /\ n * r \in Int
    BY <1>2, <1>3, <1>4
  <2> DEFINE np == n * p
             nq == n * q
             nr == n * r
  <2>4. /\ np + n <= nq + nr /\ np \in Int /\ nq \in Int /\ nr \in Int
        /\ nq <= b /\ nr <= c /\ a < np + n
    BY <1>2, <1>3, <1>4, <2>1, <2>2, <2>3
  <2> HIDE DEF np, nq, nr
  <2> QED
    BY <1>1, <2>4
<1>6. p < q + r + 2
  <2> SUFFICES ASSUME q + r + 2 <= p PROVE FALSE
    BY <1>2, <1>3, <1>4
  <2>1. n * (q + r + 2) <= n * p
    BY <1>2, <1>3, <1>4, Z3
  <2>2. n * (q + r + 2) = n * q + n * r + n + n
    BY <1>2, <1>3, <1>4, Z3
  <2>3. n * p \in Int /\ n * q \in Int /\ n * r \in Int
    BY <1>2, <1>3, <1>4
  <2> DEFINE np == n * p
             nq == n * q
             nr == n * r
  <2>4. /\ nq + nr + n + n <= np /\ np \in Int /\ nq \in Int /\ nr \in Int
        /\ np <= a /\ b < nq + n /\ c < nr + n
    BY <1>2, <1>3, <1>4, <2>1, <2>2, <2>3
  <2> HIDE DEF np, nq, nr
  <2> QED
    BY <1>1, <2>4
<1>7. p - q - r \in 0..1
  BY <1>2, <1>3, <1>4, <1>5, <1>6
<1> QED
  BY <1>2, <1>3, <1>4, <1>7 DEF p, q, r, a, b, c

\* The whole is whole.
LEMMA AllOfIt ==
  ASSUME NEW n \in Int, n > 0, NEW v \in Int
  PROVE  (v * n) \div n = v /\ (v * 0) \div n = 0
<1>1. (v * n) \div n = v
  <2> DEFINE a == v * n
             q == a \div n
  <2>1. a \in Int /\ a = n * v
    BY Z3
  <2>2. q \in Int /\ n * q <= a /\ a < n * q + n
    <3> HIDE DEF a
    <3> QED
      BY <2>1, RoundsDown
  <2> HIDE DEF a, q
  <2>3. q <= v
    <3> SUFFICES ASSUME v + 1 <= q PROVE FALSE
      BY <2>2
    <3>1. n * (v + 1) <= n * q /\ n * (v + 1) = n * v + n
      BY <2>2, Z3
    <3> DEFINE w == n * q
               u == n * v
    <3>2. u + n <= w /\ w <= a /\ a = u /\ w \in Int /\ u \in Int
      BY <2>1, <2>2, <3>1
    <3> HIDE DEF w, u
    <3> QED
      BY <3>2
  <2>4. v <= q
    <3> SUFFICES ASSUME q + 1 <= v PROVE FALSE
      BY <2>2
    <3>1. n * (q + 1) <= n * v /\ n * (q + 1) = n * q + n
      BY <2>2, Z3
    <3> DEFINE w == n * q
               u == n * v
    <3>2. w + n <= u /\ a < w + n /\ a = u /\ w \in Int /\ u \in Int
      BY <2>1, <2>2, <3>1
    <3> HIDE DEF w, u
    <3> QED
      BY <3>2
  <2>5. q = v
    BY <2>2, <2>3, <2>4
  <2> QED
    BY <2>5 DEF q, a
<1>2. (v * 0) \div n = 0
  <2>1. v * 0 = 0
    OBVIOUS
  <2>2. 0 \div n = 0
    BY Z3
  <2> QED
    BY <2>1, <2>2
<1> QED
  BY <1>1, <1>2

\* A period ends by the schedule's end, in a later month than it starts in.
LEMMA PeriodsLong ==
  ASSUME NEW schedule, IsSchedule(schedule), NEW k \in DOMAIN CouponPeriods(schedule)
  PROVE  LET period == CouponPeriods(schedule)[k] IN
         /\ period.from \in Int /\ period.to \in Int /\ schedule.end \in Int
         /\ period.from < period.to /\ period.to <= schedule.end
         /\ MonthOf(period.from) < MonthOf(period.to)
<1> DEFINE dates == ScheduleDates(schedule)
           step == FrequencyMonths[schedule.frequency]
           K == {n \in 1..12 : dates[n] <= schedule.end}
           count == Cardinality(K)
           from == CouponPeriods(schedule)[k].from
           to == CouponPeriods(schedule)[k].to
<1>1. CouponPeriods(schedule) = [n \in 1..count |-> [from |-> dates[n - 1], to |-> dates[n]]]
  BY DEF CouponPeriods
<1>2. K = 1..count
  BY DatesCounted
<1>3. k \in K /\ from = dates[k - 1] /\ to = dates[k]
  <2>1. k \in 1..count
    BY <1>1
  <2>2. CouponPeriods(schedule)[k] = [from |-> dates[k - 1], to |-> dates[k]]
    BY <1>1, <2>1
  <2>3. k \in K
    BY <1>2, <2>1, Zenon
  <2> HIDE DEF dates, K
  <2>4. from = dates[k - 1] /\ to = dates[k]
    BY <2>2
  <2> QED
    BY <2>3, <2>4
<1>4. k \in 1..12 /\ dates[k] <= schedule.end /\ k - 1 \in 0..12 /\ k \in 0..12 /\ k - 1 \in 0..k
  <2> HIDE DEF dates
  <2> QED
    BY <1>3
<1>5. /\ dates[k - 1] \in Int /\ dates[k] \in Int /\ dates[k - 1] <= dates[k] /\ schedule.end \in Int
      /\ dates[k - 1] <= schedule.end => dates[k - 1] < dates[k]
  <2>1. /\ \A n \in 0..12 : dates[n] \in Int
        /\ \A n \in 1..12 : dates[n - 1] <= schedule.end => dates[n - 1] < dates[n]
        /\ \A n \in 0..12 : \A j \in 0..n : dates[j] <= dates[n]
    BY DatesAscend
  <2>2. schedule.end \in Int
    BY DEF IsSchedule
  <2> HIDE DEF dates
  <2> QED
    BY <1>4, <2>1, <2>2
<1>6. dates[k] = IF dates[k - 1] > schedule.end THEN dates[k - 1] ELSE AddMonths(dates[k - 1], step)
  <2>1. \A n \in 1..12 : dates[n] = IF dates[n - 1] > schedule.end THEN dates[n - 1]
                                    ELSE AddMonths(dates[n - 1], step)
    BY DatesDefined
  <2> HIDE DEF dates, step
  <2> QED
    BY <1>4, <2>1
<1>7. step \in Nat \ {0}
  BY StepTyped
<1> HIDE DEF dates, step, K, from, to
<1>8. from \in Int /\ to \in Int /\ from < to /\ to <= schedule.end /\ to = AddMonths(from, step)
  BY <1>3, <1>4, <1>5, <1>6
<1>9. MonthOf(from) < MonthOf(to)
  <2> DEFINE m == MonthOf(from)
             q == m + step
             f == FirstOf(q)
             j == DayIn(from)
             n == MonthOf(to)
  <2>1. m \in Int /\ j \in Int /\ 1 <= j
    BY <1>8, DayForm
  <2>2. to = f + j - 1
    BY <1>8 DEF AddMonths
  <2>3. q \in Int /\ m < q
    <3> HIDE DEF m
    <3> QED
      BY <1>7, <2>1
  <2>4. f \in Int /\ MonthLength(q) \in 28..31
    <3> HIDE DEF q
    <3> QED
      BY <2>3, MonthLengths
  <2>5. MonthOf(f) = q
    <3> HIDE DEF q
    <3>1. 1 \in 1..MonthLength(q)
      BY <2>4
    <3>2. MonthOf(f + 1 - 1) = q
      BY <2>3, <3>1, DaysOfMonth
    <3>3. f + 1 - 1 = f
      BY <2>4
    <3> QED
      BY <3>2, <3>3
  <2> HIDE DEF f, j, m, q
  <2>6. f <= to
    BY <2>1, <2>2, <2>4
  <2>7. MonthOf(f) <= n
    BY <1>8, <2>4, <2>6, MonthsInOrder
  <2>8. n \in Int
    BY <1>8, DayForm
  <2> HIDE DEF n
  <2>9. m < n
    BY <2>1, <2>3, <2>5, <2>7, <2>8
  <2> QED
    BY <2>9 DEF m, n
<1> QED
  BY <1>5, <1>8, <1>9 DEF from, to

\* The coupons that run on a day: one at most.
RunningOn(schedule, d) ==
  {k \in DOMAIN CouponPeriods(schedule) :
     CouponPeriods(schedule)[k].from <= d /\ d < CouponPeriods(schedule)[k].to}

LEMMA OneRuns ==
  ASSUME NEW schedule, IsSchedule(schedule), NEW d \in Int
  PROVE  /\ RunningPeriods(schedule, d) = {CouponPeriods(schedule)[k] : k \in RunningOn(schedule, d)}
         /\ \A j, k \in RunningOn(schedule, d) : j = k
<1> DEFINE periods == CouponPeriods(schedule)
<1>1. /\ \A k \in DOMAIN periods : /\ periods[k].from \in Int /\ periods[k].to \in Int
                                   /\ schedule.end \in Int /\ periods[k].to <= schedule.end
  BY PeriodsLong
<1>2. RunningPeriods(schedule, d)
        = {periods[k] : k \in {n \in DOMAIN periods :
                                periods[n].from <= d /\ d < periods[n].to /\ d < schedule.end}}
  BY DEF RunningPeriods
<1>3. RunningOn(schedule, d)
        = {n \in DOMAIN periods : periods[n].from <= d /\ d < periods[n].to}
  BY DEF RunningOn
<1>4. DOMAIN periods = 1..Len(periods) /\ Len(periods) \in Nat
  BY PeriodsTyped
<1>5. \A k \in DOMAIN periods : \A j \in 1..(k - 1) : periods[j].to <= periods[k].from
  BY PeriodsInOrder DEF InOrder
<1> HIDE DEF periods
<1>6. {n \in DOMAIN periods : periods[n].from <= d /\ d < periods[n].to /\ d < schedule.end}
        = RunningOn(schedule, d)
  BY <1>1, <1>3
<1>7. ASSUME NEW j \in RunningOn(schedule, d), NEW k \in RunningOn(schedule, d), j < k
      PROVE  FALSE
  <2>1. j \in 1..(k - 1) /\ k \in DOMAIN periods /\ j \in DOMAIN periods
    BY <1>3, <1>4, <1>7
  <2>2. periods[j].to <= periods[k].from /\ periods[k].from <= d /\ d < periods[j].to
    BY <1>3, <1>5, <1>7, <2>1
  <2> QED
    BY <1>1, <2>1, <2>2
<1>8. \A j, k \in RunningOn(schedule, d) : j = k
  <2> TAKE j, k \in RunningOn(schedule, d)
  <2>1. j \in Int /\ k \in Int
    BY <1>3, <1>4
  <2> QED
    BY <1>7, <2>1
<1> QED
  BY <1>2, <1>6, <1>8 DEF periods

\* What has elapsed of a coupon by a day of its period.
LEMMA ElapsedByDay ==
  ASSUME NEW leg, IsSchedule(leg.schedule), NEW k \in DOMAIN CouponPeriods(leg.schedule),
         NEW d \in Int, CouponPeriods(leg.schedule)[k].from <= d, d <= CouponPeriods(leg.schedule)[k].to,
         NEW v \in Int
  PROVE  LET period == CouponPeriods(leg.schedule)[k]
             days(c) == DayCountDays(period.from, c, leg.dayCount)
         IN /\ days(d) \in Int /\ days(period.to) \in Int
            /\ 0 <= days(d) /\ days(d) <= days(period.to) /\ days(period.to) > 0
            /\ days(period.from) = 0
            /\ Elapsed(v, leg, period, d) = (v * days(d)) \div days(period.to)
<1> DEFINE period == CouponPeriods(leg.schedule)[k]
           from == period.from
           to == period.to
           x == DayCountDays(from, d, leg.dayCount)
           n == DayCountDays(from, to, leg.dayCount)
           z == DayCountDays(from, from, leg.dayCount)
<1>1. /\ from \in Int /\ to \in Int /\ from < to /\ MonthOf(from) < MonthOf(to)
      /\ from <= d /\ d <= to
  BY PeriodsLong
<1>2. z = 0 /\ x \in Int /\ z <= x
  <2> HIDE DEF from
  <2> QED
    BY <1>1, DaysInOrder
<1>3. n \in Int /\ x <= n
  <2> HIDE DEF from, to
  <2> QED
    BY <1>1, DaysInOrder
<1>4. n > 0
  <2> HIDE DEF from, to
  <2>1. from <= to
    BY <1>1
  <2> QED
    BY <1>1, <2>1, DaysInOrder
<1>5. Elapsed(v, leg, period, d)
        = IF n <= 0 THEN 0 ELSE (v * Max({0, Min({n, x})})) \div n
  BY DEF Elapsed
<1> HIDE DEF x, n, z, period
<1>6. Min({n, x}) = x
  <2>1. Min({n, x}) = IF n <= x THEN n ELSE x
    BY <1>2, <1>3, MinOfTwo
  <2> QED
    BY <1>2, <1>3, <2>1
<1>7. Max({0, x}) = x
  <2>1. Max({0, x}) = IF 0 >= x THEN 0 ELSE x
    BY <1>2, MaxOfTwo
  <2> QED
    BY <1>2, <2>1
<1>8. Elapsed(v, leg, period, d) = (v * x) \div n
  <2>1. ~(n <= 0)
    BY <1>3, <1>4
  <2> QED
    BY <1>5, <1>6, <1>7, <2>1, Zenon
<1>9. 0 <= x
  BY <1>2
<1> QED
  BY <1>2, <1>3, <1>4, <1>8, <1>9 DEF x, n, z, period

\* What a leg has accrued: what has elapsed of the coupon that runs.
LEMMA AccruedByDay ==
  ASSUME NEW config, NEW ctx, NEW i, IsSchedule(config.legs[i].schedule), ctx.asOf \in Int
  PROVE  LET leg == config.legs[i]
             flows == LegFlows(config.type, leg, ctx, i)
             due(k) == CouponDue(leg, flows, CouponPeriods(leg.schedule)[k])
             running == RunningOn(leg.schedule, ctx.asOf)
         IN /\ running = {} => LegAccrued(config, ctx, i) = 0
            /\ \A k \in running :
                 InValue(config, i, ctx, due(k)) \in Int =>
                   LegAccrued(config, ctx, i)
                     = Elapsed(InValue(config, i, ctx, due(k)), leg, CouponPeriods(leg.schedule)[k],
                               ctx.asOf)
<1> DEFINE leg == config.legs[i]
           flows == LegFlows(config.type, leg, ctx, i)
           periods == CouponPeriods(leg.schedule)
           due(k) == CouponDue(leg, flows, periods[k])
           running == RunningOn(leg.schedule, ctx.asOf)
           part(p) == Elapsed(InValue(config, i, ctx, CouponDue(leg, flows, p)), leg, p, ctx.asOf)
           f == [p \in RunningPeriods(leg.schedule, ctx.asOf) |-> part(p)]
<1>1. LegAccrued(config, ctx, i) = SumFunctionOnSet(f, RunningPeriods(leg.schedule, ctx.asOf))
  <2>1. LegAccrued(config, ctx, i) = SumFunction(f)
    BY DEF LegAccrued
  <2>2. SumFunction(f) = SumFunctionOnSet(f, DOMAIN f)
    <3> HIDE DEF f
    <3> QED
      BY SumOfFunction
  <2>3. DOMAIN f = RunningPeriods(leg.schedule, ctx.asOf)
    BY Zenon
  <2> QED
    BY <2>1, <2>2, <2>3
<1>2. /\ RunningPeriods(leg.schedule, ctx.asOf) = {periods[k] : k \in running}
      /\ \A j, k \in running : j = k
  <2> DEFINE s == leg.schedule
             a == ctx.asOf
  <2>1. IsSchedule(s) /\ a \in Int
    OBVIOUS
  <2> HIDE DEF s, a
  <2>2. /\ RunningPeriods(s, a) = {CouponPeriods(s)[k] : k \in RunningOn(s, a)}
        /\ \A j, k \in RunningOn(s, a) : j = k
    BY <2>1, OneRuns
  <2> QED
    BY <2>2 DEF s, a
<1>3. \A p \in RunningPeriods(leg.schedule, ctx.asOf) : f[p] = part(p)
  BY Zenon
<1>4. running = {} => LegAccrued(config, ctx, i) = 0
  <2> SUFFICES ASSUME running = {} PROVE LegAccrued(config, ctx, i) = 0
    OBVIOUS
  <2>1. RunningPeriods(leg.schedule, ctx.asOf) = {}
    BY <1>2
  <2> HIDE DEF f
  <2>2. SumFunctionOnSet(f, {}) = 0
    BY SumOfNone
  <2> QED
    BY <1>1, <2>1, <2>2
<1>5. ASSUME NEW k \in running, InValue(config, i, ctx, due(k)) \in Int
      PROVE  LegAccrued(config, ctx, i)
               = Elapsed(InValue(config, i, ctx, due(k)), leg, periods[k], ctx.asOf)
  <2> DEFINE p == periods[k]
             v == InValue(config, i, ctx, due(k))
  <2>1. RunningPeriods(leg.schedule, ctx.asOf) = {p}
    <3> HIDE DEF periods, running
    <3>1. running = {k}
      BY <1>2, <1>5
    <3> QED
      BY <1>2, <3>1
  <2>2. f[p] = Elapsed(v, leg, p, ctx.asOf)
    <3>1. p \in RunningPeriods(leg.schedule, ctx.asOf)
      BY <2>1
    <3>2. f[p] = part(p)
      BY <1>3, <3>1, Zenon
    <3> QED
      BY <3>2
  <2>3. Elapsed(v, leg, p, ctx.asOf) \in Int
    <3>1. k \in DOMAIN periods /\ p.from <= ctx.asOf /\ ctx.asOf < p.to
      BY DEF RunningOn
    <3>2. p.to \in Int /\ v \in Int
      BY <1>5, <3>1, PeriodsLong
    <3>3. ctx.asOf <= p.to
      BY <3>1, <3>2
    <3> DEFINE x == DayCountDays(p.from, ctx.asOf, leg.dayCount)
               n == DayCountDays(p.from, p.to, leg.dayCount)
    <3>4. x \in Int /\ n \in Int /\ n > 0 /\ Elapsed(v, leg, p, ctx.asOf) = (v * x) \div n
      <4> HIDE DEF v
      <4> QED
        BY <3>1, <3>2, <3>3, ElapsedByDay
    <3> HIDE DEF x, n, v, p
    <3>5. v * x \in Int
      BY <3>2, <3>4
    <3>6. (v * x) \div n \in Int
      BY <3>4, <3>5, RoundsDown
    <3> QED
      BY <3>4, <3>6
  <2> HIDE DEF f, p, v
  <2>4. SumFunctionOnSet(f, {p}) = f[p]
    BY <2>2, <2>3, SumOfOne
  <2>5. LegAccrued(config, ctx, i) = Elapsed(v, leg, p, ctx.asOf)
    BY <1>1, <2>1, <2>2, <2>4
  <2> QED
    BY <2>5 DEF p, v
<1> QED
  <2>1. \A k \in running :
          InValue(config, i, ctx, due(k)) \in Int =>
            LegAccrued(config, ctx, i)
              = Elapsed(InValue(config, i, ctx, due(k)), leg, periods[k], ctx.asOf)
    BY <1>5
  <2> QED
    BY <1>4, <2>1

-----------------------------------------------------------------------------
(* A leg of coupons: at most one a period, told from the principal.        *)

\* Periods end on different days.
LEMMA EndsApart ==
  ASSUME NEW schedule, IsSchedule(schedule)
  PROVE  \A j, k \in DOMAIN CouponPeriods(schedule) :
           CouponPeriods(schedule)[j].to = CouponPeriods(schedule)[k].to => j = k
<1> DEFINE periods == CouponPeriods(schedule)
<1>1. /\ DOMAIN periods = 1..Len(periods) /\ Len(periods) \in Nat
      /\ \A k \in DOMAIN periods : /\ periods[k].from \in Int /\ periods[k].to \in Int
                                   /\ periods[k].from < periods[k].to
  BY PeriodsTyped
<1>2. \A k \in DOMAIN periods : \A j \in 1..(k - 1) : periods[j].to <= periods[k].from
  BY PeriodsInOrder DEF InOrder
<1> HIDE DEF periods
<1>3. ASSUME NEW j \in DOMAIN periods, NEW k \in DOMAIN periods, j < k
      PROVE  periods[j].to < periods[k].to
  <2>1. j \in 1..(k - 1)
    BY <1>1, <1>3
  <2>2. periods[j].to <= periods[k].from
    BY <1>2, <2>1
  <2> QED
    BY <1>1, <2>2
<1>4. \A j, k \in DOMAIN periods : periods[j].to = periods[k].to => j = k
  <2> TAKE j, k \in DOMAIN periods
  <2>1. j \in Int /\ k \in Int /\ periods[j].to \in Int /\ periods[k].to \in Int
    BY <1>1
  <2>2. (j < k => periods[j].to < periods[k].to) /\ (k < j => periods[k].to < periods[j].to)
    BY <1>3
  <2> QED
    BY <2>1, <2>2
<1> QED
  BY <1>4 DEF periods

\* The flows of a leg that are one a period, and those of principal.
OneAPeriod(config, i, flows) ==
  LET leg == config.legs[i]
      periods == CouponPeriods(leg.schedule)
  IN /\ \A n \in DOMAIN flows :
          ~IsPrincipal(config, i, n) => \E k \in DOMAIN periods : flows[n].date = periods[k].to
     /\ \A m, n \in DOMAIN flows :
          ~IsPrincipal(config, i, m) /\ ~IsPrincipal(config, i, n) /\ flows[m].date = flows[n].date
            => m = n
     /\ \A n \in DOMAIN flows :
          IsPrincipal(config, i, n) =>
            /\ flows[n].date \in {leg.schedule.start, leg.schedule.end}
            /\ flows[n].amount \in {leg.notional * Whole, -leg.notional * Whole}

LEMMA CouponsApart ==
  ASSUME NEW config, IsConfig(config), config.type \in AccrualFamilies,
         NEW ctx, IsContext(ctx), NEW i \in DOMAIN config.legs,
         config.legs[i].legType \in {"fixed", "float"}
  PROVE  /\ AllFlows(config, ctx)[i] \in Seq(Payments)
         /\ OneAPeriod(config, i, AllFlows(config, ctx)[i])
<1> DEFINE leg == config.legs[i]
           type == config.type
           fixed == FixedFlows(leg)
           rate == ProjectedRate(leg, ctx)
           float == FloatFlows(leg, ctx, rate)
           spread == SpreadFlows(leg, ctx, i)
           flows == AllFlows(config, ctx)[i]
           periods == CouponPeriods(leg.schedule)
           pr(n) == IsPrincipal(config, i, n)
<1>1. flows = StrategyFlows(type, leg, ctx, fixed, float, spread)
  BY DEF AllFlows, LegFlows, AccrualFamilies
<1>2. IsLeg(leg) /\ type \in Families /\ IsSchedule(leg.schedule)
  BY DEF IsConfig, IsLeg
<1>3. flows \in Seq(Payments)
  <2>1. flows = LegFlows(type, leg, ctx, i)
    BY DEF AllFlows
  <2>2. LegFlows(type, leg, ctx, i) \in Seq(Payments)
    BY <1>2, LegFlowsTyped
  <2> QED
    BY <2>1, <2>2
<1>4. /\ leg.legType = "fixed" => fixed \in Seq(Payments)
      /\ leg.legType = "float" => spread \in Seq(Payments)
  <2>1. rate \in Int
    BY ProjectionTyped
  <2> QED
    BY <1>2, <2>1, CouponFlowsTyped
<1>5. OfSchedule(fixed, leg.schedule) /\ OfSchedule(float, leg.schedule) /\ OfSchedule(spread, leg.schedule)
  BY FlowsOfSchedule
<1>6. /\ DOMAIN periods = 1..Len(periods) /\ Len(periods) \in Nat
      /\ \A j, k \in DOMAIN periods : periods[j].to = periods[k].to => j = k
  <2>1. DOMAIN periods = 1..Len(periods) /\ Len(periods) \in Nat
    BY <1>2, PeriodsTyped
  <2>2. \A j, k \in DOMAIN periods : periods[j].to = periods[k].to => j = k
    BY <1>2, EndsApart
  <2> QED
    BY <2>1, <2>2
<1>7. \A n : pr(n) <=> leg.legType = "asset" \/ (type = "XCCY" /\ n <= 2)
  BY DEF IsPrincipal
<1>8. leg.legType # "asset"
  OBVIOUS
<1> HIDE DEF fixed, float, spread, flows, pr, rate
<1>9. ASSUME type # "XCCY", OfSchedule(flows, leg.schedule) \/ flows = <<>>
      PROVE  OneAPeriod(config, i, flows)
  <2>1. \A n : ~pr(n)
    BY <1>7, <1>8, <1>9
  <2>2. CASE OfSchedule(flows, leg.schedule)
    <3>1. DOMAIN flows = DOMAIN periods /\ \A n \in DOMAIN flows : flows[n].date = periods[n].to
      BY <2>2 DEF OfSchedule
    <3>2. \A m, n \in DOMAIN flows : flows[m].date = flows[n].date => m = n
      <4> HIDE DEF periods
      <4> QED
        BY <1>6, <3>1
    <3>3. \A n \in DOMAIN flows : \E k \in DOMAIN periods : flows[n].date = periods[k].to
      <4> HIDE DEF periods
      <4> QED
        BY <3>1
    <3> QED
      BY <2>1, <3>2, <3>3 DEF OneAPeriod, pr
  <2>3. CASE flows = <<>>
    <3>1. DOMAIN flows = {}
      BY <2>3
    <3> QED
      BY <3>1 DEF OneAPeriod
  <2> QED
    BY <1>9, <2>2, <2>3
<1>10. CASE type \in {"IRS", "OIS"}
  <2>1. flows = IrsFlows(leg, fixed, float)
    BY <1>1, <1>10 DEF StrategyFlows
  <2>2. OfSchedule(flows, leg.schedule)
    BY <1>5, <2>1 DEF IrsFlows
  <2> QED
    BY <1>3, <1>9, <1>10, <2>2 DEF flows
<1>11. CASE type = "BASIS"
  <2>1. flows = BasisFlows(leg, spread)
    BY <1>1, <1>11 DEF StrategyFlows
  <2>2. OfSchedule(flows, leg.schedule) \/ flows = <<>>
    BY <1>5, <2>1 DEF BasisFlows
  <2> QED
    BY <1>3, <1>9, <1>11, <2>2 DEF flows
<1>12. CASE type = "XCCY"
  <2>1. flows = XccyFlows(leg, fixed, spread)
    BY <1>1, <1>12 DEF StrategyFlows
  <2> DEFINE principal == <<[date |-> leg.schedule.start, amount |-> -leg.notional * Whole],
                            [date |-> leg.schedule.end, amount |-> leg.notional * Whole]>>
             coupons == IF leg.legType = "fixed" THEN fixed ELSE spread
  <2>2. flows = principal \o coupons
    BY <2>1 DEF XccyFlows
  <2>3. Len(principal) = 2 /\ principal \in Seq(Payments)
    BY <1>2, PrincipalTyped
  <2>4. \A n \in 1..2 : /\ principal[n].date \in {leg.schedule.start, leg.schedule.end}
                        /\ principal[n].amount \in {leg.notional * Whole, -leg.notional * Whole}
    <3>1. /\ principal[1].date = leg.schedule.start /\ principal[1].amount = -leg.notional * Whole
          /\ principal[2].date = leg.schedule.end /\ principal[2].amount = leg.notional * Whole
      OBVIOUS
    <3>2. \A n \in 1..2 : n = 1 \/ n = 2
      OBVIOUS
    <3> HIDE DEF principal
    <3> QED
      BY <3>1, <3>2
  <2>5. coupons \in Seq(Payments)
    BY <1>4
  <2>6. DOMAIN coupons = DOMAIN periods /\ \A n \in DOMAIN coupons : coupons[n].date = periods[n].to
    BY <1>5 DEF OfSchedule
  <2> HIDE DEF principal, coupons, periods
  <2>7. /\ Len(coupons) \in Nat /\ DOMAIN coupons = 1..Len(coupons)
        /\ DOMAIN flows = 1..(2 + Len(coupons))
        /\ \A n \in 1..2 : flows[n] = principal[n]
        /\ \A n \in 1..Len(coupons) : flows[2 + n] = coupons[n]
    <3>1. /\ Len(coupons) \in Nat /\ DOMAIN coupons = 1..Len(coupons)
          /\ DOMAIN (principal \o coupons) = 1..(Len(principal) + Len(coupons))
          /\ \A n \in 1..Len(principal) : (principal \o coupons)[n] = principal[n]
          /\ \A n \in 1..Len(coupons) : (principal \o coupons)[Len(principal) + n] = coupons[n]
      <4>1. principal \in Seq(Payments)
        BY <2>3
      <4> QED
        BY <2>5, <4>1, Joined
    <3> QED
      BY <2>2, <2>3, <3>1
  <2>8. \A n \in DOMAIN flows : n \in Int /\ 1 <= n /\ (pr(n) <=> n <= 2)
    BY <1>7, <1>8, <1>12, <2>7
  <2>9. ASSUME NEW n \in DOMAIN flows, ~pr(n)
        PROVE  n - 2 \in DOMAIN periods /\ flows[n].date = periods[n - 2].to
    <3>1. n - 2 \in 1..Len(coupons) /\ 2 + (n - 2) = n
      BY <2>7, <2>8, <2>9
    <3>2. flows[n] = coupons[n - 2]
      BY <2>7, <3>1
    <3> QED
      BY <2>6, <2>7, <3>1, <3>2
  <2>10. \A n \in DOMAIN flows : ~pr(n) => \E k \in DOMAIN periods : flows[n].date = periods[k].to
    BY <2>9
  <2>11. ASSUME NEW m \in DOMAIN flows, NEW n \in DOMAIN flows, ~pr(m), ~pr(n),
                flows[m].date = flows[n].date
         PROVE  m = n
    <3>1. /\ m - 2 \in DOMAIN periods /\ n - 2 \in DOMAIN periods
          /\ periods[m - 2].to = periods[n - 2].to
      BY <2>9, <2>11
    <3>2. m - 2 = n - 2
      BY <1>6, <3>1
    <3> QED
      BY <2>8, <3>2
  <2>12. ASSUME NEW n \in DOMAIN flows, pr(n)
         PROVE  /\ flows[n].date \in {leg.schedule.start, leg.schedule.end}
                /\ flows[n].amount \in {leg.notional * Whole, -leg.notional * Whole}
    <3>1. n \in 1..2
      BY <2>8, <2>12
    <3>2. flows[n] = principal[n]
      BY <2>7, <3>1
    <3> QED
      BY <2>4, <3>1, <3>2
  <2>13. OneAPeriod(config, i, flows)
    BY <2>10, <2>11, <2>12, Zenon DEF OneAPeriod, pr, periods
  <2> QED
    BY <1>3, <2>13 DEF flows
<1> QED
  BY <1>10, <1>11, <1>12 DEF AccrualFamilies

\* What a leg pays on some days.
LEMMA PaidOnTyped ==
  ASSUME NEW flows \in Seq(Payments), NEW days
  PROVE  PaidOn(flows, days) \in Evens
<1> DEFINE counted == {k \in DOMAIN flows : flows[k].date \in days}
<1>1. PaidOn(flows, days) = SumOver(flows, counted)
  BY PaidOnCounted
<1>2. counted \in SUBSET DOMAIN flows
  OBVIOUS
<1> HIDE DEF counted
<1> QED
  BY <1>1, <1>2, SumOverTyped

ArePayments(s) == s \in Seq(Payments)

LEMMA PaidOnSum ==
  ASSUME NEW flows, ArePayments(flows), NEW days,
         NEW f, f = [k \in DOMAIN flows |-> IF flows[k].date \in days THEN flows[k].amount ELSE 0]
  PROVE  /\ PaidOn(flows, days) = SumFunctionOnSet(f, DOMAIN flows)
         /\ IsFiniteSet(DOMAIN flows) /\ \A k \in DOMAIN flows : f[k] \in Int
<1>0. flows \in Seq(Payments)
  BY DEF ArePayments
<1>1. PaidOn(flows, days) = SumFunction(f)
  BY DEF PaidOn
<1>2. DOMAIN f = DOMAIN flows
  OBVIOUS
<1>3. \A k \in DOMAIN flows : f[k] \in Int
  <2> TAKE k \in DOMAIN flows
  <2>1. flows[k] \in Payments
    BY <1>0
  <2>2. flows[k].amount \in Int
    BY <2>1, EvensAreInt DEF Payments
  <2> QED
    BY <2>2
<1>4. IsFiniteSet(DOMAIN flows)
  <2>1. DOMAIN flows = 1..Len(flows) /\ Len(flows) \in Nat
    BY <1>0
  <2>2. IsFiniteSet(1..Len(flows))
    BY <2>1, FS_Interval
  <2> QED
    BY <2>1, <2>2
<1>5. SumFunction(f) = SumFunctionOnSet(f, DOMAIN flows)
  BY <1>2, SumOfFunction
<1> QED
  BY <1>1, <1>3, <1>4, <1>5

\* A leg's flows of principal, and its flows with those left empty or all others.
Principals(config, i, s) == {k \in DOMAIN s : IsPrincipal(config, i, k)}

\* The flows s, all but those of K left empty.
EmptiedBut(g, s, K) ==
  /\ g \in Seq(Payments) /\ DOMAIN g = DOMAIN s
  /\ \A k \in DOMAIN g :
       g[k].date = s[k].date /\ g[k].amount = IF k \in K THEN s[k].amount ELSE 0

LEMMA EmptiedTyped ==
  ASSUME NEW s \in Seq(Payments), NEW K,
         NEW g, g = [k \in DOMAIN s |-> IF k \in K THEN s[k] ELSE [s[k] EXCEPT !.amount = 0]]
  PROVE  EmptiedBut(g, s, K)
<1>1. ASSUME NEW k \in DOMAIN s
      PROVE  /\ g[k] \in Payments /\ g[k].date = s[k].date
             /\ g[k].amount = IF k \in K THEN s[k].amount ELSE 0
  <2>1. s[k] \in Payments /\ 0 \in Evens
    BY EvenConstants
  <2>2. g[k] = IF k \in K THEN s[k] ELSE [s[k] EXCEPT !.amount = 0]
    OBVIOUS
  <2> DEFINE f == s[k]
  <2>3. f \in Payments
    BY <2>1
  <2> HIDE DEF f
  <2>4. /\ [f EXCEPT !.amount = 0] \in Payments /\ [f EXCEPT !.amount = 0].date = f.date
        /\ [f EXCEPT !.amount = 0].amount = 0
    BY <2>1, <2>3 DEF Payments
  <2> QED
    BY <2>2, <2>3, <2>4 DEF f
<1>2. g \in Seq(Payments)
  <2>1. DOMAIN s = 1..Len(s) /\ Len(s) \in Nat
    OBVIOUS
  <2>2. g = [k \in 1..Len(s) |-> g[k]] /\ \A k \in 1..Len(s) : g[k] \in Payments
    BY <1>1, <2>1
  <2>3. g \in [1..Len(s) -> Payments]
    BY <2>2
  <2> QED
    BY <2>1, <2>3
<1>3. DOMAIN g = DOMAIN s
  OBVIOUS
<1> QED
  BY <1>1, <1>2, <1>3 DEF EmptiedBut

OnlyPrincipal(config, i, flows) == Only(config, i, flows, TRUE)

OnlyCoupons(config, i, flows) == Only(config, i, flows, FALSE)

LEMMA OnlyTyped ==
  ASSUME NEW config, NEW flows, NEW i, NEW s, s = flows[i], ArePayments(s)
  PROVE  LET a == OnlyPrincipal(config, i, flows)
             b == OnlyCoupons(config, i, flows)
             P == Principals(config, i, s)
         IN /\ a \in Seq(Payments) /\ DOMAIN a = DOMAIN s
            /\ \A k \in DOMAIN a : /\ a[k].date = s[k].date
                                   /\ a[k].amount = IF k \in P THEN s[k].amount ELSE 0
            /\ b \in Seq(Payments) /\ DOMAIN b = DOMAIN s
            /\ \A k \in DOMAIN b : /\ b[k].date = s[k].date
                                   /\ b[k].amount = IF k \in P THEN 0 ELSE s[k].amount
<1> DEFINE a == OnlyPrincipal(config, i, flows)
           b == OnlyCoupons(config, i, flows)
           P == Principals(config, i, s)
           N == DOMAIN s \ P
<1>1. a = [k \in DOMAIN s |-> IF k \in P THEN s[k] ELSE [s[k] EXCEPT !.amount = 0]]
  <2>1. \A k \in DOMAIN s : (IsPrincipal(config, i, k) = TRUE) <=> k \in P
    BY DEF Principals, IsPrincipal
  <2>2. a = [k \in DOMAIN s |-> IF IsPrincipal(config, i, k) = TRUE THEN s[k]
                               ELSE [s[k] EXCEPT !.amount = 0]]
    BY DEF Only, OnlyPrincipal, OnlyCoupons
  <2> QED
    BY <2>1, <2>2
<1>2. b = [k \in DOMAIN s |-> IF k \in N THEN s[k] ELSE [s[k] EXCEPT !.amount = 0]]
  <2>1. \A k \in DOMAIN s : (IsPrincipal(config, i, k) = FALSE) <=> k \in N
    BY DEF Principals, IsPrincipal
  <2>2. b = [k \in DOMAIN s |-> IF IsPrincipal(config, i, k) = FALSE THEN s[k]
                               ELSE [s[k] EXCEPT !.amount = 0]]
    BY DEF Only, OnlyPrincipal, OnlyCoupons
  <2> QED
    BY <2>1, <2>2
<1>3. s \in Seq(Payments)
  BY DEF ArePayments
<1> HIDE DEF a, b, P
<1>4. /\ a \in Seq(Payments) /\ DOMAIN a = DOMAIN s
      /\ \A k \in DOMAIN a : a[k].date = s[k].date /\ a[k].amount = IF k \in P THEN s[k].amount ELSE 0
  <2>1. EmptiedBut(a, s, P)
    BY <1>1, <1>3, EmptiedTyped
  <2> QED
    BY <2>1 DEF EmptiedBut
<1>5. /\ b \in Seq(Payments) /\ DOMAIN b = DOMAIN s
      /\ \A k \in DOMAIN b : b[k].date = s[k].date /\ b[k].amount = IF k \in P THEN 0 ELSE s[k].amount
  <2> HIDE DEF N
  <2>1. EmptiedBut(b, s, N)
    BY <1>2, <1>3, EmptiedTyped
  <2>2. /\ b \in Seq(Payments) /\ DOMAIN b = DOMAIN s
        /\ \A k \in DOMAIN b : b[k].date = s[k].date /\ b[k].amount = IF k \in N THEN s[k].amount ELSE 0
    BY <2>1 DEF EmptiedBut
  <2> QED
    BY <2>2 DEF N
<1> QED
  BY <1>4, <1>5 DEF a, b, P

LEMMA PaidInParts ==
  ASSUME NEW config, NEW flows, NEW i, NEW s, s = flows[i], ArePayments(s), NEW days
  PROVE  LET principal == PaidOn(OnlyPrincipal(config, i, flows), days)
             coupon == PaidOn(OnlyCoupons(config, i, flows), days)
         IN /\ PaidOn(s, days) = principal + coupon
            /\ principal \in Evens /\ coupon \in Evens
<1> DEFINE a == OnlyPrincipal(config, i, flows)
           b == OnlyCoupons(config, i, flows)
           h == [k \in DOMAIN s |-> IF s[k].date \in days THEN s[k].amount ELSE 0]
           f == [k \in DOMAIN a |-> IF a[k].date \in days THEN a[k].amount ELSE 0]
           g == [k \in DOMAIN b |-> IF b[k].date \in days THEN b[k].amount ELSE 0]
           P == Principals(config, i, s)
<1>1. s \in Seq(Payments)
  BY DEF ArePayments
<1>3. /\ a \in Seq(Payments) /\ DOMAIN a = DOMAIN s
      /\ \A k \in DOMAIN a : a[k].date = s[k].date /\ a[k].amount = IF k \in P THEN s[k].amount ELSE 0
  BY OnlyTyped
<1>4. /\ b \in Seq(Payments) /\ DOMAIN b = DOMAIN s
      /\ \A k \in DOMAIN b : b[k].date = s[k].date /\ b[k].amount = IF k \in P THEN 0 ELSE s[k].amount
  BY OnlyTyped
<1>5. /\ PaidOn(s, days) = SumFunctionOnSet(h, DOMAIN s)
      /\ IsFiniteSet(DOMAIN s) /\ \A k \in DOMAIN s : h[k] \in Int
  <2>1. h = [k \in DOMAIN s |-> IF s[k].date \in days THEN s[k].amount ELSE 0]
    OBVIOUS
  <2> HIDE DEF h
  <2> QED
    BY <2>1, PaidOnSum
<1>6. PaidOn(a, days) = SumFunctionOnSet(f, DOMAIN s) /\ \A k \in DOMAIN s : f[k] \in Int
  <2>1. ArePayments(a)
    BY <1>3 DEF ArePayments
  <2> HIDE DEF a, P
  <2>2. f = [k \in DOMAIN a |-> IF a[k].date \in days THEN a[k].amount ELSE 0]
    OBVIOUS
  <2> HIDE DEF f
  <2>3. PaidOn(a, days) = SumFunctionOnSet(f, DOMAIN a) /\ \A k \in DOMAIN a : f[k] \in Int
    BY <2>1, <2>2, PaidOnSum
  <2> QED
    BY <1>3, <2>3
<1>7. PaidOn(b, days) = SumFunctionOnSet(g, DOMAIN s) /\ \A k \in DOMAIN s : g[k] \in Int
  <2>1. ArePayments(b)
    BY <1>4 DEF ArePayments
  <2> HIDE DEF b, P
  <2>2. g = [k \in DOMAIN b |-> IF b[k].date \in days THEN b[k].amount ELSE 0]
    OBVIOUS
  <2> HIDE DEF g
  <2>3. PaidOn(b, days) = SumFunctionOnSet(g, DOMAIN b) /\ \A k \in DOMAIN b : g[k] \in Int
    BY <2>1, <2>2, PaidOnSum
  <2> QED
    BY <1>4, <2>3
<1>8. PaidOn(a, days) \in Evens /\ PaidOn(b, days) \in Evens
  <2> HIDE DEF a, b
  <2> QED
    BY <1>3, <1>4, PaidOnTyped
<1> HIDE DEF a, b, P
<1>9. ASSUME NEW k \in DOMAIN s PROVE h[k] = f[k] + g[k]
  <2>1. k \in DOMAIN a /\ k \in DOMAIN b
    BY <1>3, <1>4
  <2>2. /\ h[k] = IF s[k].date \in days THEN s[k].amount ELSE 0
        /\ f[k] = IF a[k].date \in days THEN a[k].amount ELSE 0
        /\ g[k] = IF b[k].date \in days THEN b[k].amount ELSE 0
    BY <2>1
  <2>3. h[k] \in Int /\ f[k] \in Int /\ g[k] \in Int
    BY <1>5, <1>6, <1>7
  <2> HIDE DEF h, f, g
  <2>4. a[k].date = s[k].date /\ b[k].date = s[k].date
    BY <1>3, <1>4, <2>1
  <2>5. a[k].amount = (IF k \in P THEN s[k].amount ELSE 0) /\ b[k].amount = (IF k \in P THEN 0 ELSE s[k].amount)
    BY <1>3, <1>4, <2>1
  <2> DEFINE p == s[k].date \in days
             q == k \in P
             x == s[k].amount
  <2>6. /\ h[k] = IF p THEN x ELSE 0
        /\ f[k] = IF p THEN (IF q THEN x ELSE 0) ELSE 0
        /\ g[k] = IF p THEN (IF q THEN 0 ELSE x) ELSE 0
    BY <2>2, <2>4, <2>5
  <2> HIDE DEF p, q, x
  <2> QED
    BY <2>3, <2>6
<1> HIDE DEF f, g, h
<1>10. SumFunctionOnSet(h, DOMAIN s) = SumFunctionOnSet(f, DOMAIN s) + SumFunctionOnSet(g, DOMAIN s)
  BY <1>5, <1>6, <1>7, <1>9, SumAdded
<1> QED
  BY <1>5, <1>6, <1>7, <1>8, <1>10 DEF a, b

\* The coupon paid on a day.
CouponsOn(config, i, s, d) ==
  {k \in DOMAIN s \ Principals(config, i, s) : s[k].date = d}

LEMMA CouponsOfADay ==
  ASSUME NEW config, NEW i, NEW s, OneAPeriod(config, i, s), NEW d
  PROVE  /\ \A m, n \in CouponsOn(config, i, s, d) : m = n
         /\ \A n \in CouponsOn(config, i, s, d) :
              \E k \in DOMAIN CouponPeriods(config.legs[i].schedule) :
                d = CouponPeriods(config.legs[i].schedule)[k].to
  BY DEF OneAPeriod, CouponsOn, Principals

OfLeg(s, flows, i) == s = flows[i]

LEMMA CouponPaid ==
  ASSUME NEW config, NEW flows, NEW i, NEW s, OfLeg(s, flows, i), ArePayments(s), OneAPeriod(config, i, s), NEW d
  PROVE  LET paid == PaidOn(OnlyCoupons(config, i, flows), {d})
             C == CouponsOn(config, i, s, d)
         IN /\ C = {} => paid = 0
            /\ \A n \in C : paid = s[n].amount
<1> DEFINE b == OnlyCoupons(config, i, flows)
           g == [k \in DOMAIN b |-> IF b[k].date \in {d} THEN b[k].amount ELSE 0]
           P == Principals(config, i, s)
           C == CouponsOn(config, i, s, d)
<1>1. C = {k \in DOMAIN s \ P : s[k].date = d}
  BY DEF CouponsOn
<1>3. /\ b \in Seq(Payments) /\ DOMAIN b = DOMAIN s
      /\ \A k \in DOMAIN b : b[k].date = s[k].date /\ b[k].amount = IF k \in P THEN 0 ELSE s[k].amount
  BY OnlyTyped DEF OfLeg
<1>4. /\ PaidOn(b, {d}) = SumFunctionOnSet(g, DOMAIN s) /\ IsFiniteSet(DOMAIN s)
      /\ \A k \in DOMAIN s : g[k] \in Int
  <2>1. ArePayments(b)
    BY <1>3 DEF ArePayments
  <2> HIDE DEF b, P, C
  <2>2. g = [k \in DOMAIN b |-> IF b[k].date \in {d} THEN b[k].amount ELSE 0]
    OBVIOUS
  <2> HIDE DEF g
  <2>3. /\ PaidOn(b, {d}) = SumFunctionOnSet(g, DOMAIN b) /\ IsFiniteSet(DOMAIN b)
        /\ \A k \in DOMAIN b : g[k] \in Int
    BY <2>1, <2>2, PaidOnSum
  <2> QED
    BY <1>3, <2>3
<1>5. \A m, n \in C : m = n
  BY CouponsOfADay
<1> HIDE DEF b, P, C
<1>6. \A k \in DOMAIN s : g[k] = IF k \in C THEN s[k].amount ELSE 0
  BY <1>1, <1>3
<1> HIDE DEF g
<1>7. ASSUME C = {} PROVE PaidOn(b, {d}) = 0
  <2>1. \A k \in DOMAIN s : g[k] = 0
    BY <1>6, <1>7
  <2> QED
    BY <1>4, <2>1, SumOfZeros
<1>8. ASSUME NEW n \in C PROVE PaidOn(b, {d}) = s[n].amount
  <2>1. n \in DOMAIN s /\ \A k \in DOMAIN s \ {n} : g[k] = 0
    BY <1>1, <1>5, <1>6
  <2>2. g[n] = s[n].amount /\ g[n] \in Int
    BY <1>4, <1>6, <2>1
  <2>3. SumFunctionOnSet(g, DOMAIN s) = g[n]
    BY <1>4, <2>1, <2>2, SumAtOne
  <2> QED
    BY <1>4, <2>2, <2>3
<1> QED
  BY <1>7, <1>8 DEF b, C

\* It is the coupon due at the end of the period that ends then, told from principal by
\* its amount.
LEMMA CouponIsDue ==
  ASSUME NEW config, NEW flows, NEW i \in DOMAIN config.legs, NEW s, s = flows[i], ArePayments(s),
         OneAPeriod(config, i, s), CouponsStandOut(config, flows), NEW period
  PROVE  CouponDue(config.legs[i], s, period)
           = PaidOn(OnlyCoupons(config, i, flows), {period.to})
<1> DEFINE leg == config.legs[i]
           d == period.to
           P == Principals(config, i, s)
           C == CouponsOn(config, i, s, d)
           likely(f) == /\ f.date \in {leg.schedule.start, leg.schedule.end}
                        /\ f.amount \in {leg.notional * Whole, -leg.notional * Whole}
           due == {k \in DOMAIN s : s[k].date = d /\ ~likely(s[k])}
           paid == PaidOn(OnlyCoupons(config, i, flows), {d})
<1>1. CouponDue(leg, s, period) = IF due = {} THEN 0 ELSE s[Min(due)].amount
  BY DEF CouponDue
<1>2. \A k \in P : likely(s[k])
  BY DEF OneAPeriod, Principals
<1>3. \A k \in DOMAIN s \ P : ~likely(s[k])
  BY DEF CouponsStandOut, Principals
<1>4. C = {k \in DOMAIN s \ P : s[k].date = d}
  BY DEF CouponsOn
<1>5. (C = {} => paid = 0) /\ (\A n \in C : paid = s[n].amount) /\ (\A m, n \in C : m = n)
  <2> HIDE DEF d, leg, P, likely
  <2>1. (C = {} => paid = 0) /\ (\A n \in C : paid = s[n].amount)
    <3>1. OfLeg(s, flows, i)
      BY DEF OfLeg
    <3> QED
      BY <3>1, CouponPaid
  <2>2. \A m, n \in C : m = n
    BY CouponsOfADay
  <2> QED
    BY <2>1, <2>2
<1>6. DOMAIN s \in SUBSET Int
  <2>1. s \in Seq(Payments)
    BY DEF ArePayments
  <2>2. DOMAIN s = 1..Len(s) /\ Len(s) \in Nat
    BY <2>1
  <2> QED
    BY <2>2
<1> HIDE DEF leg, P, C, likely, paid, d
<1>7. due = C
  BY <1>2, <1>3, <1>4
<1> HIDE DEF due
<1>8. CASE due = {}
  <2>1. CouponDue(leg, s, period) = paid
    BY <1>1, <1>5, <1>7, <1>8
  <2> QED
    BY <2>1 DEF leg, paid, d
<1>9. CASE due # {}
  <2>1. PICK n \in C : TRUE
    BY <1>7, <1>9
  <2>2. due = {n}
    BY <1>5, <1>7, <2>1
  <2>3. Min(due) = n
    <3>1. n \in Int
      BY <1>4, <1>6, <2>1
    <3>2. Min({n, n}) = IF n <= n THEN n ELSE n
      BY <3>1, MinOfTwo
    <3>3. {n, n} = {n}
      OBVIOUS
    <3> QED
      BY <2>2, <3>2, <3>3
  <2>4. CouponDue(leg, s, period) = paid
    BY <1>1, <1>5, <1>9, <2>1, <2>3
  <2> QED
    BY <2>4 DEF leg, paid, d
<1> QED
  BY <1>8, <1>9

-----------------------------------------------------------------------------
(* What a leg accrues and pays over a day.                                 *)

\* A coupon as it enters the value, the days of its period up to one, and all of them.
CouponValue(config, ctx, i, k) ==
  InValue(config, i, ctx, PaidOn(OnlyCoupons(config, i, AllFlows(config, ctx)),
                                 {CouponPeriods(config.legs[i].schedule)[k].to}))

DaysTo(leg, k, d) == DayCountDays(CouponPeriods(leg.schedule)[k].from, d, leg.dayCount)

DaysOfAll(leg, k) == DaysTo(leg, k, CouponPeriods(leg.schedule)[k].to)

\* What a leg of coupons pays on some day, of its coupons alone.
LEMMA CouponsTypedOn ==
  ASSUME NEW config, IsConfig(config), NEW ctx, IsContext(ctx), InValueConvertible(config, ctx),
         NEW i \in DOMAIN config.legs, NEW days
  PROVE  LET flows == AllFlows(config, ctx)
             principal == PaidOn(OnlyPrincipal(config, i, flows), days)
             coupon == PaidOn(OnlyCoupons(config, i, flows), days)
             in(x) == InValue(config, i, ctx, x)
         IN /\ PaidOn(flows[i], days) = principal + coupon
            /\ principal \in Evens /\ coupon \in Evens
            /\ in(principal) \in Int /\ in(coupon) \in Int
            /\ in(PaidOn(flows[i], days)) = in(principal) + in(coupon)
            /\ in(0) = 0
<1> DEFINE flows == AllFlows(config, ctx)
           s == flows[i]
           a == PaidOn(OnlyPrincipal(config, i, flows), days)
           b == PaidOn(OnlyCoupons(config, i, flows), days)
           in(x) == InValue(config, i, ctx, x)
<1>1. ArePayments(s)
  <2>1. IsLeg(config.legs[i]) /\ config.type \in Families
    BY DEF IsConfig
  <2>2. LegFlows(config.type, config.legs[i], ctx, i) \in Seq(Payments)
    BY <2>1, LegFlowsTyped
  <2> QED
    BY <2>2 DEF AllFlows, ArePayments
<1>2. PaidOn(s, days) = a + b /\ a \in Evens /\ b \in Evens
  <2> HIDE DEF flows
  <2> QED
    BY <1>1, PaidInParts
<1>3. in(a) \in Int /\ in(b) \in Int /\ in(a + b) = in(a) + in(b)
  <2> HIDE DEF a, b
  <2> QED
    BY <1>2, InValueLinear
<1>4. in(0) = 0
  <2>1. 0 \in Evens /\ 0 + 0 = 0
    BY EvenConstants
  <2>2. in(0) \in Int /\ in(0 + 0) = in(0) + in(0)
    BY <2>1, InValueLinear
  <2> DEFINE z == in(0)
  <2>3. z \in Int /\ z = z + z
    BY <2>1, <2>2
  <2> HIDE DEF z
  <2>4. z = 0
    BY <2>3
  <2> QED
    BY <2>4 DEF z
<1> QED
  BY <1>2, <1>3, <1>4

\* What a leg has accrued in a market: the part of the coupon that runs.
LEMMA AccruedOfCoupon ==
  ASSUME NEW config, IsConfig(config), config.type \in AccrualFamilies,
         NEW ctx, IsContext(ctx), InValueConvertible(config, ctx),
         CouponsStandOut(config, AllFlows(config, ctx)),
         NEW i \in DOMAIN config.legs, config.legs[i].legType \in {"fixed", "float"},
         NEW c, IsContext(c), SameMarket(c, ctx)
  PROVE  LET leg == config.legs[i]
             running == RunningOn(leg.schedule, c.asOf)
         IN /\ running = {} => LegAccrued(config, c, i) = 0
            /\ \A k \in running :
                 LegAccrued(config, c, i)
                   = (CouponValue(config, ctx, i, k) * DaysTo(leg, k, c.asOf)) \div DaysOfAll(leg, k)
<1> DEFINE leg == config.legs[i]
           sched == leg.schedule
           flows == AllFlows(config, ctx)
           s == flows[i]
           running == RunningOn(sched, c.asOf)
           period(k) == CouponPeriods(sched)[k]
           due(k) == CouponDue(leg, LegFlows(config.type, leg, c, i), period(k))
           paid(k) == PaidOn(OnlyCoupons(config, i, flows), {period(k).to})
<1>1. IsLeg(leg) /\ config.type \in Families /\ IsSchedule(sched) /\ c.asOf \in Int
  <2>1. IsLeg(leg) /\ config.type \in Families /\ c.asOf \in Nat
    BY DEF IsConfig, IsContext
  <2> QED
    BY <2>1 DEF IsLeg
<1>2. LegFlows(config.type, leg, c, i) = s
  <2>1. leg.legType # "asset"
    OBVIOUS
  <2>2. LegFlows(config.type, leg, c, i) = LegFlows(config.type, leg, ctx, i)
    <3> HIDE DEF leg
    <3> QED
      BY <1>1, <2>1, FlowsStay
  <2> QED
    BY <2>2 DEF AllFlows
<1>3. \A x : InValue(config, i, c, x) = InValue(config, i, ctx, x)
  BY DEF InValue, InReportingCurrency, SameMarket
<1>4. s \in Seq(Payments) /\ OneAPeriod(config, i, s)
  BY CouponsApart
<1>5. \A k : due(k) = paid(k)
  <2> TAKE k
  <2> DEFINE p == period(k)
  <2>1. ArePayments(s) /\ s = flows[i]
    BY <1>4 DEF ArePayments
  <2> HIDE DEF s, flows, p
  <2>2. CouponDue(config.legs[i], s, p) = PaidOn(OnlyCoupons(config, i, flows), {p.to})
    BY <1>4, <2>1, CouponIsDue DEF flows
  <2> QED
    BY <1>2, <2>2 DEF p
<1>6. \A k : InValue(config, i, c, due(k)) = CouponValue(config, ctx, i, k)
  BY <1>3, <1>5 DEF CouponValue
<1>7. \A k : CouponValue(config, ctx, i, k) \in Int
  <2> TAKE k
  <2> DEFINE days == {period(k).to}
  <2> HIDE DEF days
  <2>1. InValue(config, i, ctx, PaidOn(OnlyCoupons(config, i, AllFlows(config, ctx)), days)) \in Int
    BY CouponsTypedOn
  <2> QED
    BY <2>1 DEF CouponValue, days
<1>8. /\ running = {} => LegAccrued(config, c, i) = 0
      /\ \A k \in running :
           InValue(config, i, c, due(k)) \in Int =>
             LegAccrued(config, c, i) = Elapsed(InValue(config, i, c, due(k)), leg, period(k), c.asOf)
  BY <1>1, AccruedByDay
<1>9. ASSUME NEW k \in running
      PROVE  LegAccrued(config, c, i)
               = (CouponValue(config, ctx, i, k) * DaysTo(leg, k, c.asOf)) \div DaysOfAll(leg, k)
  <2> DEFINE v == CouponValue(config, ctx, i, k)
             d == c.asOf
  <2>1. LegAccrued(config, c, i) = Elapsed(v, leg, period(k), d)
    <3> HIDE DEF due, period, v
    <3>1. InValue(config, i, c, due(k)) = v /\ v \in Int
      BY <1>6, <1>7 DEF v
    <3> QED
      BY <1>8, <3>1
  <2>2. k \in DOMAIN CouponPeriods(sched) /\ period(k).from <= d /\ d < period(k).to
    BY DEF RunningOn
  <2>3. period(k).to \in Int
    BY <1>1, <2>2, PeriodsLong
  <2>4. d \in Int /\ d <= period(k).to /\ v \in Int
    BY <1>1, <1>7, <2>2, <2>3
  <2>5. Elapsed(v, leg, period(k), d)
          = (v * DayCountDays(period(k).from, d, leg.dayCount))
              \div DayCountDays(period(k).from, period(k).to, leg.dayCount)
    <3> HIDE DEF v, d, leg
    <3> QED
      BY <1>1, <2>2, <2>4, ElapsedByDay
  <2> QED
    BY <2>1, <2>5 DEF DaysTo, DaysOfAll
<1> QED
  BY <1>8, <1>9

\* Nothing has accrued of a coupon on the day it starts.
LEMMA NoneYet ==
  ASSUME NEW leg, IsSchedule(leg.schedule), NEW d \in Int, NEW v \in Int,
         NEW k \in RunningOn(leg.schedule, d), k \notin RunningOn(leg.schedule, d - 1)
  PROVE  (v * DaysTo(leg, k, d)) \div DaysOfAll(leg, k) = 0
<1> DEFINE period == CouponPeriods(leg.schedule)[k]
           from == period.from
           to == period.to
           n == DaysOfAll(leg, k)
<1>1. k \in DOMAIN CouponPeriods(leg.schedule) /\ from <= d /\ d < to /\ ~(from <= d - 1 /\ d - 1 < to)
  BY DEF RunningOn
<1>2. from \in Int /\ to \in Int
  BY <1>1, PeriodsLong
<1>3. d = from /\ d <= to
  <2> HIDE DEF from, to
  <2> QED
    BY <1>1, <1>2
<1>4. DayCountDays(from, from, leg.dayCount) = 0 /\ DayCountDays(from, to, leg.dayCount) > 0
      /\ DayCountDays(from, to, leg.dayCount) \in Int
  BY <1>1, <1>2, <1>3, ElapsedByDay
<1>5. DaysTo(leg, k, d) = 0 /\ n > 0 /\ n \in Int
  BY <1>3, <1>4 DEF DaysTo, DaysOfAll
<1> HIDE DEF n
<1>6. (v * 0) \div n = 0
  BY <1>5, AllOfIt
<1> QED
  BY <1>5, <1>6 DEF n

\* The days of a running coupon.
LEMMA DaysRunning ==
  ASSUME NEW leg, IsSchedule(leg.schedule), NEW k \in DOMAIN CouponPeriods(leg.schedule),
         NEW d \in Int, CouponPeriods(leg.schedule)[k].from <= d, d <= CouponPeriods(leg.schedule)[k].to
  PROVE  /\ DaysTo(leg, k, d) \in Int /\ DaysOfAll(leg, k) \in Int /\ DaysOfAll(leg, k) > 0
<1>1. 0 \in Int
  OBVIOUS
<1> QED
  BY <1>1, ElapsedByDay DEF DaysTo, DaysOfAll

\* A day's interest on the coupon that runs over it.
InterestOf(config, ctx, i, k) ==
  (CouponValue(config, ctx, i, k)
     * (DaysTo(config.legs[i], k, ctx.asOf + 1) - DaysTo(config.legs[i], k, ctx.asOf)))
    \div DaysOfAll(config.legs[i], k)

CouponsPaidOn(config, ctx, i, d) ==
  InValue(config, i, ctx, PaidOn(OnlyCoupons(config, i, AllFlows(config, ctx)), {d}))

\* A coupon is paid on the day its period ends, and on no other.
LEMMA PaidAtEnd ==
  ASSUME NEW config, IsConfig(config), config.type \in AccrualFamilies,
         NEW ctx, IsContext(ctx), InValueConvertible(config, ctx),
         NEW i \in DOMAIN config.legs, config.legs[i].legType \in {"fixed", "float"}, NEW d,
         \A k \in DOMAIN CouponPeriods(config.legs[i].schedule) :
           CouponPeriods(config.legs[i].schedule)[k].to # d
  PROVE  CouponsPaidOn(config, ctx, i, d) = 0
<1> DEFINE flows == AllFlows(config, ctx)
           s == flows[i]
           paid == PaidOn(OnlyCoupons(config, i, flows), {d})
<1>1. ArePayments(s) /\ OneAPeriod(config, i, s) /\ OfLeg(s, flows, i)
  BY CouponsApart DEF ArePayments, OfLeg
<1>2. CouponsOn(config, i, s, d) = {}
  <2> HIDE DEF s
  <2>1. \A n \in CouponsOn(config, i, s, d) :
          \E k \in DOMAIN CouponPeriods(config.legs[i].schedule) :
            d = CouponPeriods(config.legs[i].schedule)[k].to
    BY <1>1, CouponsOfADay
  <2> QED
    BY <2>1
<1>3. paid = 0
  <2> HIDE DEF s, flows
  <2> QED
    BY <1>1, <1>2, CouponPaid
<1>4. InValue(config, i, ctx, 0) = 0
  BY CouponsTypedOn
<1> QED
  BY <1>3, <1>4 DEF CouponsPaidOn

\* Over a day, what a leg's coupons pay and what it accrues add up to the day's interest,
\* but for what rounding down leaves out: on a day like any other, on the day a coupon is
\* paid, when there is none.
LEMMA LegOverADay ==
  ASSUME NEW config, IsConfig(config), config.type \in AccrualFamilies,
         NEW ctx, IsContext(ctx), InValueConvertible(config, ctx),
         CouponsStandOut(config, AllFlows(config, ctx)),
         NEW i \in DOMAIN config.legs, config.legs[i].legType \in {"fixed", "float"},
         NEW c, IsContext(c), SameMarket(c, ctx), c.asOf = ctx.asOf + 1
  PROVE  LET running == RunningOn(config.legs[i].schedule, ctx.asOf)
             interest == SumFunctionOnSet([k \in running |-> InterestOf(config, ctx, i, k)], running)
             before == LegAccrued(config, ctx, i)
             after == LegAccrued(config, c, i)
             paid == CouponsPaidOn(config, ctx, i, ctx.asOf + 1)
         IN /\ interest \in Int /\ before \in Int /\ after \in Int /\ paid \in Int
            /\ paid + after - before - interest \in 0..1
<1> DEFINE leg == config.legs[i]
           sched == leg.schedule
           a == ctx.asOf
           t == a + 1
           R == RunningOn(sched, a)
           T == RunningOn(sched, t)
           f == [k \in R |-> InterestOf(config, ctx, i, k)]
           interest == SumFunctionOnSet(f, R)
           before == LegAccrued(config, ctx, i)
           after == LegAccrued(config, c, i)
           paid == CouponsPaidOn(config, ctx, i, t)
           v(k) == CouponValue(config, ctx, i, k)
           periods == CouponPeriods(sched)
<1>1. IsSchedule(sched) /\ a \in Int /\ t \in Int /\ t - 1 = a
  <2>1. IsLeg(leg) /\ a \in Nat
    BY DEF IsConfig, IsContext
  <2> QED
    BY <2>1 DEF IsLeg
<1>2. \A k \in DOMAIN periods : /\ periods[k].from \in Int /\ periods[k].to \in Int
                                /\ periods[k].from < periods[k].to
  BY <1>1, PeriodsLong
<1>3. paid \in Int /\ \A k : v(k) \in Int
  <2>1. \A d : InValue(config, i, ctx, PaidOn(OnlyCoupons(config, i, AllFlows(config, ctx)), {d})) \in Int
    <3> TAKE d
    <3> DEFINE days == {d}
    <3> HIDE DEF days
    <3>1. InValue(config, i, ctx, PaidOn(OnlyCoupons(config, i, AllFlows(config, ctx)), days)) \in Int
      BY CouponsTypedOn
    <3> QED
      BY <3>1 DEF days
  <2> QED
    BY <2>1 DEF CouponsPaidOn, CouponValue
<1>4. /\ R = {} => before = 0
      /\ \A k \in R : before = (v(k) * DaysTo(leg, k, a)) \div DaysOfAll(leg, k)
  <2>1. SameMarket(ctx, ctx)
    BY DEF SameMarket
  <2> QED
    BY <2>1, AccruedOfCoupon
<1>5. /\ T = {} => after = 0
      /\ \A k \in T : after = (v(k) * DaysTo(leg, k, t)) \div DaysOfAll(leg, k)
  <2>1. LET running == RunningOn(leg.schedule, c.asOf)
        IN /\ running = {} => LegAccrued(config, c, i) = 0
           /\ \A k \in running :
                LegAccrued(config, c, i)
                  = (CouponValue(config, ctx, i, k) * DaysTo(leg, k, c.asOf)) \div DaysOfAll(leg, k)
    BY AccruedOfCoupon
  <2> QED
    BY <2>1
<1>6. /\ R = {k \in DOMAIN periods : periods[k].from <= a /\ a < periods[k].to}
      /\ T = {k \in DOMAIN periods : periods[k].from <= t /\ t < periods[k].to}
  BY DEF RunningOn
<1>7. \A j, k \in R : j = k
  <2> HIDE DEF sched, a
  <2> QED
    BY <1>1, OneRuns
<1>8. ASSUME NEW k \in T, k \notin R PROVE after = 0
  <2>1. (v(k) * DaysTo(leg, k, t)) \div DaysOfAll(leg, k) = 0
    <3>1. k \in RunningOn(leg.schedule, t) /\ k \notin RunningOn(leg.schedule, t - 1)
      BY <1>1, <1>8
    <3> DEFINE x == v(k)
    <3>2. x \in Int
      BY <1>3
    <3> HIDE DEF x, t, leg
    <3>3. (x * DaysTo(leg, k, t)) \div DaysOfAll(leg, k) = 0
      BY <1>1, <3>1, <3>2, NoneYet
    <3> QED
      BY <3>3 DEF x
  <2> QED
    BY <1>5, <2>1
<1>9. ASSUME NEW k \in DOMAIN periods, periods[k].to = t PROVE k \in R
  <2> HIDE DEF periods, R, T
  <2> QED
    BY <1>1, <1>2, <1>6, <1>9
<1>10. ASSUME R = {}
       PROVE  /\ interest \in Int /\ before \in Int /\ after \in Int
              /\ paid + after - before - interest \in 0..1
  <2>1. \A k \in DOMAIN periods : periods[k].to # t
    BY <1>9, <1>10
  <2>2. paid = 0
    BY <2>1, PaidAtEnd
  <2>3. after = 0
    BY <1>5, <1>8, <1>10
  <2>4. before = 0
    BY <1>4, <1>10
  <2>5. interest = 0
    <3> HIDE DEF f, R
    <3> QED
      BY <1>10, SumOfNone
  <2> QED
    BY <2>2, <2>3, <2>4, <2>5
<1>11. ASSUME NEW k \in R
       PROVE  /\ interest \in Int /\ before \in Int /\ after \in Int
              /\ paid + after - before - interest \in 0..1
  <2> DEFINE w == v(k)
             x == DaysTo(leg, k, a)
             y == DaysTo(leg, k, t)
             n == DaysOfAll(leg, k)
  <2>1. /\ k \in DOMAIN periods /\ periods[k].from <= a /\ a < periods[k].to
        /\ periods[k].from \in Int /\ periods[k].to \in Int
    BY <1>2, <1>6
  <2>2. x \in Int /\ n \in Int /\ n > 0
    <3>1. a \in Int /\ a <= periods[k].to
      BY <1>1, <2>1
    <3> HIDE DEF a
    <3> QED
      BY <1>1, <2>1, <3>1, DaysRunning
  <2>3. y \in Int
    <3>1. periods[k].from <= t /\ t <= periods[k].to
      BY <1>1, <2>1
    <3> HIDE DEF t
    <3> QED
      BY <1>1, <2>1, <3>1, DaysRunning
  <2>4. w \in Int
    BY <1>3
  <2>5. R = {k}
    <3> HIDE DEF R
    <3> QED
      BY <1>7, <1>11
  <2>6. f[k] = (w * (y - x)) \div n
    BY DEF InterestOf
  <2>7. before = (w * x) \div n
    BY <1>4
  <2>8. paid + after = (w * y) \div n /\ after \in Int
    <3>1. CASE periods[k].to = t
      <4>1. y = n
        BY <3>1 DEF DaysOfAll
      <4>2. paid = w
        BY <3>1 DEF CouponsPaidOn, CouponValue
      <4>3. k \notin T
        <5> HIDE DEF T, R, periods
        <5> QED
          BY <1>1, <1>6, <3>1
      <4>4. after = 0
        <5> HIDE DEF T, R
        <5>1. T = {} \/ \E j \in T : j \notin R
          BY <2>5, <4>3
        <5> QED
          BY <1>5, <1>8, <5>1
      <4> HIDE DEF w, y, n, paid, after
      <4>5. (w * n) \div n = w
        BY <2>2, <2>4, AllOfIt
      <4> QED
        BY <2>4, <4>1, <4>2, <4>4, <4>5
    <3>2. CASE periods[k].to # t
      <4>1. k \in T
        <5> HIDE DEF T, R, periods
        <5> QED
          BY <1>1, <1>6, <2>1, <3>2
      <4>2. after = (w * y) \div n
        BY <1>5, <4>1
      <4>3. \A j \in DOMAIN periods : periods[j].to # t
        <5> HIDE DEF T, R, periods
        <5> QED
          BY <1>9, <2>5, <3>2
      <4>4. paid = 0
        BY <4>3, PaidAtEnd
      <4> HIDE DEF w, y, n, paid, after
      <4>5. (w * y) \div n \in Int
        <5>1. w * y \in Int
          BY <2>3, <2>4
        <5> QED
          BY <2>2, <5>1, RoundsDown
      <4> QED
        BY <4>2, <4>4, <4>5
    <3> QED
      BY <3>1, <3>2
  <2> HIDE DEF w, x, y, n, f, R, paid, after, before
  <2>9. /\ (w * y) \div n \in Int /\ (w * x) \div n \in Int /\ (w * (y - x)) \div n \in Int
        /\ (w * y) \div n - (w * x) \div n - (w * (y - x)) \div n \in 0..1
    BY <2>2, <2>3, <2>4, InterestSplits
  <2>10. interest = (w * (y - x)) \div n
    <3>1. f[k] \in Int
      BY <2>6, <2>9
    <3>2. SumFunctionOnSet(f, {k}) = f[k]
      BY <3>1, SumOfOne
    <3> QED
      BY <2>5, <2>6, <3>2
  <2> DEFINE p == (w * y) \div n
             q == (w * x) \div n
             r == (w * (y - x)) \div n
  <2>11. /\ interest = r /\ before = q /\ paid + after = p
         /\ p \in Int /\ q \in Int /\ r \in Int /\ p - q - r \in 0..1
    BY <2>7, <2>8, <2>9, <2>10
  <2> HIDE DEF p, q, r, interest
  <2>12. paid + after - before - interest = p - q - r
    BY <1>3, <2>8, <2>11
  <2> QED
    BY <2>8, <2>11, <2>12
<1> HIDE DEF interest, before, after, paid, R
<1>12. /\ interest \in Int /\ before \in Int /\ after \in Int /\ paid \in Int
       /\ paid + after - before - interest \in 0..1
  <2>1. CASE R = {}
    BY <1>3, <1>10, <2>1
  <2>2. CASE R # {}
    <3>1. PICK k \in R : TRUE
      BY <2>2
    <3> QED
      BY <1>3, <1>11, <3>1
  <2> QED
    BY <2>1, <2>2
<1> QED
  BY <1>12 DEF interest, before, after, paid, R

-----------------------------------------------------------------------------
(* The clean price over a day.                                             *)

\* The clean price with a paid leg's interest counted back: the value less what each leg
\* has accrued, in its direction.
LEMMA FairPrice ==
  ASSUME NEW config, config.type \in AccrualFamilies, IsFiniteSet(DOMAIN config.legs),
         NEW x, Price(config, x) \in Int,
         \A i \in DOMAIN config.legs : LegAccrued(config, x, i) \in Int
  PROVE  LET paidLegs == {i \in DOMAIN config.legs : Sign(config.legs[i]) = -1}
             f == [i \in DOMAIN config.legs |-> Sign(config.legs[i]) * LegAccrued(config, x, i)]
             signed == SumFunctionOnSet(f, DOMAIN config.legs)
         IN /\ Clean(config, x) + 2 * SumFunction([i \in paidLegs |-> LegAccrued(config, x, i)])
                 = Price(config, x) - signed
            /\ signed \in Int /\ \A i \in DOMAIN config.legs : f[i] \in Int
<1> DEFINE D == DOMAIN config.legs
           paid == {i \in D : Sign(config.legs[i]) = -1}
           f == [i \in D |-> Sign(config.legs[i]) * LegAccrued(config, x, i)]
           h == [i \in D |-> LegAccrued(config, x, i)]
           p == [i \in paid |-> LegAccrued(config, x, i)]
           part == [i \in D |-> IF i \in paid THEN h[i] ELSE 0]
<1>1. \A i \in D : h[i] \in Int /\ h[i] = LegAccrued(config, x, i)
  OBVIOUS
<1>2. \A i \in D : Sign(config.legs[i]) = IF i \in paid THEN -1 ELSE 1
  BY DEF Sign
<1>3. Clean(config, x) = Price(config, x) - SumFunction(h)
  BY DEF Clean, Accrued
<1>4. SumFunction(h) = SumFunctionOnSet(h, D)
  <2>1. DOMAIN h = D
    OBVIOUS
  <2> HIDE DEF h
  <2> QED
    BY <2>1, SumOfFunction
<1>5. SumFunction(p) = SumFunctionOnSet(h, paid)
  <2>1. DOMAIN p = paid /\ \A i \in paid : p[i] = h[i]
    OBVIOUS
  <2>2. IsFiniteSet(paid)
    BY FS_Subset
  <2> HIDE DEF p, h, paid
  <2>3. SumFunctionOnSet(p, paid) = SumFunctionOnSet(h, paid)
    BY <2>1, <2>2, SumSame
  <2> QED
    BY <2>1, <2>3, SumOfFunction
<1>6. /\ \A i \in D : f[i] = Sign(config.legs[i]) * h[i]
      /\ \A i \in D : part[i] = IF i \in paid THEN h[i] ELSE 0
  OBVIOUS
<1>7. SumFunctionOnSet(part, D) = SumFunctionOnSet(h, paid)
  <2>1. paid \in SUBSET D /\ \A i \in paid : h[i] \in Int
    OBVIOUS
  <2> HIDE DEF h, paid
  <2> QED
    BY <2>1, SumOfPart
<1> HIDE DEF f, h, p, part, paid
<1>8. \A i \in D : part[i] \in Int /\ h[i] \in Int /\ f[i] = (-2) * part[i] + h[i]
  <2> TAKE i \in D
  <2> DEFINE y == h[i]
             z == part[i]
             s == Sign(config.legs[i])
             q == i \in paid
  <2>1. /\ y \in Int /\ s = (IF q THEN -1 ELSE 1) /\ z = (IF q THEN y ELSE 0) /\ f[i] = s * y
    BY <1>1, <1>2, <1>6
  <2> HIDE DEF y, z, s, q
  <2>2. z \in Int /\ y \in Int /\ s * y = (-2) * z + y
    BY <2>1
  <2> QED
    BY <2>1, <2>2 DEF y, z
<1>9. SumFunctionOnSet(f, D) = (-2) * SumFunctionOnSet(part, D) + SumFunctionOnSet(h, D)
  <2>1. -2 \in Int
    OBVIOUS
  <2> QED
    BY <1>8, <2>1, SumLinear
<1>10. SumFunctionOnSet(part, D) \in Int /\ SumFunctionOnSet(h, D) \in Int
  <2>1. SumFunctionOnSet(part, D) \in Int
    BY <1>8, SumTyped
  <2>2. SumFunctionOnSet(h, D) \in Int
    BY <1>8, SumTyped
  <2> QED
    BY <2>1, <2>2
<1>11. \A i \in D : f[i] \in Int
  BY <1>8
<1>12. /\ Clean(config, x) + 2 * SumFunction(p) = Price(config, x) - SumFunctionOnSet(f, D)
       /\ SumFunctionOnSet(f, D) \in Int
  <2> DEFINE a == SumFunctionOnSet(f, D)
             b == SumFunctionOnSet(part, D)
             e == SumFunctionOnSet(h, D)
             u == Price(config, x)
             w == Clean(config, x)
             r == SumFunction(p)
  <2>1. a = (-2) * b + e /\ w = u - e /\ r = b /\ b \in Int /\ e \in Int /\ u \in Int
    BY <1>3, <1>4, <1>5, <1>7, <1>9, <1>10
  <2> HIDE DEF a, b, e, u, w, r
  <2>2. w + 2 * r = u - a /\ a \in Int
    BY <2>1
  <2> QED
    BY <2>2 DEF w, r, u, a
<1> QED
  BY <1>11, <1>12 DEF f, p, paid

\* The same market a day on.
LEMMA Tomorrow ==
  ASSUME NEW ctx, IsContext(ctx), DOMAIN ctx = ContextFields
  PROVE  LET c == [ctx EXCEPT !.asOf = ctx.asOf + 1] IN
         SameMarket(c, ctx) /\ IsContext(c) /\ c.asOf = ctx.asOf + 1
<1> DEFINE c == [ctx EXCEPT !.asOf = ctx.asOf + 1]
<1>1. /\ c.asOf = ctx.asOf + 1 /\ c.lastPillar = ctx.lastPillar /\ SameMarket(c, ctx)
  BY DEF ContextFields, SameMarket
<1> HIDE DEF c
<1>2. IsContext(c)
  BY <1>1 DEF IsContext, SameMarket
<1> QED
  BY <1>1, <1>2 DEF c

\* Sums that agree but for one of numbers none of which is beyond one.
LEMMA SumsApart ==
  ASSUME NEW D, IsFiniteSet(D), NEW f, NEW b, NEW a, NEW m,
         \A i \in D : /\ f[i] \in Int /\ b[i] \in Int /\ a[i] \in Int /\ m[i] \in Int
                      /\ f[i] + b[i] - a[i] - m[i] \in -1..1
  PROVE  LET apart == SumFunctionOnSet(f, D) + SumFunctionOnSet(b, D)
                        - SumFunctionOnSet(a, D) - SumFunctionOnSet(m, D)
         IN /\ SumFunctionOnSet(f, D) \in Int /\ SumFunctionOnSet(b, D) \in Int
            /\ SumFunctionOnSet(a, D) \in Int /\ SumFunctionOnSet(m, D) \in Int
            /\ Cardinality(D) \in Nat /\ -Cardinality(D) <= apart /\ apart <= Cardinality(D)
<1> DEFINE e == [i \in D |-> f[i] + b[i] - a[i] - m[i]]
           fb == [i \in D |-> f[i] + b[i]]
           am == [i \in D |-> a[i] + m[i]]
<1>1. \A i \in D : /\ e[i] = f[i] + b[i] - a[i] - m[i] /\ fb[i] = f[i] + b[i] /\ am[i] = a[i] + m[i]
  OBVIOUS
<1> HIDE DEF e, fb, am
<1>2. \A i \in D : /\ f[i] \in Int /\ b[i] \in Int /\ a[i] \in Int /\ m[i] \in Int
                   /\ fb[i] \in Int /\ am[i] \in Int /\ e[i] \in Int /\ e[i] \in -1..1
                   /\ fb[i] = e[i] + am[i]
  BY <1>1
<1>3. SumFunctionOnSet(f, D) \in Int /\ SumFunctionOnSet(b, D) \in Int
  <2>1. SumFunctionOnSet(f, D) \in Int
    BY <1>2, SumTyped
  <2>2. SumFunctionOnSet(b, D) \in Int
    BY <1>2, SumTyped
  <2> QED
    BY <2>1, <2>2
<1>4. SumFunctionOnSet(a, D) \in Int /\ SumFunctionOnSet(m, D) \in Int
  <2>1. SumFunctionOnSet(a, D) \in Int
    BY <1>2, SumTyped
  <2>2. SumFunctionOnSet(m, D) \in Int
    BY <1>2, SumTyped
  <2> QED
    BY <2>1, <2>2
<1>5. SumFunctionOnSet(fb, D) = SumFunctionOnSet(f, D) + SumFunctionOnSet(b, D)
  BY <1>1, <1>2, SumAdded
<1>6. SumFunctionOnSet(am, D) = SumFunctionOnSet(a, D) + SumFunctionOnSet(m, D)
  BY <1>1, <1>2, SumAdded
<1>7. SumFunctionOnSet(fb, D) = SumFunctionOnSet(e, D) + SumFunctionOnSet(am, D)
  BY <1>2, SumAdded
<1>8. /\ SumFunctionOnSet(e, D) \in Int /\ Cardinality(D) \in Nat
      /\ -Cardinality(D) <= SumFunctionOnSet(e, D) /\ SumFunctionOnSet(e, D) <= Cardinality(D)
  BY <1>2, SumBounded
<1> DEFINE sf == SumFunctionOnSet(f, D)
           sb == SumFunctionOnSet(b, D)
           sa == SumFunctionOnSet(a, D)
           sm == SumFunctionOnSet(m, D)
           se == SumFunctionOnSet(e, D)
           n == Cardinality(D)
<1>9. sf \in Int /\ sb \in Int /\ sa \in Int /\ sm \in Int /\ sf + sb = se + (sa + sm)
  BY <1>3, <1>4, <1>5, <1>6, <1>7
<1>10. se \in Int /\ n \in Nat /\ -n <= se /\ se <= n
  BY <1>8
<1> HIDE DEF sf, sb, sa, sm, se, n
<1>11. -n <= sf + sb - sa - sm /\ sf + sb - sa - sm <= n
  BY <1>9, <1>10
<1> QED
  BY <1>9, <1>10, <1>11 DEF sf, sb, sa, sm, n

\* The coupons that run over a day are those that run on the day before it.
LEMMA RunningOver ==
  ASSUME NEW schedule, IsSchedule(schedule), NEW a \in Int
  PROVE  LET periods == CouponPeriods(schedule) IN
         {k \in DOMAIN periods : periods[k].from < a + 1 /\ a + 1 <= periods[k].to}
           = RunningOn(schedule, a)
<1> DEFINE periods == CouponPeriods(schedule)
<1>1. \A k \in DOMAIN periods : periods[k].from \in Int /\ periods[k].to \in Int
  BY PeriodsLong
<1>2. RunningOn(schedule, a) = {k \in DOMAIN periods : periods[k].from <= a /\ a < periods[k].to}
  BY DEF RunningOn
<1> HIDE DEF periods
<1>3. {k \in DOMAIN periods : periods[k].from < a + 1 /\ a + 1 <= periods[k].to}
        = {k \in DOMAIN periods : periods[k].from <= a /\ a < periods[k].to}
  BY <1>1
<1> QED
  BY <1>2, <1>3 DEF periods

\* What a leg moves the clean price by: its principal and its interest, in its direction.
LegMoves(config, ctx, i) ==
  LET running == RunningOn(config.legs[i].schedule, ctx.asOf) IN
  Sign(config.legs[i])
  * (InValue(config, i, ctx, PaidOn(OnlyPrincipal(config, i, AllFlows(config, ctx)), {ctx.asOf + 1}))
     + SumFunctionOnSet([k \in running |-> InterestOf(config, ctx, i, k)], running))

LEMMA MovesExpected ==
  ASSUME NEW config, NEW ctx, ctx.asOf \in Int, NEW i,
         IsSchedule(config.legs[1].schedule), config.legs[i].schedule = config.legs[1].schedule
  PROVE  LET flows == AllFlows(config, ctx)
             tomorrow == ctx.asOf + 1
             periods == CouponPeriods(config.legs[1].schedule)
             running == {k \in DOMAIN periods : periods[k].from < tomorrow /\ tomorrow <= periods[k].to}
             days(k, d) == DayCountDays(periods[k].from, d, config.legs[i].dayCount)
             coupon(k) == PaidOn(Only(config, i, flows, FALSE), {periods[k].to})
             interest(k) ==
               (InValue(config, i, ctx, coupon(k)) * (days(k, tomorrow) - days(k, ctx.asOf)))
                 \div days(k, periods[k].to)
         IN Sign(config.legs[i])
            * (InValue(config, i, ctx, PaidOn(Only(config, i, flows, TRUE), {tomorrow}))
               + SumFunction([k \in running |-> interest(k)]))
              = LegMoves(config, ctx, i)
<1> DEFINE flows == AllFlows(config, ctx)
           tomorrow == ctx.asOf + 1
           schedule == config.legs[1].schedule
           periods == CouponPeriods(schedule)
           running == {k \in DOMAIN periods : periods[k].from < tomorrow /\ tomorrow <= periods[k].to}
           days(k, d) == DayCountDays(periods[k].from, d, config.legs[i].dayCount)
           coupon(k) == PaidOn(Only(config, i, flows, FALSE), {periods[k].to})
           interest(k) ==
             (InValue(config, i, ctx, coupon(k)) * (days(k, tomorrow) - days(k, ctx.asOf)))
               \div days(k, periods[k].to)
           R == RunningOn(config.legs[i].schedule, ctx.asOf)
           f == [k \in running |-> interest(k)]
           g == [k \in R |-> InterestOf(config, ctx, i, k)]
<1>1. running = R
  <2> DEFINE a == ctx.asOf
  <2>1. IsSchedule(schedule) /\ a \in Int /\ config.legs[i].schedule = schedule
    OBVIOUS
  <2> HIDE DEF schedule, a
  <2> QED
    BY <2>1, RunningOver DEF a
<1>2. \A k : interest(k) = InterestOf(config, ctx, i, k)
  BY DEF InterestOf, CouponValue, DaysTo, DaysOfAll, OnlyCoupons
<1>3. f = g
  <2> HIDE DEF interest, running, R
  <2> QED
    BY <1>1, <1>2
<1>4. DOMAIN g = R
  OBVIOUS
<1>5. SumFunction(f) = SumFunctionOnSet(g, R)
  <2> HIDE DEF f, g, R
  <2> QED
    BY <1>3, <1>4, SumOfFunction
<1>6. LegMoves(config, ctx, i)
        = Sign(config.legs[i])
          * (InValue(config, i, ctx, PaidOn(Only(config, i, flows, TRUE), {tomorrow}))
             + SumFunctionOnSet(g, R))
  BY DEF LegMoves, OnlyPrincipal
<1> HIDE DEF f, g, R
<1>7. Sign(config.legs[i])
        * (InValue(config, i, ctx, PaidOn(Only(config, i, flows, TRUE), {tomorrow})) + SumFunction(f))
        = LegMoves(config, ctx, i)
  BY <1>5, <1>6, Zenon
<1> QED
  BY <1>7 DEF f

\* What the value falls by and what the legs accrue, against what they are to move by: a
\* leg at a time, less than one apart.
LEMMA LegApart ==
  ASSUME NEW config, IsConfig(config), config.type \in AccrualFamilies,
         NEW ctx, IsContext(ctx), InValueConvertible(config, ctx),
         CouponsStandOut(config, AllFlows(config, ctx)),
         NEW i \in DOMAIN config.legs, config.legs[i].legType \in {"fixed", "float"},
         NEW c, IsContext(c), SameMarket(c, ctx), c.asOf = ctx.asOf + 1
  PROVE  LET s == Sign(config.legs[i])
             falls == s * InValue(config, i, ctx, PaidOn(AllFlows(config, ctx)[i], {ctx.asOf + 1}))
             after == s * LegAccrued(config, c, i)
             before == s * LegAccrued(config, ctx, i)
             moves == LegMoves(config, ctx, i)
         IN /\ falls \in Int /\ after \in Int /\ before \in Int /\ moves \in Int
            /\ falls + after - before - moves \in -1..1
            /\ LegAccrued(config, c, i) \in Int /\ LegAccrued(config, ctx, i) \in Int
<1> DEFINE s == Sign(config.legs[i])
           t == ctx.asOf + 1
           flows == AllFlows(config, ctx)
           R == RunningOn(config.legs[i].schedule, ctx.asOf)
           a == LegAccrued(config, ctx, i)
           b == LegAccrued(config, c, i)
           p == CouponsPaidOn(config, ctx, i, t)
           q == InValue(config, i, ctx, PaidOn(OnlyPrincipal(config, i, flows), {t}))
           r == SumFunctionOnSet([k \in R |-> InterestOf(config, ctx, i, k)], R)
           all == InValue(config, i, ctx, PaidOn(flows[i], {t}))
           moves == LegMoves(config, ctx, i)
<1>1. r \in Int /\ a \in Int /\ b \in Int /\ p \in Int /\ p + b - a - r \in 0..1
  BY LegOverADay
<1>2. q \in Int /\ all = q + p
  <2> DEFINE days == {t}
  <2> HIDE DEF days
  <2>1. LET principal == PaidOn(OnlyPrincipal(config, i, flows), days)
            coupon == PaidOn(OnlyCoupons(config, i, flows), days)
        IN /\ InValue(config, i, ctx, principal) \in Int
           /\ InValue(config, i, ctx, PaidOn(flows[i], days))
                = InValue(config, i, ctx, principal) + InValue(config, i, ctx, coupon)
    BY CouponsTypedOn
  <2> QED
    BY <2>1 DEF days, CouponsPaidOn
<1>3. moves = s * (q + r)
  BY DEF LegMoves
<1>4. s = 1 \/ s = -1
  BY DEF Sign
<1> HIDE DEF s, a, b, p, q, r, all, moves
<1>5. /\ s * all \in Int /\ s * b \in Int /\ s * a \in Int /\ moves \in Int
      /\ s * all + s * b - s * a - moves \in -1..1
  <2>1. CASE s = 1
    <3>1. s * all = q + p /\ s * b = b /\ s * a = a /\ moves = q + r
      BY <1>1, <1>2, <1>3, <2>1
    <3> QED
      BY <1>1, <1>2, <3>1
  <2>2. CASE s = -1
    <3>1. s * all = -(q + p) /\ s * b = -b /\ s * a = -a /\ moves = -(q + r)
      BY <1>1, <1>2, <1>3, <2>2
    <3> QED
      BY <1>1, <1>2, <3>1
  <2> QED
    BY <1>4, <2>1, <2>2
<1> QED
  BY <1>1, <1>5 DEF s, a, b, all, moves

\* The clean price, the interest of the paid legs counted twice back.
Fair(config, x) ==
  Clean(config, x)
  + 2 * SumFunction([i \in {i \in DOMAIN config.legs : Sign(config.legs[i]) = -1} |-> LegAccrued(config, x, i)])

AllMoves(config, ctx) ==
  SumFunctionOnSet([i \in DOMAIN config.legs |-> LegMoves(config, ctx, i)], DOMAIN config.legs)

\* From one day to the next it falls by what the legs move by, up to a rounding each.
LEMMA FairMoves ==
  ASSUME NEW config, IsConfig(config), config.type \in AccrualFamilies,
         NEW ctx, IsContext(ctx), InValueConvertible(config, ctx),
         CouponsStandOut(config, AllFlows(config, ctx)),
         \A i \in DOMAIN config.legs : config.legs[i].legType \in {"fixed", "float"},
         NEW c, IsContext(c), SameMarket(c, ctx), c.asOf = ctx.asOf + 1
  PROVE  LET n == Cardinality(DOMAIN config.legs)
             apart == Fair(config, c) - Fair(config, ctx) + AllMoves(config, ctx)
         IN /\ n \in Nat /\ apart \in Int /\ -n <= apart /\ apart <= n
            /\ Fair(config, c) \in Int /\ Fair(config, ctx) \in Int /\ AllMoves(config, ctx) \in Int
<1> DEFINE D == DOMAIN config.legs
           t == ctx.asOf + 1
           flows == AllFlows(config, ctx)
           sgn(i) == Sign(config.legs[i])
           f == [i \in D |-> sgn(i) * InValue(config, i, ctx, PaidOn(flows[i], {t}))]
           b == [i \in D |-> sgn(i) * LegAccrued(config, c, i)]
           a == [i \in D |-> sgn(i) * LegAccrued(config, ctx, i)]
           m == [i \in D |-> LegMoves(config, ctx, i)]
           before == Npv(config, ctx, ctx.asOf)
           after == Npv(config, c, c.asOf)
<1>1. IsFiniteSet(D)
  BY FS_Interval DEF IsConfig
<1>2. ctx.asOf \in Int
  BY DEF IsContext
<1>3. /\ before = after + SumFunction(f) /\ before \in Int /\ after \in Int
  <2> DEFINE paid(i) == PaidOn(LegFlows(config.type, config.legs[i], ctx, i), (ctx.asOf + 1)..c.asOf)
             g == [i \in D |-> sgn(i) * InValue(config, i, ctx, paid(i))]
  <2>1. NothingPutOff(config, c, ctx)
    BY DEF NothingPutOff
  <2>2. ctx.asOf <= c.asOf
    BY <1>2
  <2>3. before = after + SumFunction(g) /\ before \in Int /\ after \in Int
    BY <2>1, <2>2, ValueFalls
  <2>4. (ctx.asOf + 1)..c.asOf = {t}
    BY <1>2
  <2>5. g = f
    <3>1. \A i \in D : paid(i) = PaidOn(flows[i], {t})
      <4> TAKE i \in D
      <4>1. flows[i] = LegFlows(config.type, config.legs[i], ctx, i)
        BY DEF AllFlows
      <4> HIDE DEF flows, t
      <4> QED
        BY <2>4, <4>1
    <3> HIDE DEF paid, flows, t
    <3> QED
      BY <3>1
  <2> HIDE DEF f, g, before, after
  <2> QED
    BY <2>3, <2>5
<1>4. SumFunction(f) = SumFunctionOnSet(f, D)
  <2>1. DOMAIN f = D
    OBVIOUS
  <2> HIDE DEF f
  <2> QED
    BY <2>1, SumOfFunction
<1>5. ASSUME NEW i \in D
      PROVE  /\ f[i] \in Int /\ b[i] \in Int /\ a[i] \in Int /\ m[i] \in Int
             /\ f[i] + b[i] - a[i] - m[i] \in -1..1
             /\ LegAccrued(config, c, i) \in Int /\ LegAccrued(config, ctx, i) \in Int
  <2>1. LET s == Sign(config.legs[i])
            falls == s * InValue(config, i, ctx, PaidOn(AllFlows(config, ctx)[i], {ctx.asOf + 1}))
            later == s * LegAccrued(config, c, i)
            earlier == s * LegAccrued(config, ctx, i)
            moves == LegMoves(config, ctx, i)
        IN /\ falls \in Int /\ later \in Int /\ earlier \in Int /\ moves \in Int
           /\ falls + later - earlier - moves \in -1..1
           /\ LegAccrued(config, c, i) \in Int /\ LegAccrued(config, ctx, i) \in Int
    BY LegApart
  <2>2. /\ f[i] = Sign(config.legs[i]) * InValue(config, i, ctx, PaidOn(AllFlows(config, ctx)[i], {ctx.asOf + 1}))
        /\ b[i] = Sign(config.legs[i]) * LegAccrued(config, c, i)
        /\ a[i] = Sign(config.legs[i]) * LegAccrued(config, ctx, i)
        /\ m[i] = LegMoves(config, ctx, i)
    OBVIOUS
  <2> HIDE DEF f, b, a, m
  <2> QED
    BY <2>1, <2>2
<1>6. Fair(config, c) = after - SumFunctionOnSet(b, D)
  <2>1. Price(config, c) = after
    BY DEF Price
  <2> HIDE DEF after
  <2>2. Price(config, c) \in Int
    BY <1>3, <2>1
  <2>3. \A i \in D : LegAccrued(config, c, i) \in Int
    BY <1>5
  <2>4. LET paidLegs == {i \in DOMAIN config.legs : Sign(config.legs[i]) = -1}
            fs == [i \in DOMAIN config.legs |-> Sign(config.legs[i]) * LegAccrued(config, c, i)]
        IN Clean(config, c) + 2 * SumFunction([i \in paidLegs |-> LegAccrued(config, c, i)])
             = Price(config, c) - SumFunctionOnSet(fs, DOMAIN config.legs)
    BY <1>1, <2>2, <2>3, FairPrice
  <2> QED
    BY <2>1, <2>4 DEF Fair
<1>7. Fair(config, ctx) = before - SumFunctionOnSet(a, D)
  <2>1. Price(config, ctx) = before
    BY DEF Price
  <2> HIDE DEF before
  <2>2. Price(config, ctx) \in Int
    BY <1>3, <2>1
  <2>3. \A i \in D : LegAccrued(config, ctx, i) \in Int
    BY <1>5
  <2>4. LET paidLegs == {i \in DOMAIN config.legs : Sign(config.legs[i]) = -1}
            fs == [i \in DOMAIN config.legs |-> Sign(config.legs[i]) * LegAccrued(config, ctx, i)]
        IN Clean(config, ctx) + 2 * SumFunction([i \in paidLegs |-> LegAccrued(config, ctx, i)])
             = Price(config, ctx) - SumFunctionOnSet(fs, DOMAIN config.legs)
    BY <1>1, <2>2, <2>3, FairPrice
  <2> QED
    BY <2>1, <2>4 DEF Fair
<1>8. AllMoves(config, ctx) = SumFunctionOnSet(m, D)
  BY DEF AllMoves
<1> HIDE DEF f, b, a, m, before, after, D
<1>9. LET apart == SumFunctionOnSet(f, D) + SumFunctionOnSet(b, D)
                     - SumFunctionOnSet(a, D) - SumFunctionOnSet(m, D)
      IN /\ SumFunctionOnSet(f, D) \in Int /\ SumFunctionOnSet(b, D) \in Int
         /\ SumFunctionOnSet(a, D) \in Int /\ SumFunctionOnSet(m, D) \in Int
         /\ Cardinality(D) \in Nat /\ -Cardinality(D) <= apart /\ apart <= Cardinality(D)
  BY <1>1, <1>5, SumsApart
<1>10. LET n == Cardinality(D)
           apart == Fair(config, c) - Fair(config, ctx) + AllMoves(config, ctx)
       IN /\ n \in Nat /\ apart \in Int /\ -n <= apart /\ apart <= n
          /\ Fair(config, c) \in Int /\ Fair(config, ctx) \in Int /\ AllMoves(config, ctx) \in Int
  <2> DEFINE n == Cardinality(D)
             sf == SumFunctionOnSet(f, D)
             sb == SumFunctionOnSet(b, D)
             sa == SumFunctionOnSet(a, D)
             sm == SumFunctionOnSet(m, D)
             fc == Fair(config, c)
             fx == Fair(config, ctx)
             am == AllMoves(config, ctx)
             x == before
             y == after
  <2>1. /\ x = y + sf /\ x \in Int /\ y \in Int /\ fc = y - sb /\ fx = x - sa /\ am = sm
        /\ sf \in Int /\ sb \in Int /\ sa \in Int /\ sm \in Int /\ n \in Nat
        /\ -n <= sf + sb - sa - sm /\ sf + sb - sa - sm <= n
    BY <1>3, <1>4, <1>6, <1>7, <1>8, <1>9
  <2> HIDE DEF n, sf, sb, sa, sm, fc, fx, am, x, y
  <2>2. /\ fc \in Int /\ fx \in Int /\ am \in Int /\ fc - fx + am \in Int
        /\ fc - fx + am = -(sf + sb - sa - sm)
    BY <2>1
  <2>3. -n <= fc - fx + am /\ fc - fx + am <= n
    BY <2>1, <2>2
  <2> QED
    BY <2>1, <2>2, <2>3 DEF n, fc, fx, am
<1> QED
  BY <1>10 DEF D

\* So the clean price of a swap moves by the day.
LEMMA CleanFollows ==
  ASSUME NEW config, IsConfig(config), config.type \in AccrualFamilies,
         DOMAIN config.legs = 1..Len(config.legs), Len(config.legs) \in Nat,
         IsSchedule(config.legs[1].schedule),
         \A i \in DOMAIN config.legs : /\ config.legs[i].legType \in {"fixed", "float"}
                                       /\ config.legs[i].schedule = config.legs[1].schedule,
         NEW ctx, IsContext(ctx), DOMAIN ctx = ContextFields, InValueConvertible(config, ctx),
         CouponsStandOut(config, AllFlows(config, ctx))
  PROVE  CleanMovesByTheDay(config, ctx, AllFlows(config, ctx))
<1> DEFINE flows == AllFlows(config, ctx)
           tomorrow == ctx.asOf + 1
           c == [ctx EXCEPT !.asOf = tomorrow]
           D == DOMAIN config.legs
           periods == CouponPeriods(config.legs[1].schedule)
           running == {k \in DOMAIN periods : periods[k].from < tomorrow /\ tomorrow <= periods[k].to}
           principal(i) == PaidOn(Only(config, i, flows, TRUE), {tomorrow})
           coupon(i, k) == PaidOn(Only(config, i, flows, FALSE), {periods[k].to})
           days(i, k, d) == DayCountDays(periods[k].from, d, config.legs[i].dayCount)
           interest(i, k) ==
             (InValue(config, i, ctx, coupon(i, k)) * (days(i, k, tomorrow) - days(i, k, ctx.asOf)))
               \div days(i, k, periods[k].to)
           moves(i) ==
             Sign(config.legs[i])
             * (InValue(config, i, ctx, principal(i)) + SumFunction([k \in running |-> interest(i, k)]))
           g == [i \in D |-> moves(i)]
           m == [i \in D |-> LegMoves(config, ctx, i)]
           n == Len(config.legs)
<1>1. SameMarket(c, ctx) /\ IsContext(c) /\ c.asOf = ctx.asOf + 1
  BY Tomorrow
<1>2. ctx.asOf \in Int
  BY DEF IsContext
<1>3. \A i \in D : moves(i) = LegMoves(config, ctx, i)
  <2> TAKE i \in D
  <2>1. config.legs[i].schedule = config.legs[1].schedule
    OBVIOUS
  <2>2. Sign(config.legs[i])
        * (InValue(config, i, ctx, principal(i)) + SumFunction([k \in running |-> interest(i, k)]))
          = LegMoves(config, ctx, i)
    BY <1>2, <2>1, MovesExpected
  <2> QED
    BY <2>2
<1>4. SumFunction(g) = AllMoves(config, ctx)
  <2>1. g = m
    <3> HIDE DEF moves
    <3> QED
      BY <1>3
  <2>2. DOMAIN m = D
    OBVIOUS
  <2>3. AllMoves(config, ctx) = SumFunctionOnSet(m, D)
    BY DEF AllMoves
  <2> HIDE DEF g, m, D
  <2> QED
    BY <2>1, <2>2, <2>3, SumOfFunction
<1>5. Cardinality(D) = n
  <2>1. D = 1..n /\ n \in Nat
    OBVIOUS
  <2> HIDE DEF D, n
  <2>2. Cardinality(1..n) = n
    <3>1. Cardinality(1..n) = IF 1 > n THEN 0 ELSE n - 1 + 1
      BY <2>1, FS_Interval
    <3> QED
      BY <2>1, <3>1
  <2> QED
    BY <2>1, <2>2
<1> HIDE DEF c
<1>6. LET k == Cardinality(DOMAIN config.legs)
          apart == Fair(config, c) - Fair(config, ctx) + AllMoves(config, ctx)
      IN /\ k \in Nat /\ apart \in Int /\ -k <= apart /\ apart <= k
         /\ Fair(config, c) \in Int /\ Fair(config, ctx) \in Int /\ AllMoves(config, ctx) \in Int
  BY <1>1, FairMoves
<1>7. Abs((Fair(config, c) - Fair(config, ctx)) - (-SumFunction(g))) <= n
  <2> DEFINE fc == Fair(config, c)
             fx == Fair(config, ctx)
             am == SumFunction(g)
             k == n
  <2>1. /\ fc \in Int /\ fx \in Int /\ am \in Int /\ k \in Nat
        /\ -k <= fc - fx + am /\ fc - fx + am <= k
    BY <1>4, <1>5, <1>6
  <2> HIDE DEF fc, fx, am, k
  <2>2. Abs((fc - fx) - (-am)) <= k
    BY <2>1 DEF Abs
  <2> QED
    BY <2>2 DEF fc, fx, am, k
<1> HIDE DEF moves
<1> QED
  BY <1>7 DEF CleanMovesByTheDay, Fair, c, moves

-----------------------------------------------------------------------------
(* What the page shows over time.                                          *)

\* The page's legs are of the sides its instrument has.
LEMMA PageLegs ==
  ASSUME NEW swap, IsSwap(swap)
  PROVE  LET page == PageConfig(swap)
             schedule == ScheduleOf(swap, PageFrequency(swap))
         IN /\ page.type = swap.swapType /\ IsSchedule(schedule)
            /\ Len(page.legs) \in Nat \ {0} /\ DOMAIN page.legs = 1..Len(page.legs)
            /\ \A i \in DOMAIN page.legs : page.legs[i].schedule = schedule
            /\ page.type \in AccrualFamilies =>
                 \A i \in DOMAIN page.legs : page.legs[i].legType \in {"fixed", "float"}
            /\ \A i \in DOMAIN page.legs : page.legs[i].legType = "asset" => page.type = "ASSET"
<1> DEFINE page == PageConfig(swap)
           schedule == ScheduleOf(swap, PageFrequency(swap))
           k == Len(swap.streams)
           legOf(i) == Side(swap.streams[i], IF i = PagePaid(swap) THEN "pay" ELSE "receive",
                            PageDayCount[swap.streams[i].dayCount], schedule)
<1>1. /\ swap.swapType \in SwapTypes /\ k \in Nat \ {0} /\ DOMAIN swap.streams = 1..k
      /\ \A i \in DOMAIN swap.streams : swap.streams[i] \in AnySides
      /\ swap.swapType \notin StreamTypes => k = 2
      /\ swap.swapType \in {"IRS", "OIS"} \cup StreamTypes =>
           \A i \in DOMAIN swap.streams : swap.streams[i] \in StreamSides
      /\ IsSchedule(schedule)
  BY SwapStreams DEF PageFrequency
<1>2. /\ page.type = swap.swapType
      /\ page.legs = [i \in 1..k |-> page.legs[i]]
      /\ \A i \in 1..k : page.legs[i] = legOf(i)
  <2>1. /\ page.type = swap.swapType /\ DOMAIN page.legs = DOMAIN swap.streams
        /\ page = PageConfigOf(swap, PagePaid(swap), PageFrequency(swap))
        /\ \A i \in DOMAIN swap.streams : page.legs[i] = legOf(i)
    BY <1>1, PageForm
  <2>2. page.legs = [i \in DOMAIN swap.streams |-> legOf(i)]
    BY <2>1 DEF PageConfigOf
  <2> HIDE DEF page, legOf
  <2> QED
    BY <1>1, <2>1, <2>2
<1> HIDE DEF k
<1>3. Len(page.legs) = k /\ DOMAIN page.legs = 1..k
  <2> DEFINE legs == page.legs
  <2>1. legs = [i \in 1..k |-> legs[i]] /\ k \in Nat
    BY <1>1, <1>2
  <2> HIDE DEF legs
  <2> QED
    BY <2>1 DEF legs
<1>4. \A i \in 1..k : page.legs[i].schedule = schedule /\ page.legs[i].legType = swap.streams[i].legType
  <2> TAKE i \in 1..k
  <2>1. swap.streams[i] \in AnySides /\ page.legs[i] = legOf(i)
    BY <1>1, <1>2
  <2>2. legOf(i).legType = swap.streams[i].legType
    BY <1>1, <2>1, SideIsLeg
  <2>3. legOf(i).schedule = schedule
    BY SideOwn
  <2> HIDE DEF legOf, page, schedule
  <2> QED
    BY <2>1, <2>2, <2>3
<1>5. swap.swapType \in AccrualFamilies => \A i \in 1..k : swap.streams[i].legType \in {"fixed", "float"}
  BY <1>1 DEF AccrualFamilies, StreamTypes, StreamSides, FixedSides, FloatSides
<1>6. swap.swapType # "ASSET" => \A i \in 1..k : swap.streams[i].legType # "asset"
  <2> SUFFICES ASSUME swap.swapType # "ASSET", NEW i \in 1..k PROVE swap.streams[i].legType # "asset"
    OBVIOUS
  <2>1. CASE swap.swapType \in {"IRS", "OIS"} \cup StreamTypes
    BY <1>1, <2>1 DEF StreamSides, FixedSides, FloatSides
  <2>2. CASE swap.swapType \in {"CCY", "FX"}
    <3>1. HasSidesOf(swap.streams, swap.swapType) /\ k = 2
      BY <1>1, <2>2 DEF IsSwap, StreamTypes
    <3>2. swap.streams[i] \in FixedSides \cup FxSides
      BY <2>2, <3>1 DEF HasSidesOf
    <3> QED
      BY <3>2 DEF FixedSides, FxSides
  <2> QED
    BY <1>1, <2>1, <2>2 DEF SwapTypes
<1> HIDE DEF page, schedule
<1> QED
  BY <1>1, <1>2, <1>3, <1>4, <1>5, <1>6 DEF page, schedule

LEMMA EndTyped ==
  ASSUME NEW swap, IsSwap(swap)
  PROVE  swap.end \in Nat
<1>1. swap.end \in Calendar
  BY DEF IsSwap
<1>2. Calendar \subseteq Nat
  BY DEF Calendar
<1> QED
  BY <1>1, <1>2

\* What it shows of a swap over time, in some market.
LEMMA SwapFollows ==
  ASSUME NEW swap, IsSwap(swap), NEW market, IsMarket(market), HasSpots(market, swap)
  PROVE  LET config == PageConfig(swap)
             ctx == PageContext(config, market)
             flows == [i \in DOMAIN config.legs |-> LegFlows(config.type, config.legs[i], ctx, i)]
         IN /\ \A to \in {market.asOf + 1, market.asOf + 40, swap.end} \ (0..market.asOf) :
                 (config.type = "ASSET" => to < market.asOf + ctx.lastPillar)
                 => FallsByPayments(config, ctx, flows, to)
            /\ NothingSooner(config, ctx, flows)
            /\ config.type \in AccrualFamilies /\ CouponsStandOut(config, flows) =>
                 CleanMovesByTheDay(config, ctx, flows)
<1> DEFINE config == PageConfig(swap)
           ctx == PageContext(config, market)
           flows == [i \in DOMAIN config.legs |-> LegFlows(config.type, config.legs[i], ctx, i)]
           schedule == ScheduleOf(swap, PageFrequency(swap))
<1>1. IsConfig(config)
  BY PageIsConfig
<1>2. IsContext(ctx)
  BY ContextsTyped
<1>3. DOMAIN ctx = ContextFields /\ ctx.asOf = market.asOf /\ ctx.fxSpots = market.fxSpots
  BY DEF PageContext, ContextFields
<1>4. /\ IsSchedule(schedule)
      /\ Len(config.legs) \in Nat \ {0} /\ DOMAIN config.legs = 1..Len(config.legs)
      /\ \A i \in DOMAIN config.legs : config.legs[i].schedule = schedule
      /\ config.type \in AccrualFamilies =>
           \A i \in DOMAIN config.legs : config.legs[i].legType \in {"fixed", "float"}
      /\ \A i \in DOMAIN config.legs : config.legs[i].legType = "asset" => config.type = "ASSET"
  BY PageLegs
<1>5. InValueConvertible(config, ctx)
  <2> HIDE DEF ctx
  <2>1. Convertible(config, ctx)
    BY <1>3, PageConvertible
  <2> QED
    BY <2>1 DEF InValueConvertible
<1>6. flows = AllFlows(config, ctx)
  BY DEF AllFlows
<1> HIDE DEF config, ctx, flows, schedule
<1>7. market.asOf \in Nat /\ swap.end \in Nat
  <2>1. swap.end \in Nat
    BY EndTyped
  <2> QED
    BY <2>1 DEF IsMarket
<1>8. ASSUME NEW to \in {market.asOf + 1, market.asOf + 40, swap.end} \ (0..market.asOf),
             config.type = "ASSET" => to < market.asOf + ctx.lastPillar
      PROVE  FallsByPayments(config, ctx, flows, to)
  <2>1. to \in Nat /\ ctx.asOf < to
    BY <1>3, <1>7
  <2>2. \A i \in DOMAIN config.legs :
          config.legs[i].legType = "asset" => to < ctx.asOf + ctx.lastPillar
    BY <1>3, <1>4, <1>8
  <2>3. FallsByPayments(config, ctx, AllFlows(config, ctx), to)
    BY <1>1, <1>2, <1>3, <1>5, <2>1, <2>2, FallsToHorizon
  <2> QED
    BY <1>6, <2>3
<1>9. NothingSooner(config, ctx, flows)
  BY <1>1, <1>2, <1>6, NextComesFirst
<1>10. ASSUME config.type \in AccrualFamilies, CouponsStandOut(config, flows)
       PROVE  CleanMovesByTheDay(config, ctx, flows)
  <2>1. /\ IsSchedule(config.legs[1].schedule)
        /\ \A i \in DOMAIN config.legs : /\ config.legs[i].legType \in {"fixed", "float"}
                                         /\ config.legs[i].schedule = config.legs[1].schedule
    <3>1. 1 \in DOMAIN config.legs
      BY <1>4
    <3>2. config.legs[1].schedule = schedule
      BY <1>4, <3>1
    <3> QED
      BY <1>4, <1>10, <3>2
  <2>2. Len(config.legs) \in Nat /\ DOMAIN config.legs = 1..Len(config.legs)
    BY <1>4
  <2>3. CouponsStandOut(config, AllFlows(config, ctx))
    BY <1>6, <1>10
  <2>4. CleanMovesByTheDay(config, ctx, AllFlows(config, ctx))
    BY <1>1, <1>2, <1>3, <1>5, <1>10, <2>1, <2>2, <2>3, CleanFollows
  <2> QED
    BY <1>6, <2>4
<1> QED
  BY <1>8, <1>9, <1>10 DEF config, ctx, flows

\* And of the swap looked at.
LEMMA FollowsInState ==
  ASSUME ValuesTypeOK PROVE ValuesFollowPayments
<1> DEFINE swap == trade.swap
           market == Market
           config == PageConfig(swap)
           ctx == PageContext(config, market)
           flows == [i \in DOMAIN config.legs |-> LegFlows(config.type, config.legs[i], ctx, i)]
<1>1. CASE trade = NoTrade
  BY <1>1 DEF ValuesFollowPayments
<1>2. CASE trade # NoTrade
  <2>1. IsSwap(swap) /\ IsMarket(market) /\ HasSpots(market, swap) /\ market.asOf = now
    BY <1>2, Seen
  <2> HIDE DEF swap, market
  <2>2. /\ \A to \in {market.asOf + 1, market.asOf + 40, swap.end} \ (0..market.asOf) :
             (config.type = "ASSET" => to < market.asOf + ctx.lastPillar)
             => FallsByPayments(config, ctx, flows, to)
        /\ NothingSooner(config, ctx, flows)
        /\ config.type \in AccrualFamilies /\ CouponsStandOut(config, flows) =>
             CleanMovesByTheDay(config, ctx, flows)
    BY <2>1, SwapFollows
  <2> QED
    BY <2>1, <2>2 DEF ValuesFollowPayments, swap, market
<1> QED
  BY <1>1, <1>2

\* What the page shows over time is what the swap pays, of every swap, in every market and
\* on every day: its theta, carry, next event and clean price (theta, carry, nextEvent,
\* accrued).
THEOREM ValuesFollow == ValuesSpec => []ValuesFollowPayments
<1>1. ValuesTypeOK => ValuesFollowPayments
  BY FollowsInState
<1> QED
  BY <1>1, ValuesTypeCorrect, PTL

=============================================================================
