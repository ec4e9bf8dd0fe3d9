----------------------------- MODULE CbpProofs -----------------------------
(***************************************************************************)
(* The predictors of Cbp, for tables of any size and branches at any PCs:  *)
(* the two-bit and the two-level predictor are tables of two-bit counters, *)
(* what the tagged predictor computes before and after the outcome of a    *)
(* branch is about the same entries, and each predictor learns a loop.     *)
(***************************************************************************)
EXTENDS Cbp, FiniteSetTheorems, TLAPS

BitVectors(n) == [1 .. n -> 0 .. 1]
Branches == [PC : PCs, dir : BOOLEAN]
ThreeBit == 0 .. 7
BaseEntries == [ctr : ThreeBit, m : BOOLEAN]
BankEntries == [ctr : ThreeBit, tag : BitVectors(TAG_BITS), u : BOOLEAN]

TracePlaced ==
    /\ next \in Predictors \union {"GetNextRecord", "GetPrediction"}
    /\ next # "GetNextRecord" => branch \in Branches
    /\ predDir \in [Predictors -> BOOLEAN]
    /\ at # 0 => loop \in Loops /\ at \in 1 .. Len(loop)

OpenendTypes ==
    /\ global_history \in Nat
    /\ X \in -1 .. LAST
    /\ base \in [BitVectors(BASE_BITS) -> BaseEntries]
    /\ banks \in [openend!Banks -> [BitVectors(INDEX_BITS) -> BankEntries]]

\* From the prediction of a branch to its outcome, the tagged predictor has
\* what it predicted from.
PredictionStands ==
    next \in Predictors =>
        /\ X = openend!FindBank(branch.PC)
        /\ predDir["openend"] = openend!Direction(branch.PC, X)

PredictionInv == TracePlaced /\ OpenendTypes /\ PredictionStands

-----------------------------------------------------------------------------
(* Induction and recursion over the naturals, with sets and functions      *)

\* A set of naturals that holds 0 and every successor of its own holds all
LEMMA Induction ==
    ASSUME NEW S \in SUBSET Nat, 0 \in S, \A n \in S : n + 1 \in S
    PROVE  \A n \in Nat : n \in S
<1>. DEFINE R == OpToRel(<, Nat)
<1>1. IsWellFoundedOn(R, Nat)
  BY NatLessThanWellFounded
<1>2. \A x, y \in Nat : y < x => <<y, x>> \in R
  BY DEF OpToRel
<1>. HIDE DEF R
<1>3. SUFFICES ASSUME NEW n \in Nat, n \notin S
               PROVE  FALSE
  OBVIOUS
<1>4. PICK x \in Nat \ S : \A y \in Nat \ S : <<y, x>> \notin R
  BY <1>1, <1>3, WFMin
<1>5. x # 0 /\ x - 1 \in Nat /\ x - 1 < x
  OBVIOUS
<1>6. x - 1 \in S
  BY <1>2, <1>4, <1>5
<1>. QED  BY <1>4, <1>5, <1>6

\* The functions that take the number and the value of a step to the next
\* value, and those that such a step makes from a first value
StepFunctions(S) == [Nat \X S -> S]
Iterates(S, a, F) == {g \in [Nat -> S] : g[0] = a /\ \A n \in Nat : g[n + 1] = F[<<n, g[n]>>]}

\* A first value and a step from each value to the next make a function
LEMMA Recursion ==
    ASSUME NEW S, NEW a \in S, NEW F \in StepFunctions(S)
    PROVE  Iterates(S, a, F) # {}
<1>. USE DEF StepFunctions
<1>. DEFINE Rec(n) == {f \in [0 .. n -> S] : f[0] = a /\ \A i \in 0 .. n - 1 : f[i + 1] = F[<<i, f[i]>>]}
<1>1. \A n \in Nat : Rec(n) # {}
  <2>. DEFINE T == {n \in Nat : Rec(n) # {}}
  <2>1. 0 \in T
    <3>1. [i \in 0 .. 0 |-> a] \in Rec(0)
      OBVIOUS
    <3>. QED  BY <3>1
  <2>2. ASSUME NEW n \in T  PROVE n + 1 \in T
    <3>1. PICK f \in Rec(n) : TRUE
      OBVIOUS
    <3>2. n \in Nat /\ n + 1 \in Nat
      OBVIOUS
    <3>. DEFINE h == [i \in 0 .. n + 1 |-> IF i = n + 1 THEN F[<<n, f[n]>>] ELSE f[i]]
    <3>3. h \in [0 .. n + 1 -> S]
      BY <3>1, <3>2
    <3>4. h[0] = a
      BY <3>1, <3>2
    <3>5. ASSUME NEW i \in 0 .. n + 1 - 1  PROVE h[i + 1] = F[<<i, h[i]>>]
      <4>1. h[i] = f[i]
        BY <3>2
      <4>2. CASE i = n
        BY <3>2, <4>1, <4>2
      <4>3. CASE i # n
        <5>1. i \in 0 .. n - 1 /\ i + 1 \in 0 .. n + 1 /\ i + 1 # n + 1
          BY <3>2, <4>3
        <5>. QED  BY <3>1, <4>1, <5>1
      <4>. QED  BY <4>2, <4>3
    <3>6. h \in Rec(n + 1)
      <4>. HIDE DEF h
      <4>. QED  BY <3>3, <3>4, <3>5
    <3>. QED  BY <3>2, <3>6
  <2>. HIDE DEF T
  <2>3. T \in SUBSET Nat
    BY DEF T
  <2>4. \A n \in Nat : n \in T
    BY <2>1, <2>2, <2>3, Induction
  <2>. QED  BY <2>4 DEF T
<1>2. \A n \in Nat : \A f \in Rec(n), h \in Rec(n + 1) : f[n] = h[n]
  <2>. DEFINE T == {n \in Nat : \A m, k \in Nat : n <= m /\ n <= k =>
                        \A f \in Rec(m), h \in Rec(k) : f[n] = h[n]}
  <2>1. 0 \in T
    OBVIOUS
  <2>2. ASSUME NEW n \in T  PROVE n + 1 \in T
    <3>1. n \in Nat
      OBVIOUS
    <3>2. ASSUME NEW m \in Nat, NEW k \in Nat, n + 1 <= m, n + 1 <= k, NEW f \in Rec(m), NEW h \in Rec(k)
          PROVE  f[n + 1] = h[n + 1]
      <4>1. n <= m /\ n <= k /\ n \in 0 .. m - 1 /\ n \in 0 .. k - 1
        BY <3>1, <3>2
      <4>2. f[n] = h[n]
        <5>. HIDE DEF Rec
        <5>. QED  BY <4>1
      <4>3. f[n + 1] = F[<<n, f[n]>>]
        BY <4>1
      <4>4. h[n + 1] = F[<<n, h[n]>>]
        BY <4>1
      <4>. QED  BY <4>2, <4>3, <4>4
    <3>. HIDE DEF Rec
    <3>. QED  BY <3>1, <3>2
  <2>3. T \in SUBSET Nat
    OBVIOUS
  <2>4. \A n \in Nat : n \in T
    <3>. HIDE DEF T
    <3>. QED  BY <2>1, <2>2, <2>3, Induction
  <2>5. ASSUME NEW n \in Nat, NEW f \in Rec(n), NEW h \in Rec(n + 1)
        PROVE  f[n] = h[n]
    <3>. HIDE DEF Rec
    <3>1. n \in T
      <4>. HIDE DEF T
      <4>. QED  BY <2>4
    <3>. QED  BY <3>1
  <2>. QED  BY <2>5
<1>. DEFINE chosen == [n \in Nat |-> CHOOSE f \in Rec(n) : TRUE]
            g == [n \in Nat |-> chosen[n][n]]
<1>3. \A n \in Nat : chosen[n] \in Rec(n)
  <2>. HIDE DEF Rec
  <2>. QED  BY <1>1
<1>. HIDE DEF chosen
<1>4. g \in [Nat -> S]
  <2>1. ASSUME NEW n \in Nat  PROVE chosen[n][n] \in S
    <3>1. chosen[n] \in [0 .. n -> S] /\ n \in 0 .. n
      BY <1>3
    <3>. QED  BY <3>1
  <2>. QED  BY <2>1
<1>5. g[0] = a
  BY <1>3
<1>6. ASSUME NEW n \in Nat  PROVE g[n + 1] = F[<<n, g[n]>>]
  <2>1. n + 1 \in Nat /\ chosen[n] \in Rec(n) /\ chosen[n + 1] \in Rec(n + 1)
    BY <1>3
  <2>2. chosen[n + 1][n + 1] = F[<<n, chosen[n + 1][n]>>]
    <3>1. n \in 0 .. n + 1 - 1
      OBVIOUS
    <3>. QED  BY <2>1, <3>1
  <2>3. chosen[n][n] = chosen[n + 1][n]
    <3>. HIDE DEF Rec
    <3>. QED  BY <1>2, <2>1
  <2>. QED  BY <2>1, <2>2, <2>3
<1>. QED  BY <1>4, <1>5, <1>6 DEF Iterates

\* Powers of two exist and double
LEMMA PowersExist ==
    \E p \in [Nat -> Nat] : p = [n \in Nat |-> IF n = 0 THEN 1 ELSE 2 * p[n - 1]]
<1>. DEFINE F == [x \in Nat \X Nat |-> 2 * x[2]]
<1>1. F \in StepFunctions(Nat)
  BY DEF StepFunctions
<1>2. \A n, v \in Nat : F[<<n, v>>] = 2 * v
  OBVIOUS
<1>. HIDE DEF F
<1>3. PICK p \in Iterates(Nat, 1, F) : TRUE
  BY <1>1, Recursion
<1>4. ASSUME NEW n \in Nat  PROVE p[n] = IF n = 0 THEN 1 ELSE 2 * p[n - 1]
  <2>1. CASE n = 0
    BY <1>3, <2>1 DEF Iterates
  <2>2. CASE n # 0
    <3>1. n - 1 \in Nat /\ (n - 1) + 1 = n
      BY <2>2
    <3>2. p[n] = F[<<n - 1, p[n - 1]>>]
      BY <1>3, <3>1 DEF Iterates
    <3>3. p[n - 1] \in Nat
      BY <1>3, <3>1 DEF Iterates
    <3>. QED  BY <1>2, <2>2, <3>1, <3>2, <3>3
  <2>. QED  BY <2>1, <2>2
<1>5. p = [n \in Nat |-> IF n = 0 THEN 1 ELSE 2 * p[n - 1]]
  <2>1. p = [n \in Nat |-> p[n]]
    BY <1>3 DEF Iterates
  <2>. QED  BY <1>4, <2>1
<1>. QED  BY <1>3, <1>5 DEF Iterates

LEMMA PowersOfTwo ==
    /\ twolevel!Pow2 \in [Nat -> Nat \ {0}]
    /\ twolevel!Pow2[0] = 1
    /\ \A n \in Nat : twolevel!Pow2[n + 1] = 2 * twolevel!Pow2[n]
    /\ openend!Pow2 = twolevel!Pow2
<1>. DEFINE p == twolevel!Pow2
<1>1. p = [n \in Nat |-> IF n = 0 THEN 1 ELSE 2 * p[n - 1]]
  BY PowersExist DEF twolevel!Pow2
<1>2. openend!Pow2 = p
  BY DEF twolevel!Pow2, openend!Pow2
<1>. HIDE DEF p
<1>3. p[0] = 1
  BY <1>1
<1>4. ASSUME NEW n \in Nat  PROVE p[n + 1] = 2 * p[n]
  <2>1. n + 1 \in Nat /\ n + 1 # 0 /\ n + 1 - 1 = n
    OBVIOUS
  <2>. QED  BY <1>1, <2>1
<1>. DEFINE T == {n \in Nat : p[n] \in Nat \ {0}}
<1>5. 0 \in T
  BY <1>3
<1>6. ASSUME NEW n \in T  PROVE n + 1 \in T
  BY <1>4
<1>7. \A n \in Nat : n \in T
  <2>1. T \in SUBSET Nat
    OBVIOUS
  <2>. HIDE DEF T
  <2>. QED  BY <1>5, <1>6, <2>1, Induction
<1>8. p \in [Nat -> Nat \ {0}]
  BY <1>1, <1>7
<1>. QED  BY <1>2, <1>3, <1>4, <1>8 DEF p

-----------------------------------------------------------------------------
(* The hash functions of the tagged predictor                              *)

LEMMA Quotient ==
    ASSUME NEW x \in Nat, NEW d \in Nat \ {0}
    PROVE  x \div d \in Nat /\ x % d \in 0 .. d - 1
OBVIOUS

LEMMA BitsType ==
    ASSUME NEW x \in Nat, NEW n \in Nat
    PROVE  openend!Bits(x, n) \in BitVectors(n)
<1>1. ASSUME NEW i \in 1 .. n  PROVE (x \div openend!Pow2[i - 1]) % 2 \in 0 .. 1
  <2>1. i - 1 \in Nat
    OBVIOUS
  <2>2. openend!Pow2[i - 1] \in Nat \ {0}
    BY <2>1, PowersOfTwo
  <2>3. x \div openend!Pow2[i - 1] \in Nat
    BY <2>2, Quotient
  <2>4. \A y \in Nat : y % 2 \in 0 .. 1
    OBVIOUS
  <2>. QED  BY <2>3, <2>4
<1>. QED  BY <1>1 DEF openend!Bits, BitVectors

LEMMA XorType ==
    ASSUME NEW n \in Nat, NEW a \in BitVectors(n), NEW b \in BitVectors(n)
    PROVE  openend!Xor(a, b) \in BitVectors(n)
BY DEF openend!Xor, BitVectors

LEMMA FieldType ==
    ASSUME NEW x \in Nat, NEW lo \in Nat, NEW n \in Nat, NEW shift \in Nat
    PROVE  openend!Field(x, lo, n, shift) \in Nat
<1>. DEFINE p == openend!Pow2[lo]
            q == openend!Pow2[n]
            r == openend!Pow2[shift]
<1>1. p \in Nat \ {0} /\ q \in Nat \ {0} /\ r \in Nat \ {0}
  BY PowersOfTwo
<1>. HIDE DEF p, q, r
<1>2. (x \div p) % q \in Nat
  BY <1>1, Quotient
<1>3. ((x \div p) % q) * p \in Nat
  BY <1>1, <1>2
<1>4. (((x \div p) % q) * p) \div r \in Nat
  BY <1>1, <1>3, Quotient
<1>5. \A y \in Nat : y % q \in Nat
  BY <1>1, Quotient
<1>6. ((((x \div p) % q) * p) \div r) % q \in Nat
  BY <1>4, <1>5
<1>. QED  BY <1>6 DEF openend!Field, p, q, r

LEMMA TagType ==
    ASSUME OpenendTypes, NEW PC \in PCs
    PROVE  openend!get_tag(PC) \in BitVectors(TAG_BITS)
<1>1. TAG_BITS \in Nat /\ PC \in Nat /\ global_history \in Nat
  BY CbpAssumption DEF OpenendTypes
<1>2. ASSUME NEW k \in Nat, NEW shift \in Nat  PROVE openend!HistoryTag(k, shift) \in BitVectors(TAG_BITS)
  <2>1. k * TAG_BITS \in Nat /\ shift * TAG_BITS \in Nat
    BY <1>1
  <2>. QED  BY <1>1, <2>1, FieldType, BitsType DEF openend!HistoryTag
<1>3. openend!Bits(PC, TAG_BITS) \in BitVectors(TAG_BITS)
  BY <1>1, BitsType
<1>. QED  BY <1>1, <1>2, <1>3, XorType DEF openend!get_tag

LEMMA BaseIndexType ==
    ASSUME NEW PC \in PCs
    PROVE  openend!base_index(PC) \in BitVectors(BASE_BITS)
BY CbpAssumption, BitsType DEF openend!base_index

LEMMA PartType ==
    ASSUME NEW x \in Nat, NEW k \in Nat
    PROVE  openend!Bits(x \div openend!Pow2[k * INDEX_BITS], INDEX_BITS) \in BitVectors(INDEX_BITS)
<1>1. INDEX_BITS \in Nat /\ k * INDEX_BITS \in Nat
  BY CbpAssumption
<1>2. x \div openend!Pow2[k * INDEX_BITS] \in Nat
  BY <1>1, PowersOfTwo, Quotient
<1>. QED  BY <1>1, <1>2, BitsType

\* Each bank is indexed with a hash of INDEX_BITS bits
LEMMA IndexType ==
    ASSUME OpenendTypes, NEW PC \in PCs, NEW Y \in openend!Banks
    PROVE  openend!get_index(PC, Y) \in BitVectors(INDEX_BITS)
<1>. DEFINE V == BitVectors(INDEX_BITS)
            first == openend!Xor(openend!Xor(openend!PcPart(PC, 0), openend!PcPart(PC, 1)), openend!HistoryPart(0))
            F == [x \in Nat \X V |-> openend!Xor(x[2], openend!HistoryPart(x[1] + 1))]
            IsIndex(f) == f = [k \in openend!Banks |-> IF k = 0 THEN first ELSE openend!Xor(f[k - 1], openend!HistoryPart(k))]
            index == CHOOSE f : IsIndex(f)
<1>1. INDEX_BITS \in Nat /\ PC \in Nat /\ global_history \in Nat /\ LAST \in Nat /\ openend!Banks = 0 .. LAST
  BY CbpAssumption DEF OpenendTypes, openend!Banks
<1>2. ASSUME NEW k \in Nat  PROVE openend!PcPart(PC, k) \in V /\ openend!HistoryPart(k) \in V
  BY <1>1, PartType DEF openend!PcPart, openend!HistoryPart
<1>3. first \in V
  BY <1>1, <1>2, XorType
<1>4. F \in StepFunctions(V)
  <2>1. ASSUME NEW x \in Nat \X V  PROVE openend!Xor(x[2], openend!HistoryPart(x[1] + 1)) \in V
    BY <1>1, <1>2, XorType
  <2>. QED  BY <2>1 DEF StepFunctions
<1>5. \A n \in Nat, v \in V : F[<<n, v>>] = openend!Xor(v, openend!HistoryPart(n + 1))
  OBVIOUS
<1>. HIDE DEF F, V, first
<1>6. PICK g \in Iterates(V, first, F) : TRUE
  BY <1>3, <1>4, Recursion
<1>7. g \in [Nat -> V] /\ g[0] = first /\ \A n \in Nat : g[n + 1] = F[<<n, g[n]>>]
  BY <1>6 DEF Iterates
<1>. DEFINE h == [k \in openend!Banks |-> g[k]]
<1>8. ASSUME NEW k \in openend!Banks
      PROVE  h[k] = IF k = 0 THEN first ELSE openend!Xor(h[k - 1], openend!HistoryPart(k))
  <2>1. CASE k = 0
    BY <1>7, <2>1
  <2>2. CASE k # 0
    <3>1. k - 1 \in Nat /\ (k - 1) + 1 = k /\ k - 1 \in openend!Banks
      BY <1>1, <2>2
    <3>2. g[k] = F[<<k - 1, g[k - 1]>>] /\ g[k - 1] \in V
      BY <1>7, <3>1
    <3>3. g[k] = openend!Xor(g[k - 1], openend!HistoryPart(k))
      BY <1>5, <3>1, <3>2
    <3>. QED  BY <2>2, <3>1, <3>3
  <2>. QED  BY <2>1, <2>2
<1>9. IsIndex(h)
  <2>1. h = [k \in openend!Banks |-> h[k]]
    OBVIOUS
  <2>. HIDE DEF h
  <2>. QED  BY <1>8, <2>1
<1>10. IsIndex(index)
  <2>. HIDE DEF IsIndex, h
  <2>. QED  BY <1>9
<1>11. openend!get_index(PC, Y) = index[Y]
  BY DEF openend!get_index, first
<1>. HIDE DEF index
<1>. DEFINE T == {n \in Nat : n \in openend!Banks => index[n] \in V}
<1>12. 0 \in T
  BY <1>3, <1>10
<1>13. ASSUME NEW n \in T  PROVE n + 1 \in T
  <2>1. CASE n + 1 \in openend!Banks
    <3>1. n \in Nat /\ n \in openend!Banks /\ n + 1 # 0 /\ (n + 1) - 1 = n
      BY <1>1, <2>1
    <3>2. index[n + 1] = openend!Xor(index[n], openend!HistoryPart(n + 1))
      BY <1>10, <2>1, <3>1
    <3>3. index[n] \in V /\ openend!HistoryPart(n + 1) \in V
      BY <1>2, <3>1
    <3>. QED  BY <1>1, <3>1, <3>2, <3>3, XorType DEF V
  <2>. QED  BY <2>1
<1>14. \A n \in Nat : n \in T
  <2>1. T \in SUBSET Nat
    OBVIOUS
  <2>. HIDE DEF T
  <2>. QED  BY <1>12, <1>13, <2>1, Induction
<1>. QED  BY <1>1, <1>11, <1>14 DEF V

-----------------------------------------------------------------------------
(* The tagged predictor *)

\* The bank that answers is the longest that holds the branch, if any does
LEMMA Longest ==
    ASSUME NEW PC
    PROVE  /\ openend!FindBank(PC) \in openend!Matching(PC) \union {-1}
           /\ \A Y \in openend!Matching(PC) : Y <= openend!FindBank(PC)
<1>. DEFINE M == openend!Matching(PC) \union {-1}
<1>1. M \subseteq -1 .. 3
  BY CbpAssumption, SMTT(30) DEF openend!Matching, openend!Banks
<1>2. -1 \in M
  OBVIOUS
<1>. HIDE DEF M
<1>3. \E x \in M : \A y \in M : x >= y
  <2>1. CASE 3 \in M  BY <1>1, <2>1
  <2>2. CASE 3 \notin M /\ 2 \in M  BY <1>1, <2>2
  <2>3. CASE 3 \notin M /\ 2 \notin M /\ 1 \in M  BY <1>1, <2>3
  <2>4. CASE 3 \notin M /\ 2 \notin M /\ 1 \notin M /\ 0 \in M  BY <1>1, <2>4
  <2>5. CASE 3 \notin M /\ 2 \notin M /\ 1 \notin M /\ 0 \notin M  BY <1>1, <1>2, <2>5
  <2>. QED  BY <2>1, <2>2, <2>3, <2>4, <2>5
<1>4. openend!FindBank(PC) \in M /\ \A y \in M : openend!FindBank(PC) >= y
  <2>1. openend!FindBank(PC) = CHOOSE x \in M : \A y \in M : x >= y
    BY DEF openend!FindBank, openend!Max, M
  <2>. QED  BY <1>3, <2>1
<1>5. \A y \in openend!Matching(PC) : y \in M /\ y \in Int /\ openend!FindBank(PC) \in Int
  BY <1>1, <1>4 DEF M
<1>. QED  BY <1>4, <1>5 DEF M

LEMMA TrainType ==
    ASSUME NEW n \in Nat, NEW c \in 0 .. n, NEW dir \in BOOLEAN
    PROVE  openend!Train(c, dir, n) \in 0 .. n
BY DEF openend!Train, openend!SatIncrement, openend!SatDecrement, openend!TAKEN

\* What an update does to the base table
LEMMA BaseEffect ==
    ASSUME OpenendTypes, NEW PC \in PCs, NEW dir \in BOOLEAN
    PROVE  /\ openend!TrainedBase(PC, dir) \in [BitVectors(BASE_BITS) -> BaseEntries]
           /\ X = -1 => openend!TrainedBase(PC, dir)[openend!base_index(PC)].ctr =
                            openend!Train(base[openend!base_index(PC)].ctr, dir, 7)
<1>. DEFINE b == openend!base_index(PC)
            V == BitVectors(BASE_BITS)
<1>1. b \in V
  BY BaseIndexType
<1>2. base \in [V -> BaseEntries]
  BY DEF OpenendTypes
<1>. HIDE DEF V, b
<1>3. openend!Train(base[b].ctr, dir, 7) \in ThreeBit
  BY <1>1, <1>2, TrainType DEF BaseEntries, ThreeBit
<1>4. CASE X = -1
  <2>1. openend!TrainedBase(PC, dir) = [base EXCEPT ![b].ctr = openend!Train(@, dir, 7)]
    BY <1>4 DEF openend!TrainedBase, openend!MAX_COUNTER_CUSTOM, b
  <2>2. openend!TrainedBase(PC, dir) = [base EXCEPT ![b] = [base[b] EXCEPT !.ctr = openend!Train(base[b].ctr, dir, 7)]]
    BY <2>1
  <2>3. [base[b] EXCEPT !.ctr = openend!Train(base[b].ctr, dir, 7)] \in BaseEntries
    BY <1>1, <1>2, <1>3 DEF BaseEntries
  <2>4. [base[b] EXCEPT !.ctr = openend!Train(base[b].ctr, dir, 7)].ctr = openend!Train(base[b].ctr, dir, 7)
    BY <1>1, <1>2 DEF BaseEntries
  <2>. QED  BY <1>1, <1>2, <2>2, <2>3, <2>4 DEF b, V
<1>5. CASE X # -1
  BY <1>2, <1>5 DEF openend!TrainedBase, V
<1>. QED  BY <1>4, <1>5

\* What training does to the banks
LEMMA TrainEffect ==
    ASSUME OpenendTypes, NEW PC \in PCs, NEW dir \in BOOLEAN
    PROVE  LET trained == openend!TrainedBanks(PC, dir)
           IN  /\ trained \in [openend!Banks -> [BitVectors(INDEX_BITS) -> BankEntries]]
               /\ \A Y \in openend!Banks, i \in BitVectors(INDEX_BITS) :
                      trained[Y][i].tag = banks[Y][i].tag /\ trained[Y][i].u = banks[Y][i].u
               /\ X # -1 => trained[X][openend!get_index(PC, X)].ctr =
                                openend!Train(openend!At(PC, X).ctr, dir, 7)
<1>. DEFINE V == BitVectors(INDEX_BITS)
            x == openend!get_index(PC, X)
<1>1. banks \in [openend!Banks -> [V -> BankEntries]]
  BY DEF OpenendTypes
<1>2. CASE X = -1
  BY <1>1, <1>2 DEF openend!TrainedBanks
<1>3. CASE X # -1
  <2>1. X \in openend!Banks
    BY <1>3, CbpAssumption DEF OpenendTypes, openend!Banks
  <2>2. x \in V
    BY <2>1, IndexType
  <2>. DEFINE e == banks[X][x]
              f == [e EXCEPT !.ctr = openend!Train(e.ctr, dir, 7)]
  <2>3. openend!TrainedBanks(PC, dir) = [banks EXCEPT ![X] = [banks[X] EXCEPT ![x] = f]]
    BY <1>3 DEF openend!TrainedBanks, openend!MAX_COUNTER_CUSTOM
  <2>. HIDE DEF V, x
  <2>4. e \in BankEntries
    BY <1>1, <2>1, <2>2
  <2>5. openend!Train(e.ctr, dir, 7) \in ThreeBit
    BY <2>4, TrainType DEF BankEntries, ThreeBit
  <2>6. f \in BankEntries /\ f.tag = e.tag /\ f.u = e.u /\ f.ctr = openend!Train(e.ctr, dir, 7)
    BY <2>4, <2>5 DEF BankEntries
  <2>. DEFINE row == [banks[X] EXCEPT ![x] = f]
  <2>. HIDE DEF f
  <2>7. /\ row \in [V -> BankEntries] /\ \A i \in V : row[i].tag = banks[X][i].tag /\ row[i].u = banks[X][i].u
        /\ row[x].ctr = openend!Train(e.ctr, dir, 7)
    BY <1>1, <2>1, <2>2, <2>6
  <2>. HIDE DEF row
  <2>8. openend!TrainedBanks(PC, dir) = [banks EXCEPT ![X] = row]
    BY <2>3 DEF row
  <2>9. e = openend!At(PC, X)
    BY DEF openend!At, x
  <2>. HIDE DEF e
  <2>. QED  BY <1>1, <2>1, <2>7, <2>8, <2>9 DEF V, x
<1>. QED  BY <1>2, <1>3

\* The counter of a new entry
LEMMA NewCounterType ==
    ASSUME NEW m \in BOOLEAN, NEW dir \in BOOLEAN, NEW c
    PROVE  openend!NewCounter(m, dir, c) \in ThreeBit
BY DEF openend!NewCounter, openend!TAKEN, ThreeBit

LEMMA VictimsAreLonger ==
    ASSUME OpenendTypes, NEW PC, NEW dir, NEW pred, NEW victims \in openend!Victims(PC, dir, pred)
    PROVE  /\ victims \subseteq X + 1 .. LAST
           /\ victims \subseteq openend!Banks
<1>1. X + 1 .. LAST \subseteq openend!Banks
  BY CbpAssumption DEF OpenendTypes, openend!Banks
<1>2. victims \subseteq X + 1 .. LAST
  BY DEF openend!Victims
<1>. QED  BY <1>1, <1>2

\* What taking entries for the branch does to the banks
LEMMA AllocateEffect ==
    ASSUME OpenendTypes, NEW PC \in PCs, NEW dir \in BOOLEAN,
           NEW trained \in [openend!Banks -> [BitVectors(INDEX_BITS) -> BankEntries]],
           NEW victims \in SUBSET openend!Banks
    PROVE  LET new == openend!Allocated(PC, dir, trained, victims)
               counter == openend!NewCounter(base[openend!base_index(PC)].m, dir,
                              openend!TrainedBase(PC, dir)[openend!base_index(PC)].ctr)
           IN  /\ new \in [openend!Banks -> [BitVectors(INDEX_BITS) -> BankEntries]]
               /\ \A Y \in openend!Banks, i \in BitVectors(INDEX_BITS) :
                      IF Y \in victims /\ i = openend!get_index(PC, Y)
                      THEN new[Y][i].tag = openend!get_tag(PC) /\ new[Y][i].ctr = counter
                           /\ new[Y][i].u = trained[Y][i].u
                      ELSE new[Y][i] = trained[Y][i]
<1>. DEFINE V == BitVectors(INDEX_BITS)
            t == openend!get_tag(PC)
            c == openend!NewCounter(base[openend!base_index(PC)].m, dir,
                     openend!TrainedBase(PC, dir)[openend!base_index(PC)].ctr)
            new == openend!Allocated(PC, dir, trained, victims)
            x(Y) == openend!get_index(PC, Y)
            entry(Y) == [[trained[Y][x(Y)] EXCEPT !.tag = t] EXCEPT !.ctr = c]
            row(Y) == [trained[Y] EXCEPT ![x(Y)] = entry(Y)]
<1>1. t \in BitVectors(TAG_BITS)
  BY TagType
<1>2. c \in ThreeBit
  BY BaseIndexType, NewCounterType DEF OpenendTypes, BaseEntries
<1>3. \A Y \in openend!Banks : x(Y) \in V
  BY IndexType
<1>. HIDE DEF t, c, V, x
<1>4. new = [Y \in openend!Banks |-> IF Y \notin victims THEN trained[Y] ELSE row(Y)]
  <2>1. ASSUME NEW Y \in openend!Banks
        PROVE  [trained[Y] EXCEPT ![x(Y)].tag = t, ![x(Y)].ctr = c] = row(Y)
    <3>1. trained[Y] \in [V -> BankEntries] /\ x(Y) \in V
      BY <1>3 DEF V
    <3>. QED  BY <3>1 DEF BankEntries
  <2>. QED  BY <2>1 DEF openend!Allocated, t, c, x
<1>5. ASSUME NEW Y \in openend!Banks
      PROVE  /\ entry(Y) \in BankEntries
             /\ entry(Y).tag = t /\ entry(Y).ctr = c /\ entry(Y).u = trained[Y][x(Y)].u
  <2>1. trained[Y][x(Y)] \in BankEntries
    BY <1>3 DEF V
  <2>. QED  BY <1>1, <1>2, <2>1 DEF BankEntries
<1>. HIDE DEF entry
<1>6. ASSUME NEW Y \in openend!Banks
      PROVE  row(Y) \in [V -> BankEntries]
  BY <1>3, <1>5 DEF V
<1>7. ASSUME NEW Y \in openend!Banks, NEW i \in V
      PROVE  row(Y)[i] = IF i = x(Y) THEN entry(Y) ELSE trained[Y][i]
  BY <1>3 DEF V
<1>. HIDE DEF row
<1>8. new \in [openend!Banks -> [V -> BankEntries]]
  BY <1>4, <1>6 DEF V
<1>9. ASSUME NEW Y \in openend!Banks, NEW i \in V
      PROVE  IF Y \in victims /\ i = x(Y)
             THEN new[Y][i].tag = t /\ new[Y][i].ctr = c /\ new[Y][i].u = trained[Y][i].u
             ELSE new[Y][i] = trained[Y][i]
  BY <1>4, <1>5, <1>7
<1>. HIDE DEF new
<1>. QED  BY <1>8, <1>9 DEF new, V, t, c, x

\* What an update does to the banks: entries are taken for the branch in the
\* victims, and no other tag changes.
LEMMA UpdateEffect ==
    ASSUME OpenendTypes, NEW PC \in PCs, NEW dir \in BOOLEAN, NEW pred \in BOOLEAN,
           openend!UpdatePredictor_openend(PC, dir, pred)
    PROVE  /\ OpenendTypes'
           /\ \E victims \in openend!Victims(PC, dir, pred) :
                  \A Y \in openend!Banks, i \in BitVectors(INDEX_BITS) :
                      IF Y \in victims /\ i = openend!get_index(PC, Y)
                      THEN /\ banks'[Y][i].tag = openend!get_tag(PC)
                           /\ banks'[Y][i].ctr = openend!NewCounter(base[openend!base_index(PC)].m, dir,
                                  openend!TrainedBase(PC, dir)[openend!base_index(PC)].ctr)
                      ELSE banks'[Y][i].tag = banks[Y][i].tag
           /\ X # -1 => banks'[X][openend!get_index(PC, X)].ctr = openend!Train(openend!At(PC, X).ctr, dir, 7)
<1>. DEFINE V == BitVectors(INDEX_BITS)
            b == openend!base_index(PC)
            t == openend!get_tag(PC)
            counter == openend!NewCounter(base[b].m, dir, openend!TrainedBase(PC, dir)[b].ctr)
            trained == openend!TrainedBanks(PC, dir)
            x == openend!get_index(PC, X)
            idx(Y) == openend!get_index(PC, Y)
<1>1. PICK victims \in openend!Victims(PC, dir, pred) :
          LET new == openend!Allocated(PC, dir, trained, victims)
          IN  banks' = IF X = -1 THEN new ELSE [new EXCEPT ![X][x].u = (dir = pred)]
  BY DEF openend!UpdatePredictor_openend
<1>. DEFINE new == openend!Allocated(PC, dir, trained, victims)
<1>2. victims \subseteq X + 1 .. LAST /\ victims \in SUBSET openend!Banks
  BY VictimsAreLonger
<1>3. /\ trained \in [openend!Banks -> [V -> BankEntries]]
      /\ \A Y \in openend!Banks, i \in V : trained[Y][i].tag = banks[Y][i].tag
      /\ X # -1 => trained[X][x].ctr = openend!Train(openend!At(PC, X).ctr, dir, 7)
  BY TrainEffect
<1>4. /\ new \in [openend!Banks -> [V -> BankEntries]]
      /\ \A Y \in openend!Banks, i \in V :
             IF Y \in victims /\ i = idx(Y)
             THEN new[Y][i].tag = t /\ new[Y][i].ctr = counter
             ELSE new[Y][i] = trained[Y][i]
  <2>. HIDE DEF trained
  <2>. QED  BY <1>2, <1>3, AllocateEffect
<1>5. banks' = IF X = -1 THEN new ELSE [new EXCEPT ![X][x].u = (dir = pred)]
  BY <1>1
<1>. HIDE DEF new, trained, V, x, idx, t, counter, b
<1>6. /\ banks' \in [openend!Banks -> [V -> BankEntries]]
      /\ \A Y \in openend!Banks, i \in V :
             banks'[Y][i].tag = new[Y][i].tag /\ banks'[Y][i].ctr = new[Y][i].ctr
  <2>1. CASE X = -1
    BY <1>4, <1>5, <2>1
  <2>2. CASE X # -1
    <3>1. X \in openend!Banks
      BY <2>2, CbpAssumption, SMTT(30) DEF OpenendTypes, openend!Banks
    <3>2. x \in V
      BY <3>1, IndexType DEF x, V
    <3>. DEFINE e == [new[X][x] EXCEPT !.u = (dir = pred)]
                row == [new[X] EXCEPT ![x] = e]
    <3>3. banks' = [new EXCEPT ![X] = row]
      BY <1>5, <2>2
    <3>4. e \in BankEntries /\ e.tag = new[X][x].tag /\ e.ctr = new[X][x].ctr
      <4>1. new[X][x] \in BankEntries
        BY <1>4, <3>1, <3>2
      <4>. QED  BY <4>1 DEF BankEntries
    <3>. HIDE DEF e
    <3>5. row \in [V -> BankEntries] /\ \A i \in V : row[i].tag = new[X][i].tag /\ row[i].ctr = new[X][i].ctr
      BY <1>4, <3>1, <3>2, <3>4
    <3>. HIDE DEF row
    <3>. QED  BY <1>4, <3>1, <3>3, <3>5
  <2>. QED  BY <2>1, <2>2
<1>7. ASSUME NEW Y \in openend!Banks, NEW i \in V
      PROVE  IF Y \in victims /\ i = idx(Y)
             THEN banks'[Y][i].tag = t /\ banks'[Y][i].ctr = counter
             ELSE banks'[Y][i].tag = banks[Y][i].tag
  <2>1. CASE Y \in victims /\ i = idx(Y)
    BY <1>4, <1>6, <2>1
  <2>2. CASE ~(Y \in victims /\ i = idx(Y))
    <3>1. new[Y][i] = trained[Y][i]
      BY <1>4, <2>2
    <3>2. banks'[Y][i].tag = new[Y][i].tag /\ trained[Y][i].tag = banks[Y][i].tag
      BY <1>3, <1>6
    <3>. QED  BY <2>2, <3>1, <3>2
  <2>. QED  BY <2>1, <2>2
<1>8. base' \in [BitVectors(BASE_BITS) -> BaseEntries]
  <2>1. CASE X = -1
    BY <2>1, BaseEffect DEF openend!UpdatePredictor_openend
  <2>2. CASE X # -1
    <3>1. base' = [base EXCEPT ![b] = [base[b] EXCEPT !.m = (dir = pred)]]
      BY <2>2 DEF openend!UpdatePredictor_openend, b
    <3>2. base \in [BitVectors(BASE_BITS) -> BaseEntries] /\ b \in BitVectors(BASE_BITS)
      BY BaseIndexType DEF OpenendTypes, b
    <3>3. [base[b] EXCEPT !.m = (dir = pred)] \in BaseEntries
      BY <3>2 DEF BaseEntries
    <3>. QED  BY <3>1, <3>2, <3>3
  <2>. QED  BY <2>1, <2>2
<1>9. global_history' \in Nat /\ X' = X
  <2>. DEFINE p == openend!Pow2[HISTORY_BITS]
              h == 2 * global_history + (IF dir = openend!TAKEN THEN 1 ELSE 0)
  <2>1. p \in Nat \ {0}
    BY CbpAssumption, PowersOfTwo
  <2>2. h \in Nat
    BY DEF OpenendTypes
  <2>3. global_history' = h % p /\ X' = X
    BY DEF openend!UpdatePredictor_openend, openend!ShiftHistory
  <2>. HIDE DEF h, p
  <2>4. h % p \in 0 .. p - 1
    BY <2>1, <2>2, Quotient
  <2>. QED  BY <2>1, <2>3, <2>4
<1>10. OpenendTypes'
  BY <1>6, <1>8, <1>9 DEF OpenendTypes, V, openend!Banks
<1>11. ASSUME X # -1
       PROVE  banks'[X][x].ctr = openend!Train(openend!At(PC, X).ctr, dir, 7)
  <2>1. X \in openend!Banks /\ X \notin X + 1 .. LAST
    BY <1>11, CbpAssumption, SMTT(30) DEF OpenendTypes, openend!Banks
  <2>2. x \in V
    BY <2>1, IndexType DEF x, V
  <2>3. banks'[X][x].ctr = new[X][x].ctr
    BY <1>6, <2>1, <2>2
  <2>4. new[X][x] = trained[X][x]
    BY <1>2, <1>4, <2>1, <2>2
  <2>. QED  BY <1>3, <1>11, <2>3, <2>4
<1>. QED  BY <1>7, <1>10, <1>11 DEF V, t, b, counter, idx, x

\* What the prediction reads is what the update reads
LEMMA SameHash ==
    ASSUME UNCHANGED <<global_history, branch>>
    PROVE  /\ openend!get_tag(branch.PC)' = openend!get_tag(branch.PC)
           /\ \A Y : openend!get_index(branch.PC, Y)' = openend!get_index(branch.PC, Y)
           /\ openend!base_index(branch.PC)' = openend!base_index(branch.PC)
<1>1. openend!get_tag(branch.PC)' = openend!get_tag(branch.PC)
  BY DEF openend!get_tag, openend!HistoryTag
<1>2. ASSUME NEW Y  PROVE openend!get_index(branch.PC, Y)' = openend!get_index(branch.PC, Y)
  BY DEF openend!get_index, openend!HistoryPart, openend!PcPart
<1>3. openend!base_index(branch.PC)' = openend!base_index(branch.PC)
  BY DEF openend!base_index
<1>. QED  BY <1>1, <1>2, <1>3

LEMMA SameBank ==
    ASSUME UNCHANGED <<global_history, branch, banks, base>>
    PROVE  /\ openend!FindBank(branch.PC)' = openend!FindBank(branch.PC)
           /\ \A Y : openend!Direction(branch.PC, Y)' = openend!Direction(branch.PC, Y)
<1>1. ASSUME NEW Y  PROVE openend!At(branch.PC, Y)' = openend!At(branch.PC, Y)
  BY SameHash DEF openend!At
<1>2. openend!Matching(branch.PC)' = openend!Matching(branch.PC)
  BY SameHash, <1>1 DEF openend!Matching, openend!Banks
<1>3. openend!FindBank(branch.PC)' = openend!FindBank(branch.PC)
  BY <1>2 DEF openend!FindBank, openend!Max
<1>4. ASSUME NEW Y  PROVE openend!Direction(branch.PC, Y)' = openend!Direction(branch.PC, Y)
  BY SameHash, <1>1 DEF openend!Direction
<1>. QED  BY <1>3, <1>4

-----------------------------------------------------------------------------
(* The loop                                                                *)

LEMMA InitPredicts == Init => PredictionInv
<1>. SUFFICES ASSUME Init  PROVE PredictionInv
  OBVIOUS
<1>1. TracePlaced
  BY DEF Init, TracePlaced, Predictors
<1>2. openend!Bits(0, TAG_BITS) \in BitVectors(TAG_BITS)
  BY CbpAssumption, BitsType
<1>3. OpenendTypes
  <2>1. global_history \in Nat /\ X \in -1 .. LAST
    BY CbpAssumption DEF Init, openend!Init_openend
  <2>2. base \in [BitVectors(BASE_BITS) -> BaseEntries]
    BY DEF Init, openend!Init_openend, BitVectors, BaseEntries, ThreeBit
  <2>3. [ctr |-> 0, tag |-> openend!Bits(0, TAG_BITS), u |-> FALSE] \in BankEntries
    BY <1>2 DEF BankEntries, ThreeBit
  <2>4. banks \in [openend!Banks -> [BitVectors(INDEX_BITS) -> BankEntries]]
    BY <2>3 DEF Init, openend!Init_openend, BitVectors
  <2>. QED  BY <2>1, <2>2, <2>4 DEF OpenendTypes
<1>4. PredictionStands
  BY DEF Init, PredictionStands, Predictors
<1>. QED  BY <1>1, <1>3, <1>4 DEF PredictionInv

LEMMA LoopElement ==
    ASSUME NEW l \in Loops, NEW i \in 1 .. Len(l)
    PROVE  l[i] \in Branches
<1>1. l \in Seq(Branches)
  BY CbpAssumption DEF Branches
<1>. QED  BY <1>1

\* The trace of the next step is in place
LEMMA NextPlaced ==
    ASSUME PredictionInv, Next
    PROVE  TracePlaced'
<1>. USE DEF PredictionInv, TracePlaced
<1>1. CASE GetNextRecord
  <2>1. CASE at = 0 /\ branches < MaxBranches /\ branch' \in [PC : PCs, dir : BOOLEAN] /\ UNCHANGED <<loop, at, before>>
    BY <1>1, <2>1 DEF GetNextRecord, Branches
  <2>2. CASE at = 0 /\ loop' \in Loops /\ at' = 1 /\ branch' = loop'[1]
    <3>1. 1 \in 1 .. Len(loop')
      BY <2>2, CbpAssumption
    <3>. QED  BY <1>1, <2>2, <3>1, LoopElement DEF GetNextRecord
  <2>3. CASE at # 0 /\ at' = (at % Len(loop)) + 1 /\ branch' = loop[at'] /\ UNCHANGED <<loop, before, branches>>
    <3>1. Len(loop) \in Nat \ {0} /\ at \in 1 .. Len(loop) /\ loop \in Loops
      BY <2>3, CbpAssumption
    <3>2. at % Len(loop) \in 0 .. Len(loop) - 1
      <4>. DEFINE n == Len(loop)
      <4>1. n \in Nat \ {0} /\ at \in Nat
        BY <3>1
      <4>. HIDE DEF n
      <4>2. at % n \in 0 .. n - 1
        BY <4>1, Quotient
      <4>. QED  BY <4>2 DEF n
    <3>3. at' \in 1 .. Len(loop)
      BY <2>3, <3>1, <3>2
    <3>. QED  BY <1>1, <2>3, <3>1, <3>3, LoopElement DEF GetNextRecord
  <2>. QED  BY <1>1, <2>1, <2>2, <2>3 DEF GetNextRecord
<1>2. CASE GetPrediction
  <2>1. predDir' \in [Predictors -> BOOLEAN]
    <3>1. /\ twobitsat!GetPrediction_2bitsat(branch.PC) \in BOOLEAN
          /\ twolevel!GetPrediction_2level(branch.PC) \in BOOLEAN
      BY DEF twobitsat!GetPrediction_2bitsat, twolevel!GetPrediction_2level
    <3>. DEFINE n == openend!FindBank(branch.PC)
    <3>2. openend!Direction(branch.PC, n) \in BOOLEAN
      <4>. HIDE DEF n
      <4>1. CASE n = -1
        BY <4>1 DEF openend!Direction
      <4>2. CASE n # -1
        BY <4>2 DEF openend!Direction
      <4>. QED  BY <4>1, <4>2
    <3>. QED  BY <1>2, <3>1, <3>2 DEF GetPrediction, Predictors, n
  <2>. QED  BY <1>2, <2>1 DEF GetPrediction, input, Predictors
<1>3. CASE Update_2bitsat
  BY <1>3 DEF Update_2bitsat, input, Predictors
<1>4. CASE Update_2level
  BY <1>4 DEF Update_2level, input, Predictors
<1>5. CASE Update_openend
  BY <1>5 DEF Update_openend, input, Predictors
<1>. QED  BY <1>1, <1>2, <1>3, <1>4, <1>5 DEF Next

\* Nothing but the update of the tagged predictor changes its tables
LEMMA NextPredicts ==
    ASSUME PredictionInv, [Next]_vars
    PROVE  PredictionInv'
<1>. USE DEF PredictionInv
<1>1. CASE UNCHANGED vars
  <2>1. TracePlaced' /\ OpenendTypes'
    BY <1>1 DEF vars, vars_openend, input, TracePlaced, OpenendTypes, openend!Banks
  <2>2. PredictionStands'
    BY <1>1, SameBank DEF vars, vars_openend, input, PredictionStands
  <2>. QED  BY <2>1, <2>2
<1>2. CASE GetNextRecord
  <2>1. OpenendTypes'
    BY <1>2 DEF GetNextRecord, vars_openend, OpenendTypes, openend!Banks
  <2>2. PredictionStands'
    BY <1>2 DEF GetNextRecord, PredictionStands, Predictors
  <2>. QED  BY <1>2, <2>1, <2>2, NextPlaced DEF Next
<1>3. CASE GetPrediction
  <2>1. X' = openend!FindBank(branch.PC) /\ UNCHANGED <<global_history, branch, banks, base>>
    BY <1>3 DEF GetPrediction, openend!GetPrediction_openend, input
  <2>2. X' \in -1 .. LAST
    BY <2>1, Longest, CbpAssumption DEF openend!Matching, openend!Banks
  <2>3. OpenendTypes'
    BY <2>1, <2>2 DEF OpenendTypes, openend!Banks
  <2>4. predDir'["openend"] = openend!Direction(branch.PC, openend!FindBank(branch.PC))
    BY <1>3 DEF GetPrediction, Predictors
  <2>5. PredictionStands'
    BY <2>1, <2>4, SameBank DEF PredictionStands
  <2>. QED  BY <1>3, <2>3, <2>5, NextPlaced DEF Next
<1>4. CASE Update_2bitsat \/ Update_2level
  <2>1. UNCHANGED <<vars_openend, branch, predDir>> /\ next \in Predictors
    BY <1>4 DEF Update_2bitsat, Update_2level, input, Predictors
  <2>2. OpenendTypes'
    BY <2>1 DEF vars_openend, OpenendTypes, openend!Banks
  <2>3. PredictionStands'
    BY <2>1, SameBank DEF vars_openend, PredictionStands
  <2>. QED  BY <1>4, <2>2, <2>3, NextPlaced DEF Next
<1>5. CASE Update_openend
  <2>1. branch.PC \in PCs /\ branch.dir \in BOOLEAN /\ predDir["openend"] \in BOOLEAN
    BY <1>5 DEF Update_openend, TracePlaced, Branches, Predictors
  <2>2. OpenendTypes'
    BY <1>5, <2>1, UpdateEffect DEF Update_openend
  <2>3. PredictionStands'
    BY <1>5 DEF Update_openend, PredictionStands, Predictors
  <2>. QED  BY <1>5, <2>2, <2>3, NextPlaced DEF Next
<1>. QED  BY <1>1, <1>2, <1>3, <1>4, <1>5 DEF Next

\* The trace, the tables and the prediction stay as PredictionInv says
\* (main.cc:40-110).
THEOREM PredictionInvariant == Spec => []PredictionInv
<1>1. Init => PredictionInv
  BY InitPredicts
<1>2. PredictionInv /\ [Next]_vars => PredictionInv'
  BY NextPredicts
<1>. QED  BY <1>1, <1>2, PTL DEF Spec

\* The unresolved branch of the tagged predictor
LEMMA UnresolvedBranch ==
    /\ next \in Predictors =>
           Unresolved("openend") = [PC |-> branch.PC, dir |-> branch.dir, pred |-> predDir["openend"]]
    /\ next \notin Predictors => Unresolved("openend") = openend!None
BY DEF Unresolved, openend!None

LEMMA StandsIsLongest == PredictionInv => LongestMatch
<1>. SUFFICES ASSUME PredictionInv, Unresolved("openend") # openend!None
              PROVE  LET b == Unresolved("openend")
                     IN  /\ X # -1 => X \in openend!Matching(b.PC)
                         /\ \A Y \in X + 1 .. LAST : Y \notin openend!Matching(b.PC)
                         /\ b.pred = openend!Direction(b.PC, X)
  BY DEF LongestMatch, openend!LongestMatch
<1>1. next \in Predictors
  BY UnresolvedBranch
<1>2. Unresolved("openend").PC = branch.PC /\ Unresolved("openend").pred = predDir["openend"]
  BY <1>1, UnresolvedBranch
<1>3. X = openend!FindBank(branch.PC) /\ predDir["openend"] = openend!Direction(branch.PC, X) /\ X \in -1 .. LAST
  BY <1>1 DEF PredictionInv, PredictionStands, OpenendTypes
<1>4. X # -1 => X \in openend!Matching(branch.PC)
  BY <1>3, Longest
<1>5. \A Y \in X + 1 .. LAST : Y \notin openend!Matching(branch.PC)
  BY <1>3, Longest, CbpAssumption
<1>. QED  BY <1>2, <1>3, <1>4, <1>5

\* When the tagged predictor learns the outcome of a branch, X names the
\* longest bank that holds the branch, and the prediction is still what that
\* bank says (predictor.cc:103-118).
THEOREM LongestMatchHolds == Spec => []LongestMatch
BY PredictionInvariant, StandsIsLongest, PTL

-----------------------------------------------------------------------------
(* What a misprediction leaves in the banks                                *)

Lost == {Y \in openend!Banks : \E i \in DOMAIN banks[Y] :
            banks[Y][i].u /\ banks'[Y][i].tag # banks[Y][i].tag}
EntryOf(Y) == banks'[Y][openend!get_index(branch.PC, Y)]

\* Only the update of the tagged predictor changes the banks or resolves its
\* branch.
LEMMA OthersKeep ==
    ASSUME PredictionInv, [Next]_vars, ~Update_openend
    PROVE  /\ banks' = banks
           /\ next \notin Predictors \/ Unresolved("openend")' = Unresolved("openend")
<1>1. CASE UNCHANGED vars
  BY <1>1 DEF vars, vars_openend, input, Unresolved
<1>2. CASE GetNextRecord
  BY <1>2 DEF GetNextRecord, vars_openend, Predictors
<1>3. CASE GetPrediction
  BY <1>3 DEF GetPrediction, Predictors
<1>4. CASE Update_2bitsat \/ Update_2level
  BY <1>4 DEF Update_2bitsat, Update_2level, vars_openend, input, Unresolved, Predictors
<1>. QED  BY <1>1, <1>2, <1>3, <1>4 DEF Next

\* A misprediction takes at least one entry, and only in longer banks: those
\* that are not useful, or one when all are.
LEMMA VictimsTaken ==
    ASSUME PredictionInv, NEW PC, NEW dir, NEW pred, NEW victims \in openend!Victims(PC, dir, pred)
    PROVE  /\ dir # pred /\ X < LAST => victims # {}
           /\ \/ \A Y \in victims : ~openend!At(PC, Y).u
              \/ /\ \E Y : victims = {Y}
                 /\ \A Y \in X + 1 .. LAST : openend!At(PC, Y).u
<1>1. X \in -1 .. LAST /\ LAST \in 0 .. 3
  BY CbpAssumption DEF PredictionInv, OpenendTypes
<1>. DEFINE longer == X + 1 .. LAST
            free == {Y \in longer : ~openend!At(PC, Y).u}
<1>2. CASE dir = pred \/ X = LAST
  BY <1>1, <1>2 DEF openend!Victims
<1>3. CASE ~(dir = pred \/ X = LAST) /\ free # {}
  BY <1>3 DEF openend!Victims
<1>4. CASE ~(dir = pred \/ X = LAST) /\ free = {}
  BY <1>1, <1>4 DEF openend!Victims
<1>. QED  BY <1>2, <1>3, <1>4

\* What the update of a branch leaves of it and of the others
LEMMA UpdateEnters ==
    ASSUME PredictionInv, Update_openend
    PROVE  /\ branch.dir # predDir["openend"] /\ X < LAST =>
                  \E Y \in X + 1 .. LAST : EntryOf(Y).tag = openend!get_tag(branch.PC)
           /\ Lost # {} => /\ Cardinality(Lost) = 1
                           /\ \A Y \in X + 1 .. LAST : openend!At(branch.PC, Y).u
           /\ branch.dir # predDir["openend"] /\ branch.dir = openend!TAKEN /\ X = -1 =>
                  \A Y \in openend!Banks :
                      EntryOf(Y).tag = openend!get_tag(branch.PC) => EntryOf(Y).ctr >= 4
<1>. DEFINE PC == branch.PC
            dir == branch.dir
            pred == predDir["openend"]
            idx(Y) == openend!get_index(PC, Y)
            counter == openend!NewCounter(base[openend!base_index(PC)].m, dir,
                           openend!TrainedBase(PC, dir)[openend!base_index(PC)].ctr)
<1>1. /\ PC \in PCs /\ dir \in BOOLEAN /\ pred \in BOOLEAN /\ OpenendTypes
      /\ X = openend!FindBank(PC) /\ pred = openend!Direction(PC, X)
      /\ openend!UpdatePredictor_openend(PC, dir, pred)
  BY DEF Update_openend, PredictionInv, TracePlaced, PredictionStands, Branches, Predictors
<1>2. PICK victims \in openend!Victims(PC, dir, pred) :
          \A Y \in openend!Banks, i \in BitVectors(INDEX_BITS) :
              IF Y \in victims /\ i = idx(Y)
              THEN banks'[Y][i].tag = openend!get_tag(PC) /\ banks'[Y][i].ctr = counter
              ELSE banks'[Y][i].tag = banks[Y][i].tag
  <2>. HIDE DEF PC, dir, pred
  <2>. QED  BY <1>1, UpdateEffect
<1>3. victims \subseteq X + 1 .. LAST /\ victims \subseteq openend!Banks
  BY <1>1, VictimsAreLonger
<1>4. \A Y \in openend!Banks : idx(Y) \in BitVectors(INDEX_BITS)
  BY <1>1, IndexType
<1>5. /\ dir # pred /\ X < LAST => victims # {}
      /\ \/ \A Y \in victims : ~openend!At(PC, Y).u
         \/ /\ \E Y : victims = {Y}
            /\ \A Y \in X + 1 .. LAST : openend!At(PC, Y).u
  BY VictimsTaken
<1>. HIDE DEF PC, dir, pred, idx, counter
<1>6. ASSUME dir # pred, X < LAST
      PROVE  \E Y \in X + 1 .. LAST : EntryOf(Y).tag = openend!get_tag(PC)
  <2>1. PICK Y \in victims : TRUE
    BY <1>5, <1>6
  <2>2. banks'[Y][idx(Y)].tag = openend!get_tag(PC)
    BY <1>2, <1>3, <1>4
  <2>. QED  BY <1>3, <2>2 DEF EntryOf, PC, idx
<1>7. ASSUME NEW Y \in Lost
      PROVE  Y \in victims /\ openend!At(PC, Y).u
  <2>1. Y \in openend!Banks /\ DOMAIN banks[Y] = BitVectors(INDEX_BITS)
    BY <1>1 DEF Lost, OpenendTypes
  <2>2. PICK i \in BitVectors(INDEX_BITS) : banks[Y][i].u /\ banks'[Y][i].tag # banks[Y][i].tag
    BY <2>1 DEF Lost
  <2>3. Y \in victims /\ i = idx(Y)
    BY <1>2, <2>1, <2>2
  <2>. QED  BY <2>2, <2>3 DEF openend!At, idx
<1>8. ASSUME Lost # {}
      PROVE  Cardinality(Lost) = 1 /\ \A Y \in X + 1 .. LAST : openend!At(PC, Y).u
  <2>1. PICK Y : victims = {Y}
    BY <1>5, <1>7, <1>8
  <2>2. Lost = {Y}
    BY <1>7, <1>8, <2>1
  <2>3. Cardinality(Lost) = 1
    BY <2>2, FS_Singleton
  <2>. QED  BY <1>5, <1>7, <1>8, <2>3
<1>9. ASSUME dir # pred, dir = openend!TAKEN, X = -1,
             NEW Y \in openend!Banks, EntryOf(Y).tag = openend!get_tag(PC)
      PROVE  EntryOf(Y).ctr >= 4
  <2>1. Y \notin openend!Matching(PC)
    <3>1. Y >= 0 /\ Y \in Int /\ openend!FindBank(PC) = -1
      BY <1>1, <1>9, CbpAssumption DEF openend!Banks
    <3>. QED  BY <3>1, Longest
  <2>2. banks[Y][idx(Y)].tag # openend!get_tag(PC)
    BY <2>1 DEF openend!Matching, openend!At, idx
  <2>3. banks'[Y][idx(Y)].ctr = counter
    BY <1>2, <1>4, <1>9, <2>2 DEF EntryOf, idx, PC
  <2>. DEFINE b == openend!base_index(PC)
  <2>4. b \in BitVectors(BASE_BITS) /\ base[b] \in BaseEntries
    BY <1>1, BaseIndexType DEF OpenendTypes
  <2>5. openend!TrainedBase(PC, dir)[b].ctr = openend!Train(base[b].ctr, dir, 7)
    BY <1>1, <1>9, BaseEffect
  <2>6. base[b].ctr < 4
    <3>1. ~(base[b].ctr >= 4)
      BY <1>1, <1>9 DEF openend!Direction, openend!TAKEN
    <3>. QED  BY <2>4, <3>1 DEF BaseEntries, ThreeBit
  <2>7. openend!Train(base[b].ctr, dir, 7) # 0
    BY <1>9, <2>4, <2>6 DEF openend!Train, openend!SatIncrement, BaseEntries, ThreeBit
  <2>8. counter = 4
    BY <1>9, <2>5, <2>7 DEF openend!NewCounter, counter
  <2>. QED  BY <2>3, <2>8 DEF EntryOf, idx, PC
<1>. QED  BY <1>6, <1>8, <1>9 DEF PC, dir, pred

\* A misprediction enters the branch in a longer bank, at the cost of a useful
\* entry only when all are useful and then of only one, and a taken branch
\* the base table missed is predicted taken where it was entered
\* (predictor.cc:124-150).
THEOREM MispredictionIsEntered == Spec => MispredictionEntered
<1>1. ASSUME PredictionInv, [Next]_vars
      PROVE  /\ [openend!Mispredicted /\ Unresolved("openend")' # Unresolved("openend") /\ X < LAST =>
                    \E Y \in X + 1 .. LAST :
                        banks'[Y][openend!get_index(Unresolved("openend").PC, Y)].tag = openend!get_tag(Unresolved("openend").PC)]_(openend!vars_openend)
             /\ [LET lost == {Y \in openend!Banks : \E i \in DOMAIN banks[Y] :
                                 banks[Y][i].u /\ banks'[Y][i].tag # banks[Y][i].tag}
                 IN  lost # {} =>
                         /\ openend!Cardinality(lost) = 1
                         /\ \A Y \in X + 1 .. LAST : openend!At(Unresolved("openend").PC, Y).u]_(openend!vars_openend)
             /\ [openend!Mispredicted /\ Unresolved("openend")' # Unresolved("openend") /\ Unresolved("openend").dir = openend!TAKEN /\ X = -1 =>
                    \A Y \in openend!Banks :
                        banks'[Y][openend!get_index(Unresolved("openend").PC, Y)].tag = openend!get_tag(Unresolved("openend").PC)
                            => banks'[Y][openend!get_index(Unresolved("openend").PC, Y)].ctr >= 4]_(openend!vars_openend)
  <2>. DEFINE u == Unresolved("openend")
  <2>1. CASE Update_openend
    <3>1. u.PC = branch.PC /\ u.dir = branch.dir /\ u.pred = predDir["openend"]
      BY <2>1, UnresolvedBranch DEF Update_openend, Predictors
    <3>2. openend!Mispredicted => branch.dir # predDir["openend"]
      BY <3>1 DEF openend!Mispredicted, u
    <3>. QED  BY <1>1, <2>1, <3>1, <3>2, UpdateEnters DEF EntryOf, Lost, u, openend!Cardinality, Cardinality
  <2>2. CASE ~Update_openend
    <3>1. banks' = banks /\ (next \notin Predictors \/ u' = u)
      BY <1>1, <2>2, OthersKeep
    <3>2. next \notin Predictors => ~openend!Mispredicted
      BY UnresolvedBranch DEF openend!Mispredicted
    <3>3. Lost = {}
      BY <3>1 DEF Lost
    <3>. QED  BY <3>1, <3>2, <3>3 DEF Lost
  <2>. QED  BY <2>1, <2>2
<1>. QED  BY <1>1, PredictionInvariant, PTL
          DEF Spec, MispredictionEntered, openend!Remembers, openend!UsefulKept, openend!TakenIsLearned

-----------------------------------------------------------------------------
(* The two-bit predictor is a table of counters                            *)

TwobitsatTypes == twobitsat_prediction_table \in [twobitsat!Entries -> 0 .. 3]

\* The branch as the table of counters sees it
TwobitsatBranch ==
    IF Unresolved("2bitsat") = twobitsat!None THEN twobitsat!None
    ELSE [context |-> twobitsat!Entry(Unresolved("2bitsat").PC),
          dir |-> Unresolved("2bitsat").dir, pred |-> Unresolved("2bitsat").pred]

\* A branch is no None
LEMMA NotNone ==
    ASSUME NEW a, NEW b, NEW c
    PROVE  [PC |-> a, dir |-> b, pred |-> c] # <<>>
<1>1. DOMAIN [PC |-> a, dir |-> b, pred |-> c] = {"PC", "dir", "pred"}
  OBVIOUS
<1>2. DOMAIN <<>> = {}
  OBVIOUS
<1>. QED  BY <1>1, <1>2

TwobitsatMet ==
    /\ next = "2bitsat" =>
           TwobitsatBranch = [context |-> twobitsat!Entry(branch.PC), dir |-> branch.dir, pred |-> predDir["2bitsat"]]
    /\ next # "2bitsat" => TwobitsatBranch = <<>>

LEMMA TwobitsatIs == TwobitsatMet
<1>1. CASE next = "2bitsat"
  <2>1. Unresolved("2bitsat") = [PC |-> branch.PC, dir |-> branch.dir, pred |-> predDir["2bitsat"]]
    BY <1>1 DEF Unresolved
  <2>2. Unresolved("2bitsat") # <<>>
    BY <2>1, NotNone
  <2>. QED  BY <1>1, <2>1, <2>2 DEF TwobitsatMet, TwobitsatBranch, twobitsat!None
<1>2. CASE next # "2bitsat"
  BY <1>2 DEF TwobitsatMet, TwobitsatBranch, twobitsat!None, Unresolved
<1>. QED  BY <1>1, <1>2

LEMMA EntryType ==
    ASSUME NEW PC \in PCs
    PROVE  twobitsat!Entry(PC) \in twobitsat!Entries
<1>1. PC \in Nat /\ TABLE_SIZE \in Nat \ {0}
  BY CbpAssumption
<1>. QED  BY <1>1, Quotient DEF twobitsat!Entry, twobitsat!Entries

LEMMA TwobitsatInit ==
    ASSUME Init
    PROVE  TwobitsatTypes /\ twobitsat!Table!Init
<1>1. TwobitsatBranch = <<>>
  BY TwobitsatIs DEF Init, TwobitsatMet
<1>. QED  BY <1>1 DEF Init, twobitsat!Init_2bitsat, TwobitsatTypes, twobitsat!Table!Init, twobitsat!Table!None,
                      TwobitsatBranch

LEMMA TwobitsatStep ==
    ASSUME PredictionInv, TwobitsatTypes, [Next]_vars
    PROVE  TwobitsatTypes' /\ [twobitsat!Table!Next]_<<twobitsat_prediction_table, TwobitsatBranch>>
<1>. DEFINE c == twobitsat!Entry(branch.PC)
<1>. DEFINE r(p) == [context |-> c, dir |-> branch.dir, pred |-> p]
<1>5. \A p : r(p) # <<>>
  <2>. TAKE p
  <2>1. DOMAIN r(p) = {"context", "dir", "pred"} /\ DOMAIN <<>> = {}
    OBVIOUS
  <2>. QED  BY <2>1
<1>6. TwobitsatMet /\ TwobitsatMet'
  BY TwobitsatIs, PTL
<1>1. CASE GetPrediction
  <2>1. /\ branch \in Branches /\ branch' = branch /\ next = "GetPrediction" /\ next' = "2bitsat"
        /\ twobitsat_prediction_table' = twobitsat_prediction_table
        /\ predDir'["2bitsat"] = twobitsat!GetPrediction_2bitsat(branch.PC)
    BY <1>1 DEF GetPrediction, input, PredictionInv, TracePlaced, Predictors
  <2>2. c \in twobitsat!Entries /\ branch.dir \in BOOLEAN
    BY <2>1, EntryType DEF Branches
  <2>3. TwobitsatBranch = <<>> /\ TwobitsatBranch' = [context |-> c, dir |-> branch.dir, pred |-> predDir'["2bitsat"]]
    BY <1>6, <2>1 DEF TwobitsatMet, twobitsat!Entry
  <2>4. predDir'["2bitsat"] = (twobitsat_prediction_table[c] >= 2)
    <3>1. twobitsat_prediction_table[c] \in 0 .. 3
      BY <2>2 DEF TwobitsatTypes
    <3>. QED  BY <2>1, <3>1 DEF twobitsat!GetPrediction_2bitsat
  <2>5. twobitsat!Table!Predict(c, branch.dir)
    BY <2>1, <2>3, <2>4 DEF twobitsat!Table!Predict, twobitsat!Table!None, TwobitsatBranch
  <2>. QED  BY <2>1, <2>2, <2>5 DEF twobitsat!Table!Next, TwobitsatTypes, twobitsat!Entries
<1>2. CASE Update_2bitsat
  <2>1. /\ branch \in Branches /\ branch' = branch /\ next = "2bitsat" /\ next' = "2level"
        /\ twobitsat_prediction_table' = [twobitsat_prediction_table EXCEPT ![c] =
               twobitsat!Train(@, branch.dir, 3)]
    BY <1>2 DEF Update_2bitsat, input, PredictionInv, TracePlaced, Predictors,
                twobitsat!UpdatePredictor_2bitsat, twobitsat!MAX_VALUE
  <2>2. c \in twobitsat!Entries /\ branch.dir \in BOOLEAN
    BY <2>1, EntryType DEF Branches
  <2>3. TwobitsatBranch = [context |-> c, dir |-> branch.dir, pred |-> predDir["2bitsat"]] /\ TwobitsatBranch' = <<>>
    BY <1>6, <2>1 DEF TwobitsatMet
  <2>4. twobitsat!Train(twobitsat_prediction_table[c], branch.dir, 3) \in 0 .. 3
    BY <2>2 DEF TwobitsatTypes, twobitsat!Train, twobitsat!SatIncrement, twobitsat!SatDecrement, twobitsat!TAKEN
  <2>5. TwobitsatTypes'
    BY <2>1, <2>2, <2>4 DEF TwobitsatTypes, twobitsat!Entries
  <2>6. twobitsat!Table!Resolve
    <3>1. TwobitsatBranch # <<>> /\ TwobitsatBranch.context = c /\ TwobitsatBranch.dir = branch.dir
      BY <1>5, <2>3
    <3>2. \A x : twobitsat!Table!Train(x, branch.dir, 3) = twobitsat!Train(x, branch.dir, 3)
      BY DEF twobitsat!Table!Train, twobitsat!Table!SatIncrement, twobitsat!Table!SatDecrement, twobitsat!Table!TAKEN,
             twobitsat!Train, twobitsat!SatIncrement, twobitsat!SatDecrement, twobitsat!TAKEN
    <3>3. twobitsat_prediction_table' = [twobitsat_prediction_table EXCEPT ![c] =
              twobitsat!Table!Train(@, branch.dir, 3)]
      BY <2>1, <3>2
    <3>. HIDE DEF c
    <3>. QED  BY <2>3, <3>1, <3>3 DEF twobitsat!Table!Resolve, twobitsat!Table!None, TwobitsatBranch
  <2>. QED  BY <2>5, <2>6 DEF twobitsat!Table!Next
<1>3. CASE GetNextRecord \/ Update_2level \/ Update_openend
  <2>1. next # "2bitsat" /\ next' # "2bitsat" /\ twobitsat_prediction_table' = twobitsat_prediction_table
    BY <1>3 DEF GetNextRecord, Update_2level, Update_openend
  <2>. QED  BY <1>6, <2>1 DEF TwobitsatMet, TwobitsatTypes, twobitsat!Entries
<1>4. CASE UNCHANGED vars
  BY <1>4 DEF vars, input, TwobitsatTypes, twobitsat!Entries, TwobitsatBranch, Unresolved
<1>. QED  BY <1>1, <1>2, <1>3, <1>4 DEF Next

\* Whatever branches are met, the two-bit predictor is a table of two-bit
\* counters, one for each entry (predictor.cc:17-33).
THEOREM TwobitsatIsCounterTable == Spec => twobitsat!ImplementsCounterTable
<1>1. Init => TwobitsatTypes /\ twobitsat!Table!Init
  BY TwobitsatInit
<1>2. PredictionInv /\ TwobitsatTypes /\ [Next]_vars =>
          TwobitsatTypes' /\ [twobitsat!Table!Next]_<<twobitsat_prediction_table, TwobitsatBranch>>
  BY TwobitsatStep
<1>. QED  BY <1>1, <1>2, PredictionInvariant, PTL
          DEF Spec, twobitsat!ImplementsCounterTable, twobitsat!Table!Spec, TwobitsatBranch

-----------------------------------------------------------------------------
(* The number that the last outcomes spell                                 *)

Outcomes == [1 .. HIST_BITS -> BOOLEAN]
Bit(b) == IF b THEN 1 ELSE 0
Modulus == twolevel!Pow2[HIST_BITS]

\* u[i] is the number that the first i outcomes of s spell
Spells(s) == {u \in [0 .. HIST_BITS -> Nat] : u[0] = 0 /\ \A i \in 1 .. HIST_BITS : u[i] = 2 * u[i - 1] + Bit(s[i])}

LEMMA ValueOf ==
    ASSUME NEW s \in Outcomes
    PROVE  \E u \in Spells(s) : twolevel!Value(s) = u[HIST_BITS]
<1>. DEFINE F == [x \in Nat \X Nat |-> 2 * x[2] + Bit(s[x[1] + 1])]
            IsUpto(f) == f = [i \in 0 .. HIST_BITS |-> IF i = 0 THEN 0 ELSE 2 * f[i - 1] + (IF s[i] THEN 1 ELSE 0)]
            upto == CHOOSE f : IsUpto(f)
<1>1. F \in StepFunctions(Nat) /\ HIST_BITS \in Nat
  BY CbpAssumption, SMTT(30) DEF StepFunctions, Bit
<1>2. \A n, v \in Nat : F[<<n, v>>] = 2 * v + Bit(s[n + 1])
  OBVIOUS
<1>. HIDE DEF F
<1>3. PICK g \in Iterates(Nat, 0, F) : TRUE
  BY <1>1, Recursion
<1>4. g \in [Nat -> Nat] /\ g[0] = 0 /\ \A n \in Nat : g[n + 1] = 2 * g[n] + Bit(s[n + 1])
  BY <1>2, <1>3 DEF Iterates
<1>. DEFINE h == [i \in 0 .. HIST_BITS |-> g[i]]
<1>5. ASSUME NEW i \in 0 .. HIST_BITS
      PROVE  h[i] = IF i = 0 THEN 0 ELSE 2 * h[i - 1] + (IF s[i] THEN 1 ELSE 0)
  <2>1. CASE i = 0
    BY <1>4, <2>1
  <2>2. CASE i # 0
    <3>1. i - 1 \in Nat /\ (i - 1) + 1 = i /\ i - 1 \in 0 .. HIST_BITS
      BY <1>1, <2>2
    <3>2. g[i] = 2 * g[i - 1] + Bit(s[i])
      BY <1>4, <3>1
    <3>. QED  BY <2>2, <3>1, <3>2 DEF Bit
  <2>. QED  BY <2>1, <2>2
<1>6. IsUpto(h)
  <2>1. h = [i \in 0 .. HIST_BITS |-> h[i]]
    OBVIOUS
  <2>. HIDE DEF h
  <2>. QED  BY <1>5, <2>1
<1>7. IsUpto(upto)
  <2>. HIDE DEF IsUpto, h
  <2>. QED  BY <1>6
<1>8. twolevel!Value(s) = upto[HIST_BITS]
  BY DEF twolevel!Value
<1>. HIDE DEF upto
<1>9. \A i \in 0 .. HIST_BITS : upto[i] = IF i = 0 THEN 0 ELSE 2 * upto[i - 1] + (IF s[i] THEN 1 ELSE 0)
  BY <1>7
<1>. DEFINE T == {n \in Nat : n \in 0 .. HIST_BITS => upto[n] \in Nat}
<1>10. 0 \in T
  BY <1>9
<1>11. ASSUME NEW n \in T  PROVE n + 1 \in T
  <2>1. CASE n + 1 \in 0 .. HIST_BITS
    <3>1. n \in Nat /\ n \in 0 .. HIST_BITS /\ n + 1 # 0 /\ (n + 1) - 1 = n
      BY <1>1, <2>1
    <3>2. upto[n + 1] = 2 * upto[n] + (IF s[n + 1] THEN 1 ELSE 0) /\ upto[n] \in Nat
      BY <1>9, <2>1, <3>1
    <3>. QED  BY <3>1, <3>2
  <2>. QED  BY <2>1
<1>12. \A n \in Nat : n \in T
  <2>1. T \in SUBSET Nat
    OBVIOUS
  <2>. HIDE DEF T
  <2>. QED  BY <1>10, <1>11, <2>1, Induction
<1>13. upto \in [0 .. HIST_BITS -> Nat]
  <2>1. \A i \in 0 .. HIST_BITS : upto[i] \in Nat
    <3>1. \A i \in 0 .. HIST_BITS : i \in Nat
      BY <1>1
    <3>. QED  BY <1>12, <3>1
  <2>2. upto = [i \in 0 .. HIST_BITS |-> upto[i]]
    BY <1>7, <1>9
  <2>. QED  BY <2>1, <2>2
<1>14. upto \in Spells(s)
  BY <1>1, <1>9, <1>13, SMTT(30) DEF Spells, Bit
<1>. QED  BY <1>8, <1>14

\* The first i outcomes spell less than 2 ^ i
LEMMA SpellsBound ==
    ASSUME NEW s \in Outcomes, NEW u \in Spells(s), NEW m \in 0 .. HIST_BITS
    PROVE  u[m] \in 0 .. twolevel!Pow2[m] - 1
<1>. DEFINE p == twolevel!Pow2
            T == {n \in Nat : n \in 0 .. HIST_BITS => u[n] \in 0 .. p[n] - 1}
<1>1. /\ p \in [Nat -> Nat \ {0}] /\ p[0] = 1 /\ \A n \in Nat : p[n + 1] = 2 * p[n]
      /\ HIST_BITS \in Nat
  BY CbpAssumption, PowersOfTwo
<1>. HIDE DEF p
<1>2. 0 \in T
  BY <1>1 DEF Spells
<1>3. ASSUME NEW n \in T  PROVE n + 1 \in T
  <2>1. CASE n + 1 \in 0 .. HIST_BITS
    <3>1. n \in Nat /\ n \in 0 .. HIST_BITS /\ n + 1 \in 1 .. HIST_BITS /\ (n + 1) - 1 = n
      BY <1>1, <2>1
    <3>2. u[n + 1] = 2 * u[n] + Bit(s[n + 1]) /\ u[n] \in 0 .. p[n] - 1
      BY <3>1 DEF Spells
    <3>3. p[n + 1] = 2 * p[n] /\ p[n] \in Nat
      BY <1>1, <3>1
    <3>. QED  BY <3>1, <3>2, <3>3 DEF Bit
  <2>. QED  BY <2>1
<1>4. \A n \in Nat : n \in T
  <2>1. T \in SUBSET Nat
    OBVIOUS
  <2>. HIDE DEF T
  <2>. QED  BY <1>2, <1>3, <2>1, Induction
<1>. QED  BY <1>1, <1>4 DEF p

LEMMA ValueType ==
    ASSUME NEW s \in Outcomes
    PROVE  twolevel!Value(s) \in twolevel!Patterns
<1>1. PICK u \in Spells(s) : twolevel!Value(s) = u[HIST_BITS]
  BY ValueOf
<1>2. HIST_BITS \in 0 .. HIST_BITS
  BY CbpAssumption
<1>. QED  BY <1>1, <1>2, SpellsBound DEF twolevel!Patterns

\* Different outcomes spell different numbers
LEMMA ValueInjective ==
    ASSUME NEW s \in Outcomes, NEW t \in Outcomes, twolevel!Value(s) = twolevel!Value(t)
    PROVE  s = t
<1>1. PICK u \in Spells(s) : twolevel!Value(s) = u[HIST_BITS]
  BY ValueOf
<1>2. PICK v \in Spells(t) : twolevel!Value(t) = v[HIST_BITS]
  BY ValueOf
<1>3. HIST_BITS \in Nat
  BY CbpAssumption
<1>. DEFINE T == {n \in Nat : n \in 0 .. HIST_BITS /\ u[n] = v[n] => \A i \in 1 .. n : s[i] = t[i]}
<1>4. 0 \in T
  OBVIOUS
<1>5. ASSUME NEW n \in T  PROVE n + 1 \in T
  <2>1. CASE n + 1 \in 0 .. HIST_BITS /\ u[n + 1] = v[n + 1]
    <3>1. n \in Nat /\ n \in 0 .. HIST_BITS /\ n + 1 \in 1 .. HIST_BITS /\ (n + 1) - 1 = n
      BY <1>3, <2>1
    <3>2. u[n + 1] = 2 * u[n] + Bit(s[n + 1]) /\ v[n + 1] = 2 * v[n] + Bit(t[n + 1]) /\ u[n] \in Nat /\ v[n] \in Nat
      BY <3>1 DEF Spells
    <3>3. s[n + 1] \in BOOLEAN /\ t[n + 1] \in BOOLEAN
      BY <3>1 DEF Outcomes
    <3>4. u[n] = v[n] /\ Bit(s[n + 1]) = Bit(t[n + 1])
      <4>1. \A x, y \in Nat : \A a, b \in 0 .. 1 : 2 * x + a = 2 * y + b => x = y /\ a = b
        OBVIOUS
      <4>2. Bit(s[n + 1]) \in 0 .. 1 /\ Bit(t[n + 1]) \in 0 .. 1
        BY DEF Bit
      <4>. DEFINE a == Bit(s[n + 1])
                  b == Bit(t[n + 1])
      <4>3. a \in 0 .. 1 /\ b \in 0 .. 1 /\ 2 * u[n] + a = 2 * v[n] + b
        BY <2>1, <3>2, <4>2
      <4>. HIDE DEF a, b
      <4>4. u[n] = v[n] /\ a = b
        BY <3>2, <4>1, <4>3
      <4>. QED  BY <4>4 DEF a, b
    <3>5. s[n + 1] = t[n + 1]
      BY <3>3, <3>4 DEF Bit
    <3>6. \A i \in 1 .. n : s[i] = t[i]
      BY <3>1, <3>4
    <3>7. ASSUME NEW i \in 1 .. n + 1  PROVE s[i] = t[i]
      <4>1. i = n + 1 \/ i \in 1 .. n
        BY <3>1
      <4>. QED  BY <3>5, <3>6, <4>1
    <3>. QED  BY <3>1, <3>7
  <2>. QED  BY <2>1
<1>6. \A n \in Nat : n \in T
  <2>1. T \in SUBSET Nat
    OBVIOUS
  <2>. HIDE DEF T
  <2>. QED  BY <1>4, <1>5, <2>1, Induction
<1>7. \A i \in 1 .. HIST_BITS : s[i] = t[i]
  <2>1. HIST_BITS \in T /\ HIST_BITS \in 0 .. HIST_BITS
    BY <1>3, <1>6
  <2>. QED  BY <1>1, <1>2, <2>1
<1>. QED
  <2>1. s = [i \in 1 .. HIST_BITS |-> s[i]] /\ t = [i \in 1 .. HIST_BITS |-> t[i]]
    BY DEF Outcomes
  <2>2. [i \in 1 .. HIST_BITS |-> s[i]] = [i \in 1 .. HIST_BITS |-> t[i]]
    BY <1>7
  <2>. QED  BY <2>1, <2>2

\* The outcomes after one more
Later(s, d) == [i \in 1 .. HIST_BITS |-> IF i < HIST_BITS THEN s[i + 1] ELSE d]

LEMMA LaterIsTail ==
    ASSUME NEW s \in Outcomes, NEW d \in BOOLEAN
    PROVE  Later(s, d) \in Outcomes /\ Tail(Append(s, d)) = Later(s, d)
<1>1. HIST_BITS \in Nat \ {0}
  BY CbpAssumption
<1>2. Later(s, d) \in Outcomes
  BY <1>1 DEF Later, Outcomes
<1>3. s \in Seq(BOOLEAN) /\ Len(s) = HIST_BITS
  BY <1>1 DEF Outcomes
<1>4. /\ Append(s, d) \in Seq(BOOLEAN) /\ Len(Append(s, d)) = HIST_BITS + 1
      /\ \A i \in 1 .. HIST_BITS + 1 : Append(s, d)[i] = IF i = HIST_BITS + 1 THEN d ELSE s[i]
  BY <1>1, <1>3
<1>. DEFINE a == Append(s, d)
<1>. HIDE DEF a
<1>5. /\ Tail(a) \in Seq(BOOLEAN) /\ Len(Tail(a)) = HIST_BITS
      /\ \A i \in 1 .. HIST_BITS : Tail(a)[i] = a[i + 1]
  BY <1>1, <1>4 DEF a
<1>6. \A i \in 1 .. HIST_BITS : Tail(a)[i] = Later(s, d)[i]
  <2>. TAKE i \in 1 .. HIST_BITS
  <2>1. i + 1 \in 1 .. HIST_BITS + 1 /\ (i + 1 = HIST_BITS + 1 <=> i = HIST_BITS) /\ (i < HIST_BITS <=> i # HIST_BITS)
    BY <1>1
  <2>2. Tail(a)[i] = IF i = HIST_BITS THEN d ELSE s[i + 1]
    BY <1>4, <1>5, <2>1 DEF a
  <2>. QED  BY <2>1, <2>2 DEF Later
<1>7. Tail(a) = Later(s, d)
  <2>1. Later(s, d) \in Seq(BOOLEAN) /\ Len(Later(s, d)) = HIST_BITS
    BY <1>1, <1>2 DEF Outcomes
  <2>. QED  BY <1>1, <1>5, <1>6, <2>1
<1>. QED  BY <1>2, <1>7 DEF a

\* One more outcome shifts the number and drops its highest bit
LEMMA ValueShifts ==
    ASSUME NEW s \in Outcomes, NEW d \in BOOLEAN
    PROVE  /\ twolevel!Value(s) \in Nat /\ Modulus \in Nat \ {0}
           /\ twolevel!Value(Later(s, d)) \in 0 .. Modulus - 1
           /\ \/ 2 * twolevel!Value(s) + Bit(d) = twolevel!Value(Later(s, d))
              \/ 2 * twolevel!Value(s) + Bit(d) = twolevel!Value(Later(s, d)) + Modulus
<1>. DEFINE p == twolevel!Pow2
            W(n) == IF s[1] THEN p[n] ELSE 0
<1>1. /\ p \in [Nat -> Nat \ {0}] /\ p[0] = 1 /\ \A n \in Nat : p[n + 1] = 2 * p[n]
      /\ HIST_BITS \in Nat \ {0}
  BY CbpAssumption, PowersOfTwo
<1>. HIDE DEF p
<1>2. Later(s, d) \in Outcomes
  BY LaterIsTail
<1>3. PICK u \in Spells(s) : twolevel!Value(s) = u[HIST_BITS]
  BY ValueOf
<1>4. PICK v \in Spells(Later(s, d)) : twolevel!Value(Later(s, d)) = v[HIST_BITS]
  BY <1>2, ValueOf
<1>. DEFINE T == {n \in Nat : n + 1 \in 1 .. HIST_BITS => u[n + 1] = v[n] + W(n)}
<1>5. 0 \in T
  <2>1. 1 \in 1 .. HIST_BITS /\ u[1] = 2 * u[0] + Bit(s[1]) /\ u[0] = 0 /\ v[0] = 0
    BY <1>1 DEF Spells
  <2>. QED  BY <1>1, <2>1 DEF Bit
<1>6. ASSUME NEW n \in T  PROVE n + 1 \in T
  <2>1. CASE (n + 1) + 1 \in 1 .. HIST_BITS
    <3>1. /\ n \in Nat /\ n + 1 \in 1 .. HIST_BITS /\ ((n + 1) + 1) - 1 = n + 1 /\ (n + 1) - 1 = n
          /\ n + 1 < HIST_BITS
      BY <1>1, <2>1
    <3>2. u[(n + 1) + 1] = 2 * u[n + 1] + Bit(s[(n + 1) + 1])
      BY <2>1, <3>1 DEF Spells
    <3>3. v[n + 1] = 2 * v[n] + Bit(Later(s, d)[n + 1]) /\ Later(s, d)[n + 1] = s[(n + 1) + 1]
      BY <3>1 DEF Spells, Later
    <3>4. u[n + 1] = v[n] + W(n) /\ p[n + 1] = 2 * p[n] /\ p[n] \in Nat
      BY <1>1, <3>1
    <3>5. v[n] \in Nat /\ n \in 0 .. HIST_BITS
      BY <1>1, <3>1 DEF Spells
    <3>6. u[(n + 1) + 1] = v[n + 1] + W(n + 1)
      BY <3>2, <3>3, <3>4, <3>5 DEF Bit
    <3>. QED  BY <3>1, <3>6
  <2>. QED  BY <2>1
<1>7. \A n \in Nat : n \in T
  <2>1. T \in SUBSET Nat
    OBVIOUS
  <2>. HIDE DEF T
  <2>. QED  BY <1>5, <1>6, <2>1, Induction
<1>8. HIST_BITS - 1 \in Nat /\ (HIST_BITS - 1) + 1 = HIST_BITS /\ HIST_BITS \in 1 .. HIST_BITS /\ HIST_BITS - 1 \in 0 .. HIST_BITS
  BY <1>1
<1>9. u[HIST_BITS] = v[HIST_BITS - 1] + W(HIST_BITS - 1)
  <2>1. HIST_BITS - 1 \in T
    BY <1>7, <1>8
  <2>. QED  BY <1>8, <2>1
<1>10. v[HIST_BITS] = 2 * v[HIST_BITS - 1] + Bit(d) /\ v[HIST_BITS - 1] \in Nat /\ u[HIST_BITS] \in Nat
  <2>1. Later(s, d)[HIST_BITS] = d
    BY <1>8 DEF Later
  <2>. QED  BY <1>8, <2>1 DEF Spells
<1>11. Modulus = 2 * p[HIST_BITS - 1] /\ p[HIST_BITS - 1] \in Nat \ {0} /\ Modulus = p[HIST_BITS]
  BY <1>1, <1>8 DEF Modulus, p
<1>12. v[HIST_BITS] \in 0 .. Modulus - 1
  BY <1>2, <1>4, <1>8, SpellsBound DEF Modulus
<1>13. \/ 2 * u[HIST_BITS] + Bit(d) = v[HIST_BITS]
       \/ 2 * u[HIST_BITS] + Bit(d) = v[HIST_BITS] + Modulus
  BY <1>9, <1>10, <1>11 DEF Bit
<1>. QED  BY <1>3, <1>4, <1>10, <1>11, <1>12, <1>13

\* A number and the same plus m are the same modulo m
LEMMA Wraps ==
    ASSUME NEW m \in Nat \ {0}, NEW v \in 0 .. m - 1, NEW x \in Nat, x = v \/ x = v + m
    PROVE  x % m = v
<1>1. v % m = v
  OBVIOUS
<1>2. (v + m) % m = v
  OBVIOUS
<1>. QED  BY <1>1, <1>2

-----------------------------------------------------------------------------
(* The two-level predictor is a table of counters                          *)

TwolevelTypes ==
    /\ BHT \in [twolevel!Rows -> Nat]
    /\ PHT \in [twolevel!PhtTables -> [twolevel!Patterns -> 0 .. 3]]
    /\ outcomes \in [twolevel!Rows -> Outcomes]

\* A row of the BHT indexes the PHT with its last outcomes
RowsSpell == \A r \in twolevel!Rows : BHT[r] % Modulus = twolevel!Value(outcomes[r])

TwolevelCounter == [c \in twolevel!Contexts |-> PHT[c[1]][twolevel!Value(c[2])]]

TwolevelBranch ==
    IF Unresolved("2level") = twolevel!None THEN twolevel!None
    ELSE [context |-> <<twolevel!PhtTable(Unresolved("2level").PC), outcomes[twolevel!Row(Unresolved("2level").PC)]>>,
          dir |-> Unresolved("2level").dir, pred |-> Unresolved("2level").pred]

TwolevelMet ==
    /\ next \in {"2bitsat", "2level"} =>
           TwolevelBranch = [context |-> <<twolevel!PhtTable(branch.PC), outcomes[twolevel!Row(branch.PC)]>>,
                             dir |-> branch.dir, pred |-> predDir["2level"]]
    /\ next \notin {"2bitsat", "2level"} => TwolevelBranch = <<>>

LEMMA TwolevelIs == TwolevelMet
<1>1. CASE next \in {"2bitsat", "2level"}
  <2>1. Unresolved("2level") = [PC |-> branch.PC, dir |-> branch.dir, pred |-> predDir["2level"]]
    BY <1>1 DEF Unresolved
  <2>2. Unresolved("2level") # <<>>
    BY <2>1, NotNone
  <2>. QED  BY <1>1, <2>1, <2>2 DEF TwolevelMet, TwolevelBranch, twolevel!None
<1>2. CASE next \notin {"2bitsat", "2level"}
  BY <1>2 DEF TwolevelMet, TwolevelBranch, twolevel!None, Unresolved
<1>. QED  BY <1>1, <1>2

LEMMA RowType ==
    ASSUME NEW PC \in PCs
    PROVE  twolevel!Row(PC) \in twolevel!Rows /\ twolevel!PhtTable(PC) \in twolevel!PhtTables
<1>1. PC \in Nat /\ PHT_TABLES \in Nat \ {0} /\ BHT_ENTRIES \in Nat \ {0}
  BY CbpAssumption
<1>2. PC \div PHT_TABLES \in Nat
  BY <1>1, Quotient
<1>. QED  BY <1>1, <1>2, Quotient DEF twolevel!Row, twolevel!Rows, twolevel!PhtTable, twolevel!PhtTables

\* A context is a table of the PHT and the last outcomes of a row
LEMMA ContextType ==
    ASSUME TwolevelTypes, NEW PC \in PCs
    PROVE  <<twolevel!PhtTable(PC), outcomes[twolevel!Row(PC)]>> \in twolevel!Contexts
BY RowType DEF TwolevelTypes, twolevel!Contexts, Outcomes

\* A branch finds the counter of its context
LEMMA HistoryIs ==
    ASSUME TwolevelTypes, RowsSpell, NEW PC \in PCs
    PROVE  /\ twolevel!History(PC) = twolevel!Value(outcomes[twolevel!Row(PC)])
           /\ twolevel!History(PC) \in twolevel!Patterns
BY RowType, ValueType DEF RowsSpell, TwolevelTypes, twolevel!History, Modulus

LEMMA TwolevelInit ==
    ASSUME Init
    PROVE  TwolevelTypes /\ RowsSpell /\ twolevel!Table!Init
<1>. DEFINE none == [i \in 1 .. HIST_BITS |-> FALSE]
<1>1. /\ BHT = [r \in twolevel!Rows |-> 0]
      /\ PHT = [t \in twolevel!PhtTables |-> [h \in twolevel!Patterns |-> 0]]
      /\ outcomes = [r \in twolevel!Rows |-> none]
      /\ next = "GetNextRecord"
  BY DEF Init, twolevel!Init_2level, twolevel!NOT_TAKEN
<1>2. none \in Outcomes
  BY DEF Outcomes
<1>3. TwolevelTypes
  BY <1>1, <1>2 DEF TwolevelTypes
<1>4. twolevel!Value(none) = 0
  <2>1. PICK u \in Spells(none) : twolevel!Value(none) = u[HIST_BITS]
    BY <1>2, ValueOf
  <2>. DEFINE T == {n \in Nat : n \in 0 .. HIST_BITS => u[n] = 0}
  <2>2. 0 \in T
    BY DEF Spells
  <2>3. ASSUME NEW n \in T  PROVE n + 1 \in T
    <3>1. CASE n + 1 \in 0 .. HIST_BITS
      <4>1. n \in Nat /\ n \in 0 .. HIST_BITS /\ n + 1 \in 1 .. HIST_BITS /\ (n + 1) - 1 = n /\ ~none[n + 1]
        BY <3>1, CbpAssumption
      <4>2. u[n + 1] = 2 * u[n] + Bit(none[n + 1]) /\ u[n] = 0
        BY <4>1 DEF Spells
      <4>. QED  BY <4>1, <4>2 DEF Bit
    <3>. QED  BY <3>1
  <2>4. \A n \in Nat : n \in T
    <3>1. T \in SUBSET Nat
      OBVIOUS
    <3>. HIDE DEF T
    <3>. QED  BY <2>2, <2>3, <3>1, Induction
  <2>5. HIST_BITS \in Nat /\ HIST_BITS \in 0 .. HIST_BITS
    BY CbpAssumption
  <2>6. HIST_BITS \in T
    BY <2>4, <2>5
  <2>. QED  BY <2>1, <2>5, <2>6
<1>. HIDE DEF none
<1>5. RowsSpell
  <2>1. Modulus \in Nat \ {0}
    BY CbpAssumption, PowersOfTwo DEF Modulus
  <2>2. 0 % Modulus = 0
    BY <2>1
  <2>. QED  BY <1>1, <1>4, <2>2 DEF RowsSpell
<1>6. TwolevelBranch = <<>>
  BY <1>1, TwolevelIs DEF TwolevelMet
<1>7. TwolevelCounter = [c \in twolevel!Contexts |-> 0]
  <2>1. ASSUME NEW c \in twolevel!Contexts  PROVE PHT[c[1]][twolevel!Value(c[2])] = 0
    <3>1. c[1] \in twolevel!PhtTables /\ c[2] \in Outcomes
      BY DEF twolevel!Contexts, Outcomes
    <3>. QED  BY <1>1, <3>1, ValueType
  <2>. QED  BY <2>1 DEF TwolevelCounter
<1>. QED  BY <1>3, <1>5, <1>6, <1>7 DEF twolevel!Table!Init, twolevel!Table!None, TwolevelBranch, TwolevelCounter

\* The update trains the counter of the context and shifts its outcomes
LEMMA TwolevelUpdate ==
    ASSUME TwolevelTypes, RowsSpell, NEW PC \in PCs, NEW dir \in BOOLEAN,
           twolevel!UpdatePredictor_2level(PC, dir)
    PROVE  /\ TwolevelTypes' /\ RowsSpell'
           /\ TwolevelCounter' = [TwolevelCounter EXCEPT
                  ![<<twolevel!PhtTable(PC), outcomes[twolevel!Row(PC)]>>] = twolevel!Train(@, dir, 3)]
<1>. DEFINE r == twolevel!Row(PC)
            t == twolevel!PhtTable(PC)
            h == twolevel!History(PC)
            o == outcomes[r]
            c == <<t, o>>
            trained == twolevel!Train(PHT[t][h], dir, 3)
            shifted == 2 * twolevel!Value(o) + Bit(dir)
<1>1. r \in twolevel!Rows /\ t \in twolevel!PhtTables /\ c \in twolevel!Contexts
  BY RowType, ContextType
<1>2. h = twolevel!Value(o) /\ h \in twolevel!Patterns
  BY HistoryIs
<1>3. o \in Outcomes
  BY <1>1 DEF TwolevelTypes
<1>4. /\ PHT' = [PHT EXCEPT ![t] = [PHT[t] EXCEPT ![h] = trained]]
      /\ BHT' = [BHT EXCEPT ![r] = twolevel!Shifted(h, dir)]
      /\ outcomes' = [outcomes EXCEPT ![r] = Tail(Append(o, dir))]
  BY DEF twolevel!UpdatePredictor_2level, twolevel!Observed, twolevel!MAX_VALUE_2level
<1>5. twolevel!Shifted(h, dir) = shifted
  <2>1. h \in Nat
    BY <1>2, <1>3, ValueShifts
  <2>. QED  BY <1>2, <2>1 DEF twolevel!Shifted, Bit, twolevel!TAKEN
<1>6. Tail(Append(o, dir)) = Later(o, dir) /\ Later(o, dir) \in Outcomes
  BY <1>3, LaterIsTail
<1>7. PHT[t][h] \in 0 .. 3 /\ trained \in 0 .. 3
  BY <1>1, <1>2 DEF TwolevelTypes, twolevel!Train, twolevel!SatIncrement, twolevel!SatDecrement, twolevel!TAKEN
<1>8. /\ shifted \in Nat /\ Modulus \in Nat \ {0}
      /\ twolevel!Value(Later(o, dir)) \in 0 .. Modulus - 1
      /\ \/ shifted = twolevel!Value(Later(o, dir))
         \/ shifted = twolevel!Value(Later(o, dir)) + Modulus
  BY <1>3, ValueShifts DEF Bit
<1>. HIDE DEF r, t, h, trained, shifted, o
<1>9. TwolevelTypes'
  <2>1. BHT' \in [twolevel!Rows -> Nat] /\ outcomes' \in [twolevel!Rows -> Outcomes]
    BY <1>1, <1>4, <1>5, <1>6, <1>8 DEF TwolevelTypes
  <2>2. PHT' \in [twolevel!PhtTables -> [twolevel!Patterns -> 0 .. 3]]
    BY <1>1, <1>2, <1>4, <1>7 DEF TwolevelTypes
  <2>. QED  BY <2>1, <2>2 DEF TwolevelTypes, twolevel!Rows, twolevel!PhtTables, twolevel!Patterns, twolevel!Pow2
<1>10. ASSUME NEW row \in twolevel!Rows
       PROVE  BHT'[row] % Modulus = twolevel!Value(outcomes'[row])
  <2>1. CASE row = r
    <3>1. BHT'[row] = shifted /\ outcomes'[row] = Later(o, dir)
      BY <1>1, <1>4, <1>5, <1>6, <2>1 DEF TwolevelTypes
    <3>2. shifted % Modulus = twolevel!Value(Later(o, dir))
      BY <1>8, Wraps
    <3>. QED  BY <3>1, <3>2
  <2>2. CASE row # r
    BY <1>4, <2>2 DEF TwolevelTypes, RowsSpell
  <2>. QED  BY <2>1, <2>2
<1>11. RowsSpell'
  BY <1>10 DEF RowsSpell, twolevel!Rows, Modulus, twolevel!Pow2, twolevel!Value
<1>12. ASSUME NEW d \in twolevel!Contexts
       PROVE  PHT'[d[1]][twolevel!Value(d[2])] =
                  IF d = c THEN trained ELSE PHT[d[1]][twolevel!Value(d[2])]
  <2>1. d[1] \in twolevel!PhtTables /\ d[2] \in Outcomes /\ d = <<d[1], d[2]>>
    BY DEF twolevel!Contexts, Outcomes
  <2>2. twolevel!Value(d[2]) \in twolevel!Patterns
    BY <2>1, ValueType
  <2>3. d = c <=> d[1] = t /\ twolevel!Value(d[2]) = h
    BY <1>2, <1>3, <2>1, ValueInjective
  <2>4. PHT'[d[1]][twolevel!Value(d[2])] =
            IF d[1] = t /\ twolevel!Value(d[2]) = h THEN trained ELSE PHT[d[1]][twolevel!Value(d[2])]
    BY <1>1, <1>2, <1>4, <2>1, <2>2 DEF TwolevelTypes
  <2>. QED  BY <2>3, <2>4
<1>13. TwolevelCounter[c] = PHT[t][h]
  BY <1>1, <1>2 DEF TwolevelCounter
<1>14. TwolevelCounter' = [d \in twolevel!Contexts |-> PHT'[d[1]][twolevel!Value(d[2])]]
  BY DEF TwolevelCounter, twolevel!Contexts, twolevel!PhtTables, twolevel!Value
<1>15. TwolevelCounter' = [TwolevelCounter EXCEPT ![c] = trained]
  <2>. DEFINE new == [d \in twolevel!Contexts |-> IF d = c THEN trained ELSE PHT[d[1]][twolevel!Value(d[2])]]
  <2>. HIDE DEF c
  <2>1. TwolevelCounter' = new
    BY <1>12, <1>14
  <2>2. new = [TwolevelCounter EXCEPT ![c] = trained]
    BY <1>1 DEF TwolevelCounter
  <2>. QED  BY <2>1, <2>2
<1>. QED  BY <1>9, <1>11, <1>13, <1>15 DEF trained, t, o, r

LEMMA TwolevelStep ==
    ASSUME PredictionInv, TwolevelTypes, RowsSpell, [Next]_vars
    PROVE  TwolevelTypes' /\ RowsSpell' /\ [twolevel!Table!Next]_<<TwolevelCounter, TwolevelBranch>>
<1>. DEFINE c == <<twolevel!PhtTable(branch.PC), outcomes[twolevel!Row(branch.PC)]>>
            r(p) == [context |-> c, dir |-> branch.dir, pred |-> p]
<1>1. \A p : r(p) # <<>>
  <2>. TAKE p
  <2>1. DOMAIN r(p) = {"context", "dir", "pred"} /\ DOMAIN <<>> = {}
    OBVIOUS
  <2>. QED  BY <2>1
<1>2. TwolevelMet /\ TwolevelMet'
  BY TwolevelIs, PTL
<1>3. ASSUME UNCHANGED vars_2level
      PROVE  TwolevelTypes' /\ RowsSpell' /\ UNCHANGED TwolevelCounter
  BY <1>3 DEF vars_2level, TwolevelTypes, RowsSpell, TwolevelCounter, twolevel!Rows, twolevel!PhtTables,
              twolevel!Patterns, twolevel!Pow2, Modulus, twolevel!Value, twolevel!Contexts
<1>4. CASE GetPrediction
  <2>1. /\ branch \in Branches /\ branch' = branch /\ next = "GetPrediction" /\ next' = "2bitsat"
        /\ UNCHANGED vars_2level
        /\ predDir'["2level"] = twolevel!GetPrediction_2level(branch.PC)
    BY <1>4 DEF GetPrediction, input, PredictionInv, TracePlaced, Predictors
  <2>2. c \in twolevel!Contexts /\ branch.dir \in BOOLEAN /\ branch.PC \in PCs
    BY <2>1, ContextType DEF Branches
  <2>3. TwolevelBranch = <<>> /\ TwolevelBranch' = r(predDir'["2level"])
    BY <1>2, <2>1 DEF TwolevelMet, twolevel!PhtTable, twolevel!Row, vars_2level
  <2>4. predDir'["2level"] = (TwolevelCounter[c] >= 2)
    <3>. DEFINE k == PHT[twolevel!PhtTable(branch.PC)][twolevel!History(branch.PC)]
    <3>1. TwolevelCounter[c] = k
      BY <2>2, HistoryIs DEF TwolevelCounter
    <3>2. k \in 0 .. 3
      BY <2>2, HistoryIs, RowType DEF TwolevelTypes
    <3>3. predDir'["2level"] = (k > 1)
      BY <2>1 DEF twolevel!GetPrediction_2level
    <3>. HIDE DEF k
    <3>. QED  BY <3>1, <3>2, <3>3
  <2>. HIDE DEF c
  <2>5. twolevel!Table!Predict(c, branch.dir)
    BY <1>3, <2>1, <2>3, <2>4 DEF twolevel!Table!Predict, twolevel!Table!None, TwolevelBranch, TwolevelCounter
  <2>. QED  BY <1>3, <2>1, <2>2, <2>5 DEF twolevel!Table!Next
<1>5. CASE Update_2level
  <2>1. /\ branch \in Branches /\ branch' = branch /\ next = "2level" /\ next' = "openend"
        /\ twolevel!UpdatePredictor_2level(branch.PC, branch.dir)
    BY <1>5 DEF Update_2level, input, PredictionInv, TracePlaced, Predictors
  <2>2. branch.dir \in BOOLEAN /\ branch.PC \in PCs
    BY <2>1 DEF Branches
  <2>3. TwolevelBranch = r(predDir["2level"]) /\ TwolevelBranch' = <<>>
    BY <1>2, <2>1 DEF TwolevelMet
  <2>4. /\ TwolevelTypes' /\ RowsSpell'
        /\ TwolevelCounter' = [TwolevelCounter EXCEPT ![c] = twolevel!Train(@, branch.dir, 3)]
    BY <2>1, <2>2, TwolevelUpdate
  <2>5. TwolevelBranch # <<>> /\ TwolevelBranch.context = c /\ TwolevelBranch.dir = branch.dir
    BY <1>1, <2>3
  <2>6. \A x : twolevel!Table!Train(x, branch.dir, 3) = twolevel!Train(x, branch.dir, 3)
    BY DEF twolevel!Table!Train, twolevel!Table!SatIncrement, twolevel!Table!SatDecrement, twolevel!Table!TAKEN,
           twolevel!Train, twolevel!SatIncrement, twolevel!SatDecrement, twolevel!TAKEN
  <2>7. TwolevelCounter' = [TwolevelCounter EXCEPT ![c] = twolevel!Table!Train(@, branch.dir, 3)]
    BY <2>4, <2>6
  <2>. HIDE DEF c
  <2>8. twolevel!Table!Resolve
    BY <2>3, <2>5, <2>7 DEF twolevel!Table!Resolve, twolevel!Table!None, TwolevelBranch, TwolevelCounter
  <2>. QED  BY <2>4, <2>8 DEF twolevel!Table!Next
<1>6. CASE Update_2bitsat
  <2>1. /\ branch' = branch /\ next = "2bitsat" /\ next' = "2level" /\ predDir' = predDir /\ UNCHANGED vars_2level
    BY <1>6 DEF Update_2bitsat, input
  <2>2. TwolevelBranch' = TwolevelBranch
    BY <1>2, <2>1 DEF TwolevelMet, twolevel!PhtTable, twolevel!Row, vars_2level
  <2>. QED  BY <1>3, <2>1, <2>2
<1>7. CASE GetNextRecord \/ Update_openend
  <2>1. next \notin {"2bitsat", "2level"} /\ next' \notin {"2bitsat", "2level"} /\ UNCHANGED vars_2level
    BY <1>7 DEF GetNextRecord, Update_openend
  <2>2. TwolevelBranch' = TwolevelBranch
    BY <1>2, <2>1 DEF TwolevelMet
  <2>. QED  BY <1>3, <2>1, <2>2
<1>8. CASE UNCHANGED vars
  <2>1. UNCHANGED vars_2level /\ TwolevelBranch' = TwolevelBranch
    BY <1>8 DEF vars, input, vars_2level, TwolevelBranch, Unresolved, twolevel!PhtTable, twolevel!Row
  <2>. QED  BY <1>3, <2>1
<1>. QED  BY <1>4, <1>5, <1>6, <1>7, <1>8 DEF Next

\* Whatever branches are met, the two-bit and the two-level predictor are
\* tables of independent two-bit counters: one for each entry, and one for
\* each table of the PHT and each sequence of HIST_BITS outcomes
\* (predictor.cc:17-59).
THEOREM PredictorsAreCounterTables == Spec => AreCounterTables
<1>1. Init => TwolevelTypes /\ RowsSpell /\ twolevel!Table!Init
  BY TwolevelInit
<1>2. PredictionInv /\ TwolevelTypes /\ RowsSpell /\ [Next]_vars =>
          TwolevelTypes' /\ RowsSpell' /\ [twolevel!Table!Next]_<<TwolevelCounter, TwolevelBranch>>
  BY TwolevelStep
<1>3. Spec => twolevel!ImplementsCounterTable
  BY <1>1, <1>2, PredictionInvariant, PTL
     DEF Spec, twolevel!ImplementsCounterTable, twolevel!Table!Spec, TwolevelBranch, TwolevelCounter
<1>. QED  BY <1>3, TwobitsatIsCounterTable DEF AreCounterTables

-----------------------------------------------------------------------------
(* What a set of counters has still to learn                               *)

Towards(v, d, max) == IF d THEN IF v < max THEN v + 1 ELSE v ELSE IF v > 0 THEN v - 1 ELSE v

\* The three modules of the predictors train alike
LEMMA TrainIs ==
    ASSUME NEW v, NEW d, NEW max
    PROVE  /\ twobitsat!Train(v, d, max) = Towards(v, d, max)
           /\ twolevel!Train(v, d, max) = Towards(v, d, max)
           /\ openend!Train(v, d, max) = Towards(v, d, max)
BY DEF Towards,
       twobitsat!Train, twobitsat!SatIncrement, twobitsat!SatDecrement, twobitsat!TAKEN,
       twolevel!Train, twolevel!SatIncrement, twolevel!SatDecrement, twolevel!TAKEN,
       openend!Train, openend!SatIncrement, openend!SatDecrement, openend!TAKEN

\* The mispredictions a counter makes before it says direction d, if it is
\* trained towards d: it says taken from half on.
ToGo(v, half, d) ==
    IF d THEN IF v < half THEN half - v ELSE 0 ELSE IF v >= half THEN v - half + 1 ELSE 0

\* A counter trained towards a direction has one misprediction less to go
\* after each, and none once it says it.
LEMMA TwoBitToGo ==
    ASSUME NEW v \in 0 .. 3, NEW d \in BOOLEAN
    PROVE  /\ ToGo(v, 2, d) \in 0 .. 2
           /\ (v >= 2 <=> d) => ToGo(v, 2, d) = 0 /\ ToGo(Towards(v, d, 3), 2, d) = 0
           /\ ~(v >= 2 <=> d) => ToGo(Towards(v, d, 3), 2, d) = ToGo(v, 2, d) - 1
<1>1. CASE d
  BY <1>1 DEF ToGo, Towards
<1>2. CASE ~d
  BY <1>2 DEF ToGo, Towards
<1>. QED  BY <1>1, <1>2

\* The mispredictions that the counters K of the contexts C make before they
\* all say the directions D
Wrong(C, K, D) == {p \in C \X {1, 2} : p[2] <= ToGo(K[p[1]], 2, D[p[1]])}

\* The values of a function of the numbers up to n
LEMMA ImageBound ==
    ASSUME NEW n \in Nat, NEW f
    PROVE  LET S == {f[i] : i \in 1 .. n}
           IN  /\ IsFiniteSet(S) /\ Cardinality(S) \in 0 .. n
               /\ Cardinality(S) = 1 => \A i, j \in 1 .. n : f[i] = f[j]
<1>. DEFINE S == {f[i] : i \in 1 .. n}
            g == [i \in 1 .. n |-> f[i]]
<1>1. g \in Surjection(1 .. n, S)
  BY DEF Surjection
<1>2. IsFiniteSet(1 .. n) /\ Cardinality(1 .. n) = n
  BY FS_Interval
<1>3. IsFiniteSet(S) /\ Cardinality(S) <= n
  <2>. HIDE DEF S, g
  <2>. QED  BY <1>1, <1>2, FS_Surjection
<1>4. Cardinality(S) \in Nat
  <2>. HIDE DEF S
  <2>. QED  BY <1>3, FS_CardinalityType
<1>5. ASSUME Cardinality(S) = 1, NEW i \in 1 .. n, NEW j \in 1 .. n
      PROVE  f[i] = f[j]
  <2>1. PICK x : S = {x}
    <3>. HIDE DEF S
    <3>. QED  BY <1>3, <1>5, FS_Singleton
  <2>2. f[i] \in S /\ f[j] \in S
    OBVIOUS
  <2>. HIDE DEF S
  <2>. QED  BY <2>1, <2>2
<1>. QED  BY <1>3, <1>4, <1>5

\* n counters make at most 2 * n mispredictions
LEMMA WrongBound ==
    ASSUME NEW n \in Nat, NEW f, NEW C, C = {f[i] : i \in 1 .. n}, NEW K, NEW D
    PROVE  IsFiniteSet(Wrong(C, K, D)) /\ Cardinality(Wrong(C, K, D)) \in 0 .. 2 * n
<1>1. IsFiniteSet(C) /\ Cardinality(C) \in 0 .. n
  BY ImageBound
<1>2. IsFiniteSet({1, 2}) /\ Cardinality({1, 2}) = 2
  <2>1. {1, 2} = 1 .. 2
    OBVIOUS
  <2>2. \A m \in Nat : IsFiniteSet(1 .. m) /\ Cardinality(1 .. m) = m
    BY FS_Interval
  <2>3. IsFiniteSet(1 .. 2) /\ Cardinality(1 .. 2) = 2
    BY <2>2
  <2>. QED  BY <2>1, <2>3
<1>3. IsFiniteSet(C \X {1, 2}) /\ Cardinality(C \X {1, 2}) = Cardinality(C) * 2
  BY <1>1, <1>2, FS_Product
<1>. DEFINE W == Wrong(C, K, D)
<1>4. W \in SUBSET (C \X {1, 2})
  BY DEF Wrong
<1>. HIDE DEF W
<1>5. IsFiniteSet(W) /\ Cardinality(W) <= Cardinality(C \X {1, 2})
  BY <1>3, <1>4, FS_Subset
<1>6. Cardinality(W) \in Nat
  BY <1>5, FS_CardinalityType
<1>. QED  BY <1>1, <1>3, <1>5, <1>6 DEF W

\* A misprediction of a context, learned, leaves one less
LEMMA WrongStep ==
    ASSUME NEW C, NEW K, NEW L, NEW D, NEW c \in C, NEW d \in BOOLEAN, D[c] = d, K[c] \in 0 .. 3,
           L[c] = Towards(K[c], d, 3), \A b \in C : b # c => L[b] = K[b], IsFiniteSet(Wrong(C, K, D))
    PROVE  /\ (K[c] >= 2 <=> d) => Cardinality(Wrong(C, L, D)) = Cardinality(Wrong(C, K, D))
           /\ ~(K[c] >= 2 <=> d) => Cardinality(Wrong(C, L, D)) = Cardinality(Wrong(C, K, D)) - 1
<1>. DEFINE t == ToGo(K[c], 2, D[c])
<1>1. /\ t \in 0 .. 2
      /\ (K[c] >= 2 <=> d) => t = 0 /\ ToGo(L[c], 2, D[c]) = 0
      /\ ~(K[c] >= 2 <=> d) => ToGo(L[c], 2, D[c]) = t - 1
  BY TwoBitToGo
<1>2. \A b \in C : b # c => L[b] = K[b]
  OBVIOUS
<1>3. Cardinality(Wrong(C, K, D)) \in Nat
  BY FS_CardinalityType
<1>4. CASE K[c] >= 2 <=> d
  <2>1. Wrong(C, L, D) = Wrong(C, K, D)
    <3>1. ASSUME NEW b \in C  PROVE ToGo(L[b], 2, D[b]) = ToGo(K[b], 2, D[b])
      BY <1>1, <1>2, <1>4
    <3>. QED  BY <3>1 DEF Wrong
  <2>. QED  BY <1>3, <1>4, <2>1
<1>5. CASE ~(K[c] >= 2 <=> d)
  <2>1. t \in 1 .. 2
    <3>1. t \in 0 .. 2
      BY <1>1
    <3>2. t # 0
      BY <1>5 DEF ToGo
    <3>. HIDE DEF t
    <3>. QED  BY <3>1, <3>2
  <2>2. ToGo(L[c], 2, D[c]) = t - 1
    BY <1>1, <1>5
  <2>3. <<c, t>> \in Wrong(C, K, D)
    BY <2>1 DEF Wrong
  <2>4. Wrong(C, L, D) = Wrong(C, K, D) \ {<<c, t>>}
    <3>1. ASSUME NEW b \in C, NEW m \in {1, 2}
          PROVE  <<b, m>> \in Wrong(C, L, D) <=> <<b, m>> \in Wrong(C, K, D) /\ <<b, m>> # <<c, t>>
      <4>1. CASE b # c
        BY <1>2, <4>1 DEF Wrong
      <4>2. CASE b = c
        <5>1. <<b, m>> \in Wrong(C, L, D) <=> m <= t - 1
          BY <2>2, <4>2 DEF Wrong
        <5>2. <<b, m>> \in Wrong(C, K, D) <=> m <= t
          BY <4>2 DEF Wrong
        <5>. HIDE DEF t
        <5>. QED  BY <2>1, <4>2, <5>1, <5>2
      <4>. QED  BY <4>1, <4>2
    <3>2. \A W \in {Wrong(C, L, D), Wrong(C, K, D)} : W \in SUBSET (C \X {1, 2})
      BY DEF Wrong
    <3>3. ASSUME NEW p \in C \X {1, 2}
          PROVE  p \in Wrong(C, L, D) <=> p \in Wrong(C, K, D) \ {<<c, t>>}
      <4>1. PICK b \in C, m \in {1, 2} : p = <<b, m>>
        OBVIOUS
      <4>. HIDE DEF t
      <4>. QED  BY <3>1, <4>1
    <3>. HIDE DEF t
    <3>. QED  BY <3>2, <3>3
  <2>. HIDE DEF t
  <2>5. Cardinality(Wrong(C, L, D)) = Cardinality(Wrong(C, K, D)) - 1
    <3>. DEFINE W == Wrong(C, K, D)
                x == <<c, t>>
    <3>1. x \in W /\ IsFiniteSet(W) /\ Wrong(C, L, D) = W \ {x}
      BY <2>3, <2>4
    <3>. HIDE DEF W, x
    <3>2. Cardinality(W \ {x}) = Cardinality(W) - 1
      BY <3>1, FS_RemoveElement
    <3>. QED  BY <3>1, <3>2 DEF W
  <2>. QED  BY <1>3, <1>5, <2>5
<1>. QED  BY <1>4, <1>5

-----------------------------------------------------------------------------
(* The trace in its loop, and the mispredictions counted                   *)

LoopInv ==
    /\ numMispred \in [Predictors -> Nat] /\ before \in [Predictors -> Nat]
    /\ at # 0 => branch = loop[at]

\* The trace goes from its first part into a loop: nothing is counted in it
\* yet, and no predictor moves.
Enters ==
    /\ at = 0 /\ at' = 1 /\ loop' \in Loops /\ branch' = loop'[1]
    /\ before' = numMispred /\ numMispred' = numMispred
    /\ next = "GetNextRecord" /\ next' = "GetPrediction"

\* The trace stays in its loop, or outside
Stays == UNCHANGED <<loop, before>> /\ (at = 0 <=> at' = 0)

Mispredicts(p) == predDir[p] # branch.dir

\* A misprediction adds one to its own predictor's count, and nothing else does
LEMMA Counts ==
    ASSUME LoopInv, NEW p \in Predictors, CountMispred(p)
    PROVE  /\ numMispred' \in [Predictors -> Nat]
           /\ \A q \in Predictors : q # p => numMispred'[q] = numMispred[q]
           /\ numMispred'[p] <= numMispred[p] + (IF Mispredicts(p) THEN 1 ELSE 0)
<1>. DEFINE n == IF Mispredicts(p) /\ numMispred[p] < MaxMispred THEN numMispred[p] + 1 ELSE numMispred[p]
<1>1. numMispred' = [numMispred EXCEPT ![p] = n]
  BY DEF CountMispred, Mispredicts
<1>2. numMispred \in [Predictors -> Nat]
  BY DEF LoopInv
<1>3. n \in Nat /\ n <= numMispred[p] + (IF Mispredicts(p) THEN 1 ELSE 0)
  BY <1>2
<1>. HIDE DEF n
<1>. QED  BY <1>1, <1>2, <1>3

\* A step takes the trace into its loop, or leaves it in or out of it
LEMMA LoopStep ==
    ASSUME PredictionInv, LoopInv, [Next]_vars
    PROVE  /\ LoopInv'
           /\ \/ Enters /\ UNCHANGED <<twobitsat_prediction_table, vars_2level, vars_openend>>
              \/ Stays
<1>1. CASE GetNextRecord
  <2>1. at = 0 /\ UNCHANGED <<loop, at, before>> => LoopInv' /\ Stays
    BY <1>1 DEF GetNextRecord, LoopInv, Stays
  <2>2. ASSUME at = 0, loop' \in Loops, at' = 1, branch' = loop'[1], before' = numMispred
        PROVE  LoopInv' /\ Enters /\ UNCHANGED <<twobitsat_prediction_table, vars_2level, vars_openend>>
    BY <1>1, <2>2 DEF GetNextRecord, LoopInv, Enters
  <2>3. ASSUME at # 0, at' = (at % Len(loop)) + 1, branch' = loop[at'], UNCHANGED <<loop, before>>
        PROVE  LoopInv' /\ Stays
    <3>. DEFINE n == Len(loop)
    <3>1. at \in Nat /\ n \in Nat \ {0}
      BY <2>3, CbpAssumption DEF PredictionInv, TracePlaced
    <3>2. at % n \in 0 .. n - 1
      <4>. HIDE DEF n
      <4>. QED  BY <3>1, Quotient
    <3>3. at' # 0
      BY <2>3, <3>1, <3>2
    <3>. QED  BY <1>1, <2>3, <3>3 DEF GetNextRecord, LoopInv, Stays
  <2>. QED  BY <1>1, <2>1, <2>2, <2>3 DEF GetNextRecord
<1>2. CASE GetPrediction
  BY <1>2 DEF GetPrediction, input, LoopInv, Stays
<1>3. CASE Update_2bitsat \/ Update_2level \/ Update_openend
  <2>1. UNCHANGED input
    BY <1>3 DEF Update_2bitsat, Update_2level, Update_openend
  <2>2. \E p \in Predictors : CountMispred(p)
    BY <1>3 DEF Update_2bitsat, Update_2level, Update_openend, Predictors
  <2>3. numMispred' \in [Predictors -> Nat]
    BY <2>2, Counts
  <2>. QED  BY <2>1, <2>3 DEF input, LoopInv, Stays
<1>4. CASE UNCHANGED vars
  BY <1>4 DEF vars, input, LoopInv, Stays
<1>. QED  BY <1>1, <1>2, <1>3, <1>4 DEF Next

LEMMA LoopInit == Init => LoopInv
BY DEF Init, LoopInv

\* In a loop that goes one way every branch goes the way of the first, and a
\* loop of one branch has one PC
LEMMA LoopIsOne ==
    ASSUME loop \in Loops
    PROVE  /\ Len(loop) \in Nat \ {0} /\ 1 \in 1 .. Len(loop)
           /\ \A i \in 1 .. Len(loop) : loop[i] \in Branches
           /\ OneWay => \A i \in 1 .. Len(loop) : loop[i].dir = loop[1].dir
           /\ OneBranch => \A i \in 1 .. Len(loop) : loop[i].PC = loop[1].PC
<1>1. loop \in Seq(Branches) /\ loop # <<>>
  BY CbpAssumption DEF Branches
<1>. DEFINE n == Len(loop)
            d == [i \in 1 .. n |-> loop[i].dir]
            p == [i \in 1 .. n |-> loop[i].PC]
<1>2. n \in Nat \ {0} /\ 1 \in 1 .. n /\ DOMAIN loop = 1 .. n /\ \A i \in 1 .. n : loop[i] \in Branches
  BY <1>1
<1>3. ASSUME OneWay  PROVE \A i \in 1 .. n : loop[i].dir = loop[1].dir
  <2>1. Cardinality({d[i] : i \in 1 .. n}) = 1
    <3>1. {d[i] : i \in 1 .. n} = {loop[i].dir : i \in DOMAIN loop}
      BY <1>2
    <3>. QED  BY <1>3, <3>1 DEF OneWay
  <2>. HIDE DEF d
  <2>2. \A i, j \in 1 .. n : d[i] = d[j]
    BY <1>2, <2>1, ImageBound
  <2>. QED  BY <1>2, <2>2 DEF d
<1>4. ASSUME OneBranch  PROVE \A i \in 1 .. n : loop[i].PC = loop[1].PC
  <2>1. Cardinality({p[i] : i \in 1 .. n}) = 1
    <3>1. {p[i] : i \in 1 .. n} = {loop[i].PC : i \in DOMAIN loop}
      BY <1>2
    <3>. QED  BY <1>4, <3>1 DEF OneBranch
  <2>. HIDE DEF p
  <2>2. \A i, j \in 1 .. n : p[i] = p[j]
    BY <1>2, <2>1, ImageBound
  <2>. QED  BY <1>2, <2>2 DEF p
<1>. QED  BY <1>2, <1>3, <1>4

-----------------------------------------------------------------------------
(* A loop that goes one way, and the two-bit table                         *)

EntriesOf(l) == {twobitsat!Entry(l[i].PC) : i \in 1 .. Len(l)}
OneDirection(l) == [c \in EntriesOf(l) |-> l[1].dir]

TwobitsatLearns ==
    /\ next = "2bitsat" => predDir["2bitsat"] = twobitsat!GetPrediction_2bitsat(branch.PC)
    /\ at # 0 /\ OneWay =>
           InLoop("2bitsat") + Cardinality(Wrong(EntriesOf(loop), twobitsat_prediction_table, OneDirection(loop)))
               <= 2 * Len(loop)

\* What is left to learn is never more than two mispredictions a branch
LEMMA TwobitsatBound ==
    ASSUME NEW l \in Loops, NEW K, NEW D
    PROVE  /\ Len(l) \in Nat
           /\ IsFiniteSet(Wrong(EntriesOf(l), K, D))
           /\ Cardinality(Wrong(EntriesOf(l), K, D)) \in 0 .. 2 * Len(l)
<1>. DEFINE n == Len(l)
            f == [i \in 1 .. n |-> twobitsat!Entry(l[i].PC)]
<1>1. n \in Nat
  BY CbpAssumption
<1>2. EntriesOf(l) = {f[i] : i \in 1 .. n}
  BY DEF EntriesOf
<1>. HIDE DEF n, f
<1>3. IsFiniteSet(Wrong(EntriesOf(l), K, D)) /\ Cardinality(Wrong(EntriesOf(l), K, D)) \in 0 .. 2 * n
  BY <1>1, <1>2, WrongBound
<1>. QED  BY <1>1, <1>3 DEF n

\* A branch in the loop trains the counter of its entry, and no other step
\* moves the table or the count.
LEMMA TwobitsatLearnsStep ==
    ASSUME PredictionInv, LoopInv, TwobitsatTypes, TwobitsatLearns, [Next]_vars
    PROVE  TwobitsatLearns'
<1>. DEFINE table == twobitsat_prediction_table
            L == Cardinality(Wrong(EntriesOf(loop), table, OneDirection(loop)))
<1>1. (next = "2bitsat" => predDir["2bitsat"] = twobitsat!GetPrediction_2bitsat(branch.PC))'
  <2>1. CASE GetPrediction
    BY <2>1 DEF GetPrediction, input, Predictors, twobitsat!GetPrediction_2bitsat
  <2>2. CASE UNCHANGED vars
    BY <2>2 DEF vars, input, TwobitsatLearns, twobitsat!GetPrediction_2bitsat
  <2>3. CASE GetNextRecord \/ Update_2bitsat \/ Update_2level \/ Update_openend
    BY <2>3 DEF GetNextRecord, Update_2bitsat, Update_2level, Update_openend
  <2>. QED  BY <2>1, <2>2, <2>3 DEF Next
<1>2. CASE Enters
  <2>2. loop' \in Loops
    BY <1>2 DEF Enters
  <2>3. L' \in 0 .. 2 * Len(loop') /\ Len(loop') \in Nat
    BY <2>2, TwobitsatBound
  <2>4. (InLoop("2bitsat") = 0)'
    BY <1>2 DEF Enters, InLoop, LoopInv, Predictors
  <2>6. (InLoop("2bitsat") + L <= 2 * Len(loop))'
    BY <2>3, <2>4
  <2>. QED  BY <1>1, <2>6 DEF TwobitsatLearns
<1>3. CASE Stays
  <2>. SUFFICES ASSUME (at # 0)', OneWay'  PROVE (InLoop("2bitsat") + L <= 2 * Len(loop))'
    BY <1>1 DEF TwobitsatLearns
  <2>1. at # 0 /\ OneWay /\ loop' = loop /\ before' = before
    BY <1>3 DEF Stays, OneWay
  <2>2. EntriesOf(loop)' = EntriesOf(loop) /\ OneDirection(loop)' = OneDirection(loop)
    BY <2>1 DEF EntriesOf, OneDirection, twobitsat!Entry
  <2>3. InLoop("2bitsat") + L <= 2 * Len(loop)
    BY <2>1 DEF TwobitsatLearns
  <2>4. CASE Update_2bitsat
    <3>1. /\ next = "2bitsat"
          /\ table' = [table EXCEPT ![twobitsat!Entry(branch.PC)] = twobitsat!Train(@, branch.dir, 3)]
          /\ CountMispred("2bitsat")
      BY <2>4 DEF Update_2bitsat, twobitsat!UpdatePredictor_2bitsat, twobitsat!MAX_VALUE
    <3>. DEFINE c == twobitsat!Entry(branch.PC)
    <3>2. branch = loop[at] /\ at \in 1 .. Len(loop) /\ loop \in Loops
      BY <2>1 DEF LoopInv, PredictionInv, TracePlaced
    <3>3. branch.dir = loop[1].dir /\ branch.dir \in BOOLEAN /\ branch.PC \in PCs
      BY <2>1, <3>2, LoopIsOne DEF Branches
    <3>4. c \in EntriesOf(loop) /\ OneDirection(loop)[c] = branch.dir
      BY <3>2, <3>3 DEF EntriesOf, OneDirection
    <3>5. EntriesOf(loop) \in SUBSET twobitsat!Entries
      <4>1. \A i \in 1 .. Len(loop) : loop[i].PC \in PCs
        BY <2>1, <3>2, LoopIsOne DEF Branches
      <4>. QED  BY <4>1, EntryType DEF EntriesOf
    <3>6. table \in [twobitsat!Entries -> 0 .. 3]
      BY DEF TwobitsatTypes
    <3>7. table' = [table EXCEPT ![c] = Towards(@, OneDirection(loop)[c], 3)]
      <4>1. table' = [table EXCEPT ![c] = Towards(table[c], branch.dir, 3)]
        BY <3>1, TrainIs
      <4>. QED  BY <3>4, <4>1
    <3>8. predDir["2bitsat"] \in BOOLEAN /\ (predDir["2bitsat"] <=> table[c] >= 2)
      <4>1. table[c] \in 0 .. 3
        BY <3>4, <3>5, <3>6
      <4>2. predDir["2bitsat"] <=> table[c] > 1
        BY <3>1 DEF TwobitsatLearns, twobitsat!GetPrediction_2bitsat
      <4>3. predDir["2bitsat"] \in BOOLEAN
        BY DEF PredictionInv, TracePlaced, Predictors
      <4>. QED  BY <4>1, <4>2, <4>3
    <3>9. IsFiniteSet(Wrong(EntriesOf(loop), table, OneDirection(loop)))
      BY <2>1, <3>2, TwobitsatBound
    <3>. DEFINE b == IF predDir["2bitsat"] # branch.dir THEN 1 ELSE 0
    <3>10. Cardinality(Wrong(EntriesOf(loop), table', OneDirection(loop))) =
               IF predDir["2bitsat"] <=> branch.dir THEN L ELSE L - 1
      <4>. DEFINE C == EntriesOf(loop)
                  D == OneDirection(loop)
                  d == branch.dir
                  K == table
                  M == table'
      <4>1. c \in C /\ D[c] = d /\ d \in BOOLEAN /\ IsFiniteSet(Wrong(C, K, D))
        BY <3>3, <3>4, <3>9
      <4>2. K[c] \in 0 .. 3 /\ M[c] = Towards(K[c], d, 3) /\ \A k \in C : k # c => M[k] = K[k]
        BY <3>4, <3>5, <3>6, <3>7
      <4>3. predDir["2bitsat"] <=> K[c] >= 2
        BY <3>8
      <4>. HIDE DEF c, C, D, d, K, M
      <4>4. /\ (K[c] >= 2 <=> d) => Cardinality(Wrong(C, M, D)) = Cardinality(Wrong(C, K, D))
            /\ ~(K[c] >= 2 <=> d) => Cardinality(Wrong(C, M, D)) = Cardinality(Wrong(C, K, D)) - 1
        BY <4>1, <4>2, WrongStep
      <4>5. Cardinality(Wrong(C, M, D)) =
                IF predDir["2bitsat"] <=> d THEN Cardinality(Wrong(C, K, D)) ELSE Cardinality(Wrong(C, K, D)) - 1
        BY <4>3, <4>4
      <4>. QED  BY <4>5 DEF C, D, d, K, M
    <3>11. numMispred'["2bitsat"] <= numMispred["2bitsat"] + b /\ numMispred'["2bitsat"] \in Nat
      BY <3>1, <3>4, Counts DEF Mispredicts, Predictors
    <3>12. IsFiniteSet(Wrong(EntriesOf(loop), table', OneDirection(loop)))
      BY <2>1, <3>2, TwobitsatBound
    <3>13. L \in Nat /\ Cardinality(Wrong(EntriesOf(loop), table', OneDirection(loop))) \in Nat
      BY <3>9, <3>12, FS_CardinalityType
    <3>14. L' = Cardinality(Wrong(EntriesOf(loop), table', OneDirection(loop))) /\ b \in Nat
      BY <2>2
    <3>15. numMispred["2bitsat"] \in Nat /\ before["2bitsat"] \in Nat /\ Len(loop) \in Nat /\ loop' = loop
      BY <2>1, <3>2, LoopIsOne DEF LoopInv, Predictors
    <3>16. IF predDir["2bitsat"] <=> branch.dir THEN b = 0 ELSE b = 1
      BY <3>3, <3>8
    <3>. HIDE DEF L, b
    <3>. QED  BY <2>1, <2>3, <3>10, <3>16, <3>11, <3>13, <3>14, <3>15 DEF InLoop
  <2>5. CASE ~Update_2bitsat
    <3>1. table' = table /\ numMispred'["2bitsat"] = numMispred["2bitsat"]
      <4>1. CASE GetNextRecord \/ GetPrediction \/ UNCHANGED vars
        BY <4>1 DEF GetNextRecord, GetPrediction, vars
      <4>2. CASE Update_2level
        <5>1. CountMispred("2level") /\ table' = table
          BY <4>2 DEF Update_2level
        <5>. QED  BY <5>1, Counts DEF Predictors
      <4>3. CASE Update_openend
        <5>1. CountMispred("openend") /\ table' = table
          BY <4>3 DEF Update_openend
        <5>. QED  BY <5>1, Counts DEF Predictors
      <4>. QED  BY <2>5, <4>1, <4>2, <4>3 DEF Next
    <3>. QED  BY <2>1, <2>2, <2>3, <3>1 DEF InLoop
  <2>. QED  BY <2>4, <2>5
<1>. QED  BY <1>2, <1>3, LoopStep

-----------------------------------------------------------------------------
(* A branch that repeats a pattern, and the two-level tables               *)

\* The outcome of the loop l at place x, for places before the loop too
Out(l, x) == l[((x - 1) % Len(l)) + 1].dir

\* What a row holds before place i, when it holds outcomes of the loop alone
Hist(l, i) == [m \in 1 .. HIST_BITS |-> Out(l, i - HIST_BITS + m - 1)]

\* The remainder of any integer, which a whole loop more leaves as it is
LEMMA Division ==
    ASSUME NEW n \in Nat \ {0}, NEW x \in Int
    PROVE  x \div n \in Int /\ x % n \in 0 .. n - 1 /\ x = n * (x \div n) + (x % n)
<1>. DEFINE q == x \div n
            r == x % n
<1>1. q \in Int /\ r \in 0 .. n - 1 /\ x = n * q + r
  OBVIOUS
<1>. QED  BY <1>1

LEMMA Remainder ==
    ASSUME NEW n \in Nat \ {0}, NEW x \in Int
    PROVE  /\ x % n \in 0 .. n - 1
           /\ (x + n) % n = x % n
           /\ x \in 0 .. n - 1 => x % n = x
<1>1. x % n \in 0 .. n - 1
  OBVIOUS
<1>2. (x + n) % n = x % n
  <2>. DEFINE q == x \div n
              r == x % n
              q2 == (x + n) \div n
              r2 == (x + n) % n
              k == q2 - q - 1
  <2>1. q \in Int /\ r \in 0 .. n - 1 /\ x = n * q + r
    OBVIOUS
  <2>2. q2 \in Int /\ r2 \in 0 .. n - 1 /\ x + n = n * q2 + r2
    <3>1. x + n \in Int
      OBVIOUS
    <3>. DEFINE y == x + n
    <3>. HIDE DEF y
    <3>2. y \div n \in Int /\ y % n \in 0 .. n - 1 /\ y = n * (y \div n) + (y % n)
      BY <3>1, Division DEF y
    <3>. QED  BY <3>2 DEF y
  <2>. HIDE DEF q, r, q2, r2
  <2>3. k \in Int /\ n * q2 = n * q + n + n * k
    BY <2>1, <2>2
  <2>4. k = 0
    <3>1. r = n * k + r2
      BY <2>1, <2>2, <2>3
    <3>. HIDE DEF k
    <3>2. CASE k >= 1
      <4>1. n * k >= n
        BY <2>3, <3>2
      <4>. QED  BY <2>1, <2>2, <2>3, <3>1, <4>1
    <3>3. CASE k <= -1
      <4>1. n * k <= -n
        BY <2>3, <3>3
      <4>. QED  BY <2>1, <2>2, <2>3, <3>1, <4>1
    <3>. QED  BY <2>3, <3>2, <3>3
  <2>5. r2 = r
    BY <2>1, <2>2, <2>3, <2>4
  <2>. QED  BY <2>5 DEF r, r2
<1>3. x \in 0 .. n - 1 => x % n = x
  OBVIOUS
<1>. QED  BY <1>1, <1>2, <1>3

\* The outcomes before a place of the loop: those of the next place are one
\* further, and the oldest of a pattern is the next to come.
LEMMA HistSteps ==
    ASSUME NEW l \in Loops, NEW i \in 1 .. Len(l)
    PROVE  /\ Len(l) \in Nat \ {0} /\ (i % Len(l)) + 1 \in 1 .. Len(l)
           /\ Hist(l, i) \in Outcomes
           /\ \A m \in 1 .. HIST_BITS :
                  Hist(l, (i % Len(l)) + 1)[m] = IF m = HIST_BITS THEN l[i].dir ELSE Hist(l, i)[m + 1]
           /\ Len(l) <= HIST_BITS => Hist(l, i)[HIST_BITS + 1 - Len(l)] = l[i].dir
<1>. DEFINE n == Len(l)
            H == HIST_BITS
<1>1. n \in Nat \ {0} /\ H \in Nat \ {0} /\ i \in 1 .. n
  BY CbpAssumption
<1>2. ASSUME NEW x \in Int  PROVE Out(l, x) \in BOOLEAN /\ Out(l, x + n) = Out(l, x)
  <2>1. (x - 1) % n \in 0 .. n - 1 /\ ((x - 1) + n) % n = (x - 1) % n
    <3>1. x - 1 \in Int
      OBVIOUS
    <3>. HIDE DEF n
    <3>. QED  BY <1>1, <3>1, Remainder
  <2>2. (x + n) - 1 = (x - 1) + n
    BY <1>1
  <2>3. l[((x - 1) % n) + 1] \in Branches
    <3>1. ((x - 1) % n) + 1 \in 1 .. Len(l)
      BY <1>1, <2>1
    <3>. QED  BY <3>1, LoopElement
  <2>. QED  BY <2>1, <2>2, <2>3 DEF Out, Branches
<1>3. ASSUME NEW k \in 1 .. n  PROVE Out(l, k) = l[k].dir
  <2>1. (k - 1) % n = k - 1
    <3>1. k - 1 \in Int /\ k - 1 \in 0 .. n - 1
      BY <1>1
    <3>. HIDE DEF n
    <3>. QED  BY <1>1, <3>1, Remainder
  <2>2. (k - 1) + 1 = k
    BY <1>1
  <2>. QED  BY <2>1, <2>2 DEF Out
<1>4. ASSUME NEW k \in Int, NEW m \in 1 .. H  PROVE Hist(l, k)[m] = Out(l, k - H + m - 1)
  BY DEF Hist
<1>5. Hist(l, i) \in Outcomes
  <2>1. \A m \in 1 .. H : i - H + m - 1 \in Int
    BY <1>1
  <2>2. \A m \in 1 .. H : Out(l, i - H + m - 1) \in BOOLEAN
    BY <1>2, <2>1
  <2>. QED  BY <2>2 DEF Hist, Outcomes
<1>. DEFINE s == (i % n) + 1
<1>6. s \in 1 .. n /\ (s = i + 1 \/ s + n = i + 1)
  <2>1. CASE i < n
    <3>1. i \in Int /\ i \in 0 .. n - 1
      BY <1>1, <2>1
    <3>2. i % n = i
      <4>. HIDE DEF n
      <4>. QED  BY <1>1, <3>1, Remainder
    <3>. QED  BY <1>1, <2>1, <3>2
  <2>2. CASE i = n
    <3>1. 0 \in Int /\ 0 \in 0 .. n - 1 /\ 0 + n = i
      BY <1>1, <2>2
    <3>2. (0 + n) % n = 0 % n /\ 0 % n = 0
      <4>. HIDE DEF n
      <4>. QED  BY <1>1, <3>1, Remainder
    <3>. QED  BY <1>1, <2>2, <3>1, <3>2
  <2>. QED  BY <1>1, <2>1, <2>2
<1>7. ASSUME NEW m \in 1 .. H
      PROVE  Hist(l, s)[m] = IF m = H THEN l[i].dir ELSE Hist(l, i)[m + 1]
  <2>. DEFINE x == s - H + m - 1
  <2>1. x \in Int /\ s \in Int
    BY <1>1, <1>6
  <2>2. Out(l, x) = Out(l, i - H + m)
    <3>1. CASE s = i + 1
      <4>1. x = i - H + m
        BY <1>1, <3>1
      <4>. QED  BY <4>1
    <3>2. CASE s + n = i + 1
      <4>1. x + n = i - H + m
        BY <1>1, <1>6, <3>2
      <4>2. Out(l, x + n) = Out(l, x)
        BY <1>2, <2>1
      <4>. QED  BY <4>1, <4>2
    <3>. QED  BY <1>6, <3>1, <3>2
  <2>3. Hist(l, s)[m] = Out(l, i - H + m)
    BY <1>4, <2>1, <2>2
  <2>4. CASE m = H
    <3>1. i - H + m = i
      BY <1>1, <2>4
    <3>. QED  BY <1>1, <1>3, <2>3, <2>4, <3>1
  <2>5. CASE m # H
    <3>1. m + 1 \in 1 .. H /\ i \in Int /\ i - H + (m + 1) - 1 = i - H + m
      BY <1>1, <2>5
    <3>2. Hist(l, i)[m + 1] = Out(l, i - H + (m + 1) - 1)
      BY <1>4, <3>1
    <3>. QED  BY <2>3, <2>5, <3>1, <3>2
  <2>. QED  BY <2>4, <2>5
<1>8. ASSUME n <= H  PROVE Hist(l, i)[H + 1 - n] = l[i].dir
  <2>1. H + 1 - n \in 1 .. H /\ i \in Int /\ i - H + (H + 1 - n) - 1 = i - n /\ i - n \in Int /\ (i - n) + n = i
    BY <1>1, <1>8
  <2>2. Hist(l, i)[H + 1 - n] = Out(l, i - H + (H + 1 - n) - 1)
    BY <1>4, <2>1
  <2>3. Out(l, (i - n) + n) = Out(l, i - n)
    BY <1>2, <2>1
  <2>4. Hist(l, i)[H + 1 - n] = Out(l, i)
    BY <2>1, <2>2, <2>3
  <2>. QED  BY <1>1, <1>3, <2>4
<1>. QED  BY <1>1, <1>5, <1>6, <1>7, <1>8

\* The contexts a branch is met in once it has gone around the loop, and
\* where it goes in each
ContextsOf(l) == {<<twolevel!PhtTable(l[1].PC), Hist(l, i)>> : i \in 1 .. Len(l)}
NextOf(l) == [c \in ContextsOf(l) |-> c[2][HIST_BITS + 1 - Len(l)]]

\* The place in the loop of the next outcome of the two-level tables
Place == IF next \in {"GetPrediction", "2bitsat", "2level"} THEN at ELSE (at % Len(loop)) + 1

\* The last j outcomes of a row are those of the loop before place i
Follows(o, l, i, j) == \A m \in 1 .. HIST_BITS : m > HIST_BITS - j => o[m] = Hist(l, i)[m]

\* Either the row still fills with outcomes of the loop, or it holds nothing
\* else and what is left to learn is in the counters.
TwolevelLeft(l, o, K, i, count) ==
    \E j \in 0 .. HIST_BITS :
        /\ Follows(o, l, i, j)
        /\ j < HIST_BITS => count <= j
        /\ j = HIST_BITS => count + Cardinality(Wrong(ContextsOf(l), K, NextOf(l))) <= 2 * Len(l) + HIST_BITS

TwolevelLearns ==
    /\ next \in {"2bitsat", "2level"} => predDir["2level"] = twolevel!GetPrediction_2level(branch.PC)
    /\ at # 0 /\ OneBranch /\ Len(loop) <= HIST_BITS =>
           TwolevelLeft(loop, outcomes[twolevel!Row(loop[1].PC)], TwolevelCounter, Place, InLoop("2level"))

\* The contexts of a loop are no more than its places
LEMMA TwolevelBound ==
    ASSUME NEW l \in Loops, NEW K, NEW D
    PROVE  /\ Len(l) \in Nat
           /\ IsFiniteSet(Wrong(ContextsOf(l), K, D))
           /\ Cardinality(Wrong(ContextsOf(l), K, D)) \in 0 .. 2 * Len(l)
<1>. DEFINE n == Len(l)
            f == [i \in 1 .. n |-> <<twolevel!PhtTable(l[1].PC), Hist(l, i)>>]
<1>1. n \in Nat
  BY CbpAssumption
<1>2. ContextsOf(l) = {f[i] : i \in 1 .. n}
  BY DEF ContextsOf
<1>. HIDE DEF n, f
<1>3. IsFiniteSet(Wrong(ContextsOf(l), K, D)) /\ Cardinality(Wrong(ContextsOf(l), K, D)) \in 0 .. 2 * n
  BY <1>1, <1>2, WrongBound
<1>. QED  BY <1>1, <1>3 DEF n

\* One more outcome: one place more of the row follows the loop, or, when all
\* do, a misprediction is of a context of the loop and leaves one less.
LEMMA TwolevelLeftStep ==
    ASSUME NEW l \in Loops, Len(l) <= HIST_BITS, NEW i \in 1 .. Len(l), NEW o \in Outcomes,
           NEW K \in [twolevel!Contexts -> 0 .. 3], NEW M, NEW count \in Int, NEW count2 \in Int,
           NEW c, c = <<twolevel!PhtTable(l[1].PC), o>>,
           M = [K EXCEPT ![c] = Towards(@, l[i].dir, 3)],
           count2 <= count + 1, (K[c] >= 2 <=> l[i].dir) => count2 <= count,
           TwolevelLeft(l, o, K, i, count)
    PROVE  TwolevelLeft(l, Later(o, l[i].dir), M, (i % Len(l)) + 1, count2)
<1>. DEFINE d == l[i].dir
            H == HIST_BITS
            n == Len(l)
            s == (i % n) + 1
            W == Wrong(ContextsOf(l), K, NextOf(l))
            W2 == Wrong(ContextsOf(l), M, NextOf(l))
<1>1. PICK j \in 0 .. H : /\ Follows(o, l, i, j)
                          /\ j < H => count <= j
                          /\ j = H => count + Cardinality(W) <= 2 * n + H
  BY DEF TwolevelLeft
<1>2. H \in Nat \ {0} /\ n \in Nat \ {0} /\ s \in 1 .. n /\ d \in BOOLEAN
  BY CbpAssumption, HistSteps, LoopElement DEF Branches
<1>3. ASSUME NEW k \in 0 .. H, k <= j + 1  PROVE Follows(Later(o, d), l, s, k)
  <2>. SUFFICES ASSUME NEW m \in 1 .. H, m > H - k  PROVE Later(o, d)[m] = Hist(l, s)[m]
    BY DEF Follows
  <2>1. Hist(l, s)[m] = IF m = H THEN d ELSE Hist(l, i)[m + 1]
    BY HistSteps
  <2>2. Later(o, d)[m] = IF m = H THEN d ELSE o[m + 1]
    BY <1>2 DEF Later
  <2>3. m # H => m + 1 \in 1 .. H /\ m + 1 > H - j
    BY <1>2, <1>3
  <2>. QED  BY <1>1, <2>1, <2>2, <2>3 DEF Follows
<1>4. IsFiniteSet(W) /\ Cardinality(W) \in 0 .. 2 * n /\ Cardinality(W2) \in 0 .. 2 * n
  BY TwolevelBound
<1>5. CASE j + 1 < H
  <2>1. count2 <= j + 1 /\ j + 1 \in 0 .. H /\ j + 1 # H /\ j + 1 <= j + 1
    BY <1>1, <1>2, <1>5
  <2>2. Follows(Later(o, d), l, s, j + 1)
    BY <1>3, <2>1
  <2>. QED  BY <2>1, <2>2 DEF TwolevelLeft
<1>6. CASE j + 1 = H
  <2>1. count2 + Cardinality(W2) <= 2 * n + H /\ H \in 0 .. H
    BY <1>1, <1>2, <1>4, <1>6
  <2>. QED  BY <1>3, <1>6, <2>1 DEF TwolevelLeft
<1>8. d \in BOOLEAN
  BY <1>2
<1>7. CASE j = H
  <2>. DEFINE C == ContextsOf(l)
              D == NextOf(l)
  <2>1. o = Hist(l, i)
    <3>1. \A m \in 1 .. H : o[m] = Hist(l, i)[m]
      BY <1>1, <1>2, <1>7 DEF Follows
    <3>2. Hist(l, i) \in Outcomes
      BY HistSteps
    <3>3. o \in [1 .. H -> BOOLEAN] /\ Hist(l, i) \in [1 .. H -> BOOLEAN]
      BY <3>2 DEF Outcomes
    <3>4. o = [m \in 1 .. H |-> o[m]] /\ Hist(l, i) = [m \in 1 .. H |-> Hist(l, i)[m]]
      BY <3>3
    <3>. QED  BY <3>1, <3>4
  <2>2. c \in C /\ D[c] = d
    <3>1. c = <<twolevel!PhtTable(l[1].PC), Hist(l, i)>> /\ Hist(l, i)[H + 1 - n] = d
      BY <2>1, HistSteps
    <3>. QED  BY <3>1 DEF ContextsOf, NextOf
  <2>3. C \in SUBSET twolevel!Contexts
    <3>1. l[1].PC \in PCs
      BY <1>2, LoopElement DEF Branches
    <3>2. twolevel!PhtTable(l[1].PC) \in twolevel!PhtTables
      BY <3>1, RowType
    <3>3. \A k \in 1 .. n : Hist(l, k) \in Outcomes
      BY HistSteps
    <3>. QED  BY <3>2, <3>3 DEF ContextsOf, twolevel!Contexts, Outcomes
  <2>4. K[c] \in 0 .. 3 /\ M[c] = Towards(K[c], d, 3) /\ \A b \in C : b # c => M[b] = K[b]
    BY <2>2, <2>3
  <2>5. /\ (K[c] >= 2 <=> d) => Cardinality(W2) = Cardinality(W)
        /\ ~(K[c] >= 2 <=> d) => Cardinality(W2) = Cardinality(W) - 1
    <3>. DEFINE A == K
                B == M
                e == c
    <3>1. /\ IsFiniteSet(Wrong(C, A, D)) /\ e \in C /\ D[e] = d /\ d \in BOOLEAN
          /\ A[e] \in 0 .. 3 /\ B[e] = Towards(A[e], d, 3) /\ \A b \in C : b # e => B[b] = A[b]
      BY <1>4, <1>8, <2>2, <2>4
    <3>. HIDE DEF A, B, e, C, D, d
    <3>2. /\ (A[e] >= 2 <=> d) => Cardinality(Wrong(C, B, D)) = Cardinality(Wrong(C, A, D))
          /\ ~(A[e] >= 2 <=> d) => Cardinality(Wrong(C, B, D)) = Cardinality(Wrong(C, A, D)) - 1
      BY <3>1, WrongStep
    <3>. QED  BY <3>2 DEF A, B, e, C, D
  <2>6. count2 + Cardinality(W2) <= 2 * n + H
    <3>. HIDE DEF W, W2
    <3>. QED  BY <1>1, <1>2, <1>4, <1>7, <2>5
  <2>7. Follows(Later(o, d), l, s, H) /\ H \in 0 .. H
    BY <1>2, <1>3, <1>7
  <2>. QED  BY <2>6, <2>7 DEF TwolevelLeft
<1>. QED  BY <1>1, <1>2, <1>5, <1>6, <1>7

\* A branch in the loop trains the counter of its context and shifts its row
LEMMA TwolevelLearnsStep ==
    ASSUME PredictionInv, LoopInv, TwolevelTypes, RowsSpell, TwolevelLearns, [Next]_vars
    PROVE  TwolevelLearns'
<1>. DEFINE row == outcomes[twolevel!Row(loop[1].PC)]
<1>1. (next \in {"2bitsat", "2level"} => predDir["2level"] = twolevel!GetPrediction_2level(branch.PC))'
  <2>. DEFINE same == predDir["2level"] = twolevel!GetPrediction_2level(branch.PC)
  <2>1. ASSUME UNCHANGED <<vars_2level, branch>>
        PROVE  twolevel!GetPrediction_2level(branch.PC)' = twolevel!GetPrediction_2level(branch.PC)
    BY <2>1 DEF vars_2level, twolevel!GetPrediction_2level, twolevel!History, twolevel!Row, twolevel!PhtTable
  <2>2. CASE GetPrediction
    BY <2>1, <2>2 DEF GetPrediction, input, Predictors
  <2>3. CASE UNCHANGED vars
    BY <2>1, <2>3 DEF vars, input, TwolevelLearns
  <2>4. CASE Update_2bitsat
    BY <2>1, <2>4 DEF Update_2bitsat, input, TwolevelLearns
  <2>5. CASE GetNextRecord \/ Update_2level \/ Update_openend
    BY <2>5 DEF GetNextRecord, Update_2level, Update_openend
  <2>. QED  BY <2>2, <2>3, <2>4, <2>5 DEF Next
<1>2. CASE Enters
  <2>1. loop' \in Loops /\ Place' = 1 /\ InLoop("2level")' = 0
    BY <1>2 DEF Enters, Place, InLoop, LoopInv, Predictors
  <2>2. 0 \in 0 .. HIST_BITS /\ 0 # HIST_BITS
    BY CbpAssumption
  <2>3. ASSUME NEW o, NEW l  PROVE Follows(o, l, 1, 0)
    BY CbpAssumption DEF Follows
  <2>4. ASSUME NEW o, NEW l, NEW K  PROVE TwolevelLeft(l, o, K, 1, 0)
    BY <2>2, <2>3 DEF TwolevelLeft
  <2>5. TwolevelLeft(loop, row, TwolevelCounter, Place, InLoop("2level"))'
    BY <2>1, <2>4
  <2>. QED  BY <1>1, <2>5 DEF TwolevelLearns
<1>3. CASE Stays
  <2>. SUFFICES ASSUME (at # 0)', OneBranch', (Len(loop) <= HIST_BITS)'
                PROVE  TwolevelLeft(loop, row, TwolevelCounter, Place, InLoop("2level"))'
    BY <1>1 DEF TwolevelLearns
  <2>1. at # 0 /\ OneBranch /\ loop' = loop /\ before' = before /\ Len(loop) <= HIST_BITS
    BY <1>3 DEF Stays, OneBranch
  <2>2. TwolevelLeft(loop, row, TwolevelCounter, Place, InLoop("2level"))
    BY <2>1 DEF TwolevelLearns
  <2>3. branch = loop[at] /\ at \in 1 .. Len(loop) /\ loop \in Loops
    BY <2>1 DEF LoopInv, PredictionInv, TracePlaced
  <2>4. CASE Update_2level
    <3>1. next = "2level" /\ next' = "openend" /\ UNCHANGED input /\ CountMispred("2level")
          /\ twolevel!UpdatePredictor_2level(branch.PC, branch.dir)
      BY <2>4 DEF Update_2level
    <3>2. branch.PC = loop[1].PC /\ branch.PC \in PCs /\ branch.dir \in BOOLEAN
      BY <2>1, <2>3, LoopIsOne DEF Branches
    <3>. DEFINE c == <<twolevel!PhtTable(loop[1].PC), row>>
                d == loop[at].dir
    <3>3. /\ TwolevelTypes' /\ RowsSpell'
          /\ TwolevelCounter' = [TwolevelCounter EXCEPT ![c] = Towards(@, d, 3)]
      <4>1. TwolevelCounter' = [TwolevelCounter EXCEPT ![c] = twolevel!Train(@, d, 3)]
        BY <2>3, <3>1, <3>2, TwolevelUpdate
      <4>2. \A v : twolevel!Train(v, d, 3) = Towards(v, d, 3)
        BY TrainIs
      <4>. HIDE DEF c, d
      <4>3. TwolevelCounter' = [TwolevelCounter EXCEPT ![c] = Towards(@, d, 3)]
        BY <4>1, <4>2
      <4>. QED  BY <3>1, <3>2, <4>3, TwolevelUpdate
    <3>4. row \in Outcomes /\ twolevel!Row(loop[1].PC) \in twolevel!Rows
      BY <3>2, RowType DEF TwolevelTypes
    <3>5. row' = Later(row, d)
      <4>1. outcomes' = [outcomes EXCEPT ![twolevel!Row(loop[1].PC)] = Tail(Append(@, d))]
        BY <2>3, <3>1, <3>2 DEF twolevel!UpdatePredictor_2level, twolevel!Observed
      <4>2. twolevel!Row(loop[1].PC)' = twolevel!Row(loop[1].PC)
        BY <2>1 DEF twolevel!Row
      <4>3. row' = Tail(Append(row, d))
        BY <3>4, <4>1, <4>2 DEF TwolevelTypes
      <4>4. d \in BOOLEAN
        BY <2>3, <3>2
      <4>. HIDE DEF row, d
      <4>. QED  BY <3>4, <4>3, <4>4, LaterIsTail
    <3>6. TwolevelCounter \in [twolevel!Contexts -> 0 .. 3]
      <4>1. ASSUME NEW k \in twolevel!Contexts  PROVE PHT[k[1]][twolevel!Value(k[2])] \in 0 .. 3
        <5>1. k[1] \in twolevel!PhtTables /\ k[2] \in Outcomes
          BY DEF twolevel!Contexts, Outcomes
        <5>. QED  BY <5>1, ValueType DEF TwolevelTypes
      <4>. QED  BY <4>1 DEF TwolevelCounter
    <3>7. c \in twolevel!Contexts /\ (predDir["2level"] <=> TwolevelCounter[c] >= 2)
      <4>1. c \in twolevel!Contexts
        BY <3>2, ContextType
      <4>. DEFINE k == PHT[twolevel!PhtTable(branch.PC)][twolevel!History(branch.PC)]
      <4>2. TwolevelCounter[c] = k
        BY <3>2, <4>1, HistoryIs DEF TwolevelCounter
      <4>3. predDir["2level"] <=> k > 1
        BY <3>1 DEF TwolevelLearns, twolevel!GetPrediction_2level
      <4>4. TwolevelCounter[c] \in 0 .. 3
        BY <3>6, <4>1
      <4>. HIDE DEF k, c
      <4>. QED  BY <4>1, <4>2, <4>3, <4>4
    <3>8. /\ InLoop("2level") \in Int /\ InLoop("2level")' \in Int
          /\ InLoop("2level")' <= InLoop("2level") + 1
          /\ (TwolevelCounter[c] >= 2 <=> d) => InLoop("2level")' <= InLoop("2level")
      <4>1. predDir["2level"] \in BOOLEAN
        BY DEF PredictionInv, TracePlaced, Predictors
      <4>2. /\ numMispred'["2level"] \in Nat /\ numMispred["2level"] \in Nat /\ before["2level"] \in Nat
            /\ numMispred'["2level"] <= numMispred["2level"] + 1
            /\ ~Mispredicts("2level") => numMispred'["2level"] <= numMispred["2level"]
        BY <3>1, Counts DEF LoopInv, Predictors
      <4>3. (TwolevelCounter[c] >= 2 <=> d) => ~Mispredicts("2level")
        BY <2>3, <3>2, <3>7, <4>1 DEF Mispredicts
      <4>. HIDE DEF c, d
      <4>. QED  BY <2>1, <4>2, <4>3 DEF InLoop
    <3>9. Place = at /\ Place' = (at % Len(loop)) + 1
      BY <3>1 DEF Place, input
    <3>. DEFINE o == row
                K == TwolevelCounter
                M == TwolevelCounter'
                count == InLoop("2level")
                count2 == InLoop("2level")'
    <3>10. TwolevelLeft(loop, Later(o, d), M, (at % Len(loop)) + 1, count2)
      <4>1. /\ M = [K EXCEPT ![c] = Towards(@, loop[at].dir, 3)] /\ o \in Outcomes
            /\ count \in Int /\ count2 \in Int /\ count2 <= count + 1
            /\ (K[c] >= 2 <=> loop[at].dir) => count2 <= count
            /\ c = <<twolevel!PhtTable(loop[1].PC), o>>
        BY <3>3, <3>4, <3>8
      <4>2. TwolevelLeft(loop, o, K, at, count) /\ K \in [twolevel!Contexts -> 0 .. 3]
        BY <2>2, <3>6, <3>9
      <4>. HIDE DEF o, K, M, count, count2, c
      <4>. QED  BY <2>1, <2>3, <4>1, <4>2, TwolevelLeftStep
    <3>. QED  BY <2>1, <3>5, <3>9, <3>10
  <2>5. CASE ~Update_2level
    <3>1. UNCHANGED vars_2level /\ numMispred'["2level"] = numMispred["2level"]
      <4>1. CASE GetNextRecord \/ GetPrediction \/ UNCHANGED vars
        BY <4>1 DEF GetNextRecord, GetPrediction, vars
      <4>2. CASE Update_2bitsat
        <5>1. CountMispred("2bitsat") /\ UNCHANGED vars_2level
          BY <4>2 DEF Update_2bitsat
        <5>. QED  BY <5>1, Counts DEF Predictors
      <4>3. CASE Update_openend
        <5>1. CountMispred("openend") /\ UNCHANGED vars_2level
          BY <4>3 DEF Update_openend
        <5>. QED  BY <5>1, Counts DEF Predictors
      <4>. QED  BY <2>5, <4>1, <4>2, <4>3 DEF Next
    <3>2. TwolevelCounter' = TwolevelCounter /\ row' = row /\ InLoop("2level")' = InLoop("2level")
      BY <2>1, <3>1 DEF vars_2level, TwolevelCounter, InLoop, twolevel!Row, twolevel!Contexts, twolevel!PhtTables,
                        twolevel!Value
    <3>3. Place' = Place
      <4>1. CASE GetNextRecord
        BY <2>1, <4>1 DEF GetNextRecord, Place
      <4>2. CASE GetPrediction
        BY <2>1, <4>2 DEF GetPrediction, Place, input
      <4>3. CASE Update_2bitsat
        BY <2>1, <4>3 DEF Update_2bitsat, Place, input
      <4>4. CASE Update_openend
        BY <2>1, <4>4 DEF Update_openend, Place, input
      <4>5. CASE UNCHANGED vars
        BY <4>5 DEF vars, Place, input
      <4>. QED  BY <2>5, <4>1, <4>2, <4>3, <4>4, <4>5 DEF Next
    <3>. QED  BY <2>1, <2>2, <3>2, <3>3
  <2>. QED  BY <2>4, <2>5
<1>. QED  BY <1>2, <1>3, LoopStep

LEMMA LearnsInit == Init => TwobitsatLearns /\ TwolevelLearns
BY DEF Init, TwobitsatLearns, TwolevelLearns

\* Whatever tables, branches and loops: a loop of branches that all go one way
\* costs the two-bit table at most two mispredictions for each branch, and a
\* branch that repeats a pattern no longer than the history costs the two-level
\* tables two for each place of it and one for each bit of history
\* (predictor.cc:17-59).
THEOREM LoopsLearned == Spec => []LoopsAreLearned
<1>. DEFINE Inv == LoopInv /\ TwobitsatTypes /\ TwobitsatLearns /\ TwolevelTypes /\ RowsSpell /\ TwolevelLearns
<1>1. Init => Inv
  BY LoopInit, TwobitsatInit, TwolevelInit, LearnsInit
<1>2. PredictionInv /\ Inv /\ [Next]_vars => Inv'
  <2>. SUFFICES ASSUME PredictionInv, Inv, [Next]_vars  PROVE Inv'
    OBVIOUS
  <2>1. LoopInv'
    BY LoopStep
  <2>2. TwobitsatTypes' /\ TwobitsatLearns'
    BY TwobitsatStep, TwobitsatLearnsStep
  <2>3. TwolevelTypes' /\ RowsSpell' /\ TwolevelLearns'
    BY TwolevelStep, TwolevelLearnsStep
  <2>. QED  BY <2>1, <2>2, <2>3
<1>3. PredictionInv /\ Inv => LoopsAreLearned
  <2>. SUFFICES ASSUME PredictionInv, Inv, at # 0
                PROVE  /\ OneWay => InLoop("2bitsat") <= 2 * Len(loop)
                       /\ OneBranch /\ Len(loop) <= HIST_BITS => InLoop("2level") <= 2 * Len(loop) + HIST_BITS
    BY DEF LoopsAreLearned
  <2>1. loop \in Loops
    BY DEF PredictionInv, TracePlaced
  <2>2. InLoop("2bitsat") \in Int /\ InLoop("2level") \in Int
    BY DEF LoopInv, InLoop, Predictors
  <2>3. ASSUME OneWay  PROVE InLoop("2bitsat") <= 2 * Len(loop)
    <3>. DEFINE n == Cardinality(Wrong(EntriesOf(loop), twobitsat_prediction_table, OneDirection(loop)))
                count == InLoop("2bitsat")
    <3>1. n \in 0 .. 2 * Len(loop) /\ Len(loop) \in Nat
      BY <2>1, TwobitsatBound
    <3>2. count + n <= 2 * Len(loop) /\ count \in Int
      BY <2>2, <2>3 DEF TwobitsatLearns
    <3>. HIDE DEF n, count
    <3>3. count <= 2 * Len(loop)
      BY <3>1, <3>2
    <3>. QED  BY <3>3 DEF count
  <2>4. ASSUME OneBranch, Len(loop) <= HIST_BITS  PROVE InLoop("2level") <= 2 * Len(loop) + HIST_BITS
    <3>. DEFINE n == Cardinality(Wrong(ContextsOf(loop), TwolevelCounter, NextOf(loop)))
                count == InLoop("2level")
    <3>1. n \in 0 .. 2 * Len(loop) /\ Len(loop) \in Nat /\ HIST_BITS \in Nat
      BY <2>1, TwolevelBound, CbpAssumption
    <3>2. PICK j \in 0 .. HIST_BITS : /\ j < HIST_BITS => count <= j
                                      /\ j = HIST_BITS => count + n <= 2 * Len(loop) + HIST_BITS
      BY <2>4 DEF TwolevelLearns, TwolevelLeft
    <3>3. count \in Int
      BY <2>2
    <3>. HIDE DEF n, count
    <3>4. count <= 2 * Len(loop) + HIST_BITS
      BY <3>1, <3>2, <3>3
    <3>. QED  BY <3>4 DEF count
  <2>. QED  BY <2>3, <2>4
<1>. HIDE DEF Inv
<1>. QED  BY <1>1, <1>2, <1>3, PredictionInvariant, PTL DEF Spec

-----------------------------------------------------------------------------
(* A branch that always goes one way, and the tagged predictor             *)

\* The last j bits of the history g are outcomes d
Steady(g, d, j) == \E q \in Int : g = q * openend!Pow2[j] + (IF d THEN openend!Pow2[j] - 1 ELSE 0)

\* A power of two divides every later one
LEMMA PowerDivides ==
    ASSUME NEW j \in Nat, NEW n \in Nat
    PROVE  \E k \in Nat : openend!Pow2[j + n] = k * openend!Pow2[j]
<1>. DEFINE p == openend!Pow2
            T == {m \in Nat : \E k \in Nat : p[j + m] = k * p[j]}
<1>1. p \in [Nat -> Nat \ {0}] /\ \A m \in Nat : p[m + 1] = 2 * p[m]
  BY PowersOfTwo
<1>. HIDE DEF p
<1>2. 0 \in T
  <2>1. p[j + 0] = 1 * p[j]
    BY <1>1
  <2>. QED  BY <2>1
<1>3. ASSUME NEW m \in T  PROVE m + 1 \in T
  <2>1. PICK k \in Nat : p[j + m] = k * p[j]
    OBVIOUS
  <2>2. p[j + (m + 1)] = 2 * p[j + m]
    <3>1. j + m \in Nat /\ j + (m + 1) = (j + m) + 1
      OBVIOUS
    <3>. QED  BY <1>1, <3>1
  <2>3. 2 * (k * p[j]) = (2 * k) * p[j] /\ 2 * k \in Nat
    BY <1>1
  <2>. QED  BY <2>1, <2>2, <2>3
<1>4. T \in SUBSET Nat
  OBVIOUS
<1>5. n \in T
  <2>. HIDE DEF T
  <2>. QED  BY <1>2, <1>3, <1>4, Induction
<1>. QED  BY <1>5 DEF p

\* One more outcome d makes one more steady bit, until the whole history is
LEMMA HistoryStep ==
    ASSUME NEW H \in Nat, NEW g \in 0 .. openend!Pow2[H] - 1, NEW d \in BOOLEAN, NEW j \in 0 .. H,
           Steady(g, d, j), NEW h, h = (2 * g + (IF d THEN 1 ELSE 0)) % openend!Pow2[H]
    PROVE  /\ h \in 0 .. openend!Pow2[H] - 1
           /\ j < H => Steady(h, d, j + 1)
           /\ j = H => h = g
<1>. DEFINE p == openend!Pow2
            b == IF d THEN 1 ELSE 0
            x == 2 * g + b
            N == p[H]
            P == p[j]
<1>1. N \in Nat \ {0} /\ P \in Nat \ {0} /\ p[j + 1] = 2 * P /\ b \in 0 .. 1
  BY PowersOfTwo
<1>2. g \in Nat /\ g \in 0 .. N - 1 /\ x \in Int
  BY <1>1
<1>3. PICK q \in Int : g = q * P + (IF d THEN P - 1 ELSE 0)
  BY DEF Steady
<1>. DEFINE m == x \div N
<1>4. m \in Int /\ h \in 0 .. N - 1 /\ x = N * m + h
  <2>. HIDE DEF x, N
  <2>1. m \in Int /\ x % N \in 0 .. N - 1 /\ x = N * m + (x % N)
    BY <1>1, <1>2, Division
  <2>. QED  BY <2>1 DEF x, N
<1>. HIDE DEF m, N, P, p
<1>5. ASSUME j < H  PROVE Steady(h, d, j + 1)
  <2>1. PICK k \in Nat : N = k * p[j + 1]
    <3>. DEFINE i == j + 1
                n == H - (j + 1)
    <3>1. i \in Nat /\ n \in Nat /\ i + n = H
      BY <1>5
    <3>. HIDE DEF i, n
    <3>2. \E k \in Nat : openend!Pow2[i + n] = k * openend!Pow2[i]
      BY <3>1, PowerDivides
    <3>. QED  BY <3>1, <3>2 DEF N, p, i
  <2>. DEFINE Q == q - m * k
  <2>2. Q \in Int
    BY <1>3, <1>4, <2>1
  <2>3. N * m = (m * k) * (2 * P)
    <3>1. N = k * (2 * P)
      BY <1>1, <2>1
    <3>. HIDE DEF Q
    <3>. QED  BY <1>1, <1>4, <2>1, <3>1
  <2>4. h = Q * (2 * P) + (IF d THEN 2 * P - 1 ELSE 0)
    <3>1. x = q * (2 * P) + (IF d THEN 2 * P - 1 ELSE 0)
      <4>1. CASE d
        <5>1. g = q * P + P - 1 /\ x = 2 * g + 1
          BY <1>1, <1>2, <1>3, <4>1
        <5>2. 2 * (q * P) = q * (2 * P)
          BY <1>1, <1>3
        <5>. HIDE DEF x
        <5>. QED  BY <1>1, <1>2, <1>3, <4>1, <5>1, <5>2
      <4>2. CASE ~d
        <5>1. g = q * P /\ x = 2 * g
          BY <1>1, <1>2, <1>3, <4>2
        <5>2. 2 * (q * P) = q * (2 * P)
          BY <1>1, <1>3
        <5>. HIDE DEF x
        <5>. QED  BY <1>1, <1>2, <1>3, <4>2, <5>1, <5>2
      <4>. QED  BY <4>1, <4>2
    <3>. DEFINE r == IF d THEN 2 * P - 1 ELSE 0
                y == 2 * P
    <3>2. r \in Int /\ y \in Int /\ m * k \in Int
      BY <1>1, <1>4, <2>1
    <3>3. Q * y = q * y - (m * k) * y
      <4>. DEFINE u == m * k
      <4>1. u \in Int
        BY <3>2
      <4>. HIDE DEF u, y
      <4>2. (q - u) * y = q * y - u * y
        BY <1>3, <3>2, <4>1
      <4>. QED  BY <4>2 DEF u
    <3>. HIDE DEF x, r, Q
    <3>4. q * y \in Int /\ (m * k) * y \in Int
      BY <1>3, <3>2
    <3>5. h = Q * y + r
      BY <1>4, <2>3, <3>1, <3>2, <3>3, <3>4 DEF r
    <3>. QED  BY <3>5 DEF r
  <2>5. h = Q * p[j + 1] + (IF d THEN p[j + 1] - 1 ELSE 0)
    BY <1>1, <2>4
  <2>. QED  BY <2>2, <2>5 DEF Steady, p
<1>6. ASSUME j = H  PROVE h = g
  <2>1. P = N
    BY <1>6 DEF P, N
  <2>2. q = 0
    <3>1. g = q * N + (IF d THEN N - 1 ELSE 0)
      BY <1>3, <2>1
    <3>2. CASE q >= 1
      <4>1. q * N >= N
        BY <1>1, <3>2
      <4>. QED  BY <1>1, <1>2, <1>3, <3>1, <4>1
    <3>3. CASE q <= -1
      <4>1. q * N <= -N
        BY <1>1, <3>3
      <4>. QED  BY <1>1, <1>2, <1>3, <3>1, <4>1
    <3>. QED  BY <1>3, <3>2, <3>3
  <2>3. g = IF d THEN N - 1 ELSE 0
    BY <1>1, <1>3, <2>1, <2>2
  <2>4. m = IF d THEN 1 ELSE 0
    <3>1. CASE d
      <4>1. N * m + h = 2 * N - 1
        BY <1>1, <1>2, <1>4, <2>3, <3>1
      <4>2. CASE m >= 2
        <5>1. N * m >= 2 * N
          BY <1>1, <1>4, <4>2
        <5>. QED  BY <1>1, <1>4, <4>1, <5>1
      <4>3. CASE m <= 0
        <5>1. N * m <= 0
          BY <1>1, <1>4, <4>3
        <5>. QED  BY <1>1, <1>4, <4>1, <5>1
      <4>. QED  BY <1>4, <3>1, <4>2, <4>3
    <3>2. CASE ~d
      <4>1. N * m + h = 0
        BY <1>1, <1>2, <1>4, <2>3, <3>2
      <4>2. CASE m >= 1
        <5>1. N * m >= N
          BY <1>1, <1>4, <4>2
        <5>. QED  BY <1>1, <1>4, <4>1, <5>1
      <4>3. CASE m <= -1
        <5>1. N * m <= -N
          BY <1>1, <1>4, <4>3
        <5>. QED  BY <1>1, <1>4, <4>1, <5>1
      <4>. QED  BY <1>4, <3>2, <4>2, <4>3
    <3>. QED  BY <3>1, <3>2
  <2>. QED  BY <1>1, <1>2, <1>4, <2>3, <2>4
<1>. QED  BY <1>4, <1>5, <1>6 DEF N, p

\* With the history as it was, a branch is looked up where it was
LEMMA SameLookup ==
    ASSUME NEW PC, global_history' = global_history
    PROVE  /\ openend!get_tag(PC)' = openend!get_tag(PC)
           /\ \A Y : openend!get_index(PC, Y)' = openend!get_index(PC, Y)
<1>1. openend!get_tag(PC)' = openend!get_tag(PC)
  BY DEF openend!get_tag, openend!HistoryTag
<1>2. ASSUME NEW Y  PROVE openend!get_index(PC, Y)' = openend!get_index(PC, Y)
  BY DEF openend!get_index, openend!HistoryPart, openend!PcPart
<1>. QED  BY <1>1, <1>2

\* The mispredictions of a branch that goes direction d, once the history is
\* steady: each finds it a longer bank, and in the last bank trains its counter.
Left(PC, d) ==
    IF openend!FindBank(PC) < LAST THEN LAST - openend!FindBank(PC) + 4
    ELSE ToGo(openend!At(PC, LAST).ctr, 4, d)

OpenendLeft(PC, d, count) ==
    \E j \in 0 .. HISTORY_BITS :
        /\ Steady(global_history, d, j)
        /\ j < HISTORY_BITS => count <= j
        /\ j = HISTORY_BITS => count + Left(PC, d) <= HISTORY_BITS + LAST + 5

OpenendLearns ==
    /\ global_history \in 0 .. openend!Pow2[HISTORY_BITS] - 1
    /\ at # 0 /\ OneWay /\ OneBranch => OpenendLeft(loop[1].PC, loop[1].dir, InLoop("openend"))

\* A counter of the tagged predictor, like one of two bits
LEMMA ThreeBitToGo ==
    ASSUME NEW v \in 0 .. 7, NEW d \in BOOLEAN
    PROVE  /\ ToGo(v, 4, d) \in 0 .. 4
           /\ (v >= 4 <=> d) => ToGo(v, 4, d) = 0 /\ ToGo(Towards(v, d, 7), 4, d) = 0
           /\ ~(v >= 4 <=> d) => ToGo(Towards(v, d, 7), 4, d) = ToGo(v, 4, d) - 1
<1>1. CASE d
  BY <1>1 DEF ToGo, Towards
<1>2. CASE ~d
  BY <1>2 DEF ToGo, Towards
<1>. QED  BY <1>1, <1>2

\* A misprediction for each bank and four for the last counter at most
LEMMA LeftBound ==
    ASSUME OpenendTypes, NEW PC \in PCs, NEW d \in BOOLEAN
    PROVE  /\ openend!FindBank(PC) \in -1 .. LAST
           /\ openend!At(PC, LAST).ctr \in 0 .. 7
           /\ Left(PC, d) \in 0 .. LAST + 5
<1>1. LAST \in 0 .. 3 /\ LAST \in openend!Banks
  BY CbpAssumption DEF openend!Banks
<1>. DEFINE F == openend!FindBank(PC)
            c == openend!At(PC, LAST).ctr
<1>2. F \in -1 .. LAST
  <2>1. F \in openend!Matching(PC) \union {-1}
    BY Longest
  <2>2. openend!Matching(PC) \subseteq 0 .. LAST
    BY DEF openend!Matching, openend!Banks
  <2>. HIDE DEF F
  <2>. QED  BY <1>1, <2>1, <2>2
<1>3. c \in 0 .. 7
  <2>1. openend!get_index(PC, LAST) \in BitVectors(INDEX_BITS)
    BY <1>1, IndexType
  <2>2. openend!At(PC, LAST) \in BankEntries
    BY <1>1, <2>1 DEF OpenendTypes, openend!At
  <2>. QED  BY <2>2 DEF BankEntries, ThreeBit
<1>4. ToGo(c, 4, d) \in 0 .. 4
  <2>. HIDE DEF c
  <2>. QED  BY <1>3, ThreeBitToGo
<1>5. Left(PC, d) = IF F < LAST THEN LAST - F + 4 ELSE ToGo(c, 4, d)
  BY DEF Left
<1>. HIDE DEF F, c
<1>6. Left(PC, d) \in 0 .. LAST + 5
  BY <1>1, <1>2, <1>4, <1>5
<1>. QED  BY <1>2, <1>3, <1>6 DEF F, c

\* Both in the form in which they hold of the next state too
LeftBounded ==
    OpenendTypes => \A PC \in PCs, d \in BOOLEAN :
        /\ openend!FindBank(PC) \in -1 .. LAST
        /\ openend!At(PC, LAST).ctr \in 0 .. 7
        /\ Left(PC, d) \in 0 .. LAST + 5

LEMMA LeftIsBounded == LeftBounded
BY LeftBound DEF LeftBounded

FoundIsLongest == \A PC : \A Y \in openend!Matching(PC) : Y <= openend!FindBank(PC)

LEMMA FindIsLongest == FoundIsLongest
BY Longest DEF FoundIsLongest

\* An update with a steady history: a right prediction leaves no more to go, a
\* wrong one less.
LEMMA LeftStep ==
    ASSUME PredictionInv, Update_openend, global_history' = global_history,
           NEW PC, PC = branch.PC, NEW d, d = branch.dir
    PROVE  /\ ~Mispredicts("openend") => Left(PC, d)' <= Left(PC, d)
           /\ Mispredicts("openend") => Left(PC, d)' <= Left(PC, d) - 1
<1>. DEFINE pred == predDir["openend"]
            idx(Y) == openend!get_index(PC, Y)
            t == openend!get_tag(PC)
            F == openend!FindBank(PC)
<1>1. /\ PC \in PCs /\ d \in BOOLEAN /\ pred \in BOOLEAN /\ OpenendTypes
      /\ X = F /\ pred = openend!Direction(PC, X) /\ X \in -1 .. LAST
      /\ openend!UpdatePredictor_openend(PC, d, pred)
  BY DEF Update_openend, PredictionInv, TracePlaced, PredictionStands, Branches, Predictors, OpenendTypes
<1>2. LAST \in 0 .. 3 /\ LAST \in openend!Banks
  BY CbpAssumption DEF openend!Banks
<1>3. PICK victims \in openend!Victims(PC, d, pred) :
          \A Y \in openend!Banks, i \in BitVectors(INDEX_BITS) :
              ~(Y \in victims /\ i = idx(Y)) => banks'[Y][i].tag = banks[Y][i].tag
  <2>. HIDE DEF pred
  <2>. QED  BY <1>1, UpdateEffect
<1>4. OpenendTypes' /\ (X # -1 => banks'[X][idx(X)].ctr = openend!Train(openend!At(PC, X).ctr, d, 7))
  <2>. HIDE DEF pred
  <2>. QED  BY <1>1, UpdateEffect
<1>5. \A Y \in openend!Banks : idx(Y) \in BitVectors(INDEX_BITS)
  BY <1>1, IndexType
<1>6. /\ openend!get_tag(PC)' = t
      /\ \A Y : openend!At(PC, Y)' = banks'[Y][idx(Y)]
  BY SameLookup DEF openend!At
<1>7. /\ Left(PC, d) \in 0 .. LAST + 5 /\ F' \in -1 .. LAST /\ Left(PC, d)' \in 0 .. LAST + 5
      /\ openend!At(PC, LAST).ctr \in 0 .. 7 /\ openend!At(PC, LAST)'.ctr \in 0 .. 7
  <2>1. LeftBounded /\ LeftBounded'
    BY LeftIsBounded, PTL
  <2>. QED  BY <1>1, <1>4, <2>1 DEF LeftBounded
\* Tags
<1>8. ASSUME d = pred \/ X = LAST  PROVE F' = F
  <2>1. victims = {}
    BY <1>8 DEF openend!Victims
  <2>2. \A Y \in openend!Banks : openend!At(PC, Y)'.tag = openend!At(PC, Y).tag
    BY <1>3, <1>5, <1>6, <2>1 DEF openend!At
  <2>3. openend!Matching(PC)' = openend!Matching(PC)
    BY <1>6, <2>2 DEF openend!Matching, openend!Banks
  <2>. QED  BY <2>3 DEF openend!FindBank, openend!Max
\* The counter in the last bank
<1>9. ASSUME X = LAST
      PROVE  /\ Left(PC, d) = ToGo(openend!At(PC, LAST).ctr, 4, d)
             /\ Left(PC, d)' = ToGo(Towards(openend!At(PC, LAST).ctr, d, 7), 4, d)
             /\ pred <=> openend!At(PC, LAST).ctr >= 4
  <2>1. F = LAST /\ F' = LAST /\ X # -1
    BY <1>1, <1>2, <1>8, <1>9
  <2>2. openend!At(PC, LAST)'.ctr = Towards(openend!At(PC, LAST).ctr, d, 7)
    BY <1>4, <1>6, <1>9, <2>1, TrainIs
  <2>3. pred <=> openend!At(PC, LAST).ctr >= 4
    BY <1>1, <1>9, <2>1 DEF openend!Direction
  <2>4. ~(LAST < LAST)
    BY <1>2
  <2>. HIDE DEF pred, F
  <2>. QED  BY <2>1, <2>2, <2>3, <2>4 DEF Left, F
<1>10. Mispredicts("openend") <=> pred # d
  BY DEF Mispredicts
<1>11. CASE X = LAST
  <2>. DEFINE v == openend!At(PC, LAST).ctr
  <2>1. v \in 0 .. 7 /\ d \in BOOLEAN /\ (pred <=> v >= 4)
    BY <1>1, <1>7, <1>9, <1>11
  <2>2. Left(PC, d) = ToGo(v, 4, d) /\ Left(PC, d)' = ToGo(Towards(v, d, 7), 4, d)
    BY <1>9, <1>11
  <2>. HIDE DEF v
  <2>3. /\ (v >= 4 <=> d) => ToGo(v, 4, d) = 0 /\ ToGo(Towards(v, d, 7), 4, d) = 0
        /\ ~(v >= 4 <=> d) => ToGo(Towards(v, d, 7), 4, d) = ToGo(v, 4, d) - 1
    BY <2>1, ThreeBitToGo
  <2>4. Mispredicts("openend") <=> ~(v >= 4 <=> d)
    BY <1>1, <1>10, <2>1
  <2>5. ToGo(v, 4, d) \in 0 .. 4
    BY <2>1, ThreeBitToGo
  <2>. QED  BY <2>2, <2>3, <2>4, <2>5
<1>12. CASE X # LAST
  <2>1. X < LAST /\ F < LAST /\ F \in Int /\ Left(PC, d) = LAST - F + 4
    BY <1>1, <1>2, <1>12 DEF Left
  <2>2. ASSUME pred = d  PROVE Left(PC, d)' = Left(PC, d)
    BY <1>8, <2>1, <2>2 DEF Left
  <2>3. ASSUME pred # d  PROVE Left(PC, d)' <= Left(PC, d) - 1
    <3>1. PICK Y \in X + 1 .. LAST : banks'[Y][idx(Y)].tag = t
      <4>1. branch.dir # predDir["openend"]
        BY <2>3
      <4>. QED  BY <2>1, <4>1, UpdateEnters DEF EntryOf
    <3>2. Y \in openend!Banks /\ Y \in Int /\ Y > F
      BY <1>1, <1>2, <2>1 DEF openend!Banks
    <3>3. openend!At(PC, Y)'.tag = openend!get_tag(PC)'
      BY <1>6, <3>1
    <3>4. Y \in openend!Matching(PC)'
      BY <3>2, <3>3 DEF openend!Matching, openend!Banks
    <3>5. Y <= F'
      <4>1. FoundIsLongest'
        BY FindIsLongest, PTL
      <4>. QED  BY <3>4, <4>1 DEF FoundIsLongest
    <3>6. Left(PC, d)' = IF F' < LAST THEN LAST - F' + 4 ELSE ToGo(openend!At(PC, LAST)'.ctr, 4, d)
      BY DEF Left
    <3>7. ToGo(openend!At(PC, LAST)'.ctr, 4, d) \in 0 .. 4
      <4>. DEFINE v == openend!At(PC, LAST)'.ctr
      <4>1. v \in 0 .. 7
        BY <1>7
      <4>. HIDE DEF v
      <4>2. ToGo(v, 4, d) \in 0 .. 4
        BY <1>1, <4>1, ThreeBitToGo
      <4>. QED  BY <4>2 DEF v
    <3>. HIDE DEF F
    <3>. QED  BY <1>2, <1>7, <2>1, <3>2, <3>5, <3>6, <3>7
  <2>4. Left(PC, d) \in Int
    BY <1>7
  <2>. QED  BY <1>10, <2>2, <2>3, <2>4
<1>. QED  BY <1>11, <1>12

\* A branch in the loop adds a steady bit to the history, or has one
\* misprediction less to go.
LEMMA OpenendLearnsStep ==
    ASSUME PredictionInv, LoopInv, OpenendLearns, [Next]_vars
    PROVE  OpenendLearns'
<1>. DEFINE g == global_history
            N == openend!Pow2[HISTORY_BITS]
<1>1. HISTORY_BITS \in Nat \ {0} /\ LAST \in 0 .. 3
  BY CbpAssumption
<1>2. N' = N
  BY DEF openend!Pow2
<1>3. ASSUME Update_openend
      PROVE  /\ g' = (2 * g + (IF branch.dir THEN 1 ELSE 0)) % N
             /\ branch.PC \in PCs /\ branch.dir \in BOOLEAN
  BY <1>3 DEF Update_openend, openend!UpdatePredictor_openend, openend!ShiftHistory, openend!TAKEN,
              PredictionInv, TracePlaced, Branches, Predictors
<1>4. ASSUME ~Update_openend
      PROVE  UNCHANGED <<global_history, banks>> /\ numMispred'["openend"] = numMispred["openend"]
  <2>1. CASE GetNextRecord \/ UNCHANGED vars
    BY <2>1 DEF GetNextRecord, vars, vars_openend
  <2>2. CASE GetPrediction
    BY <2>2 DEF GetPrediction
  <2>3. CASE Update_2bitsat
    <3>1. CountMispred("2bitsat") /\ UNCHANGED <<global_history, banks>>
      BY <2>3 DEF Update_2bitsat, vars_openend
    <3>. QED  BY <3>1, Counts DEF Predictors
  <2>4. CASE Update_2level
    <3>1. CountMispred("2level") /\ UNCHANGED <<global_history, banks>>
      BY <2>4 DEF Update_2level, vars_openend
    <3>. QED  BY <3>1, Counts DEF Predictors
  <2>. QED  BY <1>4, <2>1, <2>2, <2>3, <2>4 DEF Next
<1>5. g \in 0 .. N - 1 /\ N \in Nat \ {0}
  BY <1>1, PowersOfTwo DEF OpenendLearns
<1>6. g' \in 0 .. N - 1
  <2>1. CASE Update_openend
    <3>. DEFINE x == 2 * g + (IF branch.dir THEN 1 ELSE 0)
    <3>1. x \in Int
      BY <1>5
    <3>. HIDE DEF x, N
    <3>2. x % N \in 0 .. N - 1
      BY <1>5, <3>1, Division
    <3>. QED  BY <1>3, <2>1, <3>2 DEF x
  <2>. QED  BY <1>4, <1>5, <2>1
<1>7. CASE Enters
  <2>1. loop' \in Loops /\ InLoop("openend")' = 0
    BY <1>7 DEF Enters, InLoop, LoopInv, Predictors
  <2>2. PICK d : d = loop'[1].dir
    OBVIOUS
  <2>3. Steady(g', d, 0)
    <3>1. openend!Pow2[0] = 1
      BY PowersOfTwo
    <3>. DEFINE h == g'
    <3>2. h \in Int
      BY <1>5, <1>6
    <3>. HIDE DEF h
    <3>3. h = h * 1 + (IF d THEN 1 - 1 ELSE 0)
      BY <3>2
    <3>4. Steady(h, d, 0)
      BY <3>1, <3>2, <3>3 DEF Steady
    <3>. QED  BY <3>4 DEF h
  <2>4. OpenendLeft(loop[1].PC, loop[1].dir, InLoop("openend"))'
    <3>1. Steady(global_history, loop[1].dir, 0)'
      BY <2>2, <2>3 DEF Steady, openend!Pow2
    <3>2. 0 \in 0 .. HISTORY_BITS /\ 0 # HISTORY_BITS
      BY <1>1
    <3>. QED  BY <2>1, <3>1, <3>2 DEF OpenendLeft
  <2>. QED  BY <1>2, <1>6, <2>4 DEF OpenendLearns
<1>8. CASE Stays
  <2>. SUFFICES ASSUME (at # 0)', OneWay', OneBranch'
                PROVE  OpenendLeft(loop[1].PC, loop[1].dir, InLoop("openend"))'
    BY <1>2, <1>6 DEF OpenendLearns
  <2>1. at # 0 /\ OneWay /\ OneBranch /\ loop' = loop /\ before' = before
    BY <1>8 DEF Stays, OneWay, OneBranch
  <2>2. branch = loop[at] /\ at \in 1 .. Len(loop) /\ loop \in Loops
    BY <2>1 DEF LoopInv, PredictionInv, TracePlaced
  <2>3. PICK PC, d : PC = loop[1].PC /\ d = loop[1].dir
    OBVIOUS
  <2>4. branch.PC = PC /\ branch.dir = d /\ PC \in PCs /\ d \in BOOLEAN
    BY <2>1, <2>2, <2>3, LoopIsOne DEF Branches
  <2>. DEFINE count == InLoop("openend")
  <2>5. PICK j \in 0 .. HISTORY_BITS :
            /\ Steady(g, d, j)
            /\ j < HISTORY_BITS => count <= j
            /\ j = HISTORY_BITS => count + Left(PC, d) <= HISTORY_BITS + LAST + 5
    BY <2>1, <2>3 DEF OpenendLearns, OpenendLeft
  <2>6. SUFFICES \E i \in 0 .. HISTORY_BITS :
                     /\ Steady(g', d, i)
                     /\ i < HISTORY_BITS => count' <= i
                     /\ i = HISTORY_BITS => count' + Left(PC, d)' <= HISTORY_BITS + LAST + 5
    <3>1. ASSUME NEW i \in 0 .. HISTORY_BITS  PROVE Steady(global_history, d, i)' <=> Steady(g', d, i)
      BY DEF Steady, openend!Pow2
    <3>2. loop[1].PC' = PC /\ loop[1].dir' = d
      BY <2>1, <2>3
    <3>3. ASSUME NEW e, NEW Q, NEW c
          PROVE  OpenendLeft(Q, e, c)' <=> \E i \in 0 .. HISTORY_BITS :
                     /\ Steady(global_history, e, i)'
                     /\ i < HISTORY_BITS => c <= i
                     /\ i = HISTORY_BITS => c + Left(Q, e)' <= HISTORY_BITS + LAST + 5
      BY DEF OpenendLeft
    <3>. QED  BY <3>1, <3>2 DEF OpenendLeft
  <2>7. CASE ~Update_openend
    <3>1. g' = g /\ count' = count
      BY <1>4, <2>1, <2>7 DEF InLoop
    <3>2. Left(PC, d)' = Left(PC, d)
      <4>1. \A Y : openend!At(PC, Y)' = openend!At(PC, Y)
        BY <1>4, <2>7, SameLookup DEF openend!At
      <4>2. openend!Matching(PC)' = openend!Matching(PC)
        BY <1>4, <2>7, <4>1, SameLookup DEF openend!Matching, openend!Banks
      <4>3. openend!FindBank(PC)' = openend!FindBank(PC)
        BY <4>2 DEF openend!FindBank, openend!Max
      <4>. QED  BY <4>1, <4>3 DEF Left
    <3>. HIDE DEF count, g
    <3>. QED  BY <2>5, <3>1, <3>2
  <2>8. CASE Update_openend
    <3>1. /\ count \in Int /\ count' \in Int /\ count' <= count + 1
          /\ ~Mispredicts("openend") => count' <= count
      <4>1. CountMispred("openend")
        BY <2>8 DEF Update_openend
      <4>2. /\ numMispred'["openend"] \in Nat /\ numMispred["openend"] \in Nat /\ before["openend"] \in Nat
            /\ numMispred'["openend"] <= numMispred["openend"] + 1
            /\ ~Mispredicts("openend") => numMispred'["openend"] <= numMispred["openend"]
        BY <4>1, Counts DEF LoopInv, Predictors
      <4>. QED  BY <2>1, <4>2 DEF InLoop
    <3>2. /\ j < HISTORY_BITS => Steady(g', d, j + 1)
          /\ j = HISTORY_BITS => g' = g
      <4>. DEFINE h == g'
                  f == g
      <4>1. h = (2 * f + (IF d THEN 1 ELSE 0)) % openend!Pow2[HISTORY_BITS] /\ f \in 0 .. openend!Pow2[HISTORY_BITS] - 1
        BY <1>3, <1>5, <2>4, <2>8
      <4>2. Steady(f, d, j)
        BY <2>5
      <4>. HIDE DEF h, f
      <4>3. (j < HISTORY_BITS => Steady(h, d, j + 1)) /\ (j = HISTORY_BITS => h = f)
        BY <1>1, <2>4, <4>1, <4>2, HistoryStep
      <4>. QED  BY <4>3 DEF h, f
    <3>3. Left(PC, d)' \in 0 .. LAST + 5 /\ Left(PC, d) \in 0 .. LAST + 5
      <4>1. LeftBounded /\ LeftBounded'
        BY LeftIsBounded, PTL
      <4>2. OpenendTypes /\ OpenendTypes'
        BY NextPredicts DEF PredictionInv
      <4>. QED  BY <2>4, <4>1, <4>2 DEF LeftBounded
    <3>4. CASE j = HISTORY_BITS
      <4>1. g' = g
        BY <3>2, <3>4
      <4>2. /\ ~Mispredicts("openend") => Left(PC, d)' <= Left(PC, d)
            /\ Mispredicts("openend") => Left(PC, d)' <= Left(PC, d) - 1
        BY <2>4, <2>8, <4>1, LeftStep
      <4>3. count' + Left(PC, d)' <= HISTORY_BITS + LAST + 5
        <5>. DEFINE L == Left(PC, d)
                    M == Left(PC, d)'
                    n == count'
        <5>1. count + L <= HISTORY_BITS + LAST + 5
          BY <2>5, <3>4
        <5>. HIDE DEF L, M, n, count
        <5>. QED  BY <1>1, <3>1, <3>3, <4>2, <5>1 DEF L, M, n
      <4>4. Steady(g', d, HISTORY_BITS) /\ HISTORY_BITS \in 0 .. HISTORY_BITS
        BY <1>1, <2>5, <3>4, <4>1
      <4>. HIDE DEF count, g
      <4>. QED  BY <1>1, <4>3, <4>4
    <3>5. CASE j < HISTORY_BITS
      <4>1. j + 1 \in 0 .. HISTORY_BITS /\ Steady(g', d, j + 1) /\ count' <= j + 1
        <5>1. count <= j
          BY <2>5, <3>5
        <5>2. Steady(g', d, j + 1)
          BY <3>2, <3>5
        <5>. HIDE DEF count, g
        <5>. QED  BY <1>1, <3>1, <3>5, <5>1, <5>2
      <4>2. j + 1 = HISTORY_BITS => count' + Left(PC, d)' <= HISTORY_BITS + LAST + 5
        <5>. HIDE DEF count
        <5>. QED  BY <1>1, <3>1, <3>3, <4>1
      <4>. HIDE DEF count, g
      <4>. QED  BY <4>1, <4>2
    <3>. QED  BY <1>1, <3>4, <3>5
  <2>. QED  BY <2>7, <2>8
<1>. QED  BY <1>7, <1>8, LoopStep

\* Whatever tables and history: once a branch that always goes one way has the
\* trace to itself, the tagged predictor mispredicts it at most once for each
\* bit of the history, once for each bank, and four times for the counter of
\* the last bank (predictor.cc:103-161).
THEOREM OneWayLearned == Spec => []OneWayIsLearned
<1>1. Init => LoopInv /\ OpenendLearns
  <2>1. openend!Pow2[HISTORY_BITS] \in Nat \ {0}
    BY CbpAssumption, PowersOfTwo
  <2>2. 0 \in 0 .. openend!Pow2[HISTORY_BITS] - 1
    BY <2>1
  <2>. QED  BY <2>2, LoopInit DEF Init, openend!Init_openend, OpenendLearns
<1>2. PredictionInv /\ LoopInv /\ OpenendLearns /\ [Next]_vars => LoopInv' /\ OpenendLearns'
  BY LoopStep, OpenendLearnsStep
<1>3. PredictionInv /\ LoopInv /\ OpenendLearns => OneWayIsLearned
  <2>. SUFFICES ASSUME PredictionInv, LoopInv, OpenendLearns, at # 0, OneWay, OneBranch
                PROVE  InLoop("openend") <= HISTORY_BITS + LAST + 5
    BY DEF OneWayIsLearned
  <2>. DEFINE L == Left(loop[1].PC, loop[1].dir)
              count == InLoop("openend")
  <2>1. loop[1] \in Branches
    BY LoopIsOne DEF PredictionInv, TracePlaced
  <2>2. L \in 0 .. LAST + 5 /\ HISTORY_BITS \in Nat /\ LAST \in 0 .. 3
    BY <2>1, LeftBound, CbpAssumption DEF PredictionInv, Branches
  <2>3. PICK j \in 0 .. HISTORY_BITS : /\ j < HISTORY_BITS => count <= j
                                       /\ j = HISTORY_BITS => count + L <= HISTORY_BITS + LAST + 5
    BY DEF OpenendLearns, OpenendLeft
  <2>4. count \in Int
    BY DEF InLoop, LoopInv, Predictors
  <2>. HIDE DEF L, count
  <2>5. count <= HISTORY_BITS + LAST + 5
    BY <2>2, <2>3, <2>4
  <2>. QED  BY <2>5 DEF count
<1>. QED  BY <1>1, <1>2, <1>3, PredictionInvariant, PTL DEF Spec
=============================================================================
