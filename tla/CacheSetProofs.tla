--------------------------- MODULE CacheSetProofs ---------------------------
(***************************************************************************)
(* For any number of ways, tags and hash buckets, the pointers of a set    *)
(* stay whole, and they implement LruSet's list of lines.                  *)
(***************************************************************************)
EXTENDS CacheSet, FiniteSetTheorems, SequenceTheorems, WellFoundedInduction, TLAPS

Links == [Blks -> Blks \union {NULL}]
Ways == [head : Blks, tail : Blks, next : Links, prev : Links]

\* s lists the blocks of B once each
Holds(s, B) ==
    /\ s \in Seq(B) /\ IsInjective(s)
    /\ \A b \in B : \E i \in DOMAIN s : s[i] = b

\* Following next from h gives s
Linked(s, h, next) ==
    /\ h = IF s = <<>> THEN NULL ELSE s[1]
    /\ \A i \in DOMAIN s : next[s[i]] = IF i = Len(s) THEN NULL ELSE s[i + 1]

\* The way list w is s, in both directions
Listed(s, w) ==
    /\ s \in [1 .. Assoc -> Blks] /\ IsInjective(s)
    /\ \A b \in Blks : \E i \in 1 .. Assoc : s[i] = b
    /\ w.head = s[1] /\ w.tail = s[Assoc]
    /\ \A i \in 1 .. Assoc :
           /\ w.next[s[i]] = IF i = Assoc THEN NULL ELSE s[i + 1]
           /\ w.prev[s[i]] = IF i = 1 THEN NULL ELSE s[i - 1]

\* s with its k-th element in front, or behind
HeadMoved(s, k) == [i \in 1 .. Assoc |-> IF i = 1 THEN s[k] ELSE IF i <= k THEN s[i - 1] ELSE s[i]]
TailMoved(s, k) == [i \in 1 .. Assoc |-> IF i = Assoc THEN s[k] ELSE IF i >= k THEN s[i + 1] ELSE s[i]]

-----------------------------------------------------------------------------
(* The way list *)

LEMMA ListedBlocks ==
    ASSUME NEW w, NEW s, Listed(s, w)
    PROVE  /\ Assoc \in Nat /\ Assoc >= 1
           /\ \A i \in 1 .. Assoc : s[i] \in Blks /\ s[i] # NULL
           /\ \A i, j \in 1 .. Assoc : s[i] = s[j] => i = j
<1>1. Assoc \in Nat /\ Assoc >= 1
    BY CacheSetAssumption
<1>2. s \in [1 .. Assoc -> Blks] /\ DOMAIN s = 1 .. Assoc
    BY DEF Listed
<1>3. \A i \in 1 .. Assoc : s[i] \in Blks
    BY <1>2
<1>4. \A b \in Blks : b # NULL
    BY DEF Blks, NULL
<1>5. \A i, j \in DOMAIN s : s[i] = s[j] => i = j
    BY DEF Listed, IsInjective
<1> QED BY <1>1, <1>2, <1>3, <1>4, <1>5

\* Where a block's neighbours are
LEMMA Neighbours ==
    ASSUME NEW w \in Ways, NEW s, Listed(s, w), NEW k \in 1 .. Assoc
    PROVE  /\ PlaceOk(w, s[k])
           /\ w.prev[s[k]] = NULL <=> k = 1
           /\ w.next[s[k]] = NULL <=> k = Assoc
<1>1. \A i \in 1 .. Assoc : s[i] \in Blks /\ s[i] # NULL /\ (s[i] = s[k] => i = k)
    BY ListedBlocks
<1>2. Assoc \in Nat /\ 1 \in 1 .. Assoc /\ Assoc \in 1 .. Assoc
    BY CacheSetAssumption
<1>3. w.prev[s[k]] = NULL <=> k = 1
    <2>1. w.prev[s[k]] = IF k = 1 THEN NULL ELSE s[k - 1]
        BY DEF Listed
    <2>2. k # 1 => k - 1 \in 1 .. Assoc
        BY <1>2
    <2> QED BY <1>1, <2>1, <2>2
<1>4. w.next[s[k]] = NULL <=> k = Assoc
    <2>1. w.next[s[k]] = IF k = Assoc THEN NULL ELSE s[k + 1]
        BY DEF Listed
    <2>2. k # Assoc => k + 1 \in 1 .. Assoc
        BY <1>2
    <2> QED BY <1>1, <2>1, <2>2
<1> QED BY <1>1, <1>2, <1>3, <1>4 DEF Listed, PlaceOk

\* A block taken out: its neighbours are linked to each other
LEMMA UnlinkedList ==
    ASSUME NEW w \in Ways, NEW s, Listed(s, w), NEW k \in 1 .. Assoc, Assoc > 1
    PROVE  LET u == Unlinked(w, s[k])
           IN  /\ u \in Ways
               /\ u.head = IF k = 1 THEN s[2] ELSE s[1]
               /\ u.tail = IF k = Assoc THEN s[Assoc - 1] ELSE s[Assoc]
               /\ \A i \in 1 .. Assoc :
                      /\ u.next[s[i]] = IF i = k - 1 THEN w.next[s[k]] ELSE w.next[s[i]]
                      /\ u.prev[s[i]] = IF i = k + 1 THEN w.prev[s[k]] ELSE w.prev[s[i]]
<1> DEFINE p == w.prev[s[k]]
           n == w.next[s[k]]
           u == Unlinked(w, s[k])
<1>1. /\ p = IF k = 1 THEN NULL ELSE s[k - 1]
      /\ n = IF k = Assoc THEN NULL ELSE s[k + 1]
      /\ \A i \in 1 .. Assoc : s[i] \in Blks /\ s[i] # NULL
      /\ \A i, j \in 1 .. Assoc : s[i] = s[j] => i = j
      /\ p \in Blks \union {NULL} /\ n \in Blks \union {NULL}
    <2>1. /\ p = IF k = 1 THEN NULL ELSE s[k - 1]
          /\ n = IF k = Assoc THEN NULL ELSE s[k + 1]
        BY DEF Listed
    <2>2. p \in Blks \union {NULL} /\ n \in Blks \union {NULL}
        BY ListedBlocks DEF Ways, Links
    <2> QED BY <2>1, <2>2, ListedBlocks
<1>2. /\ u.head = IF p = NULL THEN n ELSE w.head
      /\ u.tail = IF n = NULL THEN p ELSE w.tail
      /\ u.next = [x \in Blks |-> IF x = p THEN n ELSE w.next[x]]
      /\ u.prev = [x \in Blks |-> IF x = n THEN p ELSE w.prev[x]]
      /\ u = [head |-> u.head, tail |-> u.tail, next |-> u.next, prev |-> u.prev]
    BY DEF Unlinked
<1> HIDE DEF u, p, n
<1>3. /\ u.head = IF k = 1 THEN s[2] ELSE s[1]
      /\ u.tail = IF k = Assoc THEN s[Assoc - 1] ELSE s[Assoc]
    BY <1>1, <1>2, CacheSetAssumption DEF Listed
<1>4. u.next \in Links /\ u.prev \in Links
    BY <1>1, <1>2 DEF Ways, Links
<1>5. ASSUME NEW i \in 1 .. Assoc
      PROVE  /\ u.next[s[i]] = IF i = k - 1 THEN n ELSE w.next[s[i]]
             /\ u.prev[s[i]] = IF i = k + 1 THEN p ELSE w.prev[s[i]]
    <2>1. s[i] = p <=> i = k - 1
        <3>1. CASE k = 1
            BY <1>1, <3>1
        <3>2. CASE k > 1
            <4>1. p = s[k - 1] /\ k - 1 \in 1 .. Assoc
                BY <1>1, <3>2, CacheSetAssumption
            <4> QED BY <1>1, <4>1
        <3> QED BY <3>1, <3>2
    <2>2. s[i] = n <=> i = k + 1
        <3>1. CASE k = Assoc
            BY <1>1, <3>1, CacheSetAssumption
        <3>2. CASE k < Assoc
            <4>1. n = s[k + 1] /\ k + 1 \in 1 .. Assoc
                BY <1>1, <3>2, CacheSetAssumption
            <4> QED BY <1>1, <4>1
        <3> QED BY <3>1, <3>2, CacheSetAssumption
    <2> QED BY <1>1, <1>2, <2>1, <2>2
<1>6. u.head \in Blks /\ u.tail \in Blks
    BY <1>1, <1>3, CacheSetAssumption
<1> QED BY <1>2, <1>3, <1>4, <1>5, <1>6 DEF u, p, n, Ways

LEMMA HeadMove ==
    ASSUME NEW w \in Ways, NEW s, Listed(s, w), NEW k \in 1 .. Assoc
    PROVE  MoveToHead(w, s[k]) \in Ways /\ Listed(HeadMoved(s, k), MoveToHead(w, s[k]))
<1> DEFINE t == HeadMoved(s, k)
<1>1. /\ \A i \in 1 .. Assoc : s[i] \in Blks
      /\ \A i, j \in 1 .. Assoc : s[i] = s[j] => i = j
      /\ Assoc \in Nat /\ Assoc >= 1 /\ k \in Nat
    BY ListedBlocks
<1>2. \A i \in 1 .. Assoc : t[i] = IF i = 1 THEN s[k] ELSE IF i <= k THEN s[i - 1] ELSE s[i]
    BY DEF HeadMoved
<1>3. CASE k = 1
    <2>1. MoveToHead(w, s[k]) = w
        BY <1>3, Neighbours DEF MoveToHead
    <2>2. t = s
        BY <1>1, <1>3 DEF HeadMoved, Listed
    <2> QED BY <2>1, <2>2
<1>4. CASE k # 1
    <2> DEFINE u == Unlinked(w, s[k])
               v == AtHead(u, s[k])
    <2>1. MoveToHead(w, s[k]) = v /\ Assoc > 1
        BY <1>1, <1>4, Neighbours DEF MoveToHead
    <2>2. /\ u \in Ways
          /\ u.head = s[1]
          /\ u.tail = IF k = Assoc THEN s[Assoc - 1] ELSE s[Assoc]
          /\ \A i \in 1 .. Assoc :
                 /\ u.next[s[i]] = IF i = k - 1 THEN w.next[s[k]] ELSE w.next[s[i]]
                 /\ u.prev[s[i]] = IF i = k + 1 THEN w.prev[s[k]] ELSE w.prev[s[i]]
        BY <1>4, <2>1, UnlinkedList
    <2> HIDE DEF u
    <2>3. /\ v \in Ways
          /\ v.head = s[k] /\ v.tail = u.tail
          /\ \A x \in Blks : v.next[x] = IF x = s[k] THEN s[1] ELSE u.next[x]
          /\ \A x \in Blks : v.prev[x] = IF x = s[1] THEN s[k] ELSE IF x = s[k] THEN NULL ELSE u.prev[x]
        BY <1>1, <1>4, <2>2 DEF AtHead, Ways, Links
    <2> HIDE DEF v
    <2>4. \A i \in 1 .. Assoc :
              /\ v.next[s[i]] = IF i = k THEN s[1] ELSE IF i = k - 1 THEN w.next[s[k]] ELSE w.next[s[i]]
              /\ v.prev[s[i]] = IF i = 1 THEN s[k] ELSE IF i = k THEN NULL
                                ELSE IF i = k + 1 THEN w.prev[s[k]] ELSE w.prev[s[i]]
        BY <1>1, <2>2, <2>3
    <2>5. \A i \in 1 .. Assoc :
              /\ v.next[s[i]] = IF i = k THEN s[1] ELSE IF i = k - 1 /\ k = Assoc THEN NULL
                                ELSE IF i = k - 1 THEN s[k + 1] ELSE IF i = Assoc THEN NULL ELSE s[i + 1]
              /\ v.prev[s[i]] = IF i = 1 THEN s[k] ELSE IF i = k THEN NULL
                                ELSE IF i = k + 1 THEN s[k - 1] ELSE s[i - 1]
        <3>1. \A i \in 1 .. Assoc :
                 /\ w.next[s[i]] = IF i = Assoc THEN NULL ELSE s[i + 1]
                 /\ w.prev[s[i]] = IF i = 1 THEN NULL ELSE s[i - 1]
            BY DEF Listed
        <3> SUFFICES ASSUME NEW i \in 1 .. Assoc
                     PROVE  /\ v.next[s[i]] = IF i = k THEN s[1] ELSE IF i = k - 1 /\ k = Assoc THEN NULL
                                ELSE IF i = k - 1 THEN s[k + 1] ELSE IF i = Assoc THEN NULL ELSE s[i + 1]
                            /\ v.prev[s[i]] = IF i = 1 THEN s[k] ELSE IF i = k THEN NULL
                                ELSE IF i = k + 1 THEN s[k - 1] ELSE s[i - 1]
            OBVIOUS
        <3> QED BY <1>1, <1>4, <2>4, <3>1
    <2> HIDE DEF t
    <2>6. /\ t \in [1 .. Assoc -> Blks]
          /\ \A i, j \in 1 .. Assoc : t[i] = t[j] => i = j
        <3>1. t \in [1 .. Assoc -> Blks]
            BY <1>1, <1>2 DEF t, HeadMoved
        <3> QED BY <1>1, <1>2, <3>1
    <2>7. \A b \in Blks : \E i \in 1 .. Assoc : t[i] = b
        <3> SUFFICES ASSUME NEW b \in Blks  PROVE \E i \in 1 .. Assoc : t[i] = b
            OBVIOUS
        <3>1. PICK j \in 1 .. Assoc : s[j] = b
            BY DEF Listed
        <3> DEFINE i == IF j = k THEN 1 ELSE IF j < k THEN j + 1 ELSE j
        <3>2. i \in 1 .. Assoc /\ t[i] = b
            BY <1>1, <1>2, <3>1
        <3> QED BY <3>2
    <2>8. ASSUME NEW i \in 1 .. Assoc
          PROVE  /\ v.next[t[i]] = IF i = Assoc THEN NULL ELSE t[i + 1]
                 /\ v.prev[t[i]] = IF i = 1 THEN NULL ELSE t[i - 1]
        <3>1. CASE i = 1
            BY <1>1, <1>2, <1>4, <2>1, <2>5, <3>1
        <3>2. CASE i > 1 /\ i <= k
            BY <1>1, <1>2, <1>4, <2>1, <2>5, <3>2
        <3>3. CASE i > k
            BY <1>1, <1>2, <1>4, <2>1, <2>5, <3>3
        <3> QED BY <1>1, <3>1, <3>2, <3>3
    <2>9. v.head = t[1] /\ v.tail = t[Assoc]
        BY <1>1, <1>2, <1>4, <2>1, <2>2, <2>3
    <2> QED BY <2>1, <2>3, <2>6, <2>7, <2>8, <2>9 DEF Listed, IsInjective, t
<1> QED BY <1>3, <1>4

LEMMA TailMove ==
    ASSUME NEW w \in Ways, NEW s, Listed(s, w), NEW k \in 1 .. Assoc
    PROVE  MoveToTail(w, s[k]) \in Ways /\ Listed(TailMoved(s, k), MoveToTail(w, s[k]))
<1> DEFINE t == TailMoved(s, k)
<1>1. /\ \A i \in 1 .. Assoc : s[i] \in Blks
      /\ \A i, j \in 1 .. Assoc : s[i] = s[j] => i = j
      /\ Assoc \in Nat /\ Assoc >= 1 /\ k \in Nat
    BY ListedBlocks
<1>2. \A i \in 1 .. Assoc : t[i] = IF i = Assoc THEN s[k] ELSE IF i >= k THEN s[i + 1] ELSE s[i]
    BY DEF TailMoved
<1>3. CASE k = Assoc
    <2>1. MoveToTail(w, s[k]) = w
        BY <1>3, Neighbours DEF MoveToTail
    <2>2. t = s
        BY <1>1, <1>3 DEF TailMoved, Listed
    <2> QED BY <2>1, <2>2
<1>4. CASE k # Assoc
    <2> DEFINE u == Unlinked(w, s[k])
               v == AtTail(u, s[k])
    <2>1. MoveToTail(w, s[k]) = v /\ Assoc > 1
        BY <1>1, <1>4, Neighbours DEF MoveToTail
    <2>2. /\ u \in Ways
          /\ u.head = IF k = 1 THEN s[2] ELSE s[1]
          /\ u.tail = s[Assoc]
          /\ \A i \in 1 .. Assoc :
                 /\ u.next[s[i]] = IF i = k - 1 THEN w.next[s[k]] ELSE w.next[s[i]]
                 /\ u.prev[s[i]] = IF i = k + 1 THEN w.prev[s[k]] ELSE w.prev[s[i]]
        BY <1>4, <2>1, UnlinkedList
    <2> HIDE DEF u
    <2>3. /\ v \in Ways
          /\ v.tail = s[k] /\ v.head = u.head
          /\ \A x \in Blks : v.prev[x] = IF x = s[k] THEN s[Assoc] ELSE u.prev[x]
          /\ \A x \in Blks : v.next[x] = IF x = s[Assoc] THEN s[k] ELSE IF x = s[k] THEN NULL ELSE u.next[x]
        BY <1>1, <1>4, <2>2 DEF AtTail, Ways, Links
    <2> HIDE DEF v
    <2>4. \A i \in 1 .. Assoc :
              /\ v.prev[s[i]] = IF i = k THEN s[Assoc]
                                ELSE IF i = k + 1 THEN w.prev[s[k]] ELSE w.prev[s[i]]
              /\ v.next[s[i]] = IF i = Assoc THEN s[k] ELSE IF i = k THEN NULL
                                ELSE IF i = k - 1 THEN w.next[s[k]] ELSE w.next[s[i]]
        BY <1>1, <2>2, <2>3
    <2>5. \A i \in 1 .. Assoc :
              /\ v.prev[s[i]] = IF i = k THEN s[Assoc] ELSE IF i = k + 1 /\ k = 1 THEN NULL
                                ELSE IF i = k + 1 THEN s[k - 1] ELSE IF i = 1 THEN NULL ELSE s[i - 1]
              /\ v.next[s[i]] = IF i = Assoc THEN s[k] ELSE IF i = k THEN NULL
                                ELSE IF i = k - 1 THEN s[k + 1] ELSE s[i + 1]
        <3>1. \A i \in 1 .. Assoc :
                 /\ w.next[s[i]] = IF i = Assoc THEN NULL ELSE s[i + 1]
                 /\ w.prev[s[i]] = IF i = 1 THEN NULL ELSE s[i - 1]
            BY DEF Listed
        <3> SUFFICES ASSUME NEW i \in 1 .. Assoc
                     PROVE  /\ v.prev[s[i]] = IF i = k THEN s[Assoc] ELSE IF i = k + 1 /\ k = 1 THEN NULL
                                ELSE IF i = k + 1 THEN s[k - 1] ELSE IF i = 1 THEN NULL ELSE s[i - 1]
                            /\ v.next[s[i]] = IF i = Assoc THEN s[k] ELSE IF i = k THEN NULL
                                ELSE IF i = k - 1 THEN s[k + 1] ELSE s[i + 1]
            OBVIOUS
        <3> QED BY <1>1, <1>4, <2>4, <3>1
    <2> HIDE DEF t
    <2>6. /\ t \in [1 .. Assoc -> Blks]
          /\ \A i, j \in 1 .. Assoc : t[i] = t[j] => i = j
        <3>1. t \in [1 .. Assoc -> Blks]
            BY <1>1, <1>2 DEF t, TailMoved
        <3> QED BY <1>1, <1>2, <3>1
    <2>7. \A b \in Blks : \E i \in 1 .. Assoc : t[i] = b
        <3> SUFFICES ASSUME NEW b \in Blks  PROVE \E i \in 1 .. Assoc : t[i] = b
            OBVIOUS
        <3>1. PICK j \in 1 .. Assoc : s[j] = b
            BY DEF Listed
        <3> DEFINE i == IF j = k THEN Assoc ELSE IF j > k THEN j - 1 ELSE j
        <3>2. i \in 1 .. Assoc /\ t[i] = b
            BY <1>1, <1>2, <3>1
        <3> QED BY <3>2
    <2>8. ASSUME NEW i \in 1 .. Assoc
          PROVE  /\ v.next[t[i]] = IF i = Assoc THEN NULL ELSE t[i + 1]
                 /\ v.prev[t[i]] = IF i = 1 THEN NULL ELSE t[i - 1]
        <3>1. CASE i = Assoc
            BY <1>1, <1>2, <1>4, <2>1, <2>5, <3>1
        <3>2. CASE i < Assoc /\ i >= k
            BY <1>1, <1>2, <1>4, <2>1, <2>5, <3>2
        <3>3. CASE i < k
            BY <1>1, <1>2, <1>4, <2>1, <2>5, <3>3
        <3> QED BY <1>1, <3>1, <3>2, <3>3
    <2>9. v.head = t[1] /\ v.tail = t[Assoc]
        BY <1>1, <1>2, <1>4, <2>1, <2>2, <2>3
    <2> QED BY <2>1, <2>3, <2>6, <2>7, <2>8, <2>9 DEF Listed, IsInjective, t
<1> QED BY <1>3, <1>4

-----------------------------------------------------------------------------
(* Chain reads a list off its links *)

LEMMA UpTo ==
    ASSUME NEW n \in Nat, NEW S, 1 \in S, \A i \in 1 .. n - 1 : i \in S => i + 1 \in S
    PROVE  \A i \in 1 .. n : i \in S
<1> SUFFICES ASSUME NEW i \in 1 .. n, i \notin S
             PROVE  FALSE
    OBVIOUS
<1> DEFINE R == OpToRel(<, Nat)
           T == {j \in Nat : j \in 1 .. n /\ j \notin S}
<1>1. IsWellFoundedOn(R, Nat)
    BY NatLessThanWellFounded
<1>2. \A x, y \in Nat : y < x => <<y, x>> \in R
    BY DEF OpToRel
<1> HIDE DEF R
<1>3. PICK x \in T : \A y \in T : <<y, x>> \notin R
    <2>1. T \in SUBSET Nat /\ i \in T
        OBVIOUS
    <2> HIDE DEF T
    <2> QED BY <1>1, <2>1, WFMin
<1>4. x \in Nat /\ x >= 1 /\ x <= n /\ x \notin S
    BY <1>3
<1>5. x # 1
    BY <1>4
<1>6. x - 1 \in Nat /\ x - 1 \in 1 .. n - 1 /\ (x - 1) + 1 = x /\ x - 1 < x
    BY <1>4, <1>5
<1>7. x - 1 \notin S
    BY <1>4, <1>6
<1>8. x - 1 \in T
    BY <1>6, <1>7
<1> QED BY <1>2, <1>3, <1>4, <1>6, <1>8

LEMMA FirstOnes ==
    ASSUME NEW n \in Nat
    PROVE  IsFiniteSet(1 .. n) /\ Cardinality(1 .. n) = n
<1>1. IsFiniteSet(1 .. n) /\ Cardinality(1 .. n) = IF 1 > n THEN 0 ELSE n - 1 + 1
    BY FS_Interval
<1> QED BY <1>1

\* A list has no more elements than there are blocks
LEMMA ListFits ==
    ASSUME NEW s \in Seq(Blks), IsInjective(s)
    PROVE  Len(s) <= Assoc
<1>1. IsFiniteSet(Blks) /\ Cardinality(Blks) = Assoc
    BY FS_Interval, CacheSetAssumption DEF Blks
<1>2. IsFiniteSet(1 .. Len(s)) /\ Cardinality(1 .. Len(s)) = Len(s)
    <2>1. Len(s) \in Nat
        OBVIOUS
    <2> QED BY <2>1, FirstOnes
<1>3. s \in [1 .. Len(s) -> Blks] /\ DOMAIN s = 1 .. Len(s)
    OBVIOUS
<1>4. Len(s) \in Nat /\ Assoc \in Nat
    BY CacheSetAssumption
<1>5. Cardinality(1 .. Len(s)) > Cardinality(Blks) => FALSE
    <2>1. \A i, j \in 1 .. Len(s) : s[i] = s[j] => i = j
        BY <1>3 DEF IsInjective
    <2>2. Cardinality(1 .. Len(s)) > Cardinality(Blks) =>
              \E x, y \in 1 .. Len(s) : x # y /\ s[x] = s[y]
        BY <1>1, <1>2, <1>3, FS_PigeonHole
    <2> QED BY <2>1, <2>2
<1> QED BY <1>1, <1>2, <1>4, <1>5

LEMMA ChainIs ==
    ASSUME NEW next \in Links, NEW s \in Seq(Blks), IsInjective(s), NEW h, Linked(s, h, next)
    PROVE  Chain(h, next) = s
<1> DEFINE n == Len(s)
           N == 1 .. Assoc + 1
           succ == [x \in Blks \union {NULL} |-> IF x = NULL THEN NULL ELSE next[x]]
           Step(f) == f = [i \in N |-> IF i = 1 THEN h ELSE succ[f[i - 1]]]
           nth == CHOOSE f : Step(f)
           g == [i \in N |-> IF i <= n THEN s[i] ELSE NULL]
<1>1. n \in Nat /\ n <= Assoc /\ Assoc \in Nat /\ Assoc >= 1 /\ DOMAIN s = 1 .. n
    BY ListFits, CacheSetAssumption
<1>2. \A i \in 1 .. n : s[i] \in Blks /\ s[i] # NULL /\ next[s[i]] = IF i = n THEN NULL ELSE s[i + 1]
    <2>1. \A i \in 1 .. n : s[i] \in Blks
        BY <1>1
    <2>2. \A b \in Blks : b # NULL
        BY DEF Blks, NULL
    <2> QED BY <1>1, <2>1, <2>2 DEF Linked
<1>3. /\ \A i \in N : g[i] = IF i <= n THEN s[i] ELSE NULL
      /\ \A i \in N : g[i] \in Blks \union {NULL}
      /\ \A i \in N : i <= n <=> i \in 1 .. n
    <2>1. \A i \in N : g[i] = IF i <= n THEN s[i] ELSE NULL
        OBVIOUS
    <2>2. \A i \in N : i <= n <=> i \in 1 .. n
        BY <1>1
    <2> HIDE DEF g
    <2> QED BY <1>2, <2>1, <2>2
<1>4. \A x \in Blks \union {NULL} : succ[x] = IF x = NULL THEN NULL ELSE next[x]
    OBVIOUS
<1>5. \A i \in N : g[i] = IF i = 1 THEN h ELSE succ[g[i - 1]]
    <2> SUFFICES ASSUME NEW i \in N
                 PROVE  g[i] = IF i = 1 THEN h ELSE succ[g[i - 1]]
        OBVIOUS
    <2> HIDE DEF g, succ
    <2>1. CASE i = 1
        <3>1. h = IF n = 0 THEN NULL ELSE s[1]
            BY DEF Linked
        <3> QED BY <1>1, <1>3, <2>1, <3>1
    <2>2. CASE i # 1
        <3>1. i - 1 \in N /\ i - 1 \in Nat /\ i \in Nat
            BY <1>1, <2>2
        <3>2. CASE i - 1 <= n
            <4>1. i - 1 \in 1 .. n /\ g[i - 1] = s[i - 1] /\ s[i - 1] # NULL /\ s[i - 1] \in Blks
                <5>1. i - 1 \in 1 .. n
                    BY <1>1, <2>2, <3>1, <3>2
                <5> QED BY <1>2, <1>3, <3>1, <5>1
            <4>2. succ[g[i - 1]] = IF i - 1 = n THEN NULL ELSE s[i - 1 + 1]
                BY <1>2, <1>4, <4>1
            <4> QED BY <1>1, <1>3, <2>2, <3>1, <3>2, <4>2
        <3>3. CASE i - 1 > n
            BY <1>1, <1>3, <1>4, <2>2, <3>1, <3>3
        <3> QED BY <1>1, <3>1, <3>2, <3>3
    <2> QED BY <2>1, <2>2
<1>6. Step(g)
    <2> HIDE DEF succ
    <2> QED BY <1>5
<1>7. Step(nth)
    <2> HIDE DEF g, Step
    <2> QED BY <1>6
<1>8. nth = g
    <2> HIDE DEF nth, succ
    <2>1. \A i \in N : nth[i] = IF i = 1 THEN h ELSE succ[nth[i - 1]]
        BY <1>7
    <2>2. DOMAIN nth = N /\ nth = [i \in N |-> nth[i]]
        BY <1>7
    <2> DEFINE S == {i \in N : nth[i] = g[i]}
    <2> HIDE DEF g
    <2>3. 1 \in S
        BY <1>1, <1>5, <2>1
    <2>4. ASSUME NEW i \in 1 .. Assoc, i \in S
          PROVE  i + 1 \in S
        <3>1. i + 1 \in N /\ i + 1 # 1 /\ (i + 1) - 1 = i
            BY <1>1
        <3> QED BY <1>5, <2>1, <2>4, <3>1
    <2> HIDE DEF S
    <2>5. \A i \in 1 .. Assoc + 1 : i \in S
        <3>1. Assoc + 1 \in Nat
            BY <1>1
        <3> DEFINE m == Assoc + 1
        <3>2. m \in Nat /\ \A i \in 1 .. m - 1 : i \in S => i + 1 \in S
            <4>1. m - 1 = Assoc
                BY <1>1
            <4> QED BY <2>4, <3>1, <4>1
        <3> HIDE DEF m
        <3>3. \A i \in 1 .. m : i \in S
            BY <2>3, <3>2, UpTo
        <3> QED BY <3>3 DEF m
    <2>6. \A i \in N : nth[i] = g[i]
        BY <2>5 DEF S
    <2> QED BY <2>2, <2>6 DEF g
<1>9. {i \in DOMAIN g : g[i] # NULL} = 1 .. n
    <2>1. DOMAIN g = N
        OBVIOUS
    <2> HIDE DEF g
    <2>2. ASSUME NEW i \in N
          PROVE  g[i] # NULL <=> i \in 1 .. n
        BY <1>2, <1>3
    <2>3. 1 .. n \subseteq N
        BY <1>1
    <2> QED BY <2>1, <2>2, <2>3
<1>10. Cardinality(1 .. n) = n
    BY <1>1, FirstOnes
<1>11. SubSeq(g, 1, n) = s
    <2>1. g \in Seq(Blks \union {NULL}) /\ Len(g) = Assoc + 1
        BY <1>1, <1>3
    <2>2. \A i \in 1 .. n : g[i] = s[i]
        BY <1>1, <1>3
    <2>3. Len(SubSeq(g, 1, n)) = n /\ \A i \in 1 .. n : SubSeq(g, 1, n)[i] = g[i]
        <3> HIDE DEF g
        <3> QED BY <1>1, <2>1
    <2>4. SubSeq(g, 1, n) \in Seq(Blks \union {NULL})
        <3> HIDE DEF g
        <3> QED BY <1>1, <2>1
    <2> HIDE DEF g
    <2> QED BY <2>2, <2>3, <2>4
<1>12. Chain(h, next) = SubSeq(nth, 1, Cardinality({i \in DOMAIN nth : nth[i] # NULL}))
    BY DEF Chain
<1> QED
    <2> HIDE DEF g, nth
    <2> QED BY <1>8, <1>9, <1>10, <1>11, <1>12

-----------------------------------------------------------------------------
(* The hash chains *)

Hashes == [head : [0 .. hsize - 1 -> Blks \union {NULL}], next : Links]

\* The chain of bucket k holds the blocks of B
Whole(h, k, B) ==
    LET s == Chain(h.head[k], h.next)
    IN  Holds(s, B) /\ Linked(s, h.head[k], h.next)

LEMMA WholeIf ==
    ASSUME NEW h, NEW k, NEW B \in SUBSET Blks, h.next \in Links,
           NEW s, Holds(s, B), Linked(s, h.head[k], h.next)
    PROVE  Whole(h, k, B)
<1>1. s \in Seq(Blks) /\ IsInjective(s)
    BY DEF Holds
<1>2. Chain(h.head[k], h.next) = s
    BY <1>1, ChainIs
<1> QED BY <1>2 DEF Whole

\* The k-th element taken out of a list
LEMMA TakenOut ==
    ASSUME NEW B \in SUBSET Blks, NEW next \in Links, NEW h, NEW s, Holds(s, B), Linked(s, h, next),
           NEW k \in DOMAIN s, NEW after \in Links,
           \A b \in Blks : after[b] = IF b = s[k] THEN NULL
                                      ELSE IF k # 1 /\ b = s[k - 1] THEN next[s[k]] ELSE next[b]
    PROVE  \E t : Holds(t, B \ {s[k]}) /\ Linked(t, IF k = 1 THEN next[s[k]] ELSE h, after)
<1> DEFINE n == Len(s)
           t == [i \in 1 .. n - 1 |-> IF i < k THEN s[i] ELSE s[i + 1]]
<1>1. /\ n \in Nat /\ n >= 1 /\ k \in 1 .. n /\ DOMAIN s = 1 .. n
      /\ \A i \in 1 .. n : s[i] \in B /\ s[i] \in Blks
      /\ \A i, j \in 1 .. n : s[i] = s[j] => i = j
    <2>1. s \in Seq(B)
        BY DEF Holds
    <2>2. n \in Nat /\ DOMAIN s = 1 .. n /\ \A i \in 1 .. n : s[i] \in B
        BY <2>1
    <2> QED BY <2>2 DEF Holds, IsInjective
<1>2. \A i \in 1 .. n : next[s[i]] = IF i = n THEN NULL ELSE s[i + 1]
    BY <1>1 DEF Linked
<1>3. /\ n - 1 \in Nat /\ DOMAIN t = 1 .. n - 1
      /\ \A i \in 1 .. n - 1 : t[i] = IF i < k THEN s[i] ELSE s[i + 1]
    BY <1>1
<1>4. \A i \in 1 .. n - 1 : t[i] \in B \ {s[k]}
    <2> HIDE DEF t
    <2> QED BY <1>1, <1>3
<1>5. t \in Seq(B \ {s[k]}) /\ Len(t) = n - 1
    <2>1. t = [i \in 1 .. n - 1 |-> t[i]]
        BY <1>3
    <2> HIDE DEF t
    <2> QED BY <1>3, <1>4, <2>1
<1> HIDE DEF t
<1>6. Holds(t, B \ {s[k]})
    <2>1. \A i, j \in 1 .. n - 1 : t[i] = t[j] => i = j
        BY <1>1, <1>3
    <2>2. ASSUME NEW b \in B \ {s[k]}
          PROVE  \E i \in 1 .. n - 1 : t[i] = b
        <3>1. PICK j \in 1 .. n : s[j] = b
            BY <1>1, <2>2 DEF Holds
        <3> DEFINE i == IF j < k THEN j ELSE j - 1
        <3>2. i \in 1 .. n - 1 /\ t[i] = b
            BY <1>1, <1>3, <2>2, <3>1
        <3> QED BY <3>2
    <2> QED BY <1>3, <1>5, <2>1, <2>2 DEF Holds, IsInjective
<1>7. ASSUME NEW i \in 1 .. n - 1
      PROVE  after[t[i]] = IF i = n - 1 THEN NULL ELSE t[i + 1]
    <2>1. CASE i < k - 1
        <3>1. i \in 1 .. n /\ i + 1 \in 1 .. n - 1 /\ t[i] = s[i] /\ t[i + 1] = s[i + 1]
              /\ i # k /\ i # k - 1 /\ i # n /\ i # n - 1
            <4>1. n \in Nat /\ k \in Nat /\ k <= n
                BY <1>1
            <4>2. i \in 1 .. n /\ i + 1 \in 1 .. n - 1 /\ i < k /\ i + 1 < k
                  /\ i # k /\ i # k - 1 /\ i # n /\ i # n - 1
                BY <2>1, <4>1
            <4> QED BY <1>3, <4>2
        <3>2. s[i] # s[k] /\ (k # 1 => s[i] # s[k - 1])
            <4>1. k # 1 => k - 1 \in 1 .. n
                BY <1>1
            <4> QED BY <1>1, <3>1, <4>1
        <3>3. after[s[i]] = next[s[i]]
            BY <1>1, <3>1, <3>2
        <3>4. next[s[i]] = s[i + 1]
            BY <1>2, <3>1
        <3> QED BY <3>1, <3>3, <3>4
    <2>2. CASE i = k - 1
        <3>1. i \in 1 .. n /\ t[i] = s[i] /\ i # k /\ k # 1 /\ s[i] # s[k]
            BY <1>1, <1>3, <2>2
        <3>2. after[t[i]] = next[s[k]]
            BY <1>1, <2>2, <3>1
        <3>3. i + 1 \in 1 .. n - 1 => t[i + 1] = s[k + 1]
            BY <1>1, <1>3, <2>2
        <3>4. next[s[k]] = IF k = n THEN NULL ELSE s[k + 1]
            BY <1>1, <1>2
        <3>5. (i = n - 1 <=> k = n) /\ (i # n - 1 => i + 1 \in 1 .. n - 1)
            BY <1>1, <2>2
        <3> QED BY <3>2, <3>3, <3>4, <3>5
    <2>3. CASE i >= k
        <3>1. i + 1 \in 1 .. n /\ t[i] = s[i + 1] /\ i + 1 # k /\ i + 1 # k - 1
            BY <1>1, <1>3, <2>3
        <3>2. s[i + 1] # s[k] /\ (k # 1 => s[i + 1] # s[k - 1])
            <4>1. k # 1 => k - 1 \in 1 .. n
                BY <1>1
            <4> QED BY <1>1, <3>1, <4>1
        <3>3. after[t[i]] = next[s[i + 1]]
            BY <1>1, <3>1, <3>2
        <3>4. i # n - 1 => t[i + 1] = s[i + 1 + 1]
            <4>1. n \in Nat /\ k \in Nat /\ i \in Nat
                BY <1>1
            <4>2. i # n - 1 => i + 1 \in 1 .. n - 1 /\ ~(i + 1 < k)
                BY <2>3, <4>1
            <4> QED BY <1>3, <4>2
        <3>5. next[s[i + 1]] = IF i + 1 = n THEN NULL ELSE s[i + 1 + 1]
            BY <1>2, <3>1
        <3>6. i + 1 = n <=> i = n - 1
            BY <1>1
        <3> QED BY <3>3, <3>4, <3>5, <3>6
    <2>4. i < k - 1 \/ i = k - 1 \/ i >= k
        BY <1>1
    <2> QED BY <2>1, <2>2, <2>3, <2>4
<1>8. (IF k = 1 THEN next[s[k]] ELSE h) = IF t = <<>> THEN NULL ELSE t[1]
    <2>1. h = s[1]
        BY <1>1 DEF Linked
    <2>2. t = <<>> <=> n = 1
        BY <1>1, <1>5
    <2>3. n # 1 => t[1] = IF 1 < k THEN s[1] ELSE s[2]
        BY <1>1, <1>3
    <2>4. k = 1 => next[s[k]] = IF n = 1 THEN NULL ELSE s[2]
        BY <1>1, <1>2
    <2>5. k # 1 => n # 1 /\ 1 < k
        BY <1>1
    <2> QED BY <2>1, <2>2, <2>3, <2>4, <2>5
<1> QED BY <1>3, <1>5, <1>6, <1>7, <1>8 DEF Linked

\* A block put in front of a list
LEMMA PutInFront ==
    ASSUME NEW B \in SUBSET Blks, NEW next \in Links, NEW h, NEW s, Holds(s, B), Linked(s, h, next),
           NEW b \in Blks \ B, NEW after \in Links,
           \A c \in Blks : after[c] = IF c = b THEN h ELSE next[c]
    PROVE  \E t : Holds(t, B \union {b}) /\ Linked(t, b, after)
<1> DEFINE n == Len(s)
           t == [i \in 1 .. n + 1 |-> IF i = 1 THEN b ELSE s[i - 1]]
<1>1. /\ n \in Nat /\ DOMAIN s = 1 .. n
      /\ \A i \in 1 .. n : s[i] \in B /\ s[i] \in Blks /\ s[i] # b
      /\ \A i, j \in 1 .. n : s[i] = s[j] => i = j
    <2>1. s \in Seq(B)
        BY DEF Holds
    <2>2. n \in Nat /\ DOMAIN s = 1 .. n /\ \A i \in 1 .. n : s[i] \in B
        BY <2>1
    <2> QED BY <2>2 DEF Holds, IsInjective
<1>2. /\ \A i \in 1 .. n : next[s[i]] = IF i = n THEN NULL ELSE s[i + 1]
      /\ h = IF n = 0 THEN NULL ELSE s[1]
    <2>1. s = <<>> <=> n = 0
        BY <1>1 DEF Holds
    <2> QED BY <1>1, <2>1 DEF Linked
<1>3. /\ n + 1 \in Nat /\ DOMAIN t = 1 .. n + 1
      /\ \A i \in 1 .. n + 1 : t[i] = IF i = 1 THEN b ELSE s[i - 1]
    BY <1>1
<1>4. \A i \in 1 .. n + 1 : t[i] \in B \union {b}
    <2> HIDE DEF t
    <2> QED BY <1>1, <1>3
<1>5. t \in Seq(B \union {b}) /\ Len(t) = n + 1
    <2>1. t = [i \in 1 .. n + 1 |-> t[i]]
        BY <1>3
    <2> HIDE DEF t
    <2> QED BY <1>3, <1>4, <2>1
<1> HIDE DEF t
<1>6. Holds(t, B \union {b})
    <2>1. \A i, j \in 1 .. n + 1 : t[i] = t[j] => i = j
        BY <1>1, <1>3
    <2>2. ASSUME NEW c \in B \union {b}
          PROVE  \E i \in 1 .. n + 1 : t[i] = c
        <3>1. CASE c = b
            <4>1. 1 \in 1 .. n + 1 /\ t[1] = c
                BY <1>1, <1>3, <3>1
            <4> QED BY <4>1
        <3>2. CASE c # b
            <4>1. PICK j \in 1 .. n : s[j] = c
                BY <1>1, <2>2, <3>2 DEF Holds
            <4>2. j + 1 \in 1 .. n + 1 /\ t[j + 1] = c
                BY <1>1, <1>3, <4>1
            <4> QED BY <4>2
        <3> QED BY <3>1, <3>2
    <2> QED BY <1>3, <1>5, <2>1, <2>2 DEF Holds, IsInjective
<1>7. ASSUME NEW i \in 1 .. n + 1
      PROVE  after[t[i]] = IF i = n + 1 THEN NULL ELSE t[i + 1]
    <2>1. CASE i = 1
        <3>1. n # 0 => t[2] = s[1]
            BY <1>1, <1>3
        <3>2. t[1] = b /\ after[b] = h
            BY <1>1, <1>3
        <3>3. 1 = n + 1 <=> n = 0
            BY <1>1
        <3> QED BY <1>2, <2>1, <3>1, <3>2, <3>3
    <2>2. CASE i # 1
        <3>1. i - 1 \in 1 .. n /\ t[i] = s[i - 1]
            BY <1>1, <1>3, <2>2
        <3>2. after[t[i]] = next[s[i - 1]]
            BY <1>1, <3>1
        <3>3. i # n + 1 => t[i + 1] = s[i]
            <4>1. i # n + 1 => i + 1 \in 1 .. n + 1 /\ i + 1 # 1 /\ (i + 1) - 1 = i
                BY <1>1
            <4> QED BY <1>3, <4>1
        <3>4. next[s[i - 1]] = IF i - 1 = n THEN NULL ELSE s[i - 1 + 1]
            BY <1>2, <3>1
        <3>5. (i - 1 = n <=> i = n + 1) /\ i - 1 + 1 = i
            BY <1>1
        <3> QED BY <3>2, <3>3, <3>4, <3>5
    <2> QED BY <2>1, <2>2
<1>8. t # <<>> /\ t[1] = b
    BY <1>1, <1>3, <1>5
<1>9. Linked(t, b, after)
    BY <1>3, <1>5, <1>7, <1>8 DEF Linked
<1> QED BY <1>6, <1>9

\* The bucket a block of this tag belongs to
Buckets == 0 .. hsize - 1
Members(k) == {b \in Blks : CACHE_HASH(blks[b].tag) = k}

LEMMA HashInRange ==
    ASSUME hsize \in Nat, hsize > 0, NEW tag \in Nat
    PROVE  CACHE_HASH(tag) \in Buckets
BY DEF CACHE_HASH, Buckets

\* A block leaves its bucket, and the other buckets stay
LEMMA UnlinkKeeps ==
    ASSUME hsize \in Nat, hsize > 0, blks \in [Blks -> [tag : Nat, valid : BOOLEAN, dirty : BOOLEAN]],
           NEW h \in Hashes, \A k \in Buckets : Whole(h, k, Members(k)), NEW b \in Blks
    PROVE  LET u == unlink_htab_ent(h, b)
           IN  u \in Hashes /\ \A k \in Buckets : Whole(u, k, Members(k) \ {b})
<1> DEFINE own == CACHE_HASH(blks[b].tag)
           s == Chain(h.head[own], h.next)
           i == SelectInSeq(s, LAMBDA e : e = b)
           u == unlink_htab_ent(h, b)
<1>1. own \in Buckets /\ b \in Members(own)
    BY HashInRange DEF Members
<1>2. Holds(s, Members(own)) /\ Linked(s, h.head[own], h.next)
    BY <1>1 DEF Whole
<1>3. u = IF i = 1
          THEN [head |-> [h.head EXCEPT ![own] = h.next[b]], next |-> [h.next EXCEPT ![b] = NULL]]
          ELSE [h EXCEPT !.next = [@ EXCEPT ![s[i - 1]] = h.next[b], ![b] = NULL]]
    BY DEF unlink_htab_ent, Bucket
<1> HIDE DEF u, s
<1>4. i \in DOMAIN s /\ s[i] = b
    <2>1. PICK j \in DOMAIN s : s[j] = b
        BY <1>1, <1>2 DEF Holds
    <2>2. DOMAIN s = 1 .. Len(s) /\ Len(s) \in Nat
        BY <1>2 DEF Holds
    <2>3. {x \in 1 .. Len(s) : s[x] = b} = {j}
        BY <1>2, <2>1, <2>2 DEF Holds, IsInjective
    <2>4. i = Min({j})
        BY <2>3 DEF SelectInSeq
    <2>5. Min({j}) = j
        BY <2>1, <2>2 DEF Min
    <2> QED BY <2>1, <2>4, <2>5
<1> HIDE DEF i
<1>5. /\ DOMAIN s = 1 .. Len(s) /\ Len(s) \in Nat
      /\ \A x \in DOMAIN s : s[x] \in Blks /\ CACHE_HASH(blks[s[x]].tag) = own
      /\ \A x, y \in DOMAIN s : s[x] = s[y] => x = y
    <2>1. s \in Seq(Members(own))
        BY <1>2 DEF Holds
    <2>2. DOMAIN s = 1 .. Len(s) /\ Len(s) \in Nat /\ \A x \in DOMAIN s : s[x] \in Members(own)
        BY <2>1
    <2> QED BY <1>2, <2>2 DEF Holds, IsInjective, Members
<1>6. i # 1 => i - 1 \in DOMAIN s /\ s[i - 1] \in Blks /\ s[i - 1] # b
    <2>1. i # 1 => i - 1 \in DOMAIN s /\ i - 1 # i
        BY <1>4, <1>5
    <2> QED BY <1>4, <1>5, <2>1
<1>7. u \in Hashes
    BY <1>1, <1>3, <1>6 DEF Hashes, Links
<1>8. /\ \A c \in Blks : u.next[c] = IF c = b THEN NULL
                                     ELSE IF i # 1 /\ c = s[i - 1] THEN h.next[b] ELSE h.next[c]
      /\ \A k \in Buckets : u.head[k] = IF k = own /\ i = 1 THEN h.next[b] ELSE h.head[k]
    BY <1>1, <1>3, <1>6 DEF Hashes, Links, Buckets
<1>9. h.next \in Links /\ u.next \in Links /\ \A k : Members(k) \in SUBSET Blks
    BY <1>7 DEF Hashes, Members
<1>10. Whole(u, own, Members(own) \ {b})
    <2>1. \E t : Holds(t, Members(own) \ {s[i]})
                 /\ Linked(t, IF i = 1 THEN h.next[s[i]] ELSE h.head[own], u.next)
        <3> PICK B, next, first, after : /\ B = Members(own) /\ next = h.next
                                         /\ first = h.head[own] /\ after = u.next
            OBVIOUS
        <3>1. /\ B \in SUBSET Blks /\ next \in Links /\ after \in Links
              /\ Holds(s, B) /\ Linked(s, first, next) /\ i \in DOMAIN s
            BY <1>2, <1>4, <1>9
        <3>2. \A c \in Blks : after[c] = IF c = s[i] THEN NULL
                                ELSE IF i # 1 /\ c = s[i - 1] THEN next[s[i]] ELSE next[c]
            BY <1>4, <1>8
        <3>3. \E t : Holds(t, B \ {s[i]}) /\ Linked(t, IF i = 1 THEN next[s[i]] ELSE first, after)
            BY ONLY <3>1, <3>2, TakenOut
        <3> QED BY <3>3
    <2>2. u.head[own] = IF i = 1 THEN h.next[s[i]] ELSE h.head[own]
        BY <1>1, <1>4, <1>8
    <2> QED BY <1>4, <1>9, <2>1, <2>2, WholeIf
<1>11. ASSUME NEW k \in Buckets, k # own
       PROVE  Whole(u, k, Members(k) \ {b})
    <2>1. PICK t : Holds(t, Members(k)) /\ Linked(t, h.head[k], h.next)
        BY <1>11 DEF Whole
    <2>2. \A x \in DOMAIN t : t[x] \in Blks /\ CACHE_HASH(blks[t[x]].tag) = k
        <3>1. t \in Seq(Members(k))
            BY <2>1 DEF Holds
        <3> QED BY <3>1 DEF Members
    <2>3. \A x \in DOMAIN t : u.next[t[x]] = h.next[t[x]]
        BY <1>4, <1>5, <1>6, <1>8, <1>11, <2>2
    <2>4. u.head[k] = h.head[k]
        BY <1>8, <1>11
    <2>5. Linked(t, u.head[k], u.next)
        BY <2>1, <2>3, <2>4 DEF Linked
    <2>6. Members(k) \ {b} = Members(k)
        BY <1>11 DEF Members
    <2> QED BY <1>9, <2>1, <2>5, <2>6, WholeIf
<1> QED BY <1>7, <1>10, <1>11 DEF u

\* A block outside all buckets enters one
LEMMA LinkKeeps ==
    ASSUME hsize \in Nat, NEW h \in Hashes, NEW b \in Blks, NEW M,
           \A k \in Buckets : M[k] \in SUBSET (Blks \ {b}) /\ Whole(h, k, M[k]),
           NEW tag, CACHE_HASH(tag) \in Buckets
    PROVE  LET l == link_htab_ent(h, b, tag)
           IN  /\ l \in Hashes
               /\ \A k \in Buckets : Whole(l, k, IF k = CACHE_HASH(tag) THEN M[k] \union {b} ELSE M[k])
<1> DEFINE own == CACHE_HASH(tag)
           l == link_htab_ent(h, b, tag)
<1>1. l = [head |-> [h.head EXCEPT ![own] = b], next |-> [h.next EXCEPT ![b] = h.head[own]]]
    BY DEF link_htab_ent
<1> HIDE DEF l
<1>2. /\ l \in Hashes
      /\ \A c \in Blks : l.next[c] = IF c = b THEN h.head[own] ELSE h.next[c]
      /\ \A k \in Buckets : l.head[k] = IF k = own THEN b ELSE h.head[k]
    BY <1>1 DEF Hashes, Links, Buckets
<1>3. h.next \in Links /\ l.next \in Links
    BY <1>2 DEF Hashes
<1>4. Whole(l, own, M[own] \union {b})
    <2>1. PICK s : Holds(s, M[own]) /\ Linked(s, h.head[own], h.next)
        BY DEF Whole
    <2>2. \E t : Holds(t, M[own] \union {b}) /\ Linked(t, b, l.next)
        <3> PICK B, next, first, after : /\ B = M[own] /\ next = h.next
                                         /\ first = h.head[own] /\ after = l.next
            OBVIOUS
        <3>1. /\ B \in SUBSET Blks /\ next \in Links /\ after \in Links /\ b \in Blks \ B
              /\ Holds(s, B) /\ Linked(s, first, next)
            BY <1>3, <2>1
        <3>2. \A c \in Blks : after[c] = IF c = b THEN first ELSE next[c]
            BY <1>2
        <3>3. \E t : Holds(t, B \union {b}) /\ Linked(t, b, after)
            BY ONLY <3>1, <3>2, PutInFront
        <3> QED BY <3>3
    <2>3. l.head[own] = b /\ M[own] \union {b} \in SUBSET Blks
        BY <1>2
    <2> QED BY <1>3, <2>2, <2>3, WholeIf
<1>5. ASSUME NEW k \in Buckets, k # own
      PROVE  Whole(l, k, M[k])
    <2>1. PICK t : Holds(t, M[k]) /\ Linked(t, h.head[k], h.next)
        BY DEF Whole
    <2>2. \A x \in DOMAIN t : t[x] \in Blks /\ t[x] # b
        <3>1. t \in Seq(M[k])
            BY <2>1 DEF Holds
        <3>2. \A x \in DOMAIN t : t[x] \in M[k]
            BY <3>1
        <3> QED BY <3>2
    <2>3. Linked(t, l.head[k], l.next)
        BY <1>2, <1>5, <2>1, <2>2 DEF Linked
    <2>4. M[k] \in SUBSET Blks
        OBVIOUS
    <2> QED BY <1>3, <2>1, <2>3, <2>4, WholeIf
<1> QED BY <1>2, <1>4, <1>5 DEF l

\* A block that takes another tag ends up in that tag's bucket
LEMMA RehashKeeps ==
    ASSUME hsize \in Nat, hsize > 0, blks \in [Blks -> [tag : Nat, valid : BOOLEAN, dirty : BOOLEAN]],
           hash \in Hashes, \A k \in Buckets : Whole(hash, k, Members(k)),
           NEW b \in Blks, NEW tag \in Nat
    PROVE  /\ Rehashed(hash, b, tag) \in Hashes
           /\ \A k \in Buckets :
                  Whole(Rehashed(hash, b, tag), k,
                        {c \in Blks : CACHE_HASH(IF c = b THEN tag ELSE blks[c].tag) = k})
<1> DEFINE u == unlink_htab_ent(hash, b)
           M == [k \in Buckets |-> Members(k) \ {b}]
<1>1. u \in Hashes /\ \A k \in Buckets : Whole(u, k, Members(k) \ {b})
    BY UnlinkKeeps
<1>2. \A k \in Buckets : M[k] = Members(k) \ {b} /\ M[k] \in SUBSET (Blks \ {b})
    BY DEF Members
<1>3. CACHE_HASH(tag) \in Buckets
    BY HashInRange
<1>4. Rehashed(hash, b, tag) = link_htab_ent(u, b, tag)
    BY DEF Rehashed
<1> HIDE DEF u, M
<1>5. \A k \in Buckets : M[k] \in SUBSET (Blks \ {b}) /\ Whole(u, k, M[k])
    BY <1>1, <1>2
<1>6. /\ link_htab_ent(u, b, tag) \in Hashes
      /\ \A k \in Buckets : Whole(link_htab_ent(u, b, tag), k,
                                  IF k = CACHE_HASH(tag) THEN M[k] \union {b} ELSE M[k])
    BY <1>1, <1>3, <1>5, LinkKeeps
<1>7. ASSUME NEW k \in Buckets
      PROVE  (IF k = CACHE_HASH(tag) THEN M[k] \union {b} ELSE M[k]) =
                 {c \in Blks : CACHE_HASH(IF c = b THEN tag ELSE blks[c].tag) = k}
    BY <1>2 DEF Members
<1> QED BY <1>4, <1>6, <1>7

-----------------------------------------------------------------------------
(* The invariant *)

\* No two lines have the same tag
TagsDiffer ==
    \A b, c \in Blks : blks[b].valid /\ blks[c].valid /\ blks[b].tag = blks[c].tag => b = c

\* Freed blocks are behind all others in the way list s
FreedLast(s) ==
    \A i, j \in 1 .. Assoc : i < j /\ blks[s[j]].valid => blks[s[i]].valid

\* The block of the last hit is still a line, with LRU the first one
LastHitFirst ==
    last_blk # NULL => blks[last_blk].valid /\ (policy = "LRU" => way.head = last_blk)

IInv ==
    /\ policy \in {"LRU", "FIFO"} /\ hsize \in HSizes
    /\ TypeOK
    /\ Listed(WayList, way)
    /\ hsize > 0 => \A k \in Buckets : Whole(hash, k, Members(k))
    /\ asserted
    /\ TagsDiffer /\ FreedLast(WayList) /\ LastHitFirst

\* What is read off the links is the list
LEMMA ListIs ==
    ASSUME NEW w \in Ways, NEW s, Listed(s, w)
    PROVE  /\ Chain(w.head, w.next) = s
           /\ Chain(w.tail, w.prev) = Reverse(s)
           /\ s \in Seq(Blks) /\ Len(s) = Assoc /\ Holds(s, Blks)
<1>1. /\ Assoc \in Nat /\ Assoc >= 1
      /\ \A i \in 1 .. Assoc : s[i] \in Blks
      /\ \A i, j \in 1 .. Assoc : s[i] = s[j] => i = j
    BY ListedBlocks
<1>2. s \in Seq(Blks) /\ Len(s) = Assoc /\ DOMAIN s = 1 .. Assoc
    BY <1>1 DEF Listed
<1>3. Holds(s, Blks)
    BY <1>2 DEF Listed, Holds
<1>4. Linked(s, w.head, w.next)
    BY <1>1, <1>2 DEF Listed, Linked
<1>5. w.next \in Links /\ w.prev \in Links
    BY DEF Ways
<1>6. Chain(w.head, w.next) = s
    BY <1>2, <1>3, <1>4, <1>5, ChainIs DEF Holds
<1> DEFINE r == Reverse(s)
<1>7. r = [i \in 1 .. Assoc |-> s[Assoc - i + 1]]
    BY <1>2 DEF Reverse
<1> HIDE DEF r
<1>8. r \in Seq(Blks) /\ Len(r) = Assoc /\ DOMAIN r = 1 .. Assoc
      /\ \A i \in 1 .. Assoc : r[i] = s[Assoc - i + 1]
    <2>1. \A i \in 1 .. Assoc : Assoc - i + 1 \in 1 .. Assoc
        BY <1>1
    <2>2. r \in [1 .. Assoc -> Blks]
        BY <1>1, <1>7, <2>1
    <2> QED BY <1>1, <1>7, <2>2
<1>9. IsInjective(r)
    <2> SUFFICES ASSUME NEW i \in 1 .. Assoc, NEW j \in 1 .. Assoc, r[i] = r[j]
                 PROVE  i = j
        BY <1>8 DEF IsInjective
    <2>1. Assoc - i + 1 \in 1 .. Assoc /\ Assoc - j + 1 \in 1 .. Assoc
        BY <1>1
    <2>2. Assoc - i + 1 = Assoc - j + 1
        BY <1>1, <1>8, <2>1
    <2> QED BY <1>1, <2>2
<1>10. Linked(r, w.tail, w.prev)
    <2>1. w.tail = r[1] /\ r # <<>>
        BY <1>1, <1>8 DEF Listed
    <2>2. ASSUME NEW i \in 1 .. Assoc
          PROVE  w.prev[r[i]] = IF i = Assoc THEN NULL ELSE r[i + 1]
        <3> DEFINE k == Assoc - i + 1
        <3>1. k \in 1 .. Assoc /\ (k = 1 <=> i = Assoc)
            BY <1>1
        <3>2. w.prev[s[k]] = IF k = 1 THEN NULL ELSE s[k - 1]
            BY <3>1 DEF Listed
        <3>3. i # Assoc => i + 1 \in 1 .. Assoc /\ Assoc - (i + 1) + 1 = k - 1
            BY <1>1
        <3> QED BY <1>8, <3>1, <3>2, <3>3
    <2> QED BY <1>8, <2>1, <2>2 DEF Linked
<1>11. Chain(w.tail, w.prev) = r
    BY <1>5, <1>8, <1>9, <1>10, ChainIs
<1> QED BY <1>2, <1>3, <1>6, <1>11 DEF r

LEMMA Types ==
    ASSUME IInv
    PROVE  /\ hsize \in Nat /\ way \in Ways /\ hash \in Hashes
           /\ blks \in [Blks -> [tag : Tags \union {0}, valid : BOOLEAN, dirty : BOOLEAN]]
           /\ blks \in [Blks -> [tag : Nat, valid : BOOLEAN, dirty : BOOLEAN]]
           /\ last_blk \in Blks \union {NULL}
           /\ Tags \in SUBSET Nat /\ Assoc \in Nat /\ Assoc >= 1
<1>1. /\ way \in Ways /\ hash \in Hashes
      /\ blks \in [Blks -> [tag : Tags \union {0}, valid : BOOLEAN, dirty : BOOLEAN]]
      /\ last_blk \in Blks \union {NULL}
    BY DEF IInv, TypeOK, Ways, Hashes, Links
<1>2. Tags \in SUBSET Nat /\ Assoc \in Nat /\ Assoc >= 1 /\ HSizes \in SUBSET Nat
    BY CacheSetAssumption
<1>3. Tags \union {0} \in SUBSET Nat
    BY <1>2
<1>4. blks \in [Blks -> [tag : Nat, valid : BOOLEAN, dirty : BOOLEAN]]
    BY <1>1, <1>3
<1> QED BY <1>1, <1>2, <1>4 DEF IInv

\* A search finds the one line that has the tag, if there is one
LEMMA Search ==
    ASSUME IInv, NEW tag \in Tags
    PROVE  /\ Matches(tag) = {} => \A b \in Blks : ~(blks[b].valid /\ blks[b].tag = tag)
           /\ Matches(tag) # {} => /\ FirstMatch(tag) \in Blks
                                   /\ blks[FirstMatch(tag)].valid /\ blks[FirstMatch(tag)].tag = tag
<1> DEFINE s == Searched(tag)
<1>1. PICK B \in SUBSET Blks : Holds(s, B) /\ \A b \in Blks : blks[b].tag = tag => b \in B
    <2>1. CASE hsize = 0
        <3>1. s = WayList
            BY <2>1 DEF Searched
        <3>2. Holds(s, Blks)
            BY <3>1, Types, ListIs DEF IInv
        <3> QED BY <3>2
    <2>2. CASE hsize # 0
        <3> DEFINE k == CACHE_HASH(tag)
        <3>1. hsize > 0 /\ k \in Buckets
            <4>1. hsize \in Nat /\ tag \in Nat
                BY Types
            <4> QED BY <2>2, <4>1, HashInRange
        <3>2. s = Chain(hash.head[k], hash.next)
            BY <2>2 DEF Searched, Bucket
        <3>3. Holds(s, Members(k))
            BY <3>1, <3>2 DEF IInv, Whole
        <3>4. Members(k) \in SUBSET Blks /\ \A b \in Blks : blks[b].tag = tag => b \in Members(k)
            BY DEF Members
        <3> QED BY <3>3, <3>4
    <2> QED BY <2>1, <2>2
<1>2. Matches(tag) = {i \in DOMAIN s : blks[s[i]].tag = tag /\ blks[s[i]].valid}
      /\ FirstMatch(tag) = s[Min(Matches(tag))]
    BY DEF Matches, FirstMatch
<1> HIDE DEF s
<1>3. DOMAIN s = 1 .. Len(s) /\ Len(s) \in Nat /\ \A i \in DOMAIN s : s[i] \in Blks
    <2>1. s \in Seq(B)
        BY <1>1 DEF Holds
    <2>2. \A i \in DOMAIN s : s[i] \in B
        BY <2>1
    <2> QED BY <2>1, <2>2
<1>4. Matches(tag) = {} => \A b \in Blks : ~(blks[b].valid /\ blks[b].tag = tag)
    BY <1>1, <1>2 DEF Holds
<1>5. ASSUME Matches(tag) # {}
      PROVE  FirstMatch(tag) \in Blks /\ blks[FirstMatch(tag)].valid /\ blks[FirstMatch(tag)].tag = tag
    <2>1. PICK i \in DOMAIN s : blks[s[i]].tag = tag /\ blks[s[i]].valid
        BY <1>2, <1>5
    <2>2. ASSUME NEW j \in DOMAIN s, blks[s[j]].tag = tag /\ blks[s[j]].valid
          PROVE  j = i
        <3>1. s[j] = s[i]
            BY <1>3, <2>1, <2>2 DEF IInv, TagsDiffer
        <3> QED BY <1>1, <3>1 DEF Holds, IsInjective
    <2>3. Matches(tag) = {i}
        BY <1>2, <2>1, <2>2
    <2>4. Min({i}) = i
        BY <1>3, <2>1 DEF Min
    <2> QED BY <1>2, <1>3, <2>1, <2>3, <2>4
<1> QED BY <1>4, <1>5

LEMMA InitIInv ==
    ASSUME Init
    PROVE  IInv
<1>1. Assoc \in Nat /\ Assoc >= 1 /\ HSizes \in SUBSET Nat /\ hsize \in Nat
    BY CacheSetAssumption DEF Init
<1> DEFINE s == [i \in 1 .. Assoc |-> Assoc + 1 - i]
<1>2. /\ DOMAIN s = 1 .. Assoc /\ s \in [1 .. Assoc -> Blks]
      /\ \A i \in 1 .. Assoc : s[i] = Assoc + 1 - i
    BY <1>1 DEF Blks
<1> HIDE DEF s
<1>3. /\ \A b \in Blks : way.next[b] = b - 1
      /\ \A b \in Blks : way.prev[b] = IF b = Assoc THEN NULL ELSE b + 1
      /\ way.head = Assoc /\ way.tail = 1
    <2>1. ASSUME NEW b \in Blks
          PROVE  (b + 1) % (Assoc + 1) = IF b = Assoc THEN 0 ELSE b + 1
        <3>1. b \in Nat /\ b >= 1 /\ b <= Assoc
            BY <1>1 DEF Blks
        <3> QED BY <1>1, <3>1
    <2> QED BY <2>1 DEF Init, NULL
<1>4. way \in Ways
    <2>1. /\ \A b \in Blks : b - 1 \in Blks \union {NULL}
          /\ \A b \in Blks : b # Assoc => b + 1 \in Blks
          /\ Assoc \in Blks /\ 1 \in Blks
        BY <1>1 DEF Blks, NULL
    <2>2. way = [head |-> way.head, tail |-> way.tail, next |-> way.next, prev |-> way.prev]
          /\ way.next = [b \in Blks |-> way.next[b]] /\ way.prev = [b \in Blks |-> way.prev[b]]
        BY DEF Init
    <2>3. way.next \in Links /\ way.prev \in Links
        BY <1>3, <2>1, <2>2 DEF Links
    <2> QED BY <1>3, <2>1, <2>2, <2>3 DEF Ways
<1>5. Listed(s, way)
    <2>1. IsInjective(s)
        BY <1>1, <1>2 DEF IsInjective
    <2>2. ASSUME NEW b \in Blks
          PROVE  \E i \in 1 .. Assoc : s[i] = b
        <3>1. Assoc + 1 - b \in 1 .. Assoc /\ s[Assoc + 1 - b] = b
            BY <1>1, <1>2 DEF Blks
        <3> QED BY <3>1
    <2>3. way.head = s[1] /\ way.tail = s[Assoc]
        BY <1>1, <1>2, <1>3
    <2>4. ASSUME NEW i \in 1 .. Assoc
          PROVE  /\ way.next[s[i]] = IF i = Assoc THEN NULL ELSE s[i + 1]
                 /\ way.prev[s[i]] = IF i = 1 THEN NULL ELSE s[i - 1]
        <3>1. s[i] = Assoc + 1 - i /\ s[i] \in Blks
            BY <1>2
        <3>2. i # Assoc => s[i + 1] = Assoc - i
            BY <1>1, <1>2
        <3>3. i # 1 => s[i - 1] = Assoc + 2 - i
            BY <1>1, <1>2
        <3> QED BY <1>1, <1>3, <3>1, <3>2, <3>3 DEF NULL
    <2> QED BY <1>2, <2>1, <2>2, <2>3, <2>4 DEF Listed
<1>6. Listed(WayList, way)
    BY <1>4, <1>5, ListIs DEF WayList
<1>7. hash \in Hashes
    <2>1. hash.next \in Links
        BY <1>1 DEF Init, Links, Blks, NULL
    <2>2. hash.head \in [0 .. hsize - 1 -> Blks \union {NULL}]
        BY <1>1 DEF Init, Blks, NULL
    <2>3. hash = [head |-> hash.head, next |-> hash.next]
        BY DEF Init
    <2> QED BY <2>1, <2>2, <2>3 DEF Hashes
<1>8. ASSUME hsize > 0, NEW k \in Buckets
      PROVE  Whole(hash, k, Members(k))
    <2>1. hash.head[k] = (IF k = 0 THEN Assoc ELSE NULL) /\ \A b \in Blks : hash.next[b] = b - 1
        BY <1>8 DEF Init, Buckets
    <2>2. Members(k) = IF k = 0 THEN Blks ELSE {}
        <3>1. 0 % hsize = 0
            BY <1>1, <1>8
        <3>2. \A b \in Blks : blks[b].tag = 0
            BY DEF Init
        <3> QED BY <3>1, <3>2 DEF Members, CACHE_HASH
    <2>3. hash.next \in Links
        BY <1>7 DEF Hashes
    <2>4. CASE k = 0
        <3>1. Holds(s, Blks) /\ Len(s) = Assoc /\ s # <<>>
            BY <1>1, <1>4, <1>5, ListIs
        <3>2. Linked(s, hash.head[k], hash.next)
            <4>1. hash.head[k] = s[1]
                BY <1>1, <1>2, <2>1, <2>4
            <4>2. ASSUME NEW i \in 1 .. Assoc
                  PROVE  hash.next[s[i]] = IF i = Assoc THEN NULL ELSE s[i + 1]
                <5>1. hash.next[s[i]] = way.next[s[i]]
                    BY <1>2, <1>3, <2>1
                <5> QED BY <1>5, <5>1 DEF Listed
            <4> QED BY <1>2, <3>1, <4>1, <4>2 DEF Linked
        <3> QED BY <2>2, <2>3, <2>4, <3>1, <3>2, WholeIf
    <2>5. CASE k # 0
        <3>1. Holds(<<>>, {}) /\ Linked(<<>>, hash.head[k], hash.next)
            BY <2>1, <2>5 DEF Holds, Linked, IsInjective
        <3>2. {} \in SUBSET Blks
            OBVIOUS
        <3> QED BY <2>2, <2>3, <2>5, <3>1, <3>2, WholeIf
    <2> QED BY <2>4, <2>5
<1>9. TypeOK
    <2>1. blks \in [Blks -> [tag : Tags \union {0}, valid : BOOLEAN, dirty : BOOLEAN]]
          /\ last_blk \in Blks \union {NULL}
        BY DEF Init
    <2> QED BY <1>4, <1>7, <2>1 DEF TypeOK, Ways, Hashes, Links
<1>10. TagsDiffer /\ LastHitFirst
    BY DEF Init, TagsDiffer, LastHitFirst
<1>11. FreedLast(WayList)
    <2>1. \A i \in 1 .. Assoc : WayList[i] \in Blks
        BY <1>6, ListedBlocks
    <2> QED BY <2>1 DEF Init, FreedLast
<1> QED BY <1>6, <1>8, <1>9, <1>10, <1>11 DEF Init, IInv

-----------------------------------------------------------------------------
(* Every step keeps the invariant *)

\* The way list and the block at its place k
LEMMA Place ==
    ASSUME IInv, NEW b \in Blks
    PROVE  \E k \in 1 .. Assoc : WayList[k] = b
BY DEF IInv, Listed

\* A move to the head, of a line
LEMMA HeadMoveKeeps ==
    ASSUME IInv, NEW b \in Blks, way' = MoveToHead(way, b)
    PROVE  /\ way' \in Ways /\ way'.head = b /\ PlaceOk(way, b)
           /\ \E k \in 1 .. Assoc : /\ WayList[k] = b /\ WayList' = HeadMoved(WayList, k)
                                    /\ Listed(WayList', way')
<1>1. PICK k \in 1 .. Assoc : WayList[k] = b
    BY Place
<1>2. way \in Ways /\ Listed(WayList, way)
    BY Types DEF IInv
<1>3. way' \in Ways /\ Listed(HeadMoved(WayList, k), way')
    BY <1>1, <1>2, HeadMove
<1>4. WayList' = HeadMoved(WayList, k)
    BY <1>3, ListIs DEF WayList
<1>5. PlaceOk(way, b)
    BY <1>1, <1>2, Neighbours
<1>6. way'.head = b
    <2>1. 1 \in 1 .. Assoc
        BY Types
    <2>2. HeadMoved(WayList, k)[1] = WayList[k]
        BY <2>1 DEF HeadMoved
    <2> QED BY <1>1, <1>3, <2>2 DEF Listed
<1> QED BY <1>1, <1>3, <1>4, <1>5, <1>6

\* Neither the list, the chains nor what the blocks hold changes
LEMMA SameTags ==
    ASSUME IInv, UNCHANGED <<policy, hsize, hash>>, blks' \in [Blks -> [tag : Tags \union {0}, valid : BOOLEAN, dirty : BOOLEAN]],
           \A b \in Blks : blks'[b].tag = blks[b].tag
    PROVE  (hsize > 0 => \A k \in Buckets : Whole(hash, k, Members(k)))'
<1>1. \A k : Members(k)' = Members(k)
    BY DEF Members, CACHE_HASH
<1>2. Buckets' = Buckets
    BY DEF Buckets
<1> QED BY <1>1, <1>2 DEF IInv

LEMMA FastHitIInv ==
    ASSUME IInv, NEW tag \in Tags, NEW cmd \in {"Read", "Write"}, FastHit(tag, cmd)
    PROVE  IInv'
<1>1. last_blk \in Blks /\ UNCHANGED <<policy, hsize, way, hash, last_blk, asserted>>
    BY Types DEF FastHit, LastTag
<1>2. blks' = [blks EXCEPT ![last_blk].dirty = @ \/ cmd = "Write"]
    BY DEF FastHit, SetDirty
<1>3. /\ blks' \in [Blks -> [tag : Tags \union {0}, valid : BOOLEAN, dirty : BOOLEAN]]
      /\ \A b \in Blks : blks'[b].tag = blks[b].tag /\ blks'[b].valid = blks[b].valid
    BY <1>1, <1>2, Types
<1>4. (hsize > 0 => \A k \in Buckets : Whole(hash, k, Members(k)))'
    BY <1>1, <1>3, SameTags
<1>5. WayList' = WayList /\ \A i \in 1 .. Assoc : WayList[i] \in Blks
    BY <1>1, ListedBlocks DEF WayList, IInv
<1>6. TypeOK'
    BY <1>1, <1>3 DEF IInv, TypeOK
<1>7. TagsDiffer' /\ FreedLast(WayList)' /\ LastHitFirst'
    BY <1>1, <1>3, <1>5 DEF IInv, TagsDiffer, FreedLast, LastHitFirst
<1> QED BY <1>1, <1>4, <1>5, <1>6, <1>7 DEF IInv

LEMMA SlowHitIInv ==
    ASSUME IInv, NEW tag \in Tags, NEW cmd \in {"Read", "Write"}, SlowHit(tag, cmd)
    PROVE  IInv'
<1> DEFINE b == FirstMatch(tag)
<1>1. b \in Blks /\ blks[b].valid /\ UNCHANGED <<policy, hsize, hash>> /\ last_blk' = b
    BY Search DEF SlowHit
<1>2. /\ blks' = [blks EXCEPT ![b].dirty = @ \/ cmd = "Write"]
      /\ way' = IF MovesOnHit(b) THEN MoveToHead(way, b) ELSE way
      /\ asserted' = (asserted /\ (MovesOnHit(b) => PlaceOk(way, b)))
    BY DEF SlowHit, SetDirty
<1> HIDE DEF b
<1>3. /\ blks' \in [Blks -> [tag : Tags \union {0}, valid : BOOLEAN, dirty : BOOLEAN]]
      /\ \A c \in Blks : blks'[c].tag = blks[c].tag /\ blks'[c].valid = blks[c].valid
    BY <1>1, <1>2, Types
<1>4. (hsize > 0 => \A k \in Buckets : Whole(hash, k, Members(k)))'
    BY <1>1, <1>3, SameTags
<1>5. /\ way' \in Ways /\ Listed(WayList, way)' /\ FreedLast(WayList)' /\ asserted'
      /\ policy = "LRU" => way'.head = b
    <2>1. CASE MovesOnHit(b)
        <3>1. way' = MoveToHead(way, b)
            BY <1>2, <2>1
        <3>2. /\ way' \in Ways /\ way'.head = b /\ PlaceOk(way, b)
              /\ \E k \in 1 .. Assoc : /\ WayList[k] = b /\ WayList' = HeadMoved(WayList, k)
                                       /\ Listed(WayList', way')
            BY <1>1, <3>1, HeadMoveKeeps
        <3>3. PICK k \in 1 .. Assoc : /\ WayList[k] = b /\ WayList' = HeadMoved(WayList, k)
                                      /\ Listed(WayList', way')
            BY <3>2
        <3>4. FreedLast(WayList)'
            <4> SUFFICES ASSUME NEW i \in 1 .. Assoc, NEW j \in 1 .. Assoc, i < j, blks'[WayList'[j]].valid
                         PROVE  blks'[WayList'[i]].valid
                BY DEF FreedLast
            <4>1. \A x \in 1 .. Assoc : WayList[x] \in Blks /\ WayList'[x] \in Blks
                BY <3>3, ListedBlocks DEF IInv
            <4>2. blks[WayList'[j]].valid
                BY <1>3, <4>1
            <4>3. \A x \in 1 .. Assoc : WayList'[x] = IF x = 1 THEN b ELSE IF x <= k THEN WayList[x - 1] ELSE WayList[x]
                BY <3>3 DEF HeadMoved
            <4>4. \A x, y \in 1 .. Assoc : x < y /\ blks[WayList[y]].valid => blks[WayList[x]].valid
                BY DEF IInv, FreedLast
            <4>5. Assoc \in Nat
                BY Types
            <4>6. blks[WayList'[i]].valid
                <5>1. CASE i = 1
                    BY <1>1, <4>3, <5>1
                <5>2. CASE i # 1 /\ j <= k
                    <6>1. i - 1 \in 1 .. Assoc /\ j - 1 \in 1 .. Assoc /\ j # 1 /\ i <= k /\ i - 1 < j - 1
                        BY <4>5, <5>2
                    <6> QED BY <4>2, <4>3, <4>4, <5>2, <6>1
                <5>3. CASE i # 1 /\ j > k
                    <6>1. i - 1 \in 1 .. Assoc /\ j # 1 /\ i - 1 < j
                        BY <4>5, <5>3
                    <6>2. blks[WayList[j]].valid
                        BY <4>2, <4>3, <4>5, <5>3, <6>1
                    <6> QED BY <4>3, <4>4, <5>3, <6>1, <6>2
                <5> QED BY <4>5, <5>1, <5>2, <5>3
            <4> QED BY <1>3, <4>1, <4>6
        <3> QED BY <1>2, <3>2, <3>3, <3>4 DEF IInv
    <2>2. CASE ~MovesOnHit(b)
        <3>1. way' = way /\ WayList' = WayList /\ asserted'
            BY <1>2, <2>2 DEF IInv, WayList
        <3>2. \A i \in 1 .. Assoc : WayList[i] \in Blks
            BY ListedBlocks DEF IInv
        <3>3. FreedLast(WayList)'
            BY <1>3, <3>1, <3>2 DEF IInv, FreedLast
        <3>4. policy = "LRU" => way.head = b
            <4>1. PICK k \in 1 .. Assoc : WayList[k] = b
                BY <1>1, Place
            <4> QED BY <2>2, <4>1, Neighbours, Types DEF IInv, MovesOnHit, PlaceOk
        <3> QED BY <3>1, <3>3, <3>4, Types DEF IInv
    <2> QED BY <2>1, <2>2
<1>6. TypeOK'
    BY <1>1, <1>3, <1>5 DEF IInv, TypeOK, Ways, Links
<1>7. TagsDiffer' /\ LastHitFirst'
    BY <1>1, <1>3, <1>5 DEF IInv, TagsDiffer, LastHitFirst
<1> QED BY <1>1, <1>4, <1>5, <1>6, <1>7 DEF IInv

LEMMA MissIInv ==
    ASSUME IInv, NEW tag \in Tags, NEW cmd \in {"Read", "Write"}, Miss(tag, cmd)
    PROVE  IInv'
<1> DEFINE b == way.tail
<1>1. b \in Blks /\ UNCHANGED <<policy, hsize>> /\ last_blk' = NULL
    BY Types DEF Miss, Ways
<1>2. /\ way' = MoveToHead(way, b)
      /\ hash' = Rehashed(hash, b, tag)
      /\ asserted' = (/\ asserted /\ PlaceOk(way, b)
                      /\ hsize > 0 => Contains(Bucket(hash, blks[b].tag), b))
      /\ blks' = [blks EXCEPT ![b] = [tag |-> tag, valid |-> TRUE, dirty |-> cmd = "Write"]]
    BY DEF Miss
<1> HIDE DEF b
<1>3. /\ blks' \in [Blks -> [tag : Tags \union {0}, valid : BOOLEAN, dirty : BOOLEAN]]
      /\ \A c \in Blks : /\ blks'[c].tag = IF c = b THEN tag ELSE blks[c].tag
                         /\ blks'[c].valid = (c = b \/ blks[c].valid)
    BY <1>1, <1>2, Types
<1>4. tag \in Nat
    BY Types
<1>5. /\ way' \in Ways /\ PlaceOk(way, b)
      /\ \E k \in 1 .. Assoc : /\ WayList[k] = b /\ WayList' = HeadMoved(WayList, k)
                               /\ Listed(WayList', way')
    BY <1>1, <1>2, HeadMoveKeeps
<1>6. PICK k \in 1 .. Assoc : /\ WayList[k] = b /\ WayList' = HeadMoved(WayList, k)
                              /\ Listed(WayList', way')
    BY <1>5
<1>7. FreedLast(WayList)'
    <2> SUFFICES ASSUME NEW i \in 1 .. Assoc, NEW j \in 1 .. Assoc, i < j, blks'[WayList'[j]].valid
                 PROVE  blks'[WayList'[i]].valid
        BY DEF FreedLast
    <2>1. \A x \in 1 .. Assoc : WayList[x] \in Blks /\ WayList'[x] \in Blks
        BY <1>6, ListedBlocks DEF IInv
    <2>2. \A x \in 1 .. Assoc : WayList'[x] = IF x = 1 THEN b ELSE IF x <= k THEN WayList[x - 1] ELSE WayList[x]
        BY <1>6 DEF HeadMoved
    <2>3. \A x, y \in 1 .. Assoc : x < y /\ blks[WayList[y]].valid => blks[WayList[x]].valid
        BY DEF IInv, FreedLast
    <2>4. Assoc \in Nat /\ j # 1
        BY Types
    <2>5. k = Assoc
        <3>1. WayList[Assoc] = b /\ Assoc \in 1 .. Assoc
            BY Types DEF IInv, Listed, b
        <3> QED BY <1>6, <3>1, ListedBlocks DEF IInv
    <2>6. CASE i = 1
        BY <1>1, <1>3, <2>2, <2>6
    <2>7. CASE i # 1
        <3>1. i - 1 \in 1 .. Assoc /\ j - 1 \in 1 .. Assoc /\ i <= k /\ j <= k /\ i - 1 < j - 1
            BY <2>4, <2>5, <2>7
        <3>2. WayList'[j] = WayList[j - 1] /\ WayList'[i] = WayList[i - 1]
            BY <2>2, <2>4, <2>7, <3>1
        <3>3. j - 1 # k
            BY <2>4, <2>5
        <3>4. WayList[j - 1] # b
            BY <1>6, <3>1, <3>3, ListedBlocks DEF IInv
        <3>5. blks[WayList[j - 1]].valid
            BY <1>3, <2>1, <3>1, <3>2, <3>4
        <3> QED BY <1>3, <2>1, <2>3, <3>1, <3>2, <3>5
    <2> QED BY <2>6, <2>7
<1>8. /\ hash' \in Hashes
      /\ (hsize > 0 => \A i \in Buckets : Whole(hash, i, Members(i)))'
    <2>1. CASE hsize > 0
        <3>1. /\ Rehashed(hash, b, tag) \in Hashes
              /\ \A i \in Buckets :
                     Whole(Rehashed(hash, b, tag), i,
                           {c \in Blks : CACHE_HASH(IF c = b THEN tag ELSE blks[c].tag) = i})
            BY <1>1, <1>4, <2>1, RehashKeeps, Types DEF IInv
        <3>2. \A i : Members(i)' = {c \in Blks : CACHE_HASH(IF c = b THEN tag ELSE blks[c].tag) = i}
            BY <1>1, <1>3 DEF Members, CACHE_HASH
        <3>3. Buckets' = Buckets
            BY <1>1 DEF Buckets
        <3> QED BY <1>2, <3>1, <3>2, <3>3
    <2>2. CASE ~(hsize > 0)
        <3>1. hsize = 0
            BY <2>2, Types
        <3>2. hash' = hash
            BY <1>2, <3>1 DEF Rehashed
        <3> QED BY <1>1, <2>2, <3>2, Types
    <2> QED BY <2>1, <2>2
<1>9. asserted'
    <2>1. ASSUME hsize > 0
          PROVE  Contains(Bucket(hash, blks[b].tag), b)
        <3> DEFINE own == CACHE_HASH(blks[b].tag)
        <3>1. own \in Buckets /\ b \in Members(own)
            <4>1. blks[b].tag \in Nat /\ hsize \in Nat
                BY <1>1, Types
            <4> QED BY <1>1, <2>1, <4>1, HashInRange DEF Members
        <3> DEFINE s == Bucket(hash, blks[b].tag)
        <3>2. Holds(s, Members(own))
            BY <2>1, <3>1 DEF IInv, Whole, Bucket
        <3> HIDE DEF s
        <3>3. PICK i \in DOMAIN s : s[i] = b
            BY <3>1, <3>2 DEF Holds
        <3>4. DOMAIN s = 1 .. Len(s)
            BY <3>2 DEF Holds
        <3> QED BY <3>3, <3>4 DEF Contains, s
    <2> QED BY <1>2, <1>5, <2>1 DEF IInv
<1>10. TypeOK'
    <2>1. (hash \in [head : [0 .. hsize - 1 -> Blks \union {NULL}], next : Links])'
        BY <1>1, <1>8 DEF Hashes
    <2> QED BY <1>1, <1>3, <1>5, <2>1 DEF TypeOK, Ways, Links
<1>11. TagsDiffer'
    <2>1. \A c \in Blks : ~(blks[c].valid /\ blks[c].tag = tag)
        BY Search DEF Miss
    <2> QED BY <1>3, <2>1 DEF IInv, TagsDiffer
<1>12. LastHitFirst'
    BY <1>1 DEF LastHitFirst
<1> QED BY <1>1, <1>6, <1>7, <1>8, <1>9, <1>10, <1>11, <1>12 DEF IInv

LEMMA FlushAddrIInv ==
    ASSUME IInv, NEW tag \in Tags, cache_flush_addr(tag)
    PROVE  IInv'
<1>1. UNCHANGED <<policy, hsize, hash>>
    BY DEF cache_flush_addr
<1>2. CASE Matches(tag) = {}
    <2>1. UNCHANGED <<policy, hsize, hash, way, blks, last_blk, asserted>>
        BY <1>2 DEF cache_flush_addr
    <2>2. \A k : Members(k)' = Members(k)
        BY <2>1 DEF Members, CACHE_HASH
    <2>3. Buckets' = Buckets /\ WayList' = WayList
        BY <2>1 DEF Buckets, WayList
    <2> QED BY <2>1, <2>2, <2>3 DEF IInv, TypeOK, TagsDiffer, FreedLast, LastHitFirst
<1>3. CASE Matches(tag) # {}
    <2> DEFINE b == FirstMatch(tag)
    <2>1. b \in Blks /\ blks[b].valid
        BY <1>3, Search
    <2>2. /\ blks' = [blks EXCEPT ![b].valid = FALSE]
          /\ way' = MoveToTail(way, b)
          /\ asserted' = (asserted /\ PlaceOk(way, b))
          /\ last_blk' = NULL
        BY <1>3 DEF cache_flush_addr
    <2> HIDE DEF b
    <2>3. /\ blks' \in [Blks -> [tag : Tags \union {0}, valid : BOOLEAN, dirty : BOOLEAN]]
          /\ \A c \in Blks : /\ blks'[c].tag = blks[c].tag
                             /\ blks'[c].valid = (c # b /\ blks[c].valid)
        BY <2>1, <2>2, Types
    <2>4. (hsize > 0 => \A k \in Buckets : Whole(hash, k, Members(k)))'
        BY <1>1, <2>3, SameTags
    <2>5. PICK k \in 1 .. Assoc : WayList[k] = b
        BY <2>1, Place
    <2>6. /\ way' \in Ways /\ Listed(TailMoved(WayList, k), way') /\ PlaceOk(way, b)
        BY <2>2, <2>5, Types, TailMove, Neighbours DEF IInv
    <2>7. WayList' = TailMoved(WayList, k)
        BY <2>6, ListIs DEF WayList
    <2>8. FreedLast(WayList)'
        <3> SUFFICES ASSUME NEW i \in 1 .. Assoc, NEW j \in 1 .. Assoc, i < j, blks'[WayList'[j]].valid
                     PROVE  blks'[WayList'[i]].valid
            BY DEF FreedLast
        <3>1. \A x \in 1 .. Assoc : WayList[x] \in Blks /\ WayList'[x] \in Blks
            BY <2>6, <2>7, ListedBlocks DEF IInv
        <3>2. \A x \in 1 .. Assoc : WayList'[x] = IF x = Assoc THEN b ELSE IF x >= k THEN WayList[x + 1] ELSE WayList[x]
            BY <2>5, <2>7 DEF TailMoved
        <3>3. \A x, y \in 1 .. Assoc : x < y /\ blks[WayList[y]].valid => blks[WayList[x]].valid
            BY DEF IInv, FreedLast
        <3>4. Assoc \in Nat /\ i # Assoc
            BY Types
        <3>5. j # Assoc
            BY <2>3, <3>1, <3>2
        <3>6. /\ i + 1 \in 1 .. Assoc /\ j + 1 \in 1 .. Assoc
            BY <3>4, <3>5
        <3> DEFINE x == IF i >= k THEN i + 1 ELSE i
                   y == IF j >= k THEN j + 1 ELSE j
        <3>7. x \in 1 .. Assoc /\ y \in 1 .. Assoc /\ x < y /\ x # k
            BY <3>6
        <3>8. WayList'[i] = WayList[x] /\ WayList'[j] = WayList[y]
            BY <3>2, <3>4, <3>5
        <3> HIDE DEF x, y
        <3>9. WayList[x] # b
            BY <2>5, <3>7, ListedBlocks DEF IInv
        <3>10. blks[WayList[y]].valid
            BY <2>3, <3>1, <3>7, <3>8
        <3> QED BY <2>3, <3>1, <3>3, <3>7, <3>8, <3>9, <3>10
    <2>9. TypeOK'
        BY <1>1, <2>2, <2>3, <2>6 DEF IInv, TypeOK, Ways, Links
    <2>10. TagsDiffer'
        BY <2>3 DEF IInv, TagsDiffer
    <2>11. LastHitFirst' /\ asserted'
        BY <2>2, <2>6 DEF IInv, LastHitFirst
    <2> QED BY <1>1, <2>4, <2>6, <2>7, <2>8, <2>9, <2>10, <2>11 DEF IInv
<1> QED BY <1>2, <1>3

LEMMA FlushIInv ==
    ASSUME IInv, cache_flush
    PROVE  IInv'
<1>1. /\ UNCHANGED <<policy, hsize, hash, way, asserted>> /\ last_blk' = NULL
      /\ blks' = [b \in Blks |-> [blks[b] EXCEPT !.valid = FALSE]]
    BY DEF cache_flush
<1>2. /\ blks' \in [Blks -> [tag : Tags \union {0}, valid : BOOLEAN, dirty : BOOLEAN]]
      /\ \A c \in Blks : blks'[c].tag = blks[c].tag /\ ~blks'[c].valid
    BY <1>1, Types
<1>3. (hsize > 0 => \A k \in Buckets : Whole(hash, k, Members(k)))'
    BY <1>1, <1>2, SameTags
<1>4. WayList' = WayList /\ \A i \in 1 .. Assoc : WayList[i] \in Blks
    BY <1>1, ListedBlocks DEF WayList, IInv
<1>5. TypeOK'
    BY <1>1, <1>2 DEF IInv, TypeOK
<1>6. TagsDiffer' /\ FreedLast(WayList)' /\ LastHitFirst'
    BY <1>1, <1>2, <1>4 DEF TagsDiffer, FreedLast, LastHitFirst
<1> QED BY <1>1, <1>3, <1>4, <1>5, <1>6 DEF IInv

LEMMA NextIInv ==
    ASSUME IInv, [Next]_vars
    PROVE  IInv'
<1>1. CASE Next
    BY <1>1, FastHitIInv, SlowHitIInv, MissIInv, FlushAddrIInv, FlushIInv DEF Next
<1>2. CASE UNCHANGED vars
    <2>1. UNCHANGED <<policy, hsize, hash, way, blks, last_blk, asserted>>
        BY <1>2 DEF vars
    <2>2. \A k : Members(k)' = Members(k)
        BY <2>1 DEF Members, CACHE_HASH
    <2>3. Buckets' = Buckets /\ WayList' = WayList
        BY <2>1 DEF Buckets, WayList
    <2> QED BY <2>1, <2>2, <2>3 DEF IInv, TypeOK, TagsDiffer, FreedLast, LastHitFirst
<1> QED BY <1>1, <1>2

\* The invariant holds, for any number of ways, tags and hash buckets
THEOREM SetInvariant == Spec => []IInv
<1>1. Init => IInv
    BY InitIInv
<1>2. IInv /\ [Next]_vars => IInv'
    BY NextIInv
<1> QED BY <1>1, <1>2, PTL DEF Spec

\* The lists that update_way_list and the hash chains' operations rebuild stay
\* whole, and no assertion of them fails (cache.c:143-257)
THEOREM ListsStayWhole == Spec => []ListsWhole
<1>1. IInv => ListsWhole
    <2> SUFFICES ASSUME IInv  PROVE ListsWhole
        OBVIOUS
    <2>1. WayListWhole
        <3>1. way \in Ways /\ Listed(WayList, way)
            BY Types DEF IInv
        <3>2. /\ Chain(way.tail, way.prev) = Reverse(WayList)
              /\ Len(WayList) = Assoc /\ IsInjective(WayList)
            BY <3>1, ListIs DEF Holds
        <3> QED BY <3>2 DEF WayListWhole
    <2>2. ChainsPartition
        <3> SUFFICES ASSUME hsize > 0, NEW b \in Blks
                     PROVE  {k \in Buckets : Contains(Chain(hash.head[k], hash.next), b)}
                                = {CACHE_HASH(blks[b].tag)}
            BY DEF ChainsPartition, Buckets
        <3>1. CACHE_HASH(blks[b].tag) \in Buckets
            <4>1. blks[b].tag \in Nat /\ hsize \in Nat
                BY Types
            <4> QED BY <4>1, HashInRange
        <3>2. ASSUME NEW k \in Buckets
              PROVE  Contains(Chain(hash.head[k], hash.next), b) <=> b \in Members(k)
            <4> DEFINE s == Chain(hash.head[k], hash.next)
            <4>1. Holds(s, Members(k))
                BY <3>2 DEF IInv, Whole
            <4> HIDE DEF s
            <4>2. DOMAIN s = 1 .. Len(s) /\ \A i \in DOMAIN s : s[i] \in Members(k)
                <5>1. s \in Seq(Members(k))
                    BY <4>1 DEF Holds
                <5> QED BY <5>1
            <4>3. Contains(s, b) <=> b \in Members(k)
                BY <4>1, <4>2 DEF Contains, Holds
            <4> QED BY <4>3 DEF s
        <3> QED BY <3>1, <3>2 DEF Members
    <2> QED BY <2>1, <2>2 DEF IInv, ListsWhole
<1> QED BY <1>1, SetInvariant, PTL

-----------------------------------------------------------------------------
(* Sequences of lines *)

LEMMA InFront ==
    ASSUME NEW S, NEW ls \in Seq(S), NEW x \in S
    PROVE  <<x>> \o ls = [j \in 1 .. Len(ls) + 1 |-> IF j = 1 THEN x ELSE ls[j - 1]]
<1>1. <<x>> \in Seq(S) /\ Len(<<x>>) = 1 /\ <<x>>[1] = x
    OBVIOUS
<1> DEFINE t == <<x>> \o ls
           n == Len(ls)
<1>2. t \in Seq(S) /\ Len(t) = n + 1 /\ n \in Nat
    BY <1>1
<1>3. \A j \in 1 .. n + 1 : t[j] = IF j = 1 THEN x ELSE ls[j - 1]
    BY <1>1, <1>2
<1> HIDE DEF t
<1>4. t = [j \in 1 .. n + 1 |-> t[j]]
    BY <1>2
<1> QED BY <1>3, <1>4 DEF t

LEMMA FrontIs ==
    ASSUME NEW S, NEW ls \in Seq(S), Len(ls) >= 1
    PROVE  Front(ls) = [j \in 1 .. Len(ls) - 1 |-> ls[j]]
<1> DEFINE t == SubSeq(ls, 1, Len(ls) - 1)
           n == Len(ls)
<1>1. t \in Seq(S) /\ Len(t) = n - 1 /\ n - 1 \in Nat /\ \A j \in 1 .. n - 1 : t[j] = ls[j]
    <2>1. n \in Nat /\ n >= 1 /\ n - 1 \in Nat
        OBVIOUS
    <2>2. t \in Seq(S)
        BY <2>1
    <2>3. Len(t) = n - 1
        <3> PICK m : m = n - 1
            OBVIOUS
        <3>1. \A i \in 1 .. m : ls[i] \in S
            BY <2>1
        <3>2. m \in Int /\ 1 \in Int
            BY <2>1
        <3>3. Len(SubSeq(ls, 1, m)) = IF 1 <= m THEN m - 1 + 1 ELSE 0
            BY ONLY <3>1, <3>2, SubSeqProperties
        <3> QED BY <2>1, <3>3
    <2>4. \A j \in 1 .. n - 1 : t[j] = ls[j]
        BY <2>1
    <2> QED BY <2>1, <2>2, <2>3, <2>4
<1> HIDE DEF t
<1>2. t = [j \in 1 .. n - 1 |-> t[j]]
    BY <1>1
<1> QED BY <1>1, <1>2 DEF Front, t

LEMMA RemoveAtIs ==
    ASSUME NEW S, NEW ls \in Seq(S), NEW i \in 1 .. Len(ls)
    PROVE  /\ RemoveAt(ls, i) = [j \in 1 .. Len(ls) - 1 |-> IF j < i THEN ls[j] ELSE ls[j + 1]]
           /\ RemoveAt(ls, i) \in Seq(S) /\ Len(RemoveAt(ls, i)) = Len(ls) - 1
<1> DEFINE n == Len(ls)
           p == SubSeq(ls, 1, i - 1)
           q == SubSeq(ls, i + 1, n)
           t == p \o q
<1>1. n \in Nat /\ i \in Nat /\ 1 <= i /\ i <= n
    OBVIOUS
<1>2. p \in Seq(S) /\ Len(p) = i - 1 /\ \A j \in 1 .. i - 1 : p[j] = ls[j]
    BY <1>1
<1>3. q \in Seq(S) /\ Len(q) = n - i /\ \A j \in 1 .. n - i : q[j] = ls[i + j]
    BY <1>1
<1> HIDE DEF p, q
<1>4. t \in Seq(S) /\ Len(t) = n - 1
    <2>1. t \in Seq(S)
        BY <1>2, <1>3
    <2>2. Len(t) = Len(p) + Len(q)
        BY <1>2, <1>3, ConcatProperties
    <2> QED BY <1>1, <1>2, <1>3, <2>1, <2>2
<1>5. ASSUME NEW j \in 1 .. n - 1
      PROVE  t[j] = IF j < i THEN ls[j] ELSE ls[j + 1]
    <2>1. CASE j < i
        BY <1>1, <1>2, <1>3, <2>1
    <2>2. CASE j >= i
        <3>1. t[j] = q[j - (i - 1)]
            BY <1>1, <1>2, <1>3, <2>2
        <3>2. j \in Int
            OBVIOUS
        <3> PICK k : k = j - (i - 1)
            OBVIOUS
        <3>3. k \in 1 .. n - i /\ i + k = j + 1 /\ ~(j < i)
            BY <1>1, <2>2, <3>2
        <3>4. q[k] = ls[i + k]
            BY <1>3, <3>3
        <3> QED BY <3>1, <3>3, <3>4
    <2>3. j \in Int
        OBVIOUS
    <2>4. j < i \/ j >= i
        BY <1>1, <2>3
    <2> QED BY <2>1, <2>2, <2>4
<1> HIDE DEF t
<1>6. t = [j \in 1 .. n - 1 |-> t[j]]
    BY <1>1, <1>4
<1> QED BY <1>4, <1>5, <1>6 DEF RemoveAt, p, q, t

-----------------------------------------------------------------------------
(* The lines that the pointers stand for *)

Line == [tag : Nat, dirty : BOOLEAN]
Contents == [Blks -> [tag : Nat, valid : BOOLEAN, dirty : BOOLEAN]]

LineOf(bl, b) == [tag |-> bl[b].tag, dirty |-> bl[b].dirty]

\* The first n blocks of the list s, as lines
First(s, n, bl) == [i \in 1 .. n |-> LineOf(bl, s[i])]

\* The first n blocks of s are the valid ones
ValidFirst(s, n, bl) ==
    n \in 0 .. Assoc /\ \A i \in 1 .. Assoc : bl[s[i]].valid <=> i <= n

LEMMA LinesOf ==
    ASSUME NEW w \in Ways, NEW s, Listed(s, w), NEW bl \in Contents, NEW n, ValidFirst(s, n, bl)
    PROVE  LET list == Chain(w.head, w.next)
           IN  [i \in 1 .. Cardinality({b \in Blks : bl[b].valid}) |->
                   [tag |-> bl[list[i]].tag, dirty |-> bl[list[i]].dirty]] = First(s, n, bl)
<1> DEFINE V == {b \in Blks : bl[b].valid}
           f == [i \in 1 .. n |-> s[i]]
<1>1. /\ \A i \in 1 .. Assoc : s[i] \in Blks
      /\ \A i, j \in 1 .. Assoc : s[i] = s[j] => i = j
      /\ n \in Nat /\ n <= Assoc /\ Assoc \in Nat
      /\ \A i \in 1 .. Assoc : bl[s[i]].valid <=> i <= n
    BY ListedBlocks DEF ValidFirst
<1>2. f \in [1 .. n -> V]
    BY <1>1
<1>3. f \in Bijection(1 .. n, V)
    <2>1. \A i, j \in DOMAIN f : f[i] = f[j] => i = j
        BY <1>1
    <2>2. ASSUME NEW b \in V
          PROVE  \E i \in 1 .. n : f[i] = b
        <3>1. PICK i \in 1 .. Assoc : s[i] = b
            BY <2>2 DEF Listed
        <3>2. i \in 1 .. n
            BY <1>1, <2>2, <3>1
        <3> QED BY <3>1, <3>2
    <2> HIDE DEF f, V
    <2> QED BY <1>2, <2>1, <2>2 DEF Bijection, Injection, Surjection, IsInjective
<1>4. Cardinality(V) = n
    <2>1. ExistsBijection(1 .. n, V)
        BY <1>3 DEF ExistsBijection
    <2> HIDE DEF V
    <2> QED BY <1>1, <2>1, FirstOnes, FS_Bijection
<1>5. Chain(w.head, w.next) = s
    BY ListIs
<1> HIDE DEF V
<1> QED BY <1>4, <1>5 DEF First, LineOf, V

LEMMA SomeFirst ==
    ASSUME IInv
    PROVE  \E n : ValidFirst(WayList, n, blks)
<1> DEFINE I == {i \in 1 .. Assoc : blks[WayList[i]].valid}
<1>1. Assoc \in Nat /\ Assoc >= 1
    BY Types
<1>2. CASE 1 \notin I
    <2>1. \A i \in 1 .. Assoc : ~blks[WayList[i]].valid
        BY <1>1, <1>2 DEF IInv, FreedLast
    <2>2. ValidFirst(WayList, 0, blks)
        BY <1>1, <2>1 DEF ValidFirst
    <2> QED BY <2>2
<1>3. CASE 1 \in I
    <2>1. PICK n \in I : n + 1 \notin I
        <3> SUFFICES ASSUME \A i \in I : i + 1 \in I
                     PROVE  FALSE
            OBVIOUS
        <3> DEFINE m == Assoc + 1
        <3>1. m \in Nat
            BY <1>1
        <3>2. m \in 1 .. m /\ m \notin I
            BY <1>1
        <3> HIDE DEF I, m
        <3>3. \A i \in 1 .. m : i \in I
            BY <1>3, <3>1, UpTo
        <3> QED BY <3>2, <3>3
    <2>2. n \in 1 .. Assoc
        OBVIOUS
    <2>3. ASSUME NEW i \in 1 .. Assoc
          PROVE  blks[WayList[i]].valid <=> i <= n
        <3>1. CASE i <= n
            <4>1. i < n \/ i = n
                BY <1>1, <2>2, <3>1
            <4> QED BY <2>1, <2>2, <3>1, <4>1 DEF IInv, FreedLast
        <3>2. CASE i > n
            <4>1. n + 1 \in 1 .. Assoc /\ (i = n + 1 \/ n + 1 < i)
                BY <1>1, <2>2, <3>2
            <4>2. ~blks[WayList[n + 1]].valid
                BY <2>1, <4>1
            <4>3. ~blks[WayList[i]].valid
                BY <4>1, <4>2 DEF IInv, FreedLast
            <4> QED BY <1>1, <2>2, <3>2, <4>3
        <3> QED BY <1>1, <2>2, <3>1, <3>2
    <2>4. ValidFirst(WayList, n, blks)
        <3>1. n \in 0 .. Assoc
            BY <1>1, <2>2
        <3> QED BY <2>3, <3>1 DEF ValidFirst
    <2> QED BY <2>4
<1> QED BY <1>2, <1>3

LEMMA LinesNow ==
    ASSUME IInv, NEW n, ValidFirst(WayList, n, blks)
    PROVE  /\ n \in 0 .. Assoc /\ Lines = First(WayList, n, blks)
           /\ Lines \in Seq(Line) /\ Len(Lines) = n /\ DOMAIN Lines = 1 .. n
           /\ \A i \in 1 .. n : Lines[i] = LineOf(blks, WayList[i])
<1>2. blks \in Contents /\ way \in Ways /\ Listed(WayList, way)
    BY Types DEF IInv, Contents
<1>3. Lines = First(WayList, n, blks)
    BY <1>2, LinesOf DEF Lines, WayList
<1>4. n \in Nat /\ n <= Assoc /\ n \in 0 .. Assoc
    BY Types DEF ValidFirst
<1>5. \A i \in 1 .. n : LineOf(blks, WayList[i]) \in Line
    <2>1. \A i \in 1 .. n : WayList[i] \in Blks
        BY <1>2, <1>4, ListedBlocks
    <2> QED BY <1>2, <2>1 DEF LineOf, Line, Contents
<1>6. /\ Lines \in Seq(Line) /\ Len(Lines) = n /\ DOMAIN Lines = 1 .. n
      /\ \A i \in 1 .. n : Lines[i] = LineOf(blks, WayList[i])
    BY <1>3, <1>4, <1>5 DEF First
<1> QED BY <1>3, <1>4, <1>6

LEMMA LinesNext ==
    ASSUME IInv', NEW n, ValidFirst(WayList', n, blks')
    PROVE  Lines' = First(WayList', n, blks')
<1>1. blks' \in Contents /\ way' \in Ways
    <2>1. /\ way' \in Ways
          /\ blks' \in [Blks -> [tag : Tags \union {0}, valid : BOOLEAN, dirty : BOOLEAN]]
        BY DEF IInv, TypeOK, Ways, Links
    <2>2. Tags \union {0} \in SUBSET Nat
        BY CacheSetAssumption
    <2> QED BY <2>1, <2>2 DEF Contents
<1>2. Listed(WayList', way')
    BY DEF IInv
<1> PICK w, s, bl : w = way' /\ s = WayList' /\ bl = blks'
    OBVIOUS
<1>3. LET list == Chain(w.head, w.next)
      IN  [i \in 1 .. Cardinality({b \in Blks : bl[b].valid}) |->
              [tag |-> bl[list[i]].tag, dirty |-> bl[list[i]].dirty]] = First(s, n, bl)
    <2>1. w \in Ways /\ Listed(s, w) /\ bl \in Contents /\ ValidFirst(s, n, bl)
        BY <1>1, <1>2
    <2> QED BY ONLY <2>1, LinesOf
<1> QED BY <1>3 DEF Lines, WayList

-----------------------------------------------------------------------------
(* Every step is one of LruSet's *)

LEMMA WrittenBy ==
    ASSUME NEW ls \in Seq(Line)
    PROVE  Abstract!DirtyTags(ls) = {ls[i].tag : i \in {k \in 1 .. Len(ls) : ls[k].dirty}}
<1>1. DOMAIN ls = 1 .. Len(ls)
    OBVIOUS
<1> QED BY <1>1 DEF Abstract!DirtyTags

\* A hit on the line at place k; with FIFO it stays there
LEMMA HitLines ==
    ASSUME IInv, IInv', policy' = policy, written' = {},
           NEW n, ValidFirst(WayList, n, blks), NEW k \in 1 .. Assoc, blks[WayList[k]].valid,
           NEW tag \in Tags, blks[WayList[k]].tag = tag,
           NEW cmd \in {"Read", "Write"}, call' = <<cmd, tag>>, blks' = SetDirty(WayList[k], cmd),
           WayList' = IF policy = "LRU" THEN HeadMoved(WayList, k) ELSE WayList
    PROVE  Abstract!Next
<1> DEFINE s == WayList
           b == s[k]
           ls == Lines
           write == cmd = "Write"
           line == [ls[k] EXCEPT !.dirty = @ \/ write]
<1>1. /\ n \in Nat /\ n <= Assoc /\ Assoc \in Nat /\ k \in 1 .. n /\ 1 <= k /\ k <= n
      /\ \A i \in 1 .. Assoc : s[i] \in Blks /\ WayList'[i] \in Blks
      /\ \A i, j \in 1 .. Assoc : s[i] = s[j] => i = j
      /\ \A i \in 1 .. Assoc : blks[s[i]].valid <=> i <= n
    BY ListedBlocks, Types DEF ValidFirst, IInv
<1>2. /\ ls = First(s, n, blks) /\ ls \in Seq(Line) /\ Len(ls) = n /\ DOMAIN ls = 1 .. n
      /\ \A i \in 1 .. n : ls[i] = LineOf(blks, s[i])
    BY LinesNow
<1>3. /\ \A c \in Blks : blks'[c].valid = blks[c].valid /\ blks'[c].tag = blks[c].tag
      /\ \A c \in Blks : blks'[c].dirty = IF c = b THEN blks[b].dirty \/ write ELSE blks[c].dirty
    BY <1>1, Types DEF SetDirty
<1>4. line = LineOf(blks', b) /\ line \in Line
    <2>1. ls[k] = LineOf(blks, b) /\ ls[k] \in Line
        BY <1>1, <1>2
    <2>2. line = [tag |-> blks[b].tag, dirty |-> blks[b].dirty \/ write]
        BY <2>1 DEF LineOf
    <2>3. line \in Line
        BY <2>1 DEF Line
    <2>4. blks'[b].tag = blks[b].tag /\ blks'[b].dirty = (blks[b].dirty \/ write)
        BY <1>1, <1>3
    <2> QED BY <2>2, <2>3, <2>4 DEF LineOf
<1>5. \A i \in 1 .. n : i # k => ls[i] = LineOf(blks', s[i])
    BY <1>1, <1>2, <1>3 DEF LineOf
<1> HIDE DEF line, ls
<1>6. ValidFirst(WayList', n, blks')
    <2>1. \A i \in 1 .. Assoc : WayList'[i] = IF policy # "LRU" THEN s[i]
                                              ELSE IF i = 1 THEN b ELSE IF i <= k THEN s[i - 1] ELSE s[i]
        BY DEF HeadMoved
    <2>2. ASSUME NEW i \in 1 .. Assoc
          PROVE  blks'[WayList'[i]].valid <=> i <= n
        <3>1. blks'[WayList'[i]].valid = blks[WayList'[i]].valid
            BY <1>1, <1>3
        <3>2. CASE policy # "LRU" \/ i > k
            <4>1. WayList'[i] = s[i]
                BY <1>1, <2>1, <3>2
            <4> QED BY <1>1, <3>1, <4>1
        <3>3. CASE policy = "LRU" /\ i = 1
            BY <1>1, <2>1, <3>1, <3>3
        <3>4. CASE policy = "LRU" /\ i # 1 /\ i <= k
            <4>1. i - 1 \in 1 .. Assoc /\ i <= n /\ i - 1 <= n
                BY <1>1, <3>4
            <4> QED BY <1>1, <2>1, <3>1, <3>4, <4>1
        <3> QED BY <1>1, <3>2, <3>3, <3>4
    <2> QED BY <1>1, <2>2 DEF ValidFirst
<1>7. Lines' = First(WayList', n, blks')
    BY <1>6, LinesNext
<1>8. Lines' = IF policy = "LRU" THEN <<line>> \o RemoveAt(ls, k) ELSE [ls EXCEPT ![k] = line]
    <2>1. CASE policy = "LRU"
        <3> DEFINE r == RemoveAt(ls, k)
        <3>1. /\ r = [j \in 1 .. n - 1 |-> IF j < k THEN ls[j] ELSE ls[j + 1]]
              /\ r \in Seq(Line) /\ Len(r) = n - 1
            <4>1. k \in 1 .. Len(ls) /\ ls \in Seq(Line)
                BY <1>1, <1>2
            <4> QED BY <1>2, <4>1, RemoveAtIs
        <3> HIDE DEF r
        <3>2. <<line>> \o r = [j \in 1 .. n - 1 + 1 |-> IF j = 1 THEN line ELSE r[j - 1]]
            <4>1. <<line>> \o r = [j \in 1 .. Len(r) + 1 |-> IF j = 1 THEN line ELSE r[j - 1]]
                <5>1. line \in Line /\ r \in Seq(Line)
                    BY <1>4, <3>1
                <5> HIDE DEF Line
                <5> QED BY ONLY <5>1, InFront
            <4> QED BY <3>1, <4>1
        <3>3. n - 1 + 1 = n
            BY <1>1
        <3>4. ASSUME NEW j \in 1 .. n
              PROVE  (IF j = 1 THEN line ELSE r[j - 1]) = LineOf(blks', WayList'[j])
            <4>1. WayList'[j] = IF j = 1 THEN b ELSE IF j <= k THEN s[j - 1] ELSE s[j]
                BY <1>1, <2>1 DEF HeadMoved
            <4>2. CASE j = 1
                BY <1>4, <4>1, <4>2
            <4>3. CASE j # 1 /\ j <= k
                <5>1. j - 1 \in 1 .. n - 1 /\ j - 1 < k /\ j - 1 \in 1 .. n /\ j - 1 # k
                    BY <1>1, <4>3
                <5>2. r[j - 1] = ls[j - 1]
                    BY <3>1, <5>1
                <5> QED BY <1>5, <4>1, <4>3, <5>1, <5>2
            <4>4. CASE j > k
                <5>1. j - 1 \in 1 .. n - 1 /\ ~(j - 1 < k) /\ j # 1 /\ j # k /\ (j - 1) + 1 = j /\ ~(j <= k)
                    BY <1>1, <4>4
                <5>2. r[j - 1] = ls[j]
                    BY <3>1, <5>1
                <5> QED BY <1>5, <4>1, <5>1, <5>2
            <4> QED BY <1>1, <4>2, <4>3, <4>4
        <3>5. <<line>> \o r = [j \in 1 .. n |-> LineOf(blks', WayList'[j])]
            BY <3>2, <3>3, <3>4
        <3> QED BY <1>7, <2>1, <3>5 DEF First, r
    <2>2. CASE policy # "LRU"
        <3>1. [ls EXCEPT ![k] = line] = [j \in 1 .. n |-> IF j = k THEN line ELSE ls[j]]
            BY <1>1, <1>2
        <3>2. \A j \in 1 .. n : (IF j = k THEN line ELSE ls[j]) = LineOf(blks', WayList'[j])
            BY <1>4, <1>5, <2>2
        <3> QED BY <1>7, <2>2, <3>1, <3>2 DEF First
    <2> QED BY <2>1, <2>2
<1>9. Abstract!Hit(Lines, k, write)
    <2>1. Abstract!RemoveAt(ls, k) = RemoveAt(ls, k)
        BY DEF Abstract!RemoveAt, RemoveAt
    <2>2. Lines' = IF policy = "LRU" THEN <<line>> \o Abstract!RemoveAt(ls, k) ELSE [ls EXCEPT ![k] = line]
        BY <1>8, <2>1
    <2> QED BY <2>2 DEF Abstract!Hit, line, ls
<1>10. k \in Abstract!At(Lines, tag)
    <2>1. k \in DOMAIN ls /\ ls[k].tag = tag
        BY <1>1, <1>2 DEF LineOf
    <2> QED BY <2>1 DEF Abstract!At, ls
<1> QED BY <1>9, <1>10 DEF Abstract!Next

LEMMA HitSteps ==
    ASSUME IInv, IInv', NEW tag \in Tags, NEW cmd \in {"Read", "Write"}, call' = <<cmd, tag>>,
           FastHit(tag, cmd) \/ SlowHit(tag, cmd)
    PROVE  Abstract!Next
<1>1. PICK n : ValidFirst(WayList, n, blks)
    BY SomeFirst
<1>2. policy' = policy /\ written' = {} /\ policy \in {"LRU", "FIFO"}
    BY DEF FastHit, SlowHit, IInv
<1>3. ASSUME NEW k \in 1 .. Assoc, WayList[k] \in Blks, k = 1
      PROVE  HeadMoved(WayList, k) = WayList
    BY <1>3, Types DEF HeadMoved, IInv, Listed
<1>4. CASE FastHit(tag, cmd)
    <2>1. /\ last_blk \in Blks /\ blks[last_blk].valid /\ (policy = "LRU" => way.head = last_blk)
          /\ blks[last_blk].tag = tag
        BY <1>4, Types DEF FastHit, LastTag, IInv, LastHitFirst
    <2>2. PICK k \in 1 .. Assoc : WayList[k] = last_blk
        BY <2>1, Place
    <2>3. blks' = SetDirty(WayList[k], cmd) /\ WayList' = WayList
        BY <1>4, <2>2 DEF FastHit, WayList
    <2>4. policy = "LRU" => k = 1
        BY <2>1, <2>2, Neighbours, Types DEF IInv, PlaceOk
    <2> QED BY <1>1, <1>2, <1>3, <2>1, <2>2, <2>3, <2>4, HitLines
<1>5. CASE SlowHit(tag, cmd)
    <2> DEFINE b == FirstMatch(tag)
    <2>1. b \in Blks /\ blks[b].valid /\ blks[b].tag = tag
        BY <1>5, Search DEF SlowHit
    <2>2. blks' = SetDirty(b, cmd) /\ way' = IF MovesOnHit(b) THEN MoveToHead(way, b) ELSE way
        BY <1>5 DEF SlowHit
    <2> HIDE DEF b
    <2>3. CASE MovesOnHit(b)
        <3>1. PICK k \in 1 .. Assoc : WayList[k] = b /\ WayList' = HeadMoved(WayList, k)
            BY <2>1, <2>2, <2>3, HeadMoveKeeps
        <3>2. policy = "LRU"
            BY <2>3 DEF MovesOnHit
        <3> QED BY <1>1, <1>2, <2>1, <2>2, <3>1, <3>2, HitLines
    <2>4. CASE ~MovesOnHit(b)
        <3>1. PICK k \in 1 .. Assoc : WayList[k] = b
            BY <2>1, Place
        <3>2. WayList' = WayList
            BY <2>2, <2>4 DEF WayList
        <3>3. policy = "LRU" => k = 1
            BY <2>4, <3>1, Neighbours, Types DEF IInv, MovesOnHit
        <3> QED BY <1>1, <1>2, <1>3, <2>1, <2>2, <3>1, <3>2, <3>3, HitLines
    <2> QED BY <2>3, <2>4
<1> QED BY <1>4, <1>5

LEMMA MissStep ==
    ASSUME IInv, IInv', NEW tag \in Tags, NEW cmd \in {"Read", "Write"}, call' = <<cmd, tag>>, Miss(tag, cmd)
    PROVE  Abstract!Next
<1> DEFINE s == WayList
           b == way.tail
           write == cmd = "Write"
           line == [tag |-> tag, dirty |-> write]
           ls == Lines
           kept == IF Len(ls) < Assoc THEN ls ELSE Abstract!Front(ls)
<1>1. PICK n : ValidFirst(s, n, blks)
    BY SomeFirst
<1>2. /\ n \in Nat /\ n <= Assoc /\ Assoc \in Nat /\ Assoc >= 1
      /\ \A i \in 1 .. Assoc : s[i] \in Blks
      /\ \A i, j \in 1 .. Assoc : s[i] = s[j] => i = j
      /\ \A i \in 1 .. Assoc : blks[s[i]].valid <=> i <= n
      /\ b = s[Assoc] /\ b \in Blks /\ Assoc \in 1 .. Assoc
    <2>1. Listed(s, way) /\ Assoc \in Nat /\ Assoc >= 1
        BY Types DEF IInv
    <2>2. b = s[Assoc] /\ Assoc \in 1 .. Assoc
        BY <2>1 DEF Listed
    <2>3. /\ n \in Nat /\ n <= Assoc
          /\ \A i \in 1 .. Assoc : blks[s[i]].valid <=> i <= n
        BY <1>1, <2>1 DEF ValidFirst
    <2> HIDE DEF s, b
    <2>4. /\ \A i \in 1 .. Assoc : s[i] \in Blks
          /\ \A i, j \in 1 .. Assoc : s[i] = s[j] => i = j
        BY <2>1, ListedBlocks
    <2> QED BY <2>1, <2>2, <2>3, <2>4
<1>3. /\ ls \in Seq(Line) /\ Len(ls) = n /\ DOMAIN ls = 1 .. n
      /\ \A i \in 1 .. n : ls[i] = LineOf(blks, s[i])
    BY <1>1, LinesNow
<1>4. /\ blks' = [blks EXCEPT ![b] = [tag |-> tag, valid |-> TRUE, dirty |-> write]]
      /\ way' = MoveToHead(way, b) /\ written' = Dirty({b}) /\ policy' = policy
    BY DEF Miss
<1>5. /\ \A c \in Blks : c # b => blks'[c] = blks[c]
      /\ blks'[b] = [tag |-> tag, valid |-> TRUE, dirty |-> write]
    BY <1>2, <1>4, Types
<1>6. WayList' = HeadMoved(s, Assoc)
    <2>1. PICK k \in 1 .. Assoc : s[k] = b /\ WayList' = HeadMoved(s, k)
        BY <1>2, <1>4, HeadMoveKeeps
    <2> QED BY <1>2, <2>1
<1>7. \A i \in 1 .. Assoc : WayList'[i] = IF i = 1 THEN b ELSE s[i - 1]
    BY <1>2, <1>6 DEF HeadMoved
<1> HIDE DEF b, s, ls, line, write
<1>8. PICK m : m = IF n < Assoc THEN n + 1 ELSE Assoc
    OBVIOUS
<1>9. \A i \in 1 .. Assoc : i # 1 => i - 1 \in 1 .. Assoc /\ s[i - 1] # b /\ s[i - 1] \in Blks
    BY <1>2
<1>10. ValidFirst(WayList', m, blks')
    <2>1. ASSUME NEW i \in 1 .. Assoc
          PROVE  blks'[WayList'[i]].valid <=> i <= m
        <3>1. CASE i = 1
            BY <1>2, <1>5, <1>7, <1>8, <3>1
        <3>2. CASE i # 1
            <4>1. blks'[WayList'[i]] = blks[s[i - 1]]
                BY <1>5, <1>7, <1>9, <3>2
            <4>2. blks[s[i - 1]].valid <=> i - 1 <= n
                BY <1>2, <1>9, <3>2
            <4>3. i - 1 <= n <=> i <= m
                BY <1>2, <1>8
            <4> QED BY <4>1, <4>2, <4>3
        <3> QED BY <3>1, <3>2
    <2> QED BY <1>2, <1>8, <2>1 DEF ValidFirst
<1>11. Lines' = First(WayList', m, blks')
    BY <1>10, LinesNext
<1>12. /\ kept = [j \in 1 .. m - 1 |-> ls[j]] /\ kept \in Seq(Line) /\ Len(kept) = m - 1 /\ m - 1 \in Nat
    <2>1. CASE n < Assoc
        <3>1. kept = ls /\ m - 1 = n
            BY <1>2, <1>3, <1>8, <2>1
        <3> QED BY <1>2, <1>3, <3>1
    <2>2. CASE n = Assoc
        <3>1. m = n /\ n >= 1
            BY <1>2, <1>8, <2>2
        <3>2. kept = Front(ls)
            BY <1>3, <2>2, <1>2 DEF Front, Abstract!Front
        <3>3. Front(ls) = [j \in 1 .. n - 1 |-> ls[j]]
            BY <1>3, <3>1, FrontIs
        <3>4. \A j \in 1 .. n - 1 : ls[j] \in Line
            BY <1>2, <1>3
        <3> HIDE DEF kept
        <3> QED BY <1>2, <3>1, <3>2, <3>3, <3>4
    <2> QED BY <1>2, <2>1, <2>2
<1> HIDE DEF kept
<1>13. line \in Line
    BY Types DEF line, write, Line
<1>14. Lines' = <<line>> \o kept
    <2>1. <<line>> \o kept = [j \in 1 .. m |-> IF j = 1 THEN line ELSE kept[j - 1]]
        <3>1. <<line>> \o kept = [j \in 1 .. Len(kept) + 1 |-> IF j = 1 THEN line ELSE kept[j - 1]]
            <4> HIDE DEF Line
            <4> QED BY ONLY <1>12, <1>13, InFront
        <3>2. Len(kept) + 1 = m
            BY <1>2, <1>8, <1>12
        <3> QED BY <3>1, <3>2
    <2>2. ASSUME NEW j \in 1 .. m
          PROVE  (IF j = 1 THEN line ELSE kept[j - 1]) = LineOf(blks', WayList'[j])
        <3>1. j \in 1 .. Assoc
            BY <1>2, <1>8
        <3>2. CASE j = 1
            BY <1>5, <1>7, <3>1, <3>2 DEF LineOf, line
        <3>3. CASE j # 1
            <4>1. j - 1 \in 1 .. m - 1 /\ j - 1 \in 1 .. n
                BY <1>2, <1>8, <3>1, <3>3
            <4>2. kept[j - 1] = LineOf(blks, s[j - 1])
                BY <1>3, <1>12, <4>1
            <4>3. WayList'[j] = s[j - 1] /\ blks'[s[j - 1]] = blks[s[j - 1]]
                BY <1>5, <1>7, <1>9, <3>1, <3>3
            <4> QED BY <3>3, <4>2, <4>3 DEF LineOf
        <3> QED BY <3>2, <3>3
    <2> QED BY <1>11, <2>1, <2>2 DEF First
<1>15. \A i \in DOMAIN ls : ls[i].tag # tag
    <2>1. \A c \in Blks : ~(blks[c].valid /\ blks[c].tag = tag)
        BY Search DEF Miss
    <2>2. \A i \in 1 .. n : s[i] \in Blks /\ blks[s[i]].valid
        BY <1>2
    <2> QED BY <1>3, <2>1, <2>2 DEF LineOf
<1>16. written' = Abstract!DirtyTags(ls) \ Abstract!DirtyTags(kept)
    <2>1. /\ Abstract!DirtyTags(ls) = {ls[i].tag : i \in {k \in 1 .. n : ls[k].dirty}}
          /\ Abstract!DirtyTags(kept) = {kept[i].tag : i \in {k \in 1 .. m - 1 : kept[k].dirty}}
        BY <1>3, <1>12, WrittenBy
    <2>2. \A i \in 1 .. m - 1 : kept[i] = ls[i]
        BY <1>12
    <2>3. written' = IF blks[b].valid /\ blks[b].dirty THEN {blks[b].tag} ELSE {}
        BY <1>4 DEF Dirty
    <2>4. \A i, j \in 1 .. n : ls[i].tag = ls[j].tag => i = j
        <3>1. \A i \in 1 .. n : i \in 1 .. Assoc /\ blks[s[i]].valid /\ ls[i].tag = blks[s[i]].tag
            BY <1>2, <1>3 DEF LineOf
        <3> QED BY <1>2, <3>1 DEF IInv, TagsDiffer
    <2>5. CASE n < Assoc
        <3>1. ~blks[b].valid /\ m - 1 = n
            BY <1>2, <1>8, <2>5
        <3> QED BY <2>1, <2>2, <2>3, <3>1
    <2>6. CASE n = Assoc
        <3>1. blks[b].valid /\ m = n /\ n \in 1 .. n /\ ls[n].tag = blks[b].tag /\ ls[n].dirty = blks[b].dirty
            BY <1>2, <1>3, <1>8, <2>6 DEF LineOf
        <3>2. \A i \in 1 .. n : i \in 1 .. n - 1 \/ i = n
            BY <1>2
        <3>3. \A i \in 1 .. n - 1 : i \in 1 .. n /\ i # n
            BY <1>2
        <3> QED BY <2>1, <2>2, <2>3, <2>4, <3>1, <3>2, <3>3
    <2> QED BY <1>2, <2>5, <2>6
<1>17. Abstract!Miss(Lines, tag, write)
    BY <1>14, <1>15, <1>16 DEF Abstract!Miss, Abstract!At, line, kept, ls
<1> QED BY <1>4, <1>17 DEF Abstract!Next, write

LEMMA FlushAddrStep ==
    ASSUME IInv, IInv', NEW tag \in Tags, call' = <<"cache_flush_addr", tag>>, cache_flush_addr(tag)
    PROVE  Abstract!Next
<1>1. PICK n : ValidFirst(WayList, n, blks)
    BY SomeFirst
<1>2. policy' = policy
    BY DEF cache_flush_addr
<1>3. CASE Matches(tag) = {}
    <2>1. written' = {} /\ way' = way /\ blks' = blks
        BY <1>3 DEF cache_flush_addr
    <2>2. Lines' = Lines
        BY <2>1 DEF Lines, WayList
    <2>3. Abstract!At(Lines, tag) = {}
        <3>1. \A c \in Blks : ~(blks[c].valid /\ blks[c].tag = tag)
            BY <1>3, Search
        <3>2. DOMAIN Lines = 1 .. n /\ \A i \in 1 .. n : Lines[i] = LineOf(blks, WayList[i])
            BY <1>1, LinesNow
        <3>3. \A i \in 1 .. n : WayList[i] \in Blks /\ blks[WayList[i]].valid
            <4>1. n \in Nat /\ n <= Assoc /\ Assoc \in Nat /\ \A i \in 1 .. Assoc : blks[WayList[i]].valid <=> i <= n
                BY <1>1, Types DEF ValidFirst
            <4>2. \A i \in 1 .. Assoc : WayList[i] \in Blks
                BY ListedBlocks DEF IInv
            <4> QED BY <4>1, <4>2
        <3> QED BY <3>1, <3>2, <3>3 DEF Abstract!At, LineOf
    <2>4. Abstract!FlushNone(Lines, tag)
        BY <2>1, <2>2, <2>3 DEF Abstract!FlushNone
    <2> QED BY <1>2, <2>4 DEF Abstract!Next
<1>4. CASE Matches(tag) # {}
    <2> DEFINE b == FirstMatch(tag)
               s == WayList
               ls == Lines
    <2>1. b \in Blks /\ blks[b].valid /\ blks[b].tag = tag
        BY <1>4, Search
    <2>2. /\ blks' = [blks EXCEPT ![b].valid = FALSE]
          /\ way' = MoveToTail(way, b)
          /\ written' = Dirty({b})
        BY <1>4 DEF cache_flush_addr
    <2> HIDE DEF b
    <2>3. /\ \A c \in Blks : c # b => blks'[c] = blks[c]
          /\ ~blks'[b].valid
        BY <2>1, <2>2, Types
    <2>4. PICK k \in 1 .. Assoc : s[k] = b
        BY <2>1, Place
    <2>5. WayList' = TailMoved(s, k)
        <3>1. /\ way' \in Ways /\ Listed(TailMoved(WayList, k), way')
            BY <2>2, <2>4, Types, TailMove DEF IInv
        <3> QED BY <3>1, ListIs DEF WayList
    <2>6. /\ n \in Nat /\ n <= Assoc /\ Assoc \in Nat /\ k \in 1 .. n /\ k \in Nat /\ 1 <= k /\ k <= n
          /\ \A i \in 1 .. Assoc : s[i] \in Blks
          /\ \A i, j \in 1 .. Assoc : s[i] = s[j] => i = j
          /\ \A i \in 1 .. Assoc : blks[s[i]].valid <=> i <= n
        <3>1. n \in Nat /\ n <= Assoc /\ Assoc \in Nat /\ \A i \in 1 .. Assoc : blks[s[i]].valid <=> i <= n
            BY <1>1, Types DEF ValidFirst
        <3>2. /\ \A i \in 1 .. Assoc : s[i] \in Blks
              /\ \A i, j \in 1 .. Assoc : s[i] = s[j] => i = j
            BY ListedBlocks DEF IInv
        <3>3. k <= n
            BY <2>1, <2>4, <3>1
        <3> QED BY <3>1, <3>2, <3>3
    <2>7. /\ ls \in Seq(Line) /\ Len(ls) = n /\ DOMAIN ls = 1 .. n
          /\ \A i \in 1 .. n : ls[i] = LineOf(blks, s[i])
        BY <1>1, LinesNow
    <2>8. \A i \in 1 .. Assoc : WayList'[i] = IF i = Assoc THEN b ELSE IF i >= k THEN s[i + 1] ELSE s[i]
        BY <2>4, <2>5 DEF TailMoved
    <2> HIDE DEF s, ls
    <2>9. \A i \in 1 .. Assoc : i # k => s[i] # b /\ blks'[s[i]] = blks[s[i]]
        BY <2>3, <2>4, <2>6
    <2>10. ValidFirst(WayList', n - 1, blks')
        <3>1. ASSUME NEW i \in 1 .. Assoc
              PROVE  blks'[WayList'[i]].valid <=> i <= n - 1
            <4>1. CASE i = Assoc
                BY <2>3, <2>6, <2>8, <4>1
            <4>2. CASE i # Assoc /\ i >= k
                <5>1. i + 1 \in 1 .. Assoc /\ i + 1 # k
                    BY <2>6, <4>2
                <5>2. blks'[WayList'[i]].valid <=> i + 1 <= n
                    BY <2>6, <2>8, <2>9, <4>2, <5>1
                <5>3. i + 1 <= n <=> i <= n - 1
                    BY <2>6
                <5> QED BY <5>2, <5>3
            <4>3. CASE i < k
                <5>1. i # k /\ ~(i >= k) /\ i # Assoc /\ i <= n - 1 /\ i <= n
                    BY <2>6, <4>3
                <5> QED BY <2>6, <2>8, <2>9, <5>1
            <4> QED BY <2>6, <4>1, <4>2, <4>3
        <3> QED BY <2>6, <3>1 DEF ValidFirst
    <2>11. Lines' = First(WayList', n - 1, blks')
        BY <2>10, LinesNext
    <2>12. RemoveAt(ls, k) = [j \in 1 .. n - 1 |-> IF j < k THEN ls[j] ELSE ls[j + 1]]
        <3>1. ls \in Seq(Line) /\ k \in 1 .. Len(ls)
            BY <2>6, <2>7
        <3> QED BY <2>7, <3>1, RemoveAtIs
    <2>13. Lines' = RemoveAt(ls, k)
        <3>1. ASSUME NEW j \in 1 .. n - 1
              PROVE  (IF j < k THEN ls[j] ELSE ls[j + 1]) = LineOf(blks', WayList'[j])
            <4>1. j \in 1 .. n /\ j + 1 \in 1 .. n /\ j \in 1 .. Assoc /\ j + 1 \in 1 .. Assoc /\ j # Assoc
                BY <2>6
            <4>2. CASE j < k
                <5>1. j # k /\ ~(j >= k)
                    BY <2>6, <4>2
                <5> QED BY <2>7, <2>8, <2>9, <4>1, <4>2, <5>1 DEF LineOf
            <4>3. CASE j >= k
                <5>1. j + 1 # k /\ ~(j < k)
                    BY <2>6, <4>3
                <5>2. WayList'[j] = s[j + 1] /\ blks'[s[j + 1]] = blks[s[j + 1]]
                    BY <2>8, <2>9, <4>1, <4>3, <5>1
                <5> QED BY <2>7, <4>1, <5>1, <5>2 DEF LineOf
            <4> QED BY <2>6, <4>2, <4>3
        <3> QED BY <2>11, <2>12, <3>1 DEF First
    <2>14. written' = Abstract!DirtyTags(<<ls[k]>>)
        <3>1. ls[k] \in Line /\ ls[k].tag = blks[b].tag /\ ls[k].dirty = blks[b].dirty
            BY <2>4, <2>6, <2>7 DEF LineOf
        <3>2. <<ls[k]>> \in Seq(Line) /\ Len(<<ls[k]>>) = 1 /\ <<ls[k]>>[1] = ls[k]
            BY <3>1
        <3>3. Abstract!DirtyTags(<<ls[k]>>) = {<<ls[k]>>[i].tag : i \in {j \in 1 .. 1 : <<ls[k]>>[j].dirty}}
            BY <3>2, WrittenBy
        <3>4. Dirty({b}) = IF blks[b].dirty THEN {blks[b].tag} ELSE {}
            BY <2>1 DEF Dirty
        <3>5. \A i \in 1 .. 1 : i = 1
            OBVIOUS
        <3> QED BY <2>2, <3>1, <3>2, <3>3, <3>4, <3>5
    <2>15. Abstract!FlushAddr(Lines, k)
        <3>1. Abstract!RemoveAt(ls, k) = RemoveAt(ls, k)
            BY DEF Abstract!RemoveAt, RemoveAt
        <3> QED BY <2>13, <2>14, <3>1 DEF Abstract!FlushAddr, ls
    <2>16. k \in Abstract!At(Lines, tag)
        <3>1. k \in DOMAIN ls /\ ls[k].tag = tag
            BY <2>1, <2>4, <2>6, <2>7 DEF LineOf
        <3> QED BY <3>1 DEF Abstract!At, ls
    <2> QED BY <1>2, <2>15, <2>16 DEF Abstract!Next
<1> QED BY <1>3, <1>4

LEMMA FlushStep ==
    ASSUME IInv, IInv', call' = <<"cache_flush", 0>>, cache_flush
    PROVE  Abstract!Next
<1>1. PICK n : ValidFirst(WayList, n, blks)
    BY SomeFirst
<1>2. /\ policy' = policy /\ way' = way /\ written' = Dirty(ToSet(WayList))
      /\ \A b \in Blks : ~blks'[b].valid
    BY Types DEF cache_flush
<1>3. /\ Lines \in Seq(Line) /\ Len(Lines) = n
      /\ \A i \in 1 .. n : Lines[i] = LineOf(blks, WayList[i])
    BY <1>1, LinesNow
<1>4. /\ n \in Nat /\ n <= Assoc /\ Assoc \in Nat
      /\ \A i \in 1 .. Assoc : blks[WayList[i]].valid <=> i <= n
      /\ \A i \in 1 .. Assoc : WayList[i] \in Blks
    BY <1>1, Types, ListedBlocks DEF ValidFirst, IInv
<1>5. Lines' = <<>>
    <2>1. WayList' = WayList
        BY <1>2 DEF WayList
    <2>2. ValidFirst(WayList', 0, blks')
        BY <1>2, <1>4, <2>1 DEF ValidFirst
    <2>3. Lines' = First(WayList', 0, blks')
        BY <2>2, LinesNext
    <2> QED BY <2>3 DEF First
<1>6. written' = Abstract!DirtyTags(Lines)
    <2>1. Abstract!DirtyTags(Lines) = {Lines[i].tag : i \in {k \in 1 .. n : Lines[k].dirty}}
        BY <1>3, WrittenBy
    <2>2. ToSet(WayList) = Blks
        <3>1. DOMAIN WayList = 1 .. Assoc /\ \A b \in Blks : \E i \in 1 .. Assoc : WayList[i] = b
            BY DEF IInv, Listed
        <3> QED BY <1>4, <3>1 DEF ToSet
    <2>3. ASSUME NEW t \in written'
          PROVE  t \in Abstract!DirtyTags(Lines)
        <3>1. PICK b \in Blks : blks[b].valid /\ blks[b].dirty /\ t = blks[b].tag
            BY <1>2, <2>2, <2>3 DEF Dirty
        <3>2. PICK i \in 1 .. Assoc : WayList[i] = b
            BY <3>1, Place
        <3>3. i \in 1 .. n
            BY <1>4, <3>1, <3>2
        <3> QED BY <1>3, <2>1, <3>1, <3>2, <3>3 DEF LineOf
    <2>4. ASSUME NEW t \in Abstract!DirtyTags(Lines)
          PROVE  t \in written'
        <3>1. PICK i \in 1 .. n : Lines[i].dirty /\ t = Lines[i].tag
            BY <2>1, <2>4
        <3>2. i \in 1 .. Assoc /\ WayList[i] \in Blks /\ blks[WayList[i]].valid
            BY <1>4
        <3>3. blks[WayList[i]].dirty /\ t = blks[WayList[i]].tag
            BY <1>3, <3>1 DEF LineOf
        <3> QED BY <1>2, <2>2, <3>2, <3>3 DEF Dirty
    <2> QED BY <2>3, <2>4
<1> QED BY <1>2, <1>5, <1>6 DEF Abstract!Next, Abstract!Flush

\* The pointers implement the list of lines: after each call what is found, which
\* line moves, which one gives way and what is written back are LruSet's after
\* the same call, whichever way a block is found
THEOREM LruSetImplemented == Spec => ImplementsLruSet
<1>1. Init => Abstract!Init
    <2> SUFFICES ASSUME Init  PROVE Abstract!Init
        OBVIOUS
    <2>1. IInv
        BY InitIInv
    <2>2. PICK n : ValidFirst(WayList, n, blks)
        BY <2>1, SomeFirst
    <2>3. Lines = First(WayList, n, blks) /\ n \in 0 .. Assoc
        BY <2>1, <2>2, LinesNow
    <2>4. n = 0
        <3>1. 1 \in 1 .. Assoc /\ WayList[1] \in Blks
            BY <2>1, Types, ListedBlocks DEF IInv
        <3>2. ~blks[WayList[1]].valid
            BY <3>1 DEF Init
        <3> QED BY <2>2, <2>3, <3>1, <3>2, CacheSetAssumption DEF ValidFirst
    <2> QED BY <2>3, <2>4 DEF Init, Abstract!Init, First
<1>2. ASSUME IInv, IInv', [Next]_vars
      PROVE  [Abstract!Next]_Abstract!vars
    <2>1. CASE Next
        <3>1. CASE \E tag \in Tags, cmd \in {"Read", "Write"} :
                      call' = <<cmd, tag>> /\ (FastHit(tag, cmd) \/ SlowHit(tag, cmd) \/ Miss(tag, cmd))
            BY <1>2, <3>1, HitSteps, MissStep
        <3>2. CASE \E tag \in Tags : call' = <<"cache_flush_addr", tag>> /\ cache_flush_addr(tag)
            BY <1>2, <3>2, FlushAddrStep
        <3>3. CASE call' = <<"cache_flush", 0>> /\ cache_flush
            BY <1>2, <3>3, FlushStep
        <3> QED BY <2>1, <3>1, <3>2, <3>3 DEF Next
    <2>2. CASE UNCHANGED vars
        BY <2>2 DEF vars, Abstract!vars, Lines, WayList
    <2> QED BY <1>2, <2>1, <2>2
<1> QED BY <1>1, <1>2, SetInvariant, PTL DEF Spec, ImplementsLruSet, Abstract!Spec
=============================================================================
