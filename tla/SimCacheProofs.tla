--------------------------- MODULE SimCacheProofs ---------------------------
(***************************************************************************)
(* The properties of SimCache, for every hierarchy, program and size of    *)
(* the prefetchers' tables.  One instruction is a nest of calls, so the    *)
(* invariant SimInv is about any state inside one, and what a call does is *)
(* a relation between the states before and after it: Lower for a call of  *)
(* the next level, Accessed for cache_access without its prefetch, Called  *)
(* for all of it, Stepped for a part of an instruction.                    *)
(***************************************************************************)
EXTENDS SimCache, FiniteSetTheorems, SequenceTheorems, WellFoundedInduction, TLAPS

Line(x, addr) == addr \div Config[x].bsize

Configured ==
    /\ \A x \in Caches : Config[x] \in CacheConfig
    /\ Config["dl2"].bsize % Config["dl1"].bsize = 0
    /\ Config["dl2"].bsize % Config["il1"].bsize = 0

-----------------------------------------------------------------------------
(* Addresses *)

\* Quotient and remainder
LEMMA DivMod ==
    ASSUME NEW a \in Int, NEW b \in Nat \ {0}
    PROVE  /\ a \div b \in Int /\ a % b \in 0 .. b - 1
           /\ a = b * (a \div b) + (a % b)
OBVIOUS

\* are the only ones
LEMMA DivModUnique ==
    ASSUME NEW q \in Int, NEW b \in Nat \ {0}, NEW r \in 0 .. b - 1
    PROVE  (b * q + r) \div b = q /\ (b * q + r) % b = r
<1>. DEFINE a == b * q + r
            d == a \div b
            m == a % b
<1>1. a \in Int /\ d \in Int /\ m \in 0 .. b - 1 /\ a = b * d + m
  <2>1. b * q \in Int
    OBVIOUS
  <2>2. a \in Int
    BY <2>1
  <2>. QED  BY <2>2, DivMod
<1>. HIDE DEF a, d, m
<1>2. b * (q - d) = m - r /\ m - r < b /\ r - m < b
  <2>1. b * q + r = b * d + m
    BY <1>1 DEF a
  <2>2. b * (q - d) = b * q - b * d
    BY <1>1
  <2>. QED  BY <1>1, <2>1, <2>2
<1>3. q - d < 1
  <2>1. q - d >= 1 => b * (q - d) >= b
    BY <1>1
  <2>. QED  BY <1>1, <1>2, <2>1
<1>4. q - d > -1
  <2>1. q - d <= -1 => b * (q - d) <= -b
    BY <1>1
  <2>. QED  BY <1>1, <1>2, <2>1
<1>5. q = d
  BY <1>1, <1>3, <1>4
<1>6. r = m
  BY <1>1, <1>5 DEF a
<1>. QED  BY <1>5, <1>6 DEF a, d, m

\* The quotient, as an operator that facts about it can be found by
Div(a, b) == a \div b

\* Dividing twice is dividing by the product
LEMMA DivDiv ==
    ASSUME NEW a \in Int, NEW b \in Nat \ {0}, NEW n \in Nat \ {0}
    PROVE  Div(a, b * n) = Div(Div(a, b), n)
<1>. DEFINE q == a \div b
            r == a % b
            p == q \div n
            s == q % n
<1>1. q \in Int /\ r \in 0 .. b - 1 /\ a = b * q + r
  BY DivMod
<1>2. p \in Int /\ s \in 0 .. n - 1 /\ q = n * p + s
  <2>. HIDE DEF q
  <2>. QED  BY <1>1, DivMod
<1>. HIDE DEF q, r, p, s
<1>3. b * n \in Nat \ {0}
  OBVIOUS
<1>4. b * s \in Nat /\ b * s <= b * (n - 1) /\ b * (n - 1) = b * n - b
  BY <1>2
<1>5. b * s + r \in 0 .. b * n - 1
  BY <1>1, <1>3, <1>4
<1>6. b * (n * p + s) = (b * n) * p + b * s
  <2>1. b * (n * p + s) = b * (n * p) + b * s
    BY <1>2
  <2>2. b * (n * p) = (b * n) * p
    BY <1>2
  <2>. QED  BY <2>1, <2>2
<1>7. a = (b * n) * p + (b * s + r)
  <2>1. (b * n) * p \in Int
    BY <1>2, <1>3
  <2>. QED  BY <1>1, <1>2, <1>4, <1>6, <2>1
<1>8. a \div (b * n) = p
  <2>. DEFINE bn == b * n
              rr == b * s + r
  <2>1. bn \in Nat \ {0} /\ rr \in 0 .. bn - 1 /\ a = bn * p + rr
    BY <1>3, <1>5, <1>7
  <2>. HIDE DEF bn, rr
  <2>2. a \div bn = p
    BY <1>2, <2>1, DivModUnique
  <2>. QED  BY <2>2 DEF bn
<1>. QED  BY <1>8 DEF p, q, Div

\* The shape of a cache, and where an address belongs in it
LEMMA Geometry ==
    ASSUME Configured, NEW x \in Caches
    PROVE  /\ Config[x].bsize \in Nat \ {0}
           /\ Config[x].nsets \in Nat \ {0}
           /\ Config[x].assoc \in Nat \ {0}
           /\ 1 \in Ways(x) /\ Config[x].assoc \in Ways(x)
BY DEF Configured, CacheConfig, Ways

\* The parts of an address are numbers, and its set exists
LEMMA Places ==
    ASSUME Configured, NEW x \in Caches, NEW addr \in Int
    PROVE  /\ Line(x, addr) \in Int
           /\ CACHE_SET(x, addr) \in Sets(x)
           /\ CACHE_SET(x, addr) = Line(x, addr) % Config[x].nsets
           /\ CACHE_TAG(x, addr) \in Int
           /\ CACHE_TAG(x, addr) = Line(x, addr) \div Config[x].nsets
           /\ CACHE_TAGSET(x, addr) \in Int
           /\ CACHE_TAGSET(x, addr) = Config[x].bsize * Line(x, addr)
<1>. DEFINE b == Config[x].bsize
            n == Config[x].nsets
            l == Line(x, addr)
<1>1. b \in Nat \ {0} /\ n \in Nat \ {0}
  BY Geometry
<1>. HIDE DEF b, n
<1>2. l \in Int /\ addr % b \in 0 .. b - 1 /\ addr = b * l + (addr % b)
  BY <1>1, DivMod DEF Line, b
<1>3. addr \div (b * n) = l \div n
  <2>1. Div(addr, b * n) = Div(Div(addr, b), n)
    BY <1>1, DivDiv
  <2>. QED  BY <2>1 DEF Div, Line, b
<1>. HIDE DEF l
<1>4. l \div n \in Int /\ l % n \in 0 .. n - 1
  BY <1>1, <1>2, DivMod
<1>5. CACHE_SET(x, addr) = l % n /\ CACHE_TAG(x, addr) = l \div n
  BY <1>3 DEF CACHE_SET, CACHE_TAG, l, b, n, Line
<1>6. CACHE_TAGSET(x, addr) = b * l /\ b * l \in Int
  <2>1. CACHE_TAGSET(x, addr) = addr - (addr % b)
    BY DEF CACHE_TAGSET, b
  <2>2. b * l \in Int
    BY <1>1, <1>2
  <2>3. \A m \in Int : b * l + m - m = b * l
    BY <2>2
  <2>. QED  BY <1>2, <2>1, <2>2
<1>7. Sets(x) = 0 .. n - 1
  BY DEF Sets, n
<1>. QED  BY <1>2, <1>4, <1>5, <1>6, <1>7 DEF l, b, n

\* A block has one place, and a place with a tag is one block
LEMMA SamePlace ==
    ASSUME Configured, NEW x \in Caches, NEW a \in Int, NEW c \in Int
    PROVE  /\ CACHE_TAGSET(x, a) = CACHE_TAGSET(x, c) <=> Line(x, a) = Line(x, c)
           /\ CACHE_SET(x, a) = CACHE_SET(x, c) /\ CACHE_TAG(x, a) = CACHE_TAG(x, c)
                 <=> Line(x, a) = Line(x, c)
<1>. DEFINE b == Config[x].bsize
            n == Config[x].nsets
            l == Line(x, a)
            m == Line(x, c)
<1>1. b \in Nat \ {0} /\ n \in Nat \ {0}
  BY Geometry
<1>2. /\ l \in Int /\ m \in Int
      /\ CACHE_TAGSET(x, a) = b * l /\ CACHE_TAGSET(x, c) = b * m
      /\ CACHE_SET(x, a) = l % n /\ CACHE_SET(x, c) = m % n
      /\ CACHE_TAG(x, a) = l \div n /\ CACHE_TAG(x, c) = m \div n
  BY Places
<1>. HIDE DEF b, n, l, m
<1>3. b * l = b * m => l = m
  <2>1. ASSUME b * l = b * m, l < m  PROVE FALSE
    <3>1. b * m = b * l + b * (m - l) /\ b * (m - l) >= b
      BY <1>1, <1>2, <2>1
    <3>2. b * l \in Int
      BY <1>1, <1>2
    <3>. QED  BY <1>1, <1>2, <2>1, <3>1, <3>2
  <2>2. ASSUME b * l = b * m, m < l  PROVE FALSE
    <3>1. b * l = b * m + b * (l - m) /\ b * (l - m) >= b
      BY <1>1, <1>2, <2>2
    <3>2. b * m \in Int
      BY <1>1, <1>2
    <3>. QED  BY <1>1, <1>2, <2>2, <3>1, <3>2
  <2>. QED  BY <1>2, <2>1, <2>2
<1>4. l = n * (l \div n) + (l % n) /\ m = n * (m \div n) + (m % n)
  BY <1>1, <1>2, DivMod
<1>. QED  BY <1>2, <1>3, <1>4 DEF l, m

\* The address of a block is in the block
LEMMA OwnPlace ==
    ASSUME Configured, NEW x \in Caches, NEW a \in Int
    PROVE  /\ Line(x, CACHE_TAGSET(x, a)) = Line(x, a)
           /\ CACHE_TAGSET(x, CACHE_TAGSET(x, a)) = CACHE_TAGSET(x, a)
           /\ CACHE_SET(x, CACHE_TAGSET(x, a)) = CACHE_SET(x, a)
           /\ CACHE_TAG(x, CACHE_TAGSET(x, a)) = CACHE_TAG(x, a)
<1>. DEFINE b == Config[x].bsize
            l == Line(x, a)
            d == CACHE_TAGSET(x, a)
<1>1. b \in Nat \ {0} /\ l \in Int /\ d \in Int /\ d = b * l
  BY Geometry, Places
<1>2. Line(x, d) = l
  <2>. HIDE DEF b, l, d
  <2>1. (b * l + 0) \div b = l
    BY <1>1, DivModUnique
  <2>2. b * l + 0 = d
    BY <1>1
  <2>. QED  BY <2>1, <2>2 DEF Line, b
<1>. HIDE DEF d
<1>. QED  BY <1>1, <1>2, SamePlace, d = CACHE_TAGSET(x, a) DEF d

\* The address made of a tag and a set belongs to that place, and so do the
\* words of the block, and no others
LEMMA MadeAddress ==
    ASSUME Configured, NEW x \in Caches, NEW tag \in Int, NEW set \in Sets(x)
    PROVE  /\ CACHE_MK_BADDR(x, tag, set) \in Int
           /\ \A w \in Int :
                 /\ w \in WordsOf(x, CACHE_MK_BADDR(x, tag, set))
                       <=> CACHE_SET(x, w) = set /\ CACHE_TAG(x, w) = tag
                 /\ w \in WordsOf(x, CACHE_MK_BADDR(x, tag, set))
                       <=> Line(x, w) = Line(x, CACHE_MK_BADDR(x, tag, set))
<1>. DEFINE b == Config[x].bsize
            n == Config[x].nsets
            l == n * tag + set
            d == CACHE_MK_BADDR(x, tag, set)
<1>1. b \in Nat \ {0} /\ n \in Nat \ {0} /\ Sets(x) = 0 .. n - 1
  BY Geometry DEF Sets
<1>2. l \in Int /\ l \div n = tag /\ l % n = set
  <2>. HIDE DEF n
  <2>1. n * tag \in Int /\ set \in 0 .. n - 1
    BY <1>1
  <2>2. (n * tag + set) \div n = tag /\ (n * tag + set) % n = set
    BY <1>1, <2>1, DivModUnique
  <2>. QED  BY <1>1, <2>1, <2>2
<1>3. d = b * l
  <2>1. d = (tag * n + set) * b
    BY DEF CACHE_MK_BADDR
  <2>2. tag * n = n * tag
    BY <1>1
  <2>3. l * b = b * l
    <3>. HIDE DEF l, b
    <3>. QED  BY <1>1, <1>2
  <2>. QED  BY <2>1, <2>2, <2>3
<1>4. d \in Int
  <2>. HIDE DEF d, l, b
  <2>. QED  BY <1>1, <1>2, <1>3
<1>5. WordsOf(x, d) = d .. d + b - 1
  BY DEF WordsOf
<1>. HIDE DEF d, l, b, n
<1>6. Line(x, d) = l
  <2>1. (b * l + 0) \div b = l
    BY <1>1, <1>2, DivModUnique
  <2>2. b * l + 0 = d
    BY <1>3, <1>4
  <2>. QED  BY <2>1, <2>2 DEF Line, b
<1>7. ASSUME NEW w \in Int
      PROVE  /\ w \in WordsOf(x, d) <=> Line(x, w) = l
             /\ Line(x, w) = l <=> CACHE_SET(x, w) = set /\ CACHE_TAG(x, w) = tag
  <2>1. ASSUME w \in WordsOf(x, d)  PROVE Line(x, w) = l
    <3>1. w - d \in 0 .. b - 1 /\ w = b * l + (w - d)
      BY <1>1, <1>3, <1>4, <1>5, <2>1
    <3>. DEFINE r == w - d
    <3>. HIDE DEF r
    <3>2. (b * l + r) \div b = l
      BY <1>1, <1>2, <3>1, DivModUnique DEF r
    <3>. QED  BY <3>1, <3>2 DEF Line, b, r
  <2>2. ASSUME Line(x, w) = l  PROVE w \in WordsOf(x, d)
    <3>1. w % b \in 0 .. b - 1 /\ w = b * l + (w % b)
      BY <1>1, <2>2, DivMod DEF Line, b
    <3>. QED  BY <1>1, <1>3, <1>4, <1>5, <3>1
  <2>3. CACHE_SET(x, w) = Line(x, w) % n /\ CACHE_TAG(x, w) = Line(x, w) \div n /\ Line(x, w) \in Int
    BY Places DEF n
  <2>4. ASSUME CACHE_SET(x, w) = set, CACHE_TAG(x, w) = tag  PROVE Line(x, w) = l
    <3>1. Line(x, w) = n * (Line(x, w) \div n) + (Line(x, w) % n)
      BY <1>1, <2>3, DivMod
    <3>. QED  BY <2>3, <2>4, <3>1 DEF l
  <2>. QED  BY <1>2, <2>1, <2>2, <2>3, <2>4
<1>. QED  BY <1>4, <1>6, <1>7 DEF d

\* A block of the first level lies within one of the second
LEMMA BlockWithin ==
    ASSUME Configured, SimCacheAssumption, NEW x \in {"il1", "dl1"}, NEW a \in Int, NEW c \in Int,
           Line(x, a) = Line(x, c)
    PROVE  Line("dl2", a) = Line("dl2", c)
<1>. DEFINE b == Config[x].bsize
            m == Config["dl2"].bsize
            k == m \div b
<1>1. b \in Nat \ {0} /\ m \in Nat \ {0} /\ m % b = 0
  BY Geometry DEF Configured, SimCacheAssumption
<1>. HIDE DEF b, m
<1>2. k \in Int /\ m = b * k
  <2>1. k \in Int /\ m = b * k + (m % b)
    BY <1>1, DivMod
  <2>. HIDE DEF k
  <2>2. b * k \in Int
    BY <1>1, <2>1
  <2>. QED  BY <1>1, <2>1, <2>2
<1>. HIDE DEF k
<1>3. k \in Nat \ {0}
  <2>1. k <= 0 => b * k <= 0
    BY <1>1, <1>2
  <2>. QED  BY <1>1, <1>2, <2>1
<1>4. Div(a, m) = Div(Div(a, b), k) /\ Div(c, m) = Div(Div(c, b), k)
  <2>1. Div(a, b * k) = Div(Div(a, b), k) /\ Div(c, b * k) = Div(Div(c, b), k)
    BY <1>1, <1>3, DivDiv
  <2>. QED  BY <1>2, <2>1
<1>. QED  BY <1>4 DEF Div, Line, b, m

-----------------------------------------------------------------------------
(* One cache: c is what sim.cache has for x *)

Block == [tag : Int, valid : BOOLEAN, dirty : BOOLEAN]

CacheType(x) ==
    [blks : [Sets(x) -> [Ways(x) -> Block]], way : [Sets(x) -> [Ways(x) -> Ways(x)]],
     last_tagset : Int, last_blk : {NULL} \union (Sets(x) \X Ways(x))]

\* The blocks of c that hold an address
Here(x, c, addr) ==
    {i \in Ways(x) : /\ c.blks[CACHE_SET(x, addr)][i].valid
                     /\ c.blks[CACHE_SET(x, addr)][i].tag = CACHE_TAG(x, addr)}

\* The list names every block of the set once
InOrder(x, order) ==
    /\ \A j, k \in Ways(x) : order[j] = order[k] => j = k
    /\ \A i \in Ways(x) : \E j \in Ways(x) : order[j] = i

\* No two blocks of a set have the same tag
Unique(x, c) ==
    \A s \in Sets(x) : \A i, j \in Ways(x) :
        /\ c.blks[s][i].valid /\ c.blks[s][j].valid
        /\ c.blks[s][i].tag = c.blks[s][j].tag
        => i = j

\* The block of the last hit is where a search would find it, in front under LRU
LastHit(x, c) ==
    c.last_blk # NULL =>
        /\ c.last_tagset = CACHE_TAGSET(x, c.last_tagset)
        /\ c.last_blk[1] = CACHE_SET(x, c.last_tagset)
        /\ c.last_blk[2] \in Here(x, c, c.last_tagset)
        /\ Config[x].policy = "LRU" => c.way[c.last_blk[1]][1] = c.last_blk[2]

CacheOK(x, c) ==
    /\ c \in CacheType(x)
    /\ \A s \in Sets(x) : InOrder(x, c.way[s])
    /\ Unique(x, c)
    /\ LastHit(x, c)

\* What the parts of an access do to the cache
Dirtied(c, s, i, cmd) == IF cmd = "Write" THEN [c EXCEPT !.blks[s][i].dirty = TRUE] ELSE c

Touched(x, c, addr, i) ==
    [c EXCEPT !.way[CACHE_SET(x, addr)] = IF Config[x].policy = "LRU" THEN ToHead(@, i) ELSE @,
              !.last_tagset = CACHE_TAGSET(x, addr),
              !.last_blk = <<CACHE_SET(x, addr), i>>]

Freed(x, c, s, i) ==
    [c EXCEPT !.way[s] = IF Config[x].policy = "Random" THEN @ ELSE ToHead(@, i),
              !.last_tagset = 0,
              !.last_blk = NULL]

Named(x, c, addr, i) ==
    [c EXCEPT !.blks[CACHE_SET(x, addr)][i] =
        [tag |-> CACHE_TAG(x, addr), valid |-> TRUE, dirty |-> FALSE]]

\* Moving a block to the front leaves the list whole
LEMMA ToHeadOrder ==
    ASSUME Configured, NEW x \in Caches, NEW order \in [Ways(x) -> Ways(x)], InOrder(x, order),
           NEW i \in Ways(x)
    PROVE  /\ ToHead(order, i) \in [Ways(x) -> Ways(x)]
           /\ InOrder(x, ToHead(order, i))
           /\ ToHead(order, i)[1] = i
<1>. DEFINE place == CHOOSE n \in DOMAIN order : order[n] = i
            n == Config[x].assoc
            new == [k \in Ways(x) |-> IF k = 1 THEN i ELSE IF k <= place THEN order[k - 1] ELSE order[k]]
<1>1. n \in Nat \ {0} /\ Ways(x) = 1 .. n
  BY Geometry DEF Ways
<1>2. place \in Ways(x) /\ order[place] = i
  <2>1. \E j \in Ways(x) : order[j] = i
    BY DEF InOrder
  <2>2. DOMAIN order = Ways(x)
    OBVIOUS
  <2>. QED  BY <2>1, <2>2
<1>3. ToHead(order, i) = new
  BY DEF ToHead
<1>. HIDE DEF place, n
<1>a. /\ order \in [1 .. n -> 1 .. n] /\ i \in 1 .. n /\ place \in 1 .. n
      /\ \A j, k \in 1 .. n : order[j] = order[k] => j = k
      /\ \A h \in 1 .. n : \E j \in 1 .. n : order[j] = h
  BY <1>1, <1>2 DEF InOrder
<1>b. \A k \in 1 .. n : new[k] = IF k = 1 THEN i ELSE IF k <= place THEN order[k - 1] ELSE order[k]
  BY <1>1
<1>4. new \in [Ways(x) -> Ways(x)] /\ new[1] = i
  BY SMTT(30), <1>1, <1>2
<1>. HIDE DEF new
<1>5. ASSUME NEW j \in 1 .. n, NEW k \in 1 .. n, new[j] = new[k]  PROVE j = k
  <2>1. n \in Nat /\ place \in Int /\ j \in Int /\ k \in Int
    BY <1>1, <1>a
  <2>2. 1 \in 1 .. n /\ new[1] = i
    BY <1>1, <1>4
  <2>6. order[place] = i
    BY <1>2
  <2>7. \A m \in 1 .. n : order[m] = i => m = place
    BY <1>a, <2>6
  <2>. DEFINE old(m) == IF m <= place THEN m - 1 ELSE m
  <2>8. ASSUME NEW m \in 1 .. n, m # 1
        PROVE  old(m) \in 1 .. n /\ old(m) # place /\ new[m] = order[old(m)]
    <3>1. CASE m <= place
      BY <1>b, <2>1, <2>8, <3>1
    <3>2. CASE ~(m <= place)
      BY <1>b, <2>1, <2>8, <3>2
    <3>. QED  BY <3>1, <3>2
  <2>9. \A m \in 1 .. n : m # 1 => new[m] # i
    BY <2>7, <2>8
  <2>10. CASE j = 1 \/ k = 1
    BY <1>5, <2>2, <2>9, <2>10
  <2>11. CASE j # 1 /\ k # 1
    <3>1. old(j) \in 1 .. n /\ old(k) \in 1 .. n /\ order[old(j)] = order[old(k)]
      BY <1>5, <2>8, <2>11
    <3>2. old(j) = old(k)
      <4>. HIDE DEF old
      <4>. QED  BY <1>a, <3>1
    <3>. QED  BY <2>1, <3>2
  <2>. QED  BY <2>10, <2>11
<1>6. ASSUME NEW h \in 1 .. n  PROVE \E j \in 1 .. n : new[j] = h
  <2>1. PICK k \in 1 .. n : order[k] = h
    BY <1>a
  <2>2. CASE k = place
    <3>1. 1 \in 1 .. n /\ new[1] = h
      BY <1>1, <1>2, <1>4, <2>1, <2>2
    <3>. QED  BY <3>1
  <2>3. CASE k < place
    <3>1. k + 1 \in 1 .. n /\ k + 1 # 1 /\ k + 1 <= place /\ k + 1 - 1 = k
      BY <1>1, <1>a, <2>3
    <3>2. new[k + 1] = order[k + 1 - 1]
      BY <1>b, <3>1
    <3>. QED  BY <2>1, <3>1, <3>2
  <2>4. CASE k > place
    <3>1. k # 1 /\ ~(k <= place)
      BY <1>1, <1>a, <2>4
    <3>2. new[k] = order[k]
      BY <1>b, <3>1
    <3>. QED  BY <2>1, <3>2
  <2>. QED  BY <1>a, <2>2, <2>3, <2>4
<1>. QED  BY <1>1, <1>3, <1>4, <1>5, <1>6 DEF InOrder

\* Marking a block dirty does nothing else
LEMMA DirtiedOK ==
    ASSUME Configured, NEW x \in Caches, NEW c, CacheOK(x, c), NEW s \in Sets(x), NEW i \in Ways(x), NEW cmd
    PROVE  LET d == Dirtied(c, s, i, cmd)
           IN  /\ CacheOK(x, d)
               /\ \A r \in Sets(x), j \in Ways(x) :
                     /\ d.blks[r][j].valid = c.blks[r][j].valid
                     /\ d.blks[r][j].tag = c.blks[r][j].tag
                     /\ d.blks[r][j].dirty = (c.blks[r][j].dirty \/ (cmd = "Write" /\ r = s /\ j = i))
               /\ d.way = c.way
               /\ d.last_tagset = c.last_tagset /\ d.last_blk = c.last_blk
<1>. DEFINE d == Dirtied(c, s, i, cmd)
<1>1. c \in CacheType(x)
  BY DEF CacheOK
<1>2. CASE cmd # "Write"
  BY <1>1, <1>2 DEF Dirtied, CacheType, Block
<1>3. CASE cmd = "Write"
  <2>1. d = [c EXCEPT !.blks[s][i].dirty = TRUE]
    BY <1>3 DEF Dirtied
  <2>. HIDE DEF d
  <2>a. /\ d \in CacheType(x) /\ d.way = c.way
        /\ d.last_tagset = c.last_tagset /\ d.last_blk = c.last_blk
    <3>1. d = [c EXCEPT !.blks = [c.blks EXCEPT ![s] = [c.blks[s] EXCEPT ![i] = [c.blks[s][i] EXCEPT !.dirty = TRUE]]]]
      BY <1>1, <2>1 DEF CacheType
    <3>2. c.blks[s][i] \in Block
      BY <1>1 DEF CacheType
    <3>3. [c.blks[s][i] EXCEPT !.dirty = TRUE] \in Block
      BY <3>2 DEF Block
    <3>. QED  BY <1>1, <3>1, <3>3 DEF CacheType
  <2>b. ASSUME NEW r \in Sets(x), NEW j \in Ways(x)
        PROVE  /\ d.blks[r][j].valid = c.blks[r][j].valid
               /\ d.blks[r][j].tag = c.blks[r][j].tag
               /\ d.blks[r][j].dirty = (c.blks[r][j].dirty \/ (r = s /\ j = i))
    <3>1. c.blks[r][j] \in Block
      BY <1>1 DEF CacheType
    <3>2. CASE r = s /\ j = i
      <4>1. d.blks[r][j] = [c.blks[r][j] EXCEPT !.dirty = TRUE]
        BY <1>1, <2>1, <3>2 DEF CacheType
      <4>. QED  BY <3>1, <3>2, <4>1 DEF Block
    <3>3. CASE ~(r = s /\ j = i)
      <4>1. d.blks[r][j] = c.blks[r][j]
        BY <1>1, <2>1, <3>3 DEF CacheType
      <4>. QED  BY <3>1, <3>3, <4>1 DEF Block
    <3>. QED  BY <3>2, <3>3
  <2>2. /\ d \in CacheType(x) /\ d.way = c.way
        /\ d.last_tagset = c.last_tagset /\ d.last_blk = c.last_blk
        /\ \A r \in Sets(x), j \in Ways(x) :
              /\ d.blks[r][j].valid = c.blks[r][j].valid
              /\ d.blks[r][j].tag = c.blks[r][j].tag
              /\ d.blks[r][j].dirty = (c.blks[r][j].dirty \/ (r = s /\ j = i))
    BY <2>a, <2>b
  <2>3. Unique(x, d)
    BY <2>2 DEF CacheOK, Unique
  <2>4. c.last_tagset \in Int
    BY <1>1 DEF CacheType
  <2>5. Here(x, d, c.last_tagset) = Here(x, c, c.last_tagset)
    <3>1. CACHE_SET(x, c.last_tagset) \in Sets(x)
      BY <2>4, Places
    <3>. QED  BY <2>2, <3>1 DEF Here
  <2>6. LastHit(x, d)
    BY <2>2, <2>5 DEF CacheOK, LastHit
  <2>7. CacheOK(x, d)
    BY <2>2, <2>3, <2>6 DEF CacheOK
  <2>. QED  BY <1>3, <2>2, <2>7 DEF d
<1>. QED  BY <1>2, <1>3

\* A hit moves the block to the front, or leaves the order, and remembers it
LEMMA TouchedOK ==
    ASSUME Configured, NEW x \in Caches, NEW c, CacheOK(x, c), NEW addr \in Int, NEW i \in Here(x, c, addr)
    PROVE  LET d == Touched(x, c, addr, i)
           IN  /\ CacheOK(x, d) /\ d.blks = c.blks
               /\ Config[x].policy = "LRU" => d.way[CACHE_SET(x, addr)][1] = i
<1>. DEFINE d == Touched(x, c, addr, i)
            s == CACHE_SET(x, addr)
            t == CACHE_TAGSET(x, addr)
            w == IF Config[x].policy = "LRU" THEN ToHead(c.way[s], i) ELSE c.way[s]
<1>1. c \in CacheType(x) /\ s \in Sets(x) /\ i \in Ways(x) /\ t \in Int /\ InOrder(x, c.way[s])
  BY Places DEF CacheOK, Here
<1>2. /\ w \in [Ways(x) -> Ways(x)] /\ InOrder(x, w)
      /\ Config[x].policy = "LRU" => w[1] = i
  <2>1. c.way[s] \in [Ways(x) -> Ways(x)]
    BY <1>1 DEF CacheType
  <2>. HIDE DEF s
  <2>. QED  BY <1>1, <2>1, ToHeadOrder
<1>3. d = [c EXCEPT !.way[s] = w, !.last_tagset = t, !.last_blk = <<s, i>>]
  BY <1>1 DEF Touched, CacheType
<1>. HIDE DEF d, w
<1>4. /\ d \in CacheType(x) /\ d.blks = c.blks
      /\ d.way = [c.way EXCEPT ![s] = w] /\ d.last_tagset = t /\ d.last_blk = <<s, i>>
  BY <1>1, <1>2, <1>3 DEF CacheType
<1>5. d.way[s] = w /\ \A r \in Sets(x) : r # s => d.way[r] = c.way[r]
  BY <1>1, <1>4 DEF CacheType
<1>6. \A r \in Sets(x) : InOrder(x, d.way[r])
  BY <1>2, <1>5 DEF CacheOK
<1>7. Unique(x, d)
  BY <1>4 DEF CacheOK, Unique
<1>8. Here(x, d, t) = Here(x, c, addr) /\ CACHE_SET(x, t) = s /\ CACHE_TAGSET(x, t) = t
  BY <1>4, OwnPlace DEF Here
<1>9. LastHit(x, d)
  BY <1>2, <1>4, <1>5, <1>8 DEF LastHit
<1>. QED  BY <1>2, <1>4, <1>5, <1>6, <1>7, <1>9 DEF CacheOK, d

\* The victim goes to the front, or stays where it is, and the last hit is forgotten
LEMMA FreedOK ==
    ASSUME Configured, NEW x \in Caches, NEW c, CacheOK(x, c), NEW s \in Sets(x), NEW i \in Ways(x)
    PROVE  LET d == Freed(x, c, s, i)
           IN  /\ CacheOK(x, d) /\ d.blks = c.blks /\ d.last_blk = NULL
               /\ Config[x].policy = "LRU" => d.way[s][1] = i
               /\ \A r \in Sets(x) : r # s => d.way[r] = c.way[r]
<1>. DEFINE d == Freed(x, c, s, i)
            w == IF Config[x].policy = "Random" THEN c.way[s] ELSE ToHead(c.way[s], i)
<1>1. c \in CacheType(x) /\ InOrder(x, c.way[s])
  BY DEF CacheOK
<1>2. /\ w \in [Ways(x) -> Ways(x)] /\ InOrder(x, w)
      /\ Config[x].policy = "LRU" => w[1] = i
  <2>1. c.way[s] \in [Ways(x) -> Ways(x)]
    BY <1>1 DEF CacheType
  <2>. QED  BY <1>1, <2>1, ToHeadOrder
<1>3. d = [c EXCEPT !.way[s] = w, !.last_tagset = 0, !.last_blk = NULL]
  BY <1>1 DEF Freed, CacheType
<1>. HIDE DEF d, w
<1>4. /\ d \in CacheType(x) /\ d.blks = c.blks
      /\ d.way = [c.way EXCEPT ![s] = w] /\ d.last_blk = NULL
  <2>1. d = [blks |-> c.blks, way |-> [c.way EXCEPT ![s] = w], last_tagset |-> 0, last_blk |-> NULL]
    BY <1>1, <1>3 DEF CacheType
  <2>2. [c.way EXCEPT ![s] = w] \in [Sets(x) -> [Ways(x) -> Ways(x)]]
    BY <1>1, <1>2 DEF CacheType
  <2>3. NULL \in {NULL} \union (Sets(x) \X Ways(x))
    OBVIOUS
  <2>. QED  BY <1>1, <2>1, <2>2, <2>3 DEF CacheType
<1>5. d.way[s] = w /\ \A r \in Sets(x) : r # s => d.way[r] = c.way[r]
  BY <1>1, <1>4 DEF CacheType
<1>6. \A r \in Sets(x) : InOrder(x, d.way[r])
  BY <1>2, <1>5 DEF CacheOK
<1>7. Unique(x, d)
  BY <1>4 DEF CacheOK, Unique
<1>8. LastHit(x, d)
  BY <1>4 DEF LastHit
<1>. QED  BY <1>2, <1>4, <1>5, <1>6, <1>7, <1>8 DEF CacheOK, d

\* A block is named after an address that no block of the set holds
LEMMA NamedOK ==
    ASSUME Configured, NEW x \in Caches, NEW c, CacheOK(x, c), c.last_blk = NULL,
           NEW addr \in Int, Here(x, c, addr) = {}, NEW i \in Ways(x)
    PROVE  LET d == Named(x, c, addr, i)
           IN  /\ CacheOK(x, d) /\ d.way = c.way /\ d.last_blk = NULL
               /\ d.blks[CACHE_SET(x, addr)][i] = [tag |-> CACHE_TAG(x, addr), valid |-> TRUE, dirty |-> FALSE]
               /\ \A r \in Sets(x), j \in Ways(x) :
                     ~(r = CACHE_SET(x, addr) /\ j = i) => d.blks[r][j] = c.blks[r][j]
<1>. DEFINE d == Named(x, c, addr, i)
            s == CACHE_SET(x, addr)
            b == [tag |-> CACHE_TAG(x, addr), valid |-> TRUE, dirty |-> FALSE]
<1>1. c \in CacheType(x) /\ s \in Sets(x) /\ b \in Block /\ b.valid /\ b.tag = CACHE_TAG(x, addr)
  BY Places DEF CacheOK, Block
<1>2. d = [c EXCEPT !.blks = [c.blks EXCEPT ![s] = [c.blks[s] EXCEPT ![i] = b]]]
  BY <1>1 DEF Named, CacheType
<1>. HIDE DEF d, b, s
<1>3. /\ d \in CacheType(x) /\ d.way = c.way /\ d.last_blk = NULL
      /\ d.blks = [c.blks EXCEPT ![s] = [c.blks[s] EXCEPT ![i] = b]]
  BY <1>1, <1>2 DEF CacheType
<1>4. d.blks[s][i] = b
  BY <1>1, <1>3 DEF CacheType
<1>5. ASSUME NEW r \in Sets(x), NEW j \in Ways(x), ~(r = s /\ j = i)
      PROVE  d.blks[r][j] = c.blks[r][j]
  BY <1>1, <1>3, <1>5 DEF CacheType
<1>6. \A j \in Ways(x) : c.blks[s][j].valid => c.blks[s][j].tag # b.tag
  BY <1>1 DEF Here, s
<1>7. Unique(x, d)
  <2>. SUFFICES ASSUME NEW r \in Sets(x), NEW j \in Ways(x), NEW k \in Ways(x),
                       d.blks[r][j].valid, d.blks[r][k].valid, d.blks[r][j].tag = d.blks[r][k].tag
                PROVE  j = k
    BY DEF Unique
  <2>1. CASE r # s
    BY <1>5, <2>1 DEF CacheOK, Unique
  <2>2. CASE r = s /\ j = i /\ k # i
    BY <1>4, <1>5, <1>6, <2>2
  <2>3. CASE r = s /\ k = i /\ j # i
    BY <1>4, <1>5, <1>6, <2>3
  <2>4. CASE r = s /\ k # i /\ j # i
    BY <1>5, <2>4 DEF CacheOK, Unique
  <2>. QED  BY <2>1, <2>2, <2>3, <2>4
<1>8. LastHit(x, d)
  BY <1>3 DEF LastHit
<1>. QED  BY <1>3, <1>4, <1>5, <1>7, <1>8 DEF CacheOK, d, s, b

Invalidated(c, s, i) == [c EXCEPT !.blks[s][i].valid = FALSE]

Forgotten(c) == [c EXCEPT !.last_tagset = 0, !.last_blk = NULL]

\* A flush invalidates blocks of a cache that has forgotten its last hit
LEMMA InvalidatedOK ==
    ASSUME Configured, NEW x \in Caches, NEW c, CacheOK(x, c), c.last_blk = NULL,
           NEW s \in Sets(x), NEW i \in Ways(x)
    PROVE  LET d == Invalidated(c, s, i)
           IN  /\ CacheOK(x, d) /\ d.last_blk = NULL /\ d.way = c.way
               /\ ~d.blks[s][i].valid
               /\ \A r \in Sets(x), j \in Ways(x) : ~(r = s /\ j = i) => d.blks[r][j] = c.blks[r][j]
<1>. DEFINE d == Invalidated(c, s, i)
            b == [c.blks[s][i] EXCEPT !.valid = FALSE]
<1>1. c \in CacheType(x)
  BY DEF CacheOK
<1>2. b \in Block /\ ~b.valid
  <2>1. c.blks[s][i] \in Block
    BY <1>1 DEF CacheType
  <2>. QED  BY <2>1 DEF Block
<1>3. d = [c EXCEPT !.blks = [c.blks EXCEPT ![s] = [c.blks[s] EXCEPT ![i] = b]]]
  BY <1>1 DEF Invalidated, CacheType
<1>. HIDE DEF d, b
<1>4. /\ d \in CacheType(x) /\ d.way = c.way /\ d.last_blk = NULL
      /\ d.blks = [c.blks EXCEPT ![s] = [c.blks[s] EXCEPT ![i] = b]]
  BY <1>1, <1>2, <1>3 DEF CacheType
<1>5. d.blks[s][i] = b
  BY <1>1, <1>4 DEF CacheType
<1>6. ASSUME NEW r \in Sets(x), NEW j \in Ways(x), ~(r = s /\ j = i)
      PROVE  d.blks[r][j] = c.blks[r][j]
  BY <1>1, <1>4, <1>6 DEF CacheType
<1>7. Unique(x, d)
  BY <1>2, <1>5, <1>6 DEF CacheOK, Unique
<1>8. LastHit(x, d)
  BY <1>4 DEF LastHit
<1>. QED  BY <1>2, <1>4, <1>5, <1>6, <1>7, <1>8 DEF CacheOK, d

\* A cache that forgets its last hit is none the worse
LEMMA ForgottenOK ==
    ASSUME NEW x \in Caches, NEW c, CacheOK(x, c)
    PROVE  LET d == Forgotten(c)
           IN  CacheOK(x, d) /\ d.last_blk = NULL /\ d.blks = c.blks
<1>. DEFINE d == Forgotten(c)
<1>1. c \in CacheType(x)
  BY DEF CacheOK
<1>2. d \in CacheType(x) /\ d.last_blk = NULL /\ d.blks = c.blks /\ d.way = c.way
  <2>0. d = [c EXCEPT !.last_tagset = 0, !.last_blk = NULL]
    BY DEF Forgotten
  <2>. HIDE DEF d
  <2>1. d = [blks |-> c.blks, way |-> c.way, last_tagset |-> 0, last_blk |-> NULL]
    BY <1>1, <2>0 DEF CacheType
  <2>2. NULL \in {NULL} \union (Sets(x) \X Ways(x))
    OBVIOUS
  <2>. QED  BY <1>1, <2>1, <2>2 DEF CacheType
<1>. HIDE DEF d
<1>3. Unique(x, d) /\ LastHit(x, d)
  BY <1>2 DEF CacheOK, Unique, LastHit
<1>. QED  BY <1>2, <1>3 DEF CacheOK, d

\* A new cache is whole
LEMMA CreatedOK ==
    ASSUME Configured, NEW x \in Caches
    PROVE  /\ CacheOK(x, cache_create(x)) /\ cache_create(x).last_blk = NULL
           /\ \A s \in Sets(x), i \in Ways(x) : ~cache_create(x).blks[s][i].valid
<1>. DEFINE c == cache_create(x)
            n == Config[x].assoc
            w == [i \in Ways(x) |-> n + 1 - i]
<1>1. n \in Nat \ {0} /\ Ways(x) = 1 .. n
  BY Geometry DEF Ways
<1>. HIDE DEF n
<1>2. w \in [Ways(x) -> Ways(x)] /\ InOrder(x, w)
  <2>1. w \in [Ways(x) -> Ways(x)] /\ \A j, k \in Ways(x) : w[j] = w[k] => j = k
    BY <1>1
  <2>2. ASSUME NEW i \in Ways(x)  PROVE \E j \in Ways(x) : w[j] = i
    <3>1. n + 1 - i \in Ways(x) /\ w[n + 1 - i] = i
      BY <1>1
    <3>. QED  BY <3>1
  <2>. QED  BY <2>1, <2>2 DEF InOrder
<1>3. /\ c.blks = [s \in Sets(x) |-> [i \in Ways(x) |-> [tag |-> 0, valid |-> FALSE, dirty |-> FALSE]]]
      /\ c.way = [s \in Sets(x) |-> w] /\ c.last_tagset = 0 /\ c.last_blk = NULL
  BY DEF cache_create, n
<1>4. c \in CacheType(x)
  <2>1. c = [blks |-> c.blks, way |-> c.way, last_tagset |-> 0, last_blk |-> NULL]
    BY DEF cache_create
  <2>. HIDE DEF c, w
  <2>2. c.blks \in [Sets(x) -> [Ways(x) -> Block]]
    BY <1>3 DEF Block
  <2>3. c.way \in [Sets(x) -> [Ways(x) -> Ways(x)]]
    BY <1>2, <1>3
  <2>4. NULL \in {NULL} \union (Sets(x) \X Ways(x))
    OBVIOUS
  <2>. QED  BY <2>1, <2>2, <2>3, <2>4 DEF CacheType
<1>. HIDE DEF c, w
<1>5. \A s \in Sets(x), i \in Ways(x) : ~c.blks[s][i].valid
  BY <1>3
<1>6. Unique(x, c) /\ LastHit(x, c)
  BY <1>3, <1>5 DEF Unique, LastHit
<1>. QED  BY <1>2, <1>3, <1>4, <1>5, <1>6 DEF CacheOK, c

\* How many blocks are valid
ValidIn(x, c) == {b \in Sets(x) \X Ways(x) : c.blks[b[1]][b[2]].valid}
Count(x, c) == Cardinality(ValidIn(x, c))

\* The valid blocks of a cache can be counted
LEMMA ValidFinite ==
    ASSUME Configured, NEW x \in Caches, NEW c
    PROVE  IsFiniteSet(ValidIn(x, c)) /\ Count(x, c) \in Nat
<1>1. IsFiniteSet(Sets(x)) /\ IsFiniteSet(Ways(x))
  BY SMTT(30), Geometry, FS_Interval DEF Sets, Ways
<1>2. IsFiniteSet(Sets(x) \X Ways(x))
  BY <1>1, FS_Product
<1>3. ValidIn(x, c) \subseteq Sets(x) \X Ways(x)
  BY DEF ValidIn
<1>. QED  BY <1>2, <1>3, FS_Subset, FS_CardinalityType DEF Count

\* Their number is that of the valid bits
LEMMA CountSame ==
    ASSUME NEW x \in Caches, NEW c, NEW d,
           \A s \in Sets(x), i \in Ways(x) : d.blks[s][i].valid = c.blks[s][i].valid
    PROVE  Count(x, d) = Count(x, c)
<1>1. ValidIn(x, d) = ValidIn(x, c)
  BY DEF ValidIn
<1>. QED  BY <1>1 DEF Count

\* At most one block differs
OnlyAt(x, c, d, s, i) ==
    \A r \in Sets(x), j \in Ways(x) : ~(r = s /\ j = i) => d.blks[r][j] = c.blks[r][j]

\* One block becomes valid, or stays so
LEMMA CountMore ==
    ASSUME Configured, NEW x \in Caches, NEW c, NEW d, NEW s \in Sets(x), NEW i \in Ways(x),
           d.blks[s][i].valid, OnlyAt(x, c, d, s, i)
    PROVE  Count(x, d) = Count(x, c) + (IF c.blks[s][i].valid THEN 0 ELSE 1)
<1>1. ValidIn(x, d) = ValidIn(x, c) \union {<<s, i>>}
  <2>1. ASSUME NEW r \in Sets(x), NEW j \in Ways(x)
        PROVE  <<r, j>> \in ValidIn(x, d) <=> <<r, j>> \in ValidIn(x, c) \union {<<s, i>>}
    BY DEF ValidIn, OnlyAt
  <2>2. ValidIn(x, d) \subseteq Sets(x) \X Ways(x) /\ ValidIn(x, c) \subseteq Sets(x) \X Ways(x)
    BY DEF ValidIn
  <2>. QED  BY <2>1, <2>2
<1>2. <<s, i>> \in ValidIn(x, c) <=> c.blks[s][i].valid
  BY DEF ValidIn
<1>3. IsFiniteSet(ValidIn(x, c))
  BY ValidFinite
<1>4. Cardinality(ValidIn(x, c) \union {<<s, i>>}) =
         IF <<s, i>> \in ValidIn(x, c) THEN Cardinality(ValidIn(x, c)) ELSE Cardinality(ValidIn(x, c)) + 1
  BY <1>3, FS_AddElement
<1>5. Count(x, c) \in Nat
  BY ValidFinite
<1>. QED  BY <1>1, <1>2, <1>4, <1>5 DEF Count

\* One block becomes invalid
LEMMA CountLess ==
    ASSUME Configured, NEW x \in Caches, NEW c, NEW d, NEW s \in Sets(x), NEW i \in Ways(x),
           c.blks[s][i].valid, ~d.blks[s][i].valid, OnlyAt(x, c, d, s, i)
    PROVE  Count(x, d) = Count(x, c) - 1
<1>1. ValidIn(x, d) = ValidIn(x, c) \ {<<s, i>>}
  <2>1. ASSUME NEW r \in Sets(x), NEW j \in Ways(x)
        PROVE  <<r, j>> \in ValidIn(x, d) <=> <<r, j>> \in ValidIn(x, c) \ {<<s, i>>}
    BY DEF ValidIn, OnlyAt
  <2>2. ValidIn(x, d) \subseteq Sets(x) \X Ways(x) /\ ValidIn(x, c) \subseteq Sets(x) \X Ways(x)
    BY DEF ValidIn
  <2>. QED  BY <2>1, <2>2
<1>2. <<s, i>> \in ValidIn(x, c)
  BY DEF ValidIn
<1>3. IsFiniteSet(ValidIn(x, c))
  BY ValidFinite
<1>4. Cardinality(ValidIn(x, c) \ {<<s, i>>}) = Cardinality(ValidIn(x, c)) - 1
  BY <1>2, <1>3, FS_RemoveElement
<1>. QED  BY <1>1, <1>4 DEF Count

-----------------------------------------------------------------------------
(* The state *)

CacheAny == UNION {CacheType(x) : x \in Caches}
Entries == [tag : Nat, prev_addr : Int, stride : Int, state : State]
RptTables == {NULL} \union UNION {[0 .. n - 1 -> Entries] : n \in Nat \ {0}}
WalkTables == {NULL} \union UNION {[0 .. n - 1 -> Seq(Int)] : n \in Nat \ {0}}
OpenTables == [0 .. RPT_SIZE - 1 -> Entries]
Buffers == [0 .. GHB_SIZE - 1 -> Int]
CounterSets == [Counters -> Nat]
Newest == [Words -> {"mem", "dl2", "dl1"}]
Faults == {"none", "NULL block", "rpt overrun"}
Histories == Seq(Int)

SimType ==
    [cache : [Caches -> CacheAny], rpt : RptTables, rpt_open : OpenTables, ghb : Buffers,
     count : Int, did : [Caches -> CounterSets], newest : Newest, walk : WalkTables,
     seen : Histories, fault : Faults]

\* An access changes one cache and its counters at a time
Put(s, x, c, d) ==
    [s EXCEPT !.cache = [s.cache EXCEPT ![x] = c], !.did = [s.did EXCEPT ![x] = d]]

\* The tables of the prefetchers
SameTables(s, t) ==
    /\ t.rpt = s.rpt /\ t.walk = s.walk /\ t.rpt_open = s.rpt_open
    /\ t.ghb = s.ghb /\ t.count = s.count /\ t.seen = s.seen

\* A new cache and new counters for x, and nothing else
LEMMA PutFields ==
    ASSUME NEW s \in SimType, NEW x \in Caches, NEW c \in CacheType(x), NEW d \in CounterSets
    PROVE  LET t == Put(s, x, c, d)
           IN  /\ t \in SimType
               /\ t.cache[x] = c /\ t.did[x] = d
               /\ \A y \in Caches : y # x => t.cache[y] = s.cache[y] /\ t.did[y] = s.did[y]
               /\ SameTables(s, t) /\ t.newest = s.newest /\ t.fault = s.fault
               /\ \A e, g : Put(t, x, e, g) = Put(s, x, e, g)
<1>. DEFINE t == Put(s, x, c, d)
            cc == [s.cache EXCEPT ![x] = c]
            dd == [s.did EXCEPT ![x] = d]
<1>1. c \in CacheAny
  BY DEF CacheAny
<1>2. cc \in [Caches -> CacheAny] /\ dd \in [Caches -> CounterSets]
  BY <1>1 DEF SimType
<1>3. t = [s EXCEPT !.cache = cc, !.did = dd]
  BY DEF Put
<1>4. cc[x] = c /\ dd[x] = d /\ \A y \in Caches : y # x => cc[y] = s.cache[y] /\ dd[y] = s.did[y]
  BY DEF SimType
<1>5. \A e : [cc EXCEPT ![x] = e] = [s.cache EXCEPT ![x] = e]
  BY DEF SimType
<1>6. \A g : [dd EXCEPT ![x] = g] = [s.did EXCEPT ![x] = g]
  BY DEF SimType
<1>. HIDE DEF t, cc, dd
<1>7. /\ t \in SimType /\ t.cache = cc /\ t.did = dd
      /\ SameTables(s, t) /\ t.newest = s.newest /\ t.fault = s.fault
  BY <1>2, <1>3 DEF SimType, SameTables
<1>8. ASSUME NEW e, NEW g  PROVE Put(t, x, e, g) = Put(s, x, e, g)
  <2>1. Put(t, x, e, g) = [t EXCEPT !.cache = [s.cache EXCEPT ![x] = e], !.did = [s.did EXCEPT ![x] = g]]
    BY <1>5, <1>6, <1>7 DEF Put
  <2>. DEFINE ee == [s.cache EXCEPT ![x] = e]
              gg == [s.did EXCEPT ![x] = g]
  <2>2. Put(t, x, e, g) = [t EXCEPT !.cache = ee, !.did = gg] /\ Put(s, x, e, g) = [s EXCEPT !.cache = ee, !.did = gg]
    BY <2>1 DEF Put
  <2>. HIDE DEF ee, gg
  <2>3. [t EXCEPT !.cache = ee, !.did = gg] = [s EXCEPT !.cache = ee, !.did = gg]
    BY <1>3 DEF SimType
  <2>. QED  BY <2>2, <2>3
<1>. QED  BY <1>4, <1>7, <1>8 DEF t

\* The two instances of Cache look at the state in the same way
LEMMA SamePlaces ==
    ASSUME NEW x, NEW a
    PROVE  /\ FirstLevel!CACHE_SET(x, a) = CACHE_SET(x, a) /\ SecondLevel!CACHE_SET(x, a) = CACHE_SET(x, a)
           /\ FirstLevel!CACHE_TAG(x, a) = CACHE_TAG(x, a) /\ SecondLevel!CACHE_TAG(x, a) = CACHE_TAG(x, a)
           /\ FirstLevel!CACHE_TAGSET(x, a) = CACHE_TAGSET(x, a)
           /\ SecondLevel!CACHE_TAGSET(x, a) = CACHE_TAGSET(x, a)
           /\ \A s : FirstLevel!CACHE_MK_BADDR(x, a, s) = CACHE_MK_BADDR(x, a, s)
           /\ \A s : SecondLevel!CACHE_MK_BADDR(x, a, s) = CACHE_MK_BADDR(x, a, s)
           /\ FirstLevel!Ways(x) = Ways(x) /\ SecondLevel!Ways(x) = Ways(x)
           /\ FirstLevel!ToHead(x, a) = ToHead(x, a) /\ SecondLevel!ToHead(x, a) = ToHead(x, a)
           /\ FirstLevel!NULL = NULL /\ SecondLevel!NULL = NULL
BY DEF FirstLevel!CACHE_SET, SecondLevel!CACHE_SET, CACHE_SET,
       FirstLevel!CACHE_TAG, SecondLevel!CACHE_TAG, CACHE_TAG,
       FirstLevel!CACHE_TAGSET, SecondLevel!CACHE_TAGSET, CACHE_TAGSET,
       FirstLevel!CACHE_MK_BADDR, SecondLevel!CACHE_MK_BADDR, CACHE_MK_BADDR,
       FirstLevel!Ways, SecondLevel!Ways, Ways, FirstLevel!ToHead, SecondLevel!ToHead, ToHead,
       FirstLevel!NULL, SecondLevel!NULL, NULL

\* All three instances of Cache search alike
LEMMA SameFound ==
    ASSUME NEW s, NEW x, NEW a
    PROVE  /\ FirstLevel!Found(s, x, a) = Here(x, s.cache[x], a)
           /\ SecondLevel!Found(s, x, a) = Here(x, s.cache[x], a)
           /\ Found(s, x, a) = Here(x, s.cache[x], a)
           /\ FirstLevel!cache_probe(s, x, a) <=> Here(x, s.cache[x], a) # {}
           /\ SecondLevel!cache_probe(s, x, a) <=> Here(x, s.cache[x], a) # {}
<1>1. /\ FirstLevel!Found(s, x, a) = Here(x, s.cache[x], a)
      /\ SecondLevel!Found(s, x, a) = Here(x, s.cache[x], a)
      /\ Found(s, x, a) = Here(x, s.cache[x], a)
  BY SamePlaces DEF FirstLevel!Found, SecondLevel!Found, Found, Here
<1>. QED  BY <1>1 DEF FirstLevel!cache_probe, SecondLevel!cache_probe

Plus(d, k) == [d EXCEPT ![k] = @ + 1]

\* Changing only the cache, or only its counters
LEMMA PutOne ==
    ASSUME NEW s \in SimType, NEW x \in Caches
    PROVE  /\ \A c : [s EXCEPT !.cache = [s.cache EXCEPT ![x] = c]] = Put(s, x, c, s.did[x])
           /\ \A d : [s EXCEPT !.did = [s.did EXCEPT ![x] = d]] = Put(s, x, s.cache[x], d)
           /\ s = Put(s, x, s.cache[x], s.did[x])
<1>1. [s.cache EXCEPT ![x] = s.cache[x]] = s.cache
  BY DEF SimType
<1>2. [s.did EXCEPT ![x] = s.did[x]] = s.did
  BY DEF SimType
<1>3. ASSUME NEW e  PROVE [s EXCEPT !.cache = e] = [s EXCEPT !.cache = e, !.did = s.did]
  BY DEF SimType
<1>4. ASSUME NEW e  PROVE [s EXCEPT !.did = e] = [s EXCEPT !.cache = s.cache, !.did = e]
  BY DEF SimType
<1>5. s = [s EXCEPT !.did = s.did]
  BY DEF SimType
<1>. QED  BY <1>1, <1>2, <1>3, <1>4, <1>5 DEF Put

\* The parts of an access, as such changes
LEMMA CountedPut ==
    ASSUME NEW s \in SimType, NEW x \in Caches, NEW k
    PROVE  /\ FirstLevel!Counted(s, x, k) = Put(s, x, s.cache[x], Plus(s.did[x], k))
           /\ SecondLevel!Counted(s, x, k) = Put(s, x, s.cache[x], Plus(s.did[x], k))
           /\ Counted(s, x, k) = Put(s, x, s.cache[x], Plus(s.did[x], k))
<1>1. [s EXCEPT !.did[x][k] = @ + 1] = [s EXCEPT !.did = [s.did EXCEPT ![x] = Plus(s.did[x], k)]]
  BY DEF Plus, SimType
<1>. QED  BY <1>1, PutOne DEF FirstLevel!Counted, SecondLevel!Counted, Counted

\* SetDirty, Unlinked and Hit only touch the cache at hand
LEMMA DirtyPut ==
    ASSUME NEW s \in SimType, NEW x \in Caches, NEW r, NEW i, NEW cmd
    PROVE  /\ FirstLevel!SetDirty(s, x, r, i, cmd) = Put(s, x, Dirtied(s.cache[x], r, i, cmd), s.did[x])
           /\ SecondLevel!SetDirty(s, x, r, i, cmd) = Put(s, x, Dirtied(s.cache[x], r, i, cmd), s.did[x])
<1>1. CASE cmd = "Write"
  <2>. DEFINE c == [s.cache[x] EXCEPT !.blks[r][i].dirty = TRUE]
  <2>1. [s EXCEPT !.cache[x].blks[r][i].dirty = TRUE] = [s EXCEPT !.cache = [s.cache EXCEPT ![x] = c]]
    BY DEF SimType
  <2>2. Dirtied(s.cache[x], r, i, cmd) = c
    BY <1>1 DEF Dirtied
  <2>. HIDE DEF c
  <2>. QED  BY <1>1, <2>1, <2>2, PutOne DEF FirstLevel!SetDirty, SecondLevel!SetDirty
<1>2. CASE cmd # "Write"
  BY <1>2, PutOne DEF FirstLevel!SetDirty, SecondLevel!SetDirty, Dirtied
<1>. QED  BY <1>1, <1>2

LEMMA UnlinkedPut ==
    ASSUME NEW s \in SimType, NEW x \in Caches, NEW r, NEW i
    PROVE  /\ FirstLevel!Unlinked(s, x, r, i) = Put(s, x, Freed(x, s.cache[x], r, i), s.did[x])
           /\ SecondLevel!Unlinked(s, x, r, i) = Put(s, x, Freed(x, s.cache[x], r, i), s.did[x])
<1>1. /\ FirstLevel!Unlinked(s, x, r, i) = [s EXCEPT !.cache[x] = Freed(x, s.cache[x], r, i)]
      /\ SecondLevel!Unlinked(s, x, r, i) = [s EXCEPT !.cache[x] = Freed(x, s.cache[x], r, i)]
  BY SamePlaces DEF FirstLevel!Unlinked, SecondLevel!Unlinked, Freed
<1>2. ASSUME NEW c  PROVE [s EXCEPT !.cache[x] = c] = Put(s, x, c, s.did[x])
  <2>1. [s EXCEPT !.cache[x] = c] = [s EXCEPT !.cache = [s.cache EXCEPT ![x] = c]]
    BY DEF SimType
  <2>. QED  BY <2>1, PutOne
<1>. QED  BY <1>1, <1>2

LEMMA HitPut ==
    ASSUME Configured, NEW s \in SimType, NEW x \in Caches, CacheOK(x, s.cache[x]), NEW cmd, NEW addr \in Int,
           NEW prefetch, NEW i \in Here(x, s.cache[x], addr)
    PROVE  LET c == Dirtied(Touched(x, s.cache[x], addr, i), CACHE_SET(x, addr), i, cmd)
               d == Plus(s.did[x], HitCounter(prefetch))
           IN  /\ FirstLevel!Hit(s, x, cmd, addr, prefetch, i) = Put(s, x, c, d)
               /\ SecondLevel!Hit(s, x, cmd, addr, prefetch, i) = Put(s, x, c, d)
<1>. DEFINE c == Touched(x, s.cache[x], addr, i)
            d == Plus(s.did[x], HitCounter(prefetch))
            t == [s EXCEPT !.cache[x] = c]
            u == Put(s, x, c, d)
<1>1. c \in CacheType(x) /\ s.did[x] \in CounterSets
  BY TouchedOK DEF CacheOK, SimType
<1>2. HitCounter(prefetch) \in Counters /\ d \in CounterSets
  <2>1. HitCounter(prefetch) \in Counters
    BY DEF HitCounter, Counters
  <2>. HIDE DEF d
  <2>2. d = [s.did[x] EXCEPT ![HitCounter(prefetch)] = s.did[x][HitCounter(prefetch)] + 1]
    BY DEF d, Plus
  <2>. QED  BY <1>1, <2>1, <2>2 DEF CounterSets
<1>3. t = Put(s, x, c, s.did[x]) /\ t \in SimType /\ t.cache[x] = c /\ t.did[x] = s.did[x]
  <2>. HIDE DEF c
  <2>1. t = [s EXCEPT !.cache = [s.cache EXCEPT ![x] = c]]
    BY DEF SimType
  <2>2. t = Put(s, x, c, s.did[x])
    BY <2>1, PutOne
  <2>. HIDE DEF t
  <2>. QED  BY <1>1, <2>2, PutFields
<1>4. FirstLevel!Counted(t, x, HitCounter(prefetch)) = u /\ SecondLevel!Counted(t, x, HitCounter(prefetch)) = u
  <2>. HIDE DEF c, t
  <2>1. Put(t, x, c, d) = Put(s, x, c, d)
    BY <1>1, <1>3, PutFields
  <2>. QED  BY <1>3, <2>1, CountedPut
<1>5. u \in SimType /\ u.cache[x] = c /\ u.did[x] = d /\ \A e, g : Put(u, x, e, g) = Put(s, x, e, g)
  <2>. HIDE DEF c, d
  <2>. QED  BY <1>1, <1>2, PutFields
<1>6. /\ FirstLevel!Hit(s, x, cmd, addr, prefetch, i) = FirstLevel!SetDirty(u, x, CACHE_SET(x, addr), i, cmd)
      /\ SecondLevel!Hit(s, x, cmd, addr, prefetch, i) = SecondLevel!SetDirty(u, x, CACHE_SET(x, addr), i, cmd)
  <2>1. /\ FirstLevel!HitCounter(prefetch) = HitCounter(prefetch)
        /\ SecondLevel!HitCounter(prefetch) = HitCounter(prefetch)
    BY DEF FirstLevel!HitCounter, SecondLevel!HitCounter, HitCounter
  <2>. HIDE DEF d, u
  <2>. QED  BY <1>4, <2>1, SamePlaces DEF FirstLevel!Hit, SecondLevel!Hit, Touched
<1>. HIDE DEF c, d, u
<1>7. FirstLevel!SetDirty(u, x, CACHE_SET(x, addr), i, cmd) = Put(s, x, Dirtied(c, CACHE_SET(x, addr), i, cmd), d)
  BY <1>5, DirtyPut
<1>8. SecondLevel!SetDirty(u, x, CACHE_SET(x, addr), i, cmd) = Put(s, x, Dirtied(c, CACHE_SET(x, addr), i, cmd), d)
  BY <1>5, DirtyPut
<1>. QED  BY <1>6, <1>7, <1>8 DEF c, d

\* A fast hit finds the block a search would find
LEMMA FastHitPut ==
    ASSUME Configured, NEW s \in SimType, NEW x \in Caches, CacheOK(x, s.cache[x]), NEW cmd, NEW addr \in Int,
           NEW prefetch, s.cache[x].last_blk # NULL, CACHE_TAGSET(x, addr) = s.cache[x].last_tagset
    PROVE  \E i \in Here(x, s.cache[x], addr) :
              LET c == Dirtied(s.cache[x], CACHE_SET(x, addr), i, cmd)
                  d == Plus(s.did[x], HitCounter(prefetch))
              IN  /\ FirstLevel!FastHit(s, x, cmd, prefetch) = Put(s, x, c, d)
                  /\ SecondLevel!FastHit(s, x, cmd, prefetch) = Put(s, x, c, d)
                  /\ Config[x].policy = "LRU" => s.cache[x].way[CACHE_SET(x, addr)][1] = i
<1>. DEFINE c == s.cache[x]
            b == c.last_blk
            r == CACHE_SET(x, addr)
            i == b[2]
            k == HitCounter(prefetch)
            d == Plus(s.did[x], k)
            u == Put(s, x, c, d)
<1>1. c \in CacheType(x) /\ s.did[x] \in CounterSets /\ c.last_tagset \in Int
  BY DEF CacheOK, SimType, CacheType
<1>2. CACHE_SET(x, c.last_tagset) = r /\ Here(x, c, c.last_tagset) = Here(x, c, addr)
  <2>1. CACHE_SET(x, c.last_tagset) = r /\ CACHE_TAG(x, c.last_tagset) = CACHE_TAG(x, addr)
    BY OwnPlace
  <2>. QED  BY <2>1 DEF Here
<1>3. b[1] = r /\ i \in Here(x, c, addr) /\ (Config[x].policy = "LRU" => c.way[r][1] = i)
  BY <1>2 DEF CacheOK, LastHit
<1>4. k \in Counters /\ d \in CounterSets
  <2>1. k \in Counters
    BY DEF HitCounter, Counters
  <2>. HIDE DEF d, k
  <2>2. d = [s.did[x] EXCEPT ![k] = s.did[x][k] + 1]
    BY DEF d, Plus
  <2>. QED  BY <1>1, <2>1, <2>2 DEF CounterSets
<1>5. u \in SimType /\ u.cache[x] = c /\ u.did[x] = d /\ \A e, g : Put(u, x, e, g) = Put(s, x, e, g)
  <2>. HIDE DEF c, d
  <2>. QED  BY <1>1, <1>4, PutFields
<1>6. /\ FirstLevel!FastHit(s, x, cmd, prefetch) = FirstLevel!SetDirty(FirstLevel!Counted(s, x, k), x, r, i, cmd)
      /\ SecondLevel!FastHit(s, x, cmd, prefetch) = SecondLevel!SetDirty(SecondLevel!Counted(s, x, k), x, r, i, cmd)
  <2>1. FirstLevel!HitCounter(prefetch) = k /\ SecondLevel!HitCounter(prefetch) = k
    BY DEF FirstLevel!HitCounter, SecondLevel!HitCounter, HitCounter
  <2>. HIDE DEF k, r
  <2>. QED  BY <1>3, <2>1, SamePlaces DEF FirstLevel!FastHit, SecondLevel!FastHit
<1>7. FirstLevel!Counted(s, x, k) = u /\ SecondLevel!Counted(s, x, k) = u
  BY CountedPut
<1>. HIDE DEF d, u, r, i, k
<1>8. /\ FirstLevel!SetDirty(u, x, r, i, cmd) = Put(s, x, Dirtied(c, r, i, cmd), d)
      /\ SecondLevel!SetDirty(u, x, r, i, cmd) = Put(s, x, Dirtied(c, r, i, cmd), d)
  BY <1>5, DirtyPut
<1>. QED  BY <1>3, <1>6, <1>7, <1>8 DEF r, d, k

\* The name of a block
LEMMA NamedPut ==
    ASSUME NEW s \in SimType, NEW x \in Caches, NEW addr, NEW i
    PROVE  [s EXCEPT !.cache[x].blks[CACHE_SET(x, addr)][i] =
                [tag |-> CACHE_TAG(x, addr), valid |-> TRUE, dirty |-> FALSE]]
             = Put(s, x, Named(x, s.cache[x], addr, i), s.did[x])
<1>. DEFINE c == [s.cache[x] EXCEPT !.blks[CACHE_SET(x, addr)][i] =
                     [tag |-> CACHE_TAG(x, addr), valid |-> TRUE, dirty |-> FALSE]]
<1>1. [s EXCEPT !.cache[x].blks[CACHE_SET(x, addr)][i] =
                [tag |-> CACHE_TAG(x, addr), valid |-> TRUE, dirty |-> FALSE]]
        = [s EXCEPT !.cache = [s.cache EXCEPT ![x] = c]]
  BY DEF SimType
<1>2. Named(x, s.cache[x], addr, i) = c
  BY DEF Named
<1>. HIDE DEF c
<1>. QED  BY <1>1, <1>2, PutOne

-----------------------------------------------------------------------------
(* What holds of the prefetchers' tables *)

\* What the addresses of an entry's owner say of the entry: two equal strides
\* in a row leave it transient or steady with that stride, a third one steady
EntryFits(e, w) ==
    LET n == Len(w)
        d == w[n] - w[n - 1]
    IN  /\ n <= 4
        /\ n = 0 => e.tag = 0
        /\ n >= 1 => e.prev_addr = w[n]
        /\ n = 1 => e.state = "INIT" /\ e.stride = 0
        /\ n = 2 => e.state = (IF w[1] = w[2] THEN "STEADY" ELSE "TRANSIENT")
        /\ n >= 2 => e.stride = d \/ e.state = "INIT"
        /\ n >= 3 /\ w[n - 1] - w[n - 2] = d => e.stride = d /\ e.state \in {"STEADY", "TRANSIENT"}
        /\ n = 4 /\ w[3] - w[2] = d /\ w[2] - w[1] = d => e.state = "STEADY"

StridesOK(s) ==
    s.rpt # NULL =>
        /\ DOMAIN s.walk = DOMAIN s.rpt /\ s.walk # NULL
        /\ \A i \in DOMAIN s.rpt : EntryFits(s.rpt[i], s.walk[i])

\* The place of the next address, and what the buffer holds
GhbOK(s) ==
    LET n == Len(s.seen)
    IN  /\ n <= GHB_SIZE
        /\ s.count = IF n < GHB_SIZE THEN n ELSE GHB_SIZE - 1
        /\ n = GHB_SIZE => s.ghb[GHB_SIZE - 1] = s.seen[n]
        /\ \A i \in 0 .. GHB_SIZE - 1 :
              IF i >= n THEN s.ghb[i] = 0
              ELSE (\A j \in i + 1 .. n : s.seen[j] # 0) => s.ghb[i] = s.seen[i + 1]

TablesOK(s) == StridesOK(s) /\ GhbOK(s)

\* Tables that nobody touched remain good
LEMMA SameTablesOK ==
    ASSUME NEW s, NEW t, TablesOK(s), SameTables(s, t)
    PROVE  TablesOK(t)
BY DEF SameTables, TablesOK, StridesOK, GhbOK

-----------------------------------------------------------------------------
(* What an access to a cache keeps *)

Good(s) ==
    /\ s \in SimType
    /\ \A x \in Caches : CacheOK(x, s.cache[x])
    /\ TablesOK(s)

\* What the counters say of the number of valid blocks
Filled(d) == d["misses"] + d["prefetch_misses"] - d["replacements"] - d["invalidations"]
Net(s, x) == Count(x, s.cache[x]) - Filled(s.did[x])

\* Good states reached by calls that change only these caches
Steps(s, t, X) ==
    /\ Good(t)
    /\ \A y \in Caches : y \notin X => t.cache[y] = s.cache[y] /\ t.did[y] = s.did[y]
    /\ \A y \in Caches : Net(t, y) = Net(s, y)
    /\ t.fault = "none" => s.fault = "none"

\* Calls one after the other
LEMMA StepsTrans ==
    ASSUME NEW s, NEW t, NEW u, NEW X, Steps(s, t, X), Steps(t, u, X)
    PROVE  Steps(s, u, X)
BY DEF Steps

\* No call at all
LEMMA StepsRefl ==
    ASSUME NEW s, Good(s), NEW X
    PROVE  Steps(s, s, X)
BY DEF Steps

\* Fewer caches are also at most more
LEMMA StepsMore ==
    ASSUME NEW s, NEW t, NEW X, NEW Y, Steps(s, t, X), X \subseteq Y
    PROVE  Steps(s, t, Y)
BY DEF Steps

\* Changing one cache
LEMMA PutGood ==
    ASSUME NEW s, Good(s), NEW x \in Caches, NEW c, CacheOK(x, c), NEW d \in CounterSets
    PROVE  Good(Put(s, x, c, d))
<1>. DEFINE t == Put(s, x, c, d)
<1>1. s \in SimType /\ c \in CacheType(x)
  BY DEF Good, CacheOK
<1>2. /\ t \in SimType /\ t.cache[x] = c /\ SameTables(s, t)
      /\ \A y \in Caches : y # x => t.cache[y] = s.cache[y]
  BY <1>1, PutFields
<1>. HIDE DEF t
<1>3. TablesOK(t)
  BY <1>2, SameTablesOK DEF Good
<1>4. ASSUME NEW y \in Caches  PROVE CacheOK(y, t.cache[y])
  BY <1>2 DEF Good
<1>. QED  BY <1>2, <1>3, <1>4 DEF Good, t

\* A change of one cache whose counters say what it did to the blocks
LEMMA PutSteps ==
    ASSUME NEW s, Good(s), NEW x \in Caches, NEW c, CacheOK(x, c), NEW d \in CounterSets,
           Count(x, c) - Filled(d) = Net(s, x)
    PROVE  Steps(s, Put(s, x, c, d), {x})
<1>. DEFINE t == Put(s, x, c, d)
<1>1. s \in SimType /\ c \in CacheType(x)
  BY DEF Good, CacheOK
<1>2. /\ t.cache[x] = c /\ t.did[x] = d /\ t.fault = s.fault
      /\ \A y \in Caches : y # x => t.cache[y] = s.cache[y] /\ t.did[y] = s.did[y]
  BY <1>1, PutFields
<1>3. Good(t)
  BY PutGood
<1>. HIDE DEF t
<1>4. ASSUME NEW y \in Caches  PROVE Net(t, y) = Net(s, y)
  BY <1>2 DEF Net
<1>. QED  BY <1>2, <1>3, <1>4 DEF Steps, t
-----------------------------------------------------------------------------
(* A fill, within the cache *)

\* What a fill leaves of a cache that did not hold the address: the victim is
\* freed, named after the address and, for a write, dirty
LEMMA FilledCache ==
    ASSUME Configured, NEW x \in Caches, NEW c, CacheOK(x, c), NEW addr \in Int, Here(x, c, addr) = {},
           NEW i \in Ways(x), NEW cmd
    PROVE  LET r == CACHE_SET(x, addr)
               f == Freed(x, c, r, i)
               g == Named(x, f, addr, i)
               d == Dirtied(g, r, i, cmd)
           IN  /\ CacheOK(x, f) /\ f.blks = c.blks /\ Count(x, f) = Count(x, c)
               /\ CacheOK(x, g) /\ CacheOK(x, d)
               /\ Count(x, d) = Count(x, c) + (IF c.blks[r][i].valid THEN 0 ELSE 1)
               /\ i \in Here(x, d, addr)
               /\ cmd = "Write" => d.blks[r][i].dirty
               /\ \A q \in Sets(x), j \in Ways(x) : ~(q = r /\ j = i) =>
                     /\ d.blks[q][j].valid = c.blks[q][j].valid
                     /\ d.blks[q][j].tag = c.blks[q][j].tag
                     /\ d.blks[q][j].dirty = c.blks[q][j].dirty
               /\ Config[x].policy = "LRU" => d.way[r][1] = i
<1>. DEFINE r == CACHE_SET(x, addr)
            f == Freed(x, c, r, i)
            g == Named(x, f, addr, i)
            d == Dirtied(g, r, i, cmd)
<1>1. r \in Sets(x)
  BY Places
<1>2. CacheOK(x, f) /\ f.blks = c.blks /\ f.last_blk = NULL /\ (Config[x].policy = "LRU" => f.way[r][1] = i)
  <2>. HIDE DEF r
  <2>. QED  BY <1>1, FreedOK
<1>. HIDE DEF f
<1>3. Here(x, f, addr) = {}
  BY <1>2 DEF Here
<1>4. /\ CacheOK(x, g) /\ g.way = f.way
      /\ g.blks[r][i] = [tag |-> CACHE_TAG(x, addr), valid |-> TRUE, dirty |-> FALSE]
      /\ \A q \in Sets(x), j \in Ways(x) : ~(q = r /\ j = i) => g.blks[q][j] = f.blks[q][j]
  BY <1>2, <1>3, NamedOK
<1>. HIDE DEF g, r
<1>5. /\ CacheOK(x, d)
      /\ \A q \in Sets(x), j \in Ways(x) :
            /\ d.blks[q][j].valid = g.blks[q][j].valid
            /\ d.blks[q][j].tag = g.blks[q][j].tag
            /\ d.blks[q][j].dirty = (g.blks[q][j].dirty \/ (cmd = "Write" /\ q = r /\ j = i))
      /\ d.way = g.way
  BY <1>1, <1>4, DirtiedOK
<1>. HIDE DEF d
<1>6. Count(x, f) = Count(x, c)
  BY <1>2 DEF Count, ValidIn
<1>7. Count(x, g) = Count(x, c) + (IF c.blks[r][i].valid THEN 0 ELSE 1)
  <2>1. g.blks[r][i].valid
    BY <1>4
  <2>2. Count(x, g) = Count(x, f) + (IF f.blks[r][i].valid THEN 0 ELSE 1)
    <3>1. OnlyAt(x, f, g, r, i)
      BY <1>4 DEF OnlyAt
    <3>. QED  BY <1>1, <2>1, <3>1, CountMore
  <2>. QED  BY <1>2, <1>6, <2>2
<1>8. Count(x, d) = Count(x, g)
  BY <1>5, CountSame
<1>9. d.blks[r][i].valid /\ d.blks[r][i].tag = CACHE_TAG(x, addr)
  BY <1>1, <1>4, <1>5
<1>10. i \in Here(x, d, addr)
  BY <1>9 DEF Here, r
<1>11. cmd = "Write" => d.blks[r][i].dirty
  BY <1>1, <1>5
<1>12. \A q \in Sets(x), j \in Ways(x) : ~(q = r /\ j = i) =>
          /\ d.blks[q][j].valid = c.blks[q][j].valid
          /\ d.blks[q][j].tag = c.blks[q][j].tag
          /\ d.blks[q][j].dirty = c.blks[q][j].dirty
  <2>. SUFFICES ASSUME NEW q \in Sets(x), NEW j \in Ways(x), ~(q = r /\ j = i)
                PROVE  /\ d.blks[q][j].valid = c.blks[q][j].valid
                       /\ d.blks[q][j].tag = c.blks[q][j].tag
                       /\ d.blks[q][j].dirty = c.blks[q][j].dirty
    OBVIOUS
  <2>1. g.blks[q][j] = c.blks[q][j]
    BY <1>2, <1>4
  <2>2. c.blks[q][j].dirty \in BOOLEAN
    BY DEF CacheOK, CacheType, Block
  <2>. QED  BY <1>5, <2>1, <2>2
<1>13. Count(x, d) = Count(x, c) + (IF c.blks[r][i].valid THEN 0 ELSE 1)
  BY <1>7, <1>8
<1>14. Config[x].policy = "LRU" => d.way[r][1] = i
  BY <1>2, <1>4, <1>5
<1>15. /\ CacheOK(x, f) /\ f.blks = c.blks /\ Count(x, f) = Count(x, c)
       /\ CacheOK(x, g) /\ CacheOK(x, d)
  BY <1>2, <1>4, <1>5, <1>6
<1>. QED  BY <1>10, <1>11, <1>12, <1>13, <1>14, <1>15 DEF d, g, f, r

\* The counters of a miss that takes the place of the block b
Missed(d, b, prefetch) ==
    LET m == Plus(d, MissCounter(prefetch))
        n == IF b.valid THEN Plus(m, "replacements") ELSE m
    IN  IF b.valid /\ b.dirty THEN Plus(n, "writebacks") ELSE n

\* One event, one counter
LEMMA PlusCounter ==
    ASSUME NEW d \in CounterSets, NEW k \in Counters
    PROVE  /\ Plus(d, k) \in CounterSets
           /\ \A j \in Counters : Plus(d, k)[j] = d[j] + (IF j = k THEN 1 ELSE 0)
BY DEF Plus, CounterSets

\* The counters of a miss: a replacement when the block was valid, a writeback
\* when it was dirty as well
LEMMA MissedCounters ==
    ASSUME NEW d \in CounterSets, NEW b \in Block, NEW prefetch \in BOOLEAN
    PROVE  LET e == Missed(d, b, prefetch)
           IN  /\ e \in CounterSets
               /\ e["hits"] = d["hits"]
               /\ e["misses"] = d["misses"] + (IF prefetch THEN 0 ELSE 1)
               /\ e["writebacks"] = d["writebacks"] + (IF b.valid /\ b.dirty THEN 1 ELSE 0)
               /\ Filled(e) = Filled(d) + (IF b.valid THEN 0 ELSE 1)
<1>. DEFINE k == MissCounter(prefetch)
            m == Plus(d, k)
            n == IF b.valid THEN Plus(m, "replacements") ELSE m
            e == Missed(d, b, prefetch)
<1>1. /\ k \in Counters /\ (IF prefetch THEN k = "prefetch_misses" ELSE k = "misses")
      /\ "replacements" \in Counters /\ "writebacks" \in Counters /\ "misses" \in Counters
      /\ "hits" \in Counters /\ "prefetch_misses" \in Counters /\ "invalidations" \in Counters
      /\ b.valid \in BOOLEAN /\ b.dirty \in BOOLEAN
  BY DEF MissCounter, Counters, Block
<1>2. e = IF b.valid /\ b.dirty THEN Plus(n, "writebacks") ELSE n
  BY DEF Missed
<1>. HIDE DEF k, e
<1>3. m \in CounterSets /\ \A j \in Counters : m[j] = d[j] + (IF j = k THEN 1 ELSE 0)
  BY <1>1, PlusCounter
<1>. HIDE DEF m
<1>4. n \in CounterSets /\ \A j \in Counters : n[j] = m[j] + (IF j = "replacements" /\ b.valid THEN 1 ELSE 0)
  <2>1. \A j \in Counters : m[j] \in Nat
    BY <1>3 DEF CounterSets
  <2>2. Plus(m, "replacements") \in CounterSets
        /\ \A j \in Counters : Plus(m, "replacements")[j] = m[j] + (IF j = "replacements" THEN 1 ELSE 0)
    BY <1>1, <1>3, PlusCounter
  <2>. QED  BY <1>3, <2>1, <2>2
<1>. HIDE DEF n
<1>5. e \in CounterSets
      /\ \A j \in Counters : e[j] = n[j] + (IF j = "writebacks" /\ b.valid /\ b.dirty THEN 1 ELSE 0)
  <2>1. \A j \in Counters : n[j] \in Nat
    BY <1>4 DEF CounterSets
  <2>2. Plus(n, "writebacks") \in CounterSets
        /\ \A j \in Counters : Plus(n, "writebacks")[j] = n[j] + (IF j = "writebacks" THEN 1 ELSE 0)
    BY <1>1, <1>4, PlusCounter
  <2>. QED  BY <1>2, <1>4, <2>1, <2>2
<1>6. \A j \in Counters : d[j] \in Nat
  BY DEF CounterSets
<1>7. /\ e["hits"] = d["hits"]
      /\ e["misses"] = d["misses"] + (IF prefetch THEN 0 ELSE 1)
      /\ e["writebacks"] = d["writebacks"] + (IF b.valid /\ b.dirty THEN 1 ELSE 0)
  BY <1>1, <1>3, <1>4, <1>5, <1>6
<1>8. /\ e["prefetch_misses"] = d["prefetch_misses"] + (IF prefetch THEN 1 ELSE 0)
      /\ e["replacements"] = d["replacements"] + (IF b.valid THEN 1 ELSE 0)
      /\ e["invalidations"] = d["invalidations"]
  BY <1>1, <1>3, <1>4, <1>5, <1>6
<1>9. Filled(e) = Filled(d) + (IF b.valid THEN 0 ELSE 1)
  BY <1>1, <1>6, <1>7, <1>8 DEF Filled
<1>. QED  BY <1>5, <1>7, <1>9 DEF e

-----------------------------------------------------------------------------
(* The calls of a fill *)

\* The demand accesses that dl2 has seen
Asked(s) == s.did["dl2"]["hits"] + s.did["dl2"]["misses"]

\* A dirty block of c holds the word
Held(x, c, w) == \E i \in Here(x, c, w) : c.blks[CACHE_SET(x, w)][i].dirty

\* The newest values that are at x, but for some words, are in dirty blocks of x
Kept(s, x, words) == \A w \in Words \ words : s.newest[w] = x => Held(x, s.cache[x], w)

\* Which tables the prefetcher of dl2 trains
Trained(s, t) ==
    /\ Config["dl2"].prefetch_type <= 2 => t.rpt = s.rpt
    /\ Config["dl2"].prefetch_type # 2 => t.rpt_open = s.rpt_open

\* What x sees of a call of its miss handler: the words that were written leave
\* x, dl2 sees n demand accesses, and trains no table when n is 0
Lower(s, t, x, words, n) ==
    /\ Steps(s, t, {"dl2"} \ {x})
    /\ \A w \in Words, y \in {"dl1", x} :
          t.newest[w] = y <=> s.newest[w] = y /\ ~(y = x /\ w \in words)
    /\ x # "dl2" /\ t.fault = "none" =>
          /\ Asked(t) = Asked(s) + n
          /\ Kept(s, "dl2", {}) => Kept(t, "dl2", {})
    /\ Trained(s, t)
    /\ n = 0 \/ x = "dl2" => t.rpt = s.rpt /\ t.rpt_open = s.rpt_open

\* A fill: from s through m, e, n and f to t, with the eviction between m and e
\* and the fill from below between n and f
FillFrom(s, x, cmd, addr, prefetch, i, m, e, n, f, t) ==
    LET r == CACHE_SET(x, addr)
        b == s.cache[x].blks[r][i]
    IN  /\ m = Put(s, x, Freed(x, s.cache[x], r, i), Missed(s.did[x], b, prefetch))
        /\ IF b.valid /\ b.dirty
           THEN Lower(m, e, x, WordsOf(x, CACHE_MK_BADDR(x, b.tag, r)), 1)
           ELSE e = m
        /\ n = Put(e, x, Named(x, e.cache[x], addr, i), e.did[x])
        /\ Lower(n, f, x, {}, IF prefetch THEN 0 ELSE 1)
        /\ t = Put(f, x, Dirtied(f.cache[x], r, i, cmd), f.did[x])

\* What an access leaves: the blocks, the counters and the tables
Accessed(s, t, x, cmd, addr, prefetch) ==
    /\ Steps(s, t, {x, "dl2"})
    /\ x # "dl1" => \A w \in Words : t.newest[w] = "dl1" <=> s.newest[w] = "dl1"
    /\ s.did[x]["writebacks"] <= t.did[x]["writebacks"]
    /\ Trained(s, t)
    /\ x = "dl2" \/ (prefetch /\ t.did[x]["writebacks"] = s.did[x]["writebacks"])
          => t.rpt = s.rpt /\ t.rpt_open = s.rpt_open
    /\ t.fault = "none" =>
          /\ x = "dl2" => Asked(t) = Asked(s) + (IF prefetch THEN 0 ELSE 1)
          /\ x # "dl2" =>
                /\ Asked(t) - t.did[x]["misses"] - t.did[x]["writebacks"]
                     = Asked(s) - s.did[x]["misses"] - s.did[x]["writebacks"]
                /\ Kept(s, "dl2", {}) => Kept(t, "dl2", {})
          /\ Kept(s, x, IF cmd = "Write" THEN {w \in Words : Line(x, w) = Line(x, addr)} ELSE {})
               => Kept(t, x, {})
          /\ Here(x, t.cache[x], addr) # {}
          /\ Config[x].policy = "LRU" =>
                t.cache[x].way[CACHE_SET(x, addr)][1] \in Here(x, t.cache[x], addr)
    /\ Config[x].policy = "LRU" /\ Config[x].assoc > 1 =>
          \A a \in Int : s.cache[x].way[CACHE_SET(x, a)][1] \in Here(x, s.cache[x], a)
                           => Here(x, t.cache[x], a) # {}

\* The words of the block that an address is in stay where it stays
LEMMA HeldOn ==
    ASSUME Configured, NEW x \in Caches, NEW w \in Int, NEW c, NEW d, Held(x, c, w),
           \A i \in Ways(x) : LET b == c.blks[CACHE_SET(x, w)][i]
                                  e == d.blks[CACHE_SET(x, w)][i]
                              IN  b.valid /\ b.dirty /\ b.tag = CACHE_TAG(x, w)
                                    => e.valid /\ e.dirty /\ e.tag = b.tag
    PROVE  Held(x, d, w)
BY DEF Held, Here

\* Nothing to write back: no call of the next level
LEMMA LowerRefl ==
    ASSUME NEW s, Good(s), NEW x
    PROVE  Lower(s, s, x, {}, 0)
<1>1. Asked(s) = Asked(s) + 0
  <2>1. s.did["dl2"]["hits"] \in Nat /\ s.did["dl2"]["misses"] \in Nat
    BY ZenonT(40), SimCacheAssumption DEF Good, SimType, CounterSets, Counters
  <2>. QED  BY <2>1 DEF Asked
<1>. QED  BY <1>1, StepsRefl DEF Lower, Trained

\* The newest values are where they were when neither they nor the cache moved
LEMMA KeptSame ==
    ASSUME NEW s, NEW t, NEW x, NEW words, Kept(s, x, words),
           t.cache[x] = s.cache[x], t.newest = s.newest
    PROVE  Kept(t, x, words)
BY DEF Kept

\* What each call of a fill leaves of the state it found
Chained(s, x, cmd, addr, prefetch, i, m, e, n, f, t) ==
    LET r == CACHE_SET(x, addr)
        c == s.cache[x]
        b == c.blks[r][i]
        wb == b.valid /\ b.dirty
        d == Missed(s.did[x], b, prefetch)
        words == IF wb THEN WordsOf(x, CACHE_MK_BADDR(x, b.tag, r)) ELSE {}
        k == IF wb THEN 1 ELSE 0
    IN  /\ Good(m) /\ m.did[x] = d /\ SameTables(s, m) /\ m.newest = s.newest /\ m.fault = s.fault
        /\ \A y \in Caches : y # x => m.cache[y] = s.cache[y] /\ m.did[y] = s.did[y]
        /\ Lower(m, e, x, words, k)
        /\ Good(n) /\ SameTables(e, n) /\ n.newest = e.newest /\ n.fault = e.fault /\ n.did[x] = d
        /\ \A y \in Caches : y # x => n.cache[y] = e.cache[y] /\ n.did[y] = e.did[y]
        /\ Lower(n, f, x, {}, IF prefetch THEN 0 ELSE 1)
        /\ Good(t) /\ SameTables(f, t) /\ t.newest = f.newest /\ t.fault = f.fault /\ t.did[x] = d
        /\ t.cache[x] = Dirtied(Named(x, Freed(x, c, r, i), addr, i), r, i, cmd)
        /\ \A y \in Caches : y # x => t.cache[y] = f.cache[y] /\ t.did[y] = f.did[y]

\* It does
LEMMA FillChain ==
    ASSUME Configured, NEW x \in Caches, NEW s, Good(s), NEW cmd, NEW addr \in Int, NEW prefetch \in BOOLEAN,
           NEW i \in Ways(x), Here(x, s.cache[x], addr) = {},
           NEW m, NEW e, NEW n, NEW f, NEW t, FillFrom(s, x, cmd, addr, prefetch, i, m, e, n, f, t)
    PROVE  Chained(s, x, cmd, addr, prefetch, i, m, e, n, f, t)
<1>. DEFINE r == CACHE_SET(x, addr)
            c == s.cache[x]
            b == c.blks[r][i]
            wb == b.valid /\ b.dirty
            d == Missed(s.did[x], b, prefetch)
            words == IF wb THEN WordsOf(x, CACHE_MK_BADDR(x, b.tag, r)) ELSE {}
            k == IF wb THEN 1 ELSE 0
            cf == Freed(x, c, r, i)
            cg == Named(x, cf, addr, i)
            cd == Dirtied(cg, r, i, cmd)
<1>1. s \in SimType /\ CacheOK(x, c) /\ r \in Sets(x) /\ b \in Block /\ s.did[x] \in CounterSets
  BY SMTT(30), Places DEF Good, CacheOK, CacheType, SimType
<1>2. CacheOK(x, cf) /\ CacheOK(x, cg) /\ CacheOK(x, cd)
  BY <1>1, FilledCache
<1>3. d \in CounterSets
  BY <1>1, MissedCounters
<1>4. /\ m = Put(s, x, cf, d)
      /\ IF wb THEN Lower(m, e, x, words, 1) ELSE e = m
      /\ n = Put(e, x, Named(x, e.cache[x], addr, i), e.did[x])
      /\ Lower(n, f, x, {}, IF prefetch THEN 0 ELSE 1)
      /\ t = Put(f, x, Dirtied(f.cache[x], r, i, cmd), f.did[x])
  BY DEF FillFrom
<1>. HIDE DEF c, b, d, r, cf, cg, cd
<1>5. ASSUME NEW u, Good(u), NEW g, CacheOK(x, g), NEW q, q = Put(u, x, g, d)
      PROVE  /\ Good(q) /\ q.cache[x] = g /\ q.did[x] = d
             /\ SameTables(u, q) /\ q.newest = u.newest /\ q.fault = u.fault
             /\ \A y \in Caches : y # x => q.cache[y] = u.cache[y] /\ q.did[y] = u.did[y]
  <2>1. u \in SimType /\ g \in CacheType(x)
    BY <1>5 DEF Good, CacheOK
  <2>2. Good(q)
    BY <1>3, <1>5, PutGood
  <2>. QED  BY <1>3, <1>5, <2>1, <2>2, PutFields
<1>6. /\ Good(m) /\ m.cache[x] = cf /\ m.did[x] = d
      /\ SameTables(s, m) /\ m.newest = s.newest /\ m.fault = s.fault
      /\ \A y \in Caches : y # x => m.cache[y] = s.cache[y] /\ m.did[y] = s.did[y]
  BY SMTT(30), <1>2, <1>4, <1>5
<1>7. Lower(m, e, x, words, k)
  BY <1>4, <1>6, LowerRefl
<1>8. Good(e) /\ e.cache[x] = cf /\ e.did[x] = d
  BY <1>6, <1>7 DEF Lower, Steps
<1>9. n = Put(e, x, cg, d)
  BY <1>4, <1>8 DEF cg
<1>10. /\ Good(n) /\ n.cache[x] = cg /\ n.did[x] = d
       /\ SameTables(e, n) /\ n.newest = e.newest /\ n.fault = e.fault
       /\ \A y \in Caches : y # x => n.cache[y] = e.cache[y] /\ n.did[y] = e.did[y]
  BY SMTT(30), <1>2, <1>5, <1>8, <1>9
<1>11. Good(f) /\ f.cache[x] = cg /\ f.did[x] = d
  BY <1>4, <1>10 DEF Lower, Steps
<1>12. t = Put(f, x, cd, d)
  BY <1>4, <1>11 DEF cd
<1>13. /\ Good(t) /\ t.cache[x] = cd /\ t.did[x] = d
       /\ SameTables(f, t) /\ t.newest = f.newest /\ t.fault = f.fault
       /\ \A y \in Caches : y # x => t.cache[y] = f.cache[y] /\ t.did[y] = f.did[y]
  <2>1. Good(f) /\ CacheOK(x, cd) /\ t = Put(f, x, cd, d)
    BY <1>2, <1>11, <1>12
  <2>. QED  BY <1>5, <2>1
<1>. QED  BY <1>4, <1>6, <1>7, <1>10, <1>13 DEF Chained, c, b, d, r, cf, cg, cd

\* The counters are numbers
LEMMA Numbers ==
    ASSUME NEW s, Good(s), NEW x \in Caches
    PROVE  /\ \A k \in Counters : s.did[x][k] \in Nat
           /\ s.did[x]["misses"] \in Nat /\ s.did[x]["writebacks"] \in Nat /\ s.did[x]["hits"] \in Nat
           /\ Asked(s) \in Nat
<1>1. \A y \in Caches : s.did[y] \in CounterSets
  BY DEF Good, SimType
<1>2. "dl2" \in Caches
  BY SimCacheAssumption
<1>. QED  BY <1>1, <1>2 DEF CounterSets, Counters, Asked

\* The two numbers that Net compares
LEMMA NetInt ==
    ASSUME Configured, NEW s, Good(s), NEW x \in Caches
    PROVE  Count(x, s.cache[x]) \in Nat /\ Filled(s.did[x]) \in Int
<1>1. \A k \in Counters : s.did[x][k] \in Nat
  BY Numbers
<1>. QED  BY <1>1, ValidFinite DEF Filled, Counters

\* What a fill leaves
LEMMA FillAccessed ==
    ASSUME Configured, NEW x \in Caches, NEW s, Good(s), NEW cmd, NEW addr \in Int, NEW prefetch \in BOOLEAN,
           NEW i \in Ways(x), Here(x, s.cache[x], addr) = {},
           Config[x].policy = "LRU" => i = s.cache[x].way[CACHE_SET(x, addr)][Config[x].assoc],
           NEW m, NEW e, NEW n, NEW f, NEW t, FillFrom(s, x, cmd, addr, prefetch, i, m, e, n, f, t)
    PROVE  Accessed(s, t, x, cmd, addr, prefetch)
<1>. DEFINE r == CACHE_SET(x, addr)
            c == s.cache[x]
            b == c.blks[r][i]
            wb == b.valid /\ b.dirty
            d == Missed(s.did[x], b, prefetch)
            words == IF wb THEN WordsOf(x, CACHE_MK_BADDR(x, b.tag, r)) ELSE {}
            k == IF wb THEN 1 ELSE 0
            h == IF prefetch THEN 0 ELSE 1
            u == t.cache[x]
            exempt == IF cmd = "Write" THEN {w \in Words : Line(x, w) = Line(x, addr)} ELSE {}
<1>1. /\ Good(m) /\ m.did[x] = d /\ SameTables(s, m) /\ m.newest = s.newest /\ m.fault = s.fault
      /\ \A y \in Caches : y # x => m.cache[y] = s.cache[y] /\ m.did[y] = s.did[y]
      /\ Lower(m, e, x, words, k)
      /\ Good(n) /\ SameTables(e, n) /\ n.newest = e.newest /\ n.fault = e.fault /\ n.did[x] = d
      /\ \A y \in Caches : y # x => n.cache[y] = e.cache[y] /\ n.did[y] = e.did[y]
      /\ Lower(n, f, x, {}, h)
      /\ Good(t) /\ SameTables(f, t) /\ t.newest = f.newest /\ t.fault = f.fault /\ t.did[x] = d
      /\ u = Dirtied(Named(x, Freed(x, c, r, i), addr, i), r, i, cmd)
      /\ \A y \in Caches : y # x => t.cache[y] = f.cache[y] /\ t.did[y] = f.did[y]
  <2>1. Chained(s, x, cmd, addr, prefetch, i, m, e, n, f, t)
    BY FillChain
  <2>. QED  BY <2>1 DEF Chained
<1>2. /\ CacheOK(x, c) /\ r \in Sets(x) /\ b \in Block /\ s.did[x] \in CounterSets
      /\ \A y \in Caches : s.did[y] \in CounterSets
  BY SMTT(30), Places DEF Good, CacheOK, CacheType, SimType
<1>3. /\ CacheOK(x, u)
      /\ Count(x, u) = Count(x, c) + (IF b.valid THEN 0 ELSE 1)
      /\ i \in Here(x, u, addr)
      /\ cmd = "Write" => u.blks[r][i].dirty
      /\ \A q \in Sets(x), j \in Ways(x) : ~(q = r /\ j = i) =>
            /\ u.blks[q][j].valid = c.blks[q][j].valid
            /\ u.blks[q][j].tag = c.blks[q][j].tag
            /\ u.blks[q][j].dirty = c.blks[q][j].dirty
      /\ Config[x].policy = "LRU" => u.way[r][1] = i
  <2>. HIDE DEF u, c
  <2>1. CacheOK(x, c) /\ Here(x, c, addr) = {}
    BY <1>2 DEF c
  <2>2. u = Dirtied(Named(x, Freed(x, c, r, i), addr, i), r, i, cmd)
    BY <1>1
  <2>. QED  BY <2>1, <2>2, FilledCache
<1>4. /\ d["hits"] = s.did[x]["hits"]
      /\ d["misses"] = s.did[x]["misses"] + h
      /\ d["writebacks"] = s.did[x]["writebacks"] + k
      /\ Filled(d) = Filled(s.did[x]) + (IF b.valid THEN 0 ELSE 1)
  <2>. HIDE DEF b, c
  <2>. QED  BY <1>2, MissedCounters
<1>. HIDE DEF b, d, r, words, k, h, u, exempt, c
<1>5. b.valid \in BOOLEAN /\ b.dirty \in BOOLEAN
  BY <1>2 DEF Block
<1>6. /\ Steps(m, e, {"dl2"} \ {x}) /\ Steps(n, f, {"dl2"} \ {x})
      /\ \A w \in Words, y \in {"dl1", x} :
            /\ e.newest[w] = y <=> m.newest[w] = y /\ ~(y = x /\ w \in words)
            /\ f.newest[w] = y <=> n.newest[w] = y
      /\ Trained(m, e) /\ Trained(n, f)
  BY <1>1 DEF Lower
<1>7. \A w \in Words, y \in {"dl1", x} : t.newest[w] = y <=> s.newest[w] = y /\ ~(y = x /\ w \in words)
  BY <1>1, <1>6
<1>8. \A y \in Caches : y \notin {x, "dl2"} => t.cache[y] = s.cache[y] /\ t.did[y] = s.did[y]
  BY <1>1, <1>6 DEF Steps
<1>9. ASSUME NEW y \in Caches  PROVE Net(t, y) = Net(s, y)
  <2>1. CASE y = x
    <3>1. Count(x, c) \in Nat /\ Filled(s.did[x]) \in Int
      BY NetInt DEF c
    <3>2. Net(t, x) = Count(x, u) - Filled(d) /\ Net(s, x) = Count(x, c) - Filled(s.did[x])
      BY <1>1 DEF Net, u, c
    <3>. QED  BY <1>3, <1>4, <1>5, <2>1, <3>1, <3>2
  <2>2. CASE y # x
    <3>1. Net(m, y) = Net(s, y) /\ Net(n, y) = Net(e, y) /\ Net(t, y) = Net(f, y)
      BY <1>1, <2>2 DEF Net
    <3>2. Net(e, y) = Net(m, y) /\ Net(f, y) = Net(n, y)
      BY <1>6 DEF Steps
    <3>. QED  BY <3>1, <3>2
  <2>. QED  BY <2>1, <2>2
<1>10. t.fault = "none" => s.fault = "none" /\ e.fault = "none" /\ f.fault = "none"
  BY <1>1, <1>6 DEF Steps
<1>11. Steps(s, t, {x, "dl2"})
  BY <1>1, <1>8, <1>9, <1>10 DEF Steps
<1>12. Trained(s, t)
  BY <1>1, <1>6 DEF Trained, SameTables
<1>13. s.did[x]["writebacks"] \in Nat /\ s.did[x]["misses"] \in Nat /\ s.did[x]["hits"] \in Nat
       /\ Asked(s) \in Nat
  BY Numbers
<1>14. t.did[x]["writebacks"] = s.did[x]["writebacks"] + k /\ t.did[x]["misses"] = s.did[x]["misses"] + h
       /\ t.did[x]["hits"] = s.did[x]["hits"] /\ k \in {0, 1} /\ h \in {0, 1}
  BY <1>1, <1>4 DEF k, h
<1>15. x = "dl2" \/ (prefetch /\ t.did[x]["writebacks"] = s.did[x]["writebacks"])
         => t.rpt = s.rpt /\ t.rpt_open = s.rpt_open
  <2>1. prefetch => h = 0
    BY DEF h
  <2>2. t.did[x]["writebacks"] = s.did[x]["writebacks"] => k = 0
    BY <1>13, <1>14
  <2>. QED  BY <1>1, <2>1, <2>2 DEF Lower, SameTables
<1>16. ASSUME x = "dl2"  PROVE Asked(t) = Asked(s) + h
  BY <1>13, <1>14, <1>16 DEF Asked
<1>17. ASSUME x # "dl2", t.fault = "none"
       PROVE  /\ Asked(t) - t.did[x]["misses"] - t.did[x]["writebacks"]
                   = Asked(s) - s.did[x]["misses"] - s.did[x]["writebacks"]
              /\ Kept(s, "dl2", {}) => Kept(t, "dl2", {})
  <2>0. "dl2" \in Caches
    BY SimCacheAssumption
  <2>1. Asked(m) = Asked(s) /\ Asked(n) = Asked(e) /\ Asked(t) = Asked(f)
    BY <1>1, <1>17, <2>0 DEF Asked
  <2>2. Asked(e) = Asked(m) + k /\ Asked(f) = Asked(n) + h
    BY <1>1, <1>10, <1>17 DEF Lower
  <2>3. Kept(s, "dl2", {}) => Kept(m, "dl2", {})
    BY <1>1, <1>17, <2>0, KeptSame
  <2>4. Kept(m, "dl2", {}) => Kept(e, "dl2", {})
    BY <1>1, <1>10, <1>17 DEF Lower
  <2>5. Kept(e, "dl2", {}) => Kept(n, "dl2", {})
    BY <1>1, <1>17, <2>0, KeptSame
  <2>6. Kept(n, "dl2", {}) => Kept(f, "dl2", {})
    BY <1>1, <1>10, <1>17 DEF Lower
  <2>7. Kept(f, "dl2", {}) => Kept(t, "dl2", {})
    BY <1>1, <1>17, <2>0, KeptSame
  <2>8. Asked(t) = Asked(s) + k + h
    BY <1>13, <1>14, <2>1, <2>2
  <2>. QED  BY <1>13, <1>14, <2>3, <2>4, <2>5, <2>6, <2>7, <2>8
<1>18. ASSUME Kept(s, x, exempt)  PROVE Kept(t, x, {})
  <2>. SUFFICES ASSUME NEW w \in Words, t.newest[w] = x  PROVE Held(x, u, w)
    BY DEF Kept, u
  <2>1. w \in Int
    BY SimCacheAssumption
  <2>2. s.newest[w] = x /\ w \notin words
    BY <1>7
  <2>3. CASE w \in exempt
    <3>1. cmd = "Write" /\ Line(x, w) = Line(x, addr)
      BY <2>3 DEF exempt
    <3>2. CACHE_SET(x, w) = r /\ CACHE_TAG(x, w) = CACHE_TAG(x, addr)
      BY <2>1, <3>1, SamePlace DEF r
    <3>3. Here(x, u, w) = Here(x, u, addr)
      BY <3>2 DEF Here, r
    <3>. QED  BY <1>3, <3>1, <3>2, <3>3 DEF Held
  <2>4. CASE w \notin exempt
    <3>1. Held(x, c, w)
      BY <1>18, <2>2, <2>4 DEF Kept, c
    <3>2. CACHE_SET(x, w) \in Sets(x)
      BY <2>1, Places
    <3>3. ASSUME CACHE_SET(x, w) = r, b.valid, b.dirty, b.tag = CACHE_TAG(x, w)  PROVE FALSE
      <4>1. words = WordsOf(x, CACHE_MK_BADDR(x, b.tag, r))
        BY <3>3 DEF words
      <4>2. b.tag \in Int
        BY <1>2 DEF Block
      <4>3. w \in WordsOf(x, CACHE_MK_BADDR(x, b.tag, r))
        BY <1>2, <2>1, <3>3, <4>2, MadeAddress
      <4>. QED  BY <2>2, <4>1, <4>3
    <3>4. ASSUME NEW j \in Ways(x)
          PROVE  LET p == c.blks[CACHE_SET(x, w)][j]
                     q == u.blks[CACHE_SET(x, w)][j]
                 IN  p.valid /\ p.dirty /\ p.tag = CACHE_TAG(x, w) => q.valid /\ q.dirty /\ q.tag = p.tag
      <4>1. CASE CACHE_SET(x, w) = r /\ j = i
        BY <3>3, <4>1 DEF b
      <4>2. CASE ~(CACHE_SET(x, w) = r /\ j = i)
        BY <1>3, <3>2, <4>2
      <4>. QED  BY <4>1, <4>2
    <3>. QED  BY <2>1, <3>1, <3>4, HeldOn
  <2>. QED  BY <2>3, <2>4
<1>19. ASSUME Config[x].policy = "LRU", Config[x].assoc > 1, NEW a \in Int,
              c.way[CACHE_SET(x, a)][1] \in Here(x, c, a)
       PROVE  Here(x, u, a) # {}
  <2>. DEFINE q == CACHE_SET(x, a)
              j == c.way[q][1]
  <2>1. q \in Sets(x) /\ j \in Ways(x) /\ c.blks[q][j].valid /\ c.blks[q][j].tag = CACHE_TAG(x, a)
    BY <1>19, Places DEF Here
  <2>2. ~(q = r /\ j = i)
    <3>1. i = c.way[r][Config[x].assoc]
      BY <1>19 DEF c, r
    <3>2. InOrder(x, c.way[r]) /\ 1 \in Ways(x) /\ Config[x].assoc \in Ways(x) /\ Config[x].assoc # 1
      BY <1>2, <1>19, Geometry DEF CacheOK
    <3>. QED  BY <3>1, <3>2 DEF InOrder
  <2>3. u.blks[q][j].valid /\ u.blks[q][j].tag = CACHE_TAG(x, a)
    <3>. HIDE DEF q, j
    <3>. QED  BY <1>3, <2>1, <2>2
  <2>. QED  BY <2>1, <2>3 DEF Here
<1>20. x # "dl1" => \A w \in Words : t.newest[w] = "dl1" <=> s.newest[w] = "dl1"
  BY <1>7
<1>21. s.did[x]["writebacks"] <= t.did[x]["writebacks"]
  BY <1>13, <1>14
<1>22. /\ Here(x, t.cache[x], addr) # {}
       /\ Config[x].policy = "LRU" => t.cache[x].way[CACHE_SET(x, addr)][1] \in Here(x, t.cache[x], addr)
  BY <1>3 DEF u, r
<1>23. ASSUME Config[x].policy = "LRU", Config[x].assoc > 1, NEW a \in Int,
              s.cache[x].way[CACHE_SET(x, a)][1] \in Here(x, s.cache[x], a)
       PROVE  Here(x, t.cache[x], a) # {}
  BY <1>19, <1>23 DEF c, u
<1>. QED  BY <1>11, <1>12, <1>15, <1>16, <1>17, <1>18, <1>20, <1>21, <1>22, <1>23 DEF Accessed, h, exempt

\* What a hit leaves
LEMMA HitAccessed ==
    ASSUME Configured, NEW x \in Caches, NEW s, Good(s), NEW cmd, NEW addr \in Int, NEW prefetch \in BOOLEAN,
           NEW c, CacheOK(x, c), c.blks = s.cache[x].blks, NEW i \in Here(x, c, addr),
           Config[x].policy = "LRU" => c.way[CACHE_SET(x, addr)][1] = i,
           NEW t, t = Put(s, x, Dirtied(c, CACHE_SET(x, addr), i, cmd), Plus(s.did[x], HitCounter(prefetch)))
    PROVE  Accessed(s, t, x, cmd, addr, prefetch)
<1>. DEFINE r == CACHE_SET(x, addr)
            u == Dirtied(c, r, i, cmd)
            d == Plus(s.did[x], HitCounter(prefetch))
            h == IF prefetch THEN 0 ELSE 1
            exempt == IF cmd = "Write" THEN {w \in Words : Line(x, w) = Line(x, addr)} ELSE {}
<1>1. /\ s \in SimType /\ r \in Sets(x) /\ i \in Ways(x) /\ s.did[x] \in CounterSets
      /\ \A y \in Caches : s.did[y] \in CounterSets
  BY Places DEF Good, SimType, Here
<1>2. /\ CacheOK(x, u)
      /\ \A q \in Sets(x), j \in Ways(x) :
            /\ u.blks[q][j].valid = c.blks[q][j].valid
            /\ u.blks[q][j].tag = c.blks[q][j].tag
            /\ u.blks[q][j].dirty = (c.blks[q][j].dirty \/ (cmd = "Write" /\ q = r /\ j = i))
      /\ u.way = c.way
  <2>. HIDE DEF r
  <2>. QED  BY <1>1, DirtiedOK
<1>3. d \in CounterSets /\ \A j \in Counters : d[j] = s.did[x][j] + (IF j = HitCounter(prefetch) THEN 1 ELSE 0)
  <2>1. HitCounter(prefetch) \in Counters
    BY DEF HitCounter, Counters
  <2>. QED  BY <1>1, <2>1, PlusCounter
<1>. HIDE DEF r, u, d, h, exempt
<1>4. t = Put(s, x, u, d)
  BY DEF u, d, r
<1>5. u \in CacheType(x)
  BY <1>2 DEF CacheOK
<1>6. /\ t.cache[x] = u /\ t.did[x] = d /\ SameTables(s, t) /\ t.newest = s.newest /\ t.fault = s.fault
      /\ \A y \in Caches : y # x => t.cache[y] = s.cache[y] /\ t.did[y] = s.did[y]
  BY <1>1, <1>3, <1>4, <1>5, PutFields
<1>7. \A j \in Counters : s.did[x][j] \in Nat
  BY Numbers
<1>8. /\ d["misses"] = s.did[x]["misses"] /\ d["writebacks"] = s.did[x]["writebacks"]
      /\ d["hits"] = s.did[x]["hits"] + h
      /\ Filled(d) = Filled(s.did[x])
  BY <1>3, <1>7 DEF HitCounter, Counters, Filled, h
<1>9. Count(x, u) = Count(x, s.cache[x])
  <2>1. \A q \in Sets(x), j \in Ways(x) : u.blks[q][j].valid = s.cache[x].blks[q][j].valid
    BY <1>2
  <2>. QED  BY <2>1, CountSame
<1>10. Count(x, u) - Filled(d) = Net(s, x)
  BY <1>8, <1>9 DEF Net
<1>11. Steps(s, t, {x, "dl2"})
  <2>1. Steps(s, t, {x})
    BY <1>2, <1>3, <1>4, <1>10, PutSteps
  <2>. QED  BY <2>1, StepsMore
<1>12. Trained(s, t) /\ t.rpt = s.rpt /\ t.rpt_open = s.rpt_open
  BY <1>6 DEF Trained, SameTables
<1>13. s.did[x]["writebacks"] \in Nat /\ s.did[x]["misses"] \in Nat /\ s.did[x]["hits"] \in Nat
       /\ Asked(s) \in Nat /\ h \in {0, 1}
  BY Numbers DEF h
<1>14. x = "dl2" => Asked(t) = Asked(s) + h
  BY <1>6, <1>8, <1>13 DEF Asked
<1>15. x # "dl2" => /\ Asked(t) - t.did[x]["misses"] - t.did[x]["writebacks"]
                         = Asked(s) - s.did[x]["misses"] - s.did[x]["writebacks"]
                    /\ Kept(s, "dl2", {}) => Kept(t, "dl2", {})
  <2>0. "dl2" \in Caches
    BY SimCacheAssumption
  <2>1. x # "dl2" => Asked(t) = Asked(s)
    BY <1>6, <2>0 DEF Asked
  <2>. QED  BY <1>6, <1>8, <2>0, <2>1, KeptSame
<1>16. i \in Here(x, u, addr) /\ (cmd = "Write" => u.blks[r][i].dirty)
  <2>1. c.blks[r][i].dirty \in BOOLEAN
    BY <1>1 DEF CacheOK, CacheType, Block
  <2>. QED  BY <1>1, <1>2, <2>1 DEF Here, r
<1>17. ASSUME Kept(s, x, exempt)  PROVE Kept(t, x, {})
  <2>. SUFFICES ASSUME NEW w \in Words, t.newest[w] = x  PROVE Held(x, u, w)
    BY <1>6 DEF Kept
  <2>1. w \in Int
    BY SimCacheAssumption
  <2>2. CASE w \in exempt
    <3>1. cmd = "Write" /\ Line(x, w) = Line(x, addr)
      BY <2>2 DEF exempt
    <3>2. CACHE_SET(x, w) = r /\ CACHE_TAG(x, w) = CACHE_TAG(x, addr)
      BY <2>1, <3>1, SamePlace DEF r
    <3>3. Here(x, u, w) = Here(x, u, addr)
      BY <3>2 DEF Here, r
    <3>. QED  BY <1>16, <3>1, <3>2, <3>3 DEF Held
  <2>3. CASE w \notin exempt
    <3>1. Held(x, s.cache[x], w)
      BY <1>6, <1>17, <2>3 DEF Kept
    <3>2. CACHE_SET(x, w) \in Sets(x)
      BY <2>1, Places
    <3>3. ASSUME NEW j \in Ways(x)
          PROVE  LET p == s.cache[x].blks[CACHE_SET(x, w)][j]
                     q == u.blks[CACHE_SET(x, w)][j]
                 IN  p.valid /\ p.dirty /\ p.tag = CACHE_TAG(x, w) => q.valid /\ q.dirty /\ q.tag = p.tag
      <4>. DEFINE v == CACHE_SET(x, w)
      <4>1. v \in Sets(x)
        BY <3>2
      <4>. HIDE DEF v
      <4>2. /\ u.blks[v][j].valid = c.blks[v][j].valid /\ u.blks[v][j].tag = c.blks[v][j].tag
            /\ c.blks[v][j].dirty => u.blks[v][j].dirty
        BY <1>2, <4>1
      <4>3. c.blks[v][j] = s.cache[x].blks[v][j]
        OBVIOUS
      <4>. QED  BY <4>2, <4>3 DEF v
    <3>. QED  BY <2>1, <3>1, <3>3, HeldOn
  <2>. QED  BY <2>2, <2>3
<1>18. ASSUME NEW a \in Int  PROVE Here(x, t.cache[x], a) = Here(x, s.cache[x], a)
  <2>1. CACHE_SET(x, a) \in Sets(x)
    BY Places
  <2>2. \A j \in Ways(x) : /\ t.cache[x].blks[CACHE_SET(x, a)][j].valid = s.cache[x].blks[CACHE_SET(x, a)][j].valid
                            /\ t.cache[x].blks[CACHE_SET(x, a)][j].tag = s.cache[x].blks[CACHE_SET(x, a)][j].tag
    BY <1>2, <1>6, <2>1
  <2>. QED  BY <2>2 DEF Here
<1>19. s.did[x]["writebacks"] <= t.did[x]["writebacks"]
  BY <1>6, <1>8, <1>13
<1>20. /\ Here(x, t.cache[x], addr) # {}
       /\ Config[x].policy = "LRU" => t.cache[x].way[CACHE_SET(x, addr)][1] \in Here(x, t.cache[x], addr)
  BY <1>2, <1>6, <1>16
<1>21. ASSUME NEW a \in Int, s.cache[x].way[CACHE_SET(x, a)][1] \in Here(x, s.cache[x], a)
       PROVE  Here(x, t.cache[x], a) # {}
  BY <1>18, <1>21
<1>22. x # "dl1" => \A w \in Words : t.newest[w] = "dl1" <=> s.newest[w] = "dl1"
  BY <1>6
<1>. QED  BY <1>11, <1>12, <1>14, <1>15, <1>17, <1>19, <1>20, <1>21, <1>22 DEF Accessed, h, exempt

\* The program has run into undefined behaviour, and nothing else happens
LEMMA FaultAccessed ==
    ASSUME Configured, NEW x \in Caches, NEW s, Good(s), NEW cmd, NEW addr, NEW prefetch,
           NEW fault \in Faults \ {"none"}
    PROVE  Accessed(s, [s EXCEPT !.fault = fault], x, cmd, addr, prefetch)
<1>. DEFINE t == [s EXCEPT !.fault = fault]
<1>1. s \in SimType
  BY DEF Good
<1>2. /\ t \in SimType /\ t.cache = s.cache /\ t.did = s.did /\ t.newest = s.newest /\ t.fault = fault
      /\ SameTables(s, t)
  BY <1>1 DEF SimType, SameTables
<1>. HIDE DEF t
<1>3. Good(t)
  BY <1>2, SameTablesOK DEF Good
<1>4. Steps(s, t, {x, "dl2"})
  BY <1>2, <1>3 DEF Steps, Net
<1>5. Trained(s, t) /\ t.rpt = s.rpt /\ t.rpt_open = s.rpt_open
  BY <1>2 DEF Trained, SameTables
<1>6. s.did[x]["writebacks"] \in Nat
  BY Numbers
<1>7. s.did[x]["writebacks"] <= t.did[x]["writebacks"]
  BY <1>2, <1>6
<1>8. t.fault # "none"
  BY <1>2
<1>. QED  BY <1>2, <1>4, <1>5, <1>7, <1>8 DEF Accessed, t

\* A simulation that has stopped stays as it is
LEMMA StoppedAccessed ==
    ASSUME Configured, NEW x \in Caches, NEW s, Good(s), NEW cmd, NEW addr, NEW prefetch, s.fault # "none"
    PROVE  Accessed(s, s, x, cmd, addr, prefetch)
<1>1. s.fault \in Faults \ {"none"} /\ s = [s EXCEPT !.fault = s.fault]
  BY DEF Good, SimType
<1>. QED  BY <1>1, FaultAccessed

-----------------------------------------------------------------------------
(* An access to the second level *)

\* Main memory takes what is written to it
LEMMA LowerMemory ==
    ASSUME NEW s, Good(s), NEW cmd, NEW baddr, NEW pc, NEW prefetch, NEW n,
           NEW t \in dl2_access_fn(s, "dl2", cmd, baddr, pc, prefetch)
    PROVE  Lower(s, t, "dl2", IF cmd = "Write" THEN WordsOf("dl2", baddr) ELSE {}, n)
<1>. DEFINE words == WordsOf("dl2", baddr)
            new == [w \in Words |-> IF w \in words /\ s.newest[w] = "dl2" THEN "mem" ELSE s.newest[w]]
<1>1. s \in SimType
  BY DEF Good
<1>2. CASE cmd # "Write"
  <2>1. t = s
    BY <1>2 DEF dl2_access_fn
  <2>. QED  BY <1>2, <2>1, StepsRefl DEF Lower, Trained
<1>3. CASE cmd = "Write"
  <2>1. t = [s EXCEPT !.newest = new]
    BY <1>1, <1>3 DEF dl2_access_fn, Moved, SimType
  <2>2. new \in Newest
    BY <1>1 DEF SimType, Newest
  <2>3. \A w \in Words, y \in {"dl1", "dl2"} : new[w] = y <=> s.newest[w] = y /\ ~(y = "dl2" /\ w \in words)
    OBVIOUS
  <2>. HIDE DEF new
  <2>4. /\ t \in SimType /\ t.newest = new /\ t.cache = s.cache /\ t.did = s.did /\ t.fault = s.fault
        /\ SameTables(s, t)
    BY <1>1, <2>1, <2>2 DEF SimType, SameTables
  <2>5. Good(t)
    BY <2>4, SameTablesOK DEF Good
  <2>6. Steps(s, t, {"dl2"} \ {"dl2"})
    BY <2>4, <2>5 DEF Steps, Net
  <2>7. Trained(s, t) /\ t.rpt = s.rpt /\ t.rpt_open = s.rpt_open
    BY <2>4 DEF Trained, SameTables
  <2>. QED  BY <1>3, <2>3, <2>4, <2>6, <2>7 DEF Lower
<1>. QED  BY <1>2, <1>3

\* The victim of a set under LRU is its last block
LEMMA VictimLast ==
    ASSUME Configured, NEW x \in Caches, NEW s, Good(s), NEW r \in Sets(x)
    PROVE  /\ \A i \in SecondLevel!Victims(s, x, r) :
                 i \in Ways(x) /\ (Config[x].policy = "LRU" => i = s.cache[x].way[r][Config[x].assoc])
           /\ \A i \in FirstLevel!Victims(s, x, r) :
                 i \in Ways(x) /\ (Config[x].policy = "LRU" => i = s.cache[x].way[r][Config[x].assoc])
<1>. DEFINE order == s.cache[x].way[r]
            n == Config[x].assoc
<1>1. n \in Nat \ {0} /\ Ways(x) = 1 .. n
  BY Geometry DEF Ways
<1>2. order \in [Ways(x) -> Ways(x)]
  BY DEF Good, CacheOK, CacheType
<1>. HIDE DEF order, n
<1>3. order \in Seq(1 .. n) /\ Len(order) = n /\ order[n] \in Ways(x)
  BY <1>1, <1>2
<1>4. FirstLevel!Last(order) = order[n] /\ SecondLevel!Last(order) = order[n]
  BY <1>3 DEF FirstLevel!Last, SecondLevel!Last
<1>. QED  BY <1>3, <1>4, SamePlaces DEF order, n, FirstLevel!Victims, SecondLevel!Victims

\* The state in which the victim i is written back, and before its counters
Evicting(s, x, addr, prefetch, i) ==
    LET r == CACHE_SET(x, addr)
        c == s.cache[x]
    IN  Put(s, x, Freed(x, c, r, i), Missed(s.did[x], c.blks[r][i], prefetch))

FirstMissed(s, x, addr, prefetch, i) ==
    FirstLevel!Unlinked(FirstLevel!Counted(s, x, FirstLevel!MissCounter(prefetch)), x, CACHE_SET(x, addr), i)

SecondMissed(s, x, addr, prefetch, i) ==
    SecondLevel!Unlinked(SecondLevel!Counted(s, x, SecondLevel!MissCounter(prefetch)), x, CACHE_SET(x, addr), i)

\* What the evictions of the two levels are
Evictions(s, x, addr, prefetch, i, pc) ==
    LET r == CACHE_SET(x, addr)
        b == s.cache[x].blks[r][i]
        m == Evicting(s, x, addr, prefetch, i)
    IN  /\ FirstLevel!Evicted(FirstMissed(s, x, addr, prefetch, i), x, r, pc, i)
             = IF b.valid /\ b.dirty
               THEN l1_access_fn(m, x, "Write", CACHE_MK_BADDR(x, b.tag, r), pc, FALSE)
               ELSE {m}
        /\ SecondLevel!Evicted(SecondMissed(s, x, addr, prefetch, i), x, r, pc, i)
             = IF b.valid /\ b.dirty
               THEN dl2_access_fn(m, x, "Write", CACHE_MK_BADDR(x, b.tag, r), pc, FALSE)
               ELSE {m}

\* The eviction of a fill, split by level and by the dirty bit
LEMMA EvictedPut ==
    ASSUME Configured, NEW x \in Caches, NEW s, Good(s), NEW addr \in Int, NEW prefetch \in BOOLEAN,
           NEW i \in Ways(x), NEW pc
    PROVE  Evictions(s, x, addr, prefetch, i, pc)
<1>. DEFINE r == CACHE_SET(x, addr)
            c == s.cache[x]
            b == c.blks[r][i]
            k == MissCounter(prefetch)
            d1 == Plus(s.did[x], k)
            d2 == IF b.valid THEN Plus(d1, "replacements") ELSE d1
            d3 == Plus(d2, "writebacks")
            cf == Freed(x, c, r, i)
            m1 == Put(s, x, cf, d1)
            m2 == Put(s, x, cf, d2)
            m3 == Put(s, x, cf, d3)
            first == FirstLevel!Unlinked(FirstLevel!Counted(s, x, FirstLevel!MissCounter(prefetch)), x, r, i)
            second == SecondLevel!Unlinked(SecondLevel!Counted(s, x, SecondLevel!MissCounter(prefetch)), x, r, i)
<1>1. s \in SimType /\ CacheOK(x, c) /\ r \in Sets(x) /\ b \in Block /\ s.did[x] \in CounterSets /\ c \in CacheType(x)
  <2>1. s \in SimType /\ CacheOK(x, c) /\ r \in Sets(x) /\ s.did[x] \in CounterSets
    BY Places DEF Good, SimType
  <2>2. c \in CacheType(x)
    BY <2>1 DEF CacheOK
  <2>. QED  BY <2>1, <2>2 DEF CacheType
<1>2. cf \in CacheType(x) /\ cf.blks = c.blks
  <2>. HIDE DEF r, c
  <2>. QED  BY <1>1, FreedOK DEF CacheOK
<1>3. d1 \in CounterSets /\ d2 \in CounterSets
  <2>1. k \in Counters /\ "replacements" \in Counters
    BY DEF MissCounter, Counters
  <2>2. d1 \in CounterSets
    BY <1>1, <2>1, PlusCounter
  <2>. HIDE DEF d1
  <2>3. Plus(d1, "replacements") \in CounterSets
    BY <2>1, <2>2, PlusCounter
  <2>. QED  BY <2>2, <2>3
<1>4. FirstLevel!MissCounter(prefetch) = k /\ SecondLevel!MissCounter(prefetch) = k
  BY DEF FirstLevel!MissCounter, SecondLevel!MissCounter, MissCounter
<1>5. b.valid \in BOOLEAN /\ b.dirty \in BOOLEAN
  BY <1>1 DEF Block
<1>6. Missed(s.did[x], b, prefetch) = IF b.valid /\ b.dirty THEN d3 ELSE d2
  BY DEF Missed
<1>. HIDE DEF r, c, b, k, d1, d2, d3, cf
<1>7. first = m1 /\ second = m1
  <2>. DEFINE q == Put(s, x, c, d1)
  <2>1. FirstLevel!Counted(s, x, k) = q /\ SecondLevel!Counted(s, x, k) = q
    BY <1>1, CountedPut DEF c, d1
  <2>2. /\ q \in SimType /\ q.cache[x] = c /\ q.did[x] = d1
        /\ \A e, g : Put(q, x, e, g) = Put(s, x, e, g)
    BY <1>1, <1>3, PutFields
  <2>. HIDE DEF q
  <2>3. FirstLevel!Unlinked(q, x, r, i) = Put(q, x, cf, d1) /\ SecondLevel!Unlinked(q, x, r, i) = Put(q, x, cf, d1)
    BY <2>2, UnlinkedPut DEF cf
  <2>. QED  BY <1>4, <2>1, <2>2, <2>3
<1>8. /\ m1 \in SimType /\ m1.cache[x] = cf /\ m1.did[x] = d1
      /\ \A e, g : Put(m1, x, e, g) = Put(s, x, e, g)
  BY <1>1, <1>2, <1>3, PutFields
<1>9. /\ m2 \in SimType /\ m2.cache[x] = cf /\ m2.did[x] = d2
      /\ \A e, g : Put(m2, x, e, g) = Put(s, x, e, g)
  BY <1>1, <1>2, <1>3, PutFields
<1>. HIDE DEF first, second
<1>10. b.valid => FirstLevel!Counted(m1, x, "replacements") = m2 /\ SecondLevel!Counted(m1, x, "replacements") = m2
  <2>1. Put(m1, x, cf, Plus(d1, "replacements")) = Put(s, x, cf, Plus(d1, "replacements"))
    BY <1>8
  <2>. HIDE DEF m1
  <2>. QED  BY <1>8, <2>1, CountedPut DEF d2
<1>11. ~b.valid => m1 = m2
  BY DEF d2
<1>12. FirstLevel!Counted(m2, x, "writebacks") = m3 /\ SecondLevel!Counted(m2, x, "writebacks") = m3
  <2>1. Put(m2, x, cf, d3) = Put(s, x, cf, d3)
    BY <1>9
  <2>. HIDE DEF m2
  <2>. QED  BY <1>9, <2>1, CountedPut DEF d3
<1>13. m1.cache[x].blks[r][i] = b
  BY <1>2, <1>8 DEF b
<1>. HIDE DEF m1, m2, m3
<1>14. /\ FirstLevel!Evicted(first, x, r, pc, i)
            = IF b.valid /\ b.dirty
              THEN l1_access_fn(m3, x, "Write", CACHE_MK_BADDR(x, b.tag, r), pc, FALSE) ELSE {m2}
       /\ SecondLevel!Evicted(second, x, r, pc, i)
            = IF b.valid /\ b.dirty
              THEN dl2_access_fn(m3, x, "Write", CACHE_MK_BADDR(x, b.tag, r), pc, FALSE) ELSE {m2}
  <2>1. /\ FirstLevel!CACHE_MK_BADDR(x, b.tag, r) = CACHE_MK_BADDR(x, b.tag, r)
        /\ SecondLevel!CACHE_MK_BADDR(x, b.tag, r) = CACHE_MK_BADDR(x, b.tag, r)
    BY SamePlaces
  <2>2. (FirstLevel!NeedsWriteback(b) <=> b.valid /\ b.dirty) /\ (SecondLevel!NeedsWriteback(b) <=> b.valid /\ b.dirty)
    BY DEF FirstLevel!NeedsWriteback, SecondLevel!NeedsWriteback
  <2>3. (IF b.valid THEN FirstLevel!Counted(m1, x, "replacements") ELSE m1) = m2
        /\ (IF b.valid THEN SecondLevel!Counted(m1, x, "replacements") ELSE m1) = m2
    BY <1>5, <1>10, <1>11
  <2>. QED  BY <1>7, <1>12, <1>13, <2>1, <2>2, <2>3 DEF FirstLevel!Evicted, SecondLevel!Evicted
<1>15. IF b.valid /\ b.dirty THEN m3 = Put(s, x, cf, Missed(s.did[x], b, prefetch))
                             ELSE m2 = Put(s, x, cf, Missed(s.did[x], b, prefetch))
  BY <1>6 DEF m2, m3
<1>16. Evicting(s, x, addr, prefetch, i) = Put(s, x, cf, Missed(s.did[x], b, prefetch))
  BY DEF Evicting, cf, b, c, r
<1>17. FirstMissed(s, x, addr, prefetch, i) = first /\ SecondMissed(s, x, addr, prefetch, i) = second
  BY DEF FirstMissed, SecondMissed, first, second, r
<1>18. /\ FirstLevel!Evicted(FirstMissed(s, x, addr, prefetch, i), x, r, pc, i)
            = IF b.valid /\ b.dirty
              THEN l1_access_fn(Evicting(s, x, addr, prefetch, i), x, "Write", CACHE_MK_BADDR(x, b.tag, r), pc, FALSE)
              ELSE {Evicting(s, x, addr, prefetch, i)}
       /\ SecondLevel!Evicted(SecondMissed(s, x, addr, prefetch, i), x, r, pc, i)
            = IF b.valid /\ b.dirty
              THEN dl2_access_fn(Evicting(s, x, addr, prefetch, i), x, "Write", CACHE_MK_BADDR(x, b.tag, r), pc, FALSE)
              ELSE {Evicting(s, x, addr, prefetch, i)}
  BY <1>14, <1>15, <1>16, <1>17
<1>. QED  BY <1>18 DEF Evictions, r, c, b

\* The states before the calls of a fill
LEMMA FillStarts ==
    ASSUME Configured, NEW x \in Caches, NEW s, Good(s), NEW addr \in Int, NEW prefetch \in BOOLEAN,
           NEW i \in Ways(x), Here(x, s.cache[x], addr) = {}, NEW m, NEW e,
           LET r == CACHE_SET(x, addr)
           IN  m = Put(s, x, Freed(x, s.cache[x], r, i), Missed(s.did[x], s.cache[x].blks[r][i], prefetch))
    PROVE  /\ Good(m)
           /\ Steps(m, e, {"dl2"} \ {x}) =>
                /\ [e EXCEPT !.cache[x].blks[CACHE_SET(x, addr)][i] =
                        [tag |-> CACHE_TAG(x, addr), valid |-> TRUE, dirty |-> FALSE]]
                      = Put(e, x, Named(x, e.cache[x], addr, i), e.did[x])
                /\ Good(Put(e, x, Named(x, e.cache[x], addr, i), e.did[x]))
<1>. DEFINE r == CACHE_SET(x, addr)
            c == s.cache[x]
            b == c.blks[r][i]
            cf == Freed(x, c, r, i)
            d == Missed(s.did[x], b, prefetch)
<1>1. CacheOK(x, c) /\ b \in Block /\ s.did[x] \in CounterSets /\ s \in SimType
  BY SMTT(30), Places DEF Good, SimType, CacheOK, CacheType
<1>2. CacheOK(x, cf) /\ CacheOK(x, Named(x, cf, addr, i)) /\ cf \in CacheType(x)
  <2>1. CacheOK(x, cf) /\ CacheOK(x, Named(x, cf, addr, i))
    BY <1>1, FilledCache
  <2>. QED  BY <2>1 DEF CacheOK
<1>3. d \in CounterSets
  BY <1>1, MissedCounters
<1>4. m = Put(s, x, cf, d)
  OBVIOUS
<1>. HIDE DEF cf, d, b, c
<1>5. Good(m) /\ m.cache[x] = cf
  BY <1>1, <1>2, <1>3, <1>4, PutGood, PutFields
<1>6. ASSUME Steps(m, e, {"dl2"} \ {x})
      PROVE  /\ [e EXCEPT !.cache[x].blks[CACHE_SET(x, addr)][i] =
                    [tag |-> CACHE_TAG(x, addr), valid |-> TRUE, dirty |-> FALSE]]
                  = Put(e, x, Named(x, e.cache[x], addr, i), e.did[x])
             /\ Good(Put(e, x, Named(x, e.cache[x], addr, i), e.did[x]))
  <2>1. Good(e) /\ e.cache[x] = cf /\ e \in SimType /\ e.did[x] \in CounterSets
    BY <1>5, <1>6 DEF Steps, Good, SimType
  <2>2. Good(Put(e, x, Named(x, e.cache[x], addr, i), e.did[x]))
    BY <1>2, <2>1, PutGood
  <2>3. [e EXCEPT !.cache[x].blks[CACHE_SET(x, addr)][i] =
            [tag |-> CACHE_TAG(x, addr), valid |-> TRUE, dirty |-> FALSE]]
          = Put(e, x, Named(x, e.cache[x], addr, i), e.did[x])
    BY <2>1, NamedPut
  <2>. QED  BY <2>2, <2>3
<1>. QED  BY <1>5, <1>6

\* A fill of the second level goes through these states
LEMMA FillSecond ==
    ASSUME Configured, NEW s, Good(s), NEW cmd, NEW addr \in Int, NEW prefetch \in BOOLEAN,
           NEW pc, NEW i \in Ways("dl2"), Here("dl2", s.cache["dl2"], addr) = {},
           NEW t \in SecondLevel!Fill(s, "dl2", cmd, addr, pc, prefetch, i)
    PROVE  \E m, e, n, f : FillFrom(s, "dl2", cmd, addr, prefetch, i, m, e, n, f, t)
<1>. DEFINE x == "dl2"
            r == CACHE_SET(x, addr)
            c == s.cache[x]
            b == c.blks[r][i]
            wb == b.valid /\ b.dirty
            m == Evicting(s, x, addr, prefetch, i)
            second == SecondMissed(s, x, addr, prefetch, i)
            named(e) == [e EXCEPT !.cache[x].blks[r][i] =
                            [tag |-> CACHE_TAG(x, addr), valid |-> TRUE, dirty |-> FALSE]]
            words == WordsOf(x, CACHE_MK_BADDR(x, b.tag, r))
            next(e) == Put(e, x, Named(x, e.cache[x], addr, i), e.did[x])
<1>1. "dl2" \in Caches
  BY SimCacheAssumption
<1>2. SecondLevel!Evicted(second, x, r, pc, i)
        = IF wb THEN dl2_access_fn(m, x, "Write", CACHE_MK_BADDR(x, b.tag, r), pc, FALSE) ELSE {m}
  <2>1. Evictions(s, x, addr, prefetch, i, pc)
    BY <1>1, EvictedPut
  <2>. HIDE DEF x
  <2>. QED  BY <2>1 DEF Evictions
<1>3. Good(m) /\ \A e : Steps(m, e, {"dl2"} \ {x}) => named(e) = next(e) /\ Good(next(e))
  <2>1. ASSUME NEW e  PROVE Good(m) /\ (Steps(m, e, {"dl2"} \ {x}) => named(e) = next(e) /\ Good(next(e)))
    BY <1>1, FillStarts DEF Evicting
  <2>. QED  BY <2>1
<1>. HIDE DEF m, second, b
<1>4. \E e \in SecondLevel!Evicted(second, x, r, pc, i) :
         \E f \in dl2_access_fn(named(e), x, "Read", CACHE_TAGSET(x, addr), pc, prefetch) :
            t = SecondLevel!SetDirty(f, x, r, i, cmd)
  BY SamePlaces DEF SecondLevel!Fill, second, SecondMissed
<1>. HIDE DEF next, named
<1>5. PICK e \in SecondLevel!Evicted(second, x, r, pc, i) :
         \E f \in dl2_access_fn(named(e), x, "Read", CACHE_TAGSET(x, addr), pc, prefetch) :
            t = SecondLevel!SetDirty(f, x, r, i, cmd)
  BY <1>4
<1>6. PICK f \in dl2_access_fn(named(e), x, "Read", CACHE_TAGSET(x, addr), pc, prefetch) :
         t = SecondLevel!SetDirty(f, x, r, i, cmd)
  BY <1>5
<1>7. IF wb THEN Lower(m, e, x, words, 1) ELSE e = m
  BY <1>2, <1>3, <1>5, LowerMemory
<1>8. Steps(m, e, {"dl2"} \ {x})
  BY <1>3, <1>7, LowerRefl DEF Lower
<1>9. named(e) = next(e) /\ Good(next(e))
  BY <1>3, <1>8
<1>10. Lower(next(e), f, x, {}, IF prefetch THEN 0 ELSE 1)
  BY <1>6, <1>9, LowerMemory
<1>11. t = Put(f, x, Dirtied(f.cache[x], r, i, cmd), f.did[x])
  <2>1. f \in SimType
    BY <1>10 DEF Lower, Steps, Good
  <2>. QED  BY <1>1, <1>6, <2>1, DirtyPut
<1>12. FillFrom(s, x, cmd, addr, prefetch, i, m, e, next(e), f, t)
  BY <1>7, <1>10, <1>11 DEF FillFrom, m, next, b, Evicting
<1>. QED  BY <1>12

\* An access to the second level
LEMMA AccessSecond ==
    ASSUME Configured, NEW s, Good(s), NEW cmd, NEW addr \in Int, NEW prefetch \in BOOLEAN, NEW pc,
           NEW t \in SecondLevel!Access(s, "dl2", cmd, addr, pc, prefetch)
    PROVE  Accessed(s, t, "dl2", cmd, addr, prefetch)
<1>. DEFINE x == "dl2"
            c == s.cache[x]
            r == CACHE_SET(x, addr)
            d == Plus(s.did[x], HitCounter(prefetch))
<1>1. x \in Caches /\ CacheOK(x, c) /\ s \in SimType /\ r \in Sets(x)
  BY Places, SimCacheAssumption DEF Good
<1>2. CASE s.fault # "none"
  <2>1. t = s
    BY <1>2 DEF SecondLevel!Access
  <2>. QED  BY <1>1, <1>2, <2>1, StoppedAccessed
<1>3. CASE s.fault = "none" /\ CACHE_TAGSET(x, addr) = c.last_tagset
  <2>1. t = SecondLevel!FastHit(s, x, cmd, prefetch)
    BY <1>3, SamePlaces DEF SecondLevel!Access
  <2>2. CASE c.last_blk = NULL
    <3>1. t = [s EXCEPT !.fault = "NULL block"]
      BY <2>1, <2>2, SamePlaces DEF SecondLevel!FastHit
    <3>2. "NULL block" \in Faults \ {"none"}
      BY DEF Faults
    <3>. QED  BY <1>1, <3>1, <3>2, FaultAccessed
  <2>3. CASE c.last_blk # NULL
    <3>1. PICK i \in Here(x, c, addr) :
             /\ SecondLevel!FastHit(s, x, cmd, prefetch) = Put(s, x, Dirtied(c, r, i, cmd), d)
             /\ Config[x].policy = "LRU" => c.way[r][1] = i
      BY <1>1, <1>3, <2>3, FastHitPut
    <3>. QED  BY <1>1, <2>1, <3>1, HitAccessed
  <2>. QED  BY <2>2, <2>3
<1>4. CASE s.fault = "none" /\ CACHE_TAGSET(x, addr) # c.last_tagset /\ Here(x, c, addr) # {}
  <2>1. PICK i \in Here(x, c, addr) : t = SecondLevel!Hit(s, x, cmd, addr, prefetch, i)
    BY <1>4, SamePlaces, SameFound DEF SecondLevel!Access
  <2>. DEFINE e == Touched(x, c, addr, i)
  <2>2. t = Put(s, x, Dirtied(e, r, i, cmd), d)
    BY <1>1, <2>1, HitPut
  <2>3. CacheOK(x, e) /\ e.blks = c.blks /\ (Config[x].policy = "LRU" => e.way[r][1] = i)
    <3>. HIDE DEF c
    <3>. QED  BY <1>1, <2>1, TouchedOK
  <2>. HIDE DEF e
  <2>4. i \in Here(x, e, addr)
    BY <2>1, <2>3 DEF Here
  <2>. QED  BY <1>1, <2>2, <2>3, <2>4, HitAccessed
<1>5. CASE s.fault = "none" /\ CACHE_TAGSET(x, addr) # c.last_tagset /\ Here(x, c, addr) = {}
  <2>1. PICK i \in SecondLevel!Victims(s, x, r) : t \in SecondLevel!Fill(s, x, cmd, addr, pc, prefetch, i)
    BY <1>5, SamePlaces, SameFound DEF SecondLevel!Access
  <2>2. i \in Ways(x) /\ (Config[x].policy = "LRU" => i = c.way[r][Config[x].assoc])
    BY <1>1, <2>1, VictimLast
  <2>3. \E m, e, n, f : FillFrom(s, x, cmd, addr, prefetch, i, m, e, n, f, t)
    BY <1>5, <2>1, <2>2, FillSecond
  <2>. QED  BY <1>1, <1>5, <2>2, <2>3, FillAccessed
<1>. QED  BY <1>2, <1>3, <1>4, <1>5

-----------------------------------------------------------------------------
(* The prefetchers' tables *)

\* The two instances of Cache train the tables in the same way
LEMMA SameTraining ==
    ASSUME NEW e, NEW a, NEW b
    PROVE  /\ SecondLevel!update_entry(e, a, b) = FirstLevel!update_entry(e, a, b)
           /\ SecondLevel!Walked(e, a, b) = FirstLevel!Walked(e, a, b)
           /\ SecondLevel!Recorded(e, a) = FirstLevel!Recorded(e, a)
           /\ FirstLevel!NoEntry = NoEntry /\ SecondLevel!NoEntry = NoEntry
BY DEF SecondLevel!update_entry, FirstLevel!update_entry, SecondLevel!NextState, FirstLevel!NextState,
       SecondLevel!Walked, FirstLevel!Walked, SecondLevel!Recorded, FirstLevel!Recorded,
       SecondLevel!Slid, FirstLevel!Slid, FirstLevel!NoEntry, SecondLevel!NoEntry, NoEntry

\* The addresses after one more
LEMMA WalkedOn ==
    ASSUME NEW w \in Seq(Int), Len(w) <= 4, NEW addr \in Int
    PROVE  /\ FirstLevel!Walked(w, FALSE, addr) = <<addr>>
           /\ LET v == FirstLevel!Walked(w, TRUE, addr)
                  n == Len(w)
                  m == IF n = 4 THEN 4 ELSE n + 1
              IN  /\ v \in Seq(Int) /\ Len(v) = m /\ v[m] = addr
                  /\ n >= 1 => v[m - 1] = w[n]
                  /\ n >= 2 => v[m - 2] = w[n - 1]
                  /\ n >= 3 => v[m - 3] = w[n - 2]
<1>. DEFINE n == Len(w)
            m == IF n = 4 THEN 4 ELSE n + 1
            longer == Append(w, addr)
            v == FirstLevel!Walked(w, TRUE, addr)
<1>1. FirstLevel!Walked(w, FALSE, addr) = <<addr>>
  <2>1. Append(<<>>, addr) = <<addr>> /\ Len(<<addr>>) = 1
    OBVIOUS
  <2>. QED  BY <2>1 DEF FirstLevel!Walked
<1>2. v = IF Len(longer) > 4 THEN Tail(longer) ELSE longer
  BY DEF FirstLevel!Walked
<1>3. /\ n \in Nat /\ n <= 4 /\ longer \in Seq(Int) /\ Len(longer) = n + 1 /\ longer[n + 1] = addr
      /\ \A k \in 1 .. n : longer[k] = w[k]
  OBVIOUS
<1>. HIDE DEF v, longer, n
<1>4. CASE n = 4
  <2>1. v = Tail(longer)
    BY <1>2, <1>3, <1>4
  <2>2. v \in Seq(Int) /\ Len(v) = 4 /\ \A k \in 1 .. 4 : v[k] = longer[k + 1]
    <3>0. Len(longer) = 5 /\ Len(<<>>) = 0
      BY <1>3, <1>4
    <3>1. longer \in Seq(Int) /\ longer # <<>> /\ Len(longer) = 5
      <4>1. Len(longer) # Len(<<>>)
        BY <3>0
      <4>2. longer # <<>>
        BY <4>1, Zenon
      <4>. QED  BY <1>3, <3>0, <4>2
    <3>2. v \in Seq(Int) /\ Len(v) = Len(longer) - 1 /\ \A k \in 1 .. Len(v) : v[k] = longer[k + 1]
      BY <2>1, <3>1, HeadTailProperties
    <3>. QED  BY <3>1, <3>2
  <2>3. v[4] = addr /\ v[3] = w[4] /\ v[2] = w[3] /\ v[1] = w[2]
    BY <1>3, <1>4, <2>2
  <2>4. m = 4
    BY <1>4
  <2>5. v \in Seq(Int) /\ Len(v) = m /\ v[m] = addr /\ v[m - 1] = w[n] /\ v[m - 2] = w[n - 1] /\ v[m - 3] = w[n - 2]
    <3>. HIDE DEF m
    <3>. QED  BY <1>4, <2>2, <2>3, <2>4
  <2>. HIDE DEF m
  <2>. QED  BY <1>1, <2>5 DEF n, v, m
<1>5. CASE n # 4
  <2>1. v = longer
    BY <1>2, <1>3, <1>5
  <2>2. m = n + 1 /\ v \in Seq(Int) /\ Len(v) = m /\ v[m] = addr
    BY <1>3, <1>5, <2>1
  <2>3. \A k \in 1 .. n : v[k] = w[k]
    BY <1>3, <2>1
  <2>4. /\ n >= 1 => v[m - 1] = w[n]
        /\ n >= 2 => v[m - 2] = w[n - 1]
        /\ n >= 3 => v[m - 3] = w[n - 2]
    <3>1. /\ n >= 1 => m - 1 = n /\ n \in 1 .. n
          /\ n >= 2 => m - 2 = n - 1 /\ n - 1 \in 1 .. n
          /\ n >= 3 => m - 3 = n - 2 /\ n - 2 \in 1 .. n
      BY <1>3, <2>2
    <3>. HIDE DEF m
    <3>. QED  BY <2>3, <3>1
  <2>. HIDE DEF m
  <2>. QED  BY <1>1, <2>2, <2>4 DEF n, v, m
<1>. QED  BY <1>4, <1>5

\* An entry goes on fitting the addresses of its owner
LEMMA EntryUpdate ==
    ASSUME NEW e \in Entries, NEW w \in Seq(Int), EntryFits(e, w), NEW addr \in Int, NEW pc \in Nat \ {0}
    PROVE  /\ FirstLevel!update_entry(e, addr, pc) \in Entries
           /\ FirstLevel!Walked(w, e.tag = pc, addr) \in Seq(Int)
           /\ EntryFits(FirstLevel!update_entry(e, addr, pc), FirstLevel!Walked(w, e.tag = pc, addr))
<1>. DEFINE u == FirstLevel!update_entry(e, addr, pc)
            v == FirstLevel!Walked(w, e.tag = pc, addr)
            n == Len(w)
            m == IF n = 4 THEN 4 ELSE n + 1
            D == addr - e.prev_addr
            same == D = e.stride
<1>1. /\ e.tag \in Nat /\ e.prev_addr \in Int /\ e.stride \in Int /\ e.state \in State
      /\ n \in Nat /\ n <= 4
  BY DEF Entries, EntryFits
<1>2. CASE e.tag # pc
  <2>1. u = [tag |-> pc, prev_addr |-> addr, stride |-> 0, state |-> "INIT"]
    BY <1>2 DEF FirstLevel!update_entry
  <2>2. v = <<addr>>
    <3>1. (e.tag = pc) = FALSE
      BY <1>2
    <3>. QED  BY <1>1, <3>1, WalkedOn
  <2>. HIDE DEF u, v
  <2>3. u \in Entries
    BY <2>1 DEF Entries, State
  <2>4. v \in Seq(Int) /\ Len(v) = 1 /\ v[1] = addr
    BY <2>2
  <2>5. u.tag = pc /\ u.prev_addr = addr /\ u.stride = 0 /\ u.state = "INIT"
    BY <2>1
  <2>6. EntryFits(u, v)
    BY <2>4, <2>5 DEF EntryFits
  <2>. QED  BY <2>3, <2>4, <2>6 DEF u, v
<1>3. CASE e.tag = pc
  <2>1. /\ n >= 1 /\ e.prev_addr = w[n]
        /\ n = 1 => e.state = "INIT" /\ e.stride = 0
        /\ n >= 2 => e.stride = w[n] - w[n - 1] \/ e.state = "INIT"
        /\ n >= 3 /\ w[n - 1] - w[n - 2] = w[n] - w[n - 1]
              => e.stride = w[n] - w[n - 1] /\ e.state \in {"STEADY", "TRANSIENT"}
    <3>1. n >= 1
      BY <1>1, <1>3 DEF EntryFits
    <3>. QED  BY <3>1 DEF EntryFits
  <2>2. /\ v \in Seq(Int) /\ Len(v) = m /\ v[m] = addr
        /\ v[m - 1] = w[n]
        /\ n >= 2 => v[m - 2] = w[n - 1]
        /\ n >= 3 => v[m - 3] = w[n - 2]
    <3>1. (e.tag = pc) = TRUE
      BY <1>3
    <3>2. v = FirstLevel!Walked(w, TRUE, addr)
      BY <3>1
    <3>. HIDE DEF v
    <3>. QED  BY <1>1, <2>1, <3>2, WalkedOn
  <2>3. /\ u.tag = pc /\ u.prev_addr = addr
        /\ u.stride = (IF e.state = "STEADY" THEN e.stride ELSE D)
        /\ u.state = FirstLevel!NextState(e.state, same)
        /\ u = [tag |-> u.tag, prev_addr |-> u.prev_addr, stride |-> u.stride, state |-> u.state]
    BY <1>3 DEF FirstLevel!update_entry
  <2>4. /\ same => FirstLevel!NextState(e.state, same) = IF e.state = "NO_PREDICTION" THEN "TRANSIENT" ELSE "STEADY"
        /\ ~same /\ e.state = "INIT" => FirstLevel!NextState(e.state, same) = "TRANSIENT"
        /\ ~same /\ e.state = "STEADY" => FirstLevel!NextState(e.state, same) = "INIT"
        /\ ~same /\ e.state \in {"TRANSIENT", "NO_PREDICTION"} =>
              FirstLevel!NextState(e.state, same) = "NO_PREDICTION"
    BY DEF FirstLevel!NextState
  <2>. HIDE DEF u, v, n
  <2>5. u.state \in State /\ u.stride \in Int
    BY <1>1, <2>3, <2>4 DEF State
  <2>6. u \in Entries
    BY <2>3, <2>5 DEF Entries
  <2>7. \A k \in 1 .. n : w[k] \in Int
    BY DEF n
  <2>8. m \in Nat /\ m >= 2 /\ m <= 4 /\ D \in Int /\ D = v[m] - v[m - 1]
    <3>1. m \in Nat /\ m >= 2 /\ m <= 4
      BY <1>1, <2>1
    <3>2. w[n] \in Int /\ D = addr - w[n] /\ v[m] - v[m - 1] = addr - w[n]
      BY <1>1, <2>1, <2>2, <2>7
    <3>. QED  BY <3>1, <3>2
  <2>9. u.stride = D \/ u.state = "INIT"
    BY <2>3, <2>4
  <2>10. m = 2 => u.state = (IF v[1] = v[2] THEN "STEADY" ELSE "TRANSIENT")
    <3>. SUFFICES ASSUME m = 2  PROVE u.state = (IF v[1] = v[2] THEN "STEADY" ELSE "TRANSIENT")
      OBVIOUS
    <3>1. n = 1
      BY <1>1, <2>1
    <3>2. same <=> v[1] = v[2]
      BY <2>1, <2>2, <2>7, <2>8, <3>1
    <3>. QED  BY <2>1, <2>3, <2>4, <3>1, <3>2
  <2>11. m >= 3 /\ v[m - 1] - v[m - 2] = D => u.stride = D /\ u.state \in {"STEADY", "TRANSIENT"}
    <3>. SUFFICES ASSUME m >= 3, v[m - 1] - v[m - 2] = D
                  PROVE  u.stride = D /\ u.state \in {"STEADY", "TRANSIENT"}
      OBVIOUS
    <3>1. n >= 2 /\ w[n] - w[n - 1] = D
      BY <1>1, <2>1, <2>2
    <3>2. same \/ e.state = "INIT"
      BY <2>1, <3>1
    <3>. QED  BY <1>1, <2>3, <2>4, <3>2 DEF State
  <2>12. m = 4 /\ v[3] - v[2] = D /\ v[2] - v[1] = D => u.state = "STEADY"
    <3>. SUFFICES ASSUME m = 4, v[3] - v[2] = D, v[2] - v[1] = D
                  PROVE  u.state = "STEADY"
      OBVIOUS
    <3>1. n >= 3 /\ w[n] - w[n - 1] = D /\ w[n - 1] - w[n - 2] = D
      BY <1>1, <2>1, <2>2
    <3>2. same /\ e.state \in {"STEADY", "TRANSIENT"}
      BY <2>1, <3>1
    <3>. QED  BY <2>3, <2>4, <3>2
  <2>. HIDE DEF m, D
  <2>13. EntryFits(u, v)
    <3>1. /\ Len(v) = m /\ m <= 4 /\ m >= 2 /\ m \in Nat /\ D = v[m] - v[m - 1]
          /\ u.prev_addr = v[m]
      BY <2>2, <2>3, <2>8
    <3>2. m = 4 => v[m] - v[m - 1] = v[4] - v[3]
      OBVIOUS
    <3>. QED  BY <2>9, <2>10, <2>11, <2>12, <3>1, <3>2 DEF EntryFits
  <2>. QED  BY <2>2, <2>6, <2>13 DEF u, v
<1>. QED  BY <1>2, <1>3

\* The addresses put into the buffer, with one more
Longer(seen, addr) ==
    LET longer == Append(seen, addr)
    IN  IF Len(longer) > GHB_SIZE THEN Tail(longer) ELSE longer

\* The history grows by an address, or slides
LEMMA LongerOn ==
    ASSUME NEW seen \in Seq(Int), Len(seen) <= GHB_SIZE, NEW addr \in Int
    PROVE  LET n == Len(seen)
               v == Longer(seen, addr)
           IN  /\ v \in Seq(Int)
               /\ n < GHB_SIZE => /\ Len(v) = n + 1 /\ v[n + 1] = addr
                                  /\ \A k \in 1 .. n : v[k] = seen[k]
               /\ n = GHB_SIZE => /\ Len(v) = n /\ v[n] = addr
                                  /\ \A k \in 1 .. n - 1 : v[k] = seen[k + 1]
<1>. DEFINE n == Len(seen)
            longer == Append(seen, addr)
            v == Longer(seen, addr)
<1>1. GHB_SIZE \in Nat /\ GHB_SIZE > 1
  BY SimCacheAssumption
<1>2. v = IF Len(longer) > GHB_SIZE THEN Tail(longer) ELSE longer
  BY DEF Longer
<1>3. /\ n \in Nat /\ n <= GHB_SIZE /\ longer \in Seq(Int) /\ Len(longer) = n + 1 /\ longer[n + 1] = addr
      /\ \A k \in 1 .. n : longer[k] = seen[k]
  OBVIOUS
<1>. HIDE DEF v, longer, n
<1>4. CASE n < GHB_SIZE
  <2>1. v = longer
    BY <1>1, <1>2, <1>3, <1>4
  <2>. QED  BY <1>1, <1>3, <1>4, <2>1 DEF n, v
<1>5. CASE n = GHB_SIZE
  <2>1. v = Tail(longer)
    BY <1>1, <1>2, <1>3, <1>5
  <2>2. longer # <<>>
    <3>1. Len(longer) # Len(<<>>)
      BY <1>1, <1>3, <1>5
    <3>. QED  BY <3>1, Zenon
  <2>3. v \in Seq(Int) /\ Len(v) = Len(longer) - 1 /\ \A k \in 1 .. Len(v) : v[k] = longer[k + 1]
    BY <1>3, <2>1, <2>2, HeadTailProperties
  <2>4. Len(v) = n /\ v[n] = addr /\ \A k \in 1 .. n - 1 : v[k] = seen[k + 1]
    <3>1. Len(v) = n /\ n \in 1 .. n
      BY <1>1, <1>3, <1>5, <2>3
    <3>2. v[n] = longer[n + 1]
      BY <2>3, <3>1
    <3>3. ASSUME NEW k \in 1 .. n - 1  PROVE v[k] = seen[k + 1]
      <4>1. k \in 1 .. n /\ k + 1 \in 1 .. n
        BY <1>3
      <4>2. v[k] = longer[k + 1] /\ longer[k + 1] = seen[k + 1]
        BY <1>3, <2>3, <3>1, <4>1
      <4>. QED  BY <4>2
    <3>. QED  BY <1>3, <3>1, <3>2, <3>3
  <2>. QED  BY <1>5, <2>3, <2>4 DEF n, v
<1>6. n < GHB_SIZE \/ n = GHB_SIZE
  BY <1>1, <1>3
<1>. QED  BY <1>4, <1>5, <1>6

\* The buffer goes on holding the last addresses
LEMMA RecordedOK ==
    ASSUME NEW s \in SimType, GhbOK(s), NEW addr \in Int
    PROVE  LET t == FirstLevel!Recorded(s, addr)
           IN  /\ GhbOK(t) /\ t \in SimType
               /\ t.cache = s.cache /\ t.did = s.did /\ t.newest = s.newest /\ t.fault = s.fault
               /\ t.rpt = s.rpt /\ t.walk = s.walk /\ t.rpt_open = s.rpt_open
<1>. DEFINE t == FirstLevel!Recorded(s, addr)
            G == GHB_SIZE
            c == s.count
            b == s.ghb
            n == Len(s.seen)
            slid == FirstLevel!Slid(b, c)
            bb == [slid EXCEPT ![c] = addr]
            cc == IF c < G - 1 THEN c + 1 ELSE c
            v == Longer(s.seen, addr)
<1>1. /\ G \in Nat /\ G > 1 /\ n \in Nat /\ n <= G /\ s.seen \in Seq(Int) /\ b \in [0 .. G - 1 -> Int]
      /\ c = (IF n < G THEN n ELSE G - 1) /\ c \in 0 .. G - 1
      /\ n = G => b[G - 1] = s.seen[n]
      /\ \A i \in 0 .. G - 1 :
            IF i >= n THEN b[i] = 0
            ELSE (\A j \in i + 1 .. n : s.seen[j] # 0) => b[i] = s.seen[i + 1]
  BY SimCacheAssumption DEF GhbOK, SimType, Buffers, Histories
<1>2. t = [s EXCEPT !.ghb = bb, !.count = cc, !.seen = v]
  BY DEF FirstLevel!Recorded, SimType, Longer
<1>3. slid = IF c = G - 1 /\ b[c] # 0
             THEN [i \in 0 .. G - 1 |-> IF i < G - 1 THEN b[i + 1] ELSE b[i]] ELSE b
  BY <1>1 DEF FirstLevel!Slid
<1>4. /\ v \in Seq(Int)
      /\ n < G => Len(v) = n + 1 /\ v[n + 1] = addr /\ \A k \in 1 .. n : v[k] = s.seen[k]
      /\ n = G => Len(v) = n /\ v[n] = addr /\ \A k \in 1 .. n - 1 : v[k] = s.seen[k + 1]
  BY <1>1, LongerOn
<1>. HIDE DEF t, v, n, c, b
<1>5. slid \in [0 .. G - 1 -> Int]
  BY <1>1, <1>3
<1>6. bb \in [0 .. G - 1 -> Int] /\ bb[c] = addr /\ \A i \in 0 .. G - 1 : i # c => bb[i] = slid[i]
  <2>. HIDE DEF slid
  <2>. QED  BY <1>1, <1>5
<1>. HIDE DEF bb, slid
<1>7. cc \in Int
  BY <1>1
<1>. HIDE DEF cc
<1>8. /\ t \in SimType /\ t.ghb = bb /\ t.count = cc /\ t.seen = v
      /\ t.cache = s.cache /\ t.did = s.did /\ t.newest = s.newest /\ t.fault = s.fault
      /\ t.rpt = s.rpt /\ t.walk = s.walk /\ t.rpt_open = s.rpt_open
  BY <1>2, <1>4, <1>6, <1>7 DEF SimType, Buffers, Histories
<1>9. GhbOK(t)
  <2>1. CASE n < G
    <3>1. c = n /\ b[n] = 0 /\ slid = b
      BY <1>1, <1>3, <2>1
    <3>2. Len(v) = n + 1 /\ v[n + 1] = addr /\ \A k \in 1 .. n : v[k] = s.seen[k]
      BY <1>4, <2>1
    <3>3. cc = IF n + 1 < G THEN n + 1 ELSE G - 1
      BY <1>1, <2>1, <3>1 DEF cc
    <3>4. n + 1 = G => bb[G - 1] = v[n + 1]
      BY <1>1, <1>6, <3>1, <3>2
    <3>5. ASSUME NEW i \in 0 .. G - 1
          PROVE  IF i >= n + 1 THEN bb[i] = 0
                 ELSE (\A j \in i + 1 .. n + 1 : v[j] # 0) => bb[i] = v[i + 1]
      <4>1. CASE i >= n + 1
        BY <1>1, <1>6, <3>1, <4>1
      <4>2. CASE i = n
        BY <1>1, <1>6, <3>1, <3>2, <4>2
      <4>3. CASE i < n
        <5>1. bb[i] = b[i] /\ i + 1 \in 1 .. n /\ v[i + 1] = s.seen[i + 1]
          <6>1. i + 1 \in 1 .. n /\ i # c
            BY <1>1, <3>1, <4>3
          <6>2. bb[i] = b[i]
            BY <1>6, <3>1, <6>1
          <6>. QED  BY <3>2, <6>1, <6>2
        <5>2. ASSUME \A j \in i + 1 .. n + 1 : v[j] # 0  PROVE bb[i] = v[i + 1]
          <6>1. ASSUME NEW j \in i + 1 .. n  PROVE s.seen[j] # 0
            <7>1. j \in i + 1 .. n + 1 /\ j \in 1 .. n
              BY <1>1
            <7>. QED  BY <3>2, <5>2, <7>1
          <6>2. ~(i >= n)
            BY <1>1, <4>3
          <6>3. b[i] = s.seen[i + 1]
            BY <1>1, <6>1, <6>2
          <6>. QED  BY <5>1, <6>3
        <5>. QED  BY <1>1, <4>3, <5>2
      <4>. QED  BY <1>1, <4>1, <4>2, <4>3
    <3>. QED  BY <1>1, <1>8, <2>1, <3>2, <3>3, <3>4, <3>5 DEF GhbOK
  <2>2. CASE n = G
    <3>1. c = G - 1 /\ b[c] = s.seen[n] /\ cc = G - 1
      BY <1>1, <2>2 DEF cc
    <3>2. Len(v) = n /\ v[n] = addr /\ \A k \in 1 .. n - 1 : v[k] = s.seen[k + 1]
      BY <1>4, <2>2
    <3>3. bb[G - 1] = v[n]
      BY <1>1, <1>6, <3>1, <3>2
    <3>4. ASSUME NEW i \in 0 .. G - 1, \A j \in i + 1 .. n : v[j] # 0  PROVE bb[i] = v[i + 1]
      <4>1. CASE i = G - 1
        BY <1>1, <2>2, <3>3, <4>1
      <4>2. CASE i < G - 1
        <5>1. v[n - 1] # 0 /\ v[n - 1] = s.seen[n]
          <6>1. n - 1 \in i + 1 .. n /\ n - 1 \in 1 .. n - 1 /\ n - 1 + 1 = n
            BY <1>1, <2>2, <4>2
          <6>. QED  BY <3>2, <3>4, <6>1
        <5>2. slid = [k \in 0 .. G - 1 |-> IF k < G - 1 THEN b[k + 1] ELSE b[k]]
          BY <1>3, <3>1, <5>1
        <5>3. bb[i] = b[i + 1] /\ i + 1 \in 0 .. G - 1 /\ ~(i + 1 >= n) /\ i + 1 \in 1 .. n - 1
          BY <1>1, <1>6, <2>2, <3>1, <4>2, <5>2
        <5>4. ASSUME NEW j \in i + 1 + 1 .. n  PROVE s.seen[j] # 0
          <6>1. j - 1 \in i + 1 .. n /\ j - 1 \in 1 .. n - 1 /\ j - 1 + 1 = j
            BY <1>1
          <6>. QED  BY <3>2, <3>4, <6>1
        <5>5. b[i + 1] = s.seen[i + 1 + 1]
          BY <1>1, <5>3, <5>4
        <5>. QED  BY <3>2, <5>3, <5>5
      <4>. QED  BY <1>1, <4>1, <4>2
    <3>5. \A i \in 0 .. G - 1 : ~(i >= n)
      BY <1>1, <2>2
    <3>. QED  BY <1>1, <1>8, <2>2, <3>1, <3>2, <3>3, <3>4, <3>5 DEF GhbOK
  <2>. QED  BY <1>1, <2>1, <2>2
<1>. QED  BY <1>8, <1>9 DEF t

\* The tables after the prefetchers have seen an address
Alloc(s, n) ==
    IF s.rpt # NULL THEN s
    ELSE [s EXCEPT !.rpt = [j \in 0 .. n - 1 |-> NoEntry], !.walk = [j \in 0 .. n - 1 |-> <<>>]]

StrideEntry(s, n, addr, pc) == FirstLevel!update_entry(Alloc(s, n).rpt[pc % n], addr, pc)

StrideTrained(s, n, addr, pc) ==
    LET a == Alloc(s, n)
        i == pc % n
    IN  [a EXCEPT !.rpt[i] = StrideEntry(s, n, addr, pc),
                  !.walk[i] = FirstLevel!Walked(a.walk[i], a.rpt[i].tag = pc, addr)]

OpenEntry(s, addr, pc) == FirstLevel!update_entry(s.rpt_open[pc % RPT_SIZE], addr, pc)

OpenTrained(s, addr, pc) ==
    [FirstLevel!Recorded(s, addr) EXCEPT !.rpt_open[pc % RPT_SIZE] = OpenEntry(s, addr, pc)]

\* The prefetcher of x trains its table, and nothing else changes
Trains(s, t, x) ==
    /\ Good(t)
    /\ t.cache = s.cache /\ t.did = s.did /\ t.newest = s.newest /\ t.fault = s.fault
    /\ Config[x].prefetch_type <= 2 => t.rpt = s.rpt
    /\ Config[x].prefetch_type # 2 => t.rpt_open = s.rpt_open

\* The first stride prefetcher to be called creates the table
LEMMA AllocTrains ==
    ASSUME Configured, NEW x \in Caches, NEW s, Good(s), NEW n, n = Config[x].prefetch_type, n > 2
    PROVE  /\ Trains(s, Alloc(s, n), x)
           /\ Alloc(s, n).rpt # NULL
<1>. DEFINE t == Alloc(s, n)
            new == [j \in 0 .. n - 1 |-> NoEntry]
            walk == [j \in 0 .. n - 1 |-> <<>>]
<1>1. n \in Nat \ {0} /\ 0 \in 0 .. n - 1
  BY DEF Configured, CacheConfig
<1>2. CASE s.rpt # NULL
  BY <1>1, <1>2 DEF Alloc, Trains
<1>3. CASE s.rpt = NULL
  <2>1. t = [s EXCEPT !.rpt = new, !.walk = walk]
    BY <1>3 DEF Alloc
  <2>2. NoEntry \in Entries /\ NoEntry.tag = 0
    BY DEF NoEntry, Entries, State
  <2>3. new \in [0 .. n - 1 -> Entries] /\ walk \in [0 .. n - 1 -> Seq(Int)]
    BY <2>2
  <2>4. new \in RptTables /\ walk \in WalkTables
    BY <1>1, <2>3 DEF RptTables, WalkTables
  <2>5. new # NULL /\ walk # NULL
    <3>1. 0 \in DOMAIN new /\ 0 \in DOMAIN walk
      BY <1>1
    <3>2. DOMAIN NULL = {}
      BY DEF NULL
    <3>. HIDE DEF new, walk
    <3>. QED  BY <3>1, <3>2
  <2>6. \A j \in 0 .. n - 1 : EntryFits(new[j], walk[j])
    BY <2>2 DEF EntryFits
  <2>7. DOMAIN new = 0 .. n - 1 /\ DOMAIN walk = 0 .. n - 1
    OBVIOUS
  <2>. HIDE DEF t, new, walk
  <2>8. s \in SimType
    BY DEF Good
  <2>9. /\ t \in SimType /\ t.rpt = new /\ t.walk = walk
        /\ t.cache = s.cache /\ t.did = s.did /\ t.newest = s.newest /\ t.fault = s.fault
        /\ t.rpt_open = s.rpt_open /\ t.ghb = s.ghb /\ t.count = s.count /\ t.seen = s.seen
    BY <2>1, <2>4, <2>8 DEF SimType
  <2>10. StridesOK(t)
    BY <2>5, <2>6, <2>7, <2>9 DEF StridesOK
  <2>11. GhbOK(t)
    BY <2>9 DEF Good, TablesOK, GhbOK
  <2>12. Good(t)
    BY <2>9, <2>10, <2>11 DEF Good, TablesOK
  <2>. QED  BY <1>1, <2>5, <2>9, <2>12 DEF Trains, t
<1>. QED  BY <1>2, <1>3

\* The entry of a PC goes on fitting
LEMMA StrideTrains ==
    ASSUME Configured, NEW x \in Caches, NEW s, Good(s), NEW n, n = Config[x].prefetch_type, n > 2,
           NEW addr \in Int, NEW pc \in Nat \ {0}, pc % n \in DOMAIN Alloc(s, n).rpt
    PROVE  LET t == StrideTrained(s, n, addr, pc)
               e == StrideEntry(s, n, addr, pc)
           IN  /\ Trains(s, t, x)
               /\ t.rpt[pc % n] = e /\ e \in Entries
<1>. DEFINE a == Alloc(s, n)
            i == pc % n
            e == StrideEntry(s, n, addr, pc)
            w == FirstLevel!Walked(a.walk[i], a.rpt[i].tag = pc, addr)
            rpt == [a.rpt EXCEPT ![i] = e]
            walk == [a.walk EXCEPT ![i] = w]
            t == StrideTrained(s, n, addr, pc)
<1>1. Trains(s, a, x) /\ a.rpt # NULL
  BY AllocTrains
<1>2. Good(a) /\ a \in SimType
  BY <1>1 DEF Trains, Good
<1>3. i \in DOMAIN a.rpt
  OBVIOUS
<1>4. t = [a EXCEPT !.rpt = rpt, !.walk = walk]
  BY <1>2 DEF StrideTrained, SimType
<1>5. e = FirstLevel!update_entry(a.rpt[i], addr, pc)
  BY DEF StrideEntry
<1>. HIDE DEF a, i, e, w, t
<1>6. PICK k \in Nat \ {0} : a.rpt \in [0 .. k - 1 -> Entries]
  BY <1>1, <1>2 DEF SimType, RptTables
<1>7. /\ a.walk \in [0 .. k - 1 -> Seq(Int)] /\ DOMAIN a.walk = 0 .. k - 1
      /\ a.walk # NULL /\ \A j \in 0 .. k - 1 : EntryFits(a.rpt[j], a.walk[j])
  <2>1. DOMAIN a.rpt = 0 .. k - 1
    BY <1>6
  <2>2. StridesOK(a)
    BY <1>2 DEF Good, TablesOK
  <2>3. /\ DOMAIN a.walk = 0 .. k - 1 /\ a.walk # NULL
        /\ \A j \in 0 .. k - 1 : EntryFits(a.rpt[j], a.walk[j])
    BY <1>1, <2>1, <2>2 DEF StridesOK
  <2>4. PICK l \in Nat \ {0} : a.walk \in [0 .. l - 1 -> Seq(Int)]
    BY <1>2, <2>3 DEF SimType, WalkTables
  <2>. QED  BY <2>3, <2>4
<1>8. i \in 0 .. k - 1
  BY <1>3, <1>6
<1>9. /\ e \in Entries /\ w \in Seq(Int) /\ EntryFits(e, w)
  <2>1. a.rpt[i] \in Entries /\ a.walk[i] \in Seq(Int) /\ EntryFits(a.rpt[i], a.walk[i])
    BY <1>6, <1>7, <1>8
  <2>. QED  BY <1>5, <2>1, EntryUpdate DEF w
<1>10. /\ rpt \in [0 .. k - 1 -> Entries] /\ walk \in [0 .. k - 1 -> Seq(Int)]
       /\ rpt[i] = e /\ walk[i] = w
       /\ \A j \in 0 .. k - 1 : j # i => rpt[j] = a.rpt[j] /\ walk[j] = a.walk[j]
  BY <1>6, <1>7, <1>8, <1>9
<1>. HIDE DEF rpt, walk
<1>11. rpt \in RptTables /\ walk \in WalkTables
  BY <1>6, <1>10 DEF RptTables, WalkTables
<1>12. DOMAIN rpt = 0 .. k - 1 /\ DOMAIN walk = 0 .. k - 1 /\ walk # NULL
  <2>1. DOMAIN rpt = 0 .. k - 1 /\ DOMAIN walk = 0 .. k - 1
    BY <1>10
  <2>2. DOMAIN NULL = {}
    BY DEF NULL
  <2>. QED  BY <1>8, <2>1, <2>2
<1>13. /\ t \in SimType /\ t.rpt = rpt /\ t.walk = walk
       /\ t.cache = a.cache /\ t.did = a.did /\ t.newest = a.newest /\ t.fault = a.fault
       /\ t.rpt_open = a.rpt_open /\ t.ghb = a.ghb /\ t.count = a.count /\ t.seen = a.seen
  BY <1>2, <1>4, <1>11 DEF SimType
<1>14. StridesOK(t)
  BY <1>7, <1>9, <1>10, <1>12, <1>13 DEF StridesOK
<1>15. GhbOK(t)
  BY <1>2, <1>13 DEF Good, TablesOK, GhbOK
<1>16. Good(t)
  BY <1>2, <1>13, <1>14, <1>15 DEF Good, TablesOK
<1>17. Trains(s, t, x)
  <2>1. n \in Nat
    BY DEF Configured, CacheConfig
  <2>. QED  BY <1>1, <1>13, <1>16, <2>1 DEF Trains
<1>. QED  BY <1>9, <1>10, <1>13, <1>17 DEF t, e, i

\* The open-ended prefetcher keeps its table and history good
LEMMA OpenTrains ==
    ASSUME Configured, NEW x \in Caches, NEW s, Good(s), Config[x].prefetch_type = 2,
           NEW addr \in Int, NEW pc \in Nat \ {0}
    PROVE  LET t == OpenTrained(s, addr, pc)
               e == OpenEntry(s, addr, pc)
           IN  /\ Trains(s, t, x)
               /\ t.rpt_open[pc % RPT_SIZE] = e /\ e \in Entries
<1>. DEFINE a == FirstLevel!Recorded(s, addr)
            i == pc % RPT_SIZE
            e == OpenEntry(s, addr, pc)
            open == [a.rpt_open EXCEPT ![i] = e]
            t == OpenTrained(s, addr, pc)
<1>1. s \in SimType /\ GhbOK(s) /\ StridesOK(s)
  BY DEF Good, TablesOK
<1>2. /\ GhbOK(a) /\ a \in SimType
      /\ a.cache = s.cache /\ a.did = s.did /\ a.newest = s.newest /\ a.fault = s.fault
      /\ a.rpt = s.rpt /\ a.walk = s.walk /\ a.rpt_open = s.rpt_open
  BY <1>1, RecordedOK
<1>3. i \in 0 .. RPT_SIZE - 1
  BY SimCacheAssumption, DivMod
<1>4. e = FirstLevel!update_entry(s.rpt_open[i], addr, pc) /\ s.rpt_open[i] \in Entries
  BY <1>1, <1>3 DEF OpenEntry, SimType, OpenTables
<1>. HIDE DEF a, i, e
<1>5. t = [a EXCEPT !.rpt_open = open]
  BY <1>2 DEF OpenTrained, SimType, a, e, i
<1>. HIDE DEF t
<1>6. e \in Entries
  <2>1. s.rpt_open[i].tag \in Nat /\ s.rpt_open[i].prev_addr \in Int /\ s.rpt_open[i].stride \in Int
    BY <1>4 DEF Entries
  <2>2. \A z, same : FirstLevel!NextState(z, same) \in State \/ z \notin State \/ same \notin BOOLEAN
    BY DEF FirstLevel!NextState, State
  <2>3. s.rpt_open[i].state \in State
    BY <1>4 DEF Entries
  <2>4. FirstLevel!NextState(s.rpt_open[i].state, addr - s.rpt_open[i].prev_addr = s.rpt_open[i].stride) \in State
    BY <2>2, <2>3
  <2>5. "INIT" \in State
    BY DEF State
  <2>. QED  BY <1>4, <2>1, <2>4, <2>5 DEF FirstLevel!update_entry, Entries
<1>7. open \in OpenTables /\ open[i] = e
  BY <1>2, <1>3, <1>6 DEF SimType, OpenTables
<1>. HIDE DEF open
<1>8. /\ t \in SimType /\ t.rpt_open = open
      /\ t.cache = a.cache /\ t.did = a.did /\ t.newest = a.newest /\ t.fault = a.fault
      /\ t.rpt = a.rpt /\ t.walk = a.walk /\ t.ghb = a.ghb /\ t.count = a.count /\ t.seen = a.seen
  BY <1>2, <1>5, <1>7 DEF SimType
<1>9. StridesOK(t) /\ GhbOK(t)
  BY <1>1, <1>2, <1>8 DEF StridesOK, GhbOK
<1>10. Good(t)
  BY <1>2, <1>8, <1>9 DEF Good, TablesOK
<1>. QED  BY <1>2, <1>6, <1>7, <1>8, <1>10 DEF Trains, t, e, i

-----------------------------------------------------------------------------
(* The prefetch that an access starts *)

\* What the prefetcher of x expects of the PC to be used next
PredictedAt(s, x, addr, pc) ==
    LET k == Config[x]
        entry == IF k.prefetch_type = 2 THEN s.rpt_open[pc % RPT_SIZE] ELSE s.rpt[pc % k.prefetch_type]
    IN  IF k.prefetch_type = 1 THEN {addr + k.bsize}
        ELSE IF entry.state = "STEADY" \/ (k.prefetch_type # 2 /\ entry.state # "NO_PREDICTION")
        THEN {addr + entry.stride}
        ELSE {}

\* After the table m has been trained the prefetch of an address is due
Due(s, x, addr, pc, m, a) ==
    /\ Config[x].prefetch_type # 0 /\ s.fault = "none"
    /\ Trains(s, m, x) /\ a \in Int /\ PredictedAt(m, x, addr, pc) \subseteq {a}

\* or the PC falls out of a table that another cache asked for
Overrun(m) == [m EXCEPT !.fault = "rpt overrun"]

\* or none is
NoneDue(s, x, addr, pc, t) ==
    \/ t = s /\ (s.fault # "none" \/ Config[x].prefetch_type = 0)
    \/ s.fault = "none" /\ Trains(s, t, x) /\ PredictedAt(t, x, addr, pc) = {}
    \/ \E m : s.fault = "none" /\ Trains(s, m, x) /\ t = Overrun(m)

\* What each prefetcher asks for: the next line,
LEMMA NextLineDue ==
    ASSUME Configured, NEW x \in Caches, NEW s, Good(s), Config[x].prefetch_type = 1, s.fault = "none",
           NEW addr \in Int, NEW pc
    PROVE  Due(s, x, addr, pc, s, addr + Config[x].bsize)
<1>1. Config[x].bsize \in Nat
  BY Geometry
<1>. QED  BY <1>1 DEF Due, Trains, PredictedAt

\* the address one stride on, unless the entry predicts nothing or is not there,
LEMMA StrideDue ==
    ASSUME Configured, NEW x \in Caches, NEW s, Good(s), NEW n, n = Config[x].prefetch_type, n > 2,
           s.fault = "none", NEW addr \in Int, NEW pc \in Nat \ {0}
    PROVE  /\ pc % n \notin DOMAIN Alloc(s, n).rpt =>
                 NoneDue(s, x, addr, pc, Overrun(Alloc(s, n)))
           /\ pc % n \in DOMAIN Alloc(s, n).rpt /\ StrideEntry(s, n, addr, pc).state = "NO_PREDICTION" =>
                 NoneDue(s, x, addr, pc, StrideTrained(s, n, addr, pc))
           /\ pc % n \in DOMAIN Alloc(s, n).rpt /\ StrideEntry(s, n, addr, pc).state # "NO_PREDICTION" =>
                 Due(s, x, addr, pc, StrideTrained(s, n, addr, pc), addr + StrideEntry(s, n, addr, pc).stride)
<1>1. CASE pc % n \notin DOMAIN Alloc(s, n).rpt
  <2>1. Trains(s, Alloc(s, n), x)
    BY AllocTrains
  <2>. QED  BY <1>1, <2>1 DEF NoneDue
<1>2. CASE pc % n \in DOMAIN Alloc(s, n).rpt
  <2>. DEFINE t == StrideTrained(s, n, addr, pc)
              e == StrideEntry(s, n, addr, pc)
  <2>1. Trains(s, t, x) /\ t.rpt[pc % n] = e /\ e \in Entries
    BY <1>2, StrideTrains
  <2>. HIDE DEF t, e
  <2>2. PredictedAt(t, x, addr, pc) = IF e.state = "NO_PREDICTION" THEN {} ELSE {addr + e.stride}
    <3>1. n \in Nat /\ n # 1 /\ n # 2
      BY DEF Configured, CacheConfig
    <3>. QED  BY <2>1, <3>1 DEF PredictedAt
  <2>3. e.stride \in Int
    BY <2>1 DEF Entries
  <2>4. n \in Nat /\ n # 0
    BY DEF Configured, CacheConfig
  <2>5. e.state = "NO_PREDICTION" => NoneDue(s, x, addr, pc, t)
    BY <2>1, <2>2 DEF NoneDue
  <2>6. e.state # "NO_PREDICTION" => Due(s, x, addr, pc, t, addr + e.stride)
    BY <2>1, <2>2, <2>3, <2>4 DEF Due
  <2>. QED  BY <1>2, <2>5, <2>6 DEF t, e
<1>. QED  BY <1>1, <1>2

\* and the address one steady stride on; anything the history suggests besides is a
\* prefetch like another
LEMMA OpenDue ==
    ASSUME Configured, NEW x \in Caches, NEW s, Good(s), Config[x].prefetch_type = 2,
           s.fault = "none", NEW addr \in Int, NEW pc \in Nat \ {0}
    PROVE  LET t == OpenTrained(s, addr, pc)
               e == OpenEntry(s, addr, pc)
           IN  /\ e.state = "STEADY" => Due(s, x, addr, pc, t, addr + e.stride)
               /\ e.state # "STEADY" =>
                     NoneDue(s, x, addr, pc, t) /\ \A a \in Int : Due(s, x, addr, pc, t, a)
<1>. DEFINE t == OpenTrained(s, addr, pc)
            e == OpenEntry(s, addr, pc)
<1>1. Trains(s, t, x) /\ t.rpt_open[pc % RPT_SIZE] = e /\ e \in Entries
  BY OpenTrains
<1>. HIDE DEF t, e
<1>2. PredictedAt(t, x, addr, pc) = IF e.state = "STEADY" THEN {addr + e.stride} ELSE {}
  BY <1>1 DEF PredictedAt
<1>3. e.stride \in Int
  BY <1>1 DEF Entries
<1>4. e.state = "STEADY" => Due(s, x, addr, pc, t, addr + e.stride)
  BY <1>1, <1>2, <1>3 DEF Due
<1>5. e.state # "STEADY" => NoneDue(s, x, addr, pc, t)
  BY <1>1, <1>2 DEF NoneDue
<1>6. ASSUME e.state # "STEADY", NEW a \in Int  PROVE Due(s, x, addr, pc, t, a)
  BY <1>1, <1>2, <1>6 DEF Due
<1>. QED  BY <1>4, <1>5, <1>6 DEF t, e

\* The address that the buffer has behind another one
LEMMA NextAddress ==
    ASSUME NEW s, Good(s), NEW j \in Int
    PROVE  s.ghb[(j + 1) % GHB_SIZE] \in Int
<1>1. (j + 1) % GHB_SIZE \in 0 .. GHB_SIZE - 1
  BY SimCacheAssumption, DivMod
<1>. QED  BY <1>1 DEF Good, SimType, Buffers

\* A set of numbers has a least one
LEMMA LeastOf ==
    ASSUME NEW S \in SUBSET Nat, S # {}
    PROVE  \E j \in S : \A k \in S : j <= k
<1>. DEFINE R == OpToRel(<, Nat)
<1>1. IsWellFoundedOn(R, Nat)
  BY NatLessThanWellFounded
<1>2. \A j, k \in Nat : k < j => <<k, j>> \in R
  BY DEF OpToRel
<1>. HIDE DEF R
<1>3. PICK j \in S : \A k \in S : <<k, j>> \notin R
  BY <1>1, WFMin
<1>4. ASSUME NEW k \in S  PROVE j <= k
  <2>1. j \in Nat /\ k \in Nat
    BY <1>3, <1>4
  <2>2. ~(k < j)
    BY <1>2, <1>3, <1>4, <2>1
  <2>. QED  BY <2>1, <2>2
<1>. QED  BY <1>3, <1>4

\* The prefetchers, at the second level
LEMMA GenerateSecond ==
    ASSUME Configured, NEW x \in Caches, NEW s, Good(s), NEW addr \in Int, NEW pc \in Nat \ {0},
           NEW t \in SecondLevel!generate_prefetch(s, x, addr, pc)
    PROVE  \/ NoneDue(s, x, addr, pc, t)
           \/ \E m, a : Due(s, x, addr, pc, m, a) /\ t \in SecondLevel!Prefetch(m, x, a, pc)
<1>. DEFINE n == Config[x].prefetch_type
<1>1. n \in Nat
  BY DEF Configured, CacheConfig
<1>2. CASE s.fault # "none" \/ n = 0
  <2>1. t = s
    BY <1>2 DEF SecondLevel!generate_prefetch
  <2>. QED  BY <1>2, <2>1 DEF NoneDue
<1>3. CASE s.fault = "none" /\ n = 1
  <2>1. t \in SecondLevel!Prefetch(s, x, addr + Config[x].bsize, pc)
    BY <1>3 DEF SecondLevel!generate_prefetch, SecondLevel!next_line_prefetcher
  <2>. QED  BY <1>3, <2>1, NextLineDue
<1>4. CASE s.fault = "none" /\ n = 2
  <2>. DEFINE e == SecondLevel!update_entry(s.rpt_open[pc % RPT_SIZE], addr, pc)
              u == [SecondLevel!Recorded(s, addr) EXCEPT !.rpt_open[pc % RPT_SIZE] = e]
              found == SecondLevel!Successors(u, x, addr)
              first == CHOOSE j \in found : \A k \in found : j <= k
  <2>1. t \in SecondLevel!open_ended_prefetcher(s, x, addr, pc)
    BY <1>4 DEF SecondLevel!generate_prefetch
  <2>2. SecondLevel!open_ended_prefetcher(s, x, addr, pc)
          = IF e.state = "STEADY" THEN SecondLevel!Prefetch(u, x, addr + e.stride, pc)
            ELSE IF found = {} THEN {u}
            ELSE SecondLevel!Prefetch(u, x, u.ghb[(first + 1) % GHB_SIZE], pc)
    BY DEF SecondLevel!open_ended_prefetcher
  <2>6. e = OpenEntry(s, addr, pc)
    BY SameTraining DEF OpenEntry
  <2>7. u = OpenTrained(s, addr, pc)
    <3>. HIDE DEF e
    <3>. QED  BY <2>6, SameTraining DEF OpenTrained
  <2>. HIDE DEF u, e, found, first
  <2>3. CASE e.state = "STEADY"
    BY <1>4, <2>1, <2>2, <2>3, <2>6, <2>7, OpenDue
  <2>4. CASE e.state # "STEADY" /\ found = {}
    BY <1>4, <2>1, <2>2, <2>4, <2>6, <2>7, OpenDue
  <2>5. CASE e.state # "STEADY" /\ found # {}
    <3>. DEFINE a == u.ghb[(first + 1) % GHB_SIZE]
    <3>1. t \in SecondLevel!Prefetch(u, x, a, pc)
      BY <2>1, <2>2, <2>5
    <3>2. NoneDue(s, x, addr, pc, u) /\ \A b \in Int : Due(s, x, addr, pc, u, b)
      BY <1>4, <2>5, <2>6, <2>7, OpenDue
    <3>3. Good(u)
      <4>1. Due(s, x, addr, pc, u, 0)
        BY <3>2
      <4>. QED  BY <4>1 DEF Due, Trains
    <3>4. first \in Int
      <4>1. found \subseteq 0 .. u.count - 1 /\ u.count \in Int
        BY <3>3 DEF found, SecondLevel!Successors, Good, SimType
      <4>2. found \subseteq Nat
        BY <4>1
      <4>3. \E j \in found : \A k \in found : j <= k
        BY <2>5, <4>2, LeastOf
      <4>4. first \in found
        BY <4>3, Zenon DEF first
      <4>. QED  BY <4>2, <4>4
    <3>5. a \in Int
      BY <3>3, <3>4, NextAddress
    <3>. HIDE DEF a
    <3>. QED  BY <3>1, <3>2, <3>5
  <2>. QED  BY <2>3, <2>4, <2>5
<1>5. CASE s.fault = "none" /\ n > 2
  <2>. DEFINE i == pc % n
              al == IF s.rpt # SecondLevel!NULL THEN s
                    ELSE [s EXCEPT !.rpt = [j \in 0 .. n - 1 |-> SecondLevel!NoEntry],
                                   !.walk = [j \in 0 .. n - 1 |-> <<>>]]
              e == SecondLevel!update_entry(al.rpt[i], addr, pc)
              u == [al EXCEPT !.rpt[i] = e,
                              !.walk[i] = SecondLevel!Walked(@, al.rpt[i].tag = pc, addr)]
  <2>1. t \in SecondLevel!stride_prefetcher(s, x, addr, pc)
    BY <1>5 DEF SecondLevel!generate_prefetch
  <2>2. SecondLevel!stride_prefetcher(s, x, addr, pc)
          = IF i \notin DOMAIN al.rpt THEN {Overrun(al)}
            ELSE IF e.state = "NO_PREDICTION" THEN {u}
            ELSE SecondLevel!Prefetch(u, x, addr + e.stride, pc)
    BY DEF SecondLevel!stride_prefetcher, Overrun
  <2>6. al = Alloc(s, n)
    BY SameTraining, SamePlaces DEF Alloc
  <2>. HIDE DEF al
  <2>7. e = StrideEntry(s, n, addr, pc)
    BY <2>6, SameTraining DEF StrideEntry
  <2>. HIDE DEF e
  <2>8. u = StrideTrained(s, n, addr, pc)
    <3>. DEFINE w == SecondLevel!Walked(al.walk[i], al.rpt[i].tag = pc, addr)
    <3>1. w = FirstLevel!Walked(al.walk[i], al.rpt[i].tag = pc, addr)
      BY DEF FirstLevel!Walked, SecondLevel!Walked
    <3>2. u = [al EXCEPT !.rpt[i] = e, !.walk[i] = w]
      OBVIOUS
    <3>3. StrideTrained(s, n, addr, pc)
            = [al EXCEPT !.rpt[i] = e, !.walk[i] = FirstLevel!Walked(al.walk[i], al.rpt[i].tag = pc, addr)]
      BY <2>6, <2>7 DEF StrideTrained
    <3>. HIDE DEF w, u
    <3>. QED  BY <3>1, <3>2, <3>3, Zenon
  <2>. HIDE DEF u, i
  <2>3. CASE i \notin DOMAIN al.rpt
    BY <1>5, <2>1, <2>2, <2>3, <2>6, StrideDue DEF i
  <2>4. CASE i \in DOMAIN al.rpt /\ e.state = "NO_PREDICTION"
    BY <1>5, <2>1, <2>2, <2>4, <2>6, <2>7, <2>8, StrideDue DEF i
  <2>5. CASE i \in DOMAIN al.rpt /\ e.state # "NO_PREDICTION"
    BY <1>5, <2>1, <2>2, <2>5, <2>6, <2>7, <2>8, StrideDue DEF i
  <2>. QED  BY <2>3, <2>4, <2>5
<1>. QED  BY <1>1, <1>2, <1>3, <1>4, <1>5

\* The prefetchers, at the first level
LEMMA GenerateFirst ==
    ASSUME Configured, NEW x \in Caches, NEW s, Good(s), NEW addr \in Int, NEW pc \in Nat \ {0},
           NEW t \in FirstLevel!generate_prefetch(s, x, addr, pc)
    PROVE  \/ NoneDue(s, x, addr, pc, t)
           \/ \E m, a : Due(s, x, addr, pc, m, a) /\ t \in FirstLevel!Prefetch(m, x, a, pc)
<1>. DEFINE n == Config[x].prefetch_type
<1>1. n \in Nat
  BY DEF Configured, CacheConfig
<1>2. CASE s.fault # "none" \/ n = 0
  <2>1. t = s
    BY <1>2 DEF FirstLevel!generate_prefetch
  <2>. QED  BY <1>2, <2>1 DEF NoneDue
<1>3. CASE s.fault = "none" /\ n = 1
  <2>1. t \in FirstLevel!Prefetch(s, x, addr + Config[x].bsize, pc)
    BY <1>3 DEF FirstLevel!generate_prefetch, FirstLevel!next_line_prefetcher
  <2>. QED  BY <1>3, <2>1, NextLineDue
<1>4. CASE s.fault = "none" /\ n = 2
  <2>. DEFINE e == FirstLevel!update_entry(s.rpt_open[pc % RPT_SIZE], addr, pc)
              u == [FirstLevel!Recorded(s, addr) EXCEPT !.rpt_open[pc % RPT_SIZE] = e]
              found == FirstLevel!Successors(u, x, addr)
              first == CHOOSE j \in found : \A k \in found : j <= k
  <2>1. t \in FirstLevel!open_ended_prefetcher(s, x, addr, pc)
    BY <1>4 DEF FirstLevel!generate_prefetch
  <2>2. FirstLevel!open_ended_prefetcher(s, x, addr, pc)
          = IF e.state = "STEADY" THEN FirstLevel!Prefetch(u, x, addr + e.stride, pc)
            ELSE IF found = {} THEN {u}
            ELSE FirstLevel!Prefetch(u, x, u.ghb[(first + 1) % GHB_SIZE], pc)
    BY DEF FirstLevel!open_ended_prefetcher
  <2>6. e = OpenEntry(s, addr, pc)
    BY SameTraining DEF OpenEntry
  <2>7. u = OpenTrained(s, addr, pc)
    <3>. HIDE DEF e
    <3>. QED  BY <2>6, SameTraining DEF OpenTrained
  <2>. HIDE DEF u, e, found, first
  <2>3. CASE e.state = "STEADY"
    BY <1>4, <2>1, <2>2, <2>3, <2>6, <2>7, OpenDue
  <2>4. CASE e.state # "STEADY" /\ found = {}
    BY <1>4, <2>1, <2>2, <2>4, <2>6, <2>7, OpenDue
  <2>5. CASE e.state # "STEADY" /\ found # {}
    <3>. DEFINE a == u.ghb[(first + 1) % GHB_SIZE]
    <3>1. t \in FirstLevel!Prefetch(u, x, a, pc)
      BY <2>1, <2>2, <2>5
    <3>2. NoneDue(s, x, addr, pc, u) /\ \A b \in Int : Due(s, x, addr, pc, u, b)
      BY <1>4, <2>5, <2>6, <2>7, OpenDue
    <3>3. Good(u)
      <4>1. Due(s, x, addr, pc, u, 0)
        BY <3>2
      <4>. QED  BY <4>1 DEF Due, Trains
    <3>4. first \in Int
      <4>1. found \subseteq 0 .. u.count - 1 /\ u.count \in Int
        BY <3>3 DEF found, FirstLevel!Successors, Good, SimType
      <4>2. found \subseteq Nat
        BY <4>1
      <4>3. \E j \in found : \A k \in found : j <= k
        BY <2>5, <4>2, LeastOf
      <4>4. first \in found
        BY <4>3, Zenon DEF first
      <4>. QED  BY <4>2, <4>4
    <3>5. a \in Int
      BY <3>3, <3>4, NextAddress
    <3>. HIDE DEF a
    <3>. QED  BY <3>1, <3>2, <3>5
  <2>. QED  BY <2>3, <2>4, <2>5
<1>5. CASE s.fault = "none" /\ n > 2
  <2>. DEFINE i == pc % n
              al == IF s.rpt # FirstLevel!NULL THEN s
                    ELSE [s EXCEPT !.rpt = [j \in 0 .. n - 1 |-> FirstLevel!NoEntry],
                                   !.walk = [j \in 0 .. n - 1 |-> <<>>]]
              e == FirstLevel!update_entry(al.rpt[i], addr, pc)
              u == [al EXCEPT !.rpt[i] = e,
                              !.walk[i] = FirstLevel!Walked(@, al.rpt[i].tag = pc, addr)]
  <2>1. t \in FirstLevel!stride_prefetcher(s, x, addr, pc)
    BY <1>5 DEF FirstLevel!generate_prefetch
  <2>2. FirstLevel!stride_prefetcher(s, x, addr, pc)
          = IF i \notin DOMAIN al.rpt THEN {Overrun(al)}
            ELSE IF e.state = "NO_PREDICTION" THEN {u}
            ELSE FirstLevel!Prefetch(u, x, addr + e.stride, pc)
    BY DEF FirstLevel!stride_prefetcher, Overrun
  <2>6. al = Alloc(s, n)
    BY SameTraining, SamePlaces DEF Alloc
  <2>. HIDE DEF al
  <2>7. e = StrideEntry(s, n, addr, pc)
    BY <2>6, SameTraining DEF StrideEntry
  <2>. HIDE DEF e
  <2>8. u = StrideTrained(s, n, addr, pc)
    <3>. DEFINE w == FirstLevel!Walked(al.walk[i], al.rpt[i].tag = pc, addr)
    <3>1. w = FirstLevel!Walked(al.walk[i], al.rpt[i].tag = pc, addr)
      BY DEF FirstLevel!Walked, SecondLevel!Walked
    <3>2. u = [al EXCEPT !.rpt[i] = e, !.walk[i] = w]
      OBVIOUS
    <3>3. StrideTrained(s, n, addr, pc)
            = [al EXCEPT !.rpt[i] = e, !.walk[i] = FirstLevel!Walked(al.walk[i], al.rpt[i].tag = pc, addr)]
      BY <2>6, <2>7 DEF StrideTrained
    <3>. HIDE DEF w, u
    <3>. QED  BY <3>1, <3>2, <3>3, Zenon
  <2>. HIDE DEF u, i
  <2>3. CASE i \notin DOMAIN al.rpt
    BY <1>5, <2>1, <2>2, <2>3, <2>6, StrideDue DEF i
  <2>4. CASE i \in DOMAIN al.rpt /\ e.state = "NO_PREDICTION"
    BY <1>5, <2>1, <2>2, <2>4, <2>6, <2>7, <2>8, StrideDue DEF i
  <2>5. CASE i \in DOMAIN al.rpt /\ e.state # "NO_PREDICTION"
    BY <1>5, <2>1, <2>2, <2>5, <2>6, <2>7, <2>8, StrideDue DEF i
  <2>. QED  BY <2>3, <2>4, <2>5
<1>. QED  BY <1>1, <1>2, <1>3, <1>4, <1>5

\* What a prefetch leaves: the block is there already, or is accessed
Prefetched(s, t, x, a) ==
    \/ t = s /\ Here(x, s.cache[x], a) # {}
    \/ Accessed(s, t, x, "Read", CACHE_TAGSET(x, a), TRUE)

\* An address and that of its block are at one place
LEMMA SameHere ==
    ASSUME Configured, NEW x \in Caches, NEW c, NEW a \in Int
    PROVE  Here(x, c, CACHE_TAGSET(x, a)) = Here(x, c, a)
BY OwnPlace DEF Here

\* A prefetch into dl2 brings in its address
LEMMA PrefetchSecond ==
    ASSUME Configured, NEW s, Good(s), NEW a \in Int, NEW pc, "dl2" \in Caches,
           NEW t \in SecondLevel!Prefetch(s, "dl2", a, pc)
    PROVE  Prefetched(s, t, "dl2", a)
<1>1. CACHE_TAGSET("dl2", a) \in Int
  BY Places
<1>2. CASE SecondLevel!cache_probe(s, "dl2", CACHE_TAGSET("dl2", a))
  <2>1. t = s
    BY <1>2, SamePlaces DEF SecondLevel!Prefetch
  <2>2. Here("dl2", s.cache["dl2"], CACHE_TAGSET("dl2", a)) # {}
    BY <1>2, SameFound
  <2>3. Here("dl2", s.cache["dl2"], CACHE_TAGSET("dl2", a)) = Here("dl2", s.cache["dl2"], a)
    BY SameHere
  <2>. QED  BY <2>1, <2>2, <2>3 DEF Prefetched
<1>3. CASE ~SecondLevel!cache_probe(s, "dl2", CACHE_TAGSET("dl2", a))
  <2>1. t \in SecondLevel!Access(s, "dl2", "Read", CACHE_TAGSET("dl2", a), pc, TRUE)
    BY <1>3, SamePlaces DEF SecondLevel!Prefetch
  <2>. QED  BY <1>1, <2>1, AccessSecond DEF Prefetched
<1>. QED  BY <1>2, <1>3

\* The tables are no part of the caches
LEMMA TrainsSteps ==
    ASSUME NEW s, Good(s), NEW t, NEW x, Trains(s, t, x)
    PROVE  /\ Steps(s, t, {}) /\ Asked(t) = Asked(s) /\ t.newest = s.newest /\ t.fault = s.fault
           /\ \A y, words : Kept(s, y, words) => Kept(t, y, words)
           /\ x = "dl2" => Trained(s, t)
<1>1. \A y : Net(t, y) = Net(s, y)
  BY DEF Trains, Net
<1>2. Steps(s, t, {}) /\ Asked(t) = Asked(s)
  BY <1>1 DEF Trains, Steps, Asked
<1>3. \A y, words : Kept(s, y, words) => Kept(t, y, words)
  BY DEF Trains, Kept
<1>. QED  BY <1>2, <1>3 DEF Trains, Trained

\* The program has run into the end of a table
LEMMA OverrunSteps ==
    ASSUME NEW s, Good(s)
    PROVE  /\ Steps(s, Overrun(s), {}) /\ Overrun(s).newest = s.newest
           /\ Overrun(s).did = s.did /\ Overrun(s).cache = s.cache
           /\ Overrun(s).fault # "none" /\ Trained(s, Overrun(s))
           /\ Overrun(s).rpt = s.rpt /\ Overrun(s).rpt_open = s.rpt_open
<1>. DEFINE t == Overrun(s)
<1>1. /\ t \in SimType /\ SameTables(s, t) /\ t.cache = s.cache /\ t.did = s.did
      /\ t.newest = s.newest /\ t.fault = "rpt overrun"
  BY DEF Overrun, Good, SimType, Faults, SameTables
<1>. HIDE DEF t
<1>2. Good(t)
  BY <1>1, SameTablesOK DEF Good
<1>3. \A y : Net(t, y) = Net(s, y)
  BY <1>1 DEF Net
<1>4. Steps(s, t, {})
  BY <1>1, <1>2, <1>3 DEF Steps
<1>. QED  BY <1>1, <1>4 DEF t, Trained, SameTables

\* What a call of the second level leaves, with the prefetch it starts
CalledSecond(s, t, cmd, addr, prefetch) ==
    /\ Steps(s, t, {"dl2"})
    /\ \A w \in Words : t.newest[w] = "dl1" <=> s.newest[w] = "dl1"
    /\ Trained(s, t)
    /\ prefetch => t.rpt = s.rpt /\ t.rpt_open = s.rpt_open
    /\ t.fault = "none" =>
          /\ Asked(t) = Asked(s) + (IF prefetch THEN 0 ELSE 1)
          /\ Kept(s, "dl2", IF cmd = "Write" THEN {w \in Words : Line("dl2", w) = Line("dl2", addr)} ELSE {})
               => Kept(t, "dl2", {})

\* Trained entries, one call after the other
LEMMA TrainedTrans ==
    ASSUME NEW s, NEW t, NEW u, Trained(s, t), Trained(t, u)
    PROVE  Trained(s, u)
BY DEF Trained

\* A whole call of cache_access at the second level, its own prefetch included
LEMMA CallSecond ==
    ASSUME Configured, SimCacheAssumption, NEW s, Good(s), NEW cmd, NEW addr \in Int, NEW prefetch \in BOOLEAN,
           NEW pc \in Nat \ {0}, NEW t \in SecondLevel!cache_access(s, "dl2", cmd, addr, pc, prefetch)
    PROVE  CalledSecond(s, t, cmd, addr, prefetch)
<1>0. "dl2" \in Caches
  BY DEF SimCacheAssumption
<1>. DEFINE words == IF cmd = "Write" THEN {w \in Words : Line("dl2", w) = Line("dl2", addr)} ELSE {}
<1>1. ASSUME NEW u, u \in SecondLevel!Access(s, "dl2", cmd, addr, pc, prefetch)
      PROVE  /\ CalledSecond(s, u, cmd, addr, prefetch) /\ Good(u)
  <2>1. Accessed(s, u, "dl2", cmd, addr, prefetch)
    BY <1>1, AccessSecond
  <2>2. {"dl2", "dl2"} = {"dl2"}
    OBVIOUS
  <2>. HIDE DEF words
  <2>. QED  BY <2>1, <2>2 DEF Accessed, CalledSecond, Steps
<1>2. CASE prefetch
  <2>1. t \in SecondLevel!Access(s, "dl2", cmd, addr, pc, prefetch)
    BY <1>2 DEF SecondLevel!cache_access, SecondLevel!StartsPrefetch
  <2>. QED  BY <1>1, <2>1
<1>3. CASE ~prefetch
  <2>1. PICK u \in SecondLevel!Access(s, "dl2", cmd, addr, pc, prefetch) :
            t \in SecondLevel!generate_prefetch(u, "dl2", addr, pc)
    BY <1>3 DEF SecondLevel!cache_access, SecondLevel!StartsPrefetch
  <2>2. CalledSecond(s, u, cmd, addr, prefetch) /\ Good(u)
    BY <1>1, <2>1
  <2>3. ASSUME /\ Steps(u, t, {"dl2"})
               /\ \A w \in Words : t.newest[w] = "dl1" <=> u.newest[w] = "dl1"
               /\ Trained(u, t)
               /\ t.fault = "none" => Asked(t) = Asked(u) /\ (Kept(u, "dl2", {}) => Kept(t, "dl2", {}))
        PROVE  CalledSecond(s, t, cmd, addr, prefetch)
    <3>1. Steps(s, t, {"dl2"}) /\ Trained(s, t)
      BY <2>2, <2>3, StepsTrans, TrainedTrans DEF CalledSecond
    <3>2. t.fault = "none" => u.fault = "none"
      BY <2>3 DEF Steps
    <3>3. \A w \in Words : t.newest[w] = "dl1" <=> s.newest[w] = "dl1"
      BY <2>2, <2>3 DEF CalledSecond
    <3>4. t.fault = "none" => Asked(t) = Asked(s) + (IF prefetch THEN 0 ELSE 1)
      BY <2>2, <2>3, <3>2 DEF CalledSecond
    <3>5. t.fault = "none" => (Kept(s, "dl2", words) => Kept(t, "dl2", {}))
      BY <2>2, <2>3, <3>2 DEF CalledSecond
    <3>. QED  BY <1>3, <3>1, <3>3, <3>4, <3>5 DEF CalledSecond
  <2>4. ASSUME NEW m, Trains(u, m, "dl2")
        PROVE  /\ Good(m) /\ Steps(u, m, {"dl2"}) /\ m.newest = u.newest /\ Trained(u, m)
               /\ Asked(m) = Asked(u) /\ (Kept(u, "dl2", {}) => Kept(m, "dl2", {}))
               /\ m.fault = u.fault
    BY <2>2, <2>4, TrainsSteps, StepsMore DEF Trains
  <2>5. CASE NoneDue(u, "dl2", addr, pc, t)
    <3>1. CASE t = u
      BY <2>2, <2>3, <3>1, StepsRefl DEF Trained
    <3>2. CASE Trains(u, t, "dl2")
      BY <2>3, <2>4, <3>2
    <3>3. ASSUME NEW m, Trains(u, m, "dl2"), t = Overrun(m)
          PROVE  CalledSecond(s, t, cmd, addr, prefetch)
      <4>1. Steps(m, t, {"dl2"}) /\ t.newest = m.newest /\ Trained(m, t) /\ t.fault # "none"
        BY <2>4, <3>3, OverrunSteps, StepsMore
      <4>. QED  BY <2>3, <2>4, <3>3, <4>1, StepsTrans, TrainedTrans
    <3>. QED  BY <2>5, <3>1, <3>2, <3>3 DEF NoneDue
  <2>6. ASSUME NEW m, NEW a, Due(u, "dl2", addr, pc, m, a), t \in SecondLevel!Prefetch(m, "dl2", a, pc)
        PROVE  CalledSecond(s, t, cmd, addr, prefetch)
    <3>1. Trains(u, m, "dl2") /\ a \in Int
      BY <2>6 DEF Due
    <3>2. Prefetched(m, t, "dl2", a)
      BY <1>0, <2>4, <2>6, <3>1, PrefetchSecond
    <3>3. CASE t = m
      BY <2>3, <2>4, <3>1, <3>3
    <3>4. CASE Accessed(m, t, "dl2", "Read", CACHE_TAGSET("dl2", a), TRUE)
      <4>1. {"dl2", "dl2"} = {"dl2"}
        OBVIOUS
      <4>2. /\ Steps(m, t, {"dl2"}) /\ Trained(m, t)
            /\ \A w \in Words : t.newest[w] = "dl1" <=> m.newest[w] = "dl1"
        BY <3>4, <4>1 DEF Accessed
      <4>3. t.fault = "none" => Asked(t) = Asked(m) + 0 /\ (Kept(m, "dl2", {}) => Kept(t, "dl2", {}))
        BY <3>4 DEF Accessed
      <4>4. Asked(m) \in Int
        BY <1>0, <2>4, <3>1, Numbers
      <4>. QED  BY <2>3, <2>4, <3>1, <4>2, <4>3, <4>4, StepsTrans, TrainedTrans
    <3>. QED  BY <3>2, <3>3, <3>4 DEF Prefetched
  <2>. QED  BY <1>0, <2>1, <2>2, <2>5, <2>6, GenerateSecond
<1>. QED  BY <1>2, <1>3

-----------------------------------------------------------------------------
(* An access to the first level *)

\* The miss handlers of the first level
LEMMA LowerFirst ==
    ASSUME Configured, SimCacheAssumption, NEW x \in {"il1", "dl1"}, NEW s, Good(s), NEW cmd,
           NEW baddr \in Int, NEW pc \in Nat \ {0}, NEW prefetch \in BOOLEAN,
           cmd = "Write" => \A w \in Int : w \in WordsOf(x, baddr) => Line(x, w) = Line(x, baddr),
           NEW t \in l1_access_fn(s, x, cmd, baddr, pc, prefetch)
    PROVE  Lower(s, t, x, IF cmd = "Write" THEN WordsOf(x, baddr) ELSE {}, IF prefetch THEN 0 ELSE 1)
<1>. DEFINE words == IF cmd = "Write" THEN WordsOf(x, baddr) ELSE {}
            moved == IF cmd = "Write" THEN Moved(s, WordsOf(x, baddr), {x}, "dl2") ELSE s
            new == [w \in Words |-> IF w \in words /\ s.newest[w] = x THEN "dl2" ELSE s.newest[w]]
            line == IF cmd = "Write" THEN {w \in Words : Line("dl2", w) = Line("dl2", baddr)} ELSE {}
<1>1. s \in SimType /\ "dl2" \in Caches /\ Words \subseteq Int
  BY DEF Good, SimCacheAssumption
<1>2. moved = [s EXCEPT !.newest = new]
  <2>1. CASE cmd = "Write"
    BY <1>1, <2>1 DEF Moved, SimType
  <2>2. CASE cmd # "Write"
    <3>1. new = s.newest
      BY <1>1, <2>2 DEF SimType, Newest
    <3>. QED  BY <1>1, <2>2, <3>1 DEF SimType
  <2>. QED  BY <2>1, <2>2
<1>3. new \in Newest
  BY <1>1 DEF SimType, Newest
<1>4. \A w \in Words : /\ new[w] = "dl1" <=> s.newest[w] = "dl1" /\ ~(x = "dl1" /\ w \in words)
                       /\ new[w] = "dl2" <=> s.newest[w] = "dl2" \/ (s.newest[w] = x /\ w \in words)
  BY <1>1 DEF SimType, Newest
<1>5. \A w \in Words : w \in words => w \in line
  BY <1>1, BlockWithin
<1>6. t \in SecondLevel!cache_access(moved, "dl2", cmd, baddr, pc, prefetch)
  BY DEF l1_access_fn
<1>. HIDE DEF new
<1>7. /\ moved \in SimType /\ moved.newest = new /\ moved.cache = s.cache /\ moved.did = s.did
      /\ moved.fault = s.fault /\ SameTables(s, moved)
  BY <1>1, <1>2, <1>3 DEF SimType, SameTables
<1>. HIDE DEF moved
<1>8. Good(moved)
  BY <1>7, SameTablesOK DEF Good
<1>9. Steps(s, moved, {"dl2"})
  BY <1>7, <1>8 DEF Steps, Net
<1>10. CalledSecond(moved, t, cmd, baddr, prefetch)
  BY <1>6, <1>8, CallSecond
<1>11. Steps(s, t, {"dl2"} \ {x})
  <2>1. {"dl2"} \ {x} = {"dl2"}
    OBVIOUS
  <2>. QED  BY <1>9, <1>10, <2>1, StepsTrans DEF CalledSecond
<1>12. \A w \in Words, y \in {"dl1", x} :
          t.newest[w] = y <=> s.newest[w] = y /\ ~(y = x /\ w \in words)
  <2>1. ASSUME NEW w \in Words
        PROVE  t.newest[w] = "dl1" <=> s.newest[w] = "dl1" /\ ~(x = "dl1" /\ w \in words)
    BY <1>4, <1>7, <1>10 DEF CalledSecond
  <2>2. ASSUME NEW w \in Words  PROVE t.newest[w] # "il1" /\ s.newest[w] # "il1"
    BY <1>1, <1>11 DEF Steps, Good, SimType, Newest
  <2>. QED  BY <2>1, <2>2
<1>13. ASSUME Kept(s, "dl2", {})  PROVE Kept(moved, "dl2", line)
  <2>1. ASSUME NEW w \in Words \ line, new[w] = "dl2"  PROVE Held("dl2", s.cache["dl2"], w)
    BY <1>4, <1>5, <1>13, <2>1 DEF Kept
  <2>. HIDE DEF line
  <2>. QED  BY <1>7, <2>1 DEF Kept
<1>14. Trained(s, moved) /\ Asked(moved) = Asked(s)
  BY <1>7 DEF Trained, SameTables, Asked
<1>15. Trained(s, t)
  BY <1>10, <1>14, TrainedTrans DEF CalledSecond
<1>16. prefetch => t.rpt = s.rpt /\ t.rpt_open = s.rpt_open
  BY <1>7, <1>10 DEF CalledSecond, SameTables
<1>17. t.fault = "none" =>
          /\ Asked(t) = Asked(s) + (IF prefetch THEN 0 ELSE 1)
          /\ Kept(s, "dl2", {}) => Kept(t, "dl2", {})
  BY <1>10, <1>13, <1>14 DEF CalledSecond
<1>. HIDE DEF words, line
<1>18. Lower(s, t, x, words, IF prefetch THEN 0 ELSE 1)
  BY <1>11, <1>12, <1>15, <1>16, <1>17 DEF Lower
<1>. QED  BY <1>18 DEF words

\* A fill of the first level goes through these states
LEMMA FillFirst ==
    ASSUME Configured, SimCacheAssumption, NEW x \in {"il1", "dl1"}, NEW s, Good(s), NEW cmd, NEW addr \in Int, NEW prefetch \in BOOLEAN,
           NEW pc \in Nat \ {0}, NEW i \in Ways(x), Here(x, s.cache[x], addr) = {},
           NEW t \in FirstLevel!Fill(s, x, cmd, addr, pc, prefetch, i)
    PROVE  \E m, e, n, f : FillFrom(s, x, cmd, addr, prefetch, i, m, e, n, f, t)
<1>. DEFINE r == CACHE_SET(x, addr)
            c == s.cache[x]
            b == c.blks[r][i]
            wb == b.valid /\ b.dirty
            m == Evicting(s, x, addr, prefetch, i)
            first == FirstMissed(s, x, addr, prefetch, i)
            named(e) == [e EXCEPT !.cache[x].blks[r][i] =
                            [tag |-> CACHE_TAG(x, addr), valid |-> TRUE, dirty |-> FALSE]]
            words == WordsOf(x, CACHE_MK_BADDR(x, b.tag, r))
            next(e) == Put(e, x, Named(x, e.cache[x], addr, i), e.did[x])
<1>1. x \in Caches /\ "dl2" \in Caches
  BY DEF SimCacheAssumption
<1>2. FirstLevel!Evicted(first, x, r, pc, i)
        = IF wb THEN l1_access_fn(m, x, "Write", CACHE_MK_BADDR(x, b.tag, r), pc, FALSE) ELSE {m}
  <2>1. Evictions(s, x, addr, prefetch, i, pc)
    BY <1>1, EvictedPut
  <2>. QED  BY <2>1 DEF Evictions
<1>3. Good(m) /\ \A e : Steps(m, e, {"dl2"} \ {x}) => named(e) = next(e) /\ Good(next(e))
  <2>1. ASSUME NEW e  PROVE Good(m) /\ (Steps(m, e, {"dl2"} \ {x}) => named(e) = next(e) /\ Good(next(e)))
    BY ZenonT(40), <1>1, FillStarts DEF Evicting
  <2>. QED  BY <2>1
<1>. HIDE DEF m, first, b
<1>4. \E e \in FirstLevel!Evicted(first, x, r, pc, i) :
         \E f \in l1_access_fn(named(e), x, "Read", CACHE_TAGSET(x, addr), pc, prefetch) :
            t = FirstLevel!SetDirty(f, x, r, i, cmd)
  BY SamePlaces DEF FirstLevel!Fill, first, FirstMissed
<1>. HIDE DEF next, named
<1>5. PICK e \in FirstLevel!Evicted(first, x, r, pc, i) :
         \E f \in l1_access_fn(named(e), x, "Read", CACHE_TAGSET(x, addr), pc, prefetch) :
            t = FirstLevel!SetDirty(f, x, r, i, cmd)
  BY <1>4
<1>6. PICK f \in l1_access_fn(named(e), x, "Read", CACHE_TAGSET(x, addr), pc, prefetch) :
         t = FirstLevel!SetDirty(f, x, r, i, cmd)
  BY <1>5
<1>0. r \in Sets(x) /\ CACHE_TAGSET(x, addr) \in Int /\ b.tag \in Int
  <2>1. r \in Sets(x) /\ CACHE_TAGSET(x, addr) \in Int
    BY <1>1, Places
  <2>2. c.blks \in [Sets(x) -> [Ways(x) -> Block]]
    BY <1>1 DEF Good, CacheOK, CacheType
  <2>3. c.blks[r][i] \in Block
    BY <2>1, <2>2
  <2>. QED  BY <2>1, <2>3 DEF b, Block
<1>7. IF wb THEN Lower(m, e, x, words, 1) ELSE e = m
  <2>1. CASE ~wb
    BY <1>2, <1>5, <2>1
  <2>2. CASE wb
    <3>. DEFINE baddr == CACHE_MK_BADDR(x, b.tag, r)
    <3>1. baddr \in Int /\ \A w \in Int : w \in WordsOf(x, baddr) => Line(x, w) = Line(x, baddr)
      BY <1>0, <1>1, MadeAddress
    <3>2. e \in l1_access_fn(m, x, "Write", baddr, pc, FALSE)
      BY <1>2, <1>5, <2>2
    <3>. HIDE DEF baddr
    <3>3. Lower(m, e, x, WordsOf(x, baddr), 1)
      BY <1>3, <3>1, <3>2, LowerFirst
    <3>. QED  BY <2>2, <3>3 DEF baddr
  <2>. QED  BY <2>1, <2>2
<1>8. Steps(m, e, {"dl2"} \ {x})
  BY <1>3, <1>7, LowerRefl, StepsRefl DEF Lower
<1>9. named(e) = next(e) /\ Good(next(e))
  BY <1>3, <1>8
<1>10. Lower(next(e), f, x, {}, IF prefetch THEN 0 ELSE 1)
  BY <1>0, <1>6, <1>9, LowerFirst
<1>11. t = Put(f, x, Dirtied(f.cache[x], r, i, cmd), f.did[x])
  <2>1. f \in SimType
    BY <1>10 DEF Lower, Steps, Good
  <2>. QED  BY <1>1, <1>6, <2>1, DirtyPut
<1>12. FillFrom(s, x, cmd, addr, prefetch, i, m, e, next(e), f, t)
  BY <1>7, <1>10, <1>11 DEF FillFrom, m, next, b, Evicting
<1>. QED  BY <1>12

\* An access to the first level
LEMMA AccessFirst ==
    ASSUME Configured, SimCacheAssumption, NEW x \in {"il1", "dl1"}, NEW s, Good(s), NEW cmd, NEW addr \in Int, NEW prefetch \in BOOLEAN,
           NEW pc \in Nat \ {0}, NEW t \in FirstLevel!Access(s, x, cmd, addr, pc, prefetch)
    PROVE  Accessed(s, t, x, cmd, addr, prefetch)
<1>. DEFINE c == s.cache[x]
            r == CACHE_SET(x, addr)
            d == Plus(s.did[x], HitCounter(prefetch))
<1>1. x \in Caches /\ CacheOK(x, c) /\ s \in SimType /\ r \in Sets(x)
  BY Places DEF Good, SimCacheAssumption
<1>2. CASE s.fault # "none"
  <2>1. t = s
    BY <1>2 DEF FirstLevel!Access
  <2>. QED  BY <1>1, <1>2, <2>1, StoppedAccessed
<1>3. CASE s.fault = "none" /\ CACHE_TAGSET(x, addr) = c.last_tagset
  <2>1. t = FirstLevel!FastHit(s, x, cmd, prefetch)
    BY <1>3, SamePlaces DEF FirstLevel!Access
  <2>2. CASE c.last_blk = NULL
    <3>1. t = [s EXCEPT !.fault = "NULL block"]
      BY <2>1, <2>2, SamePlaces DEF FirstLevel!FastHit
    <3>2. "NULL block" \in Faults \ {"none"}
      BY DEF Faults
    <3>. QED  BY <1>1, <3>1, <3>2, FaultAccessed
  <2>3. CASE c.last_blk # NULL
    <3>1. PICK i \in Here(x, c, addr) :
             /\ FirstLevel!FastHit(s, x, cmd, prefetch) = Put(s, x, Dirtied(c, r, i, cmd), d)
             /\ Config[x].policy = "LRU" => c.way[r][1] = i
      BY <1>1, <1>3, <2>3, FastHitPut
    <3>. QED  BY <1>1, <2>1, <3>1, HitAccessed
  <2>. QED  BY <2>2, <2>3
<1>4. CASE s.fault = "none" /\ CACHE_TAGSET(x, addr) # c.last_tagset /\ Here(x, c, addr) # {}
  <2>0. FirstLevel!Found(s, x, addr) = Here(x, c, addr) /\ FirstLevel!cache_probe(s, x, addr)
    BY ZenonT(40), <1>4, SameFound
  <2>5. t \in {FirstLevel!Hit(s, x, cmd, addr, prefetch, i) : i \in FirstLevel!Found(s, x, addr)}
    BY <1>4, <2>0, SamePlaces DEF FirstLevel!Access
  <2>1. PICK i \in Here(x, c, addr) : t = FirstLevel!Hit(s, x, cmd, addr, prefetch, i)
    BY <2>0, <2>5
  <2>. DEFINE e == Touched(x, c, addr, i)
  <2>2. t = Put(s, x, Dirtied(e, r, i, cmd), d)
    BY <1>1, <2>1, HitPut
  <2>3. CacheOK(x, e) /\ e.blks = c.blks /\ (Config[x].policy = "LRU" => e.way[r][1] = i)
    <3>. HIDE DEF c
    <3>. QED  BY <1>1, <2>1, TouchedOK
  <2>. HIDE DEF e
  <2>4. i \in Here(x, e, addr)
    BY <2>1, <2>3 DEF Here
  <2>. QED  BY <1>1, <2>2, <2>3, <2>4, HitAccessed
<1>5. CASE s.fault = "none" /\ CACHE_TAGSET(x, addr) # c.last_tagset /\ Here(x, c, addr) = {}
  <2>1. PICK i \in FirstLevel!Victims(s, x, r) : t \in FirstLevel!Fill(s, x, cmd, addr, pc, prefetch, i)
    BY <1>5, SamePlaces, SameFound DEF FirstLevel!Access
  <2>2. i \in Ways(x) /\ (Config[x].policy = "LRU" => i = c.way[r][Config[x].assoc])
    <3>1. i \in Ways(x) /\ (Config[x].policy = "LRU" => i = s.cache[x].way[r][Config[x].assoc])
      <4>. HIDE DEF r, c
      <4>. QED  BY <1>1, <2>1, VictimLast
    <3>. QED  BY <3>1
  <2>3. \E m, e, n, f : FillFrom(s, x, cmd, addr, prefetch, i, m, e, n, f, t)
    BY <1>5, <2>1, <2>2, FillFirst
  <2>. QED  BY <1>1, <1>5, <2>2, <2>3, FillAccessed
<1>. QED  BY <1>2, <1>3, <1>4, <1>5

\* A prefetch into a first-level cache, with the calls of dl2 it causes
LEMMA PrefetchFirst ==
    ASSUME Configured, SimCacheAssumption, NEW x \in {"il1", "dl1"}, NEW s, Good(s), NEW a \in Int,
           NEW pc \in Nat \ {0}, NEW t \in FirstLevel!Prefetch(s, x, a, pc)
    PROVE  Prefetched(s, t, x, a)
<1>0. x \in Caches
  BY DEF SimCacheAssumption
<1>1. CACHE_TAGSET(x, a) \in Int
  BY <1>0, Places
<1>2. CASE FirstLevel!cache_probe(s, x, CACHE_TAGSET(x, a))
  <2>1. t = s
    BY <1>2, SamePlaces DEF FirstLevel!Prefetch
  <2>2. Here(x, s.cache[x], CACHE_TAGSET(x, a)) # {}
    BY <1>2, SameFound
  <2>3. Here(x, s.cache[x], CACHE_TAGSET(x, a)) = Here(x, s.cache[x], a)
    BY <1>0, SameHere
  <2>. QED  BY <2>1, <2>2, <2>3 DEF Prefetched
<1>3. CASE ~FirstLevel!cache_probe(s, x, CACHE_TAGSET(x, a))
  <2>1. t \in FirstLevel!Access(s, x, "Read", CACHE_TAGSET(x, a), pc, TRUE)
    BY <1>3, SamePlaces DEF FirstLevel!Prefetch
  <2>. QED  BY <1>1, <2>1, AccessFirst DEF Prefetched
<1>. QED  BY <1>2, <1>3

\* How many of the accesses that dl2 has seen are not from x
Flow(s, x) == Asked(s) - s.did[x]["misses"] - s.did[x]["writebacks"]

\* The prefetcher of dl2 trains the table that the one of x uses
SharedWith(x) ==
    \/ Config[x].prefetch_type = 2 /\ Config["dl2"].prefetch_type = 2
    \/ Config[x].prefetch_type > 2 /\ Config["dl2"].prefetch_type > 2

\* What a prefetcher of the first level leaves after an access to addr
Followed(s, t, x, addr, pc) ==
    /\ Steps(s, t, {x, "dl2"})
    /\ x # "dl1" => \A w \in Words : t.newest[w] = "dl1" <=> s.newest[w] = "dl1"
    /\ s.did[x]["writebacks"] <= t.did[x]["writebacks"]
    /\ t.fault = "none" =>
          /\ Flow(t, x) = Flow(s, x)
          /\ Kept(s, "dl2", {}) => Kept(t, "dl2", {})
          /\ Kept(s, x, {}) => Kept(t, x, {})
          /\ /\ Config[x].prefetch_type # 0
             /\ SharedWith(x) => t.did[x]["writebacks"] = s.did[x]["writebacks"]
             => \A a \in PredictedAt(t, x, addr, pc) : Here(x, t.cache[x], a) # {}
          /\ /\ Config[x].policy = "LRU" /\ Config[x].assoc > 1
             /\ s.cache[x].way[CACHE_SET(x, addr)][1] \in Here(x, s.cache[x], addr)
             => Here(x, t.cache[x], addr) # {}

\* Training changes nothing that is counted or held
Unmoved(s, t, x) ==
    /\ Good(t) /\ Steps(s, t, {x, "dl2"}) /\ t.newest = s.newest /\ t.fault = s.fault
    /\ t.did = s.did /\ t.cache = s.cache /\ Flow(t, x) = Flow(s, x)
    /\ \A y, words : Kept(s, y, words) => Kept(t, y, words)

\* Training moves no block
LEMMA TrainsFollowed ==
    ASSUME Configured, NEW x \in Caches, NEW s, Good(s), NEW t, Trains(s, t, x)
    PROVE  Unmoved(s, t, x)
<1>1. Steps(s, t, {x, "dl2"})
  BY TrainsSteps, StepsMore
<1>2. t.did = s.did /\ t.cache = s.cache /\ t.newest = s.newest /\ t.fault = s.fault /\ Good(t)
  BY DEF Trains
<1>3. \A y, words : Kept(s, y, words) => Kept(t, y, words)
  BY TrainsSteps
<1>. QED  BY <1>1, <1>2, <1>3 DEF Flow, Asked, Unmoved

\* The prediction of a table that nobody else trains stays
LEMMA PredictedStays ==
    ASSUME Configured, NEW x \in Caches, NEW s, NEW t, NEW addr, NEW pc, Trained(s, t),
           SharedWith(x) => t.rpt = s.rpt /\ t.rpt_open = s.rpt_open, Config[x].prefetch_type # 0
    PROVE  PredictedAt(t, x, addr, pc) = PredictedAt(s, x, addr, pc)
<1>1. Config[x].prefetch_type \in Nat
  BY DEF Configured, CacheConfig
<1>2. CASE SharedWith(x)
  BY <1>2 DEF PredictedAt
<1>3. CASE Config[x].prefetch_type = 1
  BY <1>3 DEF PredictedAt
<1>4. CASE ~SharedWith(x) /\ Config[x].prefetch_type = 2
  <2>1. t.rpt_open = s.rpt_open
    BY <1>4 DEF SharedWith, Trained
  <2>. QED  BY <1>4, <2>1 DEF PredictedAt
<1>5. CASE ~SharedWith(x) /\ Config[x].prefetch_type > 2
  <2>0. Config["dl2"].prefetch_type <= 2 \/ Config["dl2"].prefetch_type > 2
    BY SimCacheAssumption DEF Configured, CacheConfig
  <2>1. t.rpt = s.rpt
    BY <1>5, <2>0 DEF SharedWith, Trained
  <2>2. Config[x].prefetch_type # 1 /\ Config[x].prefetch_type # 2
    BY <1>1, <1>5
  <2>. QED  BY <2>1, <2>2 DEF PredictedAt
<1>. QED  BY <1>1, <1>2, <1>3, <1>4, <1>5

\* All that follows an access to a first-level cache: training and prefetches
LEMMA GenerateFollowed ==
    ASSUME Configured, SimCacheAssumption, NEW x \in {"il1", "dl1"}, NEW s, Good(s), NEW addr \in Int,
           NEW pc \in Nat \ {0}, NEW t \in FirstLevel!generate_prefetch(s, x, addr, pc)
    PROVE  Followed(s, t, x, addr, pc)
<1>0. x \in Caches /\ "dl2" \in Caches
  BY DEF SimCacheAssumption
<1>. DEFINE wb(u) == u.did[x]["writebacks"]
<1>1. \A u : Good(u) => wb(u) \in Nat /\ Flow(u, x) \in Int
  BY SMTT(30), <1>0, Numbers DEF Flow
<1>2. CASE NoneDue(s, x, addr, pc, t)
  <2>1. CASE t = s /\ (s.fault # "none" \/ Config[x].prefetch_type = 0)
    <3>1. Steps(s, t, {x, "dl2"})
      BY <2>1, StepsRefl
    <3>. QED  BY <1>1, <2>1, <3>1 DEF Followed
  <2>2. CASE Trains(s, t, x) /\ PredictedAt(t, x, addr, pc) = {}
    <3>1. Unmoved(s, t, x)
      BY <1>0, <2>2, TrainsFollowed
    <3>2. wb(t) = wb(s) /\ wb(s) \in Nat
      BY <1>1, <3>1 DEF Unmoved
    <3>. QED  BY <2>2, <3>1, <3>2 DEF Followed, Unmoved
  <2>3. ASSUME NEW m, Trains(s, m, x), t = Overrun(m)
        PROVE  Followed(s, t, x, addr, pc)
    <3>0. Unmoved(s, m, x)
      BY <1>0, <2>3, TrainsFollowed
    <3>1. Good(m) /\ Steps(s, m, {x, "dl2"}) /\ m.newest = s.newest /\ m.did = s.did
      BY <3>0 DEF Unmoved
    <3>2. Steps(m, t, {x, "dl2"}) /\ t.newest = m.newest /\ t.did = m.did /\ t.fault # "none"
      BY <2>3, <3>1, OverrunSteps, StepsMore
    <3>3. Steps(s, t, {x, "dl2"})
      BY <3>1, <3>2, StepsTrans
    <3>. QED  BY <1>1, <3>1, <3>2, <3>3 DEF Followed
  <2>. QED  BY <1>2, <2>1, <2>2, <2>3 DEF NoneDue
<1>3. ASSUME NEW m, NEW a, Due(s, x, addr, pc, m, a), t \in FirstLevel!Prefetch(m, x, a, pc)
      PROVE  Followed(s, t, x, addr, pc)
  <2>1. Trains(s, m, x) /\ a \in Int /\ PredictedAt(m, x, addr, pc) \subseteq {a}
    BY <1>3 DEF Due
  <2>0. Unmoved(s, m, x)
    BY <1>0, <2>1, TrainsFollowed
  <2>2. /\ Good(m) /\ Steps(s, m, {x, "dl2"}) /\ m.newest = s.newest /\ m.did = s.did /\ m.cache = s.cache
        /\ Flow(m, x) = Flow(s, x) /\ \A y, words : Kept(s, y, words) => Kept(m, y, words)
    BY <2>0 DEF Unmoved
  <2>3. Prefetched(m, t, x, a)
    BY <1>3, <2>1, <2>2, PrefetchFirst
  <2>4. CASE t = m /\ Here(x, m.cache[x], a) # {}
    <3>1. wb(m) = wb(s) /\ wb(s) \in Nat
      BY <1>1, <2>2
    <3>2. \A b \in PredictedAt(t, x, addr, pc) : Here(x, t.cache[x], b) # {}
      BY <2>1, <2>4
    <3>3. /\ Steps(s, t, {x, "dl2"}) /\ t.newest = s.newest /\ Flow(t, x) = Flow(s, x)
          /\ Kept(s, "dl2", {}) => Kept(t, "dl2", {})
          /\ Kept(s, x, {}) => Kept(t, x, {})
          /\ wb(s) <= wb(t)
      BY <2>2, <2>4, <3>1
    <3>4. s.cache[x].way[CACHE_SET(x, addr)][1] \in Here(x, s.cache[x], addr) => Here(x, t.cache[x], addr) # {}
      BY <2>2, <2>4
    <3>. QED  BY <3>2, <3>3, <3>4 DEF Followed
  <2>5. CASE Accessed(m, t, x, "Read", CACHE_TAGSET(x, a), TRUE)
    <3>1. /\ Steps(m, t, {x, "dl2"}) /\ Trained(m, t) /\ wb(m) <= wb(t)
          /\ x # "dl1" => \A w \in Words : t.newest[w] = "dl1" <=> m.newest[w] = "dl1"
      BY <2>5 DEF Accessed
    <3>2. Steps(s, t, {x, "dl2"})
      BY <2>2, <3>1, StepsTrans
    <3>3. t.fault = "none" =>
             /\ Flow(t, x) = Flow(m, x)
             /\ Kept(m, "dl2", {}) => Kept(t, "dl2", {})
             /\ Kept(m, x, {}) => Kept(t, x, {})
             /\ Here(x, t.cache[x], CACHE_TAGSET(x, a)) # {}
      <4>1. x # "dl2" /\ "Read" # "Write"
        OBVIOUS
      <4>. QED  BY <2>5, <4>1 DEF Accessed, Flow
    <3>4. Here(x, t.cache[x], CACHE_TAGSET(x, a)) = Here(x, t.cache[x], a)
      BY <1>0, <2>1, SameHere
    <3>5. /\ Config[x].policy = "LRU" /\ Config[x].assoc > 1
          /\ m.cache[x].way[CACHE_SET(x, addr)][1] \in Here(x, m.cache[x], addr)
          => Here(x, t.cache[x], addr) # {}
      BY <2>5 DEF Accessed
    <3>6. ASSUME Config[x].prefetch_type # 0, SharedWith(x) => wb(t) = wb(s)
          PROVE  PredictedAt(t, x, addr, pc) \subseteq {a}
      <4>1. wb(t) = wb(m) => t.rpt = m.rpt /\ t.rpt_open = m.rpt_open
        BY <2>5 DEF Accessed
      <4>2. PredictedAt(t, x, addr, pc) = PredictedAt(m, x, addr, pc)
        BY <1>0, <2>2, <3>1, <3>6, <4>1, PredictedStays
      <4>. QED  BY <2>1, <4>2
    <3>7. ASSUME t.fault = "none", Config[x].prefetch_type # 0, SharedWith(x) => wb(t) = wb(s)
          PROVE  \A b \in PredictedAt(t, x, addr, pc) : Here(x, t.cache[x], b) # {}
      BY <3>3, <3>4, <3>6, <3>7
    <3>. QED  BY <2>2, <3>1, <3>2, <3>3, <3>5, <3>7 DEF Followed
  <2>. QED  BY <2>3, <2>4, <2>5 DEF Prefetched
<1>. QED  BY <1>0, <1>2, <1>3, GenerateFirst

\* What a call of the first level leaves, with the prefetch it starts
Called(s, t, x, cmd, addr, pc) ==
    /\ Steps(s, t, {x, "dl2"})
    /\ x # "dl1" => \A w \in Words : t.newest[w] = "dl1" <=> s.newest[w] = "dl1"
    /\ t.fault = "none" =>
          /\ Flow(t, x) = Flow(s, x)
          /\ Kept(s, "dl2", {}) => Kept(t, "dl2", {})
          /\ Kept(s, x, IF cmd = "Write" THEN {w \in Words : Line(x, w) = Line(x, addr)} ELSE {})
               => Kept(t, x, {})
          /\ /\ Config[x].prefetch_type # 0
             /\ SharedWith(x) => t.did[x]["writebacks"] = s.did[x]["writebacks"]
             => \A a \in PredictedAt(t, x, addr, pc) : Here(x, t.cache[x], a) # {}
          /\ Config[x].policy = "LRU" /\ Config[x].assoc > 1 => Here(x, t.cache[x], addr) # {}

\* A whole call of cache_access at the first level
LEMMA CallFirst ==
    ASSUME Configured, SimCacheAssumption, NEW x \in {"il1", "dl1"}, NEW s, Good(s), NEW cmd, NEW addr \in Int,
           NEW pc \in Nat \ {0}, NEW t \in AccessL1(s, x, cmd, addr, pc)
    PROVE  Called(s, t, x, cmd, addr, pc)
<1>0. x \in Caches /\ "dl2" \in Caches /\ x # "dl2"
  BY DEF SimCacheAssumption
<1>. DEFINE words == IF cmd = "Write" THEN {w \in Words : Line(x, w) = Line(x, addr)} ELSE {}
            wb(u) == u.did[x]["writebacks"]
<1>1. PICK u \in FirstLevel!Access(s, x, cmd, addr, pc, FALSE) :
          t \in FirstLevel!generate_prefetch(u, x, addr, pc)
  BY DEF AccessL1, FirstLevel!cache_access, FirstLevel!StartsPrefetch
<1>2. Accessed(s, u, x, cmd, addr, FALSE)
  BY <1>1, AccessFirst
<1>3. /\ Steps(s, u, {x, "dl2"}) /\ wb(s) <= wb(u)
      /\ x # "dl1" => \A w \in Words : u.newest[w] = "dl1" <=> s.newest[w] = "dl1"
  BY <1>2 DEF Accessed
<1>4. u.fault = "none" =>
         /\ Flow(u, x) = Flow(s, x)
         /\ Kept(s, "dl2", {}) => Kept(u, "dl2", {})
         /\ Kept(s, x, words) => Kept(u, x, {})
         /\ Config[x].policy = "LRU" => u.cache[x].way[CACHE_SET(x, addr)][1] \in Here(x, u.cache[x], addr)
  BY <1>0, <1>2 DEF Accessed, Flow
<1>5. Good(u)
  BY <1>3 DEF Steps
<1>6. Followed(u, t, x, addr, pc)
  BY <1>1, <1>5, GenerateFollowed
<1>7. Steps(u, t, {x, "dl2"}) /\ Good(t) /\ wb(u) <= wb(t)
  BY <1>6 DEF Followed, Steps
<1>8. Steps(s, t, {x, "dl2"})
  BY <1>3, <1>7, StepsTrans
<1>9. t.fault = "none" => u.fault = "none"
  BY <1>7 DEF Steps
<1>10. wb(s) \in Nat /\ wb(u) \in Nat /\ wb(t) \in Nat
  BY <1>0, <1>5, <1>7, Numbers
<1>11. wb(t) = wb(s) => wb(t) = wb(u)
  BY <1>3, <1>7, <1>10
<1>. HIDE DEF words, wb
<1>12. ASSUME t.fault = "none"
       PROVE  /\ Flow(t, x) = Flow(s, x)
              /\ Kept(s, "dl2", {}) => Kept(t, "dl2", {})
              /\ Kept(s, x, words) => Kept(t, x, {})
  BY <1>4, <1>6, <1>9, <1>12 DEF Followed
<1>13. ASSUME t.fault = "none", Config[x].prefetch_type # 0, SharedWith(x) => wb(t) = wb(s)
       PROVE  \A a \in PredictedAt(t, x, addr, pc) : Here(x, t.cache[x], a) # {}
  BY <1>6, <1>11, <1>13 DEF Followed, wb
<1>14. ASSUME t.fault = "none", Config[x].policy = "LRU", Config[x].assoc > 1
       PROVE  Here(x, t.cache[x], addr) # {}
  BY <1>4, <1>6, <1>9, <1>14 DEF Followed
<1>15. x # "dl1" => \A w \in Words : t.newest[w] = "dl1" <=> s.newest[w] = "dl1"
  BY <1>3, <1>6 DEF Followed
<1>. QED  BY <1>8, <1>12, <1>13, <1>14, <1>15 DEF Called, words, wb

-----------------------------------------------------------------------------
(* One instruction *)

\* The newest values are where the simulator would find them
Safe(s) == Kept(s, "dl1", {}) /\ Kept(s, "dl2", {})

\* The accesses that dl2 has seen beyond those the first level has made
Surplus(s) == Asked(s) - s.did["il1"]["misses"] - s.did["il1"]["writebacks"]
                       - s.did["dl1"]["misses"] - s.did["dl1"]["writebacks"]

\* What every part of an instruction leaves
Stepped(s, t) ==
    /\ Steps(s, t, Caches)
    /\ t.fault = "none" => Surplus(t) = Surplus(s) /\ (Safe(s) => Safe(t))

\* Parts of an instruction, one after the other
LEMMA SteppedTrans ==
    ASSUME NEW s, NEW t, NEW u, Stepped(s, t), Stepped(t, u)
    PROVE  Stepped(s, u)
<1>1. Steps(s, u, Caches) /\ (u.fault = "none" => t.fault = "none")
  <2>1. Steps(s, t, Caches) /\ Steps(t, u, Caches)
    BY DEF Stepped
  <2>. QED  BY <2>1, StepsTrans DEF Steps
<1>. QED  BY <1>1 DEF Stepped

\* The statistics are numbers
LEMMA SurplusInt ==
    ASSUME SimCacheAssumption, NEW s, Good(s)
    PROVE  /\ Surplus(s) \in Int
           /\ \A x \in {"il1", "dl1"} : /\ s.did[x]["misses"] \in Nat /\ s.did[x]["writebacks"] \in Nat
                                        /\ Asked(s) \in Nat
<1>1. {"il1", "dl1"} \subseteq Caches
  BY DEF SimCacheAssumption
<1>2. s.did["il1"]["misses"] \in Nat /\ s.did["il1"]["writebacks"] \in Nat /\ Asked(s) \in Nat
  BY <1>1, Numbers
<1>3. s.did["dl1"]["misses"] \in Nat /\ s.did["dl1"]["writebacks"] \in Nat
  BY <1>1, Numbers
<1>4. Surplus(s) \in Int
  <2>. DEFINE a == s.did["il1"]["misses"]
              b == s.did["il1"]["writebacks"]
              c == s.did["dl1"]["misses"]
              d == s.did["dl1"]["writebacks"]
              e == Asked(s)
  <2>1. Surplus(s) = e - a - b - c - d
    BY DEF Surplus
  <2>2. a \in Nat /\ b \in Nat /\ c \in Nat /\ d \in Nat /\ e \in Nat
    BY <1>2, <1>3
  <2>. HIDE DEF a, b, c, d, e
  <2>. QED  BY <2>1, <2>2
<1>5. ASSUME NEW x \in {"il1", "dl1"}  PROVE s.did[x]["misses"] \in Nat /\ s.did[x]["writebacks"] \in Nat
  BY <1>2, <1>3
<1>. QED  BY <1>2, <1>4, <1>5

\* A call of the first level
LEMMA SurplusCalled ==
    ASSUME SimCacheAssumption, NEW s, Good(s), NEW t, NEW x \in {"il1", "dl1"}, Steps(s, t, {x, "dl2"}),
           Flow(t, x) = Flow(s, x)
    PROVE  Surplus(t) = Surplus(s) /\ Steps(s, t, Caches)
<1>1. x \in Caches /\ "dl2" \in Caches /\ {x, "dl2"} \subseteq Caches /\ "il1" \in Caches /\ "dl1" \in Caches
  BY DEF SimCacheAssumption
<1>2. Good(t) /\ \A y \in Caches : y \notin {x, "dl2"} => t.did[y] = s.did[y]
  BY DEF Steps
<1>3. CASE x = "il1"
  <2>1. t.did["dl1"] = s.did["dl1"]
    BY <1>1, <1>2, <1>3
  <2>. QED  BY <1>1, <1>2, <1>3, <2>1, SurplusInt, StepsMore DEF Surplus, Flow
<1>4. CASE x = "dl1"
  <2>1. t.did["il1"] = s.did["il1"]
    BY <1>1, <1>2, <1>4
  <2>2. /\ Asked(t) - t.did["dl1"]["misses"] - t.did["dl1"]["writebacks"]
             = Asked(s) - s.did["dl1"]["misses"] - s.did["dl1"]["writebacks"]
        /\ Steps(s, t, Caches)
    BY <1>1, <1>4, StepsMore DEF Flow
  <2>3. /\ s.did["dl1"]["misses"] \in Nat /\ s.did["dl1"]["writebacks"] \in Nat /\ Asked(s) \in Nat
        /\ s.did["il1"]["misses"] \in Nat /\ s.did["il1"]["writebacks"] \in Nat
    BY SurplusInt
  <2>4. t.did["dl1"]["misses"] \in Nat /\ t.did["dl1"]["writebacks"] \in Nat /\ Asked(t) \in Nat
    BY <1>2, SurplusInt
  <2>5. t.did["il1"]["misses"] = s.did["il1"]["misses"] /\ t.did["il1"]["writebacks"] = s.did["il1"]["writebacks"]
    BY <2>1
  <2>. DEFINE a == s.did["il1"]["misses"]
              b == s.did["il1"]["writebacks"]
              c == s.did["dl1"]["misses"]
              d == s.did["dl1"]["writebacks"]
              e == Asked(s)
              f == t.did["dl1"]["misses"]
              g == t.did["dl1"]["writebacks"]
              h == Asked(t)
  <2>6. Surplus(s) = e - a - b - c - d /\ Surplus(t) = h - a - b - f - g
    BY <2>5 DEF Surplus
  <2>7. /\ h - f - g = e - c - d
        /\ a \in Nat /\ b \in Nat /\ c \in Nat /\ d \in Nat /\ e \in Nat
        /\ f \in Nat /\ g \in Nat /\ h \in Nat
    BY <2>2, <2>3, <2>4
  <2>. HIDE DEF a, b, c, d, e, f, g, h
  <2>8. h - a - b - f - g = (h - f - g) - a - b /\ e - a - b - c - d = (e - c - d) - a - b
    BY SMTT(30), <2>7
  <2>9. Surplus(t) = Surplus(s)
    BY <2>6, <2>7, <2>8
  <2>. QED  BY <2>2, <2>9
<1>. QED  BY <1>3, <1>4

\* The fetch of an instruction
LEMMA FetchStepped ==
    ASSUME Configured, SimCacheAssumption, NEW s, Good(s), NEW pc \in Nat \ {0},
           NEW t \in AccessL1(s, "il1", "Read", pc, pc)
    PROVE  Stepped(s, t) /\ t.did["dl1"] = s.did["dl1"]
<1>1. Called(s, t, "il1", "Read", pc, pc)
  BY CallFirst
<1>2. Steps(s, t, {"il1", "dl2"}) /\ \A w \in Words : t.newest[w] = "dl1" <=> s.newest[w] = "dl1"
  BY <1>1 DEF Called
<1>3. t.cache["dl1"] = s.cache["dl1"] /\ t.did["dl1"] = s.did["dl1"]
  BY <1>2, SimCacheAssumption DEF Steps
<1>4. Steps(s, t, Caches)
  <2>1. {"il1", "dl2"} \subseteq Caches
    BY DEF SimCacheAssumption
  <2>. QED  BY <1>2, <2>1, StepsMore
<1>5. ASSUME t.fault = "none"  PROVE Surplus(t) = Surplus(s) /\ (Kept(s, "dl2", {}) => Kept(t, "dl2", {}))
  BY <1>1, <1>2, <1>5, SurplusCalled DEF Called
<1>6. Kept(s, "dl1", {}) => Kept(t, "dl1", {})
  BY <1>2, <1>3 DEF Kept
<1>. QED  BY <1>3, <1>4, <1>5, <1>6 DEF Stepped, Safe

\* What the access of a load or store leaves for the next one
Promised(s, addr, pc) ==
    /\ Config["dl1"].prefetch_type # 0 /\ (SharedWith("dl1") => s.did["dl1"]["writebacks"] = 0)
          => \A a \in PredictedAt(s, "dl1", addr, pc) : Here("dl1", s.cache["dl1"], a) # {}
    /\ Config["dl1"].assoc > 1 /\ Config["dl1"].policy = "LRU" => Here("dl1", s.cache["dl1"], addr) # {}

\* Its access to data
LEMMA DataStepped ==
    ASSUME Configured, SimCacheAssumption, NEW s, Good(s), NEW cmd, NEW addr \in Nat, NEW pc \in Nat \ {0},
           NEW t \in AccessData(s, cmd, addr, pc)
    PROVE  /\ Stepped(s, t)
           /\ t.fault = "none" /\ s.did["dl1"]["writebacks"] = 0 => Promised(t, addr, pc)
<1>. DEFINE stored == IF cmd = "Write" THEN Moved(s, {addr}, {"mem", "dl2", "dl1"}, "dl1") ELSE s
            new == [w \in Words |-> IF cmd = "Write" /\ w = addr THEN "dl1" ELSE s.newest[w]]
            line == IF cmd = "Write" THEN {w \in Words : Line("dl1", w) = Line("dl1", addr)} ELSE {}
<1>1. s \in SimType /\ s.newest \in [Words -> {"mem", "dl2", "dl1"}]
  BY DEF Good, SimType, Newest
<1>2. stored = [s EXCEPT !.newest = new]
  <2>1. CASE cmd = "Write"
    <3>1. [w \in Words |-> IF w \in {addr} /\ s.newest[w] \in {"mem", "dl2", "dl1"} THEN "dl1" ELSE s.newest[w]] = new
      BY <1>1, <2>1
    <3>. HIDE DEF new
    <3>. QED  BY <2>1, <3>1 DEF Moved
  <2>2. CASE cmd # "Write"
    <3>1. new = s.newest
      BY <1>1, <2>2
    <3>. QED  BY <1>1, <2>2, <3>1 DEF SimType
  <2>. QED  BY <2>1, <2>2
<1>3. new \in Newest
  BY <1>1 DEF Newest
<1>4. /\ \A w \in Words : new[w] = "dl2" => s.newest[w] = "dl2"
      /\ \A w \in Words \ line : new[w] = "dl1" => s.newest[w] = "dl1"
  OBVIOUS
<1>5. t \in AccessL1(stored, "dl1", cmd, addr, pc)
  BY DEF AccessData
<1>. HIDE DEF new, line
<1>6. /\ stored \in SimType /\ stored.newest = new /\ stored.cache = s.cache /\ stored.did = s.did
      /\ stored.fault = s.fault /\ SameTables(s, stored)
  BY <1>1, <1>2, <1>3 DEF SimType, SameTables
<1>. HIDE DEF stored
<1>7. Good(stored)
  BY <1>6, SameTablesOK DEF Good
<1>8. Steps(s, stored, Caches) /\ Surplus(stored) = Surplus(s)
  BY <1>6, <1>7 DEF Steps, Net, Surplus, Asked
<1>9. Safe(s) => Kept(stored, "dl1", line) /\ Kept(stored, "dl2", {})
  BY <1>4, <1>6 DEF Safe, Kept
<1>10. Called(stored, t, "dl1", cmd, addr, pc)
  BY <1>5, <1>7, CallFirst
<1>11. Steps(stored, t, {"dl1", "dl2"})
  BY <1>10 DEF Called
<1>12. {"dl1", "dl2"} \subseteq Caches
  BY DEF SimCacheAssumption
<1>13. Steps(s, t, Caches)
  <2>1. Steps(stored, t, Caches)
    BY <1>11, <1>12, StepsMore
  <2>. QED  BY <1>8, <2>1, StepsTrans
<1>14. ASSUME t.fault = "none"  PROVE Surplus(t) = Surplus(s) /\ (Safe(s) => Safe(t))
  <2>1. Surplus(t) = Surplus(stored)
    BY <1>7, <1>10, <1>11, <1>14, SurplusCalled DEF Called
  <2>2. /\ Kept(stored, "dl2", {}) => Kept(t, "dl2", {})
        /\ Kept(stored, "dl1", line) => Kept(t, "dl1", {})
    BY <1>10, <1>14 DEF Called, line
  <2>. QED  BY <1>8, <1>9, <2>1, <2>2 DEF Safe
<1>15. ASSUME t.fault = "none", s.did["dl1"]["writebacks"] = 0  PROVE Promised(t, addr, pc)
  <2>1. stored.did["dl1"]["writebacks"] = 0
    BY <1>6, <1>15
  <2>. QED  BY <1>10, <1>15, <2>1 DEF Called, Promised
<1>. QED  BY <1>13, <1>14, <1>15 DEF Stepped

-----------------------------------------------------------------------------
(* cache_flush *)

\* What the cache x keeps when one of its blocks becomes invalid: all, but for
\* the words of the block if it was dirty
LEMMA InvalidKept ==
    ASSUME Configured, SimCacheAssumption, NEW x \in Caches, NEW s, Good(s), NEW r \in Sets(x), NEW i \in Ways(x),
           NEW t, t.newest = s.newest, OnlyAt(x, s.cache[x], t.cache[x], r, i), Kept(s, x, {})
    PROVE  LET b == s.cache[x].blks[r][i]
           IN  Kept(t, x, IF b.dirty THEN WordsOf(x, CACHE_MK_BADDR(x, b.tag, r)) ELSE {})
<1>. DEFINE c == s.cache[x]
            d == t.cache[x]
            b == c.blks[r][i]
            words == IF b.dirty THEN WordsOf(x, CACHE_MK_BADDR(x, b.tag, r)) ELSE {}
<1>1. b \in Block /\ Words \subseteq Int
  <2>1. c.blks \in [Sets(x) -> [Ways(x) -> Block]]
    BY DEF Good, CacheOK, CacheType
  <2>. QED  BY <2>1, SimCacheAssumption
<1>2. \A w \in Int : CACHE_SET(x, w) = r /\ CACHE_TAG(x, w) = b.tag => w \in WordsOf(x, CACHE_MK_BADDR(x, b.tag, r))
  <2>1. b.tag \in Int
    BY <1>1 DEF Block
  <2>. QED  BY <2>1, MadeAddress
<1>3. ASSUME NEW w \in Words \ words, t.newest[w] = x  PROVE Held(x, d, w)
  <2>1. w \in Int /\ Held(x, c, w)
    BY <1>1, <1>3 DEF Kept
  <2>2. CACHE_SET(x, w) \in Sets(x)
    BY <2>1, Places
  <2>3. PICK j \in Here(x, c, w) : c.blks[CACHE_SET(x, w)][j].dirty
    BY <2>1 DEF Held
  <2>4. /\ j \in Ways(x) /\ c.blks[CACHE_SET(x, w)][j].valid
        /\ c.blks[CACHE_SET(x, w)][j].tag = CACHE_TAG(x, w)
    BY <2>3 DEF Here
  <2>5. ~(CACHE_SET(x, w) = r /\ j = i)
    BY <1>2, <1>3, <2>1, <2>3, <2>4
  <2>6. d.blks[CACHE_SET(x, w)][j] = c.blks[CACHE_SET(x, w)][j]
    BY <2>2, <2>4, <2>5 DEF OnlyAt
  <2>7. j \in Here(x, d, w)
    BY <2>4, <2>6 DEF Here
  <2>. QED  BY <2>3, <2>6, <2>7 DEF Held
<1>. HIDE DEF words, d
<1>4. Kept(t, x, words)
  BY <1>3 DEF Kept, d
<1>. QED  BY <1>4 DEF words

\* One block of a flush, before it is written back
Invalid(s, x, r, i) == Put(s, x, Invalidated(s.cache[x], r, i), Plus(s.did[x], "invalidations"))

InvalidDirty(s, x, r, i) ==
    Put(s, x, Invalidated(s.cache[x], r, i), Plus(Plus(s.did[x], "invalidations"), "writebacks"))

FlushParts(s, x, r, i) ==
    LET invalid == Counted([s EXCEPT !.cache[x].blks[r][i].valid = FALSE], x, "invalidations")
    IN  /\ invalid = Invalid(s, x, r, i)
        /\ Counted(invalid, x, "writebacks") = InvalidDirty(s, x, r, i)

\* A block that is flushed: what happens in its own cache,
LEMMA FlushPut ==
    ASSUME Configured, NEW x \in Caches, NEW s, Good(s), s.cache[x].last_blk = NULL, NEW r \in Sets(x), NEW i \in Ways(x)
    PROVE  FlushParts(s, x, r, i)
<1>. DEFINE c == Invalidated(s.cache[x], r, i)
            v == [s EXCEPT !.cache[x].blks[r][i].valid = FALSE]
            d == s.did[x]
<1>1. s \in SimType /\ CacheOK(x, s.cache[x]) /\ d \in CounterSets
  BY DEF Good, SimType
<1>2. v = Put(s, x, c, d)
  <2>1. v = [s EXCEPT !.cache = [s.cache EXCEPT ![x] = c]]
    BY DEF Invalidated
  <2>. HIDE DEF c, v
  <2>. QED  BY <1>1, <2>1, PutOne
<1>3. c \in CacheType(x)
  <2>1. CacheOK(x, c)
    <3>. HIDE DEF c
    <3>. QED  BY <1>1, InvalidatedOK DEF c
  <2>. QED  BY <2>1 DEF CacheOK
<1>. HIDE DEF c, v, d
<1>4. /\ v \in SimType /\ v.cache[x] = c /\ v.did[x] = d
      /\ \A e, g : Put(v, x, e, g) = Put(s, x, e, g)
  BY <1>1, <1>2, <1>3, PutFields
<1>5. Counted(v, x, "invalidations") = Put(s, x, c, Plus(d, "invalidations"))
  BY <1>4, CountedPut
<1>6. Plus(d, "invalidations") \in CounterSets
  BY <1>1, PlusCounter DEF Counters
<1>. DEFINE u == Put(s, x, c, Plus(d, "invalidations"))
<1>7. /\ u \in SimType /\ u.cache[x] = c /\ u.did[x] = Plus(d, "invalidations")
      /\ \A e, g : Put(u, x, e, g) = Put(s, x, e, g)
  BY <1>1, <1>3, <1>6, PutFields
<1>8. Counted(u, x, "writebacks") = Put(s, x, c, Plus(Plus(d, "invalidations"), "writebacks"))
  <2>. HIDE DEF u
  <2>. QED  BY <1>7, CountedPut
<1>. QED  BY <1>5, <1>8 DEF Invalid, InvalidDirty, FlushParts, c, d, v

\* What they leave
InvalidLeft(s, t, x, r, i, n) ==
    /\ Good(t) /\ Steps(s, t, {x}) /\ t.newest = s.newest /\ t.fault = s.fault
    /\ t.cache[x].last_blk = NULL /\ OnlyAt(x, s.cache[x], t.cache[x], r, i)
    /\ Asked(t) = Asked(s) /\ Surplus(t) = Surplus(s) - n

\* which leaves a good state, one word short of its holder when it was dirty,
LEMMA InvalidSteps ==
    ASSUME Configured, SimCacheAssumption, NEW x \in {"dl1", "dl2"}, NEW s, Good(s), s.cache[x].last_blk = NULL,
           NEW r \in Sets(x), NEW i \in Ways(x), s.cache[x].blks[r][i].valid
    PROVE  /\ InvalidLeft(s, Invalid(s, x, r, i), x, r, i, 0)
           /\ InvalidLeft(s, InvalidDirty(s, x, r, i), x, r, i, IF x = "dl1" THEN 1 ELSE 0)
<1>0. {"il1", "dl1", "dl2"} \subseteq Caches /\ x \in Caches
  BY DEF SimCacheAssumption
<1>. DEFINE c == Invalidated(s.cache[x], r, i)
            d == s.did[x]
            d1 == Plus(d, "invalidations")
            d2 == Plus(d1, "writebacks")
<1>1. s \in SimType /\ CacheOK(x, s.cache[x]) /\ d \in CounterSets
  BY <1>0 DEF Good, SimType
<1>2. /\ CacheOK(x, c) /\ c.last_blk = NULL /\ ~c.blks[r][i].valid
      /\ OnlyAt(x, s.cache[x], c, r, i)
  <2>1. /\ CacheOK(x, c) /\ c.last_blk = NULL /\ ~c.blks[r][i].valid
        /\ \A q \in Sets(x), j \in Ways(x) : ~(q = r /\ j = i) => c.blks[q][j] = s.cache[x].blks[q][j]
    BY SMTT(30), <1>0, <1>1, InvalidatedOK
  <2>. HIDE DEF c
  <2>. QED  BY <2>1 DEF OnlyAt
<1>. HIDE DEF c, d, d1, d2
<1>3. Count(x, c) = Count(x, s.cache[x]) - 1
  BY <1>0, <1>2, CountLess
<1>4. /\ d1 \in CounterSets
      /\ \A j \in Counters : d1[j] = d[j] + (IF j = "invalidations" THEN 1 ELSE 0)
  <2>1. "invalidations" \in Counters
    BY DEF Counters
  <2>. QED  BY <1>1, <2>1, PlusCounter DEF d1
<1>5. /\ d2 \in CounterSets
      /\ \A j \in Counters : d2[j] = d1[j] + (IF j = "writebacks" THEN 1 ELSE 0)
  <2>1. "writebacks" \in Counters
    BY DEF Counters
  <2>. QED  BY <1>4, <2>1, PlusCounter DEF d2
<1>6. /\ d["hits"] \in Nat /\ d["misses"] \in Nat /\ d["prefetch_misses"] \in Nat /\ d["replacements"] \in Nat
      /\ d["invalidations"] \in Nat /\ d["writebacks"] \in Nat
  BY <1>1 DEF CounterSets, Counters
<1>7. /\ d1["hits"] = d["hits"] /\ d1["misses"] = d["misses"] /\ d1["prefetch_misses"] = d["prefetch_misses"]
      /\ d1["replacements"] = d["replacements"] /\ d1["invalidations"] = d["invalidations"] + 1
      /\ d1["writebacks"] = d["writebacks"]
  BY <1>4, <1>6 DEF Counters
<1>8. /\ d2["hits"] = d["hits"] /\ d2["misses"] = d["misses"] /\ d2["prefetch_misses"] = d["prefetch_misses"]
      /\ d2["replacements"] = d["replacements"] /\ d2["invalidations"] = d["invalidations"] + 1
      /\ d2["writebacks"] = d["writebacks"] + 1
  BY <1>5, <1>6, <1>7 DEF Counters
<1>9. Net(s, x) \in Int /\ Count(x, s.cache[x]) \in Nat
  BY <1>0, NetInt DEF Net
<1>10. Count(x, c) - Filled(d1) = Net(s, x) /\ Count(x, c) - Filled(d2) = Net(s, x)
  <2>1. Filled(d1) = Filled(d) - 1 /\ Filled(d2) = Filled(d) - 1 /\ Filled(d) \in Int
    <3>. DEFINE m == d["misses"]
                p == d["prefetch_misses"]
                q == d["replacements"]
                v == d["invalidations"]
    <3>1. m \in Nat /\ p \in Nat /\ q \in Nat /\ v \in Nat
      BY <1>6
    <3>2. /\ Filled(d) = m + p - q - v /\ Filled(d1) = m + p - q - (v + 1)
          /\ Filled(d2) = m + p - q - (v + 1)
      BY <1>7, <1>8 DEF Filled
    <3>. HIDE DEF m, p, q, v
    <3>. QED  BY <3>1, <3>2
  <2>2. Net(s, x) = Count(x, s.cache[x]) - Filled(d)
    BY DEF Net, d
  <2>. QED  BY <1>3, <1>9, <2>1, <2>2
<1>11. ASSUME NEW e \in {d1, d2}
       PROVE  LET t == Put(s, x, c, e)
              IN  InvalidLeft(s, t, x, r, i, IF e["writebacks"] = d["writebacks"] THEN 0 ELSE IF x = "dl1" THEN 1 ELSE 0)
  <2>. DEFINE t == Put(s, x, c, e)
              n == IF e["writebacks"] = d["writebacks"] THEN 0 ELSE IF x = "dl1" THEN 1 ELSE 0
  <2>1. e \in CounterSets /\ Count(x, c) - Filled(e) = Net(s, x)
    BY <1>4, <1>5, <1>10
  <2>2. Good(t) /\ Steps(s, t, {x})
    BY <1>0, <1>2, <2>1, PutGood, PutSteps
  <2>3. c \in CacheType(x)
    BY <1>2 DEF CacheOK
  <2>4. /\ t.cache[x] = c /\ t.did[x] = e /\ t.newest = s.newest /\ t.fault = s.fault
        /\ \A y \in Caches : y # x => t.did[y] = s.did[y]
    BY <1>0, <1>1, <2>1, <2>3, PutFields
  <2>. HIDE DEF t
  <2>5. e["hits"] = d["hits"] /\ e["misses"] = d["misses"] /\ e["writebacks"] \in {d["writebacks"], d["writebacks"] + 1}
    BY <1>7, <1>8
  <2>6. Asked(t) = Asked(s) /\ Asked(s) \in Nat
    <3>1. t.did["dl2"]["hits"] = s.did["dl2"]["hits"] /\ t.did["dl2"]["misses"] = s.did["dl2"]["misses"]
      BY <1>0, <2>4, <2>5 DEF d
    <3>. QED  BY <1>0, <3>1, Numbers DEF Asked
  <2>7. /\ t.did["il1"] = s.did["il1"] /\ t.did["dl1"]["misses"] = s.did["dl1"]["misses"]
        /\ t.did["dl1"]["writebacks"] = s.did["dl1"]["writebacks"] + n
    <3>1. CASE x = "dl1"
      BY <1>0, <1>6, <2>4, <2>5, <3>1 DEF d
    <3>2. CASE x = "dl2"
      <4>1. t.did["il1"] = s.did["il1"] /\ t.did["dl1"] = s.did["dl1"] /\ n = 0
        BY <1>0, <2>4, <3>2
      <4>2. s.did["dl1"]["writebacks"] \in Nat
        BY SurplusInt
      <4>. QED  BY <4>1, <4>2
    <3>. QED  BY <3>1, <3>2
  <2>8. Surplus(t) = Surplus(s) - n
    <3>. DEFINE f == s.did["il1"]["misses"]
                g == s.did["il1"]["writebacks"]
                h == s.did["dl1"]["misses"]
                j == s.did["dl1"]["writebacks"]
                a == Asked(s)
    <3>1. Surplus(s) = a - f - g - h - j /\ Surplus(t) = a - f - g - h - (j + n)
      BY <2>6, <2>7 DEF Surplus
    <3>2. f \in Nat /\ g \in Nat /\ h \in Nat /\ j \in Nat /\ a \in Nat /\ n \in Nat
      BY SurplusInt
    <3>. HIDE DEF f, g, h, j, a, n
    <3>. QED  BY <3>1, <3>2
  <2>. HIDE DEF n
  <2>9. InvalidLeft(s, t, x, r, i, n)
    BY <1>2, <2>2, <2>4, <2>6, <2>8 DEF InvalidLeft
  <2>. QED  BY <2>9 DEF t, n
<1>12. InvalidLeft(s, Put(s, x, c, d1), x, r, i, 0)
  BY <1>7, <1>11
<1>13. InvalidLeft(s, Put(s, x, c, d2), x, r, i, IF x = "dl1" THEN 1 ELSE 0)
  <2>1. d2["writebacks"] # d["writebacks"]
    BY <1>6, <1>8
  <2>. QED  BY <1>11, <2>1
<1>. QED  BY <1>12, <1>13 DEF Invalid, InvalidDirty, c, d, d1, d2

\* A flush of x goes on: the last hit stays forgotten
Flushing(s, t, x) == Stepped(s, t) /\ t.cache[x].last_blk = NULL

\* and is made good by its write to the next level
LEMMA FlushBlockStepped ==
    ASSUME Configured, SimCacheAssumption, NEW x \in {"dl1", "dl2"}, NEW s, Good(s), s.cache[x].last_blk = NULL,
           NEW r \in Sets(x), NEW k \in Ways(x), NEW pc \in Nat \ {0}, NEW t \in FlushBlock(s, x, pc, r, k)
    PROVE  Flushing(s, t, x)
<1>. DEFINE i == s.cache[x].way[r][k]
            b == s.cache[x].blks[r][i]
            u == Invalid(s, x, r, i)
            v == InvalidDirty(s, x, r, i)
            baddr == CACHE_MK_BADDR(x, b.tag, r)
            n == IF x = "dl1" THEN 1 ELSE 0
<1>0. {"il1", "dl1", "dl2"} \subseteq Caches /\ x \in Caches
  BY DEF SimCacheAssumption
<1>1. i \in Ways(x) /\ b \in Block
  <2>1. s.cache[x] \in CacheType(x)
    BY <1>0 DEF Good, CacheOK
  <2>2. i \in Ways(x)
    BY <2>1 DEF CacheType
  <2>3. s.cache[x].blks[r][i] \in Block
    BY <2>1, <2>2 DEF CacheType
  <2>. QED  BY <2>2, <2>3
<1>2. t \in IF ~b.valid THEN {s}
            ELSE IF ~b.dirty THEN {u}
            ELSE IF Below[x] = "mem" THEN dl2_access_fn(v, x, "Write", baddr, pc, FALSE)
            ELSE l1_access_fn(v, x, "Write", baddr, pc, FALSE)
  <2>. DEFINE invalid == Counted([s EXCEPT !.cache[x].blks[r][i].valid = FALSE], x, "invalidations")
  <2>1. invalid = u /\ Counted(invalid, x, "writebacks") = v
    <3>. HIDE DEF i
    <3>1. FlushParts(s, x, r, i)
      BY <1>0, <1>1, FlushPut
    <3>. QED  BY <3>1 DEF FlushParts
  <2>2. t \in IF ~b.valid THEN {s}
              ELSE IF ~b.dirty THEN {invalid}
              ELSE IF Below[x] = "mem" THEN dl2_access_fn(Counted(invalid, x, "writebacks"), x, "Write", baddr, pc, FALSE)
              ELSE l1_access_fn(Counted(invalid, x, "writebacks"), x, "Write", baddr, pc, FALSE)
    BY DEF FlushBlock
  <2>. HIDE DEF invalid, u, v, b, i, baddr
  <2>. QED  BY <2>1, <2>2
<1>. HIDE DEF i
<1>3. CASE ~b.valid
  <2>1. t = s
    BY <1>2, <1>3
  <2>. QED  BY <2>1, StepsRefl DEF Flushing, Stepped
<1>4. ASSUME b.valid
      PROVE  InvalidLeft(s, u, x, r, i, 0) /\ InvalidLeft(s, v, x, r, i, n)
  BY <1>1, <1>4, InvalidSteps
<1>5. ASSUME NEW y \in {"dl1", "dl2"}, y # x, NEW q \in {u, v}, b.valid, Kept(s, y, {})  PROVE Kept(q, y, {})
  <2>1. q.newest = s.newest /\ q.cache[y] = s.cache[y]
    BY <1>0, <1>4, <1>5 DEF InvalidLeft, Steps
  <2>. QED  BY <1>5, <2>1, KeptSame
<1>6. ASSUME NEW q \in {u, v}, b.valid, Kept(s, x, {})
      PROVE  Kept(q, x, IF b.dirty THEN WordsOf(x, baddr) ELSE {})
  <2>1. q.newest = s.newest /\ OnlyAt(x, s.cache[x], q.cache[x], r, i)
    BY <1>4, <1>6 DEF InvalidLeft
  <2>. QED  BY <1>0, <1>1, <1>6, <2>1, InvalidKept
<1>. HIDE DEF u, v, n
<1>7. Surplus(s) \in Int
  BY SurplusInt
<1>8. CASE b.valid /\ ~b.dirty
  <2>1. t = u
    BY <1>2, <1>8
  <2>2. Steps(s, u, Caches) /\ Surplus(u) = Surplus(s) /\ u.cache[x].last_blk = NULL
    <3>1. {x} \subseteq Caches
      BY <1>0
    <3>. QED  BY <1>4, <1>7, <1>8, <3>1, StepsMore DEF InvalidLeft
  <2>3. Safe(s) => Safe(u)
    BY <1>5, <1>6, <1>8 DEF Safe
  <2>. QED  BY <2>1, <2>2, <2>3 DEF Flushing, Stepped
<1>9. CASE b.valid /\ b.dirty
  <2>1. InvalidLeft(s, v, x, r, i, n)
    BY <1>4, <1>9
  <2>2. baddr \in Int /\ \A w \in Int : w \in WordsOf(x, baddr) => Line(x, w) = Line(x, baddr)
    <3>1. b.tag \in Int
      BY <1>1 DEF Block
    <3>. QED  BY <1>0, <3>1, MadeAddress
  <2>. HIDE DEF baddr
  <2>3. Lower(v, t, x, WordsOf(x, baddr), 1)
    <3>1. CASE x = "dl2"
      <4>1. t \in dl2_access_fn(v, "dl2", "Write", baddr, pc, FALSE)
        BY <1>2, <1>9, <3>1, SimCacheAssumption
      <4>. QED  BY <2>1, <3>1, <4>1, LowerMemory DEF InvalidLeft
    <3>2. CASE x = "dl1"
      <4>1. t \in l1_access_fn(v, "dl1", "Write", baddr, pc, FALSE)
        BY <1>2, <1>9, <3>2, SimCacheAssumption
      <4>. QED  BY <2>1, <2>2, <3>2, <4>1, LowerFirst DEF InvalidLeft
    <3>. QED  BY <3>1, <3>2
  <2>4. /\ Steps(v, t, {"dl2"} \ {x}) /\ Good(t)
        /\ \A w \in Words, y \in {"dl1", x} :
              t.newest[w] = y <=> v.newest[w] = y /\ ~(y = x /\ w \in WordsOf(x, baddr))
        /\ x = "dl1" /\ t.fault = "none" =>
              Asked(t) = Asked(v) + 1 /\ (Kept(v, "dl2", {}) => Kept(t, "dl2", {}))
    BY <2>3 DEF Lower, Steps
  <2>5. t.cache[x] = v.cache[x] /\ t.did["il1"] = v.did["il1"] /\ t.did["dl1"] = v.did["dl1"]
    <3>1. x \notin {"dl2"} \ {x} /\ "il1" \notin {"dl2"} \ {x} /\ "dl1" \notin {"dl2"} \ {x}
      OBVIOUS
    <3>. QED  BY <1>0, <2>4, <3>1 DEF Steps
  <2>6. Steps(s, t, Caches)
    <3>1. {x} \subseteq Caches /\ {"dl2"} \ {x} \subseteq Caches
      BY <1>0
    <3>2. Steps(s, v, Caches) /\ Steps(v, t, Caches)
      BY <2>1, <2>4, <3>1, StepsMore DEF InvalidLeft
    <3>. QED  BY <3>2, StepsTrans
  <2>7. t.cache[x].last_blk = NULL
    BY <2>1, <2>5 DEF InvalidLeft
  <2>8. ASSUME t.fault = "none"  PROVE Surplus(t) = Surplus(s)
    <3>1. Asked(t) = Asked(v) + n
      <4>1. CASE x = "dl1"
        BY <2>4, <2>8, <4>1 DEF n
      <4>2. CASE x = "dl2"
        <5>1. t.did["dl2"] = v.did["dl2"]
          BY <1>0, <2>4, <4>2 DEF Steps
        <5>2. Asked(v) \in Nat
          BY <2>1, SurplusInt DEF InvalidLeft
        <5>. QED  BY <4>2, <5>1, <5>2 DEF n, Asked
      <4>. QED  BY <4>1, <4>2
    <3>. DEFINE f == v.did["il1"]["misses"]
                g == v.did["il1"]["writebacks"]
                h == v.did["dl1"]["misses"]
                j == v.did["dl1"]["writebacks"]
                a == Asked(v)
    <3>0. /\ t.did["il1"]["misses"] = f /\ t.did["il1"]["writebacks"] = g
          /\ t.did["dl1"]["misses"] = h /\ t.did["dl1"]["writebacks"] = j
      BY <2>5
    <3>3. f \in Nat /\ g \in Nat /\ h \in Nat /\ j \in Nat /\ a \in Nat /\ n \in Nat
      BY <2>1, SurplusInt DEF InvalidLeft, n
    <3>2. Surplus(v) = a - f - g - h - j /\ Surplus(t) = a + n - f - g - h - j
      <4>1. Surplus(v) = a - f - g - h - j
        BY DEF Surplus
      <4>2. Surplus(t) = Asked(t) - t.did["il1"]["misses"] - t.did["il1"]["writebacks"]
                           - t.did["dl1"]["misses"] - t.did["dl1"]["writebacks"]
        BY DEF Surplus
      <4>. HIDE DEF a, f, g, h, j
      <4>3. Asked(t) = a + n
        BY <3>1 DEF a
      <4>. QED  BY <3>0, <3>3, <4>1, <4>2, <4>3
    <3>4. Surplus(v) = Surplus(s) - n
      BY <2>1 DEF InvalidLeft
    <3>. HIDE DEF f, g, h, j, a
    <3>5. Surplus(t) = Surplus(v) + n
      BY <3>2, <3>3
    <3>. QED  BY <1>7, <3>3, <3>4, <3>5
  <2>9. ASSUME Kept(s, x, {})  PROVE Kept(t, x, {})
    <3>1. Kept(v, x, WordsOf(x, baddr))
      BY <1>6, <1>9, <2>9
    <3>2. ASSUME NEW w \in Words \ {}, t.newest[w] = x  PROVE Held(x, t.cache[x], w)
      BY <2>4, <2>5, <3>1, <3>2 DEF Kept
    <3>. QED  BY <3>2 DEF Kept
  <2>10. ASSUME t.fault = "none", NEW y \in {"dl1", "dl2"}, y # x, Kept(s, y, {})  PROVE Kept(t, y, {})
    <3>1. Kept(v, y, {})
      BY <1>5, <1>9, <2>10
    <3>2. CASE x = "dl1"
      BY <2>4, <2>10, <3>1, <3>2
    <3>3. CASE x = "dl2"
      <4>1. y = "dl1" /\ t.cache["dl1"] = v.cache["dl1"]
        BY <1>0, <2>4, <2>10, <3>3 DEF Steps
      <4>2. \A w \in Words : t.newest[w] = "dl1" <=> v.newest[w] = "dl1"
        BY <2>4, <3>3
      <4>. QED  BY <3>1, <4>1, <4>2 DEF Kept
    <3>. QED  BY <3>2, <3>3
  <2>11. t.fault = "none" /\ Safe(s) => Safe(t)
    BY <2>9, <2>10 DEF Safe
  <2>. QED  BY <2>6, <2>7, <2>8, <2>11 DEF Flushing, Stepped
<1>. QED  BY <1>3, <1>8, <1>9

\* A flush starts by forgetting the last hit
LEMMA ForgottenStepped ==
    ASSUME Configured, SimCacheAssumption, NEW x \in {"dl1", "dl2"}, NEW s, Good(s)
    PROVE  Flushing(s, [s EXCEPT !.cache[x].last_tagset = 0, !.cache[x].last_blk = NULL], x)
<1>. DEFINE c == Forgotten(s.cache[x])
            t == [s EXCEPT !.cache[x].last_tagset = 0, !.cache[x].last_blk = NULL]
<1>0. {"il1", "dl1", "dl2"} \subseteq Caches /\ x \in Caches /\ {x} \subseteq Caches
  BY DEF SimCacheAssumption
<1>1. s \in SimType /\ CacheOK(x, s.cache[x]) /\ s.did[x] \in CounterSets
  BY <1>0 DEF Good, SimType
<1>2. t = Put(s, x, c, s.did[x])
  <2>1. s.cache \in [Caches -> CacheAny]
    BY <1>1 DEF SimType
  <2>2. t = [s EXCEPT !.cache = [s.cache EXCEPT ![x] = c]]
    BY <1>0, <1>1, <2>1 DEF Forgotten, SimType
  <2>. HIDE DEF c, t
  <2>3. [s EXCEPT !.cache = [s.cache EXCEPT ![x] = c]] = Put(s, x, c, s.did[x])
    <3>1. \A e : [s EXCEPT !.cache = [s.cache EXCEPT ![x] = e]] = Put(s, x, e, s.did[x])
      BY <1>0, <1>1, PutOne
    <3>. QED  BY <3>1
  <2>. QED  BY <2>2, <2>3
<1>3. CacheOK(x, c) /\ c.last_blk = NULL /\ c.blks = s.cache[x].blks
  BY <1>0, <1>1, ForgottenOK
<1>. HIDE DEF c, t
<1>4. Count(x, c) = Count(x, s.cache[x])
  BY <1>0, <1>3, CountSame
<1>5. Good(t) /\ Steps(s, t, {x})
  BY <1>0, <1>1, <1>2, <1>3, <1>4, PutGood, PutSteps DEF Net
<1>6. Steps(s, t, Caches)
  BY <1>0, <1>5, StepsMore
<1>7. c \in CacheType(x)
  BY <1>3 DEF CacheOK
<1>8. /\ t.cache[x] = c /\ t.did[x] = s.did[x] /\ t.newest = s.newest
      /\ \A y \in Caches : y # x => t.cache[y] = s.cache[y] /\ t.did[y] = s.did[y]
  BY <1>0, <1>1, <1>2, <1>7, PutFields
<1>9. \A y \in Caches : t.did[y] = s.did[y] /\ t.cache[y].blks = s.cache[y].blks
  BY <1>3, <1>8
<1>10. Surplus(t) = Surplus(s)
  BY <1>0, <1>9 DEF Surplus, Asked
<1>11. ASSUME NEW y \in {"dl1", "dl2"}, Kept(s, y, {})  PROVE Kept(t, y, {})
  <2>1. \A w : Here(y, t.cache[y], w) = Here(y, s.cache[y], w)
    BY <1>0, <1>9 DEF Here
  <2>2. \A w : Held(y, s.cache[y], w) => Held(y, t.cache[y], w)
    BY <1>0, <1>9, <2>1 DEF Held
  <2>. QED  BY <1>8, <1>11, <2>2 DEF Kept
<1>12. Safe(s) => Safe(t)
  BY <1>11 DEF Safe
<1>13. Flushing(s, t, x)
  BY <1>3, <1>6, <1>8, <1>10, <1>12 DEF Flushing, Stepped
<1>. QED  BY <1>13 DEF t

\* The blocks of a cache, one after the other
LEMMA BlocksAre ==
    ASSUME Configured, NEW x \in Caches
    PROVE  /\ Len(Blocks(x)) \in Nat
           /\ \A n \in 1 .. Len(Blocks(x)) : Blocks(x)[n][1] \in Sets(x) /\ Blocks(x)[n][2] \in Ways(x)
<1>. DEFINE a == Config[x].assoc
            m == Config[x].nsets
<1>1. a \in Nat \ {0} /\ m \in Nat \ {0}
  BY Geometry
<1>. HIDE DEF a, m
<1>2. m * a \in Nat
  BY <1>1
<1>3. Blocks(x) = [n \in 1 .. m * a |-> <<(n - 1) \div a, 1 + ((n - 1) % a)>>]
  BY DEF Blocks, a, m
<1>4. Len(Blocks(x)) = m * a
  <2>1. Blocks(x) \in Seq(UNION {{Blocks(x)[n]} : n \in 1 .. m * a})
    BY <1>2, <1>3
  <2>. QED  BY <1>2, <1>3, <2>1
<1>5. ASSUME NEW n \in 1 .. m * a
      PROVE  (n - 1) \div a \in 0 .. m - 1 /\ 1 + ((n - 1) % a) \in 1 .. a
  <2>. DEFINE q == (n - 1) \div a
              r == (n - 1) % a
  <2>1. n - 1 \in Int /\ 0 <= n - 1 /\ n - 1 < m * a
    BY <1>2
  <2>2. q \in Int /\ r \in 0 .. a - 1 /\ n - 1 = a * q + r
    BY <1>1, <2>1, DivMod
  <2>. HIDE DEF q, r
  <2>3. 0 <= q
    <3>1. CASE q <= -1
      <4>1. a * q <= -a
        BY <1>1, <2>2, <3>1
      <4>. QED  BY <1>1, <2>1, <2>2, <4>1
    <3>. QED  BY <2>2, <3>1
  <2>4. q < m
    <3>1. CASE q >= m
      <4>1. a * q >= m * a
        BY <1>1, <2>2, <2>3, <3>1
      <4>. QED  BY <1>1, <1>2, <2>1, <2>2, <4>1
    <3>. QED  BY <1>1, <2>2, <3>1
  <2>5. q \in 0 .. m - 1 /\ 1 + r \in 1 .. a
    BY <1>1, <2>2, <2>3, <2>4
  <2>. QED  BY <2>5 DEF q, r
<1>. QED  BY <1>2, <1>3, <1>4, <1>5 DEF Sets, Ways, a, m

\* A set of numbers that holds 0, and with a number the next one, holds all
LEMMA Counting ==
    ASSUME NEW S \in SUBSET Nat, 0 \in S, \A n \in S : n + 1 \in S
    PROVE  \A n \in Nat : n \in S
<1>1. SUFFICES ASSUME NEW n \in Nat, n \notin S
               PROVE  FALSE
  OBVIOUS
<1>2. Nat \ S \in SUBSET Nat /\ Nat \ S # {}
  BY <1>1
<1>3. PICK j \in Nat \ S : \A k \in Nat \ S : j <= k
  BY <1>2, LeastOf
<1>4. j # 0 /\ j - 1 \in Nat /\ ~(j <= j - 1) /\ (j - 1) + 1 = j
  OBVIOUS
<1>5. j - 1 \in S
  BY <1>3, <1>4
<1>. QED  BY <1>3, <1>4, <1>5

\* The states after the first n blocks of a flush: the set that the n-th block
\* makes of those before it
FlushOne(x, pc, n, S) == UNION {FlushBlock(t, x, pc, Blocks(x)[n][1], Blocks(x)[n][2]) : t \in S}

FlushPath(s, x, pc, n, f) ==
    f = [k \in 0 .. n |-> IF k = 0 THEN {s} ELSE FlushOne(x, pc, k, f[k - 1])]

\* The states after each block of a flush: cache_flush goes through the sets in turn
LEMMA FlushPathExists ==
    ASSUME NEW s, NEW x, NEW pc
    PROVE  \A n \in Nat : \E f : FlushPath(s, x, pc, n, f)
<1>. DEFINE T == {n \in Nat : \E f : FlushPath(s, x, pc, n, f)}
<1>1. 0 \in T
  <2>1. FlushPath(s, x, pc, 0, [k \in 0 .. 0 |-> {s}])
    BY DEF FlushPath
  <2>. QED  BY <2>1
<1>2. ASSUME NEW n \in T  PROVE n + 1 \in T
  <2>1. n \in Nat /\ n + 1 \in Nat
    OBVIOUS
  <2>2. PICK f : FlushPath(s, x, pc, n, f)
    OBVIOUS
  <2>. DEFINE g == [k \in 0 .. n + 1 |-> IF k = n + 1 THEN FlushOne(x, pc, n + 1, f[n]) ELSE f[k]]
              h == [k \in 0 .. n + 1 |-> IF k = 0 THEN {s} ELSE FlushOne(x, pc, k, g[k - 1])]
  <2>3. ASSUME NEW k \in 0 .. n + 1  PROVE g[k] = h[k]
    <3>1. CASE k = n + 1
      <4>1. n \in 0 .. n + 1 /\ n # n + 1 /\ k # 0 /\ k - 1 = n
        BY <2>1, <3>1
      <4>2. g[n] = f[n]
        BY <4>1
      <4>3. h[k] = FlushOne(x, pc, k, g[n])
        BY <4>1
      <4>. QED  BY <3>1, <4>2, <4>3
    <3>2. CASE k = 0
      <4>1. g[k] = f[0] /\ 0 \in 0 .. n /\ h[k] = {s}
        BY <2>1, <3>2
      <4>2. f[0] = {s}
        BY <2>2, <4>1 DEF FlushPath
      <4>. QED  BY <4>1, <4>2
    <3>3. CASE k # 0 /\ k # n + 1
      <4>1. k \in 0 .. n /\ k - 1 \in 0 .. n + 1 /\ k - 1 # n + 1
        BY <2>1, <3>3
      <4>2. g[k] = f[k] /\ g[k - 1] = f[k - 1]
        BY <3>3, <4>1
      <4>3. f[k] = FlushOne(x, pc, k, f[k - 1])
        BY <2>2, <3>3, <4>1 DEF FlushPath
      <4>4. h[k] = FlushOne(x, pc, k, g[k - 1])
        BY <3>3
      <4>. QED  BY <4>2, <4>3, <4>4
    <3>. QED  BY <3>1, <3>2, <3>3
  <2>4. g = h
    <3>1. DOMAIN g = 0 .. n + 1 /\ DOMAIN h = 0 .. n + 1 /\ g = [k \in 0 .. n + 1 |-> g[k]]
          /\ h = [k \in 0 .. n + 1 |-> h[k]]
      OBVIOUS
    <3>. HIDE DEF g, h
    <3>. QED  BY <2>3, <3>1
  <2>5. FlushPath(s, x, pc, n + 1, g)
    <3>. HIDE DEF g
    <3>. QED  BY <2>4 DEF FlushPath
  <2>. QED  BY <2>1, <2>5
<1>. HIDE DEF T
<1>3. T \in SUBSET Nat
  BY DEF T
<1>4. \A n \in Nat : n \in T
  BY <1>1, <1>2, <1>3, Counting
<1>. QED  BY <1>4 DEF T

\* A flush, by induction over its blocks
LEMMA FlushStepped ==
    ASSUME Configured, SimCacheAssumption, NEW x \in {"dl1", "dl2"}, NEW s, Good(s), NEW pc \in Nat \ {0},
           NEW t \in cache_flush(s, x, pc)
    PROVE  Stepped(s, t)
<1>. DEFINE N == Len(Blocks(x))
            forgotten == [s EXCEPT !.cache[x].last_tagset = 0, !.cache[x].last_blk = NULL]
            after == CHOOSE f : FlushPath(forgotten, x, pc, N, f)
<1>0. x \in Caches
  BY DEF SimCacheAssumption
<1>1. cache_flush(s, x, pc) = after[N]
  BY DEF cache_flush, FlushPath, FlushOne
<1>. HIDE DEF forgotten
<1>2. Flushing(s, forgotten, x)
  BY ForgottenStepped DEF forgotten
<1>3. N \in Nat /\ \A n \in 1 .. N : Blocks(x)[n][1] \in Sets(x) /\ Blocks(x)[n][2] \in Ways(x)
  BY <1>0, BlocksAre
<1>. HIDE DEF N
<1>4. FlushPath(forgotten, x, pc, N, after)
  <2>1. \E f : FlushPath(forgotten, x, pc, N, f)
    BY <1>3, FlushPathExists
  <2>. QED  BY <2>1, Zenon
<1>. HIDE DEF after
<1>. DEFINE T == {n \in Nat : n <= N => \A u \in after[n] : Flushing(s, u, x)}
<1>5. 0 \in T
  <2>1. after[0] = {forgotten}
    BY <1>3, <1>4 DEF FlushPath
  <2>. QED  BY <1>2, <2>1
<1>6. ASSUME NEW n \in T  PROVE n + 1 \in T
  <2>1. n \in Nat /\ n + 1 \in Nat
    OBVIOUS
  <2>2. ASSUME n + 1 <= N, NEW v \in after[n + 1]  PROVE Flushing(s, v, x)
    <3>1. n + 1 \in 1 .. N /\ n + 1 \in 0 .. N /\ n + 1 # 0 /\ (n + 1) - 1 = n /\ n <= N
      BY <1>3, <2>1, <2>2
    <3>2. after[n + 1] = FlushOne(x, pc, n + 1, after[n])
      BY <1>4, <3>1 DEF FlushPath
    <3>3. PICK u \in after[n] : v \in FlushBlock(u, x, pc, Blocks(x)[n + 1][1], Blocks(x)[n + 1][2])
      BY <2>2, <3>2 DEF FlushOne
    <3>4. Flushing(s, u, x)
      BY <3>1, <3>3
    <3>5. Good(u) /\ u.cache[x].last_blk = NULL /\ Stepped(s, u)
      BY <3>4 DEF Flushing, Stepped, Steps
    <3>6. Blocks(x)[n + 1][1] \in Sets(x) /\ Blocks(x)[n + 1][2] \in Ways(x)
      BY <1>3, <3>1
    <3>7. Flushing(u, v, x)
      BY <3>3, <3>5, <3>6, FlushBlockStepped
    <3>. QED  BY <3>5, <3>7, SteppedTrans DEF Flushing
  <2>. QED  BY <2>1, <2>2
<1>. HIDE DEF T
<1>7. T \in SUBSET Nat
  BY DEF T
<1>8. N \in T
  BY <1>3, <1>5, <1>6, <1>7, Counting
<1>9. \A u \in after[N] : Flushing(s, u, x)
  BY <1>3, <1>8 DEF T
<1>. QED  BY <1>1, <1>9 DEF Flushing

\* Both kinds of system call
LEMMA SyscallStepped ==
    ASSUME Configured, SimCacheAssumption, NEW s, Good(s), NEW addr \in Nat, NEW pc \in Nat \ {0},
           NEW t \in Syscall(s, addr, pc)
    PROVE  Stepped(s, t)
<1>1. CASE options.flush_on_syscalls
  <2>1. FlushOrder[1] = "dl1" /\ FlushOrder[2] = "dl2"
    BY DEF FlushOrder
  <2>2. PICK u \in cache_flush(s, "dl1", pc) : t \in cache_flush(u, "dl2", pc)
    BY <1>1, <2>1 DEF Syscall
  <2>3. Stepped(s, u)
    BY <2>2, FlushStepped
  <2>4. Good(u)
    BY <2>3 DEF Stepped, Steps
  <2>5. Stepped(u, t)
    BY <2>2, <2>4, FlushStepped
  <2>. QED  BY <2>3, <2>5, SteppedTrans
<1>2. CASE ~options.flush_on_syscalls
  <2>1. PICK cmd \in {"Read", "Write"} : t \in AccessData(s, cmd, addr, pc)
    BY <1>2 DEF Syscall
  <2>. QED  BY <2>1, DataStepped
<1>. QED  BY <1>1, <1>2

-----------------------------------------------------------------------------
(* What holds of the state between two instructions *)

SimInv(s, i) ==
    /\ Good(s)
    /\ s.fault = "none" => Safe(s)
    /\ i # NULL /\ i.op \in {"load", "store"} /\ s.fault = "none" => Promised(s, i.addr, i.pc)

\* All of it is said of one command line: a step that keeps the command line
\* keeps what it means
LEMMA SamePlacesNext ==
    ASSUME options' = options, NEW x
    PROVE  /\ Sets(x)' = Sets(x) /\ Ways(x)' = Ways(x) /\ Config' = Config
           /\ \A a : CACHE_SET(x, a)' = CACHE_SET(x, a) /\ CACHE_TAG(x, a)' = CACHE_TAG(x, a)
                     /\ CACHE_TAGSET(x, a)' = CACHE_TAGSET(x, a)
<1>1. Config' = Config
  BY DEF Config
<1>2. Sets(x)' = Sets(x) /\ Ways(x)' = Ways(x)
  BY <1>1 DEF Sets, Ways
<1>3. ASSUME NEW a
      PROVE  CACHE_SET(x, a)' = CACHE_SET(x, a) /\ CACHE_TAG(x, a)' = CACHE_TAG(x, a)
             /\ CACHE_TAGSET(x, a)' = CACHE_TAGSET(x, a)
  BY <1>1 DEF CACHE_SET, CACHE_TAG, CACHE_TAGSET
<1>. QED  BY <1>1, <1>2, <1>3

\* What is said of a state means the same in the next one, where the command line
\* is the same
LEMMA SameHereNext ==
    ASSUME options' = options, NEW x, NEW c, NEW a
    PROVE  (Here(x, c, a))' = Here(x, c, a) /\ (Held(x, c, a))' = Held(x, c, a)
<1>1. (Here(x, c, a))' = Here(x, c, a)
  BY SamePlacesNext DEF Here
<1>2. (Held(x, c, a))' <=> Held(x, c, a)
  BY <1>1, SamePlacesNext DEF Held
<1>. QED  BY <1>1, <1>2 DEF Held

LEMMA SameCacheNext ==
    ASSUME options' = options, NEW x, NEW c
    PROVE  (CacheType(x))' = CacheType(x) /\ ((CacheOK(x, c))' <=> CacheOK(x, c))
<1>1. (CacheType(x))' = CacheType(x)
  BY SamePlacesNext DEF CacheType, Block
<1>2. \A o : (InOrder(x, o))' <=> InOrder(x, o)
  BY SamePlacesNext DEF InOrder
<1>3. (Unique(x, c))' <=> Unique(x, c)
  BY SamePlacesNext DEF Unique
<1>4. (LastHit(x, c))' <=> LastHit(x, c)
  BY SamePlacesNext, SameHereNext DEF LastHit
<1>. QED  BY <1>1, <1>2, <1>3, <1>4, SamePlacesNext DEF CacheOK

LEMMA SameGoodNext ==
    ASSUME options' = options, NEW s
    PROVE  (Good(s))' <=> Good(s)
<1>1. CacheAny' = CacheAny
  BY SameCacheNext DEF CacheAny
<1>2. SimType' = SimType
  BY <1>1 DEF SimType, RptTables, WalkTables, OpenTables, Buffers, CounterSets, Newest, Faults, Histories, Entries
<1>3. (TablesOK(s))' <=> TablesOK(s)
  BY DEF TablesOK, StridesOK, GhbOK, EntryFits
<1>. QED  BY <1>2, <1>3, SameCacheNext DEF Good

LEMMA SameInvNext ==
    ASSUME options' = options, NEW s, NEW i, SimInv(s, i)
    PROVE  (SimInv(s, i))'
<1>1. (Good(s))' <=> Good(s)
  BY SameGoodNext
<1>2. (Safe(s))' <=> Safe(s)
  BY SameHereNext DEF Safe, Kept
<1>3. \A a, pc : (PredictedAt(s, "dl1", a, pc))' = PredictedAt(s, "dl1", a, pc)
  BY SamePlacesNext DEF PredictedAt
<1>4. (SharedWith("dl1"))' <=> SharedWith("dl1")
  BY SamePlacesNext DEF SharedWith
<1>5. \A a, pc : (Promised(s, a, pc))' <=> Promised(s, a, pc)
  BY <1>3, <1>4, SamePlacesNext, SameHereNext DEF Promised
<1>. QED  BY <1>1, <1>2, <1>5 DEF SimInv

\* The inductive invariant: the properties below say in terms of sim, and of the
\* last instruction, what SimInv says of them
IInv ==
    /\ options \in Options /\ sim_num_insn \in Nat
    /\ \E s, i : s = sim /\ i = inst /\ SimInv(s, i)

\* The assumptions hold of the command line that was chosen
LEMMA OptionsConfigured ==
    ASSUME options \in Options
    PROVE  Configured /\ options.program \in Seq(SUBSET Instruction)
BY SimCacheAssumption DEF Configured, Config

\* The caches start empty
LEMMA InitIInv ==
    ASSUME Init
    PROVE  IInv
<1>1. Configured /\ options \in Options
  BY OptionsConfigured DEF Init
<1>2. GHB_SIZE \in Nat \ {0, 1} /\ RPT_SIZE \in Nat \ {0}
  BY SimCacheAssumption
<1>3. /\ sim.cache = [x \in Caches |-> cache_create(x)] /\ sim.rpt = NULL
      /\ sim.rpt_open = [i \in 0 .. RPT_SIZE - 1 |-> NoEntry] /\ sim.ghb = [i \in 0 .. GHB_SIZE - 1 |-> 0]
      /\ sim.count = 0 /\ sim.did = Nothing /\ sim.newest = [w \in Words |-> "mem"] /\ sim.walk = NULL
      /\ sim.seen = <<>> /\ sim.fault = "none"
      /\ sim = [cache |-> sim.cache, rpt |-> sim.rpt, rpt_open |-> sim.rpt_open, ghb |-> sim.ghb,
                count |-> sim.count, did |-> sim.did, newest |-> sim.newest, walk |-> sim.walk,
                seen |-> sim.seen, fault |-> sim.fault]
  BY DEF Init
<1>4. \A x \in Caches : CacheOK(x, sim.cache[x])
  BY <1>1, <1>3, CreatedOK
<1>5. sim.cache \in [Caches -> CacheAny]
  <2>1. \A x \in Caches : cache_create(x) \in CacheAny
    BY <1>1, CreatedOK DEF CacheOK, CacheAny
  <2>. QED  BY <1>3, <2>1
<1>6. NoEntry \in Entries
  BY DEF NoEntry, Entries, State
<1>7. sim.rpt_open \in OpenTables /\ sim.rpt \in RptTables /\ sim.walk \in WalkTables /\ sim.ghb \in Buffers
  BY <1>3, <1>6 DEF OpenTables, RptTables, WalkTables, Buffers
<1>8. sim.did \in [Caches -> CounterSets] /\ sim.newest \in Newest /\ sim.seen \in Histories /\ sim.count \in Int
      /\ sim.fault \in Faults
  BY <1>3 DEF Nothing, CounterSets, Newest, Histories, Faults
<1>9. sim \in SimType
  BY <1>3, <1>5, <1>7, <1>8 DEF SimType
<1>10. TablesOK(sim)
  <2>1. Len(sim.seen) = 0
    BY <1>3
  <2>2. GhbOK(sim)
    BY <1>2, <1>3, <2>1 DEF GhbOK
  <2>. QED  BY <1>3, <2>2 DEF TablesOK, StridesOK
<1>11. Safe(sim)
  BY <1>3 DEF Safe, Kept
<1>12. SimInv(sim, inst)
  BY <1>4, <1>9, <1>10, <1>11 DEF SimInv, Good, Init
<1>. QED  BY <1>1, <1>12 DEF IInv, Init

\* The state in which the counters of an instruction start
Started(s) == [s EXCEPT !.did = Nothing]

\* The counters of a step start at zero
LEMMA StartedGood ==
    ASSUME NEW s, Good(s), SimCacheAssumption
    PROVE  LET t == Started(s)
           IN  /\ Good(t) /\ t.fault = s.fault /\ t.did = Nothing /\ t.cache = s.cache
               /\ Safe(s) => Safe(t)
               /\ Surplus(t) = 0 /\ t.did["dl1"]["writebacks"] = 0
               /\ \A x \in Caches : Filled(t.did[x]) = 0
<1>. DEFINE t == Started(s)
<1>1. /\ t \in SimType /\ SameTables(s, t) /\ t.cache = s.cache /\ t.newest = s.newest /\ t.fault = s.fault
      /\ t.did = Nothing
  BY DEF Good, SimType, SameTables, Started, Nothing, CounterSets
<1>. HIDE DEF t
<1>2. Good(t)
  BY <1>1, SameTablesOK DEF Good
<1>3. Safe(s) => Safe(t)
  BY <1>1 DEF Safe, Kept
<1>4. \A x \in Caches, k \in Counters : t.did[x][k] = 0
  BY <1>1 DEF Nothing
<1>5. {"il1", "dl1", "dl2"} \subseteq Caches
  BY DEF SimCacheAssumption
<1>6. Surplus(t) = 0 /\ t.did["dl1"]["writebacks"] = 0
  BY <1>4, <1>5 DEF Surplus, Asked, Counters
<1>7. \A x \in Caches : Filled(t.did[x]) = 0
  BY <1>4 DEF Filled, Counters
<1>. QED  BY <1>1, <1>2, <1>3, <1>6, <1>7 DEF t

\* What an instruction leaves
LEMMA NextStepped ==
    ASSUME IInv, Next
    PROVE  /\ Configured /\ SimInv(sim, inst) /\ sim.fault = "none"
           /\ options' = options /\ sim_num_insn' \in Nat /\ inst' \in Instruction
           /\ Stepped(Started(sim), sim')
           /\ inst'.op \in {"load", "store"} /\ sim'.fault = "none" => Promised(sim', inst'.addr, inst'.pc)
<1>1. Configured /\ SimInv(sim, inst) /\ options.program \in Seq(SUBSET Instruction) /\ sim_num_insn \in Nat
  BY OptionsConfigured DEF IInv
<1>2. ASSUME NEW op, Execute(op)
      PROVE  /\ sim.fault = "none" /\ options' = options /\ sim_num_insn' \in Nat
             /\ inst' \in Instruction /\ inst'.op = op
  <2>1. /\ sim.fault = "none" /\ options' = options /\ sim_num_insn' = sim_num_insn + 1
        /\ sim_num_insn < Len(options.program)
        /\ inst' \in options.program[sim_num_insn'] /\ inst'.op = op
    BY <1>2 DEF Execute
  <2>2. sim_num_insn' \in 1 .. Len(options.program)
    BY <1>1, <2>1
  <2>3. options.program[sim_num_insn'] \in SUBSET Instruction
    BY <1>1, <2>2
  <2>. QED  BY <2>1, <2>2, <2>3
<1>3. \E op : Execute(op)
  BY DEF Next, Other, Load, Store, System
<1>4. /\ sim.fault = "none" /\ options' = options /\ sim_num_insn' \in Nat /\ inst' \in Instruction
  BY <1>2, <1>3
<1>5. inst'.pc \in Nat \ {0} /\ inst'.addr \in Nat
  BY <1>4 DEF Instruction
<1>6. Good(Started(sim)) /\ Started(sim).did["dl1"]["writebacks"] = 0
  BY <1>1, SimCacheAssumption, StartedGood DEF SimInv
<1>7. ASSUME NEW u \in Fetched(inst'.pc)
      PROVE  Stepped(Started(sim), u) /\ Good(u) /\ u.did["dl1"]["writebacks"] = 0
  <2>1. u \in AccessL1(Started(sim), "il1", "Read", inst'.pc, inst'.pc)
    BY DEF Fetched, Started
  <2>2. Stepped(Started(sim), u) /\ u.did["dl1"] = Started(sim).did["dl1"]
    BY <1>1, <1>5, <1>6, <2>1, SimCacheAssumption, FetchStepped
  <2>. QED  BY <1>6, <2>2 DEF Stepped, Steps
<1>8. ASSUME NEW cmd, NEW u \in Fetched(inst'.pc), sim' \in AccessData(u, cmd, inst'.addr, inst'.pc)
      PROVE  /\ Stepped(Started(sim), sim')
             /\ sim'.fault = "none" => Promised(sim', inst'.addr, inst'.pc)
  <2>1. Stepped(u, sim') /\ (sim'.fault = "none" => Promised(sim', inst'.addr, inst'.pc))
    BY <1>1, <1>5, <1>7, <1>8, SimCacheAssumption, DataStepped
  <2>. QED  BY <1>7, <2>1, SteppedTrans
<1>9. CASE Other
  <2>1. sim' \in Fetched(inst'.pc) /\ inst'.op = "other"
    BY <1>2, <1>9 DEF Other
  <2>. QED  BY <1>1, <1>4, <1>7, <2>1
<1>10. CASE Load \/ Store
  <2>1. PICK cmd : sim' \in UNION {AccessData(s, cmd, inst'.addr, inst'.pc) : s \in Fetched(inst'.pc)}
    BY <1>10 DEF Load, Store
  <2>2. PICK u \in Fetched(inst'.pc) : sim' \in AccessData(u, cmd, inst'.addr, inst'.pc)
    BY <2>1
  <2>. QED  BY <1>1, <1>4, <1>8, <2>2
<1>11. CASE System
  <2>1. inst'.op = "syscall"
    BY <1>2, <1>11 DEF System
  <2>2. PICK u \in Fetched(inst'.pc) : sim' \in Syscall(u, inst'.addr, inst'.pc)
    BY <1>11 DEF System
  <2>3. Stepped(u, sim')
    BY <1>1, <1>5, <1>7, <2>2, SimCacheAssumption, SyscallStepped
  <2>4. Stepped(Started(sim), sim')
    BY <1>7, <2>2, <2>3, SteppedTrans
  <2>. QED  BY <1>1, <1>4, <2>1, <2>4
<1>. QED  BY <1>9, <1>10, <1>11 DEF Next

\* Every instruction keeps the invariant
LEMMA NextIInv ==
    ASSUME IInv, [Next]_vars
    PROVE  IInv'
<1>1. CASE Next
  <2>1. /\ Configured /\ SimInv(sim, inst) /\ sim.fault = "none"
        /\ options' = options /\ sim_num_insn' \in Nat /\ inst' \in Instruction
        /\ Stepped(Started(sim), sim')
        /\ inst'.op \in {"load", "store"} /\ sim'.fault = "none" => Promised(sim', inst'.addr, inst'.pc)
    BY <1>1, NextStepped
  <2>2. Good(sim') /\ (sim'.fault = "none" => (Safe(Started(sim)) => Safe(sim')))
    BY <2>1 DEF Stepped, Steps
  <2>3. Safe(Started(sim))
    BY <2>1, SimCacheAssumption, StartedGood DEF SimInv
  <2>4. SimInv(sim', inst')
    BY <2>1, <2>2, <2>3 DEF SimInv
  <2>5. PICK s, i : s = sim' /\ i = inst'
    OBVIOUS
  <2>6. SimInv(s, i)
    BY <2>4, <2>5
  <2>7. (SimInv(s, i))'
    BY <2>1, <2>6, SameInvNext
  <2>. QED  BY <2>1, <2>5, <2>7 DEF IInv
<1>2. CASE UNCHANGED vars
  <2>1. options' = options /\ sim' = sim /\ inst' = inst /\ sim_num_insn' = sim_num_insn
    BY <1>2 DEF vars
  <2>2. PICK s, i : s = sim /\ i = inst /\ SimInv(s, i)
    BY DEF IInv
  <2>3. (SimInv(s, i))'
    BY <2>1, <2>2, SameInvNext
  <2>. QED  BY <2>1, <2>2, <2>3 DEF IInv
<1>. QED  BY <1>1, <1>2

\* The invariant holds
LEMMA SpecIInv == Spec => []IInv
<1>1. Init => IInv
  BY InitIInv
<1>2. IInv /\ [Next]_vars => IInv'
  BY NextIInv
<1>. QED  BY <1>1, <1>2, PTL DEF Spec

-----------------------------------------------------------------------------
(* The properties of the simulator, for every hierarchy and every program  *)

\* What the theorems use of it
LEMMA IInvParts ==
    ASSUME IInv
    PROVE  Configured /\ SimInv(sim, inst) /\ Good(sim)
BY OptionsConfigured DEF IInv, SimInv

\* FastHitIsSearch: the block a fast hit takes is the one that a search would
\* find, and under LRU the head of its way list (cache.c:767-772 and 982).
THEOREM FastHitTheorem == Spec => []FastHitIsSearch
<1>1. ASSUME IInv  PROVE FastHitIsSearch
  <2>1. Configured /\ Good(sim)
    BY <1>1, IInvParts
  <2>2. ASSUME NEW x \in Caches, sim.cache[x].last_blk # NULL
        PROVE  LET c == sim.cache[x]
                   s == CACHE_SET(x, c.last_tagset)
               IN  /\ {s} \X Found(sim, x, c.last_tagset) = {c.last_blk}
                   /\ Config[x].policy = "LRU" => Head(c.way[s]) = c.last_blk[2]
    <3>. DEFINE c == sim.cache[x]
                a == c.last_tagset
                s == CACHE_SET(x, a)
                i == c.last_blk[2]
    <3>1. CacheOK(x, c) /\ c \in CacheType(x)
      BY <2>1 DEF Good, CacheOK
    <3>2. /\ c.last_blk \in Sets(x) \X Ways(x) /\ a \in Int
          /\ c.blks \in [Sets(x) -> [Ways(x) -> Block]] /\ c.way \in [Sets(x) -> [Ways(x) -> Ways(x)]]
      BY <2>2, <3>1 DEF CacheType
    <3>3. /\ c.last_blk[1] = s /\ i \in Here(x, c, a)
          /\ Config[x].policy = "LRU" => c.way[s][1] = i
      BY <2>2, <3>1 DEF CacheOK, LastHit
    <3>4. c.last_blk = <<s, i>>
      BY <3>2, <3>3
    <3>5. s \in Sets(x)
      BY <2>1, <3>2, Places
    <3>6. Here(x, c, a) = {i}
      <4>1. ASSUME NEW j \in Here(x, c, a)  PROVE j = i
        BY <3>1, <3>3, <3>5, <4>1 DEF CacheOK, Unique, Here
      <4>. QED  BY <3>3, <4>1
    <3>7. Found(sim, x, a) = {i}
      BY <3>6, SameFound
    <3>8. {s} \X {i} = {<<s, i>>}
      OBVIOUS
    <3>9. Head(c.way[s]) = c.way[s][1]
      <4>1. Config[x].assoc \in Nat \ {0}
        BY <2>1, Geometry
      <4>2. c.way[s] \in [1 .. Config[x].assoc -> Ways(x)]
        BY <3>2, <3>5 DEF Ways
      <4>3. c.way[s] \in Seq(Ways(x)) /\ Len(c.way[s]) = Config[x].assoc
        BY SMTT(30), <4>1, <4>2
      <4>4. c.way[s] # <<>>
        BY <4>1, <4>3
      <4>. QED  BY <4>3, <4>4
    <3>. HIDE DEF c, a, s, i
    <3>10. {s} \X Found(sim, x, a) = {c.last_blk} /\ (Config[x].policy = "LRU" => Head(c.way[s]) = i)
      BY <3>3, <3>4, <3>7, <3>8, <3>9
    <3>. QED  BY <3>10 DEF c, a, s, i
  <2>. QED  BY <2>2 DEF FastHitIsSearch
<1>. QED  BY <1>1, SpecIInv, PTL

\* NoStoreLost: the newest value of a word that is not in memory is in a dirty
\* block, at the level it was last written to (cache.c:841-884, 1057-1077 and
\* sim-cache.c:732-738).
THEOREM NoStoreLostTheorem == Spec => []NoStoreLost
<1>1. ASSUME IInv  PROVE NoStoreLost
  <2>1. Configured /\ SimInv(sim, inst) /\ sim.newest \in Newest
    BY <1>1, IInvParts DEF Good, SimType
  <2>2. ASSUME sim.fault = "none", NEW w \in Words, NEW x \in Caches, sim.newest[w] = x
        PROVE  \E i \in Found(sim, x, w) : Blk(x, CACHE_SET(x, w), i).dirty
    <3>1. x \in {"dl1", "dl2"}
      BY <2>1, <2>2, SimCacheAssumption DEF Newest
    <3>2. Held(x, sim.cache[x], w)
      BY <2>1, <2>2, <3>1 DEF SimInv, Safe, Kept
    <3>. QED  BY <3>2, SameFound DEF Held, Blk
  <2>. QED  BY <2>2 DEF NoStoreLost
<1>. QED  BY <1>1, SpecIInv, PTL

\* PrefetchesHelp: after a load or store what is predicted is in dl1, and with
\* two ways and LRU what was asked for still is (cache.c:579-588, 675-680, 897
\* and 948).
THEOREM PrefetchesHelpTheorem == Spec => []PrefetchesHelp
<1>1. ASSUME IInv  PROVE PrefetchesHelp
  <2>1. SimInv(sim, inst)
    BY <1>1, IInvParts
  <2>2. ASSUME inst # NULL, inst.op \in {"load", "store"}, sim.fault = "none"
        PROVE  /\ Config["dl1"].prefetch_type # 0 /\ (SharedTable => sim.did["dl1"]["writebacks"] = 0)
                     => \A a \in Predicted : Holds("dl1", a)
               /\ Config["dl1"].assoc > 1 /\ Config["dl1"].policy = "LRU" => Holds("dl1", inst.addr)
    <3>1. Promised(sim, inst.addr, inst.pc)
      BY <2>1, <2>2 DEF SimInv
    <3>2. Predicted = PredictedAt(sim, "dl1", inst.addr, inst.pc)
      BY DEF Predicted, PredictedAt
    <3>3. SharedTable <=> SharedWith("dl1")
      BY DEF SharedTable, SharedWith
    <3>4. \A a : Holds("dl1", a) <=> Here("dl1", sim.cache["dl1"], a) # {}
      BY SameFound DEF Holds
    <3>. QED  BY <3>1, <3>2, <3>3, <3>4 DEF Promised
  <2>. QED  BY <2>2 DEF PrefetchesHelp
<1>. QED  BY <1>1, SpecIInv, PTL

\* GhbIsHistory: the buffer of the open-ended prefetcher holds the last
\* addresses, in order and without a gap (cache.c:615-623).
THEOREM GhbTheorem == Spec => []GhbIsHistory
<1>1. ASSUME IInv  PROVE GhbIsHistory
  BY <1>1, IInvParts DEF Good, TablesOK, GhbOK, GhbIsHistory
<1>. QED  BY <1>1, SpecIInv, PTL

\* SteadyAfterThree: three equal strides of a PC in a row make its entry steady
\* with that stride, whatever the entry has been through (cache.c:529-576).
THEOREM SteadyTheorem == Spec => []SteadyAfterThree
<1>1. ASSUME IInv  PROVE SteadyAfterThree
  <2>1. StridesOK(sim)
    BY <1>1, IInvParts DEF Good, TablesOK
  <2>2. ASSUME sim.rpt # NULL, NEW i \in DOMAIN sim.rpt
        PROVE  LET w == sim.walk[i] IN
               /\ Len(w) = 4 /\ w[2] - w[1] = w[3] - w[2] /\ w[3] - w[2] = w[4] - w[3]
                     => sim.rpt[i].state = "STEADY" /\ sim.rpt[i].stride = w[4] - w[3]
               /\ Len(w) = 2 => sim.rpt[i].state = (IF w[1] = w[2] THEN "STEADY" ELSE "TRANSIENT")
               /\ Len(w) = 1 => sim.rpt[i].state = "INIT" /\ sim.rpt[i].stride = 0
    <3>. DEFINE w == sim.walk[i]
                e == sim.rpt[i]
    <3>1. EntryFits(e, w)
      BY <2>1, <2>2 DEF StridesOK
    <3>. HIDE DEF w, e
    <3>2. Len(w) = 1 => e.state = "INIT" /\ e.stride = 0
      BY <3>1 DEF EntryFits
    <3>3. Len(w) = 2 => e.state = (IF w[1] = w[2] THEN "STEADY" ELSE "TRANSIENT")
      BY <3>1 DEF EntryFits
    <3>4. ASSUME Len(w) = 4, w[2] - w[1] = w[3] - w[2], w[3] - w[2] = w[4] - w[3]
          PROVE  e.state = "STEADY" /\ e.stride = w[4] - w[3]
      <4>1. 4 - 1 = 3 /\ 4 - 2 = 2 /\ 4 >= 3
        OBVIOUS
      <4>. QED  BY <3>1, <3>4, <4>1 DEF EntryFits
    <3>. QED  BY <3>2, <3>3, <3>4 DEF w, e
  <2>. QED  BY <2>2 DEF SteadyAfterThree
<1>. QED  BY <1>1, SpecIInv, PTL

\* StatisticsBalance: dl2 sees the misses and the writebacks of the first level,
\* and the number of valid blocks moves with the counters (cache.c:802-874 and
\* 1064).
THEOREM StatisticsTheorem == Spec => StatisticsBalance
<1>. DEFINE Balanced ==
        sim'.fault = "none" =>
          /\ Demands("dl2")' = sim'.did["il1"]["misses"] + sim'.did["dl1"]["misses"]
                               + sim'.did["il1"]["writebacks"] + sim'.did["dl1"]["writebacks"]
          /\ \A x \in Caches :
                Valid(x)' - Valid(x) = sim'.did[x]["misses"] + sim'.did[x]["prefetch_misses"]
                                       - sim'.did[x]["replacements"] - sim'.did[x]["invalidations"]
<1>1. ASSUME IInv, [Next]_vars  PROVE [Balanced]_vars
  <2>1. SUFFICES ASSUME Next, sim'.fault = "none"  PROVE Balanced
    BY <1>1
  <2>2. /\ Configured /\ SimInv(sim, inst) /\ options' = options /\ Stepped(Started(sim), sim')
    BY <1>1, <2>1, NextStepped
  <2>. DEFINE s == Started(sim)
  <2>3. /\ Good(s) /\ s.cache = sim.cache /\ Surplus(s) = 0
        /\ \A x \in Caches : Filled(s.did[x]) = 0
    BY <2>2, SimCacheAssumption, StartedGood DEF SimInv
  <2>. HIDE DEF s
  <2>4. /\ Good(sim') /\ Surplus(sim') = Surplus(s)
        /\ \A x \in Caches : Net(sim', x) = Net(s, x)
    BY <2>1, <2>2 DEF Stepped, Steps, s
  <2>5. Demands("dl2")' = sim'.did["il1"]["misses"] + sim'.did["dl1"]["misses"]
                          + sim'.did["il1"]["writebacks"] + sim'.did["dl1"]["writebacks"]
    <3>. DEFINE a == sim'.did["il1"]["misses"]
                b == sim'.did["il1"]["writebacks"]
                c == sim'.did["dl1"]["misses"]
                d == sim'.did["dl1"]["writebacks"]
                e == Asked(sim')
    <3>1. a \in Nat /\ b \in Nat /\ c \in Nat /\ d \in Nat /\ e \in Nat
      BY <2>4, SimCacheAssumption, SurplusInt
    <3>2. e - a - b - c - d = 0
      BY <2>3, <2>4 DEF Surplus
    <3>3. Demands("dl2")' = e
      BY DEF Demands, Asked
    <3>. HIDE DEF a, b, c, d, e
    <3>4. e = a + c + b + d
      BY <3>1, <3>2
    <3>. QED  BY <3>3, <3>4 DEF a, b, c, d
  <2>6. ASSUME NEW x \in Caches
        PROVE  Valid(x)' - Valid(x) = sim'.did[x]["misses"] + sim'.did[x]["prefetch_misses"]
                                      - sim'.did[x]["replacements"] - sim'.did[x]["invalidations"]
    <3>1. Valid(x) = Count(x, sim.cache[x])
      BY DEF Valid, Count, ValidIn, Blk
    <3>2. Valid(x)' = Count(x, sim'.cache[x])
      <4>1. Sets(x)' = Sets(x) /\ Ways(x)' = Ways(x)
        BY <2>2, SamePlacesNext
      <4>. QED  BY <4>1 DEF Valid, Count, ValidIn, Blk
    <3>3. /\ Count(x, sim.cache[x]) \in Nat /\ Count(x, sim'.cache[x]) \in Nat /\ Filled(sim'.did[x]) \in Int
      BY <2>2, <2>3, <2>4, NetInt
    <3>4. Count(x, sim'.cache[x]) - Filled(sim'.did[x]) = Count(x, sim.cache[x]) - 0
      BY <2>3, <2>4 DEF Net
    <3>5. Valid(x)' - Valid(x) = Filled(sim'.did[x])
      BY <3>1, <3>2, <3>3, <3>4
    <3>. QED  BY <3>5 DEF Filled
  <2>. QED  BY <2>5, <2>6
<1>. HIDE DEF Balanced
<1>2. Spec => [][Balanced]_vars
  BY <1>1, SpecIInv, PTL DEF Spec
<1>. QED  BY <1>2, PTL DEF StatisticsBalance, Balanced
=============================================================================
