------------------------------ MODULE CacheSet ------------------------------
(***************************************************************************)
(* One set of a cache of cache.c as the code keeps it: blocks linked into  *)
(* a doubly linked way list and, in a highly associative cache, into hash  *)
(* bucket chains.  Accesses, the flush of an address and the flush of the  *)
(* whole cache are one action each.                                        *)
(*                                                                         *)
(* A block is its number in the array blks, a NULL pointer is 0.  All tags *)
(* are below 2^8, where CACHE_HASH is the low bits of the tag.  Cache      *)
(* models what an access does beyond its set, and random replacement,      *)
(* which follows no list.                                                  *)
(*                                                                         *)
(* A definition marked "Fault" is no part of the specification: it is the  *)
(* definition after it with a plausible slip.                              *)
(***************************************************************************)
EXTENDS Integers, FiniteSets, SequencesExt

CONSTANTS
    Assoc,
    HSizes,             \* the hash sizes to check; 0 is the linear search
    Tags,
    StoreTags           \* the tags that are written to

ASSUME CacheSetAssumption ==
    /\ Assoc \in Nat \ {0}
    /\ HSizes \subseteq Nat
    /\ Tags \subseteq 1 .. 255 /\ StoreTags \subseteq Tags

VARIABLES
    policy, hsize,      \* fixed by cache_create
    way,                \* [head, tail, next, prev] of the way list
    hash,               \* [head, next]: the bucket heads and the chains
    blks,               \* the tag and status of each block
    last_blk,
    call,               \* the last call and its tag (history)
    written,            \* the tags it wrote back (history)
    asserted            \* whether every assertion has held so far

vars == <<policy, hsize, way, hash, blks, last_blk, call, written, asserted>>

NULL == 0
Blks == 1 .. Assoc

-----------------------------------------------------------------------------
(* update_way_list *)

\* What the assertions say of the place of b in the list
PlaceOk(w, b) ==
    /\ w.prev[b] = NULL <=> w.head = b
    /\ w.next[b] = NULL <=> w.tail = b

Unlinked(w, b) ==
    LET p == w.prev[b]
        n == w.next[b]
    IN  [head |-> IF p = NULL THEN n ELSE w.head,
         tail |-> IF n = NULL THEN p ELSE w.tail,
         next |-> [x \in Blks |-> IF x = p THEN n ELSE w.next[x]],
         prev |-> [x \in Blks |-> IF x = n THEN p ELSE w.prev[x]]]

Fault_AtHead_no_back_link(w, b) ==
    [w EXCEPT !.head = b, !.next[b] = w.head, !.prev[b] = NULL]

AtHead(w, b) ==
    [w EXCEPT !.head = b, !.next[b] = w.head, !.prev = [@ EXCEPT ![b] = NULL, ![w.head] = b]]

AtTail(w, b) ==
    [w EXCEPT !.tail = b, !.prev[b] = w.tail, !.next = [@ EXCEPT ![b] = NULL, ![w.tail] = b]]

MoveToHead(w, b) == IF w.prev[b] = NULL THEN w ELSE AtHead(Unlinked(w, b), b)
MoveToTail(w, b) == IF w.next[b] = NULL THEN w ELSE AtTail(Unlinked(w, b), b)

-----------------------------------------------------------------------------
(* The hash chains *)

CACHE_HASH(tag) == tag % hsize

\* The blocks from b on, in the order of the links; longer than Assoc when
\* they run in a circle
Chain(b, next) ==
    LET succ == [x \in Blks \union {NULL} |-> IF x = NULL THEN NULL ELSE next[x]]
        nth[n \in 1 .. Assoc + 1] == IF n = 1 THEN b ELSE succ[nth[n - 1]]
    IN  SubSeq(nth, 1, Cardinality({n \in DOMAIN nth : nth[n] # NULL}))

Bucket(h, tag) == Chain(h.head[CACHE_HASH(tag)], h.next)

unlink_htab_ent(h, b) ==
    LET bucket == Bucket(h, blks[b].tag)
        i == SelectInSeq(bucket, LAMBDA e : e = b)
    IN  IF i = 1
        THEN [head |-> [h.head EXCEPT ![CACHE_HASH(blks[b].tag)] = h.next[b]],
              next |-> [h.next EXCEPT ![b] = NULL]]
        ELSE [h EXCEPT !.next = [@ EXCEPT ![bucket[i - 1]] = h.next[b], ![b] = NULL]]

link_htab_ent(h, b, tag) ==
    [head |-> [h.head EXCEPT ![CACHE_HASH(tag)] = b],
     next |-> [h.next EXCEPT ![b] = h.head[CACHE_HASH(tag)]]]

\* A block that takes another tag moves to that tag's bucket
Rehashed(h, b, tag) ==
    IF hsize = 0 THEN h ELSE link_htab_ent(unlink_htab_ent(h, b), b, tag)

-----------------------------------------------------------------------------
(* cache_create: the blocks go to the head one after the other *)

Init ==
    /\ policy \in {"LRU", "FIFO"}
    /\ hsize \in HSizes
    /\ way = [head |-> Assoc, tail |-> 1,
              next |-> [b \in Blks |-> b - 1],
              prev |-> [b \in Blks |-> (b + 1) % (Assoc + 1)]]
    /\ hash = [head |-> [k \in 0 .. hsize - 1 |-> IF k = 0 THEN Assoc ELSE NULL],
               next |-> [b \in Blks |-> IF hsize = 0 THEN NULL ELSE b - 1]]
    /\ blks = [b \in Blks |-> [tag |-> 0, valid |-> FALSE, dirty |-> FALSE]]
    /\ last_blk = NULL
    /\ call = <<"cache_create", 0>> /\ written = {} /\ asserted = TRUE

-----------------------------------------------------------------------------
(* The operations.  The first match in the order of the search is the block. *)

WayList == Chain(way.head, way.next)

Searched(tag) == IF hsize = 0 THEN WayList ELSE Bucket(hash, tag)
Matches(tag) ==
    LET found == Searched(tag)
    IN  {i \in DOMAIN found : blks[found[i]].tag = tag /\ blks[found[i]].valid}
FirstMatch(tag) == Searched(tag)[Min(Matches(tag))]

SetDirty(b, cmd) == [blks EXCEPT ![b].dirty = @ \/ cmd = "Write"]
Dirty(B) == {blks[b].tag : b \in {x \in B : blks[x].valid /\ blks[x].dirty}}
LastTag(tag) == last_blk # NULL /\ blks[last_blk].tag = tag

FastHit(tag, cmd) ==
    /\ LastTag(tag)
    /\ blks' = SetDirty(last_blk, cmd) /\ written' = {}
    /\ UNCHANGED <<policy, hsize, way, hash, last_blk, asserted>>

\* Fault (ImplementsLruSet): the tail, which has no next block, stays there
Fault_MovesOnHit_not_tail(b) == policy = "LRU" /\ way.prev[b] # NULL /\ way.next[b] # NULL

MovesOnHit(b) == policy = "LRU" /\ way.prev[b] # NULL

SlowHit(tag, cmd) ==
    /\ ~LastTag(tag) /\ Matches(tag) # {}
    /\ LET b == FirstMatch(tag)
       IN  /\ blks' = SetDirty(b, cmd)
           /\ way' = IF MovesOnHit(b) THEN MoveToHead(way, b) ELSE way
           /\ asserted' = (asserted /\ (MovesOnHit(b) => PlaceOk(way, b)))
           /\ last_blk' = b
    /\ written' = {}
    /\ UNCHANGED <<policy, hsize, hash>>

Miss(tag, cmd) ==
    /\ ~LastTag(tag) /\ Matches(tag) = {}
    /\ LET repl == way.tail
       IN  /\ way' = MoveToHead(way, repl)
           /\ hash' = Rehashed(hash, repl, tag)
           /\ asserted' = (/\ asserted /\ PlaceOk(way, repl)
                           /\ hsize > 0 => Contains(Bucket(hash, blks[repl].tag), repl))
           /\ written' = Dirty({repl})
           /\ blks' = [blks EXCEPT ![repl] = [tag |-> tag, valid |-> TRUE, dirty |-> cmd = "Write"]]
    /\ last_blk' = NULL
    /\ UNCHANGED <<policy, hsize>>

\* The freed block is the next one to be used
cache_flush_addr(tag) ==
    /\ IF Matches(tag) = {}
       THEN written' = {} /\ UNCHANGED <<way, blks, last_blk, asserted>>
       ELSE LET b == FirstMatch(tag)
            IN  /\ blks' = [blks EXCEPT ![b].valid = FALSE]
                /\ written' = Dirty({b})
                /\ way' = MoveToTail(way, b)
                /\ asserted' = (asserted /\ PlaceOk(way, b))
                /\ last_blk' = NULL
    /\ UNCHANGED <<policy, hsize, hash>>

\* The order of the list does not matter: all its blocks become invalid
cache_flush ==
    /\ blks' = [b \in Blks |-> [blks[b] EXCEPT !.valid = FALSE]]
    /\ written' = Dirty(ToSet(WayList))
    /\ last_blk' = NULL
    /\ UNCHANGED <<policy, hsize, way, hash, asserted>>

Next ==
    \/ \E tag \in Tags, cmd \in {"Read", "Write"} :
          /\ cmd = "Write" => tag \in StoreTags
          /\ call' = <<cmd, tag>>
          /\ FastHit(tag, cmd) \/ SlowHit(tag, cmd) \/ Miss(tag, cmd)
    \/ \E tag \in Tags : call' = <<"cache_flush_addr", tag>> /\ cache_flush_addr(tag)
    \/ call' = <<"cache_flush", 0>> /\ cache_flush

Spec == Init /\ [][Next]_vars

-----------------------------------------------------------------------------
(* Properties *)

TypeOK ==
    LET Links == [Blks -> Blks \union {NULL}]
    IN  /\ way \in [head : Blks, tail : Blks, next : Links, prev : Links]
        /\ hash \in [head : [0 .. hsize - 1 -> Blks \union {NULL}], next : Links]
        /\ blks \in [Blks -> [tag : Tags \union {0}, valid : BOOLEAN, dirty : BOOLEAN]]
        /\ last_blk \in Blks \union {NULL}

\* The two directions of the way list agree and every block is in it once
WayListWhole ==
    /\ Len(WayList) = Assoc /\ IsInjective(WayList)
    /\ Reverse(WayList) = Chain(way.tail, way.prev)

\* Every block is in one bucket chain, that of its tag, even an invalid one:
\* it is looked up there when it is replaced
ChainsPartition ==
    hsize > 0 => \A b \in Blks :
        {k \in 0 .. hsize - 1 : Contains(Chain(hash.head[k], hash.next), b)} = {CACHE_HASH(blks[b].tag)}

\* However often blocks are moved to either end and take other tags, both kinds
\* of lists stay whole and no assertion of update_way_list and unlink_htab_ent
\* has failed (cache.c:143-257, 835 and 895).
ListsWhole == TypeOK /\ WayListWhole /\ ChainsPartition /\ asserted

\* The pointers implement the list of lines: after each call what is found,
\* which line moves, which one gives way and what is written back are those
\* of LruSet after the same call, whether a block is found by the last hit,
\* the way list or the hash table.  The valid blocks are in front of the
\* freed ones.
Lines ==
    LET list == WayList
    IN  [i \in 1 .. Cardinality({b \in Blks : blks[b].valid}) |->
            [tag |-> blks[list[i]].tag, dirty |-> blks[list[i]].dirty]]
Abstract == INSTANCE LruSet WITH lines <- Lines
ImplementsLruSet == Abstract!Spec
=============================================================================
