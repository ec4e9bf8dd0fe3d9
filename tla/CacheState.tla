---------------------------- MODULE CacheState -----------------------------
(***************************************************************************)
(* The state of the caches of cache.c and of their prefetchers, and what   *)
(* looks at it or counts in it.  It is one record sim, because an access   *)
(* to one cache reaches into the next one and may start a prefetch, all    *)
(* within one call:                                                        *)
(*   cache    for each cache [blks, way, last_tagset, last_blk]            *)
(*   rpt, rpt_open, ghb, count   the prefetchers' static tables            *)
(*   did      for each cache, what its statistics counted in this step     *)
(*   newest   for each word, who holds its newest value (history)          *)
(*   walk     for each entry of rpt, the last addresses of the PC that     *)
(*            owns it; seen, the last addresses put into ghb (history)     *)
(*   fault    the undefined behaviour the program has run into, or "none"  *)
(*                                                                         *)
(* An address counts words of the size of an instruction.  Latencies, data *)
(* and the contents of TLB entries are left out.                           *)
(***************************************************************************)
EXTENDS Integers, Sequences, FiniteSets, SequencesExt

CONSTANTS
    Caches,         \* the caches of the configuration
    Config,         \* Config[x]: the arguments of cache_create
    Below,          \* Below[x]: the cache x fills its blocks from, or "mem"
    Words,          \* the addresses of data (history only)
    GHB_SIZE, RPT_SIZE      \* 16 in the code

CacheConfig == [nsets : Nat \ {0}, bsize : Nat \ {0}, assoc : Nat \ {0},
                policy : {"LRU", "FIFO", "Random"}, prefetch_type : Nat]

NULL == <<>>

-----------------------------------------------------------------------------
(* Addresses *)

CACHE_TAGSET(x, addr) == addr - (addr % Config[x].bsize)
CACHE_SET(x, addr) == (addr \div Config[x].bsize) % Config[x].nsets
CACHE_TAG(x, addr) == addr \div (Config[x].bsize * Config[x].nsets)
CACHE_MK_BADDR(x, tag, set) == (tag * Config[x].nsets + set) * Config[x].bsize

WordsOf(x, baddr) == baddr .. baddr + Config[x].bsize - 1

-----------------------------------------------------------------------------
(* One cache *)

Sets(x) == 0 .. Config[x].nsets - 1
Ways(x) == 1 .. Config[x].assoc

\* way lists the blocks of a set in order, the head first
cache_create(x) ==
    [blks |-> [s \in Sets(x) |-> [i \in Ways(x) |-> [tag |-> 0, valid |-> FALSE, dirty |-> FALSE]]],
     way |-> [s \in Sets(x) |-> [i \in Ways(x) |-> Config[x].assoc + 1 - i]],
     last_tagset |-> 0,
     last_blk |-> NULL]

\* The block i goes to the front of the list, the others keep their order
ToHead(order, i) ==
    LET place == CHOOSE n \in DOMAIN order : order[n] = i
    IN  [n \in DOMAIN order |-> IF n = 1 THEN i ELSE IF n <= place THEN order[n - 1] ELSE order[n]]

\* The blocks of a cache that hold an address
Found(sim, x, addr) ==
    LET blks == sim.cache[x].blks[CACHE_SET(x, addr)]
    IN  {i \in Ways(x) : blks[i].valid /\ blks[i].tag = CACHE_TAG(x, addr)}

cache_probe(sim, x, addr) == Found(sim, x, addr) # {}

Counters == {"hits", "misses", "prefetch_hits", "prefetch_misses",
             "replacements", "writebacks", "invalidations"}
Nothing == [x \in Caches |-> [c \in Counters |-> 0]]

Counted(sim, x, counter) == [sim EXCEPT !.did[x][counter] = @ + 1]

HitCounter(prefetch) == IF prefetch THEN "prefetch_hits" ELSE "hits"
MissCounter(prefetch) == IF prefetch THEN "prefetch_misses" ELSE "misses"

State == {"INIT", "TRANSIENT", "STEADY", "NO_PREDICTION"}
NoEntry == [tag |-> 0, prev_addr |-> 0, stride |-> 0, state |-> "INIT"]

\* The newest value of these words moves on (history)
Moved(sim, words, from, to) ==
    [sim EXCEPT !.newest = [w \in Words |-> IF w \in words /\ @[w] \in from THEN to ELSE @[w]]]
=============================================================================
