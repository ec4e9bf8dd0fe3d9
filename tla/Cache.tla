------------------------------- MODULE Cache -------------------------------
(***************************************************************************)
(* One call of cache_access: the access to a cache of cache.c, with the    *)
(* accesses it makes to the next level and the prefetch it starts.  The    *)
(* operators take the state sim and return the set of states the call may  *)
(* leave.                                                                  *)
(*                                                                         *)
(* A definition marked "Fault" is no part of the specification: it is the  *)
(* definition after it with a plausible slip.                              *)
(***************************************************************************)
EXTENDS CacheState

CONSTANT
    blk_access_fn(_, _, _, _, _, _)     \* the access to the next level: sim, the
                                        \* cache, cmd, baddr, pc and prefetch

-----------------------------------------------------------------------------
(* cache_access, without the prefetch a demand access starts               *)

SetDirty(sim, x, s, i, cmd) ==
    IF cmd = "Write" THEN [sim EXCEPT !.cache[x].blks[s][i].dirty = TRUE] ELSE sim

\* The block found in the last access: without one the code follows NULL
FastHit(sim, x, cmd, prefetch) ==
    LET b == sim.cache[x].last_blk
    IN  IF b = NULL THEN [sim EXCEPT !.fault = "NULL block"]
        ELSE SetDirty(Counted(sim, x, HitCounter(prefetch)), x, b[1], b[2], cmd)

Hit(sim, x, cmd, addr, prefetch, i) ==
    LET s == CACHE_SET(x, addr)
        touched == [sim.cache[x] EXCEPT
            !.way[s] = IF Config[x].policy = "LRU" THEN ToHead(@, i) ELSE @,
            !.last_tagset = CACHE_TAGSET(x, addr),
            !.last_blk = <<s, i>>]
    IN  SetDirty(Counted([sim EXCEPT !.cache[x] = touched], x, HitCounter(prefetch)), x, s, i, cmd)

Victims(sim, x, s) ==
    IF Config[x].policy = "Random" THEN Ways(x) ELSE {Last(sim.cache[x].way[s])}

Fault_Unlinked_remembers_last(sim, x, s, i) ==
    [sim EXCEPT !.cache[x].way[s] = IF Config[x].policy = "Random" THEN @ ELSE ToHead(@, i)]

\* The block i leaves its place in the way list and its last hit is forgotten
Unlinked(sim, x, s, i) ==
    LET unlinked == [sim.cache[x] EXCEPT
            !.way[s] = IF Config[x].policy = "Random" THEN @ ELSE ToHead(@, i),
            !.last_tagset = 0,
            !.last_blk = NULL]
    IN  [sim EXCEPT !.cache[x] = unlinked]

Fault_NeedsWriteback_never(b) == FALSE

NeedsWriteback(b) == b.valid /\ b.dirty

Evicted(sim, x, s, pc, i) ==
    LET b == sim.cache[x].blks[s][i]
        counted == IF b.valid THEN Counted(sim, x, "replacements") ELSE sim
    IN  IF NeedsWriteback(b)
        THEN blk_access_fn(Counted(counted, x, "writebacks"), x, "Write", CACHE_MK_BADDR(x, b.tag, s), pc, FALSE)
        ELSE {counted}

Fill(sim, x, cmd, addr, pc, prefetch, i) ==
    LET s == CACHE_SET(x, addr)
        missed == Unlinked(Counted(sim, x, MissCounter(prefetch)), x, s, i)
        named(t) == [t EXCEPT !.cache[x].blks[s][i] =
                        [tag |-> CACHE_TAG(x, addr), valid |-> TRUE, dirty |-> FALSE]]
        filled == UNION {blk_access_fn(named(t), x, "Read", CACHE_TAGSET(x, addr), pc, prefetch) :
                            t \in Evicted(missed, x, s, pc, i)}
    IN  {SetDirty(t, x, s, i, cmd) : t \in filled}

Access(sim, x, cmd, addr, pc, prefetch) ==
    IF sim.fault # "none" THEN {sim}
    ELSE IF CACHE_TAGSET(x, addr) = sim.cache[x].last_tagset THEN {FastHit(sim, x, cmd, prefetch)}
    ELSE IF cache_probe(sim, x, addr)
         THEN {Hit(sim, x, cmd, addr, prefetch, i) : i \in Found(sim, x, addr)}
    ELSE UNION {Fill(sim, x, cmd, addr, pc, prefetch, i) : i \in Victims(sim, x, CACHE_SET(x, addr))}

-----------------------------------------------------------------------------
(* The prefetchers *)

\* The state after an access, given whether the stride was the one remembered
NextState(state, same) ==
    CASE same -> IF state = "NO_PREDICTION" THEN "TRANSIENT" ELSE "STEADY"
      [] ~same /\ state = "INIT" -> "TRANSIENT"
      [] ~same /\ state = "STEADY" -> "INIT"
      [] ~same /\ state \in {"TRANSIENT", "NO_PREDICTION"} -> "NO_PREDICTION"

Fault_update_entry_no_reset(entry, addr, pc) ==
    [tag |-> pc, prev_addr |-> addr,
     stride |-> IF entry.state = "STEADY" THEN entry.stride ELSE addr - entry.prev_addr,
     state |-> NextState(entry.state, addr - entry.prev_addr = entry.stride)]

\* Only a steady entry keeps its stride when another one is seen
update_entry(entry, addr, pc) ==
    LET new_stride == addr - entry.prev_addr
        seen == entry.tag = pc
    IN  [tag |-> pc,
         prev_addr |-> addr,
         stride |-> IF ~seen THEN 0
                    ELSE IF entry.state = "STEADY" THEN entry.stride ELSE new_stride,
         state |-> IF ~seen THEN "INIT" ELSE NextState(entry.state, new_stride = entry.stride)]

Prefetch(sim, x, addr, pc) ==
    LET pf_addr == CACHE_TAGSET(x, addr)
    IN  IF cache_probe(sim, x, pf_addr) THEN {sim}
        ELSE Access(sim, x, "Read", pf_addr, pc, TRUE)

next_line_prefetcher(sim, x, addr, pc) ==
    Prefetch(sim, x, addr + Config[x].bsize, pc)

\* The addresses an entry's owner has used since it took the entry, at most four
Walked(walk, mine, addr) ==
    LET longer == Append(IF mine THEN walk ELSE <<>>, addr)
    IN  IF Len(longer) > 4 THEN Tail(longer) ELSE longer

\* One table serves all caches: it has the size the first of them asked for
stride_prefetcher(sim, x, addr, pc) ==
    LET n == Config[x].prefetch_type
        i == pc % n
        alloc == IF sim.rpt # NULL THEN sim
                 ELSE [sim EXCEPT !.rpt = [j \in 0 .. n - 1 |-> NoEntry],
                                  !.walk = [j \in 0 .. n - 1 |-> <<>>]]
        entry == update_entry(alloc.rpt[i], addr, pc)
        updated == [alloc EXCEPT !.rpt[i] = entry,
                                 !.walk[i] = Walked(@, alloc.rpt[i].tag = pc, addr)]
    IN  IF i \notin DOMAIN alloc.rpt THEN {[alloc EXCEPT !.fault = "rpt overrun"]}
        ELSE IF entry.state = "NO_PREDICTION" THEN {updated}
        ELSE Prefetch(updated, x, addr + entry.stride, pc)

Fault_Slid_never(ghb, count) == ghb

\* The buffer slides when its last place is taken; 0 stands for an empty place
Slid(ghb, count) ==
    IF count = GHB_SIZE - 1 /\ ghb[count] # 0
    THEN [i \in DOMAIN ghb |-> IF i < GHB_SIZE - 1 THEN ghb[i + 1] ELSE ghb[i]]
    ELSE ghb

Recorded(sim, addr) ==
    [sim EXCEPT !.ghb = [Slid(@, sim.count) EXCEPT ![sim.count] = addr],
                !.count = IF @ < GHB_SIZE - 1 THEN @ + 1 ELSE @,
                !.seen = LET longer == Append(@, addr)
                         IN  IF Len(longer) > GHB_SIZE THEN Tail(longer) ELSE longer]

\* The first prefetch address that follows an earlier addr and is not cached
Successors(sim, x, addr) ==
    LET next(i) == sim.ghb[(i + 1) % GHB_SIZE]
    IN  {i \in 0 .. sim.count - 1 :
            /\ sim.ghb[i] = addr /\ next(i) # 0
            /\ ~cache_probe(sim, x, CACHE_TAGSET(x, next(i)))}

open_ended_prefetcher(sim, x, addr, pc) ==
    LET i == pc % RPT_SIZE
        entry == update_entry(sim.rpt_open[i], addr, pc)
        updated == [Recorded(sim, addr) EXCEPT !.rpt_open[i] = entry]
        found == Successors(updated, x, addr)
    IN  IF entry.state = "STEADY" THEN Prefetch(updated, x, addr + entry.stride, pc)
        ELSE IF found = {} THEN {updated}
        ELSE LET first == CHOOSE j \in found : \A k \in found : j <= k
             IN  Prefetch(updated, x, updated.ghb[(first + 1) % GHB_SIZE], pc)

generate_prefetch(sim, x, addr, pc) ==
    IF sim.fault # "none" THEN {sim}
    ELSE CASE Config[x].prefetch_type = 0 -> {sim}
           [] Config[x].prefetch_type = 1 -> next_line_prefetcher(sim, x, addr, pc)
           [] Config[x].prefetch_type = 2 -> open_ended_prefetcher(sim, x, addr, pc)
           [] OTHER -> stride_prefetcher(sim, x, addr, pc)

-----------------------------------------------------------------------------
(* cache_access: only an access that is no prefetch can start one *)

Fault_StartsPrefetch_inverted(prefetch) == prefetch

StartsPrefetch(prefetch) == ~prefetch

cache_access(sim, x, cmd, addr, pc, prefetch) ==
    LET done == Access(sim, x, cmd, addr, pc, prefetch)
    IN  IF StartsPrefetch(prefetch)
        THEN UNION {generate_prefetch(t, x, addr, pc) : t \in done}
        ELSE done
=============================================================================
