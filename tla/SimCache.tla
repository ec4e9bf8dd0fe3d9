----------------------------- MODULE SimCache -----------------------------
(***************************************************************************)
(* The simulator sim-cache: an instruction and a data cache over a unified *)
(* second level, as in every configuration of the repository.  One step    *)
(* simulates one instruction: the fetch through il1, then what the         *)
(* instruction does to dl1.                                                *)
(***************************************************************************)
EXTENDS Integers, Sequences, FiniteSets, SequencesExt

CONSTANTS
    Caches, Below, Words, GHB_SIZE, RPT_SIZE,       \* see CacheState
    Options     \* the command lines: [config, flush_on_syscalls, program], where
                \* program[n] are the instructions that may come n-th

VARIABLES
    options,            \* the command line of this simulation
    sim,                \* the state of the caches and prefetchers, see CacheState
    sim_num_insn,
    inst                \* the instruction of the last step (history)

vars == <<options, sim, sim_num_insn, inst>>

Config == options.config

INSTANCE CacheState

Instruction == [pc : Nat \ {0}, op : {"load", "store", "other", "syscall"}, addr : Nat]

ASSUME SimCacheAssumption ==
    /\ Caches = {"il1", "dl1", "dl2"}
    /\ Below = [x \in Caches |-> IF x = "dl2" THEN "mem" ELSE "dl2"]
    /\ GHB_SIZE \in Nat \ {0, 1} /\ RPT_SIZE \in Nat \ {0}
    /\ Words \subseteq Nat
    /\ \A o \in Options :
          /\ \A x \in Caches : o.config[x] \in CacheConfig
          /\ o.config["dl2"].bsize % o.config["dl1"].bsize = 0
          /\ o.config["dl2"].bsize % o.config["il1"].bsize = 0
          /\ o.flush_on_syscalls \in BOOLEAN
          /\ o.program \in Seq(SUBSET Instruction)

Init ==
    /\ options \in Options
    /\ sim = [cache |-> [x \in Caches |-> cache_create(x)],
              rpt |-> NULL,
              rpt_open |-> [i \in 0 .. RPT_SIZE - 1 |-> NoEntry],
              ghb |-> [i \in 0 .. GHB_SIZE - 1 |-> 0],
              count |-> 0,
              did |-> Nothing,
              newest |-> [w \in Words |-> "mem"],
              walk |-> NULL,
              seen |-> <<>>,
              fault |-> "none"]
    /\ sim_num_insn = 0
    /\ inst = NULL

\* "access main memory, which is always done in the main simulator loop": a
\* block written to it brings the newest values of its words
dl2_access_fn(s, x, cmd, baddr, pc, prefetch) ==
    IF cmd = "Write" THEN {Moved(s, WordsOf(x, baddr), {x}, "mem")} ELSE {s}

SecondLevel == INSTANCE Cache WITH blk_access_fn <- dl2_access_fn

Fault_l1_access_fn_no_flag(s, x, cmd, baddr, pc, prefetch) ==
    LET moved == IF cmd = "Write" THEN Moved(s, WordsOf(x, baddr), {x}, "dl2") ELSE s
    IN  SecondLevel!cache_access(moved, "dl2", cmd, baddr, pc, FALSE)

\* The miss handlers of both first levels, and the value that a writeback
\* brings to dl2
l1_access_fn(s, x, cmd, baddr, pc, prefetch) ==
    LET moved == IF cmd = "Write" THEN Moved(s, WordsOf(x, baddr), {x}, "dl2") ELSE s
    IN  SecondLevel!cache_access(moved, "dl2", cmd, baddr, pc, prefetch)

FirstLevel == INSTANCE Cache WITH blk_access_fn <- l1_access_fn

AccessL1(s, x, cmd, addr, pc) == FirstLevel!cache_access(s, x, cmd, addr, pc, FALSE)

AccessData(s, cmd, addr, pc) ==
    LET stored == IF cmd = "Write"
                  THEN Moved(s, {addr}, {"mem", "dl2", "dl1"}, "dl1") ELSE s
    IN  AccessL1(stored, "dl1", cmd, addr, pc)

Fetched(pc) == AccessL1([sim EXCEPT !.did = Nothing], "il1", "Read", pc, pc)

-----------------------------------------------------------------------------
(* cache_flush: the valid blocks of one set after the other are invalidated *)
(* in way order, and written back when they are dirty.                      *)

Blocks(x) == [n \in 1 .. Config[x].nsets * Config[x].assoc |->
                 <<(n - 1) \div Config[x].assoc, 1 + ((n - 1) % Config[x].assoc)>>]

FlushBlock(s, x, pc, set, k) ==
    LET i == s.cache[x].way[set][k]
        b == s.cache[x].blks[set][i]
        invalid == Counted([s EXCEPT !.cache[x].blks[set][i].valid = FALSE], x, "invalidations")
        baddr == CACHE_MK_BADDR(x, b.tag, set)
    IN  IF ~b.valid THEN {s}
        ELSE IF ~b.dirty THEN {invalid}
        ELSE IF Below[x] = "mem" THEN dl2_access_fn(Counted(invalid, x, "writebacks"), x, "Write", baddr, pc, FALSE)
        ELSE l1_access_fn(Counted(invalid, x, "writebacks"), x, "Write", baddr, pc, FALSE)

cache_flush(s, x, pc) ==
    LET forgotten == [s EXCEPT !.cache[x].last_tagset = 0, !.cache[x].last_blk = NULL]
        after[n \in 0 .. Len(Blocks(x))] ==
            IF n = 0 THEN {forgotten}
            ELSE UNION {FlushBlock(t, x, pc, Blocks(x)[n][1], Blocks(x)[n][2]) : t \in after[n - 1]}
    IN  after[Len(Blocks(x))]

FlushOrder == <<"dl1", "dl2">>

\* The system call itself accesses memory, through dl1 when nothing is flushed:
\* one access stands for the many it may make
Syscall(s, addr, pc) ==
    IF options.flush_on_syscalls
    THEN UNION {cache_flush(t, FlushOrder[2], pc) : t \in cache_flush(s, FlushOrder[1], pc)}
    ELSE UNION {AccessData(s, cmd, addr, pc) : cmd \in {"Read", "Write"}}

-----------------------------------------------------------------------------
(* sim_main *)

Execute(op) ==
    /\ sim.fault = "none" /\ sim_num_insn < Len(options.program)
    /\ sim_num_insn' = sim_num_insn + 1
    /\ inst' \in {i \in options.program[sim_num_insn'] : i.op = op}
    /\ UNCHANGED options

Other == Execute("other") /\ sim' \in Fetched(inst'.pc)

Load ==
    /\ Execute("load")
    /\ sim' \in UNION {AccessData(s, "Read", inst'.addr, inst'.pc) : s \in Fetched(inst'.pc)}

Store ==
    /\ Execute("store")
    /\ sim' \in UNION {AccessData(s, "Write", inst'.addr, inst'.pc) : s \in Fetched(inst'.pc)}

System ==
    /\ Execute("syscall")
    /\ sim' \in UNION {Syscall(s, inst'.addr, inst'.pc) : s \in Fetched(inst'.pc)}

Next == Other \/ Load \/ Store \/ System

Spec == Init /\ [][Next]_vars

-----------------------------------------------------------------------------
(* Properties *)

Blk(x, s, i) == sim.cache[x].blks[s][i]
Holds(x, addr) == Found(sim, x, addr) # {}
Demands(x) == sim.did[x]["hits"] + sim.did[x]["misses"]

\* A fast hit takes the block a search would take: the last block is the only
\* one that holds the address it was hit with, and with LRU it is the head of
\* its way list, so that there is indeed nothing to reorder.  No refill,
\* prefetch or flush since then has moved, taken or copied it
\* (cache.c:767-772 and 982).
FastHitIsSearch ==
    \A x \in Caches : LET c == sim.cache[x] IN
        c.last_blk # NULL =>
            LET s == CACHE_SET(x, c.last_tagset)
            IN  /\ {s} \X Found(sim, x, c.last_tagset) = {c.last_blk}
                /\ Config[x].policy = "LRU" => Head(c.way[s]) = c.last_blk[2]

\* The newest value of a word is never lost: until it is written to memory a
\* dirty block holds it, at the level it was last written to (cache.c:841-884,
\* 1057-1077 and sim-cache.c:732-738).
NoStoreLost ==
    sim.fault = "none" => \A w \in Words, x \in Caches :
        sim.newest[w] = x =>
            \E i \in Found(sim, x, w) : Blk(x, CACHE_SET(x, w), i).dirty

Valid(x) == Cardinality({b \in Sets(x) \X Ways(x) : Blk(x, b[1], b[2]).valid})

\* The statistics of an instruction add up: dl2 has seen exactly the misses and
\* the writebacks of the level above, every fill that is no replacement has
\* made a block valid and every invalidation one invalid
\* (cache.c:802-874 and 1064).
StatisticsBalance ==
    [][sim'.fault = "none" =>
          /\ Demands("dl2")' = sim'.did["il1"]["misses"] + sim'.did["dl1"]["misses"]
                               + sim'.did["il1"]["writebacks"] + sim'.did["dl1"]["writebacks"]
          /\ \A x \in Caches :
                Valid(x)' - Valid(x) = sim'.did[x]["misses"] + sim'.did[x]["prefetch_misses"]
                                       - sim'.did[x]["replacements"] - sim'.did[x]["invalidations"]]_vars

\* The buffer of the open-ended prefetcher holds the last addresses that were
\* put into it, in order and without a gap, however often it has slid: the
\* entry behind an address is the access that followed it (cache.c:615-623).
\* Address 0 is taken for an empty place and may be overwritten by its
\* successor: what was put in before it may then be one place too far back.
GhbIsHistory ==
    LET n == Len(sim.seen)
    IN  \A i \in 0 .. GHB_SIZE - 1 :
            IF i >= n THEN sim.ghb[i] = 0
            ELSE (\A j \in i + 1 .. n : sim.seen[j] # 0) => sim.ghb[i] = sim.seen[i + 1]

\* Whatever an entry of the reference prediction table has been through, three
\* equal strides of its PC in a row bring it to the steady state with that
\* stride; a PC that has just taken it starts afresh (cache.c:529-576).
SteadyAfterThree ==
    sim.rpt # NULL => \A i \in DOMAIN sim.rpt :
        LET w == sim.walk[i] IN
        /\ Len(w) = 4 /\ w[2] - w[1] = w[3] - w[2] /\ w[3] - w[2] = w[4] - w[3]
              => sim.rpt[i].state = "STEADY" /\ sim.rpt[i].stride = w[4] - w[3]
        /\ Len(w) = 2 => sim.rpt[i].state = (IF w[1] = w[2] THEN "STEADY" ELSE "TRANSIENT")
        /\ Len(w) = 1 => sim.rpt[i].state = "INIT" /\ sim.rpt[i].stride = 0

\* What the prefetcher of dl1 promises after an access: the next line, or the
\* next address with the stride it believes in
Predicted ==
    LET k == Config["dl1"]
        entry == IF k.prefetch_type = 2 THEN sim.rpt_open[inst.pc % RPT_SIZE]
                 ELSE sim.rpt[inst.pc % k.prefetch_type]
    IN  IF k.prefetch_type = 1 THEN {inst.addr + k.bsize}
        ELSE IF entry.state = "STEADY" \/ (k.prefetch_type # 2 /\ entry.state # "NO_PREDICTION")
        THEN {inst.addr + entry.stride}
        ELSE {}

\* The prefetcher of dl2 trains the static table that the one of dl1 uses
SharedTable ==
    \/ Config["dl1"].prefetch_type = 2 /\ Config["dl2"].prefetch_type = 2
    \/ Config["dl1"].prefetch_type > 2 /\ Config["dl2"].prefetch_type > 2

\* A prefetch brings in what is predicted, and does not push out what was asked
\* for when the sets have two ways and the order is LRU: a program that goes
\* on as the prefetcher expects does not miss, as mbq1.c says of the sequential
\* walk, whatever the fill of the prefetch evicted or wrote back
\* (cache.c:579-588, 675-680, 897 and 948).  Only when both levels train one
\* table may such a writeback change the prediction after the fact.
PrefetchesHelp ==
    inst # NULL /\ inst.op \in {"load", "store"} /\ sim.fault = "none" =>
        /\ Config["dl1"].prefetch_type # 0 /\ (SharedTable => sim.did["dl1"]["writebacks"] = 0)
              => \A a \in Predicted : Holds("dl1", a)
        /\ Config["dl1"].assoc > 1 /\ Config["dl1"].policy = "LRU" => Holds("dl1", inst.addr)

\* "access to same block" (cache.c:766): a fast hit has a block.
FastHitHasBlock == sim.fault # "NULL block"
=============================================================================
