# Verification of the ECE552 computer-architecture code

This directory holds TLA+ models of the repository's own programs, TLC
configurations that check them on small instances, and TLAPS proofs about them.

## 1. Inventory

The repository is a set of simulator extensions. Most of its files are the
vendored SimpleScalar suite (four copies), its tests and benchmarks, CACTI, and
reports. The code that is the repository's own, and SimpleScalar's cache module, which
it extends, is in ten places.

| Component | Source | State | Operations |
|---|---|---|---|
| MSI L1 controller | `MSI-cache.sm` | per block: state (4 stable, 7 transient), cache entry, TBE with `pendingAcks` | one transition per state and event; events come from the core, the forward network and the response network |
| MSI directory | `MSI-dir.sm` | per block: state, `Sharers`, `Owner`, data, TBE; memory queue | one transition per state and event; events come from requests, data of downgraded owners, memory |
| Tomasulo simulator | `simplesim-3.0d-assig3/tomasulo.c`, `instr.c` | instruction queue, reservation stations, functional units, common data bus, map table, `fetch_index`; in each instruction its `Q` tags and stage times | `CDB_To_retire`, `execute_To_CDB`, `issue_To_execute`, `dispatch_To_issue`, `fetch_To_dispatch`, called in this order every cycle |
| Instruction trace | `simplesim-3.0d-assig3/instr.c`, `sim-safe.c` 304-378 | a list of tables of a fixed size | `put_instr` per executed instruction; then `get_instr` for the timing simulator and `print_all_instr` |
| Caches | `simplesim-3.0d-assig4/cache.c` | per cache: blocks (tag, valid, dirty), way list and hash chains of each set, last hit, statistics | `cache_access`, `cache_probe`, `cache_flush`, `cache_flush_addr` |
| Prefetchers | `simplesim-3.0d-assig4/cache.c` 509-710 | reference prediction tables, global history buffer | `next_line_prefetcher`, `open_ended_prefetcher`, `stride_prefetcher`, each a `cache_access` within a `cache_access` |
| Cache simulator | `simplesim-3.0d-assig4/sim-cache.c` | the hierarchy | a fetch through `il1`, data accesses through `dl1`, miss handlers into `dl2`, two kinds of system call |
| Branch predictors | `cbp4-assign2/predictor.cc`, `main.cc` | 2-bit table; BHT and PHT; base table, tagged banks, global history, chosen bank `X` | `GetPrediction_*`, `UpdatePredictor_*`, called in turn by `main` |
| Load-use counter | `preassignment/.../sim-safe.c` 68-72, 402-431 | instruction at which each loaded register is ready, two counters | one update per executed instruction |
| RAW hazard counters | `asm1/.../sim-safe.c` 69-79, 430-476 | instruction at which each register is ready, counters, for two pipelines | one update per executed instruction |

How they interact. The L1 controllers and directories exchange messages over
three virtual networks (requests, forwards, responses) that are ordered from
sender to receiver only; the network, the message formats, the core's sequencer
and the memory controller are gem5/Ruby code outside the repository. The
Tomasulo simulator runs after the functional simulation, on the trace it left.
An access to a cache calls the miss handler, which accesses the next level, and
ends with a prefetch, which is such an access again. All three
predictors are asked about a branch before any of them learns its outcome. The predictors and hazard counters are passive and are called once per branch or
instruction.

Which behaviours are hard. In the protocol: every race between a request, an
eviction and a forwarded request for the same block; acknowledgements before
the data that counts them; stalls that hold up messages of other blocks; a
message in a state without a transition, which stops the simulator. In
Tomasulo: renaming with several outstanding writers of a register, broadcasts
that race with dispatch in the same cycle, arbitration for one bus, full
stations and queues, and ending exactly when the trace is used up. In the
caches: evictions, writebacks and prefetches nested in one access, a last hit that is used
without a search, lists linked twice over, flushes of one level through the other. In
the prefetchers: stale history, shared static tables. In
the predictors: index and tag recomputed between prediction and update, entries
that answer for other branches, shifts and trainings in the right order. Nothing
is persisted and nothing times out, so there is no crash, loss or retry.
`PROJECT.json` lists each hazard at its line.

What makes each component correct:

* protocol: single writer or many readers; a load returns the last store;
  directory books and sharers agree with the caches; no unexpected event, no
  assertion fails, no deadlock; every miss completes; all together, to the cores
  the caches are one atomic memory;
* Tomasulo: every operand waits for its last writer in program order and for no
  other instruction; one result per cycle; stations, units and queue are
  consistent and bounded; older instructions first; the simulation ends, and
  not before all work is done;
* caches: no store is lost, the last hit is still
  where it was, the statistics add up; the pointers of a set are a list in the
  order of the policy;
* prefetchers: the tables follow the last addresses of a PC and of the program; what they
  predict is there for the next access, and what was asked for has not given way to it;
* predictors: an update reaches the entry that made the prediction; two of them
  are tables of independent counters; useful entries are kept, mispredictions remembered, loops learned;
* hazard counters: no stall of the pipeline described is missed, none is counted twice,
  and each is in one of the two classes the CPI formulas use.

## 2. Modules

| Module | Models |
|---|---|
| `MSINetwork` | the three networks (`reqNet`, `fwdNet`, `rspNet`: a FIFO from each sender to each receiver), message types, block contents |
| `MSICache` | `MSI-cache.sm`: variables `cst`, `entry`, `tbe`; an operator per SLICC action, an operator per transition, one action per in-port (`L1Core`, `L1Forward`, `L1Response`) and the stall |
| `MSIDirectory` | `MSI-dir.sm`: variables `dst`, `sharers`, `owner`, `dblk`, `dtbe`, `memq`; `DirRequest`, `DirResponse`, `DirMemory` and the stall |
| `MSI` | the composition, fairness, all properties |
| `MSIAtomic` | the abstract specification: an atomic memory with read and write permissions |
| `MCMSI`, `MCMSIHomes` | instances for TLC |
| `MSIProofs` | theorems about `MSI`: types, books, allocation |
| `MSIProtocol` | the inductive invariant `MSIInv` of the protocol, block by block, on sets of messages |
| `MSIBlockProofs` | what each kind of transition does to one block keeps that block's invariant |
| `MSIProtocolProofs` | from channels to sets of messages; every action keeps `MSIInv`; coherence, accounting, refinement, expected events |
| `Tomasulo` | `tomasulo.c`, one action per stage function, and its properties |
| `MCTomasulo` | small programs for TLC |
| `TomasuloProofs` | theorems about `Tomasulo` and `InstrTrace` |
| `InstrTrace` | the trace tables of `instr.c`, as operators |
| `RawHazards` | the two hazard counters of asm1's `sim_main` beside the pipelines they stand for |
| `LoadUse` | the load-use counter of the pre-assignment's `sim_main`, on the same program as `RawHazards` |
| `MCRawHazards` | sample instructions for TLC |
| `RawHazardsProofs` | theorems about `RawHazards` and `LoadUse` |
| `CacheState` | the state of the caches and prefetchers, addresses and counters of `cache.c` |
| `Cache` | `cache_access` and its prefetchers, as operators on that state |
| `SimCache` | `sim-cache.c`: one action per kind of instruction, over `il1`, `dl1` and `dl2`; all properties |
| `MCSimCache` | command lines for TLC |
| `SimCacheProofs` | theorems about `SimCache`: all the properties of its run |
| `CacheSet` | one set of `cache.c` with its pointers: way list, hash chains, `cache_flush_addr` |
| `LruSet` | the abstract specification of `CacheSet`: a list of lines |
| `CacheSetProofs` | theorems about `CacheSet`: its lists, and that it implements `LruSet` |
| `SatCounter` | the saturating counters of `utils.h` |
| `TwoBitSat`, `TwoLevel`, `OpenEnd` | the three predictors of `predictor.cc` |
| `CounterTable` | the abstract specification of the first two: one counter for each context |
| `Cbp` | the loop of `main.cc` with all three predictors |
| `MCCbp` | loops of branches for TLC |
| `CbpProofs` | theorems about `Cbp` and its predictors |

Names follow the source: `e_sendDataFromCacheToRequestor` is the action of that
name, `L1_SM_AD_Inv` is `transition(SM_AD, Inv, IM_AD)`, `execute_To_CDB` the C
function. A definition marked *Fault* in its name or a comment is not part of a
specification: it is a slip the definition after it might have had, kept to show
that a property notices it.

### The protocol

A step of `MSI` is one transition of one controller: it takes the message at
the head of a buffer, changes the state, entry, TBE and books, and enqueues what
its actions send. Abstractions:

* *Contents.* A store writes the next version number modulo `Versions`
  (`StoreInto`), so that a stale copy differs from a fresh one; `written[a]` is
  a history variable with the contents the last store left.
* *Load and Ifetch* take the same transitions and are one event.
* *Buffers.* A `MessageBuffer` merges the channels of its senders, so a stalled
  head also blocks other senders. `fwdFront` and `reqFront` record which channel
  is at the head of such a buffer once its head has been found stalled
  (`L1Stall`, `DirStall`): until it is consumed no other forward, or request, is
  taken. A message that was never stalled is consumed in any order the
  network allows.
* *Ways.* `cacheAvail` compares the number of blocks present with `Ways` (one
  set). The victim is any block in a state that has a `Replacement` transition.
* *Left out:* the profiling calls, latencies, message sizes, functional access,
  the DMA declarations of the directory, which no transition uses, and
  `directory.invalidateBlock` in `setDirState` (`MSI-dir.sm:170`): it is Ruby's, and is taken to
  leave the contents alone, which the next fetch in `I` hands to the memory controller (`MSI-dir.sm:480`).
* *External:* message buffers, sequencer, memory controller (`memq` answers
  each read and write-back once, in any order) are modelled as the two `.sm` files
  use them.

The abstraction function of `Atomic` maps an L1 state to a permission: none,
read (`S`, `SM_AD`, `SM_A`) or write (`M`); the copy of a reader is its cache entry.

### The Tomasulo simulator

`stage` is the next call in the loop of `runTomasulo`. An instruction is its
index in the trace, 0 is `NULL`. Reservation stations and units are sets, because
no function tells slots apart; the sorts become "the oldest of". `r_in` and
`r_out` of 0 stand for `$r0` and `DNA`, which the tests `> 0` skip. The opcodes are
their classes: each of the 134 instructions of `pisa.def` is in exactly one. The
entry behind the trace is the zeroed memory of `put_instr`. `MaxCycle` bounds
the counter `cycle`; every run ends well before it, and `Terminates` would fail
if one did not.

`InstrTrace` is what stands behind the sequence `trace`: entry 0 of the first table is
skipped, a full table gets a successor, and readers divide the index or walk. `TraceIsTables` states
that `get_instr` of both modules agree and that `print_all_instr` prints it all. A trace that exactly fills its tables
has no entry behind its last one: there the assertion of `instr.c:75` stops the
program, which is the same overrun that `tom_fetch` shows for a zeroed entry.

### The hazard counters

`Execute(i)` is the body of the loop of `sim_main` for one instruction: its
operands, then for each question the search for a late operand (`Counted`), the
count (`Count`), the move of the register (`Reset`, question 1 only) and the new
distances (`Written`). The code knows instruction numbers only; `issue` and
`avail` are history variables with the cycles of the pipelines that the
question and the code's comments describe: in order, one instruction a cycle, a result
usable `Latency` cycles after its instruction, a store's value forwarded. Any
instruction of the constant `Instructions` may come next, so that every
program is covered; `MaxInsn` bounds `sim_num_insn`.

`LoadUse` extends the module: `BothNext` lets both simulators execute the same
instruction. They share nothing but the program and the instruction number, so what relates
their counters (`LoadUseStalls`) relates two programs written apart.

### The caches

`Cache` is written as operators that take the whole state `sim` and return the set of
states a call may leave, because one call of `cache_access` reaches through
both levels and starts a prefetch at each. The next level is the constant operator `blk_access_fn`, a function pointer
in the code, and `SimCache` instantiates the module once for each level. `SimCache` has one action per kind of instruction. History
variables inside `sim`: `newest` (who holds the newest value of a word), `did`
(what the statistics counted in this step), `walk` and `seen` (the addresses that
reached a table entry, and the history buffer). `options` is the command line, fixed
at the start: configurations, `-flush` and the program.

* *Addresses* count words of eight bytes, the size of an instruction; blocks have
  one or two words, caches one or two sets.
* *Address 0* marks an empty place of the history buffer: an access to it is put in like any other and
  overwritten by the next one, after which what came before it is one place too far back. `GhbIsHistory` says
  what is true of each place from the last such address on.
* *A shared table.* Two levels with the same kind of stride prefetcher train one table. A prefetch of `dl1` that
  writes a block back makes `dl2` train it again, so that the entry may predict something else by the time the
  access ends; `PrefetchesHelp` speaks of such hierarchies (`SharedTable`) only as long as nothing was written back.
* *Undefined behaviour* ends the simulation with a `fault`: a fast hit without a
  block, and an index behind the end of a stride table.
* *Random replacement* is a free choice. `FlushOrder`, the order of the fills
  and the early returns are the code's.
* *Left out:* latencies and the bus, block data, TLBs, hierarchies other than
  the repository's (split first level, unified second), printing and options. Each load or store is one
  access to `dl1`, while some instructions (`DLW`, `SWL` and their like) make two; addresses are not compressed
  (`IACOMPRESS`) and do not wrap at 32 bits.

`CacheSet` has what `Cache` abstracts from: the way list linked in both
directions, with the four cases of `update_way_list`, the chains of a hashed set and the
assertions and panics on them. `LruSet` is a sequence of lines; the refinement maps the list to it
from head to tail, as long as the blocks are valid. The history variable `call`, the operation and its tag, belongs to
both modules: what happens to the lines has to be what this call asks for, so that a read hit which fails to move its
line is no stuttering step but a wrong one. Three ways are the fewest with a head, a middle and a tail;
`cache_create` wants a power of two, which only the mask of the random choice
uses, and random replacement is not in this module. A set is hashed from five ways on
in the code, as the eight-way second level of the repository's
configurations is; here the table size is a parameter, 0 for none.

### The predictors

`predictor.cc` with its table sizes and widths as parameters. The hash functions of the
open-ended predictor keep their shape bit by bit, its shift by four bytes
instead of three included (`HistoryTag`); `rand()` is a free choice. `X`, the static
that carries the bank from prediction to update, is a variable. `Cbp` asks and updates them in the
order of `main`, one call a step. Its trace is any prefix and then one loop for ever, so that
"is learned" can be said without fairness: `numMispred` counts up to a bound
(`MaxMispred`), and the properties say how far it gets in the loop. These bounds are those of the code's tables: two mispredictions
for each two-bit counter, one for each bit of history that is still from before the loop, and for the
tagged predictor one for each bank and four for the counter in the last.

The first two predictors implement `CounterTable`. An abstract branch has the
context it was met in; for the two-level predictor this is its pattern table and the last
outcomes of its row, kept in the history variable `outcomes`. The mapping shows that
prediction and training use the counter of that context and of no other.

## 3. Runs

| Run | Instance | Checks | Distinct states |
|---|---|---|---|
| `msi_core` | 3 caches, 1 block, 1 directory, 3 versions | ten invariants, and `ImplementsAtomicMemory` | 128 thousand |
| `msi_blocks` | 2 blocks, 1 directory, with 3 caches that have one way for them, or 4 in-order storing cores | `NeverWedged` | 318 thousand |
| `msi_two_homes` | the four cores with a directory per block | `NeverWedged` **fails** | - |
| `msi_fair` | 3 caches, 1 block, fairness | `MissesComplete` | 43 thousand |
| `tom` | all programs of up to 4 instructions of 6 classes, and of 5 that all need a unit; tables of 3; fairness | nine invariants, and `Terminates` | 157 thousand |
| `tom_fetch` | programs of up to 3 instructions with traps | `FetchWithinTrace` **fails** | - |
| `raw_count` | all programs of 7 out of 9 instructions, 2 registers, both simulators | two invariants, `NoHazardMissed`, `LoadUseStalls` | 95 thousand |
| `raw_propagate` | the same, 4 instructions | `StallsPropagate` **fails** | - |
| `sc` | four command lines, programs of 10, 7, 6 and 6 instructions | five invariants, and `StatisticsBalance` | 125 thousand |
| `sc_null` | a stride prefetcher, loads of two addresses | `FastHitHasBlock` **fails** | - |
| `set_lists` | one set of 3 ways, 4 tags, hashed and not, LRU and FIFO | `ListsWhole`, and `ImplementsLruSet` | 182 thousand |
| `cbp` | 3 branches, any prefix of 3 and then one of 16 loops | three invariants, `AreCounterTables`, `MispredictionEntered` | 404 thousand |

*Why the bounds are enough.* Three caches are needed for every race of the
protocol to occur with a bystander: an owner or sharer, a requestor and a
second requestor, one of which evicts. Three versions tell the last contents, the
ones before and older ones apart. With one way and two blocks a miss has to
evict the other block first, and a stalled head stands in front of
a message for another block. `msi_blocks` has two scenarios with the same two ways: in
one, three caches already share a third block that nobody touches any more; in the other the caches are empty. Two
blocks and four cores are the smallest instance in which stalls can form a cycle. `msi_core` and `msi_fair` have one
block, so that only stalls of its own messages hold a miss up; stalls across blocks are the matter of `msi_blocks`, with
`NeverWedged`. That every miss completes is not checked for them: with three caches and a second block the
search for fair cycles takes too long. The caches are symmetric (no definition orders them), so the safety runs use their permutations; `msi_fair` uses none.
In the Tomasulo runs five instructions fill a queue of two, all stations, all units and
the bus at once; two registers give write-after-write, read-after-write over two
writers and an instruction that reads what it writes. Latencies of 2 and 3
let results of different units collide on the bus. A register is at most three
instructions ahead, so seven instructions let three stalls overlap; the theorems of
`RawHazardsProofs` have no bound.
In `sc` the caches have two or three blocks and the programs four addresses, so
that every access may evict, write back and evict again one level below; a history of
three slides, the two PCs of the stride prefetcher share an entry, and one command line has two levels that
share a table. In
`set_lists` there are more tags than blocks, and no bound on the accesses. In `cbp` two branches
share each entry of the tables, banks have two entries and tags one bit, so
that branches answer for one another; loops of one branch and up to three outcomes are
all there are within the history of three.

*Deadlock* is checked everywhere except in the runs of `MCMSIHomes`, whose
storing cores may stop when they have stored, and of `MCRawHazards` and
`MCSimCache`, where the program may end.

*Fairness.* Ruby wakes a controller again as long as a buffer of it is not
empty, and the network delivers every message after a finite delay. Each
response and each memory answer is always consumable, so weak fairness of its
consumption says just this. A request or forward may wait behind a stalled one:
strong fairness of each channel's consumption says that a message that can be
taken again and again finally is, which first-in-first-out buffers
guarantee. Nothing is assumed of the cores: they may stop issuing. `FairSpec` of
`Tomasulo` is weak fairness of the whole next-state relation: a sequential loop
keeps running.

*Findings.* (1) `msi_two_homes`: with more than one directory, which
`MSI-cache.sm:359` expects, `z_stall` can wedge the protocol. Forwards from two
homes reach two owners in opposite orders, each owner stalls the request for the
block it is still waiting for in front of the one that the other needs. With one
home the forwards are sent in the order of the books and this cannot happen
(`msi_blocks`). (2) `tom_fetch`: the loop in `fetch` that skips system calls
does not look at the end of the trace. (3) `raw_propagate`: `sim-safe.c:443` of
asm1 says that a hazard is not counted again once its stall has been waited
for, but the code moves only the register it counted; an instruction with two late
operands leaves the other one to be counted a second time. The counter errs to
one side only: `NoHazardMissed` holds. (4) `sc_null`: `cache_access` compares
the block address with `last_tagset`, which is 0 when there was no last hit. An access
to block 0 then takes the fast path with a NULL block; a stride prefetcher that walks
downwards makes that access.

Two more observations have no run. The table of the stride prefetcher is static, with the size the first
cache asked for, and a second cache with a larger number indexes behind its
end (`cache.c:663`; the model has it as a fault, and the command lines checked have stride prefetchers of one
size, as the repository's configurations do). And `sim-cache.c:295` offers `'n'-NRU`, which
`cache_char2policy` does not know.

## 4. Proofs

All theorems hold for every value of the constants the named assumptions allow:
any numbers of caches, directories and blocks, any trace, any table sizes. Before an
invariant was proved TLC checked it on the instance of the component's run; `MSIInv`
for example on three caches and one block.

### The protocol

From `NetworkAssumption` (finitely many caches, homes are directories, at least
one version) and `WaysAssumption`. `MSIProofs` has what does not depend on the messages under way:

* `TypeCorrect`: `Spec => []TypeOK`. One lemma per port shows that a transition
  keeps types; the networks' lemmas `SendType`, `MulticastType`, `PopType` are
  stated once for any message set. The finiteness of the set of caches makes
  `Cardinality` a number, so that acknowledgement counts are integers.
* `BooksCorrect`: `Spec => []DirBooks`. The assertions of `setState` speak only
  of `M` and `I`, and are not inductive: whether `M` has one owner depends on how the
  transient states were entered. `DirBooks` gives the books of all eight
  states. The delicate step is `PUTS_Last`, the event for a put of the last
  sharer, where the directory goes to `I` without clearing the list: `LastSharer`
  shows by cardinality that the requestor is the only one left.
* `DirectoryAssertsHold`: `Spec => []DirectoryAsserts` follows.
* `AllocationCorrect`: `Spec => []AllocationMatchesState`. `L1Allocs` and
  `DirAllocs` are inductive together with the types: each transition that enters or leaves a
  transient state allocates or frees exactly the buffer the new state needs.

`MSIProtocol` states why the protocol is coherent, `MSIInv`: types, facts about
channels (no message twice; a writeback acknowledgement is the last message about its block in
its channel, the only order the protocol needs), and for each block `BlockInv`:

* *One place* (`OneRequest`, `OneForward`, `OneData`, `OnePlace`): the one transaction a
  cache has for a block is a request, a memory request, a forward or an answer, and
  `RequestFits`, `PlaceFits` say in which states of cache and directory.
* *The record* (`RecordFits`): what the directory has written down of a cache, changed by what it has
  sent since, fits the state of the cache. `Shares` and `Owns` are that sum for a sharer and an owner.
* *The holder* (`OneHolder`, `OneReturn`): at most one cache may write, or is on its way there, and
  while the directory waits for a downgraded owner there is just one such owner or its data.
* *Others* (`Invalidations`, `Balance`): whoever else can read is being invalidated, and
  `pendingAcks` minus the count still under way is the number of caches the holder waits for.
* *Contents* (`Values`) and *memory* (`Waiting`).

`ProtocolInvariant` is `Spec => []MSIInv`. `MSIBlockProofs` proves it without any channel: a
lemma per kind of transition (`InvKeeps`, `HandOnKeeps`, `GrantKeeps`, ...) says that its effect
on the sets of one block keeps `BlockInv`. `MSIProtocolProofs` shows that enqueueing
and dequeueing have that effect on the sets and leave the other blocks alone, and that each action
is one of these transitions. From the invariant follow

* `SingleWriterHolds`, `LastWriteSeen`, `MemoryMatches`, `ReadersTracked`: the coherence
  properties of the run `msi_core`;
* `AcksAccounted`: `AckBalance` counts places in channels, the invariant caches awaited;
  `InvsCounted` and `AcksCounted` give the bijection;
* `AtomicMemoryImplemented`: `Spec => ImplementsAtomicMemory`. Between two coherent states each
  step is a step of `MSIAtomic` or changes neither rights, copies nor the last store;
* `EventsAreExpected`: `Spec => []EventsExpected`. `NoUnexpectedEvent` is split: `EventsExpected`
  says that the message in front of each port meets a state that has a transition for its event,
  and is proved; that these pairs are those whose transitions can be taken
  (`TransitionsExist`) is a matter of `ENABLED` and left to TLC. The proof needs two facts more,
  `DataInvariant`: a load is sent no acknowledgement count, and no upgrade is answered by an
  owner, for which `SM_AD` has no transition.

### Tomasulo

From `TomasuloAssumption`. `IInv` is the conjunction of all the
safety properties with what makes them inductive: the queue holds in program order just what was
fetched and not dispatched (`QueueInOrder`), where an instruction is tells which of its stamps are set
(`Progress`), no stamp is in the future and the result on the bus is that of this
cycle (`StampsInOrder`). One lemma per stage function. `QNamesLastWriter` holds over `dispatch_To_issue` because
the map table names the youngest outstanding writer and dispatch is in program order; a
writer that is not outstanding has broadcast, which is what `RAWRespected` wants of a free operand.
`OneResultPerCycle` needs `StampsInOrder`: a second result of this cycle would have to be on the same bus.
Nine theorems: `TomasuloTyped`, `UnitsMatchStations`, `MapTableCorrect`,
`TagsCorrect`, `ReadAfterWrite`, `OneBus`, `OldestFirst`, `DoneIsFinished`,
`TraceInTables`.

`TraceInTables` is about what `put_instr` does to a list of tables. `TablesAfter` says in closed form what `n` calls leave: entry `i` of
all the tables together is instruction `i`, the tables before the last are full. `PutNext` shows that a call takes this form to the next, in a
table of its own when the last one is full; `TracedInTables` and `PrintsAll` follow the loops of `sim_main` and `print_all_instr`
by induction over the instructions (`Counting`). That two ways to an entry are the same is arithmetic of quotient and remainder (`OnePlaceEach`). The one
assumption on the size of a table, that it is more than one, is `print_all_instr`'s, which starts at entry 1.

### Hazard counters

From `RawHazardsAssumption`, for any program:

* `CountersTyped`: `Spec => []TypeOK`, and `NoThirdClass`: `Spec => []ClassesAddUp`.
* `NoneMissed`: `Spec => NoHazardMissed`. The inductive invariant behind it is
  `Pessimistic`: a register the pipeline still waits for is at least as many
  instructions ahead in the counters as it is cycles ahead in the pipeline. It says that no stall is left
  uncounted and nothing of its length: a stall of two cycles may be counted in the class of one. A
  stall only brings the pipeline closer, and the one register question 1 moves
  is one the pipeline has just waited for (`ExecuteIInv`, `<1>7`).
* `LoadUseAgree`: `BothSpec => LoadUseStalls`. `LoadsAgree`: a register is being loaded in the counter of the
  pre-assignment exactly when the pipeline with forwarding would stall two cycles for it.

### Predictors

From `CbpAssumption`:

* `LongestMatchHolds`: `PredictionInvariant` says that from the prediction to the update the tables, the history
  and `X` stand, so that hashing again finds the same entry.
* `MispredictionIsEntered`: an action property, from the same invariant: what the update enters, and in
  whose place, is decided with the tag and index the prediction had.
* `PredictorsAreCounterTables`: both refinements of `CounterTable`. For the two-level predictor
  the invariant is that the shifted and masked number of each BHT row spells its last outcomes (`RowsSpell`); two
  sequences that spell the same number are the same, so that contexts do not share counters.
  The powers of two of `SatCounter` are a recursive function (`Pow2`) for the sake of these proofs. The library's induction
  theorems take operators as parameters, which no installed prover can instantiate; `CbpProofs` states
  `Induction` for a set of naturals and `Recursion` for a step that is a function, and proves both.
* `LoopsLearned`, `OneWayLearned`: bounds on the mispredictions of a loop, whatever was met before it. Each invariant says that the mispredictions
  so far and those still to come are together no more than the bound.
  * Two-bit: what is to come is read off the counters of the loop's branches (`Wrong`, `ToGo`): a misprediction trains one of them, and
    other branches of the loop train it the same way.
  * Two-level: the row of the branch first fills with outcomes of the loop (`Follows`), one misprediction at most for each. Then it spells the
    last outcomes at this place of the loop (`Hist`). As the pattern is no longer than the history, what comes next follows from these, so
    each context is always trained to the same outcome, and there are no more contexts than places.
  * Tagged: the history first fills with one outcome (`Steady`). From then on every bank hashes the branch to the same entry each time, and a misprediction
    either enters it in a longer bank or trains its counter in the last one (`Left`). That nothing
    makes it fall back to a shorter bank is `LongestMatch`.

### Cache sets

From `CacheSetAssumption`, for any number of ways, tags and buckets, and for both policies. `IInv` says that
the way list, read off `way_next` and `way_prev`, lists every block once in both directions (`Listed`), that each bucket's chain
holds just the blocks whose tag belongs there (`Whole`), and three facts about lines that the lists alone do not give:
no two lines have the same tag, freed blocks are behind all lines (`FreedLast`), and the block of the last hit
is still a line, under LRU the first one (`LastHitFirst`).

* `ListsStayWhole`: `Spec => []ListsWhole`. `HeadMove` and `TailMove` say which list the four cases of
  `update_way_list` leave, `TakenOut` and `PutInFront` what the two chain operations leave; `ChainIs`, by induction
  along the links, that a walk over them reads that list. No assertion fails because the replaced block is found in
  the chain of its old tag.
* `LruSetImplemented`: `Spec => ImplementsLruSet`. The last-hit shortcut does not touch the way list: that this is the
  hit of `LruSet` that `call` asks for, which moves the line to the front, is `LastHitFirst`. A miss finds the tail: it is the last line
  when all blocks are valid and a freed one otherwise by `FreedLast`.

### The cache simulator

From `SimCacheAssumption`: any numbers of sets and ways, any block sizes that divide as `sim-cache` demands, any of the three
prefetchers at any level, any sizes of their tables, any words and any program over them. Six theorems, one for each property of the run `sc`:
`FastHitTheorem`, `NoStoreLostTheorem`, `PrefetchesHelpTheorem`, `GhbTheorem`, `SteadyTheorem`, `StatisticsTheorem`.

One instruction is a nest of calls: an access may evict a dirty block into the next level, where the write may evict another one and
starts a prefetch, before the access is over and starts its own. The properties are about the state between two
instructions, the argument has to be about every state in between. `IInv` says that the command line is one of the `Options` and that `SimInv`
holds of `sim` and `inst`:

* `Good` holds of every state inside an instruction, after a fault as well: types; in each cache no block is named twice by a way list
  (`InOrder`), no two valid blocks of a set have the same tag (`Unique`), and the last hit, if there is one,
  is the block that a search for its address finds, under LRU the head of its list (`LastHit`);
  the tables of the prefetchers agree with the addresses that reached them (`TablesOK`).
* `Safe`: the newest value of each word is where it is said to be, in a dirty block (`Kept` at both levels). Inside a call this fails for
  a moment, for the words of a block just evicted; these are the argument `words` of `Kept`.
* `Promised`: what `PrefetchesHelp` says, which is about the last instruction alone.

What a call does is a relation between the states before and after it, and each relation follows from those of the calls inside:
`Lower` for the write-back of an evicted block (`LowerFirst`), `Accessed` for `cache_access` up to its prefetch (`AccessFirst`: fast hit,
hit, or `FillFirst`), `Called` for all of it (`CallFirst`), `Stepped` for a part of an instruction (`FetchStepped`, `DataStepped`, `SyscallStepped`). The module
`Cache` is instantiated once for each level, so that the second level's lemmas (`CallSecond`) come first and the first level's
use them. Each relation carries a part for the blocks and newest values, one for the statistics (`Net`: the valid blocks minus what the counters say
of them; `Flow`: the accesses of `dl2` minus the misses and writebacks of `x`), and one for the tables, which a call leaves alone unless its
prefetcher trains them (`Trained`).

* *Prefetches.* `Due` and `NoneDue` say what `generate_prefetch` asks for. The prefetch itself is an access, so that `Accessed` gives its address; that it does not push
  out the address asked for before is the last conjunct of `Accessed`: with two ways and LRU the head of a list is no victim.
* *Flushes.* `cache_flush` goes over all blocks of a cache; `FlushStepped` is an induction over them in the code's order (`FlushPath`), for the set of
  naturals on which it holds (`Counting`, proved from `LeastOf`). A dirty block is gone from its cache before it is written to the next level, which is what `InvalidLeft` allows for.
* *Counting.* The number of valid blocks is a cardinality; `CountMore` and `CountLess` say that one block makes a difference of one.

The proof showed three things of the properties. `NoStoreLost` says nothing after a fault, because a fault leaves an access half done. `GhbIsHistory`
had to take address 0 into account, and `PrefetchesHelp` a table that two levels share; the text on the caches in section 2 says how, and `MCSimCache` has a
command line for the second.

### What is only model-checked

Of the properties of the passing runs, `MissesComplete`, `Terminates` and `NeverWedged`, and the half `TransitionsExist` of
`NoUnexpectedEvent`. They are liveness under fairness or speak of `ENABLED`, which are out of the prover's
reach.

## 5. Plan

The models are complete as far as section 6 says, and every property of the passing runs but those of the last
paragraph has a proof. What remains is to follow the code when it changes.

An abstract dataflow machine for `Tomasulo` was considered and left out: `RAWRespected`,
`OneResultPerCycle` and `DoneMeansFinished` already say all that it would.

## 6. Not modelled

* *The SimpleScalar suite* (four copies of it make nearly all of the
  repository's C code): third-party. Of it the caches are modelled, as the
  repository's prefetchers live inside them. The rest - loaders, memory,
  system calls, statistics, the debugger, `sim-outorder`, cross-target files -
  is not the repository's own, and none of its code depends on it but through `sim_main`.
  For the same reason the modelled share of all lines stays small, and cannot be
  raised without modelling vendored code.
* *Executing instructions* (`machine.def`): third-party. Programs are any
  sequence of instructions instead.
* *Branch trace reader* (`tracer.cc`): supplied input code without state that matters.
* *Latencies, bus and TLBs* of `sim-cache`: configured away or ignored by the simulator (it says
  "access latency, ignored").
* *Microbenchmarks, CACTI, reports:* straight-line programs, a binary, PDF.
