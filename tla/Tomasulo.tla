------------------------------ MODULE Tomasulo ------------------------------
(***************************************************************************)
(* The timing simulator of tomasulo.c: a trace of executed instructions is *)
(* run through an instruction queue, reservation stations, functional      *)
(* units and one common data bus.  One action models one stage function;   *)
(* stage is the next call in the loop of runTomasulo.                      *)
(*                                                                         *)
(* An instruction is its position in the trace (its index), a NULL pointer *)
(* is 0.  The code scans reservation stations and functional units slot by *)
(* slot but never tells slots apart, so they are sets of instructions; the *)
(* instruction queue is a sequence, oldest first.                          *)
(*                                                                         *)
(* A definition marked "Fault" is no part of the specification: it is the  *)
(* definition after it with a plausible slip, and shows that the property  *)
(* it names would notice the slip.                                         *)
(***************************************************************************)
EXTENDS Integers, Sequences, FiniteSets

CONSTANTS
    Programs,           \* the traces to simulate: sequences of Instruction
    Regs,               \* architected registers that create dependences
    INSTR_QUEUE_SIZE,
    RESERV_INT_SIZE, RESERV_FP_SIZE,
    FU_INT_SIZE, FU_FP_SIZE,
    FU_INT_LATENCY, FU_FP_LATENCY,
    INSTR_TRACE_SIZE,   \* entries of a table of the instruction trace
    MaxCycle            \* the bound of the model on cycle; runs end well before it

(* r_in and r_out hold register numbers; 0 stands for $r0 and for DNA (-1), *)
(* which the r > 0 tests of dispatch_To_issue skip.                         *)
Op == {"ICOMP", "FCOMP", "LOAD", "STORE", "UNCOND", "COND", "TRAP", "NA"}
Instruction == [op : Op, r_in : [0 .. 2 -> Regs \union {0}], r_out : [0 .. 1 -> Regs \union {0}]]

ASSUME TomasuloAssumption ==
    /\ Regs \subseteq Nat \ {0}
    /\ Programs \subseteq Seq(Instruction)
    \* sim_main runs the timing simulator on what it has executed
    /\ <<>> \notin Programs
    /\ INSTR_QUEUE_SIZE \in Nat \ {0}
    /\ RESERV_INT_SIZE \in Nat \ {0} /\ RESERV_FP_SIZE \in Nat \ {0}
    /\ FU_INT_SIZE \in Nat \ {0} /\ FU_FP_SIZE \in Nat \ {0}
    /\ FU_INT_LATENCY \in Nat \ {0} /\ FU_FP_LATENCY \in Nat \ {0}
    /\ MaxCycle \in Nat \ {0}
    \* print_all_instr starts at entry 1 of the first table without asking if
    \* there is one
    /\ INSTR_TRACE_SIZE \in Nat \ {0, 1}
    \* a store of the PISA target names no output (pisa.def), and a program
    \* holds no opcode without a class
    /\ \A p \in Programs : \A i \in DOMAIN p :
           /\ p[i].op # "NA"
           /\ p[i].op = "STORE" => p[i].r_out = [k \in 0 .. 1 |-> 0]

VARIABLES
    trace,              \* the instruction trace
    stage, cycle,       \* the next call, and the cycle, of runTomasulo
    fetch_index,        \* the last instruction fetched
    instr_queue,
    reservINT, reservFP,
    fuINT, fuFP,
    commonDataBus,
    map_table,          \* map_table[r]  the producer of register r
    Q,                  \* Q[i][k]       the producer instruction i waits for
    tom_dispatch_cycle, tom_issue_cycle, tom_execute_cycle, tom_cdb_cycle

times == <<tom_dispatch_cycle, tom_issue_cycle, tom_execute_cycle, tom_cdb_cycle>>
vars == <<trace, stage, cycle, fetch_index, instr_queue, reservINT, reservFP, fuINT, fuFP,
          commonDataBus, map_table, Q, times>>

NULL == 0
sim_num_insn == Len(trace)

\* The entry behind the last instruction: put_instr clears the trace's memory
Zeroed == [op |-> "NA", r_in |-> [k \in 0 .. 2 |-> 0], r_out |-> [k \in 0 .. 1 |-> 0]]
get_instr(i) == IF i \in DOMAIN trace THEN trace[i] ELSE Zeroed
Entries == 1 .. sim_num_insn + 1

IS_CTRL(i) == get_instr(i).op \in {"UNCOND", "COND"}
IS_STORE(i) == get_instr(i).op = "STORE"
IS_TRAP(i) == get_instr(i).op = "TRAP"
USES_INT_FU(i) == get_instr(i).op \in {"ICOMP", "LOAD", "STORE"}
USES_FP_FU(i) == get_instr(i).op = "FCOMP"
WRITES_CDB(i) == get_instr(i).op \in {"ICOMP", "LOAD", "FCOMP"}

Init ==
    /\ trace \in Programs
    /\ stage = "CDB_To_retire" /\ cycle = 1
    /\ fetch_index = 0
    /\ instr_queue = <<>>
    /\ reservINT = {} /\ reservFP = {}
    /\ fuINT = {} /\ fuFP = {}
    /\ commonDataBus = NULL
    /\ map_table = [r \in Regs |-> NULL]
    /\ Q = [i \in Entries |-> [k \in 0 .. 2 |-> NULL]]
    /\ tom_dispatch_cycle = [i \in Entries |-> 0]
    /\ tom_issue_cycle = [i \in Entries |-> 0]
    /\ tom_execute_cycle = [i \in Entries |-> 0]
    /\ tom_cdb_cycle = [i \in Entries |-> 0]

Goto(from, to) == stage = from /\ stage' = to
Stamp(f, S) == [i \in DOMAIN f |-> IF i \in S THEN cycle ELSE f[i]]

-----------------------------------------------------------------------------

\* Fault (MapTableNamesLastWriter): the registers of the finished instruction
\* are cleared even when a younger instruction writes them too
CDB_To_retire_clears_outputs ==
    /\ Goto("CDB_To_retire", "execute_To_CDB")
    /\ cycle < MaxCycle
    /\ Q' = [i \in DOMAIN Q |->
                 [k \in 0 .. 2 |-> IF Q[i][k] = commonDataBus THEN NULL ELSE Q[i][k]]]
    /\ map_table' = [r \in Regs |->
                         IF commonDataBus # NULL /\ \E k \in 0 .. 1 : get_instr(commonDataBus).r_out[k] = r
                         THEN NULL ELSE map_table[r]]
    /\ commonDataBus' = NULL
    /\ UNCHANGED <<trace, cycle, fetch_index, instr_queue, reservINT, reservFP, fuINT, fuFP, times>>

\* Fault (Terminates): the loop over the floating-point stations is missing
CDB_To_retire_only_int ==
    /\ Goto("CDB_To_retire", "execute_To_CDB")
    /\ cycle < MaxCycle
    /\ Q' = [i \in DOMAIN Q |->
                 [k \in 0 .. 2 |-> IF i \in reservINT /\ Q[i][k] = commonDataBus
                                   THEN NULL ELSE Q[i][k]]]
    /\ map_table' = [r \in Regs |->
                         IF map_table[r] = commonDataBus THEN NULL ELSE map_table[r]]
    /\ commonDataBus' = NULL
    /\ UNCHANGED <<trace, cycle, fetch_index, instr_queue, reservINT, reservFP, fuINT, fuFP, times>>

\* The result on the bus reaches the waiting stations and the map table
CDB_To_retire ==
    /\ Goto("CDB_To_retire", "execute_To_CDB")
    /\ cycle < MaxCycle
    /\ IF commonDataBus = NULL
       THEN UNCHANGED <<Q, map_table>>
       ELSE /\ Q' = [i \in DOMAIN Q |->
                        IF i \in reservINT \union reservFP
                        THEN [k \in 0 .. 2 |-> IF Q[i][k] = commonDataBus THEN NULL ELSE Q[i][k]]
                        ELSE Q[i]]
            /\ map_table' = [r \in Regs |->
                                IF map_table[r] = commonDataBus THEN NULL ELSE map_table[r]]
    /\ commonDataBus' = NULL
    /\ UNCHANGED <<trace, cycle, fetch_index, instr_queue, reservINT, reservFP, fuINT, fuFP, times>>

\* Instructions whose functional unit is done
Executed == {i \in fuINT : tom_execute_cycle[i] + FU_INT_LATENCY <= cycle}
            \union {i \in fuFP : tom_execute_cycle[i] + FU_FP_LATENCY <= cycle}

Oldest(S) == {i \in S : \A j \in S : i <= j}

\* Fault (OneResultPerCycle): non_store_found is never set
execute_To_CDB_no_arbiter ==
    /\ Goto("execute_To_CDB", "issue_To_execute")
    /\ LET results == {i \in Executed : ~IS_STORE(i)}
       IN  /\ commonDataBus' = IF results = {} THEN commonDataBus
                               ELSE CHOOSE i \in results : \A j \in results : j <= i
           /\ tom_cdb_cycle' = Stamp(tom_cdb_cycle, results)
    /\ reservINT' = reservINT \ Executed /\ fuINT' = fuINT \ Executed
    /\ reservFP' = reservFP \ Executed /\ fuFP' = fuFP \ Executed
    /\ UNCHANGED <<trace, cycle, fetch_index, instr_queue, map_table, Q,
                   tom_dispatch_cycle, tom_issue_cycle, tom_execute_cycle>>

\* Fault (StationsMatchUnits): a finished store keeps its station
execute_To_CDB_store_stays ==
    /\ Goto("execute_To_CDB", "issue_To_execute")
    /\ LET winner == Oldest({i \in Executed : ~IS_STORE(i)})
       IN  /\ commonDataBus' = IF winner = {} THEN commonDataBus ELSE CHOOSE i \in winner : TRUE
           /\ tom_cdb_cycle' = Stamp(tom_cdb_cycle, winner)
           /\ reservINT' = reservINT \ winner /\ reservFP' = reservFP \ winner
           /\ fuINT' = {i \in fuINT \ winner : ~(IS_STORE(i) /\ i \in Executed)}
           /\ fuFP' = fuFP \ winner
    /\ UNCHANGED <<trace, cycle, fetch_index, instr_queue, map_table, Q,
                   tom_dispatch_cycle, tom_issue_cycle, tom_execute_cycle>>

\* All finished stores leave, and of the others the oldest takes the bus
execute_To_CDB ==
    /\ Goto("execute_To_CDB", "issue_To_execute")
    /\ LET stores == {i \in Executed : IS_STORE(i)}
           winner == Oldest(Executed \ stores)
           left == stores \union winner
       IN  /\ commonDataBus' = IF winner = {} THEN commonDataBus ELSE CHOOSE i \in winner : TRUE
           /\ tom_cdb_cycle' = Stamp(tom_cdb_cycle, winner)
           /\ reservINT' = reservINT \ {i \in left : USES_INT_FU(i)}
           /\ fuINT' = fuINT \ {i \in left : USES_INT_FU(i)}
           /\ reservFP' = reservFP \ {i \in left : USES_FP_FU(i)}
           /\ fuFP' = fuFP \ {i \in left : USES_FP_FU(i)}
    /\ UNCHANGED <<trace, cycle, fetch_index, instr_queue, map_table, Q,
                   tom_dispatch_cycle, tom_issue_cycle, tom_execute_cycle>>

\* Instructions of station set reserv with all operands, not yet executing
Ready(reserv) == {i \in reserv : tom_execute_cycle[i] = 0 /\ \A k \in 0 .. 2 : Q[i][k] = NULL}

\* Fault (OlderExecutesFirst): the sort is the other way round
FirstOf_youngest(S, n) == {i \in S : Cardinality({j \in S : j > i}) < n}

\* The n oldest members of S, or all of them
FirstOf(S, n) == {i \in S : Cardinality({j \in S : j < i}) < n}

\* Ready instructions enter the free functional units, oldest first
issue_To_execute ==
    /\ Goto("issue_To_execute", "dispatch_To_issue")
    /\ LET int == FirstOf(Ready(reservINT), FU_INT_SIZE - Cardinality(fuINT))
           fp == FirstOf(Ready(reservFP), FU_FP_SIZE - Cardinality(fuFP))
       IN  /\ fuINT' = fuINT \union int
           /\ fuFP' = fuFP \union fp
           /\ tom_execute_cycle' = Stamp(tom_execute_cycle, int \union fp)
    /\ UNCHANGED <<trace, cycle, fetch_index, instr_queue, reservINT, reservFP, commonDataBus,
                   map_table, Q, tom_dispatch_cycle, tom_issue_cycle, tom_cdb_cycle>>

\* Fault (TypeOK): the floating-point stations are not checked
Hazard_int_only(i) == USES_INT_FU(i) /\ Cardinality(reservINT) = RESERV_INT_SIZE

\* No station is free for instruction i
Hazard(i) ==
    \/ USES_INT_FU(i) /\ Cardinality(reservINT) = RESERV_INT_SIZE
    \/ USES_FP_FU(i) /\ Cardinality(reservFP) = RESERV_FP_SIZE

\* Fault (QNamesLastWriter): the outputs enter the map table first
ReadMap_after_write(i) ==
    [k \in 0 .. 2 |->
        LET r == get_instr(i).r_in[k]
        IN  IF r > 0
            THEN IF \E l \in 0 .. 1 : get_instr(i).r_out[l] = r THEN i ELSE map_table[r]
            ELSE Q[i][k]]

\* Fault (RAWRespected): the third operand is forgotten
ReadMap_two_operands(i) ==
    [k \in 0 .. 2 |->
        LET r == get_instr(i).r_in[k] IN IF r > 0 /\ k < 2 THEN map_table[r] ELSE Q[i][k]]

\* The producers instruction i has to wait for, and the map table it leaves
ReadMap(i) ==
    [k \in 0 .. 2 |-> LET r == get_instr(i).r_in[k] IN IF r > 0 THEN map_table[r] ELSE Q[i][k]]

WriteMap(i) ==
    [r \in Regs |-> IF \E k \in 0 .. 1 : get_instr(i).r_out[k] = r THEN i ELSE map_table[r]]

\* The oldest queued instruction leaves the queue: a branch for good, any
\* other to a reservation station
dispatch_To_issue ==
    /\ Goto("dispatch_To_issue", "fetch_To_dispatch")
    /\ IF instr_queue = <<>> \/ Hazard(Head(instr_queue))
       THEN UNCHANGED <<instr_queue, reservINT, reservFP, Q, map_table, tom_issue_cycle>>
       ELSE LET i == Head(instr_queue)
            IN  /\ reservINT' = IF USES_INT_FU(i) THEN reservINT \union {i} ELSE reservINT
                /\ reservFP' = IF USES_FP_FU(i) THEN reservFP \union {i} ELSE reservFP
                /\ tom_issue_cycle' = IF USES_INT_FU(i) \/ USES_FP_FU(i)
                                      THEN Stamp(tom_issue_cycle, {i}) ELSE tom_issue_cycle
                /\ Q' = IF IS_CTRL(i) THEN Q ELSE [Q EXCEPT ![i] = ReadMap(i)]
                /\ map_table' = IF IS_CTRL(i) THEN map_table ELSE WriteMap(i)
                /\ instr_queue' = Tail(instr_queue)
    /\ UNCHANGED <<trace, cycle, fetch_index, fuINT, fuFP, commonDataBus,
                   tom_dispatch_cycle, tom_execute_cycle, tom_cdb_cycle>>

\* The do-while of fetch: the next entry that is no trap
NextFetch == CHOOSE j \in Entries : j > fetch_index /\ ~IS_TRAP(j)
                                    /\ \A l \in fetch_index + 1 .. j - 1 : IS_TRAP(l)

\* Fault (DoneMeansFinished): the queue is not looked at
is_simulation_done_no_queue ==
    /\ reservINT = {} /\ reservFP = {} /\ fuINT = {} /\ fuFP = {}
    /\ commonDataBus = NULL
    /\ \A r \in Regs : map_table[r] = NULL

\* The pipeline is empty
is_simulation_done ==
    /\ instr_queue = <<>> /\ reservINT = {} /\ reservFP = {} /\ fuINT = {} /\ fuFP = {}
    /\ commonDataBus = NULL
    /\ \A r \in Regs : map_table[r] = NULL

\* fetch_To_dispatch and the end of the loop: cycle++ and the test for the end
fetch_To_dispatch ==
    /\ stage = "fetch_To_dispatch"
    /\ IF fetch_index < sim_num_insn /\ Len(instr_queue) < INSTR_QUEUE_SIZE
       THEN /\ fetch_index' = NextFetch
            /\ instr_queue' = Append(instr_queue, NextFetch)
            /\ tom_dispatch_cycle' = Stamp(tom_dispatch_cycle, {NextFetch})
       ELSE UNCHANGED <<fetch_index, instr_queue, tom_dispatch_cycle>>
    /\ cycle' = cycle + 1
    /\ UNCHANGED <<trace, reservINT, reservFP, fuINT, fuFP, commonDataBus, map_table, Q,
                   tom_issue_cycle, tom_execute_cycle, tom_cdb_cycle>>
    /\ stage' = IF is_simulation_done' THEN "done" ELSE "CDB_To_retire"

\* runTomasulo returned, or the model gave up
Stopped ==
    /\ stage = "done" \/ (stage = "CDB_To_retire" /\ cycle = MaxCycle)
    /\ UNCHANGED vars

Next ==
    \/ CDB_To_retire
    \/ execute_To_CDB
    \/ issue_To_execute
    \/ dispatch_To_issue
    \/ fetch_To_dispatch
    \/ Stopped

Spec == Init /\ [][Next]_vars

(* The loop of a sequential program: it takes its next step. *)
FairSpec == Spec /\ WF_vars(Next)
-----------------------------------------------------------------------------

Stages == {"CDB_To_retire", "execute_To_CDB", "issue_To_execute", "dispatch_To_issue",
           "fetch_To_dispatch", "done"}

(* Queue, stations and units hold instructions of their class and never    *)
(* more than the arrays of tomasulo.c have slots.                          *)
TypeOK ==
    /\ trace \in Programs
    /\ stage \in Stages /\ cycle \in Nat \ {0}
    /\ fetch_index \in {0} \union Entries
    /\ instr_queue \in Seq(Entries) /\ Len(instr_queue) <= INSTR_QUEUE_SIZE
    /\ reservINT \subseteq {i \in Entries : USES_INT_FU(i)}
    /\ reservFP \subseteq {i \in Entries : USES_FP_FU(i)}
    /\ Cardinality(reservINT) <= RESERV_INT_SIZE /\ Cardinality(reservFP) <= RESERV_FP_SIZE
    /\ Cardinality(fuINT) <= FU_INT_SIZE /\ Cardinality(fuFP) <= FU_FP_SIZE
    /\ commonDataBus \in {NULL} \union {i \in Entries : WRITES_CDB(i)}
    /\ map_table \in [Regs -> {NULL} \union Entries]
    /\ Q \in [Entries -> [0 .. 2 -> {NULL} \union Entries]]
    /\ \A f \in {tom_dispatch_cycle, tom_issue_cycle, tom_execute_cycle, tom_cdb_cycle} :
           f \in [Entries -> Nat]

(* A unit works on an instruction exactly while its station holds it and   *)
(* it has begun to execute; what has broadcast its result is in no station *)
(* and no station holds an instruction that is still queued (the clear_rs_ *)
(* fu_instrs loops of execute_To_CDB release both or neither).             *)
StationsMatchUnits ==
    /\ fuINT = {i \in reservINT : tom_execute_cycle[i] # 0}
    /\ fuFP = {i \in reservFP : tom_execute_cycle[i] # 0}
    /\ \A i \in reservINT \union reservFP :
           /\ tom_cdb_cycle[i] = 0
           /\ \A j \in DOMAIN instr_queue : instr_queue[j] > i

\* Instruction i enters the map table as the producer of register r
Writes(i, r) == ~IS_CTRL(i) /\ ~IS_TRAP(i) /\ \E k \in 0 .. 1 : get_instr(i).r_out[k] = r
\* The youngest such instruction older than i in program order, 0 if none
LastWriter(i, r) ==
    LET older == {j \in 1 .. i - 1 : Writes(j, r)}
    IN  IF older = {} THEN NULL ELSE CHOOSE j \in older : \A l \in older : l <= j
\* The result of i is still to come: it waits, executes or is on the bus
Outstanding(i) == i # NULL /\ (i \in reservINT \union reservFP \/ i = commonDataBus)
Awaited(i) == IF Outstanding(i) THEN i ELSE NULL

\* The next instruction to leave the queue
NextDispatch == IF instr_queue = <<>> THEN fetch_index + 1 ELSE Head(instr_queue)

(* The map table names, for every register, the youngest writer that left  *)
(* the queue, as long as its result is outstanding: a finished older       *)
(* writer of the register does not erase it (dispatch_To_issue,            *)
(* CDB_To_retire).                                                         *)
MapTableNamesLastWriter ==
    \A r \in Regs : map_table[r] = Awaited(LastWriter(NextDispatch, r))

(* A waiting instruction waits, for each operand, for the instruction that *)
(* is the last writer of the register in program order and for no other:   *)
(* never for itself, never for a younger one, no longer than its result is *)
(* outstanding.                                                            *)
QNamesLastWriter ==
    \A i \in reservINT \union reservFP : \A k \in 0 .. 2 :
        LET r == get_instr(i).r_in[k]
        IN  Q[i][k] = IF r > 0 THEN Awaited(LastWriter(i, r)) ELSE NULL

Producers(i) == {LastWriter(i, get_instr(i).r_in[k]) : k \in {k \in 0 .. 2 : get_instr(i).r_in[k] > 0}}
                \ {NULL}

(* "All RAW dependences need to have been resolved with stalls before an   *)
(* instruction enters execute" (issue_To_execute): every producer has been *)
(* on the bus in an earlier cycle.                                         *)
RAWRespected ==
    \A i \in Entries : tom_execute_cycle[i] # 0 =>
        \A p \in Producers(i) : tom_cdb_cycle[p] # 0 /\ tom_cdb_cycle[p] < tom_execute_cycle[i]

(* There is one common data bus: no two instructions broadcast in the same *)
(* cycle, and only instructions with a result do (execute_To_CDB).         *)
OneResultPerCycle ==
    \A i, j \in Entries :
        tom_cdb_cycle[i] # 0 =>
            /\ WRITES_CDB(i)
            /\ i # j => tom_cdb_cycle[i] # tom_cdb_cycle[j]

(* "We prioritize old instructions (in program order) over new ones, if    *)
(* they both contend for the same functional unit" (issue_To_execute): a   *)
(* younger instruction begins first only if some operand of the older one  *)
(* was not there yet.                                                      *)
OlderExecutesFirst ==
    \A j \in Entries : tom_execute_cycle[j] # 0 =>
        \A i \in 1 .. j - 1 :
            /\ USES_INT_FU(i) = USES_INT_FU(j) /\ USES_FP_FU(i) = USES_FP_FU(j)
            /\ tom_execute_cycle[i] = 0 \/ tom_execute_cycle[i] > tom_execute_cycle[j]
            => \E p \in Producers(i) :
                   tom_cdb_cycle[p] = 0 \/ tom_cdb_cycle[p] >= tom_execute_cycle[j]

(* "Checks if simulation is done by finishing the very last instruction":  *)
(* is_simulation_done only looks at the pipeline, never at its argument,   *)
(* and yet the loop ends only when every instruction of the trace that     *)
(* needs a unit has executed and every result was broadcast.               *)
DoneMeansFinished ==
    stage = "done" =>
        \A i \in 1 .. sim_num_insn :
            /\ USES_INT_FU(i) \/ USES_FP_FU(i) => tom_execute_cycle[i] # 0
            /\ WRITES_CDB(i) => tom_cdb_cycle[i] # 0

(* runTomasulo returns: no instruction waits for a tag that is never       *)
(* broadcast, for a unit or for the bus for ever.                          *)
Terminates == <>(stage = "done")

(* "Do not fetch new instruction if program is over" (fetch_To_dispatch):  *)
(* only instructions of the trace are fetched.                             *)
FetchWithinTrace == fetch_index <= sim_num_insn

Tables == INSTANCE InstrTrace

AtStart == cycle = 1 /\ stage = "CDB_To_retire"

(* What Tomasulo's get_instr returns is what is in the tables that         *)
(* put_instr filled: every executed instruction under its own number, from *)
(* 1 on and across the tables, and cleared memory behind the last one      *)
(* (instr.c:51-79, sim-safe.c:313) - unless the tables are full, when      *)
(* there is no entry to read and the assertion of instr.c:75 would fail.   *)
(* print_all_instr lists each executed instruction once and in order, over *)
(* all the tables (instr.c:24-48).                                         *)
TraceIsTables ==
    AtStart => LET list == Tables!Executed(trace)
               IN  /\ \A i \in 1 .. sim_num_insn : Tables!InTrace(list, i)
                   /\ \A i \in Entries : Tables!InTrace(list, i) =>
                          Tables!get_instr(list, i) = get_instr(i)
                   /\ Tables!print_all_instr(list, sim_num_insn) = trace
=============================================================================
