----------------------------- MODULE RawHazards -----------------------------
(***************************************************************************)
(* The RAW hazard counters of asm1's sim_main, for a pipeline without (q1) *)
(* and one with forwarding (q2), beside the pipelines they stand for: in   *)
(* order, one instruction a cycle, an instruction waits for its operands   *)
(* and everything behind it waits with it.                                 *)
(*                                                                         *)
(* The pipelines are no code: issue and avail are history variables that   *)
(* say what the counters should have seen.  A definition marked "Fault" is *)
(* the definition after it with a plausible slip.                          *)
(***************************************************************************)
EXTENDS Integers, FiniteSetsExt

CONSTANTS
    Regs,               \* architected registers
    Instructions,       \* the instructions a program is made of
    MaxInsn             \* the bound of the model on sim_num_insn

DNA == 0
Instruction == [kind : {"load", "store", "other"},
                r_in : [0 .. 2 -> Regs \union {DNA}], r_out : [0 .. 1 -> Regs \union {DNA}]]

ASSUME RawHazardsAssumption ==
    /\ Regs \subseteq Nat \ {DNA}
    /\ Instructions \subseteq Instruction
    /\ MaxInsn \in Nat

Question == {"q1", "q2"}

VARIABLES
    sim_num_insn,
    reg_ready,          \* reg_ready[q][r]: reg_ready_asm1_q1 and _q2
    hazards,            \* hazards[q][n]: sim_num_RAW_hazard_*_1cycle, _2cycle, and
                        \* n = 0 for sim_num_RAW_hazard_q1 and _q2
    issue,              \* issue[q]     when pipeline q let the last instruction go
    avail               \* avail[q][r]  when pipeline q has the value of register r

vars == <<sim_num_insn, reg_ready, hazards, issue, avail>>

Init ==
    /\ sim_num_insn = 0
    /\ reg_ready = [q \in Question |-> [r \in Regs |-> 0]]
    /\ hazards = [q \in Question |-> [n \in 0 .. 2 |-> 0]]
    /\ issue = [q \in Question |-> 0]
    /\ avail = [q \in Question |-> [r \in Regs |-> 0]]

\* Fault (ClassesAddUp): the first pipeline does not write and read a register
\* in the same cycle
Latency_four(q, i) == IF q = "q1" THEN 4 ELSE IF i.kind = "load" THEN 3 ELSE 2

\* Cycles from an instruction to the first one that can use its result
Latency(q, i) == IF q = "q1" \/ i.kind = "load" THEN 3 ELSE 2

\* The value a store writes is forwarded, it can be late
Forwarded(q, i, k) == q = "q2" /\ k = 0 /\ i.kind = "store"

\* The operands that keep instruction number now waiting, given the times ready
Late(q, i, ready, now) ==
    {k \in 0 .. 2 : i.r_in[k] # DNA /\ ready[i.r_in[k]] > now /\ ~Forwarded(q, i, k)}

\* Fault (NoHazardMissed): a store's late value ends the search
Counted_stops_at_store(q, i, now) ==
    LET late == {k \in 0 .. 2 : i.r_in[k] # DNA /\ reg_ready[q][i.r_in[k]] > now}
    IN  IF late = {} \/ Forwarded(q, i, Min(late)) THEN {} ELSE {i.r_in[Min(late)]}

\* The register whose hazard is counted: the loop breaks at the first
Counted(q, i, now) ==
    LET late == Late(q, i, reg_ready[q], now)
    IN  IF late = {} THEN {} ELSE {i.r_in[Min(late)]}

Outputs(i) == {i.r_out[k] : k \in 0 .. 1} \ {DNA}

\* Fault (TypeOK): the results of an instruction are counted from the next one
Written_one_later(q, i, ready, now) ==
    [r \in Regs |-> IF r \in Outputs(i) THEN now + 1 + Latency(q, i) ELSE ready[r]]

Written(q, i, ready, now) ==
    [r \in Regs |-> IF r \in Outputs(i) THEN now + Latency(q, i) ELSE ready[r]]

\* Q1 lets the register be ready after its hazard, Q2 does not
Reset(q, counted, now) ==
    [r \in Regs |-> IF q = "q1" /\ r \in counted THEN now ELSE reg_ready[q][r]]

Count(q, counted, now) ==
    [n \in 0 .. 2 |->
        IF \E r \in counted : n = 0 \/ reg_ready[q][r] - now = n
        THEN hazards[q][n] + 1 ELSE hazards[q][n]]

\* When pipeline q lets instruction i go
Issue(q, i) ==
    Max({issue[q] + 1} \union {avail[q][i.r_in[k]] : k \in Late(q, i, avail[q], issue[q] + 1)})

\* sim_main executes instruction i
Execute(i) ==
    /\ sim_num_insn < MaxInsn
    /\ LET now == sim_num_insn + 1
       IN  /\ sim_num_insn' = now
           /\ reg_ready' = [q \in Question |->
                               Written(q, i, Reset(q, Counted(q, i, now), now), now)]
           /\ hazards' = [q \in Question |-> Count(q, Counted(q, i, now), now)]
    /\ issue' = [q \in Question |-> Issue(q, i)]
    /\ avail' = [q \in Question |-> Written(q, i, avail[q], Issue(q, i))]

Next == \E i \in Instructions : Execute(i)

Spec == Init /\ [][Next]_vars

-----------------------------------------------------------------------------

(* Every variable has its type, and no register is further than the       *)
(* longest latency ahead, in the counters as in the pipelines.             *)
TypeOK ==
    /\ sim_num_insn \in 0 .. MaxInsn
    /\ reg_ready \in [Question -> [Regs -> Nat]]
    /\ hazards \in [Question -> [0 .. 2 -> 0 .. MaxInsn]]
    /\ issue \in [Question -> Nat]
    /\ avail \in [Question -> [Regs -> Nat]]
    /\ \A q \in Question, r \in Regs :
           /\ reg_ready[q][r] <= sim_num_insn + 3
           /\ avail[q][r] <= issue[q] + 3

(* Each hazard counted is a stall of one or of two cycles: the CPI         *)
(* formulas, which use these two counters only, lose none.                 *)
ClassesAddUp == \A q \in Question : hazards[q][0] = hazards[q][1] + hazards[q][2]

Stalled(q) == issue'[q] > issue[q] + 1
CountedNow(q) == hazards'[q][0] = hazards[q][0] + 1

(* No hazard is missed: whenever a pipeline has to stall an instruction    *)
(* for an operand the code counts one, although it measures distances in   *)
(* instructions and not in cycles, and looks at one operand only.          *)
NoHazardMissed == [][\A q \in Question : Stalled(q) => CountedNow(q)]_vars

(* "After this hazard, propagated stalls are implemented" (asm1 sim_main): *)
(* what the first pipeline has already waited for is not counted again.    *)
StallsPropagate == [][CountedNow("q1") => Stalled("q1")]_vars
=============================================================================
