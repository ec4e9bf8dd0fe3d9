------------------------------ MODULE LoadUse -------------------------------
(***************************************************************************)
(* The load-use hazard counter of the pre-assignment's sim_main, which     *)
(* executes the same instructions as asm1's in RawHazards.  It is a        *)
(* simulator of its own and shares only the program and the instruction    *)
(* count, so that the two can be compared.                                 *)
(*                                                                         *)
(* A definition marked "Fault" is no part of the specification: it is the  *)
(* definition after it with a plausible slip.                              *)
(***************************************************************************)
EXTENDS RawHazards

VARIABLES reg_ready_preasm, sim_num_loads, sim_num_lduh

loadUseVars == <<reg_ready_preasm, sim_num_loads, sim_num_lduh>>

LoadUseInit ==
    /\ reg_ready_preasm = [r \in Regs |-> 0]
    /\ sim_num_loads = 0
    /\ sim_num_lduh = 0

\* Fault (LoadUseStalls): a store waits for the value it writes, too
Fault_Waits_store(i, now) ==
    \E k \in 0 .. 2 : i.r_in[k] # DNA /\ reg_ready_preasm[i.r_in[k]] > now

\* Some operand is still being loaded.  The value of a store does not count.
Waits(i, now) ==
    \E k \in 0 .. 2 :
        /\ i.r_in[k] # DNA /\ reg_ready_preasm[i.r_in[k]] > now
        /\ ~(k = 0 /\ i.kind = "store")

Loaded(i, now) ==
    [r \in Regs |-> IF i.kind = "load" /\ r \in Outputs(i) THEN now + 2 ELSE reg_ready_preasm[r]]

\* sim_main has executed instruction i, its instruction number now
CountLoadUse(i, now) ==
    /\ sim_num_loads' = IF i.kind = "load" THEN sim_num_loads + 1 ELSE sim_num_loads
    /\ sim_num_lduh' = IF Waits(i, now) THEN sim_num_lduh + 1 ELSE sim_num_lduh
    /\ reg_ready_preasm' = Loaded(i, now)

BothInit == Init /\ LoadUseInit
BothNext == \E i \in Instructions : Execute(i) /\ CountLoadUse(i, sim_num_insn + 1)

BothSpec == BothInit /\ [][BothNext]_<<vars, loadUseVars>>

-----------------------------------------------------------------------------

(* A load-use hazard is counted exactly when the pipeline with forwarding  *)
(* stalls for two cycles: the two assignments agree on what a load costs,  *)
(* the value of a store included (preassignment sim-safe.c:413-421, asm1   *)
(* sim-safe.c:454-458).                                                    *)
LoadUseStalls ==
    [][sim_num_lduh' = sim_num_lduh + 1 <=> issue["q2"]' = issue["q2"] + 3]_<<vars, loadUseVars>>
=============================================================================
