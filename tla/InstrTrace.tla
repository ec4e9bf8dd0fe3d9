----------------------------- MODULE InstrTrace -----------------------------
(***************************************************************************)
(* The instruction trace of instr.c: a list of tables of INSTR_TRACE_SIZE  *)
(* entries that sim_main fills while it executes the program and that the  *)
(* timing simulator reads by index.  Tomasulo takes the trace as a         *)
(* sequence and states that this is what the tables amount to.             *)
(*                                                                         *)
(* A definition marked "Fault" is no part of the specification: it is the  *)
(* definition after it with a plausible slip.                              *)
(***************************************************************************)
EXTENDS Integers, Sequences

CONSTANTS
    INSTR_TRACE_SIZE,
    Zeroed              \* an entry of cleared memory

NewTable == [table |-> [i \in 0 .. INSTR_TRACE_SIZE - 1 |-> Zeroed], size |-> 0]

\* The first table that is not full, or the last one
LastUsed(list) ==
    CHOOSE k \in DOMAIN list :
        /\ list[k].size < INSTR_TRACE_SIZE \/ k = Len(list)
        /\ \A j \in 1 .. k - 1 : list[j].size = INSTR_TRACE_SIZE

put_instr(list, instr) ==
    LET longer == IF list[LastUsed(list)].size = INSTR_TRACE_SIZE THEN Append(list, NewTable) ELSE list
        last == LastUsed(longer)
        used == longer[last]
    IN  [longer EXCEPT ![last] = [table |-> [used.table EXCEPT ![used.size] = instr], size |-> used.size + 1]]

\* The table of an index, past the last one when there is none
TableOf(index) == 1 + (index \div INSTR_TRACE_SIZE)
InTrace(list, index) == TableOf(index) <= Len(list)

get_instr(list, index) == list[TableOf(index)].table[index % INSTR_TRACE_SIZE]

\* Fault (TraceIsTables): the other tables are entered like the first one
Fault_NextPlace_skips_first(place) ==
    IF place[2] + 1 = INSTR_TRACE_SIZE THEN <<place[1] + 1, 1>> ELSE <<place[1], place[2] + 1>>

\* Where print_all_instr goes on
NextPlace(place) ==
    IF place[2] + 1 = INSTR_TRACE_SIZE THEN <<place[1] + 1, 0>> ELSE <<place[1], place[2] + 1>>

print_all_instr(list, n) ==
    LET place[k \in 1 .. n] == IF k = 1 THEN <<1, 1>> ELSE NextPlace(place[k - 1])
        printed == {k \in 1 .. n : place[k][1] <= Len(list)}
    IN  [k \in printed |-> list[place[k][1]].table[place[k][2]]]

\* "skip the first entry"
Skipped == [NewTable EXCEPT !.size = 1]

\* The tables after sim_main has executed these instructions
Executed(instrs) ==
    LET tables[n \in 0 .. Len(instrs)] ==
            IF n = 0 THEN <<Skipped>> ELSE put_instr(tables[n - 1], instrs[n])
    IN  tables[Len(instrs)]
=============================================================================
