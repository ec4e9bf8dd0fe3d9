----------------------------- MODULE MCTomasulo -----------------------------
(* Short programs over two registers for the timing simulator. *)
EXTENDS Tomasulo, SequencesExt

CONSTANTS
    MaxProgram          \* the longest program

TwoRegs == {1, 2}

I(op, in0, in1, in2, out0, out1) ==
    [op |-> op, r_in |-> [k \in 0 .. 2 |-> <<in0, in1, in2>>[k + 1]],
                r_out |-> [k \in 0 .. 1 |-> <<out0, out1>>[k + 1]]]

\* One instruction of each class: one that reads what it writes, one that
\* writes two registers, a load whose address is its second operand, a store
\* that reads three
Add == I("ICOMP", 1, 0, 0, 1, 0)
FpAdd == I("FCOMP", 2, 1, 0, 2, 0)
Load == I("LOAD", 0, 2, 0, 1, 2)
Store == I("STORE", 1, 0, 2, 0, 0)
Branch == I("COND", 1, 0, 0, 2, 0)
Call == I("UNCOND", 0, 0, 0, 1, 0)
Trap == I("TRAP", 0, 0, 0, 0, 0)

\* runTomasulo is reached after at least one executed instruction.  The longest
\* programs are made of the instructions that need a unit.
AllPrograms == (SeqOf({Add, FpAdd, Load, Store, Branch, Trap}, MaxProgram - 1)
                   \union SeqOf({Add, FpAdd, Load, Store}, MaxProgram)) \ {<<>>}

\* Programs with every kind of instruction that no unit executes
ControlPrograms == SeqOf({Add, Call, Branch, Trap}, MaxProgram) \ {<<>>}

=============================================================================
