------------------------------- MODULE MCCbp -------------------------------
(* Loops of up to three branches for the predictors. *)
EXTENDS Cbp, SequencesExt

B(PC, dir) == [PC |-> PC, dir |-> dir]

\* One branch with any pattern of up to three outcomes, and two branches that
\* are always taken or never
OneBranchLoops == SeqOf([PC : {1}, dir : BOOLEAN], 3) \ {<<>>}
TwoBranchLoops == {<<B(1, d), B(4, d)>> : d \in BOOLEAN}
AllLoops == OneBranchLoops \union TwoBranchLoops
=============================================================================
