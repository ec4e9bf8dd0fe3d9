-------------------------------- MODULE Cbp --------------------------------
(***************************************************************************)
(* The loop of main.cc: the three predictors meet the conditional branches *)
(* of one trace.  Each is asked before any of them learns the outcome.     *)
(*                                                                         *)
(* The trace is a program that ends in a loop: up to MaxBranches branches  *)
(* in any order, then one of Loops over and over.                          *)
(*                                                                         *)
(* A definition marked "Fault" in the modules of the predictors is no part *)
(* of the specification: it is the definition after it with a slip.        *)
(***************************************************************************)
EXTENDS Integers, Sequences, FiniteSets

CONSTANTS
    PCs, TABLE_SIZE, PHT_TABLES, BHT_ENTRIES, HIST_BITS,
    INDEX_BITS, BASE_BITS, TAG_BITS, LAST, HISTORY_BITS,
    MaxBranches,    \* the branches before the loop
    Loops,          \* sequences of [PC, dir]
    MaxMispred      \* the bound of the model on the mispredictions counted

ASSUME CbpAssumption ==
    /\ PCs \subseteq Nat
    /\ {TABLE_SIZE, PHT_TABLES, BHT_ENTRIES, HIST_BITS} \subseteq Nat \ {0}
    /\ {INDEX_BITS, BASE_BITS, TAG_BITS, HISTORY_BITS} \subseteq Nat \ {0}
    /\ LAST \in 0 .. 3
    \* the history is wide enough for what the banks read of it
    /\ HISTORY_BITS >= (LAST + 1) * INDEX_BITS
    /\ HISTORY_BITS >= 3 * TAG_BITS
    /\ MaxBranches \in Nat /\ MaxMispred \in Nat
    /\ \A loop \in Loops : loop # <<>> /\ loop \in Seq([PC : PCs, dir : BOOLEAN])

VARIABLES
    twobitsat_prediction_table,
    BHT, PHT, outcomes,
    global_history, X, base, banks,
    next,           \* the next call of the loop
    branch, branches,
    predDir,        \* the predictions for branch
    numMispred,
    loop, at,       \* the loop of the trace, and where in it the trace is: 0 before it
    before          \* the mispredictions before the loop (history)

Predictors == {"2bitsat", "2level", "openend"}

\* The branch that predictor p has predicted, until it learns the outcome
Unresolved(p) ==
    IF next \in CASE p = "2bitsat" -> {"2bitsat"}
                 [] p = "2level" -> {"2bitsat", "2level"}
                 [] p = "openend" -> Predictors
    THEN [PC |-> branch.PC, dir |-> branch.dir, pred |-> predDir[p]]
    ELSE <<>>

twobitsat == INSTANCE TwoBitSat WITH branch <- Unresolved("2bitsat")
twolevel == INSTANCE TwoLevel WITH branch <- Unresolved("2level")
openend == INSTANCE OpenEnd WITH branch <- Unresolved("openend")

vars_2level == <<BHT, PHT, outcomes>>
vars_openend == <<global_history, X, base, banks>>
input == <<loop, at, before, branch, branches>>
vars == <<twobitsat_prediction_table, vars_2level, vars_openend, input, next, predDir, numMispred>>

Init ==
    /\ twobitsat!Init_2bitsat /\ twolevel!Init_2level /\ openend!Init_openend
    /\ next = "GetNextRecord"
    /\ branch = <<>> /\ branches = 0
    /\ predDir = [p \in Predictors |-> FALSE]
    /\ numMispred = [p \in Predictors |-> 0]
    /\ loop = <<>> /\ at = 0 /\ before = numMispred

\* Another conditional branch; other records leave everything alone
GetNextRecord ==
    /\ next = "GetNextRecord"
    /\ \/ /\ at = 0 /\ branches < MaxBranches
          /\ branch' \in [PC : PCs, dir : BOOLEAN]
          /\ branches' = branches + 1
          /\ UNCHANGED <<loop, at, before>>
       \/ /\ at = 0 /\ loop' \in Loops /\ at' = 1
          /\ branch' = loop'[1]
          /\ before' = numMispred
          /\ UNCHANGED branches
       \/ /\ at # 0 /\ at' = (at % Len(loop)) + 1
          /\ branch' = loop[at']
          /\ UNCHANGED <<loop, before, branches>>
    /\ next' = "GetPrediction"
    /\ UNCHANGED <<twobitsat_prediction_table, vars_2level, vars_openend, predDir, numMispred>>

GetPrediction ==
    /\ next = "GetPrediction"
    /\ openend!GetPrediction_openend(branch.PC)
    /\ predDir' = [p \in Predictors |->
           CASE p = "2bitsat" -> twobitsat!GetPrediction_2bitsat(branch.PC)
             [] p = "2level" -> twolevel!GetPrediction_2level(branch.PC)
             [] p = "openend" -> openend!Direction(branch.PC, openend!FindBank(branch.PC))]
    /\ next' = "2bitsat"
    /\ UNCHANGED <<input, twobitsat_prediction_table, vars_2level, global_history, base, banks, numMispred>>

CountMispred(p) ==
    numMispred' = [numMispred EXCEPT ![p] =
        IF predDir[p] # branch.dir /\ @ < MaxMispred THEN @ + 1 ELSE @]

Update_2bitsat ==
    /\ next = "2bitsat"
    /\ twobitsat!UpdatePredictor_2bitsat(branch.PC, branch.dir)
    /\ CountMispred("2bitsat")
    /\ next' = "2level"
    /\ UNCHANGED <<input, predDir, vars_2level, vars_openend>>

Update_2level ==
    /\ next = "2level"
    /\ twolevel!UpdatePredictor_2level(branch.PC, branch.dir)
    /\ CountMispred("2level")
    /\ next' = "openend"
    /\ UNCHANGED <<input, predDir, twobitsat_prediction_table, vars_openend>>

Update_openend ==
    /\ next = "openend"
    /\ openend!UpdatePredictor_openend(branch.PC, branch.dir, predDir["openend"])
    /\ CountMispred("openend")
    /\ next' = "GetNextRecord"
    /\ predDir' = [p \in Predictors |-> FALSE]     \* they go out of scope
    /\ UNCHANGED <<input, twobitsat_prediction_table, vars_2level>>

Next == GetNextRecord \/ GetPrediction \/ Update_2bitsat \/ Update_2level \/ Update_openend

Spec == Init /\ [][Next]_vars

-----------------------------------------------------------------------------
(* Properties.  Those of one predictor are stated in its own module, and   *)
(* hold whatever branches and whatever other predictors do around it.      *)

InLoop(p) == numMispred[p] - before[p]
OneBranch == Cardinality({loop[i].PC : i \in DOMAIN loop}) = 1
OneWay == Cardinality({loop[i].dir : i \in DOMAIN loop}) = 1

\* Whatever came before, a loop of branches that all go one way costs the
\* two-bit table two mispredictions for each of its branches, and a branch
\* that goes around every pattern no longer than the history costs the
\* two-level tables two for each place of the pattern and one for each bit of
\* history from before: then the loop is learned (predictor.cc:17-59).
LoopsAreLearned ==
    at # 0 =>
        /\ OneWay => InLoop("2bitsat") <= 2 * Len(loop)
        /\ OneBranch /\ Len(loop) <= HIST_BITS => InLoop("2level") <= 2 * Len(loop) + HIST_BITS

\* Nor does the tagged predictor mispredict a branch that always goes one way
\* for ever: once all its history is of that branch, each misprediction finds
\* it a longer bank or trains the counter in the last, whatever other branches
\* left there.  That is one for each bit of history from before, one for each
\* bank and four for the counter (predictor.cc:103-161).
OneWayIsLearned ==
    at # 0 /\ OneWay /\ OneBranch => InLoop("openend") <= HISTORY_BITS + LAST + 5

\* The two-bit and the two-level predictor are tables of independent counters:
\* TwoBitSat and TwoLevel say which (predictor.cc:17-59).
AreCounterTables == twobitsat!ImplementsCounterTable /\ twolevel!ImplementsCounterTable

\* X still names the longest bank that holds the branch when the tagged
\* predictor learns its outcome (predictor.cc:103-118).
LongestMatch == openend!LongestMatch

\* A misprediction enters the branch in a longer bank, at the cost of a useful
\* entry only when all are useful and then of only one, and a taken branch
\* the base table missed is predicted taken where it was entered
\* (predictor.cc:124-150).
MispredictionEntered == openend!Remembers /\ openend!UsefulKept /\ openend!TakenIsLearned
=============================================================================
