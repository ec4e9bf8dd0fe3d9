----------------------------- MODULE TwoBitSat -----------------------------
(***************************************************************************)
(* The 2bitsat predictor of predictor.cc: a table of two-bit counters      *)
(* indexed with the low bits of the PC.                                    *)
(***************************************************************************)
EXTENDS SatCounter

CONSTANT TABLE_SIZE     \* entries of the table, 4096 in the code

VARIABLES
    twobitsat_prediction_table,
    branch                  \* the branch [PC, dir, pred] predicted and not yet resolved, or None

None == <<>>

MAX_VALUE == 3

Entry(PC) == PC % TABLE_SIZE
Entries == 0 .. TABLE_SIZE - 1

Init_2bitsat == twobitsat_prediction_table = [e \in Entries |-> 0]

GetPrediction_2bitsat(PC) == twobitsat_prediction_table[Entry(PC)] > 1

Fault_Update_smaller_mask(PC, resolveDir) ==
    twobitsat_prediction_table' = [twobitsat_prediction_table EXCEPT ![PC % (TABLE_SIZE - 1)] =
        Train(@, resolveDir, MAX_VALUE)]

UpdatePredictor_2bitsat(PC, resolveDir) ==
    twobitsat_prediction_table' = [twobitsat_prediction_table EXCEPT ![Entry(PC)] =
        Train(@, resolveDir, MAX_VALUE)]

-----------------------------------------------------------------------------

\* The predictor is a table of two-bit counters, and the branches that share
\* the low bits of the PC are the context of one (predictor.cc:17-33).
Table == INSTANCE CounterTable WITH
    Context <- Entries, counter <- twobitsat_prediction_table,
    branch <- IF branch = None THEN None
              ELSE [context |-> Entry(branch.PC), dir |-> branch.dir, pred |-> branch.pred]

ImplementsCounterTable == Table!Spec
=============================================================================
