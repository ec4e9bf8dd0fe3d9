----------------------------- MODULE TwoLevel -----------------------------
(***************************************************************************)
(* The 2level predictor of predictor.cc: the outcomes of the last branches *)
(* of a row of the BHT choose a counter in one of the tables of the PHT.   *)
(***************************************************************************)
EXTENDS SatCounter, Sequences

CONSTANTS
    PHT_TABLES,     \* 8 in the code
    BHT_ENTRIES,    \* 512 in the code
    HIST_BITS       \* 6 in the code

VARIABLES
    BHT, PHT,
    outcomes,       \* the last HIST_BITS outcomes of each row, the newest last (history)
    branch          \* the branch [PC, dir, pred] predicted and not yet resolved, or None

None == <<>>

MAX_VALUE_2level == 3
Patterns == 0 .. Pow2[HIST_BITS] - 1

Row(PC) == (PC \div PHT_TABLES) % BHT_ENTRIES
PhtTable(PC) == PC % PHT_TABLES

\* BHT[...] & 0x3F: a row holds one bit more than the PHT is indexed with
History(PC) == BHT[Row(PC)] % Pow2[HIST_BITS]

Rows == 0 .. BHT_ENTRIES - 1
PhtTables == 0 .. PHT_TABLES - 1

Init_2level ==
    /\ BHT = [r \in Rows |-> 0]
    /\ PHT = [t \in PhtTables |-> [h \in Patterns |-> 0]]
    /\ outcomes = [r \in Rows |-> [i \in 1 .. HIST_BITS |-> NOT_TAKEN]]

GetPrediction_2level(PC) == PHT[PhtTable(PC)][History(PC)] > 1

Shifted(history, dir) == history * 2 + (IF dir = TAKEN THEN 1 ELSE 0)

Observed(PC, dir) == outcomes' = [outcomes EXCEPT ![Row(PC)] = Tail(Append(@, dir))]

Fault_Update_bht_first(PC, resolveDir) ==
    /\ PHT' = [PHT EXCEPT ![PhtTable(PC)][Shifted(History(PC), resolveDir) % Pow2[HIST_BITS]] =
           Train(@, resolveDir, MAX_VALUE_2level)]
    /\ BHT' = [BHT EXCEPT ![Row(PC)] = Shifted(History(PC), resolveDir)]
    /\ Observed(PC, resolveDir)

UpdatePredictor_2level(PC, resolveDir) ==
    /\ PHT' = [PHT EXCEPT ![PhtTable(PC)][History(PC)] = Train(@, resolveDir, MAX_VALUE_2level)]
    /\ BHT' = [BHT EXCEPT ![Row(PC)] = Shifted(History(PC), resolveDir)]
    /\ Observed(PC, resolveDir)

-----------------------------------------------------------------------------

\* Value[s] is the number whose bits are the outcomes s, the newest lowest
Value(s) ==
    LET upto[i \in 0 .. HIST_BITS] == IF i = 0 THEN 0 ELSE 2 * upto[i - 1] + (IF s[i] THEN 1 ELSE 0)
    IN  upto[HIST_BITS]

Contexts == PhtTables \X [1 .. HIST_BITS -> BOOLEAN]

Table == INSTANCE CounterTable WITH
    Context <- Contexts,
    counter <- [c \in Contexts |-> PHT[c[1]][Value(c[2])]],
    branch <- IF branch = None THEN None
              ELSE [context |-> <<PhtTable(branch.PC), outcomes[Row(branch.PC)]>>,
                    dir |-> branch.dir, pred |-> branch.pred]

\* A branch met again after the same last outcomes finds its own counter:
\* the predictor is a table of two-bit counters with one for each table of
\* the PHT and each sequence of HIST_BITS outcomes (predictor.cc:44-59).
ImplementsCounterTable == Table!Spec
=============================================================================
