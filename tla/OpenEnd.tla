------------------------------ MODULE OpenEnd ------------------------------
(***************************************************************************)
(* The open-ended predictor of predictor.cc: a base table and banks of     *)
(* tagged entries, each bank indexed with more of the global history than  *)
(* the one before.  GetPrediction leaves the bank that answered in the     *)
(* static X, and UpdatePredictor reads it there and computes indices and   *)
(* tag again.                                                              *)
(*                                                                         *)
(* The widths are parameters; everything else of the two hash functions is *)
(* theirs.  An index or a tag is the sequence of its bits, lowest first.   *)
(***************************************************************************)
EXTENDS SatCounter, Sequences, FiniteSetsExt

CONSTANTS
    INDEX_BITS,         \* 10 in the code
    BASE_BITS,          \* 12 in the code
    TAG_BITS,           \* 8 in the code
    LAST,               \* the last bank, 3 in the code
    HISTORY_BITS        \* 64 in the code

VARIABLES
    global_history,
    X,                  \* the bank that gave the last prediction, -1 for the base table
    base,               \* base[index]      [ctr, m]
    banks,              \* banks[Y][index]  [ctr, tag, u]
    branch              \* the branch [PC, dir, pred] predicted and not yet resolved, or None

MAX_COUNTER_CUSTOM == 7
Banks == 0 .. LAST
None == <<>>

\* Bits lo .. lo + n - 1 of x, moved down by shift
Field(x, lo, n, shift) == ((((x \div Pow2[lo]) % Pow2[n]) * Pow2[lo]) \div Pow2[shift]) % Pow2[n]

Bits(x, n) == [i \in 1 .. n |-> (x \div Pow2[i - 1]) % 2]
Xor(a, b) == [i \in DOMAIN a |-> (a[i] + b[i]) % 2]

HistoryTag(k, shift) == Bits(Field(global_history, k * TAG_BITS, TAG_BITS, shift * TAG_BITS), TAG_BITS)

\* The fourth byte of the history is moved down by four bytes and not by three
get_tag(PC) ==
    Xor(Xor(Xor(Xor(Bits(PC, TAG_BITS),
                    HistoryTag(0, 0)),
                HistoryTag(1, 1)),
            HistoryTag(2, 2)),
        HistoryTag(3, 4))

PcPart(PC, k) == Bits(PC \div Pow2[k * INDEX_BITS], INDEX_BITS)
HistoryPart(k) == Bits(global_history \div Pow2[k * INDEX_BITS], INDEX_BITS)

base_index(PC) == Bits(PC, BASE_BITS)

get_index(PC, bank) ==
    LET index[k \in Banks] ==
            IF k = 0 THEN Xor(Xor(PcPart(PC, 0), PcPart(PC, 1)), HistoryPart(0))
            ELSE Xor(index[k - 1], HistoryPart(k))
    IN  index[bank]

Init_openend ==
    /\ global_history = 0
    /\ X = -1
    /\ base = [i \in [1 .. BASE_BITS -> 0 .. 1] |-> [ctr |-> 0, m |-> FALSE]]
    /\ banks = [Y \in Banks |-> [i \in [1 .. INDEX_BITS -> 0 .. 1] |->
                   [ctr |-> 0, tag |-> Bits(0, TAG_BITS), u |-> FALSE]]]

At(PC, Y) == banks[Y][get_index(PC, Y)]

\* The banks that hold the branch, with the history as it is
Matching(PC) == {Y \in Banks : At(PC, Y).tag = get_tag(PC)}

Fault_FindBank_shortest(PC) == Min(Matching(PC) \union {LAST})

FindBank(PC) == Max(Matching(PC) \union {-1})

Direction(PC, bank) ==
    IF bank = -1 THEN base[base_index(PC)].ctr >= 4 ELSE At(PC, bank).ctr >= 4

GetPrediction_openend(PC) == X' = FindBank(PC)

\* The counter of a new entry; counter is the base counter after this
\* branch has trained it, when it is the base table that answered.
NewCounter(m, dir, counter) ==
    IF m THEN IF dir = TAKEN THEN 4 ELSE 3
    ELSE IF counter # 0 THEN 4 ELSE 3

TrainedBase(PC, dir) ==
    IF X = -1 THEN [base EXCEPT ![base_index(PC)].ctr = Train(@, dir, MAX_COUNTER_CUSTOM)] ELSE base

Fault_TrainedBanks_in_a_copy(PC, dir) == banks

TrainedBanks(PC, dir) ==
    IF X = -1 THEN banks
    ELSE [banks EXCEPT ![X][get_index(PC, X)].ctr = Train(@, dir, MAX_COUNTER_CUSTOM)]

Fault_Victims_any(PC, dir, pred) ==
    IF dir = pred \/ X = LAST THEN {{}} ELSE {{Y} : Y \in X + 1 .. LAST}

\* The banks in which an entry is taken for the branch: every longer one
\* whose entry is not useful, or any longer one when all are useful.
Victims(PC, dir, pred) ==
    LET longer == X + 1 .. LAST
        free == {Y \in longer : ~At(PC, Y).u}
    IN  IF dir = pred \/ X = LAST THEN {{}}
        ELSE IF free # {} THEN {free}
        ELSE {{Y} : Y \in longer}

Allocated(PC, dir, trained, victims) ==
    [Y \in Banks |->
        IF Y \notin victims THEN trained[Y]
        ELSE [trained[Y] EXCEPT ![get_index(PC, Y)].tag = get_tag(PC),
                  ![get_index(PC, Y)].ctr =
                      NewCounter(base[base_index(PC)].m, dir, TrainedBase(PC, dir)[base_index(PC)].ctr)]]

ShiftHistory(dir) ==
    global_history' = (2 * global_history + (IF dir = TAKEN THEN 1 ELSE 0)) % Pow2[HISTORY_BITS]

UpdatePredictor_openend(PC, dir, pred) ==
    /\ \E victims \in Victims(PC, dir, pred) :
          LET new == Allocated(PC, dir, TrainedBanks(PC, dir), victims)
          IN  banks' = IF X = -1 THEN new ELSE [new EXCEPT ![X][get_index(PC, X)].u = (dir = pred)]
    /\ base' = IF X = -1 THEN TrainedBase(PC, dir) ELSE [base EXCEPT ![base_index(PC)].m = (dir = pred)]
    /\ ShiftHistory(dir)
    /\ UNCHANGED X

-----------------------------------------------------------------------------

vars_openend == <<global_history, X, base, banks, branch>>

\* While a branch is unresolved, X is still the longest bank that holds it
\* and the prediction still what that bank says: the update trains and
\* replaces for the branch that was predicted (predictor.cc:103-118).
LongestMatch ==
    branch # None =>
        /\ X # -1 => X \in Matching(branch.PC)
        /\ \A Y \in X + 1 .. LAST : Y \notin Matching(branch.PC)
        /\ branch.pred = Direction(branch.PC, X)

Mispredicted == branch # None /\ branch.dir # branch.pred

\* A misprediction leaves the branch, with the history it had, in a bank
\* longer than the one that was wrong, if there is a longer one
\* (predictor.cc:130-150).
Remembers ==
    [][Mispredicted /\ branch' # branch /\ X < LAST =>
          \E Y \in X + 1 .. LAST : banks'[Y][get_index(branch.PC, Y)].tag = get_tag(branch.PC)]_vars_openend

\* Another branch takes an entry whose last prediction was right only when
\* all the entries it could have taken were, and then only one of them
\* (predictor.cc:135 and 144).
UsefulKept ==
    [][LET lost == {Y \in Banks : \E i \in DOMAIN banks[Y] :
                       banks[Y][i].u /\ banks'[Y][i].tag # banks[Y][i].tag}
       IN  lost # {} => /\ Cardinality(lost) = 1
                        /\ \A Y \in X + 1 .. LAST : At(branch.PC, Y).u]_vars_openend

\* A branch that was taken although the base table said otherwise is
\* predicted taken wherever it was entered: the base counter has just left
\* zero, which is all the new counter asks of it (predictor.cc:124 and 139).
TakenIsLearned ==
    [][Mispredicted /\ branch' # branch /\ branch.dir = TAKEN /\ X = -1 =>
          \A Y \in Banks :
              banks'[Y][get_index(branch.PC, Y)].tag = get_tag(branch.PC)
                  => banks'[Y][get_index(branch.PC, Y)].ctr >= 4]_vars_openend
=============================================================================
