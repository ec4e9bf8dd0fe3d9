--------------------------- MODULE CounterTable ---------------------------
(***************************************************************************)
(* What the two-bit and the two-level predictor of predictor.cc promise:   *)
(* every context a branch can be met in has a two-bit counter of its own,  *)
(* which says how the branch is predicted, and which only the branches met *)
(* in that context train.                                                  *)
(***************************************************************************)
EXTENDS SatCounter

CONSTANT Context

VARIABLES
    counter,    \* the counter of each context
    branch      \* the branch [context, dir, pred] that is not yet resolved, or None

None == <<>>

Init == counter = [c \in Context |-> 0] /\ branch = None

Predict(c, dir) ==
    /\ branch = None
    /\ branch' = [context |-> c, dir |-> dir, pred |-> counter[c] >= 2]
    /\ UNCHANGED counter

Resolve ==
    /\ branch # None
    /\ branch' = None
    /\ counter' = [counter EXCEPT ![branch.context] = Train(@, branch.dir, 3)]

Next == Resolve \/ \E c \in Context, dir \in BOOLEAN : Predict(c, dir)

Spec == Init /\ [][Next]_<<counter, branch>>
=============================================================================
