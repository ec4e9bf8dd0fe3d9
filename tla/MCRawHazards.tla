---------------------------- MODULE MCRawHazards ----------------------------
(* Programs over two registers for the hazard counters. *)
EXTENDS LoadUse

TwoRegs == {1, 2}

I(kind, in0, in1, in2, out0, out1) ==
    [kind |-> kind, r_in |-> [k \in 0 .. 2 |-> <<in0, in1, in2>>[k + 1]],
                    r_out |-> [k \in 0 .. 1 |-> <<out0, out1>>[k + 1]]]

\* Writers of either register and of both, readers of either and of both in
\* either order, loads, stores with each register as value and as address
Sample == {I("other", 0, 0, 0, 1, 0), I("other", 1, 0, 0, 2, 0), I("other", 2, 1, 0, 0, 0),
           I("other", 1, 2, 0, 1, 0), I("other", 0, 0, 2, 1, 2), I("load", 0, 1, 0, 2, 0),
           I("load", 0, 0, 0, 1, 2), I("store", 1, 2, 0, 0, 0), I("store", 2, 1, 1, 0, 0)}
=============================================================================
