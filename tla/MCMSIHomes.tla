----------------------------- MODULE MCMSIHomes -----------------------------
(***************************************************************************)
(* MSI with two blocks that compete, in two scenarios.                     *)
(*                                                                         *)
(* StoreSpec: in-order cores that only store, one miss at a time.  Both    *)
(* blocks fit into a cache, so nothing is ever replaced.  One directory is *)
(* the home of both blocks, or each block has a home of its own.           *)
(*                                                                         *)
(* BlocksSpec adds a second scenario to it: all but one of the caches      *)
(* already share a third block, which nobody touches any more.  It leaves  *)
(* them one way less for the other two, and they do all that MSI allows.   *)
(*                                                                         *)
(* Every behaviour of either is the rest of a behaviour of Spec.           *)
(***************************************************************************)
EXTENDS MSI, TLC

CONSTANTS a1, a2, a3, d1, d2

CacheSymmetry == Permutations(Caches)

OneHome == [a \in Addrs |-> d1]
TwoHomes == (a1 :> d1) @@ (a2 :> d2)

Contested == Addrs \ {a3}

StoreMiss(c, a) ==
    /\ \A b \in Addrs : ~tbe[c][b].valid
    /\ L1_I_Store(c, a)
    /\ UNCHANGED <<fwdNet, rspNet, fwdFront, reqFront, dirVars>>

Stalls ==
    \/ \E c \in Caches, d \in Dirs : L1StallStep(c, d)
    \/ \E c \in Caches, d \in Dirs : DirStallStep(d, c)

StoreNext ==
    \/ \E c \in Caches, a \in Contested : StoreMiss(c, a)
    \/ Consume
    \/ Stalls

StoreSpec == Init /\ [][StoreNext]_vars

-----------------------------------------------------------------------------

\* The caches of C have loaded block a3, and everything has come to rest
Shared(C) ==
    /\ NetInit
    /\ cst = [c \in Caches |-> [a \in Addrs |-> IF c \in C /\ a = a3 THEN "S" ELSE "I"]]
    /\ entry = [c \in Caches |-> [a \in Addrs |->
                   IF c \in C /\ a = a3 THEN [NoEntry EXCEPT !.valid = TRUE, !.data = InitData] ELSE NoEntry]]
    /\ tbe = [c \in Caches |-> [a \in Addrs |-> NoTBE]]
    /\ written = [a \in Addrs |-> InitData]
    /\ dst = [a \in Addrs |-> IF a = a3 THEN "S" ELSE "I"]
    /\ sharers = [a \in Addrs |-> IF a = a3 THEN C ELSE {}]
    /\ owner = [a \in Addrs |-> {}]
    /\ dblk = [a \in Addrs |-> InitData]
    /\ dtbe = [a \in Addrs |-> FALSE]
    /\ memq = {}

Sharing == sharers[a3]

BlocksInit == Init \/ \E idle \in Caches : Shared(Caches \ {idle})

BlocksNext ==
    \/ Sharing = {} /\ \E c \in Caches, a \in Contested : StoreMiss(c, a)
    \/ \E c \in Sharing, a \in Contested : L1CoreStep(c, a)
    \/ Consume
    \/ Stalls

BlocksSpec == BlocksInit /\ [][BlocksNext]_vars
=============================================================================
