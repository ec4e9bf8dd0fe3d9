---------------------------- MODULE MCSimCache ----------------------------
(* Small hierarchies and programs for the cache simulator. *)
EXTENDS SimCache

K(nsets, bsize, assoc, policy, prefetch_type) ==
    [nsets |-> nsets, bsize |-> bsize, assoc |-> assoc, policy |-> policy,
     prefetch_type |-> prefetch_type]

ThreeCaches == {"il1", "dl1", "dl2"}
TwoLevels == [x \in ThreeCaches |-> IF x = "dl2" THEN "mem" ELSE "dl2"]

Hierarchy(il1, dl1, dl2) ==
    [x \in ThreeCaches |-> CASE x = "il1" -> il1 [] x = "dl1" -> dl1 [] OTHER -> dl2]

Command(config, flush, length, instructions) ==
    [config |-> config, flush_on_syscalls |-> flush,
     program |-> [n \in 1 .. length |-> instructions]]

\* Next-line prefetchers at both levels; dl1 has two ways, dl2 two blocks of
\* two words.  Any instructions, and system calls flush.
NextLine == Command(
    Hierarchy(K(1, 1, 1, "LRU", 0), K(1, 1, 2, "LRU", 1), K(1, 2, 2, "LRU", 1)), TRUE, 10,
    [pc : {8}, op : {"load", "store"}, addr : {16, 17, 18, 20}]
        \union [pc : {8}, op : {"other", "syscall"}, addr : {0}])

\* A stride prefetcher; dl1 is direct-mapped, dl2 evicts in the order of the
\* fills.  Loads of two PCs that share an entry of the table.
StrideCaches == Hierarchy(K(1, 1, 1, "LRU", 0), K(2, 1, 1, "LRU", 3), K(1, 2, 2, "FIFO", 0))
Stride == Command(StrideCaches, FALSE, 7, [pc : {9, 12}, op : {"load"}, addr : 16 .. 19])

\* Open-ended prefetchers that share the history; dl1 evicts at random.  System
\* calls access memory.
OpenEnded == Command(
    Hierarchy(K(1, 1, 1, "LRU", 0), K(1, 1, 2, "Random", 2), K(1, 2, 2, "LRU", 2)), FALSE, 6,
    [pc : {9}, op : {"load", "store", "syscall"}, addr : {16, 17, 18}])

\* Stride prefetchers at both levels, which train the one static table
SharedStride == Command(
    Hierarchy(K(1, 1, 1, "LRU", 0), K(1, 1, 2, "LRU", 3), K(1, 1, 3, "LRU", 3)), FALSE, 6,
    [pc : {9}, op : {"load", "store"}, addr : {16, 17, 18}])

AllOptions == {NextLine, Stride, OpenEnded, SharedStride}

\* Loads that walk down to the first blocks
WalkDown == {Command(StrideCaches, FALSE, 6, [pc : {9}, op : {"load"}, addr : {4, 8}])}
=============================================================================
