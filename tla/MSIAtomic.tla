----------------------------- MODULE MSIAtomic -----------------------------
(***************************************************************************)
(* What the protocol promises the cores, with no messages and no transient *)
(* states: for each block a core has no, read-only or read-write access,   *)
(* the copies of all cores that have access agree with the last store, and *)
(* rights only change hands so that there is one writer or many readers.   *)
(***************************************************************************)
EXTENDS Integers

CONSTANTS Cores, Blocks, Contents

VARIABLES
    perm,       \* perm[c][a]  "N" none, "R" read-only, "W" read-write
    copy,       \* copy[c][a]  the contents core c is given while perm # "N"
    latest      \* latest[a]   the contents after the last store

atomicVars == <<perm, copy, latest>>

First == 0
Bump(v) == (v + 1) % Contents

AtomicInit ==
    /\ perm = [c \in Cores |-> [a \in Blocks |-> "N"]]
    /\ copy = [c \in Cores |-> [a \in Blocks |-> First]]
    /\ latest = [a \in Blocks |-> First]

SetPerm(c, a, p) == perm' = [perm EXCEPT ![c][a] = p]
SetCopy(c, a, v) == copy' = [copy EXCEPT ![c][a] = v]

\* Core c may load block a, and sees the last store
GrantRead(c, a) ==
    /\ perm[c][a] = "N"
    /\ \A o \in Cores : perm[o][a] # "W"
    /\ SetPerm(c, a, "R")
    /\ SetCopy(c, a, latest[a])
    /\ UNCHANGED latest

\* Core c becomes the only one with access, and its store is performed
GrantWrite(c, a) ==
    /\ perm[c][a] \in {"N", "R"}
    /\ \A o \in Cores \ {c} : perm[o][a] = "N"
    /\ SetPerm(c, a, "W")
    /\ SetCopy(c, a, Bump(latest[a]))
    /\ latest' = [latest EXCEPT ![a] = Bump(@)]

\* The writer stores again
Write(c, a) ==
    /\ perm[c][a] = "W"
    /\ SetCopy(c, a, Bump(copy[c][a]))
    /\ latest' = [latest EXCEPT ![a] = Bump(@)]
    /\ UNCHANGED perm

\* The writer keeps a read-only copy
Downgrade(c, a) ==
    /\ perm[c][a] = "W"
    /\ SetPerm(c, a, "R")
    /\ UNCHANGED <<copy, latest>>

\* Access is given up (eviction) or taken away (invalidation)
Revoke(c, a) ==
    /\ perm[c][a] # "N"
    /\ SetPerm(c, a, "N")
    /\ SetCopy(c, a, First)
    /\ UNCHANGED latest

AtomicNext ==
    \E c \in Cores, a \in Blocks :
        \/ GrantRead(c, a)
        \/ GrantWrite(c, a)
        \/ Write(c, a)
        \/ Downgrade(c, a)
        \/ Revoke(c, a)

AtomicSpec == AtomicInit /\ [][AtomicNext]_atomicVars
=============================================================================
