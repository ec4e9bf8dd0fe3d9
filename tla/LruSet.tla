------------------------------- MODULE LruSet -------------------------------
(***************************************************************************)
(* What one set of a cache promises (cache.h): a list of at most Assoc     *)
(* lines, the next one to be replaced last.  CacheSet shows that the       *)
(* pointers of cache.c implement it.                                       *)
(***************************************************************************)
EXTENDS Naturals, SequencesExt

CONSTANTS Assoc, Tags

VARIABLES
    policy,     \* "LRU" or "FIFO"
    lines,      \* sequence of [tag, dirty]
    call,       \* the last operation and its tag
    written     \* the tags it wrote back

vars == <<policy, lines, call, written>>

Init == policy \in {"LRU", "FIFO"} /\ lines = <<>> /\ call = <<"cache_create", 0>> /\ written = {}

DirtyTags(ls) == {ls[i].tag : i \in {k \in DOMAIN ls : ls[k].dirty}}

\* The places of a tag, none or one
At(ls, tag) == {i \in DOMAIN ls : ls[i].tag = tag}

\* Each operation is given the lines before it
Hit(ls, i, write) ==
    LET line == [ls[i] EXCEPT !.dirty = @ \/ write]
    IN  /\ written' = {}
        /\ lines' = IF policy = "LRU" THEN <<line>> \o RemoveAt(ls, i) ELSE [ls EXCEPT ![i] = line]

Miss(ls, tag, write) ==
    LET kept == IF Len(ls) < Assoc THEN ls ELSE Front(ls)
    IN  /\ At(ls, tag) = {}
        /\ written' = DirtyTags(ls) \ DirtyTags(kept)
        /\ lines' = <<[tag |-> tag, dirty |-> write]>> \o kept

FlushAddr(ls, i) ==
    /\ written' = DirtyTags(<<ls[i]>>)
    /\ lines' = RemoveAt(ls, i)

Flush(ls) ==
    /\ written' = DirtyTags(ls)
    /\ lines' = <<>>

\* Nothing to flush
FlushNone(ls, tag) == At(ls, tag) = {} /\ written' = {} /\ lines' = ls

\* The call says what has to happen: a hit that leaves the lines as they are
\* is no stuttering step.
Next ==
    /\ LET ls == lines
       IN  \/ \E tag \in Tags, cmd \in {"Read", "Write"} :
                 /\ call' = <<cmd, tag>>
                 /\ \/ \E i \in At(ls, tag) : Hit(ls, i, cmd = "Write")
                    \/ Miss(ls, tag, cmd = "Write")
           \/ \E tag \in Tags :
                 /\ call' = <<"cache_flush_addr", tag>>
                 /\ FlushNone(ls, tag) \/ \E i \in At(ls, tag) : FlushAddr(ls, i)
           \/ call' = <<"cache_flush", 0>> /\ Flush(ls)
    /\ UNCHANGED policy

Spec == Init /\ [][Next]_vars
=============================================================================
