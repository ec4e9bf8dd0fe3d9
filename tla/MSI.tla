-------------------------------- MODULE MSI --------------------------------
(***************************************************************************)
(* The MSI protocol: the L1 controllers of MSICache and the directories of *)
(* MSIDirectory, joined by the three virtual networks of MSINetwork.       *)
(***************************************************************************)
EXTENDS MSICache, MSIDirectory

vars == <<netVars, cacheVars, dirVars>>

Init == NetInit /\ CacheInit /\ DirInit

L1CoreStep(c, a) == L1Core(c, a) /\ UNCHANGED <<dirVars, reqFront>>
L1ForwardStep(c, d) == L1Forward(c, d) /\ UNCHANGED <<dirVars, reqFront>>
L1StallStep(c, d) == L1Stall(c, d) /\ UNCHANGED <<dirVars, reqFront>>
L1ResponseStep(c, n) == L1Response(c, n) /\ UNCHANGED <<dirVars, reqFront>>
DirRequestStep(d, c) == DirRequest(d, c) /\ UNCHANGED <<cacheVars, fwdFront>>
DirStallStep(d, c) == DirStall(d, c) /\ UNCHANGED <<cacheVars, fwdFront>>
DirResponseStep(d, c) == DirResponse(d, c) /\ UNCHANGED <<cacheVars, fwdFront>>
DirMemoryStep(d, a) == DirMemory(d, a) /\ UNCHANGED <<cacheVars, fwdFront>>

\* Some controller takes a message or a memory answer off one of its buffers
Consume ==
    \/ \E c \in Caches, d \in Dirs : L1ForwardStep(c, d)
    \/ \E c \in Caches, n \in Nodes : L1ResponseStep(c, n)
    \/ \E c \in Caches, d \in Dirs : DirRequestStep(d, c)
    \/ \E c \in Caches, d \in Dirs : DirResponseStep(d, c)
    \/ \E d \in Dirs, a \in Addrs : DirMemoryStep(d, a)

Next ==
    \/ \E c \in Caches, a \in Addrs : L1CoreStep(c, a)
    \/ Consume
    \/ \E c \in Caches, d \in Dirs : L1StallStep(c, d)
    \/ \E c \in Caches, d \in Dirs : DirStallStep(d, c)

Spec == Init /\ [][Next]_vars

(***************************************************************************)
(* Fairness: the network delivers every message after a finite delay, a    *)
(* MessageBuffer is first in first out, and Ruby wakes a controller again  *)
(* while a buffer of it is not empty.  A request or forwarded message that *)
(* may be consumed again and again, each time another channel does not     *)
(* stall in front of it, therefore is consumed at last: strong fairness    *)
(* per channel.  Responses and memory answers never wait for another       *)
(* message, and need weak fairness only.  Nothing is assumed of the cores. *)
(***************************************************************************)
Fairness ==
    /\ \A c \in Caches, d \in Dirs :
           /\ SF_vars(L1ForwardStep(c, d))
           /\ SF_vars(DirRequestStep(d, c))
           /\ WF_vars(DirResponseStep(d, c))
    /\ \A c \in Caches, n \in Nodes : WF_vars(L1ResponseStep(c, n))
    /\ \A d \in Dirs, a \in Addrs : WF_vars(DirMemoryStep(d, a))

FairSpec == Spec /\ Fairness

-----------------------------------------------------------------------------

(* Every variable has its type. *)
TypeOK == NetTypeOK /\ CacheTypeOK /\ DirTypeOK

(* Single writer, multiple readers: while a core may store into a block no *)
(* other core can load or store it.  It hangs on the IM_A / SM_A wait for  *)
(* the last Inv_Ack and on the stalls that order Inv behind the data.      *)
SingleWriter ==
    \A a \in Addrs : \A c, o \in Caches :
        cst[c][a] \in Writable /\ o # c => cst[o][a] \notin Readable

(* A load hit returns the contents the last store left, whoever made it:   *)
(* no data is lost or stale on its way through owner, directory, memory    *)
(* and the writeback races.                                                *)
ReadersSeeLastWrite ==
    \A c \in Caches, a \in Addrs :
        cst[c][a] \in Readable => entry[c][a].data = written[a]

\* The (state, event) pairs of each port that have a transition
L1ForwardExpects(c, m) ==
    \/ ForwardTrigger(c, m, {"S", "SM_AD", "SI_A"}, "Inv")
    \/ \E e \in {"Fwd_GetS", "Fwd_GetM"} : ForwardTrigger(c, m, {"M", "MI_A"}, e)
    \/ ForwardTrigger(c, m, {"MI_A", "SI_A", "II_A"}, "WB_Ack")
    \/ L1ForwardStalls(c, m)

L1ResponseExpects(c, m) ==
    \/ ResponseTrigger(c, m, {"IS_D", "IM_AD", "SM_AD"}, {"Data_from_Dir_No_Acks"})
    \/ ResponseTrigger(c, m, {"IS_D", "IM_AD"}, {"Data_from_Owner"})
    \/ ResponseTrigger(c, m, {"IM_AD", "SM_AD"},
                       {"Data_from_Dir_Ack_Cnt", "Data_from_Dir_Ack_Cnt_Last"})
    \/ ResponseTrigger(c, m, {"IM_AD", "IM_A", "SM_AD", "SM_A"}, {"Inv_Ack"})
    \/ ResponseTrigger(c, m, {"IM_A", "SM_A"}, {"Inv_Ack_all"})

DirRequestExpects(c, m) ==
    \/ RequestTrigger(c, m, DirState, {"GETS", "GETM"} \union StalePut)
    \/ RequestTrigger(c, m, {"M"}, {"PUTM_Owner"})

DirResponseExpects(m) == m.type = "DATA" /\ dst[m.addr] = "MS_D"

DirMemoryExpects(mm) ==
    \/ mm.type = "MEMORY_READ" /\ dst[mm.addr] \in {"IS_D", "IM_D"}
    \/ mm.type = "MEMORY_WB" /\ dst[mm.addr] \in {"MI_A", "MS_A"}

(* Whatever is in front of a port has a transition in the state it meets. *)
EventsExpected ==
    /\ \A c \in Caches, d \in Dirs :
           /\ fwdNet[d][c] # <<>> => L1ForwardExpects(c, Head(fwdNet[d][c]))
           /\ reqNet[c][d] # <<>> => DirRequestExpects(c, Head(reqNet[c][d]))
           /\ rspNet[c][d] # <<>> => DirResponseExpects(Head(rspNet[c][d]))
    /\ \A c \in Caches, n \in Nodes :
           rspNet[n][c] # <<>> => L1ResponseExpects(c, Head(rspNet[n][c]))
    /\ \A mm \in memq : DirMemoryExpects(mm)

\* Each of these pairs is one of a transition that can be taken
TransitionsExist ==
    /\ \A c \in Caches, d \in Dirs :
           /\ fwdNet[d][c] # <<>> /\ AtFront(fwdFront[c], d) =>
                  LET m == Head(fwdNet[d][c])
                  IN  L1ForwardExpects(c, m) =>
                          ENABLED L1ForwardStep(c, d) \/ L1ForwardStalls(c, m)
           /\ reqNet[c][d] # <<>> /\ AtFront(reqFront[d], c) =>
                  LET m == Head(reqNet[c][d])
                  IN  DirRequestExpects(c, m) => ENABLED DirRequestStep(d, c) \/ DirStalls(c, m)
           /\ rspNet[c][d] # <<>> /\ DirResponseExpects(Head(rspNet[c][d])) =>
                  ENABLED DirResponseStep(d, c)
    /\ \A c \in Caches, n \in Nodes :
           rspNet[n][c] # <<>> /\ L1ResponseExpects(c, Head(rspNet[n][c])) =>
               ENABLED L1ResponseStep(c, n)
    /\ \A mm \in memq :
           DirMemoryExpects(mm) =>
               ENABLED DirMemoryStep(map_Address_to_Directory[mm.addr], mm.addr)

(* A controller never meets an event its state has no transition for: that *)
(* is a fatal error of the generated state machine.                        *)
NoUnexpectedEvent == EventsExpected /\ TransitionsExist

(* The assertions of the directory's setState: one owner and no sharers in *)
(* M, neither in I.                                                        *)
DirectoryAsserts ==
    \A a \in Addrs :
        /\ dst[a] = "M" => Cardinality(owner[a]) = 1 /\ sharers[a] = {}
        /\ dst[a] = "I" => owner[a] = {} /\ sharers[a] = {}

(* No TBE or cache entry leaks, and none is used that is not there: an L1  *)
(* has a TBE exactly in its transient states and an entry exactly outside  *)
(* I; the directory has a TBE exactly in its transient states.             *)
AllocationMatchesState ==
    /\ \A c \in Caches, a \in Addrs :
           /\ tbe[c][a].valid <=> cst[c][a] \in L1Transient
           /\ entry[c][a].valid <=> cst[c][a] # "I"
    /\ \A a \in Addrs : dtbe[a] <=> dst[a] \in DirTransient

(* A directory waits for memory exactly when one request for the block is  *)
(* at the memory controller, of the kind the state waits for.              *)
MemoryMatchesState ==
    \A a \in Addrs :
        LET pending == {mm \in memq : mm.addr = a}
        IN  CASE dst[a] \in {"IS_D", "IM_D"} ->
                     \E mm \in pending : pending = {mm} /\ mm.type = "MEMORY_READ"
              [] dst[a] \in {"MI_A", "MS_A"} ->
                     \E mm \in pending : pending = {mm} /\ mm.type = "MEMORY_WB"
              [] OTHER -> pending = {}

\* The places of the invalidations for the sake of c's store into block a
\* that are under way, and of the acknowledgements to it
InvsUnderWay(c, a) ==
    LET isInv(m) == m.type = "INV" /\ m.addr = a /\ m.req = c
    IN  UNION {{<<d, o, i>> : i \in {j \in DOMAIN fwdNet[d][o] : isInv(fwdNet[d][o][j])}} :
                   d \in Dirs, o \in Caches}

AcksUnderWay(c, a) ==
    LET isAck(m) == m.type = "ACK" /\ m.addr = a
    IN  UNION {{<<n, i>> : i \in {j \in DOMAIN rspNet[n][c] : isAck(rspNet[n][c][j])}} :
                   n \in Nodes}

(* Acknowledgement accounting: while a store waits for the last Inv_Ack,   *)
(* pendingAcks is the number of invalidations of it and acknowledgements   *)
(* to it that are still under way; none is counted twice or lost.          *)
AckBalance ==
    \A c \in Caches, a \in Addrs :
        cst[c][a] \in {"IM_A", "SM_A"} =>
            tbe[c][a].pendingAcks =
                Cardinality(InvsUnderWay(c, a)) + Cardinality(AcksUnderWay(c, a))

(* A cache that can load a block is in the directory's books, or an        *)
(* invalidation is on its way to it: no reader is forgotten by an          *)
(* eviction, a downgrade or an ownership hand-over.                        *)
ReaderIsTracked ==
    \A c \in Caches, a \in Addrs :
        cst[c][a] \in Readable =>
            \/ c \in sharers[a] \union owner[a]
            \/ \E d \in Dirs : \E i \in DOMAIN fwdNet[d][c] :
                   /\ fwdNet[d][c][i].addr = a
                   /\ fwdNet[d][c][i].type \in {"INV", "GETM"}

(* The protocol implements the atomic memory of MSIAtomic: what a core can *)
(* do with a block is decided by its L1 state alone.                       *)
Access(s) == IF s \in Writable THEN "W" ELSE IF s \in Readable THEN "R" ELSE "N"

Atomic == INSTANCE MSIAtomic WITH
    Cores <- Caches, Blocks <- Addrs, Contents <- Versions,
    perm <- [c \in Caches |-> [a \in Addrs |-> Access(cst[c][a])]],
    copy <- [c \in Caches |-> [a \in Addrs |->
                IF cst[c][a] \in Readable THEN entry[c][a].data ELSE InitData]],
    latest <- written

(* Every step of the controllers is an atomic grant, store, downgrade or   *)
(* revocation of MSIAtomic, or changes nothing a core can tell.            *)
ImplementsAtomicMemory == Atomic!AtomicSpec

(* As long as a miss or a writeback is outstanding some controller can     *)
(* take a message off a buffer: the z_stalls never form a cycle.           *)
NeverWedged ==
    (\E c \in Caches, a \in Addrs : tbe[c][a].valid) => ENABLED Consume

(* Every miss and every writeback completes: a TBE is freed again.         *)
MissesComplete ==
    \A c \in Caches, a \in Addrs : tbe[c][a].valid ~> ~tbe[c][a].valid
=============================================================================
