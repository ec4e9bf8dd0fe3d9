---------------------------- MODULE MSIDirectory ----------------------------
(***************************************************************************)
(* The directory controllers of MSI-dir.sm: one action for each transition *)
(* of the state machine.  A block's entry lives in the directory its       *)
(* address is mapped to, so the variables are indexed by block alone.      *)
(*                                                                         *)
(* The data a directory TBE holds is only read by                          *)
(* w_writeDataToMemoryFromTBE, which copies TBE.Len bytes of it; Len is    *)
(* never assigned and SLICC initialises an int to 0, so that action copies *)
(* nothing and of a TBE only its existence is modelled.                    *)
(*                                                                         *)
(* Definitions marked "Fault" are the mutants explained in MSICache.       *)
(***************************************************************************)
EXTENDS MSINetwork

VARIABLES
    dst,        \* dst[a]      the directory state of block a
    sharers,    \* sharers[a]  NetDest of the caches with a read-only copy
    owner,      \* owner[a]    NetDest of the cache with the read-write copy
    dblk,       \* dblk[a]     the directory's (memory's) copy of the block
    dtbe,       \* dtbe[a]     a TBE is allocated
    memq        \* requests queued to, or answers from, the memory controller

dirVars == <<dst, sharers, owner, dblk, dtbe, memq>>

DirState == {"I", "S", "M", "IS_D", "IM_D", "MS_D", "MI_A", "MS_A"}

\* The states with a TBE
DirTransient == DirState \ {"I", "S", "M"}

\* The memory controller (external) answers a request with the same message,
\* in any order; req is OriginalRequestorMachId
MemoryMsg == [type : {"MEMORY_READ", "MEMORY_WB"}, addr : Addrs,
              req : Caches, data : Data]

DirInit ==
    /\ dst = [a \in Addrs |-> "I"]
    /\ sharers = [a \in Addrs |-> {}]
    /\ owner = [a \in Addrs |-> {}]
    /\ dblk = [a \in Addrs |-> InitData]
    /\ dtbe = [a \in Addrs |-> FALSE]
    /\ memq = {}

DirTypeOK ==
    /\ dst \in [Addrs -> DirState]
    /\ sharers \in [Addrs -> SUBSET Caches]
    /\ owner \in [Addrs -> SUBSET Caches]
    /\ dblk \in [Addrs -> Data]
    /\ dtbe \in [Addrs -> BOOLEAN]
    /\ memq \in SUBSET MemoryMsg

-----------------------------------------------------------------------------
(* The SLICC actions.  c is the requestor, d the directory.                *)

ars2_addRequestorToSharers(s, c) == s \union {c}
kk_removeRequestSharer(s, c) == s \ {c}
\* Fault (TypeOK): add(Owner) instead of addNetDest(Owner)
aos_addOwner_as_element(s, a) == s \union {owner[a]}

aos_addOwnertoSharers(s, a) == s \union owner[a]
e_ownerIsRequestor(c) == {c}
c_clearOwner == {}
cs_clearSharers == {}

a_sendWriteBackAck(d, c, a) ==
    Send(fwdNet, d, c, [type |-> "WB_ACK", addr |-> a, req |-> d])
la_sendWriteBackAck(d, mm) ==
    Send(fwdNet, d, mm.req, [type |-> "WB_ACK", addr |-> mm.addr, req |-> mm.req])
f_forwardRequest(d, c, m) ==
    Multicast(fwdNet, d, owner[m.addr], [type |-> m.type, addr |-> m.addr, req |-> c])
\* Fault (AckBalance): the requestor is invalidated as well
fwm_sendFwdInvToSharers(d, c, a) ==
    Multicast(fwdNet, d, sharers[a], [type |-> "INV", addr |-> a, req |-> c])

fwm_sendFwdInvToSharersMinusRequestor(d, c, a) ==
    Multicast(fwdNet, d, sharers[a] \ {c}, [type |-> "INV", addr |-> a, req |-> c])

DataFromDir(a, data, acks) ==
    [type |-> "DATA_FROM_DIR", addr |-> a, data |-> data, acks |-> acks]

d_sendData(d, mm) == Send(rspNet, d, mm.req, DataFromDir(mm.addr, mm.data, 0))
ds_sendSharedData(d, c, a) == Send(rspNet, d, c, DataFromDir(a, dblk[a], 0))
\* Fault (SingleWriter): a requestor that is no sharer is not told apart
ds2_sendSharedData_one_less(d, c, a) ==
    Send(rspNet, d, c, DataFromDir(a, dblk[a], 1 - Cardinality(sharers[a])))

ds2_sendSharedData(d, c, a) ==
    LET n == Cardinality(sharers[a])
    IN  Send(rspNet, d, c, DataFromDir(a, dblk[a], IF c \in sharers[a] THEN 1 - n ELSE 0 - n))

qf_queueMemoryFetchRequest(c, a) ==
    memq \union {[type |-> "MEMORY_READ", addr |-> a, req |-> c, data |-> dblk[a]]}
lq_queueMemoryWBRequest(c, m) ==
    memq \union {[type |-> "MEMORY_WB", addr |-> m.addr, req |-> c, data |-> m.data]}
\* lq2 is lq for data from the response queue: c is then its sender
lq2_queueMemoryWBRequest(c, m) == lq_queueMemoryWBRequest(c, m)

\* The end of a transition: the entry's state, sharers and owner, and whether
\* the block has a TBE
setDirState(a, s, sh, ow, busy) ==
    /\ dst' = [dst EXCEPT ![a] = s]
    /\ sharers' = [sharers EXCEPT ![a] = sh]
    /\ owner' = [owner EXCEPT ![a] = ow]
    /\ dtbe' = [dtbe EXCEPT ![a] = busy]

-----------------------------------------------------------------------------
(* requestQueue_in                                                         *)

RequestEvent(c, m) ==
    CASE m.type = "PUTM" -> IF c \in owner[m.addr] THEN "PUTM_Owner" ELSE "PUTM_NotOwner"
      [] m.type = "PUTS" ->
             IF Cardinality(sharers[m.addr]) < 2 /\ c \in sharers[m.addr]
             THEN "PUTS_Last" ELSE "PUTS_NotLast"
      [] OTHER -> m.type

StalePut == {"PUTS_NotLast", "PUTS_Last", "PUTM_NotOwner"}

RequestTrigger(c, m, states, events) ==
    /\ dst[m.addr] \in states
    /\ RequestEvent(c, m) \in events

Dir_I_GETS(d, c, m) ==
    /\ RequestTrigger(c, m, {"I"}, {"GETS"})
    /\ setDirState(m.addr, "IS_D", ars2_addRequestorToSharers(sharers[m.addr], c),
                   owner[m.addr], TRUE)
    /\ memq' = qf_queueMemoryFetchRequest(c, m.addr)
    /\ UNCHANGED <<dblk, fwdNet, rspNet>>

Dir_I_GETM(d, c, m) ==
    /\ RequestTrigger(c, m, {"I"}, {"GETM"})
    /\ setDirState(m.addr, "IM_D", sharers[m.addr], e_ownerIsRequestor(c), TRUE)
    /\ memq' = qf_queueMemoryFetchRequest(c, m.addr)
    /\ UNCHANGED <<dblk, fwdNet, rspNet>>

\* A writeback from a cache that lost the block in the meantime is only
\* acknowledged; the transitions of I, IS_D, IM_D, M and MI_A have this body
Dir_PutAcked(d, c, m) ==
    /\ RequestTrigger(c, m, {"I", "IS_D", "IM_D", "M", "MI_A"}, StalePut)
    /\ fwdNet' = a_sendWriteBackAck(d, c, m.addr)
    /\ UNCHANGED <<dirVars, rspNet>>

\* Fault (MissesComplete): a_sendWriteBackAck is forgotten
Dir_PutRemoved_no_ack(d, c, m) ==
    /\ \/ RequestTrigger(c, m, {"MS_D", "MS_A"}, StalePut)
       \/ RequestTrigger(c, m, {"S"}, StalePut \ {"PUTS_Last"})
    /\ setDirState(m.addr, dst[m.addr], kk_removeRequestSharer(sharers[m.addr], c),
                   owner[m.addr], dtbe[m.addr])
    /\ UNCHANGED <<dblk, memq, fwdNet, rspNet>>

\* In S, MS_D and MS_A the cache also leaves the sharers
Dir_PutRemoved(d, c, m) ==
    /\ \/ RequestTrigger(c, m, {"MS_D", "MS_A"}, StalePut)
       \/ RequestTrigger(c, m, {"S"}, StalePut \ {"PUTS_Last"})
    /\ setDirState(m.addr, dst[m.addr], kk_removeRequestSharer(sharers[m.addr], c),
                   owner[m.addr], dtbe[m.addr])
    /\ fwdNet' = a_sendWriteBackAck(d, c, m.addr)
    /\ UNCHANGED <<dblk, memq, rspNet>>

Dir_S_GETS(d, c, m) ==
    /\ RequestTrigger(c, m, {"S"}, {"GETS"})
    /\ rspNet' = ds_sendSharedData(d, c, m.addr)
    /\ setDirState(m.addr, "S", ars2_addRequestorToSharers(sharers[m.addr], c),
                   owner[m.addr], dtbe[m.addr])
    /\ UNCHANGED <<dblk, memq, fwdNet>>

\* Fault (DirectoryAsserts): cs_clearSharers is forgotten
Dir_S_GETM_keeps_sharers(d, c, m) ==
    /\ RequestTrigger(c, m, {"S"}, {"GETM"})
    /\ rspNet' = ds2_sendSharedData(d, c, m.addr)
    /\ fwdNet' = fwm_sendFwdInvToSharersMinusRequestor(d, c, m.addr)
    /\ setDirState(m.addr, "M", sharers[m.addr], e_ownerIsRequestor(c), dtbe[m.addr])
    /\ UNCHANGED <<dblk, memq>>

Dir_S_GETM(d, c, m) ==
    /\ RequestTrigger(c, m, {"S"}, {"GETM"})
    /\ rspNet' = ds2_sendSharedData(d, c, m.addr)
    /\ fwdNet' = fwm_sendFwdInvToSharersMinusRequestor(d, c, m.addr)
    /\ setDirState(m.addr, "M", cs_clearSharers, e_ownerIsRequestor(c), dtbe[m.addr])
    /\ UNCHANGED <<dblk, memq>>

Dir_S_PUTS_Last(d, c, m) ==
    /\ RequestTrigger(c, m, {"S"}, {"PUTS_Last"})
    /\ setDirState(m.addr, "I", kk_removeRequestSharer(sharers[m.addr], c),
                   owner[m.addr], dtbe[m.addr])
    /\ fwdNet' = a_sendWriteBackAck(d, c, m.addr)
    /\ UNCHANGED <<dblk, memq, rspNet>>

\* Fault (ReaderIsTracked): aos_addOwnertoSharers is forgotten
Dir_M_GETS_forgets_owner(d, c, m) ==
    /\ RequestTrigger(c, m, {"M"}, {"GETS"})
    /\ fwdNet' = f_forwardRequest(d, c, m)
    /\ setDirState(m.addr, "MS_D", ars2_addRequestorToSharers(sharers[m.addr], c),
                   c_clearOwner, TRUE)
    /\ UNCHANGED <<dblk, memq, rspNet>>

Dir_M_GETS(d, c, m) ==
    /\ RequestTrigger(c, m, {"M"}, {"GETS"})
    /\ fwdNet' = f_forwardRequest(d, c, m)
    /\ setDirState(m.addr, "MS_D",
                   aos_addOwnertoSharers(ars2_addRequestorToSharers(sharers[m.addr], c), m.addr),
                   c_clearOwner, TRUE)
    /\ UNCHANGED <<dblk, memq, rspNet>>

Dir_M_GETM(d, c, m) ==
    /\ RequestTrigger(c, m, {"M"}, {"GETM"})
    /\ fwdNet' = f_forwardRequest(d, c, m)
    /\ setDirState(m.addr, "M", sharers[m.addr], e_ownerIsRequestor(c), dtbe[m.addr])
    /\ UNCHANGED <<dblk, memq, rspNet>>

\* Fault (MemoryMatchesState): lq_queueMemoryWBRequest is forgotten
Dir_M_PUTM_Owner_no_writeback(d, c, m) ==
    /\ RequestTrigger(c, m, {"M"}, {"PUTM_Owner"})
    /\ setDirState(m.addr, "MI_A", sharers[m.addr], c_clearOwner, TRUE)
    /\ dblk' = [dblk EXCEPT ![m.addr] = m.data]
    /\ UNCHANGED <<memq, fwdNet, rspNet>>

\* pl_writeDataToDirectory updates dblk
Dir_M_PUTM_Owner(d, c, m) ==
    /\ RequestTrigger(c, m, {"M"}, {"PUTM_Owner"})
    /\ setDirState(m.addr, "MI_A", sharers[m.addr], c_clearOwner, TRUE)
    /\ dblk' = [dblk EXCEPT ![m.addr] = m.data]
    /\ memq' = lq_queueMemoryWBRequest(c, m)
    /\ UNCHANGED <<fwdNet, rspNet>>

\* The (state, event) pairs whose transition is z_stall
DirStalls(c, m) == RequestTrigger(c, m, DirTransient, {"GETS", "GETM"})

\* Every transition on this port that is no z_stall ends with
\* i_popIncomingRequestQueue
DirRequest(d, c) ==
    /\ reqNet[c][d] # <<>> /\ AtFront(reqFront[d], c)
    /\ LET m == Head(reqNet[c][d])
       IN  \/ Dir_I_GETS(d, c, m)
           \/ Dir_I_GETM(d, c, m)
           \/ Dir_PutAcked(d, c, m)
           \/ Dir_PutRemoved(d, c, m)
           \/ Dir_S_GETS(d, c, m)
           \/ Dir_S_GETM(d, c, m)
           \/ Dir_S_PUTS_Last(d, c, m)
           \/ Dir_M_GETS(d, c, m)
           \/ Dir_M_GETM(d, c, m)
           \/ Dir_M_PUTM_Owner(d, c, m)
    /\ reqNet' = Pop(reqNet, c, d)
    /\ reqFront' = [reqFront EXCEPT ![d] = NoNode]

\* z_stall: the head stays, and blocks the buffer
DirStall(d, c) ==
    /\ reqNet[c][d] # <<>> /\ AtFront(reqFront[d], c)
    /\ DirStalls(c, Head(reqNet[c][d]))
    /\ reqFront' = [reqFront EXCEPT ![d] = c]
    /\ UNCHANGED <<dirVars, reqNet, fwdNet, rspNet>>

-----------------------------------------------------------------------------
\* Fault (ReadersSeeLastWrite): pl2_writeDataToDirectory is forgotten
DirResponse_not_written(d, c) ==
    /\ rspNet[c][d] # <<>>
    /\ LET m == Head(rspNet[c][d])
       IN  /\ m.type = "DATA" /\ dst[m.addr] = "MS_D"
           /\ dst' = [dst EXCEPT ![m.addr] = "MS_A"]
           /\ memq' = lq2_queueMemoryWBRequest(c, m)
    /\ rspNet' = Pop(rspNet, c, d)
    /\ UNCHANGED <<sharers, owner, dblk, dtbe, reqNet, fwdNet, reqFront>>

(* responseQueue_in: the data a downgraded owner sends.                    *)
DirResponse(d, c) ==
    /\ rspNet[c][d] # <<>>
    /\ LET m == Head(rspNet[c][d])
       IN  /\ m.type = "DATA" /\ dst[m.addr] = "MS_D"
           /\ dst' = [dst EXCEPT ![m.addr] = "MS_A"]
           /\ dblk' = [dblk EXCEPT ![m.addr] = m.data]
           /\ memq' = lq2_queueMemoryWBRequest(c, m)
    /\ rspNet' = Pop(rspNet, c, d)
    /\ UNCHANGED <<sharers, owner, dtbe, reqNet, fwdNet, reqFront>>

(* memQueue_in: the memory controller is done with mm.                     *)

Dir_Memory_Data(d, mm) ==
    /\ mm.type = "MEMORY_READ" /\ dst[mm.addr] \in {"IS_D", "IM_D"}
    /\ setDirState(mm.addr, IF dst[mm.addr] = "IS_D" THEN "S" ELSE "M",
                   sharers[mm.addr], owner[mm.addr], FALSE)
    /\ rspNet' = d_sendData(d, mm)
    /\ UNCHANGED fwdNet

Dir_MI_A_Memory_Ack(d, mm) ==
    /\ mm.type = "MEMORY_WB" /\ dst[mm.addr] = "MI_A"
    /\ setDirState(mm.addr, "I", sharers[mm.addr], owner[mm.addr], FALSE)
    /\ fwdNet' = la_sendWriteBackAck(d, mm)
    /\ UNCHANGED rspNet

Dir_MS_A_Memory_Ack(d, mm) ==
    /\ mm.type = "MEMORY_WB" /\ dst[mm.addr] = "MS_A"
    /\ setDirState(mm.addr, "S", sharers[mm.addr], owner[mm.addr], FALSE)
    /\ UNCHANGED <<fwdNet, rspNet>>

\* Every transition on this port ends with qm_popMemQueue
DirMemory(d, a) ==
    \E mm \in memq :
        /\ mm.addr = a /\ map_Address_to_Directory[a] = d
        /\ \/ Dir_Memory_Data(d, mm)
           \/ Dir_MI_A_Memory_Ack(d, mm)
           \/ Dir_MS_A_Memory_Ack(d, mm)
        /\ memq' = memq \ {mm}
        /\ UNCHANGED <<dblk, reqNet, reqFront>>
=============================================================================
