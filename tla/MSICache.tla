------------------------------ MODULE MSICache ------------------------------
(***************************************************************************)
(* The L1 cache controller of MSI-cache.sm: one action for each transition *)
(* of its state machine, built from operators named after the SLICC        *)
(* actions the transition lists.  A SLICC action that only profiles, or    *)
(* notifies the core, has no operator of its own.                          *)
(*                                                                         *)
(* Load and Ifetch have the same transitions everywhere and are one event. *)
(* The core is the environment: it may ask for any block at any time, and  *)
(* a request that z_stalls is one that is not enabled.                     *)
(*                                                                         *)
(* A definition marked "Fault" is no part of the specification: it is the  *)
(* definition after it with a plausible slip, and shows that the property  *)
(* it names would notice the slip.                                         *)
(***************************************************************************)
EXTENDS MSINetwork

CONSTANT Ways   \* blocks the one modelled set of an L1 holds

ASSUME WaysAssumption == Ways \in Nat \ {0}

VARIABLES
    cst,        \* cst[c][a]    the coherence state of block a in cache c
    entry,      \* entry[c][a]  the cache entry (valid: it is allocated)
    tbe,        \* tbe[c][a]    the transient buffer entry
    written     \* written[a]   history: the contents after the last store

cacheVars == <<cst, entry, tbe, written>>

L1State == {"I", "S", "M", "IS_D", "IM_AD", "IM_A", "SM_AD", "SM_A",
            "MI_A", "SI_A", "II_A"}

\* The states with a TBE; every other state is stable
L1Transient == L1State \ {"I", "S", "M"}

\* The states in which a Load hits (r_load_hit), and those in which a Store does
Readable == {"S", "SM_AD", "SM_A", "M"}
Writable == {"M"}

Entry == [valid : BOOLEAN, data : Data]
TBE == [valid : BOOLEAN, data : Data, pendingAcks : Int]

NoEntry == [valid |-> FALSE, data |-> InitData]
NoTBE == [valid |-> FALSE, data |-> InitData, pendingAcks |-> 0]

CacheInit ==
    /\ cst = [c \in Caches |-> [a \in Addrs |-> "I"]]
    /\ entry = [c \in Caches |-> [a \in Addrs |-> NoEntry]]
    /\ tbe = [c \in Caches |-> [a \in Addrs |-> NoTBE]]
    /\ written = [a \in Addrs |-> InitData]

CacheTypeOK ==
    /\ cst \in [Caches -> [Addrs -> L1State]]
    /\ entry \in [Caches -> [Addrs -> Entry]]
    /\ tbe \in [Caches -> [Addrs -> TBE]]
    /\ written \in [Addrs -> Data]

-----------------------------------------------------------------------------
(* The SLICC actions, as what they make of an entry, a TBE or a network.   *)

i_allocateL1CacheBlock == [valid |-> TRUE, data |-> InitData]
h_deallocateL1CacheBlock == NoEntry
u_writeDataToCache(e, m) == [e EXCEPT !.data = m.data]

\* the sequencer's writeCallback stores into the block it is handed
s_store_hit(e) == [e EXCEPT !.data = StoreInto(@)]
sx_store_hit(e) == [e EXCEPT !.data = StoreInto(@)]
StoreDone(a) == written' = [written EXCEPT ![a] = StoreInto(@)]

v_allocateTBE == [valid |-> TRUE, data |-> InitData, pendingAcks |-> 0]
w_deallocateTBE == NoTBE
x_copyDataFromCacheToTBE(t, e) == [t EXCEPT !.data = e.data]
q_updateAckCount(t, m) == [t EXCEPT !.pendingAcks = @ - m.acks]

Request(type, a, data) == [type |-> type, addr |-> a, data |-> data]

as_issueGetS(c, a) ==
    Send(reqNet, c, map_Address_to_Directory[a], Request("GETS", a, InitData))
am_issueGetM(c, a) ==
    Send(reqNet, c, map_Address_to_Directory[a], Request("GETM", a, InitData))
bs_issuePUTS(c, a) ==
    Send(reqNet, c, map_Address_to_Directory[a], Request("PUTS", a, entry[c][a].data))
bm_issuePUTM(c, a) ==
    Send(reqNet, c, map_Address_to_Directory[a], Request("PUTM", a, entry[c][a].data))

Response(type, a, data, acks) ==
    [type |-> type, addr |-> a, data |-> data, acks |-> acks]

e_sendDataFromCacheToRequestor(net, c, m) ==
    Send(net, c, m.req, Response("DATA_FROM_OWNER", m.addr, entry[c][m.addr].data, 0))
ee_sendDataFromTBEToRequestor(net, c, m) ==
    Send(net, c, m.req, Response("DATA_FROM_OWNER", m.addr, tbe[c][m.addr].data, 0))
de_sendDataFromCacheToDir(net, c, m) ==
    Send(net, c, map_Address_to_Directory[m.addr],
         Response("DATA", m.addr, entry[c][m.addr].data, 0))
dee_sendDataFromTBEToDir(net, c, m) ==
    Send(net, c, map_Address_to_Directory[m.addr],
         Response("DATA", m.addr, tbe[c][m.addr].data, 0))
fi_sendInvAck(net, c, m) ==
    Send(net, c, m.req, Response("ACK", m.addr, InitData, 1))

\* The end of a transition of block a in cache c: setState, and the entry and
\* TBE its actions left behind
setState(c, a, s, e, t) ==
    /\ cst' = [cst EXCEPT ![c][a] = s]
    /\ entry' = [entry EXCEPT ![c][a] = e]
    /\ tbe' = [tbe EXCEPT ![c][a] = t]

-----------------------------------------------------------------------------
(* mandatoryQueue_in: requests of the local core.  They touch no incoming  *)
(* message and send at most a request.                                     *)

\* A free way in the set: the request is not turned into a Replacement
cacheAvail(c) == Cardinality({b \in Addrs : entry[c][b].valid}) < Ways

L1_I_Load(c, a) ==
    /\ cst[c][a] = "I" /\ cacheAvail(c)
    /\ setState(c, a, "IS_D", i_allocateL1CacheBlock, v_allocateTBE)
    /\ reqNet' = as_issueGetS(c, a)
    /\ UNCHANGED written

L1_I_Store(c, a) ==
    /\ cst[c][a] = "I" /\ cacheAvail(c)
    /\ setState(c, a, "IM_AD", i_allocateL1CacheBlock, v_allocateTBE)
    /\ reqNet' = am_issueGetM(c, a)
    /\ UNCHANGED written

\* r_load_hit in S, SM_AD, SM_A and M: the core is handed entry[c][a].data
L1_Load_hit(c, a) ==
    /\ cst[c][a] \in Readable
    /\ UNCHANGED <<cacheVars, reqNet>>

L1_S_Store(c, a) ==
    /\ cst[c][a] = "S"
    /\ setState(c, a, "SM_AD", entry[c][a],
                x_copyDataFromCacheToTBE(v_allocateTBE, entry[c][a]))
    /\ reqNet' = am_issueGetM(c, a)
    /\ UNCHANGED written

L1_M_Store(c, a) ==
    /\ cst[c][a] = "M"
    /\ setState(c, a, "M", s_store_hit(entry[c][a]), tbe[c][a])
    /\ StoreDone(a)
    /\ UNCHANGED reqNet

\* The core asked for a block that is not cached while the set is full, and
\* cacheProbe chose a as the victim
L1_S_Replacement(c, a) ==
    /\ cst[c][a] = "S" /\ ~cacheAvail(c)
    /\ setState(c, a, "SI_A", entry[c][a], v_allocateTBE)
    /\ reqNet' = bs_issuePUTS(c, a)
    /\ UNCHANGED written

L1_M_Replacement(c, a) ==
    /\ cst[c][a] = "M" /\ ~cacheAvail(c)
    /\ setState(c, a, "MI_A", entry[c][a],
                x_copyDataFromCacheToTBE(v_allocateTBE, entry[c][a]))
    /\ reqNet' = bm_issuePUTM(c, a)
    /\ UNCHANGED written

L1Core(c, a) ==
    /\ \/ L1_I_Load(c, a)
       \/ L1_I_Store(c, a)
       \/ L1_Load_hit(c, a)
       \/ L1_S_Store(c, a)
       \/ L1_M_Store(c, a)
       \/ L1_S_Replacement(c, a)
       \/ L1_M_Replacement(c, a)
    /\ UNCHANGED <<fwdNet, rspNet, fwdFront>>

-----------------------------------------------------------------------------
(* forwardRequestNetwork_in: what the directory asks of this cache.        *)

ForwardEvent(m) ==
    CASE m.type = "GETM" -> "Fwd_GetM"
      [] m.type = "GETS" -> "Fwd_GetS"
      [] m.type = "INV" -> "Inv"
      [] m.type = "WB_ACK" -> "WB_Ack"

ForwardTrigger(c, m, states, event) ==
    /\ cst[c][m.addr] \in states
    /\ ForwardEvent(m) = event

\* Fault (AllocationMatchesState): h_deallocateL1CacheBlock is forgotten
L1_S_Inv_keeps_entry(c, m) ==
    /\ ForwardTrigger(c, m, {"S"}, "Inv")
    /\ rspNet' = fi_sendInvAck(rspNet, c, m)
    /\ setState(c, m.addr, "I", entry[c][m.addr], tbe[c][m.addr])

L1_S_Inv(c, m) ==
    /\ ForwardTrigger(c, m, {"S"}, "Inv")
    /\ rspNet' = fi_sendInvAck(rspNet, c, m)
    /\ setState(c, m.addr, "I", h_deallocateL1CacheBlock, tbe[c][m.addr])

\* Fault (ImplementsAtomicMemory): the cache acknowledges and stays readable
L1_SM_AD_Inv_stays(c, m) ==
    /\ ForwardTrigger(c, m, {"SM_AD"}, "Inv")
    /\ rspNet' = fi_sendInvAck(rspNet, c, m)
    /\ setState(c, m.addr, "SM_AD", entry[c][m.addr], tbe[c][m.addr])

L1_SM_AD_Inv(c, m) ==
    /\ ForwardTrigger(c, m, {"SM_AD"}, "Inv")
    /\ rspNet' = fi_sendInvAck(rspNet, c, m)
    /\ setState(c, m.addr, "IM_AD", entry[c][m.addr], tbe[c][m.addr])

\* Fault (NeverWedged): de_sendDataFromCacheToDir is forgotten
L1_M_Fwd_GetS_no_dir(c, m) ==
    /\ ForwardTrigger(c, m, {"M"}, "Fwd_GetS")
    /\ rspNet' = e_sendDataFromCacheToRequestor(rspNet, c, m)
    /\ setState(c, m.addr, "S", entry[c][m.addr], tbe[c][m.addr])

L1_M_Fwd_GetS(c, m) ==
    /\ ForwardTrigger(c, m, {"M"}, "Fwd_GetS")
    /\ rspNet' = de_sendDataFromCacheToDir(
                     e_sendDataFromCacheToRequestor(rspNet, c, m), c, m)
    /\ setState(c, m.addr, "S", entry[c][m.addr], tbe[c][m.addr])

L1_M_Fwd_GetM(c, m) ==
    /\ ForwardTrigger(c, m, {"M"}, "Fwd_GetM")
    /\ rspNet' = e_sendDataFromCacheToRequestor(rspNet, c, m)
    /\ setState(c, m.addr, "I", h_deallocateL1CacheBlock, tbe[c][m.addr])

L1_MI_A_Fwd_GetS(c, m) ==
    /\ ForwardTrigger(c, m, {"MI_A"}, "Fwd_GetS")
    /\ rspNet' = dee_sendDataFromTBEToDir(
                     ee_sendDataFromTBEToRequestor(rspNet, c, m), c, m)
    /\ setState(c, m.addr, "SI_A", entry[c][m.addr], tbe[c][m.addr])

\* Fault (NeverWedged): ee_sendDataFromTBEToRequestor is forgotten
L1_MI_A_Fwd_GetM_no_data(c, m) ==
    /\ ForwardTrigger(c, m, {"MI_A"}, "Fwd_GetM")
    /\ setState(c, m.addr, "II_A", entry[c][m.addr], tbe[c][m.addr])
    /\ UNCHANGED rspNet

L1_MI_A_Fwd_GetM(c, m) ==
    /\ ForwardTrigger(c, m, {"MI_A"}, "Fwd_GetM")
    /\ rspNet' = ee_sendDataFromTBEToRequestor(rspNet, c, m)
    /\ setState(c, m.addr, "II_A", entry[c][m.addr], tbe[c][m.addr])

L1_SI_A_Inv(c, m) ==
    /\ ForwardTrigger(c, m, {"SI_A"}, "Inv")
    /\ rspNet' = fi_sendInvAck(rspNet, c, m)
    /\ setState(c, m.addr, "II_A", entry[c][m.addr], tbe[c][m.addr])

\* Fault (NoUnexpectedEvent): II_A has no transition on WB_Ack
L1_WB_Ack_not_II_A(c, m) ==
    /\ ForwardTrigger(c, m, {"MI_A", "SI_A"}, "WB_Ack")
    /\ setState(c, m.addr, "I", h_deallocateL1CacheBlock, w_deallocateTBE)
    /\ UNCHANGED rspNet

\* The three transitions on WB_Ack have the same body
L1_WB_Ack(c, m) ==
    /\ ForwardTrigger(c, m, {"MI_A", "SI_A", "II_A"}, "WB_Ack")
    /\ setState(c, m.addr, "I", h_deallocateL1CacheBlock, w_deallocateTBE)
    /\ UNCHANGED rspNet

\* The (state, event) pairs of this port whose transition is z_stall
L1ForwardStalls(c, m) ==
    \/ ForwardTrigger(c, m, {"IS_D"}, "Inv")
    \/ \E e \in {"Fwd_GetS", "Fwd_GetM"} :
           ForwardTrigger(c, m, {"IM_AD", "IM_A", "SM_AD", "SM_A"}, e)

\* Every transition on this port that is no z_stall ends with
\* o_popForwardedRequestQueue
L1Forward(c, d) ==
    /\ fwdNet[d][c] # <<>> /\ AtFront(fwdFront[c], d)
    /\ LET m == Head(fwdNet[d][c])
       IN  \/ L1_S_Inv(c, m)
           \/ L1_SM_AD_Inv(c, m)
           \/ L1_M_Fwd_GetS(c, m)
           \/ L1_M_Fwd_GetM(c, m)
           \/ L1_MI_A_Fwd_GetS(c, m)
           \/ L1_MI_A_Fwd_GetM(c, m)
           \/ L1_SI_A_Inv(c, m)
           \/ L1_WB_Ack(c, m)
    /\ fwdNet' = Pop(fwdNet, d, c)
    /\ fwdFront' = [fwdFront EXCEPT ![c] = NoNode]
    /\ UNCHANGED <<written, reqNet>>

\* z_stall: the head stays, and blocks the buffer
L1Stall(c, d) ==
    /\ fwdNet[d][c] # <<>> /\ AtFront(fwdFront[c], d)
    /\ L1ForwardStalls(c, Head(fwdNet[d][c]))
    /\ fwdFront' = [fwdFront EXCEPT ![c] = d]
    /\ UNCHANGED <<cacheVars, reqNet, fwdNet, rspNet>>

-----------------------------------------------------------------------------
(* responseNetwork_in: data and acknowledgements.  The event depends on    *)
(* how the message's AckCount and the TBE's pendingAcks add up.            *)

ResponseEvent(c, m) ==
    LET last == tbe[c][m.addr].pendingAcks - m.acks = 0
    IN  CASE m.type = "DATA_FROM_DIR" ->
                 IF m.acks = 0 THEN "Data_from_Dir_No_Acks"
                 ELSE IF last THEN "Data_from_Dir_Ack_Cnt_Last"
                 ELSE "Data_from_Dir_Ack_Cnt"
          [] m.type = "DATA_FROM_OWNER" -> "Data_from_Owner"
          [] m.type = "ACK" -> IF last THEN "Inv_Ack_all" ELSE "Inv_Ack"
          [] OTHER -> "Error"

ResponseTrigger(c, m, states, events) ==
    /\ cst[c][m.addr] \in states
    /\ ResponseEvent(c, m) \in events

L1_IS_D_Data(c, m) ==
    /\ ResponseTrigger(c, m, {"IS_D"}, {"Data_from_Dir_No_Acks", "Data_from_Owner"})
    /\ setState(c, m.addr, "S", u_writeDataToCache(entry[c][m.addr], m), w_deallocateTBE)
    /\ UNCHANGED written

\* Data and the right to store into it at once; in SM_AD only from the directory
L1_Data_No_Acks(c, m) ==
    /\ \/ ResponseTrigger(c, m, {"IM_AD"}, {"Data_from_Dir_No_Acks", "Data_from_Owner"})
       \/ ResponseTrigger(c, m, {"SM_AD"}, {"Data_from_Dir_No_Acks"})
    /\ setState(c, m.addr, "M",
                sx_store_hit(u_writeDataToCache(entry[c][m.addr], m)), w_deallocateTBE)
    /\ StoreDone(m.addr)

\* Data that arrives after the last of the acknowledgements it asks for
L1_Data_Ack_Cnt_Last(c, m) ==
    /\ ResponseTrigger(c, m, {"IM_AD", "SM_AD"}, {"Data_from_Dir_Ack_Cnt_Last"})
    /\ setState(c, m.addr, "M",
                sx_store_hit(u_writeDataToCache(entry[c][m.addr], m)), w_deallocateTBE)
    /\ StoreDone(m.addr)

L1_Data_Ack_Cnt(c, m) ==
    /\ ResponseTrigger(c, m, {"IM_AD", "SM_AD"}, {"Data_from_Dir_Ack_Cnt"})
    /\ setState(c, m.addr, IF cst[c][m.addr] = "IM_AD" THEN "IM_A" ELSE "SM_A",
                u_writeDataToCache(entry[c][m.addr], m),
                q_updateAckCount(tbe[c][m.addr], m))
    /\ UNCHANGED written

L1_Inv_Ack(c, m) ==
    /\ ResponseTrigger(c, m, {"IM_AD", "IM_A", "SM_AD", "SM_A"}, {"Inv_Ack"})
    /\ setState(c, m.addr, cst[c][m.addr], entry[c][m.addr],
                q_updateAckCount(tbe[c][m.addr], m))
    /\ UNCHANGED written

L1_Inv_Ack_all(c, m) ==
    /\ ResponseTrigger(c, m, {"IM_A", "SM_A"}, {"Inv_Ack_all"})
    /\ setState(c, m.addr, "M", sx_store_hit(entry[c][m.addr]), w_deallocateTBE)
    /\ StoreDone(m.addr)

\* Every transition on this port ends with n_popResponseQueue
L1Response(c, n) ==
    /\ rspNet[n][c] # <<>>
    /\ LET m == Head(rspNet[n][c])
       IN  \/ L1_IS_D_Data(c, m)
           \/ L1_Data_No_Acks(c, m)
           \/ L1_Data_Ack_Cnt_Last(c, m)
           \/ L1_Data_Ack_Cnt(c, m)
           \/ L1_Inv_Ack(c, m)
           \/ L1_Inv_Ack_all(c, m)
    /\ rspNet' = Pop(rspNet, n, c)
    /\ UNCHANGED <<reqNet, fwdNet, fwdFront>>
=============================================================================
