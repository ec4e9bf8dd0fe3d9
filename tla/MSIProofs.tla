----------------------------- MODULE MSIProofs -----------------------------
(***************************************************************************)
(* Theorems about MSI, for every number of caches, directories, blocks,    *)
(* versions and ways.                                                      *)
(***************************************************************************)
EXTENDS MSI, FiniteSetTheorems, TLAPS

-----------------------------------------------------------------------------
(* The networks.                                                           *)

(* Sending a message of the network's type keeps the network well typed. *)
LEMMA SendType ==
    ASSUME NEW I, NEW J, NEW M, NEW net \in [I -> [J -> Seq(M)]],
           NEW s \in I, NEW d \in J, NEW m \in M
    PROVE  Send(net, s, d, m) \in [I -> [J -> Seq(M)]]
BY DEF Send

(* So does sending it to a set of destinations. *)
LEMMA MulticastType ==
    ASSUME NEW I, NEW J, NEW M, NEW net \in [I -> [J -> Seq(M)]],
           NEW s \in I, NEW D, NEW m \in M
    PROVE  Multicast(net, s, D, m) \in [I -> [J -> Seq(M)]]
BY DEF Multicast

(* The head of a channel is a message, and removing it keeps the type. *)
LEMMA PopType ==
    ASSUME NEW I, NEW J, NEW M, NEW net \in [I -> [J -> Seq(M)]],
           NEW s \in I, NEW d \in J, net[s][d] # <<>>
    PROVE  /\ Head(net[s][d]) \in M
           /\ Pop(net, s, d) \in [I -> [J -> Seq(M)]]
BY DEF Pop

(* The contents a store leaves are contents. *)
LEMMA StoreIntoType ==
    ASSUME NEW v \in Data
    PROVE  StoreInto(v) \in Data
BY NetworkAssumption DEF NetworkAssumption, StoreInto, Data

(* The contents before the first store are contents. *)
LEMMA InitDataType == InitData \in Data
BY NetworkAssumption DEF NetworkAssumption, InitData, Data

(* The home of a block is a directory, and every directory is a node. *)
LEMMA HomeType ==
    ASSUME NEW a \in Addrs
    PROVE  map_Address_to_Directory[a] \in Dirs /\ map_Address_to_Directory[a] \in Nodes
BY NetworkAssumption DEF NetworkAssumption, Nodes

-----------------------------------------------------------------------------
(* The L1 controllers.                                                     *)

L1Types == CacheTypeOK /\ NetTypeOK

(* An entry, a TBE or a state of the right type is a right one to end a    *)
(* transition with.                                                        *)
LEMMA SetStateType ==
    ASSUME CacheTypeOK, NEW c \in Caches, NEW a \in Addrs,
           NEW s \in L1State, NEW e \in Entry, NEW t \in TBE,
           setState(c, a, s, e, t)
    PROVE  /\ cst' \in [Caches -> [Addrs -> L1State]]
           /\ entry' \in [Caches -> [Addrs -> Entry]]
           /\ tbe' \in [Caches -> [Addrs -> TBE]]
BY DEF setState, CacheTypeOK

(* Completing a store leaves an entry and a history of the right type. *)
LEMMA StoreDoneType ==
    ASSUME CacheTypeOK, NEW a \in Addrs, StoreDone(a)
    PROVE  written' \in [Addrs -> Data]
BY StoreIntoType DEF StoreDone, CacheTypeOK

(* What the actions on entries and TBEs return. *)
LEMMA BufferTypes ==
    ASSUME NEW e \in Entry, NEW t \in TBE, NEW m \in ResponseMsg
    PROVE  /\ i_allocateL1CacheBlock \in Entry
           /\ h_deallocateL1CacheBlock \in Entry
           /\ u_writeDataToCache(e, m) \in Entry
           /\ s_store_hit(e) \in Entry
           /\ sx_store_hit(e) \in Entry
           /\ sx_store_hit(u_writeDataToCache(e, m)) \in Entry
           /\ v_allocateTBE \in TBE
           /\ w_deallocateTBE \in TBE
           /\ x_copyDataFromCacheToTBE(v_allocateTBE, e) \in TBE
           /\ q_updateAckCount(t, m) \in TBE
<1>1. e.data \in Data /\ m.data \in Data /\ m.acks \in Int /\ t.pendingAcks \in Int
    BY DEF Entry, TBE, ResponseMsg
<1>2. InitData \in Data /\ StoreInto(e.data) \in Data /\ StoreInto(m.data) \in Data
    BY <1>1, StoreIntoType, InitDataType
<1>3. /\ i_allocateL1CacheBlock \in Entry
      /\ h_deallocateL1CacheBlock \in Entry
      /\ v_allocateTBE \in TBE
      /\ w_deallocateTBE \in TBE
    BY <1>2 DEF i_allocateL1CacheBlock, h_deallocateL1CacheBlock, NoEntry, v_allocateTBE,
                w_deallocateTBE, NoTBE, Entry, TBE
<1>4. u_writeDataToCache(e, m) \in Entry /\ u_writeDataToCache(e, m).data = m.data
    BY <1>1 DEF u_writeDataToCache, Entry
<1>5. s_store_hit(e) \in Entry /\ sx_store_hit(e) \in Entry
    BY <1>2 DEF s_store_hit, sx_store_hit, Entry
<1>6. sx_store_hit(u_writeDataToCache(e, m)) \in Entry
    BY <1>2, <1>4 DEF sx_store_hit, Entry
<1>7. x_copyDataFromCacheToTBE(v_allocateTBE, e) \in TBE
    BY <1>1, <1>3 DEF x_copyDataFromCacheToTBE, TBE
<1>8. q_updateAckCount(t, m) \in TBE
    BY <1>1 DEF q_updateAckCount, TBE
<1> QED BY <1>3, <1>4, <1>5, <1>6, <1>7, <1>8

(* A request of the local core keeps the types. *)
LEMMA L1CoreType ==
    ASSUME L1Types, NEW c \in Caches, NEW a \in Addrs, L1Core(c, a), reqFront' = reqFront
    PROVE  L1Types'
<1> USE DEF L1Types
<1>1. entry[c][a] \in Entry /\ tbe[c][a] \in TBE /\ entry[c][a].data \in Data
    BY DEF CacheTypeOK, Entry
<1>2. \A m \in RequestMsg :
          Send(reqNet, c, map_Address_to_Directory[a], m) \in [Caches -> [Dirs -> Seq(RequestMsg)]]
    BY SendType, HomeType DEF NetTypeOK
<1>3. \A type \in {"GETS", "GETM", "PUTS", "PUTM"}, v \in Data : Request(type, a, v) \in RequestMsg
    BY DEF Request, RequestMsg
<1>4. /\ as_issueGetS(c, a) \in [Caches -> [Dirs -> Seq(RequestMsg)]]
      /\ am_issueGetM(c, a) \in [Caches -> [Dirs -> Seq(RequestMsg)]]
      /\ bs_issuePUTS(c, a) \in [Caches -> [Dirs -> Seq(RequestMsg)]]
      /\ bm_issuePUTM(c, a) \in [Caches -> [Dirs -> Seq(RequestMsg)]]
    BY <1>1, <1>2, <1>3, InitDataType DEF as_issueGetS, am_issueGetM, bs_issuePUTS, bm_issuePUTM
<1>5. /\ i_allocateL1CacheBlock \in Entry
      /\ s_store_hit(entry[c][a]) \in Entry
      /\ v_allocateTBE \in TBE
      /\ x_copyDataFromCacheToTBE(v_allocateTBE, entry[c][a]) \in TBE
    <2>1. [type |-> "ACK", addr |-> a, data |-> InitData, acks |-> 1] \in ResponseMsg
        BY InitDataType DEF ResponseMsg
    <2> QED BY <1>1, <2>1, BufferTypes
<1>6. reqNet' \in [Caches -> [Dirs -> Seq(RequestMsg)]]
    BY <1>4 DEF L1Core, L1_I_Load, L1_I_Store, L1_Load_hit, L1_S_Store, L1_M_Store,
                L1_S_Replacement, L1_M_Replacement, NetTypeOK
<1>7. CacheTypeOK'
    <2> USE <1>1, <1>5
    <2>1. ASSUME NEW s \in L1State, NEW e \in Entry, NEW t \in TBE, setState(c, a, s, e, t),
                 written' \in [Addrs -> Data]
          PROVE  CacheTypeOK'
        BY <2>1, SetStateType DEF CacheTypeOK
    <2>2. written' = written => written' \in [Addrs -> Data]
        BY DEF CacheTypeOK
    <2>3. {"I", "S", "M", "IS_D", "IM_AD", "SM_AD", "SI_A", "MI_A"} \subseteq L1State
        BY DEF L1State
    <2>4. CASE L1_I_Load(c, a)
        BY <2>1, <2>2, <2>3, <2>4 DEF L1_I_Load
    <2>5. CASE L1_I_Store(c, a)
        BY <2>1, <2>2, <2>3, <2>5 DEF L1_I_Store
    <2>6. CASE L1_Load_hit(c, a)
        BY <2>6 DEF L1_Load_hit, CacheTypeOK, cacheVars
    <2>7. CASE L1_S_Store(c, a)
        BY <2>1, <2>2, <2>3, <2>7 DEF L1_S_Store
    <2>8. CASE L1_M_Store(c, a)
        BY <2>1, <2>3, <2>8, StoreDoneType DEF L1_M_Store
    <2>9. CASE L1_S_Replacement(c, a)
        BY <2>1, <2>2, <2>3, <2>9 DEF L1_S_Replacement
    <2>10. CASE L1_M_Replacement(c, a)
        BY <2>1, <2>2, <2>3, <2>10 DEF L1_M_Replacement
    <2> QED BY <2>4, <2>5, <2>6, <2>7, <2>8, <2>9, <2>10 DEF L1Core
<1> QED BY <1>6, <1>7 DEF L1Core, NetTypeOK

(* A response of an L1 to the requestor of m, or to the home directory. *)
LEMMA L1SendType ==
    ASSUME L1Types, NEW c \in Caches, NEW m \in ForwardMsg
    PROVE  /\ fi_sendInvAck(rspNet, c, m) \in [Nodes -> [Nodes -> Seq(ResponseMsg)]]
           /\ e_sendDataFromCacheToRequestor(rspNet, c, m) \in [Nodes -> [Nodes -> Seq(ResponseMsg)]]
           /\ ee_sendDataFromTBEToRequestor(rspNet, c, m) \in [Nodes -> [Nodes -> Seq(ResponseMsg)]]
           /\ de_sendDataFromCacheToDir(e_sendDataFromCacheToRequestor(rspNet, c, m), c, m)
                  \in [Nodes -> [Nodes -> Seq(ResponseMsg)]]
           /\ dee_sendDataFromTBEToDir(ee_sendDataFromTBEToRequestor(rspNet, c, m), c, m)
                  \in [Nodes -> [Nodes -> Seq(ResponseMsg)]]
<1> DEFINE Net == [Nodes -> [Nodes -> Seq(ResponseMsg)]]
<1>1. m.addr \in Addrs /\ m.req \in Nodes /\ c \in Nodes /\ rspNet \in Net
    BY DEF ForwardMsg, Nodes, L1Types, NetTypeOK
<1>2. entry[c][m.addr].data \in Data /\ tbe[c][m.addr].data \in Data
    BY <1>1 DEF L1Types, CacheTypeOK, Entry, TBE
<1>3. map_Address_to_Directory[m.addr] \in Nodes
    BY <1>1, HomeType
<1>4. \A type \in {"DATA_FROM_OWNER", "ACK", "DATA"}, v \in Data, n \in {0, 1} :
          Response(type, m.addr, v, n) \in ResponseMsg
    BY <1>1 DEF Response, ResponseMsg
<1>5. \A net \in Net, n \in Nodes, r \in ResponseMsg : Send(net, c, n, r) \in Net
    BY <1>1, SendType
<1>6. \A net \in Net :
          /\ fi_sendInvAck(net, c, m) \in Net
          /\ e_sendDataFromCacheToRequestor(net, c, m) \in Net
          /\ ee_sendDataFromTBEToRequestor(net, c, m) \in Net
          /\ de_sendDataFromCacheToDir(net, c, m) \in Net
          /\ dee_sendDataFromTBEToDir(net, c, m) \in Net
    BY <1>1, <1>2, <1>3, <1>4, <1>5, InitDataType
       DEF fi_sendInvAck, e_sendDataFromCacheToRequestor, ee_sendDataFromTBEToRequestor,
           de_sendDataFromCacheToDir, dee_sendDataFromTBEToDir
<1> QED BY <1>1, <1>6

(* A forwarded message, handled, keeps the types. *)
LEMMA L1ForwardType ==
    ASSUME L1Types, NEW c \in Caches, NEW d \in Dirs, L1Forward(c, d), reqFront' = reqFront
    PROVE  L1Types'
<1> DEFINE m == Head(fwdNet[d][c])
           Net == [Nodes -> [Nodes -> Seq(ResponseMsg)]]
<1>1. m \in ForwardMsg /\ fwdNet' \in [Dirs -> [Caches -> Seq(ForwardMsg)]]
    BY PopType DEF L1Types, NetTypeOK, L1Forward
<1>2. m.addr \in Addrs
    BY <1>1 DEF ForwardMsg
<1>3. entry[c][m.addr] \in Entry /\ tbe[c][m.addr] \in TBE /\ rspNet \in Net
    BY <1>2 DEF L1Types, CacheTypeOK, NetTypeOK
<1>4. h_deallocateL1CacheBlock \in Entry /\ w_deallocateTBE \in TBE
    BY InitDataType DEF h_deallocateL1CacheBlock, NoEntry, w_deallocateTBE, NoTBE, Entry, TBE
<1>5. ASSUME NEW s \in L1State, NEW e \in Entry, NEW t \in TBE, setState(c, m.addr, s, e, t),
             rspNet' \in Net
      PROVE  L1Types'
    <2>1. CacheTypeOK'
        BY <1>2, <1>5, SetStateType DEF L1Types, CacheTypeOK, L1Forward
    <2>2. fwdFront' \in [Caches -> Dirs \union {NoNode}] /\ UNCHANGED <<reqNet, reqFront>>
        BY DEF L1Types, NetTypeOK, L1Forward
    <2> QED BY <1>1, <1>5, <2>1, <2>2 DEF L1Types, NetTypeOK
<1>6. {"I", "S", "IM_AD", "SI_A", "II_A"} \subseteq L1State
    BY DEF L1State
<1> HIDE DEF m, Net
<1>7. CASE L1_S_Inv(c, m)
    BY <1>1, <1>3, <1>4, <1>5, <1>6, <1>7, L1SendType DEF L1_S_Inv, Net
<1>8. CASE L1_SM_AD_Inv(c, m)
    BY <1>1, <1>3, <1>4, <1>5, <1>6, <1>8, L1SendType DEF L1_SM_AD_Inv, Net
<1>9. CASE L1_M_Fwd_GetS(c, m)
    BY <1>1, <1>3, <1>4, <1>5, <1>6, <1>9, L1SendType DEF L1_M_Fwd_GetS, Net
<1>10. CASE L1_M_Fwd_GetM(c, m)
    BY <1>1, <1>3, <1>4, <1>5, <1>6, <1>10, L1SendType DEF L1_M_Fwd_GetM, Net
<1>11. CASE L1_MI_A_Fwd_GetS(c, m)
    BY <1>1, <1>3, <1>4, <1>5, <1>6, <1>11, L1SendType DEF L1_MI_A_Fwd_GetS, Net
<1>12. CASE L1_MI_A_Fwd_GetM(c, m)
    BY <1>1, <1>3, <1>4, <1>5, <1>6, <1>12, L1SendType DEF L1_MI_A_Fwd_GetM, Net
<1>13. CASE L1_SI_A_Inv(c, m)
    BY <1>1, <1>3, <1>4, <1>5, <1>6, <1>13, L1SendType DEF L1_SI_A_Inv, Net
<1>14. CASE L1_WB_Ack(c, m)
    BY <1>3, <1>4, <1>5, <1>6, <1>14 DEF L1_WB_Ack
<1> QED BY <1>7, <1>8, <1>9, <1>10, <1>11, <1>12, <1>13, <1>14 DEF L1Forward, m

(* So does a stalled one. *)
LEMMA L1StallType ==
    ASSUME L1Types, NEW c \in Caches, NEW d \in Dirs, L1Stall(c, d), reqFront' = reqFront
    PROVE  L1Types'
BY DEF L1Types, L1Stall, CacheTypeOK, NetTypeOK, cacheVars

(* A response, handled, keeps the types. *)
LEMMA L1ResponseType ==
    ASSUME L1Types, NEW c \in Caches, NEW n \in Nodes, L1Response(c, n), reqFront' = reqFront
    PROVE  L1Types'
<1> DEFINE m == Head(rspNet[n][c])
<1>1. m \in ResponseMsg /\ rspNet' \in [Nodes -> [Nodes -> Seq(ResponseMsg)]]
    BY ZenonT(30), PopType DEF L1Types, NetTypeOK, L1Response, Nodes
<1>2. m.addr \in Addrs
    BY <1>1 DEF ResponseMsg
<1>3. NetTypeOK'
    BY <1>1 DEF L1Types, NetTypeOK, L1Response
<1>4. /\ cst[c][m.addr] \in L1State
      /\ entry[c][m.addr] \in Entry
      /\ tbe[c][m.addr] \in TBE
      /\ written' = written => written' \in [Addrs -> Data]
      /\ StoreDone(m.addr) => written' \in [Addrs -> Data]
    BY <1>2, StoreDoneType DEF L1Types, CacheTypeOK
<1>5. /\ u_writeDataToCache(entry[c][m.addr], m) \in Entry
      /\ sx_store_hit(entry[c][m.addr]) \in Entry
      /\ sx_store_hit(u_writeDataToCache(entry[c][m.addr], m)) \in Entry
      /\ w_deallocateTBE \in TBE
      /\ q_updateAckCount(tbe[c][m.addr], m) \in TBE
    BY <1>1, <1>4, BufferTypes
<1>6. ASSUME NEW s \in L1State, NEW e \in Entry, NEW t \in TBE, setState(c, m.addr, s, e, t),
             written' \in [Addrs -> Data]
      PROVE  L1Types'
    BY <1>2, <1>3, <1>6, SetStateType DEF L1Types, CacheTypeOK
<1>7. {"S", "M", "IM_A", "SM_A"} \subseteq L1State
    BY DEF L1State
<1> HIDE DEF m
<1>8. CASE L1_IS_D_Data(c, m)
    BY <1>4, <1>5, <1>6, <1>7, <1>8 DEF L1_IS_D_Data
<1>9. CASE L1_Data_No_Acks(c, m)
    BY <1>4, <1>5, <1>6, <1>7, <1>9 DEF L1_Data_No_Acks
<1>10. CASE L1_Data_Ack_Cnt_Last(c, m)
    BY <1>4, <1>5, <1>6, <1>7, <1>10 DEF L1_Data_Ack_Cnt_Last
<1>11. CASE L1_Data_Ack_Cnt(c, m)
    BY <1>4, <1>5, <1>6, <1>7, <1>11 DEF L1_Data_Ack_Cnt
<1>12. CASE L1_Inv_Ack(c, m)
    BY <1>4, <1>5, <1>6, <1>7, <1>12 DEF L1_Inv_Ack
<1>13. CASE L1_Inv_Ack_all(c, m)
    BY <1>4, <1>5, <1>6, <1>7, <1>13 DEF L1_Inv_Ack_all
<1> QED BY <1>8, <1>9, <1>10, <1>11, <1>12, <1>13 DEF L1Response, m

-----------------------------------------------------------------------------
(* The directories.                                                        *)

DirTypes == DirTypeOK /\ NetTypeOK

(* A right state and sets of caches are right ones to end a transition with. *)
LEMMA SetDirStateType ==
    ASSUME DirTypeOK, NEW a \in Addrs, NEW s \in DirState, NEW sh \in SUBSET Caches,
           NEW ow \in SUBSET Caches, NEW busy \in BOOLEAN,
           setDirState(a, s, sh, ow, busy)
    PROVE  /\ dst' \in [Addrs -> DirState]
           /\ sharers' \in [Addrs -> SUBSET Caches]
           /\ owner' \in [Addrs -> SUBSET Caches]
           /\ dtbe' \in [Addrs -> BOOLEAN]
BY DEF setDirState, DirTypeOK

(* What the actions on messages make of the networks and memory's queue. *)
LEMMA DirSendType ==
    ASSUME DirTypes, NEW d \in Dirs, NEW c \in Caches, NEW a \in Addrs,
           NEW mm \in MemoryMsg, NEW m \in RequestMsg \union ResponseMsg
    PROVE  /\ a_sendWriteBackAck(d, c, a) \in [Dirs -> [Caches -> Seq(ForwardMsg)]]
           /\ la_sendWriteBackAck(d, mm) \in [Dirs -> [Caches -> Seq(ForwardMsg)]]
           /\ m.type \in {"GETS", "GETM"} =>
                  f_forwardRequest(d, c, m) \in [Dirs -> [Caches -> Seq(ForwardMsg)]]
           /\ fwm_sendFwdInvToSharersMinusRequestor(d, c, a)
                  \in [Dirs -> [Caches -> Seq(ForwardMsg)]]
           /\ d_sendData(d, mm) \in [Nodes -> [Nodes -> Seq(ResponseMsg)]]
           /\ ds_sendSharedData(d, c, a) \in [Nodes -> [Nodes -> Seq(ResponseMsg)]]
           /\ ds2_sendSharedData(d, c, a) \in [Nodes -> [Nodes -> Seq(ResponseMsg)]]
           /\ qf_queueMemoryFetchRequest(c, a) \in SUBSET MemoryMsg
           /\ lq_queueMemoryWBRequest(c, m) \in SUBSET MemoryMsg
           /\ lq2_queueMemoryWBRequest(c, m) \in SUBSET MemoryMsg
<1>1. /\ d \in Nodes /\ c \in Nodes /\ mm.req \in Caches /\ mm.req \in Nodes
      /\ mm.addr \in Addrs /\ mm.data \in Data /\ m.addr \in Addrs /\ m.data \in Data
      /\ dblk[a] \in Data /\ owner[m.addr] \in SUBSET Caches
      /\ sharers[a] \ {c} \in SUBSET Caches
    BY DEF Nodes, MemoryMsg, RequestMsg, ResponseMsg, DirTypes, DirTypeOK
<1>2. \A type \in {"GETS", "GETM", "INV", "WB_ACK"}, b \in Addrs, n \in Nodes :
          [type |-> type, addr |-> b, req |-> n] \in ForwardMsg
    BY DEF ForwardMsg
<1>3. \A o \in Caches, f \in ForwardMsg :
          Send(fwdNet, d, o, f) \in [Dirs -> [Caches -> Seq(ForwardMsg)]]
    BY SendType DEF DirTypes, NetTypeOK
<1>4. \A D \in SUBSET Caches, f \in ForwardMsg :
          Multicast(fwdNet, d, D, f) \in [Dirs -> [Caches -> Seq(ForwardMsg)]]
    BY MulticastType DEF DirTypes, NetTypeOK
<1>5. \A o \in Nodes, r \in ResponseMsg :
          Send(rspNet, d, o, r) \in [Nodes -> [Nodes -> Seq(ResponseMsg)]]
    BY <1>1, SendType DEF DirTypes, NetTypeOK
<1>6. \A b \in Addrs, v \in Data, k \in Int : DataFromDir(b, v, k) \in ResponseMsg
    BY DEF DataFromDir, ResponseMsg
<1>7. /\ a_sendWriteBackAck(d, c, a) \in [Dirs -> [Caches -> Seq(ForwardMsg)]]
      /\ la_sendWriteBackAck(d, mm) \in [Dirs -> [Caches -> Seq(ForwardMsg)]]
    BY <1>1, <1>2, <1>3 DEF a_sendWriteBackAck, la_sendWriteBackAck
<1>8. /\ m.type \in {"GETS", "GETM"} =>
             f_forwardRequest(d, c, m) \in [Dirs -> [Caches -> Seq(ForwardMsg)]]
      /\ fwm_sendFwdInvToSharersMinusRequestor(d, c, a)
             \in [Dirs -> [Caches -> Seq(ForwardMsg)]]
    <2>1. m.type \in {"GETS", "GETM"} =>
              [type |-> m.type, addr |-> m.addr, req |-> c] \in ForwardMsg
        BY <1>1, <1>2
    <2>2. m.type \in {"GETS", "GETM"} =>
              f_forwardRequest(d, c, m) \in [Dirs -> [Caches -> Seq(ForwardMsg)]]
        BY <1>1, <1>4, <2>1 DEF f_forwardRequest
    <2>3. [type |-> "INV", addr |-> a, req |-> c] \in ForwardMsg
        BY <1>1, <1>2
    <2>4. fwm_sendFwdInvToSharersMinusRequestor(d, c, a)
              \in [Dirs -> [Caches -> Seq(ForwardMsg)]]
        BY <1>1, <1>4, <2>3 DEF fwm_sendFwdInvToSharersMinusRequestor
    <2> QED BY <2>2, <2>4
<1>9. /\ d_sendData(d, mm) \in [Nodes -> [Nodes -> Seq(ResponseMsg)]]
      /\ ds_sendSharedData(d, c, a) \in [Nodes -> [Nodes -> Seq(ResponseMsg)]]
    <2>1. DataFromDir(mm.addr, mm.data, 0) \in ResponseMsg /\ DataFromDir(a, dblk[a], 0) \in ResponseMsg
        BY <1>1, <1>6
    <2> QED BY <1>1, <1>5, <2>1, Zenon DEF d_sendData, ds_sendSharedData
<1>10. ds2_sendSharedData(d, c, a) \in [Nodes -> [Nodes -> Seq(ResponseMsg)]]
    <2>1. sharers[a] \subseteq Caches
        BY DEF DirTypes, DirTypeOK
    <2>2. Cardinality(sharers[a]) \in Nat
        BY <2>1, NetworkAssumption, FS_Subset, FS_CardinalityType DEF NetworkAssumption
    <2>3. (IF c \in sharers[a] THEN 1 - Cardinality(sharers[a]) ELSE 0 - Cardinality(sharers[a])) \in Int
        BY <2>2
    <2> QED BY <1>1, <1>5, <1>6, <2>3 DEF ds2_sendSharedData
<1>11. memq \in SUBSET MemoryMsg
    BY DEF DirTypes, DirTypeOK
<1>12. /\ qf_queueMemoryFetchRequest(c, a) \in SUBSET MemoryMsg
       /\ lq_queueMemoryWBRequest(c, m) \in SUBSET MemoryMsg
       /\ lq2_queueMemoryWBRequest(c, m) \in SUBSET MemoryMsg
    BY <1>1, <1>11 DEF qf_queueMemoryFetchRequest, lq_queueMemoryWBRequest, lq2_queueMemoryWBRequest,
                       MemoryMsg
<1> QED BY <1>7, <1>8, <1>9, <1>10, <1>12

(* A request, handled, keeps the types. *)
LEMMA DirRequestType ==
    ASSUME DirTypes, NEW d \in Dirs, NEW c \in Caches, DirRequest(d, c), fwdFront' = fwdFront
    PROVE  DirTypes'
<1> DEFINE m == Head(reqNet[c][d])
           a == m.addr
           FNet == [Dirs -> [Caches -> Seq(ForwardMsg)]]
           RNet == [Nodes -> [Nodes -> Seq(ResponseMsg)]]
<1>1. m \in RequestMsg /\ reqNet' \in [Caches -> [Dirs -> Seq(RequestMsg)]]
    BY PopType DEF DirTypes, NetTypeOK, DirRequest
<1>2. a \in Addrs /\ m.data \in Data
    BY <1>1 DEF RequestMsg
<1>3. /\ dst[a] \in DirState /\ sharers[a] \in SUBSET Caches
      /\ owner[a] \in SUBSET Caches /\ dtbe[a] \in BOOLEAN
      /\ dblk \in [Addrs -> Data] /\ [dblk EXCEPT ![a] = m.data] \in [Addrs -> Data]
      /\ memq \in SUBSET MemoryMsg /\ fwdNet \in FNet /\ rspNet \in RNet
    BY <1>2 DEF DirTypes, DirTypeOK, NetTypeOK
<1>4. /\ a_sendWriteBackAck(d, c, a) \in FNet
      /\ m.type \in {"GETS", "GETM"} => f_forwardRequest(d, c, m) \in FNet
      /\ fwm_sendFwdInvToSharersMinusRequestor(d, c, a) \in FNet
      /\ ds_sendSharedData(d, c, a) \in RNet
      /\ ds2_sendSharedData(d, c, a) \in RNet
      /\ qf_queueMemoryFetchRequest(c, a) \in SUBSET MemoryMsg
      /\ lq_queueMemoryWBRequest(c, m) \in SUBSET MemoryMsg
    <2>1. [type |-> "MEMORY_WB", addr |-> a, req |-> c, data |-> m.data] \in MemoryMsg
        BY <1>2 DEF MemoryMsg
    <2> QED BY <1>1, <1>2, <2>1, DirSendType
<1>5. /\ ars2_addRequestorToSharers(sharers[a], c) \in SUBSET Caches
      /\ kk_removeRequestSharer(sharers[a], c) \in SUBSET Caches
      /\ aos_addOwnertoSharers(ars2_addRequestorToSharers(sharers[a], c), a) \in SUBSET Caches
      /\ e_ownerIsRequestor(c) \in SUBSET Caches
      /\ c_clearOwner \in SUBSET Caches /\ cs_clearSharers \in SUBSET Caches
    BY <1>3 DEF ars2_addRequestorToSharers, kk_removeRequestSharer, aos_addOwnertoSharers,
                e_ownerIsRequestor, c_clearOwner, cs_clearSharers
<1>gets. RequestEvent(c, m) \in {"GETS", "GETM"} => m.type \in {"GETS", "GETM"}
    BY <1>1 DEF RequestEvent, RequestMsg
<1> HIDE DEF m, a
<1>6. ASSUME NEW s \in DirState, NEW sh \in SUBSET Caches, NEW ow \in SUBSET Caches,
             NEW busy \in BOOLEAN, setDirState(a, s, sh, ow, busy),
             dblk' \in [Addrs -> Data], memq' \in SUBSET MemoryMsg,
             fwdNet' \in FNet, rspNet' \in RNet
      PROVE  DirTypes'
    <2>1. DirTypeOK'
        <3>1. DirTypeOK
            BY DEF DirTypes
        <3>2. /\ dst' \in [Addrs -> DirState] /\ sharers' \in [Addrs -> SUBSET Caches]
              /\ owner' \in [Addrs -> SUBSET Caches] /\ dtbe' \in [Addrs -> BOOLEAN]
            BY <1>2, <1>6, <3>1 DEF setDirState, DirTypeOK
        <3> QED BY <1>6, <3>2 DEF DirTypeOK
    <2>2. NetTypeOK'
        BY <1>1, <1>6 DEF DirTypes, NetTypeOK, DirRequest
    <2> QED BY <2>1, <2>2 DEF DirTypes
<1>7. {"I", "S", "M", "IS_D", "IM_D", "MS_D", "MI_A"} \subseteq DirState
    BY DEF DirState
<1> HIDE DEF FNet, RNet
<1> USE <1>3, <1>4, <1>5, <1>6, <1>7
<1>9. CASE Dir_I_GETS(d, c, m)
    BY <1>9 DEF Dir_I_GETS, a
<1>10. CASE Dir_I_GETM(d, c, m)
    BY <1>10 DEF Dir_I_GETM, a
<1>11. CASE Dir_PutAcked(d, c, m)
    <2>1. DirTypeOK'
        BY <1>11 DEF Dir_PutAcked, DirTypes, DirTypeOK, dirVars
    <2>2. NetTypeOK'
        BY <1>1, <1>11 DEF Dir_PutAcked, DirTypes, NetTypeOK, DirRequest, a, FNet
    <2> QED BY <2>1, <2>2 DEF DirTypes
<1>12. CASE Dir_PutRemoved(d, c, m)
    BY <1>12 DEF Dir_PutRemoved, a
<1>13. CASE Dir_S_GETS(d, c, m)
    BY <1>13 DEF Dir_S_GETS, a
<1>14. CASE Dir_S_GETM(d, c, m)
    BY <1>14 DEF Dir_S_GETM, a
<1>15. CASE Dir_S_PUTS_Last(d, c, m)
    BY <1>15 DEF Dir_S_PUTS_Last, a
<1>16. CASE Dir_M_GETS(d, c, m)
    BY <1>gets, <1>16 DEF Dir_M_GETS, RequestTrigger, a
<1>17. CASE Dir_M_GETM(d, c, m)
    BY <1>gets, <1>17 DEF Dir_M_GETM, RequestTrigger, a
<1>18. CASE Dir_M_PUTM_Owner(d, c, m)
    BY <1>18 DEF Dir_M_PUTM_Owner, a
<1> QED BY <1>9, <1>10, <1>11, <1>12, <1>13, <1>14, <1>15, <1>16, <1>17, <1>18
        DEF DirRequest, m

(* So does a stalled one. *)
LEMMA DirStallType ==
    ASSUME DirTypes, NEW d \in Dirs, NEW c \in Caches, DirStall(d, c), fwdFront' = fwdFront
    PROVE  DirTypes'
BY DEF DirTypes, DirStall, DirTypeOK, NetTypeOK, dirVars

(* The data of a downgraded owner, handled, keeps the types. *)
LEMMA DirResponseType ==
    ASSUME DirTypes, NEW d \in Dirs, NEW c \in Caches, DirResponse(d, c), fwdFront' = fwdFront
    PROVE  DirTypes'
<1> DEFINE m == Head(rspNet[c][d])
<1>1. m \in ResponseMsg /\ rspNet' \in [Nodes -> [Nodes -> Seq(ResponseMsg)]]
    <2>1. c \in Nodes /\ d \in Nodes /\ rspNet \in [Nodes -> [Nodes -> Seq(ResponseMsg)]]
        BY DEF DirTypes, NetTypeOK, Nodes
    <2> QED BY <2>1, PopType DEF DirResponse
<1>2. m.addr \in Addrs /\ m.data \in Data /\ "MS_A" \in DirState
    BY <1>1 DEF ResponseMsg, DirState
<1>3. lq2_queueMemoryWBRequest(c, m) \in SUBSET MemoryMsg
    BY <1>2 DEF lq2_queueMemoryWBRequest, lq_queueMemoryWBRequest, MemoryMsg, DirTypes, DirTypeOK
<1>4. DirTypeOK'
    BY <1>2, <1>3 DEF DirResponse, DirTypes, DirTypeOK
<1>5. NetTypeOK'
    BY <1>1 DEF DirResponse, DirTypes, NetTypeOK
<1> QED BY <1>4, <1>5 DEF DirTypes

(* An answer of the memory controller, handled, keeps the types. *)
LEMMA DirMemoryType ==
    ASSUME DirTypes, NEW d \in Dirs, NEW b \in Addrs, DirMemory(d, b), fwdFront' = fwdFront
    PROVE  DirTypes'
<1>1. PICK mm \in memq :
          /\ \/ Dir_Memory_Data(d, mm)
             \/ Dir_MI_A_Memory_Ack(d, mm)
             \/ Dir_MS_A_Memory_Ack(d, mm)
          /\ memq' = memq \ {mm}
          /\ UNCHANGED <<dblk, reqNet, reqFront>>
    BY DEF DirMemory
<1>2. mm \in MemoryMsg /\ memq' \in SUBSET MemoryMsg
    BY <1>1 DEF DirTypes, DirTypeOK
<1>3. /\ mm.addr \in Addrs
      /\ sharers[mm.addr] \in SUBSET Caches /\ owner[mm.addr] \in SUBSET Caches
    BY <1>2 DEF MemoryMsg, DirTypes, DirTypeOK
<1>4. /\ la_sendWriteBackAck(d, mm) \in [Dirs -> [Caches -> Seq(ForwardMsg)]]
      /\ d_sendData(d, mm) \in [Nodes -> [Nodes -> Seq(ResponseMsg)]]
    <2>1. mm.req \in Caches /\ mm.data \in Data
        BY <1>2 DEF MemoryMsg
    <2>2. [type |-> "GETS", addr |-> mm.addr, data |-> mm.data] \in RequestMsg
        BY <1>3, <2>1 DEF RequestMsg
    <2> QED BY <1>2, <1>3, <2>1, <2>2, DirSendType
<1>5. NetTypeOK'
    BY <1>1, <1>4 DEF DirTypes, NetTypeOK, Dir_Memory_Data, Dir_MI_A_Memory_Ack, Dir_MS_A_Memory_Ack
<1>6. ASSUME NEW s \in DirState, setDirState(mm.addr, s, sharers[mm.addr], owner[mm.addr], FALSE)
      PROVE  DirTypeOK'
    BY <1>1, <1>2, <1>3, <1>6, SetDirStateType DEF DirTypes, DirTypeOK
<1>7. {"I", "S", "M"} \subseteq DirState
    BY DEF DirState
<1>8. DirTypeOK'
    BY <1>1, <1>6, <1>7 DEF Dir_Memory_Data, Dir_MI_A_Memory_Ack, Dir_MS_A_Memory_Ack
<1> QED BY <1>5, <1>8 DEF DirTypes

-----------------------------------------------------------------------------
(* TypeOK is inductive as it stands.                                       *)

(* Every variable of the protocol always has its type.  The network's and  *)
(* the buffers' operations are total on it: no message of a kind another   *)
(* virtual network carries is ever sent, and sets of sharers and owners    *)
(* only hold caches.                                                       *)
THEOREM TypeCorrect == Spec => []TypeOK
<1>1. Init => TypeOK
    BY NetworkAssumption, InitDataType
       DEF Init, NetInit, CacheInit, DirInit, TypeOK, NetTypeOK, CacheTypeOK, DirTypeOK,
           NoEntry, NoTBE, Entry, TBE, L1State, DirState
<1>2. TypeOK /\ [Next]_vars => TypeOK'
    <2> SUFFICES ASSUME TypeOK, [Next]_vars
                 PROVE  TypeOK'
        OBVIOUS
    <2>1. L1Types /\ DirTypes
        BY DEF TypeOK, L1Types, DirTypes
    <2>2. ASSUME L1Types', UNCHANGED dirVars
          PROVE  TypeOK'
        BY <2>2 DEF L1Types, TypeOK, DirTypeOK, dirVars
    <2>3. ASSUME DirTypes', UNCHANGED cacheVars
          PROVE  TypeOK'
        BY <2>3 DEF DirTypes, TypeOK, CacheTypeOK, cacheVars
    <2>4. CASE \E c \in Caches, a \in Addrs : L1CoreStep(c, a)
        BY <2>1, <2>2, <2>4, L1CoreType DEF L1CoreStep
    <2>5. CASE \E c \in Caches, d \in Dirs : L1ForwardStep(c, d)
        BY <2>1, <2>2, <2>5, L1ForwardType DEF L1ForwardStep
    <2>6. CASE \E c \in Caches, n \in Nodes : L1ResponseStep(c, n)
        BY <2>1, <2>2, <2>6, L1ResponseType DEF L1ResponseStep
    <2>7. CASE \E c \in Caches, d \in Dirs : DirRequestStep(d, c)
        BY <2>1, <2>3, <2>7, DirRequestType DEF DirRequestStep
    <2>8. CASE \E c \in Caches, d \in Dirs : DirResponseStep(d, c)
        BY <2>1, <2>3, <2>8, DirResponseType DEF DirResponseStep
    <2>9. CASE \E d \in Dirs, a \in Addrs : DirMemoryStep(d, a)
        BY <2>1, <2>3, <2>9, DirMemoryType DEF DirMemoryStep
    <2>10. CASE \E c \in Caches, d \in Dirs : L1StallStep(c, d)
        BY <2>1, <2>2, <2>10, L1StallType DEF L1StallStep
    <2>11. CASE \E c \in Caches, d \in Dirs : DirStallStep(d, c)
        BY <2>1, <2>3, <2>11, DirStallType DEF DirStallStep
    <2>12. CASE UNCHANGED vars
        BY <2>1, <2>2, <2>12 DEF vars, netVars, cacheVars, L1Types, NetTypeOK, CacheTypeOK
    <2> QED BY <2>4, <2>5, <2>6, <2>7, <2>8, <2>9, <2>10, <2>11, <2>12 DEF Next, Consume
<1> QED BY <1>1, <1>2, PTL DEF Spec

-----------------------------------------------------------------------------
(* The assertions of setState need more than themselves: the sharers of M  *)
(* are empty because those of IM_D are, the owner of I is gone because it  *)
(* was taken off the books on the way into MI_A or S.  Books says, state   *)
(* by state, what the directory has on record.                             *)

Books(s, sh, ow) ==
    /\ s \in {"I", "MI_A"} => sh = {} /\ ow = {}
    /\ s \in {"S", "IS_D", "MS_D", "MS_A"} => ow = {}
    /\ s \in {"M", "IM_D"} => sh = {} /\ \E c \in Caches : ow = {c}

DirBooks == \A a \in Addrs : Books(dst[a], sharers[a], owner[a])

(* A transition that ends with fitting books for its block leaves all fit. *)
LEMMA SetDirStateBooks ==
    ASSUME DirTypeOK, DirBooks, NEW a \in Addrs, NEW s, NEW sh, NEW ow, NEW busy,
           setDirState(a, s, sh, ow, busy), Books(s, sh, ow)
    PROVE  DirBooks'
BY DEF setDirState, DirTypeOK, DirBooks

(* When PUTS_Last is taken the requestor is the only sharer. *)
LEMMA LastSharer ==
    ASSUME NEW sh \in SUBSET Caches, NEW c \in sh, Cardinality(sh) < 2
    PROVE  sh \ {c} = {}
<1>1. IsFiniteSet(sh)
    BY NetworkAssumption, FS_Subset DEF NetworkAssumption
<1>2. Cardinality(sh \ {c}) = Cardinality(sh) - 1 /\ IsFiniteSet(sh \ {c})
    BY <1>1, FS_RemoveElement
<1>3. Cardinality(sh) \in Nat /\ Cardinality(sh \ {c}) \in Nat
    BY <1>1, <1>2, FS_CardinalityType
<1>4. Cardinality(sh \ {c}) = 0
    BY <1>2, <1>3
<1> QED BY <1>2, <1>4, FS_EmptySet

(* Every request the directory serves leaves books that fit the new state. *)
LEMMA DirRequestBooks ==
    ASSUME DirTypes, DirBooks, NEW d \in Dirs, NEW c \in Caches, DirRequest(d, c)
    PROVE  DirBooks'
<1> DEFINE m == Head(reqNet[c][d])
           a == m.addr
<1>1. m \in RequestMsg /\ a \in Addrs
    <2>1. m \in RequestMsg
        BY PopType DEF DirTypes, NetTypeOK, DirRequest
    <2> QED BY <2>1 DEF RequestMsg
<1>2. Books(dst[a], sharers[a], owner[a]) /\ sharers[a] \in SUBSET Caches
    BY <1>1 DEF DirBooks, DirTypes, DirTypeOK
<1> HIDE DEF m, a
<1>3. ASSUME NEW s, NEW sh, NEW ow, NEW busy, setDirState(a, s, sh, ow, busy), Books(s, sh, ow)
      PROVE  DirBooks'
    BY <1>1, <1>3, SetDirStateBooks DEF DirTypes
<1> USE <1>2, <1>3 DEF Books, RequestTrigger
<1>4. CASE Dir_I_GETS(d, c, m)
    BY <1>4 DEF Dir_I_GETS, a
<1>5. CASE Dir_I_GETM(d, c, m)
    BY <1>5 DEF Dir_I_GETM, e_ownerIsRequestor, a
<1>6. CASE Dir_PutAcked(d, c, m)
    BY <1>6 DEF Dir_PutAcked, dirVars, DirBooks
<1>7. CASE Dir_PutRemoved(d, c, m)
    BY <1>7 DEF Dir_PutRemoved, a
<1>8. CASE Dir_S_GETS(d, c, m)
    BY <1>8 DEF Dir_S_GETS, a
<1>9. CASE Dir_S_GETM(d, c, m)
    BY <1>9 DEF Dir_S_GETM, e_ownerIsRequestor, cs_clearSharers, a
<1>10. CASE Dir_S_PUTS_Last(d, c, m)
    <2>1. Cardinality(sharers[a]) < 2 /\ c \in sharers[a]
        BY <1>1, <1>10 DEF Dir_S_PUTS_Last, RequestEvent, RequestMsg, a
    <2>2. kk_removeRequestSharer(sharers[a], c) = {}
        BY <2>1, LastSharer DEF kk_removeRequestSharer
    <2> QED BY <1>10, <2>2 DEF Dir_S_PUTS_Last, a
<1>11. CASE Dir_M_GETS(d, c, m)
    BY <1>11 DEF Dir_M_GETS, c_clearOwner, a
<1>12. CASE Dir_M_GETM(d, c, m)
    BY <1>12 DEF Dir_M_GETM, e_ownerIsRequestor, a
<1>13. CASE Dir_M_PUTM_Owner(d, c, m)
    BY <1>13 DEF Dir_M_PUTM_Owner, c_clearOwner, a
<1> QED BY <1>4, <1>5, <1>6, <1>7, <1>8, <1>9, <1>10, <1>11, <1>12, <1>13
        DEF DirRequest, m

(* So does every answer of the memory controller. *)
LEMMA DirMemoryBooks ==
    ASSUME DirTypes, DirBooks, NEW d \in Dirs, NEW b \in Addrs, DirMemory(d, b)
    PROVE  DirBooks'
<1>1. PICK mm \in memq :
          /\ mm.addr = b
          /\ \/ Dir_Memory_Data(d, mm)
             \/ Dir_MI_A_Memory_Ack(d, mm)
             \/ Dir_MS_A_Memory_Ack(d, mm)
    BY DEF DirMemory
<1>2. Books(dst[b], sharers[b], owner[b])
    BY DEF DirBooks
<1>3. ASSUME NEW s, setDirState(b, s, sharers[b], owner[b], FALSE), Books(s, sharers[b], owner[b])
      PROVE  DirBooks'
    BY <1>3, SetDirStateBooks DEF DirTypes
<1> USE <1>1, <1>2, <1>3 DEF Books
<1>4. CASE Dir_Memory_Data(d, mm)
    BY <1>4 DEF Dir_Memory_Data
<1>5. CASE Dir_MI_A_Memory_Ack(d, mm)
    BY <1>5 DEF Dir_MI_A_Memory_Ack
<1>6. CASE Dir_MS_A_Memory_Ack(d, mm)
    BY <1>6 DEF Dir_MS_A_Memory_Ack
<1> QED BY <1>1, <1>4, <1>5, <1>6

(* The directory's record of every block always fits its state. *)
THEOREM BooksCorrect == Spec => []DirBooks
<1>1. Init => DirBooks
    BY DEF Init, DirInit, DirBooks, Books
<1>2. TypeOK /\ DirBooks /\ [Next]_vars => DirBooks'
    <2> SUFFICES ASSUME TypeOK, DirBooks, [Next]_vars
                 PROVE  DirBooks'
        OBVIOUS
    <2>1. DirTypes
        BY DEF TypeOK, DirTypes
    <2>2. UNCHANGED dirVars => DirBooks'
        BY DEF dirVars, DirBooks
    <2>3. CASE \E c \in Caches, a \in Addrs : L1CoreStep(c, a)
        BY <2>2, <2>3 DEF L1CoreStep
    <2>4. CASE \E c \in Caches, d \in Dirs : L1ForwardStep(c, d)
        BY <2>2, <2>4 DEF L1ForwardStep
    <2>5. CASE \E c \in Caches, n \in Nodes : L1ResponseStep(c, n)
        BY <2>2, <2>5 DEF L1ResponseStep
    <2>6. CASE \E c \in Caches, d \in Dirs : DirRequestStep(d, c)
        BY <2>1, <2>6, DirRequestBooks DEF DirRequestStep
    <2>7. CASE \E c \in Caches, d \in Dirs : DirResponseStep(d, c)
        <3> PICK c \in Caches, d \in Dirs : DirResponse(d, c)
            BY <2>7 DEF DirResponseStep
        <3> QED BY DEF DirResponse, DirBooks, Books, TypeOK, DirTypeOK
    <2>8. CASE \E d \in Dirs, a \in Addrs : DirMemoryStep(d, a)
        BY <2>1, <2>8, DirMemoryBooks DEF DirMemoryStep
    <2>9. CASE \E c \in Caches, d \in Dirs : L1StallStep(c, d)
        BY <2>2, <2>9 DEF L1StallStep
    <2>10. CASE \E c \in Caches, d \in Dirs : DirStallStep(d, c)
        BY <2>2, <2>10 DEF DirStallStep, DirStall
    <2>11. CASE UNCHANGED vars
        BY <2>2, <2>11 DEF vars
    <2> QED BY <2>3, <2>4, <2>5, <2>6, <2>7, <2>8, <2>9, <2>10, <2>11 DEF Next, Consume
<1> QED BY <1>1, <1>2, TypeCorrect, PTL DEF Spec

(* The assertions of setState never fail: a directory in M has one owner   *)
(* and no sharers, a directory in I neither.                               *)
THEOREM DirectoryAssertsHold == Spec => []DirectoryAsserts
<1>1. DirBooks => DirectoryAsserts
    <2>1. \A c \in Caches : Cardinality({c}) = 1
        BY FS_Singleton
    <2> QED BY <2>1 DEF DirBooks, Books, DirectoryAsserts
<1> QED BY <1>1, BooksCorrect, PTL

-----------------------------------------------------------------------------
(* Buffers are allocated exactly as the states say.                        *)

L1Alloc(s, e, t) ==
    /\ t.valid <=> s \in L1Transient
    /\ e.valid <=> s # "I"

L1Allocs == \A c \in Caches, a \in Addrs : L1Alloc(cst[c][a], entry[c][a], tbe[c][a])
DirAllocs == \A a \in Addrs : dtbe[a] <=> dst[a] \in DirTransient

(* A transition that ends with the buffers its state uses leaves all right. *)
LEMMA SetStateAlloc ==
    ASSUME CacheTypeOK, L1Allocs, NEW c \in Caches, NEW a \in Addrs, NEW s, NEW e, NEW t,
           setState(c, a, s, e, t), L1Alloc(s, e, t)
    PROVE  L1Allocs'
BY DEF setState, CacheTypeOK, L1Allocs, L1Alloc

(* Which actions make a buffer, which drop one, and which leave it.  *)
LEMMA BufferAlloc ==
    ASSUME NEW e \in Entry, NEW t \in TBE, NEW m
    PROVE  /\ i_allocateL1CacheBlock.valid /\ ~h_deallocateL1CacheBlock.valid
           /\ v_allocateTBE.valid /\ ~w_deallocateTBE.valid
           /\ u_writeDataToCache(e, m).valid = e.valid
           /\ s_store_hit(e).valid = e.valid
           /\ sx_store_hit(e).valid = e.valid
           /\ sx_store_hit(u_writeDataToCache(e, m)).valid = e.valid
           /\ x_copyDataFromCacheToTBE(v_allocateTBE, e).valid
           /\ q_updateAckCount(t, m).valid = t.valid
BY DEF i_allocateL1CacheBlock, h_deallocateL1CacheBlock, NoEntry, v_allocateTBE, w_deallocateTBE,
       NoTBE, u_writeDataToCache, s_store_hit, sx_store_hit, x_copyDataFromCacheToTBE,
       q_updateAckCount, Entry, TBE

(* A request of the core makes the buffers of the state it leads to. *)
LEMMA L1CoreAlloc ==
    ASSUME L1Types, L1Allocs, NEW c \in Caches, NEW a \in Addrs, L1Core(c, a)
    PROVE  L1Allocs'
<1>1. entry[c][a] \in Entry /\ tbe[c][a] \in TBE /\ L1Alloc(cst[c][a], entry[c][a], tbe[c][a])
    BY DEF L1Types, CacheTypeOK, L1Allocs
<1>2. ASSUME NEW s, NEW e, NEW t, setState(c, a, s, e, t), L1Alloc(s, e, t)
      PROVE  L1Allocs'
    BY <1>2, SetStateAlloc DEF L1Types
<1> USE <1>1, <1>2, BufferAlloc DEF L1Alloc, L1Transient, L1State
<1>3. CASE L1_I_Load(c, a)
    BY <1>3 DEF L1_I_Load
<1>4. CASE L1_I_Store(c, a)
    BY <1>4 DEF L1_I_Store
<1>5. CASE L1_Load_hit(c, a)
    BY <1>5 DEF L1_Load_hit, cacheVars, L1Allocs
<1>6. CASE L1_S_Store(c, a)
    <2>1. L1Alloc("SM_AD", entry[c][a], x_copyDataFromCacheToTBE(v_allocateTBE, entry[c][a]))
        BY <1>6 DEF L1_S_Store
    <2> QED BY <1>6, <2>1 DEF L1_S_Store
<1>7. CASE L1_M_Store(c, a)
    BY <1>7 DEF L1_M_Store
<1>8. CASE L1_S_Replacement(c, a)
    BY <1>8 DEF L1_S_Replacement
<1>9. CASE L1_M_Replacement(c, a)
    BY <1>9 DEF L1_M_Replacement
<1> QED BY <1>3, <1>4, <1>5, <1>6, <1>7, <1>8, <1>9 DEF L1Core

(* A forwarded message, handled, leaves the buffers of the state it leads to. *)
LEMMA L1ForwardAlloc ==
    ASSUME L1Types, L1Allocs, NEW c \in Caches, NEW d \in Dirs, L1Forward(c, d)
    PROVE  L1Allocs'
<1> DEFINE m == Head(fwdNet[d][c])
<1>1. m.addr \in Addrs
    <2>1. m \in ForwardMsg
        BY PopType DEF L1Types, NetTypeOK, L1Forward
    <2> QED BY <2>1 DEF ForwardMsg
<1>2. /\ entry[c][m.addr] \in Entry /\ tbe[c][m.addr] \in TBE
      /\ L1Alloc(cst[c][m.addr], entry[c][m.addr], tbe[c][m.addr])
    BY <1>1 DEF L1Types, CacheTypeOK, L1Allocs
<1> HIDE DEF m
<1>3. ASSUME NEW s, NEW e, NEW t, setState(c, m.addr, s, e, t), L1Alloc(s, e, t)
      PROVE  L1Allocs'
    BY <1>1, <1>3, SetStateAlloc DEF L1Types
<1> USE <1>2, <1>3, BufferAlloc DEF L1Alloc, L1Transient, L1State, ForwardTrigger
<1>4. CASE L1_S_Inv(c, m)
    BY <1>4 DEF L1_S_Inv
<1>5. CASE L1_SM_AD_Inv(c, m)
    BY <1>5 DEF L1_SM_AD_Inv
<1>6. CASE L1_M_Fwd_GetS(c, m)
    BY <1>6 DEF L1_M_Fwd_GetS
<1>7. CASE L1_M_Fwd_GetM(c, m)
    BY <1>7 DEF L1_M_Fwd_GetM
<1>8. CASE L1_MI_A_Fwd_GetS(c, m)
    BY <1>8 DEF L1_MI_A_Fwd_GetS
<1>9. CASE L1_MI_A_Fwd_GetM(c, m)
    BY <1>9 DEF L1_MI_A_Fwd_GetM
<1>10. CASE L1_SI_A_Inv(c, m)
    BY <1>10 DEF L1_SI_A_Inv
<1>11. CASE L1_WB_Ack(c, m)
    BY <1>11 DEF L1_WB_Ack
<1> QED BY <1>4, <1>5, <1>6, <1>7, <1>8, <1>9, <1>10, <1>11 DEF L1Forward, m

(* So does a response: the TBE goes with the last event of a transaction. *)
LEMMA L1ResponseAlloc ==
    ASSUME L1Types, L1Allocs, NEW c \in Caches, NEW n \in Nodes, L1Response(c, n)
    PROVE  L1Allocs'
<1> DEFINE m == Head(rspNet[n][c])
<1>1. m.addr \in Addrs
    <2>1. m \in ResponseMsg
        BY PopType DEF L1Types, NetTypeOK, L1Response, Nodes
    <2> QED BY <2>1 DEF ResponseMsg
<1>2. /\ entry[c][m.addr] \in Entry /\ tbe[c][m.addr] \in TBE
      /\ L1Alloc(cst[c][m.addr], entry[c][m.addr], tbe[c][m.addr])
    BY <1>1 DEF L1Types, CacheTypeOK, L1Allocs
<1> HIDE DEF m
<1>3. ASSUME NEW s, NEW e, NEW t, setState(c, m.addr, s, e, t), L1Alloc(s, e, t)
      PROVE  L1Allocs'
    BY <1>1, <1>3, SetStateAlloc DEF L1Types
<1> USE <1>2, <1>3, BufferAlloc DEF L1Alloc, L1Transient, L1State, ResponseTrigger
<1>4. CASE L1_IS_D_Data(c, m)
    BY <1>4 DEF L1_IS_D_Data
<1>5. CASE L1_Data_No_Acks(c, m)
    BY <1>5 DEF L1_Data_No_Acks
<1>6. CASE L1_Data_Ack_Cnt_Last(c, m)
    BY <1>6 DEF L1_Data_Ack_Cnt_Last
<1>7. CASE L1_Data_Ack_Cnt(c, m)
    BY <1>7 DEF L1_Data_Ack_Cnt
<1>8. CASE L1_Inv_Ack(c, m)
    BY <1>8 DEF L1_Inv_Ack
<1>9. CASE L1_Inv_Ack_all(c, m)
    BY <1>9 DEF L1_Inv_Ack_all
<1> QED BY <1>4, <1>5, <1>6, <1>7, <1>8, <1>9 DEF L1Response, m

(* A directory transition that keeps the TBE with a transient state keeps all. *)
LEMMA SetDirStateAlloc ==
    ASSUME DirTypeOK, DirAllocs, NEW a \in Addrs, NEW s, NEW sh, NEW ow, NEW busy,
           setDirState(a, s, sh, ow, busy), busy <=> s \in DirTransient, busy \in BOOLEAN
    PROVE  DirAllocs'
BY DEF setDirState, DirTypeOK, DirAllocs

(* A request makes a TBE exactly when the directory begins to wait. *)
LEMMA DirRequestAlloc ==
    ASSUME DirTypes, DirAllocs, NEW d \in Dirs, NEW c \in Caches, DirRequest(d, c)
    PROVE  DirAllocs'
<1> DEFINE m == Head(reqNet[c][d])
           a == m.addr
<1>1. a \in Addrs
    <2>1. m \in RequestMsg
        BY PopType DEF DirTypes, NetTypeOK, DirRequest
    <2> QED BY <2>1 DEF RequestMsg
<1>2. dtbe[a] \in BOOLEAN /\ (dtbe[a] <=> dst[a] \in DirTransient)
    BY <1>1 DEF DirTypes, DirTypeOK, DirAllocs
<1> HIDE DEF m, a
<1>3. ASSUME NEW s, NEW sh, NEW ow, NEW busy, setDirState(a, s, sh, ow, busy),
             busy <=> s \in DirTransient, busy \in BOOLEAN
      PROVE  DirAllocs'
    BY <1>1, <1>3, SetDirStateAlloc DEF DirTypes
<1> USE <1>2, <1>3 DEF DirTransient, DirState, RequestTrigger
<1>4. CASE Dir_I_GETS(d, c, m)
    BY <1>4 DEF Dir_I_GETS, a
<1>5. CASE Dir_I_GETM(d, c, m)
    BY <1>5 DEF Dir_I_GETM, a
<1>6. CASE Dir_PutAcked(d, c, m)
    BY <1>6 DEF Dir_PutAcked, dirVars, DirAllocs
<1>7. CASE Dir_PutRemoved(d, c, m)
    BY <1>7 DEF Dir_PutRemoved, a
<1>8. CASE Dir_S_GETS(d, c, m)
    BY <1>8 DEF Dir_S_GETS, a
<1>9. CASE Dir_S_GETM(d, c, m)
    BY <1>9 DEF Dir_S_GETM, a
<1>10. CASE Dir_S_PUTS_Last(d, c, m)
    BY <1>10 DEF Dir_S_PUTS_Last, a
<1>11. CASE Dir_M_GETS(d, c, m)
    BY <1>11 DEF Dir_M_GETS, a
<1>12. CASE Dir_M_GETM(d, c, m)
    BY <1>12 DEF Dir_M_GETM, a
<1>13. CASE Dir_M_PUTM_Owner(d, c, m)
    BY <1>13 DEF Dir_M_PUTM_Owner, a
<1> QED BY <1>4, <1>5, <1>6, <1>7, <1>8, <1>9, <1>10, <1>11, <1>12, <1>13
        DEF DirRequest, m

(* No TBE or cache entry is leaked, and none is missing where a transition *)
(* asserts that it is valid: buffers exist exactly in the states that use  *)
(* them, in the L1s and in the directories.                                *)
THEOREM AllocationCorrect == Spec => []AllocationMatchesState
<1>1. Init => L1Allocs /\ DirAllocs
    BY DEF Init, CacheInit, DirInit, L1Allocs, L1Alloc, DirAllocs, NoEntry, NoTBE,
           L1Transient, DirTransient
<1>2. TypeOK /\ L1Allocs /\ DirAllocs /\ [Next]_vars => (L1Allocs /\ DirAllocs)'
    <2> SUFFICES ASSUME TypeOK, L1Allocs, DirAllocs, [Next]_vars
                 PROVE  (L1Allocs /\ DirAllocs)'
        OBVIOUS
    <2>1. L1Types /\ DirTypes
        BY DEF TypeOK, L1Types, DirTypes
    <2>2. UNCHANGED cacheVars => L1Allocs'
        BY DEF cacheVars, L1Allocs
    <2>3. UNCHANGED dirVars => DirAllocs'
        BY DEF dirVars, DirAllocs
    <2>4. CASE \E c \in Caches, a \in Addrs : L1CoreStep(c, a)
        BY <2>1, <2>3, <2>4, L1CoreAlloc DEF L1CoreStep
    <2>5. CASE \E c \in Caches, d \in Dirs : L1ForwardStep(c, d)
        BY <2>1, <2>3, <2>5, L1ForwardAlloc DEF L1ForwardStep
    <2>6. CASE \E c \in Caches, n \in Nodes : L1ResponseStep(c, n)
        BY <2>1, <2>3, <2>6, L1ResponseAlloc DEF L1ResponseStep
    <2>7. CASE \E c \in Caches, d \in Dirs : DirRequestStep(d, c)
        BY <2>1, <2>2, <2>7, DirRequestAlloc DEF DirRequestStep
    <2>8. CASE \E c \in Caches, d \in Dirs : DirResponseStep(d, c)
        <3> PICK c \in Caches, d \in Dirs : DirResponse(d, c) /\ UNCHANGED cacheVars
            BY <2>8 DEF DirResponseStep
        <3>1. DirAllocs'
            BY DEF DirResponse, DirAllocs, DirTransient, DirState, TypeOK, DirTypeOK
        <3> QED BY <2>2, <3>1
    <2>9. CASE \E d \in Dirs, a \in Addrs : DirMemoryStep(d, a)
        <3> PICK d \in Dirs, a \in Addrs : DirMemory(d, a) /\ UNCHANGED cacheVars
            BY <2>9 DEF DirMemoryStep
        <3>1. PICK s \in {"I", "S", "M"} : setDirState(a, s, sharers[a], owner[a], FALSE)
            BY DEF DirMemory, Dir_Memory_Data, Dir_MI_A_Memory_Ack, Dir_MS_A_Memory_Ack
        <3>2. DirAllocs'
            BY <2>1, <3>1, SetDirStateAlloc DEF DirTypes, DirTransient
        <3> QED BY <2>2, <3>2
    <2>10. CASE \E c \in Caches, d \in Dirs : L1StallStep(c, d)
        BY <2>2, <2>3, <2>10 DEF L1StallStep, L1Stall
    <2>11. CASE \E c \in Caches, d \in Dirs : DirStallStep(d, c)
        BY <2>2, <2>3, <2>11 DEF DirStallStep, DirStall
    <2>12. CASE UNCHANGED vars
        BY <2>2, <2>3, <2>12 DEF vars
    <2> QED BY <2>4, <2>5, <2>6, <2>7, <2>8, <2>9, <2>10, <2>11, <2>12 DEF Next, Consume
<1>3. L1Allocs /\ DirAllocs => AllocationMatchesState
    BY DEF L1Allocs, L1Alloc, DirAllocs, AllocationMatchesState
<1> QED BY <1>1, <1>2, <1>3, TypeCorrect, PTL DEF Spec
=============================================================================
