--------------------------- MODULE MSIBlockProofs ---------------------------
(***************************************************************************)
(* Every transition of a controller keeps the invariant of MSIProtocol for *)
(* the block it is about.  A lemma says what a transition, or a group of   *)
(* them, makes of the block and of the sets of messages about it.          *)
(***************************************************************************)
EXTENDS MSIProtocol, MSIProofs

(* What TypeOK, Channels and the directory's books say of block a.         *)
BlockTypes(a) ==
    /\ \A c \in Caches :
           /\ cst[c][a] \in L1State
           /\ tbe[c][a].pendingAcks \in Int
           /\ \A m \in Req(c, a) : m \in RequestMsg /\ m.addr = a
           /\ \A m \in Fwd(c, a) :
                  m \in ForwardMsg /\ m.addr = a /\ (m.type # "WB_ACK" => m.req \in Caches)
           /\ \A n \in Nodes : \A m \in Rsp(n, c, a) :
                  /\ m \in ResponseMsg /\ m.addr = a
                  /\ \/ m.type = "DATA_FROM_DIR" /\ n = Home(a)
                     \/ m.type = "DATA_FROM_OWNER" /\ n \in Caches /\ m.acks = 0
                     \/ m.type = "ACK" /\ n \in Caches /\ m.acks = 1 /\ m.data = InitData
    /\ \A mm \in Mem(a) : mm.req \in Caches
    /\ dst[a] \in DirState /\ sharers[a] \subseteq Caches /\ owner[a] \subseteq Caches
    /\ Books(dst[a], sharers[a], owner[a])
    /\ IsFiniteSet(Caches) /\ Home(a) \in Nodes /\ Home(a) \notin Caches /\ Caches \subseteq Nodes

-----------------------------------------------------------------------------
(* What a transition does to the block and the messages about it.          *)

Moves(c, a, s) == \A k \in Caches : cst'[k][a] = IF k = c THEN s ELSE cst[k][a]
SameCst(a) == \A k \in Caches : cst'[k][a] = cst[k][a]
SameTbe(a) == \A k \in Caches : tbe'[k][a] = tbe[k][a]
SameEntry(a) == \A k \in Caches : entry'[k][a] = entry[k][a]
OthersTbe(c, a) == \A k \in Caches \ {c} : tbe'[k][a] = tbe[k][a]
OthersEntry(c, a) == \A k \in Caches \ {c} : entry'[k][a] = entry[k][a]

SameReq(a) == \A k \in Caches : Req(k, a)' = Req(k, a)
SameFwd(a) == \A k \in Caches : Fwd(k, a)' = Fwd(k, a)
SameRsp(a) == \A n \in Nodes, k \in Nodes : Rsp(n, k, a)' = Rsp(n, k, a)
SameBooks(a) == sharers'[a] = sharers[a] /\ owner'[a] = owner[a]
SameDir(a) ==
    /\ dst'[a] = dst[a] /\ SameBooks(a) /\ dblk'[a] = dblk[a] /\ Mem(a)' = Mem(a)

\* c asks with q; c's request is served
Asks(c, a, q) == \A k \in Caches : Req(k, a)' = IF k = c THEN {q} ELSE Req(k, a)
Served(c, a) == \A k \in Caches : Req(k, a)' = IF k = c THEN {} ELSE Req(k, a)

\* m is forwarded to the caches of D; c takes m
Forwards(D, a, m) ==
    \A k \in Caches : Fwd(k, a)' = IF k \in D THEN Fwd(k, a) \union {m} ELSE Fwd(k, a)
Takes(c, a, m) == \A k \in Caches : Fwd(k, a)' = IF k = c THEN Fwd(k, a) \ {m} ELSE Fwd(k, a)

\* n responds to c with r; c hears r from n
Responds(n, c, a, r) ==
    \A i \in Nodes, k \in Nodes :
        Rsp(i, k, a)' = IF i = n /\ k = c THEN Rsp(i, k, a) \union {r} ELSE Rsp(i, k, a)
Hears(n, c, a, r) ==
    \A i \in Nodes, k \in Nodes :
        Rsp(i, k, a)' = IF i = n /\ k = c THEN Rsp(i, k, a) \ {r} ELSE Rsp(i, k, a)

-----------------------------------------------------------------------------
(* Consequences of the invariant used all over.                            *)

(* A cache is told to invalidate a block by one message at most. *)
LEMMA OneInv ==
    ASSUME NEW a \in Addrs, BlockTypes(a), BlockInv(a), NEW c \in Caches,
           NEW m1 \in Fwd(c, a), NEW m2 \in Fwd(c, a), m1.type = "INV", m2.type = "INV"
    PROVE  m1 = m2
<1>1. m1.req \in Caches /\ m2.req \in Caches
    BY DEF BlockTypes
<1>2. m1.req = m2.req
    BY <1>1 DEF BlockInv, OneHolder, Invalidations, InvFrom
<1> QED BY <1>2 DEF BlockTypes, ForwardMsg

(* The caches a cache waits for are finitely many. *)
LEMMA AwaitedFinite ==
    ASSUME NEW a \in Addrs, BlockTypes(a), NEW c \in Caches
    PROVE  /\ IsFiniteSet(Awaited(c, a)) /\ Cardinality(Awaited(c, a)) \in Nat
           /\ Cardinality(Awaited(c, a)) = 0 <=> Awaited(c, a) = {}
<1>1. Awaited(c, a) \subseteq Caches /\ IsFiniteSet(Caches)
    BY DEF Awaited, BlockTypes
<1>2. IsFiniteSet(Awaited(c, a))
    BY <1>1, FS_Subset
<1> QED BY <1>2, FS_CardinalityType, FS_EmptySet

(* A cache waits for nobody unless it waits for acknowledgements. *)
LEMMA NoneAwaited ==
    ASSUME NEW a \in Addrs, BlockTypes(a), BlockInv(a), NEW c \in Caches,
           cst[c][a] \notin {"IM_A", "SM_A"},
           \A n \in Nodes : \A m \in Rsp(n, c, a) : m.type # "DATA_FROM_DIR"
    PROVE  /\ tbe[c][a].pendingAcks = 0 /\ Awaited(c, a) = {}
           /\ \A o \in Caches : ~InvFrom(c, o, a) /\ ~AckFrom(c, o, a)
<1>1. tbe[c][a].pendingAcks <= 0 /\ tbe[c][a].pendingAcks = Cardinality(Awaited(c, a))
    BY DEF BlockInv, Balance
<1>2. tbe[c][a].pendingAcks = 0 /\ Cardinality(Awaited(c, a)) = 0
    BY <1>1, AwaitedFinite
<1>3. Awaited(c, a) = {}
    BY <1>2, AwaitedFinite
<1> QED BY <1>2, <1>3 DEF Awaited

(* No other cache can read, or be sent, a block whose holder awaits nobody. *)
LEMMA NoOtherReader ==
    ASSUME NEW a \in Addrs, BlockTypes(a), BlockInv(a), NEW c \in Caches, Holds(c, a),
           Awaited(c, a) = {}
    PROVE  /\ \A o \in Caches \ {c} : ~Reads(o, a) /\ ~Holds(o, a)
           /\ \A o, x \in Caches : ~InvFrom(x, o, a) /\ ~AckFrom(x, o, a)
<1>1. \A o, x \in Caches : ~InvFrom(x, o, a) /\ ~AckFrom(x, o, a)
    BY DEF BlockInv, Invalidations, OneHolder, Awaited
<1>2. \A o \in Caches : ~Invalidated(o, a)
    BY <1>1 DEF Invalidated, InvFrom, BlockTypes
<1> QED BY <1>1, <1>2 DEF BlockInv, Invalidations, OneHolder

-----------------------------------------------------------------------------
(* What becomes of the predicates on messages when the sets do not change. *)

\* What stays when no request, forwarded message or response about the block comes or goes
LEMMA SameReqs ==
    ASSUME NEW a \in Addrs, SameReq(a)
    PROVE  /\ \A k \in Caches : Requests(k, a)' <=> Requests(k, a)
           /\ OneRequest(a) => OneRequest(a)'
BY DEF SameReq, Requests, OneRequest

LEMMA SameFwds ==
    ASSUME NEW a \in Addrs, SameFwd(a)
    PROVE  /\ \A k \in Caches :
                  /\ Acked(k, a)' <=> Acked(k, a)
                  /\ GetsAt(k, a)' <=> GetsAt(k, a)
                  /\ GetmAt(k, a)' <=> GetmAt(k, a)
                  /\ Invalidated(k, a)' <=> Invalidated(k, a)
           /\ \A k \in Caches : GetsFor(k, a)' <=> GetsFor(k, a)
           /\ \A k \in Caches : GetmFor(k, a)' <=> GetmFor(k, a)
           /\ \A k, o \in Caches : InvFrom(k, o, a)' <=> InvFrom(k, o, a)
           /\ OneForward(a) => OneForward(a)'
<1>1. \A k \in Caches :
          /\ Acked(k, a)' <=> Acked(k, a)
          /\ GetsAt(k, a)' <=> GetsAt(k, a)
          /\ GetmAt(k, a)' <=> GetmAt(k, a)
          /\ Invalidated(k, a)' <=> Invalidated(k, a)
    BY DEF SameFwd, Acked, GetsAt, GetmAt, Invalidated
<1>2. /\ \A k \in Caches : GetsFor(k, a)' <=> GetsFor(k, a)
      /\ \A k \in Caches : GetmFor(k, a)' <=> GetmFor(k, a)
    BY DEF SameFwd, GetsFor, GetmFor
<1>3. \A k, o \in Caches : InvFrom(k, o, a)' <=> InvFrom(k, o, a)
    BY DEF SameFwd, InvFrom
<1>4. OneForward(a) => OneForward(a)'
    BY DEF SameFwd, OneForward
<1> QED BY <1>1, <1>2, <1>3, <1>4

LEMMA SameRsps ==
    ASSUME NEW a \in Addrs, BlockTypes(a), SameRsp(a)
    PROVE  /\ \A k \in Caches : DataFor(k, a)' <=> DataFor(k, a)
           /\ \A k, o \in Caches : AckFrom(k, o, a)' <=> AckFrom(k, o, a)
           /\ \A k \in Caches : Returns(k, a)' <=> Returns(k, a)
           /\ OneData(a) => OneData(a)'
<1>1. /\ \A n \in Nodes, k \in Caches : Rsp(n, k, a)' = Rsp(n, k, a)
      /\ \A o, k \in Caches : Rsp(o, k, a)' = Rsp(o, k, a)
      /\ \A k \in Caches : Rsp(k, Home(a), a)' = Rsp(k, Home(a), a)
    BY DEF SameRsp, BlockTypes
<1>2. \A k \in Caches : DataFor(k, a)' <=> DataFor(k, a)
    BY <1>1 DEF DataFor
<1>3. \A k, o \in Caches : AckFrom(k, o, a)' <=> AckFrom(k, o, a)
    BY <1>1 DEF AckFrom
<1>4. \A k \in Caches : Returns(k, a)' <=> Returns(k, a)
    BY <1>1 DEF Returns, Home
<1>5. OneData(a) => OneData(a)'
    BY <1>1 DEF OneData
<1> QED BY <1>2, <1>3, <1>4, <1>5

-----------------------------------------------------------------------------
(* The L1 controllers.                                                     *)

(* The core makes its cache ask for a block, or evict it. *)
LEMMA AskKeeps ==
    ASSUME NEW a \in Addrs, BlockTypes(a), BlockInv(a), NEW c \in Caches, NEW s, NEW q,
           <<cst[c][a], s, q.type>> \in
               {<<"I", "IS_D", "GETS">>, <<"I", "IM_AD", "GETM">>, <<"S", "SM_AD", "GETM">>,
                <<"S", "SI_A", "PUTS">>, <<"M", "MI_A", "PUTM">>},
           Asks(c, a, q), Moves(c, a, s),
           OthersTbe(c, a), tbe'[c][a].pendingAcks = 0, OthersEntry(c, a),
           s \in {"SM_AD", "MI_A"} => entry'[c][a].data = entry[c][a].data,
           s = "MI_A" => tbe'[c][a].data = entry[c][a].data /\ q.data = entry[c][a].data,
           written'[a] = written[a], SameFwd(a), SameRsp(a), SameDir(a)
    PROVE  BlockInv(a)'
<1>1. /\ \A k \in Caches : cst'[k][a] = IF k = c THEN s ELSE cst[k][a]
      /\ cst[c][a] \in {"I", "S", "M"}
      /\ cst[c][a] = "I" => s \in {"IS_D", "IM_AD"}
      /\ cst[c][a] = "S" => s \in {"SM_AD", "SI_A"}
      /\ cst[c][a] = "M" => s = "MI_A"
      /\ s = "IS_D" => q.type = "GETS"
      /\ s \in {"IM_AD", "SM_AD"} => q.type = "GETM"
      /\ s = "SI_A" => q.type = "PUTS"
      /\ s = "MI_A" => q.type = "PUTM"
    BY DEF Moves
<1>2. ~Requests(c, a) /\ Req(c, a) = {}
    BY <1>1 DEF BlockInv, RequestFits, BlockTypes, RequestMsg, Requests
<1>3. /\ \A k \in Caches : Requests(k, a)' <=> Requests(k, a) \/ k = c
      /\ \A k \in Caches : Req(k, a)' = IF k = c THEN {q} ELSE Req(k, a)
    BY DEF Asks, Requests
<1>4. \A k \in Caches : MemFor(k, a)' <=> MemFor(k, a)
    BY DEF SameDir, MemFor
<1>5. ~MemFor(c, a) /\ ~GetsFor(c, a) /\ ~GetmFor(c, a) /\ ~DataFor(c, a) /\ ~Acked(c, a)
    BY <1>1 DEF BlockInv, PlaceFits
<1>6. OneRequest(a)' /\ OneForward(a)' /\ OneData(a)' /\ OnePlace(a)'
    <2>1. OneRequest(a)'
        BY <1>3 DEF BlockInv, OneRequest
    <2>2. OneForward(a)' /\ OneData(a)'
        BY SameFwds, SameRsps DEF BlockInv
    <2>3. OnePlace(a)'
        BY <1>3, <1>4, <1>5, SameFwds, SameRsps DEF BlockInv, OnePlace
    <2> QED BY <2>1, <2>2, <2>3
<1>7. RequestFits(a)'
    BY <1>1, <1>2, <1>3 DEF BlockInv, RequestFits
<1>8. PlaceFits(a)'
    BY <1>1, <1>4, <1>5, SameFwds, SameRsps DEF BlockInv, PlaceFits, SameDir, SameBooks
<1>9. RecordFits(a)'
    BY <1>1, <1>2, <1>3, SameFwds
       DEF BlockInv, RecordFits, Record, Free, Shares, Owns, Left, Asked, SameDir, SameBooks
<1>10. \A k \in Caches : Holds(k, a)' <=> Holds(k, a)
    BY <1>1, <1>2, <1>3, <1>4, <1>5, SameFwds, SameRsps DEF Holds, Asked
<1>11. OneHolder(a)' /\ OneReturn(a)'
    BY <1>10, SameFwds, SameRsps DEF BlockInv, OneHolder, OneReturn, SameDir, SameRsp, BlockTypes
<1>12. Invalidations(a)'
    BY <1>1, <1>2, <1>3, <1>4, <1>5, <1>10, SameFwds, SameRsps DEF BlockInv, Invalidations, Reads
<1>13. Balance(a)'
    <2>1. \A k \in Caches : Awaited(k, a)' = Awaited(k, a)
        BY SameFwds, SameRsps DEF Awaited
    <2>2. tbe[c][a].pendingAcks = 0
        BY <1>1, <1>5, NoneAwaited DEF DataFor, DataType
    <2> QED BY <1>1, <2>1, <2>2 DEF BlockInv, Balance, OthersTbe, SameRsp, BlockTypes
<1>14. Values(a)'
    BY <1>1, <1>3, <1>10 DEF BlockInv, Values, Valid, Readable, OthersTbe, OthersEntry, SameRsp,
       SameDir, SameBooks, BlockTypes
<1>15. Waiting(a)'
    BY DEF BlockInv, Waiting, SameDir
<1> QED BY <1>6, <1>7, <1>8, <1>9, <1>11, <1>12, <1>13, <1>14, <1>15 DEF BlockInv

(* A store into a block its cache may write. *)
LEMMA StoreKeeps ==
    ASSUME NEW a \in Addrs, BlockTypes(a), BlockInv(a), NEW c \in Caches, cst[c][a] = "M",
           SameCst(a), SameTbe(a), OthersEntry(c, a), entry'[c][a].data = written'[a],
           SameReq(a), SameFwd(a), SameRsp(a), SameDir(a)
    PROVE  BlockInv(a)'
<1>1. \A k \in Caches : cst'[k][a] = cst[k][a]
    BY DEF SameCst
<1>2. \A k \in Caches :
          /\ MemFor(k, a)' <=> MemFor(k, a)
          /\ Requests(k, a)' <=> Requests(k, a)
    BY SameReqs DEF SameDir, MemFor
<1>3. \A k \in Caches : Holds(k, a)' <=> Holds(k, a)
    BY <1>1, <1>2, SameFwds, SameRsps DEF Holds, Asked
<1>4. OneRequest(a)' /\ OneForward(a)' /\ OneData(a)' /\ OnePlace(a)'
    BY <1>2, SameReqs, SameFwds, SameRsps DEF BlockInv, OnePlace
<1>5. RequestFits(a)' /\ PlaceFits(a)'
    BY <1>1, <1>2, SameFwds, SameRsps
       DEF BlockInv, RequestFits, PlaceFits, SameReq, SameDir, SameBooks
<1>6. RecordFits(a)'
    BY <1>1, <1>2, SameFwds
       DEF BlockInv, RecordFits, Record, Free, Shares, Owns, Left, Asked, SameDir, SameBooks
<1>7. OneHolder(a)' /\ OneReturn(a)'
    BY <1>3, SameFwds, SameRsps DEF BlockInv, OneHolder, OneReturn, SameDir, SameRsp, BlockTypes
<1>8. Invalidations(a)'
    BY <1>1, <1>2, <1>3, SameFwds, SameRsps DEF BlockInv, Invalidations, Reads
<1>9. Balance(a)'
    <2>1. \A k \in Caches : Awaited(k, a)' = Awaited(k, a)
        BY SameFwds, SameRsps DEF Awaited
    <2> QED BY <1>1, <2>1 DEF BlockInv, Balance, SameTbe, SameRsp, BlockTypes
<1>10. Holds(c, a) /\ Awaited(c, a) = {} /\ ~DataFor(c, a) /\ ~MemFor(c, a) /\ ~Requests(c, a)
    <2>1. Holds(c, a) /\ ~DataFor(c, a) /\ ~MemFor(c, a) /\ ~Requests(c, a)
        BY DEF Holds, BlockInv, PlaceFits, RequestFits, Requests, BlockTypes, RequestMsg
    <2>2. Awaited(c, a) = {}
        BY <2>1, NoneAwaited DEF DataFor, DataType
    <2> QED BY <2>1, <2>2
<1>11. \A o \in Caches \ {c} : ~Reads(o, a) /\ ~Holds(o, a)
    BY <1>10, NoOtherReader
<1>12. /\ \A k \in Caches : ~DataFor(k, a) /\ ~Returns(k, a)
       /\ \A k \in Caches \ {c} : ~Valid(k, a)
       /\ \A k \in Caches \ {c} : cst[k][a] = "MI_A" => ~Holds(k, a) /\ ~Requests(k, a)
    BY <1>10, <1>11 DEF BlockInv, PlaceFits, OneReturn, Reads, Holds, Valid, Readable
<1>13. dst[a] \in {"M", "MS_D"} /\ Mem(a) = {}
    <2>1. dst[a] \in {"M", "MS_D", "IM_D"}
        BY <1>10 DEF BlockInv, OneHolder
    <2>2. \A mm \in Mem(a) : dst[a] # "IM_D"
        BY <1>10, <1>11, <2>1 DEF BlockInv, PlaceFits, Holds, MemFor, BlockTypes
    <2> QED BY <2>1, <2>2 DEF BlockInv, Waiting
<1>14. \A k \in Caches : \A m \in Req(k, a) : ~(m.type = "PUTM" /\ k \in owner[a])
    BY <1>10, <1>12 DEF BlockInv, RequestFits, RecordFits, Record, Shares, Free, Left, Requests, Holds
<1>15. Values(a)'
    BY <1>1, <1>3, <1>12, <1>13, <1>14
       DEF Values, Valid, Readable, DataFor, Returns, OthersEntry, SameReq, SameRsp, SameDir,
           SameBooks, BlockTypes, Home
<1>16. Waiting(a)'
    BY DEF BlockInv, Waiting, SameDir
<1> QED BY <1>4, <1>5, <1>6, <1>7, <1>8, <1>9, <1>15, <1>16 DEF BlockInv

(* An invalidation is taken: its acknowledgement is on the way instead. *)
LEMMA InvKeeps ==
    ASSUME NEW a \in Addrs, BlockTypes(a), BlockInv(a), NEW c \in Caches,
           NEW m \in Fwd(c, a), m.type = "INV", NEW s, NEW r,
           <<cst[c][a], s>> \in {<<"S", "I">>, <<"SM_AD", "IM_AD">>, <<"SI_A", "II_A">>},
           Takes(c, a, m), r.type = "ACK", Responds(c, m.req, a, r), Moves(c, a, s),
           SameTbe(a), OthersEntry(c, a), written'[a] = written[a], SameReq(a), SameDir(a)
    PROVE  BlockInv(a)'
<1>1. /\ \A k \in Caches : cst'[k][a] = IF k = c THEN s ELSE cst[k][a]
      /\ cst[c][a] \in {"S", "SM_AD", "SI_A"}
      /\ cst[c][a] = "S" => s = "I"
      /\ cst[c][a] = "SM_AD" => s = "IM_AD"
      /\ cst[c][a] = "SI_A" => s = "II_A"
    BY DEF Moves
<1>2. /\ m.req \in Caches /\ Holds(m.req, a) /\ m.req # c
      /\ InvFrom(m.req, c, a) /\ ~AckFrom(m.req, c, a) /\ Invalidated(c, a)
    BY DEF BlockTypes, InvFrom, Invalidated, BlockInv, Invalidations
<1>3. \A k \in Caches :
          /\ MemFor(k, a)' <=> MemFor(k, a)
          /\ Requests(k, a)' <=> Requests(k, a)
    BY SameReqs DEF SameDir, MemFor
<1>4. \A k \in Caches : \A x : x \in Fwd(k, a)' <=> x \in Fwd(k, a) /\ ~(k = c /\ x = m)
    BY DEF Takes
<1>5. /\ \A k \in Caches :
             /\ Acked(k, a)' <=> Acked(k, a)
             /\ GetsAt(k, a)' <=> GetsAt(k, a)
             /\ GetmAt(k, a)' <=> GetmAt(k, a)
             /\ Invalidated(k, a)' <=> Invalidated(k, a) /\ k # c
      /\ \A k \in Caches :
             /\ GetsFor(k, a)' <=> GetsFor(k, a)
             /\ GetmFor(k, a)' <=> GetmFor(k, a)
      /\ \A k, o \in Caches : InvFrom(k, o, a)' <=> InvFrom(k, o, a) /\ o # c
      /\ OneForward(a)'
    <2>1. \A k \in Caches :
             /\ Acked(k, a)' <=> Acked(k, a)
             /\ GetsAt(k, a)' <=> GetsAt(k, a)
             /\ GetmAt(k, a)' <=> GetmAt(k, a)
        BY <1>4 DEF Acked, GetsAt, GetmAt
    <2>2. \A k \in Caches : Invalidated(k, a)' <=> Invalidated(k, a) /\ k # c
        BY <1>4, OneInv DEF Invalidated
    <2>3. \A k \in Caches :
             /\ GetsFor(k, a)' <=> GetsFor(k, a)
             /\ GetmFor(k, a)' <=> GetmFor(k, a)
        BY <1>4 DEF GetsFor, GetmFor
    <2>4. \A k, o \in Caches : InvFrom(k, o, a)' <=> InvFrom(k, o, a) /\ o # c
        BY <1>4, OneInv DEF InvFrom
    <2>5. OneForward(a)'
        BY <1>4 DEF BlockInv, OneForward
    <2> QED BY <2>1, <2>2, <2>3, <2>4, <2>5
<1>6. \A n \in Nodes, k \in Caches : \A x :
          x \in Rsp(n, k, a)' <=> x \in Rsp(n, k, a) \/ (n = c /\ k = m.req /\ x = r)
    BY <1>2 DEF Responds, BlockTypes
<1>7. /\ \A k \in Caches : DataFor(k, a)' <=> DataFor(k, a)
      /\ \A k, o \in Caches :
             AckFrom(k, o, a)' <=> AckFrom(k, o, a) \/ (o = c /\ k = m.req)
      /\ \A k \in Caches : Rsp(k, Home(a), a)' = Rsp(k, Home(a), a)
      /\ \A k \in Caches : Returns(k, a)' <=> Returns(k, a)
      /\ OneData(a)'
    <2>1. \A k \in Caches : DataFor(k, a)' <=> DataFor(k, a)
        BY <1>6 DEF DataFor, DataType
    <2>2. \A k, o \in Caches :
             AckFrom(k, o, a)' <=> AckFrom(k, o, a) \/ (o = c /\ k = m.req)
        BY <1>6 DEF AckFrom, BlockTypes
    <2>3. \A k \in Caches : Rsp(k, Home(a), a)' = Rsp(k, Home(a), a)
        BY <1>2 DEF Responds, BlockTypes
    <2>4. OneData(a)'
        BY <1>6 DEF BlockInv, OneData, DataType
    <2> QED BY <2>1, <2>2, <2>3, <2>4 DEF Returns, Home
<1>8. OneRequest(a)' /\ OnePlace(a)'
    BY <1>3, <1>5, <1>7, SameReqs DEF BlockInv, OnePlace
<1>9. RequestFits(a)' /\ PlaceFits(a)'
    BY <1>1, <1>3, <1>5, <1>7
       DEF BlockInv, RequestFits, PlaceFits, SameReq, SameDir, SameBooks
<1>10. RecordFits(a)'
    BY <1>1, <1>2, <1>3, <1>5
       DEF BlockInv, RecordFits, Record, Free, Shares, Owns, Left, Asked, SameDir, SameBooks
<1>11. \A k \in Caches : Holds(k, a)' <=> Holds(k, a)
    BY <1>1, <1>3, <1>5, <1>7 DEF Holds, Asked
<1>12. OneHolder(a)' /\ OneReturn(a)'
    BY <1>5, <1>7, <1>11 DEF BlockInv, OneHolder, OneReturn, SameDir
<1>13. Invalidations(a)'
    <2>1. \A k \in Caches : Reads(k, a)' => Reads(k, a) /\ k # c
        BY <1>1, <1>3, <1>7 DEF Reads
    <2> QED BY <1>1, <1>2, <1>3, <1>5, <1>7, <1>11, <2>1 DEF BlockInv, Invalidations
<1>14. Balance(a)'
    <2>1. \A k \in Caches : Awaited(k, a)' = Awaited(k, a)
        <3>1. \A k \in Caches : InvFrom(k, c, a) => k = m.req
            BY OneInv DEF InvFrom
        <3> QED BY <1>2, <1>5, <1>7, <3>1 DEF Awaited
    <2> QED BY <1>1, <1>6, <2>1 DEF BlockInv, Balance, SameTbe
<1>15. Values(a)'
    BY <1>1, <1>6, <1>7, <1>11
       DEF BlockInv, Values, Valid, Readable, DataType, SameTbe, OthersEntry, SameReq, SameDir, SameBooks
<1>16. Waiting(a)'
    BY DEF BlockInv, Waiting, SameDir
<1> QED BY <1>5, <1>7, <1>8, <1>9, <1>10, <1>12, <1>13, <1>14, <1>15, <1>16 DEF BlockInv

(* The holder hands the block on to the cache that asked to write it. *)
LEMMA HandOnKeeps ==
    ASSUME NEW a \in Addrs, BlockTypes(a), BlockInv(a), NEW c \in Caches,
           NEW m \in Fwd(c, a), m.type = "GETM", NEW s, NEW r,
           <<cst[c][a], s>> \in {<<"M", "I">>, <<"MI_A", "II_A">>},
           Takes(c, a, m), Responds(c, m.req, a, r), r.type = "DATA_FROM_OWNER",
           r.data = (IF cst[c][a] = "M" THEN entry[c][a].data ELSE tbe[c][a].data),
           Moves(c, a, s), SameTbe(a), OthersEntry(c, a), written'[a] = written[a],
           SameReq(a), SameDir(a)
    PROVE  BlockInv(a)'
<1> DEFINE x == m.req
<1>1. /\ \A k \in Caches : cst'[k][a] = IF k = c THEN s ELSE cst[k][a]
      /\ cst[c][a] \in {"M", "MI_A"}
      /\ cst[c][a] = "M" => s = "I"
      /\ cst[c][a] = "MI_A" => s = "II_A"
    BY DEF Moves
<1>2. /\ x \in Caches /\ GetmFor(x, a) /\ cst[x][a] \in {"IM_AD", "SM_AD"} /\ x # c
      /\ GetmAt(c, a) /\ ~GetsAt(c, a) /\ Holds(c, a)
    <2>1. x \in Caches /\ GetmFor(x, a) /\ GetmAt(c, a)
        BY DEF BlockTypes, GetmFor, GetmAt
    <2>2. ~GetsAt(c, a)
        BY DEF GetsAt, BlockInv, OneForward, Forward
    <2> QED BY <1>1, <2>1, <2>2 DEF BlockInv, PlaceFits, Holds, Asked
<1>3. \A k \in Caches :
          /\ MemFor(k, a)' <=> MemFor(k, a)
          /\ Requests(k, a)' <=> Requests(k, a)
    BY SameReqs DEF SameDir, MemFor
<1>4. \A k \in Caches : \A y : y \in Fwd(k, a)' <=> y \in Fwd(k, a) /\ ~(k = c /\ y = m)
    BY DEF Takes
<1>5. /\ \A k \in Caches :
             /\ Acked(k, a)' <=> Acked(k, a)
             /\ GetsAt(k, a)' <=> GetsAt(k, a)
             /\ GetmAt(k, a)' <=> GetmAt(k, a) /\ k # c
             /\ Invalidated(k, a)' <=> Invalidated(k, a)
      /\ \A k \in Caches :
             /\ GetsFor(k, a)' <=> GetsFor(k, a)
             /\ GetmFor(k, a)' <=> GetmFor(k, a) /\ k # x
      /\ \A k, o \in Caches : InvFrom(k, o, a)' <=> InvFrom(k, o, a)
      /\ OneForward(a)'
    <2>1. \A k \in Caches :
             /\ Acked(k, a)' <=> Acked(k, a)
             /\ GetsAt(k, a)' <=> GetsAt(k, a)
             /\ Invalidated(k, a)' <=> Invalidated(k, a)
        BY <1>4 DEF Acked, GetsAt, Invalidated
    <2>2. \A k \in Caches : GetmAt(k, a)' <=> GetmAt(k, a) /\ k # c
        BY <1>4 DEF GetmAt, BlockInv, OneForward, Forward
    <2>3. \A k \in Caches : GetsFor(k, a)' <=> GetsFor(k, a)
        BY <1>4 DEF GetsFor
    <2>4. \A k \in Caches : GetmFor(k, a)' <=> GetmFor(k, a) /\ k # x
        BY <1>4 DEF GetmFor, BlockInv, OneForward, Forward
    <2>5. \A k, o \in Caches : InvFrom(k, o, a)' <=> InvFrom(k, o, a)
        BY <1>4 DEF InvFrom
    <2>6. OneForward(a)'
        BY <1>4 DEF BlockInv, OneForward
    <2> QED BY <2>1, <2>2, <2>3, <2>4, <2>5, <2>6
<1>6. \A n \in Nodes, k \in Caches : \A y :
          y \in Rsp(n, k, a)' <=> y \in Rsp(n, k, a) \/ (n = c /\ k = x /\ y = r)
    BY <1>2 DEF Responds, BlockTypes
<1>7. /\ \A k \in Caches : DataFor(k, a)' <=> DataFor(k, a) \/ k = x
      /\ \A k, o \in Caches : AckFrom(k, o, a)' <=> AckFrom(k, o, a)
      /\ \A k \in Caches : Rsp(k, Home(a), a)' = Rsp(k, Home(a), a)
      /\ \A k \in Caches : Returns(k, a)' <=> Returns(k, a)
      /\ OneData(a)'
    <2>1. \A k \in Caches : DataFor(k, a)' <=> DataFor(k, a) \/ k = x
        BY <1>6 DEF DataFor, DataType, BlockTypes
    <2>2. \A k, o \in Caches : AckFrom(k, o, a)' <=> AckFrom(k, o, a)
        BY <1>6 DEF AckFrom, BlockTypes
    <2>3. \A k \in Caches : Rsp(k, Home(a), a)' = Rsp(k, Home(a), a)
        BY <1>2 DEF Responds, BlockTypes
    <2>4. ~DataFor(x, a)
        BY <1>2 DEF BlockInv, OnePlace
    <2>5. OneData(a)'
        BY <1>6, <2>4 DEF BlockInv, OneData, DataFor
    <2> QED BY <2>1, <2>2, <2>3, <2>5 DEF Returns, Home
<1> HIDE DEF x
<1>8. OneRequest(a)' /\ OnePlace(a)'
    BY <1>2, <1>3, <1>5, <1>7, SameReqs DEF BlockInv, OnePlace, PlaceFits
<1>9. RequestFits(a)' /\ PlaceFits(a)'
    <2>1. RequestFits(a)'
        BY <1>1, <1>3 DEF BlockInv, RequestFits, SameReq
    <2>2. ~MemFor(c, a) /\ ~DataFor(c, a) /\ ~GetsFor(c, a) /\ ~GetmFor(c, a)
        BY <1>1, <1>2 DEF BlockInv, PlaceFits, OneHolder
    <2>3. cst[c][a] = "M" => ~Acked(c, a)
        BY DEF BlockInv, PlaceFits
    <2> QED BY <1>1, <1>2, <1>3, <1>5, <1>7, <2>1, <2>2, <2>3
            DEF BlockInv, PlaceFits, SameDir, SameBooks
<1>10. RecordFits(a)'
    BY <1>1, <1>2, <1>3, <1>5
       DEF BlockInv, RecordFits, Record, Free, Shares, Owns, Left, Asked, SameDir, SameBooks
<1>11. Awaited(c, a) = {}
    BY <1>1, NoneAwaited DEF BlockInv, PlaceFits, DataFor, DataType
<1>12. /\ \A o \in Caches \ {c} : ~Reads(o, a) /\ ~Holds(o, a)
       /\ \A o, k \in Caches : ~InvFrom(k, o, a) /\ ~AckFrom(k, o, a)
    BY <1>2, <1>11, NoOtherReader
<1>13. \A k \in Caches : Holds(k, a)' <=> k = x
    BY <1>1, <1>2, <1>3, <1>5, <1>7, <1>12 DEF Holds, Asked
<1>14. OneHolder(a)' /\ OneReturn(a)'
    BY <1>2, <1>5, <1>7, <1>13 DEF BlockInv, OneHolder, OneReturn, SameDir
<1>15. Invalidations(a)'
    <2>1. \A k \in Caches : Reads(k, a)' => Reads(k, a) /\ k # c
        BY <1>1, <1>2, <1>3, <1>7 DEF Reads
    <2> QED BY <1>1, <1>3, <1>5, <1>7, <1>12, <1>13, <2>1 DEF BlockInv, Invalidations
<1>16. Balance(a)'
    <2>1. \A k \in Caches : Awaited(k, a)' = Awaited(k, a)
        BY <1>5, <1>7 DEF Awaited
    <2> QED BY <1>1, <1>6, <2>1 DEF BlockInv, Balance, SameTbe
<1>17. Values(a)'
    <2>1. r.data = written[a]
        BY <1>1, <1>2 DEF BlockInv, Values, Valid, Readable
    <2> QED BY <1>1, <1>2, <1>6, <1>7, <1>12, <1>13, <2>1
        DEF BlockInv, Values, Valid, Readable, SameTbe, OthersEntry, SameReq, SameDir, SameBooks
<1>18. Waiting(a)'
    BY DEF BlockInv, Waiting, SameDir
<1> QED BY <1>5, <1>7, <1>8, <1>9, <1>10, <1>14, <1>15, <1>16, <1>17, <1>18 DEF BlockInv

(* The holder lets another cache read the block, and returns the data. *)
LEMMA DowngradeKeeps ==
    ASSUME NEW a \in Addrs, BlockTypes(a), BlockInv(a), NEW c \in Caches,
           NEW m \in Fwd(c, a), m.type = "GETS", NEW s, NEW r, NEW w,
           <<cst[c][a], s>> \in {<<"M", "S">>, <<"MI_A", "SI_A">>},
           Takes(c, a, m), r.type = "DATA_FROM_OWNER", w.type = "DATA",
           \A i \in Nodes, k \in Nodes :
               Rsp(i, k, a)' = Rsp(i, k, a) \union
                   (IF i = c /\ k = m.req THEN {r} ELSE {}) \union
                   (IF i = c /\ k = Home(a) THEN {w} ELSE {}),
           r.data = w.data,
           r.data = (IF cst[c][a] = "M" THEN entry[c][a].data ELSE tbe[c][a].data),
           Moves(c, a, s), SameTbe(a), SameEntry(a), written'[a] = written[a],
           SameReq(a), SameDir(a)
    PROVE  BlockInv(a)'
<1> DEFINE x == m.req
<1>1. /\ \A k \in Caches : cst'[k][a] = IF k = c THEN s ELSE cst[k][a]
      /\ cst[c][a] \in {"M", "MI_A"}
      /\ cst[c][a] = "M" => s = "S"
      /\ cst[c][a] = "MI_A" => s = "SI_A"
    BY DEF Moves
<1>2. /\ x \in Caches /\ GetsFor(x, a) /\ cst[x][a] = "IS_D" /\ x # c
      /\ GetsAt(c, a) /\ ~GetmAt(c, a) /\ Holds(c, a) /\ dst[a] = "MS_D"
    <2>1. x \in Caches /\ GetsFor(x, a) /\ GetsAt(c, a)
        BY DEF BlockTypes, GetsFor, GetsAt
    <2>2. ~GetmAt(c, a)
        BY DEF GetmAt, BlockInv, OneForward, Forward
    <2> QED BY <1>1, <2>1, <2>2 DEF BlockInv, PlaceFits, Holds, Asked, OneReturn
<1>3. \A k \in Caches :
          /\ MemFor(k, a)' <=> MemFor(k, a)
          /\ Requests(k, a)' <=> Requests(k, a)
    BY SameReqs DEF SameDir, MemFor
<1>4. \A k \in Caches : \A y : y \in Fwd(k, a)' <=> y \in Fwd(k, a) /\ ~(k = c /\ y = m)
    BY DEF Takes
<1>5. /\ \A k \in Caches :
             /\ Acked(k, a)' <=> Acked(k, a)
             /\ GetsAt(k, a)' <=> GetsAt(k, a) /\ k # c
             /\ GetmAt(k, a)' <=> GetmAt(k, a)
             /\ Invalidated(k, a)' <=> Invalidated(k, a)
      /\ \A k \in Caches :
             /\ GetsFor(k, a)' <=> GetsFor(k, a) /\ k # x
             /\ GetmFor(k, a)' <=> GetmFor(k, a)
      /\ \A k, o \in Caches : InvFrom(k, o, a)' <=> InvFrom(k, o, a)
      /\ OneForward(a)'
    <2>1. \A k \in Caches :
             /\ Acked(k, a)' <=> Acked(k, a)
             /\ GetmAt(k, a)' <=> GetmAt(k, a)
             /\ Invalidated(k, a)' <=> Invalidated(k, a)
        BY <1>4 DEF Acked, GetmAt, Invalidated
    <2>2. \A k \in Caches : GetsAt(k, a)' <=> GetsAt(k, a) /\ k # c
        BY <1>4 DEF GetsAt, BlockInv, OneForward, Forward
    <2>3. \A k \in Caches : GetmFor(k, a)' <=> GetmFor(k, a)
        BY <1>4 DEF GetmFor
    <2>4. \A k \in Caches : GetsFor(k, a)' <=> GetsFor(k, a) /\ k # x
        BY <1>4 DEF GetsFor, BlockInv, OneForward, Forward
    <2>5. \A k, o \in Caches : InvFrom(k, o, a)' <=> InvFrom(k, o, a)
        BY <1>4 DEF InvFrom
    <2>6. OneForward(a)'
        BY <1>4 DEF BlockInv, OneForward
    <2> QED BY <2>1, <2>2, <2>3, <2>4, <2>5, <2>6
<1>6. /\ \A n \in Nodes, k \in Caches : \A y :
             y \in Rsp(n, k, a)' <=> y \in Rsp(n, k, a) \/ (n = c /\ k = x /\ y = r)
      /\ \A k \in Caches :
             Rsp(k, Home(a), a)' = IF k = c THEN Rsp(k, Home(a), a) \union {w} ELSE Rsp(k, Home(a), a)
    <2>1. Home(a) \in Nodes /\ Home(a) \notin Caches /\ Caches \subseteq Nodes
        BY DEF BlockTypes
    <2>2. \A n \in Nodes, k \in Caches :
              Rsp(n, k, a)' = Rsp(n, k, a) \union (IF n = c /\ k = x THEN {r} ELSE {})
        BY <2>1
    <2>3. \A k \in Caches :
              Rsp(k, Home(a), a)' = IF k = c THEN Rsp(k, Home(a), a) \union {w} ELSE Rsp(k, Home(a), a)
        <3> DEFINE h == Home(a)
        <3>1. \A k \in Caches : Rsp(k, h, a)' = Rsp(k, h, a) \union
                  (IF k = c /\ h = x THEN {r} ELSE {}) \union (IF k = c /\ h = h THEN {w} ELSE {})
            BY <2>1
        <3>2. h # x
            BY <1>2, <2>1
        <3> QED BY <3>1, <3>2
    <2> QED BY <2>2, <2>3
<1>7. /\ \A k \in Caches : DataFor(k, a)' <=> DataFor(k, a) \/ k = x
      /\ \A k, o \in Caches : AckFrom(k, o, a)' <=> AckFrom(k, o, a)
      /\ \A k \in Caches : Returns(k, a)' <=> k = c
      /\ \A k \in Caches : Rsp(k, Home(a), a)' = IF k = c THEN {w} ELSE {}
      /\ OneData(a)'
    <2>1. \A k \in Caches : DataFor(k, a)' <=> DataFor(k, a) \/ k = x
        BY <1>6 DEF DataFor, DataType, BlockTypes
    <2>2. \A k, o \in Caches : AckFrom(k, o, a)' <=> AckFrom(k, o, a)
        BY <1>6 DEF AckFrom, BlockTypes
    <2>3. \A k \in Caches : Rsp(k, Home(a), a)' = IF k = c THEN {w} ELSE {}
        BY <1>2, <1>6 DEF BlockInv, OneReturn, Returns
    <2>4. ~DataFor(x, a)
        BY <1>2 DEF BlockInv, OnePlace
    <2>5. OneData(a)'
        BY <1>6, <2>4 DEF BlockInv, OneData, DataFor
    <2> QED BY <2>1, <2>2, <2>3, <2>5 DEF Returns, Home
<1> HIDE DEF x
<1>8. OneRequest(a)' /\ OnePlace(a)'
    BY <1>2, <1>3, <1>5, <1>7, SameReqs DEF BlockInv, OnePlace, PlaceFits
<1>9. RequestFits(a)' /\ PlaceFits(a)'
    <2>1. RequestFits(a)'
        BY <1>1, <1>3 DEF BlockInv, RequestFits, SameReq
    <2>2. ~MemFor(c, a) /\ ~DataFor(c, a) /\ ~GetsFor(c, a) /\ ~GetmFor(c, a)
        BY <1>1, <1>2 DEF BlockInv, PlaceFits, OneHolder
    <2>3. cst[c][a] = "M" => ~Acked(c, a)
        BY DEF BlockInv, PlaceFits
    <2> QED BY <1>1, <1>2, <1>3, <1>5, <1>7, <2>1, <2>2, <2>3
            DEF BlockInv, PlaceFits, SameDir, SameBooks
<1>10. RecordFits(a)'
    BY <1>1, <1>2, <1>3, <1>5
       DEF BlockInv, RecordFits, Record, Free, Shares, Owns, Left, Asked, SameDir, SameBooks
<1>11. Awaited(c, a) = {}
    BY <1>1, NoneAwaited DEF BlockInv, PlaceFits, DataFor, DataType
<1>12. /\ \A o \in Caches \ {c} : ~Reads(o, a) /\ ~Holds(o, a)
       /\ \A o, k \in Caches : ~InvFrom(k, o, a) /\ ~AckFrom(k, o, a)
    BY <1>2, <1>11, NoOtherReader
<1>13. \A k \in Caches : ~Holds(k, a)'
    BY <1>1, <1>2, <1>3, <1>5, <1>7, <1>12 DEF Holds, Asked
<1>14. OneHolder(a)' /\ OneReturn(a)'
    BY <1>2, <1>5, <1>7, <1>13 DEF BlockInv, OneHolder, OneReturn, SameDir
<1>15. Invalidations(a)'
    <2>1. \A k \in Caches : cst'[k][a] # "SM_AD"
        BY <1>1, <1>12 DEF Reads
    <2> QED BY <1>5, <1>7, <1>12, <1>13, <2>1 DEF Invalidations
<1>16. Balance(a)'
    <2>1. \A k \in Caches : Awaited(k, a)' = Awaited(k, a)
        BY <1>5, <1>7 DEF Awaited
    <2> QED BY <1>1, <1>6, <2>1 DEF BlockInv, Balance, SameTbe
<1>17. Values(a)'
    <2>1. r.data = written[a] /\ w.data = written[a]
        BY <1>1, <1>2 DEF BlockInv, Values, Valid, Readable
    <2>2. \A k \in Caches : Valid(k, a)' => Valid(k, a)
        BY <1>1, <1>13 DEF Valid, Readable
    <2>3. \A k \in Caches : Req(k, a)' = Req(k, a)
        BY DEF SameReq
    <2>4. \A k \in Caches, n \in Nodes : \A y \in Rsp(n, k, a)' :
              y.type \in DataType => y.data = written[a]
        BY <1>6, <2>1 DEF BlockInv, Values
    <2>5. \A k \in Caches : \A y \in Rsp(k, Home(a), a)' : y.data = written[a]
        BY <1>7, <2>1
    <2> QED BY <1>2, <1>13, <2>2, <2>3, <2>4, <2>5
        DEF BlockInv, Values, SameEntry, SameDir, SameBooks, Home
<1>18. Waiting(a)'
    BY DEF BlockInv, Waiting, SameDir
<1> QED BY <1>5, <1>7, <1>8, <1>9, <1>10, <1>14, <1>15, <1>16, <1>17, <1>18 DEF BlockInv

(* What becomes of the predicates when a cache hears data, or an           *)
(* acknowledgement.                                                        *)
LEMMA HearsData ==
    ASSUME NEW a \in Addrs, BlockTypes(a), OneData(a), NEW c \in Caches, NEW n \in Nodes,
           NEW r \in Rsp(n, c, a), r.type \in DataType, Hears(n, c, a, r)
    PROVE  /\ \A k \in Caches : DataFor(k, a)' <=> DataFor(k, a) /\ k # c
           /\ \A i \in Nodes, k \in Caches : k # c => Rsp(i, k, a)' = Rsp(i, k, a)
           /\ \A i \in Nodes : \A y \in Rsp(i, c, a)' : y \in Rsp(i, c, a) /\ y.type \notin DataType
           /\ \A k, o \in Caches : AckFrom(k, o, a)' <=> AckFrom(k, o, a)
           /\ \A k \in Caches : Returns(k, a)' <=> Returns(k, a)
           /\ \A k \in Caches : Rsp(k, Home(a), a)' = Rsp(k, Home(a), a)
           /\ OneData(a)'
<1>1. \A i \in Nodes, k \in Caches : \A y :
          y \in Rsp(i, k, a)' <=> y \in Rsp(i, k, a) /\ ~(i = n /\ k = c /\ y = r)
    BY DEF Hears, BlockTypes
<1>2. \A k \in Caches : Rsp(k, Home(a), a)' = Rsp(k, Home(a), a)
    BY DEF Hears, BlockTypes
<1>3. \A k \in Caches : DataFor(k, a)' <=> DataFor(k, a) /\ k # c
    BY <1>1 DEF DataFor, OneData
<1>4. \A k, o \in Caches : AckFrom(k, o, a)' <=> AckFrom(k, o, a)
    BY <1>1 DEF AckFrom, DataType, BlockTypes
<1>5. OneData(a)'
    BY <1>1 DEF OneData
<1>6. \A i \in Nodes, k \in Caches : k # c => Rsp(i, k, a)' = Rsp(i, k, a)
    BY DEF Hears, BlockTypes
<1>7. \A i \in Nodes : \A y \in Rsp(i, c, a)' : y \in Rsp(i, c, a) /\ y.type \notin DataType
    BY <1>1 DEF OneData
<1> QED BY <1>2, <1>3, <1>4, <1>5, <1>6, <1>7 DEF Returns, Home

\* What an Inv_Ack taken off its channel changes
LEMMA HearsAck ==
    ASSUME NEW a \in Addrs, BlockTypes(a), OneData(a), NEW c \in Caches, NEW n \in Nodes,
           NEW r \in Rsp(n, c, a), r.type = "ACK", Hears(n, c, a, r)
    PROVE  /\ n \in Caches /\ AckFrom(c, n, a) /\ r.acks = 1
           /\ \A k \in Caches : DataFor(k, a)' <=> DataFor(k, a)
           /\ \A i \in Nodes, k \in Caches : \A y :
                  y \in Rsp(i, k, a)' <=> y \in Rsp(i, k, a) /\ ~(i = n /\ k = c /\ y = r)
           /\ \A k, o \in Caches :
                  AckFrom(k, o, a)' <=> AckFrom(k, o, a) /\ ~(k = c /\ o = n)
           /\ \A k \in Caches : Returns(k, a)' <=> Returns(k, a)
           /\ \A k \in Caches : Rsp(k, Home(a), a)' = Rsp(k, Home(a), a)
           /\ OneData(a)'
<1>1. \A i \in Nodes, k \in Caches : \A y :
          y \in Rsp(i, k, a)' <=> y \in Rsp(i, k, a) /\ ~(i = n /\ k = c /\ y = r)
    BY DEF Hears, BlockTypes
<1>2. \A k \in Caches : Rsp(k, Home(a), a)' = Rsp(k, Home(a), a)
    BY DEF Hears, BlockTypes
<1>3. \A k \in Caches : DataFor(k, a)' <=> DataFor(k, a)
    BY <1>1 DEF DataFor, DataType
<1>4. n \in Caches /\ AckFrom(c, n, a) /\ r.acks = 1
    BY DEF BlockTypes, AckFrom
<1>5. \A y \in Rsp(n, c, a) : y.type = "ACK" => y = r
    BY DEF BlockTypes, ResponseMsg
<1>6. \A k, o \in Caches : AckFrom(k, o, a)' <=> AckFrom(k, o, a) /\ ~(k = c /\ o = n)
    BY <1>1, <1>4, <1>5 DEF AckFrom, BlockTypes
<1>7. OneData(a)'
    BY <1>1 DEF OneData
<1> QED BY <1>1, <1>2, <1>3, <1>4, <1>6, <1>7 DEF Returns, Home

(* A writeback acknowledgement ends the writeback: nothing follows it. *)
LEMMA WritebackKeeps ==
    ASSUME NEW a \in Addrs, BlockTypes(a), BlockInv(a), NEW c \in Caches,
           NEW m, Fwd(c, a) = {m}, m.type = "WB_ACK", Takes(c, a, m),
           cst[c][a] \in {"MI_A", "SI_A", "II_A"}, Moves(c, a, "I"),
           OthersTbe(c, a), tbe'[c][a].pendingAcks = 0, OthersEntry(c, a),
           written'[a] = written[a], SameReq(a), SameRsp(a), SameDir(a)
    PROVE  BlockInv(a)'
<1>1. \A k \in Caches : cst'[k][a] = IF k = c THEN "I" ELSE cst[k][a]
    BY DEF Moves
<1>2. /\ Acked(c, a) /\ ~Asked(c, a) /\ ~Invalidated(c, a)
      /\ ~Requests(c, a) /\ ~MemFor(c, a) /\ ~DataFor(c, a) /\ ~GetsFor(c, a) /\ ~GetmFor(c, a)
      /\ Left(c, a)
    <2>1. Acked(c, a) /\ ~Asked(c, a) /\ ~Invalidated(c, a)
        BY DEF Acked, Asked, GetsAt, GetmAt, Invalidated
    <2>2. ~Requests(c, a) /\ ~MemFor(c, a) /\ ~DataFor(c, a) /\ ~GetsFor(c, a) /\ ~GetmFor(c, a)
        BY <2>1 DEF BlockInv, OnePlace, PlaceFits
    <2> QED BY <2>1, <2>2 DEF BlockInv, RecordFits, Record
<1>3. \A k \in Caches :
          /\ MemFor(k, a)' <=> MemFor(k, a)
          /\ Requests(k, a)' <=> Requests(k, a)
    BY SameReqs DEF SameDir, MemFor
<1>4. \A k \in Caches : \A y : y \in Fwd(k, a)' <=> y \in Fwd(k, a) /\ k # c
    BY DEF Takes
<1>5. /\ \A k \in Caches :
             /\ Acked(k, a)' <=> Acked(k, a) /\ k # c
             /\ GetsAt(k, a)' <=> GetsAt(k, a)
             /\ GetmAt(k, a)' <=> GetmAt(k, a)
             /\ Invalidated(k, a)' <=> Invalidated(k, a)
      /\ \A k \in Caches :
             /\ GetsFor(k, a)' <=> GetsFor(k, a)
             /\ GetmFor(k, a)' <=> GetmFor(k, a)
      /\ \A k, o \in Caches : InvFrom(k, o, a)' <=> InvFrom(k, o, a)
      /\ OneForward(a)'
    <2>1. \A k \in Caches :
             /\ Acked(k, a)' <=> Acked(k, a) /\ k # c
             /\ GetsAt(k, a)' <=> GetsAt(k, a)
             /\ GetmAt(k, a)' <=> GetmAt(k, a)
             /\ Invalidated(k, a)' <=> Invalidated(k, a)
        BY <1>2, <1>4 DEF Acked, GetsAt, GetmAt, Invalidated, Asked
    <2>2. \A k \in Caches :
             /\ GetsFor(k, a)' <=> GetsFor(k, a)
             /\ GetmFor(k, a)' <=> GetmFor(k, a)
        BY <1>2, <1>4 DEF GetsFor, GetmFor, GetsAt, GetmAt, Asked
    <2>3. \A k, o \in Caches : InvFrom(k, o, a)' <=> InvFrom(k, o, a)
        BY <1>2, <1>4 DEF InvFrom, Invalidated
    <2>4. OneForward(a)'
        BY <1>4 DEF BlockInv, OneForward
    <2> QED BY <2>1, <2>2, <2>3, <2>4
<1>6. OneRequest(a)' /\ OneData(a)' /\ OnePlace(a)'
    BY <1>3, <1>5, SameReqs, SameRsps DEF BlockInv, OnePlace
<1>7. RequestFits(a)'
    BY <1>1, <1>2 DEF BlockInv, RequestFits, SameReq, Requests
<1>8. PlaceFits(a)'
    BY <1>1, <1>2, <1>3, <1>5, SameRsps DEF BlockInv, PlaceFits, SameDir, SameBooks
<1>9. RecordFits(a)'
    BY <1>1, <1>2, <1>3, <1>5
       DEF BlockInv, RecordFits, Record, Free, Shares, Owns, Left, Asked, SameDir, SameBooks
<1>10. \A k \in Caches : Holds(k, a)' <=> Holds(k, a)
    BY <1>1, <1>2, <1>3, <1>5, SameRsps DEF Holds, Asked
<1>11. ~Holds(c, a)
    BY <1>2 DEF Holds
<1>12. OneHolder(a)' /\ OneReturn(a)'
    BY <1>5, <1>10, SameRsps DEF BlockInv, OneHolder, OneReturn, SameDir, SameRsp, BlockTypes
<1>13. Invalidations(a)'
    <2>1. \A k \in Caches : Reads(k, a)' <=> Reads(k, a)
        BY <1>1, <1>3, SameRsps DEF Reads
    <2> QED BY <1>1, <1>3, <1>5, <1>10, <2>1, SameRsps DEF BlockInv, Invalidations
<1>14. Balance(a)'
    <2>1. \A k \in Caches : Awaited(k, a)' = Awaited(k, a)
        BY <1>5, SameRsps DEF Awaited
    <2>2. tbe[c][a].pendingAcks = 0
        BY <1>2, NoneAwaited DEF DataFor, DataType
    <2> QED BY <1>1, <2>1, <2>2 DEF BlockInv, Balance, OthersTbe, SameRsp, BlockTypes
<1>15. Values(a)'
    BY <1>1, <1>10, <1>11
       DEF BlockInv, Values, Valid, Readable, OthersTbe, OthersEntry, SameReq, SameRsp, SameDir,
           SameBooks, BlockTypes
<1>16. Waiting(a)'
    BY DEF BlockInv, Waiting, SameDir
<1> QED BY <1>5, <1>6, <1>7, <1>8, <1>9, <1>12, <1>13, <1>14, <1>15, <1>16 DEF BlockInv

(* The data a load missed arrives. *)
LEMMA LoadKeeps ==
    ASSUME NEW a \in Addrs, BlockTypes(a), BlockInv(a), NEW c \in Caches, NEW n \in Nodes,
           NEW r \in Rsp(n, c, a), r.type \in DataType, Hears(n, c, a, r),
           cst[c][a] = "IS_D", Moves(c, a, "S"),
           OthersTbe(c, a), tbe'[c][a].pendingAcks = 0,
           OthersEntry(c, a), entry'[c][a].data = r.data,
           written'[a] = written[a], SameReq(a), SameFwd(a), SameDir(a)
    PROVE  BlockInv(a)'
<1>1. \A k \in Caches : cst'[k][a] = IF k = c THEN "S" ELSE cst[k][a]
    BY DEF Moves
<1>2. /\ DataFor(c, a) /\ OneData(a)
      /\ ~Requests(c, a) /\ ~MemFor(c, a) /\ ~Acked(c, a) /\ ~GetsFor(c, a) /\ ~GetmFor(c, a)
    BY DEF BlockInv, DataFor, OnePlace, PlaceFits
<1>3. \A k \in Caches :
          /\ MemFor(k, a)' <=> MemFor(k, a)
          /\ Requests(k, a)' <=> Requests(k, a)
    BY SameReqs DEF SameDir, MemFor
<1>4. OneRequest(a)' /\ OneForward(a)' /\ OneData(a)' /\ OnePlace(a)'
    BY <1>2, <1>3, SameReqs, SameFwds, HearsData DEF BlockInv, OnePlace
<1>5. RequestFits(a)'
    BY <1>1, <1>2 DEF BlockInv, RequestFits, SameReq, Requests
<1>6. PlaceFits(a)'
    BY <1>1, <1>2, <1>3, SameFwds, HearsData DEF BlockInv, PlaceFits, SameDir, SameBooks
<1>7. RecordFits(a)'
    BY <1>1, <1>2, <1>3, SameFwds
       DEF BlockInv, RecordFits, Record, Free, Shares, Owns, Left, Asked, SameDir, SameBooks
<1>8. /\ \A k \in Caches : Holds(k, a)' <=> Holds(k, a)
      /\ ~Holds(c, a) /\ Reads(c, a)
    BY <1>1, <1>2, <1>3, SameFwds, HearsData DEF Holds, Asked, Reads
<1>9. OneHolder(a)' /\ OneReturn(a)'
    BY <1>2, <1>8, SameFwds, HearsData DEF BlockInv, OneHolder, OneReturn, SameDir
<1>10. Invalidations(a)'
    <2>1. \A k \in Caches : Reads(k, a)' => Reads(k, a)
        BY <1>1, <1>2, <1>3, <1>8, HearsData DEF Reads
    <2> QED BY <1>1, <1>2, <1>3, <1>8, <2>1, SameFwds, HearsData DEF BlockInv, Invalidations
<1>11. Balance(a)'
    <2>1. \A k \in Caches : Awaited(k, a)' = Awaited(k, a)
        BY <1>2, SameFwds, HearsData DEF Awaited
    <2>2. Awaited(c, a) = {} /\ Cardinality(Awaited(c, a)) = 0
        BY <1>8, AwaitedFinite DEF BlockInv, Invalidations, Awaited
    <2>3. \A i \in Nodes : \A y \in Rsp(i, c, a)' : y.type # "DATA_FROM_DIR"
        BY <1>2, HearsData DEF DataType
    <2>4. \A i \in Nodes, k \in Caches : k # c => Rsp(i, k, a)' = Rsp(i, k, a)
        BY <1>2, HearsData
    <2>5. \A k \in Caches \ {c} : cst'[k][a] = cst[k][a] /\ tbe'[k][a] = tbe[k][a]
        BY <1>1 DEF OthersTbe
    <2>6. cst'[c][a] = "S" /\ Cardinality(Awaited(c, a)') = 0
        BY <1>1, <2>1, <2>2
    <2> QED BY <2>1, <2>3, <2>4, <2>5, <2>6 DEF BlockInv, Balance
<1>12. Values(a)'
    <2>1. r.data = written[a]
        BY DEF BlockInv, Values
    <2>2. \A i \in Nodes, k \in Caches : \A y : y \in Rsp(i, k, a)' => y \in Rsp(i, k, a)
        BY <1>2, HearsData
    <2>3. \A k \in Caches : Rsp(k, Home(a), a)' = Rsp(k, Home(a), a)
        BY <1>2, HearsData
    <2> QED BY <1>1, <1>8, <2>1, <2>2, <2>3
        DEF BlockInv, Values, Valid, Readable, OthersTbe, OthersEntry, SameReq, SameDir, SameBooks, Home
<1>13. Waiting(a)'
    BY DEF BlockInv, Waiting, SameDir
<1> QED BY <1>4, <1>5, <1>6, <1>7, <1>9, <1>10, <1>11, <1>12, <1>13 DEF BlockInv

(* The last response a store waits for arrives: the store is done. *)
LEMMA WriteKeeps ==
    ASSUME NEW a \in Addrs, BlockTypes(a), BlockInv(a), NEW c \in Caches, NEW n \in Nodes,
           NEW r \in Rsp(n, c, a), Hears(n, c, a, r),
           \/ /\ cst[c][a] \in {"IM_AD", "SM_AD"} /\ r.type \in DataType
              /\ r.type = "DATA_FROM_DIR" => r.acks = 0 \/ tbe[c][a].pendingAcks - r.acks = 0
           \/ /\ cst[c][a] \in {"IM_A", "SM_A"} /\ r.type = "ACK"
              /\ tbe[c][a].pendingAcks - r.acks = 0,
           Moves(c, a, "M"), OthersTbe(c, a), tbe'[c][a].pendingAcks = 0,
           OthersEntry(c, a), entry'[c][a].data = written'[a],
           SameReq(a), SameFwd(a), SameDir(a)
    PROVE  BlockInv(a)'
<1>1. \A k \in Caches : cst'[k][a] = IF k = c THEN "M" ELSE cst[k][a]
    BY DEF Moves
<1>2. /\ OneData(a) /\ cst[c][a] \in {"IM_AD", "SM_AD", "IM_A", "SM_A"}
      /\ cst[c][a] \in {"IM_AD", "SM_AD"} => DataFor(c, a)
      /\ cst[c][a] \in {"IM_A", "SM_A"} => ~DataFor(c, a)
      /\ ~Requests(c, a) /\ ~MemFor(c, a) /\ ~Acked(c, a) /\ ~GetsFor(c, a)
      /\ Holds(c, a)
    <2>1. OneData(a) /\ (cst[c][a] \in {"IM_AD", "SM_AD"} => DataFor(c, a))
        BY DEF BlockInv, DataFor, DataType
    <2>2. cst[c][a] \in {"IM_A", "SM_A"} => ~DataFor(c, a) /\ ~MemFor(c, a)
        BY DEF BlockInv, PlaceFits
    <2>3. cst[c][a] \in {"IM_A", "SM_A"} => ~Requests(c, a)
        BY DEF BlockInv, RequestFits, Requests, BlockTypes, RequestMsg
    <2> QED BY <2>1, <2>2, <2>3 DEF BlockInv, OnePlace, PlaceFits, Holds
<1>3. \/ r.type \in DataType /\ DataFor(c, a) /\ Awaited(c, a) = {}
      \/ r.type = "ACK" /\ ~DataFor(c, a) /\ n \in Caches /\ Awaited(c, a) = {n}
    <2>1. CASE r.type \in DataType
        <3>1. cst[c][a] \in {"IM_AD", "SM_AD"} /\ DataFor(c, a)
            BY <1>2, <2>1 DEF DataType
        <3>2. tbe[c][a].pendingAcks <= 0 /\ tbe[c][a].pendingAcks \in Int
            BY <3>1 DEF BlockInv, Balance, BlockTypes
        <3>3. CASE r.type = "DATA_FROM_DIR"
            <4>1. tbe[c][a].pendingAcks - r.acks = Cardinality(Awaited(c, a))
                BY <3>3 DEF BlockInv, Balance
            <4>2. r.acks = 0 \/ tbe[c][a].pendingAcks - r.acks = 0
                BY <3>1, <3>3
            <4>3. Cardinality(Awaited(c, a)) = 0
                BY <3>2, <4>1, <4>2, AwaitedFinite
            <4> QED BY <2>1, <3>1, <4>3, AwaitedFinite
        <3>4. CASE r.type # "DATA_FROM_DIR"
            <4>1. \A i \in Nodes : \A y \in Rsp(i, c, a) : y.type # "DATA_FROM_DIR"
                BY <1>2, <2>1, <3>4 DEF OneData, DataType
            <4> QED BY <2>1, <3>1, <4>1, NoneAwaited
        <3> QED BY <3>3, <3>4
    <2>2. CASE r.type = "ACK"
        <3>1. cst[c][a] \in {"IM_A", "SM_A"} /\ tbe[c][a].pendingAcks - r.acks = 0
            BY <2>2 DEF DataType
        <3>2. n \in Caches /\ AckFrom(c, n, a) /\ r.acks = 1
            BY <1>2, <2>2, HearsAck
        <3>3. \A i \in Nodes : \A y \in Rsp(i, c, a) : y.type # "DATA_FROM_DIR"
            BY <1>2, <3>1 DEF DataFor, DataType
        <3>4. tbe[c][a].pendingAcks = Cardinality(Awaited(c, a)) /\ tbe[c][a].pendingAcks \in Int
            BY <3>3 DEF BlockInv, Balance, BlockTypes
        <3>5. Cardinality(Awaited(c, a)) = 1
            BY <3>1, <3>2, <3>4
        <3>6. n \in Awaited(c, a) /\ IsFiniteSet(Awaited(c, a))
            BY <3>2, AwaitedFinite DEF Awaited
        <3>7. Awaited(c, a) \ {n} = {}
            <4>1. /\ IsFiniteSet(Awaited(c, a) \ {n})
                  /\ Cardinality(Awaited(c, a) \ {n}) = Cardinality(Awaited(c, a)) - 1
                BY <3>6, FS_RemoveElement
            <4> QED BY <3>5, <4>1, FS_EmptySet
        <3> QED BY <1>2, <2>2, <3>1, <3>2, <3>6, <3>7
    <2> QED BY <2>1, <2>2
<1>4. /\ \A k \in Caches : DataFor(k, a)' <=> DataFor(k, a) /\ k # c
      /\ \A i \in Nodes, k \in Caches : \A y : y \in Rsp(i, k, a)' => y \in Rsp(i, k, a)
      /\ \A k \in Caches : Returns(k, a)' <=> Returns(k, a)
      /\ \A k \in Caches : Rsp(k, Home(a), a)' = Rsp(k, Home(a), a)
      /\ OneData(a)'
    <2>1. CASE r.type \in DataType
        BY <1>2, <2>1, HearsData
    <2>2. CASE r.type = "ACK"
        BY <1>2, <1>3, <2>2, HearsAck DEF DataType
    <2> QED BY <1>3, <2>1, <2>2
<1>5. \A k, o \in Caches : ~InvFrom(k, o, a) /\ ~AckFrom(k, o, a)'
    <2>1. \A k, o \in Caches : InvFrom(k, o, a) \/ AckFrom(k, o, a) => k = c /\ o \in Awaited(c, a)
        BY <1>2 DEF BlockInv, Invalidations, OneHolder, Awaited
    <2>2. CASE r.type \in DataType
        BY <1>2, <1>3, <2>1, <2>2, HearsData DEF DataType
    <2>3. CASE r.type = "ACK"
        <3>1. n \in Caches /\ AckFrom(c, n, a) /\ Awaited(c, a) = {n}
            BY <1>2, <1>3, <2>3, HearsAck DEF DataType
        <3>2. ~InvFrom(c, n, a)
            BY <3>1 DEF BlockInv, Invalidations
        <3> QED BY <1>2, <2>1, <2>3, <3>1, <3>2, HearsAck
    <2> QED BY <1>3, <2>2, <2>3
<1>6. /\ \A o \in Caches : ~Invalidated(o, a)
      /\ \A o \in Caches \ {c} : ~Reads(o, a) /\ ~Holds(o, a)
    <2>1. \A o \in Caches : ~Invalidated(o, a)
        BY <1>5 DEF Invalidated, InvFrom, BlockTypes
    <2> QED BY <1>2, <2>1 DEF BlockInv, Invalidations, OneHolder
<1>7. \A k \in Caches :
          /\ MemFor(k, a)' <=> MemFor(k, a)
          /\ Requests(k, a)' <=> Requests(k, a)
    BY SameReqs DEF SameDir, MemFor
<1>8. OneRequest(a)' /\ OneForward(a)' /\ OneData(a)' /\ OnePlace(a)'
    BY <1>4, <1>7, SameReqs, SameFwds DEF BlockInv, OnePlace
<1>9. RequestFits(a)'
    BY <1>1, <1>2 DEF BlockInv, RequestFits, SameReq, Requests
<1>10. \A k \in Caches : ~DataFor(k, a)'
    BY <1>2, <1>4, <1>6 DEF Reads, Holds, BlockInv, PlaceFits
<1>11. PlaceFits(a)'
    <2>1. ~GetmFor(c, a)
        BY <1>2 DEF BlockInv, OnePlace, PlaceFits
    <2> QED BY <1>1, <1>2, <1>7, <1>10, <2>1, SameFwds DEF BlockInv, PlaceFits, SameDir, SameBooks
<1>12. RecordFits(a)'
    BY <1>1, <1>2, <1>6, <1>7, SameFwds
       DEF BlockInv, RecordFits, Record, Free, Shares, Owns, Left, Asked, SameDir, SameBooks
<1>13. \A k \in Caches : Holds(k, a)' <=> k = c
    BY <1>1, <1>6, <1>7, <1>10, SameFwds DEF Holds, Asked
<1>14. OneHolder(a)' /\ OneReturn(a)'
    BY <1>2, <1>4, <1>13, SameFwds DEF BlockInv, OneHolder, OneReturn, SameDir
<1>15. Invalidations(a)'
    <2>1. \A k \in Caches : Reads(k, a)' => Reads(k, a) /\ k # c
        BY <1>1, <1>7, <1>10 DEF Reads
    <2>2. \A k \in Caches : cst'[k][a] = "SM_AD" => k # c /\ cst[k][a] = "SM_AD"
        BY <1>1
    <2> QED BY <1>5, <1>6, <1>13, <2>1, <2>2, SameFwds DEF Invalidations, Reads
<1>16. Balance(a)'
    <2>1. \A k \in Caches : Awaited(k, a)' = {}
        BY <1>5, SameFwds DEF Awaited
    <2>2. \A k \in Caches, i \in Nodes : \A y \in Rsp(i, k, a)' : y.type # "DATA_FROM_DIR"
        BY <1>10 DEF DataFor, DataType
    <2>3. \A k \in Caches \ {c} : tbe'[k][a].pendingAcks = 0
        <3> SUFFICES ASSUME NEW k \in Caches \ {c} PROVE tbe'[k][a].pendingAcks = 0
            OBVIOUS
        <3>1. cst[k][a] \notin {"IM_A", "SM_A"}
            BY <1>6 DEF Holds
        <3>2. \A i \in Nodes : \A y \in Rsp(i, k, a) : y.type # "DATA_FROM_DIR"
            BY <1>4, <1>10 DEF DataFor, DataType
        <3> QED BY <3>1, <3>2, NoneAwaited DEF OthersTbe
    <2>4. \A k \in Caches : Cardinality(Awaited(k, a)') = 0
        BY <2>1, FS_EmptySet
    <2> QED BY <2>2, <2>3, <2>4 DEF Balance
<1>17. dst[a] \in {"M", "MS_D"} /\ Mem(a) = {}
    <2>1. dst[a] \in {"M", "MS_D", "IM_D"}
        BY <1>2 DEF BlockInv, OneHolder
    <2>2. \A mm \in Mem(a) : dst[a] # "IM_D"
        BY <1>2, <1>6, <2>1 DEF BlockInv, PlaceFits, Holds, MemFor, BlockTypes
    <2> QED BY <2>1, <2>2 DEF BlockInv, Waiting
<1>18. Values(a)'
    <2>1. \A k \in Caches \ {c} : ~Valid(k, a)'
        BY <1>1, <1>6, <1>13 DEF Valid, Readable, Reads, Holds
    <2>2. \A k \in Caches : \A m \in Req(k, a) : ~(m.type = "PUTM" /\ k \in owner[a])
        BY <1>2, <1>6
           DEF BlockInv, RequestFits, RecordFits, Record, Shares, Free, Left, Requests, Holds
    <2>3. \A k \in Caches : ~Returns(k, a)'
        BY <1>2, <1>4 DEF BlockInv, OneReturn
    <2>4. cst'[c][a] = "M"
        BY <1>1
    <2> QED BY <1>10, <1>13, <1>17, <2>1, <2>2, <2>3, <2>4
        DEF Values, Returns, DataFor, SameReq, SameDir, SameBooks
<1>19. Waiting(a)'
    BY DEF BlockInv, Waiting, SameDir
<1> QED BY <1>8, <1>9, <1>11, <1>12, <1>14, <1>15, <1>16, <1>18, <1>19 DEF BlockInv

(* The data a store waits for arrives before the last acknowledgement. *)
LEMMA DataCountsKeeps ==
    ASSUME NEW a \in Addrs, BlockTypes(a), BlockInv(a), NEW c \in Caches, NEW n \in Nodes,
           NEW r \in Rsp(n, c, a), Hears(n, c, a, r), r.type = "DATA_FROM_DIR", NEW s,
           <<cst[c][a], s>> \in {<<"IM_AD", "IM_A">>, <<"SM_AD", "SM_A">>}, Moves(c, a, s),
           OthersTbe(c, a), tbe'[c][a].pendingAcks = tbe[c][a].pendingAcks - r.acks,
           OthersEntry(c, a), entry'[c][a].data = r.data, written'[a] = written[a],
           SameReq(a), SameFwd(a), SameDir(a)
    PROVE  BlockInv(a)'
<1>1. /\ \A k \in Caches : cst'[k][a] = IF k = c THEN s ELSE cst[k][a]
      /\ cst[c][a] \in {"IM_AD", "SM_AD"}
      /\ s \in {"IM_A", "SM_A"}
    BY DEF Moves
<1>2. /\ DataFor(c, a) /\ OneData(a) /\ r.type \in DataType /\ Holds(c, a)
      /\ ~Requests(c, a) /\ ~MemFor(c, a) /\ ~Acked(c, a) /\ ~GetsFor(c, a) /\ ~GetmFor(c, a)
    <2>1. DataFor(c, a) /\ OneData(a) /\ r.type \in DataType
        BY DEF BlockInv, DataFor, DataType
    <2> QED BY <1>1, <2>1 DEF BlockInv, OnePlace, PlaceFits, Holds
<1>3. \A k \in Caches :
          /\ MemFor(k, a)' <=> MemFor(k, a)
          /\ Requests(k, a)' <=> Requests(k, a)
    BY SameReqs DEF SameDir, MemFor
<1>4. OneRequest(a)' /\ OneForward(a)' /\ OneData(a)' /\ OnePlace(a)'
    BY <1>2, <1>3, SameReqs, SameFwds, HearsData DEF BlockInv, OnePlace
<1>5. RequestFits(a)'
    BY <1>1, <1>2 DEF BlockInv, RequestFits, SameReq, Requests
<1>6. PlaceFits(a)'
    BY <1>1, <1>2, <1>3, SameFwds, HearsData DEF BlockInv, PlaceFits, SameDir, SameBooks
<1>7. ~Invalidated(c, a)
    BY <1>2 DEF BlockInv, Invalidations, OneHolder, Invalidated, InvFrom, BlockTypes
<1>8. RecordFits(a)'
    BY <1>1, <1>2, <1>3, <1>7, SameFwds
       DEF BlockInv, RecordFits, Record, Free, Shares, Owns, Left, Asked, SameDir, SameBooks
<1>9. \A k \in Caches : Holds(k, a)' <=> Holds(k, a)
    BY <1>1, <1>2, <1>3, SameFwds, HearsData DEF Holds, Asked
<1>10. OneHolder(a)' /\ OneReturn(a)'
    BY <1>2, <1>9, SameFwds, HearsData DEF BlockInv, OneHolder, OneReturn, SameDir
<1>11. Invalidations(a)'
    <2>1. \A k \in Caches : Reads(k, a)' => Reads(k, a)
        BY <1>1, <1>2, <1>3, HearsData DEF Reads
    <2> QED BY <1>1, <1>2, <1>3, <1>9, <2>1, SameFwds, HearsData DEF BlockInv, Invalidations
<1>12. Balance(a)'
    <2>1. \A k \in Caches : Awaited(k, a)' = Awaited(k, a)
        BY <1>2, SameFwds, HearsData DEF Awaited
    <2>2. tbe'[c][a].pendingAcks = Cardinality(Awaited(c, a))
        BY DEF BlockInv, Balance
    <2>3. \A i \in Nodes : \A y \in Rsp(i, c, a)' : y.type # "DATA_FROM_DIR"
        BY <1>2, HearsData DEF DataType
    <2>4. \A i \in Nodes, k \in Caches : k # c => Rsp(i, k, a)' = Rsp(i, k, a)
        BY <1>2, HearsData
    <2>5. \A k \in Caches \ {c} : cst'[k][a] = cst[k][a] /\ tbe'[k][a] = tbe[k][a]
        BY <1>1 DEF OthersTbe
    <2>6. cst'[c][a] \in {"IM_A", "SM_A"}
        BY <1>1
    <2> QED BY <2>1, <2>2, <2>3, <2>4, <2>5, <2>6 DEF BlockInv, Balance
<1>13. Values(a)'
    <2>1. r.data = written[a]
        BY <1>2 DEF BlockInv, Values
    <2>2. \A i \in Nodes, k \in Caches : \A y : y \in Rsp(i, k, a)' => y \in Rsp(i, k, a)
        BY <1>2, HearsData
    <2>3. \A k \in Caches : Rsp(k, Home(a), a)' = Rsp(k, Home(a), a)
        BY <1>2, HearsData
    <2> QED BY <1>1, <1>9, <2>1, <2>2, <2>3
        DEF BlockInv, Values, Valid, Readable, OthersTbe, OthersEntry, SameReq, SameDir, SameBooks, Home
<1>14. Waiting(a)'
    BY DEF BlockInv, Waiting, SameDir
<1> QED BY <1>4, <1>5, <1>6, <1>8, <1>10, <1>11, <1>12, <1>13, <1>14 DEF BlockInv

(* An acknowledgement arrives that is not the last a store waits for. *)
LEMMA AckCountsKeeps ==
    ASSUME NEW a \in Addrs, BlockTypes(a), BlockInv(a), NEW c \in Caches, NEW n \in Nodes,
           NEW r \in Rsp(n, c, a), Hears(n, c, a, r), r.type = "ACK",
           cst[c][a] \in {"IM_AD", "IM_A", "SM_AD", "SM_A"}, SameCst(a),
           OthersTbe(c, a), tbe'[c][a].pendingAcks = tbe[c][a].pendingAcks - r.acks,
           SameEntry(a), written'[a] = written[a], SameReq(a), SameFwd(a), SameDir(a)
    PROVE  BlockInv(a)'
<1>1. /\ \A k \in Caches : cst'[k][a] = cst[k][a]
      /\ OneData(a)
    BY DEF SameCst, BlockInv
<1>2. n \in Caches /\ AckFrom(c, n, a) /\ r.acks = 1
    BY <1>1, HearsAck
<1>3. \A k \in Caches :
          /\ MemFor(k, a)' <=> MemFor(k, a)
          /\ Requests(k, a)' <=> Requests(k, a)
    BY SameReqs DEF SameDir, MemFor
<1>4. OneRequest(a)' /\ OneForward(a)' /\ OneData(a)' /\ OnePlace(a)'
    BY <1>1, <1>3, SameReqs, SameFwds, HearsAck DEF BlockInv, OnePlace
<1>5. RequestFits(a)' /\ PlaceFits(a)'
    BY <1>1, <1>3, SameFwds, HearsAck
       DEF BlockInv, RequestFits, PlaceFits, SameReq, SameDir, SameBooks
<1>6. RecordFits(a)'
    BY <1>1, <1>3, SameFwds
       DEF BlockInv, RecordFits, Record, Free, Shares, Owns, Left, Asked, SameDir, SameBooks
<1>7. \A k \in Caches : Holds(k, a)' <=> Holds(k, a)
    BY <1>1, <1>3, SameFwds, HearsAck DEF Holds, Asked
<1>8. OneHolder(a)' /\ OneReturn(a)'
    BY <1>1, <1>7, SameFwds, HearsAck DEF BlockInv, OneHolder, OneReturn, SameDir
<1>9. Invalidations(a)'
    <2>1. \A k \in Caches : Reads(k, a)' <=> Reads(k, a)
        BY <1>1, <1>3, HearsAck DEF Reads
    <2> QED BY <1>1, <1>3, <1>7, <2>1, SameFwds, HearsAck DEF BlockInv, Invalidations
<1>10. Balance(a)'
    <2>1. \A k \in Caches \ {c} : Awaited(k, a)' = Awaited(k, a)
        BY <1>1, SameFwds, HearsAck DEF Awaited
    <2>2. Awaited(c, a)' = Awaited(c, a) \ {n}
        <3>1. ~InvFrom(c, n, a)
            BY <1>2 DEF BlockInv, Invalidations
        <3> QED BY <1>1, <1>2, <3>1, SameFwds, HearsAck DEF Awaited
    <2>3. n \in Awaited(c, a)
        BY <1>2 DEF Awaited
    <2>4. Cardinality(Awaited(c, a) \ {n}) = Cardinality(Awaited(c, a)) - 1
        BY <2>3, AwaitedFinite, FS_RemoveElement
    <2>5. \A i \in Nodes, k \in Caches : \A y :
              y.type = "DATA_FROM_DIR" => (y \in Rsp(i, k, a)' <=> y \in Rsp(i, k, a))
        BY <1>1, HearsAck
    <2>6. Cardinality(Awaited(c, a)) \in Nat
        BY AwaitedFinite
    <2>7. \A k \in Caches : tbe[k][a].pendingAcks \in Int
                            /\ \A i \in Nodes : \A y \in Rsp(i, k, a) : y.acks \in Int
        BY DEF BlockTypes, ResponseMsg
    <2>8. ASSUME NEW k \in Caches
          PROVE  /\ \A i \in Nodes : \A y \in Rsp(i, k, a)' : y.type = "DATA_FROM_DIR" =>
                        tbe'[k][a].pendingAcks - y.acks = Cardinality(Awaited(k, a)')
                 /\ (\A i \in Nodes : \A y \in Rsp(i, k, a)' : y.type # "DATA_FROM_DIR") =>
                        tbe'[k][a].pendingAcks = Cardinality(Awaited(k, a)')
                 /\ cst'[k][a] \notin {"IM_A", "SM_A"} => tbe'[k][a].pendingAcks <= 0
        <3>1. CASE k = c
            <4>1. \A i \in Nodes : \A y \in Rsp(i, c, a)' : y.type = "DATA_FROM_DIR" =>
                      tbe'[c][a].pendingAcks - y.acks = Cardinality(Awaited(c, a)')
                BY <1>2, <2>2, <2>4, <2>5, <2>6, <2>7 DEF BlockInv, Balance
            <4>2. (\A i \in Nodes : \A y \in Rsp(i, c, a)' : y.type # "DATA_FROM_DIR") =>
                      tbe'[c][a].pendingAcks = Cardinality(Awaited(c, a)')
                BY <1>2, <2>2, <2>4, <2>5, <2>6, <2>7 DEF BlockInv, Balance
            <4>3. cst'[c][a] \notin {"IM_A", "SM_A"} => tbe'[c][a].pendingAcks <= 0
                BY <1>1, <1>2, <2>7 DEF BlockInv, Balance
            <4> QED BY <3>1, <4>1, <4>2, <4>3
        <3>2. CASE k # c
            BY <1>1, <2>1, <2>5, <3>2 DEF BlockInv, Balance, OthersTbe
        <3> QED BY <3>1, <3>2
    <2> QED BY <2>8 DEF Balance
<1>11. Values(a)'
    <2>1. \A i \in Nodes, k \in Caches : \A y : y \in Rsp(i, k, a)' => y \in Rsp(i, k, a)
        BY <1>1, HearsAck
    <2>2. \A k \in Caches : Rsp(k, Home(a), a)' = Rsp(k, Home(a), a)
        BY <1>1, HearsAck
    <2> QED BY <1>1, <1>7, <2>1, <2>2
        DEF BlockInv, Values, Valid, Readable, OthersTbe, SameEntry, SameReq, SameDir, SameBooks, Home
<1>12. Waiting(a)'
    BY DEF BlockInv, Waiting, SameDir
<1> QED BY <1>4, <1>5, <1>6, <1>8, <1>9, <1>10, <1>11, <1>12 DEF BlockInv

-----------------------------------------------------------------------------
(* The directories.                                                        *)

\* What a request taken off its channel changes
LEMMA ServedReqs ==
    ASSUME NEW a \in Addrs, NEW c \in Caches, Served(c, a)
    PROVE  /\ \A k \in Caches : Requests(k, a)' <=> Requests(k, a) /\ k # c
           /\ \A k \in Caches : \A y : y \in Req(k, a)' <=> y \in Req(k, a) /\ k # c
           /\ OneRequest(a) => OneRequest(a)'
<1>1. \A k \in Caches : \A y : y \in Req(k, a)' <=> y \in Req(k, a) /\ k # c
    BY DEF Served
<1>2. \A k \in Caches : Requests(k, a)' <=> Requests(k, a) /\ k # c
    BY DEF Served, Requests
<1>3. OneRequest(a) => OneRequest(a)'
    BY <1>1 DEF OneRequest
<1> QED BY <1>1, <1>2, <1>3

(* What becomes of the predicates when data is sent to a cache, or a       *)
(* writeback acknowledgement.                                              *)
LEMMA SendsData ==
    ASSUME NEW a \in Addrs, BlockTypes(a), OneData(a), NEW n \in Nodes, NEW c \in Caches, NEW r,
           r.type \in DataType, ~DataFor(c, a), Responds(n, c, a, r)
    PROVE  /\ \A k \in Caches : DataFor(k, a)' <=> DataFor(k, a) \/ k = c
           /\ \A i \in Nodes, k \in Caches : \A y :
                  y \in Rsp(i, k, a)' <=> y \in Rsp(i, k, a) \/ (i = n /\ k = c /\ y = r)
           /\ \A k, o \in Caches : AckFrom(k, o, a)' <=> AckFrom(k, o, a)
           /\ \A k \in Caches : Returns(k, a)' <=> Returns(k, a)
           /\ \A k \in Caches : Rsp(k, Home(a), a)' = Rsp(k, Home(a), a)
           /\ OneData(a)'
<1>1. \A i \in Nodes, k \in Caches : \A y :
          y \in Rsp(i, k, a)' <=> y \in Rsp(i, k, a) \/ (i = n /\ k = c /\ y = r)
    BY DEF Responds, BlockTypes
<1>2. \A k \in Caches : Rsp(k, Home(a), a)' = Rsp(k, Home(a), a)
    BY DEF Responds, BlockTypes
<1>3. \A k \in Caches : DataFor(k, a)' <=> DataFor(k, a) \/ k = c
    BY <1>1 DEF DataFor
<1>4. \A k, o \in Caches : AckFrom(k, o, a)' <=> AckFrom(k, o, a)
    BY <1>1 DEF AckFrom, DataType, BlockTypes
<1>5. OneData(a)'
    BY <1>1 DEF OneData, DataFor
<1> QED BY <1>1, <1>2, <1>3, <1>4, <1>5 DEF Returns, Home

\* What a writeback acknowledgement sent to a cache changes
LEMMA SendsAck ==
    ASSUME NEW a \in Addrs, OneForward(a), NEW c \in Caches, NEW w, w.type = "WB_ACK",
           Forwards({c}, a, w)
    PROVE  /\ \A k \in Caches :
                  /\ Acked(k, a)' <=> Acked(k, a) \/ k = c
                  /\ GetsAt(k, a)' <=> GetsAt(k, a)
                  /\ GetmAt(k, a)' <=> GetmAt(k, a)
                  /\ Invalidated(k, a)' <=> Invalidated(k, a)
           /\ \A k \in Caches : GetsFor(k, a)' <=> GetsFor(k, a)
           /\ \A k \in Caches : GetmFor(k, a)' <=> GetmFor(k, a)
           /\ \A k, o \in Caches : InvFrom(k, o, a)' <=> InvFrom(k, o, a)
           /\ OneForward(a)'
<1>1. \A k \in Caches : \A y : y \in Fwd(k, a)' <=> y \in Fwd(k, a) \/ (k = c /\ y = w)
    BY DEF Forwards
<1>2. \A k \in Caches :
          /\ Acked(k, a)' <=> Acked(k, a) \/ k = c
          /\ GetsAt(k, a)' <=> GetsAt(k, a)
          /\ GetmAt(k, a)' <=> GetmAt(k, a)
          /\ Invalidated(k, a)' <=> Invalidated(k, a)
    BY <1>1 DEF Acked, GetsAt, GetmAt, Invalidated
<1>3. /\ \A k \in Caches : GetsFor(k, a)' <=> GetsFor(k, a)
      /\ \A k \in Caches : GetmFor(k, a)' <=> GetmFor(k, a)
    BY <1>1 DEF GetsFor, GetmFor
<1>4. \A k, o \in Caches : InvFrom(k, o, a)' <=> InvFrom(k, o, a)
    BY <1>1 DEF InvFrom
<1>5. OneForward(a)'
    BY <1>1 DEF OneForward, Forward
<1> QED BY <1>2, <1>3, <1>4, <1>5

(* In a state in which no cache owns the block no cache holds it, none is  *)
(* told to invalidate it, and whoever reads it is a sharer.                *)
LEMMA NoHolder ==
    ASSUME NEW a \in Addrs, BlockTypes(a), BlockInv(a), dst[a] \notin {"M", "MS_D", "IM_D"}
    PROVE  /\ \A k \in Caches : ~Holds(k, a) /\ ~Invalidated(k, a)
           /\ \A k, o \in Caches : ~InvFrom(k, o, a) /\ ~AckFrom(k, o, a)
           /\ \A k \in Caches : Reads(k, a) => k \in sharers[a]
           /\ \A k \in Caches : cst[k][a] = "SM_AD" => Requests(k, a)
           /\ \A k \in Caches : ~Returns(k, a) /\ ~GetsAt(k, a)
<1>1. \A k \in Caches : ~Holds(k, a)
    BY DEF BlockInv, OneHolder
<1>2. \A k, o \in Caches : ~InvFrom(k, o, a) /\ ~AckFrom(k, o, a)
    BY <1>1 DEF BlockInv, Invalidations
<1>3. \A k \in Caches : ~Invalidated(k, a)
    BY <1>2 DEF Invalidated, InvFrom, BlockTypes
<1>4. \A k \in Caches : cst[k][a] = "SM_AD" => Requests(k, a)
    BY <1>1, <1>3 DEF BlockInv, Invalidations
<1>5. \A k \in Caches : Reads(k, a) => k \in sharers[a]
    BY <1>3, <1>4 DEF Reads, BlockInv, OnePlace, RecordFits, Record, Shares
<1>6. \A k \in Caches : ~Returns(k, a) /\ ~GetsAt(k, a)
    BY DEF BlockInv, OneReturn
<1> QED BY <1>1, <1>2, <1>3, <1>4, <1>5, <1>6

(* A block in I is asked for, and fetched from memory. *)
LEMMA FetchKeeps ==
    ASSUME NEW a \in Addrs, BlockTypes(a), BlockInv(a), NEW c \in Caches, NEW m \in Req(c, a),
           dst[a] = "I", Served(c, a),
           \/ /\ m.type = "GETS" /\ dst'[a] = "IS_D"
              /\ sharers'[a] = sharers[a] \union {c} /\ owner'[a] = owner[a]
           \/ /\ m.type = "GETM" /\ dst'[a] = "IM_D"
              /\ sharers'[a] = sharers[a] /\ owner'[a] = {c},
           NEW mm, Mem(a)' = Mem(a) \union {mm},
           mm.type = "MEMORY_READ", mm.req = c, mm.data = dblk[a], dblk'[a] = dblk[a],
           SameCst(a), SameTbe(a), SameEntry(a), written'[a] = written[a],
           SameFwd(a), SameRsp(a)
    PROVE  BlockInv(a)'
<1>1. /\ \A k \in Caches : cst'[k][a] = cst[k][a]
      /\ sharers[a] = {} /\ owner[a] = {} /\ Mem(a) = {} /\ Mem(a)' = {mm}
    BY DEF SameCst, BlockTypes, Books, BlockInv, Waiting
<1>2. /\ Requests(c, a) /\ ~DataFor(c, a) /\ ~Acked(c, a) /\ ~GetsFor(c, a) /\ ~GetmFor(c, a)
      /\ m.type = "GETS" => cst[c][a] = "IS_D"
      /\ m.type = "GETM" => cst[c][a] \in {"IM_AD", "SM_AD"}
    BY DEF Requests, BlockInv, OnePlace, RequestFits
<1>3. /\ \A k \in Caches : ~Holds(k, a) /\ ~Invalidated(k, a) /\ ~Reads(k, a)
      /\ \A k, o \in Caches : ~InvFrom(k, o, a) /\ ~AckFrom(k, o, a)
      /\ \A k \in Caches : ~Returns(k, a) /\ ~GetsAt(k, a)
    BY <1>1, NoHolder
<1>4. \A k \in Caches :
          /\ Requests(k, a)' <=> Requests(k, a) /\ k # c
          /\ MemFor(k, a)' <=> k = c
          /\ ~MemFor(k, a)
    BY <1>1, ServedReqs DEF MemFor
<1>5. OneRequest(a)' /\ OneForward(a)' /\ OneData(a)' /\ OnePlace(a)'
    BY <1>2, <1>4, ServedReqs, SameFwds, SameRsps DEF BlockInv, OnePlace
<1>6. RequestFits(a)'
    BY <1>1, ServedReqs DEF BlockInv, RequestFits
<1>7. PlaceFits(a)'
    BY <1>1, <1>2, <1>4, SameFwds, SameRsps DEF BlockInv, PlaceFits
<1>8. RecordFits(a)'
    <2>1. ASSUME NEW k \in Caches, k # c
          PROVE  Record(k, a)'
        BY <1>1, <1>3, <1>4, <2>1, SameFwds
           DEF BlockInv, RecordFits, Record, Free, Shares, Owns, Left, Asked
    <2>2. cst[c][a] # "SM_AD"
        BY <1>3 DEF Reads
    <2>3. Record(c, a)'
        BY <1>1, <1>2, <1>3, <1>4, <2>2, SameFwds
           DEF BlockInv, RecordFits, Record, Free, Shares, Owns, Left, Asked
    <2> QED BY <2>1, <2>3 DEF RecordFits
<1>9. \A k \in Caches : Holds(k, a)' <=> k = c /\ m.type = "GETM"
    BY <1>1, <1>2, <1>3, <1>4, SameFwds, SameRsps DEF Holds, Asked
<1>10. OneHolder(a)' /\ OneReturn(a)'
    BY <1>3, <1>9, SameFwds, SameRsps DEF BlockInv, OneHolder, OneReturn, SameRsp, BlockTypes
<1>11. Invalidations(a)'
    <2>1. \A k \in Caches : Reads(k, a)' => k = c
        BY <1>1, <1>3, <1>4, SameRsps DEF Reads
    <2>2. \A k \in Caches : cst'[k][a] # "SM_AD"
        BY <1>1, <1>3 DEF Reads
    <2> QED BY <1>3, <1>9, <2>1, <2>2, SameFwds, SameRsps DEF Invalidations
<1>12. Balance(a)'
    <2>1. \A k \in Caches : Awaited(k, a)' = Awaited(k, a)
        BY SameFwds, SameRsps DEF Awaited
    <2> QED BY <1>1, <2>1 DEF BlockInv, Balance, SameTbe, SameRsp, BlockTypes
<1>13. Values(a)'
    <2>1. \A k \in Caches : ~Valid(k, a)'
        BY <1>1, <1>2, <1>3, <1>9 DEF Valid, Readable, Reads, Holds
    <2>2. \A k \in Caches : cst'[k][a] = "MI_A" => ~Holds(k, a)'
        BY <1>1, <1>2, <1>9
    <2>3. \A k \in Caches : \A y \in Req(k, a)' : k \notin owner'[a]
        BY <1>1, ServedReqs
    <2> QED BY <1>1, <2>1, <2>2, <2>3 DEF BlockInv, Values, SameRsp, BlockTypes
<1>14. Waiting(a)'
    BY <1>1 DEF Waiting
<1> QED BY <1>5, <1>6, <1>7, <1>8, <1>10, <1>11, <1>12, <1>13, <1>14 DEF BlockInv

(* A writeback is acknowledged: the cache is off the books. *)
LEMMA PutKeeps ==
    ASSUME NEW a \in Addrs, BlockTypes(a), BlockInv(a), NEW c \in Caches, NEW m \in Req(c, a),
           m.type \in {"PUTS", "PUTM"}, m.type = "PUTM" => c \notin owner[a], Served(c, a),
           NEW w, w.type = "WB_ACK", Forwards({c}, a, w),
           dst'[a] = dst[a] \/ (dst[a] = "S" /\ dst'[a] = "I"),
           sharers'[a] = sharers[a] \ {c}, owner'[a] = owner[a],
           dblk'[a] = dblk[a], Mem(a)' = Mem(a),
           SameCst(a), SameTbe(a), SameEntry(a), written'[a] = written[a], SameRsp(a)
    PROVE  BlockInv(a)'
<1>1. \A k \in Caches : cst'[k][a] = cst[k][a]
    BY DEF SameCst
<1>2. /\ Requests(c, a) /\ ~MemFor(c, a) /\ ~DataFor(c, a) /\ ~GetsFor(c, a) /\ ~GetmFor(c, a)
      /\ cst[c][a] \in {"MI_A", "SI_A", "II_A"} /\ (cst[c][a] = "MI_A" => c \notin owner[a])
    BY DEF Requests, BlockInv, OnePlace, RequestFits
<1>3. OneForward(a)
    BY DEF BlockInv
<1>4. dst[a] = "S" => Mem(a) = {}
    BY DEF BlockInv, Waiting
<1>5. \A k \in Caches :
          /\ Requests(k, a)' <=> Requests(k, a) /\ k # c
          /\ MemFor(k, a)' <=> MemFor(k, a)
    BY <1>4, ServedReqs DEF MemFor
<1>6. OneRequest(a)' /\ OneForward(a)' /\ OneData(a)' /\ OnePlace(a)'
    <2>1. OneRequest(a)' /\ OneData(a)'
        BY ServedReqs, SameRsps DEF BlockInv
    <2>2. OneForward(a)'
        BY <1>3, SendsAck
    <2>3. \A k \in Caches :
              /\ DataFor(k, a)' <=> DataFor(k, a)
              /\ Acked(k, a)' <=> Acked(k, a) \/ k = c
              /\ GetsFor(k, a)' <=> GetsFor(k, a)
              /\ GetmFor(k, a)' <=> GetmFor(k, a)
        BY <1>3, SendsAck, SameRsps
    <2>4. OnePlace(a)'
        BY <1>2, <1>5, <2>3 DEF BlockInv, OnePlace
    <2> QED BY <2>1, <2>2, <2>4
<1>7. RequestFits(a)'
    BY <1>1, ServedReqs DEF BlockInv, RequestFits
<1>8. PlaceFits(a)'
    <2>1. \A k \in Caches :
              /\ DataFor(k, a)' <=> DataFor(k, a)
              /\ Acked(k, a)' <=> Acked(k, a) \/ k = c
              /\ GetsFor(k, a)' <=> GetsFor(k, a)
              /\ GetmFor(k, a)' <=> GetmFor(k, a)
        BY <1>3, SendsAck, SameRsps
    <2>2. ASSUME NEW k \in Caches, MemFor(k, a)
          PROVE  k # c /\ dst'[a] = dst[a] /\ (sharers[a] = {k} => sharers'[a] = {k})
        BY <1>2, <1>4, <2>2 DEF MemFor
    <2> QED BY <1>1, <1>2, <1>5, <2>1, <2>2 DEF BlockInv, PlaceFits
<1>9. RecordFits(a)'
    <2>1. ASSUME NEW k \in Caches, k # c
          PROVE  Record(k, a)'
        BY <1>1, <1>3, <1>5, <2>1, SendsAck
           DEF BlockInv, RecordFits, Record, Free, Shares, Owns, Left, Asked
    <2>2. Record(c, a)'
        BY <1>1, <1>2, <1>3, <1>5, SendsAck
           DEF BlockInv, RecordFits, Record, Free, Shares, Owns, Left, Asked
    <2> QED BY <2>1, <2>2 DEF RecordFits
<1>10. \A k \in Caches : Holds(k, a)' <=> Holds(k, a)
    <2>1. cst[c][a] = "MI_A" => Asked(c, a)
        BY <1>2 DEF BlockInv, RecordFits, Record, Owns
    <2> QED BY <1>1, <1>2, <1>3, <1>5, <2>1, SendsAck, SameRsps DEF Holds, Asked
<1>11. OneHolder(a)' /\ OneReturn(a)'
    <2>1. OneHolder(a)'
        BY <1>10 DEF BlockInv, OneHolder
    <2>2. \A k \in Caches :
              /\ GetsAt(k, a)' <=> GetsAt(k, a)
              /\ Returns(k, a)' <=> Returns(k, a)
              /\ Rsp(k, Home(a), a)' = Rsp(k, Home(a), a)
        BY <1>3, SendsAck, SameRsps DEF SameRsp, BlockTypes
    <2> QED BY <1>10, <2>1, <2>2 DEF BlockInv, OneReturn, Home
<1>12. Invalidations(a)'
    <2>1. \A k \in Caches : Reads(k, a)' <=> Reads(k, a)
        BY <1>1, <1>5, SameRsps DEF Reads
    <2> QED BY <1>1, <1>2, <1>3, <1>5, <1>10, <2>1, SendsAck, SameRsps DEF BlockInv, Invalidations
<1>13. Balance(a)'
    <2>1. \A k \in Caches : Awaited(k, a)' = Awaited(k, a)
        BY <1>3, SendsAck, SameRsps DEF Awaited
    <2> QED BY <1>1, <2>1 DEF BlockInv, Balance, SameTbe, SameRsp, BlockTypes
<1>14. Values(a)'
    BY <1>1, <1>10, ServedReqs
       DEF BlockInv, Values, Valid, Readable, SameTbe, SameEntry, SameRsp, BlockTypes
<1>15. Waiting(a)'
    BY DEF BlockInv, Waiting
<1> QED BY <1>6, <1>7, <1>8, <1>9, <1>11, <1>12, <1>13, <1>14, <1>15 DEF BlockInv

(* A block in S is asked for to be read. *)
LEMMA ShareKeeps ==
    ASSUME NEW a \in Addrs, BlockTypes(a), BlockInv(a), NEW c \in Caches, NEW m \in Req(c, a),
           m.type = "GETS", dst[a] = "S", Served(c, a), NEW r, Responds(Home(a), c, a, r),
           r.type = "DATA_FROM_DIR", r.acks = 0, r.data = dblk[a],
           dst'[a] = "S", sharers'[a] = sharers[a] \union {c}, owner'[a] = owner[a],
           dblk'[a] = dblk[a], Mem(a)' = Mem(a),
           SameCst(a), SameTbe(a), SameEntry(a), written'[a] = written[a], SameFwd(a)
    PROVE  BlockInv(a)'
<1>1. \A k \in Caches : cst'[k][a] = cst[k][a]
    BY DEF SameCst
<1>2. /\ Requests(c, a) /\ ~DataFor(c, a) /\ ~Acked(c, a) /\ ~GetsFor(c, a) /\ ~GetmFor(c, a)
      /\ cst[c][a] = "IS_D" /\ OneData(a) /\ r.type \in DataType /\ Home(a) \in Nodes
    BY DEF Requests, BlockInv, OnePlace, RequestFits, DataType, BlockTypes
<1>3. /\ \A k \in Caches : ~Holds(k, a) /\ ~Invalidated(k, a)
      /\ \A k, o \in Caches : ~InvFrom(k, o, a) /\ ~AckFrom(k, o, a)
      /\ \A k \in Caches : cst[k][a] = "SM_AD" => Requests(k, a)
      /\ \A k \in Caches : ~Returns(k, a) /\ ~GetsAt(k, a)
    BY NoHolder
<1>4. \A k \in Caches :
          /\ Requests(k, a)' <=> Requests(k, a) /\ k # c
          /\ ~MemFor(k, a)' /\ ~MemFor(k, a)
    BY ServedReqs DEF MemFor, BlockInv, Waiting
<1>5. OneRequest(a)' /\ OneForward(a)' /\ OneData(a)' /\ OnePlace(a)'
    BY <1>2, <1>4, ServedReqs, SameFwds, SendsData DEF BlockInv, OnePlace
<1>6. RequestFits(a)'
    BY <1>1, ServedReqs DEF BlockInv, RequestFits
<1>7. PlaceFits(a)'
    BY <1>1, <1>2, <1>4, SameFwds, SendsData DEF BlockInv, PlaceFits
<1>8. RecordFits(a)'
    BY <1>1, <1>2, <1>4, SameFwds
       DEF BlockInv, RecordFits, Record, Free, Shares, Owns, Left, Asked
<1>9. \A k \in Caches : ~Holds(k, a)'
    BY <1>1, <1>2, <1>3, <1>4, SameFwds, SendsData DEF Holds, Asked
<1>10. OneHolder(a)' /\ OneReturn(a)'
    BY <1>2, <1>3, <1>9, SameFwds, SendsData DEF BlockInv, OneHolder, OneReturn
<1>11. Invalidations(a)'
    BY <1>1, <1>2, <1>3, <1>4, <1>9, SameFwds, SendsData DEF Invalidations
<1>12. Balance(a)'
    <2>1. \A k \in Caches : Awaited(k, a)' = {} /\ Awaited(k, a) = {}
        BY <1>2, <1>3, SameFwds, SendsData DEF Awaited
    <2>2. tbe[c][a].pendingAcks = 0 /\ Cardinality(Awaited(c, a)) = 0
        BY <1>2, <2>1, NoneAwaited, AwaitedFinite DEF DataFor, DataType
    <2>3. \A i \in Nodes, k \in Caches : \A y :
              y \in Rsp(i, k, a)' <=> y \in Rsp(i, k, a) \/ (i = Home(a) /\ k = c /\ y = r)
        BY <1>2, SendsData
    <2>4. \A i \in Nodes : \A y \in Rsp(i, c, a) : y.type # "DATA_FROM_DIR"
        BY <1>2 DEF DataFor, DataType
    <2>5. \A k \in Caches : tbe'[k][a].pendingAcks = tbe[k][a].pendingAcks
        BY DEF SameTbe
    <2>6. \A k \in Caches : Cardinality(Awaited(k, a)') = Cardinality(Awaited(k, a))
        BY <2>1
    <2>7. ASSUME NEW k \in Caches
          PROVE  /\ \A i \in Nodes : \A y \in Rsp(i, k, a)' : y.type = "DATA_FROM_DIR" =>
                        tbe'[k][a].pendingAcks - y.acks = Cardinality(Awaited(k, a)')
                 /\ (\A i \in Nodes : \A y \in Rsp(i, k, a)' : y.type # "DATA_FROM_DIR") =>
                        tbe'[k][a].pendingAcks = Cardinality(Awaited(k, a)')
                 /\ cst'[k][a] \notin {"IM_A", "SM_A"} => tbe'[k][a].pendingAcks <= 0
        <3>1. CASE k = c
            BY <1>1, <1>2, <2>2, <2>3, <2>4, <2>5, <2>6, <3>1
        <3>2. CASE k # c
            BY <1>1, <2>3, <2>5, <2>6, <3>2 DEF BlockInv, Balance
        <3> QED BY <3>1, <3>2
    <2> QED BY <2>7 DEF Balance
<1>13. Values(a)'
    BY <1>1, <1>2, <1>3, <1>9, ServedReqs, SendsData
       DEF BlockInv, Values, Valid, Readable, SameTbe, SameEntry, Home
<1>14. Waiting(a)'
    BY DEF BlockInv, Waiting
<1> QED BY <1>5, <1>6, <1>7, <1>8, <1>10, <1>11, <1>12, <1>13, <1>14 DEF BlockInv

(* A block in S is asked for to be written: the other sharers are told to  *)
(* invalidate it, and their acknowledgements are counted into the data.    *)
LEMMA GrantKeeps ==
    ASSUME NEW a \in Addrs, BlockTypes(a), BlockInv(a), NEW c \in Caches, NEW m \in Req(c, a),
           m.type = "GETM", dst[a] = "S", Served(c, a), NEW r, Responds(Home(a), c, a, r),
           r.type = "DATA_FROM_DIR", r.acks = 0 - Cardinality(sharers[a] \ {c}), r.data = dblk[a],
           NEW w, w.type = "INV", w.req = c, Forwards(sharers[a] \ {c}, a, w),
           dst'[a] = "M", sharers'[a] = {}, owner'[a] = {c},
           dblk'[a] = dblk[a], Mem(a)' = Mem(a),
           SameCst(a), SameTbe(a), SameEntry(a), written'[a] = written[a]
    PROVE  BlockInv(a)'
<1>1. /\ \A k \in Caches : cst'[k][a] = cst[k][a]
      /\ owner[a] = {} /\ sharers[a] \subseteq Caches
    BY DEF SameCst, BlockTypes, Books
<1>2. /\ Requests(c, a) /\ ~DataFor(c, a) /\ ~Acked(c, a) /\ ~GetsFor(c, a) /\ ~GetmFor(c, a)
      /\ cst[c][a] \in {"IM_AD", "SM_AD"}
      /\ OneData(a) /\ r.type \in DataType /\ Home(a) \in Nodes
    BY DEF Requests, BlockInv, OnePlace, RequestFits, DataType, BlockTypes
<1>3. /\ \A k \in Caches : ~Holds(k, a) /\ ~Invalidated(k, a)
      /\ \A k, o \in Caches : ~InvFrom(k, o, a) /\ ~AckFrom(k, o, a)
      /\ \A k \in Caches : Reads(k, a) => k \in sharers[a]
      /\ \A k \in Caches : cst[k][a] = "SM_AD" => Requests(k, a)
      /\ \A k \in Caches : ~Returns(k, a) /\ ~GetsAt(k, a)
    BY NoHolder
<1>4. \A k \in Caches :
          /\ Requests(k, a)' <=> Requests(k, a) /\ k # c
          /\ ~MemFor(k, a)' /\ ~MemFor(k, a)
    BY ServedReqs DEF MemFor, BlockInv, Waiting
<1>5. \A k \in Caches : \A y :
          y \in Fwd(k, a)' <=> y \in Fwd(k, a) \/ (k \in sharers[a] \ {c} /\ y = w)
    BY DEF Forwards
<1>6. /\ \A k \in Caches :
             /\ Acked(k, a)' <=> Acked(k, a)
             /\ ~GetsAt(k, a)'
             /\ GetmAt(k, a)' <=> GetmAt(k, a)
             /\ Invalidated(k, a)' <=> k \in sharers[a] \ {c}
      /\ \A k \in Caches :
             /\ GetsFor(k, a)' <=> GetsFor(k, a)
             /\ GetmFor(k, a)' <=> GetmFor(k, a)
      /\ \A k, o \in Caches : InvFrom(k, o, a)' <=> k = c /\ o \in sharers[a] \ {c}
      /\ OneForward(a)'
    <2>1. \A k \in Caches :
             /\ Acked(k, a)' <=> Acked(k, a)
             /\ ~GetsAt(k, a)'
             /\ GetmAt(k, a)' <=> GetmAt(k, a)
        BY <1>3, <1>5 DEF Acked, GetsAt, GetmAt
    <2>2. \A k \in Caches : Invalidated(k, a)' <=> k \in sharers[a] \ {c}
        BY <1>3, <1>5 DEF Invalidated
    <2>3. \A k \in Caches :
             /\ GetsFor(k, a)' <=> GetsFor(k, a)
             /\ GetmFor(k, a)' <=> GetmFor(k, a)
        BY <1>5 DEF GetsFor, GetmFor
    <2>4. \A k, o \in Caches : InvFrom(k, o, a)' <=> k = c /\ o \in sharers[a] \ {c}
        BY <1>3, <1>5 DEF InvFrom
    <2>5. OneForward(a)'
        BY <1>5 DEF BlockInv, OneForward, Forward
    <2> QED BY <2>1, <2>2, <2>3, <2>4, <2>5
<1>7. /\ \A k \in Caches : DataFor(k, a)' <=> DataFor(k, a) \/ k = c
      /\ \A i \in Nodes, k \in Caches : \A y :
             y \in Rsp(i, k, a)' <=> y \in Rsp(i, k, a) \/ (i = Home(a) /\ k = c /\ y = r)
      /\ \A k, o \in Caches : ~AckFrom(k, o, a)'
      /\ \A k \in Caches : ~Returns(k, a)'
      /\ OneData(a)'
    BY <1>2, <1>3, SendsData
<1>8. OneRequest(a)' /\ OnePlace(a)'
    BY <1>2, <1>4, <1>6, <1>7, ServedReqs DEF BlockInv, OnePlace
<1>9. RequestFits(a)'
    BY <1>1, ServedReqs DEF BlockInv, RequestFits
<1>10. PlaceFits(a)'
    BY <1>1, <1>2, <1>4, <1>6, <1>7 DEF BlockInv, PlaceFits
<1>11. RecordFits(a)'
    <2>1. ASSUME NEW k \in Caches, k # c
          PROVE  Record(k, a)'
        <3>1. k \in sharers[a] => ~Left(k, a)
            BY DEF Left
        <3>2. cst[k][a] \notin {"IM_A", "SM_A", "M"} /\ (cst[k][a] = "MI_A" => ~Requests(k, a))
            BY <1>3 DEF Holds
        <3>3. /\ cst[k][a] \in {"I", "MI_A"} => k \notin sharers[a]
              /\ cst[k][a] \in {"IM_AD", "II_A"} => k \notin sharers[a]
              /\ cst[k][a] = "SI_A" => Requests(k, a) \/ k \notin sharers[a]
            BY <1>1, <1>3, <3>1, <3>2
               DEF BlockInv, RecordFits, Record, Free, Owns, Asked
        <3> QED BY <1>1, <1>3, <1>4, <1>6, <2>1, <3>2, <3>3
                DEF BlockInv, RecordFits, Record, Free, Shares, Owns, Left, Asked
    <2>2. Record(c, a)'
        BY <1>1, <1>2, <1>3, <1>4, <1>6
           DEF BlockInv, RecordFits, Record, Free, Shares, Owns, Left, Asked
    <2> QED BY <2>1, <2>2 DEF RecordFits
<1>12. \A k \in Caches : Holds(k, a)' <=> k = c
    BY <1>1, <1>2, <1>3, <1>4, <1>6, <1>7 DEF Holds, Asked
<1>13. OneHolder(a)' /\ OneReturn(a)'
    BY <1>6, <1>7, <1>12 DEF OneHolder, OneReturn, Returns
<1>14. Invalidations(a)'
    <2>1. \A k \in Caches : Reads(k, a)' => Reads(k, a) \/ k = c
        BY <1>1, <1>4, <1>7 DEF Reads
    <2> QED BY <1>1, <1>3, <1>4, <1>6, <1>7, <1>12, <2>1 DEF Invalidations
<1>15. Balance(a)'
    <2>1. /\ \A k \in Caches : Awaited(k, a) = {}
          /\ \A k \in Caches \ {c} : Awaited(k, a)' = {}
          /\ Awaited(c, a)' = sharers[a] \ {c}
        BY <1>1, <1>3, <1>6, <1>7 DEF Awaited
    <2>2. \A i \in Nodes : \A y \in Rsp(i, c, a) : y.type # "DATA_FROM_DIR"
        BY <1>2 DEF DataFor, DataType
    <2>3. tbe[c][a].pendingAcks = 0
        BY <1>2, <2>2, NoneAwaited
    <2>4. Cardinality(sharers[a] \ {c}) \in Nat
        <3>1. IsFiniteSet(sharers[a] \ {c})
            BY <1>1, FS_Subset DEF BlockTypes
        <3> QED BY <3>1, FS_CardinalityType
    <2>5. \A k \in Caches : tbe'[k][a].pendingAcks = tbe[k][a].pendingAcks
        BY DEF SameTbe
    <2>6. \A k \in Caches \ {c} : Cardinality(Awaited(k, a)') = Cardinality(Awaited(k, a))
        BY <2>1
    <2>7. ASSUME NEW k \in Caches
          PROVE  /\ \A i \in Nodes : \A y \in Rsp(i, k, a)' : y.type = "DATA_FROM_DIR" =>
                        tbe'[k][a].pendingAcks - y.acks = Cardinality(Awaited(k, a)')
                 /\ (\A i \in Nodes : \A y \in Rsp(i, k, a)' : y.type # "DATA_FROM_DIR") =>
                        tbe'[k][a].pendingAcks = Cardinality(Awaited(k, a)')
                 /\ cst'[k][a] \notin {"IM_A", "SM_A"} => tbe'[k][a].pendingAcks <= 0
        <3>1. CASE k = c
            <4>1. tbe'[c][a].pendingAcks = 0 /\ 0 - r.acks = Cardinality(sharers[a] \ {c})
                BY <2>3, <2>4, <2>5
            <4>2. tbe'[c][a].pendingAcks - r.acks = Cardinality(Awaited(c, a)')
                BY <2>1, <4>1
            <4>3. r \in Rsp(Home(a), c, a)'
                BY <1>2, <1>7
            <4>4. \A i \in Nodes : \A y \in Rsp(i, c, a)' : y.type = "DATA_FROM_DIR" => y = r
                BY <1>7, <2>2
            <4>5. r.type = "DATA_FROM_DIR" /\ Home(a) \in Nodes
                BY <1>2
            <4> QED BY <3>1, <4>1, <4>2, <4>3, <4>4, <4>5
        <3>2. CASE k # c
            BY <1>1, <1>7, <2>5, <2>6, <3>2 DEF BlockInv, Balance
        <3> QED BY <3>1, <3>2
    <2> QED BY <2>7 DEF Balance
<1>16. Values(a)'
    <2>1. \A k \in Caches : Valid(k, a)' => Valid(k, a)
        BY <1>1, <1>2, <1>12 DEF Valid
    <2>2. \A k \in Caches : cst'[k][a] = "MI_A" => ~Holds(k, a)'
        BY <1>1, <1>2, <1>12
    <2>3. \A k \in Caches : \A y \in Req(k, a)' : k \notin owner'[a]
        BY ServedReqs
    <2> QED BY <1>7, <2>1, <2>2, <2>3 DEF BlockInv, Values, SameEntry, Returns, Waiting
<1>17. Waiting(a)'
    BY DEF BlockInv, Waiting
<1> QED BY <1>6, <1>7, <1>8, <1>9, <1>10, <1>11, <1>13, <1>14, <1>15, <1>16, <1>17 DEF BlockInv

(* A block in M is asked for: its owner is told. *)
LEMMA ForwardKeeps ==
    ASSUME NEW a \in Addrs, BlockTypes(a), BlockInv(a), NEW c \in Caches, NEW m \in Req(c, a),
           dst[a] = "M", Served(c, a),
           NEW w, w.type = m.type, w.req = c, Forwards(owner[a], a, w),
           \/ /\ m.type = "GETS" /\ dst'[a] = "MS_D"
              /\ sharers'[a] = (sharers[a] \union {c}) \union owner[a] /\ owner'[a] = {}
           \/ /\ m.type = "GETM" /\ dst'[a] = "M"
              /\ sharers'[a] = sharers[a] /\ owner'[a] = {c},
           dblk'[a] = dblk[a], Mem(a)' = Mem(a),
           SameCst(a), SameTbe(a), SameEntry(a), written'[a] = written[a], SameRsp(a)
    PROVE  BlockInv(a)'
<1>1. PICK o \in Caches : owner[a] = {o}
    BY DEF BlockTypes, Books
<1>2. /\ \A k \in Caches : cst'[k][a] = cst[k][a]
      /\ sharers[a] = {} /\ Mem(a) = {}
      /\ m.type = "GETS" => sharers'[a] = {c, o}
      /\ \A k \in Caches : ~Returns(k, a) /\ ~GetsAt(k, a)
    BY <1>1 DEF SameCst, BlockTypes, Books, BlockInv, Waiting, OneReturn
<1>3. /\ Requests(c, a) /\ ~DataFor(c, a) /\ ~Acked(c, a) /\ ~GetsFor(c, a) /\ ~GetmFor(c, a)
      /\ m.type = "GETS" => cst[c][a] = "IS_D"
      /\ m.type = "GETM" => cst[c][a] \in {"IM_AD", "SM_AD"}
    BY DEF Requests, BlockInv, OnePlace, RequestFits
<1>4. c # o /\ ~Asked(c, a) /\ (cst[c][a] # "SM_AD" => ~Invalidated(c, a))
    BY <1>1, <1>3 DEF BlockInv, RecordFits, Record, Free, Shares, Left
<1>5. \/ cst[o][a] \in {"SM_AD", "IM_AD"} /\ ~Requests(o, a)
      \/ cst[o][a] \in {"IM_A", "SM_A", "M"}
      \/ cst[o][a] = "MI_A" /\ Requests(o, a)
    BY <1>1 DEF BlockInv, RecordFits, Record, Free, Shares, Left, BlockTypes, L1State
<1>6. ~Asked(o, a) /\ Owns(o, a)
    BY <1>1, <1>5 DEF BlockInv, RecordFits, Record, Owns
<1>7. \A k \in Caches :
          /\ Requests(k, a)' <=> Requests(k, a) /\ k # c
          /\ ~MemFor(k, a)' /\ ~MemFor(k, a)
    BY <1>2, ServedReqs DEF MemFor
<1>8. \A k \in Caches : \A y :
          y \in Fwd(k, a)' <=> y \in Fwd(k, a) \/ (k = o /\ y = w)
    BY <1>1 DEF Forwards
<1>9. /\ \A k \in Caches :
             /\ Acked(k, a)' <=> Acked(k, a)
             /\ GetsAt(k, a)' <=> k = o /\ m.type = "GETS"
             /\ GetmAt(k, a)' <=> GetmAt(k, a) \/ (k = o /\ m.type = "GETM")
             /\ Invalidated(k, a)' <=> Invalidated(k, a)
      /\ \A k \in Caches :
             /\ GetsFor(k, a)' <=> GetsFor(k, a) \/ (k = c /\ m.type = "GETS")
             /\ GetmFor(k, a)' <=> GetmFor(k, a) \/ (k = c /\ m.type = "GETM")
      /\ \A k, i \in Caches : InvFrom(k, i, a)' <=> InvFrom(k, i, a)
      /\ OneForward(a)'
    <2>1. \A k \in Caches :
             /\ Acked(k, a)' <=> Acked(k, a)
             /\ GetsAt(k, a)' <=> k = o /\ m.type = "GETS"
             /\ GetmAt(k, a)' <=> GetmAt(k, a) \/ (k = o /\ m.type = "GETM")
             /\ Invalidated(k, a)' <=> Invalidated(k, a)
        BY <1>2, <1>8 DEF Acked, GetsAt, GetmAt, Invalidated
    <2>2. \A k \in Caches :
             /\ GetsFor(k, a)' <=> GetsFor(k, a) \/ (k = c /\ m.type = "GETS")
             /\ GetmFor(k, a)' <=> GetmFor(k, a) \/ (k = c /\ m.type = "GETM")
        BY <1>8 DEF GetsFor, GetmFor
    <2>3. \A k, i \in Caches : InvFrom(k, i, a)' <=> InvFrom(k, i, a)
        BY <1>8 DEF InvFrom
    <2>4. \A y \in Fwd(o, a) : y.type \notin Forward
        BY <1>6 DEF Asked, GetsAt, GetmAt, Forward
    <2>5. \A k \in Caches : \A y \in Fwd(k, a) : y.type \in Forward => y.req # c
        BY <1>3 DEF GetsFor, GetmFor, Forward
    <2>6. OneForward(a)'
        BY <1>8, <2>4, <2>5 DEF BlockInv, OneForward
    <2> QED BY <2>1, <2>2, <2>3, <2>6
<1>10. OneRequest(a)' /\ OneData(a)' /\ OnePlace(a)'
    <2>1. OneRequest(a)' /\ OneData(a)'
        BY ServedReqs, SameRsps DEF BlockInv
    <2>2. \A k \in Caches : DataFor(k, a)' <=> DataFor(k, a)
        BY SameRsps
    <2>3. OnePlace(a)'
        BY <1>3, <1>7, <1>9, <2>2 DEF BlockInv, OnePlace
    <2> QED BY <2>1, <2>3
<1>11. RequestFits(a)'
    BY <1>2, ServedReqs DEF BlockInv, RequestFits
<1>12. PlaceFits(a)'
    BY <1>2, <1>3, <1>7, <1>9, SameRsps DEF BlockInv, PlaceFits
<1>13. RecordFits(a)'
    <2>1. ASSUME NEW k \in Caches, k # c, k # o
          PROVE  Record(k, a)'
        BY <1>1, <1>2, <1>7, <1>9, <2>1
           DEF BlockInv, RecordFits, Record, Free, Shares, Owns, Left, Asked
    <2>2. Record(c, a)'
        BY <1>1, <1>2, <1>3, <1>4, <1>7, <1>9
           DEF BlockInv, RecordFits, Record, Free, Shares, Owns, Left, Asked
    <2>3. Owns(o, a)'
        BY <1>1, <1>2, <1>4, <1>6, <1>9 DEF Owns, Asked
    <2>4. Record(o, a)'
        <3>1. cst[o][a] # "SM_AD" => ~Invalidated(o, a)
            BY <1>5 DEF BlockInv, RecordFits, Record
        <3> QED BY <1>2, <1>4, <1>5, <1>7, <1>9, <2>3, <3>1 DEF Record
    <2> QED BY <2>1, <2>2, <2>4 DEF RecordFits
<1>14. \A k \in Caches : Holds(k, a)' <=> Holds(k, a)
    BY <1>2, <1>3, <1>5, <1>7, <1>9, SameRsps DEF Holds, Asked
<1>15. OneHolder(a)' /\ OneReturn(a)'
    <2>1. OneHolder(a)'
        BY <1>14 DEF BlockInv, OneHolder
    <2>2. \A k \in Caches : ~Returns(k, a)'
        BY <1>2, SameRsps
    <2> QED BY <1>9, <2>1, <2>2 DEF OneReturn, Returns
<1>16. Invalidations(a)'
    <2>1. \A k \in Caches : Reads(k, a)' <=> Reads(k, a)
        BY <1>2, <1>7, SameRsps DEF Reads
    <2>2. cst[c][a] = "SM_AD" => Invalidated(c, a)
        BY <1>2, <1>3 DEF BlockInv, RecordFits, Record, Shares
    <2>3. \A k, i \in Caches : AckFrom(k, i, a)' <=> AckFrom(k, i, a)
        BY SameRsps
    <2> QED BY <1>2, <1>7, <1>9, <1>14, <2>1, <2>2, <2>3 DEF BlockInv, Invalidations
<1>17. Balance(a)'
    <2>1. \A k \in Caches : Awaited(k, a)' = Awaited(k, a)
        BY <1>9, SameRsps DEF Awaited
    <2> QED BY <1>2, <2>1 DEF BlockInv, Balance, SameTbe, SameRsp, BlockTypes
<1>18. Values(a)'
    <2>1. \A k \in Caches : \A y \in Req(k, a)' : k \notin owner'[a]
        BY ServedReqs
    <2> QED BY <1>2, <1>14, <2>1
        DEF BlockInv, Values, Valid, Readable, SameTbe, SameEntry, SameRsp, BlockTypes
<1>19. Waiting(a)'
    BY DEF BlockInv, Waiting
<1> QED BY <1>9, <1>10, <1>11, <1>12, <1>13, <1>15, <1>16, <1>17, <1>18, <1>19 DEF BlockInv

(* The owner of a block writes it back. *)
LEMMA OwnerPutKeeps ==
    ASSUME NEW a \in Addrs, BlockTypes(a), BlockInv(a), NEW c \in Caches, NEW m \in Req(c, a),
           m.type = "PUTM", dst[a] = "M", c \in owner[a], Served(c, a),
           dst'[a] = "MI_A", sharers'[a] = sharers[a], owner'[a] = {}, dblk'[a] = m.data,
           NEW mm, Mem(a)' = Mem(a) \union {mm}, mm.type = "MEMORY_WB", mm.req = c,
           SameCst(a), SameTbe(a), SameEntry(a), written'[a] = written[a],
           SameFwd(a), SameRsp(a)
    PROVE  BlockInv(a)'
<1>1. /\ \A k \in Caches : cst'[k][a] = cst[k][a]
      /\ sharers[a] = {} /\ owner[a] = {c} /\ Mem(a) = {} /\ Mem(a)' = {mm}
      /\ \A k \in Caches : ~Returns(k, a) /\ ~GetsAt(k, a)
    BY DEF SameCst, BlockTypes, Books, BlockInv, Waiting, OneReturn
<1>2. /\ Requests(c, a) /\ ~DataFor(c, a) /\ ~Acked(c, a) /\ ~GetsFor(c, a) /\ ~GetmFor(c, a)
      /\ cst[c][a] = "MI_A" /\ ~Asked(c, a) /\ ~Invalidated(c, a) /\ Holds(c, a)
    <2>1. Requests(c, a) /\ cst[c][a] \in {"MI_A", "SI_A", "II_A"}
        BY DEF Requests, BlockInv, RequestFits
    <2>2. cst[c][a] = "MI_A" /\ ~Asked(c, a) /\ ~Invalidated(c, a)
        BY <1>1, <2>1 DEF BlockInv, RecordFits, Record, Shares, Free, Left, Owns
    <2> QED BY <2>1, <2>2 DEF BlockInv, OnePlace, Holds
<1>3. /\ \A k \in Caches \ {c} : ~Reads(k, a) /\ ~Holds(k, a)
      /\ \A k, o \in Caches : ~InvFrom(k, o, a) /\ ~AckFrom(k, o, a)
    <2>1. Awaited(c, a) = {}
        BY <1>2, NoneAwaited DEF DataFor, DataType
    <2> QED BY <1>2, <2>1, NoOtherReader
<1>4. \A k \in Caches :
          /\ Requests(k, a)' <=> Requests(k, a) /\ k # c
          /\ MemFor(k, a)' <=> k = c
          /\ ~MemFor(k, a)
    BY <1>1, ServedReqs DEF MemFor
<1>5. OneRequest(a)' /\ OneForward(a)' /\ OneData(a)' /\ OnePlace(a)'
    BY <1>2, <1>4, ServedReqs, SameFwds, SameRsps DEF BlockInv, OnePlace
<1>6. RequestFits(a)'
    BY <1>1, ServedReqs DEF BlockInv, RequestFits
<1>7. PlaceFits(a)'
    BY <1>1, <1>2, <1>4, SameFwds, SameRsps DEF BlockInv, PlaceFits
<1>8. RecordFits(a)'
    BY <1>1, <1>2, <1>4, SameFwds
       DEF BlockInv, RecordFits, Record, Free, Shares, Owns, Left, Asked
<1>9. \A k \in Caches : ~Holds(k, a)'
    BY <1>1, <1>2, <1>3, <1>4, SameFwds, SameRsps DEF Holds, Asked
<1>10. OneHolder(a)' /\ OneReturn(a)'
    BY <1>1, <1>9, SameFwds, SameRsps DEF OneHolder, OneReturn, Returns
<1>11. Invalidations(a)'
    <2>1. \A k \in Caches : cst'[k][a] # "SM_AD"
        BY <1>1, <1>2, <1>3 DEF Reads
    <2> QED BY <1>3, <1>9, <2>1, SameFwds, SameRsps DEF Invalidations
<1>12. Balance(a)'
    <2>1. \A k \in Caches : Awaited(k, a)' = Awaited(k, a)
        BY SameFwds, SameRsps DEF Awaited
    <2> QED BY <1>1, <2>1 DEF BlockInv, Balance, SameTbe, SameRsp, BlockTypes
<1>13. Values(a)'
    <2>1. m.data = written[a]
        BY DEF BlockInv, Values
    <2>2. \A k \in Caches : \A y \in Req(k, a)' : k \notin owner'[a]
        BY ServedReqs
    <2> QED BY <1>1, <1>9, <2>1, <2>2
        DEF BlockInv, Values, Valid, Readable, SameEntry, SameRsp, BlockTypes
<1>14. Waiting(a)'
    BY <1>1 DEF Waiting
<1> QED BY <1>5, <1>6, <1>7, <1>8, <1>10, <1>11, <1>12, <1>13, <1>14 DEF BlockInv

(* The data of a downgraded owner arrives. *)
LEMMA ReturnKeeps ==
    ASSUME NEW a \in Addrs, BlockTypes(a), BlockInv(a), NEW c \in Caches,
           NEW r \in Rsp(c, Home(a), a), Hears(c, Home(a), a, r),
           dst[a] = "MS_D", dst'[a] = "MS_A", SameBooks(a), dblk'[a] = r.data,
           NEW mm, Mem(a)' = Mem(a) \union {mm}, mm.type = "MEMORY_WB",
           SameCst(a), SameTbe(a), SameEntry(a), written'[a] = written[a],
           SameReq(a), SameFwd(a)
    PROVE  BlockInv(a)'
<1>1. /\ \A k \in Caches : cst'[k][a] = cst[k][a]
      /\ Mem(a) = {} /\ Mem(a)' = {mm}
      /\ sharers'[a] = sharers[a] /\ owner'[a] = owner[a]
    BY DEF SameCst, BlockInv, Waiting, SameBooks
<1>2. /\ Returns(c, a)
      /\ \A k \in Caches : ~Holds(k, a) /\ ~GetsAt(k, a) /\ (Returns(k, a) => k = c)
      /\ Rsp(c, Home(a), a) = {r}
    BY DEF Returns, BlockInv, OneReturn
<1>3. /\ \A i \in Nodes, k \in Caches : Rsp(i, k, a)' = Rsp(i, k, a)
      /\ \A k \in Caches : ~Returns(k, a)'
    <2>1. Home(a) \in Nodes /\ Home(a) \notin Caches /\ Caches \subseteq Nodes
        BY DEF BlockTypes
    <2>2. \A i \in Nodes, k \in Caches : Rsp(i, k, a)' = Rsp(i, k, a)
        BY <2>1 DEF Hears
    <2>3. \A k \in Caches : Rsp(k, Home(a), a)' = {}
        BY <1>2, <2>1 DEF Hears, Returns
    <2> QED BY <2>2, <2>3 DEF Returns, Home
<1>4. /\ \A k \in Caches : DataFor(k, a)' <=> DataFor(k, a)
      /\ \A k, o \in Caches : AckFrom(k, o, a)' <=> AckFrom(k, o, a)
      /\ OneData(a)'
    <2>1. \A k \in Caches : DataFor(k, a)' <=> DataFor(k, a)
        BY <1>3 DEF DataFor
    <2>2. \A k, o \in Caches : AckFrom(k, o, a)' <=> AckFrom(k, o, a)
        BY <1>3 DEF AckFrom, BlockTypes
    <2>3. OneData(a)'
        BY <1>3 DEF BlockInv, OneData
    <2> QED BY <2>1, <2>2, <2>3
<1>5. \A k \in Caches :
          /\ Requests(k, a)' <=> Requests(k, a)
          /\ ~MemFor(k, a)' /\ ~MemFor(k, a)
    BY <1>1, SameReqs DEF MemFor
<1>6. OneRequest(a)' /\ OneForward(a)' /\ OnePlace(a)'
    BY <1>4, <1>5, SameReqs, SameFwds DEF BlockInv, OnePlace
<1>7. RequestFits(a)'
    BY <1>1 DEF BlockInv, RequestFits, SameReq
<1>8. PlaceFits(a)'
    BY <1>1, <1>4, <1>5, SameFwds DEF BlockInv, PlaceFits
<1>9. RecordFits(a)'
    BY <1>1, <1>5, SameFwds
       DEF BlockInv, RecordFits, Record, Free, Shares, Owns, Left, Asked
<1>10. \A k \in Caches : ~Holds(k, a)'
    BY <1>1, <1>2, <1>4, <1>5, SameFwds DEF Holds, Asked
<1>11. OneHolder(a)' /\ OneReturn(a)'
    BY <1>2, <1>3, <1>10, SameFwds DEF OneHolder, OneReturn, Returns
<1>12. Invalidations(a)'
    <2>1. \A k, o \in Caches : ~InvFrom(k, o, a) /\ ~AckFrom(k, o, a)
        BY <1>2 DEF BlockInv, Invalidations
    <2>2. \A k \in Caches :
              cst'[k][a] = "SM_AD" /\ ~Requests(k, a)' => Invalidated(k, a)'
        BY <1>1, <1>2, <1>5, SameFwds DEF BlockInv, Invalidations
    <2> QED BY <1>4, <1>10, <2>1, <2>2, SameFwds DEF Invalidations
<1>13. Balance(a)'
    <2>1. \A k \in Caches : Awaited(k, a)' = Awaited(k, a)
        BY <1>4, SameFwds DEF Awaited
    <2> QED BY <1>1, <1>3, <2>1 DEF BlockInv, Balance, SameTbe
<1>14. Values(a)'
    <2>1. r.data = written[a]
        BY DEF BlockInv, Values
    <2> QED BY <1>1, <1>3, <1>10, <2>1
        DEF BlockInv, Values, Valid, Readable, SameEntry, SameReq, Returns, Home
<1>15. Waiting(a)'
    BY <1>1 DEF Waiting
<1> QED BY <1>4, <1>6, <1>7, <1>8, <1>9, <1>11, <1>12, <1>13, <1>14, <1>15 DEF BlockInv

(* Memory answers with the contents of a block. *)
LEMMA AnswerKeeps ==
    ASSUME NEW a \in Addrs, BlockTypes(a), BlockInv(a), NEW mm \in Mem(a),
           mm.type = "MEMORY_READ", Mem(a)' = Mem(a) \ {mm},
           \/ dst[a] = "IS_D" /\ dst'[a] = "S"
           \/ dst[a] = "IM_D" /\ dst'[a] = "M",
           SameBooks(a), dblk'[a] = dblk[a], NEW r, Responds(Home(a), mm.req, a, r),
           r.type = "DATA_FROM_DIR", r.acks = 0, r.data = mm.data,
           SameCst(a), SameTbe(a), SameEntry(a), written'[a] = written[a],
           SameReq(a), SameFwd(a)
    PROVE  BlockInv(a)'
<1> DEFINE c == mm.req
<1>1. /\ \A k \in Caches : cst'[k][a] = cst[k][a]
      /\ c \in Caches /\ Mem(a) = {mm} /\ Mem(a)' = {} /\ MemFor(c, a)
      /\ sharers'[a] = sharers[a] /\ owner'[a] = owner[a]
      /\ Home(a) \in Nodes /\ OneData(a) /\ r.type \in DataType
    BY DEF SameCst, BlockTypes, BlockInv, Waiting, MemFor, SameBooks, DataType
<1>2. /\ ~Requests(c, a) /\ ~DataFor(c, a) /\ ~Acked(c, a) /\ ~GetsFor(c, a) /\ ~GetmFor(c, a)
      /\ dst[a] = "IS_D" => cst[c][a] = "IS_D"
      /\ dst[a] = "IM_D" => cst[c][a] \in {"IM_AD", "SM_AD"}
    BY <1>1 DEF BlockInv, OnePlace, PlaceFits
<1>3. \A k \in Caches :
          /\ Requests(k, a)' <=> Requests(k, a)
          /\ MemFor(k, a) <=> k = c
          /\ ~MemFor(k, a)'
    BY <1>1, SameReqs DEF MemFor
<1> HIDE DEF c
<1>4. Responds(Home(a), c, a, r)
    BY DEF c
<1>5. OneRequest(a)' /\ OneForward(a)' /\ OneData(a)' /\ OnePlace(a)'
    BY <1>1, <1>2, <1>3, <1>4, SameReqs, SameFwds, SendsData DEF BlockInv, OnePlace
<1>6. RequestFits(a)'
    BY <1>1 DEF BlockInv, RequestFits, SameReq
<1>7. PlaceFits(a)'
    BY <1>1, <1>2, <1>3, <1>4, SameFwds, SendsData DEF BlockInv, PlaceFits
<1>8. RecordFits(a)'
    BY <1>1, <1>3, SameFwds
       DEF BlockInv, RecordFits, Record, Free, Shares, Owns, Left, Asked
<1>9. \A k \in Caches : /\ Holds(k, a)' <=> Holds(k, a)
                        /\ Reads(k, a)' <=> Reads(k, a)
    BY <1>1, <1>2, <1>3, <1>4, SameFwds, SendsData DEF Holds, Asked, Reads
<1>10. OneHolder(a)' /\ OneReturn(a)'
    <2>1. OneHolder(a)'
        BY <1>9 DEF BlockInv, OneHolder
    <2>2. \A k \in Caches : ~Returns(k, a)' /\ ~GetsAt(k, a)'
        BY <1>1, <1>2, <1>4, SameFwds, SendsData DEF BlockInv, OneReturn
    <2> QED BY <2>1, <2>2 DEF OneReturn, Returns
<1>11. Invalidations(a)'
    BY <1>1, <1>2, <1>3, <1>4, <1>9, SameFwds, SendsData DEF BlockInv, Invalidations
<1>12. Balance(a)'
    <2>1. \A k \in Caches : Awaited(k, a)' = Awaited(k, a)
        BY <1>1, <1>2, <1>4, SameFwds, SendsData DEF Awaited
    <2>2. \A i \in Nodes, k \in Caches : \A y :
              y \in Rsp(i, k, a)' <=> y \in Rsp(i, k, a) \/ (i = Home(a) /\ k = c /\ y = r)
        BY <1>1, <1>2, <1>4, SendsData
    <2>3. \A i \in Nodes : \A y \in Rsp(i, c, a) : y.type # "DATA_FROM_DIR"
        BY <1>2 DEF DataFor, DataType
    <2>4. tbe[c][a].pendingAcks = 0 /\ Cardinality(Awaited(c, a)) = 0
        BY <1>1, <1>2, <2>3, NoneAwaited, AwaitedFinite
    <2>5. \A k \in Caches : tbe'[k][a].pendingAcks = tbe[k][a].pendingAcks
        BY DEF SameTbe
    <2>6. ASSUME NEW k \in Caches
          PROVE  /\ \A i \in Nodes : \A y \in Rsp(i, k, a)' : y.type = "DATA_FROM_DIR" =>
                        tbe'[k][a].pendingAcks - y.acks = Cardinality(Awaited(k, a)')
                 /\ (\A i \in Nodes : \A y \in Rsp(i, k, a)' : y.type # "DATA_FROM_DIR") =>
                        tbe'[k][a].pendingAcks = Cardinality(Awaited(k, a)')
                 /\ cst'[k][a] \notin {"IM_A", "SM_A"} => tbe'[k][a].pendingAcks <= 0
        <3>1. CASE k = c
            BY <1>1, <1>2, <2>1, <2>2, <2>3, <2>4, <2>5, <3>1
        <3>2. CASE k # c
            BY <1>1, <2>1, <2>2, <2>5, <3>2 DEF BlockInv, Balance
        <3> QED BY <3>1, <3>2
    <2> QED BY <2>6 DEF Balance
<1>13. Values(a)'
    <2>1. r.data = written[a]
        BY DEF BlockInv, Values
    <2>2. \A i \in Nodes, k \in Caches : \A y :
              y \in Rsp(i, k, a)' => y \in Rsp(i, k, a) \/ y = r
        BY <1>1, <1>2, <1>4, SendsData
    <2>3. \A k \in Caches : Rsp(k, Home(a), a)' = Rsp(k, Home(a), a)
        BY <1>1, <1>2, <1>4, SendsData
    <2> QED BY <1>1, <1>9, <2>1, <2>2, <2>3
        DEF BlockInv, Values, Valid, Readable, SameTbe, SameEntry, SameReq, Home
<1>14. Waiting(a)'
    BY <1>1 DEF Waiting
<1> QED BY <1>5, <1>6, <1>7, <1>8, <1>10, <1>11, <1>12, <1>13, <1>14 DEF BlockInv

(* Memory has the contents an owner wrote back: the owner is told. *)
LEMMA WrittenBackKeeps ==
    ASSUME NEW a \in Addrs, BlockTypes(a), BlockInv(a), NEW mm \in Mem(a),
           Mem(a)' = Mem(a) \ {mm}, dst[a] = "MI_A", dst'[a] = "I",
           SameBooks(a), dblk'[a] = dblk[a],
           NEW w, w.type = "WB_ACK", Forwards({mm.req}, a, w),
           SameCst(a), SameTbe(a), SameEntry(a), written'[a] = written[a],
           SameReq(a), SameRsp(a)
    PROVE  BlockInv(a)'
<1> DEFINE c == mm.req
<1>1. /\ \A k \in Caches : cst'[k][a] = cst[k][a]
      /\ c \in Caches /\ Mem(a) = {mm} /\ Mem(a)' = {} /\ MemFor(c, a) /\ OneForward(a)
      /\ sharers'[a] = sharers[a] /\ owner'[a] = owner[a]
    BY DEF SameCst, BlockTypes, BlockInv, Waiting, MemFor, SameBooks
<1>2. /\ ~Requests(c, a) /\ ~DataFor(c, a) /\ ~GetsFor(c, a) /\ ~GetmFor(c, a)
      /\ cst[c][a] = "MI_A"
    BY <1>1 DEF BlockInv, OnePlace, PlaceFits
<1>3. \A k \in Caches :
          /\ Requests(k, a)' <=> Requests(k, a)
          /\ MemFor(k, a) <=> k = c
          /\ ~MemFor(k, a)'
    BY <1>1, SameReqs DEF MemFor
<1> HIDE DEF c
<1>4. Forwards({c}, a, w)
    BY DEF c
<1>5. OneRequest(a)' /\ OneForward(a)' /\ OneData(a)' /\ OnePlace(a)'
    <2>1. OneRequest(a)' /\ OneData(a)'
        BY SameReqs, SameRsps DEF BlockInv
    <2>2. OneForward(a)'
        BY <1>1, <1>4, SendsAck
    <2>3. \A k \in Caches :
              /\ DataFor(k, a)' <=> DataFor(k, a)
              /\ Acked(k, a)' <=> Acked(k, a) \/ k = c
              /\ GetsFor(k, a)' <=> GetsFor(k, a)
              /\ GetmFor(k, a)' <=> GetmFor(k, a)
        BY <1>1, <1>4, SendsAck, SameRsps
    <2>4. OnePlace(a)'
        BY <1>2, <1>3, <2>3 DEF BlockInv, OnePlace
    <2> QED BY <2>1, <2>2, <2>4
<1>6. RequestFits(a)'
    BY <1>1 DEF BlockInv, RequestFits, SameReq
<1>7. PlaceFits(a)'
    BY <1>1, <1>2, <1>3, <1>4, SendsAck, SameRsps DEF BlockInv, PlaceFits
<1>8. RecordFits(a)'
    <2>1. \A k \in Caches :
              /\ Acked(k, a)' <=> Acked(k, a) \/ k = c
              /\ GetsAt(k, a)' <=> GetsAt(k, a)
              /\ GetmAt(k, a)' <=> GetmAt(k, a)
              /\ Invalidated(k, a)' <=> Invalidated(k, a)
        BY <1>1, <1>4, SendsAck
    <2>2. ASSUME NEW k \in Caches, k # c
          PROVE  Record(k, a)'
        BY <1>1, <1>3, <2>1, <2>2
           DEF BlockInv, RecordFits, Record, Free, Shares, Owns, Left, Asked
    <2>3. Record(c, a)'
        BY <1>1, <1>2, <1>3, <2>1 DEF BlockInv, RecordFits, Record, Left
    <2> QED BY <2>2, <2>3 DEF RecordFits
<1>9. /\ \A k \in Caches : ~Holds(k, a) /\ ~Invalidated(k, a)
      /\ \A k, o \in Caches : ~InvFrom(k, o, a) /\ ~AckFrom(k, o, a)
      /\ \A k \in Caches : cst[k][a] = "SM_AD" => Requests(k, a)
      /\ \A k \in Caches : ~Returns(k, a) /\ ~GetsAt(k, a)
    BY NoHolder
<1>10. \A k \in Caches : ~Holds(k, a)'
    BY <1>1, <1>3, <1>4, <1>9, SendsAck, SameRsps DEF Holds, Asked
<1>11. OneHolder(a)' /\ OneReturn(a)'
    BY <1>1, <1>4, <1>9, <1>10, SendsAck, SameRsps DEF OneHolder, OneReturn, Returns
<1>12. Invalidations(a)'
    BY <1>1, <1>3, <1>4, <1>9, <1>10, SendsAck, SameRsps DEF Invalidations
<1>13. Balance(a)'
    <2>1. \A k \in Caches : Awaited(k, a)' = Awaited(k, a)
        BY <1>1, <1>4, SendsAck, SameRsps DEF Awaited
    <2> QED BY <1>1, <2>1 DEF BlockInv, Balance, SameTbe, SameRsp, BlockTypes
<1>14. Values(a)'
    BY <1>1, <1>10
       DEF BlockInv, Values, Valid, Readable, SameTbe, SameEntry, SameReq, SameRsp, BlockTypes
<1>15. Waiting(a)'
    BY <1>1 DEF Waiting
<1> QED BY <1>5, <1>6, <1>7, <1>8, <1>11, <1>12, <1>13, <1>14, <1>15 DEF BlockInv

(* Memory has the contents a downgraded owner returned. *)
LEMMA ReturnedKeeps ==
    ASSUME NEW a \in Addrs, BlockTypes(a), BlockInv(a), NEW mm \in Mem(a),
           Mem(a)' = Mem(a) \ {mm}, dst[a] = "MS_A", dst'[a] = "S",
           SameBooks(a), dblk'[a] = dblk[a],
           SameCst(a), SameTbe(a), SameEntry(a), written'[a] = written[a],
           SameReq(a), SameFwd(a), SameRsp(a)
    PROVE  BlockInv(a)'
<1>1. /\ \A k \in Caches : cst'[k][a] = cst[k][a]
      /\ Mem(a)' = {}
      /\ sharers'[a] = sharers[a] /\ owner'[a] = owner[a]
    BY DEF SameCst, BlockInv, Waiting, SameBooks
<1>2. \A k \in Caches :
          /\ Requests(k, a)' <=> Requests(k, a)
          /\ MemFor(k, a)' <=> MemFor(k, a)
    BY <1>1, SameReqs DEF MemFor
<1>3. OneRequest(a)' /\ OneForward(a)' /\ OneData(a)' /\ OnePlace(a)'
    BY <1>2, SameReqs, SameFwds, SameRsps DEF BlockInv, OnePlace
<1>4. RequestFits(a)' /\ PlaceFits(a)'
    BY <1>1, <1>2, SameFwds, SameRsps DEF BlockInv, RequestFits, PlaceFits, SameReq, MemFor
<1>5. RecordFits(a)'
    BY <1>1, <1>2, SameFwds
       DEF BlockInv, RecordFits, Record, Free, Shares, Owns, Left, Asked
<1>6. /\ \A k \in Caches : Holds(k, a)' <=> Holds(k, a)
      /\ \A k \in Caches : Reads(k, a)' <=> Reads(k, a)
    BY <1>1, <1>2, SameFwds, SameRsps DEF Holds, Asked, Reads
<1>7. OneHolder(a)' /\ OneReturn(a)'
    BY <1>6, SameFwds, SameRsps DEF BlockInv, OneHolder, OneReturn, SameRsp, BlockTypes
<1>8. Invalidations(a)'
    BY <1>1, <1>2, <1>6, SameFwds, SameRsps DEF BlockInv, Invalidations
<1>9. Balance(a)'
    <2>1. \A k \in Caches : Awaited(k, a)' = Awaited(k, a)
        BY SameFwds, SameRsps DEF Awaited
    <2> QED BY <1>1, <2>1 DEF BlockInv, Balance, SameTbe, SameRsp, BlockTypes
<1>10. Values(a)'
    BY <1>1, <1>6
       DEF BlockInv, Values, Valid, Readable, SameTbe, SameEntry, SameReq, SameRsp, BlockTypes
<1>11. Waiting(a)'
    BY <1>1 DEF Waiting
<1> QED BY <1>3, <1>4, <1>5, <1>7, <1>8, <1>9, <1>10, <1>11 DEF BlockInv

-----------------------------------------------------------------------------

(* A step that is about another block changes nothing of this one. *)
LEMMA SameKeeps ==
    ASSUME NEW a \in Addrs, BlockTypes(a), BlockInv(a),
           SameCst(a), SameTbe(a), SameEntry(a), written'[a] = written[a],
           SameReq(a), SameFwd(a), SameRsp(a), SameDir(a)
    PROVE  BlockInv(a)'
<1>1. \A k \in Caches : cst'[k][a] = cst[k][a]
    BY DEF SameCst
<1>2. \A k \in Caches :
          /\ Requests(k, a)' <=> Requests(k, a)
          /\ MemFor(k, a)' <=> MemFor(k, a)
    BY <1>1, SameReqs DEF MemFor, SameDir
<1>3. OneRequest(a)' /\ OneForward(a)' /\ OneData(a)' /\ OnePlace(a)'
    BY <1>2, SameReqs, SameFwds, SameRsps DEF BlockInv, OnePlace
<1>4. RequestFits(a)' /\ PlaceFits(a)'
    BY <1>1, <1>2, SameFwds, SameRsps
       DEF BlockInv, RequestFits, PlaceFits, SameReq, SameDir, SameBooks
<1>5. RecordFits(a)'
    BY <1>1, <1>2, SameFwds
       DEF BlockInv, RecordFits, Record, Free, Shares, Owns, Left, Asked, SameDir, SameBooks
<1>6. /\ \A k \in Caches : Holds(k, a)' <=> Holds(k, a)
      /\ \A k \in Caches : Reads(k, a)' <=> Reads(k, a)
    BY <1>1, <1>2, SameFwds, SameRsps DEF Holds, Asked, Reads
<1>7. OneHolder(a)' /\ OneReturn(a)'
    BY <1>6, SameFwds, SameRsps DEF BlockInv, OneHolder, OneReturn, SameDir, SameRsp, BlockTypes
<1>8. Invalidations(a)'
    BY <1>1, <1>2, <1>6, SameFwds, SameRsps DEF BlockInv, Invalidations
<1>9. Balance(a)'
    <2>1. \A k \in Caches : Awaited(k, a)' = Awaited(k, a)
        BY SameFwds, SameRsps DEF Awaited
    <2> QED BY <1>1, <2>1 DEF BlockInv, Balance, SameTbe, SameRsp, BlockTypes
<1>10. Values(a)'
    BY <1>1, <1>6
       DEF BlockInv, Values, Valid, Readable, SameTbe, SameEntry, SameReq, SameRsp, SameDir,
           SameBooks, BlockTypes
<1>11. Waiting(a)'
    BY DEF BlockInv, Waiting, SameDir
<1> QED BY <1>3, <1>4, <1>5, <1>7, <1>8, <1>9, <1>10, <1>11 DEF BlockInv
=============================================================================
