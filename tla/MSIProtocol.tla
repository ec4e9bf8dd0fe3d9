---------------------------- MODULE MSIProtocol ----------------------------
(***************************************************************************)
(* Why MSI is coherent: an inductive invariant, block by block.            *)
(*                                                                         *)
(* A channel is looked at as the set of the messages it holds, and a block *)
(* as the sets of the messages about it.  That loses nothing but the order *)
(* of messages about one block, and of that the protocol only needs that a *)
(* writeback acknowledgement is the last (AckLast).                        *)
(***************************************************************************)
EXTENDS MSI

Contents(q) == {q[i] : i \in DOMAIN q}

Distinct(q) == \A i, j \in DOMAIN q : q[i] = q[j] => i = j

AckLast(q) ==
    \A i, j \in DOMAIN q :
        i < j /\ q[i].addr = q[j].addr => q[i].type # "WB_ACK"

Home(a) == map_Address_to_Directory[a]

\* The messages about block a among those of channel q
About(q, a) == {m \in Contents(q) : m.addr = a}

\* The requests of c, the messages forwarded to c, the responses from n to c
\* and the memory requests about block a
Req(c, a) == About(reqNet[c][Home(a)], a)
Fwd(c, a) == About(fwdNet[Home(a)][c], a)
Rsp(n, c, a) == About(rspNet[n][c], a)
Mem(a) == {mm \in memq : mm.addr = a}

DataType == {"DATA_FROM_DIR", "DATA_FROM_OWNER"}
Forward == {"GETS", "GETM"}

(* No channel holds the same message twice, and each holds only messages   *)
(* about the blocks and of the kinds that belong there.                    *)
ReqChannels ==
    \A c \in Caches, d \in Dirs :
        /\ Distinct(reqNet[c][d])
        /\ \A m \in Contents(reqNet[c][d]) : Home(m.addr) = d

FwdChannels ==
    \A c \in Caches, d \in Dirs :
        /\ Distinct(fwdNet[d][c]) /\ AckLast(fwdNet[d][c])
        /\ \A m \in Contents(fwdNet[d][c]) :
               Home(m.addr) = d /\ (m.type # "WB_ACK" => m.req \in Caches)

\* What node n may send to a cache
Fitting(n, m) ==
    \/ m.type = "DATA_FROM_DIR" /\ n = Home(m.addr)
    \/ m.type = "DATA_FROM_OWNER" /\ n \in Caches /\ m.acks = 0
    \/ m.type = "ACK" /\ n \in Caches /\ m.acks = 1 /\ m.data = InitData

RspChannels ==
    /\ \A n \in Nodes, c \in Caches :
           /\ Distinct(rspNet[n][c])
           /\ \A m \in Contents(rspNet[n][c]) : Fitting(n, m)
    /\ \A c \in Caches, d \in Dirs :
           /\ Distinct(rspNet[c][d])
           /\ \A m \in Contents(rspNet[c][d]) : m.type = "DATA" /\ Home(m.addr) = d

Channels == ReqChannels /\ FwdChannels /\ RspChannels

-----------------------------------------------------------------------------
(* Where the one transaction a cache has for a block can be.               *)

\* the request has not been served
Requests(c, a) == Req(c, a) # {}

\* the directory waits for memory to serve it
MemFor(c, a) == dst[a] # "MS_A" /\ \E mm \in Mem(a) : mm.req = c

\* it was forwarded to the owner
GetsFor(c, a) == \E o \in Caches : \E m \in Fwd(o, a) : m.type = "GETS" /\ m.req = c
GetmFor(c, a) == \E o \in Caches : \E m \in Fwd(o, a) : m.type = "GETM" /\ m.req = c

\* the data is on its way
DataFor(c, a) == \E n \in Nodes : \E m \in Rsp(n, c, a) : m.type \in DataType

\* the writeback is acknowledged
Acked(c, a) == \E m \in Fwd(c, a) : m.type = "WB_ACK"

\* What else cache c is going to be told
GetsAt(c, a) == \E m \in Fwd(c, a) : m.type = "GETS"
GetmAt(c, a) == \E m \in Fwd(c, a) : m.type = "GETM"
Invalidated(c, a) == \E m \in Fwd(c, a) : m.type = "INV"

\* o is told to invalidate its copy for c; o has told c that it did
InvFrom(c, o, a) == \E m \in Fwd(o, a) : m.type = "INV" /\ m.req = c
AckFrom(c, o, a) == \E m \in Rsp(o, c, a) : m.type = "ACK"

\* c returns the data to the directory
Returns(c, a) == Rsp(c, Home(a), a) # {}

-----------------------------------------------------------------------------
(* A cache has at most one transaction for a block, in one place.          *)

OneRequest(a) == \A c \in Caches : \A m1, m2 \in Req(c, a) : m1 = m2

OneForward(a) ==
    /\ \A c \in Caches : \A m1, m2 \in Fwd(c, a) :
           m1.type \in Forward /\ m2.type \in Forward => m1 = m2
    /\ \A o1, o2 \in Caches : \A m1 \in Fwd(o1, a), m2 \in Fwd(o2, a) :
           m1.type \in Forward /\ m2.type \in Forward /\ m1.req = m2.req => o1 = o2

OneData(a) ==
    \A c \in Caches, n1, n2 \in Nodes : \A m1 \in Rsp(n1, c, a), m2 \in Rsp(n2, c, a) :
        m1.type \in DataType /\ m2.type \in DataType => n1 = n2 /\ m1 = m2

OnePlace(a) ==
    \A c \in Caches :
        /\ Requests(c, a) => ~MemFor(c, a) /\ ~DataFor(c, a) /\ ~Acked(c, a)
        /\ Requests(c, a) \/ MemFor(c, a) \/ DataFor(c, a) \/ Acked(c, a) =>
               ~GetsFor(c, a) /\ ~GetmFor(c, a)
        /\ MemFor(c, a) => ~DataFor(c, a) /\ ~Acked(c, a)

(* Wherever it is, the cache and the directory are in a state to match.    *)

RequestFits(a) ==
    \A c \in Caches : \A m \in Req(c, a) :
        /\ m.type = "GETS" => cst[c][a] = "IS_D"
        /\ m.type = "GETM" => cst[c][a] \in {"IM_AD", "SM_AD"}
        /\ m.type = "PUTS" => cst[c][a] \in {"SI_A", "II_A"}
        /\ m.type = "PUTM" => cst[c][a] \in {"MI_A", "SI_A", "II_A"}

PlaceFits(a) ==
    \A c \in Caches :
        /\ MemFor(c, a) =>
               \/ dst[a] = "IS_D" /\ cst[c][a] = "IS_D" /\ sharers[a] = {c}
               \/ dst[a] = "IM_D" /\ cst[c][a] \in {"IM_AD", "SM_AD"} /\ owner[a] = {c}
               \/ dst[a] = "MI_A" /\ cst[c][a] = "MI_A"
        /\ GetsFor(c, a) => cst[c][a] = "IS_D"
        /\ GetmFor(c, a) => cst[c][a] \in {"IM_AD", "SM_AD"}
        /\ DataFor(c, a) => cst[c][a] \in {"IS_D", "IM_AD", "SM_AD"}
        /\ Acked(c, a) => cst[c][a] \in {"MI_A", "SI_A", "II_A"}

-----------------------------------------------------------------------------
(* What the directory has on record of a cache, the messages it has sent   *)
(* it since, and the state of the cache fit.                               *)

Left(c, a) == c \notin sharers[a] /\ c \notin owner[a]

Asked(c, a) == GetsAt(c, a) \/ GetmAt(c, a)

Free(c, a) == Left(c, a) /\ ~Acked(c, a) /\ ~Asked(c, a) /\ ~Invalidated(c, a)

\* A sharer until an invalidation is sent
Shares(c, a) ==
    /\ c \notin owner[a] /\ ~Acked(c, a) /\ ~Asked(c, a)
    /\ c \in sharers[a] <=> ~Invalidated(c, a)

\* The owner until it is asked for the block
Owns(c, a) ==
    /\ ~Acked(c, a)
    /\ c \in owner[a] <=> ~Asked(c, a)
    /\ GetsAt(c, a) => c \in sharers[a]
    /\ GetmAt(c, a) => c \notin sharers[a]

Record(c, a) ==
    /\ cst[c][a] = "I" => Free(c, a)
    /\ cst[c][a] = "IS_D" => IF Requests(c, a) THEN Free(c, a) ELSE Shares(c, a)
    /\ cst[c][a] = "S" => Shares(c, a)
    /\ cst[c][a] = "SM_AD" => IF Requests(c, a) THEN Shares(c, a) ELSE Owns(c, a)
    /\ cst[c][a] = "IM_AD" =>
           IF Requests(c, a) THEN Free(c, a) ELSE Owns(c, a) /\ ~Invalidated(c, a)
    /\ cst[c][a] \in {"IM_A", "SM_A", "M"} => Owns(c, a) /\ ~Invalidated(c, a)
    /\ cst[c][a] = "MI_A" =>
           /\ ~Invalidated(c, a)
           /\ IF Requests(c, a) THEN Owns(c, a) ELSE Left(c, a)
    /\ cst[c][a] = "SI_A" =>
           IF Requests(c, a) THEN Shares(c, a) ELSE Left(c, a) /\ ~Asked(c, a)
    /\ cst[c][a] = "II_A" =>
           IF Requests(c, a) THEN Free(c, a)
           ELSE Left(c, a) /\ ~Asked(c, a) /\ ~Invalidated(c, a)

RecordFits(a) == \A c \in Caches : Record(c, a)

-----------------------------------------------------------------------------
(* At most one cache holds the block to write it: it may, or it has or is  *)
(* being sent the data and only waits for others to let go.                *)

Holds(c, a) ==
    \/ cst[c][a] \in {"IM_A", "SM_A", "M"}
    \/ cst[c][a] \in {"IM_AD", "SM_AD"} /\ (MemFor(c, a) \/ DataFor(c, a))
    \/ cst[c][a] = "MI_A" /\ (Requests(c, a) \/ Asked(c, a))

OneHolder(a) ==
    /\ \A c, o \in Caches : Holds(c, a) /\ Holds(o, a) => c = o
    /\ \A c \in Caches : Holds(c, a) => dst[a] \in {"M", "MS_D", "IM_D"}

(* While the directory waits for the owner of a block it downgrades, one   *)
(* owner has been asked, or has returned the data and holds it no more.    *)
OneReturn(a) ==
    /\ \A c \in Caches : Returns(c, a) \/ GetsAt(c, a) => dst[a] = "MS_D"
    /\ \A c, o \in Caches : Returns(c, a) => ~Holds(o, a) /\ ~GetsAt(o, a)
    /\ \A c, o \in Caches : Returns(c, a) /\ Returns(o, a) => c = o
    /\ \A c, o \in Caches : GetsAt(c, a) /\ GetsAt(o, a) => c = o
    /\ \A c \in Caches : \A m1, m2 \in Rsp(c, Home(a), a) : m1 = m2

-----------------------------------------------------------------------------
(* Whoever can read the block, or is being sent the data to, beside its    *)
(* holder is being invalidated, and the holder waits for just those.       *)

Reads(c, a) ==
    \/ cst[c][a] \in {"S", "SM_AD"}
    \/ cst[c][a] = "IS_D" /\ (MemFor(c, a) \/ DataFor(c, a))

Invalidations(a) ==
    /\ \A c, o \in Caches : InvFrom(c, o, a) \/ AckFrom(c, o, a) => Holds(c, a) /\ c # o
    /\ \A c, o \in Caches : ~(InvFrom(c, o, a) /\ AckFrom(c, o, a))
    /\ \A c, o \in Caches : Holds(c, a) /\ Reads(o, a) /\ o # c => Invalidated(o, a)
    /\ \A c \in Caches :
           cst[c][a] = "SM_AD" /\ ~Requests(c, a) => Holds(c, a) \/ Invalidated(c, a)

\* The caches c still waits for
Awaited(c, a) == {o \in Caches : InvFrom(c, o, a) \/ AckFrom(c, o, a)}

Balance(a) ==
    \A c \in Caches :
        /\ \A n \in Nodes : \A m \in Rsp(n, c, a) : m.type = "DATA_FROM_DIR" =>
               tbe[c][a].pendingAcks - m.acks = Cardinality(Awaited(c, a))
        /\ (\A n \in Nodes : \A m \in Rsp(n, c, a) : m.type # "DATA_FROM_DIR") =>
               tbe[c][a].pendingAcks = Cardinality(Awaited(c, a))
        /\ cst[c][a] \notin {"IM_A", "SM_A"} => tbe[c][a].pendingAcks <= 0

-----------------------------------------------------------------------------
(* All contents that count are those of the last store.                    *)

\* The states in which the entry of the holder, and of a reader, counts
Valid(c, a) ==
    \/ cst[c][a] \in Readable \union {"IM_A"}
    \/ cst[c][a] = "MI_A" /\ Holds(c, a)

Values(a) ==
    /\ \A c \in Caches : Valid(c, a) => entry[c][a].data = written[a]
    /\ \A c \in Caches : cst[c][a] = "MI_A" /\ Holds(c, a) => tbe[c][a].data = written[a]
    /\ \A c \in Caches : \A m \in Req(c, a) :
           m.type = "PUTM" /\ c \in owner[a] => m.data = written[a]
    /\ \A c \in Caches, n \in Nodes : \A m \in Rsp(n, c, a) :
           m.type \in DataType => m.data = written[a]
    /\ \A c \in Caches : \A m \in Rsp(c, Home(a), a) : m.data = written[a]
    /\ dst[a] \notin {"M", "MS_D"} => dblk[a] = written[a]
    /\ \A mm \in Mem(a) : mm.type = "MEMORY_READ" => mm.data = written[a]

-----------------------------------------------------------------------------
(* What the directory waits for from memory fits its state.                *)

Waiting(a) ==
    CASE dst[a] \in {"IS_D", "IM_D"} -> \E mm \in Mem(a) : Mem(a) = {mm} /\ mm.type = "MEMORY_READ"
      [] dst[a] \in {"MI_A", "MS_A"} -> \E mm \in Mem(a) : Mem(a) = {mm} /\ mm.type = "MEMORY_WB"
      [] OTHER -> Mem(a) = {}

BlockInv(a) ==
    /\ OneRequest(a) /\ OneForward(a) /\ OneData(a) /\ OnePlace(a)
    /\ RequestFits(a) /\ PlaceFits(a)
    /\ RecordFits(a)
    /\ OneHolder(a) /\ OneReturn(a)
    /\ Invalidations(a)
    /\ Balance(a)
    /\ Values(a)
    /\ Waiting(a)

MSIInv == TypeOK /\ Channels /\ \A a \in Addrs : BlockInv(a)
=============================================================================
