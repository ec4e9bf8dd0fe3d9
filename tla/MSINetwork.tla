----------------------------- MODULE MSINetwork -----------------------------
(***************************************************************************)
(* The interconnect the L1 and directory controllers of MSI-cache.sm and   *)
(* MSI-dir.sm are plugged into.  The protocol uses three virtual networks: *)
(*                                                                         *)
(*   reqNet  (vnet 2)  L1 -> directory    GETS, GETM, PUTS, PUTM           *)
(*   fwdNet  (vnet 3)  directory -> L1    GETS, GETM, INV, WB_ACK          *)
(*   rspNet  (vnet 4)  any -> any         data and acknowledgements        *)
(*                                                                         *)
(* Every virtual network is declared ordered="true": messages between one  *)
(* source and one destination arrive in the order they were sent, messages *)
(* of different sources arrive in any order.  A channel per pair of nodes  *)
(* is therefore a FIFO, and a controller's incoming MessageBuffer is a     *)
(* merge of the channels that end there.                                   *)
(*                                                                         *)
(* A controller only ever looks at the head of a MessageBuffer, and a      *)
(* z_stall leaves that head in place.  The merge is resolved lazily: while *)
(* nothing is stalled any channel may turn out to hold the first arrival;  *)
(* once a head has been seen and stalled, reqFront / fwdFront remember the *)
(* channel it came from and nothing else can be taken from that buffer     *)
(* until it is popped.  Responses are never stalled, so rspNet needs no    *)
(* such record.                                                            *)
(***************************************************************************)
EXTENDS Integers, Sequences, FiniteSets

CONSTANTS
    Caches,     \* the L1 controllers (one per core)
    Dirs,       \* the directory controllers
    Addrs,      \* block addresses
    Versions,   \* number of distinct contents of a block
    map_Address_to_Directory,   \* the home directory of each block
    NoNode      \* no channel holds a stalled head

Nodes == Caches \union Dirs

(* A DataBlock is abstracted to the version of its contents, counted modulo *)
(* Versions.  A core stores into a part of the block, so the new contents   *)
(* depend on the old ones: a store into stale contents shows.               *)
Data == 0 .. (Versions - 1)
InitData == 0
StoreInto(v) == (v + 1) % Versions

ASSUME NetworkAssumption ==
    /\ Caches \intersect Dirs = {}
    /\ NoNode \notin Nodes
    /\ Versions \in Nat \ {0}
    /\ map_Address_to_Directory \in [Addrs -> Dirs]
    /\ IsFiniteSet(Caches)

VARIABLES
    reqNet,     \* [Caches -> [Dirs -> Seq(RequestMsg)]]
    fwdNet,     \* [Dirs -> [Caches -> Seq(ForwardMsg)]]
    rspNet,     \* [Nodes -> [Nodes -> Seq(ResponseMsg)]]
    reqFront,   \* per directory: the cache whose request is stalled in front
    fwdFront    \* per cache: the directory whose message is stalled in front

netVars == <<reqNet, fwdNet, rspNet, reqFront, fwdFront>>

-----------------------------------------------------------------------------
(* MSI-msg.sm, which declares the messages, is not part of the repository: *)
(* the fields are the ones the two controllers write or read.  A request's *)
(* Requestor is the cache at the source of its channel.                    *)

RequestMsg == [type : {"GETS", "GETM", "PUTS", "PUTM"}, addr : Addrs, data : Data]

ForwardMsg == [type : {"GETS", "GETM", "INV", "WB_ACK"}, addr : Addrs, req : Nodes]

ResponseMsg == [type : {"DATA_FROM_DIR", "DATA_FROM_OWNER", "ACK", "DATA"},
                addr : Addrs, data : Data, acks : Int]

\* enqueue: m is sent from node s to node d
Send(net, s, d, m) == [net EXCEPT ![s][d] = Append(@, m)]

\* enqueue with a Destination of several nodes (NetDest): one copy for each
Multicast(net, s, D, m) ==
    [net EXCEPT ![s] = [n \in DOMAIN net[s] |->
                           IF n \in D THEN Append(net[s][n], m) ELSE net[s][n]]]

\* dequeue: the oldest message from s to d is removed
Pop(net, s, d) == [net EXCEPT ![s][d] = Tail(@)]

\* the channel from s holds the head of the buffer whose stalled head is front
AtFront(front, s) == front \in {NoNode, s}

NetInit ==
    /\ reqNet = [c \in Caches |-> [d \in Dirs |-> <<>>]]
    /\ fwdNet = [d \in Dirs |-> [c \in Caches |-> <<>>]]
    /\ rspNet = [s \in Nodes |-> [d \in Nodes |-> <<>>]]
    /\ reqFront = [d \in Dirs |-> NoNode]
    /\ fwdFront = [c \in Caches |-> NoNode]

NetTypeOK ==
    /\ reqNet \in [Caches -> [Dirs -> Seq(RequestMsg)]]
    /\ fwdNet \in [Dirs -> [Caches -> Seq(ForwardMsg)]]
    /\ rspNet \in [Nodes -> [Nodes -> Seq(ResponseMsg)]]
    /\ reqFront \in [Dirs -> Caches \union {NoNode}]
    /\ fwdFront \in [Caches -> Dirs \union {NoNode}]
=============================================================================
