-------------------------- MODULE MSIProtocolProofs --------------------------
(***************************************************************************)
(* MSI is coherent: the invariant of MSIProtocol holds from the start on,  *)
(* and with it what a core can tell of the protocol.                       *)
(***************************************************************************)
EXTENDS MSIBlockProofs, FunctionTheorems

-----------------------------------------------------------------------------
(* What a channel holds after a message is added, or removed.              *)

\* What a channel holds after a message is enqueued at its end
LEMMA Appended ==
    ASSUME NEW S, NEW q \in Seq(S), NEW m \in S
    PROVE  /\ Append(q, m) \in Seq(S)
           /\ Contents(Append(q, m)) = Contents(q) \union {m}
           /\ \A b : About(Append(q, m), b) =
                         IF b = m.addr THEN About(q, b) \union {m} ELSE About(q, b)
           /\ Distinct(q) /\ m \notin About(q, m.addr) => Distinct(Append(q, m))
           /\ AckLast(q) /\ (\A y \in About(q, m.addr) : y.type # "WB_ACK") =>
                  AckLast(Append(q, m))
<1> DEFINE p == Append(q, m)
<1>1. /\ p \in Seq(S) /\ Len(p) = Len(q) + 1 /\ Len(q) \in Nat
      /\ DOMAIN q = 1 .. Len(q) /\ DOMAIN p = 1 .. Len(q) + 1
      /\ \A i \in 1 .. Len(q) : p[i] = q[i]
      /\ p[Len(q) + 1] = m
    OBVIOUS
<1> HIDE DEF p
<1>2. \A i \in DOMAIN p : i \in DOMAIN q \/ i = Len(q) + 1
    BY <1>1
<1>3. Contents(p) = Contents(q) \union {m}
    <2>1. \A y \in Contents(p) : y \in Contents(q) \union {m}
        BY <1>1, <1>2 DEF Contents
    <2>2. \A y \in Contents(q) : y \in Contents(p)
        BY <1>1 DEF Contents
    <2>3. m \in Contents(p)
        BY <1>1 DEF Contents
    <2> QED BY <2>1, <2>2, <2>3
<1>4. \A b : About(p, b) = IF b = m.addr THEN About(q, b) \union {m} ELSE About(q, b)
    BY <1>3 DEF About
<1>5. ASSUME Distinct(q), m \notin About(q, m.addr)
      PROVE  Distinct(p)
    <2>1. \A i \in DOMAIN q : q[i] # m
        BY <1>5 DEF About, Contents
    <2>2. \A i, j \in DOMAIN q : q[i] = q[j] => i = j
        BY <1>5 DEF Distinct
    <2> QED BY <1>1, <1>2, <2>1, <2>2 DEF Distinct
<1>6. ASSUME AckLast(q), \A y \in About(q, m.addr) : y.type # "WB_ACK"
      PROVE  AckLast(p)
    <2>1. \A i \in DOMAIN q : q[i].addr = m.addr => q[i].type # "WB_ACK"
        BY <1>6 DEF About, Contents
    <2> SUFFICES ASSUME NEW i \in DOMAIN p, NEW j \in DOMAIN p, i < j, p[i].addr = p[j].addr
                 PROVE  p[i].type # "WB_ACK"
        BY DEF AckLast
    <2>2. i \in DOMAIN q /\ p[i] = q[i]
        BY <1>1
    <2>3. CASE j \in DOMAIN q
        BY <1>1, <1>6, <2>2, <2>3 DEF AckLast
    <2>4. CASE j = Len(q) + 1
        BY <1>1, <2>1, <2>2, <2>4
    <2> QED BY <1>2, <2>3, <2>4
<1> QED BY <1>1, <1>3, <1>4, <1>5, <1>6 DEF p

\* What a channel holds after its oldest message is dequeued
LEMMA Removed ==
    ASSUME NEW S, NEW q \in Seq(S), q # <<>>, Distinct(q)
    PROVE  /\ Tail(q) \in Seq(S) /\ Head(q) \in S
           /\ Head(q) \in About(q, Head(q).addr) /\ Head(q) \in Contents(q)
           /\ Contents(Tail(q)) = Contents(q) \ {Head(q)}
           /\ \A b : About(Tail(q), b) =
                         IF b = Head(q).addr THEN About(q, b) \ {Head(q)} ELSE About(q, b)
           /\ Distinct(Tail(q))
           /\ AckLast(q) =>
                  /\ AckLast(Tail(q))
                  /\ Head(q).type = "WB_ACK" => About(q, Head(q).addr) = {Head(q)}
<1> DEFINE p == Tail(q)
           m == Head(q)
<1>1. /\ p \in Seq(S) /\ m \in S /\ Len(q) \in Nat /\ Len(q) # 0
      /\ DOMAIN q = 1 .. Len(q) /\ DOMAIN p = 1 .. Len(q) - 1
      /\ \A i \in 1 .. Len(q) - 1 : p[i] = q[i + 1]
      /\ q[1] = m
    OBVIOUS
<1> HIDE DEF p, m
<1>2. \A i \in DOMAIN p : i + 1 \in DOMAIN q /\ p[i] = q[i + 1] /\ i + 1 # 1 /\ 1 \in DOMAIN q
    BY <1>1
<1>3. \A i \in DOMAIN q : i = 1 \/ (i - 1 \in DOMAIN p /\ p[i - 1] = q[i])
    BY <1>1
<1>4. \A i \in DOMAIN q : q[i] = m => i = 1
    BY <1>1 DEF Distinct
<1>5. Contents(p) = Contents(q) \ {m}
    <2>1. \A y \in Contents(p) : y \in Contents(q) \ {m}
        BY <1>2, <1>4 DEF Contents
    <2>2. \A y \in Contents(q) \ {m} : y \in Contents(p)
        BY <1>1, <1>3 DEF Contents
    <2> QED BY <2>1, <2>2
<1>6. m \in Contents(q) /\ m \in About(q, m.addr)
    BY <1>1 DEF Contents, About
<1>7. \A b : About(p, b) = IF b = m.addr THEN About(q, b) \ {m} ELSE About(q, b)
    BY <1>5 DEF About
<1>8. Distinct(p)
    <2> SUFFICES ASSUME NEW i \in DOMAIN p, NEW j \in DOMAIN p, p[i] = p[j]
                 PROVE  i = j
        BY DEF Distinct
    <2>1. i + 1 = j + 1
        BY <1>2 DEF Distinct
    <2> QED BY <1>1, <2>1
<1>9. ASSUME AckLast(q)
      PROVE  AckLast(p) /\ (m.type = "WB_ACK" => About(q, m.addr) = {m})
    <2>1. AckLast(p)
        <3> SUFFICES ASSUME NEW i \in DOMAIN p, NEW j \in DOMAIN p, i < j, p[i].addr = p[j].addr
                     PROVE  p[i].type # "WB_ACK"
            BY DEF AckLast
        <3>1. i + 1 < j + 1
            BY <1>1
        <3> QED BY <1>2, <1>9, <3>1 DEF AckLast
    <2>2. ASSUME m.type = "WB_ACK", NEW y \in About(q, m.addr)
          PROVE  y = m
        <3>1. PICK i \in DOMAIN q : y = q[i]
            BY DEF About, Contents
        <3>2. i # 1 => 1 < i /\ 1 \in DOMAIN q
            BY <1>1
        <3> QED BY <1>1, <1>9, <2>2, <3>1, <3>2 DEF AckLast, About
    <2> QED BY <1>6, <2>1, <2>2
<1> QED BY <1>1, <1>5, <1>6, <1>7, <1>8, <1>9 DEF p, m

-----------------------------------------------------------------------------
(* What a message sent, or taken, does to the messages about a block.      *)

\* The home directory of a block is a node, and no cache
LEMMA HomeNode ==
    ASSUME NEW a \in Addrs
    PROVE  Home(a) \in Dirs /\ Home(a) \in Nodes /\ Home(a) \notin Caches /\ Caches \subseteq Nodes
BY HomeType, NetworkAssumption DEF NetworkAssumption, Home, Nodes

\* A step that leaves a virtual network alone changes no block's messages on it
LEMMA SameReqNet ==
    ASSUME reqNet' = reqNet
    PROVE  /\ \A b \in Addrs : SameReq(b)
           /\ ReqChannels => ReqChannels'
BY DEF SameReq, Req, About, Home, ReqChannels, Contents, Distinct

LEMMA SameFwdNet ==
    ASSUME fwdNet' = fwdNet
    PROVE  /\ \A b \in Addrs : SameFwd(b)
           /\ FwdChannels => FwdChannels'
BY DEF SameFwd, Fwd, About, Home, FwdChannels, Contents, Distinct, AckLast

LEMMA SameRspNet ==
    ASSUME rspNet' = rspNet
    PROVE  /\ \A b \in Addrs : SameRsp(b)
           /\ RspChannels => RspChannels'
BY DEF SameRsp, Rsp, About, RspChannels, Contents, Distinct, Fitting, Home

\* A cache enqueues a request on the channel to the home directory of its block
LEMMA SendReq ==
    ASSUME NetTypeOK, ReqChannels, NEW c \in Caches, NEW a \in Addrs, NEW q \in RequestMsg,
           q.addr = a, Req(c, a) = {}, reqNet' = Send(reqNet, c, map_Address_to_Directory[a], q)
    PROVE  /\ Asks(c, a, q)
           /\ \A b \in Addrs \ {a} : SameReq(b)
           /\ ReqChannels'
<1> DEFINE h == Home(a)
<1>1. /\ h \in Dirs
      /\ \A k \in Caches, d \in Dirs : reqNet[k][d] \in Seq(RequestMsg)
      /\ \A k \in Caches, d \in Dirs :
             reqNet'[k][d] = IF k = c /\ d = h THEN Append(reqNet[k][d], q) ELSE reqNet[k][d]
    <2>1. h \in Dirs /\ reqNet' = Send(reqNet, c, h, q)
        BY HomeNode DEF Home
    <2> HIDE DEF h
    <2> QED BY <2>1 DEF NetTypeOK, Send
<1>2. /\ About(reqNet[c][h], a) = {}
      /\ \A b : About(Append(reqNet[c][h], q), b) =
                    IF b = a THEN About(reqNet[c][h], b) \union {q} ELSE About(reqNet[c][h], b)
      /\ Contents(Append(reqNet[c][h], q)) = Contents(reqNet[c][h]) \union {q}
      /\ Distinct(Append(reqNet[c][h], q))
    <2> DEFINE p == reqNet[c][h]
    <2>1. p \in Seq(RequestMsg) /\ Distinct(p) /\ About(p, a) = {}
        BY <1>1 DEF ReqChannels, Req
    <2> HIDE DEF p
    <2>2. /\ \A b : About(Append(p, q), b) = IF b = a THEN About(p, b) \union {q} ELSE About(p, b)
          /\ Contents(Append(p, q)) = Contents(p) \union {q}
          /\ Distinct(Append(p, q))
        BY <2>1, Appended
    <2> QED BY <2>1, <2>2 DEF p
<1>3. Asks(c, a, q)
    <2> SUFFICES ASSUME NEW k \in Caches
                 PROVE  About(reqNet'[k][h], a) = IF k = c THEN {q} ELSE About(reqNet[k][h], a)
        BY DEF Asks, Req, About, Contents, Home
    <2> HIDE DEF h
    <2>1. CASE k = c
        <3>1. reqNet'[c][h] = Append(reqNet[c][h], q)
            BY <1>1
        <3>2. About(Append(reqNet[c][h], q), a) = About(reqNet[c][h], a) \union {q}
            BY <1>2
        <3> QED BY <1>2, <2>1, <3>1, <3>2
    <2>2. CASE k # c
        BY <1>1, <2>2
    <2> QED BY <2>1, <2>2
<1>4. \A b \in Addrs \ {a} : SameReq(b)
    <2> SUFFICES ASSUME NEW b \in Addrs \ {a}, NEW k \in Caches
                 PROVE  About(reqNet'[k][Home(b)], b) = About(reqNet[k][Home(b)], b)
        BY DEF SameReq, Req, About, Contents, Home
    <2>1. Home(b) \in Dirs
        BY HomeNode
    <2> QED BY <1>1, <1>2, <2>1
<1>5. ReqChannels'
    <2> SUFFICES ASSUME NEW k \in Caches, NEW d \in Dirs
                 PROVE  /\ Distinct(reqNet'[k][d])
                        /\ \A m \in Contents(reqNet'[k][d]) : Home(m.addr) = d
        BY DEF ReqChannels, Distinct, Contents, Home
    <2> QED BY <1>1, <1>2 DEF ReqChannels
<1> QED BY <1>3, <1>4, <1>5

\* A directory dequeues the request in front of a channel
LEMMA PopReq ==
    ASSUME NetTypeOK, ReqChannels, NEW c \in Caches, NEW d \in Dirs,
           reqNet[c][d] # <<>>, reqNet' = Pop(reqNet, c, d),
           NEW m, m = Head(reqNet[c][d])
    PROVE  /\ m \in RequestMsg /\ m.addr \in Addrs /\ Home(m.addr) = d /\ m \in Req(c, m.addr)
           /\ OneRequest(m.addr) => Served(c, m.addr)
           /\ \A b \in Addrs \ {m.addr} : SameReq(b)
           /\ ReqChannels'
<1>1. /\ reqNet[c][d] \in Seq(RequestMsg)
      /\ \A k \in Caches, i \in Dirs :
             reqNet'[k][i] = IF k = c /\ i = d THEN Tail(reqNet[k][i]) ELSE reqNet[k][i]
    BY DEF NetTypeOK, Pop
<1>2. /\ m \in RequestMsg
      /\ m \in About(reqNet[c][d], m.addr) /\ m \in Contents(reqNet[c][d])
      /\ Contents(Tail(reqNet[c][d])) = Contents(reqNet[c][d]) \ {m}
      /\ \A b : About(Tail(reqNet[c][d]), b) =
                    IF b = m.addr THEN About(reqNet[c][d], b) \ {m} ELSE About(reqNet[c][d], b)
      /\ Distinct(Tail(reqNet[c][d]))
    <2>1. Distinct(reqNet[c][d])
        BY DEF ReqChannels
    <2> QED BY <1>1, <2>1, Removed
<1>3. m.addr \in Addrs /\ Home(m.addr) = d /\ m \in Req(c, m.addr)
    BY <1>2 DEF RequestMsg, ReqChannels, Req
<1>4. ASSUME OneRequest(m.addr)
      PROVE  Served(c, m.addr)
    <2>1. Req(c, m.addr) = {m}
        BY <1>3, <1>4 DEF OneRequest
    <2> SUFFICES ASSUME NEW k \in Caches
                 PROVE  About(reqNet'[k][d], m.addr) =
                            IF k = c THEN {} ELSE About(reqNet[k][d], m.addr)
        BY <1>3 DEF Served, Req, About, Contents, Home
    <2>2. About(reqNet[c][d], m.addr) = {m}
        BY <1>3, <2>1 DEF Req
    <2>3. CASE k = c
        <3>1. reqNet'[c][d] = Tail(reqNet[c][d])
            BY <1>1
        <3>2. About(Tail(reqNet[c][d]), m.addr) = About(reqNet[c][d], m.addr) \ {m}
            BY <1>2
        <3> QED BY <2>2, <2>3, <3>1, <3>2
    <2>4. CASE k # c
        BY <1>1, <2>4
    <2> QED BY <2>3, <2>4
<1>5. \A b \in Addrs \ {m.addr} : SameReq(b)
    <2> SUFFICES ASSUME NEW b \in Addrs \ {m.addr}, NEW k \in Caches
                 PROVE  About(reqNet'[k][Home(b)], b) = About(reqNet[k][Home(b)], b)
        BY DEF SameReq, Req, About, Contents, Home
    <2>1. Home(b) \in Dirs
        BY HomeNode
    <2> QED BY <1>1, <1>2, <2>1
<1>6. ReqChannels'
    <2> SUFFICES ASSUME NEW k \in Caches, NEW i \in Dirs
                 PROVE  /\ Distinct(reqNet'[k][i])
                        /\ \A y \in Contents(reqNet'[k][i]) : Home(y.addr) = i
        BY DEF ReqChannels, Distinct, Contents, Home
    <2> QED BY <1>1, <1>2 DEF ReqChannels
<1> QED BY <1>2, <1>3, <1>4, <1>5, <1>6

\* w is sent to the caches of D, one copy for each
LEMMA SendFwd ==
    ASSUME NetTypeOK, FwdChannels, NEW a \in Addrs, NEW D \in SUBSET Caches, NEW w \in ForwardMsg,
           w.addr = a, w.type # "WB_ACK" => w.req \in Caches,
           \A k \in D : w \notin Fwd(k, a) /\ ~Acked(k, a),
           \A d \in Dirs, k \in Caches :
               fwdNet'[d][k] = IF d = Home(a) /\ k \in D THEN Append(fwdNet[d][k], w)
                               ELSE fwdNet[d][k]
    PROVE  /\ Forwards(D, a, w)
           /\ \A b \in Addrs \ {a} : SameFwd(b)
           /\ FwdChannels'
<1> DEFINE h == Home(a)
<1>1. /\ h \in Dirs
      /\ \A d \in Dirs, k \in Caches : fwdNet[d][k] \in Seq(ForwardMsg)
    BY HomeNode DEF NetTypeOK
<1>2. ASSUME NEW k \in D
      PROVE  /\ \A b : About(Append(fwdNet[h][k], w), b) =
                    IF b = a THEN About(fwdNet[h][k], b) \union {w} ELSE About(fwdNet[h][k], b)
             /\ Contents(Append(fwdNet[h][k], w)) = Contents(fwdNet[h][k]) \union {w}
             /\ Distinct(Append(fwdNet[h][k], w)) /\ AckLast(Append(fwdNet[h][k], w))
    <2> DEFINE p == fwdNet[h][k]
    <2>1. /\ p \in Seq(ForwardMsg) /\ Distinct(p) /\ AckLast(p)
          /\ w \notin About(p, a)
          /\ \A y \in About(p, a) : y.type # "WB_ACK"
        BY <1>1, <1>2 DEF FwdChannels, Fwd, Acked
    <2> HIDE DEF p
    <2>2. /\ \A b : About(Append(p, w), b) = IF b = a THEN About(p, b) \union {w} ELSE About(p, b)
          /\ Contents(Append(p, w)) = Contents(p) \union {w}
          /\ Distinct(Append(p, w)) /\ AckLast(Append(p, w))
        BY <2>1, Appended
    <2> QED BY <2>2 DEF p
<1>3. Forwards(D, a, w)
    <2> SUFFICES ASSUME NEW k \in Caches
                 PROVE  About(fwdNet'[h][k], a) =
                            IF k \in D THEN About(fwdNet[h][k], a) \union {w}
                            ELSE About(fwdNet[h][k], a)
        BY DEF Forwards, Fwd, About, Contents, Home
    <2>1. CASE k \in D
        <3>1. fwdNet'[h][k] = Append(fwdNet[h][k], w)
            BY <1>1, <2>1
        <3>2. About(Append(fwdNet[h][k], w), a) = About(fwdNet[h][k], a) \union {w}
            BY <1>2, <2>1
        <3> QED BY <2>1, <3>1, <3>2
    <2>2. CASE k \notin D
        BY <1>1, <2>2
    <2> QED BY <2>1, <2>2
<1>4. \A b \in Addrs \ {a} : SameFwd(b)
    <2> SUFFICES ASSUME NEW b \in Addrs \ {a}, NEW k \in Caches
                 PROVE  About(fwdNet'[Home(b)][k], b) = About(fwdNet[Home(b)][k], b)
        BY DEF SameFwd, Fwd, About, Contents, Home
    <2>1. Home(b) \in Dirs
        BY HomeNode
    <2>2. CASE Home(b) = h /\ k \in D
        <3>1. fwdNet'[h][k] = Append(fwdNet[h][k], w)
            BY <1>1, <2>2
        <3>2. About(Append(fwdNet[h][k], w), b) = About(fwdNet[h][k], b)
            BY <1>2, <2>2
        <3> QED BY <2>2, <3>1, <3>2
    <2>3. CASE ~(Home(b) = h /\ k \in D)
        BY <2>1, <2>3
    <2> QED BY <2>2, <2>3
<1>5. FwdChannels'
    <2> SUFFICES ASSUME NEW k \in Caches, NEW d \in Dirs
                 PROVE  /\ Distinct(fwdNet'[d][k]) /\ AckLast(fwdNet'[d][k])
                        /\ \A m \in Contents(fwdNet'[d][k]) :
                               Home(m.addr) = d /\ (m.type # "WB_ACK" => m.req \in Caches)
        BY DEF FwdChannels, Distinct, AckLast, Contents, Home
    <2> QED BY SMTT(30), <1>1, <1>2 DEF FwdChannels
<1> QED BY <1>3, <1>4, <1>5

\* A cache dequeues the forwarded message in front of a channel
LEMMA PopFwd ==
    ASSUME NetTypeOK, FwdChannels, NEW c \in Caches, NEW d \in Dirs,
           fwdNet[d][c] # <<>>, fwdNet' = Pop(fwdNet, d, c),
           NEW m, m = Head(fwdNet[d][c])
    PROVE  /\ m \in ForwardMsg /\ m.addr \in Addrs /\ Home(m.addr) = d /\ m \in Fwd(c, m.addr)
           /\ m.type = "WB_ACK" => Fwd(c, m.addr) = {m}
           /\ m.type # "WB_ACK" => m.req \in Caches
           /\ Takes(c, m.addr, m)
           /\ \A b \in Addrs \ {m.addr} : SameFwd(b)
           /\ FwdChannels'
<1>1. /\ fwdNet[d][c] \in Seq(ForwardMsg)
      /\ \A k \in Caches, i \in Dirs :
             fwdNet'[i][k] = IF k = c /\ i = d THEN Tail(fwdNet[i][k]) ELSE fwdNet[i][k]
    BY DEF NetTypeOK, Pop
<1>2. /\ m \in ForwardMsg
      /\ m \in About(fwdNet[d][c], m.addr) /\ m \in Contents(fwdNet[d][c])
      /\ Contents(Tail(fwdNet[d][c])) = Contents(fwdNet[d][c]) \ {m}
      /\ \A b : About(Tail(fwdNet[d][c]), b) =
                    IF b = m.addr THEN About(fwdNet[d][c], b) \ {m} ELSE About(fwdNet[d][c], b)
      /\ Distinct(Tail(fwdNet[d][c])) /\ AckLast(Tail(fwdNet[d][c]))
      /\ m.type = "WB_ACK" => About(fwdNet[d][c], m.addr) = {m}
    <2>1. Distinct(fwdNet[d][c]) /\ AckLast(fwdNet[d][c])
        BY DEF FwdChannels
    <2> QED BY <1>1, <2>1, Removed
<1>3. /\ m.addr \in Addrs /\ Home(m.addr) = d /\ m \in Fwd(c, m.addr)
      /\ m.type = "WB_ACK" => Fwd(c, m.addr) = {m}
      /\ m.type # "WB_ACK" => m.req \in Caches
    BY <1>2 DEF ForwardMsg, FwdChannels, Fwd
<1>4. Takes(c, m.addr, m)
    <2> SUFFICES ASSUME NEW k \in Caches
                 PROVE  About(fwdNet'[d][k], m.addr) =
                            IF k = c THEN About(fwdNet[d][k], m.addr) \ {m}
                            ELSE About(fwdNet[d][k], m.addr)
        BY <1>3 DEF Takes, Fwd, About, Contents, Home
    <2> QED BY <1>1, <1>2
<1>5. \A b \in Addrs \ {m.addr} : SameFwd(b)
    <2> SUFFICES ASSUME NEW b \in Addrs \ {m.addr}, NEW k \in Caches
                 PROVE  About(fwdNet'[Home(b)][k], b) = About(fwdNet[Home(b)][k], b)
        BY DEF SameFwd, Fwd, About, Contents, Home
    <2>1. Home(b) \in Dirs
        BY HomeNode
    <2> QED BY <1>1, <1>2, <2>1
<1>6. FwdChannels'
    <2> SUFFICES ASSUME NEW k \in Caches, NEW i \in Dirs
                 PROVE  /\ Distinct(fwdNet'[i][k]) /\ AckLast(fwdNet'[i][k])
                        /\ \A y \in Contents(fwdNet'[i][k]) :
                               Home(y.addr) = i /\ (y.type # "WB_ACK" => y.req \in Caches)
        BY DEF FwdChannels, Distinct, AckLast, Contents, Home
    <2> QED BY <1>1, <1>2 DEF FwdChannels
<1> QED BY <1>2, <1>3, <1>4, <1>5, <1>6

\* The responses about a block after a step are those its channel then holds
LEMMA RspLater ==
    ASSUME NEW i, NEW k, NEW b
    PROVE  Rsp(i, k, b)' = About(rspNet'[i][k], b)
BY DEF Rsp, About, Contents

\* A node enqueues a response to another node
LEMMA SendRsp ==
    ASSUME NetTypeOK, RspChannels, NEW a \in Addrs, NEW n \in Nodes, NEW c \in Caches,
           NEW r \in ResponseMsg, r.addr = a, Fitting(n, r), r \notin Rsp(n, c, a),
           rspNet' = Send(rspNet, n, c, r)
    PROVE  /\ Responds(n, c, a, r)
           /\ \A b \in Addrs \ {a} : SameRsp(b)
           /\ RspChannels'
<1>1. \A i \in Nodes, k \in Nodes :
          rspNet'[i][k] = IF i = n /\ k = c THEN Append(rspNet[i][k], r) ELSE rspNet[i][k]
    BY DEF NetTypeOK, Send
<1>2. /\ \A b : About(rspNet'[n][c], b) =
                    IF b = a THEN Rsp(n, c, b) \union {r} ELSE Rsp(n, c, b)
      /\ Contents(rspNet'[n][c]) = Contents(rspNet[n][c]) \union {r}
      /\ Distinct(rspNet'[n][c])
    <2> DEFINE p == rspNet[n][c]
           q == rspNet'[n][c]
    <2>1. n \in Nodes /\ c \in Nodes
        BY <1>1 DEF Nodes
    <2>2. Distinct(p)
        BY <1>1 DEF RspChannels
    <2>3. p \in Seq(ResponseMsg) /\ q = Append(p, r)
        BY <1>1, <2>1 DEF NetTypeOK
    <2>4. r \notin About(p, r.addr)
        BY DEF Rsp
    <2>5. \A b : Rsp(n, c, b) = About(p, b)
        BY DEF Rsp
    <2> HIDE DEF p, q
    <2>6. /\ \A b : About(q, b) = IF b = r.addr THEN About(p, b) \union {r} ELSE About(p, b)
          /\ Contents(q) = Contents(p) \union {r}
          /\ Distinct(q)
        BY <2>2, <2>3, <2>4, Appended
    <2>7. /\ \A b : About(q, b) =
                         IF b = a THEN Rsp(n, c, b) \union {r} ELSE Rsp(n, c, b)
          /\ Contents(q) = Contents(p) \union {r}
          /\ Distinct(q)
        BY <2>5, <2>6
    <2> QED BY <2>7 DEF p, q
<1>3. ASSUME NEW i \in Nodes, NEW k \in Nodes, NEW b
      PROVE  Rsp(i, k, b)' =
                 IF i = n /\ k = c /\ b = a THEN Rsp(i, k, b) \union {r} ELSE Rsp(i, k, b)
    <2>1. Rsp(i, k, b)' = About(rspNet'[i][k], b) /\ Rsp(i, k, b) = About(rspNet[i][k], b)
        BY RspLater DEF Rsp
    <2>2. CASE i = n /\ k = c
        BY <1>2, <2>1, <2>2
    <2>3. CASE ~(i = n /\ k = c)
        <3>1. rspNet'[i][k] = rspNet[i][k]
            BY <1>1, <2>3
        <3> QED BY <2>1, <2>3, <3>1
    <2> QED BY <2>2, <2>3
<1>4. Responds(n, c, a, r)
    BY <1>3 DEF Responds
<1>5. \A b \in Addrs \ {a} : SameRsp(b)
    BY <1>3 DEF SameRsp
<1>6. RspChannels'
    <2>1. ASSUME NEW i \in Nodes, NEW k \in Caches
          PROVE  /\ Distinct(rspNet'[i][k])
                 /\ \A m \in Contents(rspNet'[i][k]) : Fitting(i, m)
        <3>1. k \in Nodes
            BY DEF Nodes
        <3> QED BY <1>1, <1>2, <3>1 DEF RspChannels
    <2>2. ASSUME NEW k \in Caches, NEW d \in Dirs
          PROVE  /\ Distinct(rspNet'[k][d])
                 /\ \A m \in Contents(rspNet'[k][d]) : m.type = "DATA" /\ Home(m.addr) = d
        <3>1. k \in Nodes /\ d \in Nodes /\ d # c
            BY NetworkAssumption DEF NetworkAssumption, Nodes
        <3> QED BY <1>1, <3>1 DEF RspChannels
    <2> QED BY <2>1, <2>2 DEF RspChannels, Distinct, Contents, Fitting, Home
<1> QED BY <1>4, <1>5, <1>6

\* Data from c for cache x and for the home of the block
LEMMA SendBoth ==
    ASSUME NetTypeOK, RspChannels, NEW a \in Addrs, NEW c \in Caches, NEW x \in Caches,
           NEW r \in ResponseMsg, r.addr = a, Fitting(c, r), r \notin Rsp(c, x, a),
           NEW w \in ResponseMsg, w.addr = a, w.type = "DATA", w \notin Rsp(c, Home(a), a),
           rspNet' = Send(Send(rspNet, c, x, r), c, map_Address_to_Directory[a], w)
    PROVE  /\ \A i \in Nodes, k \in Nodes :
                  Rsp(i, k, a)' = Rsp(i, k, a) \union
                      (IF i = c /\ k = x THEN {r} ELSE {}) \union
                      (IF i = c /\ k = Home(a) THEN {w} ELSE {})
           /\ \A b \in Addrs \ {a} : SameRsp(b)
           /\ RspChannels'
<1> DEFINE h == Home(a)
<1>1. h \in Dirs /\ h \in Nodes /\ h # x /\ c \in Nodes /\ x \in Nodes
    BY HomeNode
<1>2. \A i \in Nodes, k \in Nodes :
          rspNet'[i][k] = IF i = c /\ k = x THEN Append(rspNet[i][k], r)
                          ELSE IF i = c /\ k = h THEN Append(rspNet[i][k], w)
                          ELSE rspNet[i][k]
    <2>1. rspNet' = Send(Send(rspNet, c, x, r), c, h, w)
        BY DEF Home
    <2> DEFINE net == Send(rspNet, c, x, r)
    <2>2. /\ net \in [Nodes -> [Nodes -> Seq(ResponseMsg)]]
          /\ \A i \in Nodes, k \in Nodes :
                 net[i][k] = IF i = c /\ k = x THEN Append(rspNet[i][k], r) ELSE rspNet[i][k]
        BY <1>1, SendType DEF NetTypeOK, Send
    <2>3. rspNet' = Send(net, c, h, w)
        BY <2>1
    <2> HIDE DEF h, net
    <2>4. \A i \in Nodes, k \in Nodes :
              rspNet'[i][k] = IF i = c /\ k = h THEN Append(net[i][k], w) ELSE net[i][k]
        BY <1>1, <2>2, <2>3 DEF Send
    <2> HIDE DEF h
    <2> SUFFICES ASSUME NEW i \in Nodes, NEW k \in Nodes
                 PROVE  rspNet'[i][k] = IF i = c /\ k = x THEN Append(rspNet[i][k], r)
                                        ELSE IF i = c /\ k = h THEN Append(rspNet[i][k], w)
                                        ELSE rspNet[i][k]
        OBVIOUS
    <2>5. CASE i = c /\ k = h
        <3>1. net[i][k] = rspNet[i][k]
            BY <1>1, <2>2, <2>5
        <3> QED BY <1>1, <2>4, <2>5, <3>1
    <2>6. CASE ~(i = c /\ k = h)
        <3>1. rspNet'[i][k] = net[i][k]
            BY <2>4, <2>6
        <3> QED BY <2>2, <2>6, <3>1
    <2> QED BY <2>5, <2>6
<1>3. /\ \A b : About(rspNet'[c][x], b) =
                    IF b = a THEN Rsp(c, x, b) \union {r} ELSE Rsp(c, x, b)
      /\ Contents(rspNet'[c][x]) = Contents(rspNet[c][x]) \union {r}
      /\ Distinct(rspNet'[c][x])
    <2> DEFINE p == rspNet[c][x]
           q == rspNet'[c][x]
    <2>1. c \in Nodes /\ x \in Nodes
        BY <1>1, <1>2 DEF Nodes
    <2>2. Distinct(p)
        BY <1>1, <1>2 DEF RspChannels
    <2>3. p \in Seq(ResponseMsg) /\ q = Append(p, r)
        BY <1>1, <1>2, <2>1 DEF NetTypeOK
    <2>4. r \notin About(p, r.addr)
        BY DEF Rsp
    <2>5. \A b : Rsp(c, x, b) = About(p, b)
        BY DEF Rsp
    <2> HIDE DEF p, q
    <2>6. /\ \A b : About(q, b) = IF b = r.addr THEN About(p, b) \union {r} ELSE About(p, b)
          /\ Contents(q) = Contents(p) \union {r}
          /\ Distinct(q)
        BY <2>2, <2>3, <2>4, Appended
    <2>7. /\ \A b : About(q, b) =
                         IF b = a THEN Rsp(c, x, b) \union {r} ELSE Rsp(c, x, b)
          /\ Contents(q) = Contents(p) \union {r}
          /\ Distinct(q)
        BY <2>5, <2>6
    <2> QED BY <2>7 DEF p, q
<1>4. /\ \A b : About(rspNet'[c][h], b) =
                    IF b = a THEN Rsp(c, h, b) \union {w} ELSE Rsp(c, h, b)
      /\ Contents(rspNet'[c][h]) = Contents(rspNet[c][h]) \union {w}
      /\ Distinct(rspNet'[c][h])
    <2> DEFINE p == rspNet[c][h]
           q == rspNet'[c][h]
    <2>1. c \in Nodes /\ h \in Nodes
        BY <1>1, <1>2 DEF Nodes
    <2>2. Distinct(p)
        BY <1>1, <1>2 DEF RspChannels
    <2>3. p \in Seq(ResponseMsg) /\ q = Append(p, w)
        BY <1>1, <1>2, <2>1 DEF NetTypeOK
    <2>4. w \notin About(p, w.addr)
        BY DEF Rsp
    <2>5. \A b : Rsp(c, h, b) = About(p, b)
        BY DEF Rsp
    <2> HIDE DEF p, q
    <2>6. /\ \A b : About(q, b) = IF b = w.addr THEN About(p, b) \union {w} ELSE About(p, b)
          /\ Contents(q) = Contents(p) \union {w}
          /\ Distinct(q)
        BY <2>2, <2>3, <2>4, Appended
    <2>7. /\ \A b : About(q, b) =
                         IF b = a THEN Rsp(c, h, b) \union {w} ELSE Rsp(c, h, b)
          /\ Contents(q) = Contents(p) \union {w}
          /\ Distinct(q)
        BY <2>5, <2>6
    <2> QED BY <2>7 DEF p, q
<1> HIDE DEF h
<1>5. ASSUME NEW i \in Nodes, NEW k \in Nodes, NEW b
      PROVE  Rsp(i, k, b)' =
                 IF b = a /\ i = c /\ k = x THEN Rsp(i, k, b) \union {r}
                 ELSE IF b = a /\ i = c /\ k = h THEN Rsp(i, k, b) \union {w}
                 ELSE Rsp(i, k, b)
    <2>1. Rsp(i, k, b)' = About(rspNet'[i][k], b) /\ Rsp(i, k, b) = About(rspNet[i][k], b)
        BY RspLater DEF Rsp
    <2>2. CASE i = c /\ k = x
        BY <1>1, <1>3, <2>1, <2>2
    <2>3. CASE i = c /\ k = h
        BY <1>1, <1>4, <2>1, <2>3
    <2>4. CASE ~(i = c /\ k = x) /\ ~(i = c /\ k = h)
        <3>1. rspNet'[i][k] = rspNet[i][k]
            BY <1>2, <2>4
        <3> QED BY <2>1, <2>4, <3>1
    <2> QED BY <2>2, <2>3, <2>4
<1>7. \A b \in Addrs \ {a} : SameRsp(b)
    BY <1>5 DEF SameRsp
<1>8. RspChannels'
    <2>1. ASSUME NEW i \in Nodes, NEW k \in Caches
          PROVE  /\ Distinct(rspNet'[i][k])
                 /\ \A m \in Contents(rspNet'[i][k]) : Fitting(i, m)
        <3>1. k \in Nodes /\ k # h
            BY HomeNode DEF h
        <3> QED BY <1>2, <1>3, <3>1 DEF RspChannels
    <2>2. ASSUME NEW k \in Caches, NEW d \in Dirs
          PROVE  /\ Distinct(rspNet'[k][d])
                 /\ \A m \in Contents(rspNet'[k][d]) : m.type = "DATA" /\ Home(m.addr) = d
        <3>1. k \in Nodes /\ d \in Nodes /\ d # x
            BY NetworkAssumption DEF NetworkAssumption, Nodes
        <3> QED BY <1>2, <1>4, <3>1 DEF RspChannels, h
    <2> QED BY <2>1, <2>2 DEF RspChannels, Distinct, Contents, Fitting, Home
<1>9. ASSUME NEW i \in Nodes, NEW k \in Nodes
      PROVE  Rsp(i, k, a)' = Rsp(i, k, a) \union
                 (IF i = c /\ k = x THEN {r} ELSE {}) \union
                 (IF i = c /\ k = h THEN {w} ELSE {})
    <2>1. Rsp(i, k, a)' =
              IF i = c /\ k = x THEN Rsp(i, k, a) \union {r}
              ELSE IF i = c /\ k = h THEN Rsp(i, k, a) \union {w}
              ELSE Rsp(i, k, a)
        BY <1>5
    <2> QED BY <1>1, <2>1
<1> QED BY <1>7, <1>8, <1>9 DEF h

\* A node dequeues the response in front of a channel
LEMMA PopRsp ==
    ASSUME NetTypeOK, RspChannels, NEW n \in Nodes, NEW c \in Nodes,
           n \in Caches \/ c \in Caches, rspNet[n][c] # <<>>, rspNet' = Pop(rspNet, n, c),
           NEW m, m = Head(rspNet[n][c])
    PROVE  /\ m \in ResponseMsg /\ m.addr \in Addrs /\ m \in Rsp(n, c, m.addr)
           /\ c \in Dirs => m.type = "DATA" /\ Home(m.addr) = c
           /\ Hears(n, c, m.addr, m)
           /\ \A b \in Addrs \ {m.addr} : SameRsp(b)
           /\ RspChannels'
<1>1. /\ rspNet[n][c] \in Seq(ResponseMsg)
      /\ \A i \in Nodes, k \in Nodes :
             rspNet'[i][k] = IF i = n /\ k = c THEN Tail(rspNet[i][k]) ELSE rspNet[i][k]
    BY DEF NetTypeOK, Pop
<1>2. /\ m \in ResponseMsg
      /\ m \in About(rspNet[n][c], m.addr) /\ m \in Contents(rspNet[n][c])
      /\ Contents(Tail(rspNet[n][c])) = Contents(rspNet[n][c]) \ {m}
      /\ \A b : About(Tail(rspNet[n][c]), b) =
                    IF b = m.addr THEN About(rspNet[n][c], b) \ {m} ELSE About(rspNet[n][c], b)
      /\ Distinct(Tail(rspNet[n][c]))
    <2>1. Distinct(rspNet[n][c])
        BY DEF RspChannels, Nodes
    <2> QED BY <1>1, <2>1, Removed
<1>3. /\ m.addr \in Addrs /\ m \in Rsp(n, c, m.addr)
      /\ c \in Dirs => m.type = "DATA" /\ Home(m.addr) = c
    <2>1. c \in Dirs => n \in Caches
        BY NetworkAssumption DEF NetworkAssumption
    <2> QED BY <1>2, <2>1 DEF ResponseMsg, RspChannels, Rsp
<1>4. ASSUME NEW i \in Nodes, NEW k \in Nodes, NEW b
      PROVE  Rsp(i, k, b)' =
                 IF i = n /\ k = c /\ b = m.addr THEN Rsp(i, k, b) \ {m} ELSE Rsp(i, k, b)
    <2>1. Rsp(i, k, b)' = About(rspNet'[i][k], b) /\ Rsp(i, k, b) = About(rspNet[i][k], b)
        BY RspLater DEF Rsp
    <2>2. CASE i = n /\ k = c
        <3>1. rspNet'[n][c] = Tail(rspNet[n][c])
            BY <1>1
        <3> QED BY <1>2, <2>1, <2>2, <3>1
    <2>3. CASE ~(i = n /\ k = c)
        <3>1. rspNet'[i][k] = rspNet[i][k]
            BY <1>1, <2>3
        <3> QED BY <2>1, <2>3, <3>1
    <2> QED BY <2>2, <2>3
<1>5. Hears(n, c, m.addr, m)
    BY <1>4 DEF Hears
<1>6. \A b \in Addrs \ {m.addr} : SameRsp(b)
    BY <1>4 DEF SameRsp
<1>7. RspChannels'
    <2>1. ASSUME NEW i \in Nodes, NEW k \in Caches
          PROVE  /\ Distinct(rspNet'[i][k])
                 /\ \A y \in Contents(rspNet'[i][k]) : Fitting(i, y)
        <3>1. k \in Nodes
            BY DEF Nodes
        <3> QED BY <1>1, <1>2, <3>1 DEF RspChannels
    <2>2. ASSUME NEW k \in Caches, NEW d \in Dirs
          PROVE  /\ Distinct(rspNet'[k][d])
                 /\ \A y \in Contents(rspNet'[k][d]) : y.type = "DATA" /\ Home(y.addr) = d
        <3>1. k \in Nodes /\ d \in Nodes
            BY DEF Nodes
        <3> QED BY <1>1, <1>2, <3>1 DEF RspChannels
    <2> QED BY <2>1, <2>2 DEF RspChannels, Distinct, Contents, Fitting, Home
<1> QED BY <1>2, <1>3, <1>5, <1>6, <1>7

-----------------------------------------------------------------------------
(* From the whole state to one block, and back.                            *)

\* The invariant and the directory's books give each block its types
LEMMA BlockTypesHold ==
    ASSUME TypeOK, Channels, DirBooks, NEW a \in Addrs
    PROVE  BlockTypes(a)
<1>1. /\ Home(a) \in Dirs /\ Home(a) \in Nodes /\ Home(a) \notin Caches /\ Caches \subseteq Nodes
      /\ IsFiniteSet(Caches)
    BY HomeNode, NetworkAssumption DEF NetworkAssumption
<1>2. \A S : \A q \in Seq(S) : Contents(q) \subseteq S
    BY DEF Contents
<1>3. ASSUME NEW c \in Caches
      PROVE  /\ cst[c][a] \in L1State
             /\ tbe[c][a].pendingAcks \in Int
             /\ \A m \in Req(c, a) : m \in RequestMsg /\ m.addr = a
             /\ \A m \in Fwd(c, a) :
                    m \in ForwardMsg /\ m.addr = a /\ (m.type # "WB_ACK" => m.req \in Caches)
    <2>1. cst[c][a] \in L1State /\ tbe[c][a] \in TBE
        BY DEF TypeOK, CacheTypeOK
    <2>2. reqNet[c][Home(a)] \in Seq(RequestMsg) /\ fwdNet[Home(a)][c] \in Seq(ForwardMsg)
        BY <1>1 DEF TypeOK, NetTypeOK
    <2>3. \A m \in Req(c, a) : m \in RequestMsg /\ m.addr = a
        BY <1>2, <2>2 DEF Req, About
    <2>4. \A m \in Fwd(c, a) :
              m \in ForwardMsg /\ m.addr = a /\ (m.type # "WB_ACK" => m.req \in Caches)
        BY <1>1, <1>2, <2>2 DEF Fwd, About, Channels, FwdChannels
    <2> QED BY <2>1, <2>3, <2>4 DEF TBE
<1>4. ASSUME NEW c \in Caches, NEW n \in Nodes, NEW m \in Rsp(n, c, a)
      PROVE  m \in ResponseMsg /\ m.addr = a /\ Fitting(n, m)
    <2>1. rspNet[n][c] \in Seq(ResponseMsg)
        BY <1>1 DEF TypeOK, NetTypeOK
    <2> QED BY <1>2, <2>1 DEF Rsp, About, Channels, RspChannels
<1>5. \A mm \in Mem(a) : mm.req \in Caches
    BY DEF TypeOK, DirTypeOK, Mem, MemoryMsg
<1>6. /\ dst[a] \in DirState /\ sharers[a] \subseteq Caches /\ owner[a] \subseteq Caches
      /\ Books(dst[a], sharers[a], owner[a])
    BY DEF TypeOK, DirTypeOK, DirBooks
<1> QED BY <1>1, <1>3, <1>4, <1>5, <1>6 DEF BlockTypes, Fitting

\* A step of a cache, or of a directory, about another block
CacheStill(b) == SameCst(b) /\ SameTbe(b) /\ SameEntry(b)
NetStill(b) == SameReq(b) /\ SameFwd(b) /\ SameRsp(b)

\* What is to show of a step
AllKeep == Channels' /\ \A b \in Addrs : BlockInv(b)'

\* A step that leaves a block alone keeps the block's part of the invariant
LEMMA OthersKeep ==
    ASSUME MSIInv, DirBooks, NEW a \in Addrs, Channels', BlockInv(a)',
           \A b \in Addrs \ {a} :
               CacheStill(b) /\ written'[b] = written[b] /\ NetStill(b) /\ SameDir(b)
    PROVE  AllKeep
<1>1. ASSUME NEW b \in Addrs \ {a}
      PROVE  BlockInv(b)'
    BY <1>1, BlockTypesHold, SameKeeps DEF MSIInv, CacheStill, NetStill
<1> QED BY <1>1 DEF AllKeep

\* A step that changes no message, cache or directory keeps all of it: z_stalls
LEMMA StandKeep ==
    ASSUME MSIInv, DirBooks, UNCHANGED <<reqNet, fwdNet, rspNet, cacheVars, dirVars>>
    PROVE  AllKeep
<1>1. Channels'
    BY SameReqNet, SameFwdNet, SameRspNet DEF MSIInv, Channels
<1>2. ASSUME NEW b \in Addrs
      PROVE  BlockInv(b)'
    <2>1. SameCst(b) /\ SameTbe(b) /\ SameEntry(b) /\ written'[b] = written[b] /\ SameDir(b)
        BY DEF cacheVars, dirVars, SameCst, SameTbe, SameEntry, SameDir, SameBooks, Mem
    <2> QED BY <2>1, BlockTypesHold, SameReqNet, SameFwdNet, SameRspNet, SameKeeps DEF MSIInv
<1> QED BY <1>1, <1>2 DEF AllKeep

-----------------------------------------------------------------------------
(* What the end of a transition does to the blocks.                        *)

\* The end of a transition of a cache, setState, is about one block of one cache
LEMMA CacheFrame ==
    ASSUME CacheTypeOK, NEW c \in Caches, NEW a \in Addrs, NEW s, NEW e, NEW t,
           setState(c, a, s, e, t)
    PROVE  /\ Moves(c, a, s)
           /\ OthersTbe(c, a) /\ tbe'[c][a] = t
           /\ OthersEntry(c, a) /\ entry'[c][a] = e
           /\ s = cst[c][a] => SameCst(a)
           /\ t = tbe[c][a] => SameTbe(a)
           /\ e = entry[c][a] => SameEntry(a)
           /\ \A b \in Addrs \ {a} : CacheStill(b)
<1>1. \A k \in Caches, b \in Addrs :
          /\ cst'[k][b] = IF k = c /\ b = a THEN s ELSE cst[k][b]
          /\ tbe'[k][b] = IF k = c /\ b = a THEN t ELSE tbe[k][b]
          /\ entry'[k][b] = IF k = c /\ b = a THEN e ELSE entry[k][b]
    BY DEF setState, CacheTypeOK
<1> QED BY <1>1 DEF Moves, OthersTbe, OthersEntry, SameCst, SameTbe, SameEntry, CacheStill

\* A store is about one block
LEMMA StoreFrame ==
    ASSUME CacheTypeOK, NEW a \in Addrs, StoreDone(a)
    PROVE  /\ written'[a] = StoreInto(written[a])
           /\ \A b \in Addrs \ {a} : written'[b] = written[b]
BY DEF StoreDone, CacheTypeOK

\* The end of a transition of a directory is about one block
LEMMA DirFrame ==
    ASSUME DirTypeOK, NEW a \in Addrs, NEW s, NEW sh, NEW ow, NEW busy,
           setDirState(a, s, sh, ow, busy)
    PROVE  /\ dst'[a] = s /\ sharers'[a] = sh /\ owner'[a] = ow
           /\ \A b \in Addrs \ {a} : dst'[b] = dst[b] /\ SameBooks(b)
BY DEF setDirState, DirTypeOK, SameBooks

\* A cache's step leaves the directories, and a directory's the caches, alone
LEMMA DirStands ==
    ASSUME UNCHANGED dirVars
    PROVE  \A b \in Addrs : SameDir(b)
BY DEF dirVars, SameDir, SameBooks, Mem

\* A directory's step leaves the caches alone
LEMMA CachesStand ==
    ASSUME UNCHANGED cacheVars
    PROVE  \A b \in Addrs : CacheStill(b) /\ written'[b] = written[b]
BY DEF cacheVars, CacheStill, SameCst, SameTbe, SameEntry

-----------------------------------------------------------------------------
(* The core of a cache asks, or hits.                                      *)

(* A cache with a block in a stable state has no request for it under way. *)
LEMMA StableAsksNothing ==
    ASSUME MSIInv, DirBooks, NEW c \in Caches, NEW a \in Addrs, cst[c][a] \in {"I", "S", "M"}
    PROVE  Req(c, a) = {}
<1> SUFFICES ASSUME NEW m \in Req(c, a) PROVE FALSE
    OBVIOUS
<1>1. m.type \in {"GETS", "GETM", "PUTS", "PUTM"}
    BY BlockTypesHold DEF MSIInv, BlockTypes, RequestMsg
<1> QED BY <1>1 DEF MSIInv, BlockInv, RequestFits

\* A transition that allocates a TBE and issues a request
LEMMA AskStep ==
    ASSUME MSIInv, DirBooks, NEW c \in Caches, NEW a \in Addrs,
           NEW s, NEW e, NEW t, NEW q \in RequestMsg, q.addr = a,
           <<cst[c][a], s, q.type>> \in
               {<<"I", "IS_D", "GETS">>, <<"I", "IM_AD", "GETM">>, <<"S", "SM_AD", "GETM">>,
                <<"S", "SI_A", "PUTS">>, <<"M", "MI_A", "PUTM">>},
           setState(c, a, s, e, t), t.pendingAcks = 0,
           s \in {"SM_AD", "MI_A"} => e.data = entry[c][a].data,
           s = "MI_A" => t.data = entry[c][a].data /\ q.data = entry[c][a].data,
           reqNet' = Send(reqNet, c, map_Address_to_Directory[a], q),
           UNCHANGED <<written, fwdNet, rspNet, dirVars>>
    PROVE  AllKeep
<1>1. BlockTypes(a) /\ BlockInv(a) /\ CacheTypeOK /\ NetTypeOK
    BY BlockTypesHold DEF MSIInv, TypeOK
<1>2. Req(c, a) = {}
    BY StableAsksNothing
<1>3. Asks(c, a, q) /\ (\A b \in Addrs \ {a} : SameReq(b)) /\ ReqChannels'
    BY <1>1, <1>2, SendReq DEF MSIInv, Channels
<1>4. /\ \A b \in Addrs : SameFwd(b) /\ SameRsp(b)
      /\ FwdChannels' /\ RspChannels'
    BY SameFwdNet, SameRspNet DEF MSIInv, Channels
<1>5. \A b \in Addrs : SameDir(b)
    BY DirStands
<1>6. /\ Moves(c, a, s)
      /\ OthersTbe(c, a) /\ tbe'[c][a] = t
      /\ OthersEntry(c, a) /\ entry'[c][a] = e
      /\ \A b \in Addrs \ {a} : CacheStill(b)
    BY <1>1, CacheFrame
<1>7. BlockInv(a)'
    BY <1>1, <1>3, <1>4, <1>5, <1>6, AskKeeps
<1> QED BY <1>3, <1>4, <1>5, <1>6, <1>7, OthersKeep DEF NetStill, Channels

\* Every transition on the mandatory queue keeps the invariant
LEMMA L1CoreKeeps ==
    ASSUME MSIInv, DirBooks, NEW c \in Caches, NEW a \in Addrs, L1CoreStep(c, a)
    PROVE  AllKeep
<1> DEFINE v == entry[c][a].data
<1>1. /\ CacheTypeOK /\ NetTypeOK /\ v \in Data /\ InitData \in Data
      /\ UNCHANGED <<fwdNet, rspNet, dirVars>>
    BY InitDataType DEF MSIInv, TypeOK, CacheTypeOK, Entry, L1CoreStep, L1Core
<1>2. \A type \in {"GETS", "GETM", "PUTS", "PUTM"}, w \in Data :
          /\ Request(type, a, w) \in RequestMsg /\ Request(type, a, w).addr = a
          /\ Request(type, a, w).type = type /\ Request(type, a, w).data = w
    BY DEF Request, RequestMsg
<1>3. /\ v_allocateTBE.pendingAcks = 0
      /\ x_copyDataFromCacheToTBE(v_allocateTBE, entry[c][a]).pendingAcks = 0
      /\ x_copyDataFromCacheToTBE(v_allocateTBE, entry[c][a]).data = v
    BY DEF v_allocateTBE, x_copyDataFromCacheToTBE
<1>4. CASE L1_I_Load(c, a)
    BY <1>1, <1>2, <1>3, <1>4, AskStep DEF L1_I_Load, as_issueGetS
<1>5. CASE L1_I_Store(c, a)
    BY <1>1, <1>2, <1>3, <1>5, AskStep DEF L1_I_Store, am_issueGetM
<1>6. CASE L1_Load_hit(c, a)
    BY <1>1, <1>6, StandKeep DEF L1_Load_hit
<1>7. CASE L1_S_Store(c, a)
    BY <1>1, <1>2, <1>3, <1>7, AskStep DEF L1_S_Store, am_issueGetM
<1>8. CASE L1_M_Store(c, a)
    <2>1. BlockTypes(a) /\ BlockInv(a)
        BY BlockTypesHold DEF MSIInv
    <2>2. /\ OthersEntry(c, a) /\ entry'[c][a] = s_store_hit(entry[c][a])
          /\ SameCst(a) /\ SameTbe(a)
          /\ \A b \in Addrs \ {a} : CacheStill(b)
        BY <1>1, <1>8, CacheFrame DEF L1_M_Store
    <2>3. /\ written'[a] = StoreInto(written[a])
          /\ \A b \in Addrs \ {a} : written'[b] = written[b]
        BY <1>1, <1>8, StoreFrame DEF L1_M_Store
    <2>4. /\ \A b \in Addrs : NetStill(b)
          /\ Channels'
        BY <1>1, <1>8, SameReqNet, SameFwdNet, SameRspNet
           DEF L1_M_Store, MSIInv, Channels, NetStill
    <2>5. \A b \in Addrs : SameDir(b)
        BY <1>1, DirStands
    <2>6. entry'[c][a].data = written'[a]
        <3>1. v = written[a]
            BY <1>8, <2>1 DEF L1_M_Store, BlockInv, Values, Valid, Readable
        <3>2. entry[c][a] \in Entry
            BY <1>1 DEF CacheTypeOK
        <3> QED BY <2>2, <2>3, <3>1, <3>2 DEF s_store_hit, Entry
    <2>7. BlockInv(a)'
        BY <1>8, <2>1, <2>2, <2>4, <2>5, <2>6, StoreKeeps DEF L1_M_Store, NetStill
    <2> QED BY <2>2, <2>3, <2>4, <2>5, <2>7, OthersKeep
<1>9. CASE L1_S_Replacement(c, a)
    BY <1>1, <1>2, <1>3, <1>9, AskStep DEF L1_S_Replacement, bs_issuePUTS
<1>10. CASE L1_M_Replacement(c, a)
    BY <1>1, <1>2, <1>3, <1>10, AskStep DEF L1_M_Replacement, bm_issuePUTM
<1> QED BY <1>4, <1>5, <1>6, <1>7, <1>8, <1>9, <1>10 DEF L1CoreStep, L1Core

-----------------------------------------------------------------------------
(* A cache takes a message of its directory.                               *)

\* The event of a forwarded message tells its type
LEMMA ForwardEventType ==
    ASSUME NEW m \in ForwardMsg
    PROVE  /\ ForwardEvent(m) = "Fwd_GetM" => m.type = "GETM"
           /\ ForwardEvent(m) = "Fwd_GetS" => m.type = "GETS"
           /\ ForwardEvent(m) = "Inv" => m.type = "INV"
           /\ ForwardEvent(m) = "WB_Ack" => m.type = "WB_ACK"
BY DEF ForwardEvent, ForwardMsg

\* A response has the fields it is built from
LEMMA ResponseFields ==
    ASSUME NEW type \in {"DATA_FROM_OWNER", "ACK", "DATA"}, NEW a \in Addrs, NEW v \in Data,
           NEW n \in {0, 1}
    PROVE  LET r == Response(type, a, v, n)
           IN  r \in ResponseMsg /\ r.type = type /\ r.addr = a /\ r.data = v /\ r.acks = n
BY DEF Response, ResponseMsg

\* The transitions on Inv: the requestor is sent an Inv_Ack
LEMMA InvStep ==
    ASSUME MSIInv, DirBooks, NEW c \in Caches, NEW a \in Addrs, NEW m \in Fwd(c, a), m.addr = a,
           m.type = "INV", NEW s, NEW e,
           \/ cst[c][a] = "S" /\ s = "I"
           \/ cst[c][a] = "SM_AD" /\ s = "IM_AD"
           \/ cst[c][a] = "SI_A" /\ s = "II_A",
           Takes(c, a, m), \A b \in Addrs \ {a} : SameFwd(b), FwdChannels',
           rspNet' = fi_sendInvAck(rspNet, c, m), setState(c, a, s, e, tbe[c][a]),
           UNCHANGED <<written, reqNet, dirVars>>
    PROVE  AllKeep
<1>1. BlockTypes(a) /\ BlockInv(a) /\ CacheTypeOK /\ NetTypeOK
    BY BlockTypesHold DEF MSIInv, TypeOK
<1>2. m.req \in Caches /\ c \in Nodes
    BY <1>1 DEF BlockTypes
<1> DEFINE r == Response("ACK", a, InitData, 1)
<1>3. r \in ResponseMsg /\ r.type = "ACK" /\ r.addr = a /\ r.acks = 1 /\ r.data = InitData
    BY InitDataType, ResponseFields
<1>4. rspNet' = Send(rspNet, c, m.req, r)
    BY DEF fi_sendInvAck
<1> HIDE DEF r
<1>5. r \notin Rsp(c, m.req, a)
    BY <1>1, <1>2, <1>3 DEF BlockInv, Invalidations, InvFrom, AckFrom
<1>6. Responds(c, m.req, a, r) /\ (\A b \in Addrs \ {a} : SameRsp(b)) /\ RspChannels'
    BY <1>1, <1>2, <1>3, <1>4, <1>5, SendRsp DEF Fitting, MSIInv, Channels
<1>7. /\ \A b \in Addrs : SameReq(b) /\ SameDir(b)
      /\ ReqChannels'
    BY SameReqNet, DirStands DEF MSIInv, Channels
<1>8. /\ Moves(c, a, s) /\ SameTbe(a) /\ OthersEntry(c, a)
      /\ \A b \in Addrs \ {a} : CacheStill(b)
    BY <1>1, CacheFrame
<1>9. BlockInv(a)'
    BY <1>1, <1>3, <1>6, <1>7, <1>8, InvKeeps
<1> QED BY <1>6, <1>7, <1>8, <1>9, OthersKeep DEF NetStill, Channels

\* The transitions on Fwd_GetM: the requestor is sent the data
LEMMA HandOnStep ==
    ASSUME MSIInv, DirBooks, NEW c \in Caches, NEW a \in Addrs, NEW m \in Fwd(c, a), m.addr = a,
           m.type = "GETM", NEW s, NEW e, NEW v \in Data,
           <<cst[c][a], s>> \in {<<"M", "I">>, <<"MI_A", "II_A">>},
           v = (IF cst[c][a] = "M" THEN entry[c][a].data ELSE tbe[c][a].data),
           Takes(c, a, m), \A b \in Addrs \ {a} : SameFwd(b), FwdChannels',
           rspNet' = Send(rspNet, c, m.req, Response("DATA_FROM_OWNER", a, v, 0)),
           setState(c, a, s, e, tbe[c][a]),
           UNCHANGED <<written, reqNet, dirVars>>
    PROVE  AllKeep
<1>1. BlockTypes(a) /\ BlockInv(a) /\ CacheTypeOK /\ NetTypeOK
    BY BlockTypesHold DEF MSIInv, TypeOK
<1>2. m.req \in Caches /\ c \in Nodes
    BY <1>1 DEF BlockTypes
<1> DEFINE r == Response("DATA_FROM_OWNER", a, v, 0)
<1>3. r \in ResponseMsg /\ r.type = "DATA_FROM_OWNER" /\ r.addr = a /\ r.acks = 0 /\ r.data = v
    BY ResponseFields
<1>4. rspNet' = Send(rspNet, c, m.req, r)
    OBVIOUS
<1> HIDE DEF r
<1>5. r \notin Rsp(c, m.req, a)
    <2>1. GetmFor(m.req, a)
        BY DEF GetmFor
    <2>2. ~DataFor(m.req, a)
        BY <1>1, <1>2, <2>1 DEF BlockInv, OnePlace
    <2> QED BY <1>2, <1>3, <2>2 DEF DataFor, DataType
<1>6. Responds(c, m.req, a, r) /\ (\A b \in Addrs \ {a} : SameRsp(b)) /\ RspChannels'
    BY <1>1, <1>2, <1>3, <1>4, <1>5, SendRsp DEF Fitting, MSIInv, Channels
<1>7. /\ \A b \in Addrs : SameReq(b) /\ SameDir(b)
      /\ ReqChannels'
    BY SameReqNet, DirStands DEF MSIInv, Channels
<1>8. /\ Moves(c, a, s) /\ SameTbe(a) /\ OthersEntry(c, a)
      /\ \A b \in Addrs \ {a} : CacheStill(b)
    BY <1>1, CacheFrame
<1>9. BlockInv(a)'
    BY <1>1, <1>3, <1>6, <1>7, <1>8, HandOnKeeps
<1> QED BY <1>6, <1>7, <1>8, <1>9, OthersKeep DEF NetStill, Channels

\* The transitions on Fwd_GetS: requestor and directory are sent the data
LEMMA DowngradeStep ==
    ASSUME MSIInv, DirBooks, NEW c \in Caches, NEW a \in Addrs, NEW m \in Fwd(c, a), m.addr = a,
           m.type = "GETS", NEW s, NEW v \in Data,
           <<cst[c][a], s>> \in {<<"M", "S">>, <<"MI_A", "SI_A">>},
           v = (IF cst[c][a] = "M" THEN entry[c][a].data ELSE tbe[c][a].data),
           Takes(c, a, m), \A b \in Addrs \ {a} : SameFwd(b), FwdChannels',
           rspNet' = Send(Send(rspNet, c, m.req, Response("DATA_FROM_OWNER", a, v, 0)),
                          c, map_Address_to_Directory[a], Response("DATA", a, v, 0)),
           setState(c, a, s, entry[c][a], tbe[c][a]),
           UNCHANGED <<written, reqNet, dirVars>>
    PROVE  AllKeep
<1>1. BlockTypes(a) /\ BlockInv(a) /\ CacheTypeOK /\ NetTypeOK
    BY BlockTypesHold DEF MSIInv, TypeOK
<1>2. m.req \in Caches /\ c \in Nodes
    BY <1>1 DEF BlockTypes
<1> DEFINE r == Response("DATA_FROM_OWNER", a, v, 0)
           w == Response("DATA", a, v, 0)
<1>3. /\ r \in ResponseMsg /\ r.type = "DATA_FROM_OWNER" /\ r.addr = a /\ r.acks = 0 /\ r.data = v
      /\ w \in ResponseMsg /\ w.type = "DATA" /\ w.addr = a /\ w.data = v
    BY ResponseFields
<1>4. rspNet' = Send(Send(rspNet, c, m.req, r), c, map_Address_to_Directory[a], w)
    OBVIOUS
<1> HIDE DEF r, w
<1>5. r \notin Rsp(c, m.req, a)
    <2>1. GetsFor(m.req, a)
        BY DEF GetsFor
    <2>2. ~DataFor(m.req, a)
        BY <1>1, <1>2, <2>1 DEF BlockInv, OnePlace
    <2> QED BY <1>2, <1>3, <2>2 DEF DataFor, DataType
<1>6. w \notin Rsp(c, Home(a), a)
    <2>1. GetsAt(c, a)
        BY DEF GetsAt
    <2>2. ~Returns(c, a)
        BY <1>1, <2>1 DEF BlockInv, OneReturn
    <2> QED BY <2>2 DEF Returns
<1>7. /\ \A i \in Nodes, k \in Nodes :
             Rsp(i, k, a)' = Rsp(i, k, a) \union
                 (IF i = c /\ k = m.req THEN {r} ELSE {}) \union
                 (IF i = c /\ k = Home(a) THEN {w} ELSE {})
      /\ (\A b \in Addrs \ {a} : SameRsp(b)) /\ RspChannels'
    <2>1. Fitting(c, r) /\ RspChannels
        BY <1>3 DEF Fitting, MSIInv, Channels
    <2>2. /\ \A i \in Nodes, k \in Nodes :
                 Rsp(i, k, a)' = Rsp(i, k, a) \union
                     (IF i = c /\ k = m.req THEN {r} ELSE {}) \union
                     (IF i = c /\ k = Home(a) THEN {w} ELSE {})
        BY ONLY <1>1, <1>2, <1>3, <1>4, <1>5, <1>6, <2>1, SendBoth, a \in Addrs, c \in Caches
    <2>3. (\A b \in Addrs \ {a} : SameRsp(b)) /\ RspChannels'
        BY <1>1, <1>2, <1>3, <1>4, <1>5, <1>6, <2>1, SendBoth
    <2> QED BY <2>2, <2>3
<1>8. /\ \A b \in Addrs : SameReq(b) /\ SameDir(b)
      /\ ReqChannels'
    BY SameReqNet, DirStands DEF MSIInv, Channels
<1>9. /\ Moves(c, a, s) /\ SameTbe(a) /\ SameEntry(a)
      /\ \A b \in Addrs \ {a} : CacheStill(b)
    BY <1>1, CacheFrame
<1>10. BlockInv(a)'
    BY <1>1, <1>3, <1>7, <1>8, <1>9, DowngradeKeeps
<1> QED BY <1>7, <1>8, <1>9, <1>10, OthersKeep DEF NetStill, Channels

\* The transitions on WB_Ack: entry and TBE are freed
LEMMA WritebackStep ==
    ASSUME MSIInv, DirBooks, NEW c \in Caches, NEW a \in Addrs, NEW m, Fwd(c, a) = {m},
           m.type = "WB_ACK", cst[c][a] \in {"MI_A", "SI_A", "II_A"},
           Takes(c, a, m), \A b \in Addrs \ {a} : SameFwd(b), FwdChannels',
           setState(c, a, "I", h_deallocateL1CacheBlock, w_deallocateTBE),
           UNCHANGED <<written, reqNet, rspNet, dirVars>>
    PROVE  AllKeep
<1>1. BlockTypes(a) /\ BlockInv(a) /\ CacheTypeOK
    BY BlockTypesHold DEF MSIInv, TypeOK
<1>2. /\ \A b \in Addrs : SameReq(b) /\ SameRsp(b) /\ SameDir(b)
      /\ ReqChannels' /\ RspChannels'
    BY SameReqNet, SameRspNet, DirStands DEF MSIInv, Channels
<1>3. /\ Moves(c, a, "I") /\ OthersTbe(c, a) /\ tbe'[c][a].pendingAcks = 0 /\ OthersEntry(c, a)
      /\ \A b \in Addrs \ {a} : CacheStill(b)
    BY <1>1, CacheFrame DEF w_deallocateTBE, NoTBE
<1>4. BlockInv(a)'
    BY <1>1, <1>2, <1>3, WritebackKeeps
<1> QED BY <1>2, <1>3, <1>4, OthersKeep DEF NetStill, Channels

\* Every transition on forwarded messages keeps the invariant
LEMMA L1ForwardKeeps ==
    ASSUME MSIInv, DirBooks, NEW c \in Caches, NEW d \in Dirs, L1ForwardStep(c, d)
    PROVE  AllKeep
<1> PICK m : m = Head(fwdNet[d][c])
    OBVIOUS
<1> DEFINE a == m.addr
<1>1. /\ m \in ForwardMsg /\ a \in Addrs /\ m \in Fwd(c, a)
      /\ m.type = "WB_ACK" => Fwd(c, a) = {m}
      /\ Takes(c, a, m)
      /\ \A b \in Addrs \ {a} : SameFwd(b)
      /\ FwdChannels'
    BY PopFwd DEF MSIInv, TypeOK, Channels, L1ForwardStep, L1Forward
<1>2. UNCHANGED <<written, reqNet, dirVars>>
    BY DEF L1ForwardStep, L1Forward
<1>3. \/ L1_S_Inv(c, m)
      \/ L1_SM_AD_Inv(c, m)
      \/ L1_M_Fwd_GetS(c, m)
      \/ L1_M_Fwd_GetM(c, m)
      \/ L1_MI_A_Fwd_GetS(c, m)
      \/ L1_MI_A_Fwd_GetM(c, m)
      \/ L1_SI_A_Inv(c, m)
      \/ L1_WB_Ack(c, m)
    BY DEF L1ForwardStep, L1Forward
<1>4. entry[c][a].data \in Data /\ tbe[c][a].data \in Data
    BY <1>1 DEF MSIInv, TypeOK, CacheTypeOK, Entry, TBE
<1>5. CASE L1_S_Inv(c, m)
    <2>1. m.type = "INV" /\ cst[c][a] = "S"
        BY <1>1, <1>5, ForwardEventType DEF L1_S_Inv, ForwardTrigger
    <2>2. /\ rspNet' = fi_sendInvAck(rspNet, c, m)
          /\ setState(c, a, "I", h_deallocateL1CacheBlock, tbe[c][a])
        BY <1>5 DEF L1_S_Inv
    <2> QED BY <1>1, <1>2, <2>1, <2>2, InvStep
<1>6. CASE L1_SM_AD_Inv(c, m)
    <2>1. m.type = "INV" /\ cst[c][a] = "SM_AD"
        BY <1>1, <1>6, ForwardEventType DEF L1_SM_AD_Inv, ForwardTrigger
    <2>2. /\ rspNet' = fi_sendInvAck(rspNet, c, m)
          /\ setState(c, a, "IM_AD", entry[c][a], tbe[c][a])
        BY <1>6 DEF L1_SM_AD_Inv
    <2> QED BY <1>1, <1>2, <2>1, <2>2, InvStep
<1>7. CASE L1_M_Fwd_GetS(c, m)
    <2>1. m.type = "GETS" /\ cst[c][a] = "M"
        BY <1>1, <1>7, ForwardEventType DEF L1_M_Fwd_GetS, ForwardTrigger
    <2>2. /\ rspNet' = Send(Send(rspNet, c, m.req, Response("DATA_FROM_OWNER", a, entry[c][a].data, 0)),
                            c, map_Address_to_Directory[a], Response("DATA", a, entry[c][a].data, 0))
          /\ setState(c, a, "S", entry[c][a], tbe[c][a])
        BY <1>7 DEF L1_M_Fwd_GetS, de_sendDataFromCacheToDir, e_sendDataFromCacheToRequestor
    <2> QED BY <1>1, <1>2, <1>4, <2>1, <2>2, DowngradeStep
<1>8. CASE L1_M_Fwd_GetM(c, m)
    <2>1. m.type = "GETM" /\ cst[c][a] = "M"
        BY <1>1, <1>8, ForwardEventType DEF L1_M_Fwd_GetM, ForwardTrigger
    <2>2. /\ rspNet' = Send(rspNet, c, m.req, Response("DATA_FROM_OWNER", a, entry[c][a].data, 0))
          /\ setState(c, a, "I", h_deallocateL1CacheBlock, tbe[c][a])
        BY <1>8 DEF L1_M_Fwd_GetM, e_sendDataFromCacheToRequestor
    <2> QED BY <1>1, <1>2, <1>4, <2>1, <2>2, HandOnStep
<1>9. CASE L1_MI_A_Fwd_GetS(c, m)
    <2>1. m.type = "GETS" /\ cst[c][a] = "MI_A"
        BY <1>1, <1>9, ForwardEventType DEF L1_MI_A_Fwd_GetS, ForwardTrigger
    <2>2. /\ rspNet' = Send(Send(rspNet, c, m.req, Response("DATA_FROM_OWNER", a, tbe[c][a].data, 0)),
                            c, map_Address_to_Directory[a], Response("DATA", a, tbe[c][a].data, 0))
          /\ setState(c, a, "SI_A", entry[c][a], tbe[c][a])
        BY <1>9 DEF L1_MI_A_Fwd_GetS, dee_sendDataFromTBEToDir, ee_sendDataFromTBEToRequestor
    <2> QED BY <1>1, <1>2, <1>4, <2>1, <2>2, DowngradeStep
<1>10. CASE L1_MI_A_Fwd_GetM(c, m)
    <2>1. m.type = "GETM" /\ cst[c][a] = "MI_A"
        BY <1>1, <1>10, ForwardEventType DEF L1_MI_A_Fwd_GetM, ForwardTrigger
    <2>2. /\ rspNet' = Send(rspNet, c, m.req, Response("DATA_FROM_OWNER", a, tbe[c][a].data, 0))
          /\ setState(c, a, "II_A", entry[c][a], tbe[c][a])
        BY <1>10 DEF L1_MI_A_Fwd_GetM, ee_sendDataFromTBEToRequestor
    <2> QED BY <1>1, <1>2, <1>4, <2>1, <2>2, HandOnStep
<1>11. CASE L1_SI_A_Inv(c, m)
    <2>1. m.type = "INV" /\ cst[c][a] = "SI_A"
        BY <1>1, <1>11, ForwardEventType DEF L1_SI_A_Inv, ForwardTrigger
    <2>2. /\ rspNet' = fi_sendInvAck(rspNet, c, m)
          /\ setState(c, a, "II_A", entry[c][a], tbe[c][a])
        BY <1>11 DEF L1_SI_A_Inv
    <2> QED BY <1>1, <1>2, <2>1, <2>2, InvStep
<1>12. CASE L1_WB_Ack(c, m)
    <2>1. m.type = "WB_ACK" /\ cst[c][a] \in {"MI_A", "SI_A", "II_A"}
        BY <1>1, <1>12, ForwardEventType DEF L1_WB_Ack, ForwardTrigger
    <2> QED BY <1>1, <1>2, <1>12, <2>1, WritebackStep DEF L1_WB_Ack
<1> QED BY <1>3, <1>5, <1>6, <1>7, <1>8, <1>9, <1>10, <1>11, <1>12

-----------------------------------------------------------------------------
(* A cache takes a response.                                               *)

\* What an event says of the message and the acknowledgements waited for
LEMMA ResponseEventType ==
    ASSUME NEW c, NEW m, ResponseEvent(c, m) # "Error"
    PROVE  LET left == tbe[c][m.addr].pendingAcks - m.acks
           IN  /\ ResponseEvent(c, m) = "Data_from_Dir_No_Acks" =>
                      m.type = "DATA_FROM_DIR" /\ m.acks = 0
               /\ ResponseEvent(c, m) = "Data_from_Dir_Ack_Cnt_Last" =>
                      m.type = "DATA_FROM_DIR" /\ left = 0
               /\ ResponseEvent(c, m) = "Data_from_Dir_Ack_Cnt" => m.type = "DATA_FROM_DIR"
               /\ ResponseEvent(c, m) = "Data_from_Owner" => m.type = "DATA_FROM_OWNER"
               /\ ResponseEvent(c, m) = "Inv_Ack_all" => m.type = "ACK" /\ left = 0
               /\ ResponseEvent(c, m) = "Inv_Ack" => m.type = "ACK"
<1>1. CASE m.type = "DATA_FROM_DIR"
    BY <1>1 DEF ResponseEvent
<1>2. CASE m.type = "DATA_FROM_OWNER"
    BY <1>2 DEF ResponseEvent
<1>3. CASE m.type = "ACK"
    BY <1>3 DEF ResponseEvent
<1>4. CASE m.type \notin {"DATA_FROM_DIR", "DATA_FROM_OWNER", "ACK"}
    BY <1>4 DEF ResponseEvent
<1> QED BY <1>1, <1>2, <1>3, <1>4

\* The transitions on data and acknowledgements, by what they are about
LEMMA ResponseStep ==
    ASSUME MSIInv, DirBooks, NEW c \in Caches, NEW n \in Nodes, NEW a \in Addrs,
           NEW m \in Rsp(n, c, a), m.addr = a, Hears(n, c, a, m),
           \A b \in Addrs \ {a} : SameRsp(b), RspChannels',
           UNCHANGED <<reqNet, fwdNet, dirVars>>,
           \/ L1_IS_D_Data(c, m)
           \/ L1_Data_No_Acks(c, m)
           \/ L1_Data_Ack_Cnt_Last(c, m)
           \/ L1_Data_Ack_Cnt(c, m)
           \/ L1_Inv_Ack(c, m)
           \/ L1_Inv_Ack_all(c, m)
    PROVE  AllKeep
<1>1. /\ \A b \in Addrs : SameReq(b) /\ SameFwd(b) /\ SameDir(b)
      /\ ReqChannels' /\ FwdChannels'
    BY SameReqNet, SameFwdNet, DirStands DEF MSIInv, Channels
<1>2. BlockTypes(a) /\ BlockInv(a) /\ CacheTypeOK /\ entry[c][a] \in Entry /\ tbe[c][a] \in TBE
    BY BlockTypesHold DEF MSIInv, TypeOK, CacheTypeOK
<1>3. /\ u_writeDataToCache(entry[c][a], m).data = m.data
      /\ sx_store_hit(u_writeDataToCache(entry[c][a], m)).data = StoreInto(m.data)
      /\ sx_store_hit(entry[c][a]).data = StoreInto(entry[c][a].data)
      /\ q_updateAckCount(tbe[c][a], m).pendingAcks = tbe[c][a].pendingAcks - m.acks
      /\ w_deallocateTBE.pendingAcks = 0
    BY <1>2 DEF u_writeDataToCache, sx_store_hit, q_updateAckCount, w_deallocateTBE, NoTBE, Entry, TBE
<1>4. ASSUME NEW s, NEW e, NEW t, setState(c, a, s, e, t)
      PROVE  /\ Moves(c, a, s)
             /\ OthersTbe(c, a) /\ tbe'[c][a] = t
             /\ OthersEntry(c, a) /\ entry'[c][a] = e
             /\ s = cst[c][a] => SameCst(a)
             /\ e = entry[c][a] => SameEntry(a)
             /\ \A b \in Addrs \ {a} : CacheStill(b)
    BY <1>2, <1>4, CacheFrame
<1>5. ASSUME BlockInv(a)', \A b \in Addrs \ {a} : CacheStill(b) /\ written'[b] = written[b]
      PROVE  AllKeep
    BY <1>1, <1>5, OthersKeep DEF NetStill, Channels
\* a store completes, by the data or by the last acknowledgement
<1>6. ASSUME NEW e,
             \/ /\ cst[c][a] \in {"IM_AD", "SM_AD"} /\ m.type \in DataType
                /\ m.type = "DATA_FROM_DIR" => m.acks = 0 \/ tbe[c][a].pendingAcks - m.acks = 0
                /\ e.data = StoreInto(m.data)
             \/ /\ cst[c][a] \in {"IM_A", "SM_A"} /\ m.type = "ACK"
                /\ tbe[c][a].pendingAcks - m.acks = 0
                /\ e.data = StoreInto(entry[c][a].data),
             setState(c, a, "M", e, w_deallocateTBE), StoreDone(a)
      PROVE  AllKeep
    <2>1. /\ Moves(c, a, "M") /\ OthersTbe(c, a) /\ tbe'[c][a].pendingAcks = 0
          /\ OthersEntry(c, a) /\ entry'[c][a] = e
          /\ \A b \in Addrs \ {a} : CacheStill(b)
        BY <1>3, <1>4, <1>6
    <2>2. /\ written'[a] = StoreInto(written[a])
          /\ \A b \in Addrs \ {a} : written'[b] = written[b]
        BY <1>2, <1>6, StoreFrame
    <2>3. e.data = StoreInto(written[a])
        <3>1. CASE m.type \in DataType
            BY <1>2, <1>6, <3>1 DEF BlockInv, Values, DataType
        <3>2. CASE m.type = "ACK"
            BY <1>2, <1>6, <3>2 DEF BlockInv, Values, Valid, Readable, DataType
        <3> QED BY <1>6, <3>1, <3>2
    <2>4. BlockInv(a)'
        BY <1>1, <1>2, <1>6, <2>1, <2>2, <2>3, WriteKeeps
    <2> QED BY <1>5, <2>1, <2>2, <2>4
<1>7. CASE L1_IS_D_Data(c, m)
    <2>1. /\ cst[c][a] = "IS_D" /\ m.type \in DataType /\ written' = written
          /\ setState(c, a, "S", u_writeDataToCache(entry[c][a], m), w_deallocateTBE)
        BY <1>7, ResponseEventType DEF L1_IS_D_Data, ResponseTrigger, DataType
    <2>2. /\ Moves(c, a, "S") /\ OthersTbe(c, a) /\ tbe'[c][a].pendingAcks = 0
          /\ OthersEntry(c, a) /\ entry'[c][a].data = m.data
          /\ \A b \in Addrs \ {a} : CacheStill(b)
        BY <1>3, <1>4, <2>1
    <2>3. BlockInv(a)'
        BY <1>1, <1>2, <2>1, <2>2, LoadKeeps
    <2> QED BY <1>5, <2>1, <2>2, <2>3
<1>8. CASE L1_Data_No_Acks(c, m)
    <2>1. /\ cst[c][a] \in {"IM_AD", "SM_AD"} /\ m.type \in DataType
          /\ m.type = "DATA_FROM_DIR" => m.acks = 0
          /\ setState(c, a, "M", sx_store_hit(u_writeDataToCache(entry[c][a], m)), w_deallocateTBE)
          /\ StoreDone(a)
        BY <1>8, ResponseEventType DEF L1_Data_No_Acks, ResponseTrigger, DataType
    <2> QED BY <1>3, <1>6, <2>1
<1>9. CASE L1_Data_Ack_Cnt_Last(c, m)
    <2>1. /\ cst[c][a] \in {"IM_AD", "SM_AD"} /\ m.type \in DataType
          /\ tbe[c][a].pendingAcks - m.acks = 0
          /\ setState(c, a, "M", sx_store_hit(u_writeDataToCache(entry[c][a], m)), w_deallocateTBE)
          /\ StoreDone(a)
        BY <1>9, ResponseEventType DEF L1_Data_Ack_Cnt_Last, ResponseTrigger, DataType
    <2> QED BY <1>3, <1>6, <2>1
<1>10. CASE L1_Data_Ack_Cnt(c, m)
    <2> DEFINE s == IF cst[c][a] = "IM_AD" THEN "IM_A" ELSE "SM_A"
    <2>1. /\ cst[c][a] \in {"IM_AD", "SM_AD"} /\ m.type = "DATA_FROM_DIR" /\ written' = written
          /\ setState(c, a, s, u_writeDataToCache(entry[c][a], m), q_updateAckCount(tbe[c][a], m))
        BY <1>10, ResponseEventType DEF L1_Data_Ack_Cnt, ResponseTrigger
    <2>2. <<cst[c][a], s>> \in {<<"IM_AD", "IM_A">>, <<"SM_AD", "SM_A">>}
        BY <2>1
    <2> HIDE DEF s
    <2>3. /\ Moves(c, a, s)
          /\ OthersTbe(c, a) /\ tbe'[c][a].pendingAcks = tbe[c][a].pendingAcks - m.acks
          /\ OthersEntry(c, a) /\ entry'[c][a].data = m.data
          /\ \A b \in Addrs \ {a} : CacheStill(b)
        BY <1>3, <1>4, <2>1
    <2>4. BlockInv(a)'
        BY <1>1, <1>2, <2>1, <2>2, <2>3, DataCountsKeeps
    <2> QED BY <1>5, <2>1, <2>3, <2>4
<1>11. CASE L1_Inv_Ack(c, m)
    <2>1. /\ cst[c][a] \in {"IM_AD", "IM_A", "SM_AD", "SM_A"} /\ m.type = "ACK"
          /\ written' = written
          /\ setState(c, a, cst[c][a], entry[c][a], q_updateAckCount(tbe[c][a], m))
        BY <1>11, ResponseEventType DEF L1_Inv_Ack, ResponseTrigger
    <2>2. /\ SameCst(a) /\ SameEntry(a)
          /\ OthersTbe(c, a) /\ tbe'[c][a].pendingAcks = tbe[c][a].pendingAcks - m.acks
          /\ \A b \in Addrs \ {a} : CacheStill(b)
        BY <1>3, <1>4, <2>1
    <2>3. BlockInv(a)'
        BY <1>1, <1>2, <2>1, <2>2, AckCountsKeeps
    <2> QED BY <1>5, <2>1, <2>2, <2>3
<1>12. CASE L1_Inv_Ack_all(c, m)
    <2>1. /\ cst[c][a] \in {"IM_A", "SM_A"} /\ m.type = "ACK"
          /\ tbe[c][a].pendingAcks - m.acks = 0
          /\ setState(c, a, "M", sx_store_hit(entry[c][a]), w_deallocateTBE)
          /\ StoreDone(a)
        BY <1>12, ResponseEventType DEF L1_Inv_Ack_all, ResponseTrigger
    <2> QED BY <1>3, <1>6, <2>1
<1> QED BY <1>7, <1>8, <1>9, <1>10, <1>11, <1>12

\* Every transition on responses keeps the invariant
LEMMA L1ResponseKeeps ==
    ASSUME MSIInv, DirBooks, NEW c \in Caches, NEW n \in Nodes, L1ResponseStep(c, n)
    PROVE  AllKeep
<1> PICK m : m = Head(rspNet[n][c])
    OBVIOUS
<1>1. /\ m.addr \in Addrs /\ m \in Rsp(n, c, m.addr)
      /\ Hears(n, c, m.addr, m)
      /\ \A b \in Addrs \ {m.addr} : SameRsp(b)
      /\ RspChannels'
    <2>1. c \in Nodes
        BY DEF Nodes
    <2> QED BY <2>1, PopRsp DEF MSIInv, TypeOK, Channels, L1ResponseStep, L1Response
<1>2. /\ UNCHANGED <<reqNet, fwdNet, dirVars>>
      /\ \/ L1_IS_D_Data(c, m)
         \/ L1_Data_No_Acks(c, m)
         \/ L1_Data_Ack_Cnt_Last(c, m)
         \/ L1_Data_Ack_Cnt(c, m)
         \/ L1_Inv_Ack(c, m)
         \/ L1_Inv_Ack_all(c, m)
    BY DEF L1ResponseStep, L1Response
<1> QED BY <1>1, <1>2, ResponseStep

-----------------------------------------------------------------------------
(* The directory takes a request.                                          *)

\* A forwarded message to one cache is a multicast to the set of that cache
LEMMA SentTo ==
    ASSUME NetTypeOK, NEW d \in Dirs, NEW c \in Caches, NEW w, fwdNet' = Send(fwdNet, d, c, w)
    PROVE  \A i \in Dirs, k \in Caches :
               fwdNet'[i][k] = IF i = d /\ k \in {c} THEN Append(fwdNet[i][k], w)
                               ELSE fwdNet[i][k]
BY DEF NetTypeOK, Send

\* A multicast puts one copy at the end of each channel of its destinations
LEMMA SentToAll ==
    ASSUME NetTypeOK, NEW d \in Dirs, NEW D, NEW w, fwdNet' = Multicast(fwdNet, d, D, w)
    PROVE  \A i \in Dirs, k \in Caches :
               fwdNet'[i][k] = IF i = d /\ k \in D THEN Append(fwdNet[i][k], w)
                               ELSE fwdNet[i][k]
BY DEF NetTypeOK, Multicast

(* Who is in the directory's books has not had a writeback acknowledged. *)
LEMMA RecordedNotAcked ==
    ASSUME MSIInv, DirBooks, NEW a \in Addrs, NEW k \in Caches, k \in sharers[a] \union owner[a]
    PROVE  ~Acked(k, a)
<1> SUFFICES ASSUME Acked(k, a) PROVE FALSE
    OBVIOUS
<1>1. BlockInv(a)
    BY DEF MSIInv
<1>2. ~Requests(k, a) /\ cst[k][a] \in {"MI_A", "SI_A", "II_A"}
    BY <1>1 DEF BlockInv, OnePlace, PlaceFits
<1>3. Left(k, a)
    BY <1>1, <1>2 DEF BlockInv, RecordFits, Record
<1> QED BY <1>3 DEF Left

\* The transitions of I on GETS and GETM: memory is asked for the block
LEMMA FetchStep ==
    ASSUME MSIInv, DirBooks, NEW c \in Caches, NEW a \in Addrs, NEW m \in Req(c, a), m.addr = a,
           Served(c, a), \A b \in Addrs \ {a} : SameReq(b), ReqChannels',
           dst[a] = "I", NEW s, NEW sh, NEW ow, NEW busy,
           \/ m.type = "GETS" /\ s = "IS_D" /\ sh = sharers[a] \union {c} /\ ow = owner[a]
           \/ m.type = "GETM" /\ s = "IM_D" /\ sh = sharers[a] /\ ow = {c},
           setDirState(a, s, sh, ow, busy), memq' = qf_queueMemoryFetchRequest(c, a),
           UNCHANGED <<dblk, fwdNet, rspNet, cacheVars>>
    PROVE  AllKeep
<1>1. BlockTypes(a) /\ BlockInv(a) /\ DirTypeOK
    BY BlockTypesHold DEF MSIInv, TypeOK
<1>2. /\ \A b \in Addrs : SameFwd(b) /\ SameRsp(b)
      /\ FwdChannels' /\ RspChannels'
    BY SameFwdNet, SameRspNet DEF MSIInv, Channels
<1>3. \A b \in Addrs : CacheStill(b) /\ written'[b] = written[b]
    BY CachesStand
<1> DEFINE mm == [type |-> "MEMORY_READ", addr |-> a, req |-> c, data |-> dblk[a]]
<1>4. mm.type = "MEMORY_READ" /\ mm.addr = a /\ mm.req = c /\ mm.data = dblk[a]
    OBVIOUS
<1>5. memq' = memq \union {mm}
    BY DEF qf_queueMemoryFetchRequest
<1> HIDE DEF mm
<1>6. Mem(a)' = Mem(a) \union {mm} /\ \A b \in Addrs \ {a} : Mem(b)' = Mem(b)
    BY <1>4, <1>5 DEF Mem
<1>7. /\ dst'[a] = s /\ sharers'[a] = sh /\ owner'[a] = ow
      /\ \A b \in Addrs \ {a} : SameDir(b)
    <2>1. /\ dst'[a] = s /\ sharers'[a] = sh /\ owner'[a] = ow
          /\ \A b \in Addrs \ {a} : dst'[b] = dst[b] /\ SameBooks(b)
        BY <1>1, DirFrame
    <2> QED BY <1>6, <2>1 DEF SameDir
<1>8. BlockInv(a)'
    BY <1>1, <1>2, <1>3, <1>4, <1>6, <1>7, FetchKeeps DEF CacheStill
<1> QED BY <1>2, <1>3, <1>7, <1>8, OthersKeep DEF NetStill, Channels

\* The transitions that only acknowledge a PUT, and may remove a sharer
LEMMA PutStep ==
    ASSUME MSIInv, DirBooks, NEW c \in Caches, NEW a \in Addrs, NEW m \in Req(c, a), m.addr = a,
           Served(c, a), \A b \in Addrs \ {a} : SameReq(b), ReqChannels',
           m.type \in {"PUTS", "PUTM"}, m.type = "PUTM" => c \notin owner[a],
           dst'[a] = dst[a] \/ (dst[a] = "S" /\ dst'[a] = "I"),
           sharers'[a] = sharers[a] \ {c}, owner'[a] = owner[a],
           \A b \in Addrs \ {a} : dst'[b] = dst[b] /\ SameBooks(b),
           fwdNet' = a_sendWriteBackAck(Home(a), c, a),
           UNCHANGED <<dblk, memq, rspNet, cacheVars>>
    PROVE  AllKeep
<1>1. BlockTypes(a) /\ BlockInv(a) /\ NetTypeOK /\ Home(a) \in Dirs /\ Home(a) \in Nodes
    BY BlockTypesHold, HomeNode DEF MSIInv, TypeOK
<1>2. /\ \A b \in Addrs : SameRsp(b)
      /\ RspChannels'
    BY SameRspNet DEF MSIInv, Channels
<1>3. \A b \in Addrs : CacheStill(b) /\ written'[b] = written[b]
    BY CachesStand
<1> DEFINE w == [type |-> "WB_ACK", addr |-> a, req |-> Home(a)]
<1>4. w \in ForwardMsg /\ w.type = "WB_ACK" /\ w.addr = a
    BY <1>1 DEF ForwardMsg
<1>5. fwdNet' = Send(fwdNet, Home(a), c, w)
    BY DEF a_sendWriteBackAck
<1> HIDE DEF w
<1>6. w \notin Fwd(c, a) /\ ~Acked(c, a)
    <2>1. ~Acked(c, a)
        BY <1>1 DEF BlockInv, OnePlace, Requests
    <2> QED BY <1>4, <2>1 DEF Acked
<1>7. Forwards({c}, a, w) /\ (\A b \in Addrs \ {a} : SameFwd(b)) /\ FwdChannels'
    <2>1. /\ FwdChannels /\ {c} \in SUBSET Caches
          /\ \A i \in Dirs, k \in Caches :
                 fwdNet'[i][k] = IF i = Home(a) /\ k \in {c} THEN Append(fwdNet[i][k], w)
                                 ELSE fwdNet[i][k]
        BY <1>1, <1>5, SentTo DEF MSIInv, Channels
    <2>2. \A k \in {c} : w \notin Fwd(k, a) /\ ~Acked(k, a)
        BY <1>6
    <2> QED BY <1>1, <1>4, <2>1, <2>2, SendFwd
<1>8. /\ dblk'[a] = dblk[a] /\ Mem(a)' = Mem(a)
      /\ \A b \in Addrs \ {a} : SameDir(b)
    BY DEF SameDir, Mem
<1>9. BlockInv(a)'
    BY <1>1, <1>2, <1>3, <1>4, <1>7, <1>8, PutKeeps DEF CacheStill
<1> QED BY <1>2, <1>3, <1>7, <1>8, <1>9, OthersKeep DEF NetStill, Channels

\* The transition of S on GETS: the data is sent, and a sharer added
LEMMA ShareStep ==
    ASSUME MSIInv, DirBooks, NEW c \in Caches, NEW a \in Addrs, NEW m \in Req(c, a), m.addr = a,
           Served(c, a), \A b \in Addrs \ {a} : SameReq(b), ReqChannels',
           m.type = "GETS", dst[a] = "S",
           rspNet' = ds_sendSharedData(Home(a), c, a),
           setDirState(a, "S", sharers[a] \union {c}, owner[a], dtbe[a]),
           UNCHANGED <<dblk, memq, fwdNet, cacheVars>>
    PROVE  AllKeep
<1>1. /\ BlockTypes(a) /\ BlockInv(a) /\ NetTypeOK /\ DirTypeOK
      /\ Home(a) \in Dirs /\ Home(a) \in Nodes
    BY BlockTypesHold, HomeNode DEF MSIInv, TypeOK
<1>2. /\ \A b \in Addrs : SameFwd(b)
      /\ FwdChannels'
    BY SameFwdNet DEF MSIInv, Channels
<1>3. \A b \in Addrs : CacheStill(b) /\ written'[b] = written[b]
    BY CachesStand
<1> DEFINE r == DataFromDir(a, dblk[a], 0)
<1>4. /\ r \in ResponseMsg /\ r.type = "DATA_FROM_DIR" /\ r.addr = a
      /\ r.acks = 0 /\ r.data = dblk[a]
    BY <1>1 DEF DataFromDir, ResponseMsg, DirTypeOK
<1>5. rspNet' = Send(rspNet, Home(a), c, r)
    BY DEF ds_sendSharedData
<1> HIDE DEF r
<1>6. r \notin Rsp(Home(a), c, a)
    <2>1. ~DataFor(c, a)
        BY <1>1 DEF BlockInv, OnePlace, Requests
    <2> QED BY <1>1, <1>4, <2>1 DEF DataFor, DataType
<1>7. /\ Responds(Home(a), c, a, r) /\ (\A b \in Addrs \ {a} : SameRsp(b))
      /\ RspChannels'
    BY <1>1, <1>4, <1>5, <1>6, SendRsp DEF Fitting, MSIInv, Channels
<1>8. /\ dst'[a] = "S" /\ sharers'[a] = sharers[a] \union {c} /\ owner'[a] = owner[a]
      /\ dblk'[a] = dblk[a] /\ Mem(a)' = Mem(a)
      /\ \A b \in Addrs \ {a} : SameDir(b)
    BY <1>1, DirFrame DEF SameDir, Mem
<1>9. BlockInv(a)'
    BY <1>1, <1>2, <1>3, <1>4, <1>7, <1>8, ShareKeeps DEF CacheStill
<1> QED BY <1>2, <1>3, <1>7, <1>8, <1>9, OthersKeep DEF NetStill, Channels

\* The transition of S on GETM: the data is sent, the sharers invalidated
LEMMA GrantStep ==
    ASSUME MSIInv, DirBooks, NEW c \in Caches, NEW a \in Addrs, NEW m \in Req(c, a), m.addr = a,
           Served(c, a), \A b \in Addrs \ {a} : SameReq(b), ReqChannels',
           m.type = "GETM", dst[a] = "S",
           rspNet' = ds2_sendSharedData(Home(a), c, a),
           fwdNet' = fwm_sendFwdInvToSharersMinusRequestor(Home(a), c, a),
           setDirState(a, "M", {}, {c}, dtbe[a]),
           UNCHANGED <<dblk, memq, cacheVars>>
    PROVE  AllKeep
<1>1. /\ BlockTypes(a) /\ BlockInv(a) /\ NetTypeOK /\ DirTypeOK
      /\ Home(a) \in Dirs /\ Home(a) \in Nodes /\ c \in Nodes /\ sharers[a] \subseteq Caches
    BY BlockTypesHold, HomeNode DEF MSIInv, TypeOK, DirTypeOK
<1>2. \A b \in Addrs : CacheStill(b) /\ written'[b] = written[b]
    BY CachesStand
<1> DEFINE acks == IF c \in sharers[a] THEN 1 - Cardinality(sharers[a])
                   ELSE 0 - Cardinality(sharers[a])
           r == DataFromDir(a, dblk[a], acks)
           w == [type |-> "INV", addr |-> a, req |-> c]
<1>3. acks = 0 - Cardinality(sharers[a] \ {c}) /\ acks \in Int
    <2>1. IsFiniteSet(sharers[a])
        BY <1>1, FS_Subset DEF BlockTypes
    <2>2. Cardinality(sharers[a]) \in Nat
        BY <2>1, FS_CardinalityType
    <2>3. CASE c \in sharers[a]
        <3>1. Cardinality(sharers[a] \ {c}) = Cardinality(sharers[a]) - 1
            BY <2>1, <2>3, FS_RemoveElement
        <3> QED BY <2>2, <2>3, <3>1
    <2>4. CASE c \notin sharers[a]
        <3>1. sharers[a] \ {c} = sharers[a]
            BY <2>4
        <3>2. Cardinality(sharers[a] \ {c}) = Cardinality(sharers[a])
            BY <3>1, Zenon
        <3> QED BY <2>2, <2>4, <3>2
    <2> QED BY <2>3, <2>4
<1>4. rspNet' = Send(rspNet, Home(a), c, r)
    BY DEF ds2_sendSharedData
<1>5. fwdNet' = Multicast(fwdNet, Home(a), sharers[a] \ {c}, w)
    BY DEF fwm_sendFwdInvToSharersMinusRequestor
<1> HIDE DEF acks
<1>6. /\ r \in ResponseMsg /\ r.type = "DATA_FROM_DIR" /\ r.addr = a
      /\ r.acks = acks /\ r.data = dblk[a]
    BY <1>1, <1>3 DEF DataFromDir, ResponseMsg, DirTypeOK
<1>7. w \in ForwardMsg /\ w.type = "INV" /\ w.addr = a /\ w.req = c
    BY <1>1 DEF ForwardMsg
<1> HIDE DEF r, w
<1>8. r \notin Rsp(Home(a), c, a)
    <2>1. ~DataFor(c, a)
        BY <1>1 DEF BlockInv, OnePlace, Requests
    <2> QED BY <1>1, <1>6, <2>1 DEF DataFor, DataType
<1>9. /\ Responds(Home(a), c, a, r) /\ (\A b \in Addrs \ {a} : SameRsp(b))
      /\ RspChannels'
    BY <1>1, <1>4, <1>6, <1>8, SendRsp DEF Fitting, MSIInv, Channels
<1>10. Forwards(sharers[a] \ {c}, a, w) /\ (\A b \in Addrs \ {a} : SameFwd(b)) /\ FwdChannels'
    <2> DEFINE D == sharers[a] \ {c}
    <2>1. FwdChannels /\ D \in SUBSET Caches /\ fwdNet' = Multicast(fwdNet, Home(a), D, w)
        BY <1>1, <1>5 DEF MSIInv, Channels
    <2>2. \A k \in D : w \notin Fwd(k, a) /\ ~Acked(k, a)
        <3>1. \A k \in Caches : ~Invalidated(k, a)
            BY <1>1, NoHolder
        <3>2. \A k \in D : ~Acked(k, a)
            BY <2>1, RecordedNotAcked
        <3> QED BY <1>7, <2>1, <3>1, <3>2 DEF Invalidated
    <2> HIDE DEF D
    <2>3. \A i \in Dirs, k \in Caches :
              fwdNet'[i][k] = IF i = Home(a) /\ k \in D THEN Append(fwdNet[i][k], w)
                              ELSE fwdNet[i][k]
        BY <1>1, <2>1, SentToAll
    <2>4. Forwards(D, a, w) /\ (\A b \in Addrs \ {a} : SameFwd(b)) /\ FwdChannels'
        BY <1>1, <1>7, <2>1, <2>2, <2>3, SendFwd
    <2> QED BY <2>4 DEF D
<1>11. /\ dst'[a] = "M" /\ sharers'[a] = {} /\ owner'[a] = {c}
       /\ dblk'[a] = dblk[a] /\ Mem(a)' = Mem(a)
       /\ \A b \in Addrs \ {a} : SameDir(b)
    BY <1>1, DirFrame DEF SameDir, Mem
<1>12. BlockInv(a)'
    BY <1>1, <1>2, <1>3, <1>6, <1>7, <1>9, <1>10, <1>11, GrantKeeps DEF CacheStill
<1> QED BY <1>2, <1>9, <1>10, <1>11, <1>12, OthersKeep DEF NetStill, Channels

\* The transitions of M on GETS and GETM: the owner is told
LEMMA DirForwardStep ==
    ASSUME MSIInv, DirBooks, NEW c \in Caches, NEW a \in Addrs, NEW m \in Req(c, a), m.addr = a,
           Served(c, a), \A b \in Addrs \ {a} : SameReq(b), ReqChannels',
           dst[a] = "M", NEW s, NEW sh, NEW ow, NEW busy,
           \/ /\ m.type = "GETS" /\ s = "MS_D"
              /\ sh = (sharers[a] \union {c}) \union owner[a] /\ ow = {}
           \/ /\ m.type = "GETM" /\ s = "M" /\ sh = sharers[a] /\ ow = {c},
           setDirState(a, s, sh, ow, busy),
           fwdNet' = f_forwardRequest(Home(a), c, m),
           UNCHANGED <<dblk, memq, rspNet, cacheVars>>
    PROVE  AllKeep
<1>1. /\ BlockTypes(a) /\ BlockInv(a) /\ NetTypeOK /\ DirTypeOK
      /\ Home(a) \in Dirs /\ c \in Nodes /\ owner[a] \in SUBSET Caches
    BY BlockTypesHold, HomeNode DEF MSIInv, TypeOK, DirTypeOK
<1>2. /\ \A b \in Addrs : SameRsp(b)
      /\ RspChannels'
    BY SameRspNet DEF MSIInv, Channels
<1>3. \A b \in Addrs : CacheStill(b) /\ written'[b] = written[b]
    BY CachesStand
<1> DEFINE w == [type |-> m.type, addr |-> a, req |-> c]
<1>4. fwdNet' = Multicast(fwdNet, Home(a), owner[a], w)
    BY DEF f_forwardRequest
<1>5. w \in ForwardMsg /\ w.type = m.type /\ w.addr = a /\ w.req = c
    BY <1>1 DEF ForwardMsg
<1> HIDE DEF w
<1>6. \A k \in owner[a] : w \notin Fwd(k, a) /\ ~Acked(k, a)
    <2>1. ~GetsFor(c, a) /\ ~GetmFor(c, a)
        BY <1>1 DEF BlockInv, OnePlace, Requests
    <2>2. \A k \in owner[a] : w \notin Fwd(k, a)
        BY <1>1, <1>5, <2>1 DEF GetsFor, GetmFor
    <2>3. \A k \in owner[a] : ~Acked(k, a)
        BY <1>1, RecordedNotAcked
    <2> QED BY <2>2, <2>3
<1>7. Forwards(owner[a], a, w) /\ (\A b \in Addrs \ {a} : SameFwd(b)) /\ FwdChannels'
    <2> DEFINE D == owner[a]
    <2>1. /\ FwdChannels /\ D \in SUBSET Caches
          /\ \A i \in Dirs, k \in Caches :
                 fwdNet'[i][k] = IF i = Home(a) /\ k \in D THEN Append(fwdNet[i][k], w)
                                 ELSE fwdNet[i][k]
          /\ \A k \in D : w \notin Fwd(k, a) /\ ~Acked(k, a)
        BY <1>1, <1>4, <1>6, SentToAll DEF MSIInv, Channels
    <2> HIDE DEF D
    <2>2. Forwards(D, a, w) /\ (\A b \in Addrs \ {a} : SameFwd(b)) /\ FwdChannels'
        BY <1>1, <1>5, <2>1, SendFwd
    <2> QED BY <2>2 DEF D
<1>8. /\ dst'[a] = s /\ sharers'[a] = sh /\ owner'[a] = ow
      /\ dblk'[a] = dblk[a] /\ Mem(a)' = Mem(a)
      /\ \A b \in Addrs \ {a} : SameDir(b)
    BY <1>1, DirFrame DEF SameDir, Mem
<1>9. BlockInv(a)'
    BY <1>1, <1>2, <1>3, <1>5, <1>7, <1>8, ForwardKeeps DEF CacheStill
<1> QED BY <1>2, <1>3, <1>7, <1>8, <1>9, OthersKeep DEF NetStill, Channels

\* The transition of M on PUTM_Owner: the contents go to memory
LEMMA OwnerPutStep ==
    ASSUME MSIInv, DirBooks, NEW c \in Caches, NEW a \in Addrs, NEW m \in Req(c, a), m.addr = a,
           Served(c, a), \A b \in Addrs \ {a} : SameReq(b), ReqChannels',
           m.type = "PUTM", dst[a] = "M", c \in owner[a], NEW busy,
           setDirState(a, "MI_A", sharers[a], {}, busy),
           dblk' = [dblk EXCEPT ![a] = m.data], memq' = lq_queueMemoryWBRequest(c, m),
           UNCHANGED <<fwdNet, rspNet, cacheVars>>
    PROVE  AllKeep
<1>1. BlockTypes(a) /\ BlockInv(a) /\ DirTypeOK
    BY BlockTypesHold DEF MSIInv, TypeOK
<1>2. /\ \A b \in Addrs : SameFwd(b) /\ SameRsp(b)
      /\ FwdChannels' /\ RspChannels'
    BY SameFwdNet, SameRspNet DEF MSIInv, Channels
<1>3. \A b \in Addrs : CacheStill(b) /\ written'[b] = written[b]
    BY CachesStand
<1> DEFINE mm == [type |-> "MEMORY_WB", addr |-> m.addr, req |-> c, data |-> m.data]
<1>4. mm.type = "MEMORY_WB" /\ mm.addr = a /\ mm.req = c
    OBVIOUS
<1>5. memq' = memq \union {mm}
    BY DEF lq_queueMemoryWBRequest
<1> HIDE DEF mm
<1>6. Mem(a)' = Mem(a) \union {mm} /\ \A b \in Addrs \ {a} : Mem(b)' = Mem(b)
    BY <1>4, <1>5 DEF Mem
<1>7. dblk'[a] = m.data /\ \A b \in Addrs \ {a} : dblk'[b] = dblk[b]
    BY <1>1 DEF DirTypeOK
<1>8. /\ dst'[a] = "MI_A" /\ sharers'[a] = sharers[a] /\ owner'[a] = {}
      /\ \A b \in Addrs \ {a} : SameDir(b)
    BY <1>1, <1>6, <1>7, DirFrame DEF SameDir
<1>9. BlockInv(a)'
    BY <1>1, <1>2, <1>3, <1>4, <1>6, <1>7, <1>8, OwnerPutKeeps DEF CacheStill
<1> QED BY <1>2, <1>3, <1>8, <1>9, OthersKeep DEF NetStill, Channels

\* What an event says of the request
LEMMA RequestEventType ==
    ASSUME NEW c, NEW m \in RequestMsg
    PROVE  /\ RequestEvent(c, m) = "GETS" => m.type = "GETS"
           /\ RequestEvent(c, m) = "GETM" => m.type = "GETM"
           /\ RequestEvent(c, m) \in StalePut =>
                  m.type \in {"PUTS", "PUTM"} /\ (m.type = "PUTM" => c \notin owner[m.addr])
           /\ RequestEvent(c, m) = "PUTM_Owner" => m.type = "PUTM" /\ c \in owner[m.addr]
<1>1. m.type \in {"GETS", "GETM", "PUTS", "PUTM"}
    BY DEF RequestMsg
<1>2. CASE m.type = "PUTM"
    BY <1>2 DEF RequestEvent, StalePut
<1>3. CASE m.type = "PUTS"
    BY <1>3 DEF RequestEvent, StalePut
<1>4. CASE m.type \in {"GETS", "GETM"}
    BY <1>4 DEF RequestEvent, StalePut
<1> QED BY <1>1, <1>2, <1>3, <1>4

(* A cache whose writeback is only acknowledged is no sharer. *)
LEMMA AckedIsNoSharer ==
    ASSUME MSIInv, DirBooks, NEW c \in Caches, NEW a \in Addrs, Req(c, a) # {},
           dst[a] \in {"I", "IS_D", "IM_D", "M", "MI_A"}
    PROVE  c \notin sharers[a]
<1>1. BlockTypes(a) /\ BlockInv(a)
    BY BlockTypesHold DEF MSIInv
<1>2. CASE dst[a] \in {"I", "IM_D", "M", "MI_A"}
    BY <1>2 DEF DirBooks, Books
<1>3. CASE dst[a] = "IS_D"
    <2>1. PICK mm \in Mem(a) : TRUE
        BY <1>1, <1>3 DEF BlockInv, Waiting
    <2>2. mm.req \in Caches /\ MemFor(mm.req, a)
        BY <1>1, <1>3, <2>1 DEF BlockTypes, MemFor
    <2>3. sharers[a] = {mm.req}
        BY <1>1, <1>3, <2>2 DEF BlockInv, PlaceFits
    <2>4. ~MemFor(c, a)
        BY <1>1 DEF BlockInv, OnePlace, Requests
    <2> QED BY <2>2, <2>3, <2>4
<1> QED BY <1>2, <1>3

\* The transitions on requests, by what they are about
LEMMA RequestStep ==
    ASSUME MSIInv, DirBooks, NEW c \in Caches, NEW a \in Addrs, NEW m \in Req(c, a), m.addr = a,
           Served(c, a), \A b \in Addrs \ {a} : SameReq(b), ReqChannels', UNCHANGED cacheVars,
           \/ Dir_I_GETS(Home(a), c, m)
           \/ Dir_I_GETM(Home(a), c, m)
           \/ Dir_PutAcked(Home(a), c, m)
           \/ Dir_PutRemoved(Home(a), c, m)
           \/ Dir_S_GETS(Home(a), c, m)
           \/ Dir_S_GETM(Home(a), c, m)
           \/ Dir_S_PUTS_Last(Home(a), c, m)
           \/ Dir_M_GETS(Home(a), c, m)
           \/ Dir_M_GETM(Home(a), c, m)
           \/ Dir_M_PUTM_Owner(Home(a), c, m)
    PROVE  AllKeep
<1>1. m \in RequestMsg /\ DirTypeOK
    BY BlockTypesHold DEF MSIInv, TypeOK, BlockTypes
<1>2. CASE Dir_I_GETS(Home(a), c, m)
    <2> DEFINE sh == sharers[a] \union {c}
    <2>1. /\ dst[a] = "I" /\ m.type = "GETS"
          /\ setDirState(a, "IS_D", sh, owner[a], TRUE)
          /\ memq' = qf_queueMemoryFetchRequest(c, a) /\ UNCHANGED <<dblk, fwdNet, rspNet>>
        BY <1>1, <1>2, RequestEventType
           DEF Dir_I_GETS, RequestTrigger, ars2_addRequestorToSharers
    <2> QED BY <2>1, FetchStep
<1>3. CASE Dir_I_GETM(Home(a), c, m)
    <2>1. /\ dst[a] = "I" /\ m.type = "GETM"
          /\ setDirState(a, "IM_D", sharers[a], {c}, TRUE)
          /\ memq' = qf_queueMemoryFetchRequest(c, a) /\ UNCHANGED <<dblk, fwdNet, rspNet>>
        BY <1>1, <1>3, RequestEventType DEF Dir_I_GETM, RequestTrigger, e_ownerIsRequestor
    <2> QED BY <2>1, FetchStep
<1>4. CASE Dir_PutAcked(Home(a), c, m)
    <2>1. /\ dst[a] \in {"I", "IS_D", "IM_D", "M", "MI_A"}
          /\ m.type \in {"PUTS", "PUTM"} /\ (m.type = "PUTM" => c \notin owner[a])
          /\ fwdNet' = a_sendWriteBackAck(Home(a), c, a) /\ UNCHANGED <<dirVars, rspNet>>
        BY <1>1, <1>4, RequestEventType DEF Dir_PutAcked, RequestTrigger
    <2>2. c \notin sharers[a]
        BY <2>1, AckedIsNoSharer
    <2>3. /\ dst'[a] = dst[a] /\ sharers'[a] = sharers[a] \ {c} /\ owner'[a] = owner[a]
          /\ \A b \in Addrs \ {a} : dst'[b] = dst[b] /\ SameBooks(b)
          /\ UNCHANGED <<dblk, memq>>
        BY <2>1, <2>2 DEF dirVars, SameBooks
    <2>4. dst'[a] = dst[a] \/ (dst[a] = "S" /\ dst'[a] = "I")
        BY <2>3
    <2> QED BY <2>1, <2>3, <2>4, PutStep
<1>5. CASE Dir_PutRemoved(Home(a), c, m)
    <2>1. /\ m.type \in {"PUTS", "PUTM"} /\ (m.type = "PUTM" => c \notin owner[a])
          /\ setDirState(a, dst[a], sharers[a] \ {c}, owner[a], dtbe[a])
          /\ fwdNet' = a_sendWriteBackAck(Home(a), c, a) /\ UNCHANGED <<dblk, memq, rspNet>>
        BY <1>1, <1>5, RequestEventType
           DEF Dir_PutRemoved, RequestTrigger, kk_removeRequestSharer, StalePut
    <2>2. /\ dst'[a] = dst[a] /\ sharers'[a] = sharers[a] \ {c} /\ owner'[a] = owner[a]
          /\ \A b \in Addrs \ {a} : dst'[b] = dst[b] /\ SameBooks(b)
        BY <1>1, <2>1, DirFrame
    <2>3. dst'[a] = dst[a] \/ (dst[a] = "S" /\ dst'[a] = "I")
        BY <2>2
    <2> QED BY <2>1, <2>2, <2>3, PutStep
<1>6. CASE Dir_S_GETS(Home(a), c, m)
    <2>1. /\ dst[a] = "S" /\ m.type = "GETS"
          /\ rspNet' = ds_sendSharedData(Home(a), c, a)
          /\ setDirState(a, "S", sharers[a] \union {c}, owner[a], dtbe[a])
          /\ UNCHANGED <<dblk, memq, fwdNet>>
        BY <1>1, <1>6, RequestEventType
           DEF Dir_S_GETS, RequestTrigger, ars2_addRequestorToSharers
    <2> QED BY <2>1, ShareStep
<1>7. CASE Dir_S_GETM(Home(a), c, m)
    <2>1. /\ dst[a] = "S" /\ m.type = "GETM"
          /\ rspNet' = ds2_sendSharedData(Home(a), c, a)
          /\ fwdNet' = fwm_sendFwdInvToSharersMinusRequestor(Home(a), c, a)
          /\ setDirState(a, "M", {}, {c}, dtbe[a])
          /\ UNCHANGED <<dblk, memq>>
        BY <1>1, <1>7, RequestEventType
           DEF Dir_S_GETM, RequestTrigger, cs_clearSharers, e_ownerIsRequestor
    <2> QED BY <2>1, GrantStep
<1>8. CASE Dir_S_PUTS_Last(Home(a), c, m)
    <2>1. /\ dst[a] = "S" /\ m.type \in {"PUTS", "PUTM"} /\ (m.type = "PUTM" => c \notin owner[a])
          /\ setDirState(a, "I", sharers[a] \ {c}, owner[a], dtbe[a])
          /\ fwdNet' = a_sendWriteBackAck(Home(a), c, a) /\ UNCHANGED <<dblk, memq, rspNet>>
        BY <1>1, <1>8, RequestEventType
           DEF Dir_S_PUTS_Last, RequestTrigger, kk_removeRequestSharer, StalePut
    <2>2. /\ dst'[a] = "I" /\ sharers'[a] = sharers[a] \ {c} /\ owner'[a] = owner[a]
          /\ \A b \in Addrs \ {a} : dst'[b] = dst[b] /\ SameBooks(b)
        BY <1>1, <2>1, DirFrame
    <2> QED BY <2>1, <2>2, PutStep
<1>9. CASE Dir_M_GETS(Home(a), c, m)
    <2>1. /\ dst[a] = "M" /\ m.type = "GETS"
          /\ setDirState(a, "MS_D", (sharers[a] \union {c}) \union owner[a], {}, TRUE)
          /\ fwdNet' = f_forwardRequest(Home(a), c, m) /\ UNCHANGED <<dblk, memq, rspNet>>
        BY <1>1, <1>9, RequestEventType
           DEF Dir_M_GETS, RequestTrigger, ars2_addRequestorToSharers, aos_addOwnertoSharers,
               c_clearOwner
    <2> QED BY <2>1, DirForwardStep
<1>10. CASE Dir_M_GETM(Home(a), c, m)
    <2>1. /\ dst[a] = "M" /\ m.type = "GETM"
          /\ setDirState(a, "M", sharers[a], {c}, dtbe[a])
          /\ fwdNet' = f_forwardRequest(Home(a), c, m) /\ UNCHANGED <<dblk, memq, rspNet>>
        BY <1>1, <1>10, RequestEventType DEF Dir_M_GETM, RequestTrigger, e_ownerIsRequestor
    <2> QED BY <2>1, DirForwardStep
<1>11. CASE Dir_M_PUTM_Owner(Home(a), c, m)
    <2>1. /\ dst[a] = "M" /\ m.type = "PUTM" /\ c \in owner[a]
          /\ setDirState(a, "MI_A", sharers[a], {}, TRUE)
          /\ dblk' = [dblk EXCEPT ![a] = m.data] /\ memq' = lq_queueMemoryWBRequest(c, m)
          /\ UNCHANGED <<fwdNet, rspNet>>
        BY <1>1, <1>11, RequestEventType DEF Dir_M_PUTM_Owner, RequestTrigger, c_clearOwner
    <2> QED BY <2>1, OwnerPutStep
<1> QED BY <1>2, <1>3, <1>4, <1>5, <1>6, <1>7, <1>8, <1>9, <1>10, <1>11

\* Every transition on requests keeps the invariant
LEMMA DirRequestKeeps ==
    ASSUME MSIInv, DirBooks, NEW d \in Dirs, NEW c \in Caches, DirRequestStep(d, c)
    PROVE  AllKeep
<1> PICK m : m = Head(reqNet[c][d])
    OBVIOUS
<1>1. /\ m.addr \in Addrs /\ Home(m.addr) = d /\ m \in Req(c, m.addr)
      /\ OneRequest(m.addr) => Served(c, m.addr)
      /\ \A b \in Addrs \ {m.addr} : SameReq(b)
      /\ ReqChannels'
    BY PopReq DEF MSIInv, TypeOK, Channels, DirRequestStep, DirRequest
<1>2. Served(c, m.addr)
    BY <1>1 DEF MSIInv, BlockInv
<1>3. /\ UNCHANGED cacheVars
      /\ \/ Dir_I_GETS(d, c, m)
         \/ Dir_I_GETM(d, c, m)
         \/ Dir_PutAcked(d, c, m)
         \/ Dir_PutRemoved(d, c, m)
         \/ Dir_S_GETS(d, c, m)
         \/ Dir_S_GETM(d, c, m)
         \/ Dir_S_PUTS_Last(d, c, m)
         \/ Dir_M_GETS(d, c, m)
         \/ Dir_M_GETM(d, c, m)
         \/ Dir_M_PUTM_Owner(d, c, m)
    BY DEF DirRequestStep, DirRequest
<1> QED BY <1>1, <1>2, <1>3, RequestStep

-----------------------------------------------------------------------------
(* The directory hears from a downgraded owner, or from memory.            *)

\* The transition of MS_D on Data: the owner has returned the contents
LEMMA ReturnStep ==
    ASSUME MSIInv, DirBooks, NEW c \in Caches, NEW a \in Addrs,
           NEW m \in Rsp(c, Home(a), a), m.addr = a, Hears(c, Home(a), a, m),
           \A b \in Addrs \ {a} : SameRsp(b), RspChannels',
           dst[a] = "MS_D", dst' = [dst EXCEPT ![a] = "MS_A"],
           dblk' = [dblk EXCEPT ![a] = m.data], memq' = lq2_queueMemoryWBRequest(c, m),
           UNCHANGED <<sharers, owner, reqNet, fwdNet, cacheVars>>
    PROVE  AllKeep
<1>1. BlockTypes(a) /\ BlockInv(a) /\ DirTypeOK
    BY BlockTypesHold DEF MSIInv, TypeOK
<1>2. /\ \A b \in Addrs : SameReq(b) /\ SameFwd(b)
      /\ ReqChannels' /\ FwdChannels'
    BY SameReqNet, SameFwdNet DEF MSIInv, Channels
<1>3. \A b \in Addrs : CacheStill(b) /\ written'[b] = written[b]
    BY CachesStand
<1> DEFINE mm == [type |-> "MEMORY_WB", addr |-> m.addr, req |-> c, data |-> m.data]
<1>4. mm.type = "MEMORY_WB" /\ mm.addr = a
    OBVIOUS
<1>5. memq' = memq \union {mm}
    BY DEF lq2_queueMemoryWBRequest, lq_queueMemoryWBRequest
<1> HIDE DEF mm
<1>6. Mem(a)' = Mem(a) \union {mm} /\ \A b \in Addrs \ {a} : Mem(b)' = Mem(b)
    BY <1>4, <1>5 DEF Mem
<1>7. /\ dst'[a] = "MS_A" /\ dblk'[a] = m.data /\ SameBooks(a)
      /\ \A b \in Addrs \ {a} : dst'[b] = dst[b] /\ dblk'[b] = dblk[b] /\ SameBooks(b)
    BY <1>1 DEF DirTypeOK, SameBooks
<1>8. \A b \in Addrs \ {a} : SameDir(b)
    BY <1>6, <1>7 DEF SameDir
<1>9. BlockInv(a)'
    BY <1>1, <1>2, <1>3, <1>4, <1>6, <1>7, ReturnKeeps DEF CacheStill
<1> QED BY <1>2, <1>3, <1>8, <1>9, OthersKeep DEF NetStill, Channels

\* Every transition on responses to a directory keeps the invariant
LEMMA DirResponseKeeps ==
    ASSUME MSIInv, DirBooks, NEW d \in Dirs, NEW c \in Caches, DirResponseStep(d, c)
    PROVE  AllKeep
<1> PICK m : m = Head(rspNet[c][d])
    OBVIOUS
<1>1. /\ m.addr \in Addrs /\ m \in Rsp(c, d, m.addr) /\ Home(m.addr) = d
      /\ Hears(c, d, m.addr, m)
      /\ \A b \in Addrs \ {m.addr} : SameRsp(b)
      /\ RspChannels'
    <2>1. c \in Nodes /\ d \in Nodes
        BY DEF Nodes
    <2> QED BY <2>1, PopRsp DEF MSIInv, TypeOK, Channels, DirResponseStep, DirResponse
<1>2. /\ dst[m.addr] = "MS_D" /\ dst' = [dst EXCEPT ![m.addr] = "MS_A"]
      /\ dblk' = [dblk EXCEPT ![m.addr] = m.data] /\ memq' = lq2_queueMemoryWBRequest(c, m)
      /\ UNCHANGED <<sharers, owner, reqNet, fwdNet, cacheVars>>
    BY DEF DirResponseStep, DirResponse
<1> QED BY <1>1, <1>2, ReturnStep

\* Memory_Data: memory has fetched a block, and the requestor is sent it
LEMMA AnswerStep ==
    ASSUME MSIInv, DirBooks, NEW a \in Addrs, NEW mm \in memq, mm.addr = a,
           Dir_Memory_Data(Home(a), mm), memq' = memq \ {mm},
           UNCHANGED <<dblk, reqNet, cacheVars>>
    PROVE  AllKeep
<1>1. /\ BlockTypes(a) /\ BlockInv(a) /\ NetTypeOK /\ DirTypeOK /\ mm \in MemoryMsg
      /\ Home(a) \in Dirs /\ Home(a) \in Nodes
    BY BlockTypesHold, HomeNode DEF MSIInv, TypeOK, DirTypeOK
<1>2. /\ \A b \in Addrs : SameReq(b) /\ SameFwd(b)
      /\ ReqChannels' /\ FwdChannels'
    BY SameReqNet, SameFwdNet DEF MSIInv, Channels, Dir_Memory_Data
<1>3. \A b \in Addrs : CacheStill(b) /\ written'[b] = written[b]
    BY CachesStand
<1>4. mm \in Mem(a) /\ Mem(a)' = Mem(a) \ {mm} /\ \A b \in Addrs \ {a} : Mem(b)' = Mem(b)
    BY DEF Mem
<1> DEFINE s == IF dst[a] = "IS_D" THEN "S" ELSE "M"
           r == DataFromDir(a, mm.data, 0)
<1>5. /\ mm.type = "MEMORY_READ" /\ dst[a] \in {"IS_D", "IM_D"}
      /\ setDirState(a, s, sharers[a], owner[a], FALSE)
      /\ rspNet' = Send(rspNet, Home(a), mm.req, r)
    BY DEF Dir_Memory_Data, d_sendData
<1>6. /\ r \in ResponseMsg /\ r.type = "DATA_FROM_DIR" /\ r.addr = a /\ r.acks = 0
      /\ r.data = mm.data /\ mm.req \in Caches
    BY <1>1 DEF DataFromDir, ResponseMsg, MemoryMsg
<1>7. \/ dst[a] = "IS_D" /\ s = "S"
      \/ dst[a] = "IM_D" /\ s = "M"
    BY <1>5
<1> HIDE DEF r, s
<1>8. r \notin Rsp(Home(a), mm.req, a)
    <2>1. ~DataFor(mm.req, a)
        BY <1>1, <1>4, <1>5, <1>6 DEF BlockInv, OnePlace, MemFor
    <2> QED BY <1>1, <1>6, <2>1 DEF DataFor, DataType
<1>9. /\ Responds(Home(a), mm.req, a, r) /\ (\A b \in Addrs \ {a} : SameRsp(b))
      /\ RspChannels'
    BY <1>1, <1>5, <1>6, <1>8, SendRsp DEF Fitting, MSIInv, Channels
<1>10. /\ dst'[a] = s /\ SameBooks(a)
       /\ \A b \in Addrs \ {a} : dst'[b] = dst[b] /\ SameBooks(b)
    BY <1>1, <1>5 DEF setDirState, DirTypeOK, SameBooks
<1>11. \A b \in Addrs \ {a} : SameDir(b)
    BY <1>4, <1>10 DEF SameDir
<1>12. BlockInv(a)'
    BY <1>1, <1>2, <1>3, <1>4, <1>5, <1>6, <1>7, <1>9, <1>10, AnswerKeeps DEF CacheStill
<1> QED BY <1>2, <1>3, <1>9, <1>11, <1>12, OthersKeep DEF NetStill, Channels

\* Memory_Ack in MI_A: the contents are in memory, and the owner is told
LEMMA WrittenBackStep ==
    ASSUME MSIInv, DirBooks, NEW a \in Addrs, NEW mm \in memq, mm.addr = a,
           Dir_MI_A_Memory_Ack(Home(a), mm), memq' = memq \ {mm},
           UNCHANGED <<dblk, reqNet, cacheVars>>
    PROVE  AllKeep
<1>1. /\ BlockTypes(a) /\ BlockInv(a) /\ NetTypeOK /\ DirTypeOK /\ mm \in MemoryMsg
      /\ Home(a) \in Dirs
    BY BlockTypesHold, HomeNode DEF MSIInv, TypeOK, DirTypeOK
<1>2. /\ \A b \in Addrs : SameReq(b) /\ SameRsp(b)
      /\ ReqChannels' /\ RspChannels'
    BY SameReqNet, SameRspNet DEF MSIInv, Channels, Dir_MI_A_Memory_Ack
<1>3. \A b \in Addrs : CacheStill(b) /\ written'[b] = written[b]
    BY CachesStand
<1>4. mm \in Mem(a) /\ Mem(a)' = Mem(a) \ {mm} /\ \A b \in Addrs \ {a} : Mem(b)' = Mem(b)
    BY DEF Mem
<1> DEFINE w == [type |-> "WB_ACK", addr |-> a, req |-> mm.req]
<1>5. /\ dst[a] = "MI_A"
      /\ setDirState(a, "I", sharers[a], owner[a], FALSE)
      /\ fwdNet' = Send(fwdNet, Home(a), mm.req, w)
    BY DEF Dir_MI_A_Memory_Ack, la_sendWriteBackAck
<1>6. mm.req \in Caches /\ w \in ForwardMsg /\ w.type = "WB_ACK" /\ w.addr = a
    BY <1>1 DEF ForwardMsg, MemoryMsg, Nodes
<1> HIDE DEF w
<1>7. w \notin Fwd(mm.req, a) /\ ~Acked(mm.req, a)
    <2>1. ~Acked(mm.req, a)
        BY <1>1, <1>4, <1>5, <1>6 DEF BlockInv, OnePlace, MemFor
    <2> QED BY <1>6, <2>1 DEF Acked
<1>8. Forwards({mm.req}, a, w) /\ (\A b \in Addrs \ {a} : SameFwd(b)) /\ FwdChannels'
    <2>1. /\ FwdChannels /\ {mm.req} \in SUBSET Caches
          /\ \A i \in Dirs, k \in Caches :
                 fwdNet'[i][k] = IF i = Home(a) /\ k \in {mm.req} THEN Append(fwdNet[i][k], w)
                                 ELSE fwdNet[i][k]
        BY <1>1, <1>5, <1>6, SentTo DEF MSIInv, Channels
    <2>2. \A k \in {mm.req} : w \notin Fwd(k, a) /\ ~Acked(k, a)
        BY <1>7
    <2> QED BY <1>1, <1>6, <2>1, <2>2, SendFwd
<1>9. /\ dst'[a] = "I" /\ SameBooks(a)
      /\ \A b \in Addrs \ {a} : dst'[b] = dst[b] /\ SameBooks(b)
    BY <1>1, <1>5 DEF setDirState, DirTypeOK, SameBooks
<1>10. \A b \in Addrs \ {a} : SameDir(b)
    BY <1>4, <1>9 DEF SameDir
<1>11. BlockInv(a)'
    BY <1>1, <1>2, <1>3, <1>4, <1>5, <1>6, <1>8, <1>9, WrittenBackKeeps DEF CacheStill
<1> QED BY <1>2, <1>3, <1>8, <1>10, <1>11, OthersKeep DEF NetStill, Channels

\* Memory_Ack in MS_A: the contents the owner returned are in memory
LEMMA ReturnedStep ==
    ASSUME MSIInv, DirBooks, NEW a \in Addrs, NEW mm \in memq, mm.addr = a,
           Dir_MS_A_Memory_Ack(Home(a), mm), memq' = memq \ {mm},
           UNCHANGED <<dblk, reqNet, cacheVars>>
    PROVE  AllKeep
<1>1. BlockTypes(a) /\ BlockInv(a) /\ DirTypeOK
    BY BlockTypesHold DEF MSIInv, TypeOK
<1>2. /\ \A b \in Addrs : NetStill(b)
      /\ Channels'
    BY SameReqNet, SameFwdNet, SameRspNet DEF MSIInv, Channels, NetStill, Dir_MS_A_Memory_Ack
<1>3. \A b \in Addrs : CacheStill(b) /\ written'[b] = written[b]
    BY CachesStand
<1>4. mm \in Mem(a) /\ Mem(a)' = Mem(a) \ {mm} /\ \A b \in Addrs \ {a} : Mem(b)' = Mem(b)
    BY DEF Mem
<1>5. dst[a] = "MS_A" /\ setDirState(a, "S", sharers[a], owner[a], FALSE)
    BY DEF Dir_MS_A_Memory_Ack
<1>6. /\ dst'[a] = "S" /\ SameBooks(a)
      /\ \A b \in Addrs \ {a} : dst'[b] = dst[b] /\ SameBooks(b)
    BY <1>1, <1>5 DEF setDirState, DirTypeOK, SameBooks
<1>7. \A b \in Addrs \ {a} : SameDir(b)
    BY <1>4, <1>6 DEF SameDir
<1>8. BlockInv(a)'
    BY <1>1, <1>2, <1>3, <1>4, <1>5, <1>6, ReturnedKeeps DEF CacheStill, NetStill
<1> QED BY <1>2, <1>3, <1>7, <1>8, OthersKeep

\* Every transition on answers of the memory keeps the invariant
LEMMA DirMemoryKeeps ==
    ASSUME MSIInv, DirBooks, NEW d \in Dirs, NEW a \in Addrs, DirMemoryStep(d, a)
    PROVE  AllKeep
<1>1. PICK mm \in memq :
          /\ mm.addr = a /\ Home(a) = d
          /\ \/ Dir_Memory_Data(d, mm)
             \/ Dir_MI_A_Memory_Ack(d, mm)
             \/ Dir_MS_A_Memory_Ack(d, mm)
          /\ memq' = memq \ {mm}
          /\ UNCHANGED <<dblk, reqNet, cacheVars>>
    BY DEF DirMemoryStep, DirMemory, Home
<1> QED BY <1>1, AnswerStep, WrittenBackStep, ReturnedStep

-----------------------------------------------------------------------------
(* The invariant holds of the initial state and is kept by every step.     *)

\* In the initial state no message is under way and no cache holds a block
LEMMA InitKeeps == Init => MSIInv
<1> SUFFICES ASSUME Init PROVE MSIInv
    OBVIOUS
<1>1. TypeOK
    BY NetworkAssumption, InitDataType
       DEF Init, NetInit, CacheInit, DirInit, TypeOK, NetTypeOK, CacheTypeOK, DirTypeOK,
           NoEntry, NoTBE, Entry, TBE, L1State, DirState
<1>2. /\ \A c \in Caches, d \in Dirs : reqNet[c][d] = <<>> /\ fwdNet[d][c] = <<>>
      /\ \A n \in Nodes, k \in Nodes : rspNet[n][k] = <<>>
      /\ memq = {}
    BY DEF Init, NetInit, DirInit
<1>3. Channels
    BY <1>2 DEF Channels, ReqChannels, FwdChannels, RspChannels, Distinct, AckLast, Contents, Nodes
<1>4. ASSUME NEW a \in Addrs
      PROVE  BlockInv(a)
    <2>1. /\ \A c \in Caches : Req(c, a) = {} /\ Fwd(c, a) = {}
          /\ \A n \in Nodes, k \in Nodes : Rsp(n, k, a) = {}
          /\ Mem(a) = {}
        BY <1>2, HomeNode DEF Req, Fwd, Rsp, Mem, About, Contents
    <2>2. /\ \A c \in Caches : cst[c][a] = "I" /\ tbe[c][a].pendingAcks = 0
          /\ dst[a] = "I" /\ sharers[a] = {} /\ owner[a] = {}
          /\ dblk[a] = InitData /\ written[a] = InitData
        BY DEF Init, CacheInit, DirInit, NoTBE
    <2>3. Home(a) \in Nodes /\ Caches \subseteq Nodes
        BY HomeNode DEF Nodes
    <2>4. OneRequest(a) /\ OneForward(a) /\ OneData(a)
        BY <2>1, <2>3 DEF OneRequest, OneForward, OneData, Nodes
    <2>5. \A c \in Caches :
              /\ ~Requests(c, a) /\ ~MemFor(c, a) /\ ~GetsFor(c, a) /\ ~GetmFor(c, a)
              /\ ~DataFor(c, a) /\ ~Acked(c, a) /\ ~GetsAt(c, a) /\ ~GetmAt(c, a)
              /\ ~Invalidated(c, a) /\ ~Returns(c, a) /\ ~Asked(c, a)
              /\ \A o \in Caches : ~InvFrom(c, o, a) /\ ~AckFrom(c, o, a)
        BY <2>1, <2>3 DEF Requests, MemFor, GetsFor, GetmFor, DataFor, Acked, GetsAt, GetmAt,
                          Invalidated, Returns, Asked, InvFrom, AckFrom
    <2>6. OnePlace(a) /\ RequestFits(a) /\ PlaceFits(a)
        BY <2>1, <2>5 DEF OnePlace, RequestFits, PlaceFits
    <2>7. RecordFits(a)
        BY <2>2, <2>5 DEF RecordFits, Record, Free, Left
    <2>8. \A c \in Caches : ~Holds(c, a)
        BY <2>2, <2>5 DEF Holds
    <2>9. OneHolder(a) /\ OneReturn(a) /\ Invalidations(a)
        BY <2>1, <2>2, <2>3, <2>5, <2>8 DEF OneHolder, OneReturn, Invalidations
    <2>10. Balance(a)
        <3>1. \A c \in Caches : Awaited(c, a) = {}
            BY <2>5 DEF Awaited
        <3>2. Cardinality({}) = 0
            BY FS_EmptySet
        <3>3. \A c \in Caches : /\ Cardinality(Awaited(c, a)) = 0 /\ tbe[c][a].pendingAcks = 0
                                /\ \A n \in Nodes : Rsp(n, c, a) = {}
            BY <2>1, <2>2, <2>3, <3>1, <3>2
        <3> QED BY <3>3 DEF Balance
    <2>11. Values(a)
        BY <2>1, <2>2, <2>3, <2>8 DEF Values, Valid, Readable
    <2>12. Waiting(a)
        BY <2>1, <2>2 DEF Waiting
    <2> QED BY <2>4, <2>6, <2>7, <2>9, <2>10, <2>11, <2>12 DEF BlockInv
<1> QED BY <1>1, <1>3, <1>4 DEF MSIInv

\* Every step of the protocol keeps the invariant
LEMMA NextKeeps == MSIInv /\ DirBooks /\ [Next]_vars => AllKeep
<1> SUFFICES ASSUME MSIInv, DirBooks, [Next]_vars
             PROVE  AllKeep
    OBVIOUS
<1>1. CASE \E c \in Caches, a \in Addrs : L1CoreStep(c, a)
    BY <1>1, L1CoreKeeps
<1>2. CASE \E c \in Caches, d \in Dirs : L1ForwardStep(c, d)
    BY <1>2, L1ForwardKeeps
<1>3. CASE \E c \in Caches, n \in Nodes : L1ResponseStep(c, n)
    BY <1>3, L1ResponseKeeps
<1>4. CASE \E c \in Caches, d \in Dirs : DirRequestStep(d, c)
    BY <1>4, DirRequestKeeps
<1>5. CASE \E c \in Caches, d \in Dirs : DirResponseStep(d, c)
    BY <1>5, DirResponseKeeps
<1>6. CASE \E d \in Dirs, a \in Addrs : DirMemoryStep(d, a)
    BY <1>6, DirMemoryKeeps
<1>7. CASE \E c \in Caches, d \in Dirs : L1StallStep(c, d)
    BY <1>7, StandKeep DEF L1StallStep, L1Stall
<1>8. CASE \E c \in Caches, d \in Dirs : DirStallStep(d, c)
    BY <1>8, StandKeep DEF DirStallStep, DirStall
<1>9. CASE UNCHANGED vars
    BY <1>9, StandKeep DEF vars, netVars
<1> QED BY <1>1, <1>2, <1>3, <1>4, <1>5, <1>6, <1>7, <1>8, <1>9 DEF Next, Consume

(* The invariant of the protocol: wherever the messages about a block are, *)
(* they fit each other, the states of the caches that sent or await them,  *)
(* the directory's record, the acknowledgements still to come and the      *)
(* contents the last store left.                                           *)
THEOREM ProtocolInvariant == Spec => []MSIInv
<1>1. TypeOK' /\ AllKeep => MSIInv'
    BY DEF AllKeep, MSIInv
<1> QED BY <1>1, InitKeeps, NextKeeps, TypeCorrect, BooksCorrect, PTL DEF Spec
-----------------------------------------------------------------------------
(* What the invariant says of the caches and the directory: the protocol   *)
(* is coherent.                                                            *)

\* Whoever may store into a block waits for nobody, and so is its only reader
LEMMA WriterAlone == MSIInv /\ DirBooks => SingleWriter
<1> SUFFICES ASSUME MSIInv, DirBooks, NEW a \in Addrs, NEW c \in Caches, NEW o \in Caches,
                    cst[c][a] \in Writable, o # c
             PROVE  cst[o][a] \notin Readable
    BY DEF SingleWriter
<1>1. BlockTypes(a) /\ BlockInv(a) /\ cst[c][a] = "M"
    BY BlockTypesHold DEF MSIInv, Writable
<1>2. \A n \in Nodes : \A m \in Rsp(n, c, a) : m.type # "DATA_FROM_DIR"
    BY <1>1 DEF BlockInv, PlaceFits, DataFor, DataType
<1>3. Awaited(c, a) = {}
    BY <1>1, <1>2, NoneAwaited
<1>4. ~Reads(o, a) /\ ~Holds(o, a)
    BY <1>1, <1>3, NoOtherReader DEF Holds
<1> QED BY <1>4 DEF Reads, Holds, Readable

(* While a core may store into a block no other core can load or store it, *)
(* whatever way Inv, Inv_Ack, data and writebacks overtake each other.     *)
THEOREM SingleWriterHolds == Spec => []SingleWriter
BY WriterAlone, ProtocolInvariant, BooksCorrect, PTL

(* A load that hits, in S, SM_AD, SM_A or M, returns what the last store   *)
(* to the block left, whoever made it.                                     *)
THEOREM LastWriteSeen == Spec => []ReadersSeeLastWrite
<1>1. MSIInv => ReadersSeeLastWrite
    BY DEF MSIInv, BlockInv, Values, Valid, ReadersSeeLastWrite
<1> QED BY <1>1, ProtocolInvariant, PTL

(* A directory in a transient state waits for the one memory request of    *)
(* its block, and one in a stable state, or in MS_D, for none.             *)
THEOREM MemoryMatches == Spec => []MemoryMatchesState
<1>1. MSIInv => MemoryMatchesState
    BY DEF MSIInv, BlockInv, Waiting, Mem, MemoryMatchesState
<1> QED BY <1>1, ProtocolInvariant, PTL

(* A cache that can load a block is a sharer or the owner on record, or    *)
(* has an Inv or a Fwd_GetM on its way to it.                              *)
THEOREM ReadersTracked == Spec => []ReaderIsTracked
<1>1. MSIInv => ReaderIsTracked
    <2> SUFFICES ASSUME MSIInv, NEW c \in Caches, NEW a \in Addrs, cst[c][a] \in Readable,
                        c \notin sharers[a] \union owner[a]
                 PROVE  \E d \in Dirs : \E i \in DOMAIN fwdNet[d][c] :
                            /\ fwdNet[d][c][i].addr = a
                            /\ fwdNet[d][c][i].type \in {"INV", "GETM"}
        BY DEF ReaderIsTracked
    <2>1. Invalidated(c, a) \/ GetmAt(c, a)
        BY DEF MSIInv, BlockInv, RecordFits, Record, Shares, Owns, Asked, Readable
    <2>2. PICK m \in Fwd(c, a) : m.type \in {"INV", "GETM"}
        BY <2>1 DEF Invalidated, GetmAt
    <2>3. PICK i \in DOMAIN fwdNet[Home(a)][c] : fwdNet[Home(a)][c][i] = m /\ m.addr = a
        BY <2>2 DEF Fwd, About, Contents
    <2> QED BY <2>2, <2>3, HomeNode
<1> QED BY <1>1, ProtocolInvariant, PTL

-----------------------------------------------------------------------------
(* The messages an acknowledgement count stands for, one by one.           *)

\* Two sets of which one is numbered by the other are as large
LEMMA SameSize ==
    ASSUME NEW S, NEW T, IsFiniteSet(T), NEW f \in [S -> T],
           \A x, y \in S : f[x] = f[y] => x = y,
           \A t \in T : \E x \in S : f[x] = t
    PROVE  Cardinality(S) = Cardinality(T)
<1>1. f \in Bijection(S, T)
    BY Fun_IsBij
<1>2. ExistsBijection(S, T)
    BY <1>1 DEF ExistsBijection
<1>3. ExistsBijection(T, S)
    BY <1>2, Fun_ExistsBijSymmetric
<1> QED BY <1>3, FS_Bijection

\* An invalidation of c for block a is in one place of one channel to a cache
LEMMA InvsCounted ==
    ASSUME MSIInv, DirBooks, NEW c \in Caches, NEW a \in Addrs, NEW invs,
           \A x : x \in invs <=>
               \E d \in Dirs, o \in Caches : \E i \in DOMAIN fwdNet[d][o] :
                   /\ x = <<d, o, i>> /\ fwdNet[d][o][i].type = "INV"
                   /\ fwdNet[d][o][i].addr = a /\ fwdNet[d][o][i].req = c
    PROVE  Cardinality(invs) = Cardinality({o \in Caches : InvFrom(c, o, a)})
<1> DEFINE T == {o \in Caches : InvFrom(c, o, a)}
<1>1. BlockTypes(a) /\ BlockInv(a) /\ FwdChannels
    BY BlockTypesHold DEF MSIInv, Channels
<1>2. ASSUME NEW x \in invs
      PROVE  \E o \in Caches : \E i \in DOMAIN fwdNet[Home(a)][o] :
                 /\ x = <<Home(a), o, i>>
                 /\ fwdNet[Home(a)][o][i] \in Fwd(o, a)
                 /\ fwdNet[Home(a)][o][i].type = "INV" /\ fwdNet[Home(a)][o][i].req = c
    <2>1. PICK d \in Dirs, o \in Caches : \E i \in DOMAIN fwdNet[d][o] :
              /\ x = <<d, o, i>> /\ fwdNet[d][o][i].type = "INV"
              /\ fwdNet[d][o][i].addr = a /\ fwdNet[d][o][i].req = c
        OBVIOUS
    <2>2. PICK i \in DOMAIN fwdNet[d][o] :
              /\ x = <<d, o, i>> /\ fwdNet[d][o][i].type = "INV"
              /\ fwdNet[d][o][i].addr = a /\ fwdNet[d][o][i].req = c
        BY <2>1
    <2>3. fwdNet[d][o][i] \in Contents(fwdNet[d][o])
        BY DEF Contents
    <2>4. d = Home(a)
        BY <1>1, <2>2, <2>3 DEF FwdChannels
    <2> QED BY <2>2, <2>3, <2>4 DEF Fwd, About
<1> DEFINE f == [x \in invs |-> x[2]]
<1>3. f \in [invs -> T]
    <2>1. ASSUME NEW x \in invs PROVE x[2] \in T
        BY <1>2 DEF InvFrom
    <2> QED BY <2>1
<1>4. ASSUME NEW x \in invs, NEW y \in invs, f[x] = f[y]
      PROVE  x = y
    <2>1. PICK o \in Caches : \E i \in DOMAIN fwdNet[Home(a)][o] :
              /\ x = <<Home(a), o, i>> /\ fwdNet[Home(a)][o][i] \in Fwd(o, a)
              /\ fwdNet[Home(a)][o][i].type = "INV" /\ fwdNet[Home(a)][o][i].req = c
        BY <1>2
    <2>2. PICK i \in DOMAIN fwdNet[Home(a)][o] :
              /\ x = <<Home(a), o, i>> /\ fwdNet[Home(a)][o][i] \in Fwd(o, a)
              /\ fwdNet[Home(a)][o][i].type = "INV" /\ fwdNet[Home(a)][o][i].req = c
        BY <2>1
    <2>3. PICK p \in Caches : \E j \in DOMAIN fwdNet[Home(a)][p] :
              /\ y = <<Home(a), p, j>> /\ fwdNet[Home(a)][p][j] \in Fwd(p, a)
              /\ fwdNet[Home(a)][p][j].type = "INV" /\ fwdNet[Home(a)][p][j].req = c
        BY <1>2
    <2>4. PICK j \in DOMAIN fwdNet[Home(a)][p] :
              /\ y = <<Home(a), p, j>> /\ fwdNet[Home(a)][p][j] \in Fwd(p, a)
              /\ fwdNet[Home(a)][p][j].type = "INV" /\ fwdNet[Home(a)][p][j].req = c
        BY <2>3
    <2>5. o = p
        BY <1>4, <2>2, <2>4
    <2>6. fwdNet[Home(a)][o][i] = fwdNet[Home(a)][o][j]
        BY <1>1, <2>2, <2>4, <2>5, OneInv
    <2>7. i = j
        BY <1>1, <2>2, <2>4, <2>5, <2>6, HomeNode DEF FwdChannels, Distinct
    <2> QED BY <2>2, <2>4, <2>5, <2>7
<1>5. ASSUME NEW o \in T
      PROVE  \E x \in invs : f[x] = o
    <2>1. PICK m \in Fwd(o, a) : m.type = "INV" /\ m.req = c
        BY <1>5 DEF InvFrom
    <2>2. PICK i \in DOMAIN fwdNet[Home(a)][o] : fwdNet[Home(a)][o][i] = m /\ m.addr = a
        BY <2>1 DEF Fwd, About, Contents
    <2>3. <<Home(a), o, i>> \in invs
        BY <1>5, <2>1, <2>2, HomeNode
    <2> QED BY <2>3
<1>6. IsFiniteSet(T)
    BY <1>1, FS_Subset DEF BlockTypes
<1> HIDE DEF f, T
<1>7. Cardinality(invs) = Cardinality(T)
    BY <1>3, <1>4, <1>5, <1>6, SameSize
<1> QED BY <1>7 DEF T

\* An acknowledgement for c about block a is in one place of one channel
LEMMA AcksCounted ==
    ASSUME MSIInv, DirBooks, NEW c \in Caches, NEW a \in Addrs, NEW acks,
           \A x : x \in acks <=>
               \E n \in Nodes : \E i \in DOMAIN rspNet[n][c] :
                   x = <<n, i>> /\ rspNet[n][c][i].type = "ACK" /\ rspNet[n][c][i].addr = a
    PROVE  Cardinality(acks) = Cardinality({o \in Caches : AckFrom(c, o, a)})
<1> DEFINE T == {o \in Caches : AckFrom(c, o, a)}
<1>1. BlockTypes(a) /\ RspChannels
    BY BlockTypesHold DEF MSIInv, Channels
<1>2. ASSUME NEW x \in acks
      PROVE  \E n \in Caches : \E i \in DOMAIN rspNet[n][c] :
                 /\ x = <<n, i>> /\ rspNet[n][c][i] \in Rsp(n, c, a)
                 /\ rspNet[n][c][i].type = "ACK"
    <2>1. PICK n \in Nodes : \E i \in DOMAIN rspNet[n][c] :
              x = <<n, i>> /\ rspNet[n][c][i].type = "ACK" /\ rspNet[n][c][i].addr = a
        OBVIOUS
    <2>2. PICK i \in DOMAIN rspNet[n][c] :
              x = <<n, i>> /\ rspNet[n][c][i].type = "ACK" /\ rspNet[n][c][i].addr = a
        BY <2>1
    <2>3. rspNet[n][c][i] \in Rsp(n, c, a)
        BY <2>2 DEF Rsp, About, Contents
    <2>4. n \in Caches
        BY <1>1, <2>2, <2>3 DEF BlockTypes
    <2> QED BY <2>2, <2>3, <2>4
<1> DEFINE f == [x \in acks |-> x[1]]
<1>3. f \in [acks -> T]
    <2>1. ASSUME NEW x \in acks PROVE x[1] \in T
        BY <1>2 DEF AckFrom
    <2> QED BY <2>1
<1>4. ASSUME NEW x \in acks, NEW y \in acks, f[x] = f[y]
      PROVE  x = y
    <2>1. PICK n \in Caches : \E i \in DOMAIN rspNet[n][c] :
              /\ x = <<n, i>> /\ rspNet[n][c][i] \in Rsp(n, c, a) /\ rspNet[n][c][i].type = "ACK"
        BY <1>2
    <2>2. PICK i \in DOMAIN rspNet[n][c] :
              /\ x = <<n, i>> /\ rspNet[n][c][i] \in Rsp(n, c, a) /\ rspNet[n][c][i].type = "ACK"
        BY <2>1
    <2>3. PICK p \in Caches : \E j \in DOMAIN rspNet[p][c] :
              /\ y = <<p, j>> /\ rspNet[p][c][j] \in Rsp(p, c, a) /\ rspNet[p][c][j].type = "ACK"
        BY <1>2
    <2>4. PICK j \in DOMAIN rspNet[p][c] :
              /\ y = <<p, j>> /\ rspNet[p][c][j] \in Rsp(p, c, a) /\ rspNet[p][c][j].type = "ACK"
        BY <2>3
    <2>5. n = p
        BY <1>4, <2>2, <2>4
    <2>6. rspNet[n][c][i] = rspNet[n][c][j]
        <3>1. ASSUME NEW m \in Rsp(n, c, a), m.type = "ACK"
              PROVE  m = [type |-> "ACK", addr |-> a, data |-> InitData, acks |-> 1]
            BY <1>1, <3>1 DEF BlockTypes, ResponseMsg, Nodes
        <3> QED BY <2>2, <2>4, <2>5, <3>1
    <2>7. i = j
        BY <1>1, <2>2, <2>4, <2>5, <2>6 DEF RspChannels, Distinct, Nodes
    <2> QED BY <2>2, <2>4, <2>5, <2>7
<1>5. ASSUME NEW o \in T
      PROVE  \E x \in acks : f[x] = o
    <2>1. PICK m \in Rsp(o, c, a) : m.type = "ACK"
        BY <1>5 DEF AckFrom
    <2>2. PICK i \in DOMAIN rspNet[o][c] : rspNet[o][c][i] = m /\ m.addr = a
        BY <2>1 DEF Rsp, About, Contents
    <2>3. <<o, i>> \in acks
        BY <1>5, <2>1, <2>2 DEF Nodes
    <2> QED BY <2>3
<1>6. IsFiniteSet(T)
    BY <1>1, FS_Subset DEF BlockTypes
<1> HIDE DEF f, T
<1>7. Cardinality(acks) = Cardinality(T)
    BY <1>3, <1>4, <1>5, <1>6, SameSize
<1> QED BY <1>7 DEF T

\* The Inv and Inv_Ack under way for a store are those of the caches it awaits
LEMMA AcksBalance == MSIInv /\ DirBooks => AckBalance
<1> SUFFICES ASSUME MSIInv, DirBooks, NEW c \in Caches, NEW a \in Addrs,
                    cst[c][a] \in {"IM_A", "SM_A"}
             PROVE  tbe[c][a].pendingAcks =
                        Cardinality(InvsUnderWay(c, a)) + Cardinality(AcksUnderWay(c, a))
    BY DEF AckBalance
<1> DEFINE I == {o \in Caches : InvFrom(c, o, a)}
           A == {o \in Caches : AckFrom(c, o, a)}
<1>1. BlockTypes(a) /\ BlockInv(a)
    BY BlockTypesHold DEF MSIInv
<1>2. Cardinality(InvsUnderWay(c, a)) = Cardinality(I)
    <2> DEFINE places(d, o) == {j \in DOMAIN fwdNet[d][o] : /\ fwdNet[d][o][j].type = "INV"
                                                            /\ fwdNet[d][o][j].addr = a
                                                            /\ fwdNet[d][o][j].req = c}
               at(d, o) == {<<d, o, i>> : i \in places(d, o)}
    <2>1. InvsUnderWay(c, a) = UNION {at(d, o) : d \in Dirs, o \in Caches}
        BY DEF InvsUnderWay
    <2>2. \A d, o, x : x \in at(d, o) <=>
              \E i \in DOMAIN fwdNet[d][o] :
                  /\ x = <<d, o, i>> /\ fwdNet[d][o][i].type = "INV"
                  /\ fwdNet[d][o][i].addr = a /\ fwdNet[d][o][i].req = c
        OBVIOUS
    <2> HIDE DEF at
    <2>3. \A x : x \in InvsUnderWay(c, a) <=> \E d \in Dirs, o \in Caches : x \in at(d, o)
        BY <2>1
    <2> QED BY <2>2, <2>3, InvsCounted
<1>3. Cardinality(AcksUnderWay(c, a)) = Cardinality(A)
    <2>1. \A x : x \in AcksUnderWay(c, a) <=>
               \E n \in Nodes : \E i \in DOMAIN rspNet[n][c] :
                   x = <<n, i>> /\ rspNet[n][c][i].type = "ACK" /\ rspNet[n][c][i].addr = a
        BY DEF AcksUnderWay
    <2> QED BY <2>1, AcksCounted
<1>4. Cardinality(Awaited(c, a)) = Cardinality(I) + Cardinality(A)
    <2>1. IsFiniteSet(I) /\ IsFiniteSet(A)
        BY <1>1, FS_Subset DEF BlockTypes
    <2>2. Awaited(c, a) = I \union A /\ I \intersect A = {}
        BY <1>1 DEF Awaited, BlockInv, Invalidations
    <2>3. Cardinality({}) = 0 /\ Cardinality(I) \in Nat /\ Cardinality(A) \in Nat
        BY <2>1, FS_EmptySet, FS_CardinalityType
    <2> HIDE DEF I, A
    <2>4. Cardinality(I \union A) = Cardinality(I) + Cardinality(A) - Cardinality(I \intersect A)
        BY <2>1, FS_Union
    <2>5. Awaited(c, a) = I \union A /\ Cardinality(I \intersect A) = 0
        BY <2>2, <2>3
    <2> QED BY <2>3, <2>4, <2>5
<1>5. tbe[c][a].pendingAcks = Cardinality(Awaited(c, a))
    <2>1. \A n \in Nodes : \A m \in Rsp(n, c, a) : m.type # "DATA_FROM_DIR"
        BY <1>1 DEF BlockInv, PlaceFits, DataFor, DataType
    <2> QED BY <1>1, <2>1 DEF BlockInv, Balance
<1> QED BY <1>2, <1>3, <1>4, <1>5

(* While a store waits in IM_A or SM_A, pendingAcks is the number of Inv   *)
(* on their way for it and of Inv_Ack on their way to it.                  *)
THEOREM AcksAccounted == Spec => []AckBalance
BY AcksBalance, ProtocolInvariant, BooksCorrect, PTL

-----------------------------------------------------------------------------
(* The protocol implements the atomic memory.  Between two states of which *)
(* both are coherent, a transition that moves one block of one cache to    *)
(* another state is the step of MSIAtomic its old and new rights tell.     *)

Perm == [c \in Caches |-> [a \in Addrs |-> Access(cst[c][a])]]
Copy == [c \in Caches |-> [a \in Addrs |->
            IF cst[c][a] \in Readable THEN entry[c][a].data ELSE InitData]]

Coherent == TypeOK /\ SingleWriter /\ ReadersSeeLastWrite

\* A step of the atomic memory, or none
AtomicStep == Atomic!AtomicNext \/ (Perm' = Perm /\ Copy' = Copy /\ written' = written)

\* The actions of the atomic memory, under the refinement mapping
LEMMA AtomicActions ==
    ASSUME NEW c \in Caches, NEW a \in Addrs
    PROVE  /\ Atomic!GrantRead(c, a) <=>
                  /\ Perm[c][a] = "N" /\ \A o \in Caches : Perm[o][a] # "W"
                  /\ Perm' = [Perm EXCEPT ![c][a] = "R"]
                  /\ Copy' = [Copy EXCEPT ![c][a] = written[a]] /\ UNCHANGED written
           /\ Atomic!GrantWrite(c, a) <=>
                  /\ Perm[c][a] \in {"N", "R"} /\ \A o \in Caches \ {c} : Perm[o][a] = "N"
                  /\ Perm' = [Perm EXCEPT ![c][a] = "W"]
                  /\ Copy' = [Copy EXCEPT ![c][a] = StoreInto(written[a])]
                  /\ written' = [written EXCEPT ![a] = StoreInto(@)]
           /\ Atomic!Write(c, a) <=>
                  /\ Perm[c][a] = "W" /\ UNCHANGED Perm
                  /\ Copy' = [Copy EXCEPT ![c][a] = StoreInto(Copy[c][a])]
                  /\ written' = [written EXCEPT ![a] = StoreInto(@)]
           /\ Atomic!Downgrade(c, a) <=>
                  /\ Perm[c][a] = "W" /\ Perm' = [Perm EXCEPT ![c][a] = "R"]
                  /\ UNCHANGED <<Copy, written>>
           /\ Atomic!Revoke(c, a) <=>
                  /\ Perm[c][a] # "N" /\ Perm' = [Perm EXCEPT ![c][a] = "N"]
                  /\ Copy' = [Copy EXCEPT ![c][a] = InitData] /\ UNCHANGED written
<1>1. Atomic!GrantRead(c, a) <=>
                  /\ Perm[c][a] = "N" /\ \A o \in Caches : Perm[o][a] # "W"
                  /\ Perm' = [Perm EXCEPT ![c][a] = "R"]
                  /\ Copy' = [Copy EXCEPT ![c][a] = written[a]] /\ UNCHANGED written
    BY DEF Atomic!GrantRead, Atomic!SetPerm, Atomic!SetCopy, Perm, Copy
<1>2. Atomic!GrantWrite(c, a) <=>
                  /\ Perm[c][a] \in {"N", "R"} /\ \A o \in Caches \ {c} : Perm[o][a] = "N"
                  /\ Perm' = [Perm EXCEPT ![c][a] = "W"]
                  /\ Copy' = [Copy EXCEPT ![c][a] = StoreInto(written[a])]
                  /\ written' = [written EXCEPT ![a] = StoreInto(@)]
    BY DEF Atomic!GrantWrite, Atomic!SetPerm, Atomic!SetCopy, Atomic!Bump, StoreInto, Perm, Copy
<1>3. Atomic!Write(c, a) <=>
                  /\ Perm[c][a] = "W" /\ UNCHANGED Perm
                  /\ Copy' = [Copy EXCEPT ![c][a] = StoreInto(Copy[c][a])]
                  /\ written' = [written EXCEPT ![a] = StoreInto(@)]
    BY DEF Atomic!Write, Atomic!SetCopy, Atomic!Bump, StoreInto, Perm, Copy
<1>4. Atomic!Downgrade(c, a) <=>
                  /\ Perm[c][a] = "W" /\ Perm' = [Perm EXCEPT ![c][a] = "R"]
                  /\ UNCHANGED <<Copy, written>>
    BY DEF Atomic!Downgrade, Atomic!SetPerm, Perm, Copy
<1>5. Atomic!Revoke(c, a) <=>
                  /\ Perm[c][a] # "N" /\ Perm' = [Perm EXCEPT ![c][a] = "N"]
                  /\ Copy' = [Copy EXCEPT ![c][a] = InitData] /\ UNCHANGED written
    BY DEF Atomic!Revoke, Atomic!SetPerm, Atomic!SetCopy, Atomic!First, InitData, Perm, Copy
<1> QED BY <1>1, <1>2, <1>3, <1>4, <1>5

\* A function of two arguments that changes at one place
LEMMA Changed ==
    ASSUME NEW S, NEW T, NEW V, NEW f \in [S -> [T -> V]], NEW g \in [S -> [T -> V]],
           NEW x \in S, NEW y \in T, NEW v,
           \A k \in S, b \in T : g[k][b] = IF k = x /\ b = y THEN v ELSE f[k][b]
    PROVE  g = [f EXCEPT ![x][y] = v]
<1> DEFINE h == [f EXCEPT ![x][y] = v]
<1>1. v \in V
    OBVIOUS
<1>2. h \in [S -> [T -> V]]
    BY <1>1
<1>3. \A k \in S, b \in T : h[k][b] = g[k][b]
    OBVIOUS
<1> HIDE DEF h
<1>4. ASSUME NEW k \in S PROVE h[k] = g[k]
    <2>1. h[k] \in [T -> V] /\ g[k] \in [T -> V]
        BY <1>2
    <2> QED BY <1>3, <2>1
<1>5. h = g
    BY <1>2, <1>4
<1> QED BY <1>5 DEF h

MapTypes ==
    /\ Perm \in [Caches -> [Addrs -> {"N", "R", "W"}]]
    /\ Copy \in [Caches -> [Addrs -> Data]]

\* The rights and the contents of the mapping have the types MSIAtomic has for them
LEMMA MapsTyped == TypeOK => MapTypes
<1> SUFFICES ASSUME TypeOK PROVE MapTypes
    OBVIOUS
<1>1. Perm \in [Caches -> [Addrs -> {"N", "R", "W"}]]
    BY DEF Perm, Access
<1>2. ASSUME NEW c \in Caches, NEW a \in Addrs
      PROVE  (IF cst[c][a] \in Readable THEN entry[c][a].data ELSE InitData) \in Data
    BY InitDataType DEF TypeOK, CacheTypeOK, Entry
<1>3. Copy \in [Caches -> [Addrs -> Data]]
    BY <1>2 DEF Copy
<1> QED BY <1>1, <1>3 DEF MapTypes

\* So they have after a step
LEMMA MapsTypedNext == TypeOK' => MapTypes'
BY MapsTyped, PTL

\* A transition moves the rights and the contents of one block of one cache
LEMMA SetRights ==
    ASSUME TypeOK, TypeOK', NEW c \in Caches, NEW a \in Addrs, NEW s, NEW e, NEW t,
           setState(c, a, s, e, t)
    PROVE  /\ Perm' = [Perm EXCEPT ![c][a] = Access(s)]
           /\ Copy' = [Copy EXCEPT ![c][a] = IF s \in Readable THEN e.data ELSE InitData]
           /\ cst'[c][a] = s /\ entry'[c][a] = e
           /\ \A o \in Caches \ {c} : cst'[o][a] = cst[o][a]
<1> DEFINE v == IF s \in Readable THEN e.data ELSE InitData
<1>1. /\ cst'[c][a] = s /\ entry'[c][a] = e
      /\ \A k \in Caches, b \in Addrs :
             k # c \/ b # a => cst'[k][b] = cst[k][b] /\ entry'[k][b] = entry[k][b]
    BY DEF setState, TypeOK, CacheTypeOK
<1>2. /\ Perm \in [Caches -> [Addrs -> {"N", "R", "W"}]]
      /\ Perm' \in [Caches -> [Addrs -> {"N", "R", "W"}]]
      /\ Copy \in [Caches -> [Addrs -> Data]] /\ Copy' \in [Caches -> [Addrs -> Data]]
    BY MapsTyped, MapsTypedNext DEF MapTypes
<1>3. \A k \in Caches, b \in Addrs :
          /\ Perm'[k][b] = IF k = c /\ b = a THEN Access(s) ELSE Perm[k][b]
          /\ Copy'[k][b] = IF k = c /\ b = a THEN v ELSE Copy[k][b]
    BY <1>1 DEF Perm, Copy
<1> HIDE DEF v
<1> DEFINE p == Perm
           q == Perm'
           x == Copy
           y == Copy'
           r == Access(s)
<1>4. /\ p \in [Caches -> [Addrs -> {"N", "R", "W"}]] /\ q \in [Caches -> [Addrs -> {"N", "R", "W"}]]
      /\ x \in [Caches -> [Addrs -> Data]] /\ y \in [Caches -> [Addrs -> Data]]
      /\ \A k \in Caches, b \in Addrs :
             /\ q[k][b] = IF k = c /\ b = a THEN r ELSE p[k][b]
             /\ y[k][b] = IF k = c /\ b = a THEN v ELSE x[k][b]
    BY <1>2, <1>3
<1> HIDE DEF p, q, x, y, r
<1>5. q = [p EXCEPT ![c][a] = r] /\ y = [x EXCEPT ![c][a] = v]
    BY <1>4, Changed
<1> QED BY <1>1, <1>5 DEF p, q, x, y, r, v

\* What a transition does to the rights and the contents decides which
\* action of the atomic memory it is
LEMMA RightsStep ==
    ASSUME Coherent, Coherent', NEW c \in Caches, NEW a \in Addrs, NEW s, NEW e, NEW t,
           setState(c, a, s, e, t),
           \/ s # "M" /\ written' = written
           \/ s = "M" /\ StoreDone(a)
    PROVE  AtomicStep
<1> DEFINE v == IF s \in Readable THEN e.data ELSE InitData
<1>1. /\ TypeOK /\ TypeOK' /\ written[a] \in Data /\ written \in [Addrs -> Data]
      /\ \A o \in Caches : Perm[o][a] = Access(cst[o][a])
      /\ Copy[c][a] = IF cst[c][a] \in Readable THEN entry[c][a].data ELSE InitData
    BY DEF Coherent, TypeOK, CacheTypeOK, Perm, Copy
<1>2. /\ Perm' = [Perm EXCEPT ![c][a] = Access(s)] /\ Copy' = [Copy EXCEPT ![c][a] = v]
      /\ cst'[c][a] = s /\ entry'[c][a] = e
      /\ \A o \in Caches \ {c} : cst'[o][a] = cst[o][a]
    BY <1>1, SetRights
<1>3. /\ cst[c][a] \in Readable => Copy[c][a] = written[a]
      /\ cst[c][a] \notin Readable => Copy[c][a] = InitData
      /\ s \in Readable => v = written'[a]
      /\ s \notin Readable => v = InitData
    BY <1>1, <1>2 DEF Coherent, ReadersSeeLastWrite
<1>4. /\ s = "M" => \A o \in Caches \ {c} : cst[o][a] \notin Readable
      /\ s \in Readable => \A o \in Caches \ {c} : cst[o][a] # "M"
    BY <1>2 DEF Coherent, SingleWriter, Writable, Readable
<1>5. MapTypes
    BY <1>1, MapsTyped
<1> HIDE DEF v
<1>6. CASE s = "M" /\ StoreDone(a)
    <2>1. /\ written' = [written EXCEPT ![a] = StoreInto(@)]
          /\ v = StoreInto(written[a]) /\ Access(s) = "W"
        BY <1>1, <1>3, <1>6 DEF StoreDone, Access, Readable, Writable
    <2>2. \A o \in Caches \ {c} : Perm[o][a] = "N"
        BY <1>1, <1>4, <1>6 DEF Access, Readable, Writable
    <2>3. CASE cst[c][a] = "M"
        <3>1. Perm[c][a] = "W" /\ Copy[c][a] = written[a]
            BY <1>1, <1>3, <2>3 DEF Access, Readable, Writable
        <3>2. Perm' = Perm
            BY <1>2, <1>5, <2>1, <3>1 DEF MapTypes
        <3>3. Atomic!Write(c, a)
            BY <1>2, <2>1, <3>1, <3>2, AtomicActions
        <3> QED BY <3>3 DEF AtomicStep, Atomic!AtomicNext
    <2>4. CASE cst[c][a] # "M"
        <3>1. Perm[c][a] \in {"N", "R"}
            BY <1>1, <2>4 DEF Access, Readable, Writable
        <3>2. Atomic!GrantWrite(c, a)
            BY <1>2, <2>1, <2>2, <3>1, AtomicActions
        <3> QED BY <3>2 DEF AtomicStep, Atomic!AtomicNext
    <2> QED BY <2>3, <2>4
<1>7. CASE s # "M" /\ written' = written /\ s \in Readable
    <2>1. v = written[a] /\ Access(s) = "R" /\ written' = written
        BY <1>3, <1>7 DEF Access, Writable
    <2>2. CASE cst[c][a] \notin Readable
        <3>1. Perm[c][a] = "N" /\ \A o \in Caches : Perm[o][a] # "W"
            BY <1>1, <1>4, <1>7, <2>2 DEF Access, Readable, Writable
        <3>2. Atomic!GrantRead(c, a)
            BY <1>2, <2>1, <3>1, AtomicActions
        <3> QED BY <3>2 DEF AtomicStep, Atomic!AtomicNext
    <2>3. CASE cst[c][a] \in Readable
        <3>1. Copy' = Copy
            BY <1>2, <1>3, <1>5, <2>1, <2>3 DEF MapTypes
        <3>2. CASE cst[c][a] = "M"
            <4>1. Perm[c][a] = "W"
                BY <1>1, <3>2 DEF Access, Writable
            <4>2. Atomic!Downgrade(c, a)
                BY <1>2, <2>1, <3>1, <4>1, AtomicActions
            <4> QED BY <4>2 DEF AtomicStep, Atomic!AtomicNext
        <3>3. CASE cst[c][a] # "M"
            <4>1. Perm[c][a] = "R"
                BY <1>1, <2>3, <3>3 DEF Access, Writable
            <4>2. Perm' = Perm
                BY <1>2, <1>5, <2>1, <4>1 DEF MapTypes
            <4> QED BY <2>1, <3>1, <4>2 DEF AtomicStep
        <3> QED BY <3>2, <3>3
    <2> QED BY <2>2, <2>3
<1>8. CASE s # "M" /\ written' = written /\ s \notin Readable
    <2>1. v = InitData /\ Access(s) = "N" /\ written' = written
        BY <1>3, <1>8 DEF Access, Writable
    <2>2. CASE cst[c][a] \in Readable
        <3>1. Perm[c][a] # "N"
            BY <1>1, <2>2 DEF Access
        <3>2. Atomic!Revoke(c, a)
            BY <1>2, <2>1, <3>1, AtomicActions
        <3> QED BY <3>2 DEF AtomicStep, Atomic!AtomicNext
    <2>3. CASE cst[c][a] \notin Readable
        <3>1. Perm[c][a] = "N" /\ Copy[c][a] = InitData
            BY <1>1, <1>3, <2>3 DEF Access, Readable, Writable
        <3>2. Perm' = Perm /\ Copy' = Copy
            BY <1>2, <1>5, <2>1, <3>1 DEF MapTypes
        <3> QED BY <2>1, <3>2 DEF AtomicStep
    <2> QED BY <2>2, <2>3
<1> QED BY <1>6, <1>7, <1>8

\* Hits, misses and evictions are steps of the atomic memory
LEMMA CoreRights ==
    ASSUME Coherent, Coherent', NEW c \in Caches, NEW a \in Addrs, L1Core(c, a)
    PROVE  AtomicStep
<1>1. CASE L1_Load_hit(c, a)
    BY <1>1 DEF L1_Load_hit, cacheVars, AtomicStep, Perm, Copy
<1>2. CASE ~L1_Load_hit(c, a)
    <2>1. \E s, e, t : /\ setState(c, a, s, e, t)
                       /\ \/ s # "M" /\ written' = written
                          \/ s = "M" /\ StoreDone(a)
        BY <1>2 DEF L1Core, L1_I_Load, L1_I_Store, L1_S_Store, L1_M_Store, L1_S_Replacement,
                    L1_M_Replacement
    <2> QED BY <2>1, RightsStep
<1> QED BY <1>1, <1>2

\* So are the transitions on forwarded messages
LEMMA ForwardRights ==
    ASSUME Coherent, Coherent', NEW c \in Caches, NEW d \in Dirs, L1Forward(c, d)
    PROVE  AtomicStep
<1> PICK m : m = Head(fwdNet[d][c])
    OBVIOUS
<1>1. m.addr \in Addrs
    <2>1. fwdNet[d][c] \in Seq(ForwardMsg) /\ fwdNet[d][c] # <<>>
        BY DEF L1Forward, Coherent, TypeOK, NetTypeOK
    <2>2. m \in ForwardMsg
        BY <2>1
    <2> QED BY <2>2 DEF ForwardMsg
<1>2. \E s, e, t : setState(c, m.addr, s, e, t) /\ s # "M" /\ written' = written
    BY DEF L1Forward, L1_S_Inv, L1_SM_AD_Inv, L1_M_Fwd_GetS, L1_M_Fwd_GetM, L1_MI_A_Fwd_GetS,
           L1_MI_A_Fwd_GetM, L1_SI_A_Inv, L1_WB_Ack
<1> QED BY <1>1, <1>2, RightsStep

\* So are the transitions on responses
LEMMA ResponseRights ==
    ASSUME Coherent, Coherent', NEW c \in Caches, NEW n \in Nodes, L1Response(c, n)
    PROVE  AtomicStep
<1> PICK m : m = Head(rspNet[n][c])
    OBVIOUS
<1>1. m.addr \in Addrs
    <2>1. rspNet[n][c] \in Seq(ResponseMsg) /\ rspNet[n][c] # <<>>
        BY DEF L1Response, Coherent, TypeOK, NetTypeOK, Nodes
    <2>2. m \in ResponseMsg
        BY <2>1
    <2> QED BY <2>2 DEF ResponseMsg
<1>2. \E s, e, t : /\ setState(c, m.addr, s, e, t)
                   /\ \/ s # "M" /\ written' = written
                      \/ s = "M" /\ StoreDone(m.addr)
    <2> DEFINE goal == \E s, e, t : /\ setState(c, m.addr, s, e, t)
                                    /\ \/ s # "M" /\ written' = written
                                       \/ s = "M" /\ StoreDone(m.addr)
    <2>1. L1_IS_D_Data(c, m) => goal
        BY DEF L1_IS_D_Data
    <2>2. L1_Data_No_Acks(c, m) => goal
        BY DEF L1_Data_No_Acks
    <2>3. L1_Data_Ack_Cnt_Last(c, m) => goal
        BY DEF L1_Data_Ack_Cnt_Last
    <2>4. L1_Data_Ack_Cnt(c, m) => goal
        <3> SUFFICES ASSUME L1_Data_Ack_Cnt(c, m)
                     PROVE  goal
            OBVIOUS
        <3> PICK s : s = IF cst[c][m.addr] = "IM_AD" THEN "IM_A" ELSE "SM_A"
            OBVIOUS
        <3>1. s # "M"
            OBVIOUS
        <3>2. /\ setState(c, m.addr, s, u_writeDataToCache(entry[c][m.addr], m),
                          q_updateAckCount(tbe[c][m.addr], m))
              /\ written' = written
            BY DEF L1_Data_Ack_Cnt
        <3> QED BY ONLY <3>1, <3>2
    <2>5. L1_Inv_Ack(c, m) => goal
        <3>1. L1_Inv_Ack(c, m) => cst[c][m.addr] # "M"
            BY DEF L1_Inv_Ack, ResponseTrigger
        <3> QED BY <3>1 DEF L1_Inv_Ack
    <2>6. L1_Inv_Ack_all(c, m) => goal
        BY DEF L1_Inv_Ack_all
    <2> HIDE DEF goal
    <2>7. goal
        BY <2>1, <2>2, <2>3, <2>4, <2>5, <2>6 DEF L1Response
    <2> QED BY <2>7 DEF goal
<1> QED BY <1>1, <1>2, RightsStep

\* So is every step of the protocol
LEMMA NextRights == Coherent /\ Coherent' /\ [Next]_vars => AtomicStep
<1> SUFFICES ASSUME Coherent, Coherent', [Next]_vars
             PROVE  AtomicStep
    OBVIOUS
<1>1. UNCHANGED cacheVars => AtomicStep
    BY DEF cacheVars, AtomicStep, Perm, Copy
<1>2. CASE \E c \in Caches, a \in Addrs : L1CoreStep(c, a)
    BY <1>2, CoreRights DEF L1CoreStep
<1>3. CASE \E c \in Caches, d \in Dirs : L1ForwardStep(c, d)
    BY <1>3, ForwardRights DEF L1ForwardStep
<1>4. CASE \E c \in Caches, n \in Nodes : L1ResponseStep(c, n)
    BY <1>4, ResponseRights DEF L1ResponseStep
<1>5. CASE \/ \E c \in Caches, d \in Dirs : DirRequestStep(d, c)
           \/ \E c \in Caches, d \in Dirs : DirResponseStep(d, c)
           \/ \E d \in Dirs, a \in Addrs : DirMemoryStep(d, a)
           \/ \E c \in Caches, d \in Dirs : L1StallStep(c, d)
           \/ \E c \in Caches, d \in Dirs : DirStallStep(d, c)
           \/ UNCHANGED vars
    BY <1>1, <1>5 DEF DirRequestStep, DirResponseStep, DirMemoryStep, L1StallStep, L1Stall,
                      DirStallStep, vars
<1> QED BY <1>2, <1>3, <1>4, <1>5 DEF Next, Consume

(* Seen by the cores the controllers, the networks and the memory are one  *)
(* atomic memory: every transition grants, uses, lowers or revokes one     *)
(* core's right to one block, with the contents the last store left, or    *)
(* changes nothing a core can tell.                                        *)
THEOREM AtomicMemoryImplemented == Spec => ImplementsAtomicMemory
<1>1. Init => Atomic!AtomicInit
    BY DEF Init, CacheInit, Atomic!AtomicInit, Atomic!First, Access, Readable, Writable, InitData
<1>2. AtomicStep => [Atomic!AtomicNext]_(Atomic!atomicVars)
    BY DEF AtomicStep, Atomic!atomicVars, Perm, Copy
<1>3. TypeOK /\ SingleWriter /\ ReadersSeeLastWrite => Coherent
    BY DEF Coherent
<1> QED BY <1>1, <1>2, <1>3, NextRights, TypeCorrect, SingleWriterHolds, LastWriteSeen, PTL
       DEF Spec, ImplementsAtomicMemory, Atomic!AtomicSpec

-----------------------------------------------------------------------------
(* No controller meets an event its state has no transition for.           *)

(* What else is true of a cache that is being sent data: a load has been   *)
(* sent no acknowledgements, and an upgrade gets its data from the         *)
(* directory.                                                              *)
LoadsUncounted == \A c \in Caches, a \in Addrs : cst[c][a] = "IS_D" => tbe[c][a].pendingAcks = 0

UpgradesFromHome ==
    \A c, o \in Caches, a \in Addrs : \A m \in Rsp(o, c, a) :
        m.type = "DATA_FROM_OWNER" => cst[c][a] # "SM_AD"

DataInv == LoadsUncounted /\ UpgradesFromHome

\* An owner that has been asked for a block by a store waits for nobody
LEMMA OwnerWaitsForNobody ==
    ASSUME MSIInv, DirBooks, NEW c \in Caches, NEW a \in Addrs, NEW x \in Caches,
           NEW m \in Fwd(c, a), m.type = "GETM", m.req = x, cst[c][a] \in {"M", "MI_A"}
    PROVE  cst[x][a] # "SM_AD" /\ x # c
<1>1. BlockTypes(a) /\ BlockInv(a)
    BY BlockTypesHold DEF MSIInv
<1>2. Holds(c, a)
    BY DEF Holds, Asked, GetmAt
<1>3. \A n \in Nodes : \A r \in Rsp(n, c, a) : r.type # "DATA_FROM_DIR"
    BY <1>1 DEF BlockInv, PlaceFits, DataFor, DataType
<1>4. \A o, y \in Caches : ~InvFrom(y, o, a)
    BY <1>1, <1>2, <1>3, NoneAwaited, NoOtherReader
<1>5. ~Invalidated(x, a)
    BY <1>1, <1>4 DEF Invalidated, InvFrom, BlockTypes
<1>6. GetmFor(x, a)
    BY DEF GetmFor
<1>7. ~Requests(x, a) /\ ~MemFor(x, a) /\ ~DataFor(x, a) /\ cst[x][a] \in {"IM_AD", "SM_AD"}
    BY <1>1, <1>6 DEF BlockInv, OnePlace, PlaceFits
<1>8. cst[x][a] = "SM_AD" => Holds(x, a)
    BY <1>1, <1>5, <1>7 DEF BlockInv, Invalidations
<1> QED BY <1>7, <1>8 DEF Holds

\* No cache begins to wait for data by an upgrade but from S, nor by a load
\* with acknowledgements counted
NoneTurns ==
    \A c \in Caches, a \in Addrs :
        /\ cst'[c][a] = "SM_AD" => cst[c][a] \in {"SM_AD", "S"}
        /\ cst'[c][a] = "IS_D" =>
               tbe'[c][a].pendingAcks = 0 \/ (cst[c][a] = "IS_D" /\ tbe'[c][a] = tbe[c][a])

\* A step that sends no owner's data to an upgrade
LEMMA NoOwnerSends ==
    ASSUME DataInv, MSIInv,
           \A o, c \in Caches, a \in Addrs : \A m \in Rsp(o, c, a)' :
               m.type = "DATA_FROM_OWNER" => m \in Rsp(o, c, a) \/ cst[c][a] \notin {"SM_AD", "S"},
           NoneTurns
    PROVE  DataInv'
<1>1. LoadsUncounted'
    BY DEF DataInv, LoadsUncounted, NoneTurns
<1>2. UpgradesFromHome'
    <2> SUFFICES ASSUME NEW c \in Caches, NEW o \in Caches, NEW a \in Addrs, NEW m \in Rsp(o, c, a)',
                        m.type = "DATA_FROM_OWNER", cst'[c][a] = "SM_AD"
                 PROVE  FALSE
        BY DEF UpgradesFromHome
    <2>1. cst[c][a] \in {"SM_AD", "S"} /\ m \in Rsp(o, c, a)
        BY DEF NoneTurns
    <2>2. DataFor(c, a)
        BY <2>1 DEF DataFor, DataType, Nodes
    <2>3. cst[c][a] = "SM_AD"
        BY <2>1, <2>2 DEF MSIInv, BlockInv, PlaceFits
    <2> QED BY <2>1, <2>3 DEF DataInv, UpgradesFromHome
<1> QED BY <1>1, <1>2 DEF DataInv

\* The response channels, so that what is said of a sum of sends names one net
Responses(net) == net \in [Nodes -> [Nodes -> Seq(ResponseMsg)]]

\* What the channels of later hold those of net held, or is r from s to x
OnlyAdds(net, later, s, x, r) ==
    \A i, k \in Nodes : \A y \in Contents(later[i][k]) :
        y \in Contents(net[i][k]) \/ (y = r /\ i = s /\ k = x)

\* That is what sending a response does
LEMMA SentResponses ==
    ASSUME NEW net, Responses(net), NEW s \in Nodes, NEW x \in Nodes,
           NEW r \in ResponseMsg, NEW sent, sent = Send(net, s, x, r)
    PROVE  OnlyAdds(net, sent, s, x, r)
<1> SUFFICES ASSUME NEW i \in Nodes, NEW k \in Nodes, NEW y \in Contents(sent[i][k])
             PROVE  y \in Contents(net[i][k]) \/ (y = r /\ i = s /\ k = x)
    BY DEF OnlyAdds
<1>1. sent[i][k] = IF i = s /\ k = x THEN Append(net[i][k], r) ELSE net[i][k]
    BY DEF Send, Responses
<1>2. net[i][k] \in Seq(ResponseMsg)
    BY DEF Responses
<1>3. Contents(Append(net[i][k], r)) = Contents(net[i][k]) \union {r}
    BY <1>2, Appended
<1> QED BY <1>1, <1>3

\* The transitions of a cache that leave it in a state s, none of them a load's
LEMMA CacheMoves ==
    ASSUME CacheTypeOK, NEW c \in Caches, NEW a \in Addrs, NEW s, NEW e, NEW t,
           setState(c, a, s, e, t),
           s = "SM_AD" => cst[c][a] \in {"SM_AD", "S"},
           s = "IS_D" => t.pendingAcks = 0
    PROVE  NoneTurns
<1>1. \A k \in Caches, b \in Addrs :
          /\ cst'[k][b] = IF k = c /\ b = a THEN s ELSE cst[k][b]
          /\ tbe'[k][b] = IF k = c /\ b = a THEN t ELSE tbe[k][b]
    BY DEF setState, CacheTypeOK
<1> QED BY <1>1 DEF NoneTurns

\* A core's step sends no data
LEMMA CoreKeepsData ==
    ASSUME MSIInv, DataInv, NEW c \in Caches, NEW a \in Addrs, L1CoreStep(c, a)
    PROVE  DataInv'
<1>1. CacheTypeOK /\ rspNet' = rspNet
    BY DEF MSIInv, TypeOK, L1CoreStep, L1Core
<1>2. NoneTurns
    <2>1. CASE L1_I_Load(c, a)
        BY <1>1, <2>1, CacheMoves DEF L1_I_Load, v_allocateTBE
    <2>2. CASE L1_I_Store(c, a)
        BY <1>1, <2>2, CacheMoves DEF L1_I_Store
    <2>3. CASE L1_Load_hit(c, a)
        BY <2>3 DEF L1_Load_hit, cacheVars, NoneTurns
    <2>4. CASE L1_S_Store(c, a)
        BY <1>1, <2>4, CacheMoves DEF L1_S_Store
    <2>5. CASE L1_M_Store(c, a)
        BY <1>1, <2>5, CacheMoves DEF L1_M_Store
    <2>6. CASE L1_S_Replacement(c, a)
        BY <1>1, <2>6, CacheMoves DEF L1_S_Replacement
    <2>7. CASE L1_M_Replacement(c, a)
        BY <1>1, <2>7, CacheMoves DEF L1_M_Replacement
    <2> QED BY <2>1, <2>2, <2>3, <2>4, <2>5, <2>6, <2>7 DEF L1CoreStep, L1Core
<1>3. \A o, k \in Caches, b \in Addrs : Rsp(o, k, b)' = Rsp(o, k, b)
    BY <1>1 DEF Rsp, About, Contents
<1> QED BY <1>2, <1>3, NoOwnerSends

\* An owner sends data to a store or a load that the directory forwarded, of a
\* cache that has no copy
LEMMA ForwardKeepsData ==
    ASSUME MSIInv, DirBooks, DataInv, NEW c \in Caches, NEW d \in Dirs, L1ForwardStep(c, d)
    PROVE  DataInv'
<1> PICK m : m = Head(fwdNet[d][c])
    OBVIOUS
<1> PICK x : x = m.req
    OBVIOUS
<1> DEFINE a == m.addr
<1>1. /\ m \in ForwardMsg /\ a \in Addrs /\ m \in Fwd(c, a)
      /\ CacheTypeOK /\ Responses(rspNet)
      /\ BlockTypes(a) /\ BlockInv(a) /\ Home(a) \in Dirs
    BY PopFwd, BlockTypesHold, HomeNode
       DEF MSIInv, TypeOK, NetTypeOK, Responses, Channels, L1ForwardStep, L1Forward
<1>2. entry[c][a].data \in Data /\ tbe[c][a].data \in Data
    BY <1>1 DEF CacheTypeOK, Entry, TBE
<1>3. c \in Nodes /\ (m.type # "WB_ACK" => x \in Caches /\ x \in Nodes)
      /\ map_Address_to_Directory[a] \in Nodes
    BY <1>1 DEF BlockTypes, Nodes, Home
<1>4. \/ L1_S_Inv(c, m)
      \/ L1_SM_AD_Inv(c, m)
      \/ L1_M_Fwd_GetS(c, m)
      \/ L1_M_Fwd_GetM(c, m)
      \/ L1_MI_A_Fwd_GetS(c, m)
      \/ L1_MI_A_Fwd_GetM(c, m)
      \/ L1_SI_A_Inv(c, m)
      \/ L1_WB_Ack(c, m)
    BY DEF L1ForwardStep, L1Forward
<1>5. NoneTurns
    <2>1. \/ setState(c, a, "I", h_deallocateL1CacheBlock, tbe[c][a])
          \/ setState(c, a, "IM_AD", entry[c][a], tbe[c][a])
          \/ setState(c, a, "S", entry[c][a], tbe[c][a])
          \/ setState(c, a, "SI_A", entry[c][a], tbe[c][a])
          \/ setState(c, a, "II_A", entry[c][a], tbe[c][a])
          \/ setState(c, a, "I", h_deallocateL1CacheBlock, w_deallocateTBE)
        BY <1>4 DEF L1_S_Inv, L1_SM_AD_Inv, L1_M_Fwd_GetS, L1_M_Fwd_GetM, L1_MI_A_Fwd_GetS,
                    L1_MI_A_Fwd_GetM, L1_SI_A_Inv, L1_WB_Ack
    <2>2. CASE setState(c, a, "I", h_deallocateL1CacheBlock, tbe[c][a])
        BY <1>1, <2>2, CacheMoves
    <2>3. CASE setState(c, a, "IM_AD", entry[c][a], tbe[c][a])
        BY <1>1, <2>3, CacheMoves
    <2>4. CASE setState(c, a, "S", entry[c][a], tbe[c][a])
        BY <1>1, <2>4, CacheMoves
    <2>5. CASE setState(c, a, "SI_A", entry[c][a], tbe[c][a])
        BY <1>1, <2>5, CacheMoves
    <2>6. CASE setState(c, a, "II_A", entry[c][a], tbe[c][a])
        BY <1>1, <2>6, CacheMoves
    <2>7. CASE setState(c, a, "I", h_deallocateL1CacheBlock, w_deallocateTBE)
        BY <1>1, <2>7, CacheMoves
    <2> QED BY ONLY <2>1, <2>2, <2>3, <2>4, <2>5, <2>6, <2>7
<1>6. ASSUME NEW o \in Caches, NEW k \in Caches, NEW b \in Addrs, NEW y \in Rsp(o, k, b)',
             y.type = "DATA_FROM_OWNER"
      PROVE  y \in Rsp(o, k, b) \/ cst[k][b] \notin {"SM_AD", "S"}
    <2>1. o \in Nodes /\ k \in Nodes /\ y \in Contents(rspNet'[o][k]) /\ y.addr = b
        BY <1>6 DEF Rsp, About, Nodes, Contents
    <2>2. CASE y \in Contents(rspNet[o][k])
        BY <2>1, <2>2 DEF Rsp, About
    <2>3. CASE m.type = "INV" /\ rspNet' = fi_sendInvAck(rspNet, c, m)
        <3> DEFINE r == Response("ACK", a, InitData, 1)
        <3>1. r \in ResponseMsg /\ r.type = "ACK"
            BY <1>1, InitDataType, ResponseFields
        <3>2. rspNet' = Send(rspNet, c, x, r)
            BY <2>3 DEF fi_sendInvAck
        <3> HIDE DEF r
        <3>3. y \in Contents(rspNet[o][k]) \/ y = r
            <4>1. x \in Nodes /\ Responses(rspNet) /\ r \in ResponseMsg
                BY <1>1, <1>3, <2>3, <3>1
            <4>2. OnlyAdds(rspNet, rspNet', c, x, r)
                BY <1>3, <3>2, <4>1, SentResponses
            <4> QED BY <2>1, <4>2 DEF OnlyAdds
        <3> QED BY <1>6, <2>2, <3>1, <3>3
    <2>4. CASE /\ m.type = "GETM" /\ cst[c][a] \in {"M", "MI_A"}
               /\ \E v \in Data : rspNet' = Send(rspNet, c, x, Response("DATA_FROM_OWNER", a, v, 0))
        <3>1. PICK v \in Data : rspNet' = Send(rspNet, c, x, Response("DATA_FROM_OWNER", a, v, 0))
            BY <2>4
        <3> DEFINE r == Response("DATA_FROM_OWNER", a, v, 0)
        <3>2. r \in ResponseMsg /\ r.addr = a /\ rspNet' = Send(rspNet, c, x, r)
            BY <1>1, <3>1, ResponseFields
        <3> HIDE DEF r
        <3>3. y \in Contents(rspNet[o][k]) \/ (b = a /\ k = x)
            <4>1. x \in Nodes /\ Responses(rspNet) /\ r \in ResponseMsg
                BY <1>1, <1>3, <2>4, <3>2
            <4>2. OnlyAdds(rspNet, rspNet', c, x, r)
                BY <1>3, <3>2, <4>1, SentResponses
            <4>3. y \in Contents(rspNet[o][k]) \/ (y = r /\ k = x)
                BY <2>1, <4>2 DEF OnlyAdds
            <4> QED BY <2>1, <3>2, <4>3
        <3>4. cst[x][a] \notin {"SM_AD", "S"}
            <4>1. GetmFor(x, a)
                BY <1>1, <2>4 DEF GetmFor
            <4>2. cst[x][a] \in {"IM_AD", "SM_AD"}
                BY <1>1, <1>3, <2>4, <4>1 DEF BlockInv, PlaceFits
            <4> QED BY <1>1, <1>3, <2>4, <4>2, OwnerWaitsForNobody
        <3> QED BY <2>2, <3>3, <3>4
    <2>5. CASE /\ m.type = "GETS"
               /\ \E v \in Data :
                      rspNet' = Send(Send(rspNet, c, x, Response("DATA_FROM_OWNER", a, v, 0)),
                                     c, map_Address_to_Directory[a], Response("DATA", a, v, 0))
        <3>1. PICK v \in Data :
                  rspNet' = Send(Send(rspNet, c, x, Response("DATA_FROM_OWNER", a, v, 0)),
                                 c, map_Address_to_Directory[a], Response("DATA", a, v, 0))
            BY <2>5
        <3> PICK h : h = map_Address_to_Directory[a]
            OBVIOUS
        <3> DEFINE r == Response("DATA_FROM_OWNER", a, v, 0)
                   w == Response("DATA", a, v, 0)
        <3>2. r \in ResponseMsg /\ r.addr = a /\ w \in ResponseMsg /\ w.type = "DATA"
            <4> PICK al : al = a
                OBVIOUS
            <4>1. al \in Addrs /\ r = Response("DATA_FROM_OWNER", al, v, 0) /\ w = Response("DATA", al, v, 0)
                BY <1>1
            <4> HIDE DEF r, w
            <4>2. r \in ResponseMsg /\ r.addr = al
                BY ONLY <3>1, <4>1, ResponseFields
            <4>3. w \in ResponseMsg /\ w.type = "DATA"
                BY ONLY <3>1, <4>1, ResponseFields
            <4> QED BY <4>2, <4>3
        <3> PICK once : once = Send(rspNet, c, x, r)
            OBVIOUS
        <3>3. rspNet' = Send(once, c, h, w)
            BY <3>1
        <3> HIDE DEF r, w
        <3>6. y \in Contents(rspNet[o][k]) \/ (y = r /\ k = x)
            <4>1. /\ x \in Nodes /\ c \in Nodes /\ h \in Nodes /\ Responses(rspNet)
                  /\ r \in ResponseMsg /\ w \in ResponseMsg
                BY <1>1, <1>3, <2>5, <3>2
            <4>2. Responses(once)
                BY <4>1, SendType DEF Responses
            <4>3. OnlyAdds(rspNet, once, c, x, r)
                BY <4>1, SentResponses
            <4>4. OnlyAdds(once, rspNet', c, h, w)
                BY <3>3, <4>1, <4>2, SentResponses
            <4>5. y \in Contents(once[o][k]) \/ y = w
                BY <2>1, <4>4 DEF OnlyAdds
            <4>6. y \in Contents(once[o][k]) => y \in Contents(rspNet[o][k]) \/ (y = r /\ k = x)
                BY <2>1, <4>3 DEF OnlyAdds
            <4> QED BY <1>6, <3>2, <4>5, <4>6
        <3>7. cst[x][a] = "IS_D"
            <4>1. GetsFor(x, a)
                BY <1>1, <2>5 DEF GetsFor
            <4> QED BY <1>1, <1>3, <2>5, <4>1 DEF BlockInv, PlaceFits
        <3> QED BY <2>1, <2>2, <3>2, <3>6, <3>7
    <2>6. CASE rspNet' = rspNet
        BY <2>1, <2>2, <2>6
    <2>7. CASE L1_S_Inv(c, m) \/ L1_SM_AD_Inv(c, m) \/ L1_SI_A_Inv(c, m)
        BY <1>1, <2>3, <2>7, ForwardEventType DEF L1_S_Inv, L1_SM_AD_Inv, L1_SI_A_Inv, ForwardTrigger
    <2>8. CASE L1_M_Fwd_GetM(c, m) \/ L1_MI_A_Fwd_GetM(c, m)
        BY <1>1, <1>2, <2>4, <2>8, ForwardEventType
           DEF L1_M_Fwd_GetM, L1_MI_A_Fwd_GetM, ForwardTrigger,
               e_sendDataFromCacheToRequestor, ee_sendDataFromTBEToRequestor
    <2>9. CASE L1_M_Fwd_GetS(c, m) \/ L1_MI_A_Fwd_GetS(c, m)
        BY <1>1, <1>2, <2>5, <2>9, ForwardEventType
           DEF L1_M_Fwd_GetS, L1_MI_A_Fwd_GetS, ForwardTrigger,
               e_sendDataFromCacheToRequestor, ee_sendDataFromTBEToRequestor,
               de_sendDataFromCacheToDir, dee_sendDataFromTBEToDir
    <2>10. CASE L1_WB_Ack(c, m)
        BY <2>6, <2>10 DEF L1_WB_Ack
    <2> QED BY <1>4, <2>7, <2>8, <2>9, <2>10
<1> QED BY <1>5, <1>6, NoOwnerSends

\* A cache that takes a response loses it, and does not turn to SM_AD or IS_D
LEMMA ResponseKeepsData ==
    ASSUME MSIInv, DataInv, NEW c \in Caches, NEW n \in Nodes, L1ResponseStep(c, n)
    PROVE  DataInv'
<1> PICK m : m = Head(rspNet[n][c])
    OBVIOUS
<1> DEFINE a == m.addr
<1>1. c \in Nodes /\ CacheTypeOK
    BY DEF MSIInv, TypeOK, Nodes
<1>2. m \in ResponseMsg /\ a \in Addrs /\ \A i, k \in Nodes, b \in Addrs : Rsp(i, k, b)' \subseteq Rsp(i, k, b)
    <2>1. /\ m \in ResponseMsg /\ a \in Addrs /\ Hears(n, c, a, m)
          /\ \A b \in Addrs \ {a} : SameRsp(b)
        BY <1>1, PopRsp DEF MSIInv, TypeOK, Channels, L1ResponseStep, L1Response
    <2> QED BY <2>1 DEF Hears, SameRsp
<1>3. \A s, e, t : setState(c, a, s, e, t) /\ s # "IS_D" /\ (s = "SM_AD" => cst[c][a] = "SM_AD") => NoneTurns
    BY <1>1, <1>2, CacheMoves
<1>4. NoneTurns
    <2> DEFINE e == u_writeDataToCache(entry[c][a], m)
               counted == q_updateAckCount(tbe[c][a], m)
    <2>1. \/ L1_IS_D_Data(c, m)
          \/ L1_Data_No_Acks(c, m)
          \/ L1_Data_Ack_Cnt_Last(c, m)
          \/ L1_Data_Ack_Cnt(c, m)
          \/ L1_Inv_Ack(c, m)
          \/ L1_Inv_Ack_all(c, m)
        BY DEF L1ResponseStep, L1Response
    <2>2. CASE L1_IS_D_Data(c, m)
        <3>1. setState(c, a, "S", e, w_deallocateTBE)
            BY <2>2 DEF L1_IS_D_Data
        <3> QED BY <1>3, <3>1
    <2>3. CASE L1_Data_No_Acks(c, m) \/ L1_Data_Ack_Cnt_Last(c, m)
        <3>1. setState(c, a, "M", sx_store_hit(e), w_deallocateTBE)
            BY <2>3 DEF L1_Data_No_Acks, L1_Data_Ack_Cnt_Last
        <3> QED BY <1>3, <3>1
    <2>4. CASE L1_Data_Ack_Cnt(c, m)
        <3> PICK s : s = IF cst[c][a] = "IM_AD" THEN "IM_A" ELSE "SM_A"
            OBVIOUS
        <3>1. setState(c, a, s, e, counted) /\ s \in {"IM_A", "SM_A"}
            BY <2>4 DEF L1_Data_Ack_Cnt
        <3> QED BY <1>3, <3>1
    <2>5. CASE L1_Inv_Ack(c, m)
        <3>1. setState(c, a, cst[c][a], entry[c][a], counted) /\ cst[c][a] # "IS_D"
            BY <2>5 DEF L1_Inv_Ack, ResponseTrigger
        <3> QED BY <1>3, <3>1
    <2>6. CASE L1_Inv_Ack_all(c, m)
        <3>1. setState(c, a, "M", sx_store_hit(entry[c][a]), w_deallocateTBE)
            BY <2>6 DEF L1_Inv_Ack_all
        <3> QED BY <1>3, <3>1
    <2> QED BY <2>1, <2>2, <2>3, <2>4, <2>5, <2>6
<1> QED BY <1>2, <1>4, NoOwnerSends DEF Nodes

\* A step of a directory changes no cache, and sends no cache's response
LEMMA DirKeepsData ==
    ASSUME DataInv, UNCHANGED cacheVars,
           \A o, c \in Caches, a \in Addrs : Rsp(o, c, a)' \subseteq Rsp(o, c, a)
    PROVE  DataInv'
BY DEF DataInv, LoadsUncounted, UpgradesFromHome, cacheVars

\* It sends on channels of its own
LEMMA DirSends ==
    ASSUME TypeOK, NEW d \in Dirs, NEW k, NEW r, rspNet' = Send(rspNet, d, k, r)
    PROVE  \A o, c \in Caches, a \in Addrs : Rsp(o, c, a)' = Rsp(o, c, a)
<1>1. \A o \in Caches : rspNet'[o] = rspNet[o]
    BY NetworkAssumption DEF NetworkAssumption, TypeOK, NetTypeOK, Send, Nodes
<1> QED BY <1>1 DEF Rsp, About, Contents

\* Every step keeps what is true of the data under way
LEMMA NextKeepsData == MSIInv /\ DirBooks /\ DataInv /\ [Next]_vars => DataInv'
<1> SUFFICES ASSUME MSIInv, DirBooks, DataInv, [Next]_vars
             PROVE  DataInv'
    OBVIOUS
<1>1. CASE \E c \in Caches, a \in Addrs : L1CoreStep(c, a)
    BY <1>1, CoreKeepsData
<1>2. CASE \E c \in Caches, d \in Dirs : L1ForwardStep(c, d)
    BY <1>2, ForwardKeepsData
<1>3. CASE \E c \in Caches, n \in Nodes : L1ResponseStep(c, n)
    BY <1>3, ResponseKeepsData
<1>4. ASSUME UNCHANGED cacheVars,
             rspNet' = rspNet \/ \E d \in Dirs : \E k, r : rspNet' = Send(rspNet, d, k, r)
      PROVE  DataInv'
    <2>1. CASE rspNet' = rspNet
        BY <1>4, <2>1, DirKeepsData DEF Rsp, About, Contents
    <2>2. CASE \E d \in Dirs : \E k, r : rspNet' = Send(rspNet, d, k, r)
        BY <1>4, <2>2, DirSends, DirKeepsData DEF MSIInv
    <2> QED BY <1>4, <2>1, <2>2
<1>5. ASSUME NEW c \in Caches, NEW d \in Dirs, DirRequestStep(d, c)
      PROVE  DataInv'
    <2>1. UNCHANGED cacheVars /\ (rspNet' = rspNet \/ \E k, r : rspNet' = Send(rspNet, d, k, r))
        BY <1>5 DEF DirRequestStep, DirRequest, Dir_I_GETS, Dir_I_GETM, Dir_PutAcked, Dir_PutRemoved,
                    Dir_S_GETS, Dir_S_GETM, Dir_S_PUTS_Last, Dir_M_GETS, Dir_M_GETM, Dir_M_PUTM_Owner,
                    ds_sendSharedData, ds2_sendSharedData
    <2> QED BY <1>4, <2>1
<1>6. ASSUME NEW c \in Caches, NEW d \in Dirs, DirResponseStep(d, c)
      PROVE  DataInv'
    <2> PICK m : m = Head(rspNet[c][d])
        OBVIOUS
    <2>1. /\ m.addr \in Addrs /\ Hears(c, d, m.addr, m)
          /\ \A b \in Addrs \ {m.addr} : SameRsp(b)
        BY <1>6, PopRsp DEF MSIInv, TypeOK, Channels, DirResponseStep, DirResponse, Nodes
    <2>2. \A o, k \in Caches, b \in Addrs : Rsp(o, k, b)' \subseteq Rsp(o, k, b)
        BY <2>1 DEF Hears, SameRsp, Nodes
    <2> QED BY <1>6, <2>2, DirKeepsData DEF DirResponseStep
<1>7. ASSUME NEW d \in Dirs, NEW a \in Addrs, DirMemoryStep(d, a)
      PROVE  DataInv'
    <2>1. UNCHANGED cacheVars /\ (rspNet' = rspNet \/ \E k, r : rspNet' = Send(rspNet, d, k, r))
        BY <1>7 DEF DirMemoryStep, DirMemory, Dir_Memory_Data, Dir_MI_A_Memory_Ack,
                    Dir_MS_A_Memory_Ack, d_sendData
    <2> QED BY <1>4, <2>1
<1>8. CASE \E c \in Caches, d \in Dirs : L1StallStep(c, d)
    BY <1>4, <1>8 DEF L1StallStep, L1Stall
<1>9. CASE \E c \in Caches, d \in Dirs : DirStallStep(d, c)
    BY <1>4, <1>9 DEF DirStallStep, DirStall
<1>10. CASE UNCHANGED vars
    BY <1>4, <1>10 DEF vars, netVars
<1> QED BY <1>1, <1>2, <1>3, <1>5, <1>6, <1>7, <1>8, <1>9, <1>10 DEF Next, Consume

\* and it is true of empty networks
LEMMA InitHasData == Init => DataInv
<1> SUFFICES ASSUME Init
             PROVE  DataInv
    OBVIOUS
<1>1. LoadsUncounted
    BY DEF Init, CacheInit, LoadsUncounted
<1>2. UpgradesFromHome
    BY DEF Init, CacheInit, UpgradesFromHome
<1> QED BY <1>1, <1>2 DEF DataInv

(* A cache that waits for data to load waits for no acknowledgement, and   *)
(* no owner ever answers an upgrade: the owner of the block is the cache   *)
(* that upgrades, or has told it to let its copy go.                       *)
THEOREM DataInvariant == Spec => []DataInv
BY InitHasData, NextKeepsData, ProtocolInvariant, BooksCorrect, PTL DEF Spec

-----------------------------------------------------------------------------
(* So the head of every channel has a transition.                          *)

\* The head of a channel is one of its messages
LEMMA HeadIsIn ==
    ASSUME NEW S, NEW q \in Seq(S), q # <<>>
    PROVE  Head(q) \in S /\ Head(q) \in Contents(q)
<1>1. 1 \in DOMAIN q /\ Head(q) = q[1]
    OBVIOUS
<1> QED BY <1>1 DEF Contents

\* A forwarded request, an invalidation or a writeback acknowledgement
LEMMA ForwardExpected ==
    ASSUME MSIInv, DirBooks, NEW c \in Caches, NEW d \in Dirs, fwdNet[d][c] # <<>>
    PROVE  L1ForwardExpects(c, Head(fwdNet[d][c]))
<1> PICK m : m = Head(fwdNet[d][c])
    OBVIOUS
<1> PICK a : a = m.addr
    OBVIOUS
<1>1. m \in ForwardMsg /\ m \in Contents(fwdNet[d][c]) /\ a \in Addrs
    <2> PICK q : q = fwdNet[d][c]
        OBVIOUS
    <2>1. q \in Seq(ForwardMsg)
        BY DEF MSIInv, TypeOK, NetTypeOK
    <2>2. m \in ForwardMsg /\ m \in Contents(q)
        BY <2>1, HeadIsIn
    <2> QED BY <2>2 DEF ForwardMsg
<1>2. m \in Fwd(c, a)
    BY <1>1 DEF MSIInv, Channels, FwdChannels, Fwd, About
<1>3. cst[c][a] \in L1State /\ Record(c, a) /\ PlaceFits(a)
    BY <1>1, BlockTypesHold DEF MSIInv, BlockTypes, BlockInv, RecordFits
<1>4. m.type \in {"GETS", "GETM", "INV", "WB_ACK"}
    BY <1>1 DEF ForwardMsg
<1>5. CASE m.type = "INV"
    <2>1. Invalidated(c, a)
        BY <1>2, <1>5 DEF Invalidated
    <2>2. cst[c][a] \in {"IS_D", "S", "SM_AD", "SI_A"}
        BY <1>3, <2>1 DEF Record, Free, L1State
    <2> QED BY <1>5, <2>2 DEF L1ForwardExpects, L1ForwardStalls, ForwardTrigger, ForwardEvent
<1>6. CASE m.type \in {"GETS", "GETM"}
    <2>1. Asked(c, a)
        BY <1>2, <1>6 DEF Asked, GetsAt, GetmAt
    <2>2. cst[c][a] \in {"M", "MI_A", "IM_AD", "IM_A", "SM_AD", "SM_A"}
        BY <1>3, <2>1 DEF Record, Free, Shares, L1State
    <2>3. ForwardEvent(m) \in {"Fwd_GetS", "Fwd_GetM"}
        BY <1>6 DEF ForwardEvent
    <2> QED BY <2>2, <2>3 DEF L1ForwardExpects, L1ForwardStalls, ForwardTrigger
<1>7. CASE m.type = "WB_ACK"
    <2>1. cst[c][a] \in {"MI_A", "SI_A", "II_A"}
        BY <1>2, <1>3, <1>7 DEF Acked, PlaceFits
    <2> QED BY <1>7, <2>1 DEF L1ForwardExpects, ForwardTrigger, ForwardEvent
<1> QED BY <1>4, <1>5, <1>6, <1>7

\* A request: the writeback of the owner is only met in M
LEMMA RequestExpected ==
    ASSUME MSIInv, DirBooks, NEW c \in Caches, NEW d \in Dirs, reqNet[c][d] # <<>>
    PROVE  DirRequestExpects(c, Head(reqNet[c][d]))
<1> PICK m : m = Head(reqNet[c][d])
    OBVIOUS
<1> PICK a : a = m.addr
    OBVIOUS
<1>1. m \in RequestMsg /\ m \in Contents(reqNet[c][d]) /\ a \in Addrs
    <2> PICK q : q = reqNet[c][d]
        OBVIOUS
    <2>1. q \in Seq(RequestMsg)
        BY DEF MSIInv, TypeOK, NetTypeOK
    <2>2. m \in RequestMsg /\ m \in Contents(q)
        BY <2>1, HeadIsIn
    <2> QED BY <2>2 DEF RequestMsg
<1>2. m \in Req(c, a) /\ Requests(c, a)
    BY <1>1 DEF MSIInv, Channels, ReqChannels, Req, About, Requests
<1>3. BlockInv(a) /\ BlockTypes(a)
    BY <1>1, BlockTypesHold DEF MSIInv
<1>4. m.type \in {"GETS", "GETM", "PUTS", "PUTM"}
    BY <1>1 DEF RequestMsg
<1>5. dst[a] \in DirState
    BY <1>3 DEF BlockTypes
<1>6. CASE m.type \in {"GETS", "GETM", "PUTS"} \/ c \notin owner[a]
    <2>1. RequestEvent(c, m) \in {"GETS", "GETM"} \union StalePut
        BY <1>4, <1>6 DEF RequestEvent, StalePut
    <2> QED BY <1>5, <2>1 DEF DirRequestExpects, RequestTrigger
<1>7. CASE m.type = "PUTM" /\ c \in owner[a]
    <2>1. cst[c][a] = "MI_A"
        <3>1. cst[c][a] \in {"MI_A", "SI_A", "II_A"} /\ Record(c, a)
            BY <1>2, <1>3, <1>7 DEF BlockInv, RequestFits, RecordFits
        <3> QED BY <1>2, <1>7, <3>1 DEF Record, Shares, Free, Left
    <2>2. dst[a] \in {"M", "MS_D", "IM_D"}
        BY <1>2, <1>3, <2>1 DEF BlockInv, OneHolder, Holds
    <2>3. dst[a] # "MS_D"
        BY <1>3, <1>7 DEF BlockTypes, Books
    <2>4. dst[a] # "IM_D"
        <3> SUFFICES ASSUME dst[a] = "IM_D"
                     PROVE  FALSE
            OBVIOUS
        <3>1. PICK mm : mm \in Mem(a)
            BY <1>3 DEF BlockInv, Waiting
        <3> PICK x : x = mm.req
            OBVIOUS
        <3>2. x \in Caches /\ MemFor(x, a)
            BY <1>3, <3>1 DEF BlockTypes, MemFor
        <3>3. owner[a] = {x} /\ cst[x][a] \in {"IM_AD", "SM_AD"}
            BY <1>3, <3>2 DEF BlockInv, PlaceFits
        <3> QED BY <1>7, <2>1, <3>3
    <2>5. RequestEvent(c, m) = "PUTM_Owner"
        BY <1>7 DEF RequestEvent
    <2> QED BY <2>2, <2>3, <2>4, <2>5 DEF DirRequestExpects, RequestTrigger
<1> QED BY <1>4, <1>6, <1>7

\* Data the directory has waited for
LEMMA ReturnExpected ==
    ASSUME MSIInv, NEW c \in Caches, NEW d \in Dirs, rspNet[c][d] # <<>>
    PROVE  DirResponseExpects(Head(rspNet[c][d]))
<1> PICK m : m = Head(rspNet[c][d])
    OBVIOUS
<1> PICK a : a = m.addr
    OBVIOUS
<1>1. m \in ResponseMsg /\ m \in Contents(rspNet[c][d]) /\ a \in Addrs
    <2> PICK q : q = rspNet[c][d]
        OBVIOUS
    <2>1. q \in Seq(ResponseMsg)
        BY DEF MSIInv, TypeOK, NetTypeOK, Nodes
    <2>2. m \in ResponseMsg /\ m \in Contents(q)
        BY <2>1, HeadIsIn
    <2> QED BY <2>2 DEF ResponseMsg
<1>2. m.type = "DATA" /\ Home(a) = d
    BY <1>1 DEF MSIInv, Channels, RspChannels
<1>3. Returns(c, a)
    BY <1>1, <1>2 DEF Returns, Rsp, About
<1> QED BY <1>1, <1>2, <1>3 DEF MSIInv, BlockInv, OneReturn, DirResponseExpects

\* Data, or an acknowledgement, that the cache has waited for
LEMMA ResponseExpected ==
    ASSUME MSIInv, DirBooks, DataInv, NEW c \in Caches, NEW n \in Nodes, rspNet[n][c] # <<>>
    PROVE  L1ResponseExpects(c, Head(rspNet[n][c]))
<1> PICK m : m = Head(rspNet[n][c])
    OBVIOUS
<1> PICK a : a = m.addr
    OBVIOUS
<1>1. m \in ResponseMsg /\ m \in Contents(rspNet[n][c]) /\ a \in Addrs
    <2> PICK q : q = rspNet[n][c]
        OBVIOUS
    <2>1. q \in Seq(ResponseMsg)
        BY DEF MSIInv, TypeOK, NetTypeOK, Nodes
    <2>2. m \in ResponseMsg /\ m \in Contents(q)
        BY <2>1, HeadIsIn
    <2> QED BY <2>2 DEF ResponseMsg
<1>2. m \in Rsp(n, c, a)
    BY <1>1 DEF Rsp, About
<1>3. BlockInv(a) /\ BlockTypes(a)
    BY <1>1, BlockTypesHold DEF MSIInv
<1>4. \/ m.type = "DATA_FROM_DIR"
      \/ m.type = "DATA_FROM_OWNER" /\ n \in Caches
      \/ m.type = "ACK" /\ n \in Caches /\ m.acks = 1
    BY <1>1 DEF MSIInv, Channels, RspChannels, Fitting
<1>5. tbe[c][a].pendingAcks \in Int /\ m.acks \in Int
    BY <1>1, <1>3 DEF BlockTypes, ResponseMsg
<1>6. m.type \in DataType => cst[c][a] \in {"IS_D", "IM_AD", "SM_AD"}
    BY <1>2, <1>3 DEF BlockInv, PlaceFits, DataFor
<1>7. CASE m.type = "DATA_FROM_DIR"
    <2>1. cst[c][a] = "IS_D" => m.acks = 0
        <3> SUFFICES ASSUME cst[c][a] = "IS_D"
                     PROVE  m.acks = 0
            OBVIOUS
        <3>1. Awaited(c, a) = {}
            BY <1>3 DEF BlockInv, Invalidations, Holds, Awaited
        <3>2. tbe[c][a].pendingAcks - m.acks = 0
            <4>1. Balance(a)
                BY <1>3 DEF BlockInv
            <4>2. tbe[c][a].pendingAcks - m.acks = Cardinality(Awaited(c, a))
                BY <1>2, <1>7, <4>1 DEF Balance
            <4> QED BY <3>1, <4>2, FS_EmptySet
        <3>3. tbe[c][a].pendingAcks = 0
            BY <1>1 DEF DataInv, LoadsUncounted
        <3> QED BY <1>5, <3>2, <3>3
    <2>2. /\ m.acks = 0 => ResponseEvent(c, m) = "Data_from_Dir_No_Acks"
          /\ m.acks # 0 => ResponseEvent(c, m) \in {"Data_from_Dir_Ack_Cnt", "Data_from_Dir_Ack_Cnt_Last"}
        BY <1>7 DEF ResponseEvent
    <2>3. cst[c][a] \in {"IS_D", "IM_AD", "SM_AD"}
        BY <1>6, <1>7 DEF DataType
    <2> QED BY <2>1, <2>2, <2>3 DEF L1ResponseExpects, ResponseTrigger
<1>8. CASE m.type = "DATA_FROM_OWNER"
    <2>1. cst[c][a] # "SM_AD"
        BY <1>1, <1>2, <1>4, <1>8 DEF DataInv, UpgradesFromHome
    <2>2. ResponseEvent(c, m) = "Data_from_Owner"
        BY <1>8 DEF ResponseEvent
    <2> QED BY <1>6, <1>8, <2>1, <2>2 DEF L1ResponseExpects, ResponseTrigger, DataType
<1>9. CASE m.type = "ACK"
    <2>1. AckFrom(c, n, a) /\ n \in Caches
        BY <1>2, <1>4, <1>9 DEF AckFrom
    <2>2. Holds(c, a)
        BY <1>3, <2>1 DEF BlockInv, Invalidations
    <2>3. cst[c][a] \notin {"M", "MI_A"}
        <3> SUFFICES ASSUME cst[c][a] \in {"M", "MI_A"}
                     PROVE  FALSE
            OBVIOUS
        <3>1. \A i \in Nodes : \A r \in Rsp(i, c, a) : r.type # "DATA_FROM_DIR"
            BY <1>3 DEF BlockInv, PlaceFits, DataFor, DataType
        <3> QED BY <1>1, <1>3, <2>1, <3>1, NoneAwaited
    <2>4. cst[c][a] \in {"IM_AD", "IM_A", "SM_AD", "SM_A"}
        BY <2>2, <2>3 DEF Holds
    <2>5. /\ ResponseEvent(c, m) \in {"Inv_Ack", "Inv_Ack_all"}
          /\ ResponseEvent(c, m) = "Inv_Ack_all" => tbe[c][a].pendingAcks - m.acks = 0
        BY <1>9 DEF ResponseEvent
    <2>6. ResponseEvent(c, m) = "Inv_Ack_all" => cst[c][a] \in {"IM_A", "SM_A"}
        <3>1. cst[c][a] \notin {"IM_A", "SM_A"} => tbe[c][a].pendingAcks <= 0
            BY <1>3 DEF BlockInv, Balance
        <3> QED BY <1>4, <1>5, <1>9, <2>5, <3>1
    <2> QED BY <2>4, <2>5, <2>6 DEF L1ResponseExpects, ResponseTrigger
<1> QED BY <1>4, <1>7, <1>8, <1>9

\* Every port, and the memory queue
LEMMA AllExpected == MSIInv /\ DirBooks /\ DataInv => EventsExpected
<1> SUFFICES ASSUME MSIInv, DirBooks, DataInv
             PROVE  EventsExpected
    OBVIOUS
<1>1. ASSUME NEW mm \in memq
      PROVE  DirMemoryExpects(mm)
    <2> PICK a : a = mm.addr
        OBVIOUS
    <2>1. a \in Addrs /\ mm \in Mem(a)
        BY DEF MSIInv, TypeOK, DirTypeOK, MemoryMsg, Mem
    <2>2. Waiting(a)
        BY <2>1 DEF MSIInv, BlockInv
    <2> QED BY <2>1, <2>2 DEF Waiting, DirMemoryExpects
<1> QED BY <1>1, ForwardExpected, RequestExpected, ReturnExpected, ResponseExpected DEF EventsExpected

(* Whatever is in front of a port of a cache or a directory, in whatever   *)
(* order the networks deliver: the state it meets has a transition for it. *)
(* No "invalid transition" of the generated controllers is ever reached.   *)
THEOREM EventsAreExpected == Spec => []EventsExpected
BY AllExpected, ProtocolInvariant, BooksCorrect, DataInvariant, PTL
=============================================================================
