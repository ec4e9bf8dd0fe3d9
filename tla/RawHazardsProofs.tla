-------------------------- MODULE RawHazardsProofs --------------------------
(***************************************************************************)
(* What RawHazards and LoadUse count, for any registers and instructions:  *)
(* types, no hazard outside the two classes, and none missed; and the two  *)
(* load-use counters agree, sim_main of the pre-assignment counting a      *)
(* hazard exactly when the pipeline that asm1 models with forwarding       *)
(* stalls for two cycles.                                                  *)
(***************************************************************************)
EXTENDS LoadUse, TLAPS

\* A register that pipeline q still waits for is at least as many instructions
\* ahead in the counters as it is cycles ahead in the pipeline.  This is about
\* which instructions count as hazards, not about the class they are put in.
Pessimistic ==
    \A q \in Question, r \in Regs :
        avail[q][r] > issue[q] => avail[q][r] - issue[q] <= reg_ready[q][r] - sim_num_insn

\* One instruction is at most one hazard
CountsBounded == \A q \in Question, n \in 0 .. 2 : hazards[q][n] <= sim_num_insn

IInv == TypeOK /\ CountsBounded /\ ClassesAddUp /\ Pessimistic

-----------------------------------------------------------------------------
(* Operators *)

\* The maximum of four integers exists
LEMMA MaxOfFour ==
    ASSUME NEW a \in Int, NEW b \in Int, NEW c \in Int, NEW d \in Int
    PROVE  /\ Max({a, b, c, d}) \in {a, b, c, d}
           /\ \A x \in {a, b, c, d} : Max({a, b, c, d}) >= x
<1>1. \E x \in {a, b, c, d} : \A y \in {a, b, c, d} : x >= y
  OBVIOUS
<1>. QED  BY <1>1 DEF Max

\* The minimum of a non-empty set of operand numbers exists
LEMMA MinOfOperands ==
    ASSUME NEW L \in SUBSET (0 .. 2), L # {}
    PROVE  Min(L) \in L
<1>1. \E x \in L : \A y \in L : x =< y
  <2>1. CASE 0 \in L  BY <2>1
  <2>2. CASE 0 \notin L /\ 1 \in L  BY <2>2
  <2>3. CASE 0 \notin L /\ 1 \notin L
    <3>1. \A x \in L : x = 2  BY <2>3
    <3>2. PICK x \in L : TRUE  OBVIOUS
    <3>3. \A y \in L : x =< y  BY <3>1, <3>2
    <3>. QED  BY <3>2, <3>3
  <2>. QED  BY <2>1, <2>2, <2>3
<1>. QED  BY <1>1 DEF Min

\* An instruction waits for no longer than its last operand, and leaves at
\* least a cycle after the one before it.
LEMMA IssueCorrect ==
    ASSUME TypeOK, NEW q \in Question, NEW i \in Instructions
    PROVE  /\ Issue(q, i) \in Nat
           /\ Issue(q, i) >= issue[q] + 1
           /\ \A k \in Late(q, i, avail[q], issue[q] + 1) : Issue(q, i) >= avail[q][i.r_in[k]]
           /\ Issue(q, i) > issue[q] + 1 =>
                  \E k \in Late(q, i, avail[q], issue[q] + 1) : Issue(q, i) = avail[q][i.r_in[k]]
<1>. DEFINE m == issue[q] + 1
            L == Late(q, i, avail[q], m)
            v(k) == IF k \in L THEN avail[q][i.r_in[k]] ELSE m
            S == {m} \union {avail[q][i.r_in[k]] : k \in L}
<1>1. m \in Nat /\ avail[q] \in [Regs -> Nat]
  BY DEF TypeOK
<1>2. L \subseteq 0 .. 2 /\ \A k \in L : avail[q][i.r_in[k]] \in Nat
  BY <1>1, RawHazardsAssumption DEF Late, Instruction
<1>3. v(0) \in Nat /\ v(1) \in Nat /\ v(2) \in Nat
  BY <1>1, <1>2
<1>4. 0 .. 2 = {0, 1, 2}
  OBVIOUS
<1>5. S = {m, v(0), v(1), v(2)}
  BY <1>2, <1>4
<1>. HIDE DEF L, v
<1>6. Max(S) \in S /\ \A x \in S : Max(S) >= x
  <2>1. /\ Max({m, v(0), v(1), v(2)}) \in {m, v(0), v(1), v(2)}
        /\ \A x \in {m, v(0), v(1), v(2)} : Max({m, v(0), v(1), v(2)}) >= x
    <3>1. m \in Int /\ v(0) \in Int /\ v(1) \in Int /\ v(2) \in Int
      BY <1>1, <1>3
    <3>. HIDE DEF m
    <3>. QED  BY <3>1, MaxOfFour
  <2>. HIDE DEF S
  <2>. QED  BY <1>5, <2>1
<1>7. Max(S) = Issue(q, i)
  BY DEF Issue, L
<1>8. Max(S) \in Nat
  BY <1>1, <1>2, <1>6
<1>9. Max(S) > m => \E k \in L : Max(S) = avail[q][i.r_in[k]]
  <2>1. \A x \in S : x = m \/ \E k \in L : x = avail[q][i.r_in[k]]
    OBVIOUS
  <2>. HIDE DEF S
  <2>. QED  BY <1>1, <1>6, <2>1
<1>. QED  BY <1>6, <1>7, <1>8, <1>9 DEF L

\* The search stops at a late operand, if there is one
LEMMA CountedCorrect ==
    ASSUME TypeOK, NEW q \in Question, NEW i \in Instructions, NEW now \in Nat
    PROVE  \/ /\ Late(q, i, reg_ready[q], now) = {}
              /\ Counted(q, i, now) = {}
           \/ \E k \in Late(q, i, reg_ready[q], now) : Counted(q, i, now) = {i.r_in[k]}
<1>1. Late(q, i, reg_ready[q], now) \in SUBSET (0 .. 2)
  BY DEF Late
<1>. QED  BY <1>1, MinOfOperands DEF Counted

\* A late operand is a register of the program
LEMMA LateIsRegister ==
    ASSUME NEW q, NEW i \in Instructions, NEW ready, NEW now, NEW k \in Late(q, i, ready, now)
    PROVE  i.r_in[k] \in Regs /\ ready[i.r_in[k]] > now
BY RawHazardsAssumption DEF Late, Instruction

-----------------------------------------------------------------------------
(* The invariant *)

\* Nothing is late or counted at the start
LEMMA InitIInv == Init => IInv
BY RawHazardsAssumption DEF Init, IInv, TypeOK, CountsBounded, ClassesAddUp, Pessimistic, Question

\* What one instruction does to the counters of a question
LEMMA CountStep ==
    ASSUME IInv, NEW q \in Question, NEW i \in Instructions, NEW now, now = sim_num_insn + 1
    PROVE  LET c == Count(q, Counted(q, i, now), now)
           IN  /\ c \in [0 .. 2 -> Nat]
               /\ \A n \in 0 .. 2 : c[n] <= now
               /\ c[0] = c[1] + c[2]
               /\ Late(q, i, reg_ready[q], now) # {} => c[0] = hazards[q][0] + 1
<1>. DEFINE C == Counted(q, i, now)
            c == Count(q, C, now)
<1>1. /\ TypeOK /\ now \in Nat /\ sim_num_insn \in Nat
      /\ hazards[q] \in [0 .. 2 -> Nat]
      /\ \A n \in 0 .. 2 : hazards[q][n] <= sim_num_insn
      /\ hazards[q][0] = hazards[q][1] + hazards[q][2]
      /\ \A r \in Regs : reg_ready[q][r] \in Nat /\ reg_ready[q][r] <= sim_num_insn + 3
  BY RawHazardsAssumption DEF IInv, TypeOK, CountsBounded, ClassesAddUp
<1>2. CASE Late(q, i, reg_ready[q], now) = {} /\ C = {}
  BY <1>1, <1>2 DEF Count
<1>3. CASE \E k \in Late(q, i, reg_ready[q], now) : C = {i.r_in[k]}
  <2>1. PICK k \in Late(q, i, reg_ready[q], now) : C = {i.r_in[k]}
    BY <1>3
  <2>. DEFINE r == i.r_in[k]
  <2>2. r \in Regs /\ reg_ready[q][r] > now
    BY LateIsRegister
  <2>3. reg_ready[q][r] - now = 1 \/ reg_ready[q][r] - now = 2
    BY <1>1, <2>2
  <2>. HIDE DEF r
  <2>4. c = [n \in 0 .. 2 |-> IF n = 0 \/ reg_ready[q][r] - now = n
                              THEN hazards[q][n] + 1 ELSE hazards[q][n]]
    BY <2>1 DEF Count, r
  <2>. HIDE DEF c
  <2>. QED  BY <1>1, <2>3, <2>4 DEF c
<1>. QED  BY <1>1, <1>2, <1>3, CountedCorrect

\* The latencies of both pipelines
LEMMA LatencyBound == \A q, i : Latency(q, i) \in 2 .. 3
BY DEF Latency

\* An instruction keeps the invariant
LEMMA ExecuteIInv ==
    ASSUME IInv, NEW i \in Instructions, Execute(i)
    PROVE  IInv'
<1>. DEFINE now == sim_num_insn + 1
<1>1. /\ TypeOK /\ MaxInsn \in Nat /\ sim_num_insn \in Nat /\ sim_num_insn < MaxInsn
      /\ sim_num_insn' = now
  BY RawHazardsAssumption DEF IInv, TypeOK, Execute
<1>2. \A q \in Question :
          /\ reg_ready'[q] = Written(q, i, Reset(q, Counted(q, i, now), now), now)
          /\ hazards'[q] = Count(q, Counted(q, i, now), now)
          /\ issue'[q] = Issue(q, i)
          /\ avail'[q] = Written(q, i, avail[q], Issue(q, i))
  BY DEF Execute
<1>3. /\ reg_ready' = [q \in Question |-> reg_ready'[q]]
      /\ hazards' = [q \in Question |-> hazards'[q]]
      /\ issue' = [q \in Question |-> issue'[q]]
      /\ avail' = [q \in Question |-> avail'[q]]
  BY DEF Execute
<1>4. ASSUME NEW q \in Question
      PROVE  /\ hazards'[q] \in [0 .. 2 -> 0 .. MaxInsn]
             /\ \A n \in 0 .. 2 : hazards'[q][n] <= sim_num_insn'
             /\ hazards'[q][0] = hazards'[q][1] + hazards'[q][2]
  BY <1>1, <1>2, CountStep
<1>5. ASSUME NEW q \in Question
      PROVE  /\ issue'[q] \in Nat /\ issue'[q] >= issue[q] + 1 /\ issue[q] \in Nat
             /\ avail[q] \in [Regs -> Nat] /\ reg_ready[q] \in [Regs -> Nat]
             /\ \A r \in Regs : avail[q][r] <= issue[q] + 3 /\ reg_ready[q][r] <= sim_num_insn + 3
  BY <1>1, <1>2, IssueCorrect DEF TypeOK
<1>6. ASSUME NEW q \in Question, NEW r \in Regs, r \in Outputs(i)
      PROVE  \E l \in 2 .. 3 : reg_ready'[q][r] = now + l /\ avail'[q][r] = issue'[q] + l
  <2>1. reg_ready'[q][r] = now + Latency(q, i) /\ avail'[q][r] = issue'[q] + Latency(q, i)
    BY ZenonT(30), <1>2, <1>6 DEF Written
  <2>. QED  BY <2>1, LatencyBound
<1>7. ASSUME NEW q \in Question, NEW r \in Regs, r \notin Outputs(i)
      PROVE  /\ avail'[q][r] = avail[q][r]
             /\ \/ reg_ready'[q][r] = reg_ready[q][r]
                \/ reg_ready'[q][r] = now /\ avail[q][r] <= issue'[q]
  <2>1. avail'[q][r] = avail[q][r] /\ reg_ready'[q][r] = Reset(q, Counted(q, i, now), now)[r]
    BY ZenonT(30), <1>2, <1>7 DEF Written
  <2>2. CASE q = "q1" /\ r \in Counted(q, i, now)
    <3>1. PICK k \in Late(q, i, reg_ready[q], now) : r = i.r_in[k]
      BY <1>1, <2>2, CountedCorrect
    <3>2. avail[q][r] > issue[q] + 1 => k \in Late(q, i, avail[q], issue[q] + 1)
      BY <2>2, <3>1 DEF Late, Forwarded
    <3>3. avail[q][r] > issue[q] + 1 => issue'[q] >= avail[q][r]
      BY <1>1, <1>2, <3>1, <3>2, IssueCorrect
    <3>4. avail[q][r] <= issue'[q]
      BY <1>5, <3>3
    <3>. QED  BY <2>1, <2>2, <3>4 DEF Reset
  <2>3. CASE ~(q = "q1" /\ r \in Counted(q, i, now))
    BY <2>1, <2>3 DEF Reset
  <2>. QED  BY <2>2, <2>3
<1>8. ASSUME NEW q \in Question, NEW r \in Regs
      PROVE  /\ reg_ready'[q][r] \in Nat /\ reg_ready'[q][r] <= sim_num_insn' + 3
             /\ avail'[q][r] \in Nat /\ avail'[q][r] <= issue'[q] + 3
             /\ avail'[q][r] > issue'[q] =>
                    avail'[q][r] - issue'[q] <= reg_ready'[q][r] - sim_num_insn'
  <2>1. CASE r \in Outputs(i)  BY <1>1, <1>5, <1>6, <2>1
  <2>2. CASE r \notin Outputs(i)
    <3>1. avail[q][r] > issue[q] => avail[q][r] - issue[q] <= reg_ready[q][r] - sim_num_insn
      BY DEF IInv, Pessimistic
    <3>2. /\ avail[q][r] \in Nat /\ avail[q][r] <= issue[q] + 3
          /\ reg_ready[q][r] \in Nat /\ reg_ready[q][r] <= sim_num_insn + 3
      BY <1>5
    <3>. QED  BY <1>1, <1>5, <1>7, <2>2, <3>1, <3>2
  <2>. QED  BY <2>1, <2>2
<1>9. ASSUME NEW q \in Question
      PROVE  reg_ready'[q] \in [Regs -> Nat] /\ avail'[q] \in [Regs -> Nat]
  BY <1>2, <1>8 DEF Written
<1>10. TypeOK'
  BY <1>1, <1>3, <1>4, <1>5, <1>8, <1>9 DEF TypeOK
<1>. QED  BY <1>4, <1>8, <1>10 DEF IInv, CountsBounded, ClassesAddUp, Pessimistic

\* Every step keeps the invariant
LEMMA NextIInv == IInv /\ [Next]_vars => IInv'
<1>1. ASSUME IInv, UNCHANGED vars  PROVE IInv'
  BY <1>1 DEF IInv, TypeOK, CountsBounded, ClassesAddUp, Pessimistic, vars
<1>. QED  BY <1>1, ExecuteIInv DEF Next

\* The invariant holds in every reachable state
LEMMA InvariantIInv == Spec => []IInv
BY InitIInv, NextIInv, PTL DEF Spec

-----------------------------------------------------------------------------
(* The properties *)

(* The counters have their types, and no register is ever more than three *)
(* instructions ahead (asm1 sim_main).                                     *)
THEOREM CountersTyped == Spec => []TypeOK
<1>1. IInv => TypeOK  BY DEF IInv
<1>. QED  BY <1>1, InvariantIInv, PTL

(* Every hazard sim_main counts is in one of the two classes the CPI       *)
(* formulas use, for any registers and instructions.                       *)
THEOREM NoThirdClass == Spec => []ClassesAddUp
<1>1. IInv => ClassesAddUp  BY DEF IInv
<1>. QED  BY <1>1, InvariantIInv, PTL

\* A stalled instruction has an operand that is late for the counters too
LEMMA StallIsCounted ==
    ASSUME IInv, [Next]_vars, NEW q \in Question, Stalled(q)
    PROVE  CountedNow(q)
<1>1. PICK i \in Instructions : Execute(i)
  <2>1. TypeOK  BY DEF IInv
  <2>2. ~UNCHANGED vars  BY <2>1 DEF Stalled, vars, TypeOK
  <2>. QED  BY <2>2 DEF Next
<1>. DEFINE now == sim_num_insn + 1
<1>2. TypeOK /\ sim_num_insn \in Nat /\ issue[q] \in Nat /\ now \in Nat
  BY RawHazardsAssumption DEF IInv, TypeOK
<1>3. issue'[q] = Issue(q, i) /\ hazards'[q] = Count(q, Counted(q, i, now), now)
  BY <1>1 DEF Execute
<1>4. PICK k \in Late(q, i, avail[q], issue[q] + 1) : TRUE
  BY <1>2, <1>3, IssueCorrect DEF Stalled
<1>5. i.r_in[k] \in Regs /\ avail[q][i.r_in[k]] > issue[q] + 1
  BY <1>4, LateIsRegister
<1>6. /\ avail[q][i.r_in[k]] \in Nat /\ reg_ready[q][i.r_in[k]] \in Nat
      /\ avail[q][i.r_in[k]] > issue[q] =>
             avail[q][i.r_in[k]] - issue[q] <= reg_ready[q][i.r_in[k]] - sim_num_insn
  BY <1>2, <1>5 DEF TypeOK, IInv, Pessimistic
<1>7. reg_ready[q][i.r_in[k]] > now
  BY <1>2, <1>5, <1>6
<1>8. k \in Late(q, i, reg_ready[q], now)
  BY <1>4, <1>7 DEF Late
<1>. QED  BY <1>3, <1>8, CountStep DEF CountedNow

(* No pipeline stalls without a hazard being counted (asm1 sim_main),     *)
(* whatever the program.                                                   *)
THEOREM NoneMissed == Spec => NoHazardMissed
<1>1. IInv /\ [Next]_vars => [\A q \in Question : Stalled(q) => CountedNow(q)]_vars
  BY StallIsCounted
<1>. QED  BY <1>1, InvariantIInv, PTL DEF Spec, NoHazardMissed
-----------------------------------------------------------------------------
(* The two load-use counters *)

\* A register is two instructions ahead in reg_ready_preasm exactly when it is
\* three cycles ahead in the pipeline: then the last instruction loaded it.
LoadsAgree ==
    \A r \in Regs :
        /\ reg_ready_preasm[r] <= sim_num_insn + 2
        /\ reg_ready_preasm[r] = sim_num_insn + 2 <=> avail["q2"][r] = issue["q2"] + 3

LoadUseInv ==
    /\ IInv
    /\ reg_ready_preasm \in [Regs -> Nat]
    /\ sim_num_lduh \in Nat
    /\ LoadsAgree

-----------------------------------------------------------------------------

\* No register is ahead at the start
LEMMA InitLoadUseInv == BothInit => LoadUseInv
BY InitIInv DEF BothInit, LoadUseInit, Init, LoadUseInv, LoadsAgree, Question

\* A step of the two counters is a step of the first
LEMMA BothStep == BothNext => Next
BY DEF BothNext, Next

\* An instruction keeps the agreement
LEMMA LoadUseStep ==
    ASSUME LoadUseInv, NEW i \in Instructions, Execute(i), CountLoadUse(i, sim_num_insn + 1)
    PROVE  LoadUseInv'
<1>1. IInv /\ IInv'
  BY ExecuteIInv DEF LoadUseInv
<1>2. /\ "q2" \in Question /\ TypeOK /\ sim_num_insn \in Nat
      /\ issue["q2"] \in Nat /\ sim_num_insn' = sim_num_insn + 1
  BY <1>1, RawHazardsAssumption DEF IInv, TypeOK, Execute, Question
<1>3. issue'["q2"] = Issue("q2", i) /\ issue'["q2"] \in Nat /\ issue'["q2"] >= issue["q2"] + 1
  BY <1>2, IssueCorrect DEF Execute
<1>4. /\ reg_ready_preasm \in [Regs -> Nat] /\ sim_num_lduh \in Nat
      /\ reg_ready_preasm' = Loaded(i, sim_num_insn + 1)
      /\ sim_num_lduh' \in Nat
  BY DEF LoadUseInv, CountLoadUse
<1>5. reg_ready_preasm' \in [Regs -> Nat]
  BY <1>2, <1>4 DEF Loaded
<1>6. ASSUME NEW r \in Regs
      PROVE  /\ reg_ready_preasm'[r] <= sim_num_insn' + 2
             /\ reg_ready_preasm'[r] = sim_num_insn' + 2 <=> avail'["q2"][r] = issue'["q2"] + 3
  <2>1. avail'["q2"][r] = IF r \in Outputs(i) THEN issue'["q2"] + Latency("q2", i)
                          ELSE avail["q2"][r]
    BY <1>2, <1>3 DEF Execute, Written
  <2>2. reg_ready_preasm'[r] = IF i.kind = "load" /\ r \in Outputs(i) THEN sim_num_insn' + 2
                               ELSE reg_ready_preasm[r]
    BY <1>2, <1>4 DEF Loaded
  <2>3. /\ reg_ready_preasm[r] \in Nat /\ reg_ready_preasm[r] <= sim_num_insn + 2
        /\ avail["q2"][r] \in Nat /\ avail["q2"][r] <= issue["q2"] + 3
    BY <1>2, <1>4 DEF LoadUseInv, LoadsAgree, TypeOK
  <2>4. Latency("q2", i) = IF i.kind = "load" THEN 3 ELSE 2
    BY DEF Latency
  <2>. QED  BY <1>2, <1>3, <2>1, <2>2, <2>3, <2>4
<1>. QED  BY <1>1, <1>4, <1>5, <1>6 DEF LoadUseInv, LoadsAgree

\* Every step keeps the agreement
LEMMA NextLoadUseInv == LoadUseInv /\ [BothNext]_<<vars, loadUseVars>> => LoadUseInv'
<1>1. ASSUME LoadUseInv, UNCHANGED <<vars, loadUseVars>>  PROVE LoadUseInv'
  <2>1. IInv'
    BY <1>1, NextIInv DEF LoadUseInv
  <2>. QED  BY <1>1, <2>1 DEF LoadUseInv, LoadsAgree, vars, loadUseVars
<1>. QED  BY <1>1, LoadUseStep DEF BothNext

\* The pipeline stalls for two cycles when an operand that is not forwarded is
\* three cycles ahead
LEMMA TwoCycleStall ==
    ASSUME TypeOK, NEW i \in Instructions
    PROVE  Issue("q2", i) = issue["q2"] + 3 <=>
               \E k \in 0 .. 2 : /\ i.r_in[k] # DNA /\ avail["q2"][i.r_in[k]] = issue["q2"] + 3
                                 /\ ~(k = 0 /\ i.kind = "store")
<1>. DEFINE m == issue["q2"] + 1
            L == Late("q2", i, avail["q2"], m)
<1>1. /\ "q2" \in Question /\ issue["q2"] \in Nat
      /\ \A k \in L : i.r_in[k] \in Regs
      /\ \A r \in Regs : avail["q2"][r] \in Nat /\ avail["q2"][r] <= issue["q2"] + 3
  BY LateIsRegister DEF TypeOK, Question
<1>2. ASSUME Issue("q2", i) = issue["q2"] + 3
      PROVE  \E k \in L : avail["q2"][i.r_in[k]] = issue["q2"] + 3
  BY <1>1, <1>2, IssueCorrect
<1>3. ASSUME NEW k \in L, avail["q2"][i.r_in[k]] = issue["q2"] + 3
      PROVE  Issue("q2", i) = issue["q2"] + 3
  <2>1. Issue("q2", i) \in Nat /\ Issue("q2", i) >= issue["q2"] + 3
    BY <1>1, <1>3, IssueCorrect
  <2>2. PICK j \in L : Issue("q2", i) = avail["q2"][i.r_in[j]]
    BY <1>1, <2>1, IssueCorrect
  <2>. QED  BY <1>1, <2>1, <2>2
<1>4. ASSUME NEW k \in 0 .. 2, avail["q2"][i.r_in[k]] = issue["q2"] + 3
      PROVE  k \in L <=> i.r_in[k] # DNA /\ ~(k = 0 /\ i.kind = "store")
  BY <1>1, <1>4 DEF Late, Forwarded
<1>5. L \subseteq 0 .. 2
  BY DEF Late
<1>. HIDE DEF L
<1>. QED  BY <1>2, <1>3, <1>4, <1>5

\* An instruction that waits in one simulator stalls for two cycles in the other
LEMMA WaitIsStall ==
    ASSUME LoadUseInv, NEW i \in Instructions
    PROVE  Waits(i, sim_num_insn + 1) <=> Issue("q2", i) = issue["q2"] + 3
<1>1. TypeOK /\ sim_num_insn \in Nat /\ i.r_in \in [0 .. 2 -> Regs \union {DNA}]
  BY RawHazardsAssumption DEF LoadUseInv, IInv, TypeOK, Instruction
<1>2. ASSUME NEW r \in Regs
      PROVE  reg_ready_preasm[r] > sim_num_insn + 1 <=> avail["q2"][r] = issue["q2"] + 3
  <2>1. /\ reg_ready_preasm[r] \in Nat /\ reg_ready_preasm[r] <= sim_num_insn + 2
        /\ reg_ready_preasm[r] = sim_num_insn + 2 <=> avail["q2"][r] = issue["q2"] + 3
    BY DEF LoadUseInv, LoadsAgree
  <2>. QED  BY <1>1, <2>1
<1>3. \A k \in 0 .. 2 : i.r_in[k] # DNA => i.r_in[k] \in Regs
  BY <1>1
<1>. QED  BY <1>1, <1>2, <1>3, TwoCycleStall DEF Waits

(* The load-use hazards of the pre-assignment are the two-cycle stalls of *)
(* asm1's pipeline with forwarding, whatever the program: no such stall    *)
(* goes uncounted and nothing else is counted.                             *)
THEOREM LoadUseAgree == BothSpec => LoadUseStalls
<1>1. LoadUseInv /\ [BothNext]_<<vars, loadUseVars>> =>
          [sim_num_lduh' = sim_num_lduh + 1 <=> issue["q2"]' = issue["q2"] + 3]_<<vars, loadUseVars>>
  <2>1. ASSUME LoadUseInv, NEW i \in Instructions,
               Execute(i), CountLoadUse(i, sim_num_insn + 1)
        PROVE  sim_num_lduh' = sim_num_lduh + 1 <=> issue["q2"]' = issue["q2"] + 3
    <3>1. issue'["q2"] = Issue("q2", i)
      BY <2>1 DEF Execute, Question
    <3>2. sim_num_lduh' = (IF Waits(i, sim_num_insn + 1) THEN sim_num_lduh + 1 ELSE sim_num_lduh)
          /\ sim_num_lduh \in Nat
      BY <2>1 DEF CountLoadUse, LoadUseInv
    <3>. QED  BY <2>1, <3>1, <3>2, WaitIsStall
  <2>. QED  BY <2>1 DEF BothNext
<1>. QED  BY <1>1, InitLoadUseInv, NextLoadUseInv, PTL DEF BothSpec, LoadUseStalls
=============================================================================
