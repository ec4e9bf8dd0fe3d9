--------------------------- MODULE TomasuloProofs ---------------------------
(***************************************************************************)
(* The timing simulator, for any program, any registers and any sizes and  *)
(* latencies: tags name the last writer, no operand is read early, one     *)
(* result takes the bus in a cycle, the older of two ready instructions    *)
(* executes first, and the simulation ends only when all is executed.      *)
(* Last, the tables of instr.c hold the trace that it reads.               *)
(***************************************************************************)
EXTENDS Tomasulo, FiniteSetTheorems, SequenceTheorems, WellFoundedInduction, TLAPS

Stations == reservINT \union reservFP
NeedsUnit(i) == USES_INT_FU(i) \/ USES_FP_FU(i)

\* The queue holds, in program order, what was fetched and has not been
\* dispatched, traps apart.
QueueInOrder ==
    /\ \A j \in DOMAIN instr_queue : ~IS_TRAP(instr_queue[j]) /\ instr_queue[j] <= fetch_index
    /\ \A j, k \in DOMAIN instr_queue : j < k => instr_queue[j] < instr_queue[k]
    /\ \A i \in NextDispatch .. fetch_index :
           IS_TRAP(i) \/ \E j \in DOMAIN instr_queue : instr_queue[j] = i

\* What has happened to instruction i follows from its place: nothing before
\* the dispatch, and a dispatched one that left its station is finished.
Progress ==
    \A i \in Entries :
        /\ i \in Stations => i < NextDispatch
        /\ tom_execute_cycle[i] # 0 => i < NextDispatch /\ NeedsUnit(i)
        /\ tom_cdb_cycle[i] # 0 => i < NextDispatch /\ WRITES_CDB(i) /\ i \notin Stations
        /\ i >= NextDispatch => \A k \in 0 .. 2 : Q[i][k] = NULL
        /\ i < NextDispatch /\ NeedsUnit(i) /\ i \notin Stations =>
               tom_execute_cycle[i] # 0 /\ (IS_STORE(i) \/ tom_cdb_cycle[i] # 0)

\* The stages between a broadcast and the end of its cycle
AfterBroadcast == stage \in {"issue_To_execute", "dispatch_To_issue", "fetch_To_dispatch"}

\* No stamp is in the future, and the result on the bus is the one broadcast
\* in this cycle.
StampsInOrder ==
    /\ \A i \in Entries :
           /\ tom_execute_cycle[i] <= cycle /\ tom_cdb_cycle[i] <= cycle
           /\ tom_cdb_cycle[i] = cycle <=> AfterBroadcast /\ i = commonDataBus
    /\ commonDataBus # NULL => tom_cdb_cycle[commonDataBus] # 0
    /\ stage \in {"execute_To_CDB", "done"} => commonDataBus = NULL

IInv ==
    /\ TypeOK
    /\ StationsMatchUnits
    /\ QueueInOrder
    /\ Progress
    /\ StampsInOrder
    /\ MapTableNamesLastWriter
    /\ QNamesLastWriter
    /\ RAWRespected
    /\ OneResultPerCycle
    /\ OlderExecutesFirst
    /\ DoneMeansFinished

-----------------------------------------------------------------------------
(* Sets of numbers *)

\* A non-empty set of naturals has a smallest member
LEMMA SmallestOf ==
    ASSUME NEW T \in SUBSET Nat, T # {}
    PROVE  \E x \in T : \A y \in T : x <= y
<1>. DEFINE R == OpToRel(<, Nat)
<1>1. IsWellFoundedOn(R, Nat)
  BY NatLessThanWellFounded
<1>2. \A x, y \in Nat : y < x => <<y, x>> \in R
  BY DEF OpToRel
<1>. HIDE DEF R
<1>3. PICK x \in T : \A y \in T : <<y, x>> \notin R
  BY <1>1, WFMin
<1>4. ASSUME NEW y \in T  PROVE x <= y
  <2>1. x \in Nat /\ y \in Nat /\ ~(y < x)
    BY <1>2, <1>3
  <2>. QED  BY <2>1
<1>. QED  BY <1>4

\* A non-empty set of naturals with a bound has a largest member
LEMMA LargestOf ==
    ASSUME NEW T \in SUBSET Nat, T # {}, NEW n \in Nat, \A x \in T : x <= n
    PROVE  \E x \in T : \A y \in T : y <= x
<1>. DEFINE U == {n - x : x \in T}
<1>1. \A x \in T : x \in Nat /\ n - x \in Nat
  OBVIOUS
<1>2. U \in SUBSET Nat /\ U # {}
  BY <1>1
<1>3. \E u \in U : \A v \in U : u <= v
  BY <1>2, SmallestOf
<1>4. PICK x \in T : \A y \in T : n - x <= n - y
  BY <1>3
<1>5. ASSUME NEW y \in T  PROVE y <= x
  BY <1>1, <1>4
<1>. QED  BY <1>5

\* FirstOf takes no more members than it is asked for
LEMMA FirstOfBound ==
    ASSUME NEW b \in Nat, NEW S \in SUBSET (1 .. b), NEW n \in Nat
    PROVE  /\ FirstOf(S, n) \subseteq S
           /\ IsFiniteSet(FirstOf(S, n))
           /\ Cardinality(FirstOf(S, n)) <= n
<1>. DEFINE F == FirstOf(S, n)
            Below(i) == {j \in S : j < i}
<1>1. IsFiniteSet(S)
  <2>1. IsFiniteSet(1 .. b)
    BY FS_Interval
  <2>. QED  BY <2>1, FS_Subset
<1>2. F \subseteq S /\ IsFiniteSet(F)
  BY <1>1, FS_Subset DEF FirstOf
<1>3. CASE F = {}
  BY <1>2, <1>3, FS_EmptySet
<1>4. CASE F # {}
  <2>1. F \subseteq Nat /\ \A i \in F : i <= b
    <3>1. \A i \in S : i \in Nat /\ i <= b
      OBVIOUS
    <3>. HIDE DEF F
    <3>. QED  BY <1>2, <3>1
  <2>2. PICK m \in F : \A i \in F : i <= m
    <3>. HIDE DEF F
    <3>. QED  BY <1>4, <2>1, LargestOf
  <2>3. Cardinality(Below(m)) < n
    BY <2>2 DEF FirstOf
  <2>4. IsFiniteSet(Below(m)) /\ Cardinality(Below(m)) \in Nat /\ m \notin Below(m)
    BY <1>1, <2>1, FS_Subset, FS_CardinalityType
  <2>5. IsFiniteSet(Below(m) \union {m}) /\ Cardinality(Below(m) \union {m}) = Cardinality(Below(m)) + 1
    BY <2>4, FS_AddElement
  <2>6. F \subseteq Below(m) \union {m}
    BY <1>2, <2>1, <2>2
  <2>7. Cardinality(F) <= Cardinality(Below(m) \union {m}) /\ Cardinality(F) \in Nat
    BY <1>2, <2>5, <2>6, FS_Subset, FS_CardinalityType
  <2>. HIDE DEF F, Below
  <2>. QED  BY <1>2, <2>3, <2>4, <2>5, <2>7 DEF F
<1>. QED  BY <1>3, <1>4

\* The tail of an increasing sequence
LEMMA TailIncreasing ==
    ASSUME NEW S, S \subseteq Nat, NEW s \in Seq(S), s # <<>>,
           \A j, k \in DOMAIN s : j < k => s[j] < s[k]
    PROVE  /\ Head(s) \in S /\ Head(s) = s[1] /\ 1 \in DOMAIN s
           /\ Tail(s) \in Seq(S) /\ Len(Tail(s)) < Len(s)
           /\ \A j \in DOMAIN Tail(s) : Head(s) < Tail(s)[j]
           /\ \A j, k \in DOMAIN Tail(s) : j < k => Tail(s)[j] < Tail(s)[k]
           /\ \A j \in DOMAIN s : s[j] = Head(s) \/ \E k \in DOMAIN Tail(s) : Tail(s)[k] = s[j]
           /\ \A j \in DOMAIN Tail(s) : \E k \in DOMAIN s : s[k] = Tail(s)[j]
<1>. DEFINE q == Tail(s)
            n == Len(q)
<1>1. /\ q \in Seq(S) /\ n \in Nat /\ DOMAIN q = 1 .. n /\ Len(s) = n + 1 /\ DOMAIN s = 1 .. n + 1
      /\ \A j \in 1 .. n : q[j] = s[j + 1]
      /\ Head(s) = s[1] /\ Head(s) \in S
  BY HeadTailProperties
<1>. HIDE DEF q, n
<1>2. \A j \in 1 .. n : 1 \in 1 .. n + 1 /\ j + 1 \in 1 .. n + 1 /\ 1 < j + 1
  BY <1>1
<1>3. ASSUME NEW j \in 1 .. n + 1, j # 1  PROVE \E k \in 1 .. n : q[k] = s[j]
  <2>1. j - 1 \in 1 .. n /\ j - 1 + 1 = j
    BY <1>1, <1>3
  <2>. QED  BY <1>1, <2>1
<1>4. \A j, k \in 1 .. n : j < k => j + 1 < k + 1
  BY <1>1
<1>5. \A j, k \in 1 .. n : j < k => q[j] < q[k]
  BY <1>1, <1>2, <1>4
<1>6. \A j \in 1 .. n : s[1] < q[j]
  BY <1>1, <1>2
<1>7. \A j \in DOMAIN q : \E k \in DOMAIN s : s[k] = q[j]
  BY <1>1, <1>2
<1>8. \A j \in DOMAIN s : s[j] = Head(s) \/ \E k \in DOMAIN q : q[k] = s[j]
  BY <1>1, <1>3
<1>9. n < Len(s) /\ 1 \in DOMAIN s
  BY <1>1
<1>. QED  BY <1>1, <1>5, <1>6, <1>7, <1>8, <1>9 DEF q, n

-----------------------------------------------------------------------------
(* The trace *)

\* The classes of tomasulo.c exclude each other, and what writes a register
\* broadcasts a result
LEMMA ClassFacts ==
    ASSUME trace \in Programs, NEW i \in Entries
    PROVE  /\ \A k \in 0 .. 2 : get_instr(i).r_in[k] \in Regs \union {0}
           /\ ~(USES_INT_FU(i) /\ USES_FP_FU(i))
           /\ NeedsUnit(i) => ~IS_CTRL(i) /\ ~IS_TRAP(i)
           /\ WRITES_CDB(i) <=> NeedsUnit(i) /\ ~IS_STORE(i)
           /\ IS_STORE(i) => USES_INT_FU(i)
           /\ \A r \in Regs : Writes(i, r) => WRITES_CDB(i)
<1>1. /\ Len(trace) \in Nat /\ DOMAIN trace = 1 .. Len(trace)
      /\ \A j \in DOMAIN trace : trace[j] \in Instruction
      /\ \A r \in Regs : r # 0
  BY TomasuloAssumption
<1>2. get_instr(i) \in Instruction
  BY <1>1 DEF get_instr, Zeroed, Instruction, Op
<1>3. get_instr(i).op \in {"NA", "STORE"} => \A k \in 0 .. 1 : get_instr(i).r_out[k] = 0
  BY <1>1, TomasuloAssumption DEF get_instr, Zeroed
<1>. QED  BY <1>1, <1>2, <1>3 DEF Instruction, Op, NeedsUnit, IS_CTRL, IS_STORE, IS_TRAP,
               USES_INT_FU, USES_FP_FU, WRITES_CDB, Writes

\* LastWriter is the youngest writer before instruction i, if there is one
LEMMA LastWriterCorrect ==
    ASSUME NEW i \in Nat, NEW r
    PROVE  \/ LastWriter(i, r) = NULL /\ \A j \in 1 .. i - 1 : ~Writes(j, r)
           \/ /\ LastWriter(i, r) \in 1 .. i - 1 /\ Writes(LastWriter(i, r), r)
              /\ \A j \in 1 .. i - 1 : Writes(j, r) => j <= LastWriter(i, r)
<1>. DEFINE older == {j \in 1 .. i - 1 : Writes(j, r)}
<1>1. CASE older = {}
  BY <1>1 DEF LastWriter
<1>2. CASE older # {}
  <2>1. older \subseteq Nat /\ \A j \in older : j <= i
    OBVIOUS
  <2>2. \E j \in older : \A l \in older : l <= j
    <3>. HIDE DEF older
    <3>. QED  BY <1>2, <2>1, LargestOf
  <2>3. LastWriter(i, r) = CHOOSE j \in older : \A l \in older : l <= j
    BY <1>2 DEF LastWriter
  <2>4. LastWriter(i, r) \in older /\ \A l \in older : l <= LastWriter(i, r)
    <3>. HIDE DEF older
    <3>. QED  BY <2>2, <2>3
  <2>. QED  BY <2>4
<1>. QED  BY <1>1, <1>2

\* The last writer one instruction later
LEMMA LastWriterNext ==
    ASSUME NEW i \in Nat \ {0}, NEW r
    PROVE  LastWriter(i + 1, r) = IF Writes(i, r) THEN i ELSE LastWriter(i, r)
<1>. DEFINE w == LastWriter(i, r)
            v == LastWriter(i + 1, r)
<1>1. i + 1 - 1 = i
  OBVIOUS
<1>2. \/ w = 0 /\ \A j \in 1 .. i - 1 : ~Writes(j, r)
      \/ w \in 1 .. i - 1 /\ Writes(w, r) /\ \A j \in 1 .. i - 1 : Writes(j, r) => j <= w
  BY LastWriterCorrect DEF NULL
<1>3. \/ v = 0 /\ \A j \in 1 .. i : ~Writes(j, r)
      \/ v \in 1 .. i /\ Writes(v, r) /\ \A j \in 1 .. i : Writes(j, r) => j <= v
  BY <1>1, LastWriterCorrect DEF NULL
<1>. HIDE DEF w, v
<1>4. v = IF Writes(i, r) THEN i ELSE w
  BY <1>2, <1>3
<1>. QED  BY <1>4 DEF v, w

\* Traps between two instructions write nothing
LEMMA LastWriterSkip ==
    ASSUME NEW a \in Nat \ {0}, NEW b \in Nat, a <= b, NEW r, \A i \in a .. b - 1 : IS_TRAP(i)
    PROVE  LastWriter(b, r) = LastWriter(a, r)
<1>. DEFINE older(n) == {j \in 1 .. n - 1 : Writes(j, r)}
            youngest(S) == IF S = {} THEN NULL ELSE CHOOSE j \in S : \A l \in S : l <= j
<1>1. older(b) = older(a)
  BY DEF Writes
<1>2. LastWriter(b, r) = youngest(older(b)) /\ LastWriter(a, r) = youngest(older(a))
  BY DEF LastWriter
<1>. HIDE DEF youngest, older
<1>. QED  BY <1>1, <1>2

\* There is something to fetch behind every instruction but the last: at least
\* the cleared entry
LEMMA NextFetchCorrect ==
    ASSUME trace \in Programs, fetch_index \in {0} \union Entries, fetch_index < sim_num_insn
    PROVE  /\ NextFetch \in Entries /\ NextFetch > fetch_index /\ ~IS_TRAP(NextFetch)
           /\ \A i \in fetch_index + 1 .. NextFetch - 1 : IS_TRAP(i)
<1>. DEFINE T == {j \in Entries : j > fetch_index /\ ~IS_TRAP(j)}
            n == Len(trace)
<1>1. n \in Nat /\ DOMAIN trace = 1 .. n /\ Entries = 1 .. n + 1 /\ fetch_index \in 0 .. n - 1
  BY TomasuloAssumption DEF sim_num_insn, Entries
<1>2. n + 1 \in T
  BY <1>1 DEF IS_TRAP, get_instr, Zeroed
<1>3. T \subseteq Nat /\ T # {}
  BY <1>1, <1>2
<1>4. PICK j \in T : \A l \in T : j <= l
  <2>. HIDE DEF T
  <2>. QED  BY <1>3, SmallestOf
<1>5. \A l \in fetch_index + 1 .. j - 1 : IS_TRAP(l)
  BY <1>1, <1>4
<1>. QED  BY <1>4, <1>5 DEF NextFetch

\* The trace does not change, and nothing that depends on it only
LEMMA Static ==
    ASSUME trace' = trace
    PROVE  /\ sim_num_insn' = sim_num_insn /\ Entries' = Entries
           /\ \A i : /\ IS_CTRL(i)' = IS_CTRL(i) /\ IS_STORE(i)' = IS_STORE(i)
                     /\ IS_TRAP(i)' = IS_TRAP(i) /\ WRITES_CDB(i)' = WRITES_CDB(i)
                     /\ USES_INT_FU(i)' = USES_INT_FU(i) /\ USES_FP_FU(i)' = USES_FP_FU(i)
                     /\ NeedsUnit(i)' = NeedsUnit(i)
                     /\ get_instr(i)' = get_instr(i)
                     /\ Producers(i)' = Producers(i)
           /\ \A i, r : LastWriter(i, r)' = LastWriter(i, r)
BY DEF sim_num_insn, Entries, IS_CTRL, IS_STORE, IS_TRAP, WRITES_CDB, USES_INT_FU, USES_FP_FU,
       NeedsUnit, get_instr, Producers, LastWriter, Writes

-----------------------------------------------------------------------------
(* What the invariant says of a state *)

\* Types and places, as the proofs below need them
LEMMA Basics ==
    ASSUME IInv
    PROVE  /\ trace \in Programs /\ sim_num_insn \in Nat /\ Entries = 1 .. sim_num_insn + 1
           /\ cycle \in Nat \ {0}
           /\ NextDispatch \in Nat \ {0} /\ \A i \in Nat \ {0} : i < NextDispatch => i \in Entries
           /\ \A i \in Stations : i \in Entries /\ NeedsUnit(i) /\ i < NextDispatch
           /\ \A i \in Entries : /\ tom_execute_cycle[i] \in Nat /\ tom_cdb_cycle[i] \in Nat
                                 /\ i \in reservINT => USES_INT_FU(i)
                                 /\ i \in reservFP => USES_FP_FU(i)
           /\ commonDataBus # NULL =>
                  /\ commonDataBus \in Entries /\ WRITES_CDB(commonDataBus)
                  /\ commonDataBus \notin Stations /\ commonDataBus < NextDispatch
<1>1. /\ trace \in Programs /\ sim_num_insn \in Nat /\ Entries = 1 .. sim_num_insn + 1
      /\ cycle \in Nat \ {0}
      /\ \A i \in Entries : /\ tom_execute_cycle[i] \in Nat /\ tom_cdb_cycle[i] \in Nat
                            /\ i \in reservINT => USES_INT_FU(i)
                            /\ i \in reservFP => USES_FP_FU(i)
  <2>1. trace \in Programs /\ sim_num_insn \in Nat
    BY TomasuloAssumption DEF IInv, TypeOK, sim_num_insn
  <2>2. Entries = 1 .. sim_num_insn + 1
    BY DEF Entries
  <2>. QED  BY <2>1, <2>2 DEF IInv, TypeOK
<1>2. /\ NextDispatch \in Nat \ {0}
      /\ \A i \in Nat \ {0} : i < NextDispatch => i \in Entries
  <2>1. fetch_index \in {0} \union Entries /\ instr_queue \in Seq(Entries)
    BY DEF IInv, TypeOK
  <2>2. instr_queue # <<>> => Head(instr_queue) \in Entries
    BY <2>1
  <2>. QED  BY <1>1, <2>1, <2>2 DEF NextDispatch
<1>3. \A i \in Stations : i \in Entries /\ NeedsUnit(i) /\ i < NextDispatch
  BY DEF IInv, TypeOK, Stations, NeedsUnit, Progress
<1>4. commonDataBus # NULL =>
          /\ commonDataBus \in Entries /\ WRITES_CDB(commonDataBus)
          /\ commonDataBus \notin Stations /\ commonDataBus < NextDispatch
  BY DEF IInv, TypeOK, StampsInOrder, Progress
<1>. QED  BY <1>1, <1>2, <1>3, <1>4

\* A writer that was dispatched is awaited until its result has left the bus
LEMMA AwaitedWriter ==
    ASSUME IInv, NEW n \in Nat, n <= NextDispatch, NEW r \in Regs, LastWriter(n, r) # NULL
    PROVE  LET w == LastWriter(n, r)
           IN  /\ w \in Entries /\ w < n /\ WRITES_CDB(w)
               /\ Outstanding(w) <=> tom_cdb_cycle[w] = 0 \/ w = commonDataBus
<1>. DEFINE w == LastWriter(n, r)
<1>1. w \in 1 .. n - 1 /\ Writes(w, r)
  BY LastWriterCorrect
<1>2. w \in Nat \ {0} /\ w < n /\ w < NextDispatch
  BY <1>1, Basics
<1>3. w \in Entries
  BY <1>2, Basics
<1>4. WRITES_CDB(w) /\ NeedsUnit(w) /\ ~IS_STORE(w)
  BY <1>1, <1>3, Basics, ClassFacts
<1>5. w \notin Stations <=> tom_cdb_cycle[w] # 0
  BY <1>2, <1>3, <1>4 DEF IInv, Progress
<1>. HIDE DEF w
<1>6. Outstanding(w) <=> tom_cdb_cycle[w] = 0 \/ w = commonDataBus
  BY <1>2, <1>5 DEF Outstanding, Stations, NULL
<1>. QED  BY <1>2, <1>3, <1>4, <1>6 DEF w

\* A producer is an older instruction
LEMMA ProducerIsOlder ==
    ASSUME IInv, NEW i \in Entries, NEW p \in Producers(i)
    PROVE  p \in Entries /\ p < i
<1>1. PICK r : p = LastWriter(i, r) /\ p # NULL
  BY DEF Producers
<1>2. i \in Nat /\ Entries = 1 .. sim_num_insn + 1 /\ sim_num_insn \in Nat
  BY Basics
<1>3. p \in 1 .. i - 1
  BY <1>1, <1>2, LastWriterCorrect
<1>. QED  BY <1>2, <1>3

\* Stations and units are finite sets of instructions
LEMMA FiniteUnits ==
    ASSUME IInv
    PROVE  /\ reservINT \subseteq Entries /\ reservFP \subseteq Entries
           /\ fuINT \subseteq reservINT /\ fuFP \subseteq reservFP
           /\ \A S \in SUBSET Entries : IsFiniteSet(S) /\ Cardinality(S) \in Nat
<1>1. sim_num_insn \in Nat /\ Entries = 1 .. sim_num_insn + 1
  BY Basics
<1>2. IsFiniteSet(Entries)
  BY <1>1, FS_Interval
<1>3. ASSUME NEW S \in SUBSET Entries  PROVE IsFiniteSet(S) /\ Cardinality(S) \in Nat
  BY <1>2, FS_Subset, FS_CardinalityType
<1>. QED  BY <1>3 DEF IInv, TypeOK, StationsMatchUnits

\* A set of instructions that is not full has room for one more
LEMMA OneMore ==
    ASSUME IInv, NEW S \in SUBSET Entries, NEW size \in Nat,
           Cardinality(S) <= size, Cardinality(S) # size, NEW i
    PROVE  Cardinality(S \union {i}) <= size
<1>1. IsFiniteSet(S) /\ Cardinality(S) \in Nat
  BY FiniteUnits
<1>2. Cardinality(S \union {i}) = Cardinality(S) \/ Cardinality(S \union {i}) = Cardinality(S) + 1
  BY <1>1, FS_AddElement
<1>. QED  BY <1>1, <1>2

-----------------------------------------------------------------------------
(* What a step leaves alone *)

\* The history of the instructions
LEMMA SameStamps ==
    ASSUME IInv, UNCHANGED <<trace, tom_execute_cycle, tom_cdb_cycle>>
    PROVE  RAWRespected' /\ OneResultPerCycle' /\ OlderExecutesFirst'
<1>1. RAWRespected /\ OneResultPerCycle /\ OlderExecutesFirst
  BY DEF IInv
<1>. QED  BY <1>1, Static DEF RAWRespected, OneResultPerCycle, OlderExecutesFirst

\* The queue
LEMMA SameQueue ==
    ASSUME IInv, UNCHANGED <<trace, fetch_index, instr_queue>>
    PROVE  QueueInOrder' /\ NextDispatch' = NextDispatch
<1>1. QueueInOrder /\ NextDispatch' = NextDispatch
  BY DEF IInv, NextDispatch
<1>. QED  BY <1>1, Static DEF QueueInOrder

\* Stations and units
LEMMA SameStations ==
    ASSUME IInv, UNCHANGED <<trace, instr_queue, reservINT, reservFP, fuINT, fuFP,
                             tom_execute_cycle, tom_cdb_cycle>>
    PROVE  StationsMatchUnits' /\ Stations' = Stations
BY DEF IInv, StationsMatchUnits, Stations

\* The tags
LEMMA SameTags ==
    ASSUME IInv, UNCHANGED <<trace, fetch_index, instr_queue, reservINT, reservFP, commonDataBus,
                             map_table, Q>>
    PROVE  MapTableNamesLastWriter' /\ QNamesLastWriter'
<1>1. \A i : Awaited(i)' = Awaited(i)
  BY DEF Awaited, Outstanding
<1>2. NextDispatch' = NextDispatch
  BY SameQueue
<1>. QED  BY <1>1, <1>2, Static DEF IInv, MapTableNamesLastWriter, QNamesLastWriter

-----------------------------------------------------------------------------
(* The steps *)

\* CDB_To_retire keeps the invariant: whoever waits for the result on the bus
\* stops waiting, and the result is no longer outstanding
LEMMA RetireKeeps ==
    ASSUME IInv, CDB_To_retire
    PROVE  IInv'
<1>1. /\ stage = "CDB_To_retire" /\ stage' = "execute_To_CDB" /\ commonDataBus' = NULL
      /\ UNCHANGED <<trace, cycle, fetch_index, instr_queue, reservINT, reservFP, fuINT, fuFP, times>>
  BY DEF CDB_To_retire, Goto
<1>2. /\ UNCHANGED <<trace, tom_dispatch_cycle, tom_issue_cycle, tom_execute_cycle, tom_cdb_cycle>>
      /\ Stations' = Stations /\ NextDispatch' = NextDispatch
  BY <1>1, SameQueue DEF times, Stations
<1>3. /\ Q \in [Entries -> [0 .. 2 -> {NULL} \union Entries]]
      /\ map_table \in [Regs -> {NULL} \union Entries]
  BY DEF IInv, TypeOK
<1>4. ASSUME NEW i \in Entries, NEW k \in 0 .. 2
      PROVE  Q'[i][k] = IF i \in Stations /\ Q[i][k] = commonDataBus THEN NULL ELSE Q[i][k]
  BY <1>3 DEF CDB_To_retire, Stations
<1>5. ASSUME NEW r \in Regs
      PROVE  map_table'[r] = IF map_table[r] = commonDataBus THEN NULL ELSE map_table[r]
  BY <1>3 DEF CDB_To_retire
<1>6. /\ Q' \in [Entries -> [0 .. 2 -> {NULL} \union Entries]]
      /\ map_table' \in [Regs -> {NULL} \union Entries]
  BY <1>3 DEF CDB_To_retire
<1>7. ASSUME NEW n \in Nat, n <= NextDispatch, NEW r \in Regs
      PROVE  LET w == LastWriter(n, r)
             IN  Awaited(w)' = IF Awaited(w) = commonDataBus THEN NULL ELSE Awaited(w)
  <2>1. LastWriter(n, r)' = LastWriter(n, r)
    BY <1>2, Static
  <2>2. LastWriter(n, r) = commonDataBus => LastWriter(n, r) \notin Stations \/ LastWriter(n, r) = NULL
    BY Basics
  <2>. QED  BY <1>1, <2>1, <2>2 DEF Awaited, Outstanding, Stations, NULL
<1>8. TypeOK'
  BY <1>1, <1>2, <1>6, Static DEF IInv, TypeOK, Stages
<1>9. Progress'
  BY <1>2, <1>4, Static DEF IInv, Progress
<1>10. StampsInOrder'
  BY <1>1, <1>2, Static DEF IInv, StampsInOrder, AfterBroadcast
<1>11. MapTableNamesLastWriter'
  <2>1. ASSUME NEW r \in Regs  PROVE map_table'[r] = Awaited(LastWriter(NextDispatch, r))'
    <3>1. map_table[r] = Awaited(LastWriter(NextDispatch, r))
      BY DEF IInv, MapTableNamesLastWriter
    <3>. QED  BY <1>2, <1>5, <1>7, <3>1, Basics, Static
  <2>. QED  BY <2>1 DEF MapTableNamesLastWriter
<1>12. QNamesLastWriter'
  <2>1. ASSUME NEW i \in Stations, NEW k \in 0 .. 2, NEW r, r = get_instr(i).r_in[k]
        PROVE  Q'[i][k] = IF r > 0 THEN Awaited(LastWriter(i, r))' ELSE NULL
    <3>1. i \in Entries /\ i \in Nat /\ i <= NextDispatch /\ r \in Regs \union {0}
      BY <2>1, Basics, ClassFacts
    <3>2. Q[i][k] = IF r > 0 THEN Awaited(LastWriter(i, r)) ELSE NULL
      BY <2>1 DEF IInv, QNamesLastWriter, Stations
    <3>3. r > 0 => r \in Regs
      BY <3>1
    <3>. QED  BY <1>4, <1>7, <3>1, <3>2, <3>3
  <2>. QED  BY <1>2, <2>1, Static DEF QNamesLastWriter, Stations
<1>13. DoneMeansFinished'
  BY <1>1 DEF DoneMeansFinished
<1>. QED  BY <1>1, <1>2, <1>8, <1>9, <1>10, <1>11, <1>12, <1>13,
             SameStamps, SameQueue, SameStations DEF IInv

\* What leaves a station in execute_To_CDB: the finished stores, and at most
\* one other instruction, which takes the bus
LEMMA BroadcastCorrect ==
    ASSUME IInv, execute_To_CDB
    PROVE  \E left, winner \in SUBSET Stations :
               /\ winner \subseteq left
               /\ reservINT' = reservINT \ left /\ reservFP' = reservFP \ left
               /\ fuINT' = fuINT \ left /\ fuFP' = fuFP \ left
               /\ tom_cdb_cycle' = Stamp(tom_cdb_cycle, winner)
               /\ \A i \in left : tom_execute_cycle[i] # 0 /\ (IS_STORE(i) \/ i \in winner)
               /\ \/ winner = {} /\ commonDataBus' = NULL
                  \/ /\ winner = {commonDataBus'} /\ WRITES_CDB(commonDataBus')
                     /\ tom_cdb_cycle[commonDataBus'] = 0
<1>. DEFINE stores == {i \in Executed : IS_STORE(i)}
            winner == Oldest(Executed \ stores)
            left == stores \union winner
<1>1. stage = "execute_To_CDB" /\ commonDataBus = NULL
  BY DEF execute_To_CDB, Goto, IInv, StampsInOrder
<1>2. winner \subseteq left /\ left \subseteq Executed /\ winner \subseteq Executed \ stores
  BY DEF Oldest
<1>3. Executed \subseteq fuINT \union fuFP
  BY DEF Executed
<1>4. left \subseteq Stations /\ \A i \in left : tom_execute_cycle[i] # 0
  BY <1>2, <1>3 DEF IInv, StationsMatchUnits, Stations
<1>5. ASSUME NEW i \in left
      PROVE  /\ i \in reservINT \union fuINT => USES_INT_FU(i)
             /\ i \in reservFP \union fuFP => USES_FP_FU(i)
  <2>1. i \in Entries
    BY <1>4, Basics
  <2>. QED  BY <2>1, Basics, FiniteUnits
<1>6. /\ reservINT' = reservINT \ left /\ reservFP' = reservFP \ left
      /\ fuINT' = fuINT \ left /\ fuFP' = fuFP \ left
  <2>1. /\ reservINT' = reservINT \ {i \in left : USES_INT_FU(i)}
        /\ fuINT' = fuINT \ {i \in left : USES_INT_FU(i)}
        /\ reservFP' = reservFP \ {i \in left : USES_FP_FU(i)}
        /\ fuFP' = fuFP \ {i \in left : USES_FP_FU(i)}
    BY DEF execute_To_CDB
  <2>. HIDE DEF left
  <2>. QED  BY <1>5, <2>1
<1>7. tom_cdb_cycle' = Stamp(tom_cdb_cycle, winner)
  BY DEF execute_To_CDB
<1>8. \A i \in left : IS_STORE(i) \/ i \in winner
  OBVIOUS
<1>9. \/ winner = {} /\ commonDataBus' = NULL
      \/ /\ winner = {commonDataBus'} /\ WRITES_CDB(commonDataBus')
         /\ tom_cdb_cycle[commonDataBus'] = 0
  <2>1. commonDataBus' = IF winner = {} THEN NULL ELSE CHOOSE i \in winner : TRUE
    BY <1>1 DEF execute_To_CDB
  <2>2. CASE winner = {}  BY <2>1, <2>2
  <2>3. CASE winner # {}
    <3>1. \A i \in winner : i \in Nat /\ i \in Stations
      BY <1>2, <1>4, Basics
    <3>2. \A i, j \in winner : i <= j
      BY DEF Oldest
    <3>3. \A i, j \in winner : i = j
      BY <3>1, <3>2
    <3>4. commonDataBus' \in winner
      <4>. HIDE DEF winner
      <4>. QED  BY <2>1, <2>3
    <3>5. winner = {commonDataBus'} /\ commonDataBus' \in Stations
      BY <3>1, <3>3, <3>4
    <3>6. ~IS_STORE(commonDataBus')
      BY <1>2, <3>4
    <3>7. commonDataBus' \in Entries /\ NeedsUnit(commonDataBus')
      BY <3>5, Basics
    <3>8. WRITES_CDB(commonDataBus')
      BY <3>6, <3>7, Basics, ClassFacts
    <3>9. tom_cdb_cycle[commonDataBus'] = 0
      BY <3>5 DEF IInv, StationsMatchUnits, Stations
    <3>. QED  BY <3>5, <3>8, <3>9
  <2>. QED  BY <2>2, <2>3
<1>. HIDE DEF left, winner
<1>. QED  BY <1>2, <1>4, <1>6, <1>7, <1>8, <1>9

\* execute_To_CDB keeps the invariant: the winner moves from its station to the
\* bus, and no other result was broadcast in this cycle
LEMMA BroadcastKeeps ==
    ASSUME IInv, execute_To_CDB
    PROVE  IInv'
<1>1. /\ stage = "execute_To_CDB" /\ stage' = "issue_To_execute" /\ commonDataBus = NULL
      /\ UNCHANGED <<trace, cycle, fetch_index, instr_queue, map_table, Q,
                     tom_dispatch_cycle, tom_issue_cycle, tom_execute_cycle>>
  BY DEF execute_To_CDB, Goto, IInv, StampsInOrder
<1>2. PICK left, winner \in SUBSET Stations :
          /\ winner \subseteq left
          /\ reservINT' = reservINT \ left /\ reservFP' = reservFP \ left
          /\ fuINT' = fuINT \ left /\ fuFP' = fuFP \ left
          /\ tom_cdb_cycle' = Stamp(tom_cdb_cycle, winner)
          /\ \A i \in left : tom_execute_cycle[i] # 0 /\ (IS_STORE(i) \/ i \in winner)
          /\ \/ winner = {} /\ commonDataBus' = NULL
             \/ /\ winner = {commonDataBus'} /\ WRITES_CDB(commonDataBus')
                /\ tom_cdb_cycle[commonDataBus'] = 0
  BY BroadcastCorrect
<1>3. Stations' = Stations \ left /\ NextDispatch' = NextDispatch
  BY <1>1, <1>2, SameQueue DEF Stations
<1>4. /\ tom_cdb_cycle' \in [Entries -> Nat]
      /\ \A i \in Entries : tom_cdb_cycle'[i] = IF i \in winner THEN cycle ELSE tom_cdb_cycle[i]
  <2>1. tom_cdb_cycle \in [Entries -> Nat] /\ cycle \in Nat
    BY DEF IInv, TypeOK
  <2>. QED  BY <1>2, <2>1 DEF Stamp
<1>5. \A i \in winner : /\ i \in Entries /\ i # NULL /\ i = commonDataBus' /\ i \in Stations
                        /\ WRITES_CDB(i) /\ NeedsUnit(i) /\ ~IS_STORE(i)
                        /\ i < NextDispatch /\ tom_cdb_cycle[i] = 0
  <2>1. \A i \in winner : i = commonDataBus' /\ WRITES_CDB(i) /\ tom_cdb_cycle[i] = 0 /\ i \in Stations
    BY <1>2
  <2>2. ASSUME NEW i \in Stations
        PROVE  i \in Entries /\ i # 0 /\ NeedsUnit(i) /\ i < NextDispatch
    BY Basics
  <2>. QED  BY <2>1, <2>2, Basics, ClassFacts DEF NULL
<1>6. \A i \in Entries : /\ tom_cdb_cycle[i] \in Nat /\ tom_execute_cycle[i] <= cycle
                         /\ tom_cdb_cycle[i] < cycle /\ cycle \in Nat \ {0}
  BY <1>1, Basics DEF IInv, StampsInOrder, AfterBroadcast
<1>7. TypeOK'
  <2>1. \A S, T \in SUBSET Entries : S \subseteq T => Cardinality(S) <= Cardinality(T)
    BY FiniteUnits, FS_Subset
  <2>2. /\ Cardinality(reservINT') <= RESERV_INT_SIZE /\ Cardinality(reservFP') <= RESERV_FP_SIZE
        /\ Cardinality(fuINT') <= FU_INT_SIZE /\ Cardinality(fuFP') <= FU_FP_SIZE
    <3>1. /\ Cardinality(reservINT) <= RESERV_INT_SIZE /\ Cardinality(reservFP) <= RESERV_FP_SIZE
          /\ Cardinality(fuINT) <= FU_INT_SIZE /\ Cardinality(fuFP) <= FU_FP_SIZE
      BY DEF IInv, TypeOK
    <3>2. /\ reservINT' \subseteq reservINT /\ reservFP' \subseteq reservFP
          /\ fuINT' \subseteq fuINT /\ fuFP' \subseteq fuFP
      BY <1>2
    <3>3. /\ Cardinality(reservINT') <= Cardinality(reservINT)
          /\ Cardinality(reservFP') <= Cardinality(reservFP)
          /\ Cardinality(fuINT') <= Cardinality(fuINT)
          /\ Cardinality(fuFP') <= Cardinality(fuFP)
      BY <2>1, <3>2, FiniteUnits
    <3>4. /\ \A S \in {reservINT, reservFP, fuINT, fuFP, reservINT', reservFP', fuINT', fuFP'} :
                 Cardinality(S) \in Nat
      BY <3>2, FiniteUnits
    <3>. QED  BY <3>1, <3>3, <3>4, TomasuloAssumption
  <2>3. commonDataBus' \in {NULL} \union {i \in Entries : WRITES_CDB(i)}
    BY <1>2, <1>5
  <2>. QED  BY <1>1, <1>2, <1>4, <2>2, <2>3, Static DEF IInv, TypeOK, Stages
<1>8. StationsMatchUnits'
  <2>1. ASSUME NEW i \in Stations \ left  PROVE tom_cdb_cycle'[i] = 0
    BY <1>2, <1>4, Basics DEF IInv, StationsMatchUnits, Stations
  <2>. QED  BY <1>1, <1>2, <1>3, <2>1 DEF IInv, StationsMatchUnits, Stations
<1>9. Progress'
  BY <1>1, <1>2, <1>3, <1>4, <1>5, <1>6, Static DEF IInv, Progress
<1>10. StampsInOrder'
  <2>1. AfterBroadcast'
    BY <1>1 DEF AfterBroadcast
  <2>2. ASSUME NEW i \in Entries
        PROVE  /\ tom_execute_cycle'[i] <= cycle' /\ tom_cdb_cycle'[i] <= cycle'
               /\ tom_cdb_cycle'[i] = cycle' <=> i = commonDataBus'
    <3>1. i = commonDataBus' => i \in winner
      BY <1>2, Basics DEF NULL
    <3>. QED  BY <1>1, <1>4, <1>5, <1>6, <3>1
  <2>3. commonDataBus' # NULL => tom_cdb_cycle'[commonDataBus'] # 0
    BY <1>2, <1>4, <1>5, <1>6
  <2>. QED  BY <1>1, <2>1, <2>2, <2>3, Static DEF StampsInOrder
<1>11. ASSUME NEW n \in Nat, n <= NextDispatch, NEW r \in Regs
       PROVE  Awaited(LastWriter(n, r))' = Awaited(LastWriter(n, r))
  <2>1. LastWriter(n, r)' = LastWriter(n, r)
    BY <1>1, Static
  <2>2. ASSUME NEW w, w = LastWriter(n, r)
        PROVE  Awaited(w)' = Awaited(w)
    <3>1. w # NULL => WRITES_CDB(w) /\ w \in Entries
      BY <1>11, <2>2, AwaitedWriter
    <3>2. w # NULL => ~IS_STORE(w)
      BY <3>1, Basics, ClassFacts
    <3>3. w # NULL => (w \in Stations' \/ w = commonDataBus' <=> w \in Stations)
      BY <1>2, <1>3, <3>2
    <3>. QED  BY <1>1, <3>3 DEF Awaited, Outstanding, Stations
  <2>. QED  BY <2>1, <2>2
<1>12. MapTableNamesLastWriter'
  BY <1>1, <1>3, <1>11, Basics DEF IInv, MapTableNamesLastWriter
<1>13. QNamesLastWriter'
  <2>1. ASSUME NEW i \in Stations, NEW k \in 0 .. 2, NEW r, r = get_instr(i).r_in[k]
        PROVE  Q'[i][k] = IF r > 0 THEN Awaited(LastWriter(i, r))' ELSE NULL
    <3>1. i \in Entries /\ i \in Nat /\ i <= NextDispatch /\ r \in Regs \union {0}
      BY <2>1, Basics, ClassFacts
    <3>2. Q[i][k] = IF r > 0 THEN Awaited(LastWriter(i, r)) ELSE NULL
      BY <2>1 DEF IInv, QNamesLastWriter, Stations
    <3>3. r > 0 => r \in Regs
      BY <3>1
    <3>. QED  BY <1>1, <1>11, <3>1, <3>2, <3>3
  <2>. QED  BY <1>1, <1>3, <2>1, Static DEF QNamesLastWriter, Stations
<1>14. RAWRespected'
  <2>1. ASSUME NEW i \in Entries, tom_execute_cycle[i] # 0, NEW p \in Producers(i)
        PROVE  tom_cdb_cycle'[p] # 0 /\ tom_cdb_cycle'[p] < tom_execute_cycle[i]
    <3>1. p \in Entries /\ tom_cdb_cycle[p] # 0 /\ tom_cdb_cycle[p] < tom_execute_cycle[i]
      BY <2>1, ProducerIsOlder DEF IInv, RAWRespected
    <3>. QED  BY <1>4, <1>5, <3>1
  <2>. QED  BY <1>1, <2>1, Static DEF RAWRespected
<1>15. OneResultPerCycle'
  <2>1. ASSUME NEW i \in Entries, tom_cdb_cycle'[i] # 0, NEW j \in Entries
        PROVE  WRITES_CDB(i) /\ (i # j => tom_cdb_cycle'[i] # tom_cdb_cycle'[j])
    BY <1>4, <1>5, <1>6, <2>1 DEF IInv, OneResultPerCycle
  <2>. QED  BY <1>1, <2>1, Static DEF OneResultPerCycle
<1>16. OlderExecutesFirst'
  <2>1. ASSUME NEW j \in Entries, tom_execute_cycle[j] # 0, NEW i \in 1 .. j - 1,
               USES_INT_FU(i) = USES_INT_FU(j), USES_FP_FU(i) = USES_FP_FU(j),
               tom_execute_cycle[i] = 0 \/ tom_execute_cycle[i] > tom_execute_cycle[j]
        PROVE  \E p \in Producers(i) : tom_cdb_cycle'[p] = 0 \/ tom_cdb_cycle'[p] >= tom_execute_cycle[j]
    <3>1. PICK p \in Producers(i) : tom_cdb_cycle[p] = 0 \/ tom_cdb_cycle[p] >= tom_execute_cycle[j]
      BY <2>1 DEF IInv, OlderExecutesFirst
    <3>2. i \in Entries
      BY Basics
    <3>3. p \in Entries
      BY <3>2, ProducerIsOlder
    <3>. QED  BY <1>4, <1>6, <3>1, <3>3
  <2>. QED  BY <1>1, <2>1, Static DEF OlderExecutesFirst
<1>17. DoneMeansFinished'
  BY <1>1 DEF DoneMeansFinished
<1>. QED  BY <1>1, <1>7, <1>8, <1>9, <1>10, <1>12, <1>13, <1>14, <1>15, <1>16, <1>17,
             SameQueue DEF IInv

\* Of the ready instructions of one kind of station the oldest begin, and no
\* more than there are free units
LEMMA FirstOfReady ==
    ASSUME IInv, NEW reserv \in SUBSET Entries, NEW fu \in SUBSET Entries, NEW size \in Nat,
           Cardinality(fu) <= size
    PROVE  LET first == FirstOf(Ready(reserv), size - Cardinality(fu))
           IN  /\ first \subseteq Ready(reserv) /\ Ready(reserv) \subseteq reserv
               /\ Cardinality(fu \union first) <= size
               /\ \A j \in first, i \in Ready(reserv) : i < j => i \in first
<1>. DEFINE R == Ready(reserv)
            n == size - Cardinality(fu)
            first == FirstOf(R, n)
            Older(i) == {j \in R : j < i}
<1>1. sim_num_insn + 1 \in Nat /\ Entries = 1 .. sim_num_insn + 1
  BY Basics
<1>2. R \subseteq reserv /\ R \in SUBSET (1 .. sim_num_insn + 1)
  BY <1>1 DEF Ready
<1>3. n \in Nat /\ IsFiniteSet(fu) /\ Cardinality(fu) \in Nat
  BY FiniteUnits
<1>. HIDE DEF R, n
<1>4. first \subseteq R /\ IsFiniteSet(first) /\ Cardinality(first) <= n /\ Cardinality(first) \in Nat
  BY <1>1, <1>2, <1>3, FirstOfBound, FS_CardinalityType
<1>5. Cardinality(fu \union first) <= size
  <2>1. /\ IsFiniteSet(fu \intersect first) /\ Cardinality(fu \intersect first) \in Nat
    BY <1>3, FS_Intersection, FS_CardinalityType
  <2>2. Cardinality(fu \union first) = Cardinality(fu) + Cardinality(first) - Cardinality(fu \intersect first)
    BY <1>3, <1>4, FS_Union
  <2>3. Cardinality(first) + Cardinality(fu) <= size
    BY <1>3, <1>4 DEF n
  <2>. HIDE DEF first
  <2>. QED  BY <1>3, <1>4, <2>1, <2>2, <2>3
<1>6. ASSUME NEW j \in first, NEW i \in R, i < j
      PROVE  i \in first
  <2>1. \A l \in R : l \in Nat
    BY <1>2
  <2>2. Older(i) \subseteq Older(j) /\ Older(j) \in SUBSET Entries
    <3>1. j \in R /\ R \subseteq Entries
      BY <1>1, <1>2, <1>4
    <3>2. \A l \in R : l < i => l < j
      BY <1>6, <2>1, <3>1
    <3>. QED  BY <3>1, <3>2
  <2>3. /\ Cardinality(Older(i)) <= Cardinality(Older(j))
        /\ Cardinality(Older(i)) \in Nat /\ Cardinality(Older(j)) \in Nat
    <3>. HIDE DEF Older
    <3>. QED  BY <2>2, FiniteUnits, FS_Subset
  <2>4. Cardinality(Older(j)) < n
    BY DEF FirstOf
  <2>5. Cardinality(Older(i)) < n
    BY <1>3, <2>3, <2>4
  <2>. QED  BY <2>5 DEF FirstOf
<1>. QED  BY <1>2, <1>4, <1>5, <1>6 DEF R, n

\* An instruction without a tag that is waiting in a station
Unblocked(i) == tom_execute_cycle[i] = 0 /\ \A k \in 0 .. 2 : Q[i][k] = NULL

\* What begins to execute in issue_To_execute
LEMMA BeginCorrect ==
    ASSUME IInv, issue_To_execute
    PROVE  \E begun \in SUBSET Stations :
               /\ tom_execute_cycle' = Stamp(tom_execute_cycle, begun)
               /\ fuINT' = fuINT \union (begun \intersect reservINT)
               /\ fuFP' = fuFP \union (begun \intersect reservFP)
               /\ Cardinality(fuINT') <= FU_INT_SIZE /\ Cardinality(fuFP') <= FU_FP_SIZE
               /\ \A i \in begun : Unblocked(i)
               /\ \A j \in begun, i \in Stations :
                      /\ USES_INT_FU(i) = USES_INT_FU(j) /\ USES_FP_FU(i) = USES_FP_FU(j)
                      /\ i < j /\ Unblocked(i)
                      => i \in begun
<1>. DEFINE int == FirstOf(Ready(reservINT), FU_INT_SIZE - Cardinality(fuINT))
            fp == FirstOf(Ready(reservFP), FU_FP_SIZE - Cardinality(fuFP))
            begun == int \union fp
<1>1. /\ reservINT \in SUBSET Entries /\ reservFP \in SUBSET Entries
      /\ fuINT \in SUBSET Entries /\ fuFP \in SUBSET Entries
      /\ FU_INT_SIZE \in Nat /\ FU_FP_SIZE \in Nat
      /\ Cardinality(fuINT) <= FU_INT_SIZE /\ Cardinality(fuFP) <= FU_FP_SIZE
  BY FiniteUnits, TomasuloAssumption DEF IInv, TypeOK
<1>2. /\ fuINT' = fuINT \union int /\ fuFP' = fuFP \union fp
      /\ tom_execute_cycle' = Stamp(tom_execute_cycle, begun)
  BY DEF issue_To_execute
<1>3. /\ int \subseteq Ready(reservINT) /\ Ready(reservINT) \subseteq reservINT
      /\ Cardinality(fuINT \union int) <= FU_INT_SIZE
      /\ \A j \in int, i \in Ready(reservINT) : i < j => i \in int
  BY <1>1, FirstOfReady
<1>4. /\ fp \subseteq Ready(reservFP) /\ Ready(reservFP) \subseteq reservFP
      /\ Cardinality(fuFP \union fp) <= FU_FP_SIZE
      /\ \A j \in fp, i \in Ready(reservFP) : i < j => i \in fp
  BY <1>1, FirstOfReady
<1>5. /\ \A i \in reservINT : USES_INT_FU(i) /\ ~USES_FP_FU(i)
      /\ \A i \in reservFP : USES_FP_FU(i) /\ ~USES_INT_FU(i)
  BY <1>1, Basics, ClassFacts
<1>6. /\ \A i \in Ready(reservINT) \union Ready(reservFP) : Unblocked(i)
      /\ \A i \in reservINT : Unblocked(i) => i \in Ready(reservINT)
      /\ \A i \in reservFP : Unblocked(i) => i \in Ready(reservFP)
  BY DEF Ready, Unblocked
<1>. HIDE DEF int, fp
<1>7. int = begun \intersect reservINT /\ fp = begun \intersect reservFP /\ begun \in SUBSET Stations
  BY <1>3, <1>4, <1>5 DEF Stations
<1>8. ASSUME NEW j \in begun, NEW i \in Stations,
             USES_INT_FU(i) = USES_INT_FU(j), USES_FP_FU(i) = USES_FP_FU(j),
             i < j, Unblocked(i)
      PROVE  i \in begun
  BY <1>3, <1>4, <1>5, <1>6, <1>8 DEF Stations
<1>. QED  BY <1>2, <1>3, <1>4, <1>6, <1>7, <1>8

\* issue_To_execute keeps the invariant: what begins has all its operands, and
\* an older instruction of its class that stays behind has not
LEMMA BeginKeeps ==
    ASSUME IInv, issue_To_execute
    PROVE  IInv'
<1>1. /\ stage = "issue_To_execute" /\ stage' = "dispatch_To_issue"
      /\ UNCHANGED <<trace, cycle, fetch_index, instr_queue, reservINT, reservFP, commonDataBus,
                     map_table, Q, tom_dispatch_cycle, tom_issue_cycle, tom_cdb_cycle>>
  BY DEF issue_To_execute, Goto
<1>2. PICK begun \in SUBSET Stations :
          /\ tom_execute_cycle' = Stamp(tom_execute_cycle, begun)
          /\ fuINT' = fuINT \union (begun \intersect reservINT)
          /\ fuFP' = fuFP \union (begun \intersect reservFP)
          /\ Cardinality(fuINT') <= FU_INT_SIZE /\ Cardinality(fuFP') <= FU_FP_SIZE
          /\ \A i \in begun : Unblocked(i)
          /\ \A j \in begun, i \in Stations :
                 /\ USES_INT_FU(i) = USES_INT_FU(j) /\ USES_FP_FU(i) = USES_FP_FU(j)
                 /\ i < j /\ Unblocked(i)
                 => i \in begun
  BY BeginCorrect
<1>3. Stations' = Stations /\ NextDispatch' = NextDispatch
  BY <1>1, SameQueue DEF Stations
<1>4. /\ tom_execute_cycle' \in [Entries -> Nat]
      /\ \A i \in Entries : tom_execute_cycle'[i] = IF i \in begun THEN cycle ELSE tom_execute_cycle[i]
  <2>1. tom_execute_cycle \in [Entries -> Nat] /\ cycle \in Nat
    BY DEF IInv, TypeOK
  <2>. QED  BY <1>2, <2>1 DEF Stamp
<1>5. /\ cycle \in Nat \ {0}
      /\ \A i \in Entries :
             /\ tom_execute_cycle[i] \in Nat /\ tom_execute_cycle[i] <= cycle
             /\ tom_cdb_cycle[i] \in Nat /\ tom_cdb_cycle[i] <= cycle
             /\ tom_cdb_cycle[i] = cycle <=> i = commonDataBus
  BY <1>1, Basics DEF IInv, StampsInOrder, AfterBroadcast
<1>6. TypeOK'
  BY <1>1, <1>2, <1>4, Static DEF IInv, TypeOK, Stages
<1>7. StationsMatchUnits'
  <2>1. /\ fuINT = {i \in reservINT : tom_execute_cycle[i] # 0}
        /\ fuFP = {i \in reservFP : tom_execute_cycle[i] # 0}
    BY DEF IInv, StationsMatchUnits
  <2>2. \A i \in Stations : i \in Entries
    BY Basics
  <2>3. /\ fuINT' = {i \in reservINT : tom_execute_cycle'[i] # 0}
        /\ fuFP' = {i \in reservFP : tom_execute_cycle'[i] # 0}
    BY <1>2, <1>4, <1>5, <2>1, <2>2 DEF Stations
  <2>. QED  BY <1>1, <2>3 DEF IInv, StationsMatchUnits
<1>8. Progress'
  BY <1>1, <1>2, <1>3, <1>4, <1>5, Basics, Static DEF IInv, Progress
<1>9. StampsInOrder'
  BY <1>1, <1>4, <1>5, Static DEF IInv, StampsInOrder, AfterBroadcast
<1>11. MapTableNamesLastWriter' /\ QNamesLastWriter'
  BY <1>1, SameTags
<1>12. ASSUME NEW i \in Stations, NEW k \in 0 .. 2, NEW r \in Regs, r = get_instr(i).r_in[k],
              NEW p, p = LastWriter(i, r), p # NULL
       PROVE  /\ p \in Entries
              /\ Q[i][k] = NULL <=> tom_cdb_cycle[p] # 0 /\ tom_cdb_cycle[p] < cycle
  <2>1. i \in Entries /\ i \in Nat /\ i <= NextDispatch /\ r > 0
    BY Basics, TomasuloAssumption
  <2>2. p \in Entries /\ (Outstanding(p) <=> tom_cdb_cycle[p] = 0 \/ p = commonDataBus)
    BY <1>12, <2>1, AwaitedWriter
  <2>3. Q[i][k] = Awaited(p)
    BY <1>12, <2>1 DEF IInv, QNamesLastWriter, Stations
  <2>4. Q[i][k] = NULL <=> ~Outstanding(p)
    BY <1>12, <2>3 DEF Awaited
  <2>. QED  BY <1>5, <2>2, <2>4
<1>13. ASSUME NEW i \in Stations
       PROVE  /\ \A k \in 0 .. 2 : get_instr(i).r_in[k] \in Regs \union {0}
              /\ \A p \in Producers(i) :
                     \E k \in 0 .. 2 : /\ get_instr(i).r_in[k] \in Regs
                                       /\ p = LastWriter(i, get_instr(i).r_in[k]) /\ p # NULL
              /\ \A k \in 0 .. 2 : get_instr(i).r_in[k] = 0 => Q[i][k] = NULL
              /\ \A k \in 0 .. 2 : get_instr(i).r_in[k] # 0 =>
                     LET p == LastWriter(i, get_instr(i).r_in[k])
                     IN  IF p = NULL THEN Q[i][k] = NULL ELSE p \in Producers(i)
  <2>1. i \in Entries /\ \A k \in 0 .. 2 : get_instr(i).r_in[k] \in Regs \union {0}
    BY Basics, ClassFacts
  <2>2. \A k \in 0 .. 2 : get_instr(i).r_in[k] > 0 <=> get_instr(i).r_in[k] \in Regs
    <3>1. ASSUME NEW r \in Regs \union {0}  PROVE r > 0 <=> r \in Regs
      BY TomasuloAssumption
    <3>. QED  BY <2>1, <3>1
  <2>3. \A k \in 0 .. 2 : Q[i][k] = IF get_instr(i).r_in[k] > 0
                                    THEN Awaited(LastWriter(i, get_instr(i).r_in[k])) ELSE NULL
    BY DEF IInv, QNamesLastWriter, Stations
  <2>4. Awaited(NULL) = NULL
    BY DEF Awaited
  <2>. QED  BY <2>1, <2>2, <2>3, <2>4, TomasuloAssumption DEF Producers
<1>14. RAWRespected'
  <2>1. ASSUME NEW i \in Entries, tom_execute_cycle'[i] # 0, NEW p \in Producers(i)
        PROVE  tom_cdb_cycle[p] # 0 /\ tom_cdb_cycle[p] < tom_execute_cycle'[i]
    <3>1. CASE i \in begun
      <4>1. PICK k \in 0 .. 2 : /\ get_instr(i).r_in[k] \in Regs
                                /\ p = LastWriter(i, get_instr(i).r_in[k]) /\ p # NULL
        BY <1>2, <1>13, <3>1
      <4>2. Q[i][k] = NULL
        BY <1>2, <3>1 DEF Unblocked
      <4>. QED  BY <1>2, <1>4, <1>12, <3>1, <4>1, <4>2
    <3>2. CASE i \notin begun
      BY <1>4, <2>1, <3>2 DEF IInv, RAWRespected
    <3>. QED  BY <3>1, <3>2
  <2>. QED  BY <1>1, <2>1, Static DEF RAWRespected
<1>15. OneResultPerCycle'
  BY <1>1, Static DEF IInv, OneResultPerCycle
<1>16. OlderExecutesFirst'
  <2>1. ASSUME NEW j \in Entries, tom_execute_cycle'[j] # 0, NEW i \in 1 .. j - 1,
               USES_INT_FU(i) = USES_INT_FU(j), USES_FP_FU(i) = USES_FP_FU(j),
               tom_execute_cycle'[i] = 0 \/ tom_execute_cycle'[i] > tom_execute_cycle'[j]
        PROVE  \E p \in Producers(i) : tom_cdb_cycle[p] = 0 \/ tom_cdb_cycle[p] >= tom_execute_cycle'[j]
    <3>1. i \in Entries /\ i < j
      BY Basics
    <3>2. CASE j \in begun
      <4>1. i \notin begun /\ tom_execute_cycle[i] = 0
        BY <1>4, <1>5, <2>1, <3>1, <3>2
      <4>2. i < NextDispatch /\ NeedsUnit(i)
        <5>1. j < NextDispatch /\ NeedsUnit(j) /\ NextDispatch \in Nat
          BY <3>2, Basics
        <5>. QED  BY <2>1, <3>1, <5>1, Basics DEF NeedsUnit
      <4>3. i \in Stations
        BY <3>1, <4>1, <4>2 DEF IInv, Progress
      <4>4. PICK k \in 0 .. 2 : Q[i][k] # NULL
        BY <1>2, <2>1, <3>1, <3>2, <4>1, <4>3 DEF Unblocked
      <4>5. get_instr(i).r_in[k] \in Regs
        BY <1>13, <4>3, <4>4
      <4>6. PICK p \in Producers(i) : p = LastWriter(i, get_instr(i).r_in[k]) /\ p # NULL
        BY <1>13, <4>3, <4>4, <4>5, TomasuloAssumption DEF Producers
      <4>7. p \in Entries /\ ~(tom_cdb_cycle[p] # 0 /\ tom_cdb_cycle[p] < cycle)
        BY <1>12, <4>3, <4>4, <4>5, <4>6
      <4>8. tom_execute_cycle'[j] = cycle
        BY <1>4, <3>2
      <4>. QED  BY <1>5, <4>6, <4>7, <4>8
    <3>3. CASE j \notin begun
      <4>1. tom_execute_cycle'[j] = tom_execute_cycle[j] /\ tom_execute_cycle[j] # 0
        BY <1>4, <2>1, <3>3
      <4>2. tom_execute_cycle[i] = 0 \/ tom_execute_cycle[i] > tom_execute_cycle[j]
        BY <1>2, <1>4, <2>1, <3>1, <4>1 DEF Unblocked
      <4>. QED  BY <2>1, <4>1, <4>2 DEF IInv, OlderExecutesFirst
    <3>. QED  BY <3>2, <3>3
  <2>. QED  BY <1>1, <2>1, Static DEF OlderExecutesFirst
<1>17. DoneMeansFinished'
  BY <1>1 DEF DoneMeansFinished
<1>. QED  BY <1>1, <1>6, <1>7, <1>8, <1>9, <1>11, <1>14, <1>15, <1>16, <1>17,
             SameQueue DEF IInv

\* Taking the head off the queue moves NextDispatch over the traps behind it
LEMMA TailKeepsQueue ==
    ASSUME IInv, instr_queue # <<>>, instr_queue' = Tail(instr_queue),
           UNCHANGED <<trace, fetch_index>>
    PROVE  /\ QueueInOrder'
           /\ NextDispatch = Head(instr_queue) /\ NextDispatch \in Entries /\ ~IS_TRAP(NextDispatch)
           /\ NextDispatch' \in Nat /\ NextDispatch < NextDispatch'
           /\ \A l \in NextDispatch + 1 .. NextDispatch' - 1 : IS_TRAP(l)
           /\ instr_queue' \in Seq(Entries) /\ Len(instr_queue') <= INSTR_QUEUE_SIZE
           /\ \A j \in DOMAIN instr_queue' : instr_queue'[j] > NextDispatch
<1>1. /\ instr_queue \in Seq(Entries) /\ Len(instr_queue) <= INSTR_QUEUE_SIZE
      /\ INSTR_QUEUE_SIZE \in Nat /\ Len(instr_queue) \in Nat
      /\ Entries \subseteq Nat /\ Entries = 1 .. sim_num_insn + 1 /\ sim_num_insn \in Nat
      /\ fetch_index \in Nat
  <2>1. fetch_index \in {0} \union Entries /\ instr_queue \in Seq(Entries)
    BY DEF IInv, TypeOK
  <2>2. Entries = 1 .. sim_num_insn + 1 /\ sim_num_insn \in Nat
    BY Basics
  <2>3. Len(instr_queue) <= INSTR_QUEUE_SIZE
    BY DEF IInv, TypeOK
  <2>. QED  BY <2>1, <2>2, <2>3, TomasuloAssumption
<1>2. PICK i, q : i = Head(instr_queue) /\ q = Tail(instr_queue)
  OBVIOUS
<1>3. /\ \A j \in DOMAIN instr_queue : ~IS_TRAP(instr_queue[j]) /\ instr_queue[j] <= fetch_index
      /\ \A j, k \in DOMAIN instr_queue : j < k => instr_queue[j] < instr_queue[k]
      /\ \A l \in NextDispatch .. fetch_index :
             IS_TRAP(l) \/ \E j \in DOMAIN instr_queue : instr_queue[j] = l
  BY DEF IInv, QueueInOrder
<1>4. /\ i \in Entries /\ i = instr_queue[1] /\ 1 \in DOMAIN instr_queue
      /\ q \in Seq(Entries) /\ Len(q) < Len(instr_queue)
      /\ \A j \in DOMAIN q : i < q[j]
      /\ \A j, k \in DOMAIN q : j < k => q[j] < q[k]
      /\ \A j \in DOMAIN instr_queue : instr_queue[j] = i \/ \E k \in DOMAIN q : q[k] = instr_queue[j]
      /\ \A j \in DOMAIN q : \E k \in DOMAIN instr_queue : instr_queue[k] = q[j]
  BY ZenonT(30), <1>1, <1>2, <1>3, TailIncreasing
<1>5. /\ NextDispatch = i /\ i \in Nat
      /\ NextDispatch' = IF q = <<>> THEN fetch_index + 1 ELSE Head(q)
  BY <1>1, <1>2, <1>4 DEF NextDispatch
<1>6. /\ ~IS_TRAP(i) /\ i <= fetch_index
      /\ \A j \in DOMAIN q : ~IS_TRAP(q[j]) /\ q[j] <= fetch_index
      /\ Len(q) \in Nat
  BY <1>3, <1>4
<1>7. \A l \in i + 1 .. fetch_index : IS_TRAP(l) \/ \E j \in DOMAIN q : q[j] = l
  <2>1. ASSUME NEW l \in i + 1 .. fetch_index, ~IS_TRAP(l)
        PROVE  \E j \in DOMAIN q : q[j] = l
    <3>1. PICK j \in DOMAIN instr_queue : instr_queue[j] = l
      BY <1>1, <1>3, <1>5, <2>1
    <3>2. l # i
      BY <1>5, <2>1
    <3>. QED  BY <1>4, <3>1, <3>2
  <2>. QED  BY <2>1
<1>8. /\ NextDispatch' \in Nat /\ i < NextDispatch'
      /\ \A l \in i + 1 .. NextDispatch' - 1 : IS_TRAP(l)
  <2>1. CASE q = <<>>
    <3>1. DOMAIN q = {}
      BY <2>1
    <3>2. NextDispatch' = fetch_index + 1 /\ NextDispatch' - 1 = fetch_index
      BY <1>1, <1>5, <2>1
    <3>. QED  BY <1>1, <1>5, <1>6, <1>7, <3>1, <3>2
  <2>2. CASE q # <<>>
    <3>1. PICK h : h = Head(q)
      OBVIOUS
    <3>2. h \in Entries /\ h = q[1] /\ 1 \in DOMAIN q /\ \A j \in DOMAIN q : q[j] = h \/ h < q[j]
      <4>1. \A j \in DOMAIN q : j = 1 \/ 1 < j
        BY <1>4
      <4>2. Head(q) \in Entries /\ Head(q) = q[1] /\ 1 \in DOMAIN q
        BY <1>1, <1>4, <2>2, TailIncreasing
      <4>. QED  BY <1>4, <3>1, <4>1, <4>2
    <3>3. h \in Nat /\ i < h /\ h <= fetch_index
      BY <1>1, <1>4, <1>6, <3>2
    <3>4. ASSUME NEW l \in i + 1 .. h - 1  PROVE IS_TRAP(l)
      <4>1. l \in i + 1 .. fetch_index /\ l \in Nat /\ ~(l = h \/ h < l)
        BY <1>1, <1>5, <3>3, <3>4
      <4>. QED  BY <1>7, <3>2, <4>1
    <3>. QED  BY <1>5, <2>2, <3>1, <3>3, <3>4
  <2>. QED  BY <2>1, <2>2
<1>9. QueueInOrder'
  <2>1. \A l \in NextDispatch' .. fetch_index : IS_TRAP(l) \/ \E j \in DOMAIN q : q[j] = l
    BY <1>1, <1>5, <1>7, <1>8
  <2>. QED  BY <1>2, <1>4, <1>6, <2>1, Static DEF QueueInOrder
<1>10. Len(q) <= INSTR_QUEUE_SIZE
  BY <1>1, <1>4, <1>6
<1>11. \A j \in DOMAIN q : q[j] > i
  <2>1. \A j \in DOMAIN q : q[j] \in Entries
    BY <1>4
  <2>. QED  BY <1>1, <1>4, <1>5, <2>1
<1>. QED  BY <1>2, <1>4, <1>5, <1>6, <1>8, <1>9, <1>10, <1>11

\* dispatch_To_issue keeps the invariant: the head of the queue reads the map
\* table before it becomes the last writer of its outputs
LEMMA DispatchKeeps ==
    ASSUME IInv, dispatch_To_issue
    PROVE  IInv'
<1>. DEFINE i == NextDispatch
<1>1. /\ stage = "dispatch_To_issue" /\ stage' = "fetch_To_dispatch"
      /\ UNCHANGED <<trace, cycle, fetch_index, fuINT, fuFP, commonDataBus,
                     tom_dispatch_cycle, tom_execute_cycle, tom_cdb_cycle>>
  BY DEF dispatch_To_issue, Goto
<1>2. StampsInOrder' /\ DoneMeansFinished'
  BY <1>1, Static DEF IInv, StampsInOrder, AfterBroadcast, DoneMeansFinished
<1>3. RAWRespected' /\ OneResultPerCycle' /\ OlderExecutesFirst'
  BY <1>1, SameStamps
<1>4. ASSUME UNCHANGED <<instr_queue, reservINT, reservFP, Q, map_table, tom_issue_cycle>>
      PROVE  IInv'
  <2>1. TypeOK'
    BY <1>1, <1>4, Static DEF IInv, TypeOK, Stages
  <2>2. Progress'
    BY <1>1, <1>4, SameQueue, SameStations, Static DEF IInv, Progress
  <2>. QED  BY <1>1, <1>2, <1>3, <1>4, <2>1, <2>2, SameQueue, SameStations, SameTags DEF IInv
<1>5. ASSUME instr_queue # <<>>, ~Hazard(Head(instr_queue))
      PROVE  IInv'
  <2>1. /\ reservINT' = IF USES_INT_FU(i) THEN reservINT \union {i} ELSE reservINT
        /\ reservFP' = IF USES_FP_FU(i) THEN reservFP \union {i} ELSE reservFP
        /\ tom_issue_cycle' = IF USES_INT_FU(i) \/ USES_FP_FU(i)
                              THEN Stamp(tom_issue_cycle, {i}) ELSE tom_issue_cycle
        /\ Q' = IF IS_CTRL(i) THEN Q ELSE [Q EXCEPT ![i] = ReadMap(i)]
        /\ map_table' = IF IS_CTRL(i) THEN map_table ELSE WriteMap(i)
        /\ instr_queue' = Tail(instr_queue)
        /\ ~Hazard(i)
    BY <1>5, TailKeepsQueue DEF dispatch_To_issue, NextDispatch
  <2>2. /\ QueueInOrder' /\ i \in Entries /\ ~IS_TRAP(i)
        /\ NextDispatch' \in Nat /\ i < NextDispatch'
        /\ \A l \in i + 1 .. NextDispatch' - 1 : IS_TRAP(l)
        /\ instr_queue' \in Seq(Entries) /\ Len(instr_queue') <= INSTR_QUEUE_SIZE
        /\ \A j \in DOMAIN instr_queue' : instr_queue'[j] > i
    BY <1>1, <1>5, <2>1, TailKeepsQueue
  <2>3. PICK n : n = NextDispatch'
    OBVIOUS
  <2>4. PICK h : h = i
    OBVIOUS
  <2>5. /\ n \in Nat /\ h \in Entries /\ h \in Nat \ {0} /\ h < n
        /\ \A l \in Entries : l < n => l < h \/ l = h \/ IS_TRAP(l)
        /\ \A l \in Entries : l >= n => l >= h /\ l # h
    <3>1. h \in Nat \ {0} /\ Entries \subseteq Nat
      BY <2>4, Basics
    <3>2. ASSUME NEW l \in Entries, l < n, ~(l < h), l # h  PROVE IS_TRAP(l)
      <4>1. l \in Nat /\ n \in Nat
        BY <2>2, <2>3, <3>1
      <4>2. l \in h + 1 .. n - 1
        BY <3>1, <3>2, <4>1
      <4>. QED  BY <2>2, <2>3, <2>4, <4>2
    <3>. QED  BY <2>2, <2>3, <2>4, <3>1, <3>2
  <2>6. /\ Stations' = IF NeedsUnit(h) THEN Stations \union {h} ELSE Stations
        /\ h \notin Stations /\ \A l \in Stations : l < h
        /\ tom_execute_cycle[h] = 0 /\ tom_cdb_cycle[h] = 0 /\ \A k \in 0 .. 2 : Q[h][k] = NULL
    <3>1. Stations' = IF NeedsUnit(h) THEN Stations \union {h} ELSE Stations
      BY <2>1, <2>4 DEF Stations, NeedsUnit
    <3>2. \A l \in Stations : l < h
      BY <2>4, Basics
    <3>3. tom_execute_cycle[h] = 0 /\ tom_cdb_cycle[h] = 0 /\ \A k \in 0 .. 2 : Q[h][k] = NULL
      BY <2>4, <2>5 DEF IInv, Progress
    <3>. QED  BY <2>5, <3>1, <3>2, <3>3
  <2>7. /\ map_table \in [Regs -> {NULL} \union Entries]
        /\ Q \in [Entries -> [0 .. 2 -> {NULL} \union Entries]]
        /\ \A k \in 0 .. 2 : get_instr(h).r_in[k] \in Regs \union {0}
        /\ \A r \in Regs : r > 0
    <3>1. \A k \in 0 .. 2 : get_instr(h).r_in[k] \in Regs \union {0}
      BY <2>5, Basics, ClassFacts
    <3>2. \A r \in Regs : r > 0
      BY TomasuloAssumption
    <3>. QED  BY <3>1, <3>2 DEF IInv, TypeOK
  <2>8. /\ Q' \in [Entries -> [0 .. 2 -> {NULL} \union Entries]]
        /\ \A l \in Entries : l # h => Q'[l] = Q[l]
        /\ ~IS_CTRL(h) => Q'[h] = ReadMap(h)
    <3>1. ReadMap(h) \in [0 .. 2 -> {NULL} \union Entries]
      BY <2>5, <2>7 DEF ReadMap
    <3>. QED  BY <2>1, <2>4, <2>5, <2>7, <3>1
  <2>9. /\ map_table' \in [Regs -> {NULL} \union Entries]
        /\ \A r \in Regs : map_table'[r] = IF Writes(h, r) THEN h ELSE map_table[r]
    BY <2>1, <2>2, <2>4, <2>5, <2>7 DEF WriteMap, Writes
  <2>10. TypeOK'
    <3>1. tom_issue_cycle' \in [Entries -> Nat]
      BY <2>1, Basics DEF IInv, TypeOK, Stamp
    <3>2. Cardinality(reservINT') <= RESERV_INT_SIZE
      <4>1. /\ reservINT \in SUBSET Entries /\ RESERV_INT_SIZE \in Nat
            /\ Cardinality(reservINT) <= RESERV_INT_SIZE
        BY FiniteUnits, TomasuloAssumption DEF IInv, TypeOK
      <4>2. USES_INT_FU(i) => Cardinality(reservINT) # RESERV_INT_SIZE
        BY <2>1 DEF Hazard
      <4>. QED  BY <2>1, <4>1, <4>2, OneMore
    <3>3. Cardinality(reservFP') <= RESERV_FP_SIZE
      <4>1. /\ reservFP \in SUBSET Entries /\ RESERV_FP_SIZE \in Nat
            /\ Cardinality(reservFP) <= RESERV_FP_SIZE
        BY FiniteUnits, TomasuloAssumption DEF IInv, TypeOK
      <4>2. USES_FP_FU(i) => Cardinality(reservFP) # RESERV_FP_SIZE
        BY <2>1 DEF Hazard
      <4>. QED  BY <2>1, <4>1, <4>2, OneMore
    <3>4. /\ reservINT' \subseteq {l \in Entries : USES_INT_FU(l)}
          /\ reservFP' \subseteq {l \in Entries : USES_FP_FU(l)}
      BY <2>1, <2>2 DEF IInv, TypeOK
    <3>. QED  BY <1>1, <2>2, <2>8, <2>9, <3>1, <3>2, <3>3, <3>4, Static DEF IInv, TypeOK, Stages
  <2>11. StationsMatchUnits'
    <3>1. /\ fuINT = {l \in reservINT : tom_execute_cycle[l] # 0}
          /\ fuFP = {l \in reservFP : tom_execute_cycle[l] # 0}
          /\ \A l \in Stations : tom_cdb_cycle[l] = 0
      BY DEF IInv, StationsMatchUnits, Stations
    <3>2. /\ fuINT = {l \in reservINT' : tom_execute_cycle[l] # 0}
          /\ fuFP = {l \in reservFP' : tom_execute_cycle[l] # 0}
      BY <2>1, <2>4, <2>6, <3>1
    <3>3. ASSUME NEW l \in Stations'
          PROVE  tom_cdb_cycle[l] = 0 /\ \A j \in DOMAIN instr_queue' : instr_queue'[j] > l
      <4>1. l = h \/ l \in Stations
        BY <2>6
      <4>2. l \in Nat /\ (l = h \/ l < h) /\ tom_cdb_cycle[l] = 0
        BY <2>5, <2>6, <3>1, <4>1, Basics
      <4>3. \A j \in DOMAIN instr_queue' : instr_queue'[j] \in Nat /\ instr_queue'[j] > h
        BY <2>2, <2>4, Basics
      <4>. QED  BY <2>5, <4>2, <4>3
    <3>. QED  BY <1>1, <3>2, <3>3 DEF StationsMatchUnits, Stations
  <2>12. Progress'
    <3>1. ASSUME NEW l \in Entries
          PROVE  /\ l \in Stations' => l < n
                 /\ tom_execute_cycle[l] # 0 => l < n /\ NeedsUnit(l)
                 /\ tom_cdb_cycle[l] # 0 => l < n /\ WRITES_CDB(l) /\ l \notin Stations'
                 /\ l >= n => \A k \in 0 .. 2 : Q'[l][k] = NULL
                 /\ l < n /\ NeedsUnit(l) /\ l \notin Stations' =>
                        tom_execute_cycle[l] # 0 /\ (IS_STORE(l) \/ tom_cdb_cycle[l] # 0)
      <4>1. /\ l \in Stations => l < h
            /\ tom_execute_cycle[l] # 0 => l < h /\ NeedsUnit(l)
            /\ tom_cdb_cycle[l] # 0 => l < h /\ WRITES_CDB(l) /\ l \notin Stations
            /\ l >= h => \A k \in 0 .. 2 : Q[l][k] = NULL
            /\ l < h /\ NeedsUnit(l) /\ l \notin Stations =>
                   tom_execute_cycle[l] # 0 /\ (IS_STORE(l) \/ tom_cdb_cycle[l] # 0)
        BY <2>4 DEF IInv, Progress
      <4>2. l \in Nat /\ (l < h => l < n)
        BY <2>5, Basics
      <4>3. l < n /\ NeedsUnit(l) => l < h \/ l = h
        BY <2>5, Basics, ClassFacts
      <4>. QED  BY <2>5, <2>6, <2>8, <4>1, <4>2, <4>3
    <3>. QED  BY <1>1, <2>3, <3>1, Static DEF Progress
  <2>13. ASSUME NEW r \in Regs
         PROVE  LastWriter(n, r) = IF Writes(h, r) THEN h ELSE LastWriter(h, r)
    <3>1. h + 1 \in Nat \ {0} /\ h + 1 <= n
      BY <2>5
    <3>2. LastWriter(n, r) = LastWriter(h + 1, r)
      BY ZenonT(30), <2>2, <2>3, <2>4, <2>5, <3>1, LastWriterSkip
    <3>. QED  BY <2>5, <3>2, LastWriterNext
  <2>14. ASSUME NEW l \in Nat, l <= h, NEW r \in Regs
         PROVE  Awaited(LastWriter(l, r))' = Awaited(LastWriter(l, r))
    <3>1. LastWriter(l, r)' = LastWriter(l, r)
      BY <1>1, Static
    <3>2. ASSUME NEW w, w = LastWriter(l, r)  PROVE Awaited(w)' = Awaited(w)
      <4>1. w # NULL => w \in 1 .. l - 1
        BY <2>14, <3>2, LastWriterCorrect
      <4>2. w # NULL => w # h
        BY <2>5, <2>14, <4>1
      <4>3. w # NULL => (w \in Stations' <=> w \in Stations)
        BY <2>6, <4>2
      <4>. QED  BY <1>1, <4>3 DEF Awaited, Outstanding, Stations
    <3>. QED  BY <3>1, <3>2
  <2>15. MapTableNamesLastWriter'
    <3>1. ASSUME NEW r \in Regs  PROVE map_table'[r] = Awaited(LastWriter(n, r))'
      <4>1. LastWriter(n, r)' = LastWriter(n, r) /\ LastWriter(h, r)' = LastWriter(h, r)
        BY <1>1, Static
      <4>2. CASE Writes(h, r)
        <5>1. h \in Stations' /\ h # NULL
          BY <2>5, <2>6, <4>2, Basics, ClassFacts DEF NULL
        <5>2. Awaited(h)' = h
          BY <5>1 DEF Awaited, Outstanding, Stations
        <5>. QED  BY <2>9, <2>13, <4>1, <4>2, <5>2
      <4>3. CASE ~Writes(h, r)
        <5>1. map_table[r] = Awaited(LastWriter(h, r))
          BY <2>4 DEF IInv, MapTableNamesLastWriter
        <5>2. Awaited(LastWriter(h, r))' = Awaited(LastWriter(h, r))
          BY <2>5, <2>14
        <5>. QED  BY <2>9, <2>13, <4>1, <4>3, <5>1, <5>2
      <4>. QED  BY <4>2, <4>3
    <3>. QED  BY <2>3, <3>1 DEF MapTableNamesLastWriter
  <2>16. QNamesLastWriter'
    <3>1. ASSUME NEW l \in Stations', NEW k \in 0 .. 2, NEW r, r = get_instr(l).r_in[k]
          PROVE  Q'[l][k] = IF r > 0 THEN Awaited(LastWriter(l, r))' ELSE NULL
      <4>1. CASE l = h
        <5>1. ~IS_CTRL(h) /\ Q'[h][k] = ReadMap(h)[k]
          BY <2>5, <2>6, <2>8, <3>1, <4>1, Basics, ClassFacts
        <5>2. CASE r = 0
          BY <2>6, <3>1, <4>1, <5>1, <5>2 DEF ReadMap
        <5>3. CASE r \in Regs
          <6>1. Q'[h][k] = map_table[r]
            BY <2>7, <3>1, <4>1, <5>1, <5>3 DEF ReadMap
          <6>2. map_table[r] = Awaited(LastWriter(h, r))
            BY <2>4, <5>3 DEF IInv, MapTableNamesLastWriter
          <6>. QED  BY <2>5, <2>7, <2>14, <4>1, <5>3, <6>1, <6>2
        <5>. QED  BY <2>7, <3>1, <4>1, <5>2, <5>3
      <4>2. CASE l # h
        <5>1. l \in Stations
          BY <2>6, <4>2
        <5>2. l \in Entries /\ l \in Nat /\ l <= h /\ r \in Regs \union {0}
          <6>1. l \in Entries /\ l \in Nat /\ trace \in Programs
            BY <5>1, Basics
          <6>2. \A m \in 0 .. 2 : get_instr(l).r_in[m] \in Regs \union {0}
            BY <6>1, ClassFacts
          <6>. QED  BY <2>5, <2>6, <3>1, <5>1, <6>1, <6>2
        <5>3. Q[l][k] = IF r > 0 THEN Awaited(LastWriter(l, r)) ELSE NULL
          BY <3>1, <5>1 DEF IInv, QNamesLastWriter, Stations
        <5>4. r > 0 => r \in Regs
          BY <5>2
        <5>. QED  BY <2>8, <2>14, <4>2, <5>2, <5>3, <5>4
      <4>. QED  BY <4>1, <4>2
    <3>. QED  BY <1>1, <3>1, Static DEF QNamesLastWriter, Stations
  <2>. QED  BY <1>2, <1>3, <2>2, <2>10, <2>11, <2>12, <2>15, <2>16 DEF IInv
<1>. QED  BY <1>4, <1>5 DEF dispatch_To_issue

\* Fetching the next instruction into a queue that is not full
LEMMA AppendKeepsQueue ==
    ASSUME IInv, fetch_index < sim_num_insn, Len(instr_queue) < INSTR_QUEUE_SIZE,
           fetch_index' = NextFetch, instr_queue' = Append(instr_queue, NextFetch),
           UNCHANGED trace
    PROVE  /\ QueueInOrder'
           /\ fetch_index' \in Entries
           /\ instr_queue' \in Seq(Entries) /\ Len(instr_queue') <= INSTR_QUEUE_SIZE
           /\ instr_queue' # <<>>
           /\ NextDispatch' \in Nat /\ NextDispatch <= NextDispatch'
           /\ \A l \in NextDispatch .. NextDispatch' - 1 : IS_TRAP(l)
           /\ \A j \in DOMAIN instr_queue' : instr_queue'[j] >= NextDispatch
<1>1. PICK f : f = NextFetch
  OBVIOUS
<1>2. PICK q, s : q = instr_queue' /\ s = instr_queue
  OBVIOUS
<1>3. /\ fetch_index \in {0} \union Entries /\ s \in Seq(Entries) /\ trace \in Programs
      /\ Entries = 1 .. sim_num_insn + 1 /\ sim_num_insn \in Nat
  BY <1>2, Basics DEF IInv, TypeOK
<1>4. /\ fetch_index \in Nat /\ Entries \subseteq Nat /\ Len(s) \in Nat
      /\ Len(s) < INSTR_QUEUE_SIZE /\ INSTR_QUEUE_SIZE \in Nat
  BY <1>2, <1>3, TomasuloAssumption
<1>5. /\ f \in Entries /\ f \in Nat /\ fetch_index < f /\ ~IS_TRAP(f)
      /\ \A l \in fetch_index + 1 .. f - 1 : IS_TRAP(l)
  BY <1>1, <1>3, <1>4, NextFetchCorrect
<1>6. /\ q = Append(s, f) /\ q \in Seq(Entries) /\ q # <<>> /\ Len(q) = Len(s) + 1
      /\ DOMAIN q = 1 .. Len(s) + 1 /\ DOMAIN s = 1 .. Len(s)
      /\ \A j \in 1 .. Len(s) : q[j] = s[j]
      /\ q[Len(s) + 1] = f
  BY <1>1, <1>2, <1>3, <1>5, AppendProperties
<1>7. /\ \A j \in DOMAIN s : s[j] \in Nat /\ ~IS_TRAP(s[j]) /\ s[j] <= fetch_index /\ s[j] < f
      /\ \A j, k \in DOMAIN s : j < k => s[j] < s[k]
      /\ \A l \in NextDispatch .. fetch_index : IS_TRAP(l) \/ \E j \in DOMAIN s : s[j] = l
  <2>1. \A j \in DOMAIN s : s[j] \in Nat /\ s[j] <= fetch_index
    BY <1>2, <1>3, <1>4 DEF IInv, QueueInOrder
  <2>2. \A j \in DOMAIN s : s[j] < f
    BY <1>4, <1>5, <2>1
  <2>. QED  BY <1>2, <2>1, <2>2 DEF IInv, QueueInOrder
<1>8. \A j \in DOMAIN q : (j \in DOMAIN s /\ q[j] = s[j]) \/ (j = Len(s) + 1 /\ q[j] = f)
  BY <1>4, <1>6
<1>9. \A j \in DOMAIN s : j \in DOMAIN q /\ q[j] = s[j] /\ j < Len(s) + 1 /\ j \in Nat
  BY <1>4, <1>6
<1>10. /\ NextDispatch = IF s = <<>> THEN fetch_index + 1 ELSE s[1]
       /\ NextDispatch' = q[1]
  BY <1>2, <1>3, <1>6 DEF NextDispatch
<1>11. /\ NextDispatch' \in Nat /\ NextDispatch \in Nat /\ NextDispatch <= NextDispatch'
       /\ NextDispatch <= fetch_index + 1
       /\ \A l \in NextDispatch .. NextDispatch' - 1 : IS_TRAP(l)
  <2>1. CASE s = <<>>
    <3>1. Len(s) = 0
      BY <2>1
    <3>2. NextDispatch = fetch_index + 1 /\ NextDispatch' = f
      BY <1>6, <1>10, <2>1, <3>1
    <3>. QED  BY <1>4, <1>5, <3>2
  <2>2. CASE s # <<>>
    <3>1. 1 \in DOMAIN s
      BY <1>3, <2>2
    <3>2. NextDispatch = s[1] /\ NextDispatch' = s[1]
      BY <1>9, <1>10, <2>2, <3>1
    <3>3. s[1] \in Nat /\ s[1] <= fetch_index
      BY <1>7, <3>1
    <3>. QED  BY <1>4, <3>2, <3>3
  <2>. QED  BY <2>1, <2>2
<1>12. \A j, k \in DOMAIN q : j < k => q[j] < q[k]
  <2>1. ASSUME NEW j \in DOMAIN q, NEW k \in DOMAIN q, j < k
        PROVE  q[j] < q[k]
    <3>1. j \in DOMAIN s /\ q[j] = s[j]
      BY <1>4, <1>6, <2>1
    <3>2. CASE k \in DOMAIN s /\ q[k] = s[k]
      BY <1>7, <2>1, <3>1, <3>2
    <3>3. CASE k = Len(s) + 1 /\ q[k] = f
      BY <1>7, <3>1, <3>3
    <3>. QED  BY <1>8, <3>2, <3>3
  <2>. QED  BY <2>1
<1>13. \A l \in NextDispatch' .. f : IS_TRAP(l) \/ \E j \in DOMAIN q : q[j] = l
  <2>1. ASSUME NEW l \in NextDispatch' .. f, ~IS_TRAP(l)
        PROVE  \E j \in DOMAIN q : q[j] = l
    <3>1. Len(s) + 1 \in DOMAIN q
      BY <1>4, <1>6
    <3>2. CASE l = f
      BY <1>6, <3>1, <3>2
    <3>3. CASE l # f
      <4>1. l \in NextDispatch .. fetch_index
        BY <1>4, <1>5, <1>11, <2>1, <3>3
      <4>2. PICK j \in DOMAIN s : s[j] = l
        BY <1>7, <2>1, <4>1
      <4>. QED  BY <1>9, <4>2
    <3>. QED  BY <3>2, <3>3
  <2>. QED  BY <2>1
<1>14. QueueInOrder'
  <2>1. \A j \in DOMAIN q : ~IS_TRAP(q[j]) /\ q[j] <= f
    BY <1>5, <1>7, <1>8
  <2>2. fetch_index' = f
    BY <1>1
  <2>. QED  BY <1>2, <1>12, <1>13, <2>1, <2>2, Static DEF QueueInOrder
<1>15. \A j \in DOMAIN q : q[j] >= NextDispatch
  <2>1. ASSUME NEW j \in DOMAIN q  PROVE q[1] <= q[j] /\ q[j] \in Nat
    <3>1. 1 \in DOMAIN q /\ (j = 1 \/ 1 < j)
      BY <1>4, <1>6
    <3>2. \A k \in DOMAIN q : q[k] \in Nat
      BY <1>5, <1>7, <1>8
    <3>. QED  BY <1>12, <3>1, <3>2
  <2>. QED  BY <1>10, <1>11, <2>1
<1>16. Len(q) <= INSTR_QUEUE_SIZE
  BY <1>4, <1>6
<1>. QED  BY <1>1, <1>2, <1>5, <1>6, <1>11, <1>14, <1>15, <1>16

\* fetch_To_dispatch keeps the invariant, whether it fetches or not: what was
\* broadcast in the cycle that ends was broadcast in the past
LEMMA FetchKeeps ==
    ASSUME IInv, fetch_To_dispatch
    PROVE  IInv'
<1>1. /\ stage = "fetch_To_dispatch" /\ cycle' = cycle + 1
      /\ stage' = IF is_simulation_done' THEN "done" ELSE "CDB_To_retire"
      /\ UNCHANGED <<trace, reservINT, reservFP, fuINT, fuFP, commonDataBus, map_table, Q,
                     tom_issue_cycle, tom_execute_cycle, tom_cdb_cycle>>
  BY DEF fetch_To_dispatch
<1>2. /\ fetch_index \in {0} \union Entries
      /\ instr_queue \in Seq(Entries) /\ Len(instr_queue) <= INSTR_QUEUE_SIZE
      /\ tom_dispatch_cycle \in [Entries -> Nat]
      /\ cycle \in Nat \ {0} /\ Entries \subseteq Nat /\ NextDispatch \in Nat
  <2>1. cycle \in Nat \ {0} /\ Entries \subseteq Nat /\ NextDispatch \in Nat
    BY Basics
  <2>. QED  BY <2>1 DEF IInv, TypeOK
<1>3. /\ QueueInOrder'
      /\ fetch_index' \in {0} \union Entries
      /\ instr_queue' \in Seq(Entries) /\ Len(instr_queue') <= INSTR_QUEUE_SIZE
      /\ tom_dispatch_cycle' \in [Entries -> Nat]
      /\ NextDispatch' \in Nat /\ NextDispatch <= NextDispatch'
      /\ \A l \in NextDispatch .. NextDispatch' - 1 : IS_TRAP(l)
      /\ \A j \in DOMAIN instr_queue' : instr_queue'[j] >= NextDispatch
      /\ instr_queue' = <<>> => fetch_index' >= sim_num_insn
  <2>1. CASE /\ fetch_index < sim_num_insn /\ Len(instr_queue) < INSTR_QUEUE_SIZE
             /\ fetch_index' = NextFetch
             /\ instr_queue' = Append(instr_queue, NextFetch)
             /\ tom_dispatch_cycle' = Stamp(tom_dispatch_cycle, {NextFetch})
    <3>1. tom_dispatch_cycle' \in [Entries -> Nat]
      BY <1>2, <2>1 DEF Stamp
    <3>. QED  BY <1>1, <2>1, <3>1, AppendKeepsQueue
  <2>2. CASE /\ ~(fetch_index < sim_num_insn /\ Len(instr_queue) < INSTR_QUEUE_SIZE)
             /\ UNCHANGED <<fetch_index, instr_queue, tom_dispatch_cycle>>
    <3>1. QueueInOrder' /\ NextDispatch' = NextDispatch
      BY <1>1, <2>2, SameQueue
    <3>2. \A l \in NextDispatch .. NextDispatch - 1 : FALSE
      BY <1>2
    <3>3. ASSUME NEW j \in DOMAIN instr_queue  PROVE instr_queue[j] >= NextDispatch
      <4>1. \A k, l \in DOMAIN instr_queue : k < l => instr_queue[k] < instr_queue[l]
        BY DEF IInv, QueueInOrder
      <4>2. NextDispatch = instr_queue[1] /\ 1 \in DOMAIN instr_queue /\ (j = 1 \/ 1 < j)
        BY <1>2, <3>3 DEF NextDispatch
      <4>3. \A k \in DOMAIN instr_queue : instr_queue[k] \in Nat
        BY <1>2
      <4>. QED  BY <4>1, <4>2, <4>3
    <3>4. instr_queue = <<>> => fetch_index >= sim_num_insn
      <4>1. instr_queue = <<>> => Len(instr_queue) < INSTR_QUEUE_SIZE
        BY TomasuloAssumption
      <4>. QED  BY <1>2, <2>2, <4>1, Basics
    <3>. QED  BY <1>1, <1>2, <2>2, <3>1, <3>2, <3>3, <3>4, Static
  <2>. QED  BY <2>1, <2>2 DEF fetch_To_dispatch
<1>4. /\ Stations' = Stations
      /\ RAWRespected' /\ OneResultPerCycle' /\ OlderExecutesFirst'
  BY <1>1, SameStamps DEF Stations
<1>5. PICK n, h : n = NextDispatch' /\ h = NextDispatch
  OBVIOUS
<1>6. /\ n \in Nat /\ h \in Nat \ {0} /\ h <= n
      /\ \A l \in Entries : l \in Nat /\ (l < h => l < n) /\ (l >= n => l >= h)
      /\ \A l \in Entries : l < n => l < h \/ IS_TRAP(l)
  <2>1. n \in Nat /\ h \in Nat \ {0} /\ h <= n
    BY <1>3, <1>5, Basics
  <2>2. ASSUME NEW l \in Entries, l < n, ~(l < h)  PROVE IS_TRAP(l)
    <3>1. l \in h .. n - 1
      BY <1>2, <2>1, <2>2
    <3>. QED  BY <1>3, <1>5, <3>1
  <2>. QED  BY <1>2, <2>1, <2>2
<1>7. TypeOK'
  <2>1. stage' \in Stages /\ cycle' \in Nat \ {0}
    BY <1>1, <1>2 DEF Stages
  <2>. QED  BY <1>1, <1>3, <2>1, Static DEF IInv, TypeOK
<1>8. StationsMatchUnits'
  <2>1. ASSUME NEW l \in Stations, NEW j \in DOMAIN instr_queue'
        PROVE  instr_queue'[j] > l
    <3>1. l \in Nat /\ l < h /\ instr_queue'[j] \in Nat
      BY <1>2, <1>3, <1>5, Basics
    <3>. QED  BY <1>3, <1>5, <1>6, <3>1
  <2>. QED  BY <1>1, <1>4, <2>1 DEF IInv, StationsMatchUnits, Stations
<1>9. Progress'
  <2>1. ASSUME NEW l \in Entries
        PROVE  /\ l \in Stations => l < n
               /\ tom_execute_cycle[l] # 0 => l < n /\ NeedsUnit(l)
               /\ tom_cdb_cycle[l] # 0 => l < n /\ WRITES_CDB(l) /\ l \notin Stations
               /\ l >= n => \A k \in 0 .. 2 : Q[l][k] = NULL
               /\ l < n /\ NeedsUnit(l) /\ l \notin Stations =>
                      tom_execute_cycle[l] # 0 /\ (IS_STORE(l) \/ tom_cdb_cycle[l] # 0)
    <3>1. /\ l \in Stations => l < h
          /\ tom_execute_cycle[l] # 0 => l < h /\ NeedsUnit(l)
          /\ tom_cdb_cycle[l] # 0 => l < h /\ WRITES_CDB(l) /\ l \notin Stations
          /\ l >= h => \A k \in 0 .. 2 : Q[l][k] = NULL
          /\ l < h /\ NeedsUnit(l) /\ l \notin Stations =>
                 tom_execute_cycle[l] # 0 /\ (IS_STORE(l) \/ tom_cdb_cycle[l] # 0)
      BY <1>5 DEF IInv, Progress
    <3>2. l < n /\ NeedsUnit(l) => l < h
      BY <1>6, Basics, ClassFacts
    <3>. QED  BY <1>6, <3>1, <3>2
  <2>. QED  BY <1>1, <1>4, <1>5, <2>1, Static DEF Progress
<1>10. StampsInOrder'
  <2>1. ASSUME NEW i \in Entries
        PROVE  tom_execute_cycle[i] <= cycle' /\ tom_cdb_cycle[i] <= cycle' /\ tom_cdb_cycle[i] # cycle'
    <3>1. /\ tom_execute_cycle[i] \in Nat /\ tom_cdb_cycle[i] \in Nat
          /\ tom_execute_cycle[i] <= cycle /\ tom_cdb_cycle[i] <= cycle
      BY Basics DEF IInv, StampsInOrder
    <3>. QED  BY <1>1, <1>2, <3>1
  <2>2. ~AfterBroadcast' /\ stage' # "execute_To_CDB"
    BY <1>1 DEF AfterBroadcast
  <2>3. stage' = "done" => commonDataBus' = NULL
    BY <1>1 DEF is_simulation_done
  <2>. QED  BY <1>1, <2>1, <2>2, <2>3, Static DEF IInv, StampsInOrder
<1>11. MapTableNamesLastWriter'
  <2>1. ASSUME NEW r \in Regs  PROVE map_table'[r] = Awaited(LastWriter(n, r))'
    <3>1. LastWriter(n, r) = LastWriter(h, r)
      BY <1>3, <1>5, <1>6, LastWriterSkip
    <3>2. map_table[r] = Awaited(LastWriter(h, r))
      BY <1>5 DEF IInv, MapTableNamesLastWriter
    <3>3. \A i : Awaited(i)' = Awaited(i)
      BY <1>1 DEF Awaited, Outstanding
    <3>. QED  BY <1>1, <3>1, <3>2, <3>3, Static
  <2>. QED  BY <1>5, <2>1 DEF MapTableNamesLastWriter
<1>12. QNamesLastWriter'
  <2>1. \A i : Awaited(i)' = Awaited(i)
    BY <1>1 DEF Awaited, Outstanding
  <2>. QED  BY <1>1, <2>1, Static DEF IInv, QNamesLastWriter
<1>13. DoneMeansFinished'
  <2>1. ASSUME stage' = "done", NEW i \in 1 .. sim_num_insn
        PROVE  /\ USES_INT_FU(i) \/ USES_FP_FU(i) => tom_execute_cycle[i] # 0
               /\ WRITES_CDB(i) => tom_cdb_cycle[i] # 0
    <3>1. instr_queue' = <<>> /\ Stations' = {}
      BY <1>1, <2>1 DEF is_simulation_done, Stations
    <3>2. n = fetch_index' + 1 /\ fetch_index' >= sim_num_insn /\ fetch_index' \in Nat
      BY <1>2, <1>3, <1>5, <3>1 DEF NextDispatch
    <3>3. i \in Entries /\ i < n /\ i \notin Stations'
      <4>1. sim_num_insn \in Nat /\ Entries = 1 .. sim_num_insn + 1
        BY Basics
      <4>2. i \in Nat /\ i <= sim_num_insn /\ i \in Entries
        BY <4>1
      <4>3. i < n
        <5>1. \A a, b, c, d \in Nat : a <= b /\ c >= b /\ d = c + 1 => a < d
          OBVIOUS
        <5>2. n \in Nat /\ fetch_index' >= sim_num_insn /\ n = fetch_index' + 1 /\ fetch_index' \in Nat
          BY <1>6, <3>2
        <5>. QED  BY <4>1, <4>2, <5>1, <5>2
      <4>. QED  BY <3>1, <4>2, <4>3
    <3>4. NeedsUnit(i) => tom_execute_cycle[i] # 0 /\ (IS_STORE(i) \/ tom_cdb_cycle[i] # 0)
      BY <1>1, <1>5, <1>9, <3>3, Static DEF Progress
    <3>. QED  BY <3>3, <3>4, Basics, ClassFacts DEF NeedsUnit
  <2>. QED  BY <1>1, <2>1, Static DEF DoneMeansFinished
<1>. QED  BY <1>3, <1>4, <1>7, <1>8, <1>9, <1>10, <1>11, <1>12, <1>13 DEF IInv

-----------------------------------------------------------------------------
(* The invariant *)

\* It holds when nothing has been fetched
LEMMA InitIInv == Init => IInv
<1>. SUFFICES ASSUME Init PROVE IInv
  OBVIOUS
<1>1. sim_num_insn \in Nat /\ Entries = 1 .. sim_num_insn + 1 /\ trace \in Programs
  <2>1. trace \in Programs
    BY DEF Init
  <2>. QED  BY <2>1, TomasuloAssumption DEF sim_num_insn, Entries
<1>2. NextDispatch = 1 /\ instr_queue \in Seq(Entries) /\ DOMAIN instr_queue = {} /\ Len(instr_queue) = 0
  BY DEF Init, NextDispatch
<1>3. TypeOK
  <2>1. Cardinality({}) = 0
    BY FS_EmptySet
  <2>. QED  BY <1>1, <1>2, <2>1, TomasuloAssumption DEF Init, TypeOK, Stages
<1>4. MapTableNamesLastWriter
  <2>1. \A i : ~Outstanding(i)
    BY DEF Init, Outstanding, NULL
  <2>. QED  BY <2>1 DEF Init, MapTableNamesLastWriter, Awaited
<1>5. QueueInOrder
  <2>1. \A i \in NextDispatch .. fetch_index : FALSE
    BY <1>2 DEF Init
  <2>. QED  BY <1>2, <2>1 DEF QueueInOrder
<1>6. Progress
  BY <1>1, <1>2 DEF Init, Progress, Stations
<1>7. StationsMatchUnits /\ StampsInOrder /\ QNamesLastWriter /\ DoneMeansFinished
  BY DEF Init, StationsMatchUnits, StampsInOrder, AfterBroadcast, QNamesLastWriter, DoneMeansFinished
<1>8. RAWRespected /\ OneResultPerCycle /\ OlderExecutesFirst
  BY DEF Init, RAWRespected, OneResultPerCycle, OlderExecutesFirst
<1>. QED  BY <1>3, <1>4, <1>5, <1>6, <1>7, <1>8 DEF IInv

\* Every step keeps it
LEMMA NextIInv == IInv /\ [Next]_vars => IInv'
<1>1. ASSUME IInv, UNCHANGED vars  PROVE IInv'
  <2>1. /\ UNCHANGED <<trace, stage, cycle, fetch_index, instr_queue, reservINT, reservFP, fuINT, fuFP>>
        /\ UNCHANGED <<commonDataBus, map_table, Q>>
        /\ UNCHANGED <<tom_dispatch_cycle, tom_issue_cycle, tom_execute_cycle, tom_cdb_cycle>>
    BY <1>1 DEF vars, times
  <2>2. TypeOK'
    BY <1>1, <2>1, Static DEF IInv, TypeOK
  <2>3. Progress' /\ StampsInOrder' /\ DoneMeansFinished'
    BY <1>1, <2>1, SameQueue, SameStations, Static
       DEF IInv, Progress, StampsInOrder, AfterBroadcast, DoneMeansFinished
  <2>. QED  BY <1>1, <2>1, <2>2, <2>3, SameQueue, SameStations, SameStamps, SameTags DEF IInv
<1>. QED  BY <1>1, RetireKeeps, BroadcastKeeps, BeginKeeps, DispatchKeeps, FetchKeeps DEF Next, Stopped

\* So it holds in every reachable state
LEMMA InvariantIInv == Spec => []IInv
BY InitIInv, NextIInv, PTL DEF Spec

-----------------------------------------------------------------------------
(* The properties *)

(* Queue, stations, units and bus hold what they are made for, and never   *)
(* more than the arrays of tomasulo.c have slots.                          *)
THEOREM TomasuloTyped == Spec => []TypeOK
<1>1. IInv => TypeOK  BY DEF IInv
<1>. QED  BY <1>1, InvariantIInv, PTL

(* A functional unit works exactly on what its reservation stations hold   *)
(* and has begun: execute_To_CDB releases both or neither.                 *)
THEOREM UnitsMatchStations == Spec => []StationsMatchUnits
<1>1. IInv => StationsMatchUnits  BY DEF IInv
<1>. QED  BY <1>1, InvariantIInv, PTL

(* The map table names the youngest outstanding writer of every register   *)
(* (dispatch_To_issue, CDB_To_retire), for any program.                    *)
THEOREM MapTableCorrect == Spec => []MapTableNamesLastWriter
<1>1. IInv => MapTableNamesLastWriter  BY DEF IInv
<1>. QED  BY <1>1, InvariantIInv, PTL

(* A waiting instruction waits for the last writers of its operands in     *)
(* program order and for nothing else.                                     *)
THEOREM TagsCorrect == Spec => []QNamesLastWriter
<1>1. IInv => QNamesLastWriter  BY DEF IInv
<1>. QED  BY <1>1, InvariantIInv, PTL

(* No instruction executes before the results it reads have been           *)
(* broadcast in an earlier cycle (issue_To_execute).                       *)
THEOREM ReadAfterWrite == Spec => []RAWRespected
<1>1. IInv => RAWRespected  BY DEF IInv
<1>. QED  BY <1>1, InvariantIInv, PTL

(* No two instructions broadcast in the same cycle, and no store does      *)
(* (execute_To_CDB).                                                       *)
THEOREM OneBus == Spec => []OneResultPerCycle
<1>1. IInv => OneResultPerCycle  BY DEF IInv
<1>. QED  BY <1>1, InvariantIInv, PTL

(* An instruction overtakes an older one of its class only if that one     *)
(* still lacks an operand (issue_To_execute).                              *)
THEOREM OldestFirst == Spec => []OlderExecutesFirst
<1>1. IInv => OlderExecutesFirst  BY DEF IInv
<1>. QED  BY <1>1, InvariantIInv, PTL

(* When runTomasulo returns, every instruction of the trace that needs a   *)
(* unit has executed and every result was broadcast (is_simulation_done).  *)
THEOREM DoneIsFinished == Spec => []DoneMeansFinished
<1>1. IInv => DoneMeansFinished  BY DEF IInv
<1>. QED  BY <1>1, InvariantIInv, PTL

-----------------------------------------------------------------------------
(* The tables of the instruction trace                                     *)

\* A set of naturals that holds 0 and every successor up to N
LEMMA Counting ==
    ASSUME NEW N \in Nat, NEW S \in SUBSET Nat, 0 \in S, \A n \in S : n < N => n + 1 \in S
    PROVE  \A n \in 0 .. N : n \in S
<1>. DEFINE R == OpToRel(<, Nat)
<1>1. IsWellFoundedOn(R, Nat)
  BY NatLessThanWellFounded
<1>2. \A x, y \in Nat : y < x => <<y, x>> \in R
  BY DEF OpToRel
<1>. HIDE DEF R
<1>3. SUFFICES ASSUME NEW n \in 0 .. N, n \notin S
               PROVE  FALSE
  OBVIOUS
<1>. DEFINE Missing == {m \in 0 .. N : m \notin S}
<1>4. PICK x \in Missing : \A y \in Missing : <<y, x>> \notin R
  <2>1. Missing \subseteq Nat /\ n \in Missing
    BY <1>3
  <2>. HIDE DEF Missing
  <2>. QED  BY <1>1, <2>1, WFMin
<1>5. x # 0 /\ x - 1 \in 0 .. N /\ x - 1 < x /\ x - 1 \in Nat /\ x \in Nat
  OBVIOUS
<1>6. x - 1 \in S
  BY <1>2, <1>4, <1>5
<1>. QED  BY <1>4, <1>5, <1>6

\* Table and place in it say where an entry is
LEMMA OnePlaceEach ==
    ASSUME NEW a \in Nat, NEW b \in Nat, NEW j \in 0 .. INSTR_TRACE_SIZE - 1, NEW l \in 0 .. INSTR_TRACE_SIZE - 1,
           INSTR_TRACE_SIZE * a + j = INSTR_TRACE_SIZE * b + l
    PROVE  a = b /\ j = l
<1>. DEFINE S == INSTR_TRACE_SIZE
<1>1. S \in Nat
  BY TomasuloAssumption
<1>2. ~(a > b)
  <2>1. SUFFICES ASSUME a > b  PROVE FALSE
    OBVIOUS
  <2>2. a - b \in Nat /\ a - b >= 1 /\ S * a = S * b + S * (a - b)
    BY <1>1, <2>1
  <2>3. S * (a - b) >= S
    BY <1>1, <2>2
  <2>. QED  BY <1>1, <2>2, <2>3
<1>3. ~(b > a)
  <2>1. SUFFICES ASSUME b > a  PROVE FALSE
    OBVIOUS
  <2>2. b - a \in Nat /\ b - a >= 1 /\ S * b = S * a + S * (b - a)
    BY <1>1, <2>1
  <2>3. S * (b - a) >= S
    BY <1>1, <2>2
  <2>. QED  BY <1>1, <2>2, <2>3
<1>. QED  BY <1>1, <1>2, <1>3

\* The full tables before entry n, and its place in its own
Quot(n) == n \div INSTR_TRACE_SIZE
Rest(n) == n % INSTR_TRACE_SIZE

\* An entry is where these two say
LEMMA Division ==
    ASSUME NEW n \in Nat
    PROVE  /\ Quot(n) \in Nat /\ Rest(n) \in 0 .. INSTR_TRACE_SIZE - 1
           /\ n = INSTR_TRACE_SIZE * Quot(n) + Rest(n)
<1>. DEFINE S == INSTR_TRACE_SIZE
            q == n \div S
            r == n % S
<1>1. S \in Nat \ {0}
  BY TomasuloAssumption
<1>. HIDE DEF S
<1>2. q \in Int /\ r \in 0 .. S - 1 /\ n = S * q + r
  BY <1>1
<1>3. q \in Nat
  <2>. HIDE DEF q, r
  <2>1. q < 0 => S * q <= -S
    BY <1>1, <1>2
  <2>. QED  BY <1>1, <1>2, <2>1
<1>. QED  BY <1>2, <1>3 DEF Quot, Rest, S

\* One entry further is the next place of the table or the first of the next
LEMMA NextEntry ==
    ASSUME NEW n \in Nat
    PROVE  IF Rest(n) + 1 = INSTR_TRACE_SIZE THEN Quot(n + 1) = Quot(n) + 1 /\ Rest(n + 1) = 0
           ELSE Quot(n + 1) = Quot(n) /\ Rest(n + 1) = Rest(n) + 1
<1>. DEFINE S == INSTR_TRACE_SIZE
            q == Quot(n)
            r == Rest(n)
<1>1. S \in Nat \ {0} /\ n + 1 \in Nat
  BY TomasuloAssumption
<1>2. q \in Nat /\ r \in 0 .. S - 1 /\ n = S * q + r
  BY Division
<1>3. Quot(n + 1) \in Nat /\ Rest(n + 1) \in 0 .. S - 1 /\ n + 1 = S * Quot(n + 1) + Rest(n + 1)
  BY <1>1, Division
<1>. HIDE DEF q, r
<1>4. CASE r + 1 = S
  <2>1. n + 1 = S * (q + 1) + 0 /\ q + 1 \in Nat /\ 0 \in 0 .. S - 1
    BY <1>1, <1>2, <1>4
  <2>2. Quot(n + 1) = q + 1 /\ Rest(n + 1) = 0
    BY <1>3, <2>1, OnePlaceEach
  <2>. QED  BY <1>4, <2>2 DEF r, q
<1>5. CASE r + 1 # S
  <2>1. n + 1 = S * q + (r + 1) /\ r + 1 \in 0 .. S - 1
    BY <1>1, <1>2, <1>5
  <2>2. Quot(n + 1) = q /\ Rest(n + 1) = r + 1
    BY <1>2, <1>3, <2>1, OnePlaceEach
  <2>. QED  BY <1>5, <2>2 DEF r, q
<1>. QED  BY <1>4, <1>5

\* No earlier entry is in a later table
LEMMA EarlierTable ==
    ASSUME NEW i \in Nat, NEW n \in Nat, i <= n
    PROVE  Quot(i) <= Quot(n)
<1>. DEFINE S == INSTR_TRACE_SIZE
            a == Quot(i)
            b == Quot(n)
<1>1. S \in Nat \ {0}
  BY TomasuloAssumption
<1>2. /\ a \in Nat /\ Rest(i) \in 0 .. S - 1 /\ i = S * a + Rest(i)
      /\ b \in Nat /\ Rest(n) \in 0 .. S - 1 /\ n = S * b + Rest(n)
  BY Division
<1>. HIDE DEF a, b
<1>3. SUFFICES ASSUME a > b  PROVE FALSE
  BY <1>2 DEF a, b
<1>4. a - b \in Nat /\ a - b >= 1 /\ S * a = S * b + S * (a - b)
  BY <1>1, <1>2, <1>3
<1>5. S * (a - b) >= S
  BY <1>1, <1>4
<1>. QED  BY <1>1, <1>2, <1>4, <1>5

\* What the first n instructions of p leave in the tables: in entry i of all
\* the tables together stands instruction i
EntryAt(p, n, i) == IF i \in 1 .. n THEN p[i] ELSE Zeroed
Filled(p, n, k) == [j \in 0 .. INSTR_TRACE_SIZE - 1 |-> EntryAt(p, n, INSTR_TRACE_SIZE * (k - 1) + j)]
TablesAfter(p, n) ==
    [k \in 1 .. Quot(n) + 1 |->
        [table |-> Filled(p, n, k), size |-> IF k <= Quot(n) THEN INSTR_TRACE_SIZE ELSE Rest(n) + 1]]

\* A full table gets a successor
RoomFor(p, n) ==
    [k \in 1 .. Quot(n + 1) + 1 |->
        [table |-> Filled(p, n, k), size |-> IF k <= Quot(n + 1) THEN INSTR_TRACE_SIZE ELSE Rest(n + 1)]]

\* The loop of put_instr stops at the last table when all before it are full
LEMMA LastOfTables ==
    ASSUME NEW m \in Nat, NEW list, DOMAIN list = 1 .. m + 1, Len(list) = m + 1,
           \A k \in 1 .. m : list[k].size = INSTR_TRACE_SIZE
    PROVE  Tables!LastUsed(list) = m + 1
<1>1. INSTR_TRACE_SIZE \in Nat
  BY TomasuloAssumption
<1>. DEFINE Is(k) == /\ list[k].size < INSTR_TRACE_SIZE \/ k = Len(list)
                     /\ \A j \in 1 .. k - 1 : list[j].size = INSTR_TRACE_SIZE
<1>2. m + 1 \in DOMAIN list /\ Is(m + 1)
  OBVIOUS
<1>3. \A k \in DOMAIN list : Is(k) => k = m + 1
  <2>1. ASSUME NEW k \in DOMAIN list, Is(k), k # m + 1  PROVE FALSE
    <3>1. k \in 1 .. m
      BY <2>1
    <3>. QED  BY <1>1, <2>1, <3>1
  <2>. HIDE DEF Is
  <2>. QED  BY <2>1
<1>. HIDE DEF Is
<1>4. (CHOOSE k \in DOMAIN list : Is(k)) = m + 1
  BY <1>2, <1>3
<1>. QED  BY <1>4 DEF Tables!LastUsed, Is

\* A list of tables is a sequence
LEMMA TablesList ==
    ASSUME NEW m \in Nat \ {0}, NEW f, f = [k \in 1 .. m |-> f[k]]
    PROVE  /\ Len(f) = m /\ DOMAIN f = 1 .. m
           /\ \A x : Append(f, x) = [k \in 1 .. m + 1 |-> IF k = m + 1 THEN x ELSE f[k]]
<1>1. f \in Seq({f[k] : k \in 1 .. m})
  <2>. DEFINE V == {f[k] : k \in 1 .. m}
  <2>1. \A k \in 1 .. m : f[k] \in V
    OBVIOUS
  <2>. HIDE DEF V
  <2>2. f \in [1 .. m -> V]
    BY <2>1
  <2>. QED  BY <2>2, SeqDef DEF V
<1>2. DOMAIN f = 1 .. m
  OBVIOUS
<1>3. DOMAIN f = 1 .. Len(f) /\ Len(f) \in Nat
  BY <1>1, LenProperties
<1>4. Len(f) = m
  BY <1>2, <1>3
<1>5. ASSUME NEW x  PROVE Append(f, x) = [k \in 1 .. m + 1 |-> IF k = m + 1 THEN x ELSE f[k]]
  <2>. DEFINE V == {f[k] : k \in 1 .. m} \union {x}
  <2>1. \A k \in 1 .. m : f[k] \in V
    OBVIOUS
  <2>2. x \in V
    OBVIOUS
  <2>. HIDE DEF V
  <2>3. f \in Seq(V)
    <3>1. f \in [1 .. m -> V]
      BY <2>1
    <3>. QED  BY <3>1, SeqDef
  <2>4. /\ Append(f, x) \in Seq(V) /\ Len(Append(f, x)) = m + 1
        /\ \A i \in 1 .. m : Append(f, x)[i] = f[i]
        /\ Append(f, x)[m + 1] = x
    BY <1>4, <2>2, <2>3, AppendProperties
  <2>5. Append(f, x) = [k \in 1 .. m + 1 |-> Append(f, x)[k]]
    BY <2>4
  <2>. HIDE DEF V
  <2>6. \A k \in 1 .. m + 1 : Append(f, x)[k] = IF k = m + 1 THEN x ELSE f[k]
    BY <2>4
  <2>. QED  BY <2>5, <2>6
<1>. QED  BY <1>2, <1>4, <1>5

\* There are as many tables as are in use
LEMMA TablesLength ==
    ASSUME NEW p, NEW n \in Nat
    PROVE  Len(TablesAfter(p, n)) = Quot(n) + 1 /\ DOMAIN TablesAfter(p, n) = 1 .. Quot(n) + 1
<1>. DEFINE list == TablesAfter(p, n)
            m == Quot(n) + 1
<1>1. m \in Nat \ {0}
  BY Division
<1>2. list = [k \in 1 .. m |-> list[k]]
  BY DEF TablesAfter
<1>. HIDE DEF list, m
<1>3. Len(list) = m /\ DOMAIN list = 1 .. m
  BY <1>1, <1>2, TablesList
<1>. QED  BY <1>3 DEF list, m

\* put_instr first finds room, in a new table when the last one is full
LEMMA FindsRoom ==
    ASSUME NEW p, NEW n \in Nat
    PROVE  LET list == TablesAfter(p, n)
               longer == IF list[Tables!LastUsed(list)].size = INSTR_TRACE_SIZE
                         THEN Append(list, Tables!NewTable) ELSE list
           IN  longer = RoomFor(p, n) /\ Tables!LastUsed(longer) = Quot(n + 1) + 1
<1>. DEFINE S == INSTR_TRACE_SIZE
            q == Quot(n)
            r == Rest(n)
            list == TablesAfter(p, n)
            room == RoomFor(p, n)
<1>1. S \in Nat \ {0, 1} /\ n + 1 \in Nat
  BY TomasuloAssumption
<1>2. q \in Nat /\ r \in 0 .. S - 1 /\ n = S * q + r /\ Quot(n + 1) \in Nat /\ Rest(n + 1) \in 0 .. S - 1
  BY <1>1, Division
<1>3. list = [k \in 1 .. q + 1 |-> [table |-> Filled(p, n, k), size |-> IF k <= q THEN S ELSE r + 1]]
  BY DEF TablesAfter
<1>4. room = [k \in 1 .. Quot(n + 1) + 1 |->
                 [table |-> Filled(p, n, k), size |-> IF k <= Quot(n + 1) THEN S ELSE Rest(n + 1)]]
  BY DEF RoomFor
<1>. HIDE DEF q, r, list, room
<1>5. Len(list) = q + 1 /\ DOMAIN list = 1 .. q + 1
  BY TablesLength DEF list, q
<1>6. Tables!LastUsed(list) = q + 1
  <2>1. \A k \in 1 .. q : list[k].size = S
    BY <1>2, <1>3
  <2>. QED  BY <1>2, <1>5, <2>1, LastOfTables
<1>7. list[q + 1].size = r + 1
  BY <1>2, <1>3
<1>8. Tables!LastUsed(room) = Quot(n + 1) + 1
  <2>1. room = [k \in 1 .. Quot(n + 1) + 1 |-> room[k]] /\ Quot(n + 1) + 1 \in Nat \ {0}
    BY <1>2, <1>4
  <2>2. Len(room) = Quot(n + 1) + 1 /\ DOMAIN room = 1 .. Quot(n + 1) + 1
    BY <2>1, TablesList
  <2>3. \A k \in 1 .. Quot(n + 1) : room[k].size = S
    BY <1>2, <1>4
  <2>. QED  BY <1>2, <2>2, <2>3, LastOfTables
<1>9. CASE r + 1 = S
  <2>1. Quot(n + 1) = q + 1 /\ Rest(n + 1) = 0
    BY <1>9, NextEntry DEF q, r
  <2>2. Filled(p, n, q + 2) = [j \in 0 .. S - 1 |-> Zeroed]
    <3>1. ASSUME NEW j \in 0 .. S - 1  PROVE EntryAt(p, n, S * ((q + 2) - 1) + j) = Zeroed
      <4>1. S * ((q + 2) - 1) + j = S * q + S + j
        BY <1>1, <1>2
      <4>2. S * ((q + 2) - 1) + j > n
        BY <1>1, <1>2, <1>9, <4>1
      <4>. QED  BY <4>2 DEF EntryAt
    <3>. QED  BY <3>1 DEF Filled
  <2>3. Tables!NewTable = [table |-> Filled(p, n, q + 2), size |-> 0]
    BY <2>2 DEF Tables!NewTable
  <2>4. Append(list, Tables!NewTable) = [k \in 1 .. q + 2 |-> IF k = q + 2 THEN Tables!NewTable ELSE list[k]]
    <3>1. list = [k \in 1 .. q + 1 |-> list[k]] /\ q + 1 \in Nat \ {0}
      BY <1>2, <1>3
    <3>2. Append(list, Tables!NewTable) =
              [k \in 1 .. (q + 1) + 1 |-> IF k = (q + 1) + 1 THEN Tables!NewTable ELSE list[k]]
      BY <3>1, TablesList
    <3>3. (q + 1) + 1 = q + 2
      BY <1>2
    <3>. QED  BY <3>2, <3>3
  <2>5. room = [k \in 1 .. q + 2 |-> IF k = q + 2 THEN Tables!NewTable ELSE list[k]]
    <3>1. \A k \in 1 .. q + 2 : (IF k = q + 2 THEN Tables!NewTable ELSE list[k]) =
                                    [table |-> Filled(p, n, k), size |-> IF k <= q + 1 THEN S ELSE 0]
      BY <1>2, <1>3, <1>9, <2>3
    <3>2. Quot(n + 1) + 1 = q + 2
      BY <1>2, <2>1
    <3>. QED  BY <1>4, <2>1, <3>1, <3>2
  <2>6. Append(list, Tables!NewTable) = room
    BY <2>4, <2>5
  <2>. QED  BY <1>6, <1>7, <1>8, <1>9, <2>6 DEF list, room
<1>10. CASE r + 1 # S
  <2>1. Quot(n + 1) = q /\ Rest(n + 1) = r + 1
    BY <1>10, NextEntry DEF q, r
  <2>2. room = list
    BY <1>3, <1>4, <2>1
  <2>. QED  BY <1>6, <1>7, <1>8, <1>10, <2>2 DEF list, room
<1>. QED  BY <1>9, <1>10

\* and then enters the instruction there.
LEMMA PutNext ==
    ASSUME NEW p, NEW n \in Nat
    PROVE  Tables!put_instr(TablesAfter(p, n), p[n + 1]) = TablesAfter(p, n + 1)
<1>. DEFINE S == INSTR_TRACE_SIZE
            q == Quot(n + 1)
            r == Rest(n + 1)
            room == RoomFor(p, n)
            used == room[q + 1]
            new == [table |-> [used.table EXCEPT ![used.size] = p[n + 1]], size |-> used.size + 1]
<1>1. S \in Nat \ {0, 1} /\ n + 1 \in Nat
  BY TomasuloAssumption
<1>2. q \in Nat /\ r \in 0 .. S - 1 /\ n + 1 = S * q + r
  BY <1>1, Division
<1>3. Tables!put_instr(TablesAfter(p, n), p[n + 1]) = [room EXCEPT ![q + 1] = new]
  BY FindsRoom DEF Tables!put_instr
<1>4. room = [k \in 1 .. q + 1 |-> [table |-> Filled(p, n, k), size |-> IF k <= q THEN S ELSE r]]
  BY DEF RoomFor
<1>. HIDE DEF q, r, room
<1>5. used = [table |-> Filled(p, n, q + 1), size |-> r]
  BY <1>2, <1>4
<1>6. ASSUME NEW k \in 1 .. q + 1, NEW j \in 0 .. S - 1, k # q + 1 \/ j # r
      PROVE  EntryAt(p, n + 1, S * (k - 1) + j) = EntryAt(p, n, S * (k - 1) + j)
  <2>1. S * (k - 1) + j # n + 1
    <3>1. k - 1 \in Nat
      BY <1>2
    <3>. QED  BY <1>2, <1>6, <3>1, OnePlaceEach
  <2>2. S * (k - 1) + j \in Nat
    <3>1. S * (k - 1) \in Nat
      BY <1>1, <1>2
    <3>. QED  BY <1>1, <3>1
  <2>. QED  BY <1>1, <2>1, <2>2 DEF EntryAt
<1>7. EntryAt(p, n + 1, S * ((q + 1) - 1) + r) = p[n + 1]
  <2>1. S * ((q + 1) - 1) + r = n + 1
    BY <1>2
  <2>. QED  BY <1>1, <2>1 DEF EntryAt
<1>8. ASSUME NEW k \in 1 .. q  PROVE Filled(p, n + 1, k) = Filled(p, n, k)
  BY <1>2, <1>6 DEF Filled
<1>9. Filled(p, n + 1, q + 1) = [Filled(p, n, q + 1) EXCEPT ![r] = p[n + 1]]
  <2>1. q + 1 \in 1 .. q + 1
    BY <1>2
  <2>2. \A j \in 0 .. S - 1 : Filled(p, n + 1, q + 1)[j] = IF j = r THEN p[n + 1] ELSE Filled(p, n, q + 1)[j]
    BY <1>6, <1>7, <2>1 DEF Filled
  <2>. QED  BY <2>2 DEF Filled
<1>10. new = [table |-> Filled(p, n + 1, q + 1), size |-> r + 1]
  BY <1>5, <1>9
<1>11. TablesAfter(p, n + 1) = [k \in 1 .. q + 1 |-> [table |-> Filled(p, n + 1, k), size |-> IF k <= q THEN S ELSE r + 1]]
  BY DEF TablesAfter, q, r
<1>. HIDE DEF new
<1>12. \A k \in 1 .. q + 1 : (IF k = q + 1 THEN new ELSE room[k]) =
                                 [table |-> Filled(p, n + 1, k), size |-> IF k <= q THEN S ELSE r + 1]
  BY <1>2, <1>4, <1>8, <1>10
<1>13. [room EXCEPT ![q + 1] = new] = [k \in 1 .. q + 1 |-> IF k = q + 1 THEN new ELSE room[k]]
  BY <1>4
<1>. QED  BY <1>3, <1>11, <1>12, <1>13

\* Before the first instruction there is one table, whose entry 0 is skipped
LEMMA SkippedFirst == Quot(0) = 0 /\ Rest(0) = 0 /\ \A p : TablesAfter(p, 0) = <<Tables!Skipped>>
<1>. DEFINE S == INSTR_TRACE_SIZE
<1>1. S \in Nat \ {0, 1}
  BY TomasuloAssumption
<1>2. Quot(0) = 0 /\ Rest(0) = 0
  <2>1. Quot(0) \in Nat /\ Rest(0) \in 0 .. S - 1 /\ 0 = S * Quot(0) + Rest(0)
    BY Division
  <2>2. 0 = S * 0 + 0 /\ 0 \in 0 .. S - 1
    BY <1>1
  <2>. QED  BY <2>1, <2>2, OnePlaceEach
<1>3. ASSUME NEW p  PROVE TablesAfter(p, 0) = <<Tables!Skipped>>
  <2>1. Filled(p, 0, 1) = [j \in 0 .. S - 1 |-> Zeroed]
    BY DEF Filled, EntryAt
  <2>2. Tables!Skipped = [table |-> Filled(p, 0, 1), size |-> 1]
    <3>1. Tables!NewTable = [table |-> Filled(p, 0, 1), size |-> 0]
      BY <2>1 DEF Tables!NewTable
    <3>. QED  BY <3>1 DEF Tables!Skipped
  <2>3. TablesAfter(p, 0) = [k \in 1 .. 1 |-> Tables!Skipped]
    <3>1. \A k \in 1 .. 1 : [table |-> Filled(p, 0, k), size |-> IF k <= 0 THEN S ELSE 0 + 1] = Tables!Skipped
      BY <2>2
    <3>2. TablesAfter(p, 0) = [k \in 1 .. 1 |-> [table |-> Filled(p, 0, k), size |-> IF k <= 0 THEN S ELSE 0 + 1]]
      BY <1>2 DEF TablesAfter
    <3>. QED  BY <3>1, <3>2
  <2>. QED  BY <2>3
<1>. QED  BY <1>2, <1>3

\* sim_main leaves its instructions in the tables
LEMMA TracedInTables ==
    ASSUME NEW p \in Seq(Instruction)
    PROVE  Tables!Executed(p) = TablesAfter(p, Len(p))
<1>. DEFINE N == Len(p)
            Are(f) == f = [n \in 0 .. N |-> IF n = 0 THEN <<Tables!Skipped>> ELSE Tables!put_instr(f[n - 1], p[n])]
            tables == CHOOSE f : Are(f)
            g == [n \in 0 .. N |-> TablesAfter(p, n)]
<1>1. N \in Nat
  OBVIOUS
<1>. HIDE DEF N
<1>2. ASSUME NEW n \in 0 .. N
      PROVE  g[n] = IF n = 0 THEN <<Tables!Skipped>> ELSE Tables!put_instr(g[n - 1], p[n])
  <2>1. CASE n = 0
    BY <1>1, <2>1, SkippedFirst
  <2>2. CASE n # 0
    <3>1. n - 1 \in Nat /\ n - 1 \in 0 .. N /\ (n - 1) + 1 = n
      BY <1>1, <2>2
    <3>2. Tables!put_instr(TablesAfter(p, n - 1), p[(n - 1) + 1]) = TablesAfter(p, (n - 1) + 1)
      BY <3>1, PutNext
    <3>. QED  BY <2>2, <3>1, <3>2
  <2>. QED  BY <2>1, <2>2
<1>3. Are(g)
  <2>1. g = [n \in 0 .. N |-> g[n]]
    OBVIOUS
  <2>. HIDE DEF g
  <2>. QED  BY <1>2, <2>1
<1>4. Are(tables)
  <2>. HIDE DEF Are, g
  <2>. QED  BY <1>3
<1>5. Tables!Executed(p) = tables[N]
  BY DEF Tables!Executed, N
<1>. HIDE DEF tables
<1>. DEFINE T == {n \in Nat : n <= N => tables[n] = TablesAfter(p, n)}
<1>6. 0 \in T
  <2>1. tables[0] = <<Tables!Skipped>>
    BY <1>1, <1>4
  <2>. QED  BY <2>1, SkippedFirst
<1>7. ASSUME NEW n \in T, n < N  PROVE n + 1 \in T
  <2>1. tables[n + 1] = Tables!put_instr(tables[n], p[n + 1])
    <3>1. n + 1 \in 0 .. N /\ n + 1 # 0 /\ (n + 1) - 1 = n
      BY <1>1, <1>7
    <3>. QED  BY <1>4, <3>1
  <2>. QED  BY <1>1, <1>7, <2>1, PutNext
<1>8. T \in SUBSET Nat
  OBVIOUS
<1>9. \A n \in 0 .. N : n \in T
  <2>. HIDE DEF T
  <2>. QED  BY <1>1, <1>6, <1>7, <1>8, Counting
<1>. QED  BY <1>1, <1>5, <1>9 DEF N

\* An entry within the tables is read back
LEMMA EntryRead ==
    ASSUME NEW p, NEW n \in Nat, NEW i \in Nat, Quot(i) <= Quot(n)
    PROVE  /\ Quot(i) + 1 \in 1 .. Quot(n) + 1
           /\ TablesAfter(p, n)[Quot(i) + 1].table[Rest(i)] = EntryAt(p, n, i)
<1>1. /\ Quot(i) \in Nat /\ Quot(n) \in Nat /\ Rest(i) \in 0 .. INSTR_TRACE_SIZE - 1
      /\ i = INSTR_TRACE_SIZE * Quot(i) + Rest(i) /\ INSTR_TRACE_SIZE \in Nat
  BY Division, TomasuloAssumption
<1>. DEFINE a == Quot(i)
            b == Quot(n)
            k == a + 1
<1>. HIDE DEF a, b
<1>2. k \in 1 .. b + 1 /\ k - 1 = a
  BY <1>1 DEF a, b
<1>3. TablesAfter(p, n)[k].table = Filled(p, n, k)
  BY <1>2 DEF TablesAfter, b
<1>4. Filled(p, n, k)[Rest(i)] = EntryAt(p, n, INSTR_TRACE_SIZE * (k - 1) + Rest(i))
  BY <1>1 DEF Filled
<1>5. INSTR_TRACE_SIZE * (k - 1) + Rest(i) = i
  BY <1>1, <1>2 DEF a
<1>. QED  BY <1>2, <1>3, <1>4, <1>5 DEF a, b

\* print_all_instr finds the entries where get_instr does
LEMMA PrintsAll ==
    ASSUME NEW p \in Seq(Instruction)
    PROVE  Tables!print_all_instr(TablesAfter(p, Len(p)), Len(p)) = p
<1>. DEFINE S == INSTR_TRACE_SIZE
            n == Len(p)
            list == TablesAfter(p, n)
            Is(f) == f = [k \in 1 .. n |-> IF k = 1 THEN <<1, 1>> ELSE Tables!NextPlace(f[k - 1])]
            place == CHOOSE f : Is(f)
            g == [k \in 1 .. n |-> <<Quot(k) + 1, Rest(k)>>]
            printed == {k \in 1 .. n : place[k][1] <= Len(list)}
<1>1. n \in Nat /\ S \in Nat \ {0, 1}
  BY TomasuloAssumption
<1>2. Tables!print_all_instr(list, n) = [k \in printed |-> list[place[k][1]].table[place[k][2]]]
  BY DEF Tables!print_all_instr
<1>3. p = [k \in 1 .. n |-> p[k]]
  BY LenProperties
<1>. HIDE DEF n, list
<1>4. ASSUME NEW k \in Nat
      PROVE  Tables!NextPlace(<<Quot(k) + 1, Rest(k)>>) = <<Quot(k + 1) + 1, Rest(k + 1)>>
  <2>1. Quot(k) \in Nat /\ Rest(k) \in Nat
    <3>1. Quot(k) \in Nat /\ Rest(k) \in 0 .. S - 1
      BY Division
    <3>. HIDE DEF S
    <3>. QED  BY <1>1, <3>1
  <2>2. Tables!NextPlace(<<Quot(k) + 1, Rest(k)>>) =
            IF Rest(k) + 1 = S THEN <<(Quot(k) + 1) + 1, 0>> ELSE <<Quot(k) + 1, Rest(k) + 1>>
    BY DEF Tables!NextPlace
  <2>. QED  BY <2>1, <2>2, NextEntry
<1>5. Quot(1) = 0 /\ Rest(1) = 1
  <2>1. IF Rest(0) + 1 = S THEN Quot(0 + 1) = Quot(0) + 1 /\ Rest(0 + 1) = 0
        ELSE Quot(0 + 1) = Quot(0) /\ Rest(0 + 1) = Rest(0) + 1
    BY NextEntry
  <2>. QED  BY <1>1, <2>1, SkippedFirst
<1>6. ASSUME NEW k \in 1 .. n
      PROVE  g[k] = IF k = 1 THEN <<1, 1>> ELSE Tables!NextPlace(g[k - 1])
  <2>1. CASE k = 1
    BY <1>5, <2>1
  <2>2. CASE k # 1
    <3>1. k - 1 \in Nat /\ k - 1 \in 1 .. n /\ (k - 1) + 1 = k
      BY <1>1, <2>2
    <3>2. Tables!NextPlace(<<Quot(k - 1) + 1, Rest(k - 1)>>) = <<Quot((k - 1) + 1) + 1, Rest((k - 1) + 1)>>
      BY <1>4, <3>1
    <3>. QED  BY <2>2, <3>1, <3>2
  <2>. QED  BY <2>1, <2>2
<1>7. Is(g)
  <2>1. g = [k \in 1 .. n |-> g[k]]
    OBVIOUS
  <2>. HIDE DEF g
  <2>. QED  BY <1>6, <2>1
<1>8. Is(place)
  <2>. HIDE DEF Is, g
  <2>. QED  BY <1>7
<1>. HIDE DEF place
<1>. DEFINE T == {k \in Nat : k + 1 <= n => place[k + 1] = <<Quot(k + 1) + 1, Rest(k + 1)>>}
<1>9. \A k \in 0 .. n : k \in T
  <2>1. 0 \in T
    <3>1. 1 <= n => place[1] = <<1, 1>>
      BY <1>1, <1>8
    <3>. QED  BY <1>5, <3>1
  <2>2. ASSUME NEW k \in T, k < n  PROVE k + 1 \in T
    <3>1. SUFFICES ASSUME (k + 1) + 1 <= n
                   PROVE  place[(k + 1) + 1] = <<Quot((k + 1) + 1) + 1, Rest((k + 1) + 1)>>
      OBVIOUS
    <3>2. (k + 1) + 1 \in 1 .. n /\ (k + 1) + 1 # 1 /\ ((k + 1) + 1) - 1 = k + 1 /\ k + 1 \in Nat /\ k + 1 <= n
      BY <1>1, <3>1
    <3>3. place[(k + 1) + 1] = Tables!NextPlace(place[k + 1])
      BY <1>8, <3>2
    <3>4. place[k + 1] = <<Quot(k + 1) + 1, Rest(k + 1)>>
      BY <3>2
    <3>. QED  BY <1>4, <3>2, <3>3, <3>4
  <2>3. T \in SUBSET Nat
    OBVIOUS
  <2>. HIDE DEF T
  <2>. QED  BY <1>1, <2>1, <2>2, <2>3, Counting
<1>10. ASSUME NEW k \in 1 .. n  PROVE place[k] = <<Quot(k) + 1, Rest(k)>>
  <2>1. k - 1 \in 0 .. n /\ (k - 1) + 1 = k
    BY <1>1
  <2>. QED  BY <1>9, <2>1
<1>11. Len(list) = Quot(n) + 1
  BY <1>1, TablesLength DEF list
<1>12. ASSUME NEW k \in 1 .. n
       PROVE  k \in printed /\ list[place[k][1]].table[place[k][2]] = p[k]
  <2>1. k \in Nat /\ k <= n
    BY <1>1
  <2>2. Quot(k) <= Quot(n) /\ Quot(k) \in Nat /\ Quot(n) \in Nat
    BY <1>1, <2>1, EarlierTable, Division
  <2>3. list[Quot(k) + 1].table[Rest(k)] = EntryAt(p, n, k)
    BY <1>1, <2>1, <2>2, EntryRead DEF list
  <2>4. EntryAt(p, n, k) = p[k]
    BY DEF EntryAt
  <2>. QED  BY <1>10, <1>11, <2>2, <2>3, <2>4
<1>13. printed = 1 .. n
  BY <1>12
<1>14. [k \in printed |-> list[place[k][1]].table[place[k][2]]] = [k \in 1 .. n |-> p[k]]
  <2>. HIDE DEF printed
  <2>. QED  BY <1>12, <1>13
<1>. QED  BY <1>2, <1>3, <1>14 DEF n, list

(* The tables that put_instr fills and get_instr and print_all_instr read  *)
(* amount to the sequence of executed instructions, whatever the size of a *)
(* table (instr.c:24-79).                                                  *)
THEOREM TraceInTables == Spec => []TraceIsTables
<1>1. TypeOK => TraceIsTables
  <2>1. SUFFICES ASSUME TypeOK
                 PROVE  LET list == Tables!Executed(trace)
                        IN  /\ \A i \in 1 .. sim_num_insn : Tables!InTrace(list, i)
                            /\ \A i \in Entries : Tables!InTrace(list, i) =>
                                   Tables!get_instr(list, i) = get_instr(i)
                            /\ Tables!print_all_instr(list, sim_num_insn) = trace
    BY DEF TraceIsTables
  <2>. DEFINE n == Len(trace)
              list == TablesAfter(trace, n)
  <2>2. trace \in Seq(Instruction) /\ n \in Nat /\ DOMAIN trace = 1 .. n
    BY <2>1, TomasuloAssumption, LenProperties DEF TypeOK
  <2>3. Tables!Executed(trace) = list /\ Tables!print_all_instr(list, n) = trace
    BY <2>2, TracedInTables, PrintsAll
  <2>. HIDE DEF n
  <2>4. Len(list) = Quot(n) + 1 /\ Quot(n) \in Nat
    BY <2>2, TablesLength, Division
  <2>5. ASSUME NEW i \in Nat  PROVE Tables!InTrace(list, i) <=> Quot(i) <= Quot(n)
    <3>1. Tables!TableOf(i) = 1 + Quot(i) /\ Quot(i) \in Nat
      BY Division DEF Tables!TableOf, Quot
    <3>. HIDE DEF list
    <3>. QED  BY <2>4, <3>1 DEF Tables!InTrace
  <2>6. ASSUME NEW i \in 1 .. n  PROVE Tables!InTrace(list, i)
    BY <2>2, <2>5, EarlierTable
  <2>7. ASSUME NEW i \in 1 .. n + 1, Tables!InTrace(list, i)
        PROVE  Tables!get_instr(list, i) = get_instr(i)
    <3>1. Tables!get_instr(list, i) = list[Quot(i) + 1].table[Rest(i)]
      <4>1. Tables!TableOf(i) = Quot(i) + 1
        BY Division DEF Tables!TableOf, Quot
      <4>. QED  BY <4>1 DEF Tables!get_instr, Rest
    <3>2. list[Quot(i) + 1].table[Rest(i)] = EntryAt(trace, n, i)
      BY <2>2, <2>5, <2>7, EntryRead
    <3>3. EntryAt(trace, n, i) = get_instr(i)
      BY <2>2 DEF EntryAt, get_instr
    <3>. QED  BY <3>1, <3>2, <3>3
  <2>. QED  BY <2>3, <2>6, <2>7 DEF sim_num_insn, Entries, n
<1>. QED  BY <1>1, TomasuloTyped, PTL
=============================================================================
