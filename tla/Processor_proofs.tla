--------------------------- MODULE Processor_proofs ---------------------------
(***************************************************************************)
(* What Processor promises for any number of slots, any vectors, any PSWs  *)
(* in vectors and on the stack: its type, the accounting of the VIRQ queue *)
(* and the life of the two bus fault lines.                                *)
(***************************************************************************)
EXTENDS Processor, FiniteSetTheorems, TLAPS

(* A well-formed queue whose count covers its slots. *)
Counted(q) == q \in VirqQueue /\ Cardinality(Occupied(q)) <= q.count

LEMMA OccupiedFinite ==
  ASSUME NEW q
  PROVE  IsFiniteSet(Occupied(q)) /\ Cardinality(Occupied(q)) \in Nat
<1>1. IsFiniteSet(Occupied(q))
  BY SlotsAssumption, FS_Subset DEF Occupied
<1>2. QED
  BY <1>1, FS_CardinalityType

LEMMA EmptiedCounted == Counted(Emptied)
<1>1. Occupied(Emptied) = {}
  BY DEF Occupied, Emptied
<1>2. Cardinality({}) = 0
  BY FS_EmptySet
<1>3. Emptied \in VirqQueue
  BY DEF Emptied, VirqQueue
<1>4. QED
  BY <1>1, <1>2, <1>3 DEF Counted, Emptied

(* InterruptVIRQ adds at most one vector and always one to the count. *)
LEMMA RaisedCounted ==
  ASSUME NEW q, Counted(q), NEW s \in Slots, NEW v \in Vectors
  PROVE  Counted(Raised(q, s, v))
<1>1. Raised(q, s, v) \in VirqQueue
  BY DEF Counted, Raised, VirqQueue
<1>2. Occupied(Raised(q, s, v)) = Occupied(q) \cup {s}
  BY VectorAssumption DEF Counted, Occupied, Raised, VirqQueue
<1>3. Cardinality(Occupied(q) \cup {s}) <= Cardinality(Occupied(q)) + 1
  <2>1. Cardinality(Occupied(q) \cup {s}) =
          IF s \in Occupied(q) THEN Cardinality(Occupied(q)) ELSE Cardinality(Occupied(q)) + 1
    BY OccupiedFinite, FS_AddElement
  <2>2. QED
    BY <2>1, OccupiedFinite
<1>4. q.count \in Nat /\ Cardinality(Occupied(q)) <= q.count
  BY DEF Counted, VirqQueue
<1>5. Raised(q, s, v).count = q.count + 1
  BY DEF Raised
<1>6. Cardinality(Occupied(q)) \in Nat /\ Cardinality(Occupied(Raised(q, s, v))) \in Nat
  BY OccupiedFinite
<1>7. QED
  BY <1>1, <1>2, <1>3, <1>4, <1>5, <1>6 DEF Counted

(* Removing a vector that is there removes one from both. *)
LEMMA RemovalCounted ==
  ASSUME NEW q, Counted(q), NEW s \in Occupied(q)
  PROVE  /\ q.count > 0
         /\ Counted([count |-> q.count - 1, slot |-> [q.slot EXCEPT ![s] = NoVector]])
<1> DEFINE r == [count |-> q.count - 1, slot |-> [q.slot EXCEPT ![s] = NoVector]]
<1>1. s \in Slots
  BY DEF Occupied
<1>2. Occupied(r) = Occupied(q) \ {s}
  BY <1>1 DEF Counted, Occupied, VirqQueue
<1>3. Cardinality(Occupied(r)) = Cardinality(Occupied(q)) - 1
  <2>1. Cardinality(Occupied(q) \ {s}) = Cardinality(Occupied(q)) - 1
    BY OccupiedFinite, FS_RemoveElement
  <2>2. QED
    BY <1>2, <2>1
<1>4. q.count \in Nat /\ Cardinality(Occupied(q)) <= q.count
  BY DEF Counted, VirqQueue
<1>5. Cardinality(Occupied(q)) \in Nat /\ Cardinality(Occupied(r)) \in Nat
  BY OccupiedFinite
<1>6. q.count > 0
  BY <1>3, <1>4, <1>5
<1>7. r \in VirqQueue
  <2>1. q.count - 1 \in Nat
    BY <1>4, <1>6
  <2>2. [q.slot EXCEPT ![s] = NoVector] \in [Slots -> Vectors \cup {NoVector}]
    BY DEF Counted, VirqQueue
  <2>3. QED
    BY <2>1, <2>2 DEF VirqQueue
<1>8. Cardinality(Occupied(r)) <= r.count
  BY <1>3, <1>4, <1>5
<1>9. QED
  BY <1>6, <1>7, <1>8 DEF Counted

LEMMA WithdrawnCounted ==
  ASSUME NEW q, Counted(q), NEW s \in Slots
  PROVE  Counted(Withdrawn(q, s))
<1>1. CASE q.slot[s] = NoVector
  BY <1>1 DEF Withdrawn
<1>2. CASE q.slot[s] # NoVector
  <2>1. s \in Occupied(q)
    BY <1>2 DEF Occupied
  <2>2. QED
    BY <1>2, <2>1, RemovalCounted DEF Withdrawn
<1>3. QED
  BY <1>1, <1>2

LEMMA DeviceOutcomesCounted ==
  ASSUME NEW q, Counted(q), NEW r \in DeviceOutcomes(q)
  PROVE  Counted(r)
BY EmptiedCounted, RaisedCounted, WithdrawnCounted DEF DeviceOutcomes

-----------------------------------------------------------------------------
(* The inductive invariant.  FaultLines alone is not inductive: a fault in  *)
(* an instruction would become a double hangup if m_okDoubleHangupArmed     *)
(* could be left set, so the invariant says that it never is between steps. *)
CpuInv == TypeOK /\ Counted(virq) /\ armed = FALSE /\ FaultLines

(* The request lines c are fine to be in at a point where polling is poll.  *)
LinesOK(c, poll) ==
  /\ c.rq \subseteq Requests
  /\ c.armed = FALSE
  /\ ~({"RPL2", "RPLY"} \subseteq c.rq)
  /\ ~poll => "RPL2" \notin c.rq

(* Outside an entry a fault is a single one. *)
LEMMA FaultingLines ==
  ASSUME NEW c, NEW poll, LinesOK(c, poll), NEW fault
  PROVE  LinesOK(Faulting(c, fault), poll)
BY DEF LinesOK, Faulting, MemoryError, Requests, SoftwareTraps

LEMMA EnteredLines ==
  ASSUME CpuInv, ~polling, NEW poll
  PROVE  LinesOK(Entered, poll)
BY DEF CpuInv, TypeOK, FaultLines, LinesOK, Entered

LEMMA LinesRestored ==
  ASSUME NEW c, NEW poll \in BOOLEAN, LinesOK(c, poll),
         rq' = c.rq, armed' = c.armed, polling' = poll,
         psw' \subseteq PswBits, waitmode' \in BOOLEAN, Counted(virq')
  PROVE  CpuInv'
BY DEF CpuInv, TypeOK, FaultLines, LinesOK, Counted

LEMMA InitCpuInv == Init => CpuInv
BY EmptiedCounted DEF Init, CpuInv, TypeOK, FaultLines, Counted, PswBits

LEMMA DeviceCpuInv == CpuInv /\ Device => CpuInv'
<1> SUFFICES ASSUME CpuInv, Device
             PROVE  CpuInv'
  OBVIOUS
<1>1. ASSUME NEW r \in {"IRQ1", "IRQ2", "TIMER"}, Assert(r)
      PROVE  CpuInv'
  BY <1>1 DEF CpuInv, TypeOK, FaultLines, Counted, Assert, Requests
<1>2. ASSUME NEW s \in Slots, NEW v \in Vectors, InterruptVIRQ(s, v)
      PROVE  CpuInv'
  <2>1. Counted(virq')
    BY <1>2, RaisedCounted DEF CpuInv, InterruptVIRQ
  <2>2. QED
    BY <1>2, <2>1 DEF CpuInv, TypeOK, FaultLines, Counted, InterruptVIRQ
<1>3. QED
  BY <1>1, <1>2 DEF Device, TickIRQ2, AssertIRQ1, TickTimer

LEMMA DebuggerCpuInv == CpuInv /\ Debugger => CpuInv'
<1> SUFFICES ASSUME CpuInv, Debugger
             PROVE  CpuInv'
  OBVIOUS
<1>1. CASE Reset
  BY <1>1, EmptiedCounted DEF CpuInv, TypeOK, FaultLines, Counted, Reset, PswBits
<1>2. ASSUME NEW p \in DebuggerPSWs, SetPSW(p)
      PROVE  CpuInv'
  BY <1>2, PswAssumption DEF CpuInv, TypeOK, FaultLines, Counted, SetPSW
<1>3. ASSUME NEW q \in DeviceOutcomes(virq), NEW fault \in BOOLEAN, DebuggerAccess(q, fault)
      PROVE  CpuInv'
  <2> DEFINE c == [rq |-> rq, armed |-> armed]
  <2>1. LinesOK(c, FALSE)
    BY <1>3 DEF CpuInv, TypeOK, FaultLines, LinesOK, DebuggerAccess
  <2>2. LinesOK(Faulting(c, fault), FALSE)
    BY <2>1, FaultingLines
  <2>3. Counted(virq')
    BY <1>3, DeviceOutcomesCounted DEF CpuInv, DebuggerAccess
  <2>4. /\ rq' = Faulting(c, fault).rq
        /\ armed' = Faulting(c, fault).armed
        /\ polling' = FALSE
        /\ psw' \subseteq PswBits
        /\ waitmode' \in BOOLEAN
    BY <1>3 DEF CpuInv, TypeOK, DebuggerAccess
  <2>5. QED
    BY <2>2, <2>3, <2>4, LinesRestored
<1>4. QED
  BY <1>1, <1>2, <1>3 DEF Debugger

LEMMA FetchingCpuInv == CpuInv /\ Fetching => CpuInv'
<1> SUFFICES ASSUME CpuInv, Fetching
             PROVE  CpuInv'
  OBVIOUS
<1> USE DEF Finishes, Executes
<1>0. psw \subseteq PswBits /\ waitmode \in BOOLEAN /\ Counted(virq)
  BY DEF CpuInv, TypeOK
<1>1. ASSUME NEW q \in DeviceOutcomes(virq), NEW fault \in BOOLEAN, Instruction(q, fault)
      PROVE  CpuInv'
  <2>1. LinesOK(Faulting(Entered, fault), TRUE)
    BY <1>1, EnteredLines, FaultingLines DEF Instruction
  <2>2. Counted(virq')
    BY <1>0, <1>1, DeviceOutcomesCounted DEF Instruction
  <2>3. QED
    BY <1>0, <1>1, <2>1, <2>2, LinesRestored DEF Instruction
<1>2. ASSUME NEW r \in Requests \ {"RPL2", "RPLY"}, NEW poll \in BOOLEAN, ~polling,
             Finishes([Entered EXCEPT !.rq = @ \cup {r}], poll), UNCHANGED <<psw, waitmode, virq>>
      PROVE  CpuInv'
  <2>1. LinesOK(Entered, poll)
    BY <1>2, EnteredLines
  <2>2. LinesOK([Entered EXCEPT !.rq = @ \cup {r}], poll)
    BY <2>1 DEF LinesOK, Entered
  <2>3. QED
    BY <1>0, <1>2, <2>2, LinesRestored
<1>3. ASSUME NEW r \in ProgramTraps, RequestingInstruction(r)
      PROVE  CpuInv'
  BY <1>2, <1>3, TrapAssumption DEF RequestingInstruction, Requests, SoftwareTraps
<1>4. CASE TimerInstruction
  BY <1>2, <1>4 DEF TimerInstruction, Requests
<1>5. CASE ExecuteSTEP
  BY <1>2, <1>5 DEF ExecuteSTEP, Requests
<1>6. CASE ExecuteWAIT
  BY <1>0, <1>6, EnteredLines, LinesRestored DEF ExecuteWAIT
<1>7. CASE ExecuteRESET
  <2>1. LinesOK([Entered EXCEPT !.rq = @ \ {"TIMER"}], TRUE)
    BY <1>7, EnteredLines DEF ExecuteRESET, LinesOK, Entered
  <2>2. QED
    BY <1>0, <1>7, <2>1, EmptiedCounted, LinesRestored DEF ExecuteRESET
<1>8. ASSUME NEW p \in PopPSWs, ExecuteMTPS(p)
      PROVE  CpuInv'
  <2>1. psw' \subseteq PswBits
    BY <1>0, <1>8 DEF ExecuteMTPS, PswBits
  <2>2. QED
    BY <1>0, <1>8, <2>1, EnteredLines, LinesRestored DEF ExecuteMTPS
<1>9. ASSUME NEW rtt \in BOOLEAN, NEW p \in PopPSWs, NEW high \in BOOLEAN,
             ExecuteReturn(rtt, p, high)
      PROVE  CpuInv'
  <2>1. Popped(p, high) \subseteq PswBits
    BY <1>0, PswAssumption DEF Popped, PswBits
  <2>2. psw' \subseteq PswBits /\ waitmode' \in BOOLEAN /\ Counted(virq') /\ ~polling
    BY <1>0, <1>9, <2>1 DEF ExecuteReturn
  <2>3. \E poll \in BOOLEAN : Finishes(Faulting(Entered, TRUE), poll) \/ Finishes(Entered, poll)
    BY <1>9 DEF ExecuteReturn, Faulting
  <2>4. PICK poll \in BOOLEAN :
           Finishes(Faulting(Entered, TRUE), poll) \/ Finishes(Entered, poll)
    BY <2>3
  <2>5. LinesOK(Entered, poll)
    BY <2>2, EnteredLines
  <2>6. LinesOK(Faulting(Entered, TRUE), poll)
    BY <2>5, FaultingLines
  <2>7. CASE Finishes(Faulting(Entered, TRUE), poll)
    BY <2>2, <2>6, <2>7, LinesRestored
  <2>8. CASE Finishes(Entered, poll)
    BY <2>2, <2>5, <2>8, LinesRestored
  <2>9. QED
    BY <2>4, <2>7, <2>8
<1>10. QED
  BY <1>1, <1>3, <1>4, <1>5, <1>6, <1>7, <1>8, <1>9 DEF Fetching

LEMMA WaitingCpuInv == CpuInv /\ ExecuteWaiting => CpuInv'
<1> SUFFICES ASSUME CpuInv, ExecuteWaiting
             PROVE  CpuInv'
  OBVIOUS
<1>1. LinesOK(Entered, TRUE)
  BY EnteredLines DEF ExecuteWaiting
<1>2. psw' \subseteq PswBits /\ waitmode' \in BOOLEAN /\ Counted(virq')
  BY DEF CpuInv, TypeOK, ExecuteWaiting
<1>3. QED
  BY <1>1, <1>2, LinesRestored DEF ExecuteWaiting, Finishes

-----------------------------------------------------------------------------
(* The interrupt loop. *)

OneFault(c) == c.rq \subseteq Requests /\ ~({"RPL2", "RPLY"} \subseteq c.rq)

LEMMA FaultingOneFault ==
  ASSUME NEW c, OneFault(c), NEW fault
  PROVE  OneFault(Faulting(c, fault))
BY DEF OneFault, Faulting, MemoryError, Requests

(* A double fault outranks everything: the loop cannot end or look at VIRQ  *)
(* while one is pending.                                                    *)
LEMMA DoubleFaultFirst ==
  ASSUME "RPL2" \in rq
  PROVE  Deliverable # {} /\ ~Chosen("VIRQ")
<1>1. Masks("RPL2") = {}
  BY DEF Masks
<1>2. "RPL2" \in Deliverable
  BY <1>1 DEF Deliverable, Pending
<1>3. Rank["RPL2"] = 1 /\ Rank["VIRQ"] = 8
  BY DEF Rank
<1>4. QED
  BY <1>2, <1>3 DEF Chosen

LEMMA EnterCpuInv ==
  ASSUME CpuInv, NEW r, NEW q, Counted(q), NEW fault1, NEW fault2, NEW p \in VectorPSWs,
         Enter(r, q, fault1, fault2, p)
  PROVE  CpuInv'
<1>1. OneFault(Accepted(r))
  BY DEF CpuInv, TypeOK, FaultLines, OneFault, Accepted
<1>2. OneFault(Faulting(Faulting(Accepted(r), fault1), fault2))
  BY <1>1, FaultingOneFault
<1>3. p \subseteq PswBits
  BY PswAssumption DEF PswBits
<1>4. QED
  BY <1>2, <1>3 DEF CpuInv, TypeOK, FaultLines, Counted, OneFault, Enter

LEMMA PollingCpuInv == CpuInv /\ Polling => CpuInv'
<1> SUFFICES ASSUME CpuInv, Polling
             PROVE  CpuInv'
  OBVIOUS
<1>0. Counted(virq)
  BY DEF CpuInv
<1>1. ASSUME NEW r, NEW fault1, NEW fault2, NEW p \in VectorPSWs,
             EnterVector(r, fault1, fault2, p)
      PROVE  CpuInv'
  BY <1>0, <1>1, EnterCpuInv DEF EnterVector
<1>2. ASSUME NEW s \in Slots, NEW fault1, NEW fault2, NEW p \in VectorPSWs,
             EnterVirq(s, fault1, fault2, p)
      PROVE  CpuInv'
  <2>1. Counted(Taken(virq, s))
    BY <1>0, <1>2, RemovalCounted DEF EnterVirq, FirstOccupied, Taken
  <2>2. QED
    BY <1>2, <2>1, EnterCpuInv DEF EnterVirq
<1>3. ASSUME NEW r, EnterHaltMode(r)
      PROVE  CpuInv'
  <2>1. OneFault(MemoryError(Accepted(r))) /\ MemoryError(Accepted(r)).armed = FALSE
    BY DEF CpuInv, TypeOK, FaultLines, OneFault, Accepted, MemoryError, Requests
  <2>2. QED
    BY <1>3, <2>1 DEF CpuInv, TypeOK, FaultLines, Counted, OneFault, EnterHaltMode
<1>4. CASE FindNoVector
  <2>1. "RPL2" \notin rq
    BY <1>4, DoubleFaultFirst DEF FindNoVector
  <2>2. virq' = [count |-> 0, slot |-> virq.slot]
    BY <1>0, <1>4 DEF FindNoVector, Counted, VirqQueue
  <2>3. virq' \in VirqQueue
    BY <1>0, <2>2 DEF Counted, VirqQueue
  <2>4. Occupied(virq') = {} /\ virq'.count = 0
    BY <1>4, <2>2 DEF FindNoVector, Occupied
  <2>5. Counted(virq')
    BY <2>3, <2>4, FS_EmptySet DEF Counted
  <2>6. QED
    BY <1>4, <2>1, <2>5 DEF CpuInv, TypeOK, FaultLines, Counted, FindNoVector
<1>5. CASE EndPolling
  BY <1>5, DoubleFaultFirst DEF EndPolling, CpuInv, TypeOK, FaultLines, Counted
<1>6. QED
  BY <1>1, <1>2, <1>3, <1>4, <1>5 DEF Polling

LEMMA StutterCpuInv == CpuInv /\ UNCHANGED cpuVars => CpuInv'
BY DEF cpuVars, CpuInv, TypeOK, FaultLines, Counted, Occupied

(* Every step of the processor keeps the invariant. *)
LEMMA NextCpuInv == CpuInv /\ [Next]_cpuVars => CpuInv'
BY DeviceCpuInv, DebuggerCpuInv, FetchingCpuInv, WaitingCpuInv, PollingCpuInv, StutterCpuInv
   DEF Next

LEMMA CpuInvariant == Spec => []CpuInv
BY InitCpuInv, NextCpuInv, PTL DEF Spec

(* The request lines, the PSW and the VIRQ queue keep their types; m_virqrq *)
(* does not go negative (Processor.cpp:332-352, 442-470).                   *)
THEOREM TypeCorrect == Spec => []TypeOK
BY CpuInvariant, PTL DEF CpuInv

(* A vector in m_virq is always counted in m_virqrq, so that delivery finds *)
(* it (Processor.cpp:332-352, 442-470).                                     *)
LEMMA EveryVectorCounted == Spec => []SlotsCounted
<1>1. CpuInv => SlotsCounted
  BY DEF CpuInv, Counted, SlotsCounted
<1>2. QED
  BY <1>1, CpuInvariant, PTL

(* One bus fault line at a time, and no double hangup outside the loop that *)
(* serves it (MemoryError(), Processor.cpp:479-486).                        *)
LEMMA FaultLinesCorrect == Spec => []FaultLines
BY CpuInvariant, PTL DEF CpuInv

(* Whatever devices, program and debugger do, the request lines keep their  *)
(* books (Processor.cpp:442-486).                                           *)
THEOREM RequestLinesCorrect == Spec => []RequestLinesOK
BY EveryVectorCounted, FaultLinesCorrect, PTL DEF RequestLinesOK

-----------------------------------------------------------------------------
(* Faults and illegal instructions, in a run without debugger commands.     *)

FaultsInv ==
  /\ CpuInv
  /\ ~polling => "RSVD" \notin rq /\ ("RPLY" \in rq => "T" \in psw)

LEMMA NextFaultsInv == FaultsInv /\ [RunNext]_cpuVars => FaultsInv'
<1> SUFFICES ASSUME FaultsInv, [RunNext]_cpuVars
             PROVE  FaultsInv'
  OBVIOUS
<1>1. CpuInv'
  BY NextCpuInv DEF FaultsInv, RunNext, Next
<1>2. CASE polling'
  BY <1>1, <1>2 DEF FaultsInv
<1>3. CASE ~polling'
  <2> USE DEF FaultsInv
  <2>1. CASE Device
    BY <1>1, <2>1 DEF Device, TickIRQ2, AssertIRQ1, TickTimer, Assert, InterruptVIRQ
  <2>2. CASE Fetching
    BY <1>1, <1>3, <2>2
       DEF Fetching, Finishes, Executes, Instruction, RequestingInstruction, TimerInstruction,
           ExecuteSTEP, ExecuteWAIT, ExecuteRESET, ExecuteMTPS, ExecuteReturn, Entered, MemoryError
  <2>3. CASE ExecuteWaiting
    BY <1>3, <2>3 DEF ExecuteWaiting, Finishes
  <2>4. CASE Polling
    <3>1. ASSUME NEW r \in {"RPLY", "RSVD"}, r \in rq
          PROVE  r \in Deliverable /\ Rank[r] < Rank["VIRQ"]
      <4>1. Masks(r) = {}
        BY DEF Masks
      <4>2. QED
        BY <3>1, <4>1 DEF Deliverable, Pending, Rank
    <3>2. Rank["VIRQ"] = 8 /\ Rank["RPLY"] = 2 /\ Rank["RSVD"] = 3
      BY DEF Rank
    <3>3. Deliverable = {} \/ Chosen("VIRQ")
      BY <1>3, <2>4
         DEF Polling, EnterVector, EnterVirq, Enter, EnterHaltMode, FindNoVector, EndPolling
    <3>4. "RPLY" \notin rq /\ "RSVD" \notin rq
      BY <3>1, <3>2, <3>3 DEF Chosen
    <3>5. rq' = rq
      BY <1>3, <2>4
         DEF Polling, EnterVector, EnterVirq, Enter, EnterHaltMode, FindNoVector, EndPolling
    <3>6. QED
      BY <1>1, <3>4, <3>5
  <2>5. CASE UNCHANGED cpuVars
    BY <1>1, <2>5 DEF cpuVars
  <2>6. QED
    BY <2>1, <2>2, <2>3, <2>4, <2>5 DEF RunNext
<1>4. QED
  BY <1>2, <1>3

(* Between instructions a bus fault is pending only if RTT left T set, an   *)
(* illegal instruction never (Execute(), Processor.cpp:232-290).            *)
THEOREM FaultsAreServed == RunSpec => []FaultsServed
<1>1. Init => FaultsInv
  BY InitCpuInv DEF FaultsInv, Init
<1>2. FaultsInv => FaultsServed
  BY DEF FaultsInv, FaultsServed, CpuInv, FaultLines
<1>3. QED
  BY <1>1, <1>2, NextFaultsInv, PTL DEF RunSpec
=============================================================================
