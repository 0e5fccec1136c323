------------------------------ MODULE Processor ------------------------------
(***************************************************************************)
(* The K1801VM1 as CProcessor emulates it (src/emubase/Processor.cpp):     *)
(* request lines, the VIRQ queue, the interrupt entry loop of Execute()    *)
(* and the instructions that change any of these.  What an instruction     *)
(* computes is left to the module Instructions; here an instruction is the *)
(* set of effects it can have on the request lines.                        *)
(*                                                                         *)
(* The program is single threaded: devices and the debugger call the       *)
(* processor only between two calls of Execute().  Execute() itself takes  *)
(* several steps here: the instruction, then one step per round of the     *)
(* for(;;) loop that delivers interrupts; `polling' is TRUE in between and *)
(* excludes everyone else, so that the steps of one call stay together.    *)
(* A call that only counts down m_internalTick is a stuttering step.       *)
(*                                                                         *)
(* Left out because nothing in src/ ever asserts them: ACLO (PowerFail)    *)
(* and the HALT pin (AssertHALT).  m_okStopped is FALSE whenever another   *)
(* object can call: the board's constructor and Reset() both end in        *)
(* Start().                                                                *)
(***************************************************************************)
EXTENDS Naturals, FiniteSets

CONSTANTS
  Slots,        (* indices of m_virq, 0..15 in the code                     *)
  Vectors,      (* vectors a device can put in a slot                       *)
  NoVector,     (* the 0 that marks a free slot                             *)
  VectorPSWs,   (* PSWs the program keeps in its interrupt vectors          *)
  PopPSWs,      (* PSWs the program's RTI and RTT can pop                   *)
  DebuggerPSWs, (* PSWs the debugger's rps command can set                  *)
  ProgramTraps, (* requests the program's instructions raise                *)
  VM1G,         (* TRUE: the K1801VM1G variant, the only one with TIMER     *)
  MaxVirq       (* bound on m_virqrq, an int in the code                    *)

(* The PSW is the set of its bits that are 1; C, V, N and Z do not matter here. *)
PswBits == {"P", "T", "HALT", "M10", "M11"}

ASSUME SlotsAssumption == Slots \subseteq Nat /\ IsFiniteSet(Slots)
ASSUME VectorAssumption == NoVector \notin Vectors
ASSUME PswAssumption ==
  /\ VectorPSWs \subseteq SUBSET {"P", "T"}     (* GetWord(vector + 2) & 0377 *)
  /\ PopPSWs \subseteq SUBSET {"P", "T", "HALT"}           (* new_psw & 0777 *)
  /\ DebuggerPSWs \subseteq SUBSET PswBits
ASSUME BoundAssumption == VM1G \in BOOLEAN /\ MaxVirq \in Nat

SoftwareTraps == {"BPT", "IOT", "EMT", "TRAP"}
Requests == {"RPL2", "RPLY", "RSVD", "IRQ1", "IRQ2", "TIMER", "HALT"} \cup SoftwareTraps

ASSUME TrapAssumption == ProgramTraps \subseteq SoftwareTraps \cup {"RSVD", "HALT"}

VARIABLES
  psw,          (* m_psw                                                    *)
  waitmode,     (* m_waitmode                                               *)
  rq,           (* the m_XXXrq flags that are set                           *)
  armed,        (* m_okDoubleHangupArmed                                    *)
  virq,         (* m_virqrq and m_virq                                      *)
  polling       (* inside the interrupt loop of Execute()                   *)

cpuVars == <<psw, waitmode, rq, armed, virq, polling>>

VirqQueue == [count : Nat, slot : [Slots -> Vectors \cup {NoVector}]]

-----------------------------------------------------------------------------
(* The VIRQ queue: a count of requests and, apart from it, one vector per device. *)

Occupied(q) == {s \in Slots : q.slot[s] # NoVector}

(* InterruptVIRQ: counts the request even when the slot already holds one. *)
Raised(q, s, v) == [count |-> q.count + 1, slot |-> [q.slot EXCEPT ![s] = v]]

(* Slip: the count goes down without looking at the slot or at zero.        *)
WithdrawnUnchecked(q, s) ==
  [count |-> q.count - 1, slot |-> [q.slot EXCEPT ![s] = NoVector]]

(* ClearVIRQByIndex *)
Withdrawn(q, s) ==
  IF q.slot[s] = NoVector
  THEN q
  ELSE [count |-> IF q.count > 0 THEN q.count - 1 ELSE 0,
        slot  |-> [q.slot EXCEPT ![s] = NoVector]]

(* ClearVIRQ *)
Emptied == [count |-> 0, slot |-> [s \in Slots |-> NoVector]]

(* The delivery loop takes the first slot that holds a vector. *)
FirstOccupied(q, s) == s \in Occupied(q) /\ \A r \in Occupied(q) : s <= r

Taken(q, s) == [count |-> q.count - 1, slot |-> [q.slot EXCEPT ![s] = NoVector]]

(* What the device accesses of one instruction can do to the queue. *)
DeviceOutcomes(q) ==
  {q, Emptied} \cup {Withdrawn(q, s) : s \in Slots}
               \cup (IF q.count < MaxVirq
                     THEN {Raised(q, s, v) : s \in Slots, v \in Vectors}
                     ELSE {})

(* Slip: the other fault line is not lowered. *)
MemoryErrorBothLines(c) ==
  [rq    |-> c.rq \cup {IF c.armed THEN "RPL2" ELSE "RPLY"},
   armed |-> FALSE]

(* MemoryError(): a bus fault becomes a double one when the entry that is   *)
(* being made is itself the delivery of a bus fault.                        *)
MemoryError(c) ==
  [rq    |-> (c.rq \ {"RPLY", "RPL2"}) \cup {IF c.armed THEN "RPL2" ELSE "RPLY"},
   armed |-> FALSE]

(* The bus accesses of an instruction end in a fault or do not. *)
Faulting(c, fault) == IF fault THEN MemoryError(c) ELSE c
-----------------------------------------------------------------------------
Init ==
  /\ psw = {"P"}
  /\ waitmode = FALSE
  /\ rq = {}
  /\ armed = FALSE
  /\ virq = Emptied
  /\ polling = FALSE

(* Stop() and Start(), called by the board's Reset(). *)
Reset ==
  /\ ~polling
  /\ psw' = {"P"}
  /\ waitmode' = FALSE
  /\ rq' = {}
  /\ armed' = FALSE
  /\ virq' = Emptied
  /\ UNCHANGED polling

-----------------------------------------------------------------------------
(* Calls of the devices, between two calls of Execute(). *)

Assert(r) ==
  /\ ~polling
  /\ rq' = rq \cup {r}
  /\ UNCHANGED <<psw, waitmode, armed, virq, polling>>

TickIRQ2 == Assert("IRQ2")

AssertIRQ1 == Assert("IRQ1")

(* TickTimer(): FALSE in the code, and nothing happens, when the previous   *)
(* request is still there.                                                  *)
TickTimer == VM1G /\ "TIMER" \notin rq /\ Assert("TIMER")

InterruptVIRQ(s, v) ==
  /\ ~polling
  /\ virq.count < MaxVirq
  /\ virq' = Raised(virq, s, v)
  /\ UNCHANGED <<psw, waitmode, rq, armed, polling>>

-----------------------------------------------------------------------------
(* Calls of the debugger, between two calls of Execute(). *)

(* The rps command *)
SetPSW(p) ==
  /\ ~polling
  /\ psw' = p
  /\ UNCHANGED <<waitmode, rq, armed, virq, polling>>

(* ms and memsave go through the same GetByte and SetWord as the program:   *)
(* they reach the devices and can end in MemoryError().                     *)
DebuggerAccess(q, fault) ==
  /\ ~polling
  /\ virq' = q
  /\ LET c == Faulting([rq |-> rq, armed |-> armed], fault)
     IN  rq' = c.rq /\ armed' = c.armed
  /\ UNCHANGED <<psw, waitmode, polling>>

-----------------------------------------------------------------------------
(* Execute(): the instruction. *)

Executes == ~polling /\ ~waitmode

(* m_RPLYrq = false on entry: a fault raised outside Execute() is forgotten. *)
Entered == [rq |-> rq \ {"RPLY"}, armed |-> armed]

Finishes(c, poll) == rq' = c.rq /\ armed' = c.armed /\ polling' = poll

(* Any instruction without an action of its own below; q is what its device *)
(* accesses make of the VIRQ queue.  A failed fetch is Instruction(virq, TRUE). *)
Instruction(q, fault) ==
  /\ Executes
  /\ virq' = q
  /\ Finishes(Faulting(Entered, fault), TRUE)
  /\ UNCHANGED <<psw, waitmode>>

(* BPT, IOT, EMT, TRAP; HALT and RUN; an illegal instruction *)
RequestingInstruction(r) ==
  /\ Executes
  /\ Finishes([Entered EXCEPT !.rq = @ \cup {r}], TRUE)
  /\ UNCHANGED <<psw, waitmode, virq>>

(* A write to 177712 that finds the VM1G timer at zero. *)
TimerInstruction ==
  /\ Executes
  /\ VM1G
  /\ Finishes([Entered EXCEPT !.rq = @ \cup {"TIMER"}], TRUE)
  /\ UNCHANGED <<psw, waitmode, virq>>

(* STEP sets m_stepmode, which makes this call skip the interrupt loop. *)
ExecuteSTEP ==
  /\ Executes
  /\ Finishes([Entered EXCEPT !.rq = @ \cup {"HALT"}], FALSE)
  /\ UNCHANGED <<psw, waitmode, virq>>

ExecuteWAIT ==
  /\ Executes
  /\ waitmode' = TRUE
  /\ Finishes(Entered, TRUE)
  /\ UNCHANGED <<psw, virq>>

(* RESET: ResetDevices() ends in ClearVIRQ() and ClearTimerRequest(). *)
ExecuteRESET ==
  /\ Executes
  /\ virq' = Emptied
  /\ Finishes([Entered EXCEPT !.rq = @ \ {"TIMER"}], TRUE)
  /\ UNCHANGED <<psw, waitmode>>

(* MTPS writes the low byte of the PSW except T. *)
ExecuteMTPS(p) ==
  /\ Executes
  /\ psw' = (psw \ {"P"}) \cup (p \cap {"P"})
  /\ Finishes(Entered, TRUE)
  /\ UNCHANGED <<waitmode, virq>>

(* RTI and RTT.  The first pop faults before anything changed; by the time  *)
(* the second faults the PSW is cut down to its HALT bit.  The popped HALT  *)
(* bit counts only for a PC at or above 0160000.  RTT that leaves T set     *)
(* skips the interrupt loop, even after a fault.                            *)
Popped(p, high) == IF high THEN p ELSE (p \ {"HALT"}) \cup (psw \cap {"HALT"})

ExecuteReturn(rtt, p, high) ==
  /\ Executes
  /\ \/ /\ UNCHANGED psw
        /\ Finishes(MemoryError(Entered), ~(rtt /\ "T" \in psw'))
     \/ /\ psw' = psw \cap {"HALT"}
        /\ Finishes(MemoryError(Entered), TRUE)
     \/ /\ psw' = Popped(p, high)
        /\ Finishes(Entered, ~(rtt /\ "T" \in psw'))
  /\ UNCHANGED <<waitmode, virq>>

(* In wait mode Execute() goes straight to the interrupt loop. *)
ExecuteWaiting ==
  /\ ~polling
  /\ waitmode
  /\ Finishes(Entered, TRUE)
  /\ UNCHANGED <<psw, waitmode, virq>>
-----------------------------------------------------------------------------
(* Execute(): the interrupt loop. *)

(* Slip: the VIRQ branch moved to the front of the chain. *)
RankVirqFirst ==
  [RPL2 |-> 1, RPLY |-> 2, RSVD |-> 3, TBIT |-> 4, IRQ1 |-> 5, IRQ2 |-> 6,
   TIMER |-> 7, VIRQ |-> 0, HALT |-> 9, BPT |-> 10, IOT |-> 11, EMT |-> 12, TRAP |-> 13]

(* The order of the else-if chain. *)
Rank == [RPL2 |-> 1, RPLY |-> 2, RSVD |-> 3, TBIT |-> 4, IRQ1 |-> 5, IRQ2 |-> 6,
         TIMER |-> 7, VIRQ |-> 8, HALT |-> 9, BPT |-> 10, IOT |-> 11, EMT |-> 12,
         TRAP |-> 13]

(* The PSW bits that hold a request back. *)
Masks(r) ==
  CASE r = "IRQ1"                      -> {"M10", "M11"}
    [] r \in {"IRQ2", "TIMER", "VIRQ"} -> {"P", "M10"}
    [] OTHER                           -> {}

Pending == rq \cup {r \in {"TBIT"} : "T" \in psw /\ ~waitmode}
              \cup {r \in {"VIRQ"} : virq.count > 0}

Deliverable == {r \in Pending : Masks(r) \cap psw = {}}

Chosen(r) == r \in Deliverable /\ \A s \in Deliverable : Rank[r] <= Rank[s]

(* intrMode of the code: the requests meant to enter HALT mode, which is    *)
(* not emulated; they end in MemoryError() instead.                         *)
EntersHaltMode(r) == r = "HALT" \/ (r = "RPLY" /\ "HALT" \in psw)

(* Slip: a branch of the chain that forgets to lower its request. *)
AcceptedKept(r) == [rq |-> rq, armed |-> armed \/ r = "RPLY"]

(* The request is taken; delivering a bus fault arms the double hangup. *)
Accepted(r) == [rq |-> rq \ {r}, armed |-> armed \/ r = "RPLY"]

(* Slip: an entry that leaves m_waitmode set. *)
EnterStillWaiting(r, q, fault1, fault2, p) ==
  /\ polling
  /\ Chosen(r)
  /\ rq' = Faulting(Faulting(Accepted(r), fault1), fault2).rq
  /\ armed' = FALSE
  /\ virq' = q
  /\ psw' = p
  /\ UNCHANGED <<waitmode, polling>>

(* Two pushes, either of which can fault, then PC and PSW from the vector.  *)
Enter(r, q, fault1, fault2, p) ==
  /\ polling
  /\ Chosen(r)
  /\ rq' = Faulting(Faulting(Accepted(r), fault1), fault2).rq
  /\ armed' = FALSE
  /\ virq' = q
  /\ psw' = p
  /\ waitmode' = FALSE
  /\ UNCHANGED polling

EnterVector(r, fault1, fault2, p) ==
  /\ ~EntersHaltMode(r)
  /\ Enter(r, virq, fault1, fault2, p)

EnterVirq(s, fault1, fault2, p) ==
  /\ FirstOccupied(virq, s)
  /\ Enter("VIRQ", Taken(virq, s), fault1, fault2, p)

EnterHaltMode(r) ==
  /\ polling
  /\ Chosen(r)
  /\ EntersHaltMode(r)
  /\ LET c == MemoryError(Accepted(r)) IN rq' = c.rq /\ armed' = c.armed
  /\ waitmode' = FALSE
  /\ UNCHANGED <<psw, virq, polling>>

(* The queue counts a request no slot holds: the count is corrected, and    *)
(* the loop ends as if nothing were pending.                                *)
FindNoVector ==
  /\ polling
  /\ Chosen("VIRQ")
  /\ Occupied(virq) = {}
  /\ virq' = [virq EXCEPT !.count = 0]
  /\ polling' = FALSE
  /\ UNCHANGED <<psw, waitmode, rq, armed>>

EndPolling ==
  /\ polling
  /\ Deliverable = {}
  /\ polling' = FALSE
  /\ UNCHANGED <<psw, waitmode, rq, armed, virq>>

-----------------------------------------------------------------------------
Device ==
  \/ TickIRQ2
  \/ AssertIRQ1
  \/ TickTimer
  \/ \E s \in Slots, v \in Vectors : InterruptVIRQ(s, v)

Debugger ==
  \/ Reset
  \/ \E p \in DebuggerPSWs : SetPSW(p)
  \/ \E q \in DeviceOutcomes(virq), fault \in BOOLEAN : DebuggerAccess(q, fault)

Fetching ==
  \/ \E q \in DeviceOutcomes(virq), fault \in BOOLEAN : Instruction(q, fault)
  \/ \E r \in ProgramTraps : RequestingInstruction(r)
  \/ TimerInstruction
  \/ ExecuteSTEP
  \/ ExecuteWAIT
  \/ ExecuteRESET
  \/ \E p \in PopPSWs : ExecuteMTPS(p)
  \/ \E rtt \in BOOLEAN, p \in PopPSWs, high \in BOOLEAN : ExecuteReturn(rtt, p, high)

Polling ==
  \/ \E fault1, fault2 \in BOOLEAN, p \in VectorPSWs :
        \/ \E r \in Requests \cup {"TBIT"} : EnterVector(r, fault1, fault2, p)
        \/ \E s \in Slots : EnterVirq(s, fault1, fault2, p)
  \/ \E r \in Requests : EnterHaltMode(r)
  \/ FindNoVector
  \/ EndPolling

Next == Device \/ Debugger \/ Fetching \/ ExecuteWaiting \/ Polling

Spec == Init /\ [][Next]_cpuVars

(* A run between two debugger commands.  SystemFrame() calls Execute() over *)
(* and over and Execute() does not return from the middle of its loop.  A   *)
(* push that faults leaves SP four bytes lower each time round, so that it  *)
(* comes down from the ROM into RAM: pushes do not fault for ever.          *)
CleanEntry ==
  \E p \in VectorPSWs :
     \/ \E r \in Requests \cup {"TBIT"} : EnterVector(r, FALSE, FALSE, p)
     \/ \E s \in Slots : EnterVirq(s, FALSE, FALSE, p)

RunNext == Device \/ Fetching \/ ExecuteWaiting \/ Polling

RunSpec ==
  /\ Init
  /\ [][RunNext]_cpuVars
  /\ WF_cpuVars(ExecuteWaiting)
  /\ WF_cpuVars(Polling)
  /\ SF_cpuVars(CleanEntry)

-----------------------------------------------------------------------------
TypeOK ==
  /\ psw \subseteq PswBits
  /\ waitmode \in BOOLEAN
  /\ rq \subseteq Requests
  /\ armed \in BOOLEAN
  /\ virq \in VirqQueue
  /\ polling \in BOOLEAN

(* A vector in a slot is always counted.  m_virqrq and m_virq are updated   *)
(* by four methods in different ways, and delivery looks at the slots only  *)
(* when the count is positive: an uncounted vector would never be           *)
(* delivered (Processor.cpp:442-470 and the VIRQ branch of Execute()).      *)
SlotsCounted == Cardinality(Occupied(virq)) <= virq.count

(* At most one of the two bus fault lines is up, and the double one only    *)
(* while the loop that will serve it is running.  A fault outside an        *)
(* instruction would otherwise be promoted to a double hangup.              *)
FaultLines ==
  /\ ~({"RPL2", "RPLY"} \subseteq rq)
  /\ ~polling => "RPL2" \notin rq /\ ~armed

(* The request lines keep their books: whatever the devices raise, withdraw *)
(* and reset, in whatever order, delivery finds every vector and promotes   *)
(* no fault but that of a delivery.                                         *)
RequestLinesOK == SlotsCounted /\ FaultLines

(* A bus fault or an illegal instruction is served before the next          *)
(* instruction.  The one exception: RTT that leaves T set skips the loop,   *)
(* and Execute() forgets the fault of its first pop on the next call.       *)
FaultsServed ==
  ~polling /\ {"RPLY", "RPL2", "RSVD"} \cap rq # {} => "T" \in psw

(* The loop comes to an end: every entry clears the request it serves and   *)
(* a fault during the entry raises another.                                 *)
PollingEnds == polling ~> ~polling

(* WAIT ends when a request that the PSW lets through comes up.  A VIRQ     *)
(* count without a vector does not wake the program.                        *)
Wakers == Deliverable \ {r \in {"VIRQ"} : Occupied(virq) = {}}

WaitEnds == waitmode /\ Wakers # {} ~> ~waitmode
=============================================================================
