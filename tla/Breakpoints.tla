----------------------------- MODULE Breakpoints -----------------------------
(***************************************************************************)
(* The breakpoint table of the emulator shell (src/Emulator.cpp,           *)
(* Emulator_AddCPUBreakpoint to Emulator_RemoveAllBreakpoints): an array   *)
(* that ends with a sentinel, a count, and the address of the temporary    *)
(* breakpoint.  The board walks the array to the sentinel, the shell uses  *)
(* the count.  `running' is there because the commands set a temporary     *)
(* breakpoint only to run at once, and Emulator_Stop() ends every run.     *)
(***************************************************************************)
EXTENDS Integers, FiniteSets

CONSTANTS
  Addresses,    (* addresses a breakpoint can have, 0..0177776 in the code  *)
  NoAddress,    (* 0177777: an empty cell, no temporary breakpoint          *)
  MaxCount      (* MAX_BREAKPOINTCOUNT, 16 in the code                      *)

ASSUME AddressAssumption == NoAddress \notin Addresses
ASSUME MaxCountAssumption == MaxCount \in Nat \ {0}

VARIABLES
  bps,          (* m_EmulatorCPUBps                                         *)
  bpsCount,     (* m_wEmulatorCPUBpsCount                                   *)
  temp,         (* m_wEmulatorTempCPUBreakpoint                             *)
  running       (* g_okEmulatorRunning                                      *)

tableVars == <<bps, bpsCount>>
bpVars == <<tableVars, temp, running>>

Cells == 0..MaxCount
UsedCells == {i \in Cells : i < bpsCount}

Listed(a) == \E i \in Cells : i < MaxCount /\ bps[i] = a

(* Emulator_IsBreakpoint(): the cells below the count *)
IsBreakpoint(a) == \E i \in UsedCells : bps[i] = a

(* CMotherboard::SystemFrame() looks at the cells before the first sentinel. *)
Reached(a) == \E i \in Cells : bps[i] = a /\ \A j \in 0..i : bps[j] # NoAddress

BpInit ==
  /\ bps = [i \in Cells |-> NoAddress]
  /\ bpsCount = 0
  /\ temp = NoAddress
  /\ running = FALSE

(* The first empty cell is the one the count names. *)
FirstEmpty(i) == i < MaxCount /\ bps[i] = NoAddress /\ \A j \in 0..(i - 1) : bps[j] # NoAddress

AddCPUBreakpoint(a) ==
  /\ ~running
  /\ bpsCount # MaxCount - 1
  /\ \A i \in UsedCells : bps[i] # a
  /\ \E i \in Cells : FirstEmpty(i) /\ bps' = [bps EXCEPT ![i] = a]
  /\ bpsCount' = bpsCount + 1
  /\ UNCHANGED <<temp, running>>

(* Slip: the hole is not filled. *)
RemovedHole(t, a) ==
  IF t.count = 0 \/ a = NoAddress \/ ~(\E i \in Cells : i < MaxCount /\ t.cells[i] = a)
  THEN t
  ELSE LET i == CHOOSE i \in Cells : i < MaxCount /\ t.cells[i] = a
       IN  [cells |-> [t.cells EXCEPT ![i] = NoAddress], count |-> t.count - 1]

(* The last breakpoint moves into the hole. *)
Removed(t, a) ==
  IF t.count = 0 \/ a = NoAddress \/ ~(\E i \in Cells : i < MaxCount /\ t.cells[i] = a)
  THEN t
  ELSE LET i == CHOOSE i \in Cells : i < MaxCount /\ t.cells[i] = a
           last == t.count - 1
       IN  [cells |-> IF last > i
                      THEN [t.cells EXCEPT ![i] = t.cells[last], ![last] = NoAddress]
                      ELSE [t.cells EXCEPT ![i] = NoAddress],
            count |-> last]

Table == [cells |-> bps, count |-> bpsCount]

Becomes(t) == bps' = t.cells /\ bpsCount' = t.count

RemoveCPUBreakpoint(a) == ~running /\ Becomes(Removed(Table, a)) /\ UNCHANGED <<temp, running>>

RemoveAllBreakpoints ==
  /\ ~running
  /\ bps' = [i \in Cells |-> NoAddress]
  /\ bpsCount' = 0
  /\ UNCHANGED <<temp, running>>

(* Slip: an address that is listed already is taken as the temporary one. *)
SetTempListed(a) ==
  LET t == Removed(Table, temp)
  IN  IF \E i \in Cells : i < MaxCount /\ t.cells[i] = a
      THEN Becomes(t) /\ temp' = a
      ELSE /\ Becomes([cells |-> [t.cells EXCEPT ![t.count] = a], count |-> t.count + 1])
           /\ temp' = a

(* Emulator_SetTempCPUBreakpoint() for an address, and for 0177777. *)
SetTempCPUBreakpoint(a) ==
  LET t == Removed(Table, temp)
  IN  IF \E i \in Cells : i < MaxCount /\ t.cells[i] = a
      THEN Becomes(t) /\ UNCHANGED temp
      ELSE /\ Becomes([cells |-> [t.cells EXCEPT ![t.count] = a], count |-> t.count + 1])
           /\ temp' = a

ClearTempCPUBreakpoint == Becomes(Removed(Table, temp)) /\ temp' = NoAddress

(* CmdStepOver and CmdRunToAddress set it, then run; "go" only runs.        *)
RunTo(a) == ~running /\ SetTempCPUBreakpoint(a) /\ running' = TRUE

Run == ~running /\ running' = TRUE /\ UNCHANGED <<tableVars, temp>>

Stop == running /\ ClearTempCPUBreakpoint /\ running' = FALSE

BpNext ==
  \/ \E a \in Addresses : AddCPUBreakpoint(a) \/ RemoveCPUBreakpoint(a) \/ RunTo(a)
  \/ RemoveAllBreakpoints
  \/ Run
  \/ Stop

BpSpec == BpInit /\ [][BpNext]_bpVars

-----------------------------------------------------------------------------
BpTypeOK ==
  /\ bps \in [Cells -> Addresses \cup {NoAddress}]
  /\ bpsCount \in 0..MaxCount
  /\ temp \in Addresses \cup {NoAddress}
  /\ running \in BOOLEAN

(* Count and sentinel agree: the cells below the count are used, the others *)
(* are empty, the one behind the last always (the board's walk over the     *)
(* array has no other end, Board.cpp:419).                                  *)
Compact == \A i \in Cells : bps[i] # NoAddress <=> i < bpsCount

(* No address twice: removing it once would leave the other. *)
Distinct == \A i, j \in UsedCells : bps[i] = bps[j] => i = j

(* The temporary breakpoint is in the table, and only during a run; a cell  *)
(* is kept for it (Emulator.cpp:422).                                       *)
TempInTable == temp # NoAddress => running /\ IsBreakpoint(temp)

RoomForTemp == temp = NoAddress => bpsCount < MaxCount

(* Array, count, sentinel and temporary breakpoint agree, in every state a  *)
(* run or a command can be interrupted in (Emulator_AddCPUBreakpoint to     *)
(* Emulator_RemoveAllBreakpoints).                                          *)
TableConsistent == BpTypeOK /\ Compact /\ Distinct /\ TempInTable /\ RoomForTemp

(* The table as the user sees it: a set that running to an address or       *)
(* stepping over a call leaves alone.                                       *)
Set == INSTANCE BreakpointSet WITH
  Points    <- Addresses,
  Capacity  <- MaxCount - 1,
  set       <- {a \in Addresses : Listed(a) /\ a # temp},
  temporary <- {a \in Addresses : a = temp}

SetSpec == Set!SetSpec
=============================================================================
