------------------------------ MODULE Debugger ------------------------------
(***************************************************************************)
(* The debugger between two prompts: how the commands run the machine      *)
(* (src/commands.cpp, CmdStepInto to CmdKeyClick; src/Emulator.cpp,        *)
(* Emulator_Start to Emulator_SystemFrame; src/emubase/Board.cpp,          *)
(* SystemFrame), on top of the breakpoint table and the keyboard queue.    *)
(* Of the machine there is the program counter and whether the processor   *)
(* is in the middle of an instruction's time; what else a frame does is    *)
(* Board's.  A frame is a few calls of Execute().                          *)
(***************************************************************************)
EXTENDS Breakpoints, KeyQueue

CONSTANTS
  FrameTicks,   (* calls of Execute() per frame, 60000 or 80000 in the code *)
  MaxFrames,    (* default for RunUntilBreakpoint(), 3000 in the code       *)
  FrameCounts,  (* arguments of "continue frames N"                         *)
  BusyTicks,    (* longest instruction, in calls of Execute() after the first *)
  Keys,         (* keys of the "key" commands                               *)
  Modifiers,    (* keys held around another                                 *)
  MonitorKeys   (* what "mo" types in this configuration                    *)

ASSUME FrameAssumption ==
  /\ {FrameTicks, MaxFrames} \subseteq Nat \ {0}
  /\ FrameCounts \subseteq Nat
  /\ BusyTicks \in 0..(FrameTicks - 1)

ASSUME KeysAssumption ==
  /\ Keys \cup Modifiers \subseteq Scans
  /\ MonitorKeys \in Seq(Scans)

VARIABLES
  pc,           (* m_R[7]                                                   *)
  busy,         (* m_internalTick                                           *)
  armed,        (* CMotherboard: m_CPUbps is not null                       *)
  tick,         (* SystemFrame(): calls of Execute() so far, 0 = no frame   *)
  maxFrames,    (* RunUntilBreakpoint(): its argument, 0 outside of it      *)
  frames,       (* RunUntilBreakpoint(): frames so far, 0 outside of it     *)
  moved,        (* an instruction was executed since the run began          *)
  script        (* key commands: the key events and frames still to come    *)

machineVars == <<pc, busy>>
runVars == <<maxFrames, frames, moved>>
frameVars == <<armed, tick>>
debuggerVars == <<bpVars, keyVars, machineVars, runVars, frameVars, script>>

DebuggerInit ==
  /\ BpInit
  /\ KeyInit
  /\ pc \in Addresses
  /\ busy = 0
  /\ armed = FALSE
  /\ tick = 0
  /\ maxFrames = 0
  /\ frames = 0
  /\ moved = FALSE
  /\ script = <<>>

AtPrompt == ~running /\ script = <<>>

-----------------------------------------------------------------------------
(* Commands that act at once *)

EditBreakpoints ==
  /\ AtPrompt
  /\ \/ \E a \in Addresses : AddCPUBreakpoint(a) \/ RemoveCPUBreakpoint(a)
     \/ RemoveAllBreakpoints
  /\ UNCHANGED <<keyVars, machineVars, runVars, frameVars, script>>

(* CmdSetRegisterPC, and CmdReset, which starts the processor anew. *)
SetRegisterPC(a) ==
  /\ AtPrompt
  /\ pc' = a
  /\ busy' \in {busy, 0}
  /\ UNCHANGED <<bpVars, keyVars, runVars, frameVars, script>>

(* CmdStepInto; CmdStepOver at a JMP or BR. *)
StepInto ==
  /\ AtPrompt
  /\ pc' \in Addresses
  /\ busy' \in 0..BusyTicks
  /\ UNCHANGED <<bpVars, keyVars, runVars, frameVars, script>>

(* Commands that run: Emulator_Start() forgets the rest of the current      *)
(* instruction's time when there are breakpoints.                           *)

(* Slip: the rest of the time is kept. *)
StartsBusy(n) ==
  /\ maxFrames' = n
  /\ frames' = 0
  /\ moved' = FALSE
  /\ UNCHANGED <<pc, busy>>

Starts(n) ==
  /\ maxFrames' = n
  /\ frames' = 0
  /\ moved' = FALSE
  /\ busy' = IF bpsCount' # 0 THEN 0 ELSE busy
  /\ UNCHANGED pc

RunFrames(n) == AtPrompt /\ Run /\ Starts(n) /\ UNCHANGED <<keyVars, frameVars, script>>

(* CmdRunToAddress, and CmdStepOver with the address behind the instruction *)
RunToAddress(a) ==
  AtPrompt /\ RunTo(a) /\ Starts(MaxFrames) /\ UNCHANGED <<keyVars, frameVars, script>>

(* Commands that press keys: SetKeyState() queues an event and pumps frames *)

Frame == 65535                      (* no key event: one frame *)
HoldFrames == 3
ModifierHoldFrames == 1

Then(scan, pressed, n) == <<Encoded(scan, pressed)>> \o [k \in 1..n |-> Frame]

KeyDown(s) == Then(s, TRUE, HoldFrames)
KeyUp(s) == Then(s, FALSE, ModifierHoldFrames)
KeyClick(s) == Then(s, TRUE, HoldFrames) \o Then(s, FALSE, HoldFrames)

WithModifier(m, s) ==
  {Then(m, TRUE, ModifierHoldFrames) \o KeyDown(s),
   KeyUp(s) \o Then(m, FALSE, HoldFrames),
   Then(m, TRUE, ModifierHoldFrames) \o Then(s, TRUE, HoldFrames)
     \o Then(s, FALSE, ModifierHoldFrames) \o Then(m, FALSE, HoldFrames)}

TypeKey(s) == Then(s, TRUE, 2) \o Then(s, FALSE, 4)

(* One key after the other: of each, two events and six frames. *)
GotoMonitor ==
  [i \in 1..(8 * Len(MonitorKeys)) |-> TypeKey(MonitorKeys[(i - 1) \div 8 + 1])[((i - 1) % 8) + 1]]

Scripts ==
  {KeyDown(s) : s \in Keys \cup Modifiers} \cup {KeyUp(s) : s \in Keys \cup Modifiers}
  \cup {KeyClick(s) : s \in Keys}
  \cup (UNION {WithModifier(m, s) : m \in Modifiers, s \in Keys})
  \cup {GotoMonitor}

KeyCommand ==
  /\ AtPrompt
  /\ script' \in Scripts
  /\ UNCHANGED <<bpVars, keyVars, machineVars, runVars, frameVars>>

-----------------------------------------------------------------------------
(* Frames.  A run begins each with a key event and hands the breakpoints to *)
(* the board; PumpFrames() calls the board directly.                        *)

Queue(e) == KeyEvent(IF e >= Pressed THEN e - Pressed ELSE e, e >= Pressed)

PumpKey ==
  /\ script # <<>>
  /\ Head(script) # Frame
  /\ tick = 0
  /\ Queue(Head(script))
  /\ script' = Tail(script)
  /\ UNCHANGED <<bpVars, keyFlag, machineVars, runVars, frameVars>>

PumpFrame ==
  /\ script # <<>>
  /\ Head(script) = Frame
  /\ tick = 0
  /\ tick' = 1
  /\ UNCHANGED <<bpVars, keyVars, machineVars, runVars, armed, script>>

(* Slip: the board keeps the breakpoints it has. *)
RunFrameUnarmed ==
  /\ running
  /\ tick = 0
  /\ ProcessKeyEvent
  /\ tick' = 1
  /\ UNCHANGED <<bpVars, machineVars, runVars, armed, script>>

RunFrame ==
  /\ running
  /\ tick = 0
  /\ ProcessKeyEvent
  /\ armed' = (bpsCount > 0)
  /\ tick' = 1
  /\ UNCHANGED <<bpVars, machineVars, runVars, script>>

(* A call of Execute() that spends the time of an instruction, or executes. *)
Execute ==
  \/ busy > 0 /\ busy' = busy - 1 /\ UNCHANGED pc
  \/ busy = 0 /\ pc' \in Addresses /\ busy' \in 0..BusyTicks

BreakpointHit == armed /\ Reached(pc')

Tick ==
  /\ tick > 0
  /\ tick < FrameTicks
  /\ Execute
  /\ ~BreakpointHit
  /\ tick' = tick + 1
  /\ moved' = (moved \/ (running /\ busy = 0))
  /\ UNCHANGED <<bpVars, keyVars, maxFrames, frames, armed, script>>

FrameEnds == tick > 0 /\ Execute /\ tick' = 0 /\ UNCHANGED <<keyVars, armed>>

Returns == Stop /\ maxFrames' = 0 /\ frames' = 0 /\ moved' = FALSE

RunHits ==
  /\ running
  /\ FrameEnds
  /\ BreakpointHit
  /\ Returns
  /\ UNCHANGED script

(* The rest of the loop: the frame is counted, and the loop ends or not. *)
NextFrame ==
  /\ frames' = frames + 1
  /\ moved' = (moved \/ busy = 0)
  /\ UNCHANGED <<bpVars, maxFrames>>

(* Slip: only frames with breakpoints set count. *)
RunFrameEndsUncounted ==
  /\ running
  /\ tick = FrameTicks
  /\ FrameEnds
  /\ ~BreakpointHit
  /\ IF armed /\ frames + 1 >= maxFrames THEN Returns
     ELSE frames' = frames /\ moved' = (moved \/ busy = 0) /\ UNCHANGED <<bpVars, maxFrames>>
  /\ UNCHANGED script

(* Slip: the limit is looked at before the frame is counted. *)
RunFrameEndsLate ==
  /\ running
  /\ tick = FrameTicks
  /\ FrameEnds
  /\ ~BreakpointHit
  /\ IF frames >= maxFrames THEN Returns ELSE NextFrame
  /\ UNCHANGED script

RunFrameEnds ==
  /\ running
  /\ tick = FrameTicks
  /\ FrameEnds
  /\ ~BreakpointHit
  /\ IF frames + 1 >= maxFrames THEN Returns ELSE NextFrame
  /\ UNCHANGED script

(* PumpFrames() ignores what SystemFrame() returns. *)
PumpFrameEnds ==
  /\ script # <<>>
  /\ FrameEnds
  /\ BreakpointHit \/ tick = FrameTicks
  /\ script' = Tail(script)
  /\ UNCHANGED <<bpVars, runVars>>

Command ==
  \/ EditBreakpoints
  \/ \E a \in Addresses : SetRegisterPC(a) \/ RunToAddress(a)
  \/ StepInto
  \/ \E n \in FrameCounts \cup {MaxFrames} : RunFrames(n)
  \/ KeyCommand

Machine ==
  \/ PumpKey
  \/ PumpFrame
  \/ RunFrame
  \/ Tick
  \/ RunHits
  \/ RunFrameEnds
  \/ PumpFrameEnds

DebuggerNext == Command \/ Machine

(* The loops of RunUntilBreakpoint(), PumpFrames() and SystemFrame() wait   *)
(* for nothing.                                                             *)
DebuggerSpec == DebuggerInit /\ [][DebuggerNext]_debuggerVars /\ WF_debuggerVars(Machine)

-----------------------------------------------------------------------------
RunTypeOK ==
  /\ pc \in Addresses
  /\ busy \in 0..BusyTicks
  /\ {armed, moved} \subseteq BOOLEAN
  /\ tick \in 0..FrameTicks
  /\ {maxFrames, frames} \subseteq Nat
  /\ frames > 0 => frames < maxFrames
  /\ ~(running /\ script # <<>>)

ScriptOK == script \in Seq(Events \cup {Frame})

DebuggerTypeOK == RunTypeOK /\ ScriptOK

(* In a run no instruction is executed at a breakpoint but the first: the   *)
(* machine is never carried past one (Board.cpp:416-420).                   *)
Executes == tick > 0 /\ busy = 0 /\ tick' # tick

NeverPast == [][running /\ moved /\ Executes => ~IsBreakpoint(pc)]_debuggerVars

(* "For proper breakpoint processing" (Emulator.cpp:396): a run that starts *)
(* at a breakpoint executes an instruction before it stops at one.          *)
RunMoves == [][running /\ ~running' => moved \/ Executes]_debuggerVars

(* "a free run with no breakpoint ever set -- or a breakpoint at an address *)
(* the CPU never reaches -- would hang the console forever. maxFrames caps  *)
(* it" (commands.cpp:888-890): the prompt always comes back.                *)
PromptReturns == []<>AtPrompt

(* "just enough for a queued key event to be drained by                     *)
(* Emulator_ProcessKeyEvent()" (commands.cpp:950-951): no key waits in the  *)
(* queue when the command that pressed it is over.                          *)
KeysDrained == AtPrompt => count = 0
=============================================================================
