-------------------------------- MODULE Frame --------------------------------
(***************************************************************************)
(* CMotherboard::SystemFrame() (src/emubase/Board.cpp): the loop that      *)
(* gives every device its time, one step per call it makes.  Its counters  *)
(* are locals: they start from zero in every frame and are lost with it,   *)
(* also when a breakpoint ends it early.                                   *)
(*                                                                         *)
(* The timer is Timer's.  Of the teletype this module has the countdown of *)
(* a byte; the interrupts are Board's, the floppy's turns FloppyStream's.  *)
(***************************************************************************)
EXTENDS Timer

CONSTANTS
  FrameTicks,   (* ticks of a frame: 10000 in the code                       *)
  ProcTicks,    (* calls of Execute() in a tick: 6, on the BK-0011M 8        *)
  TimerPeriod,  (* calls of Execute() per timer tick: 128                    *)
  TtyPeriod,    (* frame ticks per teletype tick: 52                         *)
  TxTicks       (* teletype ticks a byte takes: 8                            *)

(* A frame is long enough for a byte: one tick starts its countdown.        *)
ASSUME FrameAssumption ==
  /\ FrameTicks \in Nat \ {0}
  /\ ProcTicks \in Nat \ {0}
  /\ TimerPeriod \in Nat \ {0}
  /\ TtyPeriod \in Nat \ {0}
  /\ TxTicks \in Nat \ {0}
  /\ TtyPeriod * TxTicks < FrameTicks

VARIABLES
  phase,        (* where SystemFrame() is; "idle": not running               *)
  frametick,    (* frameticks                                                *)
  proctick,     (* procticks                                                 *)
  timerTicks,   (* timerTicks                                                *)
  txCount,      (* teletypeTxCount                                           *)
  ttyReady      (* 177564 bit 7                                              *)

countVars == <<frametick, proctick, timerTicks, txCount>>
frameVars == <<timerVars, phase, countVars, ttyReady>>

FrameInit ==
  /\ TimerInit
  /\ phase = "idle"
  /\ frametick = 0
  /\ proctick = 0
  /\ timerTicks = 0
  /\ txCount = 0
  /\ ttyReady = TRUE

(* The frame returns, and its locals are gone. *)
Returns ==
  /\ phase' = "idle"
  /\ frametick' = 0
  /\ proctick' = 0
  /\ timerTicks' = 0
  /\ txCount' = 0

BeginFrame ==
  /\ phase = "idle"
  /\ phase' = "cpu"
  /\ UNCHANGED <<timerVars, countVars, ttyReady>>

-----------------------------------------------------------------------------
(* What one instruction, or a debugger command, does to these devices. *)

WriteTtyData == ttyReady' = FALSE /\ UNCHANGED timerVars

(* The instruction RESET finds the teletype's countdown where it is: the    *)
(* local of SystemFrame() is out of its reach.                              *)
ResetDevices == ttyReady' = TRUE /\ ResetTimer

Access ==
  \/ TimerAccess /\ UNCHANGED ttyReady
  \/ WriteTtyData
  \/ ResetDevices
  \/ UNCHANGED <<timerVars, ttyReady>>

(* Between frames: a memory command, or DebugTicks(), which executes one    *)
(* instruction and gives the timer and the teletype no time.                *)
BetweenFrames ==
  /\ phase = "idle"
  /\ Access
  /\ UNCHANGED <<phase, countVars>>

BoardReset ==
  /\ phase = "idle"
  /\ timer' = Modulus - 1
  /\ reload' = ResetReload
  /\ divider' = 0
  /\ flags' = Quiet
  /\ request' = FALSE
  /\ ttyReady' = TRUE
  /\ UNCHANGED <<vm1g, phase, countVars>>

-----------------------------------------------------------------------------
(* The loop. *)

(* Slip: the timer ticks one call of Execute() late. *)
TimerDueLate == timerTicks + 1 > TimerPeriod

TimerDue == timerTicks + 1 >= TimerPeriod

AfterCall ==
  \/ /\ proctick + 1 < ProcTicks
     /\ proctick' = proctick + 1
     /\ phase' = "cpu"
  \/ /\ proctick + 1 >= ProcTicks
     /\ proctick' = 0
     /\ phase' = "devices"

(* A call of Execute() whose PC then stands on a breakpoint ends the frame. *)
ExecuteCPU ==
  /\ phase = "cpu"
  /\ Access
  /\ \/ Returns
     \/ /\ timerTicks' = timerTicks + 1
        /\ IF TimerDue THEN phase' = "timer" /\ UNCHANGED proctick ELSE AfterCall
        /\ UNCHANGED <<frametick, txCount>>

TickTimer ==
  /\ phase = "timer"
  /\ TimerTick
  /\ timerTicks' = 0
  /\ AfterCall
  /\ UNCHANGED <<frametick, txCount, ttyReady>>

(* Slip: a byte takes one tick more than there may be left. *)
TeletypeTickSlow ==
  \/ /\ txCount > 0
     /\ txCount' = txCount - 1
     /\ ttyReady' = (ttyReady \/ txCount = 1)
  \/ /\ txCount = 0
     /\ txCount' = IF ttyReady THEN 0 ELSE TxTicks + 1
     /\ UNCHANGED ttyReady

(* The teletype's tick: a byte's countdown goes on, ends, or begins. *)
TeletypeTick ==
  \/ /\ txCount > 0
     /\ txCount' = txCount - 1
     /\ ttyReady' = (ttyReady \/ txCount = 1)
  \/ /\ txCount = 0
     /\ txCount' = IF ttyReady THEN 0 ELSE TxTicks
     /\ UNCHANGED ttyReady

TickDevices ==
  /\ phase = "devices"
  /\ frametick + 1 < FrameTicks
  /\ IF frametick % TtyPeriod = 0 THEN TeletypeTick ELSE UNCHANGED <<txCount, ttyReady>>
  /\ frametick' = frametick + 1
  /\ phase' = "cpu"
  /\ UNCHANGED <<timerVars, proctick, timerTicks>>

(* The last tick; what the teletype counts in it is lost with the frame. *)
CompleteFrame ==
  /\ phase = "devices"
  /\ frametick + 1 = FrameTicks
  /\ ttyReady' = (ttyReady \/ (frametick % TtyPeriod = 0 /\ txCount = 1))
  /\ Returns
  /\ UNCHANGED timerVars

SystemFrame == ExecuteCPU \/ TickTimer \/ TickDevices \/ CompleteFrame

FrameNext == BeginFrame \/ BetweenFrames \/ BoardReset \/ SystemFrame

FrameSpec == FrameInit /\ [][FrameNext]_frameVars /\ WF_frameVars(SystemFrame)

-----------------------------------------------------------------------------
FrameTypeOK ==
  /\ TimerTypeOK
  /\ phase \in {"idle", "cpu", "timer", "devices"}
  /\ frametick \in 0..(FrameTicks - 1)
  /\ proctick \in 0..(ProcTicks - 1)
  /\ timerTicks \in 0..TimerPeriod
  /\ txCount \in 0..TxTicks
  /\ ttyReady \in BOOLEAN

(* "On every 128th processor tick" (Board.cpp:388), as far as it is true:   *)
(* counted from the start of the frame, the timer ticks on every 128th call *)
(* of Execute() and on no other.                                            *)
Executed ==
  ProcTicks * frametick + proctick
    + CASE phase = "timer" -> 1 [] phase = "devices" -> ProcTicks [] OTHER -> 0

TimerRegular ==
  /\ timerTicks = IF phase = "timer" THEN TimerPeriod ELSE Executed % TimerPeriod
  /\ phase = "timer" => Executed % TimerPeriod = 0

(* The timer is a countdown: a period takes as many timer ticks as counter  *)
(* and prescaler say, 0 standing for a full turn of the counter; the next   *)
(* one has the length of the reload register, a full turn in WRAPAROUND     *)
(* mode, or does not come in ONESHOT mode; its end, if enabled, always      *)
(* leaves one more signal, a request or EXPIRY, unless those it can leave   *)
(* are there, and nothing but a program's access interferes                 *)
(* (Board.cpp:292-366; "EXPIRY means the previous request is still          *)
(* pending", 338).                                                          *)
Turn(value) == IF value = 0 THEN Modulus ELSE value

Ticks(value, gone) == Divisor[flags.prescale] * Turn(value) - gone

Left == IF Counting THEN Ticks(timer, divider) ELSE 0

NextLength ==
  IF Counting /\ (flags.wrap \/ ~flags.oneshot)
  THEN Ticks(IF flags.wrap THEN 0 ELSE reload, 0) ELSE 0

Signalling == Counting /\ flags.expire /\ ~flags.wrap

Signals == (IF flags.expiry THEN 1 ELSE 0) + (IF request THEN 1 ELSE 0)

Countdown == INSTANCE Countdown WITH
  left <- Left, next <- NextLength, enabled <- Signalling, signal <- Signals,
  most <- IF vm1g THEN 2 ELSE 1, due <- phase = "timer"

CountdownSpec == Countdown!Spec

(* As long as frames are completed, every byte is sent: the countdown,      *)
(* which each frame drops and the next starts anew, fits into one frame     *)
(* (Board.cpp:477-500).                                                     *)
ByteSent == []<><<CompleteFrame>>_frameVars => (~ttyReady ~> ttyReady)
=============================================================================
