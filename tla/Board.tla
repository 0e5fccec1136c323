-------------------------------- MODULE Board --------------------------------
(***************************************************************************)
(* CMotherboard's interrupt sources (src/emubase/Board.cpp) on top of the  *)
(* processor: keyboard, teletype, 50 Hz tick, STOP key, RESET, and the     *)
(* device registers through which a program or the debugger reaches them.  *)
(* Keyboard and teletype share VIRQ slot 1.                                *)
(*                                                                         *)
(* Every action is one of the processor's, with what happens to the        *)
(* devices in the same call.  An instruction makes at most one access to   *)
(* these registers.  Registers that raise no interrupt (joystick, scroll,  *)
(* sound, 177716) and key releases, which only change 177716, are left     *)
(* out; the timer and the floppy controller have modules of their own.     *)
(***************************************************************************)
EXTENDS Processor

CONSTANTS
  BK0011,       (* TRUE: the BK-0011M, whose 177662 is writable             *)
  TtyEnables    (* values programs write to the teletype's enable bit       *)

KeyVectors == {"v060", "v0274"}
TtyVector == "v064"
DeviceSlot == 1

ASSUME BoardAssumption ==
  /\ Vectors = KeyVectors \cup {TtyVector}
  /\ DeviceSlot \in Slots
  /\ BK0011 \in BOOLEAN
  /\ TtyEnables \subseteq BOOLEAN

VARIABLES
  ready,        (* 177660 bit 7: a key code waits in 177662                 *)
  masked,       (* 177660 bit 6: the keyboard interrupt is masked           *)
  deferred,     (* m_nKbdIrqPending                                         *)
  ttyIE,        (* 177564 bit 6                                             *)
  ttyReady,     (* 177564 bit 7                                             *)
  sending,      (* teletypeTxCount > 0, a local of SystemFrame()            *)
  evntOff       (* 177662 (write) bit 14: the 50 Hz interrupt is off        *)

keyboardVars == <<ready, masked, deferred>>
teletypeVars == <<ttyIE, ttyReady, sending>>
deviceVars == <<keyboardVars, teletypeVars, evntOff>>
boardVars == <<cpuVars, deviceVars>>

(* Keys and commands come between two frames, when no byte is being sent;   *)
(* without one the model does not tell a frame from the time between two.   *)
BetweenFrames == ~sending

DevicesReset ==
  /\ ready' = FALSE
  /\ masked' = TRUE
  /\ deferred' = NoVector
  /\ ttyIE' = FALSE
  /\ ttyReady' = TRUE
  /\ evntOff' = TRUE
  /\ UNCHANGED sending

(* The constructor ends in Reset(). *)
BoardInit ==
  /\ Init
  /\ ready = FALSE
  /\ masked = TRUE
  /\ deferred = NoVector
  /\ ttyIE = FALSE
  /\ ttyReady = TRUE
  /\ sending = FALSE
  /\ evntOff = TRUE

BoardReset == BetweenFrames /\ Reset /\ DevicesReset

-----------------------------------------------------------------------------
(* Devices, between two calls of Execute(). *)

(* A key press.  While a code still waits, a further press changes nothing. *)
KeyboardEvent(v) ==
  /\ BetweenFrames
  /\ ~ready
  /\ ready' = TRUE
  /\ \/ /\ ~masked
        /\ InterruptVIRQ(DeviceSlot, v)
        /\ UNCHANGED deferred
     \/ /\ masked /\ ~polling
        /\ deferred' = v
        /\ UNCHANGED cpuVars
  /\ UNCHANGED <<masked, teletypeVars, evntOff>>

StopKey == BetweenFrames /\ AssertIRQ1 /\ UNCHANGED deviceVars

Tick50 == ~evntOff /\ TickIRQ2 /\ UNCHANGED deviceVars

TimerExpires == TickTimer /\ UNCHANGED deviceVars

(* SystemFrame() finds Ready down and starts its countdown. *)
TeletypeStarts ==
  /\ ~polling
  /\ ~sending /\ ~ttyReady
  /\ sending' = TRUE
  /\ UNCHANGED <<cpuVars, keyboardVars, ttyIE, ttyReady, evntOff>>

(* The countdown has sent the byte.  It does not look at Ready again: a     *)
(* RESET may have set it in the meantime.                                   *)
TeletypeSent ==
  /\ sending
  /\ sending' = FALSE
  /\ ttyReady' = TRUE
  /\ \/ ttyIE /\ InterruptVIRQ(DeviceSlot, TtyVector)
     \/ ~ttyIE /\ ~polling /\ UNCHANGED cpuVars
  /\ UNCHANGED <<keyboardVars, ttyIE, evntOff>>

(* The frame ends in the middle of a countdown, which goes with it.         *)
FrameOver ==
  /\ ~polling
  /\ sending
  /\ sending' = FALSE
  /\ UNCHANGED <<cpuVars, keyboardVars, ttyIE, ttyReady, evntOff>>

-----------------------------------------------------------------------------
(* Register accesses; q is the VIRQ queue they leave. *)

(* Slip: reading the key withdraws the request in the shared slot. *)
ReadKeyDataWithdraws(q) ==
  /\ ready' = FALSE
  /\ deferred' = NoVector
  /\ q = Withdrawn(virq, DeviceSlot)
  /\ UNCHANGED <<masked, teletypeVars, evntOff>>

(* 177662 read: the key is consumed, with it the deferred interrupt, but    *)
(* not an interrupt already raised.                                         *)
ReadKeyData(q) ==
  /\ ready' = FALSE
  /\ deferred' = NoVector
  /\ q = virq
  /\ UNCHANGED <<masked, teletypeVars, evntOff>>

(* Slip: unmasking drops the deferred interrupt. *)
WriteKeyStatusDrops(mask, q) ==
  /\ masked' = mask
  /\ deferred' = IF masked /\ ~mask THEN NoVector ELSE deferred
  /\ q = virq
  /\ UNCHANGED <<ready, teletypeVars, evntOff>>

WriteKeyStatus(mask, q) ==
  /\ masked' = mask
  /\ IF masked /\ ~mask /\ deferred # NoVector
     THEN q = Raised(virq, DeviceSlot, deferred) /\ deferred' = NoVector
     ELSE q = virq /\ UNCHANGED deferred
  /\ UNCHANGED <<ready, teletypeVars, evntOff>>

(* Slip: disabling leaves the request in the queue. *)
WriteTtyStatusLeaves(enable, q) ==
  /\ ttyIE' = enable
  /\ q = IF enable /\ ttyReady /\ ~ttyIE THEN Raised(virq, DeviceSlot, TtyVector) ELSE virq
  /\ UNCHANGED <<keyboardVars, ttyReady, sending, evntOff>>

WriteTtyStatus(enable, q) ==
  /\ ttyIE' = enable
  /\ q = CASE enable /\ ttyReady /\ ~ttyIE -> Raised(virq, DeviceSlot, TtyVector)
           [] ~enable /\ ttyIE             -> Withdrawn(virq, DeviceSlot)
           [] OTHER                        -> virq
  /\ UNCHANGED <<keyboardVars, ttyReady, sending, evntOff>>

WriteTtyData(q) ==
  /\ ttyReady' = FALSE
  /\ q = virq
  /\ UNCHANGED <<keyboardVars, ttyIE, sending, evntOff>>

(* 177662 write, BK-0011M only (elsewhere the write faults).  A byte write  *)
(* reads the register first, which is the key code: it consumes the key,    *)
(* and a write to the even byte clears the upper half, bit 14 included.     *)
WritePalette(off, q) ==
  /\ BK0011
  /\ evntOff' = off
  /\ q = virq
  /\ UNCHANGED <<keyboardVars, teletypeVars>>

WritePaletteByte(odd, off, q) ==
  /\ BK0011
  /\ ready' = FALSE
  /\ deferred' = NoVector
  /\ evntOff' = (odd /\ off)
  /\ q = virq
  /\ UNCHANGED <<masked, teletypeVars>>

Access(q) ==
  \/ ReadKeyData(q)
  \/ \E mask \in BOOLEAN : WriteKeyStatus(mask, q)
  \/ \E enable \in TtyEnables : WriteTtyStatus(enable, q)
  \/ WriteTtyData(q)
  \/ \E off \in BOOLEAN : WritePalette(off, q)
  \/ \E odd, off \in BOOLEAN : WritePaletteByte(odd, off, q)

NoAccess(q) == q = virq /\ UNCHANGED deviceVars

-----------------------------------------------------------------------------
(* Instructions and debugger commands. *)

ProgramAccess ==
  \E q \in DeviceOutcomes(virq), fault \in BOOLEAN :
     (Access(q) \/ NoAccess(q)) /\ Instruction(q, fault)

DebuggerDeviceAccess ==
  \E q \in DeviceOutcomes(virq), fault \in BOOLEAN :
     BetweenFrames /\ (Access(q) \/ NoAccess(q)) /\ DebuggerAccess(q, fault)

(* RESET: ResetDevices() leaves the keyboard registers and 177662 alone. *)
ResetDevices ==
  /\ ExecuteRESET
  /\ ttyIE' = FALSE
  /\ ttyReady' = TRUE
  /\ UNCHANGED <<keyboardVars, sending, evntOff>>

CpuOnly ==
  /\ \/ \E r \in ProgramTraps : RequestingInstruction(r)
     \/ TimerInstruction
     \/ ExecuteSTEP
     \/ ExecuteWAIT
     \/ \E p \in PopPSWs : ExecuteMTPS(p)
     \/ \E rtt \in BOOLEAN, p \in PopPSWs, high \in BOOLEAN : ExecuteReturn(rtt, p, high)
     \/ ExecuteWaiting
     \/ Polling
  /\ UNCHANGED deviceVars

Running ==
  \/ \E v \in KeyVectors : KeyboardEvent(v)
  \/ StopKey
  \/ Tick50
  \/ TimerExpires
  \/ TeletypeStarts
  \/ TeletypeSent
  \/ FrameOver
  \/ ProgramAccess
  \/ ResetDevices
  \/ CpuOnly

Commands ==
  \/ DebuggerDeviceAccess
  \/ \E p \in DebuggerPSWs : BetweenFrames /\ SetPSW(p) /\ UNCHANGED deviceVars
  \/ BoardReset

BoardNext == Running \/ Commands

BoardSpec == BoardInit /\ [][BoardNext]_boardVars

(* The emulated machine on its own, without debugger commands. *)
BoardRunSpec == BoardInit /\ [][Running]_boardVars

-----------------------------------------------------------------------------
BoardTypeOK ==
  /\ TypeOK
  /\ ready \in BOOLEAN
  /\ masked \in BOOLEAN
  /\ deferred \in KeyVectors \cup {NoVector}
  /\ ttyIE \in BOOLEAN
  /\ ttyReady \in BOOLEAN
  /\ sending \in BOOLEAN
  /\ evntOff \in BOOLEAN

(* A deferred keyboard interrupt always stands for a key that still waits   *)
(* behind the mask, so that unmasking announces a key that is there         *)
(* (Board.cpp:560-566, 847-850, 1102-1116).                                 *)
DeferredKeyWaits == deferred # NoVector => ready /\ masked

(* A teletype that may not interrupt has no request in the queue: disabling *)
(* it withdraws the request, whichever of the two devices raised the last.  *)
DisabledTtySilent == ~ttyIE => virq.slot[DeviceSlot] # TtyVector

(* What the devices' registers say and what the processor's queue holds     *)
(* stay in step, although either device may take the other's slot.          *)
DevicesInStep == DeferredKeyWaits /\ DisabledTtySilent

(* A key that was pressed behind the mask and not read is announced when    *)
(* the mask goes ("lets a key event survive across a mask/unmask sequence", *)
(* Board.cpp:564): its deferred interrupt leaves only into the VIRQ slot,   *)
(* with the key's reading, or in a board reset.                             *)
DeferredKeyAnnounced ==
  [][ deferred # NoVector /\ deferred' # deferred =>
        \/ virq'.slot[DeviceSlot] = deferred /\ virq'.count > virq.count
        \/ ~ready' ]_boardVars

(* With the teletype silent, a keyboard request leaves the queue only by    *)
(* the delivery of that very request, the rest of the queue untouched, or   *)
(* in a RESET or restart; no register access, timer or command takes it,    *)
(* not even as the only one pending.  It is the only notice of the key:     *)
(* until the key is read no further press raises another                    *)
(* (Board.cpp:549-567).                                                     *)
KeyRequestKept ==
  [][ /\ ~ttyIE /\ ~ttyIE'
      /\ virq.slot[DeviceSlot] \in KeyVectors
      /\ virq'.slot[DeviceSlot] \notin KeyVectors
      => \/ ResetDevices
         \/ BoardReset
         \/ /\ polling /\ psw \cap Masks("VIRQ") = {}
            /\ virq' = Taken(virq, DeviceSlot) ]_boardVars

(* "the device withdraws its interrupt request from the bus"                *)
(* (Processor.cpp:462-464): disabling the teletype leaves a keyboard        *)
(* request in the queue.                                                    *)
WithdrawsOwnRequest ==
  [][ ttyIE /\ ~ttyIE' /\ virq'.count = virq.count - 1 =>
        virq.slot[DeviceSlot] \notin KeyVectors ]_boardVars
=============================================================================
