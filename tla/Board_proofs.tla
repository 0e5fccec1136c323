---------------------------- MODULE Board_proofs ----------------------------
(***************************************************************************)
(* The board uses the processor only as Processor allows, so that what is  *)
(* proved there holds on the board; and the two devices that share VIRQ    *)
(* slot 1 keep their registers and the slot consistent.                    *)
(***************************************************************************)
EXTENDS Board, Processor_proofs

LEMMA StepImplements == [BoardNext]_boardVars => [Next]_cpuVars
<1> SUFFICES ASSUME [BoardNext]_boardVars
             PROVE  [Next]_cpuVars
  OBVIOUS
<1>1. CASE \E v \in KeyVectors : KeyboardEvent(v)
  BY <1>1, BoardAssumption DEF KeyboardEvent, Next, Device
<1>2. CASE StopKey \/ Tick50 \/ TimerExpires
  BY <1>2 DEF StopKey, Tick50, TimerExpires, Next, Device
<1>3. CASE TeletypeStarts \/ TeletypeSent \/ FrameOver
  BY <1>3, BoardAssumption DEF TeletypeStarts, TeletypeSent, FrameOver, Next, Device
<1>4. CASE ProgramAccess
  BY <1>4 DEF ProgramAccess, Next, Fetching
<1>5. CASE ResetDevices
  BY <1>5 DEF ResetDevices, Next, Fetching
<1>6. CASE CpuOnly
  BY <1>6 DEF CpuOnly, Next, Fetching
<1>7. CASE Commands
  BY <1>7 DEF Commands, DebuggerDeviceAccess, BoardReset, Next, Debugger
<1>8. CASE UNCHANGED boardVars
  BY <1>8 DEF boardVars
<1>9. QED
  BY <1>1, <1>2, <1>3, <1>4, <1>5, <1>6, <1>7, <1>8 DEF BoardNext, Running

(* Devices and debugger reach the processor only through its methods, by    *)
(* the way the actions are written: what holds of it holds on the board.    *)
LEMMA BoardImplementsProcessor == BoardSpec => Spec
<1>1. BoardInit => Init
  BY DEF BoardInit
<1>2. QED
  BY <1>1, StepImplements, PTL DEF BoardSpec, Spec

LEMMA BoardCpuInv == BoardSpec => []CpuInv
BY BoardImplementsProcessor, CpuInvariant, PTL

-----------------------------------------------------------------------------
DevicesOK ==
  /\ ready \in BOOLEAN
  /\ masked \in BOOLEAN
  /\ deferred \in KeyVectors \cup {NoVector}
  /\ ttyIE \in BOOLEAN
  /\ ttyReady \in BOOLEAN
  /\ sending \in BOOLEAN
  /\ evntOff \in BOOLEAN

BoardInv == DevicesOK /\ DeferredKeyWaits /\ DisabledTtySilent

LEMMA VectorsDistinct ==
  NoVector \notin KeyVectors /\ TtyVector \notin KeyVectors /\ NoVector # TtyVector
BY BoardAssumption, VectorAssumption DEF KeyVectors, TtyVector

(* The processor's own steps only ever empty a slot. *)
LEMMA CpuOnlySlot ==
  ASSUME CpuInv, CpuOnly
  PROVE  virq'.slot[DeviceSlot] \in {virq.slot[DeviceSlot], NoVector}
<1>1. ASSUME NEW s \in Slots
      PROVE  Taken(virq, s).slot[DeviceSlot] \in {virq.slot[DeviceSlot], NoVector}
  BY BoardAssumption DEF CpuInv, Counted, VirqQueue, Taken
<1>2. CASE Polling
  BY <1>1, <1>2
     DEF Polling, EnterVector, EnterVirq, Enter, EnterHaltMode, FindNoVector, EndPolling,
         CpuInv, Counted, VirqQueue
<1>3. CASE UNCHANGED virq
  BY <1>3
<1>4. QED
  BY <1>2, <1>3
     DEF CpuOnly, RequestingInstruction, TimerInstruction, ExecuteSTEP, ExecuteWAIT, ExecuteMTPS,
         ExecuteReturn, ExecuteWaiting

(* What one register access does to the devices and to slot 1. *)
LEMMA AccessBoardInv ==
  ASSUME CpuInv, BoardInv, NEW q, virq' = q, Access(q) \/ NoAccess(q)
  PROVE  BoardInv'
<1> USE BoardAssumption, VectorsDistinct DEF BoardInv, DevicesOK, DeferredKeyWaits,
        DisabledTtySilent, keyboardVars, teletypeVars
<1>0. virq \in VirqQueue
  BY DEF CpuInv, Counted
<1>1. CASE ReadKeyData(q)
  BY <1>1 DEF ReadKeyData
<1>2. ASSUME NEW mask \in BOOLEAN, WriteKeyStatus(mask, q)
      PROVE  BoardInv'
  <2>1. CASE masked /\ ~mask /\ deferred # NoVector
    <3>1. q.slot[DeviceSlot] = deferred
      BY <1>0, <1>2, <2>1 DEF WriteKeyStatus, Raised, VirqQueue
    <3>2. QED
      BY <1>2, <2>1, <3>1 DEF WriteKeyStatus
  <2>2. CASE ~(masked /\ ~mask /\ deferred # NoVector)
    BY <1>2, <2>2 DEF WriteKeyStatus
  <2>3. QED
    BY <2>1, <2>2
<1>3. ASSUME NEW enable \in TtyEnables, WriteTtyStatus(enable, q)
      PROVE  BoardInv'
  <2>1. enable \in BOOLEAN
    OBVIOUS
  <2>2. CASE enable
    BY <1>3, <2>1, <2>2 DEF WriteTtyStatus
  <2>3. CASE ~enable /\ ttyIE
    <3>1. q = Withdrawn(virq, DeviceSlot)
      BY <1>3, <2>3 DEF WriteTtyStatus
    <3>2. q.slot[DeviceSlot] = NoVector
      BY <1>0, <3>1 DEF Withdrawn, VirqQueue
    <3>3. QED
      BY <1>3, <2>1, <3>2 DEF WriteTtyStatus
  <2>4. CASE ~enable /\ ~ttyIE
    BY <1>3, <2>4 DEF WriteTtyStatus
  <2>5. QED
    BY <2>1, <2>2, <2>3, <2>4
<1>4. CASE WriteTtyData(q)
  BY <1>4 DEF WriteTtyData
<1>5. ASSUME NEW off \in BOOLEAN, WritePalette(off, q)
      PROVE  BoardInv'
  BY <1>5 DEF WritePalette
<1>6. ASSUME NEW odd \in BOOLEAN, NEW off \in BOOLEAN, WritePaletteByte(odd, off, q)
      PROVE  BoardInv'
  BY <1>6 DEF WritePaletteByte
<1>7. CASE NoAccess(q)
  BY <1>7 DEF NoAccess, deviceVars
<1>8. QED
  BY <1>1, <1>2, <1>3, <1>4, <1>5, <1>6, <1>7 DEF Access

LEMMA InitBoardInv == BoardInit => BoardInv
<1> SUFFICES ASSUME BoardInit
             PROVE  BoardInv
  OBVIOUS
<1>1. virq.slot[DeviceSlot] = NoVector
  BY BoardAssumption DEF BoardInit, Init, Emptied
<1>2. DevicesOK /\ DeferredKeyWaits
  BY DEF BoardInit, DevicesOK, DeferredKeyWaits
<1>3. DisabledTtySilent
  BY <1>1, VectorsDistinct DEF DisabledTtySilent
<1>4. QED
  BY <1>2, <1>3 DEF BoardInv

LEMMA NextBoardInv ==
  ASSUME CpuInv, BoardInv, [BoardNext]_boardVars
  PROVE  BoardInv'
<1> USE BoardAssumption, VectorsDistinct DEF BoardInv, DevicesOK, DeferredKeyWaits,
        DisabledTtySilent, keyboardVars, teletypeVars, deviceVars
<1>0. virq \in VirqQueue
  BY DEF CpuInv, Counted
<1>1. ASSUME NEW v \in KeyVectors, KeyboardEvent(v)
      PROVE  BoardInv'
  <2>1. CASE ~masked
    <3>1. virq'.slot[DeviceSlot] = v
      BY <1>0, <1>1, <2>1 DEF KeyboardEvent, InterruptVIRQ, Raised, VirqQueue
    <3>2. QED
      BY <1>1, <2>1, <3>1 DEF KeyboardEvent
  <2>2. CASE masked
    BY <1>1, <2>2 DEF KeyboardEvent, cpuVars
  <2>3. QED
    BY <2>1, <2>2
<1>2. CASE StopKey \/ Tick50 \/ TimerExpires
  BY <1>2 DEF StopKey, Tick50, TimerExpires, AssertIRQ1, TickIRQ2, TickTimer, Assert
<1>3. CASE TeletypeStarts \/ TeletypeSent \/ FrameOver
  <2>1. DevicesOK' /\ DeferredKeyWaits'
    BY <1>3 DEF TeletypeStarts, TeletypeSent, FrameOver
  <2>2. ttyIE' = ttyIE /\ (virq' = virq \/ ttyIE)
    BY <1>3 DEF TeletypeStarts, TeletypeSent, FrameOver, cpuVars
  <2>3. QED
    BY <2>1, <2>2
<1>4. CASE ProgramAccess
  BY <1>4, AccessBoardInv DEF ProgramAccess, Instruction
<1>5. CASE ResetDevices
  BY <1>5 DEF ResetDevices, ExecuteRESET, Emptied
<1>6. CASE CpuOnly
  BY <1>6, CpuOnlySlot DEF CpuOnly
<1>7. CASE DebuggerDeviceAccess
  BY <1>7, AccessBoardInv DEF DebuggerDeviceAccess, DebuggerAccess
<1>8. CASE \E p \in DebuggerPSWs : BetweenFrames /\ SetPSW(p) /\ UNCHANGED deviceVars
  BY <1>8 DEF SetPSW
<1>9. CASE BoardReset
  BY <1>9 DEF BoardReset, DevicesReset, Reset, Emptied
<1>10. CASE UNCHANGED boardVars
  BY <1>10 DEF boardVars, cpuVars
<1>11. QED
  BY <1>1, <1>2, <1>3, <1>4, <1>5, <1>6, <1>7, <1>8, <1>9, <1>10 DEF BoardNext, Running, Commands

LEMMA BoardInvariant == BoardSpec => [](CpuInv /\ BoardInv)
BY BoardCpuInv, InitBoardInv, NextBoardInv, PTL DEF BoardSpec

(* The device registers keep their types. *)
THEOREM BoardTypeCorrect == BoardSpec => []BoardTypeOK
<1>1. CpuInv /\ BoardInv => BoardTypeOK
  BY DEF CpuInv, BoardInv, DevicesOK, BoardTypeOK
<1>2. QED
  BY <1>1, BoardInvariant, PTL

(* A deferred keyboard interrupt stands for a key that still waits behind   *)
(* the mask (KeyboardEvent, GetPortWord and SetPortWord, Board.cpp).        *)
LEMMA DeferredKeyCorrect == BoardSpec => []DeferredKeyWaits
BY BoardInvariant, PTL DEF BoardInv

(* A disabled teletype has no request in the shared slot (SetPortWord,      *)
(* Board.cpp:1036-1051).                                                    *)
LEMMA DisabledTtyCorrect == BoardSpec => []DisabledTtySilent
BY BoardInvariant, PTL DEF BoardInv

(* The devices' registers and the processor's queue stay in step, for any   *)
(* program, user and debugger (Board.cpp:477-570, 847-850, 1033-1118).      *)
THEOREM DevicesStayInStep == BoardSpec => []DevicesInStep
BY DeferredKeyCorrect, DisabledTtyCorrect, PTL DEF DevicesInStep

(* The queue accounting and the fault lines hold with the real devices.     *)
THEOREM BoardQueueCorrect == BoardSpec => []RequestLinesOK
BY BoardImplementsProcessor, RequestLinesCorrect, PTL

-----------------------------------------------------------------------------
(* With the teletype silent before and after it, an access leaves a         *)
(* keyboard request in slot 1.                                              *)
LEMMA AccessKeepsKeyRequest ==
  ASSUME CpuInv, BoardInv, NEW q, virq' = q, Access(q) \/ NoAccess(q),
         ~ttyIE, ~ttyIE', virq.slot[DeviceSlot] \in KeyVectors
  PROVE  virq'.slot[DeviceSlot] \in KeyVectors
<1>0. virq \in VirqQueue
  BY DEF CpuInv, Counted
<1>1. ASSUME NEW mask \in BOOLEAN, WriteKeyStatus(mask, q)
      PROVE  q.slot[DeviceSlot] \in KeyVectors
  <2>1. CASE masked /\ ~mask /\ deferred # NoVector
    <3>1. q.slot[DeviceSlot] = deferred
      BY <1>0, <1>1, <2>1, BoardAssumption DEF WriteKeyStatus, Raised, VirqQueue
    <3>2. QED
      BY <2>1, <3>1 DEF BoardInv, DevicesOK
  <2>2. CASE ~(masked /\ ~mask /\ deferred # NoVector)
    BY <1>1, <2>2 DEF WriteKeyStatus
  <2>3. QED
    BY <2>1, <2>2
<1>2. ASSUME NEW enable \in TtyEnables, WriteTtyStatus(enable, q)
      PROVE  q = virq
  <2>1. ~enable
    BY <1>2, BoardAssumption DEF WriteTtyStatus
  <2>2. QED
    BY <1>2, <2>1 DEF WriteTtyStatus
<1>3. CASE \/ ReadKeyData(q)
           \/ WriteTtyData(q)
           \/ \E off \in BOOLEAN : WritePalette(off, q)
           \/ \E odd, off \in BOOLEAN : WritePaletteByte(odd, off, q)
           \/ NoAccess(q)
  BY <1>3 DEF ReadKeyData, WriteTtyData, WritePalette, WritePaletteByte, NoAccess
<1>4. QED
  BY <1>1, <1>2, <1>3 DEF Access

(* The delivery of the request in slot 1 is the only step of the processor  *)
(* on its own that takes it.                                                *)
LEMMA CpuOnlyDelivers ==
  ASSUME CpuInv, CpuOnly, virq'.slot[DeviceSlot] # virq.slot[DeviceSlot]
  PROVE  /\ polling /\ psw \cap Masks("VIRQ") = {}
         /\ virq' = Taken(virq, DeviceSlot)
<1>1. virq' # virq
  OBVIOUS
<1>2. Polling
  BY <1>1
     DEF CpuOnly, RequestingInstruction, TimerInstruction, ExecuteSTEP, ExecuteWAIT, ExecuteMTPS,
         ExecuteReturn, ExecuteWaiting
<1>3. ~FindNoVector
  <2>1. FindNoVector => virq'.slot = virq.slot
    BY DEF FindNoVector, CpuInv, Counted, VirqQueue
  <2>2. QED
    BY <2>1
<1>4. PICK s \in Slots, fault1 \in BOOLEAN, fault2 \in BOOLEAN, p \in VectorPSWs :
        EnterVirq(s, fault1, fault2, p)
  BY <1>1, <1>2, <1>3 DEF Polling, EnterVector, Enter, EnterHaltMode, EndPolling
<1>5. virq' = Taken(virq, s)
  BY <1>4 DEF EnterVirq, Enter
<1>6. s = DeviceSlot
  <2>1. s # DeviceSlot => Taken(virq, s).slot[DeviceSlot] = virq.slot[DeviceSlot]
    BY BoardAssumption DEF Taken, CpuInv, Counted, VirqQueue
  <2>2. QED
    BY <1>5, <2>1
<1>7. QED
  BY <1>4, <1>5, <1>6 DEF EnterVirq, Enter, Chosen, Deliverable

(* A keyboard request is not lost while the teletype is silent: it leaves   *)
(* by its own delivery or in a RESET or restart, whatever the program, the  *)
(* user and the debugger do (Board.cpp:477-570, 1033-1118).                 *)
THEOREM KeyRequestStays == BoardSpec => KeyRequestKept
<1>1. ASSUME CpuInv, BoardInv, [BoardNext]_boardVars,
             ~ttyIE, ~ttyIE',
             virq.slot[DeviceSlot] \in KeyVectors,
             virq'.slot[DeviceSlot] \notin KeyVectors
      PROVE  \/ ResetDevices
             \/ BoardReset
             \/ /\ polling /\ psw \cap Masks("VIRQ") = {}
                /\ virq' = Taken(virq, DeviceSlot)
  <2>0. virq \in VirqQueue
    BY <1>1 DEF CpuInv, Counted
  <2>1. ASSUME NEW v \in KeyVectors, KeyboardEvent(v)
        PROVE  virq'.slot[DeviceSlot] \in KeyVectors
    <3>1. CASE InterruptVIRQ(DeviceSlot, v)
      BY <2>0, <3>1, BoardAssumption DEF InterruptVIRQ, Raised, VirqQueue
    <3>2. CASE UNCHANGED cpuVars
      BY <1>1, <3>2 DEF cpuVars
    <3>3. QED
      BY <2>1, <3>1, <3>2 DEF KeyboardEvent
  <2>2. CASE StopKey \/ Tick50 \/ TimerExpires
    BY <1>1, <2>2 DEF StopKey, Tick50, TimerExpires, AssertIRQ1, TickIRQ2, TickTimer, Assert
  <2>3. CASE TeletypeStarts \/ TeletypeSent \/ FrameOver
    BY <1>1, <2>3 DEF TeletypeStarts, TeletypeSent, FrameOver, cpuVars
  <2>4. CASE ProgramAccess
    BY <1>1, <2>4, AccessKeepsKeyRequest DEF ProgramAccess, Instruction
  <2>5. CASE ResetDevices
    BY <2>5
  <2>6. CASE CpuOnly
    BY <1>1, <2>6, CpuOnlyDelivers
  <2>7. CASE DebuggerDeviceAccess
    BY <1>1, <2>7, AccessKeepsKeyRequest DEF DebuggerDeviceAccess, DebuggerAccess
  <2>8. CASE \E p \in DebuggerPSWs : BetweenFrames /\ SetPSW(p) /\ UNCHANGED deviceVars
    BY <1>1, <2>8 DEF SetPSW
  <2>9. CASE BoardReset
    BY <2>9
  <2>10. CASE UNCHANGED boardVars
    BY <1>1, <2>10 DEF boardVars, cpuVars
  <2>11. QED
    BY <1>1, <2>1, <2>2, <2>3, <2>4, <2>5, <2>6, <2>7, <2>8, <2>9, <2>10
       DEF BoardNext, Running, Commands
<1>2. QED
  BY <1>1, BoardInvariant, PTL DEF BoardSpec, KeyRequestKept

(* An access takes the deferred interrupt only to raise it or with the key. *)
LEMMA AccessAnnounces ==
  ASSUME CpuInv, NEW q, virq' = q, Access(q) \/ NoAccess(q),
         deferred # NoVector, deferred' # deferred
  PROVE  \/ virq'.slot[DeviceSlot] = deferred /\ virq'.count > virq.count
         \/ ~ready'
<1>0. virq \in VirqQueue
  BY DEF CpuInv, Counted
<1>1. ASSUME NEW mask \in BOOLEAN, WriteKeyStatus(mask, q)
      PROVE  q.slot[DeviceSlot] = deferred /\ q.count > virq.count
  <2>1. q = Raised(virq, DeviceSlot, deferred)
    BY <1>1 DEF WriteKeyStatus
  <2>2. QED
    BY <1>0, <2>1, BoardAssumption DEF Raised, VirqQueue
<1>2. CASE ReadKeyData(q) \/ \E odd, off \in BOOLEAN : WritePaletteByte(odd, off, q)
  BY <1>2 DEF ReadKeyData, WritePaletteByte
<1>3. QED
  BY <1>1, <1>2
     DEF Access, NoAccess, WriteTtyStatus, WriteTtyData, WritePalette, keyboardVars, deviceVars

(* A key that waits behind the mask is announced when the mask goes, read,  *)
(* or dropped with its code in a board reset (Board.cpp:560-566, 847-850,   *)
(* 1102-1116).                                                              *)
THEOREM DeferredKeySurvives == BoardSpec => DeferredKeyAnnounced
<1>1. ASSUME CpuInv, BoardInv, [BoardNext]_boardVars, deferred # NoVector, deferred' # deferred
      PROVE  \/ virq'.slot[DeviceSlot] = deferred /\ virq'.count > virq.count
             \/ ~ready'
  <2>1. ready
    BY <1>1 DEF BoardInv, DeferredKeyWaits
  <2>2. \A v \in KeyVectors : ~KeyboardEvent(v)
    BY <2>1 DEF KeyboardEvent
  <2>3. CASE ProgramAccess
    BY <1>1, <2>3, AccessAnnounces DEF ProgramAccess, Instruction
  <2>4. CASE DebuggerDeviceAccess
    BY <1>1, <2>4, AccessAnnounces DEF DebuggerDeviceAccess, DebuggerAccess
  <2>5. CASE BoardReset
    BY <2>5 DEF BoardReset, DevicesReset
  <2>6. CASE StopKey \/ Tick50 \/ TimerExpires \/ ResetDevices \/ CpuOnly
    BY <1>1, <2>6
       DEF StopKey, Tick50, TimerExpires, ResetDevices, CpuOnly, keyboardVars, deviceVars
  <2>7. CASE TeletypeStarts \/ TeletypeSent \/ FrameOver
    BY <1>1, <2>7 DEF TeletypeStarts, TeletypeSent, FrameOver, keyboardVars
  <2>8. CASE (\E p \in DebuggerPSWs : BetweenFrames /\ SetPSW(p) /\ UNCHANGED deviceVars) \/ UNCHANGED boardVars
    BY <1>1, <2>8 DEF keyboardVars, deviceVars, boardVars
  <2>9. QED
    BY <1>1, <2>2, <2>3, <2>4, <2>5, <2>6, <2>7, <2>8 DEF BoardNext, Running, Commands
<1>2. QED
  BY <1>1, BoardInvariant, PTL DEF BoardSpec, DeferredKeyAnnounced
=============================================================================
