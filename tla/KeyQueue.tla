------------------------------ MODULE KeyQueue ------------------------------
(***************************************************************************)
(* The keyboard queue of the emulator shell (src/Emulator.cpp,             *)
(* Emulator_KeyEvent to Emulator_ProcessKeyEvent): a ring with two indices *)
(* and a count, filled by the key commands and read once per frame.  An    *)
(* event is the word the code packs: the scan code with a bit for "down"   *)
(* (the bit for AR2 travels with it and is left out).  keyFlag is what the *)
(* board makes of the events: bit 6 of 177716, inverted.                   *)
(***************************************************************************)
EXTENDS Naturals, Sequences

CONSTANTS
  Scans,        (* scan codes, natural numbers below 256                    *)
  QueueSize     (* KEYEVENT_QUEUE_SIZE, 32 in the code                      *)

ASSUME QueueAssumption == QueueSize \in Nat \ {0}
ASSUME ScanAssumption == Scans \subseteq 0..255

VARIABLES
  ring,         (* m_EmulatorKeyQueue                                       *)
  top,          (* m_EmulatorKeyQueueTop                                    *)
  bottom,       (* m_EmulatorKeyQueueBottom                                 *)
  count,        (* m_EmulatorKeyQueueCount                                  *)
  keyFlag       (* CMotherboard: a key is held down                         *)

queueVars == <<ring, top, bottom, count>>
keyVars == <<queueVars, keyFlag>>

Pressed == 32768                    (* 128 << 8 *)

Encoded(scan, pressed) == IF pressed THEN scan + Pressed ELSE scan

Events == {Encoded(s, p) : s \in Scans, p \in BOOLEAN}

Slots == 0..(QueueSize - 1)

After(i) == IF i + 1 >= QueueSize THEN 0 ELSE i + 1

KeyInit ==
  /\ ring = [i \in Slots |-> 0]
  /\ top = 0
  /\ bottom = 0
  /\ count = 0
  /\ keyFlag = FALSE

(* Slip: a full queue loses its oldest event instead of the new one. *)
KeyEventAlways(scan, pressed) ==
  /\ ring' = [ring EXCEPT ![top] = Encoded(scan, pressed)]
  /\ top' = After(top)
  /\ count' = IF count < QueueSize THEN count + 1 ELSE count
  /\ UNCHANGED bottom

KeyEvent(scan, pressed) ==
  IF count = QueueSize
  THEN UNCHANGED queueVars
  ELSE /\ ring' = [ring EXCEPT ![top] = Encoded(scan, pressed)]
       /\ top' = After(top)
       /\ count' = count + 1
       /\ UNCHANGED bottom

GetKeyEventFromQueue ==
  /\ bottom' = After(bottom)
  /\ count' = count - 1
  /\ UNCHANGED <<ring, top>>

(* Zero stands for an empty queue: the event that is coded zero is taken    *)
(* and goes nowhere.                                                        *)
ProcessKeyEvent ==
  IF count = 0
  THEN UNCHANGED keyVars
  ELSE /\ GetKeyEventFromQueue
       /\ keyFlag' = IF ring[bottom] = 0 THEN keyFlag ELSE ring[bottom] >= Pressed

KeyNext ==
  \/ \E s \in Scans, p \in BOOLEAN : KeyEvent(s, p) /\ UNCHANGED keyFlag
  \/ ProcessKeyEvent

(* Emulator_SystemFrame() processes an event in every frame of a run. *)
KeySpec == KeyInit /\ [][KeyNext]_keyVars

-----------------------------------------------------------------------------
KeyTypeOK ==
  /\ ring \in [Slots -> Events \cup {0}]
  /\ top \in Slots
  /\ bottom \in Slots
  /\ count \in 0..QueueSize
  /\ keyFlag \in BOOLEAN

(* The three numbers agree: the used slots start at bottom and end before   *)
(* top, around the end of the array.                                        *)
RingConsistent == top = IF bottom + count >= QueueSize THEN bottom + count - QueueSize
                                                       ELSE bottom + count

(* Emulator_KeyEvent() and Emulator_GetKeyEventFromQueue() keep two indices  *)
(* and a count where one of them would do: they stay in range and agree.    *)
KeyQueueOK == KeyTypeOK /\ RingConsistent

SlotOf(k) == IF bottom + k - 1 >= QueueSize THEN bottom + k - 1 - QueueSize ELSE bottom + k - 1

Waiting == [k \in 1..count |-> ring[SlotOf(k)]]

Fifo == INSTANCE EventQueue WITH
  Items   <- Events,
  Presses <- {e \in Events : e >= Pressed},
  Silent  <- 0,
  Limit   <- QueueSize,
  events  <- Waiting,
  held    <- keyFlag

(* The ring and the board at its end are a queue: events leave in the order *)
(* of the commands, none twice, only one that finds the ring full is not    *)
(* put in, and what leaves decides whether the board holds a key - but for  *)
(* the event coded 0, the release of SU, which leaves without reaching the  *)
(* board (Emulator.cpp:709).  It does not say that an event leaves in time: *)
(* that is KeysDrained's question (Debugger).                               *)
FifoSpec == Fifo!EqSpec
=============================================================================
