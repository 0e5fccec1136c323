-------------------------------- MODULE Shell --------------------------------
(***************************************************************************)
(* The emulator shell around memory and history (src/Emulator.cpp): a      *)
(* session with its configuration, the program's accesses, reset, and the  *)
(* state image, a file that outlives the session and may come back in one  *)
(* of another configuration.                                               *)
(***************************************************************************)
EXTENDS MemoryMap, History

CONSTANTS
  Machines,     (* configurations sessions are started with                  *)
  Writes,       (* addresses that are written: pairs of block and offset     *)
  Registers,    (* paging words programs write                               *)
  NoImage       (* there is no image that can be loaded                      *)

ASSUME ShellAssumption ==
  /\ Machines \subseteq Configurations
  /\ Writes \subseteq Blocks \X Offsets
  /\ Registers \subseteq Paging
  /\ {"instruction", "interrupt"} \subseteq Records

Images == [conf : Configurations, paging : Paging, ram : [RamPages -> [Offsets -> Value]],
           rom : [RomBanks -> RomFiles]]

ASSUME ImageAssumption == NoImage \notin Images

VARIABLES
  image,        (* the state file                                            *)
  savedView,    (* what each block showed when it was written, and           *)
  loaded        (* the latest step loaded it: both for the properties only   *)

shellVars == <<memoryVars, historyVars, image, savedView, loaded>>

View == [b \in Blocks |-> Shown(b)]

ShellInit ==
  /\ \E c \in Machines : Configured(c)
  /\ HistoryInit
  /\ image = NoImage
  /\ savedView = View
  /\ loaded = FALSE

-----------------------------------------------------------------------------
(* The processor's two callbacks record; the accesses that follow, of the   *)
(* instruction, of an interrupt's entry, or of memset and loadbin, go to    *)
(* the board one by one.                                                    *)

InstructionCallback ==
  /\ AddHistoryRecord("instruction")
  /\ loaded' = FALSE
  /\ UNCHANGED <<memoryVars, image, savedView>>

InterruptCallback ==
  /\ AddHistoryRecord("interrupt")
  /\ loaded' = FALSE
  /\ UNCHANGED <<memoryVars, image, savedView>>

Access ==
  /\ \/ \E w \in Writes, v \in Value : SetWord(w[1], w[2], v)
     \/ \E select \in BOOLEAN, reg \in Registers : SetSystemPort(select, reg)
     \/ \E selection \in Selections : SetFloppyPort(selection)
  /\ loaded' = FALSE
  /\ UNCHANGED <<historyVars, image, savedView>>

-----------------------------------------------------------------------------
(* Emulator_Reset() *)
Reset ==
  /\ ResetMemory
  /\ ClearHistory
  /\ loaded' = FALSE
  /\ UNCHANGED <<image, savedView>>

(* The program ends and is started anew: Emulator_Init() and                *)
(* Emulator_InitConfiguration().  A ROM file that is missing ends it too.   *)
Restart ==
  /\ \E c \in Machines : Configure(c)
  /\ ClearHistory
  /\ loaded' = FALSE
  /\ UNCHANGED <<image, savedView>>

(* Emulator_SaveImage() and the board's SaveToImage().  A file that cannot  *)
(* be opened stays as it was; one that cannot be written is left short.     *)
SaveImage ==
  /\ image' = [conf |-> conf, paging |-> paging, ram |-> ram, rom |-> rom]
  /\ savedView' = View
  /\ loaded' = FALSE
  /\ UNCHANGED <<memoryVars, historyVars>>

SaveFails ==
  /\ image' = NoImage
  /\ loaded' = FALSE
  /\ UNCHANGED <<memoryVars, historyVars, savedView>>

(* Slip: the paging register is not taken from the image. *)
LoadFromImageUnpaged ==
  /\ conf' = image.conf
  /\ ram' = image.ram /\ rom' = image.rom
  /\ UNCHANGED <<paging, romBlocks, validBlocks, hasFloppy>>

(* The memory map of SetConfiguration() and the floppy controller are not   *)
(* part of it.                                                              *)
LoadFromImage ==
  /\ conf' = image.conf
  /\ paging' = image.paging
  /\ ram' = image.ram /\ rom' = image.rom
  /\ UNCHANGED <<romBlocks, validBlocks, hasFloppy>>

(* Emulator_LoadImage(): the history goes first, whether or not there is a  *)
(* file to load.                                                            *)
LoadImage ==
  /\ ClearHistory
  /\ IF image = NoImage THEN UNCHANGED memoryVars ELSE LoadFromImage
  /\ loaded' = (image # NoImage)
  /\ UNCHANGED <<image, savedView>>

ShellNext ==
  \/ InstructionCallback \/ InterruptCallback \/ Access
  \/ Reset \/ Restart
  \/ SaveImage \/ SaveFails \/ LoadImage

ShellSpec == ShellInit /\ [][ShellNext]_shellVars

-----------------------------------------------------------------------------
(* Properties *)

(* ShellTypeOK: map, registers, history and image stay of their types; on a *)
(* BK-0010 the four low blocks stay valid and are never taken for ROM.      *)
ShellTypeOK ==
  /\ MemoryTypeOK
  /\ HistoryTypeOK
  /\ image \in Images \cup {NoImage}
  /\ savedView \in [Blocks -> Places]
  /\ loaded \in BOOLEAN

Kept == IF image = NoImage THEN {}
        ELSE {[view |-> savedView, cells |-> image.ram, firm |-> image.rom,
               paged |-> image.conf.bk11]}

Space == INSTANCE AddressSpace
  WITH Offset <- Offsets, Content <- Value, Empty <- Blank,
       Movable <- {2..5, Extra}, view <- View, cells <- ram, firm <- rom, paged <- conf.bk11,
       kept <- Kept

(* SpaceSpec: whatever the registers do, the memory is an address space of  *)
(* pages: a write changes one word of the RAM page its block shows, 177716  *)
(* moves blocks 2 to 5 and 177130 blocks 5 and 6 without touching a word,   *)
(* and stateload brings back every word, on a BK-0011 also every block's    *)
(* page, from an image of whatever session.                                 *)
SpaceSpec == Space!SpaceSpec

Log == INSTANCE InstructionLog WITH Room <- HistorySize, Entry <- Records,
                                    log <- Printed(HistorySize)

(* LogSpec: what the history command can print is exactly the latest        *)
(* records since the last reset, restart or stateload, oldest first: the    *)
(* ring forgets none, keeps none from before, and turns over in order.      *)
LogSpec == Log!LogSpec

(* StateReloaded: after stateload every block shows what it showed when the *)
(* state was saved.  README.md:231 says of it "Save / load full emulator    *)
(* state -- memory, registers, ports".                                      *)
StateReloaded == loaded => View = savedView
=============================================================================
