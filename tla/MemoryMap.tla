------------------------------ MODULE MemoryMap ------------------------------
(***************************************************************************)
(* The memory of CMotherboard (src/emubase/Board.cpp): eight blocks of 8K, *)
(* each of which shows a page of the RAM, a bank of the ROM or nothing, by *)
(* the machine's configuration and the paging registers 177130 (BK-0010    *)
(* with the floppy block) and 177716 (BK-0011).  An address is a pair of   *)
(* its block and the offset in it; a 16K RAM chunk of the code is two      *)
(* pages here.  An offset stands for a word: a byte access goes the same   *)
(* way.                                                                    *)
(***************************************************************************)
EXTENDS Integers

CONSTANTS
  Offsets,      (* word offsets in a block, 4096 of them in the code         *)
  PlainPorts,   (* those of block 7 from 0177600, ports on every machine     *)
  FloppyPorts,  (* those of block 7 from 0170000, ports with the floppy block*)
  Value,        (* what a word of RAM may hold                               *)
  Blank         (* what it holds when cleared                                *)

ASSUME MemoryAssumption ==
  /\ PlainPorts \subseteq FloppyPorts
  /\ FloppyPorts \subseteq Offsets
  /\ Blank \in Value

Blocks == 0..7
RamPages == 0..15
RomBanks == 0..7

(* The options of BKConfiguration; the processor's variant is in Timer. *)
Options == [bk11 : BOOLEAN, basic : BOOLEAN, focal : BOOLEAN, fdd : BOOLEAN]

Configurations ==
  {c \in Options :
     \/ (c.bk11 /\ ~c.basic /\ ~c.focal)
     \/ (~c.bk11 /\ c.basic /\ ~c.focal /\ ~c.fdd)
     \/ (~c.bk11 /\ ~c.basic /\ c.focal /\ ~c.fdd)
     \/ (~c.bk11 /\ ~c.basic /\ ~c.focal /\ c.fdd)}

(* The paging half of a word written to 177716: bits 12 to 14, bits 8 to 10 *)
(* and the four bits of the mask 033.                                       *)
Paging == [window0 : 0..7, window1 : 0..7, rom : SUBSET {0, 1, 3, 4}]

RomFiles == {"none", "monitor", "basic1", "basic2", "basic3", "focal", "tests", "disk",
             "basic11_0a", "basic11_0b", "basic11_1", "ext11", "bos11", "mstd11"}

VARIABLES
  conf,         (* m_Configuration                                           *)
  romBlocks,    (* the bits of m_MemoryMap: blocks that show ROM, BK-0010    *)
  validBlocks,  (* the bits of m_MemoryMapOnOff                              *)
  paging,       (* m_Port177716mem                                           *)
  hasFloppy,    (* m_pFloppyCtl is there                                     *)
  ram,          (* m_pRAM                                                    *)
  rom           (* m_pROM, by 8K bank                                        *)

mapVars == <<conf, romBlocks, validBlocks, paging, hasFloppy>>
memoryVars == <<mapVars, ram, rom>>

Cleared == [p \in RamPages |-> [o \in Offsets |-> Blank]]
NoRom == [k \in RomBanks |-> "none"]
ResetPaging == [window0 |-> 0, window1 |-> 0, rom |-> {1}]

-----------------------------------------------------------------------------
(* TranslateAddress() *)

Ram(p) == [kind |-> "RAM", page |-> p]
Rom(k) == [kind |-> "ROM", page |-> k]
Denied == [kind |-> "DENY", page |-> 0]
Places == {Ram(p) : p \in RamPages} \cup {Rom(k) : k \in RomBanks} \cup {Denied}

IsPort(c, b, o) == b = 7 /\ o \in IF c.fdd THEN FloppyPorts ELSE PlainPorts

(* Slip: the page number taken for the chunk's. *)
MemoryBlockMapIdentity == [n \in 0..7 |-> n]

MemoryBlockMap == [n \in 0..7 |-> <<1, 5, 2, 3, 4, 7, 0, 6>>[n + 1]]

Chunk(n, b) == Ram(2 * MemoryBlockMap[n] + (b % 2))

ShownFixed(b, roms, valid) ==
  CASE b \notin valid -> Denied
    [] b \in valid /\ b \in roms -> Rom((b + 4) % 8)
    [] b \in valid /\ b \notin roms -> Ram(b)

ShownWindow1(b, reg) ==
  CASE reg.rom = {} -> Chunk(reg.window1, b)
    [] 0 \in reg.rom -> Rom(b % 2)
    [] 0 \notin reg.rom /\ 1 \in reg.rom -> Rom(2 + (b % 2))
    [] reg.rom # {} /\ reg.rom \cap {0, 1} = {} -> Denied

ShownPaged(b, reg) ==
  CASE b \in 0..1 -> Ram(b)
    [] b \in 2..3 -> Chunk(reg.window0, b)
    [] b \in 4..5 -> ShownWindow1(b, reg)
    [] b \in 6..7 -> Rom(b - 2)

(* What block b shows, its ports left out. *)
Shows(c, roms, valid, reg, b) ==
  IF c.bk11 THEN ShownPaged(b, reg) ELSE ShownFixed(b, roms, valid)

Shown(b) == Shows(conf, romBlocks, validBlocks, paging, b)

-----------------------------------------------------------------------------
(* SetConfiguration(), LoadROM() and the memory's part of Reset(). *)

MapOf(c) == IF c.fdd THEN {4, 7} ELSE 4..7
ValidOf(c) == IF c.focal THEN Blocks \ {6} ELSE Blocks

(* The ROM files of a configuration, from bank 0. *)
RomOrder(c) ==
  IF c.bk11
    THEN <<"basic11_0a", "basic11_0b", "basic11_1", "ext11", "bos11",
           IF c.fdd THEN "disk" ELSE "mstd11">>
  ELSE IF c.basic THEN <<"monitor", "basic1", "basic2", "basic3">>
  ELSE IF c.focal THEN <<"monitor", "focal", "none", "tests">>
  ELSE <<"monitor", "none", "none", "disk">>

LoadedRom(c) ==
  [k \in RomBanks |-> IF k + 1 \in DOMAIN RomOrder(c) THEN RomOrder(c)[k + 1] ELSE "none"]

Configured(c) ==
  /\ conf = c
  /\ romBlocks = MapOf(c)
  /\ validBlocks = ValidOf(c)
  /\ paging = ResetPaging
  /\ hasFloppy = c.fdd
  /\ ram = Cleared
  /\ rom = LoadedRom(c)

Configure(c) ==
  /\ conf' = c
  /\ romBlocks' = MapOf(c)
  /\ validBlocks' = ValidOf(c)
  /\ paging' = ResetPaging
  /\ hasFloppy' = c.fdd
  /\ ram' = Cleared
  /\ rom' = LoadedRom(c)

ResetMemory ==
  /\ paging' = ResetPaging
  /\ UNCHANGED <<conf, romBlocks, validBlocks, hasFloppy, ram, rom>>

-----------------------------------------------------------------------------
(* SetWord() and SetByte() outside the ports: a word of RAM is stored, ROM  *)
(* and a denied block answer with a bus error, which is Processor's.        *)

Stored(m, place, o, v) ==
  IF place.kind = "RAM" THEN [m EXCEPT ![place.page][o] = v] ELSE m

SetWord(b, o, v) ==
  /\ ~IsPort(conf, b, o)
  /\ ram' = Stored(ram, Shown(b), o, v)
  /\ UNCHANGED <<mapVars, rom>>

(* 177716.  Without bit 11, and on a BK-0010, it is the tape's register.  A *)
(* byte write is one of these: the odd byte leaves the ROM bits of the port *)
(* word clear, the even one leaves its bit 11 clear.                        *)
SetSystemPort(select, reg) ==
  /\ paging' = IF conf.bk11 /\ select THEN reg ELSE paging
  /\ UNCHANGED <<conf, romBlocks, validBlocks, hasFloppy, ram, rom>>

(* 177130, where the floppy block's configuration makes it a port: bits 2   *)
(* and 3 choose what a BK-0010 shows in blocks 5 and 6.                     *)
Selections == {"rom", "nothing", "ram"}

Extra == {5, 6}

SetFloppyPort(selection) ==
  /\ conf.fdd
  /\ IF hasFloppy /\ ~conf.bk11
       THEN /\ romBlocks' = IF selection = "rom" THEN romBlocks \cup Extra ELSE romBlocks \ Extra
            /\ validBlocks' = IF selection = "nothing" THEN validBlocks \ Extra
                                                       ELSE validBlocks \cup Extra
       ELSE UNCHANGED <<romBlocks, validBlocks>>
  /\ UNCHANGED <<conf, paging, hasFloppy, ram, rom>>

-----------------------------------------------------------------------------
MemoryTypeOK ==
  /\ conf \in Configurations
  /\ romBlocks \subseteq 4..7
  /\ validBlocks \subseteq Blocks /\ 0..3 \subseteq validBlocks
  /\ paging \in Paging
  /\ hasFloppy \in BOOLEAN
  /\ ram \in [RamPages -> [Offsets -> Value]]
  /\ rom \in [RomBanks -> RomFiles]

(* The number a program uses for the RAM page block b shows: what it wrote  *)
(* to the window's field, and 6 for the memory that is always below 040000. *)
Selected(b) ==
  CASE b \in 0..1 -> 6
    [] b \in 2..3 -> paging.window0
    [] b \notin 0..3 -> paging.window1

(* NoHiddenAlias: two addresses reach the same word of RAM only where a     *)
(* BK-0011 program has selected one page number in both windows, and at the *)
(* same offset (the table memoryBlockMap of TranslateAddress(), the reuse   *)
(* of block numbers as pages on a BK-0010); the vectors and the stack below *)
(* 040000 are RAM and nobody else's, whatever was paged, reset or loaded.   *)
NoHiddenAlias ==
  /\ \A b \in 0..1 : Shown(b) = Ram(b)
  /\ \A a, b \in Blocks :
       (a # b /\ Shown(a) = Shown(b) /\ Shown(a).kind = "RAM") =>
         /\ conf.bk11
         /\ a % 2 = b % 2
         /\ Selected(a) = Selected(b)
=============================================================================
