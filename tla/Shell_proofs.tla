----------------------------- MODULE Shell_proofs -----------------------------
(***************************************************************************)
(* Proofs about Shell: types, the memory without hidden aliases, the       *)
(* memory as an address space, the history as a log.                       *)
(***************************************************************************)
EXTENDS Shell, SequenceTheorems, TLAPS

-----------------------------------------------------------------------------
(* The table of chunks and what the blocks show. *)

LEMMA BlockEnumerated ==
  ASSUME NEW b \in 0..7
  PROVE  b = 0 \/ b = 1 \/ b = 2 \/ b = 3 \/ b = 4 \/ b = 5 \/ b = 6 \/ b = 7
  BY SMT

LEMMA HalfOfBlock ==
  ASSUME NEW b \in 0..7
  PROVE  b % 2 \in {0, 1}
  BY SMT

LEMMA MapTable ==
  /\ MemoryBlockMap[0] = 1 /\ MemoryBlockMap[1] = 5
  /\ MemoryBlockMap[2] = 2 /\ MemoryBlockMap[3] = 3
  /\ MemoryBlockMap[4] = 4 /\ MemoryBlockMap[5] = 7
  /\ MemoryBlockMap[6] = 0 /\ MemoryBlockMap[7] = 6
  BY SMT DEF MemoryBlockMap

LEMMA MapInRange ==
  ASSUME NEW n \in 0..7
  PROVE  MemoryBlockMap[n] \in 0..7
  BY BlockEnumerated, MapTable, SMT

LEMMA MapInjective ==
  ASSUME NEW m \in 0..7, NEW n \in 0..7, MemoryBlockMap[m] = MemoryBlockMap[n]
  PROVE  m = n
  BY BlockEnumerated, MapTable, SMT

LEMMA ChunkPage ==
  ASSUME NEW n \in 0..7, NEW b \in Blocks
  PROVE  /\ Chunk(n, b).kind = "RAM"
         /\ Chunk(n, b).page = 2 * MemoryBlockMap[n] + (b % 2)
         /\ Chunk(n, b).page \in RamPages
         /\ Chunk(n, b) = Ram(Chunk(n, b).page)
  <1>1. MemoryBlockMap[n] \in 0..7
    BY MapInRange
  <1>2. b % 2 \in {0, 1}
    BY HalfOfBlock DEF Blocks
  <1>3. 2 * MemoryBlockMap[n] + (b % 2) \in RamPages
    BY <1>1, <1>2, SMT DEF RamPages
  <1>4. QED
    BY <1>3 DEF Chunk, Ram

(* Two chunk pages are the same one only for the same page number and half. *)
LEMMA ChunkInjective ==
  ASSUME NEW m \in 0..7, NEW n \in 0..7, NEW a \in Blocks, NEW b \in Blocks,
         Chunk(m, a) = Chunk(n, b)
  PROVE  m = n /\ a % 2 = b % 2
  <1>1. 2 * MemoryBlockMap[m] + (a % 2) = 2 * MemoryBlockMap[n] + (b % 2)
    BY ChunkPage
  <1>2. MemoryBlockMap[m] \in 0..7 /\ MemoryBlockMap[n] \in 0..7
    BY MapInRange
  <1>3. a % 2 \in {0, 1} /\ b % 2 \in {0, 1}
    BY HalfOfBlock DEF Blocks
  <1>4. MemoryBlockMap[m] = MemoryBlockMap[n] /\ a % 2 = b % 2
    BY <1>1, <1>2, <1>3, SMT
  <1>5. QED
    BY <1>4, MapInjective

(* Below 040000 is the chunk of page number 6. *)
LEMMA LowIsChunk ==
  ASSUME NEW b \in 0..1
  PROVE  Ram(b) = Chunk(6, b)
  <1>1. 2 * MemoryBlockMap[6] + (b % 2) = b
    BY MapTable, SMT
  <1>2. QED
    BY <1>1 DEF Chunk

LEMMA WindowShows ==
  ASSUME NEW reg \in Paging, NEW b \in Blocks
  PROVE  \/ ShownWindow1(b, reg) = Chunk(reg.window1, b)
         \/ ShownWindow1(b, reg) \in {Rom(k) : k \in RomBanks}
         \/ ShownWindow1(b, reg) = Denied
  <1>1. b % 2 \in {0, 1}
    BY HalfOfBlock DEF Blocks
  <1>2. b % 2 \in RomBanks /\ 2 + (b % 2) \in RomBanks
    BY <1>1, SMT DEF RomBanks
  <1>3. CASE reg.rom = {}
    BY <1>3 DEF ShownWindow1
  <1>4. CASE 0 \in reg.rom
    BY <1>2, <1>4 DEF ShownWindow1
  <1>5. CASE 0 \notin reg.rom /\ 1 \in reg.rom
    BY <1>2, <1>5 DEF ShownWindow1
  <1>6. CASE reg.rom # {} /\ reg.rom \cap {0, 1} = {}
    <2>1. 0 \notin reg.rom /\ 1 \notin reg.rom
      BY <1>6
    <2>2. QED
      BY <1>6, <2>1 DEF ShownWindow1
  <1>7. QED
    BY <1>3, <1>4, <1>5, <1>6

(* What a block of a BK-0011 shows is a chunk of the number its window      *)
(* selects, ROM or nothing.                                                 *)
Chosen(b, reg) == IF b \in 0..1 THEN 6 ELSE IF b \in 2..3 THEN reg.window0 ELSE reg.window1

LEMMA PagedShows ==
  ASSUME NEW reg \in Paging, NEW b \in Blocks
  PROVE  /\ Chosen(b, reg) \in 0..7
         /\ \/ ShownPaged(b, reg) = Chunk(Chosen(b, reg), b)
            \/ ShownPaged(b, reg) \in {Rom(k) : k \in RomBanks}
            \/ ShownPaged(b, reg) = Denied
  <1>1. b \in 0..1 \/ b \in 2..3 \/ b \in 4..5 \/ b \in 6..7
    BY SMT DEF Blocks
  <1>2. reg.window0 \in 0..7 /\ reg.window1 \in 0..7
    BY DEF Paging
  <1>3. CASE b \in 0..1
    <2>1. ShownPaged(b, reg) = Ram(b)
      BY <1>3, SMT DEF ShownPaged
    <2>2. QED
      BY <2>1, <1>3, LowIsChunk, SMT DEF Chosen
  <1>4. CASE b \in 2..3
    <2>1. b \notin 0..1 /\ b \notin 4..5 /\ b \notin 6..7
      BY <1>4, SMT
    <2>2. QED
      BY <1>2, <1>4, <2>1 DEF ShownPaged, Chosen
  <1>5. CASE b \in 4..5
    <2>1. b \notin 0..1 /\ b \notin 2..3 /\ b \notin 6..7
      BY <1>5, SMT
    <2>2. ShownPaged(b, reg) = ShownWindow1(b, reg) /\ Chosen(b, reg) = reg.window1
      BY <1>5, <2>1 DEF ShownPaged, Chosen
    <2>3. QED
      BY <1>2, <2>2, WindowShows
  <1>6. CASE b \in 6..7
    <2>1. b \notin 0..1 /\ b \notin 2..3 /\ b \notin 4..5
      BY <1>6, SMT
    <2>2. b - 2 \in RomBanks
      BY <1>6, SMT DEF RomBanks
    <2>3. ShownPaged(b, reg) = Rom(b - 2)
      BY <1>6, <2>1 DEF ShownPaged
    <2>4. QED
      BY <1>2, <2>1, <2>2, <2>3 DEF Chosen
  <1>7. QED
    BY <1>1, <1>3, <1>4, <1>5, <1>6

LEMMA FixedShows ==
  ASSUME NEW roms, NEW valid, NEW b \in Blocks
  PROVE  \/ ShownFixed(b, roms, valid) = Ram(b)
         \/ ShownFixed(b, roms, valid) \in {Rom(k) : k \in RomBanks}
         \/ ShownFixed(b, roms, valid) = Denied
  <1>1. (b + 4) % 8 \in RomBanks
    BY SMT DEF Blocks, RomBanks
  <1>2. CASE b \notin valid
    BY <1>2 DEF ShownFixed
  <1>3. CASE b \in valid /\ b \in roms
    BY <1>1, <1>3 DEF ShownFixed
  <1>4. CASE b \in valid /\ b \notin roms
    BY <1>4 DEF ShownFixed
  <1>5. QED
    BY <1>2, <1>3, <1>4
-----------------------------------------------------------------------------
(* Types. *)

LEMMA ShownPlace ==
  ASSUME MemoryTypeOK, NEW b \in Blocks
  PROVE  /\ Shown(b) \in Places
         /\ Shown(b).kind = "RAM" =>
              Shown(b) = IF conf.bk11 THEN Chunk(Chosen(b, paging), b) ELSE Ram(b)
         /\ Shown(b).kind = "RAM" => Shown(b).page \in RamPages
  <1>1. paging \in Paging
    BY DEF MemoryTypeOK
  <1>2. \A k \in RomBanks : Rom(k) \in Places /\ Rom(k).kind # "RAM"
    BY DEF Places, Rom
  <1>3. Denied \in Places /\ Denied.kind # "RAM"
    BY DEF Places, Denied
  <1>4. \A p \in RamPages : Ram(p) \in Places /\ Ram(p).page = p
    BY DEF Places, Ram
  <1>5. CASE conf.bk11
    <2>1. Shown(b) = ShownPaged(b, paging)
      BY <1>5 DEF Shown, Shows
    <2>2. Chosen(b, paging) \in 0..7
      BY <1>1, PagedShows
    <2>3. Chunk(Chosen(b, paging), b) \in Places
          /\ Chunk(Chosen(b, paging), b).page \in RamPages
      BY <1>4, <2>2, ChunkPage
    <2>4. QED
      BY <1>1, <1>2, <1>3, <1>5, <2>1, <2>3, PagedShows
  <1>6. CASE ~conf.bk11
    <2>1. Shown(b) = ShownFixed(b, romBlocks, validBlocks)
      BY <1>6 DEF Shown, Shows
    <2>2. b \in RamPages
      BY SMT DEF Blocks, RamPages
    <2>3. QED
      BY <1>2, <1>3, <1>4, <1>6, <2>1, <2>2, FixedShows
  <1>7. QED
    BY <1>5, <1>6

(* Every state of the right types is free of hidden aliases: whatever the   *)
(* registers were written, by a program, a reset or an image.               *)
LEMMA TypesAlias == MemoryTypeOK => NoHiddenAlias
  <1> SUFFICES ASSUME MemoryTypeOK PROVE NoHiddenAlias
    OBVIOUS
  <1>1. \A b \in 0..1 : Shown(b) = Ram(b)
    <2> TAKE b \in 0..1
    <2>1. b \in Blocks /\ b \in 0..3
      BY SMT DEF Blocks
    <2>2. CASE conf.bk11
      <3>1. ShownPaged(b, paging) = Ram(b)
        BY SMT DEF ShownPaged
      <3>2. QED
        BY <2>2, <3>1 DEF Shown, Shows
    <2>3. CASE ~conf.bk11
      <3>1. b \in validBlocks
        BY <2>1 DEF MemoryTypeOK
      <3>2. b \notin 4..7
        BY SMT
      <3>3. b \notin romBlocks
        BY <3>2 DEF MemoryTypeOK
      <3>4. QED
        BY <2>3, <3>1, <3>3 DEF Shown, Shows, ShownFixed
    <2>4. QED
      BY <2>2, <2>3
  <1>2. ASSUME NEW a \in Blocks, NEW b \in Blocks,
               a # b, Shown(a) = Shown(b), Shown(a).kind = "RAM"
        PROVE  conf.bk11 /\ a % 2 = b % 2 /\ Selected(a) = Selected(b)
    <2>1. conf.bk11
      <3>1. SUFFICES ASSUME ~conf.bk11 PROVE FALSE
        OBVIOUS
      <3>2. Ram(a) = Ram(b)
        BY <1>2, <3>1, ShownPlace
      <3>3. a = b
        BY <3>2 DEF Ram
      <3>4. QED
        BY <1>2, <3>3
    <2>2. Chunk(Chosen(a, paging), a) = Chunk(Chosen(b, paging), b)
      BY <1>2, <2>1, ShownPlace
    <2>3. paging \in Paging
      BY DEF MemoryTypeOK
    <2>4. Chosen(a, paging) = Chosen(b, paging) /\ a % 2 = b % 2
      BY <2>2, <2>3, PagedShows, ChunkInjective
    <2>5. \A c \in Blocks : Selected(c) = Chosen(c, paging)
      <3> TAKE c \in Blocks
      <3>1. CASE c \in 0..1
        <4>1. c \notin 2..3 /\ c \in 0..3
          BY <3>1, SMT
        <4>2. QED
          BY <3>1, <4>1 DEF Selected, Chosen
      <3>2. CASE c \in 2..3
        <4>1. c \notin 0..1 /\ c \in 0..3
          BY <3>2, SMT
        <4>2. QED
          BY <3>2, <4>1 DEF Selected, Chosen
      <3>3. CASE c \notin 0..3
        <4>1. c \notin 0..1 /\ c \notin 2..3
          BY <3>3, SMT
        <4>2. QED
          BY <3>3, <4>1 DEF Selected, Chosen
      <3>4. QED
        BY <3>1, <3>2, <3>3, SMT DEF Blocks
    <2>6. QED
      BY <2>1, <2>4, <2>5
  <1>3. QED
    BY <1>1, <1>2 DEF NoHiddenAlias

LEMMA ResetPagingType == ResetPaging \in Paging
  BY SMT DEF ResetPaging, Paging

LEMMA LoadedRomType ==
  ASSUME NEW c \in Configurations
  PROVE  LoadedRom(c) \in [RomBanks -> RomFiles]
  <1>1. RomOrder(c) \in Seq(RomFiles)
    <2>1. <<"basic11_0a", "basic11_0b", "basic11_1", "ext11", "bos11", "disk">> \in Seq(RomFiles)
      BY DEF RomFiles
    <2>2. <<"basic11_0a", "basic11_0b", "basic11_1", "ext11", "bos11", "mstd11">> \in Seq(RomFiles)
      BY DEF RomFiles
    <2>3. <<"monitor", "basic1", "basic2", "basic3">> \in Seq(RomFiles)
      BY DEF RomFiles
    <2>4. <<"monitor", "focal", "none", "tests">> \in Seq(RomFiles)
      BY DEF RomFiles
    <2>5. <<"monitor", "none", "none", "disk">> \in Seq(RomFiles)
      BY DEF RomFiles
    <2>6. QED
      BY <2>1, <2>2, <2>3, <2>4, <2>5 DEF RomOrder
  <1>2. \A k \in DOMAIN RomOrder(c) : RomOrder(c)[k] \in RomFiles
    BY <1>1
  <1>3. \A k \in RomBanks : LoadedRom(c)[k] \in RomFiles
    <2>1. "none" \in RomFiles
      BY DEF RomFiles
    <2>2. \A k \in RomBanks : LoadedRom(c)[k] = IF k + 1 \in DOMAIN RomOrder(c)
                                                THEN RomOrder(c)[k + 1] ELSE "none"
      BY DEF LoadedRom
    <2>3. QED
      BY <1>2, <2>1, <2>2, Zenon
  <1>4. LoadedRom(c) = [k \in RomBanks |-> LoadedRom(c)[k]]
    BY DEF LoadedRom
  <1>5. QED
    <2> DEFINE f == LoadedRom(c)
    <2>1. f = [k \in RomBanks |-> f[k]] /\ \A k \in RomBanks : f[k] \in RomFiles
      BY <1>3, <1>4
    <2> HIDE DEF f
    <2>2. f \in [RomBanks -> RomFiles]
      BY <2>1
    <2>3. QED
      BY <2>2 DEF f

LEMMA MapOfType ==
  ASSUME NEW c \in Configurations
  PROVE  /\ MapOf(c) \subseteq 4..7
         /\ ValidOf(c) \subseteq Blocks /\ 0..3 \subseteq ValidOf(c)
  <1>1. MapOf(c) \subseteq 4..7
    BY SMT DEF MapOf
  <1>2. ValidOf(c) \subseteq Blocks /\ 0..3 \subseteq ValidOf(c)
    BY SMT DEF ValidOf, Blocks
  <1>3. QED
    BY <1>1, <1>2

LEMMA OptionType ==
  ASSUME NEW c \in Configurations
  PROVE  c.fdd \in BOOLEAN /\ c.bk11 \in BOOLEAN
  BY DEF Configurations, Options

LEMMA ClearedType == Cleared \in [RamPages -> [Offsets -> Value]]
  BY MemoryAssumption DEF Cleared

(* The image keeps the paging register the saved view was computed from. *)
ImageSeen ==
  (image # NoImage /\ image.conf.bk11) =>
    savedView = [b \in Blocks |-> ShownPaged(b, image.paging)]

ShellInv == ShellTypeOK /\ ImageSeen

LEMMA ImageParts ==
  ASSUME ShellTypeOK, image # NoImage
  PROVE  /\ image.conf \in Configurations
         /\ image.paging \in Paging
         /\ image.ram \in [RamPages -> [Offsets -> Value]]
         /\ image.rom \in [RomBanks -> RomFiles]
  BY DEF ShellTypeOK, Images

LEMMA ViewType ==
  ASSUME MemoryTypeOK
  PROVE  View \in [Blocks -> Places]
  BY ShownPlace DEF View

LEMMA ShellInitially == ShellInit => ShellInv
  <1> SUFFICES ASSUME ShellInit PROVE ShellInv
    OBVIOUS
  <1>1. PICK c \in Machines : Configured(c)
    BY DEF ShellInit
  <1>2. c \in Configurations
    BY <1>1, ShellAssumption
  <1>3. MemoryTypeOK
    <2>1. hasFloppy \in BOOLEAN
      BY <1>1, <1>2, OptionType DEF Configured
    <2>2. QED
      BY <1>1, <1>2, <2>1, MapOfType, LoadedRomType, ClearedType, ResetPagingType
         DEF Configured, MemoryTypeOK
  <1>4. HistoryTypeOK
    <2>1. 0 \in Slots /\ 0 \in 0..HistorySize
      BY HistoryAssumption, SMT DEF Slots
    <2>2. QED
      BY <2>1 DEF ShellInit, HistoryInit, HistoryTypeOK
  <1>5. savedView \in [Blocks -> Places]
    BY <1>3, ViewType DEF ShellInit
  <1>6. QED
    BY <1>3, <1>4, <1>5 DEF ShellInit, ShellInv, ShellTypeOK, ImageSeen
(* What the steps of the shell leave alone of the state and of its types. *)
LEMMA StoredType ==
  ASSUME MemoryTypeOK, NEW b \in Blocks, NEW o \in Offsets, NEW v \in Value
  PROVE  Stored(ram, Shown(b), o, v) \in [RamPages -> [Offsets -> Value]]
  <1>1. ram \in [RamPages -> [Offsets -> Value]]
    BY DEF MemoryTypeOK
  <1>2. CASE Shown(b).kind = "RAM"
    <2>1. Shown(b).page \in RamPages
      BY <1>2, ShownPlace
    <2>2. QED
      BY <1>1, <1>2, <2>1 DEF Stored
  <1>3. CASE Shown(b).kind # "RAM"
    BY <1>1, <1>3 DEF Stored
  <1>4. QED
    BY <1>2, <1>3

LEMMA SetWordType ==
  ASSUME MemoryTypeOK, NEW w \in Writes, NEW v \in Value, SetWord(w[1], w[2], v)
  PROVE  MemoryTypeOK'
  <1>1. w[1] \in Blocks /\ w[2] \in Offsets
    BY ShellAssumption
  <1>2. ram' \in [RamPages -> [Offsets -> Value]]
    BY <1>1, StoredType DEF SetWord
  <1>3. QED
    BY <1>2 DEF MemoryTypeOK, SetWord, mapVars

LEMMA SetSystemPortType ==
  ASSUME MemoryTypeOK, NEW select \in BOOLEAN, NEW reg \in Registers, SetSystemPort(select, reg)
  PROVE  MemoryTypeOK'
  <1>1. reg \in Paging /\ paging \in Paging
    BY ShellAssumption DEF MemoryTypeOK
  <1>2. paging' \in Paging
    BY <1>1 DEF SetSystemPort
  <1>3. QED
    BY <1>2 DEF MemoryTypeOK, SetSystemPort

LEMMA SetFloppyPortType ==
  ASSUME MemoryTypeOK, NEW selection, SetFloppyPort(selection)
  PROVE  MemoryTypeOK'
  <1>1. Extra \subseteq 4..7 /\ Extra \subseteq Blocks /\ Extra \cap (0..3) = {}
    BY SMT DEF Extra, Blocks
  <1>2. romBlocks' \subseteq 4..7
    BY <1>1 DEF SetFloppyPort, MemoryTypeOK
  <1>3. validBlocks' \subseteq Blocks /\ 0..3 \subseteq validBlocks'
    BY <1>1 DEF SetFloppyPort, MemoryTypeOK
  <1>4. QED
    BY <1>2, <1>3 DEF MemoryTypeOK, SetFloppyPort

LEMMA ConfigureType ==
  ASSUME NEW c \in Machines, Configure(c)
  PROVE  MemoryTypeOK'
  <1>1. c \in Configurations
    BY ShellAssumption
  <1>2. conf' \in Configurations /\ hasFloppy' \in BOOLEAN
    BY <1>1, OptionType DEF Configure
  <1>3. QED
    BY <1>1, <1>2, MapOfType, LoadedRomType, ClearedType, ResetPagingType
       DEF Configure, MemoryTypeOK

LEMMA AddRecordType ==
  ASSUME HistoryTypeOK, NEW r \in Records, AddHistoryRecord(r)
  PROVE  HistoryTypeOK'
  <1>1. (head + 1) % HistorySize \in Slots
    BY HistoryAssumption, SMT DEF HistoryTypeOK, Slots
  <1>2. length' \in 0..HistorySize
    BY HistoryAssumption, SMT DEF HistoryTypeOK, AddHistoryRecord
  <1>3. history' \in [Slots -> Records \cup {Zeroed}]
    BY DEF HistoryTypeOK, AddHistoryRecord
  <1>4. QED
    BY <1>1, <1>2, <1>3 DEF HistoryTypeOK, AddHistoryRecord

LEMMA ClearHistoryType ==
  ASSUME HistoryTypeOK, ClearHistory
  PROVE  HistoryTypeOK'
  <1>1. 0 \in Slots /\ 0 \in 0..HistorySize
    BY HistoryAssumption, SMT DEF Slots
  <1>2. QED
    BY <1>1 DEF HistoryTypeOK, ClearHistory
LEMMA AccessType ==
  ASSUME MemoryTypeOK, Access
  PROVE  MemoryTypeOK'
  <1>1. CASE \E w \in Writes, v \in Value : SetWord(w[1], w[2], v)
    BY <1>1, SetWordType
  <1>2. CASE \E select \in BOOLEAN, reg \in Registers : SetSystemPort(select, reg)
    BY <1>2, SetSystemPortType
  <1>3. CASE \E selection \in Selections : SetFloppyPort(selection)
    BY <1>3, SetFloppyPortType
  <1>4. QED
    BY <1>1, <1>2, <1>3 DEF Access

LEMMA SavedImageType ==
  ASSUME MemoryTypeOK, SaveImage
  PROVE  image' \in Images /\ image' # NoImage
  <1>1. image' \in Images
    BY DEF SaveImage, MemoryTypeOK, Images
  <1>2. QED
    BY <1>1, ImageAssumption

LEMMA PagedView ==
  ASSUME conf.bk11
  PROVE  View = [b \in Blocks |-> ShownPaged(b, paging)]
  BY DEF View, Shown, Shows

LEMMA LoadImageType ==
  ASSUME ShellTypeOK, LoadImage
  PROVE  MemoryTypeOK'
  <1>1. CASE image = NoImage
    BY <1>1 DEF LoadImage, ShellTypeOK, MemoryTypeOK, memoryVars, mapVars
  <1>2. CASE image # NoImage
    BY <1>2, ImageParts DEF LoadImage, LoadFromImage, ShellTypeOK, MemoryTypeOK
  <1>3. QED
    BY <1>1, <1>2

LEMMA ShellStep == ShellInv /\ [ShellNext]_shellVars => ShellInv'
  <1> SUFFICES ASSUME ShellInv, [ShellNext]_shellVars PROVE ShellInv'
    OBVIOUS
  <1> USE DEF ShellInv, ShellTypeOK
  <1>1. {"instruction", "interrupt"} \subseteq Records
    BY ShellAssumption
  <1>2. ASSUME NEW r \in Records, AddHistoryRecord(r), UNCHANGED <<memoryVars, image, savedView>>,
               loaded' = FALSE
        PROVE  ShellInv'
    <2>1. HistoryTypeOK'
      BY <1>2, AddRecordType
    <2>2. MemoryTypeOK' /\ ImageSeen'
      BY <1>2 DEF MemoryTypeOK, memoryVars, mapVars, ImageSeen
    <2>3. QED
      BY <1>2, <2>1, <2>2
  <1>3. CASE InstructionCallback
    BY <1>1, <1>2, <1>3 DEF InstructionCallback
  <1>4. CASE InterruptCallback
    BY <1>1, <1>2, <1>4 DEF InterruptCallback
  <1>5. CASE Access
    <2>1. MemoryTypeOK'
      BY <1>5, AccessType
    <2>2. UNCHANGED <<historyVars, image, savedView>> /\ loaded' = FALSE
      BY <1>5 DEF Access
    <2>3. HistoryTypeOK' /\ ImageSeen'
      BY <2>2 DEF historyVars, HistoryTypeOK, ImageSeen
    <2>4. QED
      BY <2>1, <2>2, <2>3
  <1>6. CASE Reset
    <2>1. MemoryTypeOK'
      BY <1>6, ResetPagingType DEF Reset, ResetMemory, MemoryTypeOK
    <2>2. HistoryTypeOK'
      BY <1>6, ClearHistoryType DEF Reset
    <2>3. QED
      BY <1>6, <2>1, <2>2 DEF Reset, ImageSeen
  <1>7. CASE Restart
    <2>1. MemoryTypeOK'
      BY <1>7, ConfigureType DEF Restart
    <2>2. HistoryTypeOK'
      BY <1>7, ClearHistoryType DEF Restart
    <2>3. QED
      BY <1>7, <2>1, <2>2 DEF Restart, ImageSeen
  <1>8. CASE SaveImage
    <2>1. MemoryTypeOK' /\ HistoryTypeOK'
      BY <1>8 DEF SaveImage, memoryVars, mapVars, historyVars, MemoryTypeOK, HistoryTypeOK
    <2>2. image' \in Images
      BY <1>8, SavedImageType
    <2>3. savedView' \in [Blocks -> Places]
      BY <1>8, ViewType DEF SaveImage
    <2>4. image'.conf = conf /\ image'.paging = paging /\ savedView' = View
      BY <1>8 DEF SaveImage
    <2>5. ImageSeen'
      BY <2>4, PagedView DEF ImageSeen
    <2>6. QED
      BY <1>8, <2>1, <2>2, <2>3, <2>5 DEF SaveImage
  <1>9. CASE SaveFails
    BY <1>9 DEF SaveFails, memoryVars, mapVars, historyVars, MemoryTypeOK, HistoryTypeOK, ImageSeen
  <1>10. CASE LoadImage
    <2>1. MemoryTypeOK'
      BY <1>10, LoadImageType
    <2>2. HistoryTypeOK'
      BY <1>10, ClearHistoryType DEF LoadImage
    <2>3. UNCHANGED <<image, savedView>> /\ loaded' \in BOOLEAN
      BY <1>10 DEF LoadImage
    <2>4. QED
      BY <2>1, <2>2, <2>3 DEF ImageSeen
  <1>11. CASE UNCHANGED shellVars
    BY <1>11 DEF shellVars, memoryVars, mapVars, historyVars, MemoryTypeOK, HistoryTypeOK, ImageSeen
  <1>12. QED
    BY <1>3, <1>4, <1>5, <1>6, <1>7, <1>8, <1>9, <1>10, <1>11 DEF ShellNext

(* ShellTypeCorrect: for any number of offsets and values, any set of       *)
(* machines and of words written, map, registers, history and image keep    *)
(* their types.                                                             *)
THEOREM ShellTypeCorrect == ShellSpec => []ShellTypeOK
  <1>1. ShellInv => ShellTypeOK
    BY DEF ShellInv
  <1>2. QED
    BY <1>1, ShellInitially, ShellStep, PTL DEF ShellSpec

(* NoAliasAnywhere: with every paging word, on every machine and after      *)
(* every load, a word of RAM is reached through two addresses only where    *)
(* the program selected its page twice.                                     *)
THEOREM NoAliasAnywhere == ShellSpec => []NoHiddenAlias
  <1>1. ShellInv => NoHiddenAlias
    BY TypesAlias DEF ShellInv, ShellTypeOK
  <1>2. QED
    BY <1>1, ShellInitially, ShellStep, PTL DEF ShellSpec
-----------------------------------------------------------------------------
(* The memory is an address space. *)

ViewKeeps(some) == \A b \in Blocks \ some : Shown(b)' = Shown(b)

LEMMA ViewRemaps ==
  ASSUME NEW some \in {2..5, Extra}, ViewKeeps(some), UNCHANGED <<conf, ram, rom, image, savedView>>
  PROVE  Space!Remap
  <1>1. DOMAIN View = Blocks /\ DOMAIN View' = Blocks
    BY DEF View
  <1>2. \A b \in Blocks \ some : View'[b] = View[b]
    BY DEF View, ViewKeeps
  <1>3. UNCHANGED <<ram, rom, conf.bk11, Kept>>
    BY DEF Kept
  <1>4. QED
    BY <1>1, <1>2, <1>3 DEF Space!Remap

LEMMA ViewUnchanged ==
  ASSUME UNCHANGED mapVars
  PROVE  View' = View /\ conf.bk11' = conf.bk11
  BY DEF mapVars, View, Shown

LEMMA KeptUnchanged ==
  ASSUME UNCHANGED <<image, savedView>>
  PROVE  Kept' = Kept
  BY DEF Kept

LEMMA SetWordSpace ==
  ASSUME MemoryTypeOK, NEW w \in Writes, NEW v \in Value, SetWord(w[1], w[2], v),
         UNCHANGED <<image, savedView>>
  PROVE  Space!Write \/ UNCHANGED Space!spaceVars
  <1>1. w[1] \in Blocks /\ w[2] \in Offsets
    BY ShellAssumption
  <1>2. View' = View /\ conf.bk11' = conf.bk11 /\ Kept' = Kept /\ rom' = rom
    BY ViewUnchanged, KeptUnchanged DEF SetWord
  <1>3. w[1] \in DOMAIN View /\ View[w[1]] = Shown(w[1])
    BY <1>1 DEF View
  <1>4. CASE Shown(w[1]).kind = "RAM"
    <2>1. ram' = [ram EXCEPT ![View[w[1]].page][w[2]] = v]
      BY <1>3, <1>4 DEF SetWord, Stored
    <2>2. QED
      BY <1>1, <1>2, <1>3, <1>4, <2>1 DEF Space!Write
  <1>5. CASE Shown(w[1]).kind # "RAM"
    <2>1. ram' = ram
      BY <1>5 DEF SetWord, Stored
    <2>2. QED
      BY <1>2, <2>1 DEF Space!spaceVars
  <1>6. QED
    BY <1>4, <1>5

(* Outside the windows a BK-0011 shows the same whatever the register. *)
LEMMA PagingIsLocal ==
  ASSUME NEW b \in Blocks \ (2..5), NEW reg1, NEW reg2
  PROVE  ShownPaged(b, reg1) = ShownPaged(b, reg2)
  <1>1. b \in 0..1 \/ b \in 6..7
    BY SMT DEF Blocks
  <1>2. CASE b \in 0..1
    <2>1. b \notin 2..3 /\ b \notin 4..5 /\ b \notin 6..7
      BY <1>2, SMT
    <2>2. QED
      BY <1>2, <2>1 DEF ShownPaged
  <1>3. CASE b \in 6..7
    <2>1. b \notin 0..1 /\ b \notin 2..3 /\ b \notin 4..5
      BY <1>3, SMT
    <2>2. QED
      BY <1>3, <2>1 DEF ShownPaged
  <1>4. QED
    BY <1>1, <1>2, <1>3

LEMMA PagingKeeps ==
  ASSUME UNCHANGED <<conf, romBlocks, validBlocks>>
  PROVE  ViewKeeps(2..5)
  <1> SUFFICES ASSUME NEW b \in Blocks \ (2..5) PROVE Shown(b)' = Shown(b)
    BY DEF ViewKeeps
  <1>1. CASE conf.bk11
    BY <1>1, PagingIsLocal DEF Shown, Shows
  <1>2. CASE ~conf.bk11
    BY <1>2 DEF Shown, Shows
  <1>3. QED
    BY <1>1, <1>2

LEMMA SelectionKeeps ==
  ASSUME NEW selection, SetFloppyPort(selection)
  PROVE  ViewKeeps(Extra)
  <1> SUFFICES ASSUME NEW b \in Blocks \ Extra PROVE Shown(b)' = Shown(b)
    BY DEF ViewKeeps
  <1>1. conf' = conf /\ paging' = paging
    BY DEF SetFloppyPort
  <1>2. CASE conf.bk11
    BY <1>1, <1>2 DEF Shown, Shows
  <1>3. CASE ~conf.bk11
    <2>1. b \in romBlocks' <=> b \in romBlocks
      BY DEF SetFloppyPort
    <2>2. b \in validBlocks' <=> b \in validBlocks
      BY DEF SetFloppyPort
    <2>3. ShownFixed(b, romBlocks', validBlocks') = ShownFixed(b, romBlocks, validBlocks)
      BY <2>1, <2>2 DEF ShownFixed
    <2>4. QED
      BY <1>1, <1>3, <2>3 DEF Shown, Shows
  <1>4. QED
    BY <1>2, <1>3
LEMMA AccessSpace ==
  ASSUME MemoryTypeOK, Access
  PROVE  Space!SpaceNext \/ UNCHANGED Space!spaceVars
  <1>1. UNCHANGED <<image, savedView>>
    BY DEF Access
  <1>2. CASE \E w \in Writes, v \in Value : SetWord(w[1], w[2], v)
    BY <1>1, <1>2, SetWordSpace DEF Space!SpaceNext
  <1>3. CASE \E select \in BOOLEAN, reg \in Registers : SetSystemPort(select, reg)
    <2>1. UNCHANGED <<conf, romBlocks, validBlocks, ram, rom>>
      BY <1>3 DEF SetSystemPort
    <2>2. Space!Remap
      BY <1>1, <2>1, PagingKeeps, ViewRemaps
    <2>3. QED
      BY <2>2 DEF Space!SpaceNext
  <1>4. CASE \E selection \in Selections : SetFloppyPort(selection)
    <2>1. UNCHANGED <<conf, ram, rom>>
      BY <1>4 DEF SetFloppyPort
    <2>2. Space!Remap
      BY <1>1, <1>4, <2>1, SelectionKeeps, ViewRemaps
    <2>3. QED
      BY <2>2 DEF Space!SpaceNext
  <1>5. QED
    BY <1>2, <1>3, <1>4 DEF Access

LEMMA ClearedIsFresh ==
  ASSUME ram = Cleared
  PROVE  Space!Fresh
  BY DEF Cleared, Space!Fresh

LEMMA ConfigureSpace ==
  ASSUME NEW c \in Machines, Configure(c), UNCHANGED <<image, savedView>>
  PROVE  Space!Renew
  <1>1. (ram = Cleared)'
    BY DEF Configure, Cleared
  <1>2. Space!Fresh'
    BY <1>1 DEF Cleared, Space!Fresh
  <1>3. QED
    BY <1>2, KeptUnchanged DEF Space!Renew

LEMMA SaveImageSpace ==
  ASSUME MemoryTypeOK, SaveImage
  PROVE  Space!Keep
  <1>1. View' = View /\ conf.bk11' = conf.bk11 /\ ram' = ram /\ rom' = rom
    BY ViewUnchanged DEF SaveImage, memoryVars
  <1>2. image' # NoImage
    BY SavedImageType
  <1>3. /\ image'.ram = ram /\ image'.rom = rom /\ image'.conf = conf
        /\ savedView' = View
    BY DEF SaveImage
  <1>4. Kept' = {[view |-> View, cells |-> ram, firm |-> rom, paged |-> conf.bk11]}
    BY <1>2, <1>3 DEF Kept
  <1>5. QED
    BY <1>1, <1>4 DEF Space!Keep, Space!Saved

LEMMA SaveFailsSpace ==
  ASSUME SaveFails
  PROVE  Space!Keep
  <1>1. View' = View /\ conf.bk11' = conf.bk11 /\ ram' = ram /\ rom' = rom
    BY ViewUnchanged DEF SaveFails, memoryVars
  <1>2. Kept' = {}
    BY DEF SaveFails, Kept
  <1>3. QED
    BY <1>1, <1>2 DEF Space!Keep

LEMMA LoadImageSpace ==
  ASSUME ShellInv, LoadImage
  PROVE  Space!Restore \/ UNCHANGED Space!spaceVars
  <1>1. Kept' = Kept
    BY KeptUnchanged DEF LoadImage
  <1>2. CASE image = NoImage
    <2>1. UNCHANGED memoryVars
      BY <1>2 DEF LoadImage
    <2>2. View' = View /\ conf.bk11' = conf.bk11 /\ ram' = ram /\ rom' = rom
      BY <2>1, ViewUnchanged DEF memoryVars
    <2>3. QED
      BY <1>1, <2>2 DEF Space!spaceVars
  <1>3. CASE image # NoImage
    <2>1. conf' = image.conf /\ paging' = image.paging /\ ram' = image.ram /\ rom' = image.rom
      BY <1>3 DEF LoadImage, LoadFromImage
    <2>2. ASSUME image.conf.bk11 PROVE View' = savedView
      <3>1. View' = [b \in Blocks |-> ShownPaged(b, image.paging)]
        BY <2>1, <2>2 DEF View, Shown, Shows
      <3>2. QED
        BY <1>3, <2>2, <3>1 DEF ShellInv, ImageSeen
    <2>3. Kept = {[view |-> savedView, cells |-> image.ram, firm |-> image.rom,
                   paged |-> image.conf.bk11]}
      BY <1>3 DEF Kept
    <2>4. conf.bk11' = image.conf.bk11
      BY <2>1
    <2>5. QED
      BY <1>1, <2>1, <2>2, <2>3, <2>4 DEF Space!Restore
  <1>4. QED
    BY <1>2, <1>3

LEMMA ShellSpace == ShellInv /\ [ShellNext]_shellVars => [Space!SpaceNext]_(Space!spaceVars)
  <1> SUFFICES ASSUME ShellInv, [ShellNext]_shellVars
               PROVE  Space!SpaceNext \/ UNCHANGED Space!spaceVars
    OBVIOUS
  <1>1. MemoryTypeOK
    BY DEF ShellInv, ShellTypeOK
  <1>2. ASSUME UNCHANGED <<memoryVars, image, savedView>>
        PROVE  UNCHANGED Space!spaceVars
    BY <1>2, ViewUnchanged, KeptUnchanged DEF memoryVars, Space!spaceVars
  <1>3. CASE InstructionCallback \/ InterruptCallback
    BY <1>2, <1>3 DEF InstructionCallback, InterruptCallback
  <1>4. CASE Access
    BY <1>1, <1>4, AccessSpace
  <1>5. CASE Reset
    <2>1. UNCHANGED <<conf, romBlocks, validBlocks, ram, rom, image, savedView>>
      BY <1>5 DEF Reset, ResetMemory
    <2>2. QED
      BY <2>1, PagingKeeps, ViewRemaps DEF Space!SpaceNext
  <1>6. CASE Restart
    BY <1>6, ConfigureSpace DEF Restart, Space!SpaceNext
  <1>7. CASE SaveImage
    BY <1>1, <1>7, SaveImageSpace DEF Space!SpaceNext
  <1>8. CASE SaveFails
    BY <1>8, SaveFailsSpace DEF Space!SpaceNext
  <1>9. CASE LoadImage
    BY <1>9, LoadImageSpace DEF Space!SpaceNext
  <1>10. CASE UNCHANGED shellVars
    BY <1>2, <1>10 DEF shellVars
  <1>11. QED
    BY <1>3, <1>4, <1>5, <1>6, <1>7, <1>8, <1>9, <1>10 DEF ShellNext

(* MemoryIsSpace: paging registers, state images and sessions implement an  *)
(* address space of pages, for any set of words, registers and machines.    *)
THEOREM MemoryIsSpace == ShellSpec => SpaceSpec
  <1>1. ShellInit => Space!SpaceInit
    <2> SUFFICES ASSUME ShellInit PROVE Space!SpaceInit
      OBVIOUS
    <2>1. ram = Cleared /\ Kept = {}
      BY DEF ShellInit, Configured, Kept
    <2>2. QED
      BY <2>1, ClearedIsFresh DEF Space!SpaceInit
  <1>2. QED
    BY <1>1, ShellInitially, ShellStep, ShellSpace, PTL DEF ShellSpec, SpaceSpec, Space!SpaceSpec
-----------------------------------------------------------------------------
(* The history is a log. *)

LEMMA QuotientStep ==
  ASSUME NEW n \in Nat \ {0}, NEW a \in Int, NEW b \in Int, a < b
  PROVE  n * b >= n * a + n
  <1>1. PICK k \in Nat : b = a + 1 + k
    <2>1. b - a - 1 \in Nat /\ b = a + 1 + (b - a - 1)
      BY SMT
    <2>2. QED
      BY <2>1
  <1>2. n * b = n * a + n + n * k /\ n * k >= 0 /\ n * a \in Int /\ n * k \in Int
    BY <1>1, SMT
  <1>3. QED
    BY <1>2, SMT

LEMMA RemainderOnly ==
  ASSUME NEW n \in Nat \ {0}, NEW a \in Int, NEW b \in Int,
         NEW r \in 0..(n - 1), NEW s \in 0..(n - 1), n * a + r = n * b + s
  PROVE  r = s
  <1>1. n * a \in Int /\ n * b \in Int
    BY SMT
  <1>2. CASE a < b
    BY <1>1, <1>2, QuotientStep, SMT
  <1>3. CASE b < a
    BY <1>1, <1>3, QuotientStep, SMT
  <1>4. CASE a = b
    BY <1>1, <1>4, SMT
  <1>5. QED
    BY <1>2, <1>3, <1>4, SMT

(* d places back from h in a ring of n, without a remainder. *)
Back(h, d, n) == IF d <= h THEN h - d ELSE h - d + n

LEMMA RingIndex ==
  ASSUME NEW n \in Nat \ {0}, NEW h \in 0..(n - 1), NEW d \in 0..n
  PROVE  (h - d) % n = Back(h, d, n) /\ Back(h, d, n) \in 0..(n - 1)
  <1> DEFINE x == h - d
             q == x \div n
             r == x % n
             b == IF d <= h THEN 0 ELSE -1
  <1>1. x \in Int /\ q \in Int /\ r \in 0..(n - 1) /\ x = n * q + r
    BY SMT
  <1>2. Back(h, d, n) \in 0..(n - 1)
    BY SMT DEF Back
  <1>3. b \in Int /\ x = n * b + Back(h, d, n)
    BY SMT DEF Back
  <1> HIDE DEF x, q, r, b
  <1>4. r = Back(h, d, n)
    BY <1>1, <1>2, <1>3, RemainderOnly
  <1>5. QED
    BY <1>2, <1>4 DEF r, x

LEMMA RingNext ==
  ASSUME NEW n \in Nat \ {0}, NEW h \in 0..(n - 1)
  PROVE  (h + 1) % n = IF h = n - 1 THEN 0 ELSE h + 1
  <1> DEFINE x == h + 1
             q == x \div n
             r == x % n
             b == IF h = n - 1 THEN 1 ELSE 0
             s == IF h = n - 1 THEN 0 ELSE h + 1
  <1>1. x \in Int /\ q \in Int /\ r \in 0..(n - 1) /\ x = n * q + r
    BY SMT
  <1>2. s \in 0..(n - 1) /\ b \in Int /\ x = n * b + s
    BY SMT
  <1> HIDE DEF x, q, r, b, s
  <1>3. r = s
    BY <1>1, <1>2, RemainderOnly
  <1>4. QED
    BY <1>3 DEF r, x, s

(* The k-th oldest record. *)
LEMMA PrintedLog ==
  ASSUME HistoryTypeOK
  PROVE  Printed(HistorySize) =
           [k \in 1..length |-> history[Back(head, 1 + (length - k), HistorySize)]]
  <1>1. length \in Nat /\ length <= HistorySize /\ HistorySize \in Nat \ {0} /\ head \in 0..(HistorySize - 1)
    BY HistoryAssumption, SMT DEF HistoryTypeOK, Slots
  <1>2. (IF HistorySize > length THEN length ELSE HistorySize) = length
    BY <1>1, SMT
  <1>3. \A k \in 1..length : (head - 1 - (length - k)) % HistorySize
                               = Back(head, 1 + (length - k), HistorySize)
    <2> TAKE k \in 1..length
    <2>1. 1 + (length - k) \in 0..HistorySize
      BY <1>1, SMT
    <2>2. head - 1 - (length - k) = head - (1 + (length - k))
      BY <1>1, SMT
    <2>3. QED
      BY <1>1, <2>1, <2>2, RingIndex
  <1>4. \A k \in 1..length : GetHistoryRecord(length - k)
                               = history[Back(head, 1 + (length - k), HistorySize)]
    BY <1>3 DEF GetHistoryRecord
  <1>5. Printed(HistorySize) = [k \in 1..length |-> GetHistoryRecord(length - k)]
    BY <1>2 DEF Printed
  <1>6. QED
    BY <1>4, <1>5

LEMMA PrintedOfType ==
  HistoryTypeOK => Printed(HistorySize) =
    [k \in 1..length |-> history[Back(head, 1 + (length - k), HistorySize)]]
  BY PrintedLog

LEMMA PrintedOfTypeNext ==
  (HistoryTypeOK => Printed(HistorySize) =
     [k \in 1..length |-> history[Back(head, 1 + (length - k), HistorySize)]])'
  BY PrintedOfType, PTL

(* Sequences given as functions on an interval that starts at 1. *)
LEMMA FunIsSeq ==
  ASSUME NEW S, NEW n \in Nat, NEW f \in [1..n -> S]
  PROVE  f \in Seq(S) /\ Len(f) = n
  <1>1. f \in Seq(S)
    OBVIOUS
  <1>2. DOMAIN f = 1..n /\ Len(f) \in Nat /\ DOMAIN f = 1..Len(f)
    BY <1>1, LenProperties
  <1>3. QED
    BY <1>1, <1>2, SMT

LEMMA AppendIsFun ==
  ASSUME NEW S, NEW n \in Nat, NEW s \in [1..n -> S], NEW r \in S
  PROVE  /\ Append(s, r) = [k \in 1..(n + 1) |-> IF k = n + 1 THEN r ELSE s[k]]
         /\ Append(s, r) \in [1..(n + 1) -> S]
  <1>1. s \in Seq(S) /\ Len(s) = n
    BY FunIsSeq
  <1>2. Append(s, r) \in Seq(S) /\ Len(Append(s, r)) = n + 1
    BY <1>1, AppendProperties
  <1>3. Append(s, r) \in [1..(n + 1) -> S]
    BY <1>2, LenProperties
  <1>4. \A k \in 1..(n + 1) : Append(s, r)[k] = IF k = n + 1 THEN r ELSE s[k]
    BY <1>1, AppendProperties
  <1>5. QED
    BY <1>3, <1>4

LEMMA TailIsFun ==
  ASSUME NEW S, NEW n \in Nat, NEW s \in [1..(n + 1) -> S]
  PROVE  Tail(s) = [k \in 1..n |-> s[k + 1]]
  <1>1. s \in Seq(S) /\ Len(s) = n + 1
    BY FunIsSeq
  <1>2. s # <<>>
    BY <1>1
  <1>3. /\ Tail(s) \in Seq(S) /\ Len(Tail(s)) = n
        /\ \A k \in 1..n : Tail(s)[k] = s[k + 1]
    BY <1>1, <1>2, HeadTailProperties
  <1>4. Tail(s) \in [1..n -> S]
    BY <1>3, LenProperties
  <1>5. QED
    BY <1>3, <1>4

LEMMA BackAfterNext ==
  ASSUME NEW n \in Nat \ {0}, NEW h \in 0..(n - 1), NEW d \in 0..(n - 1)
  PROVE  /\ Back((h + 1) % n, 1 + d, n) = Back(h, d, n)
         /\ d = 0 => Back(h, d, n) = h
         /\ d # 0 => Back(h, d, n) # h
         /\ Back(h, d, n) \in 0..(n - 1)
  <1>1. Back(IF h = n - 1 THEN 0 ELSE h + 1, 1 + d, n) = Back(h, d, n)
    BY SMT DEF Back
  <1>2. Back((h + 1) % n, 1 + d, n) = Back(h, d, n)
    BY <1>1, RingNext
  <1>3. /\ d = 0 => Back(h, d, n) = h
        /\ d # 0 => Back(h, d, n) # h
        /\ Back(h, d, n) \in 0..(n - 1)
    BY SMT DEF Back
  <1>4. QED
    BY <1>2, <1>3

(* What slot a record is found in after one more was written. *)
LEMMA RecordAfter ==
  ASSUME HistoryTypeOK, NEW r, AddHistoryRecord(r), NEW d \in 0..(HistorySize - 1)
  PROVE  history'[Back(head', 1 + d, HistorySize)] =
           IF d = 0 THEN r ELSE history[Back(head, d, HistorySize)]
  <1>1. HistorySize \in Nat \ {0} /\ head \in 0..(HistorySize - 1)
    BY HistoryAssumption DEF HistoryTypeOK, Slots
  <1>2. Back(head', 1 + d, HistorySize) = Back(head, d, HistorySize)
    BY <1>1, BackAfterNext DEF AddHistoryRecord
  <1>3. Back(head, d, HistorySize) \in DOMAIN history
    BY <1>1, BackAfterNext DEF HistoryTypeOK, Slots
  <1>4. history'[Back(head, d, HistorySize)] =
          IF Back(head, d, HistorySize) = head THEN r ELSE history[Back(head, d, HistorySize)]
    BY <1>3 DEF AddHistoryRecord
  <1>5. (Back(head, d, HistorySize) = head) <=> (d = 0)
    BY <1>1, BackAfterNext
  <1>6. QED
    BY <1>2, <1>4, <1>5

LEMMA AddRecordLog ==
  ASSUME HistoryTypeOK, NEW r \in Records, AddHistoryRecord(r)
  PROVE  Printed(HistorySize)' = Log!Latest(Append(Printed(HistorySize), r))
  <1> DEFINE n == HistorySize
             old == Printed(HistorySize)
             next == Append(old, r)
  <1>1. /\ n \in Nat \ {0} /\ length \in Nat /\ length <= n
        /\ length' = IF length < n THEN length + 1 ELSE length
    BY HistoryAssumption, SMT DEF HistoryTypeOK, AddHistoryRecord
  <1>2. old = [k \in 1..length |-> history[Back(head, 1 + (length - k), n)]]
    BY PrintedLog
  <1>3. Printed(HistorySize)' = [k \in 1..length' |-> history'[Back(head', 1 + (length' - k), n)]]
    BY AddRecordType, PrintedOfTypeNext
  <1>4. old \in [1..length -> Records \cup {Zeroed}]
    <2>1. \A k \in 1..length : Back(head, 1 + (length - k), n) \in Slots
      BY <1>1, SMT DEF HistoryTypeOK, Slots, Back
    <2>2. \A k \in 1..length : history[Back(head, 1 + (length - k), n)] \in Records \cup {Zeroed}
      BY <2>1 DEF HistoryTypeOK
    <2>3. QED
      BY <1>2, <2>2
  <1> HIDE DEF old
  <1>5. /\ next = [k \in 1..(length + 1) |-> IF k = length + 1 THEN r ELSE old[k]]
        /\ next \in [1..(length + 1) -> Records \cup {Zeroed}]
    BY <1>1, <1>4, AppendIsFun
  <1>6. Len(next) = length + 1
    BY <1>1, <1>5, FunIsSeq
  <1> HIDE DEF next
  <1>7. ASSUME length < n
        PROVE  Printed(HistorySize)' = Log!Latest(next)
    <2>1. length' = length + 1
      BY <1>1, <1>7, SMT
    <2>2. \A k \in 1..length' : history'[Back(head', 1 + (length' - k), n)]
                                  = IF k = length + 1 THEN r ELSE old[k]
      <3> TAKE k \in 1..length'
      <3>1. /\ length' - k \in 0..(HistorySize - 1)
            /\ (length' - k = 0) <=> (k = length + 1)
            /\ k # length + 1 => (k \in 1..length /\ length' - k = 1 + (length - k))
        BY <1>1, <1>7, <2>1, SMT
      <3>2. history'[Back(head', 1 + (length' - k), n)] =
              IF length' - k = 0 THEN r ELSE history[Back(head, length' - k, n)]
        BY <3>1, RecordAfter
      <3>3. QED
        BY <1>2, <3>1, <3>2
    <2>3. Printed(HistorySize)' = next
      BY <1>3, <1>5, <2>1, <2>2
    <2>4. Len(next) = length + 1 /\ ~(length + 1 > n)
      BY <1>1, <1>6, <1>7, SMT
    <2>5. QED
      BY <2>3, <2>4 DEF Log!Latest
  <1>8. ASSUME length = n
        PROVE  Printed(HistorySize)' = Log!Latest(next)
    <2>1. length' = n
      BY <1>1, <1>8, SMT
    <2>2. \A k \in 1..n : history'[Back(head', 1 + (length' - k), n)] = next[k + 1]
      <3> TAKE k \in 1..n
      <3>1. /\ n - k \in 0..(HistorySize - 1)
            /\ (n - k = 0) <=> (k + 1 = length + 1)
            /\ k + 1 \in 1..(length + 1)
            /\ k + 1 # length + 1 => (k + 1 \in 1..length /\ 1 + (length - (k + 1)) = n - k)
        BY <1>1, <1>8, SMT
      <3>2. history'[Back(head', 1 + (n - k), n)] =
              IF n - k = 0 THEN r ELSE history[Back(head, n - k, n)]
        BY <3>1, RecordAfter
      <3>3. next[k + 1] = IF k + 1 = length + 1 THEN r ELSE old[k + 1]
        BY <1>5, <3>1
      <3>4. QED
        BY <1>2, <2>1, <3>1, <3>2, <3>3
    <2>3. Printed(HistorySize)' = [k \in 1..n |-> next[k + 1]]
      BY <1>3, <2>1, <2>2
    <2>4. Len(next) = n + 1 /\ n + 1 > n /\ (n + 1) - 1 = n
      BY <1>1, <1>6, <1>8, SMT
    <2>5. Tail(next) = [k \in 1..n |-> next[k + 1]]
      BY <1>1, <1>5, <1>8, TailIsFun
    <2>6. QED
      BY <2>3, <2>4, <2>5 DEF Log!Latest
  <1>9. length < n \/ length = n
    BY <1>1, SMT
  <1>10. QED
    BY <1>7, <1>8, <1>9 DEF next, old

LEMMA ClearHistoryLog ==
  ASSUME ClearHistory
  PROVE  Printed(HistorySize)' = <<>>
  <1>1. length' = 0 /\ HistorySize > 0
    BY HistoryAssumption, SMT DEF ClearHistory
  <1>2. QED
    BY <1>1 DEF Printed

LEMMA HistoryKept ==
  ASSUME UNCHANGED historyVars
  PROVE  Printed(HistorySize)' = Printed(HistorySize)
  BY DEF historyVars, Printed, GetHistoryRecord

LEMMA ShellLog == ShellInv /\ [ShellNext]_shellVars => [Log!LogNext]_(Printed(HistorySize))
  <1> SUFFICES ASSUME ShellInv, [ShellNext]_shellVars
               PROVE  Log!LogNext \/ Printed(HistorySize)' = Printed(HistorySize)
    OBVIOUS
  <1>1. HistoryTypeOK
    BY DEF ShellInv, ShellTypeOK
  <1>2. ASSUME NEW r \in Records, AddHistoryRecord(r) PROVE Log!LogNext
    BY <1>1, <1>2, AddRecordLog DEF Log!LogNext, Log!Record
  <1>3. CASE InstructionCallback \/ InterruptCallback
    BY <1>2, <1>3, ShellAssumption DEF InstructionCallback, InterruptCallback
  <1>4. CASE Reset \/ Restart \/ LoadImage
    BY <1>4, ClearHistoryLog DEF Reset, Restart, LoadImage, Log!LogNext
  <1>5. CASE Access \/ SaveImage \/ SaveFails \/ UNCHANGED shellVars
    BY <1>5, HistoryKept DEF Access, SaveImage, SaveFails, shellVars
  <1>6. QED
    BY <1>3, <1>4, <1>5 DEF ShellNext

(* HistoryIsLog: a ring of any size, filled by the callbacks and cleared by *)
(* reset, restart and stateload, prints the latest records since then.      *)
THEOREM HistoryIsLog == ShellSpec => LogSpec
  <1>1. ShellInit => Log!LogInit
    <2> SUFFICES ASSUME ShellInit PROVE Log!LogInit
      OBVIOUS
    <2>1. length = 0 /\ HistorySize > 0
      BY HistoryAssumption, SMT DEF ShellInit, HistoryInit
    <2>2. QED
      BY <2>1 DEF Log!LogInit, Printed
  <1>2. QED
    BY <1>1, ShellInitially, ShellStep, ShellLog, PTL DEF ShellSpec, LogSpec, Log!LogSpec
=============================================================================
