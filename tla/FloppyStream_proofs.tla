------------------------ MODULE FloppyStream_proofs ------------------------
(***************************************************************************)
(* Theorems about the floppy controller's word registers: the handshake    *)
(* bit never invites a program to overwrite a word, never announces data   *)
(* while a mark is searched for, and the two registers are a queue.        *)
(***************************************************************************)
EXTENDS FloppyStream, Floppy_proofs, SequenceTheorems

(* The three facts hold together by induction: RoomWhenReady rests on       *)
(* RegistersInOrder when reading raises MOREDATA, with both registers empty. *)
StreamInv == RegistersInOrder /\ RoomWhenReady /\ NoFalseReady

LEMMA StreamInvInit == StreamInit => StreamInv
BY DEF StreamInit, StreamInv, RegistersInOrder, RoomWhenReady, NoFalseReady

LEMMA StreamInvNext == StreamInv /\ [StreamNext]_streamVars => StreamInv'
<1> SUFFICES ASSUME StreamInv, [StreamNext]_streamVars PROVE StreamInv'
  OBVIOUS
<1> USE WordAssumption DEF StreamInv, RegistersInOrder, RoomWhenReady, NoFalseReady
<1>1. CASE PeriodicRead
  BY <1>1 DEF PeriodicRead, writeVars
<1>2. CASE PeriodicWrite
  BY <1>2 DEF PeriodicWrite
<1>3. CASE PeriodicIdle
  BY <1>3 DEF PeriodicIdle, statusVars, readVars, writeVars
<1>4. ASSUME NEW d \in Drives \cup {NoDrive}, NEW up \in Sides, NEW step \in Steps,
             NEW start \in BOOLEAN, NEW read \in BOOLEAN, NEW mark \in BOOLEAN,
             StreamCommand(d, up, step, start, read, mark)
      PROVE  StreamInv'
  <2>1. UNCHANGED <<writing, writereg, shiftreg>>
    BY <1>4 DEF StreamCommand
  <2>2. CASE d = NoDrive
    <3>1. UNCHANGED <<statusVars, readVars>>
      BY <1>4, <2>2 DEF StreamCommand
    <3> QED
      BY <2>1, <3>1 DEF statusVars, readVars
  <2>3. CASE d # NoDrive /\ (StartsSearch(read) \/ (writing /\ mark))
    <3>1. moredata' = FALSE
      BY <1>4, <2>3 DEF StreamCommand
    <3> QED
      BY <2>1, <3>1
  <2>4. CASE d # NoDrive /\ ~(StartsSearch(read) \/ (writing /\ mark))
    <3>1. UNCHANGED statusVars /\ searchsync' = (searchsync \/ StartsSearch(read))
      BY <1>4, <2>4 DEF StreamCommand
    <3>2. moredata' = moredata /\ (searchsync' => searchsync)
      BY <2>4, <3>1, Zenon DEF statusVars
    <3> QED
      BY <2>1, <3>2
  <2> QED
    BY <2>2, <2>3, <2>4
<1>5. CASE GetState
  BY <1>5 DEF GetState, readVars, writeVars
<1>6. CASE GetData
  BY <1>6 DEF GetData
<1>7. ASSUME NEW w \in Words, WriteData(w) PROVE StreamInv'
  BY <1>7 DEF WriteData
<1>8. CASE StreamReset
  BY <1>8 DEF StreamReset, RegistersCleared
<1>9. ASSUME NEW d \in Drives, NEW i \in Images, StreamAttach(d, i) PROVE StreamInv'
  BY <1>9 DEF StreamAttach, RegistersCleared
<1>10. ASSUME NEW d \in Drives, StreamDetach(d) PROVE StreamInv'
  BY <1>10 DEF StreamDetach, statusVars, readVars, writeVars
<1>11. CASE UNCHANGED streamVars
  BY <1>11 DEF streamVars, statusVars, readVars, writeVars
<1> QED
  BY <1>1, <1>2, <1>3, <1>4, <1>5, <1>6, <1>7, <1>8, <1>9, <1>10, <1>11
     DEF StreamNext, Periodic, ProgramStep, UserStep

LEMMA StreamInvAlways == StreamSpec => []StreamInv
BY StreamInvInit, StreamInvNext, PTL DEF StreamSpec

(* A program that waits for MOREDATA never overwrites a word, the registers *)
(* fill in order, and no data is announced while a mark is searched for.    *)
THEOREM HandshakeCorrect == StreamSpec => []HandshakeOK
<1>1. StreamInv => HandshakeOK
  BY DEF StreamInv, HandshakeOK
<1> QED
  BY <1>1, StreamInvAlways, PTL

-----------------------------------------------------------------------------
(* Every step of the registers is a step of the drives and images or leaves *)
(* them alone.                                                              *)
LEMMA StreamStepIsFloppyStep == [StreamNext]_streamVars => [FloppyNext]_floppyVars
<1> SUFFICES ASSUME [StreamNext]_streamVars PROVE [FloppyNext]_floppyVars
  OBVIOUS
<1>1. CASE PeriodicRead \/ PeriodicIdle \/ GetState \/ GetData
  BY <1>1 DEF PeriodicRead, PeriodicIdle, GetState, GetData
<1>2. CASE PeriodicWrite
  BY <1>2 DEF PeriodicWrite, FloppyNext
<1>3. ASSUME NEW d \in Drives \cup {NoDrive}, NEW up \in Sides, NEW step \in Steps,
             NEW start \in BOOLEAN, NEW read \in BOOLEAN, NEW mark \in BOOLEAN,
             StreamCommand(d, up, step, start, read, mark)
      PROVE  FloppyNext
  BY <1>3 DEF StreamCommand, FloppyNext
<1>4. ASSUME NEW w \in Words, WriteData(w) PROVE UNCHANGED floppyVars
  BY <1>4 DEF WriteData
<1>5. CASE StreamReset
  BY <1>5 DEF StreamReset, FloppyNext
<1>6. ASSUME NEW d \in Drives, NEW i \in Images, StreamAttach(d, i) PROVE FloppyNext
  BY <1>6 DEF StreamAttach, FloppyNext
<1>7. ASSUME NEW d \in Drives, StreamDetach(d) PROVE FloppyNext
  BY <1>7 DEF StreamDetach, FloppyNext
<1>8. CASE UNCHANGED streamVars
  BY <1>8 DEF streamVars
<1> QED
  BY <1>1, <1>2, <1>3, <1>4, <1>5, <1>6, <1>7, <1>8 DEF StreamNext, Periodic, ProgramStep, UserStep

(* What is proved of drives and images holds under any program: data stays  *)
(* in its place, and there is at most one unsaved track.                    *)
THEOREM StreamImplementsFloppy == StreamSpec => FloppySpec
<1>1. StreamInit => FloppyInit
  BY DEF StreamInit
<1> QED
  BY <1>1, StreamStepIsFloppyStep, PTL DEF StreamSpec, FloppySpec

THEOREM StreamStoreCorrect == StreamSpec => StoreSpec
BY StreamImplementsFloppy, FloppyImplementsStore, PTL

(* With the registers in play as without: changes have a home track, data   *)
(* stays in place, and a changed track is saved before the head leaves it.  *)
THEOREM StreamKeepsTracks ==
  StreamSpec => [](TrackAtHome /\ DataInPlace) /\ ChangesSavedUnlessAttaching
BY StreamImplementsFloppy, ChangesAtHome, DataStaysInPlace, ChangesReachFile, PTL

-----------------------------------------------------------------------------
(* The types of the registers, in parts: the flags, the two words, and      *)
(* where the drives' heads and marks are.                                   *)
ReadFlagsOK ==
  /\ engine \in BOOLEAN
  /\ armedSync \in BOOLEAN
  /\ searchsync \in BOOLEAN
  /\ crccalculus \in BOOLEAN
  /\ moredata \in BOOLEAN
  /\ checksumok \in BOOLEAN

WriteFlagsOK ==
  /\ writing \in BOOLEAN
  /\ writemarker \in BOOLEAN
  /\ shiftmarker \in BOOLEAN

WordsOK == writereg \in Words \cup {NoWord} /\ shiftreg \in Words \cup {Crc, NoWord}

MediumOK ==
  /\ dataptr \in [Drives -> 0..(TrackWords - 1)]
  /\ marker \in [Drives -> SUBSET (0..(TrackWords - 1))]

LEMMA Wraps == ASSUME NEW n \in Nat PROVE (n + 1) % TrackWords \in 0..(TrackWords - 1)
BY LengthAssumption

LEMMA TurnsInRange == ASSUME MediumOK, Turns PROVE dataptr' \in [Drives -> 0..(TrackWords - 1)]
<1>1. \A d \in Drives : (dataptr[d] + 1) % TrackWords \in 0..(TrackWords - 1)
  BY Wraps, LengthAssumption DEF MediumOK
<1> QED
  BY <1>1 DEF Turns

LEMMA EncodesMarks ==
  ASSUME MediumOK, NEW drives, Encodes(drives)
  PROVE  marker' \in [Drives -> SUBSET (0..(TrackWords - 1))]
BY LengthAssumption DEF MediumOK, Encodes

LEMMA ReadFlagsNext ==
  ASSUME ReadFlagsOK, WriteFlagsOK, [StreamNext]_streamVars
  PROVE  ReadFlagsOK'
<1> USE DEF ReadFlagsOK, WriteFlagsOK
<1>1. CASE PeriodicRead
  <2>1. engine' = engine /\ armedSync' = armedSync
    BY <1>1 DEF PeriodicRead
  <2>2. /\ searchsync' \in BOOLEAN
        /\ crccalculus' \in BOOLEAN
        /\ moredata' \in BOOLEAN
        /\ checksumok' \in BOOLEAN
    BY <1>1, Zenon DEF PeriodicRead
  <2> QED
    BY <2>1, <2>2
<1>2. CASE PeriodicWrite
  <2>1. UNCHANGED <<engine, armedSync, searchsync>>
    BY <1>2 DEF PeriodicWrite
  <2>2. /\ crccalculus' \in BOOLEAN
        /\ moredata' \in BOOLEAN
        /\ checksumok' \in BOOLEAN
    BY <1>2, Zenon DEF PeriodicWrite
  <2> QED
    BY <2>1, <2>2
<1>3. CASE PeriodicIdle \/ UNCHANGED streamVars
  BY <1>3 DEF PeriodicIdle, streamVars, statusVars, readVars
<1>4. ASSUME NEW d \in Drives \cup {NoDrive}, NEW up \in Sides, NEW step \in Steps,
             NEW start \in BOOLEAN, NEW read \in BOOLEAN, NEW mark \in BOOLEAN,
             StreamCommand(d, up, step, start, read, mark)
      PROVE  ReadFlagsOK'
  <2>1. engine' \in BOOLEAN
    BY <1>4 DEF StreamCommand
  <2>2. CASE d = NoDrive /\ UNCHANGED <<statusVars, readVars, writemarker>>
    BY <2>1, <2>2 DEF statusVars, readVars
  <2>3. CASE /\ armedSync' = read
             /\ searchsync' = (searchsync \/ StartsSearch(read))
             /\ crccalculus' = (crccalculus \/ StartsSearch(read))
             /\ IF StartsSearch(read) \/ (writing /\ mark)
                THEN moredata' = FALSE /\ checksumok' = FALSE
                ELSE UNCHANGED statusVars
    <3>1. armedSync' \in BOOLEAN /\ searchsync' \in BOOLEAN /\ crccalculus' \in BOOLEAN
      BY <2>3, Zenon
    <3>2. moredata' \in BOOLEAN /\ checksumok' \in BOOLEAN
      BY <2>3 DEF statusVars
    <3> QED
      BY <2>1, <3>1, <3>2
  <2> QED
    BY <1>4, <2>2, <2>3, Zenon DEF StreamCommand
<1>5. CASE GetState \/ GetData \/ StreamReset
  BY <1>5 DEF GetState, GetData, StreamReset, RegistersCleared, readVars
<1>6. ASSUME NEW w \in Words, WriteData(w) PROVE ReadFlagsOK'
  BY <1>6 DEF WriteData
<1>7. ASSUME NEW d \in Drives, NEW i \in Images, StreamAttach(d, i) PROVE ReadFlagsOK'
  BY <1>7 DEF StreamAttach, RegistersCleared
<1>8. ASSUME NEW d \in Drives, StreamDetach(d) PROVE ReadFlagsOK'
  BY <1>8 DEF StreamDetach, statusVars, readVars
<1> QED
  BY <1>1, <1>2, <1>3, <1>4, <1>5, <1>6, <1>7, <1>8
     DEF StreamNext, Periodic, ProgramStep, UserStep

LEMMA WriteFlagsNext ==
  ASSUME WriteFlagsOK, WordsOK, [StreamNext]_streamVars
  PROVE  WriteFlagsOK' /\ WordsOK'
<1> USE DEF WriteFlagsOK, WordsOK
<1>1. CASE PeriodicRead \/ PeriodicIdle \/ GetState \/ UNCHANGED streamVars
  BY <1>1 DEF PeriodicRead, PeriodicIdle, GetState, streamVars, writeVars
<1>2. CASE PeriodicWrite
  BY <1>2 DEF PeriodicWrite
<1>3. ASSUME NEW d \in Drives \cup {NoDrive}, NEW up \in Sides, NEW step \in Steps,
             NEW start \in BOOLEAN, NEW read \in BOOLEAN, NEW mark \in BOOLEAN,
             StreamCommand(d, up, step, start, read, mark)
      PROVE  WriteFlagsOK' /\ WordsOK'
  <2>1. UNCHANGED <<writing, writereg, shiftreg, shiftmarker>>
    BY <1>3 DEF StreamCommand
  <2>2. writemarker' = writemarker \/ writemarker' = (writemarker \/ (writing /\ mark))
    BY <1>3, Zenon DEF StreamCommand
  <2>3. writemarker' \in BOOLEAN
    BY <2>2, Zenon
  <2> QED
    BY <2>1, <2>3
<1>4. CASE GetData \/ StreamReset
  BY <1>4 DEF GetData, StreamReset, RegistersCleared
<1>5. ASSUME NEW w \in Words, WriteData(w) PROVE WriteFlagsOK' /\ WordsOK'
  BY <1>5 DEF WriteData
<1>6. ASSUME NEW d \in Drives, NEW i \in Images, StreamAttach(d, i)
      PROVE  WriteFlagsOK' /\ WordsOK'
  BY <1>6 DEF StreamAttach, RegistersCleared
<1>7. ASSUME NEW d \in Drives, StreamDetach(d) PROVE WriteFlagsOK' /\ WordsOK'
  BY <1>7 DEF StreamDetach, writeVars
<1> QED
  BY <1>1, <1>2, <1>3, <1>4, <1>5, <1>6, <1>7 DEF StreamNext, Periodic, ProgramStep, UserStep

LEMMA MediumNext ==
  ASSUME FloppyTypeOK, MediumOK, [StreamNext]_streamVars
  PROVE  MediumOK'
<1>1. CASE PeriodicRead \/ PeriodicIdle
  <2>1. UNCHANGED marker /\ Turns
    BY <1>1 DEF PeriodicRead, PeriodicIdle
  <2> QED
    BY <2>1, TurnsInRange DEF MediumOK
<1>2. CASE PeriodicWrite
  <2>1. drive \in Drives
    BY <1>2 DEF PeriodicWrite, WriteWord, Attached, FloppyTypeOK
  <2>2. dataptr' \in [Drives -> 0..(TrackWords - 1)]
    BY <1>2, TurnsInRange DEF PeriodicWrite
  <2>3. dataptr'[drive] \in 0..(TrackWords - 1)
    BY <2>1, <2>2
  <2>4. marker' \in [Drives -> SUBSET (0..(TrackWords - 1))]
    BY <1>2, <2>1, <2>3 DEF PeriodicWrite, MediumOK
  <2> QED
    BY <2>2, <2>4 DEF MediumOK
<1>3. ASSUME NEW d \in Drives \cup {NoDrive}, NEW up \in Sides, NEW step \in Steps,
             NEW start \in BOOLEAN, NEW read \in BOOLEAN, NEW mark \in BOOLEAN,
             StreamCommand(d, up, step, start, read, mark)
      PROVE  MediumOK'
  BY <1>3, EncodesMarks DEF StreamCommand, MediumOK
<1>4. CASE GetState \/ GetData \/ StreamReset \/ UNCHANGED streamVars
  BY <1>4 DEF GetState, GetData, StreamReset, streamVars, mediumVars, MediumOK
<1>5. ASSUME NEW w \in Words, WriteData(w) PROVE MediumOK'
  BY <1>5 DEF WriteData, mediumVars, MediumOK
<1>6. ASSUME NEW d \in Drives, NEW i \in Images, StreamAttach(d, i) PROVE MediumOK'
  <2>1. dataptr' = [dataptr EXCEPT ![d] = 0]
    BY <1>6 DEF StreamAttach
  <2>2. dataptr' \in [Drives -> 0..(TrackWords - 1)]
    BY <2>1, LengthAssumption DEF MediumOK
  <2> QED
    BY <1>6, <2>2, EncodesMarks DEF StreamAttach, MediumOK
<1>7. ASSUME NEW d \in Drives, StreamDetach(d) PROVE MediumOK'
  BY <1>7, LengthAssumption DEF StreamDetach, MediumOK
<1> QED
  BY <1>1, <1>2, <1>3, <1>4, <1>5, <1>6, <1>7 DEF StreamNext, Periodic, ProgramStep, UserStep

(* The registers and flags keep their types, the heads of all drives stay   *)
(* on the track and no mark is ever set beyond its end, however the program *)
(* mixes reading, writing and seeking (Floppy.cpp:145-392).                 *)
THEOREM StreamTypeCorrect == StreamSpec => []StreamTypeOK
<1> DEFINE Inv == ReadFlagsOK /\ WriteFlagsOK /\ WordsOK /\ MediumOK
<1>1. ASSUME StreamInit
      PROVE  Inv
  <2>1. ReadFlagsOK /\ WriteFlagsOK
    BY <1>1 DEF StreamInit, ReadFlagsOK, WriteFlagsOK
  <2>2. WordsOK
    BY <1>1 DEF StreamInit, WordsOK
  <2>3. MediumOK
    <3>1. 0 \in 0..(TrackWords - 1)
      BY LengthAssumption
    <3>2. dataptr = [d \in Drives |-> 0] /\ marker = [d \in Drives |-> {}]
      BY <1>1 DEF StreamInit
    <3> QED
      BY <3>1, <3>2 DEF MediumOK
  <2> QED
    BY <2>1, <2>2, <2>3
<1>2. FloppyTypeOK /\ Inv /\ [StreamNext]_streamVars => Inv'
  BY ReadFlagsNext, WriteFlagsNext, MediumNext
<1>3. FloppyTypeOK /\ Inv => StreamTypeOK
  BY DEF StreamTypeOK, ReadFlagsOK, WriteFlagsOK, WordsOK, MediumOK
<1> QED
  BY <1>1, <1>2, <1>3, StreamImplementsFloppy, FloppyTypeCorrect, PTL DEF StreamSpec

-----------------------------------------------------------------------------
(* The refinement of the queue: what the registers hold, case by case, and  *)
(* the sequences the queue's actions make of it.                            *)
LEMMA RegistersCases ==
  ASSUME RegistersInOrder
  PROVE  /\ shiftreg = NoWord <=> Registers = << >>
         /\ shiftreg = NoWord => writereg = NoWord
         /\ shiftreg # NoWord /\ writereg = NoWord => Registers = <<shiftreg>>
         /\ writereg # NoWord => Registers = <<shiftreg, writereg>>
BY DEF RegistersInOrder, Registers

LEMMA RegistersCasesPrime ==
  ASSUME RegistersInOrder'
  PROVE  /\ shiftreg' = NoWord => Registers' = << >>
         /\ shiftreg' # NoWord /\ writereg' = NoWord => Registers' = <<shiftreg'>>
         /\ writereg' # NoWord => Registers' = <<shiftreg', writereg'>>
BY DEF RegistersInOrder, Registers

LEMMA AppendToOne == ASSUME NEW v, NEW w PROVE Append(<<v>>, w) = <<v, w>>
<1> DEFINE S == {v, w}
           s == Append(<<v>>, w)
           t == <<v, w>>
<1>1. s \in Seq(S) /\ t \in Seq(S)
  OBVIOUS
<1>2. Len(s) = 2 /\ s[1] = v /\ s[2] = w
  OBVIOUS
<1>3. Len(t) = 2 /\ t[1] = v /\ t[2] = w
  OBVIOUS
<1>4. Len(s) = Len(t) /\ \A i \in 1..Len(s) : s[i] = t[i]
  BY <1>2, <1>3
<1>5. s = t
  <2> HIDE DEF s, t, S
  <2> QED
    BY <1>1, <1>4, SeqEqual
<1> QED
  BY <1>5

LEMMA ShortSequences ==
  ASSUME NEW v, NEW w
  PROVE  /\ Append(<< >>, w) = <<w>>
         /\ Append(<<v>>, w) = <<v, w>>
         /\ Tail(<<v>>) = << >> /\ Tail(<<v, w>>) = <<w>>
         /\ Len(<< >>) = 0 /\ Len(<<v>>) = 1 /\ Len(<<v, w>>) = 2
         /\ <<v>> # << >> /\ <<v, w>> # << >> /\ <<v, w>>[1] = v
<1>1. Append(<< >>, w) = <<w>>
  OBVIOUS
<1>2. Tail(<<v>>) = << >>
  OBVIOUS
<1>3. Tail(<<v, w>>) = <<w>>
  OBVIOUS
<1>4. Len(<< >>) = 0 /\ Len(<<v>>) = 1 /\ Len(<<v, w>>) = 2
  OBVIOUS
<1>5. <<v>> # << >> /\ <<v, w>> # << >> /\ <<v, w>>[1] = v
  OBVIOUS
<1> QED
  BY <1>1, <1>2, <1>3, <1>4, <1>5, AppendToOne

LEMMA WriteDataIsPut ==
  ASSUME RegistersInOrder, RegistersInOrder', NEW w \in Words, WriteData(w)
  PROVE  Queue!Put(w) \/ Queue!Replace(w)
<1> USE RegistersCases, RegistersCasesPrime
<1>1. w # NoWord
  BY WordAssumption
<1>2. CASE shiftreg = NoWord
  <2>1. Registers = << >> /\ Registers' = <<w>>
    BY <1>1, <1>2 DEF WriteData
  <2> QED
    BY <2>1, ShortSequences DEF Queue!Put
<1>3. CASE shiftreg # NoWord /\ writereg = NoWord
  <2>1. Registers = <<shiftreg>> /\ Registers' = <<shiftreg, w>>
    BY <1>1, <1>3 DEF WriteData
  <2> QED
    BY <2>1, ShortSequences DEF Queue!Put
<1>4. CASE shiftreg # NoWord /\ writereg # NoWord
  <2>1. Registers = <<shiftreg, writereg>>
    BY <1>4
  <2>2. shiftreg' = shiftreg /\ writereg' = w
    BY <1>4 DEF WriteData
  <2>3. Registers' = <<shiftreg, w>>
    BY <1>1, <2>2
  <2> QED
    BY <2>1, <2>3, ShortSequences DEF Queue!Replace
<1> QED
  BY <1>2, <1>3, <1>4

LEMMA PeriodicWriteIsTake ==
  ASSUME RegistersInOrder, RegistersInOrder', PeriodicWrite
  PROVE  Queue!Take \/ Queue!Finish
<1> USE RegistersCases, RegistersCasesPrime
<1>1. CASE writereg # NoWord
  <2>1. Registers = <<shiftreg, writereg>> /\ Registers' = <<writereg>>
    BY <1>1 DEF PeriodicWrite
  <2> QED
    BY <2>1, ShortSequences DEF Queue!Take
<1>2. CASE writereg = NoWord
  <2>1. Registers = <<shiftreg>> /\ (Registers' = <<Crc>> \/ Registers' = << >>)
    BY <1>2, WordAssumption DEF PeriodicWrite
  <2> QED
    BY <2>1, ShortSequences DEF Queue!Take, Queue!Finish
<1> QED
  BY <1>1, <1>2

LEMMA StepOfQueue ==
  ASSUME RegistersInOrder, RegistersInOrder', [StreamNext]_streamVars
  PROVE  [Queue!QueueNext]_Registers
<1> USE DEF Queue!QueueNext
<1>1. ASSUME UNCHANGED <<shiftreg, writereg>> PROVE UNCHANGED Registers
  BY <1>1 DEF Registers
<1>2. CASE PeriodicRead \/ PeriodicIdle \/ GetState
  BY <1>1, <1>2 DEF PeriodicRead, PeriodicIdle, GetState, writeVars
<1>3. CASE PeriodicWrite
  BY <1>3, PeriodicWriteIsTake
<1>4. ASSUME NEW d \in Drives \cup {NoDrive}, NEW up \in Sides, NEW step \in Steps,
             NEW start \in BOOLEAN, NEW read \in BOOLEAN, NEW mark \in BOOLEAN,
             StreamCommand(d, up, step, start, read, mark)
      PROVE  UNCHANGED Registers
  BY <1>1, <1>4 DEF StreamCommand
<1>5. CASE GetData \/ StreamReset
  BY <1>5, RegistersCasesPrime DEF GetData, StreamReset, RegistersCleared, Queue!Clear
<1>6. ASSUME NEW w \in Words, WriteData(w) PROVE Queue!QueueNext
  BY <1>6, WriteDataIsPut
<1>7. ASSUME NEW d \in Drives, NEW i \in Images, StreamAttach(d, i) PROVE Queue!QueueNext
  BY <1>7, RegistersCasesPrime DEF StreamAttach, RegistersCleared, Queue!Clear
<1>8. ASSUME NEW d \in Drives, StreamDetach(d) PROVE UNCHANGED Registers
  BY <1>1, <1>8 DEF StreamDetach, writeVars
<1>9. CASE UNCHANGED streamVars
  BY <1>1, <1>9 DEF streamVars, writeVars
<1> QED
  BY <1>2, <1>3, <1>4, <1>5, <1>6, <1>7, <1>8, <1>9
     DEF StreamNext, Periodic, ProgramStep, UserStep

(* Words reach the disk in the order the program wrote them, and only a     *)
(* word the program wrote too early is lost, to the next one.               *)
THEOREM StreamImplementsQueue == StreamSpec => QueueSpec
<1>1. StreamInit => Queue!QueueInit
  BY DEF StreamInit, Queue!QueueInit, Registers
<1>2. StreamInv /\ StreamInv' /\ [StreamNext]_streamVars => [Queue!QueueNext]_Registers
  BY StepOfQueue DEF StreamInv
<1> QED
  BY <1>1, <1>2, StreamInvAlways, PTL DEF StreamSpec, QueueSpec, Queue!QueueSpec
=============================================================================
