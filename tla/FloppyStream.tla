---------------------------- MODULE FloppyStream ----------------------------
(***************************************************************************)
(* The registers through which a program reads and writes the track under  *)
(* the head (src/emubase/Floppy.cpp, GetState to Periodic), on top of      *)
(* Floppy: every action is one of Floppy's or leaves drives and files      *)
(* alone.  A register is NoWord when its flag is down.  A word is a member *)
(* of a small set; the data register, which only ever holds the word under *)
(* the head, and the status bits that GetState() computes from other       *)
(* state are left out.                                                     *)
(***************************************************************************)
EXTENDS Floppy, Sequences

CONSTANTS
  Words,        (* words a program writes                                   *)
  Crc,          (* the checksum the controller writes, a stub in the code   *)
  NoWord,       (* the register is empty                                    *)
  TrackWords,   (* length of a track in words, 3125 in the code             *)
  SyncWords     (* where EncodeTrackData() puts the sync marks              *)

ASSUME WordAssumption == Crc \notin Words /\ NoWord \notin Words \cup {Crc}
ASSUME LengthAssumption == TrackWords \in Nat \ {0} /\ SyncWords \subseteq 0..(TrackWords - 1)

VARIABLES
  engine,       (* m_flags: FLOPPY_CMD_ENGINESTART                          *)
  armedSync,    (* m_searchsynctrig                                         *)
  searchsync,   (* m_searchsync                                             *)
  crccalculus,  (* m_crccalculus                                            *)
  writing,      (* m_writing                                                *)
  writereg,     (* m_writereg, m_writeflag                                  *)
  writemarker,  (* m_writemarker                                            *)
  shiftreg,     (* m_shiftreg, m_shiftflag                                  *)
  shiftmarker,  (* m_shiftmarker                                            *)
  moredata,     (* m_status: FLOPPY_STATUS_MOREDATA                         *)
  checksumok,   (* m_status: FLOPPY_STATUS_CHECKSUMOK                       *)
  dataptr,      (* per drive: dataptr, in words                             *)
  marker        (* per drive: the words with a mark                         *)

statusVars == <<moredata, checksumok>>
readVars == <<armedSync, searchsync, crccalculus>>
writeVars == <<writing, writereg, writemarker, shiftreg, shiftmarker>>
mediumVars == <<dataptr, marker>>
streamVars == <<floppyVars, engine, statusVars, readVars, writeVars, mediumVars>>

-----------------------------------------------------------------------------
StreamInit ==
  /\ FloppyInit
  /\ engine = FALSE
  /\ armedSync = FALSE
  /\ searchsync = FALSE
  /\ crccalculus = FALSE
  /\ writing = FALSE
  /\ writereg = NoWord
  /\ writemarker = FALSE
  /\ shiftreg = NoWord
  /\ shiftmarker = FALSE
  /\ moredata = FALSE
  /\ checksumok = FALSE
  /\ dataptr = [d \in Drives |-> 0]
  /\ marker = [d \in Drives |-> {}]

(* PrepareTrack() encodes a track anew, marks included. *)
Encodes(drives) ==
  marker' = [d \in Drives |-> IF d \in drives THEN SyncWords ELSE marker[d]]

(* What Reset() and AttachImage() have in common; m_shiftmarker stays. *)
RegistersCleared ==
  /\ engine' = FALSE
  /\ searchsync' = FALSE
  /\ crccalculus' = FALSE
  /\ writing' = FALSE
  /\ writereg' = NoWord
  /\ writemarker' = FALSE
  /\ shiftreg' = NoWord
  /\ moredata' = FALSE
  /\ checksumok' = FALSE
  /\ UNCHANGED shiftmarker

StreamReset ==
  /\ ControllerReset
  /\ RegistersCleared
  /\ armedSync' = FALSE
  /\ UNCHANGED mediumVars

(* m_searchsynctrig stays. *)
StreamAttach(d, i) ==
  /\ AttachImage(d, i)
  /\ RegistersCleared
  /\ dataptr' = [dataptr EXCEPT ![d] = 0]
  /\ Encodes({e \in Drives : e = drive /\ (e = d \/ loaded'[e] # loaded[e])})
  /\ UNCHANGED armedSync

StreamDetach(d) ==
  /\ DetachImage(d)
  /\ dataptr' = [dataptr EXCEPT ![d] = 0]
  /\ UNCHANGED <<engine, statusVars, readVars, writeVars, marker>>

(* A write to 177130.  The search for a mark starts when READDATA goes down *)
(* again; WRITEMARKER counts only in write mode.                            *)
StartsSearch(read) == armedSync /\ ~read

StreamCommand(d, up, step, start, read, mark) ==
  /\ SetCommand(d, up, step)
  /\ engine' = start
  /\ \/ d = NoDrive /\ UNCHANGED <<statusVars, readVars, writemarker>>
     \/ /\ d # NoDrive
        /\ armedSync' = read
        /\ searchsync' = (searchsync \/ StartsSearch(read))
        /\ crccalculus' = (crccalculus \/ StartsSearch(read))
        /\ writemarker' = (writemarker \/ (writing /\ mark))
        /\ IF StartsSearch(read) \/ (writing /\ mark)
           THEN moredata' = FALSE /\ checksumok' = FALSE
           ELSE UNCHANGED statusVars
  /\ Encodes({e \in Drives : loaded'[e] # loaded[e]})
  /\ UNCHANGED <<writing, writereg, shiftreg, shiftmarker, dataptr>>

(* A read of 177130: with the motor off the status bits go down. *)
GetState ==
  /\ Attached(disk, drive)
  /\ ~engine
  /\ moredata' = FALSE
  /\ checksumok' = FALSE
  /\ UNCHANGED <<floppyVars, engine, readVars, writeVars, mediumVars>>

(* A read of 177132 ends write mode; words not yet written are dropped, the *)
(* two marker flags stay.                                                   *)
GetData ==
  /\ moredata' = FALSE
  /\ writing' = FALSE
  /\ searchsync' = FALSE
  /\ writereg' = NoWord
  /\ shiftreg' = NoWord
  /\ UNCHANGED <<floppyVars, engine, checksumok, armedSync, crccalculus, writemarker,
                 shiftmarker, mediumVars>>

(* Slip: MOREDATA stays up although the write register was filled. *)
WriteDataReady(w) ==
  /\ writing' = TRUE
  /\ searchsync' = FALSE
  /\ shiftreg' = IF shiftreg = NoWord THEN w ELSE shiftreg
  /\ writereg' = IF shiftreg = NoWord THEN writereg ELSE w
  /\ moredata' = TRUE
  /\ UNCHANGED <<floppyVars, engine, checksumok, armedSync, crccalculus, writemarker,
                 shiftmarker, mediumVars>>

(* Slip: the new word goes to the shift register, the older one behind it. *)
WriteDataSwapped(w) ==
  /\ writing' = TRUE
  /\ searchsync' = FALSE
  /\ shiftreg' = w
  /\ writereg' = IF shiftreg = NoWord THEN NoWord ELSE shiftreg
  /\ moredata' = (shiftreg = NoWord)
  /\ UNCHANGED <<floppyVars, engine, checksumok, armedSync, crccalculus, writemarker,
                 shiftmarker, mediumVars>>

(* A write to 177132.  The word goes to the first register from the disk    *)
(* that is free, after the write register has moved up if it can; with both *)
(* full it replaces the write register.                                     *)
WriteData(w) ==
  /\ writing' = TRUE
  /\ searchsync' = FALSE
  /\ shiftreg' = IF shiftreg # NoWord THEN shiftreg
                 ELSE IF writereg # NoWord THEN writereg ELSE w
  /\ writereg' = IF writereg = NoWord /\ shiftreg = NoWord THEN NoWord ELSE w
  /\ moredata' = CASE writereg = NoWord /\ shiftreg = NoWord -> TRUE
                   [] writereg # NoWord /\ shiftreg # NoWord -> moredata
                   [] OTHER                                  -> FALSE
  /\ UNCHANGED <<floppyVars, engine, checksumok, armedSync, crccalculus, writemarker,
                 shiftmarker, mediumVars>>

-----------------------------------------------------------------------------
(* Periodic(): all drives turn together while the motor is on. *)

(* Slip: the wrap-around comes a word too late. *)
TurnsPastEnd ==
  /\ engine
  /\ dataptr' = [d \in Drives |-> (dataptr[d] + 1) % (TrackWords + 1)]

(* Slip: the disk stops at the end of the track. *)
TurnsOnce ==
  /\ engine
  /\ dataptr' = [d \in Drives |-> IF dataptr[d] + 1 < TrackWords THEN dataptr[d] + 1 ELSE dataptr[d]]

Turns ==
  /\ engine
  /\ dataptr' = [d \in Drives |-> (dataptr[d] + 1) % TrackWords]

PeriodicRead ==
  /\ Turns
  /\ Attached(disk, drive)
  /\ ~writing
  /\ LET found == searchsync /\ dataptr'[drive] \in marker[drive]
     IN  IF moredata
         THEN /\ crccalculus' = FALSE
              /\ checksumok' = (checksumok \/ crccalculus)
              /\ UNCHANGED <<moredata, searchsync>>
         ELSE /\ moredata' = (found \/ ~searchsync)
              /\ searchsync' = (searchsync /\ ~found)
              /\ UNCHANGED <<crccalculus, checksumok>>
  /\ UNCHANGED <<floppyVars, engine, armedSync, writeVars, marker>>

(* The shift register goes to the track, with a mark or without; then it    *)
(* takes the write register or, when that is empty after a mark, the        *)
(* checksum.                                                                *)
PeriodicWrite ==
  /\ Turns
  /\ writing
  /\ shiftreg # NoWord
  /\ \E t \in Texts \cup {Garbled} : WriteWord(t)
  /\ marker' = [marker EXCEPT ![drive] = IF shiftmarker THEN @ \cup {dataptr'[drive]}
                                                        ELSE @ \ {dataptr'[drive]}]
  /\ LET crc == crccalculus \/ shiftmarker
     IN  \/ /\ writereg # NoWord
            /\ shiftreg' = writereg
            /\ writereg' = NoWord
            /\ shiftmarker' = writemarker
            /\ writemarker' = FALSE
            /\ moredata' = TRUE
            /\ crccalculus' = crc
            /\ UNCHANGED checksumok
         \/ /\ writereg = NoWord
            /\ shiftreg' = IF crc THEN Crc ELSE NoWord
            /\ shiftmarker' = FALSE
            /\ crccalculus' = FALSE
            /\ checksumok' = (checksumok \/ crc)
            /\ UNCHANGED <<writereg, writemarker, moredata>>
  /\ UNCHANGED <<engine, armedSync, searchsync, writing>>

PeriodicIdle ==
  /\ Turns
  /\ ~Attached(disk, drive) \/ (writing /\ shiftreg = NoWord)
  /\ UNCHANGED <<floppyVars, engine, statusVars, readVars, writeVars, marker>>

Periodic == PeriodicRead \/ PeriodicWrite \/ PeriodicIdle

ProgramStep ==
  \/ \E d \in Drives \cup {NoDrive}, up \in Sides, step \in Steps,
        start, read, mark \in BOOLEAN : StreamCommand(d, up, step, start, read, mark)
  \/ GetState
  \/ GetData
  \/ \E w \in Words : WriteData(w)
  \/ StreamReset

UserStep ==
  \/ \E d \in Drives, i \in Images : StreamAttach(d, i)
  \/ \E d \in Drives : StreamDetach(d)

StreamNext == Periodic \/ ProgramStep \/ UserStep

(* SystemFrame() calls Periodic() every 32 ticks whatever the program does. *)
StreamSpec == StreamInit /\ [][StreamNext]_streamVars /\ WF_streamVars(Periodic)

-----------------------------------------------------------------------------
StreamTypeOK ==
  /\ FloppyTypeOK
  /\ {engine, armedSync, searchsync, crccalculus, writing, writemarker, shiftmarker,
      moredata, checksumok} \subseteq BOOLEAN
  /\ writereg \in Words \cup {NoWord}
  /\ shiftreg \in Words \cup {Crc, NoWord}
  /\ dataptr \in [Drives -> 0..(TrackWords - 1)]
  /\ marker \in [Drives -> SUBSET (0..(TrackWords - 1))]

(* The registers fill in order and only in write mode: WriteData's case of  *)
(* a full write register behind an empty shift register never happens       *)
(* (Floppy.cpp:292-299).                                                    *)
RegistersInOrder ==
  /\ writereg # NoWord => shiftreg # NoWord
  /\ shiftreg # NoWord => writing

(* A program that writes a word only when MOREDATA is up overwrites none.   *)
(* The bit is set and cleared in eight places (Floppy.cpp:162-391).         *)
RoomWhenReady == moredata => writereg = NoWord

(* "loading a track does not mean a sync marker has been found under the    *)
(* head" (Floppy.cpp:418): while a mark is searched for, no data is ready.  *)
NoFalseReady == searchsync /\ ~writing => ~moredata

(* What a program may rely on when it polls the ready bit (CFloppyController *)
(* ::GetState, GetData, WriteData and Periodic in any order).               *)
HandshakeOK == RegistersInOrder /\ RoomWhenReady /\ NoFalseReady

(* A search on a track that has a mark ends while the motor runs. *)
Searching == searchsync /\ ~writing /\ engine /\ Attached(disk, drive) /\ marker[drive] # {}

SearchEnds == Searching ~> ~Searching

(* The word that goes to the disk next comes first. *)
Registers == CASE shiftreg = NoWord /\ writereg = NoWord -> <<>>
               [] shiftreg # NoWord /\ writereg = NoWord -> <<shiftreg>>
               [] OTHER                                  -> <<shiftreg, writereg>>

Queue == INSTANCE WordQueue WITH Data <- Words, Checksum <- Crc, queue <- Registers

(* The two registers are a queue: words reach the disk in the order the     *)
(* program wrote them.                                                      *)
QueueSpec == Queue!QueueSpec
=============================================================================
