------------------------------- MODULE Floppy -------------------------------
(***************************************************************************)
(* CFloppyController and its drives (src/emubase/Floppy.cpp) as a cache of *)
(* tracks in front of image files: which track is loaded, when it is       *)
(* changed, when it is written back.  The registers through which a        *)
(* program reads and writes single words are in FloppyStream.              *)
(*                                                                         *)
(* A track is abstracted to where its data was first read from and to one  *)
(* of a few texts; Garbled stands for every raw track that                 *)
(* DecodeTrackData() refuses.  A file shorter than a track reads as zeros  *)
(* and is extended with zeros, so that its length does not show here.      *)
(***************************************************************************)
EXTENDS Naturals

CONSTANTS
  Drives,       (* 0..3 in the code                                         *)
  NoDrive,      (* m_drive = -1                                             *)
  Images,       (* image files the user can attach                          *)
  NoImage,      (* fpFile = nullptr                                         *)
  ReadOnly,     (* the images that cannot be opened for writing             *)
  LastTrack,    (* 82 in the code                                           *)
  Steps,        (* head movements programs ask for                          *)
  Texts,        (* what a track can hold                                    *)
  Blank,        (* the text of a track of zeros                             *)
  Garbled       (* a raw track without ten sectors on it                    *)

ASSUME DriveAssumption == NoDrive \notin Drives
ASSUME ImageAssumption == NoImage \notin Images /\ ReadOnly \subseteq Images
ASSUME TextAssumption == Blank \in Texts /\ Garbled \notin Texts
ASSUME TrackAssumption == LastTrack \in Nat /\ Steps \subseteq {"none", "in", "out"}

Sides == {0, 1}
Positions == (0..LastTrack) \X Sides
NoPosition == <<65535, 65535>>      (* datatrack = dataside = 0xffff *)

ASSUME SentinelAssumption == NoPosition \notin Positions

Contents == [from : (Images \cup {NoImage}) \X Positions, text : Texts \cup {Garbled}]

VARIABLES
  drive,        (* m_drive, m_pDrive                                        *)
  track,        (* m_track                                                  *)
  side,         (* m_side                                                   *)
  image,        (* per drive: fpFile                                        *)
  loaded,       (* per drive: datatrack, dataside                           *)
  cache,        (* per drive: data and marker                               *)
  changed,      (* m_trackchanged                                           *)
  file          (* the image files                                          *)

diskVars == <<image, loaded, cache, changed, file>>
floppyVars == <<drive, track, side, diskVars>>

-----------------------------------------------------------------------------
(* FlushChanges and PrepareTrack, as functions of the drives and files.     *)

disk == [image |-> image, loaded |-> loaded, cache |-> cache,
         changed |-> changed, file |-> file]

Becomes(k) ==
  /\ image' = k.image
  /\ loaded' = k.loaded
  /\ cache' = k.cache
  /\ changed' = k.changed
  /\ file' = k.file

Attached(k, d) == d # NoDrive /\ k.image[d] # NoImage

(* A track that cannot be decoded is not written; a write to a file that is *)
(* open for reading fails unnoticed.  Either way the changes count as saved. *)
Decodes(k, d) == k.cache[d].text # Garbled
Writable(k, d) == k.image[d] \notin ReadOnly

FlushChanges(k, d) ==
  IF ~(Attached(k, d) /\ k.changed)
  THEN k
  ELSE [k EXCEPT !.changed = FALSE,
                 !.file = IF Decodes(k, d) /\ Writable(k, d)
                          THEN [@ EXCEPT ![k.image[d]][k.loaded[d]] = k.cache[d]]
                          ELSE @]

TrackOf(k, d, pos) ==
  IF k.image[d] = NoImage
  THEN [from |-> <<NoImage, pos>>, text |-> Blank]
  ELSE k.file[k.image[d]][pos]

(* Slip: the old track is not flushed. *)
PrepareTrackForgets(k, d, pos) ==
  IF d = NoDrive \/ k.loaded[d] = pos
  THEN k
  ELSE [k EXCEPT !.changed = FALSE, !.loaded[d] = pos, !.cache[d] = TrackOf(k, d, pos)]

(* Slip: datatrack and dataside are set before the flush. *)
PrepareTrackRelabels(k, d, pos) ==
  IF d = NoDrive \/ k.loaded[d] = pos
  THEN k
  ELSE LET f == FlushChanges([k EXCEPT !.loaded[d] = pos], d)
       IN  [f EXCEPT !.changed = FALSE, !.cache[d] = TrackOf(f, d, pos)]

(* PrepareTrack() runs after m_track and m_side have changed: the track     *)
(* that is flushed is still the one the drive says is loaded.               *)
PrepareTrack(k, d, pos) ==
  IF d = NoDrive \/ k.loaded[d] = pos
  THEN k
  ELSE LET f == FlushChanges(k, d)
       IN  [f EXCEPT !.changed = FALSE,
                     !.loaded[d] = pos,
                     !.cache[d] = TrackOf(f, d, pos)]

(* Slip: datatrack is reset, dataside is not. *)
EjectedHalf(k, d) ==
  [FlushChanges(k, drive) EXCEPT !.image[d] = NoImage, !.loaded[d] = <<NoPosition[1], @[2]>>]

Ejected(k, d) ==
  [FlushChanges(k, drive) EXCEPT !.image[d] = NoImage, !.loaded[d] = NoPosition]

-----------------------------------------------------------------------------
FloppyInit ==
  /\ drive = NoDrive
  /\ track = 0
  /\ side = 0
  /\ image = [d \in Drives |-> NoImage]
  /\ loaded = [d \in Drives |-> NoPosition]
  /\ cache = [d \in Drives |-> [from |-> <<NoImage, <<0, 0>>>>, text |-> Garbled]]
  /\ changed = FALSE
  /\ file = [i \in Images |-> [pos \in Positions |-> [from |-> <<i, pos>>, text |-> Blank]]]

(* RESET, and the board's reset *)
ControllerReset ==
  /\ drive' = NoDrive
  /\ track' = 0
  /\ side' = 0
  /\ Becomes([FlushChanges(disk, drive) EXCEPT !.changed = FALSE])

(* The image is opened for writing or, if that fails, for reading.  The     *)
(* track that PrepareTrack() loads is the selected drive's.                 *)
AttachImage(d, i) ==
  /\ track' = 0
  /\ side' = 0
  /\ LET k == IF image[d] = NoImage THEN disk ELSE Ejected(disk, d)
     IN  Becomes(PrepareTrack([k EXCEPT !.image[d] = i,
                                        !.loaded[d] = NoPosition,
                                        !.changed = FALSE],
                              drive, <<0, 0>>))
  /\ UNCHANGED drive

(* Also an AttachImage() that ejects the old image and cannot open the new. *)
DetachImage(d) ==
  /\ image[d] # NoImage
  /\ Becomes(Ejected(disk, d))
  /\ UNCHANGED <<drive, track, side>>

Stepped(step) ==
  CASE step = "out" /\ track < LastTrack -> track + 1
    [] step = "in" /\ track >= 1         -> track - 1
    [] OTHER                             -> track

(* Slip: the side changes under the loaded track. *)
SetCommandKeepsSide(d, up, step) ==
  LET k == IF d = drive THEN disk ELSE FlushChanges(disk, drive)
  IN  /\ drive' = d
      /\ IF d = NoDrive
         THEN Becomes(k) /\ UNCHANGED <<track, side>>
         ELSE /\ side' = up
              /\ track' = Stepped(step)
              /\ Becomes(IF d = drive /\ track' = track
                         THEN k
                         ELSE PrepareTrack(k, d, <<track', side'>>))

(* Slip: the drive that is left is not flushed. *)
SetCommandUnsaved(d, up, step) ==
  /\ drive' = d
  /\ IF d = NoDrive
     THEN UNCHANGED <<track, side, diskVars>>
     ELSE /\ side' = up
          /\ track' = Stepped(step)
          /\ Becomes(IF d = drive /\ side' = side /\ track' = track
                     THEN disk
                     ELSE PrepareTrack(disk, d, <<track', side'>>))

(* A write to 177130: drive, side and head position. *)
SetCommand(d, up, step) ==
  LET k == IF d = drive THEN disk ELSE FlushChanges(disk, drive)
  IN  /\ drive' = d
      /\ IF d = NoDrive
         THEN Becomes(k) /\ UNCHANGED <<track, side>>
         ELSE /\ side' = up
              /\ track' = Stepped(step)
              /\ Becomes(IF d = drive /\ side' = side /\ track' = track
                         THEN k
                         ELSE PrepareTrack(k, d, <<track', side'>>))

(* Periodic() in write mode puts a word on the track under the head; what   *)
(* was there around it stays.                                               *)
WriteWord(t) ==
  /\ Attached(disk, drive)
  /\ cache' = [cache EXCEPT ![drive].text = t]
  /\ changed' = TRUE
  /\ UNCHANGED <<drive, track, side, image, loaded, file>>

FloppyNext ==
  \/ ControllerReset
  \/ \E d \in Drives, i \in Images : AttachImage(d, i)
  \/ \E d \in Drives : DetachImage(d)
  \/ \E d \in Drives \cup {NoDrive}, up \in Sides, step \in Steps :
        SetCommand(d, up, step)
  \/ \E t \in Texts \cup {Garbled} : WriteWord(t)

FloppySpec == FloppyInit /\ [][FloppyNext]_floppyVars

-----------------------------------------------------------------------------
FloppyTypeOK ==
  /\ drive \in Drives \cup {NoDrive}
  /\ track \in 0..LastTrack
  /\ side \in Sides
  /\ image \in [Drives -> Images \cup {NoImage}]
  /\ loaded \in [Drives -> Positions \cup {NoPosition}]
  /\ cache \in [Drives -> Contents]
  /\ changed \in BOOLEAN
  /\ file \in [Images -> [Positions -> Contents]]

(* The track in memory is the one under the head, and unsaved changes       *)
(* belong to a drive that has an image to save them in.  A flush with       *)
(* the sentinel still in datatrack would write a gigabyte behind the end    *)
(* of the image (Floppy.cpp:471-485).                                       *)
HeadOverLoadedTrack == Attached(disk, drive) => loaded[drive] = <<track, side>>

ChangesHaveHome == changed => Attached(disk, drive)

TrackAtHome == HeadOverLoadedTrack /\ ChangesHaveHome

(* No track data wanders into another track or another image: what a flush  *)
(* writes was read from the same place (FlushChanges runs after the head    *)
(* has moved, and a drive's buffer outlives its image).                     *)
DataInPlace == \A i \in Images, pos \in Positions : file[i][pos].from = <<i, pos>>

(* "m_data was changed - need to save it into the file" (Emubase.h:114):    *)
(* when the flag goes down the data is in the file, unless it could not be  *)
(* decoded or the file cannot be written.                                   *)
Saved ==
  \/ ~Decodes(disk, drive)
  \/ ~Writable(disk, drive)
  \/ file'[image[drive]][loaded[drive]] = cache[drive]

ChangesSaved == [][changed /\ ~changed' => Saved]_floppyVars

(* The same for every operation but one: an image attached to an empty      *)
(* drive makes the controller forget the changes of the selected one.       *)
ChangesSavedUnlessAttaching ==
  [][changed /\ ~changed' /\ ~(\E d \in Drives \ {drive} : image[d] = NoImage /\ image'[d] # NoImage)
       => Saved]_floppyVars

Store == INSTANCE TrackStore WITH
  saved   <- file,
  pending <- {[image |-> image[d], place |-> loaded[d], content |-> cache[d]] :
                d \in {e \in Drives : changed /\ e = drive}}

(* The controller is a store with at most one unsaved track. *)
StoreSpec == Store!StoreSpec
=============================================================================
