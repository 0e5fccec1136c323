--------------------------- MODULE Floppy_proofs ---------------------------
(***************************************************************************)
(* Theorems about the floppy controller's track cache, for any number of   *)
(* drives, images and tracks: track data stays in its place, the dirty     *)
(* flag always belongs to a loaded track of an attached drive, and the     *)
(* controller implements the store with at most one unsaved track.         *)
(***************************************************************************)
EXTENDS Floppy, TLAPS

DiskType ==
  [image   : [Drives -> Images \cup {NoImage}],
   loaded  : [Drives -> Positions \cup {NoPosition}],
   cache   : [Drives -> Contents],
   changed : BOOLEAN,
   file    : [Images -> [Positions -> Contents]]]

FilesInPlace(k) == \A i \in Images, pos \in Positions : k.file[i][pos].from = <<i, pos>>

(* A buffer that is trusted was read from where its drive says. *)
BuffersInPlace(k) ==
  \A d \in Drives :
     k.image[d] # NoImage /\ k.loaded[d] # NoPosition => k.cache[d].from = <<k.image[d], k.loaded[d]>>

Good(k) == k \in DiskType /\ FilesInPlace(k) /\ BuffersInPlace(k)

HasHome(k, d) == k.changed => Attached(k, d) /\ k.loaded[d] # NoPosition

Selections == Drives \cup {NoDrive}

(* r comes from k by saving or losing the unsaved track of drive d, if any. *)
Settles(k, d, r) ==
  /\ r.changed = FALSE
  /\ \/ r.file = k.file
     \/ /\ k.changed
        /\ r.file = [k.file EXCEPT ![k.image[d]][k.loaded[d]] = k.cache[d]]

(* What FlushChanges() leaves alone and what it guarantees. *)
LEMMA FlushFacts ==
  ASSUME NEW k, Good(k), NEW d \in Selections, HasHome(k, d)
  PROVE  /\ Good(FlushChanges(k, d))
         /\ FlushChanges(k, d).image = k.image
         /\ FlushChanges(k, d).loaded = k.loaded
         /\ FlushChanges(k, d).cache = k.cache
         /\ FlushChanges(k, d).changed = FALSE
         /\ Settles(k, d, FlushChanges(k, d))
<1> DEFINE f == FlushChanges(k, d)
<1>1. CASE ~(Attached(k, d) /\ k.changed)
  <2>1. f = k
    BY <1>1 DEF FlushChanges
  <2>2. k.changed = FALSE
    BY <1>1 DEF HasHome, Good, DiskType
  <2> QED
    BY <2>1, <2>2 DEF Settles
<1>2. CASE Attached(k, d) /\ k.changed
  <2>1. /\ d \in Drives
        /\ k.image[d] \in Images
        /\ k.loaded[d] \in Positions
        /\ k.cache[d] \in Contents
        /\ k.cache[d].from = <<k.image[d], k.loaded[d]>>
    BY <1>2, DriveAssumption, ImageAssumption
       DEF Attached, HasHome, Good, DiskType, BuffersInPlace, Selections
  <2> DEFINE g == [k.file EXCEPT ![k.image[d]][k.loaded[d]] = k.cache[d]]
             h == IF Decodes(k, d) /\ Writable(k, d) THEN g ELSE k.file
  <2>2. f = [k EXCEPT !.changed = FALSE, !.file = h]
    BY <1>2 DEF FlushChanges
  <2>3. k.file \in [Images -> [Positions -> Contents]]
    BY DEF Good, DiskType
  <2>4. g \in [Images -> [Positions -> Contents]]
    BY <2>1, <2>3
  <2>5. \A i \in Images, pos \in Positions : g[i][pos].from = <<i, pos>>
    BY <2>1, <2>3 DEF Good, FilesInPlace
  <2>6. /\ h \in [Images -> [Positions -> Contents]]
        /\ \A i \in Images, pos \in Positions : h[i][pos].from = <<i, pos>>
    BY <2>3, <2>4, <2>5 DEF Good, FilesInPlace
  <2>8. h = k.file \/ h = g
    OBVIOUS
  <2> HIDE DEF h
  <2>7. /\ f.image = k.image
        /\ f.loaded = k.loaded
        /\ f.cache = k.cache
        /\ f.changed = FALSE
        /\ f.file = h
        /\ f \in DiskType
    BY <2>2, <2>6 DEF Good, DiskType
  <2> QED
    BY <1>2, <2>6, <2>7, <2>8 DEF Good, FilesInPlace, BuffersInPlace, Settles
<1> QED
  BY <1>1, <1>2

(* PrepareTrack() leaves the requested track loaded. *)
LEMMA PrepareFacts ==
  ASSUME NEW k, Good(k), NEW d \in Selections, NEW pos \in Positions, HasHome(k, d)
  PROVE  /\ Good(PrepareTrack(k, d, pos))
         /\ PrepareTrack(k, d, pos).image = k.image
         /\ d # NoDrive => PrepareTrack(k, d, pos).loaded[d] = pos
         /\ HasHome(PrepareTrack(k, d, pos), d)
         /\ PrepareTrack(k, d, pos) = k \/ Settles(k, d, PrepareTrack(k, d, pos))
<1> DEFINE p == PrepareTrack(k, d, pos)
           f == FlushChanges(k, d)
<1>1. CASE d = NoDrive \/ k.loaded[d] = pos
  <2>1. p = k
    BY <1>1 DEF PrepareTrack
  <2> QED
    BY <1>1, <2>1
<1>2. CASE d # NoDrive /\ k.loaded[d] # pos
  <2>1. p = [f EXCEPT !.changed = FALSE, !.loaded[d] = pos, !.cache[d] = TrackOf(f, d, pos)]
    BY <1>2 DEF PrepareTrack
  <2>2. d \in Drives
    BY <1>2 DEF Selections
  <2>3. Good(f) /\ f.image = k.image /\ f.changed = FALSE /\ Settles(k, d, f)
    BY FlushFacts
  <2>4. /\ TrackOf(f, d, pos) \in Contents
        /\ f.image[d] # NoImage => TrackOf(f, d, pos).from = <<f.image[d], pos>>
    BY <2>2, <2>3, TextAssumption DEF TrackOf, Good, DiskType, FilesInPlace, Contents
  <2> DEFINE l == [f.loaded EXCEPT ![d] = pos]
             c == [f.cache EXCEPT ![d] = TrackOf(f, d, pos)]
  <2>5. /\ p.image = f.image
        /\ p.loaded = l
        /\ p.cache = c
        /\ p.changed = FALSE
        /\ p.file = f.file
        /\ p \in DiskType
    <3>1. /\ l \in [Drives -> Positions \cup {NoPosition}]
          /\ c \in [Drives -> Contents]
      BY <2>2, <2>3, <2>4 DEF Good, DiskType
    <3>2. p = [f EXCEPT !.changed = FALSE, !.loaded = l, !.cache = c]
      BY <2>1, <2>3 DEF Good, DiskType
    <3> HIDE DEF l, c
    <3> QED
      BY <2>3, <3>1, <3>2 DEF Good, DiskType
  <2>6. FilesInPlace(p) /\ BuffersInPlace(p)
    BY <2>2, <2>3, <2>4, <2>5, SentinelAssumption
       DEF Good, DiskType, FilesInPlace, BuffersInPlace
  <2>7. p.loaded[d] = pos
    BY <2>2, <2>3, <2>5 DEF Good, DiskType
  <2> QED
    BY <2>3, <2>5, <2>6, <2>7 DEF Good, HasHome, Settles
<1> QED
  BY <1>1, <1>2

(* Ejecting an image settles the selected drive's changes. *)
LEMMA EjectFacts ==
  ASSUME NEW k, Good(k), drive \in Selections, HasHome(k, drive), NEW d \in Drives
  PROVE  /\ Good(Ejected(k, d))
         /\ Ejected(k, d).image = [k.image EXCEPT ![d] = NoImage]
         /\ Ejected(k, d).loaded = [k.loaded EXCEPT ![d] = NoPosition]
         /\ Settles(k, drive, Ejected(k, d))
<1> DEFINE e == Ejected(k, d)
           f == FlushChanges(k, drive)
           i == [f.image EXCEPT ![d] = NoImage]
           l == [f.loaded EXCEPT ![d] = NoPosition]
<1>1. /\ Good(f)
      /\ f.image = k.image
      /\ f.loaded = k.loaded
      /\ Settles(k, drive, f)
  BY FlushFacts
<1>2. e = [f EXCEPT !.image = i, !.loaded = l]
  BY <1>1 DEF Ejected, Good, DiskType
<1>3. /\ i \in [Drives -> Images \cup {NoImage}]
      /\ l \in [Drives -> Positions \cup {NoPosition}]
  BY <1>1 DEF Good, DiskType
<1>4. /\ e.image = i
      /\ e.loaded = l
      /\ e.cache = f.cache
      /\ e.changed = f.changed
      /\ e.file = f.file
      /\ e \in DiskType
  <2> HIDE DEF i, l
  <2> QED
    BY <1>1, <1>2, <1>3 DEF Good, DiskType
<1>5. FilesInPlace(e) /\ BuffersInPlace(e)
  BY <1>1, <1>4 DEF Good, DiskType, FilesInPlace, BuffersInPlace
<1> QED
  BY <1>1, <1>4, <1>5 DEF Good, Settles

LEMMA BecomesDisk ==
  ASSUME NEW k, k \in DiskType, Becomes(k)
  PROVE  disk' = k
BY DEF Becomes, disk, DiskType

-----------------------------------------------------------------------------
(* The invariant: the drives and files are in order, and the selected       *)
(* drive, when it has an image, has loaded the track under the head.        *)
FloppyInv ==
  /\ Good(disk)
  /\ drive \in Selections
  /\ track \in 0..LastTrack
  /\ side \in Sides
  /\ HasHome(disk, drive)
  /\ HeadOverLoadedTrack

LEMMA InvInit == FloppyInit => FloppyInv
<1> SUFFICES ASSUME FloppyInit PROVE FloppyInv
  OBVIOUS
<1>1. <<0, 0>> \in Positions
  BY TrackAssumption DEF Positions, Sides
<1>2. [from |-> <<NoImage, <<0, 0>>>>, text |-> Garbled] \in Contents
  BY <1>1 DEF Contents
<1>3. \A i \in Images, pos \in Positions : [from |-> <<i, pos>>, text |-> Blank] \in Contents
  BY TextAssumption DEF Contents
<1>4. /\ image \in [Drives -> Images \cup {NoImage}]
      /\ loaded \in [Drives -> Positions \cup {NoPosition}]
      /\ changed = FALSE
  BY DEF FloppyInit
<1>5. cache \in [Drives -> Contents]
  BY <1>2 DEF FloppyInit
<1>6. file \in [Images -> [Positions -> Contents]]
  BY <1>3 DEF FloppyInit
<1>7. disk \in DiskType
  BY <1>4, <1>5, <1>6 DEF disk, DiskType
<1>8. FilesInPlace(disk) /\ BuffersInPlace(disk)
  BY DEF FloppyInit, disk, FilesInPlace, BuffersInPlace
<1> QED
  BY <1>7, <1>8, TrackAssumption
     DEF FloppyInit, FloppyInv, Good, Selections, Sides, HasHome, HeadOverLoadedTrack,
         Attached, disk

(* Every operation but a write settles the selected drive's changes or      *)
(* leaves drives and files as they are.                                     *)
Settled == Settles(disk, drive, disk') \/ (disk' = disk /\ drive' = drive)

LEMMA StepReset ==
  ASSUME FloppyInv, ControllerReset
  PROVE  FloppyInv' /\ Settled
<1> DEFINE f == FlushChanges(disk, drive)
<1>1. /\ Good(f)
      /\ f.changed = FALSE
      /\ Settles(disk, drive, f)
  BY FlushFacts DEF FloppyInv
<1>2. [f EXCEPT !.changed = FALSE] = f
  BY <1>1 DEF Good, DiskType
<1>3. disk' = f
  BY <1>1, <1>2, BecomesDisk DEF ControllerReset, Good
<1> QED
  BY <1>1, <1>3, TrackAssumption
     DEF ControllerReset, FloppyInv, Selections, Sides, HasHome, HeadOverLoadedTrack, Attached,
         Settled

LEMMA StepAttach ==
  ASSUME FloppyInv, NEW d \in Drives, NEW i \in Images, AttachImage(d, i)
  PROVE  FloppyInv' /\ Settled
<1> DEFINE k == IF image[d] = NoImage THEN disk ELSE Ejected(disk, d)
           a == [k EXCEPT !.image[d] = i, !.loaded[d] = NoPosition, !.changed = FALSE]
           im == [k.image EXCEPT ![d] = i]
           lo == [k.loaded EXCEPT ![d] = NoPosition]
           r == PrepareTrack(a, drive, <<0, 0>>)
<1>1. /\ Good(k)
      /\ k.file = disk.file \/ Settles(disk, drive, k)
  BY EjectFacts DEF FloppyInv
<1>2. a = [k EXCEPT !.image = im, !.loaded = lo, !.changed = FALSE]
  BY <1>1 DEF Good, DiskType
<1>3. /\ im \in [Drives -> Images \cup {NoImage}]
      /\ lo \in [Drives -> Positions \cup {NoPosition}]
  BY <1>1 DEF Good, DiskType
<1>4. /\ a.image = im
      /\ a.loaded = lo
      /\ a.cache = k.cache
      /\ a.changed = FALSE
      /\ a.file = k.file
      /\ a \in DiskType
  <2> HIDE DEF im, lo, k
  <2> QED
    BY <1>1, <1>2, <1>3 DEF Good, DiskType
<1>5. Good(a)
  <2>1. FilesInPlace(a)
    BY <1>1, <1>4 DEF Good, FilesInPlace
  <2>2. BuffersInPlace(a)
    <3> HIDE DEF k, a
    <3> QED
      BY <1>1, <1>4 DEF Good, DiskType, BuffersInPlace
  <2> QED
    BY <1>4, <2>1, <2>2 DEF Good
<1>6. HasHome(a, drive)
  BY <1>4 DEF HasHome
<1>7. <<0, 0>> \in Positions
  BY TrackAssumption DEF Positions, Sides
<1>8. /\ Good(r)
      /\ drive # NoDrive => r.loaded[drive] = <<0, 0>>
      /\ HasHome(r, drive)
      /\ r = a \/ Settles(a, drive, r)
  <2> HIDE DEF a
  <2> QED
    BY <1>5, <1>6, <1>7, PrepareFacts DEF FloppyInv
<1>9. disk' = r
  BY <1>8, BecomesDisk DEF AttachImage, Good
<1>10. Settles(disk, drive, disk')
  <2>1. r.changed = FALSE /\ r.file = k.file
    <3> HIDE DEF a, r, k
    <3> QED
      BY <1>4, <1>8 DEF Settles
  <2> QED
    BY <1>1, <1>9, <2>1 DEF Settles
<1>11. FloppyInv'
  <2>1. track' = 0 /\ side' = 0 /\ drive' = drive
    BY DEF AttachImage
  <2>2. drive # NoDrive => loaded'[drive] = <<0, 0>>
    BY <1>8, <1>9 DEF disk
  <2> HIDE DEF r
  <2> QED
    BY <1>8, <1>9, <2>1, <2>2, TrackAssumption
       DEF FloppyInv, Selections, Sides, HeadOverLoadedTrack, Attached, HasHome
<1> QED
  BY <1>10, <1>11 DEF Settled

LEMMA StepDetach ==
  ASSUME FloppyInv, NEW d \in Drives, DetachImage(d)
  PROVE  FloppyInv' /\ Settled
<1> DEFINE e == Ejected(disk, d)
<1>1. /\ Good(e)
      /\ e.image = [disk.image EXCEPT ![d] = NoImage]
      /\ e.loaded = [disk.loaded EXCEPT ![d] = NoPosition]
      /\ Settles(disk, drive, e)
  BY EjectFacts DEF FloppyInv
<1>2. disk' = e
  BY <1>1, BecomesDisk DEF DetachImage, Good
<1>3. /\ image' = [image EXCEPT ![d] = NoImage]
      /\ loaded' = [loaded EXCEPT ![d] = NoPosition]
  BY <1>1, <1>2 DEF disk
<1>4. HasHome(e, drive)
  BY <1>1 DEF HasHome, Settles
<1>5. HeadOverLoadedTrack'
  BY <1>3 DEF DetachImage, HeadOverLoadedTrack, Attached, disk, FloppyInv, Good, DiskType
<1> HIDE DEF e
<1> QED
  BY <1>1, <1>2, <1>4, <1>5 DEF DetachImage, FloppyInv, HasHome, Attached, Settled

LEMMA SteppedInRange ==
  ASSUME NEW step, track \in 0..LastTrack
  PROVE  Stepped(step) \in 0..LastTrack
BY TrackAssumption DEF Stepped

LEMMA StepCommand ==
  ASSUME FloppyInv, NEW d \in Selections, NEW up \in Sides, NEW step, SetCommand(d, up, step)
  PROVE  FloppyInv' /\ Settled
<1> DEFINE k == IF d = drive THEN disk ELSE FlushChanges(disk, drive)
           pos == <<track', side'>>
           r == PrepareTrack(k, d, pos)
<1>1. /\ Good(k)
      /\ k.image = image
      /\ k.loaded = loaded
      /\ d = drive => k = disk
      /\ d # drive => k.changed = FALSE /\ Settles(disk, drive, k)
  BY FlushFacts DEF FloppyInv, disk
<1>2. HasHome(k, d)
  BY <1>1 DEF HasHome, FloppyInv
<1>3. drive' = d
  BY DEF SetCommand
<1>4. CASE d = NoDrive
  <2>1. disk' = k
    BY <1>1, <1>4, BecomesDisk DEF SetCommand, Good
  <2>2. track' = track /\ side' = side
    BY <1>4 DEF SetCommand
  <2> HIDE DEF k
  <2> QED
    BY <1>1, <1>2, <1>3, <1>4, <2>1, <2>2
       DEF FloppyInv, Settled, Attached, HeadOverLoadedTrack
<1>5. CASE d # NoDrive
  <2>1. /\ side' = up
        /\ track' = Stepped(step)
        /\ Becomes(IF d = drive /\ side' = side /\ track' = track THEN k ELSE r)
    BY <1>5 DEF SetCommand
  <2>2. track' \in 0..LastTrack /\ side' \in Sides /\ pos \in Positions
    BY <2>1, SteppedInRange DEF FloppyInv, Positions
  <2> HIDE DEF k, pos
  <2>3. CASE d = drive /\ side' = side /\ track' = track
    <3>1. disk' = disk
      BY <1>1, <2>1, <2>3, BecomesDisk DEF Good
    <3> QED
      BY <1>3, <2>3, <3>1 DEF FloppyInv, Settled, HeadOverLoadedTrack, Attached, disk
  <2>4. CASE ~(d = drive /\ side' = side /\ track' = track)
    <3>1. /\ Good(r)
          /\ r.loaded[d] = pos
          /\ HasHome(r, d)
          /\ r = k \/ Settles(k, d, r)
      BY <1>1, <1>2, <1>5, <2>2, PrepareFacts
    <3>2. disk' = r
      BY <2>1, <2>4, <3>1, BecomesDisk DEF Good
    <3> HIDE DEF r
    <3>3. Settled
      <4>1. CASE d = drive
        BY <1>1, <1>3, <3>1, <3>2, <4>1 DEF Settled
      <4>2. CASE d # drive
        BY <1>1, <3>1, <3>2, <4>2 DEF Settled, Settles
      <4> QED
        BY <4>1, <4>2
    <3>4. loaded'[drive'] = <<track', side'>>
      BY <1>3, <3>1, <3>2 DEF disk, pos
    <3> QED
      BY <1>3, <2>2, <3>1, <3>2, <3>3, <3>4 DEF FloppyInv, HeadOverLoadedTrack
  <2> QED
    BY <2>3, <2>4
<1> QED
  BY <1>4, <1>5

LEMMA StepWrite ==
  ASSUME FloppyInv, NEW t \in Texts \cup {Garbled}, WriteWord(t)
  PROVE  FloppyInv'
<1> DEFINE w == [cache EXCEPT ![drive].text = t]
<1>1. /\ drive \in Drives
      /\ image[drive] # NoImage
      /\ loaded[drive] = <<track, side>>
      /\ <<track, side>> \in Positions
  BY DEF WriteWord, Attached, FloppyInv, Selections, HeadOverLoadedTrack, Positions, disk
<1>2. cache \in [Drives -> Contents]
  BY DEF FloppyInv, Good, DiskType, disk
<1>3. /\ w \in [Drives -> Contents]
      /\ \A d \in Drives : w[d].from = cache[d].from
  BY <1>1, <1>2 DEF Contents
<1>4. /\ cache' = w
      /\ changed' = TRUE
      /\ UNCHANGED <<drive, track, side, image, loaded, file>>
  BY DEF WriteWord
<1> HIDE DEF w
<1>5. /\ disk'.image = disk.image
      /\ disk'.loaded = disk.loaded
      /\ disk'.cache = w
      /\ disk'.changed = TRUE
      /\ disk'.file = disk.file
      /\ disk' \in DiskType
  BY <1>3, <1>4 DEF FloppyInv, Good, DiskType, disk
<1>6. Good(disk')
  BY <1>3, <1>5 DEF FloppyInv, Good, FilesInPlace, BuffersInPlace, disk
<1>7. HasHome(disk, drive)'
  BY <1>1, SentinelAssumption DEF WriteWord, HasHome, Attached, disk
<1> QED
  BY <1>6, <1>7 DEF WriteWord, FloppyInv, HeadOverLoadedTrack, Attached, disk

LEMMA InvNext == FloppyInv /\ [FloppyNext]_floppyVars => FloppyInv'
<1> SUFFICES ASSUME FloppyInv, [FloppyNext]_floppyVars PROVE FloppyInv'
  OBVIOUS
<1>1. CASE ControllerReset
  BY <1>1, StepReset
<1>2. ASSUME NEW d \in Drives, NEW i \in Images, AttachImage(d, i) PROVE FloppyInv'
  BY <1>2, StepAttach
<1>3. ASSUME NEW d \in Drives, DetachImage(d) PROVE FloppyInv'
  BY <1>3, StepDetach
<1>4. ASSUME NEW d \in Drives \cup {NoDrive}, NEW up \in Sides,
             NEW step \in Steps, SetCommand(d, up, step)
      PROVE  FloppyInv'
  BY <1>4, StepCommand DEF Selections
<1>5. ASSUME NEW t \in Texts \cup {Garbled}, WriteWord(t) PROVE FloppyInv'
  BY <1>5, StepWrite
<1>6. CASE UNCHANGED floppyVars
  BY <1>6 DEF floppyVars, diskVars, FloppyInv, Good, FilesInPlace, BuffersInPlace, HasHome,
              HeadOverLoadedTrack, Attached, disk
<1> QED
  BY <1>1, <1>2, <1>3, <1>4, <1>5, <1>6 DEF FloppyNext

LEMMA InvAlways == FloppySpec => []FloppyInv
BY InvInit, InvNext, PTL DEF FloppySpec

-----------------------------------------------------------------------------
(* The types of the controller's state, for any drives, images and tracks. *)
THEOREM FloppyTypeCorrect == FloppySpec => []FloppyTypeOK
<1>1. FloppyInv => FloppyTypeOK
  BY DEF FloppyInv, FloppyTypeOK, Good, DiskType, disk, Selections
<1> QED
  BY <1>1, InvAlways, PTL

(* Unsaved changes belong to the selected drive, which has an image, and    *)
(* the track they are on is the one under the head: a flush never uses the  *)
(* sentinel position (Floppy.cpp:459-485).                                  *)
THEOREM ChangesAtHome == FloppySpec => []TrackAtHome
<1>1. FloppyInv => TrackAtHome
  BY DEF FloppyInv, HasHome, ChangesHaveHome, TrackAtHome, disk
<1> QED
  BY <1>1, InvAlways, PTL

(* Data read from one place of an image is never written to another place   *)
(* or into another image.                                                   *)
THEOREM DataStaysInPlace == FloppySpec => []DataInPlace
<1>1. FloppyInv => DataInPlace
  BY DEF FloppyInv, Good, FilesInPlace, DataInPlace, disk
<1> QED
  BY <1>1, InvAlways, PTL

-----------------------------------------------------------------------------
SavedIn(k, r) ==
  \/ ~Decodes(k, drive)
  \/ ~Writable(k, drive)
  \/ r.file[k.image[drive]][k.loaded[drive]] = k.cache[drive]

(* A flush that has something to save saves it. *)
LEMMA FlushSaves ==
  ASSUME Good(disk), drive \in Selections, HasHome(disk, drive), changed
  PROVE  SavedIn(disk, FlushChanges(disk, drive))
<1>1. /\ drive \in Drives
      /\ Attached(disk, drive)
      /\ image[drive] \in Images
      /\ loaded[drive] \in Positions
      /\ file \in [Images -> [Positions -> Contents]]
  BY DEF Good, DiskType, HasHome, Attached, Selections, disk
<1>2. CASE Decodes(disk, drive) /\ Writable(disk, drive)
  <2> DEFINE g == [file EXCEPT ![image[drive]][loaded[drive]] = cache[drive]]
  <2>1. FlushChanges(disk, drive).file = g
    BY <1>1, <1>2 DEF FlushChanges, disk
  <2>2. g[image[drive]][loaded[drive]] = cache[drive]
    BY <1>1
  <2> QED
    BY <2>1, <2>2 DEF SavedIn, disk
<1> QED
  BY <1>2 DEF SavedIn

(* With nothing to save PrepareTrack() leaves the files alone. *)
LEMMA PrepareKeepsFiles ==
  ASSUME NEW k, Good(k), k.changed = FALSE, NEW d \in Selections, NEW pos \in Positions
  PROVE  PrepareTrack(k, d, pos).file = k.file
<1>1. HasHome(k, d)
  BY DEF HasHome
<1>2. PrepareTrack(k, d, pos) = k \/ Settles(k, d, PrepareTrack(k, d, pos))
  BY <1>1, PrepareFacts
<1> QED
  BY <1>2 DEF Settles

(* What PrepareTrack() does to the files is the flush. *)
LEMMA PrepareFlushes ==
  ASSUME NEW k, NEW d \in Selections, NEW pos \in Positions, Good(k), HasHome(k, d)
  PROVE  \/ PrepareTrack(k, d, pos) = k
         \/ PrepareTrack(k, d, pos).file = FlushChanges(k, d).file
<1>1. Good(FlushChanges(k, d))
  BY FlushFacts
<1> DEFINE f == FlushChanges(k, d)
<1> HIDE DEF f
<1>2. f \in DiskType
  BY <1>1 DEF Good, f
<1>3. [f EXCEPT !.changed = FALSE, !.loaded[d] = pos, !.cache[d] = TrackOf(f, d, pos)].file
        = f.file
  BY <1>2 DEF DiskType
<1> QED
  BY <1>3 DEF PrepareTrack, f

LEMMA AttachSaves ==
  ASSUME FloppyInv, FloppyInv', changed, NEW d \in Drives, NEW i \in Images, AttachImage(d, i),
         ~(\E e \in Drives \ {drive} : image[e] = NoImage /\ image'[e] # NoImage)
  PROVE  Saved
<1> DEFINE k == Ejected(disk, d)
           a == [k EXCEPT !.image[d] = i, !.loaded[d] = NoPosition, !.changed = FALSE]
           im == [k.image EXCEPT ![d] = i]
           lo == [k.loaded EXCEPT ![d] = NoPosition]
<1>1. image[d] # NoImage
  <2> SUFFICES ASSUME image[d] = NoImage
               PROVE  FALSE
    OBVIOUS
  <2> DEFINE b == [disk EXCEPT !.image[d] = i, !.loaded[d] = NoPosition, !.changed = FALSE]
             bi == [image EXCEPT ![d] = i]
             bl == [loaded EXCEPT ![d] = NoPosition]
  <2>1. image' = PrepareTrack(b, drive, <<0, 0>>).image
    BY DEF AttachImage, Becomes
  <2>2. image'[d] = i
    <3>1. /\ b = [disk EXCEPT !.image = bi, !.loaded = bl, !.changed = FALSE]
          /\ bi \in [Drives -> Images \cup {NoImage}]
          /\ bl \in [Drives -> Positions \cup {NoPosition}]
          /\ bi[d] = i
      BY DEF FloppyInv, Good, DiskType, disk
    <3> HIDE DEF bi, bl
    <3>2. /\ b.image = bi
          /\ b.loaded = bl
          /\ b.cache = cache
          /\ b.changed = FALSE
          /\ b.file = file
          /\ b \in DiskType
      BY <3>1 DEF FloppyInv, Good, DiskType, disk
    <3>3. \A e \in Drives : e # d => bi[e] = image[e] /\ bl[e] = loaded[e]
      BY DEF FloppyInv, Good, DiskType, disk, bi, bl
    <3>4. bl[d] = NoPosition
      BY DEF FloppyInv, Good, DiskType, disk, bl
    <3>5. Good(b) /\ HasHome(b, drive)
      <4> HIDE DEF b
      <4> QED
        BY <3>2, <3>3, <3>4
           DEF FloppyInv, Good, FilesInPlace, BuffersInPlace, HasHome, disk
    <3>6. <<0, 0>> \in Positions
      BY TrackAssumption DEF Positions, Sides
    <3>7. PrepareTrack(b, drive, <<0, 0>>).image = bi
      <4> HIDE DEF b
      <4> QED
        BY <3>2, <3>5, <3>6, PrepareFacts DEF FloppyInv
    <3> QED
      BY <2>1, <3>1, <3>7
  <2>3. image[drive] # NoImage
    BY DEF FloppyInv, HasHome, Attached, disk
  <2> QED
    BY <2>2, <2>3, ImageAssumption
<1>2. /\ Good(k)
      /\ k.file = FlushChanges(disk, drive).file
  <2>1. Good(FlushChanges(disk, drive)) /\ Good(k)
    BY FlushFacts, EjectFacts DEF FloppyInv
  <2> DEFINE f == FlushChanges(disk, drive)
  <2> HIDE DEF f
  <2>2. [f EXCEPT !.image[d] = NoImage, !.loaded[d] = NoPosition].file = f.file
    BY <2>1 DEF Good, DiskType, f
  <2> QED
    BY <2>1, <2>2 DEF Ejected, f
<1>3. /\ a = [k EXCEPT !.image = im, !.loaded = lo, !.changed = FALSE]
      /\ im \in [Drives -> Images \cup {NoImage}]
      /\ lo \in [Drives -> Positions \cup {NoPosition}]
      /\ \A e \in Drives : e # d => im[e] = k.image[e] /\ lo[e] = k.loaded[e]
      /\ lo[d] = NoPosition
  <2> HIDE DEF k
  <2> QED
    BY <1>2 DEF Good, DiskType
<1>4. /\ a.image = im
      /\ a.loaded = lo
      /\ a.cache = k.cache
      /\ a.changed = FALSE
      /\ a.file = k.file
      /\ a \in DiskType
  <2> HIDE DEF im, lo, k
  <2> QED
    BY <1>2, <1>3 DEF Good, DiskType
<1>5. Good(a)
  <2> HIDE DEF a, k, im, lo
  <2> QED
    BY <1>2, <1>3, <1>4 DEF Good, FilesInPlace, BuffersInPlace
<1>6. PrepareTrack(a, drive, <<0, 0>>).file = k.file
  <2>1. <<0, 0>> \in Positions
    BY TrackAssumption DEF Positions, Sides
  <2> HIDE DEF a
  <2> QED
    BY <1>4, <1>5, <2>1, PrepareKeepsFiles DEF FloppyInv
<1>7. file' = FlushChanges(disk, drive).file
  BY <1>1, <1>2, <1>6 DEF AttachImage, Becomes
<1> QED
  BY <1>7, FlushSaves DEF FloppyInv, SavedIn, Saved, disk

LEMMA DetachSaves ==
  ASSUME FloppyInv, changed, NEW d \in Drives, DetachImage(d)
  PROVE  Saved
<1> DEFINE f == FlushChanges(disk, drive)
<1>1. Good(f)
  BY FlushFacts DEF FloppyInv
<1> HIDE DEF f
<1>2. [f EXCEPT !.image[d] = NoImage, !.loaded[d] = NoPosition].file = f.file
  BY <1>1 DEF Good, DiskType
<1>3. file' = f.file
  BY <1>2 DEF DetachImage, Becomes, Ejected, f
<1> QED
  BY <1>3, FlushSaves DEF FloppyInv, SavedIn, Saved, disk, f

LEMMA CommandSaves ==
  ASSUME FloppyInv, FloppyInv', changed, ~changed',
         NEW d \in Selections, NEW up \in Sides, NEW step, SetCommand(d, up, step)
  PROVE  Saved
<1> DEFINE f == FlushChanges(disk, drive)
           pos == <<track', side'>>
<1>1. Good(f) /\ f.changed = FALSE
  BY FlushFacts DEF FloppyInv
<1>2. drive # NoDrive
  BY DEF FloppyInv, HasHome, Attached, disk
<1>3. pos \in Positions
  BY DEF FloppyInv, Positions
<1>4. file' = f.file
  <2>1. CASE d = drive
    <3>1. ~Becomes(disk)
      BY DEF Becomes, disk
    <3>2. Becomes(PrepareTrack(disk, d, pos))
      BY <1>2, <2>1, <3>1 DEF SetCommand
    <3>3. PrepareTrack(disk, d, pos).file = f.file
      BY <1>3, <2>1, <3>1, <3>2, PrepareFlushes DEF FloppyInv
    <3> QED
      BY <3>2, <3>3 DEF Becomes
  <2>2. CASE d # drive
    <3> HIDE DEF f
    <3>1. PrepareTrack(f, d, pos).file = f.file
      BY <1>1, <1>3, PrepareKeepsFiles
    <3> QED
      BY <2>2, <3>1 DEF SetCommand, Becomes, f
  <2> QED
    BY <2>1, <2>2
<1> QED
  BY <1>4, FlushSaves DEF FloppyInv, SavedIn, Saved, disk

(* When m_trackchanged goes down the data is in the image, unless it could  *)
(* not be decoded or the image not be written, for every operation but the  *)
(* attaching of an image to another, empty drive (Floppy.cpp:76-252 and     *)
(* 404-526).                                                                *)
THEOREM ChangesReachFile == FloppySpec => ChangesSavedUnlessAttaching
<1>1. ASSUME FloppyInv, FloppyInv', [FloppyNext]_floppyVars, changed, ~changed',
             ~(\E d \in Drives \ {drive} : image[d] = NoImage /\ image'[d] # NoImage)
      PROVE  Saved
  <2>1. CASE ControllerReset
    <3> DEFINE f == FlushChanges(disk, drive)
    <3>1. Good(f)
      BY <1>1, FlushFacts DEF FloppyInv
    <3> HIDE DEF f
    <3>2. [f EXCEPT !.changed = FALSE].file = f.file
      BY <3>1 DEF Good, DiskType
    <3>3. file' = f.file
      BY <2>1, <3>2 DEF ControllerReset, Becomes, f
    <3> QED
      BY <1>1, <3>3, FlushSaves DEF FloppyInv, SavedIn, Saved, disk, f
  <2>2. ASSUME NEW d \in Drives, NEW i \in Images, AttachImage(d, i)
        PROVE  Saved
    BY <1>1, <2>2, AttachSaves
  <2>3. ASSUME NEW d \in Drives, DetachImage(d)
        PROVE  Saved
    BY <1>1, <2>3, DetachSaves
  <2>4. ASSUME NEW d \in Drives \cup {NoDrive}, NEW up \in Sides,
               NEW step \in Steps, SetCommand(d, up, step)
        PROVE  Saved
    BY <1>1, <2>4, CommandSaves DEF Selections
  <2>5. ASSUME NEW t \in Texts \cup {Garbled}, WriteWord(t)
        PROVE  FALSE
    BY <1>1, <2>5 DEF WriteWord
  <2>6. CASE UNCHANGED floppyVars
    BY <1>1, <2>6 DEF floppyVars, diskVars
  <2> QED
    BY <1>1, <2>1, <2>2, <2>3, <2>4, <2>5, <2>6 DEF FloppyNext
<1> QED
  BY <1>1, InvAlways, PTL DEF FloppySpec, ChangesSavedUnlessAttaching

-----------------------------------------------------------------------------
(* The refinement: the store's pending set is the selected drive's track    *)
(* while m_trackchanged is set.                                             *)
Unsaved == {[image |-> image[d], place |-> loaded[d], content |-> cache[d]] :
              d \in {e \in Drives : changed /\ e = drive}}

LEMMA UnsavedFacts ==
  ASSUME FloppyInv
  PROVE  /\ ~changed => Unsaved = {}
         /\ changed => Unsaved = {[image |-> image[drive], place |-> loaded[drive],
                                   content |-> cache[drive]]}
<1>1. changed => drive \in Drives
  BY DEF FloppyInv, HasHome, Attached, Selections, disk
<1> QED
  BY <1>1 DEF Unsaved

LEMMA SettledIsStoreStep ==
  ASSUME FloppyInv, FloppyInv', Settled
  PROVE  [Store!StoreNext]_<<file, Unsaved>>
<1>1. CASE disk' = disk /\ drive' = drive
  BY <1>1 DEF disk, Unsaved
<1>2. CASE Settles(disk, drive, disk')
  <2>1. Unsaved' = {}
    <3>1. ~changed'
      BY <1>2 DEF Settles, disk
    <3> QED
      BY <3>1 DEF Unsaved
  <2>2. CASE file' = file
    BY <2>1, <2>2 DEF Store!StoreNext, Store!Lose, Unsaved
  <2>3. CASE changed /\ file' = [file EXCEPT ![image[drive]][loaded[drive]] = cache[drive]]
    <3>1. Unsaved = {[image |-> image[drive], place |-> loaded[drive], content |-> cache[drive]]}
      BY <2>3, UnsavedFacts
    <3>2. \E p \in Unsaved : file' = [file EXCEPT ![p.image][p.place] = p.content]
      BY <2>3, <3>1
    <3> QED
      BY <2>1, <3>2 DEF Store!StoreNext, Store!Save, Unsaved
  <2> QED
    BY <1>2, <2>2, <2>3 DEF Settles, disk
<1> QED
  BY <1>1, <1>2 DEF Settled

LEMMA WriteIsChange ==
  ASSUME FloppyInv, FloppyInv', NEW t \in Texts \cup {Garbled}, WriteWord(t)
  PROVE  Store!StoreNext
<1>1. /\ changed' = TRUE
      /\ UNCHANGED <<drive, image, loaded, file>>
  BY DEF WriteWord
<1>2. drive \in Drives /\ image[drive] # NoImage
  BY DEF WriteWord, Attached, FloppyInv, Selections, disk
<1>3. image[drive] \in Images
  BY <1>2 DEF FloppyInv, Good, DiskType, disk
<1>4. loaded[drive] \in Positions
  BY <1>2, DriveAssumption DEF FloppyInv, HeadOverLoadedTrack, Attached, disk, Positions
<1>5. cache'[drive] \in Contents
  BY <1>2 DEF FloppyInv, Good, DiskType, disk
<1>6. PICK u \in Store!Unsaved :
        u = [image |-> image[drive], place |-> loaded[drive], content |-> cache'[drive]]
  BY <1>3, <1>4, <1>5 DEF Store!Unsaved
<1>7. Unsaved' = {u}
  BY <1>1, <1>2, <1>6 DEF Unsaved
<1>8. \A p \in Unsaved : p.image = u.image /\ p.place = u.place
  BY <1>6 DEF Unsaved
<1>9. Store!Change(u)
  BY <1>1, <1>7, <1>8 DEF Store!Change, Unsaved
<1> QED
  BY <1>6, <1>9 DEF Store!StoreNext

LEMMA StepIsStoreStep ==
  ASSUME FloppyInv, FloppyInv', [FloppyNext]_floppyVars
  PROVE  [Store!StoreNext]_<<file, Unsaved>>
<1>1. CASE ControllerReset
  BY <1>1, StepReset, SettledIsStoreStep
<1>2. ASSUME NEW d \in Drives, NEW i \in Images, AttachImage(d, i)
      PROVE  [Store!StoreNext]_<<file, Unsaved>>
  BY <1>2, StepAttach, SettledIsStoreStep
<1>3. ASSUME NEW d \in Drives, DetachImage(d)
      PROVE  [Store!StoreNext]_<<file, Unsaved>>
  BY <1>3, StepDetach, SettledIsStoreStep
<1>4. ASSUME NEW d \in Drives \cup {NoDrive}, NEW up \in Sides,
             NEW step \in Steps, SetCommand(d, up, step)
      PROVE  [Store!StoreNext]_<<file, Unsaved>>
  BY <1>4, StepCommand, SettledIsStoreStep DEF Selections
<1>5. ASSUME NEW t \in Texts \cup {Garbled}, WriteWord(t)
      PROVE  [Store!StoreNext]_<<file, Unsaved>>
  BY <1>5, WriteIsChange
<1>6. CASE UNCHANGED floppyVars
  BY <1>6 DEF floppyVars, diskVars, Unsaved
<1> QED
  BY <1>1, <1>2, <1>3, <1>4, <1>5, <1>6 DEF FloppyNext

(* The controller with its write-back cache and its one dirty flag never    *)
(* has more than one unsaved track, saves it in its own place or loses it   *)
(* as a whole, and changes nothing else in any image.                       *)
THEOREM FloppyImplementsStore == FloppySpec => StoreSpec
<1>1. FloppyInit => Store!StoreInit
  <2>1. FloppyInit => FloppyInv
    BY InvInit
  <2>2. FloppyInit => file \in [Images -> [Positions -> Contents]] /\ Unsaved = {}
    BY <2>1, UnsavedFacts DEF FloppyInv, Good, DiskType, disk, FloppyInit
  <2> QED
    BY <2>2 DEF Store!StoreInit, Unsaved
<1>2. FloppyInv /\ FloppyInv' /\ [FloppyNext]_floppyVars => [Store!StoreNext]_(Store!storeVars)
  BY StepIsStoreStep DEF Store!storeVars, Unsaved
<1> QED
  BY <1>1, <1>2, InvAlways, PTL DEF FloppySpec, StoreSpec, Store!StoreSpec
=============================================================================
