SPECIFICATION FloppySpec
CONSTANTS
  Drives = {"d0", "d1"}
  NoDrive = "none"
  Images = {"rw"}
  NoImage = "none"
  ReadOnly = {}
  LastTrack = 1
  Steps = {"none", "in", "out"}
  Texts = {"blank", "new"}
  Blank = "blank"
  Garbled = "garbled"
INVARIANTS FloppyTypeOK TrackAtHome DataInPlace
PROPERTIES ChangesSavedUnlessAttaching StoreSpec
