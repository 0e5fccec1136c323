SPECIFICATION FloppySpec
CONSTANTS
  Drives = {"d0", "d1"}
  NoDrive = "none"
  Images = {"rw"}
  NoImage = "none"
  ReadOnly = {}
  LastTrack = 0
  Steps = {"none"}
  Texts = {"blank", "new"}
  Blank = "blank"
  Garbled = "garbled"
PROPERTY ChangesSaved
