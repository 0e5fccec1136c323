SPECIFICATION StreamSpec
CONSTANTS
  Drives = {"d0"}
  NoDrive = "none"
  Images = {"rw"}
  NoImage = "none"
  ReadOnly = {}
  LastTrack = 0
  Steps = {"none"}
  Texts = {"blank"}
  Blank = "blank"
  Garbled = "garbled"
  Words = {"w1", "w2"}
  Crc = "crc"
  NoWord = "none"
  TrackWords = 2
  SyncWords = {0}
INVARIANTS StreamTypeOK HandshakeOK
PROPERTIES QueueSpec SearchEnds
