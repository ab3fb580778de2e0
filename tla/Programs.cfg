SPECIFICATION Spec
CONSTANTS
  None = None
  LessonThreads = {"t1", "t2", "t3"}
  ProcessOf <- MCProcessOf
  Size = 3
  Writing <- MCWriting
  IoctlText = "c"
  Prefix = 1
  Nul = "nul"
  Listener = listener
  Nobody = nobody
  Connections = {k1, k2, k3}
  MaxDescriptors = 2
  MaxPieces = 3
  RecvPieces = 2
  Room = 2
  Banners <- MCBanners
  Replies <- MCReplies
  EncodingNames = {"cp1251", "windows-1251", "Windows-1251", "koi8-r", "ISO8859-5"}
  Texts <- MCTexts
  Width = 4
  ByteBits = 2
  Generator <- MCGenerator
  MaxFile = 3
  SigSize = 1
  EocdSize = 2
  EocdStruct = 3
  CdfhSize = 3
  CdfhStruct = 6
  LfhSize = 2
  MaxComment = 2
  MaxSize = 13
  MaxMembers = 2
  WordSize = 16
  Variants = {"asm", "c", "orig"}
  Values <- MCValues
  Cells <- MCCells
INVARIANTS NothingStays UndoesOnlyWhatWasDone WithinBuffer ReadsOneMessage
           OutputRight ConvertsLetters ChecksumRight ArchiveSearched ListsRight
PROPERTIES RequestsAnswered
CONSTRAINT UntilOverrun
CHECK_DEADLOCK FALSE
