------------------------------ MODULE Programs ------------------------------
(* The small programs of the repository, each on its own: the first step   *)
(* chooses which of them runs, and the others stay in their initial state. *)
EXTENDS Integers, Sequences

CONSTANTS
  None,                                          \* "no program yet"
  LessonThreads, ProcessOf, Size, Writing,       \* of the modules below
  IoctlText, Prefix, Nul,
  Listener, Nobody, Connections, MaxDescriptors, MaxPieces, RecvPieces, Room,
  Banners, Replies,
  EncodingNames, Texts,
  Width, ByteBits, Generator, MaxFile,
  SigSize, EocdSize, EocdStruct, CdfhSize, CdfhStruct, LfhSize,
  MaxComment, MaxSize, MaxMembers, WordSize,
  Variants, Values, Cells

(* kernel_buffer has 256 bytes, "[IOCTL] " has 8, and %s writes no NUL.    *)
ASSUME LessonAssumption ==
  Size \in Nat \ {0, 1} /\ Prefix \in 0 .. Size - 1 /\ IoctlText # Nul
(* The sizes of the records, 4, 22, 46 and 30, and of the structures, 30   *)
(* and 70; every size of a file is a size_t.                               *)
ASSUME ZipAssumption ==
  /\ {SigSize, EocdSize, EocdStruct, CdfhSize, CdfhStruct, LfhSize} \subseteq Nat \ {0}
  /\ MaxComment \in Nat /\ MaxSize \in Nat /\ WordSize \in Nat /\ MaxSize < WordSize
  /\ SigSize <= EocdSize /\ EocdStruct <= EocdSize + CdfhSize
  /\ CdfhStruct <= EocdSize + CdfhSize + LfhSize
(* malloc returns no null pointer.                                         *)
ASSUME ListAssumption ==
  Values \in Seq(Nat) /\ 0 \notin Cells /\ Variants \subseteq {"asm", "c", "orig"}
ASSUME TextsAssumption == Texts \subseteq Seq(0 .. 255)
(* A byte is named by a string.                                            *)
ASSUME RepliesAssumption == Banners \cup Replies \subseteq Seq(STRING)
(* A byte is no longer than the register, and the highest coefficient is   *)
(* one.                                                                    *)
ASSUME ChecksumAssumption ==
  /\ Width \in Nat /\ ByteBits \in 1 .. Width
  /\ Generator \in [1 .. Width + 1 -> {0, 1}] /\ Generator[1] = 1

VARIABLE program

(* Loading and unloading the drivers.                                      *)
VARIABLES driver, phase, step, ret, held, misused, misreported
Life == INSTANCE RingLifecycle
lifeVars == <<driver, phase, step, ret, held, misused, misreported>>

(* The lesson's device.                                                    *)
VARIABLES holders, position, kernel_buffer, buffer_size, at, call, alone, overran, whole
Lesson == INSTANCE LessonModule
lessonVars == <<holders, position, kernel_buffer, buffer_size, at, call, alone, overran, whole>>

(* The load-test server.                                                   *)
VARIABLES conn, inbox, sent, unread, closed, reset, edge, events, serving, owed, outrun, alive
Rps == INSTANCE RpsServer
rpsVars == <<conn, inbox, sent, unread, closed, reset, edge, events, serving, owed, outrun, alive>>

(* The ASCII art client.                                                   *)
VARIABLES stage, inflow, reply, lines_to_skip, printed, spoiled
Telnet == INSTANCE AsciiArt
artVars == <<stage, inflow, reply, lines_to_skip, printed, spoiled>>

(* The text converter.                                                     *)
VARIABLES job, asked, enc, text, source, output
Conv == INSTANCE Converter
convVars == <<job, asked, enc, text, source, output>>

(* The checksum.                                                           *)
VARIABLES crcStage, data, st_size, pos, crc, changed
Check == INSTANCE Crc32
crcVars == <<crcStage, data, st_size, pos, crc, changed>>

(* The searches for an archive's records.                                  *)
VARIABLES search, file_size, eocds, cdfhs, lfhs, at_byte, eocd_at, cdfh_at, found, find_eocd_at
Zip == INSTANCE ZipSearch
zipVars == <<search, file_size, eocds, cdfhs, lfhs, at_byte, eocd_at, cdfh_at, found, find_eocd_at>>

(* The list in assembly and its two relatives.                             *)
VARIABLES variant, job_at, left, heap, list, odd, tail, node, shown
Lists == INSTANCE ListTools
listVars == <<variant, job_at, left, heap, list, odd, tail, node, shown>>

Init ==
  /\ program = None
  /\ Life!Init /\ Lesson!Init /\ Rps!Init /\ Telnet!Init
  /\ Conv!Init /\ Check!Init /\ Zip!Init /\ Lists!Init

Runs(p) == program \in {None, p} /\ program' = p

LifeNext == Runs("life") /\ Life!Next
  /\ UNCHANGED <<lessonVars, rpsVars, artVars, convVars, crcVars, zipVars, listVars>>
LessonNext == Runs("lesson") /\ Lesson!Next
  /\ UNCHANGED <<lifeVars, rpsVars, artVars, convVars, crcVars, zipVars, listVars>>
RpsNext == Runs("rps") /\ Rps!Next
  /\ UNCHANGED <<lifeVars, lessonVars, artVars, convVars, crcVars, zipVars, listVars>>
ArtNext == Runs("art") /\ Telnet!Next
  /\ UNCHANGED <<lifeVars, lessonVars, rpsVars, convVars, crcVars, zipVars, listVars>>
ConvNext == Runs("convert") /\ Conv!Next
  /\ UNCHANGED <<lifeVars, lessonVars, rpsVars, artVars, crcVars, zipVars, listVars>>
CrcNext == Runs("crc") /\ Check!Next
  /\ UNCHANGED <<lifeVars, lessonVars, rpsVars, artVars, convVars, zipVars, listVars>>
ZipNext == Runs("zip") /\ Zip!Next
  /\ UNCHANGED <<lifeVars, lessonVars, rpsVars, artVars, convVars, crcVars, listVars>>
ListNext == Runs("list") /\ Lists!Next
  /\ UNCHANGED <<lifeVars, lessonVars, rpsVars, artVars, convVars, crcVars, zipVars>>

Next == LifeNext \/ LessonNext \/ RpsNext \/ ArtNext \/ ConvNext \/ CrcNext \/ ZipNext \/ ListNext
vars == <<program, lifeVars, lessonVars, rpsVars, artVars, convVars, crcVars, zipVars, listVars>>

RpsWorker == Runs("rps") /\ Rps!run_worker
  /\ UNCHANGED <<lifeVars, lessonVars, artVars, convVars, crcVars, zipVars, listVars>>

Spec == Init /\ [][Next]_vars /\ WF_vars(RpsWorker)

NothingStays == Life!NothingStays
UndoesOnlyWhatWasDone == Life!UndoesOnlyWhatWasDone
WithinBuffer == Lesson!WithinBuffer
ReadsOneMessage == Lesson!ReadsOneMessage
RequestsAnswered == Rps!RequestsAnswered
OutputRight == Telnet!OutputRight
ConvertsLetters == Conv!ConvertsLetters
ChecksumRight == Check!ChecksumRight
ArchiveSearched == Zip!ArchiveSearched
ListsRight == Lists!ListsRight
=============================================================================
