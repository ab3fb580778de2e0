---------------------------- MODULE ProgramsProofs ----------------------------
(***************************************************************************)
(* The small programs of the repository, for all values of their constants.*)
(***************************************************************************)
EXTENDS Programs, FiniteSetTheorems, SequenceTheorems, WellFoundedInduction, TLAPS

(* A step is one of a program's own, or leaves its variables alone.        *)
LEMMA OneRuns ==
  ASSUME [Next]_vars
  PROVE  /\ Life!Next \/ UNCHANGED lifeVars
         /\ Lesson!Next \/ UNCHANGED lessonVars
         /\ Rps!Next \/ UNCHANGED rpsVars
         /\ Telnet!Next \/ UNCHANGED artVars
         /\ Conv!Next \/ UNCHANGED convVars
         /\ Check!Next \/ UNCHANGED crcVars
         /\ Zip!Next \/ UNCHANGED zipVars
         /\ Lists!Next \/ UNCHANGED listVars
<1>1. CASE LifeNext \/ LessonNext \/ RpsNext \/ ArtNext
  BY <1>1 DEF LifeNext, LessonNext, RpsNext, ArtNext
<1>2. CASE ConvNext \/ CrcNext \/ ZipNext \/ ListNext
  BY <1>2 DEF ConvNext, CrcNext, ZipNext, ListNext
<1>3. CASE UNCHANGED vars
  BY <1>3 DEF vars
<1> QED
  BY <1>1, <1>2, <1>3 DEF Next

-----------------------------------------------------------------------------
(* Loading and unloading the drivers.                                      *)

(* The registrations up to the n-th, and the place of the device, where    *)
(* exit begins.                                                            *)
Made(d, n) == {Life!Order[d][i] : i \in 1 .. n}
Last(d) == IF d = "ring" THEN 6 ELSE 4
Device(d) == IF d = "ring" THEN 5 ELSE 4

(* While init runs, what is registered is what comes before its step.      *)
InitInv ==
  phase = "init" => /\ step \in 1 .. Last(driver) /\ held = Made(driver, step - 1)
                    /\ ret = "ok" /\ misused = {} /\ ~misreported

(* While it unwinds, what comes up to its step; it never meets the device, *)
(* as the registration behind the device's does not unwind.                *)
UnwindInv ==
  phase = "unwind" => /\ step \in 0 .. Device(driver) - 1 /\ held = Made(driver, step) /\ misused = {}
                      /\ ret \in {"ok", "error"} /\ (ret = "ok" <=> misreported)

(* A loaded driver has everything, the sysfs file perhaps; one that        *)
(* reported success after a failure has nothing.                           *)
LiveInv ==
  phase = "live" =>
    \/ misreported /\ held = {}
    \/ ~misreported /\ misused = {} /\ Made(driver, Device(driver)) \subseteq held /\ held \subseteq Made(driver, Device(driver)) \cup {"file"}

ExitInv ==
  phase = "exit" =>
    /\ step \in 0 .. Device(driver)
    /\ \/ misreported /\ held = {}
       \/ /\ ~misreported /\ misused = {} /\ Made(driver, step) \subseteq held
          /\ held \subseteq Made(driver, step) \cup IF step = Device(driver) THEN {"file"} ELSE {}

LifeInv ==
  /\ driver \in {"ring", "lesson"} /\ phase \in {"absent", "init", "unwind", "live", "exit"}
  /\ misreported \in BOOLEAN /\ (misreported => driver = "ring")
  /\ Life!NothingStays /\ (phase = "absent" => misused = {} \/ misreported)
  /\ InitInv /\ UnwindInv /\ LiveInv /\ ExitInv

(* The registrations of a driver, one by one.                              *)
LEMMA Registrations ==
  ASSUME driver \in {"ring", "lesson"}
  PROVE  /\ Len(Life!Order[driver]) = Last(driver) /\ DOMAIN Life!Order[driver] = 1 .. Last(driver)
         /\ driver = "ring" => /\ Life!Order[driver][1] = "fifo" /\ Life!Order[driver][2] = "region"
                               /\ Life!Order[driver][3] = "cdev" /\ Life!Order[driver][4] = "class"
                               /\ Life!Order[driver][5] = "device" /\ Life!Order[driver][6] = "file"
         /\ driver = "lesson" => /\ Life!Order[driver][1] = "region" /\ Life!Order[driver][2] = "cdev"
                                 /\ Life!Order[driver][3] = "class" /\ Life!Order[driver][4] = "device"
<1>1. CASE driver = "ring"
  <2>1. Life!Order[driver] = <<"fifo", "region", "cdev", "class", "device", "file">>
    BY <1>1 DEF Life!Order
  <2>2. QED
    BY <1>1, <2>1 DEF Last
<1>2. CASE driver = "lesson"
  <2>1. Life!Order[driver] = <<"region", "cdev", "class", "device">>
    BY <1>2 DEF Life!Order
  <2>2. QED
    BY <1>2, <2>1 DEF Last
<1>3. QED
  BY <1>1, <1>2

(* No registration is made twice, so undoing the last one leaves the rest. *)
LEMMA LessOne ==
  ASSUME driver \in {"ring", "lesson"}, NEW n \in 1 .. Last(driver)
  PROVE  /\ Made(driver, n) = Made(driver, n - 1) \cup {Life!Order[driver][n]}
         /\ Life!Order[driver][n] \notin Made(driver, n - 1)
         /\ Life!Order[driver][n] = "device" <=> n = Device(driver)
         /\ Life!Order[driver][n] = "file" <=> driver = "ring" /\ n = 6
         /\ "file" \in Made(driver, n) <=> driver = "ring" /\ n = 6
<1>1. CASE driver = "ring"
  BY <1>1, Registrations, SMTT(30) DEF Made, Last, Device
<1>2. CASE driver = "lesson"
  BY <1>2, Registrations, SMTT(30) DEF Made, Last, Device
<1>3. QED
  BY <1>1, <1>2

LEMMA NoneMade == \A d : Made(d, 0) = {}
  BY DEF Made

LEMMA LoadKeeps == LifeInv /\ Life!Load => LifeInv'
<1> SUFFICES ASSUME LifeInv, Life!Load PROVE LifeInv'
  OBVIOUS
<1>1. driver' \in {"ring", "lesson"}
  BY DEF Life!Load, Life!Order
<1>2. step' - 1 = 0 /\ step' \in 1 .. Last(driver')
  BY DEF Life!Load, Last
<1>3. held' = Made(driver', step' - 1)
  BY <1>2, NoneMade DEF LifeInv, Life!Load, Life!NothingStays
<1>4. InitInv'
  BY <1>2, <1>3 DEF Life!Load, InitInv
<1>5. QED
  BY <1>1, <1>4 DEF LifeInv, Life!Load, Life!NothingStays, UnwindInv, LiveInv, ExitInv

LEMMA RegisterKeeps == LifeInv /\ Life!Register => LifeInv'
<1> SUFFICES ASSUME LifeInv, Life!Register PROVE LifeInv'
  OBVIOUS
<1>1. step \in 1 .. Last(driver) /\ driver \in {"ring", "lesson"} /\ held = Made(driver, step - 1)
  BY DEF LifeInv, InitInv, Life!Register
<1>2. held' = Made(driver, step) /\ Len(Life!Order[driver]) = Last(driver)
  BY <1>1, LessOne, Registrations DEF Life!Register, Life!Registration
<1>3. CASE step = Last(driver)
  <2>1. Made(driver, step) = Made(driver, Device(driver)) \cup (IF driver = "ring" THEN {"file"} ELSE {})
    BY <1>1, <1>3, LessOne, Registrations DEF Last, Device
  <2>2. LiveInv'
    BY <1>2, <2>1 DEF Life!Register, LifeInv, InitInv, LiveInv, Device
  <2>3. QED
    BY <1>2, <1>3, <2>2 DEF Life!Register, LifeInv, Life!NothingStays, InitInv, UnwindInv, ExitInv
<1>4. CASE step # Last(driver)
  <2>1. InitInv'
    BY <1>1, <1>2, <1>4 DEF Life!Register, LifeInv, InitInv, Last
  <2>2. QED
    BY <1>2, <1>4, <2>1 DEF Life!Register, LifeInv, Life!NothingStays, UnwindInv, LiveInv, ExitInv
<1>5. QED
  BY <1>3, <1>4

(* A failing registration: those before it are what there is.              *)
LEMMA RegisterFailsKeeps == LifeInv /\ Life!RegisterFails => LifeInv'
<1> SUFFICES ASSUME LifeInv, Life!RegisterFails PROVE LifeInv'
  OBVIOUS
<1>1. /\ step \in 1 .. Last(driver) /\ driver \in {"ring", "lesson"} /\ held = Made(driver, step - 1)
      /\ ret = "ok" /\ misused = {} /\ ~misreported
  BY DEF LifeInv, InitInv, Life!RegisterFails
<1>2. Life!Registration = "file" <=> driver = "ring" /\ step = 6
  BY <1>1, LessOne DEF Life!Registration
<1>3. CASE Life!Registration = "file"
  <2>1. step - 1 = Device(driver)
    BY <1>2, <1>3 DEF Device
  <2>2. LiveInv'
    BY <1>1, <1>3, <2>1 DEF Life!RegisterFails, LiveInv, Device
  <2>3. QED
    BY <1>1, <1>3, <2>2 DEF Life!RegisterFails, LifeInv, Life!NothingStays, InitInv, UnwindInv, ExitInv
<1>4. CASE Life!Registration # "file"
  <2>1. step - 1 \in 0 .. Device(driver) - 1
    BY <1>1, <1>2, <1>4 DEF Last, Device
  <2>2. /\ phase' = "unwind" /\ step' = step - 1 /\ ret' \in {"ok", "error"}
        /\ (ret' = "ok" <=> misreported') /\ misreported' \in BOOLEAN
        /\ (misreported' => driver = "ring") /\ UNCHANGED <<driver, held, misused>>
    BY <1>1, <1>4 DEF Life!RegisterFails
  <2>3. UnwindInv'
    BY <1>1, <2>1, <2>2 DEF UnwindInv, Device
  <2>4. QED
    BY <1>1, <2>2, <2>3 DEF LifeInv, Life!NothingStays, InitInv, LiveInv, ExitInv
<1>5. QED
  BY <1>3, <1>4

LEMMA UnwindKeeps == LifeInv /\ Life!Unwind => LifeInv'
<1> SUFFICES ASSUME LifeInv, Life!Unwind PROVE LifeInv'
  OBVIOUS
<1>1. /\ step \in 0 .. Device(driver) - 1 /\ driver \in {"ring", "lesson"} /\ held = Made(driver, step)
      /\ misused = {} /\ ret \in {"ok", "error"} /\ (ret = "ok" <=> misreported)
  BY DEF LifeInv, UnwindInv, Life!Unwind
<1>2. CASE step > 0
  <2>1. step \in 1 .. Last(driver)
    BY <1>1, <1>2 DEF Last, Device
  <2>2. Life!Registration \in held /\ Life!Registration # "device" /\ held \ {Life!Registration} = Made(driver, step - 1)
    BY <1>1, <2>1, LessOne DEF Life!Registration
  <2>3. held' = Made(driver, step - 1) /\ misused' = {}
    BY <1>1, <1>2, <2>2 DEF Life!Unwind, Life!Undo
  <2>4. UnwindInv'
    BY <1>1, <1>2, <2>3 DEF Life!Unwind, UnwindInv, Device
  <2>5. QED
    BY <1>1, <1>2, <2>3, <2>4 DEF Life!Unwind, LifeInv, Life!NothingStays, InitInv, LiveInv, ExitInv
<1>3. CASE step = 0
  <2>1. held' = {} /\ misused' = {}
    BY <1>1, <1>3, NoneMade DEF Life!Unwind
  <2>2. QED
    BY <1>1, <1>3, <2>1 DEF Life!Unwind, LifeInv, Life!NothingStays, InitInv, UnwindInv, LiveInv, ExitInv
<1>4. QED
  BY <1>1, <1>2, <1>3 DEF Device

LEMMA StartExitKeeps == LifeInv /\ Life!StartExit => LifeInv'
<1> SUFFICES ASSUME LifeInv, Life!StartExit PROVE LifeInv'
  OBVIOUS
<1>1. driver \in {"ring", "lesson"}
  BY DEF LifeInv
<1>2. Device(driver) \in 1 .. Last(driver) /\ Device(driver) \in Nat
  BY <1>1 DEF Device, Last
<1>3. \A i \in DOMAIN Life!Order[driver] : Life!Order[driver][i] = "device" <=> i = Device(driver)
  BY <1>1, LessOne, Registrations
<1>4. step' = Device(driver)
  BY <1>1, <1>2, <1>3, Registrations DEF Life!StartExit
<1>5. ExitInv'
  <2>1. step' \in 0 .. Device(driver)
    BY <1>2, <1>4
  <2>2. /\ UNCHANGED <<driver, held, misused, misreported>>
        /\ \/ misreported /\ held = {}
           \/ /\ ~misreported /\ misused = {} /\ Made(driver, step') \subseteq held
              /\ held \subseteq Made(driver, step') \cup {"file"}
    BY <1>4 DEF Life!StartExit, LifeInv, LiveInv
  <2>3. QED
    BY <1>4, <2>1, <2>2 DEF ExitInv
<1>6. QED
  BY <1>5 DEF Life!StartExit, LifeInv, Life!NothingStays, InitInv, UnwindInv, LiveInv

LEMMA ContinueExitKeeps == LifeInv /\ Life!ContinueExit => LifeInv'
<1> SUFFICES ASSUME LifeInv, Life!ContinueExit PROVE LifeInv'
  OBVIOUS
<1>1. driver \in {"ring", "lesson"} /\ step \in 0 .. Device(driver) /\ phase = "exit"
  BY DEF LifeInv, ExitInv, Life!ContinueExit
<1>2. CASE step > 0
  <2>1. step \in 1 .. Last(driver) /\ step - 1 \in 0 .. Device(driver) /\ step - 1 # Device(driver)
    BY <1>1, <1>2 DEF Last, Device
  <2>2. /\ Made(driver, step) = Made(driver, step - 1) \cup {Life!Registration} /\ Life!Registration \notin Made(driver, step - 1)
        /\ Life!Registration = "device" <=> step = Device(driver)
        /\ "file" \notin Made(driver, step - 1)
    <3>1. step - 1 = 0 \/ step - 1 \in 1 .. Last(driver)
      BY <1>1, <2>1 DEF Last
    <3>2. "file" \notin Made(driver, step - 1)
      BY <1>1, <2>1, <3>1, LessOne, NoneMade DEF Device
    <3>3. QED
      BY <1>1, <2>1, <3>2, LessOne DEF Life!Registration
  <2>3. /\ held' = held \ ({Life!Registration} \cup IF Life!Registration = "device" THEN {"file"} ELSE {})
        /\ misused' = misused \cup ({Life!Registration} \ held)
        /\ step' = step - 1 /\ UNCHANGED <<phase, driver, ret, misreported>>
    BY <1>2 DEF Life!ContinueExit, Life!Undo
  <2>4. CASE misreported
    <3>1. held' = {}
      BY <1>1, <2>3, <2>4 DEF LifeInv, ExitInv
    <3>2. QED
      BY <1>1, <2>1, <2>3, <2>4, <3>1 DEF LifeInv, Life!NothingStays, InitInv, UnwindInv, LiveInv, ExitInv, Device
  <2>5. CASE ~misreported
    <3>1. /\ misused = {} /\ Made(driver, step) \subseteq held
          /\ held \subseteq Made(driver, step) \cup IF step = Device(driver) THEN {"file"} ELSE {}
      BY <1>1, <2>5 DEF LifeInv, ExitInv
    <3>2. misused' = {}
      BY <2>2, <2>3, <3>1
    <3>3. Made(driver, step - 1) \subseteq held' /\ held' \subseteq Made(driver, step - 1)
      BY <2>2, <2>3, <3>1
    <3>4. ExitInv'
      BY <2>1, <2>3, <2>5, <3>2, <3>3 DEF ExitInv, Device
    <3>5. QED
      BY <1>1, <2>3, <2>5, <3>2, <3>4 DEF LifeInv, Life!NothingStays, InitInv, UnwindInv, LiveInv
  <2>6. QED
    BY <2>4, <2>5
<1>3. CASE step = 0
  <2>1. held = {} /\ (misused = {} \/ misreported)
    BY <1>1, <1>3, NoneMade DEF LifeInv, ExitInv, Device
  <2>2. QED
    BY <1>1, <1>3, <2>1 DEF Life!ContinueExit, LifeInv, Life!NothingStays, InitInv, UnwindInv, LiveInv, ExitInv
<1>4. QED
  BY <1>1, <1>2, <1>3 DEF Device

LEMMA LifeStep == LifeInv /\ [Next]_vars => LifeInv'
<1> SUFFICES ASSUME LifeInv, [Next]_vars PROVE LifeInv'
  OBVIOUS
<1>1. CASE Life!Next
  BY <1>1, LoadKeeps, RegisterKeeps, RegisterFailsKeeps, UnwindKeeps, StartExitKeeps,
     ContinueExitKeeps DEF Life!Next
<1>2. CASE UNCHANGED lifeVars
  BY <1>2 DEF lifeVars, LifeInv, Life!NothingStays, InitInv, UnwindInv, LiveInv, ExitInv, Made, Last, Device
<1> QED
  BY <1>1, <1>2, OneRuns

LEMMA LifeInit == Init => LifeInv
  BY DEF Init, Life!Init, LifeInv, Life!NothingStays, InitInv, UnwindInv, LiveInv, ExitInv

(* Whatever fails, and through any number of loads and unloads: a driver   *)
(* that is not loaded has nothing registered (module_ring.c:241-253,       *)
(* lesson_module.c:92-132).                                                *)
THEOREM NothingEverStays == Spec => []NothingStays
<1>1. LifeInv => NothingStays
  BY DEF LifeInv, NothingStays
<1> QED
  BY <1>1, LifeInit, LifeStep, PTL DEF Spec

(* Only registrations that were made are undone, except after a load of    *)
(* the ring module whose cdev_add failed (module_ring.c:211).              *)
THEOREM OnlyWhatWasDone == Spec => []UndoesOnlyWhatWasDone
<1>1. LifeInv => UndoesOnlyWhatWasDone
  BY DEF LifeInv, InitInv, UnwindInv, LiveInv, ExitInv, UndoesOnlyWhatWasDone,
         Life!UndoesOnlyWhatWasDone
<1> QED
  BY <1>1, LifeInit, LifeStep, PTL DEF Spec

-----------------------------------------------------------------------------
(* The lesson's device: the run of the programs runs LessonModule.         *)
LessonP == INSTANCE LessonModuleProofs

LEMMA LessonRuns == Spec => LessonP!Spec
<1>1. Init => LessonP!Init
  BY DEF Init, Lesson!Init, LessonP!Init
<1>2. ASSUME [Next]_vars PROVE LessonP!Next \/ UNCHANGED lessonVars
  <2>1. CASE Lesson!Next
    <3>1. ASSUME NEW p \in DOMAIN position, Lesson!my_open(p) \/ Lesson!my_release(p)
          PROVE  LessonP!Next
      BY <3>1 DEF Lesson!my_open, Lesson!my_release, LessonP!my_open, LessonP!my_release,
                  LessonP!Next
    <3>2. ASSUME NEW t \in LessonThreads, Lesson!my_read(t) \/ Lesson!Return(t)
          PROVE  LessonP!Next
      BY <3>2 DEF Lesson!my_read, Lesson!StartRead, Lesson!AtEnd, Lesson!Measure, Lesson!CopyOut,
                  Lesson!Taken, Lesson!Return, Lesson!Enter, Lesson!Fellows, Lesson!Goto,
                  Lesson!Leave, LessonP!my_read, LessonP!StartRead, LessonP!AtEnd, LessonP!Measure,
                  LessonP!CopyOut, LessonP!Taken, LessonP!Return, LessonP!Enter,
                  LessonP!Fellows, LessonP!Goto, LessonP!Leave, LessonP!Next
    <3>3. ASSUME NEW t \in LessonThreads, Lesson!my_write(t) \/ Lesson!my_ioctl(t)
          PROVE  LessonP!Next
      BY <3>3 DEF Lesson!my_write, Lesson!StartWrite, Lesson!CopyIn, Lesson!SetSize,
                  Lesson!Terminate, Lesson!my_ioctl, Lesson!Format, Lesson!TakeLength,
                  Lesson!Fill, Lesson!Enter, Lesson!Fellows, Lesson!Goto, Lesson!Leave,
                  LessonP!my_write, LessonP!StartWrite, LessonP!CopyIn, LessonP!SetSize,
                  LessonP!Terminate, LessonP!my_ioctl, LessonP!Format, LessonP!TakeLength,
                  LessonP!Fill, LessonP!Enter, LessonP!Fellows, LessonP!Goto, LessonP!Leave,
                  LessonP!Next
    <3> QED
      BY <2>1, <3>1, <3>2, <3>3 DEF Lesson!Next
  <2> QED
    BY <1>2, <2>1, OneRuns
<1>3. [Next]_vars => [LessonP!Next]_(LessonP!vars)
  BY <1>2 DEF lessonVars, LessonP!vars
<1> QED
  BY <1>1, <1>3, PTL DEF Spec, LessonP!Spec

(* For every number of threads, processes and bytes, and however the calls *)
(* race or fault: as long as no ioctl has written a text without an end    *)
(* (lesson_module.c:72-75), the last byte of kernel_buffer stays NUL, so   *)
(* that strlen (line 76) stays inside, and a read that no thread of its    *)
(* process disturbs (lines 45-50) does not pass the end.                   *)
THEOREM LessonStaysWithinBuffer == Spec => []WithinBuffer
<1>1. LessonP!RoomAssumption /\ LessonP!TextAssumption
  BY LessonAssumption DEF LessonP!RoomAssumption, LessonP!TextAssumption
<1>2. LessonP!Spec => []LessonP!WithinBuffer
  BY <1>1, LessonP!BufferStaysTerminated
<1>3. LessonP!WithinBuffer => WithinBuffer
  BY DEF LessonP!WithinBuffer, Lesson!WithinBuffer, WithinBuffer
<1> QED
  BY <1>2, <1>3, LessonRuns, PTL

(* A read that no thread of its process disturbs returns a piece of the    *)
(* last complete message (my_read, my_write, my_ioctl and the mutex of     *)
(* my_open), as long as no ioctl has left the buffer: for every number of  *)
(* threads and processes and every size.                                   *)
THEOREM LessonReadsOneMessage == Spec => []ReadsOneMessage
<1>1. LessonP!RoomAssumption /\ LessonP!TextAssumption
  BY LessonAssumption DEF LessonP!RoomAssumption, LessonP!TextAssumption
<1>2. LessonP!Spec => []LessonP!ReadsOneMessage
  BY <1>1, LessonP!ReadsAreOfOneMessage
<1>3. LessonP!ReadsOneMessage => ReadsOneMessage
  BY DEF LessonP!ReadsOneMessage, Lesson!ReadsOneMessage, ReadsOneMessage
<1> QED
  BY <1>2, <1>3, LessonRuns, PTL

-----------------------------------------------------------------------------
(* The searches of zipjpeg_checker.c, for any file.                        *)

LEMMA Remainder ==
  ASSUME NEW c \in Nat \ {0}, NEW r \in 0 .. c - 1
  PROVE  r % c = r
<1> DEFINE q == r \div c
           s == r % c
<1>1. q \in Int /\ r = c * q + s /\ s \in 0 .. c - 1
  OBVIOUS
<1> HIDE DEF q, s
<1>2. ~(q >= 1)
  <2> SUFFICES ASSUME q >= 1 PROVE FALSE
    OBVIOUS
  <2>1. c * q >= c
    BY <1>1
  <2> QED
    BY <1>1, <2>1
<1>3. ~(q <= -1)
  <2> SUFFICES ASSUME q <= -1 PROVE FALSE
    OBVIOUS
  <2>1. c * q <= -c
    BY <1>1
  <2> QED
    BY <1>1, <2>1
<1>4. q = 0
  BY <1>1, <1>2, <1>3
<1> QED
  BY <1>1, <1>4 DEF s

(* A file: every record lies in it in the order an archive has them, and   *)
(* there are none without an end record.                                   *)
FileInv ==
  /\ file_size \in 0 .. MaxSize
  /\ \A x \in eocds : x \in Nat
  /\ \A d \in cdfhs : d \in Nat /\ d + CdfhSize + EocdSize <= file_size
  /\ \A h \in lfhs : h \in Nat /\ h + LfhSize + CdfhSize + EocdSize <= file_size
  /\ eocds = {} => cdfhs = {} /\ lfhs = {}
  /\ find_eocd_at = Zip!find_eocd(file_size, eocds)

IsLast(S, i) == IF S = {} THEN i = -1 ELSE i \in S /\ \A x \in S : x <= i

(* What a loop has gone past holds no signature that it looks for.         *)
BackwardInv ==
  /\ search = "eocd" => /\ at_byte <= file_size /\ \A x \in eocds : x <= at_byte
                        /\ eocd_at = -1
  /\ search \in {"cdfh", "lfh", "done"} => IsLast(eocds, eocd_at)
  /\ search = "cdfh" => at_byte <= file_size /\ \A d \in cdfhs : d <= at_byte
  /\ search \in {"lfh", "done"} => cdfhs = {} \/ cdfh_at = Zip!Max(cdfhs)
  /\ search \in {"start", "eocd", "cdfh"} => found = {}

ForwardInv ==
  /\ search = "lfh" => /\ at_byte >= 0 /\ found = {h \in lfhs : h < at_byte}
                       /\ file_size >= CdfhStruct => at_byte <= file_size - CdfhStruct + 1
  /\ search = "done" => /\ found = lfhs
                        /\ file_size >= CdfhStruct => at_byte <= file_size

ZipInv ==
  /\ search \in {"start", "eocd", "cdfh", "lfh", "done"} /\ at_byte \in Int
  /\ search = "start" => at_byte = 0 /\ file_size = 0 /\ eocd_at = -1
  /\ search # "start" => FileInv
  /\ BackwardInv /\ ForwardInv

LEMMA Greatest ==
  ASSUME NEW S, NEW m \in S, \A x \in S : x \in Int /\ x <= m
  PROVE  Zip!Max(S) = m
<1>1. \A x \in S : m >= x
  OBVIOUS
<1>2. \A x \in S : (\A y \in S : x >= y) => x = m
  OBVIOUS
<1> QED
  BY <1>1, <1>2 DEF Zip!Max

LEMMA OpensFile ==
  ASSUME search = "start", ZipInv, Zip!OpenFile
  PROVE  ZipInv'
<1>1. PICK e \in -1 .. file_size', n \in 0 .. MaxMembers :
        \E c, l \in Zip!kSubset(n, 0 .. e) :
          /\ e = -1 \/ Zip!Archive(file_size', e, c, l)
          /\ cdfhs' = c /\ lfhs' = l
          /\ \E stray \in {-1} \cup 0 .. file_size' - SigSize : eocds' = {e, stray} \ {-1}
          /\ find_eocd_at' = Zip!find_eocd(file_size', eocds')
  BY DEF Zip!OpenFile
<1>2. /\ file_size' \in 0 .. MaxSize /\ search' = "eocd" /\ at_byte' = file_size' - SigSize
      /\ UNCHANGED <<eocd_at, cdfh_at, found>>
  BY DEF Zip!OpenFile
<1>3. PICK stray \in {-1} \cup 0 .. file_size' - SigSize : eocds' = {e, stray} \ {-1}
  BY <1>1
<1>4. /\ cdfhs' \in Zip!kSubset(n, 0 .. e) /\ lfhs' \in Zip!kSubset(n, 0 .. e)
      /\ e = -1 \/ Zip!Archive(file_size', e, cdfhs', lfhs')
      /\ find_eocd_at' = Zip!find_eocd(file_size', eocds')
  BY <1>1
<1>5. /\ cdfhs' \subseteq 0 .. e /\ lfhs' \subseteq 0 .. e
      /\ cdfhs' = {} => lfhs' = {}
  <2>1. /\ cdfhs' \subseteq 0 .. e /\ Cardinality(cdfhs') = n
        /\ lfhs' \subseteq 0 .. e /\ Cardinality(lfhs') = n
    BY <1>4 DEF Zip!kSubset, Zip!Cardinality, Cardinality
  <2>2. IsFiniteSet(lfhs')
    <3>1. IsFiniteSet(0 .. e)
      BY <1>2, FS_Interval
    <3>2. lfhs' \in SUBSET (0 .. e)
      BY <2>1
    <3> QED
      BY <3>1, <3>2, FS_Subset
  <2> QED
    BY <2>1, <2>2, FS_EmptySet
<1>6. e # -1 =>
        /\ e \in 0 .. file_size' - EocdSize
        /\ \A d \in cdfhs' : d + CdfhSize <= e
        /\ \A h \in lfhs' : \A d \in cdfhs' : h + LfhSize <= d
  BY <1>2, <1>4, ZipAssumption DEF Zip!Archive
<1>7. FileInv'
  <2>1. \A x \in eocds' : x \in Nat
    BY <1>2, <1>3
  <2>2. \A d \in cdfhs' : d \in Nat /\ d + CdfhSize + EocdSize <= file_size'
    BY <1>2, <1>5, <1>6, ZipAssumption
  <2>3. \A h \in lfhs' : h \in Nat /\ h + LfhSize + CdfhSize + EocdSize <= file_size'
    BY <1>2, <1>5, <1>6, <2>2, ZipAssumption
  <2>4. eocds' = {} => cdfhs' = {} /\ lfhs' = {}
    BY <1>2, <1>3, <1>5
  <2> QED
    BY <1>2, <1>4, <2>1, <2>2, <2>3, <2>4 DEF FileInv, Zip!find_eocd, Zip!Greater
<1>8. at_byte' \in Int /\ at_byte' <= file_size' /\ \A x \in eocds' : x <= at_byte'
  BY <1>2, <1>3, <1>6, ZipAssumption
<1>9. eocd_at' = -1 /\ found' = {}
  BY <1>2 DEF ZipInv, BackwardInv
<1> QED
  BY <1>2, <1>7, <1>8, <1>9 DEF ZipInv, BackwardInv, ForwardInv

LEMMA SearchesEocd ==
  ASSUME ZipInv, Zip!SearchEocd
  PROVE  ZipInv'
<1>1. /\ search = "eocd" /\ FileInv /\ at_byte \in Int /\ found = {}
      /\ at_byte <= file_size /\ eocd_at = -1 /\ \A x \in eocds : x \in Nat /\ x <= at_byte
      /\ UNCHANGED <<file_size, eocds, cdfhs, lfhs, cdfh_at, found, find_eocd_at>>
  BY DEF ZipInv, BackwardInv, FileInv, Zip!SearchEocd
<1>2. FileInv'
  BY <1>1 DEF FileInv, Zip!find_eocd, Zip!Greater
<1>3. CASE at_byte \in eocds
  <2>1. eocd_at' = at_byte /\ search' = "cdfh" /\ at_byte' = file_size - EocdStruct
    BY <1>3 DEF Zip!SearchEocd
  <2>2. IsLast(eocds', eocd_at')
    BY <1>1, <1>3, <2>1 DEF IsLast
  <2>3. at_byte' \in Int /\ at_byte' <= file_size' /\ \A d \in cdfhs' : d <= at_byte'
    BY <1>1, <2>1, ZipAssumption DEF FileInv
  <2> QED
    BY <1>1, <1>2, <1>3, <2>1, <2>2, <2>3 DEF ZipInv, BackwardInv, ForwardInv
<1>4. CASE at_byte \notin eocds
  <2>1. eocd_at' = -1 /\ at_byte' = at_byte - 1 /\ search' = IF at_byte <= 0 THEN "done" ELSE "eocd"
    BY <1>1, <1>4 DEF Zip!SearchEocd
  <2>2. \A x \in eocds : x <= at_byte - 1
    BY <1>1, <1>4
  <2>3. CASE at_byte <= 0
    <3>1. eocds = {}
      BY <1>1, <2>2, <2>3
    <3>2. cdfhs = {} /\ lfhs = {}
      BY <1>1, <3>1 DEF FileInv
    <3>3. at_byte' <= file_size' /\ at_byte' \in Int
      BY <1>1, <2>1 DEF FileInv
    <3> QED
      BY <1>1, <1>2, <2>1, <2>3, <3>1, <3>2, <3>3 DEF ZipInv, BackwardInv, ForwardInv, IsLast
  <2>4. CASE ~(at_byte <= 0)
    <3>1. at_byte' <= file_size' /\ at_byte' \in Int
      BY <1>1, <2>1 DEF FileInv
    <3> QED
      BY <1>1, <1>2, <2>1, <2>2, <2>4, <3>1 DEF ZipInv, BackwardInv, ForwardInv
  <2> QED
    BY <2>3, <2>4
<1> QED
  BY <1>3, <1>4

LEMMA SearchesCdfh ==
  ASSUME ZipInv, Zip!SearchCdfh
  PROVE  ZipInv'
<1>1. /\ search = "cdfh" /\ FileInv /\ at_byte \in Int /\ found = {}
      /\ at_byte <= file_size /\ \A d \in cdfhs : d \in Nat /\ d <= at_byte
      /\ IsLast(eocds, eocd_at)
      /\ UNCHANGED <<file_size, eocds, cdfhs, lfhs, eocd_at, found, find_eocd_at>>
  BY DEF ZipInv, BackwardInv, FileInv, Zip!SearchCdfh
<1>2. FileInv'
  BY <1>1 DEF FileInv, Zip!find_eocd, Zip!Greater
<1>3. IsLast(eocds', eocd_at')
  BY <1>1
<1>4. CASE at_byte \in cdfhs \/ at_byte <= 0
  <2>1. search' = "lfh" /\ at_byte' = 0
    BY <1>4 DEF Zip!SearchCdfh
  <2>2. cdfhs' = {} \/ cdfh_at' = Zip!Max(cdfhs')
    <3>1. CASE at_byte \in cdfhs
      <4>1. cdfh_at' = at_byte
        BY <3>1 DEF Zip!SearchCdfh
      <4>2. Zip!Max(cdfhs) = at_byte
        <5>1. \A x \in cdfhs : x \in Int /\ x <= at_byte
          BY <1>1
        <5> QED
          BY <3>1, <5>1, Greatest
      <4> QED
        BY <1>1, <4>1, <4>2
    <3>2. CASE at_byte \notin cdfhs
      BY <1>1, <1>4, <3>2
    <3> QED
      BY <3>1, <3>2
  <2>3. found' = {h \in lfhs' : h < at_byte'}
    BY <1>1, <2>1 DEF FileInv
  <2>4. file_size' >= CdfhStruct => at_byte' <= file_size' - CdfhStruct + 1
    BY <1>1, <2>1, ZipAssumption DEF FileInv
  <2> QED
    BY <1>1, <1>2, <1>3, <2>1, <2>2, <2>3, <2>4 DEF ZipInv, BackwardInv, ForwardInv
<1>5. CASE ~(at_byte \in cdfhs \/ at_byte <= 0)
  <2>1. at_byte' = at_byte - 1 /\ search' = "cdfh"
    BY <1>1, <1>5 DEF Zip!SearchCdfh
  <2>2. at_byte' \in Int /\ at_byte' <= file_size' /\ \A d \in cdfhs' : d <= at_byte'
    BY <1>1, <1>5, <2>1 DEF FileInv
  <2> QED
    BY <1>1, <1>2, <1>3, <2>1, <2>2 DEF ZipInv, BackwardInv, ForwardInv
<1> QED
  BY <1>4, <1>5

LEMMA SearchesLfh ==
  ASSUME ZipInv, Zip!SearchLfh
  PROVE  ZipInv'
<1>1. /\ search = "lfh" /\ FileInv /\ at_byte \in Int
      /\ at_byte >= 0 /\ found = {h \in lfhs : h < at_byte}
      /\ file_size >= CdfhStruct => at_byte <= file_size - CdfhStruct + 1
      /\ IsLast(eocds, eocd_at)
      /\ cdfhs = {} \/ cdfh_at = Zip!Max(cdfhs)
      /\ UNCHANGED <<file_size, eocds, cdfhs, lfhs, eocd_at, cdfh_at, find_eocd_at>>
  BY DEF ZipInv, BackwardInv, ForwardInv, Zip!SearchLfh
<1> DEFINE last == (file_size - CdfhStruct) % WordSize
<1>2. FileInv'
  BY <1>1 DEF FileInv, Zip!find_eocd, Zip!Greater
<1>3. /\ file_size \in Nat /\ file_size < WordSize /\ WordSize \in Nat \ {0}
      /\ CdfhStruct \in Nat \ {0}
  BY <1>1, ZipAssumption DEF FileInv
<1>4. file_size >= CdfhStruct => last = file_size - CdfhStruct
  BY <1>3, Remainder
<1>5. IsLast(eocds', eocd_at') /\ (cdfhs' = {} \/ cdfh_at' = Zip!Max(cdfhs'))
  BY <1>1
<1>6. \A h \in lfhs : h \in Nat /\ h <= file_size - CdfhStruct
  BY <1>1, ZipAssumption DEF FileInv
<1>7. CASE at_byte <= last
  <2>1. /\ at_byte' = at_byte + 1 /\ search' = "lfh"
        /\ found' = IF at_byte \in lfhs THEN found \cup {at_byte} ELSE found
    BY <1>1, <1>7 DEF Zip!SearchLfh
  <2> HIDE DEF last
  <2>2. found' = {h \in lfhs' : h < at_byte'}
    <3>1. \A h \in lfhs : h < at_byte + 1 <=> h < at_byte \/ h = at_byte
      BY <1>1, <1>6
    <3> QED
      BY <1>1, <2>1, <3>1
  <2>3. file_size' >= CdfhStruct => at_byte' <= file_size' - CdfhStruct + 1
    BY <1>1, <1>3, <1>4, <1>7, <2>1
  <2>4. at_byte' >= 0 /\ at_byte' \in Int
    BY <1>1, <2>1
  <2> QED
    BY <1>1, <1>2, <1>5, <2>1, <2>2, <2>3, <2>4 DEF ZipInv, BackwardInv, ForwardInv
<1>8. CASE ~(at_byte <= last)
  <2>1. search' = "done" /\ UNCHANGED <<at_byte, found>>
    BY <1>8 DEF Zip!SearchLfh
  <2> HIDE DEF last
  <2>2. found = lfhs
    <3>1. ASSUME NEW h \in lfhs PROVE h < at_byte
      BY <1>1, <1>3, <1>4, <1>6, <1>8
    <3> QED
      BY <1>1, <3>1
  <2>3. file_size >= CdfhStruct => at_byte <= file_size
    BY <1>1, <1>3
  <2> QED
    BY <1>1, <1>2, <1>5, <2>1, <2>2, <2>3 DEF ZipInv, BackwardInv, ForwardInv
<1> QED
  BY <1>7, <1>8

LEMMA ZipStep == ZipInv /\ [Next]_vars => ZipInv'
<1> SUFFICES ASSUME ZipInv, [Next]_vars PROVE ZipInv'
  OBVIOUS
<1>1. CASE Zip!Next
  BY <1>1, OpensFile, SearchesEocd, SearchesCdfh, SearchesLfh DEF Zip!Next, Zip!OpenFile
<1>2. CASE UNCHANGED zipVars
  BY <1>2 DEF zipVars, ZipInv, FileInv, BackwardInv, ForwardInv, IsLast, Zip!find_eocd, Zip!Greater
<1> QED
  BY <1>1, <1>2, OneRuns

LEMMA ZipImplies == ZipInv => ArchiveSearched
<1> SUFFICES ASSUME ZipInv PROVE Zip!ArchiveSearched
  BY DEF ArchiveSearched
<1>1. at_byte <= file_size \/ file_size < CdfhStruct
  BY ZipAssumption DEF ZipInv, FileInv, BackwardInv, ForwardInv
<1>2. ASSUME search \in {"cdfh", "lfh", "done"},
             eocd_at \in file_size - EocdSize - MaxComment .. file_size - EocdSize
      PROVE  find_eocd_at = eocd_at
  <2> DEFINE window == Zip!Greater(0, file_size - EocdSize - MaxComment) .. file_size - EocdSize
  <2>1. FileInv /\ IsLast(eocds, eocd_at)
    BY <1>2 DEF ZipInv, BackwardInv
  <2>2. CASE eocds = {}
    <3>1. eocds \cap window = {}
      BY <2>2
    <3> HIDE DEF window
    <3> QED
      BY <2>1, <2>2, <3>1 DEF FileInv, IsLast, Zip!find_eocd, window
  <2>3. CASE eocds # {} /\ eocd_at \in eocds /\ \A x \in eocds : x <= eocd_at
    <3>1. eocd_at \in eocds \cap window /\ ~(file_size < EocdSize)
      BY <1>2, <2>1, <2>3, ZipAssumption DEF FileInv, Zip!Greater
    <3>2. Zip!Max(eocds \cap window) = eocd_at
      <4>1. \A x \in eocds \cap window : x \in Int /\ x <= eocd_at
        BY <2>1, <2>3 DEF FileInv
      <4> HIDE DEF window
      <4> QED
        BY <3>1, <4>1, Greatest
    <3> HIDE DEF window
    <3> QED
      BY <2>1, <3>1, <3>2 DEF FileInv, Zip!find_eocd, window
  <2> QED
    BY <2>1, <2>2, <2>3 DEF IsLast
<1>3. ASSUME search \in {"cdfh", "lfh", "done"}
      PROVE  eocd_at = IF eocds = {} THEN -1 ELSE Zip!Max(eocds)
  <2>1. FileInv /\ IsLast(eocds, eocd_at)
    BY <1>3 DEF ZipInv, BackwardInv
  <2>2. eocds # {} => Zip!Max(eocds) = eocd_at
    BY <2>1, Greatest DEF FileInv, IsLast
  <2> QED
    BY <2>1, <2>2 DEF IsLast
<1> QED
  BY <1>1, <1>2, <1>3 DEF ZipInv, BackwardInv, ForwardInv, Zip!ArchiveSearched

(* In a file of any size with an archive of any number of members, and one *)
(* more signature of an end record anywhere, the end record that           *)
(* zipjpeg_checker.c finds is the last one, find_eocd agrees with it where *)
(* an archive can have it, the central header found is the last one, every *)
(* local header is listed, and no loop leaves the file, unless the limit   *)
(* of the last one wraps (line 159).                                       *)
THEOREM SearchesAreRight == Spec => []ArchiveSearched
<1>1. Init => ZipInv
  BY DEF Init, Zip!Init, ZipInv, BackwardInv, ForwardInv
<1> QED
  BY <1>1, ZipStep, ZipImplies, PTL DEF Spec
-----------------------------------------------------------------------------
(* Numbers and sequences.  The least number of a set, which                *)
(* well-foundedness gives, carries the inductions.                         *)

Below == OpToRel(<, Nat)

LEMMA Counting ==
  ASSUME NEW P, 0 \in P, \A n \in Nat : n \in P => n + 1 \in P
  PROVE  Nat \subseteq P
<1> SUFFICES ASSUME Nat \ P # {} PROVE FALSE
  OBVIOUS
<1>1. \A y, x \in Nat : <<y, x>> \in Below <=> y < x
  BY DEF OpToRel, Below
<1>2. IsWellFoundedOn(Below, Nat)
  BY NatLessThanWellFounded DEF Below
<1>3. PICK m \in Nat \ P : \A n \in Nat \ P : ~(<<n, m>> \in Below)
  BY <1>2, WFMin
<1>4. m # 0 /\ m - 1 \in Nat /\ m - 1 < m
  BY <1>3
<1>5. m - 1 \in P
  <2>1. <<m - 1, m>> \in Below
    BY <1>1, <1>3, <1>4
  <2> QED
    BY <1>3, <1>4, <2>1
<1>6. (m - 1) + 1 \in P
  BY <1>4, <1>5
<1> QED
  BY <1>3, <1>6

(* The first k elements.                                                   *)
UpTo(s, k) == SubSeq(s, 1, k)

LEMMA UpToNone == \A s : UpTo(s, 0) = << >>
  BY DEF UpTo

LEMMA UpToAll ==
  ASSUME NEW T, NEW s \in Seq(T)
  PROVE  UpTo(s, Len(s)) = s
  BY DEF UpTo

LEMMA UpToNext ==
  ASSUME NEW T, NEW s \in Seq(T), NEW k \in 1 .. Len(s)
  PROVE  /\ Append(UpTo(s, k - 1), s[k]) = UpTo(s, k)
         /\ UpTo(s, k) \in Seq(T) /\ Len(UpTo(s, k)) = k
  BY DEF UpTo

-----------------------------------------------------------------------------
(* The lists in assembly and in C, for any values and any addresses.       *)

At(a, n, i) == IF i \in 1 .. n THEN a[i] ELSE 0

(* The nodes a[k] .. a[n] are linked to one another in h and hold s[k] ..  *)
(* s[n].                                                                   *)
Path(h, a, n, k, s) ==
  /\ n \in Nat /\ a \in [1 .. n -> Cells]
  /\ \A i, j \in 1 .. n : a[i] = a[j] => i = j
  /\ \A i \in k .. n : /\ a[i] \in DOMAIN h
                       /\ h[a[i]] = [value |-> s[i], next |-> At(a, n, i + 1)]
NodesFrom(a, n, k) == {a[i] : i \in k .. n}
Apart(a, n, b, o) == \A i \in 1 .. n, j \in 1 .. o : a[i] # b[j]

LEMMA ValuesTyped == Values \in Seq(Nat) /\ Len(Values) \in Nat
  BY ListAssumption

LEMMA PathLength == \A h, a, n, k, s : Path(h, a, n, k, s) => n \in Nat
  BY DEF Path

LEMMA Addresses ==
  ASSUME NEW h, NEW a, NEW n \in Nat, NEW k, NEW s, Path(h, a, n, k, s)
  PROVE  /\ \A i \in 1 .. n : a[i] \in Cells /\ a[i] # 0 /\ At(a, n, i) = a[i]
         /\ At(a, n, n + 1) = 0
<1>1. \A i \in 1 .. n : a[i] \in Cells /\ a[i] # 0
  BY ListAssumption DEF Path
<1>2. n + 1 \notin 1 .. n
  OBVIOUS
<1> QED
  BY <1>1, <1>2 DEF At

(* The end of a path is reached only past its last node.                   *)
LEMMA AtEnd ==
  ASSUME NEW h, NEW a, NEW n \in Nat, NEW k, NEW s, Path(h, a, n, k, s),
         NEW i \in 1 .. n + 1, At(a, n, i) = 0
  PROVE  i = n + 1
<1>1. i = n + 1 \/ i \in 1 .. n
  OBVIOUS
<1> QED
  BY <1>1, Addresses

LEMMA NotAtEnd ==
  ASSUME NEW h, NEW a, NEW n \in Nat, NEW k \in Nat \ {0}, NEW s, Path(h, a, n, k, s),
         NEW i \in 1 .. n + 1, i >= k, At(a, n, i) # 0
  PROVE  /\ i \in 1 .. n /\ i + 1 \in 1 .. n + 1 /\ (i + 1) - 1 = i
         /\ At(a, n, i) = a[i] /\ a[i] \in DOMAIN h
         /\ h[a[i]].value = s[i] /\ h[a[i]].next = At(a, n, i + 1)
<1>1. i # n + 1
  BY Addresses
<1>2. i \in 1 .. n /\ i \in k .. n /\ i + 1 \in 1 .. n + 1 /\ (i + 1) - 1 = i
  BY <1>1
<1>3. a[i] \in DOMAIN h /\ h[a[i]] = [value |-> s[i], next |-> At(a, n, i + 1)]
  BY <1>2 DEF Path
<1> QED
  BY <1>2, <1>3, Addresses

(* What another part of the heap does leaves a path alone.                 *)
LEMMA PathStays ==
  ASSUME NEW h, NEW g, NEW a, NEW n, NEW k \in Nat \ {0}, NEW m \in Nat \ {0}, NEW s,
         Path(h, a, n, k, s), m >= k,
         \A c \in NodesFrom(a, n, m) : c \in DOMAIN g /\ g[c] = h[c]
  PROVE  Path(g, a, n, m, s)
<1>1. n \in Nat
  BY DEF Path
<1>2. ASSUME NEW i \in m .. n
      PROVE  a[i] \in DOMAIN g /\ g[a[i]] = [value |-> s[i], next |-> At(a, n, i + 1)]
  <2>1. i \in k .. n
    BY <1>1
  <2>2. a[i] \in NodesFrom(a, n, m)
    BY DEF NodesFrom
  <2> QED
    BY <2>1, <2>2 DEF Path
<1> QED
  BY <1>1, <1>2 DEF Path

Front(c, a, n) == [i \in 1 .. n + 1 |-> IF i = 1 THEN c ELSE a[i - 1]]

(* A node put in front.                                                    *)
LEMMA PathFront ==
  ASSUME NEW h, NEW g, NEW a, NEW n, NEW s, NEW t, NEW c \in Cells, Path(h, a, n, 1, s),
         c \notin DOMAIN h, DOMAIN g = DOMAIN h \cup {c},
         \A d \in DOMAIN h : g[d] = h[d],
         g[c] = [value |-> t[1], next |-> At(a, n, 1)],
         \A i \in 1 .. n : t[i + 1] = s[i]
  PROVE  /\ Path(g, Front(c, a, n), n + 1, 1, t) /\ At(Front(c, a, n), n + 1, 1) = c
         /\ NodesFrom(Front(c, a, n), n + 1, 1) = NodesFrom(a, n, 1) \cup {c}
<1> DEFINE b == Front(c, a, n)
<1>1. n \in Nat /\ a \in [1 .. n -> Cells]
      /\ \A i \in 1 .. n : a[i] \in DOMAIN h /\ h[a[i]] = [value |-> s[i], next |-> At(a, n, i + 1)]
  BY DEF Path
<1>2. b[1] = c /\ \A i \in 2 .. n + 1 : i - 1 \in 1 .. n /\ b[i] = a[i - 1] /\ b[i] \in DOMAIN h
  <2>1. 1 \in 1 .. n + 1
    BY <1>1
  <2>2. \A i \in 2 .. n + 1 : i \in 1 .. n + 1 /\ i # 1 /\ i - 1 \in 1 .. n
    BY <1>1
  <2>3. b[1] = c
    BY <2>1 DEF Front
  <2>4. \A i \in 2 .. n + 1 : b[i] = a[i - 1]
    BY <2>2 DEF Front
  <2> HIDE DEF b
  <2> QED
    BY <1>1, <2>2, <2>3, <2>4
<1>3. n + 1 \in Nat /\ b \in [1 .. n + 1 -> Cells]
  BY <1>1 DEF Front
<1>4. 1 .. n + 1 = 2 .. n + 1 \cup {1}
  BY <1>1
<1> HIDE DEF b
<1>5. \A i, j \in 1 .. n + 1 : b[i] = b[j] => i = j
  <2> SUFFICES ASSUME NEW i \in 1 .. n + 1, NEW j \in 1 .. n + 1, b[i] = b[j] PROVE i = j
    OBVIOUS
  <2>1. CASE i = 1 \/ j = 1
    BY <1>2, <1>4, <2>1
  <2>2. CASE i # 1 /\ j # 1
    <3>1. a[i - 1] = a[j - 1] /\ i - 1 \in 1 .. n /\ j - 1 \in 1 .. n /\ i \in Int /\ j \in Int
      BY <1>2, <1>4, <2>2
    <3>2. i - 1 = j - 1
      BY <3>1 DEF Path
    <3> QED
      BY <3>1, <3>2
  <2> QED
    BY <2>1, <2>2
<1>6. \A i \in 1 .. n : At(b, n + 1, i + 1) = At(a, n, i)
  BY <1>1, <1>2 DEF At
<1>7. At(b, n + 1, n + 2) = At(a, n, n + 1) /\ At(b, n + 1, 2) = At(a, n, 1)
  BY <1>1, <1>2 DEF At
<1>8. ASSUME NEW i \in 1 .. n + 1
      PROVE  b[i] \in DOMAIN g /\ g[b[i]] = [value |-> t[i], next |-> At(b, n + 1, i + 1)]
  <2>1. CASE i = 1
    <3>1. i + 1 = 2
      BY <2>1
    <3> QED
      BY <1>2, <1>7, <2>1, <3>1
  <2>2. CASE i # 1
    <3>1. i \in 2 .. n + 1 /\ i - 1 \in 1 .. n /\ (i - 1) + 1 = i /\ i \in Int
      BY <1>1, <2>2
    <3>2. g[b[i]] = [value |-> s[i - 1], next |-> At(a, n, i)]
      BY <1>1, <1>2, <3>1
    <3>3. At(b, n + 1, i + 1) = At(a, n, i)
      BY <1>1, <1>6, <1>7, <3>1
    <3>4. t[i] = s[i - 1]
      BY <3>1
    <3> QED
      BY <1>2, <3>1, <3>2, <3>3, <3>4
  <2> QED
    BY <2>1, <2>2
<1>9. Path(g, b, n + 1, 1, t)
  BY <1>3, <1>5, <1>8 DEF Path
<1>10. At(b, n + 1, 1) = c
  BY <1>1, <1>2 DEF At
<1>11. NodesFrom(b, n + 1, 1) = NodesFrom(a, n, 1) \cup {c}
  <2>1. NodesFrom(b, n + 1, 1) \subseteq NodesFrom(a, n, 1) \cup {c}
    BY <1>2, <1>4 DEF NodesFrom
  <2>2. c \in NodesFrom(b, n + 1, 1)
    BY <1>1, <1>2 DEF NodesFrom
  <2>3. ASSUME NEW i \in 1 .. n PROVE a[i] \in NodesFrom(b, n + 1, 1)
    <3>1. i + 1 \in 2 .. n + 1 /\ (i + 1) - 1 = i
      BY <1>1
    <3>2. b[i + 1] = a[i]
      BY <1>2, <3>1
    <3> QED
      BY <1>4, <3>1, <3>2 DEF NodesFrom
  <2> QED
    BY <2>1, <2>2, <2>3 DEF NodesFrom
<1> QED
  BY <1>9, <1>10, <1>11 DEF b

Back(a, n, c) == [i \in 1 .. n + 1 |-> IF i = n + 1 THEN c ELSE a[i]]

(* A node put at the end, through the next field of the last one.          *)
LEMMA PathBack ==
  ASSUME NEW h, NEW g, NEW a, NEW n, NEW s, NEW t, NEW c \in Cells, Path(h, a, n, 1, s),
         c \notin DOMAIN h, DOMAIN g = DOMAIN h \cup {c},
         \A d \in DOMAIN h : d # At(a, n, n) => g[d] = h[d],
         n # 0 => g[a[n]] = [value |-> h[a[n]].value, next |-> c],
         g[c] = [value |-> t[n + 1], next |-> 0],
         \A i \in 1 .. n : t[i] = s[i]
  PROVE  /\ Path(g, Back(a, n, c), n + 1, 1, t)
         /\ At(Back(a, n, c), n + 1, 1) = IF n = 0 THEN c ELSE At(a, n, 1)
         /\ At(Back(a, n, c), n + 1, n + 1) = c
         /\ NodesFrom(Back(a, n, c), n + 1, 1) = NodesFrom(a, n, 1) \cup {c}
<1> DEFINE b == Back(a, n, c)
<1>1. n \in Nat /\ a \in [1 .. n -> Cells]
      /\ \A i \in 1 .. n : a[i] \in DOMAIN h /\ h[a[i]] = [value |-> s[i], next |-> At(a, n, i + 1)]
  BY DEF Path
<1>2. b[n + 1] = c /\ \A i \in 1 .. n : b[i] = a[i] /\ b[i] \in DOMAIN h
  <2>1. n + 1 \in 1 .. n + 1 /\ \A i \in 1 .. n : i \in 1 .. n + 1 /\ i # n + 1
    BY <1>1
  <2>2. b[n + 1] = c /\ \A i \in 1 .. n : b[i] = a[i]
    BY <2>1 DEF Back
  <2> HIDE DEF b
  <2> QED
    BY <1>1, <2>2
<1>3. n + 1 \in Nat /\ b \in [1 .. n + 1 -> Cells]
  BY <1>1 DEF Back
<1>4. 1 .. n + 1 = 1 .. n \cup {n + 1}
  BY <1>1
<1> HIDE DEF b
<1>5. \A i, j \in 1 .. n + 1 : b[i] = b[j] => i = j
  BY <1>2, <1>4 DEF Path
<1>6. \A i \in 1 .. n - 1 : At(b, n + 1, i + 1) = At(a, n, i + 1)
  BY <1>1, <1>2 DEF At
<1>7. At(b, n + 1, n + 2) = 0 /\ At(b, n + 1, n + 1) = c
  BY <1>1, <1>2 DEF At
<1>8. ASSUME NEW i \in 1 .. n + 1
      PROVE  b[i] \in DOMAIN g /\ g[b[i]] = [value |-> t[i], next |-> At(b, n + 1, i + 1)]
  <2>1. CASE i = n + 1
    <3>1. i + 1 = n + 2
      BY <1>1, <2>1
    <3> QED
      BY <1>2, <1>7, <2>1, <3>1
  <2>2. CASE i = n /\ n # 0
    <3>1. n \in 1 .. n
      BY <1>1, <2>2
    <3>2. t[n] = s[n]
      BY <3>1
    <3>3. b[n] = a[n] /\ a[n] \in DOMAIN h /\ h[a[n]] = [value |-> s[n], next |-> At(a, n, n + 1)]
      BY <1>1, <1>2, <3>1
    <3>4. h[a[n]].value = s[n]
      BY <3>3
    <3> QED
      BY <1>7, <2>2, <3>2, <3>3, <3>4
  <2>3. CASE i \in 1 .. n - 1
    <3>1. i \in 1 .. n /\ n \in 1 .. n /\ i # n
      BY <1>1, <2>3
    <3>2. a[i] # At(a, n, n)
      BY <3>1 DEF At, Path
    <3>3. g[a[i]] = [value |-> s[i], next |-> At(a, n, i + 1)] /\ t[i] = s[i]
      BY <1>1, <3>1, <3>2
    <3> QED
      BY <1>2, <1>6, <2>3, <3>1, <3>3
  <2> QED
    BY <1>1, <2>1, <2>2, <2>3
<1>9. Path(g, b, n + 1, 1, t)
  BY <1>3, <1>5, <1>8 DEF Path
<1>10. At(b, n + 1, 1) = IF n = 0 THEN c ELSE At(a, n, 1)
  <2>1. CASE n = 0
    BY <1>1, <1>2, <2>1 DEF At
  <2>2. CASE n # 0
    <3>1. 1 \in 1 .. n /\ 1 \in 1 .. n + 1
      BY <1>1, <2>2
    <3> QED
      BY <1>2, <2>2, <3>1 DEF At
  <2> QED
    BY <2>1, <2>2
<1>11. NodesFrom(b, n + 1, 1) = NodesFrom(a, n, 1) \cup {c}
  BY <1>2, <1>4 DEF NodesFrom
<1> QED
  BY <1>7, <1>9, <1>10, <1>11 DEF b

(* The odd values, one after the other.                                    *)
Collects(f, n) ==
  f = [i \in 0 .. n |-> IF i = 0 THEN << >>
                        ELSE IF Values[i] % 2 = 1 THEN Append(f[i - 1], Values[i])
                        ELSE f[i - 1]]

LEMMA CollectsExists == \A n \in Nat : \E f : Collects(f, n)
<1> DEFINE P == {n \in Nat : \E f : Collects(f, n)}
<1>1. 0 \in P
  <2> DEFINE d == [i \in 0 .. 0 |-> << >>]
  <2>1. d = [i \in 0 .. 0 |-> IF i = 0 THEN << >>
                              ELSE IF Values[i] % 2 = 1 THEN Append(d[i - 1], Values[i])
                              ELSE d[i - 1]]
    OBVIOUS
  <2> HIDE DEF d
  <2>2. Collects(d, 0)
    BY <2>1 DEF Collects
  <2> QED
    BY <2>2
<1>2. ASSUME NEW n \in Nat, n \in P PROVE n + 1 \in P
  <2>1. PICK f : Collects(f, n)
    BY <1>2
  <2> DEFINE Next1(g, i) == IF i = 0 THEN << >>
                            ELSE IF Values[i] % 2 = 1 THEN Append(g[i - 1], Values[i])
                            ELSE g[i - 1]
             d == [i \in 0 .. n + 1 |-> Next1(f, i)]
  <2>2. \A i \in 0 .. n : f[i] = Next1(f, i)
    BY <2>1 DEF Collects
  <2>3. \A i \in 0 .. n : i \in 0 .. n + 1 /\ d[i] = f[i]
    BY <2>2
  <2>4. \A i \in 0 .. n + 1 : i # 0 => i - 1 \in 0 .. n
    OBVIOUS
  <2>5. \A i \in 0 .. n + 1 : d[i] = Next1(f, i)
    OBVIOUS
  <2>6. DOMAIN d = 0 .. n + 1 /\ d = [i \in DOMAIN d |-> d[i]]
    OBVIOUS
  <2>7. \A i \in 0 .. n + 1 : i # 0 => d[i - 1] = f[i - 1]
    <3> HIDE DEF d
    <3> QED
      BY <2>3, <2>4
  <2>8. \A i \in 0 .. n + 1 : d[i] = Next1(d, i)
    <3> HIDE DEF d
    <3> QED
      BY <2>5, <2>7
  <2>9. d = [i \in 0 .. n + 1 |-> Next1(d, i)]
    <3> HIDE DEF d, Next1
    <3> QED
      BY <2>6, <2>8
  <2> HIDE DEF d
  <2>10. Collects(d, n + 1)
    BY <2>9 DEF Collects
  <2> QED
    BY <2>10
<1>3. Nat \subseteq P
  <2> HIDE DEF P
  <2> QED
    BY <1>1, <1>2, Counting
<1> QED
  BY <1>3

LEMMA OddIs ==
  /\ Lists!OddUpTo[0] = << >>
  /\ \A n \in 1 .. Len(Values) :
       Lists!OddUpTo[n] = IF Values[n] % 2 = 1 THEN Append(Lists!OddUpTo[n - 1], Values[n])
                          ELSE Lists!OddUpTo[n - 1]
<1>1. Collects(Lists!OddUpTo, Len(Values))
  <2>1. PICK f : Collects(f, Len(Values))
    BY CollectsExists, ValuesTyped
  <2> QED
    BY <2>1 DEF Collects, Lists!OddUpTo
<1> DEFINE f == Lists!OddUpTo
<1>2. Collects(f, Len(Values))
  BY <1>1
<1> HIDE DEF f
<1>3. \A n \in 0 .. Len(Values) :
        f[n] = IF n = 0 THEN << >>
               ELSE IF Values[n] % 2 = 1 THEN Append(f[n - 1], Values[n]) ELSE f[n - 1]
  BY <1>2 DEF Collects
<1>4. 0 \in 0 .. Len(Values) /\ \A n \in 1 .. Len(Values) : n \in 0 .. Len(Values) /\ n # 0
  BY ValuesTyped
<1>5. /\ f[0] = << >>
      /\ \A n \in 1 .. Len(Values) :
           f[n] = IF Values[n] % 2 = 1 THEN Append(f[n - 1], Values[n]) ELSE f[n - 1]
  BY <1>3, <1>4
<1> QED
  BY <1>5 DEF f

LEMMA OddTyped == \A n \in 0 .. Len(Values) : Lists!OddUpTo[n] \in Seq(Nat)
<1> DEFINE P == {n \in Nat : n <= Len(Values) => Lists!OddUpTo[n] \in Seq(Nat)}
<1>1. 0 \in P
  <2>1. << >> \in Seq(Nat)
    OBVIOUS
  <2> QED
    BY <2>1, OddIs
<1>2. ASSUME NEW n \in Nat, n \in P PROVE n + 1 \in P
  <2> SUFFICES ASSUME n + 1 <= Len(Values) PROVE Lists!OddUpTo[n + 1] \in Seq(Nat)
    OBVIOUS
  <2>1. n + 1 \in 1 .. Len(Values) /\ (n + 1) - 1 = n /\ n <= Len(Values)
    BY ValuesTyped
  <2>2. Values[n + 1] \in Nat /\ Lists!OddUpTo[n] \in Seq(Nat)
    BY <1>2, <2>1, ValuesTyped
  <2>3. Lists!OddUpTo[n + 1] = IF Values[n + 1] % 2 = 1
                               THEN Append(Lists!OddUpTo[n], Values[n + 1])
                               ELSE Lists!OddUpTo[n]
    BY <2>1, OddIs
  <2> HIDE DEF P
  <2>4. Append(Lists!OddUpTo[n], Values[n + 1]) \in Seq(Nat)
    BY <2>2
  <2> QED
    BY <2>2, <2>3, <2>4
<1>3. Nat \subseteq P
  <2> HIDE DEF P
  <2> QED
    BY <1>1, <1>2, Counting
<1> QED
  BY <1>3, ValuesTyped

N == Len(Values)
Sorted(s) == IF variant = "asm" THEN s ELSE Lists!Reverse(s)

LEMMA ReverseIs ==
  ASSUME NEW s \in Seq(Nat)
  PROVE  /\ Lists!Reverse(s) \in Seq(Nat) /\ Len(Lists!Reverse(s)) = Len(s)
         /\ \A i \in 1 .. Len(s) : Lists!Reverse(s)[i] = s[(Len(s) - i) + 1]
<1> DEFINE r == [i \in 1 .. Len(s) |-> s[(Len(s) - i) + 1]]
<1>1. Lists!Reverse(s) = r
  BY DEF Lists!Reverse
<1>2. \A i \in 1 .. Len(s) : (Len(s) - i) + 1 \in 1 .. Len(s)
  OBVIOUS
<1>3. r \in [1 .. Len(s) -> Nat]
  BY <1>2
<1>4. Len(s) \in Nat
  OBVIOUS
<1>5. \A i \in 1 .. Len(s) : r[i] = s[(Len(s) - i) + 1]
  OBVIOUS
<1> HIDE DEF r
<1>6. r \in Seq(Nat) /\ Len(r) = Len(s)
  BY <1>3, <1>4
<1> QED
  BY <1>1, <1>5, <1>6

LEMMA SortedTyped ==
  ASSUME NEW s \in Seq(Nat)
  PROVE  Sorted(s) \in Seq(Nat) /\ Len(Sorted(s)) = Len(s)
  BY ReverseIs DEF Sorted

(* A value more: at the end in main.asm, in front in the other two.        *)
LEMMA SortedNext ==
  ASSUME NEW s \in Seq(Nat), NEW v \in Nat
  PROVE  LET n == Len(s)  t == Append(s, v)
         IN  /\ Len(t) = n + 1 /\ n \in Nat
             /\ variant = "asm" => /\ Sorted(t)[n + 1] = v
                                   /\ \A i \in 1 .. n : Sorted(t)[i] = Sorted(s)[i]
             /\ variant # "asm" => /\ Sorted(t)[1] = v
                                   /\ \A i \in 1 .. n : Sorted(t)[i + 1] = Sorted(s)[i]
<1> DEFINE n == Len(s)
           t == Append(s, v)
<1>1. t \in Seq(Nat) /\ Len(t) = n + 1 /\ n \in Nat /\ t[n + 1] = v
      /\ \A i \in 1 .. n : t[i] = s[i]
  OBVIOUS
<1> HIDE DEF t, n
<1>2. CASE variant = "asm"
  BY <1>1, <1>2 DEF Sorted, t, n
<1>3. CASE variant # "asm"
  <2>1. 1 \in 1 .. n + 1 /\ ((n + 1) - 1) + 1 = n + 1
    BY <1>1
  <2>2. Lists!Reverse(t)[1] = v
    BY <1>1, <2>1, ReverseIs
  <2>3. ASSUME NEW i \in 1 .. n PROVE Lists!Reverse(t)[i + 1] = Lists!Reverse(s)[i]
    <3>1. /\ i + 1 \in 1 .. n + 1 /\ ((n + 1) - (i + 1)) + 1 = (n - i) + 1
          /\ (n - i) + 1 \in 1 .. n
      BY <1>1
    <3>2. Lists!Reverse(t)[i + 1] = t[((n + 1) - (i + 1)) + 1]
      <4>1. \A j \in 1 .. Len(t) : Lists!Reverse(t)[j] = t[(Len(t) - j) + 1]
        BY <1>1, ReverseIs
      <4> QED
        BY <1>1, <3>1, <4>1
    <3>3. Lists!Reverse(s)[i] = s[(n - i) + 1]
      BY ReverseIs DEF n
    <3> QED
      BY <1>1, <3>1, <3>2, <3>3
  <2> QED
    BY <1>1, <1>3, <2>2, <2>3 DEF Sorted, t, n
<1> QED
  BY <1>2, <1>3 DEF t, n

Whole(a) == Path(heap, a, N, 1, Values) /\ list = At(a, N, 1)
Copied(b, s) == /\ Path(heap, b, Len(s), 1, Sorted(s)) /\ odd = At(b, Len(s), 1)
                /\ tail = IF variant = "asm" THEN At(b, Len(s), Len(s)) ELSE 0
Printed == shown = <<Values, Sorted(Lists!Odd)>>

StartState ==
  /\ list = 0 /\ odd = 0 /\ tail = 0 /\ node = 0 /\ DOMAIN heap = {}
  /\ shown = << << >>, << >> >>

AddState == \E a, n :
  /\ n \in 0 .. N /\ left = N - n
  /\ Path(heap, a, n, 1, [i \in 1 .. n |-> Values[left + i]])
  /\ list = At(a, n, 1) /\ DOMAIN heap = NodesFrom(a, n, 1)
  /\ node = 0 /\ odd = 0 /\ tail = 0 /\ shown = << << >>, << >> >>

Print1State == \E a, k :
  /\ k \in 1 .. N + 1 /\ node = At(a, N, k) /\ Whole(a)
  /\ DOMAIN heap = NodesFrom(a, N, 1)
  /\ odd = 0 /\ tail = 0 /\ shown = <<UpTo(Values, k - 1), << >> >>

FilterState == \E a, b, k, s :
  /\ k \in 1 .. N + 1 /\ node = At(a, N, k) /\ Whole(a)
  /\ s = Lists!OddUpTo[k - 1] /\ Copied(b, s) /\ Apart(a, N, b, Len(s))
  /\ DOMAIN heap = NodesFrom(a, N, 1) \cup NodesFrom(b, Len(s), 1)
  /\ shown = <<Values, << >> >>

Print2State == \E a, b, k :
  LET s == Lists!Odd IN
  /\ k \in 1 .. Len(s) + 1 /\ node = At(b, Len(s), k) /\ Whole(a)
  /\ Copied(b, s) /\ Apart(a, N, b, Len(s))
  /\ DOMAIN heap = NodesFrom(a, N, 1) \cup NodesFrom(b, Len(s), 1)
  /\ shown = <<Values, UpTo(Sorted(s), k - 1)>>

Free1State == \E a, b, k :
  LET s == Lists!Odd IN
  /\ k \in 1 .. N + 1 /\ node = At(a, N, k) /\ Path(heap, a, N, k, Values)
  /\ Path(heap, b, Len(s), 1, Sorted(s)) /\ odd = At(b, Len(s), 1) /\ Apart(a, N, b, Len(s))
  /\ DOMAIN heap = NodesFrom(a, N, k) \cup NodesFrom(b, Len(s), 1)
  /\ Printed /\ variant # "orig"

Free2State == \E b, k :
  LET s == Lists!Odd IN
  /\ k \in 1 .. Len(s) + 1 /\ node = At(b, Len(s), k)
  /\ Path(heap, b, Len(s), k, Sorted(s)) /\ DOMAIN heap = NodesFrom(b, Len(s), k)
  /\ Printed /\ variant # "orig"

EndState == Printed /\ (variant # "orig" => DOMAIN heap = {})
NoWildPointer == {node, tail, list} \ {0} \subseteq DOMAIN heap

ListInv ==
  /\ job_at \in {"start", "add", "print1", "filter", "print2", "free1", "free2", "end", "aborted"}
  /\ variant \in {"asm", "c", "orig"}
  /\ job_at = "start" => StartState
  /\ job_at = "add" => AddState
  /\ job_at = "print1" => Print1State
  /\ job_at = "filter" => FilterState
  /\ job_at = "print2" => Print2State
  /\ job_at = "free1" => Free1State
  /\ job_at = "free2" => Free2State
  /\ job_at = "end" => EndState
  /\ job_at = "aborted" => NoWildPointer

LEMMA OddLength ==
  /\ Lists!Odd = Lists!OddUpTo[N] /\ Lists!Odd \in Seq(Nat) /\ Len(Lists!Odd) \in Nat
  /\ N \in Nat
<1>1. N \in 0 .. N /\ N \in Nat
  BY ValuesTyped DEF N
<1>2. Lists!Odd = Lists!OddUpTo[N]
  BY DEF Lists!Odd, N
<1>3. Lists!Odd \in Seq(Nat)
  BY <1>1, <1>2, OddTyped DEF N
<1> QED
  BY <1>1, <1>2, <1>3

(* A pointer to a node of a path that is all there.                        *)
LEMMA Reached ==
  ASSUME NEW h, NEW a, NEW n, NEW s, Path(h, a, n, 1, s), NEW i
  PROVE  At(a, n, i) = 0 \/ At(a, n, i) \in DOMAIN h
  BY DEF Path, At

LEMMA NoneWild ==
  ASSUME ListInv, job_at \in {"start", "add", "print1", "filter", "print2", "aborted"}
  PROVE  NoWildPointer
<1>1. CASE job_at = "start"
  BY <1>1 DEF ListInv, StartState, NoWildPointer
<1>2. CASE job_at = "add"
  <2>1. PICK a, n : /\ Path(heap, a, n, 1, [i \in 1 .. n |-> Values[left + i]])
                    /\ list = At(a, n, 1) /\ node = 0 /\ tail = 0
    BY <1>2 DEF ListInv, AddState
  <2>2. list = 0 \/ list \in DOMAIN heap
    BY <2>1, Reached
  <2> QED
    BY <2>1, <2>2 DEF NoWildPointer
<1>3. CASE job_at = "print1"
  <2>1. PICK a, k : Whole(a) /\ node = At(a, N, k) /\ tail = 0
    BY <1>3 DEF ListInv, Print1State
  <2>2. (list = 0 \/ list \in DOMAIN heap) /\ (node = 0 \/ node \in DOMAIN heap)
    BY <2>1, Reached DEF Whole
  <2> QED
    BY <2>1, <2>2 DEF NoWildPointer
<1>4. CASE job_at = "filter"
  <2>1. PICK a, b, k, s : Whole(a) /\ node = At(a, N, k) /\ Copied(b, s)
    BY <1>4 DEF ListInv, FilterState
  <2>2. /\ list = 0 \/ list \in DOMAIN heap
        /\ node = 0 \/ node \in DOMAIN heap
        /\ tail = 0 \/ tail \in DOMAIN heap
    BY <2>1, Reached DEF Whole, Copied
  <2> QED
    BY <2>2 DEF NoWildPointer
<1>5. CASE job_at = "print2"
  <2>1. PICK a, b, k, s : Whole(a) /\ node = At(b, Len(s), k) /\ Copied(b, s)
    BY <1>5 DEF ListInv, Print2State
  <2>2. /\ list = 0 \/ list \in DOMAIN heap
        /\ node = 0 \/ node \in DOMAIN heap
        /\ tail = 0 \/ tail \in DOMAIN heap
    BY <2>1, Reached DEF Whole, Copied
  <2> QED
    BY <2>2 DEF NoWildPointer
<1>6. CASE job_at = "aborted"
  BY <1>6 DEF ListInv
<1> QED
  BY <1>1, <1>2, <1>3, <1>4, <1>5, <1>6

LEMMA AbortKeeps ==
  ASSUME ListInv, Lists!Abort
  PROVE  ListInv'
<1>1. NoWildPointer
  BY NoneWild DEF Lists!Abort
<1>2. NoWildPointer'
  BY <1>1 DEF Lists!Abort, NoWildPointer
<1> QED
  BY <1>2 DEF ListInv, Lists!Abort

LEMMA StartKeeps ==
  ASSUME ListInv, Lists!Start
  PROVE  ListInv'
<1>1. StartState /\ N \in Nat
  BY OddLength DEF ListInv, Lists!Start
<1> DEFINE a == [i \in 1 .. 0 |-> 0]
           t == [i \in 1 .. 0 |-> Values[left' + i]]
<1>2. Path(heap', a, 0, 1, t)
  BY DEF Path
<1>3. At(a, 0, 1) = 0 /\ NodesFrom(a, 0, 1) = {}
  BY DEF At, NodesFrom
<1> HIDE DEF a
<1>4. left' = N - 0 /\ 0 \in 0 .. N
  BY <1>1 DEF Lists!Start, N
<1>5. UNCHANGED <<heap, list, odd, tail, node, shown>>
  BY DEF Lists!Start
<1>6. AddState'
  BY <1>1, <1>2, <1>3, <1>4, <1>5 DEF AddState, StartState, N
<1> QED
  BY <1>6, ListAssumption DEF ListInv, Lists!Start

LEMMA AddKeeps ==
  ASSUME ListInv, Lists!AddElement
  PROVE  ListInv'
<1>1. job_at = "add" /\ job_at' = "add" /\ variant' = variant /\ left > 0 /\ left' = left - 1
      /\ UNCHANGED <<odd, tail, node, shown>>
  BY DEF Lists!AddElement
<1>2. PICK a, n :
        /\ n \in 0 .. N /\ left = N - n
        /\ Path(heap, a, n, 1, [i \in 1 .. n |-> Values[left + i]])
        /\ list = At(a, n, 1) /\ DOMAIN heap = NodesFrom(a, n, 1)
        /\ node = 0 /\ odd = 0 /\ tail = 0 /\ shown = << << >>, << >> >>
  BY <1>1 DEF ListInv, AddState
<1>3. PICK c \in Cells \ DOMAIN heap :
        heap' = Lists!With(c, Values[left], list) /\ list' = c
  BY DEF Lists!AddElement, Lists!Malloc
<1> DEFINE s == [i \in 1 .. n |-> Values[left + i]]
           t == [i \in 1 .. n + 1 |-> Values[left' + i]]
<1>4. /\ DOMAIN heap' = DOMAIN heap \cup {c}
      /\ \A d \in DOMAIN heap : heap'[d] = heap[d]
      /\ heap'[c] = [value |-> Values[left], next |-> list]
  BY <1>3 DEF Lists!With
<1>5. n \in Nat /\ N \in Nat /\ n + 1 \in 0 .. N /\ left' = N - (n + 1) /\ left \in Int
  BY <1>1, <1>2, OddLength
<1>6. t[1] = Values[left]
  <2>1. 1 \in 1 .. n + 1 /\ left' + 1 = left
    BY <1>1, <1>5
  <2> QED
    BY <2>1
<1>7. \A i \in 1 .. n : t[i + 1] = s[i]
  <2>1. \A i \in 1 .. n : i + 1 \in 1 .. n + 1 /\ left' + (i + 1) = left + i
    BY <1>1, <1>5
  <2> QED
    BY <2>1
<1>8. /\ Path(heap', Front(c, a, n), n + 1, 1, t) /\ At(Front(c, a, n), n + 1, 1) = c
      /\ NodesFrom(Front(c, a, n), n + 1, 1) = NodesFrom(a, n, 1) \cup {c}
  <2>1. Path(heap, a, n, 1, s)
    BY <1>2
  <2> HIDE DEF s, t
  <2> QED
    BY <1>2, <1>3, <1>4, <1>6, <1>7, <2>1, PathFront
<1>9. AddState'
  BY <1>1, <1>2, <1>3, <1>4, <1>5, <1>8 DEF AddState, N
<1> QED
  BY <1>1, <1>9 DEF ListInv

LEMMA PathSame ==
  ASSUME NEW h, NEW a, NEW n, NEW s, NEW t, Path(h, a, n, 1, s), \A i \in 1 .. n : s[i] = t[i]
  PROVE  Path(h, a, n, 1, t)
  BY DEF Path

LEMMA ThenKeeps ==
  ASSUME ListInv, Lists!main
  PROVE  ListInv'
<1>1. N \in Nat /\ Lists!Odd = Lists!OddUpTo[N] /\ Lists!Odd \in Seq(Nat) /\ Len(Lists!Odd) \in Nat
      /\ Lists!OddUpTo[0] = << >> /\ Values \in Seq(Nat)
  BY OddLength, OddIs, ValuesTyped
<1>2. Sorted(<< >>) = << >> /\ Sorted(Lists!Odd) \in Seq(Nat)
      /\ Len(Sorted(Lists!Odd)) = Len(Lists!Odd)
  <2>1. << >> \in Seq(Nat) /\ Len(<< >>) = 0
    OBVIOUS
  <2>2. Sorted(<< >>) \in Seq(Nat) /\ Len(Sorted(<< >>)) = 0
    BY <2>1, SortedTyped
  <2>3. Sorted(<< >>) = << >>
    BY <2>2
  <2> QED
    BY <1>1, <2>3, SortedTyped
<1>3. CASE left = 0 /\ Lists!Then("add", "print1", list)
  <2>1. /\ job_at = "add" /\ job_at' = "print1" /\ node' = list
        /\ UNCHANGED <<variant, left, heap, list, odd, tail, shown>>
    BY <1>3 DEF Lists!Then
  <2>2. PICK a, n :
          /\ n \in 0 .. N /\ left = N - n
          /\ Path(heap, a, n, 1, [i \in 1 .. n |-> Values[left + i]])
          /\ list = At(a, n, 1) /\ DOMAIN heap = NodesFrom(a, n, 1)
          /\ node = 0 /\ odd = 0 /\ tail = 0 /\ shown = << << >>, << >> >>
    BY <2>1 DEF ListInv, AddState
  <2>3. n = N
    BY <1>1, <1>3, <2>2
  <2>4. Path(heap, a, N, 1, Values)
    <3>1. \A i \in 1 .. n : [j \in 1 .. n |-> Values[left + j]][i] = Values[i]
      BY <1>3
    <3> QED
      BY <2>2, <2>3, <3>1, PathSame
  <2>5. 1 \in 1 .. N + 1 /\ UpTo(Values, 1 - 1) = << >>
    BY <1>1, UpToNone
  <2>6. Whole(a)'
    BY <2>1, <2>2, <2>3, <2>4 DEF Whole, N
  <2>7. Print1State'
    BY <2>1, <2>2, <2>3, <2>5, <2>6 DEF Print1State, N
  <2> QED
    BY <2>1, <2>7 DEF ListInv
<1>4. CASE Lists!Then("print1", "filter", list)
  <2>1. /\ job_at = "print1" /\ job_at' = "filter" /\ node = 0 /\ node' = list
        /\ UNCHANGED <<variant, left, heap, list, odd, tail, shown>>
    BY <1>4 DEF Lists!Then
  <2>2. PICK a, k :
          /\ k \in 1 .. N + 1 /\ node = At(a, N, k) /\ Whole(a)
          /\ DOMAIN heap = NodesFrom(a, N, 1)
          /\ odd = 0 /\ tail = 0 /\ shown = <<UpTo(Values, k - 1), << >> >>
    BY <2>1 DEF ListInv, Print1State
  <2>3. k = N + 1
    <3>1. Path(heap, a, N, 1, Values)
      BY <2>2 DEF Whole
    <3> QED
      BY <1>1, <2>1, <2>2, <3>1, AtEnd
  <2>4. shown = <<Values, << >> >>
    <3>1. k - 1 = Len(Values)
      BY <1>1, <2>3 DEF N
    <3> QED
      BY <1>1, <2>2, <3>1, UpToAll
  <2> DEFINE b == [i \in 1 .. 0 |-> 0]
  <2>5. /\ Path(heap, b, 0, 1, << >>) /\ At(b, 0, 1) = 0 /\ At(b, 0, 0) = 0
        /\ NodesFrom(b, 0, 1) = {} /\ Apart(a, N, b, 0)
    BY DEF Path, At, NodesFrom, Apart
  <2> HIDE DEF b
  <2>6. Len(<< >>) = 0 /\ variant' = variant
    BY <2>1
  <2>7. Copied(b, << >>)'
    BY <1>2, <2>1, <2>2, <2>5, <2>6 DEF Copied, Sorted
  <2>8. 1 \in 1 .. N + 1 /\ Lists!OddUpTo[1 - 1] = << >>
    BY <1>1
  <2>9. Whole(a)'
    BY <2>1, <2>2 DEF Whole, N
  <2>10. DOMAIN heap' = NodesFrom(a, N, 1) \cup NodesFrom(b, 0, 1) /\ node' = At(a, N, 1)
    BY <2>1, <2>2, <2>5 DEF Whole
  <2>11. FilterState'
    BY <2>1, <2>4, <2>5, <2>6, <2>7, <2>8, <2>9, <2>10 DEF FilterState, N
  <2> QED
    BY <2>1, <2>11 DEF ListInv
<1>5. CASE Lists!Then("filter", "print2", odd)
  <2>1. /\ job_at = "filter" /\ job_at' = "print2" /\ node = 0 /\ node' = odd
        /\ UNCHANGED <<variant, left, heap, list, odd, tail, shown>>
    BY <1>5 DEF Lists!Then
  <2>2. PICK a, b, k, s :
          /\ k \in 1 .. N + 1 /\ node = At(a, N, k) /\ Whole(a)
          /\ s = Lists!OddUpTo[k - 1] /\ Copied(b, s) /\ Apart(a, N, b, Len(s))
          /\ DOMAIN heap = NodesFrom(a, N, 1) \cup NodesFrom(b, Len(s), 1)
          /\ shown = <<Values, << >> >>
    BY <2>1 DEF ListInv, FilterState
  <2>3. k = N + 1
    <3>1. Path(heap, a, N, 1, Values)
      BY <2>2 DEF Whole
    <3> QED
      BY <1>1, <2>1, <2>2, <3>1, AtEnd
  <2>4. s = Lists!Odd
    <3>1. k - 1 = N
      BY <1>1, <2>3
    <3> QED
      BY <1>1, <2>2, <3>1
  <2>5. 1 \in 1 .. Len(Lists!Odd) + 1 /\ UpTo(Sorted(Lists!Odd), 1 - 1) = << >>
    BY <1>1, UpToNone
  <2>6. Whole(a)' /\ Copied(b, s)' /\ Sorted(s)' = Sorted(s)
    BY <2>1, <2>2 DEF Whole, Copied, Sorted, N
  <2>7. node' = At(b, Len(s), 1)
    BY <2>1, <2>2 DEF Copied
  <2>8. Print2State'
    BY <2>1, <2>2, <2>4, <2>5, <2>6, <2>7 DEF Print2State, N
  <2> QED
    BY <2>1, <2>8 DEF ListInv
<1>6. CASE Lists!Then("print2", IF variant = "orig" THEN "end" ELSE "free1",
                      IF variant = "orig" THEN 0 ELSE list)
  <2>1. /\ job_at = "print2" /\ node = 0
        /\ job_at' = IF variant = "orig" THEN "end" ELSE "free1"
        /\ node' = IF variant = "orig" THEN 0 ELSE list
        /\ UNCHANGED <<variant, left, heap, list, odd, tail, shown>>
    BY <1>6 DEF Lists!Then
  <2> DEFINE s == Lists!Odd
  <2>2. PICK a, b, k :
          /\ k \in 1 .. Len(s) + 1 /\ node = At(b, Len(s), k) /\ Whole(a)
          /\ Copied(b, s) /\ Apart(a, N, b, Len(s))
          /\ DOMAIN heap = NodesFrom(a, N, 1) \cup NodesFrom(b, Len(s), 1)
          /\ shown = <<Values, UpTo(Sorted(s), k - 1)>>
    BY <2>1 DEF ListInv, Print2State
  <2> HIDE DEF s
  <2>3. k = Len(s) + 1
    <3>1. Path(heap, b, Len(s), 1, Sorted(s))
      BY <2>2 DEF Copied
    <3> QED
      BY <1>1, <2>1, <2>2, <3>1, AtEnd
  <2>4. Printed
    <3>1. k - 1 = Len(Sorted(s))
      BY <1>1, <1>2, <2>3 DEF s
    <3> QED
      BY <1>2, <2>2, <3>1, UpToAll DEF Printed, s
  <2>5. Printed' /\ Sorted(s)' = Sorted(s)
    BY <2>1, <2>4 DEF Printed, Sorted
  <2>6. CASE variant = "orig"
    BY <2>1, <2>5, <2>6 DEF ListInv, EndState
  <2>7. CASE variant # "orig"
    <3>1. 1 \in 1 .. N + 1 /\ node' = At(a, N, 1)
      BY <1>1, <2>1, <2>2, <2>7 DEF Whole
    <3>2. Free1State'
      BY <2>1, <2>2, <2>5, <2>7, <3>1 DEF Free1State, Whole, Copied, N, s
    <3> QED
      BY <2>1, <2>7, <3>2 DEF ListInv
  <2> QED
    BY <2>6, <2>7
<1>7. CASE Lists!Then("free1", "free2", odd)
  <2>1. /\ job_at = "free1" /\ job_at' = "free2" /\ node = 0 /\ node' = odd
        /\ UNCHANGED <<variant, left, heap, list, odd, tail, shown>>
    BY <1>7 DEF Lists!Then
  <2> DEFINE s == Lists!Odd
  <2>2. PICK a, b, k :
          /\ k \in 1 .. N + 1 /\ node = At(a, N, k) /\ Path(heap, a, N, k, Values)
          /\ Path(heap, b, Len(s), 1, Sorted(s)) /\ odd = At(b, Len(s), 1)
          /\ DOMAIN heap = NodesFrom(a, N, k) \cup NodesFrom(b, Len(s), 1)
          /\ Printed /\ variant # "orig"
    BY <2>1 DEF ListInv, Free1State
  <2> HIDE DEF s
  <2>3. k = N + 1
    <3>1. k \in Nat \ {0}
      BY <1>1, <2>2
    <3> QED
      BY <1>1, <2>1, <2>2, <3>1, AtEnd
  <2>4. NodesFrom(a, N, k) = {}
    BY <1>1, <2>3 DEF NodesFrom
  <2>5. 1 \in 1 .. Len(s) + 1
    BY <1>1 DEF s
  <2>6. Printed' /\ Sorted(s)' = Sorted(s)
    BY <2>1, <2>2 DEF Printed, Sorted
  <2>7. Free2State'
    BY <2>1, <2>2, <2>4, <2>5, <2>6 DEF Free2State, s
  <2> QED
    BY <2>1, <2>7 DEF ListInv
<1>8. CASE Lists!Then("free2", "end", 0)
  <2>1. /\ job_at = "free2" /\ job_at' = "end" /\ node = 0
        /\ UNCHANGED <<variant, left, heap, list, odd, tail, shown>>
    BY <1>8 DEF Lists!Then
  <2> DEFINE s == Lists!Odd
  <2>2. PICK b, k :
          /\ k \in 1 .. Len(s) + 1 /\ node = At(b, Len(s), k)
          /\ Path(heap, b, Len(s), k, Sorted(s)) /\ DOMAIN heap = NodesFrom(b, Len(s), k)
          /\ Printed
    BY <2>1 DEF ListInv, Free2State
  <2> HIDE DEF s
  <2>3. k = Len(s) + 1
    <3>1. k \in Nat \ {0}
      BY <1>1, <2>2 DEF s
    <3> QED
      BY <1>1, <2>1, <2>2, <3>1, AtEnd
  <2>4. NodesFrom(b, Len(s), k) = {}
    BY <1>1, <2>3 DEF NodesFrom, s
  <2>5. Printed'
    BY <2>1, <2>2 DEF Printed, Sorted
  <2>6. EndState'
    BY <2>1, <2>2, <2>4, <2>5 DEF EndState
  <2> QED
    BY <2>1, <2>6 DEF ListInv
<1> QED
  BY <1>3, <1>4, <1>5, <1>6, <1>7, <1>8 DEF Lists!main
LEMMA Print1Keeps ==
  ASSUME ListInv, Lists!m("print1", 1)
  PROVE  ListInv'
<1>1. /\ job_at = "print1" /\ job_at' = "print1" /\ node # 0 /\ node' = heap[node].next
      /\ shown' = [shown EXCEPT ![1] = Append(@, heap[node].value)]
      /\ UNCHANGED <<variant, left, heap, list, odd, tail>>
  BY DEF Lists!m
<1>2. PICK a, k :
        /\ k \in 1 .. N + 1 /\ node = At(a, N, k) /\ Whole(a)
        /\ DOMAIN heap = NodesFrom(a, N, 1)
        /\ odd = 0 /\ tail = 0 /\ shown = <<UpTo(Values, k - 1), << >> >>
  BY <1>1 DEF ListInv, Print1State
<1>3. 1 \in Nat \ {0} /\ N \in Nat /\ k >= 1 /\ At(a, N, k) # 0 /\ Path(heap, a, N, 1, Values)
  BY <1>1, <1>2, OddLength DEF Whole
<1>4. /\ k \in 1 .. N /\ k + 1 \in 1 .. N + 1 /\ (k + 1) - 1 = k
      /\ heap[node].value = Values[k] /\ heap[node].next = At(a, N, k + 1)
  <2>1. /\ k \in 1 .. N /\ k + 1 \in 1 .. N + 1 /\ (k + 1) - 1 = k
        /\ At(a, N, k) = a[k]
        /\ heap[a[k]].value = Values[k] /\ heap[a[k]].next = At(a, N, k + 1)
    BY <1>2, <1>3, NotAtEnd
  <2> QED
    BY <1>2, <2>1
<1>5. Append(UpTo(Values, k - 1), Values[k]) = UpTo(Values, k)
  BY <1>4, ValuesTyped, UpToNext DEF N
<1>6. shown' = <<UpTo(Values, k), << >> >>
  <2>1. shown' = <<Append(UpTo(Values, k - 1), heap[node].value), << >> >>
    BY <1>1, <1>2
  <2> QED
    BY <1>4, <1>5, <2>1
<1>7. Whole(a)'
  BY <1>1, <1>2 DEF Whole, N
<1>8. Print1State'
  BY <1>1, <1>2, <1>4, <1>6, <1>7 DEF Print1State, N
<1> QED
  BY <1>1, <1>8 DEF ListInv

LEMMA Print2Keeps ==
  ASSUME ListInv, Lists!m("print2", 2)
  PROVE  ListInv'
<1>1. /\ job_at = "print2" /\ job_at' = "print2" /\ node # 0 /\ node' = heap[node].next
      /\ shown' = [shown EXCEPT ![2] = Append(@, heap[node].value)]
      /\ UNCHANGED <<variant, left, heap, list, odd, tail>>
  BY DEF Lists!m
<1> DEFINE s == Lists!Odd
<1>2. PICK a, b, k :
        /\ k \in 1 .. Len(s) + 1 /\ node = At(b, Len(s), k) /\ Whole(a)
        /\ Copied(b, s) /\ Apart(a, N, b, Len(s))
        /\ DOMAIN heap = NodesFrom(a, N, 1) \cup NodesFrom(b, Len(s), 1)
        /\ shown = <<Values, UpTo(Sorted(s), k - 1)>>
  BY <1>1 DEF ListInv, Print2State
<1>3. s \in Seq(Nat) /\ Len(s) \in Nat
  BY OddLength
<1> HIDE DEF s
<1>4. Sorted(s) \in Seq(Nat) /\ Len(Sorted(s)) = Len(s)
  BY <1>3, SortedTyped
<1>5. 1 \in Nat \ {0} /\ k >= 1 /\ At(b, Len(s), k) # 0 /\ Path(heap, b, Len(s), 1, Sorted(s))
  BY <1>1, <1>2, <1>3 DEF Copied
<1>6. /\ k \in 1 .. Len(s) /\ k + 1 \in 1 .. Len(s) + 1 /\ (k + 1) - 1 = k
      /\ heap[node].value = Sorted(s)[k] /\ heap[node].next = At(b, Len(s), k + 1)
  <2>1. /\ k \in 1 .. Len(s) /\ k + 1 \in 1 .. Len(s) + 1 /\ (k + 1) - 1 = k
        /\ At(b, Len(s), k) = b[k]
        /\ heap[b[k]].value = Sorted(s)[k] /\ heap[b[k]].next = At(b, Len(s), k + 1)
    BY <1>2, <1>3, <1>5, NotAtEnd
  <2> QED
    BY <1>2, <2>1
<1>7. Append(UpTo(Sorted(s), k - 1), Sorted(s)[k]) = UpTo(Sorted(s), k)
  BY <1>4, <1>6, UpToNext
<1>8. shown' = <<Values, UpTo(Sorted(s), k)>>
  <2>1. shown' = <<Values, Append(UpTo(Sorted(s), k - 1), heap[node].value)>>
    BY <1>1, <1>2
  <2> QED
    BY <1>6, <1>7, <2>1
<1>9. Whole(a)' /\ Copied(b, s)' /\ Sorted(s)' = Sorted(s)
  BY <1>1, <1>2 DEF Whole, Copied, Sorted, N
<1>10. Print2State'
  <2>1. node' = At(b, Len(s), k + 1)
    BY <1>1, <1>6
  <2>2. shown' = <<Values, UpTo(Sorted(s)', (k + 1) - 1)>>
    BY <1>6, <1>8, <1>9
  <2>3. DOMAIN heap' = NodesFrom(a, N, 1) \cup NodesFrom(b, Len(s), 1)
    BY <1>1, <1>2
  <2>4. /\ k + 1 \in 1 .. Len(s) + 1 /\ Whole(a)' /\ Copied(b, s)' /\ Apart(a, N, b, Len(s))
    BY <1>2, <1>6, <1>9
  <2> QED
    BY <2>1, <2>2, <2>3, <2>4 DEF Print2State, N, s
<1> QED
  BY <1>1, <1>10 DEF ListInv

(* What remains of a path when its first node is freed.                    *)
LEMMA PathFreed ==
  ASSUME NEW a, NEW n, NEW k \in Nat \ {0}, NEW s, Path(heap, a, n, k, s), k \in 1 .. n,
         node = a[k], Lists!free_list
  PROVE  /\ Path(heap', a, n, k + 1, s) /\ At(a, n, k + 1) = node'
         /\ NodesFrom(a, n, k + 1) = NodesFrom(a, n, k) \ {node}
<1>1. node' = heap[node].next /\ heap' = [c \in DOMAIN heap \ {node} |-> heap[c]] /\ n \in Nat
  BY DEF Lists!free_list, Path
<1>2. k \in k .. n /\ heap[node].next = At(a, n, k + 1)
  <2>1. k \in k .. n
    BY <1>1
  <2>2. heap[a[k]] = [value |-> s[k], next |-> At(a, n, k + 1)]
    BY <2>1 DEF Path
  <2> QED
    BY <2>1, <2>2
<1>3. \A i \in k + 1 .. n : i \in 1 .. n /\ i \in k .. n /\ i # k
  BY <1>1
<1>4. \A i \in k + 1 .. n : a[i] # a[k]
  BY <1>3 DEF Path
<1>5. k .. n = (k + 1 .. n) \cup {k}
  BY <1>1
<1>6. NodesFrom(a, n, k + 1) = NodesFrom(a, n, k) \ {node}
  BY <1>4, <1>5 DEF NodesFrom
<1>7. \A c \in NodesFrom(a, n, k + 1) : c \in DOMAIN heap' /\ heap'[c] = heap[c]
  <2>1. \A i \in k .. n : a[i] \in DOMAIN heap
    BY DEF Path
  <2> QED
    BY <1>1, <1>6, <2>1 DEF NodesFrom
<1>8. k + 1 \in Nat \ {0} /\ k + 1 >= k
  OBVIOUS
<1>9. Path(heap', a, n, k + 1, s)
  <2> DEFINE g == heap'
  <2>1. \A c \in NodesFrom(a, n, k + 1) : c \in DOMAIN g /\ g[c] = heap[c]
    BY <1>7
  <2> HIDE DEF g
  <2>2. Path(g, a, n, k + 1, s)
    BY <1>8, <2>1, PathStays
  <2> QED
    BY <2>2 DEF g
<1> QED
  BY <1>1, <1>2, <1>6, <1>9

LEMMA FreeKeeps ==
  ASSUME ListInv, Lists!free_list
  PROVE  ListInv'
<1>1. /\ node # 0 /\ heap' = [c \in DOMAIN heap \ {node} |-> heap[c]] /\ job_at' = job_at
      /\ UNCHANGED <<variant, left, list, odd, tail, shown>>
  BY DEF Lists!free_list
<1> DEFINE s == Lists!Odd
<1>2. s \in Seq(Nat) /\ Len(s) \in Nat /\ N \in Nat
  BY OddLength
<1>3. CASE job_at = "free1"
  <2>1. PICK a, b, k :
          /\ k \in 1 .. N + 1 /\ node = At(a, N, k) /\ Path(heap, a, N, k, Values)
          /\ Path(heap, b, Len(s), 1, Sorted(s)) /\ odd = At(b, Len(s), 1)
          /\ Apart(a, N, b, Len(s))
          /\ DOMAIN heap = NodesFrom(a, N, k) \cup NodesFrom(b, Len(s), 1)
          /\ Printed /\ variant # "orig"
    BY <1>3 DEF ListInv, Free1State
  <2> HIDE DEF s
  <2>2. k \in Nat \ {0} /\ k >= k
    BY <1>2, <2>1
  <2>3. k \in 1 .. N /\ k + 1 \in 1 .. N + 1 /\ node = a[k]
    BY <1>1, <1>2, <2>1, <2>2, NotAtEnd
  <2>4. /\ Path(heap', a, N, k + 1, Values) /\ At(a, N, k + 1) = node'
        /\ NodesFrom(a, N, k + 1) = NodesFrom(a, N, k) \ {node}
    BY <2>1, <2>2, <2>3, PathFreed
  <2>5. node \notin NodesFrom(b, Len(s), 1)
    BY <2>1, <2>3 DEF Apart, NodesFrom
  <2>6. Path(heap', b, Len(s), 1, Sorted(s))
    <3> DEFINE g == heap'
    <3>1. \A c \in NodesFrom(b, Len(s), 1) : c \in DOMAIN g /\ g[c] = heap[c]
      BY <1>1, <2>1, <2>5
    <3> HIDE DEF g
    <3>2. 1 \in Nat \ {0} /\ 1 >= 1
      OBVIOUS
    <3>3. Path(g, b, Len(s), 1, Sorted(s))
      BY <2>1, <3>1, <3>2, PathStays
    <3> QED
      BY <3>3 DEF g
  <2>7. DOMAIN heap' = NodesFrom(a, N, k + 1) \cup NodesFrom(b, Len(s), 1)
    BY <1>1, <2>1, <2>4, <2>5
  <2>8. Printed' /\ Sorted(s)' = Sorted(s)
    BY <1>1, <2>1 DEF Printed, Sorted
  <2>9. Free1State'
    BY <1>1, <2>1, <2>3, <2>4, <2>6, <2>7, <2>8 DEF Free1State, N, s, Sorted
  <2> QED
    BY <1>1, <1>3, <2>9 DEF ListInv
<1>4. CASE job_at = "free2"
  <2>1. PICK b, k :
          /\ k \in 1 .. Len(s) + 1 /\ node = At(b, Len(s), k)
          /\ Path(heap, b, Len(s), k, Sorted(s)) /\ DOMAIN heap = NodesFrom(b, Len(s), k)
          /\ Printed /\ variant # "orig"
    BY <1>4 DEF ListInv, Free2State
  <2> HIDE DEF s
  <2>2. k \in Nat \ {0} /\ k >= k
    BY <1>2, <2>1
  <2>3. k \in 1 .. Len(s) /\ k + 1 \in 1 .. Len(s) + 1 /\ node = b[k]
    BY <1>1, <1>2, <2>1, <2>2, NotAtEnd
  <2>4. /\ Path(heap', b, Len(s), k + 1, Sorted(s)) /\ At(b, Len(s), k + 1) = node'
        /\ NodesFrom(b, Len(s), k + 1) = NodesFrom(b, Len(s), k) \ {node}
    BY <2>1, <2>2, <2>3, PathFreed
  <2>5. DOMAIN heap' = NodesFrom(b, Len(s), k + 1)
    BY <1>1, <2>1, <2>4
  <2>6. Printed' /\ Sorted(s)' = Sorted(s)
    BY <1>1, <2>1 DEF Printed, Sorted
  <2>7. Free2State'
    BY <1>1, <2>1, <2>3, <2>4, <2>5, <2>6 DEF Free2State, s
  <2> QED
    BY <1>1, <1>4, <2>7 DEF ListInv
<1> QED
  BY <1>3, <1>4 DEF Lists!free_list

(* h becomes g as the node c is put at the end of a path.                  *)
PutBack(h, g, a, n, s, t, c) ==
  /\ c \in Cells /\ Path(h, a, n, 1, s) /\ c \notin DOMAIN h
  /\ DOMAIN g = DOMAIN h \cup {c} /\ g[c] = [value |-> t[n + 1], next |-> 0]
  /\ \A d \in DOMAIN h : d # At(a, n, n) => g[d] = h[d]
  /\ n # 0 => g[a[n]] = [value |-> h[a[n]].value, next |-> c]
  /\ \A i \in 1 .. n : t[i] = s[i]

LEMMA PutBackPath ==
  ASSUME NEW h, NEW g, NEW a, NEW n, NEW s, NEW t, NEW c, PutBack(h, g, a, n, s, t, c)
  PROVE  /\ Path(g, Back(a, n, c), n + 1, 1, t)
         /\ At(Back(a, n, c), n + 1, 1) = IF n = 0 THEN c ELSE At(a, n, 1)
         /\ At(Back(a, n, c), n + 1, n + 1) = c
         /\ NodesFrom(Back(a, n, c), n + 1, 1) = NodesFrom(a, n, 1) \cup {c}
  BY PathBack DEF PutBack

(* The filter has gone one node further; an odd value is in a node c more. *)
LEMMA Further ==
  ASSUME NEW a, NEW b, NEW k \in 1 .. N, NEW s \in Seq(Nat), NEW d, NEW t \in Seq(Nat), NEW e,
         job_at' = "filter", N \in Nat,
         node' = At(a, N, k + 1), Whole(a), list' = list, Apart(a, N, b, Len(s)),
         DOMAIN heap = NodesFrom(a, N, 1) \cup NodesFrom(b, Len(s), 1),
         t = Lists!OddUpTo[k], Copied(d, t)',
         NodesFrom(d, Len(t), 1) = NodesFrom(b, Len(s), 1) \cup e,
         DOMAIN heap' = DOMAIN heap \cup e, e \cap DOMAIN heap = {},
         \A x \in NodesFrom(a, N, 1) : heap'[x] = heap[x],
         shown' = <<Values, << >> >>
  PROVE  FilterState'
<1>1. Whole(a)'
  <2> DEFINE g == heap'
  <2>1. \A x \in NodesFrom(a, N, 1) : x \in DOMAIN g /\ g[x] = heap[x]
    OBVIOUS
  <2> HIDE DEF g
  <2>2. Path(heap, a, N, 1, Values) /\ 1 \in Nat \ {0} /\ 1 >= 1
    BY DEF Whole
  <2>3. Path(g, a, N, 1, Values)
    BY <2>1, <2>2, PathStays
  <2>4. list' = At(a, N, 1)
    BY DEF Whole
  <2> QED
    BY <2>3, <2>4 DEF Whole, g, N
<1>2. Apart(a, N, d, Len(t))
  <2> SUFFICES ASSUME NEW i \in 1 .. N, NEW j \in 1 .. Len(t), a[i] = d[j] PROVE FALSE
    BY DEF Apart
  <2>1. d[j] \in NodesFrom(b, Len(s), 1) \cup e
    BY DEF NodesFrom
  <2>2. a[i] \in NodesFrom(a, N, 1) /\ a[i] \notin NodesFrom(b, Len(s), 1)
    BY DEF NodesFrom, Apart
  <2> QED
    BY <2>1, <2>2
<1>3. DOMAIN heap' = NodesFrom(a, N, 1) \cup NodesFrom(d, Len(t), 1)
  OBVIOUS
<1>4. k + 1 \in 1 .. N + 1 /\ (k + 1) - 1 = k
  OBVIOUS
<1>5. t = Lists!OddUpTo[(k + 1) - 1]
  BY <1>4
<1> QED
  BY <1>1, <1>2, <1>3, <1>4, <1>5 DEF FilterState, N

LEMMA FilterKeeps ==
  ASSUME ListInv, Lists!f
  PROVE  ListInv'
<1>1. /\ job_at = "filter" /\ job_at' = "filter" /\ node # 0 /\ node' = heap[node].next
      /\ UNCHANGED <<variant, left, list, shown>>
  BY DEF Lists!f
<1>2. PICK a, b, k, s :
        /\ k \in 1 .. N + 1 /\ node = At(a, N, k) /\ Whole(a)
        /\ s = Lists!OddUpTo[k - 1] /\ Copied(b, s) /\ Apart(a, N, b, Len(s))
        /\ DOMAIN heap = NodesFrom(a, N, 1) \cup NodesFrom(b, Len(s), 1)
        /\ shown = <<Values, << >> >>
  BY <1>1 DEF ListInv, FilterState
<1>3. 1 \in Nat \ {0} /\ N \in Nat /\ k >= 1 /\ At(a, N, k) # 0 /\ Path(heap, a, N, 1, Values)
  BY <1>1, <1>2, OddLength DEF Whole
<1>4. /\ k \in 1 .. N /\ At(a, N, k) = a[k]
      /\ heap[a[k]].value = Values[k] /\ heap[a[k]].next = At(a, N, k + 1)
  BY <1>2, <1>3, NotAtEnd
<1>5. heap[node].value = Values[k] /\ node' = At(a, N, k + 1)
  BY <1>1, <1>2, <1>4
<1> DEFINE t == Lists!OddUpTo[k]
           n == Len(s)
           v == Values[k]
<1>6. s \in Seq(Nat) /\ t \in Seq(Nat) /\ v \in Nat
  <2>1. k - 1 \in 0 .. Len(Values) /\ k \in 0 .. Len(Values) /\ k \in 1 .. Len(Values)
    BY <1>3, <1>4 DEF N
  <2> QED
    BY <1>2, <2>1, OddTyped, ValuesTyped
<1>7. t = IF v % 2 = 1 THEN Append(s, v) ELSE s
  BY <1>2, <1>4, OddIs DEF N
<1>8. Path(heap, b, n, 1, Sorted(s)) /\ n \in Nat /\ n + 1 \in Nat
  BY <1>2, <1>6 DEF Copied
<1>9. odd = At(b, n, 1) /\ tail = IF variant = "asm" THEN At(b, n, n) ELSE 0
  BY <1>2 DEF Copied
<1> HIDE DEF t, n, v
<1>10. shown' = <<Values, << >> >>
  BY <1>1, <1>2
<1>11. CASE heap[node].value % 2 = 0 /\ UNCHANGED <<heap, odd, tail>>
  <2>1. t = s
    BY <1>5, <1>7, <1>11 DEF v
  <2>2. Copied(b, t)'
    BY <1>1, <1>2, <1>11, <2>1 DEF Copied, Sorted
  <2>3. NodesFrom(b, Len(t), 1) = NodesFrom(b, Len(s), 1) \cup {}
    BY <2>1
  <2>4. DOMAIN heap' = DOMAIN heap \cup {} /\ {} \cap DOMAIN heap = {}
        /\ \A x \in NodesFrom(a, N, 1) : heap'[x] = heap[x]
    BY <1>11
  <2>5. FilterState'
    BY <1>1, <1>2, <1>3, <1>4, <1>5, <1>6, <1>10, <2>2, <2>3, <2>4, Further DEF t
  <2> QED
    BY <1>1, <2>5 DEF ListInv
<1>12. CASE heap[node].value % 2 = 1 /\ variant # "asm" /\ UNCHANGED tail
            /\ \E c \in Lists!Malloc :
                 odd' = c /\ heap' = Lists!With(c, heap[node].value, odd)
  <2>1. PICK c \in Cells \ DOMAIN heap : odd' = c /\ heap' = Lists!With(c, v, odd)
    BY <1>5, <1>12 DEF Lists!Malloc, v
  <2>2. t = Append(s, v)
    BY <1>5, <1>7, <1>12 DEF v
  <2>3. /\ DOMAIN heap' = DOMAIN heap \cup {c}
        /\ \A d \in DOMAIN heap : heap'[d] = heap[d]
        /\ heap'[c] = [value |-> v, next |-> At(b, n, 1)]
    BY <1>9, <2>1 DEF Lists!With
  <2>4. Sorted(t)[1] = v /\ \A i \in 1 .. n : Sorted(t)[i + 1] = Sorted(s)[i]
    BY <1>6, <1>12, <2>2, SortedNext DEF n
  <2>5. Len(t) = n + 1
    BY <1>6, <2>2 DEF n
  <2> DEFINE d == Front(c, b, n)
             g == heap'
  <2>6. /\ Path(g, d, n + 1, 1, Sorted(t)) /\ At(d, n + 1, 1) = c
        /\ NodesFrom(d, n + 1, 1) = NodesFrom(b, n, 1) \cup {c}
    <3>1. g[c] = [value |-> Sorted(t)[1], next |-> At(b, n, 1)]
      BY <2>3, <2>4
    <3>2. DOMAIN g = DOMAIN heap \cup {c} /\ \A x \in DOMAIN heap : g[x] = heap[x]
      BY <2>3
    <3> HIDE DEF g
    <3> QED
      BY <1>8, <2>4, <3>1, <3>2, PathFront
  <2> HIDE DEF d
  <2>7. Copied(d, t)'
    <3>1. Sorted(t)' = Sorted(t)
      BY <1>1 DEF Sorted
    <3>2. odd' = At(d, Len(t), 1) /\ tail' = 0 /\ variant' # "asm"
      BY <1>1, <1>9, <1>12, <2>1, <2>5, <2>6
    <3> QED
      BY <2>5, <2>6, <3>1, <3>2 DEF Copied
  <2>8. NodesFrom(d, Len(t), 1) = NodesFrom(b, Len(s), 1) \cup {c}
    BY <2>5, <2>6 DEF n
  <2>9. DOMAIN heap' = DOMAIN heap \cup {c} /\ {c} \cap DOMAIN heap = {}
        /\ \A x \in NodesFrom(a, N, 1) : heap'[x] = heap[x]
    BY <1>2, <2>3
  <2>10. FilterState'
    BY <1>1, <1>2, <1>3, <1>4, <1>5, <1>6, <1>10, <2>7, <2>8, <2>9, Further DEF t
  <2> QED
    BY <1>1, <2>10 DEF ListInv
<1>13. CASE heap[node].value % 2 = 1 /\ variant = "asm"
            /\ \E c \in Lists!Malloc :
                 /\ tail' = c
                 /\ LET copied == Lists!With(c, heap[node].value, 0)
                    IN IF tail = 0 THEN odd' = c /\ heap' = copied
                                   ELSE heap' = [copied EXCEPT ![tail].next = c] /\ UNCHANGED odd
  <2>1. PICK c \in Cells \ DOMAIN heap :
          /\ tail' = c
          /\ IF tail = 0 THEN odd' = c /\ heap' = Lists!With(c, v, 0)
                         ELSE heap' = [Lists!With(c, v, 0) EXCEPT ![tail].next = c] /\ UNCHANGED odd
    BY <1>5, <1>13 DEF Lists!Malloc, v
  <2> DEFINE w == Lists!With(c, v, 0)
             g == heap'
             d == Back(b, n, c)
  <2>2. t = Append(s, v)
    BY <1>5, <1>7, <1>13 DEF v
  <2>3. /\ DOMAIN w = DOMAIN heap \cup {c} /\ w[c] = [value |-> v, next |-> 0]
        /\ \A x \in DOMAIN heap : w[x] = heap[x]
    BY DEF Lists!With
  <2>4. Sorted(t)[n + 1] = v /\ \A i \in 1 .. n : Sorted(t)[i] = Sorted(s)[i]
    BY <1>6, <1>13, <2>2, SortedNext DEF n
  <2>5. Len(t) = n + 1
    BY <1>6, <2>2 DEF n
  <2>6. tail = At(b, n, n) /\ (tail = 0 => n = 0)
        /\ (tail # 0 => /\ n # 0 /\ tail = b[n] /\ tail \in DOMAIN heap
                        /\ heap[tail] = [value |-> Sorted(s)[n], next |-> At(b, n, n + 1)])
    <3>1. tail = At(b, n, n)
      BY <1>9, <1>13
    <3>2. CASE n = 0
      BY <1>8, <3>1, <3>2 DEF At
    <3>3. CASE n # 0
      <4>1. n \in 1 .. n
        BY <1>8, <3>3
      <4>2. At(b, n, n) = b[n] /\ b[n] # 0
        BY <1>8, <4>1, Addresses
      <4>3. b[n] \in DOMAIN heap
            /\ heap[b[n]] = [value |-> Sorted(s)[n], next |-> At(b, n, n + 1)]
        BY <1>8, <4>1 DEF Path
      <4> QED
        BY <3>1, <3>3, <4>2, <4>3
    <3> QED
      BY <3>2, <3>3
  <2> HIDE DEF w
  <2>7. /\ DOMAIN g = DOMAIN heap \cup {c} /\ g[c] = [value |-> Sorted(t)[n + 1], next |-> 0]
        /\ \A x \in DOMAIN heap : x # At(b, n, n) => g[x] = heap[x]
        /\ n # 0 => g[b[n]] = [value |-> heap[b[n]].value, next |-> c]
        /\ odd' = IF n = 0 THEN c ELSE odd
    <3>1. CASE tail = 0
      <4>1. g = w /\ n = 0 /\ odd' = c
        BY <2>1, <2>6, <3>1 DEF w
      <4> HIDE DEF g
      <4> QED
        BY <2>3, <2>4, <2>6, <4>1
    <3>2. CASE tail # 0
      <4>1. g = [w EXCEPT ![tail] = [w[tail] EXCEPT !.next = c]] /\ odd' = odd
        BY <2>1, <3>2 DEF w
      <4>2. tail \in DOMAIN heap /\ tail # c /\ w[tail] = heap[tail] /\ n # 0 /\ tail = b[n]
        BY <2>3, <2>6, <3>2
      <4> HIDE DEF g
      <4>3. DOMAIN g = DOMAIN w /\ g[c] = w[c] /\ \A x \in DOMAIN heap : x # tail => g[x] = w[x]
        BY <2>3, <4>1, <4>2
      <4>4. g[tail] = [heap[tail] EXCEPT !.next = c]
        BY <2>3, <4>1, <4>2
      <4>5. g[tail] = [value |-> heap[tail].value, next |-> c]
        BY <2>6, <3>2, <4>4
      <4> QED
        BY <2>3, <2>4, <2>6, <4>1, <4>2, <4>3, <4>5
    <3> QED
      BY <3>1, <3>2
  <2>8. /\ Path(g, d, n + 1, 1, Sorted(t))
        /\ At(d, n + 1, 1) = IF n = 0 THEN c ELSE At(b, n, 1)
        /\ At(d, n + 1, n + 1) = c
        /\ NodesFrom(d, n + 1, 1) = NodesFrom(b, n, 1) \cup {c}
    <3> HIDE DEF g
    <3>1. /\ c \in Cells /\ c \notin DOMAIN heap /\ Path(heap, b, n, 1, Sorted(s))
          /\ \A i \in 1 .. n : Sorted(t)[i] = Sorted(s)[i]
      BY <1>8, <2>1, <2>4
    <3>2. /\ Path(g, Back(b, n, c), n + 1, 1, Sorted(t))
          /\ At(Back(b, n, c), n + 1, 1) = IF n = 0 THEN c ELSE At(b, n, 1)
          /\ At(Back(b, n, c), n + 1, n + 1) = c
          /\ NodesFrom(Back(b, n, c), n + 1, 1) = NodesFrom(b, n, 1) \cup {c}
      <4> HIDE DEF d
      <4>1. PutBack(heap, g, b, n, Sorted(s), Sorted(t), c)
        BY <2>7, <3>1 DEF PutBack
      <4> QED
        BY <4>1, PutBackPath
    <3> QED
      BY <3>2
  <2> HIDE DEF d
  <2>9. Copied(d, t)'
    <3>1. Sorted(t)' = Sorted(t)
      BY <1>1 DEF Sorted
    <3>2. odd' = At(d, Len(t), 1) /\ tail' = At(d, Len(t), Len(t)) /\ variant' = "asm"
      BY <1>1, <1>9, <1>13, <2>1, <2>5, <2>7, <2>8
    <3> QED
      BY <2>5, <2>8, <3>1, <3>2 DEF Copied
  <2>10. NodesFrom(d, Len(t), 1) = NodesFrom(b, Len(s), 1) \cup {c}
    BY <2>5, <2>8 DEF n
  <2>11. DOMAIN heap' = DOMAIN heap \cup {c} /\ {c} \cap DOMAIN heap = {}
    BY <2>7
  <2>12. \A x \in NodesFrom(a, N, 1) : heap'[x] = heap[x]
    <3> SUFFICES ASSUME NEW x \in NodesFrom(a, N, 1) PROVE g[x] = heap[x]
      OBVIOUS
    <3>1. x \in DOMAIN heap
      BY <1>2
    <3>2. PICK i \in 1 .. N : x = a[i]
      BY DEF NodesFrom
    <3>3. x # 0
      <4>1. \A j \in 1 .. N : a[j] \in Cells /\ a[j] # 0 /\ At(a, N, j) = a[j]
        BY <1>3, Addresses
      <4> QED
        BY <3>2, <4>1
    <3>4. x # At(b, n, n)
      <4>1. CASE n \in 1 .. n
        BY <1>2, <3>2, <4>1 DEF Apart, At, n
      <4>2. CASE n \notin 1 .. n
        BY <3>3, <4>2 DEF At
      <4> QED
        BY <4>1, <4>2
    <3> QED
      BY <2>7, <3>1, <3>4
  <2>13. FilterState'
    BY <1>1, <1>2, <1>3, <1>4, <1>5, <1>6, <1>10, <2>9, <2>10, <2>11, <2>12, Further DEF t
  <2> QED
    BY <1>1, <2>13 DEF ListInv
<1> QED
  BY <1>11, <1>12, <1>13 DEF Lists!f

LEMMA ListStep == ListInv /\ [Next]_vars => ListInv'
<1> SUFFICES ASSUME ListInv, [Next]_vars PROVE ListInv'
  OBVIOUS
<1>1. CASE Lists!Next
  BY <1>1, StartKeeps, AddKeeps, AbortKeeps, Print1Keeps, Print2Keeps, FilterKeeps, FreeKeeps,
     ThenKeeps DEF Lists!Next
<1>2. CASE UNCHANGED listVars
  <2>1. UNCHANGED <<variant, job_at, left, heap, list, odd, tail, node, shown>>
    BY <1>2 DEF listVars
  <2>2. job_at \in {"start", "add", "print1", "filter", "print2", "free1", "free2", "end",
                    "aborted"} /\ variant \in {"asm", "c", "orig"}
    BY DEF ListInv
  <2>3. UNCHANGED <<StartState, AddState, Print1State>>
    BY <2>1 DEF StartState, AddState, Print1State, Whole, N
  <2>4. UNCHANGED <<FilterState, Print2State>>
    BY <2>1 DEF FilterState, Print2State, Whole, Copied, Sorted, N
  <2>5. UNCHANGED <<Free1State, Free2State, EndState, NoWildPointer>>
    BY <2>1 DEF Free1State, Free2State, EndState, NoWildPointer, Printed, Sorted, N
  <2> QED
    BY <2>1, <2>2, <2>3, <2>4, <2>5 DEF ListInv
<1> QED
  BY <1>1, <1>2, OneRuns

LEMMA ListInit == Init => ListInv
  BY DEF Init, Lists!Init, ListInv, StartState

LEMMA FreedIsThere ==
  ASSUME ListInv, job_at \in {"free1", "free2"}
  PROVE  {node} \ {0} \subseteq DOMAIN heap
<1> SUFFICES ASSUME node # 0 PROVE node \in DOMAIN heap
  OBVIOUS
<1>1. N \in Nat /\ Len(Lists!Odd) \in Nat
  BY OddLength
<1>2. CASE job_at = "free1"
  <2>1. PICK a, k : k \in 1 .. N + 1 /\ node = At(a, N, k) /\ Path(heap, a, N, k, Values)
    BY <1>2 DEF ListInv, Free1State
  <2>2. k \in Nat \ {0} /\ k >= k
    BY <1>1, <2>1
  <2>3. At(a, N, k) # 0
    BY <2>1
  <2>4. At(a, N, k) = a[k] /\ a[k] \in DOMAIN heap
    BY <1>1, <2>1, <2>2, <2>3, NotAtEnd
  <2> QED
    BY <2>1, <2>4
<1>3. CASE job_at = "free2"
  <2>1. PICK b, k : /\ k \in 1 .. Len(Lists!Odd) + 1 /\ node = At(b, Len(Lists!Odd), k)
                    /\ Path(heap, b, Len(Lists!Odd), k, Sorted(Lists!Odd))
    BY <1>3 DEF ListInv, Free2State
  <2>2. k \in Nat \ {0} /\ k >= k
    BY <1>1, <2>1
  <2>3. At(b, Len(Lists!Odd), k) # 0
    BY <2>1
  <2>4. At(b, Len(Lists!Odd), k) = b[k] /\ b[k] \in DOMAIN heap
    BY <1>1, <2>1, <2>2, <2>3, NotAtEnd
  <2> QED
    BY <2>1, <2>4
<1> QED
  BY <1>2, <1>3

(* The three list programs, for any values and whatever malloc returns or  *)
(* refuses: m, f and free_list (main.asm:44-128, main_c.c) follow no       *)
(* pointer to a node that is freed or was never made, print both lists     *)
(* whole and in order, and leave no node behind, except in the original.   *)
THEOREM ListsAreRight == Spec => []ListsRight
<1>1. ListInv => ListsRight
  <2> SUFFICES ASSUME ListInv PROVE ListsRight
    OBVIOUS
  <2>1. {node, tail, list} \ {0} \subseteq DOMAIN heap \/ job_at \in {"free1", "free2", "end"}
    BY NoneWild DEF ListInv, NoWildPointer
  <2>2. job_at = "end" => /\ shown[1] = Values /\ shown[2] = Sorted(Lists!Odd)
                          /\ variant # "orig" => DOMAIN heap = {}
    BY DEF ListInv, EndState, Printed
  <2> QED
    BY <2>1, <2>2, FreedIsThere DEF ListsRight, Lists!ListsRight, Sorted
<1> QED
  BY <1>1, ListInit, ListStep, PTL DEF Spec

-----------------------------------------------------------------------------
(* The text converter, for any texts.                                      *)

Table == Conv!encoding_to_utf8
RowOf(b) == Table[Conv!find_element_index(2, b)]

(* The column of CP1251, and the two bytes of each row.                    *)
LEMMA Column ==
  /\ \A i \in 0 .. 95 : Table[i][3] < 128 /\ Table[i][3] \in Nat
  /\ Table[0][1] = 32 /\ Table[0][2] = 0
  /\ Table[96][1] = 208 /\ Table[96][2] = 129 /\ Table[96][3] = 168
  /\ \A i \in 97 .. 128 : /\ Table[i][1] = 208 /\ Table[i][2] = i + 47
                          /\ Table[i][3] = i + 95
  /\ Table[129][1] = 209 /\ Table[129][2] = 145 /\ Table[129][3] = 184
  /\ \A i \in 130 .. 145 : /\ Table[i][1] = 209 /\ Table[i][2] = i + 46
                           /\ Table[i][3] = i + 94
  /\ \A i \in 146 .. 161 : /\ Table[i][1] = 209 /\ Table[i][2] = i - 18
                           /\ Table[i][3] = i + 94
<1>1. ASSUME NEW i \in 0 .. 95
      PROVE  /\ Table[i][3] < 128 /\ Table[i][3] \in Nat
             /\ i = 0 => Table[i][1] = 32 /\ Table[i][2] = 0
  <2>1. CASE i = 11
    <3>1. Table[i] = <<42, 0, 42, 42, 42>>
      BY <2>1 DEF Table, Conv!encoding_to_utf8, Conv!Ascii
    <3> QED
      BY <2>1, <3>1
  <2>2. CASE i = 56
    <3>1. Table[i] = <<88, 0, 88, 87, 87>>
      BY <2>2 DEF Table, Conv!encoding_to_utf8
    <3> QED
      BY <2>2, <3>1
  <2>3. CASE i \notin {11, 56}
    <3>1. Table[i] = Conv!Ascii(32 + i)
      <4>1. i \in 0 .. 161 /\ i # 11 /\ i # 56 /\ i < 96 /\ i \notin {11, 56} /\ i # 155
        BY <2>3
      <4> QED
        BY <4>1 DEF Table, Conv!encoding_to_utf8
    <3> QED
      BY <3>1 DEF Conv!Ascii
  <2> QED
    BY <2>1, <2>2, <2>3
<1>2. Table[96] = <<208, 129, 168, 179, 179>>
  BY DEF Table, Conv!encoding_to_utf8
<1>3. ASSUME NEW i \in 97 .. 128
      PROVE  /\ Table[i][1] = 208 /\ Table[i][2] = i + 47 /\ Table[i][3] = i + 95
  <2>1. Table[i] = Conv!Upper(i - 97)
    BY DEF Table, Conv!encoding_to_utf8
  <2> QED
    BY <2>1 DEF Conv!Upper
<1>4. Table[129] = <<209, 145, 184, 163, 163>>
  BY DEF Table, Conv!encoding_to_utf8
<1>5. ASSUME NEW i \in 130 .. 145
      PROVE  /\ Table[i][1] = 209 /\ Table[i][2] = i + 46 /\ Table[i][3] = i + 94
  <2>1. Table[i] = Conv!LowerA_P(i - 130)
    BY DEF Table, Conv!encoding_to_utf8
  <2> QED
    BY <2>1 DEF Conv!LowerA_P
<1>6. ASSUME NEW i \in 146 .. 161
      PROVE  /\ Table[i][1] = 209 /\ Table[i][2] = i - 18 /\ Table[i][3] = i + 94
  <2>1. CASE i = 155
    <3>1. Table[i] = <<209, 137, 249, 205, 233>>
      BY <2>1 DEF Table, Conv!encoding_to_utf8
    <3> QED
      BY <2>1, <3>1
  <2>2. CASE i # 155
    <3>1. Table[i] = Conv!LowerR_Ya(i - 130)
      BY <2>2 DEF Table, Conv!encoding_to_utf8
    <3> QED
      BY <3>1 DEF Conv!LowerR_Ya
  <2> QED
    BY <2>1, <2>2
<1>7. 0 \in 0 .. 95
  OBVIOUS
<1> QED
  BY <1>1, <1>2, <1>3, <1>4, <1>5, <1>6, <1>7

(* Row j may have the byte v in that column.                               *)
InRow(j, v) ==
  \/ j \in 0 .. 95 /\ v \in 0 .. 127
  \/ j = 96 /\ v = 168
  \/ j \in 97 .. 128 /\ v = j + 95
  \/ j = 129 /\ v = 184
  \/ j \in 130 .. 161 /\ v = j + 94

LEMMA ColumnAt ==
  ASSUME NEW j \in 0 .. 161
  PROVE  InRow(j, Table[j][3])
<1>1. \/ j \in 0 .. 95 \/ j = 96 \/ j \in 97 .. 128 \/ j = 129 \/ j \in 130 .. 145
      \/ j \in 146 .. 161
  OBVIOUS
<1>2. CASE j \in 0 .. 95
  <2>1. Table[j][3] < 128 /\ Table[j][3] \in Nat
    BY <1>2, Column
  <2> QED
    BY <1>2, <2>1 DEF InRow
<1>3. CASE j \in 130 .. 145 \/ j \in 146 .. 161
  <2>1. Table[j][3] = j + 94
    BY <1>3, Column
  <2> QED
    BY <1>3, <2>1 DEF InRow
<1> QED
  BY <1>1, <1>2, <1>3, Column DEF InRow

LEMMA RowFound ==
  ASSUME NEW i \in 0 .. 161, NEW b, Table[i][3] = b,
         \A j \in 0 .. 161 : Table[j][3] = b => j = i
  PROVE  RowOf(b) = Table[i]
<1> DEFINE rows == {j \in 0 .. 161 : Table[j][2 + 1] = b}
<1>1. rows = {i}
  BY 2 + 1 = 3
<1>2. Conv!find_element_index(2, b) = IF rows = {} THEN 0
                                      ELSE CHOOSE j \in rows : \A k \in rows : j <= k
  BY DEF Conv!find_element_index, Table
<1> HIDE DEF rows
<1>3. (CHOOSE j \in rows : \A k \in rows : j <= k) = i
  BY <1>1
<1> QED
  BY <1>1, <1>2, <1>3 DEF RowOf

LEMMA RowAbsent ==
  ASSUME NEW b, \A j \in 0 .. 161 : Table[j][3] # b
  PROVE  RowOf(b) = Table[0]
<1> DEFINE rows == {j \in 0 .. 161 : Table[j][2 + 1] = b}
<1>1. rows = {}
  BY 2 + 1 = 3
<1>2. Conv!find_element_index(2, b) = IF rows = {} THEN 0
                                      ELSE CHOOSE j \in rows : \A k \in rows : j <= k
  BY DEF Conv!find_element_index, Table
<1> HIDE DEF rows
<1> QED
  BY <1>1, <1>2 DEF RowOf

(* What a byte from 128 on becomes.                                        *)
Bytes(b) == <<RowOf(b)[1], RowOf(b)[2]>>
Fitting(b, x) ==
  \/ b < 128 /\ x = <<b>>
  \/ b >= 128 /\ Conv!CodePoint(b) > 0 /\ b \notin 224 .. 239 /\ x = Conv!Utf8(Conv!CodePoint(b))
  \/ b \in 224 .. 239 /\ x = <<209, b - 48>>
  \/ b >= 128 /\ Conv!CodePoint(b) = 0 /\ x = <<32, 0>>

LEMMA BytesFit ==
  ASSUME NEW b \in 128 .. 255
  PROVE  Fitting(b, Bytes(b)) /\ RowOf(b)[1] \in Nat /\ RowOf(b)[2] \in Nat
<1>1. CASE b = 168
  <2>1. 96 \in 0 .. 161 /\ Table[96][3] = b
    BY <1>1, Column
  <2>2. RowOf(b) = Table[96]
    <3>1. ASSUME NEW j \in 0 .. 161, Table[j][3] = b PROVE j = 96
      <4>1. InRow(j, b)
        BY <3>1, ColumnAt
      <4> QED
        BY <1>1, <4>1 DEF InRow
    <3>2. PICK i \in 0 .. 161 : i = 96
      OBVIOUS
    <3>3. Table[i][3] = b /\ \A j \in 0 .. 161 : Table[j][3] = b => j = i
      BY <2>1, <3>1, <3>2
    <3>4. RowOf(b) = Table[i]
      BY <3>3, RowFound
    <3> QED
      BY <3>2, <3>4
  <2>3. Bytes(b) = <<208, 129>>
    BY <2>2, Column DEF Bytes
  <2>4. Conv!CodePoint(b) = 1025 /\ Conv!Utf8(1025) = <<208, 129>>
    BY <1>1 DEF Conv!CodePoint, Conv!Utf8
  <2> QED
    BY <1>1, <2>2, <2>3, <2>4, Column DEF Fitting
<1>2. CASE b = 184
  <2>1. 129 \in 0 .. 161 /\ Table[129][3] = b
    BY <1>2, Column
  <2>2. RowOf(b) = Table[129]
    <3>1. ASSUME NEW j \in 0 .. 161, Table[j][3] = b PROVE j = 129
      <4>1. InRow(j, b)
        BY <3>1, ColumnAt
      <4> QED
        BY <1>2, <4>1 DEF InRow
    <3>2. PICK i \in 0 .. 161 : i = 129
      OBVIOUS
    <3>3. Table[i][3] = b /\ \A j \in 0 .. 161 : Table[j][3] = b => j = i
      BY <2>1, <3>1, <3>2
    <3>4. RowOf(b) = Table[i]
      BY <3>3, RowFound
    <3> QED
      BY <3>2, <3>4
  <2>3. Bytes(b) = <<209, 145>>
    BY <2>2, Column DEF Bytes
  <2>4. Conv!CodePoint(b) = 1105 /\ Conv!Utf8(1105) = <<209, 145>>
    BY <1>2 DEF Conv!CodePoint, Conv!Utf8
  <2> QED
    BY <1>2, <2>2, <2>3, <2>4, Column DEF Fitting
<1>3. CASE b \in 192 .. 223
  <2>1. b - 95 \in 97 .. 128 /\ b - 95 \in 0 .. 161 /\ Table[b - 95][3] = b
    BY <1>3, Column
  <2>2. RowOf(b) = Table[b - 95]
    <3>1. ASSUME NEW j \in 0 .. 161, Table[j][3] = b PROVE j = b - 95
      <4>1. InRow(j, b)
        BY <3>1, ColumnAt
      <4> QED
        BY <1>3, <4>1 DEF InRow
    <3> QED
      BY <2>1, <3>1, RowFound
  <2>3. RowOf(b)[1] = 208 /\ RowOf(b)[2] = b - 48
    BY <2>1, <2>2, Column
  <2>4. Conv!CodePoint(b) = 848 + b
    BY <1>3 DEF Conv!CodePoint
  <2>5. (848 + b) \div 64 = 16 /\ (848 + b) % 64 = b - 176
    BY <1>3
  <2>6. Conv!Utf8(848 + b) = <<208, b - 48>>
    BY <1>3, <2>5 DEF Conv!Utf8
  <2> QED
    BY <1>3, <2>3, <2>4, <2>6 DEF Fitting, Bytes
<1>4. CASE b \in 224 .. 239
  <2>1. b - 94 \in 130 .. 145 /\ b - 94 \in 0 .. 161 /\ Table[b - 94][3] = b
    BY <1>4, Column
  <2>2. RowOf(b) = Table[b - 94]
    <3>1. ASSUME NEW j \in 0 .. 161, Table[j][3] = b PROVE j = b - 94
      <4>1. InRow(j, b)
        BY <3>1, ColumnAt
      <4> QED
        BY <1>4, <4>1 DEF InRow
    <3> QED
      BY <2>1, <3>1, RowFound
  <2>3. RowOf(b)[1] = 209 /\ RowOf(b)[2] = b - 48
    BY <2>1, <2>2, Column
  <2> QED
    BY <1>4, <2>3 DEF Fitting, Bytes
<1>5. CASE b \in 240 .. 255
  <2>1. b - 94 \in 146 .. 161 /\ b - 94 \in 0 .. 161 /\ Table[b - 94][3] = b
    BY <1>5, Column
  <2>2. RowOf(b) = Table[b - 94]
    <3>1. ASSUME NEW j \in 0 .. 161, Table[j][3] = b PROVE j = b - 94
      <4>1. InRow(j, b)
        BY <3>1, ColumnAt
      <4> QED
        BY <1>5, <4>1 DEF InRow
    <3> QED
      BY <2>1, <3>1, RowFound
  <2>3. RowOf(b)[1] = 209 /\ RowOf(b)[2] = b - 112
    BY <2>1, <2>2, Column
  <2>4. Conv!CodePoint(b) = 848 + b
    BY <1>5 DEF Conv!CodePoint
  <2>5. (848 + b) \div 64 = 17 /\ (848 + b) % 64 = b - 240
    BY <1>5
  <2>6. Conv!Utf8(848 + b) = <<209, b - 112>>
    BY <1>5, <2>5 DEF Conv!Utf8
  <2> QED
    BY <1>5, <2>3, <2>4, <2>6 DEF Fitting, Bytes
<1>6. CASE b < 192 /\ b # 168 /\ b # 184
  <2>1. ASSUME NEW j \in 0 .. 161, Table[j][3] = b PROVE FALSE
    <3>1. InRow(j, b)
      BY <2>1, ColumnAt
    <3> QED
      BY <1>6, <3>1 DEF InRow
  <2>2. RowOf(b) = Table[0]
    BY <2>1, RowAbsent
  <2>3. Conv!CodePoint(b) = 0
    BY <1>6 DEF Conv!CodePoint
  <2> QED
    BY <1>6, <2>2, <2>3, Column DEF Fitting, Bytes
<1> QED
  BY <1>1, <1>2, <1>3, <1>4, <1>5, <1>6

From(k) == Conv!From(k)
Wide(k) == IF source[k] >= 128 THEN 1 ELSE 0
Wides(k) == {j \in 1 .. k - 1 : source[j] >= 128}

LEMMA FromIs ==
  ASSUME source \in Seq(0 .. 255), NEW k \in Nat \ {0}
  PROVE  From(k) = k + Cardinality(Wides(k)) /\ IsFiniteSet(Wides(k)) /\ From(k) \in Nat
         /\ From(k) >= 1
<1>1. IsFiniteSet(1 .. k - 1)
  BY FS_Interval
<1>2. IsFiniteSet(Wides(k)) /\ Cardinality(Wides(k)) \in Nat
  BY <1>1, FS_Subset, FS_CardinalityType DEF Wides
<1>3. From(k) = k + Cardinality(Wides(k))
  BY DEF From, Conv!From, Wides, Conv!Cardinality, Cardinality
<1> QED
  BY <1>2, <1>3

LEMMA FromNext ==
  ASSUME source \in Seq(0 .. 255), NEW k \in Nat \ {0}
  PROVE  From(k + 1) = From(k) + 1 + Wide(k)
<1>1. k + 1 \in Nat \ {0} /\ 1 .. (k + 1) - 1 = 1 .. k - 1 \cup {k}
  OBVIOUS
<1>2. IsFiniteSet(Wides(k)) /\ Cardinality(Wides(k)) \in Nat
      /\ From(k) = k + Cardinality(Wides(k)) /\ From(k + 1) = (k + 1) + Cardinality(Wides(k + 1))
  BY <1>1, FromIs, FS_CardinalityType
<1>3. CASE source[k] >= 128
  <2>1. Wides(k + 1) = Wides(k) \cup {k} /\ k \notin Wides(k)
    BY <1>1, <1>3 DEF Wides
  <2>2. Cardinality(Wides(k + 1)) = Cardinality(Wides(k)) + 1
    BY <1>2, <2>1, FS_AddElement
  <2> QED
    BY <1>2, <1>3, <2>2 DEF Wide
<1>4. CASE ~(source[k] >= 128)
  <2>1. Wides(k + 1) = Wides(k)
    BY <1>1, <1>4 DEF Wides
  <2> QED
    BY <1>2, <1>4, <2>1 DEF Wide
<1> QED
  BY <1>3, <1>4

(* A piece that is there is not changed by what follows it.                *)
LEMMA PieceStays ==
  ASSUME NEW o \in Seq(Nat), NEW x \in Seq(Nat), NEW p \in Nat \ {0}, NEW q \in Nat, q <= Len(o)
  PROVE  SubSeq(o \o x, p, q) = SubSeq(o, p, q)
  OBVIOUS

LEMMA PieceNew ==
  ASSUME NEW o \in Seq(Nat), NEW x \in Seq(Nat), NEW y \in Seq(Nat), x # << >>
  PROVE  SubSeq((o \o x) \o y, Len(o) + 1, Len(o) + Len(x)) = x
  OBVIOUS

(* The first n bytes are converted.                                        *)
Converted(n) ==
  /\ Len(text) = Len(source) - n
  /\ job = "done" => n = Len(source)
  /\ \A i \in 1 .. Len(text) : text[i] = source[n + i]
  /\ Len(output) = (From(n + 1) - 1) + IF n = Len(source) /\ n # 0 THEN 1 ELSE 0
  /\ \A k \in 1 .. n : From(k) + Wide(k) < From(n + 1) /\ Fitting(source[k], Conv!Became(k))

ConvInv ==
  \/ job = "none" /\ source = << >> /\ output = << >> /\ text = << >>
  \/ job = "failed"
  \/ /\ job \in {"convert", "done"} /\ enc = 2
     /\ source \in Seq(0 .. 255) /\ text \in Seq(0 .. 255) /\ output \in Seq(Nat)
     /\ \E n \in 0 .. Len(source) : Converted(n)

LEMMA OneByte ==
  ASSUME NEW b \in 0 .. 255, NEW x, x = IF b >= 128 THEN Bytes(b) ELSE <<b>>
  PROVE  /\ x \in Seq(Nat) /\ Fitting(b, x) /\ x # << >>
         /\ Len(x) = 1 + IF b >= 128 THEN 1 ELSE 0
<1>1. CASE b >= 128
  <2>1. b \in 128 .. 255
    BY <1>1
  <2>2. Fitting(b, Bytes(b)) /\ RowOf(b)[1] \in Nat /\ RowOf(b)[2] \in Nat
    BY <2>1, BytesFit
  <2>3. Bytes(b) \in Seq(Nat) /\ Len(Bytes(b)) = 2 /\ Bytes(b) # << >>
    BY <2>2 DEF Bytes
  <2> QED
    BY <1>1, <2>2, <2>3
<1>2. CASE ~(b >= 128)
  <2>1. b < 128 /\ b \in Nat
    BY <1>2
  <2>2. <<b>> \in Seq(Nat) /\ Len(<<b>>) = 1
    BY <2>1
  <2>3. Fitting(b, <<b>>)
    BY <2>1 DEF Fitting
  <2> QED
    BY <1>2, <2>2, <2>3
<1> QED
  BY <1>1, <1>2

LEMMA OpenKeeps ==
  ASSUME ConvInv, Conv!main
  PROVE  ConvInv'
<1>1. /\ source' = text' /\ text' \in Texts /\ output' = output /\ job = "none"
      /\ job' = IF enc' = 0 THEN "failed" ELSE "convert"
      /\ enc' = Conv!detect_enc(asked')
  BY DEF Conv!main
<1>2. enc' \in {0, 2}
  BY <1>1 DEF Conv!detect_enc
<1>3. source' \in Seq(0 .. 255) /\ output' = << >> /\ Len(source') \in Nat
  BY <1>1, TextsAssumption DEF ConvInv
<1>4. From(1)' = 1
  <2>1. {j \in 1 .. 1 - 1 : source'[j] >= 128} = {}
    OBVIOUS
  <2>2. From(1)' = 1 + Cardinality({j \in 1 .. 1 - 1 : source'[j] >= 128})
    BY DEF From, Conv!From, Conv!Cardinality, Cardinality
  <2> QED
    BY <2>1, <2>2, FS_EmptySet
<1>5. Converted(0)'
  BY <1>1, <1>3, <1>4 DEF Converted
<1>6. 0 \in 0 .. Len(source')
  BY <1>3
<1> QED
  BY <1>1, <1>2, <1>3, <1>5, <1>6 DEF ConvInv

LEMMA FinishKeeps ==
  ASSUME ConvInv, Conv!Finish
  PROVE  ConvInv'
<1>1. /\ job = "convert" /\ job' = "done" /\ text = << >>
      /\ UNCHANGED <<enc, text, source, output>>
  BY DEF Conv!Finish
<1>2. PICK n \in 0 .. Len(source) : Converted(n)
  BY <1>1 DEF ConvInv
<1>3. n = Len(source)
  <2>1. 0 = Len(source) - n /\ source \in Seq(0 .. 255)
    BY <1>1, <1>2 DEF Converted, ConvInv
  <2> QED
    BY <2>1
<1>4. \A k : From(k)' = From(k) /\ Wide(k)' = Wide(k) /\ Conv!Became(k)' = Conv!Became(k)
  BY <1>1 DEF From, Conv!From, Conv!Cardinality, Wide, Conv!Became
<1>5. Converted(n)'
  BY <1>1, <1>2, <1>3, <1>4 DEF Converted
<1> QED
  BY <1>1, <1>5 DEF ConvInv

LEMMA ConvertKeeps ==
  ASSUME ConvInv, Conv!converting_to_utf8
  PROVE  ConvInv'
<1>1. /\ job = "convert" /\ job' = "convert" /\ text # << >> /\ text' = Tail(text)
      /\ UNCHANGED <<enc, source>>
  BY DEF Conv!converting_to_utf8
<1>2. PICK n \in 0 .. Len(source) : Converted(n)
  BY <1>1 DEF ConvInv
<1>3. /\ enc = 2 /\ source \in Seq(0 .. 255) /\ text \in Seq(0 .. 255) /\ output \in Seq(Nat)
  BY <1>1 DEF ConvInv
<1>4. PICK b, x, y :
        /\ b = Head(text) /\ output' = (output \o x) \o y
        /\ x = IF b >= 128 THEN Bytes(b) ELSE <<b>>
        /\ y = IF Tail(text) = << >> THEN <<13>> ELSE << >>
  BY <1>3 DEF Conv!converting_to_utf8, Bytes, RowOf, Table
<1>5. /\ Len(source) \in Nat /\ n \in Nat /\ n + 1 \in 1 .. Len(source) /\ n # Len(source)
      /\ n + 1 # 0 /\ n + 1 \in Nat \ {0}
      /\ b = source[n + 1] /\ b \in 0 .. 255 /\ text' \in Seq(0 .. 255)
      /\ Len(text') = Len(source) - (n + 1)
      /\ y = IF n + 1 = Len(source) THEN <<13>> ELSE << >>
  <2>1. Len(text) = Len(source) - n /\ \A i \in 1 .. Len(text) : text[i] = source[n + i]
    BY <1>2 DEF Converted
  <2>2. Len(text) \in Nat /\ Len(text) # 0 /\ Len(source) \in Nat /\ b = text[1]
    BY <1>1, <1>3, <1>4
  <2>3. n + 1 \in 1 .. Len(source) /\ 1 \in 1 .. Len(text) /\ n \in Nat
    BY <2>1, <2>2
  <2>4. b = source[n + 1] /\ source[n + 1] \in 0 .. 255
    BY <1>3, <2>1, <2>2, <2>3
  <2>5. PICK u : u = Tail(text) /\ u \in Seq(0 .. 255) /\ Len(u) = Len(text) - 1
    <3>1. Tail(text) \in Seq(0 .. 255) /\ Len(Tail(text)) = Len(text) - 1
      BY <1>1, <1>3
    <3> QED
      BY <3>1
  <2>6. y = IF n + 1 = Len(source) THEN <<13>> ELSE << >>
    <3>1. n + 1 = Len(source) => u = << >>
      <4>1. Len(u) = 0 => u = << >>
        BY <2>5
      <4> QED
        BY <2>1, <2>2, <2>3, <2>5, <4>1
    <3>2. u = << >> => n + 1 = Len(source)
      <4>1. u = << >> => Len(u) = 0
        OBVIOUS
      <4> QED
        BY <2>1, <2>2, <2>3, <2>5, <4>1
    <3> QED
      BY <1>4, <2>5, <3>1, <3>2
  <2>7. Len(text') = Len(source) - (n + 1)
    BY <1>1, <2>1, <2>2, <2>3, <2>5
  <2> QED
    BY <1>1, <2>2, <2>3, <2>4, <2>5, <2>6, <2>7
<1>6. x \in Seq(Nat) /\ Len(x) = 1 + Wide(n + 1) /\ Fitting(b, x) /\ x # << >>
  <2>1. Wide(n + 1) = IF b >= 128 THEN 1 ELSE 0
    BY <1>5 DEF Wide
  <2> QED
    BY <1>4, <1>5, <2>1, OneByte
<1>7. y \in Seq(Nat) /\ Len(y) = IF n + 1 = Len(source) THEN 1 ELSE 0
  BY <1>5
<1>8. /\ From(n + 1) \in Nat /\ From(n + 1) >= 1 /\ Wide(n + 1) \in {0, 1}
      /\ From((n + 1) + 1) = (From(n + 1) + 1) + Wide(n + 1)
  BY <1>3, <1>5, FromIs, FromNext DEF Wide
<1>9. Len(output) = From(n + 1) - 1
  BY <1>2, <1>5, <1>8 DEF Converted
<1>10. /\ output \o x \in Seq(Nat) /\ Len(output \o x) = Len(output) + Len(x)
       /\ output' \in Seq(Nat) /\ Len(output') = (Len(output) + Len(x)) + Len(y)
       /\ Len(output) \in Nat /\ Len(x) \in Nat
  BY <1>3, <1>4, <1>6, <1>7
<1>11. \A k : From(k)' = From(k) /\ Wide(k)' = Wide(k)
              /\ Conv!Became(k)' = SubSeq(output', From(k), From(k) + Wide(k))
              /\ Conv!Became(k) = SubSeq(output, From(k), From(k) + Wide(k))
  BY <1>1 DEF From, Conv!From, Conv!Cardinality, Wide, Conv!Became
<1>12. Len(output') = (From((n + 1) + 1) - 1)
                      + IF n + 1 = Len(source) /\ n + 1 # 0 THEN 1 ELSE 0
  <2> DEFINE p == From(n + 1)
             w == Wide(n + 1)
             q == From((n + 1) + 1)
  <2>1. p \in Nat /\ w \in {0, 1} /\ q = (p + 1) + w /\ Len(output) = p - 1 /\ Len(x) = 1 + w
    BY <1>6, <1>8, <1>9
  <2> HIDE DEF p, w, q
  <2>2. Len(output) + Len(x) = q - 1
    BY <2>1
  <2>3. Len(output') = (q - 1) + Len(y)
    BY <1>10, <2>2
  <2>4. Len(y) = IF n + 1 = Len(source) /\ n + 1 # 0 THEN 1 ELSE 0
    BY <1>5, <1>7
  <2> QED
    BY <2>3, <2>4 DEF q
<1>13. \A i \in 1 .. Len(text') : text'[i] = source[(n + 1) + i]
  <2> SUFFICES ASSUME NEW i \in 1 .. Len(text') PROVE text'[i] = source[(n + 1) + i]
    OBVIOUS
  <2>1. i + 1 \in 1 .. Len(text) /\ text'[i] = text[i + 1]
    BY <1>1, <1>3, <1>5
  <2>2. n + (i + 1) = (n + 1) + i
    BY <1>5
  <2> QED
    BY <1>2, <2>1, <2>2 DEF Converted
<1>14. ASSUME NEW k \in 1 .. n + 1
       PROVE  From(k) + Wide(k) < From((n + 1) + 1) /\ Fitting(source[k], Conv!Became(k)')
  <2>1. CASE k = n + 1
    <3>1. Conv!Became(k)' = SubSeq(output', Len(output) + 1, Len(output) + Len(x))
      <4>1. From(k) = Len(output) + 1 /\ From(k) + Wide(k) = Len(output) + Len(x)
        BY <1>6, <1>8, <1>9, <2>1
      <4> QED
        BY <1>11, <4>1
    <3>2. SubSeq((output \o x) \o y, Len(output) + 1, Len(output) + Len(x)) = x
      BY <1>3, <1>6, <1>7, PieceNew
    <3>3. Conv!Became(k)' = x
      BY <1>4, <3>1, <3>2
    <3> QED
      BY <1>5, <1>6, <1>8, <2>1, <3>3
  <2>2. CASE k \in 1 .. n
    <3>1. /\ From(k) + Wide(k) < From(n + 1) /\ Fitting(source[k], Conv!Became(k))
          /\ From(k) \in Nat \ {0} /\ Wide(k) \in {0, 1}
      <4>1. k \in Nat \ {0}
        BY <1>5, <2>2
      <4>2. From(k) \in Nat /\ From(k) >= 1
        BY <1>3, <4>1, FromIs
      <4> QED
        BY <1>2, <2>2, <4>2 DEF Converted, Wide
    <3>2. From(k) + Wide(k) \in Nat /\ From(k) + Wide(k) <= Len(output)
          /\ From(k) + Wide(k) <= Len(output \o x)
      <4> DEFINE p == From(n + 1)
                 q == From(k)
                 w == Wide(k)
      <4>1. p \in Nat /\ q \in Nat /\ w \in {0, 1} /\ q + w < p /\ Len(output) = p - 1
        BY <1>8, <1>9, <3>1
      <4> HIDE DEF p, q, w
      <4>2. q + w \in Nat /\ q + w <= Len(output)
        BY <4>1
      <4>3. q + w <= Len(output \o x)
        BY <1>10, <4>2
      <4> QED
        BY <4>2, <4>3 DEF q, w
    <3>3. SubSeq(output', From(k), From(k) + Wide(k))
            = SubSeq(output \o x, From(k), From(k) + Wide(k))
      <4>1. SubSeq((output \o x) \o y, From(k), From(k) + Wide(k))
              = SubSeq(output \o x, From(k), From(k) + Wide(k))
        BY <1>7, <1>10, <3>1, <3>2, PieceStays
      <4> QED
        BY <1>4, <4>1
    <3>4. SubSeq(output \o x, From(k), From(k) + Wide(k))
            = SubSeq(output, From(k), From(k) + Wide(k))
      BY <1>3, <1>6, <3>1, <3>2, PieceStays
    <3>5. Conv!Became(k)' = Conv!Became(k)
      BY <1>11, <3>3, <3>4
    <3> QED
      BY <1>8, <3>1, <3>5
  <2> QED
    BY <1>5, <2>1, <2>2
<1>15. Converted(n + 1)'
  BY <1>1, <1>5, <1>11, <1>12, <1>13, <1>14 DEF Converted
<1>16. n + 1 \in 0 .. Len(source')
  BY <1>1, <1>5
<1> QED
  BY <1>1, <1>3, <1>5, <1>10, <1>15, <1>16 DEF ConvInv

LEMMA ConvStep == ConvInv /\ [Next]_vars => ConvInv'
<1> SUFFICES ASSUME ConvInv, [Next]_vars PROVE ConvInv'
  OBVIOUS
<1>1. CASE Conv!Next
  BY <1>1, OpenKeeps, FinishKeeps, ConvertKeeps DEF Conv!Next
<1>2. CASE UNCHANGED convVars
  <2>1. \A k : From(k)' = From(k) /\ Wide(k)' = Wide(k) /\ Conv!Became(k)' = Conv!Became(k)
    BY <1>2 DEF convVars, From, Conv!From, Conv!Cardinality, Wide, Conv!Became
  <2>2. \A n : Converted(n)' <=> Converted(n)
    BY <1>2, <2>1 DEF convVars, Converted
  <2> QED
    BY <1>2, <2>2 DEF convVars, ConvInv
<1> QED
  BY <1>1, <1>2, OneRuns

(* For every text that the program does not refuse (detect_enc refuses the *)
(* name windows-1251 and takes all others for CP1251, converter.c:185),    *)
(* converting_to_utf8 gives each ASCII character as itself, each letter of *)
(* CP1251 as its own UTF-8 sequence but for the sixteen of rows 130 to 145,*)
(* and any other byte as <<32, 0>>.                                        *)
THEOREM LettersAreConverted == Spec => []ConvertsLetters
<1>1. Init => ConvInv
  BY DEF Init, Conv!Init, ConvInv
<1>2. ConvInv => ConvertsLetters
  <2> SUFFICES ASSUME ConvInv, job = "done" PROVE ConvertsLetters
    BY DEF ConvertsLetters, Conv!ConvertsLetters
  <2>1. PICK n \in 0 .. Len(source) : Converted(n)
    BY DEF ConvInv
  <2>2. n = Len(source) /\ source \in Seq(0 .. 255)
    BY <2>1 DEF ConvInv, Converted
  <2>3. Len(source) \in Nat /\ (source # << >> => Len(source) # 0) /\ DOMAIN source = 1 .. n
    BY <2>2
  <2>4. source # << >> => Len(output) = From(n + 1)
    <3>1. From(n + 1) \in Nat
      BY <2>2, <2>3, FromIs
    <3> QED
      BY <2>1, <2>2, <2>3, <3>1 DEF Converted
  <2>5. \A k \in DOMAIN source : Fitting(source[k], Conv!Became(k))
    BY <2>1, <2>3 DEF Converted
  <2> QED
    BY <2>2, <2>4, <2>5 DEF ConvertsLetters, Conv!ConvertsLetters, Fitting, From
<1> QED
  BY <1>1, <1>2, ConvStep, PTL DEF Spec

-----------------------------------------------------------------------------
(* The ASCII art client.                                                   *)

(* A function defined by recursion over 0 .. n exists.                     *)
Recurs(f, n, S, a, g) ==
  /\ f \in [0 .. n -> S]
  /\ f[0] = a /\ \A i \in 1 .. n : f[i] = g[<<i, f[i - 1]>>]

LEMMA Recursion ==
  ASSUME NEW n \in Nat, NEW S, NEW a \in S, NEW g \in [(1 .. n) \X S -> S]
  PROVE  \E f : Recurs(f, n, S, a, g)
<1> DEFINE Good(m, f) == f[0] = a /\ \A i \in 1 .. m : f[i] = g[<<i, f[i - 1]>>]
           P == {m \in Nat : m <= n => \E f \in [0 .. m -> S] : Good(m, f)}
<1>1. 0 \in P
  <2>1. [i \in 0 .. 0 |-> a] \in [0 .. 0 -> S] /\ Good(0, [i \in 0 .. 0 |-> a])
    OBVIOUS
  <2> QED
    BY <2>1
<1>2. ASSUME NEW m \in Nat, m \in P PROVE m + 1 \in P
  <2> SUFFICES ASSUME m + 1 <= n PROVE \E f \in [0 .. m + 1 -> S] : Good(m + 1, f)
    OBVIOUS
  <2>1. PICK f \in [0 .. m -> S] : Good(m, f)
    BY <1>2
  <2> DEFINE d == [i \in 0 .. m + 1 |-> IF i = m + 1 THEN g[<<i, f[m]>>] ELSE f[i]]
  <2>2. g[<<m + 1, f[m]>>] \in S
    <3>1. <<m + 1, f[m]>> \in (1 .. n) \X S
      BY <2>1
    <3> QED
      BY <3>1
  <2>3. d \in [0 .. m + 1 -> S]
    BY <2>1, <2>2
  <2>4. d[0] = a /\ d[m + 1] = g[<<m + 1, d[m]>>]
    BY <2>1
  <2>5. \A i \in 1 .. m : d[i] = g[<<i, d[i - 1]>>]
    BY <2>1
  <2> HIDE DEF d
  <2>6. (m + 1) - 1 = m /\ \A i \in 1 .. m + 1 : i \in 1 .. m \/ i = m + 1
    OBVIOUS
  <2>7. Good(m + 1, d)
    BY <2>4, <2>5, <2>6
  <2> QED
    BY <2>3, <2>7
<1>3. Nat \subseteq P
  <2> HIDE DEF P
  <2> QED
    BY <1>1, <1>2, Counting
<1>4. n \in P
  <2> HIDE DEF P
  <2> QED
    BY <1>3
<1> QED
  BY <1>4 DEF Recurs

LEMMA Along ==
  ASSUME NEW n \in Nat, NEW S, NEW f, f[0] \in S, \A i \in 1 .. n : f[i - 1] \in S => f[i] \in S
  PROVE  \A i \in 0 .. n : f[i] \in S
<1> DEFINE P == {i \in Nat : i <= n => f[i] \in S}
<1>1. ASSUME NEW i \in Nat, i \in P PROVE i + 1 \in P
  <2> SUFFICES ASSUME i + 1 <= n PROVE f[i + 1] \in S
    OBVIOUS
  <2>1. i + 1 \in 1 .. n /\ (i + 1) - 1 = i /\ f[i] \in S
    BY <1>1
  <2> QED
    BY <2>1
<1>2. 0 \in P
  OBVIOUS
<1>3. Nat \subseteq P
  <2> HIDE DEF P
  <2> QED
    BY <1>1, <1>2, Counting
<1> QED
  BY <1>3

Stream == Seq(STRING)

LEMMA PendingIs ==
  ASSUME NEW b \in Stream
  PROVE  /\ Telnet!Pending(b) \in [0 .. Len(b) -> 0 .. 2]
         /\ Telnet!Pending(b)[0] = 0
         /\ \A i \in 1 .. Len(b) :
              Telnet!Pending(b)[i] = IF Telnet!Pending(b)[i - 1] > 0 THEN Telnet!Pending(b)[i - 1] - 1
                                     ELSE IF b[i] = "iac" THEN 2 ELSE 0
<1> DEFINE n == Len(b)
           Step(i, due) == IF due > 0 THEN due - 1 ELSE IF b[i] = "iac" THEN 2 ELSE 0
           g == [x \in (1 .. n) \X (0 .. 2) |-> Step(x[1], x[2])]
           Left(f) == f = [i \in 0 .. n |-> IF i = 0 THEN 0
                                            ELSE IF f[i - 1] > 0 THEN f[i - 1] - 1
                                            ELSE IF b[i] = "iac" THEN 2 ELSE 0]
<1>1. n \in Nat /\ g \in [(1 .. n) \X (0 .. 2) -> 0 .. 2]
  BY DEF Stream
<1>2. \A i \in 1 .. n, due \in 0 .. 2 : g[<<i, due>>] = Step(i, due)
  OBVIOUS
<1>3. 0 \in 0 .. 2 /\ n = Len(b)
  OBVIOUS
<1> HIDE DEF g, n
<1>4. PICK f : Recurs(f, n, 0 .. 2, 0, g)
  BY <1>1, <1>3, Recursion
<1>5. \A i \in 1 .. n : i - 1 \in 0 .. n /\ f[i - 1] \in 0 .. 2
  BY <1>1, <1>4 DEF Recurs
<1>6. \A i \in 1 .. n : f[i] = Step(i, f[i - 1])
  <2> HIDE DEF Step
  <2> QED
    BY <1>2, <1>4, <1>5 DEF Recurs
<1>7. Left(f)
  BY <1>1, <1>4, <1>6 DEF Recurs
<1>8. Left(Telnet!Pending(b))
  BY <1>3, <1>7 DEF Telnet!Pending
<1> DEFINE due == Telnet!Pending(b)
<1>9. Left(due)
  BY <1>8
<1> HIDE DEF due
<1>10. due[0] = 0 /\ \A i \in 1 .. n : due[i] = Step(i, due[i - 1])
  BY <1>1, <1>9
<1>11. \A i \in 1 .. n : due[i - 1] \in 0 .. 2 => due[i] \in 0 .. 2
  BY <1>10
<1>12. due \in [0 .. n -> 0 .. 2]
  <2>1. due[0] \in 0 .. 2
    BY <1>10
  <2>2. \A i \in 0 .. n : due[i] \in 0 .. 2
    BY <1>1, <1>11, <2>1, Along
  <2> QED
    BY <1>9, <2>2
<1> QED
  BY <1>3, <1>10, <1>12 DEF due

Cleaned == [skip : Nat, out : Stream]

CleanStep(byte, was) ==
  IF was.skip > 0 THEN [skip |-> was.skip - 1, out |-> was.out]
  ELSE IF byte = "iac" THEN [skip |-> 2, out |-> was.out]
  ELSE [skip |-> 0, out |-> IF byte = "cr" THEN was.out ELSE Append(was.out, byte)]

LEMMA CleanStepTyped ==
  ASSUME NEW byte \in STRING, NEW was \in Cleaned
  PROVE  CleanStep(byte, was) \in Cleaned
<1>1. was.skip \in Nat /\ was.out \in Stream
  BY DEF Cleaned
<1>2. Append(was.out, byte) \in Stream
  BY <1>1 DEF Stream
<1> QED
  BY <1>1, <1>2 DEF CleanStep, Cleaned

LEMMA CleaningIs ==
  ASSUME NEW s \in Stream
  PROVE  /\ Telnet!Cleaning(s)[0] = [skip |-> 0, out |-> << >>]
         /\ \A i \in 0 .. Len(s) : Telnet!Cleaning(s)[i] \in Cleaned
         /\ \A i \in 1 .. Len(s) :
              Telnet!Cleaning(s)[i] = CleanStep(s[i], Telnet!Cleaning(s)[i - 1])
<1> DEFINE n == Len(s)
           none == [skip |-> 0, out |-> << >>]
           g == [x \in (1 .. n) \X Cleaned |-> CleanStep(s[x[1]], x[2])]
           After(f) == f = [i \in 0 .. n |-> IF i = 0 THEN none ELSE CleanStep(s[i], f[i - 1])]
<1>1. n \in Nat /\ \A i \in 1 .. n : s[i] \in STRING
  BY DEF Stream
<1>2. g \in [(1 .. n) \X Cleaned -> Cleaned]
  <2>1. ASSUME NEW x \in (1 .. n) \X Cleaned PROVE CleanStep(s[x[1]], x[2]) \in Cleaned
    BY <1>1, CleanStepTyped
  <2> QED
    BY <2>1
<1>3. \A i \in 1 .. n, was \in Cleaned : g[<<i, was>>] = CleanStep(s[i], was)
  OBVIOUS
<1>4. none \in Cleaned /\ n = Len(s)
  BY DEF Cleaned, Stream
<1> HIDE DEF g, n, none
<1>5. PICK f : Recurs(f, n, Cleaned, none, g)
  BY <1>1, <1>2, <1>4, Recursion
<1>6. \A i \in 1 .. n : i - 1 \in 0 .. n /\ f[i - 1] \in Cleaned
  BY <1>1, <1>5 DEF Recurs
<1>7. \A i \in 1 .. n : f[i] = CleanStep(s[i], f[i - 1])
  BY <1>3, <1>5, <1>6 DEF Recurs
<1>8. After(f)
  BY <1>1, <1>5, <1>7 DEF Recurs
<1>9. After(Telnet!Cleaning(s))
  BY <1>4, <1>8 DEF Telnet!Cleaning, CleanStep, none
<1> DEFINE after == Telnet!Cleaning(s)
<1>10. After(after)
  BY <1>9
<1> HIDE DEF after
<1>11. after[0] = none /\ \A i \in 1 .. n : after[i] = CleanStep(s[i], after[i - 1])
  BY <1>1, <1>10
<1>12. \A i \in 1 .. n : after[i - 1] \in Cleaned => after[i] \in Cleaned
  BY <1>1, <1>11, CleanStepTyped
<1>13. \A i \in 0 .. n : after[i] \in Cleaned
  BY <1>1, <1>4, <1>11, <1>12, Along
<1> QED
  BY <1>4, <1>11, <1>13 DEF after, none

LEMMA ArtUpToIs ==
  ASSUME NEW b \in Stream
  PROVE  /\ Telnet!ArtUpTo(b)[0] = << >>
         /\ \A i \in 0 .. Len(b) : Telnet!ArtUpTo(b)[i] \in Stream
         /\ \A i \in 1 .. Len(b) :
              Telnet!ArtUpTo(b)[i] = IF Telnet!Kept(b, i) THEN Append(Telnet!ArtUpTo(b)[i - 1], b[i])
                                     ELSE Telnet!ArtUpTo(b)[i - 1]
<1> DEFINE n == Len(b)
           Step(i, art) == IF Telnet!Kept(b, i) THEN Append(art, b[i]) ELSE art
           g == [x \in (1 .. n) \X Stream |-> Step(x[1], x[2])]
           Art(f) == f = [i \in 0 .. n |-> IF i = 0 THEN << >> ELSE Step(i, f[i - 1])]
<1>1. n \in Nat /\ \A i \in 1 .. n, art \in Stream : Step(i, art) \in Stream
  <2>1. ASSUME NEW i \in 1 .. n, NEW art \in Stream PROVE Append(art, b[i]) \in Stream
    BY DEF Stream
  <2>2. n \in Nat
    BY DEF Stream
  <2> QED
    BY <2>1, <2>2
<1>2. g \in [(1 .. n) \X Stream -> Stream]
  <2> HIDE DEF Step
  <2> QED
    BY <1>1
<1>3. \A i \in 1 .. n, art \in Stream : g[<<i, art>>] = Step(i, art)
  OBVIOUS
<1>4. << >> \in Stream /\ n = Len(b)
  BY DEF Stream
<1> HIDE DEF g, n
<1>5. PICK f : Recurs(f, n, Stream, << >>, g)
  BY <1>1, <1>2, <1>4, Recursion
<1>6. \A i \in 1 .. n : i - 1 \in 0 .. n /\ f[i - 1] \in Stream
  BY <1>1, <1>5 DEF Recurs
<1>7. \A i \in 1 .. n : f[i] = Step(i, f[i - 1])
  <2> HIDE DEF Step
  <2> QED
    BY <1>3, <1>5, <1>6 DEF Recurs
<1>8. Art(f)
  <2> HIDE DEF Step
  <2> QED
    BY <1>1, <1>5, <1>7 DEF Recurs
<1>9. Art(Telnet!ArtUpTo(b))
  BY <1>4, <1>8 DEF Telnet!ArtUpTo
<1> DEFINE art == Telnet!ArtUpTo(b)
<1>10. Art(art)
  BY <1>9
<1> HIDE DEF art
<1>11. art[0] = << >> /\ \A i \in 1 .. n : art[i] = Step(i, art[i - 1])
  <2> HIDE DEF Step
  <2> QED
    BY <1>1, <1>10
<1>12. \A i \in 1 .. n : art[i - 1] \in Stream => art[i] \in Stream
  <2> HIDE DEF Step
  <2> QED
    BY <1>1, <1>11
<1>13. \A i \in 0 .. n : art[i] \in Stream
  BY <1>1, <1>4, <1>11, <1>12, Along
<1> QED
  BY <1>4, <1>11, <1>13 DEF art

LEMMA Alone == ASSUME NEW T, NEW x \in T PROVE <<x>> \in Seq(T)
  OBVIOUS

LEMMA Glued ==
  ASSUME NEW a \in Stream, NEW c \in Stream, NEW x \in STRING
  PROVE  a \o << >> = a /\ a \o c \in Stream /\ Append(a \o c, x) = a \o Append(c, x)
<1>1. a \in Seq(STRING) /\ c \in Seq(STRING) /\ <<x>> \in Seq(STRING)
  BY Alone DEF Stream
<1>2. a \o << >> = a
  BY <1>1, ConcatEmptySeq
<1>3. a \o c \in Seq(STRING)
  BY <1>1, ConcatProperties
<1>4. Append(a \o c, x) = (a \o c) \o <<x>>
  BY <1>3, AppendIsConcat
<1>5. Append(c, x) = c \o <<x>>
  BY <1>1, AppendIsConcat
<1>6. (a \o c) \o <<x>> = a \o (c \o <<x>>)
  BY <1>1, ConcatAssociative
<1> QED
  BY <1>2, <1>3, <1>4, <1>5, <1>6 DEF Stream

(* Cleaning a piece of b that starts behind a command goes on with its art.*)
LEMMA CleansOn ==
  ASSUME NEW b \in Stream, NEW t \in Stream, NEW x \in 0 .. Len(b), x + Len(t) <= Len(b),
         Telnet!Pending(b)[x] = 0, \A i \in 1 .. Len(t) : t[i] = b[x + i]
  PROVE  /\ \A i \in 0 .. Len(t) : Telnet!Cleaning(t)[i].skip = Telnet!Pending(b)[x + i]
         /\ Telnet!ArtUpTo(b)[x] \o Telnet!clean_print(t) = Telnet!ArtUpTo(b)[x + Len(t)]
<1> DEFINE due == Telnet!Pending(b)
           art == Telnet!ArtUpTo(b)
           after == Telnet!Cleaning(t)
           Same(i) == after[i].skip = due[x + i] /\ art[x] \o after[i].out = art[x + i]
           P == {i \in Nat : i <= Len(t) => Same(i)}
<1>1. Len(t) \in Nat /\ Len(b) \in Nat /\ x \in Nat
  BY DEF Stream
<1>2. /\ after[0] = [skip |-> 0, out |-> << >>]
      /\ \A i \in 0 .. Len(t) : after[i] \in Cleaned
      /\ \A i \in 1 .. Len(t) : after[i] = CleanStep(t[i], after[i - 1])
  BY CleaningIs
<1>3. /\ \A i \in 0 .. Len(b) : due[i] \in 0 .. 2
      /\ \A i \in 1 .. Len(b) :
           due[i] = IF due[i - 1] > 0 THEN due[i - 1] - 1 ELSE IF b[i] = "iac" THEN 2 ELSE 0
  BY PendingIs
<1>4. /\ \A i \in 0 .. Len(b) : art[i] \in Stream
      /\ \A i \in 1 .. Len(b) :
           art[i] = IF due[i - 1] = 0 /\ b[i] \notin {"iac", "cr"} THEN Append(art[i - 1], b[i])
                    ELSE art[i - 1]
  BY ArtUpToIs DEF Telnet!Kept
<1>5. due[x] = 0 /\ Telnet!clean_print(t) = after[Len(t)].out
  BY DEF Telnet!clean_print
<1> HIDE DEF due, art, after, Same
<1>6. 0 \in P
  <2>1. art[x] \o << >> = art[x]
    BY <1>4, Glued, << >> \in Stream DEF Stream
  <2> QED
    <3>1. x + 0 = x /\ after[0].skip = 0 /\ after[0].out = << >>
      BY <1>1, <1>2
    <3> QED
      BY <1>5, <2>1, <3>1 DEF Same
<1>7. ASSUME NEW i \in Nat, i \in P PROVE i + 1 \in P
  <2> SUFFICES ASSUME i + 1 <= Len(t) PROVE Same(i + 1)
    OBVIOUS
  <2>1. i + 1 \in 1 .. Len(t) /\ (i + 1) - 1 = i /\ i \in 0 .. Len(t) /\ i <= Len(t)
    BY <1>1
  <2>2. x + (i + 1) \in 1 .. Len(b) /\ (x + (i + 1)) - 1 = x + i /\ x + i \in 0 .. Len(b)
    BY <1>1
  <2>3. t[i + 1] = b[x + (i + 1)] /\ t[i + 1] \in STRING
    BY <2>1 DEF Stream
  <2>4. Same(i)
    BY <1>7, <2>1
  <2> DEFINE was == after[i]
             byte == t[i + 1]
  <2>5. was \in Cleaned /\ was.skip \in Nat /\ was.out \in Stream
    BY <1>2, <2>1 DEF Cleaned
  <2>6. after[i + 1] = CleanStep(byte, was)
    BY <1>2, <2>1
  <2>7. due[x + (i + 1)]
          = IF was.skip > 0 THEN was.skip - 1 ELSE IF byte = "iac" THEN 2 ELSE 0
    BY <1>3, <2>2, <2>3, <2>4 DEF Same
  <2>8. art[x + (i + 1)]
          = IF was.skip = 0 /\ byte \notin {"iac", "cr"} THEN Append(art[x] \o was.out, byte)
            ELSE art[x] \o was.out
    BY <1>4, <2>2, <2>3, <2>4 DEF Same
  <2>9. Append(art[x] \o was.out, byte) = art[x] \o Append(was.out, byte)
    <3>1. x \in 0 .. Len(b) /\ art[x] \in Stream
      BY <1>4
    <3>2. \A c \in Stream, y \in STRING : Append(art[x] \o c, y) = art[x] \o Append(c, y)
      BY <3>1, Glued
    <3> QED
      BY <2>3, <2>5, <3>2
  <2> HIDE DEF was, byte
  <2>10. CleanStep(byte, was).skip
           = IF was.skip > 0 THEN was.skip - 1 ELSE IF byte = "iac" THEN 2 ELSE 0
    BY DEF CleanStep
  <2>11. CleanStep(byte, was).out
           = IF was.skip > 0 \/ byte \in {"iac", "cr"} THEN was.out ELSE Append(was.out, byte)
    BY DEF CleanStep
  <2>12. after[i + 1].skip = due[x + (i + 1)]
    BY <2>6, <2>7, <2>10
  <2>13. art[x] \o after[i + 1].out = art[x + (i + 1)]
    <3>1. CASE was.skip > 0 \/ byte \in {"iac", "cr"}
      <4>1. ~(was.skip = 0 /\ byte \notin {"iac", "cr"})
        BY <2>5, <3>1
      <4>2. CleanStep(byte, was).out = was.out
        BY <2>11, <3>1
      <4>3. art[x + (i + 1)] = art[x] \o was.out
        BY <2>8, <4>1
      <4> QED
        BY <2>6, <4>2, <4>3
    <3>2. CASE ~(was.skip > 0 \/ byte \in {"iac", "cr"})
      <4>1. was.skip = 0
        BY <2>5, <3>2
      <4> QED
        BY <2>6, <2>8, <2>9, <2>11, <3>2, <4>1
    <3> QED
      BY <3>1, <3>2
  <2> QED
    BY <2>12, <2>13 DEF Same
<1>8. Nat \subseteq P
  <2> HIDE DEF P
  <2> QED
    BY <1>6, <1>7, Counting
<1>9. \A i \in 0 .. Len(t) : Same(i)
  BY <1>1, <1>8
<1>10. Same(Len(t))
  BY <1>1, <1>9
<1> QED
  BY <1>5, <1>9, <1>10 DEF Same, due, art, after

LEMMA FirstIs ==
  ASSUME NEW S \in SUBSET (Nat \ {0})
  PROVE  /\ Telnet!First(S) \in Nat /\ (Telnet!First(S) = 0 <=> S = {})
         /\ (S # {} => Telnet!First(S) \in S) /\ \A y \in S : Telnet!First(S) <= y
<1>1. CASE S = {}
  BY <1>1 DEF Telnet!First
<1>2. CASE S # {}
  <2>1. \A y, x \in Nat : <<y, x>> \in Below <=> y < x
    BY DEF OpToRel, Below
  <2>2. IsWellFoundedOn(Below, Nat)
    BY NatLessThanWellFounded DEF Below
  <2>3. PICK m \in S : \A y \in S : ~(<<y, m>> \in Below)
    BY <1>2, <2>2, WFMin
  <2>4. m \in S /\ \A y \in S : m =< y
    <3>1. m \in Nat /\ \A y \in S : y \in Nat /\ ~(y < m)
      BY <2>1, <2>3
    <3> QED
      BY <3>1
  <2>5. Telnet!Min(S) \in S /\ \A y \in S : Telnet!Min(S) =< y
    BY <2>4 DEF Telnet!Min
  <2> QED
    BY <1>2, <2>5 DEF Telnet!First
<1> QED
  BY <1>1, <1>2

LEMMA PiecesIs ==
  ASSUME NEW r \in Stream, NEW p \in Nat \ {0}, NEW q \in Nat, q <= Len(r)
  PROVE  /\ SubSeq(r, p, q) \in Stream
         /\ Len(SubSeq(r, p, q)) = IF p <= q THEN q - p + 1 ELSE 0
         /\ \A i \in 1 .. Len(SubSeq(r, p, q)) : SubSeq(r, p, q)[i] = r[(p - 1) + i]
<1>1. \A i \in p .. q : r[i] \in STRING
  BY DEF Stream
<1>2. /\ SubSeq(r, p, q) \in Seq(STRING)
      /\ Len(SubSeq(r, p, q)) = IF p <= q THEN q - p + 1 ELSE 0
      /\ \A i \in 1 .. q - p + 1 : SubSeq(r, p, q)[i] = r[p + i - 1]
  BY <1>1, SubSeqProperties
<1> QED
  BY <1>2 DEF Stream

(* The marker stands at i.                                                 *)
Marked(r, i) == i + 2 <= Len(r) /\ r[i] = "cr" /\ r[i + 1] = "lf" /\ r[i + 2] = "dot"

LEMMA Three ==
  ASSUME NEW T, NEW x \in T, NEW y \in T, NEW z \in T
  PROVE  <<x, y, z>> \in Seq(T) /\ Len(<<x, y, z>>) = 3
  OBVIOUS

LEMMA MarkedIs ==
  ASSUME NEW r \in Stream, NEW i \in Nat \ {0}
  PROVE  Telnet!IsAt(Telnet!Marker, r, i) <=> Marked(r, i)
<1> DEFINE mark == Telnet!Marker
           s == SubSeq(r, i, i + 2)
           T == STRING \cup {"cr", "lf", "dot"}
<1>1. mark \in Seq(T) /\ Len(mark) = 3 /\ mark[1] = "cr" /\ mark[2] = "lf" /\ mark[3] = "dot"
  BY Three DEF Telnet!Marker
<1>2. Telnet!IsAt(mark, r, i) <=> i + 2 <= Len(r) /\ s = mark
  <2>1. i + Len(mark) <= Len(r) + 1 <=> i + 2 <= Len(r)
    BY <1>1 DEF Stream
  <2>2. i + Len(mark) - 1 = i + 2
    BY <1>1
  <2> QED
    BY <2>1, <2>2 DEF Telnet!IsAt
<1>3. ASSUME i + 2 <= Len(r) PROVE s = mark <=> r[i] = "cr" /\ r[i + 1] = "lf" /\ r[i + 2] = "dot"
  <2>1. s \in Seq(T) /\ Len(s) = 3 /\ s[1] = r[i] /\ s[2] = r[i + 1] /\ s[3] = r[i + 2]
    <3>1. i + 2 \in Nat /\ i <= i + 2 /\ (i + 2) - i + 1 = 3
          /\ (i - 1) + 1 = i /\ (i - 1) + 2 = i + 1 /\ (i - 1) + 3 = i + 2
      OBVIOUS
    <3>2. s \in Stream /\ Len(s) = 3 /\ \A j \in 1 .. Len(s) : s[j] = r[(i - 1) + j]
      BY <1>3, <3>1, PiecesIs
    <3>3. s \in Seq(T)
      BY <3>2, SeqMonotonic DEF Stream
    <3>4. 1 \in 1 .. 3 /\ 2 \in 1 .. 3 /\ 3 \in 1 .. 3
      OBVIOUS
    <3> HIDE DEF s
    <3> QED
      BY <3>1, <3>2, <3>3, <3>4
  <2>2. ASSUME s[1] = mark[1], s[2] = mark[2], s[3] = mark[3] PROVE s = mark
    <3>1. \A j \in 1 .. 3 : j = 1 \/ j = 2 \/ j = 3
      OBVIOUS
    <3>2. \A j \in 1 .. Len(s) : s[j] = mark[j]
      BY <2>1, <2>2, <3>1
    <3> HIDE DEF s, mark, T
    <3> QED
      BY <1>1, <2>1, <3>2, SeqEqual
  <2> HIDE DEF s, mark
  <2> QED
    BY <1>1, <2>1, <2>2
<1> QED
  BY <1>2, <1>3 DEF Marked

LEMMA BodyIs ==
  ASSUME NEW r \in Stream, NEW e, e = Telnet!EchoEnd(r), NEW m, m = Telnet!MarkAt(r),
         NEW b, b = Telnet!Body(r)
  PROVE  /\ e \in Nat /\ m \in Nat /\ b \in Stream
         /\ e = 0 => b = << >> /\ \A i \in 1 .. Len(r) : r[i] # "lf"
         /\ e # 0 =>
              /\ e <= Len(r) /\ r[e] = "lf" /\ \A i \in 1 .. Len(r) : r[i] = "lf" => e <= i
              /\ m # 0 => e < m /\ m <= Len(r) /\ Marked(r, m)
              /\ \A i \in 1 .. Len(r) : e < i /\ Marked(r, i) => m # 0 /\ m <= i
              /\ Len(b) = (IF m = 0 THEN Len(r) ELSE m - 1) - e
              /\ \A i \in 1 .. Len(b) : b[i] = r[e + i]
<1> DEFINE E == {i \in DOMAIN r : r[i] = "lf"}
           M == {i \in DOMAIN r : i > e /\ Telnet!IsAt(Telnet!Marker, r, i)}
<1>1. Len(r) \in Nat /\ DOMAIN r = 1 .. Len(r)
  BY DEF Stream
<1>2. E \in SUBSET (Nat \ {0}) /\ M \in SUBSET (Nat \ {0})
  BY <1>1
<1>3. e = Telnet!First(E) /\ m = Telnet!First(M)
  BY DEF Telnet!EchoEnd, Telnet!MarkAt
<1>4. \A i \in 1 .. Len(r) : i \in M <=> i > e /\ Marked(r, i)
  BY <1>1, MarkedIs
<1>5. \A i \in M : i \in 1 .. Len(r)
  BY <1>1
<1>6. e \in Nat /\ (e = 0 <=> E = {}) /\ (E # {} => e \in E) /\ \A y \in E : e <= y
  BY <1>2, <1>3, FirstIs
<1>7. \A i \in 1 .. Len(r) : i \in E <=> r[i] = "lf"
  BY <1>1
<1> HIDE DEF M
<1>8. m \in Nat /\ (m = 0 <=> M = {}) /\ (M # {} => m \in M) /\ \A y \in M : m <= y
  BY <1>2, <1>3, FirstIs
<1>9. CASE e = 0
  <2>1. b = << >>
    BY <1>9 DEF Telnet!Body
  <2>2. b \in Stream
    BY <2>1 DEF Stream
  <2> QED
    BY <1>6, <1>7, <1>8, <1>9, <2>1, <2>2
<1>10. CASE e # 0
  <2>1. e \in 1 .. Len(r) /\ r[e] = "lf" /\ \A i \in 1 .. Len(r) : r[i] = "lf" => e <= i
    BY <1>1, <1>6, <1>7, <1>10
  <2>2. m # 0 => m \in 1 .. Len(r) /\ e < m /\ Marked(r, m)
    BY <1>4, <1>5, <1>6, <1>8
  <2>3. \A i \in 1 .. Len(r) : e < i /\ Marked(r, i) => m # 0 /\ m <= i
    BY <1>4, <1>6, <1>8
  <2> DEFINE q == IF m = 0 THEN Len(r) ELSE m - 1
  <2>4. b = SubSeq(r, e + 1, q)
    BY <1>10 DEF Telnet!Body
  <2>5. q \in Nat /\ q <= Len(r) /\ e <= q /\ e + 1 \in Nat \ {0}
    BY <1>1, <1>6, <1>8, <2>1, <2>2
  <2>6. b \in Stream /\ Len(b) = (IF e + 1 <= q THEN q - (e + 1) + 1 ELSE 0)
        /\ \A i \in 1 .. Len(b) : b[i] = r[(e + 1) - 1 + i]
    <3> HIDE DEF q
    <3> QED
      BY <2>4, <2>5, PiecesIs
  <2>7. Len(b) = q - e /\ \A i \in 1 .. Len(b) : b[i] = r[e + i]
    <3> HIDE DEF q
    <3> QED
      BY <1>6, <2>5, <2>6
  <2> QED
    BY <1>6, <1>8, <1>10, <2>1, <2>2, <2>3, <2>6, <2>7
<1> QED
  BY <1>9, <1>10

LEMMA Within ==
  ASSUME NEW d \in Nat, NEW m \in Nat, NEW k \in Nat, NEW l \in Nat, d < m, m <= d + k, k <= l
  PROVE  /\ m - d \in 1 .. l /\ d + (m - d) = m
         /\ k <= m - d => k = m - d /\ m <= d + l
  OBVIOUS

LEMMA Shifted ==
  ASSUME NEW e \in Nat, NEW d \in Nat, e <= d, NEW i \in Nat
  PROVE  /\ d - e \in Nat /\ (d - e) + i \in Nat /\ e + ((d - e) + i) = d + i
         /\ d - e < i => i - (d - e) \in Nat \ {0} /\ d + (i - (d - e)) = e + i
  OBVIOUS

(* No command begins in the last two of b[x + 1 .. y].                     *)
Quiet(b, x, y) == \A i \in 1 .. Len(b) : x < i /\ y - 2 < i /\ i <= y => b[i] # "iac"

LEMMA PendingEnds ==
  ASSUME NEW b \in Stream, NEW x \in 0 .. Len(b), NEW y \in x .. Len(b),
         Telnet!Pending(b)[x] = 0, Quiet(b, x, y)
  PROVE  Telnet!Pending(b)[y] = 0
<1> DEFINE due == Telnet!Pending(b)
<1>1. x \in Nat /\ y \in Nat /\ Len(b) \in Nat /\ x <= y /\ y <= Len(b)
  BY DEF Stream
<1>2. /\ \A i \in 0 .. Len(b) : due[i] \in 0 .. 2
      /\ \A i \in 1 .. Len(b) :
           due[i] = IF due[i - 1] > 0 THEN due[i - 1] - 1 ELSE IF b[i] = "iac" THEN 2 ELSE 0
  BY PendingIs
<1> SUFFICES due[y] = 0
  OBVIOUS
<1>3. due[x] = 0
  OBVIOUS
<1> HIDE DEF due
<1>4. ASSUME NEW j \in Nat, x <= j, y - 2 <= j, j + 1 <= y
      PROVE  due[j + 1] = IF due[j] > 0 THEN due[j] - 1 ELSE 0
  <2>1. j + 1 \in 1 .. Len(b) /\ (j + 1) - 1 = j /\ x < j + 1 /\ y - 2 < j + 1
    BY <1>1, <1>4
  <2>2. due[j + 1] = IF due[j] > 0 THEN due[j] - 1 ELSE IF b[j + 1] = "iac" THEN 2 ELSE 0
    BY <1>2, <2>1
  <2>3. b[j + 1] # "iac"
    BY <1>4, <2>1 DEF Quiet
  <2> QED
    BY <2>2, <2>3
<1>5. CASE y = x
  BY <1>3, <1>5
<1>6. CASE y = x + 1
  <2>1. x <= x /\ y - 2 <= x /\ x + 1 <= y
    BY <1>1, <1>6
  <2>2. due[x + 1] = 0
    BY <1>1, <1>3, <1>4, <2>1
  <2> QED
    BY <1>6, <2>2
<1>7. CASE y > x + 1
  <2>1. PICK j \in Nat : y = (j + 1) + 1
    <3>1. y - 2 \in Nat /\ y = ((y - 2) + 1) + 1
      BY <1>1, <1>7
    <3> QED
      BY <3>1
  <2>2. /\ x <= j /\ y - 2 <= j /\ j + 1 <= y
        /\ x <= j + 1 /\ y - 2 <= j + 1 /\ (j + 1) + 1 <= y
        /\ j + 1 \in Nat /\ j \in 0 .. Len(b)
    BY <1>1, <1>7, <2>1
  <2>3. due[j + 1] = IF due[j] > 0 THEN due[j] - 1 ELSE 0
    BY <1>4, <2>2
  <2>4. due[(j + 1) + 1] = IF due[j + 1] > 0 THEN due[j + 1] - 1 ELSE 0
    BY <1>4, <2>2
  <2>5. due[j] \in 0 .. 2
    BY <1>2, <2>2
  <2>6. due[j + 1] \in {0, 1}
    BY <2>3, <2>5
  <2>7. due[(j + 1) + 1] = 0
    BY <2>4, <2>6
  <2> QED
    BY <2>1, <2>7
<1> QED
  BY <1>1, <1>5, <1>6, <1>7

Piece(t, r, d) == \A i \in 1 .. Len(t) : t[i] = r[d + i]
Clean(t, r, d) ==
  /\ \A i \in 1 .. Len(t) : Marked(t, i) => \A j \in 1 .. i : t[j] # "nul"
  /\ \A i \in 1 .. Len(t) : Marked(r, d + i) => i + 2 <= Len(t)
  /\ \A i \in 1 .. Len(t) : t[i] = "iac" => i <= Len(t) - 2

LookedAt(t, r, d, c) ==
  t \in Stream /\ Len(t) = c - d /\ Piece(t, r, d) /\ Clean(t, r, d)

PrintsRight(t, r, d, c) ==
  LET e == Telnet!EchoEnd(r)
      m == Telnet!MarkAt(r)
      b == Telnet!Body(r)
      end == Telnet!FindMarker(t)
      before == Telnet!ArtUpTo(b)[d - e]
  IN  /\ end \in Nat
      /\ end # 0 => before \o Telnet!clean_print(SubSeq(t, 1, end - 1)) = Telnet!ArtUpTo(b)[Len(b)]
      /\ end = 0 => /\ m = 0 \/ c < m
                    /\ before \o Telnet!clean_print(t) = Telnet!ArtUpTo(b)[c - e]
                    /\ Telnet!Pending(b)[c - e] = 0

(* What recv prints of the bytes t = r[d + 1 .. c] behind the echo, when no*)
(* cut, no NUL and no command at its end deceives it.                      *)
LEMMA Prints ==
  ASSUME NEW r \in Stream, Telnet!EchoEnd(r) # 0,
         NEW d \in Telnet!EchoEnd(r) .. Len(r), NEW c \in d .. Len(r),
         Telnet!MarkAt(r) = 0 \/ d < Telnet!MarkAt(r),
         Telnet!Pending(Telnet!Body(r))[d - Telnet!EchoEnd(r)] = 0,
         NEW t, LookedAt(t, r, d, c)
  PROVE  PrintsRight(t, r, d, c)
<1> DEFINE e == Telnet!EchoEnd(r)
           m == Telnet!MarkAt(r)
           b == Telnet!Body(r)
           end == Telnet!FindMarker(t)
           before == Telnet!ArtUpTo(b)[d - e]
<1>0. /\ e # 0 /\ d \in e .. Len(r) /\ c \in d .. Len(r) /\ (m = 0 \/ d < m)
      /\ Telnet!Pending(b)[d - e] = 0
      /\ t \in Stream /\ Len(t) = c - d /\ Piece(t, r, d) /\ Clean(t, r, d)
  BY DEF LookedAt
<1> SUFFICES /\ end \in Nat
             /\ end # 0 => before \o Telnet!clean_print(SubSeq(t, 1, end - 1))
                             = Telnet!ArtUpTo(b)[Len(b)]
             /\ end = 0 => /\ m = 0 \/ c < m
                           /\ before \o Telnet!clean_print(t) = Telnet!ArtUpTo(b)[c - e]
                           /\ Telnet!Pending(b)[c - e] = 0
  BY DEF PrintsRight
<1> HIDE DEF e, m, b, end, before
<1>1. /\ e \in Nat /\ m \in Nat /\ b \in Stream
      /\ m # 0 => Marked(r, m)
      /\ \A i \in 1 .. Len(r) : e < i /\ Marked(r, i) => m # 0 /\ m <= i
      /\ \A i \in 1 .. Len(b) : b[i] = r[e + i]
  BY <1>0, BodyIs DEF e, m, b
<1>2. /\ e \in Nat /\ m \in Nat /\ d \in Nat /\ c \in Nat
      /\ Len(r) \in Nat /\ Len(t) \in Nat /\ Len(b) \in Nat
      /\ 0 < e /\ e <= d /\ d <= c /\ c <= Len(r) /\ d + Len(t) = c
      /\ m # 0 => d < m /\ m <= Len(r) /\ Len(b) = (m - 1) - e
      /\ m = 0 => Len(b) = Len(r) - e
  <2>1. /\ e <= Len(r) /\ m # 0 => m <= Len(r)
        /\ Len(b) = (IF m = 0 THEN Len(r) ELSE m - 1) - e
    BY <1>0, BodyIs DEF e, m, b
  <2>2. Len(r) \in Nat /\ Len(t) \in Nat /\ Len(b) \in Nat
    BY <1>0, <1>1 DEF Stream
  <2>3. e \in Nat /\ m \in Nat /\ e # 0
    BY <1>0, <1>1
  <2>4. d \in Nat /\ c \in Nat /\ e <= d /\ d <= c /\ c <= Len(r) /\ d + Len(t) = c
    BY <1>0, <2>2, <2>3
  <2>5. m = 0 \/ d < m
    BY <1>0
  <2> QED
    BY <2>1, <2>2, <2>3, <2>4, <2>5
<1> DEFINE F == {i \in DOMAIN t : /\ Telnet!IsAt(Telnet!Marker, t, i)
                                  /\ \A j \in 1 .. i : t[j] # "nul"}
<1>3. \A i : i \in F <=> i \in 1 .. Len(t) /\ Marked(t, i)
  <2>1. DOMAIN t = 1 .. Len(t)
    BY <1>0 DEF Stream
  <2>2. \A i \in 1 .. Len(t) : Telnet!IsAt(Telnet!Marker, t, i) <=> Marked(t, i)
    BY <1>0, <1>2, MarkedIs
  <2> QED
    BY <1>0, <2>1, <2>2 DEF Clean
<1>4. end = Telnet!First(F)
  BY DEF Telnet!FindMarker, end
<1> HIDE DEF F
<1>5. F \in SUBSET (Nat \ {0})
  BY <1>2, <1>3
<1>6. end \in Nat /\ (end = 0 <=> F = {}) /\ (F # {} => end \in F) /\ \A y \in F : end <= y
  BY <1>4, <1>5, FirstIs
<1>7. \A i \in 1 .. Len(t) : Marked(t, i) <=> Marked(r, d + i)
  <2> SUFFICES ASSUME NEW i \in 1 .. Len(t) PROVE Marked(t, i) <=> Marked(r, d + i)
    OBVIOUS
  <2>1. ASSUME i + 2 <= Len(t)
        PROVE  /\ t[i] = r[d + i] /\ t[i + 1] = r[(d + i) + 1] /\ t[i + 2] = r[(d + i) + 2]
               /\ (d + i) + 2 <= Len(r)
    <3>1. i + 1 \in 1 .. Len(t) /\ i + 2 \in 1 .. Len(t)
      BY <1>2, <2>1
    <3>2. t[i] = r[d + i] /\ t[i + 1] = r[d + (i + 1)] /\ t[i + 2] = r[d + (i + 2)]
      BY <1>0, <3>1 DEF Piece
    <3>3. d + (i + 1) = (d + i) + 1 /\ d + (i + 2) = (d + i) + 2
      BY <1>2
    <3> QED
      BY <1>2, <2>1, <3>2, <3>3
  <2>2. CASE i + 2 <= Len(t)
    BY <2>1, <2>2 DEF Marked
  <2>3. CASE ~(i + 2 <= Len(t))
    BY <1>0, <2>3 DEF Marked, Clean
  <2> QED
    BY <2>2, <2>3
<1>8. end # 0 => m # 0 /\ end = m - d /\ m <= c
  <2> SUFFICES ASSUME end # 0 PROVE m # 0 /\ end = m - d /\ m <= c
    OBVIOUS
  <2>1. end \in 1 .. Len(t) /\ Marked(r, d + end)
    BY <1>3, <1>6, <1>7
  <2>2. d + end \in 1 .. Len(r) /\ e < d + end
    BY <1>2, <2>1
  <2>3. m # 0 /\ m <= d + end
    BY <1>1, <2>1, <2>2
  <2>4. m - d \in 1 .. Len(t) /\ d + (m - d) = m
    <3>1. end \in Nat /\ end <= Len(t) /\ d < m
      BY <1>2, <2>1, <2>3
    <3> QED
      BY <1>2, <2>3, <3>1, Within
  <2>5. m - d \in F
    BY <1>1, <1>3, <1>7, <2>3, <2>4
  <2> QED
    <3>1. end <= m - d
      BY <1>6, <2>5
    <3>2. end \in Nat /\ end <= Len(t) /\ d < m /\ c = d + Len(t)
      BY <1>2, <2>1, <2>3
    <3>3. end = m - d /\ m <= d + Len(t)
      BY <1>2, <2>3, <3>1, <3>2, Within
    <3> QED
      BY <2>3, <3>2, <3>3
<1>9. end = 0 => m = 0 \/ c < m
  <2> SUFFICES ASSUME m # 0, m <= c PROVE F # {}
    BY <1>1, <1>2, <1>6
  <2>1. m - d \in 1 .. Len(t) /\ d + (m - d) = m
    BY <1>2
  <2> QED
    BY <1>1, <1>3, <1>7, <2>1
<1> DEFINE x == d - e
<1>10. x \in 0 .. Len(b) /\ x \in Nat
  BY <1>2
<1>11. ASSUME NEW k \in 0 .. Len(t), x + k <= Len(b), NEW u \in Stream, Len(u) = k,
              \A i \in 1 .. k : u[i] = t[i]
       PROVE  before \o Telnet!clean_print(u) = Telnet!ArtUpTo(b)[x + k]
  <2>1. \A i \in 1 .. Len(u) : u[i] = b[x + i]
    <3> SUFFICES ASSUME NEW i \in 1 .. k PROVE u[i] = b[x + i]
      BY <1>11
    <3>1. i \in 1 .. Len(t) /\ x + i \in 1 .. Len(b) /\ e + (x + i) = d + i
      <4>1. i \in Nat /\ i <= k /\ k <= Len(t) /\ 1 <= i
        BY <1>2
      <4>2. x + i \in Nat /\ e + (x + i) = d + i
        BY <1>2, <4>1, Shifted
      <4>3. x + i <= Len(b) /\ 1 <= x + i
        <5> HIDE DEF x
        <5> QED
          BY <1>2, <1>10, <1>11, <4>1
      <4> QED
        BY <1>2, <4>1, <4>2, <4>3
    <3>2. u[i] = r[d + i] /\ b[x + i] = r[e + (x + i)]
      <4> HIDE DEF x
      <4> QED
        BY <1>0, <1>1, <1>11, <3>1 DEF Piece
    <3> QED
      BY <3>1, <3>2
  <2>2. x + Len(u) <= Len(b) /\ Telnet!Pending(b)[x] = 0
    BY <1>0, <1>11
  <2> HIDE DEF x
  <2>3. Telnet!ArtUpTo(b)[x] \o Telnet!clean_print(u) = Telnet!ArtUpTo(b)[x + Len(u)]
    BY <1>1, <1>10, <1>11, <2>1, <2>2, CleansOn
  <2> QED
    BY <1>11, <2>3 DEF x, before
<1>12. ASSUME end # 0
       PROVE  before \o Telnet!clean_print(SubSeq(t, 1, end - 1)) = Telnet!ArtUpTo(b)[Len(b)]
  <2> DEFINE u == SubSeq(t, 1, end - 1)
  <2>1. end - 1 \in 0 .. Len(t) /\ x + (end - 1) = Len(b) /\ end - 1 \in Nat /\ end - 1 <= Len(t)
    BY <1>2, <1>6, <1>8, <1>12
  <2>2. u \in Stream /\ Len(u) = (IF 1 <= end - 1 THEN (end - 1) - 1 + 1 ELSE 0)
        /\ \A i \in 1 .. Len(u) : u[i] = t[(1 - 1) + i]
    BY <1>0, <2>1, PiecesIs
  <2> HIDE DEF u
  <2>3. Len(u) = end - 1 /\ \A i \in 1 .. Len(u) : u[i] = t[i]
    BY <2>1, <2>2
  <2>4. x + (end - 1) <= Len(b)
    BY <1>1, <2>1
  <2> HIDE DEF x
  <2> DEFINE k == end - 1
  <2>5. k \in 0 .. Len(t) /\ x + k <= Len(b) /\ Len(u) = k /\ \A i \in 1 .. k : u[i] = t[i]
    BY <2>1, <2>3, <2>4
  <2> HIDE DEF k
  <2>6. before \o Telnet!clean_print(u) = Telnet!ArtUpTo(b)[x + k]
    BY <1>11, <2>2, <2>5
  <2> QED
    BY <2>1, <2>6 DEF u, k
<1>13. ASSUME end = 0
       PROVE  /\ before \o Telnet!clean_print(t) = Telnet!ArtUpTo(b)[c - e]
              /\ Telnet!Pending(b)[c - e] = 0
  <2>1. c - e = x + Len(t) /\ x + Len(t) <= Len(b) /\ Len(t) \in 0 .. Len(t) /\ c - e \in x .. Len(b)
    BY <1>2, <1>9, <1>13
  <2>2. before \o Telnet!clean_print(t) = Telnet!ArtUpTo(b)[x + Len(t)]
    <3> HIDE DEF x
    <3> QED
      BY <1>0, <1>11, <2>1
  <2>3. ASSUME NEW i \in 1 .. Len(b), x < i, (c - e) - 2 < i, i <= c - e PROVE b[i] # "iac"
    <3>1. i - x \in 1 .. Len(t) /\ d + (i - x) = e + i /\ ~(i - x <= Len(t) - 2)
      <4>1. i \in Nat /\ d - e < i
        BY <1>2, <2>3
      <4>2. i - (d - e) \in Nat \ {0} /\ d + (i - (d - e)) = e + i
        BY <1>2, <4>1, Shifted
      <4>3. PICK k \in Nat \ {0} : k = i - x /\ d + k = e + i
        BY <4>2
      <4>4. (c - e) - 2 < i /\ i <= c - e /\ d + Len(t) = c
        BY <1>2, <2>3
      <4>5. c \in Nat /\ e \in Nat /\ d \in Nat /\ Len(t) \in Nat /\ i \in Nat /\ k \in Nat
        BY <1>2, <4>1
      <4>6. c - 2 < i + e /\ i + e <= c
        BY <4>4, <4>5
      <4>7. (d + Len(t)) - 2 < d + k /\ d + k <= d + Len(t)
        BY <4>3, <4>4, <4>5, <4>6
      <4>8. k <= Len(t) /\ ~(k <= Len(t) - 2)
        BY <4>5, <4>7
      <4> QED
        BY <1>2, <4>3, <4>8
    <3>2. t[i - x] = r[d + (i - x)] /\ t[i - x] # "iac"
      <4> HIDE DEF x
      <4> QED
        BY <1>0, <3>1 DEF Piece, Clean
    <3>3. b[i] = r[e + i]
      BY <1>1
    <3> QED
      BY <3>1, <3>2, <3>3
  <2>4. Telnet!Pending(b)[c - e] = 0
    <3> DEFINE y == c - e
    <3>1. y \in x .. Len(b) /\ x \in 0 .. Len(b) /\ Telnet!Pending(b)[x] = 0
      BY <1>0, <1>10, <2>1
    <3>2. Quiet(b, x, y)
      BY <2>3 DEF Quiet
    <3> HIDE DEF x, y
    <3>3. Telnet!Pending(b)[y] = 0
      BY <1>1, <3>1, <3>2, PendingEnds
    <3> QED
      BY <3>3 DEF y
  <2> QED
    BY <2>1, <2>2, <2>4
<1> QED
  BY <1>6, <1>9, <1>12, <1>13

LEMMA SuffixIs ==
  ASSUME NEW T, NEW a \in Seq(T), NEW s \in Seq(T), Len(a) <= Len(s),
         \A j \in 1 .. Len(a) : s[(Len(s) - Len(a)) + j] = a[j]
  PROVE  Telnet!IsSuffix(a, s)
<1> DEFINE x == Telnet!Reverse(a)
           y == Telnet!Reverse(s)
<1>1. Len(a) \in Nat /\ Len(s) \in Nat
  OBVIOUS
<1>2. /\ x \in Seq(T) /\ Len(x) = Len(a) /\ \A i \in 1 .. Len(a) : x[i] = a[(Len(a) - i) + 1]
      /\ y \in Seq(T) /\ Len(y) = Len(s) /\ \A i \in 1 .. Len(s) : y[i] = s[(Len(s) - i) + 1]
  <2>1. ASSUME NEW u \in Seq(T)
        PROVE  /\ Telnet!Reverse(u) \in Seq(T) /\ Len(Telnet!Reverse(u)) = Len(u)
               /\ \A i \in 1 .. Len(u) : Telnet!Reverse(u)[i] = u[(Len(u) - i) + 1]
    <3>1. \A i \in 1 .. Len(u) : (Len(u) - i) + 1 \in 1 .. Len(u)
      OBVIOUS
    <3>2. Telnet!Reverse(u) = [i \in 1 .. Len(u) |-> u[(Len(u) - i) + 1]]
      BY DEF Telnet!Reverse
    <3> QED
      BY <3>1, <3>2
  <2> QED
    BY <2>1
<1>3. \A i \in 1 .. Len(a) : i \in 1 .. Len(s) /\ x[i] = y[i]
  <2> SUFFICES ASSUME NEW i \in 1 .. Len(a) PROVE i \in 1 .. Len(s) /\ x[i] = y[i]
    OBVIOUS
  <2>1. i \in 1 .. Len(s) /\ (Len(a) - i) + 1 \in 1 .. Len(a)
        /\ (Len(s) - Len(a)) + ((Len(a) - i) + 1) = (Len(s) - i) + 1
    BY <1>1
  <2>2. s[(Len(s) - Len(a)) + ((Len(a) - i) + 1)] = a[(Len(a) - i) + 1]
    BY <2>1
  <2> HIDE DEF x, y
  <2> QED
    BY <1>2, <2>1, <2>2
<1> HIDE DEF x, y
<1>4. SubSeq(x, 1, Len(x)) = SubSeq(y, 1, Len(x))
  <2>1. \A i \in 1 .. Len(x) : x[i] = y[i]
    BY <1>2, <1>3
  <2> QED
    BY <1>1, <1>2, <2>1
<1> QED
  BY <1>1, <1>2, <1>4 DEF Telnet!IsSuffix, Telnet!IsPrefix, x, y

LEMMA MarkedInPiece ==
  ASSUME NEW t \in Stream, NEW r \in Stream, NEW d \in Nat, d + Len(t) = Len(r), Piece(t, r, d),
         NEW i \in 1 .. Len(t)
  PROVE  Marked(t, i) <=> Marked(r, d + i)
<1>1. Len(t) \in Nat /\ Len(r) \in Nat /\ (i + 2 <= Len(t) <=> (d + i) + 2 <= Len(r))
  BY DEF Stream
<1>2. ASSUME i + 2 <= Len(t)
      PROVE  t[i] = r[d + i] /\ t[i + 1] = r[(d + i) + 1] /\ t[i + 2] = r[(d + i) + 2]
  <2>1. i + 1 \in 1 .. Len(t) /\ i + 2 \in 1 .. Len(t)
    BY <1>1, <1>2
  <2>2. t[i] = r[d + i] /\ t[i + 1] = r[d + (i + 1)] /\ t[i + 2] = r[d + (i + 2)]
    BY <2>1 DEF Piece
  <2>3. d + (i + 1) = (d + i) + 1 /\ d + (i + 2) = (d + i) + 2
    BY <1>1
  <2> QED
    BY <2>2, <2>3
<1> QED
  BY <1>1, <1>2 DEF Marked

PartOf(t, s, p, n) ==
  t \in Stream /\ Len(t) \in Nat /\ Len(t) = n - p /\ p + Len(t) = n /\ Piece(t, s, p)

LEMMA PartIs ==
  ASSUME NEW s \in Stream, NEW n \in Nat, n <= Len(s), NEW p \in Nat, p <= n
  PROVE  PartOf(SubSeq(s, p + 1, n), s, p, n)
<1> DEFINE t == SubSeq(s, p + 1, n)
<1>1. p + 1 \in Nat \ {0} /\ (p + 1) - 1 = p
  OBVIOUS
<1>2. /\ t \in Stream /\ Len(t) = IF p + 1 <= n THEN n - (p + 1) + 1 ELSE 0
      /\ \A i \in 1 .. Len(t) : t[i] = s[((p + 1) - 1) + i]
  BY <1>1, PiecesIs
<1> HIDE DEF t
<1>3. Len(t) = n - p
  BY <1>2
<1>4. t \in Stream /\ Len(t) \in Nat /\ Len(t) = n - p /\ p + Len(t) = n /\ Piece(t, s, p)
  BY <1>1, <1>2, <1>3 DEF Piece
<1> QED
  BY <1>4 DEF t, PartOf

(* A chunk that ends in no command or marker and hides no marker.          *)
Uncut(s) ==
  /\ \A i \in 1 .. Len(s) : Marked(s, i) => \A j \in 1 .. i : s[j] # "nul"
  /\ \A i \in 1 .. Len(s) : Marked(inflow, i) => i + 2 <= Len(s)
  /\ \A i \in 1 .. Len(s) : s[i] = "iac" => i <= Len(s) - 2

LEMMA NotCut ==
  ASSUME inflow \in Stream, NEW n \in 1 .. Len(inflow), NEW s, s = SubSeq(inflow, 1, n),
         ~Telnet!Cut(s)
  PROVE  Uncut(s)
<1>1. n \in Nat \ {0} /\ Len(inflow) \in Nat /\ n <= Len(inflow)
  BY DEF Stream
<1>2. s \in Stream /\ Len(s) = n /\ \A i \in 1 .. n : s[i] = inflow[i]
  <2>1. /\ s \in Stream /\ Len(s) = IF 1 <= n THEN n - 1 + 1 ELSE 0
        /\ \A i \in 1 .. Len(s) : s[i] = inflow[(1 - 1) + i]
    BY <1>1, PiecesIs
  <2> QED
    BY <1>1, <2>1
<1>3. DOMAIN s = 1 .. n
  BY <1>2 DEF Stream
<1>4. \A i \in 1 .. n : Marked(s, i) => \A j \in 1 .. i : s[j] # "nul"
  <2>1. \A i \in 1 .. n : Telnet!IsAt(Telnet!Marker, s, i) <=> Marked(s, i)
    BY <1>1, <1>2, MarkedIs
  <2> QED
    BY <1>3, <2>1 DEF Telnet!Cut
<1>5. \A i \in 1 .. n : s[i] = "iac" => i <= n - 2
  <2>1. \A i \in 1 .. n : ~(s[i] = "iac" /\ i > n - 2)
    BY <1>2, <1>3 DEF Telnet!Cut
  <2> QED
    BY <1>1, <2>1
<1>6. ASSUME NEW i \in 1 .. n, Marked(inflow, i), ~(i + 2 <= n) PROVE FALSE
  <2>1. PICK k \in 1 .. 2 : i = (n - k) + 1
    <3>1. i = (n - 1) + 1 \/ i = (n - 2) + 1
      BY <1>1, <1>6
    <3> QED
      BY <3>1
  <2> DEFINE T == STRING \cup {"cr", "lf", "dot"}
             mark == Telnet!Marker
             a == SubSeq(mark, 1, k)
  <2>2. mark \in Seq(T) /\ Len(mark) = 3 /\ mark[1] = "cr" /\ mark[2] = "lf" /\ mark[3] = "dot"
    BY Three DEF Telnet!Marker
  <2>3. i + 2 <= Len(inflow) /\ inflow[i] = mark[1] /\ inflow[i + 1] = mark[2]
    BY <1>6, <2>2 DEF Marked
  <2> HIDE DEF T, mark
  <2>4. a \in Seq(T) /\ Len(a) = k /\ \A j \in 1 .. k : a[j] = mark[j]
    <3>1. \A j \in 1 .. k : mark[j] \in T
      <4>1. \A j \in 1 .. k : j \in 1 .. 3
        OBVIOUS
      <4>2. \A j \in 1 .. 3 : mark[j] \in T
        BY <2>2
      <4> QED
        BY <4>1, <4>2
    <3>2. SubSeq(mark, 1, k) \in Seq(T) /\ Len(SubSeq(mark, 1, k)) = (IF 1 <= k THEN k - 1 + 1 ELSE 0)
          /\ \A j \in 1 .. k - 1 + 1 : SubSeq(mark, 1, k)[j] = mark[1 + j - 1]
      BY <3>1, SubSeqProperties
    <3>3. k - 1 + 1 = k /\ 1 <= k /\ \A j \in 1 .. k : 1 + j - 1 = j
      OBVIOUS
    <3> QED
      BY <3>2, <3>3
  <2>5. s \in Seq(T)
    BY <1>2 DEF Stream, T
  <2> HIDE DEF a
  <2>6. Len(a) <= Len(s) /\ \A j \in 1 .. Len(a) : s[(Len(s) - Len(a)) + j] = a[j]
    <3>1. k <= n
      BY <1>1, <2>1
    <3>2. ASSUME NEW j \in 1 .. k PROVE s[(n - k) + j] = a[j]
      <4>1. (n - k) + j \in 1 .. n
        BY <1>1, <2>1
      <4>2. CASE j = 1
        <5>1. (n - k) + j = i
          BY <2>1, <4>2
        <5> QED
          BY <1>2, <2>3, <2>4, <4>1, <4>2, <5>1
      <4>3. CASE j = 2
        <5>1. (n - k) + j = i + 1
          BY <1>1, <2>1, <4>3
        <5> QED
          BY <1>2, <2>3, <2>4, <4>1, <4>3, <5>1
      <4>4. j \in {1, 2}
        BY <2>1
      <4> QED
        BY <4>2, <4>3, <4>4
    <3> QED
      BY <1>2, <2>4, <3>1, <3>2
  <2>7. Telnet!IsSuffix(a, s)
    BY <2>4, <2>5, <2>6, SuffixIs
  <2>8. inflow # s
    BY <1>1, <1>2, <1>6, <2>3
  <2>9. Telnet!IsAt(mark, inflow, (Len(s) - k) + 1)
    <3>1. (Len(s) - k) + 1 = i
      BY <1>2, <2>1
    <3> QED
      BY <1>1, <1>6, <3>1, MarkedIs DEF mark
  <2> QED
    BY <2>7, <2>8, <2>9 DEF Telnet!Cut, a, mark
<1> QED
  BY <1>2, <1>4, <1>5, <1>6 DEF Uncut

(* What was received: the first c bytes of the reply.                      *)
Received(c) ==
  LET e == Telnet!EchoEnd(reply)
      m == Telnet!MarkAt(reply)
      b == Telnet!Body(reply)
  IN  /\ inflow = SubSeq(reply, c + 1, Len(reply))
      /\ IF e = 0 \/ c < e
         THEN lines_to_skip = 1 /\ printed = << >> /\ (stage = "end" => e = 0)
         ELSE lines_to_skip = 0 /\ IF stage = "end" THEN printed = Telnet!Art
                                   ELSE /\ m = 0 \/ c < m
                                        /\ Telnet!Pending(b)[c - e] = 0
                                        /\ printed = Telnet!ArtUpTo(b)[c - e]

Early == {"start", "banner", "command", "failed"}

ArtInv ==
  /\ inflow \in Stream /\ reply \in Stream
  /\ stage \in Early => printed = << >> /\ lines_to_skip = 1
  /\ stage = "start" => ~spoiled
  /\ ~spoiled => stage \in Early \/ \E c \in 0 .. Len(reply) : Received(c)

RestOf(q, r, c) ==
  /\ q \in Stream /\ Len(q) = Len(r) - c /\ Piece(q, r, c) /\ c + Len(q) = Len(r)
  /\ \A n \in 1 .. Len(q) : /\ c + n \in 0 .. Len(r)
                            /\ SubSeq(q, n + 1, Len(q)) = SubSeq(r, (c + n) + 1, Len(r))

LEMMA RestIs ==
  ASSUME NEW r \in Stream, NEW c \in 0 .. Len(r), NEW q, q = SubSeq(r, c + 1, Len(r))
  PROVE  RestOf(q, r, c)
<1>1. Len(r) \in Nat /\ c \in Nat /\ c <= Len(r) /\ c + 1 \in Nat \ {0}
  BY DEF Stream
<1>2. q \in Stream /\ Len(q) \in Nat /\ Len(q) = Len(r) - c /\ c + Len(q) = Len(r) /\ Piece(q, r, c)
  <2>1. Len(r) <= Len(r)
    BY <1>1
  <2>2. PartOf(q, r, c, Len(r))
    BY <1>1, <2>1, PartIs
  <2> QED
    BY <2>2 DEF PartOf
<1>5. ASSUME NEW n \in 1 .. Len(q)
      PROVE  /\ c + n \in 0 .. Len(r)
             /\ SubSeq(q, n + 1, Len(q)) = SubSeq(r, (c + n) + 1, Len(r))
  <2> DEFINE u == SubSeq(q, n + 1, Len(q))
             v == SubSeq(r, (c + n) + 1, Len(r))
  <2>1. n \in Nat /\ n <= Len(q) /\ c + n \in 0 .. Len(r) /\ c + n \in Nat /\ c + n <= Len(r)
    BY <1>1, <1>2
  <2>2. u \in Stream /\ Len(u) \in Nat /\ Len(u) = Len(q) - n /\ n + Len(u) = Len(q) /\ Piece(u, q, n)
    <3>1. Len(q) <= Len(q)
      BY <1>2
    <3>2. PartOf(u, q, n, Len(q))
      BY <1>2, <2>1, <3>1, PartIs
    <3> HIDE DEF u
    <3> QED
      BY <3>2 DEF PartOf
  <2>3. /\ v \in Stream /\ Len(v) \in Nat /\ (c + n) + Len(v) = Len(r) /\ Piece(v, r, c + n)
    <3>1. Len(r) <= Len(r)
      BY <1>1
    <3>2. PartOf(v, r, c + n, Len(r))
      BY <1>1, <2>1, <3>1, PartIs
    <3> HIDE DEF v
    <3> QED
      BY <3>2 DEF PartOf
  <2> HIDE DEF u, v
  <2>4. Len(u) = Len(v)
    BY <1>1, <1>2, <2>1, <2>2, <2>3
  <2>5. ASSUME NEW i \in 1 .. Len(u) PROVE u[i] = v[i]
    <3>1. n + i \in 1 .. Len(q) /\ i \in 1 .. Len(v) /\ c + (n + i) = (c + n) + i
      BY <1>1, <1>2, <2>1, <2>2, <2>4
    <3>2. u[i] = q[n + i] /\ q[n + i] = r[c + (n + i)] /\ v[i] = r[(c + n) + i]
      BY <1>2, <2>2, <2>3, <3>1 DEF Piece
    <3> QED
      BY <3>1, <3>2
  <2>6. u = v
    BY <2>2, <2>3, <2>4, <2>5, SeqEqual DEF Stream
  <2> QED
    BY <2>1, <2>6 DEF u, v
<1> QED
  BY <1>2, <1>5 DEF RestOf

(* The part t = s[p + 1 .. Len(s)] of a whole chunk that recv looks at.    *)
LEMMA PartIsClean ==
  ASSUME NEW r \in Stream, NEW c \in 0 .. Len(r), inflow = SubSeq(r, c + 1, Len(r)),
         NEW n \in 1 .. Len(inflow), NEW s, s = SubSeq(inflow, 1, n), Uncut(s),
         NEW p \in 0 .. n, NEW t, t = SubSeq(s, p + 1, n)
  PROVE  LookedAt(t, r, c + p, c + n)
<1>1. /\ inflow \in Stream /\ Len(inflow) = Len(r) - c /\ Piece(inflow, r, c)
      /\ c + Len(inflow) = Len(r)
  <2>1. RestOf(inflow, r, c)
    BY RestIs
  <2> QED
    BY <2>1 DEF RestOf
<1>2. /\ Len(r) \in Nat /\ Len(inflow) \in Nat /\ c \in Nat /\ n \in Nat /\ p \in Nat
      /\ p <= n /\ n <= Len(inflow)
  BY <1>1 DEF Stream
<1>3. s \in Stream /\ Len(s) = n /\ Piece(s, inflow, 0)
  <2>1. 0 + 1 = 1 /\ 0 <= n /\ 0 \in Nat
    BY <1>2
  <2> DEFINE o == 0
  <2>2. s = SubSeq(inflow, o + 1, n) /\ o \in Nat /\ o <= n
    BY <2>1
  <2> HIDE DEF o
  <2>3. PartOf(s, inflow, o, n)
    BY <1>1, <1>2, <2>2, PartIs
  <2> QED
    BY <1>2, <2>3 DEF o, PartOf
<1>4. /\ t \in Stream /\ Len(t) = n - p /\ Len(t) \in Nat /\ p + Len(t) = n /\ Piece(t, s, p)
  <2>1. n <= Len(s)
    BY <1>2, <1>3
  <2>2. PartOf(t, s, p, n)
    BY <1>2, <1>3, <2>1, PartIs
  <2> QED
    BY <2>2 DEF PartOf
<1>5. \A i \in 1 .. Len(t) :
        /\ p + i \in 1 .. n /\ p + i \in 1 .. Len(inflow) /\ p + i \in 1 .. Len(s)
        /\ c + (p + i) = (c + p) + i /\ 0 + (p + i) = p + i
  <2> SUFFICES ASSUME NEW i \in 1 .. Len(t)
               PROVE  p + i \in 1 .. n /\ c + (p + i) = (c + p) + i /\ 0 + (p + i) = p + i
    BY <1>2, <1>3
  <2> QED
    BY <1>2, <1>4
<1>6. Piece(t, r, c + p)
  <2> SUFFICES ASSUME NEW i \in 1 .. Len(t) PROVE t[i] = r[(c + p) + i]
    BY DEF Piece
  <2>1. t[i] = s[p + i] /\ s[p + i] = inflow[0 + (p + i)] /\ inflow[p + i] = r[c + (p + i)]
    BY <1>1, <1>3, <1>4, <1>5 DEF Piece
  <2> QED
    BY <1>5, <2>1
<1>7. ASSUME NEW i \in 1 .. Len(t) PROVE Marked(t, i) <=> Marked(s, p + i)
  <2>1. p + Len(t) = Len(s)
    BY <1>3, <1>4
  <2> QED
    BY <1>2, <1>3, <1>4, <2>1, MarkedInPiece
<1>8. \A i \in 1 .. Len(t) : Marked(r, (c + p) + i) <=> Marked(inflow, p + i)
  <2>1. \A i \in 1 .. Len(inflow) : Marked(inflow, i) <=> Marked(r, c + i)
    BY <1>1, <1>2, MarkedInPiece
  <2> QED
    BY <1>5, <2>1
<1>9. ASSUME NEW i \in 1 .. Len(t)
      PROVE  /\ Marked(t, i) => \A j \in 1 .. i : t[j] # "nul"
             /\ Marked(r, (c + p) + i) => i + 2 <= Len(t)
             /\ t[i] = "iac" => i <= Len(t) - 2
  <2>1. ASSUME Marked(t, i), NEW j \in 1 .. i PROVE t[j] # "nul"
    <3>1. j \in 1 .. Len(t) /\ p + j \in 1 .. p + i
      BY <1>2, <1>4
    <3>2. s[p + j] # "nul"
      BY <1>5, <1>7, <2>1, <3>1 DEF Uncut
    <3> QED
      BY <1>4, <3>1, <3>2 DEF Piece
  <2>2. ASSUME Marked(r, (c + p) + i) PROVE i + 2 <= Len(t)
    <3>1. (p + i) + 2 <= n
      BY <1>3, <1>5, <1>8, <2>2 DEF Uncut
    <3> QED
      BY <1>2, <1>4, <3>1
  <2>3. ASSUME t[i] = "iac" PROVE i <= Len(t) - 2
    <3>1. p + i <= n - 2
      BY <1>3, <1>4, <1>5, <2>3 DEF Uncut, Piece
    <3> QED
      BY <1>2, <1>4, <3>1
  <2> QED
    BY <2>1, <2>2, <2>3
<1>10. Clean(t, r, c + p)
  BY <1>9 DEF Clean
<1>11. Len(t) = (c + n) - (c + p)
  BY <1>2, <1>4
<1> QED
  BY <1>4, <1>6, <1>10, <1>11 DEF LookedAt

LEMMA NoneFound == Telnet!FindMarker(<< >>) = 0
  BY DEF Telnet!FindMarker, Telnet!First

LEMMA NothingCleaned == Telnet!clean_print(<< >>) = << >> /\ << >> \o << >> = << >>
<1>1. << >> \in Stream /\ Len(<< >>) = 0
  BY DEF Stream
<1>2. Telnet!Cleaning(<< >>)[0] = [skip |-> 0, out |-> << >>]
  BY <1>1, CleaningIs
<1> QED
  BY <1>1, <1>2 DEF Telnet!clean_print

LEMMA AfterSame ==
  ASSUME UNCHANGED reply
  PROVE  /\ Telnet!EchoEnd(reply)' = Telnet!EchoEnd(reply) /\ Telnet!MarkAt(reply)' = Telnet!MarkAt(reply)
         /\ Telnet!Body(reply)' = Telnet!Body(reply)
         /\ Telnet!ArtUpTo(Telnet!Body(reply))' = Telnet!ArtUpTo(Telnet!Body(reply))
         /\ Telnet!Pending(Telnet!Body(reply))' = Telnet!Pending(Telnet!Body(reply))
         /\ Telnet!Art' = Telnet!Art
  BY DEF Telnet!Art

LEMMA OneRecv ==
  ASSUME ArtInv, ~spoiled, NEW n \in 1 .. Len(inflow), Telnet!recv(n), ~spoiled'
  PROVE  \E c \in 0 .. Len(reply) : Received(c)'
<1> DEFINE s == SubSeq(inflow, 1, n)
           t == Telnet!SkipEcho(s)
           end == Telnet!FindMarker(t)
           e == Telnet!EchoEnd(reply)
           m == Telnet!MarkAt(reply)
           b == Telnet!Body(reply)
           shown1 == Telnet!clean_print(IF end > 0 THEN SubSeq(t, 1, end - 1) ELSE t)
<1>1. /\ stage = "reply" /\ inflow' = SubSeq(inflow, n + 1, Len(inflow))
      /\ lines_to_skip' = IF Telnet!Contains(s, "lf") THEN 0 ELSE lines_to_skip
      /\ printed' = printed \o shown1
      /\ stage' = IF end > 0 THEN "end" ELSE stage
      /\ ~Telnet!Cut(s) /\ reply' = reply
  BY DEF Telnet!recv
<1>2. inflow \in Stream /\ reply \in Stream
  BY DEF ArtInv
<1>3. PICK c \in 0 .. Len(reply) : Received(c)
  BY <1>1 DEF ArtInv, Early
<1>4. Uncut(s)
  BY <1>1, <1>2, NotCut
<1> HIDE DEF t, end, e, m, b, shown1
<1>5. inflow = SubSeq(reply, c + 1, Len(reply))
  BY <1>3 DEF Received
<1>6. /\ Len(inflow) = Len(reply) - c /\ Piece(inflow, reply, c) /\ c + Len(inflow) = Len(reply)
      /\ c + n \in 0 .. Len(reply) /\ inflow' = SubSeq(reply, (c + n) + 1, Len(reply))
  <2>1. RestOf(inflow, reply, c)
    BY <1>2, <1>5, RestIs
  <2> QED
    BY <1>1, <2>1 DEF RestOf
<1>7. /\ c \in Nat /\ n \in Nat \ {0} /\ n <= Len(inflow) /\ Len(inflow) \in Nat /\ Len(reply) \in Nat
      /\ c + n \in Nat /\ c + n <= Len(reply)
  BY <1>2, <1>6 DEF Stream
<1>8. s \in Stream /\ Len(s) = n /\ Piece(s, reply, c)
  <2> DEFINE o == 0
  <2>1. o \in Nat /\ o <= n /\ SubSeq(inflow, o + 1, n) = s
    BY <1>7
  <2> HIDE DEF o
  <2>2. PartOf(SubSeq(inflow, o + 1, n), inflow, o, n)
    BY <1>2, <1>7, <2>1, PartIs
  <2>3. PartOf(s, inflow, o, n)
    BY <2>1, <2>2
  <2> HIDE DEF s
  <2>4. s \in Stream /\ Len(s) = n /\ Piece(s, inflow, 0)
    BY <1>7, <2>3 DEF PartOf, o
  <2>5. ASSUME NEW i \in 1 .. n PROVE s[i] = reply[c + i]
    <3>1. i \in 1 .. Len(inflow) /\ 0 + i = i
      BY <1>7
    <3> QED
      BY <1>6, <2>4, <3>1 DEF Piece
  <2> QED
    BY <2>4, <2>5 DEF Piece
<1>9. /\ e \in Nat /\ m \in Nat /\ b \in Stream
      /\ e = 0 => b = << >> /\ \A i \in 1 .. Len(reply) : reply[i] # "lf"
      /\ e # 0 => /\ e <= Len(reply) /\ reply[e] = "lf"
                  /\ \A i \in 1 .. Len(reply) : reply[i] = "lf" => e <= i
                  /\ m # 0 => e < m
  BY <1>2, BodyIs DEF e, m, b
<1>10. /\ e' = e /\ m' = m /\ b' = b /\ Telnet!ArtUpTo(b)' = Telnet!ArtUpTo(b)
       /\ Telnet!Pending(b)' = Telnet!Pending(b) /\ Telnet!Art' = Telnet!Art
  BY <1>1, AfterSame DEF e, m, b
<1>11. Telnet!Art = Telnet!ArtUpTo(b)[Len(b)]
  BY DEF Telnet!Art, b
<1>12. /\ e = 0 \/ c < e => lines_to_skip = 1 /\ printed = << >>
       /\ ~(e = 0 \/ c < e) => /\ lines_to_skip = 0 /\ (m = 0 \/ c < m)
                               /\ Telnet!Pending(b)[c - e] = 0
                               /\ printed = Telnet!ArtUpTo(b)[c - e]
  BY <1>1, <1>3 DEF Received, e, m, b
<1> DEFINE Ends == {i \in DOMAIN s : s[i] = "lf"}
           newline == Telnet!First(Ends)
<1>13. \A i : i \in Ends <=> i \in 1 .. n /\ reply[c + i] = "lf"
  <2>1. DOMAIN s = 1 .. n
    BY <1>8 DEF Stream
  <2>2. \A i \in 1 .. n : s[i] = reply[c + i]
    BY <1>8 DEF Piece
  <2> HIDE DEF s
  <2> QED
    BY <2>1, <2>2
<1>14. Telnet!Contains(s, "lf") <=> Ends # {}
  <2>1. DOMAIN s = 1 .. Len(s)
    BY <1>8 DEF Stream
  <2> HIDE DEF s
  <2> QED
    BY <2>1 DEF Telnet!Contains, Ends
<1>15. t = IF lines_to_skip = 0 THEN s
           ELSE IF newline = 0 THEN << >> ELSE SubSeq(s, newline + 1, Len(s))
  BY DEF t, Telnet!SkipEcho
<1> HIDE DEF Ends
<1>16. /\ newline \in Nat /\ (newline = 0 <=> Ends = {}) /\ (Ends # {} => newline \in Ends)
       /\ \A y \in Ends : newline <= y
  <2>1. Ends \in SUBSET (Nat \ {0})
    BY <1>13
  <2> QED
    BY <2>1, FirstIs
<1> HIDE DEF newline
<1>17. SUFFICES Received(c + n)'
  BY <1>1, <1>6
<1>18. Received(c + n)' <=>
         IF e = 0 \/ c + n < e
         THEN lines_to_skip' = 1 /\ printed' = << >> /\ (stage' = "end" => e = 0)
         ELSE lines_to_skip' = 0 /\ IF stage' = "end" THEN printed' = Telnet!Art
                                    ELSE /\ m = 0 \/ c + n < m
                                         /\ Telnet!Pending(b)[(c + n) - e] = 0
                                         /\ printed' = Telnet!ArtUpTo(b)[(c + n) - e]
  BY <1>1, <1>6, <1>10 DEF Received, e, m, b
(* Still in the echo.                                                      *)
<1>19. ASSUME e = 0 \/ c + n < e PROVE Received(c + n)'
  <2>1. Ends = {}
    <3>1. ASSUME NEW i \in 1 .. n, reply[c + i] = "lf" PROVE FALSE
      <4>1. c + i \in 1 .. Len(reply) /\ c + i <= c + n
        BY <1>7
      <4>2. e # 0 /\ e <= c + i
        BY <1>9, <3>1, <4>1
      <4> QED
        BY <1>7, <1>9, <1>19, <4>1, <4>2
    <3> QED
      BY <1>13, <3>1
  <2>2. e = 0 \/ c < e
    BY <1>7, <1>9, <1>19
  <2>3. lines_to_skip = 1 /\ printed = << >>
    BY <1>12, <2>2
  <2>4. t = << >>
    BY <1>15, <1>16, <2>1, <2>3
  <2>5. end = 0
    BY <2>4, NoneFound DEF end
  <2>6. shown1 = << >>
    BY <2>4, <2>5, NothingCleaned DEF shown1
  <2>7. printed' = << >>
    BY <1>1, <2>3, <2>6
  <2>8. lines_to_skip' = 1 /\ stage' # "end"
    BY <1>1, <1>14, <2>1, <2>3, <2>5
  <2> QED
    BY <1>18, <1>19, <2>7, <2>8
(* Behind it.                                                              *)
<1>20. ASSUME ~(e = 0 \/ c + n < e) PROVE Received(c + n)'
  <2> DEFINE d == IF c < e THEN e ELSE c
             p == d - c
  <2>1. /\ e # 0 /\ e <= c + n /\ p \in 0 .. n /\ c + p = d /\ d \in Nat /\ e <= d /\ d <= c + n
        /\ d \in e .. Len(reply) /\ c + n \in d .. Len(reply) /\ n - p = (c + n) - d
    BY <1>7, <1>9, <1>20
  <2>2. t = SubSeq(s, p + 1, n) /\ lines_to_skip' = 0
    <3>1. CASE c < e
      <4>1. e - c \in 1 .. n /\ c + (e - c) = e /\ p = e - c
        BY <1>7, <1>9, <2>1, <3>1
      <4>2. e - c \in Ends
        BY <1>9, <1>13, <2>1, <4>1
      <4>3. newline \in Ends /\ newline # 0 /\ newline <= e - c
        BY <1>16, <4>2
      <4>4. newline \in 1 .. n /\ reply[c + newline] = "lf"
        BY <1>13, <4>3
      <4>5. c + newline \in 1 .. Len(reply)
        BY <1>7, <4>4
      <4>6. e <= c + newline
        BY <1>9, <2>1, <4>4, <4>5
      <4>7. newline = p
        BY <1>7, <1>9, <4>1, <4>3, <4>4, <4>6
      <4>8. lines_to_skip = 1
        BY <1>12, <3>1
      <4> HIDE DEF p, s
      <4> QED
        <5>1. newline # 0 /\ lines_to_skip # 0
          BY <4>3, <4>8
        <5>3. t = SubSeq(s, newline + 1, Len(s))
          BY <1>15, <5>1
        <5>4. Len(s) = n
          BY <1>8
        <5>2. lines_to_skip' = 0
          BY <1>1, <1>14, <4>2
        <5> QED
          BY <4>7, <5>2, <5>3, <5>4
    <3>2. CASE ~(c < e)
      <4>1. p = 0 /\ lines_to_skip = 0
        BY <1>7, <1>9, <1>12, <2>1, <3>2
      <4>2. SubSeq(s, 1, n) = s
        <5> HIDE DEF s
        <5> QED
          BY <1>8 DEF Stream
      <4>3. p + 1 = 1
        BY <4>1
      <4> HIDE DEF p, s
      <4> QED
        BY <1>1, <1>15, <4>1, <4>2, <4>3
    <3> QED
      BY <3>1, <3>2
  <2>3. m = 0 \/ d < m
    BY <1>9, <1>12, <2>1
  <2>4. Telnet!Pending(b)[d - e] = 0 /\ printed = Telnet!ArtUpTo(b)[d - e]
    <3>1. CASE c < e
      <4>1. d - e = 0
        BY <1>9, <3>1
      <4>2. printed = << >>
        BY <1>12, <3>1
      <4>3. Telnet!Pending(b)[0] = 0 /\ Telnet!ArtUpTo(b)[0] = << >>
        BY <1>9, PendingIs, ArtUpToIs
      <4> HIDE DEF d
      <4> QED
        BY <4>1, <4>2, <4>3
    <3>2. CASE ~(c < e)
      <4>1. d = c
        BY <3>2
      <4> HIDE DEF d
      <4> QED
        BY <1>12, <2>1, <3>2, <4>1
    <3> QED
      BY <3>1, <3>2
  <2> HIDE DEF d, p, s
  <2>5. LookedAt(t, reply, c + p, c + n)
    BY <1>2, <1>4, <1>5, <2>1, <2>2, PartIsClean DEF s
  <2>6. PrintsRight(t, reply, d, c + n)
    BY <1>2, <2>1, <2>3, <2>4, <2>5, Prints DEF e, m, b
  <2> DEFINE before == Telnet!ArtUpTo(b)[d - e]
  <2>7. /\ end \in Nat
        /\ end # 0 => before \o Telnet!clean_print(SubSeq(t, 1, end - 1)) = Telnet!ArtUpTo(b)[Len(b)]
        /\ end = 0 => /\ m = 0 \/ c + n < m
                      /\ before \o Telnet!clean_print(t) = Telnet!ArtUpTo(b)[(c + n) - e]
                      /\ Telnet!Pending(b)[(c + n) - e] = 0
    BY <2>6 DEF PrintsRight, e, m, b, end
  <2>8. CASE end # 0
    <3>1. end > 0 /\ stage' = "end"
      BY <1>1, <2>7, <2>8
    <3>2. printed' = printed \o Telnet!clean_print(SubSeq(t, 1, end - 1))
      BY <1>1, <3>1 DEF shown1
    <3>3. printed' = Telnet!Art
      BY <1>11, <2>4, <2>7, <2>8, <3>2
    <3> QED
      BY <1>18, <1>20, <2>2, <3>1, <3>3
  <2>9. CASE end = 0
    <3>1. stage' # "end"
      BY <1>1, <2>9
    <3>2. printed' = printed \o Telnet!clean_print(t)
      BY <1>1, <2>9 DEF shown1
    <3>3. printed' = Telnet!ArtUpTo(b)[(c + n) - e]
      BY <2>4, <2>7, <2>9, <3>2
    <3> QED
      BY <1>18, <1>20, <2>2, <2>7, <2>9, <3>1, <3>3
  <2> QED
    BY <2>8, <2>9
<1> QED
  BY <1>19, <1>20

LEMMA CleansTyped ==
  ASSUME NEW u \in Stream
  PROVE  Telnet!clean_print(u) \in Stream
<1>1. Len(u) \in 0 .. Len(u)
  BY DEF Stream
<1>2. Telnet!Cleaning(u)[Len(u)] \in Cleaned
  BY <1>1, CleaningIs
<1> QED
  BY <1>2 DEF Telnet!clean_print, Cleaned

LEMMA PrefixOfGlued ==
  ASSUME NEW a \in Stream, NEW c \in Stream
  PROVE  Telnet!IsPrefix(a, a \o c)
<1> DEFINE s == a \o c
<1>1. Len(a) \in Nat /\ Len(c) \in Nat
  BY DEF Stream
<1>2. s \in Seq(STRING) /\ Len(s) = Len(a) + Len(c) /\ \A i \in 1 .. Len(a) : s[i] = a[i]
  BY <1>1, ConcatProperties DEF Stream
<1> HIDE DEF s
<1>3. SubSeq(a, 1, Len(a)) = SubSeq(s, 1, Len(a)) /\ Len(a) <= Len(s)
  BY <1>1, <1>2
<1> QED
  BY <1>3 DEF Telnet!IsPrefix, s

LEMMA NothingFirst ==
  ASSUME NEW a \in Stream
  PROVE  Telnet!IsPrefix(<< >>, a)
<1>1. << >> \in Stream /\ << >> \o a = a
  BY ConcatEmptySeq DEF Stream
<1> QED
  BY <1>1, PrefixOfGlued

LEMMA OtherSteps ==
  ASSUME ArtInv, Telnet!connect \/ Telnet!WaitBanner \/ Telnet!SendCommand \/ Telnet!Silence
  PROVE  ArtInv'
<1>1. CASE Telnet!connect
  <2>1. inflow' \in Stream /\ reply' \in Stream
    BY <1>1, RepliesAssumption DEF Telnet!connect, Stream
  <2>2. stage' = "banner" /\ UNCHANGED <<lines_to_skip, printed, spoiled>> /\ stage \in Early
    BY <1>1 DEF Telnet!connect, Early
  <2> QED
    BY <2>1, <2>2 DEF ArtInv, Early
<1>2. CASE Telnet!WaitBanner
  <2>1. inflow' \in Stream
    <3>1. CASE UNCHANGED inflow
      BY <3>1 DEF ArtInv
    <3>2. ASSUME NEW n \in 1 .. Len(inflow), inflow' = SubSeq(inflow, n + 1, Len(inflow))
          PROVE  inflow' \in Stream
      <4>1. n + 1 \in Nat \ {0} /\ Len(inflow) \in Nat /\ Len(inflow) <= Len(inflow)
            /\ inflow \in Stream
        BY DEF ArtInv, Stream
      <4> QED
        BY <3>2, <4>1, PiecesIs
    <3> QED
      BY <1>2, <3>1, <3>2 DEF Telnet!WaitBanner
  <2>2. /\ stage = "banner" /\ stage' \in {"banner", "command"}
        /\ UNCHANGED <<reply, lines_to_skip, printed, spoiled>>
    BY <1>2 DEF Telnet!WaitBanner
  <2> QED
    BY <2>1, <2>2 DEF ArtInv, Early
<1>3. CASE Telnet!SendCommand
  <2>1. stage = "command" /\ UNCHANGED <<reply, lines_to_skip, printed>>
        /\ printed = << >> /\ lines_to_skip = 1 /\ inflow \in Stream /\ reply \in Stream
    BY <1>3 DEF Telnet!SendCommand, ArtInv, Early
  <2>2. CASE stage' = "failed" /\ UNCHANGED <<inflow, spoiled>>
    BY <2>1, <2>2 DEF ArtInv, Early
  <2>3. CASE stage' = "reply" /\ inflow' = inflow \o reply /\ spoiled' = (inflow # << >>)
    <3>1. inflow' \in Stream
      BY <2>1, <2>3, ConcatProperties DEF Stream
    <3>2. ASSUME ~spoiled' PROVE Received(0)' /\ 0 \in 0 .. Len(reply')
      <4>1. inflow = << >>
        BY <2>3, <3>2
      <4>2. inflow' = reply
        BY <2>1, <2>3, <4>1, ConcatEmptySeq DEF Stream
      <4>3. Len(reply) \in Nat /\ SubSeq(reply, 0 + 1, Len(reply)) = reply
        BY <2>1 DEF Stream
      <4>4. Telnet!EchoEnd(reply) \in Nat
        BY <2>1, BodyIs
      <4>5. Telnet!EchoEnd(reply)' = Telnet!EchoEnd(reply)
        BY <2>1, AfterSame
      <4>6. Telnet!EchoEnd(reply) = 0 \/ 0 < Telnet!EchoEnd(reply)
        BY <4>4
      <4>7. stage' # "end" /\ lines_to_skip' = 1 /\ printed' = << >>
            /\ inflow' = SubSeq(reply, 0 + 1, Len(reply))'
        BY <2>1, <2>3, <4>2, <4>3
      <4> QED
        BY <2>1, <4>3, <4>5, <4>6, <4>7 DEF Received
    <3> QED
      BY <2>1, <2>3, <3>1, <3>2 DEF ArtInv, Early
  <2> QED
    BY <1>3, <2>2, <2>3 DEF Telnet!SendCommand
<1>4. CASE Telnet!Silence
  <2>1. /\ stage = "reply" /\ stage' = IF inflow = << >> THEN "end" ELSE "timeout"
        /\ UNCHANGED <<inflow, reply, lines_to_skip, printed, spoiled>>
    BY <1>4 DEF Telnet!Silence
  <2>2. ASSUME NEW c \in 0 .. Len(reply), Received(c) PROVE Received(c)'
    <3> DEFINE e == Telnet!EchoEnd(reply)
               m == Telnet!MarkAt(reply)
               b == Telnet!Body(reply)
    <3>1. e' = e /\ m' = m /\ b' = b /\ Telnet!ArtUpTo(b)' = Telnet!ArtUpTo(b)
          /\ Telnet!Pending(b)' = Telnet!Pending(b) /\ Telnet!Art' = Telnet!Art
      BY <2>1, AfterSame
    <3>2. reply \in Stream /\ inflow \in Stream
      BY DEF ArtInv
    <3>3. Telnet!Art = Telnet!ArtUpTo(b)[Len(b)]
      BY DEF Telnet!Art
    <3>4. /\ e \in Nat /\ m \in Nat /\ (m # 0 /\ e # 0 => m <= Len(reply))
          /\ e # 0 => Len(b) = (IF m = 0 THEN Len(reply) ELSE m - 1) - e /\ e <= Len(reply)
      BY <3>2, BodyIs
    <3>5. /\ inflow = SubSeq(reply, c + 1, Len(reply))
          /\ IF e = 0 \/ c < e
             THEN lines_to_skip = 1 /\ printed = << >>
             ELSE lines_to_skip = 0 /\ (m = 0 \/ c < m) /\ Telnet!Pending(b)[c - e] = 0
                  /\ printed = Telnet!ArtUpTo(b)[c - e]
      BY <2>1, <2>2 DEF Received
    <3>6. Len(reply) \in Nat /\ c \in Nat /\ c <= Len(reply) /\ Len(inflow) = Len(reply) - c
      <4>1. RestOf(inflow, reply, c)
        BY <3>2, <3>5, RestIs
      <4> QED
        BY <3>2, <4>1 DEF RestOf, Stream
    <3> HIDE DEF e, m, b
    <3>7. ASSUME stage' = "end", ~(e = 0 \/ c < e) PROVE printed = Telnet!Art
      <4>1. inflow = << >>
        BY <2>1, <3>7
      <4>2. c = Len(reply)
        BY <3>6, <4>1
      <4>3. m = 0
        BY <3>4, <3>5, <3>6, <3>7, <4>2
      <4>4. c - e = Len(b)
        BY <3>4, <3>7, <4>2, <4>3
      <4> QED
        BY <3>3, <3>5, <3>7, <4>4
    <3>8. ASSUME stage' = "end", e = 0 \/ c < e PROVE e = 0
      <4>1. inflow = << >>
        BY <2>1, <3>8
      <4>2. c = Len(reply)
        BY <3>6, <4>1
      <4> QED
        BY <3>4, <3>6, <3>8, <4>2
    <3> QED
      BY <2>1, <3>1, <3>5, <3>7, <3>8 DEF Received, e, m, b
  <2>3. stage' \notin Early
    BY <2>1 DEF Early
  <2>4. stage \notin Early /\ stage' # "start"
    BY <2>1 DEF Early
  <2> QED
    BY <2>1, <2>2, <2>3, <2>4 DEF ArtInv
<1> QED
  BY <1>1, <1>2, <1>3, <1>4

LEMMA ArtStep == ArtInv /\ [Next]_vars => ArtInv'
<1> SUFFICES ASSUME ArtInv, [Next]_vars PROVE ArtInv'
  OBVIOUS
<1>1. ASSUME NEW n \in 1 .. Len(inflow), Telnet!recv(n) PROVE ArtInv'
  <2>1. /\ stage = "reply" /\ stage' \in {"reply", "end"} /\ UNCHANGED reply
        /\ inflow' = SubSeq(inflow, n + 1, Len(inflow)) /\ (spoiled => spoiled')
    BY <1>1 DEF Telnet!recv
  <2>2. inflow' \in Stream
    <3>1. n + 1 \in Nat \ {0} /\ Len(inflow) \in Nat /\ Len(inflow) <= Len(inflow)
          /\ inflow \in Stream
      BY DEF ArtInv, Stream
    <3> QED
      BY <2>1, <3>1, PiecesIs
  <2>3. ~spoiled' => \E c \in 0 .. Len(reply') : Received(c)'
    BY <1>1, <2>1, OneRecv
  <2> QED
    BY <2>1, <2>2, <2>3 DEF ArtInv, Early
<1>2. CASE UNCHANGED artVars
  <2>1. \A c : Received(c)' <=> Received(c)
    BY <1>2, AfterSame DEF artVars, Received
  <2> QED
    BY <1>2, <2>1 DEF artVars, ArtInv
<1>3. CASE Telnet!Next
  BY <1>1, <1>3, OtherSteps DEF Telnet!Next, Telnet!ReadReply
<1> QED
  BY <1>2, <1>3, OneRuns

(* However the reply of ascii_art.c's server is cut into chunks, and       *)
(* whatever it says: what main prints is the art, whole and alone, unless  *)
(* a cut, a NUL or a rest of the banner deceived one recv.                 *)
THEOREM OutputIsRight == Spec => []OutputRight
<1>1. Init => ArtInv
  BY DEF Init, Telnet!Init, ArtInv, Early, Stream
<1>2. ArtInv => OutputRight
  <2> SUFFICES ASSUME ArtInv, ~spoiled
               PROVE  /\ Telnet!IsPrefix(printed, Telnet!Art)
                      /\ stage = "end" => printed = Telnet!Art
    BY DEF OutputRight, Telnet!OutputRight
  <2> DEFINE e == Telnet!EchoEnd(reply)
             m == Telnet!MarkAt(reply)
             b == Telnet!Body(reply)
             art == Telnet!ArtUpTo(b)
  <2>1. reply \in Stream /\ b \in Stream /\ e \in Nat /\ m \in Nat /\ Telnet!Art = art[Len(b)]
    BY BodyIs DEF ArtInv, Telnet!Art
  <2>2. Telnet!Art \in Stream
    <3>1. Len(b) \in 0 .. Len(b)
      BY <2>1 DEF Stream
    <3> QED
      BY <2>1, <3>1, ArtUpToIs
  <2>3. printed = << >> => Telnet!IsPrefix(printed, Telnet!Art)
    BY <2>2, NothingFirst
  <2>4. printed = Telnet!Art => Telnet!IsPrefix(printed, Telnet!Art)
    BY DEF Telnet!IsPrefix, Stream
  <2>5. CASE stage \in Early
    BY <2>3, <2>5 DEF ArtInv, Early
  <2>6. ASSUME NEW c \in 0 .. Len(reply), Received(c)
        PROVE  /\ Telnet!IsPrefix(printed, Telnet!Art)
               /\ stage = "end" => printed = Telnet!Art
    <3>1. CASE e = 0 \/ c < e
      <4>1. printed = << >> /\ (stage = "end" => e = 0)
        BY <2>6, <3>1 DEF Received
      <4>2. e = 0 => Telnet!Art = << >>
        <5>1. e = 0 => b = << >> /\ Len(b) = 0
          BY <2>1, BodyIs
        <5> QED
          BY <2>1, <5>1, ArtUpToIs
      <4> QED
        BY <2>3, <4>1, <4>2
    <3>2. CASE ~(e = 0 \/ c < e) /\ stage = "end"
      BY <2>4, <2>6, <3>2 DEF Received
    <3>3. CASE ~(e = 0 \/ c < e) /\ stage # "end"
      <4>1. (m = 0 \/ c < m) /\ Telnet!Pending(b)[c - e] = 0 /\ printed = art[c - e]
        BY <2>6, <3>3 DEF Received
      <4>2. /\ e <= Len(reply) /\ Len(b) = (IF m = 0 THEN Len(reply) ELSE m - 1) - e
        BY <2>1, <3>3, BodyIs
      <4>3. Len(reply) \in Nat /\ c \in Nat /\ c <= Len(reply) /\ e <= c /\ Len(b) \in Nat
        BY <2>1, <3>3 DEF Stream
      <4> DEFINE x == c - e
                 u == SubSeq(b, x + 1, Len(b))
      <4>4. x \in Nat /\ x <= Len(b) /\ x \in 0 .. Len(b) /\ Len(b) <= Len(b)
        BY <2>1, <4>1, <4>2, <4>3
      <4> HIDE DEF x
      <4>5. PartOf(u, b, x, Len(b))
        BY <2>1, <4>3, <4>4, PartIs
      <4> HIDE DEF u
      <4>6. u \in Stream /\ x + Len(u) = Len(b) /\ \A i \in 1 .. Len(u) : u[i] = b[x + i]
        BY <4>5 DEF PartOf, Piece
      <4>7. art[x] \o Telnet!clean_print(u) = art[x + Len(u)]
        <5>1. x + Len(u) <= Len(b) /\ Telnet!Pending(b)[x] = 0
          BY <4>1, <4>3, <4>6 DEF x
        <5> QED
          BY <2>1, <4>4, <4>6, <5>1, CleansOn
      <4>8. art[x] \in Stream /\ Telnet!clean_print(u) \in Stream
        BY <2>1, <4>4, <4>6, ArtUpToIs, CleansTyped
      <4>9. Telnet!IsPrefix(art[x], Telnet!Art)
        BY <2>1, <4>6, <4>7, <4>8, PrefixOfGlued
      <4> QED
        BY <3>3, <4>1, <4>9 DEF x
    <3> QED
      BY <3>1, <3>2, <3>3
  <2> QED
    BY <2>5, <2>6 DEF ArtInv
<1> QED
  BY <1>1, <1>2, ArtStep, PTL DEF Spec

-----------------------------------------------------------------------------
(* The checksum, for any lengths of a byte and of the register, and any    *)
(* generator.                                                              *)

(* Places in a sequence of pieces of b elements each.                      *)
LEMMA Places ==
  ASSUME NEW b \in Nat \ {0}, NEW n \in Nat
  PROVE  /\ b * n \in Nat /\ b * (n + 1) = b * n + b /\ b * 0 = 0
         /\ \A x \in 0 .. n - 1 : b * x \in Nat /\ b * x + b <= b * n
         /\ \A x \in Nat, j \in 1 .. b :
              (b * x + j - 1) \div b = x /\ (b * x + j - 1) % b = j - 1
         /\ \A k \in 1 .. b * n : (k - 1) \div b \in 0 .. n - 1 /\ (k - 1) % b \in 0 .. b - 1
<1>1. b * n \in Nat /\ b * (n + 1) = b * n + b /\ b * 0 = 0
  OBVIOUS
<1>2. ASSUME NEW x \in 0 .. n - 1 PROVE b * x \in Nat /\ b * x + b <= b * n
  OBVIOUS
<1>3. ASSUME NEW x \in Nat, NEW j \in 1 .. b
      PROVE  (b * x + j - 1) \div b = x /\ (b * x + j - 1) % b = j - 1
  OBVIOUS
<1>4. ASSUME NEW k \in 1 .. b * n
      PROVE  (k - 1) \div b \in 0 .. n - 1 /\ (k - 1) % b \in 0 .. b - 1
  OBVIOUS
<1> QED
  BY <1>1, <1>2, <1>3, <1>4

Word == [1 .. Width -> Check!Bit]

(* One shift, bit by bit: the bit that falls out decides whether the       *)
(* polynomial is added.                                                    *)
LEMMA ShiftIs ==
  ASSUME NEW c \in Word
  PROVE  /\ Check!Shift(c) \in Word
         /\ \A i \in 1 .. Width : Check!Shift(c)[i] =
              ((IF i < Width THEN c[i + 1] ELSE 0) + c[1] * Generator[i + 1]) % 2
<1>1. 1 \in 1 .. Width /\ c[1] \in {0, 1} /\ \A i \in 1 .. Width : Generator[i + 1] \in {0, 1}
  BY ChecksumAssumption DEF Word, Check!Bit
<1>2. ASSUME NEW i \in 1 .. Width
      PROVE  /\ Check!ShiftRight(c, 1)[i] = (IF i < Width THEN c[i + 1] ELSE 0)
             /\ Check!ShiftRight(c, 1)[i] \in {0, 1} /\ Check!polynomial[i] = Generator[i + 1]
  BY ChecksumAssumption DEF Word, Check!ShiftRight, Check!polynomial, Check!Bit
<1>3. DOMAIN Check!ShiftRight(c, 1) = 1 .. Width /\ DOMAIN Check!polynomial = 1 .. Width
  BY DEF Check!ShiftRight, Check!polynomial
<1>4. Check!ShiftRight(c, 1) \in Word
  BY ChecksumAssumption DEF Word, Check!ShiftRight, Check!Bit
<1>5. CASE c[1] = 1
  <2>1. Check!Shift(c) = [k \in 1 .. Width |-> (Check!polynomial[k] + Check!ShiftRight(c, 1)[k]) % 2]
    BY <1>3, <1>5 DEF Check!Shift, Check!Xor
  <2> QED
    BY <1>1, <1>2, <1>5, <2>1 DEF Word, Check!Bit
<1>6. CASE c[1] = 0
  <2>1. Check!Shift(c) = Check!ShiftRight(c, 1)
    BY <1>6 DEF Check!Shift
  <2> QED
    BY <1>1, <1>2, <1>4, <1>6, <2>1 DEF Word, Check!Bit
<1> QED
  BY <1>1, <1>5, <1>6

(* A byte as the lowest bits of a word.                                    *)
Widened(b) == [k \in 1 .. Width |-> IF k <= ByteBits THEN b[k] ELSE 0]

LEMMA WidenedIs == ASSUME NEW b \in Check!Byte PROVE Widened(b) \in Word
  BY ChecksumAssumption DEF Widened, Word, Check!Byte, Check!Bit

LEMMA ShiftsIs ==
  ASSUME NEW b \in Check!Byte
  PROVE  /\ Check!Shifts(b)[0] = Widened(b)
         /\ \A j \in 0 .. ByteBits : Check!Shifts(b)[j] \in Word
         /\ \A j \in 1 .. ByteBits : Check!Shifts(b)[j] = Check!Shift(Check!Shifts(b)[j - 1])
<1> DEFINE g == [x \in (1 .. ByteBits) \X Word |-> Check!Shift(x[2])]
           Is(f) == f = [j \in 0 .. ByteBits |-> IF j = 0 THEN Widened(b) ELSE Check!Shift(f[j - 1])]
<1>1. ByteBits \in Nat /\ Widened(b) \in Word
  BY ChecksumAssumption, WidenedIs
<1>2. g \in [(1 .. ByteBits) \X Word -> Word]
  BY ShiftIs
<1>3. \A j \in 1 .. ByteBits, c \in Word : g[<<j, c>>] = Check!Shift(c)
  OBVIOUS
<1> HIDE DEF g
<1>4. PICK f : Recurs(f, ByteBits, Word, Widened(b), g)
  BY <1>1, <1>2, Recursion
<1>5. \A j \in 1 .. ByteBits : f[j] = Check!Shift(f[j - 1])
  <2>1. \A j \in 1 .. ByteBits : j - 1 \in 0 .. ByteBits /\ f[j - 1] \in Word
    BY <1>1, <1>4 DEF Recurs
  <2> QED
    BY <1>3, <1>4, <2>1 DEF Recurs
<1>6. Is(f)
  BY <1>1, <1>4, <1>5 DEF Recurs
<1>7. Is(Check!Shifts(b))
  BY <1>6 DEF Check!Shifts, Widened
<1> DEFINE c == Check!Shifts(b)
<1>8. Is(c)
  BY <1>7
<1> HIDE DEF c
<1>9. c[0] = Widened(b) /\ \A j \in 1 .. ByteBits : c[j] = Check!Shift(c[j - 1])
  BY <1>1, <1>8
<1>10. \A j \in 1 .. ByteBits : c[j - 1] \in Word => c[j] \in Word
  BY <1>9, ShiftIs
<1>11. \A j \in 0 .. ByteBits : c[j] \in Word
  BY <1>1, <1>9, <1>10, Along
<1> QED
  BY <1>9, <1>11 DEF c

(* The places of the file's bits, and of the dividend.                     *)
End == ByteBits * Len(data)
Dividend == [1 .. End + Width -> Check!Bit]

LEMMA FileIs ==
  ASSUME data \in Seq(Check!Byte)
  PROVE  /\ ByteBits \in Nat \ {0} /\ Width \in Nat /\ ByteBits <= Width
         /\ Len(data) \in Nat /\ End \in Nat
         /\ \A x \in 1 .. Len(data) : data[x] \in Check!Byte
         /\ \A x \in 0 .. Len(data) - 1 :
              ByteBits * x \in Nat /\ ByteBits * (x + 1) = ByteBits * x + ByteBits /\ ByteBits * x + ByteBits <= End
         /\ \A x \in 0 .. Len(data) - 1, j \in 1 .. ByteBits :
              (ByteBits * x + j - 1) \div ByteBits = x /\ (ByteBits * x + j - 1) % ByteBits = j - 1
         /\ \A p \in 1 .. End :
              (p - 1) \div ByteBits \in 0 .. Len(data) - 1 /\ (p - 1) % ByteBits \in 0 .. ByteBits - 1
<1>1. Len(data) \in Nat /\ ByteBits \in Nat \ {0} /\ Width \in Nat /\ ByteBits <= Width
  BY ChecksumAssumption
<1> DEFINE b == ByteBits
           n == Len(data)
<1>2. b \in Nat \ {0} /\ n \in Nat /\ End = b * n
  BY <1>1 DEF End
<1> HIDE DEF b, n
<1>3. /\ b * n \in Nat
      /\ \A x \in 0 .. n - 1 : b * x \in Nat /\ b * x + b <= b * n
      /\ \A x \in Nat, j \in 1 .. b : (b * x + j - 1) \div b = x /\ (b * x + j - 1) % b = j - 1
      /\ \A p \in 1 .. b * n : (p - 1) \div b \in 0 .. n - 1 /\ (p - 1) % b \in 0 .. b - 1
  BY <1>2, Places, Zenon
<1>4. \A x \in 0 .. n - 1 : x \in Nat
  BY <1>2
<1>5. \A x \in Nat : b * (x + 1) = b * x + b
  BY <1>2, Places, Zenon
<1>6. /\ End \in Nat
      /\ \A x \in 0 .. n - 1 : b * x \in Nat /\ b * (x + 1) = b * x + b /\ b * x + b <= End
      /\ \A x \in 0 .. n - 1, j \in 1 .. b :
           (b * x + j - 1) \div b = x /\ (b * x + j - 1) % b = j - 1
      /\ \A p \in 1 .. End : (p - 1) \div b \in 0 .. n - 1 /\ (p - 1) % b \in 0 .. b - 1
  BY <1>2, <1>3, <1>4, <1>5, Zenon
<1>7. \A x \in 1 .. Len(data) : data[x] \in Check!Byte
  OBVIOUS
<1> QED
  BY <1>1, <1>6, <1>7, Zenon DEF b, n

LEMMA MessageIs ==
  ASSUME data \in Seq(Check!Byte)
  PROVE  /\ Check!Message \in Dividend /\ Check!Bits \in Dividend
         /\ \A x \in 0 .. Len(data) - 1, j \in 1 .. ByteBits :
              Check!Message[ByteBits * x + j] = data[x + 1][j]
         /\ \A i \in 1 .. Width : Check!Message[End + i] = 0
         /\ \A p \in 1 .. End + Width :
              Check!Bits[p] = IF p <= Width THEN 1 - Check!Message[p] ELSE Check!Message[p]
<1>0. Len(data) \in Nat /\ End \in Nat /\ Width \in Nat /\ ByteBits \in Nat \ {0} /\ ByteBits <= Width
  BY FileIs
<1>1. ASSUME NEW p \in 1 .. End + Width
      PROVE  /\ p > End => Check!Message[p] = 0
             /\ p <= End => Check!Message[p] = data[((p - 1) \div ByteBits) + 1][((p - 1) % ByteBits) + 1]
  BY <1>0, <1>1 DEF Check!Message, End
<1>2. ASSUME NEW p \in 1 .. End + Width PROVE Check!Message[p] \in {0, 1}
  <2>1. CASE p <= End
    <3>1. p \in 1 .. End
      BY <1>0, <2>1
    <3>2. (p - 1) \div ByteBits \in 0 .. Len(data) - 1 /\ (p - 1) % ByteBits \in 0 .. ByteBits - 1
      BY <3>1, FileIs, Zenon
    <3>3. ((p - 1) \div ByteBits) + 1 \in 1 .. Len(data) /\ ((p - 1) % ByteBits) + 1 \in 1 .. ByteBits
      BY <1>0, <3>2
    <3>4. data[((p - 1) \div ByteBits) + 1] \in Check!Byte
      BY <3>3, FileIs
    <3> QED
      BY <1>1, <2>1, <3>3, <3>4 DEF Check!Byte, Check!Bit
  <2>2. CASE p > End
    BY <1>1, <2>2
  <2> QED
    BY <1>0, <2>1, <2>2
<1>3. Check!Message \in Dividend
  <2>1. Check!Message = [p \in 1 .. End + Width |-> Check!Message[p]]
    BY DEF Check!Message, End
  <2> QED
    BY <1>2, <2>1 DEF Dividend, Check!Bit
<1>4. DOMAIN Check!Message = 1 .. End + Width
  BY DEF Check!Message, End
<1>5. ASSUME NEW p \in 1 .. End + Width
      PROVE  Check!Bits[p] = IF p <= Width THEN 1 - Check!Message[p] ELSE Check!Message[p]
  BY <1>4 DEF Check!Bits
<1>6. Check!Bits \in Dividend
  BY <1>2, <1>4 DEF Check!Bits, Dividend, Check!Bit
<1>7. ASSUME NEW x \in 0 .. Len(data) - 1, NEW j \in 1 .. ByteBits
      PROVE  Check!Message[ByteBits * x + j] = data[x + 1][j]
  <2> DEFINE q == ByteBits * x
  <2>1. q \in Nat /\ q + ByteBits <= End /\ (q + j - 1) \div ByteBits = x /\ (q + j - 1) % ByteBits = j - 1
    BY FileIs, Zenon
  <2> HIDE DEF q
  <2>2. q + j \in 1 .. End + Width /\ q + j <= End /\ (q + j) - 1 = q + j - 1
    BY <1>0, <2>1
  <2>3. Check!Message[q + j] = data[x + 1][(j - 1) + 1]
    BY <1>1, <2>1, <2>2
  <2> QED
    BY <2>3 DEF q
<1>8. ASSUME NEW i \in 1 .. Width PROVE Check!Message[End + i] = 0
  <2>1. End + i \in 1 .. End + Width /\ End + i > End
    BY <1>0
  <2> QED
    BY <1>1, <2>1
<1> QED
  BY <1>3, <1>5, <1>6, <1>7, <1>8

(* One step of the division: the generator is added where its highest      *)
(* coefficient meets a one.                                                *)
Divide(k, d) ==
  [p \in DOMAIN Check!Bits |->
     IF d[k] = 1 /\ p \in k .. k + Width THEN (d[p] + Generator[p - k + 1]) % 2 ELSE d[p]]

LEMMA DivideTyped ==
  ASSUME data \in Seq(Check!Byte), NEW k \in 1 .. End, NEW d \in Dividend
  PROVE  Divide(k, d) \in Dividend
<1>0. Len(data) \in Nat /\ End \in Nat /\ Width \in Nat /\ ByteBits \in Nat \ {0} /\ ByteBits <= Width
  BY FileIs
<1>1. ASSUME NEW p \in 1 .. End + Width, p \in k .. k + Width
      PROVE  d[p] \in {0, 1} /\ Generator[p - k + 1] \in {0, 1}
  <2>1. p - k + 1 \in 1 .. Width + 1
    BY <1>0, <1>1
  <2> QED
    BY <2>1, ChecksumAssumption DEF Dividend, Check!Bit
<1>3. DOMAIN Check!Bits = 1 .. End + Width
  BY MessageIs DEF Dividend
<1>2. ASSUME NEW p \in 1 .. End + Width, p \in k .. k + Width
      PROVE  (d[p] + Generator[p - k + 1]) % 2 \in {0, 1}
  BY <1>1, <1>2
<1> QED
  BY <1>2, <1>3 DEF Divide, Dividend, Check!Bit

LEMMA DivisionIs ==
  ASSUME data \in Seq(Check!Byte)
  PROVE  /\ Check!Division[0] = Check!Bits
         /\ \A k \in 0 .. End : Check!Division[k] \in Dividend
         /\ \A k \in 1 .. End : Check!Division[k] = Divide(k, Check!Division[k - 1])
<1> DEFINE g == [x \in (1 .. End) \X Dividend |-> Divide(x[1], x[2])]
           Is(f) == f = [k \in 0 .. End |-> IF k = 0 THEN Check!Bits ELSE Divide(k, f[k - 1])]
<1>1. End \in Nat /\ Check!Bits \in Dividend
  BY FileIs, MessageIs
<1>2. g \in [(1 .. End) \X Dividend -> Dividend]
  BY DivideTyped
<1>3. \A k \in 1 .. End, d \in Dividend : g[<<k, d>>] = Divide(k, d)
  OBVIOUS
<1> HIDE DEF g
<1>4. PICK f : Recurs(f, End, Dividend, Check!Bits, g)
  BY <1>1, <1>2, Recursion
<1>5. \A k \in 1 .. End : f[k] = Divide(k, f[k - 1])
  <2>1. \A k \in 1 .. End : k - 1 \in 0 .. End /\ f[k - 1] \in Dividend
    BY <1>1, <1>4 DEF Recurs
  <2> QED
    BY <1>3, <1>4, <2>1 DEF Recurs
<1>6. Is(f)
  BY <1>1, <1>4, <1>5 DEF Recurs
<1>7. Is(Check!Division)
  BY <1>6 DEF Check!Division, Divide, End
<1> DEFINE d == Check!Division
<1>8. Is(d)
  BY <1>7
<1> HIDE DEF d
<1>9. d[0] = Check!Bits /\ \A k \in 1 .. End : d[k] = Divide(k, d[k - 1])
  BY <1>1, <1>8
<1>10. \A k \in 1 .. End : d[k - 1] \in Dividend => d[k] \in Dividend
  BY <1>9, DivideTyped
<1>11. \A k \in 0 .. End : d[k] \in Dividend
  BY <1>1, <1>9, <1>10, Along
<1> QED
  BY <1>9, <1>11 DEF d

(* The division has not come to what lies behind the register.             *)
LEMMA Untouched ==
  ASSUME data \in Seq(Check!Byte)
  PROVE  \A k \in 0 .. End : \A p \in k + Width + 1 .. End + Width :
           Check!Division[k][p] = Check!Message[p]
<1> DEFINE P == {k \in Nat : k <= End => \A p \in k + Width + 1 .. End + Width :
                                            Check!Division[k][p] = Check!Message[p]}
<1>0. Len(data) \in Nat /\ End \in Nat /\ Width \in Nat /\ ByteBits \in Nat \ {0} /\ ByteBits <= Width
  BY FileIs
<1>1. 0 \in P
  BY <1>0, MessageIs, DivisionIs
<1>2. ASSUME NEW k \in Nat, k \in P PROVE k + 1 \in P
  <2> SUFFICES ASSUME k + 1 <= End, NEW p \in k + 1 + Width + 1 .. End + Width
               PROVE  Check!Division[k + 1][p] = Check!Message[p]
    OBVIOUS
  <2>1. /\ k + 1 \in 1 .. End /\ (k + 1) - 1 = k /\ k <= End
        /\ p \in k + Width + 1 .. End + Width /\ p \in 1 .. End + Width /\ p \notin k + 1 .. k + 1 + Width
    BY <1>0
  <2>2. Check!Division[k][p] = Check!Message[p]
    BY <1>2, <2>1
  <2>3. Check!Division[k + 1] = Divide(k + 1, Check!Division[k])
    BY <2>1, DivisionIs
  <2>4. Check!Division[k + 1][p] = Check!Division[k][p]
    BY <2>1, <2>3, MessageIs DEF Divide, Dividend
  <2> QED
    BY <2>2, <2>4
<1>3. Nat \subseteq P
  BY <1>1, <1>2, Counting
<1> QED
  BY <1>3

(* What the register holds where the division has come to the place q: the *)
(* bits under division, without those of the message that are still to     *)
(* come.                                                                   *)
Agrees(r, q) ==
  /\ r \in Word
  /\ \A i \in 1 .. Width : r[i] = (Check!Division[q][q + i] + Check!Message[q + i]) % 2

(* The index of the byte of place x + 1, when the register is r.           *)
Index(x, r) == Check!Xor(data[x + 1], r)

LEMMA IndexIs ==
  ASSUME data \in Seq(Check!Byte), NEW x \in 0 .. Len(data) - 1, NEW r \in Word
  PROVE  /\ Index(x, r) \in Check!Byte
         /\ \A i \in 1 .. ByteBits : Index(x, r)[i] = (data[x + 1][i] + r[i]) % 2
<1>1. x + 1 \in 1 .. Len(data) /\ 1 .. ByteBits \subseteq 1 .. Width
  BY FileIs
<1>2. data[x + 1] \in [1 .. ByteBits -> {0, 1}]
  BY <1>1, FileIs DEF Check!Byte, Check!Bit
<1>3. Index(x, r) = [i \in 1 .. ByteBits |-> (data[x + 1][i] + r[i]) % 2]
  BY <1>2 DEF Index, Check!Xor
<1>4. \A i \in 1 .. ByteBits : data[x + 1][i] \in {0, 1} /\ r[i] \in {0, 1}
  BY <1>1, <1>2 DEF Word, Check!Bit
<1>5. \A i \in 1 .. ByteBits : (data[x + 1][i] + r[i]) % 2 \in {0, 1}
  BY <1>4
<1> QED
  BY <1>3, <1>5 DEF Check!Byte, Check!Bit

(* The bit of the register that comes to the place i by j shifts, unless   *)
(* the index has taken it, and the bit of the message there.               *)
Behind(x, r, i, j) ==
  IF i + j <= ByteBits THEN 0
  ELSE (IF i + j <= Width THEN r[i + j] ELSE 0) + Check!Message[ByteBits * x + j + i]

(* After j shifts of the index the division has come j places further.     *)
ShiftedBy(x, r, j) ==
  \A i \in 1 .. Width :
    Check!Division[ByteBits * x + j][ByteBits * x + j + i] =
      (Check!Shifts(Index(x, r))[j][i] + Behind(x, r, i, j)) % 2

LEMMA Sums ==
  /\ \A m, d, r \in {0, 1} : r = (d + m) % 2 => d = (((m + r) % 2) + 0) % 2 /\ d = (0 + (r + m)) % 2
  /\ \A m, d, s, t \in {0, 1} : d = (s + (t + m)) % 2 => (t + s) % 2 = (d + m) % 2
  /\ \A s, b \in 0 .. 2, f \in {0, 1} : (((s + b) % 2) + f) % 2 = (((s + f) % 2) + b) % 2
<1>1. \A m, d, r \in {0, 1} : r = (d + m) % 2 => d = (((m + r) % 2) + 0) % 2 /\ d = (0 + (r + m)) % 2
  OBVIOUS
<1>2. \A m, d, s, t \in {0, 1} : d = (s + (t + m)) % 2 => (t + s) % 2 = (d + m) % 2
  OBVIOUS
<1>3. \A s, b \in 0 .. 2, f \in {0, 1} : (((s + b) % 2) + f) % 2 = (((s + f) % 2) + b) % 2
  OBVIOUS
<1> QED
  BY <1>1, <1>2, <1>3

(* The index takes the first bits of the register and of the message.      *)
LEMMA ShiftedByNone ==
  ASSUME data \in Seq(Check!Byte), NEW x \in 0 .. Len(data) - 1, NEW r, Agrees(r, ByteBits * x)
  PROVE  ShiftedBy(x, r, 0)
<1> DEFINE q == ByteBits * x
<1>1. q \in Nat /\ q + ByteBits <= End /\ End \in Nat /\ Width \in Nat /\ ByteBits \in Nat /\ ByteBits <= Width
  BY FileIs, Zenon
<1>2. r \in Word /\ Agrees(r, q)
  BY DEF Agrees
<1>3. /\ Check!Shifts(Index(x, r))[0] = Widened(Index(x, r))
      /\ \A i \in 1 .. ByteBits : Index(x, r)[i] = (data[x + 1][i] + r[i]) % 2
  BY <1>2, IndexIs, ShiftsIs
<1>4. Check!Message \in Dividend /\ \A j \in 1 .. ByteBits : Check!Message[q + j] = data[x + 1][j]
  BY MessageIs, Zenon
<1> HIDE DEF q
<1>5. Check!Division[q] \in Dividend
  <2>1. q \in 0 .. End
    BY <1>1
  <2> QED
    BY <2>1, DivisionIs
<1> SUFFICES ASSUME NEW i \in 1 .. Width
             PROVE  Check!Division[q + 0][q + 0 + i] = (Widened(Index(x, r))[i] + Behind(x, r, i, 0)) % 2
  BY <1>3 DEF ShiftedBy, q
<1>6. q + 0 = q /\ q + 0 + i = q + i /\ i + 0 = i /\ q + i \in 1 .. End + Width /\ i <= Width
  BY <1>1
<1> DEFINE d == Check!Division[q][q + i]
           m == Check!Message[q + i]
<1>7. d \in {0, 1} /\ m \in {0, 1} /\ r[i] \in {0, 1} /\ r[i] = (d + m) % 2
  BY <1>2, <1>4, <1>5, <1>6 DEF Agrees, Dividend, Word, Check!Bit
<1> HIDE DEF d, m
<1>8. d = (((m + r[i]) % 2) + 0) % 2 /\ d = (0 + (r[i] + m)) % 2
  BY <1>7, Sums
<1>9. CASE i <= ByteBits
  <2>1. i \in 1 .. ByteBits
    BY <1>1, <1>9
  <2>2. Widened(Index(x, r))[i] = (m + r[i]) % 2
    BY <1>3, <1>4, <1>9, <2>1 DEF Widened, m
  <2>3. Behind(x, r, i, 0) = 0
    BY <1>6, <1>9 DEF Behind
  <2> QED
    BY <1>6, <1>8, <2>2, <2>3 DEF d
<1>10. CASE ~(i <= ByteBits)
  <2>1. Widened(Index(x, r))[i] = 0
    BY <1>10 DEF Widened
  <2>2. Behind(x, r, i, 0) = r[i] + m
    BY <1>6, <1>10 DEF Behind, m, q
  <2> QED
    BY <1>6, <1>8, <2>1, <2>2 DEF d
<1> QED
  BY <1>9, <1>10

(* One shift more is one place more of the division.                       *)
LEMMA ShiftedByOne ==
  ASSUME data \in Seq(Check!Byte), NEW x \in 0 .. Len(data) - 1, NEW r \in Word,
         NEW j \in 1 .. ByteBits, ShiftedBy(x, r, j - 1)
  PROVE  ShiftedBy(x, r, j)
<1> DEFINE q == ByteBits * x
           k == q + j
           c == Check!Shifts(Index(x, r))[j - 1]
           d == Check!Division[k - 1]
<1>1. q \in Nat /\ q + ByteBits <= End /\ End \in Nat /\ Width \in Nat /\ ByteBits \in Nat \ {0} /\ ByteBits <= Width
  BY FileIs, Zenon
<1>2. Check!Message \in Dividend
  BY MessageIs
<1> HIDE DEF q
<1>3. k \in 1 .. End /\ k - 1 \in 0 .. End /\ k - 1 = q + (j - 1) /\ j - 1 \in 0 .. ByteBits
  BY <1>1
<1>4. d \in Dividend /\ Check!Division[k] = Divide(k, d)
  BY <1>3, DivisionIs
<1>5. c \in Word /\ Check!Shifts(Index(x, r))[j] = Check!Shift(c)
  BY <1>3, IndexIs, ShiftsIs
<1>6. ASSUME NEW i \in 1 .. Width
      PROVE  d[(k - 1) + i] = (c[i] + Behind(x, r, i, j - 1)) % 2
  BY <1>3 DEF ShiftedBy, q
<1>7. c[1] \in {0, 1} /\ d[k] = c[1]
  <2>1. 1 \in 1 .. Width /\ (k - 1) + 1 = k /\ 1 + (j - 1) <= ByteBits
    BY <1>1, <1>3
  <2>2. Behind(x, r, 1, j - 1) = 0
    BY <2>1 DEF Behind
  <2>3. c[1] \in {0, 1}
    BY <1>5, <2>1 DEF Word, Check!Bit
  <2>4. d[k] = (c[1] + 0) % 2
    BY <1>6, <2>1, <2>2
  <2> QED
    BY <2>3, <2>4
<1> HIDE DEF c, d, k
<1> SUFFICES ASSUME NEW i \in 1 .. Width
             PROVE  Check!Division[k][k + i] = (Check!Shift(c)[i] + Behind(x, r, i, j)) % 2
  BY <1>5 DEF ShiftedBy, q, k
<1>8. /\ k + i \in 1 .. End + Width /\ k + i \in k .. k + Width
      /\ (k + i) - k + 1 = i + 1 /\ i + 1 \in 1 .. Width + 1
  BY <1>1, <1>3
<1>9. Generator[i + 1] \in {0, 1} /\ d[k + i] \in {0, 1}
  BY <1>4, <1>8, ChecksumAssumption DEF Dividend, Check!Bit
<1> DEFINE s == IF i < Width THEN c[i + 1] ELSE 0
           b == Behind(x, r, i, j)
           f == c[1] * Generator[i + 1]
<1>10. f \in {0, 1} /\ Check!Shift(c)[i] = (s + f) % 2
  BY <1>5, <1>7, <1>9, ShiftIs
<1>11. Check!Division[k][k + i] = (d[k + i] + f) % 2
  <2>1. DOMAIN Check!Bits = 1 .. End + Width
    BY MessageIs DEF Dividend
  <2>2. Check!Division[k][k + i] = IF c[1] = 1 THEN (d[k + i] + Generator[i + 1]) % 2 ELSE d[k + i]
    BY <1>4, <1>7, <1>8, <2>1 DEF Divide
  <2> QED
    BY <1>7, <1>9, <2>2
<1>12. Check!Message[k + i] \in {0, 1}
  BY <1>2, <1>8 DEF Dividend, Check!Bit
<1>13. i + j <= Width => r[i + j] \in {0, 1}
  <2>1. i + j <= Width => i + j \in 1 .. Width
    BY <1>1
  <2> QED
    BY <2>1 DEF Word, Check!Bit
<1>14. s \in {0, 1} /\ b \in 0 .. 2
  <2>1. i < Width => i + 1 \in 1 .. Width
    BY <1>1
  <2>2. s \in {0, 1}
    BY <1>5, <2>1 DEF Word, Check!Bit
  <2>3. b \in 0 .. 2
    BY <1>12, <1>13 DEF Behind, q, k
  <2> QED
    BY <2>2, <2>3
<1>15. d[k + i] = (s + b) % 2
  <2>1. CASE i < Width
    <3>1. i + 1 \in 1 .. Width /\ (k - 1) + (i + 1) = k + i /\ (i + 1) + (j - 1) = i + j
      BY <1>1, <1>3, <2>1
    <3>2. q + (j - 1) + (i + 1) = q + j + i
      BY <1>1, <1>3
    <3>3. Behind(x, r, i + 1, j - 1) = b
      BY <3>1, <3>2 DEF Behind, q
    <3> QED
      BY <1>6, <2>1, <3>1, <3>3
  <2>2. CASE i = Width
    <3>1. /\ k - 1 \in 0 .. End /\ k + i \in (k - 1) + Width + 1 .. End + Width
          /\ ~(i + j <= ByteBits) /\ ~(i + j <= Width) /\ ~(i < Width)
      BY <1>1, <1>3, <2>2
    <3>2. d[k + i] = Check!Message[k + i]
      BY <3>1, Untouched DEF d
    <3>3. b = 0 + Check!Message[k + i] /\ s = 0
      BY <3>1 DEF Behind, q, k
    <3> QED
      BY <1>12, <3>2, <3>3
  <2> QED
    BY <1>1, <2>1, <2>2
<1> HIDE DEF s, b, f
<1>16. (d[k + i] + f) % 2 = (((s + f) % 2) + b) % 2
  BY <1>10, <1>14, <1>15, Sums
<1> QED
  BY <1>10, <1>11, <1>16 DEF b

(* One turn of the loop divides by ByteBits places more.                   *)
Turn(x, r) == Check!Xor(Check!ShiftRight(r, ByteBits), Check!crc32_table[Index(x, r)])

LEMMA OneTurn ==
  ASSUME data \in Seq(Check!Byte), NEW x \in 0 .. Len(data) - 1, NEW r, Agrees(r, ByteBits * x)
  PROVE  Agrees(Turn(x, r), ByteBits * (x + 1))
<1> DEFINE q == ByteBits * x
           c == Check!Shifts(Index(x, r))
           sh == Check!ShiftRight(r, ByteBits)
           new == Turn(x, r)
<1>1. /\ q \in Nat /\ q + ByteBits <= End /\ End \in Nat /\ Width \in Nat
      /\ ByteBits \in Nat \ {0} /\ ByteBits <= Width /\ ByteBits * (x + 1) = q + ByteBits
  BY FileIs, Zenon
<1>2. r \in Word /\ Check!Message \in Dividend
  BY MessageIs DEF Agrees
<1> HIDE DEF q
<1>3. \A j \in 0 .. ByteBits : ShiftedBy(x, r, j)
  <2> DEFINE P == {j \in Nat : j <= ByteBits => ShiftedBy(x, r, j)}
  <2>1. 0 \in P
    BY ShiftedByNone
  <2>2. ASSUME NEW j \in Nat, j \in P PROVE j + 1 \in P
    <3>1. j + 1 <= ByteBits => j + 1 \in 1 .. ByteBits /\ (j + 1) - 1 = j /\ j <= ByteBits
      BY <1>1
    <3> QED
      BY <1>2, <2>2, <3>1, ShiftedByOne
  <2> HIDE DEF P
  <2>3. Nat \subseteq P
    BY <2>1, <2>2, Counting
  <2> QED
    BY <2>3 DEF P
<1>4. ShiftedBy(x, r, ByteBits) /\ ByteBits \in 0 .. ByteBits
  BY <1>1, <1>3
<1>5. c[ByteBits] \in Word /\ Check!crc32_table[Index(x, r)] = c[ByteBits]
  BY <1>2, <1>4, IndexIs, ShiftsIs DEF Check!crc32_table
<1>6. Check!Division[q + ByteBits] \in Dividend
  <2>1. q + ByteBits \in 0 .. End
    BY <1>1
  <2> QED
    BY <2>1, DivisionIs
<1>7. new = [i \in 1 .. Width |-> (sh[i] + c[ByteBits][i]) % 2]
  BY <1>5 DEF Turn, Check!Xor, Check!ShiftRight
<1>8. ASSUME NEW i \in 1 .. Width
      PROVE  /\ new[i] = (Check!Division[q + ByteBits][q + ByteBits + i] + Check!Message[q + ByteBits + i]) % 2
             /\ new[i] \in {0, 1}
  <2>1. q + ByteBits + i \in 1 .. End + Width /\ ~(i + ByteBits <= ByteBits)
    BY <1>1
  <2> DEFINE m == Check!Message[q + ByteBits + i]
             d == Check!Division[q + ByteBits][q + ByteBits + i]
             t == sh[i]
             s == c[ByteBits][i]
  <2>2. m \in {0, 1} /\ d \in {0, 1} /\ s \in {0, 1}
    BY <1>2, <1>5, <1>6, <2>1 DEF Dividend, Word, Check!Bit
  <2>3. t \in {0, 1}
    <3>1. i + ByteBits <= Width => i + ByteBits \in 1 .. Width
      BY <1>1
    <3> QED
      BY <1>2, <3>1 DEF Check!ShiftRight, Word, Check!Bit
  <2>4. Behind(x, r, i, ByteBits) = t + m
    BY <2>1 DEF Behind, Check!ShiftRight, q
  <2>5. d = (s + (t + m)) % 2
    BY <1>4, <2>4 DEF ShiftedBy, q
  <2>6. new[i] = (t + s) % 2
    BY <1>7
  <2> HIDE DEF m, d, t, s, new
  <2>7. (t + s) % 2 = (d + m) % 2
    BY <2>2, <2>3, <2>5, Sums
  <2>8. (t + s) % 2 \in {0, 1}
    BY <2>2, <2>3
  <2> QED
    BY <2>6, <2>7, <2>8 DEF d, m
<1>9. new \in Word
  BY <1>7, <1>8 DEF Word, Check!Bit
<1> HIDE DEF new
<1>10. Agrees(new, q + ByteBits)
  BY <1>8, <1>9 DEF Agrees
<1>11. Agrees(new, ByteBits * (x + 1))
  BY <1>1, <1>10, Zenon
<1> QED
  BY <1>11 DEF new

(* Before the first turn the register holds the ones that invert the first *)
(* bits of the dividend.                                                   *)
LEMMA AtFirst == data \in Seq(Check!Byte) => Agrees(Check!AllOnes, ByteBits * 0)
<1> SUFFICES ASSUME data \in Seq(Check!Byte) PROVE Agrees(Check!AllOnes, ByteBits * 0)
  OBVIOUS
<1>1. ByteBits * 0 = 0 /\ Width \in Nat /\ End \in Nat
  BY FileIs
<1>2. Check!AllOnes \in Word
  BY DEF Check!AllOnes, Word, Check!Bit
<1>3. ASSUME NEW i \in 1 .. Width
      PROVE  Check!AllOnes[i] = (Check!Division[0][0 + i] + Check!Message[0 + i]) % 2
  <2>1. 0 + i = i /\ i \in 1 .. End + Width /\ i <= Width
    BY <1>1
  <2>2. Check!Message[i] \in {0, 1} /\ Check!Division[0][i] = 1 - Check!Message[i]
    BY <2>1, MessageIs, DivisionIs DEF Dividend, Check!Bit
  <2>3. Check!AllOnes[i] = 1
    BY DEF Check!AllOnes
  <2> QED
    BY <2>1, <2>2, <2>3
<1>4. Agrees(Check!AllOnes, 0)
  BY <1>2, <1>3 DEF Agrees
<1> QED
  BY <1>1, <1>4

(* Behind the last turn only zeros of the message are left in the register.*)
LEMMA AtLast ==
  ASSUME data \in Seq(Check!Byte), Agrees(crc, End)
  PROVE  Check!Xor(crc, Check!AllOnes) = Check!Checksum
<1>1. End \in Nat /\ Width \in Nat /\ End \in 0 .. End
  BY FileIs
<1>2. crc \in Word /\ Check!Division[End] \in Dividend
  BY <1>1, DivisionIs DEF Agrees
<1>3. ASSUME NEW i \in 1 .. Width
      PROVE  (crc[i] + Check!AllOnes[i]) % 2 = 1 - Check!Division[End][End + i]
  <2>1. End + i \in 1 .. End + Width
    BY <1>1
  <2>2. Check!Division[End][End + i] \in {0, 1}
    BY <1>2, <2>1 DEF Dividend, Check!Bit
  <2>3. crc[i] = (Check!Division[End][End + i] + 0) % 2
    BY MessageIs DEF Agrees
  <2>4. Check!AllOnes[i] = 1
    BY DEF Check!AllOnes
  <2> QED
    BY <2>2, <2>3, <2>4
<1>4. Check!Xor(crc, Check!AllOnes) = [i \in 1 .. Width |-> (crc[i] + Check!AllOnes[i]) % 2]
  BY <1>2 DEF Check!Xor, Word
<1>5. Check!Checksum = [i \in 1 .. Width |-> 1 - Check!Division[End][End + i]]
  BY DEF Check!Checksum, End
<1> QED
  BY <1>3, <1>4, <1>5

(* Of a file that nobody changed, the register agrees with the division of *)
(* as many bytes as the loop has seen.                                     *)
CrcInv ==
  /\ crcStage = "start" => pos = 0
  /\ crcStage = "loop" /\ ~changed =>
       /\ data \in Seq(Check!Byte) /\ st_size = Len(data) /\ pos \in 0 .. st_size
       /\ Agrees(crc, ByteBits * pos)
  /\ crcStage = "done" /\ ~changed => crc = Check!Checksum

LEMMA FileSame ==
  ASSUME data' = data
  PROVE  /\ Check!Checksum' = Check!Checksum
         /\ Check!Division' = Check!Division /\ Check!Message' = Check!Message
<1>1. Check!Message' = Check!Message
  BY DEF Check!Message
<1>2. Check!Bits' = Check!Bits
  BY <1>1 DEF Check!Bits
<1>3. Check!Division' = Check!Division
  BY <1>2 DEF Check!Division
<1>4. Check!Checksum' = Check!Checksum
  BY <1>3 DEF Check!Checksum
<1> QED
  BY <1>1, <1>3, <1>4

LEMMA CrcStep == CrcInv /\ [Next]_vars => CrcInv'
<1> SUFFICES ASSUME CrcInv, [Next]_vars PROVE CrcInv'
  OBVIOUS
<1>1. CASE Check!main
  <2>1. pos' = 0 /\ crc' = Check!AllOnes /\ st_size' = Len(data') /\ crcStage' \in {"failed", "loop"}
    BY <1>1 DEF Check!main, CrcInv
  <2>2. data' \in Seq(Check!Byte)
    <3>1. PICK n \in 0 .. MaxFile : data' \in [1 .. n -> Check!Byte]
      BY <1>1 DEF Check!main
    <3> QED
      BY <3>1
  <2>3. (data \in Seq(Check!Byte) => Agrees(Check!AllOnes, ByteBits * 0))'
    BY AtFirst, PTL
  <2>4. Agrees(Check!AllOnes, ByteBits * 0)'
    BY <2>2, <2>3
  <2>5. Agrees(crc, ByteBits * pos)'
    BY <2>1, <2>4 DEF Agrees
  <2> QED
    BY <2>1, <2>2, <2>5 DEF CrcInv
<1>2. CASE Check!Change
  BY <1>2 DEF Check!Change, CrcInv
<1>3. CASE Check!calculate_crc32
  <2>1. crcStage = "loop" /\ data' = data /\ st_size' = st_size /\ changed' = changed /\ pos < st_size
    BY <1>3 DEF Check!calculate_crc32
  <2>2. CASE changed \/ crcStage' = "killed"
    BY <1>3, <2>1, <2>2 DEF Check!calculate_crc32, CrcInv
  <2>3. CASE ~changed /\ crcStage' # "killed"
    <3>1. /\ data \in Seq(Check!Byte) /\ st_size = Len(data) /\ pos \in 0 .. Len(data) - 1
          /\ Agrees(crc, ByteBits * pos) /\ pos + 1 \in 0 .. st_size
      BY <2>1, <2>3 DEF CrcInv
    <3>2. crc' = Turn(pos, crc) /\ pos' = pos + 1 /\ crcStage' = "loop"
      BY <1>3, <2>1, <2>3, <3>1 DEF Check!calculate_crc32, Turn, Index
    <3>3. Agrees(Turn(pos, crc), ByteBits * (pos + 1))
      BY <3>1, OneTurn
    <3>4. Agrees(crc', ByteBits * pos')
      BY <3>2, <3>3
    <3>5. Agrees(crc, ByteBits * pos)'
      <4>1. Check!Division' = Check!Division /\ Check!Message' = Check!Message
        BY <2>1, FileSame
      <4> QED
        BY <3>4, <4>1 DEF Agrees
    <3> QED
      BY <2>1, <3>1, <3>2, <3>5 DEF CrcInv
  <2> QED
    BY <2>2, <2>3
<1>4. CASE Check!Finish
  <2>1. /\ crcStage = "loop" /\ pos = st_size /\ crcStage' = "done" /\ crc' = Check!Xor(crc, Check!AllOnes)
        /\ data' = data /\ changed' = changed
    BY <1>4 DEF Check!Finish
  <2>2. ~changed => crc' = Check!Checksum
    BY <2>1, AtLast DEF CrcInv, End
  <2> QED
    BY <2>1, <2>2, FileSame DEF CrcInv
<1>5. CASE UNCHANGED crcVars
  <2>1. data' = data /\ UNCHANGED <<crcStage, st_size, pos, crc, changed>>
    BY <1>5 DEF crcVars
  <2>2. Agrees(crc, ByteBits * pos)' <=> Agrees(crc, ByteBits * pos)
    BY <2>1, FileSame DEF Agrees
  <2> QED
    BY <2>1, <2>2, FileSame DEF CrcInv
<1> QED
  BY <1>1, <1>2, <1>3, <1>4, <1>5, OneRuns DEF Check!Next

(* What crc32_tool.c prints of a file that nobody changes while it is      *)
(* mapped is its remainder in the division of polynomials, whatever the    *)
(* generator, the lengths of the register and of a byte, and the file.     *)
THEOREM ChecksumIsRight == Spec => []ChecksumRight
<1>1. Init => CrcInv
  BY DEF Init, Check!Init, CrcInv
<1>2. CrcInv => ChecksumRight
  BY DEF CrcInv, ChecksumRight, Check!ChecksumRight
<1> QED
  BY <1>1, <1>2, CrcStep, PTL DEF Spec

===============================================================================
