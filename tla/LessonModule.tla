---------------------------- MODULE LessonModule ----------------------------
(***************************************************************************)
(* The device bn_module (lesson_module.c): a message buffer that one open  *)
(* file may use at a time.  The mutex is held from open to release, not    *)
(* by the calls: threads that share the open file race in my_read,         *)
(* my_write and my_ioctl, and a character device's position has no lock.   *)
(* A cell holds the name of the message it is part of, or NUL.             *)
(***************************************************************************)
EXTENDS Naturals

CONSTANTS
  LessonThreads, ProcessOf,  \* threads, and the process of each
  Size,          \* sizeof(kernel_buffer)
  Writing,       \* the message each thread writes
  IoctlText,     \* what "[IOCTL] %s" formats to
  Prefix,        \* the length of "[IOCTL] "
  Nul

VARIABLES
  holders,        \* the processes that have the device open (device_mutex)
  position,       \* of the open file of each process
  kernel_buffer,  \* cells 0 .. Size - 1
  buffer_size,
  at,             \* per thread: where it is in its call
  call,           \* per thread: its count, its copy of the position, what it read
  alone,          \* history, per thread: no other thread of its file called meanwhile
  overran,        \* history: sprintf has written past the buffer
  whole           \* history: the last complete message, <<text, length>>, or << >>

Init ==
  /\ holders = {} /\ position = [p \in {ProcessOf[t] : t \in LessonThreads} |-> 0]
  /\ kernel_buffer = [i \in 0 .. Size - 1 |-> Nul] /\ buffer_size = 0
  /\ at = [t \in LessonThreads |-> "user"]
  /\ call = [t \in LessonThreads |-> [count |-> 0, pos |-> 0, got |-> {}]]
  /\ alone = [t \in LessonThreads |-> FALSE] /\ overran = FALSE /\ whole = <<Nul, 0>>

Fellows(t) == {u \in LessonThreads \ {t} : ProcessOf[u] = ProcessOf[t]}

(* Mutant: open does not ask for the mutex.                                *)
my_open_Unasked(p) ==
  /\ p \notin holders
  /\ holders' = holders \cup {p}
  /\ UNCHANGED <<position, kernel_buffer, buffer_size, at, call, alone, overran, whole>>

(* mutex_trylock; a second open returns EBUSY and changes nothing.         *)
my_open(p) ==
  /\ holders = {}
  /\ holders' = {p}
  /\ UNCHANGED <<position, kernel_buffer, buffer_size, at, call, alone, overran, whole>>

(* The last close, after the calls on the file; its position goes with it. *)
my_release(p) ==
  /\ p \in holders
  /\ \A t \in LessonThreads : ProcessOf[t] = p => at[t] = "user"
  /\ holders' = holders \ {p} /\ position' = [position EXCEPT ![p] = 0]
  /\ UNCHANGED <<kernel_buffer, buffer_size, at, call, alone, overran, whole>>

(* A call takes a copy of the position; a write or ioctl ends the message. *)
Enter(t, where, n) ==
  /\ at[t] = "user" /\ ProcessOf[t] \in holders
  /\ at' = [at EXCEPT ![t] = where]
  /\ call' = [call EXCEPT ![t] = [count |-> n, pos |-> position[ProcessOf[t]], got |-> {}]]
  /\ alone' = [u \in LessonThreads |->
       IF u = t THEN \A v \in Fellows(t) : at[v] = "user" ELSE alone[u] /\ u \notin Fellows(t)]
  /\ whole' = IF where = "read" THEN whole ELSE << >>
  /\ UNCHANGED <<holders, position, kernel_buffer, buffer_size, overran>>

Goto(t, where) == at' = [at EXCEPT ![t] = where]
Leave(t) ==
  /\ Goto(t, "user") /\ alone' = [alone EXCEPT ![t] = FALSE]
  /\ call' = [call EXCEPT ![t] = [count |-> 0, pos |-> 0, got |-> {}]]

(* Back in the kernel's read and write: the copy becomes the position.     *)
Return(t) ==
  /\ at[t] = "return" /\ Leave(t)
  /\ position' = [position EXCEPT ![ProcessOf[t]] = call[t].pos]
  /\ UNCHANGED <<holders, kernel_buffer, buffer_size, overran, whole>>

(* my_read: at the end nothing is copied.                                  *)
AtEnd(t) ==
  /\ at[t] = "read" /\ Goto(t, IF call[t].pos >= buffer_size THEN "return" ELSE "left")
  /\ UNCHANGED <<holders, position, kernel_buffer, buffer_size, call, alone, overran, whole>>

(* to_read, from a second load of buffer_size: when it has shrunk below    *)
(* the position, the unsigned difference wraps and min takes the count.    *)
Measure(t) ==
  /\ at[t] = "left" /\ Goto(t, "copyOut")
  /\ LET rest == buffer_size - call[t].pos
     IN call' = [call EXCEPT ![t].count = IF rest \in 0 .. @ THEN rest ELSE @]
  /\ UNCHANGED <<holders, position, kernel_buffer, buffer_size, alone, overran, whole>>

(* A reader's call when it has its bytes; past the buffer they are of no   *)
(* message.                                                                *)
Taken(t) ==
  LET last == call[t].pos + call[t].count
  IN [count |-> call[t].count, pos |-> last,
      got |-> {<<i, IF i < Size THEN kernel_buffer[i] ELSE Nul>> : i \in call[t].pos .. last - 1}]

(* copy_to_user copies everything, or faults: the position stays then.     *)
CopyOut(t) ==
  /\ at[t] = "copyOut"
  /\ \/ Goto(t, "return") /\ call' = [call EXCEPT ![t] = Taken(t)] /\ UNCHANGED alone
     \/ Leave(t)
  /\ UNCHANGED <<holders, position, kernel_buffer, buffer_size, overran, whole>>

StartRead(t) == \E n \in {1, Size} : Enter(t, "read", n)

my_read(t) == StartRead(t) \/ AtEnd(t) \/ Measure(t) \/ CopyOut(t)

(* Mutant: the guard of my_write lets a message fill the whole buffer.     *)
StartWrite_OneMore(t) == \E n \in 0 .. Size : Enter(t, "copyIn", n)

(* A count that leaves no room for the terminator is EINVAL, at once.      *)
StartWrite(t) == \E n \in 0 .. Size - 1 : Enter(t, "copyIn", n)

Fill(text, n) == [i \in 0 .. Size - 1 |-> IF i < n THEN text ELSE kernel_buffer[i]]

(* copy_from_user copies everything, or faults after some bytes (EFAULT).  *)
CopyIn(t) ==
  /\ at[t] = "copyIn"
  /\ \E n \in 0 .. call[t].count :
       /\ kernel_buffer' = Fill(Writing[t], n)
       /\ IF n = call[t].count THEN Goto(t, "size") /\ UNCHANGED <<call, alone>> ELSE Leave(t)
  /\ UNCHANGED <<holders, position, buffer_size, overran, whole>>

SetSize(t) ==
  /\ at[t] = "size" /\ Goto(t, "terminate") /\ buffer_size' = call[t].count
  /\ UNCHANGED <<holders, position, kernel_buffer, call, alone, overran, whole>>

Terminate(t) ==
  /\ at[t] = "terminate" /\ Goto(t, "return")
  /\ kernel_buffer' = [i \in 0 .. Size - 1 |->
                         IF i = call[t].count THEN Nul ELSE kernel_buffer[i]]
  /\ whole' = IF alone[t] THEN <<Writing[t], call[t].count>> ELSE whole
  /\ UNCHANGED <<holders, position, buffer_size, call, alone, overran>>

my_write(t) == StartWrite(t) \/ CopyIn(t) \/ SetSize(t) \/ Terminate(t)

(* sprintf of msg, 64 bytes of the user that nothing terminates: the text  *)
(* may have any length, and Size stands for those that leave the buffer.   *)
Format(t) ==
  /\ at[t] = "format" /\ Goto(t, "measure")
  /\ \E n \in Prefix .. Size :
       /\ kernel_buffer' = [i \in 0 .. Size - 1 |->
                              IF i = n THEN Nul ELSE Fill(IoctlText, n)[i]]
       /\ call' = [call EXCEPT ![t].count = n]
       /\ overran' = (overran \/ n = Size)
  /\ UNCHANGED <<holders, position, buffer_size, alone, whole>>

(* strlen of whatever the buffer holds by now; ioctl leaves the position.  *)
TakeLength(t) ==
  /\ at[t] = "measure" /\ Leave(t)
  /\ \E n \in 0 .. Size :
       /\ n < Size => kernel_buffer[n] = Nul
       /\ \A i \in 0 .. n - 1 : kernel_buffer[i] # Nul
       /\ buffer_size' = n
  /\ whole' = IF alone[t] THEN <<IoctlText, call[t].count>> ELSE whole
  /\ UNCHANGED <<holders, position, kernel_buffer, overran>>

my_ioctl(t) == Enter(t, "format", 0) \/ Format(t) \/ TakeLength(t)

Next ==
  \/ \E p \in DOMAIN position : my_open(p) \/ my_release(p)
  \/ \E t \in LessonThreads : my_read(t) \/ my_write(t) \/ my_ioctl(t) \/ Return(t)

vars == <<holders, position, kernel_buffer, buffer_size, at, call, alone, overran, whole>>
Spec == Init /\ [][Next]_vars

(* However calls race or fault, the last cell stays NUL, so that strlen    *)
(* (my_ioctl:76) ends inside the buffer, and no read that its own process  *)
(* leaves alone goes past it; until ioctl gets a text without an end.      *)
WithinBuffer == ~overran =>
  /\ kernel_buffer[Size - 1] = Nul /\ buffer_size < Size
  /\ \A t \in LessonThreads :
       at[t] = "copyOut" /\ alone[t] => call[t].pos + call[t].count < Size

(* A read that no thread of its own process disturbs returns a piece of    *)
(* the last complete message, at the place its position says, unless a     *)
(* fault or a race cut that message, or an ioctl left the buffer: other    *)
(* processes cannot interfere.                                             *)
ReadsOneMessage ==
  \A t \in LessonThreads : ~overran /\ at[t] = "return" /\ alone[t] /\ whole # << >> =>
    \A g \in call[t].got : g = <<g[1], whole[1]>> /\ g[1] < whole[2]
=============================================================================
