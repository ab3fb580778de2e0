-------------------------- MODULE LessonModuleProofs --------------------------
(***************************************************************************)
(* The buffer of the lesson's device keeps its terminator and its bounds,  *)
(* and an undisturbed read is of one message, for every number of threads  *)
(* and processes and every size.                                           *)
(***************************************************************************)
EXTENDS LessonModule, TLAPS

Texts == {Nul, IoctlText} \cup {Writing[t] : t \in LessonThreads}
Places == {"user", "read", "left", "copyOut", "return", "copyIn", "size", "terminate", "format", "measure"}
Calls == [count : Nat, pos : Nat, got : SUBSET (Nat \X Texts)]

(* Room for a message, for ioctl's prefix and for the terminator: the      *)
(* program's Size is 256, its Prefix 8.                                    *)
RoomAssumption == Size \in Nat \ {0, 1} /\ Prefix \in 0 .. Size - 1

(* What holds as long as no text without an end has left the buffer.       *)
BufferInv ==
  /\ kernel_buffer \in [0 .. Size - 1 -> Texts] /\ kernel_buffer[Size - 1] = Nul
  /\ buffer_size \in 0 .. Size - 1

(* A writer carries a count that the guard of my_write let pass, or the    *)
(* length of a formatted text that fits.                                   *)
CountRight(where, c) ==
  where \in {"copyIn", "size", "terminate", "measure"} => c.count \in 0 .. Size - 1

CallsInv ==
  /\ position \in [{ProcessOf[t] : t \in LessonThreads} -> Nat]
  /\ at \in [LessonThreads -> Places] /\ call \in [LessonThreads -> Calls]
  /\ \A t \in LessonThreads : CountRight(at[t], call[t])

LessonInv == BufferInv /\ CallsInv

(* A thread that moves to another place, with another record of its call,  *)
(* keeps CallsInv if that pair is right.                                   *)
LEMMA ThreadMoves ==
  ASSUME CallsInv, NEW t \in LessonThreads, NEW where \in Places, NEW c \in Calls,
         CountRight(where, c), position' = position,
         at' = [at EXCEPT ![t] = where], call' = [call EXCEPT ![t] = c]
  PROVE  CallsInv'
<1>1. at' \in [LessonThreads -> Places] /\ call' \in [LessonThreads -> Calls]
  BY DEF CallsInv
<1>2. ASSUME NEW u \in LessonThreads PROVE CountRight(at'[u], call'[u])
  BY DEF CallsInv
<1>3. QED
  BY <1>1, <1>2 DEF CallsInv, CountRight

(* The same when the record stays.                                         *)
LEMMA ThreadGoes ==
  ASSUME CallsInv, NEW t \in LessonThreads, NEW where \in Places,
         CountRight(where, call[t]), position' = position, Goto(t, where), call' = call
  PROVE  CallsInv'
<1>1. call' = [call EXCEPT ![t] = call[t]] /\ call[t] \in Calls
  BY DEF CallsInv
<1>2. QED
  BY <1>1, ThreadMoves DEF Goto

(* The end of a call.                                                      *)
LEMMA ThreadLeaves ==
  ASSUME CallsInv, NEW t \in LessonThreads, Leave(t),
         position' \in [{ProcessOf[u] : u \in LessonThreads} -> Nat]
  PROVE  CallsInv'
<1>1. at' \in [LessonThreads -> Places] /\ call' \in [LessonThreads -> Calls]
  BY DEF CallsInv, Leave, Goto, Places, Calls
<1>2. ASSUME NEW u \in LessonThreads PROVE CountRight(at'[u], call'[u])
  BY DEF CallsInv, CountRight, Leave, Goto
<1>3. QED
  BY <1>1, <1>2 DEF CallsInv, CountRight

(* The beginning of a call, with a count that suits it.                    *)
LEMMA ThreadEnters ==
  ASSUME CallsInv, NEW t \in LessonThreads, NEW where \in Places \ {"measure"}, NEW n \in Nat,
         where \in {"copyIn", "size", "terminate"} => n \in 0 .. Size - 1, Enter(t, where, n)
  PROVE  CallsInv'
<1> DEFINE c == [count |-> n, pos |-> position[ProcessOf[t]], got |-> {}]
<1>1. c \in Calls
  BY DEF CallsInv, Calls
<1>2. CountRight(where, c)
  BY DEF CountRight
<1>3. QED
  BY <1>1, <1>2, ThreadMoves DEF Enter

(* The bytes that Fill leaves alone, the last one among them.              *)
LEMMA FillKeepsEnd ==
  ASSUME RoomAssumption, BufferInv, NEW text \in Texts, NEW n \in 0 .. Size - 1
  PROVE  Fill(text, n) \in [0 .. Size - 1 -> Texts] /\ Fill(text, n)[Size - 1] = Nul
  BY DEF RoomAssumption, BufferInv, Fill, Texts

LEMMA ReadersKeepBuffer ==
  ASSUME RoomAssumption, LessonInv, NEW t \in LessonThreads, my_read(t) \/ Return(t)
  PROVE  LessonInv'
<1>1. BufferInv'
  BY DEF LessonInv, BufferInv, my_read, StartRead, Enter, AtEnd, Measure, CopyOut, Return
<1> SUFFICES CallsInv'
  BY <1>1 DEF LessonInv
<1>2. CASE StartRead(t)
  BY <1>2, ThreadEnters DEF StartRead, LessonInv, Places, RoomAssumption
<1>3. CASE AtEnd(t)
  <2> DEFINE where == IF call[t].pos >= buffer_size THEN "return" ELSE "left"
  <2>1. where \in Places /\ CountRight(where, call[t])
    BY DEF Places, CountRight
  <2> QED
    BY <1>3, <2>1, ThreadGoes DEF AtEnd, LessonInv
<1>4. CASE Measure(t)
  <2> DEFINE rest == buffer_size - call[t].pos
             n == IF rest \in 0 .. call[t].count THEN rest ELSE call[t].count
             c == [call[t] EXCEPT !.count = n]
  <2>1. call[t] \in Calls /\ buffer_size \in 0 .. Size - 1
    BY DEF LessonInv, CallsInv, BufferInv
  <2>2. n \in Nat
    BY <2>1 DEF Calls
  <2>3. c \in Calls
    BY <2>1, <2>2 DEF Calls
  <2>4. CountRight("copyOut", c)
    BY DEF CountRight
  <2>5. call' = [call EXCEPT ![t] = c]
    BY <1>4 DEF Measure
  <2> QED
    BY <1>4, <2>3, <2>4, <2>5, ThreadMoves DEF Measure, Goto, LessonInv, Places
<1>5. CASE CopyOut(t)
  <2>1. CASE Leave(t)
    BY <1>5, <2>1, ThreadLeaves DEF CopyOut, LessonInv, CallsInv
  <2>2. CASE ~Leave(t)
    <3> DEFINE Cell(i) == IF i < Size THEN kernel_buffer[i] ELSE Nul
               bytes == {<<i, Cell(i)>> : i \in call[t].pos .. call[t].pos + call[t].count - 1}
    <3>1. call[t].pos \in Nat /\ call[t].count \in Nat
      BY DEF LessonInv, CallsInv, Calls
    <3>2. ASSUME NEW i \in Nat PROVE Cell(i) \in Texts
      BY DEF LessonInv, BufferInv, RoomAssumption, Texts
    <3>3. bytes \subseteq Nat \X Texts
      <4>1. ASSUME NEW i \in call[t].pos .. call[t].pos + call[t].count - 1 PROVE i \in Nat
        BY <3>1
      <4> QED
        BY <3>2, <4>1
    <3>4. Taken(t) \in Calls
      BY <3>1, <3>3 DEF Taken, Calls
    <3>5. CountRight("return", Taken(t))
      BY DEF CountRight
    <3>6. QED
      BY <1>5, <2>2, <3>4, <3>5, ThreadMoves DEF CopyOut, Goto, LessonInv, Places
  <2>3. QED
    BY <2>1, <2>2
<1>6. CASE Return(t)
  <2>1. call[t].pos \in Nat
    BY DEF LessonInv, CallsInv, Calls
  <2>2. QED
    BY <1>6, <2>1, ThreadLeaves DEF Return, LessonInv, CallsInv
<1>7. QED
  BY <1>2, <1>3, <1>4, <1>5, <1>6 DEF my_read

(* The last cell is beyond every count that a writer has.                  *)
LEMMA WritersKeepBuffer ==
  ASSUME RoomAssumption, LessonInv, NEW t \in LessonThreads, my_write(t)
  PROVE  LessonInv'
<1>1. CASE StartWrite(t)
  <2>1. CallsInv'
    BY <1>1, ThreadEnters DEF StartWrite, LessonInv, Places, RoomAssumption
  <2>2. QED
    BY <1>1, <2>1 DEF StartWrite, Enter, LessonInv, BufferInv
<1>2. CASE CopyIn(t)
  <2>1. PICK n \in 0 .. call[t].count :
          /\ kernel_buffer' = Fill(Writing[t], n)
          /\ IF n = call[t].count THEN Goto(t, "size") /\ UNCHANGED <<call, alone>> ELSE Leave(t)
    BY <1>2 DEF CopyIn
  <2>2. call[t].count \in 0 .. Size - 1
    BY <1>2 DEF CopyIn, LessonInv, CallsInv, CountRight
  <2>3. n \in 0 .. Size - 1 /\ Writing[t] \in Texts
    BY <2>2 DEF RoomAssumption, Texts
  <2>4. BufferInv'
    BY <1>2, <2>1, <2>3, FillKeepsEnd DEF CopyIn, LessonInv, BufferInv
  <2>5. CASE n = call[t].count
    BY <1>2, <2>1, <2>2, <2>4, <2>5, ThreadGoes DEF CopyIn, LessonInv, CountRight, Places
  <2>6. CASE n # call[t].count
    BY <1>2, <2>1, <2>4, <2>6, ThreadLeaves DEF CopyIn, LessonInv, CallsInv
  <2>7. QED
    BY <2>5, <2>6
<1>3. CASE SetSize(t)
  <2>1. call[t].count \in 0 .. Size - 1
    BY <1>3 DEF SetSize, LessonInv, CallsInv, CountRight
  <2>2. CallsInv'
    BY <1>3, <2>1, ThreadGoes DEF SetSize, LessonInv, CountRight, Places
  <2>3. QED
    BY <1>3, <2>1, <2>2 DEF SetSize, LessonInv, BufferInv, RoomAssumption
<1>4. CASE Terminate(t)
  <2>1. CallsInv'
    BY <1>4, ThreadGoes DEF Terminate, LessonInv, CountRight, Places
  <2>2. BufferInv'
    BY <1>4 DEF Terminate, LessonInv, BufferInv, RoomAssumption, Texts
  <2>3. QED
    BY <2>1, <2>2 DEF LessonInv
<1>5. QED
  BY <1>1, <1>2, <1>3, <1>4 DEF my_write

(* A text that fits has its terminator inside, and strlen ends at the last *)
(* cell, whatever the others have become.                                  *)
LEMMA IoctlKeepsBuffer ==
  ASSUME RoomAssumption, LessonInv, NEW t \in LessonThreads, my_ioctl(t), ~overran'
  PROVE  LessonInv'
<1>1. CASE Enter(t, "format", 0)
  <2>1. CallsInv'
    BY <1>1, ThreadEnters DEF LessonInv, Places
  <2>2. QED
    BY <1>1, <2>1 DEF Enter, LessonInv, BufferInv
<1>2. CASE Format(t)
  <2>1. PICK n \in Prefix .. Size :
          /\ kernel_buffer' = [i \in 0 .. Size - 1 |->
                                 IF i = n THEN Nul ELSE Fill(IoctlText, n)[i]]
          /\ call' = [call EXCEPT ![t].count = n]
          /\ overran' = (overran \/ n = Size)
    BY <1>2 DEF Format
  <2>2. n \in 0 .. Size - 1
    <3>1. n # Size
      BY <2>1, Zenon
    <3> QED
      BY <3>1 DEF RoomAssumption
  <2>3. Fill(IoctlText, n) \in [0 .. Size - 1 -> Texts] /\ Fill(IoctlText, n)[Size - 1] = Nul
    BY <2>2, FillKeepsEnd DEF LessonInv, Texts
  <2>4. BufferInv'
    <3>1. buffer_size' = buffer_size /\ Size - 1 \in 0 .. Size - 1
      BY <1>2 DEF Format, RoomAssumption
    <3> QED
      BY <2>1, <2>3, <3>1 DEF LessonInv, BufferInv, Texts
  <2>5. CallsInv'
    <3> DEFINE c == [call[t] EXCEPT !.count = n]
    <3>1. c \in Calls /\ c.count = n
      BY <2>2 DEF LessonInv, CallsInv, Calls
    <3>2. CountRight("measure", c)
      BY <2>2, <3>1 DEF CountRight
    <3>3. call' = [call EXCEPT ![t] = c]
      BY <2>1
    <3> QED
      BY <1>2, <3>1, <3>2, <3>3, ThreadMoves DEF Format, Goto, LessonInv, Places
  <2> QED
    BY <2>4, <2>5 DEF LessonInv
<1>3. CASE TakeLength(t)
  <2>1. PICK n \in 0 .. Size :
          (\A i \in 0 .. n - 1 : kernel_buffer[i] # Nul) /\ buffer_size' = n
    BY <1>3 DEF TakeLength
  <2>2. n # Size
    BY <2>1 DEF RoomAssumption, LessonInv, BufferInv
  <2>3. CallsInv'
    BY <1>3, ThreadLeaves DEF TakeLength, LessonInv, CallsInv
  <2>4. QED
    BY <1>3, <2>1, <2>2, <2>3 DEF TakeLength, LessonInv, BufferInv, RoomAssumption
<1>4. QED
  BY <1>1, <1>2, <1>3 DEF my_ioctl

(* Open and release touch the position at most.                            *)
LEMMA OpenKeepsBuffer ==
  ASSUME LessonInv, NEW p \in DOMAIN position, my_open(p) \/ my_release(p)
  PROVE  LessonInv'
<1>1. BufferInv'
  BY DEF my_open, my_release, LessonInv, BufferInv
<1>2. at' = at /\ call' = call /\ position' \in [{ProcessOf[t] : t \in LessonThreads} -> Nat]
  BY DEF my_open, my_release, LessonInv, CallsInv
<1>3. QED
  BY <1>1, <1>2 DEF LessonInv, CallsInv, CountRight

LEMMA LessonInit == RoomAssumption /\ Init => LessonInv
<1> SUFFICES ASSUME RoomAssumption, Init PROVE LessonInv
  OBVIOUS
<1>1. BufferInv
  BY DEF RoomAssumption, Init, BufferInv, Texts
<1>2. CallsInv
  BY DEF Init, CallsInv, CountRight, Places, Calls
<1>3. QED
  BY <1>1, <1>2 DEF LessonInv

LEMMA LessonStep == RoomAssumption /\ LessonInv /\ [Next]_vars /\ ~overran' => LessonInv'
<1> SUFFICES ASSUME RoomAssumption, LessonInv, [Next]_vars, ~overran' PROVE LessonInv'
  OBVIOUS
<1>1. CASE UNCHANGED vars
  BY <1>1 DEF vars, LessonInv, BufferInv, CallsInv, CountRight
<1>2. ASSUME NEW p \in DOMAIN position, my_open(p) \/ my_release(p) PROVE LessonInv'
  BY <1>2, OpenKeepsBuffer
<1>3. ASSUME NEW t \in LessonThreads, my_read(t) \/ my_write(t) \/ my_ioctl(t) \/ Return(t)
      PROVE  LessonInv'
  BY <1>3, ReadersKeepBuffer, WritersKeepBuffer, IoctlKeepsBuffer
<1>4. QED
  BY <1>1, <1>2, <1>3 DEF Next

(* What sprintf has written past the buffer stays written.                 *)
LEMMA OverrunStays == overran /\ [Next]_vars => overran'
<1> SUFFICES ASSUME overran, [Next]_vars PROVE overran'
  OBVIOUS
<1>1. CASE UNCHANGED vars
  BY <1>1 DEF vars
<1>2. ASSUME NEW p \in DOMAIN position, my_open(p) \/ my_release(p) PROVE overran'
  BY <1>2 DEF my_open, my_release
<1>3. ASSUME NEW t \in LessonThreads, my_read(t) \/ Return(t) PROVE overran'
  BY <1>3 DEF my_read, StartRead, Enter, AtEnd, Measure, CopyOut, Return
<1>4. ASSUME NEW t \in LessonThreads, my_write(t) \/ my_ioctl(t) PROVE overran'
  BY <1>4 DEF my_write, my_ioctl, StartWrite, Enter, CopyIn, SetSize, Terminate, Format, TakeLength
<1> QED
  BY <1>1, <1>2, <1>3, <1>4 DEF Next

-----------------------------------------------------------------------------
(* What a read takes.                                                      *)

(* sprintf's %s writes no NUL before the terminator.                       *)
TextAssumption == IoctlText # Nul

(* The device is open in one process, and a call that is alone has no      *)
(* other call on its file beside it.                                       *)
HeldInv ==
  /\ \A p, q \in holders : p = q
  /\ \A t \in LessonThreads : at[t] # "user" => ProcessOf[t] \in holders
  /\ alone \in [LessonThreads -> BOOLEAN]
  /\ \A t \in LessonThreads : alone[t] => \A u \in Fellows(t) : at[u] = "user"

Holds(text, n) == \A i \in 0 .. n - 1 : kernel_buffer[i] = text

(* A complete message is in the buffer, and nobody is writing.             *)
WholeInv == whole # << >> =>
  /\ \E text \in Texts, n \in 0 .. Size - 1 :
       whole = <<text, n>> /\ buffer_size = n /\ Holds(text, n)
  /\ \A t \in LessonThreads : at[t] \in {"user", "read", "left", "copyOut", "return"}

(* How far an undisturbed call has come.                                   *)
Undisturbed(t) ==
  /\ at[t] \in {"size", "terminate"} => Holds(Writing[t], call[t].count)
  /\ at[t] = "terminate" => buffer_size = call[t].count
  /\ at[t] = "measure" => kernel_buffer[call[t].count] = Nul /\ Holds(IoctlText, call[t].count)
  /\ at[t] = "left" => call[t].pos < buffer_size
  /\ at[t] = "copyOut" => call[t].pos + call[t].count <= buffer_size
  /\ at[t] = "return" /\ whole # << >> =>
       \A g \in call[t].got : g = <<g[1], whole[1]>> /\ g[1] < whole[2]

ReadInv ==
  /\ LessonInv /\ HeldInv /\ WholeInv
  /\ \A t \in LessonThreads : at[t] # "return" => call[t].got = {}
  /\ \A t \in LessonThreads : alone[t] => Undisturbed(t)

(* An undisturbed call is the only one.                                    *)
LEMMA AloneIsOnly ==
  ASSUME ReadInv, NEW t \in LessonThreads, alone[t], at[t] # "user",
         NEW u \in LessonThreads, u # t
  PROVE  at[u] = "user"
<1> SUFFICES ASSUME at[u] # "user" PROVE FALSE
  OBVIOUS
<1>1. ProcessOf[u] = ProcessOf[t]
  BY DEF ReadInv, HeldInv
<1> QED
  BY <1>1 DEF ReadInv, HeldInv, Fellows

(* What the steps of a call do to the other threads and to the histories.  *)
LEMMA CallSteps ==
  ASSUME ReadInv, NEW t \in LessonThreads,
         my_read(t) \/ my_write(t) \/ my_ioctl(t) \/ Return(t)
  PROVE  /\ holders' = holders /\ alone' \in [LessonThreads -> BOOLEAN]
         /\ \A u \in LessonThreads : u # t =>
              at'[u] = at[u] /\ call'[u] = call[u] /\ (alone'[u] => alone[u])
         /\ at[t] # "user" => (alone'[t] => alone[t])
         /\ at[t] = "user" =>
              /\ ProcessOf[t] \in holders
              /\ alone'[t] => \A u \in Fellows(t) : at[u] = "user"
              /\ \A u \in LessonThreads : u # t => (alone'[u] => u \notin Fellows(t))
<1> USE DEF ReadInv, LessonInv, CallsInv, HeldInv
<1>1. ASSUME NEW where, NEW n, Enter(t, where, n)
      PROVE  /\ holders' = holders /\ alone' \in [LessonThreads -> BOOLEAN]
             /\ at[t] = "user" /\ ProcessOf[t] \in holders
             /\ \A u \in LessonThreads : u # t =>
                  at'[u] = at[u] /\ call'[u] = call[u] /\ (alone'[u] => alone[u] /\ u \notin Fellows(t))
             /\ alone'[t] => \A u \in Fellows(t) : at[u] = "user"
  BY <1>1 DEF Enter
<1>2. ASSUME holders' = holders, at[t] # "user",
             \E where : at' = [at EXCEPT ![t] = where],
             call' = call \/ \E c : call' = [call EXCEPT ![t] = c],
             alone' = alone \/ alone' = [alone EXCEPT ![t] = FALSE]
      PROVE  /\ alone' \in [LessonThreads -> BOOLEAN]
             /\ \A u \in LessonThreads : u # t => at'[u] = at[u] /\ call'[u] = call[u]
             /\ \A u \in LessonThreads : alone'[u] => alone[u]
  BY <1>2
<1>3. CASE AtEnd(t) \/ Measure(t) \/ CopyOut(t) \/ Return(t)
  <2>1. /\ holders' = holders /\ at[t] # "user" /\ \E where : at' = [at EXCEPT ![t] = where]
        /\ alone' = alone \/ alone' = [alone EXCEPT ![t] = FALSE]
    BY <1>3 DEF AtEnd, Measure, CopyOut, Return, Leave, Goto
  <2>2. call' = call \/ \E c : call' = [call EXCEPT ![t] = c]
    <3>1. CASE Measure(t)
      <4> DEFINE rest == buffer_size - call[t].pos
                 m == IF rest \in 0 .. call[t].count THEN rest ELSE call[t].count
      <4>1. call' = [call EXCEPT ![t] = [call[t] EXCEPT !.count = m]]
        BY <3>1 DEF Measure
      <4> QED
        BY <4>1
    <3> QED
      BY <1>3, <3>1 DEF AtEnd, CopyOut, Return, Leave
  <2> QED
    BY <1>2, <2>1, <2>2
<1>4. CASE CopyIn(t) \/ SetSize(t) \/ Terminate(t) \/ Format(t) \/ TakeLength(t)
  <2>1. /\ holders' = holders /\ at[t] # "user" /\ \E where : at' = [at EXCEPT ![t] = where]
        /\ alone' = alone \/ alone' = [alone EXCEPT ![t] = FALSE]
        /\ call' = call \/ \E c : call' = [call EXCEPT ![t] = c]
    BY <1>4 DEF CopyIn, SetSize, Terminate, Format, TakeLength, Leave, Goto
  <2> QED
    BY <1>2, <2>1
<1>5. \/ \E n : Enter(t, "read", n) \/ Enter(t, "copyIn", n) \/ Enter(t, "format", n)
      \/ AtEnd(t) \/ Measure(t) \/ CopyOut(t) \/ Return(t)
      \/ CopyIn(t) \/ SetSize(t) \/ Terminate(t) \/ Format(t) \/ TakeLength(t)
  BY DEF my_read, my_write, my_ioctl, StartRead, StartWrite
<1> QED
  BY <1>1, <1>3, <1>4, <1>5

(* So only the caller itself can disturb what ReadInv says of the threads. *)
LEMMA OthersStay ==
  ASSUME ReadInv, NEW t \in LessonThreads,
         my_read(t) \/ my_write(t) \/ my_ioctl(t) \/ Return(t)
  PROVE  /\ HeldInv'
         /\ \A u \in LessonThreads : u # t =>
              /\ (at[u] # "return" => call[u].got = {})'
              /\ (alone[u] => Undisturbed(u))'
<1>1. HeldInv'
  <2>1. ASSUME NEW u \in LessonThreads, at'[u] # "user" PROVE ProcessOf[u] \in holders
    BY <2>1, CallSteps DEF ReadInv, HeldInv
  <2>2. ASSUME NEW u \in LessonThreads, alone'[u], NEW v \in Fellows(u) PROVE at'[v] = "user"
    <3>1. v \in LessonThreads /\ v # u /\ ProcessOf[v] = ProcessOf[u]
      BY DEF Fellows
    <3>2. CASE u = t
      BY <2>2, <3>1, <3>2, CallSteps DEF ReadInv, HeldInv
    <3>3. CASE u # t /\ v = t
      <4>1. alone[u] /\ u \in Fellows(t) /\ at[t] = "user"
        BY <2>2, <3>1, <3>3, CallSteps DEF ReadInv, HeldInv, Fellows
      <4> QED
        BY <2>2, <3>3, <4>1, CallSteps
    <3>4. CASE u # t /\ v # t
      BY <2>2, <3>1, <3>4, CallSteps DEF ReadInv, HeldInv
    <3> QED
      BY <3>2, <3>3, <3>4
  <2> QED
    BY <2>1, <2>2, CallSteps DEF ReadInv, HeldInv, Fellows
<1>2. ASSUME NEW u \in LessonThreads, u # t
      PROVE  (at[u] # "return" => call[u].got = {})'
  BY <1>2, CallSteps DEF ReadInv
<1>3. ASSUME NEW u \in LessonThreads, u # t, alone'[u], at'[u] # "user" PROVE FALSE
  <2>1. alone[u] /\ at[u] # "user"
    BY <1>3, CallSteps
  <2>2. at[t] = "user"
    BY <1>3, <2>1, AloneIsOnly
  <2>3. u \notin Fellows(t) /\ ProcessOf[t] \in holders /\ ProcessOf[u] \in holders
    BY <1>3, <2>1, <2>2, CallSteps DEF ReadInv, HeldInv
  <2> QED
    BY <1>3, <2>3 DEF ReadInv, HeldInv, Fellows
<1>4. ASSUME NEW u \in LessonThreads, u # t PROVE (alone[u] => Undisturbed(u))'
  <2> SUFFICES ASSUME alone'[u] PROVE Undisturbed(u)'
    OBVIOUS
  <2>1. at'[u] = "user"
    BY <1>3, <1>4
  <2> QED
    BY <2>1 DEF Undisturbed
<1> QED
  BY <1>1, <1>2, <1>4

LEMMA CallKeeps ==
  ASSUME ReadInv, LessonInv', NEW t \in LessonThreads,
         my_read(t) \/ my_write(t) \/ my_ioctl(t) \/ Return(t), WholeInv',
         (at[t] # "return" => call[t].got = {})', (alone[t] => Undisturbed(t))'
  PROVE  ReadInv'
<1>1. ASSUME NEW u \in LessonThreads
      PROVE  (at[u] # "return" => call[u].got = {})' /\ (alone[u] => Undisturbed(u))'
  BY OthersStay
<1> QED
  BY <1>1, OthersStay DEF ReadInv

(* The buffer stays as it is under a reader, and under nobody at all.      *)
LEMMA WholeKept ==
  ASSUME WholeInv, whole' \in {whole, << >>}, kernel_buffer' = kernel_buffer,
         buffer_size' = buffer_size,
         \A t \in LessonThreads : at'[t] = at[t] \/ whole' = << >>
                                  \/ at'[t] \in {"user", "read", "left", "copyOut", "return"}
  PROVE  WholeInv'
<1> SUFFICES ASSUME whole' # << >> PROVE WholeInv'
  BY DEF WholeInv
<1>1. whole' = whole /\ whole # << >>
  OBVIOUS
<1>2. PICK text \in Texts, n \in 0 .. Size - 1 :
        whole = <<text, n>> /\ buffer_size = n /\ Holds(text, n)
  BY <1>1 DEF WholeInv
<1>3. whole' = <<text, n>> /\ buffer_size' = n /\ Holds(text, n)'
  BY <1>1, <1>2 DEF Holds
<1> QED
  BY <1>1, <1>3 DEF WholeInv

(* While a thread writes no message counts as complete.                    *)
LEMMA WritingHasNone ==
  ASSUME ReadInv, NEW t \in LessonThreads,
         at[t] \in {"copyIn", "size", "terminate", "format", "measure"}
  PROVE  whole = << >>
  BY DEF ReadInv, WholeInv

LEMMA EnterReads ==
  ASSUME ReadInv, LessonInv', NEW t \in LessonThreads, NEW n,
         NEW where \in {"read", "copyIn", "format"}, Enter(t, where, n),
         my_read(t) \/ my_write(t) \/ my_ioctl(t)
  PROVE  ReadInv'
<1>1. at'[t] = where /\ call'[t].got = {}
  BY DEF Enter, ReadInv, LessonInv, CallsInv
<1>2. WholeInv'
  <2>1. \A u \in LessonThreads : u # t => at'[u] = at[u]
    BY CallSteps
  <2>2. whole' = IF where = "read" THEN whole ELSE << >>
    BY DEF Enter
  <2> QED
    BY <1>1, <2>1, <2>2, WholeKept DEF Enter, ReadInv
<1>3. Undisturbed(t)'
  BY <1>1 DEF Undisturbed
<1> QED
  BY <1>1, <1>2, <1>3, CallKeeps

(* The bytes that CopyOut takes are in the buffer.                         *)
LEMMA BytesTaken ==
  ASSUME NEW t \in LessonThreads
  PROVE  \A g \in Taken(t).got : \E i \in call[t].pos .. (call[t].pos + call[t].count) - 1 :
           g = <<i, IF i < Size THEN kernel_buffer[i] ELSE Nul>>
  BY DEF Taken

LEMMA ReaderReads ==
  ASSUME RoomAssumption, ReadInv, LessonInv', NEW t \in LessonThreads,
         AtEnd(t) \/ Measure(t) \/ CopyOut(t) \/ Return(t)
  PROVE  ReadInv'
<1>1. my_read(t) \/ Return(t)
  BY DEF my_read
<1>2. at[t] # "user" /\ call[t] \in Calls /\ at'[t] \in {"user", "left", "copyOut", "return"}
  BY DEF AtEnd, Measure, CopyOut, Return, Leave, Goto, ReadInv, LessonInv, CallsInv
<1>3. WholeInv'
  <2>1. \A u \in LessonThreads : u # t => at'[u] = at[u]
    BY <1>1, CallSteps
  <2> QED
    BY <1>2, <2>1, WholeKept DEF AtEnd, Measure, CopyOut, Return, ReadInv
<1>4. CASE Leave(t)
  <2>1. at'[t] = "user" /\ call'[t].got = {}
    BY <1>4 DEF Leave, Goto, ReadInv, LessonInv, CallsInv
  <2>2. Undisturbed(t)'
    BY <2>1 DEF Undisturbed
  <2> QED
    BY <1>1, <1>3, <2>1, <2>2, CallKeeps
<1>5. CASE AtEnd(t)
  <2>1. /\ call' = call /\ buffer_size' = buffer_size /\ call[t].got = {}
        /\ at'[t] = IF call[t].pos >= buffer_size THEN "return" ELSE "left"
    BY <1>5 DEF AtEnd, Goto, ReadInv, LessonInv, CallsInv
  <2>2. at'[t] = "left" => call[t].pos < buffer_size
    BY <1>2, <2>1 DEF Calls, ReadInv, LessonInv, BufferInv
  <2>3. Undisturbed(t)'
    BY <2>1, <2>2 DEF Undisturbed
  <2> QED
    BY <1>1, <1>3, <2>1, <2>3, CallKeeps
<1>6. CASE Measure(t)
  <2> DEFINE rest == buffer_size - call[t].pos
             m == IF rest \in 0 .. call[t].count THEN rest ELSE call[t].count
             c == [call[t] EXCEPT !.count = m]
  <2>1. /\ at'[t] = "copyOut" /\ call'[t] = c /\ buffer_size' = buffer_size /\ alone' = alone
    BY <1>6 DEF Measure, Goto, ReadInv, LessonInv, CallsInv
  <2>2. c.got = {} /\ c.pos = call[t].pos /\ c.count = m
    <3>1. call[t].got = {}
      BY <1>6 DEF Measure, ReadInv
    <3> QED
      BY <1>2, <3>1 DEF Calls
  <2>3. alone[t] => call[t].pos < buffer_size
    BY <1>6 DEF Measure, ReadInv, Undisturbed
  <2>4. alone[t] => call[t].pos + m <= buffer_size
    BY <1>2, <2>3 DEF Calls, ReadInv, LessonInv, BufferInv
  <2>5. (alone[t] => Undisturbed(t))'
    BY <2>1, <2>2, <2>4 DEF Undisturbed
  <2>6. call'[t].got = {}
    BY <2>1, <2>2
  <2> QED
    BY <1>1, <1>3, <2>5, <2>6, CallKeeps
<1>7. CASE CopyOut(t) /\ ~Leave(t)
  <2>1. at'[t] = "return" /\ call'[t] = Taken(t) /\ alone' = alone /\ whole' = whole
    BY <1>7 DEF CopyOut, Goto, ReadInv, LessonInv, CallsInv
  <2>2. ASSUME alone'[t], whole # << >>, NEW g \in Taken(t).got
        PROVE  g = <<g[1], whole[1]>> /\ g[1] < whole[2]
    <3>1. call[t].pos + call[t].count <= buffer_size
      BY <1>7, <2>1, <2>2 DEF CopyOut, ReadInv, Undisturbed
    <3>2. PICK i \in call[t].pos .. (call[t].pos + call[t].count) - 1 :
                 g = <<i, IF i < Size THEN kernel_buffer[i] ELSE Nul>>
      BY <2>2, BytesTaken
    <3>3. PICK text \in Texts, n \in 0 .. Size - 1 :
                 whole = <<text, n>> /\ buffer_size = n /\ Holds(text, n)
      BY <2>2 DEF ReadInv, WholeInv
    <3>4. i \in 0 .. n - 1 /\ i < n /\ i < Size
      BY <1>2, <3>1, <3>2, <3>3 DEF Calls, RoomAssumption
    <3> QED
      BY <3>2, <3>3, <3>4 DEF Holds
  <2>3. (alone[t] => Undisturbed(t))'
    BY <2>1, <2>2 DEF Undisturbed
  <2> QED
    BY <1>1, <1>3, <2>1, <2>3, CallKeeps
<1> QED
  BY <1>4, <1>5, <1>6, <1>7 DEF CopyOut, Return

(* The steps of a call that writes; only the last one of a call that was   *)
(* never disturbed completes a message.                                    *)
LEMMA WriterReads ==
  ASSUME RoomAssumption, TextAssumption, ReadInv, LessonInv', ~overran', NEW t \in LessonThreads,
         CopyIn(t) \/ SetSize(t) \/ Terminate(t) \/ Format(t) \/ TakeLength(t)
  PROVE  ReadInv'
<1>1. my_write(t) \/ my_ioctl(t)
  BY DEF my_write, my_ioctl
<1>2. at[t] # "user" /\ call[t] \in Calls /\ whole = << >> /\ call[t].got = {}
  <2>1. at[t] \in {"copyIn", "size", "terminate", "format", "measure"}
    BY DEF CopyIn, SetSize, Terminate, Format, TakeLength
  <2> QED
    BY <2>1, WritingHasNone DEF ReadInv, LessonInv, CallsInv
<1>3. at[t] \in {"copyIn", "size", "terminate", "measure"} => call[t].count \in 0 .. Size - 1
  BY DEF ReadInv, LessonInv, CallsInv, CountRight
<1>4. CASE Leave(t) /\ whole' = << >>
  <2>1. at'[t] = "user" /\ call'[t].got = {}
    BY <1>4 DEF Leave, Goto, ReadInv, LessonInv, CallsInv
  <2>2. Undisturbed(t)' /\ WholeInv'
    BY <1>4, <2>1 DEF Undisturbed, WholeInv
  <2> QED
    BY <1>1, <2>1, <2>2, CallKeeps
<1>5. CASE CopyIn(t) /\ ~Leave(t)
  <2>1. at'[t] = "size" /\ call' = call /\ whole' = << >>
        /\ kernel_buffer' = Fill(Writing[t], call[t].count)
    BY <1>2, <1>5 DEF CopyIn, Goto, ReadInv, LessonInv, CallsInv
  <2>2. Holds(Writing[t], call[t].count)'
    <3>1. call[t].count \in 0 .. Size - 1 /\ Size \in Nat
      BY <1>3, <1>5 DEF CopyIn, RoomAssumption
    <3> QED
      BY <2>1, <3>1 DEF Holds, Fill
  <2>3. Undisturbed(t)' /\ WholeInv' /\ call'[t].got = {}
    BY <1>2, <2>1, <2>2 DEF Undisturbed, WholeInv
  <2> QED
    BY <1>1, <2>3, CallKeeps
<1>6. CASE SetSize(t)
  <2>1. at'[t] = "terminate" /\ call' = call /\ whole' = << >> /\ alone' = alone
        /\ kernel_buffer' = kernel_buffer /\ buffer_size' = call[t].count
    BY <1>2, <1>6 DEF SetSize, Goto, ReadInv, LessonInv, CallsInv
  <2>2. alone[t] => Holds(Writing[t], call[t].count)
    BY <1>6 DEF SetSize, ReadInv, Undisturbed
  <2>3. (alone[t] => Undisturbed(t))' /\ WholeInv' /\ call'[t].got = {}
    BY <1>2, <2>1, <2>2 DEF Undisturbed, WholeInv, Holds
  <2> QED
    BY <1>1, <2>3, CallKeeps
<1>7. CASE Terminate(t)
  <2>1. at'[t] = "return" /\ call' = call /\ alone' = alone /\ buffer_size' = buffer_size
    BY <1>7 DEF Terminate, Goto, ReadInv, LessonInv, CallsInv
  <2>2. call'[t].got = {} /\ Undisturbed(t)'
    BY <1>2, <2>1 DEF Undisturbed
  <2>3. CASE alone[t]
    <3>1. whole' = <<Writing[t], call[t].count>> /\ Writing[t] \in Texts
      BY <1>7, <2>3 DEF Terminate, Texts
    <3>2. call[t].count \in 0 .. Size - 1 /\ buffer_size = call[t].count
          /\ Holds(Writing[t], call[t].count)
      BY <1>3, <1>7, <2>3 DEF Terminate, ReadInv, Undisturbed
    <3>3. Holds(Writing[t], call[t].count)'
      BY <1>7, <2>1, <3>2 DEF Terminate, Holds, RoomAssumption
    <3>4. \A u \in LessonThreads : u # t => at'[u] = "user"
      BY <1>1, <1>2, <2>3, AloneIsOnly, CallSteps
    <3>5. WholeInv'
      <4>1. call[t].count \in 0 .. Size - 1
        BY <3>2
      <4>2. \A u \in LessonThreads : at'[u] \in {"user", "return"}
        BY <2>1, <3>4
      <4>3. PICK n \in 0 .. Size - 1 : n = call[t].count
        BY <4>1
      <4>4. whole' = <<Writing[t], n>> /\ buffer_size' = n /\ Holds(Writing[t], n)'
        BY <2>1, <3>1, <3>2, <3>3, <4>3 DEF Holds
      <4> QED
        BY <3>1, <4>2, <4>4 DEF WholeInv, Holds
    <3> QED
      BY <1>1, <2>2, <3>5, CallKeeps
  <2>4. CASE ~alone[t]
    <3>1. WholeInv'
      BY <1>2, <1>7, <2>4 DEF Terminate, WholeInv
    <3> QED
      BY <1>1, <2>2, <3>1, CallKeeps
  <2> QED
    BY <2>3, <2>4
<1>8. CASE Format(t)
  <2>1. PICK n \in Prefix .. Size :
          /\ kernel_buffer' = [i \in 0 .. Size - 1 |->
                                 IF i = n THEN Nul ELSE Fill(IoctlText, n)[i]]
          /\ call' = [call EXCEPT ![t].count = n]
          /\ overran' = (overran \/ n = Size)
    BY <1>8 DEF Format
  <2>2. n \in 0 .. Size - 1 /\ Size \in Nat
    <3>1. n # Size
      BY <2>1, Zenon
    <3> QED
      BY <3>1 DEF RoomAssumption
  <2>3. at'[t] = "measure" /\ call'[t].count = n /\ call'[t].got = {} /\ whole' = << >>
    BY <1>2, <1>8, <2>1 DEF Format, Goto, ReadInv, LessonInv, CallsInv, Calls
  <2>4. kernel_buffer'[n] = Nul /\ \A i \in 0 .. n - 1 : kernel_buffer'[i] = IoctlText
    BY <2>1, <2>2 DEF Fill
  <2>5. Undisturbed(t)' /\ WholeInv'
    BY <2>3, <2>4 DEF Undisturbed, WholeInv, Holds
  <2> QED
    BY <1>1, <2>3, <2>5, CallKeeps
<1>9. CASE TakeLength(t)
  <2>1. at'[t] = "user" /\ call'[t].got = {}
    BY <1>9 DEF TakeLength, Leave, Goto, ReadInv, LessonInv, CallsInv
  <2>2. CASE ~alone[t]
    BY <1>2, <1>4, <1>9, <2>2 DEF TakeLength
  <2>3. CASE alone[t]
    <3>0. PICK length \in 0 .. Size - 1 : length = call[t].count
      BY <1>3, <1>9 DEF TakeLength
    <3>1. whole' = <<IoctlText, length>> /\ IoctlText \in Texts
          /\ kernel_buffer' = kernel_buffer
      BY <1>9, <2>3, <3>0 DEF TakeLength, Texts
    <3>2. kernel_buffer[length] = Nul /\ Holds(IoctlText, length)
      BY <1>9, <2>3, <3>0 DEF TakeLength, ReadInv, Undisturbed
    <3>3. PICK n \in 0 .. Size :
            /\ n < Size => kernel_buffer[n] = Nul
            /\ \A i \in 0 .. n - 1 : kernel_buffer[i] # Nul
            /\ buffer_size' = n
      BY <1>9 DEF TakeLength
    <3>4. n = length
      <4>1. length \in Nat /\ Size \in Nat /\ length < Size
        BY <3>1 DEF RoomAssumption
      <4>2. ~(n < length)
        <5>1. n < length => n \in 0 .. length - 1 /\ n < Size
          BY <4>1
        <5> QED
          BY <3>2, <3>3, <5>1 DEF Holds, TextAssumption
      <4>3. ~(length < n)
        <5>1. length < n => length \in 0 .. n - 1
          BY <4>1
        <5> QED
          BY <3>2, <3>3, <5>1
      <4> QED
        BY <4>1, <4>2, <4>3
    <3>5. \A u \in LessonThreads : at'[u] = "user"
      BY <1>1, <1>2, <2>1, <2>3, AloneIsOnly, CallSteps
    <3>6. WholeInv'
      <4>1. Holds(IoctlText, length)'
        BY <3>1, <3>2 DEF Holds
      <4> QED
        BY <3>1, <3>3, <3>4, <3>5, <4>1 DEF WholeInv, Holds
    <3>7. Undisturbed(t)'
      BY <2>1 DEF Undisturbed
    <3> QED
      BY <1>1, <2>1, <3>6, <3>7, CallKeeps
  <2> QED
    BY <2>2, <2>3
<1> QED
  BY <1>2, <1>4, <1>5, <1>6, <1>7, <1>8, <1>9 DEF CopyIn

LEMMA OpenReads ==
  ASSUME ReadInv, LessonInv', NEW p \in DOMAIN position, my_open(p) \/ my_release(p)
  PROVE  ReadInv'
<1>1. UNCHANGED <<kernel_buffer, buffer_size, at, call, alone, whole>>
  BY DEF my_open, my_release
<1>2. HeldInv'
  BY <1>1 DEF my_open, my_release, ReadInv, HeldInv, Fellows
<1> QED
  BY <1>1, <1>2 DEF ReadInv, WholeInv, Undisturbed, Holds

LEMMA ReadStep ==
  RoomAssumption /\ TextAssumption /\ (~overran => ReadInv) /\ [Next]_vars => (~overran => ReadInv)'
<1> SUFFICES ASSUME RoomAssumption, TextAssumption, ~overran => ReadInv, [Next]_vars, ~overran'
             PROVE  ReadInv'
  OBVIOUS
<1>0. ReadInv
  BY OverrunStays
<1>1. LessonInv'
  BY <1>0, LessonStep DEF ReadInv
<1>2. CASE UNCHANGED vars
  BY <1>0, <1>1, <1>2 DEF vars, ReadInv, HeldInv, Fellows, WholeInv, Undisturbed, Holds
<1>3. ASSUME NEW p \in DOMAIN position, my_open(p) \/ my_release(p) PROVE ReadInv'
  BY <1>0, <1>1, <1>3, OpenReads
<1>4. ASSUME NEW t \in LessonThreads, my_read(t) \/ my_write(t) \/ my_ioctl(t) \/ Return(t)
      PROVE  ReadInv'
  <2>1. CASE \E n : Enter(t, "read", n) \/ Enter(t, "copyIn", n) \/ Enter(t, "format", n)
    <3>1. my_read(t) \/ my_write(t) \/ my_ioctl(t)
      BY <1>4, <2>1 DEF Return, Enter
    <3> QED
      BY <1>0, <1>1, <2>1, <3>1, EnterReads
  <2>2. CASE AtEnd(t) \/ Measure(t) \/ CopyOut(t) \/ Return(t)
    BY <1>0, <1>1, <2>2, ReaderReads
  <2>3. CASE CopyIn(t) \/ SetSize(t) \/ Terminate(t) \/ Format(t) \/ TakeLength(t)
    BY <1>0, <1>1, <2>3, WriterReads
  <2> QED
    BY <1>4, <2>1, <2>2, <2>3 DEF my_read, my_write, my_ioctl, StartRead, StartWrite
<1> QED
  BY <1>2, <1>3, <1>4 DEF Next

LEMMA ReadInit == RoomAssumption /\ Init => ReadInv
<1> SUFFICES ASSUME RoomAssumption, Init PROVE ReadInv
  OBVIOUS
<1>1. LessonInv
  BY LessonInit
<1>2. HeldInv
  BY DEF Init, HeldInv
<1>3. WholeInv
  <2>1. Nul \in Texts /\ 0 \in 0 .. Size - 1 /\ Holds(Nul, 0)
    BY DEF RoomAssumption, Texts, Holds
  <2>2. whole = <<Nul, 0>> /\ buffer_size = 0 /\ \A t \in LessonThreads : at[t] = "user"
    BY DEF Init
  <2> QED
    BY <2>1, <2>2 DEF WholeInv
<1>4. \A t \in LessonThreads : call[t].got = {} /\ Undisturbed(t)
  BY DEF Init, Undisturbed
<1> QED
  BY <1>1, <1>2, <1>3, <1>4 DEF ReadInv

(* For every number of threads, processes and bytes, and however the calls *)
(* race or fault: as long as no ioctl has written a text without an end    *)
(* (lesson_module.c:72-75), the last byte of kernel_buffer stays NUL, so   *)
(* that strlen (line 76) stays inside, and a read that no thread of its    *)
(* process disturbs (lines 45-50) does not pass the end.                   *)
THEOREM BufferStaysTerminated ==
  ASSUME RoomAssumption, TextAssumption PROVE Spec => []WithinBuffer
<1>1. Init => (~overran => ReadInv)
  BY RoomAssumption, ReadInit
<1>2. (~overran => ReadInv) /\ [Next]_vars => (~overran => ReadInv)'
  BY RoomAssumption, TextAssumption, ReadStep
<1>3. (~overran => ReadInv) => WithinBuffer
  <2> SUFFICES ASSUME ReadInv
               PROVE  /\ kernel_buffer[Size - 1] = Nul /\ buffer_size < Size
                      /\ \A t \in LessonThreads :
                           at[t] = "copyOut" /\ alone[t] => call[t].pos + call[t].count < Size
    BY DEF WithinBuffer
  <2>1. kernel_buffer[Size - 1] = Nul /\ buffer_size \in 0 .. Size - 1 /\ Size \in Nat
    BY RoomAssumption DEF RoomAssumption, ReadInv, LessonInv, BufferInv
  <2>2. ASSUME NEW t \in LessonThreads, at[t] = "copyOut", alone[t]
        PROVE  call[t].pos + call[t].count < Size
    <3>1. call[t].pos + call[t].count <= buffer_size
      BY <2>2 DEF ReadInv, Undisturbed
    <3>2. call[t].pos \in Nat /\ call[t].count \in Nat
      BY DEF ReadInv, LessonInv, CallsInv, Calls
    <3> QED
      BY <2>1, <3>1, <3>2
  <2> QED
    BY <2>1, <2>2
<1>4. QED
  BY <1>1, <1>2, <1>3, PTL DEF Spec

(* A read that no thread of its process disturbs returns a piece of the    *)
(* last complete message (my_read, my_write, my_ioctl and the mutex of     *)
(* my_open), as long as no ioctl has left the buffer: for every number of  *)
(* threads and processes and every size.                                   *)
THEOREM ReadsAreOfOneMessage ==
  ASSUME RoomAssumption, TextAssumption PROVE Spec => []ReadsOneMessage
<1>1. Init => (~overran => ReadInv)
  BY RoomAssumption, ReadInit
<1>2. (~overran => ReadInv) /\ [Next]_vars => (~overran => ReadInv)'
  BY RoomAssumption, TextAssumption, ReadStep
<1>3. (~overran => ReadInv) => ReadsOneMessage
  BY DEF ReadInv, ReadsOneMessage, Undisturbed
<1>4. QED
  BY <1>1, <1>2, <1>3, PTL DEF Spec
=============================================================================
