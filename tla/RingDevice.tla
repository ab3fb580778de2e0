----------------------------- MODULE RingDevice -----------------------------
(***************************************************************************)
(* The character device of src/DZ_27_drivers_system/src/module_ring.c: a   *)
(* kfifo shared by readers (dev_read), writers (dev_write) and sysfs       *)
(* administrators (clear_fifo_store, set_buffer_size), serialised by the   *)
(* mutex fifo_lock, with one wait queue for readers and one for writers.   *)
(*                                                                         *)
(* The granularity is that of the code: the emptiness and fullness tests   *)
(* are made WITHOUT the mutex and load the two kfifo indices one after the *)
(* other, the copy and the index update of a transfer are separate steps,  *)
(* kfifo_reset stores the two indices one after the other, and the wake-up *)
(* comes after the mutex was released.                                     *)
(*                                                                         *)
(* kfifo, the mutex and the wait queues are Linux kernel code, modelled    *)
(* from the way the driver uses them.  A byte is the number of its         *)
(* acceptance: the n-th byte a writer put into the FIFO is n.              *)
(***************************************************************************)
EXTENDS Integers, Sequences, FiniteSets

CONSTANTS
  Readers,      \* threads that call read(2) on the device
  Writers,      \* threads that call write(2) on the device
  Admins,       \* threads that write to the sysfs files
  NonBlocking,  \* the readers and writers whose file has O_NONBLOCK set
  Capacity,     \* FIFO_SIZE
  MaxLen,       \* bound: the largest request of one call, in bytes
  MaxBytes,     \* bound: writers stop calling after this many accepted bytes
  Sizes,        \* values written to the parameter buffer_size
  NoThread      \* value of lock when the mutex is free

ASSUME CapacityAssumption == Capacity \in Nat \ {0}
ASSUME MaxLenAssumption   == MaxLen \in Nat \ {0}
ASSUME SizesAssumption    == Sizes \subseteq Nat \ {0} /\ Capacity \in Sizes
ASSUME ThreadAssumption   ==
  /\ Readers \cap Writers = {}
  /\ Admins \cap (Readers \cup Writers) = {}
  /\ NoThread \notin Readers \cup Writers \cup Admins

Users   == Readers \cup Writers
Threads == Users \cup Admins

VARIABLES
  fin,        \* my_fifo.in, bytes put since the last reset
  fout,       \* my_fifo.out, bytes taken since the last reset
  mem,        \* the storage of my_fifo, one byte per slot
  lock,       \* owner of fifo_lock
  waitQueue,  \* waitQueue["read"] is read_queue, waitQueue["write"] write_queue
  bufferSize, \* the module parameter buffer_size
  pc,         \* where each thread is
  len,        \* argument len of the current call, 0 outside a call
  seen,       \* the kfifo index already loaded by an unlocked test
  copied,     \* local variable copied
  fault,      \* local variable ret: the transfer ended with -EFAULT
  accepted,   \* history: number of bytes put into the FIFO so far
  received    \* history: the bytes taken by readers, in the order taken

fifoVars == <<fin, fout, mem>>
callVars == <<len, seen, copied, fault>>
history  == <<accepted, received>>
vars     == <<fifoVars, lock, waitQueue, bufferSize, pc, callVars, history>>

UserPC  == {"idle", "test1", "test2", "prepare", "retest1", "retest2",
            "asleep", "lock", "copy", "publish", "unlock", "wake"}
AdminPC == {"idle", "clear", "reset1", "reset2", "unlock", "wake",
            "resize", "swap", "release"}

NoIndex == [which |-> "none", value |-> 0]
IndexView == [which : {"none", "in", "out"}, value : Nat]

-----------------------------------------------------------------------------
(* kfifo: in and out are unsigned counters, so a difference that comes out *)
(* negative (a reset seen half done) is a huge length.                     *)

kfifo_is_empty(i, o) == i = o
kfifo_is_full(i, o)  == i - o < 0 \/ i - o >= Capacity

Slot(i) == i % Capacity
SmallerOf(a, b) == IF a <= b THEN a ELSE b

(* The condition a thread must wait on, and the queue it waits in.         *)
MustWait(t, i, o) == IF t \in Readers THEN kfifo_is_empty(i, o)
                                      ELSE kfifo_is_full(i, o)
QueueOf(t) == IF t \in Readers THEN "read" ELSE "write"

Goto(t, from, to) == pc[t] = from /\ pc' = [pc EXCEPT ![t] = to]

Init ==
  /\ fin = 0 /\ fout = 0
  /\ mem = [s \in 0 .. Capacity - 1 |-> 0]
  /\ lock = NoThread
  /\ waitQueue = [q \in {"read", "write"} |-> {}]
  /\ bufferSize = Capacity
  /\ pc     = [t \in Threads |-> "idle"]
  /\ len    = [t \in Threads |-> 0]
  /\ seen   = [t \in Threads |-> NoIndex]
  /\ copied = [t \in Threads |-> 0]
  /\ fault  = [t \in Threads |-> FALSE]
  /\ accepted = 0
  /\ received = << >>

-----------------------------------------------------------------------------
(* Steps that dev_read and dev_write share.                                *)

(* The system call enters the driver with a request of n bytes.            *)
Call(t, n) ==
  /\ t \in Writers => accepted < MaxBytes
  /\ Goto(t, "idle", "test1")
  /\ len' = [len EXCEPT ![t] = n]
  /\ UNCHANGED <<fifoVars, lock, waitQueue, bufferSize, seen, copied, fault, history>>

(* A call returns: what it returns is named at the step that returns it,   *)
(* and its local variables are gone.                                       *)
Return(t, from) ==
  /\ Goto(t, from, "idle")
  /\ len'    = [len EXCEPT ![t] = 0]
  /\ copied' = [copied EXCEPT ![t] = 0]
  /\ fault'  = [fault EXCEPT ![t] = FALSE]
  /\ seen'   = [seen EXCEPT ![t] = NoIndex]
  /\ UNCHANGED <<fifoVars, lock, bufferSize, history>>

(* First half of kfifo_is_empty / kfifo_is_full: one index is loaded, in   *)
(* whichever order the compiler chose.                                     *)
LoadIndex(t, from, to) ==
  /\ Goto(t, from, to)
  /\ \/ seen' = [seen EXCEPT ![t] = [which |-> "in",  value |-> fin]]
     \/ seen' = [seen EXCEPT ![t] = [which |-> "out", value |-> fout]]
  /\ UNCHANGED <<fifoVars, lock, waitQueue, bufferSize, len, copied, fault, history>>

(* Second half: the other index is loaded and the two are compared.        *)
TestsTrue(t) ==
  IF seen[t].which = "in" THEN MustWait(t, seen[t].value, fout)
                          ELSE MustWait(t, fin, seen[t].value)

(* The unlocked test in front of the mutex.                                *)
TestPassed(t, from) ==
  /\ ~TestsTrue(t)
  /\ Goto(t, from, "lock")
  /\ seen' = [seen EXCEPT ![t] = NoIndex]
  /\ waitQueue' = [waitQueue EXCEPT ![QueueOf(t)] = @ \ {t}]
  /\ UNCHANGED <<fifoVars, lock, bufferSize, len, copied, fault, history>>

TestFailed(t, from, to) ==
  /\ TestsTrue(t)
  /\ Goto(t, from, to)
  /\ seen' = [seen EXCEPT ![t] = NoIndex]
  /\ UNCHANGED <<fifoVars, lock, waitQueue, bufferSize, len, copied, fault, history>>

WouldBlock(t) ==                                                \* -EAGAIN
  /\ TestsTrue(t) /\ t \in NonBlocking
  /\ Return(t, "test2")
  /\ UNCHANGED waitQueue

(* wait_event_interruptible queues the thread BEFORE it tests again.       *)
PrepareToWait(t) ==
  /\ Goto(t, "prepare", "retest1")
  /\ waitQueue' = [waitQueue EXCEPT ![QueueOf(t)] = @ \cup {t}]
  /\ UNCHANGED <<fifoVars, lock, bufferSize, callVars, history>>

(* A sleeper that was taken off its queue runs again and tests again.      *)
Awake(t) ==
  /\ t \notin waitQueue[QueueOf(t)]
  /\ Goto(t, "asleep", "prepare")
  /\ UNCHANGED <<fifoVars, lock, waitQueue, bufferSize, callVars, history>>

(* Mutant: an interrupted mutex_lock_interruptible is followed by unlock.  *)
Interrupted_Unlocks(t) ==
  /\ lock # NoThread
  /\ lock' = NoThread
  /\ Goto(t, "lock", "idle")
  /\ UNCHANGED <<fifoVars, waitQueue, bufferSize, callVars, history>>

(* A signal ends the sleep, or the wait for a mutex that another thread    *)
(* holds.                                                                  *)
Interrupted(t) ==                                          \* -ERESTARTSYS
  /\ Return(t, "asleep") \/ (lock # NoThread /\ Return(t, "lock"))
  /\ waitQueue' = [waitQueue EXCEPT ![QueueOf(t)] = @ \ {t}]

(* Mutant: fifo_lock is taken without waiting for it.                      *)
Acquire_Unguarded(t, from, to) ==
  /\ lock' = t
  /\ Goto(t, from, to)
  /\ UNCHANGED <<fifoVars, waitQueue, bufferSize, callVars, history>>

Acquire(t, from, to) ==
  /\ lock = NoThread
  /\ lock' = t
  /\ Goto(t, from, to)
  /\ UNCHANGED <<fifoVars, waitQueue, bufferSize, callVars, history>>

Release(t, from, to) ==
  /\ lock' = NoThread
  /\ Goto(t, from, to)
  /\ UNCHANGED <<fifoVars, waitQueue, bufferSize, callVars, history>>

(* Mutant: only a transfer that met the whole request wakes the others.    *)
Wake_WholeOnly(t, q) ==
  /\ waitQueue' = IF copied[t] = len[t] THEN [waitQueue EXCEPT ![q] = {}] ELSE waitQueue
  /\ Return(t, "wake")

(* The wake-up, outside the mutex: every thread of queue q runs again.  A  *)
(* transfer that copied nothing wakes nobody.  The call then returns       *)
(* -EFAULT, or the number of bytes copied.                                 *)
Wake(t, q) ==
  /\ Return(t, "wake")
  /\ waitQueue' = IF copied[t] > 0 THEN [waitQueue EXCEPT ![q] = {}] ELSE waitQueue

BeforeTransfer(t) ==
  \/ \E n \in 1 .. MaxLen : Call(t, n)
  \/ LoadIndex(t, "test1", "test2")
  \/ TestPassed(t, "test2")
  \/ WouldBlock(t)
  \/ t \notin NonBlocking /\ TestFailed(t, "test2", "prepare")
  \/ PrepareToWait(t)
  \/ LoadIndex(t, "retest1", "retest2")
  \/ TestPassed(t, "retest2")
  \/ TestFailed(t, "retest2", "asleep")
  \/ Awake(t)
  \/ Interrupted(t)
  \/ Acquire(t, "lock", "copy")

-----------------------------------------------------------------------------
(* dev_read: kfifo_to_user copies at most len bytes out; when the user     *)
(* page faults, the bytes already copied are consumed all the same.        *)

CopyOut(t) ==
  LET n == SmallerOf(len[t], fin - fout)
  IN  /\ Goto(t, "copy", "publish")
      /\ \E k \in 0 .. n :
           /\ copied' = [copied EXCEPT ![t] = k]
           /\ fault' = [fault EXCEPT ![t] = k < n]
           /\ received' = received \o [i \in 1 .. k |-> mem[Slot(fout + i - 1)]]
      /\ UNCHANGED <<fifoVars, lock, waitQueue, bufferSize, len, seen, accepted>>

(* Mutants: the index moves back; a read that faulted consumes nothing.    *)
AdvanceOut_Backwards(t) ==
  /\ Goto(t, "publish", "unlock")
  /\ fout' = fout - copied[t]
  /\ UNCHANGED <<fin, mem, lock, waitQueue, bufferSize, callVars, history>>
AdvanceOut_KeepsFaulted(t) ==
  /\ Goto(t, "publish", "unlock")
  /\ fout' = IF fault[t] THEN fout ELSE fout + copied[t]
  /\ UNCHANGED <<fin, mem, lock, waitQueue, bufferSize, callVars, history>>

AdvanceOut(t) ==
  /\ Goto(t, "publish", "unlock")
  /\ fout' = fout + copied[t]
  /\ UNCHANGED <<fin, mem, lock, waitQueue, bufferSize, callVars, history>>

dev_read(t) ==
  \/ BeforeTransfer(t)
  \/ CopyOut(t)
  \/ AdvanceOut(t)
  \/ Release(t, "unlock", "wake")
  \/ Wake(t, "write")

-----------------------------------------------------------------------------
(* dev_write: kfifo_from_user copies in what fits; the rest of the request *)
(* is given up, not waited for.                                            *)

CopyIn(t) ==
  LET n == SmallerOf(len[t], Capacity - (fin - fout))
  IN  /\ Goto(t, "copy", "publish")
      /\ \E k \in 0 .. n :
           /\ copied' = [copied EXCEPT ![t] = k]
           /\ fault' = [fault EXCEPT ![t] = k < n]
           /\ mem' = [s \in 0 .. Capacity - 1 |->
                        LET d == (s - fin) % Capacity
                        IN  IF d < k THEN accepted + d + 1 ELSE mem[s]]
      /\ UNCHANGED <<fin, fout, lock, waitQueue, bufferSize, len, seen, history>>

AdvanceIn(t) ==
  /\ Goto(t, "publish", "unlock")
  /\ fin' = fin + copied[t]
  /\ accepted' = accepted + copied[t]
  /\ UNCHANGED <<fout, mem, lock, waitQueue, bufferSize, callVars, received>>

dev_write(t) ==
  \/ BeforeTransfer(t)
  \/ CopyIn(t)
  \/ AdvanceIn(t)
  \/ Release(t, "unlock", "wake")
  \/ Wake(t, "read")

-----------------------------------------------------------------------------
(* clear_fifo_store: a write of 0 or of no number changes nothing; any     *)
(* other number resets the FIFO under the mutex and then wakes the writers.*)

AdminCall(t, to) ==
  /\ Goto(t, "idle", to)
  /\ UNCHANGED <<fifoVars, lock, waitQueue, bufferSize, callVars, history>>

(* kfifo_reset stores both indices, in whichever order was compiled.       *)
ResetFirst(t) ==
  /\ Goto(t, "reset1", "reset2")
  /\ \/ fin'  = 0 /\ UNCHANGED fout
     \/ fout' = 0 /\ UNCHANGED fin
  /\ UNCHANGED <<mem, lock, waitQueue, bufferSize, callVars, history>>

ResetSecond(t) ==
  /\ Goto(t, "reset2", "unlock")
  /\ fin' = 0 /\ fout' = 0
  /\ UNCHANGED <<mem, lock, waitQueue, bufferSize, callVars, history>>

(* Mutant: the readers are woken, as after a write.                        *)
WakeWriters_WrongQueue(t) ==
  /\ Return(t, "wake")
  /\ waitQueue' = [waitQueue EXCEPT !["read"] = {}]

WakeWriters(t) ==
  /\ Return(t, "wake")
  /\ waitQueue' = [waitQueue EXCEPT !["write"] = {}]

clear_fifo_store(t) ==
  \/ AdminCall(t, "clear")
  \/ Acquire(t, "clear", "reset1")
  \/ ResetFirst(t)
  \/ ResetSecond(t)
  \/ Release(t, "unlock", "wake")
  \/ WakeWriters(t)

(* set_buffer_size: a value that is no positive number is refused before   *)
(* anything changes; otherwise it swaps a buffer that no transfer uses and *)
(* never touches my_fifo.                                                  *)
(* Mutant: the -ENOMEM path returns with the mutex held.                   *)
SwapBuffer_KeepsLock(t) ==
  /\ \/ Goto(t, "swap", "release") /\ bufferSize' \in Sizes
     \/ Goto(t, "swap", "idle") /\ UNCHANGED bufferSize
  /\ UNCHANGED <<fifoVars, lock, waitQueue, callVars, history>>

SwapBuffer(t) ==
  /\ Goto(t, "swap", "release")
  /\ bufferSize' \in Sizes \cup {bufferSize}     \* unchanged: kmalloc failed
  /\ UNCHANGED <<fifoVars, lock, waitQueue, callVars, history>>

set_buffer_size(t) ==
  \/ AdminCall(t, "resize")
  \/ lock # NoThread /\ Return(t, "resize") /\ UNCHANGED waitQueue  \* a signal
  \/ Acquire(t, "resize", "swap")
  \/ SwapBuffer(t)
  \/ Release(t, "release", "idle")

-----------------------------------------------------------------------------
Next ==
  \/ \E t \in Readers : dev_read(t)
  \/ \E t \in Writers : dev_write(t)
  \/ \E t \in Admins  : clear_fifo_store(t) \/ set_buffer_size(t)

Spec == Init /\ [][Next]_vars

(* A thread inside the driver keeps being scheduled, so every step but the *)
(* decision to call and the arrival of a signal eventually happens, and a  *)
(* kernel mutex hands itself over to its waiters, so a thread that asks    *)
(* for it again and again gets it.                                         *)
Progress(t) ==
  \/ LoadIndex(t, "test1", "test2") \/ TestPassed(t, "test2") \/ WouldBlock(t)
  \/ t \notin NonBlocking /\ TestFailed(t, "test2", "prepare")
  \/ PrepareToWait(t) \/ LoadIndex(t, "retest1", "retest2")
  \/ TestPassed(t, "retest2") \/ TestFailed(t, "retest2", "asleep") \/ Awake(t)
  \/ AdvanceOut(t) \/ AdvanceIn(t) \/ ResetFirst(t) \/ ResetSecond(t)
  \/ t \in Readers /\ (CopyOut(t) \/ Wake(t, "write"))
  \/ t \in Writers /\ (CopyIn(t) \/ Wake(t, "read"))
  \/ t \in Admins /\ (SwapBuffer(t) \/ WakeWriters(t))
  \/ Release(t, "unlock", "wake") \/ Release(t, "release", "idle")
GetsLock(t) ==
  \/ Acquire(t, "lock", "copy") \/ Acquire(t, "clear", "reset1")
  \/ Acquire(t, "resize", "swap")

FairSpec == Spec /\ \A t \in Threads : WF_vars(Progress(t)) /\ SF_vars(GetsLock(t))

-----------------------------------------------------------------------------
(* Properties.                                                             *)

Holding == {"copy", "publish", "reset1", "reset2", "swap", "release"}
HoldsLock(t) == pc[t] \in Holding \cup {"unlock"}
Resetting == \E t \in Admins : pc[t] = "reset2"

(* Every variable keeps its type: pcs, indices, ring slots, queues.        *)
TypeOK ==
  /\ fin \in Nat /\ fout \in Nat
  /\ mem \in [0 .. Capacity - 1 -> Nat]
  /\ lock \in Threads \cup {NoThread}
  /\ waitQueue \in [{"read", "write"} -> SUBSET Users]
  /\ bufferSize \in Sizes
  /\ pc \in [Threads -> UserPC \cup AdminPC]
  /\ len \in [Threads -> 0 .. MaxLen]
  /\ seen \in [Threads -> IndexView]
  /\ copied \in [Threads -> 0 .. MaxLen]
  /\ fault \in [Threads -> BOOLEAN]
  /\ accepted \in Nat
  /\ received \in Seq(Nat)

(* fifo_lock is held exactly by the one thread between mutex_lock and      *)
(* mutex_unlock of dev_read, dev_write, clear_fifo_store, set_buffer_size. *)
MutualExclusion == \A t \in Threads : HoldsLock(t) <=> lock = t

(* Whenever no reset is half done, the FIFO holds between 0 and Capacity   *)
(* bytes, and a transfer whose bytes are copied but not yet counted fits:  *)
(* dev_read never takes more than there is, dev_write never overfills.     *)
WithinCapacity ==
  /\ ~Resetting => fout <= fin /\ fin - fout <= Capacity
  /\ \A t \in Readers : pc[t] = "publish" => copied[t] <= fin - fout
  /\ \A t \in Writers : pc[t] = "publish" => fin - fout + copied[t] <= Capacity

Content == [i \in 1 .. fin - fout |-> mem[Slot(fout + i - 1)]]

(* Across all dev_read calls, bytes come out in the order they went in and *)
(* none comes out twice, whatever was cleared in between.                  *)
ReadInOrder == \A i, j \in DOMAIN received : i < j => received[i] < received[j]

(* Threads that will still wake queue q: they changed the FIFO and have    *)
(* not reached their wake-up.                                              *)
WillWake(q) ==
  {t \in Threads :
     \/ q = "read"  /\ t \in Writers /\ pc[t] \in {"unlock", "wake"} /\ copied[t] > 0
     \/ q = "write" /\ t \in Readers /\ pc[t] \in {"unlock", "wake"} /\ copied[t] > 0
     \/ q = "write" /\ t \in Admins  /\ pc[t] \in {"unlock", "wake"}}

(* No lost wake-up: a thread sleeps on its queue while its call could go   *)
(* on only if another thread is still about to wake that queue, although   *)
(* the tests are made without the mutex and load stale indices.            *)
NoLostWakeup == ~Resetting =>
  \A t \in Users :
    pc[t] = "asleep" /\ t \in waitQueue[QueueOf(t)] /\ ~MustWait(t, fin, fout)
      => WillWake(QueueOf(t)) # {}

(* A call on a blocking file that is about to return success has moved at  *)
(* least one byte: module_ring.c:132-133 say that it waits for data.       *)
BlockingCallMovesData ==
  \A t \in Users \ NonBlocking :
    pc[t] \in {"unlock", "wake"} /\ ~fault[t] => copied[t] > 0

(* The device implements the abstract queue: a write takes effect when in  *)
(* is advanced, a read when its bytes are copied, a clear at the first of  *)
(* its two stores.                                                         *)
Taking == {t \in Readers : pc[t] = "publish"}
Leaving == IF Taking = {} THEN 0 ELSE copied[CHOOSE t \in Taking : TRUE]
AbstractQueue == IF Resetting THEN << >>
                 ELSE SubSeq(Content, Leaving + 1, fin - fout)
Fifo == INSTANCE BoundedFifo
          WITH queue <- AbstractQueue, sent <- accepted, taken <- received
ImplementsFifo == Fifo!Spec

(* A blocked thread that could go on does not sleep for ever: the waker    *)
(* that changed the FIFO reaches wake_up_interruptible.                    *)
BlockedThreadsWake ==
  \A t \in Users : (pc[t] = "asleep" /\ ~MustWait(t, fin, fout))
                     ~> (pc[t] # "asleep" \/ MustWait(t, fin, fout))

(* A call that passed its test completes: nobody keeps fifo_lock.          *)
CallsComplete ==
  \A t \in Threads : pc[t] \in {"lock", "clear", "resize"} ~> pc[t] = "idle"
=============================================================================
