-------------------------- MODULE RingDeviceProofs --------------------------
(***************************************************************************)
(* Machine-checked proofs about RingDevice, for any number of readers,     *)
(* writers and administrators, any capacity and any request length: types, *)
(* exclusion of the transfers, the capacity of the FIFO, the order of the  *)
(* bytes, the refinement of BoundedFifo, and that no wake-up is lost.      *)
(***************************************************************************)
EXTENDS RingDevice, TLAPS

-----------------------------------------------------------------------------
(* Types.                                                                  *)

(* The type invariant holds initially.                                     *)
LEMMA TypeInit == Init => TypeOK
  BY CapacityAssumption, MaxLenAssumption, SizesAssumption
  DEF Init, TypeOK, Threads, Users, UserPC, AdminPC, NoIndex, IndexView

(* The values a step writes to pc and seen have their types.               *)
LEMMA StepTypes ==
  /\ UserPC \subseteq UserPC \cup AdminPC
  /\ AdminPC \subseteq UserPC \cup AdminPC
  /\ {"idle", "test1", "test2", "prepare", "retest1", "retest2",
      "asleep", "lock", "copy", "publish", "unlock", "wake"} \subseteq UserPC
  /\ {"idle", "clear", "reset1", "reset2", "unlock", "wake",
      "resize", "swap", "release"} \subseteq AdminPC
  /\ NoIndex \in IndexView
  /\ \A i \in Nat : [which |-> "in", value |-> i] \in IndexView
  /\ \A i \in Nat : [which |-> "out", value |-> i] \in IndexView
  BY DEF UserPC, AdminPC, NoIndex, IndexView

(* A return keeps every type.                                              *)
LEMMA TypeReturn ==
  ASSUME TypeOK, NEW t \in Threads, NEW from, Return(t, from),
         waitQueue' \in [{"read", "write"} -> SUBSET Users]
  PROVE  TypeOK'
  BY StepTypes, MaxLenAssumption
  DEF TypeOK, Return, Goto, fifoVars, history

(* The steps before a transfer, shared by dev_read and dev_write.          *)
LEMMA TypeBeforeTransfer ==
  ASSUME TypeOK, NEW t \in Users, BeforeTransfer(t)
  PROVE  TypeOK'
<1> USE StepTypes DEF TypeOK, Goto, fifoVars, history, callVars
<1>0. t \in Threads /\ QueueOf(t) \in {"read", "write"}
  BY DEF Threads, QueueOf
<1>1. ASSUME NEW n \in 1 .. MaxLen, Call(t, n) PROVE TypeOK'
  BY <1>0, <1>1, MaxLenAssumption DEF Call
<1>2. ASSUME NEW from, NEW to \in {"test2", "retest2"}, LoadIndex(t, from, to)
      PROVE  TypeOK'
  BY <1>0, <1>2 DEF LoadIndex
<1>3. ASSUME NEW from, TestPassed(t, from) PROVE TypeOK'
  BY <1>0, <1>3 DEF TestPassed
<1>4. ASSUME NEW from, NEW to \in {"prepare", "asleep"}, TestFailed(t, from, to)
      PROVE  TypeOK'
  BY <1>0, <1>4 DEF TestFailed
<1>5. ASSUME WouldBlock(t) PROVE TypeOK'
  BY <1>0, <1>5, TypeReturn DEF WouldBlock
<1>6. ASSUME PrepareToWait(t) PROVE TypeOK'
  BY <1>0, <1>6 DEF PrepareToWait
<1>7. ASSUME Awake(t) PROVE TypeOK'
  BY <1>0, <1>7 DEF Awake
<1>8. ASSUME Interrupted(t) PROVE TypeOK'
  BY <1>0, <1>8, TypeReturn DEF Interrupted
<1>9. ASSUME Acquire(t, "lock", "copy") PROVE TypeOK'
  BY <1>0, <1>9 DEF Acquire
<1> QED
  BY <1>1, <1>2, <1>3, <1>4, <1>5, <1>6, <1>7, <1>8, <1>9 DEF BeforeTransfer

(* Any slot a transfer touches is a slot of the storage.                   *)
LEMMA SlotRange == \A i \in Nat : Slot(i) \in 0 .. Capacity - 1
  BY CapacityAssumption DEF Slot

(* A remainder by a positive number is a natural number.                   *)
LEMMA Remainder == \A a \in Int, b \in Nat \ {0} : a % b \in Nat
  OBVIOUS

(* dev_read keeps every type.                                              *)
LEMMA TypeRead ==
  ASSUME TypeOK, NEW t \in Readers, dev_read(t)
  PROVE  TypeOK'
<1> USE StepTypes DEF TypeOK, Goto, fifoVars, history, callVars
<1>0. t \in Users /\ t \in Threads
  BY DEF Users, Threads
<1>1. ASSUME CopyOut(t) PROVE TypeOK'
  <2> DEFINE n == SmallerOf(len[t], fin - fout)
  <2>1. PICK k \in 0 .. n :
           /\ copied' = [copied EXCEPT ![t] = k]
           /\ fault' = [fault EXCEPT ![t] = k < n]
           /\ received' = received \o [i \in 1 .. k |-> mem[Slot(fout + i - 1)]]
    BY <1>1 DEF CopyOut
  <2>2. n <= MaxLen /\ n \in Int
    BY <1>0, MaxLenAssumption DEF SmallerOf
  <2> HIDE DEF n
  <2>3. k \in 0 .. MaxLen
    BY <2>2, MaxLenAssumption
  <2>4. \A i \in 1 .. k : mem[Slot(fout + i - 1)] \in Nat
    <3> SUFFICES ASSUME NEW i \in 1 .. k
                 PROVE  mem[Slot(fout + i - 1)] \in Nat
      OBVIOUS
    <3>1. fout + i - 1 \in Nat
      BY <2>3
    <3>2. Slot(fout + i - 1) \in 0 .. Capacity - 1
      BY <3>1, SlotRange
    <3> QED
      BY <3>2
  <2>5. [i \in 1 .. k |-> mem[Slot(fout + i - 1)]] \in Seq(Nat)
    BY <2>3, <2>4
  <2>6. received' \in Seq(Nat)
    BY <2>1, <2>5
  <2>7. copied' \in [Threads -> 0 .. MaxLen] /\ fault' \in [Threads -> BOOLEAN]
    BY <2>1, <2>3, <1>0
  <2> QED
    BY <1>0, <1>1, <2>6, <2>7 DEF CopyOut
<1>2. ASSUME AdvanceOut(t) PROVE TypeOK'
  BY <1>0, <1>2 DEF AdvanceOut
<1>3. ASSUME Release(t, "unlock", "wake") PROVE TypeOK'
  BY <1>0, <1>3 DEF Release
<1>4. ASSUME Wake(t, "write") PROVE TypeOK'
  <2>1. waitQueue' \in [{"read", "write"} -> SUBSET Users]
    BY <1>4 DEF Wake
  <2> QED
    BY <1>0, <1>4, <2>1, TypeReturn DEF Wake
<1> QED
  BY <1>0, <1>1, <1>2, <1>3, <1>4, TypeBeforeTransfer DEF dev_read

(* dev_write keeps every type.                                             *)
LEMMA TypeWrite ==
  ASSUME TypeOK, NEW t \in Writers, dev_write(t)
  PROVE  TypeOK'
<1> USE StepTypes DEF TypeOK, Goto, fifoVars, history, callVars
<1>0. t \in Users /\ t \in Threads
  BY DEF Users, Threads
<1>1. ASSUME CopyIn(t) PROVE TypeOK'
  <2> DEFINE n == SmallerOf(len[t], Capacity - (fin - fout))
             Stored(k, s) == LET d == (s - fin) % Capacity
                             IN  IF d < k THEN accepted + d + 1 ELSE mem[s]
  <2>1. PICK k \in 0 .. n :
           /\ copied' = [copied EXCEPT ![t] = k]
           /\ fault' = [fault EXCEPT ![t] = k < n]
           /\ mem' = [s \in 0 .. Capacity - 1 |-> Stored(k, s)]
    BY <1>1 DEF CopyIn
  <2>2. n <= MaxLen /\ n \in Int
    BY <1>0, MaxLenAssumption, CapacityAssumption DEF SmallerOf
  <2>3. k \in 0 .. MaxLen
    BY <2>2, MaxLenAssumption
  <2>4. \A s \in 0 .. Capacity - 1 : (s - fin) % Capacity \in Nat
    <3> SUFFICES ASSUME NEW s \in 0 .. Capacity - 1
                 PROVE  (s - fin) % Capacity \in Nat
      OBVIOUS
    <3>1. s - fin \in Int
      BY CapacityAssumption
    <3> QED
      BY <3>1, CapacityAssumption, Remainder
  <2>5. \A s \in 0 .. Capacity - 1 : Stored(k, s) \in Nat
    <3> SUFFICES ASSUME NEW s \in 0 .. Capacity - 1
                 PROVE  Stored(k, s) \in Nat
      OBVIOUS
    <3> DEFINE d == (s - fin) % Capacity
    <3>1. d \in Nat /\ mem[s] \in Nat
      BY <2>4
    <3> HIDE DEF d
    <3>2. accepted + d + 1 \in Nat
      BY <3>1
    <3> QED
      BY <3>1, <3>2 DEF d
  <2>6. mem' \in [0 .. Capacity - 1 -> Nat]
    BY <2>1, <2>5
  <2>7. copied' \in [Threads -> 0 .. MaxLen] /\ fault' \in [Threads -> BOOLEAN]
    BY <2>1, <2>3, <1>0
  <2> QED
    BY <1>0, <1>1, <2>6, <2>7 DEF CopyIn
<1>2. ASSUME AdvanceIn(t) PROVE TypeOK'
  BY <1>0, <1>2 DEF AdvanceIn
<1>3. ASSUME Release(t, "unlock", "wake") PROVE TypeOK'
  BY <1>0, <1>3 DEF Release
<1>4. ASSUME Wake(t, "read") PROVE TypeOK'
  <2>1. waitQueue' \in [{"read", "write"} -> SUBSET Users]
    BY <1>4 DEF Wake
  <2> QED
    BY <1>0, <1>4, <2>1, TypeReturn DEF Wake
<1> QED
  BY <1>0, <1>1, <1>2, <1>3, <1>4, TypeBeforeTransfer DEF dev_write

(* The two sysfs handlers keep every type.                                 *)
LEMMA TypeAdmin ==
  ASSUME TypeOK, NEW t \in Admins, clear_fifo_store(t) \/ set_buffer_size(t)
  PROVE  TypeOK'
<1> USE StepTypes DEF TypeOK, Goto, fifoVars, history, callVars
<1>0. t \in Threads
  BY DEF Threads
<1>1. ASSUME NEW to \in {"clear", "resize"}, AdminCall(t, to) PROVE TypeOK'
  BY <1>0, <1>1 DEF AdminCall
<1>2. ASSUME NEW from, NEW to \in {"reset1", "swap"}, Acquire(t, from, to)
      PROVE  TypeOK'
  BY <1>0, <1>2 DEF Acquire
<1>3. ASSUME ResetFirst(t) \/ ResetSecond(t) PROVE TypeOK'
  <2>1. fin' \in Nat /\ fout' \in Nat
    BY <1>3 DEF ResetFirst, ResetSecond
  <2>2. pc' \in [Threads -> UserPC \cup AdminPC]
    BY <1>0, <1>3 DEF ResetFirst, ResetSecond
  <2>3. UNCHANGED <<mem, lock, waitQueue, bufferSize, callVars, history>>
    BY <1>3 DEF ResetFirst, ResetSecond
  <2> QED
    BY <2>1, <2>2, <2>3
<1>4. ASSUME NEW from, NEW to \in {"wake", "idle"}, Release(t, from, to)
      PROVE  TypeOK'
  BY <1>0, <1>4 DEF Release
<1>5. ASSUME WakeWriters(t) PROVE TypeOK'
  <2>1. waitQueue' \in [{"read", "write"} -> SUBSET Users]
    BY <1>5 DEF WakeWriters
  <2> QED
    BY <1>0, <1>5, <2>1, TypeReturn DEF WakeWriters
<1>6. ASSUME SwapBuffer(t) PROVE TypeOK'
  BY <1>0, <1>6 DEF SwapBuffer
<1>7. ASSUME Return(t, "resize"), UNCHANGED waitQueue PROVE TypeOK'
  BY <1>0, <1>7, TypeReturn
<1> QED
  BY <1>1, <1>2, <1>3, <1>4, <1>5, <1>6, <1>7
  DEF clear_fifo_store, set_buffer_size

(* Every step keeps every type.                                            *)
LEMMA TypeStep == TypeOK /\ [Next]_vars => TypeOK'
<1> SUFFICES ASSUME TypeOK, [Next]_vars PROVE TypeOK'
  OBVIOUS
<1>1. CASE UNCHANGED vars
  BY <1>1 DEF vars, TypeOK, fifoVars, callVars, history
<1>2. CASE Next
  BY <1>2, TypeRead, TypeWrite, TypeAdmin DEF Next
<1> QED
  BY <1>1, <1>2

(* Every reachable state of the driver is well typed.                      *)
THEOREM TypeCorrect == Spec => []TypeOK
  BY TypeInit, TypeStep, PTL DEF Spec

-----------------------------------------------------------------------------
(* Mutual exclusion.                                                       *)

Critical == Holding \cup {"unlock"}

(* A step that neither enters nor leaves the critical section and leaves   *)
(* fifo_lock alone keeps the exclusion.                                    *)
LEMMA ExclusionOutside ==
  ASSUME TypeOK, MutualExclusion, NEW t \in Threads, NEW from, NEW to,
         Goto(t, from, to), UNCHANGED lock, from \in Critical <=> to \in Critical
  PROVE  MutualExclusion'
  BY DEF TypeOK, MutualExclusion, HoldsLock, Goto, Critical

(* Taking and giving back the mutex keep the exclusion.                    *)
LEMMA ExclusionAcquire ==
  ASSUME TypeOK, MutualExclusion, NEW t \in Threads, NEW from, NEW to \in Critical,
         Acquire(t, from, to)
  PROVE  MutualExclusion'
  BY ThreadAssumption
  DEF TypeOK, MutualExclusion, HoldsLock, Goto, Critical, Acquire, Threads, Users

LEMMA ExclusionRelease ==
  ASSUME TypeOK, MutualExclusion, NEW t \in Threads, NEW from \in Critical, NEW to,
         to \notin Critical, Release(t, from, to)
  PROVE  MutualExclusion'
  BY ThreadAssumption
  DEF TypeOK, MutualExclusion, HoldsLock, Goto, Critical, Release, Threads, Users

(* A call that returns is outside the critical section.                    *)
LEMMA ExclusionReturn ==
  ASSUME TypeOK, MutualExclusion, NEW t \in Threads, NEW from, from \notin Critical,
         Return(t, from)
  PROVE  MutualExclusion'
  BY ExclusionOutside DEF Return, Critical, Holding

LEMMA ExclusionBeforeTransfer ==
  ASSUME TypeOK, MutualExclusion, NEW t \in Users, BeforeTransfer(t)
  PROVE  MutualExclusion'
<1>0. t \in Threads
  BY DEF Threads
<1>1. ASSUME \/ \E n \in 1 .. MaxLen : Call(t, n)
             \/ \E from, to : /\ from \notin Critical /\ to \notin Critical
                             /\ \/ LoadIndex(t, from, to)
                                \/ TestFailed(t, from, to)
      PROVE  MutualExclusion'
  BY <1>0, <1>1, ExclusionOutside DEF Call, LoadIndex, TestFailed, Critical, Holding
<1>2. ASSUME NEW from, from \notin Critical, TestPassed(t, from) PROVE MutualExclusion'
  BY <1>0, <1>2, ExclusionOutside DEF TestPassed, Critical, Holding
<1>3. ASSUME WouldBlock(t) \/ Interrupted(t) PROVE MutualExclusion'
  BY <1>0, <1>3, ExclusionReturn DEF WouldBlock, Interrupted, Critical, Holding
<1>4. ASSUME PrepareToWait(t) \/ Awake(t) PROVE MutualExclusion'
  BY <1>0, <1>4, ExclusionOutside DEF PrepareToWait, Awake, Critical, Holding
<1>5. ASSUME Acquire(t, "lock", "copy") PROVE MutualExclusion'
  BY <1>0, <1>5, ExclusionAcquire DEF Critical, Holding
<1>6. {"test1", "test2", "prepare", "retest1", "retest2", "asleep"} \cap Critical = {}
  BY DEF Critical, Holding
<1> QED
  BY <1>1, <1>2, <1>3, <1>4, <1>5, <1>6 DEF BeforeTransfer

LEMMA ExclusionUser ==
  ASSUME TypeOK, MutualExclusion, NEW t \in Users,
         (t \in Readers /\ dev_read(t)) \/ (t \in Writers /\ dev_write(t))
  PROVE  MutualExclusion'
<1>0. t \in Threads
  BY DEF Threads
<1>1. ASSUME CopyOut(t) \/ AdvanceOut(t) \/ CopyIn(t) \/ AdvanceIn(t)
      PROVE  MutualExclusion'
  BY <1>0, <1>1, ExclusionOutside
  DEF CopyOut, AdvanceOut, CopyIn, AdvanceIn, Critical, Holding
<1>2. ASSUME Release(t, "unlock", "wake") PROVE MutualExclusion'
  BY <1>0, <1>2, ExclusionRelease DEF Critical, Holding
<1>3. ASSUME NEW q, Wake(t, q) PROVE MutualExclusion'
  BY <1>0, <1>3, ExclusionReturn DEF Wake, Critical, Holding
<1> QED
  BY <1>1, <1>2, <1>3, ExclusionBeforeTransfer DEF dev_read, dev_write

LEMMA ExclusionAdmin ==
  ASSUME TypeOK, MutualExclusion, NEW t \in Admins,
         clear_fifo_store(t) \/ set_buffer_size(t)
  PROVE  MutualExclusion'
<1>0. t \in Threads
  BY DEF Threads
<1>1. ASSUME NEW to \in {"clear", "resize"}, AdminCall(t, to) PROVE MutualExclusion'
  BY <1>0, <1>1, ExclusionOutside DEF AdminCall, Critical, Holding
<1>2. ASSUME ResetFirst(t) \/ ResetSecond(t) \/ SwapBuffer(t) PROVE MutualExclusion'
  BY <1>0, <1>2, ExclusionOutside
  DEF ResetFirst, ResetSecond, SwapBuffer, Critical, Holding
<1>3. ASSUME Acquire(t, "clear", "reset1") \/ Acquire(t, "resize", "swap")
      PROVE  MutualExclusion'
  BY <1>0, <1>3, ExclusionAcquire DEF Critical, Holding
<1>4. ASSUME Release(t, "unlock", "wake") \/ Release(t, "release", "idle")
      PROVE  MutualExclusion'
  BY <1>0, <1>4, ExclusionRelease DEF Critical, Holding
<1>5. ASSUME WakeWriters(t) \/ Return(t, "resize") PROVE MutualExclusion'
  BY <1>0, <1>5, ExclusionReturn DEF WakeWriters, Critical, Holding
<1> QED
  BY <1>1, <1>2, <1>3, <1>4, <1>5 DEF clear_fifo_store, set_buffer_size

LEMMA ExclusionStep == TypeOK /\ MutualExclusion /\ [Next]_vars => MutualExclusion'
<1> SUFFICES ASSUME TypeOK, MutualExclusion, [Next]_vars PROVE MutualExclusion'
  OBVIOUS
<1>1. CASE UNCHANGED vars
  BY <1>1 DEF vars, MutualExclusion, HoldsLock
<1>2. CASE Next
  BY <1>2, ExclusionUser, ExclusionAdmin DEF Next, Users
<1> QED
  BY <1>1, <1>2

(* fifo_lock is held by exactly the thread inside a critical section, for  *)
(* any set of readers, writers and administrators.                         *)
THEOREM Exclusion == Spec => []MutualExclusion
<1>1. Init => MutualExclusion
  BY ThreadAssumption
  DEF Init, MutualExclusion, HoldsLock, Holding, Threads, Users
<1> QED
  BY <1>1, TypeCorrect, ExclusionStep, PTL DEF Spec

-----------------------------------------------------------------------------
(* The capacity of the FIFO.  WithinCapacity alone is not inductive: that  *)
(* a transfer may rely on the length it saw follows from the exclusion.    *)

InductiveInvariant == TypeOK /\ MutualExclusion /\ WithinCapacity

(* A step that leaves the indices alone and neither starts nor ends a      *)
(* transfer or a reset keeps the capacity.                                 *)
LEMMA CapacityFrame ==
  ASSUME InductiveInvariant, NEW t \in Threads, NEW from, NEW to,
         Goto(t, from, to), from # "reset2", to \notin {"reset2", "publish"},
         UNCHANGED <<fin, fout>>,
         \A u \in Threads \ {t} : copied'[u] = copied[u]
  PROVE  WithinCapacity'
<1> USE DEF InductiveInvariant, TypeOK, Goto
<1>1. \A u \in Threads : pc'[u] = IF u = t THEN to ELSE pc[u]
  OBVIOUS
<1>2. Resetting' <=> Resetting
  BY <1>1 DEF Resetting, Threads
<1>3. \A u \in Threads : pc'[u] = "publish" => pc[u] = "publish" /\ copied'[u] = copied[u]
  BY <1>1
<1> QED
  BY <1>2, <1>3 DEF WithinCapacity, Threads, Users

(* While t holds the mutex, no other thread transfers or resets.           *)
LEMMA Alone ==
  ASSUME MutualExclusion, NEW t \in Threads, HoldsLock(t)
  PROVE  \A u \in Threads \ {t} : pc[u] \notin {"publish", "reset2"}
  BY DEF MutualExclusion, HoldsLock, Holding

LEMMA CapacityBeforeTransfer ==
  ASSUME InductiveInvariant, NEW t \in Users, BeforeTransfer(t)
  PROVE  WithinCapacity'
<1>0. t \in Threads
  BY DEF Threads
<1> USE <1>0, CapacityFrame DEF fifoVars, callVars
<1>1. ASSUME NEW n \in 1 .. MaxLen, Call(t, n) PROVE WithinCapacity'
  BY <1>1 DEF Call, Goto
<1>2. ASSUME LoadIndex(t, "test1", "test2") \/ LoadIndex(t, "retest1", "retest2")
      PROVE  WithinCapacity'
  BY <1>2 DEF LoadIndex
<1>3. ASSUME TestPassed(t, "test2") \/ TestPassed(t, "retest2") PROVE WithinCapacity'
  BY <1>3 DEF TestPassed
<1>4. ASSUME TestFailed(t, "test2", "prepare") \/ TestFailed(t, "retest2", "asleep")
      PROVE  WithinCapacity'
  BY <1>4 DEF TestFailed
<1>5. ASSUME NEW from, from # "reset2", Return(t, from) PROVE WithinCapacity'
  BY <1>5 DEF Return, InductiveInvariant, TypeOK
<1>6. ASSUME PrepareToWait(t) \/ Awake(t) \/ Acquire(t, "lock", "copy")
      PROVE  WithinCapacity'
  BY <1>6 DEF PrepareToWait, Awake, Acquire
<1> QED
  BY <1>1, <1>2, <1>3, <1>4, <1>5, <1>6 DEF BeforeTransfer, WouldBlock, Interrupted

LEMMA CapacityRead ==
  ASSUME InductiveInvariant, NEW t \in Readers, dev_read(t)
  PROVE  WithinCapacity'
<1> USE DEF InductiveInvariant
<1>0. t \in Users /\ t \in Threads /\ t \notin Writers /\ t \notin Admins
  BY ThreadAssumption DEF Users, Threads
<1>1. ASSUME CopyOut(t) PROVE WithinCapacity'
  <2>1. HoldsLock(t) /\ pc[t] = "copy" /\ pc' = [pc EXCEPT ![t] = "publish"]
    BY <1>1 DEF CopyOut, Goto, HoldsLock, Holding
  <2>2. \A u \in Threads : u # t => pc'[u] \notin {"publish", "reset2"}
    BY <2>1, <1>0, Alone DEF TypeOK
  <2>3. ~Resetting /\ ~Resetting'
    BY <2>1, <2>2, <1>0, Alone DEF Resetting, Threads, TypeOK
  <2>4. fout <= fin /\ fin - fout <= Capacity /\ fin' = fin /\ fout' = fout
    BY <2>3, <1>1 DEF WithinCapacity, CopyOut, fifoVars
  <2>5. copied'[t] <= fin - fout
    <3> DEFINE n == SmallerOf(len[t], fin - fout)
    <3>1. n <= fin - fout /\ n \in Int
      BY <1>0, <2>4, MaxLenAssumption DEF SmallerOf, TypeOK
    <3>2. \E k \in 0 .. n : copied' = [copied EXCEPT ![t] = k]
      BY <1>1 DEF CopyOut
    <3> HIDE DEF n
    <3> QED
      BY <3>1, <3>2, <1>0 DEF TypeOK
  <2> QED
    BY <2>2, <2>3, <2>4, <2>5, <1>0 DEF WithinCapacity, Threads, Users
<1>2. ASSUME AdvanceOut(t) PROVE WithinCapacity'
  <2>1. HoldsLock(t) /\ pc[t] = "publish" /\ pc' = [pc EXCEPT ![t] = "unlock"]
    BY <1>2 DEF AdvanceOut, Goto, HoldsLock, Holding
  <2>2. \A u \in Threads : pc'[u] \notin {"publish", "reset2"}
    BY <2>1, <1>0, Alone DEF TypeOK
  <2>3. ~Resetting
    BY <2>1, <1>0, Alone DEF Resetting, Threads
  <2>4. fout <= fin /\ fin - fout <= Capacity /\ copied[t] <= fin - fout
    BY <2>1, <2>3 DEF WithinCapacity
  <2>5. fin' = fin /\ fout' = fout + copied[t] /\ copied[t] \in Nat
    BY <1>2, <1>0 DEF AdvanceOut, TypeOK
  <2> QED
    <3>1. fout' <= fin' /\ fin' - fout' <= Capacity
      BY <2>4, <2>5, CapacityAssumption DEF TypeOK
    <3> QED
      BY <2>2, <3>1 DEF WithinCapacity, Threads, Users
<1>3. ASSUME Release(t, "unlock", "wake") PROVE WithinCapacity'
  BY <1>0, <1>3, CapacityFrame DEF Release, fifoVars, callVars
<1>4. ASSUME Wake(t, "write") PROVE WithinCapacity'
  BY <1>0, <1>4, CapacityFrame DEF Wake, Return, TypeOK, fifoVars
<1> QED
  BY <1>0, <1>1, <1>2, <1>3, <1>4, CapacityBeforeTransfer DEF dev_read

LEMMA CapacityWrite ==
  ASSUME InductiveInvariant, NEW t \in Writers, dev_write(t)
  PROVE  WithinCapacity'
<1> USE DEF InductiveInvariant
<1>0. t \in Users /\ t \in Threads /\ t \notin Readers /\ t \notin Admins
  BY ThreadAssumption DEF Users, Threads
<1>1. ASSUME CopyIn(t) PROVE WithinCapacity'
  <2>1. HoldsLock(t) /\ pc[t] = "copy" /\ pc' = [pc EXCEPT ![t] = "publish"]
    BY <1>1 DEF CopyIn, Goto, HoldsLock, Holding
  <2>2. \A u \in Threads : u # t => pc'[u] \notin {"publish", "reset2"}
    BY <2>1, <1>0, Alone DEF TypeOK
  <2>3. ~Resetting /\ ~Resetting'
    BY <2>1, <2>2, <1>0, Alone DEF Resetting, Threads, TypeOK
  <2>4. fout <= fin /\ fin - fout <= Capacity /\ fin' = fin /\ fout' = fout
    BY <2>3, <1>1 DEF WithinCapacity, CopyIn
  <2>5. fin - fout + copied'[t] <= Capacity
    <3> DEFINE n == SmallerOf(len[t], Capacity - (fin - fout))
    <3>1. n <= Capacity - (fin - fout) /\ n \in Int
      BY <1>0, <2>4, MaxLenAssumption, CapacityAssumption DEF SmallerOf, TypeOK
    <3>2. \E k \in 0 .. n : copied' = [copied EXCEPT ![t] = k]
      BY <1>1 DEF CopyIn
    <3> HIDE DEF n
    <3> QED
      BY <3>1, <3>2, <1>0, CapacityAssumption DEF TypeOK
  <2> QED
    BY <2>2, <2>3, <2>4, <2>5, <1>0 DEF WithinCapacity, Threads, Users
<1>2. ASSUME AdvanceIn(t) PROVE WithinCapacity'
  <2>1. HoldsLock(t) /\ pc[t] = "publish" /\ pc' = [pc EXCEPT ![t] = "unlock"]
    BY <1>2 DEF AdvanceIn, Goto, HoldsLock, Holding
  <2>2. \A u \in Threads : pc'[u] \notin {"publish", "reset2"}
    BY <2>1, <1>0, Alone DEF TypeOK
  <2>3. ~Resetting
    BY <2>1, <1>0, Alone DEF Resetting, Threads
  <2>4. fout <= fin /\ fin - fout + copied[t] <= Capacity
    BY <2>1, <2>3 DEF WithinCapacity
  <2>5. fout' = fout /\ fin' = fin + copied[t] /\ copied[t] \in Nat
    BY <1>2, <1>0 DEF AdvanceIn, TypeOK
  <2> QED
    <3>1. fout' <= fin' /\ fin' - fout' <= Capacity
      BY <2>4, <2>5, CapacityAssumption DEF TypeOK
    <3> QED
      BY <2>2, <3>1 DEF WithinCapacity, Threads, Users
<1>3. ASSUME Release(t, "unlock", "wake") PROVE WithinCapacity'
  BY <1>0, <1>3, CapacityFrame DEF Release, fifoVars, callVars
<1>4. ASSUME Wake(t, "read") PROVE WithinCapacity'
  BY <1>0, <1>4, CapacityFrame DEF Wake, Return, TypeOK, fifoVars
<1> QED
  BY <1>0, <1>1, <1>2, <1>3, <1>4, CapacityBeforeTransfer DEF dev_write

LEMMA CapacityAdmin ==
  ASSUME InductiveInvariant, NEW t \in Admins,
         clear_fifo_store(t) \/ set_buffer_size(t)
  PROVE  WithinCapacity'
<1>0. t \in Threads
  BY DEF Threads
<1> USE DEF fifoVars, callVars
<1>1. ASSUME NEW to \in {"clear", "resize"}, AdminCall(t, to) PROVE WithinCapacity'
  BY <1>0, <1>1, CapacityFrame DEF AdminCall
<1>2. ASSUME Acquire(t, "clear", "reset1") \/ Acquire(t, "resize", "swap") \/ SwapBuffer(t)
             \/ Release(t, "unlock", "wake") \/ Release(t, "release", "idle")
      PROVE  WithinCapacity'
  BY <1>0, <1>2, CapacityFrame DEF Acquire, SwapBuffer, Release
<1>3. ASSUME WakeWriters(t) \/ Return(t, "resize") PROVE WithinCapacity'
  BY <1>0, <1>3, CapacityFrame DEF WakeWriters, Return, InductiveInvariant, TypeOK
<1>4. ASSUME ResetFirst(t) PROVE WithinCapacity'
  <2>1. HoldsLock(t) /\ pc[t] = "reset1" /\ pc' = [pc EXCEPT ![t] = "reset2"]
    BY <1>4 DEF ResetFirst, Goto, HoldsLock, Holding
  <2>2. \A u \in Threads : pc'[u] # "publish"
    BY <2>1, <1>0, Alone DEF TypeOK, InductiveInvariant
  <2>3. Resetting'
    BY <2>1, <1>0 DEF Resetting, TypeOK, InductiveInvariant
  <2> QED
    BY <2>2, <2>3 DEF WithinCapacity, Threads, Users
<1>5. ASSUME ResetSecond(t) PROVE WithinCapacity'
  <2>1. HoldsLock(t) /\ pc[t] = "reset2" /\ pc' = [pc EXCEPT ![t] = "unlock"]
    BY <1>5 DEF ResetSecond, Goto, HoldsLock, Holding
  <2>2. \A u \in Threads : pc'[u] # "publish"
    BY <2>1, <1>0, Alone DEF TypeOK, InductiveInvariant
  <2>3. fin' = 0 /\ fout' = 0
    BY <1>5 DEF ResetSecond
  <2> QED
    BY <2>2, <2>3, CapacityAssumption DEF WithinCapacity, Threads, Users
<1> QED
  BY <1>1, <1>2, <1>3, <1>4, <1>5 DEF clear_fifo_store, set_buffer_size

LEMMA CapacityStep == InductiveInvariant /\ [Next]_vars => WithinCapacity'
<1> SUFFICES ASSUME InductiveInvariant, [Next]_vars PROVE WithinCapacity'
  OBVIOUS
<1>1. CASE UNCHANGED vars
  BY <1>1 DEF InductiveInvariant, WithinCapacity, Resetting, vars, fifoVars, callVars
<1>2. CASE Next
  BY <1>2, CapacityRead, CapacityWrite, CapacityAdmin DEF Next
<1> QED
  BY <1>1, <1>2

LEMMA InvariantInit == Init => InductiveInvariant
<1>1. Init => WithinCapacity
  BY CapacityAssumption DEF Init, WithinCapacity, Threads, Users
<1>2. Init => MutualExclusion
  BY ThreadAssumption
  DEF Init, MutualExclusion, HoldsLock, Holding, Threads, Users
<1> QED
  BY <1>1, <1>2, TypeInit DEF InductiveInvariant

LEMMA InvariantStep == InductiveInvariant /\ [Next]_vars => InductiveInvariant'
  BY TypeStep, ExclusionStep, CapacityStep DEF InductiveInvariant

(* The FIFO never under- or overruns, whatever reads, writes, clears and   *)
(* resizes interleave: the mutex makes each transfer's length still right  *)
(* when it is added to the index.                                          *)
THEOREM Bounded == Spec => []WithinCapacity
  BY InvariantInit, InvariantStep, PTL DEF Spec, InductiveInvariant

-----------------------------------------------------------------------------
(* The order of the bytes.  Every step is one of seven kinds, and six of   *)
(* them touch the FIFO.                                                    *)

(* The FIFO, its history, the transfers under way and the reset under way  *)
(* are left as they were.                                                  *)
Quiet ==
  /\ UNCHANGED <<fifoVars, history>>
  /\ \A u \in Threads : pc'[u] = "publish" <=> pc[u] = "publish"
  /\ \A u \in Threads : pc'[u] = "reset2" <=> pc[u] = "reset2"
  /\ \A u \in Threads : pc[u] = "publish" => copied'[u] = copied[u]

FifoStep ==
  \/ \E t \in Readers : CopyOut(t) \/ AdvanceOut(t)
  \/ \E t \in Writers : CopyIn(t) \/ AdvanceIn(t)
  \/ \E t \in Admins : ResetFirst(t) \/ ResetSecond(t)

(* A thread that moves between two places outside the transfer and the     *)
(* reset, and rewrites at most its own local variables, is quiet.          *)
LEMMA QuietMove ==
  ASSUME TypeOK, NEW t \in Threads, NEW from, NEW to, Goto(t, from, to),
         from \notin {"publish", "reset2"}, to \notin {"publish", "reset2"},
         UNCHANGED <<fifoVars, history>>,
         \A u \in Threads \ {t} : copied'[u] = copied[u]
  PROVE  Quiet
<1>1. \A u \in Threads : pc'[u] = IF u = t THEN to ELSE pc[u]
  BY DEF TypeOK, Goto
<1>2. pc[t] = from
  BY DEF Goto
<1> QED
  BY <1>1, <1>2 DEF Quiet

LEMMA QuietBeforeTransfer ==
  ASSUME TypeOK, NEW t \in Users, BeforeTransfer(t)
  PROVE  Quiet
<1>0. t \in Threads
  BY DEF Threads
<1>1. ASSUME NEW n \in 1 .. MaxLen, Call(t, n) PROVE Quiet
  BY <1>0, <1>1, QuietMove DEF Call
<1>2. ASSUME LoadIndex(t, "test1", "test2") \/ LoadIndex(t, "retest1", "retest2")
      PROVE  Quiet
  BY <1>0, <1>2, QuietMove DEF LoadIndex
<1>3. ASSUME TestPassed(t, "test2") \/ TestPassed(t, "retest2") PROVE Quiet
  BY <1>0, <1>3, QuietMove DEF TestPassed
<1>4. ASSUME TestFailed(t, "test2", "prepare") \/ TestFailed(t, "retest2", "asleep")
      PROVE  Quiet
  BY <1>0, <1>4, QuietMove DEF TestFailed
<1>5. ASSUME NEW from, from \notin {"publish", "reset2"}, Return(t, from) PROVE Quiet
  BY <1>0, <1>5, QuietMove DEF Return, TypeOK
<1>6. ASSUME PrepareToWait(t) \/ Awake(t) \/ Acquire(t, "lock", "copy") PROVE Quiet
  BY <1>0, <1>6, QuietMove DEF PrepareToWait, Awake, Acquire, callVars
<1> QED
  BY <1>1, <1>2, <1>3, <1>4, <1>5, <1>6 DEF BeforeTransfer, WouldBlock, Interrupted

LEMMA StepKinds == TypeOK /\ [Next]_vars => Quiet \/ FifoStep
<1> SUFFICES ASSUME TypeOK, [Next]_vars PROVE Quiet \/ FifoStep
  OBVIOUS
<1>1. CASE UNCHANGED vars
  BY <1>1 DEF vars, Quiet, callVars
<1>2. ASSUME NEW t \in Threads, NEW q, Wake(t, q) \/ WakeWriters(t) PROVE Quiet
  BY <1>2, QuietMove DEF Wake, WakeWriters, Return, TypeOK
<1>3. ASSUME NEW t \in Threads,
             Release(t, "unlock", "wake") \/ Release(t, "release", "idle")
      PROVE  Quiet
  BY <1>3, QuietMove DEF Release, callVars
<1>4. ASSUME NEW t \in Threads, AdminCall(t, "clear") \/ AdminCall(t, "resize")
      PROVE  Quiet
  BY <1>4, QuietMove DEF AdminCall, callVars
<1>5. ASSUME NEW t \in Threads,
             Acquire(t, "clear", "reset1") \/ Acquire(t, "resize", "swap")
      PROVE  Quiet
  BY <1>5, QuietMove DEF Acquire, callVars
<1>6. ASSUME NEW t \in Threads, SwapBuffer(t) PROVE Quiet
  BY <1>6, QuietMove DEF SwapBuffer, callVars
<1>7. ASSUME NEW t \in Threads, Return(t, "resize") PROVE Quiet
  BY <1>7, QuietMove DEF Return, TypeOK
<1>8. ASSUME NEW t \in Readers, dev_read(t) PROVE Quiet \/ FifoStep
  BY <1>8, <1>2, <1>3, QuietBeforeTransfer DEF dev_read, FifoStep, Users, Threads
<1>9. ASSUME NEW t \in Writers, dev_write(t) PROVE Quiet \/ FifoStep
  BY <1>9, <1>2, <1>3, QuietBeforeTransfer DEF dev_write, FifoStep, Users, Threads
<1>10. ASSUME NEW t \in Admins, clear_fifo_store(t) \/ set_buffer_size(t)
       PROVE  Quiet \/ FifoStep
  BY <1>10, <1>2, <1>3, <1>4, <1>5, <1>6, <1>7
  DEF clear_fifo_store, set_buffer_size, FifoStep, Threads
<1> QED
  BY <1>1, <1>8, <1>9, <1>10 DEF Next

-----------------------------------------------------------------------------
(* Slots of the ring.                                                      *)

(* A quotient and a remainder determine the number they divide.            *)
LEMMA RemainderOf ==
  ASSUME NEW c \in Nat \ {0}, NEW q \in Int, NEW d \in 0 .. c - 1
  PROVE  (c * q + d) % c = d
  OBVIOUS

LEMMA Division ==
  \A a \in Int, c \in Nat \ {0} : a \div c \in Int /\ a = c * (a \div c) + (a % c)
  OBVIOUS

(* The distance, round the ring, from the slot of index f to that of an    *)
(* index at most one turn away.                                            *)
LEMMA SlotDistance ==
  ASSUME NEW i \in Nat, NEW f \in Nat, NEW d \in 0 .. Capacity - 1,
         i = f + d \/ i = f + d - Capacity
  PROVE  (Slot(i) - f) % Capacity = d
<1> DEFINE q == i \div Capacity
<1>1. q \in Int /\ i % Capacity = i - Capacity * q
  BY Division, CapacityAssumption
<1> HIDE DEF q
<1>2. CASE i = f + d
  <2> DEFINE p == 0 - q
  <2>1. p \in Int /\ (i % Capacity) - f = Capacity * p + d
    BY <1>1, <1>2, CapacityAssumption
  <2>2. (i % Capacity) - f \in Int
    BY <1>1, CapacityAssumption
  <2> HIDE DEF p
  <2> QED
    BY <2>1, <2>2, RemainderOf, CapacityAssumption DEF Slot
<1>3. CASE i = f + d - Capacity
  <2> DEFINE p == 0 - q - 1
  <2>1. p \in Int /\ (i % Capacity) - f = Capacity * p + d
    BY <1>1, <1>3, CapacityAssumption
  <2>2. (i % Capacity) - f \in Int
    BY <1>1, CapacityAssumption
  <2> HIDE DEF p
  <2> QED
    BY <2>1, <2>2, RemainderOf, CapacityAssumption DEF Slot
<1> QED
  BY <1>2, <1>3

-----------------------------------------------------------------------------
(* The invariant: the bytes the FIFO holds, and those a writer has copied  *)
(* in but not yet counted, are numbered consecutively up to accepted, and  *)
(* what readers took is older than what is left.                           *)

(* In storage m the indices lo .. hi - 1 hold base + lo + 1 .. base + hi.  *)
Numbered(m, lo, hi, base) == \A i \in lo .. hi - 1 : m[Slot(i)] = base + i + 1

ContentNumbered ==
  /\ ~Resetting => Numbered(mem, fout, fin, accepted - fin)
  /\ \A t \in Writers : pc[t] = "publish" =>
       Numbered(mem, fin, fin + copied[t], accepted - fin)

(* The bytes of r are numbered at most n.                                  *)
UpTo(r, n) == \A k \in DOMAIN r : r[k] <= n

ReceivedOlder ==
  /\ UpTo(received, accepted)
  /\ ~Resetting => fin - fout <= accepted
  /\ ~Resetting /\ Taking = {} => UpTo(received, accepted - fin + fout)
  /\ \A t \in Taking : UpTo(received, accepted - fin + fout + copied[t])

OrderInv == InductiveInvariant /\ ContentNumbered /\ ReceivedOlder /\ ReadInOrder

LEMMA OrderInit == Init => OrderInv
<1> SUFFICES ASSUME Init PROVE OrderInv
  OBVIOUS
<1>1. InductiveInvariant
  BY InvariantInit
<1>2. ContentNumbered
  BY DEF Init, ContentNumbered, Numbered, Threads, Users
<1>3. received = << >> /\ Taking = {}
  BY DEF Init, Taking, Threads, Users
<1>4. ReceivedOlder /\ ReadInOrder
  BY <1>3 DEF Init, ReceivedOlder, ReadInOrder, UpTo
<1> QED
  BY <1>1, <1>2, <1>4 DEF OrderInv

(* A quiet step keeps all of it.                                           *)
LEMMA OrderQuiet ==
  ASSUME OrderInv, Quiet
  PROVE  ContentNumbered' /\ ReceivedOlder' /\ ReadInOrder'
<1> USE DEF Quiet, fifoVars, history
<1>1. Resetting' <=> Resetting
  BY DEF Resetting, Threads
<1>2. Taking' = Taking /\ \A t \in Taking : copied'[t] = copied[t]
  BY DEF Taking, Threads, Users
<1>3. ContentNumbered'
  BY <1>1 DEF OrderInv, ContentNumbered, Threads, Users
<1>4. ReceivedOlder'
  BY <1>1, <1>2 DEF OrderInv, ReceivedOlder
<1>5. ReadInOrder'
  BY DEF OrderInv, ReadInOrder
<1> QED
  BY <1>3, <1>4, <1>5

(* While a thread transfers or resets, what the others are not doing.      *)
LEMMA OnlyOne ==
  ASSUME TypeOK, MutualExclusion, NEW t \in Threads, HoldsLock(t),
         NEW to, pc' = [pc EXCEPT ![t] = to]
  PROVE  /\ \A u \in Threads : pc[u] \in {"publish", "reset2"} => u = t
         /\ \A u \in Threads : pc'[u] \in {"publish", "reset2"} => u = t /\ to = pc'[u]
         /\ pc'[t] = to
         /\ Resetting <=> t \in Admins /\ pc[t] = "reset2"
         /\ Resetting' <=> t \in Admins /\ to = "reset2"
         /\ Taking = IF t \in Readers /\ pc[t] = "publish" THEN {t} ELSE {}
         /\ Taking' = IF t \in Readers /\ to = "publish" THEN {t} ELSE {}
<1>1. \A u \in Threads : pc[u] \in {"publish", "reset2"} => u = t
  BY Alone
<1>2. \A u \in Threads : pc'[u] = IF u = t THEN to ELSE pc[u]
  BY DEF TypeOK
<1> QED
  BY <1>1, <1>2 DEF Resetting, Taking, Threads, Users

(* What each of the six steps does to the numbers.                         *)

(* A reader takes the k oldest bytes.                                      *)
LEMMA CopyOutTakes ==
  ASSUME OrderInv, NEW t \in Readers, CopyOut(t)
  PROVE  /\ ~Resetting /\ ~Resetting' /\ Taking = {} /\ Taking' = {t}
         /\ \A u \in Threads : pc'[u] = "publish" => u = t
         /\ UNCHANGED <<fin, fout, mem, accepted>>
         /\ copied'[t] \in 0 .. fin - fout
         /\ received' = received \o
                        [i \in 1 .. copied'[t] |-> accepted - fin + fout + i]
<1> USE DEF OrderInv, InductiveInvariant
<1>0. t \in Threads /\ t \notin Writers /\ t \notin Admins
  BY ThreadAssumption DEF Users, Threads
<1>1. HoldsLock(t) /\ pc[t] = "copy" /\ pc' = [pc EXCEPT ![t] = "publish"]
  BY DEF CopyOut, Goto, HoldsLock, Holding
<1>2. /\ ~Resetting /\ ~Resetting' /\ Taking = {} /\ Taking' = {t}
      /\ \A u \in Threads : pc'[u] = "publish" => u = t
  BY <1>0, <1>1, OnlyOne
<1>3. UNCHANGED <<fin, fout, mem, accepted>>
  BY DEF CopyOut, fifoVars
<1>4. fout <= fin /\ fin \in Nat /\ fout \in Nat /\ accepted \in Nat
  BY <1>2 DEF WithinCapacity, TypeOK
<1> DEFINE n == SmallerOf(len[t], fin - fout)
<1>5. n \in 0 .. fin - fout
  BY <1>0, <1>4, MaxLenAssumption DEF SmallerOf, TypeOK
<1>6. PICK k \in 0 .. n :
         /\ copied' = [copied EXCEPT ![t] = k]
         /\ received' = received \o [i \in 1 .. k |-> mem[Slot(fout + i - 1)]]
  BY DEF CopyOut
<1> HIDE DEF n
<1>7. copied'[t] = k /\ k \in 0 .. fin - fout
  BY <1>0, <1>5, <1>6 DEF TypeOK
<1>8. \A i \in 1 .. k : mem[Slot(fout + i - 1)] = accepted - fin + fout + i
  <2> SUFFICES ASSUME NEW i \in 1 .. k
               PROVE  mem[Slot(fout + i - 1)] = accepted - fin + fout + i
    OBVIOUS
  <2>1. Numbered(mem, fout, fin, accepted - fin)
    BY <1>2 DEF ContentNumbered
  <2>2. fout + i - 1 \in fout .. fin - 1
    BY <1>4, <1>7
  <2> QED
    BY <2>1, <2>2, <1>4 DEF Numbered
<1>9. [i \in 1 .. k |-> mem[Slot(fout + i - 1)]]
        = [i \in 1 .. k |-> accepted - fin + fout + i]
  BY <1>8
<1> QED
  BY <1>2, <1>3, <1>6, <1>7, <1>9

(* The index catches up with what was taken.                               *)
LEMMA AdvanceOutCounts ==
  ASSUME OrderInv, NEW t \in Readers, AdvanceOut(t)
  PROVE  /\ ~Resetting /\ ~Resetting' /\ Taking = {t} /\ Taking' = {}
         /\ \A u \in Threads : pc'[u] # "publish"
         /\ UNCHANGED <<fin, mem, accepted, received>>
         /\ copied[t] \in 0 .. fin - fout
         /\ fout' = fout + copied[t]
<1> USE DEF OrderInv, InductiveInvariant
<1>0. t \in Threads /\ t \notin Writers /\ t \notin Admins
  BY ThreadAssumption DEF Users, Threads
<1>1. HoldsLock(t) /\ pc[t] = "publish" /\ pc' = [pc EXCEPT ![t] = "unlock"]
  BY DEF AdvanceOut, Goto, HoldsLock, Holding
<1>2. /\ ~Resetting /\ ~Resetting' /\ Taking = {t} /\ Taking' = {}
      /\ \A u \in Threads : pc'[u] # "publish"
  BY <1>0, <1>1, OnlyOne
<1>3. copied[t] \in 0 .. fin - fout
  BY <1>0, <1>1 DEF WithinCapacity, TypeOK
<1> QED
  BY <1>2, <1>3 DEF AdvanceOut, history

(* A writer stores the next k numbers behind the content, and no slot of   *)
(* the content is touched.                                                 *)
LEMMA CopyInStores ==
  ASSUME OrderInv, NEW t \in Writers, CopyIn(t)
  PROVE  /\ ~Resetting /\ ~Resetting' /\ Taking = {} /\ Taking' = {}
         /\ \A u \in Threads : pc'[u] = "publish" => u = t
         /\ UNCHANGED <<fin, fout, accepted, received>>
         /\ Numbered(mem', fout, fin, accepted - fin)
         /\ Numbered(mem', fin, fin + copied'[t], accepted - fin)
<1> USE DEF OrderInv, InductiveInvariant
<1>0. t \in Threads /\ t \notin Readers /\ t \notin Admins
  BY ThreadAssumption DEF Users, Threads
<1>1. HoldsLock(t) /\ pc[t] = "copy" /\ pc' = [pc EXCEPT ![t] = "publish"]
  BY DEF CopyIn, Goto, HoldsLock, Holding
<1>2. /\ ~Resetting /\ ~Resetting' /\ Taking = {} /\ Taking' = {}
      /\ \A u \in Threads : pc'[u] = "publish" => u = t
  BY <1>0, <1>1, OnlyOne
<1>3. UNCHANGED <<fin, fout, accepted, received>>
  BY DEF CopyIn, history
<1>4. /\ fout <= fin /\ fin - fout <= Capacity
      /\ fin \in Nat /\ fout \in Nat /\ accepted \in Nat
  BY <1>2 DEF WithinCapacity, TypeOK
<1> DEFINE n == SmallerOf(len[t], Capacity - (fin - fout))
           Place(s) == (s - fin) % Capacity
<1>5. n \in 0 .. Capacity - (fin - fout)
  BY <1>0, <1>4, MaxLenAssumption, CapacityAssumption DEF SmallerOf, TypeOK
<1>6. PICK k \in 0 .. n :
         /\ copied' = [copied EXCEPT ![t] = k]
         /\ mem' = [s \in 0 .. Capacity - 1 |->
                      IF Place(s) < k THEN accepted + Place(s) + 1 ELSE mem[s]]
  BY DEF CopyIn
<1> HIDE DEF n
<1>7. copied'[t] = k /\ k \in 0 .. Capacity - (fin - fout)
  BY <1>0, <1>4, <1>5, <1>6, CapacityAssumption DEF TypeOK
<1>8. \A i \in fin .. fin + k - 1 : mem'[Slot(i)] = accepted - fin + i + 1
  <2> SUFFICES ASSUME NEW i \in fin .. fin + k - 1
               PROVE  mem'[Slot(i)] = accepted - fin + i + 1
    OBVIOUS
  <2> DEFINE d == i - fin
  <2>1. i \in Nat /\ d \in 0 .. Capacity - 1 /\ i = fin + d /\ d < k
    BY <1>4, <1>7, CapacityAssumption
  <2>2. Place(Slot(i)) = d
    BY <2>1, <1>4, SlotDistance
  <2>3. Slot(i) \in 0 .. Capacity - 1
    BY <2>1, SlotRange
  <2> HIDE DEF d, Place
  <2>4. mem'[Slot(i)] = accepted + d + 1
    BY <1>6, <2>1, <2>2, <2>3
  <2> QED
    BY <2>4, <2>1, <1>4
<1>9. \A i \in fout .. fin - 1 : mem'[Slot(i)] = accepted - fin + i + 1
  <2> SUFFICES ASSUME NEW i \in fout .. fin - 1
               PROVE  mem'[Slot(i)] = accepted - fin + i + 1
    OBVIOUS
  <2> DEFINE d == i - fin + Capacity
  <2>1. i \in Nat /\ d \in 0 .. Capacity - 1 /\ i = fin + d - Capacity /\ ~(d < k)
    BY <1>4, <1>7, CapacityAssumption
  <2>2. Place(Slot(i)) = d
    BY <2>1, <1>4, SlotDistance
  <2>3. Slot(i) \in 0 .. Capacity - 1
    BY <2>1, SlotRange
  <2> HIDE DEF d, Place
  <2>4. mem'[Slot(i)] = mem[Slot(i)]
    BY <1>6, <2>1, <2>2, <2>3
  <2> QED
    BY <2>4, <1>2 DEF ContentNumbered, Numbered
<1>10. Numbered(mem', fout, fin, accepted - fin)
  BY <1>9 DEF Numbered
<1>11. Numbered(mem', fin, fin + k, accepted - fin)
  BY <1>8, <1>4, <1>7 DEF Numbered
<1> QED
  BY <1>2, <1>3, <1>7, <1>10, <1>11

(* The bytes stored become content.                                        *)
LEMMA AdvanceInCounts ==
  ASSUME OrderInv, NEW t \in Writers, AdvanceIn(t)
  PROVE  /\ ~Resetting /\ ~Resetting' /\ Taking = {} /\ Taking' = {}
         /\ \A u \in Threads : pc'[u] # "publish"
         /\ UNCHANGED <<fout, mem, received>>
         /\ copied[t] \in Nat /\ fin - fout + copied[t] <= Capacity
         /\ fin' = fin + copied[t] /\ accepted' = accepted + copied[t]
         /\ Numbered(mem, fout, fin + copied[t], accepted - fin)
<1> USE DEF OrderInv, InductiveInvariant
<1>0. t \in Threads /\ t \notin Readers /\ t \notin Admins
  BY ThreadAssumption DEF Users, Threads
<1>1. HoldsLock(t) /\ pc[t] = "publish" /\ pc' = [pc EXCEPT ![t] = "unlock"]
  BY DEF AdvanceIn, Goto, HoldsLock, Holding
<1>2. /\ ~Resetting /\ ~Resetting' /\ Taking = {} /\ Taking' = {}
      /\ \A u \in Threads : pc'[u] # "publish"
  BY <1>0, <1>1, OnlyOne
<1>3. /\ copied[t] \in Nat /\ fin - fout + copied[t] <= Capacity
      /\ fin \in Nat /\ fout \in Nat /\ accepted \in Nat
  BY <1>0, <1>1 DEF WithinCapacity, TypeOK
<1>4. /\ Numbered(mem, fout, fin, accepted - fin)
      /\ Numbered(mem, fin, fin + copied[t], accepted - fin)
  BY <1>1, <1>2 DEF ContentNumbered
<1>5. Numbered(mem, fout, fin + copied[t], accepted - fin)
  BY <1>3, <1>4 DEF Numbered
<1> QED
  BY <1>2, <1>3, <1>5 DEF AdvanceIn

(* A reset drops what there is, in two steps.                              *)
LEMMA ResetDrops ==
  ASSUME OrderInv, NEW t \in Admins, ResetFirst(t) \/ ResetSecond(t)
  PROVE  /\ Taking = {} /\ Taking' = {}
         /\ \A u \in Threads : pc'[u] # "publish"
         /\ UNCHANGED <<accepted, received>>
         /\ ResetFirst(t) => ~Resetting /\ Resetting'
         /\ ResetSecond(t) => Resetting /\ ~Resetting' /\ fin' = 0 /\ fout' = 0
<1> USE DEF OrderInv, InductiveInvariant
<1>0. t \in Threads /\ t \notin Readers
  BY ThreadAssumption DEF Users, Threads
<1>1. CASE ResetFirst(t)
  <2>1. HoldsLock(t) /\ pc[t] = "reset1" /\ pc' = [pc EXCEPT ![t] = "reset2"]
    BY <1>1 DEF ResetFirst, Goto, HoldsLock, Holding
  <2>2. UNCHANGED <<accepted, received>> /\ ~ResetSecond(t)
    BY <1>1, <2>1 DEF ResetFirst, ResetSecond, Goto, history
  <2>3. /\ ~Resetting /\ Resetting' /\ Taking = {} /\ Taking' = {}
        /\ \A u \in Threads : pc'[u] # "publish"
    BY <1>0, <2>1, OnlyOne
  <2> QED
    BY <2>2, <2>3
<1>2. CASE ResetSecond(t)
  <2>1. HoldsLock(t) /\ pc[t] = "reset2" /\ pc' = [pc EXCEPT ![t] = "unlock"]
    BY <1>2 DEF ResetSecond, Goto, HoldsLock, Holding
  <2>2. UNCHANGED <<accepted, received>> /\ ~ResetFirst(t) /\ fin' = 0 /\ fout' = 0
    BY <1>2, <2>1 DEF ResetFirst, ResetSecond, Goto, history
  <2>3. /\ Resetting /\ ~Resetting' /\ Taking = {} /\ Taking' = {}
        /\ \A u \in Threads : pc'[u] # "publish"
    BY <1>0, <2>1, OnlyOne
  <2> QED
    BY <2>2, <2>3
<1> QED
  BY <1>1, <1>2

(* Appending numbers that start above what r holds keeps r in order.       *)
LEMMA AppendInOrder ==
  ASSUME NEW r \in Seq(Nat), NEW n \in Int, NEW k \in Nat, UpTo(r, n),
         \A i, j \in DOMAIN r : i < j => r[i] < r[j]
  PROVE  LET s == r \o [i \in 1 .. k |-> n + i]
         IN  /\ \A i, j \in DOMAIN s : i < j => s[i] < s[j]
             /\ UpTo(s, n + k)
<1> DEFINE s == r \o [i \in 1 .. k |-> n + i]
<1>1. /\ DOMAIN s = 1 .. Len(r) + k
      /\ \A i \in 1 .. Len(r) : s[i] = r[i]
      /\ \A i \in Len(r) + 1 .. Len(r) + k : s[i] = n + (i - Len(r))
  OBVIOUS
<1>2. DOMAIN r = 1 .. Len(r) /\ Len(r) \in Nat /\ \A i \in 1 .. Len(r) : r[i] \in Nat
  OBVIOUS
<1> HIDE DEF s
<1>3. UpTo(s, n + k)
  <2> SUFFICES ASSUME NEW i \in 1 .. Len(r) + k PROVE s[i] <= n + k
    BY <1>1 DEF UpTo
  <2>1. CASE i \in 1 .. Len(r)
    <3>1. s[i] = r[i] /\ r[i] <= n /\ r[i] \in Nat
      BY <1>1, <1>2, <2>1 DEF UpTo
    <3> QED
      BY <3>1
  <2>2. CASE i \in Len(r) + 1 .. Len(r) + k
    <3>1. s[i] = n + (i - Len(r))
      BY <1>1, <2>2
    <3> QED
      BY <1>2, <2>2, <3>1
  <2> QED
    BY <1>2, <2>1, <2>2
<1>4. ASSUME NEW i \in 1 .. Len(r) + k, NEW j \in 1 .. Len(r) + k, i < j
      PROVE  s[i] < s[j]
  <2>1. CASE i \in 1 .. Len(r) /\ j \in 1 .. Len(r)
    <3>1. s[i] = r[i] /\ s[j] = r[j] /\ r[i] < r[j]
      BY <1>1, <1>2, <1>4, <2>1
    <3> QED
      BY <3>1
  <2>2. CASE i \in 1 .. Len(r) /\ j \in Len(r) + 1 .. Len(r) + k
    <3>1. s[i] = r[i] /\ r[i] <= n /\ r[i] \in Nat
      BY <1>1, <1>2, <2>2 DEF UpTo
    <3>2. s[j] = n + (j - Len(r))
      BY <1>1, <2>2
    <3> QED
      BY <1>2, <2>2, <3>1, <3>2
  <2>3. CASE i \in Len(r) + 1 .. Len(r) + k /\ j \in Len(r) + 1 .. Len(r) + k
    <3>1. s[i] = n + (i - Len(r)) /\ s[j] = n + (j - Len(r))
      BY <1>1, <2>3
    <3> QED
      BY <1>2, <1>4, <2>3, <3>1
  <2> QED
    BY <1>2, <1>4, <2>1, <2>2, <2>3
<1> QED
  BY <1>1, <1>3, <1>4 DEF s

LEMMA OrderStep == OrderInv /\ [Next]_vars => OrderInv'
<1> SUFFICES ASSUME OrderInv, [Next]_vars PROVE OrderInv'
  OBVIOUS
<1>0. InductiveInvariant' /\ TypeOK /\ TypeOK'
  BY InvariantStep DEF OrderInv, InductiveInvariant
<1>t. /\ fin \in Nat /\ fout \in Nat /\ accepted \in Nat /\ received \in Seq(Nat)
      /\ fin' \in Nat /\ fout' \in Nat /\ accepted' \in Nat
  BY <1>0 DEF TypeOK
<1>1. CASE Quiet
  BY <1>0, <1>1, OrderQuiet DEF OrderInv
<1>2. ASSUME NEW t \in Readers, CopyOut(t) PROVE OrderInv'
  <2> DEFINE n == accepted - fin + fout
             k == copied'[t]
  <2>1. /\ ~Resetting /\ ~Resetting' /\ Taking = {} /\ Taking' = {t}
        /\ \A u \in Threads : pc'[u] = "publish" => u = t
        /\ UNCHANGED <<fin, fout, mem, accepted>>
        /\ k \in 0 .. fin - fout
        /\ received' = received \o [i \in 1 .. k |-> n + i]
    BY <1>2, CopyOutTakes
  <2>2. k \in Nat /\ n \in Int /\ n + k <= accepted /\ fin - fout <= accepted
    BY <2>1, <1>t DEF OrderInv, ReceivedOlder
  <2>3. UpTo(received, n)
    BY <2>1 DEF OrderInv, ReceivedOlder
  <2> HIDE DEF n, k
  <2>4. ReadInOrder' /\ UpTo(received', n + k)
    BY <2>1, <2>2, <2>3, <1>t, AppendInOrder DEF OrderInv, ReadInOrder
  <2>5. received' \in Seq(Nat)
    BY <1>0 DEF TypeOK
  <2>6. UpTo(received', accepted)
    BY <2>2, <2>4, <2>5, <1>t DEF UpTo
  <2>7. ReceivedOlder'
    BY <2>1, <2>2, <2>4, <2>6 DEF ReceivedOlder, n, k
  <2>8. ContentNumbered'
    <3>1. t \notin Writers
      BY ThreadAssumption
    <3> QED
      BY <2>1, <3>1 DEF OrderInv, ContentNumbered, Threads, Users
  <2> QED
    BY <1>0, <2>4, <2>7, <2>8 DEF OrderInv
<1>3. ASSUME NEW t \in Readers, AdvanceOut(t) PROVE OrderInv'
  <2>1. /\ ~Resetting /\ ~Resetting' /\ Taking = {t} /\ Taking' = {}
        /\ \A u \in Threads : pc'[u] # "publish"
        /\ UNCHANGED <<fin, mem, accepted, received>>
        /\ copied[t] \in 0 .. fin - fout
        /\ fout' = fout + copied[t]
    BY <1>3, AdvanceOutCounts
  <2>2. ContentNumbered'
    BY <2>1, <1>t DEF OrderInv, ContentNumbered, Numbered, Threads, Users
  <2>3. UpTo(received, accepted - fin + fout + copied[t]) /\ UpTo(received, accepted)
    BY <2>1 DEF OrderInv, ReceivedOlder
  <2>4. accepted - fin + fout + copied[t] = accepted' - fin' + fout'
    BY <2>1, <1>t
  <2>5. fin' - fout' <= accepted'
    BY <2>1, <1>t DEF OrderInv, ReceivedOlder
  <2>6. ReceivedOlder'
    BY <2>1, <2>3, <2>4, <2>5 DEF ReceivedOlder
  <2> QED
    BY <1>0, <2>1, <2>2, <2>6 DEF OrderInv, ReadInOrder
<1>4. ASSUME NEW t \in Writers, CopyIn(t) PROVE OrderInv'
  <2>1. /\ ~Resetting /\ ~Resetting' /\ Taking = {} /\ Taking' = {}
        /\ \A u \in Threads : pc'[u] = "publish" => u = t
        /\ UNCHANGED <<fin, fout, accepted, received>>
        /\ Numbered(mem', fout, fin, accepted - fin)
        /\ Numbered(mem', fin, fin + copied'[t], accepted - fin)
    BY <1>4, CopyInStores
  <2>2. ContentNumbered'
    BY <2>1 DEF ContentNumbered, Threads, Users
  <2>3. ReceivedOlder'
    BY <2>1 DEF OrderInv, ReceivedOlder
  <2> QED
    BY <1>0, <2>1, <2>2, <2>3 DEF OrderInv, ReadInOrder
<1>5. ASSUME NEW t \in Writers, AdvanceIn(t) PROVE OrderInv'
  <2>1. /\ ~Resetting /\ ~Resetting' /\ Taking = {} /\ Taking' = {}
        /\ \A u \in Threads : pc'[u] # "publish"
        /\ UNCHANGED <<fout, mem, received>>
        /\ copied[t] \in Nat
        /\ fin' = fin + copied[t] /\ accepted' = accepted + copied[t]
        /\ Numbered(mem, fout, fin + copied[t], accepted - fin)
    BY <1>5, AdvanceInCounts
  <2>2. accepted' - fin' = accepted - fin /\ accepted <= accepted'
    BY <2>1, <1>t
  <2>3. ContentNumbered'
    BY <2>1, <2>2 DEF ContentNumbered, Threads, Users
  <2>4. UpTo(received, accepted) /\ UpTo(received, accepted - fin + fout)
        /\ fin - fout <= accepted
    BY <2>1 DEF OrderInv, ReceivedOlder
  <2>5. UpTo(received', accepted') /\ fin' - fout' <= accepted'
    <3>1. \A k \in DOMAIN received : received[k] \in Nat
      BY <1>t
    <3>2. UpTo(received', accepted')
      BY <2>1, <2>2, <2>4, <3>1, <1>t DEF UpTo
    <3> QED
      BY <2>1, <2>4, <3>2, <1>t
  <2>6. accepted' - fin' + fout' = accepted - fin + fout
    BY <2>1, <2>2
  <2>7. ReceivedOlder'
    BY <2>1, <2>4, <2>5, <2>6 DEF ReceivedOlder
  <2> QED
    BY <1>0, <2>1, <2>3, <2>7 DEF OrderInv, ReadInOrder
<1>6. ASSUME NEW t \in Admins, ResetFirst(t) \/ ResetSecond(t) PROVE OrderInv'
  <2>1. /\ Taking' = {} /\ \A u \in Threads : pc'[u] # "publish"
        /\ UNCHANGED <<accepted, received>>
        /\ Resetting' \/ (fin' = 0 /\ fout' = 0)
    <3>1. CASE ResetFirst(t)
      BY <3>1, ResetDrops
    <3>2. CASE ResetSecond(t)
      BY <3>2, ResetDrops
    <3> QED
      BY <1>6, <3>1, <3>2
  <2>2. ContentNumbered'
    BY <2>1 DEF ContentNumbered, Numbered, Threads, Users
  <2>3. UpTo(received', accepted')
    BY <2>1 DEF OrderInv, ReceivedOlder
  <2>4. ASSUME ~Resetting'
        PROVE  accepted' - fin' + fout' = accepted' /\ fin' - fout' <= accepted'
    <3>1. fin' = 0 /\ fout' = 0
      BY <2>1, <2>4, Zenon
    <3>2. \A a, i, o \in Nat : i = 0 /\ o = 0 => a - i + o = a /\ i - o <= a
      OBVIOUS
    <3> QED
      BY <3>1, <3>2, <1>t, Zenon
  <2>5. ReceivedOlder'
    BY <2>1, <2>3, <2>4 DEF ReceivedOlder
  <2> QED
    BY <1>0, <2>1, <2>2, <2>5 DEF OrderInv, ReadInOrder
<1> QED
  BY <1>0, <1>1, <1>2, <1>3, <1>4, <1>5, <1>6, StepKinds DEF FifoStep

(* Across all dev_read calls bytes come out in the order dev_write put     *)
(* them in and none comes out twice, whatever clear_fifo_store drops in    *)
(* between and wherever a copy faults.                                     *)
THEOREM Ordered == Spec => []ReadInOrder
<1>1. OrderInv => ReadInOrder
  BY DEF OrderInv
<1> QED
  BY <1>1, OrderInit, OrderStep, PTL DEF Spec

-----------------------------------------------------------------------------
(* The refinement of BoundedFifo.  By the invariant the abstract queue     *)
(* holds the newest numbers, so each step is arithmetic on its length.     *)

(* The last n of the first a numbers, in order.                            *)
Newest(n, a) == [i \in 1 .. n |-> a - n + i]

QueueLength == IF Resetting THEN 0 ELSE fin - fout - Leaving

LEMMA NewestAppend ==
  ASSUME NEW n \in Nat, NEW a \in Int, NEW k \in Nat
  PROVE  Newest(n, a) \o [i \in 1 .. k |-> a + i] = Newest(n + k, a + k)
  BY DEF Newest

LEMMA NewestSplit ==
  ASSUME NEW n \in Nat, NEW a \in Int, NEW k \in 0 .. n
  PROVE  /\ Len(Newest(n, a)) = n
         /\ SubSeq(Newest(n, a), 1, k) = [i \in 1 .. k |-> a - n + i]
         /\ SubSeq(Newest(n, a), k + 1, n) = Newest(n - k, a)
<1>1. Newest(n, a) \in Seq(Int) /\ Len(Newest(n, a)) = n
  BY DEF Newest
<1>2. SubSeq(Newest(n, a), 1, k) = [i \in 1 .. k |-> a - n + i]
  BY DEF Newest
<1>3. SubSeq(Newest(n, a), k + 1, n) = Newest(n - k, a)
  BY DEF Newest
<1> QED
  BY <1>1, <1>2, <1>3

LEMMA NewestNone == \A a : Newest(0, a) = << >>
  BY DEF Newest

(* The abstract queue, in numbers.                                         *)
LEMMA QueueIs ==
  OrderInv => /\ AbstractQueue = Newest(QueueLength, accepted)
              /\ QueueLength \in 0 .. Capacity
<1> SUFFICES ASSUME OrderInv
             PROVE  /\ AbstractQueue = Newest(QueueLength, accepted)
                    /\ QueueLength \in 0 .. Capacity
  OBVIOUS
<1> USE DEF OrderInv, InductiveInvariant
<1>1. CASE Resetting
  BY <1>1, NewestNone, CapacityAssumption DEF AbstractQueue, QueueLength
<1>2. CASE ~Resetting
  <2>1. /\ fout <= fin /\ fin - fout <= Capacity
        /\ fin \in Nat /\ fout \in Nat /\ accepted \in Nat
    BY <1>2 DEF WithinCapacity, TypeOK
  <2> DEFINE n == fin - fout
  <2>2. Content = Newest(n, accepted)
    <3>1. \A i \in 1 .. n : mem[Slot(fout + i - 1)] = accepted - n + i
      <4> SUFFICES ASSUME NEW i \in 1 .. n
                   PROVE  mem[Slot(fout + i - 1)] = accepted - n + i
        OBVIOUS
      <4>1. fout + i - 1 \in fout .. fin - 1
        BY <2>1
      <4>2. Numbered(mem, fout, fin, accepted - fin)
        BY <1>2 DEF ContentNumbered
      <4> QED
        BY <4>1, <4>2, <2>1 DEF Numbered
    <3> QED
      BY <3>1 DEF Content, Newest
  <2>3. Leaving \in 0 .. n
    <3>1. CASE Taking = {}
      BY <2>1, <3>1 DEF Leaving
    <3>2. CASE Taking # {}
      <4>1. PICK t \in Taking : Leaving = copied[t]
        BY <3>2 DEF Leaving
      <4>2. t \in Threads /\ copied[t] <= fin - fout
        BY <4>1 DEF Taking, WithinCapacity, Threads, Users
      <4> QED
        BY <4>1, <4>2, <2>1 DEF TypeOK
    <3> QED
      BY <3>1, <3>2
  <2> HIDE DEF n
  <2>4. n \in Nat /\ n <= Capacity
    BY <2>1 DEF n
  <2>5. SubSeq(Content, Leaving + 1, n) = Newest(n - Leaving, accepted)
    BY <2>1, <2>2, <2>3, <2>4, NewestSplit
  <2>6. QueueLength = n - Leaving
    BY <1>2 DEF QueueLength, n
  <2> QED
    BY <1>2, <2>3, <2>4, <2>5, <2>6, CapacityAssumption DEF AbstractQueue, n
<1> QED
  BY <1>1, <1>2

LEMMA FifoInit == Init => Fifo!Init
<1> SUFFICES ASSUME Init PROVE Fifo!Init
  OBVIOUS
<1>1. OrderInv
  BY OrderInit
<1>2. ~Resetting /\ Taking = {} /\ fin = 0 /\ fout = 0
  BY DEF Init, Resetting, Taking, Threads, Users
<1>3. QueueLength = 0
  BY <1>2 DEF QueueLength, Leaving
<1> QED
  BY <1>1, <1>3, QueueIs, NewestNone DEF Init, Fifo!Init

(* Every step of the device is a step of the queue or leaves it alone.     *)
LEMMA FifoStepImplements ==
  OrderInv /\ OrderInv' /\ [Next]_vars => [Fifo!Next]_(Fifo!fifo)
<1> SUFFICES ASSUME OrderInv, OrderInv', [Next]_vars PROVE [Fifo!Next]_(Fifo!fifo)
  OBVIOUS
<1>q. /\ AbstractQueue = Newest(QueueLength, accepted)
      /\ QueueLength \in 0 .. Capacity
  BY QueueIs
<1>p. /\ AbstractQueue' = Newest(QueueLength', accepted')
      /\ QueueLength' \in 0 .. Capacity
  <2>1. (OrderInv => /\ AbstractQueue = Newest(QueueLength, accepted)
                     /\ QueueLength \in 0 .. Capacity)'
    BY QueueIs, PTL
  <2> QED
    BY <2>1
<1> DEFINE q  == QueueLength
           q2 == QueueLength'
<1>1. /\ AbstractQueue = Newest(q, accepted) /\ q \in 0 .. Capacity
      /\ AbstractQueue' = Newest(q2, accepted') /\ q2 \in 0 .. Capacity
  BY <1>q, <1>p
<1>t. /\ TypeOK /\ received \in Seq(Nat) /\ fin \in Nat /\ fout \in Nat /\ accepted \in Nat
      /\ fin' \in Nat /\ fout' \in Nat /\ accepted' \in Nat
  BY DEF OrderInv, InductiveInvariant, TypeOK
<1>s. ASSUME q2 = q, UNCHANGED <<accepted, received>> PROVE [Fifo!Next]_(Fifo!fifo)
  BY <1>1, <1>s DEF Fifo!fifo
<1>2. CASE Quiet
  <2>1. (Resetting' <=> Resetting) /\ Taking' = Taking
        /\ \A t \in Taking : copied'[t] = copied[t]
    BY <1>2 DEF Quiet, Resetting, Taking, Threads, Users
  <2>2. Leaving' = Leaving
    BY <2>1 DEF Leaving
  <2> QED
    BY <1>2, <1>s, <2>1, <2>2 DEF QueueLength, Quiet, fifoVars, history
<1>3. ASSUME NEW t \in Readers, CopyOut(t) PROVE [Fifo!Next]_(Fifo!fifo)
  <2> DEFINE k == copied'[t]
  <2>1. /\ ~Resetting /\ ~Resetting' /\ Taking = {} /\ Taking' = {t}
        /\ UNCHANGED <<fin, fout, accepted>>
        /\ k \in 0 .. fin - fout
        /\ received' = received \o [i \in 1 .. k |-> accepted - fin + fout + i]
    BY <1>3, CopyOutTakes
  <2>2. q = fin - fout /\ q2 = fin - fout - k
    BY <2>1, <1>t DEF QueueLength, Leaving
  <2> HIDE DEF q, q2, k
  <2>3. accepted - fin + fout = accepted - q /\ q \in Nat /\ k \in 0 .. q
    BY <2>1, <2>2, <1>t
  <2>4. CASE k = 0
    <3> DEFINE tail == [i \in 1 .. k |-> accepted - fin + fout + i]
    <3>1. tail = << >> /\ received' = received \o tail
      BY <2>1, <2>4
    <3> HIDE DEF tail
    <3>2. received' = received
      BY <3>1, <1>t
    <3> QED
      BY <1>s, <2>1, <2>2, <2>4, <3>2, <1>t DEF q, q2
  <2>5. CASE k > 0
    <3>0. /\ Len(Newest(q, accepted)) = q
          /\ SubSeq(Newest(q, accepted), 1, k) = [i \in 1 .. k |-> accepted - q + i]
          /\ SubSeq(Newest(q, accepted), k + 1, q) = Newest(q - k, accepted)
      <4>1. q \in Nat /\ accepted \in Int /\ k \in 0 .. q
        BY <2>3, <1>t
      <4> QED
        BY <4>1, NewestSplit
    <3>1. Len(AbstractQueue) = q /\ k \in 1 .. q
      BY <1>1, <3>0, <2>3, <2>5
    <3>2. received' = received \o SubSeq(AbstractQueue, 1, k)
      BY <1>1, <2>1, <2>3, <3>0
    <3>3. AbstractQueue' = SubSeq(AbstractQueue, k + 1, q)
      <4>1. q2 = q - k
        BY <2>2, <2>3
      <4> QED
        BY <1>1, <2>1, <3>0, <4>1
    <3> QED
      BY <2>1, <3>1, <3>2, <3>3 DEF Fifo!Next, Fifo!Take
  <2> QED
    BY <2>3, <2>4, <2>5
<1>4. ASSUME NEW t \in Readers, AdvanceOut(t) PROVE [Fifo!Next]_(Fifo!fifo)
  <2>1. /\ ~Resetting /\ ~Resetting' /\ Taking = {t} /\ Taking' = {}
        /\ UNCHANGED <<fin, accepted, received>>
        /\ copied[t] \in 0 .. fin - fout
        /\ fout' = fout + copied[t]
    BY <1>4, AdvanceOutCounts
  <2>2. q = fin - fout - copied[t] /\ q2 = fin' - fout' - 0
    BY <2>1 DEF QueueLength, Leaving
  <2>3. q2 = q
    BY <2>1, <2>2, <1>t
  <2> QED
    BY <1>s, <2>1, <2>3
<1>5. ASSUME NEW t \in Writers, CopyIn(t) PROVE [Fifo!Next]_(Fifo!fifo)
  <2>1. /\ ~Resetting /\ ~Resetting' /\ Taking = {} /\ Taking' = {}
        /\ UNCHANGED <<fin, fout, accepted, received>>
    BY <1>5, CopyInStores
  <2>2. q2 = q
    BY <2>1 DEF QueueLength, Leaving
  <2> QED
    BY <1>s, <2>1, <2>2
<1>6. ASSUME NEW t \in Writers, AdvanceIn(t) PROVE [Fifo!Next]_(Fifo!fifo)
  <2> DEFINE k == copied[t]
  <2>1. /\ ~Resetting /\ ~Resetting' /\ Taking = {} /\ Taking' = {}
        /\ UNCHANGED <<fout, received>>
        /\ k \in Nat /\ fin - fout + k <= Capacity
        /\ fin' = fin + k /\ accepted' = accepted + k
    BY <1>6, AdvanceInCounts
  <2>2. q = fin - fout - 0 /\ q2 = fin' - fout' - 0
    BY <2>1 DEF QueueLength, Leaving
  <2> HIDE DEF q, q2, k
  <2>3. q \in Nat /\ q2 = q + k /\ q + k <= Capacity
    BY <2>1, <2>2, <1>1, <1>t
  <2>4. CASE k = 0
    BY <1>s, <2>1, <2>3, <2>4, <1>t DEF q, q2
  <2>5. CASE k > 0
    <3>1. k \in 1 .. Capacity
      BY <2>1, <2>3, <2>5, CapacityAssumption
    <3>0. /\ Len(Newest(q, accepted)) = q
          /\ Newest(q, accepted) \o [i \in 1 .. k |-> accepted + i]
               = Newest(q + k, accepted + k)
      <4>1. 0 \in 0 .. q /\ accepted \in Int
        BY <2>3, <1>t
      <4>2. Len(Newest(q, accepted)) = q
        BY <2>3, <4>1, NewestSplit
      <4> QED
        BY <2>1, <2>3, <4>1, <4>2, NewestAppend
    <3>2. Len(AbstractQueue) = q
      BY <1>1, <3>0
    <3>3. AbstractQueue' = AbstractQueue \o [i \in 1 .. k |-> accepted + i]
      BY <1>1, <2>1, <2>3, <3>0
    <3> QED
      BY <2>1, <2>3, <3>1, <3>2, <3>3 DEF Fifo!Next, Fifo!Put
  <2> QED
    BY <2>1, <2>4, <2>5
<1>7. ASSUME NEW t \in Admins, ResetFirst(t) PROVE [Fifo!Next]_(Fifo!fifo)
  <2>1. Resetting' /\ UNCHANGED <<accepted, received>>
    BY <1>7, ResetDrops
  <2>2. AbstractQueue' = << >>
    BY <2>1 DEF AbstractQueue
  <2> QED
    BY <2>1, <2>2 DEF Fifo!Next, Fifo!Clear
<1>8. ASSUME NEW t \in Admins, ResetSecond(t) PROVE [Fifo!Next]_(Fifo!fifo)
  <2>1. /\ Resetting /\ ~Resetting' /\ Taking' = {} /\ UNCHANGED <<accepted, received>>
        /\ fin' = 0 /\ fout' = 0
    BY <1>8, ResetDrops
  <2>2. q = 0 /\ q2 = 0 - 0 - 0
    BY <2>1 DEF QueueLength, Leaving
  <2>3. q2 = q
    BY <2>2
  <2> QED
    BY <1>s, <2>1, <2>3
<1> QED
  BY <1>t, <1>2, <1>3, <1>4, <1>5, <1>6, <1>7, <1>8, StepKinds DEF FifoStep

(* dev_read, dev_write and clear_fifo_store implement the atomic Take, Put *)
(* and Clear of BoundedFifo, at the steps ImplementsFifo names.            *)
THEOREM Refinement == Spec => ImplementsFifo
  BY FifoInit, FifoStepImplements, OrderInit, OrderStep, PTL
  DEF Spec, ImplementsFifo, Fifo!Spec

-----------------------------------------------------------------------------
(* No lost wake-up.  The invariant says what a queued thread that nobody   *)
(* is about to wake may still rely on: the index it loaded without the     *)
(* mutex is not stale in a way that could send it to sleep, and if it      *)
(* sleeps already it has to.                                               *)

(* A reader's copy of in is current, or the FIFO is empty; its copy of out *)
(* equals in only if the FIFO is empty.  A writer's copy of in lies within *)
(* the content, and its copy of out is current.                            *)
SeenRight(t) ==
  LET v == seen[t].value
  IN  /\ t \in Readers /\ seen[t].which = "in"  => v = fin \/ fin = fout
      /\ t \in Readers /\ seen[t].which # "in"  => (v = fin => fin = fout)
      /\ t \notin Readers /\ seen[t].which = "in" => fout <= v /\ v <= fin
      /\ t \notin Readers /\ seen[t].which # "in" => v = fout

Waits(t) == t \in waitQueue[QueueOf(t)] /\ WillWake(QueueOf(t)) = {}

SleepsRight(t) ==
  /\ pc[t] = "retest2" => SeenRight(t)
  /\ pc[t] = "asleep" => MustWait(t, fin, fout)

WakeInv == ~Resetting => \A t \in Users : Waits(t) => SleepsRight(t)

(* A thread that is about to wake a queue stays so until it does.          *)
LEMMA WakersKept ==
  ASSUME TypeOK, NEW t \in Threads, NEW from, NEW to, Goto(t, from, to),
         \A u \in Threads \ {t} : copied'[u] = copied[u],
         from \in {"unlock", "wake"} => to = "wake" /\ copied'[t] = copied[t]
  PROVE  \A q : WillWake(q) \subseteq WillWake(q)'
<1>1. \A u \in Threads : pc'[u] = IF u = t THEN to ELSE pc[u]
  BY DEF TypeOK, Goto
<1>2. pc[t] = from
  BY DEF Goto
<1> QED
  BY <1>1, <1>2 DEF WillWake

(* A thread that moves changes nothing for the others, as long as it does  *)
(* not touch the indices and a queue that loses a waker is emptied.        *)
LEMMA OthersWait ==
  ASSUME TypeOK, WakeInv, NEW t \in Threads, NEW from, NEW to, Goto(t, from, to),
         from # "reset2", to # "reset2",
         UNCHANGED <<fin, fout>>,
         \A u \in Threads \ {t} : seen'[u] = seen[u],
         \A u \in Users \ {t} : u \in waitQueue'[QueueOf(u)] => u \in waitQueue[QueueOf(u)],
         \A q \in {"read", "write"} : WillWake(q) \subseteq WillWake(q)' \/ waitQueue'[q] = {},
         t \in Users => to \notin {"retest2", "asleep"} \/ SleepsRight(t)'
  PROVE  WakeInv'
<1>1. \A u \in Threads : pc'[u] = IF u = t THEN to ELSE pc[u]
  BY DEF TypeOK, Goto
<1>2. pc[t] = from
  BY DEF Goto
<1>3. Resetting' <=> Resetting
  BY <1>1, <1>2 DEF Resetting, Threads
<1>4. ASSUME NEW u \in Users, u # t, Waits(u)' PROVE Waits(u)
  <2>1. QueueOf(u) \in {"read", "write"}
    BY DEF QueueOf
  <2> QED
    BY <1>4, <2>1 DEF Waits
<1>5. ASSUME NEW u \in Users, u # t, Waits(u)', ~Resetting PROVE SleepsRight(u)'
  <2>1. SleepsRight(u) /\ pc'[u] = pc[u] /\ seen'[u] = seen[u]
    BY <1>1, <1>4, <1>5 DEF WakeInv, Threads
  <2> QED
    BY <2>1 DEF SleepsRight, SeenRight, MustWait
<1>6. ASSUME t \in Users, to \notin {"retest2", "asleep"} PROVE SleepsRight(t)'
  BY <1>1, <1>6 DEF SleepsRight, Threads
<1> QED
  BY <1>3, <1>5, <1>6 DEF WakeInv

LEMMA WakeReturn ==
  ASSUME TypeOK, WakeInv, NEW t \in Threads, NEW from, Return(t, from),
         from \notin {"unlock", "wake", "reset2"},
         \A u \in Users \ {t} : u \in waitQueue'[QueueOf(u)] => u \in waitQueue[QueueOf(u)]
  PROVE  WakeInv'
<1>1. /\ Goto(t, from, "idle") /\ UNCHANGED <<fin, fout>>
      /\ \A u \in Threads \ {t} : seen'[u] = seen[u] /\ copied'[u] = copied[u]
  BY DEF Return, fifoVars, TypeOK
<1>2. \A q : WillWake(q) \subseteq WillWake(q)'
  BY <1>1, WakersKept
<1> QED
  BY <1>1, <1>2, OthersWait

(* A thread's entry in or removal from its queue concerns nobody else.     *)
LEMMA OwnQueue ==
  ASSUME TypeOK, NEW t \in Users,
         \/ waitQueue' = [waitQueue EXCEPT ![QueueOf(t)] = @ \ {t}]
         \/ waitQueue' = [waitQueue EXCEPT ![QueueOf(t)] = @ \cup {t}]
  PROVE  \A u \in Users \ {t} : u \in waitQueue'[QueueOf(u)] => u \in waitQueue[QueueOf(u)]
  BY DEF TypeOK, QueueOf

(* The second load sends a thread to sleep only if it has to.              *)
LEMMA SleepsOnlyIfMust ==
  ASSUME TypeOK, NEW t \in Users, SeenRight(t), TestsTrue(t), fout <= fin
  PROVE  MustWait(t, fin, fout)
<1>1. seen[t] \in IndexView /\ fin \in Nat /\ fout \in Nat
  BY DEF TypeOK, Threads
<1> DEFINE v == seen[t].value
<1>2. v \in Nat
  BY <1>1 DEF IndexView
<1>3. CASE t \in Readers
  BY <1>1, <1>2, <1>3 DEF SeenRight, TestsTrue, MustWait, kfifo_is_empty
<1>4. CASE t \notin Readers
  BY <1>1, <1>2, <1>4, CapacityAssumption DEF SeenRight, TestsTrue, MustWait, kfifo_is_full
<1> QED
  BY <1>3, <1>4

LEMMA WakeBeforeTransfer ==
  ASSUME InductiveInvariant, WakeInv, NEW t \in Users, BeforeTransfer(t)
  PROVE  WakeInv'
<1>0. t \in Threads /\ TypeOK
  BY DEF Threads, InductiveInvariant
<1>m. ASSUME NEW from, NEW to, Goto(t, from, to),
             from \notin {"unlock", "wake", "reset2"}, to # "reset2",
             to \notin {"retest2", "asleep"} \/ SleepsRight(t)',
             UNCHANGED <<fin, fout, copied>>,
             \A u \in Threads \ {t} : seen'[u] = seen[u],
             \A u \in Users \ {t} : u \in waitQueue'[QueueOf(u)] => u \in waitQueue[QueueOf(u)]
      PROVE  WakeInv'
  <2>1. \A q : WillWake(q) \subseteq WillWake(q)'
    BY <1>0, <1>m, WakersKept
  <2> QED
    BY <1>0, <1>m, <2>1, OthersWait
<1>1. ASSUME NEW n \in 1 .. MaxLen, Call(t, n) PROVE WakeInv'
  BY <1>1, <1>m DEF Call, fifoVars
<1>2. CASE LoadIndex(t, "test1", "test2")
  <2>1. \A u \in Threads \ {t} : seen'[u] = seen[u]
    BY <1>0, <1>2 DEF LoadIndex, TypeOK
  <2> QED
    BY <1>2, <1>m, <2>1 DEF LoadIndex, fifoVars
<1>3. CASE LoadIndex(t, "retest1", "retest2")
  <2>1. /\ \A u \in Threads \ {t} : seen'[u] = seen[u]
        /\ \/ seen'[t] = [which |-> "in", value |-> fin]
           \/ seen'[t] = [which |-> "out", value |-> fout]
        /\ pc'[t] = "retest2" /\ pc[t] = "retest1" /\ UNCHANGED <<fin, fout>>
    BY <1>0, <1>3 DEF LoadIndex, Goto, TypeOK, fifoVars
  <2>2. CASE Resetting
    <3>1. PICK a \in Admins : pc[a] = "reset2"
      BY <2>2 DEF Resetting
    <3>2. pc'[a] = "reset2"
      BY <1>0, <1>3, <2>1, <3>1 DEF LoadIndex, Goto, TypeOK, Threads
    <3> QED
      BY <3>2 DEF WakeInv, Resetting
  <2>3. CASE ~Resetting
    <3>1. fout <= fin /\ fin \in Nat /\ fout \in Nat
      BY <2>3 DEF InductiveInvariant, WithinCapacity, TypeOK
    <3>2. SeenRight(t)'
      BY <2>1, <3>1 DEF SeenRight
    <3>3. SleepsRight(t)'
      BY <2>1, <3>2 DEF SleepsRight
    <3> QED
      BY <1>3, <1>m, <2>1, <3>3 DEF LoadIndex, fifoVars
  <2> QED
    BY <2>2, <2>3
<1>4. ASSUME NEW from \in {"test2", "retest2"}, TestPassed(t, from) PROVE WakeInv'
  <2>1. \A u \in Threads \ {t} : seen'[u] = seen[u]
    BY <1>0, <1>4 DEF TestPassed, TypeOK
  <2>2. \A u \in Users \ {t} : u \in waitQueue'[QueueOf(u)] => u \in waitQueue[QueueOf(u)]
    BY <1>0, <1>4, OwnQueue DEF TestPassed
  <2> QED
    BY <1>4, <1>m, <2>1, <2>2 DEF TestPassed, fifoVars
<1>5. CASE TestFailed(t, "test2", "prepare")
  <2>1. \A u \in Threads \ {t} : seen'[u] = seen[u]
    BY <1>0, <1>5 DEF TestFailed, TypeOK
  <2> QED
    BY <1>5, <1>m, <2>1 DEF TestFailed, fifoVars
<1>6. CASE TestFailed(t, "retest2", "asleep")
  <2>1. /\ \A u \in Threads \ {t} : seen'[u] = seen[u]
        /\ pc'[t] = "asleep" /\ pc[t] = "retest2" /\ UNCHANGED <<fin, fout, waitQueue>>
        /\ \A u \in Threads : pc'[u] = IF u = t THEN "asleep" ELSE pc[u]
        /\ UNCHANGED copied /\ TestsTrue(t)
    BY <1>0, <1>6 DEF TestFailed, Goto, TypeOK, fifoVars
  <2>2. (Resetting' <=> Resetting) /\ \A q : WillWake(q)' = WillWake(q)
    BY <2>1 DEF Resetting, WillWake, Threads
  <2>3. CASE ~Resetting /\ Waits(t)
    <3>1. SeenRight(t) /\ fout <= fin
      BY <2>1, <2>3 DEF WakeInv, SleepsRight, InductiveInvariant, WithinCapacity
    <3>2. MustWait(t, fin, fout)
      BY <1>0, <2>1, <3>1, SleepsOnlyIfMust
    <3>3. SleepsRight(t)'
      BY <2>1, <3>2 DEF SleepsRight, MustWait
    <3> QED
      BY <1>6, <1>m, <2>1, <3>3 DEF TestFailed
  <2>4. CASE Resetting
    BY <2>2, <2>4 DEF WakeInv
  <2>5. CASE ~Resetting /\ ~Waits(t)
    <3>1. ASSUME NEW u \in Users, Waits(u)' PROVE SleepsRight(u)'
      <4>1. Waits(u) /\ u # t
        BY <2>1, <2>2, <2>5, <3>1 DEF Waits
      <4>2. SleepsRight(u) /\ pc'[u] = pc[u] /\ seen'[u] = seen[u]
        BY <2>1, <2>5, <4>1 DEF WakeInv, Threads
      <4> QED
        BY <2>1, <4>2 DEF SleepsRight, SeenRight, MustWait
    <3> QED
      BY <3>1 DEF WakeInv
  <2> QED
    BY <2>3, <2>4, <2>5
<1>7. ASSUME WouldBlock(t) \/ Interrupted(t) PROVE WakeInv'
  <2>1. CASE WouldBlock(t)
    BY <1>0, <2>1, WakeReturn DEF WouldBlock
  <2>2. CASE Interrupted(t)
    <3>1. \A u \in Users \ {t} : u \in waitQueue'[QueueOf(u)] => u \in waitQueue[QueueOf(u)]
      BY <1>0, <2>2, OwnQueue DEF Interrupted
    <3> QED
      BY <1>0, <2>2, <3>1, WakeReturn DEF Interrupted
  <2> QED
    BY <1>7, <2>1, <2>2
<1>8. CASE PrepareToWait(t)
  <2>1. \A u \in Users \ {t} : u \in waitQueue'[QueueOf(u)] => u \in waitQueue[QueueOf(u)]
    BY <1>0, <1>8, OwnQueue DEF PrepareToWait
  <2> QED
    BY <1>8, <1>m, <2>1 DEF PrepareToWait, fifoVars, callVars
<1>9. ASSUME Awake(t) \/ Acquire(t, "lock", "copy") PROVE WakeInv'
  BY <1>9, <1>m DEF Awake, Acquire, fifoVars, callVars
<1> QED
  BY <1>1, <1>2, <1>3, <1>4, <1>5, <1>6, <1>7, <1>8, <1>9 DEF BeforeTransfer

(* A transfer or a reset touches no queue and no loaded index.             *)
LEMMA InPlace ==
  ASSUME TypeOK, NEW t \in Threads, NEW from, NEW to, Goto(t, from, to),
         from \notin {"unlock", "wake"}, to \notin {"retest2", "asleep"},
         UNCHANGED <<waitQueue, seen>>,
         \A u \in Threads \ {t} : copied'[u] = copied[u],
         NEW u \in Users, Waits(u)'
  PROVE  /\ Waits(u)
         /\ seen'[u] = seen[u]
         /\ pc'[u] \in {"retest2", "asleep"} => pc'[u] = pc[u]
<1>1. \A q : WillWake(q) \subseteq WillWake(q)'
  BY WakersKept
<1>2. pc'[u] = IF u = t THEN to ELSE pc[u]
  BY DEF TypeOK, Goto, Threads
<1> QED
  BY <1>1, <1>2 DEF Waits

(* Bytes put wake the readers, and a writer that must wait still must.     *)
LEMMA WakeAdvanceIn ==
  ASSUME OrderInv, WakeInv, NEW t \in Writers, AdvanceIn(t)
  PROVE  WakeInv'
<1>0. /\ t \in Threads /\ TypeOK /\ ~Resetting
      /\ fout' = fout /\ fin' = fin + copied[t]
      /\ fin \in Nat /\ fout \in Nat /\ copied[t] \in Nat
      /\ fout <= fin /\ fin - fout + copied[t] <= Capacity
  BY AdvanceInCounts
  DEF OrderInv, InductiveInvariant, WithinCapacity, TypeOK, Users, Threads
<1>1. /\ Goto(t, "publish", "unlock") /\ UNCHANGED <<waitQueue, seen, copied>>
  BY DEF AdvanceIn, callVars
<1>2. copied[t] > 0 => t \in WillWake("read")'
  BY <1>0, <1>1 DEF WillWake, Goto, TypeOK
<1>3. ASSUME NEW u \in Users, Waits(u)' PROVE SleepsRight(u)'
  <2>1. /\ Waits(u) /\ seen'[u] = seen[u]
        /\ pc'[u] \in {"retest2", "asleep"} => pc'[u] = pc[u]
    BY <1>0, <1>1, <1>3, InPlace
  <2>2. SleepsRight(u)
    BY <1>0, <2>1 DEF WakeInv
  <2>3. CASE u \in Readers
    <3>1. copied[t] = 0 /\ fin' = fin
      BY <1>0, <1>2, <1>3, <2>3 DEF Waits, QueueOf
    <3> QED
      BY <1>0, <2>1, <2>2, <3>1 DEF SleepsRight, SeenRight, MustWait
  <2>4. CASE u \notin Readers
    <3>1. pc'[u] = "retest2" => SeenRight(u)'
      <4>1. seen[u].value \in Nat
        BY <1>0 DEF TypeOK, IndexView, Threads
      <4> QED
        BY <1>0, <2>1, <2>2, <2>4, <4>1 DEF SleepsRight, SeenRight
    <3>2. pc'[u] = "asleep" => MustWait(u, fin', fout')
      BY <1>0, <2>1, <2>2, <2>4, CapacityAssumption
      DEF SleepsRight, MustWait, kfifo_is_full
    <3> QED
      BY <3>1, <3>2 DEF SleepsRight, MustWait
  <2> QED
    BY <2>3, <2>4
<1> QED
  BY <1>3 DEF WakeInv

(* Bytes taken wake the writers, and a reader that must wait still must.   *)
LEMMA WakeAdvanceOut ==
  ASSUME OrderInv, WakeInv, NEW t \in Readers, AdvanceOut(t)
  PROVE  WakeInv'
<1>0. /\ t \in Threads /\ TypeOK /\ ~Resetting
      /\ fin' = fin /\ fout' = fout + copied[t]
      /\ fin \in Nat /\ fout \in Nat /\ copied[t] \in 0 .. fin - fout
  BY AdvanceOutCounts DEF OrderInv, InductiveInvariant, TypeOK, Users, Threads
<1>1. /\ Goto(t, "publish", "unlock") /\ UNCHANGED <<waitQueue, seen, copied>>
  BY DEF AdvanceOut, callVars
<1>2. copied[t] > 0 => t \in WillWake("write")'
  BY <1>0, <1>1 DEF WillWake, Goto, TypeOK
<1>3. ASSUME NEW u \in Users, Waits(u)' PROVE SleepsRight(u)'
  <2>1. /\ Waits(u) /\ seen'[u] = seen[u]
        /\ pc'[u] \in {"retest2", "asleep"} => pc'[u] = pc[u]
    BY <1>0, <1>1, <1>3, InPlace
  <2>2. SleepsRight(u)
    BY <1>0, <2>1 DEF WakeInv
  <2>3. CASE u \notin Readers
    <3>1. copied[t] = 0 /\ fout' = fout
      BY <1>0, <1>2, <1>3, <2>3 DEF Waits, QueueOf
    <3> QED
      BY <1>0, <2>1, <2>2, <3>1 DEF SleepsRight, SeenRight, MustWait
  <2>4. CASE u \in Readers
    <3>1. fin = fout => fin' = fout'
      BY <1>0
    <3> QED
      BY <1>0, <2>1, <2>2, <2>4, <3>1
      DEF SleepsRight, SeenRight, MustWait, kfifo_is_empty
  <2> QED
    BY <2>3, <2>4
<1> QED
  BY <1>3 DEF WakeInv

(* After a reset readers must wait, and the writers will be woken.         *)
LEMMA WakeReset ==
  ASSUME OrderInv, WakeInv, NEW t \in Admins, ResetFirst(t) \/ ResetSecond(t)
  PROVE  WakeInv'
<1>0. t \in Threads /\ TypeOK
  BY DEF OrderInv, InductiveInvariant, Threads
<1>1. CASE ResetFirst(t)
  <2>1. Resetting'
    BY <1>1, ResetDrops
  <2> QED
    BY <2>1 DEF WakeInv
<1>2. CASE ResetSecond(t)
  <2>1. fin' = 0 /\ fout' = 0
    BY <1>2 DEF ResetSecond
  <2>2. t \in WillWake("write")'
    BY <1>0, <1>2 DEF ResetSecond, WillWake, Goto, TypeOK
  <2>3. ASSUME NEW u \in Users, Waits(u)' PROVE SleepsRight(u)'
    <3>1. u \in Readers
      BY <2>2, <2>3 DEF Waits, QueueOf
    <3> QED
      BY <2>1, <3>1 DEF SleepsRight, SeenRight, MustWait, kfifo_is_empty
  <2> QED
    BY <2>3 DEF WakeInv
<1> QED
  BY <1>1, <1>2

(* Whoever leaves after its wake-up has emptied the queue.                 *)
LEMMA WakeEmpties ==
  ASSUME TypeOK, WakeInv, NEW t \in Threads,
         \/ t \in Readers /\ Wake(t, "write")
         \/ t \in Writers /\ Wake(t, "read")
         \/ t \in Admins /\ WakeWriters(t)
  PROVE  WakeInv'
<1>1. /\ Goto(t, "wake", "idle") /\ UNCHANGED <<fin, fout>>
      /\ \A u \in Threads \ {t} : seen'[u] = seen[u] /\ copied'[u] = copied[u]
  BY DEF Wake, WakeWriters, Return, fifoVars, TypeOK
<1>2. \A u \in Users \ {t} : u \in waitQueue'[QueueOf(u)] => u \in waitQueue[QueueOf(u)]
  BY DEF Wake, WakeWriters, QueueOf, TypeOK
<1>3. \A u \in Threads \ {t} : pc'[u] = pc[u]
  BY <1>1 DEF Goto, TypeOK
<1>4. ASSUME NEW q \in {"read", "write"}, waitQueue'[q] # {}
      PROVE  WillWake(q) \subseteq WillWake(q)'
  <2>1. t \notin WillWake(q)
    BY <1>4, ThreadAssumption DEF Wake, WakeWriters, WillWake, TypeOK
  <2> QED
    BY <1>1, <1>3, <2>1 DEF WillWake
<1> QED
  BY <1>1, <1>2, <1>4, OthersWait

LEMMA WakeStep == OrderInv /\ WakeInv /\ [Next]_vars => WakeInv'
<1> SUFFICES ASSUME OrderInv, WakeInv, [Next]_vars PROVE WakeInv'
  OBVIOUS
<1>0. InductiveInvariant /\ TypeOK
  BY DEF OrderInv, InductiveInvariant
<1>1. CASE UNCHANGED vars
  BY <1>1
  DEF vars, fifoVars, callVars, WakeInv, Resetting, Waits, WillWake, SleepsRight,
      SeenRight, MustWait
<1>2. ASSUME NEW t \in Threads, NEW from, NEW to, Goto(t, from, to),
             from \notin {"wake", "reset2"}, to \notin {"retest2", "asleep", "reset2"},
             from = "unlock" => to = "wake" /\ UNCHANGED copied,
             UNCHANGED <<fin, fout, waitQueue, seen>>,
             \A u \in Threads \ {t} : copied'[u] = copied[u]
      PROVE  WakeInv'
  <2>1. \A q : WillWake(q) \subseteq WillWake(q)'
    BY <1>0, <1>2, WakersKept
  <2> QED
    BY <1>0, <1>2, <2>1, OthersWait
<1>3. ASSUME NEW t \in Threads,
             Release(t, "unlock", "wake") \/ Release(t, "release", "idle")
      PROVE  WakeInv'
  BY <1>2, <1>3 DEF Release, fifoVars, callVars
<1>4. ASSUME NEW t \in Threads, CopyOut(t) \/ CopyIn(t) PROVE WakeInv'
  <2>1. /\ Goto(t, "copy", "publish") /\ UNCHANGED <<fin, fout, waitQueue, seen>>
        /\ \A u \in Threads \ {t} : copied'[u] = copied[u]
    BY <1>0, <1>4 DEF CopyOut, CopyIn, fifoVars, TypeOK
  <2> QED
    BY <1>2, <2>1
<1>5. ASSUME NEW t \in Threads, AdminCall(t, "clear") \/ AdminCall(t, "resize")
             \/ Acquire(t, "clear", "reset1") \/ Acquire(t, "resize", "swap")
             \/ SwapBuffer(t)
      PROVE  WakeInv'
  BY <1>2, <1>5 DEF AdminCall, Acquire, SwapBuffer, fifoVars, callVars
<1>6. ASSUME NEW t \in Threads, Return(t, "resize"), UNCHANGED waitQueue
      PROVE  WakeInv'
  BY <1>0, <1>6, WakeReturn
<1>7. ASSUME NEW t \in Readers, dev_read(t) PROVE WakeInv'
  <2>1. t \in Threads /\ t \in Users
    BY DEF Threads, Users
  <2> QED
    BY <1>0, <1>3, <1>4, <1>7, <2>1, WakeBeforeTransfer, WakeAdvanceOut, WakeEmpties
    DEF dev_read
<1>8. ASSUME NEW t \in Writers, dev_write(t) PROVE WakeInv'
  <2>1. t \in Threads /\ t \in Users
    BY DEF Threads, Users
  <2> QED
    BY <1>0, <1>3, <1>4, <1>8, <2>1, WakeBeforeTransfer, WakeAdvanceIn, WakeEmpties
    DEF dev_write
<1>9. ASSUME NEW t \in Admins, clear_fifo_store(t) \/ set_buffer_size(t)
      PROVE  WakeInv'
  <2>1. t \in Threads
    BY DEF Threads
  <2> QED
    BY <1>0, <1>3, <1>5, <1>6, <1>9, <2>1, WakeReset, WakeEmpties
    DEF clear_fifo_store, set_buffer_size
<1> QED
  BY <1>1, <1>7, <1>8, <1>9 DEF Next

(* No wake-up is lost, for any number of readers, writers and              *)
(* administrators, although the tests load the indices without the mutex   *)
(* and the wake-up comes after the mutex was released.                     *)
THEOREM WakeupsArrive == Spec => []NoLostWakeup
<1>1. Init => WakeInv
  BY DEF Init, WakeInv, Waits, QueueOf
<1>2. WakeInv => NoLostWakeup
  BY DEF WakeInv, NoLostWakeup, Waits, SleepsRight
<1> QED
  BY <1>1, <1>2, WakeStep, OrderInit, OrderStep, PTL DEF Spec
=============================================================================
