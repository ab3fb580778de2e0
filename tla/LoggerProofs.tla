---------------------------- MODULE LoggerProofs ----------------------------
(***************************************************************************)
(* Machine-checked proofs about Logger, for any number of threads, files,  *)
(* calls and any size of the stream's buffer: records stay whole and are   *)
(* written once.                                                           *)
(***************************************************************************)
EXTENDS Logger, TLAPS

Records == [by : All, call : Nat, k : Nat \ {0}, last : BOOLEAN]

(* Where a thread has log_mutex.                                           *)
Holding == {"write", "flush", "unlock", "reopen", "close", "fork", "stuck", "after"}
Places == Holding \cup {"unborn", "idle", "lock", "register", "set", "initlock", "closelock", "dead"}

TypeOK ==
  /\ log_file \in [Processes -> Names \cup {None}]
  /\ buffer \in [Processes -> Seq(Records)] /\ disk \in [Names -> Seq(Records)]
  /\ log_mutex \in [Processes -> All \cup {None}]
  /\ pc \in [All -> Places]
  /\ calls \in [All -> Nat] /\ parts \in [All -> Nat]

(* Each process' mutex excludes: who is past it owns it.                   *)
MutexInv == \A t \in All : pc[t] \in Holding => log_mutex[Of(t)] = t

(* Nobody but a thread of the parent forks, and once.                      *)
ForkInv ==
  /\ pc[Child] \notin {"fork", "stuck"}
  /\ \A t \in All : pc[t] = "fork" => pc[Child] = "unborn"

(* t has parts of its record in the stream's buffer.                       *)
Filling(t) == pc[t] = "flush" \/ (pc[t] = "write" /\ parts[t] > 0)

(* A buffer is empty but while its process writes a record, whose latest   *)
(* part it ends with.                                                      *)
BufferInv ==
  /\ \A t \in All : pc[t] = "lock" => parts[t] = 0
  /\ \A p \in Processes : buffer[p] # << >> => \E t \in All : Of(t) = p /\ Filling(t)
  /\ \A t \in All : Filling(t) =>
       LET b == buffer[Of(t)]
       IN  /\ log_file[Of(t)] \in Names /\ b # << >>
           /\ pc[t] = "flush" => b[Len(b)].last
           /\ pc[t] = "write" => b[Len(b)] = [by |-> t, call |-> calls[t],
                                              k |-> parts[t], last |-> FALSE]

LockInv == TypeOK /\ MutexInv /\ ForkInv /\ BufferInv

-----------------------------------------------------------------------------
(* Records.                                                                *)

Whole(s) == \A i \in 1 .. Len(s) : Fits(s, i - 1, s[i])
Closed(s, p) == \A j \in 1 .. Len(s) : Latest(s, Len(s), p, j) => s[j].last
(* The parts in a buffer of p follow one another.                          *)
Chain(b, p) == \A i \in 1 .. Len(b) : Of(b[i].by) = p /\ (i > 1 => Follows(b[i - 1], b[i]))

RecordInv ==
  /\ \A f \in Names : Whole(disk[f])
  /\ \A p \in Processes : Chain(buffer[p], p)
  /\ \A p \in Processes : buffer[p] # << >> =>
       Fits(disk[log_file[p]], Len(disk[log_file[p]]), buffer[p][1])
  /\ \A f \in Names, p \in Processes :
       f # log_file[p] \/ buffer[p] = << >> => Closed(disk[f], p)

(* x is a part that its thread has written.                                *)
Earlier(x) == x.call < calls[x.by] \/ (x.call = calls[x.by] /\ x.k <= parts[x.by])

Distinct(d, b) ==
  /\ \A f, g \in Names : \A i \in 1 .. Len(d[f]), j \in 1 .. Len(d[g]) :
       d[f][i] = d[g][j] => f = g /\ i = j
  /\ \A p, q \in Processes : \A i \in 1 .. Len(b[p]), j \in 1 .. Len(b[q]) :
       b[p][i] = b[q][j] => p = q /\ i = j
  /\ \A f \in Names, p \in Processes : \A i \in 1 .. Len(d[f]), j \in 1 .. Len(b[p]) :
       d[f][i] # b[p][j]

OnceInv ==
  /\ Distinct(disk, buffer)
  /\ \A f \in Names : \A i \in 1 .. Len(disk[f]) : Earlier(disk[f][i])
  /\ \A p \in Processes : \A i \in 1 .. Len(buffer[p]) : Earlier(buffer[p][i])

-----------------------------------------------------------------------------
(* The mutex and the buffer.                                               *)

LEMMA NameFacts ==
  /\ Child \in All /\ Of(Child) = "child" /\ None \notin All /\ None \notin Names
  /\ \A t \in All : Of(t) \in Processes /\ (Of(t) = "child" <=> t = Child)
  BY NameAssumption, ThreadAssumption DEF All, Of, Processes

LEMMA OneHolder ==
  ASSUME LockInv, NEW t \in All, NEW u \in All, Of(t) = Of(u),
         pc[t] \in Holding, pc[u] \in Holding
  PROVE  t = u
  BY DEF LockInv, MutexInv

LEMMA FillingIs ==
  ASSUME LockInv, NEW t \in All
  PROVE  /\ Filling(t) => pc[t] \in Holding
         /\ pc[t] \in Holding /\ ~Filling(t) => buffer[Of(t)] = << >>
         /\ log_mutex[Of(t)] = None => buffer[Of(t)] = << >>
<1>1. \A u \in All : Filling(u) => pc[u] \in Holding
  BY DEF Filling, Holding
<1>2. ASSUME buffer[Of(t)] # << >> PROVE \E u \in All : Of(u) = Of(t) /\ Filling(u)
  BY <1>2, NameFacts DEF LockInv, BufferInv
<1>3. ASSUME pc[t] \in Holding, ~Filling(t) PROVE buffer[Of(t)] = << >>
  BY <1>1, <1>2, <1>3, OneHolder
<1>4. ASSUME log_mutex[Of(t)] = None PROVE buffer[Of(t)] = << >>
  BY <1>1, <1>2, <1>4, NameFacts DEF LockInv, MutexInv
<1> QED
  BY <1>1, <1>3, <1>4

(* A step that leaves the streams as they are, and who fills them.         *)
LEMMA BufferKept ==
  ASSUME BufferInv, UNCHANGED <<log_file, buffer>>,
         \A t \in All : pc'[t] = "lock" => parts'[t] = 0,
         \A t \in All : Filling(t)' <=> Filling(t),
         \A t \in All : Filling(t) => pc'[t] = pc[t] /\ calls'[t] = calls[t] /\ parts'[t] = parts[t]
  PROVE  BufferInv'
<1>1. \A p \in Processes : buffer'[p] # << >> => \E t \in All : Of(t) = p /\ Filling(t)'
  BY DEF BufferInv
<1>2. ASSUME NEW t \in All, Filling(t)'
      PROVE  LET b == buffer'[Of(t)]
             IN  /\ log_file'[Of(t)] \in Names /\ b # << >>
                 /\ pc'[t] = "flush" => b[Len(b)].last
                 /\ pc'[t] = "write" => b[Len(b)] = [by |-> t, call |-> calls'[t],
                                                     k |-> parts'[t], last |-> FALSE]
  BY <1>2 DEF BufferInv
<1> QED
  BY <1>1, <1>2 DEF BufferInv

(* Steps of a thread that has not got the mutex.                           *)
LEMMA LockQuiet ==
  ASSUME LockInv, NEW t \in All,
         \/ CheckFile(t) \/ TestRegistered(t) \/ Register(t) \/ SetRegistered(t)
         \/ (Call(t, "closelock") /\ UNCHANGED <<fileVars, log_mutex, forkVars, parts, error>>)
  PROVE  LockInv'
<1>1. /\ UNCHANGED <<log_file, buffer, disk, log_mutex>>
      /\ pc[t] \notin Holding /\ pc[t] # "unborn"
      /\ \E where \in Places \ (Holding \cup {"unborn"}) : pc' = [pc EXCEPT ![t] = where]
      /\ calls' = calls \/ calls' = [calls EXCEPT ![t] = calls[t] + 1]
      /\ (parts' = parts /\ pc'[t] # "lock") \/ parts' = [parts EXCEPT ![t] = 0]
  <2>1. CASE CheckFile(t)
    BY <2>1 DEF CheckFile, Call, Goto, Holding, Places, fileVars, LockInv, TypeOK
  <2>2. CASE TestRegistered(t)
    BY <2>2 DEF TestRegistered, Call, Goto, Holding, Places, fileVars, LockInv, TypeOK
  <2>3. CASE Register(t) \/ SetRegistered(t)
    BY <2>3 DEF Register, SetRegistered, Goto, Holding, Places, fileVars, LockInv, TypeOK
  <2>4. CASE Call(t, "closelock") /\ UNCHANGED <<fileVars, log_mutex, forkVars, parts, error>>
    BY <2>4 DEF Call, Goto, Holding, Places, fileVars, LockInv, TypeOK
  <2> QED
    BY <2>1, <2>2, <2>3, <2>4
<1>2. PICK where \in Places \ (Holding \cup {"unborn"}) : pc' = [pc EXCEPT ![t] = where]
  BY <1>1
<1>3. /\ TypeOK' /\ pc'[t] = where
      /\ \A u \in All \ {t} : pc'[u] = pc[u] /\ calls'[u] = calls[u] /\ parts'[u] = parts[u]
  <2>1. /\ pc \in [All -> Places] /\ calls \in [All -> Nat] /\ parts \in [All -> Nat]
        /\ calls[t] + 1 \in Nat
    BY DEF LockInv, TypeOK
  <2>2. calls' \in [All -> Nat] /\ \A u \in All \ {t} : calls'[u] = calls[u]
    BY <1>1, <2>1
  <2>3. parts' \in [All -> Nat] /\ \A u \in All \ {t} : parts'[u] = parts[u]
    BY <1>1, <2>1
  <2>4. pc' \in [All -> Places] /\ pc'[t] = where /\ \A u \in All \ {t} : pc'[u] = pc[u]
    BY <1>2, <2>1
  <2> QED
    BY <1>1, <2>2, <2>3, <2>4 DEF LockInv, TypeOK
<1>4. MutexInv'
  BY <1>1, <1>2, <1>3 DEF LockInv, MutexInv
<1>5. ForkInv'
  BY <1>1, <1>2, <1>3 DEF LockInv, ForkInv, Holding
<1>6. BufferInv'
  <2>1. ~Filling(t) /\ ~Filling(t)'
    BY <1>1, <1>2, <1>3 DEF Filling, Holding
  <2>2. \A u \in All : Filling(u)' <=> Filling(u)
    BY <1>3, <2>1 DEF Filling
  <2>3. \A u \in All : pc'[u] = "lock" => parts'[u] = 0
    BY <1>1, <1>3 DEF LockInv, TypeOK, BufferInv
  <2> QED
    BY <1>1, <1>3, <2>1, <2>2, <2>3, BufferKept DEF LockInv
<1> QED
  BY <1>3, <1>4, <1>5, <1>6 DEF LockInv

LEMMA LockTaken ==
  ASSUME LockInv, NEW t \in All,
         \/ Lock(t, "lock", "write") \/ Lock(t, "initlock", "reopen")
         \/ Lock(t, "closelock", "close") \/ Prepare(t)
  PROVE  LockInv'
<1>1. PICK where \in {"write", "reopen", "close", "fork", "stuck"} :
        /\ UNCHANGED <<log_file, buffer, disk, parts>>
        /\ pc[t] \notin Holding /\ pc[t] # "unborn" /\ pc' = [pc EXCEPT ![t] = where]
        /\ log_mutex[Of(t)] = None /\ log_mutex' = [log_mutex EXCEPT ![Of(t)] = t]
        /\ calls' = calls \/ calls' = [calls EXCEPT ![t] = calls[t] + 1]
        /\ where = "write" => pc[t] = "lock"
        /\ where \in {"fork", "stuck"} => t # Child /\ pc[Child] = "unborn"
  <2>1. CASE Lock(t, "lock", "write")
    BY <2>1 DEF Lock, Goto, Holding, fileVars
  <2>2. CASE Lock(t, "initlock", "reopen")
    BY <2>2 DEF Lock, Goto, Holding, fileVars
  <2>3. CASE Lock(t, "closelock", "close")
    BY <2>3 DEF Lock, Goto, Holding, fileVars
  <2>4. CASE Prepare(t)
    <3>1. pc[t] = "idle" /\ pc[Child] = "unborn" /\ t # Child /\ Of(t) = "parent"
      BY <2>4, NameFacts DEF Prepare, Call, Goto, Of
    <3>2. PICK where \in {"fork", "stuck"} : pc' = [pc EXCEPT ![t] = where]
      BY <2>4 DEF Prepare, Call, Goto
    <3> QED
      BY <2>4, <3>1, <3>2 DEF Prepare, Call, Goto, Holding, fileVars
  <2> QED
    BY <2>1, <2>2, <2>3, <2>4
<1>2. /\ TypeOK' /\ pc'[t] = where /\ log_mutex'[Of(t)] = t /\ Of(t) \in Processes
      /\ \A u \in All \ {t} : pc'[u] = pc[u] /\ calls'[u] = calls[u]
      /\ \A p \in Processes \ {Of(t)} : log_mutex'[p] = log_mutex[p]
  <2>1. /\ pc \in [All -> Places] /\ calls \in [All -> Nat] /\ calls[t] + 1 \in Nat
        /\ log_mutex \in [Processes -> All \cup {None}] /\ Of(t) \in Processes
        /\ where \in Places
    BY NameFacts DEF LockInv, TypeOK, Places, Holding
  <2>2. calls' \in [All -> Nat] /\ \A u \in All \ {t} : calls'[u] = calls[u]
    BY <1>1, <2>1
  <2>3. /\ log_mutex' \in [Processes -> All \cup {None}] /\ log_mutex'[Of(t)] = t
        /\ \A p \in Processes \ {Of(t)} : log_mutex'[p] = log_mutex[p]
    BY <1>1, <2>1
  <2>4. pc' \in [All -> Places] /\ pc'[t] = where /\ \A u \in All \ {t} : pc'[u] = pc[u]
    BY <1>1, <2>1
  <2> QED
    BY <1>1, <2>1, <2>2, <2>3, <2>4 DEF LockInv, TypeOK
<1>3. MutexInv'
  <2>1. ASSUME NEW u \in All, pc'[u] \in Holding PROVE log_mutex'[Of(u)] = u
    <3>1. CASE u = t
      BY <1>2, <3>1
    <3>2. CASE u # t
      <4>1. log_mutex[Of(u)] = u /\ u # None
        BY <1>2, <2>1, <3>2, NameFacts DEF LockInv, MutexInv
      <4> QED
        BY <1>1, <1>2, <4>1, NameFacts
    <3> QED
      BY <3>1, <3>2
  <2> QED
    BY <2>1 DEF MutexInv
<1>4. ForkInv'
  <2>1. pc'[Child] = pc[Child] \/ t = Child
    BY <1>2, NameFacts
  <2> QED
    BY <1>1, <1>2, <2>1, NameFacts DEF LockInv, ForkInv
<1>5. BufferInv'
  <2>1. ~Filling(t)
    BY <1>1 DEF Filling, Holding
  <2>2. ~Filling(t)'
    <3>1. CASE where = "write"
      <4>1. parts[t] = 0
        BY <1>1, <3>1 DEF LockInv, BufferInv
      <4> QED
        BY <1>1, <1>2, <3>1, <4>1 DEF Filling
    <3>2. CASE where # "write"
      BY <1>1, <1>2, <3>2 DEF Filling
    <3> QED
      BY <3>1, <3>2
  <2>3. \A u \in All : Filling(u)' <=> Filling(u)
    BY <1>1, <1>2, <2>1, <2>2 DEF Filling
  <2>4. \A u \in All : pc'[u] = "lock" => parts'[u] = 0
    BY <1>1, <1>2 DEF LockInv, BufferInv
  <2> QED
    BY <1>1, <1>2, <2>1, <2>3, <2>4, BufferKept DEF LockInv
<1> QED
  BY <1>2, <1>3, <1>4, <1>5 DEF LockInv

LEMMA LockReleased ==
  ASSUME LockInv, NEW t \in All, Unlock(t, "unlock") \/ Unlock(t, "after")
  PROVE  LockInv'
<1>1. /\ pc[t] \in {"unlock", "after"} /\ pc' = [pc EXCEPT ![t] = "idle"]
      /\ log_mutex' = [log_mutex EXCEPT ![Of(t)] = None]
      /\ UNCHANGED <<log_file, buffer, disk, calls, parts>>
  BY DEF Unlock, Goto, fileVars
<1>2. /\ TypeOK' /\ pc'[t] = "idle" /\ \A u \in All \ {t} : pc'[u] = pc[u]
      /\ \A p \in Processes \ {Of(t)} : log_mutex'[p] = log_mutex[p]
  BY <1>1 DEF LockInv, TypeOK, Places
<1>3. MutexInv'
  <2>1. ASSUME NEW u \in All, pc'[u] \in Holding PROVE log_mutex'[Of(u)] = u
    <3>1. u # t /\ pc[u] \in Holding
      BY <1>2, <2>1 DEF Holding
    <3>2. Of(u) # Of(t)
      BY <1>1, <3>1, OneHolder DEF Holding
    <3> QED
      BY <1>2, <3>1, <3>2, NameFacts DEF LockInv, MutexInv
  <2> QED
    BY <2>1 DEF MutexInv
<1>4. ForkInv'
  BY <1>1, <1>2, NameFacts DEF LockInv, ForkInv
<1>5. BufferInv'
  <2>1. \A u \in All : Filling(u)' <=> Filling(u)
    BY <1>1, <1>2 DEF Filling
  <2>2. ~Filling(t)
    BY <1>1 DEF Filling
  <2>3. \A u \in All : pc'[u] = "lock" => parts'[u] = 0
    BY <1>1, <1>2 DEF LockInv, BufferInv
  <2> QED
    BY <1>1, <1>2, <2>1, <2>2, <2>3, BufferKept DEF LockInv
<1> QED
  BY <1>2, <1>3, <1>4, <1>5 DEF LockInv

LEMMA ConcatFacts ==
  ASSUME NEW S, NEW a \in Seq(S), NEW b \in Seq(S)
  PROVE  /\ a \o b \in Seq(S) /\ Len(a \o b) = Len(a) + Len(b)
         /\ Len(a) \in Nat /\ Len(b) \in Nat
         /\ \A i \in 1 .. Len(a) + Len(b) :
              (a \o b)[i] = IF i <= Len(a) THEN a[i] ELSE b[i - Len(a)]
  OBVIOUS

LEMMA AppendFacts ==
  ASSUME NEW S, NEW s \in Seq(S), NEW x \in S
  PROVE  /\ s \o <<x>> \in Seq(S) /\ Len(s \o <<x>>) = Len(s) + 1 /\ Len(s) \in Nat
         /\ s \o <<x>> # << >> /\ (s \o <<x>>)[Len(s) + 1] = x
         /\ \A i \in 1 .. Len(s) : (s \o <<x>>)[i] = s[i]
         /\ s # << >> <=> Len(s) > 0
         /\ << >> \o <<x>> = <<x>> /\ <<x>> \in Seq(S) /\ Len(<<x>>) = 1 /\ <<x>>[1] = x
         /\ s \o << >> = s
  OBVIOUS

(* A part of a record: where it goes, and what comes next.                 *)
LEMMA WriteIs ==
  ASSUME LockInv, NEW t \in All, Write(t)
  PROVE  \E x \in Records :
           /\ x = [by |-> t, call |-> calls[t], k |-> parts[t] + 1, last |-> x.last]
           /\ x.last \in BOOLEAN
           /\ log_file[Of(t)] \in Names /\ pc[t] = "write" /\ Of(t) \in Processes
           /\ pc' = [pc EXCEPT ![t] = IF x.last THEN "flush" ELSE "write"]
           /\ parts' = [parts EXCEPT ![t] = parts[t] + 1]
           /\ UNCHANGED <<log_file, log_mutex, calls>>
           /\ parts[t] = 0 => buffer[Of(t)] = << >>
           /\ \/ /\ buffer' = [buffer EXCEPT ![Of(t)] = buffer[Of(t)] \o <<x>>]
                 /\ disk' = disk
              \/ /\ buffer' = [buffer EXCEPT ![Of(t)] = << >> \o <<x>>]
                 /\ buffer[Of(t)] # << >> /\ parts[t] > 0
                 /\ disk' = [disk EXCEPT ![log_file[Of(t)]] =
                               disk[log_file[Of(t)]] \o buffer[Of(t)]]
<1>1. PICK x : x = [by |-> t, call |-> calls[t], k |-> parts[t] + 1,
                    last |-> parts[t] + 1 = PartsOf(t)]
  OBVIOUS
<1>2. /\ x \in Records /\ x.last \in BOOLEAN /\ x.last = (parts[t] + 1 = PartsOf(t))
      /\ x = [by |-> t, call |-> calls[t], k |-> parts[t] + 1, last |-> x.last]
  <2>1. calls[t] \in Nat /\ parts[t] + 1 \in Nat \ {0}
    BY DEF LockInv, TypeOK
  <2> QED
    BY <1>1, <2>1 DEF Records
<1>3. /\ pc[t] = "write" /\ log_file[Of(t)] \in Names /\ Of(t) \in Processes
      /\ buffer[Of(t)] \in Seq(Records) /\ parts[t] \in Nat
  BY NameFacts DEF Write, Goto, LockInv, TypeOK
<1>4. parts[t] = 0 => buffer[Of(t)] = << >>
  <2>1. parts[t] = 0 => ~Filling(t)
    BY <1>3 DEF Filling
  <2> QED
    BY <1>3, <2>1, FillingIs DEF Holding
<1>5. Len(buffer[Of(t)]) = BufferParts => buffer[Of(t)] # << >> /\ parts[t] > 0
  BY <1>3, <1>4, ThreadAssumption
<1>6. /\ pc' = [pc EXCEPT ![t] = IF x.last THEN "flush" ELSE "write"]
      /\ parts' = [parts EXCEPT ![t] = parts[t] + 1]
      /\ UNCHANGED <<log_file, log_mutex, calls>>
  BY <1>1, <1>2 DEF Write, Goto
<1>7. CASE Len(buffer[Of(t)]) = BufferParts
  <2>1. /\ buffer' = [buffer EXCEPT ![Of(t)] = << >> \o <<x>>]
        /\ disk' = [disk EXCEPT ![log_file[Of(t)]] = disk[log_file[Of(t)]] \o buffer[Of(t)]]
    BY <1>1, <1>7 DEF Write
  <2> QED
    BY <1>2, <1>3, <1>4, <1>5, <1>6, <1>7, <2>1
<1>8. CASE Len(buffer[Of(t)]) # BufferParts
  <2>1. buffer' = [buffer EXCEPT ![Of(t)] = buffer[Of(t)] \o <<x>>] /\ disk' = disk
    BY <1>1, <1>8 DEF Write
  <2> QED
    BY <1>2, <1>3, <1>4, <1>6, <2>1
<1> QED
  BY <1>7, <1>8

LEMMA LockWrite ==
  ASSUME LockInv, NEW t \in All, Write(t)
  PROVE  LockInv'
<1>1. PICK x \in Records :
        /\ x = [by |-> t, call |-> calls[t], k |-> parts[t] + 1, last |-> x.last]
        /\ x.last \in BOOLEAN
        /\ log_file[Of(t)] \in Names /\ pc[t] = "write" /\ Of(t) \in Processes
        /\ pc' = [pc EXCEPT ![t] = IF x.last THEN "flush" ELSE "write"]
        /\ parts' = [parts EXCEPT ![t] = parts[t] + 1]
        /\ UNCHANGED <<log_file, log_mutex, calls>>
        /\ \/ /\ buffer' = [buffer EXCEPT ![Of(t)] = buffer[Of(t)] \o <<x>>]
              /\ disk' = disk
           \/ /\ buffer' = [buffer EXCEPT ![Of(t)] = << >> \o <<x>>]
              /\ disk' = [disk EXCEPT ![log_file[Of(t)]] =
                            disk[log_file[Of(t)]] \o buffer[Of(t)]]
  BY WriteIs
<1>2. PICK b \in Seq(Records) : buffer' = [buffer EXCEPT ![Of(t)] = b \o <<x>>]
  <2>1. buffer[Of(t)] \in Seq(Records) /\ << >> \in Seq(Records)
    BY <1>1 DEF LockInv, TypeOK
  <2> QED
    BY <1>1, <2>1
<1>3. /\ buffer' \in [Processes -> Seq(Records)] /\ buffer'[Of(t)] # << >>
      /\ buffer'[Of(t)][Len(buffer'[Of(t)])] = x
      /\ \A p \in Processes \ {Of(t)} : buffer'[p] = buffer[p]
  <2>1. b \o <<x>> \in Seq(Records) /\ b \o <<x>> # << >> /\ (b \o <<x>>)[Len(b \o <<x>>)] = x
    BY AppendFacts
  <2>2. /\ buffer \in [Processes -> Seq(Records)] /\ buffer'[Of(t)] = b \o <<x>>
        /\ \A p \in Processes \ {Of(t)} : buffer'[p] = buffer[p]
    BY <1>1, <1>2 DEF LockInv, TypeOK
  <2> QED
    BY <1>2, <2>1, <2>2
<1>4. disk' \in [Names -> Seq(Records)]
  <2>1. /\ disk \in [Names -> Seq(Records)] /\ buffer[Of(t)] \in Seq(Records)
        /\ disk[log_file[Of(t)]] \in Seq(Records)
    BY <1>1 DEF LockInv, TypeOK
  <2>2. disk[log_file[Of(t)]] \o buffer[Of(t)] \in Seq(Records)
    BY <2>1, ConcatFacts
  <2> QED
    BY <1>1, <2>1, <2>2
<1>5. /\ pc'[t] = (IF x.last THEN "flush" ELSE "write") /\ parts'[t] = parts[t] + 1
      /\ \A u \in All \ {t} : pc'[u] = pc[u] /\ parts'[u] = parts[u]
      /\ parts[t] \in Nat
  BY <1>1 DEF LockInv, TypeOK
<1>6. TypeOK'
  BY <1>1, <1>3, <1>4, <1>5 DEF LockInv, TypeOK, Places, Holding
<1>7. MutexInv' /\ ForkInv'
  BY <1>1, <1>5, NameFacts DEF LockInv, MutexInv, ForkInv, Holding
<1>8. BufferInv'
  <2>1. Filling(t)' /\ \A u \in All \ {t} : Filling(u)' <=> Filling(u)
    BY <1>5 DEF Filling
  <2>2. \A u \in All : pc'[u] = "lock" => parts'[u] = 0
    BY <1>5 DEF LockInv, BufferInv
  <2>3. ASSUME NEW p \in Processes, buffer'[p] # << >>
        PROVE  \E u \in All : Of(u) = p /\ Filling(u)'
    <3>1. CASE p = Of(t)
      BY <2>1, <3>1
    <3>2. CASE p # Of(t)
      BY <1>3, <2>1, <2>3, <3>2 DEF LockInv, BufferInv
    <3> QED
      BY <3>1, <3>2
  <2>4. ASSUME NEW u \in All, Filling(u)'
        PROVE  LET s == buffer'[Of(u)]
               IN  /\ log_file'[Of(u)] \in Names /\ s # << >>
                   /\ pc'[u] = "flush" => s[Len(s)].last
                   /\ pc'[u] = "write" => s[Len(s)] = [by |-> u, call |-> calls'[u],
                                                       k |-> parts'[u], last |-> FALSE]
    <3>1. CASE u = t
      <4>1. /\ log_file'[Of(t)] \in Names /\ buffer'[Of(t)] # << >>
            /\ buffer'[Of(t)][Len(buffer'[Of(t)])] = x
        BY <1>1, <1>3
      <4>2. /\ pc'[t] = "flush" => x.last
            /\ pc'[t] = "write" => x.last = FALSE
        BY <1>1, <1>5
      <4>3. x = [by |-> t, call |-> calls'[t], k |-> parts'[t], last |-> x.last]
        BY <1>1, <1>5
      <4>4. pc'[t] = "write" => x = [by |-> t, call |-> calls'[t], k |-> parts'[t], last |-> FALSE]
        BY <4>2, <4>3
      <4> QED
        BY <3>1, <4>1, <4>2, <4>4
    <3>2. CASE u # t
      <4>1. Filling(u) /\ Of(u) # Of(t) /\ Of(u) \in Processes
        <5>1. Filling(u)
          BY <2>1, <2>4, <3>2
        <5> QED
          BY <1>1, <3>2, <5>1, NameFacts, OneHolder DEF Filling, Holding
      <4>2. /\ buffer'[Of(u)] = buffer[Of(u)] /\ log_file'[Of(u)] = log_file[Of(u)]
            /\ pc'[u] = pc[u] /\ calls'[u] = calls[u] /\ parts'[u] = parts[u]
        BY <1>1, <1>3, <1>5, <3>2, <4>1
      <4>3. LET s == buffer[Of(u)]
            IN  /\ log_file[Of(u)] \in Names /\ s # << >>
                /\ pc[u] = "flush" => s[Len(s)].last
                /\ pc[u] = "write" => s[Len(s)] = [by |-> u, call |-> calls[u],
                                                   k |-> parts[u], last |-> FALSE]
        BY <4>1 DEF LockInv, BufferInv
      <4> QED
        BY <4>2, <4>3
    <3> QED
      BY <3>1, <3>2
  <2> QED
    BY <2>2, <2>3, <2>4 DEF BufferInv
<1> QED
  BY <1>6, <1>7, <1>8 DEF LockInv

(* When a buffer is emptied, its thread has nothing in it.                 *)
LEMMA LockEmptied ==
  ASSUME LockInv, NEW t \in All, pc[t] \in Holding,
         NEW where \in {"unlock"}, pc' = [pc EXCEPT ![t] = where],
         buffer' = [buffer EXCEPT ![Of(t)] = << >>],
         \A p \in Processes \ {Of(t)} : log_file'[p] = log_file[p],
         log_file' \in [Processes -> Names \cup {None}], disk' \in [Names -> Seq(Records)],
         UNCHANGED <<log_mutex, calls, parts>>
  PROVE  LockInv'
<1>1. /\ pc'[t] = "unlock" /\ \A u \in All \ {t} : pc'[u] = pc[u]
      /\ buffer' \in [Processes -> Seq(Records)] /\ buffer'[Of(t)] = << >>
      /\ \A p \in Processes \ {Of(t)} : buffer'[p] = buffer[p]
  <2>1. /\ buffer \in [Processes -> Seq(Records)] /\ << >> \in Seq(Records)
        /\ pc \in [All -> Places] /\ Of(t) \in Processes
    BY NameFacts DEF LockInv, TypeOK
  <2> QED
    BY <2>1
<1>2. TypeOK'
  BY <1>1 DEF LockInv, TypeOK, Places, Holding
<1>3. MutexInv' /\ ForkInv'
  BY <1>1, NameFacts DEF LockInv, MutexInv, ForkInv, Holding
<1>4. BufferInv'
  <2>1. ~Filling(t)' /\ \A u \in All \ {t} : Filling(u)' <=> Filling(u)
    BY <1>1 DEF Filling
  <2>2. \A u \in All : pc'[u] = "lock" => parts'[u] = 0
    BY <1>1 DEF LockInv, BufferInv
  <2>3. ASSUME NEW p \in Processes, buffer'[p] # << >>
        PROVE  \E u \in All : Of(u) = p /\ Filling(u)'
    <3>1. p # Of(t)
      BY <1>1, <2>3
    <3> QED
      BY <1>1, <2>1, <2>3, <3>1 DEF LockInv, BufferInv
  <2>4. ASSUME NEW u \in All, Filling(u)'
        PROVE  LET s == buffer'[Of(u)]
               IN  /\ log_file'[Of(u)] \in Names /\ s # << >>
                   /\ pc'[u] = "flush" => s[Len(s)].last
                   /\ pc'[u] = "write" => s[Len(s)] = [by |-> u, call |-> calls'[u],
                                                       k |-> parts'[u], last |-> FALSE]
    <3>1. u # t /\ Filling(u)
      BY <2>1, <2>4
    <3>2. Of(u) # Of(t) /\ Of(u) \in Processes
      BY <3>1, NameFacts, OneHolder DEF Filling, Holding
    <3> QED
      BY <1>1, <3>1, <3>2 DEF LockInv, BufferInv
  <2> QED
    BY <2>2, <2>3, <2>4 DEF BufferInv
<1> QED
  BY <1>2, <1>3, <1>4 DEF LockInv

LEMMA FlushIs ==
  ASSUME LockInv, NEW t \in All, Flush(t)
  PROVE  /\ log_file[Of(t)] \in Names /\ buffer[Of(t)] # << >> /\ Of(t) \in Processes
         /\ buffer[Of(t)][Len(buffer[Of(t)])].last
         /\ pc[t] = "flush" /\ pc' = [pc EXCEPT ![t] = "unlock"]
         /\ disk' = [disk EXCEPT ![log_file[Of(t)]] = disk[log_file[Of(t)]] \o buffer[Of(t)]]
         /\ buffer' = [buffer EXCEPT ![Of(t)] = << >>]
         /\ UNCHANGED <<log_file, log_mutex, calls, parts>>
  BY NameFacts DEF Flush, Goto, LockInv, BufferInv, Filling

(* Whoever closes or changes a file finds the buffer empty.                *)
LEMMA SetFileIs ==
  ASSUME LockInv, NEW t \in All, Reopen(t) \/ SetFile(t, "close", None)
  PROVE  /\ pc[t] \in {"reopen", "close"} /\ pc' = [pc EXCEPT ![t] = "unlock"]
         /\ buffer[Of(t)] = << >> /\ Of(t) \in Processes
         /\ \E name \in Names \cup {None} : log_file' = [log_file EXCEPT ![Of(t)] = name]
         /\ buffer' = buffer /\ disk' = disk
         /\ UNCHANGED <<log_mutex, calls, parts>>
<1>1. PICK from \in {"reopen", "close"}, name \in Names \cup {None} : SetFile(t, from, name)
  BY DEF Reopen
<1>2. pc[t] = from
  BY <1>1 DEF SetFile, Goto
<1>3. buffer[Of(t)] = << >> /\ Of(t) \in Processes
  BY <1>2, FillingIs, NameFacts DEF Filling, Holding
<1>4. buffer' = buffer /\ disk' = disk
  <2>1. /\ buffer \in [Processes -> Seq(Records)] /\ disk \in [Names -> Seq(Records)]
        /\ log_file[Of(t)] \in Names \cup {None}
    BY <1>3 DEF LockInv, TypeOK
  <2>2. \A s \in Seq(Records) : s \o << >> = s
    OBVIOUS
  <2>3. buffer' = [buffer EXCEPT ![Of(t)] = << >>]
    BY <1>1 DEF SetFile
  <2>4. disk' = IF log_file[Of(t)] = None THEN disk
                ELSE [disk EXCEPT ![log_file[Of(t)]] = disk[log_file[Of(t)]] \o buffer[Of(t)]]
    BY <1>1 DEF SetFile
  <2> QED
    BY <1>3, <2>1, <2>2, <2>3, <2>4
<1> QED
  BY <1>1, <1>2, <1>3, <1>4 DEF SetFile, Goto

LEMMA LockFiles ==
  ASSUME LockInv, NEW t \in All, Flush(t) \/ Reopen(t) \/ SetFile(t, "close", None)
  PROVE  LockInv'
<1>1. CASE Flush(t)
  <2>1. disk[log_file[Of(t)]] \o buffer[Of(t)] \in Seq(Records)
    <3>1. disk[log_file[Of(t)]] \in Seq(Records) /\ buffer[Of(t)] \in Seq(Records)
      BY <1>1, FlushIs DEF LockInv, TypeOK
    <3> QED
      BY <3>1, ConcatFacts
  <2>2. disk' \in [Names -> Seq(Records)] /\ log_file' \in [Processes -> Names \cup {None}]
    BY <1>1, <2>1, FlushIs DEF LockInv, TypeOK
  <2> QED
    BY <1>1, <2>2, FlushIs, LockEmptied DEF Holding
<1>2. CASE Reopen(t) \/ SetFile(t, "close", None)
  <2>1. buffer' = [buffer EXCEPT ![Of(t)] = << >>]
    BY <1>2, SetFileIs DEF LockInv, TypeOK
  <2>2. /\ disk' \in [Names -> Seq(Records)] /\ log_file' \in [Processes -> Names \cup {None}]
        /\ \A p \in Processes \ {Of(t)} : log_file'[p] = log_file[p]
    <3>1. disk' = disk /\ Of(t) \in Processes
      BY <1>2, SetFileIs
    <3>2. PICK name \in Names \cup {None} : log_file' = [log_file EXCEPT ![Of(t)] = name]
      BY <1>2, SetFileIs
    <3> QED
      BY <3>1, <3>2 DEF LockInv, TypeOK
  <2> QED
    BY <1>2, <2>1, <2>2, SetFileIs, LockEmptied DEF Holding
<1> QED
  BY <1>1, <1>2

(* The process dies, and nobody in it holds anything any more.             *)
LEMMA LockCrash ==
  ASSUME LockInv, NEW t \in All, Crash(t)
  PROVE  LockInv'
<1>1. /\ pc[t] = "write" /\ log_file[Of(t)] = None
      /\ pc' = [u \in All |-> IF Of(u) = Of(t) THEN "dead" ELSE pc[u]]
      /\ UNCHANGED <<log_file, buffer, disk, log_mutex, calls, parts>>
  BY DEF Crash, fileVars
<1>2. /\ \A u \in All : Of(u) = Of(t) => pc'[u] = "dead"
      /\ \A u \in All : Of(u) # Of(t) => pc'[u] = pc[u]
      /\ pc' \in [All -> Places]
  BY <1>1 DEF LockInv, TypeOK, Places
<1>3. \A u \in All : Of(u) = Of(t) => ~Filling(u) /\ ~Filling(u)'
  <2>1. ASSUME NEW u \in All, Of(u) = Of(t), Filling(u) PROVE FALSE
    BY <1>1, <2>1, NameFacts DEF LockInv, BufferInv
  <2> QED
    BY <1>2, <2>1 DEF Filling
<1>4. MutexInv' /\ ForkInv'
  <2>1. pc[Child] = "unborn" => Of(t) # "child"
    BY <1>1, NameFacts
  <2> QED
    BY <1>1, <1>2, <2>1, NameFacts DEF LockInv, MutexInv, ForkInv, Holding
<1>5. BufferInv'
  <2>1. \A u \in All : Filling(u)' <=> Filling(u)
    BY <1>1, <1>2, <1>3 DEF Filling
  <2>2. \A u \in All : pc'[u] = "lock" => parts'[u] = 0
    BY <1>1, <1>2 DEF LockInv, BufferInv
  <2> QED
    BY <1>1, <1>2, <1>3, <2>1, <2>2, BufferKept DEF LockInv
<1> QED
  BY <1>1, <1>2, <1>4, <1>5 DEF LockInv, TypeOK

(* fork: the child starts with an empty buffer and owns its mutex.         *)
LEMMA DuplicateIs ==
  ASSUME LockInv, NEW t \in All, Duplicate(t)
  PROVE  /\ pc[t] = "fork" /\ pc[Child] = "unborn" /\ t # Child /\ Of(t) = "parent"
         /\ pc' = [pc EXCEPT ![t] = "after", ![Child] = "after"]
         /\ buffer["parent"] = << >> /\ buffer["child"] = << >> /\ buffer' = buffer
         /\ log_file' = [log_file EXCEPT !["child"] = log_file["parent"]]
         /\ log_mutex' = [log_mutex EXCEPT !["child"] = Child]
         /\ UNCHANGED <<disk, calls, parts>>
<1>1. pc[t] = "fork" /\ pc[Child] = "unborn" /\ t # Child /\ Of(t) = "parent"
  BY NameFacts DEF Duplicate, LockInv, ForkInv, Processes
<1>2. buffer["parent"] = << >> /\ log_mutex["parent"] = t
  BY <1>1, FillingIs DEF Filling, Holding, LockInv, MutexInv
<1>3. buffer["child"] = << >>
  <2>1. "child" \in Processes /\ \A u \in All : Of(u) = "child" => ~Filling(u)
    BY <1>1, NameFacts DEF Filling, Processes
  <2> QED
    BY <2>1 DEF LockInv, BufferInv
<1>4. buffer' = buffer
  BY <1>2, <1>3 DEF Duplicate, LockInv, TypeOK
<1> QED
  BY <1>1, <1>2, <1>3, <1>4 DEF Duplicate

LEMMA LockDuplicate ==
  ASSUME LockInv, NEW t \in All, Duplicate(t)
  PROVE  LockInv'
<1>1. /\ pc'[t] = "after" /\ pc'[Child] = "after" /\ pc' \in [All -> Places]
      /\ \A u \in All \ {t, Child} : pc'[u] = pc[u]
  <2>1. pc \in [All -> Places] /\ Child \in All /\ "after" \in Places
    BY NameFacts DEF LockInv, TypeOK, Places, Holding
  <2>2. pc' = [pc EXCEPT ![t] = "after", ![Child] = "after"]
    BY DuplicateIs
  <2> QED
    BY <2>1, <2>2
<1>2. /\ log_mutex'["child"] = Child /\ log_mutex'["parent"] = log_mutex["parent"]
      /\ log_mutex' \in [Processes -> All \cup {None}]
      /\ log_file' \in [Processes -> Names \cup {None}]
      /\ log_file'["parent"] = log_file["parent"]
  BY DuplicateIs, NameFacts DEF LockInv, TypeOK, Processes
<1>3. TypeOK'
  BY <1>1, <1>2, DuplicateIs DEF LockInv, TypeOK
<1>4. \A u \in All \ {Child} : Of(u) = "parent"
  BY NameFacts DEF Of
<1>5. MutexInv'
  BY <1>1, <1>2, <1>4, DuplicateIs, NameFacts DEF LockInv, MutexInv, Holding
<1>6. ForkInv'
  <2>1. ASSUME NEW u \in All, pc'[u] = "fork" PROVE FALSE
    <3>1. u \in All \ {t, Child} /\ pc[u] = "fork"
      BY <1>1, <2>1
    <3> QED
      BY <1>4, <3>1, DuplicateIs, OneHolder DEF Holding
  <2> QED
    BY <1>1, <2>1 DEF ForkInv
<1>7. BufferInv'
  <2>1. \A u \in All : ~Filling(u) \/ Of(u) \notin Processes
    <3>1. \A u \in All : Filling(u) => buffer[Of(u)] # << >>
      BY DEF LockInv, BufferInv
    <3> QED
      BY <3>1, DuplicateIs, NameFacts DEF Processes
  <2>2. \A u \in All : ~Filling(u)'
    BY <1>1, <2>1, DuplicateIs, NameFacts DEF Filling
  <2>3. \A u \in All : pc'[u] = "lock" => parts'[u] = 0
    BY <1>1, DuplicateIs DEF LockInv, BufferInv
  <2>4. \A p \in Processes : buffer'[p] = << >>
    BY DuplicateIs DEF Processes
  <2> QED
    BY <2>2, <2>3, <2>4 DEF BufferInv
<1> QED
  BY <1>3, <1>5, <1>6, <1>7 DEF LockInv

LEMMA LockInit == Init => LockInv
<1> SUFFICES ASSUME Init PROVE LockInv
  OBVIOUS
<1>1. TypeOK
  BY NameFacts DEF Init, TypeOK, Places, Holding, Of
<1>2. MutexInv /\ ForkInv /\ BufferInv
  BY NameFacts DEF Init, MutexInv, ForkInv, BufferInv, Holding, Filling
<1> QED
  BY <1>1, <1>2 DEF LockInv

LEMMA LockStep == LockInv /\ [Next]_vars => LockInv'
<1> SUFFICES ASSUME LockInv, [Next]_vars PROVE LockInv'
  OBVIOUS
<1>1. ASSUME NEW t \in All, log_message(t) \/ log_init(t) \/ log_close(t) \/ fork(t)
      PROVE  LockInv'
  BY <1>1, LockQuiet, LockTaken, LockReleased, LockWrite, LockFiles, LockCrash, LockDuplicate
     DEF log_message, log_init, log_close, fork
<1>2. CASE UNCHANGED vars
  BY <1>2 DEF vars, fileVars, forkVars, LockInv, TypeOK, MutexInv, ForkInv, BufferInv, Filling
<1> QED
  BY <1>1, <1>2 DEF Next

-----------------------------------------------------------------------------
(* Records stay whole.                                                     *)

(* What fits depends on the parts before it.                               *)
LEMMA FitsKept ==
  ASSUME NEW s \in Seq(Records), NEW t \in Seq(Records), NEW n \in Nat,
         \A i \in 1 .. n : s[i] = t[i]
  PROVE  /\ \A p : \A j \in 1 .. n : Latest(s, n, p, j) <=> Latest(t, n, p, j)
         /\ \A x : Fits(s, n, x) <=> Fits(t, n, x)
<1>1. ASSUME NEW p, NEW j \in 1 .. n PROVE Latest(s, n, p, j) <=> Latest(t, n, p, j)
  <2>1. \A i \in j + 1 .. n : i \in 1 .. n
    OBVIOUS
  <2> QED
    BY <2>1 DEF Latest
<1>2. ASSUME NEW x PROVE Fits(s, n, x) <=> Fits(t, n, x)
  BY <1>1 DEF Fits
<1> QED
  BY <1>1, <1>2

(* Behind the parts of one process, the last of them is its latest; those  *)
(* of another process are where they were.                                 *)
LEMMA SpillLatest ==
  ASSUME NEW d \in Seq(Records), NEW b \in Seq(Records), NEW p, b # << >>,
         \A i \in 1 .. Len(b) : Of(b[i].by) = p
  PROVE  LET s == d \o b
         IN  /\ \A i \in 1 .. Len(b) : \A j \in 1 .. Len(d) + i :
                  Latest(s, Len(d) + i, p, j) <=> j = Len(d) + i
             /\ \A q : q # p => \A j \in 1 .. Len(s) :
                  Latest(s, Len(s), q, j) <=> j <= Len(d) /\ Latest(d, Len(d), q, j)
<1> DEFINE s == d \o b
<1>1. /\ s \in Seq(Records) /\ Len(s) = Len(d) + Len(b) /\ Len(d) \in Nat /\ Len(b) \in Nat
      /\ \A i \in 1 .. Len(d) : s[i] = d[i]
      /\ \A i \in 1 .. Len(b) : s[Len(d) + i] = b[i]
  <2>1. /\ s \in Seq(Records) /\ Len(s) = Len(d) + Len(b) /\ Len(d) \in Nat /\ Len(b) \in Nat
        /\ \A i \in 1 .. Len(d) + Len(b) : s[i] = IF i <= Len(d) THEN d[i] ELSE b[i - Len(d)]
    BY ConcatFacts
  <2> HIDE DEF s
  <2>2. \A i \in 1 .. Len(d) : i \in 1 .. Len(d) + Len(b) /\ i <= Len(d)
    BY <2>1
  <2>3. \A i \in 1 .. Len(b) : /\ Len(d) + i \in 1 .. Len(d) + Len(b)
                               /\ ~(Len(d) + i <= Len(d)) /\ (Len(d) + i) - Len(d) = i
    BY <2>1
  <2> QED
    BY <2>1, <2>2, <2>3
<1> HIDE DEF s
<1>2. ASSUME NEW i \in 1 .. Len(b), NEW j \in 1 .. Len(d) + i
      PROVE  Latest(s, Len(d) + i, p, j) <=> j = Len(d) + i
  <2>1. Of(s[Len(d) + i].by) = p
    BY <1>1
  <2>2. CASE j = Len(d) + i
    <3>1. \A m \in j + 1 .. Len(d) + i : FALSE
      BY <1>1, <2>2
    <3> QED
      BY <2>1, <2>2, <3>1 DEF Latest
  <2>3. CASE j # Len(d) + i
    <3>1. Len(d) + i \in j + 1 .. Len(d) + i
      <4>1. \A n, m \in Nat : \A k \in 1 .. n + m : k # n + m => n + m \in k + 1 .. n + m
        OBVIOUS
      <4>2. Len(d) \in Nat /\ i \in Nat
        BY <1>1
      <4> QED
        BY <2>3, <4>1, <4>2
    <3> QED
      BY <2>1, <2>3, <3>1 DEF Latest
  <2> QED
    BY <2>2, <2>3
<1>3. ASSUME NEW q, q # p, NEW j \in 1 .. Len(s)
      PROVE  Latest(s, Len(s), q, j) <=> j <= Len(d) /\ Latest(d, Len(d), q, j)
  <2>1. \A i \in Len(d) + 1 .. Len(s) : Of(s[i].by) # q
    <3>1. ASSUME NEW i \in Len(d) + 1 .. Len(s) PROVE Of(s[i].by) = p
      <4>1. i - Len(d) \in 1 .. Len(b) /\ Len(d) + (i - Len(d)) = i
        BY <1>1
      <4>2. s[i] = b[i - Len(d)]
        BY <1>1, <4>1
      <4> QED
        BY <4>1, <4>2
    <3> QED
      BY <1>3, <3>1
  <2>2. CASE ~(j <= Len(d))
    <3>1. j \in Len(d) + 1 .. Len(s)
      BY <1>1, <2>2
    <3> QED
      BY <2>1, <2>2, <3>1 DEF Latest
  <2>3. CASE j <= Len(d)
    <3>1. j \in 1 .. Len(d) /\ s[j] = d[j]
      BY <1>1, <2>3
    <3>2. \A i \in j + 1 .. Len(s) : i \in j + 1 .. Len(d) \/ i \in Len(d) + 1 .. Len(s)
      BY <1>1
    <3>3. \A i \in j + 1 .. Len(d) : i \in j + 1 .. Len(s) /\ s[i] = d[i]
      BY <1>1, <3>1
    <3> QED
      BY <2>1, <2>3, <3>1, <3>2, <3>3 DEF Latest
  <2> QED
    BY <2>2, <2>3
<1> QED
  BY <1>2, <1>3 DEF s

(* A file after the buffer of p was written to it.                         *)
LEMMA SpillFacts ==
  ASSUME NEW d \in Seq(Records), NEW b \in Seq(Records), NEW p \in Processes, b # << >>,
         Whole(d), Chain(b, p), Fits(d, Len(d), b[1])
  PROVE  LET s == d \o b
         IN  /\ s \in Seq(Records) /\ Whole(s)
             /\ \A x \in Records : Of(x.by) = p /\ Follows(b[Len(b)], x) => Fits(s, Len(s), x)
             /\ \A x \in Records : Of(x.by) # p => (Fits(s, Len(s), x) <=> Fits(d, Len(d), x))
             /\ b[Len(b)].last => Closed(s, p)
             /\ \A q \in Processes : q # p => (Closed(s, q) <=> Closed(d, q))
<1> DEFINE s == d \o b
<1>1. /\ s \in Seq(Records) /\ Len(s) = Len(d) + Len(b) /\ Len(d) \in Nat
      /\ Len(b) \in Nat /\ Len(b) \in 1 .. Len(b)
      /\ \A i \in 1 .. Len(d) : s[i] = d[i] /\ i \in 1 .. Len(s)
      /\ \A i \in 1 .. Len(b) : s[Len(d) + i] = b[i]
  <2>1. /\ s \in Seq(Records) /\ Len(s) = Len(d) + Len(b) /\ Len(d) \in Nat /\ Len(b) \in Nat
        /\ \A i \in 1 .. Len(d) + Len(b) : s[i] = IF i <= Len(d) THEN d[i] ELSE b[i - Len(d)]
    BY ConcatFacts
  <2>2. Len(b) > 0
    OBVIOUS
  <2> HIDE DEF s
  <2>3. \A i \in 1 .. Len(d) : i \in 1 .. Len(d) + Len(b) /\ i <= Len(d)
    BY <2>1
  <2>4. \A i \in 1 .. Len(b) : /\ Len(d) + i \in 1 .. Len(d) + Len(b)
                               /\ ~(Len(d) + i <= Len(d)) /\ (Len(d) + i) - Len(d) = i
    BY <2>1
  <2> QED
    BY <2>1, <2>2, <2>3, <2>4
<1>2. \A i \in 1 .. Len(b) : Of(b[i].by) = p
  BY DEF Chain
<1>3. /\ \A i \in 1 .. Len(b) : \A j \in 1 .. Len(d) + i :
           Latest(s, Len(d) + i, p, j) <=> j = Len(d) + i
      /\ \A q : q # p => \A j \in 1 .. Len(s) :
           Latest(s, Len(s), q, j) <=> j <= Len(d) /\ Latest(d, Len(d), q, j)
  BY <1>2, SpillLatest
<1> HIDE DEF s
<1>4. ASSUME NEW i \in 1 .. Len(b), NEW x, Of(x.by) = p, Follows(b[i], x)
      PROVE  Fits(s, Len(d) + i, x)
  <2>1. Len(d) + i \in 1 .. Len(d) + i
    BY <1>1
  <2>2. s[Len(d) + i] = b[i]
    BY <1>1
  <2> QED
    BY <1>3, <1>4, <2>1, <2>2 DEF Fits
<1>5. Whole(s)
  <2>1. ASSUME NEW i \in 1 .. Len(s) PROVE Fits(s, i - 1, s[i])
    <3>1. CASE i <= Len(d)
      <4>1. i \in 1 .. Len(d) /\ i - 1 \in Nat /\ s[i] = d[i]
        BY <1>1, <3>1
      <4>2. \A j \in 1 .. i - 1 : d[j] = s[j]
        BY <1>1, <4>1
      <4>3. Fits(d, i - 1, d[i])
        BY <4>1 DEF Whole
      <4> QED
        BY <1>1, <4>1, <4>2, <4>3, FitsKept
    <3>2. CASE i = Len(d) + 1
      <4>1. i - 1 = Len(d) /\ 1 \in 1 .. Len(b) /\ s[i] = b[1]
        BY <1>1, <3>2
      <4>2. Fits(s, Len(d), b[1])
        BY <1>1, FitsKept
      <4> QED
        BY <4>1, <4>2
    <3>3. CASE ~(i <= Len(d)) /\ i # Len(d) + 1
      <4>1. PICK n \in 1 .. Len(b) : n + 1 \in 1 .. Len(b) /\ i = Len(d) + (n + 1) /\ i - 1 = Len(d) + n
        <5>1. /\ i - Len(d) - 1 \in 1 .. Len(b) /\ (i - Len(d) - 1) + 1 \in 1 .. Len(b)
              /\ i = Len(d) + ((i - Len(d) - 1) + 1) /\ i - 1 = Len(d) + (i - Len(d) - 1)
          <6>1. \A m, k \in Nat : \A n \in 1 .. m + k : ~(n <= m) /\ n # m + 1 =>
                  /\ n - m - 1 \in 1 .. k /\ (n - m - 1) + 1 \in 1 .. k
                  /\ n = m + ((n - m - 1) + 1) /\ n - 1 = m + (n - m - 1)
            OBVIOUS
          <6>2. Len(d) \in Nat /\ Len(b) \in Nat /\ i \in 1 .. Len(d) + Len(b)
            BY <1>1
          <6> QED
            BY <3>3, <6>1, <6>2
        <5> QED
          BY <5>1
      <4>2. Of(b[n + 1].by) = p /\ Follows(b[n], b[n + 1])
        <5>1. n + 1 > 1 /\ (n + 1) - 1 = n
          BY <4>1
        <5>2. Follows(b[(n + 1) - 1], b[n + 1])
          BY <4>1, <5>1 DEF Chain
        <5> QED
          BY <1>2, <4>1, <5>1, <5>2
      <4>3. s[i] = b[n + 1]
        BY <1>1, <4>1
      <4>4. Fits(s, Len(d) + n, b[n + 1])
        BY <1>4, <4>2
      <4> QED
        BY <4>1, <4>3, <4>4
    <3> QED
      BY <3>1, <3>2, <3>3
  <2> QED
    BY <2>1 DEF Whole
<1>6. ASSUME NEW x \in Records, Of(x.by) = p, Follows(b[Len(b)], x) PROVE Fits(s, Len(s), x)
  BY <1>1, <1>4, <1>6
<1>7. ASSUME NEW q, q # p, NEW j \in 1 .. Len(s), Latest(s, Len(s), q, j)
      PROVE  j \in 1 .. Len(d) /\ Latest(d, Len(d), q, j) /\ s[j] = d[j]
  <2>1. j <= Len(d) /\ Latest(d, Len(d), q, j)
    BY <1>3, <1>7
  <2>2. j \in 1 .. Len(d)
    BY <1>1, <2>1
  <2> QED
    BY <1>1, <2>1, <2>2
<1>8. ASSUME NEW q, q # p, NEW j \in 1 .. Len(d), Latest(d, Len(d), q, j)
      PROVE  j \in 1 .. Len(s) /\ Latest(s, Len(s), q, j) /\ s[j] = d[j]
  <2>1. j \in 1 .. Len(s) /\ s[j] = d[j] /\ j <= Len(d)
    BY <1>1
  <2> QED
    BY <1>3, <1>8, <2>1
<1>9. ASSUME NEW x \in Records, Of(x.by) # p
      PROVE  Fits(s, Len(s), x) <=> Fits(d, Len(d), x)
  BY <1>7, <1>8, <1>9 DEF Fits
<1>10. ASSUME b[Len(b)].last PROVE Closed(s, p)
  <2>1. ASSUME NEW j \in 1 .. Len(s), Latest(s, Len(s), p, j) PROVE s[j].last
    <3>1. j = Len(d) + Len(b)
      BY <1>1, <1>3, <2>1
    <3> QED
      BY <1>1, <1>10, <3>1
  <2> QED
    BY <2>1 DEF Closed
<1>11. ASSUME NEW q \in Processes, q # p PROVE Closed(s, q) <=> Closed(d, q)
  BY <1>7, <1>8, <1>11 DEF Closed
<1> QED
  BY <1>1, <1>5, <1>6, <1>9, <1>10, <1>11 DEF s

(* A step that leaves the files and the buffers.                           *)
LEMMA RecordsKept ==
  ASSUME LockInv, RecordInv, NEW t \in All,
         \/ CheckFile(t) \/ TestRegistered(t) \/ Register(t) \/ SetRegistered(t)
         \/ (Call(t, "closelock") /\ UNCHANGED <<fileVars, log_mutex, forkVars, parts, error>>)
         \/ Lock(t, "lock", "write") \/ Lock(t, "initlock", "reopen")
         \/ Lock(t, "closelock", "close") \/ Prepare(t)
         \/ Unlock(t, "unlock") \/ Unlock(t, "after") \/ Crash(t)
         \/ Reopen(t) \/ SetFile(t, "close", None) \/ Duplicate(t)
  PROVE  RecordInv'
<1>1. /\ UNCHANGED <<buffer, disk>>
      /\ \A p \in Processes : log_file'[p] = log_file[p] \/ buffer[p] = << >>
  <2>1. CASE Reopen(t) \/ SetFile(t, "close", None)
    <3>1. buffer' = buffer /\ disk' = disk /\ buffer[Of(t)] = << >>
      BY <2>1, SetFileIs
    <3>2. PICK name \in Names \cup {None} : log_file' = [log_file EXCEPT ![Of(t)] = name]
      BY <2>1, SetFileIs
    <3> QED
      BY <3>1, <3>2 DEF LockInv, TypeOK
  <2>2. CASE Duplicate(t)
    BY <2>2, DuplicateIs DEF Processes
  <2>3. CASE ~(Reopen(t) \/ SetFile(t, "close", None) \/ Duplicate(t))
    BY <2>3 DEF CheckFile, TestRegistered, Register, SetRegistered, Lock, Prepare, Unlock, Crash,
                fileVars
  <2> QED
    BY <2>1, <2>2, <2>3
<1>2. \A p \in Processes : buffer'[p] # << >> =>
        Fits(disk'[log_file'[p]], Len(disk'[log_file'[p]]), buffer'[p][1])
  BY <1>1 DEF RecordInv
<1>3. \A f \in Names, p \in Processes :
        f # log_file'[p] \/ buffer'[p] = << >> => Closed(disk'[f], p)
  BY <1>1 DEF RecordInv
<1>4. /\ \A f \in Names : Whole(disk'[f])
      /\ \A p \in Processes : Chain(buffer'[p], p)
  BY <1>1 DEF RecordInv
<1> QED
  BY <1>2, <1>3, <1>4 DEF RecordInv

(* A buffer that is written out, seen from every file and every process.   *)
LEMMA Spilled ==
  ASSUME LockInv, RecordInv, NEW p \in Processes, buffer[p] # << >>, log_file[p] \in Names,
         disk' = [disk EXCEPT ![log_file[p]] = disk[log_file[p]] \o buffer[p]]
  PROVE  /\ disk' \in [Names -> Seq(Records)]
         /\ \A g \in Names : Whole(disk'[g])
         /\ \A q \in Processes : q # p /\ buffer[q] # << >> =>
              Fits(disk'[log_file[q]], Len(disk'[log_file[q]]), buffer[q][1])
         /\ \A g \in Names, q \in Processes : q # p /\ Closed(disk[g], q) => Closed(disk'[g], q)
         /\ \A g \in Names : g # log_file[p] => disk'[g] = disk[g]
         /\ \A x \in Records :
              Of(x.by) = p /\ Follows(buffer[p][Len(buffer[p])], x) =>
                Fits(disk'[log_file[p]], Len(disk'[log_file[p]]), x)
         /\ buffer[p][Len(buffer[p])].last => Closed(disk'[log_file[p]], p)
<1>1. PICK f \in Names, d \in Seq(Records), b \in Seq(Records) :
        f = log_file[p] /\ d = disk[f] /\ b = buffer[p]
  BY DEF LockInv, TypeOK
<1>2. Whole(d) /\ Chain(b, p) /\ Fits(d, Len(d), b[1]) /\ b # << >>
  BY <1>1 DEF RecordInv
<1>3. PICK s : s = d \o b
  OBVIOUS
<1>4. /\ s \in Seq(Records) /\ Whole(s)
      /\ \A x \in Records : Of(x.by) = p /\ Follows(b[Len(b)], x) => Fits(s, Len(s), x)
      /\ \A x \in Records : Of(x.by) # p => (Fits(s, Len(s), x) <=> Fits(d, Len(d), x))
      /\ b[Len(b)].last => Closed(s, p)
      /\ \A q \in Processes : q # p => (Closed(s, q) <=> Closed(d, q))
  BY <1>2, <1>3, SpillFacts
<1>5. /\ disk' \in [Names -> Seq(Records)] /\ disk'[f] = s
      /\ \A g \in Names : g # f => disk'[g] = disk[g]
  BY <1>1, <1>3, <1>4 DEF LockInv, TypeOK
<1>6. \A g \in Names : Whole(disk'[g])
  BY <1>4, <1>5 DEF RecordInv
<1>7. ASSUME NEW q \in Processes, q # p, buffer[q] # << >>
      PROVE  Fits(disk'[log_file[q]], Len(disk'[log_file[q]]), buffer[q][1])
  <2>1. PICK u \in All : Of(u) = q /\ Filling(u)
    BY <1>7 DEF LockInv, BufferInv
  <2>2. log_file[q] \in Names
    BY <2>1 DEF LockInv, BufferInv
  <2>3. buffer[q][1] \in Records /\ Of(buffer[q][1].by) = q
    <3>1. buffer[q] \in Seq(Records) /\ 1 \in 1 .. Len(buffer[q])
      BY <1>7 DEF LockInv, TypeOK
    <3>2. Chain(buffer[q], q)
      BY DEF RecordInv
    <3> QED
      BY <3>1, <3>2 DEF Chain
  <2>4. Fits(disk[log_file[q]], Len(disk[log_file[q]]), buffer[q][1])
    BY <1>7 DEF RecordInv
  <2>5. CASE log_file[q] = f
    BY <1>1, <1>4, <1>5, <1>7, <2>3, <2>4, <2>5
  <2>6. CASE log_file[q] # f
    BY <1>5, <2>2, <2>4, <2>6
  <2> QED
    BY <2>5, <2>6
<1>8. ASSUME NEW g \in Names, NEW q \in Processes, q # p, Closed(disk[g], q)
      PROVE  Closed(disk'[g], q)
  BY <1>1, <1>4, <1>5, <1>8
<1> QED
  BY <1>1, <1>4, <1>5, <1>6, <1>7, <1>8

LEMMA RecordsFlushed ==
  ASSUME LockInv, RecordInv, NEW t \in All, Flush(t)
  PROVE  RecordInv'
<1>1. PICK p \in Processes : p = Of(t)
  BY NameFacts
<1>2. /\ log_file[p] \in Names /\ buffer[p] # << >> /\ buffer[p][Len(buffer[p])].last
      /\ disk' = [disk EXCEPT ![log_file[p]] = disk[log_file[p]] \o buffer[p]]
      /\ buffer' = [buffer EXCEPT ![p] = << >>] /\ log_file' = log_file
  BY <1>1, FlushIs
<1>3. /\ buffer'[p] = << >> /\ \A q \in Processes : q # p => buffer'[q] = buffer[q]
  BY <1>2 DEF LockInv, TypeOK
<1>4. \A q \in Processes : Chain(buffer'[q], q)
  <2>1. Chain(<< >>, p)
    BY DEF Chain
  <2> QED
    BY <1>3, <2>1 DEF RecordInv
<1>5. \A q \in Processes : buffer'[q] # << >> =>
        Fits(disk'[log_file'[q]], Len(disk'[log_file'[q]]), buffer'[q][1])
  BY <1>2, <1>3, Spilled
<1>6. ASSUME NEW g \in Names, NEW q \in Processes, g # log_file'[q] \/ buffer'[q] = << >>
      PROVE  Closed(disk'[g], q)
  <2>1. CASE q = p /\ g = log_file[p]
    BY <1>2, <2>1, Spilled
  <2>2. CASE q = p /\ g # log_file[p]
    <3>1. Closed(disk[g], p)
      BY <2>2 DEF RecordInv
    <3> QED
      BY <1>2, <2>2, <3>1, Spilled
  <2>3. CASE q # p
    <3>1. Closed(disk[g], q)
      BY <1>2, <1>3, <1>6, <2>3 DEF RecordInv
    <3> QED
      BY <1>2, <2>3, <3>1, Spilled
  <2> QED
    BY <2>1, <2>2, <2>3
<1>7. \A g \in Names : Whole(disk'[g])
  BY <1>2, Spilled
<1> QED
  BY <1>4, <1>5, <1>6, <1>7 DEF RecordInv

(* The part that comes before x in its record.                             *)
LEMMA BeforeIs ==
  ASSUME NEW x \in Records, NEW m \in Nat, m # 0
  PROVE  [x EXCEPT !.k = m, !.last = FALSE]
           = [by |-> x.by, call |-> x.call, k |-> m, last |-> FALSE]
<1> DEFINE z == [x EXCEPT !.k = m, !.last = FALSE]
<1>1. z \in Records
  BY DEF Records
<1>2. z.by = x.by /\ z.call = x.call /\ z.k = m /\ z.last = FALSE
  BY DEF Records
<1>3. \A y \in Records : y.by = x.by /\ y.call = x.call /\ y.k = m /\ y.last = FALSE =>
        y = [by |-> x.by, call |-> x.call, k |-> m, last |-> FALSE]
  BY DEF Records
<1> HIDE DEF z
<1>4. z = [by |-> x.by, call |-> x.call, k |-> m, last |-> FALSE]
  BY <1>1, <1>2, <1>3
<1> QED
  BY <1>4 DEF z

LEMMA RecordsWritten ==
  ASSUME LockInv, RecordInv, NEW t \in All, Write(t)
  PROVE  RecordInv'
<1>1. PICK p \in Processes : p = Of(t)
  BY NameFacts
<1>2. PICK x \in Records :
        /\ x = [by |-> t, call |-> calls[t], k |-> parts[t] + 1, last |-> x.last]
        /\ log_file[p] \in Names /\ pc[t] = "write" /\ log_file' = log_file
        /\ parts[t] = 0 => buffer[p] = << >>
        /\ \/ /\ buffer' = [buffer EXCEPT ![p] = buffer[p] \o <<x>>]
              /\ disk' = disk
           \/ /\ buffer' = [buffer EXCEPT ![p] = << >> \o <<x>>]
              /\ buffer[p] # << >> /\ parts[t] > 0
              /\ disk' = [disk EXCEPT ![log_file[p]] = disk[log_file[p]] \o buffer[p]]
  BY <1>1, WriteIs
<1>3. /\ x.by = t /\ Of(x.by) = p /\ x.k = parts[t] + 1 /\ parts[t] \in Nat
      /\ parts[t] = 0 => x.k = 1
  BY <1>1, <1>2 DEF LockInv, TypeOK
<1>4. PICK b \in Seq(Records) : b = buffer[p]
  BY DEF LockInv, TypeOK
<1>5. parts[t] > 0 => b # << >> /\ Follows(b[Len(b)], x)
  <2>1. ASSUME parts[t] > 0 PROVE b # << >> /\ Follows(b[Len(b)], x)
    <3>1. b # << >> /\ b[Len(b)] = [by |-> t, call |-> calls[t], k |-> parts[t], last |-> FALSE]
      BY <1>1, <1>2, <1>4, <2>1 DEF LockInv, BufferInv, Filling
    <3>2. x.k # 1 /\ x.k - 1 = parts[t]
      BY <1>3, <2>1
    <3>3. [x EXCEPT !.k = x.k - 1, !.last = FALSE]
            = [by |-> t, call |-> calls[t], k |-> parts[t], last |-> FALSE]
      <4>1. x.by = t /\ x.call = calls[t]
        BY <1>2
      <4> QED
        BY <2>1, <1>3, <3>2, <4>1, BeforeIs
    <3> QED
      BY <3>1, <3>2, <3>3 DEF Follows
  <2> QED
    BY <2>1
<1>6. Chain(b, p) /\ Chain(<< >>, p)
  BY <1>4 DEF RecordInv, Chain
<1>7. CASE /\ buffer' = [buffer EXCEPT ![p] = buffer[p] \o <<x>>] /\ disk' = disk
  <2>1. PICK c \in Seq(Records) : c = b \o <<x>>
    BY AppendFacts
  <2>2. /\ Len(c) = Len(b) + 1 /\ Len(b) \in Nat /\ c # << >> /\ c[Len(b) + 1] = x
        /\ \A i \in 1 .. Len(b) : c[i] = b[i]
        /\ b # << >> <=> Len(b) > 0
    BY <2>1, AppendFacts
  <2>3. buffer'[p] = c /\ \A q \in Processes : q # p => buffer'[q] = buffer[q]
    BY <1>4, <1>7, <2>1 DEF LockInv, TypeOK
  <2>4. Chain(c, p)
    <3>1. ASSUME NEW i \in 1 .. Len(c)
          PROVE  Of(c[i].by) = p /\ (i > 1 => Follows(c[i - 1], c[i]))
      <4>1. CASE i <= Len(b)
        <5>1. i \in 1 .. Len(b) /\ (i > 1 => i - 1 \in 1 .. Len(b))
          BY <2>2, <4>1
        <5> QED
          BY <1>6, <2>2, <5>1 DEF Chain
      <4>2. CASE i = Len(b) + 1
        <5>1. c[i] = x
          BY <2>2, <4>2
        <5>2. i > 1 => b # << >> /\ Len(b) \in 1 .. Len(b) /\ i - 1 = Len(b)
          BY <2>2, <4>2
        <5>3. i > 1 => c[i - 1] = b[Len(b)]
          BY <2>2, <5>2
        <5>4. b # << >> => parts[t] > 0
          BY <1>2, <1>3, <1>4
        <5> QED
          BY <1>3, <1>5, <5>1, <5>2, <5>3, <5>4
      <4> QED
        BY <2>2, <4>1, <4>2
    <3> QED
      BY <3>1 DEF Chain
  <2>5. \A q \in Processes : Chain(buffer'[q], q)
    BY <2>3, <2>4 DEF RecordInv
  <2>6. ASSUME NEW q \in Processes, buffer'[q] # << >>
        PROVE  Fits(disk'[log_file'[q]], Len(disk'[log_file'[q]]), buffer'[q][1])
    <3>1. CASE q # p
      BY <1>2, <1>7, <2>3, <2>6, <3>1 DEF RecordInv
    <3>2. CASE q = p /\ parts[t] = 0
      <4>1. c[1] = x /\ b = << >>
        BY <1>2, <1>4, <2>2, <3>2
      <4>2. Closed(disk[log_file[p]], p)
        BY <1>2, <1>4, <4>1 DEF RecordInv
      <4>3. Fits(disk[log_file[p]], Len(disk[log_file[p]]), x)
        BY <1>3, <3>2, <4>2 DEF Fits, Closed, Follows
      <4> QED
        BY <1>2, <1>7, <2>3, <3>2, <4>1, <4>3
    <3>3. CASE q = p /\ parts[t] # 0
      <4>1. b # << >> /\ 1 \in 1 .. Len(b)
        BY <1>3, <1>5, <2>2, <3>3
      <4>2. c[1] = buffer[p][1] /\ buffer[p] # << >>
        BY <1>4, <2>2, <4>1
      <4> QED
        BY <1>2, <1>7, <2>3, <3>3, <4>2 DEF RecordInv
    <3> QED
      BY <3>1, <3>2, <3>3
  <2>7. ASSUME NEW g \in Names, NEW q \in Processes, g # log_file'[q] \/ buffer'[q] = << >>
        PROVE  Closed(disk'[g], q)
    BY <1>2, <1>7, <2>2, <2>3, <2>7 DEF RecordInv
  <2>8. \A g \in Names : Whole(disk'[g])
    BY <1>7 DEF RecordInv
  <2> QED
    BY <2>5, <2>6, <2>7, <2>8 DEF RecordInv
<1>8. CASE /\ buffer' = [buffer EXCEPT ![p] = << >> \o <<x>>]
           /\ buffer[p] # << >> /\ parts[t] > 0
           /\ disk' = [disk EXCEPT ![log_file[p]] = disk[log_file[p]] \o buffer[p]]
  <2>1. PICK c \in Seq(Records) : c = << >> \o <<x>> /\ Len(c) = 1 /\ c[1] = x /\ c # << >>
    <3>1. << >> \o <<x>> = <<x>> /\ <<x>> \in Seq(Records) /\ Len(<<x>>) = 1 /\ <<x>>[1] = x
          /\ <<x>> # << >>
      BY AppendFacts
    <3> QED
      BY <3>1
  <2>2. buffer'[p] = c /\ \A q \in Processes : q # p => buffer'[q] = buffer[q]
    BY <1>8, <2>1 DEF LockInv, TypeOK
  <2>3. Chain(c, p)
    BY <1>3, <2>1 DEF Chain
  <2>4. \A q \in Processes : Chain(buffer'[q], q)
    BY <2>2, <2>3 DEF RecordInv
  <2>5. Fits(disk'[log_file[p]], Len(disk'[log_file[p]]), x)
    BY <1>2, <1>3, <1>4, <1>5, <1>8, Spilled
  <2>6. \A q \in Processes : buffer'[q] # << >> =>
          Fits(disk'[log_file'[q]], Len(disk'[log_file'[q]]), buffer'[q][1])
    <3>1. ASSUME NEW q \in Processes, q # p, buffer[q] # << >>
          PROVE  Fits(disk'[log_file[q]], Len(disk'[log_file[q]]), buffer[q][1])
      BY <1>2, <1>8, <3>1, Spilled
    <3> QED
      BY <1>2, <2>1, <2>2, <2>5, <3>1
  <2>7. ASSUME NEW g \in Names, NEW q \in Processes, g # log_file'[q] \/ buffer'[q] = << >>
        PROVE  Closed(disk'[g], q)
    <3>1. CASE q = p
      <4>1. g # log_file[p] /\ Closed(disk[g], p)
        BY <1>2, <2>1, <2>2, <2>7, <3>1 DEF RecordInv
      <4> QED
        BY <1>2, <1>8, <3>1, <4>1, Spilled
    <3>2. CASE q # p
      <4>1. Closed(disk[g], q)
        BY <1>2, <2>2, <2>7, <3>2 DEF RecordInv
      <4> QED
        BY <1>2, <1>8, <3>2, <4>1, Spilled
    <3> QED
      BY <3>1, <3>2
  <2>8. \A g \in Names : Whole(disk'[g])
    BY <1>2, <1>8, Spilled
  <2> QED
    BY <2>4, <2>6, <2>7, <2>8 DEF RecordInv
<1> QED
  BY <1>2, <1>7, <1>8

LEMMA RecordsInit == Init => RecordInv
<1> SUFFICES ASSUME Init PROVE RecordInv
  OBVIOUS
<1>1. /\ \A f \in Names : disk[f] = << >>
      /\ \A p \in Processes : buffer[p] = << >>
  BY DEF Init
<1>2. Whole(<< >>) /\ \A p : Closed(<< >>, p) /\ Chain(<< >>, p)
  BY DEF Whole, Closed, Chain
<1> QED
  BY <1>1, <1>2 DEF RecordInv

LEMMA RecordsStep == LockInv /\ RecordInv /\ [Next]_vars => RecordInv'
<1> SUFFICES ASSUME LockInv, RecordInv, [Next]_vars PROVE RecordInv'
  OBVIOUS
<1>1. ASSUME NEW t \in All, log_message(t) \/ log_init(t) \/ log_close(t) \/ fork(t)
      PROVE  RecordInv'
  BY <1>1, RecordsKept, RecordsFlushed, RecordsWritten
     DEF log_message, log_init, log_close, fork
<1>2. CASE UNCHANGED vars
  BY <1>2 DEF vars, fileVars, RecordInv
<1> QED
  BY <1>1, <1>2 DEF Next

(* The parts of a process' records follow one another in every file, with  *)
(* nothing of that process in between, although other threads log, files   *)
(* change and buffers spill (log_message and its mutex): for any number of *)
(* threads, of files and of calls, and any size of the buffer.             *)
THEOREM RecordsStayWhole == Spec => []RecordsWhole
<1>1. LockInv /\ RecordInv => RecordsWhole
  <2> SUFFICES ASSUME LockInv, RecordInv, NEW f \in Names, NEW i \in DOMAIN disk[f]
               PROVE  Fits(disk[f], i - 1, disk[f][i])
    BY DEF RecordsWhole
  <2>1. disk[f] \in Seq(Records)
    BY DEF LockInv, TypeOK
  <2>2. i \in 1 .. Len(disk[f])
    BY <2>1
  <2> QED
    BY <2>2 DEF RecordInv, Whole
<1> QED
  BY LockInit, LockStep, RecordsInit, RecordsStep, <1>1, PTL DEF Spec

-----------------------------------------------------------------------------
(* No part is written twice.                                               *)

(* Parts that move from a buffer to a file stay distinct.                  *)
LEMMA DistinctSpilled ==
  ASSUME NEW d \in [Names -> Seq(Records)], NEW b \in [Processes -> Seq(Records)],
         Distinct(d, b), NEW p \in Processes, NEW f \in Names
  PROVE  Distinct([d EXCEPT ![f] = d[f] \o b[p]], [b EXCEPT ![p] = << >>])
<1> DEFINE e == [d EXCEPT ![f] = d[f] \o b[p]]
           c == [b EXCEPT ![p] = << >>]
           n == Len(d[f])
<1>1. n \in Nat /\ Len(b[p]) \in Nat /\ Len(e[f]) = n + Len(b[p])
      /\ \A i \in 1 .. n + Len(b[p]) : e[f][i] = IF i <= n THEN d[f][i] ELSE b[p][i - n]
  <2>1. e[f] = d[f] \o b[p]
    OBVIOUS
  <2>2. d[f] \in Seq(Records) /\ b[p] \in Seq(Records)
    OBVIOUS
  <2> QED
    BY <2>1, <2>2, ConcatFacts
<1>2. \A g \in Names : g # f => e[g] = d[g]
  OBVIOUS
<1>3. c[p] = << >> /\ Len(c[p]) = 0 /\ \A q \in Processes : q # p => c[q] = b[q]
  OBVIOUS
<1>4. \A g \in Names : Len(d[g]) \in Nat
  OBVIOUS
<1> HIDE DEF e, c, n
<1>5. ASSUME NEW g \in Names, NEW i \in 1 .. Len(e[g])
      PROVE  \/ i \in 1 .. Len(d[g]) /\ e[g][i] = d[g][i]
             \/ g = f /\ i - n \in 1 .. Len(b[p]) /\ e[g][i] = b[p][i - n] /\ i > n
  <2>1. CASE g # f
    BY <1>2, <2>1
  <2>2. CASE g = f /\ i <= n
    <3>1. i \in 1 .. Len(d[g]) /\ i \in 1 .. n + Len(b[p])
      BY <1>1, <2>2 DEF n
    <3> QED
      BY <1>1, <2>2, <3>1
  <2>3. CASE g = f /\ ~(i <= n)
    <3>1. i - n \in 1 .. Len(b[p]) /\ i > n /\ i \in 1 .. n + Len(b[p])
      BY <1>1, <2>3
    <3> QED
      BY <1>1, <2>3, <3>1
  <2> QED
    BY <2>1, <2>2, <2>3
<1>6. ASSUME NEW g \in Names, NEW h \in Names, NEW i \in 1 .. Len(e[g]), NEW j \in 1 .. Len(e[h]),
             e[g][i] = e[h][j]
      PROVE  g = h /\ i = j
  <2>1. CASE i \in 1 .. Len(d[g]) /\ e[g][i] = d[g][i] /\ j \in 1 .. Len(d[h]) /\ e[h][j] = d[h][j]
    <3>1. d[g][i] = d[h][j] /\ i \in 1 .. Len(d[g]) /\ j \in 1 .. Len(d[h])
      BY <1>6, <2>1
    <3> QED
      BY <3>1 DEF Distinct
  <2>2. CASE /\ i \in 1 .. Len(d[g]) /\ e[g][i] = d[g][i]
             /\ h = f /\ j - n \in 1 .. Len(b[p]) /\ e[h][j] = b[p][j - n]
    <3>1. d[g][i] = b[p][j - n]
      BY <1>6, <2>2
    <3>2. d[g][i] # b[p][j - n]
      BY <2>2 DEF Distinct
    <3> QED
      BY <3>1, <3>2
  <2>3. CASE /\ j \in 1 .. Len(d[h]) /\ e[h][j] = d[h][j]
             /\ g = f /\ i - n \in 1 .. Len(b[p]) /\ e[g][i] = b[p][i - n]
    <3>1. d[h][j] = b[p][i - n]
      BY <1>6, <2>3
    <3>2. d[h][j] # b[p][i - n]
      BY <2>3 DEF Distinct
    <3> QED
      BY <3>1, <3>2
  <2>4. CASE /\ h = f /\ j - n \in 1 .. Len(b[p]) /\ e[h][j] = b[p][j - n]
             /\ g = f /\ i - n \in 1 .. Len(b[p]) /\ e[g][i] = b[p][i - n]
    <3>1. i - n = j - n
      BY <1>6, <2>4 DEF Distinct
    <3> QED
      BY <1>1, <2>4, <3>1
  <2> QED
    BY <1>5, <2>1, <2>2, <2>3, <2>4
<1>7. ASSUME NEW q \in Processes, NEW i \in 1 .. Len(c[q])
      PROVE  q # p /\ c[q] = b[q] /\ i \in 1 .. Len(b[q])
  BY <1>3
<1>8. ASSUME NEW q \in Processes, NEW r \in Processes, NEW i \in 1 .. Len(c[q]),
             NEW j \in 1 .. Len(c[r]), c[q][i] = c[r][j]
      PROVE  q = r /\ i = j
  BY <1>7, <1>8 DEF Distinct
<1>9. ASSUME NEW g \in Names, NEW q \in Processes, NEW i \in 1 .. Len(e[g]),
             NEW j \in 1 .. Len(c[q])
      PROVE  e[g][i] # c[q][j]
  <2>1. q # p /\ c[q] = b[q] /\ j \in 1 .. Len(b[q])
    BY <1>7
  <2>2. CASE i \in 1 .. Len(d[g]) /\ e[g][i] = d[g][i]
    BY <2>1, <2>2 DEF Distinct
  <2>3. CASE i - n \in 1 .. Len(b[p]) /\ e[g][i] = b[p][i - n]
    BY <2>1, <2>3 DEF Distinct
  <2> QED
    BY <1>5, <2>2, <2>3
<1>10. Distinct(e, c)
  BY <1>6, <1>8, <1>9 DEF Distinct
<1> QED
  BY <1>10 DEF e, c

(* So does one that is new.                                                *)
LEMMA DistinctAdded ==
  ASSUME NEW d \in [Names -> Seq(Records)], NEW b \in [Processes -> Seq(Records)],
         Distinct(d, b), NEW p \in Processes, NEW x \in Records,
         \A f \in Names : \A i \in 1 .. Len(d[f]) : d[f][i] # x,
         \A q \in Processes : \A i \in 1 .. Len(b[q]) : b[q][i] # x
  PROVE  Distinct(d, [b EXCEPT ![p] = b[p] \o <<x>>])
<1> DEFINE c == [b EXCEPT ![p] = b[p] \o <<x>>]
           n == Len(b[p])
<1>1. n \in Nat /\ Len(c[p]) = n + 1 /\ c[p][n + 1] = x /\ \A i \in 1 .. n : c[p][i] = b[p][i]
  <2>1. c[p] = b[p] \o <<x>> /\ b[p] \in Seq(Records)
    OBVIOUS
  <2> QED
    BY <2>1, AppendFacts
<1>2. \A q \in Processes : q # p => c[q] = b[q]
  OBVIOUS
<1> HIDE DEF c
<1>3. ASSUME NEW q \in Processes, NEW i \in 1 .. Len(c[q])
      PROVE  \/ i \in 1 .. Len(b[q]) /\ c[q][i] = b[q][i]
             \/ q = p /\ i = n + 1 /\ c[q][i] = x
  <2>1. CASE q # p
    BY <1>2, <2>1
  <2>2. CASE q = p
    <3>1. i \in 1 .. n \/ i = n + 1
      BY <1>1, <2>2
    <3> QED
      BY <1>1, <2>2, <3>1
  <2> QED
    BY <2>1, <2>2
<1> HIDE DEF n
<1>4. ASSUME NEW q \in Processes, NEW r \in Processes, NEW i \in 1 .. Len(c[q]),
             NEW j \in 1 .. Len(c[r]), c[q][i] = c[r][j]
      PROVE  q = r /\ i = j
  <2>1. CASE i \in 1 .. Len(b[q]) /\ c[q][i] = b[q][i] /\ j \in 1 .. Len(b[r]) /\ c[r][j] = b[r][j]
    <3>1. b[q][i] = b[r][j] /\ i \in 1 .. Len(b[q]) /\ j \in 1 .. Len(b[r])
      BY <1>4, <2>1
    <3> QED
      BY <3>1 DEF Distinct
  <2>2. CASE i \in 1 .. Len(b[q]) /\ c[q][i] = b[q][i] /\ c[r][j] = x
    BY <1>4, <2>2
  <2>3. CASE c[q][i] = x /\ j \in 1 .. Len(b[r]) /\ c[r][j] = b[r][j]
    BY <1>4, <2>3
  <2>4. CASE q = p /\ i = n + 1 /\ r = p /\ j = n + 1
    BY <2>4
  <2> QED
    BY <1>3, <2>1, <2>2, <2>3, <2>4
<1>5. ASSUME NEW f \in Names, NEW q \in Processes, NEW i \in 1 .. Len(d[f]),
             NEW j \in 1 .. Len(c[q])
      PROVE  d[f][i] # c[q][j]
  <2>1. CASE j \in 1 .. Len(b[q]) /\ c[q][j] = b[q][j]
    <3>1. d[f][i] # b[q][j]
      BY <2>1 DEF Distinct
    <3> QED
      BY <2>1, <3>1
  <2>2. CASE c[q][j] = x
    BY <2>2
  <2> QED
    BY <1>3, <2>1, <2>2
<1>6. Distinct(d, c)
  BY <1>4, <1>5 DEF Distinct
<1> QED
  BY <1>6 DEF c

(* Where the parts in a file come from, when a buffer is written to it.    *)
LEMMA SpillOrigin ==
  ASSUME NEW d \in [Names -> Seq(Records)], NEW s \in Seq(Records), NEW f \in Names,
         NEW e, e = [d EXCEPT ![f] = d[f] \o s], NEW g \in Names, NEW i \in 1 .. Len(e[g])
  PROVE  \/ \E j \in 1 .. Len(d[g]) : e[g][i] = d[g][j]
         \/ \E j \in 1 .. Len(s) : e[g][i] = s[j]
<1>1. CASE g # f
  <2>1. e[g] = d[g]
    BY <1>1
  <2> QED
    BY <2>1
<1>2. CASE g = f
  <2>1. e[g] = d[f] \o s /\ d[f] \in Seq(Records)
    BY <1>2
  <2>2. PICK a \in Seq(Records) : a = d[f]
    BY <2>1
  <2>3. /\ Len(a \o s) = Len(a) + Len(s) /\ Len(a) \in Nat /\ Len(s) \in Nat
        /\ \A j \in 1 .. Len(a) + Len(s) : (a \o s)[j] = IF j <= Len(a) THEN a[j] ELSE s[j - Len(a)]
    BY ConcatFacts
  <2>4. i \in 1 .. Len(a) + Len(s) /\ e[g][i] = (a \o s)[i]
    BY <2>1, <2>2, <2>3
  <2>5. CASE i <= Len(a)
    <3>1. i \in 1 .. Len(a) /\ e[g][i] = a[i]
      BY <2>3, <2>4, <2>5
    <3> QED
      BY <1>2, <2>2, <3>1
  <2>6. CASE ~(i <= Len(a))
    <3>1. i - Len(a) \in 1 .. Len(s) /\ e[g][i] = s[i - Len(a)]
      BY <2>3, <2>4, <2>6
    <3> QED
      BY <3>1
  <2> QED
    BY <2>5, <2>6
<1> QED
  BY <1>1, <1>2

(* Calls and parts only grow, and parts start again with the next call.    *)
LEMMA CallsGrow ==
  ASSUME LockInv, [Next]_vars, NEW u \in All
  PROVE  /\ calls'[u] \in Nat /\ parts'[u] \in Nat /\ calls[u] \in Nat /\ parts[u] \in Nat
         /\ \/ calls'[u] = calls[u] /\ parts'[u] >= parts[u]
            \/ calls'[u] > calls[u]
<1>1. /\ calls \in [All -> Nat] /\ parts \in [All -> Nat]
      /\ calls' \in [All -> Nat] /\ parts' \in [All -> Nat]
  BY LockStep DEF LockInv, TypeOK
<1>2. ASSUME NEW t \in All,
             calls' = calls \/ calls' = [calls EXCEPT ![t] = calls[t] + 1],
             \/ parts' = parts
             \/ parts' = [parts EXCEPT ![t] = parts[t] + 1]
             \/ parts' = [parts EXCEPT ![t] = 0] /\ calls' = [calls EXCEPT ![t] = calls[t] + 1]
      PROVE  \/ calls'[u] = calls[u] /\ parts'[u] >= parts[u]
             \/ calls'[u] > calls[u]
  BY <1>1, <1>2
<1>3. ASSUME NEW t \in All, log_message(t) \/ log_init(t) \/ log_close(t) \/ fork(t)
      PROVE  /\ calls' = calls \/ calls' = [calls EXCEPT ![t] = calls[t] + 1]
             /\ \/ parts' = parts
                \/ parts' = [parts EXCEPT ![t] = parts[t] + 1]
                \/ /\ parts' = [parts EXCEPT ![t] = 0]
                   /\ calls' = [calls EXCEPT ![t] = calls[t] + 1]
  <2>1. CASE CheckFile(t)
    BY <2>1 DEF CheckFile, Call
  <2>2. CASE TestRegistered(t) \/ Register(t) \/ SetRegistered(t) \/ Prepare(t)
    BY <2>2 DEF TestRegistered, Register, SetRegistered, Prepare, Call
  <2>3. CASE Call(t, "closelock") /\ UNCHANGED <<fileVars, log_mutex, forkVars, parts, error>>
    BY <2>3 DEF Call
  <2>4. CASE \/ Lock(t, "lock", "write") \/ Lock(t, "initlock", "reopen")
             \/ Lock(t, "closelock", "close") \/ Unlock(t, "unlock") \/ Unlock(t, "after")
    BY <2>4 DEF Lock, Unlock
  <2>5. CASE Write(t)
    BY <2>5 DEF Write
  <2>6. CASE Crash(t) \/ Flush(t) \/ Duplicate(t)
    BY <2>6 DEF Crash, Flush, Duplicate
  <2>7. CASE Reopen(t) \/ SetFile(t, "close", None)
    BY <2>7 DEF Reopen, SetFile
  <2> QED
    BY <1>3, <2>1, <2>2, <2>3, <2>4, <2>5, <2>6, <2>7 DEF log_message, log_init, log_close, fork
<1>4. CASE UNCHANGED vars
  BY <1>1, <1>4 DEF vars
<1> QED
  BY <1>1, <1>2, <1>3, <1>4 DEF Next

LEMMA EarlierStays ==
  ASSUME LockInv, [Next]_vars, NEW x \in Records, Earlier(x)
  PROVE  Earlier(x)'
<1>1. x.by \in All /\ x.call \in Nat /\ x.k \in Nat
  BY DEF Records
<1>2. /\ calls'[x.by] \in Nat /\ parts'[x.by] \in Nat /\ calls[x.by] \in Nat /\ parts[x.by] \in Nat
      /\ \/ calls'[x.by] = calls[x.by] /\ parts'[x.by] >= parts[x.by]
         \/ calls'[x.by] > calls[x.by]
  BY <1>1, CallsGrow
<1> QED
  BY <1>1, <1>2 DEF Earlier

(* What the steps do to the files and the buffers.                         *)
LEMMA MovesOf ==
  ASSUME LockInv, [Next]_vars
  PROVE  \/ UNCHANGED <<buffer, disk>>
         \/ \E t \in All : Flush(t)
         \/ \E t \in All : Write(t)
<1>1. ASSUME NEW t \in All, log_message(t) \/ log_init(t) \/ log_close(t) \/ fork(t)
      PROVE  UNCHANGED <<buffer, disk>> \/ Flush(t) \/ Write(t)
  <2>1. CASE Reopen(t) \/ SetFile(t, "close", None)
    BY <2>1, SetFileIs
  <2>2. CASE Duplicate(t)
    BY <2>2, DuplicateIs
  <2>3. CASE ~(Reopen(t) \/ SetFile(t, "close", None) \/ Duplicate(t))
    BY <1>1, <2>3 DEF log_message, log_init, log_close, fork, CheckFile, TestRegistered, Register,
                SetRegistered, Lock, Prepare, Unlock, Crash, fileVars
  <2> QED
    BY <2>1, <2>2, <2>3
<1>2. CASE UNCHANGED vars
  BY <1>2 DEF vars, fileVars
<1> QED
  BY <1>1, <1>2 DEF Next

LEMMA OnceStep == LockInv /\ OnceInv /\ [Next]_vars => OnceInv'
<1> SUFFICES ASSUME LockInv, OnceInv, [Next]_vars PROVE OnceInv'
  OBVIOUS
<1>1. disk \in [Names -> Seq(Records)] /\ buffer \in [Processes -> Seq(Records)]
  BY DEF LockInv, TypeOK
<1>2. \A f \in Names : \A i \in 1 .. Len(disk[f]) : disk[f][i] \in Records /\ Earlier(disk[f][i])
  BY <1>1 DEF OnceInv
<1>3. \A p \in Processes : \A i \in 1 .. Len(buffer[p]) :
        buffer[p][i] \in Records /\ Earlier(buffer[p][i])
  BY <1>1 DEF OnceInv
<1>4. \A x \in Records : Earlier(x) => Earlier(x)'
  BY EarlierStays
<1>5. CASE UNCHANGED <<buffer, disk>>
  <2>1. Distinct(disk, buffer)'
    BY <1>5 DEF OnceInv, Distinct
  <2>2. \A f \in Names : \A i \in 1 .. Len(disk'[f]) : Earlier(disk[f][i])'
    BY <1>2, <1>4, <1>5
  <2>3. \A p \in Processes : \A i \in 1 .. Len(buffer'[p]) : Earlier(buffer[p][i])'
    BY <1>3, <1>4, <1>5
  <2> QED
    BY <2>1, <2>2, <2>3 DEF OnceInv
<1>6. ASSUME NEW p \in Processes, NEW f \in Names, NEW d, NEW b,
             d = [disk EXCEPT ![f] = disk[f] \o buffer[p]], b = [buffer EXCEPT ![p] = << >>]
      PROVE  /\ d \in [Names -> Seq(Records)] /\ b \in [Processes -> Seq(Records)]
             /\ Distinct(d, b)
             /\ \A g \in Names : \A i \in 1 .. Len(d[g]) : d[g][i] \in Records /\ Earlier(d[g][i])
             /\ \A q \in Processes : \A i \in 1 .. Len(b[q]) :
                  b[q][i] \in Records /\ Earlier(b[q][i])
  <2>1. disk[f] \o buffer[p] \in Seq(Records) /\ buffer[p] \in Seq(Records)
    BY <1>1, ConcatFacts
  <2>2. d \in [Names -> Seq(Records)] /\ b \in [Processes -> Seq(Records)]
    BY <1>1, <1>6, <2>1
  <2>3. Distinct(d, b)
    BY <1>1, <1>6, DistinctSpilled DEF OnceInv
  <2>4. ASSUME NEW g \in Names, NEW i \in 1 .. Len(d[g])
        PROVE  d[g][i] \in Records /\ Earlier(d[g][i])
    <3>1. \/ \E j \in 1 .. Len(disk[g]) : d[g][i] = disk[g][j]
          \/ \E j \in 1 .. Len(buffer[p]) : d[g][i] = buffer[p][j]
      <4>1. PICK s \in Seq(Records) : s = buffer[p]
        BY <2>1
      <4>2. PICK r \in [Names -> Seq(Records)] : r = disk
        BY <1>1
      <4>3. d = [r EXCEPT ![f] = r[f] \o s]
        BY <1>6, <4>1, <4>2
      <4>4. \/ \E j \in 1 .. Len(r[g]) : d[g][i] = r[g][j]
            \/ \E j \in 1 .. Len(s) : d[g][i] = s[j]
        BY ONLY <4>3, SpillOrigin, s \in Seq(Records), r \in [Names -> Seq(Records)],
                f \in Names, g \in Names, i \in 1 .. Len(d[g])
      <4> QED
        BY <4>1, <4>2, <4>4
    <3>2. CASE \E j \in 1 .. Len(disk[g]) : d[g][i] = disk[g][j]
      <4>1. PICK j \in 1 .. Len(disk[g]) : d[g][i] = disk[g][j]
        BY <3>2
      <4>2. disk[g][j] \in Records /\ Earlier(disk[g][j])
        BY <1>2
      <4> QED
        BY <4>1, <4>2
    <3>3. CASE \E j \in 1 .. Len(buffer[p]) : d[g][i] = buffer[p][j]
      <4>1. PICK j \in 1 .. Len(buffer[p]) : d[g][i] = buffer[p][j]
        BY <3>3
      <4>2. buffer[p][j] \in Records /\ Earlier(buffer[p][j])
        BY <1>3
      <4> QED
        BY <4>1, <4>2
    <3> QED
      BY <3>1, <3>2, <3>3
  <2>5. ASSUME NEW q \in Processes, NEW i \in 1 .. Len(b[q])
        PROVE  b[q][i] \in Records /\ Earlier(b[q][i])
    <3>1. q # p /\ b[q] = buffer[q]
      <4>1. b[p] = << >> /\ Len(<< >>) = 0
        BY <1>1, <1>6
      <4> QED
        BY <1>1, <1>6, <2>5, <4>1
    <3> QED
      BY <1>3, <3>1
  <2> QED
    BY <2>2, <2>3, <2>4, <2>5
<1>7. ASSUME NEW t \in All, Flush(t) PROVE OnceInv'
  <2>1. PICK p \in Processes, f \in Names : p = Of(t) /\ f = log_file[p]
    BY <1>7, FlushIs
  <2>2. /\ disk' = [disk EXCEPT ![f] = disk[f] \o buffer[p]]
        /\ buffer' = [buffer EXCEPT ![p] = << >>]
    BY <1>7, <2>1, FlushIs
  <2>3. /\ Distinct(disk', buffer')
        /\ \A g \in Names : \A i \in 1 .. Len(disk'[g]) :
             disk'[g][i] \in Records /\ Earlier(disk'[g][i])
        /\ \A q \in Processes : \A i \in 1 .. Len(buffer'[q]) :
             buffer'[q][i] \in Records /\ Earlier(buffer'[q][i])
    BY <1>6, <2>2
  <2>4. Distinct(disk, buffer)'
    BY <2>3 DEF Distinct
  <2>5. \A g \in Names : \A i \in 1 .. Len(disk'[g]) : Earlier(disk[g][i])'
    BY <1>4, <2>3 DEF Earlier
  <2>6. \A q \in Processes : \A i \in 1 .. Len(buffer'[q]) : Earlier(buffer[q][i])'
    BY <1>4, <2>3 DEF Earlier
  <2> QED
    BY <2>4, <2>5, <2>6 DEF OnceInv
<1>8. ASSUME NEW t \in All, Write(t) PROVE OnceInv'
  <2>1. PICK p \in Processes : p = Of(t)
    BY NameFacts
  <2>2. PICK x \in Records :
          /\ x = [by |-> t, call |-> calls[t], k |-> parts[t] + 1, last |-> x.last]
          /\ log_file[p] \in Names /\ calls' = calls
          /\ parts' = [parts EXCEPT ![t] = parts[t] + 1]
          /\ \/ /\ buffer' = [buffer EXCEPT ![p] = buffer[p] \o <<x>>]
                /\ disk' = disk
             \/ /\ buffer' = [buffer EXCEPT ![p] = << >> \o <<x>>]
                /\ disk' = [disk EXCEPT ![log_file[p]] = disk[log_file[p]] \o buffer[p]]
    BY <1>8, <2>1, WriteIs
  <2>3. /\ x.by = t /\ x.call = calls[t] /\ x.k = parts[t] + 1
        /\ parts[t] \in Nat /\ parts'[t] = parts[t] + 1 /\ calls[t] \in Nat
    BY <2>2 DEF LockInv, TypeOK
  <2>4. Earlier(x)' /\ ~Earlier(x)
    BY <2>2, <2>3 DEF Earlier
  <2>5. PICK d, b : /\ d \in [Names -> Seq(Records)] /\ b \in [Processes -> Seq(Records)]
                    /\ Distinct(d, b)
                    /\ \A g \in Names : \A i \in 1 .. Len(d[g]) :
                         d[g][i] \in Records /\ Earlier(d[g][i])
                    /\ \A q \in Processes : \A i \in 1 .. Len(b[q]) :
                         b[q][i] \in Records /\ Earlier(b[q][i])
                    /\ disk' = d /\ buffer' = [b EXCEPT ![p] = b[p] \o <<x>>]
    <3>1. CASE buffer' = [buffer EXCEPT ![p] = buffer[p] \o <<x>>] /\ disk' = disk
      BY <1>1, <1>2, <1>3, <3>1 DEF OnceInv
    <3>2. CASE /\ buffer' = [buffer EXCEPT ![p] = << >> \o <<x>>]
               /\ disk' = [disk EXCEPT ![log_file[p]] = disk[log_file[p]] \o buffer[p]]
      <4>0. PICK f \in Names : f = log_file[p]
        BY <2>2
      <4>1. PICK d, b : /\ d = [disk EXCEPT ![f] = disk[f] \o buffer[p]]
                        /\ b = [buffer EXCEPT ![p] = << >>]
        OBVIOUS
      <4>2. buffer' = [b EXCEPT ![p] = b[p] \o <<x>>] /\ disk' = d
        BY <1>1, <3>2, <4>0, <4>1
      <4>3. /\ d \in [Names -> Seq(Records)] /\ b \in [Processes -> Seq(Records)]
            /\ Distinct(d, b)
            /\ \A g \in Names : \A i \in 1 .. Len(d[g]) : d[g][i] \in Records /\ Earlier(d[g][i])
            /\ \A q \in Processes : \A i \in 1 .. Len(b[q]) :
                 b[q][i] \in Records /\ Earlier(b[q][i])
        BY <1>6, <4>1
      <4> QED
        BY <4>2, <4>3
    <3> QED
      BY <2>2, <3>1, <3>2
  <2>6. Distinct(disk', buffer')
    <3>1. /\ \A f \in Names : \A i \in 1 .. Len(d[f]) : d[f][i] # x
          /\ \A q \in Processes : \A i \in 1 .. Len(b[q]) : b[q][i] # x
      BY <2>4, <2>5
    <3> QED
      BY <2>5, <3>1, DistinctAdded
  <2>7. \A g \in Names : \A i \in 1 .. Len(disk'[g]) : Earlier(disk[g][i])'
    BY <1>4, <2>5 DEF Earlier
  <2>8. ASSUME NEW q \in Processes, NEW i \in 1 .. Len(buffer'[q]) PROVE Earlier(buffer[q][i])'
    <3>1. b[p] \in Seq(Records) /\ buffer'[p] = b[p] \o <<x>>
          /\ (q # p => buffer'[q] = b[q])
      BY <2>5
    <3>2. CASE q # p
      BY <1>4, <2>5, <2>8, <3>1, <3>2 DEF Earlier
    <3>3. CASE q = p
      <4>1. /\ Len(b[p] \o <<x>>) = Len(b[p]) + 1 /\ Len(b[p]) \in Nat
            /\ (b[p] \o <<x>>)[Len(b[p]) + 1] = x
            /\ \A j \in 1 .. Len(b[p]) : (b[p] \o <<x>>)[j] = b[p][j]
        BY <3>1, AppendFacts
      <4>2. i \in 1 .. Len(b[p]) \/ i = Len(b[p]) + 1
        BY <2>8, <3>1, <3>3, <4>1
      <4>3. CASE i \in 1 .. Len(b[p])
        <5>1. buffer'[q][i] = b[p][i] /\ b[p][i] \in Records /\ Earlier(b[p][i])
          BY <2>5, <3>1, <3>3, <4>1, <4>3
        <5> QED
          BY <1>4, <5>1 DEF Earlier
      <4>4. CASE i = Len(b[p]) + 1
        <5>1. buffer'[q][i] = x
          BY <3>1, <3>3, <4>1, <4>4
        <5> QED
          BY <2>4, <5>1 DEF Earlier
      <4> QED
        BY <4>2, <4>3, <4>4
    <3> QED
      BY <3>2, <3>3
  <2>9. Distinct(disk, buffer)'
    BY <2>6 DEF Distinct
  <2> QED
    BY <2>7, <2>8, <2>9 DEF OnceInv
<1> QED
  BY <1>5, <1>7, <1>8, MovesOf

(* No part of a record is in two places of the files: what a buffer holds  *)
(* is written by one process, on one side of a fork, and once (fflush in   *)
(* log_message, the handlers of log_init).                                 *)
THEOREM PartsWrittenOnce == Spec => []WrittenOnce
<1>1. Init => OnceInv
  <2> SUFFICES ASSUME Init PROVE OnceInv
    OBVIOUS
  <2>1. /\ \A f \in Names : disk[f] = << >> /\ Len(disk[f]) = 0
        /\ \A p \in Processes : buffer[p] = << >> /\ Len(buffer[p]) = 0
    BY DEF Init
  <2> QED
    BY <2>1 DEF OnceInv, Distinct
<1>2. LockInv /\ OnceInv => WrittenOnce
  <2> SUFFICES ASSUME LockInv, OnceInv, NEW f \in Names, NEW g \in Names,
                      NEW i \in DOMAIN disk[f], NEW j \in DOMAIN disk[g],
                      disk[f][i] = disk[g][j]
               PROVE  f = g /\ i = j
    BY DEF WrittenOnce
  <2>1. disk[f] \in Seq(Records) /\ disk[g] \in Seq(Records)
    BY DEF LockInv, TypeOK
  <2>2. i \in 1 .. Len(disk[f]) /\ j \in 1 .. Len(disk[g])
    BY <2>1
  <2> QED
    BY <2>2 DEF OnceInv, Distinct
<1> QED
  BY LockInit, LockStep, <1>1, OnceStep, <1>2, PTL DEF Spec
=============================================================================
