-------------------------------- MODULE Logger --------------------------------
(***************************************************************************)
(* The logging library of src/DZ_12_error_handling/src/logger.c: threads   *)
(* of a process and of the child it forks call log_init, log_message and   *)
(* log_close, which share one FILE per process, the mutex log_mutex and    *)
(* the handlers that log_init registers for fork.                          *)
(*                                                                         *)
(* A record is two parts, three when it is of level LOG_ERROR; the parts   *)
(* go through the stream's buffer, which spills when it is full.  stdio,   *)
(* the mutex and fork are modelled from the way the library uses them.     *)
(***************************************************************************)
EXTENDS Integers, Sequences

CONSTANTS
  Threads,      \* threads of the parent process
  Child,        \* the one thread of the forked process
  Managers,     \* threads that call log_init
  Closers,      \* threads that call log_close
  Names,        \* names given to log_init
  BadNames,     \* those that cannot be opened
  BufferParts,  \* parts of a record the stream's buffer has room for
  MaxCalls,     \* bound: calls of one thread
  None          \* "no stream", "no owner"

ASSUME NameAssumption == None \notin Names \cup Threads \cup {Child}
ASSUME ThreadAssumption == Child \notin Threads /\ BufferParts \in Nat \ {0}

VARIABLES
  log_file,           \* per process: the name of its open stream, or None
  buffer,             \* per process: the parts its stream has not written
  log_mutex,          \* per process: the owner of its copy of the mutex
  atfork_registered,  \* per process
  handlers,           \* per process: how often pthread_atfork was called
  disk,               \* the parts in each file
  pc, calls,          \* where each thread is, and its calls so far
  parts, error        \* of the record it writes: parts done, is it LOG_ERROR

fileVars == <<log_file, buffer, disk>>
forkVars == <<atfork_registered, handlers>>
vars == <<fileVars, log_mutex, forkVars, pc, calls, parts, error>>

All == Threads \cup {Child}
Processes == {"parent", "child"}
Of(t) == IF t = Child THEN "child" ELSE "parent"
PartsOf(t) == IF error[t] THEN 3 ELSE 2

Init ==
  /\ log_file  = [p \in Processes |-> None]
  /\ buffer    = [p \in Processes |-> << >>]
  /\ log_mutex = [p \in Processes |-> None]
  /\ atfork_registered = [p \in Processes |-> FALSE]
  /\ handlers  = [p \in Processes |-> 0]
  /\ disk  = [f \in Names |-> << >>]
  /\ pc    = [t \in All |-> IF t = Child THEN "unborn" ELSE "idle"]
  /\ calls = [t \in All |-> 0]
  /\ parts = [t \in All |-> 0]
  /\ error = [t \in All |-> FALSE]

Goto(t, from, to) == pc[t] = from /\ pc' = [pc EXCEPT ![t] = to]

Call(t, to) ==
  /\ calls[t] < MaxCalls
  /\ Goto(t, "idle", to)
  /\ calls' = [calls EXCEPT ![t] = @ + 1]

(* Mutant: log_mutex is taken without waiting for it.                      *)
Lock_Unasked(t, from, to) ==
  /\ Goto(t, from, to)
  /\ log_mutex' = [log_mutex EXCEPT ![Of(t)] = t]
  /\ UNCHANGED <<fileVars, forkVars, calls, parts, error>>

Lock(t, from, to) ==
  /\ log_mutex[Of(t)] = None
  /\ Goto(t, from, to)
  /\ log_mutex' = [log_mutex EXCEPT ![Of(t)] = t]
  /\ UNCHANGED <<fileVars, forkVars, calls, parts, error>>

(* Mutant: the handlers parent and child leave the mutex locked.           *)
Unlock_NotAfterFork(t, from) ==
  /\ Goto(t, from, "idle")
  /\ log_mutex' = IF from = "after" THEN log_mutex
                  ELSE [log_mutex EXCEPT ![Of(t)] = None]
  /\ UNCHANGED <<fileVars, forkVars, calls, parts, error>>

Unlock(t, from) ==
  /\ Goto(t, from, "idle")
  /\ log_mutex' = [log_mutex EXCEPT ![Of(t)] = None]
  /\ UNCHANGED <<fileVars, forkVars, calls, parts, error>>

-----------------------------------------------------------------------------
(* log_message: the test of log_file is made without the mutex.            *)

CheckFile(t) ==
  /\ Call(t, IF log_file[Of(t)] = None THEN "idle" ELSE "lock")
  /\ error' \in {[error EXCEPT ![t] = b] : b \in BOOLEAN}
  /\ parts' = [parts EXCEPT ![t] = 0]
  /\ UNCHANGED <<fileVars, log_mutex, forkVars>>

(* One fprintf, in front of which a full buffer is written out.            *)
Write(t) ==
  LET p == Of(t)
      full == Len(buffer[p]) = BufferParts
      part == [by |-> t, call |-> calls[t], k |-> parts[t] + 1,
               last |-> parts[t] + 1 = PartsOf(t)]
  IN  /\ log_file[p] # None
      /\ Goto(t, "write", IF part.last THEN "flush" ELSE "write")
      /\ parts' = [parts EXCEPT ![t] = @ + 1]
      /\ buffer' = [buffer EXCEPT ![p] = (IF full THEN << >> ELSE @) \o <<part>>]
      /\ disk' = IF full THEN [disk EXCEPT ![log_file[p]] = @ \o buffer[p]] ELSE disk
      /\ UNCHANGED <<log_file, log_mutex, forkVars, calls, error>>

(* fprintf(NULL, ...): the process dies with what its buffer holds.        *)
Crash(t) ==
  /\ pc[t] = "write" /\ log_file[Of(t)] = None
  /\ pc' = [u \in All |-> IF Of(u) = Of(t) THEN "dead" ELSE pc[u]]
  /\ UNCHANGED <<fileVars, log_mutex, forkVars, calls, parts, error>>

(* Mutant: the record is left in the buffer.                               *)
Flush_Left(t) ==
  /\ Goto(t, "flush", "unlock")
  /\ UNCHANGED <<fileVars, log_mutex, forkVars, calls, parts, error>>

Flush(t) ==
  /\ Goto(t, "flush", "unlock")
  /\ disk' = [disk EXCEPT ![log_file[Of(t)]] = @ \o buffer[Of(t)]]
  /\ buffer' = [buffer EXCEPT ![Of(t)] = << >>]
  /\ UNCHANGED <<log_file, log_mutex, forkVars, calls, parts, error>>

log_message(t) ==
  CheckFile(t) \/ Lock(t, "lock", "write") \/ Write(t) \/ Crash(t) \/ Flush(t)
    \/ Unlock(t, "unlock")

-----------------------------------------------------------------------------
(* log_init: the handlers are registered before the mutex is taken.        *)

TestRegistered(t) ==
  /\ Call(t, IF atfork_registered[Of(t)] THEN "initlock" ELSE "register")
  /\ UNCHANGED <<fileVars, log_mutex, forkVars, parts, error>>

Register(t) ==
  /\ Goto(t, "register", "set")
  /\ handlers' = [handlers EXCEPT ![Of(t)] = @ + 1]
  /\ UNCHANGED <<fileVars, log_mutex, atfork_registered, calls, parts, error>>

SetRegistered(t) ==
  /\ Goto(t, "set", "initlock")
  /\ atfork_registered' = [atfork_registered EXCEPT ![Of(t)] = TRUE]
  /\ UNCHANGED <<fileVars, log_mutex, handlers, calls, parts, error>>

(* fclose writes out what the stream still holds.                          *)
SetFile(t, from, name) ==
  LET old == log_file[Of(t)]
  IN  /\ Goto(t, from, "unlock")
      /\ log_file' = [log_file EXCEPT ![Of(t)] = name]
      /\ buffer' = [buffer EXCEPT ![Of(t)] = << >>]
      /\ disk' = IF old = None THEN disk
                 ELSE [disk EXCEPT ![old] = @ \o buffer[Of(t)]]
      /\ UNCHANGED <<log_mutex, forkVars, calls, parts, error>>

Reopen(t) ==
  \E f \in Names : SetFile(t, "reopen", IF f \in BadNames THEN None ELSE f)

log_init(t) ==
  \/ t \in Managers \cup {Child} /\ TestRegistered(t)
  \/ Register(t) \/ SetRegistered(t)
  \/ Lock(t, "initlock", "reopen") \/ Reopen(t)

log_close(t) ==
  \/ /\ t \in Closers /\ Call(t, "closelock")
     /\ UNCHANGED <<fileVars, log_mutex, forkVars, parts, error>>
  \/ Lock(t, "closelock", "close")
  \/ SetFile(t, "close", None)

-----------------------------------------------------------------------------
(* fork, called after log_init as in test.c.  Each registered prepare      *)
(* locks the mutex: a second one waits for the first for ever.             *)
Prepare(t) ==
  /\ pc[Child] = "unborn" /\ atfork_registered["parent"]
  /\ log_mutex["parent"] = None
  /\ Call(t, IF handlers["parent"] > 1 THEN "stuck" ELSE "fork")
  /\ log_mutex' = [log_mutex EXCEPT !["parent"] = t]
  /\ UNCHANGED <<fileVars, forkVars, parts, error>>

(* The child gets a copy of the memory, its thread in place of t.          *)
Duplicate(t) ==
  LET Copy(f) == [f EXCEPT !["child"] = f["parent"]]
  IN  /\ pc[t] = "fork"
      /\ pc' = [pc EXCEPT ![t] = "after", ![Child] = "after"]
      /\ log_file' = Copy(log_file) /\ buffer' = Copy(buffer)
      /\ handlers' = Copy(handlers)
      /\ atfork_registered' = Copy(atfork_registered)
      /\ log_mutex' = [log_mutex EXCEPT !["child"] =
                         IF log_mutex["parent"] = t THEN Child ELSE log_mutex["parent"]]
      /\ UNCHANGED <<disk, calls, parts, error>>

fork(t) == Prepare(t) \/ Duplicate(t) \/ Unlock(t, "after")

-----------------------------------------------------------------------------
Next == \E t \in All : log_message(t) \/ log_init(t) \/ log_close(t) \/ fork(t)

Spec == Init /\ [][Next]_vars

(* Threads are scheduled, and a mutex that is asked for again and again is *)
(* obtained; nobody is bound to call.                                      *)
Waits(t) ==
  \/ Lock(t, "lock", "write") \/ Lock(t, "initlock", "reopen")
  \/ Lock(t, "closelock", "close")
Runs(t) ==
  \/ Write(t) \/ Crash(t) \/ Flush(t) \/ Unlock(t, "unlock") \/ Unlock(t, "after")
  \/ Register(t) \/ SetRegistered(t) \/ Reopen(t) \/ SetFile(t, "close", None)
  \/ Duplicate(t)
FairSpec == Spec /\ \A t \in All : WF_vars(Runs(t)) /\ SF_vars(Waits(t))

-----------------------------------------------------------------------------
(* Properties.                                                             *)

(* The records of one process stay whole in every file: a part is preceded *)
(* by the part before it, a header by the end of a record, although other  *)
(* threads log, the file is changed and the buffer spills in between       *)
(* (README.md line 34: the mutex guarantees the integrity of the log).     *)
Follows(x, y) == IF y.k = 1 THEN x.last ELSE x = [y EXCEPT !.k = @ - 1, !.last = FALSE]
(* Of the first n parts of a file, the j-th is the last of process p.      *)
Latest(s, n, p, j) == Of(s[j].by) = p /\ \A i \in j + 1 .. n : Of(s[i].by) # p
Fits(s, n, x) ==
  /\ \A j \in 1 .. n : Latest(s, n, Of(x.by), j) => Follows(s[j], x)
  /\ x.k # 1 => \E j \in 1 .. n : Latest(s, n, Of(x.by), j)
RecordsWhole ==
  \A f \in Names : \A i \in DOMAIN disk[f] : Fits(disk[f], i - 1, disk[f][i])

(* No part is written twice: what one process has in its buffer is not     *)
(* duplicated into the child and written by both.                          *)
WrittenOnce ==
  \A f, g \in Names : \A i \in DOMAIN disk[f], j \in DOMAIN disk[g] :
    disk[f][i] = disk[g][j] => f = g /\ i = j

(* log_message never writes to a stream that is NULL: what its test of     *)
(* log_file saw still holds when it has the mutex.                         *)
NoNullStream ==
  \A t \in All : pc[t] \in {"write", "flush"} => log_file[Of(t)] # None

(* Every call of the library, and every fork, returns, on both sides of a  *)
(* fork that any thread makes while others log; or the process died.       *)
CallsReturn ==
  \A t \in All : pc[t] \notin {"unborn", "idle"} ~> pc[t] \in {"idle", "dead"}
=============================================================================
