------------------------ MODULE FileSizeDaemonProofs ------------------------
(***************************************************************************)
(* Machine-checked proofs about FileSizeDaemon, for any number of          *)
(* instances, clients, files, paths and inodes and any configuration: one  *)
(* daemon at a time, the PID file names it, its socket leads to it, it     *)
(* owns no other name, and it follows its last load_config.                *)
(***************************************************************************)
EXTENDS FileSizeDaemon, TLAPS

(* Places of a process that has the PID file open.                         *)
Opened == InCharge \cup {"lock"}
(* Places at which the socket name of the current path is bound.           *)
Listening == Accepting \cup {"eintr", "reload", "clear", "apply", "close"}

(* The descriptors: opened and locked exactly where main says so, no inode *)
(* locked twice, and each locked inode names the process that locked it.   *)
FilesInv ==
  /\ pc \in [Instances -> PC]
  /\ pid_fd \in [Instances -> Inodes \cup {Unset}]
  /\ pidFile \in Inodes \cup {Unset}
  /\ pidText \in [Inodes -> Instances \cup {Unset}]
  /\ \A p \in Instances : p \in locked <=> pc[p] \in InCharge
  /\ \A p \in Instances : pid_fd[p] # Unset <=> pc[p] \in Opened
  /\ \A p, q \in Instances :
       pc[p] \in InCharge /\ pc[q] \in InCharge /\ pid_fd[p] = pid_fd[q] => p = q
  /\ \A p \in Instances :
       pc[p] \in InCharge \ {"write"} => pidText[pid_fd[p]] = p

(* The condition under which the name, too, leads to the locked inode.     *)
NameInv ==
  /\ clobbered \in BOOLEAN
  /\ ~clobbered => \A p \in Instances : pid_fd[p] # Unset => pid_fd[p] = pidFile

(* The socket name of the current path is bound to the listening daemon.   *)
SocketInv ==
  /\ config \in Config
  /\ bound \in [Paths -> Instances \cup {Unset, Stale}]
  /\ current \in [Instances -> Setting]
  /\ loaded \in [Instances -> Setting]
  /\ ~clobbered => \A p \in Instances :
       pc[p] \in Listening => bound[current[p].socket] = p

(* The inductive invariant.                                                *)
DaemonInv == FilesInv /\ NameInv /\ SocketInv

-----------------------------------------------------------------------------
(* Places.                                                                 *)

(* The places at which the lock is held are not those of a start.          *)
LEMMA Places ==
  /\ Opened \subseteq PC /\ InCharge \subseteq Opened /\ Listening \subseteq InCharge
  /\ {"off", "begin", "open", "remove"} \cap Opened = {}
  /\ {"off", "begin", "open", "remove"} \subseteq PC
  /\ "lock" \in Opened /\ "lock" \notin InCharge
  /\ {"write", "create", "bind", "drop", "forget", "unlink", "release"} \cap Listening = {}
  /\ {"write", "create", "bind", "drop", "forget", "unlink", "release"} \subseteq InCharge
  /\ Accepting \subseteq Listening
  /\ {"test", "accept", "blocked", "serve", "eintr", "reload", "clear", "apply", "close"}
       = Listening
  BY DEF Opened, InCharge, Listening, PC, Accepting, Starting, Reloading, Leaving

(* What load_config gives is a file and a path.                            *)
LEMMA LoadedSetting ==
  ASSUME NEW old \in Setting, config \in Config
  PROVE  load_config(old) \in Setting
  BY DEF Setting, Config, load_config

(* With the name intact, one process at a time holds the lock.             *)
LEMMA OneInCharge ==
  ASSUME FilesInv, NameInv, ~clobbered, NEW p \in Instances, NEW q \in Instances,
         pc[p] \in InCharge, pc[q] \in InCharge
  PROVE  p = q
<1>1. pid_fd[p] # Unset /\ pid_fd[q] # Unset
  BY Places DEF FilesInv
<1>2. pid_fd[p] = pidFile /\ pid_fd[q] = pidFile
  BY <1>1 DEF NameInv
<1> QED
  BY <1>2 DEF FilesInv

(* All three parts hold before anything was started.                       *)
LEMMA DaemonInit == Init => DaemonInv
<1> SUFFICES ASSUME Init PROVE DaemonInv
  OBVIOUS
<1>1. Default \in Setting /\ [file |-> Unset, socket |-> Unset] \in Config
  BY PathAssumption DEF Default, Setting, Config
<1>2. "off" \in PC /\ "off" \notin Opened /\ "off" \notin InCharge /\ "off" \notin Listening
  BY Places
<1>3. FilesInv
  BY <1>2 DEF Init, FilesInv
<1>4. NameInv
  BY DEF Init, NameInv
<1>5. SocketInv
  BY <1>1, <1>2 DEF Init, SocketInv
<1> QED
  BY <1>3, <1>4, <1>5 DEF DaemonInv

-----------------------------------------------------------------------------
(* The PID file: FilesInv and NameInv.                                     *)

(* A process that leaves the files alone may move between places of one    *)
(* kind: where the PID file is not open, or where it is locked and         *)
(* written.                                                                *)
SameKind(from, to) ==
  \/ {from, to} \subseteq {"off", "begin", "open"}
  \/ {from, to} \subseteq InCharge \ {"write"}

LEMMA FilesMove ==
  ASSUME FilesInv, NameInv, NEW p \in Instances, UNCHANGED pidVars,
         NEW from, NEW to, Goto(p, from, to), SameKind(from, to)
  PROVE  FilesInv' /\ NameInv'
<1>1. to \in PC /\ (to \in InCharge <=> from \in InCharge)
      /\ (to \in Opened <=> from \in Opened)
      /\ (to \in InCharge \ {"write"} <=> from \in InCharge \ {"write"})
  BY Places DEF SameKind
<1>2. /\ pc' \in [Instances -> PC]
      /\ \A q \in Instances : /\ pc'[q] \in InCharge <=> pc[q] \in InCharge
                              /\ pc'[q] \in Opened <=> pc[q] \in Opened
                              /\ pc'[q] \in InCharge \ {"write"}
                                   <=> pc[q] \in InCharge \ {"write"}
  BY <1>1 DEF FilesInv, Goto
<1>3. FilesInv'
  BY <1>2 DEF FilesInv, pidVars
<1> QED
  BY <1>3 DEF NameInv, pidVars

(* check_and_write_pid, the opening.                                       *)
LEMMA FilesOpen ==
  ASSUME FilesInv, NameInv, NEW p \in Instances, OpenPidFile(p)
  PROVE  FilesInv' /\ NameInv'
<1>0. /\ pc[p] = "open" /\ pc' = [pc EXCEPT ![p] = "lock"]
      /\ pid_fd' = [pid_fd EXCEPT ![p] = pidFile']
      /\ locked' = locked /\ clobbered' = clobbered
  BY DEF OpenPidFile, Goto
<1>1. /\ pidFile' \in Inodes
      /\ pidText' \in [Inodes -> Instances \cup {Unset}]
      /\ \A q \in Instances : pid_fd[q] # Unset => pidText'[pid_fd[q]] = pidText[pid_fd[q]]
      /\ ~clobbered => \A q \in Instances : pid_fd[q] # Unset => pid_fd[q] = pidFile'
  <2>1. CASE pidFile # Unset /\ UNCHANGED <<pidFile, pidText>>
    BY <2>1 DEF FilesInv, NameInv
  <2>2. CASE ~(pidFile # Unset /\ UNCHANGED <<pidFile, pidText>>)
    <3>1. PICK i \in Inodes : /\ pidFile = Unset /\ ~InUse(i) /\ pidFile' = i
                              /\ pidText' = [pidText EXCEPT ![i] = Unset]
      BY <2>2 DEF OpenPidFile
    <3>2. \A q \in Instances : pid_fd[q] # i
      BY <3>1 DEF InUse
    <3> QED
      BY <3>1, <3>2 DEF FilesInv, NameInv
  <2> QED
    BY <2>1, <2>2
<1>2. pidFile' # Unset
  BY <1>1, PathAssumption
<1>3. \A q \in Instances :
        /\ pc'[q] \in InCharge => q # p /\ pc[q] \in InCharge
        /\ q # p => pc'[q] = pc[q] /\ pid_fd'[q] = pid_fd[q]
        /\ pid_fd'[p] = pidFile' /\ pc'[p] = "lock"
  BY <1>0, Places DEF FilesInv
<1>4. FilesInv'
  <2>1. pc' \in [Instances -> PC] /\ pid_fd' \in [Instances -> Inodes \cup {Unset}]
    BY <1>0, <1>1, Places DEF FilesInv
  <2>2. \A q \in Instances : q \in locked' <=> pc'[q] \in InCharge
    BY <1>0, <1>3, Places DEF FilesInv
  <2>3. \A q \in Instances : pid_fd'[q] # Unset <=> pc'[q] \in Opened
    BY <1>0, <1>2, <1>3, Places DEF FilesInv
  <2>4. \A q, r \in Instances :
          pc'[q] \in InCharge /\ pc'[r] \in InCharge /\ pid_fd'[q] = pid_fd'[r] => q = r
    BY <1>3 DEF FilesInv
  <2>5. \A q \in Instances : pc'[q] \in InCharge \ {"write"} => pidText'[pid_fd'[q]] = q
    BY <1>1, <1>3, Places DEF FilesInv
  <2> QED
    BY <1>1, <2>1, <2>2, <2>3, <2>4, <2>5 DEF FilesInv
<1>5. NameInv'
  BY <1>0, <1>1, <1>3 DEF NameInv
<1> QED
  BY <1>4, <1>5

(* check_and_write_pid, the lock: it is granted for an inode that nobody   *)
(* else has locked.                                                        *)
LEMMA FilesLock ==
  ASSUME FilesInv, NameInv, NEW p \in Instances, LockPidFile(p)
  PROVE  FilesInv' /\ NameInv'
<1>1. /\ pc[p] = "lock" /\ pc' = [pc EXCEPT ![p] = "write"] /\ locked' = locked \cup {p}
      /\ UNCHANGED <<pidFile, pidText, pid_fd, clobbered>>
      /\ \A q \in locked \ {p} : pid_fd[q] # pid_fd[p]
  BY DEF LockPidFile, Goto, LockHeld
<1>2. /\ pc' \in [Instances -> PC]
      /\ \A q \in Instances :
           /\ pc'[q] \in InCharge <=> pc[q] \in InCharge \/ q = p
           /\ pc'[q] \in Opened <=> pc[q] \in Opened
           /\ pc'[q] \in InCharge \ {"write"} => pc[q] \in InCharge \ {"write"}
  BY <1>1, Places DEF FilesInv
<1>3. FilesInv'
  BY <1>1, <1>2 DEF FilesInv
<1> QED
  BY <1>1, <1>3 DEF NameInv

(* check_and_write_pid, the number: no other locked inode is written.      *)
LEMMA FilesWrite ==
  ASSUME FilesInv, NameInv, NEW p \in Instances, WritePid(p)
  PROVE  FilesInv' /\ NameInv'
<1>1. /\ pc[p] = "write" /\ pc' = [pc EXCEPT ![p] = "create"]
      /\ pidText' = [pidText EXCEPT ![pid_fd[p]] = p]
      /\ UNCHANGED <<pidFile, pid_fd, locked, clobbered>>
  BY DEF WritePid, Goto
<1>2. /\ pc' \in [Instances -> PC] /\ pc[p] \in InCharge
      /\ \A q \in Instances :
           /\ pc'[q] \in InCharge <=> pc[q] \in InCharge
           /\ pc'[q] \in Opened <=> pc[q] \in Opened
           /\ pc'[q] \in InCharge \ {"write"} => q = p \/ pc[q] \in InCharge \ {"write"}
  BY <1>1, Places DEF FilesInv
<1>3. pid_fd[p] \in Inodes
  BY <1>2, Places DEF FilesInv
<1>4. pidText' \in [Inodes -> Instances \cup {Unset}] /\ pidText'[pid_fd[p]] = p
  BY <1>1, <1>3 DEF FilesInv
<1>5. \A q \in Instances : pc'[q] \in InCharge \ {"write"} => pidText'[pid_fd'[q]] = q
  <2> SUFFICES ASSUME NEW q \in Instances, pc'[q] \in InCharge \ {"write"}, q # p
               PROVE  pidText'[pid_fd[q]] = q
    BY <1>1, <1>4
  <2>1. pc[q] \in InCharge \ {"write"} /\ pid_fd[q] # pid_fd[p] /\ pid_fd[q] \in Inodes
    BY <1>2, Places DEF FilesInv
  <2> QED
    BY <1>1, <2>1 DEF FilesInv
<1>6. FilesInv'
  BY <1>1, <1>2, <1>4, <1>5 DEF FilesInv
<1> QED
  BY <1>1, <1>6 DEF NameInv

(* A process that gives up the file keeps the files of the others.         *)
LEMMA FilesGiveUp ==
  ASSUME FilesInv, NameInv, NEW p \in Instances,
         NEW to \in {"off", "remove"}, pc' = [pc EXCEPT ![p] = to],
         pid_fd' = [pid_fd EXCEPT ![p] = Unset], locked' = locked \ {p},
         UNCHANGED <<pidFile, pidText, clobbered>>
  PROVE  FilesInv' /\ NameInv'
<1>1. /\ pc' \in [Instances -> PC] /\ pid_fd' \in [Instances -> Inodes \cup {Unset}]
      /\ pid_fd'[p] = Unset /\ pc'[p] \notin Opened /\ pc'[p] \notin InCharge
      /\ \A q \in Instances \ {p} : pc'[q] = pc[q] /\ pid_fd'[q] = pid_fd[q]
  BY Places DEF FilesInv
<1>2. FilesInv'
  BY <1>1 DEF FilesInv
<1>3. NameInv'
  BY <1>1 DEF NameInv
<1> QED
  BY <1>2, <1>3

(* remove_pid_file: the name goes, and clobbered tells whether another     *)
(* process had it open.                                                    *)
LEMMA FilesRemove ==
  ASSUME FilesInv, NameInv, NEW p \in Instances, remove_pid_file(p)
  PROVE  FilesInv' /\ NameInv'
<1>1. /\ pc[p] = "remove" /\ pc' = [pc EXCEPT ![p] = "off"] /\ pidFile' = Unset
      /\ clobbered' = (clobbered \/ (pidFile # Unset /\ InUseByOther(p, pidFile)))
      /\ UNCHANGED <<pidText, pid_fd, locked>>
  BY DEF remove_pid_file, Forget
<1>2. /\ pc' \in [Instances -> PC]
      /\ \A q \in Instances :
           /\ pc'[q] \in InCharge <=> pc[q] \in InCharge
           /\ pc'[q] \in Opened <=> pc[q] \in Opened
           /\ pc'[q] \in InCharge \ {"write"} => pc[q] \in InCharge \ {"write"}
  BY <1>1, Places DEF FilesInv
<1>3. FilesInv'
  BY <1>1, <1>2 DEF FilesInv
<1>4. pid_fd[p] = Unset
  BY <1>1, Places DEF FilesInv
<1>5. ASSUME ~clobbered', NEW q \in Instances PROVE pid_fd[q] = Unset
  <2>1. ~clobbered /\ (pidFile = Unset \/ ~InUseByOther(p, pidFile))
    BY <1>1, <1>5
  <2>2. pid_fd[q] # Unset => pid_fd[q] = pidFile
    BY <2>1 DEF NameInv
  <2> QED
    BY <1>4, <2>1, <2>2 DEF InUseByOther
<1>6. clobbered' \in BOOLEAN
  BY <1>1 DEF NameInv
<1>7. NameInv'
  BY <1>1, <1>5, <1>6 DEF NameInv
<1> QED
  BY <1>3, <1>7

-----------------------------------------------------------------------------
(* The socket: SocketInv.                                                  *)

(* A step that leaves every socket name alone, and the path of whoever     *)
(* listens.                                                                *)
LEMMA SocketMove ==
  ASSUME SocketInv, bound' = bound, config' \in Config, ~clobbered' => ~clobbered,
         current' \in [Instances -> Setting], loaded' \in [Instances -> Setting],
         \A q \in Instances : pc'[q] \in Listening =>
           pc[q] \in Listening /\ current'[q].socket = current[q].socket
  PROVE  SocketInv'
  BY DEF SocketInv

(* The same for a step of one process that leaves its memory alone.        *)
LEMMA SocketGoto ==
  ASSUME FilesInv, SocketInv, NEW p \in Instances, NEW from, NEW to, Goto(p, from, to),
         to \in Listening => from \in Listening,
         UNCHANGED <<bound, config, clobbered, current, loaded>>
  PROVE  SocketInv'
<1>1. \A q \in Instances : pc'[q] \in Listening => pc[q] \in Listening
  BY DEF Goto, FilesInv
<1> QED
  BY <1>1, SocketMove DEF SocketInv

(* The same for the end of a process.                                      *)
LEMMA SocketForget ==
  ASSUME FilesInv, SocketInv, NEW p \in Instances, Forget(p),
         bound' = bound, config' = config, ~clobbered' => ~clobbered
  PROVE  SocketInv'
<1>1. Default \in Setting
  BY PathAssumption DEF Default, Setting
<1>2. pc' = [pc EXCEPT ![p] = "off"]
      /\ current' = [current EXCEPT ![p] = Default]
      /\ loaded' = [loaded EXCEPT ![p] = Default]
  BY DEF Forget
<1>3. \A q \in Instances : pc'[q] \in Listening =>
        pc[q] \in Listening /\ current'[q].socket = current[q].socket
  BY <1>2, Places DEF FilesInv, SocketInv
<1> QED
  BY <1>1, <1>2, <1>3, SocketMove DEF SocketInv

(* create_socket and the shutdown unlink a name only under the lock: it is *)
(* nobody else's.                                                          *)
LEMMA SocketUnlink ==
  ASSUME DaemonInv, NEW p \in Instances, NEW from \in InCharge,
         NEW to \in {"bind", "forget", "release"}, UnlinkName(p, from, to)
  PROVE  SocketInv'
<1>1. /\ pc[p] = from /\ pc' = [pc EXCEPT ![p] = to]
      /\ bound' = [bound EXCEPT ![current[p].socket] = Unset]
      /\ UNCHANGED <<config, clobbered, current, loaded>>
  BY DEF UnlinkName, Goto, pidVars, memVars
<1>2. ASSUME ~clobbered', NEW q \in Instances, pc'[q] \in Listening PROVE FALSE
  <2>1. pc[q] \in InCharge /\ q # p
    BY <1>1, <1>2, Places DEF DaemonInv, FilesInv
  <2> QED
    BY <1>1, <1>2, <2>1, OneInCharge DEF DaemonInv
<1>3. bound' \in [Paths -> Instances \cup {Unset, Stale}]
  BY <1>1 DEF DaemonInv, SocketInv
<1> QED
  BY <1>1, <1>2, <1>3 DEF DaemonInv, SocketInv

(* create_socket binds the name of the current path.                       *)
LEMMA SocketBind ==
  ASSUME DaemonInv, NEW p \in Instances, Bind(p)
  PROVE  SocketInv'
<1>1. /\ pc[p] = "bind" /\ pc' = [pc EXCEPT ![p] = "test"]
      /\ bound' = [bound EXCEPT ![current[p].socket] = p]
      /\ UNCHANGED <<config, clobbered, current, loaded>>
  BY DEF Bind, Goto, pidVars, memVars
<1>2. current[p].socket \in Paths
  BY DEF DaemonInv, SocketInv, Setting
<1>3. bound' \in [Paths -> Instances \cup {Unset, Stale}] /\ bound'[current[p].socket] = p
  BY <1>1, <1>2 DEF DaemonInv, SocketInv
<1>4. ASSUME ~clobbered', NEW q \in Instances, pc'[q] \in Listening PROVE q = p
  <2>1. CASE q # p
    <3>1. pc[q] \in InCharge
      BY <1>1, <1>4, <2>1, Places DEF DaemonInv, FilesInv
    <3> QED
      BY <1>1, <1>4, <3>1, Places, OneInCharge DEF DaemonInv
  <2> QED
    BY <2>1
<1> QED
  BY <1>1, <1>3, <1>4 DEF DaemonInv, SocketInv

(* The kernel leaves the names of other processes alone.                   *)
LEMMA SocketKill ==
  ASSUME DaemonInv, NEW p \in Instances, Kill(p)
  PROVE  SocketInv'
<1>1. Default \in Setting
  BY PathAssumption DEF Default, Setting
<1>2. /\ pc' = [pc EXCEPT ![p] = "off"]
      /\ current' = [current EXCEPT ![p] = Default]
      /\ loaded' = [loaded EXCEPT ![p] = Default]
      /\ bound' = [s \in Paths |-> IF bound[s] = p THEN Stale ELSE bound[s]]
      /\ UNCHANGED <<config, clobbered>>
  BY DEF Kill, Forget
<1>3. bound' \in [Paths -> Instances \cup {Unset, Stale}]
  BY <1>2 DEF DaemonInv, SocketInv
<1>4. ASSUME ~clobbered', NEW q \in Instances, pc'[q] \in Listening
      PROVE  bound'[current'[q].socket] = q
  <2>1. q # p
    BY <1>2, <1>4, Places DEF DaemonInv, FilesInv
  <2>2. pc[q] \in Listening /\ current'[q] = current[q] /\ current[q].socket \in Paths
    BY <1>2, <1>4, <2>1 DEF DaemonInv, FilesInv, SocketInv, Setting
  <2>3. bound[current[q].socket] = q
    BY <1>2, <1>4, <2>2 DEF DaemonInv, SocketInv
  <2> QED
    BY <1>2, <2>1, <2>2, <2>3
<1> QED
  BY <1>1, <1>2, <1>3, <1>4 DEF DaemonInv, SocketInv

-----------------------------------------------------------------------------
(* The steps.                                                              *)

(* A step of one process between places of one kind keeps the invariant    *)
(* when it touches neither the files nor a socket name nor its memory.     *)
LEMMA PlainStep ==
  ASSUME DaemonInv, NEW p \in Instances, NEW from, NEW to, Goto(p, from, to),
         SameKind(from, to), to \in Listening => from \in Listening,
         UNCHANGED <<config, pidVars, bound, memVars>>
  PROVE  DaemonInv'
<1>1. FilesInv' /\ NameInv'
  BY FilesMove DEF DaemonInv
<1>2. SocketInv'
  BY SocketGoto DEF DaemonInv, pidVars, memVars
<1> QED
  BY <1>1, <1>2 DEF DaemonInv

(* The places main goes to, by kind.                                       *)
LEMMA Kinds ==
  /\ SameKind("off", "begin") /\ SameKind("begin", "open")
  /\ \A from, to \in InCharge \ {"write"} : SameKind(from, to)
  /\ Listening \cup {"create", "bind", "drop", "forget", "unlink", "release"}
       = InCharge \ {"write"}
  BY Places DEF SameKind, InCharge, Listening, Accepting, Reloading

(* The start, up to the lock and the number in the PID file.               *)
LEMMA StepStarting ==
  ASSUME DaemonInv, NEW p \in Instances,
         \/ Start(p) \/ Begin(p) \/ OpenPidFile(p) \/ LockPidFile(p)
         \/ Refused(p) \/ WritePid(p)
  PROVE  DaemonInv'
<1>1. CASE Start(p)
  BY <1>1, PlainStep, Kinds, Places DEF Start, netVars
<1>2. CASE Begin(p)
  <2>1. load_config(Default) \in Setting
    BY PathAssumption, LoadedSetting DEF Default, Setting, DaemonInv, SocketInv
  <2>2. /\ current' \in [Instances -> Setting] /\ loaded' \in [Instances -> Setting]
        /\ \A q \in Instances : pc'[q] \in Listening =>
             pc[q] \in Listening /\ current'[q].socket = current[q].socket
    BY <1>2, <2>1, Places DEF Begin, Goto, DaemonInv, FilesInv, SocketInv
  <2>3. SocketInv'
    BY <1>2, <2>2, SocketMove DEF Begin, netVars, pidVars, DaemonInv, SocketInv
  <2>4. FilesInv' /\ NameInv'
    BY <1>2, FilesMove, Kinds DEF Begin, DaemonInv
  <2> QED
    BY <2>3, <2>4 DEF DaemonInv
<1>3. CASE OpenPidFile(p)
  <2>1. SocketInv'
    BY <1>3, SocketGoto, Places DEF OpenPidFile, netVars, memVars, DaemonInv
  <2> QED
    BY <1>3, <2>1, FilesOpen DEF DaemonInv
<1>4. CASE LockPidFile(p)
  <2>1. SocketInv'
    BY <1>4, SocketGoto, Places DEF LockPidFile, netVars, memVars, DaemonInv
  <2> QED
    BY <1>4, <2>1, FilesLock DEF DaemonInv
<1>5. CASE Refused(p)
  <2>1. SocketInv'
    BY <1>5, SocketForget DEF Refused, netVars, DaemonInv
  <2>2. p \notin locked
    BY <1>5, Places DEF Refused, DaemonInv, FilesInv
  <2>3. locked' = locked \ {p}
    BY <1>5, <2>2 DEF Refused
  <2>4. FilesInv' /\ NameInv'
    BY <1>5, <2>3, FilesGiveUp DEF Refused, Forget, DaemonInv
  <2> QED
    BY <2>1, <2>4 DEF DaemonInv
<1>6. CASE WritePid(p)
  <2>1. SocketInv'
    BY <1>6, SocketGoto, Places DEF WritePid, netVars, memVars, DaemonInv
  <2> QED
    BY <1>6, <2>1, FilesWrite DEF DaemonInv
<1> QED
  BY <1>1, <1>2, <1>3, <1>4, <1>5, <1>6

(* The socket, the accept loop and the reload.                             *)
LEMMA StepAccepting ==
  ASSUME DaemonInv, NEW p \in Instances,
         \/ UnlinkName(p, "create", "bind") \/ Bind(p) \/ BindFails(p)
         \/ TestRunning(p) \/ Sleep(p) \/ Accept(p) \/ AcceptError(p) \/ Serve(p)
  PROVE  DaemonInv'
<1> USE Kinds, Places
<1>1. CASE UnlinkName(p, "create", "bind")
  <2>1. FilesInv' /\ NameInv'
    BY <1>1, FilesMove DEF UnlinkName, DaemonInv
  <2> QED
    BY <1>1, <2>1, SocketUnlink DEF DaemonInv
<1>2. CASE Bind(p)
  <2>1. FilesInv' /\ NameInv'
    BY <1>2, FilesMove DEF Bind, DaemonInv
  <2> QED
    BY <1>2, <2>1, SocketBind DEF DaemonInv
<1>3. CASE BindFails(p)
  BY <1>3, PlainStep DEF BindFails, netVars
<1>4. CASE TestRunning(p)
  BY <1>4, PlainStep DEF TestRunning, netVars
<1>5. CASE Sleep(p)
  BY <1>5, PlainStep DEF Sleep, netVars
<1>6. CASE Accept(p)
  BY <1>6, PlainStep DEF Accept, netVars
<1>7. CASE AcceptError(p)
  BY <1>7, PlainStep DEF AcceptError, netVars
<1>8. CASE Serve(p)
  BY <1>8, PlainStep DEF Serve
<1> QED
  BY <1>1, <1>2, <1>3, <1>4, <1>5, <1>6, <1>7, <1>8

(* The reload.                                                             *)
LEMMA StepReloading ==
  ASSUME DaemonInv, NEW p \in Instances,
         \/ Eintr(p) \/ Reload(p) \/ ClearRequest(p) \/ SamePath(p) \/ NewPath(p)
         \/ UnlinkName(p, "drop", "forget") \/ Adopt(p)
  PROVE  DaemonInv'
<1> USE Kinds, Places
<1>0. current[p] \in Setting /\ loaded[p] \in Setting
  BY DEF DaemonInv, SocketInv
<1>1. CASE Eintr(p)
  BY <1>1, PlainStep DEF Eintr, netVars
<1>2. CASE Reload(p)
  <2>1. FilesInv' /\ NameInv'
    BY <1>2, FilesMove DEF Reload, DaemonInv
  <2>2. load_config(current[p]) \in Setting
    BY <1>0, LoadedSetting DEF DaemonInv, SocketInv
  <2>3. loaded' \in [Instances -> Setting]
    BY <1>2, <2>2 DEF Reload, DaemonInv, SocketInv
  <2>4. \A q \in Instances : pc'[q] \in Listening => pc[q] \in Listening
    BY <1>2 DEF Reload, Goto, DaemonInv, FilesInv
  <2>5. SocketInv'
    BY <1>2, <2>3, <2>4, SocketMove DEF Reload, netVars, pidVars, DaemonInv, SocketInv
  <2> QED
    BY <2>1, <2>5 DEF DaemonInv
<1>3. CASE ClearRequest(p)
  BY <1>3, PlainStep DEF ClearRequest, netVars
<1>4. CASE SamePath(p)
  <2>1. FilesInv' /\ NameInv'
    BY <1>4, FilesMove DEF SamePath, DaemonInv
  <2>2. [current[p] EXCEPT !.file = loaded[p].file] \in Setting
        /\ [current[p] EXCEPT !.file = loaded[p].file].socket = current[p].socket
    BY <1>0 DEF Setting
  <2>3. current' = [current EXCEPT ![p] = [current[p] EXCEPT !.file = loaded[p].file]]
    BY <1>4 DEF SamePath
  <2>4. current' \in [Instances -> Setting]
        /\ \A q \in Instances : current'[q].socket = current[q].socket
    BY <2>2, <2>3 DEF DaemonInv, SocketInv
  <2>5. \A q \in Instances : pc'[q] \in Listening => pc[q] \in Listening
    BY <1>4 DEF SamePath, Goto, DaemonInv, FilesInv
  <2>6. SocketInv'
    BY <1>4, <2>4, <2>5, SocketMove DEF SamePath, netVars, pidVars, DaemonInv, SocketInv
  <2> QED
    BY <2>1, <2>6 DEF DaemonInv
<1>5. CASE NewPath(p)
  BY <1>5, PlainStep DEF NewPath
<1>6. CASE UnlinkName(p, "drop", "forget")
  <2>1. FilesInv' /\ NameInv'
    BY <1>6, FilesMove DEF UnlinkName, DaemonInv
  <2> QED
    BY <1>6, <2>1, SocketUnlink DEF DaemonInv
<1>7. CASE Adopt(p)
  <2>1. FilesInv' /\ NameInv'
    BY <1>7, FilesMove DEF Adopt, DaemonInv
  <2>2. current' \in [Instances -> Setting]
    BY <1>0, <1>7 DEF Adopt, DaemonInv, SocketInv
  <2>3. \A q \in Instances : pc'[q] \in Listening =>
          pc[q] \in Listening /\ current'[q].socket = current[q].socket
    BY <1>7 DEF Adopt, Goto, DaemonInv, FilesInv, SocketInv
  <2>4. SocketInv'
    BY <1>7, <2>2, <2>3, SocketMove DEF Adopt, netVars, pidVars, DaemonInv, SocketInv
  <2> QED
    BY <2>1, <2>4 DEF DaemonInv
<1> QED
  BY <1>1, <1>2, <1>3, <1>4, <1>5, <1>6, <1>7

(* The end of a process, by its own steps or by SIGKILL.                   *)
LEMMA StepLeaving ==
  ASSUME DaemonInv, NEW p \in Instances,
         \/ Close(p) \/ UnlinkName(p, "unlink", "release") \/ ReleaseLock(p)
         \/ remove_pid_file(p) \/ Kill(p)
  PROVE  DaemonInv'
<1> USE Kinds, Places
<1>1. CASE Close(p)
  BY <1>1, PlainStep DEF Close
<1>2. CASE UnlinkName(p, "unlink", "release")
  <2>1. FilesInv' /\ NameInv'
    BY <1>2, FilesMove DEF UnlinkName, DaemonInv
  <2> QED
    BY <1>2, <2>1, SocketUnlink DEF DaemonInv
<1>3. CASE ReleaseLock(p)
  <2>1. FilesInv' /\ NameInv'
    BY <1>3, FilesGiveUp DEF ReleaseLock, Goto, DaemonInv
  <2>2. SocketInv'
    BY <1>3, SocketGoto DEF ReleaseLock, netVars, memVars, DaemonInv
  <2> QED
    BY <2>1, <2>2 DEF DaemonInv
<1>4. CASE remove_pid_file(p)
  <2>1. SocketInv'
    BY <1>4, SocketForget DEF remove_pid_file, netVars, DaemonInv
  <2> QED
    BY <1>4, <2>1, FilesRemove DEF DaemonInv
<1>5. CASE Kill(p)
  <2>1. FilesInv' /\ NameInv'
    BY <1>5, FilesGiveUp DEF Kill, Forget, DaemonInv
  <2> QED
    BY <1>5, <2>1, SocketKill DEF DaemonInv
<1> QED
  BY <1>1, <1>2, <1>3, <1>4, <1>5

(* Signals, clients and the editor of daemon.conf.                         *)
LEMMA StepWorld ==
  ASSUME DaemonInv,
         \/ \E p \in Instances : handle_sighup(p) \/ handle_sigterm(p)
         \/ \E p \in Instances, c \in Clients : Connect(c, p)
         \/ EditConfig
         \/ UNCHANGED vars
  PROVE  DaemonInv'
<1> USE Kinds, Places
<1>1. ASSUME UNCHANGED <<pidVars, bound, memVars, pc>>, config' \in Config
      PROVE  DaemonInv'
  <2>1. FilesInv' /\ NameInv'
    BY <1>1 DEF pidVars, DaemonInv, FilesInv, NameInv
  <2>2. SocketInv'
    BY <1>1, SocketMove DEF pidVars, memVars, DaemonInv, SocketInv
  <2> QED
    BY <2>1, <2>2 DEF DaemonInv
<1>2. ASSUME NEW p \in Instances, Signalled(p),
             UNCHANGED <<config, pidVars, bound, memVars>>
      PROVE  DaemonInv'
  <2>1. CASE pc[p] = "blocked"
    BY <1>2, <2>1, PlainStep DEF Signalled, Goto
  <2>2. CASE pc[p] # "blocked"
    BY <1>1, <1>2, <2>2 DEF Signalled, DaemonInv, SocketInv
  <2> QED
    BY <2>1, <2>2
<1>3. ASSUME NEW p \in Instances, handle_sighup(p) \/ handle_sigterm(p)
      PROVE  DaemonInv'
  BY <1>2, <1>3 DEF handle_sighup, handle_sigterm, netVars
<1>4. ASSUME NEW p \in Instances, NEW c \in Clients, Connect(c, p)
      PROVE  DaemonInv'
  BY <1>1, <1>4 DEF Connect, DaemonInv, SocketInv
<1>5. CASE EditConfig
  BY <1>1, <1>5, ConfigAssumption DEF EditConfig, netVars
<1>6. CASE UNCHANGED vars
  BY <1>1, <1>6 DEF vars, netVars, DaemonInv, SocketInv
<1> QED
  BY <1>3, <1>4, <1>5, <1>6

(* The invariant is inductive.                                             *)
LEMMA DaemonStep == DaemonInv /\ [Next]_vars => DaemonInv'
<1> SUFFICES ASSUME DaemonInv, [Next]_vars PROVE DaemonInv'
  OBVIOUS
<1>1. ASSUME NEW p \in Instances, Start(p) \/ main(p) \/ AcceptError(p) \/ Kill(p)
      PROVE  DaemonInv'
  BY <1>1, StepStarting, StepAccepting, StepReloading, StepLeaving DEF main
<1> QED
  BY <1>1, StepWorld DEF Next

(* What the invariant implies.                                             *)
LEMMA DaemonImplies == DaemonInv => OneDaemon /\ PidFileNamesDaemon /\ Reachable
<1> SUFFICES ASSUME DaemonInv, ~clobbered
             PROVE  OneDaemon /\ PidFileNamesDaemon /\ Reachable
  BY DEF OneDaemon, PidFileNamesDaemon, Reachable
<1>1. OneDaemon
  BY OneInCharge DEF DaemonInv, OneDaemon, Daemons
<1>2. ASSUME NEW p \in Daemons, pc[p] # "write"
      PROVE  pidFile # Unset /\ pidText[pidFile] = p
  <2>1. p \in Instances /\ pc[p] \in InCharge \ {"write"}
    BY <1>2 DEF Daemons
  <2>2. pid_fd[p] # Unset /\ pidText[pid_fd[p]] = p
    BY <2>1, Places DEF DaemonInv, FilesInv
  <2>3. pid_fd[p] = pidFile
    BY <2>1, <2>2 DEF DaemonInv, NameInv
  <2> QED
    BY <2>2, <2>3
<1>3. Reachable
  BY Places DEF DaemonInv, SocketInv, Reachable, Daemons
<1> QED
  BY <1>1, <1>2, <1>3 DEF PidFileNamesDaemon

(* check_and_write_pid lets one instance in at a time, however many are    *)
(* started, killed and restarted, until an instance that leaves removes    *)
(* the PID file another one has opened.                                    *)
THEOREM DaemonIsUnique == Spec => []OneDaemon
  BY DaemonInit, DaemonStep, DaemonImplies, PTL DEF Spec

(* Under the same condition kill $(cat PID_FILE) reaches the daemon.       *)
THEOREM PidFileIsRight == Spec => []PidFileNamesDaemon
  BY DaemonInit, DaemonStep, DaemonImplies, PTL DEF Spec

(* Under the same condition no start, reload, shutdown or kill of another  *)
(* instance takes the socket name of an accepting daemon away.             *)
THEOREM DaemonIsReachable == Spec => []Reachable
  BY DaemonInit, DaemonStep, DaemonImplies, PTL DEF Spec

-----------------------------------------------------------------------------
(* The memory of a process: what it owns, watches and listens on.          *)

(* Places at which a process may own a socket name, and places at which    *)
(* file_to_watch and current_socket_path are those of the last load.       *)
Owning  == Listening \cup {"drop", "unlink"}
Settled == {"off", "begin", "open", "lock", "write", "create", "bind", "eintr", "reload"}
             \cup Accepting

OwnInv(q) ==
  /\ \A s \in Paths : bound[s] = q => pc[q] \in Owning /\ current[q].socket = s
  /\ pc[q] \in Settled => current[q] = loaded[q]
  /\ pc[q] \in Listening => server_fd[q] = current[q].socket

MemoryInv ==
  /\ DaemonInv
  /\ server_fd \in [Instances -> Paths \cup {Unset}]
  /\ \A q \in Instances : OwnInv(q)

(* The places by name.                                                     *)
LEMMA OwningPlaces ==
  /\ Owning = {"test", "accept", "blocked", "serve", "eintr", "reload", "clear",
               "apply", "close", "drop", "unlink"}
  /\ Settled = {"off", "begin", "open", "lock", "write", "create", "bind", "eintr",
                "reload", "test", "accept", "blocked", "serve"}
  /\ Listening = {"test", "accept", "blocked", "serve", "eintr", "reload", "clear",
                  "apply", "close"}
  BY DEF Owning, Settled, Listening, Accepting

(* A process that keeps its memory and its listening socket.               *)
LEMMA OwnMove ==
  ASSUME NEW q \in Instances, OwnInv(q),
         current'[q] = current[q], loaded'[q] = loaded[q], server_fd'[q] = server_fd[q],
         \A s \in Paths : bound'[s] = q => bound[s] = q,
         pc[q] \in Owning => pc'[q] \in Owning,
         pc'[q] \in Settled => pc[q] \in Settled,
         pc'[q] \in Listening => pc[q] \in Listening
  PROVE  OwnInv(q)'
  BY DEF OwnInv

(* A step of one process changes nothing of another one's, but for taking  *)
(* a socket name away.                                                     *)
LEMMA OnlyItsOwn ==
  ASSUME MemoryInv, NEW p \in Instances,
         Start(p) \/ main(p) \/ AcceptError(p) \/ Kill(p) \/ handle_sighup(p)
           \/ handle_sigterm(p),
         NEW q \in Instances, q # p
  PROVE  /\ pc'[q] = pc[q] /\ current'[q] = current[q] /\ loaded'[q] = loaded[q]
         /\ server_fd'[q] = server_fd[q] /\ \A s \in Paths : bound'[s] = q => bound[s] = q
<1> USE DEF MemoryInv, DaemonInv, FilesInv, SocketInv, Goto, netVars, memVars
<1>0. q # Unset /\ q # Stale
  BY PathAssumption
<1>1. CASE Start(p) \/ Begin(p) \/ OpenPidFile(p) \/ LockPidFile(p) \/ WritePid(p)
  BY <1>1 DEF Start, Begin, OpenPidFile, LockPidFile, WritePid
<1>2. CASE Refused(p) \/ remove_pid_file(p)
  BY <1>2 DEF Refused, remove_pid_file, Forget
<1>3. ASSUME NEW from, NEW to, UnlinkName(p, from, to)
      PROVE  /\ pc'[q] = pc[q] /\ UNCHANGED <<current, loaded, server_fd>>
             /\ \A s \in Paths : bound'[s] = q => bound[s] = q
  BY <1>0, <1>3 DEF UnlinkName
<1>4. CASE Bind(p)
  BY <1>4 DEF Bind
<1>5. CASE \/ BindFails(p) \/ TestRunning(p) \/ Sleep(p) \/ Accept(p) \/ AcceptError(p)
           \/ Serve(p) \/ Eintr(p)
  BY <1>5 DEF BindFails, TestRunning, Sleep, Accept, AcceptError, Serve, Eintr
<1>6. CASE Reload(p) \/ ClearRequest(p) \/ SamePath(p) \/ Adopt(p)
  BY <1>6 DEF Reload, ClearRequest, SamePath, Adopt
<1>7. CASE NewPath(p) \/ Close(p)
  BY <1>7 DEF NewPath, Close, CloseServer
<1>8. CASE ReleaseLock(p)
  BY <1>8 DEF ReleaseLock
<1>9. CASE Kill(p)
  BY <1>0, <1>9 DEF Kill, Forget, CloseServer
<1>10. CASE handle_sighup(p) \/ handle_sigterm(p)
  BY <1>10 DEF handle_sighup, handle_sigterm, Signalled
<1> QED
  BY <1>1, <1>2, <1>3, <1>4, <1>5, <1>6, <1>7, <1>8, <1>9, <1>10 DEF main

(* The steps that leave a process its memory and its listening socket.     *)
LEMMA OwnKept ==
  ASSUME MemoryInv, NEW p \in Instances,
         \/ Start(p) \/ OpenPidFile(p) \/ LockPidFile(p) \/ WritePid(p)
         \/ UnlinkName(p, "create", "bind") \/ BindFails(p)
         \/ TestRunning(p) \/ Sleep(p) \/ Accept(p) \/ AcceptError(p) \/ Serve(p)
         \/ Eintr(p) \/ ClearRequest(p) \/ ReleaseLock(p)
         \/ handle_sighup(p) \/ handle_sigterm(p)
  PROVE  OwnInv(p)'
<1> USE DEF Goto, netVars, memVars
<1>0. pc \in [Instances -> PC] /\ bound \in [Paths -> Instances \cup {Unset, Stale}]
      /\ p # Unset
  BY PathAssumption DEF MemoryInv, DaemonInv, FilesInv, SocketInv
<1>1. UNCHANGED <<current, loaded, server_fd>>
  BY DEF Start, OpenPidFile, LockPidFile, WritePid, UnlinkName, BindFails, TestRunning,
         Sleep, Accept, AcceptError, Serve, Eintr, ClearRequest, ReleaseLock,
         handle_sighup, handle_sigterm
<1>2. \A s \in Paths : bound'[s] = p => bound[s] = p
  <2>1. CASE UnlinkName(p, "create", "bind")
    BY <1>0, <2>1 DEF UnlinkName
  <2>2. CASE ~UnlinkName(p, "create", "bind")
    BY <2>2 DEF Start, OpenPidFile, LockPidFile, WritePid, BindFails, TestRunning,
         Sleep, Accept, AcceptError, Serve, Eintr, ClearRequest, ReleaseLock,
         handle_sighup, handle_sigterm
  <2> QED
    BY <2>1, <2>2
<1>3. /\ pc[p] \in Owning => pc'[p] \in Owning
      /\ pc'[p] \in Settled => pc[p] \in Settled
      /\ pc'[p] \in Listening => pc[p] \in Listening
  <2>1. CASE Start(p) \/ OpenPidFile(p) \/ LockPidFile(p) \/ WritePid(p)
    BY <1>0, <2>1, OwningPlaces DEF Start, OpenPidFile, LockPidFile, WritePid
  <2>2. CASE UnlinkName(p, "create", "bind") \/ BindFails(p) \/ ReleaseLock(p)
    BY <1>0, <2>2, OwningPlaces DEF UnlinkName, BindFails, ReleaseLock
  <2>3. CASE TestRunning(p) \/ Sleep(p) \/ Accept(p) \/ AcceptError(p) \/ Serve(p)
    BY <1>0, <2>3, OwningPlaces DEF TestRunning, Sleep, Accept, AcceptError, Serve
  <2>4. CASE Eintr(p) \/ ClearRequest(p) \/ handle_sighup(p) \/ handle_sigterm(p)
    BY <1>0, <2>4, OwningPlaces
    DEF Eintr, ClearRequest, handle_sighup, handle_sigterm, Signalled
  <2> QED
    BY <2>1, <2>2, <2>3, <2>4
<1> QED
  BY <1>1, <1>2, <1>3, OwnMove DEF MemoryInv

(* The steps that load, take over, bind or give up.                        *)
LEMMA OwnChanged ==
  ASSUME MemoryInv, NEW p \in Instances,
         \/ Begin(p) \/ Bind(p) \/ Reload(p) \/ SamePath(p) \/ NewPath(p)
         \/ UnlinkName(p, "drop", "forget") \/ Adopt(p) \/ Close(p)
         \/ UnlinkName(p, "unlink", "release")
  PROVE  OwnInv(p)'
<1> USE DEF Goto, netVars, memVars
<1>0. /\ pc \in [Instances -> PC] /\ bound \in [Paths -> Instances \cup {Unset, Stale}]
      /\ current \in [Instances -> Setting] /\ loaded \in [Instances -> Setting]
      /\ server_fd \in [Instances -> Paths \cup {Unset}]
      /\ p # Unset /\ OwnInv(p)
  BY PathAssumption DEF MemoryInv, DaemonInv, FilesInv, SocketInv
<1>1. CASE Begin(p)
  <2>1. /\ current'[p] = loaded'[p] /\ bound' = bound
        /\ pc[p] = "begin" /\ pc'[p] = "open"
    BY <1>0, <1>1 DEF Begin
  <2> QED
    BY <1>0, <2>1, OwningPlaces DEF OwnInv
<1>2. CASE Bind(p)
  <2>1. /\ pc[p] = "bind" /\ pc'[p] = "test" /\ UNCHANGED <<current, loaded>>
        /\ bound' = [bound EXCEPT ![current[p].socket] = p]
        /\ server_fd'[p] = current[p].socket
    BY <1>0, <1>2 DEF Bind
  <2>2. \A s \in Paths : bound[s] # p
    BY <1>0, <2>1, OwningPlaces DEF OwnInv
  <2> QED
    BY <1>0, <2>1, <2>2, OwningPlaces DEF OwnInv
<1>3. CASE Reload(p)
  BY <1>0, <1>3, OwningPlaces DEF OwnInv, Reload
<1>4. CASE SamePath(p)
  <2>1. \A a, b \in Setting : a.socket = b.socket =>
          [a EXCEPT !.file = b.file] = b /\ [a EXCEPT !.file = b.file].socket = a.socket
    BY DEF Setting
  <2>2. /\ current' = [current EXCEPT ![p] = [current[p] EXCEPT !.file = loaded[p].file]]
        /\ loaded[p].socket = current[p].socket /\ UNCHANGED <<bound, loaded, server_fd>>
        /\ pc[p] = "apply" /\ pc'[p] = "test"
    BY <1>0, <1>4 DEF SamePath
  <2>3. current'[p] = loaded[p] /\ current'[p].socket = current[p].socket
    BY <1>0, <2>1, <2>2
  <2> QED
    BY <1>0, <2>2, <2>3, OwningPlaces DEF OwnInv
<1>5. CASE NewPath(p) \/ Close(p)
  <2>1. /\ UNCHANGED <<bound, current>> /\ pc[p] \in Owning
        /\ pc'[p] \in {"drop", "unlink"}
    BY <1>0, <1>5, OwningPlaces DEF NewPath, Close
  <2> QED
    BY <1>0, <2>1, OwningPlaces DEF OwnInv
<1>6. ASSUME NEW from \in {"drop", "unlink"}, NEW to \in {"forget", "release"},
             UnlinkName(p, from, to)
      PROVE  OwnInv(p)'
  <2>1. /\ pc[p] = from /\ pc'[p] = to /\ UNCHANGED <<current, loaded>>
        /\ bound' = [bound EXCEPT ![current[p].socket] = Unset]
    BY <1>0, <1>6 DEF UnlinkName
  <2>2. \A s \in Paths : bound'[s] # p
    BY <1>0, <2>1 DEF OwnInv
  <2> QED
    BY <2>1, <2>2, OwningPlaces DEF OwnInv
<1>7. CASE Adopt(p)
  <2>1. /\ UNCHANGED <<bound, loaded>> /\ current'[p] = loaded[p]
        /\ pc[p] = "forget" /\ pc'[p] = "create"
    BY <1>0, <1>7 DEF Adopt
  <2> QED
    BY <1>0, <2>1, OwningPlaces DEF OwnInv
<1> QED
  BY <1>1, <1>2, <1>3, <1>4, <1>5, <1>6, <1>7

(* The end of a process: no socket name is its own any more.               *)
LEMMA OwnEnd ==
  ASSUME MemoryInv, NEW p \in Instances, Refused(p) \/ remove_pid_file(p) \/ Kill(p)
  PROVE  OwnInv(p)'
<1>0. /\ pc \in [Instances -> PC] /\ bound \in [Paths -> Instances \cup {Unset, Stale}]
      /\ current \in [Instances -> Setting] /\ loaded \in [Instances -> Setting]
      /\ p # Stale /\ OwnInv(p)
  BY PathAssumption DEF MemoryInv, DaemonInv, FilesInv, SocketInv
<1>1. pc'[p] = "off" /\ current'[p] = loaded'[p]
  BY <1>0 DEF Refused, remove_pid_file, Kill, Forget
<1>2. \A s \in Paths : bound'[s] # p
  <2>1. CASE Refused(p) \/ remove_pid_file(p)
    BY <1>0, <2>1, OwningPlaces DEF OwnInv, Refused, remove_pid_file, netVars
  <2>2. CASE Kill(p)
    BY <1>0, <2>2 DEF Kill
  <2> QED
    BY <2>1, <2>2
<1> QED
  BY <1>1, <1>2, OwningPlaces DEF OwnInv

LEMMA SocketsTyped ==
  ASSUME MemoryInv, [Next]_vars
  PROVE  server_fd' \in [Instances -> Paths \cup {Unset}]
<1> USE DEF MemoryInv
<1>1. ASSUME NEW p \in Instances, Bind(p) \/ NewPath(p) \/ Close(p) \/ Kill(p)
      PROVE  server_fd' \in [Instances -> Paths \cup {Unset}]
  <2>1. current[p].socket \in Paths
    BY DEF DaemonInv, SocketInv, Setting
  <2> QED
    BY <1>1, <2>1 DEF Bind, NewPath, Close, Kill, CloseServer
<1>2. CASE UNCHANGED server_fd
  BY <1>2
<1>3. ASSUME NEW p \in Instances,
             \/ Start(p) \/ Begin(p) \/ OpenPidFile(p) \/ LockPidFile(p) \/ Refused(p)
             \/ WritePid(p) \/ BindFails(p) \/ TestRunning(p) \/ Sleep(p) \/ Accept(p)
             \/ AcceptError(p) \/ Serve(p)
      PROVE  UNCHANGED server_fd
  BY <1>3 DEF Start, Begin, OpenPidFile, LockPidFile, Refused, WritePid, BindFails,
              TestRunning, Sleep, Accept, AcceptError, Serve, netVars
<1>4. ASSUME NEW p \in Instances,
             \/ Eintr(p) \/ Reload(p) \/ ClearRequest(p) \/ SamePath(p) \/ Adopt(p)
             \/ ReleaseLock(p) \/ remove_pid_file(p) \/ handle_sighup(p)
             \/ handle_sigterm(p) \/ \E c \in Clients : Connect(c, p)
      PROVE  UNCHANGED server_fd
  BY <1>4 DEF Eintr, Reload, ClearRequest, SamePath, Adopt, ReleaseLock,
              remove_pid_file, handle_sighup, handle_sigterm, Connect, netVars
<1>5. ASSUME NEW p \in Instances, NEW from, NEW to, UnlinkName(p, from, to)
      PROVE  UNCHANGED server_fd
  BY <1>5 DEF UnlinkName
<1>6. CASE EditConfig \/ UNCHANGED vars
  BY <1>6 DEF EditConfig, vars, netVars
<1> QED
  BY <1>1, <1>2, <1>3, <1>4, <1>5, <1>6 DEF Next, main

LEMMA MemoryInit == Init => MemoryInv
<1> SUFFICES ASSUME Init PROVE MemoryInv
  OBVIOUS
<1>1. DaemonInv
  BY DaemonInit
<1>2. \A s \in Paths, p \in Instances : bound[s] # p
  BY PathAssumption DEF Init
<1>3. \A p \in Instances : OwnInv(p)
  BY <1>2, OwningPlaces DEF OwnInv, Init
<1> QED
  BY <1>1, <1>3 DEF MemoryInv, Init

LEMMA MemoryStep == MemoryInv /\ [Next]_vars => MemoryInv'
<1> SUFFICES ASSUME MemoryInv, [Next]_vars PROVE MemoryInv'
  OBVIOUS
<1>1. DaemonInv' /\ server_fd' \in [Instances -> Paths \cup {Unset}]
  BY DaemonStep, SocketsTyped DEF MemoryInv
<1>2. ASSUME NEW p \in Instances, NEW q \in Instances,
             Start(p) \/ main(p) \/ AcceptError(p) \/ Kill(p) \/ handle_sighup(p)
               \/ handle_sigterm(p)
      PROVE  OwnInv(q)'
  <2>1. CASE q # p
    BY <1>2, <2>1, OnlyItsOwn, OwnMove DEF MemoryInv
  <2>2. CASE q = p
    BY <1>2, <2>2, OwnKept, OwnChanged, OwnEnd DEF main
  <2> QED
    BY <2>1, <2>2
<1>3. ASSUME NEW q \in Instances, UNCHANGED <<pc, current, loaded, server_fd, bound>>
      PROVE  OwnInv(q)'
  BY <1>3, OwnMove DEF MemoryInv
<1>4. ASSUME NEW p \in Instances, NEW c \in Clients, Connect(c, p), NEW q \in Instances
      PROVE  OwnInv(q)'
  BY <1>3, <1>4 DEF Connect, memVars
<1>5. ASSUME EditConfig \/ UNCHANGED vars, NEW q \in Instances PROVE OwnInv(q)'
  BY <1>3, <1>5 DEF EditConfig, vars, netVars, memVars
<1> QED
  BY <1>1, <1>2, <1>4, <1>5 DEF Next, MemoryInv

(* A process owns no socket name but that of its current path, so a reload *)
(* leaves no old name behind and an exit none at all (daemon.c, reload and *)
(* the end of main); with kills, restarts and lost PID files, too.         *)
THEOREM OwnsOneName == Spec => []NoOtherName
<1>1. MemoryInv => NoOtherName
  BY OwningPlaces DEF MemoryInv, OwnInv, NoOtherName
<1> QED
  BY MemoryInit, MemoryStep, <1>1, PTL DEF Spec

(* An accepting daemon watches and listens on what its last load_config    *)
(* gave, whichever way through the reload and whenever SIGHUP arrives.     *)
THEOREM LastLoadFollowed == Spec => []FollowsLastLoad
<1>1. MemoryInv => FollowsLastLoad
  BY OwningPlaces DEF MemoryInv, OwnInv, FollowsLastLoad, Accepting
<1> QED
  BY MemoryInit, MemoryStep, <1>1, PTL DEF Spec
=============================================================================
