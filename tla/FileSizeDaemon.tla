--------------------------- MODULE FileSizeDaemon ---------------------------
(***************************************************************************)
(* The daemon of src/DZ_15_IPC/daemon.c: instances that start, take the    *)
(* PID file's lock, bind a UNIX socket, answer one client per accept(),    *)
(* reload their configuration on SIGHUP and leave on SIGTERM or SIGINT.    *)
(*                                                                         *)
(* Every system call whose order matters is a step of its own, and signals *)
(* arrive between any two of them: a signal interrupts accept() only when  *)
(* the process already sleeps in it.  The kernel's files, record locks,    *)
(* sockets and signals are modelled from the way the daemon uses them.     *)
(***************************************************************************)
EXTENDS Integers, Sequences, FiniteSets, SequencesExt

CONSTANTS
  Instances,      \* processes running the program
  Clients,        \* processes that connect to the socket
  Files, Paths,   \* values of FILE_PATH and of SOCKET_PATH
  BadPaths,       \* socket paths that cannot be bound
  DefaultFile, DefaultPath,  \* the values compiled into the program
  Configs,        \* bound: what daemon.conf may come to say
  Inodes,         \* identities of the files the PID file's name may stand for
  Backlog,        \* second argument of listen
  Unset,          \* "not in daemon.conf", "no file", "no socket", "no owner"
  Stale           \* owner of a socket name whose process was killed

Setting  == [file : Files, socket : Paths]
Config   == [file : Files \cup {Unset}, socket : Paths \cup {Unset}]

ASSUME ConfigAssumption == Configs \subseteq Config
ASSUME PathAssumption ==
  /\ DefaultFile \in Files /\ DefaultPath \in Paths
  /\ Unset \notin Files \cup Paths \cup Inodes \cup Instances
  /\ Stale \notin Instances \cup {Unset}
ASSUME BacklogAssumption == Backlog \in Nat \ {0}

VARIABLES
  config,     \* daemon.conf: the value of each key, Unset where it has no line
  pidFile,    \* inode that PID_FILE names, Unset when the name is free
  pidText,    \* the process number written in each inode
  pid_fd,     \* inode each process has open as its PID file
  locked,     \* processes that hold the record lock on their pid_fd
  bound,      \* owner of each socket name
  server_fd,  \* the name each process' listening socket was bound to
  queue,      \* connections waiting on each listening socket
  waiting,    \* clients connected and not yet answered
  pc,         \* where each process is
  current,    \* file_to_watch and current_socket_path of each process
  loaded,     \* n_f and n_s: what the last load_config of the process gave
  running, reload_requested,    \* the flags the handlers set
  unserved,   \* history: processes sent SIGHUP since their last load_config
  clobbered   \* history: a process unlinked a PID file another one had open

pidVars == <<pidFile, pidText, pid_fd, locked, clobbered>>
netVars == <<bound, server_fd, queue, waiting>>
memVars == <<current, loaded>>
sigVars == <<running, reload_requested, unserved>>
vars    == <<config, pidVars, netVars, pc, memVars, sigVars>>

Default  == [file |-> DefaultFile, socket |-> DefaultPath]
Accepting == {"test", "accept", "blocked", "serve"}
Starting  == {"begin", "open", "lock", "write", "create", "bind"}
Reloading == {"eintr", "reload", "clear", "apply", "drop", "forget"}
Leaving   == {"close", "unlink", "release", "remove"}
PC == {"off"} \cup Starting \cup Accepting \cup Reloading \cup Leaving

(* load_config: a key without a line keeps the value it had.               *)
load_config(old) ==
  [k \in {"file", "socket"} |-> IF config[k] = Unset THEN old[k] ELSE config[k]]

Init ==
  /\ config = [file |-> Unset, socket |-> Unset]
  /\ pidFile = Unset
  /\ pidText = [i \in Inodes |-> Unset]
  /\ pid_fd  = [p \in Instances |-> Unset]
  /\ locked  = {}
  /\ bound   = [s \in Paths |-> Unset]
  /\ server_fd = [p \in Instances |-> Unset]
  /\ queue   = [p \in Instances |-> << >>]
  /\ waiting = {}
  /\ pc      = [p \in Instances |-> "off"]
  /\ current = [p \in Instances |-> Default]
  /\ loaded  = [p \in Instances |-> Default]
  /\ running = [p \in Instances |-> TRUE]
  /\ reload_requested = {}
  /\ unserved = {}
  /\ clobbered = FALSE

Goto(p, from, to) == pc[p] = from /\ pc' = [pc EXCEPT ![p] = to]

(* The listening socket is closed and the connections waiting on it reset. *)
CloseServer(p) ==
  /\ server_fd' = [server_fd EXCEPT ![p] = Unset]
  /\ queue' = [queue EXCEPT ![p] = << >>]
  /\ waiting' = waiting \ Range(queue[p])

(* What is left of a process after it ended: nothing.                      *)
Forget(p) ==
  /\ pc' = [pc EXCEPT ![p] = "off"]
  /\ current' = [current EXCEPT ![p] = Default]
  /\ loaded'  = [loaded EXCEPT ![p] = Default]
  /\ running' = [running EXCEPT ![p] = TRUE]
  /\ reload_requested' = reload_requested \ {p}
  /\ unserved' = unserved \ {p}

-----------------------------------------------------------------------------
(* main up to the accept loop.                                             *)

Start(p) ==
  /\ Goto(p, "off", "begin")
  /\ UNCHANGED <<config, pidVars, netVars, memVars, sigVars>>

(* load_config, sigaction, daemonize.                                      *)
Begin(p) ==
  /\ Goto(p, "begin", "open")
  /\ loaded'  = [loaded EXCEPT ![p] = load_config(Default)]
  /\ current' = [current EXCEPT ![p] = load_config(Default)]
  /\ UNCHANGED <<config, pidVars, netVars, sigVars>>

InUseByOther(p, i) == \E q \in Instances \ {p} : pid_fd[q] = i
InUse(i) == i = pidFile \/ \E q \in Instances : pid_fd[q] = i

(* Mutant: the process number is written before the lock is asked for.     *)
OpenPidFile_Writes(p) ==
  /\ Goto(p, "open", "lock")
  /\ \E i \in Inodes :
       /\ IF pidFile = Unset THEN ~InUse(i) ELSE i = pidFile
       /\ pidFile' = i
       /\ pidText' = [pidText EXCEPT ![i] = p]
       /\ pid_fd' = [pid_fd EXCEPT ![p] = i]
  /\ UNCHANGED <<config, locked, clobbered, netVars, memVars, sigVars>>

(* check_and_write_pid: open, F_SETLK, write.                              *)
OpenPidFile(p) ==
  /\ Goto(p, "open", "lock")
  /\ \/ pidFile # Unset /\ UNCHANGED <<pidFile, pidText>>
     \/ /\ pidFile = Unset
        /\ \E i \in Inodes :
             /\ ~InUse(i)
             /\ pidFile' = i
             /\ pidText' = [pidText EXCEPT ![i] = Unset]
  /\ pid_fd' = [pid_fd EXCEPT ![p] = pidFile']
  /\ UNCHANGED <<config, locked, clobbered, netVars, memVars, sigVars>>

LockHeld(p) == \E q \in locked \ {p} : pid_fd[q] = pid_fd[p]

(* Mutant: the lock is not asked for.                                      *)
LockPidFile_Unasked(p) ==
  /\ Goto(p, "lock", "write")
  /\ locked' = locked \cup {p}
  /\ UNCHANGED <<config, pidFile, pidText, pid_fd, clobbered, netVars, memVars, sigVars>>
LockPidFile(p) ==
  /\ ~LockHeld(p)
  /\ Goto(p, "lock", "write")
  /\ locked' = locked \cup {p}
  /\ UNCHANGED <<config, pidFile, pidText, pid_fd, clobbered, netVars, memVars, sigVars>>

(* Mutant: the instance that is refused cleans up the socket name, too.    *)
Refused_CleansUp(p) ==
  /\ pc[p] = "lock" /\ LockHeld(p)
  /\ pid_fd' = [pid_fd EXCEPT ![p] = Unset]
  /\ bound' = [bound EXCEPT ![current[p].socket] = Unset]
  /\ Forget(p)
  /\ UNCHANGED <<config, pidFile, pidText, locked, clobbered, server_fd, queue, waiting>>

(* "Daemon already running": the descriptor is closed, the name is kept.   *)
Refused(p) ==
  /\ pc[p] = "lock" /\ LockHeld(p)
  /\ pid_fd' = [pid_fd EXCEPT ![p] = Unset]
  /\ Forget(p)
  /\ UNCHANGED <<config, pidFile, pidText, locked, clobbered, netVars>>

WritePid(p) ==
  /\ Goto(p, "write", "create")
  /\ pidText' = [pidText EXCEPT ![pid_fd[p]] = p]
  /\ UNCHANGED <<config, pidFile, pid_fd, locked, clobbered, netVars, memVars, sigVars>>

(* Mutant: the name of the old socket stays when the path changes.         *)
UnlinkName_KeepsOld(p, from, to) ==
  /\ Goto(p, from, to)
  /\ bound' = IF to = "forget" THEN bound
              ELSE [bound EXCEPT ![current[p].socket] = Unset]
  /\ UNCHANGED <<config, pidVars, server_fd, queue, waiting, memVars, sigVars>>

(* create_socket: unlink, then bind and listen.                            *)
UnlinkName(p, from, to) ==
  /\ Goto(p, from, to)
  /\ bound' = [bound EXCEPT ![current[p].socket] = Unset]
  /\ UNCHANGED <<config, pidVars, server_fd, queue, waiting, memVars, sigVars>>

CanBind(p) == bound[current[p].socket] = Unset /\ current[p].socket \notin BadPaths

Bind(p) ==
  /\ CanBind(p)
  /\ Goto(p, "bind", "test")
  /\ bound' = [bound EXCEPT ![current[p].socket] = p]
  /\ server_fd' = [server_fd EXCEPT ![p] = current[p].socket]
  /\ UNCHANGED <<config, pidVars, queue, waiting, memVars, sigVars>>

BindFails(p) ==                                                \* exit_fail
  /\ ~CanBind(p)
  /\ Goto(p, "bind", "release")
  /\ UNCHANGED <<config, pidVars, netVars, memVars, sigVars>>

-----------------------------------------------------------------------------
(* The accept loop.                                                        *)

(* Mutant: for (;;) in the place of while (running).                       *)
TestRunning_Not(p) ==
  /\ Goto(p, "test", "accept")
  /\ UNCHANGED <<config, pidVars, netVars, memVars, sigVars>>

TestRunning(p) ==
  /\ Goto(p, "test", IF running[p] THEN "accept" ELSE "close")
  /\ UNCHANGED <<config, pidVars, netVars, memVars, sigVars>>

(* accept() sleeps while nobody is waiting.  Only there does a signal make *)
(* it fail with EINTR.                                                     *)
Sleep(p) ==
  /\ queue[p] = << >>
  /\ Goto(p, "accept", "blocked")
  /\ UNCHANGED <<config, pidVars, netVars, memVars, sigVars>>

Accept(p) ==
  /\ queue[p] # << >>
  /\ Goto(p, "accept", "serve") \/ Goto(p, "blocked", "serve")
  /\ UNCHANGED <<config, pidVars, netVars, memVars, sigVars>>

AcceptError(p) ==                             \* any error that is not EINTR
  /\ Goto(p, "accept", "test")
  /\ UNCHANGED <<config, pidVars, netVars, memVars, sigVars>>

(* Mutant: the connection is not closed, the client waits for its end.     *)
Serve_KeepsOpen(p) ==
  /\ Goto(p, "serve", "test")
  /\ queue' = [queue EXCEPT ![p] = Tail(@)]
  /\ UNCHANGED <<config, pidVars, bound, server_fd, waiting, memVars, sigVars>>

(* stat, send, close.                                                      *)
Serve(p) ==
  /\ Goto(p, "serve", "test")
  /\ waiting' = waiting \ {Head(queue[p])}
  /\ queue' = [queue EXCEPT ![p] = Tail(@)]
  /\ UNCHANGED <<config, pidVars, bound, server_fd, memVars, sigVars>>

(* Mutant: the daemon just goes back to accept.                            *)
Eintr_GoesOn(p) ==
  /\ Goto(p, "eintr", IF ~running[p] THEN "close" ELSE "test")
  /\ UNCHANGED <<config, pidVars, netVars, memVars, sigVars>>

Eintr(p) ==
  /\ Goto(p, "eintr", IF ~running[p] THEN "close"
                      ELSE IF p \in reload_requested THEN "reload" ELSE "test")
  /\ UNCHANGED <<config, pidVars, netVars, memVars, sigVars>>

Reload(p) ==
  /\ Goto(p, "reload", "clear")
  /\ loaded' = [loaded EXCEPT ![p] = load_config(current[p])]
  /\ unserved' = unserved \ {p}
  /\ UNCHANGED <<config, pidVars, netVars, current, running, reload_requested>>

ClearRequest(p) ==
  /\ Goto(p, "clear", "apply")
  /\ reload_requested' = reload_requested \ {p}
  /\ UNCHANGED <<config, pidVars, netVars, memVars, running, unserved>>

SamePath(p) ==
  /\ loaded[p].socket = current[p].socket
  /\ Goto(p, "apply", "test")
  /\ current' = [current EXCEPT ![p].file = loaded[p].file]
  /\ UNCHANGED <<config, pidVars, netVars, loaded, sigVars>>

NewPath(p) ==
  /\ loaded[p].socket # current[p].socket
  /\ Goto(p, "apply", "drop")
  /\ CloseServer(p)
  /\ UNCHANGED <<config, pidVars, bound, memVars, sigVars>>

(* Mutant: the new file is not taken over with the new path.               *)
Adopt_SocketOnly(p) ==
  /\ Goto(p, "forget", "create")
  /\ current' = [current EXCEPT ![p].socket = loaded[p].socket]
  /\ UNCHANGED <<config, pidVars, netVars, loaded, sigVars>>

Adopt(p) ==
  /\ Goto(p, "forget", "create")
  /\ current' = [current EXCEPT ![p] = loaded[p]]
  /\ UNCHANGED <<config, pidVars, netVars, loaded, sigVars>>

-----------------------------------------------------------------------------
(* Leaving: the socket, then the lock, then the PID file.                  *)

Close(p) ==
  /\ Goto(p, "close", "unlink")
  /\ CloseServer(p)
  /\ UNCHANGED <<config, pidVars, bound, memVars, sigVars>>

ReleaseLock(p) ==
  /\ Goto(p, "release", "remove")
  /\ pid_fd' = [pid_fd EXCEPT ![p] = Unset]
  /\ locked' = locked \ {p}
  /\ UNCHANGED <<config, pidFile, pidText, clobbered, netVars, memVars, sigVars>>

(* remove_pid_file unlinks the name, whatever file it stands for by now.   *)
remove_pid_file(p) ==
  /\ pc[p] = "remove"
  /\ clobbered' = (clobbered \/ (pidFile # Unset /\ InUseByOther(p, pidFile)))
  /\ pidFile' = Unset
  /\ Forget(p)
  /\ UNCHANGED <<config, pidText, pid_fd, locked, netVars>>

-----------------------------------------------------------------------------
(* The rest of the world: signals, clients, an editor, SIGKILL.            *)

Signalled(p) == pc' = IF pc[p] = "blocked" THEN [pc EXCEPT ![p] = "eintr"] ELSE pc
Handling(p)  == pc[p] \notin {"off", "begin"}

handle_sighup(p) ==
  /\ Handling(p)
  /\ reload_requested' = reload_requested \cup {p}
  /\ unserved' = unserved \cup {p}
  /\ Signalled(p)
  /\ UNCHANGED <<config, pidVars, netVars, memVars, running>>

handle_sigterm(p) ==
  /\ Handling(p)
  /\ running' = [running EXCEPT ![p] = FALSE]
  /\ Signalled(p)
  /\ UNCHANGED <<config, pidVars, netVars, memVars, reload_requested, unserved>>

(* A signal without a handler: the kernel closes what was open, and leaves *)
(* the names of the socket and of the PID file behind.                     *)
Kill(p) ==
  /\ pc[p] # "off"
  /\ CloseServer(p)
  /\ bound' = [s \in Paths |-> IF bound[s] = p THEN Stale ELSE bound[s]]
  /\ pid_fd' = [pid_fd EXCEPT ![p] = Unset]
  /\ locked' = locked \ {p}
  /\ Forget(p)
  /\ UNCHANGED <<config, pidFile, pidText, clobbered>>

Connect(c, p) ==
  /\ c \notin waiting
  /\ server_fd[p] # Unset /\ bound[server_fd[p]] = p
  /\ Len(queue[p]) < Backlog
  /\ queue' = [queue EXCEPT ![p] = Append(@, c)]
  /\ waiting' = waiting \cup {c}
  /\ UNCHANGED <<config, pidVars, bound, server_fd, pc, memVars, sigVars>>

EditConfig ==
  /\ config' \in Configs
  /\ UNCHANGED <<pidVars, netVars, pc, memVars, sigVars>>

-----------------------------------------------------------------------------
(* Everything main does once it was started.                               *)
main(p) ==
  \/ Begin(p) \/ OpenPidFile(p) \/ LockPidFile(p) \/ Refused(p) \/ WritePid(p)
  \/ UnlinkName(p, "create", "bind") \/ Bind(p) \/ BindFails(p)
  \/ TestRunning(p) \/ Sleep(p) \/ Accept(p) \/ Serve(p)
  \/ Eintr(p) \/ Reload(p) \/ ClearRequest(p) \/ SamePath(p) \/ NewPath(p)
  \/ UnlinkName(p, "drop", "forget") \/ Adopt(p)
  \/ Close(p) \/ UnlinkName(p, "unlink", "release") \/ ReleaseLock(p)
  \/ remove_pid_file(p)

Next ==
  \/ \E p \in Instances :
       \/ Start(p) \/ main(p) \/ AcceptError(p) \/ Kill(p)
       \/ handle_sighup(p) \/ handle_sigterm(p)
       \/ \E c \in Clients : Connect(c, p)
  \/ EditConfig

Spec == Init /\ [][Next]_vars

(* A process that can take a step is scheduled, and accept() does not fail *)
(* for ever while a client is waiting.  Nobody is bound to start the       *)
(* program, to send a signal or to connect.                                *)
FairSpec == Spec /\ \A p \in Instances : WF_vars(main(p)) /\ SF_vars(Accept(p))

(* The same, with clients that keep connecting.                            *)
TrafficSpec ==
  FairSpec /\ \A p \in Instances : WF_vars(\E c \in Clients : Connect(c, p))

-----------------------------------------------------------------------------
(* Properties.                                                             *)

(* The instances that took the lock and have not yet given it up.          *)
InCharge == {"write", "create", "bind", "close", "unlink", "release"}
              \cup Accepting \cup Reloading
Daemons == {p \in Instances : pc[p] \in InCharge}

(* check_and_write_pid lets one instance in at a time ("Daemon already     *)
(* running", daemon.c:127), for as long as no instance that left removed   *)
(* the PID file another one had opened; kills and restarts included.       *)
OneDaemon == clobbered \/ \A p, q \in Daemons : p = q

(* The claim without the condition.                                        *)
OnlyOneDaemon == \A p, q \in Daemons : p = q

(* The PID file names the daemon that accepts, so that the documented      *)
(* kill $(cat PID_FILE) reaches it.                                        *)
PidFileNamesDaemon ==
  clobbered \/ \A p \in Daemons :
    pc[p] # "write" => pidFile # Unset /\ pidText[pidFile] = p

(* The socket name of an accepting daemon leads to it: no instance that    *)
(* starts, reloads or leaves takes the name away, as create_socket and the *)
(* shutdown unlink it only under the lock.                                 *)
Reachable ==
  clobbered \/ \A p \in Daemons :
    pc[p] \in Accepting => bound[current[p].socket] = p

(* A process owns no socket name but that of its current path: a reload    *)
(* leaves no old name behind, an exit none at all (README.md line 128).    *)
NoOtherName ==
  \A s \in Paths, p \in Instances :
    bound[s] = p => pc[p] # "off" /\ current[p].socket = s

(* An accepting daemon watches the file and listens on the path that its   *)
(* last load_config gave, whichever of the two ways through the reload.    *)
FollowsLastLoad ==
  \A p \in Instances :
    pc[p] \in Accepting => current[p] = loaded[p] /\ server_fd[p] = current[p].socket

(* A client that connected is answered, or its connection reset because    *)
(* the socket was given up: nobody waits for ever.                         *)
ClientsAnswered == \A c \in Clients : (c \in waiting) ~> (c \notin waiting)

(* A daemon told to stop leaves (README.md line 116): the next client at   *)
(* the latest makes it look at the flag.                                   *)
StopsWhenTold == \A p \in Instances : ~running[p] ~> running[p]

(* A SIGHUP that interrupts accept leads to a load_config, unless the      *)
(* daemon is told to stop; others may wait for the next interruption.      *)
ReloadsWhenAsleep ==
  \A p \in Instances : (pc[p] = "eintr" /\ p \in unserved) ~> p \notin unserved
=============================================================================
