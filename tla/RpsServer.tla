----------------------------- MODULE RpsServer -----------------------------
(***************************************************************************)
(* The load-test server rps_server.c: one worker, an epoll set with a      *)
(* level-triggered listening socket and edge-triggered connections, which  *)
(* the worker never closes.  What arrives on a connection is counted in    *)
(* pieces; recv is called once per event, for at most RecvPieces of them,  *)
(* and each recv of something is answered with one send.                   *)
(***************************************************************************)
EXTENDS Naturals, FiniteSets

CONSTANTS
  Connections,     \* each is used once
  MaxDescriptors,  \* those the worker has left for connections
  MaxPieces,       \* bound: pieces of requests sent on all connections
  RecvPieces,      \* those that fill the 1024 bytes of one recv
  Room,            \* the replies that a connection holds for a client that does not read
  Listener, Nobody \* the listening socket, and "no connection"

VARIABLES
  conn,      \* "new", "queued" (in the backlog), "open" (accepted); kept for ever
  inbox,     \* pieces arrived and not read
  sent,      \* pieces that the clients sent
  unread,    \* replies that the client has not read
  closed,    \* the client has closed its end
  reset,     \* with a reset, at once or for something sent afterwards
  edge,      \* connections with an edge that epoll_wait has not reported
  events,    \* reported and not handled yet
  serving,   \* the connection between its recv and its send
  owed,      \* history: something arrived and no reply was sent since
  outrun,    \* history: the last recv of something left a rest, or its reply found no room
  alive      \* the worker was not killed by SIGPIPE

clientVars == <<sent, closed>>
historyVars == <<owed, outrun>>

Init ==
  /\ conn = [k \in Connections |-> "new"] /\ inbox = [k \in Connections |-> 0]
  /\ sent = 0 /\ unread = [k \in Connections |-> 0]
  /\ closed = {} /\ reset = {} /\ owed = {} /\ outrun = {}
  /\ edge = {} /\ events = {} /\ serving = Nobody /\ alive = TRUE

Edge(k) == edge' = IF conn[k] = "open" THEN edge \cup {k} ELSE edge

Connect(k) ==
  /\ alive /\ conn[k] = "new" /\ conn' = [conn EXCEPT ![k] = "queued"]
  /\ UNCHANGED <<inbox, unread, clientVars, reset, edge, events, serving, historyVars, alive>>

Send(k) ==
  /\ alive /\ conn[k] # "new" /\ k \notin closed /\ sent < MaxPieces
  /\ sent' = sent + 1 /\ inbox' = [inbox EXCEPT ![k] = @ + 1]
  /\ owed' = owed \cup {k} /\ Edge(k)
  /\ UNCHANGED <<conn, unread, closed, reset, events, serving, outrun, alive>>

Read(k) ==
  /\ alive /\ k \notin closed /\ unread[k] > 0 /\ unread' = [unread EXCEPT ![k] = 0]
  /\ UNCHANGED <<conn, inbox, clientVars, reset, edge, events, serving, historyVars, alive>>

(* A client that leaves replies unread resets the connection.              *)
Close(k) ==
  /\ alive /\ conn[k] # "new" /\ k \notin closed
  /\ closed' = closed \cup {k} /\ Edge(k)
  /\ reset' = IF unread[k] > 0 THEN reset \cup {k} ELSE reset
  /\ UNCHANGED <<conn, inbox, unread, sent, events, serving, historyVars, alive>>

Client(k) == Connect(k) \/ Send(k) \/ Read(k) \/ Close(k)

Queued == {k \in Connections : conn[k] = "queued"}
Descriptors == Cardinality({k \in Connections : conn[k] = "open"})

(* epoll_wait reports every edge once, and the backlog while it has one.   *)
epoll_wait ==
  /\ alive /\ events = {} /\ serving = Nobody
  /\ events' = edge \cup IF Queued # {} THEN {Listener} ELSE {}
  /\ edge' = {} /\ events' # {}
  /\ UNCHANGED <<conn, inbox, unread, clientVars, reset, serving, historyVars, alive>>

(* Mutant: EPOLLET and one accept per event for the listening socket too.  *)
accept_Edge ==
  /\ alive /\ Listener \in events /\ serving = Nobody /\ Descriptors < MaxDescriptors
  /\ \E k \in Queued :
       /\ conn' = [j \in Connections |-> IF j = k THEN "open"
                                         ELSE IF j \in Queued THEN "lost" ELSE conn[j]]
       /\ edge' = IF inbox[k] > 0 \/ k \in closed THEN edge \cup {k} ELSE edge
  /\ events' = events \ {Listener}
  /\ UNCHANGED <<inbox, unread, clientVars, reset, serving, historyVars, alive>>

(* One connection per event; adding it to the epoll set reports what it    *)
(* has.  With no descriptor left accept fails, and the loop goes on.       *)
accept ==
  /\ alive /\ Listener \in events /\ serving = Nobody
  /\ IF Queued # {} /\ Descriptors < MaxDescriptors
     THEN \E k \in Queued :
            /\ conn' = [conn EXCEPT ![k] = "open"]
            /\ edge' = IF inbox[k] > 0 \/ k \in closed THEN edge \cup {k} ELSE edge
     ELSE UNCHANGED <<conn, edge>>
  /\ events' = events \ {Listener}
  /\ UNCHANGED <<inbox, unread, clientVars, reset, serving, historyVars, alive>>

(* recv of nothing (end of file, reset, or an edge for what an earlier recv*)
(* took already) returns; the descriptor stays open.  What does not fit    *)
(* into buf stays too, and no edge tells of it.                            *)
recv(k) ==
  /\ alive /\ k \in events /\ serving = Nobody /\ events' = events \ {k}
  /\ LET rest == IF inbox[k] > RecvPieces THEN inbox[k] - RecvPieces ELSE 0
     IN /\ inbox' = [inbox EXCEPT ![k] = rest]
        /\ outrun' = IF rest > 0 THEN outrun \cup {k}
                      ELSE IF inbox[k] > 0 THEN outrun \ {k} ELSE outrun
  /\ serving' = IF inbox[k] > 0 THEN k ELSE Nobody
  /\ UNCHANGED <<conn, unread, clientVars, owed, reset, edge, alive>>

(* The result of send is not looked at.  A connection without room takes   *)
(* nothing (EAGAIN) or a part, and the reply is lost.  What is sent to a   *)
(* client that has closed is answered with a reset; sending after that can *)
(* raise SIGPIPE.                                                          *)
send ==
  /\ alive /\ serving # Nobody /\ serving' = Nobody
  /\ alive' \in IF serving \in reset THEN BOOLEAN ELSE {TRUE}
  /\ reset' = IF serving \in closed THEN reset \cup {serving} ELSE reset
  /\ edge' = IF serving \in closed THEN edge \cup {serving} ELSE edge
  /\ IF unread[serving] < Room
     THEN /\ unread' = [unread EXCEPT ![serving] = @ + 1]
          /\ owed' = IF inbox[serving] = 0 THEN owed \ {serving} ELSE owed
          /\ UNCHANGED outrun
     ELSE outrun' = outrun \cup {serving} /\ UNCHANGED <<unread, owed>>
  /\ UNCHANGED <<conn, inbox, clientVars, events>>

handle_client == (\E k \in Connections : recv(k)) \/ send
run_worker == epoll_wait \/ accept \/ handle_client
Next == run_worker \/ \E k \in Connections : Client(k)

(* Whoever has connected and sent something, in whatever pieces and at     *)
(* whatever moment, is answered: no edge is lost between accept, recv and  *)
(* send.  The exceptions are the code's: more had arrived than one recv    *)
(* takes (rps_server.c:33-35), or the client reads so little that a send   *)
(* has no room (line 39); it has closed; the worker was killed by SIGPIPE  *)
(* (line 39); the descriptors that it never closes (line 85) have run out. *)
RequestsAnswered ==
  \A k \in Connections : (k \in owed) ~>
    \/ k \notin owed \/ k \in outrun \/ k \in closed \/ ~alive
    \/ conn[k] = "queued" /\ Descriptors = MaxDescriptors
=============================================================================
