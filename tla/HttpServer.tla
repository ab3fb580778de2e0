----------------------------- MODULE HttpServer -----------------------------
(***************************************************************************)
(* The file server of src/DZ_23_web_services/server.c: one thread, one     *)
(* epoll set, non-blocking sockets, one request per connection.  A request *)
(* arrives in two pieces, the second of which completes its path; a reply  *)
(* is the status line and the pieces of a body.  Sockets and epoll are     *)
(* modelled from the way the server uses them: the listening socket is     *)
(* reported as long as somebody waits, a client once for every arrival.    *)
(* The files of the directory do not shrink during a reply.                *)
(***************************************************************************)
EXTENDS Integers, Sequences, FiniteSets, SequencesExt

CONSTANTS
  Clients, Quitters,  \* Quitters \subseteq Clients may go away at any time
  Fds,                \* descriptors left for clients, beside one for a file
  MAX_EVENTS,
  SendBuffer,         \* pieces that a socket takes before its client reads
  Size,               \* pieces of a file, entries of a directory
  Asks(_),            \* bound: what the paths a client asks for may lead to
  Listen, None        \* the listening socket, "no client"

ASSUME QuittersAssumption == Quitters \subseteq Clients
(* A path leads outside of the directory; to a file outside whose path     *)
(* begins with the directory's name, which is all that strncmp compares; to*)
(* nothing that realpath finds; to something that is deleted before stat;  *)
(* to a file that open refuses; to a file; to a directory with or without  *)
(* index.html.                                                             *)
Kinds == {"outside", "sibling", "missing", "vanished", "unreadable", "file", "index", "listing"}
ASSUME NamesAssumption == Listen \notin Fds /\ None \notin Clients \cup Kinds
ASSUME AsksAssumption == \A c \in Clients : Asks(c) \subseteq Kinds
ASSUME BoundsAssumption ==
  MAX_EVENTS \in Nat \ {0} /\ SendBuffer \in Nat \ {0} /\ Size \in Nat

VARIABLES
  backlog,    \* clients that accept() will return
  owner,      \* the client behind each descriptor
  ready,      \* epoll's list of what is ready, in its order
  events,     \* what epoll_wait returned and is still to be handled
  pc,         \* "wait", "dispatch", or where handle_request is; "killed"
  offset,     \* pieces of the body behind the reply
  link,       \* each client: "off", "queued", "open", "shut" by the server
  want,       \* what the path of its request stands for
  asked,      \* what the path that was received stands for
  sent,       \* pieces of the request it has sent
  unread,     \* of these, the pieces that the server has not received
  outbox,     \* pieces of the reply in its socket
  received,   \* pieces of the reply it has read
  gone        \* clients that closed or lost the connection

serverVars == <<backlog, owner, ready, events, pc, offset>>
clientVars == <<link, want, asked, sent, unread, outbox, received, gone>>
vars == <<serverVars, clientVars>>

Body == [i \in 1 .. Size |-> i]
ReplyTo(kind) ==
  CASE kind \in {"outside", "missing"} -> <<"403">>
    [] kind = "vanished" -> <<"404">>
    [] kind \in {"file", "sibling", "index", "listing"} -> <<"200">> \o Body
    [] OTHER -> << >>                          \* closed without a word

Init ==
  /\ backlog = << >> /\ ready = << >> /\ events = << >>
  /\ owner = [f \in Fds |-> None]
  /\ pc = "wait" /\ offset = 0
  /\ link = [c \in Clients |-> "off"]
  /\ want = [c \in Clients |-> None] /\ asked = [c \in Clients |-> None]
  /\ sent = [c \in Clients |-> 0] /\ unread = [c \in Clients |-> 0]
  /\ outbox = [c \in Clients |-> << >>] /\ received = [c \in Clients |-> << >>]
  /\ gone = {}

(* epoll's list with f at its end, unless f is in it.                      *)
Listed(list, f) == IF f \in Range(list) THEN list ELSE Append(list, f)
(* epoll's list without f.                                                 *)
Unlisted(list, f) ==
  IF f \in Range(list) THEN RemoveAt(list, CHOOSE i \in DOMAIN list : list[i] = f)
                       ELSE list
(* The same for the descriptor of client c, which it has once accepted.    *)
Notified(c) == IF link[c] = "open"
               THEN Listed(ready, CHOOSE f \in Fds : owner[f] = c) ELSE ready

-----------------------------------------------------------------------------
(* main: epoll_wait and the loop over its events.                          *)

Wait ==
  LET live == IF backlog = << >> THEN Unlisted(ready, Listen) ELSE ready
      n    == IF Len(live) < MAX_EVENTS THEN Len(live) ELSE MAX_EVENTS
      rest == SubSeq(live, n + 1, Len(live))
  IN  /\ pc = "wait" /\ n > 0
      /\ events' = SubSeq(live, 1, n)
      /\ ready' = IF Listen \in Range(events') THEN Append(rest, Listen) ELSE rest
      /\ pc' = "dispatch"
      /\ UNCHANGED <<backlog, owner, offset, clientVars>>

BatchDone ==
  /\ pc = "dispatch" /\ events = << >>
  /\ pc' = "wait"
  /\ UNCHANGED <<backlog, owner, ready, events, offset, clientVars>>

Free == {f \in Fds : owner[f] = None}
Current == owner[Head(events)]
ListenIsNext == pc = "dispatch" /\ events # << >> /\ Head(events) = Listen
ClientIsNext == pc = "dispatch" /\ events # << >> /\ Head(events) # Listen

(* Mutant: the rest of the batch is dropped after an accept.               *)
Accept_EndsBatch ==
  /\ ListenIsNext
  /\ \E f \in Free :
       LET c == Head(backlog)
       IN  /\ owner' = [owner EXCEPT ![f] = c]
           /\ link' = [link EXCEPT ![c] = "open"]
           /\ ready' = IF unread[c] > 0 \/ c \in gone THEN Listed(ready, f) ELSE ready
  /\ events' = << >>
  /\ backlog' = Tail(backlog)
  /\ UNCHANGED <<pc, offset, want, asked, sent, unread, outbox, received, gone>>

(* accept gives some free descriptor; EPOLL_CTL_ADD reports what has       *)
(* arrived before.                                                         *)
Accept ==
  /\ ListenIsNext /\ backlog # << >>
  /\ \E f \in Free :
       LET c == Head(backlog)
       IN  /\ owner' = [owner EXCEPT ![f] = c]
           /\ link' = [link EXCEPT ![c] = "open"]
           /\ ready' = IF unread[c] > 0 \/ c \in gone THEN Listed(ready, f) ELSE ready
  /\ events' = Tail(events)
  /\ backlog' = Tail(backlog)
  /\ UNCHANGED <<pc, offset, want, asked, sent, unread, outbox, received, gone>>

(* accept returns -1, when no descriptor is left or for any other reason,  *)
(* and so do the calls that are given this -1.                             *)
AcceptFails ==
  /\ ListenIsNext
  /\ events' = Tail(events)
  /\ UNCHANGED <<backlog, owner, ready, pc, offset, clientVars>>

-----------------------------------------------------------------------------
(* handle_request for the client behind the first event, then close.       *)

(* What the received text asks for: a part of it has no path, or a path    *)
(* that may stand for anything.  None is also that recv finds no text, or   *)
(* fails because a client that left has reset the connection.              *)
Understood(c) ==
  (IF c \in gone \/ sent[c] < 2 THEN {None} ELSE {}) \cup
  (CASE sent[c] = 2 -> {want[c]}
     [] sent[c] = 1 -> Asks(c)
     [] OTHER       -> {})

(* recv, sscanf, realpath, stat, open.                                     *)
Receive ==
  /\ ClientIsNext
  /\ unread' = [unread EXCEPT ![Current] = 0]
  /\ \E k \in Understood(Current) :
       /\ asked' = [asked EXCEPT ![Current] = k]
       /\ pc' = IF k \in {None, "unreadable"} THEN "close" ELSE "answer"
  /\ UNCHANGED <<backlog, owner, ready, events, offset, link, want, sent, outbox, received, gone>>

Room(c) == SendBuffer - Len(outbox[c])

(* What is written for a client that has gone goes nowhere.                *)
Put(c, pieces) ==
  outbox' = IF c \in gone THEN outbox ELSE [outbox EXCEPT ![c] = @ \o pieces]

Answer ==                                       \* dprintf of the first line
  /\ pc = "answer"
  /\ Put(Current, <<Head(ReplyTo(asked[Current]))>>)
  /\ pc' = IF asked[Current] \in {"outside", "missing", "vanished"} THEN "close" ELSE "body"
  /\ UNCHANGED <<backlog, owner, ready, events, offset, link, want, asked, sent, unread, received, gone>>

(* The next n pieces of the body.                                          *)
Send(n) ==
  /\ Put(Current, SubSeq(Body, offset + 1, offset + n))
  /\ offset' = offset + n
  /\ UNCHANGED <<backlog, owner, ready, events, link, want, asked, sent, unread, received, gone>>

(* Mutant: sendfile is called once, whatever it took.                      *)
send_all_sendfile_Once ==
  /\ pc = "body" /\ asked[Current] \in {"file", "sibling"}
  /\ \E n \in 1 .. SendBuffer :
       n <= Size - offset /\ n <= Room(Current) /\ Send(n)
  /\ pc' = "close"

(* One turn of the loop.  While there is no room it sleeps and tries again. *)
send_all_sendfile ==
  /\ pc = "body" /\ asked[Current] \in {"file", "sibling"}
  /\ \/ /\ offset < Size
        /\ \E n \in 1 .. SendBuffer :
             n <= Size - offset /\ n <= Room(Current) /\ Send(n)
        /\ pc' = pc
     \/ /\ offset = Size
        /\ pc' = "close"
        /\ UNCHANGED <<backlog, owner, ready, events, offset, clientVars>>

(* index.html: one sendfile, of as much as there is room for.              *)
SendIndex ==
  /\ pc = "body" /\ asked[Current] = "index"
  /\ \E n \in 0 .. SendBuffer : n <= Size /\ n <= Room(Current) /\ Send(n)
  /\ pc' = "close"

(* send_directory_listing: a dprintf that finds no room is lost.           *)
SendEntry ==
  /\ pc = "body" /\ asked[Current] = "listing"
  /\ IF offset = Size
     THEN pc' = "close" /\ UNCHANGED <<backlog, owner, ready, events, offset, clientVars>>
     ELSE /\ pc' = pc
          /\ IF Room(Current) > 0 THEN Send(1)
             ELSE offset' = offset + 1
                  /\ UNCHANGED <<backlog, owner, ready, events, clientVars>>

(* Writing to a client that has gone fails in the end, which ends the      *)
(* reply; or it raises SIGPIPE, for which there is no handler.             *)
SendFails ==
  /\ pc = "body" /\ Current \in gone
  /\ pc' \in {"close", "killed"}
  /\ UNCHANGED <<backlog, owner, ready, events, offset, clientVars>>

(* Mutant: the connection is left open after the reply.                    *)
Close_KeepsOpen ==
  /\ pc = "close"
  /\ events' = Tail(events)
  /\ pc' = "dispatch" /\ offset' = 0
  /\ UNCHANGED <<backlog, owner, ready, clientVars>>

Close ==
  /\ pc = "close"
  /\ owner' = [owner EXCEPT ![Head(events)] = None]
  /\ ready' = Unlisted(ready, Head(events))
  /\ events' = Tail(events)
  /\ link' = [link EXCEPT ![Current] = "shut"]
  /\ pc' = "dispatch" /\ offset' = 0
  /\ UNCHANGED <<backlog, want, asked, sent, unread, outbox, received, gone>>

server ==
  \/ Wait \/ BatchDone \/ Accept \/ AcceptFails \/ Receive \/ Answer
  \/ send_all_sendfile \/ SendIndex \/ SendEntry \/ SendFails \/ Close

-----------------------------------------------------------------------------
(* The clients.                                                            *)

Connect(c) ==
  /\ link[c] = "off"
  /\ link' = [link EXCEPT ![c] = "queued"]
  /\ \E k \in Asks(c) : want' = [want EXCEPT ![c] = k]
  /\ backlog' = Append(backlog, c)
  /\ ready' = Listed(ready, Listen)
  /\ UNCHANGED <<owner, events, pc, offset, asked, sent, unread, outbox, received, gone>>

Request(c) ==
  /\ link[c] \in {"queued", "open"} /\ c \notin gone /\ sent[c] < 2
  /\ sent' = [sent EXCEPT ![c] = @ + 1]
  /\ unread' = [unread EXCEPT ![c] = @ + 1]
  /\ ready' = Notified(c)
  /\ UNCHANGED <<backlog, owner, events, pc, offset, link, want, asked, outbox, received, gone>>

Read(c) ==
  /\ c \notin gone /\ outbox[c] # << >>
  /\ received' = [received EXCEPT ![c] = Append(@, Head(outbox[c]))]
  /\ outbox' = [outbox EXCEPT ![c] = Tail(@)]
  /\ UNCHANGED <<serverVars, link, want, asked, sent, unread, gone>>

GoAway(c) ==
  /\ c \in Quitters \ gone /\ link[c] \in {"queued", "open"}
  /\ gone' = gone \cup {c}
  /\ outbox' = [outbox EXCEPT ![c] = << >>]
  /\ ready' = Notified(c)
  /\ UNCHANGED <<backlog, owner, events, pc, offset, link, want, asked, sent, unread, received>>

AllRead(c) == sent[c] = 2 /\ unread[c] = 0

(* The connection is reset, and the reply in the socket lost, when the     *)
(* server closed it before it had received everything.                     *)
Reset(c) ==
  /\ link[c] = "shut" /\ ~AllRead(c) /\ outbox[c] # << >>
  /\ outbox' = [outbox EXCEPT ![c] = << >>]
  /\ UNCHANGED <<serverVars, link, want, asked, sent, unread, received, gone>>

(* The client has read what there was and forgets the connection.          *)
Finish(c) ==
  /\ link[c] = "shut" /\ outbox[c] = << >>
  /\ link' = [link EXCEPT ![c] = "off"]
  /\ want' = [want EXCEPT ![c] = None] /\ asked' = [asked EXCEPT ![c] = None]
  /\ sent' = [sent EXCEPT ![c] = 0] /\ unread' = [unread EXCEPT ![c] = 0]
  /\ received' = [received EXCEPT ![c] = << >>]
  /\ gone' = gone \ {c}
  /\ UNCHANGED <<serverVars, outbox>>

client(c) == Request(c) \/ Read(c) \/ Reset(c) \/ Finish(c)

Next == server \/ \E c \in Clients : Connect(c) \/ client(c) \/ GoAway(c)

Spec == Init /\ [][Next]_vars

(* The server's thread is scheduled, accept does not fail for ever, and a  *)
(* client that stays sends its request and reads its reply.  Nobody is     *)
(* bound to connect or to leave.                                           *)
FairSpec ==
  Spec /\ WF_vars(server) /\ SF_vars(Accept) /\ \A c \in Clients : WF_vars(client(c))

-----------------------------------------------------------------------------
(* Properties.                                                             *)

(* The replies that README.md:16-17 of DZ_23_web_services asks for; and    *)
(* server.c:150 says that nothing outside of the directory is served.      *)
Required(kind) ==
  CASE kind \in {"file", "index", "listing"} -> <<"200">> \o Body
    [] kind \in {"missing", "vanished"} -> <<"404">>
    [] kind \in {"unreadable", "outside", "sibling"} -> <<"403">>

(* A client whose whole request for a file, for one that was just deleted  *)
(* or for something outside was received gets the pieces of the reply that *)
(* is required in order, however its reading and other clients interleave, *)
(* and all of them before the connection is shut; of an index.html, whose  *)
(* one sendfile nothing repeats, it gets the beginning.  Nothing is said of*)
(* a listing, and of the replies that are not those required.              *)
RepliesRight ==
  \A c \in Clients \ gone :
    asked[c] # None /\ AllRead(c) =>
      LET reply == received[c] \o outbox[c]
          whole == {"file", "vanished", "outside"}
      IN  /\ asked[c] = want[c]
          /\ asked[c] \in whole \cup {"index"} => IsPrefix(reply, Required(want[c]))
          /\ link[c] = "shut" /\ asked[c] \in whole => reply = Required(want[c])

(* Nothing that arrives is forgotten, though epoll reports it once: until  *)
(* it is received the descriptor is in epoll's list or in the batch.       *)
NoForgottenClient ==
  pc # "killed" =>
    \A f \in Fds : owner[f] # None /\ (unread[owner[f]] > 0 \/ owner[f] \in gone)
                     => f \in Range(ready) \cup Range(events)

(* Whoever connects is served in the end and may connect again, as long as *)
(* no SIGPIPE has ended the server: slow, partial and lost clients do not  *)
(* hold up the others for ever if they read or leave.                      *)
EveryoneServed ==
  \A c \in Clients : link[c] = "queued" ~> (link[c] = "off" \/ pc = "killed")
=============================================================================
