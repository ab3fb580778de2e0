------------------------------ MODULE AsciiArt ------------------------------
(***************************************************************************)
(* The client of src/DZ_21_network/ascii_art.c: it waits for a dot in the  *)
(* server's banner, sends one command and prints the reply without its     *)
(* echo line, without telnet commands and up to the marker.  TCP delivers  *)
(* the bytes in order, in chunks cut anywhere; each recv is looked at on   *)
(* its own.  What main tells of an empty answer is left out.               *)
(***************************************************************************)
EXTENDS Naturals, SequencesExt

CONSTANTS Banners, Replies   \* what the server may say, sequences of bytes

Marker == <<"cr", "lf", "dot">>

VARIABLES
  stage,          \* "start", "banner", "command", "reply"; "end", "timeout", "failed"
  inflow,         \* bytes on their way or arrived, not received
  reply,          \* what the server will say to the command
  lines_to_skip,
  printed,
  spoiled         \* history: a cut, or bytes of the banner, in the reply

Init ==
  /\ stage = "start" /\ inflow = << >> /\ reply = << >> /\ lines_to_skip = 1
  /\ printed = << >> /\ spoiled = FALSE

First(places) == IF places = {} THEN 0 ELSE Min(places)
IsAt(what, s, i) == i + Len(what) <= Len(s) + 1 /\ SubSeq(s, i, i + Len(what) - 1) = what

connect ==
  /\ stage = "start" /\ stage' = "banner"
  /\ inflow' \in Banners /\ reply' \in Replies
  /\ UNCHANGED <<lines_to_skip, printed, spoiled>>

(* One recv of the banner; when none comes within the timeout the command  *)
(* is sent all the same.                                                   *)
WaitBanner ==
  /\ stage = "banner"
  /\ \/ \E n \in 1 .. Len(inflow) :
          /\ inflow' = SubSeq(inflow, n + 1, Len(inflow))
          /\ stage' = IF Contains(SubSeq(inflow, 1, n), "dot") THEN "command" ELSE stage
     \/ stage' = "command" /\ UNCHANGED inflow
  /\ UNCHANGED <<reply, lines_to_skip, printed, spoiled>>

(* send_all sends the whole command or fails; the server then answers.     *)
SendCommand ==
  /\ stage = "command"
  /\ \/ /\ stage' = "reply" /\ inflow' = inflow \o reply
        /\ spoiled' = (inflow # << >>)
     \/ stage' = "failed" /\ UNCHANGED <<inflow, spoiled>>
  /\ UNCHANGED <<reply, lines_to_skip, printed>>

(* Without carriage returns and without the three bytes of each command,   *)
(* or what there is of them at the end.                                    *)
Cleaning(s) ==
  LET after[i \in 0 .. Len(s)] ==
        LET was == after[i - 1] IN
        IF i = 0 THEN [skip |-> 0, out |-> << >>]
        ELSE IF was.skip > 0 THEN [skip |-> was.skip - 1, out |-> was.out]
        ELSE IF s[i] = "iac" THEN [skip |-> 2, out |-> was.out]
        ELSE [skip |-> 0, out |-> IF s[i] = "cr" THEN was.out ELSE Append(was.out, s[i])]
  IN after
clean_print(s) == Cleaning(s)[Len(s)].out

(* strstr, which does not look past a NUL.                                 *)
FindMarker(s) ==
  First({i \in DOMAIN s : IsAt(Marker, s, i) /\ \A j \in 1 .. i : s[j] # "nul"})

SkipEcho(s) ==
  LET newline == First({i \in DOMAIN s : s[i] = "lf"})
  IN IF lines_to_skip = 0 THEN s
     ELSE IF newline = 0 THEN << >> ELSE SubSeq(s, newline + 1, Len(s))

(* The chunk s ends inside a marker or a command, or hides a marker.       *)
Cut(s) ==
  \/ \E i \in DOMAIN s : \/ s[i] = "iac" /\ i > Len(s) - 2
                         \/ IsAt(Marker, s, i) /\ \E j \in 1 .. i : s[j] = "nul"
  \/ inflow # s /\ \E k \in 1 .. 2 : IsSuffix(SubSeq(Marker, 1, k), s) /\ IsAt(Marker, inflow, Len(s) - k + 1)

(* Mutant: the echo is skipped in the first chunk only.                    *)
recv_EchoOnce(n) ==
  LET s   == SkipEcho(SubSeq(inflow, 1, n))
      end == FindMarker(s)
  IN  /\ stage = "reply"
      /\ inflow' = SubSeq(inflow, n + 1, Len(inflow)) /\ lines_to_skip' = 0
      /\ printed' = printed \o clean_print(IF end > 0 THEN SubSeq(s, 1, end - 1) ELSE s)
      /\ stage' = IF end > 0 THEN "end" ELSE stage
      /\ spoiled' = (spoiled \/ Cut(SubSeq(inflow, 1, n)))
      /\ UNCHANGED reply

recv(n) ==
  LET s   == SkipEcho(SubSeq(inflow, 1, n))
      end == FindMarker(s)
  IN  /\ stage = "reply"
      /\ inflow' = SubSeq(inflow, n + 1, Len(inflow))
      /\ lines_to_skip' = IF Contains(SubSeq(inflow, 1, n), "lf") THEN 0 ELSE lines_to_skip
      /\ printed' = printed \o clean_print(IF end > 0 THEN SubSeq(s, 1, end - 1) ELSE s)
      /\ stage' = IF end > 0 THEN "end" ELSE stage
      /\ spoiled' = (spoiled \/ Cut(SubSeq(inflow, 1, n)))
      /\ UNCHANGED reply

(* The connection is closed, or nothing comes for five seconds, when the   *)
(* server has said everything or while the rest is late.                   *)
Silence ==
  /\ stage = "reply" /\ stage' = IF inflow = << >> THEN "end" ELSE "timeout"
  /\ UNCHANGED <<inflow, reply, lines_to_skip, printed, spoiled>>

ReadReply == (\E n \in 1 .. Len(inflow) : recv(n)) \/ Silence

Next == connect \/ WaitBanner \/ SendCommand \/ ReadReply

-----------------------------------------------------------------------------
(* What a whole reply r, seen at once, amounts to: its bytes after the    *)
(* echo line and before the marker that are no carriage return and no part *)
(* of a command of three bytes.                                            *)
EchoEnd(r) == First({i \in DOMAIN r : r[i] = "lf"})
MarkAt(r)  == First({i \in DOMAIN r : i > EchoEnd(r) /\ IsAt(Marker, r, i)})
Body(r) == IF EchoEnd(r) = 0 THEN << >>
           ELSE SubSeq(r, EchoEnd(r) + 1, IF MarkAt(r) = 0 THEN Len(r) ELSE MarkAt(r) - 1)

(* The bytes of a command still to come after the first i of b.            *)
Pending(b) ==
  LET left[i \in 0 .. Len(b)] ==
        IF i = 0 THEN 0
        ELSE IF left[i - 1] > 0 THEN left[i - 1] - 1
        ELSE IF b[i] = "iac" THEN 2 ELSE 0
  IN left
Kept(b, i) == Pending(b)[i - 1] = 0 /\ b[i] \notin {"iac", "cr"}
ArtUpTo(b) ==
  LET art[i \in 0 .. Len(b)] ==
        IF i = 0 THEN << >>
        ELSE IF Kept(b, i) THEN Append(art[i - 1], b[i]) ELSE art[i - 1]
  IN art
Art == ArtUpTo(Body(reply))[Len(Body(reply))]

(* However the reply is cut into chunks, what is printed is the art, whole *)
(* and alone (README.md:29-30: cleaned of telnet commands, clean output),  *)
(* unless a cut fell into the marker or into a command, a NUL hid the      *)
(* marker from strstr, or part of the banner was still to come when its    *)
(* first dot, or the timeout, sent the command.                            *)
OutputRight == ~spoiled =>
  /\ IsPrefix(printed, Art)
  /\ stage = "end" => printed = Art
=============================================================================
