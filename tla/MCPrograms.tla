----------------------------- MODULE MCPrograms -----------------------------
(* Instances of the small programs for TLC.                                *)
EXTENDS Programs, TLC

(* The lesson's device: two threads of one process, one of another.        *)
MCProcessOf == [t1 |-> "p1", t2 |-> "p1", t3 |-> "p2"]
MCWriting   == [t1 |-> "a", t2 |-> "b", t3 |-> "b"]

(* Once ioctl's text has left the buffer nothing is promised any more.     *)
UntilOverrun == ~overran

(* The ASCII art client: replies with a telnet command, without a marker,  *)
(* with a command that repeats its first byte, with a NUL, with text behind*)
(* the marker, and without a line.                                         *)
Echo == <<"e", "cr", "lf">>
MCBanners == {<<"x", "dot">>, <<"dot", "x">>,
   <<"e", "cr", "dot">>}
MCReplies ==
  {Echo \o <<"x", "iac", "o", "p", "y", "cr", "lf", "z", "cr", "lf", "dot">>,
   Echo \o <<"x", "iac", "o", "p", "y", "lf">>,
   Echo \o <<"iac", "iac", "o", "x", "cr", "lf", "dot">>,
   Echo \o <<"cr", "nul", "x", "cr", "lf", "dot">>,
   Echo \o <<"cr", "lf", "dot", "x">>,
   <<"e", "cr", "dot">>}

(* The text converter: every byte alone, and pairs of bytes on both sides  *)
(* of the limits of the table's ranges.                                    *)
MCTexts == {<< >>} \cup [1 .. 1 -> 1 .. 255]
             \cup [1 .. 2 -> {65, 127, 128, 168, 192, 223, 224, 239, 240, 255}]

(* The checksum: x^4 + x + 1 divides.                                      *)
MCGenerator == <<1, 0, 0, 1, 1>>

(* The lists' data and what malloc can return.                             *)
MCValues == <<4, 15, 23>>
MCCells  == 1 .. 5
=============================================================================
