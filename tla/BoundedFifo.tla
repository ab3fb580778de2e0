---------------------------- MODULE BoundedFifo ----------------------------
(***************************************************************************)
(* What the ring device promises its users: a queue of at most Capacity    *)
(* bytes.  A write appends the next bytes, a read takes a prefix, a clear  *)
(* drops everything, and each of them happens at one instant whatever      *)
(* threads interleave.  Bytes are numbered in the order they were accepted.*)
(***************************************************************************)
EXTENDS Naturals, Sequences

CONSTANT Capacity

VARIABLES
  queue,     \* the bytes accepted and not yet taken or cleared
  sent,      \* how many bytes were ever accepted
  taken      \* the bytes taken, in the order they were taken

fifo == <<queue, sent, taken>>

Init == queue = << >> /\ sent = 0 /\ taken = << >>

Put(n) ==
  /\ Len(queue) + n <= Capacity
  /\ queue' = queue \o [i \in 1 .. n |-> sent + i]
  /\ sent' = sent + n
  /\ UNCHANGED taken

Take(n) ==
  /\ taken' = taken \o SubSeq(queue, 1, n)
  /\ queue' = SubSeq(queue, n + 1, Len(queue))
  /\ UNCHANGED sent

Clear == queue' = << >> /\ UNCHANGED <<sent, taken>>

Next ==
  \/ \E n \in 1 .. Capacity : Put(n)
  \/ \E n \in 1 .. Len(queue) : Take(n)
  \/ Clear

Spec == Init /\ [][Next]_fifo
=============================================================================
