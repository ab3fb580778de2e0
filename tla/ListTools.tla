------------------------------ MODULE ListTools ------------------------------
(***************************************************************************)
(* The list programs of src/DZ_7_assembler: main.asm and main_c.c build a  *)
(* linked list, print it, copy the odd values into a second list, print    *)
(* that and free both; main_orig.asm, from which they come, frees nothing. *)
(* main.asm appends to the copy through a pointer to its last next field,  *)
(* the other two put each value in front.  0 is the null pointer.          *)
(***************************************************************************)
EXTENDS Integers, SequencesExt

CONSTANTS
  Variants,   \* of "asm", "c" and "orig"
  Values,     \* data
  Cells       \* what malloc can return: positive numbers

VARIABLES
  variant, job_at,
  left,       \* rbx while the list is built: values still to add
  heap,       \* the allocated nodes: address -> [value, next]
  list, odd,  \* the two lists
  tail,       \* r14: the node whose next field is to be filled, 0 for the head
  node,       \* the node at hand in m, f or free_list
  shown       \* what was printed of each list

Init ==
  /\ variant = "asm" /\ job_at = "start" /\ left = 0
  /\ heap = [c \in {} |-> 0]
  /\ list = 0 /\ odd = 0 /\ tail = 0 /\ node = 0 /\ shown = << << >>, << >> >>

Start ==
  /\ job_at = "start" /\ job_at' = "add" /\ variant' \in Variants /\ left' = Len(Values)
  /\ UNCHANGED <<heap, list, odd, tail, node, shown>>

Malloc == Cells \ DOMAIN heap
With(c, value, next) ==
  [d \in DOMAIN heap \cup {c} |-> IF d = c THEN [value |-> value, next |-> next] ELSE heap[d]]

(* malloc gave nothing: add_element aborts.                                *)
Abort ==
  /\ job_at \in {"add", "filter"} /\ job_at' = "aborted"
  /\ UNCHANGED <<variant, left, heap, list, odd, tail, node, shown>>

(* adding_loop: from the last value to the first.                          *)
AddElement ==
  /\ job_at = "add" /\ left > 0 /\ left' = left - 1
  /\ \E c \in Malloc : heap' = With(c, Values[left], list) /\ list' = c
  /\ UNCHANGED <<variant, job_at, odd, tail, node, shown>>

(* The end of a loop: the list that the next one goes through.             *)
Then(from, to, first) ==
  /\ job_at = from /\ node = 0 /\ job_at' = to /\ node' = first
  /\ UNCHANGED <<variant, left, heap, list, odd, tail, shown>>

(* One element in m.                                                       *)
m(from, k) ==
  /\ job_at = from /\ node # 0
  /\ shown' = [shown EXCEPT ![k] = Append(@, heap[node].value)]
  /\ node' = heap[node].next
  /\ UNCHANGED <<variant, job_at, left, heap, list, odd, tail>>

(* Mutant: r14 is not moved to the new node.                               *)
f_TailStays ==
  /\ job_at = "filter" /\ node # 0 /\ node' = heap[node].next
  /\ IF heap[node].value % 2 = 0 THEN UNCHANGED <<heap, odd>>
     ELSE \E c \in Malloc : odd' = c /\ heap' = With(c, heap[node].value, IF variant = "asm" THEN 0 ELSE odd)
  /\ UNCHANGED <<variant, job_at, left, list, tail, shown>>

(* One element in f.                                                       *)
f ==
  /\ job_at = "filter" /\ node # 0 /\ node' = heap[node].next
  /\ \/ /\ heap[node].value % 2 = 0 /\ UNCHANGED <<heap, odd, tail>>
     \/ /\ heap[node].value % 2 = 1 /\ variant = "asm"
        /\ \E c \in Malloc :
             /\ tail' = c
             /\ LET copied == With(c, heap[node].value, 0)
                IN IF tail = 0 THEN odd' = c /\ heap' = copied
                               ELSE heap' = [copied EXCEPT ![tail].next = c] /\ UNCHANGED odd
     \/ /\ heap[node].value % 2 = 1 /\ variant # "asm" /\ UNCHANGED tail
        /\ \E c \in Malloc : odd' = c /\ heap' = With(c, heap[node].value, odd)
  /\ UNCHANGED <<variant, job_at, left, list, shown>>

(* One element in free_list: its next is read before it is freed.          *)
free_list ==
  /\ job_at \in {"free1", "free2"} /\ node # 0
  /\ node' = heap[node].next
  /\ heap' = [c \in DOMAIN heap \ {node} |-> heap[c]]
  /\ UNCHANGED <<variant, job_at, left, list, odd, tail, shown>>

main ==
  \/ left = 0 /\ Then("add", "print1", list)
  \/ Then("print1", "filter", list) \/ Then("filter", "print2", odd)
  \/ Then("print2", IF variant = "orig" THEN "end" ELSE "free1", IF variant = "orig" THEN 0 ELSE list)
  \/ Then("free1", "free2", odd) \/ Then("free2", "end", 0)

Next ==
  \/ Start \/ AddElement \/ Abort \/ m("print1", 1) \/ m("print2", 2) \/ f \/ free_list \/ main

(* The odd ones of the first n values.                                     *)
OddUpTo[n \in 0 .. Len(Values)] ==
  IF n = 0 THEN << >>
  ELSE IF Values[n] % 2 = 1 THEN Append(OddUpTo[n - 1], Values[n]) ELSE OddUpTo[n - 1]
Odd == OddUpTo[Len(Values)]

(* No step follows a pointer to a node that is freed or was never made; at *)
(* the end both lists have been printed whole, the values in their order   *)
(* and the odd ones in theirs (in main_c.c and main_orig.asm in reverse),  *)
(* and no node is left, unless the program is the original, whose leak the *)
(* README.md:19 asks to mend.                                              *)
ListsRight ==
  /\ {node, tail, list} \ {0} \subseteq DOMAIN heap \/ job_at \in {"free1", "free2", "end"}
  /\ job_at \in {"free1", "free2"} => {node} \ {0} \subseteq DOMAIN heap
  /\ job_at = "end" =>
       /\ shown[1] = Values /\ shown[2] = IF variant = "asm" THEN Odd ELSE Reverse(Odd)
       /\ variant # "orig" => DOMAIN heap = {}
=============================================================================
