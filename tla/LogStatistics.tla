--------------------------- MODULE LogStatistics ---------------------------
(***************************************************************************)
(* What the log parser must compute: the sums over all lines of all files  *)
(* that can be read, whatever the number of workers and their interleaving.*)
(***************************************************************************)
EXTENDS LogParser, Functions

(* The lines that count: <<f, j>> is line j of file number f.              *)
Counted ==
  {p \in UNION {{<<f, j>> : j \in 1 .. Len(Content[Files[f]])} : f \in 1 .. Len(Files)} :
     Files[p[1]] \notin Unreadable /\ Content[Files[p[1]]][p[2]].quotes}
At(p) == Content[Files[p[1]]][p[2]]

(* What line p adds to table h under key k, and to the total.              *)
KeyIn(p, h) == IF h = "url" THEN At(p).url ELSE At(p).referer
Share(p, h, k) == IF KeyIn(p, h) # k THEN 0 ELSE IF h = "url" THEN At(p).bytes ELSE 1
Gain(p) == IF At(p).bytes > 0 THEN At(p).bytes ELSE 0

Expected(h, k) == SumFunction([p \in Counted |-> Share(p, h, k)])
ExpectedTotal  == SumFunction([p \in Counted |-> Gain(p)])

(* How far the worker of line p has come with it.                          *)
Owner(p) == (p[1] - 1) % num_t
Slot(p)  == (p[1] - 1) \div num_t + 1
Before(p) == LET w == Owner(p) IN
  Slot(p) < file[w] \/ (Slot(p) = file[w] /\ p[2] < line[w])
Current(p) == LET w == Owner(p) IN
  /\ Slot(p) = file[w] /\ p[2] = line[w]
  /\ pc[w] \notin {"unborn", "open", "line", "done"}
AddedTo(h, p) == LET w == Owner(p) IN
  \/ Before(p)
  \/ /\ Current(p) /\ h = "url"
     /\ ht[w] = "ref" \/ pc[w] = "unlock"
  \/ /\ Current(p) /\ h = "ref" /\ ht[w] = "ref"
     /\ pc[w] \in {"unlock", "bytes", "addTotal", "unlockTotal"}
AddedToTotal(p) == Before(p) \/ (Current(p) /\ pc[Owner(p)] = "unlockTotal")

(* What the lines added so far make of the sums, and what the tables hold. *)
Added(h, k) == [p \in Counted |-> IF AddedTo(h, p) THEN Share(p, h, k) ELSE 0]
Gained      == [p \in Counted |-> IF AddedToTotal(p) THEN Gain(p) ELSE 0]
Value(h, k) == SumFunction([n \in Nodes(h) |-> IF n.key = k THEN n.value ELSE 0])

-----------------------------------------------------------------------------
(* A key has one node, in the chain its hash names: two workers that meet  *)
(* the same new URL never both add it (add_stat:38-51).                    *)
OneNodePerKey ==
  \A h \in Tables : \A b, c \in DOMAIN table[h] :
    \A i \in DOMAIN table[h][b], j \in DOMAIN table[h][c] :
      /\ hash[table[h][b][i].key] = b
      /\ table[h][b][i].key = table[h][c][j].key => b = c /\ i = j

(* At every instant each table holds, under each key, exactly the shares   *)
(* of the lines already added to it, and global_total_bytes their bytes:   *)
(* no update is lost or made twice.                                        *)
LinesAccountedFor ==
  /\ main # "end" => \A h \in Tables, k \in Keys : Value(h, k) = SumFunction(Added(h, k))
  /\ total = SumFunction(Gained)

(* No worker is left to touch the tables while main prints and frees them  *)
(* (main, after its pthread_join calls), and no mutex is held when main    *)
(* destroys it.                                                            *)
NoWorkerLeft ==
  main \in {"print", "free", "end"} /\ Files # << >> =>
    \A w \in Workers : pc[w] = "done" /\ \A l \in Locks : lock[l] = Nobody

(* What main prints is the right answer: the total, and the TopN keys with *)
(* their exact sums, none of the keys left out being larger.               *)
Occurring(h) == Keys \cap {KeyIn(p, h) : p \in Counted}
Right(h, shown) ==
  /\ \A n \in shown : n.value = Expected(h, n.key)
  /\ \A n \in shown, k \in Occurring(h) \ {m.key : m \in shown} :
       Expected(h, k) <= n.value
  /\ Cardinality(shown) = SmallestOf(TopN, Cardinality(Occurring(h)))
ReportIsRight ==
  /\ report # << >> => /\ report[1] = ExpectedTotal
                       /\ Right("url", report[2]) /\ Right("ref", report[3])
  /\ NoWorkerLeft

(* The program ends: no worker waits for ever for a mutex.                 *)
Terminates == <>(main = "end")
=============================================================================
