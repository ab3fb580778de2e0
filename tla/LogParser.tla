----------------------------- MODULE LogParser -----------------------------
(***************************************************************************)
(* The multi-threaded log parser of src/DZ_17_threads/parser_logs.c.  main *)
(* deals the files of a directory out to num_t workers, starts them, joins *)
(* them, prints and frees.  A worker reads its files line by line and adds *)
(* each line to the shared tables url_stats and ref_stats (hash tables     *)
(* with chains, one mutex each) and to global_total_bytes (its own mutex). *)
(*                                                                         *)
(* A line is what parse_combined finds in it: whether its request quotes   *)
(* are there, its decoded URL, its byte count and its decoded referer.     *)
(***************************************************************************)
EXTENDS Integers, Sequences, FiniteSets

CONSTANTS
  num_t,      \* number of workers
  Files,      \* the regular files of the directory, in readdir order
  Content,    \* Content[f]: the sequence of lines of file f
  Unreadable, \* the files fopen fails on
  Keys,       \* URLs and referers after decoding
  hash,       \* hash[k]: the bucket of key k
  TopN,       \* how many entries print_top shows
  Nothing,    \* the URL or referer is missing, or decodes to ""
  Dash        \* the referer is "-"

Lines == [quotes : BOOLEAN, url : Keys \cup {Nothing}, bytes : Int,
          referer : Keys \cup {Nothing, Dash}]

ASSUME WorkersAssumption == num_t \in Nat \ {0}
ASSUME FilesAssumption == Files \in Seq(DOMAIN Content)
ASSUME ContentAssumption ==
  \A n \in 1 .. Len(Files) : Content[Files[n]] \in Seq(Lines)
ASSUME KeysAssumption == Nothing \notin Keys /\ Dash \notin Keys /\ Nothing # Dash

Workers == 0 .. num_t - 1
Tables  == {"url", "ref"}
Locks   == Tables \cup {"bytes"}
Nobody  == -1

VARIABLES
  table,   \* table[h][bucket]: the chain of nodes, newest first
  total,   \* global_total_bytes
  lock,    \* lock[l]: the worker that holds mutex l, or Nobody
  pc,      \* where each worker is
  file,    \* index of the file a worker is in
  line,    \* index of the line a worker is in
  ht,      \* the table add_stat works on
  curr,    \* how many nodes the chain has from curr on: 0 for NULL
  tmp,     \* the value loaded before a store
  main,    \* where main is: "create", "join", "print", "free", "end"
  turn,    \* the worker main creates or joins next
  report   \* what was printed: the total, the top URLs, the top referers

shared   == <<table, total, lock>>
locals   == <<ht, curr, tmp>>
mainVars == <<main, turn, report>>
vars     == <<shared, pc, file, line, locals, mainVars>>

(* Files are dealt out in turn: file n goes to worker (n - 1) % num_t.     *)
paths(w) == [i \in 1 .. (Len(Files) - w + num_t - 1) \div num_t |->
               Files[(i - 1) * num_t + w + 1]]

Lines_of(w) == Content[paths(w)[file[w]]]
CurrentLine(w) == Lines_of(w)[line[w]]

(* What the line adds to table h, and under which key.                     *)
key(w, h) == IF h = "url" THEN CurrentLine(w).url ELSE CurrentLine(w).referer
val(w, h) == IF h = "url" THEN CurrentLine(w).bytes ELSE 1

chain(w) == table[ht[w]][hash[key(w, ht[w])]]
node(w)  == chain(w)[Len(chain(w)) - curr[w] + 1]

Goto(w, from, to) == pc[w] = from /\ pc' = [pc EXCEPT ![w] = to]

Init ==
  /\ table = [h \in Tables |-> [b \in {hash[k] : k \in Keys} |-> << >>]]
  /\ total = 0
  /\ lock = [l \in Locks |-> Nobody]
  /\ pc = [w \in Workers |-> "unborn"]
  /\ file = [w \in Workers |-> 1]
  /\ line = [w \in Workers |-> 1]
  /\ ht = [w \in Workers |-> "url"]
  /\ curr = [w \in Workers |-> 0]
  /\ tmp = [w \in Workers |-> 0]
  /\ main = IF Files = << >> THEN "free" ELSE "create"
  /\ turn = 0
  /\ report = << >>

-----------------------------------------------------------------------------
(* add_stat, for the URL and then for the referer of a line.               *)

(* An empty key, or a "-" referer, adds nothing.                           *)
Skip(w) ==
  /\ pc[w] = "add" /\ key(w, ht[w]) \in {Nothing, Dash}
  /\ IF ht[w] = "url" THEN ht' = [ht EXCEPT ![w] = "ref"] /\ UNCHANGED pc
                      ELSE Goto(w, "add", "bytes") /\ UNCHANGED ht
  /\ UNCHANGED <<shared, file, line, curr, tmp, mainVars>>

(* Mutant: add_stat does not wait for the mutex.                           *)
LockTable_Unguarded(w) ==
  /\ pc[w] = "add" /\ key(w, ht[w]) \in Keys
  /\ lock' = [lock EXCEPT ![ht[w]] = w]
  /\ curr' = [curr EXCEPT ![w] = Len(chain(w))]
  /\ Goto(w, "add", "walk")
  /\ UNCHANGED <<table, total, file, line, ht, tmp, mainVars>>

LockTable(w) ==
  /\ pc[w] = "add" /\ key(w, ht[w]) \in Keys
  /\ lock[ht[w]] = Nobody
  /\ lock' = [lock EXCEPT ![ht[w]] = w]
  /\ curr' = [curr EXCEPT ![w] = Len(chain(w))]
  /\ Goto(w, "add", "walk")
  /\ UNCHANGED <<table, total, file, line, ht, tmp, mainVars>>

(* The chain is searched; the value of the node found is loaded.           *)
Walk(w) ==
  /\ pc[w] = "walk" /\ curr[w] > 0
  /\ IF node(w).key = key(w, ht[w])
     THEN /\ Goto(w, "walk", "store")
          /\ tmp' = [tmp EXCEPT ![w] = node(w).value]
          /\ UNCHANGED curr
     ELSE /\ curr' = [curr EXCEPT ![w] = @ - 1]
          /\ UNCHANGED <<pc, tmp>>
  /\ UNCHANGED <<shared, file, line, ht, mainVars>>

Store(w) ==
  /\ Goto(w, "store", "unlock")
  /\ table' = [table EXCEPT ![ht[w]][hash[key(w, ht[w])]]
                              [Len(chain(w)) - curr[w] + 1].value =
                 tmp[w] + val(w, ht[w])]
  /\ UNCHANGED <<total, lock, file, line, locals, mainVars>>

(* No node has the key: new_node->next takes the head of the chain, then   *)
(* the head becomes new_node.                                              *)
NewNode(w) ==
  /\ curr[w] = 0
  /\ Goto(w, "walk", "link")
  /\ curr' = [curr EXCEPT ![w] = Len(chain(w))]
  /\ UNCHANGED <<shared, file, line, ht, tmp, mainVars>>

Link(w) ==
  /\ Goto(w, "link", "unlock")
  /\ table' = [table EXCEPT ![ht[w]][hash[key(w, ht[w])]] =
                 <<[key |-> key(w, ht[w]), value |-> val(w, ht[w])]>>
                 \o SubSeq(@, Len(@) - curr[w] + 1, Len(@))]
  /\ UNCHANGED <<total, lock, file, line, locals, mainVars>>

UnlockTable(w) ==
  /\ lock' = [lock EXCEPT ![ht[w]] = Nobody]
  /\ curr' = [curr EXCEPT ![w] = 0]
  /\ tmp' = [tmp EXCEPT ![w] = 0]
  /\ IF ht[w] = "url" THEN Goto(w, "unlock", "add") /\ ht' = [ht EXCEPT ![w] = "ref"]
                      ELSE Goto(w, "unlock", "bytes") /\ UNCHANGED ht
  /\ UNCHANGED <<table, total, file, line, mainVars>>

add_stat(w) ==
  Skip(w) \/ LockTable(w) \/ Walk(w) \/ Store(w) \/ NewNode(w) \/ Link(w) \/ UnlockTable(w)

-----------------------------------------------------------------------------
(* The end of parse_combined: a positive byte count joins the total.       *)

NextLine(w) ==
  /\ line' = [line EXCEPT ![w] = @ + 1]
  /\ ht' = [ht EXCEPT ![w] = "url"]
  /\ tmp' = [tmp EXCEPT ![w] = 0]

NoBytes(w) ==
  /\ pc[w] = "bytes" /\ CurrentLine(w).bytes <= 0
  /\ Goto(w, "bytes", "line")
  /\ NextLine(w)
  /\ UNCHANGED <<shared, file, curr, mainVars>>

(* Mutant: the total is updated without bytes_lock.                        *)
LoadTotal_Unlocked(w) ==
  /\ pc[w] = "bytes" /\ CurrentLine(w).bytes > 0
  /\ tmp' = [tmp EXCEPT ![w] = total]
  /\ Goto(w, "bytes", "addTotal")
  /\ UNCHANGED <<shared, file, line, ht, curr, mainVars>>

LoadTotal(w) ==
  /\ pc[w] = "bytes" /\ CurrentLine(w).bytes > 0
  /\ lock["bytes"] = Nobody
  /\ lock' = [lock EXCEPT !["bytes"] = w]
  /\ tmp' = [tmp EXCEPT ![w] = total]
  /\ Goto(w, "bytes", "addTotal")
  /\ UNCHANGED <<table, total, file, line, ht, curr, mainVars>>

AddTotal(w) ==
  /\ Goto(w, "addTotal", "unlockTotal")
  /\ total' = tmp[w] + CurrentLine(w).bytes
  /\ UNCHANGED <<table, lock, file, line, locals, mainVars>>

UnlockTotal(w) ==
  /\ Goto(w, "unlockTotal", "line")
  /\ lock' = [lock EXCEPT !["bytes"] = Nobody]
  /\ NextLine(w)
  /\ UNCHANGED <<table, total, file, curr, mainVars>>

-----------------------------------------------------------------------------
(* Mutants: an unreadable file ends the worker; a line without quotes is   *)
(* never left behind.                                                      *)
OpenFile_GivesUp(w) ==
  /\ IF file[w] > Len(paths(w)) THEN Goto(w, "open", "done")
     ELSE Goto(w, "open", IF paths(w)[file[w]] \in Unreadable THEN "done" ELSE "line")
  /\ UNCHANGED <<shared, file, line, locals, mainVars>>
ReadLine_Stuck(w) ==
  /\ pc[w] = "line"
  /\ IF line[w] > Len(Lines_of(w))
     THEN /\ Goto(w, "line", "open")
          /\ file' = [file EXCEPT ![w] = @ + 1]
          /\ line' = [line EXCEPT ![w] = 1]
     ELSE /\ IF CurrentLine(w).quotes THEN Goto(w, "line", "add") ELSE UNCHANGED pc
          /\ UNCHANGED <<file, line>>
  /\ UNCHANGED <<shared, locals, mainVars>>

(* worker: a file that cannot be opened is passed over.                    *)
OpenFile(w) ==
  /\ pc[w] = "open"
  /\ IF file[w] > Len(paths(w))
     THEN Goto(w, "open", "done") /\ UNCHANGED file
     ELSE IF paths(w)[file[w]] \in Unreadable
          THEN file' = [file EXCEPT ![w] = @ + 1] /\ UNCHANGED pc
          ELSE Goto(w, "open", "line") /\ UNCHANGED file
  /\ UNCHANGED <<shared, line, locals, mainVars>>

(* fgets and the first early returns of parse_combined.                    *)
ReadLine(w) ==
  /\ pc[w] = "line"
  /\ IF line[w] > Len(Lines_of(w))
     THEN /\ Goto(w, "line", "open")
          /\ file' = [file EXCEPT ![w] = @ + 1]
          /\ line' = [line EXCEPT ![w] = 1]
     ELSE IF CurrentLine(w).quotes
          THEN Goto(w, "line", "add") /\ UNCHANGED <<file, line>>
          ELSE /\ line' = [line EXCEPT ![w] = @ + 1]
               /\ UNCHANGED <<file, pc>>
  /\ UNCHANGED <<shared, locals, mainVars>>

worker(w) ==
  \/ OpenFile(w) \/ ReadLine(w) \/ add_stat(w)
  \/ NoBytes(w) \/ LoadTotal(w) \/ AddTotal(w) \/ UnlockTotal(w)

-----------------------------------------------------------------------------
(* main: create every worker, join every worker, print, free.              *)
Create ==
  /\ main = "create"
  /\ Goto(turn, "unborn", "open")
  /\ IF turn = num_t - 1 THEN main' = "join" /\ turn' = 0
                         ELSE UNCHANGED main /\ turn' = turn + 1
  /\ UNCHANGED <<shared, file, line, locals, report>>

Join ==
  /\ main = "join"
  /\ pc[turn] = "done"
  /\ IF turn = num_t - 1 THEN main' = "print" /\ turn' = 0
                         ELSE UNCHANGED main /\ turn' = turn + 1
  /\ UNCHANGED <<shared, pc, file, line, locals, report>>

(* print_top collects every node, sorts by value and shows the first TopN. *)
Nodes(h) == UNION {{table[h][b][i] : i \in DOMAIN table[h][b]} : b \in DOMAIN table[h]}
SmallestOf(m, n) == IF m <= n THEN m ELSE n
print_top(h, shown) ==
  /\ shown \subseteq Nodes(h)
  /\ \A n \in Nodes(h) \ shown : \A m \in shown : m.value >= n.value
  /\ Cardinality(shown) = SmallestOf(TopN, Cardinality(Nodes(h)))

PrintReport ==
  /\ main = "print"
  /\ main' = "free"
  /\ \E urls \in SUBSET Nodes("url"), refs \in SUBSET Nodes("ref") :
       /\ print_top("url", urls) /\ print_top("ref", refs)
       /\ report' = <<total, urls, refs>>
  /\ UNCHANGED <<shared, pc, file, line, locals, turn>>

(* free_hash_table on both tables, and the mutexes destroyed.              *)
Free ==
  /\ main = "free"
  /\ main' = "end"
  /\ table' = [h \in Tables |-> [b \in DOMAIN table[h] |-> << >>]]
  /\ UNCHANGED <<total, lock, pc, file, line, locals, turn, report>>

Exited == main = "end" /\ UNCHANGED vars

Next == Create \/ Join \/ PrintReport \/ Free \/ Exited \/ \E w \in Workers : worker(w)

(* Every thread is scheduled, and a mutex reaches each of its waiters.     *)
Spec ==
  /\ Init /\ [][Next]_vars
  /\ WF_vars(Create \/ Join \/ PrintReport \/ Free)
  /\ \A w \in Workers : /\ WF_vars(worker(w))
                        /\ SF_vars(LockTable(w)) /\ SF_vars(LoadTotal(w))
=============================================================================
