-------------------------- MODULE LogParserProofs --------------------------
(***************************************************************************)
(* Machine-checked proofs about LogParser, for any number of workers, any  *)
(* directory and any hash function: a mutex protects its table, no two     *)
(* workers add the same key, main prints and frees after the last worker   *)
(* is done, and what it prints are the sums over all lines of all files.   *)
(***************************************************************************)
EXTENDS LogStatistics, FiniteSetTheorems, WellFoundedInduction, TLAPS

Node    == [key : Keys, value : Int]
Buckets == {hash[k] : k \in Keys}

InTable == {"walk", "store", "link", "unlock"}
InTotal == {"addTotal", "unlockTotal"}
Working == InTable \cup InTotal \cup {"line", "add", "bytes"}
Places  == Working \cup {"unborn", "open", "done"}

TypeOK ==
  /\ table \in [Tables -> [Buckets -> Seq(Node)]]
  /\ total \in Int
  /\ lock \in [Locks -> Workers \cup {Nobody}]
  /\ pc \in [Workers -> Places]
  /\ file \in [Workers -> Nat \ {0}]
  /\ line \in [Workers -> Nat \ {0}]
  /\ ht \in [Workers -> Tables]
  /\ curr \in [Workers -> Nat]
  /\ tmp \in [Workers -> Int]

(* A worker past fopen is in one of its files, and past fgets in one of    *)
(* the lines of that file.                                                 *)
Reads(w) == pc[w] \in Working =>
  /\ file[w] \in 1 .. Len(paths(w))
  /\ pc[w] # "line" => line[w] \in 1 .. Len(Lines_of(w))

(* A mutex is held by the worker that is between its lock and its unlock.  *)
LocksHeld == \A w \in Workers :
  /\ \A h \in Tables : lock[h] = w <=> pc[w] \in InTable /\ ht[w] = h
  /\ lock["bytes"] = w <=> pc[w] \in InTotal

-----------------------------------------------------------------------------
(* The work of a worker.                                                   *)

LEMMA Division ==
  \A a \in Int, c \in Nat \ {0} : a \div c \in Int /\ a = c * (a \div c) + (a % c)
                                  /\ a % c \in 0 .. c - 1
  OBVIOUS

(* A worker has a whole number of files.                                   *)
LEMMA PathsLength ==
  ASSUME NEW w \in Workers
  PROVE  LET m == Len(Files) - w + num_t - 1
         IN  /\ Len(paths(w)) = m \div num_t /\ Len(paths(w)) \in Nat
             /\ m \in Int /\ num_t * (m \div num_t) <= m
<1> DEFINE m == Len(Files) - w + num_t - 1
           q == m \div num_t
<1>1. Len(Files) \in Nat /\ w \in 0 .. num_t - 1 /\ num_t \in Nat \ {0}
  BY FilesAssumption, WorkersAssumption DEF Workers
<1>2. m \in Int /\ m >= 0
  BY <1>1
<1>3. q \in Int /\ num_t * q <= m /\ num_t * q > m - num_t
  <2> HIDE DEF m
  <2>1. /\ q \in Int /\ m = num_t * q + (m % num_t) /\ m % num_t \in 0 .. num_t - 1
    BY <1>1, <1>2, Division
  <2> QED
    BY <1>1, <1>2, <2>1
<1>4. q \in Nat
  <2> HIDE DEF q
  <2>1. q <= -1 => num_t * q <= -num_t
    BY <1>1, <1>3
  <2> QED
    BY <1>1, <1>2, <1>3, <2>1
<1>5. Len(paths(w)) = q
  BY <1>4 DEF paths
<1> QED
  BY <1>2, <1>3, <1>4, <1>5

(* The files dealt to a worker are files of the directory.                 *)
LEMMA PathsInFiles ==
  ASSUME NEW w \in Workers, NEW i \in 1 .. Len(paths(w))
  PROVE  \E n \in 1 .. Len(Files) : paths(w)[i] = Files[n]
<1> DEFINE m == Len(Files) - w + num_t - 1
           q == m \div num_t
<1>1. Len(Files) \in Nat /\ w \in 0 .. num_t - 1 /\ num_t \in Nat \ {0}
  BY FilesAssumption, WorkersAssumption DEF Workers
<1>2. q \in Nat /\ m \in Int /\ num_t * q <= m /\ i \in 1 .. q
  BY PathsLength
<1>3. paths(w)[i] = Files[(i - 1) * num_t + w + 1]
  BY <1>2 DEF paths
<1>4. (i - 1) * num_t + w + 1 \in 1 .. Len(Files)
  <2> HIDE DEF q
  <2>1. q - i \in Nat /\ i \in Nat
    BY <1>2
  <2>2. num_t * (q - i) >= 0
    BY <1>1, <2>1
  <2>3. i * num_t <= num_t * q /\ i * num_t \in Int
    BY <1>1, <1>2, <2>1, <2>2
  <2>4. (i - 1) * num_t = i * num_t - num_t /\ (i - 1) * num_t >= 0
    BY <1>1, <1>2
  <2> QED
    BY <1>1, <1>2, <2>3, <2>4
<1> QED
  BY <1>3, <1>4

LEMMA LineTypes ==
  ASSUME TypeOK, NEW w \in Workers, pc[w] \in Working, Reads(w)
  PROVE  /\ Lines_of(w) \in Seq(Lines)
         /\ pc[w] # "line" => /\ CurrentLine(w) \in Lines
                              /\ \A h \in Tables : val(w, h) \in Int
<1>1. PICK n \in 1 .. Len(Files) : paths(w)[file[w]] = Files[n]
  BY PathsInFiles DEF Reads
<1>2. Lines_of(w) \in Seq(Lines)
  BY <1>1, ContentAssumption DEF Lines_of
<1>3. ASSUME pc[w] # "line" PROVE CurrentLine(w) \in Lines
  BY <1>2, <1>3 DEF Reads, CurrentLine
<1>4. ASSUME CurrentLine(w) \in Lines, NEW h \in Tables PROVE val(w, h) \in Int
  BY <1>4 DEF val, Lines
<1> QED
  BY <1>2, <1>3, <1>4

(* What a line is depends on where its worker is, and on nothing else.     *)
LEMMA LineStays ==
  ASSUME NEW w \in Workers, file'[w] = file[w]
  PROVE  /\ Lines_of(w)' = Lines_of(w) /\ paths(w)' = paths(w)
         /\ line'[w] = line[w] =>
              /\ CurrentLine(w)' = CurrentLine(w)
              /\ \A h : key(w, h)' = key(w, h) /\ val(w, h)' = val(w, h)
  BY DEF Lines_of, CurrentLine, key, val, paths

(* A step of a worker moves no other worker and leaves main alone.         *)
LEMMA WorkerOnly ==
  ASSUME TypeOK, NEW w \in Workers, worker(w)
  PROVE  /\ UNCHANGED mainVars
         /\ pc[w] \notin {"unborn", "done"}
         /\ \A v \in Workers \ {w} :
              /\ pc'[v] = pc[v] /\ file'[v] = file[v] /\ line'[v] = line[v]
              /\ ht'[v] = ht[v] /\ curr'[v] = curr[v] /\ tmp'[v] = tmp[v]
<1> USE DEF TypeOK, Goto, shared, locals
<1>1. CASE OpenFile(w)
  BY <1>1 DEF OpenFile
<1>2. CASE ReadLine(w)
  BY <1>2 DEF ReadLine
<1>3. CASE Skip(w)
  BY <1>3 DEF Skip
<1>4. CASE LockTable(w)
  BY <1>4 DEF LockTable
<1>5. CASE Walk(w)
  BY <1>5 DEF Walk
<1>6. CASE Store(w)
  BY <1>6 DEF Store
<1>7. CASE NewNode(w)
  BY <1>7 DEF NewNode
<1>8. CASE Link(w)
  BY <1>8 DEF Link
<1>9. CASE UnlockTable(w)
  BY <1>9 DEF UnlockTable
<1>10. CASE NoBytes(w) \/ UnlockTotal(w)
  BY <1>10 DEF NoBytes, UnlockTotal, NextLine
<1>11. CASE LoadTotal(w) \/ AddTotal(w)
  BY <1>11 DEF LoadTotal, AddTotal
<1> QED
  BY <1>1, <1>2, <1>3, <1>4, <1>5, <1>6, <1>7, <1>8, <1>9, <1>10, <1>11
  DEF worker, add_stat
-----------------------------------------------------------------------------
(* Types.                                                                  *)

LEMMA TypeInit == Init => TypeOK
<1> SUFFICES ASSUME Init PROVE TypeOK
  OBVIOUS
<1>1. table \in [Tables -> [Buckets -> Seq(Node)]]
  BY DEF Init, Buckets
<1> QED
  BY <1>1 DEF Init, TypeOK, Places, Tables

(* Writing one chain back keeps the tables well typed.                     *)
LEMMA TypeChain ==
  ASSUME TypeOK, NEW h \in Tables, NEW k \in Keys, NEW c \in Seq(Node),
         table' = [table EXCEPT ![h][hash[k]] = c]
  PROVE  table' \in [Tables -> [Buckets -> Seq(Node)]]
  BY DEF TypeOK, Buckets

(* The head of the chain becomes the new node, before what curr still has. *)
Linked(w) ==
  <<[key |-> key(w, ht[w]), value |-> val(w, ht[w])]>>
  \o SubSeq(chain(w), Len(chain(w)) - curr[w] + 1, Len(chain(w)))

(* The value of the node found is replaced.                                *)
Stored(w) ==
  [chain(w) EXCEPT ![Len(chain(w)) - curr[w] + 1].value = tmp[w] + val(w, ht[w])]

LEMMA LinkIs ==
  ASSUME TypeOK, NEW w \in Workers, Link(w), key(w, ht[w]) \in Keys
  PROVE  table' = [table EXCEPT ![ht[w]][hash[key(w, ht[w])]] = Linked(w)]
  BY DEF TypeOK, Link, Linked, chain, Buckets

LEMMA StoreIs ==
  ASSUME TypeOK, NEW w \in Workers, Store(w), key(w, ht[w]) \in Keys
  PROVE  table' = [table EXCEPT ![ht[w]][hash[key(w, ht[w])]] = Stored(w)]
  BY DEF TypeOK, Store, Stored, chain, Buckets

(* The chain a worker is in, and the nodes of it.                          *)
LEMMA ChainType ==
  ASSUME TypeOK, NEW w \in Workers, key(w, ht[w]) \in Keys
  PROVE  /\ chain(w) \in Seq(Node) /\ Len(chain(w)) \in Nat
         /\ DOMAIN chain(w) = 1 .. Len(chain(w))
         /\ \A i \in 1 .. Len(chain(w)) :
              /\ chain(w)[i] \in Node
              /\ chain(w)[i].key \in Keys /\ chain(w)[i].value \in Int
<1>1. chain(w) \in Seq(Node)
  <2>1. ht[w] \in Tables /\ hash[key(w, ht[w])] \in Buckets
    BY DEF TypeOK, Buckets
  <2>2. table[ht[w]] \in [Buckets -> Seq(Node)]
    BY <2>1 DEF TypeOK
  <2> QED
    BY <2>1, <2>2 DEF chain
<1>2. \A s \in Seq(Node) :
        /\ Len(s) \in Nat /\ DOMAIN s = 1 .. Len(s)
        /\ \A i \in 1 .. Len(s) : s[i] \in Node
  OBVIOUS
<1>3. \A n \in Node : n.key \in Keys /\ n.value \in Int
  BY DEF Node
<1> QED
  BY <1>1, <1>2, <1>3

(* Storing a value changes no key.                                         *)
LEMMA ChainStore ==
  ASSUME NEW c \in Seq(Node), NEW i \in 1 .. Len(c), NEW x \in Int
  PROVE  LET d == [c EXCEPT ![i].value = x]
         IN  /\ d \in Seq(Node) /\ Len(d) = Len(c)
             /\ \A j \in 1 .. Len(c) : d[j].key = c[j].key
<1> DEFINE d == [c EXCEPT ![i].value = x]
           n == [c[i] EXCEPT !.value = x]
<1>1. c[i] \in Node
  OBVIOUS
<1>2. n \in Node /\ n.key = c[i].key
  BY <1>1 DEF Node
<1>3. d = [c EXCEPT ![i] = n]
  OBVIOUS
<1> HIDE DEF d, n
<1>4. d \in Seq(Node) /\ Len(d) = Len(c) /\ d[i] = n
      /\ \A j \in 1 .. Len(c) : j # i => d[j] = c[j]
  BY <1>2, <1>3
<1>5. \A j \in 1 .. Len(c) : d[j].key = c[j].key
  BY <1>2, <1>4
<1> QED
  BY <1>4, <1>5 DEF d

(* A chain before which a node is put.                                     *)
LEMMA ChainLink ==
  ASSUME NEW c \in Seq(Node), NEW n \in Node
  PROVE  LET d == <<n>> \o SubSeq(c, 1, Len(c))
         IN  /\ d \in Seq(Node) /\ Len(d) = Len(c) + 1 /\ d[1] = n
             /\ \A j \in 2 .. Len(c) + 1 : d[j] = c[j - 1]
<1>1. SubSeq(c, 1, Len(c)) = c
  OBVIOUS
<1>2. Len(<<n>>) = 1 /\ <<n>> \in Seq(Node) /\ <<n>>[1] = n
  OBVIOUS
<1> DEFINE d == <<n>> \o c
<1>3. d \in Seq(Node) /\ Len(d) = Len(c) + 1 /\ d[1] = n
      /\ \A j \in 2 .. Len(c) + 1 : d[j] = c[j - 1]
  BY <1>2
<1> QED
  BY <1>1, <1>3

-----------------------------------------------------------------------------
(* The invariant.                                                          *)

Absent(c, n, k) == \A i \in 1 .. n : c[i].key # k

(* What a worker inside add_stat knows of the chain it holds the mutex of. *)
WalkRight(w) ==
  /\ pc[w] \in InTable => key(w, ht[w]) \in Keys
  /\ pc[w] = "walk" => /\ curr[w] <= Len(chain(w))
                       /\ Absent(chain(w), Len(chain(w)) - curr[w], key(w, ht[w]))
  /\ pc[w] = "link" => /\ curr[w] = Len(chain(w))
                       /\ Absent(chain(w), Len(chain(w)), key(w, ht[w]))
  /\ pc[w] = "store" => /\ curr[w] \in 1 .. Len(chain(w))
                        /\ node(w).key = key(w, ht[w])

(* main joins the workers in turn, and goes on when the last is done.      *)
Finished ==
  /\ main = "create" => /\ turn \in Workers /\ Files # << >>
                        /\ \A w \in Workers : w >= turn => pc[w] = "unborn"
  /\ main = "join" => /\ turn \in Workers /\ Files # << >>
                      /\ \A w \in Workers : w < turn => pc[w] = "done"
  /\ main \notin {"create", "join"} =>
       \A w \in Workers : pc[w] = IF Files = << >> THEN "unborn" ELSE "done"

LogInv ==
  /\ TypeOK /\ LocksHeld /\ OneNodePerKey /\ Finished
  /\ \A w \in Workers : Reads(w) /\ WalkRight(w)

LEMMA TypeWorker ==
  ASSUME LogInv, NEW w \in Workers, worker(w)
  PROVE  TypeOK'
<1> USE DEF LogInv, TypeOK, Goto, shared, locals
<1>0. /\ pc[w] \in InTable => key(w, ht[w]) \in Keys
      /\ "bytes" \in Locks /\ \A h \in Tables : h \in Locks
      /\ Places = {"walk", "store", "link", "unlock", "addTotal", "unlockTotal",
                   "line", "add", "bytes", "unborn", "open", "done"}
      /\ Tables = {"url", "ref"}
  BY DEF WalkRight, Locks, Tables, Places, Working, InTable, InTotal
<1>v. pc[w] \in Working \ {"line"} =>
        /\ CurrentLine(w).bytes \in Int /\ \A h \in Tables : val(w, h) \in Int
  BY LineTypes DEF Lines
<1>c. pc[w] \in InTable =>
        /\ chain(w) \in Seq(Node) /\ Len(chain(w)) \in Nat
        /\ \A i \in 1 .. Len(chain(w)) : chain(w)[i].value \in Int
  BY <1>0, ChainType
<1>n. file[w] + 1 \in Nat \ {0} /\ line[w] + 1 \in Nat \ {0} /\ 1 \in Nat \ {0}
  OBVIOUS
<1>1. CASE OpenFile(w)
  <2>1. pc' \in [Workers -> Places]
    BY <1>0, <1>1 DEF OpenFile
  <2>2. file' \in [Workers -> Nat \ {0}]
    BY <1>n, <1>1 DEF OpenFile
  <2> QED
    BY <1>1, <2>1, <2>2 DEF OpenFile
<1>2. CASE ReadLine(w)
  <2>1. pc' \in [Workers -> Places]
    BY <1>0, <1>2 DEF ReadLine
  <2>2. file' \in [Workers -> Nat \ {0}] /\ line' \in [Workers -> Nat \ {0}]
    BY <1>n, <1>2 DEF ReadLine
  <2> QED
    BY <1>2, <2>1, <2>2 DEF ReadLine
<1>3. CASE Skip(w)
  BY <1>0, <1>3 DEF Skip
<1>4. CASE LockTable(w)
  <2>1. Len(chain(w)) \in Nat
    BY <1>4, ChainType DEF LockTable
  <2> QED
    BY <1>0, <1>4, <2>1 DEF LockTable
<1>5. CASE Walk(w)
  <2>1. curr[w] - 1 \in Nat /\ (pc'[w] = "store" => node(w).value \in Int)
    <3>1. pc[w] = "walk" /\ curr[w] > 0 /\ curr[w] \in Nat
      BY <1>5 DEF Walk
    <3>2. curr[w] <= Len(chain(w)) /\ pc[w] \in InTable
      BY <3>1 DEF WalkRight, InTable
    <3>3. Len(chain(w)) - curr[w] + 1 \in 1 .. Len(chain(w))
      BY <1>c, <3>1, <3>2
    <3> QED
      BY <1>c, <3>1, <3>2, <3>3 DEF node
  <2> QED
    BY <1>0, <1>5, <2>1 DEF Walk
<1>6. CASE Store(w)
  <2>1. pc[w] \in InTable /\ pc[w] \in Working \ {"line"} /\ pc[w] = "store"
    BY <1>6 DEF Store, InTable, Working
  <2>2. Len(chain(w)) - curr[w] + 1 \in 1 .. Len(chain(w))
    BY <1>c, <2>1 DEF WalkRight
  <2>3. tmp[w] + val(w, ht[w]) \in Int
    BY <1>v, <2>1
  <2>4. Stored(w) \in Seq(Node)
    BY <1>c, <2>1, <2>2, <2>3, ChainStore DEF Stored
  <2>5. table' \in [Tables -> [Buckets -> Seq(Node)]]
    BY <1>0, <1>6, <2>1, <2>4, StoreIs, TypeChain
  <2> QED
    BY <1>0, <1>6, <2>5 DEF Store
<1>7. CASE NewNode(w)
  <2>1. Len(chain(w)) \in Nat
    BY <1>7, <1>c DEF NewNode, InTable
  <2> QED
    BY <1>0, <1>7, <2>1 DEF NewNode
<1>8. CASE Link(w)
  <2>1. pc[w] \in InTable /\ pc[w] \in Working \ {"line"} /\ pc[w] = "link"
    BY <1>8 DEF Link, InTable, Working
  <2>2. [key |-> key(w, ht[w]), value |-> val(w, ht[w])] \in Node
    BY <1>0, <1>v, <2>1 DEF Node
  <2>3. Linked(w) \in Seq(Node)
    <3>1. Len(chain(w)) - curr[w] + 1 = 1
      BY <1>c, <2>1 DEF WalkRight
    <3> QED
      BY <1>c, <2>1, <2>2, <3>1, ChainLink DEF Linked
  <2>5. table' \in [Tables -> [Buckets -> Seq(Node)]]
    BY <1>0, <2>1, <2>3, <1>8, LinkIs, TypeChain
  <2> QED
    BY <1>0, <1>8, <2>5 DEF Link
<1>9. CASE UnlockTable(w)
  <2>1. pc' \in [Workers -> Places]
    BY <1>0, <1>9 DEF UnlockTable
  <2>2. lock' \in [Locks -> Workers \cup {Nobody}] /\ ht' \in [Workers -> Tables]
    BY <1>0, <1>9 DEF UnlockTable
  <2>3. curr' \in [Workers -> Nat] /\ tmp' \in [Workers -> Int]
    BY <1>9 DEF UnlockTable
  <2> QED
    BY <1>9, <2>1, <2>2, <2>3 DEF UnlockTable
<1>10. CASE NoBytes(w) \/ UnlockTotal(w)
  <2>1. pc' \in [Workers -> Places] /\ lock' \in [Locks -> Workers \cup {Nobody}]
    BY <1>0, <1>10 DEF NoBytes, UnlockTotal
  <2>2. /\ line' \in [Workers -> Nat \ {0}] /\ ht' \in [Workers -> Tables]
        /\ tmp' \in [Workers -> Int]
    <3>1. NextLine(w)
      BY <1>10 DEF NoBytes, UnlockTotal
    <3>2. "url" \in Tables
      BY <1>0
    <3> QED
      BY <1>n, <3>1, <3>2 DEF NextLine
  <2>3. UNCHANGED <<table, total, file, curr>>
    BY <1>10 DEF NoBytes, UnlockTotal
  <2> QED
    BY <2>1, <2>2, <2>3
<1>11. CASE LoadTotal(w)
  <2>1. pc' \in [Workers -> Places] /\ lock' \in [Locks -> Workers \cup {Nobody}]
    BY <1>0, <1>11 DEF LoadTotal
  <2>2. tmp' \in [Workers -> Int]
    BY <1>11 DEF LoadTotal
  <2> QED
    BY <1>11, <2>1, <2>2 DEF LoadTotal
<1>12. CASE AddTotal(w)
  <2>1. CurrentLine(w).bytes \in Int
    BY <1>12, <1>v DEF AddTotal, Working, InTotal
  <2> QED
    BY <1>0, <1>12, <2>1 DEF AddTotal
<1> QED
  BY <1>1, <1>2, <1>3, <1>4, <1>5, <1>6, <1>7, <1>8, <1>9, <1>10, <1>11, <1>12
  DEF worker, add_stat

(* A mutex changes hands only between its lock and its unlock.             *)
LEMMA LocksWorker ==
  ASSUME LogInv, NEW w \in Workers, worker(w)
  PROVE  LocksHeld'
<1> USE DEF LogInv
<1>0. /\ Nobody \notin Workers /\ "bytes" \notin Tables
      /\ Locks = Tables \cup {"bytes"} /\ Tables = {"url", "ref"}
      /\ ht[w] \in Tables
  BY WorkersAssumption DEF Nobody, Workers, Tables, Locks, TypeOK
<1>1. \A v \in Workers \ {w} : pc'[v] = pc[v] /\ ht'[v] = ht[v]
  BY WorkerOnly
<1> DEFINE Held(v) == /\ \A h \in Tables : lock[h] = v <=> pc[v] \in InTable /\ ht[v] = h
                      /\ lock["bytes"] = v <=> pc[v] \in InTotal
<1>2. \A v \in Workers : Held(v)
  BY DEF LocksHeld
<1>3. SUFFICES \A v \in Workers : Held(v)'
  BY DEF LocksHeld
<1>4. CASE /\ UNCHANGED lock
           /\ pc'[w] \in InTable <=> pc[w] \in InTable
           /\ pc'[w] \in InTotal <=> pc[w] \in InTotal
           /\ pc[w] \in InTable => ht'[w] = ht[w]
  BY <1>1, <1>2, <1>4
<1>5. CASE OpenFile(w) \/ ReadLine(w) \/ Skip(w) \/ NoBytes(w)
  <2>1. /\ pc[w] \notin InTable \cup InTotal /\ pc'[w] \notin InTable \cup InTotal
        /\ UNCHANGED lock
    BY <1>5 DEF OpenFile, ReadLine, Skip, NoBytes, Goto, TypeOK, InTable, InTotal, shared
  <2> QED
    BY <1>4, <2>1
<1>6. CASE Walk(w) \/ Store(w) \/ NewNode(w) \/ Link(w)
  <2>1. /\ pc[w] \in InTable /\ pc'[w] \in InTable /\ UNCHANGED <<lock, ht>>
    BY <1>6 DEF Walk, Store, NewNode, Link, Goto, TypeOK, InTable, shared, locals
  <2> QED
    BY <1>4, <2>1 DEF InTable, InTotal
<1>7. CASE AddTotal(w)
  BY <1>4, <1>7 DEF AddTotal, Goto, TypeOK, InTable, InTotal, shared, locals
<1>8. CASE LockTable(w)
  <2>1. /\ lock[ht[w]] = Nobody /\ UNCHANGED ht
        /\ lock' = [lock EXCEPT ![ht[w]] = w] /\ pc[w] = "add" /\ pc'[w] = "walk"
    BY <1>8 DEF LockTable, Goto, TypeOK
  <2>2. \A l \in Locks : lock'[l] = IF l = ht[w] THEN w ELSE lock[l]
    BY <2>1 DEF TypeOK
  <2> QED
    BY <1>0, <1>1, <1>2, <2>1, <2>2 DEF InTable, InTotal
<1>9. CASE UnlockTable(w)
  <2>1. /\ lock' = [lock EXCEPT ![ht[w]] = Nobody] /\ pc[w] = "unlock"
        /\ pc'[w] \in {"add", "bytes"}
    BY <1>9 DEF UnlockTable, Goto, TypeOK
  <2>2. \A l \in Locks : lock'[l] = IF l = ht[w] THEN Nobody ELSE lock[l]
    BY <2>1 DEF TypeOK
  <2> QED
    BY <1>0, <1>1, <1>2, <2>1, <2>2 DEF InTable, InTotal
<1>10. CASE LoadTotal(w)
  <2>1. /\ lock["bytes"] = Nobody /\ UNCHANGED ht
        /\ lock' = [lock EXCEPT !["bytes"] = w] /\ pc[w] = "bytes" /\ pc'[w] = "addTotal"
    BY <1>10 DEF LoadTotal, Goto, TypeOK
  <2>2. \A l \in Locks : lock'[l] = IF l = "bytes" THEN w ELSE lock[l]
    BY <2>1 DEF TypeOK
  <2> QED
    BY <1>0, <1>1, <1>2, <2>1, <2>2 DEF InTable, InTotal
<1>11. CASE UnlockTotal(w)
  <2>1. /\ lock' = [lock EXCEPT !["bytes"] = Nobody] /\ pc[w] = "unlockTotal"
        /\ pc'[w] = "line"
    BY <1>11 DEF UnlockTotal, Goto, TypeOK
  <2>2. \A l \in Locks : lock'[l] = IF l = "bytes" THEN Nobody ELSE lock[l]
    BY <2>1 DEF TypeOK
  <2> QED
    BY <1>0, <1>1, <1>2, <2>1, <2>2 DEF InTable, InTotal
<1> QED
  BY <1>5, <1>6, <1>7, <1>8, <1>9, <1>10, <1>11 DEF worker, add_stat

(* A worker stays within its files and their lines.                        *)
LEMMA ReadsWorker ==
  ASSUME LogInv, NEW w \in Workers, worker(w)
  PROVE  \A v \in Workers : Reads(v)'
<1> USE DEF LogInv
<1>1. ASSUME NEW v \in Workers, v # w PROVE Reads(v)'
  <2>1. pc'[v] = pc[v] /\ file'[v] = file[v] /\ line'[v] = line[v]
    BY <1>1, WorkerOnly
  <2>2. Lines_of(v)' = Lines_of(v) /\ paths(v)' = paths(v)
    BY <2>1, LineStays
  <2> QED
    BY <2>1, <2>2 DEF Reads
<1>2. ASSUME file'[w] = file[w], line'[w] = line[w],
             pc'[w] \in Working => pc[w] \in Working \ {"line"} \/ pc'[w] = "line"
                                    \/ line[w] \in 1 .. Len(Lines_of(w)),
             pc'[w] \in Working => pc[w] \in Working
      PROVE  Reads(w)'
  <2>1. Lines_of(w)' = Lines_of(w) /\ paths(w)' = paths(w)
    BY <1>2, LineStays
  <2> QED
    BY <1>2, <2>1 DEF Reads
<1>3. ASSUME add_stat(w) \/ LoadTotal(w) \/ AddTotal(w) PROVE Reads(w)'
  <2>1. UNCHANGED <<file, line>> /\ pc[w] \in Working \ {"line"}
    BY <1>3
    DEF add_stat, Skip, LockTable, Walk, Store, NewNode, Link, UnlockTable, LoadTotal,
        AddTotal, Goto, Working, InTable, InTotal
  <2> QED
    BY <1>2, <2>1
<1>4. ASSUME NoBytes(w) \/ UnlockTotal(w) PROVE Reads(w)'
  <2>1. /\ UNCHANGED file /\ pc[w] \in Working /\ pc'[w] = "line"
    BY <1>4 DEF NoBytes, UnlockTotal, Goto, Working, InTotal, TypeOK
  <2>2. paths(w)' = paths(w)
    BY <2>1, LineStays
  <2> QED
    BY <2>1, <2>2 DEF Reads
<1>5. ASSUME OpenFile(w) PROVE Reads(w)'
  <2>1. CASE pc'[w] = "line"
    <3>1. file[w] \in 1 .. Len(paths(w)) /\ UNCHANGED file
      <4>1. file[w] \in Nat \ {0} /\ Len(paths(w)) \in Int /\ ~(file[w] > Len(paths(w)))
            /\ UNCHANGED file
        <5>1. Len(paths(w)) \in Nat
          BY PathsLength
        <5> QED
          BY <1>5, <2>1, <5>1 DEF OpenFile, Goto, TypeOK
      <4> QED
        BY <4>1
    <3>2. paths(w)' = paths(w)
      BY <3>1, LineStays
    <3> QED
      BY <2>1, <3>1, <3>2 DEF Reads
  <2>2. CASE pc'[w] # "line"
    <3>1. pc'[w] \notin Working
      BY <1>5, <2>2 DEF OpenFile, Goto, TypeOK, Working, InTable, InTotal
    <3> QED
      BY <3>1 DEF Reads
  <2> QED
    BY <2>1, <2>2
<1>6. ASSUME ReadLine(w) PROVE Reads(w)'
  <2>0. pc[w] = "line" /\ pc[w] \in Working /\ line[w] \in Nat \ {0}
    BY <1>6 DEF ReadLine, Working, TypeOK
  <2>1. CASE pc'[w] = "open"
    BY <2>1 DEF Reads, Working, InTable, InTotal
  <2>2. CASE pc'[w] = "add"
    <3>1. UNCHANGED <<file, line>> /\ ~(line[w] > Len(Lines_of(w)))
      BY <1>6, <2>0, <2>2 DEF ReadLine, Goto, TypeOK
    <3>2. Len(Lines_of(w)) \in Nat
      BY <2>0, LineTypes
    <3>3. line[w] \in 1 .. Len(Lines_of(w))
      BY <2>0, <3>1, <3>2
    <3> QED
      BY <1>2, <2>0, <3>1, <3>3
  <2>3. CASE pc'[w] = "line"
    <3>1. UNCHANGED file
      BY <1>6, <2>0, <2>3 DEF ReadLine, Goto, TypeOK
    <3>2. paths(w)' = paths(w)
      BY <3>1, LineStays
    <3> QED
      BY <2>0, <2>3, <3>1, <3>2 DEF Reads
  <2> QED
    BY <1>6, <2>0, <2>1, <2>2, <2>3 DEF ReadLine, Goto, TypeOK
<1> QED
  BY <1>1, <1>3, <1>4, <1>5, <1>6 DEF worker

-----------------------------------------------------------------------------
(* The walk of a chain.                                                    *)

(* Only the worker that holds the mutex of a table writes to it.           *)
LEMMA TableStays ==
  ASSUME LogInv, NEW w \in Workers, worker(w), NEW h \in Tables,
         pc[w] \notin {"store", "link"} \/ h # ht[w]
  PROVE  table'[h] = table[h]
<1> USE DEF LogInv, TypeOK, Goto, shared
<1>1. CASE Store(w) \/ Link(w)
  BY <1>1 DEF Store, Link
<1>2. CASE UNCHANGED table
  BY <1>2
<1>3. CASE \/ Skip(w) \/ LockTable(w) \/ Walk(w) \/ NewNode(w) \/ UnlockTable(w)
  BY <1>2, <1>3 DEF Skip, LockTable, Walk, NewNode, UnlockTable
<1>4. CASE \/ OpenFile(w) \/ ReadLine(w) \/ NoBytes(w) \/ LoadTotal(w) \/ AddTotal(w)
           \/ UnlockTotal(w)
  BY <1>2, <1>4 DEF OpenFile, ReadLine, NoBytes, LoadTotal, AddTotal, UnlockTotal
<1> QED
  BY <1>1, <1>3, <1>4 DEF worker, add_stat

(* What a worker knows of its chain depends on its own position and chain. *)
LEMMA WalkStays ==
  ASSUME NEW v \in Workers, WalkRight(v),
         pc'[v] = pc[v], file'[v] = file[v], line'[v] = line[v], ht'[v] = ht[v],
         curr'[v] = curr[v], pc[v] \in InTable => table'[ht[v]] = table[ht[v]]
  PROVE  WalkRight(v)'
<1>1. key(v, ht[v])' = key(v, ht[v])
  BY LineStays
<1>2. CASE pc[v] \in InTable
  <2>1. chain(v)' = chain(v)
    BY <1>1, <1>2 DEF chain
  <2>2. node(v)' = node(v)
    BY <2>1 DEF node
  <2> QED
    BY <1>1, <2>1, <2>2 DEF WalkRight, Absent
<1>3. CASE pc[v] \notin InTable
  BY <1>3 DEF WalkRight, InTable
<1> QED
  BY <1>2, <1>3

LEMMA WalkOthers ==
  ASSUME LogInv, NEW w \in Workers, worker(w), NEW v \in Workers, v # w
  PROVE  WalkRight(v)'
<1>1. /\ pc'[v] = pc[v] /\ file'[v] = file[v] /\ line'[v] = line[v]
      /\ ht'[v] = ht[v] /\ curr'[v] = curr[v]
  BY WorkerOnly DEF LogInv
<1>2. ASSUME pc[v] \in InTable PROVE table'[ht[v]] = table[ht[v]]
  <2>1. ht[v] \in Tables /\ ht[w] \in Tables
    BY DEF LogInv, TypeOK
  <2>2. lock[ht[v]] = v
    BY <1>2, <2>1 DEF LogInv, LocksHeld
  <2>3. pc[w] \in InTable => ht[w] # ht[v]
    BY <2>1, <2>2 DEF LogInv, LocksHeld
  <2> QED
    BY <2>1, <2>3, TableStays DEF InTable
<1> QED
  BY <1>1, <1>2, WalkStays DEF LogInv

LEMMA WalkOwn ==
  ASSUME LogInv, NEW w \in Workers, worker(w)
  PROVE  WalkRight(w)'
<1> USE DEF LogInv
<1>k. ASSUME UNCHANGED <<file, line>>, ht'[w] = ht[w]
      PROVE  key(w, ht[w])' = key(w, ht[w])
  BY <1>k, LineStays
<1>c. ASSUME UNCHANGED <<file, line, table>>, ht'[w] = ht[w]
      PROVE  chain(w)' = chain(w)
  BY <1>c, <1>k DEF chain
<1>1. CASE \/ OpenFile(w) \/ ReadLine(w) \/ Skip(w) \/ UnlockTable(w) \/ NoBytes(w)
           \/ LoadTotal(w) \/ AddTotal(w) \/ UnlockTotal(w)
  <2>1. pc'[w] \notin InTable
    BY <1>1 DEF OpenFile, ReadLine, Skip, UnlockTable, NoBytes, LoadTotal, AddTotal,
                UnlockTotal, Goto, TypeOK, InTable
  <2> QED
    BY <2>1 DEF WalkRight, InTable
<1>2. CASE LockTable(w)
  <2>1. /\ pc'[w] = "walk" /\ curr'[w] = Len(chain(w)) /\ key(w, ht[w]) \in Keys
        /\ UNCHANGED <<file, line, table, ht>>
    BY <1>2 DEF LockTable, Goto, TypeOK
  <2>2. Len(chain(w)) \in Nat
    BY <2>1, ChainType
  <2> QED
    BY <1>k, <1>c, <2>1, <2>2 DEF WalkRight, Absent
<1>3. CASE Walk(w)
  <2>1. /\ pc[w] = "walk" /\ curr[w] \in Nat \ {0} /\ key(w, ht[w]) \in Keys
        /\ UNCHANGED <<file, line, table, ht>>
    BY <1>3 DEF Walk, TypeOK, WalkRight, InTable, shared
  <2>2. /\ key(w, ht[w])' = key(w, ht[w]) /\ chain(w)' = chain(w)
        /\ Len(chain(w)) \in Nat
    BY <1>k, <1>c, <2>1, ChainType
  <2>3. /\ curr[w] <= Len(chain(w))
        /\ Absent(chain(w), Len(chain(w)) - curr[w], key(w, ht[w]))
    BY <2>1 DEF WalkRight
  <2>4. CASE node(w).key = key(w, ht[w])
    <3>1. pc'[w] = "store" /\ curr'[w] = curr[w]
      BY <1>3, <2>4 DEF Walk, Goto, TypeOK
    <3>2. node(w)' = node(w)
      BY <2>2, <3>1 DEF node
    <3> QED
      BY <2>1, <2>2, <2>3, <2>4, <3>1, <3>2 DEF WalkRight
  <2>5. CASE node(w).key # key(w, ht[w])
    <3>1. pc'[w] = "walk" /\ curr'[w] = curr[w] - 1
      BY <1>3, <2>1, <2>5 DEF Walk, TypeOK
    <3>2. Absent(chain(w), Len(chain(w)) - (curr[w] - 1), key(w, ht[w]))
      BY <2>1, <2>2, <2>3, <2>5 DEF Absent, node
    <3> QED
      BY <2>1, <2>2, <2>3, <3>1, <3>2 DEF WalkRight
  <2> QED
    BY <2>4, <2>5
<1>4. CASE NewNode(w)
  <2>1. /\ pc[w] = "walk" /\ curr[w] = 0 /\ pc'[w] = "link"
        /\ curr'[w] = Len(chain(w)) /\ UNCHANGED <<file, line, table, ht>>
    BY <1>4 DEF NewNode, Goto, TypeOK, shared
  <2>2. key(w, ht[w]) \in Keys /\ Absent(chain(w), Len(chain(w)) - 0, key(w, ht[w]))
    BY <2>1 DEF WalkRight, InTable
  <2>3. Len(chain(w)) \in Nat
    BY <2>2, ChainType
  <2> QED
    BY <1>k, <1>c, <2>1, <2>2, <2>3 DEF WalkRight, Absent
<1>5. CASE Store(w) \/ Link(w)
  <2>1. /\ pc[w] \in InTable /\ pc'[w] = "unlock" /\ UNCHANGED <<file, line, ht>>
    BY <1>5 DEF Store, Link, Goto, TypeOK, locals, InTable
  <2> QED
    BY <1>k, <2>1 DEF WalkRight
<1> QED
  BY <1>1, <1>2, <1>3, <1>4, <1>5 DEF worker, add_stat

-----------------------------------------------------------------------------
(* One node for each key.                                                  *)

InBucket(c, b) == \A i \in 1 .. Len(c) : hash[c[i].key] = b
Once(c) == \A i, j \in 1 .. Len(c) : c[i].key = c[j].key => i = j

(* It is enough to look at one chain at a time.                            *)
LEMMA ChainByChain ==
  TypeOK =>
    (OneNodePerKey <=>
       \A h \in Tables, b \in Buckets : InBucket(table[h][b], b) /\ Once(table[h][b]))
<1> SUFFICES ASSUME TypeOK
             PROVE  OneNodePerKey <=>
                      \A h \in Tables, b \in Buckets :
                        InBucket(table[h][b], b) /\ Once(table[h][b])
  OBVIOUS
<1>1. \A h \in Tables : DOMAIN table[h] = Buckets
  BY DEF TypeOK
<1>2. \A h \in Tables, b \in Buckets : DOMAIN table[h][b] = 1 .. Len(table[h][b])
  BY DEF TypeOK
<1>3. ASSUME OneNodePerKey, NEW h \in Tables, NEW b \in Buckets
      PROVE  InBucket(table[h][b], b) /\ Once(table[h][b])
  <2>1. /\ \A i \in 1 .. Len(table[h][b]) : hash[table[h][b][i].key] = b
        /\ \A i, j \in 1 .. Len(table[h][b]) :
             table[h][b][i].key = table[h][b][j].key => i = j
    BY <1>1, <1>2, <1>3 DEF OneNodePerKey
  <2> QED
    BY <2>1 DEF InBucket, Once
<1>4. ASSUME \A h \in Tables, b \in Buckets :
               InBucket(table[h][b], b) /\ Once(table[h][b])
      PROVE  OneNodePerKey
  <2>1. ASSUME NEW h \in Tables, NEW b \in Buckets, NEW c \in Buckets,
               NEW i \in 1 .. Len(table[h][b]), NEW j \in 1 .. Len(table[h][c])
        PROVE  /\ hash[table[h][b][i].key] = b
               /\ table[h][b][i].key = table[h][c][j].key => b = c /\ i = j
    <3>1. hash[table[h][b][i].key] = b /\ hash[table[h][c][j].key] = c
      BY <1>4 DEF InBucket
    <3>2. b = c /\ table[h][b][i].key = table[h][c][j].key => i = j
      BY <1>4 DEF Once
    <3> QED
      BY <3>1, <3>2
  <2> QED
    BY <1>1, <1>2, <2>1 DEF OneNodePerKey
<1> QED
  BY <1>3, <1>4

LEMMA WriteChain ==
  ASSUME TypeOK, TypeOK', OneNodePerKey,
         NEW t \in Tables, NEW k \in Keys, NEW c,
         table' = [table EXCEPT ![t][hash[k]] = c],
         InBucket(c, hash[k]), Once(c)
  PROVE  OneNodePerKey'
<1>1. hash[k] \in Buckets
  BY DEF Buckets
<1>2. \A g \in Tables, b \in Buckets :
        table'[g][b] = IF g = t /\ b = hash[k] THEN c ELSE table[g][b]
  BY <1>1 DEF TypeOK
<1>3. \A g \in Tables, b \in Buckets : InBucket(table[g][b], b) /\ Once(table[g][b])
  BY ChainByChain
<1>4. \A g \in Tables, b \in Buckets : InBucket(table'[g][b], b) /\ Once(table'[g][b])
  BY <1>2, <1>3
<1>5. (TypeOK => (OneNodePerKey <=>
         \A h \in Tables, b \in Buckets : InBucket(table[h][b], b) /\ Once(table[h][b])))'
  BY ChainByChain, PTL
<1>6. OneNodePerKey' <=>
        \A g \in Tables, b \in Buckets : InBucket(table'[g][b], b) /\ Once(table'[g][b])
  BY <1>5 DEF InBucket, Once
<1> QED
  BY <1>4, <1>6

LEMMA UniqueWorker ==
  ASSUME LogInv, TypeOK', NEW w \in Workers, worker(w)
  PROVE  OneNodePerKey'
<1> DEFINE k == key(w, ht[w])
           c == chain(w)
           n == Len(c)
<1>1. CASE pc[w] \in {"store", "link"}
  <2>1. k \in Keys /\ ht[w] \in Tables
    BY <1>1 DEF LogInv, TypeOK, WalkRight, InTable
  <2>2. c \in Seq(Node) /\ n \in Nat
    BY <2>1, ChainType DEF LogInv
  <2>3. InBucket(c, hash[k]) /\ Once(c)
    <3>1. hash[k] \in Buckets
      BY <2>1 DEF Buckets
    <3> QED
      BY <2>1, <3>1, ChainByChain DEF LogInv, chain
  <2>4. val(w, ht[w]) \in Int
    BY <1>1, <2>1, LineTypes DEF LogInv, Working, InTable
  <2>5. CASE pc[w] = "store"
    <3>1. Store(w)
      BY <2>5 DEF worker, add_stat, OpenFile, ReadLine, Skip, LockTable, Walk, Store,
                  NewNode, Link, UnlockTable, NoBytes, LoadTotal, AddTotal, UnlockTotal, Goto
    <3>2. table' = [table EXCEPT ![ht[w]][hash[k]] = Stored(w)]
      BY <2>1, <3>1, StoreIs DEF LogInv
    <3>3. n - curr[w] + 1 \in 1 .. n
      BY <2>2, <2>5 DEF LogInv, WalkRight
    <3>4. tmp[w] + val(w, ht[w]) \in Int
      BY <2>4 DEF LogInv, TypeOK
    <3>5. Len(Stored(w)) = n /\ \A j \in 1 .. n : Stored(w)[j].key = c[j].key
      BY <2>2, <3>3, <3>4, ChainStore DEF Stored
    <3>6. InBucket(Stored(w), hash[k]) /\ Once(Stored(w))
      BY <2>3, <3>5 DEF InBucket, Once
    <3> QED
      BY <2>1, <3>2, <3>6, WriteChain DEF LogInv
  <2>6. CASE pc[w] = "link"
    <3>1. Link(w)
      BY <2>6 DEF worker, add_stat, OpenFile, ReadLine, Skip, LockTable, Walk, Store,
                  NewNode, Link, UnlockTable, NoBytes, LoadTotal, AddTotal, UnlockTotal, Goto
    <3>2. table' = [table EXCEPT ![ht[w]][hash[k]] = Linked(w)]
      BY <2>1, <3>1, LinkIs DEF LogInv
    <3> DEFINE new == [key |-> k, value |-> val(w, ht[w])]
    <3>3. new \in Node /\ new.key = k
      BY <2>1, <2>4 DEF Node
    <3>4. n - curr[w] + 1 = 1 /\ Absent(c, n, k)
      BY <2>2, <2>6 DEF LogInv, WalkRight
    <3>5. Linked(w) = <<new>> \o SubSeq(c, 1, n)
      BY <3>4 DEF Linked
    <3> HIDE DEF new
    <3>6. /\ Len(Linked(w)) = n + 1 /\ Linked(w)[1] = new
          /\ \A j \in 2 .. n + 1 : Linked(w)[j] = c[j - 1]
      BY <2>2, <3>3, <3>5, ChainLink
    <3> HIDE DEF k, c, n
    <3>7. InBucket(Linked(w), hash[k])
      <4>1. \A j \in 2 .. n + 1 : j - 1 \in 1 .. n
        BY <2>2
      <4>2. \A j \in 1 .. n + 1 : j = 1 \/ j \in 2 .. n + 1
        BY <2>2
      <4>3. \A i \in 1 .. n : hash[c[i].key] = hash[k]
        BY <2>3 DEF InBucket, n
      <4> QED
        BY <3>3, <3>6, <4>1, <4>2, <4>3 DEF InBucket
    <3>8. Once(Linked(w))
      <4>1. \A j \in 2 .. n + 1 : j - 1 \in 1 .. n /\ Linked(w)[j].key = c[j - 1].key
                                  /\ Linked(w)[j].key # k
        BY <2>2, <3>4, <3>6 DEF Absent
      <4>2. \A i, j \in 1 .. n : c[i].key = c[j].key => i = j
        BY <2>3 DEF Once, n
      <4>3. \A i, j \in 2 .. n + 1 : Linked(w)[i].key = Linked(w)[j].key => i - 1 = j - 1
        BY <4>1, <4>2
      <4>4. \A i, j \in 2 .. n + 1 : i - 1 = j - 1 => i = j
        BY <2>2
      <4>5. \A j \in 1 .. n + 1 : j = 1 \/ j \in 2 .. n + 1
        BY <2>2
      <4> QED
        BY <3>3, <3>6, <4>1, <4>3, <4>4, <4>5 DEF Once
    <3> QED
      BY <2>1, <3>2, <3>7, <3>8, WriteChain DEF LogInv, k
  <2> QED
    BY <1>1, <2>5, <2>6
<1>2. CASE pc[w] \notin {"store", "link"}
  <2>1. \A h \in Tables : table'[h] = table[h]
    BY <1>2, TableStays
  <2> QED
    BY <2>1 DEF LogInv, OneNodePerKey
<1> QED
  BY <1>1, <1>2

-----------------------------------------------------------------------------
(* main, and the whole.                                                    *)

LEMMA FinishedWorker ==
  ASSUME LogInv, NEW w \in Workers, worker(w)
  PROVE  Finished'
<1>1. /\ main' = main /\ turn' = turn /\ pc[w] \notin {"unborn", "done"}
      /\ \A v \in Workers \ {w} : pc'[v] = pc[v]
  BY WorkerOnly DEF LogInv, mainVars
<1>2. CASE main = "create"
  BY <1>1, <1>2 DEF LogInv, Finished
<1>3. CASE main = "join"
  BY <1>1, <1>3 DEF LogInv, Finished
<1>4. CASE main \notin {"create", "join"}
  BY <1>1, <1>4 DEF LogInv, Finished
<1> QED
  BY <1>2, <1>3, <1>4

(* A worker main creates has not begun to read.                            *)
LEMMA MainCreate ==
  ASSUME LogInv, Create
  PROVE  LogInv'
<1> USE DEF LogInv
<1>1. /\ main = "create" /\ turn \in Workers /\ Files # << >>
      /\ pc' = [pc EXCEPT ![turn] = "open"] /\ pc[turn] = "unborn"
      /\ UNCHANGED <<table, total, lock, file, line, ht, curr, tmp>>
      /\ \A w \in Workers : w >= turn => pc[w] = "unborn"
  BY DEF Create, Goto, Finished, shared, locals
<1>2. \A w \in Workers : pc'[w] = IF w = turn THEN "open" ELSE pc[w]
  BY <1>1 DEF TypeOK
<1>3. TypeOK'
  BY <1>1 DEF TypeOK, Places
<1>4. LocksHeld'
  BY <1>1, <1>2 DEF LocksHeld, InTable, InTotal
<1>5. OneNodePerKey'
  BY <1>1 DEF OneNodePerKey
<1>6. Finished'
  <2>1. turn \in 0 .. num_t - 1 /\ num_t \in Nat \ {0}
    BY <1>1, WorkersAssumption DEF Workers
  <2>2. CASE turn = num_t - 1
    <3>1. main' = "join" /\ turn' = 0
      BY <2>2 DEF Create
    <3>2. \A w \in Workers : ~(w < 0) /\ 0 \in Workers
      BY <2>1 DEF Workers
    <3> QED
      BY <1>1, <3>1, <3>2 DEF Finished
  <2>3. CASE turn # num_t - 1
    <3>1. main' = "create" /\ turn' = turn + 1
      BY <1>1, <2>3 DEF Create
    <3>2. turn + 1 \in Workers /\ \A w \in Workers : w >= turn + 1 => w >= turn /\ w # turn
      BY <2>1, <2>3 DEF Workers
    <3> QED
      BY <1>1, <1>2, <3>1, <3>2 DEF Finished
  <2> QED
    BY <2>2, <2>3
<1>7. ASSUME NEW w \in Workers PROVE Reads(w)' /\ WalkRight(w)'
  <2>1. CASE w = turn
    <3>1. pc'[w] = "open"
      BY <1>2, <2>1
    <3> QED
      BY <3>1 DEF Reads, WalkRight, Working, InTable, InTotal
  <2>2. CASE w # turn
    <3>1. /\ pc'[w] = pc[w] /\ file'[w] = file[w] /\ line'[w] = line[w]
          /\ ht'[w] = ht[w] /\ curr'[w] = curr[w] /\ table'[ht[w]] = table[ht[w]]
      BY <1>1, <1>2, <2>2
    <3>2. Reads(w)'
      <4>1. Lines_of(w)' = Lines_of(w) /\ paths(w)' = paths(w)
        BY <3>1, LineStays
      <4> QED
        BY <3>1, <4>1 DEF Reads
    <3> QED
      BY <3>1, <3>2, WalkStays
  <2> QED
    BY <2>1, <2>2
<1> QED
  BY <1>3, <1>4, <1>5, <1>6, <1>7

(* Nothing but main's own state, and at the end the tables, changes in the *)
(* rest of main.                                                           *)
LEMMA MainRest ==
  ASSUME LogInv, Join \/ PrintReport \/ Free \/ UNCHANGED vars
  PROVE  LogInv'
<1> USE DEF LogInv
<1>1. UNCHANGED <<total, lock, pc, file, line, ht, curr, tmp>>
  BY DEF Join, PrintReport, Free, vars, shared, locals
<1>2. TypeOK' /\ OneNodePerKey' /\ \A w \in Workers : Reads(w)' /\ WalkRight(w)'
  <2>1. ASSUME NEW w \in Workers PROVE Reads(w)'
    <3>1. Lines_of(w)' = Lines_of(w) /\ paths(w)' = paths(w)
      BY <1>1, LineStays
    <3> QED
      BY <1>1, <3>1 DEF Reads
  <2>2. CASE UNCHANGED table
    <3>1. TypeOK' /\ OneNodePerKey'
      BY <1>1, <2>2 DEF TypeOK, OneNodePerKey
    <3>2. \A w \in Workers : WalkRight(w)'
      BY <1>1, <2>2, WalkStays
    <3> QED
      BY <2>1, <3>1, <3>2
  <2>3. CASE Free
    <3>1. table' = [h \in Tables |-> [b \in Buckets |-> << >>]]
      <4>1. table' = [h \in Tables |-> [b \in DOMAIN table[h] |-> << >>]]
        BY <2>3 DEF Free
      <4>2. \A h \in Tables : DOMAIN table[h] = Buckets
        BY DEF TypeOK
      <4> QED
        BY <4>1, <4>2
    <3>2. TypeOK' /\ OneNodePerKey'
      BY <1>1, <3>1 DEF TypeOK, OneNodePerKey
    <3>3. \A w \in Workers : pc'[w] \notin InTable
      BY <1>1, <2>3 DEF Finished, Free, InTable
    <3>4. \A w \in Workers : WalkRight(w)'
      BY <3>3 DEF WalkRight, InTable
    <3> QED
      BY <2>1, <3>2, <3>4
  <2> QED
    BY <2>2, <2>3 DEF Join, PrintReport, vars, shared
<1>3. LocksHeld'
  BY <1>1 DEF LocksHeld
<1>4. Finished'
  <2>1. CASE Join
    <3>1. turn \in 0 .. num_t - 1 /\ num_t \in Nat \ {0} /\ pc[turn] = "done"
          /\ main = "join" /\ Files # << >>
      BY <2>1, WorkersAssumption DEF Finished, Join, Workers
    <3>2. CASE turn = num_t - 1
      <4>1. main' = "print"
        BY <2>1, <3>2 DEF Join
      <4>2. \A w \in Workers : w < turn \/ w = turn
        BY <3>1, <3>2 DEF Workers
      <4> QED
        BY <1>1, <3>1, <4>1, <4>2 DEF Finished
    <3>3. CASE turn # num_t - 1
      <4>1. main' = "join" /\ turn' = turn + 1
        BY <2>1, <3>1, <3>3 DEF Join
      <4>2. turn + 1 \in Workers /\ \A w \in Workers : w < turn + 1 => w < turn \/ w = turn
        BY <3>1, <3>3 DEF Workers
      <4> QED
        BY <1>1, <3>1, <4>1, <4>2 DEF Finished
    <3> QED
      BY <3>2, <3>3
  <2>2. CASE PrintReport \/ Free
    <3>1. main \notin {"create", "join"} /\ main' \notin {"create", "join"}
      BY <2>2 DEF PrintReport, Free
    <3> QED
      BY <1>1, <3>1 DEF Finished
  <2>3. CASE UNCHANGED vars
    BY <2>3 DEF Finished, vars, mainVars
  <2> QED
    BY <2>1, <2>2, <2>3
<1> QED
  BY <1>2, <1>3, <1>4

LEMMA LogInit == Init => LogInv
<1> SUFFICES ASSUME Init PROVE LogInv
  OBVIOUS
<1>1. TypeOK
  BY TypeInit
<1>2. \A w \in Workers : pc[w] = "unborn"
  BY DEF Init
<1>3. LocksHeld
  <2>1. \A w \in Workers : \A l \in Locks : lock[l] # w
    BY WorkersAssumption DEF Init, Workers, Nobody
  <2> QED
    BY <1>2, <2>1 DEF LocksHeld, Locks, InTable, InTotal
<1>4. OneNodePerKey
  BY DEF Init, OneNodePerKey
<1>5. Finished
  BY <1>2, WorkersAssumption DEF Init, Finished, Workers
<1>6. \A w \in Workers : Reads(w) /\ WalkRight(w)
  BY <1>2 DEF Reads, WalkRight, Working, InTable, InTotal
<1> QED
  BY <1>1, <1>3, <1>4, <1>5, <1>6 DEF LogInv

LEMMA LogStep == LogInv /\ [Next]_vars => LogInv'
<1> SUFFICES ASSUME LogInv, [Next]_vars PROVE LogInv'
  OBVIOUS
<1>1. CASE Create
  BY <1>1, MainCreate
<1>2. CASE Join \/ PrintReport \/ Free \/ Exited \/ UNCHANGED vars
  BY <1>2, MainRest DEF Exited
<1>3. ASSUME NEW w \in Workers, worker(w) PROVE LogInv'
  <2>1. TypeOK'
    BY <1>3, TypeWorker
  <2>2. LocksHeld' /\ Finished' /\ OneNodePerKey'
    BY <1>3, <2>1, LocksWorker, FinishedWorker, UniqueWorker
  <2>3. ASSUME NEW v \in Workers PROVE Reads(v)' /\ WalkRight(v)'
    BY <1>3, ReadsWorker, WalkOthers, WalkOwn
  <2> QED
    BY <2>1, <2>2, <2>3 DEF LogInv
<1> QED
  BY <1>1, <1>2, <1>3 DEF Next

(* The mutexes exclude (parse_logs.c, add_stat and the end of              *)
(* parse_combined): a worker between its lock and its unlock holds the     *)
(* mutex, so no two workers are ever in the same table or in the total.    *)
THEOREM MutualExclusion ==
  Spec => [](\A v, w \in Workers : v # w =>
               /\ ~(pc[v] \in InTable /\ pc[w] \in InTable /\ ht[v] = ht[w])
               /\ ~(pc[v] \in InTotal /\ pc[w] \in InTotal))
<1>1. LogInv => \A v, w \in Workers : v # w =>
                  /\ ~(pc[v] \in InTable /\ pc[w] \in InTable /\ ht[v] = ht[w])
                  /\ ~(pc[v] \in InTotal /\ pc[w] \in InTotal)
  <2> SUFFICES ASSUME LogInv, NEW v \in Workers, NEW w \in Workers, v # w
               PROVE  /\ ~(pc[v] \in InTable /\ pc[w] \in InTable /\ ht[v] = ht[w])
                      /\ ~(pc[v] \in InTotal /\ pc[w] \in InTotal)
    OBVIOUS
  <2>1. ht[v] \in Tables
    BY DEF LogInv, TypeOK
  <2> QED
    BY <2>1 DEF LogInv, LocksHeld
<1> QED
  BY LogInit, LogStep, <1>1, PTL DEF Spec

(* A key has one node, in the bucket of its hash, whatever the number of   *)
(* workers that meet it at the same time (add_stat): what a worker has not *)
(* found in a chain while it holds the mutex is not there when it links.   *)
THEOREM OneNode == Spec => []OneNodePerKey
<1>1. LogInv => OneNodePerKey
  BY DEF LogInv
<1> QED
  BY LogInit, LogStep, <1>1, PTL DEF Spec

LEMMA NoneLeft == LogInv => NoWorkerLeft
<1> SUFFICES ASSUME LogInv, main \in {"print", "free", "end"}, Files # << >>,
                    NEW w \in Workers
             PROVE  pc[w] = "done" /\ \A l \in Locks : lock[l] = Nobody
  BY DEF NoWorkerLeft
<1>1. \A v \in Workers : pc[v] = "done"
  BY DEF LogInv, Finished
<1>2. \A v \in Workers, l \in Locks : lock[l] # v
  BY <1>1 DEF LogInv, LocksHeld, Locks, InTable, InTotal
<1> QED
  BY <1>1, <1>2 DEF LogInv, TypeOK

(* main prints and frees the tables after every worker is done, and no     *)
(* mutex is held then: no worker touches what is freed (main).             *)
THEOREM WorkersGone == Spec => []NoWorkerLeft
<1> QED
  BY LogInit, LogStep, NoneLeft, PTL DEF Spec
-----------------------------------------------------------------------------
(* Sums.  The sum over a set adds the element CHOOSE picks to the sum over *)
(* the rest; the least number of a set of naturals, which well-foundedness *)
(* gives, carries the inductions on the size of a finite set.              *)

Below == OpToRel(<, Nat)

LEMMA Least ==
  ASSUME NEW T, T \subseteq Nat, T # {}
  PROVE  \E m \in T : \A n \in T : m <= n
<1>1. \A y, x \in Nat : <<y, x>> \in Below <=> y < x
  BY DEF OpToRel, Below
<1>2. IsWellFoundedOn(Below, Nat)
  BY NatLessThanWellFounded DEF Below
<1>3. PICK m \in T : \A n \in T : ~(<<n, m>> \in Below)
  BY <1>2, WFMin
<1>4. \A n \in T : ~(n < m) /\ n \in Nat /\ m \in Nat
  BY <1>1, <1>3
<1> QED
  BY <1>4

(* A set of naturals that holds zero and every successor holds them all.   *)
LEMMA Counting ==
  ASSUME NEW P, 0 \in P, \A n \in Nat : n \in P => n + 1 \in P
  PROVE  Nat \subseteq P
<1> SUFFICES ASSUME Nat \ P # {} PROVE FALSE
  OBVIOUS
<1>1. PICK m \in Nat \ P : \A n \in Nat \ P : m <= n
  BY Least
<1>2. m # 0 /\ m - 1 \in Nat
  BY <1>1
<1>3. m - 1 \in P
  BY <1>1, <1>2
<1>4. (m - 1) + 1 \in P
  BY <1>2, <1>3
<1> QED
  BY <1>1, <1>4

(* Of the finite sets in a family, one is smallest.                        *)
LEMMA Smallest ==
  ASSUME NEW F, F # {}, \A T \in F : IsFiniteSet(T)
  PROVE  \E T \in F : \A U \in F : Cardinality(T) <= Cardinality(U)
<1> DEFINE C == {Cardinality(T) : T \in F}
<1>1. C \subseteq Nat /\ C # {}
  BY FS_CardinalityType
<1>2. PICK m \in C : \A n \in C : m <= n
  BY <1>1, Least
<1> QED
  BY <1>2

Pick(T) == CHOOSE x \in T : TRUE
Rest(T) == T \ {Pick(T)}
Solves(g, f, S) ==
  g = [T \in SUBSET S |-> IF T = {} THEN 0 ELSE f[Pick(T)] + g[Rest(T)]]

LEMMA PickRest ==
  ASSUME NEW S, IsFiniteSet(S), NEW T \in SUBSET S, T # {}
  PROVE  /\ Pick(T) \in T /\ Rest(T) \in SUBSET S /\ IsFiniteSet(T)
         /\ Cardinality(T) \in Nat \ {0} /\ Cardinality(Rest(T)) = Cardinality(T) - 1
<1>1. Pick(T) \in T /\ Rest(T) \in SUBSET S
  BY DEF Pick, Rest
<1>2. IsFiniteSet(T) /\ Cardinality(T) \in Nat
  BY FS_Subset, FS_CardinalityType
<1>3. Cardinality(T) # 0
  BY <1>2, FS_EmptySet
<1> QED
  BY <1>1, <1>2, <1>3, FS_RemoveElement DEF Rest

(* The equation of the sum has a solution, built up by size.               *)
LEMMA SumExists ==
  ASSUME NEW f, NEW S, IsFiniteSet(S), \A x \in S : f[x] \in Int
  PROVE  \E g : Solves(g, f, S)
<1> DEFINE Upto(n) == {T \in SUBSET S : Cardinality(T) <= n}
           Good(n, g) == /\ g \in [Upto(n) -> Int]
                         /\ g = [T \in Upto(n) |-> IF T = {} THEN 0
                                                   ELSE f[Pick(T)] + g[Rest(T)]]
           P == {n \in Nat : \E g : Good(n, g)}
<1>1. 0 \in P
  <2> DEFINE g == [T \in Upto(0) |-> 0]
  <2>1. \A T \in Upto(0) : T = {}
    <3> SUFFICES ASSUME NEW T \in Upto(0), T # {} PROVE FALSE
      OBVIOUS
    <3> QED
      BY PickRest
  <2>2. g = [T \in Upto(0) |-> IF T = {} THEN 0 ELSE f[Pick(T)] + g[Rest(T)]]
    BY <2>1
  <2>3. g \in [Upto(0) -> Int]
    OBVIOUS
  <2> QED
    BY <2>2, <2>3
<1>2. ASSUME NEW n \in Nat, n \in P PROVE n + 1 \in P
  <2>1. PICK g : Good(n, g)
    BY <1>2
  <2> DEFINE d == [T \in Upto(n + 1) |-> IF T = {} THEN 0 ELSE f[Pick(T)] + g[Rest(T)]]
  <2>2. ASSUME NEW T \in Upto(n + 1), T # {}
        PROVE  /\ Rest(T) \in Upto(n) /\ g[Rest(T)] \in Int /\ f[Pick(T)] \in Int
               /\ Rest(T) \in Upto(n + 1)
    <3>1. /\ Pick(T) \in T /\ Rest(T) \in SUBSET S
          /\ Cardinality(T) \in Nat /\ Cardinality(Rest(T)) = Cardinality(T) - 1
      BY <2>2, PickRest
    <3>2. Rest(T) \in Upto(n) /\ Rest(T) \in Upto(n + 1)
      BY <2>2, <3>1
    <3> QED
      BY <2>1, <3>1, <3>2
  <2>3. d \in [Upto(n + 1) -> Int]
    BY <2>2
  <2>4. \A T \in Upto(n) : T \in Upto(n + 1) /\ d[T] = g[T]
    <3>1. \A T \in Upto(n) : T \in Upto(n + 1)
      <4> SUFFICES ASSUME NEW T \in Upto(n) PROVE Cardinality(T) <= n + 1
        OBVIOUS
      <4>1. Cardinality(T) \in Nat
        BY FS_Subset, FS_CardinalityType
      <4> QED
        BY <4>1
    <3>2. \A T \in Upto(n) : g[T] = IF T = {} THEN 0 ELSE f[Pick(T)] + g[Rest(T)]
      BY <2>1
    <3> QED
      BY <3>1, <3>2
  <2>5. d = [T \in Upto(n + 1) |-> IF T = {} THEN 0 ELSE f[Pick(T)] + d[Rest(T)]]
    <3>1. \A T \in Upto(n + 1) : T # {} => g[Rest(T)] = d[Rest(T)]
      BY <2>2, <2>4
    <3> HIDE DEF Upto
    <3> QED
      BY <3>1
  <2> HIDE DEF d
  <2>6. Good(n + 1, d)
    BY <2>3, <2>5
  <2>7. n + 1 \in Nat /\ \E c : Good(n + 1, c)
    <3> HIDE DEF Good
    <3> QED
      BY <2>6
  <2> QED
    BY <2>7
<1>3. Cardinality(S) \in P
  <2>1. Nat \subseteq P
    <3> HIDE DEF P
    <3> QED
      BY <1>1, <1>2, Counting
  <2> QED
    BY <2>1, FS_CardinalityType
<1>4. Upto(Cardinality(S)) = SUBSET S
  BY FS_Subset
<1> QED
  BY <1>3, <1>4 DEF Solves

(* Two solutions agree where the summed functions do.                      *)
LEMMA SumUnique ==
  ASSUME NEW f, NEW g, NEW S, Solves(g, f, S),
         NEW e, NEW d, NEW R, Solves(d, e, R),
         NEW T, IsFiniteSet(T), T \subseteq S, T \subseteq R,
         \A x \in T : f[x] = e[x]
  PROVE  g[T] = d[T]
<1> DEFINE F == {U \in SUBSET T : g[U] # d[U]}
<1> SUFFICES ASSUME F # {} PROVE FALSE
  OBVIOUS
<1>1. PICK U \in F : \A V \in F : Cardinality(U) <= Cardinality(V)
  <2>1. \A V \in F : IsFiniteSet(V)
    BY FS_Subset
  <2> HIDE DEF F
  <2> QED
    BY <2>1, Smallest
<1>2. /\ g[U] = IF U = {} THEN 0 ELSE f[Pick(U)] + g[Rest(U)]
      /\ d[U] = IF U = {} THEN 0 ELSE e[Pick(U)] + d[Rest(U)]
  <2>1. U \in SUBSET S /\ U \in SUBSET R
    BY <1>1
  <2> QED
    BY <2>1 DEF Solves
<1>3. U # {}
  BY <1>1, <1>2
<1>4. /\ Pick(U) \in U /\ Rest(U) \in SUBSET T
      /\ Cardinality(U) \in Nat /\ Cardinality(Rest(U)) = Cardinality(U) - 1
  BY <1>1, <1>3, PickRest
<1>5. g[Rest(U)] = d[Rest(U)]
  BY <1>1, <1>4
<1> QED
  BY <1>1, <1>2, <1>3, <1>4, <1>5

Sum(f, T) == SumFunctionOnSet(f, T)

LEMMA SumIs ==
  ASSUME NEW f, NEW T, IsFiniteSet(T), \A x \in T : f[x] \in Int
  PROVE  \E g : Solves(g, f, T) /\ Sum(f, T) = g[T]
<1> DEFINE g == CHOOSE iter : iter =
                  [s \in SUBSET T |-> IF s = {} THEN 0
                                      ELSE f[CHOOSE x \in s : TRUE]
                                           + iter[s \ {CHOOSE x \in s : TRUE}]]
<1>1. Sum(f, T) = g[T]
  BY DEF Sum, SumFunctionOnSet, FoldFunctionOnSet, MapThenFoldSet
<1>2. Solves(g, f, T)
  <2>1. PICK d : Solves(d, f, T)
    BY SumExists
  <2> QED
    BY <2>1 DEF Solves, Pick, Rest
<1> QED
  BY <1>1, <1>2

(* A sum depends on the summed values only.                                *)
LEMMA SumSame ==
  ASSUME NEW f, NEW e, NEW T, IsFiniteSet(T),
         \A x \in T : f[x] \in Int /\ e[x] = f[x]
  PROVE  Sum(e, T) = Sum(f, T)
<1>1. PICK g : Solves(g, f, T) /\ Sum(f, T) = g[T]
  BY SumIs
<1>2. PICK d : Solves(d, e, T) /\ Sum(e, T) = d[T]
  BY SumIs
<1> QED
  BY <1>1, <1>2, SumUnique

LEMMA SumOfNone == ASSUME NEW f PROVE Sum(f, {}) = 0
<1>1. PICK g : Solves(g, f, {}) /\ Sum(f, {}) = g[{}]
  BY SumIs, FS_EmptySet
<1> QED
  BY <1>1 DEF Solves

LEMMA SumPick ==
  ASSUME NEW f, NEW T, IsFiniteSet(T), T # {}, \A x \in T : f[x] \in Int
  PROVE  Sum(f, T) = f[Pick(T)] + Sum(f, Rest(T))
<1>1. PICK g : Solves(g, f, T) /\ Sum(f, T) = g[T]
  BY SumIs
<1>2. Rest(T) \in SUBSET T /\ IsFiniteSet(Rest(T))
  BY PickRest, FS_Subset
<1>3. PICK d : Solves(d, f, Rest(T)) /\ Sum(f, Rest(T)) = d[Rest(T)]
  BY <1>2, SumIs
<1>4. g[Rest(T)] = d[Rest(T)]
  BY <1>1, <1>2, <1>3, SumUnique
<1>5. g[T] = f[Pick(T)] + g[Rest(T)]
  BY <1>1 DEF Solves
<1> QED
  BY <1>1, <1>3, <1>4, <1>5

LEMMA SumType ==
  ASSUME NEW f, NEW S, IsFiniteSet(S), \A x \in S : f[x] \in Int
  PROVE  Sum(f, S) \in Int
<1> DEFINE F == {T \in SUBSET S : Sum(f, T) \notin Int}
<1> SUFFICES ASSUME F # {} PROVE FALSE
  OBVIOUS
<1>1. PICK T \in F : \A U \in F : Cardinality(T) <= Cardinality(U)
  <2>1. \A V \in F : IsFiniteSet(V)
    BY FS_Subset
  <2> HIDE DEF F
  <2> QED
    BY <2>1, Smallest
<1>2. T # {}
  BY <1>1, SumOfNone
<1>3. /\ Pick(T) \in T /\ Rest(T) \in SUBSET S /\ IsFiniteSet(T)
      /\ Cardinality(T) \in Nat /\ Cardinality(Rest(T)) = Cardinality(T) - 1
  BY <1>1, <1>2, PickRest
<1>4. Sum(f, Rest(T)) \in Int
  BY <1>1, <1>3
<1>5. Sum(f, T) = f[Pick(T)] + Sum(f, Rest(T))
  BY <1>1, <1>2, <1>3, SumPick
<1> QED
  BY <1>1, <1>3, <1>4, <1>5

(* Any element of the set can be taken out of its sum.                     *)
LEMMA SumOut ==
  ASSUME NEW f, NEW S, IsFiniteSet(S), \A x \in S : f[x] \in Int, NEW y \in S
  PROVE  Sum(f, S) = f[y] + Sum(f, S \ {y})
<1> DEFINE F == {T \in SUBSET S : \E x \in T : Sum(f, T) # f[x] + Sum(f, T \ {x})}
<1> SUFFICES ASSUME F # {} PROVE FALSE
  OBVIOUS
<1>1. PICK T \in F : \A U \in F : Cardinality(T) <= Cardinality(U)
  <2>1. \A V \in F : IsFiniteSet(V)
    BY FS_Subset
  <2> HIDE DEF F
  <2> QED
    BY <2>1, Smallest
<1>2. PICK x \in T : Sum(f, T) # f[x] + Sum(f, T \ {x})
  BY <1>1
<1> DEFINE p == Pick(T)
<1>3. /\ p \in T /\ IsFiniteSet(T) /\ T \in SUBSET S
      /\ Cardinality(T) \in Nat /\ Cardinality(Rest(T)) = Cardinality(T) - 1
      /\ Cardinality(T \ {x}) = Cardinality(T) - 1
  BY <1>1, <1>2, PickRest, FS_RemoveElement
<1>4. Sum(f, T) = f[p] + Sum(f, T \ {p})
  BY <1>3, SumPick DEF Rest
<1>5. x # p
  BY <1>2, <1>4
<1> DEFINE R == (T \ {p}) \ {x}
<1>6. Sum(f, T \ {p}) = f[x] + Sum(f, R)
  <2>1. T \ {p} \in SUBSET S /\ x \in T \ {p} /\ T \ {p} \notin F
    <3>1. T \ {p} \in SUBSET S /\ ~(Cardinality(T) <= Cardinality(T \ {p}))
      BY <1>3 DEF Rest
    <3> HIDE DEF F
    <3> QED
      BY <1>1, <1>2, <1>5, <3>1
  <2> QED
    BY <2>1
<1>7. Sum(f, T \ {x}) = f[p] + Sum(f, R)
  <2>1. T \ {x} \in SUBSET S /\ p \in T \ {x} /\ T \ {x} \notin F
    <3>1. T \ {x} \in SUBSET S /\ ~(Cardinality(T) <= Cardinality(T \ {x}))
      BY <1>3
    <3> HIDE DEF F
    <3> QED
      BY <1>1, <1>3, <1>5, <3>1
  <2>2. Sum(f, T \ {x}) = f[p] + Sum(f, (T \ {x}) \ {p})
    BY <2>1
  <2>3. (T \ {x}) \ {p} = R
    OBVIOUS
  <2> QED
    BY <2>2, <2>3
<1>8. f[x] \in Int /\ f[p] \in Int /\ Sum(f, R) \in Int
  <2>1. R \in SUBSET S
    BY <1>3
  <2>2. IsFiniteSet(R) /\ \A z \in R : f[z] \in Int
    BY <2>1, FS_Subset
  <2>3. Sum(f, R) \in Int
    BY <2>2, SumType
  <2> QED
    BY <1>2, <1>3, <2>3
<1> QED
  BY <1>2, <1>4, <1>6, <1>7, <1>8

(* One value changes: the sum changes by as much.                          *)
LEMMA SumMore ==
  ASSUME NEW f, NEW e, NEW T, IsFiniteSet(T), NEW y \in T,
         \A x \in T : f[x] \in Int /\ e[x] \in Int,
         \A x \in T \ {y} : e[x] = f[x]
  PROVE  Sum(e, T) = Sum(f, T) + (e[y] - f[y])
<1>1. IsFiniteSet(T \ {y})
  BY FS_RemoveElement
<1>2. Sum(f, T) = f[y] + Sum(f, T \ {y}) /\ Sum(e, T) = e[y] + Sum(e, T \ {y})
  BY SumOut
<1>3. Sum(e, T \ {y}) = Sum(f, T \ {y})
  BY <1>1, SumSame
<1>4. Sum(f, T \ {y}) \in Int
  BY <1>1, SumType
<1> QED
  BY <1>2, <1>3, <1>4

LEMMA SumOfZeros ==
  ASSUME NEW f, NEW S, IsFiniteSet(S), \A x \in S : f[x] = 0
  PROVE  Sum(f, S) = 0
<1> DEFINE d == [T \in SUBSET S |-> 0]
<1>1. Solves(d, f, S)
  <2>1. \A T \in SUBSET S : T # {} => f[Pick(T)] = 0 /\ Rest(T) \in SUBSET S
    BY DEF Pick, Rest
  <2>2. d = [T \in SUBSET S |-> IF T = {} THEN 0 ELSE f[Pick(T)] + d[Rest(T)]]
    BY <2>1
  <2> HIDE DEF d
  <2> QED
    BY <2>2 DEF Solves
<1>2. PICK g : Solves(g, f, S) /\ Sum(f, S) = g[S]
  BY SumIs
<1>3. g[S] = d[S]
  <2> HIDE DEF d
  <2> QED
    BY <1>1, <1>2, SumUnique
<1> QED
  BY <1>2, <1>3

(* One value is not zero: it is the sum.                                   *)
LEMMA SumOfOne ==
  ASSUME NEW f, NEW S, IsFiniteSet(S), NEW y \in S, f[y] \in Int,
         \A x \in S \ {y} : f[x] = 0
  PROVE  Sum(f, S) = f[y]
<1>1. Sum(f, S) = f[y] + Sum(f, S \ {y})
  BY SumOut
<1>2. Sum(f, S \ {y}) = 0
  BY SumOfZeros, FS_RemoveElement
<1> QED
  BY <1>1, <1>2

LEMMA SumWhole == ASSUME NEW f PROVE SumFunction(f) = Sum(f, DOMAIN f)
  BY DEF SumFunction, Sum

-----------------------------------------------------------------------------
(* The lines that count, and where their workers are.                      *)

(* A quotient and a remainder are determined by what they add up to.       *)
LEMMA DivisionUnique ==
  ASSUME NEW c \in Nat \ {0}, NEW a \in Int, NEW r \in 0 .. c - 1
  PROVE  (c * a + r) \div c = a /\ (c * a + r) % c = r
<1> DEFINE x == c * a + r
           q == x \div c
           s == x % c
<1>1. x \in Int
  OBVIOUS
<1>2. q \in Int /\ x = c * q + s /\ s \in 0 .. c - 1
  <2> HIDE DEF x
  <2> QED
    BY <1>1, Division
<1> HIDE DEF q, s
<1>3. ~(q > a)
  <2> SUFFICES ASSUME q - a >= 1 PROVE FALSE
    BY <1>2
  <2>1. c * (q - a) >= c
    BY <1>2
  <2>2. c * (q - a) = c * q - c * a
    BY <1>2
  <2> QED
    BY <1>2, <2>1, <2>2
<1>4. ~(q < a)
  <2> SUFFICES ASSUME a - q >= 1 PROVE FALSE
    BY <1>2
  <2>1. c * (a - q) >= c
    BY <1>2
  <2>2. c * (a - q) = c * a - c * q
    BY <1>2
  <2> QED
    BY <1>2, <2>1, <2>2
<1>5. q = a /\ s = r
  BY <1>2, <1>3, <1>4
<1> QED
  BY <1>5 DEF q, s

LEMMA CountedLine ==
  ASSUME NEW p \in Counted
  PROVE  /\ p = <<p[1], p[2]>> /\ p[1] \in 1 .. Len(Files)
         /\ p[2] \in 1 .. Len(Content[Files[p[1]]])
         /\ Files[p[1]] \notin Unreadable /\ At(p) \in Lines /\ At(p).quotes
         /\ Gain(p) \in Int /\ \A h, k : Share(p, h, k) \in Int
<1>1. PICK f \in 1 .. Len(Files) : \E j \in 1 .. Len(Content[Files[f]]) : p = <<f, j>>
  BY DEF Counted
<1>2. PICK j \in 1 .. Len(Content[Files[f]]) : p = <<f, j>>
  BY <1>1
<1>3. p[1] = f /\ p[2] = j
  BY <1>2
<1>4. Content[Files[f]] \in Seq(Lines)
  BY ContentAssumption
<1>5. At(p) \in Lines
  BY <1>2, <1>3, <1>4 DEF At
<1>6. At(p).bytes \in Int
  BY <1>5 DEF Lines
<1>7. Files[p[1]] \notin Unreadable /\ At(p).quotes
  BY DEF Counted, At
<1> QED
  BY <1>2, <1>3, <1>5, <1>6, <1>7 DEF Gain, Share

LEMMA CountedFinite == IsFiniteSet(Counted)
<1> DEFINE Of(f) == {<<f, j>> : j \in 1 .. Len(Content[Files[f]])}
           All == {Of(f) : f \in 1 .. Len(Files)}
<1>1. ASSUME NEW f \in 1 .. Len(Files) PROVE IsFiniteSet(Of(f))
  <2> DEFINE n == Len(Content[Files[f]])
             g == [j \in 1 .. n |-> <<f, j>>]
  <2>1. n \in Nat
    BY ContentAssumption
  <2>2. IsFiniteSet(1 .. n)
    BY <2>1, FS_Interval
  <2>3. g \in Surjection(1 .. n, Of(f))
    BY DEF Surjection
  <2> HIDE DEF n, g, Of
  <2> QED
    BY <2>2, <2>3, FS_Surjection
<1>2. IsFiniteSet(All)
  <2> DEFINE g == [f \in 1 .. Len(Files) |-> Of(f)]
  <2>1. Len(Files) \in Nat
    BY FilesAssumption
  <2>2. IsFiniteSet(1 .. Len(Files))
    BY <2>1, FS_Interval
  <2>3. g \in Surjection(1 .. Len(Files), All)
    <3> HIDE DEF Of
    <3> QED
      BY DEF Surjection
  <2> HIDE DEF g, All
  <2> QED
    BY <2>2, <2>3, FS_Surjection
<1>3. IsFiniteSet(UNION All)
  <2>1. \A T \in All : IsFiniteSet(T)
    <3> HIDE DEF Of
    <3> QED
      BY <1>1
  <2> HIDE DEF All
  <2> QED
    BY <1>2, <2>1, FS_UNION
<1>4. Counted \in SUBSET UNION All
  BY DEF Counted
<1> HIDE DEF All
<1> QED
  BY <1>3, <1>4, FS_Subset

(* The worker a line belongs to, and the place of its file among the files *)
(* of that worker.                                                         *)
LEMMA OwnerSlot ==
  ASSUME NEW p \in Counted
  PROVE  /\ Owner(p) \in Workers
         /\ Slot(p) \in 1 .. Len(paths(Owner(p)))
         /\ p[1] = (Slot(p) - 1) * num_t + Owner(p) + 1
         /\ paths(Owner(p))[Slot(p)] = Files[p[1]]
<1> DEFINE n == p[1] - 1
           w == Owner(p)
           q == n \div num_t
<1>1. p[1] \in 1 .. Len(Files) /\ Len(Files) \in Nat /\ num_t \in Nat \ {0}
  BY CountedLine, FilesAssumption, WorkersAssumption
<1>2. n \in Nat /\ q \in Int /\ n = num_t * q + w /\ w \in 0 .. num_t - 1
  <2>1. n \in Nat
    BY <1>1
  <2> HIDE DEF n
  <2>2. n % num_t = w
    BY DEF Owner, n
  <2> HIDE DEF w
  <2>3. n \div num_t \in Int /\ n = num_t * (n \div num_t) + (n % num_t)
        /\ n % num_t \in 0 .. num_t - 1
    <3>1. n \in Int /\ num_t \in Nat \ {0}
      BY <1>1, <2>1
    <3> QED
      BY ONLY <3>1, Division, Zenon
  <2> QED
    BY <2>1, <2>2, <2>3
<1>3. w \in Workers /\ Slot(p) = q + 1
  BY <1>2 DEF Workers, Slot
<1> HIDE DEF q, w
<1>4. q >= 0
  <2> SUFFICES ASSUME q <= -1 PROVE FALSE
    BY <1>2
  <2>1. num_t * q <= -num_t
    BY <1>1, <1>2
  <2> QED
    BY <1>1, <1>2, <2>1
<1>5. q + 1 <= Len(paths(w))
  <2> DEFINE m == Len(Files) - w + num_t - 1
             r == m \div num_t
  <2>1. Len(paths(w)) = r /\ m \in Int
    BY <1>3, PathsLength
  <2>2. r \in Int /\ m = num_t * r + (m % num_t) /\ m % num_t \in 0 .. num_t - 1
    <3> HIDE DEF m
    <3> QED
      BY <1>1, <2>1, Division
  <2>3. num_t * r > m - num_t
    <3> HIDE DEF r
    <3> QED
      BY <1>1, <2>1, <2>2
  <2>4. m - num_t >= num_t * q
    <3>1. m - num_t = Len(Files) - w - 1 /\ num_t * q = n - w /\ n <= Len(Files) - 1
      BY <1>1, <1>2
    <3> QED
      BY <1>1, <1>2, <3>1
  <2> HIDE DEF m, r
  <2>5. ~(r <= q)
    <3> SUFFICES ASSUME q - r >= 0 PROVE FALSE
      BY <1>2, <2>2
    <3>1. num_t * (q - r) >= 0
      BY <1>1, <1>2, <2>2
    <3>2. /\ num_t * (q - r) = num_t * q - num_t * r
          /\ num_t * q \in Int /\ num_t * r \in Int /\ m - num_t \in Int
      BY <1>1, <1>2, <2>1, <2>2
    <3> QED
      BY <2>3, <2>4, <3>1, <3>2
  <2> QED
    BY <1>2, <2>1, <2>2, <2>5
<1>6. p[1] = (Slot(p) - 1) * num_t + w + 1
  BY <1>1, <1>2, <1>3
<1>7. Slot(p) \in 1 .. Len(paths(w))
  BY <1>2, <1>3, <1>4, <1>5, PathsLength
<1>8. paths(w)[Slot(p)] = Files[p[1]]
  <2>1. DOMAIN paths(w) = 1 .. Len(paths(w))
    BY <1>3, PathsLength DEF paths
  <2> QED
    BY <1>6, <1>7, <2>1 DEF paths
<1> QED
  BY <1>3, <1>6, <1>7, <1>8 DEF w

(* The line a worker is in.                                                *)
at(w) == <<(file[w] - 1) * num_t + w + 1, line[w]>>

(* What a worker is ready for.                                             *)
Ready(w) ==
  /\ pc[w] \in {"unborn", "open"} => line[w] = 1
  /\ pc[w] \in {"unborn", "open", "line"} => ht[w] = "url"
  /\ pc[w] \in {"bytes"} \cup InTotal => ht[w] = "ref"
  /\ pc[w] \in Working => paths(w)[file[w]] \notin Unreadable
  /\ pc[w] \in Working \ {"line"} => CurrentLine(w).quotes
  /\ pc[w] = "store" => tmp[w] = node(w).value
  /\ pc[w] = "addTotal" => tmp[w] = total /\ CurrentLine(w).bytes > 0
  /\ pc[w] = "done" => file[w] > Len(paths(w))

LEMMA AtCounts ==
  ASSUME TypeOK, NEW w \in Workers, Reads(w), Ready(w), pc[w] \in Working \ {"line"}
  PROVE  /\ at(w) \in Counted /\ Owner(at(w)) = w /\ Slot(at(w)) = file[w]
         /\ At(at(w)) = CurrentLine(w)
         /\ at(w)[2] = line[w]
         /\ \A h \in Tables : KeyIn(at(w), h) = key(w, h)
         /\ \A h \in Tables, k \in Keys :
              Share(at(w), h, k) = IF key(w, h) = k THEN val(w, h) ELSE 0
         /\ Gain(at(w)) = IF CurrentLine(w).bytes > 0 THEN CurrentLine(w).bytes ELSE 0
<1> DEFINE f == (file[w] - 1) * num_t + w + 1
           a == file[w] - 1
<1>1. num_t \in Nat \ {0} /\ w \in 0 .. num_t - 1 /\ Len(Files) \in Nat
  BY WorkersAssumption, FilesAssumption DEF Workers
<1>2. file[w] \in 1 .. Len(paths(w)) /\ line[w] \in 1 .. Len(Lines_of(w))
  BY DEF Reads
<1>3. a \in Nat /\ f - 1 = num_t * a + w /\ f \in Int
  BY <1>1, <1>2
<1>4. (f - 1) \div num_t = a /\ (f - 1) % num_t = w
  <2> HIDE DEF a, f
  <2>1. (num_t * a + w) \div num_t = a /\ (num_t * a + w) % num_t = w
    <3>1. a \in Int /\ num_t \in Nat \ {0} /\ w \in 0 .. num_t - 1
      BY <1>1, <1>3
    <3> QED
      BY ONLY <3>1, DivisionUnique, Zenon
  <2> QED
    BY <1>3, <2>1
<1>5. paths(w)[file[w]] = Files[f]
  <2>1. DOMAIN paths(w) = 1 .. Len(paths(w))
    BY PathsLength DEF paths
  <2> QED
    BY <1>2, <2>1 DEF paths
<1>6. f \in 1 .. Len(Files)
  <2> DEFINE m == Len(Files) - w + num_t - 1
             q == m \div num_t
  <2>1. q \in Nat /\ m \in Int /\ num_t * q <= m /\ file[w] \in 1 .. q
    BY <1>2, PathsLength
  <2> HIDE DEF q
  <2>2. file[w] <= q /\ file[w] \in Int /\ q \in Int
    BY <2>1
  <2>3. num_t * (q - file[w]) >= 0
    BY <1>1, <2>2
  <2>4. num_t * (q - file[w]) = num_t * q - num_t * file[w]
    BY <1>1, <2>2
  <2>5. f = num_t * file[w] - num_t + w + 1
    BY <1>1, <2>2
  <2>6. f <= Len(Files)
    <3>1. num_t * q \in Int /\ num_t * file[w] \in Int
      BY <1>1, <2>2
    <3>2. num_t * file[w] <= Len(Files) - w + num_t - 1
      BY <2>1, <2>3, <2>4, <3>1
    <3> QED
      BY <1>1, <2>5, <3>1, <3>2
  <2>7. f >= 1
    <3>1. num_t * a >= 0
      BY <1>1, <1>3
    <3> QED
      BY <1>1, <1>3, <3>1
  <2> QED
    BY <1>3, <2>6, <2>7
<1>7. at(w) = <<f, line[w]>> /\ at(w)[1] = f /\ at(w)[2] = line[w]
  BY DEF at
<1> HIDE DEF f
<1>8. At(at(w)) = CurrentLine(w) /\ Lines_of(w) = Content[Files[f]]
  BY <1>5, <1>7 DEF At, CurrentLine, Lines_of
<1>9. at(w) \in Counted
  <2>1. Files[f] \notin Unreadable /\ At(at(w)).quotes
    BY <1>5, <1>8 DEF Ready
  <2> QED
    BY <1>2, <1>6, <1>7, <1>8, <2>1 DEF Counted, At
<1>10. Owner(at(w)) = w /\ Slot(at(w)) = file[w]
  BY <1>2, <1>4, <1>7 DEF Owner, Slot
<1>11. \A h \in Tables : KeyIn(at(w), h) = key(w, h)
  BY <1>8 DEF KeyIn, key
<1>12. \A h \in Tables, k \in Keys :
         Share(at(w), h, k) = IF key(w, h) = k THEN val(w, h) ELSE 0
  BY <1>8, <1>11 DEF Share, val
<1> QED
  BY <1>7, <1>8, <1>9, <1>10, <1>11, <1>12 DEF Gain

(* No other counted line is where the worker is.                           *)
LEMMA AtOnly ==
  ASSUME NEW p \in Counted, NEW w \in Workers,
         Owner(p) = w, Slot(p) = file[w], p[2] = line[w]
  PROVE  p = at(w)
  BY OwnerSlot, CountedLine DEF at

-----------------------------------------------------------------------------
(* The lines added: a step of a worker adds the line it is in to a table   *)
(* when it stores, links or passes over the key, and to the total when it  *)
(* adds the bytes or has none to add.                                      *)

Adds(w, h) == ht[w] = h /\ \/ pc[w] \in {"store", "link"}
                           \/ pc[w] = "add" /\ key(w, h) \in {Nothing, Dash}
AddsBytes(w) == \/ pc[w] = "addTotal"
                \/ pc[w] = "bytes" /\ CurrentLine(w).bytes <= 0

(* AddedTo and AddedToTotal, of a line of worker w at place s, j.          *)
Past(w, s, j) == s < file[w] \/ (s = file[w] /\ j < line[w])
Here(w, s, j) == s = file[w] /\ j = line[w] /\ pc[w] \notin {"unborn", "open", "line", "done"}
Put(w, h, s, j) ==
  \/ Past(w, s, j)
  \/ Here(w, s, j) /\ h = "url" /\ (ht[w] = "ref" \/ pc[w] = "unlock")
  \/ /\ Here(w, s, j) /\ h = "ref" /\ ht[w] = "ref"
     /\ pc[w] \in {"unlock", "bytes", "addTotal", "unlockTotal"}
PutTotal(w, s, j) == Past(w, s, j) \/ (Here(w, s, j) /\ pc[w] = "unlockTotal")

LEMMA PutIs ==
  ASSUME NEW p
  PROVE  /\ \A h : AddedTo(h, p) <=> Put(Owner(p), h, Slot(p), p[2])
         /\ AddedToTotal(p) <=> PutTotal(Owner(p), Slot(p), p[2])
         /\ \A h : AddedTo(h, p)' <=> Put(Owner(p), h, Slot(p), p[2])'
         /\ AddedToTotal(p)' <=> PutTotal(Owner(p), Slot(p), p[2])'
  BY DEF AddedTo, AddedToTotal, Before, Current, Put, PutTotal, Past, Here, Owner, Slot

LogReady == LogInv /\ \A w \in Workers : Ready(w)

(* What a step does to the lines of the worker that makes it: there is no  *)
(* counted line in an unreadable file, none after the last, and none is    *)
(* passed over for want of quotes.                                         *)
LEMMA PutOwn ==
  ASSUME LogReady, NEW w \in Workers, worker(w),
         NEW s \in Nat \ {0}, NEW j \in Nat \ {0}, s <= Len(paths(w)),
         s = file[w] => /\ paths(w)[s] \notin Unreadable
                        /\ j <= Len(Lines_of(w))
                        /\ j = line[w] => CurrentLine(w).quotes
  PROVE  /\ \A h \in Tables :
              /\ Put(w, h, s, j)' <=>
                   Put(w, h, s, j) \/ (s = file[w] /\ j = line[w] /\ Adds(w, h))
              /\ s = file[w] /\ j = line[w] /\ Adds(w, h) => ~Put(w, h, s, j)
         /\ PutTotal(w, s, j)' <=>
              PutTotal(w, s, j) \/ (s = file[w] /\ j = line[w] /\ AddsBytes(w))
         /\ s = file[w] /\ j = line[w] /\ AddsBytes(w) => ~PutTotal(w, s, j)
<1> DEFINE Goal ==
      /\ \A h \in Tables :
              /\ Put(w, h, s, j)' <=>
                   Put(w, h, s, j) \/ (s = file[w] /\ j = line[w] /\ Adds(w, h))
              /\ s = file[w] /\ j = line[w] /\ Adds(w, h) => ~Put(w, h, s, j)
      /\ PutTotal(w, s, j)' <=>
              PutTotal(w, s, j) \/ (s = file[w] /\ j = line[w] /\ AddsBytes(w))
      /\ s = file[w] /\ j = line[w] /\ AddsBytes(w) => ~PutTotal(w, s, j)
<1>0. /\ file[w] \in Nat \ {0} /\ line[w] \in Nat \ {0} /\ ht[w] \in Tables
      /\ Tables = {"url", "ref"} /\ Ready(w) /\ Reads(w) /\ WalkRight(w)
      /\ pc \in [Workers -> Places] /\ file \in [Workers -> Nat \ {0}]
      /\ line \in [Workers -> Nat \ {0}] /\ ht \in [Workers -> Tables]
  BY DEF LogReady, LogInv, TypeOK, Tables
<1>k. \A k \in Keys : k \notin {Nothing, Dash}
  BY KeysAssumption
<1> SUFFICES Goal
  OBVIOUS
<1>1. CASE OpenFile(w)
  <2>1. /\ pc[w] = "open" /\ line[w] = 1 /\ line'[w] = line[w] /\ ht'[w] = ht[w]
        /\ pc'[w] \in {"open", "line", "done"}
        /\ pc'[w] # "open" => file'[w] = file[w]
        /\ pc'[w] = "open" => file'[w] = file[w] + 1 /\ s # file[w]
    BY <1>0, <1>1 DEF OpenFile, Goto, Ready, locals
  <2> QED
    BY <1>0, <2>1 DEF Put, PutTotal, Past, Here, Adds, AddsBytes
<1>2. CASE ReadLine(w)
  <2>1. pc[w] = "line" /\ ht[w] = "url" /\ ht'[w] = "url"
    BY <1>0, <1>2 DEF ReadLine, Ready, locals
  <2>2. CASE line[w] > Len(Lines_of(w))
    <3>1. /\ pc'[w] = "open" /\ file'[w] = file[w] + 1 /\ line'[w] = 1
      BY <1>0, <1>2, <2>2 DEF ReadLine, Goto
    <3>2. Len(Lines_of(w)) \in Nat
      BY <1>0, <2>1, LineTypes DEF LogReady, LogInv, Working
    <3> QED
      BY <1>0, <2>1, <2>2, <3>1, <3>2 DEF Put, PutTotal, Past, Here, Adds, AddsBytes
  <2>3. CASE ~(line[w] > Len(Lines_of(w))) /\ CurrentLine(w).quotes
    <3>1. pc'[w] = "add" /\ file'[w] = file[w] /\ line'[w] = line[w]
      BY <1>0, <1>2, <2>3 DEF ReadLine, Goto
    <3> QED
      BY <1>0, <2>1, <3>1 DEF Put, PutTotal, Past, Here, Adds, AddsBytes
  <2>4. CASE ~(line[w] > Len(Lines_of(w))) /\ ~CurrentLine(w).quotes
    <3>1. pc'[w] = "line" /\ file'[w] = file[w] /\ line'[w] = line[w] + 1
      BY <1>0, <1>2, <2>4 DEF ReadLine
    <3>2. ~(s = file[w] /\ j = line[w])
      BY <2>4
    <3> QED
      BY <1>0, <2>1, <3>1, <3>2 DEF Put, PutTotal, Past, Here, Adds, AddsBytes
  <2> QED
    BY <2>2, <2>3, <2>4
<1>3. CASE Skip(w)
  <2>1. /\ pc[w] = "add" /\ key(w, ht[w]) \in {Nothing, Dash}
        /\ file'[w] = file[w] /\ line'[w] = line[w] /\ ht'[w] = "ref"
        /\ ht[w] = "url" => pc'[w] = "add"
        /\ ht[w] = "ref" => pc'[w] = "bytes"
    BY <1>0, <1>3 DEF Skip, Goto
  <2> QED
    BY <1>0, <2>1 DEF Put, PutTotal, Past, Here, Adds, AddsBytes
<1>4. CASE LockTable(w) \/ Walk(w) \/ NewNode(w)
  <2>1. /\ file'[w] = file[w] /\ line'[w] = line[w] /\ ht'[w] = ht[w]
        /\ \/ pc[w] = "add" /\ key(w, ht[w]) \in Keys
           \/ pc[w] = "walk"
        /\ pc'[w] \in {"walk", "store", "link"}
    BY <1>0, <1>4 DEF LockTable, Walk, NewNode, Goto
  <2> QED
    BY <1>0, <1>k, <2>1 DEF Put, PutTotal, Past, Here, Adds, AddsBytes
<1>5. CASE Store(w) \/ Link(w)
  <2>1. /\ file'[w] = file[w] /\ line'[w] = line[w] /\ ht'[w] = ht[w]
        /\ pc[w] \in {"store", "link"} /\ pc'[w] = "unlock"
    BY <1>0, <1>5 DEF Store, Link, Goto, locals
  <2> QED
    BY <1>0, <2>1 DEF Put, PutTotal, Past, Here, Adds, AddsBytes
<1>6. CASE UnlockTable(w)
  <2>1. /\ file'[w] = file[w] /\ line'[w] = line[w] /\ ht'[w] = "ref"
        /\ pc[w] = "unlock"
        /\ ht[w] = "url" => pc'[w] = "add"
        /\ ht[w] = "ref" => pc'[w] = "bytes"
    BY <1>0, <1>6 DEF UnlockTable, Goto
  <2> QED
    BY <1>0, <2>1 DEF Put, PutTotal, Past, Here, Adds, AddsBytes
<1>7. CASE LoadTotal(w) \/ AddTotal(w)
  <2>1. /\ file'[w] = file[w] /\ line'[w] = line[w] /\ ht'[w] = ht[w]
        /\ ht[w] = "ref"
    BY <1>0, <1>7 DEF LoadTotal, AddTotal, Goto, locals, Ready, InTotal
  <2>2. \/ pc[w] = "bytes" /\ pc'[w] = "addTotal" /\ ~AddsBytes(w)
        \/ pc[w] = "addTotal" /\ pc'[w] = "unlockTotal" /\ AddsBytes(w)
    <3>1. CASE LoadTotal(w)
      <4>1. CurrentLine(w).bytes \in Int
        BY <1>0, <3>1, LineTypes DEF LoadTotal, LogReady, LogInv, Working, Lines
      <4> QED
        BY <1>0, <3>1, <4>1 DEF LoadTotal, Goto, AddsBytes
    <3>2. CASE AddTotal(w)
      BY <1>0, <3>2 DEF AddTotal, Goto, AddsBytes
    <3> QED
      BY <1>7, <3>1, <3>2
  <2> QED
    BY <1>0, <2>1, <2>2 DEF Put, PutTotal, Past, Here, Adds
<1>8. CASE NoBytes(w) \/ UnlockTotal(w)
  <2>1. /\ file'[w] = file[w] /\ line'[w] = line[w] + 1 /\ ht'[w] = "url"
        /\ ht[w] = "ref" /\ pc'[w] = "line"
    BY <1>0, <1>8 DEF NoBytes, UnlockTotal, NextLine, Goto, Ready, InTotal
  <2>2. \/ pc[w] = "bytes" /\ AddsBytes(w)
        \/ pc[w] = "unlockTotal" /\ ~AddsBytes(w)
    BY <1>8 DEF NoBytes, UnlockTotal, Goto, AddsBytes
  <2> QED
    BY <1>0, <2>1, <2>2 DEF Put, PutTotal, Past, Here, Adds
<1> QED
  BY <1>1, <1>2, <1>3, <1>4, <1>5, <1>6, <1>7, <1>8 DEF worker, add_stat

LEMMA AddedStep ==
  ASSUME LogReady, NEW w \in Workers, worker(w), NEW p \in Counted
  PROVE  /\ \A h \in Tables :
              /\ AddedTo(h, p)' <=> AddedTo(h, p) \/ (p = at(w) /\ Adds(w, h))
              /\ p = at(w) /\ Adds(w, h) => ~AddedTo(h, p)
         /\ AddedToTotal(p)' <=> AddedToTotal(p) \/ (p = at(w) /\ AddsBytes(w))
         /\ p = at(w) /\ AddsBytes(w) => ~AddedToTotal(p)
<1> DEFINE v == Owner(p)
           s == Slot(p)
           j == p[2]
<1>1. /\ v \in Workers /\ s \in 1 .. Len(paths(v)) /\ paths(v)[s] = Files[p[1]]
      /\ Len(paths(v)) \in Nat
  BY OwnerSlot, PathsLength
<1>2. /\ j \in 1 .. Len(Content[Files[p[1]]]) /\ Len(Content[Files[p[1]]]) \in Nat
      /\ Files[p[1]] \notin Unreadable /\ At(p).quotes /\ p[1] \in 1 .. Len(Files)
  BY CountedLine, ContentAssumption
<1>3. \A h \in Tables : Adds(w, h) => pc[w] \in Working \ {"line"}
  BY DEF Adds, Working, InTable
<1>4. AddsBytes(w) => pc[w] \in Working \ {"line"}
  BY DEF AddsBytes, Working, InTotal
<1>5. pc[w] \in Working \ {"line"} =>
        /\ p = at(w) => v = w /\ s = file[w] /\ j = line[w]
        /\ v = w /\ s = file[w] /\ j = line[w] => p = at(w)
  BY AtCounts, AtOnly DEF LogReady, LogInv
<1>6. CASE v # w
  <2>1. pc'[v] = pc[v] /\ file'[v] = file[v] /\ line'[v] = line[v] /\ ht'[v] = ht[v]
    BY <1>1, <1>6, WorkerOnly DEF LogReady, LogInv
  <2>2. /\ \A h : Put(v, h, s, j)' <=> Put(v, h, s, j)
        /\ PutTotal(v, s, j)' <=> PutTotal(v, s, j)
    <3> HIDE DEF v, s, j
    <3> QED
      BY <2>1 DEF Put, PutTotal, Past, Here
  <2> QED
    BY <1>3, <1>4, <1>5, <1>6, <2>2, PutIs
<1>7. CASE v = w
  <2>1. s = file[w] => /\ paths(w)[s] \notin Unreadable
                       /\ j <= Len(Lines_of(w))
                       /\ j = line[w] => CurrentLine(w).quotes
    BY <1>1, <1>2, <1>7 DEF Lines_of, CurrentLine, At
  <2>2. s \in Nat \ {0} /\ j \in Nat \ {0} /\ s <= Len(paths(w))
    BY <1>1, <1>2, <1>7
  <2>3. /\ \A h \in Tables :
              /\ Put(w, h, s, j)' <=>
                   Put(w, h, s, j) \/ (s = file[w] /\ j = line[w] /\ Adds(w, h))
              /\ s = file[w] /\ j = line[w] /\ Adds(w, h) => ~Put(w, h, s, j)
        /\ PutTotal(w, s, j)' <=>
              PutTotal(w, s, j) \/ (s = file[w] /\ j = line[w] /\ AddsBytes(w))
        /\ s = file[w] /\ j = line[w] /\ AddsBytes(w) => ~PutTotal(w, s, j)
    <3> HIDE DEF s, j
    <3> QED
      BY <2>1, <2>2, PutOwn
  <2> QED
    BY <1>3, <1>4, <1>5, <1>7, <2>3, PutIs
<1> QED
  BY <1>6, <1>7

-----------------------------------------------------------------------------
(* What a worker is ready for stays true: nobody else writes the chain it  *)
(* is in, nor the total while it holds bytes_lock.                         *)

LEMMA TotalStays ==
  ASSUME LogReady, NEW w \in Workers, worker(w), NEW v \in Workers, v # w,
         pc[v] \in InTotal
  PROVE  total' = total
<1>1. lock["bytes"] = v
  BY DEF LogReady, LogInv, LocksHeld
<1>2. pc[w] \notin InTotal
  BY <1>1 DEF LogReady, LogInv, LocksHeld
<1>3. ~AddTotal(w)
  BY <1>2 DEF AddTotal, Goto, InTotal
<1> QED
  BY <1>3 DEF worker, add_stat, OpenFile, ReadLine, Skip, LockTable, Walk, Store, NewNode,
              Link, UnlockTable, NoBytes, LoadTotal, UnlockTotal, shared

LEMMA ReadyOthers ==
  ASSUME LogReady, NEW w \in Workers, worker(w), NEW v \in Workers, v # w
  PROVE  Ready(v)'
<1>1. /\ pc'[v] = pc[v] /\ file'[v] = file[v] /\ line'[v] = line[v]
      /\ ht'[v] = ht[v] /\ curr'[v] = curr[v] /\ tmp'[v] = tmp[v]
  BY WorkerOnly DEF LogReady, LogInv
<1>2. /\ paths(v)' = paths(v) /\ CurrentLine(v)' = CurrentLine(v)
      /\ key(v, ht[v])' = key(v, ht[v])
  BY <1>1, LineStays
<1>3. ASSUME pc[v] = "store" PROVE node(v)' = node(v)
  <2>1. ht[v] \in Tables /\ ht[w] \in Tables
    BY DEF LogReady, LogInv, TypeOK
  <2>2. pc[v] \in InTable /\ lock[ht[v]] = v
    BY <1>3, <2>1 DEF LogReady, LogInv, LocksHeld, InTable
  <2>3. pc[w] \in InTable => ht[w] # ht[v]
    BY <2>1, <2>2 DEF LogReady, LogInv, LocksHeld
  <2>4. table'[ht[v]] = table[ht[v]]
    BY <2>1, <2>3, TableStays DEF LogReady, InTable
  <2>5. chain(v)' = chain(v)
    BY <1>1, <1>2, <2>4 DEF chain
  <2> QED
    BY <1>1, <2>5 DEF node
<1>4. pc[v] = "addTotal" => total' = total
  BY TotalStays DEF InTotal
<1>5. Ready(v)
  BY DEF LogReady
<1> QED
  BY <1>1, <1>2, <1>3, <1>4, <1>5 DEF Ready

LEMMA ReadyOwn ==
  ASSUME LogReady, NEW w \in Workers, worker(w)
  PROVE  Ready(w)'
<1>0. /\ Ready(w) /\ Reads(w) /\ TypeOK /\ Tables = {"url", "ref"}
      /\ pc \in [Workers -> Places] /\ file \in [Workers -> Nat \ {0}]
      /\ line \in [Workers -> Nat \ {0}] /\ ht \in [Workers -> Tables]
      /\ tmp \in [Workers -> Int]
  BY DEF LogReady, LogInv, TypeOK, Tables
<1>m. /\ Working = {"walk", "store", "link", "unlock", "addTotal", "unlockTotal",
                    "line", "add", "bytes"}
      /\ InTotal = {"addTotal", "unlockTotal"}
  BY DEF Working, InTable, InTotal
<1>s. ASSUME file'[w] = file[w]
      PROVE  /\ paths(w)' = paths(w)
             /\ line'[w] = line[w] => /\ CurrentLine(w)' = CurrentLine(w)
                                      /\ \A h : key(w, h)' = key(w, h)
  BY <1>s, LineStays
<1>1. CASE OpenFile(w)
  <2>1. /\ pc[w] = "open" /\ line'[w] = line[w] /\ ht'[w] = ht[w]
        /\ line[w] = 1 /\ ht[w] = "url"
    BY <1>0, <1>1 DEF OpenFile, Ready, locals
  <2>2. \/ pc'[w] = "done" /\ file[w] > Len(paths(w)) /\ file'[w] = file[w]
        \/ pc'[w] = "open"
        \/ /\ pc'[w] = "line" /\ file'[w] = file[w]
           /\ paths(w)[file[w]] \notin Unreadable
    BY <1>0, <1>1 DEF OpenFile, Goto
  <2> QED
    BY <1>m, <1>s, <2>1, <2>2 DEF Ready
<1>2. CASE ReadLine(w)
  <2>1. pc[w] = "line" /\ ht'[w] = ht[w] /\ ht[w] = "url"
        /\ paths(w)[file[w]] \notin Unreadable
    BY <1>0, <1>m, <1>2 DEF ReadLine, Ready, locals
  <2>2. \/ pc'[w] = "open" /\ line'[w] = 1
        \/ /\ pc'[w] = "add" /\ file'[w] = file[w] /\ line'[w] = line[w]
           /\ CurrentLine(w).quotes
        \/ pc'[w] = "line" /\ file'[w] = file[w]
    BY <1>0, <1>2, <2>1 DEF ReadLine, Goto
  <2> QED
    BY <1>m, <1>s, <2>1, <2>2 DEF Ready
<1>3. CASE \/ Skip(w) \/ LockTable(w) \/ Store(w) \/ Link(w) \/ NewNode(w) \/ UnlockTable(w)
  <2>1. /\ file'[w] = file[w] /\ line'[w] = line[w]
        /\ pc[w] \in Working \ {"line"}
        /\ pc'[w] \in {"add", "bytes", "walk", "unlock", "link"}
        /\ pc'[w] = "bytes" => ht'[w] = "ref"
    BY <1>0, <1>m, <1>3 DEF Skip, LockTable, Store, Link, NewNode, UnlockTable, Goto, locals
  <2> QED
    BY <1>0, <1>m, <1>s, <2>1 DEF Ready
<1>4. CASE Walk(w)
  <2>1. /\ file'[w] = file[w] /\ line'[w] = line[w] /\ ht'[w] = ht[w]
        /\ pc[w] = "walk" /\ table' = table
        /\ \/ pc'[w] = "walk"
           \/ pc'[w] = "store" /\ tmp'[w] = node(w).value /\ curr'[w] = curr[w]
    BY <1>0, <1>4 DEF Walk, Goto, shared
  <2>2. pc'[w] = "store" => node(w)' = node(w)
    BY <1>s, <2>1 DEF node, chain
  <2> QED
    BY <1>0, <1>m, <1>s, <2>1, <2>2 DEF Ready
<1>5. CASE NoBytes(w) \/ UnlockTotal(w)
  <2>1. /\ file'[w] = file[w] /\ pc'[w] = "line" /\ ht'[w] = "url"
        /\ pc[w] \in Working
    BY <1>0, <1>m, <1>5 DEF NoBytes, UnlockTotal, NextLine, Goto
  <2> QED
    BY <1>0, <1>m, <1>s, <2>1 DEF Ready
<1>6. CASE LoadTotal(w) \/ AddTotal(w)
  <2>1. /\ file'[w] = file[w] /\ line'[w] = line[w] /\ ht'[w] = ht[w]
        /\ pc[w] \in {"bytes", "addTotal"} /\ pc'[w] \in InTotal
        /\ pc'[w] = "addTotal" => /\ tmp'[w] = total /\ total' = total
                                  /\ CurrentLine(w).bytes > 0
    BY <1>0, <1>m, <1>6 DEF LoadTotal, AddTotal, Goto, locals
  <2> QED
    BY <1>0, <1>m, <1>s, <2>1 DEF Ready
<1> QED
  BY <1>1, <1>2, <1>3, <1>4, <1>5, <1>6 DEF worker, add_stat

-----------------------------------------------------------------------------
(* The sums of the lines added.                                            *)

LEMMA AddedIs ==
  ASSUME NEW h \in Tables, NEW k \in Keys
  PROVE  /\ SumFunction(Added(h, k)) = Sum(Added(h, k), Counted)
         /\ \A p \in Counted : /\ Added(h, k)[p] \in Int
                               /\ Added(h, k)[p] = IF AddedTo(h, p) THEN Share(p, h, k) ELSE 0
         /\ SumFunction(Added(h, k)) \in Int
<1>1. /\ DOMAIN Added(h, k) = Counted
      /\ \A p \in Counted : /\ Added(h, k)[p] \in Int
                            /\ Added(h, k)[p] = IF AddedTo(h, p) THEN Share(p, h, k) ELSE 0
  BY CountedLine DEF Added
<1>2. SumFunction(Added(h, k)) = Sum(Added(h, k), Counted)
  BY <1>1, SumWhole
<1>3. Sum(Added(h, k), Counted) \in Int
  BY <1>1, CountedFinite, SumType
<1> QED
  BY <1>1, <1>2, <1>3

LEMMA GainedIs ==
  /\ SumFunction(Gained) = Sum(Gained, Counted)
  /\ \A p \in Counted : /\ Gained[p] \in Int
                        /\ Gained[p] = IF AddedToTotal(p) THEN Gain(p) ELSE 0
  /\ SumFunction(Gained) \in Int
<1>1. /\ DOMAIN Gained = Counted
      /\ \A p \in Counted : /\ Gained[p] \in Int
                            /\ Gained[p] = IF AddedToTotal(p) THEN Gain(p) ELSE 0
  BY CountedLine DEF Gained
<1>2. SumFunction(Gained) = Sum(Gained, Counted)
  BY <1>1, SumWhole
<1>3. Sum(Gained, Counted) \in Int
  BY <1>1, CountedFinite, SumType
<1> QED
  BY <1>1, <1>2, <1>3

(* The sum under a key grows by what the line being added has for it.      *)
LEMMA SumStep ==
  ASSUME LogReady, NEW w \in Workers, worker(w), NEW h \in Tables, NEW k \in Keys
  PROVE  SumFunction(Added(h, k))' =
           SumFunction(Added(h, k)) + (IF Adds(w, h) /\ key(w, h) = k THEN val(w, h) ELSE 0)
<1> DEFINE f == Added(h, k)
           e == Added(h, k)'
<1>1. /\ e = [p \in Counted |-> IF AddedTo(h, p)' THEN Share(p, h, k) ELSE 0]
      /\ f = [p \in Counted |-> IF AddedTo(h, p) THEN Share(p, h, k) ELSE 0]
  BY DEF Added, Counted, Share, KeyIn, At
<1>2. \A p \in Counted : Share(p, h, k) \in Int
  BY CountedLine
<1>3. SumFunction(e) = Sum(e, Counted) /\ SumFunction(f) = Sum(f, Counted)
      /\ Sum(f, Counted) \in Int
  <2>1. DOMAIN e = Counted
    BY <1>1
  <2> HIDE DEF e
  <2> QED
    BY <2>1, SumWhole, AddedIs
<1>4. SumFunction(Added(h, k))' = SumFunction(e)
  BY DEF SumFunction, SumFunctionOnSet, FoldFunctionOnSet, MapThenFoldSet
<1>5. CASE Adds(w, h)
  <2>1. pc[w] \in Working \ {"line"}
    BY <1>5 DEF Adds, Working, InTable
  <2>2. /\ at(w) \in Counted
        /\ Share(at(w), h, k) = IF key(w, h) = k THEN val(w, h) ELSE 0
    BY <2>1, AtCounts DEF LogReady, LogInv
  <2>3. \A p \in Counted : AddedTo(h, p)' <=> AddedTo(h, p) \/ p = at(w)
    BY <1>5, AddedStep
  <2>4. ~AddedTo(h, at(w))
    BY <1>5, <2>2, AddedStep
  <2>5. f[at(w)] = 0 /\ e[at(w)] = Share(at(w), h, k)
    BY <1>1, <2>2, <2>3, <2>4
  <2>6. \A p \in Counted \ {at(w)} : e[p] = f[p]
    BY <1>1, <2>3
  <2>7. \A p \in Counted : f[p] \in Int /\ e[p] \in Int
    BY <1>1, <1>2
  <2> HIDE DEF e, f
  <2>8. Sum(e, Counted) = Sum(f, Counted) + (e[at(w)] - f[at(w)])
    BY <2>2, <2>6, <2>7, CountedFinite, SumMore
  <2>9. e[at(w)] - f[at(w)] = IF key(w, h) = k THEN val(w, h) ELSE 0
    BY <2>2, <2>5, <2>7
  <2> QED
    BY <1>3, <1>4, <1>5, <2>8, <2>9 DEF f
<1>6. CASE ~Adds(w, h)
  <2>1. \A p \in Counted : AddedTo(h, p)' <=> AddedTo(h, p)
    BY <1>6, AddedStep
  <2>2. e = f
    BY <1>1, <2>1
  <2> HIDE DEF e
  <2> QED
    BY <1>3, <1>4, <1>6, <2>2
<1> QED
  BY <1>5, <1>6

LEMMA GainedStep ==
  ASSUME LogReady, NEW w \in Workers, worker(w)
  PROVE  SumFunction(Gained)' =
           SumFunction(Gained)
           + (IF pc[w] = "addTotal" THEN CurrentLine(w).bytes ELSE 0)
<1> DEFINE f == Gained
           e == Gained'
<1>1. /\ e = [p \in Counted |-> IF AddedToTotal(p)' THEN Gain(p) ELSE 0]
      /\ f = [p \in Counted |-> IF AddedToTotal(p) THEN Gain(p) ELSE 0]
  BY DEF Gained, Counted, Gain, At
<1>2. \A p \in Counted : Gain(p) \in Int
  BY CountedLine
<1>3. SumFunction(e) = Sum(e, Counted) /\ SumFunction(f) = Sum(f, Counted)
      /\ Sum(f, Counted) \in Int
  <2>1. DOMAIN e = Counted
    BY <1>1
  <2> HIDE DEF e
  <2> QED
    BY <2>1, SumWhole, GainedIs
<1>4. SumFunction(Gained)' = SumFunction(e)
  BY DEF SumFunction, SumFunctionOnSet, FoldFunctionOnSet, MapThenFoldSet
<1>5. CASE AddsBytes(w)
  <2>1. pc[w] \in Working \ {"line"}
    BY <1>5 DEF AddsBytes, Working, InTotal
  <2>2. /\ at(w) \in Counted
        /\ Gain(at(w)) = IF CurrentLine(w).bytes > 0 THEN CurrentLine(w).bytes ELSE 0
    BY <2>1, AtCounts DEF LogReady, LogInv
  <2>3. \A p \in Counted : AddedToTotal(p)' <=> AddedToTotal(p) \/ p = at(w)
    BY <1>5, AddedStep
  <2>4. ~AddedToTotal(at(w))
    BY <1>5, <2>2, AddedStep
  <2>5. f[at(w)] = 0 /\ e[at(w)] = Gain(at(w))
    BY <1>1, <2>2, <2>3, <2>4
  <2>6. \A p \in Counted \ {at(w)} : e[p] = f[p]
    BY <1>1, <2>3
  <2>7. \A p \in Counted : f[p] \in Int /\ e[p] \in Int
    BY <1>1, <1>2
  <2> HIDE DEF e, f
  <2>8. Sum(e, Counted) = Sum(f, Counted) + (e[at(w)] - f[at(w)])
    BY <2>2, <2>6, <2>7, CountedFinite, SumMore
  <2>9. pc[w] = "addTotal" => CurrentLine(w).bytes > 0
    BY DEF LogReady, Ready
  <2>10. CurrentLine(w).bytes \in Int
    BY <2>1, LineTypes DEF LogReady, LogInv, Lines
  <2>11. e[at(w)] - f[at(w)] = IF pc[w] = "addTotal" THEN CurrentLine(w).bytes ELSE 0
    BY <1>5, <2>2, <2>5, <2>7, <2>9, <2>10 DEF AddsBytes
  <2> QED
    BY <1>3, <1>4, <2>8, <2>11 DEF f
<1>6. CASE ~AddsBytes(w)
  <2>1. \A p \in Counted : AddedToTotal(p)' <=> AddedToTotal(p)
    BY <1>6, AddedStep
  <2>2. e = f /\ pc[w] # "addTotal"
    BY <1>1, <1>6, <2>1 DEF AddsBytes
  <2> HIDE DEF e
  <2> QED
    BY <1>3, <1>4, <2>2
<1> QED
  BY <1>5, <1>6

-----------------------------------------------------------------------------
(* The nodes of a table, and the sums they hold.                           *)

LEMMA NodesAre ==
  ASSUME TypeOK, NEW h \in Tables
  PROVE  /\ Nodes(h) = {n \in Node : \E b \in Buckets : \E i \in 1 .. Len(table[h][b]) :
                                        n = table[h][b][i]}
         /\ \A b \in Buckets : table[h][b] \in Seq(Node)
<1>1. DOMAIN table[h] = Buckets /\ \A b \in Buckets : table[h][b] \in Seq(Node)
  BY DEF TypeOK
<1>2. \A b \in Buckets : DOMAIN table[h][b] = 1 .. Len(table[h][b])
                         /\ \A i \in 1 .. Len(table[h][b]) : table[h][b][i] \in Node
  BY <1>1
<1> QED
  BY <1>1, <1>2 DEF Nodes

Has(c, m) == \E i \in 1 .. Len(c) : m = c[i]

LEMMA NodesHad ==
  ASSUME NEW h, DOMAIN table[h] = Buckets,
         \A b \in Buckets : DOMAIN table[h][b] = 1 .. Len(table[h][b])
  PROVE  \A m : m \in Nodes(h) <=> \E b \in Buckets : Has(table[h][b], m)
  BY DEF Nodes, Has

LEMMA NodeOfKey ==
  ASSUME TypeOK, OneNodePerKey, NEW h \in Tables
  PROVE  \A m, n \in Nodes(h) : m.key = n.key => m = n
<1>1. \A b \in Buckets : DOMAIN table[h][b] = 1 .. Len(table[h][b])
  BY DEF TypeOK
<1>2. DOMAIN table[h] = Buckets
  BY DEF TypeOK
<1> QED
  BY <1>1, <1>2, NodesAre DEF OneNodePerKey

(* What one worker step does to the nodes of a table.                      *)
LEMMA NodesStep ==
  ASSUME LogReady, TypeOK', NEW w \in Workers, worker(w), NEW h \in Tables
  PROVE  LET k   == key(w, h)
             new == [key |-> k, value |-> (IF pc[w] = "store" THEN node(w).value ELSE 0)
                                          + val(w, h)]
         IN  /\ ~(ht[w] = h /\ pc[w] \in {"store", "link"}) => Nodes(h)' = Nodes(h)
             /\ ht[w] = h /\ pc[w] \in {"store", "link"} => new \in Node /\ k \in Keys
             /\ ht[w] = h /\ pc[w] = "store" =>
                  /\ node(w) \in Nodes(h) /\ node(w).key = k
                  /\ Nodes(h)' = (Nodes(h) \ {node(w)}) \cup {new}
             /\ ht[w] = h /\ pc[w] = "link" =>
                  /\ \A n \in Nodes(h) : n.key # k
                  /\ Nodes(h)' = Nodes(h) \cup {new}
<1> DEFINE k == key(w, h)
           new == [key |-> k, value |-> (IF pc[w] = "store" THEN node(w).value ELSE 0)
                                        + val(w, h)]
           c == chain(w)
           n == Len(c)
<1>0. TypeOK /\ OneNodePerKey /\ WalkRight(w) /\ Reads(w) /\ Ready(w)
  BY DEF LogReady, LogInv
<1>1. CASE ~(ht[w] = h /\ pc[w] \in {"store", "link"})
  <2>1. table'[h] = table[h]
    BY <1>1, TableStays DEF LogReady
  <2>2. Nodes(h)' = Nodes(h)
    BY <2>1 DEF Nodes
  <2> QED
    BY <1>1, <2>2
<1>2. CASE ht[w] = h /\ pc[w] \in {"store", "link"}
  <2>1. k \in Keys /\ val(w, h) \in Int /\ hash[k] \in Buckets
    BY <1>0, <1>2, LineTypes DEF WalkRight, InTable, Working, Buckets
  <2>2. /\ c \in Seq(Node) /\ n \in Nat /\ c = table[h][hash[k]]
        /\ \A i \in 1 .. n : c[i] \in Node /\ c[i].value \in Int
    BY <1>0, <1>2, <2>1, ChainType DEF chain
  <2> DEFINE Elsewhere(m) == \E b \in Buckets \ {hash[k]} : Has(table[h][b], m)
  <2>d. /\ DOMAIN table[h] = Buckets
        /\ \A b \in Buckets : DOMAIN table[h][b] = 1 .. Len(table[h][b])
    BY <1>0 DEF TypeOK
  <2>3. ASSUME NEW d \in Seq(Node), table' = [table EXCEPT ![h][hash[k]] = d]
        PROVE  \A m : m \in Nodes(h)' <=> Has(d, m) \/ Elsewhere(m)
    <3>1. /\ DOMAIN table'[h] = Buckets /\ table'[h][hash[k]] = d
          /\ \A b \in Buckets \ {hash[k]} : table'[h][b] = table[h][b]
      BY <1>0, <2>1, <2>3 DEF TypeOK
    <3>2. \A b \in Buckets : DOMAIN table'[h][b] = 1 .. Len(table'[h][b])
      BY <2>d, <2>1, <3>1
    <3>3. \A m : m \in Nodes(h)' <=> \E b \in Buckets : Has(table'[h][b], m)
      BY <3>1, <3>2 DEF Nodes, Has
    <3> QED
      BY <2>1, <3>1, <3>3
  <2>4. \A m : m \in Nodes(h) <=> Has(c, m) \/ Elsewhere(m)
    <3>1. \A m : m \in Nodes(h) <=> \E b \in Buckets : Has(table[h][b], m)
      BY <2>d, NodesHad
    <3> QED
      BY <2>1, <2>2, <3>1
  <2>5. \A m : Elsewhere(m) => m.key # k
    <3>1. \A b \in Buckets : \A i \in 1 .. Len(table[h][b]) : hash[table[h][b][i].key] = b
      BY <1>0, ChainByChain DEF InBucket
    <3> QED
      BY <3>1 DEF Has
  <2>6. CASE pc[w] = "store"
    <3> DEFINE x == n - curr[w] + 1
    <3>1. /\ x \in 1 .. n /\ node(w) = c[x] /\ node(w).key = k
          /\ tmp[w] = node(w).value /\ node(w).value \in Int
      BY <1>0, <1>2, <2>2, <2>6 DEF WalkRight, Ready, node
    <3>2. new = [key |-> k, value |-> node(w).value + val(w, h)] /\ new \in Node
      BY <2>1, <2>6, <3>1 DEF Node
    <3>3. Store(w)
      BY <2>6 DEF worker, add_stat, OpenFile, ReadLine, Skip, LockTable, Walk, Store,
                  NewNode, Link, UnlockTable, NoBytes, LoadTotal, AddTotal, UnlockTotal, Goto
    <3>4. table' = [table EXCEPT ![h][hash[k]] = Stored(w)]
      BY <1>0, <1>2, <2>1, <3>3, StoreIs
    <3>5. Stored(w) = [c EXCEPT ![x] = new]
      <4>1. Stored(w) = [c EXCEPT ![x] = [c[x] EXCEPT !.value = tmp[w] + val(w, h)]]
        BY <1>2, <3>1 DEF Stored
      <4>2. [c[x] EXCEPT !.value = tmp[w] + val(w, h)] = new
        <5>1. c[x] \in Node
          BY <2>2, <3>1
        <5> QED
          BY <3>1, <3>2, <5>1 DEF Node
      <4> QED
        BY <4>1, <4>2
    <3> HIDE DEF c, n, k, new, x
    <3>6. /\ Stored(w) \in Seq(Node) /\ Len(Stored(w)) = n /\ Stored(w)[x] = new
          /\ \A i \in 1 .. n : i # x => Stored(w)[i] = c[i]
      BY <2>2, <3>1, <3>2, <3>5 DEF n
    <3>7. \A i \in 1 .. n : i # x => c[i] # c[x]
      <4>1. Once(c)
        BY <1>0, <2>1, <2>2, ChainByChain
      <4> QED
        BY <2>2, <3>1, <4>1 DEF Once, n
    <3>8. \A m : m \in Nodes(h)' <=> (m \in Nodes(h) /\ m # c[x]) \/ m = new
      <4>1. \A m : Has(Stored(w), m) <=> (Has(c, m) /\ m # c[x]) \/ m = new
        BY <3>1, <3>6, <3>7 DEF Has, n
      <4>2. \A m : m \in Nodes(h)' <=> (Has(c, m) /\ m # c[x]) \/ m = new \/ Elsewhere(m)
        BY <2>3, <3>4, <3>6, <4>1
      <4>3. \A m : Elsewhere(m) => m # c[x]
        BY <2>5, <3>1
      <4> HIDE DEF Elsewhere
      <4> QED
        BY <2>4, <4>2, <4>3
    <3>9. Nodes(h)' = (Nodes(h) \ {node(w)}) \cup {new} /\ node(w) \in Nodes(h)
      <4>1. Has(c, c[x])
        BY <3>1 DEF Has, n
      <4> QED
        BY <2>4, <3>1, <3>8, <4>1
    <3> QED
      BY <1>2, <2>1, <2>6, <3>1, <3>2, <3>9 DEF new, k
  <2>7. CASE pc[w] = "link"
    <3>1. new = [key |-> k, value |-> val(w, h)] /\ new \in Node
      BY <2>1, <2>7 DEF Node
    <3>2. Link(w)
      BY <2>7 DEF worker, add_stat, OpenFile, ReadLine, Skip, LockTable, Walk, Store,
                  NewNode, Link, UnlockTable, NoBytes, LoadTotal, AddTotal, UnlockTotal, Goto
    <3>3. table' = [table EXCEPT ![h][hash[k]] = Linked(w)]
      BY <1>0, <1>2, <2>1, <3>2, LinkIs
    <3>4. n - curr[w] + 1 = 1 /\ Absent(c, n, k)
      BY <1>0, <1>2, <2>2, <2>7 DEF WalkRight
    <3>5. Linked(w) = <<new>> \o SubSeq(c, 1, n)
      BY <1>2, <3>1, <3>4 DEF Linked
    <3> HIDE DEF c, n, k, new
    <3>6. /\ Linked(w) \in Seq(Node) /\ Len(Linked(w)) = n + 1 /\ Linked(w)[1] = new
          /\ \A j \in 2 .. n + 1 : Linked(w)[j] = c[j - 1]
      BY <2>2, <3>1, <3>5, ChainLink DEF n
    <3>7. \A m : Has(Linked(w), m) <=> Has(c, m) \/ m = new
      <4>1. \A i \in 1 .. n : i + 1 \in 2 .. n + 1 /\ Linked(w)[i + 1] = c[i]
        <5>1. \A i \in 1 .. n : i + 1 \in 2 .. n + 1 /\ (i + 1) - 1 = i
          BY <2>2
        <5> QED
          BY <3>6, <5>1
      <4>2. \A i \in 1 .. n + 1 : i = 1 \/ (i \in 2 .. n + 1 /\ i - 1 \in 1 .. n)
        BY <2>2
      <4>3. 1 \in 1 .. n + 1 /\ \A i \in 2 .. n + 1 : i \in 1 .. n + 1
        BY <2>2
      <4>4. \A m : Has(Linked(w), m) <=> \E i \in 1 .. n + 1 : m = Linked(w)[i]
        BY <3>6 DEF Has
      <4>5. \A m : Has(c, m) <=> \E i \in 1 .. n : m = c[i]
        BY DEF Has, n
      <4> QED
        BY <3>6, <4>1, <4>2, <4>3, <4>4, <4>5
    <3>8. \A m : m \in Nodes(h)' <=> m \in Nodes(h) \/ m = new
      <4>1. \A m : m \in Nodes(h)' <=> Has(Linked(w), m) \/ Elsewhere(m)
        BY <2>3, <3>3, <3>6
      <4> HIDE DEF Elsewhere
      <4> QED
        BY <2>4, <3>7, <4>1
    <3>9. \A m \in Nodes(h) : m.key # k
      <4>1. \A m : Has(c, m) => m.key # k
        BY <3>4 DEF Absent, Has, n
      <4> HIDE DEF Elsewhere
      <4> QED
        BY <2>4, <2>5, <4>1
    <3>10. Nodes(h)' = Nodes(h) \cup {new}
      BY <3>8
    <3> QED
      BY <1>2, <2>1, <2>7, <3>1, <3>9, <3>10 DEF new, k
  <2> QED
    BY <1>2, <2>6, <2>7
<1> QED
  BY <1>1, <1>2

(* The nodes of a table are the keys of the lines added, with their sums.  *)
Rows(h) ==
  /\ \A n \in Nodes(h) : n.value = SumFunction(Added(h, n.key))
  /\ \A n \in Nodes(h) : \E p \in Counted : AddedTo(h, p) /\ KeyIn(p, h) = n.key
  /\ \A p \in Counted : AddedTo(h, p) /\ KeyIn(p, h) \in Keys =>
       \E n \in Nodes(h) : n.key = KeyIn(p, h)

(* A key without a node has no line yet: its sum is zero.                  *)
LEMMA NoRow ==
  ASSUME NEW h \in Tables, Rows(h), NEW k \in Keys, \A n \in Nodes(h) : n.key # k
  PROVE  SumFunction(Added(h, k)) = 0
<1>1. \A p \in Counted : Added(h, k)[p] = 0
  <2> SUFFICES ASSUME NEW p \in Counted PROVE Added(h, k)[p] = 0
    OBVIOUS
  <2>1. AddedTo(h, p) => KeyIn(p, h) # k
    BY DEF Rows
  <2>2. KeyIn(p, h) # k => Share(p, h, k) = 0
    BY DEF Share
  <2> QED
    BY <2>1, <2>2, AddedIs
<1>2. Sum(Added(h, k), Counted) = 0
  BY <1>1, CountedFinite, SumOfZeros
<1> QED
  BY <1>2, AddedIs

LEMMA RowsStep ==
  ASSUME LogReady, TypeOK', NEW w \in Workers, worker(w), NEW h \in Tables,
         Rows(h), IsFiniteSet(Nodes(h))
  PROVE  Rows(h)' /\ IsFiniteSet(Nodes(h)')
<1> DEFINE k == key(w, h)
           new == [key |-> k, value |-> (IF pc[w] = "store" THEN node(w).value ELSE 0)
                                        + val(w, h)]
           S(x) == SumFunction(Added(h, x))
<1>0. TypeOK /\ OneNodePerKey
  BY DEF LogReady, LogInv
<1>1. \A n \in Nodes(h) : n.key \in Keys /\ n.value \in Int
  BY <1>0, NodesAre DEF Node
<1>2. \A x \in Keys : S(x)' = S(x) + (IF Adds(w, h) /\ k = x THEN val(w, h) ELSE 0)
  BY SumStep
<1>3. \A x \in Keys : S(x) \in Int
  BY AddedIs
<1>4. \A p \in Counted : /\ AddedTo(h, p)' <=> AddedTo(h, p) \/ (p = at(w) /\ Adds(w, h))
                         /\ KeyIn(p, h)' = KeyIn(p, h)
  BY AddedStep DEF KeyIn, At
<1>5. Counted' = Counted
  BY DEF Counted
<1>6. Adds(w, h) => at(w) \in Counted /\ KeyIn(at(w), h) = k
  <2>1. Adds(w, h) => pc[w] \in Working \ {"line"}
    BY DEF Adds, Working, InTable
  <2> QED
    BY <2>1, AtCounts DEF LogReady, LogInv
<1> DEFINE N == Nodes(h)
           M == Nodes(h)'
           RowsNext == /\ \A n \in M : n.value = S(n.key)'
                       /\ \A n \in M : \E p \in Counted : AddedTo(h, p)' /\ KeyIn(p, h) = n.key
                       /\ \A p \in Counted : AddedTo(h, p)' /\ KeyIn(p, h) \in Keys =>
                            \E n \in M : n.key = KeyIn(p, h)
<1>7. SUFFICES RowsNext /\ IsFiniteSet(M)
  BY <1>4, <1>5 DEF Rows
<1>8. CASE ~(ht[w] = h /\ pc[w] \in {"store", "link"})
  <2>1. M = N
    BY <1>8, NodesStep
  <2>2. Adds(w, h) => k \notin Keys
    BY <1>8, KeysAssumption DEF Adds
  <2>3. \A x \in Keys : S(x)' = S(x)
    <3> HIDE DEF k, S
    <3> QED
      BY <1>2, <1>3, <2>2
  <2>4. \A p \in Counted : KeyIn(p, h) \in Keys => (AddedTo(h, p)' <=> AddedTo(h, p))
    BY <1>4, <1>6, <2>2
  <2> HIDE DEF k, new, M, S
  <2>5. \A n \in M : n.value = S(n.key)'
    <3>1. \A n \in N : n.value = S(n.key)
      BY DEF Rows, S
    <3> QED
      BY <1>1, <2>1, <2>3, <3>1
  <2> QED
    BY <1>1, <2>1, <2>4, <2>5 DEF Rows
<1>9. CASE ht[w] = h /\ pc[w] \in {"store", "link"}
  <2>1. new \in Node /\ k \in Keys /\ Adds(w, h)
    BY <1>9, NodesStep DEF Adds
  <2>2. new.key = k /\ new.value \in Int /\ val(w, h) \in Int
    <3>1. val(w, h) \in Int
      BY <1>9, LineTypes DEF LogReady, LogInv, Working, InTable
    <3> QED
      BY <2>1, <3>1 DEF Node
  <2>3. /\ new \in M /\ \A n \in M : n = new \/ (n \in N /\ n.key # k)
        /\ \A n \in N : n.key # k => n \in M
        /\ new.value = S(k) + val(w, h)
        /\ IsFiniteSet(M)
    <3>1. CASE pc[w] = "store"
      <4>1. /\ node(w) \in N /\ node(w).key = k
            /\ M = (N \ {node(w)}) \cup {new}
        BY <1>9, <3>1, NodesStep
      <4>2. \A n \in N : n.key = k <=> n = node(w)
        BY <1>0, <4>1, NodeOfKey
      <4>3. new.value = node(w).value + val(w, h)
        BY <3>1
      <4>4. node(w).value = S(k)
        BY <4>1 DEF Rows
      <4> HIDE DEF new, k, S, M
      <4>5. IsFiniteSet(M)
        BY <4>1, FS_RemoveElement, FS_AddElement
      <4> QED
        BY <4>1, <4>2, <4>3, <4>4, <4>5
    <3>2. CASE pc[w] = "link"
      <4>1. (\A n \in N : n.key # k) /\ M = N \cup {new}
        BY <1>9, <3>2, NodesStep
      <4>2. S(k) = 0
        BY <2>1, <4>1, NoRow
      <4>3. new.value = 0 + val(w, h)
        BY <3>2
      <4> HIDE DEF new, k, S, M
      <4>4. IsFiniteSet(M)
        BY <4>1, FS_AddElement
      <4> QED
        BY <4>1, <4>2, <4>3, <4>4
    <3> QED
      BY <1>9, <3>1, <3>2
  <2>4. \A n \in N : /\ n.value = S(n.key)
                     /\ \E p \in Counted : AddedTo(h, p) /\ KeyIn(p, h) = n.key
    BY DEF Rows
  <2>5. \A p \in Counted : AddedTo(h, p) /\ KeyIn(p, h) \in Keys =>
                             \E n \in N : n.key = KeyIn(p, h)
    BY DEF Rows
  <2> HIDE DEF new, k, S, M
  <2>6. \A n \in M : n.value = S(n.key)'
    BY <1>1, <1>2, <1>3, <2>1, <2>2, <2>3, <2>4
  <2>7. \A n \in M : \E p \in Counted : AddedTo(h, p)' /\ KeyIn(p, h) = n.key
    BY <1>4, <1>6, <2>1, <2>2, <2>3, <2>4
  <2>8. \A p \in Counted : AddedTo(h, p)' /\ KeyIn(p, h) \in Keys =>
                             \E n \in M : n.key = KeyIn(p, h)
    BY <1>4, <1>6, <2>1, <2>2, <2>3, <2>5
  <2> QED
    BY <2>3, <2>6, <2>7, <2>8
<1> QED
  BY <1>8, <1>9

-----------------------------------------------------------------------------
(* The whole: the report is the sums of every line.                        *)

SumsInv ==
  /\ LogReady
  /\ \A h \in Tables : IsFiniteSet(Nodes(h)) /\ (main # "end" => Rows(h))
  /\ total = SumFunction(Gained)
  /\ ReportIsRight

(* Before any step no line is added.                                       *)
LEMMA SumsInit == Init => SumsInv
<1> SUFFICES ASSUME Init PROVE SumsInv
  OBVIOUS
<1>1. LogInv
  BY LogInit
<1>2. \A w \in Workers : pc[w] = "unborn" /\ line[w] = 1 /\ file[w] = 1 /\ ht[w] = "url"
  BY DEF Init
<1>3. \A w \in Workers : Ready(w)
  BY <1>2 DEF Ready, Working, InTable, InTotal
<1>4. ASSUME NEW p \in Counted
      PROVE  (\A h \in Tables : ~AddedTo(h, p)) /\ ~AddedToTotal(p)
  <2>1. Owner(p) \in Workers /\ Slot(p) \in Nat \ {0} /\ p[2] \in Nat \ {0}
    <3>1. Slot(p) \in 1 .. Len(paths(Owner(p))) /\ Owner(p) \in Workers
      BY OwnerSlot
    <3>2. Len(paths(Owner(p))) \in Nat
      BY <3>1, PathsLength
    <3>3. p[2] \in 1 .. Len(Content[Files[p[1]]]) /\ p[1] \in 1 .. Len(Files)
      BY CountedLine
    <3>4. Len(Content[Files[p[1]]]) \in Nat
      BY <3>3, ContentAssumption
    <3> QED
      BY <3>1, <3>2, <3>3, <3>4
  <2> QED
    BY <1>2, <2>1 DEF AddedTo, AddedToTotal, Before, Current
<1>5. ASSUME NEW h \in Tables PROVE Nodes(h) = {}
  <2>1. \A b \in Buckets : table[h][b] = << >>
    BY DEF Init, Buckets
  <2>2. \A b \in Buckets : 1 .. Len(table[h][b]) = {}
    BY <2>1
  <2> QED
    BY <1>1, <2>2, NodesAre DEF LogInv
<1>6. \A h \in Tables : IsFiniteSet(Nodes(h)) /\ Rows(h)
  BY <1>4, <1>5, FS_EmptySet DEF Rows
<1>7. SumFunction(Gained) = 0
  <2>1. \A p \in Counted : Gained[p] = 0
    BY <1>4, GainedIs
  <2> QED
    BY <2>1, CountedFinite, SumOfZeros, GainedIs
<1>8. ReportIsRight
  BY DEF Init, ReportIsRight, NoWorkerLeft
<1> QED
  BY <1>1, <1>3, <1>6, <1>7, <1>8 DEF Init, LogReady, SumsInv

(* What is right of a report stays right.                                  *)
LEMMA ReportStays ==
  ASSUME ReportIsRight, report' = report, NoWorkerLeft'
  PROVE  ReportIsRight'
<1>1. \A h, shown : Right(h, shown)' <=> Right(h, shown)
  BY DEF Right, Expected, Occurring, Counted, KeyIn, Share, At
<1>2. ExpectedTotal' = ExpectedTotal
  BY DEF ExpectedTotal, Counted, Gain, At
<1> QED
  BY <1>1, <1>2 DEF ReportIsRight

LEMMA SumsWorker ==
  ASSUME SumsInv, LogInv', NEW w \in Workers, worker(w)
  PROVE  SumsInv'
<1> USE DEF SumsInv
<1>1. main' = main /\ report' = report
  BY WorkerOnly DEF LogReady, LogInv, mainVars
<1>2. LogReady'
  BY ReadyOwn, ReadyOthers DEF LogReady
<1>3. TypeOK /\ TypeOK'
  BY DEF LogReady, LogInv
<1>4. ASSUME NEW h \in Tables
      PROVE  IsFiniteSet(Nodes(h))' /\ (main' # "end" => Rows(h)')
  <2>1. CASE main # "end"
    BY <1>1, <1>3, <2>1, RowsStep
  <2>2. CASE main = "end"
    <3>1. \A v \in Workers : pc[v] = IF Files = << >> THEN "unborn" ELSE "done"
      BY <2>2 DEF LogReady, LogInv, Finished
    <3>2. pc[w] \notin {"unborn", "done"}
      BY <1>3, WorkerOnly
    <3> QED
      BY <3>1, <3>2
  <2> QED
    BY <2>1, <2>2
<1>5. total' = SumFunction(Gained)'
  <2>1. CASE pc[w] = "addTotal"
    <3>1. AddTotal(w)
      BY <2>1 DEF worker, add_stat, OpenFile, ReadLine, Skip, LockTable, Walk, Store,
                  NewNode, Link, UnlockTable, NoBytes, LoadTotal, AddTotal, UnlockTotal, Goto
    <3>2. total' = total + CurrentLine(w).bytes
      BY <2>1, <3>1 DEF AddTotal, LogReady, Ready
    <3> QED
      BY <2>1, <3>2, GainedStep
  <2>2. CASE pc[w] # "addTotal"
    <3>1. ~AddTotal(w)
      BY <2>2 DEF AddTotal, Goto
    <3>2. total' = total
      BY <3>1 DEF worker, add_stat, OpenFile, ReadLine, Skip, LockTable, Walk, Store, NewNode,
                  Link, UnlockTable, NoBytes, LoadTotal, UnlockTotal, shared
    <3>3. SumFunction(Gained)' = SumFunction(Gained) + 0
      BY <2>2, GainedStep
    <3>4. SumFunction(Gained) \in Int
      BY GainedIs
    <3> QED
      BY <3>2, <3>3, <3>4
  <2> QED
    BY <2>1, <2>2
<1>6. ReportIsRight'
  <2>1. NoWorkerLeft'
    BY NoneLeft, PTL
  <2> QED
    BY <1>1, <2>1, ReportStays
<1> QED
  BY <1>2, <1>4, <1>5, <1>6

(* When every worker is done, every counted line is added.                 *)
LEMMA AllAdded ==
  ASSUME LogReady, main \notin {"create", "join"}, NEW p \in Counted
  PROVE  (\A h \in Tables : AddedTo(h, p)) /\ AddedToTotal(p)
<1> DEFINE w == Owner(p)
<1>1. w \in Workers /\ Slot(p) \in 1 .. Len(paths(w)) /\ Len(paths(w)) \in Nat
  BY OwnerSlot, PathsLength
<1>2. Files # << >>
  <2>1. p[1] \in 1 .. Len(Files)
    BY CountedLine
  <2> QED
    BY <2>1
<1>3. pc[w] = "done"
  BY <1>1, <1>2 DEF LogReady, LogInv, Finished
<1>4. file[w] > Len(paths(w)) /\ file[w] \in Nat
  BY <1>1, <1>3 DEF LogReady, LogInv, TypeOK, Ready
<1>5. Before(p)
  BY <1>1, <1>4 DEF Before
<1> QED
  BY <1>5 DEF AddedTo, AddedToTotal

(* print_top shows the right entries.                                      *)
LEMMA TopRight ==
  ASSUME SumsInv, main = "print", NEW h \in Tables, NEW shown, print_top(h, shown)
  PROVE  Right(h, shown)
<1> USE DEF SumsInv
<1>0. TypeOK /\ OneNodePerKey /\ Rows(h) /\ IsFiniteSet(Nodes(h))
  BY DEF LogReady, LogInv
<1>1. \A p \in Counted : AddedTo(h, p)
  BY AllAdded
<1>2. \A k : Added(h, k) = [p \in Counted |-> Share(p, h, k)]
  BY <1>1 DEF Added
<1>3. \A k : SumFunction(Added(h, k)) = Expected(h, k)
  BY <1>2 DEF Expected
<1>4. \A n \in Nodes(h) : n.value = Expected(h, n.key) /\ n.key \in Keys
  BY <1>0, <1>3, NodesAre DEF Rows, Node
<1>5. \A n \in Nodes(h) : n.key \in Occurring(h)
  BY <1>0, <1>4 DEF Rows, Occurring
<1>6. \A k \in Occurring(h) : \E n \in Nodes(h) : n.key = k
  BY <1>0, <1>1 DEF Rows, Occurring
<1>7. shown \subseteq Nodes(h)
  BY DEF print_top
<1>8. \A n \in shown, k \in Occurring(h) \ {m.key : m \in shown} : Expected(h, k) <= n.value
  <2> SUFFICES ASSUME NEW n \in shown, NEW k \in Occurring(h) \ {m.key : m \in shown}
               PROVE  Expected(h, k) <= n.value
    OBVIOUS
  <2>1. PICK m \in Nodes(h) : m.key = k
    BY <1>6
  <2>2. m \notin shown /\ m.value = Expected(h, k)
    BY <1>4, <2>1
  <2>3. n.value >= m.value
    BY <2>1, <2>2 DEF print_top
  <2>4. n.value \in Int /\ m.value \in Int
    BY <1>0, <1>7, <2>1, NodesAre DEF Node
  <2> QED
    BY <2>2, <2>3, <2>4
<1>9. Cardinality(Occurring(h)) = Cardinality(Nodes(h))
  <2> DEFINE g == [n \in Nodes(h) |-> n.key]
  <2>1. \A m, n \in Nodes(h) : m.key = n.key => m = n
    BY <1>0, NodeOfKey
  <2>a. g \in [Nodes(h) -> Occurring(h)] /\ \A n \in Nodes(h) : g[n] = n.key
    BY <1>5
  <2> HIDE DEF g
  <2>b. \A m, n \in Nodes(h) : g[m] = g[n] => m = n
    BY <2>1, <2>a
  <2>c. \A k \in Occurring(h) : \E n \in Nodes(h) : g[n] = k
    BY <1>6, <2>a
  <2>2. g \in Bijection(Nodes(h), Occurring(h))
    BY <2>a, <2>b, <2>c DEF Bijection, Injection, Surjection, IsInjective
  <2>3. ExistsBijection(Nodes(h), Occurring(h))
    BY <2>2 DEF ExistsBijection
  <2> QED
    BY <1>0, <2>3, FS_Bijection
<1>10. Cardinality(shown) = SmallestOf(TopN, Cardinality(Occurring(h)))
  BY <1>9 DEF print_top
<1> QED
  BY <1>4, <1>7, <1>8, <1>10 DEF Right

LEMMA SumsPrint ==
  ASSUME SumsInv, PrintReport, NoWorkerLeft'
  PROVE  ReportIsRight'
<1> USE DEF SumsInv
<1>1. PICK urls \in SUBSET Nodes("url"), refs \in SUBSET Nodes("ref") :
        /\ print_top("url", urls) /\ print_top("ref", refs)
        /\ report' = <<total, urls, refs>>
  BY DEF PrintReport
<1>2. main = "print" /\ "url" \in Tables /\ "ref" \in Tables
  BY DEF PrintReport, Tables
<1>3. Right("url", urls) /\ Right("ref", refs)
  BY <1>1, <1>2, TopRight
<1>4. total = ExpectedTotal
  <2>1. \A p \in Counted : AddedToTotal(p)
    BY <1>2, AllAdded
  <2>2. Gained = [p \in Counted |-> Gain(p)]
    BY <2>1 DEF Gained
  <2> QED
    BY <2>2 DEF ExpectedTotal
<1>5. report'[1] = total /\ report'[2] = urls /\ report'[3] = refs
  BY <1>1
<1>6. \A h, shown : Right(h, shown)' <=> Right(h, shown)
  BY DEF Right, Expected, Occurring, Counted, KeyIn, Share, At
<1>7. ExpectedTotal' = ExpectedTotal
  BY DEF ExpectedTotal, Counted, Gain, At
<1> QED
  BY <1>3, <1>4, <1>5, <1>6, <1>7 DEF ReportIsRight

(* main adds no line, and frees the tables after it has printed them.      *)
LEMMA SumsMain ==
  ASSUME SumsInv, LogInv', Create \/ Join \/ PrintReport \/ Free \/ UNCHANGED vars
  PROVE  SumsInv'
<1> USE DEF SumsInv
<1>1. /\ UNCHANGED <<total, file, line, ht, curr, tmp>>
      /\ \A w \in Workers : pc'[w] = pc[w] \/ (pc[w] = "unborn" /\ pc'[w] = "open")
  BY DEF Create, Join, PrintReport, Free, vars, shared, locals, Goto, LogReady, LogInv, TypeOK
<1>2. \/ UNCHANGED table /\ (main = "end" => main' = "end")
      \/ Free
  BY DEF Create, Join, PrintReport, Free, vars, shared, mainVars
<1>3. LogReady'
  <2>1. ASSUME NEW w \in Workers PROVE Ready(w)'
    <3>1. paths(w)' = paths(w) /\ CurrentLine(w)' = CurrentLine(w)
      BY <1>1, LineStays
    <3>2. Ready(w)
      BY DEF LogReady
    <3>3. CASE pc'[w] = pc[w] /\ pc[w] # "store"
      BY <1>1, <3>1, <3>2, <3>3 DEF Ready
    <3>4. CASE pc[w] = "unborn" /\ pc'[w] = "open"
      BY <1>1, <3>2, <3>4 DEF Ready, Working, InTable, InTotal
    <3>5. CASE pc'[w] = pc[w] /\ pc[w] = "store"
      <4>1. ~Free
        BY <3>5 DEF Free, LogReady, LogInv, Finished
      <4>2. table' = table
        BY <1>2, <4>1
      <4>3. key(w, ht[w])' = key(w, ht[w])
        BY <1>1, LineStays
      <4>4. node(w)' = node(w)
        BY <1>1, <4>2, <4>3 DEF node, chain
      <4> QED
        BY <1>1, <3>1, <3>2, <3>5, <4>4 DEF Ready, Working, InTable, InTotal
    <3> QED
      BY <1>1, <3>3, <3>4, <3>5
  <2> QED
    BY <2>1 DEF LogReady
<1>4. ASSUME NEW p \in Counted
      PROVE  /\ \A h \in Tables : AddedTo(h, p)' <=> AddedTo(h, p)
             /\ AddedToTotal(p)' <=> AddedToTotal(p)
  <2>1. Owner(p) \in Workers
    BY OwnerSlot
  <2> QED
    BY <1>1, <2>1 DEF AddedTo, AddedToTotal, Before, Current, Owner, Slot
<1>5. total' = SumFunction(Gained)'
  <2>1. Gained' = Gained
    BY <1>4 DEF Gained, Counted, Gain, At
  <2>2. SumFunction(Gained)' = SumFunction(Gained)
    BY <2>1 DEF SumFunction, SumFunctionOnSet, FoldFunctionOnSet, MapThenFoldSet
  <2> QED
    BY <1>1, <2>2
<1>6. ASSUME NEW h \in Tables
      PROVE  IsFiniteSet(Nodes(h))' /\ (main' # "end" => Rows(h)')
  <2>1. CASE UNCHANGED table /\ (main = "end" => main' = "end")
    <3>1. Nodes(h)' = Nodes(h)
      BY <2>1 DEF Nodes
    <3>2. \A k : Added(h, k)' = Added(h, k)
      BY <1>4 DEF Added, Counted, Share, KeyIn, At
    <3>3. ASSUME NEW k PROVE SumFunction(Added(h, k))' = SumFunction(Added(h, k))
      <4>1. SumFunction(Added(h, k))' = SumFunction(Added(h, k)')
        BY DEF SumFunction, SumFunctionOnSet, FoldFunctionOnSet, MapThenFoldSet
      <4> QED
        BY <3>2, <4>1
    <3>4. /\ \A p \in Counted : KeyIn(p, h)' = KeyIn(p, h)
          /\ Counted' = Counted
      BY DEF KeyIn, At, Counted
    <3>5. Rows(h) => Rows(h)'
      BY <1>4, <3>1, <3>3, <3>4 DEF Rows
    <3> QED
      BY <2>1, <3>1, <3>5
  <2>2. CASE Free
    <3>1. main' = "end"
      BY <2>2 DEF Free
    <3>2. Nodes(h)' = {}
      BY <2>2 DEF Free, Nodes
    <3> QED
      BY <3>1, <3>2, FS_EmptySet
  <2> QED
    BY <1>2, <2>1, <2>2
<1>7. ReportIsRight'
  <2>1. NoWorkerLeft'
    BY NoneLeft, PTL
  <2>2. CASE PrintReport
    BY <2>1, <2>2, SumsPrint
  <2>3. CASE report' = report
    BY <2>1, <2>3, ReportStays
  <2> QED
    BY <2>2, <2>3 DEF Create, Join, Free, vars, mainVars
<1> QED
  BY <1>3, <1>5, <1>6, <1>7

LEMMA SumsStep == SumsInv /\ [Next]_vars => SumsInv'
<1> SUFFICES ASSUME SumsInv, [Next]_vars PROVE SumsInv'
  OBVIOUS
<1>1. LogInv'
  BY LogStep DEF SumsInv, LogReady
<1>2. CASE Create \/ Join \/ PrintReport \/ Free \/ Exited \/ UNCHANGED vars
  BY <1>1, <1>2, SumsMain DEF Exited
<1>3. ASSUME NEW w \in Workers, worker(w) PROVE SumsInv'
  BY <1>1, <1>3, SumsWorker
<1> QED
  BY <1>2, <1>3 DEF Next

(* At every instant, for any number of workers and any interleaving, each  *)
(* table holds under each key exactly the shares of the lines added to it, *)
(* and global_total_bytes their bytes (add_stat and the end of             *)
(* parse_combined): no update is lost or made twice.                       *)
THEOREM LinesCounted == Spec => []LinesAccountedFor
<1>1. SumsInv => LinesAccountedFor
  <2> SUFFICES ASSUME SumsInv, main # "end", NEW h \in Tables, NEW k \in Keys
               PROVE  Value(h, k) = SumFunction(Added(h, k))
    BY DEF LinesAccountedFor, SumsInv
  <2> DEFINE f == [n \in Nodes(h) |-> IF n.key = k THEN n.value ELSE 0]
  <2>1. Value(h, k) = Sum(f, Nodes(h))
    <3>1. DOMAIN f = Nodes(h)
      OBVIOUS
    <3> HIDE DEF f
    <3>2. SumFunction(f) = Sum(f, Nodes(h))
      BY <3>1, SumWhole
    <3> QED
      BY <3>2 DEF Value, f
  <2>2. TypeOK /\ OneNodePerKey /\ Rows(h) /\ IsFiniteSet(Nodes(h))
    BY DEF SumsInv, LogReady, LogInv
  <2>3. ASSUME NEW m \in Nodes(h), m.key = k
        PROVE  Value(h, k) = SumFunction(Added(h, k))
    <3>1. m.value \in Int /\ m.value = SumFunction(Added(h, k))
      BY <2>2, <2>3, NodesAre DEF Rows, Node
    <3>2. \A n \in Nodes(h) \ {m} : n.key # k
      BY <2>2, <2>3, NodeOfKey
    <3>3. f[m] = m.value /\ \A n \in Nodes(h) \ {m} : f[n] = 0
      BY <2>3, <3>2
    <3> HIDE DEF f
    <3>4. Sum(f, Nodes(h)) = f[m]
      BY <2>2, <3>1, <3>3, SumOfOne
    <3> QED
      BY <2>1, <3>1, <3>3, <3>4
  <2>4. ASSUME \A n \in Nodes(h) : n.key # k
        PROVE  Value(h, k) = SumFunction(Added(h, k))
    <3>1. \A n \in Nodes(h) : f[n] = 0
      BY <2>4
    <3> HIDE DEF f
    <3>2. Sum(f, Nodes(h)) = 0
      BY <2>2, <3>1, SumOfZeros
    <3> QED
      BY <2>1, <2>2, <2>4, <3>2, NoRow
  <2> QED
    BY <2>3, <2>4
<1> QED
  BY SumsInit, SumsStep, <1>1, PTL DEF Spec

(* What main prints is right, for any number of workers and any directory: *)
(* the total of all lines, and the TopN keys with their exact sums, none   *)
(* of the keys left out being larger (main and print_top).                 *)
THEOREM ReportRight == Spec => []ReportIsRight
<1>1. SumsInv => ReportIsRight
  BY DEF SumsInv
<1> QED
  BY SumsInit, SumsStep, <1>1, PTL DEF Spec
=============================================================================
