-------------------------- MODULE HttpServerProofs --------------------------
(***************************************************************************)
(* Machine-checked proofs about HttpServer, for any number of clients and  *)
(* descriptors, any batch size, any socket buffer and bodies of any size:  *)
(* no arrival is forgotten, and replies are right.                         *)
(***************************************************************************)
EXTENDS HttpServer, TLAPS

Listenable == Fds \cup {Listen}
Pieces == {"200", "403", "404"} \cup 1 .. Size
Busy == {"answer", "body", "close"}

TypeOK ==
  /\ backlog \in Seq(Clients)
  /\ owner \in [Fds -> Clients \cup {None}]
  /\ ready \in Seq(Listenable) /\ events \in Seq(Listenable)
  /\ pc \in Busy \cup {"wait", "dispatch", "killed"}
  /\ link \in [Clients -> {"off", "queued", "open", "shut"}]
  /\ want \in [Clients -> Kinds \cup {None}] /\ asked \in [Clients -> Kinds \cup {None}]
  /\ sent \in [Clients -> Nat] /\ unread \in [Clients -> Nat]
  /\ gone \subseteq Clients

(* No entry twice in one list.                                             *)
Once(s) == \A i, j \in DOMAIN s : s[i] = s[j] => i = j

(* Who waits for accept() waits there once.                                *)
QueueInv == Once(backlog) /\ \A i \in DOMAIN backlog : link[backlog[i]] = "queued"

(* A descriptor belongs to one open connection, and each of them has one.  *)
OwnerInv ==
  /\ \A f \in Fds : owner[f] # None => link[owner[f]] = "open"
  /\ \A f, g \in Fds : owner[f] # None /\ owner[f] = owner[g] => f = g
  /\ \A c \in Clients : link[c] = "open" => \E f \in Fds : owner[f] = c

(* epoll's list and the batch hold open descriptors, each once.            *)
ListInv ==
  /\ Once(ready) /\ Once(events)
  /\ \A f \in Fds : f \in Range(ready) \cup Range(events) => owner[f] # None
  /\ pc = "wait" => events = << >>
  /\ pc \in Busy => events # << >> /\ Head(events) # Listen

ServerInv == TypeOK /\ QueueInv /\ OwnerInv /\ ListInv /\ NoForgottenClient

-----------------------------------------------------------------------------
(* Lists.                                                                  *)

LEMMA RangeIs ==
  ASSUME NEW S, NEW s \in Seq(S)
  PROVE  /\ Range(s) = {s[i] : i \in 1 .. Len(s)} /\ Range(s) \subseteq S
         /\ DOMAIN s = 1 .. Len(s) /\ Len(s) \in Nat
  BY DEF Range

LEMMA ConcatFacts ==
  ASSUME NEW S, NEW a \in Seq(S), NEW b \in Seq(S)
  PROVE  /\ a \o b \in Seq(S) /\ Len(a \o b) = Len(a) + Len(b)
         /\ Len(a) \in Nat /\ Len(b) \in Nat
         /\ \A i \in 1 .. Len(a) + Len(b) :
              (a \o b)[i] = IF i <= Len(a) THEN a[i] ELSE b[i - Len(a)]
  OBVIOUS

LEMMA AppendFacts ==
  ASSUME NEW S, NEW s \in Seq(S), NEW x \in S
  PROVE  /\ Append(s, x) \in Seq(S) /\ Range(Append(s, x)) = Range(s) \cup {x}
         /\ Once(s) /\ x \notin Range(s) => Once(Append(s, x))
<1> DEFINE t == Append(s, x)
<1>1. t \in Seq(S) /\ Len(t) = Len(s) + 1 /\ t[Len(s) + 1] = x
      /\ Len(s) \in Nat /\ \A i \in 1 .. Len(s) : t[i] = s[i]
  OBVIOUS
<1>2. \A i \in 1 .. Len(t) : i \in 1 .. Len(s) \/ i = Len(s) + 1
  BY <1>1
<1>3. 1 .. Len(s) \subseteq 1 .. Len(t) /\ Len(s) + 1 \in 1 .. Len(t)
  BY <1>1
<1>4. Range(s) = {s[i] : i \in 1 .. Len(s)} /\ Range(t) = {t[i] : i \in 1 .. Len(t)}
      /\ DOMAIN s = 1 .. Len(s) /\ DOMAIN t = 1 .. Len(t)
  BY <1>1, RangeIs
<1> HIDE DEF t
<1>5. Range(t) = Range(s) \cup {x}
  BY <1>1, <1>2, <1>3, <1>4
<1>6. Once(s) /\ x \notin Range(s) => Once(t)
  BY <1>1, <1>2, <1>4 DEF Once
<1> QED
  BY <1>1, <1>5, <1>6 DEF t

LEMMA ListedFacts ==
  ASSUME NEW S, NEW s \in Seq(S), NEW x \in S
  PROVE  /\ Listed(s, x) \in Seq(S) /\ Range(Listed(s, x)) = Range(s) \cup {x}
         /\ Once(s) => Once(Listed(s, x))
  BY AppendFacts DEF Listed

(* A list made of entries of another one, each taken once.                 *)
LEMMA Picked ==
  ASSUME NEW S, NEW s \in Seq(S), NEW t \in Seq(S),
         NEW from \in [1 .. Len(t) -> 1 .. Len(s)],
         \A i \in 1 .. Len(t) : t[i] = s[from[i]],
         \A i, j \in 1 .. Len(t) : from[i] = from[j] => i = j
  PROVE  Range(t) \subseteq Range(s) /\ (Once(s) => Once(t))
<1>1. /\ Range(s) = {s[i] : i \in 1 .. Len(s)} /\ Range(t) = {t[i] : i \in 1 .. Len(t)}
      /\ DOMAIN s = 1 .. Len(s) /\ DOMAIN t = 1 .. Len(t)
  BY RangeIs
<1>2. Range(t) \subseteq Range(s)
  BY <1>1
<1>3. Once(s) => Once(t)
  BY <1>1 DEF Once
<1> QED
  BY <1>2, <1>3

LEMMA TailFacts ==
  ASSUME NEW S, NEW s \in Seq(S), s # << >>
  PROVE  /\ Tail(s) \in Seq(S) /\ Head(s) \in S /\ Head(s) \in Range(s)
         /\ Range(s) \subseteq Range(Tail(s)) \cup {Head(s)}
         /\ Range(Tail(s)) \subseteq Range(s)
         /\ Once(s) => Once(Tail(s)) /\ Head(s) \notin Range(Tail(s))
<1> DEFINE t == Tail(s)
           from == [i \in 1 .. Len(t) |-> i + 1]
<1>1. t \in Seq(S) /\ Len(s) \in Nat \ {0} /\ Len(t) = Len(s) - 1 /\ Head(s) = s[1]
      /\ \A i \in 1 .. Len(t) : t[i] = s[i + 1]
  OBVIOUS
<1> HIDE DEF t
<1>2. /\ from \in [1 .. Len(t) -> 1 .. Len(s)]
      /\ \A i \in 1 .. Len(t) : t[i] = s[from[i]]
      /\ \A i \in 1 .. Len(t) : from[i] # 1
      /\ \A i, j \in 1 .. Len(t) : from[i] = from[j] => i = j
  BY <1>1
<1> HIDE DEF from
<1>3. /\ Range(s) = {s[i] : i \in 1 .. Len(s)} /\ Range(t) = {t[i] : i \in 1 .. Len(t)}
      /\ DOMAIN s = 1 .. Len(s) /\ DOMAIN t = 1 .. Len(t)
  BY <1>1, RangeIs
<1>4. Head(s) \in Range(s) /\ Head(s) \in S
  BY <1>1, <1>3
<1>5. Range(t) \subseteq Range(s) /\ (Once(s) => Once(t))
  BY <1>1, <1>2, Picked
<1>6. Range(s) \subseteq Range(t) \cup {Head(s)}
  <2>1. ASSUME NEW i \in 1 .. Len(s), i # 1 PROVE s[i] \in Range(t)
    <3>1. i - 1 \in 1 .. Len(t) /\ (i - 1) + 1 = i
      BY <1>1, <2>1
    <3>2. t[i - 1] = s[i]
      BY <1>1, <3>1
    <3> QED
      BY <1>3, <3>1, <3>2
  <2> QED
    BY <1>1, <1>3, <2>1
<1>7. Once(s) => Head(s) \notin Range(t)
  <2>1. ASSUME Once(s), NEW i \in 1 .. Len(t) PROVE t[i] # s[1]
    <3>1. from[i] \in 1 .. Len(s) /\ from[i] # 1 /\ t[i] = s[from[i]]
      BY <1>2
    <3>2. 1 \in 1 .. Len(s)
      BY <1>1
    <3> QED
      BY <1>3, <2>1, <3>1, <3>2 DEF Once
  <2> QED
    BY <1>1, <1>3, <2>1
<1> QED
  BY <1>1, <1>4, <1>5, <1>6, <1>7 DEF t

(* A list is cut in two.                                                   *)
LEMMA CutFacts ==
  ASSUME NEW S, NEW s \in Seq(S), NEW n \in 0 .. Len(s)
  PROVE  LET a == SubSeq(s, 1, n)
             b == SubSeq(s, n + 1, Len(s))
         IN  /\ a \in Seq(S) /\ b \in Seq(S) /\ Range(s) = Range(a) \cup Range(b)
             /\ Once(s) => Once(a) /\ Once(b) /\ Range(a) \cap Range(b) = {}
<1> DEFINE a == SubSeq(s, 1, n)
           b == SubSeq(s, n + 1, Len(s))
           fromA == [i \in 1 .. n |-> i]
           fromB == [i \in 1 .. Len(s) - n |-> i + n]
<1>0. Len(s) \in Nat /\ n \in Nat /\ n <= Len(s)
  OBVIOUS
<1>1. a \in Seq(S) /\ Len(a) = n /\ \A i \in 1 .. n : a[i] = s[i]
  BY <1>0
<1>2. b \in Seq(S) /\ Len(b) = Len(s) - n /\ \A i \in 1 .. Len(s) - n : b[i] = s[i + n]
  BY <1>0
<1> HIDE DEF a, b
<1>3. /\ fromA \in [1 .. Len(a) -> 1 .. Len(s)]
      /\ \A i \in 1 .. Len(a) : a[i] = s[fromA[i]]
      /\ \A i, j \in 1 .. Len(a) : fromA[i] = fromA[j] => i = j
  BY <1>0, <1>1
<1>4. /\ fromB \in [1 .. Len(b) -> 1 .. Len(s)]
      /\ \A i \in 1 .. Len(b) : b[i] = s[fromB[i]]
      /\ \A i, j \in 1 .. Len(b) : fromB[i] = fromB[j] => i = j
  BY <1>0, <1>2
<1>5. \A i \in 1 .. Len(a), j \in 1 .. Len(b) : fromA[i] # fromB[j]
  BY <1>0, <1>1, <1>2
<1> HIDE DEF fromA, fromB
<1>6. /\ Range(s) = {s[i] : i \in 1 .. Len(s)} /\ Range(a) = {a[i] : i \in 1 .. Len(a)}
      /\ Range(b) = {b[i] : i \in 1 .. Len(b)} /\ DOMAIN s = 1 .. Len(s)
  BY <1>1, <1>2, RangeIs
<1>7. Range(a) \subseteq Range(s) /\ (Once(s) => Once(a))
  BY <1>1, <1>3, Picked
<1>8. Range(b) \subseteq Range(s) /\ (Once(s) => Once(b))
  BY <1>2, <1>4, Picked
<1>9. Range(s) \subseteq Range(a) \cup Range(b)
  <2>1. ASSUME NEW i \in 1 .. Len(s) PROVE s[i] \in Range(a) \cup Range(b)
    <3>1. CASE i <= n
      <4>1. i \in 1 .. Len(a) /\ a[i] = s[i]
        BY <1>0, <1>1, <3>1
      <4> QED
        BY <1>6, <4>1
    <3>2. CASE ~(i <= n)
      <4>1. i - n \in 1 .. Len(b) /\ (i - n) + n = i
        BY <1>0, <1>2, <3>2
      <4>2. b[i - n] = s[i]
        BY <1>2, <4>1
      <4> QED
        BY <1>6, <4>1, <4>2
    <3> QED
      BY <3>1, <3>2
  <2> QED
    BY <1>6, <2>1
<1>10. Once(s) => Range(a) \cap Range(b) = {}
  <2>1. ASSUME Once(s), NEW i \in 1 .. Len(a), NEW j \in 1 .. Len(b) PROVE a[i] # b[j]
    <3>1. fromA[i] \in 1 .. Len(s) /\ fromB[j] \in 1 .. Len(s) /\ fromA[i] # fromB[j]
      BY <1>3, <1>4, <1>5
    <3> QED
      BY <1>3, <1>4, <1>6, <2>1, <3>1 DEF Once
  <2> QED
    BY <1>6, <2>1
<1> QED
  BY <1>1, <1>2, <1>7, <1>8, <1>9, <1>10 DEF a, b

(* One entry is taken out of a list.                                       *)
LEMMA UnlistedFacts ==
  ASSUME NEW S, NEW s \in Seq(S), NEW x
  PROVE  /\ Unlisted(s, x) \in Seq(S) /\ Range(Unlisted(s, x)) \subseteq Range(s)
         /\ Range(s) \subseteq Range(Unlisted(s, x)) \cup {x}
         /\ Once(s) => Once(Unlisted(s, x)) /\ x \notin Range(Unlisted(s, x))
<1>1. CASE x \notin Range(s)
  BY <1>1 DEF Unlisted
<1>2. CASE x \in Range(s)
  <2> DEFINE k == CHOOSE i \in DOMAIN s : s[i] = x
             a == SubSeq(s, 1, k - 1)
             b == SubSeq(s, k + 1, Len(s))
             t == a \o b
             from == [i \in 1 .. Len(s) - 1 |-> IF i < k THEN i ELSE i + 1]
  <2>1. k \in 1 .. Len(s) /\ s[k] = x /\ Len(s) \in Nat
    BY <1>2, RangeIs DEF Range
  <2>2. Unlisted(s, x) = t
    BY <1>2 DEF Unlisted, RemoveAt
  <2> HIDE DEF k
  <2>3. a \in Seq(S) /\ Len(a) = k - 1 /\ \A i \in 1 .. k - 1 : a[i] = s[i]
    BY <2>1
  <2>4. b \in Seq(S) /\ Len(b) = Len(s) - k /\ \A i \in 1 .. Len(s) - k : b[i] = s[i + k]
    BY <2>1
  <2> HIDE DEF a, b
  <2>5. /\ t \in Seq(S) /\ Len(t) = Len(s) - 1
        /\ \A i \in 1 .. Len(t) : t[i] = IF i <= Len(a) THEN a[i] ELSE b[i - Len(a)]
    <3>1. t \in Seq(S) /\ Len(t) = Len(a) + Len(b)
          /\ \A i \in 1 .. Len(a) + Len(b) :
               t[i] = IF i <= Len(a) THEN a[i] ELSE b[i - Len(a)]
      BY <2>3, <2>4, ConcatFacts
    <3> HIDE DEF t
    <3>2. Len(a) + Len(b) = Len(s) - 1
      BY <2>1, <2>3, <2>4
    <3> QED
      BY <3>1, <3>2
  <2> HIDE DEF t
  <2>6. ASSUME NEW i \in 1 .. Len(t) PROVE t[i] = s[from[i]]
    <3>1. CASE i < k
      BY <2>1, <2>3, <2>5, <3>1
    <3>2. CASE ~(i < k)
      <4>1. i - Len(a) \in 1 .. Len(s) - k /\ (i - Len(a)) + k = i + 1 /\ ~(i <= Len(a))
        BY <2>1, <2>3, <2>5, <3>2
      <4>2. t[i] = b[i - Len(a)] /\ b[i - Len(a)] = s[i + 1]
        BY <2>4, <2>5, <4>1
      <4> QED
        BY <2>5, <3>2, <4>2
    <3> QED
      BY <3>1, <3>2
  <2>7. /\ from \in [1 .. Len(t) -> 1 .. Len(s)]
        /\ \A i \in 1 .. Len(t) : from[i] # k
        /\ \A i, j \in 1 .. Len(t) : from[i] = from[j] => i = j
    BY <2>1, <2>5
  <2>8. ASSUME NEW i \in 1 .. Len(s), i # k
        PROVE  \E j \in 1 .. Len(t) : from[j] = i
    <3>1. CASE i < k
      <4>1. i \in 1 .. Len(t) /\ from[i] = i
        BY <2>1, <2>5, <3>1
      <4> QED
        BY <4>1
    <3>2. CASE i > k
      <4>1. i - 1 \in 1 .. Len(t) /\ from[i - 1] = i
        BY <2>1, <2>5, <3>2
      <4> QED
        BY <4>1
    <3>3. i < k \/ i > k
      BY <2>1, <2>8
    <3> QED
      BY <3>1, <3>2, <3>3
  <2> HIDE DEF from
  <2>9. /\ Range(s) = {s[i] : i \in 1 .. Len(s)} /\ Range(t) = {t[i] : i \in 1 .. Len(t)}
        /\ DOMAIN s = 1 .. Len(s)
    BY <2>5, RangeIs
  <2>10. Range(t) \subseteq Range(s) /\ (Once(s) => Once(t))
    BY <2>5, <2>6, <2>7, Picked
  <2>11. Range(s) \subseteq Range(t) \cup {x}
    <3>1. ASSUME NEW i \in 1 .. Len(s), i # k PROVE s[i] \in Range(t)
      <4>1. PICK j \in 1 .. Len(t) : from[j] = i
        BY <2>8, <3>1
      <4> QED
        BY <2>6, <2>9, <4>1
    <3> QED
      BY <2>1, <2>9, <3>1
  <2>12. Once(s) => x \notin Range(t)
    BY <2>1, <2>6, <2>7, <2>9 DEF Once
  <2> QED
    BY <2>2, <2>5, <2>10, <2>11, <2>12
<1> QED
  BY <1>1, <1>2

-----------------------------------------------------------------------------
(* No arrival is forgotten.                                                *)

Arrived(f) == owner[f] # None /\ (unread[owner[f]] > 0 \/ owner[f] \in gone)

LEMMA ForgottenIs ==
  NoForgottenClient <=>
    (pc # "killed" => \A f \in Fds : Arrived(f) => f \in Range(ready) \cup Range(events))
  BY DEF NoForgottenClient, Arrived

(* Whoever is served has an open descriptor.                               *)
LEMMA CurrentIs ==
  ASSUME ServerInv, events # << >>, Head(events) # Listen
  PROVE  /\ Head(events) \in Fds /\ Head(events) \in Range(events)
         /\ Current \in Clients /\ link[Current] = "open"
<1>1. Head(events) \in Listenable /\ Head(events) \in Range(events)
  BY TailFacts DEF ServerInv, TypeOK
<1>2. Head(events) \in Fds
  BY <1>1 DEF Listenable
<1>3. owner[Head(events)] # None
  BY <1>1, <1>2 DEF ServerInv, ListInv
<1> QED
  BY <1>1, <1>2, <1>3 DEF ServerInv, TypeOK, OwnerInv, Current

(* A descriptor put in epoll's list for an open connection is its own.     *)
LEMMA NotifiedFacts ==
  ASSUME ServerInv, NEW c \in Clients
  PROVE  /\ Notified(c) \in Seq(Listenable)
         /\ Once(Notified(c)) /\ Range(ready) \subseteq Range(Notified(c))
         /\ \A f \in Fds : f \in Range(Notified(c)) => f \in Range(ready) \/ owner[f] = c
         /\ \A f \in Fds : owner[f] = c => f \in Range(Notified(c))
<1> USE DEF ServerInv, TypeOK, OwnerInv, ListInv
<1>1. c # None
  BY NamesAssumption
<1>2. CASE link[c] = "open"
  <2> DEFINE g == CHOOSE f \in Fds : owner[f] = c
  <2>1. g \in Fds /\ owner[g] = c /\ \A f \in Fds : owner[f] = c => f = g
    BY <1>1, <1>2
  <2>2. Notified(c) = Listed(ready, g) /\ g \in Listenable
    BY <1>2, <2>1 DEF Notified, Listenable
  <2> HIDE DEF g
  <2>3. /\ Notified(c) \in Seq(Listenable) /\ Once(Notified(c))
        /\ Range(Notified(c)) = Range(ready) \cup {g}
    BY <2>2, ListedFacts
  <2> QED
    BY <2>1, <2>3
<1>3. CASE link[c] # "open"
  BY <1>1, <1>3 DEF Notified
<1> QED
  BY <1>2, <1>3

LEMMA StepWait ==
  ASSUME ServerInv, Wait
  PROVE  ServerInv'
<1> USE DEF ServerInv
<1> DEFINE live == IF backlog = << >> THEN Unlisted(ready, Listen) ELSE ready
           n == IF Len(live) < MAX_EVENTS THEN Len(live) ELSE MAX_EVENTS
           rest == SubSeq(live, n + 1, Len(live))
<1>1. /\ pc = "wait" /\ pc' = "dispatch" /\ n > 0
      /\ events' = SubSeq(live, 1, n)
      /\ ready' = IF Listen \in Range(events') THEN Append(rest, Listen) ELSE rest
      /\ UNCHANGED <<backlog, owner, offset, clientVars>>
  BY DEF Wait
<1>2. /\ live \in Seq(Listenable) /\ Once(live) /\ Range(live) \subseteq Range(ready)
      /\ Range(ready) \subseteq Range(live) \cup {Listen}
  BY UnlistedFacts DEF TypeOK, ListInv
<1> HIDE DEF live
<1>3. n \in 0 .. Len(live)
  BY <1>2, BoundsAssumption
<1> HIDE DEF n
<1>4. /\ events' \in Seq(Listenable) /\ rest \in Seq(Listenable)
      /\ Range(live) = Range(events') \cup Range(rest)
      /\ Once(events') /\ Once(rest) /\ Range(events') \cap Range(rest) = {}
  BY <1>1, <1>2, <1>3, CutFacts
<1> HIDE DEF rest
<1>5. /\ ready' \in Seq(Listenable) /\ Once(ready') /\ Range(rest) \subseteq Range(ready')
      /\ Range(ready') \subseteq Range(rest) \cup {Listen}
  <2>1. CASE Listen \in Range(events')
    <3>1. Listen \notin Range(rest) /\ Listen \in Listenable
      BY <1>4, <2>1 DEF Listenable
    <3> QED
      BY <1>1, <1>4, <2>1, <3>1, AppendFacts
  <2>2. CASE Listen \notin Range(events')
    BY <1>1, <1>4, <2>2
  <2> QED
    BY <2>1, <2>2
<1>6. TypeOK' /\ QueueInv' /\ OwnerInv'
  BY <1>1, <1>4, <1>5 DEF TypeOK, QueueInv, OwnerInv, clientVars
<1>7. \A f \in Fds : f # Listen
  BY NamesAssumption
<1>8. ListInv'
  <2>1. events = << >>
    BY <1>1 DEF ListInv
  <2>2. \A f \in Fds : f \in Range(ready') \cup Range(events') => f \in Range(ready)
    BY <1>2, <1>4, <1>5, <1>7
  <2> QED
    BY <1>1, <1>4, <1>5, <2>2 DEF ListInv, Busy
<1>9. NoForgottenClient'
  <2>1. Range(events) = {}
    <3>1. events = << >>
      BY <1>1 DEF ListInv
    <3> QED
      BY <3>1 DEF Range
  <2>2. \A f \in Fds : Arrived(f) => f \in Range(ready') \cup Range(events')
    BY <1>1, <1>2, <1>4, <1>5, <1>7, <2>1, ForgottenIs
  <2> QED
    BY <1>1, <2>2 DEF NoForgottenClient, Arrived, clientVars
<1> QED
  BY <1>6, <1>8, <1>9

(* A batch entry that has been handled is dropped; it was not forgotten if *)
(* nothing has arrived on its descriptor.                                  *)
LEMMA StepAccept ==
  ASSUME ServerInv, Accept
  PROVE  ServerInv'
<1> USE DEF ServerInv
<1> DEFINE c == Head(backlog)
<1>1. PICK f \in Free :
        /\ owner' = [owner EXCEPT ![f] = c]
        /\ link' = [link EXCEPT ![c] = "open"]
        /\ ready' = IF unread[c] > 0 \/ c \in gone THEN Listed(ready, f) ELSE ready
  BY DEF Accept
<1>2. /\ pc = "dispatch" /\ pc' = pc /\ events # << >> /\ Head(events) = Listen
      /\ backlog # << >> /\ events' = Tail(events) /\ backlog' = Tail(backlog)
      /\ UNCHANGED <<offset, want, asked, sent, unread, outbox, received, gone>>
  BY DEF Accept, ListenIsNext
<1>3. /\ f \in Fds /\ owner[f] = None /\ f \in Listenable
  BY DEF Free, Listenable
<1>4. /\ backlog' \in Seq(Clients) /\ c \in Clients /\ Once(backlog')
      /\ c \in Range(backlog) /\ c \notin Range(backlog')
      /\ Range(backlog') \subseteq Range(backlog)
  BY <1>2, TailFacts DEF TypeOK, QueueInv
<1>5. /\ events' \in Seq(Listenable) /\ Once(events')
      /\ Range(events) \subseteq Range(events') \cup {Listen}
      /\ Range(events') \subseteq Range(events)
  BY <1>2, TailFacts DEF TypeOK, ListInv
<1>6. /\ ready' \in Seq(Listenable) /\ Once(ready')
      /\ Range(ready) \subseteq Range(ready')
      /\ Range(ready') \subseteq Range(ready) \cup {f}
      /\ unread[c] > 0 \/ c \in gone => f \in Range(ready')
  BY <1>1, <1>3, ListedFacts DEF TypeOK, ListInv
<1>7. c # None /\ link[c] = "queued" /\ \A g \in Fds : owner[g] # c
  <2>1. link[c] = "queued"
    BY <1>4 DEF QueueInv, Range
  <2> QED
    BY <1>4, <2>1, NamesAssumption DEF OwnerInv
<1>8. /\ owner' \in [Fds -> Clients \cup {None}] /\ owner'[f] = c
      /\ \A g \in Fds \ {f} : owner'[g] = owner[g]
      /\ link'[c] = "open" /\ \A d \in Clients \ {c} : link'[d] = link[d]
      /\ link' \in [Clients -> {"off", "queued", "open", "shut"}]
  BY <1>1, <1>3, <1>4 DEF TypeOK
<1>9. TypeOK'
  BY <1>2, <1>4, <1>5, <1>6, <1>8 DEF TypeOK
<1>10. QueueInv'
  <2>1. \A i \in DOMAIN backlog' : backlog'[i] \in Range(backlog')
    BY DEF Range
  <2>2. \A d \in Range(backlog) : link[d] = "queued" /\ d \in Clients
    BY RangeIs DEF TypeOK, QueueInv, Range
  <2>3. \A i \in DOMAIN backlog' : link'[backlog'[i]] = "queued"
    BY <1>4, <1>8, <2>1, <2>2
  <2> QED
    BY <1>4, <2>3 DEF QueueInv
<1>11. OwnerInv'
  <2>1. ASSUME NEW g \in Fds, owner'[g] # None PROVE link'[owner'[g]] = "open"
    <3>1. CASE g = f
      BY <1>8, <3>1
    <3>2. CASE g # f
      <4>1. owner'[g] = owner[g] /\ owner[g] \in Clients \ {c} /\ link[owner[g]] = "open"
        BY <1>7, <1>8, <2>1, <3>2 DEF TypeOK, OwnerInv
      <4> QED
        BY <1>8, <4>1
    <3> QED
      BY <3>1, <3>2
  <2>2. \A g, h \in Fds : owner'[g] # None /\ owner'[g] = owner'[h] => g = h
    BY <1>7, <1>8 DEF OwnerInv
  <2>3. \A d \in Clients : link'[d] = "open" => \E g \in Fds : owner'[g] = d
    <3> SUFFICES ASSUME NEW d \in Clients, link'[d] = "open", d # c
                 PROVE  \E g \in Fds : owner'[g] = d
      BY <1>3, <1>8
    <3>1. PICK g \in Fds : owner[g] = d
      BY <1>8 DEF OwnerInv
    <3>2. g # f
      BY <1>3, <3>1, NamesAssumption
    <3> QED
      BY <1>8, <3>1, <3>2
  <2> QED
    BY <2>1, <2>2, <2>3 DEF OwnerInv
<1>12. ListInv'
  BY <1>2, <1>3, <1>5, <1>6, <1>7, <1>8 DEF ListInv, Busy
<1>13. NoForgottenClient'
  <2>1. ASSUME NEW g \in Fds, owner'[g] # None, unread[owner'[g]] > 0 \/ owner'[g] \in gone
        PROVE  g \in Range(ready') \cup Range(events')
    <3>1. CASE g = f
      BY <1>6, <1>8, <2>1, <3>1
    <3>2. CASE g # f
      <4>1. Arrived(g) /\ g # Listen
        BY <1>8, <2>1, <3>2, NamesAssumption DEF Arrived
      <4> QED
        BY <1>2, <1>5, <1>6, <4>1, ForgottenIs
    <3> QED
      BY <3>1, <3>2
  <2> QED
    BY <1>2, <2>1 DEF NoForgottenClient
<1> QED
  BY <1>9, <1>10, <1>11, <1>12, <1>13

LEMMA StepAcceptFails ==
  ASSUME ServerInv, AcceptFails
  PROVE  ServerInv'
<1> USE DEF ServerInv
<1>1. /\ pc = "dispatch" /\ pc' = pc /\ events # << >> /\ Head(events) = Listen
      /\ events' = Tail(events)
      /\ UNCHANGED <<backlog, owner, ready, offset, clientVars>>
  BY DEF AcceptFails, ListenIsNext
<1>2. /\ events' \in Seq(Listenable) /\ Once(events')
      /\ Range(events) \subseteq Range(events') \cup {Listen}
      /\ Range(events') \subseteq Range(events)
  BY <1>1, TailFacts DEF TypeOK, ListInv
<1>3. TypeOK' /\ QueueInv' /\ OwnerInv'
  BY <1>1, <1>2 DEF TypeOK, QueueInv, OwnerInv, clientVars
<1>4. ListInv'
  BY <1>1, <1>2 DEF ListInv, Busy
<1>5. NoForgottenClient'
  <2>1. \A f \in Fds : Arrived(f) => f \in Range(ready') \cup Range(events')
    BY <1>1, <1>2, ForgottenIs, NamesAssumption
  <2> QED
    BY <1>1, <2>1 DEF NoForgottenClient, Arrived, clientVars
<1> QED
  BY <1>3, <1>4, <1>5

LEMMA StepClose ==
  ASSUME ServerInv, Close
  PROVE  ServerInv'
<1> USE DEF ServerInv
<1> DEFINE f == Head(events)
           c == Current
<1>1. /\ pc = "close" /\ pc' = "dispatch" /\ offset' = 0
      /\ owner' = [owner EXCEPT ![f] = None] /\ ready' = Unlisted(ready, f)
      /\ events' = Tail(events) /\ link' = [link EXCEPT ![c] = "shut"]
      /\ UNCHANGED <<backlog, want, asked, sent, unread, outbox, received, gone>>
  BY DEF Close
<1>2. /\ events # << >> /\ f # Listen
  BY <1>1 DEF ListInv, Busy
<1>3. /\ f \in Fds /\ c \in Clients /\ link[c] = "open" /\ owner[f] = c /\ c # None
  BY <1>2, CurrentIs, NamesAssumption DEF Current
<1>4. /\ events' \in Seq(Listenable) /\ Once(events') /\ f \notin Range(events')
      /\ Range(events) \subseteq Range(events') \cup {f}
      /\ Range(events') \subseteq Range(events)
  BY <1>1, <1>2, TailFacts DEF TypeOK, ListInv
<1>5. /\ ready' \in Seq(Listenable) /\ Once(ready') /\ f \notin Range(ready')
      /\ Range(ready) \subseteq Range(ready') \cup {f}
      /\ Range(ready') \subseteq Range(ready)
  BY <1>1, UnlistedFacts DEF TypeOK, ListInv
<1> HIDE DEF f, c
<1>6. /\ owner' \in [Fds -> Clients \cup {None}] /\ owner'[f] = None
      /\ \A g \in Fds \ {f} : owner'[g] = owner[g]
      /\ link'[c] = "shut" /\ \A d \in Clients \ {c} : link'[d] = link[d]
      /\ link' \in [Clients -> {"off", "queued", "open", "shut"}]
  BY <1>1, <1>3 DEF TypeOK
<1>7. TypeOK'
  BY <1>1, <1>4, <1>5, <1>6, BoundsAssumption DEF TypeOK
<1>8. QueueInv'
  <2>1. \A i \in DOMAIN backlog : backlog[i] \in Clients
    BY DEF TypeOK
  <2> QED
    BY <1>1, <1>3, <1>6, <2>1 DEF QueueInv
<1>9. OwnerInv'
  <2>1. ASSUME NEW g \in Fds, owner'[g] # None PROVE link'[owner'[g]] = "open"
    <3>1. g # f /\ owner'[g] = owner[g] /\ owner[g] \in Clients /\ link[owner[g]] = "open"
      BY <1>6, <2>1 DEF TypeOK, OwnerInv
    <3>2. owner[g] # c
      BY <1>3, <3>1 DEF OwnerInv
    <3> QED
      BY <1>6, <3>1, <3>2
  <2>2. \A g, h \in Fds : owner'[g] # None /\ owner'[g] = owner'[h] => g = h
    BY <1>6 DEF OwnerInv
  <2>3. \A d \in Clients : link'[d] = "open" => \E g \in Fds : owner'[g] = d
    BY <1>3, <1>6 DEF OwnerInv
  <2> QED
    BY <2>1, <2>2, <2>3 DEF OwnerInv
<1>10. ListInv'
  BY <1>1, <1>4, <1>5, <1>6 DEF ListInv, Busy
<1>11. NoForgottenClient'
  <2>1. ASSUME NEW g \in Fds, owner'[g] # None, unread[owner'[g]] > 0 \/ owner'[g] \in gone
        PROVE  g \in Range(ready') \cup Range(events')
    <3>1. g # f
      BY <1>6, <2>1
    <3>2. Arrived(g)
      BY <1>6, <2>1, <3>1 DEF Arrived
    <3> QED
      BY <1>1, <1>4, <1>5, <3>1, <3>2, ForgottenIs
  <2> QED
    BY <1>1, <2>1 DEF NoForgottenClient
<1> QED
  BY <1>7, <1>8, <1>9, <1>10, <1>11

(* The steps of handle_request, between the batch entry and its close, and *)
(* the end of a batch.                                                     *)
LEMMA StepHandling ==
  ASSUME ServerInv,
         \/ BatchDone \/ Receive \/ Answer \/ send_all_sendfile \/ SendIndex
         \/ SendEntry \/ SendFails
  PROVE  ServerInv'
<1> USE DEF ServerInv
<1>1. UNCHANGED <<backlog, owner, ready, events, link, want, sent, received, gone>>
  BY DEF BatchDone, Receive, Answer, send_all_sendfile, SendIndex, SendEntry, SendFails,
         Send, clientVars
<1>2. /\ pc' \in Busy => events # << >> /\ Head(events) # Listen
      /\ pc' = "wait" => events = << >>
      /\ pc' \in Busy \cup {"wait", "killed"} /\ pc # "killed"
      /\ asked' \in [Clients -> Kinds \cup {None}]
      /\ unread' \in [Clients -> Nat]
      /\ \A c \in Clients : unread'[c] = unread[c] \/ unread'[c] = 0
  <2>1. CASE BatchDone
    BY <2>1 DEF BatchDone, Busy, TypeOK, clientVars
  <2>2. CASE Receive
    <3>1. Current \in Clients /\ events # << >> /\ Head(events) # Listen
      BY <2>2, CurrentIs DEF Receive, ClientIsNext
    <3>2. PICK k \in Understood(Current) :
            /\ asked' = [asked EXCEPT ![Current] = k]
            /\ pc' = IF k \in {None, "unreadable"} THEN "close" ELSE "answer"
      BY <2>2 DEF Receive
    <3>3. pc' \in Busy /\ pc = "dispatch"
      BY <2>2, <3>2 DEF Busy, Receive, ClientIsNext
    <3>4. k \in Kinds \cup {None}
      BY <3>1, AsksAssumption DEF Understood, TypeOK
    <3>5. unread' = [unread EXCEPT ![Current] = 0]
      BY <2>2 DEF Receive
    <3> QED
      BY <3>1, <3>2, <3>3, <3>4, <3>5 DEF TypeOK, Busy
  <2>3. CASE \/ Answer \/ send_all_sendfile \/ SendIndex \/ SendEntry \/ SendFails
    <3>1. /\ pc \in Busy /\ pc' \in Busy \cup {"killed"} /\ UNCHANGED <<asked, unread>>
      BY <2>3 DEF Answer, send_all_sendfile, SendIndex, SendEntry, SendFails, Send, Busy,
                  clientVars
    <3> QED
      BY <3>1 DEF ListInv, TypeOK, Busy
  <2> QED
    BY <2>1, <2>2, <2>3
<1>3. TypeOK'
  BY <1>1, <1>2 DEF TypeOK
<1>4. QueueInv' /\ OwnerInv' /\ ListInv'
  BY <1>1, <1>2 DEF QueueInv, OwnerInv, ListInv
<1>5. NoForgottenClient'
  <2> SUFFICES ASSUME NEW f \in Fds, owner[f] # None, unread'[owner[f]] > 0 \/ owner[f] \in gone
               PROVE  f \in Range(ready) \cup Range(events)
    BY <1>1 DEF NoForgottenClient
  <2>1. owner[f] \in Clients
    BY DEF TypeOK
  <2>2. Arrived(f)
    BY <1>2, <2>1 DEF Arrived
  <2> QED
    BY <1>2, <2>2, ForgottenIs
<1> QED
  BY <1>3, <1>4, <1>5

(* The clients.  What arrives from an open connection is put in the list.  *)
LEMMA StepClient ==
  ASSUME ServerInv, NEW c \in Clients, Connect(c) \/ client(c) \/ GoAway(c)
  PROVE  ServerInv'
<1> USE DEF ServerInv
<1>0. /\ c # None /\ Listen \in Listenable /\ \A f \in Fds : f # Listen
      /\ pc' = pc /\ UNCHANGED <<owner, events>>
  BY NamesAssumption
  DEF Listenable, Connect, client, GoAway, Request, Read, Reset, Finish, serverVars
<1>1. CASE Connect(c)
  <2>1. /\ link[c] = "off" /\ link' = [link EXCEPT ![c] = "queued"]
        /\ backlog' = Append(backlog, c) /\ ready' = Listed(ready, Listen)
        /\ UNCHANGED <<asked, sent, unread, gone>>
    BY <1>1 DEF Connect
  <2>2. want' \in [Clients -> Kinds \cup {None}]
    BY <1>1, AsksAssumption DEF Connect, TypeOK
  <2>3. c \notin Range(backlog)
    BY <2>1 DEF QueueInv, Range
  <2>4. /\ backlog' \in Seq(Clients) /\ Range(backlog') = Range(backlog) \cup {c}
        /\ Once(backlog')
    BY <2>1, <2>3, AppendFacts DEF TypeOK, QueueInv
  <2>5. /\ ready' \in Seq(Listenable) /\ Range(ready') = Range(ready) \cup {Listen}
        /\ Once(ready')
    BY <1>0, <2>1, ListedFacts DEF TypeOK, ListInv
  <2>6. TypeOK'
    BY <1>0, <2>1, <2>2, <2>4, <2>5 DEF TypeOK
  <2>7. QueueInv'
    <3>1. \A d \in Range(backlog) : link[d] = "queued" /\ d \in Clients
      BY RangeIs DEF TypeOK, QueueInv, Range
    <3>2. \A d \in Range(backlog') : link'[d] = "queued"
      BY <2>1, <2>4, <3>1 DEF TypeOK
    <3> QED
      BY <2>4, <3>2 DEF QueueInv, Range
  <2>8. OwnerInv'
    BY <1>0, <2>1 DEF OwnerInv, TypeOK
  <2>9. ListInv'
    BY <1>0, <2>5 DEF ListInv
  <2>10. NoForgottenClient'
    BY <1>0, <2>1, <2>5 DEF NoForgottenClient
  <2> QED
    BY <2>6, <2>7, <2>8, <2>9, <2>10
<1>2. CASE Request(c) \/ GoAway(c)
  <2>1. /\ ready' = Notified(c) /\ UNCHANGED <<backlog, link, want, asked>>
        /\ \A d \in Clients \ {c} : unread'[d] = unread[d] /\ (d \in gone' <=> d \in gone)
    BY <1>2 DEF Request, GoAway, TypeOK
  <2>2. /\ sent' \in [Clients -> Nat] /\ unread' \in [Clients -> Nat]
        /\ gone' \subseteq Clients
    <3>1. CASE Request(c)
      BY <3>1 DEF Request, TypeOK
    <3>2. CASE GoAway(c)
      BY <3>2 DEF GoAway, TypeOK
    <3> QED
      BY <1>2, <3>1, <3>2
  <2>3. TypeOK' /\ QueueInv' /\ OwnerInv'
    BY <1>0, <2>1, <2>2, NotifiedFacts DEF TypeOK, QueueInv, OwnerInv
  <2>4. ListInv'
    BY <1>0, <2>1, NotifiedFacts DEF ListInv
  <2>5. NoForgottenClient'
    <3>1. ASSUME NEW f \in Fds, owner[f] # None, pc # "killed",
                 unread'[owner[f]] > 0 \/ owner[f] \in gone'
          PROVE  f \in Range(ready') \cup Range(events)
      <4>1. CASE owner[f] = c
        BY <2>1, <4>1, NotifiedFacts
      <4>2. CASE owner[f] # c
        <5>1. owner[f] \in Clients \ {c}
          BY <3>1, <4>2 DEF TypeOK
        <5>2. Arrived(f)
          BY <2>1, <3>1, <5>1 DEF Arrived
        <5> QED
          BY <2>1, <3>1, <5>2, ForgottenIs, NotifiedFacts
      <4> QED
        BY <4>1, <4>2
    <3> QED
      BY <1>0, <3>1 DEF NoForgottenClient
  <2> QED
    BY <2>3, <2>4, <2>5
<1>3. CASE Read(c) \/ Reset(c)
  <2>1. UNCHANGED <<backlog, ready, link, want, asked, sent, unread, gone>>
    BY <1>3 DEF Read, Reset, serverVars
  <2> QED
    BY <1>0, <2>1 DEF TypeOK, QueueInv, OwnerInv, ListInv, NoForgottenClient
<1>4. CASE Finish(c)
  <2>1. /\ link[c] = "shut" /\ link' = [link EXCEPT ![c] = "off"]
        /\ want' = [want EXCEPT ![c] = None] /\ asked' = [asked EXCEPT ![c] = None]
        /\ sent' = [sent EXCEPT ![c] = 0] /\ unread' = [unread EXCEPT ![c] = 0]
        /\ gone' = gone \ {c} /\ UNCHANGED <<backlog, ready>>
    BY <1>4 DEF Finish, serverVars
  <2>2. TypeOK'
    BY <1>0, <2>1 DEF TypeOK
  <2>3. QueueInv'
    <3>1. \A i \in DOMAIN backlog : backlog[i] \in Clients
      BY DEF TypeOK
    <3> QED
      BY <2>1, <3>1 DEF QueueInv, TypeOK
  <2>4. OwnerInv'
    <3>1. \A f \in Fds : owner[f] # None => owner[f] \in Clients \ {c}
      BY <2>1 DEF TypeOK, OwnerInv
    <3>2. \A d \in Clients : link'[d] = IF d = c THEN "off" ELSE link[d]
      BY <2>1 DEF TypeOK
    <3> QED
      BY <1>0, <3>1, <3>2 DEF OwnerInv
  <2>5. ListInv'
    BY <1>0, <2>1 DEF ListInv
  <2>6. NoForgottenClient'
    <3>1. \A f \in Fds : owner[f] # None => owner[f] \in Clients \ {c}
      BY <2>1 DEF TypeOK, OwnerInv
    <3>2. \A d \in Clients \ {c} : unread'[d] = unread[d]
      BY <2>1 DEF TypeOK
    <3> QED
      BY <1>0, <2>1, <3>1, <3>2 DEF NoForgottenClient
  <2> QED
    BY <2>2, <2>3, <2>4, <2>5, <2>6
<1> QED
  BY <1>1, <1>2, <1>3, <1>4 DEF client

LEMMA ServerInit == Init => ServerInv
<1> SUFFICES ASSUME Init PROVE ServerInv
  OBVIOUS
<1>1. TypeOK
  BY DEF Init, TypeOK
<1>2. QueueInv /\ OwnerInv /\ NoForgottenClient
  BY DEF Init, QueueInv, OwnerInv, NoForgottenClient, Once
<1>3. ListInv
  BY DEF Init, ListInv, Once, Range, Busy
<1> QED
  BY <1>1, <1>2, <1>3 DEF ServerInv

LEMMA ServerStep == ServerInv /\ [Next]_vars => ServerInv'
<1> SUFFICES ASSUME ServerInv, [Next]_vars PROVE ServerInv'
  OBVIOUS
<1>1. CASE server
  BY <1>1, StepWait, StepAccept, StepAcceptFails, StepClose, StepHandling DEF server
<1>2. CASE \E c \in Clients : Connect(c) \/ client(c) \/ GoAway(c)
  BY <1>2, StepClient
<1>3. CASE UNCHANGED vars
  BY <1>3 DEF vars, serverVars, clientVars, ServerInv, TypeOK, QueueInv, OwnerInv, ListInv,
              NoForgottenClient
<1> QED
  BY <1>1, <1>2, <1>3 DEF Next

(* Until the server is killed, what arrives for a registered descriptor is *)
(* in epoll's list or in the batch until it is received (main), although   *)
(* EPOLLET reports it once: for any number of clients and any batch size.  *)
THEOREM NothingForgotten == Spec => []NoForgottenClient
<1>1. ServerInv => NoForgottenClient
  BY DEF ServerInv
<1> QED
  BY ServerInit, ServerStep, <1>1, PTL DEF Spec

-----------------------------------------------------------------------------
(* Replies.                                                                *)

Reply(c) == received[c] \o outbox[c]
Serving(c) == pc \in Busy /\ Current = c

(* The first line and n pieces of a body.                                  *)
UpTo(n) == <<"200">> \o SubSeq(Body, 1, n)

LEMMA BodyFacts ==
  /\ Size \in Nat /\ Body \in Seq(Pieces) /\ Len(Body) = Size
  /\ \A i \in 1 .. Size : Body[i] = i
<1>1. \A i \in 1 .. Size : i \in Pieces
  BY DEF Pieces
<1> QED
  BY <1>1, BoundsAssumption DEF Body

LEMMA SliceFacts ==
  ASSUME NEW n \in Nat, NEW m \in Nat, n + m <= Size, NEW a, a = n + 1, NEW b, b = n + m
  PROVE  LET s == SubSeq(Body, a, b)
         IN  /\ s \in Seq(Pieces) /\ Len(s) = m
             /\ \A i \in 1 .. m : s[i] = n + i
<1>1. \A t \in Seq(Pieces) : n + m <= Len(t) =>
        /\ SubSeq(t, n + 1, n + m) \in Seq(Pieces) /\ Len(SubSeq(t, n + 1, n + m)) = m
        /\ \A i \in 1 .. m : SubSeq(t, n + 1, n + m)[i] = t[n + i]
  OBVIOUS
<1>2. \A i \in 1 .. m : n + i \in 1 .. Size
  BY BodyFacts
<1> QED
  BY <1>1, <1>2, BodyFacts

LEMMA UpToIs ==
  ASSUME NEW n \in 0 .. Size
  PROVE  /\ UpTo(n) \in Seq(Pieces) /\ Len(UpTo(n)) = n + 1
         /\ \A i \in 1 .. n + 1 : UpTo(n)[i] = IF i = 1 THEN "200" ELSE i - 1
<1> DEFINE s == SubSeq(Body, 1, n)
<1>0. Size \in Nat /\ n \in Nat /\ n <= Size
  BY BodyFacts
<1>1. s \in Seq(Pieces) /\ Len(s) = n /\ \A i \in 1 .. n : s[i] = i
  <2>1. 0 \in Nat /\ 0 + n <= Size /\ 1 = 0 + 1 /\ n = 0 + n /\ n \in Nat
    BY <1>0
  <2>2. s \in Seq(Pieces) /\ Len(s) = n /\ \A i \in 1 .. n : s[i] = 0 + i
    BY <2>1, SliceFacts
  <2> QED
    BY <1>0, <2>2
<1> HIDE DEF s
<1>2. <<"200">> \in Seq(Pieces) /\ Len(<<"200">>) = 1 /\ <<"200">>[1] = "200"
  BY DEF Pieces
<1>3. UpTo(n) = <<"200">> \o s
  BY DEF UpTo, s
<1>4. /\ UpTo(n) \in Seq(Pieces) /\ Len(UpTo(n)) = 1 + n
      /\ \A i \in 1 .. 1 + n : UpTo(n)[i] = IF i <= 1 THEN "200" ELSE s[i - 1]
  BY <1>1, <1>2, <1>3, ConcatFacts
<1>5. \A i \in 1 .. n + 1 : i = 1 \/ (i - 1 \in 1 .. n /\ ~(i <= 1))
  BY <1>0
<1> QED
  BY <1>0, <1>1, <1>4, <1>5

(* Two sequences with the same entries are one.                            *)
LEMMA SameSeq ==
  ASSUME NEW S, NEW s \in Seq(S), NEW t \in Seq(S), Len(s) = Len(t),
         \A i \in 1 .. Len(s) : s[i] = t[i]
  PROVE  s = t
  OBVIOUS

LEMMA UpToStep ==
  ASSUME NEW n \in Nat, NEW m \in Nat, n + m <= Size
  PROVE  UpTo(n) \o SubSeq(Body, n + 1, n + m) = UpTo(n + m)
<1> DEFINE s == SubSeq(Body, n + 1, n + m)
           t == UpTo(n) \o s
<1>1. s \in Seq(Pieces) /\ Len(s) = m /\ m \in Nat /\ \A i \in 1 .. m : s[i] = n + i
  BY SliceFacts
<1>2. n \in 0 .. Size /\ n + m \in 0 .. Size
  BY BodyFacts
<1> HIDE DEF s
<1>3. /\ t \in Seq(Pieces) /\ Len(t) = (n + 1) + m
      /\ \A i \in 1 .. (n + 1) + m :
           t[i] = IF i <= n + 1 THEN UpTo(n)[i] ELSE s[i - (n + 1)]
  <2>1. UpTo(n) \in Seq(Pieces) /\ Len(UpTo(n)) = n + 1
    BY <1>2, UpToIs
  <2>2. /\ t \in Seq(Pieces) /\ Len(t) = Len(UpTo(n)) + Len(s)
        /\ \A i \in 1 .. Len(UpTo(n)) + Len(s) :
             t[i] = IF i <= Len(UpTo(n)) THEN UpTo(n)[i] ELSE s[i - Len(UpTo(n))]
    BY <1>1, <2>1, ConcatFacts
  <2> HIDE DEF t
  <2> QED
    BY <1>1, <2>1, <2>2
<1> HIDE DEF t
<1>4. Len(UpTo(n + m)) = n + m + 1 /\ UpTo(n + m) \in Seq(Pieces)
  BY <1>2, UpToIs
<1>5. ASSUME NEW i \in 1 .. n + m + 1 PROVE t[i] = UpTo(n + m)[i]
  <2>1. UpTo(n + m)[i] = IF i = 1 THEN "200" ELSE i - 1
    BY <1>2, UpToIs
  <2>2. CASE i <= n + 1
    <3>1. i \in 1 .. n + 1
      BY <2>2
    <3> QED
      BY <1>2, <1>3, <2>1, <2>2, <3>1, UpToIs
  <2>3. CASE ~(i <= n + 1)
    <3>1. i - (n + 1) \in 1 .. m /\ n + (i - (n + 1)) = i - 1 /\ i # 1
          /\ i \in 1 .. (n + 1) + m
      BY <2>3
    <3>2. t[i] = s[i - (n + 1)] /\ s[i - (n + 1)] = i - 1
      BY <1>1, <1>3, <2>3, <3>1
    <3> QED
      BY <2>1, <3>1, <3>2
  <2> QED
    BY <2>2, <2>3
<1>6. Len(t) = n + m + 1
  BY <1>3
<1>7. t = UpTo(n + m)
  BY <1>3, <1>4, <1>5, <1>6, SameSeq
<1> QED
  BY <1>7 DEF t, s

LEMMA UpToEnds ==
  /\ UpTo(0) = <<"200">>
  /\ UpTo(Size) = <<"200">> \o Body
  /\ \A n \in 0 .. Size : IsPrefix(UpTo(n), <<"200">> \o Body)
<1>1. UpTo(0) = <<"200">>
  <2>1. 0 \in 0 .. Size /\ <<"200">> \in Seq(Pieces) /\ Len(<<"200">>) = 1
        /\ <<"200">>[1] = "200"
    BY BodyFacts DEF Pieces
  <2>2. UpTo(0) \in Seq(Pieces) /\ Len(UpTo(0)) = 1 /\ UpTo(0)[1] = "200"
    <3>1. 0 + 1 = 1 /\ 1 \in 1 .. 0 + 1
      OBVIOUS
    <3>2. UpTo(0) \in Seq(Pieces) /\ Len(UpTo(0)) = 0 + 1 /\ UpTo(0)[1] = "200"
      BY <2>1, <3>1, UpToIs
    <3> QED
      BY <3>1, <3>2
  <2> QED
    BY <2>1, <2>2, SameSeq
<1>2. UpTo(Size) = <<"200">> \o Body
  <2>1. \A b \in Seq(Pieces) : SubSeq(b, 1, Len(b)) = b
    OBVIOUS
  <2> QED
    BY <2>1, BodyFacts DEF UpTo
<1>3. ASSUME NEW n \in 0 .. Size PROVE IsPrefix(UpTo(n), UpTo(Size))
  <2>0. Size \in 0 .. Size /\ n + 1 <= Size + 1 /\ n + 1 \in Nat /\ n \in Nat /\ Size \in Nat
    BY BodyFacts
  <2>1. /\ UpTo(n) \in Seq(Pieces) /\ Len(UpTo(n)) = n + 1
        /\ UpTo(Size) \in Seq(Pieces) /\ Len(UpTo(Size)) = Size + 1
    BY <2>0, UpToIs
  <2>2. \A i \in 1 .. n + 1 : UpTo(n)[i] = UpTo(Size)[i]
    <3>1. \A i \in 1 .. n + 1 : i \in 1 .. Size + 1
      BY <2>0
    <3> QED
      BY <2>0, <3>1, UpToIs
  <2>3. \A s, t \in Seq(Pieces) :
          Len(s) <= Len(t) /\ (\A i \in 1 .. Len(s) : s[i] = t[i]) =>
            SubSeq(s, 1, Len(s)) = SubSeq(t, 1, Len(s))
    OBVIOUS
  <2> QED
    BY <2>0, <2>1, <2>2, <2>3 DEF IsPrefix
<1> QED
  BY <1>1, <1>2, <1>3

(* A client that reads moves the first piece of its socket to the end of   *)
(* what it has read.                                                       *)
LEMMA ReadKeeps ==
  ASSUME NEW a \in Seq(Pieces), NEW b \in Seq(Pieces), b # << >>
  PROVE  /\ Append(a, Head(b)) \o Tail(b) = a \o b
         /\ Append(a, Head(b)) \in Seq(Pieces) /\ Tail(b) \in Seq(Pieces)
  OBVIOUS

LEMMA ConcatTwice ==
  ASSUME NEW a \in Seq(Pieces), NEW b \in Seq(Pieces), NEW c \in Seq(Pieces)
  PROVE  a \o (b \o c) = (a \o b) \o c
  OBVIOUS

(* What the server is about to say, and to whom.                           *)
ServeInv ==
  /\ offset \in 0 .. Size
  /\ outbox \in [Clients -> Seq(Pieces)] /\ received \in [Clients -> Seq(Pieces)]
  /\ \A c \in Clients : asked[c] # None =>
       \/ link[c] = "shut" \/ Serving(c)
       \/ pc = "killed" /\ c \in gone /\ link[c] = "open"
  /\ pc = "answer" => asked[Current] \in Kinds \ {"unreadable"}
  /\ pc = "body" => /\ asked[Current] \in {"file", "sibling", "index", "listing"}
                    /\ asked[Current] = "index" => offset = 0
  /\ pc \notin {"body", "close", "killed"} => offset = 0

(* The reply is whole, but for those that nothing waits for.               *)
Whole(c) ==
  /\ asked[c] \in Kinds \ {"index", "listing"} => Reply(c) = ReplyTo(asked[c])
  /\ asked[c] = "index" => \E n \in 0 .. Size : Reply(c) = UpTo(n)

(* How far a client's reply has come.                                      *)
Replies(c) == c \notin gone =>
  /\ link[c] # "shut" /\ ~(Serving(c) /\ pc \in {"body", "close"}) => Reply(c) = << >>
  /\ Serving(c) /\ pc = "body" /\ asked[c] # "listing" => Reply(c) = UpTo(offset)
  /\ link[c] = "shut" \/ (Serving(c) /\ pc = "close") => (AllRead(c) => Whole(c))
  /\ asked[c] # None /\ AllRead(c) => asked[c] = want[c]

ReplyInv == ServerInv /\ ServeInv /\ \A c \in Clients : Replies(c)

LEMMA ReplyCases ==
  /\ ReplyTo("outside") = <<"403">> /\ ReplyTo("missing") = <<"403">>
  /\ ReplyTo("vanished") = <<"404">> /\ ReplyTo("unreadable") = << >>
  /\ ReplyTo("file") = UpTo(Size) /\ ReplyTo("sibling") = UpTo(Size)
  /\ \A k \in {"file", "sibling", "index", "listing"} : ReplyTo(k) = <<"200">> \o Body
  /\ Kinds = {"outside", "sibling", "missing", "vanished", "unreadable", "file", "index", "listing"}
  BY UpToEnds DEF ReplyTo, Kinds

(* A step that does not concern a client keeps its reply.                  *)
LEMMA RepliesKept ==
  ASSUME NEW c \in Clients, Replies(c),
         link'[c] = link[c], want'[c] = want[c], asked'[c] = asked[c],
         sent'[c] = sent[c], unread'[c] = unread[c],
         outbox'[c] = outbox[c], received'[c] = received[c],
         c \in gone => c \in gone',
         Serving(c)' <=> Serving(c), Serving(c) => pc' = pc /\ offset' = offset
  PROVE  Replies(c)'
<1>1. Reply(c)' = Reply(c) /\ (AllRead(c)' <=> AllRead(c))
  BY DEF Reply, AllRead
<1>2. Whole(c)' <=> Whole(c)
  BY <1>1 DEF Whole
<1> QED
  BY <1>1, <1>2 DEF Replies

(* Who is served is behind the first event.                                *)
LEMMA ServingIs ==
  ASSUME ServerInv, pc \in Busy
  PROVE  /\ Current \in Clients /\ link[Current] = "open" /\ Serving(Current)
         /\ \A c \in Clients : Serving(c) => c = Current
  BY CurrentIs DEF ServerInv, ListInv, Serving

(* main between two requests: nobody is served.                            *)
LEMMA ReplyMain ==
  ASSUME ReplyInv, Wait \/ BatchDone \/ Accept \/ AcceptFails
  PROVE  ServeInv' /\ \A c \in Clients : Replies(c)'
<1> USE DEF ReplyInv
<1>1. /\ pc \in {"wait", "dispatch"} /\ pc' \in {"wait", "dispatch"}
      /\ UNCHANGED <<offset, want, asked, sent, unread, outbox, received, gone>>
  BY DEF Wait, BatchDone, Accept, AcceptFails, ListenIsNext, clientVars
<1>2. \A c \in Clients : ~Serving(c) /\ ~Serving(c)'
  BY <1>1 DEF Serving, Busy
<1>3. \A c \in Clients : link'[c] = link[c] \/ (link[c] = "queued" /\ link'[c] = "open")
  <2>1. CASE Accept
    <3>1. link' = [link EXCEPT ![Head(backlog)] = "open"] /\ backlog # << >>
      BY <2>1 DEF Accept
    <3>2. link[Head(backlog)] = "queued"
      BY <3>1, TailFacts DEF ServerInv, TypeOK, QueueInv, Range
    <3> QED
      BY <3>1, <3>2 DEF ServerInv, TypeOK
  <2> QED
    BY <2>1 DEF Wait, BatchDone, AcceptFails, clientVars
<1>4. ServeInv'
  BY <1>1, <1>2, <1>3 DEF ServeInv
<1>5. ASSUME NEW c \in Clients PROVE Replies(c)'
  <2>1. CASE link'[c] = link[c]
    BY <1>1, <1>2, <2>1, RepliesKept
  <2>2. CASE link[c] = "queued" /\ link'[c] = "open"
    <3>1. Reply(c)' = Reply(c) /\ (AllRead(c)' <=> AllRead(c))
      BY <1>1 DEF Reply, AllRead
    <3> QED
      BY <1>1, <1>2, <2>2, <3>1 DEF Replies
  <2> QED
    BY <1>3, <2>1, <2>2
<1> QED
  BY <1>4, <1>5

(* recv: a whole request of a client that stays is understood.             *)
LEMMA ReplyReceive ==
  ASSUME ReplyInv, Receive
  PROVE  ServeInv' /\ \A c \in Clients : Replies(c)'
<1> USE DEF ReplyInv
<1>0. PICK c \in Clients : c = Current
  BY CurrentIs DEF Receive, ClientIsNext
<1>1. /\ pc = "dispatch" /\ link[c] = "open" /\ Current' = c
      /\ UNCHANGED <<owner, events, offset, link, want, sent, outbox, received, gone>>
      /\ unread' = [unread EXCEPT ![c] = 0]
  BY <1>0, CurrentIs DEF Receive, ClientIsNext, Current
<1>2. PICK k \in Understood(c) :
        /\ asked' = [asked EXCEPT ![c] = k]
        /\ pc' = IF k \in {None, "unreadable"} THEN "close" ELSE "answer"
  BY <1>0 DEF Receive
<1>3. /\ k \in Kinds \cup {None} /\ pc' \in {"answer", "close"} /\ offset = 0
      /\ asked'[c] = k /\ unread'[c] = 0
      /\ \A d \in Clients \ {c} : asked'[d] = asked[d] /\ unread'[d] = unread[d]
  <2>1. k \in Kinds \cup {None}
    BY <1>1, AsksAssumption DEF Understood, ServerInv, TypeOK
  <2> QED
    BY <1>1, <1>2, <2>1 DEF ServerInv, TypeOK, ServeInv
<1>4. /\ \A d \in Clients : ~Serving(d)
      /\ \A d \in Clients : Serving(d)' <=> d = c
  BY <1>1, <1>3 DEF Serving, Busy
<1>5. ServeInv'
  <2>1. \A d \in Clients : asked'[d] # None => link[d] = "shut" \/ d = c
    BY <1>1, <1>3, <1>4 DEF ServeInv
  <2>2. pc' = "answer" => k \in Kinds \ {"unreadable"}
    BY <1>2, <1>3
  <2> QED
    BY <1>1, <1>3, <1>4, <2>1, <2>2 DEF ServeInv
<1>6. ASSUME NEW d \in Clients, d # c PROVE Replies(d)'
  BY <1>1, <1>3, <1>4, <1>6, RepliesKept
<1>7. ASSUME c \notin gone PROVE Replies(c)'
  <2>1. Reply(c)' = Reply(c) /\ Reply(c) = << >>
    BY <1>1, <1>4, <1>7 DEF Reply, Replies
  <2>2. AllRead(c)' => k = want[c]
    BY <1>1, <1>2, <1>7 DEF AllRead, Understood
  <2>3. pc' = "close" => k \in {None, "unreadable"}
    BY <1>2
  <2>4. pc' = "close" => Whole(c)'
    BY <1>3, <2>1, <2>3, ReplyCases, NamesAssumption DEF Whole
  <2> QED
    BY <1>1, <1>3, <1>4, <2>1, <2>2, <2>4 DEF Replies
<1>8. c \in gone => Replies(c)'
  BY <1>1 DEF Replies
<1> QED
  BY <1>1, <1>5, <1>6, <1>7, <1>8

(* What is put in a socket comes after what was there.                     *)
LEMMA PutFacts ==
  ASSUME ReplyInv, NEW c \in Clients, NEW p \in Seq(Pieces), Put(c, p),
         received' = received
  PROVE  /\ outbox' \in [Clients -> Seq(Pieces)]
         /\ c \notin gone => Reply(c)' = Reply(c) \o p
         /\ \A d \in Clients \ {c} : outbox'[d] = outbox[d]
<1>1. outbox \in [Clients -> Seq(Pieces)] /\ received \in [Clients -> Seq(Pieces)]
  BY DEF ReplyInv, ServeInv
<1>2. \A b \in Seq(Pieces) : b \o p \in Seq(Pieces)
  BY ConcatFacts
<1>3. CASE c \in gone
  BY <1>1, <1>3 DEF Put
<1>4. CASE c \notin gone
  <2>1. outbox' = [outbox EXCEPT ![c] = outbox[c] \o p]
    BY <1>4 DEF Put
  <2>2. outbox'[c] = outbox[c] \o p
    BY <1>1, <2>1
  <2>3. Reply(c)' = received[c] \o (outbox[c] \o p)
    BY <2>2 DEF Reply
  <2> QED
    BY <1>1, <1>2, <2>1, <2>3, ConcatTwice DEF Reply
<1> QED
  BY <1>3, <1>4

(* A step of handle_request concerns the client that is served.            *)
LEMMA OthersReply ==
  ASSUME ReplyInv, pc \in Busy, pc' \in Busy \cup {"killed"}, NEW d \in Clients, d # Current,
         outbox'[d] = outbox[d],
         UNCHANGED <<owner, events, link, want, asked, sent, unread, received, gone>>
  PROVE  Replies(d)'
<1>1. ~Serving(d) /\ ~Serving(d)'
  BY DEF Serving, Current
<1> QED
  BY <1>1, RepliesKept DEF ReplyInv

LEMMA HeadFacts ==
  ASSUME NEW x \in Pieces, NEW s \in Seq(Pieces)
  PROVE  Head(<<x>> \o s) = x /\ Head(<<x>>) = x /\ <<x>> \in Seq(Pieces) /\ << >> \o <<x>> = <<x>>
<1>1. <<x>> \in Seq(Pieces) /\ Len(<<x>>) = 1 /\ <<x>>[1] = x
  OBVIOUS
<1>2. <<x>> \o s \in Seq(Pieces) /\ Len(<<x>> \o s) = 1 + Len(s) /\ Len(s) \in Nat
  BY <1>1, ConcatFacts
<1>3. (<<x>> \o s)[1] = x
  <2>1. 1 \in 1 .. 1 + Len(s) /\ 1 <= 1
    BY <1>2
  <2> QED
    BY <1>1, <2>1, ConcatFacts
<1>4. Head(<<x>> \o s) = x
  BY <1>2, <1>3
<1> QED
  BY <1>1, <1>4

LEMMA ReplyAnswer ==
  ASSUME ReplyInv, Answer
  PROVE  ServeInv' /\ \A c \in Clients : Replies(c)'
<1> USE DEF ReplyInv
<1>0. pc = "answer" /\ pc \in Busy
  BY DEF Answer, Busy
<1>1. PICK c \in Clients : c = Current
  BY <1>0, ServingIs
<1>2. /\ link[c] = "open" /\ Serving(c) /\ asked[c] \in Kinds \ {"unreadable"} /\ offset = 0
      /\ \A d \in Clients : Serving(d) => d = c
  BY <1>0, <1>1, ServingIs DEF ServeInv
<1>3. PICK p : p = <<Head(ReplyTo(asked[c]))>>
  OBVIOUS
<1>4. /\ Put(c, p) /\ pc' = IF asked[c] \in {"outside", "missing", "vanished"} THEN "close" ELSE "body"
      /\ UNCHANGED <<owner, events, offset, link, want, asked, sent, unread, received, gone>>
      /\ Current' = c
  BY <1>1, <1>3 DEF Answer, Current
<1>5. /\ asked[c] \in {"outside", "missing"} => p = <<"403">> /\ pc' = "close"
      /\ asked[c] = "vanished" => p = <<"404">> /\ pc' = "close"
      /\ asked[c] \in {"file", "sibling", "index", "listing"} => p = <<"200">> /\ pc' = "body"
      /\ p \in Seq(Pieces) /\ << >> \o p = p
      /\ asked[c] \in {"outside", "missing", "vanished", "file", "sibling", "index", "listing"}
  <2>1. "200" \in Pieces /\ "403" \in Pieces /\ "404" \in Pieces
    BY DEF Pieces
  <2>2. Head(<<"403">>) = "403" /\ Head(<<"404">>) = "404" /\ Head(<<"200">> \o Body) = "200"
    BY <2>1, BodyFacts, HeadFacts
  <2>3. asked[c] \in {"outside", "missing", "vanished", "file", "sibling", "index", "listing"}
    BY <1>2 DEF Kinds
  <2>4. CASE asked[c] \in {"outside", "missing"}
    <3>1. p = <<"403">>
      BY <1>3, <2>2, <2>4, ReplyCases
    <3> QED
      BY <1>4, <2>1, <2>4, <3>1, BodyFacts, HeadFacts
  <2>5. CASE asked[c] = "vanished"
    <3>1. p = <<"404">>
      BY <1>3, <2>2, <2>5, ReplyCases
    <3> QED
      BY <1>4, <2>1, <2>5, <3>1, BodyFacts, HeadFacts
  <2>6. CASE asked[c] \in {"file", "sibling", "index", "listing"}
    <3>1. p = <<"200">>
      BY <1>3, <2>2, <2>6, ReplyCases
    <3> QED
      BY <1>4, <2>1, <2>6, <3>1, BodyFacts, HeadFacts
  <2> QED
    BY <2>3, <2>4, <2>5, <2>6
<1>6. /\ outbox' \in [Clients -> Seq(Pieces)]
      /\ c \notin gone => Reply(c)' = Reply(c) \o p
      /\ \A d \in Clients \ {c} : outbox'[d] = outbox[d]
  BY <1>4, <1>5, PutFacts
<1>7. pc' \in {"close", "body"} /\ Serving(c)' /\ \A d \in Clients : Serving(d)' <=> d = c
  BY <1>4 DEF Serving, Busy
<1>8. ServeInv'
  <2>1. \A d \in Clients : asked[d] # None => link[d] = "shut" \/ d = c
    BY <1>0, <1>2 DEF ServeInv
  <2>2. /\ offset' = 0 /\ 0 \in 0 .. Size /\ received' \in [Clients -> Seq(Pieces)]
        /\ pc' \in {"body", "close"} /\ Current' = c /\ asked' = asked /\ link' = link
        /\ pc' = "body" => asked[c] \in {"file", "sibling", "index", "listing"}
    BY <1>2, <1>4, <1>5, <1>7 DEF ServeInv
  <2>3. \A d \in Clients : asked'[d] # None => link'[d] = "shut" \/ Serving(d)'
    BY <1>7, <2>1, <2>2
  <2> HIDE <1>0, <1>1
  <2> QED
    BY <1>6, <2>2, <2>3 DEF ServeInv
<1>9. ASSUME NEW d \in Clients, d # c PROVE Replies(d)'
  <2>1. pc' \in Busy \cup {"killed"} /\ d # Current /\ outbox'[d] = outbox[d]
    BY <1>1, <1>6, <1>7, <1>9 DEF Busy
  <2> QED
    BY <1>0, <1>4, <2>1, OthersReply
<1>10. ASSUME c \notin gone PROVE Replies(c)'
  <2>1. Reply(c)' = p
    <3>1. Reply(c) = << >>
      BY <1>0, <1>2, <1>10 DEF Replies
    <3> QED
      BY <1>5, <1>6, <1>10, <3>1
  <2>2. asked[c] \in {"file", "sibling", "index", "listing"} => Reply(c)' = UpTo(0)
    BY <1>5, <2>1, UpToEnds
  <2>3. pc' = "close" => Whole(c)'
    <3>1. ASSUME pc' = "close" PROVE asked'[c] = asked[c] /\ asked[c] \in {"outside", "missing", "vanished"}
      BY <1>4, <1>5, <3>1
    <3> QED
      BY <1>5, <2>1, <3>1, ReplyCases DEF Whole
  <2>4. pc' = "body" => asked[c] \in {"file", "sibling", "index", "listing"}
    BY <1>5
  <2>5. UpTo(offset)' = UpTo(0)
    BY <1>2, <1>4 DEF UpTo
  <2>6. asked[c] # None /\ AllRead(c)' => asked[c] = want[c]
    BY <1>4, <1>10 DEF Replies, AllRead
  <2> QED
    BY <1>2, <1>4, <1>7, <1>10, <2>2, <2>3, <2>4, <2>5, <2>6 DEF Replies
<1>11. c \in gone => Replies(c)'
  BY <1>4 DEF Replies
<1> QED
  BY <1>8, <1>9, <1>10, <1>11

(* Any step within a body: a reply that is not a listing has come as far   *)
(* as the offset says.                                                     *)
LEMMA BodyGoesOn ==
  ASSUME ReplyInv, pc = "body", NEW c \in Clients, c = Current,
         UNCHANGED <<owner, events, link, want, asked, sent, unread, received, gone>>,
         outbox' \in [Clients -> Seq(Pieces)],
         \A d \in Clients \ {c} : outbox'[d] = outbox[d],
         offset' \in 0 .. Size,
         pc' \in {"body", "close"} \/ (pc' = "killed" /\ c \in gone),
         pc' = "body" => asked[c] # "index",
         c \notin gone /\ asked[c] # "listing" => Reply(c)' = UpTo(offset'),
         pc' = "close" /\ c \notin gone /\ asked[c] \in {"file", "sibling"} => offset' = Size
  PROVE  ServeInv' /\ \A d \in Clients : Replies(d)'
<1> USE DEF ReplyInv
<1>1. /\ pc \in Busy /\ link[c] = "open" /\ Current' = c
      /\ asked[c] \in {"file", "sibling", "index", "listing"} /\ asked[c] \in Kinds
      /\ pc' \in Busy \cup {"killed"}
      /\ \A d \in Clients : Serving(d) <=> d = c
      /\ \A d \in Clients : Serving(d)' <=> d = c /\ pc' # "killed"
  <2>1. pc \in Busy /\ asked[c] \in {"file", "sibling", "index", "listing"} /\ Current' = c
        /\ pc' \in Busy \cup {"killed"}
    BY DEF Busy, ServeInv, Current
  <2> QED
    BY <2>1, ServingIs DEF Serving, Kinds, Busy
<1>2. ServeInv'
  <2>1. \A d \in Clients : asked[d] # None => link[d] = "shut" \/ d = c
    BY <1>1 DEF ServeInv
  <2>2. pc' # "answer" /\ received' \in [Clients -> Seq(Pieces)]
        /\ (pc' = "killed" => c \in gone) /\ pc' \in {"body", "close", "killed"}
    BY DEF ServeInv
  <2> QED
    BY <1>1, <2>1, <2>2 DEF ServeInv
<1>3. ASSUME NEW d \in Clients, d # c PROVE Replies(d)'
  BY <1>1, <1>3, OthersReply
<1>4. ASSUME c \notin gone PROVE Replies(c)'
  <2>1. asked[c] # "listing" => Reply(c)' = UpTo(offset)'
    BY <1>4 DEF UpTo
  <2>2. pc' = "close" => Whole(c)'
    <3>1. ASSUME pc' = "close" PROVE /\ asked[c] \in {"file", "sibling"} => Reply(c)' = UpTo(Size)
                                     /\ asked[c] = "index" => Reply(c)' = UpTo(offset')
      BY <1>4, <3>1
    <3>2. \A n : UpTo(n)' = UpTo(n)
      BY DEF UpTo
    <3>3. (pc' = "close") => (asked[c] = "index" => \E n \in 0 .. Size : Reply(c)' = UpTo(n))
      BY <3>1
    <3> QED
      BY <1>1, <3>1, <3>2, <3>3, ReplyCases DEF Whole
  <2>3. asked[c] # None /\ AllRead(c)' => asked[c] = want[c]
    BY <1>4 DEF Replies, AllRead
  <2> QED
    BY <1>1, <1>4, <2>1, <2>2, <2>3 DEF Replies
<1>5. c \in gone => Replies(c)'
  BY DEF Replies
<1> QED
  BY <1>2, <1>3, <1>4, <1>5

LEMMA SendFacts ==
  ASSUME ReplyInv, pc = "body", NEW c \in Clients, c = Current,
         NEW n \in Nat, offset + n <= Size, Send(n)
  PROVE  /\ UNCHANGED <<owner, events, link, want, asked, sent, unread, received, gone>>
         /\ outbox' \in [Clients -> Seq(Pieces)]
         /\ \A d \in Clients \ {c} : outbox'[d] = outbox[d]
         /\ offset' = offset + n /\ offset' \in 0 .. Size
         /\ c \notin gone /\ asked[c] # "listing" => Reply(c)' = UpTo(offset')
<1>1. PICK p : p = SubSeq(Body, offset + 1, offset + n)
  OBVIOUS
<1>2. /\ Put(c, p) /\ offset' = offset + n
      /\ UNCHANGED <<owner, events, link, want, asked, sent, unread, received, gone>>
  BY <1>1 DEF Send
<1>3. offset \in Nat /\ offset' \in 0 .. Size
  BY <1>2, BodyFacts DEF ReplyInv, ServeInv
<1>4. p \in Seq(Pieces)
  BY <1>1, <1>3, SliceFacts
<1>5. /\ outbox' \in [Clients -> Seq(Pieces)]
      /\ c \notin gone => Reply(c)' = Reply(c) \o p
      /\ \A d \in Clients \ {c} : outbox'[d] = outbox[d]
  BY <1>2, <1>4, PutFacts
<1>6. ASSUME c \notin gone, asked[c] # "listing" PROVE Reply(c)' = UpTo(offset')
  <2>1. Reply(c) = UpTo(offset)
    <3>1. Serving(c)
      BY DEF Serving, Busy
    <3> QED
      BY <1>6, <3>1 DEF ReplyInv, Replies
  <2>2. UpTo(offset) \o p = UpTo(offset + n)
    BY <1>1, <1>3, UpToStep
  <2> QED
    BY <1>2, <1>5, <1>6, <2>1, <2>2
<1> QED
  BY <1>2, <1>3, <1>5, <1>6

LEMMA ReplyBody ==
  ASSUME ReplyInv, send_all_sendfile \/ SendIndex \/ SendEntry \/ SendFails
  PROVE  ServeInv' /\ \A c \in Clients : Replies(c)'
<1>1. pc = "body" /\ pc \in Busy
  BY DEF send_all_sendfile, SendIndex, SendEntry, SendFails, Busy
<1>2. PICK c \in Clients : c = Current
  BY <1>1, ServingIs DEF ReplyInv
<1>3. /\ offset \in Nat /\ offset \in 0 .. Size /\ Size \in Nat
      /\ outbox \in [Clients -> Seq(Pieces)]
      /\ asked[c] = "index" => offset = 0
      /\ c \notin gone /\ asked[c] # "listing" => Reply(c) = UpTo(offset)
  <2>1. Serving(c)
    BY <1>1, <1>2 DEF Serving
  <2> QED
    BY <1>1, <1>2, <2>1, BodyFacts DEF ReplyInv, ServeInv, Replies
<1>4. ASSUME NEW n \in Nat, offset + n <= Size, Send(n), pc' \in {"body", "close"},
             pc' = "body" => asked[c] # "index", pc' = "close" => asked[c] \notin {"file", "sibling"}
      PROVE  ServeInv' /\ \A d \in Clients : Replies(d)'
  <2> HIDE DEF Send
  <2> QED
    BY <1>1, <1>2, <1>4, SendFacts, BodyGoesOn
<1>5. ASSUME UNCHANGED <<backlog, owner, ready, events, clientVars>>, offset' \in 0 .. Size,
             \/ pc' = "body" /\ asked[c] = "listing"
             \/ pc' = "close" /\ offset' = offset /\ asked[c] \in {"file", "sibling"} /\ offset = Size
             \/ pc' = "close" /\ asked[c] = "listing"
             \/ pc' \in {"close", "killed"} /\ c \in gone
      PROVE  ServeInv' /\ \A d \in Clients : Replies(d)'
  <2>1. /\ UNCHANGED <<owner, events, link, want, asked, sent, unread, outbox, received, gone>>
        /\ Reply(c)' = Reply(c)
    BY <1>5 DEF clientVars, Reply
  <2>2. c \notin gone /\ asked[c] # "listing" => Reply(c)' = UpTo(offset')
    BY <1>3, <1>5, <2>1
  <2>3. outbox' \in [Clients -> Seq(Pieces)] /\ \A d \in Clients \ {c} : outbox'[d] = outbox[d]
    BY <1>3, <2>1
  <2> QED
    BY <1>1, <1>2, <1>5, <2>1, <2>2, <2>3, BodyGoesOn
<1>6. CASE send_all_sendfile
  <2>1. asked[c] \in {"file", "sibling"}
    BY <1>2, <1>6 DEF send_all_sendfile
  <2>2. CASE pc' = pc /\ \E n \in 1 .. SendBuffer : n <= Size - offset /\ Send(n)
    <3>1. PICK n \in 1 .. SendBuffer : n <= Size - offset /\ Send(n)
      BY <2>2
    <3>2. n \in Nat /\ offset + n <= Size
      BY <1>3, <3>1, BoundsAssumption
    <3> QED
      BY <1>1, <1>4, <2>1, <2>2, <3>1, <3>2
  <2>3. CASE offset = Size /\ pc' = "close"
             /\ UNCHANGED <<backlog, owner, ready, events, offset, clientVars>>
    BY <1>3, <1>5, <2>1, <2>3
  <2> QED
    BY <1>6, <2>2, <2>3 DEF send_all_sendfile
<1>7. CASE SendIndex
  <2>1. asked[c] = "index" /\ pc' = "close"
    BY <1>2, <1>7 DEF SendIndex
  <2>2. PICK n \in 0 .. SendBuffer : n <= Size /\ Send(n)
    BY <1>7 DEF SendIndex
  <2>3. n \in Nat /\ offset + n <= Size
    BY <1>3, <2>1, <2>2, BoundsAssumption
  <2> QED
    BY <1>4, <2>1, <2>2, <2>3
<1>8. CASE SendEntry
  <2>1. asked[c] = "listing"
    BY <1>2, <1>8 DEF SendEntry
  <2>2. CASE offset = Size
    BY <1>3, <1>5, <1>8, <2>1, <2>2 DEF SendEntry
  <2>3. CASE offset # Size
    <3>1. 1 \in Nat /\ offset + 1 <= Size /\ offset + 1 \in 0 .. Size /\ pc' = "body"
      BY <1>1, <1>3, <1>8, <2>3 DEF SendEntry
    <3>2. CASE Send(1)
      BY <1>4, <2>1, <3>1, <3>2
    <3>3. CASE offset' = offset + 1 /\ UNCHANGED <<backlog, owner, ready, events, clientVars>>
      BY <1>5, <2>1, <3>1, <3>3
    <3> QED
      BY <1>8, <2>3, <3>2, <3>3 DEF SendEntry
  <2> QED
    BY <2>2, <2>3
<1>9. CASE SendFails
  BY <1>2, <1>3, <1>5, <1>9 DEF SendFails
<1> QED
  BY <1>6, <1>7, <1>8, <1>9

(* close: what the connection leaves behind is whole.                      *)
LEMMA ReplyClose ==
  ASSUME ReplyInv, Close
  PROVE  ServeInv' /\ \A c \in Clients : Replies(c)'
<1> USE DEF ReplyInv
<1>0. pc = "close" /\ pc \in Busy
  BY DEF Close, Busy
<1>1. PICK c \in Clients : c = Current
  BY <1>0, ServingIs
<1>2. /\ pc' = "dispatch" /\ offset' = 0 /\ link' = [link EXCEPT ![c] = "shut"]
      /\ UNCHANGED <<want, asked, sent, unread, outbox, received, gone>>
  BY <1>1 DEF Close
<1>3. /\ Serving(c) /\ \A d \in Clients : Serving(d) => d = c
      /\ \A d \in Clients : ~Serving(d)'
  BY <1>0, <1>1, <1>2, ServingIs DEF Serving, Busy
<1>4. link'[c] = "shut" /\ \A d \in Clients \ {c} : link'[d] = link[d]
  BY <1>2 DEF ServerInv, TypeOK
<1>5. ServeInv'
  <2>1. \A d \in Clients : asked[d] # None => link'[d] = "shut"
    BY <1>0, <1>3, <1>4 DEF ServeInv
  <2>2. 0 \in 0 .. Size
    BY BodyFacts
  <2> QED
    BY <1>2, <2>1, <2>2 DEF ServeInv
<1>6. ASSUME NEW d \in Clients, d # c PROVE Replies(d)'
  <2>1. ~Serving(d) /\ ~Serving(d)'
    BY <1>3, <1>6
  <2> QED
    BY <1>2, <1>4, <1>6, <2>1, RepliesKept
<1>7. ASSUME c \notin gone PROVE Replies(c)'
  <2>1. Reply(c)' = Reply(c) /\ (AllRead(c)' <=> AllRead(c))
    BY <1>2 DEF Reply, AllRead
  <2>2. Whole(c)' <=> Whole(c)
    BY <1>2, <2>1 DEF Whole
  <2> QED
    BY <1>0, <1>2, <1>3, <1>4, <1>7, <2>1, <2>2 DEF Replies
<1>8. c \in gone => Replies(c)'
  BY <1>2 DEF Replies
<1> QED
  BY <1>5, <1>6, <1>7, <1>8

(* What a client does concerns its own reply.                              *)
LEMMA OtherClients ==
  ASSUME ReplyInv, NEW c \in Clients, Connect(c) \/ client(c) \/ GoAway(c)
  PROVE  /\ UNCHANGED <<owner, events, pc, offset>> /\ Current' = Current
         /\ \A d \in Clients : Serving(d)' <=> Serving(d)
         /\ \A d \in Clients \ {c} :
              /\ link'[d] = link[d] /\ want'[d] = want[d] /\ asked'[d] = asked[d]
              /\ sent'[d] = sent[d] /\ unread'[d] = unread[d]
              /\ outbox'[d] = outbox[d] /\ received'[d] = received[d]
              /\ d \in gone <=> d \in gone'
         /\ \A d \in Clients \ {c} : Replies(d)'
<1> USE DEF ReplyInv, ServerInv, TypeOK, ServeInv
<1>1. UNCHANGED <<owner, events, pc, offset>>
  BY DEF Connect, client, GoAway, Request, Read, Reset, Finish, serverVars
<1>2. Current' = Current /\ \A d \in Clients : Serving(d)' <=> Serving(d)
  BY <1>1 DEF Current, Serving
<1>3. ASSUME NEW d \in Clients \ {c}
      PROVE  /\ link'[d] = link[d] /\ want'[d] = want[d] /\ asked'[d] = asked[d]
             /\ sent'[d] = sent[d] /\ unread'[d] = unread[d]
             /\ outbox'[d] = outbox[d] /\ received'[d] = received[d]
             /\ d \in gone <=> d \in gone'
  <2>1. CASE Connect(c)
    BY <2>1 DEF Connect
  <2>2. CASE Request(c)
    BY <2>2 DEF Request
  <2>3. CASE Read(c)
    BY <2>3 DEF Read
  <2>4. CASE Reset(c)
    BY <2>4 DEF Reset
  <2>5. CASE Finish(c)
    BY <2>5 DEF Finish
  <2>6. CASE GoAway(c)
    BY <2>6 DEF GoAway
  <2> QED
    BY <2>1, <2>2, <2>3, <2>4, <2>5, <2>6 DEF client
<1>4. \A d \in Clients \ {c} : Replies(d)'
  <2> SUFFICES ASSUME NEW d \in Clients \ {c} PROVE Replies(d)'
    OBVIOUS
  <2> HIDE DEF ServerInv, TypeOK, ServeInv
  <2>1. Replies(d) /\ (Serving(d)' <=> Serving(d)) /\ pc' = pc /\ offset' = offset
    BY <1>1, <1>2
  <2> QED
    BY <1>3, <2>1, RepliesKept
<1> QED
  BY <1>1, <1>2, <1>3, <1>4

LEMMA ReplyClient ==
  ASSUME ReplyInv, NEW c \in Clients, Connect(c) \/ client(c) \/ GoAway(c)
  PROVE  ServeInv' /\ \A d \in Clients : Replies(d)'
<1>0. /\ Serving(c) => link[c] = "open" /\ pc \in Busy
      /\ pc \in Busy => Current \in Clients /\ link[Current] = "open"
  BY ServingIs DEF ReplyInv, Serving
<1>1. /\ UNCHANGED <<owner, events, pc, offset>> /\ Current' = Current
      /\ \A d \in Clients : Serving(d)' <=> Serving(d)
      /\ \A d \in Clients \ {c} : link'[d] = link[d] /\ asked'[d] = asked[d]
      /\ \A d \in Clients \ {c} : d \in gone <=> d \in gone'
      /\ \A d \in Clients \ {c} : Replies(d)'
  BY OtherClients
<1>2. /\ link \in [Clients -> {"off", "queued", "open", "shut"}]
      /\ asked \in [Clients -> Kinds \cup {None}] /\ unread \in [Clients -> Nat]
      /\ want \in [Clients -> Kinds \cup {None}] /\ sent \in [Clients -> Nat]
      /\ outbox \in [Clients -> Seq(Pieces)] /\ received \in [Clients -> Seq(Pieces)]
      /\ << >> \in Seq(Pieces) /\ gone \subseteq Clients
  BY DEF ReplyInv, ServerInv, TypeOK, ServeInv
<1>3. CASE Connect(c) \/ Request(c) \/ GoAway(c)
  <2>1. /\ UNCHANGED <<asked, received>> /\ outbox' \in [Clients -> Seq(Pieces)]
        /\ gone \subseteq gone'
        /\ link'[c] = link[c] \/ link[c] = "off"
    BY <1>2, <1>3 DEF Connect, Request, GoAway
  <2>2. ServeInv'
    <3>1. link[c] = "off" => asked[c] = None
      BY <1>0 DEF ReplyInv, ServeInv
    <3>2. ASSUME NEW d \in Clients, asked[d] # None
          PROVE  \/ link'[d] = "shut" \/ Serving(d)'
                 \/ pc = "killed" /\ d \in gone' /\ link'[d] = "open"
      <4>1. link'[d] = link[d]
        BY <1>1, <2>1, <3>1, <3>2
      <4> QED
        BY <1>1, <2>1, <3>2, <4>1 DEF ReplyInv, ServeInv
    <3> QED
      BY <1>1, <2>1, <3>2 DEF ReplyInv, ServeInv
  <2>3. Replies(c)'
    <3>1. CASE Connect(c)
      <4>1. /\ link[c] = "off" /\ link'[c] = "queued" /\ asked'[c] = None
            /\ UNCHANGED <<outbox, received, gone>>
        BY <1>0, <1>2, <3>1 DEF Connect, ReplyInv, ServeInv
      <4>2. ~Serving(c) /\ ~Serving(c)' /\ Reply(c)' = Reply(c)
        BY <1>0, <1>1, <4>1 DEF Reply
      <4> QED
        BY <4>1, <4>2 DEF Replies, ReplyInv
    <3>2. CASE Request(c)
      <4>1. /\ link[c] # "shut" /\ ~AllRead(c)' /\ c \notin gone
            /\ UNCHANGED <<link, asked, outbox, received, gone>>
        BY <1>2, <3>2 DEF Request, AllRead
      <4>2. Reply(c)' = Reply(c) /\ (UpTo(offset)' = UpTo(offset))
        BY <1>1, <4>1 DEF Reply, UpTo
      <4> QED
        BY <1>1, <4>1, <4>2 DEF Replies, ReplyInv
    <3>3. CASE GoAway(c)
      BY <3>3 DEF GoAway, Replies
    <3> QED
      BY <1>3, <3>1, <3>2, <3>3
  <2> QED
    BY <1>1, <2>2, <2>3
<1>4. CASE Read(c)
  <2>1. /\ received' = [received EXCEPT ![c] = Append(received[c], Head(outbox[c]))]
        /\ outbox' = [outbox EXCEPT ![c] = Tail(outbox[c])]
        /\ c \notin gone /\ outbox[c] # << >>
        /\ UNCHANGED <<link, want, asked, sent, unread, gone>>
    BY <1>4 DEF Read
  <2>2. /\ Append(received[c], Head(outbox[c])) \o Tail(outbox[c]) = Reply(c)
        /\ Append(received[c], Head(outbox[c])) \in Seq(Pieces)
        /\ Tail(outbox[c]) \in Seq(Pieces)
    BY <1>2, <2>1, ReadKeeps DEF Reply
  <2>3. /\ received' \in [Clients -> Seq(Pieces)] /\ outbox' \in [Clients -> Seq(Pieces)]
        /\ Reply(c)' = Reply(c)
    BY <1>2, <2>1, <2>2 DEF Reply
  <2>4. ServeInv'
    BY <1>1, <2>1, <2>3 DEF ReplyInv, ServeInv
  <2>5. Replies(c)'
    <3>1. (AllRead(c)' <=> AllRead(c)) /\ (Whole(c)' <=> Whole(c)) /\ UpTo(offset)' = UpTo(offset)
      BY <1>1, <2>1, <2>3 DEF AllRead, Whole, UpTo
    <3> QED
      BY <1>1, <2>1, <2>3, <3>1 DEF Replies, ReplyInv
  <2> QED
    BY <1>1, <2>4, <2>5
<1>5. CASE Reset(c)
  <2>1. /\ link[c] = "shut" /\ ~AllRead(c) /\ outbox' = [outbox EXCEPT ![c] = << >>]
        /\ UNCHANGED <<link, want, asked, sent, unread, received, gone>>
    BY <1>5 DEF Reset
  <2>2. ServeInv'
    <3>1. outbox' \in [Clients -> Seq(Pieces)]
      BY <1>2, <2>1
    <3> QED
      BY <1>1, <2>1, <3>1 DEF ReplyInv, ServeInv
  <2>3. Replies(c)'
    BY <1>0, <1>1, <2>1 DEF Replies, AllRead
  <2> QED
    BY <1>1, <2>2, <2>3
<1>6. CASE Finish(c)
  <2>1. /\ link[c] = "shut" /\ outbox[c] = << >> /\ outbox' = outbox
        /\ link' = [link EXCEPT ![c] = "off"] /\ asked' = [asked EXCEPT ![c] = None]
        /\ received' = [received EXCEPT ![c] = << >>]
    BY <1>6 DEF Finish
  <2>2. link'[c] = "off" /\ asked'[c] = None /\ received'[c] = << >> /\ Reply(c)' = << >>
    BY <1>2, <2>1 DEF Reply
  <2>3. ServeInv'
    <3>1. /\ outbox' \in [Clients -> Seq(Pieces)] /\ received' \in [Clients -> Seq(Pieces)]
          /\ pc \in Busy => asked'[Current] = asked[Current]
      BY <1>0, <1>1, <1>2, <2>1
    <3>2. ASSUME NEW d \in Clients, asked'[d] # None
          PROVE  \/ link'[d] = "shut" \/ Serving(d)'
                 \/ pc = "killed" /\ d \in gone' /\ link'[d] = "open"
      <4>1. d \in Clients \ {c}
        BY <2>2, <3>2
      <4> QED
        BY <1>1, <3>2, <4>1 DEF ReplyInv, ServeInv
    <3> QED
      BY <1>1, <3>1, <3>2 DEF ReplyInv, ServeInv, Busy
  <2>4. Replies(c)'
    BY <1>0, <1>1, <2>1, <2>2 DEF Replies
  <2> QED
    BY <1>1, <2>3, <2>4
<1> QED
  BY <1>3, <1>4, <1>5, <1>6 DEF client

LEMMA ReplyInit == Init => ReplyInv
<1> SUFFICES ASSUME Init PROVE ReplyInv
  OBVIOUS
<1>1. << >> \in Seq(Pieces) /\ << >> \o << >> = << >> /\ 0 \in 0 .. Size
  BY BodyFacts
<1>2. ServeInv
  BY <1>1 DEF Init, ServeInv
<1>3. \A c \in Clients : Replies(c)
  BY <1>1 DEF Init, Replies, Reply, Serving, Busy
<1> QED
  BY <1>2, <1>3, ServerInit DEF ReplyInv

LEMMA ReplyStep == ReplyInv /\ [Next]_vars => ReplyInv'
<1> SUFFICES ASSUME ReplyInv, [Next]_vars PROVE ReplyInv'
  OBVIOUS
<1>1. ServerInv'
  BY ServerStep DEF ReplyInv
<1>2. CASE server
  <2>1. ServeInv' /\ \A c \in Clients : Replies(c)'
    BY <1>2, ReplyMain, ReplyReceive, ReplyAnswer, ReplyBody, ReplyClose DEF server
  <2> QED
    BY <1>1, <2>1 DEF ReplyInv
<1>3. CASE \E c \in Clients : Connect(c) \/ client(c) \/ GoAway(c)
  <2>1. ServeInv' /\ \A c \in Clients : Replies(c)'
    BY <1>3, ReplyClient
  <2> QED
    BY <1>1, <2>1 DEF ReplyInv
<1>4. CASE UNCHANGED vars
  <2>1. ServeInv'
    BY <1>4 DEF vars, serverVars, clientVars, ReplyInv, ServeInv, Serving, Current
  <2>2. \A c \in Clients : Replies(c)'
    BY <1>4 DEF vars, serverVars, clientVars, ReplyInv, Replies, Reply, Serving, Current,
                UpTo, Whole, AllRead
  <2> QED
    BY <1>1, <2>1, <2>2 DEF ReplyInv
<1> QED
  BY <1>2, <1>3, <1>4 DEF Next

LEMMA PrefixFacts ==
  ASSUME NEW s \in Seq(Pieces)
  PROVE  IsPrefix(s, s) /\ IsPrefix(<< >>, s)
  BY DEF IsPrefix

(* What the server gives: a prefix of the reply that the code has for the  *)
(* path, and all of it but for an index.html and a listing.                *)
LEMMA RepliesAsCoded ==
  ASSUME ReplyInv, NEW c \in Clients \ gone, asked[c] # None, AllRead(c)
  PROVE  /\ asked[c] = want[c]
         /\ asked[c] # "listing" => IsPrefix(Reply(c), ReplyTo(want[c]))
         /\ link[c] = "shut" /\ asked[c] \notin {"listing", "index"}
              => Reply(c) = ReplyTo(want[c])
<1>1. /\ asked[c] = want[c] /\ asked[c] \in Kinds /\ Replies(c)
      /\ link[c] = "shut" \/ Serving(c)
  BY DEF ReplyInv, ServerInv, TypeOK, ServeInv, Replies
<1>2. CASE link[c] = "shut" \/ (Serving(c) /\ pc = "close")
  <2>1. Whole(c)
    BY <1>1, <1>2 DEF Replies
  <2>2. CASE asked[c] \in Kinds \ {"index", "listing"}
    <3>1. Reply(c) = ReplyTo(want[c]) /\ ReplyTo(want[c]) \in Seq(Pieces)
      <4>1. /\ <<"403">> \in Seq(Pieces) /\ <<"404">> \in Seq(Pieces)
            /\ UpTo(Size) \in Seq(Pieces) /\ << >> \in Seq(Pieces)
        BY BodyFacts, UpToIs DEF Pieces
      <4>2. Reply(c) = ReplyTo(asked[c])
        BY <2>1, <2>2 DEF Whole
      <4>3. asked[c] \in {"outside", "sibling", "missing", "vanished", "unreadable", "file"}
        BY <2>2, ReplyCases
      <4>4. ReplyTo(asked[c]) \in Seq(Pieces)
        BY <4>1, <4>3, ReplyCases
      <4> QED
        BY <1>1, <4>2, <4>4
    <3> QED
      BY <1>1, <2>2, <3>1, PrefixFacts
  <2>3. CASE asked[c] = "index"
    BY <1>1, <2>1, <2>3, UpToEnds, ReplyCases DEF Whole
  <2>4. CASE asked[c] = "listing"
    BY <1>1, <2>4
  <2> QED
    BY <1>1, <2>2, <2>3, <2>4
<1>3. CASE link[c] # "shut" /\ Serving(c) /\ pc = "answer"
  <2>1. Reply(c) = << >>
    BY <1>1, <1>3 DEF Replies
  <2>2. ReplyTo(want[c]) \in Seq(Pieces)
    <3>1. /\ <<"403">> \in Seq(Pieces) /\ <<"404">> \in Seq(Pieces)
          /\ UpTo(Size) \in Seq(Pieces) /\ << >> \in Seq(Pieces)
      BY BodyFacts, UpToIs DEF Pieces
    <3> QED
      BY <1>1, <3>1, ReplyCases, UpToEnds
  <2> QED
    BY <1>1, <1>3, <2>1, <2>2, PrefixFacts
<1>4. CASE link[c] # "shut" /\ Serving(c) /\ pc = "body"
  <2>1. /\ asked[c] \in {"file", "sibling", "index", "listing"} /\ offset \in 0 .. Size
        /\ asked[c] # "listing" => Reply(c) = UpTo(offset)
    BY <1>1, <1>4 DEF Replies, ReplyInv, ServeInv, Serving
  <2> QED
    BY <1>1, <1>4, <2>1, UpToEnds, ReplyCases
<1> QED
  BY <1>1, <1>2, <1>3, <1>4 DEF Serving, Busy

(* Where the code has the reply that is required.                          *)
LEMMA RequiredCases ==
  \A k \in {"file", "outside", "vanished", "index"} : Required(k) = ReplyTo(k)
  BY DEF Required, ReplyTo

LEMMA RepliesAreRight == ReplyInv => RepliesRight
<1> SUFFICES ASSUME ReplyInv, NEW c \in Clients \ gone, asked[c] # None, AllRead(c)
             PROVE  /\ asked[c] = want[c]
                    /\ asked[c] \in {"file", "vanished", "outside", "index"}
                         => IsPrefix(Reply(c), Required(want[c]))
                    /\ link[c] = "shut" /\ asked[c] \in {"file", "vanished", "outside"}
                         => Reply(c) = Required(want[c])
  BY DEF RepliesRight, Reply
<1>1. /\ asked[c] = want[c]
      /\ asked[c] # "listing" => IsPrefix(Reply(c), ReplyTo(want[c]))
      /\ link[c] = "shut" /\ asked[c] \notin {"listing", "index"}
           => Reply(c) = ReplyTo(want[c])
  BY RepliesAsCoded
<1>2. asked[c] \in {"file", "vanished", "outside", "index"}
        => Required(want[c]) = ReplyTo(want[c])
  BY <1>1, RequiredCases
<1> QED
  BY <1>1, <1>2

(* A client that stays and whose whole request was received is answered    *)
(* for what it asked for.  For a file, a file that was just deleted and a  *)
(* path outside of the directory it gets the pieces of the reply that is   *)
(* required in order, and all of them from a connection that is shut; for  *)
(* an index.html, the beginning (handle_request, send_all_sendfile).  For  *)
(* any number of clients, any size of the file and any room in the sockets.*)
THEOREM RepliesInOrder == Spec => []RepliesRight
  BY ReplyInit, ReplyStep, RepliesAreRight, PTL DEF Spec
=============================================================================
