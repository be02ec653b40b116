---------------------------- MODULE TreeChatProofs ----------------------------
(***************************************************************************)
(* Proofs about TreeChat for any forest of programs, any number of lines   *)
(* and any number of faults: PrintedOnce, AuthorsOrder and Custody, and    *)
(* SettledMeansDelivered when the forest is one tree.                      *)
(*                                                                         *)
(* A registration is sent once, so a link of the forest stands in a list   *)
(* once at most (Forest).  The numbers of a link are given once, so a      *)
(* number stands for one line (Numbers, Agree).  When a link is cut the    *)
(* forest falls into two sides: what crosses the link was typed on the far *)
(* side, hence no line comes back to its author and none is accepted from  *)
(* two neighbours (Directed, Sourced, Came).  Along a link the lines of an *)
(* author keep their order, in the queues and in flight, from the author   *)
(* to the last one to print them (QueueOrder, LinkOrder, PrintOrder,       *)
(* NextOrder); a repetition has the number of a line whose confirm was not *)
(* sent.  Custody follows from a count of confirms: those counted and      *)
(* those under way are of numbers the receiver has accepted (Receipts).    *)
(*                                                                         *)
(* That all is delivered needs every link to be listed at both ends.  A    *)
(* connect() that takes another datagram than the name for the name starts *)
(* a program its parent may never list; but the datagram was one of a      *)
(* child, and then some program below that child never works (Unheard).    *)
(* So when all work, all are heard, and Custody (with Relaying) carries a  *)
(* line from its author to the root and from there to everybody.           *)
(***************************************************************************)
EXTENDS TreeChat, SequenceTheorems, TLAPS

-----------------------------------------------------------------------------
(* The forest: who may be a neighbour of whom, and what lies behind a link. *)

Adjacent(p, n) == Parent[p] = n \/ Parent[n] = p

(* The programs that register, over others, with p, and p itself.           *)
Closed(S) == \A c \in Nodes : Parent[c] \in S => c \in S
Below(p) == {x \in Nodes : \A S \in SUBSET Nodes : p \in S /\ Closed(S) => x \in S}

(* What is on the side of p when the link of p and n is cut.                *)
Side(p, n) == IF Parent[p] = n THEN Below(p) ELSE Nodes \ Below(n)

(* How many copies of a datagram are under way.                             *)
Copies(d, bag) == IF BagIn(d, bag) THEN bag[d] ELSE 0

-----------------------------------------------------------------------------
(* Each link is one of the forest and stands in a list once, because a      *)
(* registration is sent once.                                               *)
Distinct(s) == \A i, j \in DOMAIN s : s[i] = s[j] => i = j

Edges ==
  /\ \A n, p \in Nodes : Contains(nodes[n], p) \/ Contains(sending[n].rest, p) => Adjacent(n, p)
  /\ \A c, p \in Nodes : BagIn(Datagram("R", c, p), network) => Parent[c] = p

Once == \A n \in Nodes : Distinct(nodes[n]) /\ Distinct(sending[n].rest)

Joins ==
  /\ \A c \in Nodes : phase[c] = "connecting" => Parent[c] \in Nodes
  /\ \A c, p \in Nodes : Parent[c] = p =>
       /\ phase[c] = "off" => Copies(Datagram("R", c, p), network) = 0 /\ ~Contains(nodes[p], c)
       /\ phase[c] \in {"off", "connecting"} => ~Contains(nodes[c], p)
       /\ Copies(Datagram("R", c, p), network) <= 1
       /\ BagIn(Datagram("R", c, p), network) => ~Contains(nodes[p], c)

Forest == Edges /\ Once /\ Joins

-----------------------------------------------------------------------------
(* A message is kept for a resend or under way, from p to n.                *)
Waits(queue, n, u, l) ==
  \E i \in DOMAIN queue : queue[i].to = n /\ queue[i].uid = u /\ queue[i].line = l
Kept(p, n, u, l) == Waits(checkQueue[p], n, u, l)
Carried(p, n, u, l) == Kept(p, n, u, l) \/ BagIn(MessageTo(n, p, u, l), network)

Numbers ==
  \A p, n \in Nodes :
    /\ recieved[n][p] <= sent[p][n] + 1
    /\ \A u \in Nat, l \in Lines : Carried(p, n, u, l) => u \in 1..sent[p][n]

(* A number stands for one line.                                            *)
Agree ==
  \A p, n \in Nodes, u \in Nat, l, m \in Lines :
    Carried(p, n, u, l) /\ Carried(p, n, u, m) => l = m

-----------------------------------------------------------------------------
(* Lines come from where their author is.                                   *)
Directed ==
  /\ \A p \in Nodes, m \in Messages : Contains(messageQueue[p], m) =>
       IF m.from \in Nodes THEN Adjacent(m.from, p) /\ m.line.by \in Side(m.from, p)
       ELSE m.line.by = p
  /\ \A p, n \in Nodes : Contains(sending[p].rest, n) => sending[p].line.by \in Side(p, n)
  /\ \A p, n \in Nodes, u \in Nat, l \in Lines : Carried(p, n, u, l) => l.by \in Side(p, n)

(* The lines a program still has something to do with.                      *)
Held(p, l) ==
  \/ \E m \in Messages : Contains(messageQueue[p], m) /\ m.line = l
  \/ sending[p].rest # <<>> /\ sending[p].line = l
  \/ \E n \in Nodes, u \in Nat : Carried(p, n, u, l)

(* They were typed there or printed there before ...                        *)
Owned(p, l) == IF l.by = p THEN l.k <= typed[p] ELSE Contains(printed[p], l)
Sourced == \A p \in Nodes, l \in Lines : Held(p, l) => Owned(p, l)

(* ... and what is printed came from the neighbour in the author's          *)
(* direction.                                                               *)
Came ==
  \A n \in Nodes, l \in Lines : Contains(printed[n], l) =>
    /\ l.k <= typed[l.by]
    /\ \E p \in Nodes : Adjacent(p, n) /\ l.by \in Side(p, n) /\ Owned(p, l)

-----------------------------------------------------------------------------
(* The order of an author's lines, strict unless a confirm was not sent.    *)
Before(l, m) == l.by = m.by => l.k <= m.k /\ (~unconfirmed => l.k < m.k)

(* Queue, loop and links of a program, from the last to the first.          *)
QueueOrder ==
  \A p \in Nodes :
    /\ \A i, j \in DOMAIN messageQueue[p] :
         i < j => Before(messageQueue[p][i].line, messageQueue[p][j].line)
    /\ sending[p].rest # <<>> =>
         \A m \in Messages : Contains(messageQueue[p], m) => Before(sending[p].line, m.line)

LinkOrder ==
  \A p, n \in Nodes, u \in Nat, l \in Lines : Carried(p, n, u, l) =>
    /\ \A m \in Messages : Contains(messageQueue[p], m) => Before(l, m.line)
    /\ Contains(sending[p].rest, n) => Before(l, sending[p].line)
    /\ \A v \in Nat, m \in Lines : u < v /\ Carried(p, n, v, m) => Before(l, m)

(* What is printed, and what is still to come.                              *)
PrintOrder ==
  \A n \in Nodes : \A i, j \in DOMAIN printed[n] : i < j => Before(printed[n][i], printed[n][j])

NextOrder ==
  \A n, p \in Nodes, l \in Lines : Contains(printed[n], l) /\ Adjacent(p, n) =>
    /\ \A u \in Nat, m \in Lines : Carried(p, n, u, m) /\ u >= recieved[n][p] => Before(l, m)
    /\ Contains(sending[p].rest, n) => Before(l, sending[p].line)
    /\ \A m \in Messages : Contains(messageQueue[p], m) /\ m.from # n => Before(l, m.line)

Flow == Directed /\ Sourced /\ Came /\ QueueOrder /\ LinkOrder /\ PrintOrder /\ NextOrder

-----------------------------------------------------------------------------
(* The confirms counted and under way are no more than were sent, and a     *)
(* task whose number the receiver has passed is done.                       *)
Balance ==
  \A n, p \in Nodes :
    lastDelivered[n][p] + Copies(Datagram("C", p, n), network) < recieved[p][n]

Answered ==
  \A n, p \in Nodes, u \in Nat, l \in Lines :
    Kept(n, p, u, l) /\ u < recieved[p][n] => Contains(printed[p], l)

Latest ==
  \A n \in Nodes : sending[n].rest # <<>> =>
    Len(taken[n]) > 0 /\ sending[n].line = taken[n][Len(taken[n])].line

(* Custody, with the task as it is looked at above.                         *)
Answers(n, p, j) ==
  \/ Contains(printed[p], taken[n][j].line)
  \/ \E u \in Nat : Kept(n, p, u, taken[n][j].line)
  \/ j = Len(taken[n]) /\ Contains(sending[n].rest, p)

Charge ==
  ~threw =>
    \A n, p \in Nodes : Contains(nodes[n], p) =>
      \A j \in (since[n][p] + 1)..Len(taken[n]) : taken[n][j].from # p => Answers(n, p, j)

Receipts == Balance /\ Answered /\ Latest /\ Charge

Inv == TypeOK /\ Forest /\ Numbers /\ Agree /\ Flow /\ Receipts

-----------------------------------------------------------------------------
(* Everybody is heard in the end, if all programs work.                     *)

(* n is a neighbour of p, and p lists it if n is to register with p.        *)
Knows(p, n) == Adjacent(p, n) /\ (~removed /\ Parent[n] = p => Contains(nodes[p], n))

(* A program talks to those it knows, and says nothing before it works but  *)
(* that it registers.                                                       *)
Started(n) == phase[n] \in {"working", "closed"}
Traffic ==
  /\ \A d : BagIn(d, network) => Knows(d.from, d.to) /\ (d.type # "R" => Started(d.from))
  /\ \A p, n \in Nodes : Contains(sending[p].rest, n) => Knows(p, n)
  /\ \A p, n \in Nodes, u \in Nat, l \in Lines : Kept(p, n, u, l) => Knows(p, n)
  /\ \A n, p \in Nodes : Contains(nodes[n], p) => Started(n)

(* A parent that does not list a program that lists it: below the program   *)
(* another one has ended, works without its parent, or waits in vain,       *)
(* because its registration was taken for the name of a parent.             *)
Lost(x) ==
  \/ phase[x] = "closed"
  \/ phase[x] = "working" /\ \E p \in Nodes : Parent[x] = p /\ ~Contains(nodes[x], p)
  \/ /\ phase[x] = "connecting"
     /\ \E p \in Nodes : Parent[x] = p /\ ~Contains(nodes[p], x) /\ ~BagIn(Datagram("R", x, p), network)
Doomed(c) == \E x \in Nodes : Parent[x] = c /\ \E y \in Below(x) : Lost(y)
Unheard ==
  ~removed => \A c, p \in Nodes :
                Parent[c] = p /\ phase[c] = "working" /\ Contains(nodes[c], p) /\ ~Contains(nodes[p], c)
                  => Doomed(c)

Heard == Traffic /\ Unheard

(* What a program has typed or printed it relays, and what it relays for a  *)
(* neighbour the neighbour has typed or printed.                            *)
Relays(n, m) == Contains(messageQueue[n], m) \/ Contains(taken[n], m)
Relaying ==
  /\ \A n \in Nodes, l \in Lines : Owned(n, l) => \E m \in Messages : m.line = l /\ Relays(n, m)
  /\ \A n \in Nodes, m \in Messages : Relays(n, m) /\ m.from \in Nodes => Owned(m.from, m.line)

-----------------------------------------------------------------------------
(* Sequences                                                                *)

LEMMA ContainsAppend ==
  ASSUME NEW S, NEW s \in Seq(S), NEW e \in S
  PROVE  /\ Append(s, e) \in Seq(S) /\ Len(Append(s, e)) = Len(s) + 1
         /\ \A i \in DOMAIN s : i \in DOMAIN Append(s, e) /\ Append(s, e)[i] = s[i]
         /\ Append(s, e)[Len(s) + 1] = e
         /\ DOMAIN Append(s, e) = DOMAIN s \cup {Len(s) + 1} /\ \A i \in DOMAIN s : i < Len(s) + 1
         /\ \A x : Contains(Append(s, e), x) <=> Contains(s, x) \/ x = e
<1>1. /\ Append(s, e) \in Seq(S) /\ Len(Append(s, e)) = Len(s) + 1
      /\ \A i \in 1..Len(s) : Append(s, e)[i] = s[i]
      /\ Append(s, e)[Len(s) + 1] = e
  BY AppendProperties
<1>2. DOMAIN s = 1..Len(s) /\ DOMAIN Append(s, e) = 1..(Len(s) + 1) /\ Len(s) \in Nat
  BY <1>1
<1>3. \A x : Contains(Append(s, e), x) <=> Contains(s, x) \/ x = e
  BY <1>1, <1>2 DEF Contains
<1>. QED
  BY <1>1, <1>2, <1>3

LEMMA ContainsTail ==
  ASSUME NEW S, NEW s \in Seq(S), s # <<>>
  PROVE  /\ Head(s) = s[1] /\ Head(s) \in S /\ 1 \in DOMAIN s /\ Tail(s) \in Seq(S)
         /\ Len(s) \in Nat \ {0} /\ DOMAIN s = 1..Len(s) /\ DOMAIN Tail(s) = 1..(Len(s) - 1)
         /\ \A i \in DOMAIN Tail(s) : i + 1 \in DOMAIN s /\ Tail(s)[i] = s[i + 1]
         /\ \A x : Contains(s, x) <=> x = Head(s) \/ Contains(Tail(s), x)
<1>1. /\ Head(s) = s[1] /\ Head(s) \in S /\ 1 \in DOMAIN s /\ Tail(s) \in Seq(S)
      /\ Len(s) \in Nat \ {0} /\ DOMAIN s = 1..Len(s) /\ DOMAIN Tail(s) = 1..(Len(s) - 1)
      /\ Len(Tail(s)) = Len(s) - 1
      /\ \A i \in DOMAIN Tail(s) : i + 1 \in DOMAIN s /\ Tail(s)[i] = s[i + 1]
  OBVIOUS
<1>2. ASSUME NEW x, Contains(s, x), x # Head(s) PROVE Contains(Tail(s), x)
  <2>1. PICK i \in 1..Len(s) : s[i] = x
    BY <1>2 DEF Contains
  <2>2. i - 1 \in DOMAIN Tail(s) /\ i - 1 \in 1..Len(Tail(s))
    BY <1>1, <1>2, <2>1
  <2>3. Tail(s)[i - 1] = s[(i - 1) + 1]
    BY <1>1, <2>2
  <2>. QED
    BY <2>1, <2>2, <2>3 DEF Contains
<1>3. ASSUME NEW x, x = Head(s) \/ Contains(Tail(s), x) PROVE Contains(s, x)
  BY <1>1, <1>3 DEF Contains
<1>. QED
  BY <1>1, <1>2, <1>3

LEMMA EmptyContains ==
  /\ \A x : ~Contains(<<>>, x)
  /\ \A S : <<>> \in Seq(S)
  /\ Distinct(<<>>)
BY DEF Contains, Distinct

LEMMA DistinctTail ==
  ASSUME NEW S, NEW s \in Seq(S), s # <<>>, Distinct(s)
  PROVE  Distinct(Tail(s)) /\ ~Contains(Tail(s), Head(s))
<1>1. /\ Head(s) = s[1] /\ 1 \in DOMAIN s
      /\ Len(s) \in Nat \ {0} /\ DOMAIN s = 1..Len(s) /\ DOMAIN Tail(s) = 1..(Len(s) - 1)
      /\ 1..Len(Tail(s)) = 1..(Len(s) - 1)
      /\ \A i \in DOMAIN Tail(s) : i + 1 \in DOMAIN s /\ Tail(s)[i] = s[i + 1]
  OBVIOUS
<1>2. Distinct(Tail(s))
  BY <1>1 DEF Distinct
<1>3. ~Contains(Tail(s), Head(s))
  BY <1>1 DEF Distinct, Contains
<1>. QED
  BY <1>2, <1>3

LEMMA DistinctAppend ==
  ASSUME NEW S, NEW s \in Seq(S), NEW e \in S, Distinct(s), ~Contains(s, e)
  PROVE  Distinct(Append(s, e))
<1>1. /\ \A i \in DOMAIN s : Append(s, e)[i] = s[i]
      /\ Append(s, e)[Len(s) + 1] = e
      /\ DOMAIN Append(s, e) = DOMAIN s \cup {Len(s) + 1}
  BY ContainsAppend
<1>2. \A i \in DOMAIN s : s[i] # e
  BY DEF Contains
<1>. QED
  BY <1>1, <1>2 DEF Distinct

(* A sequence without its element at k.                                     *)
LEMMA LeftOut ==
  ASSUME NEW S, NEW s \in Seq(S), NEW k \in 1..Len(s)
  PROVE  /\ RemoveAt(s, k) \in Seq(S) /\ Len(RemoveAt(s, k)) = Len(s) - 1 /\ Len(s) \in Nat /\ k \in Nat
         /\ \A i \in 1..(Len(s) - 1) : RemoveAt(s, k)[i] = IF i < k THEN s[i] ELSE s[i + 1]
<1>1. Len(s) \in Nat /\ k \in Nat /\ k >= 1 /\ k <= Len(s)
  BY LenProperties
<1>2. \A i \in 1..Len(s) : s[i] \in S
  BY LenProperties
<1>3. PICK u : u = SubSeq(s, 1, k - 1)
  OBVIOUS
<1>4. PICK v : v = SubSeq(s, k + 1, Len(s))
  OBVIOUS
<1>5. u \in Seq(S) /\ Len(u) = k - 1 /\ \A i \in 1..(k - 1) : u[i] = s[i]
  <2>1. \A i \in 1..(k - 1) : s[i] \in S
    BY <1>1, <1>2
  <2>2. 1 \in Int /\ k - 1 \in Int
    BY <1>1
  <2>3. /\ u \in Seq(S) /\ Len(u) = IF 1 <= k - 1 THEN (k - 1) - 1 + 1 ELSE 0
        /\ \A i \in 1..((k - 1) - 1 + 1) : u[i] = s[1 + i - 1]
    BY <1>3, <2>1, <2>2, SubSeqProperties
  <2>. QED
    BY <1>1, <2>3
<1>6. v \in Seq(S) /\ Len(v) = Len(s) - k /\ \A i \in 1..(Len(s) - k) : v[i] = s[i + k]
  <2>1. \A i \in (k + 1)..Len(s) : s[i] \in S
    BY <1>1, <1>2
  <2>2. k + 1 \in Int /\ Len(s) \in Int
    BY <1>1
  <2>3. /\ v \in Seq(S) /\ Len(v) = IF k + 1 <= Len(s) THEN Len(s) - (k + 1) + 1 ELSE 0
        /\ \A i \in 1..(Len(s) - (k + 1) + 1) : v[i] = s[(k + 1) + i - 1]
    BY <1>4, <2>1, <2>2, SubSeqProperties
  <2>. QED
    BY <1>1, <2>3
<1>7. PICK r : r = u \o v
  OBVIOUS
<1>8. /\ r \in Seq(S) /\ Len(r) = Len(u) + Len(v)
      /\ \A i \in 1..(Len(u) + Len(v)) : r[i] = IF i <= Len(u) THEN u[i] ELSE v[i - Len(u)]
  BY <1>5, <1>6, <1>7, ConcatProperties
<1>9. ASSUME NEW i \in 1..(Len(s) - 1) PROVE r[i] = IF i < k THEN s[i] ELSE s[i + 1]
  <2>1. i \in 1..(Len(u) + Len(v))
    BY <1>1, <1>5, <1>6
  <2>2. CASE i < k
    BY <1>1, <1>5, <1>8, <2>1, <2>2
  <2>3. CASE ~(i < k)
    <3>1. i - (k - 1) \in 1..(Len(s) - k) /\ (i - (k - 1)) + k = i + 1 /\ ~(i <= Len(u))
      BY <1>1, <1>5, <2>3
    <3>2. r[i] = v[i - (k - 1)]
      BY <1>5, <1>8, <2>1, <3>1
    <3>. QED
      BY <1>6, <2>3, <3>1, <3>2
  <2>. QED
    BY <2>2, <2>3
<1>10. Len(r) = Len(s) - 1
  BY <1>1, <1>5, <1>6, <1>8
<1>. QED
  BY <1>1, <1>3, <1>4, <1>7, <1>8, <1>9, <1>10, Zenon DEF RemoveAt

(* What is left of a list without repetitions.                              *)
LEMMA Rest ==
  ASSUME NEW S, NEW s \in Seq(S), NEW e, Distinct(s)
  PROVE  /\ RemoveFirst(s, e) \in Seq(S) /\ Distinct(RemoveFirst(s, e))
         /\ \A x : Contains(RemoveFirst(s, e), x) <=> Contains(s, x) /\ x # e
<1>. DEFINE r == RemoveFirst(s, e)
<1>1. CASE ~Contains(s, e)
  <2>1. r = s
    BY <1>1 DEF RemoveFirst, Contains
  <2>. QED
    BY <1>1, <2>1
<1>2. CASE Contains(s, e)
  <2>. DEFINE I == {i \in 1..Len(s) : s[i] = e}
  <2>1. PICK k \in 1..Len(s) : s[k] = e
    BY <1>2 DEF Contains
  <2>2. I = {k}
    BY <2>1 DEF Distinct
  <2>3. Min(I) = k
    <3>1. \A x \in I : x = k
      BY <2>2
    <3>2. k \in I /\ \A y \in I : k <= y
      BY <2>1, <3>1
    <3>3. Min(I) \in I
      BY <3>2 DEF Min
    <3>. QED
      BY <3>1, <3>3
  <2>4. SelectInSeq(s, LAMBDA v : v = e) = k
    BY <2>2, <2>3 DEF SelectInSeq
  <2>5. r = RemoveAt(s, k)
    BY <2>1, <2>4 DEF RemoveFirst
  <2>6. /\ r \in Seq(S) /\ Len(r) = Len(s) - 1 /\ Len(s) \in Nat /\ k \in Nat
        /\ \A i \in 1..(Len(s) - 1) : r[i] = IF i < k THEN s[i] ELSE s[i + 1]
    <3>. HIDE DEF r
    <3>. QED
      BY <2>1, <2>5, LeftOut
  <2>7. DOMAIN r = 1..(Len(s) - 1) /\ DOMAIN s = 1..Len(s)
    BY <2>6
  <2>. HIDE DEF r
  <2>8. \A i \in 1..(Len(s) - 1) : r[i] # e
    BY SMTT(30), <2>1, <2>6, <2>7 DEF Distinct
  <2>9. Distinct(r)
    <3>1. ASSUME NEW i \in 1..(Len(s) - 1), NEW j \in 1..(Len(s) - 1), r[i] = r[j] PROVE i = j
      <4>1. PICK m \in DOMAIN s, n \in DOMAIN s : /\ r[i] = s[m] /\ r[j] = s[n]
                                                  /\ m = (IF i < k THEN i ELSE i + 1)
                                                  /\ n = (IF j < k THEN j ELSE j + 1)
        <5>1. (IF i < k THEN i ELSE i + 1) \in DOMAIN s /\ (IF j < k THEN j ELSE j + 1) \in DOMAIN s
          BY <2>6, <2>7
        <5>. QED
          BY <2>6, <5>1
      <4>2. m = n
        BY <3>1, <4>1 DEF Distinct
      <4>. QED
        BY <2>6, <4>1, <4>2
    <3>. QED
      BY <2>7, <3>1 DEF Distinct
  <2>10. ASSUME NEW x, Contains(r, x) PROVE Contains(s, x) /\ x # e
    <3>1. PICK i \in 1..(Len(s) - 1) : r[i] = x
      BY <2>6, <2>10 DEF Contains
    <3>2. i \in 1..Len(s) /\ i + 1 \in 1..Len(s)
      BY <2>6
    <3>. QED
      BY <2>6, <2>8, <3>1, <3>2 DEF Contains
  <2>11. ASSUME NEW x, Contains(s, x), x # e PROVE Contains(r, x)
    <3>1. PICK i \in 1..Len(s) : s[i] = x
      BY <2>11 DEF Contains
    <3>2. i # k
      BY <2>1, <2>11, <3>1
    <3>3. CASE i < k
      <4>1. i \in 1..(Len(s) - 1) /\ r[i] = x
        BY <2>6, <3>1, <3>3
      <4>. QED
        BY <2>6, <4>1 DEF Contains
    <3>4. CASE i > k
      <4>1. i - 1 \in 1..(Len(s) - 1) /\ ~(i - 1 < k) /\ (i - 1) + 1 = i
        BY <2>6, <3>1, <3>4
      <4>2. r[i - 1] = x
        BY <2>6, <3>1, <4>1
      <4>. QED
        BY <2>6, <4>1, <4>2 DEF Contains
    <3>. QED
      BY <2>6, <3>2, <3>3, <3>4
  <2>. QED
    BY <2>6, <2>9, <2>10, <2>11 DEF r
<1>. QED
  BY <1>1, <1>2

-----------------------------------------------------------------------------
(* Bags                                                                     *)

LEMMA PutIn ==
  ASSUME NEW B, IsABag(B), NEW e
  PROVE  /\ IsABag(B (+) SetToBag({e}))
         /\ \A x : BagIn(x, B (+) SetToBag({e})) <=> BagIn(x, B) \/ x = e
         /\ \A x : Copies(x, B (+) SetToBag({e})) = Copies(x, B) + IF x = e THEN 1 ELSE 0
<1>. DEFINE C == B (+) SetToBag({e})
<1>1. /\ DOMAIN C = DOMAIN B \cup {e}
      /\ \A x \in DOMAIN C : C[x] = (IF x \in DOMAIN B THEN B[x] ELSE 0) + (IF x = e THEN 1 ELSE 0)
  BY DEF (+), SetToBag
<1>2. \A x \in DOMAIN B : B[x] \in Nat /\ B[x] > 0
  BY DEF IsABag
<1>3. C = [x \in DOMAIN C |-> C[x]]
  BY DEF (+)
<1>. HIDE DEF C
<1>4. \A x \in DOMAIN C : C[x] \in Nat /\ C[x] > 0
  BY <1>1, <1>2
<1>5. IsABag(C)
  BY <1>3, <1>4 DEF IsABag
<1>6. \A x : BagIn(x, C) <=> BagIn(x, B) \/ x = e
  BY <1>1 DEF BagIn, BagToSet
<1>7. \A x : Copies(x, C) = Copies(x, B) + IF x = e THEN 1 ELSE 0
  BY <1>1, <1>2 DEF Copies, BagIn, BagToSet
<1>. QED
  BY <1>5, <1>6, <1>7 DEF C

LEMMA TakenOut ==
  ASSUME NEW B, IsABag(B), NEW e, BagIn(e, B)
  PROVE  /\ IsABag(B (-) SetToBag({e}))
         /\ \A x : BagIn(x, B (-) SetToBag({e})) => BagIn(x, B)
         /\ \A x : x # e => (BagIn(x, B (-) SetToBag({e})) <=> BagIn(x, B))
         /\ \A x : Copies(x, B (-) SetToBag({e})) = Copies(x, B) - IF x = e THEN 1 ELSE 0
<1>. DEFINE C == B (-) SetToBag({e})
<1>1. \A x \in DOMAIN B : B[x] \in Nat /\ B[x] > 0
  BY DEF IsABag
<1>2. e \in DOMAIN B
  BY DEF BagIn, BagToSet
<1>3. /\ DOMAIN C = {x \in DOMAIN B : x # e \/ B[x] > 1}
      /\ \A x \in DOMAIN C : C[x] = B[x] - IF x = e THEN 1 ELSE 0
      /\ C = [x \in DOMAIN C |-> C[x]]
  BY <1>1, <1>2 DEF (-), SetToBag
<1>. HIDE DEF C
<1>4. \A x \in DOMAIN C : C[x] \in Nat /\ C[x] > 0
  BY <1>1, <1>3
<1>5. IsABag(C)
  BY <1>3, <1>4 DEF IsABag
<1>6. (\A x : BagIn(x, C) => BagIn(x, B)) /\ \A x : x # e => (BagIn(x, C) <=> BagIn(x, B))
  BY <1>3 DEF BagIn, BagToSet
<1>7. \A x : Copies(x, C) = Copies(x, B) - IF x = e THEN 1 ELSE 0
  BY <1>1, <1>2, <1>3 DEF Copies, BagIn, BagToSet
<1>. QED
  BY <1>5, <1>6, <1>7 DEF C

LEMMA CopiesCount ==
  ASSUME NEW B, IsABag(B), NEW e
  PROVE  Copies(e, B) \in Nat /\ (BagIn(e, B) <=> Copies(e, B) > 0)
<1>1. \A x \in DOMAIN B : B[x] \in Nat /\ B[x] > 0
  BY DEF IsABag
<1>. QED
  BY <1>1 DEF Copies, BagIn, BagToSet

-----------------------------------------------------------------------------
(* The forest                                                               *)

LEMMA RankIsLower ==
  \E rank \in [Nodes -> Int] :
    \A n \in Nodes, p \in Nodes : Parent[n] = p => rank[p] < rank[n]
<1>1. PICK rank \in [Nodes -> 1..Cardinality(Nodes)] :
        \A n \in Nodes : Parent[n] # NoNode => rank[Parent[n]] < rank[n]
  BY ForestAssumption DEF ForestAssumption
<1>2. rank \in [Nodes -> Int]
  BY <1>1
<1>. QED
  BY <1>1, <1>2, TreeAssumption DEF TreeAssumption

LEMMA BelowItself ==
  ASSUME NEW p \in Nodes
  PROVE  p \in Below(p) /\ Closed(Below(p)) /\ Below(p) \subseteq Nodes
BY DEF Below, Closed

LEMMA BelowIsLeast ==
  ASSUME NEW p \in Nodes, NEW S \in SUBSET Nodes, p \in S, Closed(S)
  PROVE  Below(p) \subseteq S
BY DEF Below

(* A parent is not below its child.                                         *)
LEMMA ParentIsAbove ==
  ASSUME NEW p \in Nodes, NEW q \in Nodes, Parent[p] = q
  PROVE  q \notin Below(p)
<1>1. PICK rank \in [Nodes -> Int] : \A n \in Nodes, m \in Nodes : Parent[n] = m => rank[m] < rank[n]
  BY RankIsLower
<1>. DEFINE S == {x \in Nodes : rank[x] >= rank[p]}
<1>2. p \in S
  BY <1>1
<1>3. Closed(S)
  <2>. SUFFICES ASSUME NEW c \in Nodes, Parent[c] \in S PROVE c \in S
    BY DEF Closed
  <2>1. PICK m \in Nodes : m = Parent[c] /\ rank[m] >= rank[p]
    OBVIOUS
  <2>2. rank[m] < rank[c] /\ rank[m] \in Int /\ rank[c] \in Int /\ rank[p] \in Int
    BY <1>1, <2>1
  <2>3. rank[c] >= rank[p]
    BY <2>1, <2>2
  <2>. QED
    BY <2>3
<1>4. rank[q] < rank[p] /\ rank[q] \in Int /\ rank[p] \in Int
  BY <1>1
<1>5. Below(p) \subseteq S
  BY <1>2, <1>3, BelowIsLeast
<1>6. q \notin S
  BY <1>4
<1>. QED
  BY <1>5, <1>6

(* Whoever is below p is p, or registers with somebody who is below p.      *)
LEMMA BelowComesFromBelow ==
  ASSUME NEW p \in Nodes, NEW x \in Below(p), x # p
  PROVE  Parent[x] \in Below(p)
<1>. DEFINE S == {y \in Below(p) : y = p \/ Parent[y] \in Below(p)}
<1>1. p \in S /\ S \in SUBSET Nodes
  BY BelowItself
<1>2. Closed(S)
  BY BelowItself DEF Closed
<1>3. Below(p) \subseteq S
  BY <1>1, <1>2, BelowIsLeast
<1>. QED
  BY <1>3

LEMMA NotBothParents ==
  ASSUME NEW p \in Nodes, NEW n \in Nodes, Parent[p] = n
  PROVE  Parent[n] # p /\ p # n
<1>1. PICK rank \in [Nodes -> Int] : \A x \in Nodes, m \in Nodes : Parent[x] = m => rank[m] < rank[x]
  BY RankIsLower
<1>2. rank[n] < rank[p] /\ rank[p] \in Int /\ rank[n] \in Int
  BY <1>1
<1>3. Parent[n] = p => rank[p] < rank[n]
  BY <1>1
<1>. QED
  BY <1>2, <1>3

LEMMA AdjacentDiffer ==
  ASSUME NEW p \in Nodes, NEW n \in Nodes, Adjacent(p, n)
  PROVE  p # n /\ Adjacent(n, p)
BY NotBothParents DEF Adjacent

(* Cutting a link leaves two sides, one for each end.                       *)
LEMMA TwoSides ==
  ASSUME NEW p \in Nodes, NEW n \in Nodes, Adjacent(p, n)
  PROVE  p \in Side(p, n) /\ n \notin Side(p, n) /\ Side(n, p) = Nodes \ Side(p, n)
<1>1. CASE Parent[p] = n
  <2>1. Parent[n] # p
    BY <1>1, NotBothParents
  <2>2. p \in Below(p) /\ n \notin Below(p)
    BY <1>1, BelowItself, ParentIsAbove
  <2>. QED
    BY <1>1, <2>1, <2>2 DEF Side
<1>2. CASE Parent[n] = p
  <2>1. Parent[p] # n
    BY <1>2, NotBothParents
  <2>2. n \in Below(n) /\ p \notin Below(n) /\ Below(n) \subseteq Nodes
    BY <1>2, BelowItself, ParentIsAbove
  <2>. QED
    BY <1>2, <2>1, <2>2 DEF Side
<1>. QED
  BY <1>1, <1>2 DEF Adjacent

(* Programs below different children of one program differ.                 *)
LEMMA SiblingsAreApart ==
  ASSUME NEW p \in Nodes, NEW q \in Nodes, NEW n \in Nodes, Parent[q] = p, Parent[n] = p, q # n
  PROVE  Below(q) \cap Below(n) = {}
<1>. DEFINE S == Below(q) \ Below(n)
<1>1. p \notin Below(q) /\ p \notin Below(n)
  BY ParentIsAbove
<1>2. q \in S /\ S \in SUBSET Nodes
  <2>1. q \notin Below(n)
    BY <1>1, BelowComesFromBelow
  <2>. QED
    BY <2>1, BelowItself
<1>3. Closed(S)
  <2>. SUFFICES ASSUME NEW c \in Nodes, Parent[c] \in S PROVE c \in S
    BY DEF Closed
  <2>1. c \in Below(q)
    BY BelowItself DEF Closed
  <2>2. c # n
    BY <1>1
  <2>3. c \notin Below(n)
    BY <2>2, BelowComesFromBelow
  <2>. QED
    BY <2>1, <2>3
<1>4. Below(q) \subseteq S
  BY <1>2, <1>3, BelowIsLeast
<1>. QED
  BY <1>4

(* What comes to p over one link may go on over any other.                  *)
LEMMA SideGoesOn ==
  ASSUME NEW q \in Nodes, NEW p \in Nodes, NEW n \in Nodes, Adjacent(q, p), Adjacent(p, n), q # n
  PROVE  Side(q, p) \subseteq Side(p, n)
<1>1. CASE Parent[q] = p /\ Parent[p] = n
  <2>1. q \in Below(p)
    BY <1>1, BelowItself DEF Closed
  <2>2. Below(q) \subseteq Below(p)
    BY <2>1, BelowItself, BelowIsLeast
  <2>. QED
    BY <1>1, <2>2 DEF Side
<1>2. CASE Parent[q] = p /\ Parent[n] = p
  <2>1. Parent[p] # n
    BY <1>2, NotBothParents
  <2>2. Below(q) \subseteq Nodes /\ Below(q) \cap Below(n) = {}
    BY <1>2, BelowItself, SiblingsAreApart
  <2>. QED
    BY <1>2, <2>1, <2>2 DEF Side
<1>3. CASE Parent[p] = q /\ Parent[n] = p
  <2>1. Parent[p] # n /\ Parent[q] # p
    BY <1>3, NotBothParents
  <2>2. n \in Below(p)
    BY <1>3, BelowItself DEF Closed
  <2>3. Below(n) \subseteq Below(p)
    BY <2>2, BelowItself, BelowIsLeast
  <2>. QED
    BY <2>1, <2>3 DEF Side
<1>. QED
  BY <1>1, <1>2, <1>3 DEF Adjacent

(* What is on one side of a program is on no other.                         *)
LEMMA SidesAreApart ==
  ASSUME NEW p \in Nodes, NEW q \in Nodes, NEW n \in Nodes, Adjacent(p, n), Adjacent(q, n), p # q
  PROVE  Side(p, n) \cap Side(q, n) = {}
<1>1. Adjacent(n, p)
  BY AdjacentDiffer
<1>2. Side(q, n) \subseteq Side(n, p)
  BY <1>1, SideGoesOn
<1>. QED
  BY <1>2, TwoSides

-----------------------------------------------------------------------------
(* Types                                                                    *)

LEMMA Changed ==
  ASSUME NEW S, NEW T, NEW f \in [Nodes -> S], NEW g \in [Nodes -> [Nodes -> T]],
         NEW n \in Nodes, NEW p \in Nodes, NEW x \in S, NEW y \in T
  PROVE  [f EXCEPT ![n] = x] \in [Nodes -> S] /\ [g EXCEPT ![n][p] = y] \in [Nodes -> [Nodes -> T]]
OBVIOUS

LEMMA FaultTyped ==
  ASSUME faults \in 0..MaxFaults, Fault
  PROVE  faults' \in 0..MaxFaults
BY TreeAssumption DEF TreeAssumption, Fault

LEMMA TimedOutTyped ==
  ASSUME faults \in 0..MaxFaults, NEW n, NEW t, TimedOut(n, t)
  PROVE  faults' \in 0..MaxFaults
BY FaultTyped DEF TimedOut

LEMMA DatagramTyped ==
  ASSUME NEW n \in Nodes, NEW p \in Nodes
  PROVE  /\ \A type \in {"C", "R", "N"} : Datagram(type, n, p) \in Datagrams
         /\ \A u \in Nat, l \in Lines : MessageTo(p, n, u, l) \in Datagrams
BY DEF Datagram, MessageTo, Datagrams

(* What a datagram is made of.                                              *)
LEMMA DatagramParts ==
  ASSUME NEW d \in Datagrams
  PROVE  /\ d.from \in Nodes /\ d.to \in Nodes /\ d.uid \in Nat
         /\ d.type = "M" => d.line \in Lines /\ d = MessageTo(d.to, d.from, d.uid, d.line)
         /\ d.type # "M" => d.type \in {"C", "R", "N"} /\ d = Datagram(d.type, d.from, d.to)
BY DEF Datagrams, Datagram, MessageTo

LEMMA FlyingTyped ==
  ASSUME TypeOK, NEW d, BagIn(d, network)
  PROVE  d \in Datagrams
BY DEF TypeOK, BagIn

LEMMA LoopTyped ==
  ASSUME NEW line \in Lines, NEW rest \in Seq(Nodes)
  PROVE  /\ Loop(line, rest) \in Loops /\ Loop(line, rest).rest = rest
         /\ rest # <<>> => Loop(line, rest).line = line
BY DEF Loop, Loops, Idle

LEMMA LoopParts ==
  ASSUME TypeOK, NEW n \in Nodes
  PROVE  /\ sending[n].rest \in Seq(Nodes)
         /\ sending[n].rest # <<>> <=> sending[n] # Idle
         /\ sending[n].rest # <<>> => sending[n].line \in Lines
<1>1. sending[n] \in Loops
  BY DEF TypeOK
<1>2. Idle.rest = <<>> /\ <<>> \in Seq(Nodes)
  BY EmptyContains DEF Idle
<1>3. CASE sending[n] = Idle
  BY <1>2, <1>3
<1>4. CASE sending[n] # Idle
  BY <1>1, <1>2, <1>4 DEF Loops
<1>. QED
  BY <1>3, <1>4

LEMMA ServedNode ==
  ASSUME TypeOK, NEW n \in Nodes, NEW p, Serving(n, p)
  PROVE  /\ p \in Nodes /\ sending[n].rest # <<>> /\ sending[n].line \in Lines
         /\ p = Head(sending[n].rest) /\ Tail(sending[n].rest) \in Seq(Nodes) /\ sending[n].rest \in Seq(Nodes)
BY LoopParts, ContainsTail DEF Serving

LEMMA LineParts ==
  ASSUME NEW l \in Lines
  PROVE  l.by \in Nodes /\ l.k \in Nat
<1>1. PICK n \in Nodes : l \in [by : {n}, k : 1..MaxLines[n]]
  BY DEF Lines
<1>. QED
  BY <1>1, TreeAssumption DEF TreeAssumption

LEMMA NextLine ==
  ASSUME TypeOK, NEW n \in Nodes, typed[n] < MaxLines[n]
  PROVE  [by |-> n, k |-> typed[n] + 1] \in Lines
<1>1. typed[n] + 1 \in 1..MaxLines[n]
  BY TreeAssumption DEF TreeAssumption, TypeOK
<1>. QED
  BY <1>1 DEF Lines

Carries(bag) == IsABag(bag) /\ BagToSet(bag) \subseteq Datagrams

LEMMA NetworkTyped ==
  ASSUME NEW bag, Carries(bag)
  PROVE  /\ \A e \in Datagrams : Carries(bag (+) SetToBag({e}))
         /\ \A d : BagIn(d, bag) => Carries(bag (-) SetToBag({d}))
<1>1. ASSUME NEW e \in Datagrams PROVE Carries(bag (+) SetToBag({e}))
  BY <1>1, PutIn DEF Carries, BagIn
<1>2. ASSUME NEW d, BagIn(d, bag) PROVE Carries(bag (-) SetToBag({d}))
  BY <1>2, TakenOut DEF Carries, BagIn
<1>. QED
  BY <1>1, <1>2

LEMMA AddedTyped ==
  ASSUME TypeOK, NEW n \in Nodes, NEW p \in Nodes, AddNode(n, p)
  PROVE  nodes' \in [Nodes -> Seq(Nodes)] /\ since' \in [Nodes -> [Nodes -> Nat]]
<1>1. /\ nodes \in [Nodes -> Seq(Nodes)] /\ since \in [Nodes -> [Nodes -> Nat]] /\ taken[n] \in Seq(Messages)
  BY DEF TypeOK
<1>2. Append(nodes[n], p) \in Seq(Nodes) /\ Len(taken[n]) \in Nat
  BY <1>1, ContainsAppend, LenProperties
<1>. QED
  BY <1>1, <1>2, Changed DEF AddNode

LEMMA InitTypes == Init => TypeOK
<1>. SUFFICES ASSUME Init PROVE TypeOK
  OBVIOUS
<1>1. IsABag(EmptyBag) /\ BagToSet(EmptyBag) = {}
  BY DEF IsABag, EmptyBag, SetToBag, BagToSet
<1>2. Idle \in Loops /\ MaxFaults \in Nat /\ \A n \in Nodes : MaxLines[n] \in Nat
  BY TreeAssumption DEF Loops, TreeAssumption
<1>3. \A S : <<>> \in Seq(S)
  BY EmptyContains
<1>4. /\ phase \in [Nodes -> {"off", "connecting", "working", "closed"}]
      /\ nodes \in [Nodes -> Seq(Nodes)] /\ checkQueue \in [Nodes -> Seq(Tasks)]
      /\ messageQueue \in [Nodes -> Seq(Messages)] /\ taken \in [Nodes -> Seq(Messages)]
      /\ printed \in [Nodes -> Seq(Lines)]
  BY <1>3 DEF Init, NothingSaid
<1>5. /\ sent \in [Nodes -> [Nodes -> Nat]] /\ recieved \in [Nodes -> [Nodes -> Nat \ {0}]]
      /\ lastDelivered \in [Nodes -> [Nodes -> Nat]] /\ since \in [Nodes -> [Nodes -> Nat]]
  BY DEF Init, NothingSaid
<1>6. sending \in [Nodes -> Loops]
  BY <1>2 DEF Init, NothingSaid
<1>8. typed \in [Nodes -> Nat] /\ (\A n \in Nodes : typed[n] <= MaxLines[n]) /\ faults \in 0..MaxFaults
  BY <1>2 DEF Init, NothingSaid
<1>9. removed \in BOOLEAN /\ threw \in BOOLEAN /\ unconfirmed \in BOOLEAN
  BY DEF Init, NothingSaid
<1>7. IsABag(network) /\ BagToSet(network) \subseteq Datagrams
  BY <1>1 DEF Init, NothingSaid
<1>. QED
  BY <1>4, <1>5, <1>6, <1>7, <1>8, <1>9 DEF TypeOK

LEMMA ServerTypes ==
  ASSUME TypeOK, Joins, NEW n \in Nodes, ServerStep(n)
  PROVE  TypeOK'
<1>1. CASE StartRoot(n)
  BY <1>1 DEF StartRoot, TypeOK, links, history
<1>2. CASE Register(n)
  <2>1. Parent[n] \in Nodes
    BY <1>2, TreeAssumption DEF Register, TreeAssumption
  <2>2. Carries(network')
    BY <1>2, <2>1, DatagramTyped, NetworkTyped DEF Register, TypeOK, Carries
  <2>. QED
    BY <1>2, <2>2 DEF Register, TypeOK, links, history, Carries
<1>3. CASE ConnectAnswered(n)
  <2>1. PICK d : BagIn(d, network) /\ d.to = n /\ network' = Delivered(d)
    BY <1>3 DEF ConnectAnswered, BagIn
  <2>2. Carries(network')
    BY <2>1, NetworkTyped DEF TypeOK, Carries, Delivered
  <2>3. Parent[n] \in Nodes
    BY <1>3 DEF ConnectAnswered, Joins
  <2>4. nodes' \in [Nodes -> Seq(Nodes)] /\ since' \in [Nodes -> [Nodes -> Nat]]
    BY <1>3, <2>3, AddedTyped DEF ConnectAnswered
  <2>. QED
    BY <1>3, <2>2, <2>4 DEF ConnectAnswered, TypeOK, links, Carries
<1>4. CASE ConnectTimesOut(n)
  BY <1>4 DEF ConnectTimesOut, TypeOK, links, history
<1>5. CASE TypeLine(n)
  <2>1. PICK m \in Messages : m = [line |-> [by |-> n, k |-> typed[n] + 1], from |-> NoNode]
    BY <1>5, NextLine DEF TypeLine, Messages
  <2>2. Append(messageQueue[n], m) \in Seq(Messages)
    BY ContainsAppend DEF TypeOK
  <2>3. messageQueue' = [messageQueue EXCEPT ![n] = Append(@, m)] /\ typed' = [typed EXCEPT ![n] = @ + 1]
    BY <1>5, <2>1 DEF TypeLine
  <2>4. typed' \in [Nodes -> Nat] /\ \A p \in Nodes : typed'[p] <= MaxLines[p]
    <3>1. typed \in [Nodes -> Nat] /\ (\A p \in Nodes : typed[p] <= MaxLines[p]) /\ MaxLines \in [Nodes -> Nat]
      BY TreeAssumption DEF TypeOK, TreeAssumption
    <3>2. typed[n] < MaxLines[n]
      BY <1>5 DEF TypeLine
    <3>. QED
      BY <2>3, <3>1, <3>2
  <2>5. messageQueue' \in [Nodes -> Seq(Messages)]
    BY <2>2, <2>3 DEF TypeOK
  <2>. QED
    BY <1>5, <2>4, <2>5 DEF TypeLine, TypeOK, links
<1>6. CASE Quit(n)
  BY <1>6, TreeAssumption DEF Quit, Fault, TypeOK, links, TreeAssumption
<1>7. CASE ConnectFails(n)
  <2>1. faults' \in 0..MaxFaults
    BY <1>7, FaultTyped DEF ConnectFails, TypeOK
  <2>2. phase' \in [Nodes -> {"off", "connecting", "working", "closed"}]
    BY <1>7 DEF ConnectFails, TypeOK
  <2>. QED
    BY <1>7, <2>1, <2>2 DEF ConnectFails, TypeOK, links
<1>. QED
  BY <1>1, <1>2, <1>3, <1>4, <1>5, <1>6, <1>7 DEF ServerStep

LEMMA SenderTypes ==
  ASSUME TypeOK, Once, NEW n \in Nodes, SenderStep(n)
  PROVE  TypeOK'
<1>1. CASE TakeMessage(n)
  <2>1. PICK m \in Messages : m = Head(messageQueue[n]) /\ Tail(messageQueue[n]) \in Seq(Messages)
    BY <1>1, ContainsTail DEF TakeMessage, TypeOK
  <2>2. Append(taken[n], m) \in Seq(Messages)
    BY <2>1, ContainsAppend DEF TypeOK
  <2>3. Others(n, m.from) \in Seq(Nodes) /\ m.line \in Lines
    BY Rest DEF Once, Others, TypeOK, Messages
  <2>4. Loop(m.line, Others(n, m.from)) \in Loops
    BY <2>3, LoopTyped
  <2>5. /\ sending' = [sending EXCEPT ![n] = Loop(m.line, Others(n, m.from))]
        /\ messageQueue' = [messageQueue EXCEPT ![n] = Tail(@)]
        /\ taken' = [taken EXCEPT ![n] = Append(@, m)]
    BY <1>1, <2>1 DEF TakeMessage
  <2>6. /\ sending' \in [Nodes -> Loops] /\ messageQueue' \in [Nodes -> Seq(Messages)]
        /\ taken' \in [Nodes -> Seq(Messages)]
    BY <2>1, <2>2, <2>4, <2>5 DEF TypeOK
  <2>. QED
    BY <1>1, <2>6 DEF TakeMessage, TypeOK, links
<1>2. ASSUME NEW p \in Nodes, SendMessage(n, p) PROVE TypeOK'
  <2>0. sent \in [Nodes -> [Nodes -> Nat]] /\ Serving(n, p)
    BY <1>2 DEF SendMessage, TypeOK
  <2>1. sending[n].line \in Lines /\ sent[n][p] + 1 \in Nat /\ Tail(sending[n].rest) \in Seq(Nodes)
    BY SMTT(30), <2>0, ServedNode
  <2>2. PICK u \in Nat, l \in Lines, t \in Tasks :
          u = sent[n][p] + 1 /\ l = sending[n].line /\ t = [to |-> p, uid |-> u, line |-> l, numFailed |-> 1]
    <3>1. 1 \in 1..(MaxFailed + 1)
      BY TreeAssumption DEF TreeAssumption
    <3>. QED
      BY <2>1, <3>1 DEF Tasks
  <2>3. Append(checkQueue[n], t) \in Seq(Tasks)
    BY ContainsAppend DEF TypeOK
  <2>4. Carries(network (+) SetToBag({MessageTo(p, n, u, l)}))
    BY DatagramTyped, NetworkTyped DEF TypeOK, Carries
  <2>5. Loop(l, Tail(sending[n].rest)) \in Loops
    BY <2>1, LoopTyped
  <2>6. /\ sent' = [sent EXCEPT ![n][p] = u]
        /\ network' = network (+) SetToBag({MessageTo(p, n, u, l)})
        /\ checkQueue' = [checkQueue EXCEPT ![n] = Append(@, t)]
        /\ sending' = [sending EXCEPT ![n] = Loop(l, Tail(@.rest))]
    BY <1>2, <2>2 DEF SendMessage
  <2>7. sent' \in [Nodes -> [Nodes -> Nat]]
    BY <2>0, <2>6
  <2>8. checkQueue' \in [Nodes -> Seq(Tasks)] /\ sending' \in [Nodes -> Loops] /\ Carries(network')
    BY <2>3, <2>4, <2>5, <2>6 DEF TypeOK
  <2>. QED
    BY <1>2, <2>7, <2>8 DEF SendMessage, TypeOK, history, Carries
<1>3. ASSUME NEW p \in Nodes, SendFails(n, p) PROVE TypeOK'
  <2>1. sent \in [Nodes -> [Nodes -> Nat]] /\ sent' = [sent EXCEPT ![n][p] = @ + 1]
    BY <1>3 DEF SendFails, TypeOK
  <2>2. sent' \in [Nodes -> [Nodes -> Nat]]
    BY <2>1
  <2>3. sending' \in [Nodes -> Loops]
    BY <1>3 DEF SendFails, TypeOK, Loops
  <2>4. faults' \in 0..MaxFaults
    BY <1>3, FaultTyped DEF SendFails, TypeOK
  <2>. QED
    BY <1>3, <2>2, <2>3, <2>4 DEF SendFails, TypeOK
<1>. QED
  BY <1>1, <1>2, <1>3 DEF SenderStep

LEMMA RecieverTypes ==
  ASSUME TypeOK, NEW n \in Nodes, RecieverStep(n)
  PROVE  TypeOK'
<1>1. ASSUME NEW d, AcceptMessage(n, d) PROVE TypeOK'
  <2>1. BagIn(d, network) /\ d \in Datagrams /\ d.from \in Nodes /\ d.line \in Lines
    BY <1>1, FlyingTyped, DatagramParts DEF AcceptMessage, Flying
  <2>2. Append(printed[n], d.line) \in Seq(Lines)
    BY <2>1, ContainsAppend DEF TypeOK
  <2>3. PICK m \in Messages : m = [line |-> d.line, from |-> d.from]
    BY <2>1 DEF Messages
  <2>4. Append(messageQueue[n], m) \in Seq(Messages)
    BY ContainsAppend DEF TypeOK
  <2>5. Carries(network')
    <3>1. Carries(Delivered(d)) /\ Datagram("C", n, d.from) \in Datagrams
      BY <2>1, DatagramTyped, NetworkTyped DEF Delivered, TypeOK, Carries
    <3>2. Carries(Delivered(d) (+) SetToBag({Datagram("C", n, d.from)}))
      BY <3>1, NetworkTyped
    <3>. QED
      BY <1>1, <3>1, <3>2 DEF AcceptMessage
  <2>6. recieved' \in [Nodes -> [Nodes -> Nat \ {0}]]
    <3>1. recieved \in [Nodes -> [Nodes -> Nat \ {0}]]
      BY DEF TypeOK
    <3>2. recieved' = recieved \/ recieved' = [recieved EXCEPT ![n][d.from] = @ + 1]
      BY <1>1 DEF AcceptMessage
    <3>. QED
      BY <2>1, <3>1, <3>2
  <2>7. faults' \in 0..MaxFaults /\ unconfirmed' \in BOOLEAN
    <3>1. Fault \/ faults' = faults
      BY <1>1 DEF AcceptMessage
    <3>2. faults' \in 0..MaxFaults
      BY <3>1, FaultTyped DEF TypeOK
    <3>3. unconfirmed' \in BOOLEAN
      BY <1>1 DEF AcceptMessage, TypeOK
    <3>. QED
      BY <3>2, <3>3
  <2>8. /\ messageQueue' = [messageQueue EXCEPT ![n] = Append(@, m)]
        /\ printed' = [printed EXCEPT ![n] = Append(@, d.line)]
    BY <1>1, <2>3 DEF AcceptMessage
  <2>9. messageQueue' \in [Nodes -> Seq(Messages)] /\ printed' \in [Nodes -> Seq(Lines)]
    BY <2>2, <2>4, <2>8 DEF TypeOK
  <2>10. UNCHANGED <<phase, nodes, sent, lastDelivered, sending, checkQueue, typed, taken, since, removed, threw>>
    BY <1>1 DEF AcceptMessage
  <2>. QED
    BY <2>5, <2>6, <2>7, <2>9, <2>10 DEF TypeOK, Carries
<1>2. ASSUME NEW d, IgnoreMessage(n, d) \/ IgnoreName(n, d) PROVE TypeOK'
  <2>1. BagIn(d, network) /\ network' = Delivered(d)
    BY <1>2, Zenon DEF IgnoreMessage, IgnoreName, Flying
  <2>2. Carries(network')
    BY <2>1, NetworkTyped DEF Delivered, TypeOK, Carries
  <2>. QED
    BY <1>2, <2>2 DEF IgnoreMessage, IgnoreName, TypeOK, Carries, links, history
<1>3. ASSUME NEW d, CountConfirm(n, d) PROVE TypeOK'
  <2>1. Carries(network')
    BY <1>3, NetworkTyped DEF CountConfirm, Flying, Delivered, TypeOK, Carries
  <2>2. d.from \in Nodes
    BY <1>3, FlyingTyped, DatagramParts DEF CountConfirm, Flying
  <2>3. lastDelivered' \in [Nodes -> [Nodes -> Nat]]
    <3>1. lastDelivered \in [Nodes -> [Nodes -> Nat]]
      BY DEF TypeOK
    <3>2. lastDelivered' = lastDelivered \/ lastDelivered' = [lastDelivered EXCEPT ![n][d.from] = @ + 1]
      BY <1>3 DEF CountConfirm
    <3>. QED
      BY <2>2, <3>1, <3>2
  <2>. QED
    BY <1>3, <2>1, <2>3 DEF CountConfirm, TypeOK, Carries, history
<1>4. ASSUME NEW d, AcceptRegistration(n, d) PROVE TypeOK'
  <2>1. BagIn(d, network) /\ d.from \in Nodes
    BY <1>4, FlyingTyped, DatagramParts DEF AcceptRegistration, Flying
  <2>2. Carries(network')
    BY <1>4, <2>1, DatagramTyped, NetworkTyped DEF AcceptRegistration, Delivered, TypeOK, Carries
  <2>3. nodes' \in [Nodes -> Seq(Nodes)] /\ since' \in [Nodes -> [Nodes -> Nat]]
    BY <1>4, <2>1, AddedTyped DEF AcceptRegistration
  <2>. QED
    BY <1>4, <2>2, <2>3 DEF AcceptRegistration, TypeOK, Carries, links
<1>. QED
  BY <1>1, <1>2, <1>3, <1>4 DEF RecieverStep

LEMMA CheckerTypes ==
  ASSUME TypeOK, Once, NEW n \in Nodes, CheckerStep(n)
  PROVE  TypeOK'
<1>1. PICK t \in Tasks : t = Head(checkQueue[n]) /\ Tail(checkQueue[n]) \in Seq(Tasks)
  BY ContainsTail DEF CheckerStep, CheckRemoves, CheckResends, CheckDone, TypeOK
<1>2. t.to \in Nodes /\ t.uid \in Nat /\ t.line \in Lines /\ t.numFailed \in Nat /\ MaxFailed \in Nat /\ MaxFaults \in Nat
  BY TreeAssumption DEF Tasks, TreeAssumption
<1>3. CASE CheckRemoves(n)
  <2>1. Others(n, t.to) \in Seq(Nodes)
    BY Rest DEF Once, Others, TypeOK
  <2>2. faults' \in 0..MaxFaults
    BY <1>3, TimedOutTyped DEF CheckRemoves, TypeOK
  <2>. QED
    BY <1>1, <1>3, <2>1, <2>2 DEF CheckRemoves, TypeOK, links
<1>4. CASE CheckResends(n)
  <2>1. PICK r : r = [t EXCEPT !.numFailed = @ + 1]
    OBVIOUS
  <2>2. r \in Tasks
    <3>1. t.numFailed <= MaxFailed
      BY <1>1, <1>4 DEF CheckResends
    <3>2. r = [to |-> t.to, uid |-> t.uid, line |-> t.line, numFailed |-> t.numFailed + 1]
      BY <2>1 DEF Tasks
    <3>3. t.numFailed + 1 \in 1..(MaxFailed + 1)
      BY <1>2, <3>1 DEF Tasks
    <3>. QED
      BY <1>2, <3>2, <3>3 DEF Tasks
  <2>3. Append(Tail(checkQueue[n]), r) \in Seq(Tasks)
    BY <1>1, <2>2, ContainsAppend
  <2>4. Carries(network')
    BY <1>1, <1>2, <1>4, DatagramTyped, NetworkTyped DEF CheckResends, TypeOK, Carries
  <2>5. faults' \in 0..MaxFaults
    BY <1>4, TimedOutTyped DEF CheckResends, TypeOK
  <2>6. checkQueue' = [checkQueue EXCEPT ![n] = Append(Tail(@), r)]
    BY <1>1, <1>4, <2>1 DEF CheckResends
  <2>. QED
    BY <1>4, <2>3, <2>4, <2>5, <2>6 DEF CheckResends, TypeOK, Carries, links
<1>5. CASE CheckDone(n)
  BY <1>1, <1>5 DEF CheckDone, TypeOK, links, history
<1>. QED
  BY <1>3, <1>4, <1>5 DEF CheckerStep

LEMMA TypesNext ==
  ASSUME TypeOK, Forest, [Next]_vars
  PROVE  TypeOK'
<1>1. ASSUME NEW d, BagIn(d, network), Lose(d) PROVE TypeOK'
  <2>1. Carries(network')
    BY <1>1, NetworkTyped DEF Lose, Delivered, TypeOK, Carries
  <2>. QED
    BY <1>1, <2>1, TreeAssumption DEF Lose, Fault, TypeOK, Carries, links, TreeAssumption
<1>2. CASE UNCHANGED vars
  BY <1>2 DEF vars, TypeOK, links, history
<1>. QED
  BY <1>1, <1>2, ServerTypes, SenderTypes, RecieverTypes, CheckerTypes DEF Next, BagIn, Forest

-----------------------------------------------------------------------------
(* The forest keeps its shape                                               *)

LEMMA NetworkBag ==
  ASSUME TypeOK
  PROVE  /\ IsABag(network)
         /\ \A d : BagIn(d, network) <=> d \in BagToSet(network)
         /\ \A d : BagIn(d, network) => d \in Datagrams
BY DEF TypeOK, BagIn

(* What is under way after a datagram is taken, sent, or both.              *)
LEMMA DeliveredBag ==
  ASSUME TypeOK, NEW d, BagIn(d, network)
  PROVE  /\ IsABag(Delivered(d))
         /\ \A x : BagIn(x, Delivered(d)) => BagIn(x, network)
         /\ \A x : x # d => (BagIn(x, Delivered(d)) <=> BagIn(x, network))
         /\ \A x : Copies(x, Delivered(d)) = Copies(x, network) - IF x = d THEN 1 ELSE 0
BY NetworkBag, TakenOut DEF Delivered

LEMMA SentBag ==
  ASSUME TypeOK, NEW e
  PROVE  /\ \A x : BagIn(x, network (+) SetToBag({e})) <=> BagIn(x, network) \/ x = e
         /\ \A x : Copies(x, network (+) SetToBag({e})) = Copies(x, network) + IF x = e THEN 1 ELSE 0
BY NetworkBag, PutIn

LEMMA AnsweredBag ==
  ASSUME TypeOK, NEW d, BagIn(d, network), NEW e
  PROVE  /\ \A x : BagIn(x, Delivered(d) (+) SetToBag({e})) => BagIn(x, network) \/ x = e
         /\ \A x : x # d => (BagIn(x, Delivered(d) (+) SetToBag({e})) <=> BagIn(x, network) \/ x = e)
         /\ \A x : Copies(x, Delivered(d) (+) SetToBag({e})) =
                     Copies(x, network) - (IF x = d THEN 1 ELSE 0) + (IF x = e THEN 1 ELSE 0)
<1>1. IsABag(Delivered(d))
  BY DeliveredBag
<1>2. \A x : BagIn(x, Delivered(d) (+) SetToBag({e})) <=> BagIn(x, Delivered(d)) \/ x = e
  BY <1>1, PutIn
<1>3. \A x : Copies(x, Delivered(d) (+) SetToBag({e})) = Copies(x, Delivered(d)) + IF x = e THEN 1 ELSE 0
  BY <1>1, PutIn
<1>. QED
  BY <1>2, <1>3, DeliveredBag

(* The neighbours left when one is removed.                                 *)
LEMMA OthersParts ==
  ASSUME TypeOK, Once, NEW n \in Nodes, NEW q
  PROVE  /\ Others(n, q) \in Seq(Nodes) /\ Distinct(Others(n, q))
         /\ \A x : Contains(Others(n, q), x) <=> Contains(nodes[n], x) /\ x # q
BY Rest DEF Others, Once, TypeOK

(* The loop that Sender starts.                                             *)
LEMMA TakenLoop ==
  ASSUME TypeOK, Once, NEW n \in Nodes, TakeMessage(n)
  PROVE  /\ Head(messageQueue[n]) \in Messages
         /\ sending'[n].rest = Others(n, Head(messageQueue[n]).from)
         /\ sending'[n].rest # <<>> => sending'[n].line = Head(messageQueue[n]).line
         /\ \A m \in Nodes : m # n => sending'[m] = sending[m]
<1>1. Head(messageQueue[n]) \in Messages
  BY ContainsTail DEF TakeMessage, TypeOK
<1>2. PICK m \in Messages : m = Head(messageQueue[n])
  BY <1>1
<1>3. m.line \in Lines /\ Others(n, m.from) \in Seq(Nodes)
  BY OthersParts DEF Messages
<1>4. PICK r : r = Loop(m.line, Others(n, m.from))
  OBVIOUS
<1>5. r.rest = Others(n, m.from) /\ (r.rest # <<>> => r.line = m.line)
  BY <1>3, <1>4, LoopTyped
<1>6. sending \in [Nodes -> Loops] /\ sending' = [sending EXCEPT ![n] = r]
  BY <1>2, <1>4 DEF TakeMessage, TypeOK
<1>. QED
  BY <1>1, <1>2, <1>5, <1>6

(* What is left of the loop after a step of it.                             *)
LEMMA ServedLoop ==
  ASSUME TypeOK, NEW n \in Nodes, NEW p, SendMessage(n, p)
  PROVE  /\ sending'[n].rest = Tail(sending[n].rest)
         /\ sending'[n].rest # <<>> => sending'[n].line = sending[n].line
         /\ \A m \in Nodes : m # n => sending'[m] = sending[m]
<1>1. sending[n].line \in Lines /\ Tail(sending[n].rest) \in Seq(Nodes)
  BY ServedNode DEF SendMessage
<1>4. PICK r : r = Loop(sending[n].line, Tail(sending[n].rest))
  OBVIOUS
<1>5. r.rest = Tail(sending[n].rest) /\ (r.rest # <<>> => r.line = sending[n].line)
  BY ZenonT(30), <1>1, <1>4, LoopTyped
<1>6. sending \in [Nodes -> Loops] /\ sending' = [sending EXCEPT ![n] = r]
  BY <1>4 DEF SendMessage, TypeOK
<1>. QED
  BY <1>5, <1>6

LEMMA FailedLoop ==
  ASSUME TypeOK, NEW n \in Nodes, NEW p, SendFails(n, p)
  PROVE  sending'[n].rest = <<>> /\ \A m \in Nodes : m # n => sending'[m] = sending[m]
BY DEF SendFails, Idle, TypeOK

(* A new neighbour, and the list of the others.                             *)
LEMMA AddedNode ==
  ASSUME TypeOK, NEW n \in Nodes, NEW p \in Nodes, AddNode(n, p)
  PROVE  /\ nodes'[n] = Append(nodes[n], p) /\ nodes[n] \in Seq(Nodes)
         /\ \A x : Contains(nodes'[n], x) <=> Contains(nodes[n], x) \/ x = p
         /\ \A m \in Nodes : m # n => nodes'[m] = nodes[m]
<1>1. nodes'[n] = Append(nodes[n], p) /\ \A m \in Nodes : m # n => nodes'[m] = nodes[m]
  BY DEF AddNode, TypeOK
<1>2. nodes[n] \in Seq(Nodes)
  BY DEF TypeOK
<1>. QED
  BY <1>1, <1>2, ContainsAppend

(* Most steps only make these facts weaker.                                 *)
LEMMA ForestFades ==
  ASSUME TypeOK, TypeOK', Forest,
         \A n, p \in Nodes : Contains(nodes'[n], p) => Contains(nodes[n], p),
         \A n \in Nodes : Distinct(nodes'[n]) /\ Distinct(sending'[n].rest),
         \A n, p \in Nodes : Contains(sending'[n].rest, p) => Contains(sending[n].rest, p) \/ Contains(nodes[n], p),
         \A c \in Nodes : /\ phase'[c] = "off" => phase[c] = "off"
                          /\ phase'[c] = "connecting" => phase[c] = "connecting",
         \A c, p \in Nodes : Copies(Datagram("R", c, p), network') <= Copies(Datagram("R", c, p), network)
  PROVE  Forest'
<1>1. ASSUME NEW c \in Nodes, NEW p \in Nodes
      PROVE  /\ Copies(Datagram("R", c, p), network) \in Nat /\ Copies(Datagram("R", c, p), network') \in Nat
             /\ BagIn(Datagram("R", c, p), network') => BagIn(Datagram("R", c, p), network)
  <2>1. IsABag(network) /\ IsABag(network')
    BY DEF TypeOK
  <2>. QED
    BY <2>1, CopiesCount
<1>2. Edges'
  BY <1>1 DEF Forest, Edges
<1>3. Once'
  BY DEF Once
<1>4. Joins'
  BY <1>1 DEF Forest, Joins
<1>. QED
  BY <1>2, <1>3, <1>4 DEF Forest

LEMMA RegisterKeepsForest ==
  ASSUME TypeOK, TypeOK', Forest, NEW n \in Nodes, Register(n)
  PROVE  Forest'
<1>1. /\ Parent[n] \in Nodes /\ phase[n] = "off" /\ phase' = [phase EXCEPT ![n] = "connecting"]
      /\ network' = network (+) SetToBag({Datagram("R", n, Parent[n])})
      /\ UNCHANGED <<nodes, sending>>
  BY TreeAssumption DEF Register, TreeAssumption
<1>2. \A c, p \in Nodes : <<c, p>> # <<n, Parent[n]>> => Datagram("R", c, p) # Datagram("R", n, Parent[n])
  BY DEF Datagram
<1>3. /\ \A x : BagIn(x, network') <=> BagIn(x, network) \/ x = Datagram("R", n, Parent[n])
      /\ \A x : Copies(x, network') = Copies(x, network) + IF x = Datagram("R", n, Parent[n]) THEN 1 ELSE 0
  BY <1>1, SentBag
<1>4. Edges'
  <2>1. \A c, p \in Nodes : BagIn(Datagram("R", c, p), network') => Parent[c] = p
    BY <1>1, <1>2, <1>3 DEF Forest, Edges
  <2>. QED
    BY <1>1, <2>1 DEF Forest, Edges
<1>5. Once'
  BY <1>1 DEF Forest, Once
<1>6. phase \in [Nodes -> {"off", "connecting", "working", "closed"}]
  BY DEF TypeOK
<1>7. \A c, p \in Nodes : Copies(Datagram("R", c, p), network) \in Nat
  BY NetworkBag, CopiesCount
<1>8. Joins'
  <2>1. \A c \in Nodes : phase'[c] = "connecting" => Parent[c] \in Nodes
    BY <1>1, <1>6 DEF Forest, Joins
  <2>2. ASSUME NEW c \in Nodes, NEW p \in Nodes, Parent[c] = p, c # n
        PROVE  phase'[c] = phase[c] /\ Datagram("R", c, p) # Datagram("R", n, Parent[n])
    BY <1>1, <1>2, <1>6, <2>2
  <2>3. ASSUME NEW c \in Nodes, NEW p \in Nodes, Parent[c] = p, c = n
        PROVE  /\ phase'[c] = "connecting" /\ phase[c] = "off"
               /\ Copies(Datagram("R", c, p), network') = Copies(Datagram("R", c, p), network) + 1
    BY <1>1, <1>3, <1>6, <2>3
  <2>4. ASSUME NEW c \in Nodes, NEW p \in Nodes, Parent[c] = p, c # n
        PROVE  /\ Copies(Datagram("R", c, p), network') = Copies(Datagram("R", c, p), network)
               /\ BagIn(Datagram("R", c, p), network') <=> BagIn(Datagram("R", c, p), network)
    BY <1>3, <1>7, <2>2, <2>4
  <2>. QED
    BY <1>1, <1>7, <2>1, <2>2, <2>3, <2>4 DEF Forest, Joins
<1>. QED
  BY <1>4, <1>5, <1>8 DEF Forest

LEMMA ConnectKeepsForest ==
  ASSUME TypeOK, TypeOK', Forest, NEW n \in Nodes, ConnectAnswered(n)
  PROVE  Forest'
<1>1. PICK d : BagIn(d, network) /\ network' = Delivered(d)
  BY DEF ConnectAnswered, BagIn
<1>2. PICK q \in Nodes : q = Parent[n]
  BY DEF ConnectAnswered, Forest, Joins
<1>3. /\ phase[n] = "connecting" /\ phase' = [phase EXCEPT ![n] = "working"] /\ AddNode(n, q)
      /\ UNCHANGED sending
  BY <1>2 DEF ConnectAnswered
<1>4. /\ nodes'[n] = Append(nodes[n], q) /\ nodes[n] \in Seq(Nodes)
      /\ \A x : Contains(nodes'[n], x) <=> Contains(nodes[n], x) \/ x = q
      /\ \A m \in Nodes : m # n => nodes'[m] = nodes[m]
  BY <1>3, AddedNode
<1>5. \A c, p \in Nodes : /\ Copies(Datagram("R", c, p), network) \in Nat /\ Copies(Datagram("R", c, p), network') \in Nat
                          /\ Copies(Datagram("R", c, p), network') <= Copies(Datagram("R", c, p), network)
                          /\ BagIn(Datagram("R", c, p), network') => BagIn(Datagram("R", c, p), network)
  <2>1. IsABag(network) /\ IsABag(network')
    BY DEF TypeOK
  <2>2. \A e : Copies(e, network) \in Nat /\ Copies(e, network') \in Nat
    BY <2>1, CopiesCount
  <2>. QED
    BY <1>1, <2>2, DeliveredBag
<1>6. phase \in [Nodes -> {"off", "connecting", "working", "closed"}]
  BY DEF TypeOK
<1>7. Edges'
  <2>1. Adjacent(n, q)
    BY <1>2 DEF Adjacent
  <2>. QED
    BY <1>3, <1>4, <1>5, <2>1 DEF Forest, Edges
<1>8. Once'
  <2>1. ~Contains(nodes[n], q) /\ Distinct(nodes[n])
    BY <1>2, <1>3 DEF Forest, Joins, Once
  <2>2. Distinct(nodes'[n])
    BY <1>4, <2>1, DistinctAppend
  <2>. QED
    BY <1>3, <1>4, <2>2 DEF Forest, Once
<1>9. Joins'
  <2>1. \A c \in Nodes : Parent[c] = n => c # q
    BY <1>2, NotBothParents
  <2>2. \A c, p \in Nodes : Parent[c] = p /\ Contains(nodes'[p], c) => Contains(nodes[p], c)
    BY <1>4, <2>1
  <2>3. \A c \in Nodes : c # n => phase'[c] = phase[c] /\ nodes'[c] = nodes[c]
    BY <1>3, <1>4, <1>6
  <2>4. phase'[n] = "working"
    BY <1>3, <1>6
  <2>. QED
    BY <1>5, <2>2, <2>3, <2>4 DEF Forest, Joins
<1>. QED
  BY <1>7, <1>8, <1>9 DEF Forest

LEMMA AcceptKeepsForest ==
  ASSUME TypeOK, TypeOK', Forest, NEW n \in Nodes, NEW d, AcceptRegistration(n, d)
  PROVE  Forest'
<1>1. d \in Datagrams /\ BagIn(d, network) /\ d.type = "R" /\ d.to = n
  BY FlyingTyped DEF AcceptRegistration, Flying
<1>2. PICK q \in Nodes : q = d.from /\ d = Datagram("R", q, n)
  BY <1>1, DatagramParts
<1>3. Parent[q] = n /\ ~Contains(nodes[n], q) /\ Copies(d, network) <= 1 /\ phase[q] # "off"
  <2>1. Copies(d, network) > 0
    BY <1>1, NetworkBag, CopiesCount
  <2>2. Parent[q] = n
    BY <1>1, <1>2 DEF Forest, Edges
  <2>. QED
    BY <1>1, <1>2, <2>1, <2>2 DEF Forest, Joins
<1>4. /\ AddNode(n, q) /\ network' = Delivered(d) (+) SetToBag({Datagram("N", n, q)})
      /\ UNCHANGED <<phase, sending>> /\ phase[n] = "working"
  BY <1>2 DEF AcceptRegistration
<1>5. /\ nodes'[n] = Append(nodes[n], q) /\ nodes[n] \in Seq(Nodes)
      /\ \A x : Contains(nodes'[n], x) <=> Contains(nodes[n], x) \/ x = q
      /\ \A m \in Nodes : m # n => nodes'[m] = nodes[m]
  BY <1>4, AddedNode
<1>6. ASSUME NEW c \in Nodes, NEW p \in Nodes
      PROVE  /\ Copies(Datagram("R", c, p), network) \in Nat /\ Copies(Datagram("R", c, p), network') \in Nat
             /\ Copies(Datagram("R", c, p), network') <= Copies(Datagram("R", c, p), network)
             /\ BagIn(Datagram("R", c, p), network') => BagIn(Datagram("R", c, p), network) /\ <<c, p>> # <<q, n>>
  <2>. DEFINE r == Datagram("R", c, p)
  <2>1. r # Datagram("N", n, q) /\ (r = d <=> c = q /\ p = n)
    BY <1>2 DEF Datagram
  <2>2. IsABag(network) /\ IsABag(network')
    BY DEF TypeOK
  <2>. HIDE DEF r
  <2>3. Copies(r, network') = Copies(r, network) - (IF r = d THEN 1 ELSE 0) + (IF r = Datagram("N", n, q) THEN 1 ELSE 0)
    <3>1. \A e, x : Copies(x, Delivered(d) (+) SetToBag({e})) =
                      Copies(x, network) - (IF x = d THEN 1 ELSE 0) + (IF x = e THEN 1 ELSE 0)
      BY <1>1, AnsweredBag
    <3>. QED
      BY <1>4, <3>1, Zenon
  <2>4. /\ Copies(r, network) \in Nat /\ Copies(r, network') \in Nat
        /\ BagIn(r, network) <=> Copies(r, network) > 0
        /\ BagIn(r, network') <=> Copies(r, network') > 0
    BY <2>2, CopiesCount
  <2>5. r = d => Copies(r, network) <= 1
    BY <1>3
  <2>6. /\ Copies(r, network') <= Copies(r, network)
        /\ Copies(r, network') > 0 => Copies(r, network) > 0 /\ r # d
    BY <2>1, <2>3, <2>4, <2>5
  <2>. QED
    BY <2>1, <2>4, <2>6 DEF r
<1>7. Edges'
  <2>1. Adjacent(n, q)
    BY <1>3 DEF Adjacent
  <2>. QED
    BY <1>4, <1>5, <1>6, <2>1 DEF Forest, Edges
<1>8. Once'
  <2>1. Distinct(nodes[n])
    BY DEF Forest, Once
  <2>2. Distinct(nodes'[n])
    BY <1>3, <1>5, <2>1, DistinctAppend
  <2>. QED
    BY <1>4, <1>5, <2>2 DEF Forest, Once
<1>9. Joins'
  <2>1. \A c, p \in Nodes : Parent[c] = p /\ Contains(nodes'[p], c) => Contains(nodes[p], c) \/ <<c, p>> = <<q, n>>
    BY <1>5
  <2>2. \A c \in Nodes : c # n => nodes'[c] = nodes[c]
    BY <1>5
  <2>. QED
    BY <1>3, <1>4, <1>6, <2>1, <2>2 DEF Forest, Joins
<1>. QED
  BY <1>7, <1>8, <1>9 DEF Forest

(* What is not a registration changes no number of them.                    *)
LEMMA OtherTraffic ==
  ASSUME TypeOK, TypeOK',
         \/ network' = network
         \/ \E d : BagIn(d, network) /\ network' = Delivered(d)
         \/ \E e : e.type # "R" /\ network' = network (+) SetToBag({e})
         \/ \E d, e : BagIn(d, network) /\ e.type # "R" /\ network' = Delivered(d) (+) SetToBag({e})
  PROVE  \A c, p \in Nodes : Copies(Datagram("R", c, p), network') <= Copies(Datagram("R", c, p), network)
<1>. SUFFICES ASSUME NEW c \in Nodes, NEW p \in Nodes, NEW r, r = Datagram("R", c, p)
              PROVE  Copies(r, network') <= Copies(r, network)
  OBVIOUS
<1>1. Copies(r, network) \in Nat /\ r.type = "R"
  BY NetworkBag, CopiesCount DEF Datagram
<1>2. CASE network' = network
  BY <1>1, <1>2
<1>3. ASSUME NEW d, BagIn(d, network), network' = Delivered(d) PROVE Copies(r, network') <= Copies(r, network)
  BY <1>1, <1>3, DeliveredBag
<1>4. ASSUME NEW e, e.type # "R", network' = network (+) SetToBag({e}) PROVE Copies(r, network') <= Copies(r, network)
  <2>1. Copies(r, network (+) SetToBag({e})) = Copies(r, network) + IF r = e THEN 1 ELSE 0
    <3>1. \A x : Copies(x, network (+) SetToBag({e})) = Copies(x, network) + IF x = e THEN 1 ELSE 0
      BY SentBag
    <3>. QED
      BY <3>1, Zenon
  <2>2. r # e
    BY <1>1, <1>4
  <2>. QED
    BY <1>1, <1>4, <2>1, <2>2
<1>5. ASSUME NEW d, NEW e, BagIn(d, network), e.type # "R", network' = Delivered(d) (+) SetToBag({e})
      PROVE  Copies(r, network') <= Copies(r, network)
  <2>1. Copies(r, Delivered(d) (+) SetToBag({e})) =
          Copies(r, network) - (IF r = d THEN 1 ELSE 0) + (IF r = e THEN 1 ELSE 0)
    <3>1. \A x : Copies(x, Delivered(d) (+) SetToBag({e})) =
                   Copies(x, network) - (IF x = d THEN 1 ELSE 0) + (IF x = e THEN 1 ELSE 0)
      BY ZenonT(30), <1>5, AnsweredBag
    <3>. QED
      BY <3>1, Zenon
  <2>2. r # e
    BY <1>1, <1>5
  <2>. QED
    BY <1>1, <1>5, <2>1, <2>2
<1>. QED
  BY <1>2, <1>3, <1>4, <1>5

LEMMA TakeKeepsForest ==
  ASSUME TypeOK, TypeOK', Forest, NEW n \in Nodes, TakeMessage(n)
  PROVE  Forest'
<1>1. PICK q : /\ sending'[n].rest = Others(n, q)
               /\ \A m \in Nodes : m # n => sending'[m] = sending[m]
  BY TakenLoop DEF Forest
<1>2. /\ Distinct(Others(n, q))
      /\ \A x : Contains(Others(n, q), x) => Contains(nodes[n], x)
  BY OthersParts DEF Forest
<1>3. UNCHANGED <<phase, nodes, network>>
  BY DEF TakeMessage
<1>4. \A c, p \in Nodes : Copies(Datagram("R", c, p), network) \in Nat
  BY NetworkBag, CopiesCount
<1>5. /\ \A m, p \in Nodes : Contains(sending'[m].rest, p) => Contains(sending[m].rest, p) \/ Contains(nodes[m], p)
      /\ \A m \in Nodes : Distinct(nodes'[m]) /\ Distinct(sending'[m].rest)
  BY <1>1, <1>2, <1>3 DEF Forest, Once
<1>6. \A c, p \in Nodes : Copies(Datagram("R", c, p), network') <= Copies(Datagram("R", c, p), network)
  BY <1>3, <1>4
<1>. QED
  BY <1>3, <1>5, <1>6, ForestFades

LEMMA SendKeepsForest ==
  ASSUME TypeOK, TypeOK', Forest, NEW n \in Nodes, NEW p, SendMessage(n, p) \/ SendFails(n, p)
  PROVE  Forest'
<1>1. /\ sending[n].rest # <<>> /\ sending[n].rest \in Seq(Nodes)
      /\ UNCHANGED <<phase, nodes>>
  BY ServedNode DEF SendMessage, SendFails
<1>2. /\ sending'[n].rest = Tail(sending[n].rest) \/ sending'[n].rest = <<>>
      /\ \A m \in Nodes : m # n => sending'[m] = sending[m]
  BY ServedLoop, FailedLoop
<1>3. /\ Distinct(sending'[n].rest)
      /\ \A x : Contains(sending'[n].rest, x) => Contains(sending[n].rest, x)
  BY <1>1, <1>2, ContainsTail, DistinctTail, EmptyContains DEF Forest, Once
<1>4. \A c, q \in Nodes : Copies(Datagram("R", c, q), network') <= Copies(Datagram("R", c, q), network)
  <2>1. CASE SendMessage(n, p)
    <3>1. PICK e : e = MessageTo(p, n, sent[n][p] + 1, sending[n].line)
      OBVIOUS
    <3>2. network' = network (+) SetToBag({e}) /\ e.type # "R"
      BY <2>1, <3>1 DEF SendMessage, MessageTo
    <3>. QED
      BY <3>2, OtherTraffic
  <2>2. CASE SendFails(n, p)
    BY <2>2, OtherTraffic DEF SendFails
  <2>. QED
    BY <2>1, <2>2
<1>5. /\ \A m, q \in Nodes : Contains(sending'[m].rest, q) => Contains(sending[m].rest, q) \/ Contains(nodes[m], q)
      /\ \A m \in Nodes : Distinct(nodes'[m]) /\ Distinct(sending'[m].rest)
  BY <1>1, <1>2, <1>3 DEF Forest, Once
<1>. QED
  BY <1>1, <1>4, <1>5, ForestFades

LEMMA RecieveKeepsForest ==
  ASSUME TypeOK, TypeOK', Forest, NEW n \in Nodes, NEW d,
         AcceptMessage(n, d) \/ IgnoreMessage(n, d) \/ CountConfirm(n, d) \/ IgnoreName(n, d)
  PROVE  Forest'
<1>1. BagIn(d, network) /\ UNCHANGED <<phase, nodes, sending>>
  BY DEF AcceptMessage, IgnoreMessage, CountConfirm, IgnoreName, Flying
<1>2. \/ network' = Delivered(d)
      \/ network' = Delivered(d) (+) SetToBag({Datagram("C", n, d.from)})
  BY DEF AcceptMessage, IgnoreMessage, CountConfirm, IgnoreName
<1>3. Datagram("C", n, d.from).type # "R"
  BY DEF Datagram
<1>4. \A c, p \in Nodes : Copies(Datagram("R", c, p), network') <= Copies(Datagram("R", c, p), network)
  BY <1>1, <1>2, <1>3, OtherTraffic
<1>. QED
  BY <1>1, <1>4, ForestFades DEF Forest, Once

LEMMA CheckKeepsForest ==
  ASSUME TypeOK, TypeOK', Forest, NEW n \in Nodes, CheckerStep(n)
  PROVE  Forest'
<1>1. UNCHANGED <<phase, sending>>
  BY DEF CheckerStep, CheckRemoves, CheckResends, CheckDone
<1>2. /\ \A m, p \in Nodes : Contains(nodes'[m], p) => Contains(nodes[m], p)
      /\ \A m \in Nodes : Distinct(nodes'[m]) /\ Distinct(sending'[m].rest)
  <2>1. CASE UNCHANGED nodes
    BY <1>1, <2>1 DEF Forest, Once
  <2>2. CASE CheckRemoves(n)
    <3>1. PICK q : nodes' = [nodes EXCEPT ![n] = Others(n, q)]
      BY <2>2 DEF CheckRemoves
    <3>2. nodes \in [Nodes -> Seq(Nodes)]
      BY DEF TypeOK
    <3>3. nodes'[n] = Others(n, q) /\ \A m \in Nodes : m # n => nodes'[m] = nodes[m]
      BY <3>1, <3>2
    <3>4. Distinct(Others(n, q)) /\ \A x : Contains(Others(n, q), x) => Contains(nodes[n], x)
      BY OthersParts DEF Forest
    <3>. QED
      BY <1>1, <3>3, <3>4 DEF Forest, Once
  <2>. QED
    BY <2>1, <2>2 DEF CheckerStep, CheckResends, CheckDone
<1>3. \A c, p \in Nodes : Copies(Datagram("R", c, p), network') <= Copies(Datagram("R", c, p), network)
  <2>1. CASE UNCHANGED network
    BY <2>1, OtherTraffic
  <2>2. CASE CheckResends(n)
    <3>1. PICK t, e : e = MessageTo(t.to, n, t.uid, t.line) /\ network' = network (+) SetToBag({e})
      BY <2>2 DEF CheckResends
    <3>2. e.type # "R"
      BY <3>1 DEF MessageTo
    <3>. QED
      BY <3>1, <3>2, OtherTraffic
  <2>. QED
    BY <2>1, <2>2 DEF CheckerStep, CheckRemoves, CheckDone
<1>. QED
  BY <1>1, <1>2, <1>3, ForestFades

LEMMA RestKeepsForest ==
  ASSUME TypeOK, TypeOK', Forest,
         \/ UNCHANGED vars
         \/ \E n \in Nodes : StartRoot(n) \/ ConnectTimesOut(n) \/ ConnectFails(n) \/ TypeLine(n) \/ Quit(n)
         \/ \E d : BagIn(d, network) /\ Lose(d)
  PROVE  Forest'
<1>1. UNCHANGED <<nodes, sending>>
  BY DEF StartRoot, ConnectTimesOut, ConnectFails, TypeLine, Quit, Lose, vars
<1>2. network' = network \/ \E d : BagIn(d, network) /\ network' = Delivered(d)
  BY DEF StartRoot, ConnectTimesOut, ConnectFails, TypeLine, Quit, Lose, vars
<1>3. phase' = phase \/ \E n \in Nodes : phase' = [phase EXCEPT ![n] = "working"] \/ phase' = [phase EXCEPT ![n] = "closed"]
  BY DEF StartRoot, ConnectTimesOut, ConnectFails, TypeLine, Quit, Lose, vars
<1>4. \A c \in Nodes : /\ phase'[c] = "off" => phase[c] = "off"
                       /\ phase'[c] = "connecting" => phase[c] = "connecting"
  BY <1>3 DEF TypeOK
<1>5. \A c, p \in Nodes : Copies(Datagram("R", c, p), network') <= Copies(Datagram("R", c, p), network)
  BY <1>2, OtherTraffic
<1>6. /\ \A n \in Nodes : Distinct(nodes'[n]) /\ Distinct(sending'[n].rest)
      /\ \A n, p \in Nodes : Contains(nodes'[n], p) => Contains(nodes[n], p)
      /\ \A n, p \in Nodes : Contains(sending'[n].rest, p) => Contains(sending[n].rest, p) \/ Contains(nodes[n], p)
  BY <1>1 DEF Forest, Once
<1>. QED
  BY <1>4, <1>5, <1>6, ForestFades

LEMMA InitForest == Init => Forest
<1>. SUFFICES ASSUME Init PROVE Forest
  OBVIOUS
<1>1. \A x : ~BagIn(x, network) /\ Copies(x, network) = 0
  BY DEF Init, NothingSaid, EmptyBag, SetToBag, BagIn, BagToSet, Copies
<1>2. \A n \in Nodes : nodes[n] = <<>> /\ sending[n].rest = <<>> /\ phase[n] = "off"
  BY DEF Init, NothingSaid, Idle
<1>. QED
  BY <1>1, <1>2, EmptyContains DEF Forest, Edges, Once, Joins

LEMMA ForestNext ==
  ASSUME TypeOK, TypeOK', Forest, [Next]_vars
  PROVE  Forest'
<1>1. ASSUME NEW n \in Nodes, ServerStep(n) PROVE Forest'
  BY <1>1, RegisterKeepsForest, ConnectKeepsForest, RestKeepsForest DEF ServerStep
<1>2. ASSUME NEW n \in Nodes, SenderStep(n) PROVE Forest'
  BY <1>2, TakeKeepsForest, SendKeepsForest DEF SenderStep
<1>3. ASSUME NEW n \in Nodes, RecieverStep(n) PROVE Forest'
  BY <1>3, RecieveKeepsForest, AcceptKeepsForest DEF RecieverStep
<1>4. ASSUME NEW n \in Nodes, CheckerStep(n) PROVE Forest'
  BY <1>4, CheckKeepsForest
<1>5. ASSUME NEW d \in BagToSet(network), Lose(d) PROVE Forest'
  BY <1>5, RestKeepsForest DEF BagIn
<1>6. CASE UNCHANGED vars
  BY <1>6, RestKeepsForest
<1>. QED
  BY <1>1, <1>2, <1>3, <1>4, <1>5, <1>6 DEF Next

-----------------------------------------------------------------------------
(* What is kept and what is under way                                       *)

LEMMA WaitsTail ==
  ASSUME NEW queue \in Seq(Tasks), queue # <<>>
  PROVE  /\ Head(queue) \in Tasks /\ Tail(queue) \in Seq(Tasks)
         /\ \A n, u, l : Waits(Tail(queue), n, u, l) => Waits(queue, n, u, l)
         /\ Waits(queue, Head(queue).to, Head(queue).uid, Head(queue).line)
<1>1. /\ Head(queue) = queue[1] /\ Head(queue) \in Tasks /\ 1 \in DOMAIN queue /\ Tail(queue) \in Seq(Tasks)
      /\ \A i \in DOMAIN Tail(queue) : i + 1 \in DOMAIN queue /\ Tail(queue)[i] = queue[i + 1]
  BY ContainsTail
<1>. QED
  BY <1>1 DEF Waits

LEMMA WaitsAppend ==
  ASSUME NEW queue \in Seq(Tasks), NEW t \in Tasks
  PROVE  /\ Append(queue, t) \in Seq(Tasks)
         /\ \A n, u, l : Waits(Append(queue, t), n, u, l) <=>
                           Waits(queue, n, u, l) \/ (t.to = n /\ t.uid = u /\ t.line = l)
<1>1. /\ Append(queue, t) \in Seq(Tasks)
      /\ \A i \in DOMAIN queue : i \in DOMAIN Append(queue, t) /\ Append(queue, t)[i] = queue[i]
      /\ Append(queue, t)[Len(queue) + 1] = t
      /\ DOMAIN Append(queue, t) = DOMAIN queue \cup {Len(queue) + 1}
  BY ContainsAppend
<1>2. Len(queue) + 1 \in DOMAIN Append(queue, t)
  BY <1>1
<1>. QED
  BY <1>1, <1>2 DEF Waits

LEMMA MessageParts ==
  /\ \A p, n, u, l, q, m, v, k : MessageTo(n, p, u, l) = MessageTo(m, q, v, k) <=> n = m /\ p = q /\ u = v /\ l = k
  /\ \A type, p, n, u, l, q, m : type # "M" => MessageTo(n, p, u, l) # Datagram(type, q, m)
BY DEF MessageTo, Datagram

(* The Checker's queue after a task was dropped or moved to the end.        *)
LEMMA CheckerKeeps ==
  ASSUME TypeOK, NEW n \in Nodes, CheckerStep(n)
  PROVE  /\ \A p \in Nodes : \A q, u, l : Waits(checkQueue'[p], q, u, l) => Waits(checkQueue[p], q, u, l)
         /\ checkQueue[n] # <<>> /\ \A p \in Nodes : p # n => checkQueue'[p] = checkQueue[p]
<1>1. checkQueue[n] \in Seq(Tasks) /\ checkQueue[n] # <<>> /\ checkQueue \in [Nodes -> Seq(Tasks)]
  BY DEF CheckerStep, CheckRemoves, CheckResends, CheckDone, TypeOK
<1>2. PICK t \in Tasks : t = Head(checkQueue[n])
  BY <1>1, WaitsTail
<1>3. /\ Tail(checkQueue[n]) \in Seq(Tasks)
      /\ \A q, u, l : Waits(Tail(checkQueue[n]), q, u, l) => Waits(checkQueue[n], q, u, l)
      /\ Waits(checkQueue[n], t.to, t.uid, t.line)
  BY <1>1, <1>2, WaitsTail
<1>4. CASE checkQueue' = [checkQueue EXCEPT ![n] = Tail(@)]
  BY <1>1, <1>3, <1>4
<1>5. CASE CheckResends(n)
  <2>1. PICK r : r = [t EXCEPT !.numFailed = @ + 1]
    OBVIOUS
  <2>2. r \in Tasks /\ r.to = t.to /\ r.uid = t.uid /\ r.line = t.line
    <3>1. t.numFailed <= MaxFailed /\ MaxFailed \in Nat
      BY <1>2, <1>5, TreeAssumption DEF CheckResends, TreeAssumption
    <3>2. r = [to |-> t.to, uid |-> t.uid, line |-> t.line, numFailed |-> t.numFailed + 1]
      BY <2>1 DEF Tasks
    <3>3. t.numFailed + 1 \in 1..(MaxFailed + 1)
      BY <3>1 DEF Tasks
    <3>. QED
      BY <3>2, <3>3 DEF Tasks
  <2>3. PICK s \in Seq(Tasks) : s = Tail(checkQueue[n])
    BY <1>3
  <2>4. checkQueue' = [checkQueue EXCEPT ![n] = Append(s, r)]
    BY <1>2, <1>5, <2>1, <2>3 DEF CheckResends
  <2>5. \A q, u, l : Waits(Append(s, r), q, u, l) => Waits(checkQueue[n], q, u, l)
    <3>1. \A q, u, l : Waits(Append(s, r), q, u, l) <=> Waits(s, q, u, l) \/ (r.to = q /\ r.uid = u /\ r.line = l)
      BY <2>2, WaitsAppend
    <3>. QED
      BY <1>3, <2>2, <2>3, <3>1
  <2>. QED
    BY <1>1, <2>4, <2>5
<1>. QED
  BY <1>4, <1>5 DEF CheckerStep, CheckRemoves, CheckDone

LEMMA NetworkFades ==
  ASSUME TypeOK,
         \/ network' = network
         \/ \E d : BagIn(d, network) /\ network' = Delivered(d)
         \/ \E type, q, m : type # "M" /\ network' = network (+) SetToBag({Datagram(type, q, m)})
         \/ \E d, type, q, m : /\ BagIn(d, network) /\ type # "M"
                               /\ network' = Delivered(d) (+) SetToBag({Datagram(type, q, m)})
  PROVE  \A n, p, u, l : BagIn(MessageTo(n, p, u, l), network') => BagIn(MessageTo(n, p, u, l), network)
<1>. SUFFICES ASSUME NEW n, NEW p, NEW u, NEW l, NEW x, x = MessageTo(n, p, u, l), BagIn(x, network')
              PROVE  BagIn(x, network)
  OBVIOUS
<1>1. CASE network' = network
  BY <1>1
<1>2. ASSUME NEW d, BagIn(d, network), network' = Delivered(d) PROVE BagIn(x, network)
  BY <1>2, DeliveredBag
<1>3. ASSUME NEW type, NEW q, NEW m, type # "M", network' = network (+) SetToBag({Datagram(type, q, m)})
      PROVE  BagIn(x, network)
  <2>1. PICK e : e = Datagram(type, q, m)
    OBVIOUS
  <2>2. x # e
    BY <1>3, <2>1, MessageParts
  <2>3. \A y : BagIn(y, network') <=> BagIn(y, network) \/ y = e
    BY <1>3, <2>1, SentBag
  <2>. QED
    BY <2>2, <2>3
<1>4. ASSUME NEW d, NEW type, NEW q, NEW m, BagIn(d, network), type # "M",
             network' = Delivered(d) (+) SetToBag({Datagram(type, q, m)})
      PROVE  BagIn(x, network)
  <2>1. PICK e : e = Datagram(type, q, m)
    OBVIOUS
  <2>2. x # e
    BY <1>4, <2>1, MessageParts
  <2>3. \A y : BagIn(y, network') => BagIn(y, network) \/ y = e
    <3>1. \A y : BagIn(y, Delivered(d) (+) SetToBag({e})) => BagIn(y, network) \/ y = e
      BY <1>4, AnsweredBag
    <3>. QED
      BY <1>4, <2>1, <3>1
  <2>. QED
    BY <2>2, <2>3
<1>. QED
  BY <1>1, <1>2, <1>3, <1>4

(* Only a message that is sent is carried anew.                             *)
Fades ==
  \A p, n \in Nodes, u \in Nat, l \in Lines :
    /\ Kept(p, n, u, l)' => Kept(p, n, u, l)
    /\ Carried(p, n, u, l)' => Carried(p, n, u, l)

LEMMA CheckerFades ==
  ASSUME TypeOK, NEW n \in Nodes, CheckerStep(n)
  PROVE  Fades
<1>1. \A p, q \in Nodes, u \in Nat, l \in Lines : Kept(p, q, u, l)' => Kept(p, q, u, l)
  BY CheckerKeeps DEF Kept
<1>2. CASE UNCHANGED network
  BY <1>1, <1>2 DEF Fades, Carried
<1>3. CASE CheckResends(n)
  <2>1. PICK t \in Tasks : t = Head(checkQueue[n]) /\ Waits(checkQueue[n], t.to, t.uid, t.line)
    BY <1>3, WaitsTail DEF CheckResends, TypeOK
  <2>2. PICK e : e = MessageTo(t.to, n, t.uid, t.line)
    OBVIOUS
  <2>3. network' = network (+) SetToBag({e})
    BY <1>3, <2>1, <2>2 DEF CheckResends
  <2>4. \A x : BagIn(x, network') <=> BagIn(x, network) \/ x = e
    BY <2>3, SentBag
  <2>5. ASSUME NEW p, NEW q, NEW u, NEW l, BagIn(MessageTo(q, p, u, l), network')
        PROVE  BagIn(MessageTo(q, p, u, l), network) \/ Kept(p, q, u, l)
    <3>1. CASE MessageTo(q, p, u, l) = e
      <4>1. q = t.to /\ p = n /\ u = t.uid /\ l = t.line
        BY <2>2, <3>1, MessageParts
      <4>. QED
        BY <2>1, <4>1 DEF Kept
    <3>. QED
      BY <2>4, <2>5, <3>1
  <2>. QED
    BY <1>1, <2>5 DEF Fades, Carried
<1>. QED
  BY <1>2, <1>3 DEF CheckerStep, CheckRemoves, CheckDone

LEMMA RecieverFades ==
  ASSUME TypeOK, NEW n \in Nodes, RecieverStep(n)
  PROVE  Fades
<1>1. PICK d \in BagToSet(network) :
        \/ AcceptMessage(n, d) \/ IgnoreMessage(n, d) \/ CountConfirm(n, d)
        \/ AcceptRegistration(n, d) \/ IgnoreName(n, d)
  BY DEF RecieverStep
<1>2. BagIn(d, network) /\ checkQueue' = checkQueue
  BY <1>1 DEF AcceptMessage, IgnoreMessage, CountConfirm, AcceptRegistration, IgnoreName, BagIn
<1>3. \/ network' = Delivered(d)
      \/ \E type, q, m : type # "M" /\ network' = Delivered(d) (+) SetToBag({Datagram(type, q, m)})
  <2>1. "C" # "M" /\ "N" # "M"
    OBVIOUS
  <2>. QED
    BY <1>1, <2>1, Zenon DEF AcceptMessage, IgnoreMessage, CountConfirm, AcceptRegistration, IgnoreName
<1>4. \A m, p, u, l : BagIn(MessageTo(m, p, u, l), network') => BagIn(MessageTo(m, p, u, l), network)
  BY <1>2, <1>3, NetworkFades
<1>. QED
  BY <1>2, <1>4 DEF Fades, Carried, Kept

LEMMA OthersFade ==
  ASSUME TypeOK,
         \/ UNCHANGED vars
         \/ \E n \in Nodes : ServerStep(n) \/ TakeMessage(n) \/ \E p \in Nodes : SendFails(n, p)
         \/ \E d : BagIn(d, network) /\ Lose(d)
  PROVE  Fades
<1>1. checkQueue' = checkQueue
  BY DEF vars, ServerStep, StartRoot, Register, ConnectAnswered, ConnectTimesOut, ConnectFails, TypeLine, Quit,
         TakeMessage, SendFails, Lose
<1>2. \/ network' = network
      \/ \E d : BagIn(d, network) /\ network' = Delivered(d)
      \/ \E type, q, m : type # "M" /\ network' = network (+) SetToBag({Datagram(type, q, m)})
  <2>1. ASSUME NEW n \in Nodes, Register(n)
        PROVE  \E type, q, m : type # "M" /\ network' = network (+) SetToBag({Datagram(type, q, m)})
    <3>1. "R" # "M"
      OBVIOUS
    <3>. QED
      BY <2>1, <3>1, Zenon DEF Register
  <2>2. ASSUME NEW n \in Nodes, ConnectAnswered(n)
        PROVE  \E d : BagIn(d, network) /\ network' = Delivered(d)
    BY <2>2 DEF ConnectAnswered, BagIn
  <2>. QED
    BY <2>1, <2>2 DEF vars, ServerStep, StartRoot, ConnectTimesOut, ConnectFails, TypeLine, Quit, TakeMessage, SendFails, Lose
<1>3. \A m, p, u, l : BagIn(MessageTo(m, p, u, l), network') => BagIn(MessageTo(m, p, u, l), network)
  BY <1>2, NetworkFades
<1>. QED
  BY <1>1, <1>3 DEF Fades, Carried, Kept

LEMMA SendCarries ==
  ASSUME TypeOK, NEW n \in Nodes, NEW p \in Nodes, SendMessage(n, p)
  PROVE  /\ sending[n].line \in Lines /\ sent[n][p] \in Nat
         /\ \A q, m \in Nodes, u \in Nat, l \in Lines :
              /\ Kept(q, m, u, l)' => Kept(q, m, u, l) \/ (q = n /\ m = p /\ u = sent[n][p] + 1 /\ l = sending[n].line)
              /\ Carried(q, m, u, l)' =>
                   Carried(q, m, u, l) \/ (q = n /\ m = p /\ u = sent[n][p] + 1 /\ l = sending[n].line)
<1>1. PICK u \in Nat, l \in Lines : u = sent[n][p] + 1 /\ l = sending[n].line
  <2>1. Serving(n, p) /\ sent \in [Nodes -> [Nodes -> Nat]]
    BY DEF SendMessage, TypeOK
  <2>2. sending[n].line \in Lines
    BY <2>1, ServedNode
  <2>3. sent[n][p] + 1 \in Nat
    BY <2>1
  <2>. QED
    BY <2>2, <2>3
<1>2. PICK t \in Tasks : t = [to |-> p, uid |-> u, line |-> l, numFailed |-> 1]
  <2>1. 1 \in 1..(MaxFailed + 1)
    BY TreeAssumption DEF TreeAssumption
  <2>. QED
    BY <2>1 DEF Tasks
<1>3. PICK e : e = MessageTo(p, n, u, l)
  OBVIOUS
<1>4. network' = network (+) SetToBag({e}) /\ checkQueue' = [checkQueue EXCEPT ![n] = Append(@, t)]
  BY <1>1, <1>2, <1>3 DEF SendMessage
<1>5. \A x : BagIn(x, network') <=> BagIn(x, network) \/ x = e
  BY <1>4, SentBag
<1>6. \A q, m, v, k : BagIn(MessageTo(m, q, v, k), network') =>
        BagIn(MessageTo(m, q, v, k), network) \/ (q = n /\ m = p /\ v = u /\ k = l)
  BY <1>3, <1>5, MessageParts
<1>7. \A q \in Nodes : \A m, v, k : Waits(checkQueue'[q], m, v, k) =>
        Waits(checkQueue[q], m, v, k) \/ (q = n /\ m = p /\ v = u /\ k = l)
  <2>1. \A m, v, k : Waits(Append(checkQueue[n], t), m, v, k) <=>
          Waits(checkQueue[n], m, v, k) \/ (t.to = m /\ t.uid = v /\ t.line = k)
    BY WaitsAppend DEF TypeOK
  <2>2. t.to = p /\ t.uid = u /\ t.line = l
    BY <1>2
  <2>3. checkQueue'[n] = Append(checkQueue[n], t) /\ \A q \in Nodes : q # n => checkQueue'[q] = checkQueue[q]
    BY <1>4 DEF TypeOK
  <2>. QED
    BY <2>1, <2>2, <2>3
<1>8. sending[n].line \in Lines /\ sent[n][p] \in Nat
  BY <1>1 DEF TypeOK
<1>9. \A q, m \in Nodes, v \in Nat, k \in Lines :
        /\ Kept(q, m, v, k)' => Kept(q, m, v, k) \/ (q = n /\ m = p /\ v = u /\ k = l)
        /\ Carried(q, m, v, k)' => Carried(q, m, v, k) \/ (q = n /\ m = p /\ v = u /\ k = l)
  BY <1>6, <1>7 DEF Carried, Kept
<1>. QED
  BY <1>1, <1>8, <1>9

-----------------------------------------------------------------------------
(* Numbers                                                                  *)

LEMMA InitCarries == Init => \A p \in Nodes : \A n, u, l : ~Carried(p, n, u, l)
<1>. SUFFICES ASSUME Init PROVE \A p \in Nodes : \A n, u, l : ~Carried(p, n, u, l)
  OBVIOUS
<1>1. \A x : ~BagIn(x, network)
  BY DEF Init, NothingSaid, EmptyBag, SetToBag, BagIn, BagToSet
<1>2. \A p \in Nodes : checkQueue[p] = <<>>
  BY DEF Init, NothingSaid
<1>. QED
  BY <1>1, <1>2 DEF Carried, Kept, Waits

LEMMA NumbersFade ==
  ASSUME TypeOK, TypeOK', Numbers, Agree, Fades,
         \A p, n \in Nodes : sent'[p][n] >= sent[p][n] /\ recieved'[n][p] <= sent'[p][n] + 1
  PROVE  Numbers' /\ Agree'
<1>1. \A p, n \in Nodes : sent[p][n] \in Nat /\ sent'[p][n] \in Nat
  BY DEF TypeOK
<1>2. Numbers'
  BY <1>1 DEF Numbers, Fades
<1>3. Agree'
  BY DEF Agree, Fades
<1>. QED
  BY <1>2, <1>3

LEMMA SendNumbers ==
  ASSUME TypeOK, TypeOK', Numbers, Agree, NEW n \in Nodes, NEW p \in Nodes, SendMessage(n, p)
  PROVE  Numbers' /\ Agree'
<1>1. PICK w \in Nat, k \in Lines : w = sent[n][p] + 1 /\ k = sending[n].line
  BY SendCarries
<1>2. \A q, m \in Nodes, u \in Nat, l \in Lines :
        Carried(q, m, u, l)' => Carried(q, m, u, l) \/ (q = n /\ m = p /\ u = w /\ l = k)
  BY ZenonT(30), <1>1, SendCarries
<1>3. sent \in [Nodes -> [Nodes -> Nat]] /\ recieved \in [Nodes -> [Nodes -> Nat \ {0}]]
  BY DEF TypeOK
<1>4. sent' = [sent EXCEPT ![n][p] = w] /\ recieved' = recieved
  BY <1>1 DEF SendMessage
<1>5. \A q, m \in Nodes : /\ sent'[q][m] >= sent[q][m] /\ sent'[q][m] \in Nat /\ sent[q][m] \in Nat
                          /\ recieved'[m][q] = recieved[m][q] /\ recieved[m][q] \in Nat
  BY <1>1, <1>3, <1>4
<1>6. sent'[n][p] = w
  BY <1>3, <1>4
<1>7. Numbers'
  BY <1>1, <1>2, <1>5, <1>6 DEF Numbers
<1>8. \A u \in Nat, l \in Lines : Carried(n, p, u, l) => u # w
  BY <1>1, <1>5 DEF Numbers
<1>9. Agree'
  <2>. SUFFICES ASSUME NEW q \in Nodes, NEW m \in Nodes, NEW u \in Nat, NEW l \in Lines, NEW j \in Lines,
                       Carried(q, m, u, l)', Carried(q, m, u, j)'
                PROVE  l = j
    BY DEF Agree
  <2>1. /\ Carried(q, m, u, l) \/ (q = n /\ m = p /\ u = w /\ l = k)
        /\ Carried(q, m, u, j) \/ (q = n /\ m = p /\ u = w /\ j = k)
    BY <1>2
  <2>. QED
    BY <1>8, <2>1 DEF Agree
<1>. QED
  BY <1>7, <1>9

LEMMA Accepted ==
  ASSUME TypeOK, NEW n \in Nodes, NEW d, AcceptMessage(n, d)
  PROVE  /\ d.from \in Nodes /\ d.line \in Lines /\ d.uid \in Nat /\ Contains(nodes[n], d.from)
         /\ d.uid = recieved[n][d.from]
         /\ Carried(d.from, n, d.uid, d.line) /\ BagIn(d, network) /\ d = MessageTo(n, d.from, d.uid, d.line)
         /\ \A p, m \in Nodes : <<m, p>> # <<n, d.from>> => recieved'[m][p] = recieved[m][p]
         /\ recieved'[n][d.from] = recieved[n][d.from] \/ recieved'[n][d.from] = recieved[n][d.from] + 1
         /\ recieved'[n][d.from] = recieved[n][d.from] => unconfirmed'
         /\ unconfirmed => unconfirmed'
<1>1. d \in Datagrams /\ BagIn(d, network) /\ d.type = "M" /\ d.to = n
  BY FlyingTyped DEF AcceptMessage, Flying
<1>2. d.from \in Nodes /\ d.line \in Lines /\ d.uid \in Nat /\ d = MessageTo(n, d.from, d.uid, d.line)
  BY <1>1, DatagramParts
<1>3. Carried(d.from, n, d.uid, d.line)
  BY <1>1, <1>2 DEF Carried
<1>4. recieved \in [Nodes -> [Nodes -> Nat \ {0}]]
  BY DEF TypeOK
<1>5. CASE recieved' = [recieved EXCEPT ![n][d.from] = @ + 1] /\ UNCHANGED unconfirmed
  <2>1. /\ recieved'[n][d.from] = recieved[n][d.from] + 1
        /\ \A p, m \in Nodes : <<m, p>> # <<n, d.from>> => recieved'[m][p] = recieved[m][p]
        /\ recieved[n][d.from] + 1 # recieved[n][d.from]
    BY <1>2, <1>4, <1>5
  <2>2. unconfirmed => unconfirmed'
    BY <1>5
  <2>3. Contains(nodes[n], d.from) /\ d.uid = recieved[n][d.from]
    BY DEF AcceptMessage
  <2>. QED
    BY <1>1, <1>2, <1>3, <2>1, <2>2, <2>3, Zenon
<1>6. CASE recieved' = recieved /\ unconfirmed' = TRUE
  BY <1>1, <1>2, <1>3, <1>6 DEF AcceptMessage
<1>7. \/ recieved' = [recieved EXCEPT ![n][d.from] = @ + 1] /\ UNCHANGED unconfirmed
      \/ recieved' = recieved /\ unconfirmed' = TRUE
  BY DEF AcceptMessage
<1>. QED
  BY <1>5, <1>6, <1>7

LEMMA NumbersNext ==
  ASSUME TypeOK, TypeOK', Numbers, Agree, [Next]_vars
  PROVE  Numbers' /\ Agree'
<1>1. /\ \A p, n \in Nodes : sent[p][n] \in Nat /\ recieved[n][p] \in Nat
      /\ sent \in [Nodes -> [Nodes -> Nat]]
  BY DEF TypeOK
<1>2. ASSUME Fades, UNCHANGED <<sent, recieved>> PROVE Numbers' /\ Agree'
  <2>1. \A p, n \in Nodes : sent'[p][n] >= sent[p][n] /\ recieved'[n][p] <= sent'[p][n] + 1
    BY <1>1, <1>2 DEF Numbers
  <2>. QED
    BY <1>2, <2>1, NumbersFade
<1>3. ASSUME NEW n \in Nodes, ServerStep(n) \/ TakeMessage(n) PROVE Numbers' /\ Agree'
  <2>1. UNCHANGED <<sent, recieved>>
    BY <1>3 DEF ServerStep, StartRoot, Register, ConnectAnswered, ConnectTimesOut, ConnectFails, TypeLine, Quit, TakeMessage, links
  <2>2. Fades
    BY <1>3, OthersFade
  <2>. QED
    BY <1>2, <2>1, <2>2
<1>4. ASSUME NEW n \in Nodes, NEW p \in Nodes, SendFails(n, p) PROVE Numbers' /\ Agree'
  <2>1. sent' = [sent EXCEPT ![n][p] = @ + 1] /\ recieved' = recieved
    BY <1>4 DEF SendFails
  <2>2. \A q, m \in Nodes : sent'[q][m] >= sent[q][m] /\ sent'[q][m] \in Nat
    BY <1>1, <2>1
  <2>3. \A q, m \in Nodes : recieved'[m][q] <= sent'[q][m] + 1
    BY <1>1, <2>1, <2>2 DEF Numbers
  <2>4. Fades
    BY <1>4, OthersFade
  <2>. QED
    BY <2>2, <2>3, <2>4, NumbersFade
<1>5. ASSUME NEW n \in Nodes, RecieverStep(n) PROVE Numbers' /\ Agree'
  <2>1. Fades
    BY <1>5, RecieverFades
  <2>2. CASE UNCHANGED <<sent, recieved>>
    BY <1>2, <2>1, <2>2
  <2>3. ASSUME NEW d, AcceptMessage(n, d) PROVE Numbers' /\ Agree'
    <3>1. PICK q \in Nodes : q = d.from
      BY <2>3, Accepted
    <3>2. /\ d.line \in Lines /\ d.uid \in Nat /\ d.uid = recieved[n][q] /\ Carried(q, n, d.uid, d.line)
          /\ \A p, m \in Nodes : <<m, p>> # <<n, q>> => recieved'[m][p] = recieved[m][p]
          /\ recieved'[n][q] = recieved[n][q] \/ recieved'[n][q] = recieved[n][q] + 1
      BY <2>3, <3>1, Accepted
    <3>3. recieved[n][q] <= sent[q][n]
      BY <1>1, <3>2 DEF Numbers
    <3>4. sent' = sent
      BY <2>3 DEF AcceptMessage
    <3>5. \A p, m \in Nodes : sent'[p][m] >= sent[p][m] /\ recieved'[m][p] <= sent'[p][m] + 1
      BY <1>1, <3>2, <3>3, <3>4 DEF Numbers
    <3>. QED
      BY <2>1, <3>5, NumbersFade
  <2>. QED
    BY <1>5, <2>2, <2>3 DEF RecieverStep, IgnoreMessage, CountConfirm, AcceptRegistration, IgnoreName, links
<1>6. ASSUME NEW n \in Nodes, CheckerStep(n) PROVE Numbers' /\ Agree'
  <2>1. UNCHANGED <<sent, recieved>>
    BY <1>6 DEF CheckerStep, CheckRemoves, CheckResends, CheckDone, links
  <2>. QED
    BY <1>2, <1>6, <2>1, CheckerFades
<1>7. ASSUME UNCHANGED vars \/ \E d : BagIn(d, network) /\ Lose(d) PROVE Numbers' /\ Agree'
  <2>1. UNCHANGED <<sent, recieved>>
    BY <1>7 DEF vars, Lose, links
  <2>. QED
    BY <1>2, <1>7, <2>1, OthersFade
<1>. QED
  BY <1>3, <1>4, <1>5, <1>6, <1>7, SendNumbers DEF Next, SenderStep, BagIn

-----------------------------------------------------------------------------
(* The order of lines                                                       *)

LEMMA InitFlow == Init => Flow
<1>. SUFFICES ASSUME Init PROVE Flow
  OBVIOUS
<1>1. \A n \in Nodes : messageQueue[n] = <<>> /\ sending[n].rest = <<>> /\ printed[n] = <<>>
  BY DEF Init, NothingSaid, Idle
<1>2. \A p \in Nodes : \A n, u, l : ~Carried(p, n, u, l)
  BY InitCarries
<1>3. \A n \in Nodes : \A x : ~Contains(messageQueue[n], x) /\ ~Contains(sending[n].rest, x) /\ ~Contains(printed[n], x)
  BY <1>1, EmptyContains
<1>4. \A p \in Nodes, l \in Lines : ~Held(p, l)
  BY <1>1, <1>2, <1>3 DEF Held
<1>5. Directed /\ Sourced /\ Came /\ LinkOrder /\ NextOrder
  BY <1>2, <1>3, <1>4 DEF Directed, Sourced, Came, LinkOrder, NextOrder
<1>6. QueueOrder /\ PrintOrder
  BY <1>1, <1>3 DEF QueueOrder, PrintOrder
<1>. QED
  BY <1>5, <1>6 DEF Flow

(* Most steps only forget something.                                        *)
LEMMA FlowFades ==
  ASSUME TypeOK, Flow, Fades,
         UNCHANGED <<typed, messageQueue, printed, recieved, unconfirmed>>,
         \A p \in Nodes : sending'[p] = sending[p] \/ sending'[p].rest = <<>>
  PROVE  Flow'
<1>1. \A p, n \in Nodes, u \in Nat, l \in Lines : Carried(p, n, u, l)' => Carried(p, n, u, l)
  BY DEF Fades
<1>2. \A p \in Nodes : /\ \A n : Contains(sending'[p].rest, n) => Contains(sending[p].rest, n) /\ sending'[p] = sending[p]
                       /\ sending'[p].rest # <<>> => sending[p].rest # <<>> /\ sending'[p] = sending[p]
  BY EmptyContains
<1>3. \A l, m : Before(l, m)' <=> Before(l, m)
  BY DEF Before
<1>4. Directed'
  BY <1>1, <1>2 DEF Flow, Directed
<1>5. \A p \in Nodes, l \in Lines : (Held(p, l)' => Held(p, l)) /\ (Owned(p, l) => Owned(p, l)')
  BY <1>1, <1>2 DEF Held, Owned
<1>6. Sourced'
  BY <1>5 DEF Flow, Sourced
<1>7. Came'
  BY <1>5 DEF Flow, Came
<1>8. QueueOrder'
  BY <1>2, <1>3 DEF Flow, QueueOrder
<1>9. LinkOrder'
  BY ZenonT(30), <1>1, <1>2, <1>3 DEF Flow, LinkOrder
<1>10. PrintOrder'
  BY <1>3 DEF Flow, PrintOrder
<1>11. NextOrder'
  BY ZenonT(30), <1>1, <1>2, <1>3 DEF Flow, NextOrder
<1>. QED
  BY <1>4, <1>6, <1>7, <1>8, <1>9, <1>10, <1>11 DEF Flow

(* A line is behind what its author typed before.                           *)
LEMMA TypedLater ==
  ASSUME TypeOK, NEW l \in Lines, NEW m \in Lines, l.by = m.by => l.k < m.k
  PROVE  Before(l, m)
<1>1. l.k \in Nat /\ m.k \in Nat
  BY LineParts
<1>2. l.by = m.by => l.k <= m.k /\ l.k < m.k
  BY <1>1
<1>. QED
  BY <1>2, Zenon DEF Before

LEMMA TypeKeepsFlow ==
  ASSUME TypeOK, Flow, NEW n \in Nodes, TypeLine(n)
  PROVE  Flow'
<1>1. PICK k \in Nat, line \in Lines : k = typed[n] + 1 /\ line = [by |-> n, k |-> k]
  <2>1. typed[n] + 1 \in Nat /\ typed[n] < MaxLines[n]
    BY DEF TypeLine, TypeOK
  <2>2. [by |-> n, k |-> typed[n] + 1] \in Lines
    BY <2>1, NextLine
  <2>. QED
    BY <2>1, <2>2
<1>2. PICK m0 \in Messages : m0 = [line |-> line, from |-> NoNode]
  BY DEF Messages
<1>3. /\ line.by = n /\ line.k = k /\ m0.line = line /\ m0.from = NoNode /\ NoNode \notin Nodes
  BY <1>1, <1>2, TreeAssumption DEF TreeAssumption
<1>4. /\ messageQueue' = [messageQueue EXCEPT ![n] = Append(@, m0)]
      /\ typed' = [typed EXCEPT ![n] = k]
      /\ UNCHANGED <<sending, printed, recieved, unconfirmed>>
  BY <1>1, <1>2 DEF TypeLine, links
<1>5. Fades
  BY OthersFade DEF ServerStep
<1>6. /\ messageQueue'[n] = Append(messageQueue[n], m0) /\ messageQueue[n] \in Seq(Messages)
      /\ \A p \in Nodes : p # n => messageQueue'[p] = messageQueue[p] /\ typed'[p] = typed[p]
      /\ typed'[n] = k /\ typed[n] \in Nat
  BY <1>4 DEF TypeOK
<1>7. /\ \A x : Contains(messageQueue'[n], x) <=> Contains(messageQueue[n], x) \/ x = m0
      /\ DOMAIN messageQueue'[n] = DOMAIN messageQueue[n] \cup {Len(messageQueue[n]) + 1}
      /\ \A i \in DOMAIN messageQueue[n] : messageQueue'[n][i] = messageQueue[n][i] /\ i < Len(messageQueue[n]) + 1
      /\ messageQueue'[n][Len(messageQueue[n]) + 1] = m0
      /\ DOMAIN messageQueue[n] = 1..Len(messageQueue[n]) /\ Len(messageQueue[n]) \in Nat
  <2>1. Len(messageQueue[n]) \in Nat /\ DOMAIN messageQueue[n] = 1..Len(messageQueue[n])
    BY <1>6
  <2>. QED
    BY <1>6, <2>1, ContainsAppend
<1>8. \A p, q \in Nodes, u \in Nat, l \in Lines : Carried(p, q, u, l)' => Carried(p, q, u, l)
  BY <1>5 DEF Fades
<1>9. \A l, m : Before(l, m)' <=> Before(l, m)
  BY <1>4 DEF Before
<1>10. \A p \in Nodes, l \in Lines : Owned(p, l) => Owned(p, l)'
  <2>1. \A l \in Lines : l.k \in Nat /\ l.by \in Nodes
    BY LineParts
  <2>. QED
    BY <1>1, <1>4, <1>6, <2>1 DEF Owned
<1>11. \A l \in Lines : Held(n, l) => Before(l, line)
  <2>. SUFFICES ASSUME NEW l \in Lines, Held(n, l) PROVE Before(l, line)
    OBVIOUS
  <2>1. Owned(n, l) /\ l.k \in Nat
    BY LineParts DEF Flow, Sourced
  <2>2. l.by = line.by => l.k < line.k
    BY <1>1, <1>3, <1>6, <2>1 DEF Owned
  <2>. QED
    BY <2>2, TypedLater
<1>12. Directed'
  <2>1. \A p \in Nodes, m \in Messages :
          Contains(messageQueue'[p], m) => Contains(messageQueue[p], m) \/ (p = n /\ m = m0)
    BY <1>6, <1>7
  <2>2. \A p \in Nodes, m \in Messages : Contains(messageQueue'[p], m) =>
          IF m.from \in Nodes THEN Adjacent(m.from, p) /\ m.line.by \in Side(m.from, p)
          ELSE m.line.by = p
    BY <1>3, <2>1 DEF Flow, Directed
  <2>3. \A p, q \in Nodes : Contains(sending'[p].rest, q) => sending'[p].line.by \in Side(p, q)
    BY <1>4 DEF Flow, Directed
  <2>4. \A p, q \in Nodes, u \in Nat, l \in Lines : Carried(p, q, u, l)' => l.by \in Side(p, q)
    BY <1>8 DEF Flow, Directed
  <2>. QED
    BY <2>2, <2>3, <2>4 DEF Directed
<1>13. Sourced'
  <2>1. Owned(n, line)'
    BY <1>1, <1>3, <1>6 DEF Owned
  <2>2. \A p \in Nodes, l \in Lines : Held(p, l)' => Held(p, l) \/ (p = n /\ l = line)
    BY <1>3, <1>4, <1>6, <1>7, <1>8 DEF Held
  <2>. QED
    BY <1>10, <2>1, <2>2 DEF Flow, Sourced
<1>14. Came'
  <2>1. \A l \in Lines : l.k <= typed[l.by] => l.k <= typed'[l.by]
    <3>1. \A l \in Lines : l.k \in Nat /\ l.by \in Nodes
      BY LineParts
    <3>. QED
      BY <1>1, <1>6, <3>1
  <2>. QED
    BY <1>4, <1>10, <2>1 DEF Flow, Came
<1>15. QueueOrder'
  <2>1. \A i \in DOMAIN messageQueue[n] : Before(messageQueue[n][i].line, line)
    <3>. SUFFICES ASSUME NEW i \in DOMAIN messageQueue[n] PROVE Before(messageQueue[n][i].line, line)
      OBVIOUS
    <3>1. PICK m \in Messages : m = messageQueue[n][i]
      BY <1>6
    <3>2. Contains(messageQueue[n], m) /\ m.line \in Lines
      BY <1>7, <3>1 DEF Contains, Messages
    <3>3. Held(n, m.line)
      BY <3>2 DEF Held
    <3>. QED
      BY <1>11, <3>1, <3>2, <3>3
  <2>2. sending[n].rest # <<>> => Before(sending[n].line, line)
    BY <1>11, LoopParts DEF Held
  <2>3. \A i, j \in DOMAIN messageQueue'[n] : i < j =>
          i \in DOMAIN messageQueue[n] /\ (j \in DOMAIN messageQueue[n] \/ messageQueue'[n][j] = m0)
    BY <1>7
  <2>4. \A i, j \in DOMAIN messageQueue'[n] : i < j => Before(messageQueue'[n][i].line, messageQueue'[n][j].line)
    BY <1>3, <1>7, <2>1, <2>3 DEF Flow, QueueOrder
  <2>. QED
    BY <1>3, <1>4, <1>6, <1>7, <1>9, <2>2, <2>4 DEF Flow, QueueOrder
<1>16. LinkOrder'
  <2>1. \A q \in Nodes, u \in Nat, l \in Lines : Carried(n, q, u, l) => Before(l, line)
    BY <1>11 DEF Held
  <2>. QED
    BY <1>3, <1>4, <1>6, <1>7, <1>8, <1>9, <2>1 DEF Flow, LinkOrder
<1>17. PrintOrder'
  BY <1>4, <1>9 DEF Flow, PrintOrder
<1>18. NextOrder'
  <2>1. ASSUME NEW x \in Nodes, NEW l \in Lines, Contains(printed[x], l) PROVE Before(l, line)
    <3>1. l.k <= typed[l.by] /\ l.k \in Nat
      BY <2>1, LineParts DEF Flow, Came
    <3>2. l.by = line.by => l.k < line.k
      BY <1>1, <1>3, <1>6, <3>1
    <3>. QED
      BY <3>2, TypedLater
  <2>. QED
    BY <1>3, <1>4, <1>6, <1>7, <1>8, <1>9, <2>1 DEF Flow, NextOrder
<1>. QED
  BY <1>12, <1>13, <1>14, <1>15, <1>16, <1>17, <1>18 DEF Flow

LEMMA TakeKeepsFlow ==
  ASSUME TypeOK, Forest, Flow, NEW n \in Nodes, TakeMessage(n)
  PROVE  Flow'
<1>1. messageQueue[n] \in Seq(Messages) /\ messageQueue[n] # <<>>
  BY DEF TakeMessage, TypeOK
<1>2. PICK m0 \in Messages : m0 = Head(messageQueue[n])
  BY <1>1, ContainsTail
<1>3. /\ m0 = messageQueue[n][1] /\ 1 \in DOMAIN messageQueue[n]
      /\ \A i \in DOMAIN Tail(messageQueue[n]) :
           i \in Nat \ {0} /\ i + 1 \in DOMAIN messageQueue[n] /\ Tail(messageQueue[n])[i] = messageQueue[n][i + 1]
      /\ \A x : Contains(messageQueue[n], x) <=> x = m0 \/ Contains(Tail(messageQueue[n]), x)
  <2>1. DOMAIN Tail(messageQueue[n]) = 1..(Len(messageQueue[n]) - 1)
    BY <1>1, ContainsTail
  <2>. QED
    BY <1>1, <1>2, <2>1, ContainsTail
<1>4. /\ messageQueue' = [messageQueue EXCEPT ![n] = Tail(@)]
      /\ UNCHANGED <<typed, printed, recieved, unconfirmed>>
  BY DEF TakeMessage, links
<1>5. /\ messageQueue'[n] = Tail(messageQueue[n])
      /\ \A p \in Nodes : p # n => messageQueue'[p] = messageQueue[p]
  BY <1>4 DEF TypeOK
<1>6. /\ sending'[n].rest # <<>> => sending'[n].line = m0.line
      /\ \A x : Contains(sending'[n].rest, x) => Contains(nodes[n], x) /\ x # m0.from
      /\ \A p \in Nodes : p # n => sending'[p] = sending[p]
  BY <1>2, TakenLoop, OthersParts DEF Forest
<1>7. m0.line \in Lines /\ Contains(messageQueue[n], m0)
  BY <1>3 DEF Messages
<1>8. \A x : Contains(sending'[n].rest, x) => x \in Nodes /\ Adjacent(n, x) /\ x # m0.from /\ sending'[n].line = m0.line
  <2>1. \A x : Contains(sending'[n].rest, x) => sending'[n].rest # <<>>
    BY EmptyContains
  <2>2. \A x : Contains(nodes[n], x) => x \in Nodes
    <3>1. nodes[n] \in Seq(Nodes)
      BY DEF TypeOK
    <3>2. \A i \in 1..Len(nodes[n]) : nodes[n][i] \in Nodes
      BY <3>1, LenProperties
    <3>. QED
      BY <3>2, Zenon DEF Contains
  <2>. QED
    BY <1>6, <2>1, <2>2 DEF Forest, Edges
<1>9. \A p, q \in Nodes, u \in Nat, l \in Lines : Carried(p, q, u, l)' => Carried(p, q, u, l)
  BY OthersFade DEF Fades
<1>10. \A l, m : Before(l, m)' <=> Before(l, m)
  BY <1>4 DEF Before
<1>11. \A p \in Nodes : \A m : Contains(messageQueue'[p], m) => Contains(messageQueue[p], m)
  BY <1>3, <1>5
<1>12. Directed'
  <2>1. ASSUME NEW x \in Nodes, Contains(sending'[n].rest, x) PROVE m0.line.by \in Side(n, x)
    <3>1. Adjacent(n, x) /\ x # m0.from
      BY <1>8, <2>1
    <3>2. CASE m0.from \in Nodes
      <4>1. Adjacent(m0.from, n) /\ m0.line.by \in Side(m0.from, n)
        BY <1>7, <3>2 DEF Flow, Directed
      <4>. QED
        BY <3>1, <3>2, <4>1, SideGoesOn
    <3>3. CASE m0.from \notin Nodes
      <4>1. m0.line.by = n
        BY <1>7, <3>3 DEF Flow, Directed
      <4>. QED
        BY <3>1, <4>1, TwoSides
    <3>. QED
      BY <3>2, <3>3
  <2>. QED
    BY <1>6, <1>8, <1>9, <1>11, <2>1 DEF Flow, Directed
<1>13. Sourced'
  <2>1. \A p \in Nodes, l \in Lines : Held(p, l)' => Held(p, l)
    BY <1>6, <1>7, <1>9, <1>11 DEF Held
  <2>2. \A p \in Nodes, l \in Lines : Owned(p, l) => Owned(p, l)'
    BY <1>4 DEF Owned
  <2>. QED
    BY <2>1, <2>2 DEF Flow, Sourced
<1>14. Came'
  BY <1>4 DEF Flow, Came, Owned
<1>15. \A m \in Messages : Contains(messageQueue'[n], m) => Before(m0.line, m.line)
  <2>. SUFFICES ASSUME NEW m \in Messages, Contains(messageQueue'[n], m) PROVE Before(m0.line, m.line)
    OBVIOUS
  <2>1. PICK i \in DOMAIN Tail(messageQueue[n]) : Tail(messageQueue[n])[i] = m
    <3>1. Tail(messageQueue[n]) \in Seq(Messages)
      BY <1>1, ContainsTail
    <3>. QED
      BY <1>5, <3>1 DEF Contains
  <2>2. i + 1 \in DOMAIN messageQueue[n] /\ messageQueue[n][i + 1] = m /\ 1 < i + 1
    BY <1>3, <2>1
  <2>. QED
    BY <1>3, <2>2 DEF Flow, QueueOrder
<1>16. QueueOrder'
  <2>1. ASSUME NEW i \in DOMAIN Tail(messageQueue[n]), NEW j \in DOMAIN Tail(messageQueue[n]), i < j
        PROVE  Before(Tail(messageQueue[n])[i].line, Tail(messageQueue[n])[j].line)
    <3>1. /\ i + 1 \in DOMAIN messageQueue[n] /\ j + 1 \in DOMAIN messageQueue[n] /\ i + 1 < j + 1
          /\ Tail(messageQueue[n])[i] = messageQueue[n][i + 1] /\ Tail(messageQueue[n])[j] = messageQueue[n][j + 1]
      BY <1>3, <2>1
    <3>. QED
      BY <3>1 DEF Flow, QueueOrder
  <2>. QED
    BY <1>5, <1>6, <1>10, <1>15, <2>1 DEF Flow, QueueOrder
<1>17. LinkOrder'
  <2>1. \A q \in Nodes, u \in Nat, l \in Lines : Carried(n, q, u, l) => Before(l, m0.line)
    BY <1>7 DEF Flow, LinkOrder
  <2>. QED
    BY SMTT(30), <1>6, <1>8, <1>9, <1>10, <1>11, <2>1 DEF Flow, LinkOrder
<1>18. PrintOrder'
  BY <1>4, <1>10 DEF Flow, PrintOrder
<1>19. NextOrder'
  <2>1. ASSUME NEW x \in Nodes, NEW l \in Lines, Contains(printed[x], l), Contains(sending'[n].rest, x)
        PROVE  Before(l, m0.line)
    <3>1. Adjacent(n, x) /\ m0.from # x
      BY <1>8, <2>1
    <3>. QED
      BY <1>7, <2>1, <3>1 DEF Flow, NextOrder
  <2>. QED
    BY <1>4, <1>6, <1>8, <1>9, <1>10, <1>11, <2>1 DEF Flow, NextOrder
<1>. QED
  BY <1>12, <1>13, <1>14, <1>16, <1>17, <1>18, <1>19 DEF Flow

LEMMA SendKeepsFlow ==
  ASSUME TypeOK, Forest, Numbers, Flow, NEW n \in Nodes, NEW p \in Nodes, SendMessage(n, p)
  PROVE  Flow'
<1>1. PICK w \in Nat, line \in Lines : w = sent[n][p] + 1 /\ line = sending[n].line
  BY SendCarries
<1>2. \A q, m \in Nodes, u \in Nat, l \in Lines :
        Carried(q, m, u, l)' => Carried(q, m, u, l) \/ (q = n /\ m = p /\ u = w /\ l = line)
  BY <1>1, SendCarries
<1>3. /\ sending[n].rest # <<>> /\ sending[n].rest \in Seq(Nodes) /\ p = Head(sending[n].rest)
      /\ UNCHANGED <<typed, messageQueue, printed, recieved, unconfirmed>>
  BY ServedNode DEF SendMessage, history
<1>4. /\ Contains(sending[n].rest, p) /\ ~Contains(sending'[n].rest, p)
      /\ \A x : Contains(sending'[n].rest, x) => Contains(sending[n].rest, x)
      /\ sending'[n].rest # <<>> => sending'[n].line = line
      /\ \A q \in Nodes : q # n => sending'[q] = sending[q]
  <2>1. Distinct(sending[n].rest)
    BY DEF Forest, Once
  <2>2. ~Contains(Tail(sending[n].rest), p)
    BY <1>3, <2>1, DistinctTail
  <2>3. \A x : Contains(sending[n].rest, x) <=> x = p \/ Contains(Tail(sending[n].rest), x)
    BY <1>3, ContainsTail
  <2>. QED
    BY <1>1, <2>2, <2>3, ServedLoop
<1>5. \A x : Contains(sending'[n].rest, x) => sending'[n].line = line
  BY <1>4, EmptyContains
<1>6. \A u \in Nat, l \in Lines : Carried(n, p, u, l) => u < w
  BY <1>1, SendCarries DEF Numbers
<1>7. \A l, m : Before(l, m)' <=> Before(l, m)
  BY <1>3 DEF Before
<1>8. Directed'
  <2>1. line.by \in Side(n, p)
    BY <1>1, <1>4 DEF Flow, Directed
  <2>. QED
    BY <1>1, <1>2, <1>3, <1>4, <1>5, <2>1 DEF Flow, Directed
<1>9. Sourced'
  <2>1. \A q \in Nodes, l \in Lines : Held(q, l)' => Held(q, l)
    BY <1>1, <1>2, <1>3, <1>4 DEF Held
  <2>2. \A q \in Nodes, l \in Lines : Owned(q, l) => Owned(q, l)'
    BY <1>3 DEF Owned
  <2>. QED
    BY <2>1, <2>2 DEF Flow, Sourced
<1>10. Came'
  BY <1>3 DEF Flow, Came, Owned
<1>11. QueueOrder'
  BY <1>1, <1>3, <1>4, <1>7 DEF Flow, QueueOrder
<1>12. LinkOrder'
  <2>1. ASSUME NEW q \in Nodes, NEW x \in Nodes, NEW u \in Nat, NEW l \in Lines, Carried(q, x, u, l)'
        PROVE  /\ \A m \in Messages : Contains(messageQueue[q], m) => Before(l, m.line)
               /\ Contains(sending'[q].rest, x) => Before(l, sending'[q].line)
    <3>1. CASE Carried(q, x, u, l)
      BY <1>1, <1>4, <1>5, <3>1 DEF Flow, LinkOrder
    <3>2. CASE q = n /\ x = p /\ u = w /\ l = line
      BY <1>1, <1>3, <1>4, <3>2 DEF Flow, QueueOrder
    <3>. QED
      BY <1>2, <2>1, <3>1, <3>2
  <2>2. ASSUME NEW q \in Nodes, NEW x \in Nodes, NEW u \in Nat, NEW l \in Lines, Carried(q, x, u, l)',
               NEW v \in Nat, NEW k \in Lines, u < v, Carried(q, x, v, k)'
        PROVE  Before(l, k)
    <3>1. CASE Carried(q, x, u, l) /\ Carried(q, x, v, k)
      BY <2>2, <3>1 DEF Flow, LinkOrder
    <3>2. CASE Carried(q, x, u, l) /\ q = n /\ x = p /\ v = w /\ k = line
      BY <1>1, <1>4, <3>2 DEF Flow, LinkOrder
    <3>3. CASE q = n /\ x = p /\ u = w
      BY <1>2, <1>6, <2>2, <3>3
    <3>. QED
      BY <1>2, <2>2, <3>1, <3>2, <3>3
  <2>. QED
    BY <1>3, <1>7, <2>1, <2>2 DEF LinkOrder
<1>13. PrintOrder'
  BY <1>3, <1>7 DEF Flow, PrintOrder
<1>14. NextOrder'
  <2>1. \A l \in Lines : Contains(printed[p], l) /\ Adjacent(n, p) => Before(l, line)
    BY <1>1, <1>4 DEF Flow, NextOrder
  <2>. QED
    BY <1>1, <1>2, <1>3, <1>4, <1>5, <1>7, <2>1 DEF Flow, NextOrder
<1>. QED
  BY <1>8, <1>9, <1>10, <1>11, <1>12, <1>13, <1>14 DEF Flow

(* What a message on its way to a neighbour says of the author.             *)
LEMMA QueueDirected ==
  ASSUME Directed, NEW p \in Nodes, NEW n \in Nodes, Adjacent(p, n),
         NEW m \in Messages, Contains(messageQueue[p], m), m.from # n
  PROVE  m.line.by \in Side(p, n)
<1>1. CASE m.from \in Nodes
  <2>1. Adjacent(m.from, p) /\ m.line.by \in Side(m.from, p)
    BY <1>1 DEF Directed
  <2>. QED
    BY <1>1, <2>1, SideGoesOn
<1>2. CASE m.from \notin Nodes
  <2>1. m.line.by = p
    BY <1>2 DEF Directed
  <2>. QED
    BY <2>1, TwoSides
<1>. QED
  BY <1>1, <1>2

LEMMA AcceptKeepsFlow ==
  ASSUME TypeOK, Forest, Agree, Flow, NEW n \in Nodes, NEW d, AcceptMessage(n, d)
  PROVE  Flow'
<1>1. PICK q \in Nodes, line \in Lines, w \in Nat : q = d.from /\ line = d.line /\ w = d.uid
  BY Accepted
<1>2. /\ Contains(nodes[n], q) /\ w = recieved[n][q] /\ Carried(q, n, w, line)
      /\ \A p, m \in Nodes : <<m, p>> # <<n, q>> => recieved'[m][p] = recieved[m][p]
      /\ recieved'[n][q] = w \/ recieved'[n][q] = w + 1
  BY <1>1, Accepted
<1>3. (recieved'[n][q] = w => unconfirmed') /\ (unconfirmed => unconfirmed')
  <2>1. /\ recieved'[n][d.from] = recieved[n][d.from] => unconfirmed'
        /\ unconfirmed => unconfirmed'
    BY ZenonT(30), Accepted
  <2>2. recieved'[n][q] = w => recieved'[n][d.from] = recieved[n][d.from]
    BY <1>1, <1>2
  <2>. QED
    BY <2>1, <2>2, Zenon
<1>4. Adjacent(n, q) /\ Adjacent(q, n) /\ n # q
  BY <1>2, AdjacentDiffer DEF Forest, Edges
<1>5. PICK m0 \in Messages : m0 = [line |-> line, from |-> q]
  BY DEF Messages
<1>6. /\ messageQueue' = [messageQueue EXCEPT ![n] = Append(@, m0)]
      /\ printed' = [printed EXCEPT ![n] = Append(@, line)]
      /\ UNCHANGED <<typed, sending>>
  BY <1>1, <1>5 DEF AcceptMessage
<1>7. /\ messageQueue'[n] = Append(messageQueue[n], m0) /\ messageQueue[n] \in Seq(Messages)
      /\ printed'[n] = Append(printed[n], line) /\ printed[n] \in Seq(Lines)
      /\ \A p \in Nodes : p # n => messageQueue'[p] = messageQueue[p] /\ printed'[p] = printed[p]
      /\ m0.line = line /\ m0.from = q
  BY <1>5, <1>6 DEF TypeOK
<1>8. /\ \A x : Contains(messageQueue'[n], x) <=> Contains(messageQueue[n], x) \/ x = m0
      /\ DOMAIN messageQueue'[n] = DOMAIN messageQueue[n] \cup {Len(messageQueue[n]) + 1}
      /\ \A i \in DOMAIN messageQueue[n] : messageQueue'[n][i] = messageQueue[n][i] /\ i < Len(messageQueue[n]) + 1
      /\ messageQueue'[n][Len(messageQueue[n]) + 1] = m0
      /\ DOMAIN messageQueue[n] = 1..Len(messageQueue[n]) /\ Len(messageQueue[n]) \in Nat
  <2>1. Len(messageQueue[n]) \in Nat /\ DOMAIN messageQueue[n] = 1..Len(messageQueue[n])
    BY <1>7
  <2>. QED
    BY <1>7, <2>1, ContainsAppend
<1>9. /\ \A x : Contains(printed'[n], x) <=> Contains(printed[n], x) \/ x = line
      /\ DOMAIN printed'[n] = DOMAIN printed[n] \cup {Len(printed[n]) + 1}
      /\ \A i \in DOMAIN printed[n] : printed'[n][i] = printed[n][i] /\ i < Len(printed[n]) + 1
      /\ printed'[n][Len(printed[n]) + 1] = line
      /\ DOMAIN printed[n] = 1..Len(printed[n]) /\ Len(printed[n]) \in Nat
  <2>1. Len(printed[n]) \in Nat /\ DOMAIN printed[n] = 1..Len(printed[n])
    BY <1>7
  <2>. QED
    BY <1>7, <2>1, ContainsAppend
<1>10. \A p, m \in Nodes, u \in Nat, l \in Lines : Carried(p, m, u, l)' => Carried(p, m, u, l)
  <2>1. Fades
    BY <1>1, Accepted, RecieverFades DEF RecieverStep, BagIn
  <2>. QED
    BY <2>1 DEF Fades
<1>11. \A l, m : Before(l, m) => Before(l, m)'
  BY <1>3, Zenon DEF Before
<1>12. line.by \in Side(q, n) /\ line.by # n
  BY <1>2, <1>4, TwoSides DEF Flow, Directed
<1>13. \A p \in Nodes, l \in Lines : Owned(p, l) => Owned(p, l)'
  BY <1>6, <1>7, <1>9 DEF Owned
<1>14. \A l \in Lines : Contains(printed[n], l) => Before(l, line)
  <2>1. recieved[n][q] \in Nat
    BY DEF TypeOK
  <2>. QED
    BY <1>2, <1>4, <2>1 DEF Flow, NextOrder
<1>15. \A l \in Lines : Owned(n, l) => Before(l, line)
  <2>1. \A l \in Lines : l.by = n => Before(l, line)
    BY <1>12 DEF Before
  <2>. QED
    BY <1>14, <2>1 DEF Owned
<1>16. \A l \in Lines : Held(n, l) => Before(l, line)
  BY <1>15 DEF Flow, Sourced
<1>17. Directed'
  BY <1>4, <1>6, <1>7, <1>8, <1>10, <1>12 DEF Flow, Directed
<1>18. Sourced'
  <2>1. Owned(n, line)'
    BY <1>9, <1>12 DEF Owned
  <2>2. \A p \in Nodes, l \in Lines : Held(p, l)' => Held(p, l) \/ (p = n /\ l = line)
    BY <1>6, <1>7, <1>8, <1>10 DEF Held
  <2>. QED
    BY <1>13, <2>1, <2>2 DEF Flow, Sourced
<1>19. Came'
  <2>1. Owned(q, line)
    BY <1>2 DEF Flow, Sourced, Held
  <2>2. line.k <= typed[line.by]
    BY <2>1 DEF Flow, Came, Owned
  <2>. QED
    BY <1>4, <1>6, <1>7, <1>9, <1>12, <1>13, <2>1, <2>2 DEF Flow, Came
<1>20. QueueOrder'
  <2>1. \A i \in DOMAIN messageQueue[n] : Before(messageQueue[n][i].line, line)
    <3>. SUFFICES ASSUME NEW i \in DOMAIN messageQueue[n] PROVE Before(messageQueue[n][i].line, line)
      OBVIOUS
    <3>1. PICK m \in Messages : m = messageQueue[n][i]
      BY <1>7
    <3>2. Contains(messageQueue[n], m) /\ m.line \in Lines
      BY <1>8, <3>1 DEF Contains, Messages
    <3>3. Held(n, m.line)
      BY <3>2 DEF Held
    <3>. QED
      BY <1>16, <3>1, <3>2, <3>3
  <2>2. sending[n].rest # <<>> => Before(sending[n].line, line)
    BY <1>16, LoopParts DEF Held
  <2>3. \A i, j \in DOMAIN messageQueue'[n] : i < j =>
          i \in DOMAIN messageQueue[n] /\ (j \in DOMAIN messageQueue[n] \/ messageQueue'[n][j] = m0)
    BY <1>8
  <2>4. \A i, j \in DOMAIN messageQueue'[n] : i < j => Before(messageQueue'[n][i].line, messageQueue'[n][j].line)
    BY <1>7, <1>8, <2>1, <2>3 DEF Flow, QueueOrder
  <2>5. \A p \in Nodes :
          /\ \A i, j \in DOMAIN messageQueue'[p] : i < j => Before(messageQueue'[p][i].line, messageQueue'[p][j].line)
          /\ sending'[p].rest # <<>> =>
               \A m \in Messages : Contains(messageQueue'[p], m) => Before(sending'[p].line, m.line)
    BY <1>6, <1>7, <1>8, <2>2, <2>4 DEF Flow, QueueOrder
  <2>. QED
    BY <1>11, <2>5 DEF QueueOrder
<1>21. LinkOrder'
  <2>1. \A x \in Nodes, u \in Nat, l \in Lines : Carried(n, x, u, l) => Before(l, line)
    BY <1>16 DEF Held
  <2>. QED
    BY <1>6, <1>7, <1>8, <1>10, <1>11, <2>1 DEF Flow, LinkOrder
<1>22. PrintOrder'
  <2>1. \A i \in DOMAIN printed[n] : Before(printed[n][i], line)
    BY <1>7, <1>9, <1>14 DEF Contains
  <2>2. \A i, j \in DOMAIN printed'[n] : i < j =>
          i \in DOMAIN printed[n] /\ (j \in DOMAIN printed[n] \/ printed'[n][j] = line)
    BY <1>9
  <2>3. \A i, j \in DOMAIN printed'[n] : i < j => Before(printed'[n][i], printed'[n][j])
    BY <1>9, <2>1, <2>2 DEF Flow, PrintOrder
  <2>. QED
    BY <1>7, <1>11, <2>3 DEF Flow, PrintOrder
<1>23. ASSUME NEW p \in Nodes, Adjacent(p, n)
       PROVE  /\ \A u \in Nat, m \in Lines : Carried(p, n, u, m) /\ u >= recieved'[n][p] => Before(line, m)'
              /\ Contains(sending[p].rest, n) => Before(line, sending[p].line)'
              /\ \A m \in Messages : Contains(messageQueue[p], m) /\ m.from # n => Before(line, m.line)'
  <2>1. CASE p = q
    <3>1. ASSUME NEW u \in Nat, NEW m \in Lines, Carried(q, n, u, m), u >= recieved'[n][q]
          PROVE  Before(line, m)'
      <4>1. CASE u > w
        <5>1. Before(line, m)
          BY <1>2, <3>1, <4>1 DEF Flow, LinkOrder
        <5>. QED
          BY <1>11, <5>1
      <4>2. CASE u <= w
        <5>1. u = w /\ recieved'[n][q] = w
          BY <1>2, <3>1, <4>2
        <5>2. m = line
          BY <1>2, <3>1, <5>1 DEF Agree
        <5>3. unconfirmed'
          BY <1>3, <5>1, Zenon
        <5>4. line.k <= line.k
          BY LineParts
        <5>. QED
          BY <5>2, <5>3, <5>4, Zenon DEF Before
      <4>. QED
        BY <4>1, <4>2
    <3>2. Contains(sending[q].rest, n) => Before(line, sending[q].line)
      BY <1>2 DEF Flow, LinkOrder
    <3>3. \A m \in Messages : Contains(messageQueue[q], m) => Before(line, m.line)
      BY <1>2 DEF Flow, LinkOrder
    <3>. QED
      BY <1>6, <1>11, <2>1, <3>1, <3>2, <3>3
  <2>2. CASE p # q
    <3>1. \A m : m.by \in Side(p, n) => Before(line, m)'
      <4>1. Side(p, n) \cap Side(q, n) = {}
        BY <1>4, <1>23, <2>2, SidesAreApart
      <4>. QED
        BY <1>12, <4>1 DEF Before
    <3>2. \A u \in Nat, m \in Lines : Carried(p, n, u, m) => m.by \in Side(p, n)
      BY DEF Flow, Directed
    <3>3. Contains(sending[p].rest, n) => sending[p].line.by \in Side(p, n)
      BY DEF Flow, Directed
    <3>4. \A m \in Messages : Contains(messageQueue[p], m) /\ m.from # n => m.line.by \in Side(p, n)
      BY <1>23, QueueDirected DEF Flow
    <3>5. Contains(sending[p].rest, n) => Before(line, sending[p].line)'
      <4>1. \A m : m.by \in Side(p, n) => (line.by = m.by => FALSE)
        <5>1. Side(p, n) \cap Side(q, n) = {}
          BY <1>4, <1>23, <2>2, SidesAreApart
        <5>. QED
          BY <1>12, <5>1
      <4>. QED
        BY <1>6, <3>3, <4>1 DEF Before
    <3>. QED
      BY <3>1, <3>2, <3>4, <3>5
  <2>. QED
    BY <2>1, <2>2
<1>24. ASSUME NEW x \in Nodes, NEW l \in Lines, Contains(printed[x], l), Adjacent(n, x), q # x
       PROVE  Before(l, line)
  <2>1. CASE l.by = line.by
    <3>1. line.by \in Side(n, x)
      BY <1>4, <1>12, <1>24, SideGoesOn
    <3>2. PICK p \in Nodes : Adjacent(p, x) /\ l.by \in Side(p, x) /\ Owned(p, l)
      BY <1>24 DEF Flow, Came
    <3>3. p = n
      BY <1>24, <2>1, <3>1, <3>2, SidesAreApart
    <3>. QED
      BY <1>15, <3>2, <3>3
  <2>2. CASE l.by # line.by
    BY <2>2 DEF Before
  <2>. QED
    BY <2>1, <2>2
<1>25. NextOrder'
  <2>. SUFFICES ASSUME NEW x \in Nodes, NEW p \in Nodes, NEW l \in Lines, Contains(printed'[x], l), Adjacent(p, x)
                PROVE  /\ \A u \in Nat, m \in Lines : Carried(p, x, u, m)' /\ u >= recieved'[x][p] => Before(l, m)'
                       /\ Contains(sending'[p].rest, x) => Before(l, sending[p].line)'
                       /\ \A m \in Messages : Contains(messageQueue'[p], m) /\ m.from # x => Before(l, m.line)'
    BY DEF NextOrder
  <2>1. CASE Contains(printed[x], l)
    <3>1. recieved'[x][p] >= recieved[x][p] /\ recieved[x][p] \in Nat /\ recieved'[x][p] \in Nat
      <4>1. recieved[x][p] \in Nat
        BY DEF TypeOK
      <4>. QED
        BY <1>2, <4>1
    <3>2. \A u \in Nat, m \in Lines : Carried(p, x, u, m)' /\ u >= recieved'[x][p] => Before(l, m)
      BY <1>10, <2>1, <3>1 DEF Flow, NextOrder
    <3>3. Contains(sending'[p].rest, x) => Before(l, sending[p].line)
      BY <1>6, <2>1 DEF Flow, NextOrder
    <3>4. \A m \in Messages : Contains(messageQueue'[p], m) /\ m.from # x => Before(l, m.line)
      BY ZenonT(30), <1>7, <1>8, <1>24, <2>1 DEF Flow, NextOrder
    <3>. QED
      BY <1>6, <1>11, <3>2, <3>3, <3>4
  <2>2. CASE x = n /\ l = line
    <3>1. p # n
      BY <2>2, AdjacentDiffer
    <3>. QED
      BY <1>6, <1>7, <1>10, <1>23, <2>2, <3>1
  <2>. QED
    BY <1>7, <1>9, <2>1, <2>2
<1>. QED
  BY <1>17, <1>18, <1>19, <1>20, <1>21, <1>22, <1>25 DEF Flow

LEMMA FlowNext ==
  ASSUME TypeOK, Forest, Numbers, Agree, Flow, [Next]_vars
  PROVE  Flow'
<1>1. ASSUME NEW n \in Nodes, ServerStep(n) PROVE Flow'
  <2>1. CASE TypeLine(n)
    BY <2>1, TypeKeepsFlow
  <2>2. CASE StartRoot(n) \/ Register(n) \/ ConnectAnswered(n) \/ ConnectTimesOut(n) \/ ConnectFails(n) \/ Quit(n)
    <3>1. UNCHANGED <<typed, messageQueue, printed, recieved, unconfirmed, sending>>
      BY <2>2 DEF StartRoot, Register, ConnectAnswered, ConnectTimesOut, ConnectFails, Quit, links, history
    <3>2. Fades
      BY <1>1, OthersFade
    <3>. QED
      BY <3>1, <3>2, FlowFades
  <2>. QED
    BY <1>1, <2>1, <2>2 DEF ServerStep
<1>2. ASSUME NEW n \in Nodes, NEW p \in Nodes, SendFails(n, p) PROVE Flow'
  <2>1. UNCHANGED <<typed, messageQueue, printed, recieved, unconfirmed>>
    BY <1>2 DEF SendFails, links, history
  <2>2. Fades
    BY <1>2, OthersFade
  <2>. QED
    BY <1>2, <2>1, <2>2, FailedLoop, FlowFades
<1>3. ASSUME NEW n \in Nodes, RecieverStep(n) PROVE Flow'
  <2>1. ASSUME NEW d, AcceptMessage(n, d) PROVE Flow'
    BY <2>1, AcceptKeepsFlow
  <2>2. ASSUME NEW d, IgnoreMessage(n, d) \/ CountConfirm(n, d) \/ AcceptRegistration(n, d) \/ IgnoreName(n, d)
        PROVE  Flow'
    <3>1. UNCHANGED <<typed, messageQueue, printed, recieved, unconfirmed, sending>>
      BY <2>2 DEF IgnoreMessage, CountConfirm, AcceptRegistration, IgnoreName, links, history
    <3>2. Fades
      BY <1>3, RecieverFades
    <3>. QED
      BY <3>1, <3>2, FlowFades
  <2>. QED
    BY <1>3, <2>1, <2>2 DEF RecieverStep
<1>4. ASSUME NEW n \in Nodes, CheckerStep(n) PROVE Flow'
  <2>1. UNCHANGED <<typed, messageQueue, printed, recieved, unconfirmed, sending>>
    BY <1>4 DEF CheckerStep, CheckRemoves, CheckResends, CheckDone, links, history
  <2>. QED
    BY <1>4, <2>1, CheckerFades, FlowFades
<1>5. ASSUME UNCHANGED vars \/ \E d : BagIn(d, network) /\ Lose(d) PROVE Flow'
  <2>1. UNCHANGED <<typed, messageQueue, printed, recieved, unconfirmed, sending>>
    BY <1>5 DEF vars, Lose, links, history
  <2>. QED
    BY <1>5, <2>1, OthersFade, FlowFades
<1>. QED
  BY <1>1, <1>2, <1>3, <1>4, <1>5, TakeKeepsFlow, SendKeepsFlow DEF Next, SenderStep, BagIn

-----------------------------------------------------------------------------
(* Receipts                                                                 *)

LEMMA InitReceipts == Init => Receipts
<1>. SUFFICES ASSUME Init PROVE Receipts
  OBVIOUS
<1>1. \A p \in Nodes : \A n, u, l : ~Kept(p, n, u, l)
  BY InitCarries DEF Carried
<1>2. \A x : Copies(x, network) = 0
  BY DEF Init, NothingSaid, EmptyBag, SetToBag, BagIn, BagToSet, Copies
<1>3. \A n \in Nodes : nodes[n] = <<>> /\ sending[n].rest = <<>>
  BY DEF Init, NothingSaid, Idle
<1>4. Balance
  BY <1>2 DEF Init, NothingSaid, Balance
<1>5. Answered /\ Latest
  BY <1>1, <1>3 DEF Answered, Latest
<1>6. Charge
  BY <1>3, EmptyContains DEF Charge
<1>. QED
  BY <1>4, <1>5, <1>6 DEF Receipts

(* Confirms that are neither sent nor counted only become fewer.            *)
LEMMA ConfirmsFade ==
  ASSUME TypeOK,
         \/ network' = network
         \/ \E d : BagIn(d, network) /\ network' = Delivered(d)
         \/ \E e : e.type # "C" /\ network' = network (+) SetToBag({e})
         \/ \E d, e : BagIn(d, network) /\ e.type # "C" /\ network' = Delivered(d) (+) SetToBag({e})
  PROVE  \A n, p \in Nodes : /\ Copies(Datagram("C", p, n), network) \in Nat
                             /\ Copies(Datagram("C", p, n), network') \in Int
                             /\ Copies(Datagram("C", p, n), network') <= Copies(Datagram("C", p, n), network)
<1>. SUFFICES ASSUME NEW n \in Nodes, NEW p \in Nodes, NEW r, r = Datagram("C", p, n)
              PROVE  /\ Copies(r, network) \in Nat /\ Copies(r, network') \in Int
                     /\ Copies(r, network') <= Copies(r, network)
  OBVIOUS
<1>1. Copies(r, network) \in Nat /\ r.type = "C"
  BY NetworkBag, CopiesCount DEF Datagram
<1>2. CASE network' = network
  BY <1>1, <1>2
<1>3. ASSUME NEW d, BagIn(d, network), network' = Delivered(d)
      PROVE  Copies(r, network') \in Int /\ Copies(r, network') <= Copies(r, network)
  BY <1>1, <1>3, DeliveredBag
<1>4. ASSUME NEW e, e.type # "C", network' = network (+) SetToBag({e})
      PROVE  Copies(r, network') \in Int /\ Copies(r, network') <= Copies(r, network)
  <2>1. Copies(r, network (+) SetToBag({e})) = Copies(r, network) + IF r = e THEN 1 ELSE 0
    <3>1. \A x : Copies(x, network (+) SetToBag({e})) = Copies(x, network) + IF x = e THEN 1 ELSE 0
      BY SentBag
    <3>. QED
      BY <3>1, Zenon
  <2>2. r # e
    BY <1>1, <1>4
  <2>. QED
    BY <1>1, <1>4, <2>1, <2>2
<1>5. ASSUME NEW d, NEW e, BagIn(d, network), e.type # "C", network' = Delivered(d) (+) SetToBag({e})
      PROVE  Copies(r, network') \in Int /\ Copies(r, network') <= Copies(r, network)
  <2>1. Copies(r, Delivered(d) (+) SetToBag({e})) =
          Copies(r, network) - (IF r = d THEN 1 ELSE 0) + (IF r = e THEN 1 ELSE 0)
    <3>1. \A x : Copies(x, Delivered(d) (+) SetToBag({e})) =
                   Copies(x, network) - (IF x = d THEN 1 ELSE 0) + (IF x = e THEN 1 ELSE 0)
      BY ZenonT(30), <1>5, AnsweredBag
    <3>. QED
      BY <3>1, Zenon
  <2>2. r # e
    BY <1>1, <1>5
  <2>. QED
    BY <1>1, <1>5, <2>1, <2>2
<1>. QED
  BY <1>1, <1>2, <1>3, <1>4, <1>5

LEMMA BalanceFades ==
  ASSUME TypeOK, Balance, UNCHANGED <<recieved, lastDelivered>>,
         \/ network' = network
         \/ \E d : BagIn(d, network) /\ network' = Delivered(d)
         \/ \E e : e.type # "C" /\ network' = network (+) SetToBag({e})
         \/ \E d, e : BagIn(d, network) /\ e.type # "C" /\ network' = Delivered(d) (+) SetToBag({e})
  PROVE  Balance'
<1>1. \A n, p \in Nodes : lastDelivered[n][p] \in Nat /\ recieved[p][n] \in Nat
  BY DEF TypeOK
<1>2. \A n, p \in Nodes : /\ Copies(Datagram("C", p, n), network) \in Nat
                          /\ Copies(Datagram("C", p, n), network') \in Int
                          /\ Copies(Datagram("C", p, n), network') <= Copies(Datagram("C", p, n), network)
  BY ConfirmsFade
<1>. QED
  BY <1>1, <1>2 DEF Balance

LEMMA AcceptBalance ==
  ASSUME TypeOK, Balance, NEW n \in Nodes, NEW d, AcceptMessage(n, d)
  PROVE  Balance'
<1>1. PICK q \in Nodes : q = d.from /\ BagIn(d, network) /\ d.type = "M" /\ lastDelivered' = lastDelivered
  BY Accepted DEF AcceptMessage, Flying
<1>2. CASE recieved' = recieved /\ network' = Delivered(d)
  BY <1>1, <1>2, BalanceFades
<1>3. CASE recieved' = [recieved EXCEPT ![n][q] = @ + 1] /\ network' = Delivered(d) (+) SetToBag({Datagram("C", n, q)})
  <2>1. PICK e : e = Datagram("C", n, q)
    OBVIOUS
  <2>2. \A x : Copies(x, network') =
                 Copies(x, network) - (IF x = d THEN 1 ELSE 0) + (IF x = e THEN 1 ELSE 0)
    <3>1. \A x : Copies(x, Delivered(d) (+) SetToBag({e})) =
                   Copies(x, network) - (IF x = d THEN 1 ELSE 0) + (IF x = e THEN 1 ELSE 0)
      BY <1>1, AnsweredBag
    <3>. QED
      BY <1>3, <2>1, <3>1, Zenon
  <2>3. \A m, p \in Nodes : /\ Copies(Datagram("C", p, m), network) \in Nat
                            /\ Copies(Datagram("C", p, m), network') =
                                 Copies(Datagram("C", p, m), network) + IF p = n /\ m = q THEN 1 ELSE 0
    <3>1. ASSUME NEW m \in Nodes, NEW p \in Nodes, NEW r, r = Datagram("C", p, m)
          PROVE  /\ Copies(r, network) \in Nat
                 /\ Copies(r, network') = Copies(r, network) + IF p = n /\ m = q THEN 1 ELSE 0
      <4>1. Copies(r, network) \in Nat
        BY NetworkBag, CopiesCount
      <4>2. r # d /\ (r = e <=> p = n /\ m = q)
        BY <1>1, <2>1, <3>1 DEF Datagram
      <4>3. Copies(r, network') = Copies(r, network) - (IF r = d THEN 1 ELSE 0) + (IF r = e THEN 1 ELSE 0)
        BY <2>2, Zenon
      <4>. QED
        BY <4>1, <4>2, <4>3
    <3>. QED
      BY <3>1
  <2>4. \A m, p \in Nodes : /\ lastDelivered[m][p] \in Nat /\ recieved[p][m] \in Nat
                            /\ recieved'[p][m] = recieved[p][m] + IF p = n /\ m = q THEN 1 ELSE 0
    <3>1. recieved \in [Nodes -> [Nodes -> Nat \ {0}]] /\ lastDelivered \in [Nodes -> [Nodes -> Nat]]
      BY DEF TypeOK
    <3>. QED
      BY <1>3, <3>1
  <2>. QED
    BY <1>1, <2>3, <2>4 DEF Balance
<1>. QED
  BY <1>1, <1>2, <1>3 DEF AcceptMessage

LEMMA CountBalance ==
  ASSUME TypeOK, Balance, NEW n \in Nodes, NEW d, CountConfirm(n, d)
  PROVE  Balance'
<1>1. d \in Datagrams /\ BagIn(d, network) /\ d.type = "C" /\ d.to = n /\ network' = Delivered(d) /\ recieved' = recieved
  BY FlyingTyped DEF CountConfirm, Flying
<1>2. PICK q \in Nodes : q = d.from /\ d = Datagram("C", q, n)
  BY <1>1, DatagramParts
<1>3. \A m, p \in Nodes : /\ Copies(Datagram("C", p, m), network) \in Nat
                          /\ Copies(Datagram("C", p, m), network') =
                               Copies(Datagram("C", p, m), network) - IF p = q /\ m = n THEN 1 ELSE 0
  <2>1. ASSUME NEW m \in Nodes, NEW p \in Nodes, NEW r, r = Datagram("C", p, m)
        PROVE  /\ Copies(r, network) \in Nat
               /\ Copies(r, network') = Copies(r, network) - IF p = q /\ m = n THEN 1 ELSE 0
    <3>1. Copies(r, network) \in Nat
      BY NetworkBag, CopiesCount
    <3>2. r = d <=> p = q /\ m = n
      BY <1>2, <2>1 DEF Datagram
    <3>3. Copies(r, network') = Copies(r, network) - IF r = d THEN 1 ELSE 0
      BY <1>1, DeliveredBag
    <3>. QED
      BY <3>1, <3>2, <3>3
  <2>. QED
    BY <2>1
<1>4. \A m, p \in Nodes : /\ lastDelivered[m][p] \in Nat /\ recieved[p][m] \in Nat /\ lastDelivered'[m][p] \in Nat
                          /\ lastDelivered'[m][p] <= lastDelivered[m][p] + IF p = q /\ m = n THEN 1 ELSE 0
  <2>1. recieved \in [Nodes -> [Nodes -> Nat \ {0}]] /\ lastDelivered \in [Nodes -> [Nodes -> Nat]]
    BY DEF TypeOK
  <2>2. lastDelivered' = lastDelivered \/ lastDelivered' = [lastDelivered EXCEPT ![n][q] = @ + 1]
    BY <1>2 DEF CountConfirm
  <2>. QED
    BY <2>1, <2>2
<1>. QED
  BY <1>1, <1>3, <1>4 DEF Balance

LEMMA BalanceNext ==
  ASSUME TypeOK, Balance, [Next]_vars
  PROVE  Balance'
<1>1. ASSUME NEW n \in Nodes, ServerStep(n) \/ TakeMessage(n) \/ CheckerStep(n) \/ \E p \in Nodes : SendMessage(n, p) \/ SendFails(n, p)
      PROVE  Balance'
  <2>1. UNCHANGED <<recieved, lastDelivered>>
    BY <1>1 DEF ServerStep, StartRoot, Register, ConnectAnswered, ConnectTimesOut, ConnectFails, TypeLine, Quit, TakeMessage,
                SendMessage, SendFails, CheckerStep, CheckRemoves, CheckResends, CheckDone, links
  <2>2. CASE UNCHANGED network
    BY <2>1, <2>2, BalanceFades
  <2>3. CASE Register(n)
    <3>1. PICK e : e = Datagram("R", n, Parent[n])
      OBVIOUS
    <3>2. e.type # "C" /\ network' = network (+) SetToBag({e})
      BY <2>3, <3>1 DEF Register, Datagram
    <3>. QED
      BY <2>1, <3>2, BalanceFades
  <2>4. CASE ConnectAnswered(n)
    <3>1. PICK d : BagIn(d, network) /\ network' = Delivered(d)
      BY <2>4 DEF ConnectAnswered, BagIn
    <3>. QED
      BY <2>1, <3>1, BalanceFades
  <2>5. ASSUME NEW p \in Nodes, SendMessage(n, p) PROVE Balance'
    <3>1. PICK e : e = MessageTo(p, n, sent[n][p] + 1, sending[n].line)
      OBVIOUS
    <3>2. e.type # "C" /\ network' = network (+) SetToBag({e})
      BY <2>5, <3>1 DEF SendMessage, MessageTo
    <3>. QED
      BY <2>1, <3>2, BalanceFades
  <2>6. CASE CheckResends(n)
    <3>1. PICK t, e : e = MessageTo(t.to, n, t.uid, t.line) /\ network' = network (+) SetToBag({e})
      BY <2>6 DEF CheckResends
    <3>2. e.type # "C"
      BY <3>1 DEF MessageTo
    <3>. QED
      BY <2>1, <3>1, <3>2, BalanceFades
  <2>. QED
    BY <1>1, <2>2, <2>3, <2>4, <2>5, <2>6
       DEF ServerStep, StartRoot, ConnectTimesOut, ConnectFails, TypeLine, Quit, TakeMessage, SendFails,
           CheckerStep, CheckRemoves, CheckDone
<1>2. ASSUME NEW n \in Nodes, NEW d, IgnoreMessage(n, d) \/ IgnoreName(n, d) PROVE Balance'
  <2>1. UNCHANGED <<recieved, lastDelivered>> /\ BagIn(d, network) /\ network' = Delivered(d)
    BY <1>2, Zenon DEF IgnoreMessage, IgnoreName, links, Flying
  <2>. QED
    BY <2>1, BalanceFades
<1>3. ASSUME NEW n \in Nodes, NEW d, AcceptRegistration(n, d) PROVE Balance'
  <2>1. PICK e : e = Datagram("N", n, d.from)
    OBVIOUS
  <2>2. /\ UNCHANGED <<recieved, lastDelivered>> /\ BagIn(d, network)
        /\ e.type # "C" /\ network' = Delivered(d) (+) SetToBag({e})
    BY <1>3, <2>1 DEF AcceptRegistration, links, Flying, Datagram
  <2>. QED
    BY <2>2, BalanceFades
<1>4. ASSUME UNCHANGED vars \/ \E d : BagIn(d, network) /\ Lose(d) PROVE Balance'
  <2>1. UNCHANGED <<recieved, lastDelivered>> /\ (network' = network \/ \E d : BagIn(d, network) /\ network' = Delivered(d))
    BY <1>4 DEF vars, Lose, links
  <2>. QED
    BY <2>1, BalanceFades
<1>. QED
  BY <1>1, <1>2, <1>3, <1>4, AcceptBalance, CountBalance DEF Next, SenderStep, RecieverStep, BagIn

(* A message the receiver has passed was printed there.                     *)
LEMMA AnsweredFades ==
  ASSUME Answered, Fades, UNCHANGED recieved,
         \A p \in Nodes, l \in Lines : Contains(printed[p], l) => Contains(printed'[p], l)
  PROVE  Answered'
BY DEF Answered, Fades

LEMMA AnsweredNext ==
  ASSUME TypeOK, Numbers, Agree, Answered, [Next]_vars
  PROVE  Answered'
<1>1. ASSUME NEW n \in Nodes, ServerStep(n) \/ TakeMessage(n) \/ \E p \in Nodes : SendFails(n, p) PROVE Answered'
  <2>1. UNCHANGED <<recieved, printed>>
    BY <1>1 DEF ServerStep, StartRoot, Register, ConnectAnswered, ConnectTimesOut, ConnectFails, TypeLine, Quit, TakeMessage,
                SendFails, links, history
  <2>2. Fades
    BY <1>1, OthersFade
  <2>. QED
    BY <2>1, <2>2, AnsweredFades
<1>2. ASSUME NEW n \in Nodes, NEW p \in Nodes, SendMessage(n, p) PROVE Answered'
  <2>1. PICK w \in Nat, k \in Lines : w = sent[n][p] + 1 /\ k = sending[n].line
    BY <1>2, SendCarries
  <2>2. \A q, m \in Nodes, u \in Nat, l \in Lines :
          Kept(q, m, u, l)' => Kept(q, m, u, l) \/ (q = n /\ m = p /\ u = w /\ l = k)
    BY <1>2, <2>1, SendCarries
  <2>3. UNCHANGED <<recieved, printed>>
    BY <1>2 DEF SendMessage, history
  <2>4. ~(w < recieved[p][n])
    <3>1. recieved[p][n] \in Nat /\ recieved[p][n] <= sent[n][p] + 1
      BY DEF Numbers, TypeOK
    <3>. QED
      BY <2>1, <3>1
  <2>. QED
    BY <2>2, <2>3, <2>4 DEF Answered
<1>3. ASSUME NEW n \in Nodes, RecieverStep(n) PROVE Answered'
  <2>1. Fades
    BY <1>3, RecieverFades
  <2>2. CASE UNCHANGED <<recieved, printed>>
    BY <2>1, <2>2, AnsweredFades
  <2>3. ASSUME NEW d, AcceptMessage(n, d) PROVE Answered'
    <3>1. PICK q \in Nodes, line \in Lines, w \in Nat : q = d.from /\ line = d.line /\ w = d.uid
      BY <2>3, Accepted
    <3>2. /\ w = recieved[n][q] /\ Carried(q, n, w, line)
          /\ \A p, m \in Nodes : <<m, p>> # <<n, q>> => recieved'[m][p] = recieved[m][p]
          /\ recieved'[n][q] = w \/ recieved'[n][q] = w + 1
      BY <2>3, <3>1, Accepted
    <3>3. /\ \A p \in Nodes, l \in Lines : Contains(printed[p], l) => Contains(printed'[p], l)
          /\ Contains(printed'[n], line)
      <4>1. /\ printed' = [printed EXCEPT ![n] = Append(@, line)]
            /\ printed \in [Nodes -> Seq(Lines)]
        BY <2>3, <3>1 DEF AcceptMessage, TypeOK
      <4>2. \A x : Contains(Append(printed[n], line), x) <=> Contains(printed[n], x) \/ x = line
        BY <4>1, ContainsAppend
      <4>. QED
        BY <4>1, <4>2
    <3>4. \A p, m \in Nodes, u \in Nat, l \in Lines : Kept(p, m, u, l)' => Kept(p, m, u, l)
      BY <2>1 DEF Fades
    <3>5. ASSUME NEW u \in Nat, NEW l \in Lines, Kept(q, n, u, l), u < recieved'[n][q] PROVE Contains(printed'[n], l)
      <4>1. CASE u < w
        BY <3>2, <3>3, <3>5, <4>1 DEF Answered
      <4>2. CASE u = w
        <5>1. l = line
          BY <3>2, <3>5, <4>2 DEF Agree, Carried
        <5>. QED
          BY <3>3, <5>1
      <4>. QED
        BY <3>2, <3>5, <4>1, <4>2
    <3>. QED
      BY <3>2, <3>3, <3>4, <3>5 DEF Answered
  <2>. QED
    BY <1>3, <2>2, <2>3 DEF RecieverStep, IgnoreMessage, CountConfirm, AcceptRegistration, IgnoreName, links, history
<1>4. ASSUME NEW n \in Nodes, CheckerStep(n) PROVE Answered'
  <2>1. UNCHANGED <<recieved, printed>>
    BY <1>4 DEF CheckerStep, CheckRemoves, CheckResends, CheckDone, links, history
  <2>. QED
    BY <1>4, <2>1, CheckerFades, AnsweredFades
<1>5. ASSUME UNCHANGED vars \/ \E d : BagIn(d, network) /\ Lose(d) PROVE Answered'
  <2>1. UNCHANGED <<recieved, printed>>
    BY <1>5 DEF vars, Lose, links, history
  <2>. QED
    BY <1>5, <2>1, OthersFade, AnsweredFades
<1>. QED
  BY <1>1, <1>2, <1>3, <1>4, <1>5 DEF Next, SenderStep, BagIn

(* The loop is about the message taken last.                                *)
LEMMA LatestNext ==
  ASSUME TypeOK, Once, Latest, [Next]_vars
  PROVE  Latest'
<1>1. CASE UNCHANGED <<sending, taken>>
  BY <1>1 DEF Latest
<1>2. ASSUME NEW n \in Nodes, TakeMessage(n) PROVE Latest'
  <2>1. PICK m \in Messages : m = Head(messageQueue[n])
    BY <1>2, TakenLoop
  <2>2. /\ sending'[n].rest # <<>> => sending'[n].line = m.line
        /\ \A p \in Nodes : p # n => sending'[p] = sending[p]
    BY <1>2, <2>1, TakenLoop
  <2>3. taken \in [Nodes -> Seq(Messages)] /\ taken' = [taken EXCEPT ![n] = Append(@, m)]
    BY <1>2, <2>1 DEF TakeMessage, TypeOK
  <2>4. /\ taken'[n] = Append(taken[n], m) /\ taken[n] \in Seq(Messages)
        /\ \A p \in Nodes : p # n => taken'[p] = taken[p]
    BY <2>3
  <2>5. Len(taken'[n]) > 0 /\ taken'[n][Len(taken'[n])] = m
    <3>1. Len(taken[n]) \in Nat
      BY <2>4
    <3>2. Len(Append(taken[n], m)) = Len(taken[n]) + 1 /\ Append(taken[n], m)[Len(taken[n]) + 1] = m
      BY <2>4, ContainsAppend
    <3>. QED
      BY <2>4, <3>1, <3>2
  <2>. QED
    BY <2>2, <2>4, <2>5 DEF Latest
<1>3. ASSUME NEW n \in Nodes, NEW p \in Nodes, SendMessage(n, p) PROVE Latest'
  <2>1. taken' = taken /\ sending[n].rest # <<>>
    BY <1>3, ServedNode DEF SendMessage, history
  <2>. QED
    BY <1>3, <2>1, ServedLoop DEF Latest
<1>4. ASSUME NEW n \in Nodes, NEW p \in Nodes, SendFails(n, p) PROVE Latest'
  <2>1. taken' = taken
    BY <1>4 DEF SendFails
  <2>. QED
    BY <1>4, <2>1, FailedLoop DEF Latest
<1>5. ASSUME NEW n \in Nodes, ServerStep(n) PROVE UNCHANGED <<sending, taken>>
  BY <1>5 DEF ServerStep, StartRoot, Register, ConnectAnswered, ConnectTimesOut, ConnectFails, TypeLine, Quit, history
<1>6. ASSUME NEW n \in Nodes, RecieverStep(n) PROVE UNCHANGED <<sending, taken>>
  BY <1>6 DEF RecieverStep, AcceptMessage, IgnoreMessage, CountConfirm, AcceptRegistration, IgnoreName, history
<1>7. ASSUME NEW n \in Nodes, CheckerStep(n) PROVE UNCHANGED <<sending, taken>>
  BY <1>7 DEF CheckerStep, CheckRemoves, CheckResends, CheckDone, history
<1>8. ASSUME UNCHANGED vars \/ \E d : Lose(d) PROVE UNCHANGED <<sending, taken>>
  BY <1>8 DEF vars, Lose, history
<1>. QED
  BY <1>1, <1>2, <1>3, <1>4, <1>5, <1>6, <1>7, <1>8 DEF Next, SenderStep

(* Tasks are put behind others, done, or those of a neighbour removed.      *)
LEMMA CheckerHolds ==
  ASSUME TypeOK, NEW n \in Nodes, CheckerStep(n)
  PROVE  \E t \in Tasks :
           /\ t = Head(checkQueue[n]) /\ Waits(checkQueue[n], t.to, t.uid, t.line)
           /\ \A p \in Nodes, q \in Nodes, u \in Nat, l \in Lines :
                Kept(p, q, u, l) =>
                  Kept(p, q, u, l)' \/ (p = n /\ ~CheckResends(n) /\ q = t.to /\ u = t.uid /\ l = t.line)
<1>1. checkQueue[n] \in Seq(Tasks) /\ checkQueue[n] # <<>> /\ checkQueue \in [Nodes -> Seq(Tasks)]
  BY DEF CheckerStep, CheckRemoves, CheckResends, CheckDone, TypeOK
<1>2. PICK t \in Tasks : t = Head(checkQueue[n]) /\ Waits(checkQueue[n], t.to, t.uid, t.line)
  BY <1>1, WaitsTail
<1>3. PICK s \in Seq(Tasks) : s = Tail(checkQueue[n])
  BY <1>1, WaitsTail
<1>4. \A q, u, l : Waits(checkQueue[n], q, u, l) => Waits(s, q, u, l) \/ (q = t.to /\ u = t.uid /\ l = t.line)
  <2>. SUFFICES ASSUME NEW q, NEW u, NEW l, Waits(checkQueue[n], q, u, l), ~(q = t.to /\ u = t.uid /\ l = t.line)
                PROVE  Waits(s, q, u, l)
    OBVIOUS
  <2>1. PICK x : Contains(checkQueue[n], x) /\ x.to = q /\ x.uid = u /\ x.line = l
    BY <1>1 DEF Waits, Contains
  <2>2. Contains(s, x)
    BY <1>1, <1>2, <1>3, <2>1, ContainsTail
  <2>. QED
    BY <1>3, <2>1, <2>2 DEF Waits, Contains
<1>5. CASE checkQueue' = [checkQueue EXCEPT ![n] = s] /\ ~CheckResends(n)
  <2>1. checkQueue'[n] = s /\ \A p \in Nodes : p # n => checkQueue'[p] = checkQueue[p]
    BY <1>1, <1>5
  <2>2. \A p \in Nodes, q \in Nodes, u \in Nat, l \in Lines :
          Kept(p, q, u, l) => Kept(p, q, u, l)' \/ (p = n /\ q = t.to /\ u = t.uid /\ l = t.line)
    BY <1>4, <2>1 DEF Kept
  <2>. QED
    BY <1>2, <1>5, <2>2
<1>6. CASE CheckResends(n)
  <2>1. PICK r : r = [t EXCEPT !.numFailed = @ + 1]
    OBVIOUS
  <2>2. r \in Tasks /\ r.to = t.to /\ r.uid = t.uid /\ r.line = t.line
    <3>1. t.numFailed <= MaxFailed /\ MaxFailed \in Nat
      BY <1>2, <1>6, TreeAssumption DEF CheckResends, TreeAssumption
    <3>2. r = [to |-> t.to, uid |-> t.uid, line |-> t.line, numFailed |-> t.numFailed + 1]
      BY <2>1 DEF Tasks
    <3>3. t.numFailed + 1 \in 1..(MaxFailed + 1)
      BY <3>1 DEF Tasks
    <3>. QED
      BY <3>2, <3>3 DEF Tasks
  <2>3. checkQueue' = [checkQueue EXCEPT ![n] = Append(s, r)]
    BY <1>2, <1>3, <1>6, <2>1 DEF CheckResends
  <2>4. \A q, u, l : Waits(checkQueue[n], q, u, l) => Waits(Append(s, r), q, u, l)
    <3>1. \A q, u, l : Waits(Append(s, r), q, u, l) <=> Waits(s, q, u, l) \/ (r.to = q /\ r.uid = u /\ r.line = l)
      BY <2>2, WaitsAppend
    <3>. QED
      BY <1>4, <2>2, <3>1
  <2>5. \A p \in Nodes, q \in Nodes, u \in Nat, l \in Lines : Kept(p, q, u, l) => Kept(p, q, u, l)'
    BY <1>1, <2>3, <2>4 DEF Kept
  <2>. QED
    BY <1>2, <2>5
<1>7. CheckRemoves(n) \/ CheckDone(n) => ~CheckResends(n)
  <2>1. t.numFailed \in Nat /\ t.uid \in Nat /\ t.to \in Nodes /\ MaxFailed \in Nat
    BY TreeAssumption DEF Tasks, TreeAssumption
  <2>2. lastDelivered[n][t.to] \in Nat
    BY <2>1 DEF TypeOK
  <2>. QED
    BY <1>2, <2>1, <2>2 DEF CheckRemoves, CheckDone, CheckResends
<1>8. CheckRemoves(n) \/ CheckDone(n) => checkQueue' = [checkQueue EXCEPT ![n] = s]
  BY <1>3 DEF CheckRemoves, CheckDone
<1>. QED
  BY <1>5, <1>6, <1>7, <1>8 DEF CheckerStep

LEMMA ChargeFades ==
  ASSUME TypeOK, Charge, Latest, ~threw' => ~threw, UNCHANGED taken,
         \A n, p \in Nodes : Contains(nodes'[n], p) =>
           (Contains(nodes[n], p) /\ since'[n][p] = since[n][p]) \/ since'[n][p] = Len(taken[n]),
         \A p \in Nodes, l \in Lines : Contains(printed[p], l) => Contains(printed'[p], l),
         \A n, p \in Nodes, u \in Nat, l \in Lines : Kept(n, p, u, l) /\ Contains(nodes'[n], p) =>
           Kept(n, p, u, l)' \/ Contains(printed'[p], l),
         \A n, p \in Nodes : Contains(sending[n].rest, p) =>
           Contains(sending'[n].rest, p) \/ \E u \in Nat, l \in Lines : l = sending[n].line /\ Kept(n, p, u, l)'
  PROVE  Charge'
<1>. SUFFICES ASSUME ~threw', NEW n \in Nodes, NEW p \in Nodes, Contains(nodes'[n], p),
                     NEW j \in (since'[n][p] + 1)..Len(taken[n]), taken[n][j].from # p
              PROVE  Answers(n, p, j)'
  BY DEF Charge
<1>1. taken[n] \in Seq(Messages) /\ Len(taken[n]) \in Nat /\ since[n][p] \in Nat
  BY DEF TypeOK
<1>2. Contains(nodes[n], p) /\ since'[n][p] = since[n][p]
  BY <1>1
<1>3. Answers(n, p, j)
  BY <1>2, Zenon DEF Charge
<1>4. j \in DOMAIN taken[n] /\ taken[n][j].line \in Lines
  <2>1. j \in 1..Len(taken[n])
    BY <1>1, <1>2
  <2>2. taken[n][j] \in Messages
    BY <1>1, <2>1
  <2>. QED
    BY <1>1, <2>1, <2>2 DEF Messages
<1>5. CASE Contains(printed[p], taken[n][j].line)
  BY <1>4, <1>5 DEF Answers
<1>6. CASE \E u \in Nat : Kept(n, p, u, taken[n][j].line)
  BY <1>4, <1>6 DEF Answers
<1>7. CASE j = Len(taken[n]) /\ Contains(sending[n].rest, p)
  <2>1. sending[n].line = taken[n][j].line
    <3>1. sending[n].rest # <<>>
      BY <1>7, EmptyContains
    <3>. QED
      BY <1>7, <3>1 DEF Latest
  <2>. QED
    BY <1>7, <2>1 DEF Answers
<1>. QED
  BY <1>3, <1>5, <1>6, <1>7 DEF Answers

LEMMA TakeKeepsCharge ==
  ASSUME TypeOK, Forest, Charge, Latest, NEW n0 \in Nodes, TakeMessage(n0)
  PROVE  Charge'
<1>1. UNCHANGED <<nodes, printed, since, threw, checkQueue>> /\ sending[n0] = Idle
  BY DEF TakeMessage
<1>2. PICK m \in Messages : m = Head(messageQueue[n0])
  BY TakenLoop DEF Forest
<1>3. /\ \A x : Contains(sending'[n0].rest, x) <=> Contains(nodes[n0], x) /\ x # m.from
      /\ \A p \in Nodes : p # n0 => sending'[p] = sending[p]
  BY <1>2, TakenLoop, OthersParts DEF Forest
<1>4. taken \in [Nodes -> Seq(Messages)] /\ taken' = [taken EXCEPT ![n0] = Append(@, m)]
  BY <1>2 DEF TakeMessage, TypeOK
<1>5. /\ taken'[n0] = Append(taken[n0], m) /\ taken[n0] \in Seq(Messages)
      /\ \A p \in Nodes : p # n0 => taken'[p] = taken[p]
  BY <1>4
<1>6. /\ Len(taken[n0]) \in Nat /\ Len(taken'[n0]) = Len(taken[n0]) + 1 /\ taken'[n0][Len(taken[n0]) + 1] = m
      /\ \A i \in 1..Len(taken[n0]) : taken'[n0][i] = taken[n0][i]
  BY <1>5, AppendProperties, LenProperties
<1>7. \A x : ~Contains(sending[n0].rest, x)
  BY <1>1, EmptyContains DEF Idle
<1>. SUFFICES ASSUME ~threw', NEW n \in Nodes, NEW p \in Nodes, Contains(nodes'[n], p),
                     NEW j \in (since'[n][p] + 1)..Len(taken'[n]), taken'[n][j].from # p
              PROVE  Answers(n, p, j)'
  BY DEF Charge
<1>8. since[n][p] \in Nat /\ Contains(nodes[n], p) /\ ~threw
  BY <1>1 DEF TypeOK
<1>9. \A l : (\E u \in Nat : Kept(n, p, u, l)) <=> (\E u \in Nat : Kept(n, p, u, l)')
  BY <1>1 DEF Kept
<1>10. CASE n # n0
  <2>1. taken'[n] = taken[n] /\ sending'[n] = sending[n]
    BY <1>3, <1>5, <1>10
  <2>2. j \in (since[n][p] + 1)..Len(taken[n]) /\ taken[n][j].from # p
    BY <1>1, <2>1
  <2>3. Answers(n, p, j)
    BY <1>8, <2>2, Zenon DEF Charge
  <2>. QED
    BY <1>1, <1>9, <2>1, <2>3 DEF Answers
<1>11. CASE n = n0 /\ j = Len(taken[n0]) + 1
  <2>1. Contains(sending'[n].rest, p)
    BY <1>3, <1>6, <1>8, <1>11
  <2>. QED
    BY <1>6, <1>11, <2>1 DEF Answers
<1>12. CASE n = n0 /\ j # Len(taken[n0]) + 1
  <2>1. j \in (since[n][p] + 1)..Len(taken[n]) /\ j \in 1..Len(taken[n0])
    BY <1>1, <1>6, <1>8, <1>12
  <2>2. taken'[n][j] = taken[n][j]
    BY <1>6, <1>12, <2>1
  <2>3. Answers(n, p, j)
    BY <1>8, <2>1, <2>2, Zenon DEF Charge
  <2>. QED
    BY <1>1, <1>7, <1>9, <1>12, <2>2, <2>3 DEF Answers
<1>. QED
  BY <1>10, <1>11, <1>12

LEMMA SendKeepsCharge ==
  ASSUME TypeOK, Charge, Latest, NEW n0 \in Nodes, NEW p0 \in Nodes, SendMessage(n0, p0)
  PROVE  Charge'
<1>1. UNCHANGED <<nodes, printed, since, threw, taken>>
  BY DEF SendMessage, history
<1>2. PICK w \in Nat, line \in Lines : w = sent[n0][p0] + 1 /\ line = sending[n0].line
  BY SendCarries
<1>3. PICK t \in Tasks : t = [to |-> p0, uid |-> w, line |-> line, numFailed |-> 1]
  <2>1. 1 \in 1..(MaxFailed + 1)
    BY TreeAssumption DEF TreeAssumption
  <2>. QED
    BY <2>1 DEF Tasks
<1>4. checkQueue' = [checkQueue EXCEPT ![n0] = Append(@, t)] /\ checkQueue \in [Nodes -> Seq(Tasks)]
  BY <1>2, <1>3 DEF SendMessage, TypeOK
<1>5. \A q, u, l : Waits(Append(checkQueue[n0], t), q, u, l) <=>
                     Waits(checkQueue[n0], q, u, l) \/ (t.to = q /\ t.uid = u /\ t.line = l)
  BY <1>4, WaitsAppend
<1>6. t.to = p0 /\ t.uid = w /\ t.line = line
  BY <1>3
<1>7. /\ \A n, p \in Nodes, u \in Nat, l \in Lines : Kept(n, p, u, l) => Kept(n, p, u, l)'
      /\ Kept(n0, p0, w, line)'
  BY <1>4, <1>5, <1>6 DEF Kept
<1>8. ASSUME NEW n \in Nodes, NEW p \in Nodes, Contains(sending[n].rest, p)
      PROVE  Contains(sending'[n].rest, p) \/ \E u \in Nat, l \in Lines : l = sending[n].line /\ Kept(n, p, u, l)'
  <2>1. CASE n = n0 /\ p = p0
    BY <1>2, <1>7, <2>1
  <2>2. CASE n = n0 /\ p # p0
    <3>1. /\ sending'[n].rest = Tail(sending[n].rest) /\ sending[n].rest \in Seq(Nodes)
          /\ sending[n].rest # <<>> /\ p0 = Head(sending[n].rest)
      BY <2>2, ServedLoop, ServedNode DEF SendMessage
    <3>. QED
      BY <1>8, <2>2, <3>1, ContainsTail
  <2>3. CASE n # n0
    BY <1>8, <2>3, ServedLoop
  <2>. QED
    BY <2>1, <2>2, <2>3
<1>. QED
  BY <1>1, <1>7, <1>8, ChargeFades

LEMMA CheckKeepsCharge ==
  ASSUME TypeOK, Forest, Receipts, NEW n0 \in Nodes, CheckerStep(n0)
  PROVE  Charge'
<1>1. UNCHANGED <<printed, since, threw, taken, sending>>
  BY DEF CheckerStep, CheckRemoves, CheckResends, CheckDone, history
<1>2. PICK t \in Tasks :
        /\ t = Head(checkQueue[n0]) /\ Waits(checkQueue[n0], t.to, t.uid, t.line)
        /\ \A p \in Nodes, q \in Nodes, u \in Nat, l \in Lines :
             Kept(p, q, u, l) =>
               Kept(p, q, u, l)' \/ (p = n0 /\ ~CheckResends(n0) /\ q = t.to /\ u = t.uid /\ l = t.line)
  BY CheckerHolds
<1>3. nodes' = nodes \/ nodes' = [nodes EXCEPT ![n0] = Others(n0, t.to)]
  BY <1>2 DEF CheckerStep, CheckRemoves, CheckResends, CheckDone
<1>4. /\ nodes \in [Nodes -> Seq(Nodes)]
      /\ \A x : Contains(Others(n0, t.to), x) <=> Contains(nodes[n0], x) /\ x # t.to
  BY OthersParts DEF TypeOK, Forest
<1>5. \A n, p \in Nodes : Contains(nodes'[n], p) => Contains(nodes[n], p)
  BY <1>3, <1>4
<1>6. ASSUME NEW l \in Lines, NEW u \in Nat, Kept(n0, t.to, u, l), u = t.uid, l = t.line, Contains(nodes'[n0], t.to), ~CheckResends(n0)
      PROVE  Contains(printed[t.to], l)
  <2>1. CASE CheckRemoves(n0)
    <3>1. nodes' = [nodes EXCEPT ![n0] = Others(n0, t.to)]
      BY <1>2, <2>1 DEF CheckRemoves
    <3>. QED
      BY <1>4, <1>6, <3>1
  <2>2. CASE CheckDone(n0)
    <3>1. t.to \in Nodes /\ t.uid \in Nat /\ t.uid <= lastDelivered[n0][t.to]
      BY <1>2, <2>2 DEF CheckDone, Tasks
    <3>2. /\ lastDelivered[n0][t.to] \in Nat /\ recieved[t.to][n0] \in Nat
          /\ Copies(Datagram("C", t.to, n0), network) \in Nat
      BY <3>1, NetworkBag, CopiesCount DEF TypeOK
    <3>3. t.uid < recieved[t.to][n0]
      BY <3>1, <3>2 DEF Receipts, Balance
    <3>. QED
      BY <1>6, <3>1, <3>3 DEF Receipts, Answered
  <2>. QED
    BY <1>6, <2>1, <2>2 DEF CheckerStep
<1>7. \A n, p \in Nodes, u \in Nat, l \in Lines : Kept(n, p, u, l) /\ Contains(nodes'[n], p) =>
        Kept(n, p, u, l)' \/ Contains(printed'[p], l)
  <2>. SUFFICES ASSUME NEW n \in Nodes, NEW p \in Nodes, NEW u \in Nat, NEW l \in Lines,
                       Kept(n, p, u, l), Contains(nodes'[n], p), ~Kept(n, p, u, l)'
                PROVE  Contains(printed[p], l)
    BY <1>1
  <2>1. n = n0 /\ ~CheckResends(n0) /\ p = t.to /\ u = t.uid /\ l = t.line
    BY <1>2
  <2>. QED
    BY <1>6, <2>1
<1>. QED
  BY <1>1, <1>5, <1>7, ChargeFades DEF Receipts

LEMMA JoinKeepsCharge ==
  ASSUME TypeOK, Charge, Latest, NEW n0 \in Nodes, NEW p0 \in Nodes, AddNode(n0, p0),
         UNCHANGED <<printed, threw, taken, sending, checkQueue>>
  PROVE  Charge'
<1>1. /\ \A x : Contains(nodes'[n0], x) <=> Contains(nodes[n0], x) \/ x = p0
      /\ \A m \in Nodes : m # n0 => nodes'[m] = nodes[m]
  BY AddedNode
<1>2. since \in [Nodes -> [Nodes -> Nat]] /\ since' = [since EXCEPT ![n0][p0] = Len(taken[n0])]
  BY DEF AddNode, TypeOK
<1>3. since'[n0][p0] = Len(taken[n0]) /\ \A n, p \in Nodes : <<n, p>> # <<n0, p0>> => since'[n][p] = since[n][p]
  BY <1>2
<1>4. \A n, p \in Nodes : Contains(nodes'[n], p) =>
        (Contains(nodes[n], p) /\ since'[n][p] = since[n][p]) \/ since'[n][p] = Len(taken[n])
  BY <1>1, <1>3
<1>5. \A n, p \in Nodes, u \in Nat, l \in Lines : Kept(n, p, u, l) => Kept(n, p, u, l)'
  BY DEF Kept
<1>. QED
  BY <1>4, <1>5, ChargeFades

LEMMA ChargeNext ==
  ASSUME TypeOK, Forest, Receipts, [Next]_vars
  PROVE  Charge'
<1>1. ASSUME NEW n \in Nodes, ServerStep(n) PROVE Charge'
  <2>1. CASE ConnectAnswered(n)
    <3>1. Parent[n] \in Nodes
      BY <2>1 DEF ConnectAnswered, Forest, Joins
    <3>2. AddNode(n, Parent[n]) /\ UNCHANGED <<printed, threw, taken, sending, checkQueue>>
      BY <2>1 DEF ConnectAnswered
    <3>. QED
      BY <3>1, <3>2, JoinKeepsCharge DEF Receipts
  <2>2. CASE StartRoot(n) \/ Register(n) \/ ConnectTimesOut(n) \/ ConnectFails(n) \/ TypeLine(n) \/ Quit(n)
    <3>1. UNCHANGED <<nodes, since, printed, threw, taken, sending, checkQueue>>
      BY <2>2 DEF StartRoot, Register, ConnectTimesOut, ConnectFails, TypeLine, Quit, history
    <3>. QED
      BY <3>1 DEF Receipts, Charge, Answers, Kept
  <2>. QED
    BY <1>1, <2>1, <2>2 DEF ServerStep
<1>2. ASSUME NEW n \in Nodes, NEW p \in Nodes, SendFails(n, p) PROVE Charge'
  BY <1>2, Zenon DEF SendFails, Charge
<1>3. ASSUME NEW n \in Nodes, RecieverStep(n) PROVE Charge'
  <2>1. ASSUME NEW d, AcceptRegistration(n, d) PROVE Charge'
    <3>1. d.from \in Nodes
      BY <2>1, FlyingTyped, DatagramParts DEF AcceptRegistration, Flying
    <3>2. AddNode(n, d.from) /\ UNCHANGED <<printed, threw, taken, sending, checkQueue>>
      BY <2>1 DEF AcceptRegistration
    <3>. QED
      BY <3>1, <3>2, JoinKeepsCharge DEF Receipts
  <2>2. ASSUME NEW d, AcceptMessage(n, d) PROVE Charge'
    <3>1. UNCHANGED <<nodes, since, threw, taken, sending, checkQueue>>
      BY <2>2 DEF AcceptMessage
    <3>2. \A p \in Nodes, l \in Lines : Contains(printed[p], l) => Contains(printed'[p], l)
      <4>1. /\ printed' = [printed EXCEPT ![n] = Append(@, d.line)]
            /\ printed \in [Nodes -> Seq(Lines)] /\ d.line \in Lines
        BY <2>2, Accepted DEF AcceptMessage, TypeOK
      <4>2. \A x : Contains(Append(printed[n], d.line), x) <=> Contains(printed[n], x) \/ x = d.line
        BY <4>1, ContainsAppend
      <4>. QED
        BY <4>1, <4>2
    <3>3. \A m, p \in Nodes, u \in Nat, l \in Lines : Kept(m, p, u, l) => Kept(m, p, u, l)'
      BY <3>1 DEF Kept
    <3>. QED
      BY <3>1, <3>2, <3>3, ChargeFades DEF Receipts
  <2>3. ASSUME NEW d, IgnoreMessage(n, d) \/ CountConfirm(n, d) \/ IgnoreName(n, d) PROVE Charge'
    <3>1. UNCHANGED <<nodes, since, printed, threw, taken, sending, checkQueue>>
      BY <2>3 DEF IgnoreMessage, CountConfirm, IgnoreName, history
    <3>. QED
      BY <3>1 DEF Receipts, Charge, Answers, Kept
  <2>. QED
    BY <1>3, <2>1, <2>2, <2>3 DEF RecieverStep
<1>4. ASSUME UNCHANGED vars \/ \E d : Lose(d) PROVE Charge'
  <2>1. UNCHANGED <<nodes, since, printed, threw, taken, sending, checkQueue>>
    BY <1>4 DEF vars, Lose, history
  <2>. QED
    BY <2>1 DEF Receipts, Charge, Answers, Kept
<1>. QED
  BY <1>1, <1>2, <1>3, <1>4, CheckKeepsCharge, TakeKeepsCharge, SendKeepsCharge DEF Next, SenderStep, Receipts

-----------------------------------------------------------------------------
(* Heard: what a step may do to lists, phases and the network.              *)

LEMMA PhasesGoOn ==
  ASSUME TypeOK, [Next]_vars
  PROVE  \A n \in Nodes : /\ Started(n) => Started(n)'
                          /\ phase[n] = "closed" => phase'[n] = "closed"
<1>1. ASSUME NEW n \in Nodes, ServerStep(n)
      PROVE  \A m \in Nodes : phase'[m] = phase[m] \/ (phase[m] \in {"off", "connecting"}) \/ (phase[m] = "working" /\ phase'[m] = "closed")
  BY <1>1 DEF ServerStep, StartRoot, Register, ConnectAnswered, ConnectTimesOut, ConnectFails, TypeLine, Quit, TypeOK
<1>2. ASSUME NEW n \in Nodes, SenderStep(n) \/ RecieverStep(n) \/ CheckerStep(n) PROVE phase' = phase
  BY <1>2 DEF SenderStep, RecieverStep, CheckerStep, TakeMessage, SendMessage, SendFails, AcceptMessage,
         IgnoreMessage, CountConfirm, AcceptRegistration, IgnoreName, CheckRemoves, CheckResends, CheckDone
<1>3. ASSUME UNCHANGED vars \/ \E d : Lose(d) PROVE phase' = phase
  BY <1>3 DEF vars, Lose
<1>. QED
  BY <1>1, <1>2, <1>3 DEF Next, Started

LEMMA ListsGrow ==
  ASSUME TypeOK, Forest, [Next]_vars
  PROVE  /\ removed => removed'
         /\ ~removed' => \A n, p \in Nodes : Contains(nodes[n], p) => Contains(nodes'[n], p)
<1>1. ASSUME NEW n \in Nodes, CheckRemoves(n) PROVE removed'
  BY <1>1 DEF CheckRemoves
<1>2. ASSUME NEW n \in Nodes, ConnectAnswered(n)
      PROVE  removed' = removed /\ \A m, p \in Nodes : Contains(nodes[m], p) => Contains(nodes'[m], p)
  BY <1>2, AddedNode DEF ConnectAnswered, Forest, Joins
<1>3. ASSUME NEW n \in Nodes, NEW d, AcceptRegistration(n, d)
      PROVE  removed' = removed /\ \A m, p \in Nodes : Contains(nodes[m], p) => Contains(nodes'[m], p)
  <2>1. d.from \in Nodes /\ AddNode(n, d.from)
    BY <1>3, FlyingTyped, DatagramParts DEF AcceptRegistration, Flying
  <2>. QED
    BY <1>3, <2>1, AddedNode DEF AcceptRegistration
<1>4. ASSUME NEW n \in Nodes,
             StartRoot(n) \/ Register(n) \/ ConnectTimesOut(n) \/ ConnectFails(n) \/ TypeLine(n) \/ Quit(n) \/ CheckResends(n) \/ CheckDone(n)
      PROVE  nodes' = nodes /\ removed' = removed
  BY <1>4 DEF history, StartRoot, Register, ConnectTimesOut, ConnectFails, TypeLine, Quit, CheckResends, CheckDone
<1>5. ASSUME NEW n \in Nodes, SenderStep(n) PROVE nodes' = nodes /\ removed' = removed
  BY <1>5 DEF history, SenderStep, TakeMessage, SendMessage, SendFails
<1>6. ASSUME NEW n \in Nodes, NEW d, AcceptMessage(n, d) \/ IgnoreMessage(n, d) \/ CountConfirm(n, d) \/ IgnoreName(n, d)
      PROVE  nodes' = nodes /\ removed' = removed
  BY <1>6 DEF history, AcceptMessage, IgnoreMessage, CountConfirm, IgnoreName
<1>7. ASSUME UNCHANGED vars \/ \E d : Lose(d) PROVE nodes' = nodes /\ removed' = removed
  BY <1>7 DEF vars, history, Lose
<1>. QED
  BY <1>1, <1>2, <1>3, <1>4, <1>5, <1>6, <1>7 DEF Next, ServerStep, RecieverStep, CheckerStep

LEMMA KnowsStays ==
  ASSUME TypeOK, Forest, [Next]_vars, NEW p \in Nodes, NEW n \in Nodes, Knows(p, n)
  PROVE  Knows(p, n)'
BY ListsGrow DEF Knows, Adjacent

LEMMA ListedIsKnown ==
  ASSUME TypeOK, Forest, NEW p \in Nodes, NEW n \in Nodes, Contains(nodes[p], n)
  PROVE  Knows(p, n)
BY DEF Forest, Edges, Knows

(* What is under way after a step is what was, a registration, or something *)
(* to a neighbour.                                                          *)
LEMMA NewTraffic ==
  ASSUME TypeOK, Forest, Traffic, [Next]_vars, NEW d, BagIn(d, network'), ~BagIn(d, network)
  PROVE  /\ d.from \in Nodes /\ d.to \in Nodes
         /\ \/ d.type = "R" /\ d.to = Parent[d.from] /\ phase[d.from] = "off"
            \/ d.type # "R" /\ phase[d.from] = "working" /\ (Knows(d.from, d.to) \/ Contains(nodes'[d.from], d.to))
<1>. DEFINE New == /\ d.from \in Nodes /\ d.to \in Nodes
                   /\ \/ d.type = "R" /\ d.to = Parent[d.from] /\ phase[d.from] = "off"
                      \/ d.type # "R" /\ phase[d.from] = "working" /\ (Knows(d.from, d.to) \/ Contains(nodes'[d.from], d.to))
<1>1. ASSUME NEW e, network' = network (+) SetToBag({e}) PROVE d = e
  BY <1>1, SentBag
<1>2. ASSUME NEW e, BagIn(e, network), network' = Delivered(e) PROVE FALSE
  BY <1>2, DeliveredBag
<1>3. ASSUME NEW e, BagIn(e, network), NEW f, network' = Delivered(e) (+) SetToBag({f}) PROVE d = f
  BY <1>3, AnsweredBag
<1>4. ASSUME NEW n \in Nodes, Register(n) PROVE New
  <2>1. d = Datagram("R", n, Parent[n]) /\ Parent[n] \in Nodes /\ phase[n] = "off"
    BY <1>1, <1>4, TreeAssumption DEF Register, TreeAssumption
  <2>. QED
    BY <2>1 DEF Datagram
<1>5. ASSUME NEW n \in Nodes, NEW p \in Nodes, SendMessage(n, p) PROVE New
  <2>1. d = MessageTo(p, n, sent[n][p] + 1, sending[n].line)
    BY <1>1, <1>5 DEF SendMessage
  <2>2. Contains(sending[n].rest, p) /\ phase[n] = "working"
    <3>1. Serving(n, p)
      BY <1>5 DEF SendMessage
    <3>2. p = Head(sending[n].rest) /\ sending[n].rest # <<>> /\ sending[n].rest \in Seq(Nodes)
      BY <3>1, ServedNode
    <3>. QED
      BY <3>1, <3>2, ContainsTail DEF Serving
  <2>3. Knows(n, p)
    BY <2>2 DEF Traffic
  <2>. QED
    BY <2>1, <2>2, <2>3 DEF MessageTo
<1>6. ASSUME NEW n \in Nodes, CheckResends(n) PROVE New
  <2>1. PICK t \in Tasks : t = Head(checkQueue[n]) /\ Waits(checkQueue[n], t.to, t.uid, t.line)
    BY <1>6, WaitsTail DEF CheckResends, TypeOK
  <2>2. t.to \in Nodes /\ t.uid \in Nat /\ t.line \in Lines
    BY DEF Tasks
  <2>3. d = MessageTo(t.to, n, t.uid, t.line) /\ phase[n] = "working"
    BY <1>1, <1>6, <2>1 DEF CheckResends
  <2>4. Knows(n, t.to)
    BY <2>1, <2>2 DEF Traffic, Kept
  <2>. QED
    BY <2>2, <2>3, <2>4 DEF MessageTo
<1>7. ASSUME NEW n \in Nodes, NEW e, AcceptMessage(n, e) PROVE New
  <2>1. /\ BagIn(e, network) /\ e.from \in Nodes /\ phase[n] = "working" /\ Contains(nodes[n], e.from)
    BY <1>7, FlyingTyped, DatagramParts DEF AcceptMessage, Flying
  <2>2. network' = Delivered(e) \/ network' = Delivered(e) (+) SetToBag({Datagram("C", n, e.from)})
    BY <1>7 DEF AcceptMessage
  <2>3. d = Datagram("C", n, e.from)
    BY <1>2, <1>3, <2>1, <2>2
  <2>4. Knows(n, e.from)
    BY <2>1, ListedIsKnown
  <2>. QED
    BY <2>1, <2>3, <2>4 DEF Datagram
<1>8. ASSUME NEW n \in Nodes, NEW e, AcceptRegistration(n, e) PROVE New
  <2>1. BagIn(e, network) /\ e.from \in Nodes /\ phase[n] = "working" /\ AddNode(n, e.from)
    BY <1>8, FlyingTyped, DatagramParts DEF AcceptRegistration, Flying
  <2>2. d = Datagram("N", n, e.from)
    BY <1>3, <1>8, <2>1 DEF AcceptRegistration
  <2>3. Contains(nodes'[n], e.from)
    BY <2>1, AddedNode
  <2>. QED
    BY <2>1, <2>2, <2>3 DEF Datagram
<1>9. ASSUME NEW n \in Nodes, NEW e \in BagToSet(network), IgnoreMessage(n, e) \/ CountConfirm(n, e) \/ IgnoreName(n, e)
      PROVE  FALSE
  <2>1. BagIn(e, network) /\ network' = Delivered(e)
    BY <1>9 DEF IgnoreMessage, CountConfirm, IgnoreName, BagIn
  <2>. QED
    BY <1>2, <2>1
<1>10. ASSUME NEW n \in Nodes, ConnectAnswered(n) PROVE FALSE
  <2>1. PICK e : BagIn(e, network) /\ network' = Delivered(e)
    BY <1>10 DEF ConnectAnswered, BagIn
  <2>. QED
    BY <1>2, <2>1
<1>11. ASSUME NEW e \in BagToSet(network), Lose(e) PROVE FALSE
  BY <1>2, <1>11 DEF Lose, BagIn
<1>12. network' # network
  OBVIOUS
<1>13. ~UNCHANGED vars
  BY <1>12 DEF vars
<1>14. ASSUME NEW n \in Nodes, ServerStep(n) PROVE New
  BY <1>4, <1>10, <1>12, <1>14 DEF ServerStep, StartRoot, ConnectTimesOut, ConnectFails, TypeLine, Quit
<1>15. ASSUME NEW n \in Nodes, SenderStep(n) PROVE New
  BY <1>5, <1>12, <1>15 DEF SenderStep, TakeMessage, SendFails
<1>16. ASSUME NEW n \in Nodes, RecieverStep(n) PROVE New
  BY <1>7, <1>8, <1>9, <1>16 DEF RecieverStep
<1>17. ASSUME NEW n \in Nodes, CheckerStep(n) PROVE New
  BY <1>6, <1>12, <1>17 DEF CheckerStep, CheckRemoves, CheckDone
<1>. QED
  BY <1>11, <1>13, <1>14, <1>15, <1>16, <1>17 DEF Next

LEMMA LoopsGoOn ==
  ASSUME TypeOK, Forest, [Next]_vars, NEW p \in Nodes, NEW n \in Nodes, Contains(sending'[p].rest, n)
  PROVE  Contains(sending[p].rest, n) \/ Contains(nodes[p], n)
<1>1. CASE sending' = sending
  BY <1>1
<1>2. ASSUME NEW m \in Nodes, TakeMessage(m) PROVE Contains(sending[p].rest, n) \/ Contains(nodes[p], n)
  <2>1. /\ sending'[m].rest = Others(m, Head(messageQueue[m]).from)
        /\ \A x \in Nodes : x # m => sending'[x] = sending[x]
    BY <1>2, TakenLoop DEF Forest
  <2>2. \A q, x : Contains(Others(m, q), x) => Contains(nodes[m], x)
    BY OthersParts DEF Forest
  <2>. QED
    BY <2>1, <2>2
<1>3. ASSUME NEW m \in Nodes, NEW q, SendMessage(m, q) PROVE Contains(sending[p].rest, n) \/ Contains(nodes[p], n)
  <2>1. /\ sending'[m].rest = Tail(sending[m].rest)
        /\ \A x \in Nodes : x # m => sending'[x] = sending[x]
    BY <1>3, ServedLoop
  <2>2. Serving(m, q)
    BY <1>3 DEF SendMessage
  <2>3. sending[m].rest # <<>> /\ sending[m].rest \in Seq(Nodes)
    BY <2>2, ServedNode
  <2>4. \A x : Contains(Tail(sending[m].rest), x) => Contains(sending[m].rest, x)
    BY <2>3, ContainsTail
  <2>. QED
    BY <2>1, <2>4
<1>4. ASSUME NEW m \in Nodes, NEW q, SendFails(m, q) PROVE Contains(sending[p].rest, n) \/ Contains(nodes[p], n)
  BY <1>4, FailedLoop, EmptyContains
<1>5. ASSUME NEW m \in Nodes, ServerStep(m) \/ CheckerStep(m) PROVE sending' = sending
  BY <1>5 DEF ServerStep, StartRoot, Register, ConnectAnswered, ConnectTimesOut, ConnectFails, TypeLine, Quit,
       CheckerStep, CheckRemoves, CheckResends, CheckDone
<1>6. ASSUME NEW m \in Nodes, RecieverStep(m) PROVE sending' = sending
  BY <1>6 DEF RecieverStep, AcceptMessage, IgnoreMessage, CountConfirm, AcceptRegistration, IgnoreName
<1>7. ASSUME UNCHANGED vars \/ \E d : Lose(d) PROVE sending' = sending
  BY <1>7 DEF vars, Lose
<1>. QED
  BY <1>1, <1>2, <1>3, <1>4, <1>5, <1>6, <1>7 DEF Next, SenderStep

LEMMA TasksGoOn ==
  ASSUME TypeOK, [Next]_vars, NEW p \in Nodes, NEW n \in Nodes, NEW u \in Nat, NEW l \in Lines, Kept(p, n, u, l)'
  PROVE  Kept(p, n, u, l) \/ Contains(sending[p].rest, n)
<1>1. ASSUME NEW m \in Nodes, NEW q \in Nodes, SendMessage(m, q) PROVE Kept(p, n, u, l) \/ Contains(sending[p].rest, n)
  <2>1. Kept(p, n, u, l) \/ (p = m /\ n = q)
    BY <1>1, SendCarries
  <2>2. Serving(m, q)
    BY <1>1 DEF SendMessage
  <2>3. q = Head(sending[m].rest) /\ sending[m].rest # <<>> /\ sending[m].rest \in Seq(Nodes)
    BY <2>2, ServedNode
  <2>4. Contains(sending[m].rest, q)
    BY <2>3, ContainsTail
  <2>. QED
    BY <2>1, <2>4
<1>2. CASE Fades
  BY <1>2 DEF Fades
<1>3. ASSUME NEW d \in BagToSet(network), Lose(d) PROVE Fades
  BY <1>3, OthersFade DEF BagIn
<1>. QED
  BY <1>1, <1>2, <1>3, CheckerFades, RecieverFades, OthersFade DEF Next, SenderStep

LEMMA TrafficNext ==
  ASSUME TypeOK, Forest, Forest', Traffic, [Next]_vars
  PROVE  Traffic'
<1>1. \A p, n \in Nodes : Contains(nodes'[p], n) => Knows(p, n)'
  BY DEF Forest, Edges, Knows, Adjacent
<1>2. \A p, n \in Nodes : Knows(p, n) => Knows(p, n)'
  BY KnowsStays
<1>3. ASSUME NEW d, BagIn(d, network') PROVE Knows(d.from, d.to)' /\ (d.type # "R" => Started(d.from)')
  <2>1. CASE BagIn(d, network)
    <3>1. d.from \in Nodes /\ d.to \in Nodes
      BY <2>1, FlyingTyped, DatagramParts
    <3>2. Knows(d.from, d.to) /\ (d.type # "R" => Started(d.from))
      BY <2>1 DEF Traffic
    <3>. QED
      BY <1>2, <3>1, <3>2, PhasesGoOn
  <2>2. CASE ~BagIn(d, network)
    <3>1. d.from \in Nodes /\ d.to \in Nodes
      BY <1>3, <2>2, NewTraffic
    <3>2. CASE d.type = "R" /\ d.to = Parent[d.from]
      <4>1. Parent[d.to] # d.from
        BY <3>1, <3>2, NotBothParents
      <4>. QED
        BY <3>2, <4>1 DEF Knows, Adjacent
    <3>3. CASE phase[d.from] = "working" /\ (Knows(d.from, d.to) \/ Contains(nodes'[d.from], d.to))
      <4>1. Started(d.from)'
        BY <3>1, <3>3, PhasesGoOn DEF Started
      <4>. QED
        BY <1>1, <1>2, <3>1, <3>3, <4>1
    <3>. QED
      BY <1>3, <2>2, <3>2, <3>3, NewTraffic
  <2>. QED
    BY <2>1, <2>2
<1>4. \A p, n \in Nodes : Contains(sending'[p].rest, n) => Knows(p, n)'
  BY <1>2, LoopsGoOn, ListedIsKnown DEF Traffic
<1>5. \A p, n \in Nodes, u \in Nat, l \in Lines : Kept(p, n, u, l)' => Knows(p, n)'
  BY <1>2, TasksGoOn DEF Traffic
<1>6. ASSUME NEW n \in Nodes, NEW p \in Nodes, Contains(nodes'[n], p) PROVE Started(n)'
  <2>1. CASE Contains(nodes[n], p)
    BY <2>1, PhasesGoOn DEF Traffic
  <2>2. CASE nodes'[n] # nodes[n]
    <3>1. \A m \in Nodes, q \in Nodes : AddNode(m, q) => \A x \in Nodes : x # m => nodes'[x] = nodes[x]
      BY AddedNode
    <3>2. ASSUME NEW m \in Nodes, ConnectAnswered(m) PROVE Started(n)'
      <4>1. n = m
        BY <2>2, <3>1, <3>2 DEF ConnectAnswered, Forest, Joins
      <4>. QED
        BY <3>2, <4>1 DEF ConnectAnswered, Started, TypeOK
    <3>3. ASSUME NEW m \in Nodes, NEW d, AcceptRegistration(m, d) PROVE Started(n)'
      <4>1. d.from \in Nodes /\ AddNode(m, d.from) /\ phase[m] = "working"
        BY <3>3, FlyingTyped, DatagramParts DEF AcceptRegistration, Flying
      <4>2. n = m
        BY <2>2, <3>1, <4>1
      <4>. QED
        BY <4>1, <4>2, PhasesGoOn DEF Started
    <3>4. ASSUME NEW m \in Nodes, CheckRemoves(m) PROVE Started(n)'
      <4>1. n = m /\ phase[m] = "working"
        BY <2>2, <3>4 DEF CheckRemoves, TypeOK
      <4>. QED
        BY <4>1, PhasesGoOn DEF Started
    <3>5. ASSUME NEW m \in Nodes, ServerStep(m), ~ConnectAnswered(m) PROVE FALSE
      BY <2>2, <3>5 DEF ServerStep, StartRoot, Register, ConnectTimesOut, ConnectFails, TypeLine, Quit
    <3>6. ASSUME NEW m \in Nodes, SenderStep(m) PROVE FALSE
      BY <2>2, <3>6 DEF SenderStep, TakeMessage, SendMessage, SendFails
    <3>7. ASSUME NEW m \in Nodes, CheckerStep(m), ~CheckRemoves(m) PROVE FALSE
      BY <2>2, <3>7 DEF CheckerStep, CheckResends, CheckDone
    <3>8. ASSUME NEW m \in Nodes, RecieverStep(m) PROVE Started(n)'
      BY <2>2, <3>3, <3>8 DEF RecieverStep, AcceptMessage, IgnoreMessage, CountConfirm, IgnoreName
    <3>9. ASSUME UNCHANGED vars \/ \E d : Lose(d) PROVE FALSE
      BY <2>2, <3>9 DEF vars, Lose
    <3>. QED
      BY <3>2, <3>4, <3>5, <3>6, <3>7, <3>8, <3>9 DEF Next
  <2>. QED
    BY <1>6, <2>1, <2>2
<1>. QED
  BY <1>3, <1>4, <1>5, <1>6 DEF Traffic

(* Who works has been started as a root or answered.                        *)
LEMMA PhaseSteps ==
  ASSUME TypeOK, [Next]_vars, NEW x \in Nodes
  PROVE  /\ phase'[x] = "working" => phase[x] = "working" \/ Parent[x] = NoNode \/ ConnectAnswered(x) \/ ConnectFails(x)
         /\ phase[x] = "connecting" => phase'[x] \in {"connecting", "closed"} \/ ConnectAnswered(x) \/ ConnectFails(x)
<1>1. CASE phase' = phase
  BY <1>1
<1>2. ASSUME NEW n \in Nodes, ServerStep(n)
      PROVE  /\ phase'[x] = "working" => phase[x] = "working" \/ Parent[x] = NoNode \/ ConnectAnswered(x) \/ ConnectFails(x)
             /\ phase[x] = "connecting" => phase'[x] \in {"connecting", "closed"} \/ ConnectAnswered(x) \/ ConnectFails(x)
  <2>1. ASSUME ConnectAnswered(n) \/ ConnectFails(n) PROVE x = n \/ phase'[x] = phase[x]
    BY <2>1 DEF ConnectAnswered, ConnectFails, TypeOK
  <2>. QED
    BY <1>2, <2>1 DEF ServerStep, StartRoot, Register, ConnectTimesOut, TypeLine, Quit, TypeOK
<1>3. ASSUME NEW n \in Nodes, SenderStep(n) \/ RecieverStep(n) \/ CheckerStep(n) PROVE phase' = phase
  BY <1>3 DEF SenderStep, RecieverStep, CheckerStep, TakeMessage, SendMessage, SendFails, AcceptMessage,
         IgnoreMessage, CountConfirm, AcceptRegistration, IgnoreName, CheckRemoves, CheckResends, CheckDone
<1>4. ASSUME UNCHANGED vars \/ \E d : Lose(d) PROVE phase' = phase
  BY <1>4 DEF vars, Lose
<1>. QED
  BY <1>1, <1>2, <1>3, <1>4 DEF Next

(* A child is listed when its registration comes.                           *)
LEMMA NewChild ==
  ASSUME TypeOK, Forest, [Next]_vars, NEW p \in Nodes, NEW x \in Nodes, Parent[x] = p,
         Contains(nodes'[p], x), ~Contains(nodes[p], x)
  PROVE  BagIn(Datagram("R", x, p), network)
<1>1. ASSUME NEW n \in Nodes, ConnectAnswered(n) PROVE FALSE
  <2>1. PICK q \in Nodes : Parent[n] = q /\ AddNode(n, q)
    BY <1>1 DEF ConnectAnswered, Forest, Joins
  <2>2. p = n /\ x = q
    BY <2>1, AddedNode
  <2>. QED
    BY <2>1, <2>2, NotBothParents
<1>2. ASSUME NEW n \in Nodes, NEW d, AcceptRegistration(n, d) PROVE BagIn(Datagram("R", x, p), network)
  <2>1. d \in Datagrams /\ BagIn(d, network) /\ d.type = "R" /\ d.to = n /\ AddNode(n, d.from)
    BY <1>2, FlyingTyped DEF AcceptRegistration, Flying
  <2>2. d.from \in Nodes /\ d = Datagram("R", d.from, n)
    BY <2>1, DatagramParts
  <2>3. p = n /\ x = d.from
    BY <2>1, <2>2, AddedNode
  <2>. QED
    BY <2>1, <2>2, <2>3
<1>3. ASSUME NEW n \in Nodes, CheckRemoves(n) PROVE FALSE
  <2>1. nodes' = [nodes EXCEPT ![n] = Others(n, Head(checkQueue[n]).to)]
    BY <1>3 DEF CheckRemoves
  <2>2. p = n /\ Contains(Others(n, Head(checkQueue[n]).to), x)
    BY <2>1 DEF TypeOK
  <2>. QED
    BY <2>2, OthersParts DEF Forest
<1>4. nodes' # nodes
  OBVIOUS
<1>5. ASSUME NEW n \in Nodes, ServerStep(n) PROVE FALSE
  BY <1>1, <1>4, <1>5 DEF ServerStep, StartRoot, Register, ConnectTimesOut, ConnectFails, TypeLine, Quit
<1>6. ASSUME NEW n \in Nodes, SenderStep(n) PROVE FALSE
  BY <1>4, <1>6 DEF SenderStep, TakeMessage, SendMessage, SendFails
<1>7. ASSUME NEW n \in Nodes, CheckerStep(n) PROVE FALSE
  BY <1>3, <1>4, <1>7 DEF CheckerStep, CheckResends, CheckDone
<1>8. ASSUME NEW n \in Nodes, RecieverStep(n) PROVE BagIn(Datagram("R", x, p), network)
  BY <1>2, <1>4, <1>8 DEF RecieverStep, AcceptMessage, IgnoreMessage, CountConfirm, IgnoreName
<1>9. ASSUME UNCHANGED vars \/ \E d : Lose(d) PROVE FALSE
  BY <1>4, <1>9 DEF vars, Lose
<1>. QED
  BY <1>5, <1>6, <1>7, <1>8, <1>9 DEF Next

(* The parent is listed when it answers, and never later.                   *)
LEMMA NewParent ==
  ASSUME TypeOK, Forest, [Next]_vars, NEW p \in Nodes, NEW x \in Nodes, Parent[x] = p,
         Contains(nodes'[x], p), ~Contains(nodes[x], p), ~ConnectAnswered(x)
  PROVE  FALSE
<1>1. ASSUME NEW n \in Nodes, ConnectAnswered(n) PROVE FALSE
  <2>1. PICK q \in Nodes : AddNode(n, q)
    BY <1>1 DEF ConnectAnswered, Forest, Joins
  <2>2. \A m \in Nodes : m # n => nodes'[m] = nodes[m]
    BY <2>1, AddedNode
  <2>. QED
    BY <1>1, <2>2
<1>2. ASSUME NEW n \in Nodes, NEW d, AcceptRegistration(n, d) PROVE FALSE
  <2>1. d \in Datagrams /\ BagIn(d, network) /\ d.type = "R" /\ d.to = n /\ AddNode(n, d.from)
    BY <1>2, FlyingTyped DEF AcceptRegistration, Flying
  <2>2. d.from \in Nodes /\ d = Datagram("R", d.from, n)
    BY <2>1, DatagramParts
  <2>. DEFINE q == d.from
  <2>. q \in Nodes /\ AddNode(n, q)
    BY <2>1, <2>2
  <2>. HIDE DEF q
  <2>5. /\ \A y : Contains(nodes'[n], y) <=> Contains(nodes[n], y) \/ y = q
        /\ \A m \in Nodes : m # n => nodes'[m] = nodes[m]
    BY AddedNode
  <2>3. x = n /\ p = d.from
    BY <2>5 DEF q
  <2>4. Parent[p] = x
    BY <2>1, <2>2, <2>3 DEF Forest, Edges
  <2>. QED
    BY <2>4, NotBothParents
<1>3. ASSUME NEW n \in Nodes, CheckRemoves(n) PROVE FALSE
  <2>1. nodes' = [nodes EXCEPT ![n] = Others(n, Head(checkQueue[n]).to)]
    BY <1>3 DEF CheckRemoves
  <2>2. x = n /\ Contains(Others(n, Head(checkQueue[n]).to), p)
    BY <2>1 DEF TypeOK
  <2>. QED
    BY <2>2, OthersParts DEF Forest
<1>4. nodes' # nodes
  OBVIOUS
<1>5. ASSUME NEW n \in Nodes, ServerStep(n) PROVE FALSE
  BY <1>1, <1>4, <1>5 DEF ServerStep, StartRoot, Register, ConnectTimesOut, ConnectFails, TypeLine, Quit
<1>6. ASSUME NEW n \in Nodes, SenderStep(n) PROVE FALSE
  BY <1>4, <1>6 DEF SenderStep, TakeMessage, SendMessage, SendFails
<1>7. ASSUME NEW n \in Nodes, CheckerStep(n) PROVE FALSE
  BY <1>3, <1>4, <1>7 DEF CheckerStep, CheckResends, CheckDone
<1>8. ASSUME NEW n \in Nodes, RecieverStep(n) PROVE FALSE
  BY <1>2, <1>4, <1>8 DEF RecieverStep, AcceptMessage, IgnoreMessage, CountConfirm, IgnoreName
<1>9. ASSUME UNCHANGED vars \/ \E d : Lose(d) PROVE FALSE
  BY <1>4, <1>9 DEF vars, Lose
<1>. QED
  BY <1>5, <1>6, <1>7, <1>8, <1>9 DEF Next

(* A program that is lost comes back only by another one's datagram.        *)
LEMMA LostStays ==
  ASSUME TypeOK, TypeOK', Forest, Traffic, [Next]_vars, NEW x \in Nodes, Lost(x), ~ConnectAnswered(x)
  PROVE  Lost(x)'
<1>1. CASE phase[x] = "closed"
  BY <1>1, PhasesGoOn DEF Lost
<1>2. CASE phase[x] = "connecting"
  <2>1. PICK p \in Nodes : Parent[x] = p /\ ~Contains(nodes[p], x) /\ ~BagIn(Datagram("R", x, p), network)
    BY <1>2 DEF Lost
  <2>2. ~Contains(nodes'[p], x)
    BY <2>1, NewChild
  <2>3. ~BagIn(Datagram("R", x, p), network')
    <3>. SUFFICES ASSUME BagIn(Datagram("R", x, p), network') PROVE FALSE
      OBVIOUS
    <3>1. PICK d : d = Datagram("R", x, p)
      OBVIOUS
    <3>2. d.type = "R" /\ d.from = x
      BY <3>1 DEF Datagram
    <3>. QED
      BY <1>2, <2>1, <3>1, <3>2, NewTraffic
  <2>4. CASE phase'[x] = "connecting" \/ phase'[x] = "closed"
    BY <2>1, <2>2, <2>3, <2>4 DEF Lost
  <2>5. CASE ConnectFails(x)
    <3>1. ~Contains(nodes[x], p)
      BY <1>2, <2>1 DEF Forest, Joins
    <3>2. nodes' = nodes /\ phase'[x] = "working"
      BY <2>5 DEF ConnectFails, TypeOK
    <3>. QED
      BY <2>1, <3>1, <3>2 DEF Lost
  <2>. QED
    BY <1>2, <2>4, <2>5, PhaseSteps
<1>3. CASE phase[x] = "working"
  <2>1. PICK p \in Nodes : Parent[x] = p /\ ~Contains(nodes[x], p)
    BY <1>3 DEF Lost
  <2>2. ~Contains(nodes'[x], p)
    BY <2>1, NewParent
  <2>3. phase'[x] = "working" \/ phase'[x] = "closed"
    BY <1>3, PhasesGoOn DEF Started
  <2>. QED
    BY <2>1, <2>2, <2>3 DEF Lost
<1>. QED
  BY <1>1, <1>2, <1>3 DEF Lost

LEMMA BelowInBelow ==
  ASSUME NEW p \in Nodes, NEW x \in Below(p)
  PROVE  Below(x) \subseteq Below(p)
BY BelowItself, BelowIsLeast

(* When a datagram of a child was taken for the name of the parent, some    *)
(* program below that child is lost.                                        *)
LEMMA ChildIsCut ==
  ASSUME TypeOK, TypeOK', Forest, Traffic, Unheard, [Next]_vars, ~removed', NEW n \in Nodes, ConnectAnswered(n),
         NEW e, BagIn(e, network), network' = Delivered(e), NEW q \in Nodes, e.from = q, e.to = n, Parent[q] = n
  PROVE  \E y \in Below(q) : y \in Nodes /\ y # n /\ Lost(y)'
<1>1. ~Contains(nodes[n], q) /\ ~removed /\ phase[n] = "connecting"
  BY ListsGrow DEF Traffic, Started, ConnectAnswered
<1>2. q \in Below(q) /\ q # n /\ n \notin Below(q) /\ Below(q) \subseteq Nodes
  BY BelowItself, ParentIsAbove
<1>3. \A x \in Nodes : ConnectAnswered(x) => x = n
  BY PhaseSteps DEF ConnectAnswered, TypeOK
<1>4. e \in Datagrams
  BY FlyingTyped
<1>5. CASE ~Started(q)
  <2>1. e = Datagram("R", q, n)
    BY <1>4, <1>5, DatagramParts DEF Traffic
  <2>2. Copies(e, network) \in Nat /\ Copies(e, network) > 0
    BY NetworkBag, CopiesCount
  <2>3. phase[q] # "off" /\ Copies(e, network) <= 1
    BY <2>1, <2>2 DEF Forest, Joins
  <2>4. phase[q] = "connecting"
    BY <1>5, <2>3 DEF Started, TypeOK
  <2>5. ~BagIn(e, network')
    <3>1. Copies(e, network') = Copies(e, network) - 1
      BY DeliveredBag
    <3>2. BagIn(e, network') <=> Copies(e, network') > 0
      BY CopiesCount DEF TypeOK
    <3>. QED
      BY <2>2, <2>3, <3>1, <3>2
  <2>6. ~Contains(nodes'[n], q)
    <3>1. PICK r \in Nodes : r = Parent[n] /\ AddNode(n, r)
      BY DEF ConnectAnswered, Forest, Joins
    <3>2. r # q
      BY <3>1, NotBothParents
    <3>. QED
      BY <1>1, <3>1, <3>2, AddedNode
  <2>7. phase'[q] = "connecting" \/ phase'[q] = "closed"
    <3>1. ~ConnectFails(q)
      BY DEF ConnectAnswered, ConnectFails, Fault, TypeOK
    <3>. QED
      BY <1>2, <1>3, <2>4, <3>1, PhaseSteps
  <2>8. Lost(q)'
    BY <2>1, <2>5, <2>6, <2>7 DEF Lost
  <2>. QED
    BY <1>2, <2>8
<1>6. CASE phase[q] = "closed"
  BY <1>2, <1>6, PhasesGoOn DEF Lost
<1>7. CASE phase[q] = "working" /\ ~Contains(nodes[q], n)
  <2>1. Lost(q)'
    BY <1>2, <1>3, <1>7, LostStays DEF Lost
  <2>. QED
    BY <1>2, <2>1
<1>8. CASE phase[q] = "working" /\ Contains(nodes[q], n)
  <2>1. PICK x \in Nodes, y \in Nodes : Parent[x] = q /\ y \in Below(x) /\ Lost(y)
    BY <1>1, <1>8, BelowItself DEF Unheard, Doomed
  <2>2. x \in Below(q)
    BY <1>2, <2>1, BelowItself DEF Closed
  <2>3. y \in Below(q) /\ y # n /\ y \in Nodes
    BY <1>2, <2>1, <2>2, BelowInBelow
  <2>4. Lost(y)'
    BY <1>3, <2>1, <2>3, LostStays
  <2>. QED
    BY <2>3, <2>4
<1>. QED
  BY <1>5, <1>6, <1>7, <1>8 DEF Started

LEMMA UnheardNext ==
  ASSUME TypeOK, TypeOK', Forest, Traffic, Unheard, [Next]_vars
  PROVE  Unheard'
<1>. SUFFICES ASSUME ~removed', NEW c \in Nodes, NEW p \in Nodes, Parent[c] = p, phase'[c] = "working",
                     Contains(nodes'[c], p), ~Contains(nodes'[p], c)
              PROVE  Doomed(c)'
  BY DEF Unheard
<1>1. ~removed /\ ~Contains(nodes[p], c)
  BY ListsGrow
<1>2. (phase[c] = "working" /\ Contains(nodes[c], p)) \/ ConnectAnswered(c)
  <2>. SUFFICES ASSUME ~ConnectAnswered(c) PROVE phase[c] = "working" /\ Contains(nodes[c], p)
    OBVIOUS
  <2>1. Contains(nodes[c], p)
    BY NewParent
  <2>2. phase[c] = "working" \/ phase[c] = "closed"
    BY <2>1 DEF Traffic, Started
  <2>. QED
    BY <2>1, <2>2, PhasesGoOn
<1>3. phase[c] = "working" /\ Contains(nodes[c], p)
        => \E x \in Nodes, y \in Nodes : Parent[x] = c /\ y \in Below(x) /\ Lost(y)
  BY <1>1, BelowItself DEF Unheard, Doomed
<1>4. \A x, y \in Nodes : Parent[x] = c /\ y \in Below(x) /\ Lost(y)' => Doomed(c)'
  BY DEF Doomed
<1>5. CASE \A n \in Nodes : ~ConnectAnswered(n)
  BY <1>2, <1>3, <1>4, <1>5, LostStays
<1>6. ASSUME NEW n \in Nodes, ConnectAnswered(n) PROVE Doomed(c)'
  <2>1. PICK e : BagIn(e, network) /\ network' = Delivered(e) /\ e.to = n
    BY <1>6 DEF ConnectAnswered, BagIn
  <2>2. PICK q \in Nodes : e.from = q
    BY <2>1, FlyingTyped, DatagramParts
  <2>3. Knows(q, n)
    BY <2>1, <2>2 DEF Traffic
  <2>4. \A x \in Nodes : ConnectAnswered(x) => x = n
    BY <1>6 DEF ConnectAnswered, TypeOK
  <2>5. CASE Parent[n] = q
    <3>1. Contains(nodes[q], n)
      BY <1>1, <2>3, <2>5 DEF Knows
    <3>2. ~Lost(n) /\ c # n
      BY <1>1, <1>6, <2>5, <3>1 DEF Lost, ConnectAnswered
    <3>. QED
      BY <1>2, <1>3, <1>4, <2>4, <3>2, LostStays
  <2>6. CASE Parent[q] = n
    <3>1. PICK y \in Nodes : y \in Below(q) /\ y # n /\ Lost(y)'
      BY <1>6, <2>1, <2>2, <2>6, ChildIsCut
    <3>2. CASE c = n
      BY <1>4, <2>6, <3>1, <3>2
    <3>3. CASE c # n
      <4>1. PICK x \in Nodes, z \in Nodes : Parent[x] = c /\ z \in Below(x) /\ Lost(z)
        BY <1>2, <1>3, <2>4, <3>3
      <4>2. CASE z # n
        BY <1>4, <2>4, <4>1, <4>2, LostStays
      <4>3. CASE z = n
        <5>1. q \in Below(x)
          BY <2>6, <4>1, <4>3, BelowItself DEF Closed
        <5>2. y \in Below(x)
          BY <3>1, <5>1, BelowInBelow
        <5>. QED
          BY <1>4, <3>1, <4>1, <5>2
      <4>. QED
        BY <4>2, <4>3
    <3>. QED
      BY <3>2, <3>3
  <2>. QED
    BY <2>3, <2>5, <2>6 DEF Knows, Adjacent
<1>. QED
  BY <1>5, <1>6

-----------------------------------------------------------------------------
(* Relaying                                                                 *)

LEMMA LineIs ==
  ASSUME NEW l \in Lines
  PROVE  l = [by |-> l.by, k |-> l.k]
<1>1. PICK n \in Nodes : l \in [by : {n}, k : 1..MaxLines[n]]
  BY DEF Lines
<1>. QED
  BY <1>1

LEMMA RelayingAdds ==
  ASSUME TypeOK, Relaying, NEW n \in Nodes, NEW m0 \in Messages,
         messageQueue' = [messageQueue EXCEPT ![n] = Append(@, m0)], taken' = taken,
         \A p \in Nodes, l \in Lines : Owned(p, l) => Owned(p, l)',
         \A p \in Nodes, l \in Lines : Owned(p, l)' => Owned(p, l) \/ (p = n /\ l = m0.line),
         m0.from \in Nodes => Owned(m0.from, m0.line)
  PROVE  Relaying'
<1>1. \A p \in Nodes : \A m : Relays(p, m)' <=> Relays(p, m) \/ (p = n /\ m = m0)
  <2>1. /\ messageQueue'[n] = Append(messageQueue[n], m0) /\ messageQueue[n] \in Seq(Messages)
        /\ \A p \in Nodes : p # n => messageQueue'[p] = messageQueue[p]
    BY DEF TypeOK
  <2>2. \A m : Contains(messageQueue'[n], m) <=> Contains(messageQueue[n], m) \/ m = m0
    BY <2>1, ContainsAppend
  <2>. QED
    BY <2>1, <2>2 DEF Relays
<1>2. \A m \in Messages : m.line \in Lines
  BY DEF Messages
<1>. QED
  BY <1>1, <1>2 DEF Relaying

LEMMA TakeKeepsRelaying ==
  ASSUME TypeOK, Relaying, NEW n \in Nodes, TakeMessage(n)
  PROVE  Relaying'
<1>1. PICK m0 \in Messages : m0 = Head(messageQueue[n])
  BY ContainsTail DEF TakeMessage, TypeOK
<1>2. /\ messageQueue[n] \in Seq(Messages) /\ messageQueue[n] # <<>> /\ taken[n] \in Seq(Messages)
      /\ messageQueue'[n] = Tail(messageQueue[n]) /\ taken'[n] = Append(taken[n], m0)
      /\ \A p \in Nodes : p # n => messageQueue'[p] = messageQueue[p] /\ taken'[p] = taken[p]
      /\ UNCHANGED <<typed, printed>>
  BY <1>1 DEF TakeMessage, TypeOK
<1>3. \A m : Contains(messageQueue[n], m) <=> m = m0 \/ Contains(messageQueue'[n], m)
  BY <1>1, <1>2, ContainsTail
<1>4. \A m : Contains(taken'[n], m) <=> Contains(taken[n], m) \/ m = m0
  BY <1>2, ContainsAppend
<1>5. \A p \in Nodes : \A m : Relays(p, m)' <=> Relays(p, m)
  BY <1>2, <1>3, <1>4 DEF Relays
<1>6. \A p \in Nodes : \A l : Owned(p, l)' <=> Owned(p, l)
  BY <1>2 DEF Owned
<1>. QED
  BY <1>5, <1>6 DEF Relaying, Messages

LEMMA RelayingNext ==
  ASSUME TypeOK, Forest, Flow, Relaying, [Next]_vars
  PROVE  Relaying'
<1>1. ASSUME NEW n \in Nodes, TypeLine(n) PROVE Relaying'
  <2>1. PICK k \in Nat, line \in Lines : k = typed[n] + 1 /\ line = [by |-> n, k |-> k]
    <3>1. typed[n] + 1 \in Nat /\ typed[n] < MaxLines[n]
      BY <1>1 DEF TypeLine, TypeOK
    <3>2. [by |-> n, k |-> typed[n] + 1] \in Lines
      BY <3>1, NextLine
    <3>. QED
      BY <3>1, <3>2
  <2>2. PICK m0 \in Messages : m0 = [line |-> line, from |-> NoNode]
    BY DEF Messages
  <2>3. m0.line = line /\ m0.from \notin Nodes
    BY <2>2, TreeAssumption DEF TreeAssumption
  <2>4. /\ messageQueue' = [messageQueue EXCEPT ![n] = Append(@, m0)]
        /\ typed' = [typed EXCEPT ![n] = k]
        /\ UNCHANGED <<printed, taken>>
    BY <1>1, <2>1, <2>2 DEF TypeLine
  <2>5. typed'[n] = k /\ typed[n] \in Nat /\ \A p \in Nodes : p # n => typed'[p] = typed[p]
    BY <2>4 DEF TypeOK
  <2>6. ASSUME NEW p \in Nodes, NEW l \in Lines
        PROVE  (Owned(p, l) => Owned(p, l)') /\ (Owned(p, l)' => Owned(p, l) \/ (p = n /\ l = m0.line))
    <3>1. l.k \in Nat /\ l = [by |-> l.by, k |-> l.k]
      BY LineParts, LineIs
    <3>2. CASE l.by = p /\ p = n
      <4>1. l.k <= k <=> l.k <= typed[n] \/ l.k = k
        BY <2>1, <2>5, <3>1
      <4>. QED
        BY <2>1, <2>3, <2>5, <3>1, <3>2, <4>1 DEF Owned
    <3>3. CASE l.by # p \/ p # n
      BY <2>4, <2>5, <3>3 DEF Owned
    <3>. QED
      BY <3>2, <3>3
  <2>. QED
    BY <2>3, <2>4, <2>6, RelayingAdds
<1>2. ASSUME NEW n \in Nodes, NEW d, AcceptMessage(n, d) PROVE Relaying'
  <2>1. PICK q \in Nodes, line \in Lines, w \in Nat : q = d.from /\ line = d.line /\ w = d.uid
    BY <1>2, Accepted
  <2>2. PICK m0 \in Messages : m0 = [line |-> line, from |-> q]
    BY DEF Messages
  <2>3. /\ messageQueue' = [messageQueue EXCEPT ![n] = Append(@, m0)]
        /\ printed' = [printed EXCEPT ![n] = Append(@, line)]
        /\ UNCHANGED <<typed, taken>>
    BY <1>2, <2>1, <2>2 DEF AcceptMessage
  <2>4. Owned(q, line)
    <3>1. Carried(q, n, w, line)
      BY <1>2, <2>1, Accepted
    <3>. QED
      BY <3>1 DEF Flow, Sourced, Held
  <2>5. /\ \A x : Contains(printed'[n], x) <=> Contains(printed[n], x) \/ x = line
        /\ \A p \in Nodes : p # n => printed'[p] = printed[p]
    <3>1. printed'[n] = Append(printed[n], line) /\ printed[n] \in Seq(Lines) /\ \A p \in Nodes : p # n => printed'[p] = printed[p]
      BY <2>3 DEF TypeOK
    <3>. QED
      BY <3>1, ContainsAppend
  <2>6. \A p \in Nodes, l \in Lines :
          (Owned(p, l) => Owned(p, l)') /\ (Owned(p, l)' => Owned(p, l) \/ (p = n /\ l = line))
    BY <2>3, <2>5 DEF Owned
  <2>. QED
    BY <2>2, <2>3, <2>4, <2>6, RelayingAdds
<1>3. CASE UNCHANGED <<messageQueue, taken, typed, printed>>
  BY <1>3 DEF Relaying, Relays, Owned
<1>4. ASSUME NEW n \in Nodes, ServerStep(n), ~TypeLine(n) PROVE UNCHANGED <<messageQueue, taken, typed, printed>>
  BY <1>4 DEF ServerStep, StartRoot, Register, ConnectAnswered, ConnectTimesOut, ConnectFails, Quit, history
<1>5. ASSUME NEW n \in Nodes, NEW p \in Nodes, SendMessage(n, p) \/ SendFails(n, p)
      PROVE  UNCHANGED <<messageQueue, taken, typed, printed>>
  BY <1>5 DEF SendMessage, SendFails, history
<1>6. ASSUME NEW n \in Nodes, NEW d, IgnoreMessage(n, d) \/ CountConfirm(n, d) \/ AcceptRegistration(n, d) \/ IgnoreName(n, d)
      PROVE  UNCHANGED <<messageQueue, taken, typed, printed>>
  BY <1>6 DEF IgnoreMessage, CountConfirm, AcceptRegistration, IgnoreName, history
<1>7. ASSUME NEW n \in Nodes, CheckerStep(n) PROVE UNCHANGED <<messageQueue, taken, typed, printed>>
  BY <1>7 DEF CheckerStep, CheckRemoves, CheckResends, CheckDone, history
<1>8. ASSUME UNCHANGED vars \/ \E d : Lose(d) PROVE UNCHANGED <<messageQueue, taken, typed, printed>>
  BY <1>8 DEF vars, Lose, history
<1>. QED
  BY <1>1, <1>2, <1>3, <1>4, <1>5, <1>6, <1>7, <1>8, TakeKeepsRelaying DEF Next, SenderStep, RecieverStep

LEMMA InitHeard == Init => Heard /\ Relaying
<1>. SUFFICES ASSUME Init PROVE Heard /\ Relaying
  OBVIOUS
<1>1. \A x : ~BagIn(x, network)
  BY DEF Init, NothingSaid, EmptyBag, SetToBag, BagIn, BagToSet
<1>2. /\ \A n \in Nodes : /\ nodes[n] = <<>> /\ messageQueue[n] = <<>> /\ taken[n] = <<>> /\ printed[n] = <<>>
                          /\ sending[n].rest = <<>> /\ phase[n] = "off" /\ typed[n] = 0
      /\ \A p, n \in Nodes : \A u, l : ~Kept(p, n, u, l)
  BY InitCarries DEF Init, NothingSaid, Idle, Carried
<1>3. Heard
  BY <1>1, <1>2, EmptyContains DEF Heard, Traffic, Unheard
<1>4. \A n \in Nodes, l \in Lines : ~Owned(n, l)
  <2>1. \A l \in Lines : l.k \in Nat /\ l.k > 0
    BY LineParts DEF Lines
  <2>. QED
    BY <1>2, <2>1, EmptyContains DEF Owned
<1>5. Relaying
  BY <1>2, <1>4, EmptyContains DEF Relaying, Relays
<1>. QED
  BY <1>3, <1>5

-----------------------------------------------------------------------------
(* The theorems                                                             *)

LEMMA InvHolds == Spec => []Inv
<1>1. Init => Inv
  <2>. SUFFICES ASSUME Init PROVE Inv
    OBVIOUS
  <2>1. Numbers /\ Agree
    <3>1. \A p \in Nodes : \A n, u, l : ~Carried(p, n, u, l)
      BY InitCarries
    <3>2. \A p, n \in Nodes : recieved[n][p] = 1 /\ sent[p][n] = 0
      BY DEF Init, NothingSaid
    <3>. QED
      BY <3>1, <3>2 DEF Numbers, Agree
  <2>. QED
    BY <2>1, InitTypes, InitForest, InitFlow, InitReceipts DEF Inv
<1>2. Inv /\ [Next]_vars => Inv'
  <2>. SUFFICES ASSUME Inv, [Next]_vars PROVE Inv'
    OBVIOUS
  <2>1. TypeOK'
    BY TypesNext DEF Inv
  <2>2. Forest' /\ Numbers' /\ Agree'
    BY <2>1, ForestNext, NumbersNext DEF Inv
  <2>3. Flow'
    BY FlowNext DEF Inv
  <2>4. Receipts'
    BY BalanceNext, AnsweredNext, LatestNext, ChargeNext DEF Inv, Receipts, Forest
  <2>. QED
    BY <2>1, <2>2, <2>3, <2>4 DEF Inv
<1>. QED
  BY <1>1, <1>2, PTL DEF Spec

(* Every variable of every program keeps its type: numbers, queues, tasks   *)
(* and datagrams are what the handlers of Sender, Reciever and Checker make *)
(* of them, and no author runs over his lines.                              *)
THEOREM TypesAreKept == Spec => []TypeOK
BY InvHolds, PTL DEF Inv

(* A line is printed once, and not where it was typed, unless the send() of *)
(* a confirm threw: whatever is lost, resent or left out, and whoever joins *)
(* or quits, relaying over a forest makes no echo and no duplicate.         *)
THEOREM NoEchoNoDuplicate == Spec => []PrintedOnce
<1>1. Inv => PrintedOnce
  <2>. SUFFICES ASSUME Inv, ~unconfirmed, NEW n \in Nodes, NEW i \in DOMAIN printed[n], NEW j \in DOMAIN printed[n]
                PROVE  printed[n][i].by # n /\ (printed[n][i] = printed[n][j] => i = j)
    BY DEF PrintedOnce
  <2>1. printed[n] \in Seq(Lines) /\ i \in Nat /\ j \in Nat
    BY DEF Inv, TypeOK
  <2>2. \A x \in DOMAIN printed[n] : printed[n][x] \in Lines /\ printed[n][x].k \in Nat /\ Contains(printed[n], printed[n][x])
    BY <2>1, LineParts DEF Contains
  <2>3. printed[n][i].by # n
    <3>1. PICK p \in Nodes : Adjacent(p, n) /\ printed[n][i].by \in Side(p, n)
      BY <2>2 DEF Inv, Flow, Came
    <3>. QED
      BY <3>1, TwoSides
  <2>4. \A x, y \in DOMAIN printed[n] : x < y => printed[n][x] # printed[n][y]
    <3>. SUFFICES ASSUME NEW x \in DOMAIN printed[n], NEW y \in DOMAIN printed[n], x < y, printed[n][x] = printed[n][y]
                  PROVE  FALSE
      OBVIOUS
    <3>1. Before(printed[n][x], printed[n][y])
      BY DEF Inv, Flow, PrintOrder
    <3>2. printed[n][x].k < printed[n][y].k
      BY <3>1, Zenon DEF Before
    <3>. QED
      BY <2>2, <3>2
  <2>. QED
    BY <2>1, <2>3, <2>4
<1>. QED
  BY <1>1, InvHolds, PTL

(* The lines of an author come in the order he typed them, at every program *)
(* and over any number of relays, confirms that could not be sent included. *)
THEOREM AuthorsAreInOrder == Spec => []AuthorsOrder
<1>1. Inv => AuthorsOrder
  BY DEF Inv, Flow, PrintOrder, Before, AuthorsOrder
<1>. QED
  BY <1>1, InvHolds, PTL

(* A program that took a line from its queue answers for it to every        *)
(* neighbour it has had since, until the neighbour printed it: the Checker  *)
(* drops no task early, however confirms are counted.                       *)
THEOREM CustodyIsKept == Spec => []Custody
<1>1. Inv => Custody
  <2>. SUFFICES ASSUME Inv, ~threw, NEW n \in Nodes, NEW p \in Nodes, Contains(nodes[n], p),
                       NEW j \in (since[n][p] + 1)..Len(taken[n]), taken[n][j].from # p
                PROVE  \/ Contains(printed[p], taken[n][j].line)
                       \/ \E i \in DOMAIN checkQueue[n] :
                            checkQueue[n][i].to = p /\ checkQueue[n][i].line = taken[n][j].line
                       \/ j = Len(taken[n]) /\ Contains(sending[n].rest, p)
    BY DEF Custody
  <2>1. Answers(n, p, j)
    BY Zenon DEF Inv, Receipts, Charge
  <2>. QED
    BY <2>1 DEF Answers, Kept, Waits
<1>. QED
  BY <1>1, InvHolds, PTL

LEMMA AllHolds == Spec => [](Inv /\ Heard /\ Relaying)
<1>1. Init => Heard /\ Relaying
  BY InitHeard
<1>2. Inv /\ Inv' /\ Heard /\ Relaying /\ [Next]_vars => (Heard /\ Relaying)'
  BY TrafficNext, UnheardNext, RelayingNext DEF Inv, Heard
<1>. QED
  BY <1>1, <1>2, InvHolds, PTL DEF Spec

(* When all is said every line typed has been printed by everybody, in any  *)
(* tree: the programs that joined before it was taken relay it to all       *)
(* others, and no program works that its parent has not heard of.           *)
THEOREM AllIsDelivered ==
  ASSUME NEW root \in Nodes, Below(root) = Nodes
  PROVE  Spec => []SettledMeansDelivered
<1>1. Inv /\ Heard /\ Relaying /\ Custody => SettledMeansDelivered
  <2>. SUFFICES ASSUME Inv, Heard, Relaying, Custody, Settled, HaveTheirParents, JoinedBeforeTheFirstLine, ~threw,
                       NEW l \in Lines, l.k <= typed[l.by]
                PROVE  \A n \in Nodes \ {l.by} : Contains(printed[n], l)
    BY DEF SettledMeansDelivered
  <2>. DEFINE S == {x \in Nodes : Owned(x, l)}
  <2>1. l.by \in S
    BY LineParts DEF Owned
  <2>2. ASSUME NEW n \in Nodes, NEW p \in Nodes, Adjacent(p, n) PROVE Contains(nodes[n], p)
    <3>1. CASE Parent[n] = p
      BY <3>1, TreeAssumption DEF HaveTheirParents, TreeAssumption
    <3>2. CASE Parent[p] = n
      <4>1. ~Doomed(p)
        <5>1. \A x \in Nodes : ~Lost(x)
          BY TreeAssumption DEF Lost, Settled, HaveTheirParents, TreeAssumption
        <5>. QED
          BY <5>1, BelowItself DEF Doomed
      <4>. QED
        <5>1. Contains(nodes[p], n) /\ phase[p] = "working" /\ ~removed
          BY <3>2, TreeAssumption DEF HaveTheirParents, Settled, TreeAssumption
        <5>. QED
          BY <3>2, <4>1, <5>1 DEF Heard, Unheard
    <3>. QED
      BY <2>2, <3>1, <3>2 DEF Adjacent
  <2>3. ASSUME NEW n \in S, NEW p \in Nodes, Adjacent(p, n) PROVE p \in S
    <3>1. PICK m \in Messages : m.line = l /\ Relays(n, m)
      BY DEF Relaying
    <3>2. messageQueue[n] = <<>> /\ checkQueue[n] = <<>> /\ sending[n].rest = <<>>
      BY DEF Settled, Idle
    <3>3. PICK j \in 1..Len(taken[n]) : taken[n][j] = m
      BY <3>1, <3>2, EmptyContains DEF Relays, Contains
    <3>4. CASE m.from = p
      BY <3>1, <3>4 DEF Relaying
    <3>5. CASE m.from # p
      <4>1. Contains(nodes[n], p) /\ j \in (since[n][p] + 1)..Len(taken[n])
        BY <2>2, <2>3, <3>3 DEF JoinedBeforeTheFirstLine
      <4>2. Contains(printed[p], l)
        BY <3>1, <3>2, <3>3, <3>5, <4>1, EmptyContains DEF Custody
      <4>. QED
        BY <4>2 DEF Owned
    <3>. QED
      BY <3>4, <3>5
  <2>4. S = Nodes
    <3>1. Closed(S) /\ Closed(Nodes \ S)
      BY <2>3 DEF Closed, Adjacent
    <3>2. root \in S
      BY <2>1, <3>1, BelowIsLeast
    <3>. QED
      BY <3>1, <3>2, BelowIsLeast
  <2>. QED
    BY <2>4 DEF Owned
<1>. QED
  BY <1>1, AllHolds, CustodyIsKept, PTL
===============================================================================
