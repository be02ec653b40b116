--------------------------- MODULE MessageFeedProofs ---------------------------
(***************************************************************************)
(* Proofs about MessageFeed for any handlers and readers, any page size    *)
(* and any number of messages.  Counts, which holds always, says that the  *)
(* counter lags behind the create() that have begun.  Orderly holds while  *)
(* no two create() have been at work at the same time: the keys are then   *)
(* an initial part of the numbers, each with the message of that id, and   *)
(* every reader asks for a range of them that continues what it has.       *)
(***************************************************************************)
EXTENDS MessageFeed, FiniteSetTheorems, FunctionTheorems, SequenceTheorems, TLAPS

(* The create() that have begun and not ended.                              *)
Active == {p \in Posters : post[p] # "idle"}

(* The counter, and what a create() is about to write to it, leave room for *)
(* those at work.                                                           *)
Counts ==
  /\ IsFiniteSet(Active)
  /\ currID + Cardinality(Active) <= created
  /\ \A p \in Posters :
       /\ post[p] = "writeCount" => reg[p] + Cardinality(Active) <= created
       /\ post[p] = "put" => reg[p] \in Keys
       /\ post[p] \in {"key", "put"} => message[p] \in Message

(* The Updater asks for no more than there can be.                          *)
Window ==
  \A l \in Listeners : at[l] \in {"start", "end", "collect"} => offset[l] + count[l] <= MaxMessages

(* A stream has begun with keys that are there: none is ever removed.       *)
Seen == \A r \in Readers : begun[r] \subseteq Stored

Types == TypeOK /\ Counts /\ Window /\ Seen

-----------------------------------------------------------------------------
Alone == \A p, q \in Posters : post[p] # "idle" /\ post[q] # "idle" => p = q

(* The message and the counter that a create() knows of are the latest.     *)
InStep ==
  \A p \in Posters :
    /\ post[p] \in {"key", "put"} => message[p].id = currID
    /\ post[p] \in {"put", "writeCount"} => reg[p] = currID

(* The map holds what is counted, and one more just before it is counted.   *)
Filled ==
  \A k \in Keys :
    /\ messageMap[k] # None <=>
         k < currID \/ (k = currID /\ \E p \in Posters : post[p] \in {"readCount", "writeCount"})
    /\ messageMap[k] # None => messageMap[k].id = k

(* The range of a getAll() lies in what was counted when it was read, and   *)
(* the stream over the map began with all of it.                            *)
Ranges ==
  \A r \in Readers :
    /\ at[r] \in {"end", "collect"} => start[r] <= currID /\ start[r] <= offset[r]
    /\ at[r] = "collect" =>
         /\ start[r] <= end[r] /\ end[r] <= offset[r] + count[r]
         /\ 0..(end[r] - 1) \subseteq begun[r] /\ end[r] <= currID

IsPrefix(s) == \A j \in DOMAIN s : s[j].id = j - 1

(* A page that is asked for does not begin before what the client has.      *)
Pages ==
  \A r \in Pagers : ~late[r] =>
    /\ IsPrefix(list[r]) /\ Len(list[r]) <= currID
    /\ at[r] \in {"start", "end", "collect"} => Len(list[r]) <= offset[r] /\ count[r] = PageSize
    /\ at[r] \in {"end", "collect"} /\ Len(list[r]) = offset[r] => start[r] = offset[r]

(* What is behind the Updater has been sent or missed, or is sent at once.  *)
Pushes ==
  \A l \in Listeners :
    /\ at[l] = "first" => 0..(n[l] - 1) \subseteq begun[l]
    /\ at[l] \in {"start", "end", "collect"} => offset[l] = n[l]
    /\ at[l] = "collect" =>
         \A k \in offset[l]..(offset[l] + count[l] - 1) : k < end[l] \/ k \in missed[l]
    /\ at[l] \in {"sleep", "start", "end", "collect"} =>
         \A k \in 0..(n[l] - 1) : k \in missed[l] \/ Sent(l, k)

Orderly == Alone /\ InStep /\ Filled /\ Ranges /\ Pages /\ Pushes /\ \A r \in Readers : at[r] # "dead"

Inv == Types /\ (~overlap => Orderly)

-----------------------------------------------------------------------------
(* Sorting                                                                  *)

(* The order of the messages is total and strict.                           *)
LEMMA Order ==
  ASSUME NEW a \in Message, NEW b \in Message, NEW c \in Message
  PROVE  /\ ~Before(a, a)
         /\ Before(a, b) \/ Before(b, a) \/ a = b
         /\ Before(a, b) /\ Before(b, c) => Before(a, c)
  BY FeedAssumption DEF FeedAssumption, Message, Keys, Before

(* Each message of a finite set has a place of its own.                     *)
LEMMA OwnPlaces ==
  ASSUME NEW S, IsFiniteSet(S), S \subseteq Message
  PROVE  /\ Cardinality(S) \in Nat
         /\ \A m \in S : Place(m, S) \in 1..Cardinality(S)
         /\ \A m, o \in S : Place(m, S) = Place(o, S) => m = o
<1>. DEFINE Lower(m) == {o \in S : Before(o, m)}
<1>1. Cardinality(S) \in Nat
  BY FS_CardinalityType
<1>2. ASSUME NEW m \in S
      PROVE  /\ IsFiniteSet(Lower(m)) /\ Cardinality(Lower(m)) \in Nat
             /\ Cardinality(Lower(m)) < Cardinality(S)
  <2>1. Lower(m) \subseteq S /\ m \notin Lower(m)
    BY Order
  <2>2. IsFiniteSet(Lower(m)) /\ Cardinality(Lower(m)) <= Cardinality(S)
        /\ Cardinality(Lower(m)) # Cardinality(S)
    BY <2>1, FS_Subset
  <2>3. Cardinality(Lower(m)) \in Nat
    BY <2>2, FS_CardinalityType
  <2>. QED
    BY <1>1, <2>2, <2>3
<1>3. ASSUME NEW m \in S, NEW o \in S, Before(m, o)
      PROVE  Cardinality(Lower(m)) < Cardinality(Lower(o))
  <2>1. Lower(m) \subseteq Lower(o) /\ m \in Lower(o) /\ m \notin Lower(m)
    BY <1>3, Order
  <2>2. /\ IsFiniteSet(Lower(o)) /\ Cardinality(Lower(o)) \in Nat
        /\ Cardinality(Lower(m)) \in Nat
    BY <1>2
  <2>. HIDE DEF Lower
  <2>3. Cardinality(Lower(m)) <= Cardinality(Lower(o)) /\ Cardinality(Lower(m)) # Cardinality(Lower(o))
    BY <2>1, <2>2, FS_Subset
  <2>. QED
    BY <2>2, <2>3
<1>4. \A m \in S : Place(m, S) = Cardinality(Lower(m)) + 1
  BY DEF Place
<1>. HIDE DEF Lower
<1>5. ASSUME NEW m \in S PROVE Place(m, S) \in 1..Cardinality(S)
  BY <1>1, <1>2, <1>4
<1>6. ASSUME NEW m \in S, NEW o \in S, Place(m, S) = Place(o, S) PROVE m = o
  <2>1. Cardinality(Lower(m)) = Cardinality(Lower(o))
    BY <1>2, <1>4, <1>6
  <2>2. ~Before(m, o) /\ ~Before(o, m)
    BY <1>2, <1>3, <2>1
  <2>. QED
    BY <2>2, Order
<1>. QED
  BY <1>1, <1>5, <1>6

(* Sorted() is a sequence of all messages of the set, each at its place.    *)
LEMMA SortedPlaces ==
  ASSUME NEW S, IsFiniteSet(S), S \subseteq Message
  PROVE  /\ Sorted(S) \in Seq(Message) /\ Len(Sorted(S)) = Cardinality(S)
         /\ Cardinality(S) \in Nat
         /\ \A m \in S : Place(m, S) \in DOMAIN Sorted(S) /\ Sorted(S)[Place(m, S)] = m
<1>. DEFINE size == Cardinality(S)
<1>1. /\ size \in Nat
      /\ \A m \in S : Place(m, S) \in 1..size
      /\ \A m, o \in S : Place(m, S) = Place(o, S) => m = o
  BY OwnPlaces
<1>2. \A j \in 1..size : \E m \in S : Place(m, S) = j
  <2>. DEFINE place == [m \in S |-> Place(m, S)]
  <2>1. place \in Injection(S, 1..size)
    BY <1>1 DEF Injection, IsInjective
  <2>2. IsFiniteSet(1..size) /\ Cardinality(1..size) = size
    BY <1>1, FS_Interval
  <2>3. place \in Surjection(S, 1..size)
    BY <2>1, <2>2, FS_Injection
  <2>. QED
    BY <2>3 DEF Surjection
<1>3. \A j \in 1..size : Sorted(S)[j] \in S /\ Place(Sorted(S)[j], S) = j
  BY <1>2 DEF Sorted
<1>4. Sorted(S) \in [1..size -> Message]
  BY <1>3 DEF Sorted
<1>5. Sorted(S) \in Seq(Message) /\ Len(Sorted(S)) = size
  BY <1>1, <1>4
<1>6. ASSUME NEW m \in S PROVE Place(m, S) \in DOMAIN Sorted(S) /\ Sorted(S)[Place(m, S)] = m
  BY <1>1, <1>3, <1>4
<1>. QED
  BY <1>1, <1>5, <1>6

(* Messages of different ids are at least as many as the ids they include.   *)
LEMMA IdsCount ==
  ASSUME NEW S, IsFiniteSet(S), S \subseteq Message,
         NEW b \in Nat, \A k \in 0..(b - 1) : \E m \in S : m.id = k
  PROVE  b <= Cardinality(S)
<1>. DEFINE T == {m \in S : m.id \in 0..(b - 1)}
            g == [m \in T |-> m.id]
<1>1. IsFiniteSet(T) /\ Cardinality(T) <= Cardinality(S)
  BY FS_Subset
<1>2. g \in Surjection(T, 0..(b - 1))
  <2>1. g \in [T -> 0..(b - 1)]
    OBVIOUS
  <2>2. \A k \in 0..(b - 1) : \E m \in T : g[m] = k
    OBVIOUS
  <2>. HIDE DEF g, T
  <2>. QED
    BY <2>1, <2>2 DEF Surjection
<1>3. Cardinality(0..(b - 1)) = b
  BY FS_Interval
<1>. HIDE DEF g, T
<1>4. Cardinality(0..(b - 1)) <= Cardinality(T)
  BY <1>1, <1>2, FS_Surjection
<1>5. Cardinality(T) \in Nat /\ Cardinality(S) \in Nat
  BY <1>1, FS_CardinalityType
<1>. QED
  BY <1>1, <1>3, <1>4, <1>5

(* Where ids are not repeated, as many messages come before one as its id   *)
(* says if all lower ids are there.                                         *)
LEMMA PlaceIsId ==
  ASSUME NEW S, S \subseteq Message, \A x, y \in S : x.id = y.id => x = y,
         NEW m \in S, \A k \in 0..(m.id - 1) : \E x \in S : x.id = k
  PROVE  Place(m, S) = m.id + 1
<1>. DEFINE T == {o \in S : Before(o, m)}
            g == [o \in T |-> o.id]
<1>1. m.id \in Nat /\ \A x \in S : x.id \in Nat
  BY FeedAssumption DEF FeedAssumption, Message, Keys
<1>2. \A x \in S : Before(x, m) <=> x.id < m.id
  <2>1. ASSUME NEW x \in S PROVE Before(x, m) <=> x.id < m.id
    <3>1. CASE x.id = m.id
      <4>1. x = m
        BY <3>1
      <4>2. ~Before(m, m)
        BY Order
      <4>. QED
        BY <1>1, <4>1, <4>2
    <3>2. CASE x.id # m.id
      BY <3>2 DEF Before
    <3>. QED
      BY <3>1, <3>2
  <2>. QED
    BY <2>1
<1>3. g \in Bijection(T, 0..(m.id - 1))
  <2>1. g \in [T -> 0..(m.id - 1)]
    BY <1>1, <1>2
  <2>2. \A x, y \in T : g[x] = g[y] => x = y
    OBVIOUS
  <2>3. \A k \in 0..(m.id - 1) : \E x \in T : g[x] = k
    BY <1>1, <1>2
  <2>. HIDE DEF g, T
  <2>. QED
    BY <2>1, <2>2, <2>3 DEF Bijection, Injection, Surjection, IsInjective
<1>4. IsFiniteSet(0..(m.id - 1)) /\ Cardinality(0..(m.id - 1)) = m.id
  <2>1. PICK b \in Nat : b = m.id
    BY <1>1
  <2>2. IsFiniteSet(0..(b - 1)) /\ Cardinality(0..(b - 1)) = b
    BY FS_Interval
  <2>. QED
    BY <2>1, <2>2
<1>. HIDE DEF g, T
<1>5. Cardinality(T) = m.id
  <2>1. ExistsBijection(T, 0..(m.id - 1))
    BY <1>3 DEF ExistsBijection
  <2>2. ExistsBijection(0..(m.id - 1), T)
    BY <2>1, Fun_ExistsBijSymmetric
  <2>. QED
    BY <1>4, <2>2, FS_Bijection
<1>. QED
  BY <1>5 DEF Place, T

-----------------------------------------------------------------------------
(* Streams                                                                  *)

LEMMA KeysAreFinite ==
  /\ IsFiniteSet(Keys) /\ Cardinality(Keys) = MaxMessages /\ MaxMessages \in Nat /\ Keys \subseteq Nat
  /\ IsFiniteSet(Stored) /\ Size \in 0..MaxMessages
<1>1. IsFiniteSet(Keys) /\ Cardinality(Keys) = MaxMessages /\ MaxMessages \in Nat
  BY FeedAssumption, FS_Interval DEF FeedAssumption, Keys
<1>2. Stored \subseteq Keys
  BY DEF Stored
<1>3. IsFiniteSet(Stored) /\ Size <= MaxMessages
  BY <1>1, <1>2, FS_Subset DEF Size
<1>4. Size \in Nat
  BY <1>3, FS_CardinalityType DEF Size
<1>. QED
  BY <1>1, <1>3, <1>4 DEF Keys

(* What a stream has collected is sorted, and holds what it began with.     *)
LEMMA StreamIsSorted ==
  ASSUME Types, NEW r \in Readers, NEW all \in Streams(r)
  PROVE  \E I \in SUBSET Stored :
           /\ begun[r] \subseteq I /\ IsFiniteSet(I)
           /\ IsFiniteSet({messageMap[k] : k \in I}) /\ {messageMap[k] : k \in I} \subseteq Message
           /\ all = Sorted({messageMap[k] : k \in I})
<1>1. PICK K \in SUBSET (Stored \ begun[r]) : all = Sorted({messageMap[k] : k \in begun[r] \cup K})
  BY DEF Streams
<1>. DEFINE I == begun[r] \cup K
<1>2. I \subseteq Stored
  BY DEF Types, Seen
<1>3. IsFiniteSet(I)
  BY <1>2, KeysAreFinite, FS_Subset
<1>4. \A k \in I : messageMap[k] \in Message
  BY <1>2 DEF Types, TypeOK, Stored
<1>5. IsFiniteSet({messageMap[k] : k \in I})
  <2>. DEFINE g == [k \in I |-> messageMap[k]]
  <2>1. g \in Surjection(I, {messageMap[k] : k \in I})
    BY DEF Surjection
  <2>. QED
    BY <1>3, <2>1, FS_Surjection
<1>. QED
  BY <1>1, <1>2, <1>3, <1>4, <1>5

LEMMA StreamIsTyped ==
  ASSUME Types, NEW r \in Readers, NEW all \in Streams(r)
  PROVE  /\ all \in Seq(Message)
         /\ Fits(r, all) => /\ SubList(r, all) \in Seq(Message)
                            /\ Len(SubList(r, all)) = end[r] - start[r]
                            /\ \A j \in 1..(end[r] - start[r]) :
                                 start[r] + j \in DOMAIN all /\ SubList(r, all)[j] = all[start[r] + j]
<1>1. all \in Seq(Message)
  BY ZenonT(30), StreamIsSorted, SortedPlaces
<1>2. start[r] \in Nat /\ end[r] \in Nat
  BY KeysAreFinite DEF Types, TypeOK
<1>3. ASSUME Fits(r, all)
      PROVE  /\ SubList(r, all) \in Seq(Message)
             /\ Len(SubList(r, all)) = end[r] - start[r]
             /\ \A j \in 1..(end[r] - start[r]) :
                  start[r] + j \in DOMAIN all /\ SubList(r, all)[j] = all[start[r] + j]
  <2>1. start[r] <= end[r] /\ end[r] <= Len(all)
    BY <1>3 DEF Fits
  <2>2. \A j \in (start[r] + 1)..end[r] : j \in DOMAIN all /\ all[j] \in Message
    BY <1>1, <1>2, <2>1
  <2>3. /\ SubList(r, all) \in Seq(Message)
        /\ Len(SubList(r, all)) = IF start[r] + 1 <= end[r] THEN end[r] - (start[r] + 1) + 1 ELSE 0
        /\ \A j \in 1..(end[r] - (start[r] + 1) + 1) : SubList(r, all)[j] = all[start[r] + 1 + j - 1]
    BY <1>2, <2>2, SubSeqProperties DEF SubList
  <2>4. \A j \in 1..(end[r] - start[r]) :
          /\ j \in 1..(end[r] - (start[r] + 1) + 1) /\ start[r] + 1 + j - 1 = start[r] + j
          /\ start[r] + j \in (start[r] + 1)..end[r]
    BY <1>2
  <2>5. Len(SubList(r, all)) = end[r] - start[r]
    BY <1>2, <2>1, <2>3
  <2>. QED
    BY <2>2, <2>3, <2>4, <2>5
<1>. QED
  BY <1>1, <1>3

(* A stream that began with the first messages begins with them.            *)
LEMMA StreamIsOrdered ==
  ASSUME Types, Filled, NEW r \in Readers, NEW all \in Streams(r),
         NEW b \in Nat, 0..(b - 1) \subseteq begun[r]
  PROVE  b <= Len(all) /\ \A j \in 1..b : all[j].id = j - 1
<1>1. PICK I \in SUBSET Stored :
        /\ begun[r] \subseteq I /\ IsFiniteSet(I)
        /\ IsFiniteSet({messageMap[k] : k \in I}) /\ {messageMap[k] : k \in I} \subseteq Message
        /\ all = Sorted({messageMap[k] : k \in I})
  BY StreamIsSorted
<1>2. PICK S \in SUBSET Message : S = {messageMap[k] : k \in I}
  BY <1>1
<1>3. I \subseteq Nat /\ \A k \in I : messageMap[k] \in S /\ messageMap[k].id = k
  BY <1>1, <1>2, KeysAreFinite DEF Stored, Filled
<1>4. \A x, y \in S : x.id = y.id => x = y
  BY <1>2, <1>3
<1>5. \A k \in 0..(b - 1) : messageMap[k] \in S /\ messageMap[k].id = k
  BY <1>1, <1>3
<1>6. /\ Len(all) = Cardinality(S)
      /\ \A m \in S : all[Place(m, S)] = m
      /\ IsFiniteSet(S)
  BY <1>1, <1>2, SortedPlaces
<1>7. b <= Cardinality(S)
  BY <1>5, <1>6, IdsCount
<1>8. ASSUME NEW j \in 1..b PROVE all[j].id = j - 1
  <2>1. PICK m \in S : m.id = j - 1
    BY <1>5
  <2>2. \A k \in 0..(m.id - 1) : \E x \in S : x.id = k
    <3>1. \A k \in 0..(m.id - 1) : k \in 0..(b - 1)
      BY <2>1
    <3>. QED
      BY <1>5, <3>1
  <2>3. Place(m, S) = m.id + 1
    BY <1>4, <2>2, PlaceIsId
  <2>. QED
    BY <1>6, <2>1, <2>3
<1>. QED
  BY <1>6, <1>7, <1>8

-----------------------------------------------------------------------------
(* Types                                                                    *)

(* A create() that begins is one more at work, one that ends one less.      *)
LEMMA ActiveCount ==
  ASSUME TypeOK, IsFiniteSet(Active), NEW p \in Posters,
         post' = [post EXCEPT ![p] = post'[p]]
  PROVE  /\ Cardinality(Active) \in Nat /\ IsFiniteSet(Active')
         /\ post[p] = "idle" /\ post'[p] # "idle" => Cardinality(Active)' = Cardinality(Active) + 1
         /\ post[p] # "idle" /\ post'[p] = "idle" =>
              Cardinality(Active)' = Cardinality(Active) - 1 /\ Cardinality(Active) >= 1
         /\ post[p] # "idle" /\ post'[p] # "idle" =>
              Cardinality(Active)' = Cardinality(Active) /\ Cardinality(Active) >= 1
<1>1. Cardinality(Active) \in Nat
  BY FS_CardinalityType
<1>2. post[p] # "idle" => Cardinality(Active) >= 1
  <2>1. post[p] # "idle" => Active # {}
    BY DEF Active
  <2>. QED
    BY <1>1, <2>1, FS_EmptySet
<1>3. CASE post'[p] # "idle"
  <2>1. Active' = Active \cup {p}
    BY <1>3 DEF Active, TypeOK
  <2>2. IsFiniteSet(Active') /\ Cardinality(Active') =
          IF p \in Active THEN Cardinality(Active) ELSE Cardinality(Active) + 1
    BY <2>1, FS_AddElement
  <2>. QED
    BY <1>1, <1>2, <1>3, <2>2 DEF Active
<1>4. CASE post'[p] = "idle"
  <2>1. Active' = Active \ {p}
    BY <1>4 DEF Active, TypeOK
  <2>2. IsFiniteSet(Active') /\ Cardinality(Active') =
          IF p \in Active THEN Cardinality(Active) - 1 ELSE Cardinality(Active)
    BY <2>1, FS_RemoveElement
  <2>. QED
    BY <1>1, <1>2, <1>4, <2>2 DEF Active
<1>. QED
  BY <1>3, <1>4

LEMMA InitTypes == Init => Types
<1>. SUFFICES ASSUME Init PROVE Types
  OBVIOUS
<1>1. Active = {} /\ IsFiniteSet(Active) /\ Cardinality(Active) = 0
  BY FS_EmptySet DEF Active, Init
<1>2. TypeOK
  <2>1. 0 \in 0..MaxMessages /\ 0 \in 0..(PageSize + MaxMessages) /\ 0 \in 0..MaxLost /\ 0 \in Nat
    BY FeedAssumption DEF FeedAssumption
  <2>. USE <2>1 DEF Init
  <2>2. /\ messageMap \in [Keys -> Message \cup {None}] /\ currID \in 0..MaxMessages /\ created \in 0..MaxMessages
        /\ post \in [Posters -> {"idle", "key", "put", "readCount", "writeCount"}]
        /\ message \in [Posters -> Message \cup {None}] /\ reg \in [Posters -> 0..MaxMessages]
    OBVIOUS
  <2>3. /\ at \in [Readers -> {"away", "off", "first", "sleep", "start", "end", "collect", "dead"}]
        /\ i \in [Pagers -> Nat] /\ offset \in [Readers -> Nat] /\ count \in [Readers -> 0..(PageSize + MaxMessages)]
        /\ start \in [Readers -> 0..MaxMessages] /\ end \in [Readers -> 0..MaxMessages]
        /\ begun \in [Readers -> SUBSET Keys]
    OBVIOUS
  <2>4. /\ list \in [Readers -> Seq(Message)] /\ wire \in [Listeners -> Seq(Seq(Message))]
        /\ n \in [Listeners -> 0..MaxMessages]
    BY EmptySeq
  <2>5. /\ lost \in 0..MaxLost /\ overlap \in BOOLEAN /\ late \in [Pagers -> BOOLEAN]
        /\ missed \in [Listeners -> SUBSET Keys]
    OBVIOUS
  <2>. QED
    BY <2>2, <2>3, <2>4, <2>5 DEF TypeOK
<1>3. Counts
  BY <1>1 DEF Counts, Init
<1>. QED
  BY <1>2, <1>3 DEF Types, Init, Window, Seen, Readers

(* Handlers of POST.                                                        *)
LEMMA PostersAreTyped ==
  ASSUME Types, NEW p \in Posters, NewMessage(p) \/ Create(p)
  PROVE  Types'
<1>. USE DEF storage, call, client, history, Posts
<1>1. TypeOK /\ Counts /\ Window /\ Seen /\ IsFiniteSet(Active) /\ MaxMessages \in Nat
  BY FeedAssumption DEF Types, Counts, FeedAssumption
<1>2. /\ UNCHANGED <<at, i, offset, count, start, end, begun, list, wire, lost, n, late, missed>>
      /\ \E v \in {"idle", "key", "put", "readCount", "writeCount"} : post' = [post EXCEPT ![p] = v]
  BY DEF NewMessage, Create, ReadsKey, Puts, ReadsCount, WritesCount
<1>3. Window'
  BY <1>1, <1>2 DEF Window
<1>4. /\ currID \in Nat /\ created \in 0..MaxMessages /\ Cardinality(Active) \in Nat
      /\ currID + Cardinality(Active) <= created
      /\ \A q \in Posters : /\ reg[q] \in Nat
                            /\ post[q] = "writeCount" => reg[q] + Cardinality(Active) <= created
                            /\ post[q] = "put" => reg[q] \in Keys
                            /\ post[q] \in {"key", "put"} => message[q] \in Message
  BY <1>1, FS_CardinalityType DEF TypeOK, Counts
<1>5. CASE NewMessage(p)
  <2>0. post[p] = "idle" /\ post'[p] = "key" /\ post' = [post EXCEPT ![p] = post'[p]]
    BY <1>1, <1>5 DEF NewMessage, TypeOK
  <2>1. IsFiniteSet(Active') /\ Cardinality(Active)' = Cardinality(Active) + 1
    BY <1>1, <2>0, ActiveCount
  <2>2. created' = created + 1 /\ created' \in 1..MaxMessages /\ currID \in Keys
    BY <1>1, <1>4, <1>5 DEF NewMessage, Keys
  <2>3. [id |-> currID, by |-> created + 1] \in Message
    BY <2>2 DEF Message
  <2>4. TypeOK'
    BY <1>1, <1>2, <1>5, <2>2, <2>3 DEF TypeOK, NewMessage
  <2>5. Counts'
    BY <1>1, <1>4, <1>5, <2>1, <2>2, <2>3 DEF Counts, NewMessage, TypeOK
  <2>6. Seen'
    BY <1>1, <1>5 DEF NewMessage, Seen, Stored
  <2>. QED
    BY <1>3, <2>4, <2>5, <2>6 DEF Types
<1>6. CASE ReadsKey(p)
  <2>0. post[p] # "idle" /\ post'[p] = "put" /\ post' = [post EXCEPT ![p] = post'[p]]
    BY <1>1, <1>6 DEF ReadsKey, TypeOK
  <2>1. IsFiniteSet(Active') /\ Cardinality(Active)' = Cardinality(Active) /\ Cardinality(Active) >= 1
    BY <1>1, <2>0, ActiveCount
  <2>2. currID \in Keys /\ currID \in 0..MaxMessages
    BY <1>1, <1>4, <2>1 DEF Keys
  <2>4. TypeOK'
    BY <1>1, <1>2, <1>6, <2>2 DEF TypeOK, ReadsKey
  <2>5. Counts'
    BY <1>1, <1>4, <1>6, <2>1, <2>2 DEF Counts, ReadsKey, TypeOK
  <2>6. Seen'
    BY <1>1, <1>6 DEF ReadsKey, Seen, Stored
  <2>. QED
    BY <1>3, <2>4, <2>5, <2>6 DEF Types
<1>7. CASE Puts(p)
  <2>0. post[p] # "idle" /\ post'[p] = "readCount" /\ post' = [post EXCEPT ![p] = post'[p]]
    BY <1>1, <1>7 DEF Puts, TypeOK
  <2>1. IsFiniteSet(Active') /\ Cardinality(Active)' = Cardinality(Active) /\ Cardinality(Active) >= 1
    BY <1>1, <2>0, ActiveCount
  <2>2. reg[p] \in Keys /\ message[p] \in Message /\ message[p] # None
    BY <1>4, <1>7, FeedAssumption DEF Puts, FeedAssumption
  <2>4. TypeOK'
    BY <1>1, <1>2, <1>7, <2>2 DEF TypeOK, Puts
  <2>5. Counts'
    BY <1>1, <1>4, <1>7, <2>1 DEF Counts, Puts, TypeOK
  <2>6. Seen'
    BY <1>1, <1>7, <2>2 DEF Puts, Seen, Stored, TypeOK
  <2>. QED
    BY <1>3, <2>4, <2>5, <2>6 DEF Types
<1>8. CASE ReadsCount(p)
  <2>0. post[p] # "idle" /\ post'[p] = "writeCount" /\ post' = [post EXCEPT ![p] = post'[p]]
    BY <1>1, <1>8 DEF ReadsCount, TypeOK
  <2>1. IsFiniteSet(Active') /\ Cardinality(Active)' = Cardinality(Active) /\ Cardinality(Active) >= 1
    BY <1>1, <2>0, ActiveCount
  <2>4. TypeOK'
    BY <1>1, <1>2, <1>8 DEF TypeOK, ReadsCount
  <2>5. Counts'
    BY <1>1, <1>4, <1>8, <2>1 DEF Counts, ReadsCount, TypeOK
  <2>6. Seen'
    BY <1>1, <1>8 DEF ReadsCount, Seen, Stored
  <2>. QED
    BY <1>3, <2>4, <2>5, <2>6 DEF Types
<1>9. CASE WritesCount(p)
  <2>0. post[p] # "idle" /\ post'[p] = "idle" /\ post' = [post EXCEPT ![p] = post'[p]]
    BY <1>1, <1>9 DEF WritesCount, TypeOK
  <2>1. IsFiniteSet(Active') /\ Cardinality(Active)' = Cardinality(Active) - 1 /\ Cardinality(Active) >= 1
    BY <1>1, <2>0, ActiveCount
  <2>2. currID' = reg[p] + 1 /\ currID' + Cardinality(Active)' <= created /\ currID' \in 0..MaxMessages
    BY <1>1, <1>4, <1>9, <2>1 DEF WritesCount
  <2>4. TypeOK'
    BY <1>1, <1>2, <1>9, <2>2 DEF TypeOK, WritesCount
  <2>5. Counts'
    BY SMTT(30), <1>1, <1>4, <1>9, <2>1, <2>2 DEF Counts, WritesCount, TypeOK
  <2>6. Seen'
    BY <1>1, <1>9 DEF WritesCount, Seen, Stored
  <2>. QED
    BY <1>3, <2>4, <2>5, <2>6 DEF Types
<1>. QED
  BY <1>5, <1>6, <1>7, <1>8, <1>9 DEF Create

(* What no reader changes, and what a step of either kind leaves alone.     *)
LEMMA ReadersKeepTheMap ==
  ASSUME Types, UNCHANGED <<storage, posting>>
  PROVE  Counts' /\ UNCHANGED <<Stored, Size>>
BY DEF Types, Counts, storage, posting, Active, Stored, Size

(* getAll() with a range.                                                   *)
LEMMA GetAllIsTyped ==
  ASSUME Types, NEW r \in Readers, GetAll(r)
  PROVE  Types'
<1>. USE DEF storage, posting, call, client, history, Goes, Asks, Returns
<1>1. TypeOK /\ Counts /\ Window /\ Seen /\ MaxMessages \in Nat /\ Counts' /\ Stored' = Stored
  BY FeedAssumption, ReadersKeepTheMap
  DEF Types, Counts, FeedAssumption, GetAll, ReadsStart, ReadsEnd, Throws
<1>2. /\ offset[r] \in Nat /\ count[r] \in Nat /\ currID \in 0..MaxMessages
      /\ Lesser(offset[r], currID) \in 0..MaxMessages
      /\ Lesser(offset[r] + count[r], currID) \in 0..MaxMessages
      /\ Stored \subseteq Keys
  BY <1>1 DEF TypeOK, Lesser, Stored
<1>3. CASE ReadsStart(r)
  <2>1. TypeOK'
    BY <1>1, <1>2, <1>3 DEF TypeOK, ReadsStart
  <2>2. Window' /\ Seen'
    BY <1>1, <1>3 DEF TypeOK, ReadsStart, Window, Seen, Readers
  <2>. QED
    BY <1>1, <2>1, <2>2 DEF Types
<1>4. CASE ReadsEnd(r)
  <2>1. r \in Listeners =>
          {k \in offset[r]..(offset[r] + count[r] - 1) : k >= currID} \subseteq Keys
    BY <1>1, <1>2, <1>4 DEF Window, ReadsEnd, Keys
  <2>2. missed' \in [Listeners -> SUBSET Keys]
    BY <1>1, <1>4, <2>1 DEF TypeOK, ReadsEnd
  <2>3. TypeOK'
    BY <1>1, <1>2, <1>4, <2>2 DEF TypeOK, ReadsEnd
  <2>4. Window' /\ Seen'
    BY <1>1, <1>4 DEF TypeOK, ReadsEnd, Window, Seen, Readers
  <2>. QED
    BY <1>1, <2>3, <2>4 DEF Types
<1>5. CASE Throws(r)
  <2>1. 0 \in 0..MaxMessages /\ 0 \in 0..(PageSize + MaxMessages) /\ 0 \in Nat
    BY FeedAssumption DEF FeedAssumption
  <2>2. TypeOK'
    BY <1>1, <1>5, <2>1 DEF TypeOK, Throws
  <2>3. Window' /\ Seen'
    BY <1>1, <1>5 DEF TypeOK, Throws, Window, Seen, Readers
  <2>. QED
    BY <1>1, <2>2, <2>3 DEF Types
<1>. QED
  BY <1>3, <1>4, <1>5 DEF GetAll

(* What a client is about to ask for.                                       *)
LEMMA AskingIsTyped ==
  ASSUME TypeOK, NEW r \in Pagers, NEW page \in Nat, NEW o \in Nat,
         EndsRound(r) \/ AsksPage(r, page, o)
  PROVE  /\ at' \in [Readers -> {"away", "off", "first", "sleep", "start", "end", "collect", "dead"}]
         /\ i' \in [Pagers -> Nat] /\ offset' \in [Readers -> Nat]
         /\ count' \in [Readers -> 0..(PageSize + MaxMessages)]
<1>1. /\ 0 \in 0..(PageSize + MaxMessages) /\ 0 \in Nat
      /\ PageSize \in 0..(PageSize + MaxMessages)
  BY FeedAssumption DEF FeedAssumption
<1>2. CASE EndsRound(r)
  BY <1>1, <1>2 DEF TypeOK, EndsRound, Goes, Asks
<1>3. CASE AsksPage(r, page, o)
  BY <1>1, <1>3 DEF TypeOK, AsksPage, Goes, Asks
<1>. QED
  BY <1>2, <1>3

(* Clients that ask for pages.                                              *)
LEMMA PagersAreTyped ==
  ASSUME Types, NEW r \in Pagers,
         LogsIn(r) \/ StartsRound(r) \/ GetsPage(r) \/ LosesPage(r)
  PROVE  Types'
<1>. USE DEF storage, posting, call, client, history, Goes, Asks, Returns, AsksPage, EndsRound
<1>1. /\ TypeOK /\ Counts /\ Window /\ Seen /\ MaxMessages \in Nat /\ Counts' /\ Stored' = Stored
      /\ r \in Readers /\ r \notin Listeners
  BY FeedAssumption, ReadersKeepTheMap
  DEF Types, Counts, FeedAssumption, LogsIn, StartsRound, GetsPage, LosesPage, Readers
<1>2. /\ 0 \in 0..MaxMessages /\ 0 \in 0..(PageSize + MaxMessages) /\ 0 \in Nat
      /\ PageSize \in Nat /\ PageSize \in 0..(PageSize + MaxMessages)
      /\ offset[r] \in Nat /\ offset[r] + PageSize \in Nat /\ i[r] \in Nat /\ i[r] + 1 \in Nat
      /\ list[r] \in Seq(Message) /\ Len(list[r]) \in Nat
  BY <1>1, FeedAssumption DEF FeedAssumption, TypeOK
<1>3. CASE LogsIn(r)
  BY <1>1, <1>3 DEF Types, TypeOK, LogsIn, Window, Seen, Readers
<1>4. CASE StartsRound(r)
  <2>1. TypeOK'
    BY <1>1, <1>2, <1>4 DEF TypeOK, StartsRound
  <2>2. Window' /\ Seen'
    BY <1>1, <1>4 DEF TypeOK, StartsRound, Window, Seen, Readers
  <2>. QED
    BY <1>1, <2>1, <2>2 DEF Types
<1>5. CASE GetsPage(r)
  <2>1. PICK all \in Streams(r) :
          LET buffer == SubList(r, all) IN
          /\ Fits(r, all)
          /\ list' = [list EXCEPT ![r] = @ \o buffer]
          /\ late' = [late EXCEPT ![r] = @ \/ (Len(list[r]) < offset[r] /\ buffer # <<>>)]
          /\ IF buffer = <<>> THEN EndsRound(r) ELSE AsksPage(r, i[r] + 1, offset[r] + PageSize)
    BY <1>5 DEF GetsPage
  <2>2. SubList(r, all) \in Seq(Message)
    BY <1>1, <2>1, StreamIsTyped DEF Types
  <2>3. list[r] \o SubList(r, all) \in Seq(Message)
    BY <1>2, <2>2, ConcatProperties
  <2>4. list' \in [Readers -> Seq(Message)] /\ late' \in [Pagers -> BOOLEAN]
    BY <1>1, <2>1, <2>3 DEF TypeOK
  <2>5. /\ at' \in [Readers -> {"away", "off", "first", "sleep", "start", "end", "collect", "dead"}]
        /\ i' \in [Pagers -> Nat] /\ offset' \in [Readers -> Nat]
        /\ count' \in [Readers -> 0..(PageSize + MaxMessages)]
    <3>1. EndsRound(r) \/ AsksPage(r, i[r] + 1, offset[r] + PageSize)
      BY <2>1
    <3>. QED
      BY <1>1, <1>2, <3>1, AskingIsTyped DEF TypeOK
  <2>6. TypeOK'
    BY <1>1, <1>2, <1>5, <2>4, <2>5 DEF TypeOK, GetsPage
  <2>7. Window' /\ Seen'
    BY ZenonT(30), <1>1, <1>5, <2>1 DEF TypeOK, GetsPage, Window, Seen, Readers
  <2>. QED
    BY <1>1, <2>6, <2>7 DEF Types
<1>6. CASE LosesPage(r)
  <2>0. lost' \in 0..MaxLost
    BY <1>1, <1>6, FeedAssumption DEF FeedAssumption, LosesPage, TypeOK
  <2>3. /\ at' \in [Readers -> {"away", "off", "first", "sleep", "start", "end", "collect", "dead"}]
        /\ i' \in [Pagers -> Nat] /\ offset' \in [Readers -> Nat]
        /\ count' \in [Readers -> 0..(PageSize + MaxMessages)]
    <3>1. EndsRound(r) \/ AsksPage(r, 0, offset[r])
      BY <1>6 DEF LosesPage
    <3>. QED
      BY <1>1, <1>2, <3>1, AskingIsTyped DEF TypeOK
  <2>1. TypeOK'
    BY <1>1, <1>2, <1>6, <2>0, <2>3 DEF TypeOK, LosesPage
  <2>2. Window' /\ Seen'
    BY <1>1, <1>6 DEF TypeOK, LosesPage, Window, Seen, Readers
  <2>. QED
    BY <1>1, <2>1, <2>2 DEF Types
<1>. QED
  BY <1>3, <1>4, <1>5, <1>6

(* Listeners and their Updaters.                                            *)
LEMMA ListenersAreTyped ==
  ASSUME Types, NEW l \in Listeners,
         Connects(l) \/ SendsAll(l) \/ SeesMore(l) \/ SendsNew(l) \/ ProcessMessage(l)
  PROVE  Types'
<1>. USE DEF storage, posting, call, client, history, Goes, Asks, Returns, Sends
<1>1. /\ TypeOK /\ Counts /\ Window /\ Seen /\ MaxMessages \in Nat /\ Counts' /\ Stored' = Stored
      /\ l \in Readers
  BY FeedAssumption, ReadersKeepTheMap
  DEF Types, Counts, FeedAssumption, Connects, SendsAll, SeesMore, SendsNew, ProcessMessage, Readers
<1>2. /\ 0 \in 0..MaxMessages /\ 0 \in 0..(PageSize + MaxMessages) /\ 0 \in Nat /\ PageSize \in Nat
      /\ Size \in 0..MaxMessages /\ n[l] \in 0..MaxMessages /\ Stored \subseteq Keys
  BY <1>1, FeedAssumption, KeysAreFinite DEF FeedAssumption, TypeOK, Stored
<1>3. CASE Connects(l)
  <2>1. TypeOK'
    BY <1>1, <1>2, <1>3 DEF TypeOK, Connects
  <2>2. Window' /\ Seen'
    BY <1>1, <1>3 DEF TypeOK, Connects, Window, Seen
  <2>. QED
    BY <1>1, <2>1, <2>2 DEF Types
<1>4. CASE SendsAll(l)
  <2>1. PICK all \in Streams(l) : wire' = [wire EXCEPT ![l] = Append(@, all)]
    BY <1>4 DEF SendsAll
  <2>2. all \in Seq(Message)
    BY <1>1, StreamIsTyped
  <2>3. wire' \in [Listeners -> Seq(Seq(Message))]
    BY <1>1, <2>1, <2>2 DEF TypeOK
  <2>4. TypeOK'
    BY <1>1, <1>2, <1>4, <2>3 DEF TypeOK, SendsAll
  <2>5. Window' /\ Seen'
    BY SMTT(30), <1>1, <1>4 DEF TypeOK, SendsAll, Window, Seen
  <2>. QED
    BY <1>1, <2>4, <2>5 DEF Types
<1>5. CASE SeesMore(l)
  <2>0. PICK size \in 0..MaxMessages : size = Size /\ n[l] < size
    BY <1>2, <1>5 DEF SeesMore
  <2>1. /\ Size - n[l] \in 0..(PageSize + MaxMessages) /\ n[l] \in Nat
        /\ n[l] + (Size - n[l]) <= MaxMessages
    BY <1>1, <1>2, <2>0
  <2>2. TypeOK'
    BY <1>1, <1>2, <1>5, <2>1 DEF TypeOK, SeesMore
  <2>3. Window' /\ Seen'
    BY <1>1, <1>5, <2>1 DEF TypeOK, SeesMore, Window, Seen, Readers
  <2>. QED
    BY <1>1, <2>2, <2>3 DEF Types
<1>6. CASE SendsNew(l)
  <2>1. PICK all \in Streams(l) :
          Fits(l, all) /\ wire' = [wire EXCEPT ![l] = Append(@, SubList(l, all))]
    BY <1>6 DEF SendsNew
  <2>2. SubList(l, all) \in Seq(Message)
    BY <1>1, <2>1, StreamIsTyped DEF Types
  <2>3. wire' \in [Listeners -> Seq(Seq(Message))]
    BY <1>1, <2>1, <2>2 DEF TypeOK
  <2>4. offset[l] + count[l] \in 0..MaxMessages
    BY <1>1, <1>6 DEF TypeOK, SendsNew, Window
  <2>5. TypeOK'
    BY <1>1, <1>2, <1>6, <2>3, <2>4 DEF TypeOK, SendsNew
  <2>6. Window' /\ Seen'
    BY SMTT(30), <1>1, <1>6 DEF TypeOK, SendsNew, Window, Seen
  <2>. QED
    BY <1>1, <2>5, <2>6 DEF Types
<1>7. CASE ProcessMessage(l)
  <2>1. wire[l] \in Seq(Seq(Message)) /\ wire[l] # <<>> /\ list[l] \in Seq(Message)
    BY <1>1, <1>7 DEF ProcessMessage, TypeOK
  <2>2. Head(wire[l]) \in Seq(Message) /\ Tail(wire[l]) \in Seq(Seq(Message))
    BY <2>1
  <2>3. list[l] \o Head(wire[l]) \in Seq(Message)
    BY <2>1, <2>2, ConcatProperties
  <2>4. TypeOK'
    BY <1>1, <1>7, <2>2, <2>3 DEF TypeOK, ProcessMessage
  <2>5. Window' /\ Seen'
    BY <1>1, <1>7 DEF ProcessMessage, Window, Seen
  <2>. QED
    BY <1>1, <2>4, <2>5 DEF Types
<1>. QED
  BY <1>3, <1>4, <1>5, <1>6, <1>7

LEMMA TypesNext == Types /\ [Next]_vars => Types'
<1>. SUFFICES ASSUME Types, [Next]_vars PROVE Types'
  OBVIOUS
<1>1. CASE UNCHANGED vars
  BY <1>1 DEF vars, storage, posting, call, client, history, Types, TypeOK, Counts, Window, Seen,
              Active, Stored
<1>2. Pagers \subseteq Readers /\ Listeners \subseteq Readers
  BY DEF Readers
<1>3. CASE Next
  BY <1>2, <1>3, PostersAreTyped, GetAllIsTyped, PagersAreTyped, ListenersAreTyped DEF Next, Page, Update
<1>. QED
  BY <1>1, <1>3

(* Every variable has its type: the counter stays behind the create() that  *)
(* have begun, however many run at the same time, and so does every range   *)
(* that getAll() computes from it.                                          *)
THEOREM TypeCorrect == Spec => []TypeOK
<1>1. Spec => []Types
  BY InitTypes, TypesNext, PTL DEF Spec
<1>2. Types => TypeOK
  BY DEF Types
<1>. QED
  BY <1>1, <1>2, PTL

-----------------------------------------------------------------------------
(* One create() at a time                                                   *)

NoneDead == \A r \in Readers : at[r] # "dead"

LEMMA InitOrderly == Init => Orderly
<1>. SUFFICES ASSUME Init PROVE Orderly
  OBVIOUS
<1>1. Alone /\ InStep /\ Filled /\ Ranges /\ NoneDead
  BY DEF Init, Alone, InStep, Filled, Ranges, NoneDead, Keys
<1>2. Pages
  BY DEF Init, Pages, IsPrefix, Readers
<1>3. Pushes
  BY DEF Init, Pushes, Readers
<1>. QED
  BY <1>1, <1>2, <1>3 DEF Orderly, NoneDead

(* What is stored are the first keys.                                       *)
LEMMA StoredAreFirst ==
  ASSUME Types, Filled
  PROVE  Stored = 0..(Size - 1)
<1>1. PICK c \in 0..MaxMessages : Stored = 0..(c - 1)
  <2>. USE DEF Types, TypeOK
  <2>1. CASE \E p \in Posters : post[p] \in {"readCount", "writeCount"}
    <3>1. Active # {}
      BY <2>1 DEF Active
    <3>2. Cardinality(Active) \in Nat /\ Cardinality(Active) # 0
      BY <3>1, FS_CardinalityType, FS_EmptySet DEF Counts
    <3>3. currID + 1 \in 0..MaxMessages
      BY <3>2, KeysAreFinite DEF Counts
    <3>4. \A k \in Keys : messageMap[k] # None <=> k < currID + 1
      <4>1. \A k \in Keys : messageMap[k] # None <=> k < currID \/ k = currID
        BY <2>1 DEF Filled
      <4>2. currID \in Nat /\ \A k \in Keys : k < currID \/ k = currID <=> k < currID + 1
        BY <3>3, KeysAreFinite
      <4>. QED
        BY <4>1, <4>2
    <3>5. PICK d \in 0..MaxMessages : d = currID + 1
      BY <3>3
    <3>6. Stored = 0..(d - 1)
      <4>1. \A k \in Keys : k \in Stored <=> k < d
        BY <3>4, <3>5 DEF Stored
      <4>2. Stored \subseteq Keys /\ MaxMessages \in Nat
        BY KeysAreFinite DEF Stored
      <4>3. 0..(d - 1) \subseteq Keys /\ \A k \in Keys : k < d <=> k \in 0..(d - 1)
        BY <4>2 DEF Keys
      <4>. QED
        BY <4>1, <4>2, <4>3
    <3>. QED
      BY <3>6
  <2>2. CASE ~\E p \in Posters : post[p] \in {"readCount", "writeCount"}
    <3>1. \A k \in Keys : messageMap[k] # None <=> k < currID
      BY <2>2 DEF Filled
    <3>2. Stored = 0..(currID - 1)
      BY <3>1, KeysAreFinite DEF Stored, Keys
    <3>. QED
      BY <3>2
  <2>. QED
    BY <2>1, <2>2
<1>2. Size = c
  BY <1>1, FS_Interval, KeysAreFinite DEF Size
<1>. QED
  BY <1>1, <1>2

(* A create() beside none.                                                  *)
LEMMA PostersAreOrderly ==
  ASSUME Types, ~overlap => Orderly, ~overlap', NEW p \in Posters, NewMessage(p) \/ Create(p)
  PROVE  Orderly'
<1>. USE DEF storage, call, client, history, Posts
<1>1. /\ TypeOK /\ Counts /\ ~overlap /\ Orderly /\ MaxMessages \in Nat
      /\ UNCHANGED <<at, i, offset, count, start, end, begun, list, wire, lost, n, late, missed>>
  <2>1. TypeOK /\ Counts /\ MaxMessages \in Nat
    BY FeedAssumption DEF Types, FeedAssumption
  <2>2. ~overlap /\ Orderly
    BY <2>1 DEF TypeOK, NewMessage, Create, ReadsKey, Puts, ReadsCount, WritesCount
  <2>3. UNCHANGED <<at, i, offset, count, start, end, begun, list, wire, lost, n, late, missed>>
    BY DEF NewMessage, Create, ReadsKey, Puts, ReadsCount, WritesCount
  <2>. QED
    BY <2>1, <2>2, <2>3
<1>2. currID \in Nat /\ currID' \in {currID, currID + 1}
  BY <1>1 DEF Orderly, InStep, TypeOK, NewMessage, Create, ReadsKey, Puts, ReadsCount, WritesCount
<1>3. Ranges' /\ NoneDead'
  BY <1>1, <1>2 DEF Orderly, Ranges, NoneDead, TypeOK
<1>4. Pages'
  BY <1>1, <1>2 DEF Orderly, Pages, IsPrefix, TypeOK, Readers
<1>5. Pushes'
  BY <1>1 DEF Orderly, Pushes, Sent, Has
<1>6. Alone' /\ InStep' /\ Filled'
  <2>. USE <1>1 DEF Orderly, TypeOK
  <2>1. CASE NewMessage(p)
    <3>1. \A q \in Posters : post[q] = "idle"
      BY <2>1 DEF NewMessage
    <3>. QED
      BY <2>1, <3>1 DEF NewMessage, Alone, InStep, Filled
  <2>2. \A q \in Posters : q # p /\ ~NewMessage(p) => post[q] = "idle"
    BY DEF Alone, Create, ReadsKey, Puts, ReadsCount, WritesCount
  <2>3. CASE ReadsKey(p)
    BY <2>2, <2>3 DEF ReadsKey, NewMessage, Alone, InStep, Filled
  <2>4. CASE Puts(p)
    <3>1. /\ reg[p] = currID /\ message[p].id = currID /\ message[p] # None /\ currID \in Keys
          /\ \A q \in Posters : q # p => post[q] = "idle"
      BY <2>2, <2>4, FeedAssumption DEF Puts, InStep, FeedAssumption, Counts, NewMessage
    <3>2. Alone' /\ InStep'
      BY <2>4, <3>1 DEF Puts, Alone, InStep
    <3>3. Filled'
      BY <2>4, <3>1, KeysAreFinite DEF Puts, Filled
    <3>. QED
      BY <3>2, <3>3
  <2>5. CASE ReadsCount(p)
    BY <2>2, <2>5 DEF ReadsCount, NewMessage, Alone, InStep, Filled
  <2>6. CASE WritesCount(p)
    <3>1. currID' = currID + 1 /\ \A q \in Posters : post'[q] = "idle"
      BY <2>2, <2>6 DEF WritesCount, InStep, NewMessage
    <3>2. Alone' /\ InStep'
      BY <3>1 DEF Alone, InStep
    <3>3. Filled'
      BY <2>6, <3>1, KeysAreFinite DEF WritesCount, Filled
    <3>. QED
      BY <3>2, <3>3
  <2>. QED
    BY <2>1, <2>3, <2>4, <2>5, <2>6 DEF Create
<1>. QED
  BY <1>3, <1>4, <1>5, <1>6 DEF Orderly, NoneDead

(* What no reader disturbs.                                                 *)
LEMMA ReadersKeepOrder ==
  ASSUME Orderly, UNCHANGED <<storage, posting>>
  PROVE  Alone' /\ InStep' /\ Filled'
BY DEF Orderly, Alone, InStep, Filled, storage, posting

(* A range that lies in what was counted fits the stream.                   *)
LEMMA RangeFits ==
  ASSUME Types, Orderly, NEW r \in Readers, at[r] = "collect", NEW all \in Streams(r)
  PROVE  /\ Fits(r, all)
         /\ SubList(r, all) \in Seq(Message) /\ Len(SubList(r, all)) = end[r] - start[r]
         /\ \A j \in 1..(end[r] - start[r]) : SubList(r, all)[j].id = start[r] + j - 1
<1>1. /\ start[r] \in Nat /\ end[r] \in Nat /\ start[r] <= end[r]
      /\ 0..(end[r] - 1) \subseteq begun[r]
  BY KeysAreFinite DEF Types, TypeOK, Orderly, Ranges
<1>2. PICK b \in Nat : b = end[r]
  BY <1>1
<1>3. b <= Len(all) /\ \A j \in 1..b : all[j].id = j - 1
  BY <1>1, <1>2, StreamIsOrdered DEF Orderly
<1>4. Fits(r, all)
  BY <1>1, <1>2, <1>3 DEF Fits
<1>5. /\ SubList(r, all) \in Seq(Message) /\ Len(SubList(r, all)) = end[r] - start[r]
      /\ \A j \in 1..(end[r] - start[r]) : SubList(r, all)[j] = all[start[r] + j]
  BY <1>4, StreamIsTyped
<1>6. \A j \in 1..(end[r] - start[r]) : start[r] + j \in 1..b
  BY <1>1, <1>2
<1>7. ASSUME NEW j \in 1..(end[r] - start[r]) PROVE SubList(r, all)[j].id = start[r] + j - 1
  <2>1. SubList(r, all)[j] = all[start[r] + j]
    BY <1>5
  <2>2. PICK x \in 1..b : x = start[r] + j
    BY <1>6
  <2>3. all[x].id = x - 1
    BY <1>3
  <2>4. x - 1 = start[r] + j - 1
    BY <1>1, <2>2
  <2>. QED
    BY <2>1, <2>2, <2>3, <2>4, Zenon
<1>. QED
  BY <1>4, <1>5, <1>7

(* What has been sent remains sent.                                         *)
LEMMA SentRemains ==
  ASSUME NEW l \in Listeners, wire'[l] = wire[l], list'[l] = list[l], NEW k, Sent(l, k)
  PROVE  Sent(l, k)'
BY DEF Sent, Has

LEMMA GetAllIsOrderly ==
  ASSUME Types, Orderly, NEW r \in Readers, GetAll(r)
  PROVE  Orderly'
<1>. USE DEF storage, posting, call, client, history, Goes
<1>1. /\ TypeOK /\ Orderly /\ MaxMessages \in Nat /\ Pagers \subseteq Readers /\ Listeners \subseteq Readers
      /\ Pagers \cap Listeners = {}
      /\ Alone' /\ InStep' /\ Filled'
  BY FeedAssumption, ReadersKeepOrder
  DEF Types, FeedAssumption, GetAll, ReadsStart, ReadsEnd, Throws, Readers
<1>2. /\ offset[r] \in Nat /\ count[r] \in Nat /\ currID \in Nat /\ start[r] \in Nat
      /\ \A k \in Keys : k \in Nat
  BY <1>1, KeysAreFinite DEF TypeOK
<1>3. ~Throws(r)
  BY RangeFits DEF Throws
<1>4. CASE ReadsStart(r)
  <2>1. /\ Lesser(offset[r], currID) <= offset[r] /\ Lesser(offset[r], currID) <= currID
        /\ offset[r] <= currID => Lesser(offset[r], currID) = offset[r]
    BY <1>2 DEF Lesser
  <2>2. Ranges' /\ NoneDead'
    BY <1>1, <1>4, <2>1 DEF Orderly, Ranges, NoneDead, ReadsStart, TypeOK
  <2>3. Pages'
    BY <1>1, <1>4, <2>1 DEF Orderly, Pages, IsPrefix, ReadsStart, TypeOK
  <2>4. Pushes'
    <3>1. \A l \in Listeners : \A k \in 0..(n[l] - 1) : Sent(l, k) => Sent(l, k)'
      BY <1>4, SentRemains DEF ReadsStart
    <3>. QED
      BY <1>1, <1>4, <3>1 DEF Orderly, Pushes, ReadsStart, TypeOK
  <2>. QED
    BY <1>1, <2>2, <2>3, <2>4 DEF Orderly, NoneDead
<1>5. CASE ReadsEnd(r)
  <2>0. PICK e \in Nat : /\ e = Lesser(offset[r] + count[r], currID)
                         /\ e <= offset[r] + count[r] /\ e <= currID
                         /\ \A k \in Nat : k < offset[r] + count[r] => k < e \/ k >= currID
    BY <1>2 DEF Lesser
  <2>1. /\ start[r] <= e /\ start[r] <= currID /\ start[r] <= offset[r] /\ currID <= MaxMessages
    BY <1>1, <1>2, <1>5, <2>0 DEF Orderly, Ranges, ReadsEnd, TypeOK, Lesser
  <2>2. 0..(e - 1) \subseteq Stored
    <3>1. ASSUME NEW k \in 0..(e - 1) PROVE k \in Keys /\ k < currID
      BY <1>1, <1>2, <2>0, <2>1 DEF Keys
    <3>. QED
      BY <1>1, <3>1 DEF Stored, Orderly, Filled
  <2>3. Ranges' /\ NoneDead'
    BY <1>1, <1>5, <2>0, <2>1, <2>2 DEF Orderly, Ranges, NoneDead, ReadsEnd, TypeOK
  <2>4. Pages'
    BY <1>1, <1>5 DEF Orderly, Pages, IsPrefix, ReadsEnd, TypeOK
  <2>5. Pushes'
    <3>1. \A l \in Listeners : missed[l] \subseteq missed'[l]
      BY <1>1, <1>5 DEF ReadsEnd, TypeOK
    <3>2. ASSUME r \in Listeners, NEW k \in offset[r]..(offset[r] + count[r] - 1)
          PROVE  k < e \/ k \in missed'[r]
      <4>1. k \in Nat /\ k < offset[r] + count[r]
        BY <1>2
      <4>2. k < e \/ k >= currID
        BY <2>0, <4>1
      <4>3. k >= currID => k \in missed'[r]
        BY <1>1, <1>5, <3>2 DEF ReadsEnd, TypeOK
      <4>. QED
        BY <4>2, <4>3
    <3>3. \A l \in Listeners : \A k \in 0..(n[l] - 1) : Sent(l, k) => Sent(l, k)'
      BY <1>5, SentRemains DEF ReadsEnd
    <3>. QED
      BY <1>1, <1>5, <2>0, <3>1, <3>2, <3>3 DEF Orderly, Pushes, ReadsEnd, TypeOK
  <2>. QED
    BY <1>1, <2>3, <2>4, <2>5 DEF Orderly, NoneDead
<1>. QED
  BY <1>3, <1>4, <1>5 DEF GetAll

LEMMA PagersAreOrderly ==
  ASSUME Types, Orderly, NEW r \in Pagers,
         LogsIn(r) \/ StartsRound(r) \/ GetsPage(r) \/ LosesPage(r)
  PROVE  Orderly'
<1>. USE DEF storage, posting, call, client, history, Goes, Asks, Returns, AsksPage, EndsRound
<1>1. /\ TypeOK /\ Orderly /\ r \in Readers /\ r \notin Listeners
      /\ Pagers \subseteq Readers /\ Listeners \subseteq Readers
      /\ Alone' /\ InStep' /\ Filled'
  BY FeedAssumption, ReadersKeepOrder
  DEF Types, FeedAssumption, LogsIn, StartsRound, GetsPage, LosesPage, Readers
<1>2. /\ list[r] \in Seq(Message) /\ Len(list[r]) \in Nat /\ offset[r] \in Nat /\ PageSize \in Nat
      /\ currID \in Nat /\ start[r] \in Nat /\ end[r] \in Nat
  BY <1>1, FeedAssumption, KeysAreFinite DEF FeedAssumption, TypeOK
<1>3. /\ at'[r] \in {"off", "start"} /\ \A q \in Readers : q # r => at'[q] = at[q]
      /\ \A q \in Readers : q # r => /\ offset'[q] = offset[q] /\ count'[q] = count[q]
                                      /\ start'[q] = start[q] /\ end'[q] = end[q]
                                      /\ begun'[q] = begun[q] /\ list'[q] = list[q]
      /\ \A q \in Pagers : q # r => late'[q] = late[q]
      /\ UNCHANGED <<currID, wire, missed, n>>
  <2>. USE <1>1
  <2>1. CASE LogsIn(r)
    BY <2>1 DEF LogsIn, TypeOK
  <2>2. CASE StartsRound(r)
    BY <2>2 DEF StartsRound, TypeOK
  <2>3. CASE GetsPage(r)
    BY <2>3 DEF GetsPage, TypeOK
  <2>4. CASE LosesPage(r)
    BY <2>4 DEF LosesPage, TypeOK
  <2>. QED
    BY <2>1, <2>2, <2>3, <2>4
<1>4. Ranges' /\ NoneDead'
  BY <1>1, <1>3 DEF Orderly, Ranges, NoneDead
<1>5. Pushes'
  BY <1>1, <1>3 DEF Orderly, Pushes, Sent, Has
<1>6. ASSUME ~late'[r]
      PROVE  /\ IsPrefix(list'[r]) /\ Len(list'[r]) <= currID
             /\ at'[r] = "start" => Len(list'[r]) <= offset'[r] /\ count'[r] = PageSize
  <2>. USE <1>1, <1>6
  <2>1. CASE LogsIn(r)
    BY <2>1 DEF LogsIn, Orderly, Pages, TypeOK
  <2>2. CASE StartsRound(r)
    BY <1>2, <2>2 DEF StartsRound, Orderly, Pages, TypeOK
  <2>3. CASE GetsPage(r)
    <3>1. PICK all \in Streams(r) :
            LET buffer == SubList(r, all) IN
            /\ list' = [list EXCEPT ![r] = @ \o buffer]
            /\ late' = [late EXCEPT ![r] = @ \/ (Len(list[r]) < offset[r] /\ buffer # <<>>)]
            /\ IF buffer = <<>> THEN EndsRound(r) ELSE AsksPage(r, i[r] + 1, offset[r] + PageSize)
      BY <2>3 DEF GetsPage
    <3>2. PICK buffer \in Seq(Message) : buffer = SubList(r, all)
      BY <2>3, RangeFits DEF GetsPage
    <3>3. /\ list'[r] = list[r] \o buffer
          /\ ~late[r] /\ ~(Len(list[r]) < offset[r] /\ buffer # <<>>)
          /\ at[r] = "collect"
      BY <2>3, <3>1, <3>2 DEF TypeOK, GetsPage
    <3>4. /\ IsPrefix(list[r]) /\ Len(list[r]) <= currID /\ Len(list[r]) <= offset[r]
          /\ count[r] = PageSize
          /\ Len(list[r]) = offset[r] => start[r] = offset[r]
          /\ end[r] <= offset[r] + count[r] /\ end[r] <= currID /\ start[r] <= end[r]
      BY <3>3 DEF Orderly, Pages, Ranges
    <3>5. CASE buffer = <<>>
      <4>1. list'[r] = list[r] /\ at'[r] = "off"
        BY <1>2, <3>1, <3>2, <3>3, <3>5, ConcatEmptySeq DEF TypeOK
      <4>. QED
        BY <1>2, <3>4, <4>1
    <3>6. CASE buffer # <<>>
      <4>1. Len(list[r]) = start[r] /\ offset[r] = start[r]
        BY <1>2, <3>3, <3>4, <3>6
      <4>2. Len(buffer) = end[r] - start[r] /\ \A j \in 1..(end[r] - start[r]) : buffer[j].id = start[r] + j - 1
        BY <1>1, <3>1, <3>2, <3>3, RangeFits, Zenon
      <4>3. /\ Len(list'[r]) = end[r]
            /\ \A j \in 1..end[r] : list'[r][j] = IF j <= start[r] THEN list[r][j] ELSE buffer[j - start[r]]
        <5>1. /\ Len(list[r] \o buffer) = Len(list[r]) + Len(buffer)
              /\ \A j \in 1..(Len(list[r]) + Len(buffer)) :
                   (list[r] \o buffer)[j] = IF j <= Len(list[r]) THEN list[r][j] ELSE buffer[j - Len(list[r])]
          BY <1>2, ConcatProperties
        <5>2. Len(list[r]) + Len(buffer) = end[r]
          BY <1>2, <4>1, <4>2
        <5>. QED
          BY <3>3, <4>1, <5>1, <5>2
      <4>4. ASSUME NEW j \in 1..end[r] PROVE list'[r][j].id = j - 1
        <5>1. CASE j <= start[r]
          <6>1. j \in DOMAIN list[r] /\ list'[r][j] = list[r][j]
            BY <1>2, <4>1, <4>3, <5>1
          <6>. QED
            BY <3>4, <6>1 DEF IsPrefix
        <5>2. CASE ~(j <= start[r])
          <6>1. PICK x \in 1..(end[r] - start[r]) : x = j - start[r]
            BY <1>2, <5>2
          <6>2. buffer[x].id = start[r] + x - 1
            BY <4>2
          <6>3. list'[r][j] = buffer[j - start[r]] /\ start[r] + x - 1 = j - 1
            BY <1>2, <4>3, <5>2, <6>1
          <6>. QED
            BY <6>1, <6>2, <6>3, Zenon
        <5>. QED
          BY <5>1, <5>2
      <4>5. list'[r] \in Seq(Message) /\ DOMAIN list'[r] = 1..end[r]
        BY <1>2, <3>3, <4>3, ConcatProperties
      <4>6. offset'[r] = offset[r] + PageSize /\ count'[r] = PageSize
        BY <3>1, <3>2, <3>6 DEF TypeOK
      <4>. QED
        BY <1>2, <3>4, <4>3, <4>4, <4>5, <4>6 DEF IsPrefix
    <3>. QED
      BY <3>5, <3>6
  <2>4. CASE LosesPage(r)
    <3>1. list' = list /\ late' = late /\ at[r] = "collect"
      BY <2>4 DEF LosesPage
    <3>2. /\ IsPrefix(list[r]) /\ Len(list[r]) <= currID /\ Len(list[r]) <= offset[r]
      BY <3>1 DEF Orderly, Pages
    <3>3. at'[r] = "start" => offset'[r] = offset[r] /\ count'[r] = PageSize
      BY <2>4 DEF LosesPage, TypeOK
    <3>. QED
      BY <3>1, <3>2, <3>3
  <2>. QED
    BY <2>1, <2>2, <2>3, <2>4
<1>7. Pages'
  <2>1. ASSUME NEW q \in Pagers, ~late'[q], q # r
        PROVE  /\ IsPrefix(list'[q]) /\ Len(list'[q]) <= currID'
               /\ at'[q] \in {"start", "end", "collect"} =>
                    Len(list'[q]) <= offset'[q] /\ count'[q] = PageSize
               /\ at'[q] \in {"end", "collect"} /\ Len(list'[q]) = offset'[q] => start'[q] = offset'[q]
    BY <1>1, <1>3, <2>1 DEF Orderly, Pages
  <2>. QED
    BY <1>3, <1>6, <2>1 DEF Pages
<1>. QED
  BY <1>1, <1>4, <1>5, <1>7 DEF Orderly, NoneDead

(* A text is added to what has been sent.                                   *)
LEMMA SentGrows ==
  ASSUME TypeOK, NEW l \in Listeners, NEW batch \in Seq(Message),
         wire' = [wire EXCEPT ![l] = Append(@, batch)], list' = list
  PROVE  /\ \A m \in Listeners, k \in Nat : Sent(m, k) => Sent(m, k)'
         /\ \A j \in DOMAIN batch : Sent(l, batch[j].id)'
<1>1. wire[l] \in Seq(Seq(Message)) /\ wire'[l] = Append(wire[l], batch) /\ Len(wire[l]) \in Nat
  BY DEF TypeOK
<1>2. /\ DOMAIN wire[l] \subseteq DOMAIN wire'[l] /\ Len(wire[l]) + 1 \in DOMAIN wire'[l]
      /\ \A t \in DOMAIN wire[l] : wire'[l][t] = wire[l][t]
      /\ wire'[l][Len(wire[l]) + 1] = batch
  BY <1>1, AppendProperties
<1>3. ASSUME NEW m \in Listeners, NEW k \in Nat, Sent(m, k) PROVE Sent(m, k)'
  <2>1. CASE m = l
    <3>1. CASE Has(l, k)
      BY <2>1, <3>1 DEF Sent, Has
    <3>2. CASE \E t \in DOMAIN wire[l] : \E j \in DOMAIN wire[l][t] : wire[l][t][j].id = k
      BY <1>2, <2>1, <3>2 DEF Sent
    <3>. QED
      BY <1>3, <2>1, <3>1, <3>2 DEF Sent
  <2>2. CASE m # l
    <3>1. wire'[m] = wire[m] /\ list'[m] = list[m]
      BY <2>2 DEF TypeOK
    <3>. QED
      BY <1>3, <3>1, SentRemains
  <2>. QED
    BY <2>1, <2>2
<1>4. ASSUME NEW j \in DOMAIN batch PROVE Sent(l, batch[j].id)'
  BY <1>2 DEF Sent
<1>. QED
  BY <1>3, <1>4

LEMMA ListenersAreOrderly ==
  ASSUME Types, Orderly, NEW l \in Listeners,
         Connects(l) \/ SendsAll(l) \/ SeesMore(l) \/ SendsNew(l) \/ ProcessMessage(l)
  PROVE  Orderly'
<1>. USE DEF storage, posting, call, client, history, Goes, Asks, Returns
<1>1. /\ TypeOK /\ Orderly /\ l \in Readers /\ l \notin Pagers
      /\ Pagers \subseteq Readers /\ Listeners \subseteq Readers
      /\ Alone' /\ InStep' /\ Filled'
  BY FeedAssumption, ReadersKeepOrder
  DEF Types, FeedAssumption, Connects, SendsAll, SeesMore, SendsNew, ProcessMessage, Readers
<1>2. /\ n[l] \in Nat /\ Size \in Nat /\ offset[l] \in Nat /\ count[l] \in Nat
      /\ start[l] \in Nat /\ end[l] \in Nat
  BY <1>1, FeedAssumption, KeysAreFinite DEF FeedAssumption, TypeOK
<1>3. /\ \A q \in Readers : q # l => /\ at'[q] = at[q]
                                      /\ offset'[q] = offset[q] /\ count'[q] = count[q]
                                      /\ start'[q] = start[q] /\ end'[q] = end[q]
                                      /\ begun'[q] = begun[q] /\ list'[q] = list[q]
      /\ \A q \in Listeners : q # l => n'[q] = n[q] /\ wire'[q] = wire[q]
      /\ UNCHANGED <<currID, late, missed>>
  <2>. USE <1>1
  <2>1. CASE Connects(l)
    BY <2>1 DEF Connects, TypeOK
  <2>2. CASE SendsAll(l)
    BY <2>2 DEF SendsAll, Sends, TypeOK
  <2>3. CASE SeesMore(l)
    BY <2>3 DEF SeesMore, TypeOK
  <2>4. CASE SendsNew(l)
    BY <2>4 DEF SendsNew, Sends, TypeOK
  <2>5. CASE ProcessMessage(l)
    BY <2>5 DEF ProcessMessage, TypeOK
  <2>. QED
    BY <2>1, <2>2, <2>3, <2>4, <2>5
<1>4. CASE ProcessMessage(l)
  <2>1. UNCHANGED <<at, offset, count, start, end, begun, n>>
    BY <1>4 DEF ProcessMessage
  <2>2. Ranges' /\ NoneDead' /\ Pages'
    BY <1>1, <1>3, <2>1 DEF Orderly, Ranges, NoneDead, Pages
  <2>3. PICK first \in Seq(Message), rest \in Seq(Seq(Message)) :
          /\ first = Head(wire[l]) /\ rest = Tail(wire[l])
          /\ wire'[l] = rest /\ list'[l] = list[l] \o first
          /\ wire[l] \in Seq(Seq(Message)) /\ wire[l] # <<>> /\ list[l] \in Seq(Message)
    <3>1. wire[l] \in Seq(Seq(Message)) /\ wire[l] # <<>> /\ list[l] \in Seq(Message)
      BY <1>1, <1>4 DEF ProcessMessage, TypeOK
    <3>2. wire'[l] = Tail(wire[l]) /\ list'[l] = list[l] \o Head(wire[l])
      BY <1>1, <1>4 DEF ProcessMessage, TypeOK
    <3>3. Head(wire[l]) \in Seq(Message) /\ Tail(wire[l]) \in Seq(Seq(Message))
      BY <3>1, HeadTailProperties
    <3>. QED
      BY <3>1, <3>2, <3>3
  <2>4. ASSUME NEW k \in Nat, Sent(l, k) PROVE Sent(l, k)'
    <3>1. /\ \A j \in DOMAIN list[l] : j \in DOMAIN list'[l] /\ list'[l][j] = list[l][j]
          /\ \A j \in DOMAIN first : Len(list[l]) + j \in DOMAIN list'[l]
                                     /\ list'[l][Len(list[l]) + j] = first[j]
      <4>1. PICK a \in Seq(Message), c \in Seq(Message) :
              a = list[l] /\ c = list'[l] /\ c = a \o first
        BY <2>3, ConcatProperties
      <4>2. /\ Len(a) \in Nat /\ Len(first) \in Nat
            /\ DOMAIN a = 1..Len(a) /\ DOMAIN first = 1..Len(first)
            /\ DOMAIN c = 1..(Len(a) + Len(first))
            /\ \A j \in 1..(Len(a) + Len(first)) : c[j] = IF j <= Len(a) THEN a[j] ELSE first[j - Len(a)]
        <5>1. /\ a \o first \in Seq(Message) /\ Len(a \o first) = Len(a) + Len(first)
              /\ \A j \in 1..(Len(a) + Len(first)) :
                   (a \o first)[j] = IF j <= Len(a) THEN a[j] ELSE first[j - Len(a)]
          BY ConcatProperties
        <5>2. Len(c) = Len(a) + Len(first)
          BY <4>1, <5>1
        <5>3. /\ Len(a) \in Nat /\ Len(first) \in Nat /\ DOMAIN a = 1..Len(a)
              /\ DOMAIN first = 1..Len(first) /\ DOMAIN c = 1..Len(c)
          OBVIOUS
        <5>. QED
          BY <4>1, <5>1, <5>2, <5>3
      <4>3. \A j \in DOMAIN a : j \in DOMAIN c /\ c[j] = a[j]
        BY <4>2
      <4>4. ASSUME NEW j \in DOMAIN first
            PROVE  Len(a) + j \in DOMAIN c /\ c[Len(a) + j] = first[j]
        <5>1. PICK x \in 1..(Len(a) + Len(first)) : x = Len(a) + j
          BY SMTT(30), <4>2
        <5>2. ~(x <= Len(a)) /\ x - Len(a) = j
          BY <4>2, <5>1
        <5>3. c[x] = first[j]
          BY <4>2, <5>2
        <5>. QED
          BY <4>2, <5>1, <5>3
      <4>. QED
        BY <4>1, <4>3, <4>4
    <3>2. CASE Has(l, k)
      BY <3>1, <3>2 DEF Sent, Has
    <3>3. ASSUME NEW t \in DOMAIN wire[l], NEW j \in DOMAIN wire[l][t], wire[l][t][j].id = k
          PROVE  Sent(l, k)'
      <4>1. CASE t = 1
        <5>1. wire[l][t] = first
          BY <2>3, <4>1
        <5>. QED
          <6>1. Len(list[l]) + j \in DOMAIN list'[l] /\ list'[l][Len(list[l]) + j].id = k
            BY <3>1, <3>3, <5>1
          <6>. QED
            BY <6>1 DEF Sent, Has
      <4>2. CASE t # 1
        <5>1. t - 1 \in DOMAIN rest /\ rest[t - 1] = wire[l][t]
          <6>1. /\ rest = Tail(wire[l]) /\ Len(rest) = Len(wire[l]) - 1
                /\ Len(wire[l]) \in Nat /\ t \in 1..Len(wire[l]) /\ DOMAIN rest = 1..Len(rest)
            BY <2>3, HeadTailProperties
          <6>2. t - 1 \in 1..Len(rest) /\ t - 1 + 1 = t
            BY SMTT(30), <4>2, <6>1
          <6>3. rest[t - 1] = wire[l][t - 1 + 1]
            BY <2>3, <6>1, <6>2
          <6>. QED
            BY <6>1, <6>2, <6>3
        <5>. QED
          BY <2>3, <3>3, <5>1 DEF Sent
      <4>. QED
        BY <4>1, <4>2
    <3>. QED
      BY <2>4, <3>2, <3>3 DEF Sent
  <2>5. \A q \in Listeners, k \in Nat : q # l => (Sent(q, k) => Sent(q, k)')
    BY <1>1, <1>3, SentRemains
  <2>6. \A q \in Listeners : \A k \in 0..(n[q] - 1) : Sent(q, k) => Sent(q, k)'
    BY <2>4, <2>5
  <2>7. Pushes'
    BY <1>1, <1>3, <2>1, <2>6 DEF Orderly, Pushes
  <2>. QED
    BY <1>1, <2>2, <2>7 DEF Orderly, NoneDead
<1>5. CASE ~ProcessMessage(l)
  <2>1. at'[l] \in {"first", "sleep", "start"}
    BY <1>1, <1>5 DEF Connects, SendsAll, SeesMore, SendsNew, TypeOK
  <2>2. Ranges' /\ NoneDead' /\ Pages'
    BY <1>1, <1>3, <2>1 DEF Orderly, Ranges, NoneDead, Pages
  <2>3. \A q \in Listeners, k \in Nat : Sent(q, k) => Sent(q, k)'
    <3>1. CASE Connects(l) \/ SeesMore(l)
      BY <3>1, SentRemains DEF Connects, SeesMore
    <3>2. CASE SendsAll(l)
      BY <1>1, <3>2, StreamIsTyped, SentGrows DEF SendsAll, Sends
    <3>3. CASE SendsNew(l)
      BY <1>1, <3>3, StreamIsTyped, SentGrows DEF SendsNew, Sends
    <3>. QED
      BY <1>5, <3>1, <3>2, <3>3
  <2>4. /\ at'[l] = "first" => 0..(n'[l] - 1) \subseteq begun'[l]
        /\ at'[l] = "start" => offset'[l] = n'[l]
        /\ at'[l] \in {"sleep", "start"} => \A k \in 0..(n'[l] - 1) : k \in missed'[l] \/ Sent(l, k)'
    <3>1. CASE Connects(l)
      <4>1. n'[l] = Size /\ begun'[l] = Stored /\ at'[l] = "first"
        BY <1>1, <3>1 DEF Connects, TypeOK
      <4>2. Stored = 0..(Size - 1)
        BY <1>1, StoredAreFirst DEF Orderly
      <4>. QED
        BY <4>1, <4>2
    <3>2. CASE SeesMore(l)
      <4>1. n'[l] = n[l] /\ offset'[l] = n[l] /\ at'[l] = "start" /\ at[l] = "sleep" /\ missed' = missed
        BY <1>1, <3>2 DEF SeesMore, TypeOK
      <4>. QED
        BY <1>1, <1>2, <2>3, <4>1 DEF Orderly, Pushes
    <3>3. CASE SendsAll(l)
      <4>1. PICK all \in Streams(l) : wire' = [wire EXCEPT ![l] = Append(@, all)]
        BY <3>3 DEF SendsAll, Sends
      <4>2. all \in Seq(Message) /\ list' = list /\ n' = n /\ at'[l] = "sleep" /\ at[l] = "first"
        BY <1>1, <3>3, <4>1, StreamIsTyped DEF SendsAll, TypeOK
      <4>3. PICK b \in Nat : b = n[l] /\ 0..(b - 1) \subseteq begun[l]
        BY <1>1, <1>2, <4>2 DEF Orderly, Pushes
      <4>4. b <= Len(all) /\ \A j \in 1..b : all[j].id = j - 1
        BY <1>1, <4>3, StreamIsOrdered DEF Orderly
      <4>5. ASSUME NEW k \in 0..(b - 1) PROVE Sent(l, k)'
        <5>1. k + 1 \in 1..b /\ k + 1 \in DOMAIN all /\ k + 1 - 1 = k
          BY <4>2, <4>4
        <5>2. all[k + 1].id = k
          BY <4>4, <5>1
        <5>. QED
          BY <1>1, <4>1, <4>2, <5>1, <5>2, SentGrows
      <4>. QED
        BY <4>2, <4>3, <4>5
    <3>4. CASE SendsNew(l)
      <4>1. PICK all \in Streams(l) : wire' = [wire EXCEPT ![l] = Append(@, SubList(l, all))]
        BY <3>4 DEF SendsNew, Sends
      <4>2. /\ list' = list /\ n'[l] = offset[l] + count[l] /\ missed' = missed
            /\ at'[l] = "sleep" /\ at[l] = "collect"
        BY <1>1, <3>4 DEF SendsNew, TypeOK
      <4>3. PICK batch \in Seq(Message) :
              /\ batch = SubList(l, all) /\ Len(batch) = end[l] - start[l]
              /\ \A j \in 1..(end[l] - start[l]) : batch[j].id = start[l] + j - 1
        BY <1>1, <4>1, <4>2, RangeFits, Zenon
      <4>4. \A j \in DOMAIN batch : Sent(l, batch[j].id)'
        BY <1>1, <4>1, <4>2, <4>3, SentGrows
      <4>5. /\ offset[l] = n[l] /\ start[l] <= offset[l]
            /\ \A k \in offset[l]..(offset[l] + count[l] - 1) : k < end[l] \/ k \in missed[l]
            /\ \A k \in 0..(n[l] - 1) : k \in missed[l] \/ Sent(l, k)
        BY <1>1, <4>2 DEF Orderly, Pushes, Ranges
      <4>6. ASSUME NEW k \in 0..(n'[l] - 1) PROVE k \in missed'[l] \/ Sent(l, k)'
        <5>1. CASE k < offset[l]
          <6>1. k \in 0..(n[l] - 1) /\ k \in Nat
            BY <1>2, <4>5, <5>1
          <6>. QED
            BY <2>3, <4>2, <4>5, <6>1
        <5>2. CASE ~(k < offset[l]) /\ k < end[l]
          <6>1. PICK j \in 1..(end[l] - start[l]) : j = k - start[l] + 1
            BY <1>2, <4>5, <5>2
          <6>2. j \in DOMAIN batch /\ batch[j].id = start[l] + j - 1
            BY <4>3
          <6>3. start[l] + j - 1 = k
            BY <1>2, <4>5, <5>2, <6>1
          <6>. QED
            BY <4>4, <6>2, <6>3, Zenon
        <5>3. CASE ~(k < offset[l]) /\ ~(k < end[l])
          <6>1. k \in offset[l]..(offset[l] + count[l] - 1)
            BY <1>2, <4>2, <5>3
          <6>. QED
            BY <4>2, <4>5, <5>3, <6>1
        <5>. QED
          BY <5>1, <5>2, <5>3
      <4>. QED
        BY <4>2, <4>6
    <3>. QED
      BY <1>5, <3>1, <3>2, <3>3, <3>4
  <2>5. ASSUME NEW q \in Listeners, q # l
        PROVE  /\ at'[q] = "first" => 0..(n'[q] - 1) \subseteq begun'[q]
               /\ at'[q] \in {"start", "end", "collect"} => offset'[q] = n'[q]
               /\ at'[q] = "collect" =>
                    \A k \in offset'[q]..(offset'[q] + count'[q] - 1) : k < end'[q] \/ k \in missed'[q]
               /\ at'[q] \in {"sleep", "start", "end", "collect"} =>
                    \A k \in 0..(n'[q] - 1) : k \in missed'[q] \/ Sent(q, k)'
    BY <1>1, <1>3, <2>3, <2>5 DEF Orderly, Pushes
  <2>6. Pushes'
    BY <2>1, <2>4, <2>5 DEF Pushes
  <2>. QED
    BY <1>1, <2>2, <2>6 DEF Orderly, NoneDead
<1>. QED
  BY <1>4, <1>5

-----------------------------------------------------------------------------
LEMMA InvInit == Init => Inv
  BY InitTypes, InitOrderly DEF Inv

LEMMA InvNext == Inv /\ [Next]_vars => Inv'
<1>. SUFFICES ASSUME Inv, [Next]_vars PROVE Inv'
  OBVIOUS
<1>1. Types /\ Types'
  BY TypesNext DEF Inv
<1>2. Pagers \subseteq Readers /\ Listeners \subseteq Readers
  BY DEF Readers
<1>3. CASE UNCHANGED vars
  <2>1. UNCHANGED overlap /\ (Orderly => Orderly')
    BY <1>3 DEF vars, storage, posting, call, client, history, Orderly, Alone, InStep, Filled, Ranges,
                Pages, IsPrefix, Pushes, Sent, Has
  <2>. QED
    BY <1>1, <2>1 DEF Inv
<1>4. CASE \E p \in Posters : NewMessage(p) \/ Create(p)
  BY <1>1, <1>4, PostersAreOrderly DEF Inv
<1>5. CASE \E r \in Pagers : LogsIn(r) \/ Page(r) \/ LosesPage(r)
  <2>1. Orderly => Orderly'
    BY <1>1, <1>2, <1>5, GetAllIsOrderly, PagersAreOrderly DEF Page
  <2>2. UNCHANGED overlap
    BY <1>5 DEF LogsIn, Page, StartsRound, GetAll, ReadsStart, ReadsEnd, Throws, GetsPage, LosesPage, posting
  <2>. QED
    BY <1>1, <2>1, <2>2 DEF Inv
<1>6. CASE \E l \in Listeners : Connects(l) \/ Update(l) \/ ProcessMessage(l)
  <2>1. Orderly => Orderly'
    BY <1>1, <1>2, <1>6, GetAllIsOrderly, ListenersAreOrderly DEF Update
  <2>2. UNCHANGED overlap
    BY <1>6 DEF Connects, Update, SendsAll, SeesMore, GetAll, ReadsStart, ReadsEnd, Throws, SendsNew,
                ProcessMessage, posting
  <2>. QED
    BY <1>1, <2>1, <2>2 DEF Inv
<1>. QED
  BY <1>3, <1>4, <1>5, <1>6 DEF Next

LEMMA Invariance == Spec => []Inv
  BY InvInit, InvNext, PTL DEF Spec

(* subList() never throws while no two create() have been at work at the    *)
(* same time, whatever is created and counted between the accesses of       *)
(* getAll(): its range was counted before its stream began.                 *)
THEOREM NobodyThrows == Spec => []NeverThrows
<1>1. Inv => NeverThrows
  BY DEF Inv, Orderly, NeverThrows
<1>. QED
  BY <1>1, Invariance, PTL

(* Under the same condition what a client of the fourth lab has put         *)
(* together is an initial part of the conversation, for every page size and *)
(* with answers lost at any time, until a page that was not full is         *)
(* followed by one that is not empty.                                       *)
THEOREM PagesFollowOn == Spec => []PagesArePrefix
<1>1. Inv => PagesArePrefix
  BY DEF Inv, Orderly, Pages, IsPrefix, PagesArePrefix
<1>. QED
  BY <1>1, Invariance, PTL

(* Under the same condition the Updater has sent whatever is behind it,     *)
(* except the messages that were stored and not counted when it asked.      *)
THEOREM NothingElseIsMissed == Spec => []PushedUnlessUncounted
<1>1. Inv => PushedUnlessUncounted
  BY DEF Inv, Orderly, Pushes, PushedUnlessUncounted
<1>. QED
  BY <1>1, Invariance, PTL
==============================================================================
