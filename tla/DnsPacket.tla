------------------------------- MODULE DnsPacket -------------------------------
(***************************************************************************)
(* The packets of the resolver (dns_p_..., dns_d_..., dns_rr_...): records *)
(* are pushed behind each other, with names that may end in a pointer to a *)
(* name before, and are read back by iterators.  A packet is a sequence of *)
(* cells instead of bytes: a label with its length, the end of a name, a   *)
(* pointer, type and class, TTL, the length of the data, an address and a  *)
(* preference are a cell each.  A position is the number of a cell, and    *)
(* the cell where a record begins stands for the offset in the code.  A    *)
(* name is the sequence of its labels, without regard to case.             *)
(***************************************************************************)
EXTENDS Naturals, Sequences, SequencesExt, FiniteSetsExt

CONSTANTS RecordsToPush,    \* what users push: [section, name, type, data]
          Sizes,            \* payloads a packet may be made for, in cells
          QBuf,             \* DNS_P_QBUFSIZ
          MaxSize,          \* 65536
          Overhead,         \* what dns_p_sizeof() adds to the end of the payload
          DictSize,         \* DNS_P_DICTSIZE: 16
          MaxPtrs,          \* DNS_D_MAXPTRS: 127
          MaxRecords,       \* bound: records in a packet
          ISeeds,           \* of the iterator that shuffles
          Shuffle16(_, _)   \* dns_k_shuffle16()

QD == 1  AN == 2  NS == 3  AR == 4
Sections == QD..AR
Root == <<>>

IsName(name) == name \in Seq({name[k] : k \in DOMAIN name})

Powers == {1, 2, 4, 8, 16, 32, 64, 128, 256, 512, 1024, 2048, 4096, 8192, 16384, 32768, 65536, 131072}

(* Data of the types that are neither A, MX nor OPT are a name.             *)
ASSUME PacketAssumption ==
  /\ \A r \in RecordsToPush :
       /\ r.section \in Sections /\ IsName(r.name) /\ (r.type = "OPT" => r.name = Root)
       /\ r.section # QD /\ r.type = "MX" => IsName(r.data[2])
       /\ r.section # QD /\ r.type \notin {"A", "MX", "OPT"} => IsName(r.data[1])
  /\ {MaxSize, Overhead, DictSize, MaxPtrs, MaxRecords} \subseteq Nat
  /\ Sizes \cup {QBuf} \subseteq 0..MaxSize /\ MaxSize + Overhead < 131072

VARIABLES P,       \* [data, size, count, memo, dict, error], the error of the last call
          pushed,  \* history: the records pushed into it
          failed   \* history: a push into it met with an error

packetVars == <<P, pushed, failed>>

-----------------------------------------------------------------------------
(* Cells                                                                    *)

Label(l) == [cell |-> "label", label |-> l]
EndOfName == [cell |-> "end"]
Ptr(p) == [cell |-> "ptr", to |-> p]
Type(t) == [cell |-> "type", type |-> t]
TTL == [cell |-> "ttl"]
RdLen(n) == [cell |-> "rdlen", len |-> n]
Value(v) == [cell |-> "value", value |-> v]

FirstCell == 1
End(p) == Len(p.data) + 1
Room(p) == p.size - Len(p.data)

NoMemo == [base |-> [s \in Sections |-> 0], end |-> [s \in Sections |-> 0], opt |-> 0]
Made(size) ==
  [data |-> <<>>, size |-> size, count |-> [s \in Sections |-> 0], memo |-> NoMemo,
   dict |-> <<>>, error |-> "ok"]

(* Asks for less than it writes.  No specification uses it.                 *)
FaultPut(p, room, cells) ==
  IF p.error # "ok" THEN p
  ELSE IF Room(p) + 1 < room THEN [p EXCEPT !.error = "ENOBUFS"]
  ELSE [p EXCEPT !.data = @ \o cells]

(* Cells are written when there is room for those the code asks for, and    *)
(* nothing is after an error.                                               *)
Put(p, room, cells) ==
  IF p.error # "ok" THEN p
  ELSE IF Room(p) < room THEN [p EXCEPT !.error = "ENOBUFS"]
  ELSE [p EXCEPT !.data = @ \o cells]

-----------------------------------------------------------------------------
(* Names                                                                    *)

(* dns_l_expand(): the place to which the pointers from k on lead, of which *)
(* no more than MaxPtrs are followed.                                       *)
Target(p, k) ==
  LET f[n \in 0..MaxPtrs] ==
        [j \in DOMAIN p.data |->
           IF n = 0 \/ p.data[j].cell # "ptr" THEN j ELSE f[n - 1][p.data[j].to]]
  IN  f[MaxPtrs][k]

HasLabel(p, k) == k < End(p) /\ p.data[Target(p, k)].cell = "label"

(* The labels from a position on, each with the position from which it was  *)
(* read: its own or that of a pointer.  A name has no more than cells.      *)
Chain(p, from) ==
  LET c[n \in 0..Len(p.data)] ==
        [k \in 1..End(p) |->
           IF n = 0 \/ ~HasLabel(p, k) THEN <<>>
           ELSE <<[at |-> k, label |-> p.data[Target(p, k)].label]>> \o c[n - 1][Target(p, k) + 1]]
  IN  IF from < End(p) THEN c[Len(p.data)][from] ELSE <<>>

NameAt(p, from) == LET c == Chain(p, from) IN [k \in DOMAIN c |-> c[k].label]

(* dns_d_skip()                                                             *)
NameEnd(p, from) ==
  LET last == CHOOSE k \in from..Len(p.data) :
                /\ p.data[k].cell # "label"
                /\ \A j \in from..(k - 1) : p.data[j].cell = "label"
  IN  last + 1

Common(a, b) == Max({n \in 0..Min({Len(a), Len(b)}) : \A k \in 1..n : a[k] = b[k]})

(* Takes a name for the one it begins with.  No specification uses it.      *)
FaultMatch(p, name, s) ==
  LET rest == SubSeq(name, s, Len(name))
      tried == FlattenSeq([d \in DOMAIN p.dict |->
                 LET c == Chain(p, p.dict[d]) IN [k \in DOMAIN c |-> c[k].at]])
      alike == SelectSeq(tried, LAMBDA b : Common(rest, NameAt(p, b)) = Len(rest))
  IN  IF alike = <<>> THEN 0 ELSE Head(alike)

(* The name in the packet that stands for the labels of name from s on, 0   *)
(* for none.  The names of the dictionary and what they end in are tried in *)
(* turn.  After a comparison that fails the first label is not read again:  *)
(* the one that was unlike is compared as the first with the names left, if *)
(* there was one (a.label in dns_d_comp()).                                 *)
Match(p, name, s) ==
  LET rest == SubSeq(name, s + 1, Len(name))
      Try(known, b) ==
        LET old == <<known.label>> \o rest
            new == NameAt(p, b)
            n == Common(old, new)
        IN  IF known.ended \/ known.at # 0 THEN known
            ELSE IF old = new THEN [known EXCEPT !.at = b]
            ELSE IF n = Len(old) THEN [known EXCEPT !.ended = TRUE]
            ELSE [known EXCEPT !.label = old[n + 1]]
      TryAll(known, c) ==
        LET after[n \in 0..Len(c)] == IF n = 0 THEN known ELSE Try(after[n - 1], c[n].at)
        IN  after[Len(c)]
      last[d \in 0..Len(p.dict)] ==
        IF d = 0 THEN [label |-> name[s], ended |-> FALSE, at |-> 0]
        ELSE TryAll(last[d - 1], Chain(p, p.dict[d]))
  IN  last[Len(p.dict)].at

(* dns_d_comp()                                                             *)
Comp(p, name) ==
  LET whole == [k \in DOMAIN name |-> Label(name[k])] \o <<EndOfName>>
      Shortened(at) ==
        LET known == {s \in DOMAIN at : at[s] # 0}
        IN  IF known = {} THEN whole
            ELSE SubSeq(whole, 1, Min(known) - 1) \o <<Ptr(at[Min(known)])>>
  IN  IF Len(whole) >= Room(p) THEN whole
      ELSE Shortened([s \in DOMAIN name |-> Match(p, name, s)])

(* dns_p_dictadd(): the name takes the place of the one it ends in.         *)
Dictadd(p, cells) ==
  LET known == IF Len(cells) = 1 \/ Last(cells).cell # "ptr" THEN {}
               ELSE {d \in DOMAIN p.dict : p.dict[d] = Last(cells).to}
  IN  IF known # {} THEN [p EXCEPT !.dict[Min(known)] = End(p)]
      ELSE IF Len(p.dict) < DictSize THEN [p EXCEPT !.dict = Append(@, End(p))]
      ELSE p

(* dns_d_push()                                                             *)
PushName(p, name) ==
  LET Write(cells) ==
        IF p.error # "ok" THEN p
        ELSE IF Len(cells) > Room(p) THEN [p EXCEPT !.error = "ENOBUFS"]
        ELSE Put(Dictadd(p, cells), 0, cells)
  IN  Write(Comp(p, name))

-----------------------------------------------------------------------------
(* Records                                                                  *)

(* dns_p_qend()                                                             *)
Qend(p) ==
  LET after[k \in 0..p.count[QD]] == IF k = 0 THEN FirstCell ELSE NameEnd(p, after[k - 1]) + 1
  IN  Min({after[p.count[QD]], End(p)})

(* dns_rr_skip().  A record that is not whole takes what is left.           *)
RrSkip(p, rp) ==
  LET Behind(t) == IF t + 1 <= Qend(p) THEN t + 1
                   ELSE IF t + 2 > Len(p.data) THEN End(p)
                   ELSE t + 3 + p.data[t + 2].len
  IN  Behind(NameEnd(p, rp))

Places(p, from) ==
  LET f[k \in 1..End(p)] == IF k = End(p) THEN <<>> ELSE <<k>> \o f[RrSkip(p, k)]
  IN  f[from]

(* dns_rr_section(): by what is known of the sections, else by counting.    *)
Section(p, rp) ==
  LET within == {s \in Sections : p.memo.base[s] <= rp /\ rp < p.memo.end[s]}
      index == Len(SelectSeq(Places(p, FirstCell), LAMBDA k : k < rp))
      Upto(s) == MapThenSumSet(LAMBDA k : p.count[k], QD..s)
      FirstOf(sections) == IF sections = {} THEN 0 ELSE Min(sections)
  IN  FirstOf(IF within # {} THEN within ELSE {s \in Sections : index < Upto(s)})

TypeAt(p, rp) == p.data[NameEnd(p, rp)].type
IsWhole(p, rp) == LET t == NameEnd(p, rp) IN rp < Qend(p) \/ t + 2 <= Len(p.data)

(* dns_rr_i_match()                                                         *)
Matches(p, want, rp) ==
  /\ IsWhole(p, rp)
  /\ want.sections # {} => Section(p, rp) \in want.sections
  /\ want.type # "ALL" => TypeAt(p, rp) = want.type

(* dns_rr_i_packet() and dns_rr_i_shuffle(): a seed of 0 keeps the order.   *)
Before(p, seed, a, b) ==
  LET Rank(rp) == <<Section(p, rp), Shuffle16(rp, seed)>>
      Lexical(r, s) == r[1] < s[1] \/ (r[1] = s[1] /\ r[2] < s[2])
  IN  IF seed = 0 THEN a < b ELSE Lexical(Rank(a), Rank(b))

LeastRecord(p, seed, places) ==
  IF places = <<>> THEN End(p)
  ELSE FoldLeft(LAMBDA a, b : IF Before(p, seed, b, a) THEN b ELSE a, Head(places), Tail(places))

(* dns_rr_i_start() and dns_rr_i_skip()                                     *)
IStart(p, want, seed) ==
  LET based == {s \in want.sections : p.memo.base[s] # 0}
      from == IF based = {} THEN FirstCell ELSE p.memo.base[Min(based)]
  IN  LeastRecord(p, seed, SelectSeq(Places(p, from), LAMBDA k : Matches(p, want, k)))

(* Goes on behind the record in any order.  No specification uses it.       *)
FaultISkip(p, want, seed, rp) ==
  LeastRecord(p, seed, SelectSeq(Places(p, RrSkip(p, rp)),
    LAMBDA k : Matches(p, want, k) /\ Before(p, seed, rp, k)))

ISkip(p, want, seed, rp) ==
  LET from == IF seed = 0 THEN RrSkip(p, rp) ELSE FirstCell
  IN  LeastRecord(p, seed, SelectSeq(Places(p, from),
        LAMBDA k : Matches(p, want, k) /\ Before(p, seed, rp, k)))

(* dns_rr_grep() until there is none left.                                  *)
RrGrep(p, want, seed) ==
  LET f[rp \in 1..End(p)] ==
        IF rp = End(p) THEN <<>> ELSE <<rp>> \o f[ISkip(p, want, seed, rp)]
  IN  f[IStart(p, want, seed)]

Every == [sections |-> {}, type |-> "ALL"]

(* The data of a record, t being the cell of its type, and the record:      *)
(* dns_any_parse(), dns_rr_parse().                                         *)
ParseA(p, t) == <<p.data[t + 3].value>>
ParseMx(p, t) == <<p.data[t + 3].value, NameAt(p, t + 4)>>
ParseNs(p, t) == <<NameAt(p, t + 3)>>
ParseData(p, t, type) ==
  CASE type = "A" -> ParseA(p, t) [] type = "MX" -> ParseMx(p, t)
    [] type = "OPT" -> <<>> [] OTHER -> ParseNs(p, t)

Read(p, rp) ==
  LET Fields(section, type) ==
        [section |-> section, name |-> NameAt(p, rp), type |-> type,
         data |-> IF section = QD THEN <<>> ELSE ParseData(p, NameEnd(p, rp), type)]
  IN  Fields(Section(p, rp), TypeAt(p, rp))

-----------------------------------------------------------------------------
(* What is known of the sections                                            *)

(* dns_p_study()                                                            *)
Study(p) ==
  LET after(s, from) ==
        LET rp[k \in 0..p.count[s]] ==
              IF k = 0 \/ rp[k - 1] = End(p) THEN (IF k = 0 THEN from ELSE End(p))
              ELSE RrSkip(p, rp[k - 1])
        IN  rp[p.count[s]]
      end[s \in 0..AR] == IF s = 0 THEN FirstCell ELSE after(s, end[s - 1])
      known == [base |-> [s \in Sections |-> end[s - 1]], end |-> [s \in Sections |-> end[s]],
                opt |-> 0]
      Found(first) == [known EXCEPT !.opt = IF first = End(p) THEN 0 ELSE first]
      opt == IStart([p EXCEPT !.memo = known], [sections |-> {AR}, type |-> "OPT"], 0)
  IN  [p EXCEPT !.memo = Found(opt)]

(* Leaves where the sections behind it begin.  No specification uses it.    *)
FaultCounted(p, section, type, rp) ==
  LET q == IF p.memo.base[section] = 0 THEN Study(p) ELSE p
  IN  [q EXCEPT !.count[section] = @ + 1, !.memo.end[section] = End(q)]

(* The record from rp on is counted, and the sections behind it are empty.  *)
Counted(p, section, type, rp) ==
  LET Update(old, end) ==
        [base |-> [s \in Sections |-> IF s > section THEN end ELSE old.base[s]],
         end |-> [s \in Sections |-> IF s >= section THEN end ELSE old.end[s]],
         opt |-> IF section = AR /\ type = "OPT" /\ old.opt = 0 THEN rp ELSE old.opt]
      known == IF p.memo.base[section] = 0 THEN Study(p) ELSE p
  IN  [known EXCEPT !.count[section] = @ + 1, !.memo = Update(@, End(p))]

-----------------------------------------------------------------------------
(* Writing records                                                          *)

(* Data with a name is as long as the name has become.  The length is left  *)
(* out until the name is there, and dns_d_comp() meets the cell that lay    *)
(* in its place, stale.                                                     *)
WithName(p, q, name) ==
  LET Lengthen(named) ==
        IF named.error # "ok" THEN named
        ELSE [named EXCEPT !.data[End(p)] = RdLen(Len(named.data) - End(p))]
  IN  Lengthen(PushName(q, name))

PushA(p, data) == Put(p, 2, <<RdLen(1), Value(data[1])>>)
PushMx(p, data, stale) == WithName(p, Put(p, 3, <<stale, Value(data[1])>>), data[2])
PushNs(p, data, stale) == WithName(p, Put(p, 2, <<stale>>), data[1])
PushOpt(p) == Put(p, 1, <<RdLen(0)>>)

(* dns_any_push()                                                           *)
PushData(p, r, stale) ==
  IF p.error # "ok" THEN p
  ELSE CASE r.type = "A" -> PushA(p, r.data) [] r.type = "MX" -> PushMx(p, r.data, stale)
         [] r.type = "OPT" -> PushOpt(p) [] OTHER -> PushNs(p, r.data, stale)

NameIn(r) == r.section # QD /\ r.type \notin {"A", "OPT"}

(* What may lie in the place of the length of r: part of a record that an   *)
(* error took back, of the draft of a name that became a pointer, or what   *)
(* malloc() gave.  It is seen when a name of the dictionary that an error   *)
(* took back begins there, and is one when it is a label of the name or a   *)
(* pointer; whatever else it is ends that name as a length does.            *)
Unwritten(p, r) ==
  LET stale == \E d \in DOMAIN p.dict : p.dict[d] > Len(p.data)
  IN  {RdLen(0)} \cup (IF stale /\ NameIn(r)
                        THEN {Label(l) : l \in Range(Last(r.data))} \cup {Ptr(k) : k \in DOMAIN p.data}
                        ELSE {})

(* dns_p_push(): after an error the packet ends where it did, and the names *)
(* that were written stay in the dictionary.                                *)
PushRecord(p, r, stale) ==
  LET typed == Put(PushName([p EXCEPT !.error = "ok"], r.name), 1, <<Type(r.type)>>)
      late == \E s \in Sections : s > r.section /\ p.count[s] > 0
      Finish(whole) ==
        IF whole.error = "ok" /\ ~late THEN Counted(whole, r.section, r.type, End(p))
        ELSE [p EXCEPT !.dict = whole.dict,
                       !.error = IF whole.error = "ok" THEN "EORDER" ELSE whole.error]
  IN  Finish(IF r.section = QD THEN typed ELSE PushData(Put(typed, 2, <<TTL>>), r, stale))

(* dns_p_grow(): the power of two above the size of what is in use.         *)
Grown(p) ==
  LET size == Min(Powers \ 0..(Overhead + Len(p.data)))
  IN  IF size > MaxSize THEN [p EXCEPT !.error = "ENOBUFS"]
      ELSE [p EXCEPT !.size = size, !.error = "ok"]

(* dns_p_copy() into a packet made for it                                   *)
CopyOf(p) == [Made(Len(p.data)) EXCEPT !.data = p.data, !.count = p.count]

Question(name, type) == [section |-> QD, name |-> name, type |-> type, data |-> <<>>]
OPT == [section |-> AR, name |-> Root, type |-> "OPT", data |-> <<>>]

(* dns_q_make2(): a packet there was is used again.  With an error it is    *)
(* freed, and the packet in its place is the one that is made next.         *)
QueryFor(size, question, edns0) ==
  LET AddOpt(asked) == IF edns0 /\ asked.error = "ok" THEN PushRecord(asked, OPT, RdLen(0)) ELSE asked
      OrFreed(whole) == IF whole.error = "ok" THEN whole ELSE [Made(QBuf) EXCEPT !.error = "freed"]
  IN  OrFreed(AddOpt(PushRecord(Made(size), question, RdLen(0))))

-----------------------------------------------------------------------------
(* Calls                                                                    *)

PacketInit == \E size \in Sizes : P = Made(size) /\ pushed = <<>> /\ failed = FALSE

Push(r) ==
  /\ Len(pushed) < MaxRecords
  /\ \E stale \in Unwritten(P, r) : P' = PushRecord(P, r, stale)
  /\ pushed' = IF P'.error = "ok" THEN Append(pushed, r) ELSE pushed
  /\ failed' = (failed \/ P'.error # "ok")

(* Only callers that have just met with ENOBUFS grow a packet.              *)
Grow ==
  /\ P.error = "ENOBUFS"
  /\ P' = Grown(P)
  /\ UNCHANGED <<pushed, failed>>

Reset ==
  /\ P' = Made(P.size)
  /\ pushed' = <<>> /\ failed' = FALSE

Copy ==
  /\ P' = CopyOf(P)
  /\ UNCHANGED <<pushed, failed>>

StudyIt ==
  /\ P' = Study(P)
  /\ UNCHANGED <<pushed, failed>>

(* dns_q_make(), and dns_q_remake() with the question as it is read.        *)
QMake(question, size) ==
  /\ failed' = FALSE
  /\ \E edns0 \in BOOLEAN :
       /\ P' = QueryFor(size, question, edns0)
       /\ pushed' = IF P'.error # "ok" THEN <<>>
                    ELSE <<question>> \o (IF edns0 THEN <<OPT>> ELSE <<>>)

Ask ==
  \E r \in RecordsToPush : r.section = QD /\ QMake(r, QBuf)

QRemake ==
  /\ P.data # <<>> /\ IsWhole(P, FirstCell)
  /\ QMake(Question(NameAt(P, FirstCell), TypeAt(P, FirstCell)), P.size)

PacketNext ==
  \/ \E r \in RecordsToPush : Push(r)
  \/ Grow \/ Reset \/ Copy \/ StudyIt \/ Ask \/ QRemake

PacketSpec == PacketInit /\ [][PacketNext]_packetVars

-----------------------------------------------------------------------------
(* No push writes beyond the buffer, however often the packet grows and is  *)
(* copied, and a compressed name points back: dns_d_expand(), which follows *)
(* the pointers, comes to an end.  It points to labels there are or, when   *)
(* it is in the data of a record, perhaps to the length of these data: that *)
(* is where a name that an error took back may have begun, and dns_ns_push()*)
(* and dns_mx_push() write the length only after the name.                  *)
PayloadIsSound ==
  /\ Len(P.data) <= P.size
  /\ \A k \in DOMAIN P.data : P.data[k].cell = "ptr" =>
       LET to == P.data[k].to
       IN  to < k /\ (Chain(P, to) # <<>> \/ P.data[to] = RdLen(k - to))
  /\ Len(P.dict) <= DictSize

(* What pushes keep up to date of the sections is what a study of the       *)
(* packet would find, whether they began with an empty packet, with a copy  *)
(* or after errors.  Iterators begin where the memo says and take a record  *)
(* to be in the section it says.                                            *)
MemoIsStudy == P.memo = NoMemo \/ P.memo = Study(P).memo

(* A name as it was pushed, or with one label in the place of which stands  *)
(* a later one of the same name: what Match() does.                         *)
Alike(new, old) ==
  \/ new = old
  \/ /\ Len(new) = Len(old)
     /\ \E s \in DOMAIN old, t \in DOMAIN old :
          s < t /\ new = [old EXCEPT ![s] = old[t]]

(* All records of a packet.                                                 *)
ReadAll(p) ==
  LET At(places) == [k \in DOMAIN places |-> Read(p, places[k])]
  IN  At(RrGrep(p, Every, 0))

(* The records that were pushed with success, and no others, are read back  *)
(* in their order, each with its section (with or without a memo), type,    *)
(* name and data.  Names may differ by the label that dns_d_comp() takes    *)
(* for another; and once a push has failed, a name in the data may lack its *)
(* end, the labels for which dns_d_comp() took what lay under the length.   *)
ReadsBack ==
  LET SameRecord(new, old) ==
        /\ new.section = old.section /\ new.type = old.type
        /\ Alike(new.name, old.name)
        /\ IF NameIn(old)
             THEN /\ Front(new.data) = Front(old.data)
                  /\ \/ Alike(Last(new.data), Last(old.data))
                     \/ failed /\ IsStrictPrefix(Last(new.data), Last(old.data))
             ELSE new.data = old.data
      Same(read) ==
        /\ Len(read) = Len(pushed)
        /\ \A k \in DOMAIN read : SameRecord(read[k], pushed[k])
  IN  Same(ReadAll(P)) /\ Same(ReadAll([P EXCEPT !.memo = NoMemo]))

(* The records that were pushed are read back with their names and data as  *)
(* they were: what parse-packet shows as the copy of a packet is like the   *)
(* original.                                                                *)
NamesReadBack ==
  LET AsPushed(read) == \A k \in DOMAIN read : read[k] = pushed[k]
  IN  AsPushed(ReadAll(P))

(* An iterator that shuffles, which stops at the first position that has no *)
(* next, gives every record of a type once, the sections one after another. *)
ShuffleVisitsEachOnce ==
  \A seed \in ISeeds, type \in {"ALL", "A"} :
    LET want == [sections |-> {}, type |-> type]
        Complete(shuffled, inOrder) ==
          /\ Range(shuffled) = Range(inOrder) /\ Len(shuffled) = Len(inOrder)
          /\ \A j, k \in DOMAIN shuffled :
               j < k => Section(P, shuffled[j]) <= Section(P, shuffled[k])
    IN  Complete(RrGrep(P, want, seed), RrGrep(P, want, 0))
==============================================================================
