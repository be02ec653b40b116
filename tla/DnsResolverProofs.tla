-------------------------- MODULE DnsResolverProofs --------------------------
(***************************************************************************)
(* Proofs about DnsResolver for any configurations, questions, servers and *)
(* depth of the stack.                                                     *)
(*                                                                         *)
(* IInv says what the stack is like: frames that wait have a frame above   *)
(* them, a frame that has an answer has one, and the socket is put to use  *)
(* by the frame at the top.                                                *)
(*                                                                         *)
(* BInv adds whose answer it is.  A frame above another is entered for the *)
(* other's alias, for the address of a name server or for an address that  *)
(* is added to the answer, and only the first kind may give records to the *)
(* frame below: Belonging follows names through aliases (Leads) as far as  *)
(* the frames above have come, which the depth of the stack bounds.        *)
(*                                                                         *)
(* Pursuit says what the first frame has done when it is in its state: to  *)
(* which names and servers it has put the question, and how often.         *)
(***************************************************************************)
EXTENDS DnsResolver, FiniteSetTheorems, SequenceTheorems, WellFoundedInduction, TLAPS

(* Frames and packets are records, whatever is in their fields.             *)
IsPacket(P) == P = [kind |-> P.kind, an |-> P.an, ns |-> P.ns, ar |-> P.ar, aa |-> P.aa]
IsFrame(f) ==
  f = [state |-> f.state, which |-> f.which, edns |-> f.edns, attempts |-> f.attempts,
       query |-> f.query, type |-> f.type, answer |-> f.answer, hints |-> f.hints,
       nsI |-> f.nsI, saved |-> f.saved, ns |-> f.ns, j |-> f.j, cname |-> f.cname]

(* The states a frame waits in for the one above, and those in which it has *)
(* the answer it will give.                                                 *)
Awaiting == {"RESOLV1_NS", "CNAME1_A", "SMART1_A"}
Answered == {"CNAME0_A", "CNAME1_A", "FINISH", "SMART0_A", "SMART1_A", "DONE"}

Fetched == pc \in {"fetched", "efetched"}

(* The stack: every frame is one, a frame that waits has one above it, which *)
(* is done when it is left, and an answer is there when it is said to be.   *)
Stacked ==
  /\ conf \in Confs /\ q \in Questions
  /\ sp \in 1..MaxDepth /\ DOMAIN stack = 1..MaxDepth
  /\ \A k \in 1..MaxDepth :
       /\ IsFrame(stack[k]) /\ IsPacket(stack[k].answer) /\ stack[k].which \in Nat
       /\ stack[k].state \in Awaiting => k < MaxDepth
       /\ stack[k].state \in Answered /\ ~(k = 1 /\ Fetched) => stack[k].answer.kind # "none"
  /\ F.state \in Awaiting => stack[sp + 1].state = "DONE"
  /\ IsPacket(nodata) /\ (nodata = NoPacket \/ nodata.kind # "none")

IInv == FramesAwait /\ SocketServesTopFrame /\ Stacked

-----------------------------------------------------------------------------
(* How a step of dns_res_exec() changes the stack.  The frame it is in goes *)
(* on as f, with the one above it or without, or stays as it is.            *)
Goes(f) == stack' = [stack EXCEPT ![sp] = f] /\ sp' = sp /\ pc = "exec" /\ pc' = "exec"
Enters(f, up) ==
  /\ stack' = [stack EXCEPT ![sp] = f, ![sp + 1] = up] /\ sp' = sp + 1
  /\ pc = "exec" /\ pc' = "exec" /\ sp < MaxDepth
Leaves(f) ==
  /\ stack' = [stack EXCEPT ![sp] = f, ![sp + 1] = Frame(conf)] /\ sp' = sp
  /\ pc = "exec" /\ pc' = "exec"

Sound(f) ==
  /\ IsFrame(f) /\ IsPacket(f.answer) /\ f.which \in Nat
  /\ f.state \in Answered => f.answer.kind # "none"
SoundNodata == IsPacket(nodata') /\ (nodata' = NoPacket \/ nodata'.kind # "none")

LEMMA FrameIsSound == ASSUME NEW c PROVE Sound(Frame(c)) /\ Frame(c).state = "INIT"
  BY DEF Sound, IsFrame, IsPacket, Frame, NoPacket, Packet, Answered

LEMMA TopIsSound ==
  ASSUME Stacked, pc = "exec"
  PROVE  Sound(F) /\ (F.state \in Awaiting => sp < MaxDepth /\ stack[sp + 1].state = "DONE")
  BY DEF Stacked, Sound, Fetched, F

LEMMA SameCandidates == ASSUME UNCHANGED setting PROVE Candidates' = Candidates
  BY DEF setting, Candidates

LEMMA GoesOn ==
  ASSUME IInv, NEW f, Goes(f), Sound(f), f.state \notin Awaiting,
         f.state = "QUERY_A" => so' = [name |-> f.query, type |-> f.type, edns |-> f.edns],
         UNCHANGED setting, search' \in 0..Len(Candidates), SoundNodata
  PROVE  IInv'
<1>0. /\ sp \in 1..MaxDepth /\ DOMAIN stack = 1..MaxDepth /\ stack'[sp] = f
      /\ \A k \in 1..MaxDepth : k # sp => stack'[k] = stack[k]
      /\ DOMAIN stack' = 1..MaxDepth /\ ~Fetched /\ ~Fetched'
  BY DEF IInv, Stacked, Goes, Fetched
<1>1. Stacked'
  BY <1>0 DEF IInv, Stacked, Goes, Sound, SoundNodata, setting, F
<1>2. FramesAwait'
  <2>1. sp' = sp /\ pc = "exec" /\ pc' = "exec" /\ Candidates' = Candidates
    BY SameCandidates DEF Goes
  <2>2. ASSUME NEW k \in 1..(sp - 1)
        PROVE  stack'[k].state \in {"RESOLV1_NS", "CNAME1_A", "SMART1_A"}
    <3>1. k \in 1..MaxDepth /\ k # sp
      BY <1>0, ResolverAssumption DEF ResolverAssumption
    <3>. QED
      BY <1>0, <3>1 DEF IInv, FramesAwait
  <2>. QED
    BY <1>0, <2>1, <2>2 DEF IInv, FramesAwait, F
<1>3. SocketServesTopFrame'
  BY <1>0 DEF SocketServesTopFrame, Goes, F
<1>. QED
  BY <1>1, <1>2, <1>3 DEF IInv

LEMMA GoesUp ==
  ASSUME IInv, NEW f, NEW up, Enters(f, up), Sound(f), Sound(up), f.state \in Awaiting,
         up.state \notin Awaiting \cup {"QUERY_A"}, UNCHANGED setting, search' = search, nodata' = nodata
  PROVE  IInv'
<1>0. /\ sp \in 1..MaxDepth /\ sp + 1 \in 1..MaxDepth /\ MaxDepth \in Nat
      /\ \A k \in 1..MaxDepth : stack'[k] = IF k = sp + 1 THEN up ELSE IF k = sp THEN f ELSE stack[k]
      /\ DOMAIN stack' = 1..MaxDepth /\ ~Fetched /\ ~Fetched'
  <2>1. /\ sp \in 1..MaxDepth /\ MaxDepth \in Nat /\ DOMAIN stack = 1..MaxDepth /\ sp < MaxDepth
        /\ stack' = [stack EXCEPT ![sp] = f, ![sp + 1] = up] /\ ~Fetched /\ ~Fetched'
    BY ResolverAssumption DEF IInv, Stacked, Enters, ResolverAssumption, Fetched
  <2>2. sp + 1 \in 1..MaxDepth /\ sp # sp + 1
    BY <2>1
  <2>. QED
    BY <2>1, <2>2
<1>1. Stacked'
  BY <1>0 DEF IInv, Stacked, Enters, Sound, setting, F
<1>2. FramesAwait'
  BY <1>0, SameCandidates, SMTT(60) DEF IInv, Stacked, FramesAwait, Enters, F, Awaiting
<1>3. SocketServesTopFrame'
  BY <1>0 DEF SocketServesTopFrame, Enters, F
<1>. QED
  BY <1>1, <1>2, <1>3 DEF IInv

LEMMA GoesDown ==
  ASSUME IInv, NEW f, Leaves(f), Sound(f), f.state \notin Awaiting \cup {"QUERY_A"}, F.state \in Awaiting,
         UNCHANGED setting, search' = search, nodata' = nodata
  PROVE  IInv'
<1>0. /\ sp \in 1..MaxDepth /\ sp + 1 \in 1..MaxDepth /\ MaxDepth \in Nat
      /\ \A k \in 1..MaxDepth : stack'[k] = IF k = sp + 1 THEN Frame(conf) ELSE IF k = sp THEN f ELSE stack[k]
      /\ DOMAIN stack' = 1..MaxDepth /\ ~Fetched /\ ~Fetched'
  <2>1. sp \in 1..MaxDepth /\ MaxDepth \in Nat /\ DOMAIN stack = 1..MaxDepth /\ sp < MaxDepth
    BY TopIsSound, ResolverAssumption DEF IInv, Stacked, Leaves, ResolverAssumption
  <2>. QED
    BY <2>1 DEF Leaves, Fetched
<1>1. Stacked'
  BY <1>0, FrameIsSound DEF IInv, Stacked, Leaves, Sound, setting, F, Awaiting
<1>2. FramesAwait'
  BY <1>0, SameCandidates, SMTT(60) DEF IInv, Stacked, FramesAwait, Leaves, F, Awaiting
<1>3. SocketServesTopFrame'
  BY <1>0 DEF SocketServesTopFrame, Leaves, F
<1>. QED
  BY <1>1, <1>2, <1>3 DEF IInv

(* Nothing of the stack changes, and dns_res_exec() returns with r.         *)
LEMMA ReturnsWith ==
  ASSUME IInv, pc = "exec", NEW r, r \in {"idle", "error", "stuck"}, Returns(r), UNCHANGED <<setting, R, so>>,
         r = "idle" => F.state \in {"INIT", "QUERY_A", "CHECK"}
  PROVE  IInv'
<1>1. Stacked'
  BY DEF IInv, Stacked, Returns, setting, R, Fetched, F
<1>2. FramesAwait'
  BY SameCandidates DEF IInv, FramesAwait, Returns, setting, R, F
<1>3. SocketServesTopFrame'
  BY DEF IInv, SocketServesTopFrame, Returns, F
<1>. QED
  BY <1>1, <1>2, <1>3 DEF IInv

LEMMA PacketWhat ==
  ASSUME NEW kind, NEW an, NEW ns, NEW ar, NEW aa
  PROVE  /\ IsPacket(Packet(kind, an, ns, ar, aa))
         /\ Packet(kind, an, ns, ar, aa).kind = kind /\ Packet(kind, an, ns, ar, aa).an = an
  BY DEF IsPacket, Packet

(* What a server says is a packet, with an answer for the name, an alias,   *)
(* both, or none.                                                           *)
LEMMA SaysWhat ==
  ASSUME NEW name, NEW type, NEW P \in Says(name, type)
  PROVE  /\ IsPacket(P) /\ P.kind \in {"answer", "formerr"}
         /\ P.kind = "formerr" => P.an = {}
         /\ \/ P.an = {}
            \/ \E d : P.an = {Rec(type, name, d)} /\ (type = "CNAME" => d \in Others)
            \/ \E c \in Others : P.an = {Rec("CNAME", name, c)}
            \/ \E c \in Others : \E d : P.an = {Rec("CNAME", name, c), Rec(type, c, d)}
                                       /\ (type = "CNAME" => d \in Others)
<1>1. \/ \E d : (type = "CNAME" => d \in Others)
                /\ P = Packet("answer", {Rec(type, name, d)}, {}, <<>>, FALSE)
      \/ \E c \in Others : P = Packet("answer", {Rec("CNAME", name, c)}, {}, <<>>, FALSE)
      \/ \E c \in Others : \E d : (type = "CNAME" => d \in Others)
             /\ P = Packet("answer", {Rec("CNAME", name, c), Rec(type, c, d)}, {}, <<>>, FALSE)
      \/ \E ns, ar, aa : P = Packet("answer", {}, ns, ar, aa)
      \/ P = Packet("formerr", {}, {}, <<>>, FALSE)
  BY DEF Says, Packet, Rec
<1>. QED
  BY <1>1 DEF IsPacket, Packet

LEMMA OneRecordWhat ==
  ASSUME NEW type, NEW name, NEW d
  PROVE  /\ IsPacket(OneRecord(type, name, d)) /\ OneRecord(type, name, d).kind = "answer"
         /\ OneRecord(type, name, d).an = {Rec(type, name, d)}
  BY DEF OneRecord, IsPacket, Packet

LEMMA NoPacketWhat ==
  /\ IsPacket(NoPacket) /\ NoPacket.kind = "none" /\ NoPacket.an = {}
  /\ IsPacket(ServFail) /\ ServFail.kind = "servfail" /\ ServFail.an = {}
  BY DEF NoPacket, ServFail, IsPacket, Packet

(* A frame that goes on, in a state of its own, keeps the stack in order.   *)
LEMMA BecomeKeeps ==
  ASSUME IInv, pc = "exec", pc' = pc, NEW f, Become(f), Sound(f),
         f.state \notin Awaiting \cup {"QUERY_A"},
         UNCHANGED setting, search' \in 0..Len(Candidates), SoundNodata
  PROVE  IInv'
  BY GoesOn DEF Become, Goes

LEMMA GotoKeeps ==
  ASSUME IInv, pc = "exec", pc' = pc, NEW s, Goto(s), s \notin Awaiting \cup {"QUERY_A"},
         s \in Answered => F.state \in Answered,
         UNCHANGED setting, search' \in 0..Len(Candidates), SoundNodata
  PROVE  IInv'
<1>1. PICK f : f = [F EXCEPT !.state = s]
  OBVIOUS
<1>2. Sound(f) /\ f.state = s
  BY <1>1, TopIsSound DEF IInv, Sound, IsFrame
<1>. QED
  BY <1>1, <1>2, BecomeKeeps DEF Goto

(* The frame takes a packet for its answer, and is done or follows an alias. *)
LEMMA FinishKeeps ==
  ASSUME IInv, pc = "exec", pc' = pc, NEW P, IsPacket(P), P.kind # "none",
         Become([F EXCEPT !.state = "FINISH", !.answer = P]),
         UNCHANGED setting, search' \in 0..Len(Candidates), SoundNodata
  PROVE  IInv'
<1>1. PICK f : f = [F EXCEPT !.state = "FINISH", !.answer = P]
  OBVIOUS
<1>2. Sound(f) /\ f.state = "FINISH"
  BY <1>1, TopIsSound DEF IInv, Sound, IsFrame
<1>. QED
  BY <1>1, <1>2, BecomeKeeps DEF Awaiting

LEMMA FollowKeeps ==
  ASSUME IInv, pc = "exec", pc' = pc, NEW P, IsPacket(P), P.kind # "none", Follow(P),
         UNCHANGED setting, search' \in 0..Len(Candidates), SoundNodata
  PROVE  IInv'
<1>1. PICK r : Become([F EXCEPT !.state = "CNAME0_A", !.answer = P, !.cname = r.data])
  BY DEF Follow
<1>2. PICK f : f = [F EXCEPT !.state = "CNAME0_A", !.answer = P, !.cname = r.data]
  OBVIOUS
<1>3. Sound(f) /\ f.state = "CNAME0_A"
  BY <1>2, TopIsSound DEF IInv, Sound, IsFrame
<1>. QED
  BY <1>1, <1>2, <1>3, BecomeKeeps DEF Awaiting

LEMMA OnlyTheStack ==
  ASSUME IInv, UNCHANGED R
  PROVE  SoundNodata /\ search' \in 0..Len(Candidates)
  BY DEF IInv, FramesAwait, Stacked, SoundNodata, R

-----------------------------------------------------------------------------
(* Each state of dns_res_exec() keeps the stack in order.                   *)
LEMMA InitGlueKeeps == ASSUME IInv, InitGlue PROVE IInv'
<1>1. PICK P : P = Packet("answer", ResGlue, {}, <<>>, FALSE)
  OBVIOUS
<1>2. /\ pc = "exec" /\ pc' = pc /\ UNCHANGED <<setting, R>>
      /\ IsPacket(P) /\ P.kind = "answer" /\ Sound(F)
  <2>1. /\ pc = "exec" /\ pc' = pc /\ UNCHANGED <<setting, R>>
    BY DEF InitGlue, In
  <2>2. Sound(F)
    BY <2>1, TopIsSound DEF IInv
  <2>. QED
    BY <1>1, <2>1, <2>2 DEF IsPacket, Packet
<1>3. \/ Goto("SWITCH")
      \/ Become([F EXCEPT !.state = "FINISH", !.answer = P])
      \/ Follow(P)
  BY <1>1 DEF InitGlue, Goto
<1>. QED
  BY <1>2, <1>3, OnlyTheStack, GotoKeeps, FinishKeeps, FollowKeeps DEF Awaiting, Answered

(* The names of a search, whatever comes first.                             *)
LEMMA ListOfNames ==
  ASSUME NEW n \in Nat, NEW L, NEW added, added = [k \in 1..n |-> k + 1],
         L = << 1 >> \/ L = << 1 >> \o added \/ L = added \o << 1 >>
  PROVE  /\ L \in Seq(Nat \ {0}) /\ DOMAIN L = 1..Len(L) /\ Len(L) \in 1..(n + 1) /\ \E k \in 1..Len(L) : L[k] = 1
<1>1. added \in Seq(Nat \ {0}) /\ Len(added) = n
  OBVIOUS
<1>3. <<1>> \in Seq(Nat \ {0}) /\ Len(<<1>>) = 1 /\ <<1>>[1] = 1
  OBVIOUS
<1>4. CASE L = <<1>>
  BY <1>1, <1>3, <1>4
<1>5. CASE L = <<1>> \o added
  <2>1. L \in Seq(Nat \ {0}) /\ Len(L) = n + 1 /\ L[1] = 1
    BY <1>1, <1>3, <1>5, ConcatProperties
  <2>. QED
    BY <2>1
<1>6. CASE L = added \o <<1>>
  <2>1. L \in Seq(Nat \ {0}) /\ Len(L) = n + 1 /\ L[n + 1] = 1
    BY <1>1, <1>3, <1>6, ConcatProperties
  <2>. QED
    BY <2>1
<1>. QED
  BY <1>4, <1>5, <1>6

LEMMA CandidatesWhat ==
  ASSUME conf \in Confs
  PROVE  /\ Candidates \in Seq(Nat \ {0}) /\ Len(Candidates) \in Nat
         /\ DOMAIN Candidates = 1..Len(Candidates) /\ Len(Candidates) \in 1..(conf.search + 1)
         /\ \E k \in 1..Len(Candidates) : Candidates[k] = 1
<1>1. PICK added : added = [k \in 1..conf.search |-> k + 1]
  OBVIOUS
<1>2. PICK n \in Nat : n = conf.search
  BY ResolverAssumption DEF ResolverAssumption
<1>3. Candidates = <<1>> \/ Candidates = <<1>> \o added \/ Candidates = added \o <<1>>
  BY Zenon, <1>1 DEF Candidates
<1>4. /\ Candidates \in Seq(Nat \ {0}) /\ DOMAIN Candidates = 1..Len(Candidates)
      /\ Len(Candidates) \in 1..(n + 1) /\ \E k \in 1..Len(Candidates) : Candidates[k] = 1
  BY <1>1, <1>2, <1>3, ListOfNames
<1>. QED
  BY <1>2, <1>4

LEMMA CandidatesNext ==
  ASSUME conf' \in Confs
  PROVE  Len(Candidates') \in Nat
<1>1. PICK added : added = [k \in 1..conf'.search |-> k + 1]
  OBVIOUS
<1>2. conf'.search \in Nat
  BY ResolverAssumption DEF ResolverAssumption
<1>3. Candidates' = <<1>> \/ Candidates' = <<1>> \o added \/ Candidates' = added \o <<1>>
  BY Zenon, <1>1 DEF Candidates
<1>. QED
  BY <1>1, <1>2, <1>3, ListOfNames

(* A place of a list comes before the others of a set of them.              *)
LEMMA FirstPlace ==
  ASSUME NEW S, S \subseteq Nat, S # {}
  PROVE  \E k \in S : \A o \in S : k <= o
<1>. DEFINE Less == {p \in Nat \X Nat : p[1] < p[2]}
<1>1. IsWellFoundedOn(Less, Nat)
  BY NatLessThanWellFounded DEF OpToRel
<1>2. PICK k \in S : \A o \in S : ~ (<<o, k>> \in Less)
  BY <1>1, WFMin
<1>3. ASSUME NEW o \in S PROVE k <= o
  <2>1. k \in Nat /\ o \in Nat /\ <<o, k>> \notin Less
    BY <1>2
  <2>2. ~ (o < k)
    BY <2>1
  <2>. QED
    BY <2>1, <2>2
<1>. QED
  BY <1>3

LEMMA SwitchKeeps == ASSUME IInv, Switch PROVE IInv'
<1>1. /\ pc = "exec" /\ pc' = pc /\ UNCHANGED <<setting, search>> /\ Sound(F)
      /\ search' \in 0..Len(Candidates) /\ conf \in Confs
  BY TopIsSound DEF Switch, In, IInv, FramesAwait, Stacked
<1>2. CASE F.which < Len(conf.lookup)
  <2>0. PICK s : s = IF conf.lookup[F.which + 1] = "CACHE" /\ ~conf.cache
                     THEN "SWITCH" ELSE conf.lookup[F.which + 1]
    OBVIOUS
  <2>1. PICK f : f = [F EXCEPT !.which = @ + 1, !.state = s]
    OBVIOUS
  <2>2. Become(f) /\ nodata' = nodata
    BY Zenon, <1>2, <2>0, <2>1 DEF Switch
  <2>5. SoundNodata
    BY <2>2 DEF IInv, Stacked, SoundNodata
  <2>3. conf.lookup[F.which + 1] \in {"FILE", "BIND", "CACHE"}
    <3>1. conf.lookup \in Seq({"FILE", "BIND", "CACHE"}) /\ F.which + 1 \in 1..Len(conf.lookup)
      BY <1>1, <1>2, ResolverAssumption DEF ResolverAssumption, Sound
    <3>. QED
      BY <3>1, ElementOfSeq
  <2>6. s \in {"SWITCH", "FILE", "BIND", "CACHE"}
    BY Zenon, <2>0, <2>3
  <2>4. Sound(f) /\ f.state = s
    <3>0. PICK w : w = F.which + 1
      OBVIOUS
    <3>1. /\ f.state = s /\ IsFrame(f) /\ f.answer = F.answer /\ f.which \in Nat
      <4>1. f = [F EXCEPT !.which = w, !.state = s] /\ w \in Nat
        BY <1>1, <2>1, <3>0 DEF Sound
      <4>. QED
        BY <1>1, <4>1 DEF Sound, IsFrame
    <3>. QED
      BY <1>1, <3>1, <2>6 DEF Sound, Answered
  <2>. QED
    BY <1>1, <2>2, <2>4, <2>5, <2>6, BecomeKeeps DEF Awaiting
<1>3. CASE Become([F EXCEPT !.answer = nodata, !.state = "FINISH"]) /\ nodata' = NoPacket /\ nodata # NoPacket
  <2>1. PICK f : f = [F EXCEPT !.answer = nodata, !.state = "FINISH"]
    OBVIOUS
  <2>2. Sound(f) /\ f.state = "FINISH" /\ SoundNodata
    BY <1>1, <1>3, <2>1, NoPacketWhat DEF Sound, IsFrame, SoundNodata, IInv, Stacked
  <2>. QED
    BY <1>1, <1>3, <2>1, <2>2, BecomeKeeps DEF Awaiting
<1>4. CASE Goto("SERVFAIL") /\ UNCHANGED nodata
  <2>1. SoundNodata
    BY <1>4 DEF IInv, Stacked, SoundNodata
  <2>. QED
    BY <1>1, <1>4, <2>1, GotoKeeps DEF Awaiting, Answered
<1>. QED
  BY <1>2, <1>3, <1>4 DEF Switch

LEMMA FileKeeps == ASSUME IInv, File PROVE IInv'
<1>. DEFINE names == IF sp > 1 THEN <<F.query>> ELSE Candidates
            type == IF sp > 1 THEN F.type ELSE q.type
            found == {k \in DOMAIN names : InHosts(names[k], type)}
            at == IF found = {} THEN Len(names) ELSE CHOOSE k \in found : \A o \in found : k <= o
            here == [F EXCEPT !.query = names[at], !.type = type]
<1>1. /\ pc = "exec" /\ pc' = pc /\ UNCHANGED <<setting, nodata>> /\ Sound(F)
      /\ search \in 0..Len(Candidates) /\ conf \in Confs /\ SoundNodata /\ sp \in Nat
  BY TopIsSound DEF File, In, IInv, FramesAwait, Stacked, SoundNodata
<1>2. search' \in 0..Len(Candidates)
  <2>1. CASE sp > 1
    BY <1>1, <2>1 DEF File
  <2>2. CASE ~(sp > 1) /\ found = {}
    BY <1>1, <2>2, CandidatesWhat DEF File
  <2>3. CASE ~(sp > 1) /\ found # {}
    <3>1. found \subseteq 1..Len(Candidates)
      BY <1>1, <2>3, CandidatesWhat
    <3>2. \E k \in found : \A o \in found : k <= o
      <4>1. found \subseteq Nat /\ found # {}
        BY <1>1, <2>3, <3>1, CandidatesWhat
      <4>. HIDE DEF found
      <4>. QED
        BY <4>1, FirstPlace
    <3>3. at \in found
      BY <2>3, <3>2
    <3>4. search' = at
      BY <2>3 DEF File
    <3>. QED
      BY <3>1, <3>3, <3>4
  <2>. QED
    BY <2>1, <2>2, <2>3
<1>3. \/ Become([here EXCEPT !.answer = NoPacket, !.state = "SWITCH"])
      \/ Become([here EXCEPT !.answer = OneRecord("A", names[at], names[at]), !.state = "FINISH"])
  BY DEF File
<1>4. PICK x, y : \/ Become([[F EXCEPT !.query = x, !.type = y] EXCEPT !.answer = NoPacket, !.state = "SWITCH"])
                  \/ Become([[F EXCEPT !.query = x, !.type = y] EXCEPT
                               !.answer = OneRecord("A", x, x), !.state = "FINISH"])
  BY Zenon, <1>3
<1>5. PICK h : h = [F EXCEPT !.query = x, !.type = y]
  OBVIOUS
<1>6. PICK P, s, f : /\ Become(f) /\ f = [h EXCEPT !.answer = P, !.state = s]
                     /\ IsPacket(P) /\ P.kind \in {"none", "answer"}
                     /\ s \in {"SWITCH", "FINISH"} /\ (s = "FINISH" => P.kind = "answer")
  BY <1>4, <1>5, NoPacketWhat, OneRecordWhat
<1>7. IsFrame(h) /\ h.which \in Nat
  BY <1>1, <1>5 DEF Sound, IsFrame
<1>8. Sound(f) /\ f.state \in {"SWITCH", "FINISH"}
  BY <1>6, <1>7 DEF Sound, IsFrame, Answered
<1>. QED
  BY <1>1, <1>2, <1>6, <1>8, BecomeKeeps DEF Awaiting

LEMMA CacheKeeps == ASSUME IInv, Cache PROVE IInv'
<1>1. pc = "exec" /\ UNCHANGED <<setting, R, so>> /\ Sound(F)
  BY TopIsSound DEF Cache, FromCache, In, IInv
<1>2. CASE FromCache /\ pc' = pc
  <2>. DEFINE name == IF F.query = NoName THEN 1 ELSE F.query
              type == IF F.query = NoName THEN q.type ELSE F.type
  <2>1. PICK h : h = [F EXCEPT !.query = name, !.type = type]
    OBVIOUS
  <2>2. \/ \E d : Become([h EXCEPT !.answer = OneRecord(type, name, d), !.state = "FINISH"])
        \/ Become([h EXCEPT !.answer = NoPacket, !.state = "SWITCH"])
        \/ Become([h EXCEPT !.state = "SUBMIT"])
    BY Zenon, <1>2, <2>1 DEF FromCache
  <2>. HIDE DEF name, type
  <2>4. IsFrame(h) /\ h.answer = F.answer /\ h.which \in Nat
    BY <1>1, <2>1 DEF Sound, IsFrame
  <2>5. PICK P, s, f : /\ Become(f) /\ f = [h EXCEPT !.answer = P, !.state = s]
                       /\ IsPacket(P) /\ s \in {"SWITCH", "FINISH", "SUBMIT"}
                       /\ s = "FINISH" => P.kind = "answer"
    <3>1. h = [h EXCEPT !.answer = F.answer]
      BY <2>4 DEF IsFrame
    <3>2. [h EXCEPT !.state = "SUBMIT"] = [h EXCEPT !.answer = F.answer, !.state = "SUBMIT"]
      BY <3>1
    <3>. QED
      <4>1. CASE \E d : Become([h EXCEPT !.answer = OneRecord(type, name, d), !.state = "FINISH"])
        BY <4>1, OneRecordWhat
      <4>2. CASE Become([h EXCEPT !.answer = NoPacket, !.state = "SWITCH"])
        <5>1. PICK f, P : /\ Become(f) /\ f = [h EXCEPT !.answer = P, !.state = "SWITCH"]
                          /\ IsPacket(P)
          BY Zenon, <4>2, NoPacketWhat
        <5>. WITNESS P, "SWITCH", f
        <5>. QED
          BY <5>1
      <4>3. CASE Become([h EXCEPT !.state = "SUBMIT"])
        BY <1>1, <3>2, <4>3 DEF Sound
      <4>. QED
        BY <2>2, <4>1, <4>2, <4>3
  <2>6. Sound(f) /\ f.state \in {"SWITCH", "FINISH", "SUBMIT"}
    BY <2>4, <2>5 DEF Sound, IsFrame, Answered
  <2>. QED
    BY <1>1, <1>2, <2>5, <2>6, OnlyTheStack, BecomeKeeps DEF Awaiting
<1>3. CASE Goto("CHECK") /\ pc' = pc
  BY <1>1, <1>3, OnlyTheStack, GotoKeeps DEF Awaiting, Answered
<1>4. CASE In("CHECK") /\ Returns("idle")
  BY <1>1, <1>4, ReturnsWith DEF In
<1>5. CASE Returns("error")
  BY <1>1, <1>5, ReturnsWith
<1>. QED
  BY <1>2, <1>3, <1>4, <1>5 DEF Cache

LEMMA CacheReadyKeeps == ASSUME IInv, CacheReady PROVE IInv'
<1>1. /\ pc = "exec" /\ pc' = pc /\ UNCHANGED <<setting, R>> /\ Goto("FETCH")
  BY DEF CacheReady, In
<1>. QED
  BY <1>1, OnlyTheStack, GotoKeeps DEF Awaiting, Answered

LEMMA BindKeeps == ASSUME IInv, Bind PROVE IInv'
<1>1. /\ pc = "exec" /\ pc' = pc /\ UNCHANGED <<setting, nodata>>
      /\ \/ Goto("HINTS") /\ search' = search
         \/ Goto("SEARCH") /\ search' = 0
  BY DEF Bind, In
<1>2. SoundNodata /\ search' \in 0..Len(Candidates)
  BY <1>1, CandidatesWhat DEF IInv, FramesAwait, Stacked, SoundNodata
<1>. QED
  BY <1>1, <1>2, GotoKeeps DEF Awaiting, Answered

LEMMA SearchKeeps == ASSUME IInv, Search PROVE IInv'
<1>1. /\ pc = "exec" /\ pc' = pc /\ UNCHANGED <<setting, nodata>> /\ Sound(F)
  BY TopIsSound DEF Search, In, IInv
<1>2. SoundNodata /\ search' \in 0..Len(Candidates)
  BY <1>1, CandidatesWhat DEF Search, IInv, FramesAwait, Stacked, SoundNodata
<1>3. CASE Become([F EXCEPT !.query = Candidates[search + 1], !.type = q.type, !.state = "HINTS"])
  <2>1. PICK f : f = [F EXCEPT !.query = Candidates[search + 1], !.type = q.type, !.state = "HINTS"]
    OBVIOUS
  <2>2. Sound(f) /\ f.state = "HINTS"
    BY <1>1, <2>1 DEF Sound, IsFrame, Answered
  <2>. QED
    BY <1>1, <1>2, <1>3, <2>1, <2>2, BecomeKeeps DEF Awaiting
<1>4. CASE Goto("SWITCH")
  BY <1>1, <1>2, <1>4, GotoKeeps DEF Awaiting, Answered
<1>. QED
  BY <1>3, <1>4 DEF Search

LEMMA HintsKeeps == ASSUME IInv, Hints PROVE IInv'
<1>1. /\ pc = "exec" /\ pc' = pc /\ UNCHANGED <<setting, R>> /\ Sound(F)
  BY TopIsSound DEF Hints, In, IInv
<1>2. PICK h, f : Become(f) /\ f = [F EXCEPT !.hints = h, !.state = "ITERATE"]
  BY DEF Hints
<1>3. Sound(f) /\ f.state = "ITERATE"
  BY <1>1, <1>2 DEF Sound, IsFrame, Answered
<1>. QED
  BY <1>1, <1>2, <1>3, OnlyTheStack, BecomeKeeps DEF Awaiting

LEMMA IterateKeeps == ASSUME IInv, Iterate PROVE IInv'
<1>1. /\ pc = "exec" /\ pc' = pc /\ UNCHANGED <<setting, R>> /\ Sound(F)
  BY TopIsSound DEF Iterate, In, IInv
<1>2. PICK f : Become(f) /\ f = [F EXCEPT !.nsI = NsStart, !.hints.base = Len(F.hints.ar),
                                          !.state = "FOREACH_NS"]
  BY DEF Iterate
<1>3. Sound(f) /\ f.state = "FOREACH_NS"
  BY <1>1, <1>2 DEF Sound, IsFrame, Answered
<1>. QED
  BY <1>1, <1>2, <1>3, OnlyTheStack, BecomeKeeps DEF Awaiting

LEMMA ForeachNsKeeps == ASSUME IInv, ForeachNs PROVE IInv'
<1>1. /\ pc = "exec" /\ pc' = pc /\ UNCHANGED <<setting, R>> /\ Sound(F)
  BY TopIsSound DEF ForeachNs, In, IInv
<1>2. \/ \E at, ns : Become([F EXCEPT !.saved = F.nsI, !.nsI = at, !.ns = ns, !.j = 0,
                                      !.state = "FOREACH_A"])
      \/ \E s \in {"ITERATE", "SWITCH"} :
           Become([F EXCEPT !.saved = F.nsI, !.attempts = @ + 1, !.state = s])
  BY Zenon DEF ForeachNs
<1>3. CASE \E at, ns : Become([F EXCEPT !.saved = F.nsI, !.nsI = at, !.ns = ns, !.j = 0,
                                        !.state = "FOREACH_A"])
  <2>1. PICK at, ns, f : Become(f) /\ f = [F EXCEPT !.saved = F.nsI, !.nsI = at, !.ns = ns, !.j = 0,
                                                    !.state = "FOREACH_A"]
    BY <1>3
  <2>2. Sound(f) /\ f.state = "FOREACH_A"
    BY <1>1, <2>1 DEF Sound, IsFrame, Answered
  <2>. QED
    BY <1>1, <2>1, <2>2, OnlyTheStack, BecomeKeeps DEF Awaiting
<1>4. CASE \E s \in {"ITERATE", "SWITCH"} :
             Become([F EXCEPT !.saved = F.nsI, !.attempts = @ + 1, !.state = s])
  <2>1. PICK s \in {"ITERATE", "SWITCH"} :
             Become([F EXCEPT !.saved = F.nsI, !.attempts = @ + 1, !.state = s])
    BY <1>4
  <2>2. PICK f : f = [F EXCEPT !.saved = F.nsI, !.attempts = @ + 1, !.state = s]
    OBVIOUS
  <2>3. Sound(f) /\ f.state = s
    BY <1>1, <2>2 DEF Sound, IsFrame, Answered
  <2>. QED
    BY <1>1, <2>1, <2>2, <2>3, OnlyTheStack, BecomeKeeps DEF Awaiting
<1>. QED
  BY <1>2, <1>3, <1>4

(* A frame for a name server, an alias or a mail server is entered.         *)
LEMMA RecurseKeeps ==
  ASSUME IInv, pc = "exec", pc' = pc, NEW s \in Awaiting, NEW name, NEW type,
         ~Deepest, Recurse([F EXCEPT !.state = s], name, type),
         s \in Answered => F.state \in Answered,
         UNCHANGED setting, UNCHANGED <<search, nodata>>
  PROVE  IInv'
<1>1. PICK f, up : /\ f = [F EXCEPT !.state = s]
                   /\ up = [Frame(conf) EXCEPT !.query = name, !.type = type]
  OBVIOUS
<1>2. Sound(F) /\ sp < MaxDepth
  BY TopIsSound, ResolverAssumption DEF IInv, Stacked, Deepest, ResolverAssumption
<1>3. Sound(f) /\ f.state = s
  <2>1. IsFrame(f) /\ f.state = s /\ f.answer = F.answer /\ f.which \in Nat
    BY <1>1, <1>2 DEF Sound, IsFrame
  <2>. QED
    BY Zenon, <1>2, <2>1 DEF Sound
<1>4. Sound(up) /\ up.state = "INIT"
  <2>1. PICK g : g = Frame(conf)
    OBVIOUS
  <2>2. Sound(g) /\ g.state = "INIT" /\ up = [g EXCEPT !.query = name, !.type = type]
    BY <1>1, <2>1, FrameIsSound
  <2>. QED
    BY <2>2 DEF Sound, IsFrame, Answered
<1>. QED
  BY <1>1, <1>2, <1>3, <1>4, GoesUp DEF Recurse, Enters, Awaiting

LEMMA ResolveNsKeeps == ASSUME IInv, ResolveNs PROVE IInv'
<1>1. /\ pc = "exec" /\ pc' = pc /\ UNCHANGED <<setting, R>>
      /\ \/ Goto("FOREACH_NS")
         \/ ~Deepest /\ Recurse([F EXCEPT !.state = "RESOLV1_NS"], F.ns, "A")
  BY DEF ResolveNs, In
<1>. QED
  BY <1>1, OnlyTheStack, GotoKeeps, RecurseKeeps DEF Awaiting, Answered, R

LEMMA ResolvedNsKeeps == ASSUME IInv, ResolvedNs PROVE IInv'
<1>. DEFINE up == stack[sp + 1]
            found == {r \in Records(up.answer) : r.name = up.query /\ r.type = "A"}
            glue == SetToSeq({[host |-> r.name, addr |-> r.data] : r \in found})
            next == IF found = {} THEN F.nsI ELSE F.saved
<1>1. /\ pc = "exec" /\ F.state = "RESOLV1_NS" /\ UNCHANGED <<setting, R, so>> /\ Sound(F)
  BY TopIsSound DEF ResolvedNs, In, IInv
<1>2. \/ Resume([F EXCEPT !.hints.ar = @ \o glue, !.state = "FOREACH_NS", !.nsI = next]) /\ pc' = pc
      \/ Returns("error")
  BY Zenon DEF ResolvedNs
<1>. HIDE DEF glue, next
<1>3. CASE Resume([F EXCEPT !.hints.ar = @ \o glue, !.state = "FOREACH_NS", !.nsI = next]) /\ pc' = pc
  <2>1. PICK f : f = [F EXCEPT !.hints.ar = @ \o glue, !.state = "FOREACH_NS", !.nsI = next]
    OBVIOUS
  <2>2. Sound(f) /\ f.state = "FOREACH_NS"
    BY <1>1, <2>1 DEF Sound, IsFrame, Answered
  <2>. QED
    BY <1>1, <1>3, <2>1, <2>2, GoesDown DEF Awaiting, R, Resume, Leaves
<1>4. CASE Returns("error")
  BY <1>1, <1>4, ReturnsWith
<1>. QED
  BY <1>2, <1>3, <1>4

LEMMA ForeachAKeeps == ASSUME IInv, ForeachA PROVE IInv'
<1>. DEFINE left == {k \in PlacesOf(F.ns) : k > F.j}
<1>1. /\ pc = "exec" /\ pc' = pc /\ UNCHANGED <<setting, R>> /\ Sound(F)
  BY TopIsSound DEF ForeachA, In, IInv
<1>2. CASE \E k : /\ Become([F EXCEPT !.j = k, !.state = "QUERY_A"])
                  /\ so' = [name |-> F.query, type |-> F.type, edns |-> F.edns]
  <2>1. PICK k, f : /\ Become(f) /\ f = [F EXCEPT !.j = k, !.state = "QUERY_A"]
                    /\ so' = [name |-> F.query, type |-> F.type, edns |-> F.edns]
    BY <1>2
  <2>2. /\ Sound(f) /\ f.state = "QUERY_A"
        /\ f.query = F.query /\ f.type = F.type /\ f.edns = F.edns
    BY <1>1, <2>1 DEF Sound, IsFrame, Answered
  <2>. QED
    BY <1>1, <2>1, <2>2, OnlyTheStack, GoesOn DEF Awaiting, Goes, Become
<1>3. CASE Goto(IF F.j = 0 THEN "RESOLV0_NS" ELSE "FOREACH_NS")
  BY <1>1, <1>3, OnlyTheStack, GotoKeeps DEF Awaiting, Answered
<1>. QED
  BY Zenon, <1>2, <1>3 DEF ForeachA

LEMMA QueryWaitsKeeps == ASSUME IInv, QueryWaits PROVE IInv'
<1>1. /\ pc = "exec" /\ UNCHANGED <<setting, R, so>> /\ F.state = "QUERY_A"
      /\ \/ Goto("FOREACH_A") /\ pc' = pc
         \/ \E r \in {"idle", "error"} : Returns(r)
  BY DEF QueryWaits, In
<1>. QED
  BY <1>1, OnlyTheStack, GotoKeeps, ReturnsWith DEF Awaiting, Answered

LEMMA QueryAnsweredKeeps == ASSUME IInv, QueryAnswered PROVE IInv'
<1>1. /\ pc = "exec" /\ pc' = pc /\ UNCHANGED <<setting, search, so>> /\ Sound(F)
      /\ search' \in 0..Len(Candidates)
  BY TopIsSound DEF QueryAnswered, In, IInv, FramesAwait
<1>2. PICK P \in Says(so.name, so.type) :
        \/ Retry(P) \/ Settle(P)
        \/ NoAnswer(P) /\ (KeepNodata(P) \/ Refer(P) \/ Disregard(P))
  BY DEF QueryAnswered
<1>3. IsPacket(P) /\ P.kind # "none"
  BY SaysWhat
<1>4. nodata' = nodata => SoundNodata
  BY DEF IInv, Stacked, SoundNodata
<1>5. CASE Retry(P)
  <2>1. PICK f : f = [F EXCEPT !.answer = P, !.edns = FALSE, !.state = "FOREACH_A"]
    OBVIOUS
  <2>2. Sound(f) /\ f.state = "FOREACH_A"
    BY <1>1, <1>3, <2>1 DEF Sound, IsFrame
  <2>. QED
    BY <1>1, <1>4, <1>5, <2>1, <2>2, BecomeKeeps DEF Awaiting, Retry
<1>6. CASE Settle(P)
  BY <1>1, <1>3, <1>4, <1>6, FinishKeeps, FollowKeeps DEF Settle
<1>7. CASE KeepNodata(P)
  <2>1. SoundNodata
    BY <1>3, <1>7 DEF KeepNodata, IInv, Stacked, SoundNodata
  <2>2. PICK Q, f : /\ Become(f) /\ f = [F EXCEPT !.answer = Q, !.state = "SEARCH"]
                    /\ Q \in {NoPacket, P}
    BY <1>7 DEF KeepNodata
  <2>3. Sound(f) /\ f.state = "SEARCH"
    BY <1>1, <1>3, <2>2, NoPacketWhat DEF Sound, IsFrame, Answered
  <2>. QED
    BY <1>1, <2>1, <2>2, <2>3, BecomeKeeps DEF Awaiting
<1>8. CASE Refer(P)
  <2>1. PICK h, f : /\ Become(f) /\ nodata' = nodata
                    /\ f = [F EXCEPT !.answer = NoPacket, !.hints = h, !.state = "ITERATE"]
    BY <1>8 DEF Refer
  <2>2. Sound(f) /\ f.state = "ITERATE"
    BY <1>1, <2>1, NoPacketWhat DEF Sound, IsFrame, Answered
  <2>. QED
    BY <1>1, <1>4, <2>1, <2>2, BecomeKeeps DEF Awaiting
<1>9. CASE Disregard(P)
  <2>1. PICK s, f : /\ Become(f) /\ nodata' = nodata /\ s \in {"FINISH", "FOREACH_A"}
                    /\ f = [F EXCEPT !.answer = P, !.state = s]
    BY <1>9 DEF Disregard
  <2>2. Sound(f) /\ f.state = s
    BY <1>1, <1>3, <2>1 DEF Sound, IsFrame
  <2>. QED
    BY <1>1, <1>4, <2>1, <2>2, BecomeKeeps DEF Awaiting
<1>. QED
  BY <1>2, <1>5, <1>6, <1>7, <1>8, <1>9

LEMMA FollowAliasKeeps == ASSUME IInv, FollowAlias PROVE IInv'
<1>1. /\ pc = "exec" /\ pc' = pc /\ UNCHANGED <<setting, R>> /\ F.state = "CNAME0_A"
      /\ \/ Goto("FINISH")
         \/ ~Deepest /\ Recurse([F EXCEPT !.state = "CNAME1_A"], F.cname, F.type)
  BY DEF FollowAlias, In
<1>. QED
  BY <1>1, OnlyTheStack, GotoKeeps, RecurseKeeps DEF Awaiting, Answered, R

LEMMA FollowedAliasKeeps == ASSUME IInv, FollowedAlias PROVE IInv'
<1>1. /\ pc = "exec" /\ pc' = pc /\ UNCHANGED <<setting, R>> /\ F.state = "CNAME1_A" /\ Sound(F)
  BY TopIsSound DEF FollowedAlias, In, IInv
<1>2. PICK P : P = Merge(F.answer, stack[sp + 1].answer)
  OBVIOUS
<1>3. IsPacket(P) /\ P.kind = "answer"
  BY <1>2 DEF Merge, IsPacket, Packet
<1>4. PICK f : f = [F EXCEPT !.answer = P, !.state = "FINISH"]
  OBVIOUS
<1>5. Sound(f) /\ f.state = "FINISH"
  BY <1>1, <1>3, <1>4 DEF Sound, IsFrame
<1>. QED
  BY <1>1, <1>2, <1>4, <1>5, GoesDown DEF Awaiting, R, Resume, Leaves, FollowedAlias

LEMMA FinishedKeeps == ASSUME IInv, Finish PROVE IInv'
<1>1. /\ pc = "exec" /\ pc' = pc /\ UNCHANGED <<setting, search, nodata>> /\ F.state = "FINISH"
      /\ Goto("SMART0_A") \/ Goto("DONE")
  BY DEF Finish, In
<1>2. SoundNodata /\ search' \in 0..Len(Candidates)
  BY <1>1 DEF IInv, FramesAwait, Stacked, SoundNodata
<1>. QED
  BY <1>1, <1>2, GotoKeeps DEF Awaiting, Answered

LEMMA SmartKeeps == ASSUME IInv, Smart PROVE IInv'
<1>1. /\ pc = "exec" /\ pc' = pc /\ UNCHANGED <<setting, search, nodata>> /\ F.state = "SMART0_A"
      /\ \/ \E name : ~Deepest /\ Recurse([F EXCEPT !.state = "SMART1_A"], name, "A")
         \/ Goto("DONE")
  BY DEF Smart, In
<1>2. SoundNodata /\ search' \in 0..Len(Candidates)
  BY <1>1 DEF IInv, FramesAwait, Stacked, SoundNodata
<1>. QED
  BY <1>1, <1>2, GotoKeeps, RecurseKeeps DEF Awaiting, Answered

LEMMA SmartAddKeeps == ASSUME IInv, SmartAdd PROVE IInv'
<1>1. pc = "exec" /\ UNCHANGED <<setting, R, so>> /\ F.state = "SMART1_A" /\ Sound(F)
  BY TopIsSound DEF SmartAdd, In, IInv
<1>0. CASE \E w \in {"error", "stuck"} : Returns(w)
  BY <1>1, <1>0, ReturnsWith
<1>. SUFFICES ASSUME ~\E w \in {"error", "stuck"} : Returns(w) PROVE IInv'
  BY <1>0
<1>2. PICK glue : Resume([F EXCEPT !.answer.ar = @ \o glue, !.state = "SMART0_A"]) /\ pc' = pc
  BY Zenon DEF SmartAdd
<1>3. PICK P : P = [F.answer EXCEPT !.ar = @ \o glue]
  OBVIOUS
<1>4. PICK f : f = [F EXCEPT !.answer = P, !.state = "SMART0_A"]
  OBVIOUS
<1>5. IsPacket(P) /\ P.kind = F.answer.kind
  BY <1>1, <1>3 DEF Sound, IsPacket
<1>6. F.answer.kind # "none"
  BY <1>1 DEF Sound, Answered
<1>7. Sound(f) /\ f.state = "SMART0_A"
  BY <1>1, <1>4, <1>5, <1>6 DEF Sound, IsFrame
<1>8. [F EXCEPT !.answer.ar = @ \o glue, !.state = "SMART0_A"] = f
  BY <1>3, <1>4
<1>. QED
  BY <1>1, <1>2, <1>7, <1>8, GoesDown DEF Awaiting, R, Resume, Leaves

LEMMA FailedKeeps == ASSUME IInv, Failed PROVE IInv'
<1>1. /\ pc = "exec" /\ pc' = pc /\ UNCHANGED <<setting, R>> /\ Sound(F)
  BY TopIsSound DEF Failed, In, IInv
<1>2. PICK f : Become(f) /\ f = [F EXCEPT !.answer = ServFail, !.state = "DONE"]
  BY DEF Failed
<1>3. Sound(f) /\ f.state = "DONE"
  BY <1>1, <1>2, NoPacketWhat DEF Sound, IsFrame, Answered
<1>. QED
  BY <1>1, <1>2, <1>3, OnlyTheStack, BecomeKeeps DEF Awaiting

LEMMA DoneKeeps == ASSUME IInv, Done PROVE IInv'
<1>1. pc = "exec" /\ F.state = "DONE" /\ stack' = stack /\ UNCHANGED <<setting, R, so>> /\ Sound(F)
  BY TopIsSound DEF Done, In, Returns, IInv
<1>2. CASE sp > 1 /\ sp' = sp - 1 /\ pc' = pc
  <2>1. sp' \in 1..MaxDepth /\ sp' + 1 = sp /\ stack[sp'].state \in Awaiting
    BY <1>2, ResolverAssumption DEF IInv, Stacked, FramesAwait, ResolverAssumption, Awaiting
  <2>2. Stacked'
    BY <1>1, <1>2, <2>1 DEF IInv, Stacked, setting, R, Fetched, F
  <2>3. FramesAwait'
    BY <1>1, <1>2, <2>1, SameCandidates DEF IInv, FramesAwait, setting, R, F
  <2>4. SocketServesTopFrame'
    BY <1>1, <2>1 DEF SocketServesTopFrame, F, Awaiting
  <2>. QED
    BY <2>2, <2>3, <2>4 DEF IInv
<1>3. CASE ~(sp > 1) /\ Returns("done")
  <2>1. sp = 1 /\ F.answer # NoPacket
    BY <1>1, <1>3, NoPacketWhat, ResolverAssumption
    DEF IInv, Stacked, Sound, Answered, ResolverAssumption
  <2>2. Stacked'
    BY <1>1, <1>3 DEF IInv, Stacked, setting, R, Fetched, F, Returns
  <2>3. FramesAwait'
    BY <1>1, <1>3, <2>1, SameCandidates DEF IInv, FramesAwait, setting, R, F, Returns
  <2>4. SocketServesTopFrame'
    BY <1>1, <1>3 DEF IInv, SocketServesTopFrame, F, Returns
  <2>. QED
    BY <2>2, <2>3, <2>4 DEF IInv
<1>. QED
  BY <1>2, <1>3 DEF Done

-----------------------------------------------------------------------------
(* The calls of the user and the clock.                                     *)
LEMMA FreshStack ==
  ASSUME conf \in Confs, q \in Questions,
         pc \in {"open", "idle", "closed"},
         search = 0, nodata = NoPacket, sp = 1, stack = [k \in 1..MaxDepth |-> Frame(conf)]
  PROVE  IInv
<1>1. sp \in 1..MaxDepth /\ F = Frame(conf) /\ Frame(conf).state = "INIT"
  BY ResolverAssumption, FrameIsSound DEF ResolverAssumption, F
<1>2. Stacked
  BY <1>1, FrameIsSound, NoPacketWhat DEF Stacked, Sound, Awaiting, Answered
<1>3. FramesAwait
  BY <1>1, CandidatesWhat DEF FramesAwait
<1>. QED
  BY <1>1, <1>2, <1>3 DEF IInv, SocketServesTopFrame

LEMMA InitHolds == Init => IInv
  BY FreshStack DEF Init

LEMMA ResetKeeps ==
  ASSUME IInv, Reset, UNCHANGED <<conf, hosts>>, q' \in Questions, pc' \in {"open", "idle", "closed"}
  PROVE  IInv'
<1>1. Frame(conf)' = Frame(conf)
  BY DEF Frame
<1>2. sp' = 1 /\ F' = Frame(conf) /\ Frame(conf).state = "INIT" /\ 1 \in 1..MaxDepth
  BY ResolverAssumption, FrameIsSound DEF Reset, ResolverAssumption, F
<1>3. Stacked'
  BY <1>2, FrameIsSound, NoPacketWhat DEF Reset, IInv, Stacked, Sound, Awaiting, Answered
<1>4. Len(Candidates') \in Nat
  BY CandidatesNext DEF IInv, Stacked
<1>5. FramesAwait'
  BY <1>2, <1>4 DEF FramesAwait, Reset
<1>. QED
  BY <1>2, <1>3, <1>5 DEF IInv, SocketServesTopFrame

LEMMA OthersKeep == ASSUME IInv, Submit \/ Check \/ Fetch \/ Close \/ TimePasses PROVE IInv'
<1>1. CASE Submit \/ Close
  BY <1>1, ResetKeeps DEF Submit, Close, IInv, Stacked, setting
<1>2. CASE Check \/ TimePasses
  <2>1. /\ UNCHANGED <<setting, R, sp, stack, so>> /\ (pc' = pc \/ (pc' = "exec" /\ pc = "idle"))
    BY <1>2 DEF Check, TimePasses
  <2>2. Stacked'
    BY <2>1 DEF IInv, Stacked, setting, R, Fetched, F
  <2>3. FramesAwait'
    BY <2>1, SameCandidates DEF IInv, FramesAwait, setting, R, F
  <2>4. SocketServesTopFrame'
    BY <2>1 DEF IInv, SocketServesTopFrame, F
  <2>. QED
    BY <2>2, <2>3, <2>4 DEF IInv
<1>3. CASE Fetch
  <2>1. /\ UNCHANGED <<setting, R, sp, so>> /\ Fetched' /\ pc' \notin {"idle", "done"}
        /\ pc' \in {"fetched", "efetched"}
        /\ stack' = [stack EXCEPT ![1].answer = NoPacket]
    BY <1>3 DEF Fetch, Fetched
  <2>2. PICK f : f = [stack[1] EXCEPT !.answer = NoPacket]
    OBVIOUS
  <2>3. /\ IsFrame(f) /\ IsPacket(f.answer) /\ f.which \in Nat /\ f.state = stack[1].state
        /\ f.query = stack[1].query /\ f.type = stack[1].type /\ f.edns = stack[1].edns
    BY <2>2, NoPacketWhat, ResolverAssumption DEF IInv, Stacked, IsFrame, ResolverAssumption
  <2>4. /\ DOMAIN stack' = 1..MaxDepth
        /\ \A k \in 1..MaxDepth : stack'[k] = IF k = 1 THEN f ELSE stack[k]
    BY <2>1, <2>2 DEF IInv, Stacked
  <2>5. Stacked'
    <3>1. \A k \in 1..MaxDepth :
            /\ IsFrame(stack'[k]) /\ IsPacket(stack'[k].answer) /\ stack'[k].which \in Nat
            /\ stack'[k].state = stack[k].state
            /\ stack'[k].state \in Awaiting => k < MaxDepth
            /\ k # 1 => stack'[k] = stack[k]
      BY <2>3, <2>4 DEF IInv, Stacked
    <3>2. \A k \in 1..MaxDepth : stack[k].state \in Answered /\ k # 1 => stack[k].answer.kind # "none"
      BY DEF IInv, Stacked
    <3>3. F'.state = F.state /\ (F.state \in Awaiting => sp + 1 \in 1..MaxDepth)
      BY <2>1, <3>1, ResolverAssumption DEF IInv, Stacked, F, ResolverAssumption
    <3>. QED
      BY <2>1, <2>4, <3>1, <3>2, <3>3 DEF IInv, Stacked, setting, R
  <2>6. FramesAwait'
    BY <2>1, <2>3, <2>4, SameCandidates, ResolverAssumption
    DEF IInv, FramesAwait, Stacked, setting, R, F, ResolverAssumption
  <2>7. SocketServesTopFrame'
    BY <2>1, <2>3, <2>4 DEF IInv, SocketServesTopFrame, F, Stacked
  <2>. QED
    BY <2>5, <2>6, <2>7 DEF IInv
<1>. QED
  BY <1>1, <1>2, <1>3

LEMMA NextKeeps == IInv /\ [Next]_vars => IInv'
<1>. SUFFICES ASSUME IInv, [Next]_vars PROVE IInv'
  OBVIOUS
<1>1. CASE ResExec
  BY <1>1, InitGlueKeeps, SwitchKeeps, FileKeeps, CacheKeeps, CacheReadyKeeps, BindKeeps, SearchKeeps,
     HintsKeeps, IterateKeeps, ForeachNsKeeps, ResolveNsKeeps, ResolvedNsKeeps, ForeachAKeeps,
     QueryWaitsKeeps, QueryAnsweredKeeps, FollowAliasKeeps, FollowedAliasKeeps, FinishedKeeps,
     SmartKeeps, SmartAddKeeps, DoneKeeps, FailedKeeps DEF ResExec
<1>2. CASE Submit \/ Check \/ Fetch \/ Close \/ TimePasses
  BY <1>2, OthersKeep
<1>3. CASE UNCHANGED vars
  <2>1. UNCHANGED <<setting, R, sp, stack, so, pc>>
    BY <1>3 DEF vars
  <2>2. Stacked'
    BY <2>1 DEF IInv, Stacked, setting, R, Fetched, F
  <2>3. FramesAwait'
    BY <2>1, SameCandidates DEF IInv, FramesAwait, setting, R, F
  <2>4. SocketServesTopFrame'
    BY <2>1 DEF IInv, SocketServesTopFrame, F
  <2>. QED
    BY <2>2, <2>3, <2>4 DEF IInv
<1>. QED
  BY <1>1, <1>2, <1>3 DEF Next

-----------------------------------------------------------------------------
(* The resolver waits, and gives its answer, at a state that can go on: a   *)
(* frame that another was entered from is at a state that takes its answer. *)
THEOREM FramesDoAwait == Spec => []FramesAwait
<1>1. IInv => FramesAwait
  BY DEF IInv
<1>. QED
  BY <1>1, InitHolds, NextKeeps, PTL DEF Spec

(* The query of the socket is that of the frame that waits for its answer.  *)
THEOREM SocketServesTheTop == Spec => []SocketServesTopFrame
<1>1. IInv => SocketServesTopFrame
  BY DEF IInv
<1>. QED
  BY <1>1, InitHolds, NextKeeps, PTL DEF Spec

-----------------------------------------------------------------------------
(* From one name to another in n steps by aliases: every family of growing  *)
(* sets that begins with the one and is closed under a step has the other.  *)
Leads(S, a, n, b) ==
  \A g : /\ a \in g[0]
         /\ \A i, j \in 0..n : i <= j => g[i] \subseteq g[j]
         /\ \A i \in 1..n : \A r \in S : r.type = "CNAME" /\ r.name \in g[i - 1] => r.data \in g[i]
         => b \in g[n]

LEMMA LeadsNowhere ==
  ASSUME NEW S, NEW a, NEW n \in Nat
  PROVE  Leads(S, a, n, a)
<1>1. SUFFICES ASSUME NEW g, a \in g[0], \A i, j \in 0..n : i <= j => g[i] \subseteq g[j]
               PROVE  a \in g[n]
  BY DEF Leads
<1>. QED
  BY <1>1

LEMMA LeadsOn ==
  ASSUME NEW S, NEW n \in Nat, n >= 1, NEW r \in S, r.type = "CNAME"
  PROVE  Leads(S, r.name, n, r.data)
<1>1. SUFFICES ASSUME NEW g, r.name \in g[0], \A i, j \in 0..n : i <= j => g[i] \subseteq g[j],
                      \A i \in 1..n : \A c \in S : c.type = "CNAME" /\ c.name \in g[i - 1] => c.data \in g[i]
               PROVE  r.data \in g[n]
  BY DEF Leads
<1>2. r.data \in g[1]
  BY <1>1
<1>. QED
  BY <1>1, <1>2

LEMMA LeadsFurther ==
  ASSUME NEW S, NEW a, NEW n \in Nat, NEW m \in Nat, n <= m, NEW b, Leads(S, a, n, b)
  PROVE  Leads(S, a, m, b)
<1>1. SUFFICES ASSUME NEW g, a \in g[0], \A i, j \in 0..m : i <= j => g[i] \subseteq g[j],
                      \A i \in 1..m : \A c \in S : c.type = "CNAME" /\ c.name \in g[i - 1] => c.data \in g[i]
               PROVE  b \in g[m]
  BY DEF Leads
<1>2. b \in g[n]
  BY <1>1 DEF Leads
<1>. QED
  BY <1>1, <1>2

LEMMA LeadsByAlias ==
  ASSUME NEW S, NEW T, T \subseteq S, NEW n \in Nat, NEW r \in S, r.type = "CNAME",
         NEW b, Leads(T, r.data, n, b)
  PROVE  Leads(S, r.name, n + 1, b)
<1>1. SUFFICES ASSUME NEW g, r.name \in g[0], \A i, j \in 0..(n + 1) : i <= j => g[i] \subseteq g[j],
                      \A i \in 1..(n + 1) : \A c \in S : c.type = "CNAME" /\ c.name \in g[i - 1] => c.data \in g[i]
               PROVE  b \in g[n + 1]
  BY DEF Leads
<1>2. PICK h : h = [i \in 0..n |-> g[i + 1]]
  OBVIOUS
<1>3. r.data \in h[0]
  BY <1>1, <1>2
<1>4. \A i, j \in 0..n : i <= j => h[i] \subseteq h[j]
  BY <1>1, <1>2
<1>5. ASSUME NEW i \in 1..n, NEW c \in T, c.type = "CNAME", c.name \in h[i - 1]
      PROVE  c.data \in h[i]
  <2>1. h[i - 1] = g[i] /\ h[i] = g[i + 1]
    BY <1>2
  <2>2. i + 1 \in 1..(n + 1) /\ (i + 1) - 1 = i /\ c \in S
    OBVIOUS
  <2>. QED
    BY <1>1, <1>5, <2>1, <2>2
<1>6. b \in h[n]
  BY <1>3, <1>4, <1>5 DEF Leads
<1>. QED
  BY <1>2, <1>6

LEMMA LeadsInMore ==
  ASSUME NEW S, NEW T, T \subseteq S, NEW a, NEW n \in Nat, NEW b, Leads(T, a, n, b)
  PROVE  Leads(S, a, n, b)
  BY DEF Leads

(* The records of frame f lead from its name, within n aliases.             *)
Belongs(S, f, n) == \A r \in S : r.type \in {f.type, "CNAME"} /\ Leads(S, f.query, n, r.name)

(* The first frame looks for a name of the search, and for the type asked.  *)
Asking == {"HINTS", "ITERATE", "FOREACH_NS", "FOREACH_A", "RESOLV0_NS", "RESOLV1_NS", "QUERY_A"}
Begun == Asking \cup {"SUBMIT", "CHECK", "FETCH"}
Given == {"FINISH", "SMART0_A", "SMART1_A", "DONE"}

AliasesKnown(S) == \A r \in S : r.type = "CNAME" => r.data \in Others
Fits(f, k) ==
  /\ AliasesKnown(f.answer.an)
  /\ f.state \in Given => Belongs(f.answer.an, f, MaxDepth - k + 1)
  /\ f.state \in {"CNAME0_A", "CNAME1_A"} =>
       /\ Belongs(f.answer.an, f, 1)
       /\ \E r \in f.answer.an : r.type = "CNAME" /\ r.name = f.query /\ r.data = f.cname

IsFirst(f) ==
  /\ f.query = NoName \/ (f.query \in Range(Candidates) /\ f.type = q.type)
  /\ f.state \in Begun \/ (f.state \in Answered /\ f.answer.an # {}) => f.query # NoName

Serves(up, f) == up.query = f.cname /\ up.type = f.type

Belonging ==
  /\ nodata.an = {}
  /\ \A k \in 1..MaxDepth : Fits(stack[k], k)
  /\ \A k \in 1..MaxDepth : stack[k].state = "CNAME1_A" => Serves(stack[k + 1], stack[k])
  /\ IsFirst(stack[1])
  /\ Fetched => stack[1].state = "DONE"

BInv == IInv /\ (~strayed => Belonging)

LEMMA FitsNothing ==
  ASSUME NEW f, NEW k \in 1..MaxDepth, f.answer.an = {}, f.state \notin {"CNAME0_A", "CNAME1_A"}
  PROVE  Fits(f, k)
  BY DEF Fits, AliasesKnown, Belongs

LEMMA FrameFits == ASSUME NEW k \in 1..MaxDepth PROVE Fits(Frame(conf), k) /\ Frame(conf).query = NoName
<1>1. Frame(conf).answer = NoPacket /\ Frame(conf).state = "INIT" /\ Frame(conf).query = NoName
  BY DEF Frame
<1>. QED
  BY <1>1, NoPacketWhat, FitsNothing

LEMMA SameFirst ==
  ASSUME UNCHANGED setting, NEW f, IsFirst(f)
  PROVE  IsFirst(f)'
  BY SameCandidates DEF IsFirst, setting

(* The three ways a step changes the stack.                                 *)
LEMMA OnBelongs ==
  ASSUME IInv, Belonging, NEW f, Goes(f), UNCHANGED setting, nodata'.an = {}, Fits(f, sp),
         f.state # "CNAME1_A",
         sp = 1 => IsFirst(f),
         sp > 1 /\ stack[sp - 1].state = "CNAME1_A" => f.query = F.query /\ f.type = F.type
  PROVE  Belonging'
<1>0. /\ sp \in 1..MaxDepth /\ DOMAIN stack = 1..MaxDepth /\ stack'[sp] = f
      /\ \A k \in 1..MaxDepth : k # sp => stack'[k] = stack[k]
      /\ ~Fetched' /\ MaxDepth \in Nat
      /\ \A k \in 1..MaxDepth : stack[k].state = "CNAME1_A" => k + 1 \in 1..MaxDepth
  BY ResolverAssumption DEF IInv, Stacked, Goes, Fetched, ResolverAssumption, Awaiting
<1>1. \A k \in 1..MaxDepth : Fits(stack'[k], k)
  BY <1>0 DEF Belonging
<1>2. ASSUME NEW k \in 1..MaxDepth, stack'[k].state = "CNAME1_A"
      PROVE  Serves(stack'[k + 1], stack'[k])
  <2>1. k # sp /\ stack'[k] = stack[k] /\ stack[k].state = "CNAME1_A" /\ k + 1 \in 1..MaxDepth
    BY <1>0, <1>2
  <2>2. Serves(stack[k + 1], stack[k])
    BY <2>1 DEF Belonging
  <2>3. CASE k + 1 = sp
    <3>1. sp > 1 /\ stack[sp - 1].state = "CNAME1_A"
      BY <1>0, <2>1, <2>3
    <3>. QED
      BY <1>0, <2>1, <2>2, <2>3, <3>1 DEF Serves, F
  <2>4. CASE k + 1 # sp
    BY <1>0, <2>1, <2>2, <2>4
  <2>. QED
    BY <2>3, <2>4
<1>3. IsFirst(stack'[1])
  BY <1>0 DEF Belonging
<1>4. IsFirst(stack[1])'
  BY <1>3, SameFirst, SameCandidates DEF IsFirst, setting
<1>5. \A k \in 1..MaxDepth : Fits(stack[k], k)'
  BY <1>1 DEF Fits, AliasesKnown, Belongs, Leads
<1>. QED
  BY <1>0, <1>2, <1>4, <1>5 DEF Belonging, Serves

LEMMA UpBelongs ==
  ASSUME IInv, Belonging, NEW f, NEW up, Enters(f, up), UNCHANGED setting, nodata' = nodata,
         Fits(f, sp), f.state # "CNAME1_A" \/ Serves(up, f),
         up.answer = NoPacket, up.state = "INIT",
         f.query = F.query /\ f.type = F.type,
         sp = 1 => IsFirst(f)
  PROVE  Belonging'
<1>0. /\ sp \in 1..MaxDepth /\ sp + 1 \in 1..MaxDepth /\ MaxDepth \in Nat
      /\ \A k \in 1..MaxDepth : stack'[k] = IF k = sp + 1 THEN up ELSE IF k = sp THEN f ELSE stack[k]
      /\ DOMAIN stack' = 1..MaxDepth /\ ~Fetched /\ ~Fetched'
      /\ \A k \in 1..MaxDepth : stack[k].state = "CNAME1_A" => k + 1 \in 1..MaxDepth
  <2>1. sp \in 1..MaxDepth /\ MaxDepth \in Nat /\ DOMAIN stack = 1..MaxDepth
    BY ResolverAssumption DEF IInv, Stacked, ResolverAssumption
  <2>2. \A k \in 1..MaxDepth : stack[k].state = "CNAME1_A" => k < MaxDepth
    BY DEF IInv, Stacked, Awaiting
  <2>. QED
    BY <2>1, <2>2 DEF Enters, Fetched
<1>1. Fits(up, sp + 1)
  BY <1>0, NoPacketWhat, FitsNothing
<1>2. \A k \in 1..MaxDepth : Fits(stack'[k], k)
  BY <1>0, <1>1 DEF Belonging
<1>3. ASSUME NEW k \in 1..MaxDepth, stack'[k].state = "CNAME1_A"
      PROVE  Serves(stack'[k + 1], stack'[k])
  <2>1. k # sp + 1
    BY <1>0, <1>3
  <2>2. CASE k = sp
    BY <1>0, <1>3, <2>2
  <2>3. CASE k # sp
    <3>1. stack'[k] = stack[k] /\ k + 1 \in 1..MaxDepth /\ Serves(stack[k + 1], stack[k])
      BY <1>0, <1>3, <2>1, <2>3 DEF Belonging
    <3>2. k + 1 # sp + 1
      BY <2>3, <1>0
    <3>3. CASE k + 1 = sp
      BY <1>0, <3>1, <3>3 DEF Serves, F
    <3>4. CASE k + 1 # sp
      BY <1>0, <3>1, <3>2, <3>4
    <3>. QED
      BY <3>3, <3>4
  <2>. QED
    BY <2>2, <2>3
<1>4. IsFirst(stack'[1])
  BY <1>0 DEF Belonging
<1>5. IsFirst(stack[1])'
  BY <1>4, SameCandidates DEF IsFirst, setting
<1>6. \A k \in 1..MaxDepth : Fits(stack[k], k)'
  BY <1>2 DEF Fits, AliasesKnown, Belongs, Leads
<1>7. (\A k \in 1..MaxDepth : stack[k].state = "CNAME1_A" => Serves(stack[k + 1], stack[k]))'
  BY <1>3 DEF Serves
<1>. QED
  BY <1>0, <1>5, <1>6, <1>7 DEF Belonging

LEMMA DownBelongs ==
  ASSUME IInv, Belonging, NEW f, Leaves(f), UNCHANGED setting, nodata' = nodata,
         F.state \in Awaiting, Fits(f, sp), f.state # "CNAME1_A",
         f.query = F.query /\ f.type = F.type,
         sp = 1 => IsFirst(f)
  PROVE  Belonging'
<1>0. /\ sp \in 1..MaxDepth /\ sp + 1 \in 1..MaxDepth /\ MaxDepth \in Nat
      /\ \A k \in 1..MaxDepth : stack'[k] = IF k = sp + 1 THEN Frame(conf) ELSE IF k = sp THEN f ELSE stack[k]
      /\ DOMAIN stack' = 1..MaxDepth /\ ~Fetched /\ ~Fetched'
      /\ \A k \in 1..MaxDepth : stack[k].state = "CNAME1_A" => k + 1 \in 1..MaxDepth
  <2>1. sp \in 1..MaxDepth /\ MaxDepth \in Nat /\ DOMAIN stack = 1..MaxDepth /\ sp < MaxDepth
    BY TopIsSound, ResolverAssumption DEF IInv, Stacked, Leaves, ResolverAssumption
  <2>2. \A k \in 1..MaxDepth : stack[k].state = "CNAME1_A" => k < MaxDepth
    BY DEF IInv, Stacked, Awaiting
  <2>. QED
    BY <2>1, <2>2 DEF Leaves, Fetched
<1>1. Fits(Frame(conf), sp + 1) /\ Frame(conf).state = "INIT"
  BY <1>0, FrameFits, FrameIsSound
<1>2. \A k \in 1..MaxDepth : Fits(stack'[k], k)
  BY <1>0, <1>1 DEF Belonging
<1>3. ASSUME NEW k \in 1..MaxDepth, stack'[k].state = "CNAME1_A"
      PROVE  Serves(stack'[k + 1], stack'[k])
  <2>1. k # sp + 1 /\ k # sp
    BY <1>0, <1>1, <1>3
  <2>2. stack'[k] = stack[k] /\ k + 1 \in 1..MaxDepth /\ Serves(stack[k + 1], stack[k])
    BY <1>0, <1>3, <2>1 DEF Belonging
  <2>3. k + 1 # sp + 1
    BY <2>1, <1>0
  <2>4. CASE k + 1 = sp
    BY <1>0, <2>2, <2>4 DEF Serves, F
  <2>5. CASE k + 1 # sp
    BY <1>0, <2>2, <2>3, <2>5
  <2>. QED
    BY <2>4, <2>5
<1>4. IsFirst(stack'[1])
  BY <1>0 DEF Belonging
<1>5. IsFirst(stack[1])'
  BY <1>4, SameCandidates DEF IsFirst, setting
<1>6. \A k \in 1..MaxDepth : Fits(stack[k], k)'
  BY <1>2 DEF Fits, AliasesKnown, Belongs, Leads
<1>7. (\A k \in 1..MaxDepth : stack[k].state = "CNAME1_A" => Serves(stack[k + 1], stack[k]))'
  BY <1>3 DEF Serves
<1>. QED
  BY <1>0, <1>5, <1>6, <1>7 DEF Belonging

(* Nothing of the stack changes.                                            *)
LEMMA StillBelongs ==
  ASSUME Belonging, UNCHANGED <<setting, stack, nodata>>, Fetched' => stack[1].state = "DONE"
  PROVE  Belonging'
<1>1. IsFirst(stack[1])'
  BY SameCandidates DEF Belonging, IsFirst, setting
<1>2. \A k \in 1..MaxDepth : Fits(stack[k], k)'
  BY DEF Belonging, Fits, AliasesKnown, Belongs, Leads
<1>. QED
  BY <1>1, <1>2 DEF Belonging, Serves

(* A frame that goes on to a state that says nothing about its answer.      *)
LEMMA PlainBelongs ==
  ASSUME IInv, Belonging, NEW f, Become(f), pc = "exec", pc' = pc, UNCHANGED setting, nodata'.an = {},
         f.state \notin Given \cup {"CNAME0_A", "CNAME1_A"},
         f.answer = F.answer \/ f.answer.an = {},
         f.query = F.query /\ f.type = F.type,
         f.state \in Begun => F.state \in Begun \/ sp > 1
  PROVE  Belonging'
<1>1. sp \in 1..MaxDepth /\ Fits(F, sp)
  BY DEF IInv, Stacked, Belonging, F
<1>2. Fits(f, sp)
  BY <1>1 DEF Fits, AliasesKnown
<1>3. sp = 1 => IsFirst(f)
  BY DEF Belonging, IsFirst, F, Given, Answered
<1>. QED
  BY <1>2, <1>3, OnBelongs DEF Become, Goes

LEMMA GotoBelongs ==
  ASSUME IInv, Belonging, NEW s, Goto(s), pc = "exec", pc' = pc, UNCHANGED setting, nodata' = nodata,
         s \notin Given \cup {"CNAME0_A", "CNAME1_A"},
         s \in Begun => F.state \in Begun \/ sp > 1
  PROVE  Belonging'
<1>1. PICK f : f = [F EXCEPT !.state = s]
  OBVIOUS
<1>2. f.state = s /\ f.answer = F.answer /\ f.query = F.query /\ f.type = F.type
  BY <1>1, TopIsSound DEF IInv, Sound, IsFrame
<1>3. nodata'.an = {}
  BY DEF Belonging
<1>. QED
  BY <1>1, <1>2, <1>3, PlainBelongs DEF Goto

(* An answer that has been given is kept.                                   *)
LEMMA GivenBelongs ==
  ASSUME IInv, Belonging, NEW s, Goto(s), pc = "exec", pc' = pc, UNCHANGED setting, nodata' = nodata,
         s \in Given, F.state \in Given
  PROVE  Belonging'
<1>1. PICK f : f = [F EXCEPT !.state = s]
  OBVIOUS
<1>2. f.state = s /\ f.answer = F.answer /\ f.query = F.query /\ f.type = F.type
  BY <1>1, TopIsSound DEF IInv, Sound, IsFrame
<1>3. nodata'.an = {}
  BY DEF Belonging
<1>4. sp \in 1..MaxDepth /\ Fits(F, sp)
  BY DEF IInv, Stacked, Belonging, F
<1>5. Fits(f, sp)
  BY <1>2, <1>4 DEF Fits, AliasesKnown, Belongs, Given
<1>6. sp = 1 => IsFirst(f)
  BY <1>2 DEF Belonging, IsFirst, F, Given, Answered, Begun, Asking
<1>. QED
  BY <1>1, <1>2, <1>3, <1>5, <1>6, OnBelongs DEF Goto, Become, Goes, Given

LEMMA NamesWhat ==
  ASSUME conf \in Confs
  PROVE  /\ \A k \in 1..Len(Candidates) : Candidates[k] \in Range(Candidates)
         /\ 1 \in Range(Candidates) /\ NoName \notin Range(Candidates)
         /\ \A k \in 1..Len(Candidates) : Candidates[k] # NoName
<1>1. PICK n : n = Len(Candidates)
  OBVIOUS
<1>2. /\ n \in Nat /\ DOMAIN Candidates = 1..n /\ \A k \in 1..n : Candidates[k] \in Nat \ {0}
      /\ \E k \in 1..n : Candidates[k] = 1
  BY <1>1, CandidatesWhat, ElementOfSeq
<1>. QED
  BY <1>1, <1>2 DEF Range, NoName

(* The answer says that there is no record for the name.                    *)
LEMMA NoAnswerIsEmpty ==
  ASSUME NEW P \in Says(so.name, so.type), IInv, F.state = "QUERY_A"
  PROVE  /\ AliasesKnown(P.an) /\ Belongs(P.an, F, 1)
         /\ NoAnswer(P) \/ Refused(P) => P.an = {}
<1>1. so.name = F.query /\ so.type = F.type
  BY DEF IInv, SocketServesTopFrame
<1>2. \/ P.an = {}
      \/ \E d : P.an = {Rec(F.type, F.query, d)} /\ (F.type = "CNAME" => d \in Others)
      \/ \E c \in Others : P.an = {Rec("CNAME", F.query, c)}
      \/ \E c \in Others : \E d : P.an = {Rec("CNAME", F.query, c), Rec(F.type, c, d)}
                                   /\ (F.type = "CNAME" => d \in Others)
  BY <1>1, SaysWhat
<1>3. CASE P.an = {}
  BY <1>3 DEF AliasesKnown, Belongs
<1>4. ASSUME P.an # {}
      PROVE  P.kind # "formerr"
  BY <1>4, SaysWhat
<1>5. CASE \E d : P.an = {Rec(F.type, F.query, d)} /\ (F.type = "CNAME" => d \in Others)
  <2>1. PICK d : P.an = {Rec(F.type, F.query, d)} /\ (F.type = "CNAME" => d \in Others)
    BY <1>5
  <2>2. PICK r : r = Rec(F.type, F.query, d)
    OBVIOUS
  <2>3. P.an = {r} /\ r.type = F.type /\ r.name = F.query /\ r.data = d
    BY <2>1, <2>2 DEF Rec
  <2>4. Leads(P.an, F.query, 1, r.name)
    BY <2>3, LeadsNowhere
  <2>. QED
    BY <1>4, <2>1, <2>3, <2>4 DEF AliasesKnown, Belongs, NoAnswer, Refused, Answers, Find
<1>6. CASE \E c \in Others : P.an = {Rec("CNAME", F.query, c)}
  <2>1. PICK c \in Others : P.an = {Rec("CNAME", F.query, c)}
    BY <1>6
  <2>2. PICK r : r = Rec("CNAME", F.query, c)
    OBVIOUS
  <2>3. P.an = {r} /\ r.type = "CNAME" /\ r.name = F.query /\ r.data = c
    BY <2>1, <2>2 DEF Rec
  <2>4. Leads(P.an, F.query, 1, r.name)
    BY <2>3, LeadsNowhere
  <2>. QED
    BY <1>4, <2>1, <2>3, <2>4 DEF AliasesKnown, Belongs, NoAnswer, Refused, Alias, Find
<1>7. CASE \E c \in Others : \E d : P.an = {Rec("CNAME", F.query, c), Rec(F.type, c, d)}
                                   /\ (F.type = "CNAME" => d \in Others)
  <2>0. PICK c \in Others :
            \E d : /\ P.an = {Rec("CNAME", F.query, c), Rec(F.type, c, d)}
                   /\ F.type = "CNAME" => d \in Others
    BY <1>7
  <2>1. PICK d : /\ P.an = {Rec("CNAME", F.query, c), Rec(F.type, c, d)}
                 /\ F.type = "CNAME" => d \in Others
    BY <2>0
  <2>2. PICK r, t : r = Rec("CNAME", F.query, c) /\ t = Rec(F.type, c, d)
    OBVIOUS
  <2>3. /\ P.an = {r, t} /\ r.type = "CNAME" /\ r.name = F.query /\ r.data = c
        /\ t.type = F.type /\ t.name = c /\ t.data = d
    BY <2>1, <2>2 DEF Rec
  <2>4. Leads(P.an, F.query, 1, r.name)
    BY <2>3, LeadsNowhere
  <2>5. Leads(P.an, r.name, 1, r.data)
    <3>1. r \in P.an /\ r.type = "CNAME"
      BY <2>3
    <3>. QED
      BY <3>1, LeadsOn
  <2>. QED
    BY <1>4, <2>1, <2>3, <2>4, <2>5 DEF AliasesKnown, Belongs, NoAnswer, Refused, Alias, Find
<1>. QED
  BY <1>2, <1>3, <1>5, <1>6, <1>7

LEMMA BelongsLonger ==
  ASSUME NEW S, NEW f, NEW n \in Nat, NEW m \in Nat, n <= m, Belongs(S, f, n)
  PROVE  Belongs(S, f, m)
  BY LeadsFurther DEF Belongs

(* The frame takes P for its answer.                                        *)
LEMMA FinishBelongs ==
  ASSUME IInv, Belonging, pc = "exec", pc' = pc, NEW P, AliasesKnown(P.an), Belongs(P.an, F, 1),
         Become([F EXCEPT !.state = "FINISH", !.answer = P]),
         sp = 1 => F.query # NoName \/ P.an = {}, UNCHANGED setting, nodata'.an = {}
  PROVE  Belonging'
<1>1. PICK f : f = [F EXCEPT !.state = "FINISH", !.answer = P]
  OBVIOUS
<1>2. f.state = "FINISH" /\ f.answer = P /\ f.query = F.query /\ f.type = F.type
  BY <1>1, TopIsSound DEF IInv, Sound, IsFrame
<1>3. sp \in 1..MaxDepth /\ MaxDepth - sp + 1 \in Nat /\ 1 <= MaxDepth - sp + 1
  BY ResolverAssumption DEF IInv, Stacked, ResolverAssumption
<1>4. Belongs(P.an, f, MaxDepth - sp + 1)
  <2>1. Belongs(P.an, f, 1)
    BY <1>2 DEF Belongs
  <2>. QED
    BY <1>3, <2>1, BelongsLonger
<1>5. Fits(f, sp)
  BY <1>2, <1>4 DEF Fits
<1>6. sp = 1 => IsFirst(f)
  BY <1>2 DEF Belonging, IsFirst, F, Begun, Asking
<1>. QED
  BY <1>1, <1>2, <1>5, <1>6, OnBelongs DEF Become, Goes

LEMMA FollowBelongs ==
  ASSUME IInv, Belonging, pc = "exec", pc' = pc, NEW P, AliasesKnown(P.an), Belongs(P.an, F, 1),
         Follow(P),
         sp = 1 => F.query # NoName \/ P.an = {}, UNCHANGED setting, nodata'.an = {}
  PROVE  Belonging'
<1>1. PICK r \in Alias(P) : Become([F EXCEPT !.state = "CNAME0_A", !.answer = P, !.cname = r.data])
  BY DEF Follow
<1>2. PICK f : f = [F EXCEPT !.state = "CNAME0_A", !.answer = P, !.cname = r.data]
  OBVIOUS
<1>3. /\ f.state = "CNAME0_A" /\ f.answer = P /\ f.query = F.query /\ f.type = F.type
      /\ f.cname = r.data
  BY <1>2, TopIsSound DEF IInv, Sound, IsFrame
<1>4. Belongs(P.an, f, 1)
  BY <1>3 DEF Belongs
<1>5. r \in P.an /\ r.type = "CNAME" /\ r.name = F.query
  BY DEF Alias, Find
<1>6. Fits(f, sp)
  BY <1>3, <1>4, <1>5 DEF Fits, Given
<1>7. sp = 1 => IsFirst(f)
  BY <1>3 DEF Belonging, IsFirst, F, Begun, Asking
<1>. QED
  BY <1>1, <1>2, <1>3, <1>6, <1>7, OnBelongs DEF Become, Goes

LEMMA InitGlueBelongs == ASSUME IInv, Belonging, InitGlue PROVE Belonging'
<1>1. PICK P : P = Packet("answer", ResGlue, {}, <<>>, FALSE)
  OBVIOUS
<1>2. /\ pc = "exec" /\ pc' = pc /\ UNCHANGED <<setting, R>> /\ P.an = ResGlue /\ nodata'.an = {}
  BY <1>1 DEF InitGlue, In, Packet, R, Belonging
<1>3. \/ Goto("SWITCH")
      \/ sp > 1 /\ Become([F EXCEPT !.state = "FINISH", !.answer = P])
      \/ sp > 1 /\ Follow(P)
  BY <1>1 DEF InitGlue, Goto
<1>4. ASSUME NEW r \in P.an
      PROVE  /\ r.name = F.query /\ r.type \in {F.type, "CNAME"}
             /\ r.type = "CNAME" => r.data \in Others
  <2>1. PICK k \in 1..sp : r \in Records(stack[k].answer)
    BY <1>2 DEF ResGlue
  <2>2. r.name = F.query /\ r.type \in {F.type, "CNAME"}
    BY <1>2 DEF ResGlue
  <2>3. ASSUME r.type = "CNAME" PROVE r.data \in Others
    <3>1. r \notin Glue(stack[k].answer.ar)
      BY <2>3 DEF Glue, GlueRec, Rec
    <3>2. r \in stack[k].answer.an
      BY <2>1, <3>1 DEF Records
    <3>3. k \in 1..MaxDepth
      BY ResolverAssumption DEF IInv, Stacked, ResolverAssumption
    <3>. QED
      BY <2>3, <3>2, <3>3 DEF Belonging, Fits, AliasesKnown
  <2>. QED
    BY <2>2, <2>3
<1>5. AliasesKnown(P.an) /\ Belongs(P.an, F, 1)
  <2>1. \A r \in P.an : Leads(P.an, F.query, 1, r.name)
    BY <1>4, LeadsNowhere
  <2>. QED
    BY <1>4, <2>1 DEF AliasesKnown, Belongs
<1>6. sp > 1 => sp # 1
  OBVIOUS
<1>. QED
  BY <1>2, <1>3, <1>5, <1>6, GotoBelongs, FinishBelongs, FollowBelongs DEF Given, Begun, Asking, R

LEMMA SwitchBelongs == ASSUME IInv, Belonging, Switch PROVE Belonging'
<1>1. /\ pc = "exec" /\ pc' = pc /\ UNCHANGED setting /\ Sound(F) /\ conf \in Confs
      /\ nodata.an = {}
  BY TopIsSound DEF Switch, In, IInv, Stacked, Belonging
<1>2. CASE F.which < Len(conf.lookup)
  <2>1. PICK w, s, f : /\ Become(f) /\ f = [F EXCEPT !.which = w, !.state = s] /\ nodata' = nodata
                       /\ s = IF conf.lookup[F.which + 1] = "CACHE" /\ ~conf.cache
                              THEN "SWITCH" ELSE conf.lookup[F.which + 1]
    BY Zenon, <1>2 DEF Switch
  <2>2. conf.lookup[F.which + 1] \in {"FILE", "BIND", "CACHE"}
    <3>1. conf.lookup \in Seq({"FILE", "BIND", "CACHE"}) /\ F.which + 1 \in 1..Len(conf.lookup)
      BY <1>1, <1>2, ResolverAssumption DEF ResolverAssumption, Sound
    <3>. QED
      BY <3>1, ElementOfSeq
  <2>3. s \in {"SWITCH", "FILE", "BIND", "CACHE"}
    BY Zenon, <2>1, <2>2
  <2>4. f.state = s /\ f.answer = F.answer /\ f.query = F.query /\ f.type = F.type
    BY <1>1, <2>1 DEF Sound, IsFrame
  <2>. QED
    BY <1>1, <2>1, <2>3, <2>4, PlainBelongs DEF Given, Begun, Asking
<1>3. CASE Become([F EXCEPT !.answer = nodata, !.state = "FINISH"]) /\ nodata' = NoPacket
  <2>1. AliasesKnown(nodata.an) /\ Belongs(nodata.an, F, 1) /\ nodata'.an = {}
    BY <1>1, <1>3, NoPacketWhat DEF AliasesKnown, Belongs
  <2>2. [F EXCEPT !.answer = nodata, !.state = "FINISH"] = [F EXCEPT !.state = "FINISH", !.answer = nodata]
    BY <1>1 DEF Sound, IsFrame
  <2>. QED
    BY <1>1, <1>3, <2>1, <2>2, FinishBelongs
<1>4. CASE Goto("SERVFAIL") /\ UNCHANGED nodata
  BY <1>1, <1>4, GotoBelongs DEF Given, Begun, Asking
<1>. QED
  BY <1>2, <1>3, <1>4 DEF Switch

LEMMA FileBelongs == ASSUME IInv, Belonging, File PROVE Belonging'
<1>. DEFINE names == IF sp > 1 THEN <<F.query>> ELSE Candidates
            type == IF sp > 1 THEN F.type ELSE q.type
            found == {k \in DOMAIN names : InHosts(names[k], type)}
            at == IF found = {} THEN Len(names) ELSE CHOOSE k \in found : \A o \in found : k <= o
            here == [F EXCEPT !.query = names[at], !.type = type]
<1>1. /\ pc = "exec" /\ pc' = pc /\ UNCHANGED <<setting, nodata>> /\ Sound(F)
      /\ conf \in Confs /\ nodata'.an = {} /\ sp \in 1..MaxDepth
  BY TopIsSound DEF File, In, IInv, Stacked, Belonging
<1>2. at \in 1..Len(names) /\ (found # {} => at \in found)
  <2>1. Len(names) \in Nat /\ DOMAIN names = 1..Len(names) /\ Len(names) >= 1
    <3>1. CASE sp > 1
      BY <3>1
    <3>2. CASE ~(sp > 1)
      <4>1. names = Candidates
        BY <3>2
      <4>. HIDE DEF names
      <4>. QED
        BY <1>1, <4>1, CandidatesWhat
    <3>. QED
      BY <3>1, <3>2
  <2>2. CASE found = {}
    BY <2>1, <2>2
  <2>3. CASE found # {}
    <3>1. found \subseteq Nat /\ found \subseteq 1..Len(names)
      BY <2>1
    <3>2. \E k \in found : \A o \in found : k <= o
      <4>. HIDE DEF found
      <4>. QED
        BY <2>3, <3>1, FirstPlace
    <3>3. at \in found
      BY <2>3, <3>2
    <3>. QED
      BY <3>1, <3>3
  <2>. QED
    BY <2>2, <2>3
<1>20. \/ Become([here EXCEPT !.answer = NoPacket, !.state = "SWITCH"])
       \/ /\ found # {}
          /\ Become([here EXCEPT !.answer = OneRecord("A", names[at], names[at]), !.state = "FINISH"])
  BY DEF File
<1>. HIDE DEF at, found
<1>3. PICK x, y : /\ x = names[at] /\ y = type
  OBVIOUS
<1>4. /\ sp > 1 => x = F.query /\ y = F.type
      /\ sp = 1 => x \in Range(Candidates) /\ x # NoName /\ y = q.type
      /\ found # {} => y = "A"
  <2>1. ASSUME sp > 1 PROVE x = F.query
    BY <1>2, <1>3, <2>1
  <2>2. ASSUME sp = 1 PROVE x \in Range(Candidates) /\ x # NoName
    BY <1>1, <1>2, <1>3, <2>2, NamesWhat
  <2>3. ASSUME found # {} PROVE y = "A"
    BY <1>2, <1>3, <2>3 DEF InHosts, found
  <2>. QED
    BY <1>3, <2>1, <2>2, <2>3
<1>5. \/ Become([[F EXCEPT !.query = x, !.type = y] EXCEPT !.answer = NoPacket, !.state = "SWITCH"])
      \/ /\ y = "A"
         /\ Become([[F EXCEPT !.query = x, !.type = y] EXCEPT
                     !.answer = OneRecord("A", x, x), !.state = "FINISH"])
  BY Zenon, <1>20, <1>3, <1>4
<1>6. PICK h : h = [F EXCEPT !.query = x, !.type = y]
  OBVIOUS
<1>7. IsFrame(h) /\ h.query = x /\ h.type = y
  BY <1>1, <1>6 DEF Sound, IsFrame
<1>8. CASE Become([h EXCEPT !.answer = NoPacket, !.state = "SWITCH"])
  <2>1. PICK f : f = [h EXCEPT !.answer = NoPacket, !.state = "SWITCH"]
    OBVIOUS
  <2>2. f.answer = NoPacket /\ f.state = "SWITCH" /\ f.query = x /\ f.type = y
    BY <1>7, <2>1 DEF IsFrame
  <2>3. Fits(f, sp)
    BY <1>1, <2>2, NoPacketWhat, FitsNothing
  <2>4. sp = 1 => IsFirst(f)
    BY <1>4, <2>2 DEF IsFirst
  <2>. QED
    BY <1>1, <1>4, <1>8, <2>1, <2>2, <2>3, <2>4, OnBelongs DEF Become, Goes
<1>9. CASE y = "A" /\ Become([h EXCEPT !.answer = OneRecord("A", x, x), !.state = "FINISH"])
  <2>1. PICK P : P = OneRecord("A", x, x)
    OBVIOUS
  <2>2. PICK r : r = Rec("A", x, x)
    OBVIOUS
  <2>3. P.an = {r} /\ r.type = "A" /\ r.name = x
    BY <2>1, <2>2, OneRecordWhat DEF Rec
  <2>4. PICK f : f = [h EXCEPT !.answer = P, !.state = "FINISH"]
    OBVIOUS
  <2>5. f.answer = P /\ f.state = "FINISH" /\ f.query = x /\ f.type = y
    BY <1>7, <2>4 DEF IsFrame
  <2>6. MaxDepth - sp + 1 \in Nat
    BY <1>1, ResolverAssumption DEF ResolverAssumption
  <2>7. AliasesKnown(P.an) /\ Belongs(P.an, f, MaxDepth - sp + 1)
    BY <1>9, <2>3, <2>5, <2>6, LeadsNowhere DEF AliasesKnown, Belongs
  <2>8. Fits(f, sp)
    BY <2>5, <2>7 DEF Fits
  <2>9. sp = 1 => IsFirst(f)
    BY <1>4, <2>5 DEF IsFirst
  <2>. QED
    BY <1>1, <1>4, <1>9, <2>1, <2>4, <2>5, <2>8, <2>9, OnBelongs DEF Become, Goes
<1>. QED
  BY <1>5, <1>6, <1>8, <1>9

LEMMA CacheBelongs == ASSUME IInv, Belonging, Cache PROVE Belonging'
<1>1. pc = "exec" /\ UNCHANGED <<setting, R, so>> /\ Sound(F) /\ nodata' = nodata /\ nodata'.an = {}
      /\ sp \in 1..MaxDepth /\ conf \in Confs
  BY TopIsSound DEF Cache, FromCache, In, IInv, R, Belonging, Stacked
<1>2. CASE FromCache /\ pc' = pc
  <2>1. PICK x, y : /\ x = IF F.query = NoName THEN 1 ELSE F.query
                    /\ y = IF F.query = NoName THEN q.type ELSE F.type
    OBVIOUS
  <2>2. PICK h : h = [F EXCEPT !.query = x, !.type = y]
    OBVIOUS
  <2>3. \/ \E d \in Others : Become([h EXCEPT !.answer = OneRecord(y, x, d), !.state = "FINISH"])
        \/ Become([h EXCEPT !.answer = NoPacket, !.state = "SWITCH"])
        \/ Become([h EXCEPT !.state = "SUBMIT"])
    BY Zenon, <1>2, <2>1, <2>2 DEF FromCache
  <2>4. IsFrame(h) /\ h.answer = F.answer /\ h.query = x /\ h.type = y
    BY <1>1, <2>2 DEF Sound, IsFrame
  <2>5. x # NoName /\ (sp = 1 => x \in Range(Candidates) /\ y = q.type)
    BY <1>1, <2>1, NamesWhat DEF NoName, Belonging, IsFirst, F
  <2>6. ASSUME sp > 1, stack[sp - 1].state = "CNAME1_A"
        PROVE  x = F.query /\ y = F.type
    <3>1. sp - 1 \in 1..MaxDepth /\ (sp - 1) + 1 = sp
      BY <1>1, <2>6, ResolverAssumption DEF ResolverAssumption
    <3>2. PICK g : g = stack[sp - 1]
      OBVIOUS
    <3>3. F.query = g.cname
      BY <2>6, <3>1, <3>2 DEF Belonging, Serves, F
    <3>4. g.cname \in Others
      BY <2>6, <3>1, <3>2 DEF Belonging, Fits, AliasesKnown
    <3>5. F.query # NoName
      BY <3>3, <3>4, ResolverAssumption DEF ResolverAssumption, NoName, HintsLocal, Rank
    <3>. QED
      BY <2>1, <3>5
  <2>7. MaxDepth - sp + 1 \in Nat
    BY <1>1, ResolverAssumption DEF ResolverAssumption
  <2>8. CASE \E d \in Others : Become([h EXCEPT !.answer = OneRecord(y, x, d), !.state = "FINISH"])
    <3>1. PICK d \in Others : Become([h EXCEPT !.answer = OneRecord(y, x, d), !.state = "FINISH"])
      BY <2>8
    <3>2. PICK P, r : P = OneRecord(y, x, d) /\ r = Rec(y, x, d)
      OBVIOUS
    <3>3. P.an = {r} /\ r.type = y /\ r.name = x /\ r.data = d
      BY <3>2, OneRecordWhat DEF Rec
    <3>4. PICK f : f = [h EXCEPT !.answer = P, !.state = "FINISH"]
      OBVIOUS
    <3>5. f.answer = P /\ f.state = "FINISH" /\ f.query = x /\ f.type = y
      BY <2>4, <3>4 DEF IsFrame
    <3>6. AliasesKnown(P.an) /\ Belongs(P.an, f, MaxDepth - sp + 1)
      BY <2>7, <3>3, <3>5, LeadsNowhere DEF AliasesKnown, Belongs
    <3>7. Fits(f, sp)
      BY <3>5, <3>6 DEF Fits
    <3>8. sp = 1 => IsFirst(f)
      BY <2>5, <3>5 DEF IsFirst
    <3>. QED
      BY <1>1, <1>2, <2>6, <3>1, <3>2, <3>4, <3>5, <3>7, <3>8, OnBelongs DEF Become, Goes
  <2>9. CASE Become([h EXCEPT !.answer = NoPacket, !.state = "SWITCH"])
    <3>1. PICK f : f = [h EXCEPT !.answer = NoPacket, !.state = "SWITCH"]
      OBVIOUS
    <3>2. f.answer = NoPacket /\ f.state = "SWITCH" /\ f.query = x /\ f.type = y
      BY <2>4, <3>1 DEF IsFrame
    <3>3. Fits(f, sp)
      BY <1>1, <3>2, NoPacketWhat, FitsNothing
    <3>4. sp = 1 => IsFirst(f)
      BY <2>5, <3>2 DEF IsFirst
    <3>. QED
      BY <1>1, <1>2, <2>6, <2>9, <3>1, <3>2, <3>3, <3>4, OnBelongs DEF Become, Goes
  <2>10. CASE Become([h EXCEPT !.state = "SUBMIT"])
    <3>1. PICK f : f = [h EXCEPT !.state = "SUBMIT"]
      OBVIOUS
    <3>2. f.answer = F.answer /\ f.state = "SUBMIT" /\ f.query = x /\ f.type = y
      BY <2>4, <3>1 DEF IsFrame
    <3>3. Fits(f, sp)
      BY <1>1, <3>2 DEF Belonging, Fits, F, Given
    <3>4. sp = 1 => IsFirst(f)
      BY <2>5, <3>2 DEF IsFirst
    <3>. QED
      BY <1>1, <1>2, <2>6, <2>10, <3>1, <3>2, <3>3, <3>4, OnBelongs DEF Become, Goes
  <2>. QED
    BY <2>3, <2>8, <2>9, <2>10
<1>3. CASE In("SUBMIT") /\ Goto("CHECK") /\ pc' = pc
  BY <1>1, <1>3, GotoBelongs DEF Given, Begun, Asking, In
<1>4. CASE \E r \in {"idle", "error"} : Returns(r)
  BY <1>1, <1>4, StillBelongs DEF Returns, Fetched
<1>. QED
  BY <1>2, <1>3, <1>4 DEF Cache

LEMMA QueryAnsweredBelongs == ASSUME IInv, Belonging, QueryAnswered PROVE Belonging'
<1>1. /\ pc = "exec" /\ pc' = pc /\ UNCHANGED <<setting, search, so>> /\ Sound(F)
      /\ F.state = "QUERY_A" /\ nodata.an = {}
  BY TopIsSound DEF QueryAnswered, In, IInv, Belonging
<1>2. PICK P \in Says(so.name, so.type) :
        \/ Retry(P) \/ Settle(P)
        \/ NoAnswer(P) /\ (KeepNodata(P) \/ Refer(P) \/ Disregard(P))
  BY DEF QueryAnswered
<1>3. /\ AliasesKnown(P.an) /\ Belongs(P.an, F, 1)
      /\ NoAnswer(P) \/ Refused(P) => P.an = {}
  BY <1>1, NoAnswerIsEmpty
<1>4. sp = 1 => F.query # NoName
  BY <1>1 DEF Belonging, IsFirst, F, Begun, Asking
<1>5. CASE Retry(P)
  <2>1. PICK f : f = [F EXCEPT !.answer = P, !.edns = FALSE, !.state = "FOREACH_A"]
    OBVIOUS
  <2>2. f.state = "FOREACH_A" /\ f.answer.an = {} /\ f.query = F.query /\ f.type = F.type
    BY <1>1, <1>3, <1>5, <2>1 DEF Sound, IsFrame, Retry
  <2>3. Become(f) /\ nodata'.an = {}
    BY <1>1, <1>5, <2>1 DEF Retry
  <2>. QED
    BY <1>1, <2>2, <2>3, PlainBelongs DEF Given, Begun, Asking
<1>6. CASE Settle(P)
  BY <1>1, <1>3, <1>4, <1>6, FinishBelongs, FollowBelongs DEF Settle
<1>7. CASE NoAnswer(P) /\ KeepNodata(P)
  <2>1. nodata'.an = {}
    BY <1>1, <1>3, <1>7 DEF KeepNodata
  <2>2. PICK Q, f : /\ Become(f) /\ f = [F EXCEPT !.answer = Q, !.state = "SEARCH"]
                    /\ Q \in {NoPacket, P}
    BY <1>7 DEF KeepNodata
  <2>3. Q.an = {}
    BY <1>3, <1>7, <2>2, NoPacketWhat
  <2>4. f.state = "SEARCH" /\ f.answer.an = {} /\ f.query = F.query /\ f.type = F.type
    BY <1>1, <2>2, <2>3 DEF Sound, IsFrame
  <2>. QED
    BY <1>1, <2>1, <2>2, <2>4, PlainBelongs DEF Given, Begun, Asking
<1>8. CASE Refer(P)
  <2>1. PICK h, f : /\ Become(f) /\ nodata' = nodata
                    /\ f = [F EXCEPT !.answer = NoPacket, !.hints = h, !.state = "ITERATE"]
    BY <1>8 DEF Refer
  <2>2. f.state = "ITERATE" /\ f.answer.an = {} /\ f.query = F.query /\ f.type = F.type
    BY <1>1, <2>1, NoPacketWhat DEF Sound, IsFrame
  <2>. QED
    BY <1>1, <2>1, <2>2, PlainBelongs DEF Given, Begun, Asking
<1>9. CASE NoAnswer(P) /\ Disregard(P)
  <2>1. nodata'.an = {} /\ P.an = {}
    BY <1>1, <1>3, <1>9 DEF Disregard
  <2>2. CASE Become([F EXCEPT !.answer = P, !.state = "FINISH"])
    <3>1. [F EXCEPT !.answer = P, !.state = "FINISH"] = [F EXCEPT !.state = "FINISH", !.answer = P]
      BY <1>1 DEF Sound, IsFrame
    <3>. QED
      BY <1>1, <1>3, <2>1, <2>2, <3>1, FinishBelongs
  <2>3. CASE Become([F EXCEPT !.answer = P, !.state = "FOREACH_A"])
    <3>1. PICK f : f = [F EXCEPT !.answer = P, !.state = "FOREACH_A"]
      OBVIOUS
    <3>2. f.state = "FOREACH_A" /\ f.answer.an = {} /\ f.query = F.query /\ f.type = F.type
      BY <1>1, <2>1, <3>1 DEF Sound, IsFrame
    <3>. QED
      BY <1>1, <2>1, <2>3, <3>1, <3>2, PlainBelongs DEF Given, Begun, Asking
  <2>. QED
    BY <1>9, <2>2, <2>3 DEF Disregard
<1>. QED
  BY <1>2, <1>5, <1>6, <1>7, <1>8, <1>9

LEMMA NetworkBelongs ==
  ASSUME IInv, Belonging, ~strayed',
         \/ CacheReady \/ Bind \/ Search \/ Hints \/ Iterate \/ ForeachNs \/ ForeachA \/ QueryWaits
  PROVE  Belonging'
<1>0. nodata.an = {} /\ conf \in Confs /\ sp \in 1..MaxDepth /\ search \in 0..Len(Candidates)
  BY DEF Belonging, IInv, Stacked, FramesAwait
<1>1. CASE CacheReady
  <2>1. pc = "exec" /\ pc' = pc /\ UNCHANGED <<setting, R>> /\ Goto("FETCH") /\ F.state = "CHECK"
    BY <1>1 DEF CacheReady, In
  <2>. QED
    BY <2>1, GotoBelongs DEF Given, Begun, Asking, R
<1>2. CASE Bind
  <2>1. /\ pc = "exec" /\ pc' = pc /\ UNCHANGED <<setting, nodata>>
        /\ \/ sp > 1 /\ Goto("HINTS")
           \/ Goto("SEARCH")
    BY <1>2 DEF Bind, In
  <2>. QED
    BY <2>1, GotoBelongs DEF Given, Begun, Asking
<1>3. CASE Search
  <2>1. /\ pc = "exec" /\ pc' = pc /\ UNCHANGED <<setting, nodata>> /\ Sound(F)
    BY <1>3, TopIsSound DEF Search, In, IInv
  <2>2. CASE /\ search < Len(Candidates) /\ strayed' = (strayed \/ sp > 1)
             /\ Become([F EXCEPT !.query = Candidates[search + 1], !.type = q.type, !.state = "HINTS"])
    <3>0. PICK x, y : x = Candidates[search + 1] /\ y = q.type
      OBVIOUS
    <3>1. PICK f : f = [F EXCEPT !.query = x, !.type = y, !.state = "HINTS"]
      OBVIOUS
    <3>2. /\ f.state = "HINTS" /\ f.answer = F.answer /\ f.type = q.type
          /\ f.query = Candidates[search + 1]
      <4>1. f.state = "HINTS" /\ f.answer = F.answer /\ f.type = y /\ f.query = x
        BY <2>1, <3>1 DEF Sound, IsFrame
      <4>. QED
        BY <3>0, <4>1
    <3>3. sp = 1
      <4>1. ~ (sp > 1)
        BY Zenon, <2>2
      <4>. QED
        BY <1>0, <4>1, ResolverAssumption DEF ResolverAssumption
    <3>4. search + 1 \in 1..Len(Candidates)
      BY <1>0, <2>2, CandidatesWhat
    <3>5. f.query \in Range(Candidates) /\ f.query # NoName
      BY <1>0, <3>2, <3>4, NamesWhat
    <3>6. IsFirst(f)
      BY <3>2, <3>5 DEF IsFirst
    <3>7. Fits(f, sp)
      BY <1>0, <3>2 DEF Belonging, Fits, F, Given
    <3>. QED
      BY <1>0, <2>1, <2>2, <3>0, <3>1, <3>2, <3>3, <3>6, <3>7, OnBelongs DEF Become, Goes
  <2>3. CASE Goto("SWITCH")
    BY <2>1, <2>3, GotoBelongs DEF Given, Begun, Asking
  <2>. QED
    BY <1>3, <2>2, <2>3 DEF Search
<1>4. CASE Hints
  <2>1. PICK h, f : /\ Become(f) /\ f = [F EXCEPT !.hints = h, !.state = "ITERATE"]
                    /\ pc = "exec" /\ pc' = pc /\ UNCHANGED <<setting, R>> /\ F.state = "HINTS"
    BY <1>4 DEF Hints, In
  <2>2. f.state = "ITERATE" /\ f.answer = F.answer /\ f.query = F.query /\ f.type = F.type
    BY <2>1, TopIsSound DEF Sound, IsFrame, IInv
  <2>. QED
    BY <1>0, <2>1, <2>2, PlainBelongs DEF Given, Begun, Asking, R
<1>5. CASE Iterate
  <2>1. PICK f : /\ Become(f) /\ f = [F EXCEPT !.nsI = NsStart, !.hints.base = Len(F.hints.ar),
                                               !.state = "FOREACH_NS"]
                 /\ pc = "exec" /\ pc' = pc /\ UNCHANGED <<setting, R>> /\ F.state = "ITERATE"
    BY <1>5 DEF Iterate, In
  <2>2. f.state = "FOREACH_NS" /\ f.answer = F.answer /\ f.query = F.query /\ f.type = F.type
    BY <2>1, TopIsSound DEF Sound, IsFrame, IInv
  <2>. QED
    BY <1>0, <2>1, <2>2, PlainBelongs DEF Given, Begun, Asking, R
<1>6. CASE ForeachNs
  <2>1. /\ pc = "exec" /\ pc' = pc /\ UNCHANGED <<setting, R>> /\ F.state = "FOREACH_NS" /\ Sound(F)
    BY <1>6, TopIsSound DEF ForeachNs, In, IInv
  <2>2. \/ \E at, ns : Become([F EXCEPT !.saved = F.nsI, !.nsI = at, !.ns = ns, !.j = 0,
                                        !.state = "FOREACH_A"])
        \/ \E s \in {"ITERATE", "SWITCH"} :
             Become([F EXCEPT !.saved = F.nsI, !.attempts = @ + 1, !.state = s])
    BY Zenon, <1>6 DEF ForeachNs
  <2>3. CASE \E at, ns : Become([F EXCEPT !.saved = F.nsI, !.nsI = at, !.ns = ns, !.j = 0,
                                          !.state = "FOREACH_A"])
    <3>1. PICK at, ns, f : Become(f) /\ f = [F EXCEPT !.saved = F.nsI, !.nsI = at, !.ns = ns, !.j = 0,
                                                      !.state = "FOREACH_A"]
      BY <2>3
    <3>2. f.state = "FOREACH_A" /\ f.answer = F.answer /\ f.query = F.query /\ f.type = F.type
      BY <2>1, <3>1 DEF Sound, IsFrame
    <3>. QED
      BY <1>0, <2>1, <3>1, <3>2, PlainBelongs DEF Given, Begun, Asking, R
  <2>4. CASE \E s \in {"ITERATE", "SWITCH"} :
               Become([F EXCEPT !.saved = F.nsI, !.attempts = @ + 1, !.state = s])
    <3>1. PICK s \in {"ITERATE", "SWITCH"} :
               Become([F EXCEPT !.saved = F.nsI, !.attempts = @ + 1, !.state = s])
      BY <2>4
    <3>2. PICK f : f = [F EXCEPT !.saved = F.nsI, !.attempts = @ + 1, !.state = s]
      OBVIOUS
    <3>3. f.state = s /\ f.answer = F.answer /\ f.query = F.query /\ f.type = F.type
      BY <2>1, <3>2 DEF Sound, IsFrame
    <3>. QED
      BY <1>0, <2>1, <3>1, <3>2, <3>3, PlainBelongs DEF Given, Begun, Asking, R
  <2>. QED
    BY <2>2, <2>3, <2>4
<1>7. CASE ForeachA
  <2>1. /\ pc = "exec" /\ pc' = pc /\ UNCHANGED <<setting, R>> /\ F.state = "FOREACH_A" /\ Sound(F)
    BY <1>7, TopIsSound DEF ForeachA, In, IInv
  <2>2. \/ \E k : Become([F EXCEPT !.j = k, !.state = "QUERY_A"])
        \/ Goto(IF F.j = 0 THEN "RESOLV0_NS" ELSE "FOREACH_NS")
    BY Zenon, <1>7 DEF ForeachA
  <2>3. CASE \E k : Become([F EXCEPT !.j = k, !.state = "QUERY_A"])
    <3>1. PICK k, f : Become(f) /\ f = [F EXCEPT !.j = k, !.state = "QUERY_A"]
      BY <2>3
    <3>2. f.state = "QUERY_A" /\ f.answer = F.answer /\ f.query = F.query /\ f.type = F.type
      BY <2>1, <3>1 DEF Sound, IsFrame
    <3>. QED
      BY <1>0, <2>1, <3>1, <3>2, PlainBelongs DEF Given, Begun, Asking, R
  <2>4. CASE Goto(IF F.j = 0 THEN "RESOLV0_NS" ELSE "FOREACH_NS")
    BY <2>1, <2>4, GotoBelongs DEF Given, Begun, Asking, R
  <2>. QED
    BY <2>2, <2>3, <2>4
<1>8. CASE QueryWaits
  <2>1. /\ pc = "exec" /\ UNCHANGED <<setting, R>> /\ F.state = "QUERY_A"
        /\ \/ Goto("FOREACH_A") /\ pc' = pc
           \/ \E r \in {"idle", "error"} : Returns(r)
    BY <1>8 DEF QueryWaits, In
  <2>. QED
    BY <2>1, GotoBelongs, StillBelongs DEF Given, Begun, Asking, R, Returns, Fetched
<1>. QED
  BY <1>1, <1>2, <1>3, <1>4, <1>5, <1>6, <1>7, <1>8

(* The next frame is entered, and nothing of this one changes but its state. *)
LEMMA RecurseBelongs ==
  ASSUME IInv, Belonging, pc = "exec", pc' = pc, NEW s, NEW name, NEW type, ~Deepest,
         Recurse([F EXCEPT !.state = s], name, type), UNCHANGED setting, nodata' = nodata,
         \/ s = "RESOLV1_NS" /\ F.state \in Begun
         \/ s = "SMART1_A" /\ F.state \in Given
         \/ s = "CNAME1_A" /\ F.state = "CNAME0_A" /\ name = F.cname /\ type = F.type
  PROVE  Belonging'
<1>1. PICK f, up : /\ f = [F EXCEPT !.state = s]
                   /\ up = [Frame(conf) EXCEPT !.query = name, !.type = type]
  OBVIOUS
<1>2. Sound(F) /\ sp \in 1..MaxDepth /\ sp < MaxDepth /\ Fits(F, sp)
  BY TopIsSound, ResolverAssumption DEF IInv, Stacked, Deepest, ResolverAssumption, Belonging, F
<1>3. /\ f.state = s /\ f.answer = F.answer /\ f.query = F.query /\ f.type = F.type
      /\ f.cname = F.cname
  BY <1>1, <1>2 DEF Sound, IsFrame
<1>4. up.state = "INIT" /\ up.answer = NoPacket /\ up.query = name /\ up.type = type
  BY <1>1 DEF Frame
<1>5. Fits(f, sp)
  BY <1>2, <1>3 DEF Fits, AliasesKnown, Belongs, Given
<1>6. f.state # "CNAME1_A" \/ Serves(up, f)
  BY <1>3, <1>4 DEF Serves
<1>7. sp = 1 => IsFirst(f)
  BY <1>3 DEF Belonging, IsFirst, F, Given, Answered, Begun, Asking
<1>. QED
  BY <1>1, <1>2, <1>3, <1>4, <1>5, <1>6, <1>7, UpBelongs DEF Recurse, Enters

LEMMA DownToBelongs ==
  ASSUME IInv, Belonging, pc = "exec", pc' = pc, NEW f, Resume(f), UNCHANGED setting, nodata' = nodata,
         F.state \in Awaiting, f.state # "CNAME1_A", Fits(f, sp),
         f.query = F.query /\ f.type = F.type,
         f.state \in Begun => F.state \in Begun,
         f.state \in Answered /\ f.answer.an # {} =>
           F.state \in Begun \/ (F.state \in Answered /\ F.answer.an # {})
  PROVE  Belonging'
<1>1. sp = 1 => IsFirst(f)
  BY DEF Belonging, IsFirst, F
<1>. QED
  BY <1>1, DownBelongs DEF Resume, Leaves

LEMMA NameServerBelongs == ASSUME IInv, Belonging, ResolveNs \/ ResolvedNs PROVE Belonging'
<1>1. CASE ResolveNs
  <2>1. /\ pc = "exec" /\ pc' = pc /\ UNCHANGED <<setting, R>> /\ F.state = "RESOLV0_NS"
        /\ \/ Goto("FOREACH_NS")
           \/ ~Deepest /\ Recurse([F EXCEPT !.state = "RESOLV1_NS"], F.ns, "A")
    BY <1>1 DEF ResolveNs, In
  <2>. QED
    BY <2>1, GotoBelongs, RecurseBelongs DEF Given, Begun, Asking, R
<1>2. CASE ResolvedNs
  <2>. DEFINE up == stack[sp + 1]
              found == {r \in Records(up.answer) : r.name = up.query /\ r.type = "A"}
              glue == SetToSeq({[host |-> r.name, addr |-> r.data] : r \in found})
              next == IF found = {} THEN F.nsI ELSE F.saved
  <2>1. /\ pc = "exec" /\ F.state = "RESOLV1_NS" /\ UNCHANGED <<setting, R>> /\ Sound(F)
        /\ sp \in 1..MaxDepth
    BY <1>2, TopIsSound DEF ResolvedNs, In, IInv, Stacked
  <2>2. \/ Resume([F EXCEPT !.hints.ar = @ \o glue, !.state = "FOREACH_NS", !.nsI = next]) /\ pc' = pc
        \/ Returns("error")
    BY Zenon, <1>2 DEF ResolvedNs
  <2>. HIDE DEF glue, next
  <2>3. CASE Resume([F EXCEPT !.hints.ar = @ \o glue, !.state = "FOREACH_NS", !.nsI = next]) /\ pc' = pc
    <3>1. PICK f : f = [F EXCEPT !.hints.ar = @ \o glue, !.state = "FOREACH_NS", !.nsI = next]
      OBVIOUS
    <3>2. f.state = "FOREACH_NS" /\ f.answer = F.answer /\ f.query = F.query /\ f.type = F.type
      BY <2>1, <3>1 DEF Sound, IsFrame
    <3>3. Fits(f, sp)
      BY <2>1, <3>2 DEF Belonging, Fits, F, Given
    <3>4. f.state \in Begun /\ F.state \in Begun /\ f.state \notin Answered /\ F.state \in Awaiting
      BY <2>1, <3>2 DEF Begun, Asking, Answered, Awaiting
    <3>. QED
      BY <2>1, <2>3, <3>1, <3>2, <3>3, <3>4, DownToBelongs DEF R
  <2>4. CASE Returns("error")
    BY <2>1, <2>4, StillBelongs DEF R, Returns, Fetched
  <2>. QED
    BY <2>2, <2>3, <2>4
<1>. QED
  BY <1>1, <1>2

LEMMA FollowAliasBelongs == ASSUME IInv, Belonging, FollowAlias PROVE Belonging'
<1>1. /\ pc = "exec" /\ pc' = pc /\ UNCHANGED <<setting, R>> /\ F.state = "CNAME0_A"
      /\ \/ Goto("FINISH")
         \/ ~Deepest /\ Recurse([F EXCEPT !.state = "CNAME1_A"], F.cname, F.type)
  BY DEF FollowAlias, In
<1>2. CASE Goto("FINISH")
  <2>1. /\ AliasesKnown(F.answer.an) /\ Belongs(F.answer.an, F, 1) /\ nodata'.an = {}
        /\ sp = 1 => F.query # NoName \/ F.answer.an = {}
    BY <1>1 DEF Belonging, Fits, F, R, IInv, Stacked, IsFirst, Answered
  <2>2. [F EXCEPT !.state = "FINISH"] = [F EXCEPT !.state = "FINISH", !.answer = F.answer]
    BY <1>1, TopIsSound DEF IInv, Sound, IsFrame
  <2>. QED
    BY <1>1, <1>2, <2>1, <2>2, FinishBelongs DEF Goto
<1>3. CASE ~Deepest /\ Recurse([F EXCEPT !.state = "CNAME1_A"], F.cname, F.type)
  BY <1>1, <1>3, RecurseBelongs DEF R
<1>. QED
  BY <1>1, <1>2, <1>3

(* The records of the frame above lead from the alias, and so from the name. *)
LEMMA MergedBelongs ==
  ASSUME IInv, Belonging, F.state = "CNAME1_A", pc = "exec",
         NEW up, up = stack[sp + 1], NEW S, S = F.answer.an \cup up.answer.an
  PROVE  AliasesKnown(S) /\ Belongs(S, F, MaxDepth - sp + 1)
<1>1. /\ sp \in 1..MaxDepth /\ sp + 1 \in 1..MaxDepth /\ MaxDepth \in Nat /\ up.state = "DONE"
      /\ MaxDepth - sp \in Nat /\ MaxDepth - (sp + 1) + 1 = MaxDepth - sp /\ 1 <= MaxDepth - sp + 1
      /\ MaxDepth - sp + 1 \in Nat
  BY TopIsSound, ResolverAssumption DEF IInv, Stacked, ResolverAssumption, Awaiting
<1>2. /\ Fits(F, sp) /\ Fits(up, sp + 1) /\ Serves(up, F)
  BY <1>1 DEF Belonging, F
<1>3. AliasesKnown(S)
  BY <1>2 DEF Fits, AliasesKnown
<1>4. Belongs(F.answer.an, F, MaxDepth - sp + 1)
  <2>1. Belongs(F.answer.an, F, 1)
    BY <1>2 DEF Fits
  <2>. QED
    BY <1>1, <2>1, BelongsLonger
<1>5. Belongs(up.answer.an, up, MaxDepth - sp)
  BY <1>1, <1>2 DEF Fits, Given
<1>6. PICK c \in F.answer.an : c.type = "CNAME" /\ c.name = F.query /\ c.data = F.cname
  BY <1>2 DEF Fits
<1>7. ASSUME NEW r \in S PROVE r.type \in {F.type, "CNAME"} /\ Leads(S, F.query, MaxDepth - sp + 1, r.name)
  <2>1. CASE r \in F.answer.an
    <3>1. F.answer.an \subseteq S /\ r.type \in {F.type, "CNAME"}
          /\ Leads(F.answer.an, F.query, MaxDepth - sp + 1, r.name)
      BY <1>4, <2>1 DEF Belongs
    <3>. QED
      BY <1>1, <3>1, LeadsInMore
  <2>2. CASE r \in up.answer.an
    <3>1. /\ r.type \in {F.type, "CNAME"} /\ up.answer.an \subseteq S /\ c \in S
          /\ Leads(up.answer.an, c.data, MaxDepth - sp, r.name)
      BY <1>2, <1>5, <1>6, <2>2 DEF Belongs, Serves
    <3>2. Leads(S, c.name, MaxDepth - sp + 1, r.name)
      BY <1>1, <1>6, <3>1, LeadsByAlias
    <3>. QED
      BY <1>6, <3>1, <3>2
  <2>. QED
    BY <2>1, <2>2
<1>. QED
  BY <1>3, <1>7 DEF Belongs

LEMMA FollowedAliasBelongs == ASSUME IInv, Belonging, FollowedAlias PROVE Belonging'
<1>1. /\ pc = "exec" /\ pc' = pc /\ UNCHANGED <<setting, R>> /\ F.state = "CNAME1_A" /\ Sound(F)
      /\ sp \in 1..MaxDepth
  BY TopIsSound DEF FollowedAlias, In, IInv, Stacked
<1>2. PICK up, P : up = stack[sp + 1] /\ P = Merge(F.answer, up.answer)
  OBVIOUS
<1>3. P.an = F.answer.an \cup up.answer.an
  BY <1>2 DEF Merge, Packet
<1>4. PICK f : f = [F EXCEPT !.answer = P, !.state = "FINISH"]
  OBVIOUS
<1>5. f.state = "FINISH" /\ f.answer = P /\ f.query = F.query /\ f.type = F.type
  BY <1>1, <1>4 DEF Sound, IsFrame
<1>6. Fits(f, sp)
  <2>1. AliasesKnown(P.an) /\ Belongs(P.an, F, MaxDepth - sp + 1)
    BY <1>1, <1>2, <1>3, MergedBelongs
  <2>2. Belongs(P.an, f, MaxDepth - sp + 1)
    BY <1>5, <2>1 DEF Belongs
  <2>. QED
    BY <1>5, <2>1, <2>2 DEF Fits
<1>7. F.answer.an # {}
  BY <1>1 DEF Belonging, Fits, F
<1>. QED
  BY <1>1, <1>2, <1>4, <1>5, <1>6, <1>7, DownToBelongs DEF Awaiting, Answered, Begun, Asking, R, FollowedAlias

LEMMA GivenKeepsBelonging ==
  ASSUME IInv, Belonging, Finish \/ Smart \/ SmartAdd \/ Failed PROVE Belonging'
<1>1. CASE Finish
  <2>1. /\ pc = "exec" /\ pc' = pc /\ UNCHANGED <<setting, nodata>> /\ F.state = "FINISH"
        /\ Goto("SMART0_A") \/ Goto("DONE")
    BY <1>1 DEF Finish, In
  <2>. QED
    BY <2>1, GivenBelongs DEF Given
<1>2. CASE Smart
  <2>1. /\ pc = "exec" /\ pc' = pc /\ UNCHANGED <<setting, nodata>> /\ F.state = "SMART0_A"
        /\ \/ \E name : ~Deepest /\ Recurse([F EXCEPT !.state = "SMART1_A"], name, "A")
           \/ Goto("DONE")
    BY <1>2 DEF Smart, In
  <2>. QED
    BY <2>1, GivenBelongs, RecurseBelongs DEF Given
<1>3. CASE SmartAdd
  <2>1. /\ pc = "exec" /\ UNCHANGED <<setting, R>> /\ F.state = "SMART1_A" /\ Sound(F)
        /\ sp \in 1..MaxDepth
    BY <1>3, TopIsSound DEF SmartAdd, In, IInv, Stacked
  <2>0. CASE \E w \in {"error", "stuck"} : Returns(w)
    BY <2>1, <2>0, StillBelongs DEF R, Returns, Fetched
  <2>. SUFFICES ASSUME ~\E w \in {"error", "stuck"} : Returns(w) PROVE Belonging'
    BY <2>0
  <2>2. PICK glue : Resume([F EXCEPT !.answer.ar = @ \o glue, !.state = "SMART0_A"]) /\ pc' = pc
    BY Zenon, <1>3 DEF SmartAdd
  <2>3. PICK P : P = [F.answer EXCEPT !.ar = @ \o glue]
    OBVIOUS
  <2>4. PICK f : f = [F EXCEPT !.answer = P, !.state = "SMART0_A"]
    OBVIOUS
  <2>5. P.an = F.answer.an
    BY <2>1, <2>3 DEF Sound, IsPacket
  <2>6. f.state = "SMART0_A" /\ f.answer = P /\ f.query = F.query /\ f.type = F.type
    BY <2>1, <2>4 DEF Sound, IsFrame
  <2>7. Fits(F, sp)
    BY <2>1 DEF Belonging, F
  <2>8. Fits(f, sp)
    BY <2>1, <2>5, <2>6, <2>7 DEF Fits, AliasesKnown, Belongs, Given
  <2>9. [F EXCEPT !.answer.ar = @ \o glue, !.state = "SMART0_A"] = f
    BY <2>3, <2>4
  <2>. QED
    BY <2>1, <2>2, <2>5, <2>6, <2>8, <2>9, DownToBelongs DEF Awaiting, Answered, Begun, Asking, R
<1>4. CASE Failed
  <2>1. /\ pc = "exec" /\ pc' = pc /\ UNCHANGED <<setting, R>> /\ Sound(F) /\ nodata'.an = {}
        /\ sp \in 1..MaxDepth
    BY <1>4, TopIsSound DEF Failed, In, IInv, Stacked, Belonging, R
  <2>2. PICK f : Become(f) /\ f = [F EXCEPT !.answer = ServFail, !.state = "DONE"]
    BY <1>4 DEF Failed
  <2>3. f.state = "DONE" /\ f.answer.an = {} /\ f.query = F.query /\ f.type = F.type
    BY <2>1, <2>2, NoPacketWhat DEF Sound, IsFrame
  <2>4. Fits(f, sp)
    BY <2>1, <2>3, FitsNothing
  <2>5. sp = 1 => IsFirst(f)
    BY <2>3 DEF Belonging, IsFirst, F, Begun, Asking
  <2>. QED
    BY <2>1, <2>2, <2>3, <2>4, <2>5, OnBelongs DEF Become, Goes
<1>. QED
  BY <1>1, <1>2, <1>3, <1>4

LEMMA DoneBelongs == ASSUME IInv, Belonging, Done PROVE Belonging'
  BY StillBelongs DEF Done, In, R, Returns, Fetched

LEMMA FreshBelongs ==
  ASSUME nodata = NoPacket, stack = [k \in 1..MaxDepth |-> Frame(conf)], ~Fetched
  PROVE  Belonging
<1>1. /\ 1 \in 1..MaxDepth /\ Frame(conf).state = "INIT" /\ Frame(conf).query = NoName
      /\ Frame(conf).answer = NoPacket
  BY ResolverAssumption DEF ResolverAssumption, Frame
<1>2. IsFirst(Frame(conf))
  BY <1>1 DEF IsFirst, Begun, Asking, Answered
<1>3. \A k \in 1..MaxDepth : Fits(Frame(conf), k)
  BY FrameFits
<1>. QED
  BY <1>1, <1>2, <1>3, NoPacketWhat DEF Belonging

LEMMA ResetBelongs == ASSUME Reset, UNCHANGED <<conf, hosts>>, ~Fetched' PROVE Belonging'
<1>1. nodata' = NoPacket /\ stack' = [k \in 1..MaxDepth |-> Frame(conf')]
  BY DEF Reset
<1>2. /\ 1 \in 1..MaxDepth /\ Frame(conf').state = "INIT" /\ Frame(conf').query = NoName
      /\ Frame(conf').answer = NoPacket
  BY ResolverAssumption DEF ResolverAssumption, Frame
<1>3. IsFirst(stack[1])'
  BY <1>1, <1>2 DEF IsFirst, Begun, Asking, Answered
<1>4. \A k \in 1..MaxDepth : Fits(stack[k], k)'
  BY <1>1, <1>2, NoPacketWhat DEF Fits, AliasesKnown, Belongs, Frame, Given
<1>. QED
  BY <1>1, <1>2, <1>3, <1>4, NoPacketWhat DEF Belonging, Frame

LEMMA OthersBelong ==
  ASSUME IInv, Belonging, Check \/ Fetch \/ TimePasses \/ UNCHANGED vars
  PROVE  Belonging'
<1>1. CASE Check \/ TimePasses \/ UNCHANGED vars
  <2>1. UNCHANGED <<setting, stack, nodata>> /\ (Fetched' => Fetched)
    BY <1>1 DEF Check, TimePasses, vars, R, Fetched
  <2>. QED
    BY <2>1, StillBelongs DEF Belonging
<1>2. CASE Fetch
  <2>1. /\ UNCHANGED <<setting, nodata>> /\ stack' = [stack EXCEPT ![1].answer = NoPacket]
        /\ stack[1].state = "DONE" /\ DOMAIN stack = 1..MaxDepth /\ 1 \in 1..MaxDepth
        /\ IsFrame(stack[1])
    BY <1>2, ResolverAssumption
    DEF Fetch, R, IInv, FramesAwait, Stacked, F, Belonging, Fetched, ResolverAssumption
  <2>2. PICK f : f = [stack[1] EXCEPT !.answer = NoPacket]
    OBVIOUS
  <2>3. f.state = "DONE" /\ f.answer = NoPacket /\ f.query = stack[1].query /\ f.type = stack[1].type
    BY <2>1, <2>2 DEF IsFrame
  <2>4. /\ DOMAIN stack' = 1..MaxDepth
        /\ \A k \in 1..MaxDepth : stack'[k] = IF k = 1 THEN f ELSE stack[k]
    BY <2>1, <2>2
  <2>5. Fits(f, 1)
    BY <2>1, <2>3, NoPacketWhat, FitsNothing
  <2>6. \A k \in 1..MaxDepth : Fits(stack[k], k)'
    <3>1. \A k \in 1..MaxDepth : Fits(stack'[k], k)
      BY <2>4, <2>5 DEF Belonging
    <3>. QED
      BY <3>1 DEF Fits, AliasesKnown, Belongs, Leads
  <2>7. IsFirst(stack[1])'
    <3>1. IsFirst(f)
      BY <2>3, NoPacketWhat DEF Belonging, IsFirst, Begun, Asking
    <3>. QED
      BY <2>1, <2>4, <3>1, SameCandidates DEF IsFirst, setting
  <2>8. ASSUME NEW k \in 1..MaxDepth, stack'[k].state = "CNAME1_A"
        PROVE  Serves(stack'[k + 1], stack'[k])
    <3>1. k # 1 /\ stack'[k] = stack[k] /\ k + 1 # 1
      BY <2>3, <2>4, <2>8
    <3>2. k + 1 \in 1..MaxDepth
      BY <2>8, <3>1, ResolverAssumption DEF IInv, Stacked, Awaiting, ResolverAssumption
    <3>. QED
      BY <2>4, <2>8, <3>1, <3>2 DEF Belonging
  <2>9. (\A k \in 1..MaxDepth : stack[k].state = "CNAME1_A" => Serves(stack[k + 1], stack[k]))'
    BY <2>8 DEF Serves
  <2>. QED
    BY <2>1, <2>3, <2>4, <2>6, <2>7, <2>9 DEF Belonging
<1>. QED
  BY <1>1, <1>2

LEMMA BelongingKept == BInv /\ [Next]_vars => BInv'
<1>. SUFFICES ASSUME BInv, [Next]_vars PROVE BInv'
  OBVIOUS
<1>1. IInv /\ IInv'
  BY NextKeeps DEF BInv
<1>2. CASE Submit \/ Close
  BY <1>1, <1>2, ResetBelongs DEF Submit, Close, BInv, Fetched, setting
<1>3. ASSUME ~(Submit \/ Close), ~strayed' PROVE ~strayed
  BY <1>3 DEF Next, ResExec, vars, history, Check, Fetch, TimePasses, InitGlue, Switch, File, Cache,
     CacheReady, Bind, Search, Hints, Iterate, ForeachNs, ResolveNs, ResolvedNs, ForeachA, QueryWaits,
     QueryAnswered, FollowAlias, FollowedAlias, Finish, Smart, SmartAdd, Done, Failed
<1>4. ASSUME ~(Submit \/ Close), ~strayed' PROVE Belonging'
  <2>1. Belonging
    BY <1>3, <1>4 DEF BInv
  <2>2. CASE ResExec
    BY <1>1, <1>4, <2>1, <2>2, InitGlueBelongs, SwitchBelongs, FileBelongs, CacheBelongs,
       NetworkBelongs, NameServerBelongs, QueryAnsweredBelongs, FollowAliasBelongs,
       FollowedAliasBelongs, GivenKeepsBelonging, DoneBelongs DEF ResExec
  <2>3. CASE Check \/ Fetch \/ TimePasses \/ UNCHANGED vars
    BY <1>1, <2>1, <2>3, OthersBelong
  <2>. QED
    BY <1>4, <2>2, <2>3 DEF Next
<1>. QED
  BY <1>1, <1>2, <1>4 DEF BInv

(* What one step by aliases adds to a set of names.                         *)
Onward(S, T) == T \cup {r.data : r \in {c \in S : c.type = "CNAME" /\ c.name \in T}}

(* The recursive function of Aliases, as far as m steps.                    *)
Steps(S, a, m, g) == g = [n \in 0..m |-> IF n = 0 THEN {a} ELSE Onward(S, g[n - 1])]

ByAliases(S, a, g) == g[0] = {a} /\ \A i \in 1..MaxDepth : g[i] = Onward(S, g[i - 1])

(* The recursive function of Aliases is a function, however far it goes: by *)
(* the first place it would fail at.                                        *)
LEMMA StepsExist ==
  ASSUME NEW S, NEW a
  PROVE  \A m \in Nat : \E g : Steps(S, a, m, g)
<1>. USE DEF Steps
<1>1. PICK Bad : Bad = {m \in Nat : ~ \E g : g = [n \in 0..m |-> IF n = 0 THEN {a} ELSE Onward(S, g[n - 1])]}
  OBVIOUS
<1>2. SUFFICES ASSUME Bad # {} PROVE FALSE
  BY <1>1
<1>3. PICK m \in Bad : \A o \in Bad : m <= o
  BY <1>1, <1>2, FirstPlace
<1>4. m \in Nat /\ ~ \E g : g = [n \in 0..m |-> IF n = 0 THEN {a} ELSE Onward(S, g[n - 1])]
  BY <1>1
<1>5. CASE m = 0
  <2>1. PICK g : g = [n \in 0..0 |-> {a}]
    OBVIOUS
  <2>2. g = [n \in 0..0 |-> IF n = 0 THEN {a} ELSE Onward(S, g[n - 1])]
    BY <2>1
  <2>. QED
    BY <1>4, <1>5, <2>2
<1>6. CASE m # 0
  <2>1. m - 1 \in Nat /\ m - 1 \notin Bad
    BY <1>3, <1>4, <1>6
  <2>2. \E h : h = [n \in 0..(m - 1) |-> IF n = 0 THEN {a} ELSE Onward(S, h[n - 1])]
    BY <1>1, <2>1
  <2>3. PICK h : h = [n \in 0..(m - 1) |-> IF n = 0 THEN {a} ELSE Onward(S, h[n - 1])]
    BY <2>2
  <2>4. PICK g : g = [n \in 0..m |-> IF n = 0 THEN {a} ELSE Onward(S, h[n - 1])]
    OBVIOUS
  <2>5. ASSUME NEW n \in 0..(m - 1) PROVE h[n] = g[n]
    <3>1. h[n] = IF n = 0 THEN {a} ELSE Onward(S, h[n - 1])
      BY <2>3
    <3>2. n \in 0..m
      BY <1>4
    <3>3. g[n] = IF n = 0 THEN {a} ELSE Onward(S, h[n - 1])
      BY <2>4, <3>2
    <3>. QED
      BY <3>1, <3>3
  <2>6. ASSUME NEW n \in 0..m
        PROVE  (IF n = 0 THEN {a} ELSE Onward(S, h[n - 1])) = (IF n = 0 THEN {a} ELSE Onward(S, g[n - 1]))
    <3>1. CASE n # 0
      <4>1. n - 1 \in 0..(m - 1)
        BY <1>4, <3>1
      <4>. QED
        BY <2>5, <4>1
    <3>. QED
      BY <3>1
  <2>7. g = [n \in 0..m |-> IF n = 0 THEN {a} ELSE Onward(S, g[n - 1])]
    BY <2>4, <2>6
  <2>. QED
    BY <1>4, <2>7
<1>. QED
  BY <1>5, <1>6

LEMMA AliasesReach ==
  ASSUME NEW S, NEW a
  PROVE  \E g : Aliases(S, a) = g[MaxDepth] /\ ByAliases(S, a, g)
<1>. DEFINE reach == CHOOSE g : Steps(S, a, MaxDepth, g)
<1>1. MaxDepth \in Nat
  BY ResolverAssumption DEF ResolverAssumption
<1>2. \E g : Steps(S, a, MaxDepth, g)
  BY <1>1, StepsExist
<1>3. Steps(S, a, MaxDepth, reach)
  BY <1>2, Zenon
<1>4. Aliases(S, a) = reach[MaxDepth]
  BY DEF Aliases, Steps, Onward
<1>. HIDE DEF reach
<1>5. PICK g : g = reach
  OBVIOUS
<1>6. Steps(S, a, MaxDepth, g) /\ Aliases(S, a) = g[MaxDepth]
  BY <1>3, <1>4, <1>5, Zenon
<1>7. g[0] = {a} /\ \A i \in 1..MaxDepth : g[i] = Onward(S, g[i - 1])
  <2>1. ASSUME NEW i \in 0..MaxDepth PROVE g[i] = IF i = 0 THEN {a} ELSE Onward(S, g[i - 1])
    BY <1>6 DEF Steps
  <2>2. g[0] = {a}
    BY <1>1, <2>1
  <2>3. ASSUME NEW i \in 1..MaxDepth PROVE g[i] = Onward(S, g[i - 1])
    <3>1. i \in 0..MaxDepth /\ i # 0
      BY <1>1
    <3>. QED
      BY <2>1, <3>1
  <2>. QED
    BY <2>2, <2>3
<1>. QED
  BY <1>6, <1>7 DEF ByAliases

(* The sets it goes through grow.                                           *)
LEMMA ReachGrows ==
  ASSUME NEW n \in Nat, NEW g, \A i \in 1..n : g[i - 1] \subseteq g[i]
  PROVE  \A i, j \in 0..n : i <= j => g[i] \subseteq g[j]
<1>1. SUFFICES ASSUME NEW i \in 0..n, NEW x \in g[i] PROVE \A j \in 0..n : i <= j => x \in g[j]
  OBVIOUS
<1>2. PICK Bad : Bad = {j \in 0..n : i <= j /\ x \notin g[j]}
  OBVIOUS
<1>3. SUFFICES ASSUME Bad # {} PROVE FALSE
  BY <1>2
<1>4. PICK j \in Bad : \A o \in Bad : j <= o
  BY <1>2, <1>3, FirstPlace
<1>5. j \in 0..n /\ i <= j /\ x \notin g[j] /\ j # i
  BY <1>1, <1>2
<1>6. j \in 1..n /\ j - 1 \in 0..n /\ i <= j - 1 /\ j - 1 \notin Bad
  BY <1>4, <1>5
<1>7. x \in g[j - 1]
  BY <1>2, <1>6
<1>. QED
  BY <1>5, <1>6, <1>7

LEMMA LeadsIsAliases ==
  ASSUME NEW S, NEW a, NEW b, Leads(S, a, MaxDepth, b)
  PROVE  b \in Aliases(S, a)
<1>1. PICK g : Aliases(S, a) = g[MaxDepth] /\ ByAliases(S, a, g)
  BY AliasesReach
<1>2. MaxDepth \in Nat
  BY ResolverAssumption DEF ResolverAssumption
<1>3. \A i \in 1..MaxDepth : g[i - 1] \subseteq g[i]
  BY <1>1 DEF Onward, ByAliases
<1>4. \A i, j \in 0..MaxDepth : i <= j => g[i] \subseteq g[j]
  BY <1>2, <1>3, ReachGrows
<1>5. \A i \in 1..MaxDepth : \A r \in S : r.type = "CNAME" /\ r.name \in g[i - 1] => r.data \in g[i]
  BY <1>1 DEF Onward, ByAliases
<1>. QED
  BY <1>1, <1>4, <1>5 DEF Leads, ByAliases

LEMMA InitBelongs == Init => BInv
  BY InitHolds, FreshBelongs DEF Init, BInv, Fetched

(* Whatever the servers say and however frames were entered and left, the   *)
(* records given to the user lead, by aliases, from a name the question     *)
(* stands for, unless the search has gone on in a frame above the first.    *)
THEOREM AnswersBelong == Spec => []AnswerIsForQuestion
<1>1. BInv => AnswerIsForQuestion
  <2>1. SUFFICES ASSUME BInv, pc = "done", ~strayed
                 PROVE  \E k \in DOMAIN Candidates : \A r \in stack[1].answer.an :
                          /\ r.name \in Aliases(stack[1].answer.an, Candidates[k])
                          /\ r.type \in {q.type, "CNAME"}
    BY DEF AnswerIsForQuestion
  <2>2. /\ IInv /\ Belonging /\ sp = 1 /\ F = stack[1] /\ F.state = "DONE" /\ conf \in Confs
        /\ 1 \in 1..MaxDepth /\ MaxDepth \in Nat
    BY <2>1, ResolverAssumption DEF BInv, IInv, FramesAwait, Stacked, F, ResolverAssumption
  <2>3. PICK f : f = stack[1]
    OBVIOUS
  <2>4. Belongs(f.answer.an, f, MaxDepth)
    <3>1. Fits(f, 1) /\ MaxDepth - 1 + 1 = MaxDepth /\ f.state = "DONE"
      BY <2>2, <2>3 DEF Belonging
    <3>. QED
      BY <3>1 DEF Fits, Given
  <2>5. DOMAIN Candidates # {}
    BY <2>2, CandidatesWhat
  <2>6. CASE f.answer.an = {}
    BY <2>3, <2>5, <2>6
  <2>7. CASE f.answer.an # {}
    <3>1. f.query \in Range(Candidates) /\ f.type = q.type
      BY <2>2, <2>3, <2>7 DEF Belonging, IsFirst, Answered
    <3>2. PICK k \in DOMAIN Candidates : f.query = Candidates[k]
      BY <3>1 DEF Range
    <3>3. \A r \in f.answer.an : /\ r.name \in Aliases(f.answer.an, Candidates[k])
                                 /\ r.type \in {q.type, "CNAME"}
      BY <2>4, <3>1, <3>2, LeadsIsAliases DEF Belongs
    <3>. QED
      BY <2>3, <3>3
  <2>. QED
    BY <2>6, <2>7
<1>. QED
  BY <1>1, InitBelongs, BelongingKept, PTL DEF Spec

-----------------------------------------------------------------------------
(* What a stub resolver with servers to ask has done, unless the search     *)
(* has gone on in a frame above the first.                                  *)
Servers == Range(conf.nameservers) \ Inet6
Persistent ==
  /\ ~conf.recurse /\ ~strayed /\ Servers # {}
  /\ \E i \in DOMAIN conf.lookup : conf.lookup[i] = "BIND"

PutUpTo(n) == \A k \in 1..n : Candidates[k] \in asked
Rounds(n) == \A a \in Servers : sent[a] >= n
GaveUp == Rounds(conf.attempts) \/ (PutUpTo(Len(Candidates)) /\ nodata # NoPacket)

(* The hints are one name server with the addresses of all servers, and     *)
(* with others that are not asked.                                          *)
Hinted(f) ==
  /\ f.hints.ns = {HintsLocal}
  /\ DOMAIN f.hints.ar \subseteq Nat \ {0}
  /\ \A k \in DOMAIN f.hints.ar : f.hints.ar[k].host = HintsLocal /\ f.hints.ar[k].addr \in Servers \cup Inet6
  /\ \A a \in Servers : \E k \in DOMAIN f.hints.ar : f.hints.ar[k].addr = a

(* What the first frame, f, has done when it is in its state: to the names  *)
(* of the search (AtName), to the servers in this round, which ends when    *)
(* each has been asked once more (InRound), and to the sources of           *)
(* resolv.conf, of which the network is left when it has given up.          *)
AtName(f) ==
  /\ f.state \in Asking =>
       search \in 1..Len(Candidates) /\ f.query = Candidates[search] /\ PutUpTo(search - 1)
  /\ f.state = "QUERY_A" => f.query \in asked
  /\ f.state = "SEARCH" =>
       search \in 0..Len(Candidates) /\ PutUpTo(search) /\ (search > 0 => nodata # NoPacket)

InRound(f) ==
  /\ f.attempts \in Nat /\ Rounds(f.attempts)
  /\ f.state \in Asking \ {"HINTS"} => Hinted(f)
  /\ f.state \notin {"RESOLV0_NS", "RESOLV1_NS"}
  /\ f.state = "FOREACH_NS" =>
       \/ f.nsI = NsStart
       \/ f.nsI.exec = 1 /\ f.nsI.next = NoName /\ Rounds(f.attempts + 1)
  /\ f.state \in {"FOREACH_A", "QUERY_A"} =>
       /\ f.nsI.exec = 1 /\ f.nsI.next = NoName /\ f.ns = HintsLocal /\ f.j \in Nat
       /\ \A p \in DOMAIN f.hints.ar :
            p <= f.j /\ f.hints.ar[p].addr \notin Inet6 => sent[f.hints.ar[p].addr] > f.attempts

Sources(f) ==
  /\ f.which \in 0..Len(conf.lookup)
  /\ f.state = "INIT" => f.which = 0
  /\ f.state \in {"FILE", "CACHE", "SUBMIT", "CHECK", "FETCH"} => conf.lookup[f.which] # "BIND"
  /\ f.state \notin Answered \cup {"SERVFAIL"} =>
       \A i \in 1..f.which :
         conf.lookup[i] = "BIND" /\ (i = f.which => f.state = "SWITCH") => GaveUp

Outcome(f) ==
  /\ f.state = "SERVFAIL" => Rounds(conf.attempts)
  /\ f.state \in Answered /\ f.answer.an = {} =>
       (f.answer.kind # "servfail" /\ PutUpTo(Len(Candidates))) \/ Rounds(conf.attempts)

Counted == sent \in [Names -> Nat] /\ nodata.kind # "servfail"
Tries(f) == Counted /\ AtName(f) /\ InRound(f) /\ Sources(f) /\ Outcome(f)
Pursuit == IInv /\ (Persistent /\ ~Fetched => Tries(stack[1]))

-----------------------------------------------------------------------------
(* The table of hints: places, ahead of each other by priority and by the   *)
(* number the shuffling gives them.                                         *)
Entries == [addr : Names \cup Inet6, priority : Nat]
Ahead(a, b, seed, soa) ==
  \/ soa[a].priority < soa[b].priority
  \/ soa[a].priority = soa[b].priority /\ ShuffleOf(a - 1, seed) < ShuffleOf(b - 1, seed)

LEMMA PlaceWhat ==
  ASSUME NEW soa \in Seq(Entries), Len(soa) <= Slots, NEW p \in DOMAIN soa
  PROVE  p \in Nat /\ p - 1 \in 0..(Slots - 1) /\ soa[p] \in Entries /\ soa[p].priority \in Nat
<1>1. Len(soa) \in Nat /\ DOMAIN soa = 1..Len(soa) /\ Slots \in Nat
  BY HintsAssumption
<1>2. p \in 1..Len(soa)
  BY <1>1
<1>3. soa[p] \in Entries
  BY <1>2
<1>4. p \in Nat /\ p >= 1 /\ p <= Slots
  BY <1>1, <1>2
<1>. QED
  BY <1>1, <1>3, <1>4 DEF Entries

LEMMA CmpWhat ==
  ASSUME NEW seed \in Seeds, NEW soa \in Seq(Entries), Len(soa) <= Slots,
         NEW a \in DOMAIN soa, NEW b \in DOMAIN soa
  PROVE  /\ Cmp(a, b, seed, soa) < 0 <=> Ahead(a, b, seed, soa)
         /\ Cmp(a, b, seed, soa) > 0 <=> Ahead(b, a, seed, soa)
         /\ Cmp(a, b, seed, soa) = 0 <=> a = b
<1>1. /\ a \in Nat /\ b \in Nat /\ a - 1 \in 0..(Slots - 1) /\ b - 1 \in 0..(Slots - 1)
      /\ soa[a].priority \in Nat /\ soa[b].priority \in Nat
  BY PlaceWhat
<1>2. PICK s, t : s = ShuffleOf(a - 1, seed) /\ t = ShuffleOf(b - 1, seed)
  OBVIOUS
<1>3. s \in Nat /\ t \in Nat /\ (s = t => a - 1 = b - 1)
  BY <1>1, <1>2, HintsAssumption
<1>4. PICK x, y : x = soa[a].priority /\ y = soa[b].priority
  OBVIOUS
<1>5. x \in Nat /\ y \in Nat
  BY <1>1, <1>4
<1>6. Cmp(a, b, seed, soa) = IF x # y THEN x - y ELSE s - t
  BY <1>2, <1>4 DEF Cmp
<1>7. (Ahead(a, b, seed, soa) <=> x < y \/ (x = y /\ s < t)) /\ (Ahead(b, a, seed, soa) <=> y < x \/ (y = x /\ t < s))
  BY <1>2, <1>4 DEF Ahead
<1>8. a = b => x = y /\ s = t
  BY <1>2, <1>4
<1>. QED
  BY <1>1, <1>3, <1>5, <1>6, <1>7, <1>8

LEMMA AheadOrders ==
  ASSUME NEW seed \in Seeds, NEW soa \in Seq(Entries), Len(soa) <= Slots,
         NEW a \in DOMAIN soa, NEW b \in DOMAIN soa, NEW c \in DOMAIN soa
  PROVE  /\ ~Ahead(a, a, seed, soa)
         /\ a = b \/ Ahead(a, b, seed, soa) \/ Ahead(b, a, seed, soa)
         /\ Ahead(a, b, seed, soa) /\ Ahead(b, c, seed, soa) => Ahead(a, c, seed, soa)
<1>1. \A p \in DOMAIN soa : p - 1 \in 0..(Slots - 1) /\ p \in Nat /\ soa[p].priority \in Nat
  BY PlaceWhat
<1>2. PICK f : f = [p \in DOMAIN soa |-> ShuffleOf(p - 1, seed)]
  OBVIOUS
<1>3. f[a] \in Nat /\ f[b] \in Nat /\ f[c] \in Nat /\ (f[a] = f[b] => a = b)
  <2>1. \A p \in DOMAIN soa : f[p] = ShuffleOf(p - 1, seed) /\ f[p] \in Nat
    BY <1>1, <1>2, HintsAssumption
  <2>2. f[a] = f[b] => a - 1 = b - 1
    BY <1>1, <2>1, HintsAssumption
  <2>3. a \in Nat /\ b \in Nat
    BY <1>1
  <2>. QED
    BY <2>1, <2>2, <2>3
<1>4. soa[a].priority \in Nat /\ soa[b].priority \in Nat /\ soa[c].priority \in Nat
  BY <1>1
<1>5. \A p, o \in DOMAIN soa :
        Ahead(p, o, seed, soa) <=> \/ soa[p].priority < soa[o].priority
                                   \/ soa[p].priority = soa[o].priority /\ f[p] < f[o]
  BY <1>2 DEF Ahead
<1>6. PICK x, y, z, s, t, u :
            /\ x = soa[a].priority /\ y = soa[b].priority /\ z = soa[c].priority
            /\ s = f[a] /\ t = f[b] /\ u = f[c]
  OBVIOUS
<1>7. /\ Ahead(a, b, seed, soa) <=> x < y \/ (x = y /\ s < t)
      /\ Ahead(b, a, seed, soa) <=> y < x \/ (y = x /\ t < s)
      /\ Ahead(b, c, seed, soa) <=> y < z \/ (y = z /\ t < u)
      /\ Ahead(a, c, seed, soa) <=> x < z \/ (x = z /\ s < u)
      /\ Ahead(a, a, seed, soa) <=> x < x \/ (x = x /\ s < s)
  BY <1>5, <1>6
<1>. QED
  BY <1>3, <1>4, <1>6, <1>7

(* What dns_hints_i_start() and dns_hints_i_skip() find is ahead of all     *)
(* others there are to find.                                                *)
LEMMA LeastIsAhead ==
  ASSUME NEW seed \in Seeds, NEW soa \in Seq(Entries), Len(soa) <= Slots,
         NEW S, S \subseteq DOMAIN soa, S # {}
  PROVE  /\ Least(S, seed, soa) \in S
         /\ \A o \in S : o = Least(S, seed, soa) \/ Ahead(Least(S, seed, soa), o, seed, soa)
<1>1. \A p \in S : p - 1 \in 0..(Slots - 1) /\ p \in Nat /\ soa[p].priority \in Nat /\ ShuffleOf(p - 1, seed) \in Nat
  <2>1. \A p \in S : p - 1 \in 0..(Slots - 1) /\ p \in Nat /\ soa[p].priority \in Nat
    BY PlaceWhat
  <2>. QED
    BY <2>1, HintsAssumption
<1>. DEFINE T == {soa[p].priority : p \in S}
<1>2. \E x \in T : \A y \in T : x <= y
  <2>1. T \subseteq Nat /\ T # {}
    BY <1>1
  <2>. HIDE DEF T
  <2>. QED
    BY <2>1, FirstPlace
<1>2a. PICK x \in T : \A y \in T : x <= y
  BY <1>2
<1>. DEFINE U == {p \in S : soa[p].priority = x}
            V == {ShuffleOf(p - 1, seed) : p \in U}
<1>3. \E s \in V : \A t \in V : s <= t
  <2>1. V \subseteq Nat /\ V # {}
    BY <1>1, <1>2a
  <2>. HIDE DEF V
  <2>. QED
    BY <2>1, FirstPlace
<1>3a. PICK s \in V : \A t \in V : s <= t
  BY <1>3
<1>4. PICK m \in U : ShuffleOf(m - 1, seed) = s
  BY <1>3a
<1>5. m \in S /\ \A o \in S : ~Ahead(o, m, seed, soa)
  <2>1. SUFFICES ASSUME NEW o \in S, Ahead(o, m, seed, soa) PROVE FALSE
    BY <1>4
  <2>2. soa[o].priority \in Nat /\ x \in Nat /\ x <= soa[o].priority /\ soa[m].priority = x
    BY <1>1, <1>2a, <1>4
  <2>3. CASE soa[o].priority < soa[m].priority
    BY <2>2, <2>3
  <2>4. CASE soa[o].priority = soa[m].priority /\ ShuffleOf(o - 1, seed) < ShuffleOf(m - 1, seed)
    <3>1. o \in U
      BY <2>2, <2>4
    <3>2. PICK t : t = ShuffleOf(o - 1, seed)
      OBVIOUS
    <3>3. s <= t /\ t \in Nat /\ s \in Nat /\ t < s
      BY <1>1, <1>3a, <1>4, <2>4, <3>1, <3>2
    <3>. QED
      BY <3>3
  <2>. QED
    BY <2>1, <2>3, <2>4 DEF Ahead
<1>6. \A o \in S : Cmp(m, o, seed, soa) < 0 \/ (Cmp(m, o, seed, soa) = 0 /\ m <= o)
  <2>1. SUFFICES ASSUME NEW o \in S
                 PROVE  Cmp(m, o, seed, soa) < 0 \/ (Cmp(m, o, seed, soa) = 0 /\ m <= o)
    OBVIOUS
  <2>2. m \in DOMAIN soa /\ o \in DOMAIN soa /\ m \in Nat
    BY <1>1, <1>5
  <2>3. o = m \/ Ahead(m, o, seed, soa)
    BY <1>5, <2>2, AheadOrders
  <2>. QED
    BY <2>2, <2>3, CmpWhat
<1>7. PICK p : p = Least(S, seed, soa)
  OBVIOUS
<1>8. p \in S /\ \A o \in S : Cmp(p, o, seed, soa) < 0 \/ (Cmp(p, o, seed, soa) = 0 /\ p <= o)
  BY <1>5, <1>6, <1>7 DEF Least
<1>9. \A o \in S : o = p \/ Ahead(p, o, seed, soa)
  BY <1>8, CmpWhat
<1>. QED
  BY <1>7, <1>8, <1>9

(* Repeating a step m times is a function, by the first place it fails at.  *)
Repeats(a, G, m, g) == g = [n \in 0..m |-> IF n = 0 THEN a ELSE G[g[n - 1]]]

LEMMA RepeatsExist ==
  ASSUME NEW a, NEW G
  PROVE  \A m \in Nat : \E g : Repeats(a, G, m, g)
<1>. USE DEF Repeats
<1>1. PICK Bad : Bad = {m \in Nat : ~ \E g : g = [n \in 0..m |-> IF n = 0 THEN a ELSE G[g[n - 1]]]}
  OBVIOUS
<1>2. SUFFICES ASSUME Bad # {} PROVE FALSE
  BY <1>1
<1>3. PICK m \in Bad : \A o \in Bad : m <= o
  BY <1>1, <1>2, FirstPlace
<1>4. m \in Nat /\ ~ \E g : g = [n \in 0..m |-> IF n = 0 THEN a ELSE G[g[n - 1]]]
  BY <1>1
<1>5. CASE m = 0
  <2>1. PICK g : g = [n \in 0..0 |-> a]
    OBVIOUS
  <2>2. g = [n \in 0..0 |-> IF n = 0 THEN a ELSE G[g[n - 1]]]
    BY <2>1
  <2>. QED
    BY <1>4, <1>5, <2>2
<1>6. CASE m # 0
  <2>1. m - 1 \in Nat /\ m - 1 \notin Bad
    BY <1>3, <1>4, <1>6
  <2>2. \E h : h = [n \in 0..(m - 1) |-> IF n = 0 THEN a ELSE G[h[n - 1]]]
    BY <1>1, <2>1
  <2>3. PICK h : h = [n \in 0..(m - 1) |-> IF n = 0 THEN a ELSE G[h[n - 1]]]
    BY <2>2
  <2>4. PICK g : g = [n \in 0..m |-> IF n = 0 THEN a ELSE G[h[n - 1]]]
    OBVIOUS
  <2>5. ASSUME NEW n \in 0..(m - 1) PROVE h[n] = g[n]
    <3>1. h[n] = IF n = 0 THEN a ELSE G[h[n - 1]]
      BY <2>3
    <3>2. n \in 0..m
      BY <1>4
    <3>3. g[n] = IF n = 0 THEN a ELSE G[h[n - 1]]
      BY <2>4, <3>2
    <3>. QED
      BY <3>1, <3>3
  <2>6. ASSUME NEW n \in 0..m
        PROVE  (IF n = 0 THEN a ELSE G[h[n - 1]]) = (IF n = 0 THEN a ELSE G[g[n - 1]])
    <3>1. CASE n # 0
      <4>1. n - 1 \in 0..(m - 1)
        BY <1>4, <3>1
      <4>. QED
        BY <2>5, <4>1
    <3>. QED
      BY <3>1
  <2>7. g = [n \in 0..m |-> IF n = 0 THEN a ELSE G[g[n - 1]]]
    BY <2>4, <2>6
  <2>. QED
    BY <1>4, <2>7
<1>. QED
  BY <1>5, <1>6

(* The places an iteration over the table comes to, as Grep has them.       *)
Onto(p, seed, soa) == IF p > Len(soa) THEN p ELSE Skip(p, seed, soa)
Iterates(seed, soa, next) ==
  next = [k \in 1..(Len(soa) + 1) |->
            IF k = 1 THEN Start(seed, soa)
            ELSE IF next[k - 1] > Len(soa) THEN next[k - 1] ELSE Skip(next[k - 1], seed, soa)]

LEMMA SkipWhat ==
  ASSUME NEW seed \in Seeds, NEW soa \in Seq(Entries), Len(soa) <= Slots, NEW p \in DOMAIN soa
  PROVE  \/ /\ Skip(p, seed, soa) = Len(soa) + 1
            /\ \A o \in DOMAIN soa : ~Ahead(p, o, seed, soa)
         \/ /\ Skip(p, seed, soa) \in DOMAIN soa /\ Ahead(p, Skip(p, seed, soa), seed, soa)
            /\ \A o \in DOMAIN soa : Ahead(p, o, seed, soa) =>
                 o = Skip(p, seed, soa) \/ Ahead(Skip(p, seed, soa), o, seed, soa)
<1>. DEFINE S == {o \in DOMAIN soa : Cmp(o, p, seed, soa) > 0}
<1>1. \A o \in DOMAIN soa : Cmp(o, p, seed, soa) > 0 <=> Ahead(p, o, seed, soa)
  BY CmpWhat
<1>2. Skip(p, seed, soa) = IF S = {} THEN Len(soa) + 1 ELSE Least(S, seed, soa)
  BY DEF Skip
<1>3. S \subseteq DOMAIN soa /\ \A o \in DOMAIN soa : o \in S <=> Ahead(p, o, seed, soa)
  BY <1>1
<1>. HIDE DEF S
<1>4. CASE S = {}
  BY <1>2, <1>3, <1>4
<1>5. CASE S # {}
  <2>1. /\ Least(S, seed, soa) \in S
        /\ \A o \in S : o = Least(S, seed, soa) \/ Ahead(Least(S, seed, soa), o, seed, soa)
    BY <1>3, <1>5, LeastIsAhead
  <2>. QED
    BY <1>2, <1>3, <1>5, <2>1
<1>. QED
  BY <1>4, <1>5

LEMMA IterationExists ==
  ASSUME NEW seed \in Seeds, NEW soa \in Seq(Entries), Len(soa) <= Slots
  PROVE  \E next : Iterates(seed, soa, next)
<1>1. Len(soa) \in Nat /\ DOMAIN soa = 1..Len(soa)
  OBVIOUS
<1>2. PICK n : n = Len(soa)
  OBVIOUS
<1>3. PICK G : G = [p \in Nat |-> Onto(p, seed, soa)]
  OBVIOUS
<1>4. PICK g : g = [i \in 0..n |-> IF i = 0 THEN Start(seed, soa) ELSE G[g[i - 1]]]
  <2>1. PICK a : a = Start(seed, soa)
    OBVIOUS
  <2>2. \E g : Repeats(a, G, n, g)
    BY <1>1, <1>2, RepeatsExist
  <2>. QED
    BY <2>1, <2>2 DEF Repeats
<1>5. Start(seed, soa) \in 1..(n + 1)
  <2>1. CASE soa = <<>>
    BY <1>1, <1>2, <2>1 DEF Start
  <2>2. CASE soa # <<>>
    <3>1. Len(soa) \in Nat \ {0}
      BY <2>2, EmptySeq
    <3>1a. 1 \in DOMAIN soa
      BY <1>1, <3>1
    <3>2. Least(DOMAIN soa, seed, soa) \in DOMAIN soa
      BY <3>1a, LeastIsAhead
    <3>. QED
      BY <1>1, <1>2, <2>2, <3>2 DEF Start
  <2>. QED
    BY <2>1, <2>2
<1>6. \A p \in 1..(n + 1) : Onto(p, seed, soa) \in 1..(n + 1)
  <2>1. SUFFICES ASSUME NEW p \in 1..(n + 1) PROVE Onto(p, seed, soa) \in 1..(n + 1)
    OBVIOUS
  <2>2. CASE p > n
    BY <1>2, <2>2 DEF Onto
  <2>3. CASE ~(p > n)
    <3>1. p \in DOMAIN soa /\ Onto(p, seed, soa) = Skip(p, seed, soa)
      BY <1>1, <1>2, <2>3 DEF Onto
    <3>2. Skip(p, seed, soa) = n + 1 \/ Skip(p, seed, soa) \in DOMAIN soa
      BY <1>2, <3>1, SkipWhat
    <3>. QED
      BY <1>1, <1>2, <3>1, <3>2
  <2>. QED
    BY <2>2, <2>3
<1>7. \A i \in 0..n : g[i] \in 1..(n + 1)
  <2>1. PICK Bad : Bad = {i \in 0..n : g[i] \notin 1..(n + 1)}
    OBVIOUS
  <2>2. SUFFICES ASSUME Bad # {} PROVE FALSE
    BY <2>1
  <2>3. Bad \subseteq Nat
    BY <1>1, <1>2, <2>1
  <2>4. PICK m \in Bad : \A o \in Bad : m <= o
    BY <2>2, <2>3, FirstPlace
  <2>5. m \in 0..n /\ g[m] \notin 1..(n + 1)
    BY <2>1, <2>4
  <2>6. m # 0
    BY <1>4, <1>5, <2>5
  <2>7. m - 1 \in 0..n /\ m - 1 \notin Bad
    BY <1>1, <1>2, <2>4, <2>5, <2>6
  <2>8. g[m - 1] \in 1..(n + 1)
    BY <2>1, <2>7
  <2>9. g[m] = G[g[m - 1]]
    BY <1>4, <2>5, <2>6
  <2>10. G[g[m - 1]] = Onto(g[m - 1], seed, soa)
    BY <1>1, <1>2, <1>3, <2>8
  <2>. QED
    BY <1>6, <2>5, <2>8, <2>9, <2>10
<1>8. PICK next : next = [k \in 1..(n + 1) |-> g[k - 1]]
  OBVIOUS
<1>9. ASSUME NEW k \in 1..(n + 1)
      PROVE  g[k - 1] = IF k = 1 THEN Start(seed, soa)
                        ELSE IF next[k - 1] > n THEN next[k - 1] ELSE Skip(next[k - 1], seed, soa)
  <2>1. k - 1 \in 0..n /\ n \in Nat
    BY <1>1, <1>2
  <2>2. CASE k = 1
    <3>1. g[0] = Start(seed, soa)
      BY <1>4, <2>1
    <3>. QED
      BY <2>2, <3>1
  <2>3. CASE k # 1
    <3>1. g[k - 1] = G[g[k - 1 - 1]] /\ k - 1 - 1 \in 0..n /\ k - 1 \in 1..(n + 1)
      BY <1>4, <2>1, <2>3
    <3>2. PICK p : p = next[k - 1]
      OBVIOUS
    <3>3. p = g[k - 1 - 1] /\ p \in Nat
      BY <1>7, <1>8, <2>1, <3>1, <3>2
    <3>4. g[k - 1] = Onto(p, seed, soa)
      BY <1>3, <3>1, <3>3
    <3>. QED
      BY <1>2, <2>3, <3>2, <3>4 DEF Onto
  <2>. QED
    BY <2>2, <2>3
<1>10. next = [k \in 1..(n + 1) |-> IF k = 1 THEN Start(seed, soa)
                        ELSE IF next[k - 1] > n THEN next[k - 1] ELSE Skip(next[k - 1], seed, soa)]
  BY <1>8, <1>9
<1>. QED
  BY <1>2, <1>10 DEF Iterates

(* The iteration meets every place of the table: as long as it has not come *)
(* to place p, what it has come to is ahead of p and always another, and    *)
(* there are only so many.                                                  *)
LEMMA IterationMeetsAll ==
  ASSUME NEW seed \in Seeds, NEW soa \in Seq(Entries), Len(soa) <= Slots,
         NEW next, Iterates(seed, soa, next), NEW p \in DOMAIN soa
  PROVE  \E k \in 1..(Len(soa) + 1) : next[k] = p
<1>1. PICK n : n = Len(soa)
  OBVIOUS
<1>2. n \in Nat /\ DOMAIN soa = 1..n /\ DOMAIN soa # {} /\ soa # <<>>
  <2>1. n \in Nat /\ DOMAIN soa = 1..n
    BY <1>1
  <2>2. Len(<<>>) = 0
    OBVIOUS
  <2>. QED
    BY <1>1, <2>1, <2>2
<1>3. SUFFICES ASSUME \A k \in 1..(n + 1) : next[k] # p PROVE FALSE
  BY <1>1
<1>4. \A k \in 1..(n + 1) :
        next[k] = IF k = 1 THEN Start(seed, soa)
                  ELSE IF next[k - 1] > n THEN next[k - 1] ELSE Skip(next[k - 1], seed, soa)
  BY <1>1 DEF Iterates
<1>. DEFINE Before(k) == next[k] \in DOMAIN soa /\ Ahead(next[k], p, seed, soa)
            Climbs(k) == \A i \in 1..(k - 1) : next[i] \in DOMAIN soa /\ Ahead(next[i], next[k], seed, soa)
<1>5. Before(1) /\ Climbs(1)
  <2>1. next[1] = Least(DOMAIN soa, seed, soa)
    BY <1>2, <1>4 DEF Start
  <2>2. /\ next[1] \in DOMAIN soa
        /\ p = next[1] \/ Ahead(next[1], p, seed, soa)
    BY <1>2, <2>1, LeastIsAhead
  <2>3. next[1] # p
    BY <1>2, <1>3
  <2>. QED
    BY <2>2, <2>3
<1>6. ASSUME NEW k \in 1..n, Before(k), Climbs(k) PROVE Before(k + 1) /\ Climbs(k + 1)
  <2>1. PICK a, b : a = next[k] /\ b = next[k + 1]
    OBVIOUS
  <2>2. k + 1 \in 1..(n + 1) /\ k + 1 # 1 /\ (k + 1) - 1 = k
    BY <1>2
  <2>3. a \in DOMAIN soa /\ ~(a > n) /\ Ahead(a, p, seed, soa)
    BY <1>2, <1>6, <2>1
  <2>4. b = Skip(a, seed, soa)
    BY <1>4, <2>1, <2>2, <2>3
  <2>5. b \in DOMAIN soa /\ Ahead(a, b, seed, soa) /\ (p = b \/ Ahead(b, p, seed, soa))
    BY <2>3, <2>4, SkipWhat
  <2>6. p # b
    BY <1>3, <2>1, <2>2
  <2>7. ASSUME NEW i \in 1..k PROVE next[i] \in DOMAIN soa /\ Ahead(next[i], b, seed, soa)
    <3>1. CASE i = k
      BY <2>1, <2>3, <2>5, <3>1
    <3>2. CASE i # k
      <4>1. i \in 1..(k - 1)
        BY <1>2, <3>2
      <4>2. Ahead(next[i], a, seed, soa)
        BY <1>6, <2>1, <4>1
      <4>3. next[i] \in DOMAIN soa
        BY <1>6, <4>1
      <4>. QED
        BY <2>3, <2>5, <4>2, <4>3, AheadOrders
    <3>. QED
      BY <3>1, <3>2
  <2>. QED
    BY <2>1, <2>2, <2>5, <2>6, <2>7
<1>7. \A k \in 1..(n + 1) : Before(k) /\ Climbs(k)
  <2>1. PICK Bad : Bad = {k \in 1..(n + 1) : ~(Before(k) /\ Climbs(k))}
    OBVIOUS
  <2>2. SUFFICES ASSUME Bad # {} PROVE FALSE
    BY <2>1
  <2>3. Bad \subseteq Nat
    BY <1>2, <2>1
  <2>4. PICK m \in Bad : \A o \in Bad : m <= o
    BY <2>2, <2>3, FirstPlace
  <2>5. m \in 1..(n + 1) /\ ~(Before(m) /\ Climbs(m))
    BY <2>1, <2>4
  <2>6. m # 1
    BY <1>5, <2>5
  <2>7. PICK k : k = m - 1
    OBVIOUS
  <2>8. k \in 1..n /\ k \in 1..(n + 1) /\ k \notin Bad /\ m = k + 1
    BY <1>2, <2>4, <2>5, <2>6, <2>7
  <2>9. Before(k) /\ Climbs(k)
    BY <2>1, <2>8
  <2>10. Before(k + 1) /\ Climbs(k + 1)
    BY <1>6, <2>8, <2>9
  <2>. QED
    BY <2>5, <2>8, <2>10
<1>8. PICK x \in 1..(n + 1), y \in 1..(n + 1) : x # y /\ next[x] = next[y]
  <2>1. PICK h : h = [k \in 1..(n + 1) |-> next[k]]
    OBVIOUS
  <2>2. h \in [1..(n + 1) -> 1..n]
    BY <1>2, <1>7, <2>1
  <2>3. /\ IsFiniteSet(1..(n + 1)) /\ Cardinality(1..(n + 1)) = n + 1
        /\ IsFiniteSet(1..n) /\ Cardinality(1..n) = n
    <3>1. n \in Int /\ n + 1 \in Int /\ 1 \in Int /\ ~(1 > n + 1) /\ (n = 0 <=> 1 > n)
      BY <1>2
    <3>2. /\ IsFiniteSet(1..(n + 1)) /\ Cardinality(1..(n + 1)) = IF 1 > n + 1 THEN 0 ELSE (n + 1) - 1 + 1
          /\ IsFiniteSet(1..n) /\ Cardinality(1..n) = IF 1 > n THEN 0 ELSE n - 1 + 1
      BY <3>1, FS_Interval
    <3>. QED
      BY <1>2, <3>1, <3>2
  <2>4. Cardinality(1..n) < Cardinality(1..(n + 1))
    BY <1>2, <2>3
  <2>5. \E x, y \in 1..(n + 1) : x # y /\ h[x] = h[y]
    BY <2>2, <2>3, <2>4, FS_PigeonHole
  <2>. QED
    BY <2>1, <2>5
<1>9. ASSUME NEW i \in 1..(n + 1), NEW k \in 1..(n + 1), i < k, next[i] = next[k] PROVE FALSE
  <2>1. i \in 1..(k - 1) /\ next[k] \in DOMAIN soa
    BY <1>2, <1>7, <1>9
  <2>2. Ahead(next[i], next[k], seed, soa)
    BY <1>7, <2>1
  <2>. QED
    BY <1>9, <2>1, <2>2, AheadOrders
<1>10. x < y \/ y < x
  BY <1>2, <1>8
<1>. QED
  BY <1>8, <1>9, <1>10

(* dns_hints_grep() gives the address in every place, and no others.        *)
LEMMA GrepGivesAll ==
  ASSUME NEW seed \in Seeds, NEW soa \in Seq(Entries), Len(soa) <= Slots,
         NEW addrs, addrs = Grep(seed, soa)
  PROVE  /\ DOMAIN addrs \subseteq Nat \ {0}
         /\ \A k \in DOMAIN addrs : \E p \in DOMAIN soa : addrs[k] = soa[p].addr
         /\ \A p \in DOMAIN soa : \E k \in DOMAIN addrs : addrs[k] = soa[p].addr
<1>. DEFINE it == CHOOSE next : Iterates(seed, soa, next)
<1>1. Iterates(seed, soa, it)
  <2>1. \E next : Iterates(seed, soa, next)
    BY IterationExists
  <2>. QED
    BY <2>1, Zenon
<1>2. addrs = [k \in {k \in 1..(Len(soa) + 1) : it[k] \in DOMAIN soa} |-> soa[it[k]].addr]
  BY DEF Grep, Iterates
<1>. HIDE DEF it
<1>3. PICK next : next = it
  OBVIOUS
<1>4. PICK found : found = {k \in 1..(Len(soa) + 1) : next[k] \in DOMAIN soa}
  OBVIOUS
<1>5. addrs = [k \in found |-> soa[next[k]].addr] /\ Len(soa) \in Nat
  BY <1>2, <1>3, <1>4
<1>6. ASSUME NEW p \in DOMAIN soa PROVE \E k \in found : next[k] = p
  BY <1>1, <1>3, <1>4, IterationMeetsAll
<1>7. DOMAIN addrs = found /\ \A k \in found : addrs[k] = soa[next[k]].addr /\ next[k] \in DOMAIN soa
  BY <1>4, <1>5
<1>8. DOMAIN addrs \subseteq Nat \ {0}
  BY <1>4, <1>5, <1>7
<1>9. \A p \in DOMAIN soa : \E k \in DOMAIN addrs : addrs[k] = soa[p].addr
  BY <1>6, <1>7
<1>. QED
  BY <1>7, <1>8, <1>9

(* Each name server of resolv.conf gets a place in the table, which has     *)
(* room for them.                                                           *)
Filled(ns, rotate, g) ==
  g = [k \in 0..Len(ns) |->
         IF k = 0 THEN <<>> ELSE Insert(g[k - 1], ns[k], IF rotate THEN 1 ELSE k)]

LEMMA InsertGivesAll ==
  ASSUME NEW ns \in Seq(Names \cup Inet6), Len(ns) <= Slots, NEW rotate,
         NEW soa, soa = InsertResconf(ns, rotate)
  PROVE  /\ soa \in Seq(Entries) /\ Len(soa) = Len(ns)
         /\ \A k \in 1..Len(ns) : soa[k].addr = ns[k]
<1>1. PICK n : n = Len(ns)
  OBVIOUS
<1>2. n \in Nat /\ DOMAIN ns = 1..n /\ n <= Slots /\ Slots \in Nat
      /\ \A k \in 1..n : ns[k] \in Names \cup Inet6
  BY <1>1, HintsAssumption
<1>3. PICK e : e = [k \in 1..n |-> [addr |-> ns[k], priority |-> IF rotate THEN 1 ELSE k]]
  OBVIOUS
<1>4. \A k \in 1..n : e[k] \in Entries /\ e[k].addr = ns[k]
  BY <1>2, <1>3 DEF Entries
<1>5. PICK h : h = [k \in 0..n |-> [i \in 1..k |-> e[i]]]
  OBVIOUS
<1>6. ASSUME NEW k \in 0..n
      PROVE  h[k] = [i \in 1..k |-> e[i]] /\ h[k] \in Seq(Entries) /\ Len(h[k]) = k
  <2>1. h[k] = [i \in 1..k |-> e[i]] /\ k \in Nat
    BY <1>2, <1>5
  <2>2. \A i \in 1..k : e[i] \in Entries
    BY <1>2, <1>4
  <2>3. h[k] \in [1..k -> Entries]
    BY <2>1, <2>2
  <2>. QED
    BY <2>1, <2>3
<1>7. ASSUME NEW k \in 1..n
      PROVE  Insert(h[k - 1], ns[k], IF rotate THEN 1 ELSE k) = h[k]
  <2>1. k - 1 \in 0..n /\ k \in 0..n /\ k \in Nat /\ k >= 1 /\ k - 1 < Slots
    BY <1>2
  <2>2. PICK s : s = h[k - 1]
    OBVIOUS
  <2>3. s = [i \in 1..(k - 1) |-> e[i]] /\ s \in Seq(Entries) /\ Len(s) = k - 1
    BY <1>6, <2>1, <2>2
  <2>4. PICK pr : pr = IF rotate THEN 1 ELSE k
    OBVIOUS
  <2>5. (IF pr < 1 THEN 1 ELSE pr) = pr
    BY <2>1, <2>4
  <2>6. e[k] = [addr |-> ns[k], priority |-> pr]
    BY <1>3, <2>4
  <2>7. Insert(s, ns[k], pr) = Append(s, e[k])
    BY <2>1, <2>3, <2>5, <2>6 DEF Insert
  <2>8. Append(s, e[k]) = [i \in 1..k |-> e[i]]
    <3>1. /\ Append(s, e[k]) \in Seq(Entries) /\ Len(Append(s, e[k])) = k
          /\ \A i \in 1..k : Append(s, e[k])[i] = e[i]
      BY <1>4, <2>1, <2>3
    <3>. QED
      BY <3>1
  <2>9. h[k] = [i \in 1..k |-> e[i]]
    BY <1>6, <2>1
  <2>. QED
    BY <2>2, <2>4, <2>7, <2>8, <2>9
<1>. DEFINE it == CHOOSE g : Filled(ns, rotate, g)
<1>8. Filled(ns, rotate, it)
  <2>1. h[0] = <<>>
    <3>1. 0 \in 0..n
      BY <1>2
    <3>2. h[0] \in Seq(Entries) /\ Len(h[0]) = 0
      BY <1>6, <3>1
    <3>. QED
      BY <3>2, EmptySeq
  <2>2. \A k \in 0..n : h[k] = IF k = 0 THEN <<>> ELSE Insert(h[k - 1], ns[k], IF rotate THEN 1 ELSE k)
    BY <1>2, <1>7, <2>1
  <2>3. h = [k \in 0..n |-> h[k]]
    BY <1>5
  <2>4. h = [k \in 0..n |-> IF k = 0 THEN <<>> ELSE Insert(h[k - 1], ns[k], IF rotate THEN 1 ELSE k)]
    BY <2>2, <2>3
  <2>5. Filled(ns, rotate, h)
    BY <1>1, <2>4 DEF Filled
  <2>. QED
    BY <2>5, Zenon
<1>9. soa = it[Len(ns)]
  BY DEF InsertResconf, Filled
<1>. HIDE DEF it
<1>10. PICK g : g = it
  OBVIOUS
<1>11. \A k \in 0..n : g[k] = IF k = 0 THEN <<>> ELSE Insert(g[k - 1], ns[k], IF rotate THEN 1 ELSE k)
  BY <1>1, <1>8, <1>10 DEF Filled
<1>12. g[n] = h[n]
  <2>1. PICK Bad : Bad = {k \in 0..n : g[k] # h[k]}
    OBVIOUS
  <2>2. SUFFICES ASSUME Bad # {} PROVE FALSE
    BY <1>2, <2>1
  <2>3. Bad \subseteq Nat
    BY <1>2, <2>1
  <2>4. PICK m \in Bad : \A o \in Bad : m <= o
    BY <2>2, <2>3, FirstPlace
  <2>5. m \in 0..n /\ g[m] # h[m] /\ m \in Nat
    BY <1>2, <2>1, <2>4
  <2>6. m # 0
    <3>1. CASE m = 0
      <4>1. g[0] = <<>> /\ h[0] \in Seq(Entries) /\ Len(h[0]) = 0
        BY <1>6, <1>11, <2>5, <3>1
      <4>2. h[0] = <<>>
        BY <4>1, EmptySeq
      <4>. QED
        BY <2>5, <3>1, <4>1, <4>2
    <3>. QED
      BY <3>1
  <2>7. m - 1 \in 0..n /\ m - 1 \notin Bad /\ m \in 1..n
    BY <1>2, <2>4, <2>5, <2>6
  <2>8. g[m - 1] = h[m - 1]
    BY <2>1, <2>7
  <2>9. g[m] = Insert(g[m - 1], ns[m], IF rotate THEN 1 ELSE m)
    BY <1>11, <2>5, <2>6
  <2>. QED
    BY <1>7, <2>5, <2>7, <2>8, <2>9
<1>13. soa = h[n] /\ n \in 0..n
  BY <1>1, <1>2, <1>9, <1>10, <1>12
<1>14. soa = [i \in 1..n |-> e[i]] /\ soa \in Seq(Entries) /\ Len(soa) = n
  BY <1>6, <1>13
<1>. QED
  BY <1>1, <1>4, <1>14

(* dns_hints_query() gives every server of resolv.conf.                     *)
LEMMA HintsMeetServers ==
  ASSUME conf \in Confs, NEW seed \in Seeds, NEW f, f.hints = HintsQuery(seed)
  PROVE  Hinted(f)
<1>1. PICK ns, rotate, soa, addrs :
        /\ ns = conf.nameservers /\ rotate = conf.rotate
        /\ soa = InsertResconf(ns, rotate) /\ addrs = Grep(seed, soa)
  OBVIOUS
<1>2. ns \in Seq(Names \cup Inet6) /\ Len(ns) <= Slots
  BY <1>1, ResolverAssumption DEF ResolverAssumption
<1>3. /\ soa \in Seq(Entries) /\ Len(soa) = Len(ns)
      /\ \A k \in 1..Len(ns) : soa[k].addr = ns[k]
  BY <1>1, <1>2, InsertGivesAll
<1>4. /\ DOMAIN addrs \subseteq Nat \ {0}
      /\ \A k \in DOMAIN addrs : \E p \in DOMAIN soa : addrs[k] = soa[p].addr
      /\ \A p \in DOMAIN soa : \E k \in DOMAIN addrs : addrs[k] = soa[p].addr
  <2>1. Len(soa) <= Slots
    BY <1>2, <1>3
  <2>2. soa \in Seq(Entries) /\ addrs = Grep(seed, soa)
    BY <1>1, <1>3
  <2>. QED
    BY <2>1, <2>2, GrepGivesAll
<1>5. DOMAIN soa = 1..Len(ns) /\ DOMAIN ns = 1..Len(ns)
  BY <1>2, <1>3
<1>6. PICK h : h = [k \in DOMAIN addrs |-> [host |-> HintsLocal, addr |-> addrs[k]]]
  OBVIOUS
<1>7. f.hints = [ns |-> {HintsLocal}, ar |-> h, base |-> 0]
  BY Zenon, <1>1, <1>6 DEF HintsQuery
<1>8. Servers = {ns[k] : k \in 1..Len(ns)} \ Inet6
  BY <1>1, <1>5 DEF Servers, Range
<1>9. DOMAIN h = DOMAIN addrs /\ \A k \in DOMAIN h : h[k].host = HintsLocal /\ h[k].addr = addrs[k]
  BY <1>6
<1>10. \A k \in DOMAIN h : h[k].addr \in Servers \cup Inet6
  BY <1>3, <1>4, <1>5, <1>8, <1>9
<1>11. ASSUME NEW a \in Servers PROVE \E k \in DOMAIN h : h[k].addr = a
  <2>1. PICK p \in 1..Len(ns) : a = ns[p]
    BY <1>8
  <2>2. p \in DOMAIN soa /\ soa[p].addr = a
    BY <1>3, <1>5, <2>1
  <2>3. PICK k \in DOMAIN addrs : addrs[k] = soa[p].addr
    BY <1>4, <2>2
  <2>. QED
    BY <1>9, <2>2, <2>3
<1>12. f.hints.ns = {HintsLocal} /\ f.hints.ar = h
  BY <1>7
<1>. QED
  BY <1>4, <1>9, <1>10, <1>11, <1>12 DEF Hinted

LEMMA FirstTries ==
  ASSUME NEW f, stack'[1] = f, Counted', AtName(f)', InRound(f)', Sources(f)', Outcome(f)', IInv'
  PROVE  Pursuit'
<1>1. AtName(stack[1])'
  BY DEF AtName, PutUpTo
<1>2. InRound(stack[1])'
  BY DEF InRound, Hinted, Rounds
<1>3. Sources(stack[1])'
  BY DEF Sources, Rounds, PutUpTo
<1>4. Outcome(stack[1])'
  BY DEF Outcome, Rounds, PutUpTo
<1>. QED
  BY <1>1, <1>2, <1>3, <1>4 DEF Pursuit, Tries

LEMMA ServersWhat ==
  ASSUME conf \in Confs
  PROVE  /\ Servers \subseteq Names /\ Servers \subseteq Nat
         /\ conf.attempts \in Nat /\ Len(conf.lookup) \in Nat
         /\ DOMAIN conf.lookup = 1..Len(conf.lookup)
         /\ \A i \in DOMAIN conf.lookup : conf.lookup[i] \in {"FILE", "BIND", "CACHE"}
<1>1. /\ conf.attempts \in Nat /\ conf.lookup \in Seq({"FILE", "BIND", "CACHE"})
      /\ conf.nameservers \in Seq(Names \cup Inet6)
  BY ResolverAssumption DEF ResolverAssumption
<1>2. Servers \subseteq Names
  <2>1. \A k \in DOMAIN conf.nameservers : conf.nameservers[k] \in Names \cup Inet6
    BY <1>1, ElementOfSeq
  <2>. QED
    BY <2>1 DEF Servers, Range
<1>3. \A i \in DOMAIN conf.lookup : conf.lookup[i] \in {"FILE", "BIND", "CACHE"}
  BY <1>1, ElementOfSeq
<1>4. Servers \subseteq Nat
  BY <1>2 DEF Names, Rank
<1>. QED
  BY <1>1, <1>2, <1>3, <1>4

(* A step that leaves the counts as they are.                               *)
SameCounts == UNCHANGED <<conf, hosts, q, search, nodata, asked, sent>>
LEMMA StillTries ==
  ASSUME Persistent, Tries(stack[1]), IInv', SameCounts, stack'[1] = stack[1]
  PROVE  Pursuit'
<1>1. PICK f : f = stack[1]
  OBVIOUS
<1>2. Candidates' = Candidates /\ Servers' = Servers
  BY SameCandidates DEF SameCounts, setting, Servers
<1>3. Counted' /\ AtName(f)' /\ InRound(f)' /\ Sources(f)' /\ Outcome(f)'
  <2>1. Counted /\ AtName(f) /\ InRound(f) /\ Sources(f) /\ Outcome(f)
    BY <1>1 DEF Tries
  <2>2. Counted' /\ AtName(f)'
    BY <1>2, <2>1 DEF Counted, AtName, PutUpTo, SameCounts
  <2>3. InRound(f)'
    BY <1>2, <2>1 DEF InRound, Hinted, Rounds, SameCounts
  <2>4. Sources(f)' /\ Outcome(f)'
    BY <1>2, <2>1 DEF Sources, Outcome, Rounds, PutUpTo, GaveUp, SameCounts
  <2>. QED
    BY <2>2, <2>3, <2>4
<1>. QED
  BY <1>1, <1>3, FirstTries

(* The first frame is at the top and goes on as f.                          *)
Advances(g, f) ==
  /\ IInv /\ IInv' /\ Persistent /\ ~Fetched /\ Tries(g)
  /\ stack[1] = g /\ stack'[1] = f /\ UNCHANGED setting

LEMMA AdvancesWhat ==
  ASSUME Pursuit, IInv', Persistent, sp = 1, pc = "exec", UNCHANGED setting, NEW f, Become(f)
  PROVE  \E g : g = F /\ Advances(g, f) /\ Sound(g)
<1>1. PICK g : g = stack[1]
  OBVIOUS
<1>2. IInv /\ 1 \in 1..MaxDepth /\ DOMAIN stack = 1..MaxDepth /\ ~Fetched /\ F = stack[1]
  BY ResolverAssumption DEF Pursuit, IInv, Stacked, Fetched, F, ResolverAssumption
<1>3. stack'[1] = f
  BY <1>2 DEF Become
<1>4. Tries(g) /\ Sound(g)
  BY <1>1, <1>2, TopIsSound DEF Pursuit, IInv
<1>. QED
  BY <1>1, <1>2, <1>3, <1>4 DEF Advances

(* It is not about to ask.                                                  *)
LEMMA QuietStep ==
  ASSUME NEW g, NEW f, Advances(g, f), UNCHANGED <<asked, sent>>, f.attempts = g.attempts,
         f.state \notin Asking \cup {"SEARCH"}
  PROVE  AtName(f)' /\ InRound(f)'
<1>1. /\ Servers' = Servers /\ InRound(g) /\ f.state # "SEARCH"
      /\ f.state \notin {"HINTS", "ITERATE", "FOREACH_NS", "FOREACH_A", "RESOLV0_NS", "RESOLV1_NS", "QUERY_A"}
  BY DEF Advances, setting, Servers, Tries, Asking
<1>2. AtName(f)'
  BY <1>1 DEF AtName, Asking
<1>3. InRound(f)'
  BY <1>1 DEF InRound, Rounds, Asking
<1>. QED
  BY <1>2, <1>3

(* It comes to an answer with records.                                      *)
LEMMA AnswerStep ==
  ASSUME NEW g, NEW f, Advances(g, f), UNCHANGED <<nodata, asked, sent>>,
         f.attempts = g.attempts, f.which = g.which, f.state \in Answered, f.answer.an # {}
  PROVE  Pursuit'
<1>1. f.state \notin Asking \cup {"SEARCH", "SERVFAIL", "INIT", "FILE", "CACHE", "SUBMIT", "CHECK", "FETCH"}
  BY DEF Answered, Asking
<1>2. AtName(f)' /\ InRound(f)'
  BY <1>1, QuietStep
<1>3. Counted' /\ Sources(f)' /\ Outcome(f)'
  BY <1>1 DEF Advances, setting, Tries, Counted, Sources, Outcome
<1>. QED
  BY <1>2, <1>3, FirstTries DEF Advances

(* It keeps what it has answered.                                           *)
LEMMA AnsweredStep ==
  ASSUME NEW g, NEW f, Advances(g, f), UNCHANGED <<nodata, asked, sent>>,
         f.attempts = g.attempts, f.which = g.which, f.state \in Answered, g.state \in Answered,
         f.answer.an = {} => g.answer.an = {},
         g.answer.kind # "servfail" => f.answer.kind # "servfail"
  PROVE  Pursuit'
<1>1. f.state \notin Asking \cup {"SEARCH", "SERVFAIL", "INIT", "FILE", "CACHE", "SUBMIT", "CHECK", "FETCH"}
  BY DEF Answered, Asking
<1>2. AtName(f)' /\ InRound(f)'
  BY <1>1, QuietStep
<1>3. Counted' /\ Sources(f)'
  BY <1>1 DEF Advances, setting, Tries, Counted, Sources
<1>4. Outcome(f)'
  <2>1. Candidates' = Candidates /\ Servers' = Servers /\ conf' = conf /\ Outcome(g)
    BY SameCandidates DEF Advances, setting, Servers, Tries
  <2>. QED
    BY <1>1, <2>1 DEF Outcome, Rounds, PutUpTo
<1>. QED
  BY <1>2, <1>3, <1>4, FirstTries DEF Advances

(* It has not been at the network, or has left it, and goes on there.       *)
Elsewhere == {"FILE", "CACHE", "SUBMIT", "CHECK", "FETCH"}
LEMMA SourceStep ==
  ASSUME NEW g, NEW f, Advances(g, f), UNCHANGED <<nodata, asked, sent>>,
         f.attempts = g.attempts, f.which = g.which,
         g.state \in Elsewhere, f.state \in Elsewhere \cup {"SWITCH"}
  PROVE  Pursuit'
<1>1. f.state \notin Asking \cup {"SEARCH", "SERVFAIL", "INIT"} \cup Answered
  BY DEF Answered, Asking, Elsewhere
<1>2. AtName(f)' /\ InRound(f)'
  BY <1>1, QuietStep
<1>3. Counted' /\ Outcome(f)'
  BY <1>1 DEF Advances, setting, Tries, Counted, Outcome
<1>4. /\ Candidates' = Candidates /\ Servers' = Servers /\ conf' = conf /\ GaveUp' = GaveUp
      /\ Sources(g) /\ g.state \notin Answered \cup {"SERVFAIL"}
  <2>1. Candidates' = Candidates /\ Servers' = Servers /\ conf' = conf /\ Sources(g)
    BY SameCandidates DEF Advances, setting, Servers, Tries
  <2>. QED
    BY <2>1 DEF GaveUp, Rounds, PutUpTo, Elsewhere, Answered
<1>5. conf.lookup[f.which] # "BIND"
  BY <1>4 DEF Sources, Elsewhere
<1>6. Sources(f)'
  BY <1>1, <1>4, <1>5 DEF Sources, Elsewhere
<1>. QED
  BY <1>2, <1>3, <1>6, FirstTries DEF Advances

LEMMA InitGlueTries ==
  ASSUME Pursuit, IInv', Persistent, sp = 1, InitGlue
  PROVE  Pursuit'
<1>1. /\ pc = "exec" /\ F.state = "INIT" /\ Become([F EXCEPT !.state = "SWITCH"])
      /\ UNCHANGED <<setting, nodata, asked, sent>>
  BY DEF InitGlue, In, R, history
<1>2. PICK f : f = [F EXCEPT !.state = "SWITCH"]
  OBVIOUS
<1>3. PICK g : g = F /\ Advances(g, f) /\ Sound(g)
  BY <1>1, <1>2, AdvancesWhat
<1>4. f.state = "SWITCH" /\ f.attempts = g.attempts /\ f.which = g.which /\ g.state = "INIT"
  BY <1>1, <1>2, <1>3 DEF Sound, IsFrame
<1>5. AtName(f)' /\ InRound(f)'
  BY <1>1, <1>3, <1>4, QuietStep DEF Asking
<1>6. Counted' /\ Outcome(f)'
  BY <1>1, <1>3, <1>4 DEF Advances, Tries, Counted, Outcome, Answered
<1>7. Sources(f)'
  BY <1>1, <1>3, <1>4, ServersWhat DEF Advances, setting, Tries, Sources, Answered, IInv, Stacked
<1>. QED
  BY <1>3, <1>5, <1>6, <1>7, FirstTries DEF Advances

LEMMA SwitchTries ==
  ASSUME Pursuit, IInv', Persistent, sp = 1, Switch
  PROVE  Pursuit'
<1>1. pc = "exec" /\ F.state = "SWITCH" /\ UNCHANGED <<setting, search, asked, sent>> /\ conf \in Confs
  BY DEF Switch, In, history, Pursuit, IInv, Stacked
<1>2. \E w, s, P : /\ Become([F EXCEPT !.which = w, !.state = s, !.answer = P])
                   /\ \/ /\ F.which < Len(conf.lookup) /\ w = F.which + 1 /\ nodata' = nodata
                         /\ s = IF conf.lookup[F.which + 1] = "CACHE" /\ ~conf.cache
                                THEN "SWITCH" ELSE conf.lookup[F.which + 1]
                      \/ /\ ~(F.which < Len(conf.lookup)) /\ w = F.which
                         /\ nodata # NoPacket /\ nodata' = NoPacket /\ s = "FINISH" /\ P = nodata
                      \/ /\ ~(F.which < Len(conf.lookup)) /\ w = F.which
                         /\ nodata = NoPacket /\ nodata' = nodata /\ s = "SERVFAIL"
  <2>0. Sound(F)
    BY <1>1, TopIsSound DEF Pursuit, IInv
  <2>1. CASE F.which < Len(conf.lookup)
    <3>1. PICK w, s : /\ Become([F EXCEPT !.which = w, !.state = s]) /\ w = F.which + 1
                      /\ s = IF conf.lookup[F.which + 1] = "CACHE" /\ ~conf.cache
                             THEN "SWITCH" ELSE conf.lookup[F.which + 1]
      BY Zenon, <2>1 DEF Switch
    <3>2. [F EXCEPT !.which = w, !.state = s] = [F EXCEPT !.which = w, !.state = s, !.answer = F.answer]
      BY <2>0 DEF Sound, IsFrame
    <3>3. nodata' = nodata
      BY <2>1 DEF Switch
    <3>4. Become([F EXCEPT !.which = w, !.state = s, !.answer = F.answer])
      BY <3>1, <3>2
    <3>. QED
      BY Zenon, <2>1, <3>1, <3>3, <3>4
  <2>2. CASE ~(F.which < Len(conf.lookup)) /\ nodata # NoPacket
    <3>1. Become([F EXCEPT !.answer = nodata, !.state = "FINISH"]) /\ nodata' = NoPacket
      BY <2>2 DEF Switch
    <3>2. [F EXCEPT !.answer = nodata, !.state = "FINISH"]
            = [F EXCEPT !.which = F.which, !.state = "FINISH", !.answer = nodata]
      BY <2>0 DEF Sound, IsFrame
    <3>. QED
      BY <2>2, <3>1, <3>2
  <2>3. CASE ~(F.which < Len(conf.lookup)) /\ ~(nodata # NoPacket)
    <3>1. Goto("SERVFAIL") /\ nodata' = nodata
      BY <2>3 DEF Switch
    <3>2. [F EXCEPT !.state = "SERVFAIL"] = [F EXCEPT !.which = F.which, !.state = "SERVFAIL", !.answer = F.answer]
      BY <2>0 DEF Sound, IsFrame
    <3>. QED
      BY <2>3, <3>1, <3>2 DEF Goto
  <2>. QED
    BY <2>1, <2>2, <2>3
<1>3. PICK w, s, P, f :
        /\ Become(f) /\ f = [F EXCEPT !.which = w, !.state = s, !.answer = P]
        /\ \/ /\ F.which < Len(conf.lookup) /\ w = F.which + 1 /\ nodata' = nodata
              /\ s = IF conf.lookup[F.which + 1] = "CACHE" /\ ~conf.cache
                     THEN "SWITCH" ELSE conf.lookup[F.which + 1]
           \/ /\ ~(F.which < Len(conf.lookup)) /\ w = F.which
              /\ nodata # NoPacket /\ nodata' = NoPacket /\ s = "FINISH" /\ P = nodata
           \/ /\ ~(F.which < Len(conf.lookup)) /\ w = F.which
              /\ nodata = NoPacket /\ nodata' = nodata /\ s = "SERVFAIL"
  BY Zenon, <1>2
<1>4. PICK g : g = F /\ Advances(g, f) /\ Sound(g)
  BY <1>1, <1>3, AdvancesWhat
<1>5. f.state = s /\ f.attempts = g.attempts /\ f.which = w /\ g.state = "SWITCH" /\ f.answer = P
  BY <1>1, <1>3, <1>4 DEF Sound, IsFrame
<1>6. /\ Candidates' = Candidates /\ Servers' = Servers /\ conf' = conf
      /\ g.which \in 0..Len(conf.lookup) /\ Len(conf.lookup) \in Nat
      /\ \A i \in 1..Len(conf.lookup) : conf.lookup[i] \in {"FILE", "BIND", "CACHE"}
      /\ \A i \in 1..g.which : conf.lookup[i] = "BIND" => GaveUp
      /\ \E i \in 1..Len(conf.lookup) : conf.lookup[i] = "BIND"
  <2>1. Candidates' = Candidates /\ Servers' = Servers /\ conf' = conf
    BY <1>1, SameCandidates DEF setting, Servers
  <2>2. Sources(g)
    BY <1>4 DEF Advances, Tries
  <2>. QED
    BY <1>1, <1>5, <2>1, <2>2, ServersWhat DEF Sources, Answered, Persistent
<1>7. PICK look, n : look = conf.lookup /\ n = g.which
  OBVIOUS
<1>8. CASE /\ n < Len(look) /\ w = n + 1 /\ nodata' = nodata
           /\ s = IF look[n + 1] = "CACHE" /\ ~conf.cache THEN "SWITCH" ELSE look[n + 1]
  <2>1. \/ s = "SWITCH" /\ look[w] # "BIND"
        \/ s \in {"FILE", "BIND", "CACHE"} /\ s = look[w]
    <3>1. look[n + 1] \in {"FILE", "BIND", "CACHE"}
      BY <1>6, <1>7, <1>8
    <3>2. CASE look[n + 1] = "CACHE" /\ ~conf.cache
      <4>1. s = "SWITCH"
        BY <1>8, <3>2
      <4>2. look[w] = "CACHE"
        BY <1>8, <3>2
      <4>. QED
        BY <4>1, <4>2
    <3>3. CASE ~(look[n + 1] = "CACHE" /\ ~conf.cache)
      <4>1. s = look[n + 1]
        BY <1>8, <3>3
      <4>. QED
        BY <1>8, <3>1, <4>1
    <3>. QED
      BY <3>2, <3>3
  <2>2. AtName(f)' /\ InRound(f)'
    BY <1>1, <1>4, <1>5, <2>1, QuietStep DEF Asking
  <2>3. Counted' /\ Outcome(f)'
    BY <1>1, <1>4, <1>5, <1>8, <2>1 DEF Advances, Tries, Counted, Outcome, Answered
  <2>4. GaveUp' = GaveUp
    BY <1>1, <1>6, <1>8 DEF GaveUp, Rounds, PutUpTo
  <2>5. Sources(f)'
    <3>1. w \in 0..Len(look) /\ s # "INIT" /\ s \notin {"SUBMIT", "CHECK", "FETCH"}
      BY <1>6, <1>7, <1>8, <2>1
    <3>2. s \in {"FILE", "CACHE"} => look[w] # "BIND"
      BY <2>1
    <3>3. ASSUME NEW i \in 1..w, look[i] = "BIND", i = w => s = "SWITCH" PROVE GaveUp
      <4>1. i # w
        BY <2>1, <3>3
      <4>2. i \in 1..n
        BY <1>6, <1>7, <1>8, <4>1
      <4>. QED
        BY <1>6, <1>7, <3>3, <4>2
    <3>. QED
      BY <1>5, <1>6, <1>7, <2>4, <3>1, <3>2, <3>3 DEF Sources
  <2>. QED
    BY <1>4, <2>2, <2>3, <2>5, FirstTries DEF Advances
<1>9. CASE ~(n < Len(look)) /\ w = n
  <2>1. GaveUp /\ n = Len(look)
    BY <1>6, <1>7, <1>9
  <2>2. s \in {"FINISH", "SERVFAIL"} /\ nodata.kind # "servfail" /\ nodata'.kind # "servfail"
    BY <1>3, <1>4, <1>7, <1>9, NoPacketWhat DEF Advances, Tries, Counted
  <2>3. AtName(f)' /\ InRound(f)'
    BY <1>1, <1>4, <1>5, <2>2, QuietStep DEF Asking
  <2>4. Counted' /\ Sources(f)'
    BY <1>1, <1>4, <1>5, <1>6, <1>7, <1>9, <2>2 DEF Advances, Tries, Counted, Sources, Answered
  <2>5. Outcome(f)'
    <3>1. CASE s = "FINISH"
      BY <1>1, <1>3, <1>4, <1>5, <1>6, <1>7, <1>9, <2>1, <2>2, <3>1 DEF Outcome, GaveUp, Rounds, PutUpTo
    <3>2. CASE s = "SERVFAIL"
      <4>1. Rounds(conf.attempts)
        BY <1>3, <1>4, <1>7, <1>9, <2>1, <3>2 DEF GaveUp
      <4>. QED
        BY <1>1, <1>5, <1>6, <3>2, <4>1 DEF Outcome, Rounds, Answered
    <3>. QED
      BY <2>2, <3>1, <3>2
  <2>. QED
    BY <1>4, <2>3, <2>4, <2>5, FirstTries DEF Advances
<1>. QED
  BY <1>3, <1>4, <1>7, <1>8, <1>9

LEMMA FileTries ==
  ASSUME Pursuit, IInv', Persistent, sp = 1, File
  PROVE  Pursuit'
<1>. DEFINE names == IF sp > 1 THEN <<F.query>> ELSE Candidates
            type == IF sp > 1 THEN F.type ELSE q.type
            found == {k \in DOMAIN names : InHosts(names[k], type)}
            at == IF found = {} THEN Len(names) ELSE CHOOSE k \in found : \A o \in found : k <= o
            here == [F EXCEPT !.query = names[at], !.type = type]
<1>1. /\ pc = "exec" /\ F.state = "FILE" /\ UNCHANGED <<setting, nodata, asked, sent>> /\ Sound(F)
  BY TopIsSound DEF File, In, history, Pursuit, IInv
<1>2. \/ Become([here EXCEPT !.answer = NoPacket, !.state = "SWITCH"])
      \/ Become([here EXCEPT !.answer = OneRecord("A", names[at], names[at]), !.state = "FINISH"])
  BY DEF File
<1>3. PICK x, y : \/ Become([[F EXCEPT !.query = x, !.type = y] EXCEPT !.answer = NoPacket, !.state = "SWITCH"])
                  \/ Become([[F EXCEPT !.query = x, !.type = y] EXCEPT
                               !.answer = OneRecord("A", x, x), !.state = "FINISH"])
  BY Zenon, <1>2
<1>4. PICK h : h = [F EXCEPT !.query = x, !.type = y]
  OBVIOUS
<1>5. PICK P, s, f : /\ Become(f) /\ f = [h EXCEPT !.answer = P, !.state = s]
                     /\ s = "SWITCH" \/ (s = "FINISH" /\ P.an # {})
  <2>1. CASE Become([h EXCEPT !.answer = NoPacket, !.state = "SWITCH"])
    BY <2>1
  <2>2. CASE Become([h EXCEPT !.answer = OneRecord("A", x, x), !.state = "FINISH"])
    <3>1. PICK P : P = OneRecord("A", x, x)
      OBVIOUS
    <3>2. P.an = {Rec("A", x, x)}
      BY <3>1, OneRecordWhat
    <3>. QED
      BY <2>2, <3>1, <3>2
  <2>. QED
    BY <1>3, <1>4, <2>1, <2>2
<1>6. PICK g : g = F /\ Advances(g, f) /\ Sound(g)
  BY <1>1, <1>5, AdvancesWhat
<1>7. IsFrame(h) /\ h.which = g.which /\ h.attempts = g.attempts
  BY <1>4, <1>6 DEF Sound, IsFrame
<1>8. f.state = s /\ f.answer = P /\ f.which = g.which /\ f.attempts = g.attempts /\ g.state = "FILE"
  BY <1>1, <1>5, <1>6, <1>7 DEF IsFrame
<1>9. CASE s = "SWITCH"
  BY <1>1, <1>6, <1>8, <1>9, SourceStep DEF Elsewhere
<1>10. CASE s = "FINISH" /\ P.an # {}
  BY <1>1, <1>6, <1>8, <1>10, AnswerStep DEF Answered
<1>. QED
  BY <1>5, <1>9, <1>10

LEMMA CacheTries ==
  ASSUME Pursuit, IInv', Persistent, sp = 1, Cache \/ CacheReady
  PROVE  Pursuit'
<1>1. pc = "exec" /\ F.state \in Elsewhere /\ UNCHANGED <<setting, search, nodata, asked, sent>> /\ Sound(F)
  BY TopIsSound DEF Cache, CacheReady, In, R, history, Pursuit, IInv, Elsewhere
<1>2. CASE FromCache
  <2>. DEFINE name == IF F.query = NoName THEN 1 ELSE F.query
              type == IF F.query = NoName THEN q.type ELSE F.type
  <2>1. PICK h : h = [F EXCEPT !.query = name, !.type = type]
    OBVIOUS
  <2>2. \/ \E d : Become([h EXCEPT !.answer = OneRecord(type, name, d), !.state = "FINISH"])
        \/ Become([h EXCEPT !.answer = NoPacket, !.state = "SWITCH"])
        \/ Become([h EXCEPT !.state = "SUBMIT"])
    BY Zenon, <1>2, <2>1 DEF FromCache
  <2>. HIDE DEF name, type
  <2>3. IsFrame(h) /\ h.which = F.which /\ h.attempts = F.attempts
    BY <1>1, <2>1 DEF Sound, IsFrame
  <2>4. PICK f : /\ Become(f) /\ f.which = F.which /\ f.attempts = F.attempts
                 /\ f.state \in {"SWITCH", "SUBMIT"} \/ (f.state = "FINISH" /\ f.answer.an # {})
    <3>1. CASE \E d : Become([h EXCEPT !.answer = OneRecord(type, name, d), !.state = "FINISH"])
      <4>1. PICK d, f, P : /\ Become(f) /\ f = [h EXCEPT !.answer = P, !.state = "FINISH"]
                           /\ P = OneRecord(type, name, d)
        BY <3>1
      <4>2. P.an # {}
        <5>1. P.an = {Rec(type, name, d)}
          BY <4>1, OneRecordWhat
        <5>. QED
          BY <5>1
      <4>3. f.which = F.which /\ f.attempts = F.attempts /\ f.state = "FINISH" /\ f.answer = P
        BY <2>3, <4>1 DEF IsFrame
      <4>. QED
        BY <4>1, <4>2, <4>3
    <3>2. CASE Become([h EXCEPT !.answer = NoPacket, !.state = "SWITCH"])
      <4>1. PICK f, P : Become(f) /\ f = [h EXCEPT !.answer = P, !.state = "SWITCH"]
        BY <3>2
      <4>2. f.which = F.which /\ f.attempts = F.attempts /\ f.state = "SWITCH"
        BY <2>3, <4>1 DEF IsFrame
      <4>. QED
        BY <4>1, <4>2
    <3>3. CASE Become([h EXCEPT !.state = "SUBMIT"])
      <4>1. PICK f : Become(f) /\ f = [h EXCEPT !.state = "SUBMIT"]
        BY <3>3
      <4>2. f.which = F.which /\ f.attempts = F.attempts /\ f.state = "SUBMIT"
        BY <2>3, <4>1 DEF IsFrame
      <4>. QED
        BY <4>1, <4>2
    <3>. QED
      BY <2>2, <3>1, <3>2, <3>3
  <2>5. PICK g : g = F /\ Advances(g, f)
    BY <1>1, <2>4, AdvancesWhat
  <2>6. CASE f.state \in {"SWITCH", "SUBMIT"}
    BY <1>1, <2>4, <2>5, <2>6, SourceStep DEF Elsewhere
  <2>7. CASE f.state = "FINISH" /\ f.answer.an # {}
    BY <1>1, <2>4, <2>5, <2>7, AnswerStep DEF Answered
  <2>. QED
    BY <2>4, <2>6, <2>7
<1>3. CASE Goto("CHECK") \/ Goto("FETCH")
  <2>1. PICK s, f : s \in {"CHECK", "FETCH"} /\ f = [F EXCEPT !.state = s] /\ Become(f)
    BY <1>3 DEF Goto
  <2>2. PICK g : g = F /\ Advances(g, f)
    BY <1>1, <2>1, AdvancesWhat
  <2>3. f.state = s /\ f.which = g.which /\ f.attempts = g.attempts
    BY <1>1, <2>1, <2>2 DEF Sound, IsFrame
  <2>. QED
    BY <1>1, <2>1, <2>2, <2>3, SourceStep DEF Elsewhere
<1>4. CASE UNCHANGED <<sp, stack>>
  <2>1. Tries(stack[1]) /\ SameCounts
    BY <1>1 DEF Pursuit, Fetched, SameCounts, setting
  <2>. QED
    BY <1>4, <2>1, StillTries
<1>. QED
  BY <1>2, <1>3, <1>4 DEF Cache, CacheReady, Returns

LEMMA BindTries ==
  ASSUME Pursuit, IInv', Persistent, sp = 1, Bind
  PROVE  Pursuit'
<1>1. /\ pc = "exec" /\ F.state = "BIND" /\ Become([F EXCEPT !.state = "SEARCH"])
      /\ search' = 0 /\ UNCHANGED <<setting, nodata, asked, sent>> /\ conf \in Confs
  BY DEF Bind, In, Goto, history, Pursuit, IInv, Stacked
<1>2. PICK f : f = [F EXCEPT !.state = "SEARCH"]
  OBVIOUS
<1>3. PICK g : g = F /\ Advances(g, f) /\ Sound(g)
  BY <1>1, <1>2, AdvancesWhat
<1>4. f.state = "SEARCH" /\ f.attempts = g.attempts /\ f.which = g.which /\ g.state = "BIND"
  BY <1>1, <1>2, <1>3 DEF Sound, IsFrame
<1>5. /\ Candidates' = Candidates /\ Servers' = Servers /\ conf' = conf /\ GaveUp' = GaveUp
      /\ Len(Candidates) \in Nat
  <2>1. Candidates' = Candidates /\ Servers' = Servers /\ conf' = conf /\ Len(Candidates) \in Nat
    BY <1>1, SameCandidates, CandidatesWhat DEF setting, Servers
  <2>. QED
    BY <1>1, <2>1 DEF GaveUp, Rounds, PutUpTo
<1>6. AtName(f)'
  BY <1>1, <1>4, <1>5 DEF AtName, Asking, PutUpTo
<1>7. InRound(f)'
  BY <1>1, <1>3, <1>4, <1>5 DEF Advances, Tries, InRound, Asking, Rounds
<1>8. Counted' /\ Outcome(f)'
  BY <1>1, <1>3, <1>4 DEF Advances, Tries, Counted, Outcome, Answered
<1>9. Sources(f)'
  <2>1. Sources(g)
    BY <1>3 DEF Advances, Tries
  <2>. QED
    BY <1>4, <1>5, <2>1 DEF Sources, Answered
<1>. QED
  BY <1>3, <1>6, <1>7, <1>8, <1>9, FirstTries DEF Advances

LEMMA SearchTries ==
  ASSUME Pursuit, IInv', Persistent, sp = 1, Search
  PROVE  Pursuit'
<1>1. /\ pc = "exec" /\ F.state = "SEARCH" /\ UNCHANGED <<setting, nodata, asked, sent>> /\ conf \in Confs
      /\ Sound(F)
  BY TopIsSound DEF Search, In, Pursuit, IInv, Stacked
<1>2. PICK f :
        /\ Become(f) /\ f.attempts = F.attempts /\ f.which = F.which
        /\ \/ /\ search < Len(Candidates) /\ search' = search + 1
              /\ f.state = "HINTS" /\ f.query = Candidates[search + 1]
           \/ search = Len(Candidates) /\ f.state = "SWITCH"
  <2>1. CASE /\ search < Len(Candidates) /\ search' = search + 1
             /\ Become([F EXCEPT !.query = Candidates[search + 1], !.type = q.type, !.state = "HINTS"])
    <3>1. PICK f, c : /\ Become(f) /\ c = Candidates[search + 1]
                      /\ f = [F EXCEPT !.query = c, !.type = q.type, !.state = "HINTS"]
      BY <2>1
    <3>2. f.attempts = F.attempts /\ f.which = F.which /\ f.state = "HINTS" /\ f.query = c
      BY <1>1, <3>1 DEF Sound, IsFrame
    <3>. QED
      BY <2>1, <3>1, <3>2
  <2>2. CASE search = Len(Candidates) /\ Goto("SWITCH")
    <3>1. PICK f : Become(f) /\ f = [F EXCEPT !.state = "SWITCH"]
      BY <2>2 DEF Goto
    <3>2. f.attempts = F.attempts /\ f.which = F.which /\ f.state = "SWITCH"
      BY <1>1, <3>1 DEF Sound, IsFrame
    <3>. QED
      BY <2>2, <3>1, <3>2
  <2>. QED
    BY <2>1, <2>2 DEF Search
<1>3. PICK g : g = F /\ Advances(g, f)
  BY <1>1, <1>2, AdvancesWhat
<1>4. /\ Candidates' = Candidates /\ Servers' = Servers /\ conf' = conf /\ GaveUp' = GaveUp
      /\ Len(Candidates) \in Nat \ {0}
  <2>1. Candidates' = Candidates /\ Servers' = Servers /\ conf' = conf /\ Len(Candidates) \in Nat \ {0}
    <3>1. conf.search \in Nat
      BY <1>1, ResolverAssumption DEF ResolverAssumption
    <3>. QED
      BY <1>1, <3>1, SameCandidates, CandidatesWhat DEF setting, Servers
  <2>. QED
    BY <1>1, <2>1 DEF GaveUp, Rounds, PutUpTo
<1>5. /\ Counted /\ AtName(g) /\ InRound(g) /\ Sources(g)
      /\ search \in 0..Len(Candidates) /\ PutUpTo(search) /\ (search > 0 => nodata # NoPacket)
  <2>1. Counted /\ AtName(g) /\ InRound(g) /\ Sources(g)
    BY <1>3 DEF Advances, Tries
  <2>. QED
    BY <1>1, <1>3, <2>1 DEF AtName
<1>6. CASE f.state = "HINTS" /\ search < Len(Candidates) /\ search' = search + 1 /\ f.query = Candidates[search + 1]
  <2>1. search' \in 1..Len(Candidates) /\ search' - 1 = search
    BY <1>4, <1>5, <1>6
  <2>2. AtName(f)'
    BY <1>1, <1>4, <1>5, <1>6, <2>1 DEF AtName, PutUpTo
  <2>3. InRound(f)'
    BY <1>1, <1>2, <1>3, <1>4, <1>5, <1>6 DEF InRound, Rounds
  <2>4. Counted' /\ Outcome(f)'
    BY <1>1, <1>5, <1>6 DEF Counted, Outcome, Answered
  <2>5. Sources(f)'
    BY <1>1, <1>2, <1>3, <1>4, <1>5, <1>6 DEF Sources, Answered
  <2>. QED
    BY <1>3, <2>2, <2>3, <2>4, <2>5, FirstTries DEF Advances
<1>7. CASE f.state = "SWITCH" /\ search = Len(Candidates)
  <2>1. GaveUp
    BY <1>4, <1>5, <1>7 DEF GaveUp
  <2>2. AtName(f)' /\ InRound(f)'
    BY <1>1, <1>2, <1>3, <1>7, QuietStep DEF Asking
  <2>4. Counted' /\ Outcome(f)'
    BY <1>1, <1>5, <1>7 DEF Counted, Outcome, Answered
  <2>5. Sources(f)'
    BY <1>1, <1>2, <1>3, <1>4, <1>5, <1>7, <2>1 DEF Sources, Answered
  <2>. QED
    BY <1>3, <2>2, <2>4, <2>5, FirstTries DEF Advances
<1>. QED
  BY <1>2, <1>6, <1>7

LEMMA HintsTries ==
  ASSUME Pursuit, IInv', Persistent, sp = 1, Hints
  PROVE  Pursuit'
<1>1. /\ pc = "exec" /\ F.state = "HINTS" /\ UNCHANGED <<setting, search, nodata, asked, sent>>
      /\ conf \in Confs /\ Sound(F)
  BY TopIsSound DEF Hints, In, R, history, Pursuit, IInv, Stacked
<1>2. PICK seed \in Seeds : Become([F EXCEPT !.hints = HintsQuery(seed), !.state = "ITERATE"])
  BY DEF Hints
<1>3. PICK h, f : h = HintsQuery(seed) /\ f = [F EXCEPT !.hints = h, !.state = "ITERATE"] /\ Become(f)
  BY <1>2
<1>4. PICK g : g = F /\ Advances(g, f)
  BY <1>1, <1>3, AdvancesWhat
<1>5. /\ f.state = "ITERATE" /\ f.hints = h /\ f.attempts = g.attempts /\ f.which = g.which
      /\ f.query = g.query /\ g.state = "HINTS"
  BY <1>1, <1>3, <1>4 DEF Sound, IsFrame
<1>6. Candidates' = Candidates /\ Servers' = Servers /\ conf' = conf
  BY <1>1, SameCandidates DEF setting, Servers
<1>7. Counted /\ AtName(g) /\ InRound(g) /\ Sources(g)
  BY <1>4 DEF Advances, Tries
<1>8. AtName(f)'
  BY <1>1, <1>5, <1>6, <1>7 DEF AtName, Asking, PutUpTo
<1>9. Hinted(f)
  BY <1>1, <1>3, <1>5, HintsMeetServers
<1>10. InRound(f)'
  BY <1>1, <1>5, <1>6, <1>7, <1>9 DEF InRound, Hinted, Rounds
<1>11. Counted' /\ Outcome(f)'
  BY <1>1, <1>5, <1>7 DEF Counted, Outcome, Answered
<1>12. Sources(f)'
  BY <1>1, <1>5, <1>6, <1>7 DEF Sources, Answered, GaveUp, Rounds, PutUpTo
<1>. QED
  BY <1>4, <1>8, <1>10, <1>11, <1>12, FirstTries DEF Advances

LEMMA IterateTries ==
  ASSUME Pursuit, IInv', Persistent, sp = 1, Iterate
  PROVE  Pursuit'
<1>1. /\ pc = "exec" /\ F.state = "ITERATE" /\ UNCHANGED <<setting, search, nodata, asked, sent>> /\ Sound(F)
  BY TopIsSound DEF Iterate, In, R, history, Pursuit, IInv
<1>2. PICK n, f : /\ f = [F EXCEPT !.nsI = NsStart, !.hints.base = n, !.state = "FOREACH_NS"]
                  /\ Become(f)
  BY DEF Iterate
<1>3. PICK g : g = F /\ Advances(g, f)
  BY <1>1, <1>2, AdvancesWhat
<1>4. Counted /\ AtName(g) /\ InRound(g) /\ Sources(g) /\ Hinted(g) /\ g.state = "ITERATE"
  <2>1. Counted /\ AtName(g) /\ InRound(g) /\ Sources(g) /\ g.state = "ITERATE"
    BY <1>1, <1>3 DEF Advances, Tries
  <2>. QED
    BY <2>1 DEF InRound, Asking
<1>5. /\ f.state = "FOREACH_NS" /\ f.nsI = NsStart /\ f.attempts = g.attempts /\ f.which = g.which
      /\ f.query = g.query /\ f.hints = [g.hints EXCEPT !.base = n]
  BY <1>1, <1>2, <1>3 DEF Sound, IsFrame
<1>6. Candidates' = Candidates /\ Servers' = Servers /\ conf' = conf
  BY <1>1, SameCandidates DEF setting, Servers
<1>8. AtName(f)'
  BY <1>1, <1>4, <1>5, <1>6 DEF AtName, Asking, PutUpTo
<1>10. Hinted(f)
  BY <1>4, <1>5 DEF Hinted
<1>11. InRound(f)'
  BY <1>1, <1>4, <1>5, <1>6, <1>10 DEF InRound, Hinted, Rounds
<1>12. Counted' /\ Outcome(f)'
  BY <1>1, <1>4, <1>5 DEF Counted, Outcome, Answered
<1>13. Sources(f)'
  BY <1>1, <1>4, <1>5, <1>6 DEF Sources, Answered, GaveUp, Rounds, PutUpTo
<1>. QED
  BY <1>3, <1>8, <1>11, <1>12, <1>13, FirstTries DEF Advances

LEMMA ForeachNsTries ==
  ASSUME Pursuit, IInv', Persistent, sp = 1, ForeachNs
  PROVE  Pursuit'
<1>1. /\ pc = "exec" /\ F.state = "FOREACH_NS" /\ UNCHANGED <<setting, search, nodata, asked, sent>>
      /\ Sound(F) /\ conf \in Confs
  BY TopIsSound DEF ForeachNs, In, R, history, Pursuit, IInv, Stacked
<1>2. PICK seed \in SeedsNow :
        LET ns == IF F.nsI.exec = 0 THEN FirstNs(F.hints.ns, seed) ELSE F.nsI.next
            at == [exec |-> 1, next |-> FirstNs(After(ns, seed), seed), seed |-> seed]
        IN  IF ns # NoName
            THEN Become([F EXCEPT !.saved = F.nsI, !.nsI = at, !.ns = ns, !.j = 0, !.state = "FOREACH_A"])
            ELSE Become([F EXCEPT !.saved = F.nsI, !.attempts = @ + 1,
                                  !.state = IF F.attempts + 1 < conf.attempts THEN "ITERATE" ELSE "SWITCH"])
  BY DEF ForeachNs
<1>. DEFINE ns == IF F.nsI.exec = 0 THEN FirstNs(F.hints.ns, seed) ELSE F.nsI.next
            at == [exec |-> 1, next |-> FirstNs(After(ns, seed), seed), seed |-> seed]
<1>3. /\ Tries(F) /\ Counted /\ AtName(F) /\ InRound(F) /\ Sources(F) /\ Hinted(F)
  <2>1. Tries(F)
    BY <1>1 DEF Pursuit, Fetched, F
  <2>2. Counted /\ AtName(F) /\ InRound(F) /\ Sources(F)
    BY <2>1 DEF Tries
  <2>. QED
    BY <1>1, <2>1, <2>2 DEF InRound, Asking
<1>4. /\ Candidates' = Candidates /\ Servers' = Servers /\ conf' = conf /\ conf.attempts \in Nat
      /\ F.attempts \in Nat
  BY <1>1, <1>3, SameCandidates, ServersWhat DEF setting, Servers, InRound
<1>5. CASE F.nsI = NsStart
  <2>1. ns = HintsLocal
    <3>1. PICK S : S = F.hints.ns
      OBVIOUS
    <3>2. S = {HintsLocal} /\ ns = FirstNs(S, seed)
      BY <1>2, <1>3, <1>5, <3>1 DEF Hinted, NsStart
    <3>. QED
      BY <3>2 DEF FirstNs
  <2>2. After(HintsLocal, seed) = {}
    <3>1. NameservCmp(HintsLocal, HintsLocal, seed) = 0
      <4>1. PICK k : k = ShuffleOf(HintsLocal, seed)
        OBVIOUS
      <4>2. k \in Int
        <5>1. HintsLocal \in Names
          BY DEF HintsLocal, Names, Rank
        <5>2. seed \in Seeds \cup {0}
          BY <1>2, <1>5 DEF SeedsNow, NsStart
        <5>. QED
          BY <4>1, <5>1, <5>2, ResolverAssumption DEF ResolverAssumption
      <4>. QED
        BY <4>1, <4>2 DEF NameservCmp
    <3>2. F.hints.ns = {HintsLocal}
      BY <1>3 DEF Hinted
    <3>. QED
      BY <3>1, <3>2 DEF After
  <2>3. at = [exec |-> 1, next |-> NoName, seed |-> seed]
    <3>1. at.next = NoName
      BY <1>2, <2>1, <2>2 DEF FirstNs
    <3>. QED
      BY <1>2, <3>1
  <2>4. PICK f : f = [F EXCEPT !.saved = F.nsI, !.nsI = at, !.ns = ns, !.j = 0, !.state = "FOREACH_A"]
                 /\ Become(f)
    <3>1. ns # NoName
      BY <2>1 DEF HintsLocal, NoName
    <3>. QED
      BY Zenon, <1>2, <3>1
  <2>5. PICK g : g = F /\ Advances(g, f)
    BY <1>1, <2>4, AdvancesWhat
  <2>6. /\ f.state = "FOREACH_A" /\ f.nsI = at /\ f.ns = ns /\ f.j = 0 /\ f.attempts = g.attempts
        /\ f.which = g.which /\ f.query = g.query /\ f.hints = g.hints /\ g.state = "FOREACH_NS"
    BY <1>1, <2>4, <2>5 DEF Sound, IsFrame
  <2>7. AtName(f)'
    BY <1>1, <1>3, <1>4, <2>5, <2>6 DEF AtName, Asking, PutUpTo
  <2>8. Hinted(f)
    BY <1>3, <2>5, <2>6 DEF Hinted
  <2>9. f.nsI.exec = 1 /\ f.nsI.next = NoName
    BY <2>3, <2>6
  <2>10. ASSUME NEW p \in DOMAIN f.hints.ar, p <= 0 PROVE FALSE
    BY <2>8, <2>10 DEF Hinted
  <2>11. InRound(f)'
    BY <1>1, <1>3, <1>4, <2>1, <2>5, <2>6, <2>8, <2>9, <2>10 DEF InRound, Hinted, Rounds
  <2>12. Counted' /\ Outcome(f)'
    BY <1>1, <1>3, <2>6 DEF Counted, Outcome, Answered
  <2>13. Sources(f)'
    BY <1>1, <1>3, <1>4, <2>5, <2>6 DEF Sources, Answered, GaveUp, Rounds, PutUpTo
  <2>. QED
    BY <2>5, <2>7, <2>11, <2>12, <2>13, FirstTries DEF Advances
<1>6. CASE F.nsI # NsStart
  <2>1. ns = NoName /\ Rounds(F.attempts + 1)
    BY <1>1, <1>2, <1>3, <1>6 DEF InRound
  <2>2. PICK s, n, f : /\ s = (IF F.attempts + 1 < conf.attempts THEN "ITERATE" ELSE "SWITCH")
                       /\ n = F.attempts + 1
                       /\ f = [F EXCEPT !.saved = F.nsI, !.attempts = n, !.state = s]
                       /\ Become(f)
    BY Zenon, <1>2, <2>1
  <2>3. PICK g : g = F /\ Advances(g, f)
    BY <1>1, <2>2, AdvancesWhat
  <2>4. /\ f.state = s /\ f.attempts = n /\ f.which = g.which /\ f.query = g.query
        /\ f.hints = g.hints /\ g.state = "FOREACH_NS"
    BY <1>1, <2>2, <2>3 DEF Sound, IsFrame
  <2>5. s = "ITERATE" \/ (s = "SWITCH" /\ n >= conf.attempts)
    BY <1>4, <2>2
  <2>6. AtName(f)'
    BY <1>1, <1>3, <1>4, <2>3, <2>4, <2>5 DEF AtName, Asking, PutUpTo
  <2>7. Hinted(f)
    BY <1>3, <2>3, <2>4 DEF Hinted
  <2>8. InRound(f)'
    BY <1>1, <1>3, <1>4, <2>1, <2>2, <2>4, <2>5, <2>7 DEF InRound, Hinted, Rounds
  <2>9. Counted' /\ Outcome(f)'
    BY <1>1, <1>3, <2>4, <2>5 DEF Counted, Outcome, Answered
  <2>10. s = "SWITCH" => GaveUp
    <3>1. Servers \subseteq Names /\ sent \in [Names -> Nat] /\ n \in Nat
      BY <1>1, <1>3, <1>4, <2>2, ServersWhat DEF Counted
    <3>. QED
      BY <1>4, <2>1, <2>2, <2>5, <3>1 DEF GaveUp, Rounds
  <2>11. Sources(f)'
    <3>1. GaveUp' = GaveUp
      BY <1>1, <1>4 DEF GaveUp, Rounds, PutUpTo
    <3>. QED
      BY <1>1, <1>3, <1>4, <2>3, <2>4, <2>5, <2>10, <3>1 DEF Sources, Answered
  <2>. QED
    BY <2>3, <2>6, <2>8, <2>9, <2>11, FirstTries DEF Advances
<1>. QED
  BY <1>5, <1>6

(* The address of the one name server is never looked up.                   *)
LEMMA ResolveNsTries ==
  ASSUME Pursuit, Persistent, sp = 1, ResolveNs \/ ResolvedNs
  PROVE  FALSE
<1>1. pc = "exec" /\ F.state \in {"RESOLV0_NS", "RESOLV1_NS"}
  BY DEF ResolveNs, ResolvedNs, In
<1>2. Tries(F)
  BY <1>1 DEF Pursuit, Fetched, F
<1>. QED
  BY <1>1, <1>2 DEF Tries, InRound

LEMMA ForeachATries ==
  ASSUME Pursuit, IInv', Persistent, sp = 1, ForeachA
  PROVE  Pursuit'
<1>. DEFINE left == {k \in PlacesOf(F.ns) : k > F.j}
<1>1. /\ pc = "exec" /\ F.state = "FOREACH_A" /\ UNCHANGED <<setting, search, nodata>>
      /\ Sound(F) /\ conf \in Confs /\ ~conf.recurse
  BY TopIsSound DEF ForeachA, In, R, Pursuit, IInv, Stacked, Persistent
<1>2. /\ Tries(F) /\ Counted /\ AtName(F) /\ InRound(F) /\ Sources(F) /\ Hinted(F)
  <2>1. Tries(F)
    BY <1>1 DEF Pursuit, Fetched, F
  <2>2. Counted /\ AtName(F) /\ InRound(F) /\ Sources(F)
    BY <2>1 DEF Tries
  <2>. QED
    BY <1>1, <2>1, <2>2 DEF InRound, Asking
<1>3. /\ Candidates' = Candidates /\ Servers' = Servers /\ conf' = conf /\ F.attempts \in Nat
      /\ Servers \subseteq Names /\ Servers # {} /\ sent \in [Names -> Nat]
      /\ search \in 1..Len(Candidates) /\ Len(Candidates) \in Nat
  <2>1. Servers # {}
    BY DEF Persistent
  <2>2. search \in 1..Len(Candidates)
    BY <1>1, <1>2 DEF AtName, Asking
  <2>. QED
    BY <1>1, <1>2, <2>1, <2>2, SameCandidates, ServersWhat, CandidatesWhat DEF setting, Servers, InRound, Counted
<1>4. PICK ar : ar = F.hints.ar
  OBVIOUS
<1>5. /\ DOMAIN ar \subseteq Nat \ {0}
      /\ PlacesOf(F.ns) = {k \in DOMAIN ar : ar[k].addr \notin Inet6}
      /\ \A k \in PlacesOf(F.ns) : ar[k].addr \in Servers
      /\ \A a \in Servers : \E k \in DOMAIN ar : ar[k].addr = a
      /\ F.j \in Nat /\ F.nsI.exec = 1 /\ F.nsI.next = NoName /\ F.ns = HintsLocal
      /\ \A p \in PlacesOf(F.ns) : p <= F.j => sent[ar[p].addr] > F.attempts
  <2>1. F.ns = HintsLocal
    BY <1>1, <1>2 DEF InRound
  <2>2. PlacesOf(HintsLocal) = {k \in DOMAIN ar : ar[k].addr \notin Inet6}
    BY <1>2, <1>4 DEF Hinted, PlacesOf, GlueRec, Rec
  <2>. QED
    BY <1>1, <1>2, <1>4, <2>1, <2>2 DEF InRound, Hinted
<1>6. CASE \E k \in left :
             /\ \A o \in left : k <= o
             /\ Become([F EXCEPT !.j = k, !.state = "QUERY_A"])
             /\ asked' = IF sp = 1 THEN asked \cup {F.query} ELSE asked
             /\ sent' = IF sp = 1 /\ ~conf.recurse
                        THEN [sent EXCEPT ![F.hints.ar[k].addr] = @ + 1] ELSE sent
  <2>1. PICK k \in left :
             /\ \A o \in left : k <= o
             /\ Become([F EXCEPT !.j = k, !.state = "QUERY_A"])
             /\ asked' = asked \cup {F.query}
             /\ sent' = [sent EXCEPT ![ar[k].addr] = @ + 1]
    BY <1>1, <1>4, <1>6
  <2>2. PICK f : f = [F EXCEPT !.j = k, !.state = "QUERY_A"] /\ Become(f)
    BY <2>1
  <2>3. PICK g : g = F /\ Advances(g, f)
    BY <1>1, <2>2, AdvancesWhat
  <2>4. /\ f.state = "QUERY_A" /\ f.nsI = g.nsI /\ f.ns = g.ns /\ f.j = k /\ f.attempts = g.attempts
        /\ f.which = g.which /\ f.query = g.query /\ f.hints = g.hints /\ g.state = "FOREACH_A"
    BY <1>1, <2>2, <2>3 DEF Sound, IsFrame
  <2>5. k \in PlacesOf(F.ns) /\ k \in Nat /\ k > F.j /\ \A p \in PlacesOf(F.ns) : p > F.j => k <= p
    BY <1>5, <2>1
  <2>6. PICK x : x = ar[k].addr /\ x \in Servers /\ x \in Names
    BY <1>3, <1>5, <2>5
  <2>7. /\ sent' \in [Names -> Nat] /\ sent'[x] = sent[x] + 1
        /\ \A a \in Names : sent'[a] >= sent[a]
    <3>1. sent' = [sent EXCEPT ![x] = sent[x] + 1]
      BY <2>1, <2>6
    <3>2. sent[x] \in Nat
      BY <1>3, <2>6
    <3>3. \A a \in Names : sent'[a] = IF a = x THEN sent[x] + 1 ELSE sent[a]
      BY <1>3, <3>1
    <3>. QED
      BY <1>3, <2>6, <3>1, <3>2, <3>3
  <2>8. AtName(f)'
    BY <1>1, <1>2, <1>3, <2>1, <2>3, <2>4 DEF AtName, Asking, PutUpTo
  <2>9. ASSUME NEW n \in Nat, Rounds(n) PROVE \A a \in Servers : sent'[a] >= n
    <3>1. ASSUME NEW a \in Servers PROVE sent'[a] >= n
      <4>1. sent[a] >= n /\ sent[a] \in Nat /\ sent'[a] \in Nat /\ sent'[a] >= sent[a]
        BY <1>3, <2>7, <2>9 DEF Rounds
      <4>. QED
        BY <4>1
    <3>. QED
      BY <3>1
  <2>10. ASSUME NEW p \in PlacesOf(F.ns), p <= k PROVE sent'[ar[p].addr] > F.attempts
    <3>1. p \in Nat /\ ar[p].addr \in Names /\ sent[ar[p].addr] \in Nat /\ sent'[ar[p].addr] \in Nat
          /\ sent'[ar[p].addr] >= sent[ar[p].addr]
      BY <1>3, <1>5, <2>7
    <3>2. CASE p = k
      <4>1. sent[x] >= F.attempts /\ sent[x] \in Nat
        BY <1>2, <1>3, <2>6 DEF InRound, Rounds
      <4>. QED
        BY <1>3, <2>6, <2>7, <3>2, <4>1
    <3>3. CASE p # k
      <4>1. p <= F.j
        BY <1>5, <2>5, <2>10, <3>3
      <4>2. sent[ar[p].addr] > F.attempts
        BY <1>5, <4>1
      <4>. QED
        BY <1>3, <3>1, <4>2
    <3>. QED
      BY <3>2, <3>3
  <2>11. InRound(f)'
    <3>1. Hinted(f)'
      BY <1>2, <1>3, <2>3, <2>4 DEF Hinted
    <3>2. Rounds(f.attempts)' /\ f.attempts \in Nat
      BY <1>2, <1>3, <2>3, <2>4, <2>9 DEF Rounds, InRound
    <3>3. f.hints.ar = ar /\ f.j = k /\ f.attempts = F.attempts /\ f.nsI = F.nsI /\ f.ns = F.ns
      BY <1>4, <2>3, <2>4
    <3>4. \A p \in DOMAIN f.hints.ar :
             p <= f.j /\ f.hints.ar[p].addr \notin Inet6 => sent'[f.hints.ar[p].addr] > f.attempts
      BY <1>5, <2>10, <3>3
    <3>. QED
      BY <1>5, <2>4, <2>5, <3>1, <3>2, <3>3, <3>4 DEF InRound
  <2>12. Counted' /\ Outcome(f)'
    BY <1>1, <1>2, <2>4, <2>7 DEF Counted, Outcome, Answered
  <2>13. GaveUp => GaveUp'
    <3>1. Rounds(conf.attempts) => Rounds(conf.attempts)'
      BY <1>1, <1>3, <2>9, ServersWhat DEF Rounds
    <3>2. PutUpTo(Len(Candidates)) => PutUpTo(Len(Candidates))'
      BY <1>3, <2>1 DEF PutUpTo
    <3>. QED
      BY <1>1, <1>3, <3>1, <3>2 DEF GaveUp
  <2>14. Sources(f)'
    BY <1>1, <1>2, <1>3, <2>3, <2>4, <2>13 DEF Sources, Answered
  <2>. QED
    BY <2>3, <2>8, <2>11, <2>12, <2>14, FirstTries DEF Advances
<1>7. CASE /\ left = {}
           /\ Goto(IF F.j = 0 THEN "RESOLV0_NS" ELSE "FOREACH_NS")
           /\ UNCHANGED <<asked, sent>>
  <2>1. \A p \in PlacesOf(F.ns) : p <= F.j
    <3>1. ASSUME NEW p \in PlacesOf(F.ns), ~(p <= F.j) PROVE FALSE
      <4>1. p > F.j
        BY <1>5, <3>1
      <4>. QED
        BY <1>5, <1>7, <3>1, <4>1
    <3>. QED
      BY <3>1
  <2>2. F.j # 0
    <3>1. PICK a \in Servers : \E k \in DOMAIN ar : ar[k].addr = a
      BY <1>3, <1>5
    <3>2. PICK k \in DOMAIN ar : ar[k].addr = a
      BY <3>1
    <3>3. k \in PlacesOf(F.ns) /\ k \in Nat \ {0}
      BY <1>5, <3>2 DEF Servers
    <3>. QED
      BY <2>1, <3>3
  <2>3. PICK f : f = [F EXCEPT !.state = "FOREACH_NS"] /\ Become(f)
    BY <1>7, <2>2 DEF Goto
  <2>4. PICK g : g = F /\ Advances(g, f)
    BY <1>1, <2>3, AdvancesWhat
  <2>5. /\ f.state = "FOREACH_NS" /\ f.nsI = g.nsI /\ f.attempts = g.attempts
        /\ f.which = g.which /\ f.query = g.query /\ f.hints = g.hints /\ g.state = "FOREACH_A"
    BY <1>1, <2>3, <2>4 DEF Sound, IsFrame
  <2>6. ASSUME NEW a \in Servers PROVE sent[a] >= F.attempts + 1
    <3>1. PICK p \in PlacesOf(F.ns) : ar[p].addr = a
      BY <1>5 DEF Servers
    <3>2. sent[a] > F.attempts /\ sent[a] \in Nat
      BY <1>3, <1>5, <2>1, <3>1
    <3>. QED
      BY <1>3, <3>2
  <2>7. AtName(f)'
    BY <1>1, <1>2, <1>3, <1>7, <2>4, <2>5 DEF AtName, Asking, PutUpTo
  <2>8. Hinted(f)
    BY <1>2, <2>4, <2>5 DEF Hinted
  <2>9. InRound(f)'
    BY <1>2, <1>3, <1>5, <1>7, <2>4, <2>5, <2>6, <2>8 DEF InRound, Hinted, Rounds
  <2>10. Counted' /\ Outcome(f)'
    BY <1>1, <1>2, <1>7, <2>5 DEF Counted, Outcome, Answered
  <2>11. Sources(f)'
    BY <1>1, <1>2, <1>3, <1>7, <2>4, <2>5 DEF Sources, Answered, GaveUp, Rounds, PutUpTo
  <2>. QED
    BY <2>4, <2>7, <2>9, <2>10, <2>11, FirstTries DEF Advances
<1>. QED
  BY <1>6, <1>7 DEF ForeachA

(* With the answer to a query, or after the time for it, the next server or *)
(* the next name is asked.                                                  *)
LEMMA AskAgain ==
  ASSUME NEW g, NEW f, Advances(g, f), UNCHANGED <<search, nodata, asked, sent>>,
         g.state = "QUERY_A", f.state = "FOREACH_A",
         f.attempts = g.attempts, f.which = g.which, f.query = g.query, f.hints = g.hints,
         f.nsI = g.nsI, f.ns = g.ns, f.j = g.j
  PROVE  Pursuit'
<1>1. Candidates' = Candidates /\ Servers' = Servers /\ conf' = conf
  BY SameCandidates DEF Advances, setting, Servers
<1>2. Counted /\ AtName(g) /\ InRound(g) /\ Sources(g) /\ Hinted(g)
  <2>1. Counted /\ AtName(g) /\ InRound(g) /\ Sources(g)
    BY DEF Advances, Tries
  <2>. QED
    BY <2>1 DEF InRound, Asking
<1>3. AtName(f)'
  BY <1>1, <1>2 DEF AtName, Asking, PutUpTo
<1>4. InRound(f)'
  BY <1>1, <1>2 DEF InRound, Hinted, Rounds
<1>5. Counted' /\ Outcome(f)'
  BY <1>2 DEF Counted, Outcome, Answered
<1>6. Sources(f)'
  BY <1>1, <1>2 DEF Sources, Answered, GaveUp, Rounds, PutUpTo
<1>. QED
  BY <1>3, <1>4, <1>5, <1>6, FirstTries DEF Advances

LEMMA QueryWaitsTries ==
  ASSUME Pursuit, IInv', Persistent, sp = 1, QueryWaits
  PROVE  Pursuit'
<1>1. /\ pc = "exec" /\ F.state = "QUERY_A" /\ UNCHANGED <<setting, search, nodata, asked, sent>> /\ Sound(F)
  BY TopIsSound DEF QueryWaits, In, R, history, Pursuit, IInv
<1>2. CASE Goto("FOREACH_A")
  <2>1. PICK f : f = [F EXCEPT !.state = "FOREACH_A"] /\ Become(f)
    BY <1>2 DEF Goto
  <2>2. PICK g : g = F /\ Advances(g, f)
    BY <1>1, <2>1, AdvancesWhat
  <2>3. /\ f.state = "FOREACH_A" /\ f.nsI = g.nsI /\ f.attempts = g.attempts /\ f.which = g.which
        /\ f.query = g.query /\ f.hints = g.hints /\ f.ns = g.ns /\ f.j = g.j /\ g.state = "QUERY_A"
    BY <1>1, <2>1, <2>2 DEF Sound, IsFrame
  <2>. QED
    BY <1>1, <2>2, <2>3, AskAgain
<1>3. CASE UNCHANGED <<sp, stack>>
  <2>1. Tries(stack[1]) /\ SameCounts
    BY <1>1 DEF Pursuit, Fetched, SameCounts, setting
  <2>. QED
    BY <1>3, <2>1, StillTries
<1>. QED
  BY <1>2, <1>3 DEF QueryWaits, Returns

LEMMA QueryAnsweredTries ==
  ASSUME Pursuit, IInv', Persistent, sp = 1, QueryAnswered
  PROVE  Pursuit'
<1>1. /\ pc = "exec" /\ F.state = "QUERY_A" /\ UNCHANGED <<setting, search, asked, sent>> /\ Sound(F)
      /\ ~conf.recurse
  BY TopIsSound DEF QueryAnswered, In, Pursuit, IInv, Persistent
<1>2. PICK P \in Says(so.name, so.type) :
        Retry(P) \/ Settle(P) \/ (NoAnswer(P) /\ (KeepNodata(P) \/ Refer(P) \/ Disregard(P)))
  BY DEF QueryAnswered
<1>3. CASE Retry(P)
  <2>1. PICK f : /\ f = [F EXCEPT !.answer = P, !.edns = FALSE, !.state = "FOREACH_A"]
                 /\ Become(f) /\ nodata' = nodata
    BY <1>3 DEF Retry
  <2>2. PICK g : g = F /\ Advances(g, f)
    BY <1>1, <2>1, AdvancesWhat
  <2>3. /\ f.state = "FOREACH_A" /\ f.nsI = g.nsI /\ f.attempts = g.attempts /\ f.which = g.which
        /\ f.query = g.query /\ f.hints = g.hints /\ f.ns = g.ns /\ f.j = g.j /\ g.state = "QUERY_A"
    BY <1>1, <2>1, <2>2 DEF Sound, IsFrame
  <2>. QED
    BY <1>1, <2>1, <2>2, <2>3, AskAgain
<1>4. CASE Settle(P)
  <2>1. nodata' = nodata /\ P.an # {}
    BY <1>4 DEF Settle, Answers, Follow, Alias, Find
  <2>2. PICK c, s, f : /\ f = [F EXCEPT !.state = s, !.answer = P, !.cname = c]
                       /\ Become(f) /\ s \in {"FINISH", "CNAME0_A"}
    <3>1. [F EXCEPT !.answer = P, !.state = "FINISH"]
            = [F EXCEPT !.state = "FINISH", !.answer = P, !.cname = F.cname]
      BY <1>1 DEF Sound, IsFrame
    <3>. QED
      BY <1>4, <3>1 DEF Settle, Follow
  <2>3. PICK g : g = F /\ Advances(g, f)
    BY <1>1, <2>2, AdvancesWhat
  <2>4. f.state = s /\ f.attempts = g.attempts /\ f.which = g.which /\ f.answer = P
    BY <1>1, <2>2, <2>3 DEF Sound, IsFrame
  <2>. QED
    BY <1>1, <2>1, <2>2, <2>3, <2>4, AnswerStep DEF Answered
<1>5. CASE KeepNodata(P)
  <2>1. PICK A, f : /\ f = [F EXCEPT !.answer = A, !.state = "SEARCH"] /\ Become(f)
                    /\ nodata' = IF nodata = NoPacket THEN P ELSE nodata
    BY <1>5 DEF KeepNodata
  <2>2. PICK g : g = F /\ Advances(g, f)
    BY <1>1, <2>1, AdvancesWhat
  <2>3. f.state = "SEARCH" /\ f.attempts = g.attempts /\ f.which = g.which /\ g.state = "QUERY_A"
    BY <1>1, <2>1, <2>2 DEF Sound, IsFrame
  <2>4. Candidates' = Candidates /\ Servers' = Servers /\ conf' = conf
    BY <1>1, SameCandidates DEF setting, Servers
  <2>5. Counted /\ AtName(g) /\ InRound(g) /\ Sources(g)
    BY <2>2 DEF Advances, Tries
  <2>6. P.kind \in {"answer", "formerr"}
    BY SaysWhat
  <2>7. nodata' # NoPacket /\ nodata'.kind # "servfail"
    BY <2>1, <2>5, <2>6, NoPacketWhat DEF Counted
  <2>8. AtName(f)'
    <3>1. /\ search \in 1..Len(Candidates) /\ g.query = Candidates[search] /\ PutUpTo(search - 1)
          /\ g.query \in asked
      BY <2>3, <2>5 DEF AtName, Asking
    <3>2. ASSUME NEW k \in 1..search PROVE Candidates[k] \in asked
      <4>1. k = search \/ k \in 1..(search - 1)
        BY <3>1
      <4>. QED
        BY <3>1, <4>1 DEF PutUpTo
    <3>. QED
      BY <1>1, <2>3, <2>4, <2>7, <3>1, <3>2 DEF AtName, Asking, PutUpTo
  <2>9. InRound(f)'
    BY <1>1, <2>3, <2>4, <2>5 DEF InRound, Asking, Rounds
  <2>10. Counted' /\ Outcome(f)'
    BY <1>1, <2>3, <2>5, <2>7 DEF Counted, Outcome, Answered
  <2>11. Sources(f)'
    <3>1. GaveUp => GaveUp'
      BY <1>1, <2>4, <2>7 DEF GaveUp, Rounds, PutUpTo
    <3>. QED
      BY <2>3, <2>4, <2>5, <3>1 DEF Sources, Answered
  <2>. QED
    BY <2>2, <2>8, <2>9, <2>10, <2>11, FirstTries DEF Advances
<1>. QED
  BY <1>1, <1>2, <1>3, <1>4, <1>5 DEF Refer, Disregard

(* What a step in the frame at the top means for the first one.             *)
LEMMA FirstOfTop ==
  ASSUME IInv, NEW f, Become(f) \/ Resume(f) \/ (\E name, type : Recurse(f, name, type))
  PROVE  stack'[1] = IF sp = 1 THEN f ELSE stack[1]
<1>1. sp \in 1..MaxDepth /\ 1 \in 1..MaxDepth /\ DOMAIN stack = 1..MaxDepth /\ sp + 1 # 1
  BY ResolverAssumption DEF IInv, Stacked, ResolverAssumption
<1>2. \/ stack' = [stack EXCEPT ![sp] = f]
      \/ \E up : stack' = [stack EXCEPT ![sp] = f, ![sp + 1] = up]
  BY Zenon DEF Become, Resume, Recurse
<1>. QED
  BY <1>1, <1>2

(* With an answer, the first frame follows aliases and adds to it.          *)
LEMMA AnsweredTries ==
  ASSUME Pursuit, IInv', Persistent, sp = 1,
         FollowAlias \/ FollowedAlias \/ Finish \/ Smart \/ SmartAdd
  PROVE  Pursuit'
<1>1. /\ pc = "exec" /\ F.state \in Answered /\ UNCHANGED <<setting, search, nodata, asked, sent>> /\ Sound(F)
      /\ 1 \in 1..MaxDepth /\ DOMAIN stack = 1..MaxDepth
  BY TopIsSound, ResolverAssumption
  DEF FollowAlias, FollowedAlias, Finish, Smart, SmartAdd, In, Answered, R, history, Pursuit, IInv, Stacked,
      ResolverAssumption
<1>2. PICK g : g = F /\ g = stack[1]
  BY DEF F
<1>3. PICK A, s, f :
        /\ f = [g EXCEPT !.answer = A, !.state = s] /\ stack'[1] = f /\ s \in Answered
        /\ A = g.answer \/ (\E P : A = Merge(g.answer, P)) \/ (\E x : A = [g.answer EXCEPT !.ar = x])
  <2>1. \A s : [g EXCEPT !.state = s] = [g EXCEPT !.answer = g.answer, !.state = s]
    BY <1>1, <1>2 DEF Sound, IsFrame
  <2>2. IInv
    BY DEF Pursuit
  <2>3. CASE \E s \in Answered : \/ Goto(s)
                                 \/ \E name, type : Recurse([F EXCEPT !.state = s], name, type)
    <3>1. PICK s \in Answered : \/ Goto(s)
                                \/ \E name, type : Recurse([F EXCEPT !.state = s], name, type)
      BY <2>3
    <3>2. PICK f : f = [g EXCEPT !.state = s]
      OBVIOUS
    <3>3. Become(f) \/ Resume(f) \/ (\E name, type : Recurse(f, name, type))
      BY <1>2, <3>1, <3>2 DEF Goto
    <3>4. stack'[1] = IF sp = 1 THEN f ELSE stack[1]
      BY Zenon, <2>2, <3>3, FirstOfTop
    <3>. QED
      BY <2>1, <3>2, <3>4
  <2>4. CASE Resume([F EXCEPT !.answer = Merge(F.answer, stack[sp + 1].answer), !.state = "FINISH"])
    <3>1. PICK P, M, f : /\ P = stack[sp + 1].answer /\ M = Merge(g.answer, P)
                         /\ f = [g EXCEPT !.answer = M, !.state = "FINISH"]
      OBVIOUS
    <3>2. Resume(f)
      BY <1>2, <2>4, <3>1
    <3>3. stack'[1] = f
      BY <2>2, <3>2, FirstOfTop
    <3>4. "FINISH" \in Answered
      BY DEF Answered
    <3>. WITNESS M, "FINISH", f
    <3>. QED
      BY <3>1, <3>3, <3>4
  <2>5. CASE \E glue : Resume([F EXCEPT !.answer.ar = @ \o glue, !.state = "SMART0_A"])
    <3>1. PICK glue : Resume([F EXCEPT !.answer.ar = @ \o glue, !.state = "SMART0_A"])
      BY <2>5
    <3>2. PICK x, A, f : /\ x = g.answer.ar \o glue /\ A = [g.answer EXCEPT !.ar = x]
                         /\ f = [g EXCEPT !.answer = A, !.state = "SMART0_A"]
      OBVIOUS
    <3>3. [F EXCEPT !.answer.ar = @ \o glue, !.state = "SMART0_A"] = f
      BY <1>1, <1>2, <3>2 DEF Sound, IsFrame
    <3>4. stack'[1] = f
      BY <2>2, <3>1, <3>3, FirstOfTop
    <3>5. "SMART0_A" \in Answered
      BY DEF Answered
    <3>. WITNESS A, "SMART0_A", f
    <3>. QED
      BY <3>2, <3>4, <3>5
  <2>7. CASE \E w \in {"error", "stuck"} : Returns(w)
    <3>2. PICK w, f : w = g.state /\ f = [g EXCEPT !.state = w] /\ f = g
      BY <1>1, <1>2 DEF Sound, IsFrame
    <3>3. stack'[1] = f /\ w \in Answered
      BY <1>1, <1>2, <2>7, <3>2 DEF Returns
    <3>. QED
      BY <2>1, <3>2, <3>3
  <2>8. SmartAdd => \/ \E w \in {"error", "stuck"} : Returns(w)
                    \/ \E glue : Resume([F EXCEPT !.answer.ar = @ \o glue, !.state = "SMART0_A"])
    BY Zenon DEF SmartAdd
  <2>6. FollowAlias \/ Finish \/ Smart =>
          \E s \in Answered : \/ Goto(s) \/ \E name, type : Recurse([F EXCEPT !.state = s], name, type)
    BY DEF FollowAlias, Finish, Smart, Answered
  <2>. QED
    BY <2>3, <2>4, <2>5, <2>6, <2>7, <2>8 DEF FollowedAlias
<1>4. f.attempts = g.attempts /\ f.which = g.which /\ f.state = s /\ f.answer = A
  BY <1>1, <1>2, <1>3 DEF Sound, IsFrame
<1>5. /\ A.an = {} => g.answer.an = {}
      /\ g.answer.kind # "servfail" => A.kind # "servfail"
  <2>1. CASE \E P : A = Merge(g.answer, P)
    <3>1. PICK P, an, ns, ar : A = Packet("answer", an, ns, ar, FALSE) /\ an = g.answer.an \cup P.an
      BY Zenon, <2>1 DEF Merge
    <3>2. A.an = g.answer.an \cup P.an /\ A.kind = "answer"
      BY <3>1 DEF Packet
    <3>. QED
      BY <3>2
  <2>2. CASE \E x : A = [g.answer EXCEPT !.ar = x]
    <3>1. IsPacket(g.answer)
      BY <1>1, <1>2 DEF Sound
    <3>. QED
      BY <2>2, <3>1 DEF IsPacket
  <2>. QED
    BY <1>3, <2>1, <2>2
<1>6. Advances(g, f)
  <2>1. Tries(g) /\ ~Fetched
    BY <1>1, <1>2 DEF Pursuit, Fetched
  <2>. QED
    BY <1>1, <1>2, <1>3, <2>1 DEF Advances, Pursuit
<1>. QED
  BY <1>1, <1>2, <1>3, <1>4, <1>5, <1>6, AnsweredStep

LEMMA FailedTries ==
  ASSUME Pursuit, IInv', Persistent, sp = 1, Failed
  PROVE  Pursuit'
<1>1. /\ pc = "exec" /\ F.state = "SERVFAIL" /\ UNCHANGED <<setting, search, nodata, asked, sent>> /\ Sound(F)
  BY TopIsSound DEF Failed, In, R, history, Pursuit, IInv
<1>2. PICK f : f = [F EXCEPT !.answer = ServFail, !.state = "DONE"] /\ Become(f)
  BY DEF Failed
<1>3. PICK g : g = F /\ Advances(g, f)
  BY <1>1, <1>2, AdvancesWhat
<1>4. f.state = "DONE" /\ f.attempts = g.attempts /\ f.which = g.which /\ g.state = "SERVFAIL"
  BY <1>1, <1>2, <1>3 DEF Sound, IsFrame
<1>5. AtName(f)' /\ InRound(f)'
  BY <1>1, <1>3, <1>4, QuietStep DEF Asking
<1>6. Servers' = Servers /\ conf' = conf /\ Rounds(conf.attempts) /\ Sources(g) /\ Counted
  BY <1>1, <1>3, <1>4 DEF setting, Servers, Advances, Tries, Outcome
<1>7. Counted' /\ Sources(f)'
  BY <1>1, <1>4, <1>6 DEF Counted, Sources, Answered
<1>8. Outcome(f)'
  BY <1>1, <1>4, <1>6 DEF Outcome, Rounds
<1>. QED
  BY <1>3, <1>5, <1>7, <1>8, FirstTries DEF Advances

(* The frames above the first one leave it and its counts alone.            *)
LEMMA AboveTries ==
  ASSUME Pursuit, IInv', Persistent, ResExec, sp > 1 \/ Done, ~strayed'
  PROVE  Pursuit'
<1>1. IInv /\ sp \in Nat /\ conf \in Confs
  BY ResolverAssumption DEF Pursuit, IInv, Stacked, ResolverAssumption
<1>2. pc = "exec" /\ Tries(stack[1])
  BY DEF ResExec, InitGlue, Switch, File, Cache, CacheReady, Bind, Search, Hints, Iterate, ForeachNs,
     ResolveNs, ResolvedNs, ForeachA, QueryWaits, QueryAnswered, FollowAlias, FollowedAlias, Finish,
     Smart, SmartAdd, Done, Failed, In, Pursuit, Fetched
<1>3. UNCHANGED <<setting, search, asked, sent>>
  <2>1. (sp > 1 /\ sp # 1) \/ Done
    BY <1>1
  <2>. QED
    BY <2>1 DEF ResExec, InitGlue, Switch, File, Cache, CacheReady, Bind, Search, Hints, Iterate, ForeachNs,
       ResolveNs, ResolvedNs, ForeachA, QueryWaits, QueryAnswered, FollowAlias, FollowedAlias, Finish,
       Smart, SmartAdd, Done, Failed, R, history
<1>4. stack'[1] = stack[1]
  <2>1. CASE Done \/ stack' = stack
    BY <2>1 DEF Done, Returns
  <2>2. CASE sp > 1 /\ \E f : Become(f) \/ Resume(f) \/ (\E name, type : Recurse(f, name, type))
    BY <1>1, <2>2, FirstOfTop
  <2>3. ASSUME InitGlue \/ Switch \/ File \/ Cache \/ CacheReady \/ Bind \/ Search \/ Hints \/ Iterate
        PROVE  stack' = stack \/ \E f : Become(f)
    BY <2>3, Zenon DEF InitGlue, Switch, File, Cache, FromCache, CacheReady, Bind, Search, Hints, Iterate,
       Goto, Follow, Returns
  <2>4. ASSUME ForeachNs PROVE \E f : Become(f)
    BY <2>4, Zenon DEF ForeachNs
  <2>5. ASSUME ForeachA \/ QueryWaits \/ QueryAnswered \/ Failed
        PROVE  stack' = stack \/ \E f : Become(f)
    BY <2>5, Zenon DEF ForeachA, QueryWaits, QueryAnswered, Failed, Retry, Settle, KeepNodata, Refer,
       Disregard, Goto, Follow, Returns
  <2>6. ASSUME ResolveNs \/ ResolvedNs \/ FollowAlias \/ FollowedAlias \/ Finish \/ Smart \/ SmartAdd
        PROVE  stack' = stack \/ \E f : Become(f) \/ Resume(f) \/ (\E name, type : Recurse(f, name, type))
    BY <2>6, Zenon DEF ResolveNs, ResolvedNs, FollowAlias, FollowedAlias, Finish, Smart, SmartAdd,
       Goto, Returns
  <2>. QED
    BY <2>1, <2>2, <2>3, <2>4, <2>5, <2>6 DEF ResExec
<1>5. nodata'.kind # "servfail" /\ (nodata # NoPacket => nodata' # NoPacket)
  <2>1. nodata.kind # "servfail"
    BY <1>2 DEF Tries, Counted
  <2>2. ASSUME NEW P \in Says(so.name, so.type), KeepNodata(P)
        PROVE  nodata' = nodata \/ nodata'.kind \in {"answer", "formerr"}
    <3>1. P.kind \in {"answer", "formerr"}
      BY SaysWhat
    <3>. QED
      BY <2>2, <3>1 DEF KeepNodata
  <2>3. ASSUME QueryAnswered PROVE nodata' = nodata \/ nodata'.kind \in {"answer", "formerr"}
    BY <2>2, <2>3 DEF QueryAnswered, Retry, Settle, Refer, Disregard
  <2>4. ASSUME Switch, sp > 1 PROVE nodata' = nodata
    BY <1>1, <2>4 DEF Switch
  <2>5. nodata' = nodata \/ nodata'.kind \in {"answer", "formerr"}
    BY <2>3, <2>4 DEF ResExec, InitGlue, File, Cache, CacheReady, Bind, Search, Hints, Iterate, ForeachNs,
       ResolveNs, ResolvedNs, ForeachA, QueryWaits, FollowAlias, FollowedAlias, Finish,
       Smart, SmartAdd, Done, Failed, In, R
  <2>. QED
    BY <2>1, <2>5, NoPacketWhat
<1>6. PICK f : f = stack[1]
  OBVIOUS
<1>7. Candidates' = Candidates /\ Servers' = Servers /\ conf' = conf
  BY <1>3, SameCandidates DEF setting, Servers
<1>8. Counted /\ AtName(f) /\ InRound(f) /\ Sources(f) /\ Outcome(f)
  BY <1>2, <1>6 DEF Tries
<1>9. Counted' /\ AtName(f)'
  BY <1>3, <1>5, <1>7, <1>8 DEF Counted, AtName, PutUpTo
<1>10. InRound(f)'
  BY <1>3, <1>7, <1>8 DEF InRound, Hinted, Rounds
<1>11. Sources(f)' /\ Outcome(f)'
  BY <1>3, <1>5, <1>7, <1>8 DEF Sources, Outcome, Rounds, PutUpTo, GaveUp
<1>. QED
  BY <1>4, <1>6, <1>9, <1>10, <1>11, FirstTries

LEMMA OthersTry ==
  ASSUME Pursuit, IInv', Persistent, Check \/ TimePasses \/ UNCHANGED vars
  PROVE  Pursuit'
<1>1. SameCounts /\ stack' = stack /\ (Fetched <=> Fetched')
  BY DEF Check, TimePasses, vars, SameCounts, setting, R, history, Fetched
<1>2. CASE Fetched'
  BY <1>2 DEF Pursuit
<1>3. CASE ~Fetched'
  BY <1>1, <1>3, StillTries DEF Pursuit
<1>. QED
  BY <1>2, <1>3

(* A query begins with nothing asked.                                       *)
LEMMA BeginsWithNothing ==
  ASSUME IInv, sent = [a \in Names |-> 0], nodata = NoPacket, stack = [k \in 1..MaxDepth |-> Frame(conf)]
  PROVE  Pursuit
<1>1. conf \in Confs /\ 1 \in 1..MaxDepth
  BY ResolverAssumption DEF IInv, Stacked, ResolverAssumption
<1>2. PICK f : f = Frame(conf)
  OBVIOUS
<1>3. f.state = "INIT" /\ f.attempts = 0 /\ f.which = 0 /\ stack[1] = f
  BY <1>1, <1>2 DEF Frame
<1>4. Servers \subseteq Names /\ Len(conf.lookup) \in Nat
  BY <1>1, ServersWhat
<1>5. Counted
  BY NoPacketWhat DEF Counted
<1>6. AtName(f) /\ InRound(f)
  BY <1>3, <1>4 DEF AtName, InRound, Asking, Rounds
<1>7. Sources(f) /\ Outcome(f)
  BY <1>3, <1>4 DEF Sources, Outcome, Answered
<1>. QED
  BY <1>3, <1>5, <1>6, <1>7 DEF Pursuit, Tries

LEMMA PursuitBegins == Init => Pursuit
  BY InitHolds, BeginsWithNothing DEF Init

LEMMA PursuitBeginsAgain ==
  ASSUME IInv, IInv', Reset, UNCHANGED conf
  PROVE  Pursuit'
<1>1. conf \in Confs /\ 1 \in 1..MaxDepth /\ conf' = conf
  BY ResolverAssumption DEF IInv, Stacked, ResolverAssumption
<1>2. PICK f : f = Frame(conf)
  OBVIOUS
<1>3. /\ stack'[1] = f /\ sent' = [a \in Names |-> 0] /\ nodata' = NoPacket
      /\ f.state = "INIT" /\ f.attempts = 0 /\ f.which = 0
  BY <1>1, <1>2 DEF Reset, Frame
<1>4. Servers' = Servers /\ Servers \subseteq Names /\ Len(conf.lookup) \in Nat
  BY <1>1, ServersWhat DEF Servers
<1>5. Counted'
  BY <1>3, NoPacketWhat DEF Counted
<1>6. AtName(f)' /\ InRound(f)'
  BY <1>3, <1>4 DEF AtName, InRound, Asking, Rounds
<1>7. Sources(f)' /\ Outcome(f)'
  BY <1>1, <1>3, <1>4 DEF Sources, Outcome, Answered
<1>. QED
  BY <1>3, <1>5, <1>6, <1>7, FirstTries

LEMMA PursuitKept == Pursuit /\ [Next]_vars => Pursuit'
<1>. SUFFICES ASSUME Pursuit, [Next]_vars PROVE Pursuit'
  OBVIOUS
<1>1. IInv /\ IInv'
  BY NextKeeps DEF Pursuit
<1>2. CASE Submit \/ Close
  BY <1>1, <1>2, PursuitBeginsAgain DEF Submit, Close, setting
<1>3. CASE Fetch
  BY <1>1, <1>3 DEF Fetch, Fetched, Pursuit
<1>4. CASE ~Persistent'
  BY <1>1, <1>4 DEF Pursuit
<1>5. CASE Persistent' /\ (ResExec \/ Check \/ TimePasses \/ UNCHANGED vars)
  <2>1. UNCHANGED setting
    BY <1>5 DEF ResExec, vars, Check, TimePasses, InitGlue, Switch, File, Cache,
       CacheReady, Bind, Search, Hints, Iterate, ForeachNs, ResolveNs, ResolvedNs, ForeachA, QueryWaits,
       QueryAnswered, FollowAlias, FollowedAlias, Finish, Smart, SmartAdd, Done, Failed
  <2>2. Persistent /\ ~strayed'
    <3>1. ~strayed'
      BY <1>5 DEF Persistent
    <3>2. ~strayed
      BY <1>5, <3>1 DEF ResExec, vars, history, Check, TimePasses, InitGlue, Switch, File, Cache,
         CacheReady, Bind, Search, Hints, Iterate, ForeachNs, ResolveNs, ResolvedNs, ForeachA, QueryWaits,
         QueryAnswered, FollowAlias, FollowedAlias, Finish, Smart, SmartAdd, Done, Failed
    <3>3. conf' = conf /\ Servers' = Servers
      BY <2>1 DEF setting, Servers
    <3>. QED
      BY <1>5, <3>1, <3>2, <3>3 DEF Persistent
  <2>3. CASE Check \/ TimePasses \/ UNCHANGED vars
    BY <1>1, <2>2, <2>3, OthersTry
  <2>4. CASE ResExec /\ (sp > 1 \/ Done)
    BY <1>1, <2>2, <2>4, AboveTries
  <2>5. CASE ResExec /\ ~(sp > 1 \/ Done)
    <3>1. sp = 1
      BY <1>1, <2>5, ResolverAssumption DEF IInv, Stacked, ResolverAssumption
    <3>. QED
      BY <1>1, <2>2, <2>5, <3>1, InitGlueTries, SwitchTries, FileTries, CacheTries, BindTries, SearchTries,
         HintsTries, IterateTries, ForeachNsTries, ResolveNsTries, ForeachATries, QueryWaitsTries,
         QueryAnsweredTries, AnsweredTries, FailedTries DEF ResExec
  <2>. QED
    BY <1>5, <2>3, <2>4, <2>5
<1>. QED
  BY <1>2, <1>3, <1>4, <1>5 DEF Next

(* A stub resolver does not return without the records it was asked for     *)
(* before it has put every name to a server or has asked every server with  *)
(* an IPv4 address as often as resolv.conf says, whatever the servers say, the sources and     *)
(* their order, and however its search is interrupted.                      *)
THEOREM ServersAreAskedFirst == Spec => []GivesUpLast
<1>1. Pursuit => GivesUpLast
  <2>1. SUFFICES ASSUME Pursuit, pc = "done", ~conf.recurse, "BIND" \in Range(conf.lookup), ~strayed,
                        stack[1].answer.an = {}
                 PROVE  \/ /\ stack[1].answer.kind # "servfail"
                           /\ \A k \in DOMAIN Candidates : Candidates[k] \in asked
                        \/ Rounds(conf.attempts)
    BY DEF GivesUpLast, Rounds, Servers
  <2>2. IInv /\ stack[1].state = "DONE" /\ conf \in Confs /\ ~Fetched
    BY <2>1 DEF Pursuit, IInv, FramesAwait, Stacked, F, Fetched
  <2>3. CASE Servers = {}
    BY <2>3 DEF Rounds
  <2>4. CASE Servers # {}
    <3>1. Persistent
      BY <2>1, <2>4 DEF Persistent, Range
    <3>2. Outcome(stack[1])
      BY <2>1, <2>2, <3>1 DEF Pursuit, Tries
    <3>3. \/ stack[1].answer.kind # "servfail" /\ PutUpTo(Len(Candidates))
          \/ Rounds(conf.attempts)
      BY <2>1, <2>2, <3>2 DEF Outcome, Answered
    <3>4. DOMAIN Candidates = 1..Len(Candidates)
      BY <2>2, CandidatesWhat
    <3>. QED
      BY <3>3, <3>4 DEF PutUpTo
  <2>. QED
    BY <2>3, <2>4
<1>. QED
  BY <1>1, PursuitBegins, PursuitKept, PTL DEF Spec
==============================================================================
