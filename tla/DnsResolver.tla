------------------------------ MODULE DnsResolver ------------------------------
(***************************************************************************)
(* The resolver (dns_res_...): a question is put as one name after another *)
(* of the search list, to the hosts file, a cache or the network, and a    *)
(* stack of frames follows aliases and looks up name servers.  Each state  *)
(* of dns_res_exec() is an action; with EAGAIN it is left and entered      *)
(* again at the state of the topmost frame.                                *)
(*                                                                         *)
(* A name is a number: 1 is the name that was asked for, k + 1 is the same *)
(* with the k-th name of the search list added, HintsLocal the name server *)
(* that dns_hints_query() makes up, and the rest are Others.  A packet is  *)
(* its records without the question.  The socket is what DnsQuery says: it *)
(* has one query, which it answers, for which it waits, or which fails.    *)
(* An address is the number of the name it belongs to, or one of Inet6.    *)
(***************************************************************************)
EXTENDS DnsHints, SequencesExt

CONSTANTS Confs,         \* resolv.conf: [lookup, search, ndots, attempts, nameservers,
                         \* recurse, smart, edns0, rotate, cache]
          Questions,     \* [anchored, dots, type]
          Others,        \* names servers may bring up
          HostsFiles,    \* sets of names the hosts file may have
          Referrals,     \* name servers an answer may refer to, [ns, ar]
          Inet6,         \* addresses of IPv6
          MaxDepth       \* DNS_R_MAXDEPTH: 8

NoName == 0
HintsLocal == 10
Rank == 20
Names == 1..Rank

ASSUME ResolverAssumption ==
  /\ Others \subseteq (HintsLocal + 1)..Rank
  /\ MaxDepth \in Nat \ {0} /\ Inet6 \cap Names = {}
  /\ \A c \in Confs : /\ c.search \in Nat /\ c.search + 1 < HintsLocal /\ c.attempts \in Nat
                      /\ c.lookup \in Seq({"FILE", "BIND", "CACHE"})
                      /\ c.nameservers \in Seq(Names \cup Inet6) /\ Len(c.nameservers) <= Slots
  /\ \A n \in Names, seed \in Seeds \cup {0} : ShuffleOf(n, seed) \in Nat

VARIABLES conf, hosts,     \* what resolv.conf and the hosts file say
          q,               \* the question
          search,          \* R->search: names of the search list used up
          nodata,          \* R->nodata
          smart,           \* R->smart: records left and counted
          sp, stack,
          so,              \* the query of the socket: [name, type, edns]
          late,            \* whether it has been open for longer than the timeout
          pc,              \* "idle", "exec" inside of dns_res_exec(), "stuck" there, or
                           \* its result
          asked, sent,     \* history: names the first frame has put to a server, and
                           \* how often to each address,
          strayed          \* whether the search went on in a frame above the first

setting == <<conf, hosts, q>>
R == <<search, nodata, smart>>
history == <<asked, sent, strayed>>
vars == <<setting, R, sp, stack, so, late, pc, history>>

-----------------------------------------------------------------------------
(* Records and packets                                                      *)

Rec(type, name, data) == [type |-> type, name |-> name, data |-> data]
Packet(kind, an, ns, ar, aa) == [kind |-> kind, an |-> an, ns |-> ns, ar |-> ar, aa |-> aa]
NoPacket == Packet("none", {}, {}, <<>>, FALSE)
ServFail == Packet("servfail", {}, {}, <<>>, FALSE)

GlueRec(a) == Rec(IF a.addr \in Inet6 THEN "AAAA" ELSE "A", a.host, a.addr)
Glue(ar) == {GlueRec(ar[k]) : k \in DOMAIN ar}
Records(P) == P.an \cup Glue(P.ar)
OneRecord(type, name, data) == Packet("answer", {Rec(type, name, data)}, {}, <<>>, FALSE)
Find(P, name, type) == {r \in P.an : r.name = name /\ r.type = type}

(* What a server may say to a query.  Of answers without a record for the   *)
(* name, "formerr" stands for FORMERR and NOTIMP, and only a resolver that  *)
(* goes from server to server looks at authority and at referrals.          *)
Says(name, type) ==
  LET an(S) == Packet("answer", S, {}, <<>>, FALSE)
      data(n) == IF type = "A" THEN {n} ELSE Others
  IN  {an({Rec(type, name, d)}) : d \in data(name)}
      \cup {an({Rec("CNAME", name, c)}) : c \in Others}
      \cup (UNION {{an({Rec("CNAME", name, c), Rec(type, c, d)}) : d \in data(c)} : c \in Others})
      \cup {an({}), Packet("formerr", {}, {}, <<>>, FALSE)}
      \cup IF ~conf.recurse THEN {}
           ELSE {Packet("answer", {}, {}, <<>>, TRUE)}
                \cup {Packet("answer", {}, r.ns, r.ar, FALSE) : r \in Referrals}

NoQuery == [name |-> NoName, type |-> "A", edns |-> FALSE]
NoHints == [ns |-> {}, ar |-> <<>>, base |-> 0]

(* dns_hints_query(): one name server with all the addresses, those of IPv6 *)
(* as AAAA records.  The table has the root zone alone, which every name    *)
(* comes down to.                                                           *)
HintsQuery(seed) ==
  LET addrs == Grep(seed, InsertResconf(conf.nameservers, conf.rotate))
  IN  [ns |-> {HintsLocal}, ar |-> [k \in DOMAIN addrs |-> [host |-> HintsLocal, addr |-> addrs[k]]],
       base |-> 0]

(* The iterator over name servers: the next one, NoName for none.           *)
NsStart == [exec |-> 0, next |-> NoName, seed |-> 0]

Frame(c) ==
  [state |-> "INIT", which |-> 0, edns |-> c.edns0, attempts |-> 0,
   query |-> NoName, type |-> "A",
   answer |-> NoPacket, hints |-> NoHints,
   nsI |-> NsStart, saved |-> NsStart, ns |-> NoName, j |-> 0, cname |-> NoName]

(* dns_resconf_search()                                                     *)
Candidates ==
  LET added == [k \in 1..conf.search |-> k + 1]
  IN  IF q.anchored THEN <<1>>
      ELSE IF q.dots >= conf.ndots THEN <<1>> \o added ELSE added \o <<1>>

-----------------------------------------------------------------------------
(* Calls of the user, which come one after the other.  Like the proxy it    *)
(* calls dns_res_check() again after EAGAIN alone, and puts a new question  *)
(* when it has done with the old one.                                       *)

Reset ==
  /\ search' = 0 /\ nodata' = NoPacket /\ smart' = [left |-> {}, count |-> 0]
  /\ sp' = 1 /\ stack' = [k \in 1..MaxDepth |-> Frame(conf)]
  /\ so' = NoQuery /\ late' = FALSE
  /\ asked' = {} /\ sent' = [a \in Names |-> 0] /\ strayed' = FALSE

Init ==
  /\ conf \in Confs /\ hosts \in HostsFiles /\ q \in Questions
  /\ search = 0 /\ nodata = NoPacket /\ smart = [left |-> {}, count |-> 0]
  /\ sp = 1 /\ stack = [k \in 1..MaxDepth |-> Frame(conf)]
  /\ so = NoQuery /\ late = FALSE
  /\ pc = "open"
  /\ asked = {} /\ sent = [a \in Names |-> 0] /\ strayed = FALSE

Submit ==
  /\ pc \in {"open", "done", "fetched", "efetched", "error"}
  /\ Reset
  /\ q' \in Questions /\ pc' = "idle"
  /\ UNCHANGED <<conf, hosts>>

Check ==
  /\ pc = "idle"
  /\ pc' = "exec"
  /\ UNCHANGED <<setting, R, sp, stack, so, late, history>>

Fetch ==
  /\ \/ pc = "done" /\ pc' = "fetched"
     \/ pc = "fetched" /\ pc' = "efetched"
  /\ stack' = [stack EXCEPT ![1].answer = NoPacket]
  /\ UNCHANGED <<setting, R, sp, so, late, history>>

Close ==
  /\ pc \notin {"exec", "stuck", "closed"}
  /\ Reset /\ pc' = "closed"
  /\ UNCHANGED setting

(* The time resolv.conf gives to a host runs out.                           *)
TimePasses ==
  /\ pc \in {"idle", "exec"} /\ stack[sp].state = "QUERY_A" /\ ~late
  /\ late' = TRUE
  /\ UNCHANGED <<setting, R, sp, stack, so, pc, history>>

-----------------------------------------------------------------------------
(* dns_res_exec().  The definitions named Fault... are faults a change of   *)
(* the code could introduce; each makes a property below fail, and no       *)
(* specification uses them.                                                 *)

F == stack[sp]
In(s) == pc = "exec" /\ F.state = s
Become(frame) == stack' = [stack EXCEPT ![sp] = frame] /\ UNCHANGED sp
Goto(s) == Become([F EXCEPT !.state = s])

(* The frame above has been used; nothing looks at it until it is reset.    *)
Resume(frame) ==
  stack' = [stack EXCEPT ![sp] = frame, ![sp + 1] = Frame(conf)] /\ UNCHANGED sp
Returns(r) == pc' = r /\ UNCHANGED <<sp, stack>>

(* dns_res_frame_prepare() of the next frame, if there is one.              *)
Deepest == sp = MaxDepth
Recurse(frame, name, type) ==
  /\ stack' = [stack EXCEPT ![sp] = frame,
                            ![sp + 1] = [Frame(conf) EXCEPT !.query = name, !.type = type]]
  /\ sp' = sp + 1

(* dns_res_glue(): records of the name in answers of this frame and of      *)
(* those below, or else aliases.                                            *)
ResGlue ==
  LET known(type) == {r \in UNION {Records(stack[k].answer) : k \in 1..sp} :
                        r.name = F.query /\ r.type = type}
  IN  IF known(F.type) # {} THEN known(F.type) ELSE known("CNAME")

(* An answer is finished with when it has what was asked for, and followed  *)
(* when it has an alias.                                                    *)
Answers(P) == Find(P, F.query, F.type) # {}
Alias(P) == Find(P, F.query, "CNAME")
Follow(P) ==
  \E r \in Alias(P) : Become([F EXCEPT !.state = "CNAME0_A", !.answer = P, !.cname = r.data])

InitGlue ==
  LET P == Packet("answer", ResGlue, {}, <<>>, FALSE)
  IN  /\ In("INIT")
      /\ \/ (sp = 1 \/ ResGlue = {}) /\ Become([F EXCEPT !.state = "SWITCH"])
         \/ /\ sp > 1 /\ ResGlue # {}
            /\ IF Answers(P) THEN Become([F EXCEPT !.state = "FINISH", !.answer = P])
               ELSE Follow(P)
      /\ UNCHANGED <<setting, R, so, late, pc, history>>

Switch ==
  /\ In("SWITCH")
  /\ IF F.which < Len(conf.lookup)
     THEN /\ Become([F EXCEPT !.which = @ + 1,
                              !.state = IF conf.lookup[F.which + 1] = "CACHE" /\ ~conf.cache
                                        THEN "SWITCH" ELSE conf.lookup[F.which + 1]])
          /\ UNCHANGED nodata
     ELSE IF sp = 1 /\ nodata # NoPacket
     THEN Become([F EXCEPT !.answer = nodata, !.state = "FINISH"]) /\ nodata' = NoPacket
     ELSE Goto("SERVFAIL") /\ UNCHANGED nodata
  /\ UNCHANGED <<setting, search, smart, so, late, pc, history>>

(* dns_hosts_query()                                                        *)
InHosts(name, type) == type = "A" /\ name \in hosts

File ==
  LET names == IF sp > 1 THEN <<F.query>> ELSE Candidates
      type == IF sp > 1 THEN F.type ELSE q.type
      found == {k \in DOMAIN names : InHosts(names[k], type)}
      at == IF found = {} THEN Len(names) ELSE CHOOSE k \in found : \A o \in found : k <= o
      here == [F EXCEPT !.query = names[at], !.type = type]
  IN  /\ In("FILE")
      /\ search' = IF sp > 1 THEN search ELSE at
      /\ IF found = {} THEN Become([here EXCEPT !.answer = NoPacket, !.state = "SWITCH"])
         ELSE Become([here EXCEPT !.answer = OneRecord("A", names[at], names[at]),
                                  !.state = "FINISH"])
      /\ UNCHANGED <<setting, nodata, smart, so, late, pc, history>>

(* The cache is not the resolver's own: it may know an answer, that there   *)
(* is none, fail, or be asked and answer later.                             *)
FromCache ==
  LET name == IF F.query = NoName THEN 1 ELSE F.query
      type == IF F.query = NoName THEN q.type ELSE F.type
      here == [F EXCEPT !.query = name, !.type = type]
  IN  \/ \E d \in Others : Become([here EXCEPT !.answer = OneRecord(type, name, d), !.state = "FINISH"])
      \/ Become([here EXCEPT !.answer = NoPacket, !.state = "SWITCH"])
      \/ In("CACHE") /\ Become([here EXCEPT !.state = "SUBMIT"])

Cache ==
  /\ \/ (In("CACHE") \/ In("FETCH")) /\ FromCache /\ UNCHANGED pc
     \/ In("SUBMIT") /\ Goto("CHECK") /\ UNCHANGED pc
     \/ In("CHECK") /\ Returns("idle")
     \/ /\ \E s \in {"CACHE", "SUBMIT", "CHECK", "FETCH"} : In(s)
        /\ Returns("error")
  /\ UNCHANGED <<setting, R, so, late, history>>

CacheReady ==
  /\ In("CHECK") /\ Goto("FETCH")
  /\ UNCHANGED <<setting, R, so, late, pc, history>>

-----------------------------------------------------------------------------
(* The network                                                              *)

Bind ==
  /\ In("BIND")
  /\ IF sp > 1 THEN Goto("HINTS") /\ UNCHANGED search ELSE Goto("SEARCH") /\ search' = 0
  /\ UNCHANGED <<setting, nodata, smart, so, late, pc, history>>

(* In a frame above the first it is still the name the user asked for that  *)
(* the search goes on with.                                                 *)
Search ==
  /\ In("SEARCH")
  /\ \/ /\ search < Len(Candidates)
        /\ search' = search + 1 /\ strayed' = (strayed \/ sp > 1)
        /\ Become([F EXCEPT !.query = Candidates[search + 1], !.type = q.type, !.state = "HINTS"])
     \/ search = Len(Candidates) /\ Goto("SWITCH") /\ UNCHANGED <<search, strayed>>
  /\ UNCHANGED <<setting, nodata, smart, so, late, pc, asked, sent>>

Hints ==
  /\ In("HINTS")
  /\ \E seed \in Seeds : Become([F EXCEPT !.hints = HintsQuery(seed), !.state = "ITERATE"])
  /\ UNCHANGED <<setting, R, so, late, pc, history>>

Iterate ==
  /\ In("ITERATE")
  /\ Become([F EXCEPT !.nsI = NsStart, !.hints.base = Len(F.hints.ar), !.state = "FOREACH_NS"])
  /\ UNCHANGED <<setting, R, so, late, pc, history>>

(* dns_res_nameserv_cmp(): with an address from the answer first, then with *)
(* one that has been looked up, then the rest, each shuffled.  Only A       *)
(* records are looked for, here and at FOREACH_A.                           *)
PlacesOf(ns) == {k \in DOMAIN F.hints.ar : GlueRec(F.hints.ar[k]) = Rec("A", ns, F.hints.ar[k].addr)}
NameservRank(ns) ==
  IF PlacesOf(ns) = {} THEN 2
  ELSE IF \E k \in PlacesOf(ns) : k <= F.hints.base THEN 0 ELSE 1

NameservCmp(a, b, seed) ==
  IF NameservRank(a) # NameservRank(b) THEN NameservRank(a) - NameservRank(b)
  ELSE ShuffleOf(a, seed) - ShuffleOf(b, seed)

FirstNs(S, seed) ==
  IF S = {} THEN NoName ELSE CHOOSE n \in S : \A o \in S \ {n} : NameservCmp(n, o, seed) < 0
After(ns, seed) == {n \in F.hints.ns : NameservCmp(n, ns, seed) > 0}

(* A seed is drawn when the iteration begins and there is something to shuffle. *)
SeedsNow == IF F.nsI.exec = 0 /\ Cardinality(F.hints.ns) > 1 THEN Seeds ELSE {F.nsI.seed}

(* The place of the iterator is kept, to come back to when an address of    *)
(* this name server has been found; the one after it is already looked for. *)
ForeachNs ==
  /\ In("FOREACH_NS")
  /\ \E seed \in SeedsNow :
       LET ns == IF F.nsI.exec = 0 THEN FirstNs(F.hints.ns, seed) ELSE F.nsI.next
           at == [exec |-> 1, next |-> FirstNs(After(ns, seed), seed), seed |-> seed]
       IN  IF ns # NoName
           THEN Become([F EXCEPT !.saved = F.nsI, !.nsI = at, !.ns = ns, !.j = 0,
                                 !.state = "FOREACH_A"])
           ELSE Become([F EXCEPT !.saved = F.nsI, !.attempts = @ + 1,
                                 !.state = IF F.attempts + 1 < conf.attempts
                                           THEN "ITERATE" ELSE "SWITCH"])
  /\ UNCHANGED <<setting, R, so, late, pc, history>>

(* The address of a name server is looked up in the next frame, and added   *)
(* to the hints unless there is no room left in that packet.                *)
ResolveNs ==
  /\ In("RESOLV0_NS")
  /\ IF Deepest THEN Goto("FOREACH_NS")
     ELSE Recurse([F EXCEPT !.state = "RESOLV1_NS"], F.ns, "A")
  /\ UNCHANGED <<setting, R, so, late, pc, history>>

ResolvedNs ==
  LET up == stack[sp + 1]
      found == {r \in Records(up.answer) : r.name = up.query /\ r.type = "A"}
      glue == SetToSeq({[host |-> r.name, addr |-> r.data] : r \in found})
  IN  /\ In("RESOLV1_NS")
      /\ \/ /\ Resume([F EXCEPT !.hints.ar = @ \o glue, !.state = "FOREACH_NS",
                                !.nsI = IF found = {} THEN @ ELSE F.saved])
            /\ UNCHANGED pc
         \/ found # {} /\ Returns("error")
      /\ UNCHANGED <<setting, R, so, late, history>>

(* dns_so_submit() to the next address of the name server                   *)
ForeachA ==
  LET left == {k \in PlacesOf(F.ns) : k > F.j}
  IN  /\ In("FOREACH_A")
      /\ \/ \E k \in left :
              /\ \A o \in left : k <= o
              /\ Become([F EXCEPT !.j = k, !.state = "QUERY_A"])
              /\ so' = [name |-> F.query, type |-> F.type, edns |-> F.edns] /\ late' = FALSE
              /\ asked' = IF sp = 1 THEN asked \cup {F.query} ELSE asked
              /\ sent' = IF sp = 1 /\ ~conf.recurse
                         THEN [sent EXCEPT ![F.hints.ar[k].addr] = @ + 1] ELSE sent
         \/ /\ left = {}
            /\ Goto(IF F.j = 0 THEN "RESOLV0_NS" ELSE "FOREACH_NS")
            /\ UNCHANGED <<so, late, asked, sent>>
      /\ UNCHANGED <<setting, R, pc, strayed>>

FaultQueryWaits ==
  /\ In("QUERY_A")
  /\ \E r \in {"idle", "error"} : Returns(r)
  /\ UNCHANGED <<setting, R, so, late, history>>

QueryWaits ==
  /\ In("QUERY_A")
  /\ IF late THEN Goto("FOREACH_A") /\ UNCHANGED pc ELSE \E r \in {"idle", "error"} : Returns(r)
  /\ UNCHANGED <<setting, R, so, late, history>>

(* dns_so_fetch() has given the answer P to the query.                      *)
Refused(P) == P.kind = "formerr" /\ F.edns
NoAnswer(P) == ~Refused(P) /\ ~Answers(P) /\ Alias(P) = {}

FaultRetry(P) ==
  /\ Refused(P)
  /\ Become([F EXCEPT !.answer = P, !.edns = FALSE])
  /\ UNCHANGED nodata

Retry(P) ==
  /\ Refused(P)
  /\ Become([F EXCEPT !.answer = P, !.edns = FALSE, !.state = "FOREACH_A"])
  /\ UNCHANGED nodata

Settle(P) ==
  /\ ~Refused(P)
  /\ \/ Answers(P) /\ Become([F EXCEPT !.answer = P, !.state = "FINISH"])
     \/ ~Answers(P) /\ Follow(P)
  /\ UNCHANGED nodata

(* A stub resolver keeps the first answer, and tries the next name.         *)
FaultKeepNodata(P) ==
  /\ ~conf.recurse
  /\ nodata' = IF nodata = NoPacket THEN P ELSE nodata
  /\ Become([F EXCEPT !.answer = IF nodata = NoPacket THEN NoPacket ELSE P, !.state = "SWITCH"])

KeepNodata(P) ==
  /\ ~conf.recurse
  /\ nodata' = IF nodata = NoPacket THEN P ELSE nodata
  /\ Become([F EXCEPT !.answer = IF nodata = NoPacket THEN NoPacket ELSE P, !.state = "SEARCH"])

Refer(P) ==
  /\ conf.recurse /\ P.ns # {}
  /\ Become([F EXCEPT !.answer = NoPacket, !.hints = [ns |-> P.ns, ar |-> P.ar, base |-> 0],
                      !.state = "ITERATE"])
  /\ UNCHANGED nodata

Disregard(P) ==
  /\ conf.recurse /\ P.ns = {}
  /\ Become([F EXCEPT !.answer = P, !.state = IF P.aa THEN "FINISH" ELSE "FOREACH_A"])
  /\ UNCHANGED nodata

QueryAnswered ==
  /\ In("QUERY_A") /\ ~late
  /\ \E P \in Says(so.name, so.type) :
       \/ Retry(P) \/ Settle(P)
       \/ NoAnswer(P) /\ (KeepNodata(P) \/ Refer(P) \/ Disregard(P))
  /\ UNCHANGED <<setting, search, smart, so, late, pc, asked, sent, strayed>>

-----------------------------------------------------------------------------
(* Aliases, and what comes with an answer                                   *)

FaultFollowAlias ==
  /\ In("CNAME0_A")
  /\ IF Deepest THEN Goto("FINISH") ELSE Recurse(F, F.cname, F.type)
  /\ UNCHANGED <<setting, R, so, late, pc, history>>

FollowAlias ==
  /\ In("CNAME0_A")
  /\ IF Deepest THEN Goto("FINISH")
     ELSE Recurse([F EXCEPT !.state = "CNAME1_A"], F.cname, F.type)
  /\ UNCHANGED <<setting, R, so, late, pc, history>>

(* dns_res_merge(): the records of both, each of them once; the header is   *)
(* that of neither.                                                         *)
Merge(P0, P1) ==
  LET an == P0.an \cup P1.an
      more == SelectSeq(P1.ar, LAMBDA a : GlueRec(a) \notin Glue(P0.ar))
      ar == SelectSeq(P0.ar \o more, LAMBDA a : GlueRec(a) \notin an)
  IN  Packet("answer", an, P0.ns \cup P1.ns, ar, FALSE)

FollowedAlias ==
  /\ In("CNAME1_A")
  /\ Resume([F EXCEPT !.answer = Merge(F.answer, stack[sp + 1].answer), !.state = "FINISH"])
  /\ UNCHANGED <<setting, R, so, late, pc, history>>

Finish ==
  /\ In("FINISH")
  /\ IF conf.smart /\ sp = 1
     THEN /\ Goto("SMART0_A")
          /\ smart' = [left |-> {r \in F.answer.an : r.type = q.type}, count |-> 0]
     ELSE Goto("DONE") /\ UNCHANGED smart
  /\ UNCHANGED <<setting, search, nodata, so, late, pc, history>>

(* The address of each mail server is looked up, or, when there is none, of *)
(* the name itself, as it was asked for.                                    *)
Smart ==
  LET next == [F EXCEPT !.state = "SMART1_A"]
  IN  /\ In("SMART0_A")
      /\ \/ /\ ~Deepest /\ q.type = "MX"
            /\ \E r \in smart.left :
                 /\ Recurse(next, r.data, "A")
                 /\ smart' = [left |-> smart.left \ {r}, count |-> smart.count + 1]
         \/ /\ ~Deepest /\ q.type = "MX" /\ smart = [left |-> {}, count |-> 0]
            /\ Recurse(next, 1, "A") /\ smart' = [smart EXCEPT !.count = 1]
         \/ /\ Deepest \/ q.type # "MX" \/ (smart.left = {} /\ smart.count > 0)
            /\ Goto("DONE") /\ smart' = [smart EXCEPT !.left = {}]
      /\ UNCHANGED <<setting, search, nodata, so, late, pc, history>>

FaultSmartAdd ==
  LET new == {r \in stack[sp + 1].answer.an : r.type = "A"} \ Records(F.answer)
  IN  /\ In("SMART1_A")
      /\ Resume([F EXCEPT !.answer.an = @ \cup new, !.state = "SMART0_A"])
      /\ UNCHANGED <<setting, R, so, late, pc, history>>

(* Records that do not fit make the answer grow: that may fail, or, as the  *)
(* new size is computed from what is used and not from what was allocated,  *)
(* may go on for ever without a byte more.                                  *)
SmartAdd ==
  LET new == {r \in stack[sp + 1].answer.an : r.type = "A"} \ Records(F.answer)
      glue == SetToSeq({[host |-> r.name, addr |-> r.data] : r \in new})
  IN  /\ In("SMART1_A")
      /\ \/ Resume([F EXCEPT !.answer.ar = @ \o glue, !.state = "SMART0_A"]) /\ UNCHANGED pc
         \/ new # {} /\ \E r \in {"error", "stuck"} : Returns(r)
      /\ UNCHANGED <<setting, R, so, late, history>>

Done ==
  /\ In("DONE")
  /\ IF sp > 1 THEN sp' = sp - 1 /\ UNCHANGED <<pc, stack>> ELSE Returns("done")
  /\ UNCHANGED <<setting, R, so, late, history>>

Failed ==
  /\ In("SERVFAIL")
  /\ Become([F EXCEPT !.answer = ServFail, !.state = "DONE"])
  /\ UNCHANGED <<setting, R, so, late, pc, history>>

-----------------------------------------------------------------------------
ResExec ==
  \/ InitGlue \/ Switch \/ File \/ Cache \/ CacheReady
  \/ Bind \/ Search \/ Hints \/ Iterate \/ ForeachNs \/ ResolveNs \/ ResolvedNs
  \/ ForeachA \/ QueryWaits \/ QueryAnswered
  \/ FollowAlias \/ FollowedAlias \/ Finish \/ Smart \/ SmartAdd \/ Done \/ Failed

Next == Submit \/ Check \/ Fetch \/ Close \/ ResExec \/ TimePasses

Spec == Init /\ [][Next]_vars

(* dns_res_exec() is a loop without a wait, the user calls again after      *)
(* EAGAIN, the clock goes on, and a cache answers at last: there is no      *)
(* timeout for it.                                                          *)
FairSpec ==
  /\ Spec
  /\ WF_vars(ResExec) /\ WF_vars(Check) /\ WF_vars(TimePasses)
  /\ SF_vars(CacheReady)

-----------------------------------------------------------------------------
(* A frame that another has been entered from waits for it at a state that  *)
(* goes on with its answer; dns_res_exec() returns with EAGAIN only at a    *)
(* state that can be awaited, and with success only from the lowest frame.  *)
FramesAwait ==
  /\ sp \in 1..MaxDepth /\ search \in 0..Len(Candidates)
  /\ pc \in {"open", "idle", "exec", "done", "fetched", "efetched", "error", "stuck", "closed"}
  /\ \A k \in 1..(sp - 1) : stack[k].state \in {"RESOLV1_NS", "CNAME1_A", "SMART1_A"}
  /\ pc = "idle" => F.state \in {"INIT", "QUERY_A", "CHECK"}
  /\ pc = "done" => sp = 1 /\ F.state = "DONE" /\ F.answer # NoPacket

(* While an answer is awaited, the query of the socket is the one of the    *)
(* topmost frame as it is now: its name, type and options.                  *)
SocketServesTopFrame ==
  F.state = "QUERY_A" => so = [name |-> F.query, type |-> F.type, edns |-> F.edns]

(* The records of the answer given to the user belong to one of the names   *)
(* the question stands for, or to what is an alias of it: none comes from   *)
(* another query of the same search or from a name server's address.  It is *)
(* not so when the search has gone on in a frame above the first.           *)
Aliases(S, name) ==
  LET reach[n \in 0..MaxDepth] ==
        IF n = 0 THEN {name}
        ELSE reach[n - 1] \cup {r.data : r \in {c \in S : c.type = "CNAME" /\ c.name \in reach[n - 1]}}
  IN  reach[MaxDepth]

AnswerIsForQuestion ==
  LET an == stack[1].answer.an
  IN  pc = "done" /\ ~strayed =>
        \E k \in DOMAIN Candidates :
          \A r \in an : r.name \in Aliases(an, Candidates[k]) /\ r.type \in {q.type, "CNAME"}

(* A stub resolver that asks servers at all gives up last: an answer        *)
(* without the records asked for is returned when every name of the search  *)
(* has been put to a server, and otherwise, or with SERVFAIL, every server  *)
(* was asked as often as resolv.conf says.  Servers with an IPv6 address    *)
(* are never asked, so that nothing is said of them.                        *)
GivesUpLast ==
  LET P == stack[1].answer
      asks == ~conf.recurse /\ "BIND" \in Range(conf.lookup)
  IN  pc = "done" /\ asks /\ ~strayed /\ P.an = {} =>
        \/ P.kind # "servfail" /\ \A k \in DOMAIN Candidates : Candidates[k] \in asked
        \/ \A a \in Range(conf.nameservers) \ Inet6 : sent[a] >= conf.attempts

(* A query ends with an answer or an error, whatever else the servers do,   *)
(* unless there is no end of referrals, which nothing in the code bounds,   *)
(* or of the loop of SmartAdd.                                              *)
Referred == In("QUERY_A") /\ stack'[sp].state = "ITERATE"

EveryQueryEnds ==
  \/ []<><<Referred>>_vars
  \/ pc \in {"idle", "exec"} ~> pc \in {"done", "error", "stuck", "closed"}
==============================================================================
