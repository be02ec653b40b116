---------------------------- MODULE DnsPartsProofs ----------------------------
(***************************************************************************)
(* Proofs about the parts a stub resolver is made of: its socket           *)
(* (DnsSocket) and its configuration (DnsConf), about the permutations     *)
(* that give queries their ids, records and hints their order              *)
(* (DnsPermutor), and about the packets (DnsPacket).                       *)
(*                                                                         *)
(* DnsSocket: for any hosts, questions and ids, any number of submits,     *)
(* datagrams and connections.  Two invariants: Safe says in which states   *)
(* of dns_so_check() which descriptor belongs to the query, Honest follows *)
(* the ids: whatever is under way under the id of a question comes from a  *)
(* host the question was put to.  Honest needs that no id is given twice,  *)
(* and holds for one round of the permutor.                                *)
(*                                                                         *)
(* DnsConf: for any lines and any number of them.  Two invariants:         *)
(* CountsInv says who holds a reference to what at each stage, SearchInv   *)
(* how far a search has come through what it is to give.                   *)
(*                                                                         *)
(* DnsPermutor: for halves of any number of values, any round function,    *)
(* number of rounds, box and seed.  What the loops compute is one turn     *)
(* after the other (ETurns, ShuffleTurns), and each turn can be undone.    *)
(*                                                                         *)
(* DnsPacket: for any records, sizes and dictionary.  One invariant, Sound:*)
(* the payload fits, pointers lead back to labels, and the dictionary      *)
(* holds positions.  What recursive functions compute is one turn after    *)
(* the other (TargetTurns, ChainTurns, MatchWhat), and a packet that only  *)
(* grows keeps the labels it has (TargetStays, LabelStays).                *)
(***************************************************************************)
EXTENDS DnsSocket, DnsConf, DnsPermutor, DnsPacket, FiniteSetTheorems, NaturalsInduction,
        SequenceTheorems, WellFoundedInduction, TLAPS

-----------------------------------------------------------------------------
(* The socket                                                               *)

(* A socket in use has a query, and dns_so_check() runs for an open one.    *)
Submitted ==
  /\ state # "none" => query \in Questions /\ remote \in Hosts /\ qid \in Qids
  /\ pc = "check" => state # "none" /\ result \in {"none", "again"}

(* The descriptor a state works on is connected to the host of the query.   *)
Connected ==
  /\ state \in {"UDP_SEND", "UDP_RECV"} => peer = remote
  /\ state \in {"TCP_CONN", "TCP_SEND", "TCP_RECV"} => tcp # NoTcp /\ tcps[tcp].host = remote

(* The states in which dns_so_check() leaves with EAGAIN.                   *)
Waits ==
  pc = "idle" /\ result = "again" =>
    state \in {"UDP_SEND", "UDP_RECV", "TCP_CONN", "TCP_SEND", "TCP_RECV"}

Safe == TypeOK /\ EachFdIsClosedOnce /\ Submitted /\ Connected /\ Waits

(* An id that has been given to a question.                                 *)
Given(m) == m.qid \in Qids => m.qid \notin qids

(* What would be taken for an answer comes from a host that was asked.      *)
Vouched(m) == m.q \in Questions /\ m.qid \in Qids /\ qidOf[m.q] = m.qid => m.host \in put[m.q]

(* A query over TCP is known when its second half is there, since only one  *)
(* that is sent in one go has a second half.                                *)
KnownPiece(p) == Given(p.msg) /\ (p.part # "first" /\ p.part # "beyond" => Vouched(p.msg))

KnownConnection(c) ==
  /\ \A k \in DOMAIN c.in : KnownPiece(c.in[k])
  /\ \A k \in DOMAIN c.out : Given(c.out[k].msg) /\ Vouched(c.out[k].msg)

(* Whatever is under way has an id that has been given and, where it could  *)
(* be an answer, comes from a host that was asked.                          *)
AskedKnown == \A m \in asked : Given(m) /\ Vouched(m)
UdpKnown == \A k \in DOMAIN udp : Given(udp[k]) /\ Vouched(udp[k])
AnswerKnown == answer # Nothing => Given(answer) /\ Vouched(answer)
TcpsKnown == \A n \in DOMAIN tcps : KnownConnection(tcps[n])
HeadersGiven == \A q \in Questions : qidOf[q] \notin qids

(* The query keeps the id of its packet as long as it is open.              *)
OpenQuery ==
  state # "none" =>
    /\ qid \notin qids
    /\ result \in {"none", "again", "ok"} => qidOf[query] = qid /\ fetched = Nothing

(* An answer that is handed out has been verified.                          *)
Outcome ==
  /\ state = "UDP_DONE" /\ result \in {"none", "again"} => answer # Nothing /\ Verified(answer)
  /\ state = "TCP_DONE" /\ result \in {"none", "again"} => answer # Nothing
  /\ state # "none" /\ result = "ok" => answer # Nothing /\ Verified(answer)
  /\ result = "fetched" => fetched # Nothing

(* Each submit takes one id of the round at most.                           *)
Enough == Cardinality(qids) + submits >= Cardinality(Qids)

Honest ==
  /\ AskedKnown /\ UdpKnown /\ AnswerKnown /\ TcpsKnown /\ HeadersGiven
  /\ OpenQuery /\ Outcome /\ Enough

(* No id is given twice.                                                    *)
OneRound == MaxSubmits <= Cardinality(Qids)

-----------------------------------------------------------------------------
(* Taking the head of a queue shifts the rest by one.                       *)
LEMMA QueueHead ==
  ASSUME NEW S, NEW s \in Seq(S), s # <<>>
  PROVE  /\ Head(s) = s[1] /\ Head(s) \in S /\ 1 \in DOMAIN s
         /\ Tail(s) \in Seq(S)
         /\ \A k \in DOMAIN Tail(s) : k + 1 \in DOMAIN s /\ Tail(s)[k] = s[k + 1]
  OBVIOUS

LEMMA QueueEnd ==
  ASSUME NEW S, NEW s \in Seq(S), NEW e \in S
  PROVE  /\ Append(s, e) \in Seq(S) /\ Len(Append(s, e)) = Len(s) + 1
         /\ \A k \in DOMAIN s : k \in DOMAIN Append(s, e) /\ Append(s, e)[k] = s[k]
         /\ Append(s, e)[Len(s) + 1] = e
         /\ DOMAIN Append(s, e) = DOMAIN s \cup {Len(s) + 1} /\ Len(s) + 1 \notin DOMAIN s
<1>1. /\ Append(s, e) \in Seq(S) /\ Len(Append(s, e)) = Len(s) + 1
      /\ \A k \in 1..Len(s) : Append(s, e)[k] = s[k]
      /\ Append(s, e)[Len(s) + 1] = e
  BY AppendProperties
<1>2. DOMAIN s = 1..Len(s) /\ DOMAIN Append(s, e) = 1..(Len(s) + 1) /\ Len(s) \in Nat
  BY <1>1
<1>. QED
  BY <1>1, <1>2

LEMMA Concatenation ==
  ASSUME NEW S, NEW s \in Seq(S), NEW t \in Seq(S)
  PROVE  /\ s \o t \in Seq(S)
         /\ \A k \in DOMAIN (s \o t) :
              \/ k \in DOMAIN s /\ (s \o t)[k] = s[k]
              \/ k - Len(s) \in DOMAIN t /\ (s \o t)[k] = t[k - Len(s)]
  OBVIOUS

(* One connection changes, and only what is in its queues and whether it is *)
(* up.                                                                      *)
SameFd(c, d) == c.host = d.host /\ c.fd = d.fd

LEMMA OneMoves ==
  ASSUME TypeOK, NEW n \in DOMAIN tcps, NEW c \in Connection,
         tcps' = [tcps EXCEPT ![n] = c], SameFd(c, tcps[n])
  PROVE  /\ tcps' \in Seq(Connection) /\ DOMAIN tcps' = DOMAIN tcps
         /\ tcps'[n] = c
         /\ \A m \in DOMAIN tcps : m # n => tcps'[m] = tcps[m]
         /\ \A m \in DOMAIN tcps : SameFd(tcps'[m], tcps[m])
  BY DEF TypeOK, SameFd

(* The record of a connection with other queues.                            *)
LEMMA OtherQueues ==
  ASSUME NEW c \in Connection, NEW in \in Seq(Piece), NEW out \in Seq(Piece)
  PROVE  /\ [c EXCEPT !.in = in] \in Connection /\ SameFd([c EXCEPT !.in = in], c)
         /\ [c EXCEPT !.out = out] \in Connection /\ SameFd([c EXCEPT !.out = out], c)
         /\ [c EXCEPT !.in = in, !.out = out] \in Connection
         /\ SameFd([c EXCEPT !.in = in, !.out = out], c)
         /\ [c EXCEPT !.up = TRUE] \in Connection /\ SameFd([c EXCEPT !.up = TRUE], c)
  BY DEF Connection, SameFd

LEMMA PiecesAreTyped ==
  ASSUME NEW m \in Message
  PROVE  \A p \in {"first", "second", "beyond", "length", "body"} : [msg |-> m, part |-> p] \in Piece
  BY DEF Piece

LEMMA QueryIsMessage ==
  ASSUME TypeOK, NEW tc \in BOOLEAN
  PROVE  /\ Msg(remote, qid, query, tc) \in Message
         /\ \A m \in asked : Msg(m.host, m.qid, m.q, tc) \in Message
         /\ Runt \in Message /\ Garbage \in Message
  BY DEF TypeOK, Msg, Message, Query, Runt, Garbage

-----------------------------------------------------------------------------
(* Safe                                                                     *)

LEMMA InitSafe == Init => Safe
  BY SocketAssumption DEF SocketAssumption, Init, Safe, TypeOK, EachFdIsClosedOnce, Submitted,
     Connected, Waits, UdpStates, TcpStates, NoTcp

(* The cases of dns_so_check() in which no connection is opened or moves.   *)
LEMMA CaseIsSafe ==
  ASSUME Safe, UdpInit \/ UdpConnect \/ UdpSend \/ UdpNothing \/ UdpReceive \/ UdpDone
               \/ TcpKeep \/ TcpConnect \/ TcpNothing \/ TcpDone
  PROVE  Safe'
<1>. USE DEF Safe, TypeOK, EachFdIsClosedOnce, Submitted, Connected, Waits, UdpStates, TcpStates,
             NoTcp, In, Goes, Returns, Again, Errs, ids, net, history
<1>1. CASE UdpInit
  BY <1>1 DEF UdpInit
<1>2. CASE UdpConnect
  BY <1>2 DEF UdpConnect
<1>3. CASE UdpSend
  BY <1>3 DEF UdpSend, Asks, Query
<1>4. CASE UdpNothing
  BY <1>4 DEF UdpNothing
<1>5. CASE UdpDone
  BY <1>5 DEF UdpDone
<1>6. CASE TcpKeep
  BY <1>6 DEF TcpKeep, Keep
<1>7. CASE TcpConnect
  BY <1>7 DEF TcpConnect
<1>8. CASE TcpNothing
  BY <1>8 DEF TcpNothing
<1>9. CASE TcpDone
  BY <1>9 DEF TcpDone, PutAside
<1>10. CASE UdpReceive
  <2>1. Head(udp) \in Message /\ Tail(udp) \in Seq(Message)
    BY <1>10, QueueHead DEF UdpReceive
  <2>. QED
    BY <1>10, <2>1 DEF UdpReceive
<1>. QED
  BY <1>1, <1>2, <1>3, <1>4, <1>5, <1>6, <1>7, <1>8, <1>9, <1>10

(* A socket is opened, the one before is put aside.                         *)
LEMMA TcpInitIsSafe == ASSUME Safe, TcpInit PROVE Safe'
<1>. USE DEF Safe, TypeOK, EachFdIsClosedOnce, Submitted, Connected, Waits, UdpStates, TcpStates,
             NoTcp, In, Goes, Returns, Errs, ids, net, history
<1>. DEFINE new == [host |-> remote, fd |-> "open", up |-> FALSE, in |-> <<>>, out |-> <<>>]
<1>1. old' \subseteq DOMAIN tcps /\ tcp \notin DOMAIN tcps \ old'
  BY DEF TcpInit, PutAside
<1>2. CASE tcps' = Append(tcps, new)
  <2>1. new \in Connection
    BY DEF TcpInit, Connection
  <2>2. /\ tcps' \in Seq(Connection) /\ Len(tcps') = Len(tcps) + 1
        /\ tcps'[Len(tcps) + 1] = new
        /\ \A n \in DOMAIN tcps : n \in DOMAIN tcps' /\ tcps'[n] = tcps[n]
        /\ DOMAIN tcps' = DOMAIN tcps \cup {Len(tcps) + 1} /\ Len(tcps) + 1 \notin DOMAIN tcps
    BY <1>2, <2>1, QueueEnd
  <2>3. tcp' = Len(tcps) + 1 /\ state' = "TCP_CONN" /\ UNCHANGED <<pc, result>>
    <3>1. tcps' # tcps
      BY <2>2
    <3>. QED
      BY <3>1 DEF TcpInit
  <2>4. tcp' # NoTcp /\ tcps'[tcp'].host = remote
    BY <2>2, <2>3
  <2>5. EachFdIsClosedOnce'
    <3>1. tcp' \notin old'
      BY <1>1, <2>2, <2>3
    <3>2. \A n \in DOMAIN tcps : tcps[n].fd = "open" <=> n \in old'
      BY DEF TcpInit, PutAside
    <3>3. \A n \in DOMAIN tcps' : tcps'[n].fd = "open" <=> n = tcp' \/ n \in old'
      BY <1>1, <2>2, <2>3, <3>2
    <3>. QED
      BY <3>1, <3>3
  <2>6. TypeOK'
    BY <1>1, <2>2, <2>3 DEF TcpInit
  <2>. QED
    BY <2>3, <2>4, <2>5, <2>6 DEF TcpInit
<1>3. CASE UNCHANGED tcps /\ tcp' = NoTcp
  BY <1>1, <1>3 DEF TcpInit, PutAside
<1>. QED
  BY <1>2, <1>3 DEF TcpInit

(* A connection that moves keeps its descriptor and its host.               *)
LEMMA SafeWhenOneMoves ==
  ASSUME Safe, NEW n \in DOMAIN tcps, NEW c \in Connection, SameFd(c, tcps[n]),
         tcps' = [tcps EXCEPT ![n] = c]
  PROVE  /\ tcps' \in Seq(Connection) /\ DOMAIN tcps' = DOMAIN tcps
         /\ \A m \in DOMAIN tcps : SameFd(tcps'[m], tcps[m])
         /\ tcp \notin old /\ \A m \in DOMAIN tcps' : tcps'[m].fd = "open" <=> m = tcp \/ m \in old
         /\ tcp \in DOMAIN tcps => tcps'[tcp].host = tcps[tcp].host
<1>1. /\ tcps' \in Seq(Connection) /\ DOMAIN tcps' = DOMAIN tcps
      /\ \A m \in DOMAIN tcps : SameFd(tcps'[m], tcps[m])
  BY OneMoves DEF Safe
<1>. QED
  BY <1>1 DEF Safe, TypeOK, EachFdIsClosedOnce, SameFd, NoTcp

(* What TCP sends: the last pieces of the query, in order.                  *)
SentPiece(n) == [msg |-> Msg(remote, qid, query, FALSE),
                 part |-> IF qout # 0 THEN "beyond" ELSE IF n = 1 THEN "first" ELSE "second"]

LEMMA TcpSends ==
  ASSUME Safe, TcpSend
  PROVE  \E last \in qout..2 :
           LET sent == [n \in 1..(last - qout) |-> SentPiece(n)]
           IN  /\ sent \in Seq(Piece) /\ tcp \in DOMAIN tcps
               /\ tcps' = [tcps EXCEPT ![tcp] = [tcps[tcp] EXCEPT !.in = tcps[tcp].in \o sent]]
               /\ [tcps[tcp] EXCEPT !.in = tcps[tcp].in \o sent] \in Connection
               /\ SameFd([tcps[tcp] EXCEPT !.in = tcps[tcp].in \o sent], tcps[tcp])
               /\ tcps[tcp].in \o sent \in Seq(Piece)
               /\ qout' = last
               /\ IF last = 2 THEN Goes("TCP_RECV") ELSE Again \/ Errs
               /\ put' = IF qout = 0 /\ last = 2 THEN [put EXCEPT ![query] = @ \cup {remote}] ELSE put
<1>1. PICK last \in qout..2 :
           /\ tcps' = [tcps EXCEPT ![tcp].in = @ \o [n \in 1..(last - qout) |-> SentPiece(n)]]
           /\ qout' = last
           /\ IF last = 2 THEN Goes("TCP_RECV") ELSE Again \/ Errs
           /\ put' = IF qout = 0 /\ last = 2 THEN [put EXCEPT ![query] = @ \cup {remote}] ELSE put
  BY DEF TcpSend, SentPiece
<1>. DEFINE sent == [n \in 1..(last - qout) |-> SentPiece(n)]
<1>2. /\ qout \in 0..2 /\ tcps \in Seq(Connection) /\ tcp \in DOMAIN tcps
      /\ tcps[tcp] \in Connection
  BY DEF Safe, TypeOK, Connected, TcpSend, In, NoTcp
<1>3. tcps[tcp].in \in Seq(Piece) /\ tcps[tcp].out \in Seq(Piece)
  BY <1>2 DEF Connection
<1>4. sent \in Seq(Piece)
  <2>1. Msg(remote, qid, query, FALSE) \in Message
    BY QueryIsMessage DEF Safe
  <2>2. \A n \in 1..(last - qout) : SentPiece(n) \in Piece
    BY <2>1, PiecesAreTyped DEF SentPiece
  <2>3. last - qout \in Nat
    BY <1>2
  <2>. QED
    BY <2>2, <2>3
<1>5. tcps[tcp].in \o sent \in Seq(Piece)
  BY <1>3, <1>4, ConcatProperties
<1>6. /\ [tcps[tcp] EXCEPT !.in = tcps[tcp].in \o sent] \in Connection
      /\ SameFd([tcps[tcp] EXCEPT !.in = tcps[tcp].in \o sent], tcps[tcp])
  BY <1>2, <1>3, <1>5, OtherQueues
<1>7. tcps' = [tcps EXCEPT ![tcp] = [tcps[tcp] EXCEPT !.in = tcps[tcp].in \o sent]]
  BY <1>1
<1>. QED
  BY <1>1, <1>2, <1>4, <1>5, <1>6, <1>7

LEMMA TcpSendIsSafe == ASSUME Safe, TcpSend PROVE Safe'
<1>. USE DEF UdpStates, TcpStates, NoTcp, In, Goes, Returns, Again, Errs, ids, net, history
<1>1. PICK last \in qout..2, c \in Connection :
        /\ tcp \in DOMAIN tcps /\ tcps' = [tcps EXCEPT ![tcp] = c] /\ SameFd(c, tcps[tcp])
        /\ qout' = last
        /\ IF last = 2 THEN Goes("TCP_RECV") ELSE Again \/ Errs
        /\ put' = IF qout = 0 /\ last = 2 THEN [put EXCEPT ![query] = @ \cup {remote}] ELSE put
  BY TcpSends
<1>2. /\ tcps' \in Seq(Connection) /\ DOMAIN tcps' = DOMAIN tcps
      /\ tcp \notin old /\ \A m \in DOMAIN tcps' : tcps'[m].fd = "open" <=> m = tcp \/ m \in old
      /\ tcps'[tcp].host = tcps[tcp].host
  BY <1>1, SafeWhenOneMoves
<1>3. query \in Questions /\ remote \in Hosts /\ qid \in Qids /\ qout \in 0..2
  BY DEF Safe, Submitted, TypeOK, TcpSend
<1>4. put' \in [Questions -> SUBSET Hosts] /\ qout' \in 0..2
  BY <1>1, <1>3 DEF Safe, TypeOK
<1>5. TypeOK'
  BY <1>1, <1>2, <1>4 DEF Safe, TypeOK, TcpSend
<1>6. EachFdIsClosedOnce'
  BY <1>2 DEF TcpSend, EachFdIsClosedOnce
<1>. QED
  BY <1>1, <1>2, <1>3, <1>5, <1>6 DEF Safe, Submitted, Connected, Waits, TcpSend

(* What TCP receives.                                                       *)
LEMMA TcpReceives ==
  ASSUME Safe, TcpReceive
  PROVE  LET out == tcps[tcp].out
         IN  /\ out \in Seq(Piece) /\ tcp \in DOMAIN tcps /\ out # <<>>
             /\ tcps' = [tcps EXCEPT ![tcp] = [tcps[tcp] EXCEPT !.out = Tail(out)]]
             /\ [tcps[tcp] EXCEPT !.out = Tail(out)] \in Connection
             /\ SameFd([tcps[tcp] EXCEPT !.out = Tail(out)], tcps[tcp])
             /\ Head(out).msg \in Message
             /\ answer' \in {Head(out).msg, Garbage}
<1>2. /\ tcps \in Seq(Connection) /\ tcp \in DOMAIN tcps /\ tcps[tcp] \in Connection
  BY DEF Safe, TypeOK, Connected, TcpReceive, In, NoTcp
<1>3. tcps[tcp].in \in Seq(Piece) /\ tcps[tcp].out \in Seq(Piece) /\ tcps[tcp].out # <<>>
  BY <1>2 DEF Connection, TcpReceive
<1>4. Head(tcps[tcp].out) \in Piece /\ Tail(tcps[tcp].out) \in Seq(Piece)
  BY <1>3, QueueHead
<1>5. Head(tcps[tcp].out).msg \in Message
  BY <1>4 DEF Piece
<1>6. /\ [tcps[tcp] EXCEPT !.out = Tail(tcps[tcp].out)] \in Connection
      /\ SameFd([tcps[tcp] EXCEPT !.out = Tail(tcps[tcp].out)], tcps[tcp])
  BY <1>2, <1>3, <1>4, OtherQueues
<1>7. tcps' = [tcps EXCEPT ![tcp] = [tcps[tcp] EXCEPT !.out = Tail(tcps[tcp].out)]]
  BY DEF TcpReceive
<1>8. answer' \in {Head(tcps[tcp].out).msg, Garbage}
  BY DEF TcpReceive
<1>. QED
  BY <1>2, <1>3, <1>5, <1>6, <1>7, <1>8

LEMMA TcpReceiveIsSafe == ASSUME Safe, TcpReceive PROVE Safe'
<1>. USE DEF UdpStates, TcpStates, NoTcp, In, Goes, Returns, Again, Errs, ids, net, history
<1>1. PICK c \in Connection :
        /\ tcp \in DOMAIN tcps /\ tcps' = [tcps EXCEPT ![tcp] = c] /\ SameFd(c, tcps[tcp])
        /\ answer' \in Message \cup {Garbage}
  BY TcpReceives
<1>2. /\ tcps' \in Seq(Connection) /\ DOMAIN tcps' = DOMAIN tcps
      /\ tcp \notin old /\ \A m \in DOMAIN tcps' : tcps'[m].fd = "open" <=> m = tcp \/ m \in old
      /\ tcps'[tcp].host = tcps[tcp].host
  BY <1>1, SafeWhenOneMoves
<1>3. answer' \in Message
  BY <1>1, QueryIsMessage DEF Safe
<1>5. TypeOK'
  BY <1>2, <1>3 DEF Safe, TypeOK, TcpReceive
<1>6. EachFdIsClosedOnce'
  BY <1>2 DEF TcpReceive, EachFdIsClosedOnce
<1>. QED
  BY <1>1, <1>2, <1>5, <1>6 DEF Safe, Submitted, Connected, Waits, TcpReceive

LEMMA ChecksAreSafe == ASSUME Safe, SoCheck PROVE Safe'
  BY CaseIsSafe, TcpInitIsSafe, TcpSendIsSafe, TcpReceiveIsSafe DEF SoCheck

(* Descriptors that are closed are taken out of old, or out of tcp.         *)
LEMMA FdsClose ==
  ASSUME Safe, NEW S \in SUBSET (DOMAIN tcps), Fds(S, "closed")
  PROVE  /\ tcps' \in Seq(Connection) /\ DOMAIN tcps' = DOMAIN tcps
         /\ \A n \in DOMAIN tcps : tcps'[n].fd = "open" <=> n \notin S /\ tcps[n].fd = "open"
         /\ \A n \in DOMAIN tcps : tcps'[n].host = tcps[n].host
<1>1. tcps \in Seq(Connection) /\ DOMAIN tcps = 1..Len(tcps) /\ Len(tcps) \in Nat
  BY DEF Safe, TypeOK
<1>. DEFINE new(n) == IF n \in S THEN [tcps[n] EXCEPT !.fd = "closed"] ELSE tcps[n]
<1>2. \A n \in 1..Len(tcps) :
        /\ new(n) \in Connection /\ new(n).host = tcps[n].host
        /\ new(n).fd = "open" <=> n \notin S /\ tcps[n].fd = "open"
  <2>1. ASSUME NEW c \in Connection
        PROVE  /\ [c EXCEPT !.fd = "closed"] \in Connection
               /\ [c EXCEPT !.fd = "closed"].host = c.host
               /\ [c EXCEPT !.fd = "closed"].fd = "closed"
    BY DEF Connection
  <2>2. \A n \in 1..Len(tcps) : tcps[n] \in Connection
    BY <1>1
  <2>. QED
    BY <2>1, <2>2
<1>3. tcps' = [n \in 1..Len(tcps) |-> new(n)]
  BY <1>1 DEF Fds
<1>. HIDE DEF new
<1>. QED
  BY <1>1, <1>2, <1>3

LEMMA CallsAreSafe ==
  ASSUME Safe,
         \/ \E q \in Questions, h \in Hosts : Submit(q, h)
         \/ \E q \in Questions : Remake(q)
         \/ Check \/ Fetch \/ Clear \/ Close
  PROVE  Safe'
<1>. USE DEF UdpStates, TcpStates, NoTcp, so, ids, net, history
<1>1. ASSUME NEW q \in Questions, NEW h \in Hosts, Submit(q, h) PROVE Safe'
  <2>1. qidOf \in [Questions -> Qids \cup {0}] /\ qids \subseteq Qids
    BY DEF Safe, TypeOK
  <2>2. qidOf' \in [Questions -> Qids \cup {0}] /\ qidOf'[q] \in Qids /\ qids' \subseteq Qids
    BY <1>1, <2>1 DEF Submit, Remaining
  <2>3. submits' \in 0..MaxSubmits
    BY <1>1, SocketAssumption DEF Submit, Safe, TypeOK, SocketAssumption
  <2>. QED
    BY <1>1, <2>2, <2>3 DEF Submit, Safe, TypeOK, EachFdIsClosedOnce, Submitted, Connected, Waits
<1>2. ASSUME NEW q \in Questions, Remake(q) PROVE Safe'
  BY <1>2 DEF Remake, Safe, TypeOK, EachFdIsClosedOnce, Submitted, Connected, Waits
<1>3. CASE Check
  BY <1>3 DEF Check, Safe, TypeOK, EachFdIsClosedOnce, Submitted, Connected, Waits
<1>4. CASE Fetch
  BY <1>4 DEF Fetch, Safe, TypeOK, EachFdIsClosedOnce, Submitted, Connected, Waits
<1>5. CASE Clear
  <2>1. old \subseteq DOMAIN tcps
    BY DEF Safe, TypeOK
  <2>2. /\ tcps' \in Seq(Connection) /\ DOMAIN tcps' = DOMAIN tcps
        /\ \A n \in DOMAIN tcps : tcps'[n].fd = "open" <=> n \notin old /\ tcps[n].fd = "open"
        /\ \A n \in DOMAIN tcps : tcps'[n].host = tcps[n].host
    BY <1>5, <2>1, FdsClose DEF Clear
  <2>3. EachFdIsClosedOnce'
    BY <1>5, <2>2 DEF Clear, Safe, EachFdIsClosedOnce
  <2>. QED
    BY <1>5, <2>2, <2>3 DEF Clear, Safe, TypeOK, Submitted, Connected, Waits
<1>6. CASE Close
  <2>1. PutAside \subseteq DOMAIN tcps
    BY DEF Safe, TypeOK, PutAside
  <2>2. /\ tcps' \in Seq(Connection) /\ DOMAIN tcps' = DOMAIN tcps
        /\ \A n \in DOMAIN tcps : tcps'[n].fd = "open" <=> n \notin PutAside /\ tcps[n].fd = "open"
    BY <1>6, <2>1, FdsClose DEF Close
  <2>3. \A n \in DOMAIN tcps : tcps[n].fd = "open" => n \in PutAside
    BY DEF Safe, EachFdIsClosedOnce, TypeOK, PutAside
  <2>4. DOMAIN tcps = 1..Len(tcps) /\ Len(tcps) \in Nat
    BY DEF Safe, TypeOK
  <2>5. EachFdIsClosedOnce'
    BY <1>6, <2>2, <2>3, <2>4 DEF Close, EachFdIsClosedOnce
  <2>. QED
    BY <1>6, <2>2, <2>5 DEF Close, Safe, TypeOK, Submitted, Connected, Waits
<1>. QED
  BY <1>1, <1>2, <1>3, <1>4, <1>5, <1>6

(* A step of the network on one connection.                                 *)
LEMMA NetworkMoves ==
  ASSUME Safe, NEW n \in DOMAIN tcps, NEW c \in Connection, SameFd(c, tcps[n]), TcpMoves(n, c)
  PROVE  Safe'
<1>. USE DEF TcpMoves, so, ids, history, NoTcp
<1>1. /\ tcps' \in Seq(Connection) /\ DOMAIN tcps' = DOMAIN tcps
      /\ tcp \notin old /\ \A m \in DOMAIN tcps' : tcps'[m].fd = "open" <=> m = tcp \/ m \in old
      /\ tcp \in DOMAIN tcps => tcps'[tcp].host = tcps[tcp].host
  BY SafeWhenOneMoves
<1>2. TypeOK' /\ EachFdIsClosedOnce'
  BY <1>1 DEF Safe, TypeOK, EachFdIsClosedOnce
<1>3. Connected'
  BY <1>1 DEF Safe, Connected, TypeOK
<1>. QED
  BY <1>2, <1>3 DEF Safe, Submitted, Waits

(* What a host sends over TCP is made of what it has received.              *)
LEMMA TcpAnswers ==
  ASSUME Safe, NEW n \in DOMAIN tcps, TcpAnswer(n)
  PROVE  LET in == tcps[n].in
             out == tcps[n].out
             rest == SubSeq(in, 3, Len(in))
             length == [msg |-> in[1].msg, part |-> "length"]
             body == [msg |-> in[1].msg, part |-> "body"]
         IN  /\ in \in Seq(Piece) /\ out \in Seq(Piece) /\ Len(in) >= 2
             /\ in[2] = [msg |-> in[1].msg, part |-> "second"]
             /\ rest \in Seq(Piece) /\ \A k \in DOMAIN rest : k + 2 \in DOMAIN in /\ rest[k] = in[k + 2]
             /\ length \in Piece /\ body \in Piece
             /\ \/ TcpMoves(n, [tcps[n] EXCEPT !.in = rest, !.out = out \o <<length, body>>])
                \/ TcpMoves(n, [tcps[n] EXCEPT !.in = <<body>> \o rest, !.out = Append(out, length)])
<1>1. tcps[n] \in Connection
  BY DEF Safe, TypeOK
<1>2. /\ tcps[n].in \in Seq(Piece) /\ tcps[n].out \in Seq(Piece) /\ Len(tcps[n].in) >= 2
      /\ tcps[n].in[2] = [msg |-> tcps[n].in[1].msg, part |-> "second"]
  BY <1>1 DEF Connection, TcpAnswer
<1>3. tcps[n].in[1].msg \in Message
  BY <1>2 DEF Piece
<1>4. \A p \in {"length", "body"} : [msg |-> tcps[n].in[1].msg, part |-> p] \in Piece
  BY <1>3, PiecesAreTyped
<1>5. ASSUME NEW in \in Seq(Piece), Len(in) >= 2
      PROVE  /\ SubSeq(in, 3, Len(in)) \in Seq(Piece)
             /\ \A k \in DOMAIN SubSeq(in, 3, Len(in)) :
                  k + 2 \in DOMAIN in /\ SubSeq(in, 3, Len(in))[k] = in[k + 2]
  <2>1. CASE Len(in) = 2
    BY <2>1
  <2>2. CASE Len(in) > 2
    BY <1>5, <2>2, SubSeqProperties
  <2>. QED
    BY <1>5, <2>1, <2>2
<1>. QED
  BY <1>2, <1>4, <1>5 DEF TcpAnswer

LEMMA TcpRests ==
  ASSUME Safe, NEW n \in DOMAIN tcps, TcpRest(n)
  PROVE  /\ tcps[n].in \in Seq(Piece) /\ tcps[n].out \in Seq(Piece) /\ tcps[n].in # <<>>
         /\ Head(tcps[n].in).part = "body"
         /\ TcpMoves(n, [tcps[n] EXCEPT !.in = Tail(tcps[n].in),
                                        !.out = Append(tcps[n].out, Head(tcps[n].in))])
<1>1. tcps[n] \in Connection
  BY DEF Safe, TypeOK
<1>. QED
  BY <1>1 DEF Connection, TcpRest

LEMMA NetworkIsSafe == ASSUME Safe, Network PROVE Safe'
<1>1. ASSUME NEW d \in Message, Arrives(d) PROVE Safe'
  <2>1. udp' \in Seq(Message) /\ arrivals' \in 0..MaxArrivals
    BY <1>1, QueueEnd, SocketAssumption DEF Safe, TypeOK, Arrives, SocketAssumption
  <2>. QED
    BY <1>1, <2>1 DEF Arrives, Safe, TypeOK, EachFdIsClosedOnce, Submitted, Connected, Waits, so, ids, history
<1>2. ASSUME UdpAnswer PROVE Safe'
  BY <1>1, <1>2, QueryIsMessage DEF UdpAnswer, Safe
<1>3. ASSUME NEW n \in DOMAIN tcps PROVE tcps[n] \in Connection
  BY <1>3 DEF Safe, TypeOK
<1>4. ASSUME NEW n \in DOMAIN tcps, TcpUp(n) PROVE Safe'
  <2>1. tcps[n] \in Connection /\ <<>> \in Seq(Piece)
    BY <1>3
  <2>2. [tcps[n] EXCEPT !.up = TRUE] \in Connection /\ SameFd([tcps[n] EXCEPT !.up = TRUE], tcps[n])
    BY <2>1, OtherQueues
  <2>. QED
    BY <1>4, <2>2, NetworkMoves DEF TcpUp
<1>5. ASSUME NEW n \in DOMAIN tcps, NEW in \in Seq(Piece), NEW out \in Seq(Piece),
             TcpMoves(n, [tcps[n] EXCEPT !.in = in, !.out = out])
      PROVE  Safe'
  <2>1. /\ [tcps[n] EXCEPT !.in = in, !.out = out] \in Connection
        /\ SameFd([tcps[n] EXCEPT !.in = in, !.out = out], tcps[n])
    BY <1>3, OtherQueues
  <2>. QED
    BY <1>5, <2>1, NetworkMoves
<1>6. ASSUME NEW n \in DOMAIN tcps, TcpAnswer(n) PROVE Safe'
  <2>. DEFINE in == tcps[n].in
              out == tcps[n].out
              rest == SubSeq(in, 3, Len(in))
              length == [msg |-> in[1].msg, part |-> "length"]
              body == [msg |-> in[1].msg, part |-> "body"]
  <2>1. /\ out \in Seq(Piece) /\ rest \in Seq(Piece) /\ length \in Piece /\ body \in Piece
        /\ \/ TcpMoves(n, [tcps[n] EXCEPT !.in = rest, !.out = out \o <<length, body>>])
           \/ TcpMoves(n, [tcps[n] EXCEPT !.in = <<body>> \o rest, !.out = Append(out, length)])
    BY <1>6, TcpAnswers
  <2>. HIDE DEF in, out, rest, length, body
  <2>2. <<length, body>> \in Seq(Piece) /\ <<body>> \in Seq(Piece)
    BY <2>1
  <2>3. /\ out \o <<length, body>> \in Seq(Piece) /\ <<body>> \o rest \in Seq(Piece)
        /\ Append(out, length) \in Seq(Piece)
    BY <2>1, <2>2, ConcatProperties, AppendProperties
  <2>. QED
    BY <1>5, <2>1, <2>3
<1>7. ASSUME NEW n \in DOMAIN tcps, TcpRest(n) PROVE Safe'
  <2>1. /\ tcps[n].in \in Seq(Piece) /\ tcps[n].out \in Seq(Piece) /\ tcps[n].in # <<>>
        /\ TcpMoves(n, [tcps[n] EXCEPT !.in = Tail(tcps[n].in),
                                       !.out = Append(tcps[n].out, Head(tcps[n].in))])
    BY <1>7, TcpRests
  <2>2. Tail(tcps[n].in) \in Seq(Piece) /\ Head(tcps[n].in) \in Piece
    BY <2>1, QueueHead
  <2>3. Append(tcps[n].out, Head(tcps[n].in)) \in Seq(Piece)
    BY <2>1, <2>2, AppendProperties
  <2>. QED
    BY <1>5, <2>1, <2>2, <2>3
<1>. QED
  BY <1>2, <1>4, <1>6, <1>7 DEF Network

LEMMA SafeIsInductive == Safe /\ [Next]_vars => Safe'
<1>1. ASSUME Safe, UNCHANGED vars PROVE Safe'
  BY <1>1 DEF vars, so, ids, net, history, Safe, TypeOK, EachFdIsClosedOnce, Submitted, Connected, Waits
<1>. QED
  BY <1>1, ChecksAreSafe, CallsAreSafe, NetworkIsSafe DEF Next

LEMMA AlwaysSafe == Spec => []Safe
  BY InitSafe, SafeIsInductive, PTL DEF Spec

(* The types of the socket and of what lies around it.                      *)
THEOREM TypeCorrect == Spec => []TypeOK
<1>1. Safe => TypeOK
  BY DEF Safe
<1>. QED
  BY <1>1, AlwaysSafe, PTL

(* dns_so_closefd() puts each descriptor aside once and dns_so_close()      *)
(* leaves none: for any number of connections.                              *)
THEOREM FdsAreClosedOnce == Spec => []EachFdIsClosedOnce
<1>1. Safe => EachFdIsClosedOnce
  BY DEF Safe
<1>. QED
  BY <1>1, AlwaysSafe, PTL

(* Where dns_so_check() says EAGAIN, dns_so_pollfd() and dns_so_events()    *)
(* give a descriptor that is open and connected to the host of the query,   *)
(* and an event: the one for who waits for it is the right one.             *)
THEOREM AgainIsAwaited == Spec => []AgainCanBeAwaited
<1>1. Safe => AgainCanBeAwaited
  <2>. SUFFICES ASSUME Safe, result = "again", pc = "idle"
                PROVE  /\ PollFd # "none" /\ Events # "none"
                       /\ PollFd = "tcp" => tcps[tcp].fd = "open" /\ tcps[tcp].host = remote
                       /\ PollFd = "udp" => peer = remote
    BY DEF AgainCanBeAwaited
  <2>1. state \in {"UDP_SEND", "UDP_RECV", "TCP_CONN", "TCP_SEND", "TCP_RECV"}
    BY DEF Safe, Waits
  <2>2. CASE state \in {"UDP_SEND", "UDP_RECV"}
    BY <2>2 DEF Safe, Connected, PollFd, Events
  <2>3. CASE state \in {"TCP_CONN", "TCP_SEND", "TCP_RECV"}
    <3>1. tcp # NoTcp /\ tcp \in DOMAIN tcps /\ tcps[tcp].host = remote
      BY <2>3 DEF Safe, Connected, TypeOK
    <3>2. tcps[tcp].fd = "open"
      BY <3>1 DEF Safe, EachFdIsClosedOnce
    <3>3. PollFd = "tcp" /\ Events \in {"in", "out"}
      BY <2>3, <3>1 DEF PollFd, Events
    <3>. QED
      BY <3>1, <3>2, <3>3
  <2>. QED
    BY <2>1, <2>2, <2>3
<1>. QED
  BY <1>1, AlwaysSafe, PTL

-----------------------------------------------------------------------------
(* Honest                                                                   *)

(* What was known of a message stays known.                                 *)
KnowsMore == \A m : Given(m) => Given(m)' /\ (Vouched(m) => Vouched(m)')

LEMMA KnownStays ==
  ASSUME UNCHANGED ids, \A q \in Questions : put[q] \subseteq put'[q]
  PROVE  KnowsMore
  BY DEF ids, KnowsMore, Given, Vouched

LEMMA ConnectionStaysKnown ==
  ASSUME KnowsMore, NEW c, KnownConnection(c)
  PROVE  KnownConnection(c)'
  BY DEF KnowsMore, KnownConnection, KnownPiece

LEMMA StaysKnown ==
  ASSUME KnowsMore, Honest
  PROVE  /\ UNCHANGED asked => AskedKnown'
         /\ UNCHANGED udp => UdpKnown'
         /\ UNCHANGED answer => AnswerKnown'
         /\ UNCHANGED tcps => TcpsKnown'
<1>1. UNCHANGED asked => AskedKnown'
  BY DEF KnowsMore, Honest, AskedKnown
<1>2. UNCHANGED udp => UdpKnown'
  BY DEF KnowsMore, Honest, UdpKnown
<1>3. UNCHANGED answer => AnswerKnown'
  BY DEF KnowsMore, Honest, AnswerKnown
<1>4. UNCHANGED tcps => TcpsKnown'
  <2>. SUFFICES ASSUME UNCHANGED tcps, NEW n \in DOMAIN tcps PROVE KnownConnection(tcps[n])'
    BY DEF TcpsKnown
  <2>1. PICK c : c = tcps[n] /\ c = tcps'[n]
    OBVIOUS
  <2>2. KnownConnection(c)'
    BY <2>1, ConnectionStaysKnown DEF Honest, TcpsKnown
  <2>. QED
    BY <2>1, <2>2 DEF KnownConnection
<1>. QED
  BY <1>1, <1>2, <1>3, <1>4

(* A connection with known queues moves.                                    *)
LEMMA KnownMoves ==
  ASSUME KnowsMore, Honest, TypeOK, NEW n \in DOMAIN tcps, NEW c,
         tcps' = [tcps EXCEPT ![n] = c], KnownConnection(c)'
  PROVE  TcpsKnown'
<1>. SUFFICES ASSUME NEW m \in DOMAIN tcps PROVE KnownConnection(tcps[m])'
  BY DEF TcpsKnown
<1>1. PICK d : d = tcps'[m] /\ (m = n => d = c) /\ (m # n => d = tcps[m])
  OBVIOUS
<1>2. KnownConnection(d)'
  BY <1>1, ConnectionStaysKnown DEF Honest, TcpsKnown
<1>. QED
  BY <1>1, <1>2 DEF KnownConnection

LEMMA InitHonest == Init => Honest
<1>. SUFFICES ASSUME Init PROVE Honest
  OBVIOUS
<1>1. AskedKnown /\ UdpKnown /\ AnswerKnown /\ TcpsKnown
  BY DEF Init, AskedKnown, UdpKnown, AnswerKnown, TcpsKnown
<1>2. HeadersGiven /\ OpenQuery /\ Outcome
  BY SocketAssumption DEF Init, HeadersGiven, OpenQuery, Outcome, SocketAssumption
<1>3. Enough
  BY SocketAssumption, FS_CardinalityType DEF Init, Enough, SocketAssumption
<1>. QED
  BY <1>1, <1>2, <1>3 DEF Honest

(* The cases of dns_so_check() in which nothing is sent or received.        *)
LEMMA QuietCaseIsHonest ==
  ASSUME Safe, Honest, UdpInit \/ UdpConnect \/ UdpNothing \/ UdpDone \/ TcpKeep
                       \/ TcpConnect \/ TcpNothing \/ TcpDone
  PROVE  Honest'
<1>. USE DEF In, Goes, Returns, Again, Errs, ids, net, history
<1>1. UNCHANGED <<ids, put, asked, udp, answer, tcps, query, qid, fetched, submits>>
  BY DEF UdpInit, UdpConnect, UdpNothing, UdpDone, TcpKeep, TcpConnect, TcpNothing, TcpDone
<1>2. AskedKnown' /\ UdpKnown' /\ AnswerKnown' /\ TcpsKnown'
  BY <1>1, KnownStays, StaysKnown
<1>3. HeadersGiven' /\ Enough'
  BY <1>1 DEF Honest, HeadersGiven, Enough
<1>4. pc = "check" /\ state # "none" /\ result \in {"none", "again"} /\ result # "fetched"
  BY DEF Safe, Submitted, UdpInit, UdpConnect, UdpNothing, UdpDone, TcpKeep, TcpConnect, TcpNothing, TcpDone
<1>5. OpenQuery'
  BY <1>1, <1>4 DEF Honest, OpenQuery
<1>6. Outcome'
  <2>. USE <1>1, <1>4 DEF Honest, Outcome, Verified
  <2>1. CASE UdpInit \/ UdpConnect \/ UdpNothing \/ TcpKeep \/ TcpConnect \/ TcpNothing
    BY <2>1 DEF UdpInit, UdpConnect, UdpNothing, TcpKeep, TcpConnect, TcpNothing
  <2>2. CASE UdpDone
    BY <2>2 DEF UdpDone
  <2>3. CASE TcpDone
    BY <2>3 DEF TcpDone
  <2>. QED
    BY <2>1, <2>2, <2>3
<1>. QED
  BY <1>2, <1>3, <1>5, <1>6 DEF Honest

(* Where dns_so_check() is at work, the query is open.                      *)
LEMMA WorksOn ==
  ASSUME Safe, Honest, pc = "check"
  PROVE  /\ state # "none" /\ query \in Questions /\ remote \in Hosts /\ qid \in Qids
         /\ result \in {"none", "again"}
         /\ qid \notin qids /\ qidOf[query] = qid /\ fetched = Nothing
  BY DEF Safe, Submitted, Honest, OpenQuery

LEMMA UdpSendIsHonest == ASSUME Safe, Honest, UdpSend PROVE Honest'
<1>. USE DEF In, Goes, Returns, Again, Errs, ids, net, history
<1>1. /\ UNCHANGED <<ids, udp, answer, tcps, query, qid, fetched, submits, remote, peer>>
      /\ pc = "check" /\ state = "UDP_SEND" /\ state' \in {"UDP_SEND", "UDP_RECV"}
      /\ result' \in {"again", "error", result}
      /\ Asks(peer) \/ UNCHANGED <<asked, put>>
  BY DEF UdpSend
<1>2. /\ state # "none" /\ query \in Questions /\ remote \in Hosts /\ qid \in Qids
      /\ result \in {"none", "again"}
      /\ qid \notin qids /\ qidOf[query] = qid /\ fetched = Nothing
  BY <1>1, WorksOn
<1>3. put \in [Questions -> SUBSET Hosts]
  BY DEF Safe, TypeOK
<1>4. KnowsMore
  <2>1. \A q \in Questions : put[q] \subseteq put'[q]
    BY <1>1, <1>2, <1>3 DEF Asks
  <2>. QED
    BY <1>1, <2>1, KnownStays
<1>5. UdpKnown' /\ AnswerKnown' /\ TcpsKnown'
  BY <1>1, <1>4, StaysKnown
<1>6. AskedKnown'
  <2>1. CASE UNCHANGED asked
    BY <1>4, <2>1, StaysKnown
  <2>2. CASE Asks(peer)
    <3>. SUFFICES ASSUME NEW m \in asked' PROVE Given(m)' /\ Vouched(m)'
      BY DEF AskedKnown
    <3>1. CASE m \in asked
      BY <1>4, <3>1 DEF KnowsMore, Honest, AskedKnown
    <3>2. CASE m = [host |-> peer, qid |-> qid, q |-> query]
      BY <1>1, <1>2, <1>3, <2>2, <3>2 DEF Asks, Given, Vouched
    <3>. QED
      BY <2>2, <3>1, <3>2 DEF Asks
  <2>. QED
    BY <1>1, <2>1, <2>2
<1>7. HeadersGiven' /\ Enough'
  BY <1>1 DEF Honest, HeadersGiven, Enough
<1>8. OpenQuery' /\ Outcome'
  BY <1>1, <1>2 DEF Honest, OpenQuery, Outcome, Verified
<1>. QED
  BY <1>5, <1>6, <1>7, <1>8 DEF Honest

LEMMA UdpReceiveIsHonest == ASSUME Safe, Honest, UdpReceive PROVE Honest'
<1>. USE DEF In, Goes, ids, net, history
<1>1. /\ UNCHANGED <<ids, asked, tcps, query, qid, fetched, submits, remote, put, result, pc>>
      /\ pc = "check" /\ udp # <<>> /\ answer' = Head(udp) /\ udp' = Tail(udp)
      /\ state' = IF Verified(Head(udp)) THEN "UDP_DONE" ELSE "UDP_RECV"
  BY DEF UdpReceive
<1>2. /\ state # "none" /\ query \in Questions /\ remote \in Hosts /\ qid \in Qids
      /\ result \in {"none", "again"}
      /\ qid \notin qids /\ qidOf[query] = qid /\ fetched = Nothing
  BY <1>1, WorksOn
<1>3. /\ Head(udp) = udp[1] /\ Head(udp) \in Message /\ 1 \in DOMAIN udp
      /\ \A k \in DOMAIN Tail(udp) : k + 1 \in DOMAIN udp /\ Tail(udp)[k] = udp[k + 1]
  BY <1>1, QueueHead DEF Safe, TypeOK
<1>4. KnowsMore
  BY <1>1, KnownStays
<1>5. AskedKnown' /\ TcpsKnown'
  BY <1>1, <1>4, StaysKnown
<1>6. UdpKnown'
  BY <1>1, <1>3, <1>4 DEF KnowsMore, Honest, UdpKnown
<1>7. AnswerKnown'
  BY <1>1, <1>3, <1>4 DEF KnowsMore, Honest, UdpKnown, AnswerKnown
<1>8. HeadersGiven' /\ Enough'
  BY <1>1 DEF Honest, HeadersGiven, Enough
<1>9. answer' # Nothing
  BY <1>1, <1>3, SocketAssumption DEF SocketAssumption
<1>10. OpenQuery' /\ Outcome'
  BY <1>1, <1>2, <1>9 DEF Honest, OpenQuery, Outcome, Verified
<1>. QED
  BY <1>5, <1>6, <1>7, <1>8, <1>10 DEF Honest

LEMMA TcpInitIsHonest == ASSUME Safe, Honest, TcpInit PROVE Honest'
<1>. USE DEF In, Goes, Returns, Errs, ids, net, history
<1>. DEFINE new == [host |-> remote, fd |-> "open", up |-> FALSE, in |-> <<>>, out |-> <<>>]
<1>1. /\ UNCHANGED <<ids, put, asked, udp, answer, query, qid, fetched, submits>>
      /\ pc = "check" /\ state = "TCP_INIT" /\ state' \in {"TCP_INIT", "TCP_CONN"}
      /\ result' \in {"error", result}
      /\ tcps' = Append(tcps, new) \/ UNCHANGED tcps
  BY DEF TcpInit
<1>2. /\ state # "none" /\ result \in {"none", "again"}
      /\ qid \notin qids /\ qidOf[query] = qid /\ fetched = Nothing
  BY <1>1, WorksOn
<1>3. KnowsMore
  BY <1>1, KnownStays
<1>4. AskedKnown' /\ UdpKnown' /\ AnswerKnown'
  BY <1>1, <1>3, StaysKnown
<1>5. TcpsKnown'
  <2>1. CASE UNCHANGED tcps
    BY <1>3, <2>1, StaysKnown
  <2>2. CASE tcps' = Append(tcps, new)
    <3>1. new \in Connection
      BY DEF Connection, Safe, TypeOK
    <3>2. PICK c : c = new
      OBVIOUS
    <3>3. /\ \A n \in DOMAIN tcps : tcps'[n] = tcps[n]
          /\ tcps'[Len(tcps) + 1] = c /\ DOMAIN tcps' = DOMAIN tcps \cup {Len(tcps) + 1}
      BY <2>2, <3>1, <3>2, QueueEnd DEF Safe, TypeOK
    <3>4. KnownConnection(c)'
      BY <3>2 DEF KnownConnection
    <3>. SUFFICES ASSUME NEW n \in DOMAIN tcps' PROVE KnownConnection(tcps[n])'
      BY DEF TcpsKnown
    <3>5. PICK d : d = tcps'[n] /\ (n \in DOMAIN tcps => d = tcps[n]) /\ (n \notin DOMAIN tcps => d = c)
      BY <3>3
    <3>6. KnownConnection(d)'
      BY <1>3, <3>4, <3>5, ConnectionStaysKnown DEF Honest, TcpsKnown
    <3>. QED
      BY <3>5, <3>6 DEF KnownConnection
  <2>. QED
    BY <1>1, <2>1, <2>2
<1>6. HeadersGiven' /\ Enough'
  BY <1>1 DEF Honest, HeadersGiven, Enough
<1>7. OpenQuery' /\ Outcome'
  BY <1>1, <1>2 DEF Honest, OpenQuery, Outcome, Verified
<1>. QED
  BY <1>4, <1>5, <1>6, <1>7 DEF Honest

LEMMA TcpSendIsHonest == ASSUME Safe, Honest, TcpSend PROVE Honest'
<1>. USE DEF In, Goes, Returns, Again, Errs, ids, net, history
<1>1. /\ UNCHANGED <<ids, asked, udp, answer, query, qid, fetched, submits>>
      /\ pc = "check" /\ state = "TCP_SEND"
  BY DEF TcpSend
<1>2. /\ state # "none" /\ query \in Questions /\ remote \in Hosts /\ qid \in Qids
      /\ result \in {"none", "again"}
      /\ qid \notin qids /\ qidOf[query] = qid /\ fetched = Nothing
  BY <1>1, WorksOn
<1>3. put \in [Questions -> SUBSET Hosts] /\ qout \in 0..2
  BY DEF Safe, TypeOK
<1>4. PICK last \in qout..2 :
           LET sent == [n \in 1..(last - qout) |-> SentPiece(n)]
           IN  /\ sent \in Seq(Piece) /\ tcp \in DOMAIN tcps
               /\ tcps' = [tcps EXCEPT ![tcp] = [tcps[tcp] EXCEPT !.in = tcps[tcp].in \o sent]]
               /\ [tcps[tcp] EXCEPT !.in = tcps[tcp].in \o sent] \in Connection
               /\ SameFd([tcps[tcp] EXCEPT !.in = tcps[tcp].in \o sent], tcps[tcp])
               /\ tcps[tcp].in \o sent \in Seq(Piece)
               /\ qout' = last
               /\ IF last = 2 THEN Goes("TCP_RECV") ELSE Again \/ Errs
               /\ put' = IF qout = 0 /\ last = 2 THEN [put EXCEPT ![query] = @ \cup {remote}] ELSE put
  BY TcpSends
<1>5. KnowsMore
  <2>1. \A q \in Questions : put[q] \subseteq put'[q]
    BY <1>2, <1>3, <1>4
  <2>. QED
    BY <1>1, <2>1, KnownStays
<1>6. AskedKnown' /\ UdpKnown' /\ AnswerKnown'
  BY <1>1, <1>5, StaysKnown
<1>7. TcpsKnown'
  <2>. DEFINE sent == [n \in 1..(last - qout) |-> SentPiece(n)]
  <2>1. PICK c : c = [tcps[tcp] EXCEPT !.in = tcps[tcp].in \o sent]
    OBVIOUS
  <2>2. PICK msg : msg = Msg(remote, qid, query, FALSE)
    OBVIOUS
  <2>3. /\ Given(msg)'
        /\ qout = 0 /\ last = 2 => Vouched(msg)'
    BY <1>1, <1>2, <1>3, <1>4, <2>2 DEF Msg, Given, Vouched
  <2>4. ASSUME NEW n \in DOMAIN sent
        PROVE  /\ sent[n].msg = msg
               /\ sent[n].part # "first" /\ sent[n].part # "beyond" => qout = 0 /\ last = 2
    <3>1. n \in 1..(last - qout) /\ sent[n] = SentPiece(n)
      OBVIOUS
    <3>2. /\ SentPiece(n).msg = msg
          /\ SentPiece(n).part \in {"first", "second", "beyond"}
          /\ SentPiece(n).part = "second" => qout = 0 /\ n # 1
      BY <2>2 DEF SentPiece
    <3>3. qout = 0 /\ n # 1 => last = 2
      BY <1>3, <3>1
    <3>. QED
      BY <3>1, <3>2, <3>3
  <2>5. tcps[tcp] \in Connection /\ sent \in Seq(Piece)
    BY <1>4 DEF Safe, TypeOK
  <2>6. tcps[tcp].in \in Seq(Piece) /\ c.in = tcps[tcp].in \o sent /\ c.out = tcps[tcp].out
    BY <2>1, <2>5 DEF Connection
  <2>. HIDE DEF sent
  <2>7. PICK in, s : in = tcps[tcp].in /\ s = sent /\ in \in Seq(Piece) /\ s \in Seq(Piece) /\ c.in = in \o s
    BY <2>5, <2>6
  <2>8. PICK d : d = tcps[tcp]
    OBVIOUS
  <2>9. KnownConnection(d)'
    BY <1>4, <1>5, <2>8, ConnectionStaysKnown DEF Honest, TcpsKnown
  <2>10. ASSUME NEW k \in DOMAIN c.in PROVE KnownPiece(c.in[k])'
    <3>1. CASE k \in DOMAIN in /\ c.in[k] = in[k]
      BY <2>7, <2>8, <2>9, <3>1 DEF KnownConnection, KnownPiece
    <3>2. CASE k - Len(in) \in DOMAIN s /\ c.in[k] = s[k - Len(in)]
      BY <2>3, <2>4, <2>7, <3>2 DEF KnownPiece
    <3>. QED
      BY <2>7, <3>1, <3>2, Concatenation
  <2>11. KnownConnection(c)'
    BY <2>6, <2>8, <2>9, <2>10 DEF KnownConnection
  <2>. QED
    BY <1>4, <1>5, <2>1, <2>11, KnownMoves DEF Safe, sent
<1>8. HeadersGiven' /\ Enough'
  BY <1>1 DEF Honest, HeadersGiven, Enough
<1>9. OpenQuery' /\ Outcome'
  BY <1>1, <1>2, <1>4 DEF Honest, OpenQuery, Outcome, Verified
<1>. QED
  BY <1>6, <1>7, <1>8, <1>9 DEF Honest

LEMMA TcpReceiveIsHonest == ASSUME Safe, Honest, TcpReceive PROVE Honest'
<1>. USE DEF In, Goes, ids, net, history
<1>1. /\ UNCHANGED <<ids, asked, udp, put, query, qid, fetched, submits, result, pc>>
      /\ pc = "check" /\ state = "TCP_RECV" /\ state' \in {"TCP_RECV", "TCP_DONE"}
  BY DEF TcpReceive
<1>2. /\ state # "none" /\ result \in {"none", "again"}
      /\ qid \notin qids /\ qidOf[query] = qid /\ fetched = Nothing
  BY <1>1, WorksOn
<1>3. PICK out, c : /\ out = tcps[tcp].out /\ c = [tcps[tcp] EXCEPT !.out = Tail(out)]
  OBVIOUS
<1>4. /\ out \in Seq(Piece) /\ tcp \in DOMAIN tcps /\ out # <<>>
      /\ tcps' = [tcps EXCEPT ![tcp] = c] /\ c \in Connection
      /\ Head(out).msg \in Message /\ answer' \in {Head(out).msg, Garbage}
  BY <1>3, TcpReceives
<1>5. KnowsMore
  BY <1>1, KnownStays
<1>6. AskedKnown' /\ UdpKnown'
  BY <1>1, <1>5, StaysKnown
<1>7. PICK d : d = tcps[tcp]
  OBVIOUS
<1>8. KnownConnection(d)'
  BY <1>4, <1>5, <1>7, ConnectionStaysKnown DEF Honest, TcpsKnown
<1>9. /\ Head(out) = out[1] /\ 1 \in DOMAIN out
      /\ \A k \in DOMAIN Tail(out) : k + 1 \in DOMAIN out /\ Tail(out)[k] = out[k + 1]
  BY <1>4, QueueHead
<1>10. c.in = d.in /\ c.out = Tail(out) /\ d.out = out
  <2>1. d \in Connection
    BY <1>4, <1>7 DEF Safe, TypeOK
  <2>. QED
    BY <1>3, <1>7, <2>1 DEF Connection
<1>11. TcpsKnown'
  <2>1. KnownConnection(c)'
    BY <1>8, <1>9, <1>10 DEF KnownConnection
  <2>. QED
    BY <1>4, <1>5, <2>1, KnownMoves DEF Safe
<1>12. AnswerKnown' /\ answer' # Nothing
  <2>1. PICK a : a = answer'
    OBVIOUS
  <2>2. CASE a = Head(out).msg
    BY <1>4, <1>8, <1>9, <1>10, <2>1, <2>2, SocketAssumption DEF AnswerKnown, KnownConnection, SocketAssumption
  <2>3. CASE a = Garbage
    <3>1. Garbage \in Message /\ Garbage.qid = 0
      BY QueryIsMessage DEF Safe, Garbage, Msg
    <3>2. Given(a)' /\ Vouched(a)'
      BY <2>3, <3>1, SocketAssumption DEF Given, Vouched, SocketAssumption
    <3>. QED
      BY <2>1, <2>3, <3>1, <3>2, SocketAssumption DEF AnswerKnown, Given, Vouched, SocketAssumption
  <2>. QED
    BY <1>4, <2>1, <2>2, <2>3
<1>13. HeadersGiven' /\ Enough'
  BY <1>1 DEF Honest, HeadersGiven, Enough
<1>14. OpenQuery' /\ Outcome'
  BY <1>1, <1>2, <1>12 DEF Honest, OpenQuery, Outcome, Verified
<1>. QED
  BY <1>6, <1>11, <1>12, <1>13, <1>14 DEF Honest

LEMMA ChecksAreHonest == ASSUME Safe, Honest, SoCheck PROVE Honest'
  BY QuietCaseIsHonest, UdpSendIsHonest, UdpReceiveIsHonest, TcpInitIsHonest, TcpSendIsHonest,
     TcpReceiveIsHonest DEF SoCheck

(* A submit takes an id that nothing under way has.                         *)
LEMMA SubmitIsHonest ==
  ASSUME OneRound, Safe, Honest, NEW q \in Questions, NEW h \in Hosts, Submit(q, h)
  PROVE  Honest'
<1>. USE DEF ids, net, history
<1>1. /\ UNCHANGED <<asked, udp, tcps, put>> /\ answer' = Nothing /\ submits < MaxSubmits
      /\ result' = "none" /\ fetched' = Nothing /\ submits' = submits + 1
      /\ query' = q /\ qid' = qidOf'[q] /\ state' \in {"TCP_INIT", "UDP_INIT"}
  BY DEF Submit
<1>2. qidOf \in [Questions -> Qids \cup {0}] /\ qids \subseteq Qids /\ submits \in 0..MaxSubmits
  BY DEF Safe, TypeOK
<1>3. IsFiniteSet(qids) /\ Cardinality(qids) \in Nat /\ Cardinality(Qids) \in Nat
  BY <1>2, SocketAssumption, FS_Subset, FS_CardinalityType DEF SocketAssumption
<1>4. Remaining = qids
  <2>1. Cardinality(qids) # 0
    BY <1>1, <1>2, <1>3, SocketAssumption DEF OneRound, SocketAssumption, Honest, Enough
  <2>. QED
    BY <2>1, FS_EmptySet DEF Remaining
<1>5. CASE qidOf[q] = 0
  <2>1. PICK id \in qids : qidOf' = [qidOf EXCEPT ![q] = id] /\ qids' = qids \ {id}
    BY <1>4, <1>5 DEF Submit
  <2>2. KnowsMore
    <3>. SUFFICES ASSUME NEW m, Given(m) PROVE Given(m)' /\ (Vouched(m) => Vouched(m)')
      BY DEF KnowsMore
    <3>1. m.qid \in Qids => m.qid # id
      BY <2>1, <1>2 DEF Given
    <3>. QED
      BY <1>1, <1>2, <2>1, <3>1 DEF Given, Vouched
  <2>3. Cardinality(qids') = Cardinality(qids) - 1
    BY <1>3, <2>1, FS_RemoveElement
  <2>4. Enough'
    BY <1>1, <1>2, <1>3, <2>3 DEF Honest, Enough
  <2>5. HeadersGiven' /\ qid' \notin qids' /\ qidOf'[query'] = qid'
    BY <1>1, <1>2, <2>1 DEF Honest, HeadersGiven
  <2>6. AskedKnown' /\ UdpKnown' /\ AnswerKnown' /\ TcpsKnown'
    BY <1>1, <2>2, StaysKnown DEF AnswerKnown
  <2>. QED
    BY <1>1, <2>4, <2>5, <2>6 DEF Honest, OpenQuery, Outcome
<1>6. CASE qidOf[q] # 0
  <2>1. UNCHANGED ids
    BY <1>6 DEF Submit
  <2>2. KnowsMore
    BY <1>1, <2>1, KnownStays
  <2>3. Enough'
    BY <1>1, <1>2, <1>3, <2>1, SocketAssumption DEF Honest, Enough, SocketAssumption
  <2>4. HeadersGiven' /\ qid' \notin qids' /\ qidOf'[query'] = qid'
    BY <1>1, <2>1 DEF Honest, HeadersGiven
  <2>5. AskedKnown' /\ UdpKnown' /\ AnswerKnown' /\ TcpsKnown'
    BY <1>1, <2>2, StaysKnown DEF AnswerKnown
  <2>. QED
    BY <1>1, <2>3, <2>4, <2>5 DEF Honest, OpenQuery, Outcome
<1>. QED
  BY <1>5, <1>6

LEMMA RemakeIsHonest ==
  ASSUME Safe, Honest, NEW q \in Questions, Remake(q)
  PROVE  Honest'
<1>. USE DEF so, net
<1>1. /\ UNCHANGED <<asked, udp, answer, tcps, query, qid, state, qids, result, fetched, submits>>
      /\ qidOf' = [qidOf EXCEPT ![q] = 0] /\ put' = [put EXCEPT ![q] = {}]
      /\ query # q \/ result \in {"error", "fetched"}
  BY DEF Remake
<1>2. /\ qidOf \in [Questions -> Qids \cup {0}] /\ qids \subseteq Qids /\ 0 \notin Qids
      /\ put \in [Questions -> SUBSET Hosts] /\ state # "none" => query \in Questions
  BY SocketAssumption DEF Safe, TypeOK, Submitted, SocketAssumption
<1>3. KnowsMore
  BY <1>1, <1>2 DEF KnowsMore, Given, Vouched
<1>4. AskedKnown' /\ UdpKnown' /\ AnswerKnown' /\ TcpsKnown'
  BY <1>1, <1>3, StaysKnown
<1>5. HeadersGiven' /\ Enough'
  BY <1>1, <1>2 DEF Honest, HeadersGiven, Enough
<1>6. OpenQuery' /\ Outcome'
  BY <1>1, <1>2 DEF Honest, OpenQuery, Outcome, Verified
<1>. QED
  BY <1>4, <1>5, <1>6 DEF Honest

(* Descriptors that are closed leave what is under way as it is.            *)
LEMMA ClosedStaysKnown ==
  ASSUME KnowsMore, Safe, Honest, NEW S \in SUBSET (DOMAIN tcps), Fds(S, "closed")
  PROVE  TcpsKnown'
<1>. SUFFICES ASSUME NEW n \in DOMAIN tcps' PROVE KnownConnection(tcps[n])'
  BY DEF TcpsKnown
<1>1. n \in DOMAIN tcps
  BY DEF Fds
<1>2. PICK c, d : c = tcps[n] /\ d = tcps'[n]
  OBVIOUS
<1>3. d.in = c.in /\ d.out = c.out
  <2>1. c \in Connection
    BY <1>1, <1>2 DEF Safe, TypeOK
  <2>2. d = IF n \in S THEN [c EXCEPT !.fd = "closed"] ELSE c
    BY <1>1, <1>2 DEF Fds
  <2>. QED
    BY <2>1, <2>2 DEF Connection
<1>4. KnownConnection(c)'
  BY <1>1, <1>2, ConnectionStaysKnown DEF Honest, TcpsKnown
<1>. QED
  BY <1>2, <1>3, <1>4 DEF KnownConnection

LEMMA OtherCallsAreHonest ==
  ASSUME Safe, Honest, Check \/ Fetch \/ Clear \/ Close
  PROVE  Honest'
<1>. USE DEF so, ids, net, history
<1>1. UNCHANGED <<asked, udp, query, qid, qids, qidOf, put, submits>>
  BY DEF Check, Fetch, Clear, Close
<1>2. KnowsMore
  BY <1>1, KnownStays
<1>3. AskedKnown' /\ UdpKnown' /\ HeadersGiven' /\ Enough'
  BY <1>1, <1>2, StaysKnown DEF Honest, HeadersGiven, Enough
<1>4. AnswerKnown'
  BY <1>2, StaysKnown DEF AnswerKnown, Check, Fetch, Clear, Close
<1>5. TcpsKnown'
  <2>1. CASE UNCHANGED tcps
    BY <1>2, <2>1, StaysKnown
  <2>2. CASE Clear
    <3>1. old \in SUBSET DOMAIN tcps
      BY DEF Safe, TypeOK
    <3>. QED
      BY <1>2, <2>2, <3>1, ClosedStaysKnown DEF Clear
  <2>3. CASE Close
    <3>1. PutAside \in SUBSET DOMAIN tcps
      BY DEF Safe, TypeOK, PutAside
    <3>. QED
      BY <1>2, <2>3, <3>1, ClosedStaysKnown DEF Close
  <2>. QED
    BY <2>1, <2>2, <2>3 DEF Check, Fetch
<1>6. OpenQuery' /\ Outcome'
  BY <1>1 DEF Honest, OpenQuery, Outcome, Verified, Check, Fetch, Clear, Close
<1>. QED
  BY <1>3, <1>4, <1>5, <1>6 DEF Honest

LEMMA NetworkIsHonest == ASSUME Safe, Honest, Network PROVE Honest'
<1>. USE DEF so, ids, net, history
<1>1. /\ UNCHANGED <<asked, answer, query, qid, state, qids, qidOf, result, fetched, submits, put>>
  BY DEF Network, UdpAnswer, Arrives, TcpUp, TcpAnswer, TcpRest, TcpMoves
<1>2. KnowsMore
  BY <1>1, KnownStays
<1>3. AskedKnown' /\ AnswerKnown' /\ HeadersGiven' /\ Enough'
  BY <1>1, <1>2, StaysKnown DEF Honest, HeadersGiven, Enough
<1>4. OpenQuery' /\ Outcome'
  BY <1>1 DEF Honest, OpenQuery, Outcome, Verified
<1>5. ASSUME UNCHANGED tcps, UdpKnown' PROVE Honest'
  BY <1>2, <1>3, <1>4, <1>5, StaysKnown DEF Honest
<1>6. ASSUME NEW d \in Message, Given(d), Vouched(d), Arrives(d) PROVE Honest'
  <2>1. /\ \A k \in DOMAIN udp : udp'[k] = udp[k]
        /\ udp'[Len(udp) + 1] = d /\ DOMAIN udp' = DOMAIN udp \cup {Len(udp) + 1}
    BY <1>6, QueueEnd DEF Arrives, Safe, TypeOK
  <2>2. UdpKnown'
    BY <1>2, <1>6, <2>1 DEF KnowsMore, Honest, UdpKnown
  <2>. QED
    BY <1>5, <1>6, <2>2 DEF Arrives
<1>7. CASE UdpAnswer
  <2>1. ASSUME NEW m \in asked, NEW tc \in BOOLEAN, Arrives(Msg(m.host, m.qid, m.q, tc)) PROVE Honest'
    <3>1. PICK d : d = Msg(m.host, m.qid, m.q, tc)
      OBVIOUS
    <3>2. d \in Message
      BY <3>1, QueryIsMessage DEF Safe
    <3>3. d.host = m.host /\ d.qid = m.qid /\ d.q = m.q
      BY <3>1 DEF Msg
    <3>4. Given(d) /\ Vouched(d)
      BY <3>3 DEF Honest, AskedKnown, Given, Vouched
    <3>. QED
      BY <1>6, <2>1, <3>1, <3>2, <3>4
  <2>2. ASSUME Arrives(Runt) PROVE Honest'
    <3>1. Runt \in Message /\ Given(Runt) /\ Vouched(Runt)
      BY QueryIsMessage, SocketAssumption DEF Safe, Given, Vouched, Runt, Msg, SocketAssumption
    <3>. QED
      BY <1>6, <2>2, <3>1
  <2>. QED
    BY <1>7, <2>1, <2>2 DEF UdpAnswer
<1>8. ASSUME NEW n \in DOMAIN tcps, NEW c, KnownConnection(c), TcpMoves(n, c) PROVE Honest'
  <2>1. TcpsKnown'
    BY <1>2, <1>8, ConnectionStaysKnown, KnownMoves DEF TcpMoves, Safe
  <2>. QED
    BY <1>2, <1>3, <1>4, <1>8, <2>1, StaysKnown DEF Honest, TcpMoves
<1>9. ASSUME NEW n \in DOMAIN tcps PROVE tcps[n] \in Connection /\ KnownConnection(tcps[n])
  BY DEF Safe, TypeOK, Honest, TcpsKnown
<1>10. ASSUME NEW n \in DOMAIN tcps, TcpUp(n) PROVE Honest'
  <2>1. PICK c : c = [tcps[n] EXCEPT !.up = TRUE]
    OBVIOUS
  <2>2. c.in = tcps[n].in /\ c.out = tcps[n].out
    BY <1>9, <2>1 DEF Connection
  <2>3. KnownConnection(c)
    BY <1>9, <2>2 DEF KnownConnection
  <2>. QED
    BY <1>8, <1>10, <2>1, <2>3 DEF TcpUp
<1>11. ASSUME NEW n \in DOMAIN tcps, NEW in \in Seq(Piece), NEW out \in Seq(Piece),
              \A k \in DOMAIN in : KnownPiece(in[k]),
              \A k \in DOMAIN out : Given(out[k].msg) /\ Vouched(out[k].msg),
              TcpMoves(n, [tcps[n] EXCEPT !.in = in, !.out = out])
       PROVE  Honest'
  <2>1. PICK c : c = [tcps[n] EXCEPT !.in = in, !.out = out]
    OBVIOUS
  <2>2. c.in = in /\ c.out = out
    BY <1>9, <2>1 DEF Connection
  <2>3. KnownConnection(c)
    BY <1>11, <2>2 DEF KnownConnection
  <2>. QED
    BY <1>8, <1>11, <2>1, <2>3
<1>12. ASSUME NEW n \in DOMAIN tcps, TcpAnswer(n) PROVE Honest'
  <2>. DEFINE in == tcps[n].in
              out == tcps[n].out
              rest == SubSeq(in, 3, Len(in))
              length == [msg |-> in[1].msg, part |-> "length"]
              body == [msg |-> in[1].msg, part |-> "body"]
  <2>1. /\ in \in Seq(Piece) /\ out \in Seq(Piece) /\ Len(in) >= 2
        /\ in[2] = [msg |-> in[1].msg, part |-> "second"]
        /\ rest \in Seq(Piece) /\ \A k \in DOMAIN rest : k + 2 \in DOMAIN in /\ rest[k] = in[k + 2]
        /\ length \in Piece /\ body \in Piece
        /\ \/ TcpMoves(n, [tcps[n] EXCEPT !.in = rest, !.out = out \o <<length, body>>])
           \/ TcpMoves(n, [tcps[n] EXCEPT !.in = <<body>> \o rest, !.out = Append(out, length)])
    BY <1>12, TcpAnswers
  <2>2. /\ \A k \in DOMAIN in : KnownPiece(in[k])
        /\ \A k \in DOMAIN out : Given(out[k].msg) /\ Vouched(out[k].msg)
    BY <1>9 DEF KnownConnection
  <2>3. Given(in[1].msg) /\ Vouched(in[1].msg)
    <3>1. 2 \in DOMAIN in /\ in[2].msg = in[1].msg /\ in[2].part = "second"
      BY <2>1
    <3>2. KnownPiece(in[2])
      BY <2>2, <3>1
    <3>. QED
      BY <3>1, <3>2 DEF KnownPiece
  <2>4. \A p \in {length, body} : Given(p.msg) /\ Vouched(p.msg) /\ KnownPiece(p)
    BY <2>3 DEF KnownPiece
  <2>. HIDE DEF in, out, rest, length, body
  <2>5. CASE TcpMoves(n, [tcps[n] EXCEPT !.in = rest, !.out = out \o <<length, body>>])
    <3>1. \A k \in DOMAIN rest : KnownPiece(rest[k])
      BY <2>1, <2>2
    <3>2. <<length, body>> \in Seq(Piece) /\ \A k \in DOMAIN <<length, body>> : <<length, body>>[k] \in {length, body}
      BY <2>1
    <3>3. /\ out \o <<length, body>> \in Seq(Piece)
          /\ \A k \in DOMAIN (out \o <<length, body>>) :
               Given((out \o <<length, body>>)[k].msg) /\ Vouched((out \o <<length, body>>)[k].msg)
      BY <2>1, <2>2, <2>4, <3>2, Concatenation
    <3>. QED
      BY <1>11, <2>1, <2>5, <3>1, <3>3
  <2>6. CASE TcpMoves(n, [tcps[n] EXCEPT !.in = <<body>> \o rest, !.out = Append(out, length)])
    <3>1. <<body>> \in Seq(Piece) /\ \A k \in DOMAIN <<body>> : <<body>>[k] = body
      BY <2>1
    <3>2. /\ <<body>> \o rest \in Seq(Piece)
          /\ \A k \in DOMAIN (<<body>> \o rest) : KnownPiece((<<body>> \o rest)[k])
      BY <2>1, <2>2, <2>4, <3>1, Concatenation
    <3>3. /\ Append(out, length) \in Seq(Piece)
          /\ \A k \in DOMAIN Append(out, length) :
               Given(Append(out, length)[k].msg) /\ Vouched(Append(out, length)[k].msg)
      BY <2>1, <2>2, <2>4, QueueEnd
    <3>. QED
      BY <1>11, <2>6, <3>2, <3>3
  <2>. QED
    BY <2>1, <2>5, <2>6
<1>13. ASSUME NEW n \in DOMAIN tcps, TcpRest(n) PROVE Honest'
  <2>. DEFINE in == tcps[n].in
              out == tcps[n].out
  <2>1. /\ in \in Seq(Piece) /\ out \in Seq(Piece) /\ in # <<>> /\ Head(in).part = "body"
        /\ TcpMoves(n, [tcps[n] EXCEPT !.in = Tail(in), !.out = Append(out, Head(in))])
    BY <1>13, TcpRests
  <2>2. /\ \A k \in DOMAIN in : KnownPiece(in[k])
        /\ \A k \in DOMAIN out : Given(out[k].msg) /\ Vouched(out[k].msg)
    BY <1>9 DEF KnownConnection
  <2>. HIDE DEF in, out
  <2>3. /\ Head(in) = in[1] /\ Head(in) \in Piece /\ 1 \in DOMAIN in /\ Tail(in) \in Seq(Piece)
        /\ \A k \in DOMAIN Tail(in) : k + 1 \in DOMAIN in /\ Tail(in)[k] = in[k + 1]
    BY <2>1, QueueHead
  <2>4. Given(Head(in).msg) /\ Vouched(Head(in).msg)
    BY <2>1, <2>2, <2>3 DEF KnownPiece
  <2>5. /\ Append(out, Head(in)) \in Seq(Piece)
        /\ \A k \in DOMAIN Append(out, Head(in)) :
             Given(Append(out, Head(in))[k].msg) /\ Vouched(Append(out, Head(in))[k].msg)
    BY <2>1, <2>2, <2>3, <2>4, QueueEnd
  <2>6. \A k \in DOMAIN Tail(in) : KnownPiece(Tail(in)[k])
    BY <2>2, <2>3
  <2>. QED
    BY <1>11, <2>1, <2>3, <2>5, <2>6
<1>. QED
  BY <1>7, <1>10, <1>12, <1>13 DEF Network

LEMMA HonestIsInductive == OneRound /\ Safe /\ Honest /\ [Next]_vars => Honest'
<1>1. ASSUME Safe, Honest, UNCHANGED vars PROVE Honest'
  <2>1. UNCHANGED <<asked, udp, answer, tcps, ids, put, query, qid, state, result, fetched, submits>>
    BY <1>1 DEF vars, so, ids, net, history
  <2>2. AskedKnown' /\ UdpKnown' /\ AnswerKnown' /\ TcpsKnown'
    BY <1>1, <2>1, KnownStays, StaysKnown
  <2>. QED
    BY <1>1, <2>1, <2>2 DEF Honest, HeadersGiven, OpenQuery, Outcome, Verified, Enough, ids
<1>. QED
  BY <1>1, ChecksAreHonest, SubmitIsHonest, RemakeIsHonest, OtherCallsAreHonest, NetworkIsHonest DEF Next

-----------------------------------------------------------------------------
(* The promise to the resolver                                              *)

Answers == IF fetched = Nothing THEN {} ELSE {[q |-> fetched.q, host |-> fetched.host]}
Failed == result = "error"
promised == <<query, Answers, Failed, put>>

LEMMA InitPromises == Init => Promise!Init
  BY DEF Init, Promise!Init

(* An open query is open for the resolver as well.                          *)
LEMMA WorkIsOpen == ASSUME Safe, Honest, pc = "check" PROVE Promise!Open
  BY WorksOn, SocketAssumption DEF Promise!Open, SocketAssumption

(* dns_so_check() puts the question to its host, or fails, or does nothing  *)
(* that the resolver would see.                                             *)
LEMMA CheckPromises ==
  ASSUME Safe, Honest, SoCheck
  PROVE  Promise!Next \/ UNCHANGED promised
<1>. USE DEF In, Goes, Returns, Again, Errs, ids, net, history
<1>1. pc = "check" /\ UNCHANGED <<query, fetched>>
  BY DEF SoCheck, UdpInit, UdpConnect, UdpSend, UdpNothing, UdpReceive, UdpDone, TcpKeep,
         TcpInit, TcpConnect, TcpSend, TcpNothing, TcpReceive, TcpDone
<1>2. /\ query \in Questions /\ remote \in Hosts /\ result \in {"none", "again"} /\ fetched = Nothing
      /\ state # "none"
  BY <1>1, WorksOn
<1>3. Promise!Open
  BY <1>1, WorkIsOpen
<1>4. /\ \/ UNCHANGED put
         \/ result' = result /\ \E h \in Hosts : put' = [put EXCEPT ![query] = @ \cup {h}]
      /\ result' \in {result, "again", "ok", "error"}
  <2>1. CASE UdpSend
    <3>1. peer = remote
      BY <2>1 DEF UdpSend, Safe, Connected
    <3>. QED
      BY <1>2, <2>1, <3>1 DEF UdpSend, Asks
  <2>2. CASE TcpSend
    <3>1. PICK last \in qout..2 :
            /\ IF last = 2 THEN Goes("TCP_RECV") ELSE Again \/ Errs
            /\ put' = IF qout = 0 /\ last = 2 THEN [put EXCEPT ![query] = @ \cup {remote}] ELSE put
      BY <2>2 DEF TcpSend
    <3>. QED
      BY <1>2, <3>1
  <2>3. CASE UdpInit \/ UdpConnect \/ UdpNothing \/ UdpReceive \/ UdpDone \/ TcpKeep \/ TcpInit
             \/ TcpConnect \/ TcpNothing \/ TcpReceive \/ TcpDone
    BY <2>3 DEF UdpInit, UdpConnect, UdpNothing, UdpReceive, UdpDone, TcpKeep, TcpInit, TcpConnect,
                TcpNothing, TcpReceive, TcpDone
  <2>. QED
    BY <2>1, <2>2, <2>3 DEF SoCheck
<1>5. CASE UNCHANGED put /\ result' # "error"
  BY <1>1, <1>2, <1>5 DEF promised, Answers, Failed
<1>6. CASE UNCHANGED put /\ result' = "error"
  BY <1>1, <1>3, <1>6 DEF Promise!Next, Promise!Fail
<1>7. ASSUME result' = result, NEW h \in Hosts, put' = [put EXCEPT ![query] = @ \cup {h}]
      PROVE  Promise!Next
  BY <1>1, <1>3, <1>7 DEF Promise!Next, Promise!Put
<1>. QED
  BY <1>4, <1>5, <1>6, <1>7

(* Only an answer to the open question, from a host it was put to, is       *)
(* handed out.                                                              *)
LEMMA FetchPromises == ASSUME Safe, Honest, Fetch PROVE Promise!Next
<1>1. /\ fetched' = answer /\ result = "ok" /\ result' = "fetched" /\ state # "none"
      /\ UNCHANGED <<query, put>>
  BY DEF Fetch, history
<1>2. /\ query \in Questions /\ qid \in Qids /\ qidOf[query] = qid /\ fetched = Nothing
      /\ answer # Nothing /\ answer.qid = qid /\ answer.q = query
  BY <1>1 DEF Safe, Submitted, Honest, OpenQuery, Outcome, Verified
<1>3. answer.host \in put[query]
  BY <1>2 DEF Honest, AnswerKnown, Vouched
<1>4. put[query] \subseteq Hosts
  BY <1>2 DEF Safe, TypeOK
<1>5. Promise!Open
  BY <1>1, <1>2, SocketAssumption DEF Promise!Open, SocketAssumption
<1>6. Promise!Answer(answer.host)
  BY <1>1, <1>2, <1>3, <1>5 DEF Promise!Answer
<1>. QED
  BY <1>3, <1>4, <1>6 DEF Promise!Next

LEMMA StepPromises ==
  ASSUME Safe, Honest, [Next]_vars
  PROVE  Promise!Next \/ UNCHANGED promised
<1>1. ASSUME NEW q \in Questions, NEW h \in Hosts, Submit(q, h) PROVE Promise!Ask(q)
  BY <1>1 DEF Submit, Promise!Ask
<1>2. ASSUME NEW q \in Questions, Remake(q) PROVE Promise!Renew(q)
  <2>1. query # q \/ ~Promise!Open
    BY <1>2 DEF Remake, Promise!Open, Honest, Outcome
  <2>. QED
    BY <1>2, <2>1 DEF Remake, Promise!Renew, so
<1>3. CASE Check \/ Clear \/ Close \/ Network \/ UNCHANGED vars
  <2>1. UNCHANGED <<query, fetched, result, put>>
    BY <1>3 DEF Check, Clear, Close, Network, UdpAnswer, Arrives, TcpUp, TcpAnswer, TcpRest, TcpMoves,
                vars, so, ids, history
  <2>. QED
    BY <2>1 DEF promised, Answers, Failed
<1>. QED
  BY <1>1, <1>2, <1>3, CheckPromises, FetchPromises DEF Next, Promise!Next

(* Whatever dns_so_submit(), dns_so_check() and dns_so_fetch() do over UDP  *)
(* and TCP, only an answer to the question that is open is fetched, from a  *)
(* host to which it has been put, as long as no id comes a second time.     *)
THEOREM SocketPromises ==
  ASSUME OneRound
  PROVE  Spec => ImplementsQuery
<1>1. Init => Safe /\ Honest
  BY InitSafe, InitHonest
<1>2. Safe /\ Honest /\ [Next]_vars => (Safe /\ Honest)'
  BY SafeIsInductive, HonestIsInductive
<1>3. Init => Promise!Init
  BY InitPromises
<1>4. Safe /\ Honest /\ [Next]_vars => [Promise!Next]_(Promise!vars)
  BY StepPromises DEF Promise!vars, promised, Answers, Failed
<1>. QED
  BY <1>1, <1>2, <1>3, <1>4, PTL DEF Spec, ImplementsQuery, Promise!Spec

-----------------------------------------------------------------------------
(* The configuration                                                        *)

(* A reference is counted once for each that holds it.                      *)
Has(o, S) == IF o \in S THEN 1 ELSE 0

LEMMA HasWhat == ASSUME NEW o, NEW S PROVE Has(o, S) \in {0, 1}
  BY DEF Has

(* What a resolver is made of.                                              *)
Parts == {"resconf", "hosts", "hints"}

Stages ==
  {"start", "resolv.conf", "nsswitch.conf", "hosts", "hosts file", "hints", "hinting",
   "open", "opening", "ready", "failed", "closed"}

(* What dns_res_stub() has pointers to, and what the resolver has.          *)
Mine ==
  IF stage \in {"hosts", "hosts file"} THEN {"resconf"}
  ELSE IF stage \in {"hints", "hinting"} THEN {"resconf", "hosts"}
  ELSE IF stage \in {"open", "opening"} THEN Parts ELSE {}
Held == IF stage = "ready" THEN Parts ELSE {}

Holders ==
  /\ stage \in Stages
  /\ mine = Mine /\ held = Held
  /\ heap \subseteq Objects /\ count \in [Objects -> Int]

Counts ==
  \A o \in Objects : /\ count[o] = Has(o, AtWork) + Has(o, mine) + Has(o, held)
                     /\ o \in heap <=> count[o] > 0

CountsInv == Holders /\ Counts

LEMMA InitCounts == ConfInit => CountsInv
<1>. SUFFICES ASSUME ConfInit PROVE CountsInv
  OBVIOUS
<1>1. Holders
  BY DEF ConfInit, Holders, Mine, Held, NoReference, Stages, Objects
<1>2. AtWork = {}
  BY DEF ConfInit, AtWork
<1>3. Counts
  BY <1>2 DEF ConfInit, Counts, Has, NoReference
<1>. QED
  BY <1>1, <1>3 DEF CountsInv

(* The cardinality in NothingLeaks: the holders are told apart by name.     *)
LEMMA Tally ==
  ASSUME NEW o, NEW A, NEW B, NEW C
  PROVE  Cardinality({s \in {<<"work", A>>, <<"stub", B>>, <<"R", C>>} : o \in s[2]})
           = Has(o, A) + Has(o, B) + Has(o, C)
<1>1. PICK a, b, c : a = <<"work", A>> /\ b = <<"stub", B>> /\ c = <<"R", C>>
  OBVIOUS
<1>2. /\ a[2] = A /\ b[2] = B /\ c[2] = C
      /\ a # b /\ a # c /\ b # c
  BY <1>1
<1>3. PICK X : X = (IF o \in A THEN {a} ELSE {})
  OBVIOUS
<1>4. PICK Y : Y = (IF o \in B THEN {b} ELSE {})
  OBVIOUS
<1>5. PICK Z : Z = (IF o \in C THEN {c} ELSE {})
  OBVIOUS
<1>6. {s \in {a, b, c} : o \in s[2]} = (X \cup Y) \cup Z
  BY <1>2, <1>3, <1>4, <1>5
<1>7. /\ IsFiniteSet(X) /\ Cardinality(X) = Has(o, A)
      /\ IsFiniteSet(Y) /\ Cardinality(Y) = Has(o, B)
      /\ IsFiniteSet(Z) /\ Cardinality(Z) = Has(o, C)
  BY <1>3, <1>4, <1>5, FS_EmptySet, FS_Singleton DEF Has
<1>8. X \cap Y = {} /\ (X \cup Y) \cap Z = {}
  BY <1>2, <1>3, <1>4, <1>5
<1>9. Cardinality(X \cup Y) = Has(o, A) + Has(o, B) /\ IsFiniteSet(X \cup Y)
  <2>1. Cardinality({}) = 0
    BY FS_EmptySet
  <2>2. Cardinality(X \cup Y) = Cardinality(X) + Cardinality(Y) - Cardinality(X \cap Y)
    BY <1>7, FS_Union
  <2>. QED
    BY <1>7, <1>8, <2>1, <2>2, FS_Union, HasWhat
<1>10. Cardinality((X \cup Y) \cup Z) = Has(o, A) + Has(o, B) + Has(o, C)
  <2>1. Cardinality({}) = 0
    BY FS_EmptySet
  <2>2. Cardinality((X \cup Y) \cup Z) = Cardinality(X \cup Y) + Cardinality(Z) - Cardinality((X \cup Y) \cap Z)
    BY <1>7, <1>9, FS_Union
  <2>. QED
    BY <1>7, <1>8, <1>9, <2>1, <2>2, HasWhat
<1>. QED
  BY <1>1, <1>6, <1>10

LEMMA CountsSuffice == CountsInv => NothingLeaks
  BY Tally DEF CountsInv, Counts, NothingLeaks

(* The end of dns_res_stub() when something has failed: what is closed      *)
(* besides is what the callee was at work on.                               *)
LEMMA AllIsGivenBack ==
  ASSUME CountsInv, held = {}, held' = {}, Epilog(AtWork, "failed")
  PROVE  CountsInv'
<1>1. /\ count' = [o \in Objects |-> count[o] - (IF o \in AtWork THEN 1 ELSE 0) - (IF o \in mine THEN 1 ELSE 0)]
      /\ heap' = heap \ {o \in AtWork \cup mine : count'[o] = 0}
      /\ mine' = {} /\ stage' = "failed"
  BY DEF Epilog
<1>2. AtWork' = {}
  BY <1>1 DEF AtWork
<1>3. \A o \in Objects : count'[o] = 0
  BY <1>1 DEF CountsInv, Counts, Has
<1>4. heap' = {}
  BY <1>1, <1>3 DEF CountsInv, Holders, Counts, Has
<1>5. Holders'
  <2>1. count' \in [Objects -> Int]
    BY <1>1, <1>3
  <2>2. Mine' = {} /\ Held' = {} /\ stage' \in Stages
    BY <1>1 DEF Mine, Held, Stages
  <2>. QED
    BY <1>1, <1>4, <2>1, <2>2 DEF Holders
<1>6. Counts'
  BY <1>1, <1>2, <1>3, <1>4 DEF Counts, Has
<1>. QED
  BY <1>5, <1>6 DEF CountsInv

(* Steps that leave the references and their holders alone.                 *)
LEMMA SameHolders ==
  ASSUME CountsInv, UNCHANGED memory, stage' \in Stages, AtWork' = AtWork, Mine' = Mine, Held' = Held
  PROVE  CountsInv'
  BY DEF CountsInv, Holders, Counts, Has, memory

LEMMA ReadingKeepsCounts ==
  ASSUME CountsInv, ReadResolv \/ ResolvDone \/ ReadNss \/ ReadHosts \/ SubmitName \/ SearchNext \/ UNCHANGED confVars
  PROVE  CountsInv'
<1>1. /\ UNCHANGED memory
      /\ \/ UNCHANGED stage
         \/ stage = "resolv.conf" /\ stage' = "nsswitch.conf"
  BY DEF ReadResolv, ResolvDone, ReadNss, ReadHosts, SubmitName, SearchNext, confVars
<1>2. stage' \in Stages
  BY <1>1 DEF CountsInv, Holders, Stages
<1>3. AtWork' = AtWork /\ Mine' = Mine /\ Held' = Held
  BY <1>1 DEF AtWork, Mine, Held, memory
<1>. QED
  BY <1>1, <1>2, <1>3, SameHolders

LEMMA FailuresGiveBack ==
  ASSUME CountsInv, ConfFileFails \/ HostsFileFails
  PROVE  CountsInv'
<1>1. held = {} /\ held' = {} /\ Epilog(AtWork, "failed")
  BY DEF CountsInv, Holders, Held, ConfFileFails, HostsFileFails, AtWork
<1>. QED
  BY <1>1, AllIsGivenBack

(* A new object, which nothing holds yet but the callee that made it.       *)
LEMMA AllocCounts ==
  ASSUME CountsInv, NEW o \in Objects, o \notin heap, Alloc(o), UNCHANGED <<mine, held>>,
         stage' \in Stages, AtWork' = AtWork \cup {o}, Mine' = Mine, Held' = Held
  PROVE  CountsInv'
<1>1. /\ heap' = heap \cup {o} /\ count \in [Objects -> Int]
      /\ count' = [count EXCEPT ![o] = 1]
  BY DEF Alloc, CountsInv, Holders
<1>2. count[o] = Has(o, AtWork) + Has(o, mine) + Has(o, held) /\ ~(count[o] > 0)
  BY DEF CountsInv, Counts
<1>3. o \notin AtWork /\ o \notin mine /\ o \notin held
  BY <1>2 DEF Has
<1>4. Holders'
  BY <1>1 DEF CountsInv, Holders
<1>5. ASSUME NEW p \in Objects
      PROVE  /\ count'[p] = Has(p, AtWork') + Has(p, mine) + Has(p, held)
             /\ p \in heap' <=> count'[p] > 0
  <2>1. CASE p = o
    BY <1>1, <1>3, <2>1 DEF Has
  <2>2. CASE p # o
    BY <1>1, <2>2 DEF Has, CountsInv, Counts
  <2>. QED
    BY <2>1, <2>2
<1>. QED
  BY <1>4, <1>5 DEF CountsInv, Counts

LEMMA OpenResconfCounts == ASSUME CountsInv, OpenResconf PROVE CountsInv'
<1>1. /\ stage = "start" /\ mine = {} /\ held = {} /\ AtWork = {}
      /\ "resconf" \in Objects
  BY DEF OpenResconf, CountsInv, Holders, Mine, Held, AtWork, Objects
<1>2. CASE Epilog({}, "failed") /\ UNCHANGED held
  BY <1>1, <1>2, AllIsGivenBack
<1>3. CASE Alloc("resconf") /\ stage' = "resolv.conf" /\ UNCHANGED <<mine, held>>
  <2>1. "resconf" \notin heap
    BY <1>1 DEF CountsInv, Counts, Has
  <2>2. AtWork' = {"resconf"} /\ Mine' = Mine /\ Held' = Held /\ stage' \in Stages
    BY <1>1, <1>3 DEF AtWork, Mine, Held, Stages
  <2>. QED
    BY <1>1, <1>3, <2>1, <2>2, AllocCounts
<1>. QED
  BY <1>2, <1>3 DEF OpenResconf

LEMMA OpenHostsCounts == ASSUME CountsInv, OpenHosts PROVE CountsInv'
<1>1. /\ stage = "hosts" /\ mine = {"resconf"} /\ held = {} /\ AtWork = {}
      /\ "hosts" \in Objects
  BY DEF OpenHosts, CountsInv, Holders, Mine, Held, AtWork, Objects
<1>2. CASE Epilog({}, "failed") /\ UNCHANGED held
  BY <1>1, <1>2, AllIsGivenBack
<1>3. CASE Alloc("hosts") /\ stage' = "hosts file" /\ UNCHANGED <<mine, held>>
  <2>1. "hosts" \notin heap
    BY <1>1 DEF CountsInv, Counts, Has
  <2>2. AtWork' = {"hosts"} /\ Mine' = Mine /\ Held' = Held /\ stage' \in Stages
    BY <1>1, <1>3 DEF AtWork, Mine, Held, Stages
  <2>. QED
    BY <1>1, <1>3, <2>1, <2>2, AllocCounts
<1>. QED
  BY <1>2, <1>3 DEF OpenHosts

LEMMA HintsOpenCounts == ASSUME CountsInv, HintsOpen PROVE CountsInv'
<1>1. /\ stage = "hinting" /\ mine = {"resconf", "hosts"} /\ held = {} /\ AtWork = {"resconf"}
      /\ "hints" \notin heap /\ "hints" \in Objects
  BY DEF HintsOpen, CountsInv, Holders, Mine, Held, AtWork, Objects
<1>2. CASE Epilog({"resconf"}, "failed") /\ UNCHANGED held
  BY <1>1, <1>2, AllIsGivenBack
<1>3. CASE Alloc("hints") /\ UNCHANGED <<mine, held, stage>>
  <2>1. AtWork' = {"resconf"} \cup {"hints"}
    BY <1>1, <1>3 DEF AtWork, Alloc
  <2>2. Mine' = Mine /\ Held' = Held /\ stage' \in Stages
    BY <1>1, <1>3 DEF Mine, Held, Stages
  <2>. QED
    BY <1>1, <1>3, <2>1, <2>2, AllocCounts
<1>. QED
  BY <1>2, <1>3 DEF HintsOpen

LEMMA OpenMakeCounts == ASSUME CountsInv, OpenMake PROVE CountsInv'
<1>1. /\ stage = "opening" /\ mine = Parts /\ held = {} /\ AtWork = Parts
      /\ "R" \notin heap /\ "R" \in Objects
  BY DEF OpenMake, CountsInv, Holders, Mine, Held, AtWork, Objects, Parts
<1>2. CASE Epilog({"resconf", "hosts", "hints"}, "failed") /\ UNCHANGED held
  BY <1>1, <1>2, AllIsGivenBack DEF Parts
<1>3. CASE Alloc("R") /\ UNCHANGED <<mine, held, stage>>
  <2>1. AtWork' = Parts \cup {"R"}
    BY <1>1, <1>3 DEF AtWork, Alloc, Parts
  <2>2. Mine' = Mine /\ Held' = Held /\ stage' \in Stages
    BY <1>1, <1>3 DEF Mine, Held, Stages
  <2>. QED
    BY <1>1, <1>3, <2>1, <2>2, AllocCounts
<1>. QED
  BY <1>2, <1>3 DEF OpenMake

(* A pointer is taken over: what the callee held is dns_res_stub()'s.       *)
LEMMA HandedOver ==
  ASSUME CountsInv, NssDone \/ HostsDone
  PROVE  CountsInv'
<1>1. CASE NssDone
  <2>1. /\ stage = "nsswitch.conf" /\ stage' = "hosts" /\ mine = {} /\ mine' = {"resconf"}
        /\ AtWork = {"resconf"} /\ AtWork' = {} /\ held' = held /\ heap' = heap /\ count' = count
    BY <1>1 DEF NssDone, CountsInv, Holders, Mine, AtWork
  <2>2. Holders'
    BY <2>1 DEF CountsInv, Holders, Mine, Held, Stages
  <2>. QED
    BY <2>1, <2>2 DEF CountsInv, Counts, Has
<1>2. CASE HostsDone
  <2>1. /\ stage = "hosts file" /\ stage' = "hints" /\ mine = {"resconf"} /\ mine' = {"resconf", "hosts"}
        /\ AtWork = {"hosts"} /\ AtWork' = {} /\ held' = held /\ heap' = heap /\ count' = count
    BY <1>2 DEF HostsDone, CountsInv, Holders, Mine, AtWork, memory, data
  <2>2. Holders'
    BY <2>1 DEF CountsInv, Holders, Mine, Held, Stages
  <2>3. \A o \in Objects : Has(o, AtWork') + Has(o, mine') = Has(o, AtWork) + Has(o, mine)
    <3>1. \A o : o \in AtWork => o \notin mine /\ o \in mine' /\ o \notin AtWork'
      BY <2>1
    <3>2. \A o : o \notin AtWork => (o \in mine' <=> o \in mine) /\ o \notin AtWork'
      BY <2>1
    <3>. QED
      BY <3>1, <3>2 DEF Has
  <2>4. \A o \in Objects : count'[o] = Has(o, AtWork') + Has(o, mine') + Has(o, held')
    BY <2>1, <2>3, HasWhat DEF CountsInv, Counts
  <2>. QED
    BY <2>1, <2>2, <2>4 DEF CountsInv, Counts
<1>. QED
  BY <1>1, <1>2

LEMMA HintsBeginCounts == ASSUME CountsInv, HintsBegin PROVE CountsInv'
<1>1. /\ stage = "hints" /\ stage' = "hinting" /\ AtWork = {}
      /\ UNCHANGED <<heap, mine, held>>
      /\ count' = [o \in Objects |-> IF o \in {"resconf"} THEN count[o] + 1 ELSE count[o]]
  BY DEF HintsBegin, Acquire, AtWork
<1>2. mine = {"resconf", "hosts"} /\ held = {} /\ \A o \in Objects : count[o] \in Int
  BY <1>1 DEF CountsInv, Holders, Mine, Held
<1>3. "hints" \notin heap /\ AtWork' = {"resconf"}
  <2>1. "hints" \notin heap
    BY <1>1, <1>2 DEF CountsInv, Counts, Has, Objects
  <2>. QED
    BY <1>1, <2>1 DEF AtWork
<1>4. Holders'
  BY <1>1, <1>2 DEF CountsInv, Holders, Mine, Held, Stages
<1>5. ASSUME NEW o \in Objects
      PROVE  /\ count'[o] = Has(o, AtWork') + Has(o, mine') + Has(o, held')
             /\ o \in heap' <=> count'[o] > 0
  <2>1. CASE o = "resconf"
    BY <1>1, <1>2, <1>3, <2>1 DEF CountsInv, Counts, Has
  <2>2. CASE o # "resconf"
    BY <1>1, <1>2, <1>3, <2>2 DEF CountsInv, Counts, Has
  <2>. QED
    BY <2>1, <2>2
<1>. QED
  BY <1>4, <1>5 DEF CountsInv, Counts

LEMMA HintsInsertCounts == ASSUME CountsInv, HintsInsert PROVE CountsInv'
<1>1. /\ stage = "hinting" /\ "hints" \in heap /\ held' = held
      /\ mine = {"resconf", "hosts"} /\ held = {} /\ AtWork = {"resconf", "hints"}
      /\ \A o \in Objects : count[o] \in Int
  BY DEF HintsInsert, CountsInv, Holders, Mine, Held, AtWork
<1>2. CASE Epilog({"resconf", "hints"}, "failed")
  BY <1>1, <1>2, AllIsGivenBack
<1>3. CASE CloseAll({"resconf"}) /\ mine' = mine \cup {"hints"} /\ stage' = "open"
  <2>1. /\ count' = [o \in Objects |-> IF o \in {"resconf"} THEN count[o] - 1 ELSE count[o]]
        /\ heap' = heap \ {o \in {"resconf"} : count[o] = 1}
        /\ mine' = Parts
    BY <1>1, <1>3 DEF CloseAll, Parts
  <2>2. AtWork' = {}
    BY <1>3 DEF AtWork
  <2>3. Holders'
    BY <1>1, <1>3, <2>1 DEF CountsInv, Holders, Mine, Held, Stages
  <2>4. ASSUME NEW o \in Objects
        PROVE  /\ count'[o] = Has(o, AtWork') + Has(o, mine') + Has(o, held')
               /\ o \in heap' <=> count'[o] > 0
    <3>1. count[o] = Has(o, AtWork) + Has(o, mine) + Has(o, held) /\ (o \in heap <=> count[o] > 0)
      BY DEF CountsInv, Counts
    <3>2. CASE o = "resconf"
      BY <1>1, <2>1, <2>2, <3>1, <3>2 DEF Has, Parts
    <3>3. CASE o # "resconf"
      BY <1>1, <2>1, <2>2, <3>1, <3>3 DEF Has, Parts
    <3>. QED
      BY <3>2, <3>3
  <2>. QED
    BY <2>3, <2>4 DEF CountsInv, Counts
<1>. QED
  BY <1>2, <1>3 DEF HintsInsert

(* dns_res_open() holds the three parts twice, with dns_res_stub().         *)
LEMMA OpenAcquireCounts == ASSUME CountsInv, OpenAcquire PROVE CountsInv'
<1>1. /\ stage = "open" /\ stage' = "opening" /\ AtWork = {} /\ mine = Parts /\ held = {}
      /\ UNCHANGED <<heap, mine, held>> /\ \A o \in Objects : count[o] \in Int
      /\ count' = [o \in Objects |-> IF o \in Parts THEN count[o] + 1 ELSE count[o]]
  BY DEF OpenAcquire, Acquire, AtWork, CountsInv, Holders, Mine, Held
<1>2. "R" \notin heap /\ AtWork' = Parts
  <2>1. "R" \notin heap
    BY <1>1 DEF CountsInv, Counts, Has, Objects, Parts
  <2>. QED
    BY <1>1, <2>1 DEF AtWork, Parts
<1>3. Holders'
  BY <1>1 DEF CountsInv, Holders, Mine, Held, Stages
<1>4. ASSUME NEW o \in Objects
      PROVE  /\ count'[o] = Has(o, AtWork') + Has(o, mine') + Has(o, held')
             /\ o \in heap' <=> count'[o] > 0
  <2>1. count[o] = Has(o, AtWork) + Has(o, mine) + Has(o, held) /\ (o \in heap <=> count[o] > 0)
    BY DEF CountsInv, Counts
  <2>. QED
    BY <1>1, <1>2, <2>1 DEF Has
<1>. QED
  BY <1>3, <1>4 DEF CountsInv, Counts

LEMMA OpenSocketCounts == ASSUME CountsInv, OpenSocket PROVE CountsInv'
<1>1. /\ stage = "opening" /\ mine = Parts /\ held = {} /\ AtWork = Parts \cup {"R"}
      /\ "R" \in heap /\ \A o \in Objects : count[o] \in Int
  BY DEF OpenSocket, CountsInv, Holders, Mine, Held, AtWork, Parts
<1>2. CASE held' = {} /\ Epilog({"R", "resconf", "hosts", "hints"}, "failed")
  <2>1. {"R", "resconf", "hosts", "hints"} = AtWork
    BY <1>1 DEF Parts
  <2>. QED
    BY <1>1, <1>2, <2>1, AllIsGivenBack
<1>3. CASE held' = Parts /\ Epilog({}, "ready")
  <2>1. /\ count' = [o \in Objects |-> count[o] - 0 - (IF o \in mine THEN 1 ELSE 0)]
        /\ heap' = heap \ {o \in mine : count'[o] = 0}
        /\ mine' = {} /\ stage' = "ready"
    BY <1>3 DEF Epilog
  <2>2. AtWork' = {"R"}
    BY <2>1 DEF AtWork
  <2>3. Holders'
    BY <1>1, <1>3, <2>1 DEF CountsInv, Holders, Mine, Held, Stages
  <2>4. ASSUME NEW o \in Objects
        PROVE  /\ count'[o] = Has(o, AtWork') + Has(o, mine') + Has(o, held')
               /\ o \in heap' <=> count'[o] > 0
    <3>1. count[o] = Has(o, AtWork) + Has(o, mine) + Has(o, held) /\ (o \in heap <=> count[o] > 0)
      BY DEF CountsInv, Counts
    <3>2. count'[o] = count[o] - Has(o, Parts)
      BY <1>1, <2>1 DEF Has
    <3>3. count'[o] = Has(o, AtWork') + Has(o, mine') + Has(o, held')
      BY <1>1, <1>3, <2>1, <2>2, <3>1, <3>2 DEF Has, Parts
    <3>4. o \in heap' <=> count'[o] > 0
      BY <1>1, <2>1, <3>1, <3>2 DEF Has, Parts
    <3>. QED
      BY <3>3, <3>4
  <2>. QED
    BY <2>3, <2>4 DEF CountsInv, Counts
<1>. QED
  BY <1>2, <1>3 DEF OpenSocket, Parts

LEMMA CloseCounts == ASSUME CountsInv, CloseResolver PROVE CountsInv'
<1>1. /\ stage = "ready" /\ stage' = "closed" /\ mine' = mine /\ held' = {}
      /\ mine = {} /\ held = Parts /\ AtWork = {"R"} /\ AtWork' = {}
      /\ \A o \in Objects : count[o] \in Int
  BY DEF CloseResolver, CountsInv, Holders, Mine, Held, AtWork
<1>2. /\ count' = [o \in Objects |-> IF o \in {"R"} \cup Parts THEN count[o] - 1 ELSE count[o]]
      /\ heap' = heap \ {o \in {"R"} \cup Parts : count[o] = 1}
  BY <1>1 DEF CloseResolver, CloseAll
<1>3. Holders'
  BY <1>1, <1>2 DEF CountsInv, Holders, Mine, Held, Stages
<1>4. ASSUME NEW o \in Objects
      PROVE  /\ count'[o] = Has(o, AtWork') + Has(o, mine') + Has(o, held')
             /\ o \in heap' <=> count'[o] > 0
  <2>1. count[o] = Has(o, AtWork) + Has(o, mine) + Has(o, held) /\ (o \in heap <=> count[o] > 0)
    BY DEF CountsInv, Counts
  <2>2. o \in {"R"} \cup Parts
    BY DEF Objects, Parts
  <2>3. count[o] = 1
    BY <1>1, <2>1, <2>2 DEF Has, Parts
  <2>. QED
    BY <1>1, <1>2, <2>2, <2>3 DEF Has
<1>. QED
  BY <1>3, <1>4 DEF CountsInv, Counts

LEMMA CountsKept == CountsInv /\ [ConfNext]_confVars => CountsInv'
  BY ReadingKeepsCounts, FailuresGiveBack, OpenResconfCounts, OpenHostsCounts, HintsOpenCounts,
     OpenMakeCounts, HandedOver, HintsBeginCounts, HintsInsertCounts, OpenAcquireCounts,
     OpenSocketCounts, CloseCounts DEF ConfNext

(* Wherever the start of a resolver fails and whenever it is closed, each   *)
(* reference count is the number of the holders and what nobody holds is    *)
(* freed: NothingLeaks, however long the three files are and whatever they  *)
(* say.                                                                     *)
THEOREM ConfNeverLeaks == ConfSpec => []NothingLeaks
<1>. QED
  BY InitCounts, CountsKept, CountsSuffice, PTL DEF ConfSpec

-----------------------------------------------------------------------------
(* The search: what has been given is the name itself, where it comes       *)
(* first, and the domains as far as the search has come.                    *)

Labels == STRING \cup {Itself}

Fields == {"nameserver", "search", "lookup", "family", "iface", "options"}

ConfShape ==
  /\ DOMAIN conf = Fields /\ conf.search \in Seq(Labels)
  /\ DOMAIN conf.options = DOMAIN DefaultOptions /\ conf.options.ndots \in Nat

List == IF qname.anchored THEN <<>> ELSE conf.search
GivenFirst == IF qname.dots >= conf.options.ndots THEN <<Itself>> ELSE <<>>

Proposed ==
  \E k \in 0..Len(List) :
    tried = SubSeq(List, 1, k) \o <<Itself>> \o SubSeq(List, k + 1, Len(List))

SearchShape ==
  /\ search \in [at : {"none", "self", "list", "leave", "end"}, srchi : Nat]
  /\ qname \in [anchored : BOOLEAN, dots : Nat]
  /\ search.at # "none" => stage \in {"ready", "closed"}

SearchPlaces ==
  /\ search.at = "self" => tried = <<>> /\ search.srchi = 0
  /\ search.at = "list" => /\ ~qname.anchored /\ search.srchi <= Len(conf.search)
                           /\ tried = GivenFirst \o SubSeq(conf.search, 1, search.srchi)
  /\ search.at \in {"leave", "end"} => Proposed

SearchInv == ConfShape /\ SearchShape /\ SearchPlaces

LEMMA InitSearch == ConfInit => SearchInv
<1>. SUFFICES ASSUME ConfInit PROVE SearchInv
  OBVIOUS
<1>1. ConfShape
  <2>1. conf.search = <<>> /\ conf.options = DefaultOptions /\ DOMAIN conf = Fields
    BY DEF ConfInit, Fields
  <2>2. DefaultOptions.ndots \in Nat
    BY DEF DefaultOptions
  <2>. QED
    BY <2>1, <2>2 DEF ConfShape
<1>2. SearchShape /\ SearchPlaces
  BY ConfAssumption DEF ConfInit, SearchShape, SearchPlaces, ConfAssumption
<1>. QED
  BY <1>1, <1>2 DEF SearchInv

(* Nothing of what the search is about changes once it can begin.           *)
LEMMA SameSearch ==
  ASSUME SearchInv, UNCHANGED <<conf, qname, search, tried>>, stage \in {"ready", "closed"} => stage' \in {"ready", "closed"}
  PROVE  SearchInv'
<1>1. ConfShape'
  BY DEF SearchInv, ConfShape
<1>2. SearchShape'
  BY DEF SearchInv, SearchShape
<1>3. SearchPlaces'
  BY DEF SearchInv, SearchPlaces, Proposed, List, GivenFirst
<1>. QED
  BY <1>1, <1>2, <1>3 DEF SearchInv

LEMMA NotYetSearch ==
  ASSUME SearchInv, ConfShape', stage \notin {"ready", "closed"}, UNCHANGED <<qname, search, tried>>
  PROVE  SearchInv'
<1>1. SearchShape' /\ search.at = "none"
  BY DEF SearchInv, SearchShape
<1>. QED
  BY <1>1 DEF SearchInv, SearchPlaces

(* The words of a line, and as many of them as there are places for.        *)
LEMMA WordsAreSeq ==
  ASSUME NEW S, NEW line, line.words \in Seq(S)
  PROVE  Words(line) \in Seq(S)
<1>1. PICK n \in Int : n <= Len(line.words) /\ Words(line) = SubSeq(line.words, 1, n)
  <2>1. Len(line.words) \in Nat /\ MaxWords \in Nat
    BY ConfAssumption, LenProperties DEF ConfAssumption
  <2>2. CASE Len(line.words) < MaxWords
    BY <2>1, <2>2 DEF Words
  <2>3. CASE ~(Len(line.words) < MaxWords)
    <3>1. MaxWords - 1 \in Int /\ MaxWords - 1 <= Len(line.words)
      BY <2>1, <2>3
    <3>. QED
      BY <2>3, <3>1 DEF Words
  <2>. QED
    BY <2>2, <2>3
<1>2. \A i \in 1..n : line.words[i] \in S
  BY <1>1, ElementOfSeq, LenProperties
<1>. QED
  BY <1>1, <1>2, SubSeqProperties

LEMMA UpToIsSeq ==
  ASSUME NEW S, NEW s \in Seq(S), NEW m \in Nat
  PROVE  UpTo(s, m) \in Seq(S)
<1>1. PICK n \in Int : n <= Len(s) /\ UpTo(s, m) = SubSeq(s, 1, n)
  <2>1. Len(s) \in Nat
    BY LenProperties
  <2>2. CASE Len(s) < m
    BY <2>1, <2>2 DEF UpTo
  <2>3. CASE ~(Len(s) < m)
    BY <2>1, <2>3 DEF UpTo
  <2>. QED
    BY <2>2, <2>3
<1>2. \A i \in 1..n : s[i] \in S
  BY <1>1, ElementOfSeq, LenProperties
<1>. QED
  BY <1>1, <1>2, SubSeqProperties

LEMMA ResolvLineShape ==
  ASSUME ConfShape, NEW line \in ResolvLines, ResolvLine(line)
  PROVE  ConfShape'
<1>1. line.words \in Seq(STRING) /\ MaxSearch \in Nat
  BY ConfAssumption DEF ConfAssumption
<1>2. PICK new : new = UpTo(Words(line), MaxSearch)
  OBVIOUS
<1>3. new \in Seq(Labels)
  <2>1. new \in Seq(STRING)
    BY <1>1, <1>2, WordsAreSeq, UpToIsSeq
  <2>. QED
    BY <2>1, SeqMonotonic DEF Labels
<1>4. CASE line.key \in {"domain", "search"}
  <2>1. conf' = [conf EXCEPT !.search = new]
    BY <1>2, <1>4 DEF ResolvLine
  <2>. QED
    BY <1>3, <2>1 DEF ConfShape, Fields
<1>5. CASE line.key \notin {"domain", "search"}
  <2>1. \/ conf' = conf
        \/ \E v : \/ conf' = [conf EXCEPT !.nameserver = v] \/ conf' = [conf EXCEPT !.lookup = v]
                  \/ conf' = [conf EXCEPT !.family = v] \/ conf' = [conf EXCEPT !.iface = v]
    <3>1. CASE line.key = "nameserver"
      <4>1. Nameserver(Words(line)[1])
        BY <3>1 DEF ResolvLine
      <4>2. PICK a : a = Words(line)[1]
        OBVIOUS
      <4>. QED
        BY <4>1, <4>2 DEF Nameserver
    <3>2. CASE line.key = "lookup"
      BY <3>2 DEF ResolvLine
    <3>3. CASE line.key = "family"
      BY <3>3 DEF ResolvLine
    <3>4. CASE line.key = "interface"
      BY <3>4 DEF ResolvLine
    <3>5. CASE line.key \notin {"nameserver", "lookup", "family", "interface"}
      BY <1>5, <3>5 DEF ResolvLine
    <3>. QED
      BY <3>1, <3>2, <3>3, <3>4, <3>5
  <2>. QED
    BY <2>1 DEF ConfShape, Fields
<1>. QED
  BY <1>4, <1>5

LEMMA OptionLineShape ==
  ASSUME ConfShape, NEW line \in OptionLines, OptionLine(line)
  PROVE  ConfShape'
<1>. DEFINE words == Words(line)
            last(o) == {k \in DOMAIN words : words[k][1] = o /\ \A j \in DOMAIN words :
                                               words[j][1] = o => j <= k}
<1>1. conf' = [conf EXCEPT !.options =
                 [o \in DOMAIN @ |-> IF last(o) = {} THEN @[o] ELSE words[CHOOSE k \in last(o) : TRUE][2]]]
  BY DEF OptionLine
<1>2. words \in Seq(STRING \X Nat)
  BY WordsAreSeq, ConfAssumption DEF ConfAssumption
<1>3. \A k \in DOMAIN words : words[k][2] \in Nat
  BY <1>2, LenProperties, ElementOfSeq
<1>4. ASSUME last("ndots") # {} PROVE (CHOOSE k \in last("ndots") : TRUE) \in DOMAIN words
  BY <1>4
<1>. HIDE DEF words, last
<1>5. PICK new : new = [o \in DOMAIN conf.options |->
                          IF last(o) = {} THEN conf.options[o] ELSE words[CHOOSE k \in last(o) : TRUE][2]]
  OBVIOUS
<1>6. conf' = [conf EXCEPT !.options = new]
  BY <1>1, <1>5
<1>7. "ndots" \in DOMAIN conf.options
  BY DEF ConfShape, DefaultOptions
<1>8. DOMAIN new = DOMAIN conf.options
  BY <1>5
<1>9. new["ndots"] \in Nat
  <2>1. CASE last("ndots") = {}
    BY <1>5, <1>7, <2>1 DEF ConfShape
  <2>2. CASE last("ndots") # {}
    <3>1. PICK k \in DOMAIN words : k = CHOOSE c \in last("ndots") : TRUE
      BY <1>4, <2>2
    <3>2. new["ndots"] = words[k][2]
      BY <1>5, <1>7, <2>2, <3>1
    <3>. QED
      BY <1>3, <3>2
  <2>. QED
    BY <2>1, <2>2
<1>. QED
  BY <1>6, <1>8, <1>9 DEF ConfShape, Fields

LEMMA OneLabel == ASSUME NEW S, NEW x \in S PROVE <<x>> \in Seq(S)
  OBVIOUS

LEMMA OthersKeepSearch ==
  ASSUME SearchInv, ConfNext \/ UNCHANGED confVars, ~SubmitName, ~SearchNext
  PROVE  SearchInv'
<1>1. CASE OpenResconf
  <2>1. /\ stage = "start" /\ UNCHANGED <<qname, search, tried>>
        /\ conf' = conf \/ \E d \in Domains : conf' = [conf EXCEPT !.search = <<d>>]
    BY <1>1 DEF OpenResconf
  <2>2. \A d \in Domains : <<d>> \in Seq(Labels)
    BY ConfAssumption, OneLabel DEF ConfAssumption, Labels
  <2>3. ConfShape'
    BY <2>1, <2>2 DEF SearchInv, ConfShape, Fields
  <2>. QED
    BY <2>1, <2>3, NotYetSearch
<1>2. CASE ReadResolv
  <2>1. stage = "resolv.conf" /\ UNCHANGED <<qname, search, tried>>
    BY <1>2 DEF ReadResolv
  <2>2. \/ \E line \in ResolvLines : ResolvLine(line)
        \/ \E line \in OptionLines : OptionLine(line)
    BY <1>2 DEF ReadResolv
  <2>3. ConfShape'
    BY <2>2, ResolvLineShape, OptionLineShape DEF SearchInv
  <2>. QED
    BY <2>1, <2>3, NotYetSearch
<1>3. CASE NssDone
  <2>1. PICK letters : letters = IF listed.sources = <<>> THEN <<>> ELSE EntryLetters(listed.sources[1])
    OBVIOUS
  <2>2. /\ stage = "nsswitch.conf" /\ UNCHANGED <<qname, search, tried>>
        /\ conf' = IF letters = <<>> THEN conf ELSE [conf EXCEPT !.lookup = letters]
    BY <1>3, <2>1 DEF NssDone
  <2>3. ConfShape'
    BY <2>2 DEF SearchInv, ConfShape, Fields
  <2>. QED
    BY <2>2, <2>3, NotYetSearch
<1>4. CASE ~OpenResconf /\ ~ReadResolv /\ ~NssDone
  <2>1. /\ UNCHANGED <<conf, qname, search, tried>>
        /\ stage \in {"ready", "closed"} => stage' \in {"ready", "closed"}
    BY <1>4 DEF ConfNext, ConfFileFails, ResolvDone, ReadNss, OpenHosts, ReadHosts, HostsFileFails, HostsDone,
       HintsBegin, HintsOpen, HintsInsert, OpenAcquire, OpenMake, OpenSocket, CloseResolver, confVars, data
  <2>. QED
    BY <2>1, SameSearch
<1>. QED
  BY <1>1, <1>2, <1>3, <1>4

LEMMA SubmitSearch == ASSUME SearchInv, SubmitName PROVE SearchInv'
<1>1. /\ stage = "ready" /\ stage' = stage /\ conf' = conf /\ tried' = <<>>
      /\ search' = [at |-> "self", srchi |-> 0] /\ qname' \in SearchNames
  BY DEF SubmitName, SearchStart, data
<1>2. SearchShape'
  BY <1>1, ConfAssumption DEF SearchInv, SearchShape, ConfAssumption
<1>3. ConfShape' /\ SearchPlaces'
  BY <1>1 DEF SearchInv, ConfShape, SearchPlaces
<1>. QED
  BY <1>2, <1>3 DEF SearchInv

LEMMA ItselfIsName == Itself \in Labels /\ <<Itself>> \in Seq(Labels)
<1>1. Itself \in Labels
  BY DEF Labels
<1>. QED
  BY <1>1, OneLabel

(* The name itself, first of all and last of all.                           *)
LEMMA FirstAndLast ==
  ASSUME NEW list \in Seq(Labels)
  PROVE  /\ <<Itself>> \o list = SubSeq(list, 1, 0) \o <<Itself>> \o SubSeq(list, 1, Len(list))
         /\ list \o <<Itself>> = SubSeq(list, 1, Len(list)) \o <<Itself>> \o SubSeq(list, Len(list) + 1, Len(list))
<1>1. <<Itself>> \in Seq(Labels) /\ Len(list) \in Nat
  BY LenProperties, ItselfIsName
<1>2. SubSeq(list, 1, 0) = <<>> /\ SubSeq(list, Len(list) + 1, Len(list)) = <<>> /\ SubSeq(list, 1, Len(list)) = list
  BY <1>1, SubSeqEmpty, SubSeqFull
<1>3. <<>> \o <<Itself>> = <<Itself>> /\ (list \o <<Itself>>) \o <<>> = list \o <<Itself>>
  BY <1>1, ConcatEmptySeq, ConcatProperties
<1>. QED
  BY <1>2, <1>3

LEMMA NextSearch == ASSUME SearchInv, SearchNext PROVE SearchInv'
<1>1. /\ stage = "ready" /\ stage' = stage /\ conf' = conf /\ qname' = qname
  BY DEF SearchNext, data
<1>2. /\ conf.search \in Seq(Labels) /\ Len(conf.search) \in Nat /\ conf.options.ndots \in Nat
      /\ qname.dots \in Nat /\ qname.anchored \in BOOLEAN /\ <<Itself>> \in Seq(Labels) /\ Itself \in Labels
      /\ search \in [at : {"none", "self", "list", "leave", "end"}, srchi : Nat]
  BY LenProperties, ItselfIsName DEF SearchInv, ConfShape, SearchShape
<1>3. ConfShape'
  BY <1>1 DEF SearchInv, ConfShape
<1>4. /\ search.at = "self" => tried = <<>> /\ search.srchi = 0
      /\ search.at = "list" => /\ ~qname.anchored /\ search.srchi <= Len(conf.search)
                               /\ tried = GivenFirst \o SubSeq(conf.search, 1, search.srchi)
      /\ search.at \in {"leave", "end"} => Proposed
  BY DEF SearchInv, SearchPlaces
<1>5. List' = List /\ GivenFirst' = GivenFirst /\ List \in Seq(Labels) /\ GivenFirst \in Seq(Labels)
  <2>1. List' = List /\ GivenFirst' = GivenFirst
    BY <1>1 DEF List, GivenFirst
  <2>2. <<>> \in Seq(Labels)
    BY EmptySeq
  <2>. QED
    BY <1>2, <2>1, <2>2 DEF List, GivenFirst
<1>6. SUFFICES /\ search' \in [at : {"list", "leave", "end"}, srchi : Nat]
               /\ SearchPlaces'
  BY <1>1, <1>2, <1>3 DEF SearchInv, SearchShape
<1>7. CASE search.at = "self" /\ ItselfFirst
           /\ Yields(Itself, IF qname.anchored THEN "leave" ELSE "list")
  <2>1. tried' = <<Itself>> /\ search' = [search EXCEPT !.at = IF qname.anchored THEN "leave" ELSE "list"]
    BY <1>4, <1>7 DEF Yields
  <2>2. CASE qname.anchored
    <3>1. search'.at = "leave" /\ search'.srchi \in Nat /\ search' \in [at : {"leave"}, srchi : Nat]
      BY <1>2, <2>1, <2>2
    <3>2. List = <<>> /\ Len(List) = 0
      BY <2>2 DEF List
    <3>3. tried' = SubSeq(List, 1, 0) \o <<Itself>> \o SubSeq(List, 1, 0)
      <4>1. SubSeq(List, 1, 0) = <<>>
        BY SubSeqEmpty
      <4>2. (<<>> \o <<Itself>>) \o <<>> = <<Itself>>
        BY <1>2, ConcatEmptySeq
      <4>. QED
        BY <2>1, <4>1, <4>2
    <3>4. Proposed'
      BY <1>5, <3>2, <3>3 DEF Proposed
    <3>. QED
      BY <1>1, <1>2, <3>1, <3>4 DEF SearchShape, SearchPlaces
  <2>3. CASE ~qname.anchored
    <3>1. search'.at = "list" /\ search'.srchi = 0 /\ search' \in [at : {"list"}, srchi : Nat]
      BY <1>2, <1>4, <1>7, <2>1, <2>3
    <3>2. GivenFirst = <<Itself>>
      BY <1>7, <2>3 DEF ItselfFirst, GivenFirst
    <3>3. tried' = GivenFirst \o SubSeq(conf.search, 1, 0)
      BY <1>2, <2>1, <3>2, SubSeqEmpty, ConcatEmptySeq
    <3>. QED
      BY <1>1, <1>2, <1>5, <2>3, <3>1, <3>3 DEF SearchShape, SearchPlaces
  <2>. QED
    BY <2>2, <2>3
<1>8. ASSUME search.at = "list" \/ (search.at = "self" /\ ~ItselfFirst)
      PROVE  /\ ~qname.anchored /\ List = conf.search /\ search.srchi \in 0..Len(conf.search)
             /\ tried = GivenFirst \o SubSeq(conf.search, 1, search.srchi)
  <2>1. CASE search.at = "list"
    BY <1>2, <1>4, <2>1 DEF List
  <2>2. CASE search.at = "self" /\ ~ItselfFirst
    <3>1. GivenFirst = <<>> /\ ~qname.anchored
      BY <1>2, <2>2 DEF GivenFirst, ItselfFirst
    <3>2. SubSeq(conf.search, 1, 0) = <<>> /\ <<>> \o <<>> = <<>>
      BY SubSeqEmpty, ConcatEmptySeq, EmptySeq
    <3>. QED
      BY <1>2, <1>4, <2>2, <3>1, <3>2 DEF List
  <2>. QED
    BY <1>8, <2>1, <2>2
<1>9. CASE /\ search.at = "list" \/ (search.at = "self" /\ ~ItselfFirst)
           /\ MoreDomains
           /\ tried' = Append(tried, conf.search[search.srchi + 1])
           /\ search' = [at |-> "list", srchi |-> search.srchi + 1]
  <2>1. PICK i : i = search.srchi
    OBVIOUS
  <2>2. i + 1 \in 1..Len(conf.search) /\ i \in Nat
    <3>1. search.srchi \in 0..Len(conf.search)
      BY <1>8, <1>9
    <3>2. search.srchi < Len(conf.search)
      BY <1>9 DEF MoreDomains
    <3>. QED
      BY <1>2, <2>1, <3>1, <3>2
  <2>3. conf.search[i + 1] \in Labels
    BY <1>2, <2>2, ElementOfSeq
  <2>4. SubSeq(conf.search, 1, i) \in Seq(Labels) /\ <<conf.search[i + 1]>> \in Seq(Labels)
    <3>1. \A k \in 1..i : conf.search[k] \in Labels
      BY <1>2, <2>2, ElementOfSeq
    <3>. QED
      BY <2>2, <2>3, <3>1, SubSeqProperties
  <2>5. SubSeq(conf.search, 1, i + 1) = SubSeq(conf.search, 1, i) \o <<conf.search[i + 1]>>
    <3>1. PICK j : j = i + 1
      OBVIOUS
    <3>2. 1 \in 1..Len(conf.search) /\ j \in 1..Len(conf.search) /\ j - 1 = i
      BY <1>2, <2>2, <3>1
    <3>3. SubSeq(conf.search, 1, j) = SubSeq(conf.search, 1, j - 1) \o <<conf.search[j]>>
      BY <1>2, <3>2, SubSeqRecursiveSecond
    <3>. QED
      BY <3>1, <3>2, <3>3
  <2>6. tried' = GivenFirst \o SubSeq(conf.search, 1, i + 1)
    <3>1. tried = GivenFirst \o SubSeq(conf.search, 1, i) /\ tried \in Seq(Labels)
      <4>1. tried = GivenFirst \o SubSeq(conf.search, 1, i)
        BY <1>8, <1>9, <2>1
      <4>2. GivenFirst \o SubSeq(conf.search, 1, i) \in Seq(Labels)
        BY <1>5, <2>4, ConcatProperties
      <4>. QED
        BY <4>1, <4>2
    <3>2. tried' = tried \o <<conf.search[i + 1]>>
      BY <1>9, <2>1, <2>3, <3>1, AppendIsConcat
    <3>3. PICK a, b, c : a = GivenFirst /\ b = SubSeq(conf.search, 1, i) /\ c = <<conf.search[i + 1]>>
      OBVIOUS
    <3>4. a \in Seq(Labels) /\ b \in Seq(Labels) /\ c \in Seq(Labels)
      BY <1>5, <2>4, <3>3
    <3>5. (a \o b) \o c = a \o (b \o c)
      <4>1. \A s, t, u \in Seq(Labels) : (s \o t) \o u = s \o (t \o u)
        BY ConcatAssociative
      <4>. QED
        BY <3>4, <4>1
    <3>. QED
      BY <2>5, <3>1, <3>2, <3>3, <3>5
  <2>7. search' = [at |-> "list", srchi |-> i + 1] /\ i + 1 <= Len(conf.search) /\ i + 1 \in Nat
    BY <1>9, <2>1, <2>2
  <2>8. ~qname.anchored
    BY <1>8, <1>9
  <2>. QED
    BY <1>1, <1>2, <1>5, <2>6, <2>7, <2>8 DEF SearchShape, SearchPlaces
<1>10. ASSUME search.at = "list" \/ (search.at = "self" /\ ~ItselfFirst), ~MoreDomains
       PROVE  tried = GivenFirst \o conf.search
  <2>1. search.srchi = Len(conf.search)
    BY <1>2, <1>8, <1>10 DEF MoreDomains
  <2>. QED
    BY <1>2, <1>8, <1>10, <2>1, SubSeqFull
<1>11. CASE /\ search.at = "list" \/ (search.at = "self" /\ ~ItselfFirst)
            /\ ~MoreDomains /\ ItselfLast
            /\ Yields(Itself, "leave")
  <2>1. GivenFirst = <<>>
    BY <1>2, <1>11 DEF GivenFirst, ItselfLast
  <2>2. tried = conf.search
    BY <1>2, <1>10, <1>11, <2>1, ConcatEmptySeq
  <2>3. tried' = conf.search \o <<Itself>>
    BY <1>2, <1>11, <2>2, AppendIsConcat DEF Yields
  <2>4. Len(List) \in 0..Len(List) /\ List = conf.search
    BY <1>2, <1>8, <1>11
  <2>5. Proposed'
    BY <1>2, <1>5, <2>3, <2>4, FirstAndLast DEF Proposed
  <2>6. search' = [search EXCEPT !.at = "leave"]
    BY <1>11 DEF Yields
  <2>7. search'.at = "leave" /\ search' \in [at : {"leave"}, srchi : Nat]
    BY <1>2, <2>6
  <2>. QED
    BY <1>1, <1>2, <2>5, <2>7 DEF SearchShape, SearchPlaces
<1>12. CASE /\ \/ search.at = "leave"
               \/ search.at = "list" /\ ~MoreDomains /\ ~ItselfLast
            /\ search' = [search EXCEPT !.at = "end"] /\ UNCHANGED tried
  <2>1. search'.at = "end" /\ search' \in [at : {"end"}, srchi : Nat]
    BY <1>2, <1>12
  <2>2. Proposed
    <3>1. CASE search.at = "leave"
      BY <1>4, <3>1
    <3>2. CASE search.at = "list" /\ ~MoreDomains /\ ~ItselfLast
      <4>1. GivenFirst = <<Itself>>
        BY <1>2, <3>2 DEF GivenFirst, ItselfLast
      <4>2. tried = <<Itself>> \o conf.search /\ List = conf.search
        BY <1>8, <1>10, <3>2, <4>1
      <4>3. 0 \in 0..Len(List) /\ 0 + 1 = 1
        BY <1>2, <4>2
      <4>. QED
        BY <1>2, <4>2, <4>3, FirstAndLast DEF Proposed
    <3>. QED
      BY <1>12, <3>1, <3>2
  <2>3. Proposed'
    BY <1>5, <1>12, <2>2 DEF Proposed
  <2>. QED
    BY <1>1, <1>2, <2>1, <2>3 DEF SearchShape, SearchPlaces
<1>. QED
  BY <1>7, <1>9, <1>11, <1>12 DEF SearchNext

LEMMA SearchKept == SearchInv /\ [ConfNext]_confVars => SearchInv'
  BY OthersKeepSearch, SubmitSearch, NextSearch

(* However many dots a name has and wherever resolv.conf puts the limit, a  *)
(* search gives the name itself once and each domain once: NameIsTriedOnce. *)
THEOREM NamesAreTriedOnce == ConfSpec => []NameIsTriedOnce
<1>1. SearchInv => NameIsTriedOnce
  BY DEF SearchInv, SearchPlaces, NameIsTriedOnce, Proposed, List
<1>. QED
  BY <1>1, InitSearch, SearchKept, PTL DEF ConfSpec

-----------------------------------------------------------------------------
(* The permutations                                                         *)

(* A set of numbers has a least one.                                        *)
LEMMA FirstOf ==
  ASSUME NEW S, S \subseteq Nat, S # {}
  PROVE  \E k \in S : \A o \in S : k <= o
<1>. DEFINE Less == {p \in Nat \X Nat : p[1] < p[2]}
<1>1. IsWellFoundedOn(Less, Nat)
  BY NatLessThanWellFounded DEF OpToRel
<1>2. PICK k \in S : \A o \in S : ~ (<<o, k>> \in Less)
  BY <1>1, WFMin
<1>3. ASSUME NEW o \in S PROVE k <= o
  <2>1. k \in Nat /\ o \in Nat /\ <<o, k>> \notin Less
    BY <1>2
  <2>2. ~ (o < k)
    BY <2>1
  <2>. QED
    BY <2>1, <2>2
<1>. QED
  BY <1>3

Pairs == Halves \X Halves
Numbers == 0..(Half * Half - 1)

(* A loop of m turns, whose k-th turn is G, has a function of its values.   *)
Turns(a, G, m, g) == g[0] = a /\ \A k \in 1..m : g[k] = G[<<k, g[k - 1]>>]

LEMMA TurnsExist ==
  ASSUME NEW S, NEW a \in S, NEW m \in Nat, NEW G \in [(1..m) \X S -> S]
  PROVE  \E g \in [0..m -> S] : Turns(a, G, m, g)
<1>. DEFINE Bad == {j \in 0..m : ~ \E g \in [0..j -> S] : Turns(a, G, j, g)}
<1>1. SUFFICES ASSUME Bad # {} PROVE FALSE
  <2>1. Bad = {} => \E g \in [0..m -> S] : Turns(a, G, m, g)
    OBVIOUS
  <2>. QED
    BY <2>1
<1>2. PICK j \in Bad : \A o \in Bad : j <= o
  <2>1. Bad \subseteq Nat
    OBVIOUS
  <2>. HIDE DEF Bad
  <2>. QED
    BY <1>1, <2>1, FirstOf
<1>3. j \in 0..m /\ j \in Nat /\ ~ \E g \in [0..j -> S] : Turns(a, G, j, g)
  OBVIOUS
<1>4. CASE j = 0
  <2>1. [k \in 0..0 |-> a] \in [0..0 -> S] /\ Turns(a, G, 0, [k \in 0..0 |-> a])
    BY DEF Turns
  <2>. QED
    BY <1>3, <1>4, <2>1
<1>5. CASE j # 0
  <2>1. j - 1 \in 0..m /\ j - 1 \notin Bad
    <3>1. j - 1 \in 0..m /\ ~ (j <= j - 1)
      BY <1>3, <1>5
    <3>. HIDE DEF Bad
    <3>. QED
      BY <1>2, <3>1
  <2>2. PICK g \in [0..(j - 1) -> S] : Turns(a, G, j - 1, g)
    BY <2>1
  <2>3. PICK h : h = [k \in 0..j |-> IF k = j THEN G[<<j, g[j - 1]>>] ELSE g[k]]
    OBVIOUS
  <2>4. g[j - 1] \in S /\ G[<<j, g[j - 1]>>] \in S
    BY <1>3, <1>5, <2>2
  <2>5. h \in [0..j -> S]
    <3>1. \A k \in 0..j : k # j => k \in 0..(j - 1)
      BY <1>3
    <3>. QED
      BY <2>2, <2>3, <2>4, <3>1
  <2>6. Turns(a, G, j, h)
    <3>1. h[0] = a
      BY <1>3, <1>5, <2>2, <2>3 DEF Turns
    <3>2. ASSUME NEW k \in 1..j PROVE h[k] = G[<<k, h[k - 1]>>]
      <4>1. k - 1 \in 0..j /\ k - 1 # j /\ k \in 0..j
        BY <1>3
      <4>2. h[k - 1] = g[k - 1]
        BY <2>3, <4>1
      <4>3. k = j \/ k \in 1..(j - 1)
        BY <1>3
      <4>4. CASE k = j
        BY <2>3, <4>1, <4>2, <4>4
      <4>5. CASE k # j
        BY <2>2, <2>3, <4>1, <4>2, <4>3, <4>5 DEF Turns
      <4>. QED
        BY <4>4, <4>5
    <3>. QED
      BY <3>1, <3>2 DEF Turns
  <2>. QED
    BY <1>3, <2>5, <2>6
<1>. QED
  BY <1>4, <1>5

LEMMA TimesIsMonotone ==
  \A a, b, c \in Nat : a <= b => a * c <= b * c
<1>1. SUFFICES ASSUME NEW a \in Nat, NEW b \in Nat, NEW c \in Nat, a <= b PROVE a * c <= b * c
  OBVIOUS
<1>2. PICK d \in Nat : b = a + d
  <2>1. b - a \in Nat /\ b = a + (b - a)
    BY <1>1
  <2>. QED
    BY <2>1
<1>3. (a + d) * c = a * c + d * c /\ a * c \in Nat /\ d * c \in Nat
  OBVIOUS
<1>. QED
  BY <1>2, <1>3

(* Numbers are what two halves can tell apart.                              *)
LEMMA HalvesOfNumber ==
  \A n \in Numbers :
    /\ n \div Half \in Halves /\ n % Half \in Halves
    /\ n = (n \div Half) * Half + (n % Half)
<1>1. Half \in Nat \ {0} /\ Half * Half \in Nat
  BY PermutorAssumption DEF PermutorAssumption
<1>2. SUFFICES ASSUME NEW n \in Numbers
               PROVE  /\ n \div Half \in Halves /\ n % Half \in Halves
                      /\ n = (n \div Half) * Half + (n % Half)
  OBVIOUS
<1>3. n \in Nat /\ n < Half * Half
  BY <1>1 DEF Numbers
<1>4. n \div Half \in Nat /\ n % Half \in Halves /\ n = Half * (n \div Half) + (n % Half)
  BY <1>1, <1>3 DEF Halves
<1>5. PICK q \in Nat, r \in Nat : q = n \div Half /\ r = n % Half
  BY <1>1, <1>4 DEF Halves
<1>6. n = q * Half + r
  BY <1>1, <1>4, <1>5
<1>7. Half <= q => Half * Half <= q * Half
  BY <1>1, <1>5, TimesIsMonotone
<1>8. q < Half
  BY <1>1, <1>3, <1>5, <1>6, <1>7
<1>. QED
  BY <1>1, <1>4, <1>5, <1>6, <1>8 DEF Halves

(* Halves and numbers are the same thing.                                   *)
LEMMA SplitAndJoin ==
  /\ \A n \in Numbers : Split(n) \in Pairs /\ Join(Split(n)) = n
  /\ \A h \in Pairs : Join(h) \in Numbers /\ Split(Join(h)) = h
<1>1. Half \in Nat \ {0} /\ Half * Half \in Nat
  BY PermutorAssumption DEF PermutorAssumption
<1>2. ASSUME NEW n \in Numbers PROVE Split(n) \in Pairs /\ Join(Split(n)) = n
  <2>1. PICK q \in Halves, r \in Halves : q = n \div Half /\ r = n % Half /\ n = q * Half + r
    BY HalvesOfNumber
  <2>2. q % Half = q
    BY <1>1, <2>1 DEF Halves
  <2>3. Split(n) = <<q, r>>
    BY <2>1, <2>2 DEF Split
  <2>. QED
    BY <2>1, <2>3 DEF Join, Pairs
<1>3. ASSUME NEW h \in Pairs PROVE Join(h) \in Numbers /\ Split(Join(h)) = h
  <2>1. PICK a \in Halves, b \in Halves : h = <<a, b>>
    BY DEF Pairs
  <2>2. a \in Nat /\ b \in Nat /\ a <= Half - 1 /\ b <= Half - 1
    BY <1>1 DEF Halves
  <2>3. a * Half <= (Half - 1) * Half /\ a * Half \in Nat
    BY <1>1, <2>2, TimesIsMonotone
  <2>4. (a * Half + b) \in Numbers
    BY <1>1, <2>2, <2>3 DEF Numbers
  <2>5. (a * Half + b) \div Half = a /\ (a * Half + b) % Half = b
    BY <1>1, <2>2
  <2>. QED
    BY <2>1, <2>4, <2>5, <1>1, <2>2 DEF Join, Split
<1>. QED
  BY <1>2, <1>3

(* A turn is undone by the turn back, and the other way round.              *)
LEMMA RoundAndBack ==
  ASSUME NEW f \in RoundFunctions, NEW k \in 0..(Rounds - 2), NEW h \in Pairs
  PROVE  /\ Round(f, k, h) \in Pairs /\ Unround(f, k, Round(f, k, h)) = h
         /\ Unround(f, k, h) \in Pairs /\ Round(f, k, Unround(f, k, h)) = h
<1>1. PICK a \in Halves, b \in Halves : h = <<a, b>>
  BY DEF Pairs
<1>2. f[<<k, a>>] \in Halves /\ f[<<k, b>>] \in Halves
  BY DEF RoundFunctions
<1>3. /\ Xor(a, f[<<k, b>>]) \in Halves /\ Xor(Xor(a, f[<<k, b>>]), f[<<k, b>>]) = a
      /\ Xor(b, f[<<k, a>>]) \in Halves /\ Xor(Xor(b, f[<<k, a>>]), f[<<k, a>>]) = b
  BY <1>2, PermutorAssumption DEF PermutorAssumption
<1>. QED
  BY <1>1, <1>3 DEF Round, Unround, Pairs

(* What the two loops compute: the last of the turns from the given halves. *)
LEMMA ETurns ==
  ASSUME NEW f \in RoundFunctions, NEW n \in Numbers
  PROVE  \E h \in [0..(Rounds - 1) -> Pairs] :
           /\ h[0] = Split(n) /\ \A k \in 1..(Rounds - 1) : h[k] = Round(f, k - 1, h[k - 1])
           /\ E(f, n) = Join(h[Rounds - 1])
<1>1. Rounds \in Nat \ {0} /\ Rounds - 1 \in Nat
  BY PermutorAssumption DEF PermutorAssumption
<1>2. Split(n) \in Pairs
  BY SplitAndJoin
<1>. DEFINE G == [x \in (1..(Rounds - 1)) \X Pairs |-> Round(f, x[1] - 1, x[2])]
            Fixed(h) == h = [k \in 0..(Rounds - 1) |->
                               IF k = 0 THEN Split(n) ELSE Round(f, k - 1, h[k - 1])]
            e == CHOOSE h : Fixed(h)
<1>3. G \in [(1..(Rounds - 1)) \X Pairs -> Pairs]
  <2>1. ASSUME NEW k \in 1..(Rounds - 1), NEW h \in Pairs PROVE Round(f, k - 1, h) \in Pairs
    BY <1>1, RoundAndBack
  <2>. QED
    BY <2>1
<1>4. PICK g \in [0..(Rounds - 1) -> Pairs] : Turns(Split(n), G, Rounds - 1, g)
  <2>. HIDE DEF G
  <2>. QED
    BY <1>1, <1>2, <1>3, TurnsExist
<1>5. \A k \in 1..(Rounds - 1) : g[k] = Round(f, k - 1, g[k - 1])
  <2>1. ASSUME NEW k \in 1..(Rounds - 1) PROVE g[k] = Round(f, k - 1, g[k - 1])
    <3>1. k - 1 \in 0..(Rounds - 1)
      BY <1>1
    <3>2. g[k] = G[<<k, g[k - 1]>>]
      BY <1>4 DEF Turns
    <3>3. g[k - 1] \in Pairs /\ << k, g[k - 1] >> \in (1..(Rounds - 1)) \X Pairs
      BY <1>4, <3>1
    <3>. QED
      BY <3>2, <3>3
  <2>. QED
    BY <2>1
<1>6. Fixed(g)
  <2>1. \A k \in 0..(Rounds - 1) : k # 0 => k \in 1..(Rounds - 1)
    BY <1>1
  <2>. QED
    BY <1>4, <1>5, <2>1 DEF Turns
<1>7. Fixed(e)
  BY <1>6
<1>8. E(f, n) = Join(e[Rounds - 1])
  BY DEF E
<1>9. ASSUME NEW k \in 0..(Rounds - 1), e[k] # g[k] PROVE FALSE
  <2>. DEFINE Bad == {j \in 0..(Rounds - 1) : e[j] # g[j]}
  <2>1. PICK j \in Bad : \A o \in Bad : j <= o
    <3>. HIDE DEF e
    <3>1. Bad \subseteq Nat /\ Bad # {}
      BY <1>1, <1>9
    <3>. HIDE DEF Bad
    <3>. QED
      BY <3>1, FirstOf
  <2>. HIDE DEF e
  <2>2. j \in 0..(Rounds - 1) /\ e[j] # g[j]
    OBVIOUS
  <2>3. j # 0
    BY <1>1, <1>6, <1>7, <2>2
  <2>4. j - 1 \in 0..(Rounds - 1) /\ ~ (j <= j - 1)
    BY <1>1, <2>2, <2>3
  <2>5. e[j - 1] = g[j - 1]
    BY <2>1, <2>4
  <2>6. e[j] = Round(f, j - 1, e[j - 1]) /\ g[j] = Round(f, j - 1, g[j - 1])
    BY <1>6, <1>7, <2>2, <2>3
  <2>. QED
    BY <2>2, <2>5, <2>6
<1>. HIDE DEF e
<1>10. Rounds - 1 \in 0..(Rounds - 1)
  BY <1>1
<1>11. E(f, n) = Join(g[Rounds - 1]) /\ g[0] = Split(n)
  BY <1>4, <1>8, <1>9, <1>10 DEF Turns
<1>. QED
  BY <1>5, <1>11

(* The way back through the turns ends where the way there began:           *)
(* dns_k_permutor_D() undoes dns_k_permutor_E().                            *)
LEMMA DUndoesE ==
  ASSUME NEW f \in RoundFunctions, NEW n \in Numbers
  PROVE  E(f, n) \in Numbers /\ D(f, E(f, n)) = n
<1>1. Rounds \in Nat \ {0} /\ Rounds - 1 \in Nat
  BY PermutorAssumption DEF PermutorAssumption
<1>2. PICK h \in [0..(Rounds - 1) -> Pairs] :
        /\ h[0] = Split(n) /\ \A k \in 1..(Rounds - 1) : h[k] = Round(f, k - 1, h[k - 1])
        /\ E(f, n) = Join(h[Rounds - 1])
  BY ETurns
<1>3. PICK m : m = E(f, n)
  OBVIOUS
<1>4. m \in Numbers /\ Split(m) = h[Rounds - 1]
  BY <1>1, <1>2, <1>3, SplitAndJoin
<1>. DEFINE Fixed(g) == g = [k \in 0..(Rounds - 1) |->
                               IF k = Rounds - 1 THEN Split(m) ELSE Unround(f, k, g[k + 1])]
            d == CHOOSE g : Fixed(g)
<1>5. \A k \in 0..(Rounds - 1) : k # Rounds - 1 => h[k] = Unround(f, k, h[k + 1])
  <2>1. ASSUME NEW k \in 0..(Rounds - 1), k # Rounds - 1 PROVE h[k] = Unround(f, k, h[k + 1])
    <3>1. k + 1 \in 1..(Rounds - 1) /\ (k + 1) - 1 = k /\ k \in 0..(Rounds - 2)
      BY <1>1, <2>1
    <3>2. h[k + 1] = Round(f, k, h[k]) /\ h[k] \in Pairs
      BY <1>2, <3>1
    <3>. QED
      BY <3>1, <3>2, RoundAndBack
  <2>. QED
    BY <2>1
<1>6. Fixed(h)
  BY <1>1, <1>2, <1>4, <1>5
<1>7. Fixed(d)
  BY <1>6
<1>8. D(f, m) = Join(d[0])
  BY DEF D
<1>9. d[0] = h[0]
  <2>. DEFINE Bad == {j \in 0..(Rounds - 1) : d[(Rounds - 1) - j] # h[(Rounds - 1) - j]}
  <2>. HIDE DEF d
  <2>1. SUFFICES ASSUME d[0] # h[0] PROVE FALSE
    OBVIOUS
  <2>2. PICK j \in Bad : \A o \in Bad : j <= o
    <3>1. Bad \subseteq Nat /\ Rounds - 1 \in Bad
      BY <1>1, <2>1
    <3>. HIDE DEF Bad
    <3>. QED
      BY <3>1, FirstOf
  <2>3. j \in 0..(Rounds - 1) /\ d[(Rounds - 1) - j] # h[(Rounds - 1) - j]
    OBVIOUS
  <2>4. PICK k \in 0..(Rounds - 1) : k = (Rounds - 1) - j
    BY <1>1, <2>3
  <2>5. k # Rounds - 1
    BY <1>1, <1>6, <1>7, <2>3, <2>4
  <2>6. j - 1 \in 0..(Rounds - 1) /\ ~ (j <= j - 1) /\ (Rounds - 1) - (j - 1) = k + 1
    BY <1>1, <2>3, <2>4, <2>5
  <2>7. d[k + 1] = h[k + 1]
    BY <2>2, <2>6
  <2>8. d[k] = Unround(f, k, d[k + 1]) /\ h[k] = Unround(f, k, h[k + 1])
    BY <1>5, <1>7, <2>4, <2>5
  <2>. QED
    BY <2>3, <2>4, <2>7, <2>8
<1>10. Join(Split(n)) = n
  BY SplitAndJoin
<1>. HIDE DEF d
<1>. QED
  BY <1>2, <1>3, <1>4, <1>8, <1>9, <1>10

(* Every number is the cipher of one number and of no other.                *)
LEMMA EachComesOnce ==
  ASSUME NEW f \in RoundFunctions, NEW m \in Numbers
  PROVE  \E n \in Numbers : E(f, n) = m /\ \A o \in Numbers : E(f, o) = m => o = n
<1>1. Half * Half \in Nat /\ IsFiniteSet(Numbers)
  <2>1. Half \in Nat
    BY PermutorAssumption DEF PermutorAssumption
  <2>2. Half * Half \in Nat
    BY <2>1
  <2>3. IsFiniteSet(0..(Half * Half - 1))
    BY <2>2, FS_Interval
  <2>. QED
    BY <2>2, <2>3 DEF Numbers
<1>2. \A n, o \in Numbers : E(f, n) = E(f, o) => n = o
  BY DUndoesE
<1>3. ASSUME \A n \in Numbers : E(f, n) # m PROVE FALSE
  <2>. DEFINE g == [n \in Numbers |-> E(f, n)]
  <2>1. g \in [Numbers -> Numbers \ {m}]
    BY <1>3, DUndoesE
  <2>2. /\ IsFiniteSet(Numbers \ {m}) /\ Cardinality(Numbers \ {m}) = Cardinality(Numbers) - 1
        /\ Cardinality(Numbers) \in Nat /\ Cardinality(Numbers \ {m}) \in Nat
    BY <1>1, FS_RemoveElement, FS_CardinalityType
  <2>3. Cardinality(Numbers \ {m}) < Cardinality(Numbers)
    BY <2>2
  <2>4. PICK n \in Numbers, o \in Numbers : n # o /\ g[n] = g[o]
    <3>. HIDE DEF g
    <3>. QED
      BY <1>1, <2>1, <2>2, <2>3, FS_PigeonHole
  <2>. QED
    BY <1>2, <2>4
<1>. QED
  BY <1>2, <1>3

(* While the counter of dns_k_permutor_step() goes once through its values, *)
(* each id of the range is given for one of them and for no other, whatever *)
(* the round function (the key) is.                                         *)
THEOREM EachIdComesOnce ==
  ASSUME NEW f \in RoundFunctions, NEW id \in (Limit + 1 - Length)..Limit
  PROVE  \E n \in Numbers :
           /\ E(f, n) < Length /\ E(f, n) + (Limit + 1 - Length) = id
           /\ \A o \in Numbers :
                E(f, o) < Length /\ E(f, o) + (Limit + 1 - Length) = id => o = n
<1>1. /\ Half \in Nat /\ Half * Half \in Nat /\ Length \in 1..(Half * Half)
      /\ Limit \in Nat /\ Limit + 1 >= Length
  <2>1. Half \in Nat
    BY PermutorAssumption DEF PermutorAssumption
  <2>2. Half * Half \in Nat
    BY <2>1
  <2>. QED
    BY <2>1, <2>2, PermutorAssumption DEF PermutorAssumption
<1>2. PICK low \in Nat : low = Limit + 1 - Length
  BY <1>1
<1>3. id - low \in Numbers /\ id - low < Length /\ id \in Nat
  BY <1>1, <1>2 DEF Numbers
<1>4. PICK n \in Numbers : E(f, n) = id - low /\ \A o \in Numbers : E(f, o) = id - low => o = n
  BY <1>3, EachComesOnce
<1>5. \A o \in Numbers : E(f, o) \in Nat
  BY <1>1, DUndoesE DEF Numbers
<1>6. \A o \in Numbers : E(f, o) + low = id => E(f, o) = id - low
  BY <1>2, <1>3, <1>5
<1>7. E(f, n) < Length /\ E(f, n) + low = id
  BY <1>2, <1>3, <1>4, <1>5
<1>. QED
  BY <1>2, <1>4, <1>6, <1>7

(* The shuffling.  A box of the code's kind puts different values to        *)
(* different places.                                                        *)
Boxes == {box \in [Halves -> Halves] : \A a, b \in Halves : box[a] = box[b] => a = b}

(* A turn of dns_k_shuffle16() keeps different halves different.            *)
LEMMA MixIsOneToOne ==
  ASSUME NEW box \in Boxes, NEW s \in Halves, NEW g \in Pairs, NEW h \in Pairs
  PROVE  Mix(box, s, g) \in Pairs /\ (Mix(box, s, g) = Mix(box, s, h) => g = h)
<1>1. /\ \A a, b \in Halves : Xor(a, b) \in Halves /\ Xor(Xor(a, b), b) = a
      /\ box \in [Halves -> Halves] /\ \A a, b \in Halves : box[a] = box[b] => a = b
  BY PermutorAssumption DEF PermutorAssumption, Boxes
<1>2. PICK a \in Halves, b \in Halves, c \in Halves, d \in Halves : g = <<a, b>> /\ h = <<c, d>>
  BY DEF Pairs
<1>3. PICK x \in Halves, y \in Halves :
        x = Xor(box[Xor(a, s)], b) /\ y = Xor(box[Xor(c, s)], d)
  BY <1>1
<1>4. box[b] \in Halves /\ box[d] \in Halves
  BY <1>1
<1>5. Mix(box, s, g) = <<x, Xor(box[b], x)>> /\ Mix(box, s, h) = <<y, Xor(box[d], y)>>
  BY <1>2, <1>3 DEF Mix
<1>6. Mix(box, s, g) \in Pairs
  BY <1>1, <1>4, <1>5 DEF Pairs
<1>7. ASSUME Mix(box, s, g) = Mix(box, s, h) PROVE g = h
  <2>1. x = y /\ Xor(box[b], x) = Xor(box[d], x)
    BY <1>5, <1>7
  <2>2. box[b] = box[d]
    BY <1>1, <1>4, <2>1
  <2>3. b = d
    BY <1>1, <2>2
  <2>4. PICK u \in Halves, v \in Halves : u = box[Xor(a, s)] /\ v = box[Xor(c, s)]
    BY <1>1
  <2>5. Xor(u, b) = Xor(v, b)
    BY <1>3, <2>1, <2>3, <2>4
  <2>6. u = v
    BY <1>1, <2>5
  <2>7. Xor(a, s) = Xor(c, s)
    BY <1>1, <2>4, <2>6
  <2>8. a = c
    BY <1>1, <2>7
  <2>. QED
    BY <1>2, <2>3, <2>8
<1>. QED
  BY <1>6, <1>7

(* What the loop of dns_k_shuffle16() computes: the last of its turns.      *)
LEMMA ShuffleTurns ==
  ASSUME NEW box \in Boxes, NEW seed \in Seq(Halves), NEW n \in Numbers
  PROVE  \E h \in [0..Len(seed) -> Pairs] :
           /\ h[0] = <<n % Half, n \div Half>>
           /\ \A k \in 1..Len(seed) : h[k] = Mix(box, seed[k], h[k - 1])
           /\ Shuffle(box, seed, n) = Join(h[Len(seed)])
<1>1. Len(seed) \in Nat /\ \A k \in 1..Len(seed) : seed[k] \in Halves
  OBVIOUS
<1>2. <<n % Half, n \div Half>> \in Pairs
  BY HalvesOfNumber DEF Pairs
<1>. DEFINE G == [x \in (1..Len(seed)) \X Pairs |-> Mix(box, seed[x[1]], x[2])]
            Fixed(h) == h = [k \in 0..Len(seed) |->
                               IF k = 0 THEN <<n % Half, n \div Half>> ELSE Mix(box, seed[k], h[k - 1])]
            e == CHOOSE h : Fixed(h)
<1>3. G \in [(1..Len(seed)) \X Pairs -> Pairs]
  <2>1. ASSUME NEW k \in 1..Len(seed), NEW h \in Pairs PROVE Mix(box, seed[k], h) \in Pairs
    BY <1>1, MixIsOneToOne
  <2>. QED
    BY <2>1
<1>4. PICK g \in [0..Len(seed) -> Pairs] : Turns(<<n % Half, n \div Half>>, G, Len(seed), g)
  <2>. HIDE DEF G
  <2>. QED
    BY <1>1, <1>2, <1>3, TurnsExist
<1>5. \A k \in 1..Len(seed) : g[k] = Mix(box, seed[k], g[k - 1])
  <2>1. ASSUME NEW k \in 1..Len(seed) PROVE g[k] = Mix(box, seed[k], g[k - 1])
    <3>1. k - 1 \in 0..Len(seed)
      BY <1>1
    <3>2. g[k] = G[<<k, g[k - 1]>>]
      BY <1>4 DEF Turns
    <3>3. g[k - 1] \in Pairs /\ << k, g[k - 1] >> \in (1..Len(seed)) \X Pairs
      BY <1>4, <3>1
    <3>. QED
      BY <3>2, <3>3
  <2>. QED
    BY <2>1
<1>6. Fixed(g)
  <2>1. \A k \in 0..Len(seed) : k # 0 => k \in 1..Len(seed)
    BY <1>1
  <2>2. g[0] = <<n % Half, n \div Half>>
    BY <1>4 DEF Turns
  <2>. QED
    BY <1>5, <2>1, <2>2
<1>7. Fixed(e)
  BY <1>6
<1>8. Shuffle(box, seed, n) = Join(e[Len(seed)])
  BY DEF Shuffle
<1>9. ASSUME NEW k \in 0..Len(seed), e[k] # g[k] PROVE FALSE
  <2>. DEFINE Bad == {j \in 0..Len(seed) : e[j] # g[j]}
  <2>1. PICK j \in Bad : \A o \in Bad : j <= o
    <3>. HIDE DEF e
    <3>1. Bad \subseteq Nat /\ Bad # {}
      BY <1>1, <1>9
    <3>. HIDE DEF Bad
    <3>. QED
      BY <3>1, FirstOf
  <2>. HIDE DEF e
  <2>2. j \in 0..Len(seed) /\ e[j] # g[j]
    OBVIOUS
  <2>3. j # 0
    BY <1>1, <1>6, <1>7, <2>2
  <2>4. j - 1 \in 0..Len(seed) /\ ~ (j <= j - 1)
    BY <1>1, <2>2, <2>3
  <2>5. e[j - 1] = g[j - 1]
    BY <2>1, <2>4
  <2>6. e[j] = Mix(box, seed[j], e[j - 1]) /\ g[j] = Mix(box, seed[j], g[j - 1])
    BY <1>6, <1>7, <2>2, <2>3
  <2>. QED
    BY <2>2, <2>5, <2>6
<1>. HIDE DEF e
<1>10. Shuffle(box, seed, n) = Join(g[Len(seed)]) /\ g[0] = <<n % Half, n \div Half>>
  BY <1>1, <1>4, <1>8, <1>9 DEF Turns
<1>. QED
  BY <1>5, <1>10

(* dns_k_shuffle16() gives different numbers to different ones, as the      *)
(* orders of dns_hints_i_cmp() and dns_rr_i_shuffle() need it to.           *)
THEOREM ShuffleIsOneToOne ==
  ASSUME NEW box \in Boxes, NEW seed \in Seq(Halves), NEW m \in Numbers, NEW n \in Numbers
  PROVE  /\ Shuffle(box, seed, n) \in Numbers
         /\ Shuffle(box, seed, m) = Shuffle(box, seed, n) => m = n
<1>1. Len(seed) \in Nat /\ \A k \in 1..Len(seed) : seed[k] \in Halves
  OBVIOUS
<1>2. PICK g \in [0..Len(seed) -> Pairs] :
           /\ g[0] = <<m % Half, m \div Half>>
           /\ \A k \in 1..Len(seed) : g[k] = Mix(box, seed[k], g[k - 1])
           /\ Shuffle(box, seed, m) = Join(g[Len(seed)])
  BY ShuffleTurns
<1>3. PICK h \in [0..Len(seed) -> Pairs] :
           /\ h[0] = <<n % Half, n \div Half>>
           /\ \A k \in 1..Len(seed) : h[k] = Mix(box, seed[k], h[k - 1])
           /\ Shuffle(box, seed, n) = Join(h[Len(seed)])
  BY ShuffleTurns
<1>4. Shuffle(box, seed, n) \in Numbers
  BY <1>1, <1>3, SplitAndJoin
<1>5. ASSUME Shuffle(box, seed, m) = Shuffle(box, seed, n) PROVE m = n
  <2>1. g[Len(seed)] = h[Len(seed)]
    <3>1. g[Len(seed)] \in Pairs /\ h[Len(seed)] \in Pairs
      BY <1>1
    <3>2. Join(g[Len(seed)]) = Join(h[Len(seed)])
      BY <1>2, <1>3, <1>5
    <3>. QED
      BY <3>1, <3>2, SplitAndJoin
  <2>. DEFINE Same == {j \in 0..Len(seed) : g[j] = h[j]}
  <2>2. PICK j \in Same : \A o \in Same : j <= o
    <3>1. Same \subseteq Nat /\ Len(seed) \in Same
      BY <1>1, <2>1
    <3>. HIDE DEF Same
    <3>. QED
      BY <3>1, FirstOf
  <2>3. j \in 0..Len(seed) /\ g[j] = h[j]
    OBVIOUS
  <2>4. ASSUME j # 0 PROVE FALSE
    <3>1. j \in 1..Len(seed) /\ j - 1 \in 0..Len(seed) /\ ~ (j <= j - 1)
      BY <1>1, <2>3, <2>4
    <3>2. g[j - 1] \in Pairs /\ h[j - 1] \in Pairs /\ seed[j] \in Halves
      BY <1>1, <3>1
    <3>3. g[j] = Mix(box, seed[j], g[j - 1]) /\ h[j] = Mix(box, seed[j], h[j - 1])
      BY <1>2, <1>3, <3>1
    <3>4. g[j - 1] = h[j - 1]
      BY <2>3, <3>2, <3>3, MixIsOneToOne
    <3>. QED
      BY <2>2, <3>1, <3>4
  <2>5. m % Half = n % Half /\ m \div Half = n \div Half
    BY <1>2, <1>3, <2>3, <2>4
  <2>. QED
    BY <2>5, HalvesOfNumber
<1>. QED
  BY <1>4, <1>5

-----------------------------------------------------------------------------
(* The packets                                                              *)

IsSeq(s) == s \in Seq({s[k] : k \in DOMAIN s})

LEMMA SeqWhat ==
  ASSUME NEW s, IsSeq(s)
  PROVE  Len(s) \in Nat /\ DOMAIN s = 1..Len(s)
BY DEF IsSeq

LEMMA SeqIsSeq == ASSUME NEW S, NEW s \in Seq(S) PROVE IsSeq(s)
<1>1. Len(s) \in Nat /\ s \in [1..Len(s) -> {s[k] : k \in DOMAIN s}]
  OBVIOUS
<1>. QED
  BY <1>1, SeqDef DEF IsSeq

(* Two sequences behind each other.                                         *)
LEMMA Glued ==
  ASSUME NEW a, NEW b, IsSeq(a), IsSeq(b)
  PROVE  /\ IsSeq(a \o b) /\ Len(a \o b) = Len(a) + Len(b)
         /\ \A k \in 1..Len(a) : (a \o b)[k] = a[k]
         /\ \A k \in (Len(a) + 1)..(Len(a) + Len(b)) : (a \o b)[k] = b[k - Len(a)]
<1>1. PICK S : S = {a[k] : k \in DOMAIN a} \cup {b[k] : k \in DOMAIN b}
  OBVIOUS
<1>2. a \in Seq(S) /\ b \in Seq(S)
  <2>1. {a[k] : k \in DOMAIN a} \subseteq S /\ {b[k] : k \in DOMAIN b} \subseteq S
    BY <1>1
  <2>2. Len(a) \in Nat /\ a \in [1..Len(a) -> {a[k] : k \in DOMAIN a}]
    BY SeqWhat DEF IsSeq
  <2>3. Len(b) \in Nat /\ b \in [1..Len(b) -> {b[k] : k \in DOMAIN b}]
    BY SeqWhat DEF IsSeq
  <2>4. a \in [1..Len(a) -> S] /\ b \in [1..Len(b) -> S]
    BY <2>1, <2>2, <2>3
  <2>. QED
    BY <2>2, <2>3, <2>4, SeqDef
<1>3. a \o b \in Seq(S)
  BY <1>2
<1>4. /\ Len(a \o b) = Len(a) + Len(b)
      /\ \A k \in 1..(Len(a) + Len(b)) : (a \o b)[k] = IF k <= Len(a) THEN a[k] ELSE b[k - Len(a)]
  BY <1>2, ConcatProperties
<1>5. Len(a) \in Nat /\ Len(b) \in Nat
  BY <1>2
<1>6. IsSeq(a \o b)
  BY <1>3, SeqIsSeq
<1>. QED
  BY <1>4, <1>5, <1>6

(* Pointers lead back.                                                      *)
Backward(p) ==
  IsSeq(p.data) /\ \A k \in DOMAIN p.data : p.data[k].cell = "ptr" => p.data[k].to \in 1..(k - 1)

(* Where pointers lead in n steps.                                          *)
Follows(p, f) ==
  /\ f \in [0..MaxPtrs -> [DOMAIN p.data -> DOMAIN p.data]]
  /\ \A k \in DOMAIN p.data : f[0][k] = k
  /\ \A n \in 1..MaxPtrs, k \in DOMAIN p.data :
       f[n][k] = IF p.data[k].cell # "ptr" THEN k ELSE f[n - 1][p.data[k].to]
  /\ \A k : Target(p, k) = f[MaxPtrs][k]

LEMMA TargetTurns ==
  ASSUME NEW p, Backward(p)
  PROVE  \E f : Follows(p, f)
<1>1. MaxPtrs \in Nat
  BY PacketAssumption DEF PacketAssumption
<1>. DEFINE Cells == DOMAIN p.data
            To(k) == p.data[k].to
            Is(k) == p.data[k].cell = "ptr"
            id == [k \in Cells |-> k]
            G == [x \in (1..MaxPtrs) \X [Cells -> Cells] |-> [k \in Cells |-> IF ~Is(k) THEN k ELSE x[2][To(k)]]]
            Fixed(f) == f = [n \in 0..MaxPtrs |->
                               [j \in Cells |-> IF n = 0 \/ p.data[j].cell # "ptr" THEN j ELSE f[n - 1][p.data[j].to]]]
            e == CHOOSE f : Fixed(f)
<1>2. \A k \in Cells : Is(k) => To(k) \in Cells
  <2>1. Len(p.data) \in Nat /\ Cells = 1..Len(p.data)
    BY SeqWhat DEF Backward
  <2>. QED
    BY <2>1 DEF Backward
<1>3. G \in [(1..MaxPtrs) \X [Cells -> Cells] -> [Cells -> Cells]]
  <2>. HIDE DEF Cells, To, Is
  <2>. QED
    BY <1>2
<1>4. PICK g \in [0..MaxPtrs -> [Cells -> Cells]] : Turns(id, G, MaxPtrs, g)
  <2>1. id \in [Cells -> Cells]
    OBVIOUS
  <2>. HIDE DEF G, Cells, id
  <2>. QED
    BY <1>1, <1>3, <2>1, TurnsExist
<1>5. \A n \in 1..MaxPtrs : g[n] = [k \in Cells |-> IF ~Is(k) THEN k ELSE g[n - 1][To(k)]]
  <2>1. ASSUME NEW n \in 1..MaxPtrs PROVE g[n] = [k \in Cells |-> IF ~Is(k) THEN k ELSE g[n - 1][To(k)]]
    <3>. HIDE DEF Cells, To, Is, id
    <3>1. n - 1 \in 0..MaxPtrs
      BY <1>1
    <3>2. g[n - 1] \in [Cells -> Cells]
      BY <1>4, <3>1
    <3>3. g[n] = G[<<n, g[n - 1]>>]
      BY <1>4 DEF Turns
    <3>4. << n, g[n - 1] >> \in (1..MaxPtrs) \X [Cells -> Cells]
      BY <3>2
    <3>. QED
      BY <3>3, <3>4
  <2>. QED
    BY <2>1
<1>6. g[0] = id /\ 0 \in 0..MaxPtrs
  BY <1>1, <1>4 DEF Turns
<1>7. Fixed(g)
  <2>1. \A n \in 0..MaxPtrs : n # 0 => n \in 1..MaxPtrs
    BY <1>1
  <2>2. ASSUME NEW n \in 0..MaxPtrs
        PROVE  g[n] = [j \in Cells |-> IF n = 0 \/ p.data[j].cell # "ptr" THEN j ELSE g[n - 1][p.data[j].to]]
    <3>1. CASE n = 0
      BY <1>6, <3>1
    <3>2. CASE n # 0
      <4>1. g[n] = [k \in Cells |-> IF ~Is(k) THEN k ELSE g[n - 1][To(k)]]
        BY <1>5, <2>1, <3>2
      <4>. QED
        BY <3>2, <4>1
    <3>. QED
      BY <3>1, <3>2
  <2>. HIDE DEF Cells
  <2>. QED
    BY <1>4, <2>2
<1>8. Fixed(e)
  BY <1>7
<1>9. \A k : Target(p, k) = e[MaxPtrs][k]
  BY DEF Target
<1>. HIDE DEF e
<1>10. ASSUME NEW k \in 0..MaxPtrs, e[k] # g[k] PROVE FALSE
  <2>. DEFINE Bad == {n \in 0..MaxPtrs : e[n] # g[n]}
  <2>1. PICK n \in Bad : \A o \in Bad : n <= o
    <3>1. Bad \subseteq Nat /\ Bad # {}
      BY <1>1, <1>10
    <3>. HIDE DEF Bad
    <3>. QED
      BY <3>1, FirstOf
  <2>2. n \in 0..MaxPtrs /\ e[n] # g[n]
    OBVIOUS
  <2>3. n # 0
    BY <1>1, <1>7, <1>8, <2>2
  <2>4. n - 1 \in 0..MaxPtrs /\ ~ (n <= n - 1)
    BY <1>1, <2>2, <2>3
  <2>5. e[n - 1] = g[n - 1]
    BY <2>1, <2>4
  <2>6. /\ e[n] = [j \in Cells |-> IF n = 0 \/ p.data[j].cell # "ptr" THEN j ELSE e[n - 1][p.data[j].to]]
        /\ g[n] = [j \in Cells |-> IF n = 0 \/ p.data[j].cell # "ptr" THEN j ELSE g[n - 1][p.data[j].to]]
    <3>. HIDE DEF Cells
    <3>. QED
      BY <1>7, <1>8, <2>2
  <2>. QED
    BY <2>2, <2>5, <2>6
<1>11. \A k : Target(p, k) = g[MaxPtrs][k]
  BY <1>1, <1>9, <1>10
<1>12. \A n \in 1..MaxPtrs, k \in Cells : g[n][k] = IF ~Is(k) THEN k ELSE g[n - 1][To(k)]
  <2>1. ASSUME NEW n \in 1..MaxPtrs, NEW k \in Cells PROVE g[n][k] = IF ~Is(k) THEN k ELSE g[n - 1][To(k)]
    <3>1. g[n] = [j \in Cells |-> IF ~Is(j) THEN j ELSE g[n - 1][To(j)]]
      BY <1>5
    <3>. HIDE DEF Cells, To, Is
    <3>. QED
      BY <3>1
  <2>. QED
    BY <2>1
<1>13. \A k \in Cells : g[0][k] = k
  BY <1>6
<1>. HIDE DEF id, G
<1>14. Follows(p, g)
  BY <1>4, <1>11, <1>12, <1>13 DEF Follows
<1>. QED
  BY <1>14

(* A packet that has the same cells and more has the same labels at them.   *)
Extends(q, p) == Len(p.data) <= Len(q.data) /\ \A k \in DOMAIN p.data : q.data[k] = p.data[k]

LEMMA TargetStays ==
  ASSUME NEW p, NEW q, Backward(p), Backward(q), Extends(q, p), NEW k \in DOMAIN p.data
  PROVE  Target(q, k) = Target(p, k) /\ Target(p, k) \in DOMAIN p.data
<1>1. MaxPtrs \in Nat
  BY PacketAssumption DEF PacketAssumption
<1>2. PICK f : Follows(p, f)
  BY TargetTurns
<1>3. PICK g : Follows(q, g)
  BY TargetTurns
<1>4. DOMAIN p.data \subseteq DOMAIN q.data
  BY SeqWhat DEF Backward, Extends
<1>. DEFINE Bad == {n \in 0..MaxPtrs : \E j \in DOMAIN p.data : g[n][j] # f[n][j]}
<1>5. ASSUME Bad # {} PROVE FALSE
  <2>1. PICK n \in Bad : \A o \in Bad : n <= o
    <3>1. Bad \subseteq Nat
      BY <1>1
    <3>. HIDE DEF Bad
    <3>. QED
      BY <1>5, <3>1, FirstOf
  <2>2. PICK j \in DOMAIN p.data : g[n][j] # f[n][j]
    OBVIOUS
  <2>3. n \in 0..MaxPtrs /\ n # 0
    BY <1>2, <1>3, <1>4, <2>2 DEF Follows
  <2>4. n \in 1..MaxPtrs /\ n - 1 \in 0..MaxPtrs /\ ~ (n <= n - 1)
    BY <1>1, <2>3
  <2>5. \A o \in DOMAIN p.data : g[n - 1][o] = f[n - 1][o]
    BY <2>1, <2>4
  <2>6. /\ f[n][j] = IF p.data[j].cell # "ptr" THEN j ELSE f[n - 1][p.data[j].to]
        /\ g[n][j] = IF q.data[j].cell # "ptr" THEN j ELSE g[n - 1][q.data[j].to]
    BY <1>2, <1>3, <1>4, <2>4 DEF Follows
  <2>7. p.data[j].cell = "ptr" => p.data[j].to \in DOMAIN p.data
    BY SeqWhat DEF Backward
  <2>. QED
    BY <2>2, <2>5, <2>6, <2>7 DEF Extends
<1>6. g[MaxPtrs][k] = f[MaxPtrs][k] /\ f[MaxPtrs][k] \in DOMAIN p.data
  BY <1>1, <1>2, <1>5 DEF Follows
<1>. QED
  BY <1>2, <1>3, <1>6 DEF Follows

LEMMA LabelStays ==
  ASSUME NEW p, NEW q, Backward(p), Backward(q), Extends(q, p), NEW k \in DOMAIN p.data, HasLabel(p, k)
  PROVE  HasLabel(q, k)
<1>1. Target(q, k) = Target(p, k) /\ Target(p, k) \in DOMAIN p.data
  BY TargetStays
<1>2. k < End(q)
  BY SeqWhat DEF Backward, Extends, End
<1>. QED
  BY <1>1, <1>2 DEF HasLabel, Extends

(* A name as it is read: positions that have a label.                       *)
Entry(p) == [at : {k \in DOMAIN p.data : HasLabel(p, k)}, label : {p.data[k].label : k \in DOMAIN p.data}]
LabelOf(p, k) == [at |-> k, label |-> p.data[Target(p, k)].label]

LEMMA LabelWhat ==
  ASSUME NEW p, Backward(p), NEW k \in Nat \ {0}, HasLabel(p, k)
  PROVE  k \in DOMAIN p.data /\ LabelOf(p, k) \in Entry(p) /\ Target(p, k) + 1 \in 1..End(p)
<1>1. Len(p.data) \in Nat /\ DOMAIN p.data = 1..Len(p.data)
  BY SeqWhat DEF Backward
<1>2. k \in DOMAIN p.data
  BY <1>1 DEF HasLabel, End
<1>3. Extends(p, p)
  BY <1>1 DEF Extends
<1>4. Target(p, k) \in DOMAIN p.data
  BY <1>2, <1>3, TargetStays
<1>. QED
  BY <1>1, <1>2, <1>4 DEF LabelOf, Entry, End

LEMMA ChainTurns ==
  ASSUME NEW p, Backward(p)
  PROVE  \A from \in Nat \ {0} :
           Chain(p, from) \in Seq(Entry(p)) /\ (HasLabel(p, from) => Chain(p, from) # <<>>)
<1>. DEFINE L == Len(p.data)
            I == 1..End(p)
            S == [I -> Seq(Entry(p))]
            none == [k \in I |-> <<>>]
            Put1(k, rest) == IF ~HasLabel(p, k) THEN <<>> ELSE <<LabelOf(p, k)>> \o rest[Target(p, k) + 1]
            G == [x \in (1..L) \X S |-> [k \in I |-> Put1(k, x[2])]]
            Fixed(f) == f = [n \in 0..L |->
                               [k \in I |-> IF n = 0 \/ ~HasLabel(p, k) THEN <<>>
                                            ELSE <<[at |-> k, label |-> p.data[Target(p, k)].label]>> \o
                                                   f[n - 1][Target(p, k) + 1]]]
            e == CHOOSE f : Fixed(f)
<1>1. L \in Nat /\ I \subseteq Nat \ {0} /\ DOMAIN p.data = 1..L
  BY SeqWhat DEF Backward, End
<1>2. ASSUME NEW k \in I, NEW rest \in S PROVE Put1(k, rest) \in Seq(Entry(p))
  <2>1. CASE HasLabel(p, k)
    <3>1. LabelOf(p, k) \in Entry(p) /\ Target(p, k) + 1 \in I
      BY <1>1, <2>1, LabelWhat
    <3>2. PICK s \in Seq(Entry(p)) : s = rest[Target(p, k) + 1]
      BY <3>1
    <3>3. <<LabelOf(p, k)>> \in Seq(Entry(p))
      BY <3>1
    <3>4. <<LabelOf(p, k)>> \o s \in Seq(Entry(p))
      BY <3>3
    <3>. QED
      BY <2>1, <3>2, <3>4
  <2>2. CASE ~HasLabel(p, k)
    BY <2>2
  <2>. QED
    BY <2>1, <2>2
<1>. HIDE DEF Put1
<1>3. G \in [(1..L) \X S -> S] /\ none \in S
  <2>. HIDE DEF I, L
  <2>1. ASSUME NEW x \in (1..L) \X S PROVE [k \in I |-> Put1(k, x[2])] \in S
    BY <1>2
  <2>2. none \in S
    OBVIOUS
  <2>. HIDE DEF S, none
  <2>. QED
    BY <2>1, <2>2
<1>4. PICK g \in [0..L -> S] : Turns(none, G, L, g)
  <2>. HIDE DEF G, S, L, none
  <2>. QED
    BY <1>1, <1>3, TurnsExist
<1>5. \A n \in 1..L : g[n] = [k \in I |-> Put1(k, g[n - 1])]
  <2>1. ASSUME NEW n \in 1..L PROVE g[n] = [k \in I |-> Put1(k, g[n - 1])]
    <3>. HIDE DEF I, S, L, none
    <3>1. n - 1 \in 0..L
      BY <1>1
    <3>2. g[n - 1] \in S
      BY <1>4, <3>1
    <3>3. g[n] = G[<<n, g[n - 1]>>]
      BY <1>4 DEF Turns
    <3>4. << n, g[n - 1] >> \in (1..L) \X S
      BY <3>2
    <3>. QED
      BY <3>3, <3>4
  <2>. QED
    BY <2>1
<1>6. g[0] = none /\ 0 \in 0..L
  BY <1>1, <1>4 DEF Turns
<1>. HIDE DEF G
<1>7. Fixed(g)
  <2>1. \A n \in 0..L : n # 0 => n \in 1..L
    BY <1>1
  <2>2. ASSUME NEW n \in 0..L
        PROVE  g[n] = [k \in I |-> IF n = 0 \/ ~HasLabel(p, k) THEN <<>>
                                   ELSE <<[at |-> k, label |-> p.data[Target(p, k)].label]>> \o
                                          g[n - 1][Target(p, k) + 1]]
    <3>1. CASE n = 0
      <4>. HIDE DEF I
      <4>. QED
        BY <1>6, <3>1
    <3>2. CASE n # 0
      <4>1. g[n] = [k \in I |-> Put1(k, g[n - 1])]
        BY <1>5, <2>1, <3>2
      <4>. HIDE DEF I, L
      <4>. QED
        BY <3>2, <4>1 DEF Put1, LabelOf
    <3>. QED
      BY <3>1, <3>2
  <2>. HIDE DEF S, I, L
  <2>. QED
    BY <1>4, <2>2
<1>8. Fixed(e)
  BY <1>7
<1>9. \A from : Chain(p, from) = IF from < End(p) THEN e[L][from] ELSE <<>>
  BY DEF Chain
<1>. HIDE DEF e
<1>10. ASSUME NEW i \in 0..L, e[i] # g[i] PROVE FALSE
  <2>. DEFINE Bad == {n \in 0..L : e[n] # g[n]}
  <2>1. PICK n \in Bad : \A o \in Bad : n <= o
    <3>1. Bad \subseteq Nat /\ Bad # {}
      BY <1>1, <1>10
    <3>. HIDE DEF Bad
    <3>. QED
      BY <3>1, FirstOf
  <2>2. n \in 0..L /\ e[n] # g[n]
    OBVIOUS
  <2>. HIDE DEF L, I
  <2>3. /\ e[n] = [k \in I |-> IF n = 0 \/ ~HasLabel(p, k) THEN <<>>
                             ELSE <<[at |-> k, label |-> p.data[Target(p, k)].label]>> \o
                                    e[n - 1][Target(p, k) + 1]]
        /\ g[n] = [k \in I |-> IF n = 0 \/ ~HasLabel(p, k) THEN <<>>
                             ELSE <<[at |-> k, label |-> p.data[Target(p, k)].label]>> \o
                                    g[n - 1][Target(p, k) + 1]]
    BY <1>7, <1>8, <2>2
  <2>4. n # 0
    BY <2>2, <2>3
  <2>5. n - 1 \in 0..L /\ ~ (n <= n - 1)
    BY <1>1, <2>2, <2>4
  <2>6. e[n - 1] = g[n - 1]
    BY <2>1, <2>5
  <2>. QED
    BY <2>2, <2>3, <2>6
<1>11. SUFFICES ASSUME NEW from \in Nat \ {0}
                PROVE  Chain(p, from) \in Seq(Entry(p)) /\ (HasLabel(p, from) => Chain(p, from) # <<>>)
  OBVIOUS
<1>12. Chain(p, from) = IF from < End(p) THEN g[L][from] ELSE <<>>
  BY <1>1, <1>9, <1>10
<1>13. CASE ~(from < End(p))
  BY <1>12, <1>13 DEF HasLabel
<1>14. CASE from < End(p)
  <2>1. from \in I /\ L \in 0..L
    BY <1>1, <1>14 DEF End
  <2>2. Chain(p, from) \in Seq(Entry(p))
    <3>1. g[L] \in S
      BY <1>4, <2>1
    <3>. HIDE DEF L, I
    <3>. QED
      BY <1>12, <1>14, <2>1, <3>1
  <2>3. ASSUME HasLabel(p, from) PROVE Chain(p, from) # <<>>
    <3>1. L \in 1..L
      BY <1>1, <1>14 DEF End
    <3>2. g[L][from] = <<LabelOf(p, from)>> \o g[L - 1][Target(p, from) + 1]
      <4>1. g[L] = [k \in I |-> Put1(k, g[L - 1])]
        BY <1>5, <3>1
      <4>. HIDE DEF I, L
      <4>. QED
        BY <2>1, <2>3, <4>1 DEF Put1
    <3>3. Target(p, from) + 1 \in I /\ L - 1 \in 0..L /\ LabelOf(p, from) \in Entry(p)
      BY <1>1, <2>1, <2>3, LabelWhat
    <3>4. PICK s \in Seq(Entry(p)) : s = g[L - 1][Target(p, from) + 1]
      BY <1>4, <3>3
    <3>5. <<LabelOf(p, from)>> \in Seq(Entry(p)) /\ Len(<<LabelOf(p, from)>>) = 1
      BY <3>3
    <3>6. Len(<<LabelOf(p, from)>> \o s) = 1 + Len(s) /\ Len(s) \in Nat
      BY <3>5, ConcatProperties
    <3>. QED
      BY <1>12, <1>14, <3>2, <3>4, <3>6
  <2>. QED
    BY <2>2, <2>3
<1>. QED
  BY <1>13, <1>14

(* The least of a set of numbers is one of them.                            *)
LEMMA MinWhat == ASSUME NEW S, S \subseteq Nat, S # {} PROVE Min(S) \in S /\ \A o \in S : Min(S) <= o
<1>1. \E k \in S : \A o \in S : k <= o
  BY FirstOf
<1>. QED
  BY <1>1 DEF Min

(* What names of the packet Match() may give.                               *)
Labelled(p) == {k \in DOMAIN p.data : HasLabel(p, k)}
Tried(p, known) == DOMAIN known = {"label", "ended", "at"} /\ (known.at = 0 \/ known.at \in Labelled(p))

LEMMA MatchWhat ==
  ASSUME NEW p, Backward(p), IsSeq(p.dict), \A d \in DOMAIN p.dict : p.dict[d] \in Nat \ {0},
         NEW name, NEW s
  PROVE  Match(p, name, s) = 0 \/ Match(p, name, s) \in Labelled(p)
<1>. DEFINE rest == SubSeq(name, s + 1, Len(name))
            Try(known, b) ==
              LET left == <<known.label>> \o rest
                  new == NameAt(p, b)
                  n == Common(left, new)
              IN  IF known.ended \/ known.at # 0 THEN known
                  ELSE IF left = new THEN [known EXCEPT !.at = b]
                  ELSE IF n = Len(left) THEN [known EXCEPT !.ended = TRUE]
                  ELSE [known EXCEPT !.label = left[n + 1]]
            FixedAll(known, c, f) == f = [n \in 0..Len(c) |-> IF n = 0 THEN known ELSE Try(f[n - 1], c[n].at)]
            TryAll(known, c) == (CHOOSE f : FixedAll(known, c, f))[Len(c)]
            first == [label |-> name[s], ended |-> FALSE, at |-> 0]
            FixedLast(f) == f = [d \in 0..Len(p.dict) |->
                                   IF d = 0 THEN first ELSE TryAll(f[d - 1], Chain(p, p.dict[d]))]
            last == CHOOSE f : FixedLast(f)
<1>1. Match(p, name, s) = last[Len(p.dict)].at
  BY DEF Match
<1>2. ASSUME NEW known, Tried(p, known), NEW b \in Labelled(p) PROVE Tried(p, Try(known, b))
  BY <1>2 DEF Tried
<1>. HIDE DEF Try
<1>3. ASSUME NEW known, Tried(p, known), NEW c \in Seq(Entry(p)) PROVE Tried(p, TryAll(known, c))
  <2>1. Len(c) \in Nat /\ \A n \in 1..Len(c) : c[n].at \in Labelled(p)
    <3>1. Len(c) \in Nat /\ \A n \in 1..Len(c) : c[n] \in Entry(p)
      OBVIOUS
    <3>2. \A x \in Entry(p) : x.at \in Labelled(p)
      BY DEF Entry, Labelled
    <3>. QED
      BY <3>1, <3>2
  <2>. DEFINE Bad == {m \in 0..Len(c) : ~ \E f : f = [n \in 0..m |-> IF n = 0 THEN known ELSE Try(f[n - 1], c[n].at)]}
  <2>2. ASSUME Bad # {} PROVE FALSE
    <3>1. PICK m \in Bad : \A o \in Bad : m <= o
      <4>1. Bad \subseteq Nat
        BY <2>1
      <4>. HIDE DEF Bad
      <4>. QED
        BY <2>2, <4>1, FirstOf
    <3>2. m \in 0..Len(c) /\ ~ \E f : f = [n \in 0..m |-> IF n = 0 THEN known ELSE Try(f[n - 1], c[n].at)]
      OBVIOUS
    <3>3. CASE m = 0
      <4>1. PICK f : f = [n \in 0..0 |-> known]
        OBVIOUS
      <4>2. f = [n \in 0..0 |-> IF n = 0 THEN known ELSE Try(f[n - 1], c[n].at)]
        BY <4>1
      <4>. QED
        BY <3>2, <3>3, <4>2
    <3>4. CASE m # 0
      <4>1. m - 1 \in 0..Len(c) /\ ~ (m <= m - 1) /\ m \in Nat
        BY <2>1, <3>2, <3>4
      <4>2. PICK h : h = [n \in 0..(m - 1) |-> IF n = 0 THEN known ELSE Try(h[n - 1], c[n].at)]
        BY <3>1, <4>1
      <4>3. PICK f : f = [n \in 0..m |-> IF n = 0 THEN known ELSE Try(h[n - 1], c[n].at)]
        OBVIOUS
      <4>4. \A n \in 0..m : n # m => f[n] = h[n]
        BY <4>1, <4>2, <4>3
      <4>5. \A n \in 0..m : n # 0 => f[n - 1] = h[n - 1]
        BY <4>1, <4>4
      <4>6. f = [n \in 0..m |-> IF n = 0 THEN known ELSE Try(f[n - 1], c[n].at)]
        BY <4>3, <4>5
      <4>. QED
        BY <3>2, <4>6
    <3>. QED
      BY <3>3, <3>4
  <2>3. \E f : FixedAll(known, c, f)
    <3>1. Len(c) \in 0..Len(c)
      BY <2>1
    <3>. QED
      BY <2>2, <3>1
  <2>4. PICK f : f = CHOOSE g : FixedAll(known, c, g)
    OBVIOUS
  <2>5. FixedAll(known, c, f)
    BY <2>3, <2>4
  <2>. DEFINE Wrong == {n \in 0..Len(c) : ~Tried(p, f[n])}
  <2>6. ASSUME Wrong # {} PROVE FALSE
    <3>1. PICK m \in Wrong : \A o \in Wrong : m <= o
      <4>1. Wrong \subseteq Nat
        BY <2>1
      <4>. HIDE DEF Wrong
      <4>. QED
        BY <2>6, <4>1, FirstOf
    <3>2. m \in 0..Len(c) /\ m # 0
      BY <1>3, <2>1, <2>5
    <3>3. m \in 1..Len(c) /\ m - 1 \in 0..Len(c) /\ ~ (m <= m - 1)
      BY <2>1, <3>2
    <3>4. Tried(p, f[m - 1])
      BY <3>1, <3>3
    <3>5. f[m] = Try(f[m - 1], c[m].at)
      BY <2>5, <3>2
    <3>. QED
      BY <1>2, <2>1, <3>1, <3>3, <3>4, <3>5
  <2>7. Len(c) \in 0..Len(c)
    BY <2>1
  <2>. QED
    BY <2>4, <2>6, <2>7
<1>. HIDE DEF TryAll
<1>4. Len(p.dict) \in Nat /\ \A d \in 1..Len(p.dict) : Chain(p, p.dict[d]) \in Seq(Entry(p))
  BY SeqWhat, ChainTurns
<1>5. Tried(p, first)
  BY DEF Tried
<1>. HIDE DEF first
<1>. DEFINE Bad == {m \in 0..Len(p.dict) :
                      ~ \E f : f = [d \in 0..m |-> IF d = 0 THEN first ELSE TryAll(f[d - 1], Chain(p, p.dict[d]))]}
<1>6. ASSUME Bad # {} PROVE FALSE
  <2>1. PICK m \in Bad : \A o \in Bad : m <= o
    <3>1. Bad \subseteq Nat
      BY <1>4
    <3>. HIDE DEF Bad
    <3>. QED
      BY <1>6, <3>1, FirstOf
  <2>2. m \in 0..Len(p.dict) /\
        ~ \E f : f = [d \in 0..m |-> IF d = 0 THEN first ELSE TryAll(f[d - 1], Chain(p, p.dict[d]))]
    OBVIOUS
  <2>3. CASE m = 0
    <3>1. PICK f : f = [d \in 0..0 |-> first]
      OBVIOUS
    <3>2. f = [d \in 0..0 |-> IF d = 0 THEN first ELSE TryAll(f[d - 1], Chain(p, p.dict[d]))]
      BY <3>1
    <3>. QED
      BY <2>2, <2>3, <3>2
  <2>4. CASE m # 0
    <3>1. m - 1 \in 0..Len(p.dict) /\ ~ (m <= m - 1) /\ m \in Nat
      BY <1>4, <2>2, <2>4
    <3>2. PICK h : h = [d \in 0..(m - 1) |-> IF d = 0 THEN first ELSE TryAll(h[d - 1], Chain(p, p.dict[d]))]
      BY <2>1, <3>1
    <3>3. PICK f : f = [d \in 0..m |-> IF d = 0 THEN first ELSE TryAll(h[d - 1], Chain(p, p.dict[d]))]
      OBVIOUS
    <3>4. \A d \in 0..m : d # m => f[d] = h[d]
      BY <3>1, <3>2, <3>3
    <3>5. \A d \in 0..m : d # 0 => f[d - 1] = h[d - 1]
      BY <3>1, <3>4
    <3>6. f = [d \in 0..m |-> IF d = 0 THEN first ELSE TryAll(f[d - 1], Chain(p, p.dict[d]))]
      BY <3>3, <3>5
    <3>. QED
      BY <2>2, <3>6
  <2>. QED
    BY <2>3, <2>4
<1>7. FixedLast(last)
  <2>1. Len(p.dict) \in 0..Len(p.dict)
    BY <1>4
  <2>2. \E f : FixedLast(f)
    BY <1>6, <2>1
  <2>. QED
    BY <2>2
<1>. HIDE DEF last
<1>8. \A d \in 0..Len(p.dict) :
        last[d] = IF d = 0 THEN first ELSE TryAll(last[d - 1], Chain(p, p.dict[d]))
  BY <1>7
<1>. DEFINE Wrong == {d \in 0..Len(p.dict) : ~Tried(p, last[d])}
<1>9. ASSUME Wrong # {} PROVE FALSE
  <2>1. PICK m \in Wrong : \A o \in Wrong : m <= o
    <3>1. Wrong \subseteq Nat
      BY <1>4
    <3>. HIDE DEF Wrong
    <3>. QED
      BY <1>9, <3>1, FirstOf
  <2>2. m \in 0..Len(p.dict) /\ ~Tried(p, last[m])
    OBVIOUS
  <2>3. m # 0
    BY <1>5, <1>8, <2>2
  <2>4. m \in 1..Len(p.dict) /\ m - 1 \in 0..Len(p.dict) /\ ~ (m <= m - 1)
    BY <1>4, <2>2, <2>3
  <2>5. Tried(p, last[m - 1])
    BY <2>1, <2>4
  <2>6. last[m] = TryAll(last[m - 1], Chain(p, p.dict[m]))
    BY <1>8, <2>2, <2>3
  <2>. QED
    BY <1>3, <1>4, <2>2, <2>4, <2>5, <2>6
<1>10. Len(p.dict) \in 0..Len(p.dict)
  BY <1>4
<1>. QED
  BY <1>1, <1>9, <1>10 DEF Tried

(* A name that is written: labels, and behind them the end of the name or a *)
(* pointer to a name there is.                                              *)
Written(p, cells) ==
  /\ IsSeq(cells)
  /\ \A k \in DOMAIN cells : cells[k].cell = "ptr" => cells[k].to \in Labelled(p) /\ k = Len(cells)

LEMMA CompWhat ==
  ASSUME NEW p, Backward(p), IsSeq(p.dict), \A d \in DOMAIN p.dict : p.dict[d] \in Nat \ {0},
         NEW name, IsSeq(name)
  PROVE  Written(p, Comp(p, name))
<1>. DEFINE labels == [k \in DOMAIN name |-> Label(name[k])]
            whole == labels \o <<EndOfName>>
            Shortened(at) ==
              LET known == {s \in DOMAIN at : at[s] # 0}
              IN  IF known = {} THEN whole
                  ELSE SubSeq(whole, 1, Min(known) - 1) \o <<Ptr(at[Min(known)])>>
            found == [s \in DOMAIN name |-> Match(p, name, s)]
<1>1. DOMAIN name = 1..Len(name) /\ Len(name) \in Nat
  BY SeqWhat
<1>. DEFINE C == {Label(name[k]) : k \in DOMAIN name} \cup {EndOfName}
<1>2. whole \in Seq(C) /\ Len(whole) = Len(name) + 1
  <2>1. labels \in [1..Len(name) -> C]
    BY <1>1
  <2>2. labels \in Seq(C) /\ Len(labels) = Len(name)
    <3>. HIDE DEF C, labels
    <3>. QED
      BY <1>1, <2>1, SeqDef, LenProperties
  <2>3. <<EndOfName>> \in Seq(C) /\ Len(<<EndOfName>>) = 1
    OBVIOUS
  <2>. HIDE DEF C, labels
  <2>. QED
    BY <2>2, <2>3, ConcatProperties
<1>3. \A x \in C : x.cell # "ptr"
  BY DEF Label, EndOfName
<1>. HIDE DEF C, labels, whole
<1>4. Written(p, whole)
  <2>1. IsSeq(whole) /\ \A k \in DOMAIN whole : whole[k] \in C
    BY <1>2, SeqIsSeq
  <2>. QED
    BY <1>3, <2>1 DEF Written
<1>5. ASSUME NEW n \in 1..Len(name), NEW b \in Labelled(p) PROVE Written(p, SubSeq(whole, 1, n - 1) \o <<Ptr(b)>>)
  <2>1. n - 1 \in Nat /\ n - 1 <= Len(whole) /\ Len(whole) \in Nat
    BY <1>1, <1>2
  <2>2. SubSeq(whole, 1, n - 1) \in Seq(C)
    BY <1>2, <2>1
  <2>3. PICK a \in Seq(C) : a = SubSeq(whole, 1, n - 1)
    BY <2>2
  <2>4. IsSeq(a) /\ \A k \in DOMAIN a : a[k] \in C
    BY SeqIsSeq
  <2>5. IsSeq(<<Ptr(b)>>) /\ Len(<<Ptr(b)>>) = 1 /\ << Ptr(b) >>[1] = Ptr(b)
    <3>1. <<Ptr(b)>> \in Seq({Ptr(b)})
      OBVIOUS
    <3>. QED
      BY <3>1, SeqIsSeq
  <2>. DEFINE w == a \o <<Ptr(b)>>
  <2>6. /\ IsSeq(w) /\ Len(w) = Len(a) + 1 /\ Len(a) \in Nat /\ DOMAIN a = 1..Len(a)
        /\ \A k \in 1..Len(a) : w[k] = a[k]
        /\ w[Len(a) + 1] = Ptr(b)
    BY <2>4, <2>5, Glued, SeqWhat
  <2>. HIDE DEF w
  <2>7. DOMAIN w = 1..(Len(a) + 1)
    BY <2>6, SeqWhat
  <2>8. ASSUME NEW k \in DOMAIN w, w[k].cell = "ptr" PROVE w[k].to \in Labelled(p) /\ k = Len(w)
    <3>1. CASE k = Len(a) + 1
      BY <2>6, <3>1 DEF Ptr
    <3>2. CASE k # Len(a) + 1
      <4>1. k \in 1..Len(a)
        BY <2>6, <2>7, <3>2
      <4>. QED
        BY <1>3, <2>4, <2>6, <2>8, <4>1
    <3>. QED
      BY <3>1, <3>2
  <2>9. Written(p, w)
    BY <2>6, <2>8 DEF Written
  <2>. QED
    BY <2>3, <2>9 DEF w
<1>6. Written(p, Shortened(found))
  <2>. DEFINE known == {s \in DOMAIN found : found[s] # 0}
  <2>1. CASE known = {}
    BY <1>4, <2>1
  <2>2. CASE known # {}
    <3>1. known \subseteq 1..Len(name) /\ known \subseteq Nat
      BY <1>1
    <3>2. PICK n : n = Min(known)
      OBVIOUS
    <3>3. n \in known
      <4>. HIDE DEF known
      <4>. QED
        BY <2>2, <3>1, <3>2, MinWhat
    <3>4. n \in 1..Len(name) /\ found[n] \in Labelled(p)
      BY <1>1, <3>3, MatchWhat
    <3>5. PICK b \in Labelled(p) : b = found[n]
      BY <3>4
    <3>6. Written(p, SubSeq(whole, 1, n - 1) \o <<Ptr(b)>>)
      BY <1>5, <3>4
    <3>7. Shortened(found) = SubSeq(whole, 1, n - 1) \o <<Ptr(b)>>
      BY <2>2, <3>2, <3>5
    <3>. QED
      BY <3>6, <3>7
  <2>. QED
    BY <2>1, <2>2
<1>7. Comp(p, name) = whole \/ Comp(p, name) = Shortened(found)
  BY DEF Comp, whole, labels
<1>. HIDE DEF Shortened, found
<1>. QED
  BY <1>4, <1>6, <1>7

(* What is kept of every packet: a pointer leads to a label or to the       *)
(* length of the data it ends.                                              *)
PacketFields == {"data", "size", "count", "memo", "dict", "error"}
DictFits(s) == IsSeq(s) /\ Len(s) <= DictSize /\ \A d \in DOMAIN s : s[d] \in Nat \ {0}
Shaped(p) ==
  /\ DOMAIN p = PacketFields
  /\ p.size \in 0..MaxSize /\ Len(p.data) <= p.size
  /\ Backward(p) /\ DictFits(p.dict)
Leads(p, k) == HasLabel(p, p.data[k].to) \/ p.data[p.data[k].to] = RdLen(k - p.data[k].to)
Sound(p) == Shaped(p) /\ \A k \in DOMAIN p.data : p.data[k].cell = "ptr" => Leads(p, k)

LEMMA PacketConstants ==
  /\ MaxSize \in Nat /\ Overhead \in Nat /\ DictSize \in Nat /\ MaxPtrs \in Nat
  /\ Sizes \cup {QBuf} \subseteq 0..MaxSize /\ MaxSize + Overhead < 131072
BY PacketAssumption DEF PacketAssumption

LEMMA ShapedWhat ==
  ASSUME NEW p, Shaped(p)
  PROVE  /\ IsSeq(p.data) /\ DOMAIN p.data = 1..Len(p.data) /\ Len(p.data) \in Nat
         /\ p.size \in Nat /\ Len(p.data) <= p.size
BY SeqWhat, PacketConstants DEF Shaped, Backward

(* A pointer goes on leading where it led when cells are added.             *)
LEMMA LeadsOn ==
  ASSUME NEW p, NEW q, Sound(p), Backward(q), Extends(q, p),
         NEW k \in DOMAIN p.data, p.data[k].cell = "ptr"
  PROVE  Leads(q, k)
<1>1. q.data[k] = p.data[k] /\ Backward(p) /\ Leads(p, k)
  BY DEF Extends, Sound, Shaped
<1>2. p.data[k].to \in DOMAIN p.data
  <2>1. DOMAIN p.data = 1..Len(p.data) /\ Len(p.data) \in Nat
    BY ShapedWhat DEF Sound
  <2>. QED
    BY <1>1, <2>1 DEF Backward
<1>3. CASE HasLabel(p, p.data[k].to)
  BY <1>1, <1>2, <1>3, LabelStays DEF Leads
<1>4. CASE p.data[p.data[k].to] = RdLen(k - p.data[k].to)
  BY <1>1, <1>2, <1>4 DEF Leads, Extends
<1>. QED
  BY <1>1, <1>3, <1>4 DEF Leads

(* The dictionary and the size may be any that fit.                         *)
LEMMA SamePayloadIsSound ==
  ASSUME NEW p, Sound(p), NEW q, DOMAIN q = PacketFields, q.data = p.data,
         q.size \in 0..MaxSize, Len(p.data) <= q.size, DictFits(q.dict)
  PROVE  Sound(q) /\ Extends(q, p)
<1>1. Backward(q) /\ Extends(q, p) /\ Len(p.data) \in Nat
  BY ShapedWhat DEF Sound, Shaped, Backward, Extends
<1>2. \A k \in DOMAIN q.data : q.data[k].cell = "ptr" => Leads(q, k)
  BY <1>1, LeadsOn
<1>. QED
  BY <1>1, <1>2 DEF Sound, Shaped

(* Nothing is said of counts, memo and error.                               *)
LEMMA SoundIsAboutPayload ==
  ASSUME NEW p, NEW q, Sound(p), DOMAIN q = DOMAIN p, q.data = p.data, q.size = p.size, q.dict = p.dict
  PROVE  Sound(q) /\ Extends(q, p)
BY SamePayloadIsSound DEF Sound, Shaped

LEMMA DictionaryApart ==
  ASSUME NEW p, Sound(p),
         NEW q, DOMAIN q = DOMAIN p, q.data = p.data, q.size = p.size, DictFits(q.dict)
  PROVE  Sound(q) /\ Extends(q, p)
BY SamePayloadIsSound DEF Sound, Shaped

LEMMA OtherSizeIsSound ==
  ASSUME NEW p, Sound(p), NEW size \in 0..MaxSize, Len(p.data) <= size,
         NEW q, DOMAIN q = DOMAIN p, q.data = p.data, q.size = size, q.dict = p.dict
  PROVE  Sound(q)
BY SamePayloadIsSound DEF Sound, Shaped

(* Two pieces of a packet behind each other.                                *)
Joined(q, p, cells) ==
  /\ IsSeq(q.data) /\ DOMAIN q.data = 1..(Len(p.data) + Len(cells))
  /\ Len(q.data) = Len(p.data) + Len(cells)
  /\ \A k \in 1..Len(p.data) : q.data[k] = p.data[k]
  /\ \A k \in DOMAIN q.data : k \notin 1..Len(p.data) =>
       k - Len(p.data) \in DOMAIN cells /\ q.data[k] = cells[k - Len(p.data)] /\ k > Len(p.data)
  /\ Extends(q, p)

LEMMA LongerWhat ==
  ASSUME NEW p, Backward(p), NEW cells, IsSeq(cells), NEW q, q.data = p.data \o cells
  PROVE  Joined(q, p, cells)
<1>1. /\ DOMAIN p.data = 1..Len(p.data) /\ Len(p.data) \in Nat /\ IsSeq(p.data)
      /\ DOMAIN cells = 1..Len(cells) /\ Len(cells) \in Nat
  BY SeqWhat DEF Backward
<1>2. /\ IsSeq(q.data) /\ Len(q.data) = Len(p.data) + Len(cells)
      /\ \A k \in 1..Len(p.data) : q.data[k] = p.data[k]
      /\ \A k \in (Len(p.data) + 1)..(Len(p.data) + Len(cells)) : q.data[k] = cells[k - Len(p.data)]
  BY <1>1, Glued
<1>3. DOMAIN q.data = 1..(Len(p.data) + Len(cells))
  BY <1>2, SeqWhat
<1>4. Extends(q, p)
  BY <1>1, <1>2 DEF Extends
<1>. QED
  BY <1>1, <1>2, <1>3, <1>4 DEF Joined

(* A cell in the place of another.                                          *)
LEMMA ReplacedWhat ==
  ASSUME NEW s, IsSeq(s), NEW j \in DOMAIN s, NEW x
  PROVE  IsSeq([s EXCEPT ![j] = x]) /\ Len([s EXCEPT ![j] = x]) = Len(s)
<1>. PICK t : t = [s EXCEPT ![j] = x]
  OBVIOUS
<1>. DEFINE S == {s[k] : k \in DOMAIN s} \cup {x}
<1>1. Len(s) \in Nat /\ DOMAIN s = 1..Len(s)
  BY SeqWhat
<1>2. s \in [1..Len(s) -> S]
  BY <1>1 DEF IsSeq
<1>3. t \in [1..Len(s) -> S]
  BY <1>1, <1>2
<1>. HIDE DEF S
<1>4. t \in Seq(S) /\ Len(t) = Len(s)
  <2>1. PICK n \in Nat : n = Len(s)
    BY <1>1
  <2>2. PICK u \in [1..n -> S] : u = t
    BY <1>3, <2>1
  <2>3. u \in Seq(S) /\ DOMAIN u = 1..n
    BY SeqDef
  <2>4. Len(u) = n
    BY <2>3, LenProperties
  <2>. QED
    BY <2>1, <2>2, <2>3, <2>4
<1>5. IsSeq(t)
  BY <1>4, SeqIsSeq
<1>. QED
  BY <1>4, <1>5

(* A packet that is longer by whole names or by cells that belong to none.  *)
LEMMA LongerIsSound ==
  ASSUME NEW p, Sound(p), NEW q, DOMAIN q = PacketFields, q.size = p.size, DictFits(q.dict),
         NEW cells, Written(p, cells), Len(p.data) + Len(cells) <= p.size, q.data = p.data \o cells
  PROVE  Sound(q) /\ Extends(q, p) /\ Len(q.data) = Len(p.data) + Len(cells)
<1>1. DOMAIN p.data = 1..Len(p.data) /\ Len(p.data) \in Nat /\ Backward(p) /\ IsSeq(cells)
  BY ShapedWhat DEF Sound, Shaped, Written
<1>2. /\ IsSeq(q.data) /\ DOMAIN q.data = 1..(Len(p.data) + Len(cells))
      /\ Len(q.data) = Len(p.data) + Len(cells)
      /\ \A k \in 1..Len(p.data) : q.data[k] = p.data[k]
      /\ \A k \in DOMAIN q.data : k \notin 1..Len(p.data) =>
           k - Len(p.data) \in DOMAIN cells /\ q.data[k] = cells[k - Len(p.data)] /\ k > Len(p.data)
      /\ Extends(q, p)
  BY <1>1, LongerWhat DEF Joined
<1>3. ASSUME NEW k \in DOMAIN q.data, q.data[k].cell = "ptr", k \notin 1..Len(p.data)
      PROVE  q.data[k].to \in Labelled(p) /\ q.data[k].to \in DOMAIN p.data /\ q.data[k].to \in 1..(k - 1)
  <2>1. q.data[k].to \in Labelled(p) /\ k > Len(p.data) /\ k \in Nat
    BY <1>1, <1>2, <1>3 DEF Written
  <2>. QED
    BY <1>1, <2>1 DEF Labelled
<1>4. Backward(q)
  BY <1>1, <1>2, <1>3 DEF Backward
<1>5. ASSUME NEW k \in DOMAIN q.data, q.data[k].cell = "ptr" PROVE Leads(q, k)
  <2>1. CASE k \in 1..Len(p.data)
    BY <1>1, <1>2, <1>4, <1>5, <2>1, LeadsOn
  <2>2. CASE k \notin 1..Len(p.data)
    BY <1>1, <1>2, <1>3, <1>4, <1>5, <2>2, LabelStays DEF Leads, Labelled
  <2>. QED
    BY <2>1, <2>2
<1>. QED
  BY <1>2, <1>4, <1>5 DEF Sound, Shaped

LEMMA PutWhat ==
  ASSUME NEW p, Shaped(p), NEW room, NEW cells, NEW q, q = Put(p, room, cells)
  PROVE  /\ DOMAIN q = PacketFields /\ q.size = p.size /\ q.dict = p.dict
         /\ q.error # "ok" => q.data = p.data
         /\ q.error = "ok" => p.error = "ok" /\ ~(Room(p) < room) /\ q.data = p.data \o cells
<1>1. CASE p.error # "ok"
  BY <1>1 DEF Put, Shaped
<1>2. CASE p.error = "ok" /\ Room(p) < room
  <2>1. q = [p EXCEPT !.error = "ENOBUFS"]
    BY <1>2 DEF Put
  <2>. QED
    BY <2>1 DEF Shaped, PacketFields
<1>3. CASE p.error = "ok" /\ ~(Room(p) < room)
  <2>1. q = [p EXCEPT !.data = p.data \o cells]
    BY <1>3 DEF Put
  <2>. QED
    BY <1>3, <2>1 DEF Shaped, PacketFields
<1>. QED
  BY <1>1, <1>2, <1>3

LEMMA PutIsSound ==
  ASSUME NEW p, Sound(p), NEW cells, Written(p, cells), NEW room \in Nat, Len(cells) <= room
  PROVE  Sound(Put(p, room, cells)) /\ Extends(Put(p, room, cells), p)
<1>1. PICK q : q = Put(p, room, cells)
  OBVIOUS
<1>2. Shaped(p) /\ DictFits(p.dict) /\ DOMAIN p = PacketFields
  BY DEF Sound, Shaped
<1>3. /\ DOMAIN q = PacketFields /\ q.size = p.size /\ q.dict = p.dict
      /\ q.error # "ok" => q.data = p.data
      /\ q.error = "ok" => p.error = "ok" /\ ~(Room(p) < room) /\ q.data = p.data \o cells
  BY <1>1, <1>2, PutWhat
<1>4. CASE q.error # "ok"
  BY <1>1, <1>2, <1>3, <1>4, SoundIsAboutPayload
<1>5. CASE q.error = "ok"
  <2>1. Len(p.data) \in Nat /\ p.size \in Nat /\ Len(cells) \in Nat
    BY <1>2, ShapedWhat, SeqWhat DEF Written
  <2>2. Len(p.data) + Len(cells) <= p.size
    BY <1>3, <1>5, <2>1 DEF Room
  <2>. QED
    BY <1>1, <1>2, <1>3, <1>5, <2>2, LongerIsSound
<1>. QED
  BY <1>4, <1>5

LEMMA DictaddWhat ==
  ASSUME NEW p, Shaped(p), NEW cells, NEW q, q = Dictadd(p, cells)
  PROVE  /\ DOMAIN q = PacketFields /\ q.data = p.data /\ q.size = p.size /\ q.error = p.error
         /\ DictFits(q.dict)
<1>1. /\ DOMAIN p.dict = 1..Len(p.dict) /\ Len(p.dict) \in Nat /\ IsSeq(p.dict) /\ DictSize \in Nat
      /\ End(p) \in Nat \ {0} /\ DictFits(p.dict)
  BY SeqWhat, ShapedWhat, PacketConstants DEF Shaped, DictFits, End
<1>2. p.dict \in [1..Len(p.dict) -> Nat \ {0}] /\ p.dict \in Seq(Nat \ {0})
  <2>1. p.dict \in [1..Len(p.dict) -> Nat \ {0}]
    BY <1>1 DEF DictFits, IsSeq
  <2>. QED
    BY <1>1, <2>1, SeqDef
<1>. DEFINE known == IF Len(cells) = 1 \/ Last(cells).cell # "ptr" THEN {}
                     ELSE {d \in DOMAIN p.dict : p.dict[d] = Last(cells).to}
<1>3. ASSUME NEW s \in Seq(Nat \ {0}), Len(s) <= DictSize, q = [p EXCEPT !.dict = s]
      PROVE  /\ DOMAIN q = PacketFields /\ q.data = p.data /\ q.size = p.size /\ q.error = p.error
             /\ DictFits(q.dict)
  <2>1. DictFits(s)
    <3>1. IsSeq(s) /\ \A d \in DOMAIN s : s[d] \in Nat \ {0}
      BY SeqIsSeq
    <3>. QED
      BY <1>3, <3>1 DEF DictFits
  <2>2. DOMAIN q = PacketFields /\ q.data = p.data /\ q.size = p.size /\ q.dict = s /\ q.error = p.error
    BY <1>3 DEF Shaped, PacketFields
  <2>. QED
    BY <2>1, <2>2
<1>4. CASE known # {}
  <2>1. PICK m : m = Min(known)
    OBVIOUS
  <2>2. m \in DOMAIN p.dict
    <3>1. known \subseteq DOMAIN p.dict /\ known \subseteq Nat
      BY <1>1
    <3>. HIDE DEF known
    <3>. QED
      BY <1>4, <2>1, <3>1, MinWhat
  <2>3. PICK s : s = [p.dict EXCEPT ![m] = End(p)]
    OBVIOUS
  <2>4. s \in [1..Len(p.dict) -> Nat \ {0}]
    BY <1>1, <1>2, <2>2, <2>3
  <2>5. s \in Seq(Nat \ {0}) /\ Len(s) = Len(p.dict)
    BY <1>1, <2>4, SeqDef, LenProperties
  <2>6. q = [p EXCEPT !.dict = s]
    BY <1>4, <2>1, <2>3 DEF Dictadd
  <2>. QED
    BY <1>1, <1>3, <2>5, <2>6 DEF DictFits
<1>5. CASE known = {} /\ Len(p.dict) < DictSize
  <2>1. PICK s : s = Append(p.dict, End(p))
    OBVIOUS
  <2>2. s \in Seq(Nat \ {0}) /\ Len(s) = Len(p.dict) + 1
    BY <1>1, <1>2, <2>1, AppendProperties
  <2>3. q = [p EXCEPT !.dict = s]
    BY <1>5, <2>1 DEF Dictadd
  <2>4. Len(s) <= DictSize
    BY <1>1, <1>5, <2>2
  <2>. QED
    BY <1>3, <2>2, <2>3, <2>4
<1>6. CASE known = {} /\ ~(Len(p.dict) < DictSize)
  <2>1. q = p
    BY <1>6 DEF Dictadd
  <2>. QED
    BY <1>1, <2>1 DEF Shaped
<1>. QED
  BY <1>4, <1>5, <1>6

(* Whatever the pointers of the packet lead to.                             *)
LEMMA PushNameWhat ==
  ASSUME NEW p, Shaped(p), NEW name, IsSeq(name), NEW q, q = PushName(p, name)
  PROVE  /\ DOMAIN q = PacketFields /\ q.size = p.size /\ DictFits(q.dict)
         /\ q.error = "ok" => p.error = "ok"
         /\ \E cells : Written(p, cells) /\ q.data = p.data \o cells /\ Len(p.data) + Len(cells) <= p.size
<1>1. PICK cells : cells = Comp(p, name)
  OBVIOUS
<1>2. Written(p, cells)
  BY <1>1, CompWhat DEF Shaped, DictFits
<1>3. q = IF p.error # "ok" THEN p
          ELSE IF Len(cells) > Room(p) THEN [p EXCEPT !.error = "ENOBUFS"]
          ELSE Put(Dictadd(p, cells), 0, cells)
  BY <1>1 DEF PushName
<1>4. Len(cells) \in Nat /\ Len(p.data) \in Nat /\ p.size \in Nat /\ Len(p.data) <= p.size
  BY <1>2, SeqWhat, ShapedWhat DEF Written
<1>5. ASSUME q.data = p.data
      PROVE  \E none : Written(p, none) /\ q.data = p.data \o none /\ Len(p.data) + Len(none) <= p.size
  <2>1. PICK none : none = << >>
    OBVIOUS
  <2>2. none \in Seq({}) /\ Len(none) = 0
    BY <2>1
  <2>3. IsSeq(none)
    BY <2>2, SeqIsSeq
  <2>4. DOMAIN none = {}
    <3>1. DOMAIN none = 1..0
      BY <2>2, <2>3, SeqWhat
    <3>. QED
      BY <3>1
  <2>5. Written(p, none)
    BY <2>3, <2>4 DEF Written
  <2>6. p.data \o none = p.data
    <3>1. PICK S : p.data \in Seq(S)
      BY ShapedWhat DEF IsSeq
    <3>. QED
      BY <2>1, <3>1, ConcatEmptySeq
  <2>7. Len(p.data) + Len(none) <= p.size
    BY <1>4, <2>2
  <2>. QED
    BY <1>5, <2>5, <2>6, <2>7
<1>6. CASE p.error # "ok"
  BY <1>3, <1>5, <1>6 DEF Shaped
<1>7. CASE p.error = "ok" /\ Len(cells) > Room(p)
  <2>1. q = [p EXCEPT !.error = "ENOBUFS"]
    BY <1>3, <1>7
  <2>2. DOMAIN q = PacketFields /\ q.data = p.data /\ q.size = p.size /\ q.dict = p.dict
    BY <2>1 DEF Shaped, PacketFields
  <2>. QED
    BY <1>5, <1>7, <2>2 DEF Shaped
<1>8. CASE p.error = "ok" /\ ~(Len(cells) > Room(p))
  <2>1. PICK d : d = Dictadd(p, cells)
    OBVIOUS
  <2>2. /\ DOMAIN d = PacketFields /\ d.data = p.data /\ d.size = p.size /\ d.error = p.error
        /\ DictFits(d.dict)
    BY <2>1, DictaddWhat
  <2>3. Len(cells) <= p.size - Len(p.data)
    BY <1>4, <1>8 DEF Room
  <2>4. q = [d EXCEPT !.data = d.data \o cells]
    <3>1. q = Put(d, 0, cells) /\ d.error = "ok" /\ ~(Room(d) < 0)
      BY <1>3, <1>4, <1>8, <2>1, <2>2, <2>3 DEF Room
    <3>. QED
      BY <3>1 DEF Put
  <2>5. DOMAIN q = PacketFields /\ q.data = p.data \o cells /\ q.size = p.size /\ q.dict = d.dict
    BY <2>2, <2>4 DEF PacketFields
  <2>6. Len(p.data) + Len(cells) <= p.size
    BY <1>4, <2>3
  <2>. QED
    BY <1>2, <1>8, <2>2, <2>5, <2>6
<1>. QED
  BY <1>6, <1>7, <1>8

LEMMA PushNameIsSound ==
  ASSUME NEW p, Sound(p), NEW name, IsSeq(name)
  PROVE  Sound(PushName(p, name)) /\ Extends(PushName(p, name), p)
<1>1. PICK q : q = PushName(p, name)
  OBVIOUS
<1>2. Shaped(p)
  BY DEF Sound
<1>3. /\ DOMAIN q = PacketFields /\ q.size = p.size /\ DictFits(q.dict)
      /\ \E cells : Written(p, cells) /\ q.data = p.data \o cells /\ Len(p.data) + Len(cells) <= p.size
  BY <1>1, <1>2, PushNameWhat
<1>4. PICK cells : Written(p, cells) /\ q.data = p.data \o cells /\ Len(p.data) + Len(cells) <= p.size
  BY <1>3
<1>5. Sound(q) /\ Extends(q, p)
  BY <1>3, <1>4, LongerIsSound
<1>. QED
  BY <1>1, <1>5

LEMMA OneCell ==
  ASSUME NEW p, NEW x
  PROVE  /\ IsSeq(<<x>>) /\ Len(<<x>>) = 1 /\ << x >>[1] = x /\ DOMAIN <<x>> = {1}
         /\ x.cell # "ptr" => Written(p, <<x>>)
<1>1. <<x>> \in Seq({x}) /\ Len(<<x>>) = 1 /\ << x >>[1] = x /\ DOMAIN <<x>> = {1}
  OBVIOUS
<1>2. IsSeq(<<x>>)
  BY <1>1, SeqIsSeq
<1>. QED
  BY <1>1, <1>2 DEF Written

LEMMA TwoCells ==
  ASSUME NEW p, NEW x, NEW y
  PROVE  /\ IsSeq(<<x, y>>) /\ Len(<<x, y>>) = 2 /\ << x, y >>[1] = x /\ << x, y >>[2] = y
         /\ DOMAIN <<x, y>> = {1, 2}
         /\ x.cell # "ptr" /\ y.cell # "ptr" => Written(p, <<x, y>>)
<1>1. <<x, y>> \in Seq({x, y}) /\ Len(<<x, y>>) = 2 /\ << x, y >>[1] = x /\ << x, y >>[2] = y
      /\ DOMAIN <<x, y>> = {1, 2}
  OBVIOUS
<1>2. IsSeq(<<x, y>>)
  BY <1>1, SeqIsSeq
<1>. QED
  BY <1>1, <1>2 DEF Written

LEMMA CellWhat ==
  /\ \A n : RdLen(n).cell = "rdlen"
  /\ \A l : Label(l).cell = "label"
  /\ \A v : Value(v).cell = "value"
  /\ \A t : Type(t).cell = "type"
  /\ TTL.cell = "ttl"
  /\ \A k : Ptr(k).cell = "ptr" /\ Ptr(k).to = k
BY DEF RdLen, Label, Value, Type, TTL, Ptr

(* What may lie where the length will be: a pointer leads back.             *)
Stale(p, x) == x.cell = "ptr" => x.to \in 1..Len(p.data)

(* A packet that is done with or given up: only the dictionary is kept then.*)
Drafted(p) == DictFits(p.dict) /\ (p.error = "ok" => Sound(p))

(* The place of the length is the only one behind p that a pointer from the *)
(* name may lead to and that has no label in the end.                       *)
LEMMA ReservedWhat ==
  ASSUME NEW p, Shaped(p), NEW tail, IsSeq(tail), Len(tail) > 0, Stale(p, tail[1]),
         \A k \in DOMAIN tail : k # 1 => tail[k].cell \notin {"ptr", "label"},
         NEW q, q.data = p.data \o tail
  PROVE  /\ Backward(q) /\ Extends(q, p)
         /\ \A k \in Labelled(q) : k \in Labelled(p) \/ k = Len(p.data) + 1
<1>1. DOMAIN p.data = 1..Len(p.data) /\ Len(p.data) \in Nat /\ Backward(p)
  BY ShapedWhat DEF Shaped
<1>2. /\ IsSeq(q.data) /\ DOMAIN q.data = 1..(Len(p.data) + Len(tail))
      /\ \A k \in 1..Len(p.data) : q.data[k] = p.data[k]
      /\ \A k \in DOMAIN q.data : k \notin 1..Len(p.data) =>
           k - Len(p.data) \in DOMAIN tail /\ q.data[k] = tail[k - Len(p.data)] /\ k > Len(p.data)
      /\ Extends(q, p)
  <2>1. Joined(q, p, tail)
    BY <1>1, LongerWhat
  <2>. QED
    BY <2>1 DEF Joined
<1>3. ASSUME NEW k \in DOMAIN q.data, k \notin 1..Len(p.data), k # Len(p.data) + 1
      PROVE  q.data[k].cell \notin {"ptr", "label"}
  <2>1. k - Len(p.data) \in DOMAIN tail /\ q.data[k] = tail[k - Len(p.data)] /\ k - Len(p.data) # 1
    <3>1. k \in Nat
      BY <1>2
    <3>. QED
      BY <1>1, <1>2, <1>3, <3>1
  <2>. QED
    BY <2>1
<1>4. ASSUME NEW k \in DOMAIN q.data, q.data[k].cell = "ptr" PROVE q.data[k].to \in 1..(k - 1)
  <2>1. CASE k \in 1..Len(p.data)
    BY <1>1, <1>2, <1>4, <2>1 DEF Backward
  <2>2. CASE k \notin 1..Len(p.data)
    <3>1. k = Len(p.data) + 1
      BY <1>3, <1>4, <2>2
    <3>2. q.data[k] = tail[1] /\ k - 1 = Len(p.data)
      BY <1>1, <1>2, <2>2, <3>1
    <3>. QED
      BY <1>4, <3>2 DEF Stale
  <2>. QED
    BY <2>1, <2>2
<1>5. Backward(q)
  BY <1>2, <1>4 DEF Backward
<1>6. ASSUME NEW k \in Labelled(q) PROVE k \in Labelled(p) \/ k = Len(p.data) + 1
  <2>1. k \in DOMAIN q.data /\ HasLabel(q, k)
    BY DEF Labelled
  <2>2. CASE k \in 1..Len(p.data)
    <3>1. Target(q, k) = Target(p, k) /\ Target(p, k) \in DOMAIN p.data
      BY <1>1, <1>2, <1>5, <2>2, TargetStays
    <3>2. HasLabel(p, k)
      BY <1>1, <1>2, <2>1, <2>2, <3>1 DEF HasLabel, End
    <3>. QED
      BY <1>1, <2>2, <3>2 DEF Labelled
  <2>3. CASE k \notin 1..Len(p.data) /\ k # Len(p.data) + 1
    <3>1. q.data[k].cell # "ptr" /\ q.data[k].cell # "label"
      BY <1>3, <2>1, <2>3
    <3>2. PICK f : Follows(q, f)
      BY <1>5, TargetTurns
    <3>3. MaxPtrs = 0 \/ MaxPtrs \in 1..MaxPtrs
      BY PacketConstants
    <3>4. f[MaxPtrs][k] = k
      BY <2>1, <3>1, <3>2, <3>3 DEF Follows
    <3>5. Target(q, k) = k
      BY <3>2, <3>4 DEF Follows
    <3>. QED
      BY <2>1, <3>1, <3>5 DEF HasLabel
  <2>. QED
    BY <2>2, <2>3
<1>. QED
  BY <1>2, <1>5, <1>6

(* The length is written when the name is there.  A pointer to its place    *)
(* ends the data of which it is the length.                                 *)
LEMMA LengthenedIsSound ==
  ASSUME NEW p, Sound(p), NEW tail, IsSeq(tail), Len(tail) > 0, Stale(p, tail[1]),
         \A k \in DOMAIN tail : k # 1 => tail[k].cell \notin {"ptr", "label"},
         NEW q, Shaped(q), q.data = p.data \o tail, q.size = p.size,
         NEW cells, Written(q, cells),
         NEW named, named.data = q.data \o cells,
         DOMAIN named = PacketFields, named.size = q.size, DictFits(named.dict),
         Len(q.data) + Len(cells) <= q.size,
         NEW j, j = Len(p.data) + 1,
         NEW r, r = [named EXCEPT !.data[j] = RdLen(Len(named.data) - j)]
  PROVE  Sound(r)
<1>1. /\ DOMAIN p.data = 1..Len(p.data) /\ Len(p.data) \in Nat /\ Backward(p) /\ Shaped(p)
      /\ Len(tail) \in Nat /\ Len(cells) \in Nat /\ IsSeq(cells) /\ p.size \in 0..MaxSize
  BY ShapedWhat, SeqWhat DEF Sound, Shaped, Written
<1>2. Backward(q) /\ Extends(q, p) /\ \A k \in Labelled(q) : k \in Labelled(p) \/ k = j
  BY <1>1, ReservedWhat
<1>3. /\ DOMAIN q.data = 1..(Len(p.data) + Len(tail)) /\ Len(q.data) = Len(p.data) + Len(tail)
      /\ \A k \in 1..Len(p.data) : q.data[k] = p.data[k]
      /\ \A k \in DOMAIN q.data : k \notin 1..Len(p.data) =>
           k - Len(p.data) \in DOMAIN tail /\ q.data[k] = tail[k - Len(p.data)] /\ k > Len(p.data)
  <2>1. Joined(q, p, tail)
    BY <1>1, LongerWhat
  <2>. QED
    BY <2>1 DEF Joined
<1>4. /\ IsSeq(named.data) /\ DOMAIN named.data = 1..(Len(q.data) + Len(cells))
      /\ Len(named.data) = Len(q.data) + Len(cells)
      /\ \A k \in 1..Len(q.data) : named.data[k] = q.data[k]
      /\ \A k \in DOMAIN named.data : k \notin 1..Len(q.data) =>
           k - Len(q.data) \in DOMAIN cells /\ named.data[k] = cells[k - Len(q.data)] /\ k > Len(q.data)
  <2>1. Joined(named, q, cells)
    BY <1>1, <1>2, LongerWhat
  <2>. QED
    BY <2>1 DEF Joined
<1>5. j \in 1..Len(q.data) /\ j \in DOMAIN named.data /\ j \notin DOMAIN p.data
      /\ Len(q.data) \in Nat /\ Len(named.data) \in Nat
  BY <1>1, <1>3, <1>4
<1>6. PICK x : x = RdLen(Len(named.data) - j)
  OBVIOUS
<1>7. /\ DOMAIN r = PacketFields /\ r.size = p.size /\ r.dict = named.dict
      /\ r.data = [named.data EXCEPT ![j] = x]
  BY <1>6 DEF PacketFields
<1>8. PICK t : t = r.data
  OBVIOUS
<1>9. /\ IsSeq(r.data) /\ Len(r.data) = Len(named.data) /\ DOMAIN r.data = DOMAIN named.data
      /\ r.data[j] = x /\ x.cell # "ptr" /\ \A k \in DOMAIN named.data : k # j => r.data[k] = named.data[k]
  <2>1. PICK s : s = named.data
    OBVIOUS
  <2>2. IsSeq(s) /\ j \in DOMAIN s /\ t = [s EXCEPT ![j] = x]
    BY <1>4, <1>5, <1>7, <1>8, <2>1
  <2>3. IsSeq(t) /\ Len(t) = Len(s)
    <3>1. IsSeq([s EXCEPT ![j] = x]) /\ Len([s EXCEPT ![j] = x]) = Len(s)
      BY <2>2, ReplacedWhat
    <3>. QED
      BY <2>2, <3>1
  <2>4. x.cell # "ptr"
    BY <1>6, CellWhat
  <2>5. DOMAIN t = DOMAIN s /\ t[j] = x /\ \A k \in DOMAIN s : k # j => t[k] = s[k]
    BY <2>2
  <2>. QED
    BY <1>8, <2>1, <2>3, <2>4, <2>5
<1>10. Extends(r, p)
  <2>1. \A k \in DOMAIN p.data : r.data[k] = p.data[k]
    BY <1>1, <1>3, <1>4, <1>5, <1>9
  <2>2. Len(p.data) <= Len(r.data)
    BY <1>1, <1>3, <1>4, <1>9
  <2>. QED
    BY <2>1, <2>2 DEF Extends
<1>11. ASSUME NEW k \in DOMAIN r.data, r.data[k].cell = "ptr", k \notin DOMAIN p.data
       PROVE  /\ k = Len(r.data) /\ k > j
              /\ r.data[k].to \in Labelled(p) \/ r.data[k].to = j
  <2>1. k # j /\ k \in DOMAIN named.data /\ r.data[k] = named.data[k] /\ k \in Nat
    BY <1>4, <1>9, <1>11
  <2>2. CASE k \in 1..Len(q.data)
    <3>1. k - Len(p.data) \in DOMAIN tail /\ q.data[k] = tail[k - Len(p.data)] /\ k - Len(p.data) # 1
      BY <1>1, <1>3, <1>11, <2>1, <2>2
    <3>. QED
      BY <1>4, <1>11, <2>1, <2>2, <3>1
  <2>3. CASE k \notin 1..Len(q.data)
    <3>1. k - Len(q.data) \in DOMAIN cells /\ r.data[k] = cells[k - Len(q.data)] /\ k > Len(q.data)
      BY <1>4, <2>1, <2>3
    <3>2. k - Len(q.data) = Len(cells) /\ r.data[k].to \in Labelled(q)
      BY <1>11, <3>1 DEF Written
    <3>3. k = Len(r.data) /\ k > j
      <4>1. PICK m, n, o : m = Len(q.data) /\ n = Len(cells) /\ o = Len(r.data)
        OBVIOUS
      <4>2. o = m + n /\ m \in Nat /\ n \in Nat /\ j \in 1..m /\ k \in Nat /\ k > m
        BY <1>1, <1>4, <1>5, <1>9, <2>1, <3>1, <4>1
      <4>3. k - m = n
        BY <3>2, <4>1
      <4>4. k = o /\ k > j
        BY <4>2, <4>3
      <4>. QED
        BY <4>1, <4>4
    <3>. QED
      BY <1>2, <3>2, <3>3
  <2>. QED
    BY <2>2, <2>3
<1>12. Backward(r)
  <2>1. ASSUME NEW k \in DOMAIN r.data, r.data[k].cell = "ptr" PROVE r.data[k].to \in 1..(k - 1)
    <3>1. CASE k \in DOMAIN p.data
      BY <1>1, <1>10, <2>1, <3>1 DEF Extends, Backward
    <3>2. CASE k \notin DOMAIN p.data
      <4>1. k > j /\ k \in Nat /\ (r.data[k].to \in DOMAIN p.data \/ r.data[k].to = j)
        BY <1>4, <1>9, <1>11, <2>1, <3>2 DEF Labelled
      <4>. QED
        BY <1>1, <4>1
    <3>. QED
      BY <3>1, <3>2
  <2>. QED
    BY <1>9, <2>1 DEF Backward
<1>13. ASSUME NEW k \in DOMAIN r.data, r.data[k].cell = "ptr" PROVE Leads(r, k)
  <2>1. CASE k \in DOMAIN p.data
    BY <1>10, <1>12, <1>13, <2>1, LeadsOn DEF Extends
  <2>2. CASE k \notin DOMAIN p.data
    <3>1. k = Len(r.data) /\ (r.data[k].to \in Labelled(p) \/ r.data[k].to = j)
      BY <1>11, <1>13, <2>2
    <3>2. CASE r.data[k].to \in Labelled(p)
      BY <1>1, <1>10, <1>12, <3>2, LabelStays DEF Labelled, Leads
    <3>3. CASE r.data[k].to = j
      BY <1>6, <1>9, <3>1, <3>3 DEF Leads
    <3>. QED
      BY <3>1, <3>2, <3>3
  <2>. QED
    BY <2>1, <2>2
<1>14. Len(r.data) <= r.size
  BY <1>4, <1>7, <1>9
<1>. QED
  BY <1>1, <1>7, <1>12, <1>13, <1>14 DEF Sound, Shaped

LEMMA WithNameIsDrafted ==
  ASSUME NEW p, Sound(p), NEW tail, IsSeq(tail), Len(tail) > 0, Stale(p, tail[1]),
         \A k \in DOMAIN tail : k # 1 => tail[k].cell \notin {"ptr", "label"},
         NEW room \in Nat, Len(tail) <= room, NEW name, IsSeq(name)
  PROVE  Drafted(WithName(p, Put(p, room, tail), name))
<1>1. PICK q : q = Put(p, room, tail)
  OBVIOUS
<1>2. PICK named : named = PushName(q, name)
  OBVIOUS
<1>3. PICK j : j = End(p)
  OBVIOUS
<1>4. PICK w : w = WithName(p, q, name)
  OBVIOUS
<1>5. w = IF named.error # "ok" THEN named ELSE [named EXCEPT !.data[j] = RdLen(Len(named.data) - j)]
  BY <1>2, <1>3, <1>4 DEF WithName
<1>6. /\ DOMAIN p.data = 1..Len(p.data) /\ Len(p.data) \in Nat /\ Shaped(p) /\ DictFits(p.dict)
      /\ p.size \in 0..MaxSize /\ Len(tail) \in Nat /\ MaxSize \in Nat
  BY ShapedWhat, SeqWhat, PacketConstants DEF Sound, Shaped
<1>7. /\ DOMAIN q = PacketFields /\ q.size = p.size /\ q.dict = p.dict
      /\ q.error = "ok" => p.error = "ok" /\ ~(Room(p) < room) /\ q.data = p.data \o tail
  BY <1>1, <1>6, PutWhat
<1>8. CASE q.error # "ok"
  <2>1. named = q
    BY <1>2, <1>8 DEF PushName
  <2>. QED
    BY <1>1, <1>4, <1>5, <1>6, <1>7, <1>8, <2>1 DEF Drafted
<1>9. CASE q.error = "ok"
  <2>1. Backward(q)
    BY <1>6, <1>7, <1>9, ReservedWhat
  <2>2. Len(q.data) = Len(p.data) + Len(tail)
    <3>1. Joined(q, p, tail)
      BY <1>6, <1>7, <1>9, LongerWhat DEF Shaped
    <3>. QED
      BY <3>1 DEF Joined
  <2>3. Shaped(q)
    BY <1>6, <1>7, <1>9, <2>1, <2>2 DEF Shaped, Room
  <2>4. /\ DOMAIN named = PacketFields /\ named.size = q.size /\ DictFits(named.dict)
        /\ \E cells : Written(q, cells) /\ named.data = q.data \o cells /\ Len(q.data) + Len(cells) <= q.size
    BY <1>2, <2>3, PushNameWhat
  <2>5. CASE named.error # "ok"
    BY <1>1, <1>4, <1>5, <2>4, <2>5 DEF Drafted
  <2>6. CASE named.error = "ok"
    <3>1. w = [named EXCEPT !.data[j] = RdLen(Len(named.data) - j)] /\ j = Len(p.data) + 1
      BY <1>3, <1>5, <2>6 DEF End
    <3>2. PICK cells : Written(q, cells) /\ named.data = q.data \o cells /\ Len(q.data) + Len(cells) <= q.size
      BY <2>4
    <3>3. Sound(w)
      BY <1>7, <1>9, <2>3, <2>4, <3>1, <3>2, LengthenedIsSound
    <3>. QED
      BY <1>1, <1>4, <3>3 DEF Drafted, Sound, Shaped
  <2>. QED
    BY <2>5, <2>6
<1>. QED
  BY <1>8, <1>9

(* Data of the kind the type of a record asks for.                          *)
HasData(r) ==
  /\ r.type = "MX" => IsSeq(r.data[2])
  /\ r.type \notin {"A", "MX", "OPT"} => IsSeq(r.data[1])

LEMMA SoundIsDrafted == ASSUME NEW p, Sound(p) PROVE Drafted(p)
BY DEF Drafted, Sound, Shaped

LEMMA PushDataIsDrafted ==
  ASSUME NEW p, Sound(p), NEW r, HasData(r), NEW stale, Stale(p, stale)
  PROVE  Drafted(PushData(p, r, stale))
<1>1. Drafted(PushA(p, r.data))
  <2>1. PICK x, y : x = RdLen(1) /\ y = Value(r.data[1])
    OBVIOUS
  <2>2. x.cell # "ptr" /\ y.cell # "ptr"
    BY <2>1, CellWhat
  <2>3. Written(p, <<x, y>>) /\ Len(<<x, y>>) <= 2
    BY <2>2, TwoCells
  <2>4. Sound(Put(p, 2, <<x, y>>))
    BY <2>3, PutIsSound
  <2>. QED
    BY <2>1, <2>4, SoundIsDrafted DEF PushA
<1>2. ASSUME r.type = "MX" PROVE Drafted(PushMx(p, r.data, stale))
  <2>1. PICK y : y = Value(r.data[1])
    OBVIOUS
  <2>2. PICK tail : tail = <<stale, y>>
    OBVIOUS
  <2>3. IsSeq(tail) /\ Len(tail) = 2 /\ tail[1] = stale /\ tail[2] = y /\ DOMAIN tail = {1, 2}
    BY <2>2, TwoCells
  <2>4. \A k \in DOMAIN tail : k # 1 => tail[k].cell \notin {"ptr", "label"}
    BY <2>1, <2>3, CellWhat
  <2>5. Drafted(WithName(p, Put(p, 3, tail), r.data[2]))
    <3>1. Len(tail) > 0 /\ Len(tail) <= 3 /\ Stale(p, tail[1]) /\ IsSeq(r.data[2])
      BY <1>2, <2>3 DEF HasData
    <3>. QED
      BY <2>3, <2>4, <3>1, WithNameIsDrafted
  <2>. QED
    BY <2>1, <2>2, <2>5 DEF PushMx
<1>3. Drafted(PushOpt(p))
  <2>1. PICK x : x = RdLen(0)
    OBVIOUS
  <2>2. x.cell # "ptr"
    BY <2>1, CellWhat
  <2>3. Written(p, <<x>>) /\ Len(<<x>>) <= 1
    BY <2>2, OneCell
  <2>4. Sound(Put(p, 1, <<x>>))
    BY <2>3, PutIsSound
  <2>. QED
    BY <2>1, <2>4, SoundIsDrafted DEF PushOpt
<1>4. ASSUME r.type \notin {"A", "MX", "OPT"} PROVE Drafted(PushNs(p, r.data, stale))
  <2>1. PICK tail : tail = <<stale>>
    OBVIOUS
  <2>2. IsSeq(tail) /\ Len(tail) = 1 /\ tail[1] = stale /\ DOMAIN tail = {1}
    BY <2>1, OneCell
  <2>3. Drafted(WithName(p, Put(p, 2, tail), r.data[1]))
    <3>1. Len(tail) > 0 /\ Len(tail) <= 2 /\ Stale(p, tail[1]) /\ IsSeq(r.data[1])
      BY <1>4, <2>2 DEF HasData
    <3>2. \A k \in DOMAIN tail : k # 1 => tail[k].cell \notin {"ptr", "label"}
      BY <2>2
    <3>. QED
      BY <2>2, <3>1, <3>2, WithNameIsDrafted
  <2>. QED
    BY <2>1, <2>3 DEF PushNs
<1>5. CASE p.error # "ok"
  BY <1>5, SoundIsDrafted DEF PushData
<1>6. CASE p.error = "ok" /\ r.type = "A"
  BY <1>1, <1>6 DEF PushData
<1>7. CASE p.error = "ok" /\ r.type = "MX"
  BY <1>2, <1>7 DEF PushData
<1>8. CASE p.error = "ok" /\ r.type = "OPT"
  BY <1>3, <1>8 DEF PushData
<1>9. CASE p.error = "ok" /\ r.type \notin {"A", "MX", "OPT"}
  BY <1>4, <1>9 DEF PushData
<1>. QED
  BY <1>5, <1>6, <1>7, <1>8, <1>9

(* What is known of the sections and how many records there are does not    *)
(* matter for the payload.                                                  *)
LEMMA StudyWhat ==
  ASSUME NEW p, Sound(p)
  PROVE  Sound(Study(p)) /\ DOMAIN Study(p) = DOMAIN p
<1>1. \E m : Study(p) = [p EXCEPT !.memo = m]
  BY DEF Study
<1>2. PICK m : Study(p) = [p EXCEPT !.memo = m]
  BY <1>1
<1>3. PICK q : q = [p EXCEPT !.memo = m]
  OBVIOUS
<1>4. DOMAIN q = DOMAIN p /\ q.data = p.data /\ q.size = p.size /\ q.dict = p.dict
  BY <1>3 DEF Sound, Shaped, PacketFields
<1>. QED
  BY <1>2, <1>3, <1>4, SoundIsAboutPayload

LEMMA CountedIsSound ==
  ASSUME NEW p, Sound(p), NEW section, NEW t, NEW rp
  PROVE  Sound(Counted(p, section, t, rp))
<1>1. PICK known : known = IF p.memo.base[section] = 0 THEN Study(p) ELSE p
  OBVIOUS
<1>2. Sound(known)
  BY <1>1, StudyWhat
<1>3. \E c, m : Counted(p, section, t, rp) = [known EXCEPT !.count = c, !.memo = m]
  BY <1>1 DEF Counted
<1>4. PICK c, m : Counted(p, section, t, rp) = [known EXCEPT !.count = c, !.memo = m]
  BY <1>3
<1>5. PICK q : q = [known EXCEPT !.count = c, !.memo = m]
  OBVIOUS
<1>6. DOMAIN q = DOMAIN known /\ q.data = known.data /\ q.size = known.size /\ q.dict = known.dict
  BY <1>2, <1>5 DEF Sound, Shaped, PacketFields
<1>. QED
  BY <1>2, <1>4, <1>5, <1>6, SoundIsAboutPayload

(* dns_p_push() as a whole: after an error the payload is what it was.      *)
LEMMA PushRecordIsSound ==
  ASSUME NEW p, Sound(p), NEW r, IsSeq(r.name), r.section # QD => HasData(r), NEW stale, Stale(p, stale)
  PROVE  Sound(PushRecord(p, r, stale))
<1>1. PICK ok : ok = [p EXCEPT !.error = "ok"]
  OBVIOUS
<1>2. Sound(ok) /\ Extends(ok, p)
  <2>1. DOMAIN ok = DOMAIN p /\ ok.data = p.data /\ ok.size = p.size /\ ok.dict = p.dict
    BY <1>1 DEF Sound, Shaped, PacketFields
  <2>. QED
    BY <2>1, SoundIsAboutPayload
<1>3. PICK named : named = PushName(ok, r.name)
  OBVIOUS
<1>4. Sound(named) /\ Extends(named, ok)
  BY <1>2, <1>3, PushNameIsSound
<1>5. PICK typed : typed = Put(named, 1, <<Type(r.type)>>)
  OBVIOUS
<1>6. Sound(typed) /\ Extends(typed, named)
  <2>1. PICK x : x = Type(r.type)
    OBVIOUS
  <2>2. Written(named, <<x>>) /\ Len(<<x>>) <= 1
    BY <2>1, CellWhat, OneCell
  <2>. QED
    BY <1>4, <1>5, <2>1, <2>2, PutIsSound
<1>7. PICK timed : timed = Put(typed, 2, <<TTL>>)
  OBVIOUS
<1>8. Sound(timed) /\ Extends(timed, typed)
  <2>1. Written(typed, <<TTL>>) /\ Len(<<TTL>>) <= 2
    BY CellWhat, OneCell
  <2>. QED
    BY <1>6, <1>7, <2>1, PutIsSound
<1>9. PICK whole : whole = IF r.section = QD THEN typed ELSE PushData(timed, r, stale)
  OBVIOUS
<1>10. Drafted(whole)
  <2>1. Stale(timed, stale)
    <3>1. Len(p.data) <= Len(ok.data) /\ Len(ok.data) <= Len(named.data)
          /\ Len(named.data) <= Len(typed.data) /\ Len(typed.data) <= Len(timed.data)
      BY <1>2, <1>4, <1>6, <1>8 DEF Extends
    <3>2. /\ Len(p.data) \in Nat /\ Len(ok.data) \in Nat /\ Len(named.data) \in Nat
          /\ Len(typed.data) \in Nat /\ Len(timed.data) \in Nat
      BY <1>2, <1>4, <1>6, <1>8, ShapedWhat DEF Sound
    <3>. QED
      BY <3>1, <3>2 DEF Stale
  <2>. QED
    BY <1>6, <1>8, <1>9, <2>1, PushDataIsDrafted, SoundIsDrafted
<1>11. \/ whole.error = "ok" /\ PushRecord(p, r, stale) = Counted(whole, r.section, r.type, End(p))
       \/ \E e : PushRecord(p, r, stale) = [p EXCEPT !.dict = whole.dict, !.error = e]
  BY <1>1, <1>3, <1>5, <1>7, <1>9 DEF PushRecord
<1>12. ASSUME NEW e, PushRecord(p, r, stale) = [p EXCEPT !.dict = whole.dict, !.error = e]
       PROVE  Sound(PushRecord(p, r, stale))
  <2>1. PICK q : q = [p EXCEPT !.dict = whole.dict, !.error = e]
    OBVIOUS
  <2>2. DOMAIN q = DOMAIN p /\ q.data = p.data /\ q.size = p.size /\ q.dict = whole.dict
    BY <2>1 DEF Sound, Shaped, PacketFields
  <2>3. Sound(q)
    BY <1>10, <2>2, DictionaryApart DEF Drafted
  <2>. QED
    BY <1>12, <2>1, <2>3
<1>13. CASE whole.error = "ok" /\ PushRecord(p, r, stale) = Counted(whole, r.section, r.type, End(p))
  BY <1>10, <1>13, CountedIsSound DEF Drafted
<1>14. CASE \E e : PushRecord(p, r, stale) = [p EXCEPT !.dict = whole.dict, !.error = e]
  BY <1>12, <1>14
<1>. QED
  BY <1>11, <1>13, <1>14

(* dns_p_grow(): there is a power of two above every size that is in use,   *)
(* and none is below it.                                                    *)
LEMMA GrownIsSound ==
  ASSUME NEW p, Sound(p)
  PROVE  Sound(Grown(p))
<1>1. Len(p.data) \in Nat /\ Len(p.data) <= MaxSize /\ p.size \in Nat /\ MaxSize \in Nat /\ Overhead \in Nat
  BY SeqWhat, PacketConstants DEF Sound, Shaped, Backward
<1>2. PICK size : size = Min(Powers \ 0..(Overhead + Len(p.data)))
  OBVIOUS
<1>3. size \in Nat /\ Len(p.data) < size
  <2>1. 131072 \in Powers \ 0..(Overhead + Len(p.data))
    <3>1. Overhead + Len(p.data) < 131072
      BY <1>1, PacketConstants
    <3>. QED
      BY <1>1, <3>1 DEF Powers
  <2>2. Powers \ 0..(Overhead + Len(p.data)) \subseteq Nat
    BY DEF Powers
  <2>3. size \in Powers \ 0..(Overhead + Len(p.data))
    <3>1. PICK S : S = Powers \ 0..(Overhead + Len(p.data))
      OBVIOUS
    <3>2. S \subseteq Nat /\ S # {}
      BY <2>1, <2>2, <3>1
    <3>3. Min(S) \in S
      BY <3>2, MinWhat
    <3>. QED
      BY <1>2, <3>1, <3>3
  <2>. QED
    BY <1>1, <2>2, <2>3
<1>4. Grown(p) = IF size > MaxSize THEN [p EXCEPT !.error = "ENOBUFS"]
                 ELSE [p EXCEPT !.size = size, !.error = "ok"]
  BY <1>2 DEF Grown
<1>5. CASE size > MaxSize
  <2>1. PICK q : q = [p EXCEPT !.error = "ENOBUFS"]
    OBVIOUS
  <2>2. DOMAIN q = DOMAIN p /\ q.data = p.data /\ q.size = p.size /\ q.dict = p.dict
    BY <2>1 DEF Sound, Shaped, PacketFields
  <2>. QED
    BY <1>4, <1>5, <2>1, <2>2, SoundIsAboutPayload
<1>6. CASE ~(size > MaxSize)
  <2>1. PICK q : q = [p EXCEPT !.size = size, !.error = "ok"]
    OBVIOUS
  <2>2. DOMAIN q = DOMAIN p /\ q.data = p.data /\ q.size = size /\ q.dict = p.dict
    BY <2>1 DEF Sound, Shaped, PacketFields
  <2>3. size \in 0..MaxSize /\ Len(p.data) <= size
    BY <1>1, <1>3, <1>6
  <2>4. Sound(q)
    BY <2>2, <2>3, OtherSizeIsSound
  <2>. QED
    BY <1>4, <1>6, <2>1, <2>4
<1>. QED
  BY <1>5, <1>6

LEMMA MadeIsSound ==
  ASSUME NEW size \in 0..MaxSize
  PROVE  Sound(Made(size))
<1>1. PICK q : q = Made(size)
  OBVIOUS
<1>2. /\ DOMAIN q = {"data", "size", "count", "memo", "dict", "error"}
      /\ q.data = <<>> /\ q.size = size /\ q.dict = <<>>
  BY <1>1 DEF Made
<1>3. IsSeq(<<>>) /\ Len(<<>>) = 0 /\ DOMAIN <<>> = {}
  <2>1. <<>> \in Seq({}) /\ Len(<<>>) = 0
    OBVIOUS
  <2>2. IsSeq(<<>>)
    BY <2>1, SeqIsSeq
  <2>3. DOMAIN <<>> = 1..0
    BY <2>1, <2>2, SeqWhat
  <2>. QED
    BY <2>1, <2>2, <2>3
<1>4. Backward(q)
  BY <1>2, <1>3 DEF Backward
<1>5. 0 <= q.size /\ 0 <= DictSize
  BY <1>2, PacketConstants
<1>. QED
  BY <1>1, <1>2, <1>3, <1>4, <1>5 DEF Sound, Shaped, PacketFields, DictFits

(* dns_p_copy(): the payload without its dictionary.                        *)
LEMMA CopyIsSound ==
  ASSUME NEW p, Sound(p)
  PROVE  Sound(CopyOf(p))
<1>1. Len(p.data) \in 0..MaxSize /\ Len(p.data) <= Len(p.data)
  BY SeqWhat, PacketConstants DEF Sound, Shaped, Backward
<1>2. Sound(Made(Len(p.data)))
  BY <1>1, MadeIsSound
<1>3. PICK made : made = Made(Len(p.data))
  OBVIOUS
<1>4. made.size = Len(p.data) /\ made.dict = <<>>
  BY <1>3 DEF Made
<1>5. PICK q : q = [made EXCEPT !.data = p.data, !.count = p.count]
  OBVIOUS
<1>6. DOMAIN q = DOMAIN p /\ q.data = p.data /\ q.size = Len(p.data) /\ q.dict = made.dict
  <2>1. DOMAIN made = DOMAIN p /\ "data" \in DOMAIN made /\ "count" \in DOMAIN made
    BY <1>2, <1>3 DEF Sound, Shaped, PacketFields
  <2>. QED
    BY <1>4, <1>5, <2>1
<1>7. PICK sized : sized = [p EXCEPT !.size = Len(p.data)]
  OBVIOUS
<1>8. DOMAIN sized = DOMAIN p /\ sized.data = p.data /\ sized.size = Len(p.data) /\ sized.dict = p.dict
  BY <1>7 DEF Sound, Shaped, PacketFields
<1>9. Sound(sized)
  BY <1>1, <1>8, OtherSizeIsSound
<1>10. Sound(q)
  BY <1>2, <1>3, <1>6, <1>8, <1>9, DictionaryApart DEF Sound, Shaped
<1>. QED
  BY <1>3, <1>5, <1>10 DEF CopyOf

(* dns_q_make2(): a question and perhaps OPT, or the packet made next.      *)
LEMMA QueryIsSound ==
  ASSUME NEW size \in 0..MaxSize, NEW name, IsSeq(name), NEW r, r.name = name, r.section = QD,
         NEW edns0 \in BOOLEAN
  PROVE  Sound(QueryFor(size, r, edns0))
<1>1. PICK made2 : made2 = PushRecord(Made(size), r, RdLen(0))
  OBVIOUS
<1>2. Sound(made2) /\ \A p : Stale(p, RdLen(0))
  <2>1. \A p : Stale(p, RdLen(0))
    BY CellWhat DEF Stale
  <2>. QED
    BY <1>1, <2>1, MadeIsSound, PushRecordIsSound
<1>3. OPT.name = Root /\ OPT.type = "OPT" /\ IsSeq(Root)
  <2>1. Root \in Seq({})
    BY DEF Root
  <2>. QED
    BY <2>1, SeqIsSeq DEF OPT
<1>4. Sound(PushRecord(made2, OPT, RdLen(0)))
  <2>1. HasData(OPT)
    BY <1>3 DEF HasData
  <2>. QED
    BY <1>2, <1>3, <2>1, PushRecordIsSound
<1>5. PICK whole : whole = IF edns0 /\ made2.error = "ok" THEN PushRecord(made2, OPT, RdLen(0)) ELSE made2
  OBVIOUS
<1>6. Sound(whole)
  BY <1>2, <1>4, <1>5
<1>7. Sound([Made(QBuf) EXCEPT !.error = "freed"])
  <2>1. Sound(Made(QBuf))
    BY PacketConstants, MadeIsSound
  <2>2. PICK made : made = Made(QBuf)
    OBVIOUS
  <2>3. PICK q : q = [made EXCEPT !.error = "freed"]
    OBVIOUS
  <2>4. DOMAIN q = DOMAIN made /\ q.data = made.data /\ q.size = made.size /\ q.dict = made.dict
    BY <2>1, <2>2, <2>3 DEF Sound, Shaped, PacketFields
  <2>. QED
    BY <2>1, <2>2, <2>3, <2>4, SoundIsAboutPayload
<1>8. QueryFor(size, r, edns0) =
        IF whole.error = "ok" THEN whole ELSE [Made(QBuf) EXCEPT !.error = "freed"]
  BY <1>1, <1>5 DEF QueryFor
<1>. QED
  BY <1>6, <1>7, <1>8

LEMMA NameIsSeq ==
  ASSUME NEW p, Backward(p), NEW from \in Nat \ {0}
  PROVE  IsSeq(NameAt(p, from))
<1>1. PICK c : c = Chain(p, from)
  OBVIOUS
<1>2. c \in Seq(Entry(p))
  BY <1>1, ChainTurns
<1>3. PICK name : name = [k \in 1..Len(c) |-> c[k].label]
  OBVIOUS
<1>4. Len(c) \in Nat /\ DOMAIN c = 1..Len(c)
  BY <1>2
<1>5. name \in Seq({c[k].label : k \in 1..Len(c)})
  BY <1>3, <1>4
<1>6. NameAt(p, from) = name
  BY <1>1, <1>3, <1>4 DEF NameAt
<1>. QED
  BY <1>5, <1>6, SeqIsSeq

(* What users push has a name, and data of its type.                        *)
LEMMA WhatIsPushed ==
  ASSUME NEW r \in RecordsToPush
  PROVE  IsSeq(r.name) /\ (r.section # QD => HasData(r))
<1>1. IsName(r.name) /\ (r.section # QD /\ r.type = "MX" => IsName(r.data[2]))
  BY PacketAssumption DEF PacketAssumption
<1>2. r.section # QD /\ r.type \notin {"A", "MX", "OPT"} => IsName(r.data[1])
  BY PacketAssumption DEF PacketAssumption
<1>3. \A name : IsName(name) <=> IsSeq(name)
  BY DEF IsName, IsSeq
<1>. QED
  BY <1>1, <1>2, <1>3 DEF HasData

LEMMA PacketStartsSound ==
  ASSUME PacketInit
  PROVE  Sound(P)
<1>1. PICK size \in Sizes : P = Made(size)
  BY DEF PacketInit
<1>2. size \in 0..MaxSize
  BY PacketConstants
<1>. QED
  BY <1>1, <1>2, MadeIsSound

LEMMA PacketStaysSound ==
  ASSUME Sound(P), [PacketNext]_packetVars
  PROVE  Sound(P)'
<1>1. P.size \in 0..MaxSize /\ Backward(P)
  BY DEF Sound, Shaped, PacketFields
<1>2. ASSUME NEW r \in RecordsToPush, Push(r) PROVE Sound(P')
  <2>1. PICK stale \in Unwritten(P, r) : P' = PushRecord(P, r, stale)
    BY <1>2 DEF Push
  <2>2. Stale(P, stale)
    <3>1. DOMAIN P.data = 1..Len(P.data)
      BY ShapedWhat DEF Sound
    <3>2. stale = RdLen(0) \/ (\E l : stale = Label(l)) \/ (\E k \in DOMAIN P.data : stale = Ptr(k))
      BY <2>1 DEF Unwritten
    <3>. QED
      BY <3>1, <3>2, CellWhat DEF Stale
  <2>. QED
    BY <2>1, <2>2, PushRecordIsSound, WhatIsPushed
<1>3. CASE Grow
  BY <1>3, GrownIsSound DEF Grow
<1>4. CASE Reset
  BY <1>1, <1>4, MadeIsSound DEF Reset
<1>5. CASE Copy
  BY <1>5, CopyIsSound DEF Copy
<1>6. CASE StudyIt
  BY <1>6, StudyWhat DEF StudyIt
<1>7. CASE Ask
  <2>1. PICK r \in RecordsToPush : r.section = QD /\ QMake(r, QBuf)
    BY <1>7 DEF Ask
  <2>2. PICK edns0 \in BOOLEAN : P' = QueryFor(QBuf, r, edns0)
    BY <2>1 DEF QMake
  <2>3. QBuf \in 0..MaxSize
    BY PacketConstants
  <2>. QED
    BY <2>1, <2>2, <2>3, QueryIsSound, WhatIsPushed
<1>8. CASE QRemake
  <2>1. PICK question : question = Question(NameAt(P, FirstCell), TypeAt(P, FirstCell))
    OBVIOUS
  <2>2. question.section = QD /\ question.name = NameAt(P, FirstCell)
    BY <2>1 DEF Question
  <2>3. IsSeq(question.name)
    BY <1>1, <2>2, NameIsSeq DEF FirstCell
  <2>4. PICK edns0 \in BOOLEAN : P' = QueryFor(P.size, question, edns0)
    BY <1>8, <2>1 DEF QRemake, QMake
  <2>. QED
    BY <1>1, <2>2, <2>3, <2>4, QueryIsSound
<1>9. CASE UNCHANGED packetVars
  BY <1>9 DEF packetVars
<1>10. Sound(P')
  BY <1>2, <1>3, <1>4, <1>5, <1>6, <1>7, <1>8, <1>9 DEF PacketNext
<1>. QED
  BY <1>10

LEMMA SoundIsEnough ==
  ASSUME Sound(P)
  PROVE  PayloadIsSound
<1>1. ASSUME NEW k \in DOMAIN P.data, P.data[k].cell = "ptr", NEW to, to = P.data[k].to
      PROVE  to < k /\ (Chain(P, to) # <<>> \/ P.data[to] = RdLen(k - to))
  <2>1. DOMAIN P.data = 1..Len(P.data) /\ Len(P.data) \in Nat /\ Backward(P)
    BY ShapedWhat DEF Sound, Shaped
  <2>2. to \in 1..(k - 1) /\ Leads(P, k)
    BY <1>1, <2>1 DEF Sound, Backward
  <2>3. to \in Nat \ {0} /\ to < k
    BY <2>1, <2>2
  <2>. QED
    BY <1>1, <2>1, <2>2, <2>3, ChainTurns DEF Leads
<1>. QED
  BY <1>1 DEF Sound, Shaped, DictFits, PayloadIsSound

(* No push writes beyond the buffer of a packet, however often it grows and *)
(* is copied (dns_p_push(), dns_p_grow(), dns_p_copy()), and every pointer  *)
(* leads back (dns_d_comp(), dns_d_expand()): to a label, or to the length  *)
(* of the data that it ends, whatever lay in the place of the length before *)
(* (dns_ns_push(), dns_mx_push()), for every set of records and every size  *)
(* of packet and dictionary.                                                *)
THEOREM PayloadStaysSound == PacketSpec => []PayloadIsSound
<1>1. PacketInit => Sound(P)
  BY PacketStartsSound
<1>2. Sound(P) /\ [PacketNext]_packetVars => Sound(P)'
  BY PacketStaysSound
<1>3. Sound(P) => PayloadIsSound
  BY SoundIsEnough
<1>. QED
  BY <1>1, <1>2, <1>3, PTL DEF PacketSpec
=============================================================================
