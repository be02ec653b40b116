------------------------------- MODULE DnsSocket -------------------------------
(***************************************************************************)
(* The socket of the resolver (dns_so_...): one query at a time, first     *)
(* over UDP, and over TCP when the answer is truncated or TCP is asked     *)
(* for.  dns_so_check() is left with EAGAIN wherever a system call would   *)
(* block and is called again later; each of its cases is an action, and    *)
(* between two of them datagrams and bytes arrive.                         *)
(*                                                                         *)
(* A message over TCP is two pieces: of a query the halves, between which  *)
(* send() may stop, of an answer its length and its body.  The permutor    *)
(* that makes query ids hands out each id once before any comes again, in  *)
(* an order that is not known here (DnsPermutor).                          *)
(***************************************************************************)
EXTENDS Naturals, Sequences, FiniteSets

CONSTANTS Hosts, Nothing,
          Questions,   \* each with the packet the resolver has made of it
          Types,       \* what opts may ask for: "dgram", "stream" or "any"
          Qids,        \* 1..65535 in the code
          MaxSubmits,  \* bound: calls of dns_so_submit()
          MaxArrivals, \* bound: datagrams that arrive
          MaxTcps      \* bound: TCP sockets opened

Message == [host : Hosts \cup {Nothing}, qid : Qids \cup {0},
            q : Questions \cup {Nothing}, tc : BOOLEAN]

ASSUME SocketAssumption ==
  /\ Types \subseteq {"dgram", "stream", "any"} /\ Types # {}
  /\ Nothing \notin Hosts \cup Questions \cup Message
  /\ IsFiniteSet(Qids) /\ Qids # {} /\ 0 \notin Qids
  /\ MaxSubmits \in Nat /\ MaxArrivals \in Nat /\ MaxTcps \in Nat

VARIABLES type,      \* so->type
          state,     \* so->state, "none" for 0
          query,     \* so->query, and so->remote
          remote,
          qid,       \* so->qid
          qout,      \* pieces of the query that have been sent over TCP
          answer,    \* so->answer
          apos,      \* pieces of the answer that have been received over TCP
          tcp, old,  \* so->tcp, so->old
          qids,      \* ids the permutor has not given in this round
          qidOf,     \* the id in the header of each query packet, 0 for none
          pc,        \* "idle", or "check" inside of dns_so_check()
          result,    \* what dns_so_check() has returned last
          udp,       \* datagrams the UDP socket has received, not yet read
          peer,      \* the host it is connected to
          asked,     \* queries that have reached a host: [host, qid, q]
          tcps,      \* TCP connections: [host, fd, in, out, open]
          submits, arrivals,
          put, fetched  \* history: hosts each question was put to, and what
                        \* dns_so_fetch() has returned for the open query

so == <<type, state, query, remote, qid, qout, answer, apos, tcp, old>>
ids == <<qids, qidOf>>
net == <<udp, peer, asked, tcps, arrivals>>
history == <<submits, put, fetched>>
vars == <<so, ids, pc, result, net, history>>

Msg(host, id, q, tc) == [host |-> host, qid |-> id, q |-> q, tc |-> tc]
Runt == Msg(Nothing, 0, Nothing, FALSE)  \* less than 12 bytes
NoTcp == 0

UdpStates == {"UDP_INIT", "UDP_CONN", "UDP_SEND", "UDP_RECV", "UDP_DONE"}
TcpStates == {"TCP_INIT", "TCP_CONN", "TCP_SEND", "TCP_RECV", "TCP_DONE"}

Init ==
  /\ type \in Types
  /\ state = "none"
  /\ query = Nothing /\ remote = Nothing
  /\ qid = 0 /\ qout = 0
  /\ answer = Nothing /\ apos = 0
  /\ tcp = NoTcp /\ old = {}
  /\ qids = Qids
  /\ qidOf = [q \in Questions |-> 0]
  /\ pc = "idle" /\ result = "none"
  /\ udp = <<>> /\ peer = Nothing
  /\ asked = {}
  /\ tcps = <<>>
  /\ arrivals = 0 /\ submits = 0
  /\ put = [q \in Questions |-> {}]
  /\ fetched = Nothing

-----------------------------------------------------------------------------
(* Calls of the resolver                                                    *)

(* dns_so_submit(): the socket is reset but its TCP connection stays open,  *)
(* and a packet that has been sent before keeps its id.                     *)
Remaining == IF qids = {} THEN Qids ELSE qids
Submit(q, h) ==
  /\ pc = "idle" /\ submits < MaxSubmits
  /\ \/ qidOf[q] = 0 /\ \E id \in Remaining : /\ qidOf' = [qidOf EXCEPT ![q] = id]
                                          /\ qids' = Remaining \ {id}
     \/ qidOf[q] # 0 /\ UNCHANGED ids
  /\ qid' = qidOf'[q]
  /\ query' = q /\ remote' = h
  /\ qout' = 0 /\ apos' = 0 /\ answer' = Nothing
  /\ state' = IF type = "stream" THEN "TCP_INIT" ELSE "UDP_INIT"
  /\ result' = "none" /\ fetched' = Nothing /\ submits' = submits + 1
  /\ UNCHANGED <<type, tcp, old, pc, net, put>>

(* The resolver makes the query anew in the packet, without an id: answers  *)
(* to the old one count no longer.                                          *)
Remake(q) ==
  /\ pc = "idle" /\ qidOf[q] # 0 /\ (query # q \/ result \in {"error", "fetched"})
  /\ qidOf' = [qidOf EXCEPT ![q] = 0]
  /\ put' = [put EXCEPT ![q] = {}]
  /\ UNCHANGED <<so, qids, pc, result, net, submits, fetched>>

Check ==
  /\ pc = "idle" /\ state # "none" /\ result \in {"none", "again"}
  /\ pc' = "check"
  /\ UNCHANGED <<so, ids, result, net, history>>

Fetch ==
  /\ pc = "idle" /\ result = "ok" /\ state \in {"UDP_DONE", "TCP_DONE"}
  /\ fetched' = answer /\ answer' = Nothing /\ result' = "fetched"
  /\ UNCHANGED <<type, state, query, remote, qid, qout, apos, tcp, old,
                 ids, pc, net, submits, put>>

Fds(S, fd) == tcps' = [n \in DOMAIN tcps |-> IF n \in S THEN [tcps[n] EXCEPT !.fd = fd] ELSE tcps[n]]

(* dns_so_clear()                                                           *)
Clear ==
  /\ pc = "idle" /\ old # {}
  /\ Fds(old, "closed") /\ old' = {}
  /\ UNCHANGED <<type, state, query, remote, qid, qout, answer, apos, tcp,
                 ids, pc, result, udp, peer, asked, arrivals, history>>

-----------------------------------------------------------------------------
(* dns_so_check().  The definitions named Fault... are faults a change of   *)
(* the code could introduce; each makes a property below fail, and no       *)
(* specification uses them.                                                 *)

In(s) == pc = "check" /\ state = s
Goes(s) == state' = s /\ UNCHANGED <<pc, result>>
Returns(r) == pc' = "idle" /\ result' = r /\ UNCHANGED state
Again == Returns("again")
Errs == Returns("error")

Asks(h) ==
  /\ asked' = asked \cup {[host |-> h, qid |-> qid, q |-> query]}
  /\ put' = [put EXCEPT ![query] = @ \cup {h}]

(* What dns_so_verify() looks at.                                           *)
FaultVerifies(a) == a # Runt /\ a.q = query
Verified(a) == a # Runt /\ a.qid = qid /\ a.q = query

UdpInit ==
  /\ In("UDP_INIT") /\ Goes("UDP_CONN")
  /\ UNCHANGED <<type, query, remote, qid, qout, answer, apos, tcp, old, ids, net, history>>

(* connect() changes the host, what has been received stays in the queue.   *)
UdpConnect ==
  /\ In("UDP_CONN")
  /\ \/ peer' = remote /\ Goes("UDP_SEND")
     \/ Errs /\ UNCHANGED peer
  /\ UNCHANGED <<type, query, remote, qid, qout, answer, apos, tcp, old, ids,
                 udp, asked, tcps, arrivals, history>>

(* What is sent may be lost: a host need not answer.                        *)
UdpSend ==
  /\ In("UDP_SEND")
  /\ \/ Goes("UDP_RECV") /\ Asks(peer)
     \/ (Again \/ Errs) /\ UNCHANGED <<asked, put>>
  /\ UNCHANGED <<type, query, remote, qid, qout, answer, apos, tcp, old, ids,
                 udp, peer, tcps, arrivals, submits, fetched>>

UdpNothing ==
  /\ In("UDP_RECV") /\ udp = <<>> /\ (Again \/ Errs)
  /\ UNCHANGED <<type, query, remote, qid, qout, answer, apos, tcp, old, ids, net, history>>

(* A datagram that is not the answer is thrown away and the next is read.   *)
UdpReceive ==
  /\ In("UDP_RECV") /\ udp # <<>>
  /\ answer' = Head(udp) /\ udp' = Tail(udp)
  /\ Goes(IF Verified(Head(udp)) THEN "UDP_DONE" ELSE "UDP_RECV")
  /\ UNCHANGED <<type, query, remote, qid, qout, apos, tcp, old, ids,
                 peer, asked, tcps, arrivals, history>>

UdpDone ==
  /\ In("UDP_DONE")
  /\ IF answer.tc /\ type # "dgram" THEN Goes("TCP_INIT") ELSE Returns("ok")
  /\ UNCHANGED <<type, query, remote, qid, qout, answer, apos, tcp, old, ids, net, history>>

(* dns_so_tcp_keep()                                                        *)
FaultKeepsAny == tcp # NoTcp /\ tcps[tcp].up
Keep == tcp # NoTcp /\ tcps[tcp].up /\ tcps[tcp].host = remote

FaultKeepStays ==
  /\ In("TCP_INIT") /\ Keep
  /\ Goes("TCP_INIT")
  /\ UNCHANGED <<type, query, remote, qid, qout, answer, apos, tcp, old, ids, net, history>>

TcpKeep ==
  /\ In("TCP_INIT") /\ Keep
  /\ Goes("TCP_SEND")
  /\ UNCHANGED <<type, query, remote, qid, qout, answer, apos, tcp, old, ids, net, history>>

(* dns_so_closefd() only puts the descriptor aside.                         *)
FaultForgets == old
PutAside == IF tcp = NoTcp THEN old ELSE old \cup {tcp}

TcpInit ==
  /\ In("TCP_INIT") /\ ~Keep
  /\ old' = PutAside
  /\ \/ /\ Len(tcps) < MaxTcps
        /\ tcps' = Append(tcps, [host |-> remote, fd |-> "open", up |-> FALSE,
                                 in |-> <<>>, out |-> <<>>])
        /\ tcp' = Len(tcps) + 1
        /\ Goes("TCP_CONN")
     \/ tcp' = NoTcp /\ Errs /\ UNCHANGED tcps
  /\ UNCHANGED <<type, query, remote, qid, qout, answer, apos, ids,
                 udp, peer, asked, arrivals, history>>

TcpConnect ==
  /\ In("TCP_CONN")
  /\ \/ tcps[tcp].up /\ Goes("TCP_SEND")
     \/ ~tcps[tcp].up /\ (Again \/ Errs)
  /\ UNCHANGED <<type, query, remote, qid, qout, answer, apos, tcp, old, ids, net, history>>

(* dns_so_tcp_send(): within one call the pieces go out in order; when it   *)
(* is entered again after having sent one, it leaves out twice what has     *)
(* gone and sends what lies behind the query.                               *)
TcpSend ==
  LET piece(n) == [msg |-> Msg(remote, qid, query, FALSE),
                   part |-> IF qout # 0 THEN "beyond" ELSE IF n = 1 THEN "first" ELSE "second"]
  IN  /\ In("TCP_SEND")
      /\ \E last \in qout..2 :
           /\ tcps' = [tcps EXCEPT ![tcp].in = @ \o [n \in 1..(last - qout) |-> piece(n)]]
           /\ qout' = last
           /\ IF last = 2 THEN Goes("TCP_RECV") ELSE Again \/ Errs
           /\ put' = IF qout = 0 /\ last = 2 THEN [put EXCEPT ![query] = @ \cup {remote}] ELSE put
      /\ UNCHANGED <<type, query, remote, qid, answer, apos, tcp, old, ids,
                     udp, peer, asked, arrivals, submits, fetched>>

(* dns_so_tcp_recv(): first the length, then as much as it says.  What has  *)
(* been left of an earlier answer is taken for the length.                  *)
TcpNothing ==
  /\ In("TCP_RECV") /\ tcps[tcp].out = <<>> /\ (Again \/ Errs)
  /\ UNCHANGED <<type, query, remote, qid, qout, answer, apos, tcp, old, ids, net, history>>

Garbage == Msg(Nothing, 0, Nothing, TRUE)
TcpReceive ==
  LET piece == Head(tcps[tcp].out)
  IN  /\ In("TCP_RECV") /\ tcps[tcp].out # <<>>
      /\ tcps' = [tcps EXCEPT ![tcp].out = Tail(@)]
      /\ answer' = IF piece.part = (IF apos = 0 THEN "length" ELSE "body") /\ answer # Garbage
                   THEN piece.msg ELSE Garbage
      /\ apos' = 1
      /\ \/ apos = 1 /\ Goes("TCP_DONE")
         \/ (apos = 0 \/ answer' = Garbage) /\ Goes("TCP_RECV")
      /\ UNCHANGED <<type, query, remote, qid, qout, tcp, old, ids,
                     udp, peer, asked, arrivals, history>>

(* Unless TCP is all that is used, the descriptor is put aside.             *)
TcpDone ==
  /\ In("TCP_DONE")
  /\ IF type # "stream" THEN tcp' = NoTcp /\ old' = PutAside ELSE UNCHANGED <<tcp, old>>
  /\ Returns(IF Verified(answer) THEN "ok" ELSE "error")
  /\ UNCHANGED <<type, query, remote, qid, qout, answer, apos, ids, net, history>>

(* dns_so_close(): the socket and all its descriptors are gone.             *)
Close ==
  /\ pc = "idle"
  /\ pc' = "closed"
  /\ Fds(PutAside, "closed") /\ old' = {} /\ tcp' = NoTcp
  /\ state' = "none" /\ answer' = Nothing
  /\ UNCHANGED <<type, query, remote, qid, qout, apos, ids, result,
                 udp, peer, asked, arrivals, history>>

-----------------------------------------------------------------------------
(* Hosts and the network.  A connected UDP socket receives from its host    *)
(* alone; a host may answer late, twice, never, or with too few bytes.      *)

Arrives(d) ==
  /\ pc # "closed" /\ arrivals < MaxArrivals
  /\ arrivals' = arrivals + 1
  /\ udp' = Append(udp, d)
  /\ UNCHANGED <<so, ids, pc, result, peer, asked, tcps, history>>

UdpAnswer ==
  \/ \E m \in asked, tc \in BOOLEAN : m.host = peer /\ Arrives(Msg(m.host, m.qid, m.q, tc))
  \/ peer # Nothing /\ Arrives(Runt)

TcpMoves(n, new) ==
  /\ tcps[n].fd = "open"
  /\ tcps' = [tcps EXCEPT ![n] = new]
  /\ UNCHANGED <<so, ids, pc, result, udp, peer, asked, arrivals, history>>

TcpUp(n) == ~tcps[n].up /\ TcpMoves(n, [tcps[n] EXCEPT !.up = TRUE])

(* A host answers a query that has reached it whole, in one go or in two.   *)
TcpAnswer(n) ==
  LET in == tcps[n].in
      rest == SubSeq(in, 3, Len(in))
      piece(part) == [msg |-> in[1].msg, part |-> part]
  IN  /\ tcps[n].up /\ Len(in) >= 2
      /\ in[1].part = "first" /\ in[2] = piece("second")
      /\ \/ TcpMoves(n, [tcps[n] EXCEPT !.in = rest,
                                        !.out = @ \o <<piece("length"), piece("body")>>])
         \/ TcpMoves(n, [tcps[n] EXCEPT !.in = <<piece("body")>> \o rest,
                                        !.out = Append(@, piece("length"))])

TcpRest(n) ==
  LET in == tcps[n].in
  IN  /\ in # <<>> /\ Head(in).part = "body"
      /\ TcpMoves(n, [tcps[n] EXCEPT !.in = Tail(in), !.out = Append(@, Head(in))])

-----------------------------------------------------------------------------
SoCheck ==
  \/ UdpInit \/ UdpConnect \/ UdpSend \/ UdpNothing \/ UdpReceive \/ UdpDone
  \/ TcpKeep \/ TcpInit \/ TcpConnect \/ TcpSend \/ TcpNothing \/ TcpReceive \/ TcpDone

Network ==
  \/ UdpAnswer
  \/ \E n \in DOMAIN tcps : TcpUp(n) \/ TcpAnswer(n) \/ TcpRest(n)

Next ==
  \/ \E q \in Questions, h \in Hosts : Submit(q, h)
  \/ \E q \in Questions : Remake(q)
  \/ Check \/ Fetch \/ Clear \/ Close
  \/ SoCheck \/ Network

Spec == Init /\ [][Next]_vars

(* dns_so_check() is a loop without a wait: once called it goes on.         *)
FairSpec == Spec /\ WF_vars(SoCheck)

-----------------------------------------------------------------------------
Piece == [msg : Message, part : {"first", "second", "beyond", "length", "body"}]
Connection == [host : Hosts \cup {Nothing}, fd : {"open", "closed"}, up : BOOLEAN,
               in : Seq(Piece), out : Seq(Piece)]
Query == [host : Hosts \cup {Nothing}, qid : Qids \cup {0}, q : Questions \cup {Nothing}]

(* Type invariant of the socket and of what lies around it.                 *)
TypeOK ==
  /\ type \in Types
  /\ state \in UdpStates \cup TcpStates \cup {"none"}
  /\ query \in Questions \cup {Nothing} /\ remote \in Hosts \cup {Nothing}
  /\ qid \in Qids \cup {0} /\ qids \subseteq Qids
  /\ qidOf \in [Questions -> Qids \cup {0}]
  /\ qout \in 0..2 /\ apos \in 0..1
  /\ answer \in Message \cup {Nothing}
  /\ tcp \in DOMAIN tcps \cup {NoTcp} /\ old \subseteq DOMAIN tcps
  /\ pc \in {"idle", "check", "closed"}
  /\ result \in {"none", "again", "ok", "error", "fetched"}
  /\ udp \in Seq(Message) /\ peer \in Hosts \cup {Nothing}
  /\ asked \subseteq Query /\ tcps \in Seq(Connection)
  /\ submits \in 0..MaxSubmits /\ arrivals \in 0..MaxArrivals
  /\ put \in [Questions -> SUBSET Hosts] /\ fetched \in Message \cup {Nothing}

(* The descriptor of a TCP connection is either so->tcp or put aside in     *)
(* so->old, and in only one of them, until it is closed: none is closed     *)
(* twice and, once the socket is closed, none is left open.                 *)
EachFdIsClosedOnce ==
  /\ tcp \notin old
  /\ \A n \in DOMAIN tcps : tcps[n].fd = "open" <=> n = tcp \/ n \in old

(* dns_so_pollfd() and dns_so_events2()                                     *)
PollFd ==
  CASE state \in {"UDP_CONN", "UDP_SEND", "UDP_RECV"} -> "udp"
    [] state \in {"TCP_CONN", "TCP_SEND", "TCP_RECV"} /\ tcp # NoTcp -> "tcp"
    [] OTHER -> "none"
Events ==
  CASE state \in {"UDP_CONN", "UDP_SEND", "TCP_CONN", "TCP_SEND"} -> "out"
    [] state \in {"UDP_RECV", "TCP_RECV"} -> "in"
    [] OTHER -> "none"

(* Who is told EAGAIN can wait for it: dns_so_pollfd() gives an open        *)
(* descriptor, connected to the host of this query and not to the one of    *)
(* an earlier query, and dns_so_events() an event of it to wait for.        *)
AgainCanBeAwaited ==
  result = "again" /\ pc = "idle" =>
    /\ PollFd # "none" /\ Events # "none"
    /\ PollFd = "tcp" => tcps[tcp].fd = "open" /\ tcps[tcp].host = remote
    /\ PollFd = "udp" => peer = remote

(* dns_so_check() always comes back to its caller.                          *)
CheckReturns == pc = "check" ~> pc # "check"

(* The socket keeps what DnsQuery promises: only an answer to the question  *)
(* that is open, from a host that was asked it, is ever fetched.            *)
Promise == INSTANCE DnsQuery WITH
  question <- query,
  answers <- IF fetched = Nothing THEN {} ELSE {[q |-> fetched.q, host |-> fetched.host]},
  failed <- result = "error"
ImplementsQuery == Promise!Spec
==============================================================================
