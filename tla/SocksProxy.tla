------------------------------ MODULE SocksProxy ------------------------------
(***************************************************************************)
(* The SOCKS5 proxy (seventh lab): one process, one poll() loop, a table   *)
(* of connections.  Each handler of the loop is an action, the switch over *)
(* the status of connections[i] is the choice between them.  Clients,      *)
(* servers and the kernel's buffers are the environment and move between   *)
(* any two handlers.                                                       *)
(*                                                                         *)
(* A client's bytes are pieces: 1 is the version and the number of         *)
(* methods, 2 the methods; 3 is version and command of the request, 4 the  *)
(* address type and the byte after it, 6 its last five bytes and 5 what is *)
(* between them (nothing, if an address is asked for); data follows.  They *)
(* are cut where the code compares currBufClient with a length.  Names are *)
(* of 4 to 127 bytes: the 5 of a shorter one is empty, and the length of a *)
(* longer one is a negative char.                                          *)
(*                                                                         *)
(* poll() does not fail: it would be for a table longer than the limit on  *)
(* descriptors, and revents that were never written would then be looked   *)
(* at.                                                                     *)
(*                                                                         *)
(* The listening socket does not block, the others do.  A descriptor that  *)
(* has been closed is not given to another socket within one handler.      *)
(***************************************************************************)
EXTENDS Integers, Sequences, FiniteSets

CONSTANTS Clients,
          Plans,            \* what the clients may do, each of them a
                            \* [version, auth, cmd, atyp, slow, resets, up, down], where up
                            \* and down are the pieces it and its server send
          MAX_CONNECTIONS,  \* 2048 in the code, which never compares with it
          MaxData,          \* bound: pieces of data each side sends
          MaxServers        \* bound: sockets opened to servers

ASSUME ProxyAssumption ==
  /\ IsFiniteSet(Clients) /\ Clients # {}
  /\ MAX_CONNECTIONS \in Nat /\ Cardinality(Clients) <= MAX_CONNECTIONS
  /\ Plans \subseteq [Clients -> [version : {4, 5}, auth : BOOLEAN,
                      cmd : {"connect", "bind"}, atyp : {"ip", "name", "ipv6"},
                      slow : BOOLEAN, resets : BOOLEAN,
                      up : 0..MaxData, down : 0..MaxData]]
  /\ MaxData \in Nat
  /\ MaxServers \in Nat

VARIABLES pc,          \* where main() is; "dead" when a signal has killed it
          i,           \* its loop variable, from 1
          table,       \* connections[]
          count,       \* connectionsCount
          cev, sev,    \* revents of the client and the server of each entry,
                       \* the listening socket's in cev[count + 1]
          backlog,     \* clients that are connected and not yet accepted
          sock,        \* the proxy's end of the connection of each client
          inq,         \* bytes of each client that the proxy has not read
          wq,          \* bytes for each client that it has not read
          servers,     \* sockets opened by openServerSocket()
          resolvers,   \* resolvers opened by dns_res_stub()
          plan,        \* what each client asks for
          end,         \* each client's end of its connection
          sent,        \* pieces each client has sent
          got,         \* what each client has received
          stray        \* history: the handler went on with an entry that was
                       \* not that of the request it had read

proxy == <<pc, i, cev, sev>>
conns == <<table, count>>
kernel == <<backlog, sock, inq, wq>>
far == <<servers, resolvers>>
peers == <<plan, end, sent, got>>
vars == <<proxy, conns, kernel, far, peers, stray>>

EOF == <<0>>                        \* currBuf... is -1; no piece is 0
Held(buf) == IF buf = EOF THEN <<>> ELSE buf
NoServer == 0
NoSocket == "no socket"               \* socket() has failed: -1

Entry(c) == [client |-> c, server |-> NoServer, status |-> "INCOMING",
             bufC |-> <<>>, bufS |-> <<>>, R |-> 0]

Reply(kind) == [kind |-> kind, k |-> 0]
Data(k) == [kind |-> "data", k |-> k]
Greeting == {1, 2}
Request == {3, 4, 5, 6}
Handshake == 6                      \* data begins after this piece

Live == 1..count
Has(buf, piece) == \E n \in DOMAIN buf : buf[n] = piece

Init ==
  /\ pc = "poll" /\ i = 1
  /\ table = [k \in 1..MAX_CONNECTIONS |-> Entry(CHOOSE c \in Clients : TRUE)]
  /\ count = 0
  /\ cev = [k \in 1..(MAX_CONNECTIONS + 1) |-> {}]
  /\ sev = [k \in 1..(MAX_CONNECTIONS + 1) |-> {}]
  /\ backlog = <<>>
  /\ sock = [c \in Clients |-> "none"]
  /\ inq = [c \in Clients |-> <<>>]
  /\ wq = [c \in Clients |-> <<>>]
  /\ servers = <<>> /\ resolvers = <<>>
  /\ plan \in Plans
  /\ end = [c \in Clients |-> "away"]
  /\ sent = [c \in Clients |-> 0]
  /\ got = [c \in Clients |-> <<>>]
  /\ stray = FALSE

-----------------------------------------------------------------------------
(* The environment.  A client waits for the answer to its greeting and to   *)
(* its request before it goes on, and gives up when it is refused.          *)

Received(c, kind) == \E n \in DOMAIN got[c] : got[c][n].kind = kind

(* What each client has sent when it next waits for an answer.              *)
Goal(c) ==
  IF Received(c, "granted") THEN Handshake + plan[c].up
  ELSE IF Received(c, "welcome") THEN Handshake ELSE 2

Connects(c) ==
  /\ end[c] = "away"
  /\ end' = [end EXCEPT ![c] = "open"]
  /\ backlog' = Append(backlog, c)
  /\ UNCHANGED <<proxy, conns, sock, inq, wq, far, plan, sent, got, stray>>

(* A slow client's bytes come one piece at a time.                          *)
Sends(c) ==
  /\ end[c] = "open" /\ sock[c] # "closed" /\ sent[c] < Goal(c)
  /\ sent' = [sent EXCEPT ![c] = IF plan[c].slow THEN @ + 1 ELSE Goal(c)]
  /\ inq' = [inq EXCEPT ![c] = @ \o [n \in 1..(sent'[c] - sent[c]) |-> sent[c] + n]]
  /\ UNCHANGED <<proxy, conns, backlog, sock, wq, far, plan, end, got, stray>>

Finishes(c) ==
  /\ end[c] = "open" /\ sock[c] # "closed"
  /\ end' = [end EXCEPT ![c] = "fin"]
  /\ UNCHANGED <<proxy, conns, kernel, far, plan, sent, got, stray>>

Resets(c) ==
  /\ end[c] \in {"open", "fin"} /\ sock[c] = "open" /\ plan[c].resets
  /\ end' = [end EXCEPT ![c] = "reset"]
  /\ wq' = [wq EXCEPT ![c] = <<>>]
  /\ UNCHANGED <<proxy, conns, backlog, sock, inq, far, plan, sent, got, stray>>

Reads(c) ==
  /\ wq[c] # <<>>
  /\ got' = [got EXCEPT ![c] = Append(@, Head(wq[c]))]
  /\ wq' = [wq EXCEPT ![c] = Tail(@)]
  /\ UNCHANGED <<proxy, conns, backlog, sock, inq, far, plan, end, sent, stray>>

ServerMoves(s, new) ==
  /\ servers' = [servers EXCEPT ![s] = new]
  /\ UNCHANGED <<proxy, conns, kernel, resolvers, peers, stray>>

ServerSends(s) ==
  /\ servers[s].peer = "open" /\ servers[s].open /\ servers[s].sent < plan[servers[s].client].down
  /\ ServerMoves(s, [servers[s] EXCEPT !.sent = @ + 1,
                                       !.inq = Append(@, servers[s].sent + 1)])

ServerFinishes(s) ==
  /\ servers[s].peer = "open" /\ servers[s].open
  /\ ServerMoves(s, [servers[s] EXCEPT !.peer = "fin"])

ServerReads(s) ==
  /\ servers[s].wq # <<>>
  /\ ServerMoves(s, [servers[s] EXCEPT !.got = @ \o servers[s].wq, !.wq = <<>>])

(* More than 30 s have passed since the name was submitted.                 *)
TimePasses(r) ==
  /\ resolvers[r] = "running"
  /\ resolvers' = [resolvers EXCEPT ![r] = "late"]
  /\ UNCHANGED <<proxy, conns, kernel, servers, peers, stray>>

-----------------------------------------------------------------------------
(* poll()                                                                   *)

(* What form_poll_fds() asks for and poll() finds, for one entry; a POLLHUP *)
(* comes unasked.  A socket whose connect() failed is writable and hung up. *)
ClientEvents(e) ==
  LET c == e.client
  IN  {x \in {"in"} : /\ e.status \in {"INCOMING", "SOCK_REQUEST", "FORWARDING"}
                      /\ inq[c] # <<>> \/ end[c] # "open"}
      \cup {x \in {"out"} : /\ e.status # "INCOMING"
                            /\ wq[c] = <<>>}
      \cup {x \in {"hup"} : end[c] = "reset"}

ServerEvents(e) ==
  IF e.status # "FORWARDING" \/ e.server \notin DOMAIN servers THEN {}
  ELSE LET s == servers[e.server]
       IN  {x \in {"in"} : s.inq # <<>> \/ s.peer = "fin"}
           \cup {x \in {"out"} : s.wq = <<>>}

(* With a count of -1 poll() is given no descriptor and never finds one.    *)
Poll ==
  /\ pc = "poll" /\ count >= 0
  /\ cev' = [k \in DOMAIN cev |-> IF k \in Live THEN ClientEvents(table[k])
                                  ELSE {x \in {"in"} : k = count + 1 /\ backlog # <<>>}]
  /\ sev' = [k \in DOMAIN sev |-> IF k \in Live THEN ServerEvents(table[k]) ELSE {}]
  /\ \E k \in 1..(count + 1) : cev'[k] \cup sev'[k] # {}
  /\ pc' = "scan" /\ i' = 1
  /\ UNCHANGED <<conns, kernel, far, peers, stray>>

At(status) == pc = "scan" /\ i \in Live /\ table[i].status = status
Now == table[i]
Client == table[i].client

NextEntry == pc' = "scan" /\ i' = i + 1 /\ UNCHANGED <<cev, sev>>
Sets(e) == table' = [table EXCEPT ![i] = e] /\ UNCHANGED count

(* A fault, like those below: the last entry is not moved.                  *)
FaultLeavesLast(tab) == tab

(* dropConnection(): the last entry takes the freed place, which was maybe  *)
(* its own.  What lies before the table is left out: it is not moved.       *)
Dropped(tab) == [tab EXCEPT ![i] = IF count \in DOMAIN tab THEN tab[count] ELSE @]
Drop(tab) ==
  /\ table' = Dropped(tab) /\ count' = count - 1
  /\ sock' = [sock EXCEPT ![Client] = "closed"]

(* The last piece of what has been taken for the request.                   *)
LastPiece(e) == IF Has(e.bufC, Handshake) THEN Handshake ELSE Handshake - 1

(* The socket opened for an entry; from is history.                         *)
Server(e, peer) == [client |-> e.client, peer |-> peer, open |-> TRUE, sent |-> 0,
                    inq |-> <<>>, wq |-> <<>>, got |-> <<>>, from |-> LastPiece(e)]

(* What a write() adds to a socket that is still there.                     *)
Answers(c, replies) ==
  wq' = [wq EXCEPT ![c] = IF sock[c] = "open" /\ end[c] # "reset" THEN @ \o replies ELSE @]

Skips ==
  /\ NextEntry
  /\ UNCHANGED <<conns, kernel, far, peers, stray>>

(* The process is gone, and with it all its sockets.                        *)
Dies ==
  /\ pc' = "dead"
  /\ UNCHANGED <<i, cev, sev, conns, kernel, far, peers, stray>>

-----------------------------------------------------------------------------
(* Faults a change of the code could introduce; each must make one of the   *)
(* properties below fail.  They are used by no specification.               *)

(* The buffers are not emptied before the connection forwards.              *)
FaultForwardsRequest(peer) ==
  /\ peer # NoSocket /\ Len(servers) < MaxServers
  /\ servers' = Append(servers, Server(Now, peer))
  /\ Answers(Client, <<Reply("granted")>>)
  /\ Sets([Now EXCEPT !.server = Len(servers) + 1, !.status = "FORWARDING"])
  /\ UNCHANGED sock

(* The connection is dropped as soon as one side has finished.              *)
FaultEndsAtOnce(bufC, bufS) == bufC = EOF \/ bufS = EOF

(* dns_res_elapsed() is not compared with 30.                               *)
FaultWaitsOn ==
  /\ At("RESOLVING") /\ "out" \in cev[i]
  /\ Skips

-----------------------------------------------------------------------------
(* CS_INCOMING and CS_AUTH_...                                              *)

IncomingHangup ==
  /\ At("INCOMING") /\ "hup" \in cev[i]
  /\ Drop(table) /\ NextEntry
  /\ UNCHANGED <<backlog, inq, wq, far, peers, stray>>

(* read() returns 0.  After a reset it may return -1 the first time, which  *)
(* memcpy() takes for a length.                                             *)
Ended(c) == inq[c] = <<>> /\ end[c] # "open"
IncomingEnds ==
  /\ At("INCOMING") /\ cev[i] \cap {"in", "hup"} = {"in"} /\ Ended(Client)
  /\ Drop(table) /\ NextEntry
  /\ UNCHANGED <<backlog, inq, wq, far, peers, stray>>

IncomingReads ==
  LET buf == Now.bufC \o inq[Client]
      status == IF ~Has(buf, 2) THEN "INCOMING"
                ELSE IF plan[Client].auth THEN "AUTH_SUCCESS" ELSE "AUTH_FAILURE"
  IN  /\ At("INCOMING") /\ cev[i] \cap {"in", "hup"} = {"in"} /\ inq[Client] # <<>>
      /\ IF plan[Client].version = 5
         THEN Sets([Now EXCEPT !.bufC = buf, !.status = status]) /\ UNCHANGED sock
         ELSE Drop(table)
      /\ inq' = [inq EXCEPT ![Client] = <<>>]
      /\ NextEntry
      /\ UNCHANGED <<backlog, wq, far, peers, stray>>

AuthFailure ==
  /\ At("AUTH_FAILURE") /\ "out" \in cev[i]
  /\ Answers(Client, <<Reply("denied")>>) /\ Drop(table) /\ NextEntry
  /\ UNCHANGED <<backlog, inq, far, peers, stray>>

AuthSuccess ==
  /\ At("AUTH_SUCCESS") /\ "out" \in cev[i]
  /\ Answers(Client, <<Reply("welcome")>>)
  /\ Sets([Now EXCEPT !.status = "SOCK_REQUEST", !.bufC = <<>>]) /\ NextEntry
  /\ UNCHANGED <<backlog, sock, inq, far, peers, stray>>

-----------------------------------------------------------------------------
(* CS_SOCK_REQUEST.  POLLOUT is enough to read, so that the process waits   *)
(* in read() until the client has sent something or has gone.               *)

RequestEnds ==
  /\ At("SOCK_REQUEST") /\ cev[i] \cap {"in", "out"} # {} /\ Ended(Client)
  /\ Drop(table) /\ NextEntry
  /\ UNCHANGED <<backlog, inq, wq, far, peers, stray>>

(* Another command is refused and dropped, and the handler goes on with     *)
(* what is connections[i] then.                                             *)
RequestReads ==
  LET read == [table EXCEPT ![i].bufC = @ \o inq[Client]]
  IN  /\ At("SOCK_REQUEST") /\ cev[i] \cap {"in", "out"} # {} /\ inq[Client] # <<>>
      /\ IF plan[Client].cmd = "connect"
         THEN table' = read /\ pc' = "parse" /\ UNCHANGED <<count, wq, sock>>
         ELSE /\ Answers(Client, <<Reply("refused")>>) /\ Drop(read) /\ pc' = "parse after drop"
      /\ inq' = [inq EXCEPT ![Client] = <<>>]
      /\ UNCHANGED <<i, cev, sev, backlog, far, peers, stray>>

Parses == pc \in {"parse", "parse after drop"}
Strays == stray' = (stray \/ pc = "parse after drop")

(* The bytes of a request are known; those of an entry with another status  *)
(* may read as anything.  A name is taken as whole five bytes too early:    *)
(* what is compared is its length and 2, not its length and 7.              *)
IsRequest(e) == e.status = "SOCK_REQUEST"
Five(e) == IF IsRequest(e) THEN {Has(e.bufC, 4)} ELSE {Held(e.bufC) # <<>>, FALSE}
Whole(e) == IF ~IsRequest(e) THEN BOOLEAN
            ELSE {Has(e.bufC, IF plan[e.client].atyp = "name" THEN 5 ELSE 6)}
Type(e) == IF IsRequest(e) THEN {plan[e.client].atyp} ELSE {"ip", "name", "ipv6"}

RequestShort ==
  /\ Parses
  /\ \/ FALSE \in Five(Now)
     \/ Type(Now) \cap {"ip", "name"} # {} /\ FALSE \in Whole(Now)
  /\ Skips

(* openServerSocket() returns the socket whether or not connect() succeeded *)
(* and -1 only when there is no socket to be had: form_response() then says *)
(* so, and after it the handler.  Otherwise the connection forwards.        *)
Opens(peer) ==
  LET c == Client
  IN  IF peer = NoSocket
      THEN /\ Answers(c, <<Reply("refused"), Reply("refused")>>)
           /\ Drop(table)
           /\ UNCHANGED servers
      ELSE /\ Len(servers) < MaxServers
           /\ servers' = Append(servers, Server(Now, peer))
           /\ Answers(c, <<Reply("granted")>>)
           /\ Sets([Now EXCEPT !.server = Len(servers) + 1, !.status = "FORWARDING",
                               !.bufC = <<>>, !.bufS = <<>>])
           /\ UNCHANGED sock

RequestAddress ==
  /\ Parses /\ "ip" \in Type(Now) /\ TRUE \in Five(Now) /\ TRUE \in Whole(Now)
  /\ \E peer \in {"open", "refused", NoSocket} : Opens(peer)
  /\ NextEntry /\ Strays
  /\ UNCHANGED <<backlog, inq, resolvers, peers>>

(* sendDNS()                                                                *)
RequestName ==
  /\ Parses /\ "name" \in Type(Now) /\ TRUE \in Five(Now) /\ TRUE \in Whole(Now)
  /\ \/ /\ resolvers' = Append(resolvers, "running")
        /\ Sets([Now EXCEPT !.status = "RESOLVING", !.R = Len(resolvers) + 1])
        /\ UNCHANGED <<sock, wq>>
     \/ /\ resolvers' \in {resolvers, Append(resolvers, "leaked")}
        /\ Answers(Client, <<Reply("refused")>>) /\ Drop(table)
  /\ NextEntry /\ Strays
  /\ UNCHANGED <<backlog, inq, servers, peers>>

RequestOther ==
  /\ Parses /\ "ipv6" \in Type(Now) /\ TRUE \in Five(Now)
  /\ Answers(Client, <<Reply("refused")>>) /\ Drop(table)
  /\ NextEntry /\ Strays
  /\ UNCHANGED <<backlog, inq, far, peers>>

-----------------------------------------------------------------------------
(* CS_RESOLVING and CS_FORWARDING                                           *)

Frees(r) == resolvers' = [resolvers EXCEPT ![r] = "closed"]

ResolvingAnswered ==
  /\ At("RESOLVING") /\ "out" \in cev[i]
  /\ \E peer \in {"open", "refused", NoSocket} : Opens(peer)
  /\ Frees(Now.R) /\ NextEntry
  /\ UNCHANGED <<backlog, inq, peers, stray>>

(* dns_res_check() fails, or says EAGAIN for more than 30 s.                *)
ResolvingFails ==
  /\ At("RESOLVING") /\ "out" \in cev[i]
  /\ Answers(Client, <<Reply("refused")>>) /\ Drop(table)
  /\ Frees(Now.R) /\ NextEntry
  /\ UNCHANGED <<backlog, inq, servers, peers, stray>>

(* EAGAIN: the case falls through to CS_FORWARDING, where nothing applies:  *)
(* currBufClient holds the request and the server has no events.            *)
ResolvingWaits ==
  /\ At("RESOLVING") /\ "out" \in cev[i] /\ resolvers[Now.R] # "late"
  /\ Skips

(* Each side is read when its buffer is empty and written when the other    *)
(* may be; what has been read may be written at once.  A write that fails   *)
(* closes the buffer.                                                       *)
ReadFrom(buf, events, queue) ==
  IF buf = <<>> /\ "in" \in events THEN (IF queue = <<>> THEN EOF ELSE queue) ELSE buf
Writable(buf, events) == Held(buf) # <<>> /\ "out" \in events
Ends(bufC, bufS) == \/ bufC = EOF /\ Held(bufS) = <<>>
                    \/ bufS = EOF /\ Held(bufC) = <<>>

Forwarding ==
  LET c == Client
      s == Now.server
      readC == ReadFrom(Now.bufC, cev[i], inq[c])
      readS == ReadFrom(Now.bufS, sev[i], servers[s].inq)
      toC == Writable(readS, cev[i])
      toS == Writable(readC, sev[i])
      bufS == IF ~toC THEN readS ELSE IF end[c] = "reset" THEN EOF ELSE <<>>
      bufC == IF ~toS THEN readC ELSE IF servers[s].peer = "refused" THEN EOF ELSE <<>>
      drop == Ends(bufC, bufS)
      new == [table EXCEPT ![i].bufC = bufC, ![i].bufS = bufS]
  IN  /\ At("FORWARDING")
      /\ servers' = [servers EXCEPT
           ![s].inq = IF Now.bufS = <<>> /\ "in" \in sev[i] THEN <<>> ELSE @,
           ![s].wq = IF toS /\ servers[s].peer # "refused" THEN @ \o readC ELSE @,
           ![s].open = ~drop]
      /\ IF toC THEN Answers(c, [n \in DOMAIN readS |-> Data(readS[n])]) ELSE UNCHANGED wq
      /\ inq' = [inq EXCEPT ![c] = IF Now.bufC = <<>> /\ "in" \in cev[i] THEN <<>> ELSE @]
      /\ IF drop THEN Drop(new) ELSE table' = new /\ UNCHANGED <<count, sock>>
      /\ NextEntry
      /\ UNCHANGED <<backlog, resolvers, peers, stray>>

(* SIGPIPE: a write() to a client that has reset the connection or to a     *)
(* server that has refused it kills the process, if it does not return -1.  *)
(* So does memcpy() when read() has returned -1.                            *)
KilledWriting ==
  /\ \/ At("AUTH_FAILURE") \/ At("AUTH_SUCCESS") \/ At("RESOLVING")
  /\ "out" \in cev[i] /\ end[Client] = "reset"
  /\ Dies

KilledForwarding ==
  /\ At("FORWARDING")
  /\ \/ /\ end[Client] = "reset"
        /\ Writable(ReadFrom(Now.bufS, sev[i], servers[Now.server].inq), cev[i])
     \/ /\ servers[Now.server].peer = "refused"
        /\ Writable(ReadFrom(Now.bufC, cev[i], inq[Client]), sev[i])
  /\ Dies

KilledParsing ==
  /\ Parses /\ TRUE \in Five(Now) /\ sock[Client] = "open" /\ end[Client] = "reset"
  /\ Dies

KilledReading ==
  /\ \/ At("INCOMING") /\ "hup" \notin cev[i]
     \/ At("SOCK_REQUEST")
  /\ cev[i] # {} /\ inq[Client] = <<>> /\ end[Client] = "reset"
  /\ Dies

(* The entry has no event its status waits for.                             *)
Idle ==
  /\ pc = "scan" /\ i \in Live
  /\ \/ Now.status \in {"INCOMING", "SOCK_REQUEST"} /\ cev[i] = {}
     \/ Now.status \in {"AUTH_FAILURE", "AUTH_SUCCESS", "RESOLVING"} /\ "out" \notin cev[i]
  /\ Skips

-----------------------------------------------------------------------------
(* After the loop.  The count may have shrunk: the events looked at are     *)
(* then those of a client, and accept() returns -1 if nobody is waiting.    *)

Passed == pc = "scan" /\ i > count
Again ==
  /\ pc' = "poll" /\ i' = 1
  /\ cev' = [k \in DOMAIN cev |-> {}] /\ sev' = [k \in DOMAIN sev |-> {}]
Signalled == count >= 0 /\ cev[count + 1] \cap {"in", "hup"} = {"in"}

Accept ==
  /\ Passed /\ Signalled /\ backlog # <<>>
  /\ table' = [table EXCEPT ![count + 1] = Entry(Head(backlog))]
  /\ count' = count + 1
  /\ sock' = [sock EXCEPT ![Head(backlog)] = "open"]
  /\ backlog' = Tail(backlog)
  /\ Again
  /\ UNCHANGED <<inq, wq, far, peers, stray>>

AcceptNone ==
  /\ Passed /\ (Signalled => backlog = <<>>)
  /\ Again
  /\ UNCHANGED <<conns, kernel, far, peers, stray>>

-----------------------------------------------------------------------------
Proxy ==
  \/ Poll \/ Idle
  \/ IncomingHangup \/ IncomingEnds \/ IncomingReads \/ AuthFailure \/ AuthSuccess
  \/ RequestEnds \/ RequestReads
  \/ RequestShort \/ RequestAddress \/ RequestName \/ RequestOther
  \/ ResolvingAnswered \/ ResolvingFails \/ ResolvingWaits \/ Forwarding
  \/ KilledReading \/ KilledParsing \/ KilledWriting \/ KilledForwarding
  \/ Accept \/ AcceptNone

ClientMoves(c) == Connects(c) \/ Sends(c) \/ Finishes(c) \/ Resets(c)

(* When the process is dead nothing more is looked at.                      *)
Around ==
  /\ pc # "dead"
  /\ \/ \E c \in Clients : ClientMoves(c) \/ Reads(c)
     \/ \E s \in DOMAIN servers : ServerSends(s) \/ ServerFinishes(s) \/ ServerReads(s)
     \/ \E r \in DOMAIN resolvers : TimePasses(r)

Next == Proxy \/ Around

Spec == Init /\ [][Next]_vars

(* main() never waits for anything but poll(), connect() and the read() of  *)
(* a request, so it goes on whenever it can.  Clients, servers and the      *)
(* clock are assumed to go on too: a client that is silent after its        *)
(* greeting stops the proxy for all of them.                                *)
Fairness ==
  /\ WF_vars(Proxy)
  /\ \A c \in Clients : WF_vars(pc # "dead" /\ (Sends(c) \/ Finishes(c)))
                        /\ WF_vars(pc # "dead" /\ Reads(c))
  /\ \A s \in 1..MaxServers : WF_vars(pc # "dead" /\ s \in DOMAIN servers /\ ServerReads(s))
  /\ \A r \in 1..Cardinality(Clients) : 
       WF_vars(pc # "dead" /\ r \in DOMAIN resolvers /\ TimePasses(r))

FairSpec == Spec /\ Fairness

-----------------------------------------------------------------------------
Piece == 1..(Handshake + MaxData)
Message == [kind : {"denied", "welcome", "granted", "refused", "data"}, k : 0..MaxData]
Events == SUBSET {"in", "out", "hup"}

Connection ==
  [client : Clients, server : NoServer..MaxServers,
   status : {"INCOMING", "AUTH_FAILURE", "AUTH_SUCCESS", "SOCK_REQUEST", "RESOLVING", "FORWARDING"},
   bufC : Seq(Piece) \cup {EOF}, bufS : Seq(1..MaxData) \cup {EOF}, R : Nat]

ServerSocket ==
  [client : Clients, peer : {"open", "refused", "fin"}, open : BOOLEAN, sent : 0..MaxData,
   inq : Seq(1..MaxData), wq : Seq(Piece), got : Seq(Piece), from : {Handshake - 1, Handshake}]

(* Type invariant of the connection table and what lies around it; a place  *)
(* that is free holds what was there before.                                *)
ProxyTypes ==
  /\ pc \in {"poll", "scan", "parse", "parse after drop", "dead"}
  /\ i \in 1..(MAX_CONNECTIONS + 1)
  /\ cev \in [1..(MAX_CONNECTIONS + 1) -> Events]
  /\ sev \in [1..(MAX_CONNECTIONS + 1) -> Events]
ConnsTypes ==
  /\ table \in [1..MAX_CONNECTIONS -> Connection]
  /\ stray \in BOOLEAN
  /\ count \in (-1)..MAX_CONNECTIONS /\ (~stray => count >= 0)
KernelTypes ==
  /\ backlog \in Seq(Clients)
  /\ sock \in [Clients -> {"none", "open", "closed"}]
  /\ inq \in [Clients -> Seq(Piece)]
  /\ wq \in [Clients -> Seq(Message)]
FarTypes ==
  /\ servers \in Seq(ServerSocket) /\ Len(servers) <= MaxServers
  /\ resolvers \in Seq({"running", "late", "closed", "leaked"})
PeersTypes ==
  /\ plan \in Plans
  /\ end \in [Clients -> {"away", "open", "fin", "reset"}]
  /\ sent \in [Clients -> 0..(Handshake + MaxData)]
  /\ got \in [Clients -> Seq(Message)]

TypeOK == ProxyTypes /\ ConnsTypes /\ KernelTypes /\ FarTypes /\ PeersTypes

(* As long as no handler has gone on with an entry that is not its own, the *)
(* entry of every open client, every open server and every resolver at work *)
(* is in the table exactly once: dropping one entry by moving another into  *)
(* its place neither loses nor doubles one.                                 *)
Owns(P(_)) == Cardinality({k \in Live : P(table[k])}) = 1
EachHasOneEntry ==
  ~stray /\ pc # "dead" =>
    /\ \A c \in Clients : sock[c] = "open" => Owns(LAMBDA e : e.client = c)
    /\ \A k \in Live : sock[table[k].client] = "open"
    /\ \A s \in DOMAIN servers : servers[s].open => Owns(LAMBDA e : e.server = s)
    /\ \A r \in DOMAIN resolvers : resolvers[r] \in {"running", "late"} =>
         Owns(LAMBDA e : e.R = r /\ e.status = "RESOLVING")

(* What the client c has sent after the piece that was the last the proxy   *)
(* took for its request, and what it receives before and with what the      *)
(* server s has sent.                                                       *)
SentAfter(from, c) == [n \in 1..(sent[c] - from) |-> from + n]
Accepted == <<Reply("welcome"), Reply("granted")>>
Datas(pieces) == [n \in DOMAIN pieces |-> Data(pieces[n])]
SentFrom(s) == Accepted \o [n \in 1..s.sent |-> Data(n)]

(* The end of a request goes to the server as data (proxy.c:156): of nobody *)
(* but a client that asks for a name and sends its request in pieces.       *)
WholeUnlessSlow(s) ==
  s.from < Handshake => plan[s.client].atyp = "name" /\ plan[s.client].slow

(* While a connection forwards, every byte a side has sent since the proxy  *)
(* took the request is in exactly one place, in order: received by the      *)
(* other side, on its way, in the buffer of the entry, or not yet read.     *)
(* The client receives two answers before and no other between.             *)
NothingIsLost ==
  ~stray /\ pc # "dead" => \A k \in Live :
    LET e == table[k]
        s == servers[e.server]
    IN  e.status = "FORWARDING" =>
          /\ WholeUnlessSlow(s)
          /\ s.peer # "refused" =>
               s.got \o s.wq \o Held(e.bufC) \o inq[e.client] = SentAfter(s.from, e.client)
          /\ end[e.client] # "reset" =>
               got[e.client] \o wq[e.client] \o Datas(Held(e.bufS) \o s.inq) = SentFrom(s)

(* A connection to a server is closed only when one side has finished and   *)
(* all it had sent has been passed on; of what the other side has sent, what *)
(* had been read has been passed on too.                                    *)
ClosedWhenOneSideIsDone ==
  ~stray => \A n \in DOMAIN servers :
    LET s == servers[n]
        c == s.client
    IN  ~s.open /\ s.peer # "refused" /\ end[c] # "reset" =>
          /\ WholeUnlessSlow(s)
          /\ s.got \o s.wq \o inq[c] = SentAfter(s.from, c)
          /\ got[c] \o wq[c] \o Datas(s.inq) = SentFrom(s)
          /\ \/ end[c] = "fin" /\ inq[c] = <<>>
             \/ s.peer = "fin" /\ s.inq = <<>>

(* Every client that has connected and finished is accepted and closed in   *)
(* the end, unless a signal has killed the proxy or a handler went on with  *)
(* an entry that is not its own.                                            *)
EveryClientIsClosed ==
  \A c \in Clients :
    end[c] \in {"fin", "reset"} ~> sock[c] = "closed" \/ pc = "dead" \/ stray
==============================================================================
